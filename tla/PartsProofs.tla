------------------------------ MODULE PartsProofs ------------------------------
(***************************************************************************)
(* The components that MCParts runs beside one another, for all values of       *)
(* their constants: a behaviour of MCParts is one of each component, so that      *)
(* what is proved of the components holds of the run.                          *)
(***************************************************************************)
EXTENDS MCParts, StatisticsProofs, ImportExportProofs

LEMMA PartsInit ==
    MCInit => IncomeInit /\ ReadInit /\ SentimentInit /\ ExportInit /\ ImportInit
BY DEF MCInit

(***************************************************************************)
(* A step of MCParts is a step or a stutter of every component: the one that  *)
(* runs takes it, also where the run bounds it, and the others stay as they    *)
(* are.                                                                    *)
(***************************************************************************)
LEMMA PartsStep ==
    [MCNext]_partVars =>
        /\ [IncomeNext]_incomeVars
        /\ [ReadNext]_readVars
        /\ [SentimentNext]_sentimentVars
        /\ [ExportNext]_exportVars
        /\ [ImportNext]_importVars
<1>1. CASE IncomeStep
  BY <1>1 DEF IncomeStep
<1>2. CASE ListStep
  BY <1>2 DEF ListStep, ReadNext
<1>3. CASE CountStep
  BY <1>3 DEF CountStep, ReadNext
<1>4. CASE SentimentStep
  BY <1>4 DEF SentimentStep
<1>5. CASE ExportStep
  BY <1>5 DEF ExportStep
<1>6. CASE ImportStep
  BY <1>6 DEF ImportStep
<1>7. CASE UNCHANGED partVars
  BY <1>7 DEF partVars
<1> QED
  BY <1>1, <1>2, <1>3, <1>4, <1>5, <1>6, <1>7 DEF MCNext

(***************************************************************************)
(* Every behaviour of MCParts is a behaviour of each component               *)
(* (FacebookIncome, ReadHandlers, SentimentJob, ExportContent, ArchiveImport). *)
(***************************************************************************)
THEOREM PartsCompose ==
    MCSpec => IncomeSpec /\ ReadSpec /\ SentimentSpec /\ ExportSpec /\ ImportSpec
BY PartsInit, PartsStep, PTL
   DEF MCSpec, IncomeSpec, ReadSpec, SentimentSpec, ExportSpec, ImportSpec

(***************************************************************************)
(* The types of the components hold.                                        *)
(***************************************************************************)
THEOREM PartsTyped == MCSpec => []PartsTypeOK
<1>1. MCSpec => /\ []IncomeTypeOK /\ []ReadTypeOK /\ []SentimentTypeOK
                /\ []ExportTypeOK /\ []ImportTypeOK
  BY PartsCompose, IncomeTyped, ReadTyped, SentimentTyped, ExportTyped, ImportTyped
<1>2. /\ IncomeTypeOK /\ ReadTypeOK /\ SentimentTypeOK /\ ExportTypeOK /\ ImportTypeOK
      => PartsTypeOK
  BY DEF PartsTypeOK
<1> QED
  BY <1>1, <1>2, PTL
=============================================================================
