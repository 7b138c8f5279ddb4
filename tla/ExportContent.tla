----------------------------- MODULE ExportContent -----------------------------
(***************************************************************************)
(* What prepare_data_export puts into the file it uploads                     *)
(* (background/export.go; DataExport has the export's row and task around it).  *)
(* The job copies the account's processed archives, then asks DynamoDB and the *)
(* database for one collection after the other, each into a file of its own,   *)
(* zips the directory and uploads it.  Meanwhile the other jobs of the account *)
(* insert rows, in the order of the parser, and analyse them.               *)
(*                                                                         *)
(* An entry stands for a post with all that belongs to it; a collection is a  *)
(* set of entries.                                                         *)
(***************************************************************************)
EXTENDS Naturals, Sequences, FiniteSets, SequencesExt

CONSTANTS
    Archive,      \* archives of the account
    CreatedAt,    \* [Archive -> the second its row was created]
    Entry,        \* what the archives bring
    ExportFaults  \* "mkdir", "call": a step that can fail; "close": the zip file's end is not written

ASSUME CreatedAssumption == DOMAIN CreatedAt = Archive

\* The collections of DynamoDB in the order of the job, and the tables of the database.
ItemFiles == <<"reaction", "post", "post-week-stat", "post-year-stat", "post-decade-stat",
               "reaction-week-stat", "reaction-year-stat", "reaction-decade-stat">>
RowFiles == <<"db_post", "db_postmedia", "db_tag", "db_place", "db_reaction", "db_comment",
              "db_friend">>

\* Mutant: the database comes first.
Files_RowsFirst == RowFiles \o ItemFiles

\* The files of spring_archives, in the order they are written.
Files == ItemFiles \o RowFiles

\* The order the parser inserts in, and the order the analysis stores in.
ParseOrder == <<"db_friend", "db_post", "db_tag", "db_postmedia", "db_place", "db_reaction",
                "db_comment">>
AnalysisOrder == <<"post", "post-week-stat", "post-year-stat", "post-decade-stat",
                   "reaction", "reaction-week-stat", "reaction-year-stat", "reaction-decade-stat">>
RowsOf(collection) == IF collection \in {"post", "post-week-stat", "post-year-stat",
                                         "post-decade-stat"} THEN "db_post" ELSE "db_reaction"

VARIABLES
    processed,  \* archives with the status processed
    data,       \* the entries in each collection, of DynamoDB and of the database
    parsing,    \* how far the rows of each entry are inserted
    analysed,   \* how far the analysis is
    at,         \* what the job is at
    chosen,     \* the archives it has found
    toCopy,     \* those it has not copied
    copies,     \* content of fb_archives, by the second in the name
    written,    \* content of spring_archives, by file
    began,      \* data when the job began
    uploaded,   \* the file in the bucket, <<>> if there is none
    outcome     \* what the job returned

exportVars == <<processed, data, parsing, analysed, at, chosen, toCopy, copies, written, began,
                uploaded, outcome>>
worldVars == <<processed, data, parsing, analysed>>

NoData == [c \in Range(Files) |-> {}]

ExportInit ==
    /\ processed \in SUBSET Archive /\ data = NoData
    /\ parsing = [e \in Entry |-> 0] /\ analysed = 0
    /\ at = "idle" /\ chosen = {} /\ toCopy = {} /\ copies = <<>> /\ written = <<>>
    /\ began = NoData /\ uploaded = <<>> /\ outcome = "none"

-----------------------------------------------------------------------------
(* The other jobs.  Their steps while the export copies archives, which touches nothing of  *)
(* theirs, are those before its first file.                                             *)

Beside == at \in {"idle", "write"}

\* ParseFacebookArchive: the rows of an entry, table by table.
ParseRow(e) ==
    /\ Beside /\ parsing[e] < Len(ParseOrder)
    /\ parsing' = [parsing EXCEPT ![e] = @ + 1]
    /\ data' = [data EXCEPT ![ParseOrder[parsing'[e]]] = @ \cup {e}]
    /\ UNCHANGED <<processed, analysed, at, chosen, toCopy, copies, written, began, uploaded, outcome>>

\* extractPost and extractReaction, after an archive has been parsed: the items of the rows
\* that are there.
Analyse ==
    /\ Beside
    /\ analysed > 0 \/ \E e \in Entry : parsing[e] = Len(ParseOrder) /\ e \notin data["post"]
    /\ LET collection == AnalysisOrder[analysed + 1]
       IN /\ data' = [data EXCEPT ![collection] = data[RowsOf(collection)]]
          /\ analysed' = (analysed + 1) % Len(AnalysisOrder)
    /\ UNCHANGED <<processed, parsing, at, chosen, toCopy, copies, written, began, uploaded, outcome>>

\* An archive is done, or is parsed again.
ChangeStatus(a) ==
    /\ at \in {"find", "mkdir"}
    /\ processed' = IF a \in processed THEN processed \ {a} ELSE processed \cup {a}
    /\ UNCHANGED <<data, parsing, analysed, at, chosen, toCopy, copies, written, began, uploaded, outcome>>

-----------------------------------------------------------------------------
(* The job. *)

Return(result) == at' = "end" /\ outcome' = result

\* A call fails, and the job returns its error.
Fails == "call" \in ExportFaults /\ Return("error")

\* prepareUserExportData begins, and makes its directory.
BeginExport ==
    /\ at = "idle"
    /\ began' = data
    /\ at' = "find" /\ UNCHANGED outcome
    /\ UNCHANGED <<worldVars, chosen, toCopy, copies, written, uploaded>>

\* The query of the processed archives.
FindArchives ==
    /\ at = "find"
    /\ \/ /\ chosen' = processed /\ toCopy' = processed
          /\ at' = IF processed = {} THEN "mkdir" ELSE "mkdir_archives"
          /\ UNCHANGED outcome
       \/ Fails /\ UNCHANGED <<chosen, toCopy>>
    /\ UNCHANGED <<worldVars, copies, written, began, uploaded>>

\* Mkdir: "err != fs.Mkdir(...)" returns the outer err, which is nil.
MakeDir ==
    /\ at \in {"mkdir_archives", "mkdir"}
    /\ \/ at' = (IF at = "mkdir" THEN "write" ELSE "copy") /\ UNCHANGED outcome
       \/ "mkdir" \in ExportFaults /\ Return("nil")
    /\ UNCHANGED <<worldVars, chosen, toCopy, copies, written, began, uploaded>>

\* Mutant: an archive that cannot be downloaded is left out.
CopyArchive_Skips ==
    /\ at = "copy" /\ toCopy # {}
    /\ \E a \in toCopy :
           /\ toCopy' = toCopy \ {a}
           /\ \/ copies' = [s \in DOMAIN copies \cup {CreatedAt[a]} |->
                               IF s = CreatedAt[a] THEN a ELSE copies[s]]
              \/ "call" \in ExportFaults /\ UNCHANGED copies
           /\ at' = IF toCopy' = {} THEN "mkdir" ELSE "copy"
    /\ UNCHANGED <<worldVars, chosen, written, began, uploaded, outcome>>

\* DownloadArchive of one archive, named by the second it was created in.
CopyArchive ==
    /\ at = "copy" /\ toCopy # {}
    /\ \/ \E a \in toCopy :
              /\ toCopy' = toCopy \ {a}
              /\ copies' = [s \in DOMAIN copies \cup {CreatedAt[a]} |->
                               IF s = CreatedAt[a] THEN a ELSE copies[s]]
              /\ at' = IF toCopy' = {} THEN "mkdir" ELSE "copy"
              /\ UNCHANGED outcome
       \/ Fails /\ UNCHANGED <<toCopy, copies>>
    /\ UNCHANGED <<worldVars, chosen, written, began, uploaded>>

\* One file of spring_archives: create, query, encode, close.
WriteFile ==
    /\ at = "write"
    /\ LET file == Files[Cardinality(DOMAIN written) + 1]
       IN \/ /\ written' = [f \in DOMAIN written \cup {file} |->
                               IF f = file THEN data[file] ELSE written[f]]
             /\ at' = IF DOMAIN written' = Range(Files) THEN "zip" ELSE "write"
             /\ UNCHANGED outcome
          \/ Fails /\ UNCHANGED written
    /\ UNCHANGED <<worldVars, chosen, toCopy, copies, began, uploaded>>

\* ziputil.Archive walks the directory; the error of the deferred Close, which writes the
\* directory that a zip file is read by, is lost.
ZipFiles ==
    /\ at = "zip"
    /\ \/ at' = "upload" /\ UNCHANGED <<outcome, copies, written>>
       \/ /\ "close" \in ExportFaults
          /\ at' = "upload" /\ copies' = <<>> /\ written' = <<>> /\ UNCHANGED outcome
       \/ Fails /\ UNCHANGED <<copies, written>>
    /\ UNCHANGED <<worldVars, chosen, toCopy, began, uploaded>>

\* Mutant: the error of the upload is only logged.
Upload_Logged ==
    /\ at = "upload" /\ Return("nil")
    /\ \/ uploaded' = <<copies, written>>
       \/ "call" \in ExportFaults /\ UNCHANGED uploaded
    /\ UNCHANGED <<worldVars, chosen, toCopy, copies, written, began>>

\* UploadFile.
Upload ==
    /\ at = "upload"
    /\ \/ uploaded' = <<copies, written>> /\ Return("nil")
       \/ Fails /\ UNCHANGED uploaded
    /\ UNCHANGED <<worldVars, chosen, toCopy, copies, written, began>>

ExportNext ==
    \/ \E e \in Entry : ParseRow(e)
    \/ Analyse
    \/ \E a \in Archive : ChangeStatus(a)
    \/ BeginExport \/ FindArchives \/ MakeDir \/ CopyArchive \/ WriteFile \/ ZipFiles \/ Upload

ExportSpec == ExportInit /\ [][ExportNext]_exportVars

-----------------------------------------------------------------------------
(* Properties. *)

ExportTypeOK ==
    /\ processed \subseteq Archive /\ chosen \subseteq Archive /\ toCopy \subseteq chosen
    /\ data \in [Range(Files) -> SUBSET Entry]
    /\ DOMAIN written \subseteq Range(Files) /\ DOMAIN copies \subseteq Range(CreatedAt)
    /\ outcome \in {"none", "nil", "error"}

SameSecond(a) == \E b \in chosen \ {a} : CreatedAt[b] = CreatedAt[a]

\* An export that is in the bucket has every archive that was processed when the job asked, each
\* under a name of its own, and in every file all that was in the collection when the job
\* began, whatever is inserted while it goes through them one by one (prepareUserExportData).
\* Two archives created within a second have one name, and the error of closing the zip file is
\* lost, which is all it takes for an export without a file.
ExportComplete ==
    uploaded # <<>> =>
        \/ "close" \in ExportFaults /\ uploaded = <<<<>>, <<>>>>
        \/ /\ \A a \in chosen :
                  SameSecond(a) \/ \E s \in DOMAIN uploaded[1] : uploaded[1][s] = a
           /\ \A f \in Range(Files) : f \in DOMAIN uploaded[2] /\ began[f] \subseteq uploaded[2][f]

\* Every post and every reaction that an export has from DynamoDB, with its statistics, it has
\* from the database, too: rows are inserted before they are analysed, and the export reads them
\* afterwards.
ItemsHaveRows ==
    uploaded # <<>> /\ uploaded[2] # <<>> =>
        \A i \in DOMAIN ItemFiles :
            LET c == ItemFiles[i] IN uploaded[2][c] \subseteq uploaded[2][RowsOf(c)]

(***************************************************************************)
(* The job is the one a worker of DataExport carries out, with its calls up    *)
(* to the upload taken together: it fails where that fails, a directory that    *)
(* cannot be made is a success without a file, and a success with one is what   *)
(* the row is then given its name by.                                       *)
(***************************************************************************)
Job == INSTANCE DataExport
           WITH Account <- {"account"}, Export <- {"export"}, Worker <- {"worker"},
                Owner <- [e \in {"export"} |-> "account"], NoExport <- "none",
                Faults <- {IF f = "call" THEN "job" ELSE f : f \in ExportFaults \ {"close"}},
                status <- [e \in {"export"} |-> "PENDING"],
                fileKey <- [e \in {"export"} |-> FALSE],
                s3 <- IF uploaded = <<>> THEN {} ELSE {"export"},
                sending <- {},
                state <- [e \in {"export"} |-> IF at = "idle" THEN "PENDING" ELSE "STARTED"],
                queue <- IF at = "idle" THEN <<"export">> ELSE <<>>,
                job <- [w \in {"worker"} |-> IF at = "idle" THEN "none" ELSE "export"],
                pc <- [w \in {"worker"} |->
                          CASE at \in {"idle", "upload"} -> at
                            [] at = "end" -> (IF uploaded = <<>> THEN "report" ELSE "name")
                            [] OTHER -> "build"],
                result <- [w \in {"worker"} |->
                              IF outcome = "nil" /\ uploaded = <<>> THEN "SUCCESS" ELSE "FAILURE"]
ImplementsJob == [][Job!WorkerStep("worker")]_(Job!vars)
=============================================================================
