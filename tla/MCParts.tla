-------------------------------- MODULE MCParts --------------------------------
(* Small instances of the components that share no state in their models: the   *)
(* state chooses one of them, which takes the steps, and the others stay as they  *)
(* are.  One run checks them all.                                          *)
EXTENDS FacebookIncome, ReadHandlers, SentimentJob, ExportContent, ArchiveImport, TLC

CONSTANTS first_archive, second_archive, late_archive, one_parse, other_parse

VARIABLE running  \* the component that takes the steps

partVars == <<running, incomeVars, readVars, sentimentVars, exportVars, importVars>>

MCInit ==
    /\ running \in {"income", "lists", "counts", "sentiment", "export", "import"}
    /\ IncomeInit /\ ReadInit /\ SentimentInit /\ ExportInit /\ ImportInit
    /\ running # "lists" => items = {}
    /\ running # "export" => processed = {}

IncomeStep ==
    /\ running = "income" /\ IncomeNext
    /\ UNCHANGED <<running, readVars, sentimentVars, exportVars, importVars>>

ListStep ==
    /\ running = "lists" /\ ListNext
    /\ UNCHANGED <<running, incomeVars, sentimentVars, exportVars, importVars>>

CountStep ==
    /\ running = "counts" /\ CountNext
    /\ UNCHANGED <<running, incomeVars, sentimentVars, exportVars, importVars>>

SentimentStep ==
    /\ running = "sentiment" /\ SentimentNext
    /\ UNCHANGED <<running, incomeVars, readVars, exportVars, importVars>>

\* Bound: archives are processed, or entries are inserted, in a behaviour.
ExportStep ==
    /\ running = "export" /\ ExportNext
    /\ processed' = {} \/ parsing' = [e \in Entry |-> 0]
    /\ UNCHANGED <<running, incomeVars, readVars, sentimentVars, importVars>>

ImportStep ==
    /\ running = "import" /\ ImportNext
    /\ UNCHANGED <<running, incomeVars, readVars, sentimentVars, exportVars>>

MCNext == IncomeStep \/ ListStep \/ CountStep \/ SentimentStep \/ ExportStep \/ ImportStep

MCSpec == MCInit /\ [][MCNext]_partVars

-----------------------------------------------------------------------------
(* Constants. *)

\* The tables of three quarters, with a gap and without, of one and of none.
MCQuarters ==
    [a \in Areas |->
        CASE a = "rest" -> <<>>
          [] a = "europe" -> <<[started |-> 4, ended |-> 6]>>
          [] OTHER -> <<[started |-> 3, ended |-> 5], [started |-> 6, ended |-> 10],
                        [started |-> 11, ended |-> 13]>>]
MCContinent == ("de" :> "Europe") @@ ("jp" :> "Asia") @@ ("us" :> "North America")

\* Thursday 2009-12-31 and the days around it, over the ends of week, year and decade.
MCPostTime == {1262217600 - 604800, 1262217600, 1262304000, 1262476800, 1262476800 + 604800}

\* Two archives of one second, and one of another.
MCCreatedAt == (first_archive :> 1) @@ (second_archive :> 1) @@ (late_archive :> 2)

TagOf(name) == [kind |-> "tag", name |-> name]
MediumOf(t, index, file) == [kind |-> "media", at |-> t, index |-> index, file |-> file]

\* A friend whom both archives list alike, and two with one timestamp.
MCFriendTime ==
    (one_parse :> ("listed" :> 1 @@ "twin" :> 2)) @@
    (other_parse :> ("listed" :> 1 @@ "other twin" :> 2))

\* The range of a new account, and one that leaves out the post in both archives.
MCRanges == {[first |-> 0, last |-> 0], [first |-> 1, last |-> 1]}

\* A post in both archives, with a friend whom both list and one whom none lists, and a medium;
\* a comment with a medium of the same time and index.
MCEntries ==
    [p \in Parse |->
        <<[kind |-> "post", at |-> 1,
           items |-> <<TagOf("unlisted"), TagOf("listed"), MediumOf(1, 0, "photo")>>],
          IF p = one_parse
          THEN [kind |-> "comment", at |-> 1, items |-> <<MediumOf(1, 0, "nested")>>]
          ELSE [kind |-> "post", at |-> 2, items |-> <<[kind |-> "place"]>>]>>]
MCMediaFiles == (one_parse :> <<"photo", "nested">>) @@ (other_parse :> <<"photo">>)

-----------------------------------------------------------------------------
(* The properties are those of the components, with their types in one. *)

PartsTypeOK ==
    /\ IncomeTypeOK /\ ReadTypeOK /\ SentimentTypeOK /\ ExportTypeOK /\ ImportTypeOK
=============================================================================
