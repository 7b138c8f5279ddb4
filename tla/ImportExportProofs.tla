--------------------------- MODULE ImportExportProofs ---------------------------
(***************************************************************************)
(* What an archive brings into the database and the bucket, and what of it      *)
(* prepare_data_export uploads: the invariants of ExportContent and of          *)
(* ArchiveImport, for all archives, entries and failures.                       *)
(***************************************************************************)
EXTENDS ExportContent, ArchiveImport, Integers, FiniteSetTheorems, FunctionTheorems, TLAPS

-----------------------------------------------------------------------------
(***************************************************************************)
(* The export, beside a parse and an analysis.  Collections only grow, and those *)
(* of DynamoDB never have what the database has not; so a file that is written   *)
(* later has no less than the collection had before, and the files of the        *)
(* database, which come last, have no less than those of DynamoDB.               *)
(***************************************************************************)

(* The names of the files. *)

Items == {"reaction", "post", "post-week-stat", "post-year-stat", "post-decade-stat",
          "reaction-week-stat", "reaction-year-stat", "reaction-decade-stat"}
RowTables == {"db_post", "db_postmedia", "db_tag", "db_place", "db_reaction", "db_comment", "db_friend"}

LEMMA Orders ==
  /\ Len(ParseOrder) = 7 /\ \A n \in 1..7 : ParseOrder[n] \in RowTables
  /\ Len(AnalysisOrder) = 8 /\ \A n \in 1..8 : AnalysisOrder[n] \in Items
  /\ Len(ItemFiles) = 8 /\ \A n \in 1..8 : ItemFiles[n] \in Items
  /\ Len(RowFiles) = 7 /\ \A n \in 1..7 : RowFiles[n] \in RowTables
<1>1. Len(ParseOrder) = 7 /\ \A n \in 1..7 : ParseOrder[n] \in RowTables
  BY DEF ParseOrder, RowTables
<1>2. Len(AnalysisOrder) = 8 /\ \A n \in 1..8 : AnalysisOrder[n] \in Items
  BY DEF AnalysisOrder, Items
<1>3. Len(ItemFiles) = 8 /\ \A n \in 1..8 : ItemFiles[n] \in Items
  BY DEF ItemFiles, Items
<1>4. Len(RowFiles) = 7 /\ \A n \in 1..7 : RowFiles[n] \in RowTables
  BY DEF RowFiles, RowTables
<1> QED
  BY <1>1, <1>2, <1>3, <1>4

LEMMA ItemNames == \A c \in Items : \E n \in 1..8 : ItemFiles[n] = c
<1> SUFFICES ASSUME NEW c \in Items PROVE \E n \in 1..8 : ItemFiles[n] = c
  OBVIOUS
<1>1. /\ ItemFiles[1] = "reaction" /\ ItemFiles[2] = "post" /\ ItemFiles[3] = "post-week-stat"
      /\ ItemFiles[4] = "post-year-stat" /\ ItemFiles[5] = "post-decade-stat"
      /\ ItemFiles[6] = "reaction-week-stat" /\ ItemFiles[7] = "reaction-year-stat"
      /\ ItemFiles[8] = "reaction-decade-stat"
  BY DEF ItemFiles
<1> QED
  BY <1>1 DEF Items

LEMMA RowNames == \A c \in RowTables : \E n \in 1..7 : RowFiles[n] = c
<1> SUFFICES ASSUME NEW c \in RowTables PROVE \E n \in 1..7 : RowFiles[n] = c
  OBVIOUS
<1>1. /\ RowFiles[1] = "db_post" /\ RowFiles[2] = "db_postmedia" /\ RowFiles[3] = "db_tag"
      /\ RowFiles[4] = "db_place" /\ RowFiles[5] = "db_reaction" /\ RowFiles[6] = "db_comment"
      /\ RowFiles[7] = "db_friend"
  BY DEF RowFiles
<1> QED
  BY <1>1 DEF RowTables

LEMMA FunctionIsSeq ==
  ASSUME NEW n \in Nat, NEW S, NEW f \in [1..n -> S]
  PROVE  f \in Seq(S)
  OBVIOUS

LEMMA FileNames ==
  /\ DOMAIN Files = 1..15
  /\ \A n \in 1..8 : Files[n] \in Items
  /\ \A n \in 9..15 : Files[n] \in RowTables
  /\ Range(Files) = Items \cup RowTables
<1> DEFINE Names == Items \cup RowTables
<1>1. ItemFiles \in Seq(Names) /\ RowFiles \in Seq(Names)
  <2>1. ItemFiles \in [1..8 -> Names]
    BY Orders DEF ItemFiles
  <2>2. RowFiles \in [1..7 -> Names]
    BY Orders DEF RowFiles
  <2> HIDE DEF Names
  <2> QED
    BY <2>1, <2>2, FunctionIsSeq
<1>2. /\ DOMAIN Files = 1..15
      /\ \A n \in 1..8 : Files[n] = ItemFiles[n]
      /\ \A n \in 9..15 : Files[n] = RowFiles[n - 8] /\ n - 8 \in 1..7
      /\ \A n \in 1..7 : n + 8 \in 9..15 /\ Files[n + 8] = RowFiles[n]
  <2> HIDE DEF Names
  <2>1. /\ DOMAIN Files = 1..15
        /\ \A n \in 1..8 : Files[n] = ItemFiles[n]
        /\ \A n \in 1..7 : Files[n + 8] = RowFiles[n]
    <3> DEFINE i == ItemFiles
               r == RowFiles
    <3>1. i \in Seq(Names) /\ r \in Seq(Names) /\ Files = i \o r
      BY <1>1 DEF Files
    <3>2. Len(i) = 8 /\ Len(r) = 7
      BY Orders
    <3> HIDE DEF i, r
    <3>3. /\ DOMAIN (i \o r) = 1..(8 + 7)
          /\ \A n \in 1..8 : (i \o r)[n] = i[n]
          /\ \A n \in 1..7 : (i \o r)[n + 8] = r[n]
      <4>1. /\ DOMAIN (i \o r) = 1..(Len(i) + Len(r))
            /\ \A n \in 1..Len(i) : (i \o r)[n] = i[n]
            /\ \A n \in 1..Len(r) : (i \o r)[n + Len(i)] = r[n]
        <5>1. i \in Seq(Names) /\ r \in Seq(Names)
          BY <3>1
        <5> QED
          BY <5>1
      <4> QED
        BY <4>1, <3>2, ZenonT(30)
    <3>4. 8 + 7 = 15
      OBVIOUS
    <3>5. /\ DOMAIN Files = 1..15
          /\ \A n \in 1..8 : Files[n] = i[n]
          /\ \A n \in 1..7 : Files[n + 8] = r[n]
      BY <3>1, <3>3, <3>4, ZenonT(30)
    <3> QED
      BY <3>5 DEF i, r
  <2>2. \A n \in 9..15 : n - 8 \in 1..7 /\ (n - 8) + 8 = n
    OBVIOUS
  <2>3. \A n \in 1..7 : n + 8 \in 9..15
    OBVIOUS
  <2> QED
    BY <2>1, <2>2, <2>3
<1>3. \A n \in 1..15 : n \in 1..8 \/ n \in 9..15
  OBVIOUS
<1>4. \A n \in 1..8 : n \in 1..15
  OBVIOUS
<1>5. \A n \in 1..15 : Files[n] \in Items \cup RowTables
  BY <1>2, <1>3, Orders
<1>6. \A c \in Items : \E n \in 1..15 : Files[n] = c
  BY <1>2, <1>4, ItemNames
<1>7. \A c \in RowTables : \E n \in 1..15 : Files[n] = c
  <2> SUFFICES ASSUME NEW c \in RowTables PROVE \E n \in 1..15 : Files[n] = c
    OBVIOUS
  <2>1. PICK n \in 1..7 : RowFiles[n] = c
    BY RowNames
  <2>2. n + 8 \in 1..15
    OBVIOUS
  <2> QED
    BY <1>2, <2>1, <2>2
<1> QED
  BY <1>2, <1>5, <1>6, <1>7, Orders DEF Range

LEMMA TablesOfItems ==
  /\ Items \cap RowTables = {}
  /\ \A c \in Items : RowsOf(c) \in RowTables /\ RowsOf(c) # c
  BY DEF Items, RowTables, RowsOf

LEMMA FileCount == IsFiniteSet(Range(Files)) /\ Cardinality(Range(Files)) <= 15
<1>1. IsFiniteSet(1..15) /\ Cardinality(1..15) = 15
  <2>1. 1 \in Int /\ 15 \in Int /\ ~(1 > 15) /\ 15 - 1 + 1 = 15
    OBVIOUS
  <2> QED
    BY <2>1, FS_Interval
<1> DEFINE f == [n \in 1..15 |-> Files[n]]
<1>2. f \in [1..15 -> Range(Files)] /\ \A c \in Range(Files) : \E n \in 1..15 : f[n] = c
  BY FileNames DEF Range
<1> HIDE DEF f
<1>3. f \in Surjection(1..15, Range(Files))
  BY <1>2, Fun_IsSurj
<1> QED
  BY <1>1, <1>3, FS_Surjection

\* The names of ItemFiles are eight.
LEMMA ItemCount == IsFiniteSet(Items) /\ Cardinality(Items) = 8
<1>1. IsFiniteSet(1..8) /\ Cardinality(1..8) = 8
  <2>1. 1 \in Int /\ 8 \in Int /\ ~(1 > 8) /\ 8 - 1 + 1 = 8
    OBVIOUS
  <2> QED
    BY <2>1, FS_Interval
<1> DEFINE f == [n \in 1..8 |-> ItemFiles[n]]
<1>2. f \in [1..8 -> Items] /\ \A c \in Items : \E n \in 1..8 : f[n] = c
  BY Orders, ItemNames
<1>3. \A m, n \in 1..8 : f[m] = f[n] => m = n
  <2>1. /\ f[1] = "reaction" /\ f[2] = "post" /\ f[3] = "post-week-stat"
        /\ f[4] = "post-year-stat" /\ f[5] = "post-decade-stat"
        /\ f[6] = "reaction-week-stat" /\ f[7] = "reaction-year-stat"
        /\ f[8] = "reaction-decade-stat"
    BY DEF ItemFiles
  <2> HIDE DEF f
  <2>2. \A n \in 1..8 : n = 1 \/ n = 2 \/ n = 3 \/ n = 4 \/ n = 5 \/ n = 6 \/ n = 7 \/ n = 8
    OBVIOUS
  <2> QED
    BY <2>1, <2>2
<1> HIDE DEF f
<1>4. f \in Surjection(1..8, Items) /\ f \in Injection(1..8, Items)
  BY <1>2, <1>3, Fun_IsSurj, Fun_IsInj
<1> QED
  BY <1>1, <1>4, FS_Surjection

-----------------------------------------------------------------------------
(* The invariant. *)

Stages == {"idle", "find", "mkdir_archives", "copy", "mkdir", "write", "zip", "upload", "end"}

ContentTyped ==
    /\ at \in Stages
    /\ data \in [Range(Files) -> SUBSET Entry]
    /\ parsing \in [Entry -> 0..7] /\ analysed \in 0..7
    /\ DOMAIN written \subseteq Range(Files)
    /\ toCopy \subseteq chosen

\* What DynamoDB has, the database has, and both have what they had when the job began.
Grown ==
    /\ \A c \in Items : data[c] \subseteq data[RowsOf(c)]
    /\ \A f \in Range(Files) : began[f] \subseteq data[f]

\* Each file has what its collection had between the start of the job and now.
Between == \A f \in DOMAIN written : began[f] \subseteq written[f] /\ written[f] \subseteq data[f]

\* The files of the database are written after all of DynamoDB's, and have all of theirs.
RowsLast ==
    \A c \in RowTables : c \in DOMAIN written => Items \subseteq DOMAIN written
RowsCover ==
    \A c \in Items : RowsOf(c) \in DOMAIN written => written[c] \subseteq written[RowsOf(c)]

\* Every archive that is copied has a name of its own, or shares its second.
Copied ==
    \A a \in chosen \ toCopy :
        SameSecond(a) \/ (CreatedAt[a] \in DOMAIN copies /\ copies[CreatedAt[a]] = a)

Closed == "close" \in ExportFaults /\ copies = <<>> /\ written = <<>>

\* How far the job is.
Progress ==
    /\ at \in {"idle", "find", "mkdir_archives", "copy", "mkdir"} => DOMAIN written = {}
    /\ at \in {"mkdir", "write", "zip", "upload"} => toCopy = {}
    /\ at = "write" => DOMAIN written # Range(Files)
    /\ at = "zip" => DOMAIN written = Range(Files)
    /\ at = "upload" => Closed \/ DOMAIN written = Range(Files)
    /\ at # "end" => uploaded = <<>>

FilesInv == Between /\ RowsLast /\ RowsCover
CopiesInv == at # "end" => Copied \/ (at = "upload" /\ Closed)

ContentInv ==
    /\ ContentTyped /\ Grown /\ FilesInv /\ CopiesInv /\ Progress
    /\ ExportComplete /\ ItemsHaveRows

-----------------------------------------------------------------------------
(* The steps. *)

\* The next file is one of DynamoDB's until all of those are written.
LEMMA NextFile ==
  ASSUME ContentTyped, RowsLast, Progress, at = "write"
  PROVE  LET file == Files[Cardinality(DOMAIN written) + 1]
         IN /\ file \in Range(Files)
            /\ file \in RowTables => Items \subseteq DOMAIN written
            /\ file \in Items => \A c \in RowTables : c \notin DOMAIN written
<1> DEFINE D == DOMAIN written
           k == Cardinality(D)
<1>1. D \subseteq Range(Files) /\ D # Range(Files)
  BY DEF ContentTyped, Progress
<1>2. IsFiniteSet(D) /\ k \in Nat /\ Cardinality(Range(Files)) \in Nat
  BY <1>1, FileCount, FS_Subset, FS_CardinalityType
<1>3. k + 1 \in 1..15
  <2>1. k <= Cardinality(Range(Files)) /\ k # Cardinality(Range(Files))
    BY <1>1, FileCount, FS_Subset
  <2> HIDE DEF k
  <2> QED
    BY <2>1, <1>2, FileCount
<1>4. Files[k + 1] \in Range(Files)
  BY <1>3, FileNames DEF Range
<1>5. ASSUME Files[k + 1] \in RowTables PROVE Items \subseteq D
  <2>1. k + 1 \notin 1..8
    BY <1>5, FileNames, TablesOfItems
  <2>2. k >= 8
    <3> HIDE DEF k
    <3> QED
      BY <2>1, <1>2, <1>3
  <2>3. CASE \E c \in RowTables : c \in D
    BY <2>3 DEF RowsLast
  <2>4. CASE D \subseteq Items
    <3>1. k <= 8 /\ (k = 8 => D = Items)
      BY <2>4, ItemCount, FS_Subset
    <3> HIDE DEF k
    <3> QED
      BY <3>1, <2>2, <1>2
  <2>5. D \subseteq Items \/ \E c \in RowTables : c \in D
    BY <1>1, FileNames
  <2> QED
    BY <2>3, <2>4, <2>5
<1>6. ASSUME Files[k + 1] \in Items, NEW c \in RowTables, c \in D PROVE FALSE
  <2>1. k + 1 \notin 9..15
    BY <1>6, FileNames, TablesOfItems
  <2>2. 8 <= k
    <3>1. Items \subseteq D
      BY <1>6 DEF RowsLast
    <3> QED
      BY <3>1, <1>2, ItemCount, FS_Subset
  <2> HIDE DEF k
  <2> QED
    BY <2>1, <2>2, <1>2, <1>3
<1> QED
  BY <1>4, <1>5, <1>6

LEMMA InitContent == ExportInit => ContentInv
<1> SUFFICES ASSUME ExportInit PROVE ContentInv
  OBVIOUS
<1> USE DEF ExportInit
<1>1. data = [c \in Range(Files) |-> {}] /\ began = data /\ DOMAIN written = {} /\ copies = <<>>
  BY DEF NoData
<1>2. ContentTyped
  BY <1>1 DEF ContentTyped, Stages
<1>3. Grown
  BY <1>1, FileNames, TablesOfItems DEF Grown
<1>4. FilesInv
  BY <1>1 DEF FilesInv, Between, RowsLast, RowsCover
<1>5. CopiesInv /\ Progress
  BY <1>1 DEF CopiesInv, Copied, Progress
<1>6. ExportComplete /\ ItemsHaveRows
  BY DEF ExportComplete, ItemsHaveRows
<1> QED
  BY <1>2, <1>3, <1>4, <1>5, <1>6 DEF ContentInv

\* What a step of the other jobs, which only adds, leaves of the invariant.
LEMMA WorldStep ==
  ASSUME ContentInv, ContentTyped', (\A c \in Items : data[c] \subseteq data[RowsOf(c)])',
         \A f \in Range(Files) : data[f] \subseteq data'[f],
         UNCHANGED <<at, chosen, toCopy, copies, written, began, uploaded, outcome>>
  PROVE  ContentInv'
<1> USE DEF ContentInv
<1>1. Grown'
  BY DEF Grown
<1>2. FilesInv'
  <2>1. DOMAIN written \subseteq Range(Files)
    BY DEF ContentTyped
  <2> QED
    BY <2>1 DEF FilesInv, Between, RowsLast, RowsCover
<1>3. CopiesInv' /\ Progress'
  BY DEF CopiesInv, Copied, SameSecond, Closed, Progress
<1>4. ExportComplete' /\ ItemsHaveRows'
  BY DEF ExportComplete, ItemsHaveRows, SameSecond
<1> QED
  BY <1>1, <1>2, <1>3, <1>4

LEMMA AddedTo ==
  ASSUME NEW S, NEW T, NEW f \in [S -> SUBSET T], NEW c \in S, NEW e \in T
  PROVE  LET g == [f EXCEPT ![c] = f[c] \cup {e}]
         IN /\ g \in [S -> SUBSET T]
            /\ \A s \in S : f[s] \subseteq g[s] /\ (s # c => g[s] = f[s])
  OBVIOUS

LEMMA ParseRowContent ==
  ASSUME ContentInv, NEW e \in Entry, ParseRow(e)
  PROVE  ContentInv'
<1> USE DEF ParseRow
<1>1. parsing[e] \in 0..7 /\ Len(ParseOrder) = 7
  BY Orders DEF ContentInv, ContentTyped
<1>2. parsing' = [parsing EXCEPT ![e] = parsing[e] + 1]
  OBVIOUS
<1>3. parsing'[e] = parsing[e] + 1 /\ parsing' \in [Entry -> 0..7]
  <2>1. parsing[e] + 1 \in 0..7
    BY <1>1
  <2> QED
    BY <1>2, <2>1 DEF ContentInv, ContentTyped
<1> DEFINE c == ParseOrder[parsing'[e]]
<1>4. c \in RowTables /\ c \in Range(Files)
  <2>1. parsing'[e] \in 1..7
    BY <1>1, <1>3
  <2> QED
    BY <2>1, Orders, FileNames
<1>5. data' = [data EXCEPT ![c] = data[c] \cup {e}]
  OBVIOUS
<1> HIDE DEF c
<1>6. /\ data' \in [Range(Files) -> SUBSET Entry]
      /\ \A f \in Range(Files) : data[f] \subseteq data'[f] /\ (f # c => data'[f] = data[f])
  <2>1. data \in [Range(Files) -> SUBSET Entry]
    BY DEF ContentInv, ContentTyped
  <2> QED
    BY ONLY <1>4, <1>5, <2>1, AddedTo
<1>7. ContentTyped'
  BY <1>3, <1>6 DEF ContentInv, ContentTyped
<1>8. (\A i \in Items : data[i] \subseteq data[RowsOf(i)])'
  <2> SUFFICES ASSUME NEW i \in Items PROVE data'[i] \subseteq data'[RowsOf(i)]
    OBVIOUS
  <2>1. i # c /\ i \in Range(Files) /\ RowsOf(i) \in Range(Files)
    BY <1>4, FileNames, TablesOfItems
  <2>2. data[i] \subseteq data[RowsOf(i)]
    BY DEF ContentInv, Grown
  <2> QED
    BY <1>6, <2>1, <2>2
<1> QED
  BY <1>6, <1>7, <1>8, WorldStep

LEMMA AnalyseContent == ASSUME ContentInv, Analyse PROVE ContentInv'
<1> USE DEF Analyse
<1>1. analysed \in 0..7 /\ Len(AnalysisOrder) = 8
  BY Orders DEF ContentInv, ContentTyped
<1> DEFINE c == AnalysisOrder[analysed + 1]
<1>2. c \in Items /\ c \in Range(Files) /\ RowsOf(c) \in Range(Files) /\ RowsOf(c) \in RowTables
  <2>1. analysed + 1 \in 1..8
    BY <1>1
  <2> QED
    BY <2>1, Orders, FileNames, TablesOfItems
<1>3. data' = [data EXCEPT ![c] = data[RowsOf(c)]] /\ analysed' = (analysed + 1) % 8
  BY <1>1
<1> HIDE DEF c
<1>4. analysed' \in 0..7
  BY <1>1, <1>3
<1>5. data' \in [Range(Files) -> SUBSET Entry] /\ data'[c] = data[RowsOf(c)]
      /\ \A f \in Range(Files) : f # c => data'[f] = data[f]
  BY <1>2, <1>3 DEF ContentInv, ContentTyped
<1>6. \A f \in Range(Files) : data[f] \subseteq data'[f]
  BY <1>2, <1>5 DEF ContentInv, Grown
<1>7. ContentTyped'
  BY <1>4, <1>5 DEF ContentInv, ContentTyped
<1>8. (\A i \in Items : data[i] \subseteq data[RowsOf(i)])'
  <2> SUFFICES ASSUME NEW i \in Items PROVE data'[i] \subseteq data'[RowsOf(i)]
    OBVIOUS
  <2>1. i \in Range(Files) /\ RowsOf(i) \in Range(Files) /\ RowsOf(i) # c
    BY <1>2, FileNames, TablesOfItems
  <2>2. data[i] \subseteq data[RowsOf(i)]
    BY DEF ContentInv, Grown
  <2> QED
    BY <1>5, <2>1, <2>2
<1> QED
  BY <1>6, <1>7, <1>8, WorldStep

LEMMA ChangeStatusContent ==
  ASSUME ContentInv, NEW a \in Archive, ChangeStatus(a)
  PROVE  ContentInv'
<1>1. UNCHANGED <<data, parsing, analysed, at, chosen, toCopy, copies, written, began, uploaded, outcome>>
  BY DEF ChangeStatus
<1>2. ContentTyped' /\ (\A i \in Items : data[i] \subseteq data[RowsOf(i)])'
  BY <1>1 DEF ContentInv, ContentTyped, Grown
<1> QED
  BY <1>1, <1>2, WorldStep

LEMMA BeginContent == ASSUME ContentInv, BeginExport PROVE ContentInv'
<1> USE DEF BeginExport
<1>1. DOMAIN written = {} /\ uploaded = <<>>
  BY DEF ContentInv, Progress
<1>2. ContentTyped'
  BY DEF ContentInv, ContentTyped, Stages, worldVars
<1>3. Grown'
  BY DEF ContentInv, Grown, worldVars
<1>4. FilesInv'
  BY <1>1 DEF FilesInv, Between, RowsLast, RowsCover
<1>5. CopiesInv'
  BY DEF ContentInv, CopiesInv, Copied, SameSecond, Closed
<1>6. Progress'
  BY DEF ContentInv, Progress
<1>7. ExportComplete' /\ ItemsHaveRows'
  BY <1>1 DEF ExportComplete, ItemsHaveRows
<1> QED
  BY <1>2, <1>3, <1>4, <1>5, <1>6, <1>7 DEF ContentInv

LEMMA FindArchivesContent == ASSUME ContentInv, FindArchives PROVE ContentInv'
<1> USE DEF FindArchives, Fails, Return
<1>1. at = "find" /\ uploaded = <<>> /\ UNCHANGED uploaded
  BY DEF ContentInv, Progress
<1>2. ContentTyped' /\ Grown'
  BY DEF ContentInv, ContentTyped, Grown, Stages, worldVars
<1>3. FilesInv'
  BY DEF ContentInv, FilesInv, Between, RowsLast, RowsCover, worldVars
<1>4. CopiesInv'
  BY DEF CopiesInv, Copied
<1>5. Progress'
  BY DEF ContentInv, Progress
<1>6. ExportComplete' /\ ItemsHaveRows'
  BY <1>1 DEF ExportComplete, ItemsHaveRows
<1> QED
  BY <1>2, <1>3, <1>4, <1>5, <1>6 DEF ContentInv

LEMMA MakeDirContent == ASSUME ContentInv, MakeDir PROVE ContentInv'
<1> USE DEF MakeDir, Return
<1>1. at \in {"mkdir_archives", "mkdir"} /\ uploaded = <<>> /\ UNCHANGED uploaded
  BY DEF ContentInv, Progress
<1>2. ContentTyped' /\ Grown'
  BY DEF ContentInv, ContentTyped, Grown, Stages, worldVars
<1>3. FilesInv'
  BY DEF ContentInv, FilesInv, Between, RowsLast, RowsCover, worldVars
<1>4. CopiesInv'
  BY DEF ContentInv, CopiesInv, Copied, SameSecond
<1>5. Progress'
  <2>1. Range(Files) # {}
    BY FileNames DEF Items
  <2> QED
    BY <2>1 DEF ContentInv, Progress
<1>6. ExportComplete' /\ ItemsHaveRows'
  BY <1>1 DEF ExportComplete, ItemsHaveRows
<1> QED
  BY <1>2, <1>3, <1>4, <1>5, <1>6 DEF ContentInv

LEMMA CopyArchiveContent == ASSUME ContentInv, CopyArchive PROVE ContentInv'
<1> USE DEF CopyArchive, Fails, Return
<1>1. at = "copy" /\ uploaded = <<>> /\ UNCHANGED uploaded
  BY DEF ContentInv, Progress
<1>2. ContentTyped' /\ Grown'
  BY DEF ContentInv, ContentTyped, Grown, Stages, worldVars
<1>3. FilesInv'
  BY DEF ContentInv, FilesInv, Between, RowsLast, RowsCover, worldVars
<1>4. CopiesInv'
  <2> SUFFICES ASSUME at' # "end" PROVE Copied'
    BY DEF CopiesInv
  <2>1. PICK a \in toCopy :
            /\ toCopy' = toCopy \ {a}
            /\ copies' = [s \in DOMAIN copies \cup {CreatedAt[a]} |->
                             IF s = CreatedAt[a] THEN a ELSE copies[s]]
    OBVIOUS
  <2>2. Copied /\ chosen' = chosen /\ a \in toCopy
    BY DEF ContentInv, CopiesInv
  <2> SUFFICES ASSUME NEW b \in chosen \ toCopy'
               PROVE  SameSecond(b) \/ (CreatedAt[b] \in DOMAIN copies' /\ copies'[CreatedAt[b]] = b)
    BY <2>2 DEF Copied, SameSecond
  <2>3. CASE b = a
    BY <2>1, <2>3
  <2>4. CASE b # a /\ CreatedAt[b] = CreatedAt[a]
    <3>1. a \in chosen
      BY DEF ContentInv, ContentTyped
    <3> QED
      BY <3>1, <2>4 DEF SameSecond
  <2>5. CASE b # a /\ CreatedAt[b] # CreatedAt[a]
    <3>1. SameSecond(b) \/ (CreatedAt[b] \in DOMAIN copies /\ copies[CreatedAt[b]] = b)
      BY <2>1, <2>2, <2>5 DEF Copied
    <3> QED
      BY <3>1, <2>1, <2>5
  <2> QED
    BY <2>3, <2>4, <2>5
<1>5. Progress'
  BY DEF ContentInv, Progress
<1>6. ExportComplete' /\ ItemsHaveRows'
  BY <1>1 DEF ExportComplete, ItemsHaveRows
<1> QED
  BY <1>2, <1>3, <1>4, <1>5, <1>6 DEF ContentInv

LEMMA WriteFileContent == ASSUME ContentInv, WriteFile PROVE ContentInv'
<1> DEFINE file == Files[Cardinality(DOMAIN written) + 1]
<1>1. at = "write" /\ uploaded = <<>> /\ UNCHANGED <<worldVars, chosen, toCopy, copies, began, uploaded>>
  BY DEF ContentInv, Progress, WriteFile
<1>2. /\ file \in Range(Files)
      /\ file \in RowTables => Items \subseteq DOMAIN written
      /\ file \in Items => \A c \in RowTables : c \notin DOMAIN written
  BY <1>1, NextFile DEF ContentInv, FilesInv
<1>3. \/ /\ written' = [f \in DOMAIN written \cup {file} |-> IF f = file THEN data[file] ELSE written[f]]
         /\ at' = IF DOMAIN written' = Range(Files) THEN "zip" ELSE "write"
         /\ UNCHANGED outcome
      \/ at' = "end" /\ UNCHANGED written
  BY DEF WriteFile, Fails, Return
<1> HIDE DEF file
<1>4. ContentTyped' /\ Grown'
  BY <1>1, <1>2, <1>3 DEF ContentInv, ContentTyped, Grown, Stages, worldVars
<1>5. UNCHANGED data /\ FilesInv
  BY <1>1 DEF worldVars, ContentInv
<1>6. FilesInv'
  <2>1. CASE UNCHANGED written
    BY <1>1, <1>5, <2>1 DEF FilesInv, Between, RowsLast, RowsCover
  <2>2. CASE written' = [f \in DOMAIN written \cup {file} |->
                            IF f = file THEN data[file] ELSE written[f]]
    <3>1. /\ DOMAIN written' = DOMAIN written \cup {file} /\ written'[file] = data[file]
          /\ \A f \in DOMAIN written : f # file => written'[f] = written[f]
      BY <2>2
    <3>2. Between'
      BY <1>1, <1>2, <1>5, <3>1 DEF FilesInv, Between, ContentInv, Grown
    <3>3. RowsLast'
      BY <1>2, <1>5, <3>1 DEF FilesInv, RowsLast
    <3>4. RowsCover'
      <4> SUFFICES ASSUME NEW c \in Items, RowsOf(c) \in DOMAIN written'
                   PROVE  written'[c] \subseteq written'[RowsOf(c)]
        BY DEF RowsCover
      <4>1. RowsOf(c) \in RowTables /\ RowsOf(c) # c
        BY TablesOfItems
      <4>2. CASE file = RowsOf(c)
        <5>1. c \in DOMAIN written /\ written'[c] = written[c]
          BY <1>2, <3>1, <4>1, <4>2
        <5>2. written[c] \subseteq data[c] /\ data[c] \subseteq data[RowsOf(c)]
          BY <1>5, <5>1 DEF FilesInv, Between, ContentInv, Grown
        <5> QED
          BY <5>1, <5>2, <3>1, <4>2
      <4>3. CASE file # RowsOf(c)
        <5>1. RowsOf(c) \in DOMAIN written /\ written'[RowsOf(c)] = written[RowsOf(c)]
          BY <3>1, <4>3
        <5>2. c # file /\ c \in DOMAIN written
          BY <1>2, <1>5, <4>1, <5>1 DEF FilesInv, RowsLast
        <5>3. written[c] \subseteq written[RowsOf(c)]
          BY <1>5, <5>1 DEF FilesInv, RowsCover
        <5> QED
          BY <5>1, <5>2, <5>3, <3>1
      <4> QED
        BY <4>2, <4>3
    <3> QED
      BY <3>2, <3>3, <3>4 DEF FilesInv
  <2> QED
    BY <1>3, <2>1, <2>2
<1>7. CopiesInv'
  BY <1>1, <1>3 DEF ContentInv, CopiesInv, Copied, SameSecond
<1>8. Progress'
  BY <1>1, <1>3 DEF ContentInv, Progress
<1>9. ExportComplete' /\ ItemsHaveRows'
  BY <1>1 DEF ExportComplete, ItemsHaveRows
<1> QED
  BY <1>4, <1>6, <1>7, <1>8, <1>9 DEF ContentInv

LEMMA ZipFilesContent == ASSUME ContentInv, ZipFiles PROVE ContentInv'
<1> USE DEF ZipFiles, Fails, Return
<1>1. at = "zip" /\ uploaded = <<>> /\ UNCHANGED uploaded
  BY DEF ContentInv, Progress
<1>2. (UNCHANGED written) \/ (written' = <<>> /\ DOMAIN written' = {})
  OBVIOUS
<1>3. ContentTyped' /\ Grown'
  BY <1>2 DEF ContentInv, ContentTyped, Grown, Stages, worldVars
<1>4. FilesInv'
  BY <1>2 DEF ContentInv, FilesInv, Between, RowsLast, RowsCover, worldVars
<1>5. CopiesInv'
  BY DEF ContentInv, CopiesInv, Copied, SameSecond, Closed
<1>6. Progress'
  BY DEF ContentInv, Progress, Closed
<1>7. ExportComplete' /\ ItemsHaveRows'
  BY <1>1 DEF ExportComplete, ItemsHaveRows
<1> QED
  BY <1>3, <1>4, <1>5, <1>6, <1>7 DEF ContentInv

LEMMA UploadContent == ASSUME ContentInv, Upload PROVE ContentInv'
<1> USE DEF Upload, Fails, Return
<1>1. /\ at = "upload" /\ uploaded = <<>> /\ at' = "end" /\ toCopy = {}
      /\ Closed \/ DOMAIN written = Range(Files)
      /\ Copied \/ Closed
  BY DEF ContentInv, Progress, CopiesInv
<1>2. ContentTyped' /\ Grown'
  BY DEF ContentInv, ContentTyped, Grown, Stages, worldVars
<1>3. FilesInv'
  BY DEF ContentInv, FilesInv, Between, RowsLast, RowsCover, worldVars
<1>4. CopiesInv' /\ Progress'
  BY <1>1 DEF CopiesInv, Progress
<1>5. UNCHANGED <<chosen, copies, written, began>> /\ (uploaded' = <<>> \/ uploaded' = <<copies, written>>)
  BY <1>1
<1>6. CASE uploaded' = <<>>
  <2>1. ExportComplete' /\ ItemsHaveRows'
    BY <1>6 DEF ExportComplete, ItemsHaveRows
  <2> QED
    BY <2>1, <1>2, <1>3, <1>4 DEF ContentInv
<1>7. CASE uploaded' = <<copies, written>>
  <2>1. uploaded'[1] = copies /\ uploaded'[2] = written
    BY <1>7
  <2>2. CASE Closed
    <3>1. ExportComplete'
      BY <1>7, <2>2 DEF ExportComplete, Closed
    <3>2. ItemsHaveRows'
      BY <2>1, <2>2 DEF ItemsHaveRows, Closed
    <3> QED
      BY <3>1, <3>2, <1>2, <1>3, <1>4 DEF ContentInv
  <2>3. CASE Copied /\ DOMAIN written = Range(Files)
    <3>1. \A a \in chosen : SameSecond(a) \/ \E s \in DOMAIN copies : copies[s] = a
      BY <1>1, <2>3 DEF Copied
    <3>2. \A f \in Range(Files) : f \in DOMAIN written /\ began[f] \subseteq written[f]
      BY <2>3 DEF ContentInv, FilesInv, Between
    <3>3. ExportComplete'
      BY <3>1, <3>2, <1>5, <2>1 DEF ExportComplete, SameSecond
    <3>4. \A c \in Items : written[c] \subseteq written[RowsOf(c)]
      <4>1. \A c \in Items : RowsOf(c) \in DOMAIN written
        BY <2>3, TablesOfItems, FileNames
      <4> QED
        BY <4>1 DEF ContentInv, FilesInv, RowsCover
    <3>5. ItemsHaveRows'
      <4>1. DOMAIN ItemFiles = 1..8
        BY DEF ItemFiles
      <4>2. \A i \in DOMAIN ItemFiles : ItemFiles[i] \in Items
        BY <4>1, Orders
      <4> QED
        BY <3>4, <4>2, <1>5, <2>1 DEF ItemsHaveRows
    <3> QED
      BY <3>3, <3>5, <1>2, <1>3, <1>4 DEF ContentInv
  <2> QED
    BY <1>1, <2>2, <2>3
<1> QED
  BY <1>5, <1>6, <1>7

THEOREM ContentInvariant == ExportSpec => []ContentInv
<1>1. ContentInv /\ [ExportNext]_exportVars => ContentInv'
  <2> SUFFICES ASSUME ContentInv, [ExportNext]_exportVars PROVE ContentInv'
    OBVIOUS
  <2>1. CASE \E e \in Entry : ParseRow(e)
    BY <2>1, ParseRowContent
  <2>2. CASE Analyse
    BY <2>2, AnalyseContent
  <2>3. CASE \E a \in Archive : ChangeStatus(a)
    BY <2>3, ChangeStatusContent
  <2>4. CASE BeginExport
    BY <2>4, BeginContent
  <2>5. CASE FindArchives
    BY <2>5, FindArchivesContent
  <2>6. CASE MakeDir
    BY <2>6, MakeDirContent
  <2>7. CASE CopyArchive
    BY <2>7, CopyArchiveContent
  <2>8. CASE WriteFile
    BY <2>8, WriteFileContent
  <2>9. CASE ZipFiles
    BY <2>9, ZipFilesContent
  <2>10. CASE Upload
    BY <2>10, UploadContent
  <2>11. CASE UNCHANGED exportVars
    <3>1. UNCHANGED <<data, parsing, analysed, at, chosen, toCopy, copies, written, began, uploaded, outcome>>
      BY <2>11 DEF exportVars
    <3>2. ContentTyped' /\ (\A i \in Items : data[i] \subseteq data[RowsOf(i)])'
      BY <3>1 DEF ContentInv, ContentTyped, Grown
    <3> QED
      BY <3>1, <3>2, WorldStep
  <2> QED
    BY <2>1, <2>2, <2>3, <2>4, <2>5, <2>6, <2>7, <2>8, <2>9, <2>10, <2>11 DEF ExportNext
<1> QED
  BY InitContent, <1>1, PTL DEF ExportSpec

\* The types of the content of an export hold: it copies archives of the account and writes the
\* files of its list.
THEOREM ExportTyped == ExportSpec => []ExportTypeOK
<1>1. ExportInit => ExportTypeOK
  <2> SUFFICES ASSUME ExportInit PROVE ExportTypeOK
    OBVIOUS
  <2>1. ContentTyped
    BY InitContent DEF ContentInv
  <2>2. processed \subseteq Archive /\ chosen = {} /\ DOMAIN copies = {} /\ outcome = "none"
    BY DEF ExportInit
  <2> QED
    BY <2>1, <2>2 DEF ContentTyped, ExportTypeOK
<1>2. ContentInv' /\ ExportTypeOK /\ [ExportNext]_exportVars => ExportTypeOK'
  <2> SUFFICES ASSUME ContentTyped', ExportTypeOK, [ExportNext]_exportVars PROVE ExportTypeOK'
    BY DEF ContentInv
  <2>1. outcome' \in {outcome, "nil", "error"}
    BY DEF ExportNext, ParseRow, Analyse, ChangeStatus, BeginExport, FindArchives, MakeDir, CopyArchive,
           WriteFile, ZipFiles, Upload, Fails, Return, exportVars
  <2>2. chosen' \in {chosen, processed}
    BY DEF ExportNext, ParseRow, Analyse, ChangeStatus, BeginExport, FindArchives, MakeDir, CopyArchive,
           WriteFile, ZipFiles, Upload, exportVars
  <2>3. processed' \subseteq Archive
    <3>1. CASE \E a \in Archive : ChangeStatus(a)
      BY <3>1 DEF ChangeStatus, ExportTypeOK
    <3>2. CASE processed' = processed
      BY <3>2 DEF ExportTypeOK
    <3> QED
      BY <3>1, <3>2 DEF ExportNext, ParseRow, Analyse, BeginExport, FindArchives, MakeDir, CopyArchive,
           WriteFile, ZipFiles, Upload, worldVars, exportVars
  <2>4. DOMAIN copies' \subseteq Range(CreatedAt)
    <3>1. CASE CopyArchive /\ copies' # copies
      <4>1. PICK a \in toCopy : copies' = [s \in DOMAIN copies \cup {CreatedAt[a]} |->
                                            IF s = CreatedAt[a] THEN a ELSE copies[s]]
        BY <3>1 DEF CopyArchive
      <4>2. a \in DOMAIN CreatedAt
        BY CreatedAssumption DEF ExportTypeOK
      <4>3. CreatedAt[a] \in Range(CreatedAt)
        BY <4>2 DEF Range
      <4> QED
        BY <4>1, <4>3 DEF ExportTypeOK
    <3>2. CASE DOMAIN copies' = {} \/ copies' = copies
      BY <3>2 DEF ExportTypeOK
    <3>3. DOMAIN <<>> = {}
      OBVIOUS
    <3>4. copies' = copies \/ copies' = <<>> \/ CopyArchive
      BY DEF ExportNext, ParseRow, Analyse, ChangeStatus, BeginExport, FindArchives, MakeDir,
             WriteFile, ZipFiles, Upload, exportVars
    <3> QED
      BY <3>1, <3>2, <3>3, <3>4
  <2> QED
    BY <2>1, <2>2, <2>3, <2>4 DEF ContentTyped, ExportTypeOK
<1> QED
  BY <1>1, <1>2, ContentInvariant, PTL DEF ExportSpec

\* An export in the bucket has every archive that was processed, but those that share their second,
\* and in every file all that was there when the job began; or nothing, if the zip file's end was
\* not written (prepareUserExportData).
THEOREM ExportsComplete == ExportSpec => []ExportComplete
<1>1. ContentInv => ExportComplete
  BY DEF ContentInv
<1> QED
  BY <1>1, ContentInvariant, PTL

\* What an export has from DynamoDB it has from the database, too: the rows are read last.
THEOREM ExportedItemsHaveRows == ExportSpec => []ItemsHaveRows
<1>1. ContentInv => ItemsHaveRows
  BY DEF ContentInv
<1> QED
  BY <1>1, ContentInvariant, PTL

\* Only the job's end has a file and an outcome.
NotOver == at # "end" => uploaded = <<>> /\ outcome = "none"

\* What the job of DataExport is at, and what it will report.
CoarseStep ==
    CASE at \in {"idle", "upload"} -> at
      [] at = "end" -> (IF uploaded = <<>> THEN "report" ELSE "name")
      [] OTHER -> "build"
CoarseResult == IF outcome = "nil" /\ uploaded = <<>> THEN "SUCCESS" ELSE "FAILURE"

CoarseFaults == {IF f = "call" THEN "job" ELSE f : f \in ExportFaults \ {"close"}}

LEMMA CoarseFaultsAre ==
    /\ "call" \in ExportFaults => "job" \in CoarseFaults
    /\ "mkdir" \in ExportFaults => "mkdir" \in CoarseFaults
BY DEF CoarseFaults

\* The variables of DataExport, by their values.
LEMMA CoarseStutters ==
    (at = "idle" <=> at' = "idle") /\ UNCHANGED uploaded /\ CoarseStep' = CoarseStep /\ CoarseResult' = CoarseResult
        => UNCHANGED Job!vars
BY DEF Job!vars, Job!rowVars, Job!workerVars, CoarseStep, CoarseResult

\* A call that fails ends the job, and so does a directory that cannot be made.
LEMMA CoarseBuildEnds ==
    ASSUME CoarseStep = "build", at # "idle", at' = "end", UNCHANGED uploaded, uploaded = <<>>,
           \/ outcome' = "error" /\ "job" \in CoarseFaults
           \/ outcome' = "nil" /\ "mkdir" \in CoarseFaults
    PROVE  Job!Build("worker")
BY DEF Job!Build, Job!Return, Job!Goto, Job!rowVars, CoarseStep, CoarseFaults

(***************************************************************************)
(* Every step of the job is the step of DataExport's worker it belongs to, or  *)
(* one of the calls that step stands for.                                    *)
(***************************************************************************)
LEMMA JobStep ==
    NotOver /\ [ExportNext]_exportVars => NotOver' /\ [Job!WorkerStep("worker")]_(Job!vars)
<1> SUFFICES ASSUME NotOver, [ExportNext]_exportVars
             PROVE  NotOver' /\ (Job!WorkerStep("worker") \/ UNCHANGED Job!vars)
  OBVIOUS
<1> USE DEF worldVars
<1>s. ASSUME UNCHANGED <<uploaded, outcome>>, at = at' \/ (at \notin {"idle", "upload", "end"} /\ at' \notin {"idle", "upload", "end"})
      PROVE  NotOver' /\ UNCHANGED Job!vars
  <2>1. CoarseStep' = CoarseStep /\ CoarseResult' = CoarseResult
    BY <1>s DEF CoarseStep, CoarseResult
  <2> QED
    BY <1>s, <2>1, CoarseStutters DEF NotOver
<1>f. ASSUME Fails, at \notin {"idle", "upload", "end"}, UNCHANGED uploaded
      PROVE  NotOver' /\ Job!WorkerStep("worker")
  <2>1. CoarseStep = "build" /\ uploaded = <<>>
    BY <1>f DEF CoarseStep, NotOver
  <2>2. Job!Build("worker")
    BY <1>f, <2>1, CoarseBuildEnds, CoarseFaultsAre DEF Fails, Return
  <2> QED
    BY <1>f, <2>2 DEF Job!WorkerStep, NotOver, Fails, Return
<1>1. CASE (\E e \in Entry : ParseRow(e)) \/ Analyse \/ (\E a \in Archive : ChangeStatus(a)) \/ UNCHANGED exportVars
  BY <1>1, <1>s DEF ParseRow, Analyse, ChangeStatus, exportVars
<1>2. CASE BeginExport
  <2>1. at = "idle" /\ at' = "find" /\ UNCHANGED <<uploaded, outcome>> /\ uploaded = <<>> /\ outcome = "none"
    BY <1>2 DEF BeginExport, NotOver
  <2>2. CoarseStep = "idle" /\ CoarseStep' = "build" /\ CoarseResult' = CoarseResult
    BY <2>1 DEF CoarseStep, CoarseResult
  <2>3. Job!Start("worker")
    <3> DEFINE msgs == <<"export">>
    <3>1. msgs # <<>> /\ Head(msgs) = "export" /\ Tail(msgs) = <<>>
      OBVIOUS
    <3> QED
      BY <2>1, <2>2, <3>1 DEF Job!Start, Job!Goto, Job!rowVars, CoarseStep, CoarseResult
  <2> QED
    BY <2>1, <2>3 DEF Job!WorkerStep, NotOver
<1>3. CASE FindArchives
  BY <1>3, <1>s, <1>f DEF FindArchives
<1>4. CASE MakeDir
  <2>1. at \in {"mkdir_archives", "mkdir"} /\ UNCHANGED uploaded /\ uploaded = <<>>
    BY <1>4 DEF MakeDir, NotOver
  <2>2. CASE at' \in {"write", "copy"} /\ UNCHANGED outcome
    BY <2>1, <2>2, <1>s
  <2>3. CASE "mkdir" \in ExportFaults /\ Return("nil")
    <3>1. CoarseStep = "build"
      BY <2>1 DEF CoarseStep
    <3>2. Job!Build("worker")
      BY <2>1, <2>3, <3>1, CoarseBuildEnds, CoarseFaultsAre DEF Return
    <3> QED
      BY <2>3, <3>2 DEF Job!WorkerStep, NotOver, Return
  <2> QED
    BY <1>4, <2>2, <2>3 DEF MakeDir
<1>5. CASE CopyArchive
  BY <1>5, <1>s, <1>f DEF CopyArchive
<1>6. CASE WriteFile
  <2>1. at = "write" /\ UNCHANGED uploaded
    BY <1>6 DEF WriteFile
  <2>2. Fails \/ (at' \in {"zip", "write"} /\ UNCHANGED outcome)
    BY <1>6 DEF WriteFile
  <2> QED
    BY <2>1, <2>2, <1>s, <1>f
<1>7. CASE ZipFiles
  <2>1. at = "zip" /\ UNCHANGED uploaded /\ uploaded = <<>> /\ outcome = "none"
    BY <1>7 DEF ZipFiles, NotOver
  <2>2. CASE at' = "upload" /\ UNCHANGED outcome
    <3>1. Job!Build("worker")
      BY <2>1, <2>2 DEF Job!Build, Job!Goto, Job!rowVars
    <3> QED
      BY <2>1, <2>2, <3>1 DEF Job!WorkerStep, NotOver
  <2>3. CASE Fails
    BY <2>1, <2>3, <1>f
  <2> QED
    BY <1>7, <2>2, <2>3 DEF ZipFiles
<1>8. CASE Upload
  <2>1. at = "upload" /\ at' = "end" /\ uploaded = <<>> /\ outcome = "none"
    BY <1>8 DEF Upload, NotOver, Fails, Return
  <2>2. Job!Upload("worker")
    <3>1. CASE uploaded' = <<copies, written>> /\ outcome' = "nil"
      <4>1. uploaded' # <<>>
        BY <3>1
      <4> QED
        BY <2>1, <3>1, <4>1 DEF Job!Upload, Job!Goto, Job!rowVars
    <3>2. CASE "job" \in CoarseFaults /\ outcome' = "error" /\ UNCHANGED uploaded
      BY <2>1, <3>2 DEF Job!Upload, Job!Return, Job!Goto, Job!rowVars, CoarseFaults
    <3> QED
      BY <1>8, <3>1, <3>2, CoarseFaultsAre DEF Upload, Fails, Return
  <2> QED
    BY <2>1, <2>2 DEF Job!WorkerStep, NotOver
<1> QED
  BY <1>1, <1>2, <1>3, <1>4, <1>5, <1>6, <1>7, <1>8 DEF ExportNext

(***************************************************************************)
(* The job of an export does, step by step, what DataExport has its worker do  *)
(* (prepareUserExportData), whichever of its calls fails and whatever the other *)
(* jobs do beside it.                                                       *)
(***************************************************************************)
THEOREM JobImplemented == ExportSpec => ImplementsJob
<1>1. ExportInit => NotOver
  BY DEF ExportInit, NotOver
<1> QED
  BY <1>1, JobStep, PTL DEF ExportSpec, ImplementsJob

-----------------------------------------------------------------------------
(***************************************************************************)
(* The import.  Whatever the parsers do to each other's rows, nothing is taken     *)
(* away; so what a parser has behind it, unless one of its calls failed, stays.    *)
(* With no two parsers at once a friend is made only if there is none.            *)
(***************************************************************************)

(* Parsers. *)

Simple == {"idle", "friends", "validate", "create", "read_friends"}
TagSteps == {"tag", "make_friend", "insert_tag"}
MediaSteps == {"look_media", "save_media"}
ItemSteps == TagSteps \cup MediaSteps \cup {"place"}
AllSteps == Simple \cup ItemSteps \cup {"upload", "done", "failed"}

\* The variables of a parser.
Local(l) == DOMAIN l = {"step", "entry", "item", "id", "known", "found", "range"}

\* Where it may be.
Position(p) ==
    LET l == local[p]
    IN /\ l.step \in AllSteps
       /\ l.entry \in 1..(Len(Entries[p]) + 1) /\ l.item \in Nat \ {0}
       /\ l.step \in Simple => l.item = 1
       /\ l.step = "idle" => l.entry = 1
       /\ l.step \in {"create", "read_friends"} \cup ItemSteps => l.entry <= Len(Entries[p])
       /\ l.step \in ItemSteps => l.item <= Len(Current(p).items)
       /\ l.step \in TagSteps => Item(p).kind = "tag"
       /\ l.step \in MediaSteps => Item(p).kind = "media"
       /\ l.step = "place" => Item(p).kind = "place"
       /\ l.step \in {"upload", "done"} => p \in trouble \/ l.entry = Len(Entries[p]) + 1

\* The entry that an item belongs to is there, unless its statement failed.
HasEntry(p) ==
    LET l == local[p]
    IN l.step \in {"read_friends"} \cup ItemSteps =>
           \/ l.id = NoEntry /\ p \in trouble
           \/ l.id = Row(Current(p)) /\ l.id \in entries

\* The friends it knows are there, and for each of its own list a row with the timestamp.
HasFriends(p) ==
    LET l == local[p]
    IN /\ \A name \in DOMAIN l.known : l.known[name] \in friends /\ l.known[name][1] = name
       /\ l.step = "insert_tag" => Item(p).name \in DOMAIN l.known
       /\ l.step \notin {"idle", "friends", "failed"} =>
              \A name \in DOMAIN FriendTime[p] : \E f \in friends : f[2] = FriendTime[p][name]
       /\ l.step = "make_friend" => ~ListedAlike(Item(p).name)

\* Item i of entry n is behind it.
Behind(p, n, i) ==
    n < local[p].entry \/ (n = local[p].entry /\ i < local[p].item)

StoredIn(rows, keys, of, item) ==
    /\ item.kind = "tag" => \E row \in rows : row.of = of /\ row.friend[1] = item.name
    /\ item.kind = "media" => [of |-> of, at |-> item.at, index |-> item.index] \in keys
Stored(of, item) == StoredIn(tags, DOMAIN media, of, item)

\* What is behind it is in the database, but for entries that the activity range leaves out, and
\* the files in the bucket, unless a call failed.
HasStored(p) ==
    p \notin trouble =>
        /\ \A n \in DOMAIN Entries[p] : \A i \in DOMAIN Entries[p][n].items :
               Behind(p, n, i) /\ ~Omitted(p, n) => Stored(Row(Entries[p][n]), Entries[p][n].items[i])
        /\ At(p, "upload") \/ At(p, "done") =>
               \A j \in DOMAIN MediaFiles[p] :
                   j < local[p].item => <<p, KeyOf(MediaFiles[p][j])>> \in bucket
        /\ At(p, "done") => Len(MediaFiles[p]) < local[p].item

Parser(p) == Local(local[p]) /\ Position(p) /\ HasEntry(p) /\ HasFriends(p) /\ HasStored(p)

-----------------------------------------------------------------------------
(* Rows. *)

RowsRefer ==
    /\ \A t \in tags : t = [of |-> t.of, friend |-> t.friend] /\ t.of \in entries /\ t.friend \in friends
    /\ \A k \in DOMAIN media : k.of \in entries
    /\ places \subseteq entries

\* A file is one that an archive has for the medium.
MediaFrom ==
    \A key \in DOMAIN media :
        \E q \in Parse : \E m \in ItemsOf(q, "media") :
            /\ [of |-> m.of, at |-> m.item.at, index |-> m.item.index] = key
            /\ media[key] = <<q, m.item.file>>

\* A friend is of a list, or was made for a tag because the lists differ.
OfAList(f) == \E q \in Parse : f[1] \in DOMAIN FriendTime[q] /\ f = <<f[1], FriendTime[q][f[1]]>>
FriendsFrom ==
    \A f \in friends : OfAList(f) \/ \E q \in Parse : f = <<f[1], q>> /\ ~ListedAlike(f[1])

Unlisted(name) == \A p \in Parse : name \notin DOMAIN FriendTime[p]

\* With one parser at a time a friend is made only if there is none.
FriendsApart ==
    ~overlap =>
        /\ \A p, q \in Parse : Running(p) /\ Running(q) => p = q
        /\ \A p \in Parse : At(p, "make_friend") => \A f \in friends : f[1] # Item(p).name
        /\ \A f, g \in friends : f[1] = g[1] /\ Unlisted(f[1]) => f = g

ImportInv ==
    /\ local = [p \in Parse |-> local[p]]
    /\ trouble \subseteq Parse /\ overlap \in BOOLEAN
    /\ \A p \in Parse : Parser(p)
    /\ RowsRefer /\ MediaFrom /\ FriendsFrom /\ FriendsApart

-----------------------------------------------------------------------------
(* What the invariant says of an archive that is in. *)

LEMMA ImportTypes == ImportInv => ImportTypeOK
<1> SUFFICES ASSUME ImportInv PROVE ImportTypeOK
  OBVIOUS
<1>1. \A p \in Parse : local[p].entry \in 1..(Len(Entries[p]) + 1) /\ local[p].item \in Nat
  BY DEF ImportInv, Parser, Position
<1> QED
  BY <1>1 DEF ImportInv, ImportTypeOK, RowsRefer

LEMMA AllBehind ==
  ASSUME ImportInv, NEW p \in Imported, NEW n \in DOMAIN Entries[p], NEW i \in DOMAIN Entries[p][n].items,
         ~Omitted(p, n)
  PROVE  Stored(Row(Entries[p][n]), Entries[p][n].items[i])
<1>1. p \in Parse /\ At(p, "done") /\ p \notin trouble
  BY DEF Imported
<1>2. Position(p) /\ HasStored(p)
  BY <1>1 DEF ImportInv, Parser
<1>3. local[p].entry = Len(Entries[p]) + 1
  BY <1>1, <1>2 DEF Position, At
<1>4. n < local[p].entry
  BY <1>1, <1>3, EntriesAssumption
<1> QED
  BY <1>1, <1>2, <1>4 DEF HasStored, Behind

LEMMA ImportedTags == ImportInv => TagsStored
<1> SUFFICES ASSUME ImportInv, NEW p \in Imported, NEW tag \in Brought(p, "tag")
             PROVE  \E row \in tags : row.of = tag.of /\ row.friend[1] = tag.item.name
  BY DEF TagsStored
<1>1. PICK n \in DOMAIN Entries[p] : ~Omitted(p, n) /\ tag \in ItemsIn(Entries[p][n], "tag")
  BY DEF Brought
<1>2. PICK i \in DOMAIN Entries[p][n].items :
          /\ Entries[p][n].items[i].kind = "tag"
          /\ tag = [of |-> Row(Entries[p][n]), item |-> Entries[p][n].items[i]]
  BY <1>1 DEF ItemsIn
<1> QED
  BY <1>1, <1>2, AllBehind DEF Stored, StoredIn

LEMMA ImportedMedia == ImportInv => MediaKept
<1> SUFFICES ASSUME ImportInv, NEW p \in Imported, NEW m \in Brought(p, "media")
             PROVE  [of |-> m.of, at |-> m.item.at, index |-> m.item.index] \in DOMAIN media
  BY DEF MediaKept, ImportInv, MediaFrom
<1>1. PICK n \in DOMAIN Entries[p] : ~Omitted(p, n) /\ m \in ItemsIn(Entries[p][n], "media")
  BY DEF Brought
<1>2. PICK i \in DOMAIN Entries[p][n].items :
          /\ Entries[p][n].items[i].kind = "media"
          /\ m = [of |-> Row(Entries[p][n]), item |-> Entries[p][n].items[i]]
  BY <1>1 DEF ItemsIn
<1> QED
  BY <1>1, <1>2, AllBehind DEF Stored, StoredIn

\* A row with the timestamp of a friend whom all list alike is the friend's.
LEMMA AlikeRow ==
  ASSUME ImportInv, NEW p \in Parse, NEW name, ListedAlike(name), NEW f \in friends,
         f[2] = FriendTime[p][name]
  PROVE  f[1] = name
<1>1. OfAList(f) \/ \E q \in Parse : f = <<f[1], q>>
  BY DEF ImportInv, FriendsFrom
<1>2. CASE OfAList(f)
  <2>1. PICK q \in Parse : f[1] \in DOMAIN FriendTime[q] /\ f = <<f[1], FriendTime[q][f[1]]>>
    BY <1>2 DEF OfAList
  <2>2. f[2] = FriendTime[q][f[1]]
    BY <2>1
  <2> QED
    BY <2>1, <2>2 DEF ListedAlike
<1>3. CASE \E q \in Parse : f = <<f[1], q>>
  <2>1. PICK q \in Parse : f = <<f[1], q>>
    BY <1>3
  <2>2. f[2] = q /\ name \in DOMAIN FriendTime[p]
    BY <2>1 DEF ListedAlike
  <2>3. \A n \in DOMAIN FriendTime[p] : FriendTime[p][n] \notin Parse
    BY EntriesAssumption
  <2> QED
    BY <2>2, <2>3
<1> QED
  BY <1>1, <1>2, <1>3

\* The only row of a friend whom all list alike.
LEMMA AlikeOnce ==
  ASSUME ImportInv, NEW name, ListedAlike(name), NEW f \in friends, NEW g \in friends,
         f[1] = name, g[1] = name
  PROVE  f = g
<1>1. ASSUME NEW h \in friends, h[1] = name PROVE \E q \in Parse : h = <<name, FriendTime[q][name]>>
  BY <1>1 DEF ImportInv, FriendsFrom, OfAList
<1>2. \A p, q \in Parse : FriendTime[q][name] = FriendTime[p][name]
  BY DEF ListedAlike
<1> QED
  BY <1>1, <1>2

LEMMA FriendsOnce == ImportInv => TagOnce
<1> SUFFICES ASSUME ImportInv, NEW s \in tags, NEW t \in tags, s.of = t.of, t.friend[1] = s.friend[1],
                    s # t
             PROVE  LET listing == {p \in Parse : s.friend[1] \in DOMAIN FriendTime[p]}
                    IN ~ListedAlike(s.friend[1]) /\ (overlap \/ listing # {})
  BY DEF TagOnce
<1> DEFINE name == s.friend[1]
<1>1. s.friend \in friends /\ t.friend \in friends /\ s.friend # t.friend
  BY DEF ImportInv, RowsRefer
<1>2. ~ListedAlike(name)
  BY <1>1, AlikeOnce
<1>3. overlap \/ \E p \in Parse : name \in DOMAIN FriendTime[p]
  BY <1>1 DEF ImportInv, FriendsApart, Unlisted
<1> QED
  BY <1>2, <1>3

\* The files that entries name are in their archive.
FilesThere ==
    \A p \in Parse : \A m \in ItemsOf(p, "media") : \E j \in DOMAIN MediaFiles[p] : MediaFiles[p][j] = m.item.file

LEMMA ImportedFiles == FilesThere /\ ImportInv => MediaHasObject
<1> SUFFICES ASSUME FilesThere, ImportInv, NEW key \in DOMAIN media,
                    media[key][1] \in Imported, media[key][2] \notin Nested
             PROVE  media[key] \in bucket
  BY DEF MediaHasObject
<1>1. PICK q \in Parse : \E m \in ItemsOf(q, "media") : media[key] = <<q, m.item.file>>
  BY DEF ImportInv, MediaFrom
<1>2. PICK m \in ItemsOf(q, "media") : media[key] = <<q, m.item.file>>
  BY <1>1
<1>3. PICK j \in DOMAIN MediaFiles[q] : MediaFiles[q][j] = m.item.file
  BY DEF FilesThere
<1>4. At(q, "done") /\ q \notin trouble /\ HasStored(q) /\ m.item.file \notin Nested /\ Position(q)
  BY <1>2 DEF Imported, ImportInv, Parser
<1>5. j < local[q].item
  <2>1. j \in Nat /\ Len(MediaFiles[q]) \in Nat /\ j <= Len(MediaFiles[q])
    BY EntriesAssumption
  <2>2. Len(MediaFiles[q]) < local[q].item /\ local[q].item \in Nat
    BY <1>4 DEF HasStored, Position
  <2> QED
    BY <2>1, <2>2
<1>6. <<q, KeyOf(MediaFiles[q][j])>> \in bucket
  BY <1>4, <1>5 DEF HasStored
<1> QED
  BY <1>2, <1>3, <1>4, <1>6 DEF KeyOf

-----------------------------------------------------------------------------
(* The steps. *)

LEMMA InitImport == ImportInit => ImportInv
<1> SUFFICES ASSUME ImportInit PROVE ImportInv
  OBVIOUS
<1>1. local = [p \in Parse |-> Idle] /\ \A p \in Parse : local[p] = Idle
  BY DEF ImportInit
<1>2. ASSUME NEW p \in Parse PROVE Parser(p)
  <2>1. Local(local[p])
    BY <1>1 DEF Local, Idle
  <2>2. Position(p)
    BY <1>1, EntriesAssumption
    DEF Position, Idle, AllSteps, Simple, ItemSteps, TagSteps, MediaSteps
  <2>3. HasEntry(p)
    BY <1>1 DEF HasEntry, Idle, ItemSteps, TagSteps, MediaSteps
  <2>4. HasFriends(p)
    BY <1>1 DEF HasFriends, Idle
  <2>5. HasStored(p)
    <3>1. \A n \in DOMAIN Entries[p] : \A i \in DOMAIN Entries[p][n].items : ~Behind(p, n, i)
      BY <1>1, EntriesAssumption DEF Behind, Idle
    <3> QED
      BY <1>1, <3>1 DEF HasStored, At, Idle
  <2> QED
    BY <2>1, <2>2, <2>3, <2>4, <2>5 DEF Parser
<1>3. local = [p \in Parse |-> local[p]]
  BY <1>1
<1>4. \A p \in Parse : ~Running(p) /\ ~At(p, "make_friend")
  BY <1>1 DEF Running, At, Idle
<1>5. /\ friends = {} /\ entries = {} /\ tags = {} /\ DOMAIN media = {} /\ places = {}
      /\ trouble = {} /\ overlap = FALSE
  BY DEF ImportInit
<1>6. RowsRefer /\ MediaFrom /\ FriendsFrom
  BY <1>5 DEF RowsRefer, MediaFrom, FriendsFrom
<1>7. FriendsApart
  BY <1>4, <1>5 DEF FriendsApart
<1> QED
  BY <1>2, <1>3, <1>5, <1>6, <1>7 DEF ImportInv

\* Nothing is taken away, and only the parse p can have trouble.
Grows(p) ==
    /\ friends \subseteq friends' /\ entries \subseteq entries' /\ tags \subseteq tags'
    /\ DOMAIN media \subseteq DOMAIN media' /\ bucket \subseteq bucket'
    /\ trouble \subseteq trouble' /\ trouble' \subseteq trouble \cup {p}

\* A parser that does nothing is where it was, with what it had.
LEMMA Waits ==
  ASSUME NEW p, NEW q \in Parse, Parser(q), local'[q] = local[q], Grows(p), q # p \/ UNCHANGED trouble
  PROVE  Parser(q)'
<1>1. q \in trouble' <=> q \in trouble
  BY DEF Grows
<1>2. Local(local[q])' /\ Position(q)'
  BY <1>1 DEF Parser, Local, Position, Current, Item
<1>3. HasEntry(q)'
  BY <1>1 DEF Parser, HasEntry, Current, Grows
<1>4. HasFriends(q)'
  BY DEF Parser, HasFriends, Item, Current, Grows
<1>5. HasStored(q)'
  BY <1>1 DEF Parser, HasStored, Behind, At, Omitted, Stored, StoredIn, Grows
<1> QED
  BY <1>2, <1>3, <1>4, <1>5 DEF Parser

\* A parser p sets its variables to l.
Sets(p, l) == local' = [local EXCEPT ![p] = l]

LEMMA LocalSet ==
  ASSUME local = [q \in Parse |-> local[q]], NEW p \in Parse, NEW l, Sets(p, l)
  PROVE  /\ local' = [q \in Parse |-> local'[q]]
         /\ local'[p] = l
         /\ \A q \in Parse : q # p => local'[q] = local[q]
  BY DEF Sets

\* A step of one parser that makes no friend.
LEMMA OneStep ==
  ASSUME ImportInv, NEW p \in Parse, NEW l, Sets(p, l), Running(p), l.step # "make_friend",
         Grows(p), UNCHANGED <<friends, overlap>>, Parser(p)', RowsRefer', MediaFrom'
  PROVE  ImportInv'
<1>1. /\ local' = [q \in Parse |-> local'[q]] /\ local'[p] = l
      /\ \A q \in Parse : q # p => local'[q] = local[q]
  BY LocalSet DEF ImportInv
<1>2. \A q \in Parse : Parser(q)'
  BY <1>1, Waits DEF ImportInv
<1>3. FriendsApart'
  <2>1. \A q \in Parse : Running(q)' => Running(q)
    BY <1>1 DEF Running, Over
  <2>2. \A q \in Parse : At(q, "make_friend")' => At(q, "make_friend") /\ Item(q)' = Item(q)
    BY <1>1 DEF At, Item, Current
  <2> QED
    BY <2>1, <2>2 DEF ImportInv, FriendsApart, Unlisted
<1> QED
  BY <1>1, <1>2, <1>3 DEF ImportInv, FriendsFrom, Grows

\* The kinds of items and the steps they begin with.
LEMMA ItemBegins ==
  ASSUME NEW p \in Parse, NEW n \in DOMAIN Entries[p], NEW i \in DOMAIN Entries[p][n].items
  PROVE  LET item == Entries[p][n].items[i]
         IN /\ StepOf(item) \in {"tag", "look_media", "place"}
            /\ StepOf(item) = "tag" => item.kind = "tag"
            /\ StepOf(item) = "look_media" => item.kind = "media"
            /\ StepOf(item) = "place" => item.kind = "place"
<1>1. Entries[p][n].items[i].kind \in {"tag", "media", "place"}
  BY EntriesAssumption
<1> QED
  BY <1>1 DEF StepOf

LEMMA StaysStored ==
  ASSUME NEW p, Grows(p), NEW of, NEW item, Stored(of, item)
  PROVE  StoredIn(tags', DOMAIN media', of, item)
  BY DEF Stored, StoredIn, Grows

\* What a range leaves out it goes on to leave out.
LEMMA StaysOmitted ==
  ASSUME NEW p, local'[p].range = local[p].range
  PROVE  \A n : Omitted(p, n)' <=> Omitted(p, n)
  BY DEF Omitted

\* A parser goes on after an entry whose items are stored, or that is left out, or for which there
\* was trouble.
LEMMA EntryOver ==
  ASSUME ImportInv, NEW p \in Parse, local[p].step \in ItemSteps \cup {"create"}, NextEntry(p), Grows(p),
         p \notin trouble' /\ ~Omitted(p, local[p].entry) =>
             \A i \in DOMAIN Current(p).items :
                 StoredIn(tags', DOMAIN media', Row(Current(p)), Current(p).items[i])
  PROVE  \E l : Sets(p, l) /\ l.step # "make_friend" /\ Parser(p)' /\ Running(p)
<1> DEFINE old == local[p]
           n == old.entry + 1
           step == EntryStep(p, n)
           l == [Idle EXCEPT !.entry = n, !.step = step, !.range = old.range]
<1>1. Local(old) /\ Position(p) /\ HasEntry(p) /\ HasFriends(p) /\ HasStored(p)
  BY DEF ImportInv, Parser
<1>2. /\ old.entry \in Nat \ {0} /\ old.entry <= Len(Entries[p]) /\ Len(Entries[p]) \in Nat
      /\ DOMAIN Entries[p] = 1..Len(Entries[p])
  BY <1>1, EntriesAssumption DEF Position
<1>3. Running(p)
  BY DEF Running, Over, ItemSteps, TagSteps, MediaSteps
<1>4. Sets(p, l)
  BY DEF NextEntry, Sets
<1>5. local'[p] = l
  BY <1>4, LocalSet DEF ImportInv
<1>6. /\ Local(l) /\ l.step = step /\ l.entry = n /\ l.item = 1 /\ l.known = <<>>
      /\ l.range = old.range
  <2> HIDE DEF step, n
  <2> QED
    BY DEF Local, Idle
<1>7. n \in 1..(Len(Entries[p]) + 1)
  BY <1>2
<1>8. /\ step \in {"upload", "validate", "create"}
      /\ IF step = "upload" THEN n = Len(Entries[p]) + 1 ELSE n <= Len(Entries[p])
  BY <1>2, <1>7 DEF EntryStep
<1> HIDE DEF l, step
<1>9. Position(p)'
  BY <1>5, <1>6, <1>7, <1>8 DEF Position, AllSteps, Simple, ItemSteps, TagSteps, MediaSteps
<1>10. HasEntry(p)'
  BY <1>5, <1>6, <1>8 DEF HasEntry, ItemSteps, TagSteps, MediaSteps
<1>11. HasFriends(p)'
  <2>1. old.step \notin {"idle", "friends", "failed"}
    BY DEF ItemSteps, TagSteps, MediaSteps
  <2>2. DOMAIN l.known = {}
    BY <1>6
  <2> QED
    BY <1>1, <1>5, <1>6, <1>8, <2>1, <2>2 DEF HasFriends, Grows
<1>12. HasStored(p)'
  <2>1. ASSUME NEW m \in DOMAIN Entries[p], NEW i \in DOMAIN Entries[p][m].items, Behind(p, m, i)',
               ~Omitted(p, m)', p \notin trouble'
        PROVE  Stored(Row(Entries[p][m]), Entries[p][m].items[i])'
    <3>1. m \in Nat /\ i \in Nat \ {0}
      BY <1>2, EntriesAssumption
    <3>2. m < n \/ (m = n /\ i < 1)
      BY <1>5, <1>6, <2>1 DEF Behind
    <3>3. ~Omitted(p, m) /\ p \notin trouble
      BY <1>5, <1>6, <2>1, StaysOmitted DEF Grows
    <3>4. CASE m = old.entry
      BY <2>1, <3>3, <3>4 DEF Current, Stored
    <3>5. CASE m # old.entry
      <4>1. Behind(p, m, i)
        BY <1>2, <3>1, <3>2, <3>5 DEF Behind
      <4>2. Stored(Row(Entries[p][m]), Entries[p][m].items[i])
        BY <1>1, <3>3, <4>1 DEF HasStored
      <4>3. StoredIn(tags', DOMAIN media', Row(Entries[p][m]), Entries[p][m].items[i])
        BY <4>2, StaysStored
      <4> QED
        BY <4>3 DEF Stored
    <3> QED
      BY <3>4, <3>5
  <2>2. ~At(p, "done")' /\ \A j \in DOMAIN MediaFiles[p] : ~(j < local'[p].item)
    BY <1>5, <1>6, <1>8, EntriesAssumption DEF At
  <2> QED
    BY <2>1, <2>2 DEF HasStored
<1>13. l.step # "make_friend"
  BY <1>6, <1>8
<1> QED
  BY <1>3, <1>4, <1>5, <1>6, <1>9, <1>10, <1>11, <1>12, <1>13 DEF Parser

\* A parser goes on after an item that is stored, or for which there was trouble.
LEMMA GoesOn ==
  ASSUME ImportInv, NEW p \in Parse, local[p].step \in ItemSteps, NextItem(p), Grows(p),
         p \notin trouble' => StoredIn(tags', DOMAIN media', Row(Current(p)), Item(p))
  PROVE  \E l : Sets(p, l) /\ l.step # "make_friend" /\ Parser(p)' /\ Running(p)
<1> DEFINE old == local[p]
           next == old.item + 1
<1>1. Local(old) /\ Position(p) /\ HasEntry(p) /\ HasFriends(p) /\ HasStored(p)
  BY DEF ImportInv, Parser
<1>2. /\ old.entry \in Nat \ {0} /\ old.entry <= Len(Entries[p]) /\ Len(Entries[p]) \in Nat
      /\ old.item \in Nat \ {0} /\ old.item <= Len(Current(p).items)
  BY <1>1, EntriesAssumption DEF Position
<1>3. /\ DOMAIN Entries[p] = 1..Len(Entries[p]) /\ old.entry \in DOMAIN Entries[p]
      /\ Len(Current(p).items) \in Nat /\ DOMAIN Current(p).items = 1..Len(Current(p).items)
  BY <1>2, EntriesAssumption DEF Current
<1>4. Running(p)
  BY DEF Running, Over, ItemSteps, TagSteps, MediaSteps
<1>5. \A m \in DOMAIN Entries[p] : \A i \in DOMAIN Entries[p][m].items :
          p \notin trouble' /\ ~Omitted(p, m) /\ (Behind(p, m, i) \/ (m = old.entry /\ i = old.item)) =>
              StoredIn(tags', DOMAIN media', Row(Entries[p][m]), Entries[p][m].items[i])
  <2>1. p \notin trouble' => p \notin trouble
    BY DEF Grows
  <2> SUFFICES ASSUME NEW m \in DOMAIN Entries[p], NEW i \in DOMAIN Entries[p][m].items, p \notin trouble', ~Omitted(p, m),
                      Behind(p, m, i) \/ (m = old.entry /\ i = old.item)
               PROVE  StoredIn(tags', DOMAIN media', Row(Entries[p][m]), Entries[p][m].items[i])
    OBVIOUS
  <2>2. CASE Behind(p, m, i)
    <3>1. Stored(Row(Entries[p][m]), Entries[p][m].items[i])
      BY <1>1, <2>1, <2>2 DEF HasStored
    <3> QED
      BY <3>1, StaysStored
  <2>3. CASE m = old.entry /\ i = old.item
    BY <2>3 DEF Current, Item
  <2> QED
    BY <2>2, <2>3
<1>6. CASE next <= Len(Current(p).items)
  <2> DEFINE step == StepOf(Current(p).items[next])
             l == [old EXCEPT !.item = next, !.found = FALSE, !.step = step]
  <2>1. Sets(p, l)
    BY <1>6 DEF NextItem, Sets
  <2>2. local'[p] = l
    BY <2>1, LocalSet DEF ImportInv
  <2>3. /\ Local(l) /\ l.step = step /\ l.entry = old.entry /\ l.item = next /\ l.id = old.id
        /\ l.known = old.known /\ l.range = old.range
    <3> HIDE DEF step, next
    <3> QED
      BY <1>1 DEF Local
  <2>4. /\ next \in DOMAIN Current(p).items /\ next \in Nat \ {0}
    BY <1>2, <1>3, <1>6
  <2>5. /\ step \in {"tag", "look_media", "place"}
        /\ step = "tag" => Current(p).items[next].kind = "tag"
        /\ step = "look_media" => Current(p).items[next].kind = "media"
        /\ step = "place" => Current(p).items[next].kind = "place"
    BY <1>3, <2>4, ItemBegins DEF Current
  <2>6. Current(p)' = Current(p) /\ Item(p)' = Current(p).items[next]
    BY <2>2, <2>3 DEF Current, Item
  <2> HIDE DEF l, step, next
  <2>7. Position(p)'
    BY <1>1, <1>6, <2>2, <2>3, <2>4, <2>5, <2>6
    DEF Position, AllSteps, Simple, ItemSteps, TagSteps, MediaSteps
  <2>8. HasEntry(p)'
    BY <1>1, <2>2, <2>3, <2>6 DEF HasEntry, Grows
  <2>9. HasFriends(p)'
    <3>1. old.step \notin {"idle", "friends", "failed"}
      BY DEF ItemSteps, TagSteps, MediaSteps
    <3> QED
      BY <1>1, <2>2, <2>3, <2>5, <3>1 DEF HasFriends, Grows
  <2>10. HasStored(p)'
    <3>1. ASSUME NEW m \in DOMAIN Entries[p], NEW i \in DOMAIN Entries[p][m].items, Behind(p, m, i)'
          PROVE  Behind(p, m, i) \/ (m = old.entry /\ i = old.item)
      <4>1. m \in Nat /\ i \in Nat
        BY <1>3, EntriesAssumption
      <4>2. m < old.entry \/ (m = old.entry /\ i < next)
        BY <2>2, <2>3, <3>1 DEF Behind
      <4> QED
        BY <1>2, <4>1, <4>2 DEF Behind, next
    <3>2. ~At(p, "upload")' /\ ~At(p, "done")'
      BY <2>2, <2>3, <2>5 DEF At
    <3>3. \A m : Omitted(p, m)' <=> Omitted(p, m)
      BY <2>2, <2>3, StaysOmitted
    <3> QED
      BY <1>5, <3>1, <3>2, <3>3 DEF HasStored, Stored
  <2>11. l.step # "make_friend"
    BY <2>3, <2>5
  <2> QED
    BY <1>4, <2>1, <2>2, <2>3, <2>7, <2>8, <2>9, <2>10, <2>11 DEF Parser
<1>7. CASE ~(next <= Len(Current(p).items))
  <2>1. NextEntry(p)
    BY <1>7 DEF NextItem
  <2>2. \A i \in DOMAIN Current(p).items : i \in Nat /\ (i < old.item \/ i = old.item)
    BY <1>2, <1>3, <1>7
  <2>3. ASSUME p \notin trouble', ~Omitted(p, old.entry), NEW i \in DOMAIN Current(p).items
        PROVE  StoredIn(tags', DOMAIN media', Row(Current(p)), Current(p).items[i])
    <3>1. i = old.item \/ Behind(p, old.entry, i)
      BY <2>2 DEF Behind
    <3> QED
      BY <1>3, <1>5, <2>3, <3>1 DEF Current
  <2> QED
    BY <1>2, <2>1, <2>3, EntryOver DEF ItemSteps, TagSteps, MediaSteps
<1> QED
  BY <1>6, <1>7

LEMMA SameRows ==
  ASSUME ImportInv, UNCHANGED <<friends, entries, tags, media, places>>
  PROVE  RowsRefer' /\ MediaFrom'
BY DEF ImportInv, RowsRefer, MediaFrom

\* A parser that stays at its item has behind it what it had.
LEMMA SameStored ==
  ASSUME NEW p \in Parse, NEW l, Parser(p), local'[p] = l, Grows(p), l.step # "done",
         l.entry = local[p].entry, l.item = local[p].item, l.range = local[p].range,
         l.step = "upload" => l.item = 1
  PROVE  HasStored(p)'
<1>1. p \notin trouble' => p \notin trouble
  BY DEF Grows
<1>2. \A j \in DOMAIN MediaFiles[p] : ~(j < 1)
  BY EntriesAssumption
<1>3. ASSUME NEW m \in DOMAIN Entries[p], NEW i \in DOMAIN Entries[p][m].items, Behind(p, m, i)',
             ~Omitted(p, m)', p \notin trouble'
      PROVE  Stored(Row(Entries[p][m]), Entries[p][m].items[i])'
  <2>1. Behind(p, m, i) /\ ~Omitted(p, m)
    BY <1>3, StaysOmitted DEF Behind
  <2>2. Stored(Row(Entries[p][m]), Entries[p][m].items[i])
    BY <1>1, <1>3, <2>1 DEF Parser, HasStored
  <2>3. StoredIn(tags', DOMAIN media', Row(Entries[p][m]), Entries[p][m].items[i])
    BY <2>2, StaysStored
  <2> QED
    BY <2>3 DEF Stored
<1>4. ~At(p, "done")' /\ (At(p, "upload")' => local'[p].item = 1)
  BY DEF At
<1> QED
  BY <1>2, <1>3, <1>4 DEF HasStored

LEMMA BeginParseInv == ASSUME ImportInv, NEW p \in Parse, BeginParse(p) PROVE ImportInv'
<1>0. PICK range \in Ranges : local' = [local EXCEPT ![p].step = "friends", ![p].range = range]
  BY DEF BeginParse
<1> DEFINE l == [local[p] EXCEPT !.step = "friends", !.range = range]
<1>1. /\ Sets(p, l) /\ local[p].step = "idle" /\ overlap' = (overlap \/ \E q \in Parse : Running(q))
      /\ UNCHANGED <<friends, entries, tags, media, places, bucket, trouble>>
  BY <1>0 DEF BeginParse, Sets, At
<1>2. Parser(p)
  BY DEF ImportInv
<1>3. /\ local' = [q \in Parse |-> local'[q]] /\ local'[p] = l
      /\ \A q \in Parse : q # p => local'[q] = local[q]
  BY <1>1, LocalSet DEF ImportInv
<1>4. /\ Local(l) /\ l.step = "friends" /\ l.entry = local[p].entry /\ l.item = local[p].item
      /\ l.known = local[p].known
  BY <1>2 DEF Parser, Local
<1> HIDE DEF l
<1>5. Grows(p)
  BY <1>1 DEF Grows
<1>6. Parser(p)'
  <2>1. Position(p)'
    BY <1>1, <1>2, <1>3, <1>4
    DEF Parser, Position, AllSteps, Simple, ItemSteps, TagSteps, MediaSteps
  <2>2. HasEntry(p)' /\ HasFriends(p)'
    BY <1>1, <1>2, <1>3, <1>4 DEF Parser, HasEntry, HasFriends, ItemSteps, TagSteps, MediaSteps
  <2>3. HasStored(p)'
    <3>1. l.entry = 1 /\ l.item = 1
      BY <1>1, <1>2, <1>4 DEF Parser, Position, Simple
    <3>2. ~At(p, "upload")' /\ ~At(p, "done")'
      BY <1>3, <1>4 DEF At
    <3>3. \A n \in DOMAIN Entries[p] : \A i \in DOMAIN Entries[p][n].items : ~Behind(p, n, i)'
      BY <1>3, <3>1, EntriesAssumption DEF Behind
    <3> QED
      BY <3>2, <3>3 DEF HasStored
  <2> QED
    BY <1>3, <1>4, <2>1, <2>2, <2>3 DEF Parser
<1>7. \A q \in Parse : Parser(q)'
  BY <1>1, <1>3, <1>5, <1>6, Waits DEF ImportInv
<1>8. FriendsApart'
  <2>1. \A q \in Parse : Running(q)' => Running(q) \/ q = p
    BY <1>3 DEF Running, Over
  <2>2. \A q \in Parse : At(q, "make_friend")' => At(q, "make_friend") /\ Item(q)' = Item(q)
    BY <1>3, <1>4 DEF At, Item, Current
  <2>3. ~overlap' => ~overlap /\ \A q \in Parse : ~Running(q)
    BY <1>1 DEF ImportInv
  <2> QED
    BY <1>1, <2>1, <2>2, <2>3 DEF ImportInv, FriendsApart, Unlisted
<1>9. RowsRefer' /\ MediaFrom' /\ FriendsFrom'
  BY <1>1 DEF ImportInv, RowsRefer, MediaFrom, FriendsFrom
<1>10. trouble' \subseteq Parse /\ overlap' \in BOOLEAN
  BY <1>1 DEF ImportInv
<1> QED
  BY <1>3, <1>7, <1>8, <1>9, <1>10 DEF ImportInv

LEMMA InsertFriendsInv == ASSUME ImportInv, NEW p \in Parse, InsertFriends(p) PROVE ImportInv'
<1>1. PICK step \in {"validate", "failed"} :
          /\ Goto(p, step)
          /\ IF step = "validate" THEN \E new \in NewFriends(p) : friends' = friends \cup new
             ELSE friends' = friends
  BY DEF InsertFriends
<1>0. /\ friends \subseteq friends'
      /\ \A f \in friends' : f \in friends \/ (f[1] \in DOMAIN FriendTime[p] /\ f = <<f[1], FriendTime[p][f[1]]>>)
      /\ step = "validate" =>
             \A name \in DOMAIN FriendTime[p] : \E f \in friends' : f[2] = FriendTime[p][name]
  <2>1. CASE step = "failed"
    BY <1>1, <2>1
  <2>2. CASE step = "validate"
    <3>1. PICK new \in NewFriends(p) : friends' = friends \cup new
      BY <1>1, <2>2
    <3>2. \A f \in new : f[1] \in DOMAIN FriendTime[p] /\ f = <<f[1], FriendTime[p][f[1]]>>
      BY DEF NewFriends
    <3>3. ASSUME NEW name \in DOMAIN FriendTime[p], \A g \in friends : g[2] # FriendTime[p][name]
          PROVE  \E f \in new : f[2] = FriendTime[p][name]
      <4> DEFINE f == <<name, FriendTime[p][name]>>
      <4>1. f[2] = FriendTime[p][name]
        OBVIOUS
      <4>2. \E g \in new : g[2] = f[2]
        BY <3>3 DEF NewFriends
      <4> QED
        BY <4>1, <4>2
    <3> QED
      BY <3>1, <3>2, <3>3
  <2> QED
    BY <2>1, <2>2
<1> DEFINE l == [local[p] EXCEPT !.step = step]
<1>2. /\ Sets(p, l) /\ local[p].step = "friends"
      /\ UNCHANGED <<entries, tags, media, places, bucket, trouble, overlap>>
  BY <1>1 DEF InsertFriends, Goto, Sets, At
<1>3. Parser(p)
  BY DEF ImportInv
<1>4. /\ local' = [q \in Parse |-> local'[q]] /\ local'[p] = l
      /\ \A q \in Parse : q # p => local'[q] = local[q]
  BY <1>2, LocalSet DEF ImportInv
<1>5. /\ Local(l) /\ l.step = step /\ l.entry = local[p].entry /\ l.item = local[p].item
      /\ l.known = local[p].known /\ l.range = local[p].range
  BY <1>3 DEF Parser, Local
<1> HIDE DEF l
<1>6. Grows(p)
  BY <1>0, <1>2 DEF Grows
<1>7. Parser(p)'
  <2>1. Position(p)'
    BY <1>2, <1>3, <1>4, <1>5
    DEF Parser, Position, AllSteps, Simple, ItemSteps, TagSteps, MediaSteps
  <2>2. HasEntry(p)'
    BY <1>4, <1>5 DEF HasEntry, ItemSteps, TagSteps, MediaSteps
  <2>3. HasFriends(p)'
    BY <1>0, <1>3, <1>4, <1>5 DEF Parser, HasFriends
  <2>4. HasStored(p)'
    BY <1>3, <1>4, <1>5, <1>6, SameStored
  <2> QED
    BY <1>4, <1>5, <2>1, <2>2, <2>3, <2>4 DEF Parser
<1>8. \A q \in Parse : Parser(q)'
  BY <1>2, <1>4, <1>6, <1>7, Waits DEF ImportInv
<1>9. FriendsApart'
  <2>1. Running(p) /\ \A q \in Parse : Running(q)' => Running(q)
    BY <1>2, <1>4, <1>5 DEF Running, Over
  <2>2. \A q \in Parse : At(q, "make_friend")' => q # p /\ At(q, "make_friend") /\ Item(q)' = Item(q)
    BY <1>4, <1>5 DEF At, Item, Current
  <2>3. \A q \in Parse : At(q, "make_friend") => Running(q)
    BY DEF At, Running, Over
  <2>4. \A f \in friends' : f \in friends \/ ~Unlisted(f[1])
    BY <1>0 DEF Unlisted
  <2> SUFFICES ASSUME ~overlap'
               PROVE  /\ \A q, r \in Parse : Running(q)' /\ Running(r)' => q = r
                      /\ \A q \in Parse : At(q, "make_friend")' => \A f \in friends' : f[1] # Item(q)'.name
                      /\ \A f, g \in friends' : f[1] = g[1] /\ Unlisted(f[1]) => f = g
    BY DEF FriendsApart, Unlisted
  <2>5. FriendsApart /\ ~overlap
    BY <1>2 DEF ImportInv
  <2>6. \A q \in Parse : ~At(q, "make_friend")'
    BY <2>1, <2>2, <2>3, <2>5 DEF FriendsApart
  <2>7. \A f, g \in friends' : f[1] = g[1] /\ Unlisted(f[1]) => f = g
    BY <2>4, <2>5 DEF FriendsApart
  <2> QED
    BY <2>1, <2>5, <2>6, <2>7 DEF FriendsApart
<1>10. RowsRefer' /\ MediaFrom' /\ FriendsFrom'
  <2>1. FriendsFrom'
    BY <1>0 DEF ImportInv, FriendsFrom, OfAList
  <2> QED
    BY <1>2, <1>6, <2>1 DEF ImportInv, RowsRefer, MediaFrom, Grows
<1>11. trouble' \subseteq Parse /\ overlap' \in BOOLEAN
  BY <1>2 DEF ImportInv
<1> QED
  BY <1>4, <1>8, <1>9, <1>10, <1>11 DEF ImportInv

LEMMA ValidateInv == ASSUME ImportInv, NEW p \in Parse, Validate(p) PROVE ImportInv'
<1>1. PICK step \in {"upload", "create", "failed"} :
          /\ Goto(p, step) /\ trouble \subseteq trouble' /\ trouble' \subseteq trouble \cup {p}
          /\ step = "upload" => p \in trouble' \/ local[p].entry > Len(Entries[p])
          /\ step = "create" => ~(local[p].entry > Len(Entries[p]))
  BY DEF Validate
<1> DEFINE l == [local[p] EXCEPT !.step = step]
<1>2. /\ Sets(p, l) /\ local[p].step = "validate"
      /\ UNCHANGED <<friends, entries, tags, media, places, bucket, overlap>>
  BY <1>1 DEF Validate, Goto, Sets, At
<1>3. Parser(p)
  BY DEF ImportInv
<1>4. local'[p] = l
  BY <1>2, LocalSet DEF ImportInv
<1>5. /\ Local(l) /\ l.step = step /\ l.entry = local[p].entry /\ l.item = local[p].item
      /\ l.known = local[p].known /\ l.range = local[p].range
  BY <1>3 DEF Parser, Local
<1> HIDE DEF l
<1>6. Grows(p)
  BY <1>1, <1>2 DEF Grows
<1>7. l.item = 1 /\ l.entry \in 1..(Len(Entries[p]) + 1) /\ Len(Entries[p]) \in Nat
  BY <1>2, <1>3, <1>5, EntriesAssumption DEF Parser, Position, Simple
<1>8. Parser(p)'
  <2>1. Position(p)'
    BY <1>1, <1>4, <1>5, <1>7 DEF Position, AllSteps, Simple, ItemSteps, TagSteps, MediaSteps
  <2>2. HasEntry(p)'
    BY <1>4, <1>5 DEF HasEntry, ItemSteps, TagSteps, MediaSteps
  <2>3. HasFriends(p)'
    BY <1>2, <1>3, <1>4, <1>5 DEF Parser, HasFriends
  <2>4. HasStored(p)'
    BY <1>3, <1>4, <1>5, <1>6, <1>7, SameStored
  <2> QED
    BY <1>4, <1>5, <2>1, <2>2, <2>3, <2>4 DEF Parser
<1>9. Running(p) /\ l.step # "make_friend"
  BY <1>2, <1>5 DEF Running, Over
<1> QED
  BY <1>2, <1>6, <1>8, <1>9, OneStep, SameRows

\* The first item of an entry.
LEMMA FirstItem ==
  ASSUME NEW p \in Parse, Position(p), local[p].step \in {"create", "read_friends"}
  PROVE  LET item == Current(p).items[1]
         IN /\ Len(Current(p).items) \in Nat \ {0}
            /\ StepOf(item) \in {"tag", "look_media", "place"}
            /\ StepOf(item) = "tag" => item.kind = "tag"
            /\ StepOf(item) = "look_media" => item.kind = "media"
            /\ StepOf(item) = "place" => item.kind = "place"
<1>1. local[p].entry \in DOMAIN Entries[p]
  BY EntriesAssumption DEF Position
<1>2. Len(Current(p).items) \in Nat \ {0} /\ 1 \in DOMAIN Current(p).items
  BY <1>1, EntriesAssumption DEF Current
<1> QED
  BY <1>1, <1>2, ItemBegins DEF Current

LEMMA CreateInv == ASSUME ImportInv, NEW p \in Parse, Create(p) PROVE ImportInv'
<1> DEFINE first == StepOf(Current(p).items[1])
<1>1. PICK id \in {NoEntry, Row(Current(p))} :
          /\ Created(p, id)
          /\ \/ id = Row(Current(p)) /\ id \in entries' /\ entries' = entries \cup {id} /\ trouble' = trouble
             \/ id = NoEntry /\ trouble' = trouble \cup {p} /\ entries' = entries
  BY DEF Create
<1> DEFINE step == IF HasTags(Current(p)) THEN "read_friends" ELSE first
           l == [local[p] EXCEPT !.id = id, !.step = step]
<1>2. /\ Sets(p, l) /\ local[p].step = "create"
      /\ UNCHANGED <<friends, tags, media, places, bucket, overlap>>
  BY <1>1 DEF Create, Created, Sets, At
<1>3. Parser(p)
  BY DEF ImportInv
<1>4. local'[p] = l
  BY <1>2, LocalSet DEF ImportInv
<1>5. /\ Local(l) /\ l.step = step /\ l.entry = local[p].entry /\ l.item = local[p].item
      /\ l.known = local[p].known /\ l.range = local[p].range /\ l.id = id
  <2> HIDE DEF step
  <2> QED
    BY <1>3 DEF Parser, Local
<1>6. Grows(p)
  BY <1>1, <1>2 DEF Grows
<1>7. /\ l.item = 1 /\ l.entry \in 1..(Len(Entries[p]) + 1) /\ l.entry <= Len(Entries[p])
  BY <1>2, <1>3, <1>5 DEF Parser, Position, Simple
<1>8. /\ step \in {"read_friends", "tag", "look_media", "place"}
      /\ step = "tag" => Current(p).items[1].kind = "tag"
      /\ step = "look_media" => Current(p).items[1].kind = "media"
      /\ step = "place" => Current(p).items[1].kind = "place"
      /\ Len(Current(p).items) \in Nat \ {0}
  BY <1>2, <1>3, FirstItem DEF Parser
<1>9. Current(p)' = Current(p) /\ Item(p)' = Current(p).items[1]
  BY <1>4, <1>5, <1>7 DEF Current, Item
<1> HIDE DEF l, step, first
<1>10. Parser(p)'
  <2>1. Position(p)'
    BY <1>4, <1>5, <1>7, <1>8, <1>9 DEF Position, AllSteps, Simple, ItemSteps, TagSteps, MediaSteps
  <2>2. HasEntry(p)'
    BY <1>1, <1>4, <1>5, <1>9 DEF HasEntry
  <2>3. HasFriends(p)'
    BY <1>2, <1>3, <1>4, <1>5, <1>8 DEF Parser, HasFriends
  <2>4. HasStored(p)'
    BY <1>3, <1>4, <1>5, <1>6, <1>8, SameStored
  <2> QED
    BY <1>4, <1>5, <2>1, <2>2, <2>3, <2>4 DEF Parser
<1>11. Running(p) /\ l.step # "make_friend"
  BY <1>2, <1>5, <1>8 DEF Running, Over
<1>12. RowsRefer' /\ MediaFrom'
  BY <1>1, <1>2 DEF ImportInv, RowsRefer, MediaFrom
<1> QED
  BY <1>2, <1>6, <1>10, <1>11, <1>12, OneStep

\* The entry is within the activity range.
LEMMA OmitInv == ASSUME ImportInv, NEW p \in Parse, Omit(p) PROVE ImportInv'
<1>1. /\ local[p].step = "create" /\ Omitted(p, local[p].entry) /\ NextEntry(p)
      /\ UNCHANGED <<friends, entries, tags, media, places, bucket, trouble, overlap>>
  BY DEF Omit, At
<1>2. Grows(p)
  BY <1>1 DEF Grows
<1>3. \E l : Sets(p, l) /\ l.step # "make_friend" /\ Parser(p)' /\ Running(p)
  BY <1>1, <1>2, EntryOver
<1> QED
  BY <1>1, <1>2, <1>3, OneStep, SameRows

LEMMA ReadFriendsInv == ASSUME ImportInv, NEW p \in Parse, ReadFriends(p) PROVE ImportInv'
<1>1. PICK known :
          /\ \A name \in DOMAIN known : known[name] \in friends /\ known[name][1] = name
          /\ local' = [local EXCEPT ![p].known = known, ![p].step = StepOf(Current(p).items[1])]
          /\ trouble' = trouble \/ trouble' = trouble \cup {p}
  <2>1. PICK known \in {k \in [{f[1] : f \in friends} -> friends] : \A name \in DOMAIN k : k[name][1] = name}
              \cup (IF "call" \in ImportFaults THEN {<<>>} ELSE {}) :
          /\ local' = [local EXCEPT ![p].known = known, ![p].step = StepOf(Current(p).items[1])]
          /\ trouble' = IF DOMAIN known = {f[1] : f \in friends} THEN trouble ELSE trouble \cup {p}
    BY DEF ReadFriends
  <2>2. \A name \in DOMAIN known : known[name] \in friends /\ known[name][1] = name
    <3>1. known = <<>> \/ known \in {k \in [{f[1] : f \in friends} -> friends] : \A name \in DOMAIN k : k[name][1] = name}
      OBVIOUS
    <3>2. CASE known = <<>>
      BY <3>2
    <3>3. CASE known \in {k \in [{f[1] : f \in friends} -> friends] : \A name \in DOMAIN k : k[name][1] = name}
      BY <3>3
    <3> QED
      BY <3>1, <3>2, <3>3
  <2> QED
    BY <2>1, <2>2
<1> DEFINE step == StepOf(Current(p).items[1])
           l == [local[p] EXCEPT !.known = known, !.step = step]
<1>2. /\ Sets(p, l) /\ local[p].step = "read_friends"
      /\ UNCHANGED <<friends, entries, tags, media, places, bucket, overlap>>
  BY <1>1 DEF ReadFriends, Sets, At
<1>3. Parser(p)
  BY DEF ImportInv
<1>4. local'[p] = l
  BY <1>2, LocalSet DEF ImportInv
<1>5. /\ Local(l) /\ l.step = step /\ l.entry = local[p].entry /\ l.item = local[p].item
      /\ l.known = known /\ l.range = local[p].range /\ l.id = local[p].id
  <2> HIDE DEF step
  <2> QED
    BY <1>3 DEF Parser, Local
<1>6. Grows(p)
  BY <1>1, <1>2 DEF Grows
<1>7. /\ l.item = 1 /\ l.entry \in 1..(Len(Entries[p]) + 1) /\ l.entry <= Len(Entries[p])
  BY <1>2, <1>3, <1>5 DEF Parser, Position, Simple
<1>8. /\ step \in {"tag", "look_media", "place"}
      /\ step = "tag" => Current(p).items[1].kind = "tag"
      /\ step = "look_media" => Current(p).items[1].kind = "media"
      /\ step = "place" => Current(p).items[1].kind = "place"
      /\ Len(Current(p).items) \in Nat \ {0}
  BY <1>2, <1>3, FirstItem DEF Parser
<1>9. Current(p)' = Current(p) /\ Item(p)' = Current(p).items[1]
  BY <1>4, <1>5, <1>7 DEF Current, Item
<1> HIDE DEF l, step
<1>10. Parser(p)'
  <2>1. Position(p)'
    BY <1>4, <1>5, <1>7, <1>8, <1>9 DEF Position, AllSteps, Simple, ItemSteps, TagSteps, MediaSteps
  <2>2. HasEntry(p)'
    BY <1>2, <1>3, <1>4, <1>5, <1>6, <1>9 DEF Parser, HasEntry, Grows
  <2>3. HasFriends(p)'
    <3>1. \A name \in DOMAIN l.known : l.known[name] \in friends' /\ l.known[name][1] = name
      BY <1>1, <1>2, <1>5
    <3>2. \A name \in DOMAIN FriendTime[p] : \E f \in friends' : f[2] = FriendTime[p][name]
      BY <1>2, <1>3 DEF Parser, HasFriends
    <3>3. l.step # "insert_tag" /\ l.step # "make_friend"
      BY <1>5, <1>8
    <3> QED
      BY <1>4, <3>1, <3>2, <3>3 DEF HasFriends
  <2>4. HasStored(p)'
    BY <1>3, <1>4, <1>5, <1>6, <1>8, SameStored
  <2> QED
    BY <1>4, <1>5, <2>1, <2>2, <2>3, <2>4 DEF Parser
<1>11. Running(p) /\ l.step # "make_friend"
  BY <1>2, <1>5, <1>8 DEF Running, Over
<1> QED
  BY <1>2, <1>6, <1>10, <1>11, OneStep, SameRows

\* A call of an item fails.
LEMMA PassedInv ==
  ASSUME ImportInv, NEW p \in Parse, local[p].step \in ItemSteps, Passed(p),
         UNCHANGED <<friends, entries, tags, media, places, bucket, overlap>>
  PROVE  ImportInv'
<1>1. NextItem(p) /\ trouble' = trouble \cup {p}
  BY DEF Passed
<1>2. Grows(p)
  BY <1>1 DEF Grows
<1>3. \E l : Sets(p, l) /\ l.step # "make_friend" /\ Parser(p)' /\ Running(p)
  BY <1>1, <1>2, GoesOn
<1> QED
  BY <1>2, <1>3, OneStep, SameRows

\* An item is over, and what it brings is stored.
LEMMA DoneInv ==
  ASSUME ImportInv, NEW p \in Parse, local[p].step \in ItemSteps, NextItem(p), Grows(p), RowsRefer', MediaFrom',
         UNCHANGED <<friends, overlap>>,
         p \notin trouble' => StoredIn(tags', DOMAIN media', Row(Current(p)), Item(p))
  PROVE  ImportInv'
<1>1. \E l : Sets(p, l) /\ l.step # "make_friend" /\ Parser(p)' /\ Running(p)
  BY GoesOn
<1> QED
  BY <1>1, OneStep

\* The item a parser is at, and the row of its entry.
LEMMA AtItem ==
  ASSUME ImportInv, NEW p \in Parse, local[p].step \in ItemSteps
  PROVE  /\ local[p].entry \in DOMAIN Entries[p] /\ local[p].item \in DOMAIN Current(p).items
         /\ Row(Current(p)) # NoEntry
         /\ local[p].id # NoEntry => local[p].id = Row(Current(p)) /\ local[p].id \in entries
         /\ p \notin trouble => local[p].id = Row(Current(p))
<1>1. Position(p) /\ HasEntry(p)
  BY DEF ImportInv, Parser
<1>2. local[p].entry \in DOMAIN Entries[p]
  BY <1>1, EntriesAssumption DEF Position
<1>3. local[p].item \in DOMAIN Current(p).items
  BY <1>1, <1>2, EntriesAssumption DEF Position, Current
<1>4. Row(Current(p)) # NoEntry
  <2>1. Current(p).kind \in {"post", "comment"}
    BY <1>2, EntriesAssumption DEF Current
  <2>2. Row(Current(p)).kind = Current(p).kind /\ NoEntry.kind = "none"
    BY DEF Row, NoEntry
  <2> QED
    BY <2>1, <2>2
<1> QED
  BY <1>1, <1>2, <1>3, <1>4 DEF HasEntry

LEMMA InsertTagInv == ASSUME ImportInv, NEW p \in Parse, InsertTag(p) PROVE ImportInv'
<1> DEFINE row == [of |-> local[p].id, friend |-> local[p].known[Item(p).name]]
<1>1. /\ local[p].step = "insert_tag" /\ local[p].step \in ItemSteps
      /\ UNCHANGED <<friends, entries, media, places, bucket, overlap>>
  BY DEF InsertTag, At, ItemSteps, TagSteps
<1>2. CASE Passed(p) /\ UNCHANGED tags
  BY <1>1, <1>2, PassedInv
<1>3. CASE /\ tags' = IF local[p].id = NoEntry THEN tags ELSE tags \cup {row}
           /\ NextItem(p) /\ UNCHANGED trouble
  <2>1. /\ row.of = local[p].id /\ row.friend \in friends /\ row.friend[1] = Item(p).name
        /\ Item(p).kind = "tag"
    BY <1>1 DEF ImportInv, Parser, Position, HasFriends, TagSteps
  <2>2. row = [of |-> row.of, friend |-> row.friend]
    OBVIOUS
  <2> HIDE DEF row
  <2>3. Grows(p)
    BY <1>1, <1>3 DEF Grows
  <2>4. RowsRefer'
    BY <1>1, <1>3, <2>1, <2>2, AtItem DEF ImportInv, RowsRefer
  <2>5. MediaFrom'
    BY <1>1 DEF ImportInv, MediaFrom
  <2>6. p \notin trouble' => StoredIn(tags', DOMAIN media', Row(Current(p)), Item(p))
    <3>1. p \notin trouble' => row \in tags' /\ row.of = Row(Current(p))
      BY <1>1, <1>3, <2>1, AtItem
    <3> QED
      BY <2>1, <3>1 DEF StoredIn
  <2> QED
    BY <1>1, <1>3, <2>3, <2>4, <2>5, <2>6, DoneInv
<1> QED
  BY <1>2, <1>3 DEF InsertTag

LEMMA SaveMediaInv == ASSUME ImportInv, NEW p \in Parse, SaveMedia(p) PROVE ImportInv'
<1> DEFINE key == MediaKey(p)
           uri == <<p, Item(p).file>>
<1>1. /\ local[p].step = "save_media" /\ local[p].step \in ItemSteps
      /\ UNCHANGED <<friends, entries, tags, places, bucket, overlap>>
  BY DEF SaveMedia, At, ItemSteps, MediaSteps
<1>2. CASE Passed(p) /\ UNCHANGED media
  BY <1>1, <1>2, PassedInv
<1>3. CASE /\ media' = IF key.of = NoEntry \/ (key \in DOMAIN media /\ ~local[p].found) THEN media
                       ELSE [k \in DOMAIN media \cup {key} |-> IF k = key THEN uri ELSE media[k]]
           /\ NextItem(p) /\ UNCHANGED trouble
  <2>1. Item(p).kind = "media"
    BY <1>1 DEF ImportInv, Parser, Position, MediaSteps
  <2>2. key = [of |-> key.of, at |-> Item(p).at, index |-> Item(p).index] /\ key.of = local[p].id
    BY DEF MediaKey
  <2>3. key.of # NoEntry =>
            \E m \in ItemsOf(p, "media") :
                [of |-> m.of, at |-> m.item.at, index |-> m.item.index] = key /\ uri = <<p, m.item.file>>
    <3>1. [of |-> Row(Current(p)), item |-> Item(p)] \in ItemsOf(p, "media")
      <4>1. local[p].entry \in DOMAIN Entries[p] /\ local[p].item \in DOMAIN Current(p).items
        BY <1>1, AtItem
      <4>2. [of |-> Row(Current(p)), item |-> Item(p)] \in ItemsIn(Current(p), "media")
        BY <2>1, <4>1 DEF ItemsIn, Item
      <4> QED
        BY <4>1, <4>2 DEF ItemsOf, Current
    <3>2. key.of # NoEntry => key.of = Row(Current(p))
      BY <1>1, <2>2, AtItem
    <3>3. key.of # NoEntry =>
              key = [of |-> Row(Current(p)), at |-> Item(p).at, index |-> Item(p).index]
      BY <2>2, <3>2
    <3> QED
      BY <3>1, <3>3
  <2> HIDE DEF key, uri
  <2>4. /\ DOMAIN media \subseteq DOMAIN media' /\ DOMAIN media' \subseteq DOMAIN media \cup {key}
        /\ key.of # NoEntry => key \in DOMAIN media'
        /\ \A k \in DOMAIN media' :
               \/ k \in DOMAIN media /\ media'[k] = media[k]
               \/ k = key /\ key.of # NoEntry /\ media'[k] = uri
    BY <1>3
  <2>5. Grows(p)
    BY <1>1, <1>3, <2>4 DEF Grows
  <2>6. RowsRefer'
    <3>1. key.of # NoEntry => key.of \in entries
      BY <1>1, <2>2, AtItem
    <3> QED
      BY <1>1, <2>4, <3>1 DEF ImportInv, RowsRefer
  <2>7. MediaFrom'
    BY <2>3, <2>4 DEF ImportInv, MediaFrom
  <2>8. p \notin trouble' => StoredIn(tags', DOMAIN media', Row(Current(p)), Item(p))
    <3>1. p \notin trouble' => key.of = Row(Current(p)) /\ key.of # NoEntry
      BY <1>1, <1>3, <2>2, AtItem
    <3> QED
      BY <2>1, <2>2, <2>4, <3>1 DEF StoredIn
  <2> QED
    BY <1>1, <1>3, <2>5, <2>6, <2>7, <2>8, DoneInv
<1> QED
  BY <1>2, <1>3 DEF SaveMedia

LEMMA InsertPlaceInv == ASSUME ImportInv, NEW p \in Parse, InsertPlace(p) PROVE ImportInv'
<1>1. /\ local[p].step = "place" /\ local[p].step \in ItemSteps
      /\ UNCHANGED <<friends, entries, tags, media, bucket, overlap>>
  BY DEF InsertPlace, At, ItemSteps
<1>2. CASE Passed(p) /\ UNCHANGED places
  BY <1>1, <1>2, PassedInv
<1>3. CASE /\ places' = IF local[p].id = NoEntry THEN places ELSE places \cup {local[p].id}
           /\ NextItem(p) /\ UNCHANGED trouble
  <2>1. Grows(p)
    BY <1>1, <1>3 DEF Grows
  <2>2. RowsRefer' /\ MediaFrom'
    BY <1>1, <1>3, AtItem DEF ImportInv, RowsRefer, MediaFrom
  <2>3. StoredIn(tags', DOMAIN media', Row(Current(p)), Item(p))
    <3>1. Item(p).kind = "place"
      BY <1>1 DEF ImportInv, Parser, Position
    <3> QED
      BY <3>1 DEF StoredIn
  <2> QED
    BY <1>1, <1>3, <2>1, <2>2, <2>3, DoneInv
<1> QED
  BY <1>2, <1>3 DEF InsertPlace

LEMMA UploadFileInv == ASSUME ImportInv, NEW p \in Parse, UploadFile(p) PROVE ImportInv'
<1> DEFINE old == local[p]
           file == MediaFiles[p][old.item]
<1>1. /\ old.step = "upload" /\ UNCHANGED <<friends, entries, tags, media, places, overlap>>
  BY DEF UploadFile, At
<1>2. Parser(p) /\ trouble \subseteq Parse
  BY DEF ImportInv
<1>3. /\ old.item \in Nat \ {0} /\ Len(MediaFiles[p]) \in Nat
      /\ DOMAIN MediaFiles[p] = 1..Len(MediaFiles[p])
  BY <1>2, EntriesAssumption DEF Parser, Position
<1>4. PICK step \in {"upload", "done"}, item \in {old.item, old.item + 1} :
          /\ Sets(p, [old EXCEPT !.step = step, !.item = item])
          /\ bucket \subseteq bucket' /\ trouble \subseteq trouble' /\ trouble' \subseteq trouble \cup {p}
          /\ \/ p \in trouble'
             \/ step = "done" /\ item = old.item /\ item > Len(MediaFiles[p])
             \/ step = "upload" /\ item = old.item + 1 /\ <<p, KeyOf(file)>> \in bucket'
  <2>1. CASE old.item > Len(MediaFiles[p])
    <3>1. [old EXCEPT !.step = "done", !.item = old.item] = [old EXCEPT !.step = "done"]
      BY <1>2 DEF Parser, Local
    <3>2. Sets(p, [old EXCEPT !.step = "done"]) /\ UNCHANGED <<bucket, trouble>>
      BY <2>1 DEF UploadFile, Goto, Sets
    <3> QED
      BY <2>1, <3>1, <3>2
  <2>2. CASE /\ local' = [local EXCEPT ![p].item = @ + 1]
             /\ \/ bucket' = bucket \cup {<<p, KeyOf(file)>>} /\ UNCHANGED trouble
                \/ trouble' = trouble \cup {p} /\ UNCHANGED bucket
    <3>1. [old EXCEPT !.step = "upload", !.item = old.item + 1] = [old EXCEPT !.item = old.item + 1]
      BY <1>1, <1>2 DEF Parser, Local
    <3>2. Sets(p, [old EXCEPT !.item = old.item + 1])
      BY <2>2 DEF Sets
    <3> QED
      BY <2>2, <3>1, <3>2
  <2>3. CASE Goto(p, "done") /\ trouble' = trouble \cup {p} /\ UNCHANGED bucket
    <3>1. [old EXCEPT !.step = "done", !.item = old.item] = [old EXCEPT !.step = "done"]
      BY <1>2 DEF Parser, Local
    <3>2. Sets(p, [old EXCEPT !.step = "done"])
      BY <2>3 DEF Goto, Sets
    <3> QED
      BY <2>3, <3>1, <3>2
  <2> QED
    BY <2>1, <2>2, <2>3 DEF UploadFile
<1> DEFINE l == [old EXCEPT !.step = step, !.item = item]
<1>5. /\ Local(l) /\ l.step = step /\ l.entry = old.entry /\ l.item = item /\ l.known = old.known /\ l.range = old.range
  BY <1>2 DEF Parser, Local
<1>6. local'[p] = l
  BY <1>4, LocalSet DEF ImportInv
<1> HIDE DEF l
<1>7. Grows(p) /\ (p \notin trouble' => p \notin trouble)
  BY <1>1, <1>4 DEF Grows
<1>8. Parser(p)'
  <2>1. Position(p)'
    <3>1. item \in Nat \ {0}
      BY <1>3
    <3> QED
      BY <1>1, <1>2, <1>5, <1>6, <1>7, <3>1
      DEF Parser, Position, AllSteps, Simple, ItemSteps, TagSteps, MediaSteps
  <2>2. HasEntry(p)'
    BY <1>5, <1>6 DEF HasEntry, ItemSteps, TagSteps, MediaSteps
  <2>3. HasFriends(p)'
    BY <1>1, <1>2, <1>5, <1>6 DEF Parser, HasFriends
  <2>4. HasStored(p)'
    <3> SUFFICES ASSUME p \notin trouble' PROVE HasStored(p)'
      BY DEF HasStored
    <3>1. ASSUME NEW m \in DOMAIN Entries[p], NEW i \in DOMAIN Entries[p][m].items, Behind(p, m, i)',
                 ~Omitted(p, m)'
          PROVE  Stored(Row(Entries[p][m]), Entries[p][m].items[i])'
      <4>0. ~Omitted(p, m)
        BY <1>5, <1>6, <3>1, StaysOmitted
      <4>1. old.entry = Len(Entries[p]) + 1 /\ DOMAIN Entries[p] = 1..Len(Entries[p])
        BY <1>1, <1>2, <1>7, EntriesAssumption DEF Parser, Position
      <4>2. m < old.entry
        BY <4>1, EntriesAssumption
      <4>3. Stored(Row(Entries[p][m]), Entries[p][m].items[i])
        BY <1>2, <1>7, <4>0, <4>2 DEF Parser, HasStored, Behind
      <4> QED
        BY <1>1, <4>3 DEF Stored
    <3>2. ASSUME NEW j \in DOMAIN MediaFiles[p], j < item
          PROVE  <<p, KeyOf(MediaFiles[p][j])>> \in bucket'
      <4>1. j < old.item \/ (item = old.item + 1 /\ j = old.item)
        BY <1>3, <3>2
      <4>2. CASE j < old.item
        BY <1>1, <1>2, <1>4, <1>7, <4>2 DEF Parser, HasStored, At
      <4>3. CASE item = old.item + 1 /\ j = old.item
        <5>1. item # old.item
          BY <1>3, <4>3
        <5> QED
          BY <1>4, <4>3, <5>1
      <4> QED
        BY <4>1, <4>2, <4>3
    <3>3. step = "done" => Len(MediaFiles[p]) < item
      BY <1>3, <1>4
    <3> QED
      BY <1>5, <1>6, <3>1, <3>2, <3>3 DEF HasStored, At
  <2> QED
    BY <1>5, <1>6, <2>1, <2>2, <2>3, <2>4 DEF Parser
<1>9. Running(p) /\ l.step # "make_friend"
  BY <1>1, <1>5 DEF Running, Over
<1>10. Sets(p, l)
  BY <1>4 DEF l
<1> QED
  BY <1>1, <1>7, <1>8, <1>9, <1>10, OneStep, SameRows

LEMMA LookMediaInv == ASSUME ImportInv, NEW p \in Parse, LookMedia(p) PROVE ImportInv'
<1>1. /\ local[p].step = "look_media" /\ local[p].step \in ItemSteps
      /\ UNCHANGED <<friends, entries, tags, media, places, bucket, overlap>>
  BY DEF LookMedia, At, ItemSteps, MediaSteps
<1>2. CASE Passed(p)
  BY <1>1, <1>2, PassedInv
<1>3. CASE /\ local' = [local EXCEPT ![p].step = "save_media", ![p].found = MediaKey(p) \in DOMAIN media]
           /\ UNCHANGED trouble
  <2> DEFINE found == MediaKey(p) \in DOMAIN media
             l == [local[p] EXCEPT !.step = "save_media", !.found = found]
  <2>1. Sets(p, l)
    BY <1>3 DEF Sets
  <2>2. Parser(p)
    BY DEF ImportInv
  <2>3. local'[p] = l
    BY <2>1, LocalSet DEF ImportInv
  <2>4. /\ Local(l) /\ l.step = "save_media" /\ l.entry = local[p].entry /\ l.item = local[p].item
        /\ l.known = local[p].known /\ l.range = local[p].range /\ l.id = local[p].id
    <3> HIDE DEF found
    <3> QED
      BY <2>2 DEF Parser, Local
  <2>5. Grows(p)
    BY <1>1, <1>3 DEF Grows
  <2>6. Current(p)' = Current(p) /\ Item(p)' = Item(p)
    BY <2>3, <2>4 DEF Current, Item
  <2> HIDE DEF l
  <2>7. Parser(p)'
    <3>1. Position(p)'
      BY <1>1, <2>2, <2>3, <2>4, <2>6
      DEF Parser, Position, AllSteps, Simple, ItemSteps, TagSteps, MediaSteps
    <3>2. HasEntry(p)'
      BY <1>1, <1>3, <2>2, <2>3, <2>4, <2>6 DEF Parser, HasEntry
    <3>3. HasFriends(p)'
      BY <1>1, <2>2, <2>3, <2>4 DEF Parser, HasFriends
    <3>4. HasStored(p)'
      BY <2>2, <2>3, <2>4, <2>5, SameStored
    <3> QED
      BY <2>3, <2>4, <3>1, <3>2, <3>3, <3>4 DEF Parser
  <2>8. Running(p) /\ l.step # "make_friend"
    BY <1>1, <2>4 DEF Running, Over
  <2> QED
    BY <1>1, <2>1, <2>5, <2>7, <2>8, OneStep, SameRows
<1> QED
  BY <1>2, <1>3 DEF LookMedia

\* A parser that has the friend of its tag.
LEMMA TagReady ==
  ASSUME ImportInv, NEW p \in Parse, local[p].step \in {"tag", "make_friend"}, NEW known,
         Sets(p, [local[p] EXCEPT !.step = "insert_tag", !.known = known]), Grows(p),
         Item(p).name \in DOMAIN known,
         \A name \in DOMAIN known : known[name] \in friends' /\ known[name][1] = name,
         UNCHANGED <<entries, tags, media, places, bucket, trouble>>
  PROVE  \E l : Sets(p, l) /\ local'[p] = l /\ l.step = "insert_tag" /\ Parser(p)' /\ Running(p)
<1> DEFINE l == [local[p] EXCEPT !.step = "insert_tag", !.known = known]
<1>1. Parser(p)
  BY DEF ImportInv
<1>2. local'[p] = l
  BY LocalSet DEF ImportInv
<1>3. /\ Local(l) /\ l.step = "insert_tag" /\ l.entry = local[p].entry /\ l.item = local[p].item
      /\ l.known = known /\ l.range = local[p].range /\ l.id = local[p].id
  BY <1>1 DEF Parser, Local
<1> HIDE DEF l
<1>4. Current(p)' = Current(p) /\ Item(p)' = Item(p)
  BY <1>2, <1>3 DEF Current, Item
<1>5. Position(p)'
  BY <1>1, <1>2, <1>3, <1>4
  DEF Parser, Position, AllSteps, Simple, ItemSteps, TagSteps, MediaSteps
<1>6. HasEntry(p)'
  BY <1>1, <1>2, <1>3, <1>4 DEF Parser, HasEntry, ItemSteps, TagSteps
<1>7. HasFriends(p)'
  <2>1. \A name \in DOMAIN l.known : l.known[name] \in friends' /\ l.known[name][1] = name
    BY <1>3
  <2>2. \A name \in DOMAIN FriendTime[p] : \E f \in friends' : f[2] = FriendTime[p][name]
    BY <1>1 DEF Parser, HasFriends, Grows
  <2> QED
    BY <1>2, <1>3, <1>4, <2>1, <2>2 DEF HasFriends
<1>8. HasStored(p)'
  BY <1>1, <1>2, <1>3, SameStored
<1>9. Parser(p)'
  BY <1>2, <1>3, <1>5, <1>6, <1>7, <1>8 DEF Parser
<1>10. Running(p)
  BY DEF Running, Over
<1> QED
  BY <1>2, <1>3, <1>9, <1>10 DEF l

LEMMA TagInv == ASSUME ImportInv, NEW p \in Parse, Tag(p) PROVE ImportInv'
<1> DEFINE name == Item(p).name
           old == local[p]
           same == {f \in friends : f[1] = name}
<1>1. /\ old.step = "tag" /\ old.step \in ItemSteps
      /\ UNCHANGED <<friends, entries, tags, media, places, bucket, overlap>>
  BY DEF Tag, At, ItemSteps, TagSteps
<1>2. Parser(p) /\ Item(p).kind = "tag"
  BY <1>1 DEF ImportInv, Parser, Position, TagSteps
<1>3. CASE Passed(p)
  BY <1>1, <1>3, PassedInv
<1>4. ASSUME NEW known, Sets(p, [old EXCEPT !.step = "insert_tag", !.known = known]),
             name \in DOMAIN known, UNCHANGED trouble,
             \A n \in DOMAIN known : known[n] \in friends /\ known[n][1] = n
      PROVE  ImportInv'
  <2>1. Grows(p)
    BY <1>1, <1>4 DEF Grows
  <2>2. \E l : Sets(p, l) /\ l.step = "insert_tag" /\ Parser(p)' /\ Running(p)
    BY <1>1, <1>4, <2>1, TagReady
  <2>3. RowsRefer' /\ MediaFrom'
    BY <1>1, SameRows
  <2> QED
    BY <1>1, <2>1, <2>2, <2>3, OneStep
<1>5. CASE name \in DOMAIN old.known /\ Goto(p, "insert_tag") /\ UNCHANGED trouble
  <2>1. [old EXCEPT !.step = "insert_tag", !.known = old.known] = [old EXCEPT !.step = "insert_tag"]
    BY <1>2 DEF Parser, Local
  <2>2. Sets(p, [old EXCEPT !.step = "insert_tag", !.known = old.known])
    BY <1>5, <2>1 DEF Goto, Sets
  <2> QED
    BY <1>2, <1>4, <1>5, <2>2 DEF Parser, HasFriends
<1>6. ASSUME NEW f \in same, UNCHANGED trouble,
             local' = [local EXCEPT ![p].step = "insert_tag",
                           ![p].known = [n \in DOMAIN @ \cup {name} |-> IF n = name THEN f ELSE @[n]]]
      PROVE  ImportInv'
  <2> DEFINE known == [n \in DOMAIN old.known \cup {name} |-> IF n = name THEN f ELSE old.known[n]]
  <2>1. Sets(p, [old EXCEPT !.step = "insert_tag", !.known = known])
    BY <1>6 DEF Sets
  <2>2. name \in DOMAIN known /\ \A n \in DOMAIN known : known[n] \in friends /\ known[n][1] = n
    BY <1>2 DEF Parser, HasFriends
  <2> HIDE DEF known
  <2> QED
    BY <1>4, <1>6, <2>1, <2>2
<1>7. CASE same = {} /\ Goto(p, "make_friend") /\ UNCHANGED trouble
  <2> DEFINE l == [old EXCEPT !.step = "make_friend"]
  <2>1. Sets(p, l)
    BY <1>7 DEF Goto, Sets
  <2>2. /\ local' = [q \in Parse |-> local'[q]] /\ local'[p] = l
        /\ \A q \in Parse : q # p => local'[q] = local[q]
    BY <2>1, LocalSet DEF ImportInv
  <2>3. /\ Local(l) /\ l.step = "make_friend" /\ l.entry = old.entry /\ l.item = old.item
        /\ l.known = old.known /\ l.range = old.range /\ l.id = old.id
    BY <1>2 DEF Parser, Local
  <2> HIDE DEF l
  <2>4. Grows(p)
    BY <1>1, <1>7 DEF Grows
  <2>5. Current(p)' = Current(p) /\ Item(p)' = Item(p)
    BY <2>2, <2>3 DEF Current, Item
  <2>6. \A f \in friends : f[1] # name
    BY <1>7
  <2>7. Parser(p)'
    <3>1. Position(p)'
      BY <1>1, <1>2, <2>2, <2>3, <2>5
      DEF Parser, Position, AllSteps, Simple, ItemSteps, TagSteps, MediaSteps
    <3>2. HasEntry(p)'
      BY <1>1, <1>2, <1>7, <2>2, <2>3, <2>5 DEF Parser, HasEntry
    <3>3. HasFriends(p)'
      <4>1. \A n \in DOMAIN FriendTime[p] : \E f \in friends : f[2] = FriendTime[p][n]
        BY <1>1, <1>2 DEF Parser, HasFriends
      <4>2. ~ListedAlike(name)
        <5> SUFFICES ASSUME ListedAlike(name) PROVE FALSE
          OBVIOUS
        <5>1. PICK f \in friends : f[2] = FriendTime[p][name]
          BY <4>1 DEF ListedAlike
        <5>2. f[1] = name
          BY <5>1, AlikeRow
        <5> QED
          BY <2>6, <5>2
      <4>3. \A n \in DOMAIN l.known : l.known[n] \in friends /\ l.known[n][1] = n
        BY <1>2, <2>3 DEF Parser, HasFriends
      <4> QED
        BY <1>1, <2>2, <2>3, <2>5, <4>1, <4>2, <4>3 DEF HasFriends
    <3>4. HasStored(p)'
      BY <1>2, <2>2, <2>3, <2>4, SameStored
    <3> QED
      BY <2>2, <2>3, <3>1, <3>2, <3>3, <3>4 DEF Parser
  <2>8. \A q \in Parse : Parser(q)'
    BY <1>7, <2>2, <2>4, <2>7, Waits DEF ImportInv
  <2>9. FriendsApart'
    <3>1. Running(p) /\ \A q \in Parse : Running(q)' => Running(q)
      BY <1>1, <2>2, <2>3 DEF Running, Over
    <3>2. \A q \in Parse : At(q, "make_friend")' =>
              Item(q)' = Item(q) /\ (At(q, "make_friend") \/ Item(q).name = name)
      BY <2>2, <2>5 DEF At, Item, Current
    <3> QED
      BY <1>1, <2>6, <3>1, <3>2 DEF ImportInv, FriendsApart, Unlisted
  <2>10. RowsRefer' /\ MediaFrom'
    BY <1>1, SameRows
  <2> QED
    BY <1>1, <1>7, <2>2, <2>8, <2>9, <2>10 DEF ImportInv, FriendsFrom
<1> QED
  BY <1>3, <1>5, <1>6, <1>7 DEF Tag

LEMMA MakeFriendInv == ASSUME ImportInv, NEW p \in Parse, MakeFriend(p) PROVE ImportInv'
<1> DEFINE name == Item(p).name
           old == local[p]
           friend == <<name, p>>
<1>1. /\ old.step = "make_friend" /\ old.step \in ItemSteps
      /\ UNCHANGED <<entries, tags, media, places, bucket, overlap>>
  BY DEF MakeFriend, At, ItemSteps, TagSteps
<1>2. Parser(p)
  BY DEF ImportInv
<1>3. CASE Passed(p) /\ UNCHANGED friends
  BY <1>1, <1>3, PassedInv
<1>4. CASE /\ friends' = friends \cup {friend}
           /\ local' = [local EXCEPT ![p].step = "insert_tag",
                            ![p].known = [n \in DOMAIN @ \cup {friend[1]} |->
                                             IF n = friend[1] THEN friend ELSE @[n]]]
           /\ UNCHANGED trouble
  <2> DEFINE known == [n \in DOMAIN old.known \cup {name} |-> IF n = name THEN friend ELSE old.known[n]]
  <2>1. Sets(p, [old EXCEPT !.step = "insert_tag", !.known = known])
    BY <1>4 DEF Sets
  <2>2. name \in DOMAIN known /\ \A n \in DOMAIN known : known[n] \in friends' /\ known[n][1] = n
    BY <1>2, <1>4 DEF Parser, HasFriends
  <2>3. Grows(p)
    BY <1>1, <1>4 DEF Grows
  <2> HIDE DEF known
  <2>4. PICK l : Sets(p, l) /\ l.step = "insert_tag" /\ Parser(p)' /\ Running(p)
    BY <1>1, <1>4, <2>1, <2>2, <2>3, TagReady
  <2>5. /\ local' = [q \in Parse |-> local'[q]] /\ local'[p] = l
        /\ \A q \in Parse : q # p => local'[q] = local[q]
    BY <2>4, LocalSet DEF ImportInv
  <2>6. \A q \in Parse : Parser(q)'
    BY <1>4, <2>3, <2>4, <2>5, Waits DEF ImportInv
  <2>7. ~ListedAlike(name)
    BY <1>1, <1>2 DEF Parser, HasFriends
  <2>8. FriendsFrom'
    <3>1. friend = <<friend[1], p>> /\ ~ListedAlike(friend[1])
      BY <2>7
    <3>2. FriendsFrom
      BY DEF ImportInv
    <3>3. \A f \in friends' : f \in friends \/ f = friend
      BY <1>4
    <3> HIDE DEF friend
    <3> QED
      BY <3>1, <3>2, <3>3 DEF FriendsFrom, OfAList
  <2>9. FriendsApart'
    <3> SUFFICES ASSUME ~overlap'
                 PROVE  /\ \A q, r \in Parse : Running(q)' /\ Running(r)' => q = r
                        /\ \A q \in Parse : ~At(q, "make_friend")'
                        /\ \A f, g \in friends' : f[1] = g[1] /\ Unlisted(f[1]) => f = g
      BY DEF FriendsApart, Unlisted
    <3>1. FriendsApart /\ ~overlap
      BY <1>1 DEF ImportInv
    <3>2. \A q \in Parse : Running(q)' => Running(q)
      BY <2>4, <2>5 DEF Running, Over
    <3>3. \A q \in Parse : ~At(q, "make_friend")'
      <4>1. \A q \in Parse : At(q, "make_friend")' => q # p /\ Running(q)
        BY <2>4, <2>5 DEF At, Running, Over
      <4> QED
        BY <2>4, <3>1, <4>1 DEF FriendsApart
    <3>4. \A f \in friends : f[1] # name
      BY <1>1, <3>1 DEF FriendsApart, At
    <3>5. \A f, g \in friends' : f[1] = g[1] /\ Unlisted(f[1]) => f = g
      BY <1>4, <3>1, <3>4 DEF FriendsApart
    <3> QED
      BY <3>1, <3>2, <3>3, <3>5 DEF FriendsApart
  <2>10. RowsRefer' /\ MediaFrom'
    BY <1>1, <1>4 DEF ImportInv, RowsRefer, MediaFrom
  <2>11. trouble' \subseteq Parse /\ overlap' \in BOOLEAN
    BY <1>1, <1>4 DEF ImportInv
  <2>12. local' = [q \in Parse |-> local'[q]]
    BY <2>5
  <2> QED
    BY <2>6, <2>8, <2>9, <2>10, <2>11, <2>12 DEF ImportInv
<1> QED
  BY <1>3, <1>4 DEF MakeFriend

LEMMA StutterInv == ASSUME ImportInv, UNCHANGED importVars PROVE ImportInv'
<1>1. UNCHANGED <<friends, entries, tags, media, places, bucket, local, trouble, overlap>>
  BY DEF importVars
<1>2. \A p \in Parse : Grows(p) /\ local'[p] = local[p]
  BY <1>1 DEF Grows
<1>3. \A p \in Parse : Parser(p)'
  BY <1>1, <1>2, Waits DEF ImportInv
<1>4. FriendsApart'
  <2>1. \A p \in Parse : Running(p)' = Running(p)
    BY <1>1 DEF Running, Over, At
  <2>2. \A p \in Parse : At(p, "make_friend")' = At(p, "make_friend") /\ Item(p)' = Item(p)
    BY <1>1 DEF At, Item, Current
  <2>3. FriendsApart
    BY DEF ImportInv
  <2>4. ~overlap' => \A p, q \in Parse : Running(p)' /\ Running(q)' => p = q
    BY <1>1, <2>1, <2>3 DEF FriendsApart
  <2>5. ~overlap' => \A p \in Parse : At(p, "make_friend")' => \A f \in friends' : f[1] # Item(p)'.name
    BY <1>1, <2>2, <2>3 DEF FriendsApart
  <2>6. ~overlap' => \A f, g \in friends' : f[1] = g[1] /\ Unlisted(f[1]) => f = g
    BY <1>1, <2>3 DEF FriendsApart
  <2> QED
    BY <2>4, <2>5, <2>6 DEF FriendsApart, Unlisted
<1> QED
  BY <1>1, <1>3, <1>4, SameRows DEF ImportInv, FriendsFrom

-----------------------------------------------------------------------------
\* Parsers and rows keep the invariant, with all their failures and in every order of the
\* statements of any number of parses.
THEOREM ImportInvariant == ImportSpec => []ImportInv
<1>1. ImportInit => ImportInv
  BY InitImport
<1>2. ImportInv /\ [ImportNext]_importVars => ImportInv'
  <2> SUFFICES ASSUME ImportInv, [ImportNext]_importVars PROVE ImportInv'
    OBVIOUS
  <2>1. ASSUME NEW p \in Parse,
               \/ BeginParse(p) \/ InsertFriends(p) \/ Validate(p) \/ Omit(p) \/ Create(p)
               \/ ReadFriends(p) \/ Tag(p) \/ MakeFriend(p) \/ InsertTag(p)
               \/ LookMedia(p) \/ SaveMedia(p) \/ InsertPlace(p) \/ UploadFile(p)
        PROVE  ImportInv'
    BY <2>1, BeginParseInv, InsertFriendsInv, ValidateInv, OmitInv, CreateInv, ReadFriendsInv,
       TagInv, MakeFriendInv, InsertTagInv, LookMediaInv, SaveMediaInv, InsertPlaceInv, UploadFileInv
  <2> QED
    BY <2>1, StutterInv DEF ImportNext
<1> QED
  BY <1>1, <1>2, PTL DEF ImportSpec

\* The tables refer to rows that are there: a tag to its post and friend, media and places to
\* their entries.
THEOREM ImportTyped == ImportSpec => []ImportTypeOK
  BY ImportInvariant, ImportTypes, PTL

\* Every tag of an archive that is in without a failed call, of a post that the activity range does
\* not leave out, is in the database with a friend of its name; and a friend is tagged twice in a
\* post only if the archives do not list him alike, or if none lists him and two parsers ran at once
\* (FriendORM's index of owner and timestamp; FirstOrCreate without a transaction).
THEOREM TagsImported == ImportSpec => []TagsExact
<1>1. ImportInv => TagsExact
  BY ImportedTags, FriendsOnce DEF TagsExact
<1> QED
  BY <1>1, ImportInvariant, PTL

\* A medium of an archive that is in without a failed call has its row, with a file that some
\* archive has for it, though parsers look for the row and save it in two statements.
THEOREM MediaImported == ImportSpec => []MediaKept
  BY ImportInvariant, ImportedMedia, PTL

\* The file that a row of media names is in the bucket once its archive is in without a failed
\* call, if the archive has it (UploadDir).
THEOREM ObjectsImported == FilesThere => (ImportSpec => []MediaHasObject)
<1> SUFFICES ASSUME FilesThere PROVE ImportSpec => []MediaHasObject
  OBVIOUS
<1>1. ImportInv => MediaHasObject
  BY ImportedFiles
<1> QED
  BY <1>1, ImportInvariant, PTL
=============================================================================
