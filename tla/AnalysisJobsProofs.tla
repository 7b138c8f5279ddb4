-------------------------- MODULE AnalysisJobsProofs --------------------------
(***************************************************************************)
(* What AnalysisJobs counts and stores, for all rows, times and sizes.  The   *)
(* proof goes up in four parts: the calendar (timeutil/time.go), whose        *)
(* periods are intervals that follow one another; the batches, which fit a    *)
(* request; the counters, which have counted exactly the rows before the next *)
(* one (CountsInv); and the table, in which or on the way to which is all     *)
(* that the analysis has brought forth, and nothing else in its place         *)
(* (TableInv).                                                              *)
(***************************************************************************)
EXTENDS AnalysisJobs, CalendarProofs, FiniteSetTheorems

-----------------------------------------------------------------------------
(* The parts of a period. *)

\* A part of a period is an interval of times that starts at its name, too.
LEMMA SubPeriodNames ==
    ASSUME NEW kind \in Kinds, NEW t \in Int, NEW s \in Int
    PROVE  /\ SubPeriod(kind, t) \in Int /\ SubPeriod(kind, t) <= t
           /\ SubPeriod(kind, t) <= s /\ s <= t => SubPeriod(kind, s) = SubPeriod(kind, t)
  <1>1. CASE kind = "week"
    BY <1>1, DayNames, Zenon DEF SubPeriod
  <1>2. CASE kind = "year"
    BY <1>2, MonthNames, Zenon DEF SubPeriod
  <1>3. CASE kind = "decade"
    BY <1>3, YearNames, Zenon DEF SubPeriod
  <1> QED
    BY <1>1, <1>2, <1>3 DEF Kinds

LEMMA SubPeriodsOrdered ==
    ASSUME NEW kind \in Kinds, NEW s \in Int, NEW t \in Int, s <= t
    PROVE  SubPeriod(kind, s) <= SubPeriod(kind, t)
  BY SubPeriodNames

-----------------------------------------------------------------------------
(* Batches. *)

\* Between two steps the batch is a sequence that is not full.
Collecting ==
    /\ \E S : batch \in Seq(S)
    /\ phase # "failed" => Len(batch) < BatchSize

\* An empty batch is not full.
LEMMA EmptyBatch ==
    ASSUME batch' = <<>>
    PROVE  Collecting'
  <1>1. <<>> \in Seq({}) /\ Len(<<>>) = 0
    OBVIOUS
  <1>2. 0 < BatchSize
    BY BatchAssumption
  <1> QED
    BY <1>1, <1>2, Zenon DEF Collecting

\* One item more makes a batch one longer.
LEMMA AppendToBatch ==
    ASSUME NEW S, batch \in Seq(S), NEW item
    PROVE  /\ Append(batch, item) \in Seq(S \cup {item})
           /\ Len(Append(batch, item)) = Len(batch) + 1
           /\ Len(batch) \in Nat
  <1>1. batch \in Seq(S \cup {item}) /\ item \in S \cup {item}
    OBVIOUS
  <1> QED
    BY <1>1

LEMMA CollectingInit == Init => Collecting
  <1> SUFFICES ASSUME Init PROVE Collecting
    OBVIOUS
  <1>1. <<>> \in Seq({}) /\ Len(<<>>) = 0
    OBVIOUS
  <1>2. batch = <<>> /\ 0 < BatchSize
    BY BatchAssumption DEF Init
  <1> QED
    BY <1>1, <1>2, Zenon DEF Collecting

LEMMA CollectingStep == Collecting /\ [Next]_vars => Collecting'
  <1> SUFFICES ASSUME Collecting, [Next]_vars PROVE Collecting'
    OBVIOUS
  <1> DEFINE Kept == batch' = batch /\ (phase' = "failed" \/ phase # "failed")
  <1>0. ASSUME Kept PROVE Collecting'
    BY <1>0, Zenon DEF Collecting
  <1>1. CASE CountPost
    BY <1>1, <1>0 DEF CountPost
  <1>2. CASE EndPosts
    BY <1>2, <1>0 DEF EndPosts
  <1>3. CASE PutPostStat
    BY <1>3, <1>0 DEF PutPostStat
  <1>4. CASE BeginReactions
    BY <1>4, EmptyBatch DEF BeginReactions
  <1>5. CASE CountReaction
    BY <1>5, <1>0 DEF CountReaction
  <1>6. CASE EndReactions
    BY <1>6, <1>0 DEF EndReactions
  <1>7. CASE FlushReactions
    BY <1>7, <1>0 DEF FlushReactions
  <1>8. CASE Save
    <2> DEFINE full == Append(batch, Head(pending))
    <2>1. phase # "failed"
      BY <1>8 DEF Save, Saving
    <2>2. PICK S : batch \in Seq(S)
      BY DEF Collecting
    <2>3. /\ full \in Seq(S \cup {Head(pending)})
          /\ Len(full) = Len(batch) + 1
          /\ Len(batch) \in Nat
      BY <2>2, AppendToBatch
    <2>4. CASE batch' = <<>>
      BY <2>4, EmptyBatch
    <2>5. CASE batch' = full /\ (phase' = "failed" \/ Len(full) < BatchSize)
      BY <2>3, <2>5, Zenon DEF Collecting
    <2>6. batch' = <<>> \/ (batch' = full /\ (phase' = "failed" \/ Len(full) < BatchSize))
      BY <1>8 DEF Save
    <2> QED
      BY <2>4, <2>5, <2>6
  <1>9. CASE NewRows
    BY <1>9, EmptyBatch DEF NewRows, BeginPosts
  <1>10. CASE UNCHANGED vars
    BY <1>10, <1>0 DEF vars
  <1>11. CASE MissReactions
    BY <1>11, EmptyBatch DEF MissReactions
  <1> QED
    BY <1>1, <1>2, <1>3, <1>4, <1>5, <1>6, <1>7, <1>8, <1>9, <1>10, <1>11 DEF Next

LEMMA CollectingFits == Collecting => RequestFits
  <1> SUFFICES ASSUME Collecting, phase # "failed" PROVE Len(Request) <= RequestLimit
    BY DEF RequestFits
  <1>1. PICK S : batch \in Seq(S)
    BY DEF Collecting
  <1>2. Len(batch) < BatchSize /\ Len(batch) \in Nat
    BY <1>1 DEF Collecting
  <1>3. Len(Append(batch, Head(pending))) = Len(batch) + 1
    BY <1>1, AppendToBatch
  <1>4. Request \in {batch, Append(batch, Head(pending))}
    BY DEF Request
  <1> QED
    BY <1>2, <1>3, <1>4, BatchAssumption

(***************************************************************************)
(* No batch that statSaver writes, or has collected, is larger than          *)
(* AddFBStats accepts, in any sequence of analyses and failures: a failed     *)
(* write leaves a full batch, but its job has ended and the next begins with  *)
(* a saver of its own.                                                      *)
(***************************************************************************)
THEOREM RequestsFit == Spec => []RequestFits
  <1>1. Spec => []Collecting
    BY CollectingInit, CollectingStep, PTL DEF Spec
  <1> QED
    BY <1>1, CollectingFits, PTL

-----------------------------------------------------------------------------
(* The inductive invariant. *)

Slot(i) == <<i.key, i.at>>

\* The statistics of a period, if found are the rows.
PostStatOf(kind, start, found) ==
    LET of     == RowsIn(kind, start, found)
        before == RowsIn(kind, AbsPeriod(kind, start - 1), found)
    IN StatItem("post", kind, start, of, GroupsOf(kind, of),
                IF before = {} THEN <<1, 1>> ELSE GetDiff(Cardinality(of), Cardinality(before)))

\* The rows of the last period before start.
LastBefore(kind, start, found) ==
    LET earlier == {t \in found : t < start}
    IN {t \in earlier : \A u \in earlier : AbsPeriod(kind, u) <= AbsPeriod(kind, t)}

ReactionStatOf(kind, start, found) ==
    LET of == RowsIn(kind, start, found)
    IN StatItem("reaction", kind, start, of, GroupsOf(kind, of),
                GetDiff(Cardinality(of), Cardinality(LastBefore(kind, start, found))))

\* The rows the running job has counted.
PostsSeen == postRows \ todo
ReactionsSeen == CountedReactions \ todo

\* A job is left with rows of its own kind.
RowsToCount ==
    /\ phase = "posts" => todo \subseteq postRows
    /\ phase = "reactions" => todo \subseteq reactionRows
Typed == TypeOK /\ RowsToCount

\* Rows come in the order of time, and lastAt is that of the last one counted.
PostOrder ==
    phase = "posts" =>
        /\ \A s \in PostsSeen, t \in todo : s < t
        /\ IF PostsSeen = {} THEN lastAt = Now
           ELSE lastAt \in PostsSeen /\ \A s \in PostsSeen : s <= lastAt
ReactionOrder ==
    phase = "reactions" =>
        /\ \A s \in reactionRows \ todo, t \in todo : s < t
        /\ IF ReactionsSeen = {} THEN lastAt = 0 /\ reactionRows \ todo \subseteq {0}
           ELSE lastAt \in ReactionsSeen /\ \A s \in ReactionsSeen : s <= lastAt

\* What a counter of posts knows of the rows in found, all of them before the next.
PostsCounted(kind, c, found) ==
    LET periods == Periods(kind, found)
    IN /\ c.cur \in periods /\ \A p \in periods : p <= c.cur
       /\ c.of = RowsIn(kind, c.cur, found)
       /\ \/ c.last = 0 /\ c.lastTotal = 0 /\ periods = {c.cur}
          \/ /\ c.last \in periods /\ c.last < c.cur /\ \A p \in periods : p = c.cur \/ p <= c.last
             /\ c.lastTotal = Cardinality(RowsIn(kind, c.last, found))
       /\ ItemsOf(c.done) = {PostStatOf(kind, s, found) : s \in periods \ {c.cur}}

PostCounters ==
    phase = "posts" =>
        \A k \in Kinds :
            /\ \A i \in ItemsOf(posts[k].done) : i.key = <<"post", k>>
            /\ 0 \notin Periods(k, postRows) =>
                   IF PostsSeen = {} THEN posts[k] = NewPostCounter
                   ELSE PostsCounted(k, posts[k], PostsSeen)

\* The sub-periods of the rows in of, in their order.
SubsKept(kind, subs, of) ==
    /\ \A i \in 1 .. Len(subs) :
           subs[i].of = {t \in of : SubPeriod(kind, t) = subs[i].name}
    /\ \A i \in 1 .. Len(subs) : \E t \in of : SubPeriod(kind, t) = subs[i].name
    /\ \A t \in of : \E i \in 1 .. Len(subs) : SubPeriod(kind, t) = subs[i].name
    /\ \A t \in of : subs # <<>> /\ SubPeriod(kind, t) <= subs[Len(subs)].name
    /\ \A i, j \in 1 .. Len(subs) : subs[i].name = subs[j].name => i = j

ReactionsCounted(kind, c, found) ==
    /\ c.start \in Periods(kind, found) /\ \A p \in Periods(kind, found) : p <= c.start
    /\ c.of = RowsIn(kind, c.start, found)
    /\ c.lastQuantity = Cardinality(LastBefore(kind, c.start, found))
    /\ SubsKept(kind, c.subs, c.of)

ReactionCounters ==
    /\ phase \in {"posts", "post_stats"} => \A k \in Kinds : reactions[k] = NewReactionCounter
    /\ phase = "reactions" =>
           \A k \in Kinds :
               IF ReactionsSeen = {} THEN reactions[k] = NewReactionCounter
               ELSE ReactionsCounted(k, reactions[k], ReactionsSeen)

\* The items that this analysis has brought forth so far.
ExactKinds == {k \in Kinds : 0 \notin Periods(k, postRows)}
PostStats == UNION {{PostStat(k, s) : s \in Periods(k, postRows)} : k \in ExactKinds}
PostItems ==
    IF phase = "posts" THEN {RowItem("post", t) : t \in PostsSeen}
    ELSE {RowItem("post", t) : t \in postRows} \cup PostStats

Closed(k) ==
    IF phase = "reactions" THEN {s \in Periods(k, ReactionsSeen) : s < reactions[k].start}
    ELSE Periods(k, CountedReactions)
ReactionStats == UNION {{ReactionStat(k, s) : s \in Closed(k)} : k \in Kinds}
ReactionItems ==
    CASE phase \in {"posts", "post_stats", "unread"} -> {}
      [] phase = "reactions" -> {RowItem("reaction", t) : t \in ReactionsSeen} \cup ReactionStats
      [] OTHER -> {RowItem("reaction", t) : t \in CountedReactions} \cup ReactionStats

Produced == PostItems \cup ReactionItems

\* Statistics that the property makes an exception for.
Exempt(i) ==
    \E k \in Kinds : i.key = <<"post", k>> /\ (i.at = 0 \/ 0 \in Periods(k, postRows))

\* Items on their way into the table.
Way ==
    CASE phase \in Saving -> ItemsOf(batch) \cup ItemsOf(pending)
      [] phase = "post_stats" -> ItemsOf(pending)
      [] OTHER -> {}

\* Nothing but what was produced is on its way or was lost, all of it is somewhere, and the
\* table has nothing else in its place but what will be replaced.
Kept(produced, stored, lost, way) ==
    /\ \A i \in lost \cup way : i \in produced \/ Exempt(i)
    /\ produced \subseteq stored \cup lost \cup way
    /\ \A i \in stored, g \in produced : Slot(i) = Slot(g) => i = g \/ g \in lost \cup way
AllKept == phase # "failed" => Kept(Produced, table, ignored \cup unprocessed, Way)

\* An item of the table, of whichever analysis, is about a row or a period of rows.
Known(i) ==
    \/ i.key = <<"post", "row">> /\ i.at \in postRows
    \/ \E k \in Kinds : i.key = <<"post", k>> /\ i.at \in Periods(k, postRows)
    \/ i.key = <<"reaction", "row">> /\ i.at \in CountedReactions
    \/ \E k \in Kinds : i.key = <<"reaction", k>> /\ i.at \in Periods(k, CountedReactions)
TableKnown == \A i \in table : Known(i) \/ Exempt(i)

\* The statistics of the posts are written one by one, everything else in batches.
IsPostStat(i) == \E k \in Kinds : i.key = <<"post", k>>
Channels ==
    /\ \A i \in ignored : i.key[1] = "post"
    /\ \A i \in unprocessed : ~IsPostStat(i)
    /\ phase \in Saving => \A i \in Way : ~IsPostStat(i)
    /\ phase = "post_stats" => \A i \in Way : IsPostStat(i)

\* No two items with the same slot.
Distinct(seq) == \A i, j \in 1 .. Len(seq) : Slot(seq[i]) = Slot(seq[j]) => i = j
Apart(p, q) == \A i \in ItemsOf(p), j \in ItemsOf(q) : Slot(i) # Slot(j)
Lines ==
    /\ phase # "failed" => Distinct(batch)
    /\ phase \in Saving => Distinct(pending) /\ Apart(batch, pending)

\* Of the statistics at 0 of a kind with none to count there, all are empty, and an analysis
\* without posts has left one.
Blank(i) == \A k \in ExactKinds : i.key = <<"post", k>> /\ i.at = 0 => i = EmptyStat(k)
Present == table \cup ignored \cup ItemsOf(pending) \cup ItemsOf(batch)
EmptyInv ==
    /\ \A i \in Present : Blank(i)
    /\ postRows = {} /\ phase \notin {"posts", "failed"} =>
           \A k \in Kinds :
               EmptyStat(k) \in table \cup ignored \cup (IF phase = "post_stats" THEN ItemsOf(pending) ELSE {})

-----------------------------------------------------------------------------
(* The table. *)

LEMMA PutMembers ==
    ASSUME NEW stored, NEW items
    PROVE  \A i : i \in Put(stored, items) <=>
                      i \in items \/ (i \in stored /\ \A n \in items : Slot(i) # Slot(n))
  BY Zenon DEF Put, Slot

(***************************************************************************)
(* A call of the table, which writes some of the items on their way and      *)
(* loses others, keeps all in place.                                        *)
(***************************************************************************)
LEMMA WriteKeeps ==
    ASSUME NEW produced, NEW stored, NEW lost, NEW way, Kept(produced, stored, lost, way),
           \A g, h \in produced : Slot(g) = Slot(h) => g = h,
           \A g, i : g \in produced /\ Slot(g) = Slot(i) => ~Exempt(i),
           NEW written, NEW missed, NEW rest,
           written \subseteq way, missed \subseteq way, rest \subseteq way,
           way \subseteq written \cup missed \cup rest
    PROVE  Kept(produced, Put(stored, written), lost \cup missed, rest)
  <1>1. \A i \in lost \cup missed \cup rest : i \in produced \/ Exempt(i)
    BY DEF Kept
  <1>2. ASSUME NEW g \in produced, NEW i \in written, Slot(i) = Slot(g) PROVE i = g
    BY <1>2, Zenon DEF Kept
  <1>3. ASSUME NEW g \in produced PROVE g \in Put(stored, written) \cup (lost \cup missed) \cup rest
    <2>1. CASE g \in stored /\ g \notin written
      <3>1. \A n \in written : Slot(g) # Slot(n)
        BY <1>2, <2>1, Zenon
      <3> QED
        BY <2>1, <3>1, PutMembers, Zenon
    <2>2. CASE g \in written
      BY <2>2, PutMembers, Zenon
    <2> QED
      BY <2>1, <2>2, Zenon DEF Kept
  <1>4. ASSUME NEW i \in Put(stored, written), NEW g \in produced, Slot(i) = Slot(g)
        PROVE  i = g \/ g \in (lost \cup missed) \cup rest
    <2>1. CASE i \in written
      BY <1>2, <1>4, <2>1, Zenon
    <2>2. CASE i \in stored /\ \A n \in written : Slot(i) # Slot(n)
      <3>1. i = g \/ g \in lost \cup way
        BY <1>4, <2>2, Zenon DEF Kept
      <3>2. g \notin written
        BY <1>4, <2>2, Zenon
      <3> QED
        BY <3>1, <3>2, Zenon
    <2>3. i \in written \/ (i \in stored /\ \A n \in written : Slot(i) # Slot(n))
      BY <1>4, PutMembers, Zenon
    <2> QED
      BY <2>1, <2>2, <2>3, Zenon
  <1> QED
    BY <1>1, <1>3, <1>4, Zenon DEF Kept

(***************************************************************************)
(* So does a job that brings forth items and has them on their way.          *)
(***************************************************************************)
LEMMA ProduceKeeps ==
    ASSUME NEW produced, NEW stored, NEW lost, NEW way, Kept(produced, stored, lost, way),
           NEW more, NEW longer, produced \subseteq more, way \subseteq longer,
           more \subseteq produced \cup longer,
           \A i \in longer : i \in way \/ i \in more \/ Exempt(i)
    PROVE  Kept(more, stored, lost, longer)
  <1>1. \A i \in lost \cup longer : i \in more \/ Exempt(i)
    BY Zenon DEF Kept
  <1>2. more \subseteq stored \cup lost \cup longer
    BY Zenon DEF Kept
  <1>3. ASSUME NEW i \in stored, NEW g \in more, Slot(i) = Slot(g)
        PROVE  i = g \/ g \in lost \cup longer
    BY <1>3, Zenon DEF Kept
  <1> QED
    BY <1>1, <1>2, <1>3, Zenon DEF Kept

(***************************************************************************)
(* At the end of the way, the items of a key in the table, and those that     *)
(* were lost, are what was produced.                                        *)
(***************************************************************************)
LEMMA KeptAll ==
    ASSUME NEW produced, NEW stored, NEW lost, Kept(produced, stored, lost, {}),
           NEW i, ~Exempt(i), i \in stored => \E g \in produced : Slot(g) = Slot(i)
    PROVE  /\ i \in lost => i \in produced
           /\ i \in stored => i \in produced \/ \E g \in lost : Slot(g) = Slot(i)
           /\ i \in produced => i \in stored \cup lost
  <1>1. i \in lost => i \in produced
    BY Zenon DEF Kept
  <1>2. i \in produced => i \in stored \cup lost
    BY Zenon DEF Kept
  <1>3. ASSUME i \in stored, i \notin produced PROVE \E g \in lost : Slot(g) = Slot(i)
    <2>1. PICK g \in produced : Slot(g) = Slot(i)
      BY <1>3
    <2>2. i # g
      BY <1>3, <2>1
    <2> QED
      BY <1>3, <2>1, <2>2, Zenon DEF Kept
  <1> QED
    BY <1>1, <1>2, <1>3, Zenon

-----------------------------------------------------------------------------
(* Sequences of items. *)

LEMMA ItemsOfSequences ==
    ASSUME NEW S
    PROVE  /\ ItemsOf(<<>>) = {}
           /\ \A x : ItemsOf(<<x>>) = {x}
           /\ \A p \in Seq(S) : ItemsOf(p) \subseteq S
           /\ \A p \in Seq(S), x \in S : ItemsOf(Append(p, x)) = ItemsOf(p) \cup {x}
           /\ \A p \in Seq(S), q \in Seq(S) : ItemsOf(p \o q) = ItemsOf(p) \cup ItemsOf(q)
           /\ \A p \in Seq(S) : p # <<>> => ItemsOf(p) = {Head(p)} \cup ItemsOf(Tail(p))
  <1>1. ItemsOf(<<>>) = {}
    BY DEF ItemsOf
  <1>2. \A x : ItemsOf(<<x>>) = {x}
    BY DEF ItemsOf
  <1>3. \A p \in Seq(S) : ItemsOf(p) \subseteq S
    BY DEF ItemsOf
  <1>4. ASSUME NEW p \in Seq(S), NEW x \in S PROVE ItemsOf(Append(p, x)) = ItemsOf(p) \cup {x}
    <2>1. \A i \in 1 .. Len(p) : Append(p, x)[i] = p[i]
      OBVIOUS
    <2>2. Len(Append(p, x)) = Len(p) + 1 /\ Append(p, x)[Len(p) + 1] = x
      OBVIOUS
    <2>3. DOMAIN p = 1 .. Len(p) /\ DOMAIN Append(p, x) = 1 .. Len(p) + 1 /\ Len(p) \in Nat
      OBVIOUS
    <2> QED
      BY <2>1, <2>2, <2>3 DEF ItemsOf
  <1>5. ASSUME NEW p \in Seq(S), NEW q \in Seq(S) PROVE ItemsOf(p \o q) = ItemsOf(p) \cup ItemsOf(q)
    <2> DEFINE r == p \o q
    <2>1. /\ DOMAIN p = 1 .. Len(p) /\ DOMAIN q = 1 .. Len(q) /\ DOMAIN r = 1 .. Len(p) + Len(q)
          /\ Len(p) \in Nat /\ Len(q) \in Nat
      OBVIOUS
    <2>2. \A i \in 1 .. Len(p) : r[i] = p[i]
      OBVIOUS
    <2>3. \A i \in 1 .. Len(q) : r[Len(p) + i] = q[i]
      OBVIOUS
    <2> HIDE DEF r
    <2>4. ASSUME NEW i \in 1 .. Len(p) + Len(q) PROVE r[i] \in ItemsOf(p) \cup ItemsOf(q)
      <3>1. CASE i <= Len(p)
        BY <2>1, <2>2, <3>1 DEF ItemsOf
      <3>2. CASE i > Len(p)
        <4>1. i - Len(p) \in 1 .. Len(q) /\ Len(p) + (i - Len(p)) = i
          BY <2>1, <3>2
        <4>2. r[i] = q[i - Len(p)]
          BY <2>3, <4>1
        <4> QED
          BY <2>1, <4>1, <4>2 DEF ItemsOf
      <3> QED
        BY <2>1, <3>1, <3>2
    <2>5. ItemsOf(r) \subseteq ItemsOf(p) \cup ItemsOf(q)
      BY <2>1, <2>4 DEF ItemsOf
    <2>6. ItemsOf(p) \subseteq ItemsOf(r)
      BY <2>1, <2>2 DEF ItemsOf
    <2>7. ItemsOf(q) \subseteq ItemsOf(r)
      <3>1. \A i \in 1 .. Len(q) : Len(p) + i \in 1 .. Len(p) + Len(q)
        BY <2>1
      <3> QED
        BY <2>1, <2>3, <3>1 DEF ItemsOf
    <2> QED
      BY <2>5, <2>6, <2>7 DEF r
  <1>6. ASSUME NEW p \in Seq(S), p # <<>> PROVE ItemsOf(p) = {Head(p)} \cup ItemsOf(Tail(p))
    <2>1. /\ DOMAIN p = 1 .. Len(p) /\ DOMAIN Tail(p) = 1 .. Len(p) - 1 /\ Len(p) \in Nat \ {0}
          /\ Head(p) = p[1]
      BY <1>6
    <2>2. \A i \in 1 .. Len(p) - 1 : Tail(p)[i] = p[i + 1]
      BY <1>6
    <2>3. \A i \in 1 .. Len(p) : i = 1 \/ (i - 1 \in 1 .. Len(p) - 1 /\ (i - 1) + 1 = i)
      BY <2>1
    <2>4. \A i \in 1 .. Len(p) - 1 : i + 1 \in 1 .. Len(p)
      BY <2>1
    <2>5. 1 \in 1 .. Len(p)
      BY <2>1
    <2>6. ASSUME NEW i \in 1 .. Len(p) PROVE p[i] = Head(p) \/ p[i] \in ItemsOf(Tail(p))
      <3>1. CASE i = 1
        BY <2>1, <3>1
      <3>2. CASE i - 1 \in 1 .. Len(p) - 1 /\ (i - 1) + 1 = i
        <4>1. Tail(p)[i - 1] = p[i]
          BY <2>2, <3>2
        <4> QED
          BY <2>1, <3>2, <4>1 DEF ItemsOf
      <3> QED
        BY <2>3, <3>1, <3>2
    <2>7. {Head(p)} \cup ItemsOf(Tail(p)) \subseteq ItemsOf(p)
      BY <2>1, <2>2, <2>4, <2>5 DEF ItemsOf
    <2> QED
      BY <2>1, <2>6, <2>7 DEF ItemsOf
  <1> QED
    BY <1>1, <1>2, <1>3, <1>4, <1>5, <1>6

\* Sequences without two items of the same slot.
LEMMA DistinctSequences ==
    ASSUME NEW S
    PROVE  /\ Distinct(<<>>)
           /\ \A x : Distinct(<<x>>)
           /\ \A p \in Seq(S), x \in S :
                  Distinct(p) /\ (\A i \in ItemsOf(p) : Slot(i) # Slot(x)) => Distinct(Append(p, x))
           /\ \A p \in Seq(S), q \in Seq(S) :
                  Distinct(p) /\ Distinct(q) /\ Apart(p, q) => Distinct(p \o q)
           /\ \A p \in Seq(S) : p # <<>> /\ Distinct(p) =>
                  Distinct(Tail(p)) /\ \A i \in ItemsOf(Tail(p)) : Slot(i) # Slot(Head(p))
  <1>1. Distinct(<<>>)
    BY DEF Distinct
  <1>2. \A x : Distinct(<<x>>)
    BY DEF Distinct
  <1>4. ASSUME NEW p \in Seq(S), NEW x \in S, Distinct(p), \A i \in ItemsOf(p) : Slot(i) # Slot(x)
        PROVE  Distinct(Append(p, x))
    <2> DEFINE r == Append(p, x)
    <2>1. \A i \in 1 .. Len(p) : r[i] = p[i] /\ p[i] \in ItemsOf(p)
      BY DEF ItemsOf
    <2>2. Len(p) \in Nat /\ Len(r) = Len(p) + 1 /\ r[Len(p) + 1] = x
      OBVIOUS
    <2> HIDE DEF r
    <2>3. ASSUME NEW i \in 1 .. Len(r), NEW j \in 1 .. Len(r), Slot(r[i]) = Slot(r[j]) PROVE i = j
      <3>1. CASE i \in 1 .. Len(p) /\ j \in 1 .. Len(p)
        BY <1>4, <2>1, <2>3, <3>1 DEF Distinct
      <3>2. CASE i = Len(p) + 1 /\ j = Len(p) + 1
        BY <3>2
      <3>3. CASE i \in 1 .. Len(p) /\ j = Len(p) + 1
        BY <1>4, <2>1, <2>2, <2>3, <3>3, Zenon
      <3>4. CASE i = Len(p) + 1 /\ j \in 1 .. Len(p)
        BY <1>4, <2>1, <2>2, <2>3, <3>4, Zenon
      <3>5. (i \in 1 .. Len(p) \/ i = Len(p) + 1) /\ (j \in 1 .. Len(p) \/ j = Len(p) + 1)
        BY <2>2
      <3> QED
        BY <3>1, <3>2, <3>3, <3>4, <3>5
    <2> QED
      BY <2>3, Zenon DEF r, Distinct
  <1>5. ASSUME NEW p \in Seq(S), NEW q \in Seq(S), Distinct(p), Distinct(q), Apart(p, q)
        PROVE  Distinct(p \o q)
    <2> DEFINE r == p \o q
               n == Len(p)
               At(i) == IF i <= n THEN p[i] ELSE q[i - n]
    <2>1. n \in Nat /\ Len(q) \in Nat /\ Len(r) = n + Len(q)
      OBVIOUS
    <2>2. \A i \in 1 .. n : r[i] = p[i] /\ p[i] \in ItemsOf(p)
      BY DEF ItemsOf
    <2>3. \A i \in 1 .. Len(q) : r[n + i] = q[i] /\ q[i] \in ItemsOf(q)
      BY DEF ItemsOf
    <2> HIDE DEF r, n
    <2>4. \A i \in 1 .. Len(r) : i \in 1 .. n \/ (i - n \in 1 .. Len(q) /\ n + (i - n) = i)
      BY <2>1
    <2>5. ASSUME NEW i \in 1 .. Len(r), NEW j \in 1 .. Len(r), Slot(r[i]) = Slot(r[j]) PROVE i = j
      <3>1. CASE i \in 1 .. n /\ j \in 1 .. n
        BY <1>5, <2>2, <2>5, <3>1 DEF Distinct, n
      <3>2. CASE i - n \in 1 .. Len(q) /\ n + (i - n) = i /\ j - n \in 1 .. Len(q) /\ n + (j - n) = j
        <4>1. r[i] = q[i - n] /\ r[j] = q[j - n]
          BY <2>3, <3>2
        <4>2. i - n = j - n
          BY <1>5, <2>5, <3>2, <4>1, Zenon DEF Distinct
        <4> QED
          BY <2>1, <3>2, <4>2
      <3>3. CASE i \in 1 .. n /\ j - n \in 1 .. Len(q) /\ n + (j - n) = j
        <4>1. r[i] \in ItemsOf(p)
          BY <2>2, <3>3, Zenon
        <4>2. r[j] \in ItemsOf(q)
          BY <2>3, <3>3, Zenon
        <4> QED
          BY <1>5, <2>5, <4>1, <4>2, Zenon DEF Apart
      <3>4. CASE j \in 1 .. n /\ i - n \in 1 .. Len(q) /\ n + (i - n) = i
        <4>1. r[j] \in ItemsOf(p)
          BY <2>2, <3>4, Zenon
        <4>2. r[i] \in ItemsOf(q)
          BY <2>3, <3>4, Zenon
        <4> QED
          BY <1>5, <2>5, <4>1, <4>2, Zenon DEF Apart
      <3> QED
        BY <2>4, <3>1, <3>2, <3>3, <3>4, Zenon
    <2> QED
      BY <2>5, Zenon DEF r, Distinct
  <1>6. ASSUME NEW p \in Seq(S), p # <<>>, Distinct(p)
        PROVE  Distinct(Tail(p)) /\ \A i \in ItemsOf(Tail(p)) : Slot(i) # Slot(Head(p))
    <2>1. /\ DOMAIN Tail(p) = 1 .. Len(p) - 1 /\ Len(Tail(p)) = Len(p) - 1 /\ Len(p) \in Nat \ {0}
          /\ Head(p) = p[1] /\ \A i \in 1 .. Len(p) - 1 : Tail(p)[i] = p[i + 1]
      BY <1>6
    <2>2. \A i \in 1 .. Len(p) - 1 : i + 1 \in 1 .. Len(p) /\ i + 1 # 1
      BY <2>1
    <2>3. 1 \in 1 .. Len(p)
      BY <2>1
    <2>4. ASSUME NEW i \in 1 .. Len(p) - 1, NEW j \in 1 .. Len(p) - 1, Slot(Tail(p)[i]) = Slot(Tail(p)[j])
          PROVE  i = j
      <3>0. Slot(p[i + 1]) = Slot(p[j + 1]) /\ i + 1 \in 1 .. Len(p) /\ j + 1 \in 1 .. Len(p)
        BY <2>1, <2>2, <2>4, Zenon
      <3>1. i + 1 = j + 1
        BY <1>6, <3>0, Zenon DEF Distinct
      <3> QED
        BY <3>1
    <2>5. ASSUME NEW i \in 1 .. Len(p) - 1 PROVE Slot(Tail(p)[i]) # Slot(Head(p))
      BY <1>6, <2>1, <2>2, <2>3, Zenon DEF Distinct
    <2>6. Distinct(Tail(p))
      <3>1. 1 .. Len(Tail(p)) = 1 .. Len(p) - 1
        BY <2>1
      <3> QED
        BY <2>4, <3>1, Zenon DEF Distinct
    <2>7. \A x \in ItemsOf(Tail(p)) : Slot(x) # Slot(Head(p))
      BY <2>1, <2>5, Zenon DEF ItemsOf
    <2> QED
      BY <2>6, <2>7
  <1> QED
    BY <1>1, <1>2, <1>4, <1>5, <1>6, Zenon

-----------------------------------------------------------------------------
(* Types. *)

LEMMA EarliestOf ==
    ASSUME NEW rest, rest \subseteq Post \/ rest \subseteq Reaction, rest # {}
    PROVE  Earliest(rest) \in rest /\ \A t \in rest : Earliest(rest) <= t
  <1>1. \E t \in rest : \A other \in rest : t <= other
    BY RowAssumption, FirstOf
  <1> QED
    BY <1>1, Zenon DEF Earliest

LEMMA RowCounts ==
    ASSUME NEW of, of \subseteq Post \/ of \subseteq Reaction
    PROVE  IsFiniteSet(of) /\ Cardinality(of) \in Nat /\ (Cardinality(of) = 0 <=> of = {})
  <1>1. IsFiniteSet(of)
    BY RowAssumption, FS_Subset
  <1> QED
    BY <1>1, FS_CardinalityType, FS_EmptySet

LEMMA DiffTypes ==
    ASSUME NEW current \in Nat, NEW last \in Nat
    PROVE  GetDiff(current, last) \in Int \X (Nat \ {0})
  BY SMT DEF GetDiff

LEMMA GroupTypes ==
    ASSUME NEW kind \in Kinds, NEW of, of \subseteq Post
    PROVE  GroupsOf(kind, of) \subseteq [name : Int, of : SUBSET (Post \cup Reaction)]
  <1>1. \A t \in of : SubPeriod(kind, t) \in Int
    BY RowAssumption, SubPeriodNames
  <1> QED
    BY <1>1 DEF GroupsOf

LEMMA RowItemTypes ==
    /\ \A t \in Post : RowItem("post", t) \in Items
    /\ \A t \in Reaction : RowItem("reaction", t) \in Items
  <1>1. ASSUME NEW job \in Jobs, NEW t \in Post \cup Reaction PROVE RowItem(job, t) \in Items
    <2>1. t \in Int
      BY RowAssumption
    <2>2. <<job, "row">> \in Jobs \X (Kinds \cup {"row"})
      OBVIOUS
    <2>3. <<0, 1>> \in Int \X (Nat \ {0})
      BY SMT
    <2>4. {t} \in SUBSET (Post \cup Reaction) /\ {} \in SUBSET [name : Int, of : SUBSET (Post \cup Reaction)]
      OBVIOUS
    <2> QED
      BY <2>1, <2>2, <2>3, <2>4, Zenon DEF RowItem, Items
  <1> QED
    BY <1>1 DEF Jobs

LEMMA StatItemTypes ==
    ASSUME NEW job \in Jobs, NEW kind \in Kinds, NEW start \in Int,
           NEW of, of \subseteq Post \cup Reaction,
           NEW subs, subs \subseteq [name : Int, of : SUBSET (Post \cup Reaction)],
           NEW diff \in Int \X (Nat \ {0})
    PROVE  StatItem(job, kind, start, of, subs, diff) \in Items
  <1>1. <<job, kind>> \in Jobs \X (Kinds \cup {"row"})
    OBVIOUS
  <1> QED
    BY <1>1, Zenon DEF StatItem, Items

LEMMA FlushTypes ==
    ASSUME NEW kind \in Kinds, NEW c \in PostCounter
    PROVE  FlushPosts(kind, c) \in PostCounter
  <1>1. c.cur \in Int /\ c.last \in Int /\ c.lastTotal \in Nat /\ c.of \subseteq Post /\ c.done \in Seq(Items)
    BY DEF PostCounter
  <1>2. Cardinality(c.of) \in Nat
    BY <1>1, RowCounts
  <1> DEFINE diff == IF c.last = AbsPeriod(kind, c.cur - 1) THEN GetDiff(Cardinality(c.of), c.lastTotal)
                     ELSE <<1, 1>>
             item == StatItem("post", kind, c.cur, c.of, GroupsOf(kind, c.of), diff)
  <1>3. diff \in Int \X (Nat \ {0})
    <2>1. GetDiff(Cardinality(c.of), c.lastTotal) \in Int \X (Nat \ {0})
      BY <1>1, <1>2, DiffTypes
    <2>2. <<1, 1>> \in Int \X (Nat \ {0})
      BY SMT
    <2> QED
      BY <2>1, <2>2, Zenon
  <1>4. item \in Items
    <2>1. "post" \in Jobs
      BY DEF Jobs
    <2>2. GroupsOf(kind, c.of) \subseteq [name : Int, of : SUBSET (Post \cup Reaction)]
      BY <1>1, GroupTypes
    <2> HIDE DEF diff
    <2> QED
      BY <1>1, <1>3, <2>1, <2>2, StatItemTypes
  <1>5. FlushPosts(kind, c) = [c EXCEPT !.done = Append(@, item), !.lastTotal = Cardinality(c.of), !.of = {}]
    BY Zenon DEF FlushPosts
  <1> HIDE DEF item
  <1>6. Append(c.done, item) \in Seq(Items)
    BY <1>1, <1>4
  <1> QED
    BY <1>2, <1>5, <1>6 DEF PostCounter

LEMMA CountPostTypes ==
    ASSUME NEW kind \in Kinds, NEW c \in PostCounter, NEW t \in Post
    PROVE  CountPostIn(kind, c, t) \in PostCounter
  <1> DEFINE period == AbsPeriod(kind, t)
  <1>1. period \in Int
    BY RowAssumption, PeriodNames
  <1> DEFINE opened == IF c.cur = 0 THEN [c EXCEPT !.last = 0, !.cur = period] ELSE c
             turned == IF period = opened.cur THEN opened
                       ELSE [FlushPosts(kind, opened) EXCEPT !.last = opened.cur, !.cur = period]
  <1>2. opened \in PostCounter
    <2> HIDE DEF period
    <2> QED
      BY <1>1 DEF PostCounter
  <1>3. turned \in PostCounter
    <2> HIDE DEF opened, period
    <2>1. FlushPosts(kind, opened) \in PostCounter
      BY <1>2, FlushTypes
    <2>2. opened.cur \in Int
      BY <1>2 DEF PostCounter
    <2>3. \A d \in PostCounter : [d EXCEPT !.last = opened.cur, !.cur = period] \in PostCounter
      BY <1>1, <2>2 DEF PostCounter
    <2> QED
      BY <1>2, <2>1, <2>3, Zenon
  <1>4. CountPostIn(kind, c, t) = [turned EXCEPT !.of = @ \cup {t}]
    BY Zenon DEF CountPostIn
  <1> HIDE DEF turned
  <1> QED
    BY <1>3, <1>4 DEF PostCounter

LEMMA NewCounterTypes == NewPostCounter \in PostCounter /\ NewReactionCounter \in ReactionCounter
  <1>1. <<>> \in Seq(Items) /\ <<>> \in Seq([name : Int, of : SUBSET Reaction])
    OBVIOUS
  <1> QED
    BY <1>1 DEF NewPostCounter, PostCounter, NewReactionCounter, ReactionCounter

LEMMA OpenStatTypes ==
    ASSUME NEW kind \in Kinds, NEW c \in ReactionCounter
    PROVE  OpenStat(kind, c) \in Items
  <1>1. c.start \in Int /\ c.of \subseteq Reaction /\ c.lastQuantity \in Nat
        /\ c.subs \in Seq([name : Int, of : SUBSET Reaction])
    BY DEF ReactionCounter
  <1>2. GetDiff(Cardinality(c.of), c.lastQuantity) \in Int \X (Nat \ {0})
    BY <1>1, RowCounts, DiffTypes
  <1>3. ItemsOf(c.subs) \subseteq [name : Int, of : SUBSET Reaction]
    BY <1>1, ItemsOfSequences
  <1>4. [name : Int, of : SUBSET Reaction] \subseteq [name : Int, of : SUBSET (Post \cup Reaction)]
    OBVIOUS
  <1>5. "reaction" \in Jobs /\ c.of \subseteq Post \cup Reaction
    BY <1>1 DEF Jobs
  <1>6. ItemsOf(c.subs) \subseteq [name : Int, of : SUBSET (Post \cup Reaction)]
    BY <1>3, <1>4
  <1> QED
    BY <1>1, <1>2, <1>5, <1>6, StatItemTypes, Zenon DEF OpenStat

LEMMA ClosedTypes ==
    ASSUME NEW kind \in Kinds, NEW c \in ReactionCounter, NEW t
    PROVE  ClosedBy(kind, c, t) \in Seq(Items)
  BY OpenStatTypes DEF ClosedBy

LEMMA SubsTypes ==
    ASSUME NEW subs \in Seq([name : Int, of : SUBSET Reaction]), NEW name \in Int, NEW t \in Reaction
    PROVE  AddToSubs(subs, name, t) \in Seq([name : Int, of : SUBSET Reaction])
  <1> DEFINE R == [name : Int, of : SUBSET Reaction]
             n == Len(subs)
  <1>1. CASE subs # <<>> /\ subs[n].name = name
    <2>0. n \in 1 .. Len(subs)
      BY <1>1
    <2>1. n \in 1 .. Len(subs) /\ subs[n] \in R
      <3> HIDE DEF R
      <3>1. subs \in Seq(R)
        BY DEF R
      <3> QED
        BY <2>0, <3>1
    <2>2. [subs[n] EXCEPT !.of = @ \cup {t}] \in R
      BY <2>1
    <2>3. AddToSubs(subs, name, t) = [subs EXCEPT ![n] = [subs[n] EXCEPT !.of = @ \cup {t}]]
      BY <1>1 DEF AddToSubs
    <2> HIDE DEF R, n
    <2> QED
      BY <2>1, <2>2, <2>3 DEF R
  <1>2. CASE ~(subs # <<>> /\ subs[n].name = name)
    <2>1. [name |-> name, of |-> {t}] \in R
      OBVIOUS
    <2>2. AddToSubs(subs, name, t) = Append(subs, [name |-> name, of |-> {t}])
      BY <1>2, Zenon DEF AddToSubs
    <2> HIDE DEF R
    <2> QED
      BY <2>1, <2>2 DEF R
  <1> QED
    BY <1>1, <1>2

LEMMA CountReactionTypes ==
    ASSUME NEW kind \in Kinds, NEW c \in ReactionCounter, NEW t \in Reaction
    PROVE  CountReactionIn(kind, c, t) \in ReactionCounter
  <1>1. PICK period \in Int, name \in Int : period = AbsPeriod(kind, t) /\ name = SubPeriod(kind, t)
    BY RowAssumption, PeriodNames, SubPeriodNames
  <1> DEFINE fresh == [NewReactionCounter EXCEPT !.start = period, !.lastQuantity = Cardinality(c.of)]
             turned == IF c.of = {} \/ ClosedBy(kind, c, t) # <<>> THEN fresh ELSE c
  <1>2. Cardinality(c.of) \in Nat
    <2>1. c.of \subseteq Reaction
      BY DEF ReactionCounter
    <2> QED
      BY <2>1, RowCounts
  <1>3. turned \in ReactionCounter
    <2>1. fresh \in ReactionCounter
      BY <1>2, NewCounterTypes DEF ReactionCounter
    <2> QED
      BY <2>1
  <1>4. CountReactionIn(kind, c, t) = [turned EXCEPT !.of = @ \cup {t}, !.subs = AddToSubs(@, name, t)]
    BY <1>1, Zenon DEF CountReactionIn
  <1> HIDE DEF turned
  <1>5. turned.subs \in Seq([name : Int, of : SUBSET Reaction])
    BY <1>3 DEF ReactionCounter
  <1>6. AddToSubs(turned.subs, name, t) \in Seq([name : Int, of : SUBSET Reaction])
    BY <1>5, SubsTypes
  <1> QED
    BY <1>3, <1>4, <1>6 DEF ReactionCounter

LEMMA InitTyped == Init => Typed
  <1> SUFFICES ASSUME Init PROVE Typed
    OBVIOUS
  <1>1. posts \in [Kinds -> PostCounter] /\ reactions \in [Kinds -> ReactionCounter]
    BY NewCounterTypes DEF Init
  <1>2. Now \in Int /\ <<>> \in Seq(Items)
    BY NowAssumption
  <1>3. postRows \subseteq Post /\ reactionRows = {} /\ phase = "posts" /\ todo = postRows
    BY DEF Init
  <1>4. lastAt = Now /\ pending = <<>> /\ batch = <<>> /\ table = {} /\ ignored = {} /\ unprocessed = {} /\ round = 1
    BY DEF Init
  <1> QED
    BY <1>1, <1>2, <1>3, <1>4 DEF Typed, TypeOK, RowsToCount, Phases, Saving

\* What a call of the table does to it, the items that are lost, and its types.
LEMMA TableTypes ==
    ASSUME TypeOK, NEW seq \in Seq(Items)
    PROVE  /\ AddFBStats(seq) => table' \subseteq Items /\ ignored' \subseteq Items /\ unprocessed' \subseteq Items
           /\ seq # <<>> /\ AddFBStat(Head(seq)) =>
                  table' \subseteq Items /\ ignored' \subseteq Items /\ unprocessed' \subseteq Items
  <1>1. table \subseteq Items /\ ignored \subseteq Items /\ unprocessed \subseteq Items
    BY DEF TypeOK
  <1>2. ASSUME NEW items, items \subseteq Items PROVE Put(table, items) \subseteq Items
    BY <1>1, <1>2, PutMembers, Zenon
  <1>3. ItemsOf(seq) \subseteq Items
    BY ItemsOfSequences
  <1>4. ASSUME AddFBStats(seq)
        PROVE  table' \subseteq Items /\ ignored' \subseteq Items /\ unprocessed' \subseteq Items
    <2>1. CASE table' = Put(table, ItemsOf(seq)) /\ UNCHANGED unprocessed
      BY <1>1, <1>2, <1>3, <1>4, <2>1 DEF AddFBStats
    <2>2. CASE \E left \in SUBSET ItemsOf(seq) :
                   /\ table' = Put(table, ItemsOf(seq) \ left)
                   /\ unprocessed' = unprocessed \cup left
      <3>1. PICK left \in SUBSET ItemsOf(seq) :
                table' = Put(table, ItemsOf(seq) \ left) /\ unprocessed' = unprocessed \cup left
        BY <2>2
      <3>2. ItemsOf(seq) \ left \subseteq Items /\ left \subseteq Items
        BY <1>3
      <3>3. ignored' = ignored
        BY <1>4 DEF AddFBStats
      <3> QED
        BY <1>1, <1>2, <3>1, <3>2, <3>3
    <2> QED
      BY <1>4, <2>1, <2>2, Zenon DEF AddFBStats
  <1>5. ASSUME seq # <<>>, AddFBStat(Head(seq))
        PROVE  table' \subseteq Items /\ ignored' \subseteq Items /\ unprocessed' \subseteq Items
    <2>1. {Head(seq)} \subseteq Items
      BY <1>5
    <2>2. Put(table, {Head(seq)}) \subseteq Items
      BY <1>2, <2>1
    <2> QED
      BY <1>1, <1>5, <2>1, <2>2 DEF AddFBStat
  <1> QED
    BY <1>4, <1>5

LEMMA CountPostTyped == Typed /\ CountPost => Typed'
  <1> SUFFICES ASSUME Typed, CountPost PROVE Typed'
    OBVIOUS
  <1>1. todo \subseteq Post /\ todo # {} /\ posts \in [Kinds -> PostCounter]
    BY DEF Typed, TypeOK, RowsToCount, CountPost
  <1>2. PICK t \in todo : t = Earliest(todo)
    BY <1>1, EarliestOf
  <1>3. todo' = todo \ {t}
    BY <1>2 DEF CountPost
  <1>4. t \in Post /\ t \in Int
    BY <1>1, RowAssumption
  <1>5. lastAt' \in Int
    BY <1>2, <1>4 DEF CountPost, Typed, TypeOK
  <1>6. posts' \in [Kinds -> PostCounter]
    <2>1. posts' = posts \/ posts' = [k \in Kinds |-> CountPostIn(k, posts[k], t)]
      BY <1>2 DEF CountPost
    <2>2. \A k \in Kinds : posts[k] \in PostCounter
      BY <1>1
    <2>3. \A k \in Kinds : CountPostIn(k, posts[k], t) \in PostCounter
      BY <1>4, <2>2, CountPostTypes
    <2> QED
      BY <1>1, <2>1, <2>3
  <1>7. pending' \in Seq(Items)
    <2>1. pending' = pending \/ pending' = <<RowItem("post", t)>>
      BY <1>2 DEF CountPost
    <2>2. RowItem("post", t) \in Items
      BY <1>4, RowItemTypes
    <2>3. <<RowItem("post", t)>> \in Seq(Items)
      BY <2>2
    <2> QED
      BY <2>1, <2>3 DEF Typed, TypeOK
  <1>8. UNCHANGED <<rows, phase, reactions, batch, tableVars, round>>
    BY DEF CountPost
  <1> QED
    BY <1>1, <1>3, <1>5, <1>6, <1>7, <1>8 DEF Typed, TypeOK, RowsToCount, rows, tableVars, CountPost

LEMMA CountReactionTyped == Typed /\ CountReaction => Typed'
  <1> SUFFICES ASSUME Typed, CountReaction PROVE Typed'
    OBVIOUS
  <1>1. todo \subseteq Reaction /\ todo # {} /\ reactions \in [Kinds -> ReactionCounter]
    BY DEF Typed, TypeOK, RowsToCount, CountReaction
  <1>2. PICK t \in todo : t = Earliest(todo)
    BY <1>1, EarliestOf
  <1>3. todo' = todo \ {t}
    BY <1>2 DEF CountReaction
  <1>4. t \in Reaction /\ t \in Int
    BY <1>1, RowAssumption
  <1>5. lastAt' \in Int
    BY <1>2, <1>4 DEF CountReaction, Typed, TypeOK
  <1>0. \A k \in Kinds : reactions[k] \in ReactionCounter
    BY <1>1
  <1>6. reactions' \in [Kinds -> ReactionCounter]
    <2>1. reactions' = reactions \/ reactions' = [k \in Kinds |-> CountReactionIn(k, reactions[k], t)]
      BY <1>2 DEF CountReaction
    <2>3. \A k \in Kinds : CountReactionIn(k, reactions[k], t) \in ReactionCounter
      BY <1>0, <1>4, CountReactionTypes
    <2> QED
      BY <1>1, <2>1, <2>3
  <1>7. pending' \in Seq(Items)
    <2> DEFINE c(k) == ClosedBy(k, reactions[k], t)
    <2>1. pending' = pending \/ pending' = <<RowItem("reaction", t)>> \o c("week") \o c("year") \o c("decade")
      BY <1>2 DEF CountReaction, Kinds
    <2>2. <<RowItem("reaction", t)>> \in Seq(Items)
      BY <1>4, RowItemTypes
    <2>3. \A k \in Kinds : c(k) \in Seq(Items)
      BY <1>0, ClosedTypes
    <2>4. c("week") \in Seq(Items) /\ c("year") \in Seq(Items) /\ c("decade") \in Seq(Items)
      BY <2>3 DEF Kinds
    <2> HIDE DEF c
    <2>7. ASSUME NEW p \in Seq(Items), NEW q \in Seq(Items) PROVE p \o q \in Seq(Items)
      OBVIOUS
    <2>5. <<RowItem("reaction", t)>> \o c("week") \o c("year") \o c("decade") \in Seq(Items)
      BY <2>2, <2>7, <2>4, Zenon
    <2>6. pending \in Seq(Items)
      BY DEF Typed, TypeOK
    <2> QED
      BY <2>1, <2>5, <2>6, Zenon
  <1>8. UNCHANGED <<rows, phase, posts, batch, tableVars, round>>
    BY DEF CountReaction
  <1> QED
    BY <1>1, <1>3, <1>5, <1>6, <1>7, <1>8 DEF Typed, TypeOK, RowsToCount, rows, tableVars, CountReaction

LEMMA SaveTyped == Typed /\ Save => Typed'
  <1> SUFFICES ASSUME Typed, Save PROVE Typed'
    OBVIOUS
  <1> DEFINE full == Append(batch, Head(pending))
  <1>1. pending # <<>> /\ pending \in Seq(Items) /\ batch \in Seq(Items)
    BY DEF Typed, TypeOK, Save
  <1>2. full \in Seq(Items) /\ pending' \in Seq(Items)
    BY <1>1 DEF Save
  <1> HIDE DEF full
  <1>3. batch' \in Seq(Items)
    <2>1. batch' = full \/ batch' = <<>>
      BY DEF Save, full
    <2>2. <<>> \in Seq(Items)
      OBVIOUS
    <2> QED
      BY <1>2, <2>1, <2>2
  <1>4. table' \subseteq Items /\ ignored' \subseteq Items /\ unprocessed' \subseteq Items
    <2>1. AddFBStats(full) \/ UNCHANGED tableVars
      BY DEF Save, full
    <2> QED
      BY <1>2, <2>1, TableTypes DEF Typed, TypeOK, tableVars
  <1>5. phase' = phase \/ phase' = "failed"
    BY DEF Save
  <1>6. UNCHANGED <<rows, todo, lastAt, posts, reactions, round>>
    BY DEF Save
  <1> QED
    BY <1>2, <1>3, <1>4, <1>5, <1>6 DEF Typed, TypeOK, RowsToCount, rows, Phases

LEMMA EndPostsTyped == Typed /\ EndPosts => Typed'
  <1> SUFFICES ASSUME Typed, EndPosts PROVE Typed'
    OBVIOUS
  <1>1. posts \in [Kinds -> PostCounter] /\ batch \in Seq(Items)
    BY DEF Typed, TypeOK
  <1> DEFINE f(k) == FlushPosts(k, posts[k])
  <1>2. \A k \in Kinds : f(k) \in PostCounter
    BY <1>1, FlushTypes
  <1>3. posts' = [k \in Kinds |-> f(k)]
    BY DEF EndPosts
  <1>4. pending' = f("week").done \o f("year").done \o f("decade").done
    BY DEF EndPosts, Kinds
  <1> HIDE DEF f
  <1>5. pending' \in Seq(Items)
    <2>1. f("week").done \in Seq(Items) /\ f("year").done \in Seq(Items) /\ f("decade").done \in Seq(Items)
      BY <1>2 DEF PostCounter, Kinds
    <2> QED
      BY <1>4, <2>1
  <1>6. posts' \in [Kinds -> PostCounter]
    BY <1>2, <1>3
  <1>7. table' \subseteq Items /\ ignored' \subseteq Items /\ unprocessed' \subseteq Items
    <2>1. CASE AddFBStats(batch)
      BY <1>1, <2>1, TableTypes DEF Typed
    <2>2. CASE ignored' = ignored \cup ItemsOf(batch) /\ UNCHANGED <<table, unprocessed>>
      <3>1. ItemsOf(batch) \subseteq Items
        BY <1>1, ItemsOfSequences
      <3> QED
        BY <2>2, <3>1 DEF Typed, TypeOK
    <2> QED
      BY <2>1, <2>2 DEF EndPosts
  <1>8. phase' = "post_stats" /\ UNCHANGED <<rows, todo, lastAt, reactions, batch, round>>
    BY DEF EndPosts
  <1> QED
    BY <1>5, <1>6, <1>7, <1>8 DEF Typed, TypeOK, RowsToCount, rows, Phases

LEMMA PutPostStatTyped == Typed /\ PutPostStat => Typed'
  <1> SUFFICES ASSUME Typed, PutPostStat PROVE Typed'
    OBVIOUS
  <1>1. pending # <<>> /\ pending \in Seq(Items)
    BY DEF Typed, TypeOK, PutPostStat
  <1>2. pending' \in Seq(Items)
    BY <1>1 DEF PutPostStat
  <1>3. table' \subseteq Items /\ ignored' \subseteq Items /\ unprocessed' \subseteq Items
    BY <1>1, TableTypes DEF Typed, PutPostStat
  <1>4. UNCHANGED <<rows, phase, todo, lastAt, posts, reactions, batch, round>>
    BY DEF PutPostStat
  <1> QED
    BY <1>2, <1>3, <1>4 DEF Typed, TypeOK, RowsToCount, rows

LEMMA EndReactionsTyped == Typed /\ EndReactions => Typed'
  <1> SUFFICES ASSUME Typed, EndReactions PROVE Typed'
    OBVIOUS
  <1> DEFINE open(k) == IF reactions[k].of = {} THEN <<>> ELSE <<OpenStat(k, reactions[k])>>
  <1>1. \A k \in Kinds : reactions[k] \in ReactionCounter
    BY DEF Typed, TypeOK
  <1>2. \A k \in Kinds : open(k) \in Seq(Items)
    BY <1>1, OpenStatTypes
  <1>3. pending' = open("week") \o open("year") \o open("decade")
    BY DEF EndReactions, Kinds
  <1> HIDE DEF open
  <1>4. pending' \in Seq(Items)
    <2>1. open("week") \in Seq(Items) /\ open("year") \in Seq(Items) /\ open("decade") \in Seq(Items)
      BY <1>2 DEF Kinds
    <2> QED
      BY <1>3, <2>1
  <1>5. phase' = "reaction_stats" /\ UNCHANGED <<rows, todo, lastAt, posts, reactions, batch, tableVars, round>>
    BY DEF EndReactions
  <1> QED
    BY <1>4, <1>5 DEF Typed, TypeOK, RowsToCount, rows, tableVars, Phases, Saving

LEMMA StepTyped == Typed /\ [Next]_vars => Typed'
  <1> SUFFICES ASSUME Typed, [Next]_vars PROVE Typed'
    OBVIOUS
  <1>1. CASE BeginReactions
    <2>1. reactionRows' \subseteq Reaction /\ todo' = reactionRows' /\ phase' = "reactions" /\ lastAt' = 0 /\ batch' = <<>>
      BY <1>1 DEF BeginReactions, More
    <2>2. UNCHANGED <<postRows, posts, reactions, pending, tableVars, round>>
      BY <1>1 DEF BeginReactions
    <2>3. <<>> \in Seq(Items) /\ 0 \in Int
      OBVIOUS
    <2> QED
      BY <2>1, <2>2, <2>3 DEF Typed, TypeOK, RowsToCount, tableVars, Phases, Saving
  <1>2. CASE FlushReactions
    <2>1. table' \subseteq Items /\ ignored' \subseteq Items /\ unprocessed' \subseteq Items
      <3>1. batch \in Seq(Items)
        BY DEF Typed, TypeOK
      <3>2. AddFBStats(batch) \/ UNCHANGED tableVars
        BY <1>2 DEF FlushReactions
      <3> QED
        BY <3>1, <3>2, TableTypes DEF Typed, TypeOK, tableVars
    <2>2. phase' \in {"done", "failed"} /\ UNCHANGED <<rows, todo, lastAt, posts, reactions, pending, batch, round>>
      BY <1>2 DEF FlushReactions
    <2> QED
      BY <2>1, <2>2 DEF Typed, TypeOK, RowsToCount, rows, Phases
  <1>3. CASE NewRows
    <2>1. postRows' \subseteq Post /\ todo' = postRows' /\ phase' = "posts" /\ lastAt' = Now
      BY <1>3 DEF NewRows, BeginPosts, More
    <2>2. pending' = <<>> /\ batch' = <<>> /\ ignored' = {} /\ unprocessed' = {} /\ table' = table
          /\ reactionRows' = reactionRows /\ round' = round + 1
      BY <1>3 DEF NewRows, BeginPosts
    <2>3. posts' \in [Kinds -> PostCounter] /\ reactions' \in [Kinds -> ReactionCounter]
      BY <1>3, NewCounterTypes DEF NewRows, BeginPosts
    <2>4. Now \in Int /\ <<>> \in Seq(Items)
      BY NowAssumption
    <2> QED
      BY <2>1, <2>2, <2>3, <2>4 DEF Typed, TypeOK, RowsToCount, Phases, Saving
  <1>4. CASE UNCHANGED vars
    BY <1>4 DEF Typed, TypeOK, RowsToCount, vars, rows, tableVars
  <1>5. CASE MissReactions
    <2>1. reactionRows' \subseteq Reaction /\ todo' = {} /\ phase' = "unread" /\ lastAt' = 0 /\ batch' = <<>>
      BY <1>5 DEF MissReactions, More
    <2>2. UNCHANGED <<postRows, posts, reactions, pending, tableVars, round>>
      BY <1>5 DEF MissReactions
    <2>3. <<>> \in Seq(Items) /\ 0 \in Int
      OBVIOUS
    <2> QED
      BY <2>1, <2>2, <2>3 DEF Typed, TypeOK, RowsToCount, tableVars, Phases, Saving
  <1> QED
    BY <1>1, <1>2, <1>3, <1>4, <1>5, CountPostTyped, CountReactionTyped, SaveTyped, EndPostsTyped,
       PutPostStatTyped, EndReactionsTyped, Zenon DEF Next

-----------------------------------------------------------------------------
(* The counters. *)

\* Rows of later periods change nothing about a period.
OnlyLater(kind, start, found, all) ==
    /\ found \subseteq all /\ all \subseteq Int
    /\ \A t \in all \ found : start < AbsPeriod(kind, t)

LEMMA LaterRows ==
    ASSUME NEW kind \in Kinds, NEW start \in Int, NEW found, NEW all,
           OnlyLater(kind, start, found, all)
    PROVE  /\ RowsIn(kind, start, all) = RowsIn(kind, start, found)
           /\ LastBefore(kind, start, all) = LastBefore(kind, start, found)
           /\ PostStatOf(kind, start, all) = PostStatOf(kind, start, found)
           /\ ReactionStatOf(kind, start, all) = ReactionStatOf(kind, start, found)
  <1>0. found \subseteq all /\ all \subseteq Int /\ \A t \in all \ found : start < AbsPeriod(kind, t)
    BY DEF OnlyLater
  <1>1. \A t \in all : AbsPeriod(kind, t) \in Int /\ AbsPeriod(kind, t) <= t
    BY <1>0, PeriodNames
  <1>2. RowsIn(kind, start, all) = RowsIn(kind, start, found)
    <2>1. \A t \in all \ found : AbsPeriod(kind, t) # start
      BY <1>0, <1>1
    <2> QED
      BY <1>0, <2>1 DEF RowsIn
  <1>3. PICK p \in Int : p = AbsPeriod(kind, start - 1) /\ p < start
    <2>1. PICK s \in Int : s = start - 1
      OBVIOUS
    <2>2. AbsPeriod(kind, s) \in Int /\ AbsPeriod(kind, s) <= s
      BY PeriodNames
    <2> QED
      BY <2>1, <2>2
  <1>4. RowsIn(kind, p, all) = RowsIn(kind, p, found)
    <2>1. \A t \in all \ found : AbsPeriod(kind, t) # p
      BY <1>0, <1>1, <1>3
    <2> QED
      BY <1>0, <2>1 DEF RowsIn
  <1>5. {t \in all : t < start} = {t \in found : t < start}
    <2>1. \A t \in all \ found : t \in Int /\ ~(t < start)
      BY <1>0, <1>1
    <2> QED
      BY <1>0, <2>1
  <1>6. LastBefore(kind, start, all) = LastBefore(kind, start, found)
    BY <1>5, Zenon DEF LastBefore
  <1>7. PostStatOf(kind, start, all) = PostStatOf(kind, start, found)
    BY <1>2, <1>3, <1>4, Zenon DEF PostStatOf
  <1>8. ReactionStatOf(kind, start, all) = ReactionStatOf(kind, start, found)
    BY <1>2, <1>6, Zenon DEF ReactionStatOf
  <1> QED
    BY <1>2, <1>6, <1>7, <1>8

\* flushWeekData and its like add the statistics of the current period.
Flushed(kind, c, found) ==
    [c EXCEPT !.done = Append(@, PostStatOf(kind, c.cur, found)),
              !.lastTotal = Cardinality(RowsIn(kind, c.cur, found)),
              !.of = {}]

LEMMA FlushIsStat ==
    ASSUME NEW kind \in Kinds, NEW c \in PostCounter, NEW found, found \subseteq Post,
           PostsCounted(kind, c, found)
    PROVE  FlushPosts(kind, c) = Flushed(kind, c, found)
  <1> DEFINE of == RowsIn(kind, c.cur, found)
             before == RowsIn(kind, AbsPeriod(kind, c.cur - 1), found)
             diff == IF c.last = AbsPeriod(kind, c.cur - 1) THEN GetDiff(Cardinality(c.of), c.lastTotal)
                     ELSE <<1, 1>>
  <1>1. c.cur \in Periods(kind, found) /\ c.of = of /\ \A p \in Periods(kind, found) : p <= c.cur
    BY DEF PostsCounted
  <1>2. c.cur \in Int /\ c.last \in Int /\ c.lastTotal \in Nat
    BY DEF PostCounter
  <1>3. PICK s \in Int, q \in Int : s = c.cur - 1 /\ q = AbsPeriod(kind, s) /\ q <= s
    <2>1. PICK s \in Int : s = c.cur - 1
      BY <1>2
    <2> QED
      BY <2>1, PeriodNames
  <1>4. of # {} /\ Cardinality(of) \in Nat \ {0}
    <2>1. of # {} /\ of \subseteq Post
      BY <1>1 DEF Periods, RowsIn
    <2> QED
      BY <2>1, RowCounts
  <1>5. diff = IF before = {} THEN <<1, 1>> ELSE GetDiff(Cardinality(of), Cardinality(before))
    <2>0. /\ before = RowsIn(kind, q, found)
          /\ diff = IF c.last = q THEN GetDiff(Cardinality(of), c.lastTotal) ELSE <<1, 1>>
      BY <1>1, <1>3
    <2> HIDE DEF before, diff, of
    <2>1. CASE c.last = 0 /\ c.lastTotal = 0 /\ Periods(kind, found) = {c.cur}
      <3>1. \A t \in found : AbsPeriod(kind, t) # q
        BY <1>2, <1>3, <2>1 DEF Periods
      <3>2. before = {}
        BY <2>0, <3>1 DEF RowsIn
      <3>3. GetDiff(Cardinality(of), 0) = <<1, 1>>
        BY <1>4, SMT DEF GetDiff
      <3> QED
        BY <2>0, <2>1, <3>2, <3>3, Zenon
    <2>2. CASE /\ c.last \in Periods(kind, found) /\ c.last < c.cur
               /\ \A p \in Periods(kind, found) : p = c.cur \/ p <= c.last
               /\ c.lastTotal = Cardinality(RowsIn(kind, c.last, found))
      <3>1. PICK u \in found : c.last = AbsPeriod(kind, u) /\ u \in Int
        BY <2>2, RowAssumption DEF Periods
      <3>2. CASE c.last = q
        <4>1. u \in before
          BY <2>0, <3>1, <3>2 DEF RowsIn
        <4> QED
          BY <2>0, <2>2, <3>2, <4>1, Zenon
      <3>3. CASE c.last # q
        <4>1. before = {}
          <5> SUFFICES ASSUME NEW x \in before PROVE FALSE
            OBVIOUS
          <5>1. x \in found /\ q = AbsPeriod(kind, x)
            BY <2>0, Zenon DEF RowsIn
          <5>2. q <= c.last
            BY <1>2, <1>3, <2>2, <5>1 DEF Periods
          <5>3. c.last <= q
            <6>1. AbsPeriod(kind, c.last) = c.last
              BY <3>1, PeriodsOrdered
            <6>2. c.last <= s
              BY <1>2, <1>3, <2>2
            <6> QED
              BY <1>2, <1>3, <6>1, <6>2, PeriodsOrdered
          <5> QED
            BY <1>2, <1>3, <3>3, <5>2, <5>3
        <4> QED
          BY <2>0, <3>3, <4>1, Zenon
      <3> QED
        BY <3>2, <3>3
    <2> QED
      BY <2>1, <2>2 DEF PostsCounted
  <1>6. StatItem("post", kind, c.cur, c.of, GroupsOf(kind, c.of), diff) = PostStatOf(kind, c.cur, found)
    BY <1>1, <1>5, Zenon DEF PostStatOf
  <1>7. FlushPosts(kind, c) = [c EXCEPT !.done = Append(@, StatItem("post", kind, c.cur, c.of, GroupsOf(kind, c.of), diff)),
                                        !.lastTotal = Cardinality(c.of), !.of = {}]
    BY Zenon DEF FlushPosts
  <1> QED
    BY <1>1, <1>6, <1>7, Zenon DEF Flushed

\* A row joins the periods of those before it.
LEMMA JoinedRows ==
    ASSUME NEW kind \in Kinds, NEW found, found \subseteq Int, NEW t \in Int, \A s \in found : s < t
    PROVE  /\ Periods(kind, found \cup {t}) = Periods(kind, found) \cup {AbsPeriod(kind, t)}
           /\ \A p \in Periods(kind, found) : p \in Int /\ p <= AbsPeriod(kind, t)
           /\ \A p : RowsIn(kind, p, found \cup {t}) =
                         IF p = AbsPeriod(kind, t) THEN RowsIn(kind, p, found) \cup {t}
                         ELSE RowsIn(kind, p, found)
           /\ \A p \in Int : p < AbsPeriod(kind, t) =>
                  /\ PostStatOf(kind, p, found \cup {t}) = PostStatOf(kind, p, found)
                  /\ ReactionStatOf(kind, p, found \cup {t}) = ReactionStatOf(kind, p, found)
  <1>1. Periods(kind, found \cup {t}) = Periods(kind, found) \cup {AbsPeriod(kind, t)}
    BY DEF Periods
  <1>2. \A p \in Periods(kind, found) : p \in Int /\ p <= AbsPeriod(kind, t)
    <2> SUFFICES ASSUME NEW s \in found PROVE AbsPeriod(kind, s) \in Int /\ AbsPeriod(kind, s) <= AbsPeriod(kind, t)
      BY DEF Periods
    <2>1. s \in Int /\ s <= t
      OBVIOUS
    <2> QED
      BY <2>1, PeriodNames, PeriodsOrdered
  <1>3. ASSUME NEW p
        PROVE  RowsIn(kind, p, found \cup {t}) =
                   IF p = AbsPeriod(kind, t) THEN RowsIn(kind, p, found) \cup {t} ELSE RowsIn(kind, p, found)
    BY DEF RowsIn
  <1>4. ASSUME NEW p \in Int, p < AbsPeriod(kind, t), NEW all, all = found \cup {t}
        PROVE  PostStatOf(kind, p, all) = PostStatOf(kind, p, found) /\ ReactionStatOf(kind, p, all) = ReactionStatOf(kind, p, found)
    <2>1. OnlyLater(kind, p, found, all)
      BY <1>4 DEF OnlyLater
    <2> QED
      BY <2>1, LaterRows
  <1> QED
    BY <1>1, <1>2, <1>3, <1>4, Zenon

\* countWeek and its like: a counter that knows the rows so far knows the next one, too.
LEMMA CountPostCounted ==
    ASSUME NEW kind \in Kinds, NEW c \in PostCounter, NEW found, found \subseteq Post,
           NEW t \in Post, \A s \in found : s < t, 0 \notin Periods(kind, found \cup {t}),
           IF found = {} THEN c = NewPostCounter ELSE PostsCounted(kind, c, found)
    PROVE  PostsCounted(kind, CountPostIn(kind, c, t), found \cup {t})
  <1>0. found \subseteq Int /\ t \in Int
    BY RowAssumption
  <1>1. PICK period \in Int : period = AbsPeriod(kind, t)
    BY <1>0, PeriodNames
  <1> DEFINE all == found \cup {t}
             d == CountPostIn(kind, c, t)
  <1>2. /\ Periods(kind, all) = Periods(kind, found) \cup {period}
        /\ \A p \in Periods(kind, found) : p \in Int /\ p <= period
        /\ \A p : RowsIn(kind, p, all) =
                      IF p = period THEN RowsIn(kind, p, found) \cup {t} ELSE RowsIn(kind, p, found)
        /\ \A p \in Int : p < period => PostStatOf(kind, p, all) = PostStatOf(kind, p, found)
    <2>1. /\ Periods(kind, found \cup {t}) = Periods(kind, found) \cup {AbsPeriod(kind, t)}
          /\ \A p \in Periods(kind, found) : p \in Int /\ p <= AbsPeriod(kind, t)
          /\ \A p : RowsIn(kind, p, found \cup {t}) =
                        IF p = AbsPeriod(kind, t) THEN RowsIn(kind, p, found) \cup {t}
                        ELSE RowsIn(kind, p, found)
          /\ \A p \in Int : p < AbsPeriod(kind, t) =>
                 /\ PostStatOf(kind, p, found \cup {t}) = PostStatOf(kind, p, found)
                 /\ ReactionStatOf(kind, p, found \cup {t}) = ReactionStatOf(kind, p, found)
      BY <1>0, JoinedRows
    <2> QED
      BY <1>1, <2>1, Zenon
  <1>3. period # 0 /\ 0 \notin Periods(kind, found)
    <2>1. 0 \notin Periods(kind, all)
      BY Zenon
    <2> QED
      BY <1>2, <2>1
  <1>4. c.cur \in Int /\ c.last \in Int /\ c.lastTotal \in Nat /\ c.of \subseteq Post /\ c.done \in Seq(Items)
    BY DEF PostCounter
  <1>5. c = [cur |-> c.cur, last |-> c.last, lastTotal |-> c.lastTotal, of |-> c.of, done |-> c.done]
    BY DEF PostCounter
  <1>6. CASE found = {}
    <2>1. c = [cur |-> 0, last |-> 0, lastTotal |-> 0, of |-> {}, done |-> <<>>]
      BY <1>6, Zenon DEF NewPostCounter
    <2>2. d = [cur |-> period, last |-> 0, lastTotal |-> 0, of |-> {t}, done |-> <<>>]
      <3>1. c.cur = 0 /\ [c EXCEPT !.last = 0, !.cur = period].cur = period
        BY <2>1
      <3>2. d = [[c EXCEPT !.last = 0, !.cur = period] EXCEPT !.of = @ \cup {t}]
        BY <1>1, <3>1, Zenon DEF CountPostIn
      <3> QED
        BY <2>1, <3>2
    <2>3. Periods(kind, found) = {} /\ RowsIn(kind, period, found) = {}
      BY <1>6 DEF Periods, RowsIn
    <2> HIDE DEF all, d
    <2>4. Periods(kind, all) = {period} /\ RowsIn(kind, period, all) = {t}
      BY <1>2, <2>3, Zenon
    <2>5. ItemsOf(d.done) = {}
      BY <2>2, ItemsOfSequences
    <2>6. \A p \in Periods(kind, all) : p <= period
      BY <2>4
    <2>7. {PostStatOf(kind, s, all) : s \in Periods(kind, all) \ {period}} = {}
      BY <2>4
    <2>8. d.cur = period /\ d.last = 0 /\ d.lastTotal = 0 /\ d.of = {t}
      BY <2>2
    <2>9. PostsCounted(kind, d, all)
      BY <2>4, <2>5, <2>6, <2>7, <2>8, Zenon DEF PostsCounted
    <2> QED
      BY <2>9, Zenon DEF all, d
  <1>7. CASE found # {} /\ period = c.cur
    <2>0. PostsCounted(kind, c, found)
      BY <1>7, Zenon
    <2>1. d = [c EXCEPT !.of = @ \cup {t}]
      BY <1>1, <1>3, <1>5, <1>7, Zenon DEF CountPostIn
    <2>2. d.cur = period /\ d.last = c.last /\ d.lastTotal = c.lastTotal /\ d.of = c.of \cup {t} /\ d.done = c.done
      BY <1>5, <1>7, <2>1
    <2> HIDE DEF all, d
    <2>3. Periods(kind, all) = Periods(kind, found) /\ period \in Periods(kind, all)
      BY <1>2, <1>7, <2>0, Zenon DEF PostsCounted
    <2>4. d.of = RowsIn(kind, period, all)
      BY <1>2, <1>7, <2>0, <2>2, Zenon DEF PostsCounted
    <2>5. \A s \in Periods(kind, all) : s <= period
      BY <1>2, <2>3, Zenon
    <2>6. \A s \in Periods(kind, all) \ {period} : PostStatOf(kind, s, all) = PostStatOf(kind, s, found)
      <3> SUFFICES ASSUME NEW s \in Periods(kind, found), s # period
                   PROVE  PostStatOf(kind, s, all) = PostStatOf(kind, s, found)
        BY <2>3, Zenon
      <3>1. s \in Int /\ s < period
        BY <1>2
      <3> QED
        BY <1>2, <3>1, Zenon
    <2>7. ItemsOf(d.done) = {PostStatOf(kind, s, all) : s \in Periods(kind, all) \ {period}}
      <3>1. ItemsOf(d.done) = {PostStatOf(kind, s, found) : s \in Periods(kind, all) \ {period}}
        BY <1>7, <2>0, <2>2, <2>3, Zenon DEF PostsCounted
      <3> QED
        BY <2>6, <3>1
    <2>8. \/ d.last = 0 /\ d.lastTotal = 0 /\ Periods(kind, all) = {period}
          \/ /\ d.last \in Periods(kind, all) /\ d.last < period
             /\ \A p \in Periods(kind, all) : p = period \/ p <= d.last
             /\ d.lastTotal = Cardinality(RowsIn(kind, d.last, all))
      <3>1. c.last < period => RowsIn(kind, c.last, all) = RowsIn(kind, c.last, found)
        <4> SUFFICES ASSUME c.last < period PROVE c.last # period
          BY <1>2, Zenon
        <4> QED
          BY <1>4
      <3> QED
        BY <1>7, <2>0, <2>2, <2>3, <3>1, Zenon DEF PostsCounted
    <2>9. PostsCounted(kind, d, all)
      BY <2>2, <2>3, <2>4, <2>5, <2>7, <2>8, Zenon DEF PostsCounted
    <2> QED
      BY <2>9, Zenon DEF all, d
  <1>8. CASE found # {} /\ period # c.cur
    <2>0. PostsCounted(kind, c, found)
      BY <1>8, Zenon
    <2> DEFINE stat == PostStatOf(kind, c.cur, found)
               total == Cardinality(RowsIn(kind, c.cur, found))
    <2>a. c.cur \in Periods(kind, found) /\ c.cur # 0
      BY <1>3, <2>0, Zenon DEF PostsCounted
    <2>b. FlushPosts(kind, c) = [c EXCEPT !.done = Append(@, stat), !.lastTotal = total, !.of = {}]
      <3>1. FlushPosts(kind, c) = Flushed(kind, c, found)
        BY <2>0, FlushIsStat
      <3> QED
        BY <3>1, Zenon DEF Flushed
    <2>1. d = [[FlushPosts(kind, c) EXCEPT !.last = c.cur, !.cur = period] EXCEPT !.of = @ \cup {t}]
      BY <1>1, <1>8, <2>a, Zenon DEF CountPostIn
    <2> HIDE DEF stat, total
    <2>2. d.cur = period /\ d.last = c.cur /\ d.lastTotal = total /\ d.of = {t} /\ d.done = Append(c.done, stat)
      BY <1>5, <2>b, <2>1
    <2> HIDE DEF all, d
    <2>c. c.cur < period
      BY <1>2, <1>8, <2>a
    <2>d. \A p \in Periods(kind, found) : p \in Int /\ p <= c.cur /\ p < period
      <3>1. \A p \in Periods(kind, found) : p <= c.cur
        BY <2>0, Zenon DEF PostsCounted
      <3> QED
        BY <1>2, <1>4, <2>c, <3>1
    <2>3. period \in Periods(kind, all) /\ \A p \in Periods(kind, all) : p <= period
      BY <1>2
    <2>e. period \notin Periods(kind, found)
      BY <2>d
    <2>4. d.of = RowsIn(kind, period, all)
      <3>1. RowsIn(kind, period, found) = {}
        BY <2>e DEF Periods, RowsIn
      <3> QED
        BY <1>2, <2>2, <3>1, Zenon
    <2>5. Periods(kind, all) \ {period} = Periods(kind, found)
      BY <1>2, <2>e
    <2>6. ItemsOf(d.done) = {PostStatOf(kind, s, all) : s \in Periods(kind, all) \ {period}}
      <3>1. stat \in Items
        <4>1. FlushPosts(kind, c) \in PostCounter
          BY FlushTypes
        <4>2. Append(c.done, stat) \in Seq(Items)
          BY <1>5, <2>b, <4>1 DEF PostCounter
        <4>3. /\ Len(Append(c.done, stat)) = Len(c.done) + 1 /\ Len(c.done) \in Nat
              /\ Append(c.done, stat)[Len(c.done) + 1] = stat
          BY <1>4
        <4>4. Len(c.done) + 1 \in 1 .. Len(Append(c.done, stat))
          BY <4>3
        <4> QED
          BY <4>2, <4>3, <4>4
      <3>2. ItemsOf(d.done) = ItemsOf(c.done) \cup {stat}
        BY <1>4, <2>2, <3>1, ItemsOfSequences
      <3>3. ItemsOf(c.done) = {PostStatOf(kind, s, found) : s \in Periods(kind, found) \ {c.cur}}
        BY <2>0, Zenon DEF PostsCounted
      <3>4. ItemsOf(d.done) = {PostStatOf(kind, s, found) : s \in Periods(kind, found)}
        BY <2>a, <3>2, <3>3 DEF stat
      <3>5. \A s \in Periods(kind, found) : PostStatOf(kind, s, all) = PostStatOf(kind, s, found)
        BY <1>2, <2>d, Zenon
      <3> QED
        BY <2>5, <3>4, <3>5
    <2>7. d.last \in Periods(kind, all) /\ d.last < period
      BY <1>2, <2>2, <2>a, <2>c
    <2>8. \A p \in Periods(kind, all) : p = period \/ p <= d.last
      BY <1>2, <2>2, <2>d
    <2>9. d.lastTotal = Cardinality(RowsIn(kind, d.last, all))
      BY <1>2, <1>8, <2>2, Zenon DEF total
    <2>10. PostsCounted(kind, d, all)
      <3> DEFINE e == d
      <3>1. e.cur = period
        BY <2>2
      <3> QED
        BY <2>2, <2>3, <2>4, <2>6, <2>7, <2>8, <2>9, Zenon DEF PostsCounted
    <2> QED
      BY <2>10, Zenon DEF all, d
  <1> QED
    BY <1>6, <1>7, <1>8

\* AddToSubs keeps the rows of a sub-period together, as they come in the order of time.
LEMMA SubsAdded ==
    ASSUME NEW kind \in Kinds, NEW of, of \subseteq Int, NEW t \in Int, \A s \in of : s < t,
           NEW S, NEW subs \in Seq([name : Int, of : S]), SubsKept(kind, subs, of)
    PROVE  SubsKept(kind, AddToSubs(subs, SubPeriod(kind, t), t), of \cup {t})
  <1>1. PICK name \in Int : name = SubPeriod(kind, t)
    BY SubPeriodNames
  <1>2. \A s \in of : SubPeriod(kind, s) \in Int /\ SubPeriod(kind, s) <= name
    <2> SUFFICES ASSUME NEW s \in of PROVE SubPeriod(kind, s) \in Int /\ SubPeriod(kind, s) <= name
      OBVIOUS
    <2>1. s \in Int /\ s <= t
      OBVIOUS
    <2> QED
      BY <1>1, <2>1, SubPeriodNames, SubPeriodsOrdered
  <1>3. PICK n \in Nat : n = Len(subs)
    OBVIOUS
  <1> DEFINE all == of \cup {t}
             new == AddToSubs(subs, name, t)
             In(rest, p) == {s \in rest : SubPeriod(kind, s) = p}
  <1>4. /\ \A i \in 1 .. n : subs[i].of = In(of, subs[i].name)
        /\ \A i \in 1 .. n : \E s \in of : SubPeriod(kind, s) = subs[i].name
        /\ \A s \in of : \E i \in 1 .. n : SubPeriod(kind, s) = subs[i].name
        /\ \A s \in of : subs # <<>> /\ SubPeriod(kind, s) <= subs[n].name
        /\ \A i, j \in 1 .. n : subs[i].name = subs[j].name => i = j
    BY <1>3, Zenon DEF SubsKept
  <1>5. \A p : In(all, p) = IF p = name THEN In(of, p) \cup {t} ELSE In(of, p)
    BY <1>1
  <1> HIDE DEF all, In
  <1>6. \A s \in all : s \in of \/ s = t
    BY DEF all
  <1>7. of \subseteq all /\ t \in all
    BY DEF all
  <1>8. ASSUME NEW m \in Nat, Len(new) = m,
               \A i \in 1 .. m : new[i].of = In(all, new[i].name),
               \A i \in 1 .. m : \E s \in all : SubPeriod(kind, s) = new[i].name,
               \A s \in all : \E i \in 1 .. m : SubPeriod(kind, s) = new[i].name,
               new # <<>>, new[m].name = name,
               \A i, j \in 1 .. m : new[i].name = new[j].name => i = j
        PROVE  SubsKept(kind, new, all)
    <2> HIDE DEF new
    <2>1. ASSUME NEW s \in all PROVE new # <<>> /\ SubPeriod(kind, s) <= new[Len(new)].name
      <3>1. new[Len(new)].name = name /\ name <= name
        BY <1>8
      <3>2. SubPeriod(kind, s) <= name
        BY <1>1, <1>2, <1>6, <3>1
      <3> QED
        BY <1>8, <3>1, <3>2
    <2> QED
      BY <1>8, <2>1, Zenon DEF SubsKept, In
  <1>9. ASSUME subs # <<>> /\ subs[n].name = name PROVE SubsKept(kind, new, all)
    <2>1. new = [subs EXCEPT ![n].of = @ \cup {t}]
      BY <1>3, <1>9, Zenon DEF AddToSubs
    <2>2. n \in 1 .. n /\ DOMAIN subs = 1 .. n
      BY <1>3, <1>9
    <2>3. /\ \A i \in 1 .. n : i # n => new[i] = subs[i]
          /\ new[n] = [subs[n] EXCEPT !.of = @ \cup {t}]
          /\ DOMAIN new = 1 .. n /\ Len(new) = n
      <3> HIDE DEF new
      <3>1. DOMAIN new = 1 .. n
        BY <2>1, <2>2
      <3>2. Len(new) = n
        BY <3>1
      <3> QED
        BY <2>1, <2>2, <3>1, <3>2
    <2> HIDE DEF new
    <2>4. subs[n] \in [name : Int, of : S]
      <3> DEFINE R == [name : Int, of : S]
      <3>1. subs \in Seq(R)
        OBVIOUS
      <3> HIDE DEF R
      <3>2. subs[n] \in R
        BY <1>3, <2>2, <3>1
      <3> QED
        BY <3>2 DEF R
    <2>5. new[n].name = name /\ new[n].of = subs[n].of \cup {t}
      BY <1>9, <2>3, <2>4
    <2>6. \A i \in 1 .. n : new[i].name = subs[i].name
      <3> SUFFICES ASSUME NEW i \in 1 .. n PROVE new[i].name = subs[i].name
        OBVIOUS
      <3>1. CASE i = n
        BY <1>9, <2>5, <3>1
      <3>2. CASE i # n
        BY <2>3, <3>2
      <3> QED
        BY <3>1, <3>2
    <2>7. ASSUME NEW i \in 1 .. n PROVE new[i].of = In(all, new[i].name)
      <3>1. CASE i = n
        <4>1. In(all, name) = In(of, name) \cup {t}
          BY <1>5, Zenon
        <4>2. subs[n].of = In(of, name)
          BY <1>4, <1>9, <2>2, Zenon
        <4> QED
          BY <2>5, <3>1, <4>1, <4>2, Zenon
      <3>2. CASE i # n
        <4>1. subs[i].name # name
          BY <1>4, <1>9, <2>2, <3>2, Zenon
        <4>2. In(all, subs[i].name) = In(of, subs[i].name)
          BY <1>5, <4>1, Zenon
        <4> QED
          BY <1>4, <2>3, <3>2, <4>2, Zenon
      <3> QED
        BY <3>1, <3>2
    <2>8. \A i \in 1 .. n : \E s \in all : SubPeriod(kind, s) = new[i].name
      BY <1>4, <1>7, <2>6, Zenon
    <2>9. ASSUME NEW s \in all PROVE \E i \in 1 .. n : SubPeriod(kind, s) = new[i].name
      <3>1. CASE s \in of
        <4>1. PICK i \in 1 .. n : SubPeriod(kind, s) = subs[i].name
          BY <1>4, <3>1, Zenon
        <4> QED
          BY <2>6, <4>1, Zenon
      <3>2. CASE s = t
        BY <1>1, <2>2, <2>5, <3>2, Zenon
      <3> QED
        BY <1>6, <3>1, <3>2
    <2>10. new # <<>>
      <3>1. DOMAIN new # {}
        BY <2>2, <2>3
      <3> QED
        BY <3>1
    <2>11. \A i, j \in 1 .. n : new[i].name = new[j].name => i = j
      BY <1>4, <2>6, Zenon
    <2> QED
      BY <1>8, <2>3, <2>5, <2>7, <2>8, <2>9, <2>10, <2>11, Zenon
  <1>10. ASSUME ~(subs # <<>> /\ subs[n].name = name) PROVE SubsKept(kind, new, all)
    <2> DEFINE last == [name |-> name, of |-> {t}]
    <2>1. new = Append(subs, last)
      BY <1>3, <1>10, Zenon DEF AddToSubs
    <2>0. PICK m \in Nat : m = n + 1
      BY <1>3
    <2> HIDE DEF last
    <2>2. /\ \A i \in 1 .. n : new[i] = subs[i]
          /\ new[m] = last /\ Len(new) = m /\ new # <<>>
      BY <1>3, <2>0, <2>1
    <2>3. new[m].name = name /\ new[m].of = {t}
      BY <2>2 DEF last
    <2> HIDE DEF new
    <2>4. \A s \in of : SubPeriod(kind, s) # name
      <3> SUFFICES ASSUME NEW s \in of, SubPeriod(kind, s) = name PROVE FALSE
        OBVIOUS
      <3>1. subs # <<>> /\ name <= subs[n].name
        BY <1>4, Zenon
      <3>2. n \in 1 .. n
        BY <1>3, <3>1
      <3>3. PICK u \in of : SubPeriod(kind, u) = subs[n].name
        BY <1>4, <3>2, Zenon
      <3>4. subs[n].name <= name /\ subs[n].name \in Int
        BY <1>2, <3>3
      <3>5. subs[n].name = name
        BY <3>1, <3>4
      <3> QED
        BY <1>10, <3>1, <3>5
    <2>5. In(all, name) = {t}
      <3>1. In(of, name) = {}
        BY <2>4 DEF In
      <3>2. In(all, name) = In(of, name) \cup {t}
        BY <1>5, Zenon
      <3> QED
        BY <3>1, <3>2
    <2>6. ASSUME NEW i \in 1 .. n PROVE subs[i].name # name /\ In(all, subs[i].name) = In(of, subs[i].name)
      <3>1. subs[i].name # name
        BY <1>4, <2>4, Zenon
      <3> QED
        BY <1>5, <3>1, Zenon
    <2>7. \A i \in 1 .. m : i \in 1 .. n \/ i = m
      BY <2>0
    <2>8. 1 .. n \subseteq 1 .. m /\ m \in 1 .. m
      BY <2>0
    <2>9. ASSUME NEW i \in 1 .. m PROVE new[i].of = In(all, new[i].name)
      <3>1. CASE i \in 1 .. n
        BY <1>4, <2>2, <2>6, <3>1, Zenon
      <3>2. CASE i = m
        BY <2>3, <2>5, <3>2, Zenon
      <3> QED
        BY <2>7, <3>1, <3>2
    <2>10. ASSUME NEW i \in 1 .. m PROVE \E s \in all : SubPeriod(kind, s) = new[i].name
      <3>1. CASE i \in 1 .. n
        BY <1>4, <1>7, <2>2, <3>1, Zenon
      <3>2. CASE i = m
        BY <1>1, <1>7, <2>3, <3>2, Zenon
      <3> QED
        BY <2>7, <3>1, <3>2
    <2>11. ASSUME NEW s \in all PROVE \E i \in 1 .. m : SubPeriod(kind, s) = new[i].name
      <3>1. CASE s \in of
        <4>1. PICK i \in 1 .. n : SubPeriod(kind, s) = subs[i].name
          BY <1>4, <3>1, Zenon
        <4> QED
          BY <2>2, <2>8, <4>1
      <3>2. CASE s = t
        BY <1>1, <2>3, <2>8, <3>2, Zenon
      <3> QED
        BY <1>6, <3>1, <3>2
    <2>12. ASSUME NEW i \in 1 .. m, NEW j \in 1 .. m, new[i].name = new[j].name PROVE i = j
      <3>1. \A k \in 1 .. n : new[k].name = subs[k].name /\ new[k].name # name
        BY <2>2, <2>6, Zenon
      <3> QED
        BY <1>4, <2>3, <2>7, <2>12, <3>1, Zenon
    <2> QED
      BY <1>8, <2>2, <2>3, <2>9, <2>10, <2>11, <2>12, Zenon
  <1> QED
    BY <1>1, <1>9, <1>10, Zenon DEF all

\* They are the groups of the statistics.
LEMMA SubsAreGroups ==
    ASSUME NEW kind \in Kinds, NEW of, NEW S, NEW subs \in Seq([name : Int, of : S]),
           SubsKept(kind, subs, of)
    PROVE  ItemsOf(subs) = GroupsOf(kind, of)
  <1>1. DOMAIN subs = 1 .. Len(subs)
    OBVIOUS
  <1> DEFINE R == [name : Int, of : S]
             Of(p) == {t \in of : SubPeriod(kind, t) = p}
  <1>2. \A r \in R : r = [name |-> r.name, of |-> r.of]
    OBVIOUS
  <1>3. subs \in Seq(R)
    OBVIOUS
  <1> HIDE DEF R
  <1>4. \A i \in 1 .. Len(subs) : subs[i] \in R
    BY <1>3
  <1>5. \A i \in 1 .. Len(subs) : subs[i].of = Of(subs[i].name)
    BY Zenon DEF SubsKept
  <1>6. \A i \in 1 .. Len(subs) : subs[i] = [name |-> subs[i].name, of |-> Of(subs[i].name)]
    BY <1>2, <1>4, <1>5, Zenon
  <1>7. GroupsOf(kind, of) = {[name |-> p, of |-> Of(p)] : p \in {SubPeriod(kind, t) : t \in of}}
    BY Zenon DEF GroupsOf
  <1> HIDE DEF Of
  <1>8. ASSUME NEW g \in ItemsOf(subs) PROVE g \in GroupsOf(kind, of)
    <2>1. PICK i \in 1 .. Len(subs) : g = subs[i]
      BY <1>1 DEF ItemsOf
    <2>2. g = [name |-> subs[i].name, of |-> Of(subs[i].name)]
      BY <1>6, <2>1, Zenon
    <2>3. PICK s \in of : SubPeriod(kind, s) = subs[i].name
      BY Zenon DEF SubsKept
    <2> QED
      BY <1>7, <2>2, <2>3
  <1>9. ASSUME NEW g \in GroupsOf(kind, of) PROVE g \in ItemsOf(subs)
    <2>1. PICK s \in of : g = [name |-> SubPeriod(kind, s), of |-> Of(SubPeriod(kind, s))]
      BY <1>7
    <2>2. PICK i \in 1 .. Len(subs) : SubPeriod(kind, s) = subs[i].name
      BY Zenon DEF SubsKept
    <2>3. g = subs[i]
      BY <1>6, <2>1, <2>2, Zenon
    <2> QED
      BY <1>1, <2>3, Zenon DEF ItemsOf
  <1> QED
    BY <1>8, <1>9, Zenon

\* An open period has rows, and flushStat gives away its statistics.
LEMMA OpenIsStat ==
    ASSUME NEW kind \in Kinds, NEW c \in ReactionCounter, NEW found, ReactionsCounted(kind, c, found)
    PROVE  c.of # {} /\ OpenStat(kind, c) = ReactionStatOf(kind, c.start, found)
  <1>1. /\ c.start \in Periods(kind, found) /\ c.of = RowsIn(kind, c.start, found)
        /\ c.lastQuantity = Cardinality(LastBefore(kind, c.start, found)) /\ SubsKept(kind, c.subs, c.of)
    BY Zenon DEF ReactionsCounted
  <1>2. c.of # {}
    BY <1>1 DEF Periods, RowsIn
  <1>3. c.subs \in Seq([name : Int, of : SUBSET Reaction])
    BY DEF ReactionCounter
  <1>4. ItemsOf(c.subs) = GroupsOf(kind, c.of)
    BY <1>1, <1>3, SubsAreGroups, Zenon
  <1> QED
    BY <1>1, <1>2, <1>4, Zenon DEF OpenStat, ReactionStatOf

\* A period is closed by the first row of a later one.
LEMMA ClosedIsStat ==
    ASSUME NEW kind \in Kinds, NEW c \in ReactionCounter, NEW found, NEW t,
           ReactionsCounted(kind, c, found)
    PROVE  ClosedBy(kind, c, t) =
               IF c.start = AbsPeriod(kind, t) THEN <<>> ELSE <<ReactionStatOf(kind, c.start, found)>>
  BY OpenIsStat, Zenon DEF ClosedBy

\* The first row of a period has those of the last one before it.
LEMMA RowsBefore ==
    ASSUME NEW kind \in Kinds, NEW found, found \subseteq Int, NEW t \in Int, \A s \in found : s < t,
           NEW start \in Int, \A s \in found : AbsPeriod(kind, s) <= start, start \in Periods(kind, found),
           start < AbsPeriod(kind, t)
    PROVE  LastBefore(kind, AbsPeriod(kind, t), found \cup {t}) = RowsIn(kind, start, found)
  <1>1. PICK period \in Int : period = AbsPeriod(kind, t) /\ period <= t /\ start < period
    BY PeriodNames
  <1>2. ASSUME NEW s \in found PROVE s \in Int /\ s < period /\ AbsPeriod(kind, s) \in Int /\ AbsPeriod(kind, s) <= start
    <2>1. s \in Int /\ s < t /\ AbsPeriod(kind, s) <= start /\ AbsPeriod(kind, s) \in Int
      BY PeriodNames
    <2>2. s < period
      <3> SUFFICES ASSUME period <= s PROVE FALSE
        BY <1>1, <2>1
      <3>1. AbsPeriod(kind, s) = period
        BY <1>1, <2>1, PeriodNames
      <3> QED
        BY <1>1, <2>1, <3>1
    <2> QED
      BY <2>1, <2>2
  <1>3. {s \in found \cup {t} : s < period} = found
    <2>1. ~(t < period)
      BY <1>1
    <2>2. \A s \in found : s < period
      BY <1>2, Zenon
    <2> QED
      BY <2>1, <2>2
  <1>4. LastBefore(kind, period, found \cup {t}) =
            {s \in found : \A u \in found : AbsPeriod(kind, u) <= AbsPeriod(kind, s)}
    BY <1>3, Zenon DEF LastBefore
  <1>5. PICK r \in found : AbsPeriod(kind, r) = start
    BY DEF Periods
  <1>6. ASSUME NEW s \in found
        PROVE  (\A u \in found : AbsPeriod(kind, u) <= AbsPeriod(kind, s)) <=> AbsPeriod(kind, s) = start
    <2>1. ASSUME \A u \in found : AbsPeriod(kind, u) <= AbsPeriod(kind, s) PROVE AbsPeriod(kind, s) = start
      <3>1. start <= AbsPeriod(kind, s)
        BY <1>5, <2>1, Zenon
      <3> QED
        BY <1>2, <3>1
    <2>2. ASSUME AbsPeriod(kind, s) = start PROVE \A u \in found : AbsPeriod(kind, u) <= AbsPeriod(kind, s)
      BY <1>2, <2>2, Zenon
    <2> QED
      BY <2>1, <2>2
  <1>7. RowsIn(kind, start, found) = {s \in found : AbsPeriod(kind, s) = start}
    BY Zenon DEF RowsIn
  <1> QED
    BY <1>1, <1>4, <1>6, <1>7

\* reactionStatCounter.countWeek and its like.
LEMMA CountReactionCounted ==
    ASSUME NEW kind \in Kinds, NEW c \in ReactionCounter, NEW found, found \subseteq Reaction,
           NEW t \in Reaction, \A s \in found : s < t,
           IF found = {} THEN c = NewReactionCounter ELSE ReactionsCounted(kind, c, found)
    PROVE  ReactionsCounted(kind, CountReactionIn(kind, c, t), found \cup {t})
  <1>0. found \subseteq Int /\ t \in Int
    BY RowAssumption
  <1>1. PICK period \in Int : period = AbsPeriod(kind, t) /\ period <= t
    BY <1>0, PeriodNames
  <1> DEFINE all == found \cup {t}
             d == CountReactionIn(kind, c, t)
             name == SubPeriod(kind, t)
             fresh == [NewReactionCounter EXCEPT !.start = AbsPeriod(kind, t), !.lastQuantity = Cardinality(c.of)]
  <1>2. /\ Periods(kind, found \cup {t}) = Periods(kind, found) \cup {AbsPeriod(kind, t)}
        /\ \A p \in Periods(kind, found) : p \in Int /\ p <= AbsPeriod(kind, t)
        /\ \A p : RowsIn(kind, p, found \cup {t}) =
                      IF p = AbsPeriod(kind, t) THEN RowsIn(kind, p, found) \cup {t}
                      ELSE RowsIn(kind, p, found)
        /\ \A p \in Int : p < AbsPeriod(kind, t) =>
               /\ PostStatOf(kind, p, found \cup {t}) = PostStatOf(kind, p, found)
               /\ ReactionStatOf(kind, p, found \cup {t}) = ReactionStatOf(kind, p, found)
    BY <1>0, JoinedRows
  <1>3. /\ Periods(kind, all) = Periods(kind, found) \cup {period}
        /\ RowsIn(kind, period, all) = RowsIn(kind, period, found) \cup {t}
        /\ \A p \in Periods(kind, found) : p \in Int /\ p <= period
    BY <1>1, <1>2, Zenon
  <1>4. period \in Periods(kind, all) /\ \A p \in Periods(kind, all) : p <= period
    BY <1>3
  <1>5. c = [start |-> c.start, of |-> c.of, subs |-> c.subs, lastQuantity |-> c.lastQuantity]
        /\ c.subs \in Seq([name : Int, of : SUBSET Reaction])
    BY DEF ReactionCounter
  <1>6. ASSUME RowsIn(kind, period, found) = {}, Cardinality(c.of) = Cardinality(LastBefore(kind, period, all)),
               d = [fresh EXCEPT !.of = @ \cup {t}, !.subs = AddToSubs(@, name, t)]
        PROVE  ReactionsCounted(kind, d, all)
    <2>0. /\ NewReactionCounter.of = {} /\ NewReactionCounter.subs = <<>>
          /\ NewReactionCounter \in ReactionCounter
      BY NewCounterTypes DEF NewReactionCounter
    <2>1. fresh = [NewReactionCounter EXCEPT !.start = period, !.lastQuantity = Cardinality(c.of)]
      BY <1>1, Zenon
    <2> HIDE DEF fresh, name, all, d
    <2>2. d.start = period /\ d.of = {t} /\ d.subs = AddToSubs(<<>>, name, t) /\ d.lastQuantity = Cardinality(c.of)
      BY <1>6, <2>0, <2>1 DEF ReactionCounter
    <2>3. SubsKept(kind, d.subs, {t})
      <3>1. AddToSubs(<<>>, name, t) = <<[name |-> name, of |-> {t}]>>
        BY DEF AddToSubs
      <3>2. name = SubPeriod(kind, t) /\ name <= name
        BY <1>0, SubPeriodNames DEF name
      <3> QED
        BY <2>2, <3>1, <3>2 DEF SubsKept
    <2>4. d.of = RowsIn(kind, period, all)
      BY <1>3, <1>6, <2>2
    <2> QED
      BY <1>4, <1>6, <2>2, <2>3, <2>4, Zenon DEF ReactionsCounted
  <1>7. ASSUME found = {} PROVE ReactionsCounted(kind, d, all)
    <2>1. c = NewReactionCounter
      BY <1>7
    <2>2. c.of = {}
      BY <2>1 DEF NewReactionCounter
    <2>3. d = [fresh EXCEPT !.of = @ \cup {t}, !.subs = AddToSubs(@, name, t)]
      BY <2>2, Zenon DEF CountReactionIn
    <2>4. RowsIn(kind, period, found) = {}
      BY <1>7 DEF RowsIn
    <2>5. LastBefore(kind, period, all) = {}
      BY <1>0, <1>1, <1>7 DEF LastBefore
    <2> QED
      BY <1>6, <2>2, <2>3, <2>4, <2>5, Zenon
  <1>8. ASSUME found # {}, c.start = period PROVE ReactionsCounted(kind, d, all)
    <2>0. ReactionsCounted(kind, c, found)
      BY <1>8
    <2>1. c.of # {} /\ ClosedBy(kind, c, t) = <<>>
      BY <1>1, <1>8, <2>0, OpenIsStat, Zenon DEF ClosedBy
    <2>2. d = [c EXCEPT !.of = @ \cup {t}, !.subs = AddToSubs(@, name, t)]
      BY <2>1, Zenon DEF CountReactionIn
    <2> HIDE DEF name, all, d
    <2>3. d.start = period /\ d.of = c.of \cup {t} /\ d.subs = AddToSubs(c.subs, name, t) /\ d.lastQuantity = c.lastQuantity
      BY <1>5, <1>8, <2>2
    <2>4. d.of = RowsIn(kind, period, all)
      BY <1>3, <1>8, <2>0, <2>3, Zenon DEF ReactionsCounted
    <2>5. LastBefore(kind, period, all) = LastBefore(kind, period, found)
      <3>1. {s \in all : s < period} = {s \in found : s < period}
        BY <1>0, <1>1 DEF all
      <3> QED
        BY <3>1, Zenon DEF LastBefore
    <2>6. SubsKept(kind, d.subs, d.of)
      <3>1. c.of \subseteq Int /\ \A s \in c.of : s < t
        BY <1>0, <2>0 DEF ReactionsCounted, RowsIn
      <3>2. SubsKept(kind, c.subs, c.of)
        BY <2>0, Zenon DEF ReactionsCounted
      <3>3. SubsKept(kind, AddToSubs(c.subs, SubPeriod(kind, t), t), c.of \cup {t})
        BY <1>0, <1>5, <3>1, <3>2, SubsAdded
      <3> QED
        BY <2>3, <3>3, Zenon DEF name
    <2>7. d.lastQuantity = Cardinality(LastBefore(kind, period, all))
      BY <1>8, <2>0, <2>3, <2>5, Zenon DEF ReactionsCounted
    <2> QED
      BY <1>4, <2>3, <2>4, <2>6, <2>7, Zenon DEF ReactionsCounted
  <1>9. ASSUME found # {}, c.start # period PROVE ReactionsCounted(kind, d, all)
    <2>0. ReactionsCounted(kind, c, found)
      BY <1>9
    <2>1. ClosedBy(kind, c, t) # <<>>
      <3>1. c.of # {}
        BY <2>0, OpenIsStat
      <3> QED
        BY <1>1, <1>9, <3>1 DEF ClosedBy
    <2>2. d = [fresh EXCEPT !.of = @ \cup {t}, !.subs = AddToSubs(@, name, t)]
      BY <2>1, Zenon DEF CountReactionIn
    <2>3. /\ c.start \in Periods(kind, found) /\ \A p \in Periods(kind, found) : p <= c.start
          /\ c.of = RowsIn(kind, c.start, found)
      BY <2>0, Zenon DEF ReactionsCounted
    <2>4. c.start \in Int /\ c.start < period
      BY <1>3, <1>9, <2>3
    <2>5. \A s \in found : AbsPeriod(kind, s) <= c.start
      BY <2>3 DEF Periods
    <2>6. LastBefore(kind, period, all) = c.of
      <3>1. c.start < AbsPeriod(kind, t)
        BY <1>1, <2>4
      <3>2. LastBefore(kind, AbsPeriod(kind, t), found \cup {t}) = RowsIn(kind, c.start, found)
        BY <1>0, <2>3, <2>4, <2>5, <3>1, RowsBefore
      <3> QED
        BY <1>1, <2>3, <3>2, Zenon
    <2>7. RowsIn(kind, period, found) = {}
      <3>1. \A s \in found : AbsPeriod(kind, s) # period
        BY <1>1, <2>3, <2>4 DEF Periods
      <3> QED
        BY <3>1 DEF RowsIn
    <2> QED
      BY <1>6, <2>2, <2>6, <2>7, Zenon
  <1> QED
    BY <1>7, <1>8, <1>9

-----------------------------------------------------------------------------
(* The jobs come to the rows in the order of time. *)

\* The next post is after those counted, and so not passed over.
LEMMA NextPost ==
    ASSUME Typed, PostOrder, phase = "posts", todo # {}
    PROVE  LET t == Earliest(todo)
           IN /\ t \in todo /\ t \in postRows /\ t \in Post /\ t # lastAt
              /\ PostsSeen \subseteq Post /\ \A s \in PostsSeen : s < t
              /\ \A u \in todo \ {t} : t < u
  <1>1. todo \subseteq postRows /\ postRows \subseteq Post /\ Post \subseteq Int /\ Now \in Int
    BY RowAssumption, NowAssumption DEF Typed, RowsToCount, TypeOK
  <1>2. PICK t \in todo : t = Earliest(todo) /\ \A u \in todo : t <= u
    <2>1. todo \subseteq Post
      BY <1>1
    <2> QED
      BY <2>1, EarliestOf
  <1>3. t \in postRows /\ t \in Post /\ t \in Int /\ PostsSeen \subseteq Post
    BY <1>1 DEF PostsSeen
  <1>4. \A s \in PostsSeen : s < t
    BY DEF PostOrder
  <1>5. t # lastAt
    <2>1. CASE PostsSeen = {}
      <3>1. lastAt = Now /\ t < Now
        BY <1>3, <2>1, NowAssumption DEF PostOrder
      <3> QED
        BY <1>1, <1>3, <3>1
    <2>2. CASE PostsSeen # {}
      <3>1. lastAt \in PostsSeen
        BY <2>2 DEF PostOrder
      <3>2. lastAt < t /\ lastAt \in Int
        BY <1>1, <1>3, <1>4, <3>1
      <3> QED
        BY <1>3, <3>2
    <2> QED
      BY <2>1, <2>2
  <1>6. \A u \in todo \ {t} : t < u
    BY <1>1, <1>2
  <1> QED
    BY <1>2, <1>3, <1>4, <1>5, <1>6

\* The next reaction is passed over if it is at 0 and the first, and else is after those counted.
LEMMA NextReaction ==
    ASSUME Typed, ReactionOrder, phase = "reactions", todo # {}
    PROVE  LET t == Earliest(todo)
           IN /\ t \in todo /\ t \in reactionRows /\ t \in Reaction
              /\ ReactionsSeen \subseteq Reaction /\ ReactionsSeen \subseteq reactionRows \ todo
              /\ \A s \in reactionRows \ todo : s < t
              /\ \A u \in todo \ {t} : t < u
              /\ t = lastAt <=> t \notin CountedReactions
              /\ t = lastAt => ReactionsSeen = {} /\ t = 0
  <1>1. todo \subseteq reactionRows /\ reactionRows \subseteq Reaction /\ Reaction \subseteq Int
    BY RowAssumption DEF Typed, RowsToCount, TypeOK
  <1>2. PICK t \in todo : t = Earliest(todo) /\ \A u \in todo : t <= u
    <2>1. todo \subseteq Reaction
      BY <1>1
    <2> QED
      BY <2>1, EarliestOf
  <1>3. t \in reactionRows /\ t \in Reaction /\ t \in Int
        /\ ReactionsSeen \subseteq reactionRows \ todo /\ ReactionsSeen \subseteq Reaction
    BY <1>1 DEF ReactionsSeen, CountedReactions
  <1>4. \A s \in reactionRows \ todo : s < t
    BY DEF ReactionOrder
  <1>5. \A u \in todo \ {t} : t < u
    BY <1>1, <1>2
  <1>6. (t = lastAt <=> t \notin CountedReactions) /\ (t = lastAt => ReactionsSeen = {} /\ t = 0)
    <2>1. CASE ReactionsSeen = {}
      <3>1. lastAt = 0 /\ reactionRows \ todo \subseteq {0}
        BY <2>1 DEF ReactionOrder
      <3>2. t # 0 => t \in CountedReactions
        BY <1>3 DEF CountedReactions
      <3>3. t = 0 => t \notin CountedReactions
        <4>1. t = 0 => \A s \in reactionRows : ~(s < 0)
          BY <1>1, <1>2, <3>1
        <4> QED
          BY <4>1 DEF CountedReactions
      <3> QED
        BY <2>1, <3>1, <3>2, <3>3
    <2>2. CASE ReactionsSeen # {}
      <3>1. lastAt \in ReactionsSeen /\ lastAt \in reactionRows
        BY <1>3, <2>2 DEF ReactionOrder
      <3>2. lastAt < t /\ lastAt \in Int
        BY <1>1, <1>3, <1>4, <3>1
      <3>3. t \in CountedReactions
        <4>1. t = 0 => lastAt < 0
          BY <3>2
        <4> QED
          BY <1>3, <3>1, <4>1 DEF CountedReactions
      <3> QED
        BY <1>3, <3>2, <3>3
    <2> QED
      BY <2>1, <2>2
  <1> QED
    BY <1>2, <1>3, <1>4, <1>5, <1>6

-----------------------------------------------------------------------------
(* The order and the counters, step by step. *)

CountsInv == PostOrder /\ ReactionOrder /\ PostCounters /\ ReactionCounters

\* The statistics given away are those of the kind of period counted.
LEMMA FlushedKeys ==
    ASSUME NEW kind \in Kinds, NEW d \in PostCounter, \A i \in ItemsOf(d.done) : i.key = <<"post", kind>>
    PROVE  \A i \in ItemsOf(FlushPosts(kind, d).done) : i.key = <<"post", kind>>
  <1> DEFINE diff == IF d.last = AbsPeriod(kind, d.cur - 1) THEN GetDiff(Cardinality(d.of), d.lastTotal)
                     ELSE <<1, 1>>
             item == StatItem("post", kind, d.cur, d.of, GroupsOf(kind, d.of), diff)
  <1>1. FlushPosts(kind, d) = [d EXCEPT !.done = Append(@, item), !.lastTotal = Cardinality(d.of), !.of = {}]
    BY Zenon DEF FlushPosts
  <1>2. item.key = <<"post", kind>>
    BY DEF StatItem
  <1>3. FlushPosts(kind, d) \in PostCounter
    BY FlushTypes
  <1> HIDE DEF item
  <1>4. FlushPosts(kind, d).done = Append(d.done, item) /\ d.done \in Seq(Items)
    BY <1>1 DEF PostCounter
  <1>5. item \in Items
    <2>1. Append(d.done, item) \in Seq(Items)
      BY <1>3, <1>4 DEF PostCounter
    <2>2. /\ Len(Append(d.done, item)) = Len(d.done) + 1 /\ Len(d.done) \in Nat
          /\ Append(d.done, item)[Len(d.done) + 1] = item
      BY <1>4
    <2>3. Len(d.done) + 1 \in 1 .. Len(Append(d.done, item))
      BY <2>2
    <2> QED
      BY <2>1, <2>2, <2>3
  <1>6. ItemsOf(FlushPosts(kind, d).done) = ItemsOf(d.done) \cup {item}
    BY <1>4, <1>5, ItemsOfSequences
  <1> QED
    BY <1>2, <1>6

LEMMA DoneKeys ==
    ASSUME NEW kind \in Kinds, NEW c \in PostCounter, NEW t \in Post,
           \A i \in ItemsOf(c.done) : i.key = <<"post", kind>>
    PROVE  \A i \in ItemsOf(CountPostIn(kind, c, t).done) : i.key = <<"post", kind>>
  <1> DEFINE period == AbsPeriod(kind, t)
  <1>1. period \in Int
    BY RowAssumption, PeriodNames
  <1> DEFINE opened == IF c.cur = 0 THEN [c EXCEPT !.last = 0, !.cur = period] ELSE c
             turned == IF period = opened.cur THEN opened
                       ELSE [FlushPosts(kind, opened) EXCEPT !.last = opened.cur, !.cur = period]
  <1>2. CountPostIn(kind, c, t) = [turned EXCEPT !.of = @ \cup {t}]
    BY Zenon DEF CountPostIn
  <1> HIDE DEF period
  <1>3. opened \in PostCounter /\ opened.done = c.done /\ opened.cur \in Int
    BY <1>1 DEF PostCounter
  <1> HIDE DEF opened
  <1>4. FlushPosts(kind, opened) \in PostCounter
    BY <1>3, FlushTypes
  <1>5. turned \in PostCounter /\ (turned.done = c.done \/ turned.done = FlushPosts(kind, opened).done)
    <2>1. \A d \in PostCounter : /\ [d EXCEPT !.last = opened.cur, !.cur = period] \in PostCounter
                                 /\ [d EXCEPT !.last = opened.cur, !.cur = period].done = d.done
      BY <1>1, <1>3 DEF PostCounter
    <2> QED
      BY <1>3, <1>4, <2>1, Zenon
  <1> HIDE DEF turned
  <1>6. CountPostIn(kind, c, t).done = turned.done
    BY <1>2, <1>5 DEF PostCounter
  <1>7. \A i \in ItemsOf(FlushPosts(kind, opened).done) : i.key = <<"post", kind>>
    BY <1>3, FlushedKeys
  <1> QED
    BY <1>5, <1>6, <1>7

LEMMA NewCounters ==
    ASSUME phase = "posts", posts = [k \in Kinds |-> NewPostCounter],
           reactions = [k \in Kinds |-> NewReactionCounter], todo = postRows, lastAt = Now
    PROVE  CountsInv
  <1>1. PostsSeen = {}
    BY DEF PostsSeen
  <1>2. PostOrder
    BY <1>1 DEF PostOrder
  <1>3. \A k \in Kinds : posts[k] = NewPostCounter /\ ItemsOf(posts[k].done) = {}
    BY ItemsOfSequences DEF NewPostCounter
  <1>4. PostCounters
    BY <1>1, <1>3 DEF PostCounters
  <1> QED
    BY <1>2, <1>4 DEF CountsInv, ReactionOrder, ReactionCounters

LEMMA CountPostCounts == Typed /\ CountsInv /\ CountPost => CountsInv'
  <1> SUFFICES ASSUME Typed, CountsInv, CountPost PROVE CountsInv'
    OBVIOUS
  <1>0. phase = "posts" /\ todo # {} /\ phase' = "posts" /\ UNCHANGED <<postRows, reactionRows, reactions>>
    BY DEF CountPost, rows
  <1>1. PostOrder /\ PostCounters /\ ReactionCounters
    BY DEF CountsInv
  <1>2. PICK t : t = Earliest(todo)
    OBVIOUS
  <1>3. /\ t \in todo /\ t \in postRows /\ t \in Post /\ t # lastAt
        /\ PostsSeen \subseteq Post /\ \A s \in PostsSeen : s < t
        /\ \A u \in todo \ {t} : t < u
    BY <1>0, <1>1, <1>2, NextPost
  <1>4. todo' = todo \ {t} /\ lastAt' = t /\ posts' = [k \in Kinds |-> CountPostIn(k, posts[k], t)]
    BY <1>2, <1>3 DEF CountPost
  <1>5. PostsSeen' = PostsSeen \cup {t}
    BY <1>0, <1>3, <1>4 DEF PostsSeen
  <1>6. PostOrder'
    <2>1. t \in Int /\ t <= t
      BY <1>3, RowAssumption
    <2>2. \A s \in PostsSeen : s <= t
      BY <1>3, <2>1, RowAssumption
    <2>3. \A s \in PostsSeen \cup {t}, u \in todo \ {t} : s < u
      BY <1>0, <1>1, <1>3 DEF PostOrder
    <2> QED
      BY <1>4, <1>5, <2>1, <2>2, <2>3 DEF PostOrder
  <1>7. ASSUME NEW k \in Kinds
        PROVE  /\ \A i \in ItemsOf(posts'[k].done) : i.key = <<"post", k>>
               /\ 0 \notin Periods(k, postRows') => PostsCounted(k, posts'[k], PostsSeen')
    <2>1. PICK c \in PostCounter : c = posts[k] /\ posts'[k] = CountPostIn(k, c, t)
      BY <1>4 DEF Typed, TypeOK
    <2>2. \A i \in ItemsOf(CountPostIn(k, c, t).done) : i.key = <<"post", k>>
      <3>1. \A i \in ItemsOf(c.done) : i.key = <<"post", k>>
        BY <1>0, <1>1, <2>1 DEF PostCounters
      <3> QED
        BY <1>3, <3>1, DoneKeys
    <2>3. ASSUME 0 \notin Periods(k, postRows)
          PROVE  PostsCounted(k, CountPostIn(k, c, t), PostsSeen \cup {t})
      <3>1. 0 \notin Periods(k, PostsSeen \cup {t})
        BY <1>3, <2>3 DEF Periods, PostsSeen
      <3>2. IF PostsSeen = {} THEN c = NewPostCounter ELSE PostsCounted(k, c, PostsSeen)
        BY <1>0, <1>1, <2>1, <2>3, Zenon DEF PostCounters
      <3> QED
        BY <1>3, <3>1, <3>2, CountPostCounted
    <2> QED
      BY <1>0, <1>5, <2>1, <2>2, <2>3
  <1>8. PostCounters'
    <2>1. PostsSeen' # {}
      BY <1>5
    <2> QED
      BY <1>7, <2>1, Zenon DEF PostCounters
  <1>9. ReactionOrder' /\ ReactionCounters'
    BY <1>0, <1>1 DEF ReactionOrder, ReactionCounters
  <1> QED
    BY <1>6, <1>8, <1>9 DEF CountsInv

LEMMA CountReactionCounts == Typed /\ CountsInv /\ CountReaction => CountsInv'
  <1> SUFFICES ASSUME Typed, CountsInv, CountReaction PROVE CountsInv'
    OBVIOUS
  <1>0. phase = "reactions" /\ todo # {} /\ phase' = "reactions" /\ UNCHANGED <<postRows, reactionRows>>
    BY DEF CountReaction, rows
  <1>1. ReactionOrder /\ ReactionCounters
    BY DEF CountsInv
  <1>2. PICK t : t = Earliest(todo)
    OBVIOUS
  <1>3. /\ t \in todo /\ t \in reactionRows /\ t \in Reaction
        /\ ReactionsSeen \subseteq Reaction /\ ReactionsSeen \subseteq reactionRows \ todo
        /\ \A s \in reactionRows \ todo : s < t
        /\ \A u \in todo \ {t} : t < u
        /\ t = lastAt <=> t \notin CountedReactions
        /\ t = lastAt => ReactionsSeen = {} /\ t = 0
    BY <1>0, <1>1, <1>2, NextReaction
  <1>4. todo' = todo \ {t} /\ CountedReactions' = CountedReactions
    BY <1>0, <1>2 DEF CountReaction, CountedReactions
  <1>5. reactionRows' \ todo' = (reactionRows \ todo) \cup {t}
    BY <1>0, <1>3, <1>4
  <1>6. \A s \in reactionRows' \ todo', u \in todo' : s < u
    BY <1>0, <1>1, <1>3, <1>4, <1>5 DEF ReactionOrder
  <1>7. PostOrder' /\ PostCounters'
    BY <1>0 DEF PostOrder, PostCounters
  <1>8. CASE t = lastAt
    <2>1. lastAt' = lastAt /\ reactions' = reactions
      BY <1>2, <1>8 DEF CountReaction
    <2>2. ReactionsSeen' = {}
      BY <1>3, <1>4, <1>8 DEF ReactionsSeen
    <2>3. lastAt = 0 /\ reactionRows' \ todo' \subseteq {0}
      BY <1>0, <1>1, <1>3, <1>5, <1>8 DEF ReactionOrder
    <2>4. ReactionOrder'
      BY <1>6, <2>1, <2>2, <2>3 DEF ReactionOrder
    <2>5. ReactionCounters'
      <3>1. \A k \in Kinds : reactions[k] = NewReactionCounter
        BY <1>0, <1>1, <1>3, <1>8, Zenon DEF ReactionCounters
      <3> QED
        BY <1>0, <2>1, <2>2, <3>1 DEF ReactionCounters
    <2> QED
      BY <1>7, <2>4, <2>5 DEF CountsInv
  <1>9. CASE t # lastAt
    <2>1. lastAt' = t /\ reactions' = [k \in Kinds |-> CountReactionIn(k, reactions[k], t)]
      BY <1>2, <1>9 DEF CountReaction
    <2>2. ReactionsSeen' = ReactionsSeen \cup {t}
      BY <1>3, <1>4, <1>9 DEF ReactionsSeen
    <2>3. ReactionOrder'
      <3>1. t \in Int /\ t <= t
        BY <1>3, RowAssumption
      <3>2. \A s \in ReactionsSeen : s < t /\ s \in Int
        BY <1>3, RowAssumption
      <3>3. \A s \in ReactionsSeen : s <= t
        BY <3>1, <3>2
      <3>4. ReactionsSeen' # {} /\ lastAt' \in ReactionsSeen' /\ \A s \in ReactionsSeen' : s <= lastAt'
        BY <2>1, <2>2, <3>1, <3>3
      <3> QED
        BY <1>6, <3>4, Zenon DEF ReactionOrder
    <2>4. ASSUME NEW k \in Kinds PROVE ReactionsCounted(k, reactions'[k], ReactionsSeen')
      <3>1. PICK c \in ReactionCounter : c = reactions[k] /\ reactions'[k] = CountReactionIn(k, c, t)
        BY <2>1 DEF Typed, TypeOK
      <3>2. IF ReactionsSeen = {} THEN c = NewReactionCounter ELSE ReactionsCounted(k, c, ReactionsSeen)
        BY <1>0, <1>1, <3>1, Zenon DEF ReactionCounters
      <3>3. \A s \in ReactionsSeen : s < t
        BY <1>3
      <3>4. ReactionsCounted(k, CountReactionIn(k, c, t), ReactionsSeen \cup {t})
        BY <1>3, <3>2, <3>3, CountReactionCounted
      <3> QED
        BY <2>2, <3>1, <3>4
    <2>5. ReactionCounters'
      <3>1. ReactionsSeen' # {}
        BY <2>2
      <3> QED
        BY <1>0, <2>4, <3>1 DEF ReactionCounters
    <2> QED
      BY <1>7, <2>3, <2>5 DEF CountsInv
  <1> QED
    BY <1>8, <1>9

LEMMA StepCounts == Typed /\ CountsInv /\ [Next]_vars => CountsInv'
  <1> SUFFICES ASSUME Typed, CountsInv, [Next]_vars PROVE CountsInv'
    OBVIOUS
  <1>1. CASE CountPost
    BY <1>1, CountPostCounts
  <1>2. CASE CountReaction
    BY <1>2, CountReactionCounts
  <1>3. CASE UNCHANGED vars
    BY <1>3, Zenon DEF vars, rows, CountsInv, PostOrder, ReactionOrder, PostCounters, ReactionCounters,
                PostsSeen, ReactionsSeen, CountedReactions
  <1>4. CASE Save
    <2>1. UNCHANGED <<postRows, reactionRows, todo, lastAt, posts, reactions>> /\ (phase' = phase \/ phase' = "failed")
      BY <1>4, Zenon DEF Save, rows, vars, tableVars
    <2>2. CountedReactions' = CountedReactions /\ PostsSeen' = PostsSeen /\ ReactionsSeen' = ReactionsSeen
      BY <2>1 DEF CountedReactions, PostsSeen, ReactionsSeen
    <2> QED
      BY <2>1, <2>2 DEF CountsInv, PostOrder, ReactionOrder, PostCounters, ReactionCounters
  <1>5. CASE EndPosts
    <2>1. phase = "posts" /\ phase' = "post_stats" /\ reactions' = reactions
      BY <1>5 DEF EndPosts
    <2> QED
      BY <2>1 DEF CountsInv, PostOrder, ReactionOrder, PostCounters, ReactionCounters
  <1>6. CASE PutPostStat
    <2>1. phase = "post_stats" /\ phase' = "post_stats" /\ reactions' = reactions
      BY <1>6 DEF PutPostStat
    <2> QED
      BY <2>1 DEF CountsInv, PostOrder, ReactionOrder, PostCounters, ReactionCounters
  <1>7. CASE BeginReactions
    <2>1. phase = "post_stats" /\ phase' = "reactions" /\ reactions' = reactions /\ todo' = reactionRows' /\ lastAt' = 0
      BY <1>7 DEF BeginReactions
    <2>2. ReactionsSeen' = {} /\ reactionRows' \ todo' = {}
      BY <2>1 DEF ReactionsSeen, CountedReactions
    <2>3. \A k \in Kinds : reactions'[k] = NewReactionCounter
      BY <2>1 DEF CountsInv, ReactionCounters
    <2> QED
      BY <2>1, <2>2, <2>3 DEF CountsInv, PostOrder, ReactionOrder, PostCounters, ReactionCounters
  <1>8. CASE EndReactions
    BY <1>8 DEF EndReactions, CountsInv, PostOrder, ReactionOrder, PostCounters, ReactionCounters
  <1>9. CASE FlushReactions
    <2>1. phase' \in {"done", "failed"}
      BY <1>9 DEF FlushReactions
    <2> QED
      BY <2>1 DEF CountsInv, PostOrder, ReactionOrder, PostCounters, ReactionCounters
  <1>10. CASE NewRows
    <2>1. /\ phase' = "posts" /\ posts' = [k \in Kinds |-> NewPostCounter]
          /\ reactions' = [k \in Kinds |-> NewReactionCounter] /\ todo' = postRows' /\ lastAt' = Now
      BY <1>10 DEF NewRows, BeginPosts
    <2>2. PostsSeen' = {}
      BY <2>1 DEF PostsSeen
    <2>3. \A k \in Kinds : posts'[k] = NewPostCounter /\ ItemsOf(posts'[k].done) = {}
      BY <2>1, ItemsOfSequences DEF NewPostCounter
    <2>4. \A k \in Kinds : reactions'[k] = NewReactionCounter
      BY <2>1
    <2> QED
      BY <2>1, <2>2, <2>3, <2>4 DEF CountsInv, PostOrder, ReactionOrder, PostCounters, ReactionCounters
  <1>11. CASE MissReactions
    <2>1. phase' = "unread"
      BY <1>11 DEF MissReactions
    <2> QED
      BY <2>1 DEF CountsInv, PostOrder, ReactionOrder, PostCounters, ReactionCounters
  <1> QED
    BY <1>1, <1>2, <1>3, <1>4, <1>5, <1>6, <1>7, <1>8, <1>9, <1>10, <1>11 DEF Next

-----------------------------------------------------------------------------
(* The items that an analysis brings forth have slots of their own. *)

\* x is one of them, now or later.
Due(x) ==
    \/ x.key = <<"post", "row">> /\ x.at \in postRows /\ x = RowItem("post", x.at)
    \/ \E k \in Kinds :
           /\ 0 \notin Periods(k, postRows)
           /\ x.key = <<"post", k>> /\ x.at \in Periods(k, postRows) /\ x = PostStat(k, x.at)
    \/ x.key = <<"reaction", "row">> /\ x.at \in CountedReactions /\ x = RowItem("reaction", x.at)
    \/ \E k \in Kinds :
           x.key = <<"reaction", k>> /\ x.at \in Periods(k, CountedReactions) /\ x = ReactionStat(k, x.at)

LEMMA RowSlot ==
    ASSUME NEW job, NEW t
    PROVE  RowItem(job, t).key = <<job, "row">> /\ RowItem(job, t).at = t
  BY DEF RowItem

LEMMA StatSlot ==
    ASSUME NEW job, NEW kind, NEW start, NEW of, NEW subs, NEW diff
    PROVE  /\ StatItem(job, kind, start, of, subs, diff).key = <<job, kind>>
           /\ StatItem(job, kind, start, of, subs, diff).at = start
  BY DEF StatItem

LEMMA PostStatSlot ==
    ASSUME NEW kind, NEW start
    PROVE  /\ PostStat(kind, start).key = <<"post", kind>> /\ PostStat(kind, start).at = start
           /\ PostStat(kind, start) = PostStatOf(kind, start, postRows)
  <1>1. PostStat(kind, start) = PostStatOf(kind, start, postRows)
    BY Zenon DEF PostStat, PostStatOf
  <1>2. PICK of, subs, diff : PostStat(kind, start) = StatItem("post", kind, start, of, subs, diff)
    BY Zenon DEF PostStat
  <1> QED
    BY <1>1, <1>2 DEF StatItem

LEMMA ReactionStatSlot ==
    ASSUME NEW kind, NEW start
    PROVE  /\ ReactionStat(kind, start).key = <<"reaction", kind>> /\ ReactionStat(kind, start).at = start
           /\ ReactionStat(kind, start) = ReactionStatOf(kind, start, CountedReactions)
  <1>1. ReactionStat(kind, start) = ReactionStatOf(kind, start, CountedReactions)
    BY Zenon DEF ReactionStat, ReactionStatOf, LastBefore
  <1>2. PICK of, subs, diff : ReactionStat(kind, start) = StatItem("reaction", kind, start, of, subs, diff)
    BY Zenon DEF ReactionStat
  <1> QED
    BY <1>1, <1>2 DEF StatItem

LEMMA DueItems ==
    /\ \A t \in postRows : Due(RowItem("post", t))
    /\ \A t \in CountedReactions : Due(RowItem("reaction", t))
    /\ \A k \in ExactKinds : \A s \in Periods(k, postRows) : Due(PostStat(k, s))
    /\ \A k \in Kinds : \A s \in Periods(k, CountedReactions) : Due(ReactionStat(k, s))
  <1>1. ASSUME NEW t \in postRows PROVE Due(RowItem("post", t))
    BY RowSlot, Zenon DEF Due
  <1>2. ASSUME NEW t \in CountedReactions PROVE Due(RowItem("reaction", t))
    BY RowSlot, Zenon DEF Due
  <1>3. ASSUME NEW k \in ExactKinds, NEW s \in Periods(k, postRows) PROVE Due(PostStat(k, s))
    BY PostStatSlot, Zenon DEF Due, ExactKinds
  <1>4. ASSUME NEW k \in Kinds, NEW s \in Periods(k, CountedReactions) PROVE Due(ReactionStat(k, s))
    BY ReactionStatSlot, Zenon DEF Due
  <1> QED
    BY <1>1, <1>2, <1>3, <1>4

LEMMA KindNames == \A k \in Kinds : k # "row"
  BY DEF Kinds

LEMMA DueSlots ==
    ASSUME NEW g, Due(g)
    PROVE  /\ \A h : Due(h) /\ Slot(g) = Slot(h) => g = h
           /\ \A i : Slot(g) = Slot(i) => ~Exempt(i)
           /\ Known(g)
  <1>1. ASSUME NEW h, Due(h), Slot(g) = Slot(h) PROVE g = h
    <2>1. g.key = h.key /\ g.at = h.at
      BY <1>1 DEF Slot
    <2>2. CASE g.key = <<"post", "row">> /\ g = RowItem("post", g.at)
      <3>1. h = RowItem("post", h.at)
        BY <1>1, <2>1, <2>2, KindNames DEF Due
      <3> QED
        BY <2>1, <2>2, <3>1
    <2>3. CASE g.key = <<"reaction", "row">> /\ g = RowItem("reaction", g.at)
      <3>1. h = RowItem("reaction", h.at)
        BY <1>1, <2>1, <2>3, KindNames DEF Due
      <3> QED
        BY <2>1, <2>3, <3>1
    <2>4. CASE \E k \in Kinds : g.key = <<"post", k>> /\ g = PostStat(k, g.at)
      <3>1. PICK k \in Kinds : g.key = <<"post", k>> /\ g = PostStat(k, g.at)
        BY <2>4
      <3>2. h = PostStat(k, h.at)
        BY <1>1, <2>1, <3>1, KindNames DEF Due
      <3> QED
        BY <2>1, <3>1, <3>2
    <2>5. CASE \E k \in Kinds : g.key = <<"reaction", k>> /\ g = ReactionStat(k, g.at)
      <3>1. PICK k \in Kinds : g.key = <<"reaction", k>> /\ g = ReactionStat(k, g.at)
        BY <2>5
      <3>2. h = ReactionStat(k, h.at)
        BY <1>1, <2>1, <3>1, KindNames DEF Due
      <3> QED
        BY <2>1, <3>1, <3>2
    <2> QED
      BY <2>2, <2>3, <2>4, <2>5 DEF Due
  <1>2. ASSUME NEW i, Slot(g) = Slot(i), Exempt(i) PROVE FALSE
    <2>1. g.key = i.key /\ g.at = i.at
      BY <1>2 DEF Slot
    <2>2. PICK l \in Kinds : g.key = <<"post", l>> /\ (g.at = 0 \/ 0 \in Periods(l, postRows))
      BY <1>2, <2>1 DEF Exempt
    <2>3. 0 \notin Periods(l, postRows) /\ g.at \in Periods(l, postRows)
      BY <2>2, KindNames DEF Due
    <2> QED
      BY <2>2, <2>3
  <1>3. Known(g)
    BY DEF Due, Known
  <1> QED
    BY <1>1, <1>2, <1>3

LEMMA ProducedDue == \A g \in Produced : Due(g)
  <1>1. ASSUME NEW g \in PostItems PROVE Due(g)
    <2>1. PostsSeen \subseteq postRows
      BY DEF PostsSeen
    <2>2. g \in PostStats => Due(g)
      BY DueItems, Zenon DEF PostStats
    <2>3. g \in PostStats \/ \E t \in postRows : g = RowItem("post", t)
      BY <2>1, Zenon DEF PostItems
    <2> QED
      BY <2>2, <2>3, DueItems
  <1>2. \A k \in Kinds : \A s \in Closed(k) : s \in Periods(k, CountedReactions)
    BY DEF Closed, ReactionsSeen, Periods
  <1>3. \A t \in ReactionsSeen : t \in CountedReactions
    BY DEF ReactionsSeen
  <1>4. \A g \in ReactionStats : Due(g)
    BY <1>2, DueItems, Zenon DEF ReactionStats
  <1>5. ASSUME NEW g \in ReactionItems PROVE Due(g)
    <2>1. g \in ReactionStats \/ \E t \in CountedReactions : g = RowItem("reaction", t)
      <3>1. CASE phase \in {"posts", "post_stats"}
        BY <3>1 DEF ReactionItems
      <3>2. CASE phase \notin {"posts", "post_stats"} /\ phase = "reactions"
        <4>1. g \in {RowItem("reaction", t) : t \in ReactionsSeen} \cup ReactionStats
          BY <3>2 DEF ReactionItems
        <4> QED
          BY <1>3, <4>1
      <3>3. CASE phase \notin {"posts", "post_stats"} /\ phase # "reactions"
        <4>1. g \in {RowItem("reaction", t) : t \in CountedReactions} \cup ReactionStats
          BY <3>3 DEF ReactionItems
        <4> QED
          BY <4>1
      <3> QED
        BY <3>1, <3>2, <3>3
    <2> QED
      BY <1>4, <2>1, DueItems, Zenon
  <1> QED
    BY <1>1, <1>5 DEF Produced

-----------------------------------------------------------------------------
(* Writing to the table. *)

TableInv == AllKept /\ TableKnown /\ Channels /\ Lines

LEMMA SlotsOfProduced ==
    /\ \A g, h \in Produced : Slot(g) = Slot(h) => g = h
    /\ \A g, i : g \in Produced /\ Slot(g) = Slot(i) => ~Exempt(i)
    /\ \A g \in Produced : Known(g)
  <1>1. ASSUME NEW g \in Produced
        PROVE  /\ \A h \in Produced : Slot(g) = Slot(h) => g = h
               /\ \A i : Slot(g) = Slot(i) => ~Exempt(i)
               /\ Known(g)
    <2>1. Due(g)
      BY ProducedDue
    <2> QED
      BY <2>1, ProducedDue, DueSlots
  <1> QED
    BY <1>1, Zenon

\* What a call of the table writes and what it loses.
LEMMA BatchWritten ==
    ASSUME NEW seq, AddFBStats(seq)
    PROVE  \E written, missed :
               /\ written \cup missed = ItemsOf(seq) /\ table' = Put(table, written)
               /\ unprocessed' = unprocessed \cup missed /\ ignored' = ignored
  <1>1. ignored' = ignored
    BY DEF AddFBStats
  <1>2. CASE table' = Put(table, ItemsOf(seq)) /\ UNCHANGED unprocessed
    <2>1. ItemsOf(seq) \cup {} = ItemsOf(seq) /\ unprocessed' = unprocessed \cup {}
      BY <1>2
    <2> QED
      BY <1>1, <1>2, <2>1, Zenon
  <1>3. CASE \E left \in SUBSET ItemsOf(seq) :
                 table' = Put(table, ItemsOf(seq) \ left) /\ unprocessed' = unprocessed \cup left
    <2>1. PICK left \in SUBSET ItemsOf(seq) :
              table' = Put(table, ItemsOf(seq) \ left) /\ unprocessed' = unprocessed \cup left
      BY <1>3
    <2>2. (ItemsOf(seq) \ left) \cup left = ItemsOf(seq)
      BY <2>1
    <2> QED
      BY <1>1, <2>1, <2>2, Zenon
  <1> QED
    BY <1>2, <1>3, Zenon DEF AddFBStats

LEMMA ItemWritten ==
    ASSUME NEW item, AddFBStat(item)
    PROVE  \E written, missed :
               /\ written \cup missed = {item} /\ table' = Put(table, written)
               /\ ignored' = ignored \cup missed /\ unprocessed' = unprocessed
  <1>1. unprocessed' = unprocessed
    BY DEF AddFBStat
  <1>2. CASE table' = Put(table, {item}) /\ UNCHANGED ignored
    <2>1. {item} \cup {} = {item} /\ ignored' = ignored \cup {}
      BY <1>2
    <2> QED
      BY <1>1, <1>2, <2>1, Zenon
  <1>3. CASE ignored' = ignored \cup {item} /\ UNCHANGED table
    <2>1. Put(table, {}) = table
      BY DEF Put
    <2>2. {} \cup {item} = {item} /\ table' = Put(table, {})
      BY <1>3, <2>1
    <2> QED
      BY <1>1, <1>3, <2>2, Zenon
  <1> QED
    BY <1>2, <1>3, Zenon DEF AddFBStat

\* After it nothing has been misplaced, and the table has no item of another kind.
LEMMA WriteStep ==
    ASSUME AllKept, TableKnown, phase # "failed",
           NEW written, NEW missed, NEW rest, NEW stored,
           written \cup missed \cup rest = Way, stored = Put(table, written)
    PROVE  /\ Kept(Produced, stored, (ignored \cup unprocessed) \cup missed, rest)
           /\ \A i \in stored : Known(i) \/ Exempt(i)
  <1>1. Kept(Produced, table, ignored \cup unprocessed, Way)
    BY DEF AllKept
  <1>2. written \subseteq Way /\ missed \subseteq Way /\ rest \subseteq Way /\ Way \subseteq written \cup missed \cup rest
    OBVIOUS
  <1>3. PICK p, l, w : p = Produced /\ l = ignored \cup unprocessed /\ w = Way
    OBVIOUS
  <1>4. Kept(p, Put(table, written), l \cup missed, rest)
    <2>1. Kept(p, table, l, w) /\ written \subseteq w /\ missed \subseteq w /\ rest \subseteq w
          /\ w \subseteq written \cup missed \cup rest
      BY <1>1, <1>2, <1>3, Zenon
    <2>2. \A g, h \in p : Slot(g) = Slot(h) => g = h
      BY <1>3, SlotsOfProduced, Zenon
    <2>3. \A g, i : g \in p /\ Slot(g) = Slot(i) => ~Exempt(i)
      BY <1>3, SlotsOfProduced, Zenon
    <2> QED
      BY <2>1, <2>2, <2>3, WriteKeeps
  <1>5. ASSUME NEW i \in stored PROVE Known(i) \/ Exempt(i)
    <2>1. CASE i \in written
      <3>1. i \in Produced \/ Exempt(i)
        BY <1>1, <1>2, <2>1 DEF Kept
      <3> QED
        BY <3>1, SlotsOfProduced
    <2>2. CASE i \in table
      BY <2>2 DEF TableKnown
    <2> QED
      BY <2>1, <2>2, PutMembers, Zenon
  <1> QED
    BY <1>3, <1>4, <1>5, Zenon

-----------------------------------------------------------------------------
(* From a step to the invariant. *)

LEMMA SameExempt ==
    ASSUME postRows' = postRows
    PROVE  \A i : Exempt(i)' <=> Exempt(i)
  BY DEF Exempt

LEMMA SameKnown ==
    ASSUME postRows' = postRows, CountedReactions' = CountedReactions
    PROVE  \A i : Known(i)' <=> Known(i)
  BY DEF Known

LEMMA KeptPrimed ==
    ASSUME postRows' = postRows, NEW p, NEW s, NEW l, NEW w, Kept(p, s, l, w),
           p = Produced', s = table', l = ignored' \cup unprocessed', w = Way'
    PROVE  AllKept'
  <1>1. \A i \in l \cup w : i \in p \/ Exempt(i)'
    BY SameExempt, Zenon DEF Kept
  <1>2. p \subseteq s \cup l \cup w
    BY Zenon DEF Kept
  <1>3. \A i \in s, g \in p : Slot(i) = Slot(g) => i = g \/ g \in l \cup w
    BY Zenon DEF Kept
  <1> QED
    BY <1>1, <1>2, <1>3, Zenon DEF AllKept, Kept

LEMMA KnownPrimed ==
    ASSUME postRows' = postRows, CountedReactions' = CountedReactions,
           \A i \in table' : Known(i) \/ Exempt(i)
    PROVE  TableKnown'
  BY SameKnown, SameExempt, Zenon DEF TableKnown

\* An item that is new to an analysis has a slot of its own.
LEMMA NewSlot ==
    ASSUME AllKept, phase # "failed", NEW x, Due(x), x \notin Produced
    PROVE  \A i \in Way : Slot(i) # Slot(x)
  <1> SUFFICES ASSUME NEW i \in Way, Slot(x) = Slot(i) PROVE FALSE
    BY Zenon
  <1>1. i \in Produced \/ Exempt(i)
    BY DEF AllKept, Kept
  <1>2. ~Exempt(i)
    BY DueSlots
  <1>3. i = x
    BY <1>1, <1>2, ProducedDue, DueSlots
  <1> QED
    BY <1>1, <1>2, <1>3

-----------------------------------------------------------------------------
(* The table, step by step: writing. *)

\* What an analysis has brought forth does not change when something is written.
LEMMA SameProduced ==
    ASSUME UNCHANGED <<postRows, reactionRows, todo, reactions>>,
           \/ phase' = phase
           \/ phase = "reaction_stats" /\ phase' = "done"
    PROVE  Produced' = Produced /\ CountedReactions' = CountedReactions
  <1>1. CountedReactions' = CountedReactions
    BY DEF CountedReactions
  <1>2. PostsSeen' = PostsSeen /\ ReactionsSeen' = ReactionsSeen
    BY <1>1 DEF PostsSeen, ReactionsSeen
  <1>3. \A k, s : PostStat(k, s)' = PostStat(k, s)
    BY Zenon DEF PostStat
  <1>4. \A k, s : ReactionStat(k, s)' = ReactionStat(k, s)
    BY <1>1, Zenon DEF ReactionStat
  <1>5. PostStats' = PostStats
    <2>1. \A x : x \in PostStats' <=> \E k \in ExactKinds : \E s \in Periods(k, postRows) : x = PostStat(k, s)
      BY <1>3 DEF PostStats, ExactKinds
    <2>2. \A x : x \in PostStats <=> \E k \in ExactKinds : \E s \in Periods(k, postRows) : x = PostStat(k, s)
      BY DEF PostStats
    <2> QED
      BY <2>1, <2>2
  <1>6. PostItems' = PostItems
    BY <1>2, <1>5 DEF PostItems
  <1>7. \A k : Closed(k)' = Closed(k)
    BY <1>1, <1>2 DEF Closed
  <1>8. ReactionStats' = ReactionStats
    <2>1. \A x : x \in ReactionStats' <=> \E k \in Kinds : \E s \in Closed(k) : x = ReactionStat(k, s)
      BY <1>4, <1>7 DEF ReactionStats
    <2>2. \A x : x \in ReactionStats <=> \E k \in Kinds : \E s \in Closed(k) : x = ReactionStat(k, s)
      BY DEF ReactionStats
    <2> QED
      BY <2>1, <2>2
  <1>9. ReactionItems' = ReactionItems
    BY <1>1, <1>2, <1>8 DEF ReactionItems
  <1> QED
    BY <1>1, <1>6, <1>9 DEF Produced

LEMMA SaveTable == Typed /\ TableInv /\ Save => TableInv'
  <1> SUFFICES ASSUME Typed, TableInv, Save PROVE TableInv'
    OBVIOUS
  <1> DEFINE full == Append(batch, Head(pending))
  <1>1. /\ phase \in Saving /\ phase # "failed" /\ phase # "post_stats" /\ pending # <<>>
        /\ UNCHANGED <<postRows, reactionRows, todo, reactions>>
        /\ pending' = Tail(pending)
    BY DEF Save, Saving, rows
  <1>2. pending \in Seq(Items) /\ batch \in Seq(Items) /\ Head(pending) \in Items /\ Tail(pending) \in Seq(Items)
    BY <1>1 DEF Typed, TypeOK
  <1>3. /\ ItemsOf(pending) = {Head(pending)} \cup ItemsOf(Tail(pending))
        /\ ItemsOf(full) = ItemsOf(batch) \cup {Head(pending)}
    BY <1>1, <1>2, ItemsOfSequences
  <1>4. /\ Way = ItemsOf(batch) \cup ItemsOf(pending)
        /\ Way = ItemsOf(full) \cup ItemsOf(Tail(pending))
    <2>1. Way = ItemsOf(batch) \cup ItemsOf(pending)
      BY <1>1 DEF Way
    <2> QED
      BY <1>3, <2>1
  <1>5. Distinct(batch) /\ Distinct(pending) /\ Apart(batch, pending)
    BY <1>1 DEF TableInv, Lines
  <1>6. /\ Distinct(full) /\ Distinct(Tail(pending)) /\ Apart(full, Tail(pending))
    <2>1. Distinct(Tail(pending)) /\ \A i \in ItemsOf(Tail(pending)) : Slot(i) # Slot(Head(pending))
      BY <1>1, <1>2, <1>5, DistinctSequences
    <2>2. \A i \in ItemsOf(batch) : Slot(i) # Slot(Head(pending))
      BY <1>3, <1>5 DEF Apart
    <2>3. Distinct(full)
      BY <1>2, <1>5, <2>2, DistinctSequences
    <2>4. Apart(full, Tail(pending))
      BY <1>3, <1>5, <2>1, Zenon DEF Apart
    <2> QED
      BY <2>1, <2>3, <2>4
  <1> HIDE DEF full
  <1>7. ASSUME phase' = phase, NEW p \in Seq(Items), batch' = p, Distinct(p), Apart(p, Tail(pending)),
               NEW written, NEW missed, written \cup missed \cup ItemsOf(p) = ItemsOf(full),
               table' = Put(table, written), unprocessed' = unprocessed \cup missed, ignored' = ignored
        PROVE  TableInv'
    <2>1. Way' = ItemsOf(p) \cup ItemsOf(Tail(pending))
      BY <1>1, <1>7 DEF Way
    <2>2. written \cup missed \cup (ItemsOf(p) \cup ItemsOf(Tail(pending))) = Way
      BY <1>4, <1>7
    <2>3. Produced' = Produced /\ CountedReactions' = CountedReactions
      BY <1>1, <1>7, SameProduced
    <2>4. PICK rest : rest = ItemsOf(p) \cup ItemsOf(Tail(pending))
      OBVIOUS
    <2>5. /\ Kept(Produced, table', (ignored \cup unprocessed) \cup missed, rest)
          /\ \A i \in table' : Known(i) \/ Exempt(i)
      BY <1>1, <1>7, <2>2, <2>4, WriteStep DEF TableInv
    <2>6. ignored' \cup unprocessed' = (ignored \cup unprocessed) \cup missed
      BY <1>7
    <2>7. AllKept'
      BY <1>1, <2>1, <2>3, <2>4, <2>5, <2>6, KeptPrimed, Zenon
    <2>8. TableKnown'
      BY <1>1, <2>3, <2>5, KnownPrimed
    <2>9. Channels'
      <3>1. Way' \subseteq Way /\ missed \subseteq Way
        BY <2>1, <2>2
      <3>2. \A i \in Way : ~IsPostStat(i)
        BY <1>1 DEF TableInv, Channels
      <3>3. \A i : IsPostStat(i)' <=> IsPostStat(i)
        BY DEF IsPostStat
      <3> QED
        BY <1>1, <1>7, <3>1, <3>2, <3>3, Zenon DEF TableInv, Channels
    <2>10. Lines'
      BY <1>1, <1>6, <1>7 DEF Lines
    <2> QED
      BY <2>7, <2>8, <2>9, <2>10 DEF TableInv
  <1>8. CASE batch' = full /\ UNCHANGED <<phase, tableVars>>
    <2>1. full \in Seq(Items)
      BY <1>2 DEF full
    <2>2. {} \cup {} \cup ItemsOf(full) = ItemsOf(full) /\ unprocessed' = unprocessed \cup {} /\ ignored' = ignored
      BY <1>8 DEF tableVars
    <2>3. table' = Put(table, {})
      BY <1>8 DEF tableVars, Put
    <2> QED
      BY <1>6, <1>7, <1>8, <2>1, <2>2, <2>3, Zenon
  <1>9. CASE AddFBStats(full) /\ batch' = <<>> /\ UNCHANGED phase
    <2>1. PICK written, missed :
               /\ written \cup missed = ItemsOf(full) /\ table' = Put(table, written)
               /\ unprocessed' = unprocessed \cup missed /\ ignored' = ignored
      BY <1>9, BatchWritten
    <2>2. <<>> \in Seq(Items) /\ ItemsOf(<<>>) = {} /\ Distinct(<<>>)
      BY ItemsOfSequences, DistinctSequences
    <2>3. Apart(<<>>, Tail(pending))
      BY <2>2 DEF Apart
    <2>4. written \cup missed \cup ItemsOf(<<>>) = ItemsOf(full)
      BY <2>1, <2>2
    <2> QED
      BY <1>7, <1>9, <2>1, <2>2, <2>3, <2>4, Zenon
  <1>10. CASE batch' = full /\ phase' = "failed" /\ UNCHANGED tableVars
    <2>1. CountedReactions' = CountedReactions
      BY <1>1 DEF CountedReactions
    <2>2. TableKnown'
      BY <1>1, <1>10, <2>1, KnownPrimed DEF TableInv, TableKnown, tableVars
    <2>3. \A i : IsPostStat(i)' <=> IsPostStat(i)
      BY DEF IsPostStat
    <2> QED
      BY <1>10, <2>2, <2>3 DEF TableInv, AllKept, Channels, Lines, Saving, tableVars
  <1> QED
    BY <1>8, <1>9, <1>10, Zenon DEF Save, full

LEMMA PutPostStatTable == Typed /\ TableInv /\ PutPostStat => TableInv'
  <1> SUFFICES ASSUME Typed, TableInv, PutPostStat PROVE TableInv'
    OBVIOUS
  <1>1. /\ phase = "post_stats" /\ phase' = phase /\ pending # <<>>
        /\ UNCHANGED <<postRows, reactionRows, todo, reactions, batch>>
        /\ pending' = Tail(pending) /\ AddFBStat(Head(pending))
    BY DEF PutPostStat, rows
  <1>2. pending \in Seq(Items)
    BY DEF Typed, TypeOK
  <1>3. ItemsOf(pending) = {Head(pending)} \cup ItemsOf(Tail(pending))
    BY <1>1, <1>2, ItemsOfSequences
  <1>4. Way = ItemsOf(pending) /\ Way' = ItemsOf(Tail(pending))
    BY <1>1 DEF Way, Saving
  <1>5. PICK written, missed :
            /\ written \cup missed = {Head(pending)} /\ table' = Put(table, written)
            /\ ignored' = ignored \cup missed /\ unprocessed' = unprocessed
    BY <1>1, ItemWritten
  <1>6. Produced' = Produced /\ CountedReactions' = CountedReactions
    BY <1>1, SameProduced
  <1>7. PICK rest : rest = ItemsOf(Tail(pending))
    OBVIOUS
  <1>8. /\ Kept(Produced, table', (ignored \cup unprocessed) \cup missed, rest)
        /\ \A i \in table' : Known(i) \/ Exempt(i)
    <2>1. written \cup missed \cup rest = Way
      BY <1>3, <1>4, <1>5, <1>7
    <2> QED
      BY <1>1, <1>5, <2>1, WriteStep DEF TableInv
  <1>9. AllKept'
    <2>1. ignored' \cup unprocessed' = (ignored \cup unprocessed) \cup missed
      BY <1>5
    <2> QED
      BY <1>1, <1>4, <1>6, <1>7, <1>8, <2>1, KeptPrimed, Zenon
  <1>10. TableKnown'
    BY <1>1, <1>6, <1>8, KnownPrimed
  <1>11. Channels'
    <2>1. \A i \in Way : IsPostStat(i)
      BY <1>1 DEF TableInv, Channels
    <2>2. Way' \subseteq Way /\ missed \subseteq Way
      BY <1>3, <1>4, <1>5
    <2>3. \A i : IsPostStat(i)' <=> IsPostStat(i)
      BY DEF IsPostStat
    <2>4. \A i \in missed : i.key[1] = "post"
      BY <2>1, <2>2 DEF IsPostStat
    <2>5. /\ \A i \in ignored' : i.key[1] = "post"
          /\ \A i \in unprocessed' : ~IsPostStat(i)
      BY <1>5, <2>4 DEF TableInv, Channels
    <2> QED
      BY <1>1, <2>1, <2>2, <2>3, <2>5 DEF Channels, Saving
  <1>12. Lines'
    BY <1>1 DEF TableInv, Lines, Saving
  <1> QED
    BY <1>9, <1>10, <1>11, <1>12 DEF TableInv

LEMMA FlushReactionsTable == Typed /\ TableInv /\ FlushReactions => TableInv'
  <1> SUFFICES ASSUME Typed, TableInv, FlushReactions PROVE TableInv'
    OBVIOUS
  <1>1. /\ phase = "reaction_stats" /\ pending = <<>>
        /\ UNCHANGED <<postRows, reactionRows, todo, reactions, batch, pending>>
    BY DEF FlushReactions, rows
  <1>2. CountedReactions' = CountedReactions
    BY <1>1 DEF CountedReactions
  <1>3. \A i : IsPostStat(i)' <=> IsPostStat(i)
    BY DEF IsPostStat
  <1>4. CASE AddFBStats(batch) /\ phase' = "done"
    <2>1. PICK written, missed :
              /\ written \cup missed = ItemsOf(batch) /\ table' = Put(table, written)
              /\ unprocessed' = unprocessed \cup missed /\ ignored' = ignored
      BY <1>4, BatchWritten
    <2>2. Way = ItemsOf(batch) /\ Way' = {}
      <3>1. ItemsOf(<<>>) = {}
        BY ItemsOfSequences
      <3> QED
        BY <1>1, <1>4, <3>1 DEF Way, Saving
    <2>3. Produced' = Produced
      BY <1>1, <1>4, SameProduced
    <2>4. /\ Kept(Produced, table', (ignored \cup unprocessed) \cup missed, {})
          /\ \A i \in table' : Known(i) \/ Exempt(i)
      <3>1. written \cup missed \cup {} = Way
        BY <2>1, <2>2
      <3> QED
        BY <1>1, <2>1, <3>1, WriteStep DEF TableInv
    <2>5. AllKept'
      <3>1. ignored' \cup unprocessed' = (ignored \cup unprocessed) \cup missed
        BY <2>1
      <3> QED
        BY <1>1, <2>2, <2>3, <2>4, <3>1, KeptPrimed, Zenon
    <2>6. TableKnown'
      BY <1>1, <1>2, <2>4, KnownPrimed
    <2>7. Channels'
      <3>1. \A i \in missed : ~IsPostStat(i)
        BY <1>1, <2>1, <2>2 DEF TableInv, Channels, Saving
      <3> QED
        BY <1>3, <1>4, <2>1, <2>2, <3>1 DEF TableInv, Channels, Saving
    <2>8. Lines'
      BY <1>1, <1>4 DEF TableInv, Lines, Saving
    <2> QED
      BY <2>5, <2>6, <2>7, <2>8 DEF TableInv
  <1>5. CASE phase' = "failed" /\ UNCHANGED tableVars
    <2>1. TableKnown'
      BY <1>1, <1>2, <1>5, KnownPrimed DEF TableInv, TableKnown, tableVars
    <2> QED
      BY <1>3, <1>5, <2>1 DEF TableInv, AllKept, Channels, Lines, Saving, tableVars
  <1> QED
    BY <1>4, <1>5 DEF FlushReactions

\* More rows are those that were known, and others.
LEMMA MoreKnown ==
    ASSUME postRows \subseteq postRows', reactionRows \subseteq reactionRows', TableKnown, table' = table
    PROVE  TableKnown'
  <1>1. CountedReactions \subseteq CountedReactions'
    BY DEF CountedReactions
  <1>2. \A k : Periods(k, postRows) \subseteq Periods(k, postRows')
               /\ Periods(k, CountedReactions) \subseteq Periods(k, CountedReactions')
    BY <1>1 DEF Periods
  <1>3. ASSUME NEW i, Known(i) PROVE Known(i)'
    BY <1>1, <1>2, <1>3 DEF Known
  <1>4. ASSUME NEW i, Exempt(i) PROVE Exempt(i)'
    BY <1>2, <1>4 DEF Exempt
  <1> QED
    BY <1>3, <1>4, Zenon DEF TableKnown

LEMMA BeginReactionsTable == Typed /\ TableInv /\ (BeginReactions \/ MissReactions) => TableInv'
  <1> SUFFICES ASSUME Typed, TableInv, BeginReactions \/ MissReactions PROVE TableInv'
    OBVIOUS
  <1>1. /\ phase = "post_stats" /\ pending = <<>> /\ pending' = <<>> /\ batch' = <<>>
        /\ (phase' = "reactions" /\ todo' = reactionRows') \/ phase' = "unread"
        /\ reactionRows \subseteq reactionRows'
        /\ UNCHANGED <<postRows, table, ignored, unprocessed>>
    BY DEF BeginReactions, MissReactions, More, tableVars
  <1>2. ItemsOf(<<>>) = {} /\ Distinct(<<>>)
    BY ItemsOfSequences, DistinctSequences
  <1>3. Way = {} /\ Way' = {}
    BY <1>1, <1>2 DEF Way, Saving
  <1>4. PostItems' = PostItems
    <2>1. PostStats' = PostStats
      BY <1>1 DEF PostStats, PostStat, ExactKinds
    <2> QED
      BY <1>1, <2>1 DEF PostItems
  <1>5. ReactionItems = {} /\ ReactionItems' = {}
    <2>1. CASE phase' = "unread"
      BY <1>1, <2>1 DEF ReactionItems
    <2>2. CASE phase' = "reactions" /\ todo' = reactionRows'
      <3>1. ReactionsSeen' = {}
        BY <2>2 DEF ReactionsSeen, CountedReactions
      <3>2. \A k : Closed(k)' = {}
        BY <2>2, <3>1 DEF Closed, Periods
      <3>3. ReactionStats' = {}
        BY <3>2 DEF ReactionStats
      <3> QED
        BY <1>1, <2>2, <3>1, <3>3 DEF ReactionItems
    <2> QED
      BY <1>1, <2>1, <2>2
  <1>6. Produced' = Produced
    BY <1>4, <1>5 DEF Produced
  <1>7. AllKept'
    <2>1. Kept(Produced, table, ignored \cup unprocessed, {})
      BY <1>1, <1>3 DEF TableInv, AllKept
    <2> QED
      BY <1>1, <1>3, <1>6, <2>1, KeptPrimed, Zenon
  <1>8. TableKnown'
    BY <1>1, MoreKnown DEF TableInv
  <1>9. Channels'
    <2>1. \A i : IsPostStat(i)' <=> IsPostStat(i)
      BY DEF IsPostStat
    <2> QED
      BY <1>1, <1>3, <2>1 DEF TableInv, Channels
  <1>10. Lines'
    <2>1. Apart(<<>>, <<>>)
      BY <1>2 DEF Apart
    <2> QED
      BY <1>1, <1>2, <2>1, Zenon DEF Lines
  <1> QED
    BY <1>7, <1>8, <1>9, <1>10 DEF TableInv

LEMMA NewRowsTable == Typed /\ TableInv /\ NewRows => TableInv'
  <1> SUFFICES ASSUME Typed, TableInv, NewRows PROVE TableInv'
    OBVIOUS
  <1>1. /\ phase' = "posts" /\ pending' = <<>> /\ batch' = <<>> /\ todo' = postRows'
        /\ postRows \subseteq postRows' /\ reactionRows' = reactionRows
        /\ table' = table /\ ignored' = {} /\ unprocessed' = {}
    BY DEF NewRows, BeginPosts, More
  <1>2. ItemsOf(<<>>) = {} /\ Distinct(<<>>)
    BY ItemsOfSequences, DistinctSequences
  <1>3. Way' = {}
    BY <1>1, <1>2 DEF Way, Saving
  <1>4. Produced' = {}
    <2>1. PostItems' = {}
      BY <1>1 DEF PostItems, PostsSeen
    <2>2. ReactionItems' = {}
      BY <1>1 DEF ReactionItems
    <2> QED
      BY <2>1, <2>2 DEF Produced
  <1>5. AllKept'
    BY <1>1, <1>3, <1>4 DEF AllKept, Kept
  <1>6. TableKnown'
    BY <1>1, MoreKnown DEF TableInv
  <1>7. Channels'
    BY <1>1, <1>3 DEF Channels
  <1>8. Lines'
    <2>1. Apart(<<>>, <<>>)
      BY <1>2 DEF Apart
    <2> QED
      BY <1>1, <1>2, <2>1, Zenon DEF Lines
  <1> QED
    BY <1>5, <1>6, <1>7, <1>8 DEF TableInv

-----------------------------------------------------------------------------
(* The table, step by step: what is brought forth. *)

LEMMA ProduceStep ==
    ASSUME AllKept, phase # "failed", UNCHANGED <<postRows, table, ignored, unprocessed>>,
           NEW new, Produced' = Produced \cup new, Way' = Way \cup new
    PROVE  AllKept'
  <1>1. PICK p, q, l, w, v : /\ p = Produced /\ q = Produced' /\ l = ignored \cup unprocessed
                             /\ w = Way /\ v = Way'
    OBVIOUS
  <1>2. Kept(p, table, l, w)
    BY <1>1, Zenon DEF AllKept
  <1>3. p \subseteq q /\ w \subseteq v /\ q \subseteq p \cup v /\ \A i \in v : i \in w \/ i \in q \/ Exempt(i)
    BY <1>1
  <1>4. Kept(q, table, l, v)
    BY <1>2, <1>3, ProduceKeeps
  <1> QED
    BY <1>1, <1>4, KeptPrimed, Zenon

LEMMA KeysApart ==
    ASSUME NEW p, NEW q, NEW j, NEW k, j # k, \A i \in ItemsOf(p) : i.key = j, \A i \in ItemsOf(q) : i.key = k
    PROVE  Apart(p, q)
  <1> SUFFICES ASSUME NEW a \in ItemsOf(p), NEW b \in ItemsOf(q), Slot(a) = Slot(b) PROVE FALSE
    BY Zenon DEF Apart
  <1> QED
    BY DEF Slot

LEMMA CountPostTable == Typed /\ CountsInv /\ TableInv /\ CountPost => TableInv'
  <1> SUFFICES ASSUME Typed, CountsInv, TableInv, CountPost PROVE TableInv'
    OBVIOUS
  <1>1. /\ phase = "posts" /\ phase' = "posts" /\ todo # {} /\ pending = <<>>
        /\ UNCHANGED <<postRows, reactionRows, reactions, batch, table, ignored, unprocessed>>
    BY DEF CountPost, rows, tableVars
  <1>2. PICK t : t = Earliest(todo)
    OBVIOUS
  <1>3. /\ t \in todo /\ t \in postRows /\ t \in Post /\ t # lastAt
        /\ PostsSeen \subseteq Post /\ \A s \in PostsSeen : s < t
    BY <1>1, <1>2, NextPost DEF CountsInv
  <1>4. PICK x : x = RowItem("post", t)
    OBVIOUS
  <1>5. todo' = todo \ {t} /\ pending' = <<x>>
    BY <1>2, <1>3, <1>4 DEF CountPost
  <1>6. x.key = <<"post", "row">> /\ x.at = t /\ Due(x)
    BY <1>3, <1>4, RowSlot, DueItems
  <1>7. Way = ItemsOf(batch) /\ Way' = ItemsOf(batch) \cup {x}
    BY <1>1, <1>5, ItemsOfSequences DEF Way, Saving
  <1>8. Produced' = Produced \cup {x} /\ x \notin Produced
    <2>1. PostsSeen' = PostsSeen \cup {t}
      BY <1>1, <1>3, <1>5 DEF PostsSeen
    <2>2. Produced = {RowItem("post", s) : s \in PostsSeen}
      BY <1>1 DEF Produced, PostItems, ReactionItems
    <2>3. Produced' = {RowItem("post", s) : s \in PostsSeen \cup {t}}
      BY <1>1, <2>1 DEF Produced, PostItems, ReactionItems
    <2>4. Produced' = Produced \cup {x}
      BY <1>4, <2>2, <2>3
    <2>5. ASSUME NEW s \in PostsSeen, x = RowItem("post", s) PROVE FALSE
      <3>1. s = t
        BY <1>6, <2>5, RowSlot
      <3>2. s < t /\ s \in Int
        BY <1>3, RowAssumption
      <3> QED
        BY <3>1, <3>2
    <2> QED
      BY <2>2, <2>4, <2>5
  <1>9. AllKept'
    BY <1>1, <1>7, <1>8, ProduceStep DEF TableInv
  <1>10. TableKnown'
    <2>1. CountedReactions' = CountedReactions
      BY <1>1 DEF CountedReactions
    <2> QED
      BY <1>1, <2>1, KnownPrimed DEF TableInv, TableKnown
  <1>11. Channels'
    <2>1. \A i : IsPostStat(i)' <=> IsPostStat(i)
      BY DEF IsPostStat
    <2>2. ~IsPostStat(x)
      BY <1>6, KindNames DEF IsPostStat
    <2> QED
      BY <1>1, <1>7, <2>1, <2>2 DEF TableInv, Channels, Saving
  <1>12. Lines'
    <2>1. \A i \in Way : Slot(i) # Slot(x)
      BY <1>1, <1>6, <1>8, NewSlot DEF TableInv
    <2>2. Distinct(batch) /\ Distinct(<<x>>) /\ ItemsOf(<<x>>) = {x}
      BY <1>1, DistinctSequences, ItemsOfSequences DEF TableInv, Lines
    <2>3. Apart(batch, <<x>>)
      BY <1>7, <2>1, <2>2, Zenon DEF Apart
    <2> QED
      BY <1>1, <1>5, <2>2, <2>3, Zenon DEF Lines
  <1> QED
    BY <1>9, <1>10, <1>11, <1>12 DEF TableInv

\* What the job of the reactions has brought forth so far.
LEMMA ProducedSoFar ==
    ASSUME phase = "reactions"
    PROVE  /\ \A k \in Kinds : \A s : s \notin Closed(k) => ReactionStat(k, s) \notin Produced
           /\ \A t : t \notin ReactionsSeen => RowItem("reaction", t) \notin Produced
  <1>1. ASSUME NEW x \in Produced
        PROVE  \/ x.key[1] = "post"
               \/ x.key = <<"reaction", "row">> /\ x.at \in ReactionsSeen
               \/ \E k \in Kinds : x.key = <<"reaction", k>> /\ x.at \in Closed(k)
    <2>1. CASE x \in PostItems
      <3>1. x \in PostStats \/ \E t : x = RowItem("post", t)
        BY <2>1 DEF PostItems
      <3>2. x \in PostStats => \E k, s : x = PostStat(k, s)
        BY DEF PostStats
      <3>3. \A k, s : PostStat(k, s).key[1] = "post"
        BY PostStatSlot
      <3>4. \A t : RowItem("post", t).key[1] = "post"
        BY RowSlot
      <3> QED
        BY <3>1, <3>2, <3>3, <3>4, Zenon
    <2>2. CASE x \in ReactionItems
      <3>0. ReactionItems = {RowItem("reaction", t) : t \in ReactionsSeen} \cup ReactionStats
        BY DEF ReactionItems
      <3>1. x \in ReactionStats \/ \E t \in ReactionsSeen : x = RowItem("reaction", t)
        BY <2>2, <3>0
      <3>2. x \in ReactionStats => \E k \in Kinds : \E s \in Closed(k) : x = ReactionStat(k, s)
        BY DEF ReactionStats
      <3>3. CASE \E t \in ReactionsSeen : x = RowItem("reaction", t)
        BY <3>3, RowSlot
      <3>4. CASE \E k \in Kinds : \E s \in Closed(k) : x = ReactionStat(k, s)
        <4>1. PICK k \in Kinds : \E s \in Closed(k) : x = ReactionStat(k, s)
          BY <3>4
        <4>2. x.key = <<"reaction", k>> /\ x.at \in Closed(k)
          BY <4>1, ReactionStatSlot
        <4> QED
          BY <4>2
      <3> QED
        BY <3>1, <3>2, <3>3, <3>4
    <2> QED
      BY <2>1, <2>2 DEF Produced
  <1>2. ASSUME NEW k \in Kinds, NEW s, s \notin Closed(k), ReactionStat(k, s) \in Produced PROVE FALSE
    <2>1. PICK x \in Produced : x.key = <<"reaction", k>> /\ x.at = s
      BY <1>2, ReactionStatSlot, Zenon
    <2>2. CASE x.key[1] = "post"
      BY <2>1, <2>2
    <2>3. CASE x.key = <<"reaction", "row">>
      BY <2>1, <2>3, KindNames
    <2>4. CASE \E l \in Kinds : x.key = <<"reaction", l>> /\ x.at \in Closed(l)
      <3>1. PICK l \in Kinds : x.key = <<"reaction", l>> /\ x.at \in Closed(l)
        BY <2>4
      <3>2. l = k
        BY <2>1, <3>1
      <3> QED
        BY <1>2, <2>1, <3>1, <3>2
    <2> QED
      BY <1>1, <2>2, <2>3, <2>4
  <1>3. ASSUME NEW t, t \notin ReactionsSeen, RowItem("reaction", t) \in Produced PROVE FALSE
    <2>1. PICK x \in Produced : x.key = <<"reaction", "row">> /\ x.at = t
      BY <1>3, RowSlot, Zenon
    <2>2. CASE x.key[1] = "post"
      BY <2>1, <2>2
    <2>3. CASE \E l \in Kinds : x.key = <<"reaction", l>>
      BY <2>1, <2>3, KindNames
    <2> QED
      BY <1>1, <1>3, <2>1, <2>2, <2>3
  <1> QED
    BY <1>2, <1>3

\* Items of three kinds, one after the other.
LEMMA JoinedLines ==
    ASSUME NEW p \in Seq(Items), NEW q \in Seq(Items), NEW r \in Seq(Items)
    PROVE  /\ p \o q \o r \in Seq(Items)
           /\ ItemsOf(p \o q \o r) = ItemsOf(p) \cup ItemsOf(q) \cup ItemsOf(r)
           /\ Distinct(p) /\ Distinct(q) /\ Distinct(r) /\ Apart(p, q) /\ Apart(p, r) /\ Apart(q, r)
                  => Distinct(p \o q \o r)
  <1>1. ASSUME NEW a \in Seq(Items), NEW b \in Seq(Items) PROVE a \o b \in Seq(Items)
    OBVIOUS
  <1>2. \A a \in Seq(Items), b \in Seq(Items) : ItemsOf(a \o b) = ItemsOf(a) \cup ItemsOf(b)
    BY ItemsOfSequences, Zenon
  <1>3. \A a \in Seq(Items), b \in Seq(Items) : Distinct(a) /\ Distinct(b) /\ Apart(a, b) => Distinct(a \o b)
    BY DistinctSequences, Zenon
  <1>4. PICK m : m = p \o q
    OBVIOUS
  <1>5. m \in Seq(Items) /\ ItemsOf(m) = ItemsOf(p) \cup ItemsOf(q)
    BY <1>1, <1>2, <1>4, Zenon
  <1>6. m \o r \in Seq(Items)
    BY <1>1, <1>5, Zenon
  <1>7. ItemsOf(m \o r) = ItemsOf(p) \cup ItemsOf(q) \cup ItemsOf(r)
    BY <1>2, <1>5, Zenon
  <1>8. ASSUME Distinct(p), Distinct(q), Distinct(r), Apart(p, q), Apart(p, r), Apart(q, r)
        PROVE  Distinct(m \o r)
    <2>1. Distinct(m)
      BY <1>3, <1>4, <1>8, Zenon
    <2>2. Apart(m, r)
      BY <1>5, <1>8 DEF Apart
    <2> QED
      BY <1>3, <1>5, <1>8, <2>1, <2>2, Zenon
  <1> QED
    BY <1>4, <1>6, <1>7, <1>8, Zenon

\* An item of each kind of period, or none.
OfKind(kind, seq) ==
    /\ seq \in Seq(Items) /\ Distinct(seq)
    /\ \A i \in ItemsOf(seq) : i.key = <<"reaction", kind>> /\ Due(i) /\ i \notin Produced

LEMMA KindLines ==
    ASSUME NEW w, NEW y, NEW d, OfKind("week", w), OfKind("year", y), OfKind("decade", d)
    PROVE  /\ w \o y \o d \in Seq(Items) /\ Distinct(w \o y \o d)
           /\ ItemsOf(w \o y \o d) = ItemsOf(w) \cup ItemsOf(y) \cup ItemsOf(d)
           /\ \A i \in ItemsOf(w \o y \o d) : i.key[1] = "reaction" /\ i.key[2] # "row" /\ Due(i) /\ i \notin Produced
  <1>1. w \in Seq(Items) /\ y \in Seq(Items) /\ d \in Seq(Items) /\ Distinct(w) /\ Distinct(y) /\ Distinct(d)
    BY DEF OfKind
  <1>2. Apart(w, y) /\ Apart(w, d) /\ Apart(y, d)
    <2>1. /\ <<"reaction", "week">> # <<"reaction", "year">> /\ <<"reaction", "week">> # <<"reaction", "decade">>
          /\ <<"reaction", "year">> # <<"reaction", "decade">>
      OBVIOUS
    <2>2. /\ \A i \in ItemsOf(w) : i.key = <<"reaction", "week">>
          /\ \A i \in ItemsOf(y) : i.key = <<"reaction", "year">>
          /\ \A i \in ItemsOf(d) : i.key = <<"reaction", "decade">>
      BY Zenon DEF OfKind
    <2>3. Apart(w, y)
      BY <2>1, <2>2, KeysApart
    <2>4. Apart(w, d)
      BY <2>1, <2>2, KeysApart
    <2>5. Apart(y, d)
      BY <2>1, <2>2, KeysApart
    <2> QED
      BY <2>3, <2>4, <2>5
  <1>3. ItemsOf(w \o y \o d) = ItemsOf(w) \cup ItemsOf(y) \cup ItemsOf(d)
    BY <1>1, JoinedLines
  <1>4. ASSUME NEW i \in ItemsOf(w) \cup ItemsOf(y) \cup ItemsOf(d)
        PROVE  i.key[1] = "reaction" /\ i.key[2] # "row" /\ Due(i) /\ i \notin Produced
    BY DEF OfKind
  <1>5. w \o y \o d \in Seq(Items)
    BY <1>1, JoinedLines
  <1>6. Distinct(w \o y \o d)
    BY <1>1, <1>2, JoinedLines
  <1> QED
    BY <1>3, <1>4, <1>5, <1>6

\* The statistics of the period that a counter has open.
LEMMA OpenPeriod ==
    ASSUME Typed, CountsInv, phase = "reactions", NEW k \in Kinds, ReactionsSeen # {},
           \A u \in CountedReactions \ ReactionsSeen : reactions[k].start < AbsPeriod(k, u)
    PROVE  LET c == reactions[k]
               s == reactions[k].start
           IN /\ c.of # {} /\ s \in Int /\ s \in Periods(k, ReactionsSeen)
              /\ \A r \in Periods(k, ReactionsSeen) : r \in Int /\ r <= s
              /\ OpenStat(k, c) = ReactionStat(k, s) /\ OpenStat(k, c) \in Items
              /\ s \notin Closed(k) /\ OfKind(k, <<OpenStat(k, c)>>)
  <1>1. PICK c \in ReactionCounter : c = reactions[k]
    BY DEF Typed, TypeOK
  <1>2. ReactionsCounted(k, c, ReactionsSeen)
    BY <1>1 DEF CountsInv, ReactionCounters
  <1>3. ReactionsSeen \subseteq Int /\ CountedReactions \subseteq Int /\ ReactionsSeen \subseteq CountedReactions
    BY RowAssumption DEF ReactionsSeen, CountedReactions, Typed, TypeOK
  <1>4. c.start \in Int /\ c.start \in Periods(k, ReactionsSeen)
        /\ \A r \in Periods(k, ReactionsSeen) : r <= c.start
    BY <1>2 DEF ReactionsCounted, ReactionCounter
  <1>5. \A r \in Periods(k, ReactionsSeen) : r \in Int
    BY <1>3, PeriodNames DEF Periods
  <1>6. c.of # {} /\ OpenStat(k, c) = ReactionStatOf(k, c.start, ReactionsSeen) /\ OpenStat(k, c) \in Items
    BY <1>2, OpenIsStat, OpenStatTypes
  <1>7. OpenStat(k, c) = ReactionStat(k, c.start)
    <2>1. OnlyLater(k, c.start, ReactionsSeen, CountedReactions)
      BY <1>1, <1>3 DEF OnlyLater
    <2>2. ReactionStatOf(k, c.start, CountedReactions) = ReactionStatOf(k, c.start, ReactionsSeen)
      BY <1>4, <2>1, LaterRows
    <2> QED
      BY <1>6, <2>2, ReactionStatSlot
  <1>8. c.start \notin Closed(k)
    BY <1>1, <1>4 DEF Closed
  <1>9. OfKind(k, <<OpenStat(k, c)>>)
    <2>1. PICK x \in Items : x = OpenStat(k, c) /\ x = ReactionStat(k, c.start)
      BY <1>6, <1>7
    <2>2. x.key = <<"reaction", k>>
      BY <2>1, ReactionStatSlot
    <2>3. Due(x)
      <3>1. c.start \in Periods(k, CountedReactions)
        BY <1>3, <1>4 DEF Periods
      <3> QED
        BY <2>1, <3>1, DueItems
    <2>4. x \notin Produced
      BY <1>8, <2>1, ProducedSoFar
    <2>5. ItemsOf(<<x>>) = {x} /\ Distinct(<<x>>) /\ <<x>> \in Seq(Items)
      BY ItemsOfSequences, DistinctSequences
    <2> QED
      BY <2>1, <2>2, <2>3, <2>4, <2>5 DEF OfKind
  <1> QED
    BY <1>1, <1>4, <1>5, <1>6, <1>7, <1>8, <1>9

LEMMA NothingOfKind == ASSUME NEW k PROVE OfKind(k, <<>>) /\ ItemsOf(<<>>) = {}
  BY ItemsOfSequences, DistinctSequences DEF OfKind

\* The periods of a kind that a step closes have the statistics in seq.
NewOf(kind, seq) ==
    \A x : (\E s \in Closed(kind)' : x = ReactionStat(kind, s)) <=>
               (\E s \in Closed(kind) : x = ReactionStat(kind, s)) \/ x \in ItemsOf(seq)

LEMMA NewStats ==
    ASSUME CountedReactions' = CountedReactions,
           NEW w, NEW y, NEW d, NewOf("week", w), NewOf("year", y), NewOf("decade", d)
    PROVE  ReactionStats' = ReactionStats \cup (ItemsOf(w) \cup ItemsOf(y) \cup ItemsOf(d))
  <1>1. \A k, s : ReactionStat(k, s)' = ReactionStat(k, s)
    BY Zenon DEF ReactionStat
  <1>2. \A x : x \in ReactionStats' <=>
            \/ \E s \in Closed("week")' : x = ReactionStat("week", s)
            \/ \E s \in Closed("year")' : x = ReactionStat("year", s)
            \/ \E s \in Closed("decade")' : x = ReactionStat("decade", s)
    BY <1>1 DEF ReactionStats, Kinds
  <1>3. \A x : x \in ReactionStats <=>
            \/ \E s \in Closed("week") : x = ReactionStat("week", s)
            \/ \E s \in Closed("year") : x = ReactionStat("year", s)
            \/ \E s \in Closed("decade") : x = ReactionStat("decade", s)
    BY DEF ReactionStats, Kinds
  <1>4. ASSUME NEW x
        PROVE  x \in ReactionStats' <=> x \in ReactionStats \/ x \in ItemsOf(w) \/ x \in ItemsOf(y) \/ x \in ItemsOf(d)
    <2>1. (\E s \in Closed("week")' : x = ReactionStat("week", s)) <=>
              (\E s \in Closed("week") : x = ReactionStat("week", s)) \/ x \in ItemsOf(w)
      BY Zenon DEF NewOf
    <2>2. (\E s \in Closed("year")' : x = ReactionStat("year", s)) <=>
              (\E s \in Closed("year") : x = ReactionStat("year", s)) \/ x \in ItemsOf(y)
      BY Zenon DEF NewOf
    <2>3. (\E s \in Closed("decade")' : x = ReactionStat("decade", s)) <=>
              (\E s \in Closed("decade") : x = ReactionStat("decade", s)) \/ x \in ItemsOf(d)
      BY Zenon DEF NewOf
    <2> QED
      BY <1>2, <1>3, <2>1, <2>2, <2>3, Zenon
  <1> QED
    BY <1>4

\* A job that has written all goes on to items that are new.
LEMMA ItemsBegun ==
    ASSUME Typed, TableInv, phase \in Saving, phase' \in Saving, pending = <<>>,
           UNCHANGED <<postRows, reactionRows, batch, table, ignored, unprocessed>>,
           NEW new \in Seq(Items), Distinct(new), pending' = new,
           \A i \in ItemsOf(new) : Due(i) /\ i \notin Produced /\ ~IsPostStat(i),
           Produced' = Produced \cup ItemsOf(new)
    PROVE  TableInv'
  <1>1. phase # "failed" /\ phase # "post_stats" /\ phase' # "failed" /\ phase' # "post_stats"
    BY DEF Saving
  <1>2. Way = ItemsOf(batch) /\ Way' = ItemsOf(batch) \cup ItemsOf(new)
    <2>1. ItemsOf(<<>>) = {}
      BY ItemsOfSequences
    <2> QED
      BY <1>1, <2>1 DEF Way
  <1>3. AllKept'
    <2>1. PICK more : more = ItemsOf(new)
      OBVIOUS
    <2>2. Produced' = Produced \cup more /\ Way' = Way \cup more
      BY <1>2, <2>1
    <2> QED
      BY <1>1, <2>2, ProduceStep DEF TableInv
  <1>4. TableKnown'
    <2>1. CountedReactions' = CountedReactions
      BY DEF CountedReactions
    <2> QED
      BY <2>1, KnownPrimed DEF TableInv, TableKnown
  <1>5. Channels'
    <2>1. \A i : IsPostStat(i)' <=> IsPostStat(i)
      BY DEF IsPostStat
    <2> QED
      BY <1>1, <1>2, <2>1 DEF TableInv, Channels
  <1>6. Lines'
    <2>1. \A x \in ItemsOf(new), i \in Way : Slot(i) # Slot(x)
      BY <1>1, NewSlot DEF TableInv
    <2>2. Apart(batch, new)
      BY <1>2, <2>1 DEF Apart
    <2>3. Distinct(batch)
      BY <1>1 DEF TableInv, Lines
    <2> QED
      BY <2>2, <2>3 DEF Lines
  <1> QED
    BY <1>3, <1>4, <1>5, <1>6 DEF TableInv

\* What a counter gives away when a reaction is counted is what its period has.
LEMMA KindClosed ==
    ASSUME Typed, CountsInv, CountReaction, NEW t, t = Earliest(todo), t # lastAt, NEW k \in Kinds
    PROVE  /\ OfKind(k, ClosedBy(k, reactions[k], t))
           /\ NewOf(k, ClosedBy(k, reactions[k], t))
  <1>1. phase = "reactions" /\ todo # {} /\ phase' = "reactions" /\ reactionRows' = reactionRows
    BY DEF CountReaction, rows
  <1>2. /\ t \in todo /\ t \in reactionRows /\ t \in Reaction
        /\ ReactionsSeen \subseteq Reaction
        /\ \A s \in reactionRows \ todo : s < t
        /\ \A u \in todo \ {t} : t < u
        /\ ReactionsSeen \subseteq reactionRows \ todo /\ t \in CountedReactions
    BY <1>1, NextReaction DEF CountsInv
  <1>3. PICK seen : seen = ReactionsSeen
    OBVIOUS
  <1>4. ReactionsSeen' = seen \cup {t}
    BY <1>1, <1>2, <1>3 DEF CountReaction, ReactionsSeen, CountedReactions
  <1>5. t \in Int /\ seen \subseteq Int /\ \A s \in seen : s < t
    BY <1>2, <1>3, RowAssumption
  <1>6. PICK p \in Int : p = AbsPeriod(k, t)
    BY <1>5, PeriodNames
  <1>7. /\ Periods(k, seen \cup {t}) = Periods(k, seen) \cup {p}
        /\ \A r \in Periods(k, seen) : r \in Int /\ r <= p
    BY <1>5, <1>6, JoinedRows
  <1>8. PICK d : d = reactions'[k]
    OBVIOUS
  <1>9. d.start = p
    <2>1. CountsInv'
      BY CountReactionCounts
    <2>2. ReactionsCounted(k, d, seen \cup {t})
      BY <1>1, <1>4, <1>8, <2>1 DEF CountsInv, ReactionCounters
    <2>3. d.start \in Periods(k, seen) \cup {p} /\ p <= d.start
      BY <1>7, <2>2 DEF ReactionsCounted
    <2> QED
      BY <1>7, <2>3
  <1>10. Closed(k)' = {s \in Periods(k, seen) : s < p}
    <2>1. Closed(k)' = {s \in Periods(k, seen \cup {t}) : s < d.start}
      BY <1>1, <1>4, <1>8, Zenon DEF Closed
    <2> QED
      BY <1>7, <1>9, <2>1
  <1>11. Closed(k) = {s \in Periods(k, seen) : s < reactions[k].start}
    BY <1>1, <1>3, Zenon DEF Closed
  <1>12. PICK c : c = reactions[k]
    OBVIOUS
  <1>13. CASE seen = {} \/ c.start = p
    <2>1. ClosedBy(k, c, t) = <<>>
      <3>1. CASE seen = {}
        <4>1. c = NewReactionCounter
          BY <1>1, <1>3, <1>12, <3>1 DEF CountsInv, ReactionCounters
        <4> QED
          BY <4>1 DEF ClosedBy, NewReactionCounter
      <3>2. CASE c.start = p
        BY <1>6, <3>2 DEF ClosedBy
      <3> QED
        BY <1>13, <3>1, <3>2
    <2>2. Closed(k)' = Closed(k)
      <3>1. CASE seen = {}
        BY <1>10, <1>11, <3>1 DEF Periods
      <3>2. CASE c.start = p
        BY <1>10, <1>11, <1>12, <3>2
      <3> QED
        BY <1>13, <3>1, <3>2
    <2>3. OfKind(k, <<>>) /\ ItemsOf(<<>>) = {}
      BY NothingOfKind
    <2> QED
      BY <1>12, <2>1, <2>2, <2>3 DEF NewOf
  <1>14. CASE seen # {} /\ c.start # p
    <2>1. ReactionsCounted(k, c, seen) /\ c \in ReactionCounter
      BY <1>1, <1>3, <1>12, <1>14 DEF CountsInv, ReactionCounters, Typed, TypeOK
    <2>2. c.start \in Int /\ c.start < p /\ \A r \in Periods(k, seen) : r <= c.start
      BY <1>6, <1>7, <1>14, <2>1 DEF ReactionsCounted
    <2>3. \A u \in CountedReactions \ seen : c.start < AbsPeriod(k, u)
      <3> SUFFICES ASSUME NEW u \in CountedReactions \ seen PROVE c.start < AbsPeriod(k, u)
        OBVIOUS
      <3>1. u \in Int /\ t <= u
        <4>1. u \in todo /\ u \in Reaction
          BY <1>3 DEF ReactionsSeen, CountedReactions, Typed, TypeOK
        <4> QED
          BY <1>2, <1>5, <4>1, RowAssumption
      <3>2. AbsPeriod(k, u) \in Int /\ p <= AbsPeriod(k, u)
        BY <1>5, <1>6, <3>1, PeriodNames, PeriodsOrdered
      <3> QED
        BY <2>2, <3>2
    <2>4. PICK x : x = OpenStat(k, c)
      OBVIOUS
    <2>5. ClosedBy(k, c, t) = <<x>>
      BY <1>6, <1>14, <2>1, <2>4, OpenIsStat DEF ClosedBy
    <2>6. PICK s : s = c.start
      OBVIOUS
    <2>7. s \in Periods(k, seen) /\ x = ReactionStat(k, s) /\ OfKind(k, <<x>>)
      <3>1. \A u \in CountedReactions \ ReactionsSeen : reactions[k].start < AbsPeriod(k, u)
        BY <1>3, <1>12, <2>3
      <3> QED
        BY <1>1, <1>3, <1>12, <1>14, <2>4, <2>6, <3>1, OpenPeriod
    <2>8. Closed(k)' = Closed(k) \cup {s}
      BY <1>7, <1>10, <1>11, <1>12, <2>2, <2>6, <2>7
    <2>9. ItemsOf(<<x>>) = {x}
      BY ItemsOfSequences
    <2>10. NewOf(k, <<x>>)
      BY <2>7, <2>8, <2>9 DEF NewOf
    <2> QED
      BY <1>12, <2>5, <2>7, <2>10
  <1> QED
    BY <1>13, <1>14

\* The statistics of three kinds of period, one after the other, are items of a job.
LEMMA KindItems ==
    ASSUME NEW w, NEW y, NEW d, OfKind("week", w), OfKind("year", y), OfKind("decade", d)
    PROVE  \A i \in ItemsOf(w \o y \o d) : Due(i) /\ i \notin Produced /\ ~IsPostStat(i)
  <1>1. \A i \in ItemsOf(w \o y \o d) : i.key[1] = "reaction" /\ Due(i) /\ i \notin Produced
    BY KindLines
  <1>2. \A i : i.key[1] = "reaction" => ~IsPostStat(i)
    BY DEF IsPostStat
  <1> QED
    BY <1>1, <1>2

LEMMA CountReactionTable == Typed /\ CountsInv /\ TableInv /\ CountReaction => TableInv'
  <1> SUFFICES ASSUME Typed, CountsInv, TableInv, CountReaction PROVE TableInv'
    OBVIOUS
  <1>1. /\ phase = "reactions" /\ phase' = "reactions" /\ todo # {} /\ pending = <<>>
        /\ phase \in Saving /\ phase' \in Saving
        /\ UNCHANGED <<postRows, reactionRows, batch, table, ignored, unprocessed>>
    BY DEF CountReaction, rows, tableVars, Saving
  <1>2. PICK t : t = Earliest(todo)
    OBVIOUS
  <1>3. /\ t \in todo /\ t \in reactionRows /\ t \in Reaction
        /\ ReactionsSeen \subseteq Reaction
        /\ \A s \in reactionRows \ todo : s < t
        /\ ReactionsSeen \subseteq reactionRows \ todo
        /\ t = lastAt <=> t \notin CountedReactions
        /\ t = lastAt => ReactionsSeen = {}
    BY <1>1, <1>2, NextReaction DEF CountsInv
  <1>4. todo' = todo \ {t} /\ CountedReactions' = CountedReactions
    BY <1>1, <1>2 DEF CountReaction, CountedReactions
  <1>5. PostItems' = PostItems
    <2>1. PostStats' = PostStats
      BY <1>1 DEF PostStats, PostStat, ExactKinds
    <2> QED
      BY <1>1, <2>1 DEF PostItems
  <1>6. /\ ReactionItems = {RowItem("reaction", s) : s \in ReactionsSeen} \cup ReactionStats
        /\ ReactionItems' = {RowItem("reaction", s) : s \in ReactionsSeen'} \cup ReactionStats'
    BY <1>1 DEF ReactionItems
  <1>7. CASE t = lastAt
    <2>1. pending' = <<>> /\ reactions' = reactions
      BY <1>1, <1>2, <1>7 DEF CountReaction
    <2>2. ReactionsSeen' = ReactionsSeen
      BY <1>1, <1>3, <1>4, <1>7 DEF ReactionsSeen
    <2>3. ReactionStats' = ReactionStats
      <3>1. \A k : Closed(k)' = Closed(k)
        BY <1>1, <1>4, <2>1, <2>2 DEF Closed
      <3>2. NewOf("week", <<>>) /\ NewOf("year", <<>>) /\ NewOf("decade", <<>>)
        BY <3>1, ItemsOfSequences DEF NewOf
      <3>3. ItemsOf(<<>>) = {}
        BY ItemsOfSequences
      <3> QED
        BY <1>4, <3>2, <3>3, NewStats
    <2>4. ItemsOf(<<>>) = {} /\ Distinct(<<>>) /\ <<>> \in Seq(Items)
      BY ItemsOfSequences, DistinctSequences
    <2>5. Produced' = Produced \cup ItemsOf(<<>>)
      BY <1>5, <1>6, <2>2, <2>3, <2>4 DEF Produced
    <2>6. \A i \in ItemsOf(<<>>) : Due(i) /\ i \notin Produced /\ ~IsPostStat(i)
      BY <2>4
    <2> QED
      BY <1>1, <2>1, <2>4, <2>5, <2>6, ItemsBegun
  <1>8. CASE t # lastAt
    <2>1. PICK w, y, d : /\ w = ClosedBy("week", reactions["week"], t)
                         /\ y = ClosedBy("year", reactions["year"], t)
                         /\ d = ClosedBy("decade", reactions["decade"], t)
      OBVIOUS
    <2>2. PICK x : x = RowItem("reaction", t)
      OBVIOUS
    <2>3. /\ OfKind("week", w) /\ OfKind("year", y) /\ OfKind("decade", d)
          /\ NewOf("week", w) /\ NewOf("year", y) /\ NewOf("decade", d)
      BY <1>2, <1>8, <2>1, KindClosed DEF Kinds
    <2>4. PICK stats : stats = w \o y \o d
      OBVIOUS
    <2>5. /\ stats \in Seq(Items) /\ Distinct(stats)
          /\ ItemsOf(stats) = ItemsOf(w) \cup ItemsOf(y) \cup ItemsOf(d)
          /\ \A i \in ItemsOf(stats) : i.key[1] = "reaction" /\ i.key[2] # "row"
      BY <2>3, <2>4, KindLines
    <2>6. \A i \in ItemsOf(stats) : Due(i) /\ i \notin Produced /\ ~IsPostStat(i)
      BY <2>3, <2>4, KindItems
    <2>7. x \in Items /\ x.key = <<"reaction", "row">> /\ Due(x) /\ x \notin Produced /\ ~IsPostStat(x)
      <3>1. t \in CountedReactions
        BY <1>3, <1>8
      <3>2. t \notin ReactionsSeen
        BY <1>3 DEF ReactionsSeen
      <3>3. x.key = <<"reaction", "row">> /\ Due(x)
        BY <2>2, <3>1, RowSlot, DueItems
      <3>4. x \notin Produced
        BY <1>1, <2>2, <3>2, ProducedSoFar
      <3>5. x \in Items
        BY <1>3, <2>2, RowItemTypes
      <3> QED
        BY <3>3, <3>4, <3>5 DEF IsPostStat
    <2>8. PICK new : new = <<x>> \o stats
      OBVIOUS
    <2>9. /\ <<x>> \in Seq(Items) /\ ItemsOf(<<x>>) = {x} /\ Distinct(<<x>>)
          /\ new \in Seq(Items) /\ ItemsOf(new) = {x} \cup ItemsOf(stats)
      <3>1. <<x>> \in Seq(Items) /\ ItemsOf(<<x>>) = {x} /\ Distinct(<<x>>)
        BY <2>7, ItemsOfSequences, DistinctSequences
      <3>2. ItemsOf(<<x>> \o stats) = ItemsOf(<<x>>) \cup ItemsOf(stats)
        <4>1. \A p \in Seq(Items), q \in Seq(Items) : ItemsOf(p \o q) = ItemsOf(p) \cup ItemsOf(q)
          BY ItemsOfSequences, Zenon
        <4> QED
          BY <2>5, <3>1, <4>1, Zenon
      <3>3. <<x>> \o stats \in Seq(Items)
        BY <2>5, <3>1
      <3> QED
        BY <2>8, <3>1, <3>2, <3>3
    <2>10. Distinct(new)
      <3>1. Apart(<<x>>, stats)
        <4>1. ASSUME NEW i \in ItemsOf(stats), Slot(x) = Slot(i) PROVE FALSE
          <5>1. i.key[2] # "row" /\ x.key[2] = "row"
            BY <2>5, <2>7
          <5> QED
            BY <4>1, <5>1 DEF Slot
        <4> QED
          BY <2>9, <4>1, Zenon DEF Apart
      <3> QED
        BY <2>5, <2>8, <2>9, <3>1, DistinctSequences, Zenon
    <2>11. pending' = new
      <3>1. pending' = <<x>> \o w \o y \o d
        BY <1>2, <1>8, <2>1, <2>2 DEF CountReaction, Kinds
      <3>2. w \in Seq(Items) /\ y \in Seq(Items) /\ d \in Seq(Items)
        BY <2>3 DEF OfKind
      <3>3. <<x>> \o w \o y \o d = <<x>> \o (w \o y \o d)
        <4>1. \A a, b, c \in Seq(Items) : (a \o b) \o c = a \o (b \o c)
          OBVIOUS
        <4>2. w \o y \in Seq(Items)
          BY <3>2
        <4>3. PICK row \in Seq(Items) : row = <<x>>
          BY <2>9
        <4>4. (row \o w) \o y = row \o (w \o y)
          BY <3>2, <4>1, Zenon
        <4>5. (row \o (w \o y)) \o d = row \o ((w \o y) \o d)
          BY <3>2, <4>1, <4>2, Zenon
        <4> QED
          BY <4>3, <4>4, <4>5
      <3> QED
        BY <2>4, <2>8, <3>1, <3>3
    <2>12. Produced' = Produced \cup ItemsOf(new)
      <3>1. ReactionsSeen' = ReactionsSeen \cup {t}
        BY <1>3, <1>4, <1>8 DEF ReactionsSeen
      <3>2. ReactionStats' = ReactionStats \cup ItemsOf(stats)
        BY <1>4, <2>3, <2>5, NewStats
      <3>3. {RowItem("reaction", s) : s \in ReactionsSeen'} = {RowItem("reaction", s) : s \in ReactionsSeen} \cup {x}
        BY <2>2, <3>1
      <3> QED
        BY <1>5, <1>6, <2>9, <3>2, <3>3 DEF Produced
    <2>13. \A i \in ItemsOf(new) : Due(i) /\ i \notin Produced /\ ~IsPostStat(i)
      BY <2>6, <2>7, <2>9
    <2> QED
      BY <1>1, <2>9, <2>10, <2>11, <2>12, <2>13, ItemsBegun
  <1> QED
    BY <1>7, <1>8

\* What is left open at the end are the last periods.
LEMMA KindLeft ==
    ASSUME Typed, CountsInv, EndReactions, NEW k \in Kinds, NEW left,
           left = IF reactions[k].of = {} THEN <<>> ELSE <<OpenStat(k, reactions[k])>>
    PROVE  OfKind(k, left) /\ NewOf(k, left)
  <1>1. phase = "reactions" /\ phase' = "reaction_stats" /\ todo = {} /\ reactionRows' = reactionRows
    BY DEF EndReactions, rows
  <1>2. CountedReactions' = CountedReactions /\ ReactionsSeen = CountedReactions
    BY <1>1 DEF CountedReactions, ReactionsSeen
  <1>3. Closed(k)' = Periods(k, CountedReactions)
    BY <1>1, <1>2 DEF Closed
  <1>4. PICK c : c = reactions[k]
    OBVIOUS
  <1>5. Closed(k) = {s \in Periods(k, CountedReactions) : s < c.start}
    BY <1>1, <1>2, <1>4, Zenon DEF Closed
  <1>6. CASE CountedReactions = {}
    <2>1. c = NewReactionCounter
      BY <1>1, <1>2, <1>4, <1>6 DEF CountsInv, ReactionCounters
    <2>2. left = <<>>
      BY <1>4, <2>1 DEF NewReactionCounter
    <2>3. Closed(k)' = Closed(k)
      BY <1>3, <1>5, <1>6 DEF Periods
    <2>4. OfKind(k, <<>>) /\ ItemsOf(<<>>) = {}
      BY NothingOfKind
    <2> QED
      BY <2>2, <2>3, <2>4 DEF NewOf
  <1>7. CASE CountedReactions # {}
    <2>1. PICK x, s : x = OpenStat(k, c) /\ s = c.start
      OBVIOUS
    <2>2. /\ c.of # {} /\ s \in Int /\ s \in Periods(k, CountedReactions)
          /\ \A r \in Periods(k, CountedReactions) : r \in Int /\ r <= s
          /\ x = ReactionStat(k, s) /\ OfKind(k, <<x>>)
      <3>1. \A u \in CountedReactions \ ReactionsSeen : reactions[k].start < AbsPeriod(k, u)
        BY <1>2
      <3>2. PICK seen : seen = ReactionsSeen
        OBVIOUS
      <3> QED
        BY <1>1, <1>2, <1>4, <1>7, <2>1, <3>1, <3>2, OpenPeriod
    <2>3. left = <<x>>
      BY <1>4, <2>1, <2>2
    <2>4. Closed(k)' = Closed(k) \cup {s}
      BY <1>3, <1>5, <2>1, <2>2
    <2>5. ItemsOf(<<x>>) = {x}
      BY ItemsOfSequences
    <2> QED
      BY <2>2, <2>3, <2>4, <2>5 DEF NewOf
  <1> QED
    BY <1>6, <1>7

LEMMA EndReactionsTable == Typed /\ CountsInv /\ TableInv /\ EndReactions => TableInv'
  <1> SUFFICES ASSUME Typed, CountsInv, TableInv, EndReactions PROVE TableInv'
    OBVIOUS
  <1>1. /\ phase = "reactions" /\ phase' = "reaction_stats" /\ todo = {} /\ pending = <<>>
        /\ phase \in Saving /\ phase' \in Saving
        /\ UNCHANGED <<postRows, reactionRows, batch, table, ignored, unprocessed>>
    BY DEF EndReactions, rows, tableVars, Saving
  <1>2. PICK open : open = [k \in Kinds |-> IF reactions[k].of = {} THEN <<>> ELSE <<OpenStat(k, reactions[k])>>]
    OBVIOUS
  <1>3. \A k \in Kinds : OfKind(k, open[k]) /\ NewOf(k, open[k])
    <2> SUFFICES ASSUME NEW k \in Kinds PROVE OfKind(k, open[k]) /\ NewOf(k, open[k])
      OBVIOUS
    <2>1. open[k] = IF reactions[k].of = {} THEN <<>> ELSE <<OpenStat(k, reactions[k])>>
      BY <1>2
    <2> QED
      BY <2>1, KindLeft
  <1>4. PICK w, y, d : w = open["week"] /\ y = open["year"] /\ d = open["decade"]
    OBVIOUS
  <1>5. /\ OfKind("week", w) /\ OfKind("year", y) /\ OfKind("decade", d)
        /\ NewOf("week", w) /\ NewOf("year", y) /\ NewOf("decade", d)
    BY <1>3, <1>4 DEF Kinds
  <1>6. PICK new : new = w \o y \o d
    OBVIOUS
  <1>7. /\ new \in Seq(Items) /\ Distinct(new)
        /\ ItemsOf(new) = ItemsOf(w) \cup ItemsOf(y) \cup ItemsOf(d)
    BY <1>5, <1>6, KindLines
  <1>8. \A i \in ItemsOf(new) : Due(i) /\ i \notin Produced /\ ~IsPostStat(i)
    BY <1>5, <1>6, KindItems
  <1>9. pending' = new
    BY <1>2, <1>4, <1>6, Zenon DEF EndReactions
  <1>10. Produced' = Produced \cup ItemsOf(new)
    <2>1. CountedReactions' = CountedReactions /\ ReactionsSeen = CountedReactions
      BY <1>1 DEF CountedReactions, ReactionsSeen
    <2>2. PostItems' = PostItems
      <3>1. PostStats' = PostStats
        BY <1>1 DEF PostStats, PostStat, ExactKinds
      <3> QED
        BY <1>1, <3>1 DEF PostItems
    <2>3. /\ ReactionItems = {RowItem("reaction", s) : s \in CountedReactions} \cup ReactionStats
          /\ ReactionItems' = {RowItem("reaction", s) : s \in CountedReactions} \cup ReactionStats'
      BY <1>1, <2>1 DEF ReactionItems
    <2>4. ReactionStats' = ReactionStats \cup ItemsOf(new)
      BY <1>5, <1>7, <2>1, NewStats
    <2> QED
      BY <2>2, <2>3, <2>4 DEF Produced
  <1> QED
    BY <1>1, <1>7, <1>8, <1>9, <1>10, ItemsBegun

\* After the last post every period of a kind has its statistics.
LEMMA KindFlushed ==
    ASSUME Typed, CountsInv, phase = "posts", todo = {}, NEW k \in Kinds, NEW done,
           done = FlushPosts(k, posts[k]).done
    PROVE  /\ done \in Seq(Items)
           /\ \A i \in ItemsOf(done) : i.key = <<"post", k>>
           /\ \A i \in ItemsOf(done) :
                  \/ Exempt(i)
                  \/ k \in ExactKinds /\ \E s \in Periods(k, postRows) : i = PostStat(k, s)
           /\ k \in ExactKinds => \A s \in Periods(k, postRows) : PostStat(k, s) \in ItemsOf(done)
           /\ \A i \in ItemsOf(done) : Blank(i)
           /\ postRows = {} => EmptyStat(k) \in ItemsOf(done)
  <1>1. PICK c \in PostCounter : c = posts[k]
    BY DEF Typed, TypeOK
  <1>2. FlushPosts(k, c) \in PostCounter
    BY FlushTypes
  <1>3. done \in Seq(Items)
    BY <1>1, <1>2 DEF PostCounter
  <1>4. PostsSeen = postRows /\ postRows \subseteq Post
    BY DEF PostsSeen, Typed, TypeOK
  <1>5. \A i \in ItemsOf(c.done) : i.key = <<"post", k>>
    BY <1>1 DEF CountsInv, PostCounters
  <1>6. \A i \in ItemsOf(done) : i.key = <<"post", k>>
    BY <1>1, <1>5, FlushedKeys
  <1>7. CASE 0 \in Periods(k, postRows)
    <2>1. postRows # {} /\ k \notin ExactKinds
      BY <1>7 DEF Periods, ExactKinds
    <2>2. \A i \in ItemsOf(done) : Exempt(i) /\ Blank(i)
      BY <1>6, <1>7, <2>1 DEF Exempt, Blank
    <2> QED
      BY <1>3, <1>6, <2>1, <2>2
  <1>8. CASE 0 \notin Periods(k, postRows) /\ postRows = {}
    <2>1. c = NewPostCounter
      BY <1>1, <1>4, <1>8 DEF CountsInv, PostCounters
    <2>2. AbsPeriod(k, 0 - 1) # 0
      <3>1. PICK s \in Int, q \in Int : s = 0 - 1 /\ q = AbsPeriod(k, s) /\ q <= s
        <4>1. PICK s \in Int : s = 0 - 1
          OBVIOUS
        <4> QED
          BY <4>1, PeriodNames
      <3> QED
        BY <3>1
    <2>3. PICK x : x = EmptyStat(k)
      OBVIOUS
    <2>4. done = <<x>> /\ x.at = 0
      <3>1. GroupsOf(k, {}) = {}
        BY DEF GroupsOf
      <3>2. FlushPosts(k, NewPostCounter).done = Append(<<>>, EmptyStat(k))
        BY <2>2, <3>1 DEF FlushPosts, NewPostCounter, EmptyStat
      <3> QED
        BY <1>1, <2>1, <2>3, <3>2 DEF EmptyStat, StatItem
    <2>5. ItemsOf(done) = {x}
      BY <2>4, ItemsOfSequences
    <2>6. Exempt(x)
      BY <1>6, <2>4, <2>5 DEF Exempt
    <2>7. Periods(k, postRows) = {}
      BY <1>8 DEF Periods
    <2>8. Blank(x) /\ x \in ItemsOf(done)
      <3>1. x.key = <<"post", k>>
        BY <1>6, <2>5
      <3> QED
        BY <2>3, <2>5, <3>1 DEF Blank
    <2> QED
      BY <1>3, <1>6, <2>3, <2>5, <2>6, <2>7, <2>8
  <1>9. CASE 0 \notin Periods(k, postRows) /\ postRows # {}
    <2>1. k \in ExactKinds
      BY <1>9 DEF ExactKinds
    <2>2. PostsCounted(k, c, postRows)
      BY <1>1, <1>4, <1>9 DEF CountsInv, PostCounters
    <2>3. FlushPosts(k, c) = Flushed(k, c, postRows)
      BY <1>4, <2>2, FlushIsStat
    <2>4. PICK x : x = PostStat(k, c.cur)
      OBVIOUS
    <2>5. PostStatOf(k, c.cur, postRows) = x
      BY <2>4, PostStatSlot
    <2>6. done = Append(c.done, x) /\ c.done \in Seq(Items)
      BY <1>1, <2>3, <2>5 DEF Flushed, PostCounter
    <2>7. x \in Items
      <3>1. /\ Len(Append(c.done, x)) = Len(c.done) + 1 /\ Len(c.done) \in Nat
            /\ Append(c.done, x)[Len(c.done) + 1] = x
        BY <2>6
      <3>2. Len(c.done) + 1 \in 1 .. Len(Append(c.done, x))
        BY <3>1
      <3> QED
        BY <1>3, <2>6, <3>1, <3>2
    <2>8. ItemsOf(done) = ItemsOf(c.done) \cup {x}
      BY <2>6, <2>7, ItemsOfSequences
    <2>9. ItemsOf(c.done) = {PostStatOf(k, s, postRows) : s \in Periods(k, postRows) \ {c.cur}}
      BY <2>2, Zenon DEF PostsCounted
    <2>10. c.cur \in Periods(k, postRows)
      BY <2>2, Zenon DEF PostsCounted
    <2>11. \A s : PostStatOf(k, s, postRows) = PostStat(k, s)
      BY PostStatSlot
    <2>12. \A i : i \in ItemsOf(done) <=> \E s \in Periods(k, postRows) : i = PostStat(k, s)
      BY <2>4, <2>8, <2>9, <2>10, <2>11
    <2>13. \A i \in ItemsOf(done) : Blank(i)
      <3> SUFFICES ASSUME NEW i \in ItemsOf(done) PROVE Blank(i)
        OBVIOUS
      <3>1. PICK s \in Periods(k, postRows) : i = PostStat(k, s)
        BY <2>12
      <3>2. i.key = <<"post", k>> /\ i.at # 0
        BY <1>9, <3>1, PostStatSlot
      <3> QED
        BY <3>2 DEF Blank
    <2> QED
      BY <1>3, <1>6, <1>9, <2>1, <2>12, <2>13
  <1> QED
    BY <1>7, <1>8, <1>9

LEMMA EndPostsTable == Typed /\ CountsInv /\ TableInv /\ EndPosts => TableInv'
  <1> SUFFICES ASSUME Typed, CountsInv, TableInv, EndPosts PROVE TableInv'
    OBVIOUS
  <1>1. /\ phase = "posts" /\ phase' = "post_stats" /\ pending = <<>> /\ todo = {}
        /\ phase # "failed" /\ phase \in Saving
        /\ UNCHANGED <<postRows, reactionRows, batch, reactions>>
    BY DEF EndPosts, rows, Saving
  <1>2. ItemsOf(<<>>) = {}
    BY ItemsOfSequences
  <1>3. Way = ItemsOf(batch) /\ Way' = ItemsOf(pending')
    BY <1>1, <1>2 DEF Way, Saving
  \* The last batch, written or not.
  <1>4. \E written, missed :
            /\ written \cup missed = Way /\ table' = Put(table, written)
            /\ ignored' \cup unprocessed' = (ignored \cup unprocessed) \cup missed
            /\ ignored' \subseteq ignored \cup missed /\ unprocessed' \subseteq unprocessed \cup missed
    <2>1. CASE AddFBStats(batch)
      <3>1. PICK written, missed :
                /\ written \cup missed = ItemsOf(batch) /\ table' = Put(table, written)
                /\ unprocessed' = unprocessed \cup missed /\ ignored' = ignored
        BY <2>1, BatchWritten
      <3>2. /\ ignored' \cup unprocessed' = (ignored \cup unprocessed) \cup missed
            /\ ignored' \subseteq ignored \cup missed /\ unprocessed' \subseteq unprocessed \cup missed
        BY <3>1
      <3> QED
        BY <1>3, <3>1, <3>2, Zenon
    <2>2. CASE ignored' = ignored \cup ItemsOf(batch) /\ UNCHANGED <<table, unprocessed>>
      <3>1. table' = Put(table, {})
        BY <2>2 DEF Put
      <3>2. /\ {} \cup Way = Way
            /\ ignored' \cup unprocessed' = (ignored \cup unprocessed) \cup Way
            /\ ignored' \subseteq ignored \cup Way /\ unprocessed' \subseteq unprocessed \cup Way
        BY <1>3, <2>2
      <3> QED
        BY <3>1, <3>2, Zenon
    <2> QED
      BY <2>1, <2>2 DEF EndPosts
  <1>5. PICK written, missed :
            /\ written \cup missed = Way /\ table' = Put(table, written)
            /\ ignored' \cup unprocessed' = (ignored \cup unprocessed) \cup missed
            /\ ignored' \subseteq ignored \cup missed /\ unprocessed' \subseteq unprocessed \cup missed
    BY <1>4
  <1>6. /\ Kept(Produced, table', (ignored \cup unprocessed) \cup missed, {})
        /\ \A i \in table' : Known(i) \/ Exempt(i)
    <2>1. written \cup missed \cup {} = Way
      BY <1>5
    <2> QED
      BY <1>1, <1>5, <2>1, WriteStep DEF TableInv
  \* The statistics.
  <1>7. PICK done : done = [k \in Kinds |-> FlushPosts(k, posts[k]).done]
    OBVIOUS
  <1>8. \A k \in Kinds :
            /\ done[k] \in Seq(Items)
            /\ \A i \in ItemsOf(done[k]) : i.key = <<"post", k>>
            /\ \A i \in ItemsOf(done[k]) : \/ Exempt(i)
                                           \/ k \in ExactKinds /\ \E s \in Periods(k, postRows) : i = PostStat(k, s)
            /\ k \in ExactKinds => \A s \in Periods(k, postRows) : PostStat(k, s) \in ItemsOf(done[k])
    <2> SUFFICES ASSUME NEW k \in Kinds
                 PROVE /\ done[k] \in Seq(Items)
                       /\ \A i \in ItemsOf(done[k]) : i.key = <<"post", k>>
                       /\ \A i \in ItemsOf(done[k]) :
                              \/ Exempt(i)
                              \/ k \in ExactKinds /\ \E s \in Periods(k, postRows) : i = PostStat(k, s)
                       /\ k \in ExactKinds => \A s \in Periods(k, postRows) : PostStat(k, s) \in ItemsOf(done[k])
      BY Zenon
    <2>1. PICK d : d = done[k]
      OBVIOUS
    <2>2. d = FlushPosts(k, posts[k]).done
      BY <1>7, <2>1
    <2>3. /\ d \in Seq(Items)
          /\ \A i \in ItemsOf(d) : i.key = <<"post", k>>
          /\ \A i \in ItemsOf(d) : \/ Exempt(i)
                                   \/ k \in ExactKinds /\ \E s \in Periods(k, postRows) : i = PostStat(k, s)
          /\ k \in ExactKinds => \A s \in Periods(k, postRows) : PostStat(k, s) \in ItemsOf(d)
      BY <1>1, <2>2, KindFlushed
    <2> QED
      BY <2>1, <2>3, Zenon
  <1>9. pending' = done["week"] \o done["year"] \o done["decade"]
    BY <1>7 DEF EndPosts, Kinds
  <1>10. \A i : i \in Way' <=> \E k \in Kinds : i \in ItemsOf(done[k])
    <2>1. done["week"] \in Seq(Items) /\ done["year"] \in Seq(Items) /\ done["decade"] \in Seq(Items)
      BY <1>8 DEF Kinds
    <2>2. Way' = ItemsOf(done["week"]) \cup ItemsOf(done["year"]) \cup ItemsOf(done["decade"])
      BY <1>3, <1>9, <2>1, JoinedLines
    <2> QED
      BY <2>2 DEF Kinds
  <1>11. Produced = {RowItem("post", t) : t \in postRows}
    <2>1. PostsSeen = postRows
      BY <1>1 DEF PostsSeen
    <2> QED
      BY <1>1, <2>1 DEF Produced, PostItems, ReactionItems
  <1>12. PostStats' = PostStats
    BY <1>1 DEF PostStats, PostStat, ExactKinds
  <1>13. Produced' = Produced \cup PostStats
    BY <1>1, <1>11, <1>12 DEF Produced, PostItems, ReactionItems
  <1>14. \A i : i \in PostStats <=> \E k \in ExactKinds : \E s \in Periods(k, postRows) : i = PostStat(k, s)
    BY DEF PostStats
  <1>15. PostStats \subseteq Way' /\ \A i \in Way' : i \in PostStats \/ Exempt(i)
    <2>1. ASSUME NEW i \in PostStats PROVE i \in Way'
      <3>1. PICK k \in ExactKinds : \E s \in Periods(k, postRows) : i = PostStat(k, s)
        BY <1>14, Zenon
      <3>2. PICK s \in Periods(k, postRows) : i = PostStat(k, s)
        BY <3>1
      <3>3. k \in Kinds
        BY DEF ExactKinds
      <3>4. PostStat(k, s) \in ItemsOf(done[k])
        BY <1>8, <3>3, Zenon
      <3> QED
        BY <1>10, <3>2, <3>3, <3>4, Zenon
    <2>2. ASSUME NEW i \in Way' PROVE i \in PostStats \/ Exempt(i)
      <3>1. PICK k \in Kinds : i \in ItemsOf(done[k])
        BY <1>10, Zenon
      <3>2. Exempt(i) \/ (k \in ExactKinds /\ \E s \in Periods(k, postRows) : i = PostStat(k, s))
        BY <1>8, <3>1, Zenon
      <3> QED
        BY <1>14, <3>2, Zenon
    <2> QED
      BY <2>1, <2>2
  <1>16. AllKept'
    <2>1. PICK p, q, s, l, v : /\ p = Produced /\ q = Produced' /\ s = table'
                               /\ l = (ignored \cup unprocessed) \cup missed /\ v = Way'
      OBVIOUS
    <2>2. Kept(p, s, l, {})
      BY <1>6, <2>1, Zenon
    <2>3. p \subseteq q /\ {} \subseteq v /\ q \subseteq p \cup v /\ \A i \in v : i \in {} \/ i \in q \/ Exempt(i)
      BY <1>13, <1>15, <2>1
    <2>4. Kept(q, s, l, v)
      BY <2>2, <2>3, ProduceKeeps
    <2>5. l = ignored' \cup unprocessed'
      BY <1>5, <2>1
    <2> QED
      BY <1>1, <2>1, <2>4, <2>5, KeptPrimed, Zenon
  <1>17. TableKnown'
    <2>1. CountedReactions' = CountedReactions
      BY <1>1 DEF CountedReactions
    <2> QED
      BY <1>1, <1>6, <2>1, KnownPrimed
  <1>18. Channels'
    <2>1. \A i : IsPostStat(i)' <=> IsPostStat(i)
      BY DEF IsPostStat
    <2>2. \A i \in missed : ~IsPostStat(i) /\ i.key[1] = "post"
      <3> SUFFICES ASSUME NEW i \in missed PROVE ~IsPostStat(i) /\ i.key[1] = "post"
        OBVIOUS
      <3>1. i \in Way
        BY <1>5
      <3>2. ~IsPostStat(i)
        BY <1>1, <3>1 DEF TableInv, Channels
      <3>3. i \in Produced \/ Exempt(i)
        BY <1>1, <3>1 DEF TableInv, AllKept, Kept
      <3>4. i \in Produced => i.key[1] = "post"
        BY <1>11, RowSlot
      <3> QED
        BY <3>2, <3>3, <3>4 DEF Exempt
    <2>3. \A i \in Way' : IsPostStat(i)
      BY <1>8, <1>10, Zenon DEF IsPostStat
    <2>4. /\ \A i \in ignored' : i.key[1] = "post"
          /\ \A i \in unprocessed' : ~IsPostStat(i)
      BY <1>5, <2>2 DEF TableInv, Channels
    <2> QED
      BY <1>1, <2>1, <2>3, <2>4 DEF Channels, Saving
  <1>19. Lines'
    BY <1>1 DEF TableInv, Lines, Saving
  <1> QED
    BY <1>16, <1>17, <1>18, <1>19 DEF TableInv

-----------------------------------------------------------------------------
(* The invariant. *)

LEMMA InitTable == Init => TableInv
  <1> SUFFICES ASSUME Init PROVE TableInv
    OBVIOUS
  <1>1. /\ phase = "posts" /\ pending = <<>> /\ batch = <<>> /\ todo = postRows
        /\ table = {} /\ ignored = {} /\ unprocessed = {}
    BY DEF Init
  <1>2. ItemsOf(<<>>) = {} /\ Distinct(<<>>)
    BY ItemsOfSequences, DistinctSequences
  <1>3. Way = {}
    BY <1>1, <1>2 DEF Way, Saving
  <1>4. Produced = {}
    <2>1. PostItems = {}
      BY <1>1 DEF PostItems, PostsSeen
    <2>2. ReactionItems = {}
      BY <1>1 DEF ReactionItems
    <2> QED
      BY <2>1, <2>2 DEF Produced
  <1>5. AllKept /\ TableKnown /\ Channels
    BY <1>1, <1>3, <1>4 DEF AllKept, Kept, TableKnown, Channels
  <1>6. Lines
    <2>1. Apart(<<>>, <<>>)
      BY <1>2 DEF Apart
    <2> QED
      BY <1>1, <1>2, <2>1, Zenon DEF Lines
  <1> QED
    BY <1>5, <1>6 DEF TableInv

LEMMA SameTable == TableInv /\ UNCHANGED vars => TableInv'
  <1> SUFFICES ASSUME TableInv, UNCHANGED vars PROVE TableInv'
    OBVIOUS
  <1>1. /\ UNCHANGED <<postRows, reactionRows, todo, reactions, phase>>
        /\ UNCHANGED <<pending, batch, table, ignored, unprocessed>>
    BY DEF vars, rows, tableVars
  <1>2. Produced' = Produced /\ CountedReactions' = CountedReactions
    BY <1>1, SameProduced
  <1>3. Way' = Way
    BY <1>1 DEF Way
  <1>4. AllKept'
    <2>1. CASE phase = "failed"
      BY <1>1, <2>1 DEF AllKept
    <2>2. CASE phase # "failed"
      <3>1. Kept(Produced, table, ignored \cup unprocessed, Way)
        BY <2>2 DEF TableInv, AllKept
      <3> QED
        BY <1>1, <1>2, <1>3, <3>1, KeptPrimed
    <2> QED
      BY <2>1, <2>2
  <1>5. TableKnown'
    BY <1>1, <1>2, KnownPrimed DEF TableInv, TableKnown
  <1>6. Channels'
    <2>1. \A i : IsPostStat(i)' <=> IsPostStat(i)
      BY DEF IsPostStat
    <2> QED
      BY <1>1, <1>3, <2>1 DEF TableInv, Channels
  <1>7. Lines'
    BY <1>1 DEF TableInv, Lines
  <1> QED
    BY <1>4, <1>5, <1>6, <1>7 DEF TableInv

LEMMA StepTable == Typed /\ CountsInv /\ TableInv /\ [Next]_vars => TableInv'
  <1> SUFFICES ASSUME Typed, CountsInv, TableInv, [Next]_vars PROVE TableInv'
    OBVIOUS
  <1>1. CASE CountPost
    BY <1>1, CountPostTable
  <1>2. CASE CountReaction
    BY <1>2, CountReactionTable
  <1>3. CASE Save
    BY <1>3, SaveTable
  <1>4. CASE EndPosts
    BY <1>4, EndPostsTable
  <1>5. CASE PutPostStat
    BY <1>5, PutPostStatTable
  <1>6. CASE BeginReactions \/ MissReactions
    BY <1>6, BeginReactionsTable
  <1>7. CASE EndReactions
    BY <1>7, EndReactionsTable
  <1>8. CASE FlushReactions
    BY <1>8, FlushReactionsTable
  <1>9. CASE NewRows
    BY <1>9, NewRowsTable
  <1>10. CASE UNCHANGED vars
    BY <1>10, SameTable
  <1> QED
    BY <1>1, <1>2, <1>3, <1>4, <1>5, <1>6, <1>7, <1>8, <1>9, <1>10 DEF Next

-----------------------------------------------------------------------------
(* The empty statistics. *)

\* An empty statistic is only replaced by itself.
LEMMA EmptyStays ==
    ASSUME EmptyInv, postRows = {}, NEW written, written \subseteq Present,
           NEW k \in Kinds, EmptyStat(k) \in table \cup written
    PROVE  EmptyStat(k) \in Put(table, written)
  <1>1. k \in ExactKinds
    BY DEF ExactKinds, Periods
  <1>2. EmptyStat(k).key = <<"post", k>> /\ EmptyStat(k).at = 0
    BY StatSlot DEF EmptyStat
  <1>3. ASSUME NEW n \in written, Slot(EmptyStat(k)) = Slot(n) PROVE n = EmptyStat(k)
    <2>1. n.key = <<"post", k>> /\ n.at = 0
      BY <1>2, <1>3 DEF Slot
    <2>2. Blank(n)
      BY DEF EmptyInv
    <2> QED
      BY <1>1, <2>1, <2>2, Zenon DEF Blank
  <1>4. PICK e : e = EmptyStat(k)
    OBVIOUS
  <1>5. e \in written \/ (e \in table /\ \A n \in written : Slot(e) # Slot(n))
    BY <1>3, <1>4
  <1> QED
    BY <1>4, <1>5, PutMembers, Zenon

\* What is new about the items that are somewhere.
LEMMA BlankStep ==
    ASSUME EmptyInv, postRows \subseteq postRows', \A i \in Present' : i \in Present \/ Blank(i)
    PROVE  \A i \in Present' : Blank(i)'
  <1>1. ExactKinds' \subseteq ExactKinds
    BY DEF ExactKinds, Periods
  <1>2. \A k : EmptyStat(k)' = EmptyStat(k)
    BY DEF EmptyStat
  <1>3. ASSUME NEW i, Blank(i) PROVE Blank(i)'
    BY <1>1, <1>2, <1>3 DEF Blank
  <1> QED
    BY <1>3, Zenon DEF EmptyInv

\* What a call of the table leaves where.
LEMMA PresentWritten ==
    ASSUME NEW written, NEW missed, table' = Put(table, written),
           ignored' \subseteq ignored \cup missed, written \cup missed \subseteq Present
    PROVE  table' \cup ignored' \subseteq Present
  <1>1. \A i \in table' : i \in written \/ i \in table
    BY PutMembers, Zenon
  <1> QED
    BY <1>1 DEF Present

LEMMA EmptyInit == Init => EmptyInv
  <1> SUFFICES ASSUME Init PROVE EmptyInv
    OBVIOUS
  <1>1. Present = {} /\ phase = "posts"
    BY ItemsOfSequences DEF Init, Present
  <1> QED
    BY <1>1 DEF EmptyInv

LEMMA SaveEmpty == Typed /\ EmptyInv /\ Save => EmptyInv'
  <1> SUFFICES ASSUME Typed, EmptyInv, Save PROVE EmptyInv'
    OBVIOUS
  <1>1. pending \in Seq(Items) /\ batch \in Seq(Items) /\ pending # <<>>
    BY DEF Save, Typed, TypeOK
  <1>2. PICK x \in Items : x = Head(pending)
    BY <1>1
  <1>3. ItemsOf(pending) = {x} \cup ItemsOf(Tail(pending))
    BY <1>1, <1>2, ItemsOfSequences
  <1>4. PICK full : full = Append(batch, x) /\ ItemsOf(full) = ItemsOf(batch) \cup {x}
    <2>1. ItemsOf(Append(batch, x)) = ItemsOf(batch) \cup {x}
      BY <1>1, ItemsOfSequences
    <2> QED
      BY <2>1, Zenon
  <1>5. /\ postRows' = postRows /\ pending' = Tail(pending)
        /\ phase # "post_stats" /\ phase' \in {phase, "failed"}
        /\ batch' \in {full, <<>>}
        /\ AddFBStats(full) \/ UNCHANGED tableVars
    BY <1>2, <1>4 DEF Save, rows, Saving
  <1>6. ItemsOf(full) \subseteq Present /\ ItemsOf(pending') \cup ItemsOf(batch') \subseteq Present
    BY <1>3, <1>4, <1>5, ItemsOfSequences DEF Present
  <1>7. \E written, missed :
            /\ written \cup missed \subseteq Present
            /\ table' = Put(table, written) /\ ignored' = ignored
    <2>1. CASE AddFBStats(full)
      BY <1>6, <2>1, BatchWritten
    <2>2. CASE UNCHANGED tableVars
      <3>1. Put(table, {}) = table /\ {} \cup {} \subseteq Present
        BY DEF Put
      <3> QED
        BY <2>2, <3>1, Zenon DEF tableVars
    <2> QED
      BY <1>5, <2>1, <2>2
  <1>8. PICK written, missed :
            /\ written \cup missed \subseteq Present
            /\ table' = Put(table, written) /\ ignored' = ignored
    BY <1>7
  <1>9. table' \cup ignored' \subseteq Present
    BY <1>8, PresentWritten
  <1>10. \A i \in Present' : Blank(i)'
    <2>1. Present' = table' \cup ignored' \cup ItemsOf(pending') \cup ItemsOf(batch')
      BY DEF Present
    <2> QED
      BY <1>5, <1>6, <1>9, <2>1, BlankStep
  <1>11. ASSUME postRows' = {}, phase' \notin {"posts", "failed"}, NEW k \in Kinds
         PROVE  EmptyStat(k) \in table' \cup ignored'
    <2>1. EmptyStat(k) \in table \cup ignored
      BY <1>5, <1>11 DEF EmptyInv
    <2>2. EmptyStat(k) \in table => EmptyStat(k) \in table'
      BY <1>5, <1>8, <1>11, EmptyStays
    <2> QED
      BY <1>8, <2>1, <2>2
  <1> QED
    BY <1>5, <1>10, <1>11 DEF EmptyInv, EmptyStat

LEMMA PutPostStatEmpty == Typed /\ EmptyInv /\ PutPostStat => EmptyInv'
  <1> SUFFICES ASSUME Typed, EmptyInv, PutPostStat PROVE EmptyInv'
    OBVIOUS
  <1>1. /\ pending \in Seq(Items) /\ pending # <<>> /\ pending' = Tail(pending)
        /\ phase = "post_stats" /\ phase' = phase /\ postRows' = postRows /\ batch' = batch
    BY DEF PutPostStat, Typed, TypeOK, rows
  <1>2. PICK x \in Items : x = Head(pending)
    BY <1>1
  <1>3. ItemsOf(pending) = {x} \cup ItemsOf(pending')
    BY <1>1, <1>2, ItemsOfSequences
  <1>4. PICK written, missed :
            /\ written \cup missed = {x} /\ table' = Put(table, written) /\ ignored' = ignored \cup missed
    BY <1>2, ItemWritten DEF PutPostStat
  <1>5. written \cup missed \subseteq Present /\ ItemsOf(pending') \cup ItemsOf(batch') \subseteq Present
    BY <1>1, <1>3, <1>4 DEF Present
  <1>6. table' \cup ignored' \subseteq Present
    BY <1>4, <1>5, PresentWritten
  <1>7. \A i \in Present' : Blank(i)'
    <2>1. Present' = table' \cup ignored' \cup ItemsOf(pending') \cup ItemsOf(batch')
      BY DEF Present
    <2> QED
      BY <1>1, <1>5, <1>6, <2>1, BlankStep
  <1>8. ASSUME postRows' = {}, NEW k \in Kinds
        PROVE  EmptyStat(k) \in table' \cup ignored' \cup ItemsOf(pending')
    <2>1. EmptyStat(k) \in table \cup ignored \cup {x} \cup ItemsOf(pending')
      BY <1>1, <1>3, <1>8 DEF EmptyInv
    <2>2. EmptyStat(k) \in table \cup written => EmptyStat(k) \in table'
      BY <1>1, <1>4, <1>5, <1>8, EmptyStays
    <2> QED
      BY <1>4, <2>1, <2>2
  <1> QED
    BY <1>1, <1>7, <1>8 DEF EmptyInv, EmptyStat

LEMMA EndPostsEmpty == Typed /\ CountsInv /\ EmptyInv /\ EndPosts => EmptyInv'
  <1> SUFFICES ASSUME Typed, CountsInv, EmptyInv, EndPosts PROVE EmptyInv'
    OBVIOUS
  <1>1. /\ phase = "posts" /\ phase' = "post_stats" /\ todo = {} /\ postRows' = postRows /\ batch' = batch
    BY DEF EndPosts, rows
  <1>2. PICK done : done = [k \in Kinds |-> FlushPosts(k, posts[k]).done]
    OBVIOUS
  <1>3. \A k \in Kinds : /\ done[k] \in Seq(Items)
                         /\ \A i \in ItemsOf(done[k]) : Blank(i)
                         /\ postRows = {} => EmptyStat(k) \in ItemsOf(done[k])
    <2> SUFFICES ASSUME NEW k \in Kinds
                 PROVE  /\ done[k] \in Seq(Items)
                        /\ \A i \in ItemsOf(done[k]) : Blank(i)
                        /\ postRows = {} => EmptyStat(k) \in ItemsOf(done[k])
      OBVIOUS
    <2>1. PICK d : d = done[k]
      OBVIOUS
    <2>2. d = FlushPosts(k, posts[k]).done
      BY <1>2, <2>1
    <2>3. /\ d \in Seq(Items)
          /\ \A i \in ItemsOf(d) : Blank(i)
          /\ postRows = {} => EmptyStat(k) \in ItemsOf(d)
      BY <1>1, <2>2, KindFlushed
    <2> QED
      BY <2>1, <2>3
  <1>4. ItemsOf(pending') = ItemsOf(done["week"]) \cup ItemsOf(done["year"]) \cup ItemsOf(done["decade"])
    <2>1. pending' = done["week"] \o done["year"] \o done["decade"]
      BY <1>2 DEF EndPosts, Kinds
    <2>2. "week" \in Kinds /\ "year" \in Kinds /\ "decade" \in Kinds
      BY DEF Kinds
    <2>3. done["week"] \in Seq(Items) /\ done["year"] \in Seq(Items) /\ done["decade"] \in Seq(Items)
      BY <1>3, <2>2, Zenon
    <2> QED
      BY <2>1, <2>3, JoinedLines
  <1>5. (\A i \in ItemsOf(pending') : Blank(i)) /\ (postRows = {} => \A k \in Kinds : EmptyStat(k) \in ItemsOf(pending'))
    <2>1. "week" \in Kinds /\ "year" \in Kinds /\ "decade" \in Kinds
      BY DEF Kinds
    <2>2. \A i \in ItemsOf(pending') : Blank(i)
      <3> SUFFICES ASSUME NEW i \in ItemsOf(pending') PROVE Blank(i)
        OBVIOUS
      <3>1. PICK k \in Kinds : i \in ItemsOf(done[k])
        BY <1>4, <2>1, Zenon
      <3>2. PICK d : d = ItemsOf(done[k])
        OBVIOUS
      <3>3. \A j \in d : Blank(j)
        BY <1>3, <3>2, Zenon
      <3> QED
        BY <3>1, <3>2, <3>3
    <2>3. ASSUME postRows = {}, NEW k \in Kinds PROVE EmptyStat(k) \in ItemsOf(pending')
      <3>1. EmptyStat(k) \in ItemsOf(done[k])
        BY <1>3, <2>3, Zenon
      <3>2. k = "week" \/ k = "year" \/ k = "decade"
        BY DEF Kinds
      <3> QED
        BY <1>4, <3>1, <3>2
    <2> QED
      BY <2>2, <2>3
  <1>6. ItemsOf(batch) \subseteq Present
    BY DEF Present
  <1>7. table' \cup ignored' \subseteq Present
    <2>1. CASE AddFBStats(batch)
      BY <1>6, <2>1, BatchWritten, PresentWritten
    <2>2. CASE ignored' = ignored \cup ItemsOf(batch) /\ UNCHANGED <<table, unprocessed>>
      BY <2>2 DEF Present
    <2> QED
      BY <2>1, <2>2 DEF EndPosts
  <1>8. \A i \in Present' : Blank(i)'
    <2>1. Present' = table' \cup ignored' \cup ItemsOf(pending') \cup ItemsOf(batch)
      BY <1>1 DEF Present
    <2> QED
      BY <1>1, <1>5, <1>6, <1>7, <2>1, BlankStep
  <1> QED
    BY <1>1, <1>5, <1>8 DEF EmptyInv, EmptyStat

LEMMA StepEmpty == Typed /\ CountsInv /\ TableInv /\ EmptyInv /\ [Next]_vars => EmptyInv'
  <1> SUFFICES ASSUME Typed, CountsInv, TableInv, EmptyInv, [Next]_vars PROVE EmptyInv'
    OBVIOUS
  <1>1. ItemsOf(<<>>) = {}
    BY ItemsOfSequences
  \* What is saved in batches is not about a period of posts.
  <1>0. ASSUME phase' \in Saving PROVE \A i \in ItemsOf(pending') : Blank(i)
    <2>1. Channels' /\ \A i : IsPostStat(i)' <=> IsPostStat(i)
      BY StepTable DEF TableInv, IsPostStat
    <2>2. \A i \in ItemsOf(pending') : ~IsPostStat(i)
      BY <1>0, <2>1 DEF Channels, Way
    <2> QED
      BY <2>2 DEF Blank, IsPostStat, ExactKinds
  \* Steps that leave the table alone.
  <1>2. ASSUME UNCHANGED <<table, ignored>>, postRows \subseteq postRows',
               \A i \in ItemsOf(pending') : i \in Present \/ Blank(i),
               batch' = batch \/ batch' = <<>>,
               \/ phase' \in {"posts", "failed"}
               \/ postRows' = postRows /\ phase' = phase /\ pending' = pending
               \/ postRows' = postRows /\ phase \notin {"posts", "failed"} /\ phase' # "post_stats"
                      /\ (phase = "post_stats" => pending = <<>>)
        PROVE  EmptyInv'
    <2>1. \A i \in Present' : Blank(i)'
      <3>1. Present' = table \cup ignored \cup ItemsOf(pending') \cup ItemsOf(batch')
        BY <1>2 DEF Present
      <3> QED
        BY <1>1, <1>2, <3>1, BlankStep DEF Present
    <2> QED
      BY <1>1, <1>2, <2>1 DEF EmptyInv, EmptyStat
  <1>3. CASE CountPost
    <2>1. UNCHANGED <<table, ignored, batch, postRows>> /\ phase' = "posts"
      BY <1>3 DEF CountPost, tableVars, rows
    <2> QED
      BY <1>0, <1>2, <2>1 DEF Saving
  <1>4. CASE CountReaction
    <2>1. UNCHANGED <<table, ignored, batch, postRows>> /\ phase = "reactions" /\ phase' = "reactions"
      BY <1>4 DEF CountReaction, tableVars, rows
    <2> QED
      BY <1>0, <1>2, <2>1 DEF Saving
  <1>5. CASE EndReactions
    <2>1. UNCHANGED <<table, ignored, batch, postRows>> /\ phase = "reactions" /\ phase' = "reaction_stats"
      BY <1>5 DEF EndReactions, tableVars, rows
    <2> QED
      BY <1>0, <1>2, <2>1 DEF Saving
  <1>6. CASE BeginReactions \/ MissReactions
    <2>1. /\ UNCHANGED <<table, ignored, pending, postRows>> /\ batch' = <<>>
          /\ phase = "post_stats" /\ phase' \in {"reactions", "unread"} /\ pending = <<>>
      BY <1>6 DEF BeginReactions, MissReactions, tableVars
    <2> QED
      BY <1>1, <1>2, <2>1
  <1>7. CASE NewRows
    <2>1. UNCHANGED table /\ ignored' = {} /\ pending' = <<>> /\ batch' = <<>> /\ phase' = "posts"
          /\ postRows \subseteq postRows'
      BY <1>7 DEF NewRows, BeginPosts, More
    <2>2. Present' \subseteq Present
      BY <1>1, <2>1 DEF Present
    <2>3. \A i \in Present' : Blank(i)'
      BY <2>1, <2>2, BlankStep
    <2> QED
      BY <2>1, <2>3 DEF EmptyInv
  <1>8. CASE FlushReactions
    <2>1. /\ phase = "reaction_stats" /\ phase' \in {"done", "failed"}
          /\ UNCHANGED <<postRows, pending, batch>>
          /\ AddFBStats(batch) \/ UNCHANGED tableVars
      BY <1>8 DEF FlushReactions, rows
    <2>2. CASE UNCHANGED tableVars
      <3>1. UNCHANGED <<table, ignored>> /\ \A i \in ItemsOf(pending') : i \in Present
        BY <2>1, <2>2 DEF tableVars, Present
      <3> QED
        BY <1>2, <2>1, <3>1
    <2>3. CASE AddFBStats(batch)
      <3>1. PICK written, missed :
                /\ written \cup missed = ItemsOf(batch) /\ table' = Put(table, written) /\ ignored' = ignored
        BY <2>3, BatchWritten
      <3>2. written \cup missed \subseteq Present /\ ignored' \subseteq ignored \cup missed
        BY <3>1 DEF Present
      <3>3. table' \cup ignored' \subseteq Present
        BY <3>1, <3>2, PresentWritten
      <3>4. Present' \subseteq Present
        BY <2>1, <3>3 DEF Present
      <3>5. \A i \in Present' : Blank(i)'
        BY <2>1, <3>4, BlankStep
      <3>6. ASSUME postRows = {}, NEW k \in Kinds PROVE EmptyStat(k) \in table' \cup ignored'
        <4>1. EmptyStat(k) \in table \cup ignored
          BY <2>1, <3>6 DEF EmptyInv
        <4>2. EmptyStat(k) \in table => EmptyStat(k) \in table'
          BY <3>1, <3>2, <3>6, EmptyStays
        <4> QED
          BY <3>1, <4>1, <4>2
      <3> QED
        BY <2>1, <3>5, <3>6 DEF EmptyInv, EmptyStat
    <2> QED
      BY <2>1, <2>2, <2>3
  <1>9. CASE UNCHANGED vars
    <2>1. UNCHANGED <<table, ignored, pending, batch, postRows, phase>>
      BY <1>9 DEF vars, tableVars, rows
    <2>2. \A i \in ItemsOf(pending') : i \in Present
      BY <2>1 DEF Present
    <2> QED
      BY <1>2, <2>1, <2>2
  <1> QED
    BY <1>3, <1>4, <1>5, <1>6, <1>7, <1>8, <1>9, SaveEmpty, PutPostStatEmpty, EndPostsEmpty DEF Next

AnalysisInv == Typed /\ CountsInv /\ TableInv /\ EmptyInv

LEMMA AnalysisInductive ==
    /\ Init => AnalysisInv
    /\ AnalysisInv /\ [Next]_vars => AnalysisInv'
  <1>1. Init => CountsInv
    <2> SUFFICES ASSUME Init PROVE CountsInv
      OBVIOUS
    <2>1. /\ phase = "posts" /\ posts = [k \in Kinds |-> NewPostCounter]
          /\ reactions = [k \in Kinds |-> NewReactionCounter] /\ todo = postRows /\ lastAt = Now
      BY DEF Init
    <2> QED
      BY <2>1, NewCounters
  <1> QED
    BY <1>1, InitTyped, InitTable, EmptyInit, StepTyped, StepCounts, StepTable, StepEmpty, Zenon DEF AnalysisInv

LEMMA AlwaysAnalysisInv == Spec => []AnalysisInv
  BY AnalysisInductive, PTL DEF Spec

(***************************************************************************)
(* Every variable keeps to its type.                                        *)
(***************************************************************************)
THEOREM TypeCorrect == Spec => []TypeOK
  <1>1. AnalysisInv => TypeOK
    BY DEF AnalysisInv, Typed
  <1> QED
    BY <1>1, AlwaysAnalysisInv, PTL

-----------------------------------------------------------------------------
(* What the table has once an analysis is over. *)

LEMMA ProducedAtEnd ==
    ASSUME phase \in {"done", "unread"}, NEW i
    PROVE  i \in Produced <=>
               \/ \E t \in postRows : i = RowItem("post", t)
               \/ \E k \in ExactKinds : \E s \in Periods(k, postRows) : i = PostStat(k, s)
               \/ phase = "done" /\ \E t \in CountedReactions : i = RowItem("reaction", t)
               \/ phase = "done" /\ \E k \in Kinds : \E s \in Periods(k, CountedReactions) : i = ReactionStat(k, s)
  <1>1. PostItems = {RowItem("post", t) : t \in postRows} \cup PostStats
    BY DEF PostItems
  <1>2. i \in PostStats <=> \E k \in ExactKinds : \E s \in Periods(k, postRows) : i = PostStat(k, s)
    BY DEF PostStats
  <1>3. ReactionItems = IF phase = "done" THEN {RowItem("reaction", t) : t \in CountedReactions} \cup ReactionStats
                       ELSE {}
    BY DEF ReactionItems
  <1>4. \A k : Closed(k) = Periods(k, CountedReactions)
    BY DEF Closed
  <1>5. i \in ReactionStats <=> \E k \in Kinds : \E s \in Periods(k, CountedReactions) : i = ReactionStat(k, s)
    BY <1>4 DEF ReactionStats
  <1> QED
    BY <1>1, <1>2, <1>3, <1>5 DEF Produced

\* The analysis that i belongs to is over.
Ended(i) == phase = "done" \/ (phase = "unread" /\ i.key[1] = "post")

LEMMA KnownProduced ==
    ASSUME NEW i, Ended(i), Known(i), ~Exempt(i)
    PROVE  \E g \in Produced : Slot(g) = Slot(i)
  <1>1. CASE i.key = <<"post", "row">> /\ i.at \in postRows
    <2>1. PICK g : g = RowItem("post", i.at)
      OBVIOUS
    <2>2. g \in Produced
      BY <1>1, <2>1, ProducedAtEnd DEF Ended
    <2>3. Slot(g) = Slot(i)
      BY <1>1, <2>1, RowSlot DEF Slot
    <2> QED
      BY <2>2, <2>3
  <1>2. CASE i.key = <<"reaction", "row">> /\ i.at \in CountedReactions
    <2>1. PICK g : g = RowItem("reaction", i.at)
      OBVIOUS
    <2>2. g \in Produced
      BY <1>2, <2>1, ProducedAtEnd DEF Ended
    <2>3. Slot(g) = Slot(i)
      BY <1>2, <2>1, RowSlot DEF Slot
    <2> QED
      BY <2>2, <2>3
  <1>3. CASE \E k \in Kinds : i.key = <<"post", k>> /\ i.at \in Periods(k, postRows)
    <2>1. PICK k \in Kinds : i.key = <<"post", k>> /\ i.at \in Periods(k, postRows)
      BY <1>3
    <2>2. PICK g : g = PostStat(k, i.at)
      OBVIOUS
    <2>3. k \in ExactKinds
      BY <2>1 DEF Exempt, ExactKinds
    <2>4. g \in Produced
      BY <2>1, <2>2, <2>3, ProducedAtEnd DEF Ended
    <2>5. Slot(g) = Slot(i)
      BY <2>1, <2>2, PostStatSlot DEF Slot
    <2> QED
      BY <2>4, <2>5
  <1>4. CASE \E k \in Kinds : i.key = <<"reaction", k>> /\ i.at \in Periods(k, CountedReactions)
    <2>1. PICK k \in Kinds : i.key = <<"reaction", k>> /\ i.at \in Periods(k, CountedReactions)
      BY <1>4
    <2>2. PICK g : g = ReactionStat(k, i.at)
      OBVIOUS
    <2>3. g \in Produced
      BY <2>1, <2>2, ProducedAtEnd DEF Ended
    <2>4. Slot(g) = Slot(i)
      BY <2>1, <2>2, ReactionStatSlot DEF Slot
    <2> QED
      BY <2>3, <2>4
  <1> QED
    BY <1>1, <1>2, <1>3, <1>4 DEF Known

\* Whether an item would be in the table, if those lost of its key were written again.
LEMMA AtTheEnd ==
    ASSUME AnalysisInv, NEW lost, lost \subseteq ignored \cup unprocessed,
           NEW i, Ended(i), ~Exempt(i), \A n \in ignored \cup unprocessed : n.key = i.key => n \in lost
    PROVE  i \in Put(table, lost) <=> i \in Produced
  <1>1. PICK p, l : p = Produced /\ l = ignored \cup unprocessed
    OBVIOUS
  <1>2. Kept(p, table, l, {})
    <2>1. Way = {}
      BY DEF Way, Saving, Ended
    <2> QED
      BY <1>1, <2>1 DEF AnalysisInv, TableInv, AllKept, Ended
  <1>3. i \in table => \E g \in p : Slot(g) = Slot(i)
    BY <1>1, KnownProduced DEF AnalysisInv, TableInv, TableKnown
  <1>4. /\ i \in l => i \in p
        /\ i \in table => i \in p \/ \E g \in l : Slot(g) = Slot(i)
        /\ i \in p => i \in table \cup l
    BY <1>2, <1>3, KeptAll
  <1>5. \A n \in l : Slot(n) = Slot(i) => n \in lost
    BY <1>1 DEF Slot
  <1>6. ASSUME i \in p PROVE i \in Put(table, lost)
    <2>1. CASE i \in l
      BY <1>1, <2>1, PutMembers
    <2>2. CASE i \notin l
      <3>1. \A n \in l : Slot(i) # Slot(n)
        <4> SUFFICES ASSUME NEW n \in l, Slot(i) = Slot(n) PROVE FALSE
          BY Zenon
        <4>1. n \in p \/ Exempt(n)
          BY <1>2 DEF Kept
        <4>2. ~Exempt(n)
          BY <1>1, <1>6, SlotsOfProduced
        <4>3. n = i
          BY <1>1, <1>6, <4>1, <4>2, SlotsOfProduced
        <4> QED
          BY <2>2, <4>3
      <3> QED
        BY <1>1, <1>4, <1>6, <2>2, <3>1, PutMembers
    <2> QED
      BY <2>1, <2>2
  <1>7. ASSUME i \in Put(table, lost) PROVE i \in p
    <2>1. i \in lost \/ (i \in table /\ \A n \in lost : Slot(i) # Slot(n))
      BY <1>7, PutMembers, Zenon
    <2>2. CASE i \in lost
      BY <1>1, <1>4, <2>2
    <2>3. CASE i \in table /\ \A n \in lost : Slot(i) # Slot(n)
      BY <1>4, <1>5, <2>3
    <2> QED
      BY <2>1, <2>2, <2>3
  <1> QED
    BY <1>1, <1>6, <1>7

\* Two ways to write again what was lost.
LEMMA LostTwice ==
    ASSUME AnalysisInv, phase \in {"done", "unread"}, NEW i, ~Exempt(i)
    PROVE  i \in Put(Put(table, ignored), unprocessed) <=> i \in Put(table, ignored \cup unprocessed)
  <1>1. ASSUME NEW n \in ignored \cup unprocessed, NEW m \in ignored \cup unprocessed,
               Slot(n) = Slot(i), Slot(m) = Slot(i)
        PROVE  n = m
    <2>1. n \in Produced \/ Exempt(n)
      BY DEF AnalysisInv, TableInv, AllKept, Kept
    <2>2. m \in Produced \/ Exempt(m)
      BY DEF AnalysisInv, TableInv, AllKept, Kept
    <2>3. ~Exempt(n) /\ ~Exempt(m)
      BY <1>1 DEF Exempt, Slot
    <2> QED
      BY <1>1, <2>1, <2>2, <2>3, SlotsOfProduced
  <1>2. i \in Put(table, ignored \cup unprocessed) <=>
            i \in ignored \cup unprocessed \/ (i \in table /\ \A n \in ignored \cup unprocessed : Slot(i) # Slot(n))
    <2>1. PICK lost : lost = ignored \cup unprocessed
      OBVIOUS
    <2>2. i \in Put(table, lost) <=> i \in lost \/ (i \in table /\ \A n \in lost : Slot(i) # Slot(n))
      BY PutMembers, Zenon
    <2> QED
      BY <2>1, <2>2
  <1>3. i \in Put(Put(table, ignored), unprocessed) <=>
            i \in unprocessed \/ (i \in Put(table, ignored) /\ \A n \in unprocessed : Slot(i) # Slot(n))
    <2>1. PICK stored : stored = Put(table, ignored)
      OBVIOUS
    <2>2. i \in Put(stored, unprocessed) <=>
              i \in unprocessed \/ (i \in stored /\ \A n \in unprocessed : Slot(i) # Slot(n))
      BY PutMembers, Zenon
    <2> QED
      BY <2>1, <2>2
  <1>4. i \in Put(table, ignored) <=> i \in ignored \/ (i \in table /\ \A n \in ignored : Slot(i) # Slot(n))
    BY PutMembers, Zenon
  <1>5. ASSUME i \in ignored, i \notin unprocessed PROVE \A n \in unprocessed : Slot(i) # Slot(n)
    <2> SUFFICES ASSUME NEW n \in unprocessed, Slot(i) = Slot(n) PROVE FALSE
      BY Zenon
    <2>1. n = i
      BY <1>1, <1>5
    <2> QED
      BY <1>5, <2>1
  <1> QED
    BY <1>2, <1>3, <1>4, <1>5

LEMMA PostStatsAtEnd == AnalysisInv => PostStatsExact
  <1> SUFFICES ASSUME AnalysisInv, phase \in {"done", "unread"}, NEW kind \in Kinds,
                      0 \notin Periods(kind, postRows), NEW found,
                      found = Stored(Put(table, ignored), <<"post", kind>>)
               PROVE  /\ found \ {EmptyStat(kind)} = {PostStat(kind, start) : start \in Periods(kind, postRows)}
                      /\ postRows = {} => EmptyStat(kind) \in found
    BY DEF PostStatsExact
  <1>1. \A n \in unprocessed : n.key # <<"post", kind>>
    BY DEF AnalysisInv, TableInv, Channels, IsPostStat
  <1>2. ASSUME NEW i, i.key = <<"post", kind>>, i.at # 0
        PROVE  i \in Put(table, ignored) <=> \E s \in Periods(kind, postRows) : i = PostStat(kind, s)
    <2>1. ~Exempt(i)
      BY <1>2 DEF Exempt
    <2>2. i \in Put(table, ignored) <=> i \in Produced
      <3>1. \A n \in ignored \cup unprocessed : n.key = i.key => n \in ignored
        BY <1>1, <1>2
      <3>2. PICK lost : lost = ignored
        OBVIOUS
      <3>3. /\ lost \subseteq ignored \cup unprocessed
            /\ \A n \in ignored \cup unprocessed : n.key = i.key => n \in lost
        BY <3>1, <3>2
      <3> QED
        BY <1>2, <2>1, <3>2, <3>3, AtTheEnd DEF Ended
    <2>3. ASSUME i \in Produced PROVE \E s \in Periods(kind, postRows) : i = PostStat(kind, s)
      <3>1. \A t : i # RowItem("post", t) /\ i # RowItem("reaction", t)
        BY <1>2, RowSlot, KindNames
      <3>2. \A k, s : i # ReactionStat(k, s)
        BY <1>2, ReactionStatSlot
      <3>3. PICK k \in ExactKinds : \E s \in Periods(k, postRows) : i = PostStat(k, s)
        BY <2>3, <3>1, <3>2, ProducedAtEnd, Zenon
      <3>4. i.key = <<"post", k>>
        BY <3>3, PostStatSlot
      <3>5. k = kind
        BY <1>2, <3>4
      <3> QED
        BY <3>3, <3>5
    <2>4. ASSUME NEW s \in Periods(kind, postRows), i = PostStat(kind, s) PROVE i \in Produced
      <3>1. kind \in ExactKinds
        BY DEF ExactKinds
      <3> QED
        BY <2>4, <3>1, ProducedAtEnd
    <2> QED
      BY <2>2, <2>3, <2>4
  <1>3. \A s \in Periods(kind, postRows) : PostStat(kind, s).key = <<"post", kind>> /\ PostStat(kind, s).at # 0
    BY PostStatSlot
  <1>4. kind \in ExactKinds /\ EmptyStat(kind).key = <<"post", kind>> /\ EmptyStat(kind).at = 0
    BY StatSlot DEF ExactKinds, EmptyStat
  <1>5. \A i : i \in found <=> i \in Put(table, ignored) /\ i.key = <<"post", kind>>
    BY DEF Stored
  \* At 0 there is only the empty statistic.
  <1>6. ASSUME NEW i \in found, i.at = 0 PROVE i = EmptyStat(kind)
    <2>1. i \in table \cup ignored /\ i.key = <<"post", kind>>
      BY <1>5, PutMembers
    <2>2. Blank(i)
      BY <2>1 DEF AnalysisInv, EmptyInv, Present
    <2> QED
      BY <1>4, <1>6, <2>1, <2>2 DEF Blank
  <1>7. ASSUME NEW i \in found \ {EmptyStat(kind)} PROVE \E s \in Periods(kind, postRows) : i = PostStat(kind, s)
    BY <1>2, <1>5, <1>6, <1>7, Zenon
  <1>8. ASSUME NEW s \in Periods(kind, postRows) PROVE PostStat(kind, s) \in found \ {EmptyStat(kind)}
    BY <1>2, <1>3, <1>4, <1>5
  <1>9. ASSUME postRows = {} PROVE EmptyStat(kind) \in found
    <2>1. EmptyStat(kind) \in table \cup ignored
      BY <1>9 DEF AnalysisInv, EmptyInv
    <2>2. ignored \subseteq Present
      BY DEF Present
    <2> QED
      BY <1>4, <1>5, <1>9, <2>1, <2>2, EmptyStays DEF AnalysisInv
  <1> QED
    BY <1>7, <1>8, <1>9

LEMMA ReactionStatsAtEnd == AnalysisInv => ReactionStatsExact
  <1> SUFFICES ASSUME AnalysisInv, phase = "done", NEW kind \in Kinds
               PROVE  Stored(Put(table, unprocessed), <<"reaction", kind>>)
                          = {ReactionStat(kind, start) : start \in Periods(kind, CountedReactions)}
    BY DEF ReactionStatsExact
  <1>1. \A n \in ignored : n.key # <<"reaction", kind>>
    <2>1. \A n \in ignored : n.key[1] = "post"
      BY DEF AnalysisInv, TableInv, Channels
    <2> QED
      BY <2>1
  <1>2. ASSUME NEW i, i.key = <<"reaction", kind>>
        PROVE  i \in Put(table, unprocessed) <=> \E s \in Periods(kind, CountedReactions) : i = ReactionStat(kind, s)
    <2>1. ~Exempt(i)
      BY <1>2 DEF Exempt
    <2>2. i \in Put(table, unprocessed) <=> i \in Produced
      <3>1. \A n \in ignored \cup unprocessed : n.key = i.key => n \in unprocessed
        BY <1>1, <1>2
      <3>2. PICK lost : lost = unprocessed
        OBVIOUS
      <3>3. /\ lost \subseteq ignored \cup unprocessed
            /\ \A n \in ignored \cup unprocessed : n.key = i.key => n \in lost
        BY <3>1, <3>2
      <3> QED
        BY <2>1, <3>2, <3>3, AtTheEnd DEF Ended
    <2>3. ASSUME i \in Produced PROVE \E s \in Periods(kind, CountedReactions) : i = ReactionStat(kind, s)
      <3>1. \A t : i # RowItem("post", t) /\ i # RowItem("reaction", t)
        BY <1>2, RowSlot, KindNames
      <3>2. \A k, s : i # PostStat(k, s)
        BY <1>2, PostStatSlot
      <3>3. PICK k \in Kinds : \E s \in Periods(k, CountedReactions) : i = ReactionStat(k, s)
        BY <2>3, <3>1, <3>2, ProducedAtEnd, Zenon
      <3>4. i.key = <<"reaction", k>>
        BY <3>3, ReactionStatSlot
      <3>5. k = kind
        BY <1>2, <3>4
      <3> QED
        BY <3>3, <3>5
    <2>4. ASSUME NEW s \in Periods(kind, CountedReactions), i = ReactionStat(kind, s) PROVE i \in Produced
      BY <2>4, ProducedAtEnd
    <2> QED
      BY <2>2, <2>3, <2>4
  <1>3. \A s : ReactionStat(kind, s).key = <<"reaction", kind>>
    BY ReactionStatSlot
  <1> QED
    BY <1>2, <1>3 DEF Stored

LEMMA RowsAtEnd == AnalysisInv => RowsStored
  <1> SUFFICES ASSUME AnalysisInv, phase \in {"done", "unread"} PROVE RowsStored
    BY DEF RowsStored
  <1>1. ASSUME NEW i, NEW job, i.key = <<job, "row">>
        PROVE  /\ ~Exempt(i)
               /\ i \in Produced <=> \/ \E t \in postRows : i = RowItem("post", t)
                                     \/ phase = "done" /\ \E t \in CountedReactions : i = RowItem("reaction", t)
    <2>1. ~Exempt(i)
      BY <1>1, KindNames DEF Exempt
    <2>2. \A k \in Kinds : \A s : i # PostStat(k, s) /\ i # ReactionStat(k, s)
      BY <1>1, PostStatSlot, ReactionStatSlot, KindNames
    <2>3. \A k \in ExactKinds : k \in Kinds
      BY DEF ExactKinds
    <2> QED
      BY <2>1, <2>2, <2>3, ProducedAtEnd, Zenon
  <1>2. Stored(Put(Put(table, ignored), unprocessed), <<"post", "row">>) = {RowItem("post", t) : t \in postRows}
    <2>1. ASSUME NEW i, i.key = <<"post", "row">>
          PROVE  i \in Put(Put(table, ignored), unprocessed) <=> \E t \in postRows : i = RowItem("post", t)
      <3>1. ~Exempt(i)
        BY <1>1, <2>1
      <3>2. i \in Put(Put(table, ignored), unprocessed) <=> i \in Put(table, ignored \cup unprocessed)
        BY <3>1, LostTwice
      <3>3. i \in Put(table, ignored \cup unprocessed) <=> i \in Produced
        <4>1. PICK lost : lost = ignored \cup unprocessed
          OBVIOUS
        <4> QED
          BY <2>1, <3>1, <4>1, AtTheEnd DEF Ended
      <3>4. \A t : i # RowItem("reaction", t)
        BY <2>1, RowSlot
      <3> QED
        BY <1>1, <2>1, <3>2, <3>3, <3>4, Zenon
    <2>2. \A t : RowItem("post", t).key = <<"post", "row">>
      BY RowSlot
    <2> QED
      BY <2>1, <2>2 DEF Stored
  <1>3. ASSUME phase = "done"
        PROVE  Stored(Put(table, unprocessed), <<"reaction", "row">>)
                   = {RowItem("reaction", t) : t \in CountedReactions}
    <2>1. ASSUME NEW i, i.key = <<"reaction", "row">>
          PROVE  i \in Put(table, unprocessed) <=> \E t \in CountedReactions : i = RowItem("reaction", t)
      <3>1. ~Exempt(i)
        BY <1>1, <2>1
      <3>2. i \in Put(table, unprocessed) <=> i \in Produced
        <4>1. \A n \in ignored : n.key[1] = "post"
          BY DEF AnalysisInv, TableInv, Channels
        <4>2. PICK lost : lost = unprocessed
          OBVIOUS
        <4>3. /\ lost \subseteq ignored \cup unprocessed
              /\ \A n \in ignored \cup unprocessed : n.key = i.key => n \in lost
          BY <2>1, <4>1, <4>2
        <4> QED
          BY <1>3, <3>1, <4>2, <4>3, AtTheEnd DEF Ended
      <3>3. \A t : i # RowItem("post", t)
        BY <2>1, RowSlot
      <3> QED
        BY <1>1, <1>3, <2>1, <3>2, <3>3, Zenon
    <2>2. \A t : RowItem("reaction", t).key = <<"reaction", "row">>
      BY RowSlot
    <2> QED
      BY <2>1, <2>2 DEF Stored
  <1> QED
    BY <1>2, <1>3 DEF RowsStored

LEMMA RequestApart == AnalysisInv => RequestDistinct
  <1> SUFFICES ASSUME AnalysisInv, phase # "failed" PROVE RequestDistinct
    BY DEF RequestDistinct
  <1>1. pending \in Seq(Items) /\ batch \in Seq(Items)
    BY DEF AnalysisInv, Typed, TypeOK
  <1>2. Request \in Seq(Items) /\ Distinct(Request)
    <2>1. CASE phase \in Saving /\ pending # <<>>
      <3>1. Distinct(batch) /\ Apart(batch, pending)
        BY <2>1 DEF AnalysisInv, TableInv, Lines
      <3>2. PICK x \in Items : x = Head(pending)
        BY <1>1, <2>1
      <3>3. x \in ItemsOf(pending)
        BY <1>1, <2>1, <3>2, ItemsOfSequences
      <3>4. Distinct(Append(batch, x))
        <4>1. \A i \in ItemsOf(batch) : Slot(i) # Slot(x)
          BY <3>1, <3>3 DEF Apart
        <4> QED
          BY <1>1, <3>1, <4>1, DistinctSequences
      <3>5. Append(batch, x) \in Seq(Items)
        BY <1>1
      <3> QED
        BY <2>1, <3>2, <3>4, <3>5 DEF Request
    <2>2. CASE ~(phase \in Saving /\ pending # <<>>)
      BY <1>1, <2>2 DEF Request, AnalysisInv, TableInv, Lines
    <2> QED
      BY <2>1, <2>2
  <1>3. PICK r \in Seq(Items) : r = Request /\ Distinct(r)
    BY <1>2
  <1>4. \A i, j \in DOMAIN r : <<r[i].key, r[i].at>> = <<r[j].key, r[j].at>> => i = j
    <2>1. DOMAIN r = 1 .. Len(r)
      OBVIOUS
    <2> QED
      BY <1>3, <2>1, Zenon DEF Distinct, Slot
  <1> QED
    BY <1>3, <1>4, Zenon DEF RequestDistinct

(***************************************************************************)
(* After an analysis the table has the statistics of every period with a     *)
(* post (extractPost and its flush functions), of whichever posts, and        *)
(* nothing else but the empty statistics of an analysis without posts.        *)
(***************************************************************************)
THEOREM StatsOfPosts == Spec => []PostStatsExact
  BY PostStatsAtEnd, AlwaysAnalysisInv, PTL

(***************************************************************************)
(* And exactly those of the reactions, if their query succeeds                *)
(* (extractReaction and reactionStatCounter).                               *)
(***************************************************************************)
THEOREM StatsOfReactions == Spec => []ReactionStatsExact
  BY ReactionStatsAtEnd, AlwaysAnalysisInv, PTL

(***************************************************************************)
(* And an item for every row that is read, however the items fall into        *)
(* batches.                                                                 *)
(***************************************************************************)
THEOREM AllRowsStored == Spec => []RowsStored
  BY RowsAtEnd, AlwaysAnalysisInv, PTL

(***************************************************************************)
(* BatchWriteItem gets no two items with the same key and time.               *)
(***************************************************************************)
THEOREM DistinctRequests == Spec => []RequestDistinct
  BY RequestApart, AlwaysAnalysisInv, PTL

(***************************************************************************)
(* DynamoDB refuses no request of statSaver, for its size or for an item that *)
(* is in it twice (save, flush and the counters that fill the batch).          *)
(***************************************************************************)
THEOREM RequestsAccepted == Spec => []RequestAccepted
  BY RequestsFit, DistinctRequests, PTL DEF RequestAccepted

=============================================================================
