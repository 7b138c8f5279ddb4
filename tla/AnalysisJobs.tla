----------------------------- MODULE AnalysisJobs -----------------------------
(***************************************************************************)
(* What analyze_posts and analyze_reactions compute for an account            *)
(* (background/post.go, reaction.go) and how it gets into the table of        *)
(* DynamoDB (background/util.go, store/dynamodb/cachedata.go).  Both jobs go   *)
(* over the rows in the order of time, copy each into the table and count it  *)
(* in its week, year and decade; a period is finished when a row of another    *)
(* one comes.  The two jobs count in different ways.                         *)
(*                                                                         *)
(* A row is its timestamp, which is unique for an account and a table.  A    *)
(* count is the set of rows counted.  After a new archive both run again,     *)
(* over all rows and into the same table.                                   *)
(***************************************************************************)
EXTENDS Calendar, Sequences, FiniteSets

CONSTANTS
    Post,         \* timestamps of the posts with a type an account may have
    Reaction,     \* timestamps of its reactions
    Now,          \* the time of the analysis
    BatchSize,    \* items that statSaver collects, 25
    RequestLimit, \* items that AddFBStats accepts, 25
    MaxRounds,    \* bound on the analyses of the account
    MaxLost,      \* bound on losses in an analysis (see CanLose, AddFBStats)
    Faults        \* "write": a call of the table fails;
                  \* "unprocessed": BatchWriteItem leaves items out;
                  \* "query": the reactions cannot be read

ASSUME RowAssumption ==
    /\ Post \subseteq Int /\ Reaction \subseteq Int
    /\ IsFiniteSet(Post) /\ IsFiniteSet(Reaction)
ASSUME NowAssumption == Now \in Int /\ \A t \in Post : t < Now
ASSUME BatchAssumption == BatchSize \in Nat \ {0} /\ RequestLimit \in Nat /\ BatchSize <= RequestLimit
ASSUME RoundAssumption == MaxRounds \in Nat /\ MaxLost \in Nat
ASSUME FaultAssumption == Faults \subseteq {"write", "unprocessed", "query"}

VARIABLES
    postRows,     \* the account's posts in the database
    reactionRows, \* and its reactions
    phase,        \* what the jobs are doing
    todo,         \* the rows the running job has not come to
    lastAt,       \* lastPostTimestamp, lastTimestamp
    posts,        \* postStatisticCounter, by kind of period
    reactions,    \* reactionStatCounter, by kind of period
    pending,      \* items the job is about to write, one by one
    batch,        \* the queue of statSaver
    table,        \* the account's items in DynamoDB
    ignored,      \* items of this analysis whose write failed unnoticed
    unprocessed,  \* items of this analysis that BatchWriteItem left out
    round         \* number of this analysis

rows == <<postRows, reactionRows>>
tableVars == <<table, ignored, unprocessed>>
vars == <<rows, phase, todo, lastAt, posts, reactions, pending, batch, tableVars, round>>

-----------------------------------------------------------------------------
(* Items of the table: its keys are an account's collections. *)

Jobs == {"post", "reaction"}

SubPeriod(kind, t) ==
    CASE kind = "week" -> AbsDay(t) [] kind = "year" -> AbsMonth(t) [] OTHER -> AbsYear(t)

RowItem(job, t) == [key |-> <<job, "row">>, at |-> t, of |-> {t}, subs |-> {}, diff |-> <<0, 1>>]
StatItem(job, kind, start, of, subs, diff) ==
    [key |-> <<job, kind>>, at |-> start, of |-> of, subs |-> subs, diff |-> diff]

\* The rows of each sub-period, kept under its name.
GroupsOf(kind, of) ==
    {[name |-> s, of |-> {t \in of : SubPeriod(kind, t) = s}] : s \in {SubPeriod(kind, t) : t \in of}}

ItemsOf(seq) == {seq[i] : i \in DOMAIN seq}

\* Mutant: an item joins the one with the same key and time.
Put_KeepsOld(stored, items) == stored \cup items

\* An item replaces the one with the same key and time.
Put(stored, items) ==
    {old \in stored : \A new \in items : <<old.key, old.at>> # <<new.key, new.at>>} \cup items

\* A call that loses items does so while fewer than MaxLost are lost.
CanLose(fault) == fault \in Faults /\ Cardinality(ignored \cup unprocessed) < MaxLost

AddFBStat(item) ==
    /\ \/ table' = Put(table, {item}) /\ UNCHANGED ignored
       \/ CanLose("write") /\ ignored' = ignored \cup {item} /\ UNCHANGED table
    /\ UNCHANGED unprocessed

\* One call leaves out MaxLost items at most.
AddFBStats(seq) ==
    /\ Len(seq) <= RequestLimit
    /\ \/ table' = Put(table, ItemsOf(seq)) /\ UNCHANGED unprocessed
       \/ /\ CanLose("unprocessed")
          /\ \E left \in SUBSET ItemsOf(seq) :
                 /\ Cardinality(left) <= MaxLost
                 /\ table' = Put(table, ItemsOf(seq) \ left)
                 /\ unprocessed' = unprocessed \cup left
    /\ UNCHANGED ignored

\* statSaver.flush calls the table only with a batch that is not empty.
AddFBStatsFails(seq) == Len(seq) > RequestLimit \/ ("write" \in Faults /\ seq # <<>>)

-----------------------------------------------------------------------------
(* The counters. *)

NewPostCounter == [cur |-> 0, last |-> 0, lastTotal |-> 0, of |-> {}, done |-> <<>>]

\* Mutant: the growth is always that over the last period with data.
FlushPosts_AnyPrevious(kind, c) ==
    LET diff == GetDiff(Cardinality(c.of), c.lastTotal)
    IN [c EXCEPT !.done = Append(@, StatItem("post", kind, c.cur, c.of, GroupsOf(kind, c.of), diff)),
                 !.lastTotal = Cardinality(c.of),
                 !.of = {}]

\* flushWeekData, flushYearData, flushDecadeData: the growth is over the period
\* before, if that is the last one with data, and else 1.
FlushPosts(kind, c) ==
    LET diff == IF c.last = AbsPeriod(kind, c.cur - 1)
                THEN GetDiff(Cardinality(c.of), c.lastTotal)
                ELSE <<1, 1>>
    IN [c EXCEPT !.done = Append(@, StatItem("post", kind, c.cur, c.of, GroupsOf(kind, c.of), diff)),
                 !.lastTotal = Cardinality(c.of),
                 !.of = {}]

\* countWeek, countYear, countDecade: 0 stands for no current period, although
\* the year 1970 and its decade begin at 0.
CountPostIn(kind, c, t) ==
    LET period == AbsPeriod(kind, t)
        opened == IF c.cur = 0 THEN [c EXCEPT !.last = 0, !.cur = period] ELSE c
        turned == IF period = opened.cur THEN opened
                  ELSE [FlushPosts(kind, opened) EXCEPT !.last = opened.cur, !.cur = period]
    IN [turned EXCEPT !.of = @ \cup {t}]

\* No period is open while none of its rows is counted.
NewReactionCounter == [start |-> 0, of |-> {}, subs |-> <<>>, lastQuantity |-> 0]

\* reactionStatCounter.flushStat
OpenStat(kind, c) ==
    StatItem("reaction", kind, c.start, c.of, ItemsOf(c.subs),
             GetDiff(Cardinality(c.of), c.lastQuantity))

\* Mutant: every row gives away the statistics so far.
ClosedBy_EveryRow(kind, c, t) == IF c.of # {} THEN <<OpenStat(kind, c)>> ELSE <<>>

\* The statistics a counter gives away when a row at t comes.
ClosedBy(kind, c, t) ==
    IF c.of # {} /\ c.start # AbsPeriod(kind, t) THEN <<OpenStat(kind, c)>> ELSE <<>>

\* A row joins the last sub-period if that is its own, and else begins one.
AddToSubs(subs, name, t) ==
    IF subs # <<>> /\ subs[Len(subs)].name = name
    THEN [subs EXCEPT ![Len(subs)].of = @ \cup {t}]
    ELSE Append(subs, [name |-> name, of |-> {t}])

\* Mutant: the quantity of the last period is forgotten.
CountReactionIn_Forgets(kind, c, t) ==
    LET fresh == [NewReactionCounter EXCEPT !.start = AbsPeriod(kind, t)]
        turned == IF c.of = {} \/ ClosedBy(kind, c, t) # <<>> THEN fresh ELSE c
    IN [turned EXCEPT !.of = @ \cup {t}, !.subs = AddToSubs(@, SubPeriod(kind, t), t)]

\* reactionStatCounter.countWeek, countYear, countDecade
CountReactionIn(kind, c, t) ==
    LET fresh == [NewReactionCounter EXCEPT
                     !.start = AbsPeriod(kind, t),
                     !.lastQuantity = Cardinality(c.of)]
        turned == IF c.of = {} \/ ClosedBy(kind, c, t) # <<>> THEN fresh ELSE c
    IN [turned EXCEPT !.of = @ \cup {t}, !.subs = AddToSubs(@, SubPeriod(kind, t), t)]

-----------------------------------------------------------------------------
(* The jobs. *)

Saving == {"posts", "reactions", "reaction_stats"}
Phases == Saving \cup {"post_stats", "done", "unread", "failed"}

\* The rows after another archive brought some.
More(found, all) == {more \in SUBSET all : found \subseteq more}

\* analyze_posts reads the account's posts and begins with empty counters.
BeginPosts(found) ==
    /\ phase' = "posts"
    /\ todo' = found
    /\ lastAt' = Now
    /\ posts' = [k \in Kinds |-> NewPostCounter]
    /\ reactions' = [k \in Kinds |-> NewReactionCounter]
    /\ pending' = <<>>
    /\ batch' = <<>>

Init ==
    /\ postRows \in SUBSET Post
    /\ reactionRows = {}
    /\ phase = "posts"
    /\ todo = postRows
    /\ lastAt = Now
    /\ posts = [k \in Kinds |-> NewPostCounter]
    /\ reactions = [k \in Kinds |-> NewReactionCounter]
    /\ pending = <<>>
    /\ batch = <<>>
    /\ table = {}
    /\ ignored = {}
    /\ unprocessed = {}
    /\ round = 1

\* ORDER BY timestamp ASC
Earliest(rest) == CHOOSE t \in rest : \A other \in rest : t <= other

\* One post of extractPost.
CountPost ==
    /\ phase = "posts" /\ pending = <<>> /\ todo # {}
    /\ LET t == Earliest(todo)
       IN /\ todo' = todo \ {t}
          /\ IF t = lastAt
             THEN UNCHANGED <<lastAt, posts, pending>>
             ELSE /\ lastAt' = t
                  /\ posts' = [k \in Kinds |-> CountPostIn(k, posts[k], t)]
                  /\ pending' = <<RowItem("post", t)>>
    /\ UNCHANGED <<rows, phase, reactions, batch, tableVars, round>>

\* One reaction of extractReaction; lastTimestamp begins as 0.
CountReaction ==
    /\ phase = "reactions" /\ pending = <<>> /\ todo # {}
    /\ LET t == Earliest(todo)
           closed == [k \in Kinds |-> ClosedBy(k, reactions[k], t)]
       IN /\ todo' = todo \ {t}
          /\ IF t = lastAt
             THEN UNCHANGED <<lastAt, reactions, pending>>
             ELSE /\ lastAt' = t
                  /\ reactions' = [k \in Kinds |-> CountReactionIn(k, reactions[k], t)]
                  /\ pending' = <<RowItem("reaction", t)>>
                                \o closed["week"] \o closed["year"] \o closed["decade"]
    /\ UNCHANGED <<rows, phase, posts, batch, tableVars, round>>

\* Mutant: the batch is written when it is over the limit.
Save_TooLate ==
    /\ phase \in Saving /\ pending # <<>>
    /\ pending' = Tail(pending)
    /\ LET full == Append(batch, Head(pending))
       IN IF Len(full) <= BatchSize
          THEN batch' = full /\ UNCHANGED <<phase, tableVars>>
          ELSE \/ AddFBStats(full) /\ batch' = <<>> /\ UNCHANGED phase
               \/ AddFBStatsFails(full) /\ batch' = full /\ phase' = "failed" /\ UNCHANGED tableVars
    /\ UNCHANGED <<rows, todo, lastAt, posts, reactions, round>>

\* statSaver.save; both jobs end with its error and with the batch in memory.
Save ==
    /\ phase \in Saving /\ pending # <<>>
    /\ pending' = Tail(pending)
    /\ LET full == Append(batch, Head(pending))
       IN IF Len(full) < BatchSize
          THEN batch' = full /\ UNCHANGED <<phase, tableVars>>
          ELSE \/ AddFBStats(full) /\ batch' = <<>> /\ UNCHANGED phase
               \/ AddFBStatsFails(full) /\ batch' = full /\ phase' = "failed" /\ UNCHANGED tableVars
    /\ UNCHANGED <<rows, todo, lastAt, posts, reactions, round>>

\* extractPost after its loop: the error of the last flush is dropped.
EndPosts ==
    /\ phase = "posts" /\ pending = <<>> /\ todo = {}
    /\ phase' = "post_stats"
    /\ \/ AddFBStats(batch)
       \/ /\ AddFBStatsFails(batch) /\ CanLose("write")
          /\ ignored' = ignored \cup ItemsOf(batch)
          /\ UNCHANGED <<table, unprocessed>>
    /\ LET flushed == [k \in Kinds |-> FlushPosts(k, posts[k])]
       IN /\ posts' = flushed
          /\ pending' = flushed["week"].done \o flushed["year"].done \o flushed["decade"].done
    /\ UNCHANGED <<rows, todo, lastAt, reactions, batch, round>>

\* extractPost, the statistics; the error of a write is only reported.
PutPostStat ==
    /\ phase = "post_stats" /\ pending # <<>>
    /\ AddFBStat(Head(pending))
    /\ pending' = Tail(pending)
    /\ UNCHANGED <<rows, phase, todo, lastAt, posts, reactions, batch, round>>

\* analyze_reactions begins with a saver of its own.
BeginReactions ==
    /\ phase = "post_stats" /\ pending = <<>>
    /\ phase' = "reactions"
    /\ reactionRows' \in More(reactionRows, Reaction)
    /\ todo' = reactionRows'
    /\ lastAt' = 0
    /\ batch' = <<>>
    /\ UNCHANGED <<postRows, posts, reactions, pending, tableVars, round>>

\* extractReaction drops the error of its query: it goes on without rows, counts
\* and writes nothing, and ends as if all were well.
MissReactions ==
    /\ phase = "post_stats" /\ pending = <<>> /\ "query" \in Faults
    /\ phase' = "unread"
    /\ reactionRows' \in More(reactionRows, Reaction)
    /\ todo' = {}
    /\ lastAt' = 0
    /\ batch' = <<>>
    /\ UNCHANGED <<postRows, posts, reactions, pending, tableVars, round>>

\* reactionStatCounter.flush
EndReactions ==
    /\ phase = "reactions" /\ pending = <<>> /\ todo = {}
    /\ phase' = "reaction_stats"
    /\ LET open == [k \in Kinds |-> IF reactions[k].of = {} THEN <<>> ELSE <<OpenStat(k, reactions[k])>>]
       IN pending' = open["week"] \o open["year"] \o open["decade"]
    /\ UNCHANGED <<rows, todo, lastAt, posts, reactions, batch, tableVars, round>>

\* Mutant: the error of the last flush is dropped here, too.
FlushReactions_Dropped ==
    /\ phase = "reaction_stats" /\ pending = <<>>
    /\ phase' = "done"
    /\ \/ AddFBStats(batch)
       \/ AddFBStatsFails(batch) /\ UNCHANGED tableVars
    /\ UNCHANGED <<rows, todo, lastAt, posts, reactions, pending, batch, round>>

\* extractReaction, the last flush.
FlushReactions ==
    /\ phase = "reaction_stats" /\ pending = <<>>
    /\ \/ AddFBStats(batch) /\ phase' = "done"
       \/ AddFBStatsFails(batch) /\ phase' = "failed" /\ UNCHANGED tableVars
    /\ UNCHANGED <<rows, todo, lastAt, posts, reactions, pending, batch, round>>

\* A new archive brings rows, and the account is analysed again.
NewRows ==
    /\ phase \in {"done", "unread", "failed"} /\ round < MaxRounds
    /\ round' = round + 1
    /\ postRows' \in More(postRows, Post)
    /\ UNCHANGED reactionRows
    /\ BeginPosts(postRows')
    /\ ignored' = {} /\ unprocessed' = {}
    /\ UNCHANGED table

Next ==
    \/ CountPost \/ EndPosts \/ PutPostStat
    \/ BeginReactions \/ MissReactions \/ CountReaction \/ EndReactions \/ FlushReactions
    \/ Save
    \/ NewRows

Spec == Init /\ [][Next]_vars

-----------------------------------------------------------------------------
(* Properties. *)

Items ==
    [key : Jobs \X (Kinds \cup {"row"}), at : Int, of : SUBSET (Post \cup Reaction),
     subs : SUBSET [name : Int, of : SUBSET (Post \cup Reaction)], diff : Int \X (Nat \ {0})]

PostCounter ==
    [cur : Int, last : Int, lastTotal : Nat, of : SUBSET Post, done : Seq(Items)]
ReactionCounter ==
    [start : Int, of : SUBSET Reaction, lastQuantity : Nat,
     subs : Seq([name : Int, of : SUBSET Reaction])]

TypeOK ==
    /\ postRows \subseteq Post /\ reactionRows \subseteq Reaction
    /\ phase \in Phases
    /\ todo \subseteq postRows \cup reactionRows
    /\ lastAt \in Int
    /\ posts \in [Kinds -> PostCounter]
    /\ reactions \in [Kinds -> ReactionCounter]
    /\ pending \in Seq(Items) /\ batch \in Seq(Items)
    /\ table \subseteq Items /\ ignored \subseteq Items /\ unprocessed \subseteq Items
    /\ round \in Nat

\* A reaction at 0 is passed over if it is the first.
CountedReactions == {t \in reactionRows : t # 0 \/ \E s \in reactionRows : s < 0}

RowsIn(kind, start, found) == {t \in found : AbsPeriod(kind, t) = start}
Periods(kind, found) == {AbsPeriod(kind, t) : t \in found}

\* What the statistics of the posts should be: the growth is over the period
\* before, and 1 if nothing was posted in it.
PostStat(kind, start) ==
    LET of     == RowsIn(kind, start, postRows)
        before == RowsIn(kind, AbsPeriod(kind, start - 1), postRows)
    IN StatItem("post", kind, start, of, GroupsOf(kind, of),
                IF before = {} THEN <<1, 1>> ELSE GetDiff(Cardinality(of), Cardinality(before)))

\* What those of the reactions should be: the growth is over the last period
\* with a reaction, whenever that was.
ReactionStat(kind, start) ==
    LET of      == RowsIn(kind, start, CountedReactions)
        earlier == {t \in CountedReactions : t < start}
        last    == {t \in earlier : \A u \in earlier : AbsPeriod(kind, u) <= AbsPeriod(kind, t)}
    IN StatItem("reaction", kind, start, of, GroupsOf(kind, of),
                GetDiff(Cardinality(of), Cardinality(last)))

Stored(found, key) == {i \in found : i.key = key}

\* What analyze_posts writes of a kind of period when no post counts.
EmptyStat(kind) == StatItem("post", kind, 0, {}, {}, <<1, 1>>)

(***************************************************************************)
(* Once an analysis is over the table has the statistics of every week, year *)
(* and decade with a post, each with its posts, their sub-periods and the     *)
(* growth, after a second analysis too, but for items whose write failed.     *)
(* Nothing else is left there of an earlier analysis but the empty statistic  *)
(* of an analysis without posts, at time 0, where no later one replaces it.   *)
(* It holds for a kind of period unless a post lies in the period that starts *)
(* at 0, which the counter takes for none: the 70s are counted into the 80s.  *)
(***************************************************************************)
PostStatsExact ==
    phase \in {"done", "unread"} =>
        \A kind \in Kinds :
            0 \notin Periods(kind, postRows) =>
                LET found == Stored(Put(table, ignored), <<"post", kind>>)
                IN /\ found \ {EmptyStat(kind)}
                          = {PostStat(kind, start) : start \in Periods(kind, postRows)}
                   /\ postRows = {} => EmptyStat(kind) \in found

(***************************************************************************)
(* Once the reactions are read and analysed the table has exactly their      *)
(* statistics, too: a write that fails ends the job, so that the archive is   *)
(* not marked processed.  What BatchWriteItem leaves out is missing, and a    *)
(* query that fails leaves the table as it was ("unread"), although the       *)
(* archive is marked processed.                                             *)
(***************************************************************************)
ReactionStatsExact ==
    phase = "done" =>
        \A kind \in Kinds :
            Stored(Put(table, unprocessed), <<"reaction", kind>>)
                = {ReactionStat(kind, start) : start \in Periods(kind, CountedReactions)}

(***************************************************************************)
(* Every post with a type and every reaction that is read (but a first one at *)
(* 0) gets into the table as an item of its own, although they are written in *)
(* batches of both items and statistics: the last, smaller batch is not       *)
(* forgotten, and a full one is not written twice.                          *)
(***************************************************************************)
RowsStored ==
    /\ phase \in {"done", "unread"} =>
           Stored(Put(Put(table, ignored), unprocessed), <<"post", "row">>)
               = {RowItem("post", t) : t \in postRows}
    /\ phase = "done" =>
           Stored(Put(table, unprocessed), <<"reaction", "row">>)
               = {RowItem("reaction", t) : t \in CountedReactions}

\* The batch with the item that is saved next.
Request ==
    IF phase \in Saving /\ pending # <<>> THEN Append(batch, Head(pending)) ELSE batch

(***************************************************************************)
(* No request to the table is refused for its size: the batch never grows    *)
(* past what AddFBStats takes, from one job to the next and over a write that *)
(* failed, after which the batch is full.                                   *)
(***************************************************************************)
RequestFits == phase # "failed" => Len(Request) <= RequestLimit

(***************************************************************************)
(* No request has two items with the same key and time, which BatchWriteItem *)
(* refuses: a period is closed once, though the rows after it close others.   *)
(***************************************************************************)
RequestDistinct ==
    phase # "failed" =>
        LET request == Request IN
        \A i, j \in DOMAIN request :
            <<request[i].key, request[i].at>> = <<request[j].key, request[j].at>> => i = j

(***************************************************************************)
(* BatchWriteItem takes every request: a job fails only where the call does. *)
(***************************************************************************)
RequestAccepted == RequestFits /\ RequestDistinct

=============================================================================
