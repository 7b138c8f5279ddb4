----------------------------- MODULE SentimentJob -----------------------------
(***************************************************************************)
(* extract_sentiment (background/sentiment.go): it asks the data source for    *)
(* the sentiment of every week from the account's first post to its last,      *)
(* makes statistics of weeks, years and decades of the answers, and hands the  *)
(* archive on to analyze_reactions when it succeeds.  The worker registers it, *)
(* and no task is sent for it in this version.                              *)
(*                                                                         *)
(* A score is a natural number.  The job may run again, with other scores and *)
(* more weeks, over the statistics it left.                                 *)
(***************************************************************************)
EXTENDS Calendar, Sequences, FiniteSets

CONSTANTS
    PostTime,  \* timestamps of the first and last post
    Score,     \* sentiments the data source gives
    BatchSize, \* items that statSaver collects, 25
    MaxRuns,   \* bound on the runs of the job
    MaxLeft    \* bound on the items that DynamoDB leaves unprocessed in a run

ASSUME SentimentAssumption == PostTime \subseteq Int /\ MaxRuns \in Nat

VARIABLES
    step,    \* what the job is at
    week,    \* timestampOffset
    stop,    \* nextWeek
    stats,   \* current and last statistic of each kind of period
    toSave,  \* statistics on their way to the saver
    batch,   \* the saver's queue
    stored,  \* the account's sentiment items in DynamoDB
    unprocessed, \* items of this run that the answers of DynamoDB gave back
    scores,  \* what the data source has answered in this run, by week
    sent,    \* analyze_reactions has been sent in this run
    runs

sentimentVars == <<step, week, stop, stats, toSave, batch, stored, unprocessed, scores, sent,
                   runs>>

\* A statistic that is not there.
NoStat == [start |-> -1, values |-> <<>>, value |-> 0]
NoStats == [k \in Kinds |-> [current |-> NoStat, last |-> NoStat]]

SentimentInit ==
    /\ step = "idle" /\ week = 0 /\ stop = 0
    /\ stats = NoStats /\ toSave = <<>> /\ batch = <<>> /\ stored = {}
    /\ unprocessed = {} /\ scores = <<>> /\ sent = FALSE /\ runs = 0

-----------------------------------------------------------------------------
(* The counter. *)

SumOf(values) == LET sum[i \in 0..Len(values)] == IF i = 0 THEN 0 ELSE sum[i - 1] + values[i]
                 IN sum[Len(values)]

\* averageSentiment: the mean, rounded to the nearest number and up from the middle.
Average(values) == (2 * SumOf(values) + Len(values)) \div (2 * Len(values))

\* Mutant: the statistic is compared with its own value.
Finished_OverItself(kind, stat) ==
    LET value == Average(stat.current.values)
    IN [key |-> kind, at |-> stat.current.start, value |-> value, diff |-> GetDiff(value, value)]

\* flushStat: the item of the current period, with the growth over the last one.
Finished(kind, stat) ==
    LET value == Average(stat.current.values)
    IN [key |-> kind, at |-> stat.current.start, value |-> value,
        diff |-> GetDiff(value, IF stat.last = NoStat THEN 0 ELSE stat.last.value)]

Turned(kind, stat, t) ==
    stat.current # NoStat /\ stat.current.start # AbsPeriod(kind, t)

\* countWeek, countYear, countDecade.
Counted(kind, stat, t, score) ==
    LET open == [NoStat EXCEPT !.start = AbsPeriod(kind, t)]
        done == [stat.current EXCEPT !.value = Average(stat.current.values)]
        turned == IF Turned(kind, stat, t) THEN [current |-> open, last |-> done]
                  ELSE IF stat.current = NoStat THEN [stat EXCEPT !.current = open]
                  ELSE stat
    IN [turned EXCEPT !.current.values = Append(@, score)]

\* The items of the kinds in S, in the order of the calls.
ItemsFor(S) ==
    LET item(k) == IF k \in S THEN <<Finished(k, stats[k])>> ELSE <<>>
    IN item("week") \o item("year") \o item("decade")

\* An item replaces the one of the same key and time.
Put(new) == {old \in stored : \A n \in new : <<old.key, old.at>> # <<n.key, n.at>>} \cup new

\* AddFBStats succeeds: BatchWriteItem may leave any of the items, and names them in an answer
\* that the store does not read.
AddFBStats(seq) ==
    LET new == {seq[i] : i \in DOMAIN seq}
    IN \E left \in SUBSET new :
           /\ Cardinality(unprocessed \cup left) <= MaxLeft
           /\ stored' = Put(new \ left)
           /\ unprocessed' = unprocessed \cup left

-----------------------------------------------------------------------------
(* The job. *)

Ended(success) ==
    /\ step' = IF success THEN "done" ELSE "failed"
    /\ sent' = success

\* extractSentiment up to the loop: the queries of the first and of the last post, either of
\* which may fail, and the first may find none.
BeginSentiment ==
    /\ step \in {"idle", "done", "failed"} /\ runs < MaxRuns
    /\ runs' = runs + 1
    /\ stats' = NoStats /\ toSave' = <<>> /\ batch' = <<>> /\ scores' = <<>>
    /\ unprocessed' = {}
    /\ \/ /\ Ended(FALSE) /\ UNCHANGED <<week, stop>>
       \/ /\ stored \cup unprocessed = {} /\ Ended(TRUE) /\ UNCHANGED <<week, stop>>
       \/ \E firstPost, lastPost \in PostTime :
              /\ firstPost <= lastPost
              /\ week' = AbsWeek(firstPost)
              /\ stop' = AbsWeek(lastPost) + WeekSeconds
              /\ step' = "ask" /\ sent' = FALSE
    /\ UNCHANGED stored

\* Mutant: a period that ends is not given away.
AskWeek_NoFlush ==
    /\ step = "ask" /\ toSave = <<>> /\ week < stop
    /\ \E score \in Score :
           /\ scores' = [w \in DOMAIN scores \cup {week} |-> IF w = week THEN score ELSE scores[w]]
           /\ stats' = [k \in Kinds |-> Counted(k, stats[k], week, score)]
           /\ toSave' = ItemsFor({k \in Kinds \ {"year"} : Turned(k, stats[k], week)})
    /\ week' = week + WeekSeconds
    /\ UNCHANGED <<step, stop, batch, stored, unprocessed, sent, runs>>

\* A turn of the loop: GetLast7DaysOfSentiment and the counter.
AskWeek ==
    /\ step = "ask" /\ toSave = <<>> /\ week < stop
    /\ \/ /\ \E score \in Score :
                 /\ scores' = [w \in DOMAIN scores \cup {week} |->
                                  IF w = week THEN score ELSE scores[w]]
                 /\ stats' = [k \in Kinds |-> Counted(k, stats[k], week, score)]
          /\ toSave' = ItemsFor({k \in Kinds : Turned(k, stats[k], week)})
          /\ week' = week + WeekSeconds
          /\ UNCHANGED <<step, sent>>
       \/ Ended(FALSE) /\ UNCHANGED <<week, stats, toSave, scores>>
    /\ UNCHANGED <<stop, batch, stored, unprocessed, runs>>

\* After the loop, counter.flush.
Flush ==
    /\ step = "ask" /\ toSave = <<>> /\ week >= stop
    /\ step' = "flush"
    /\ toSave' = ItemsFor({k \in Kinds : stats[k].current # NoStat})
    /\ UNCHANGED <<week, stop, stats, batch, stored, unprocessed, scores, sent, runs>>

\* statSaver.save; a write that fails ends the job.
Save ==
    /\ step \in {"ask", "flush"} /\ toSave # <<>>
    /\ LET full == Append(batch, Head(toSave))
       IN IF Len(full) < BatchSize
          THEN batch' = full /\ toSave' = Tail(toSave) /\ UNCHANGED <<step, sent, stored, unprocessed>>
          ELSE \/ /\ AddFBStats(full) /\ batch' = <<>> /\ toSave' = Tail(toSave)
                  /\ UNCHANGED <<step, sent>>
               \/ Ended(FALSE) /\ UNCHANGED <<stored, unprocessed, batch, toSave>>
    /\ UNCHANGED <<week, stop, stats, scores, runs>>

\* saver.flush, and the task that is sent if all went well.
Finish ==
    /\ step = "flush" /\ toSave = <<>>
    /\ \/ AddFBStats(batch) /\ Ended(TRUE)
       \/ batch # <<>> /\ Ended(FALSE) /\ UNCHANGED <<stored, unprocessed>>
    /\ UNCHANGED <<week, stop, stats, toSave, batch, scores, runs>>

SentimentNext == BeginSentiment \/ AskWeek \/ Flush \/ Save \/ Finish

SentimentSpec == SentimentInit /\ [][SentimentNext]_sentimentVars

-----------------------------------------------------------------------------
(* Properties. *)

SentimentTypeOK ==
    /\ step \in {"idle", "ask", "flush", "done", "failed"}
    /\ week \in Int /\ stop \in Int
    /\ \A k \in Kinds : stats[k].current.start \in Int /\ stats[k].last.start \in Int
    /\ \A i \in stored \cup unprocessed : i.key \in Kinds /\ i.at \in Int
    /\ sent \in BOOLEAN /\ runs \in 0..MaxRuns

PeriodsOf(kind) == {AbsPeriod(kind, w) : w \in DOMAIN scores}
WeeksIn(kind, start) == {w \in DOMAIN scores : AbsPeriod(kind, w) = start}

\* The n-th week of a set.
NthWeek(weeks, n) == CHOOSE w \in weeks : Cardinality({u \in weeks : u <= w}) = n

\* The mean of a period, rounded.
Mean(kind, start) ==
    LET weeks == WeeksIn(kind, start)
        n == Cardinality(weeks)
        sum == SumOf([i \in 1..n |-> scores[NthWeek(weeks, i)]])
    IN (2 * sum + n) \div (2 * n)

\* What the statistic of a period should be: the growth is over the period before, as the
\* weeks follow each other without a gap.
StatOf(kind, start) ==
    LET before == AbsPeriod(kind, start - 1)
    IN [key |-> kind, at |-> start, value |-> Mean(kind, start),
        diff |-> GetDiff(Mean(kind, start),
                         IF before \in PeriodsOf(kind) THEN Mean(kind, before) ELSE 0)]

\* analyze_reactions is sent for an archive only once the statistics of every week, year and
\* decade of this run are in the table, but for those DynamoDB left unprocessed in an answer that
\* nobody reads: were these written again, the table would have for each period the rounded mean
\* of the weeks that begin in it and the growth over the one before, and nothing else.  They are
\* written in batches, over those of earlier runs, by a job that any call may end.
SentimentExact ==
    sent => \A kind \in Kinds :
        {i \in Put(unprocessed) : i.key = kind /\ i.at \in PeriodsOf(kind)}
            = {StatOf(kind, start) : start \in PeriodsOf(kind)}
=============================================================================
