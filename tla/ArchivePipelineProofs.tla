----------------------- MODULE ArchivePipelineProofs -----------------------
(***************************************************************************)
(* Theorems about ArchivePipeline, for every set of archives, accounts,      *)
(* workers and rows, and every number of events and requests: the types; that *)
(* an archive that is not finished has somebody at work on it, for which the  *)
(* proof follows a task from the step that queues it to the step that ends it *)
(* or hands the archive on; that no row is left uncounted; that a job which  *)
(* reads an object finds it; and that with no message delivered twice every  *)
(* archive has one responsible, from which follow its error, its lifecycle,  *)
(* its statistics and its notification.                                      *)
(***************************************************************************)
EXTENDS ArchivePipeline, SequenceTheorems, FiniteSetTheorems, TLAPS

\* Steps of the jobs that may end in jobErrorHandler's treatment of an archive.
ChainSteps == Steps \ {"idle", "hash", "time", "notify"}

(***************************************************************************)
(* Tasks built by the handlers and jobs are tasks of the queue.             *)
(***************************************************************************)
LEMMA TaskTypes ==
    /\ \A n \in ArchiveNames, a \in Archive : ArchiveTask(n, a) \in Task
    /\ \A n \in AccountNames, u \in Account : AccountTask(n, u) \in Task
    /\ NoTask \notin Task
BY DEF ArchiveTask, AccountTask, Task, NoTask, ArchiveNames, AccountNames, ChainNames

(***************************************************************************)
(* A worker at a step of the chain executes a chain task of an archive, and  *)
(* one at the hash, time or notification step a task of that name.           *)
(***************************************************************************)
LEMMA StepTask ==
    ASSUME JobAtStep, NEW w \in Worker
    PROVE  /\ pc[w] \in ChainSteps =>
                 job[w] \in Task /\ job[w].name \in ChainNames /\ job[w].on \in Archive
           /\ pc[w] = "hash" => /\ job[w] \in Task /\ job[w].on \in Archive
                                /\ job[w].name = "generate_hash_content"
           /\ pc[w] \in {"time", "notify"} =>
                 /\ job[w] \in Task /\ job[w].on \in Account
                 /\ job[w].name \in AccountNames
           /\ pc[w] = "idle" => job[w] = NoTask
BY DEF JobAtStep, StepsOf, Task, ChainSteps, Steps, FailingSteps, ChainNames,
       ArchiveNames, AccountNames

\* What is invariant about the types needs the task a step belongs to.
Typed == TypeOK /\ JobAtStep

(***************************************************************************)
(* The steps of a job follow each other within the job of one task.         *)
(***************************************************************************)
LEMMA StepOrder ==
    \A n :
        /\ "fetch" \in StepsOf(n) => "mark_stored" \in StepsOf(n)
        /\ "mark_stored" \in StepsOf(n) => "send_parse" \in StepsOf(n)
        /\ "mark_processing" \in StepsOf(n) =>
              "parse_posts" \in StepsOf(n) /\ "send_posts" \in StepsOf(n)
        /\ "parse_posts" \in StepsOf(n) => "parse_reactions" \in StepsOf(n)
        /\ "parse_reactions" \in StepsOf(n) => "send_posts" \in StepsOf(n)
        /\ "read_posts" \in StepsOf(n) => "save_posts" \in StepsOf(n)
        /\ "save_posts" \in StepsOf(n) => "send_reactions" \in StepsOf(n)
        /\ "read_reactions" \in StepsOf(n) => "save_reactions" \in StepsOf(n)
        /\ "save_reactions" \in StepsOf(n) => "send_tail" \in StepsOf(n)
        /\ "send_tail" \in StepsOf(n) => "mark_processed" \in StepsOf(n)
        /\ \A s \in FailingSteps : s \in StepsOf(n) => "error" \in StepsOf(n)
        /\ n \in Registered => FirstStep(n) \in StepsOf(n) /\ FirstStep(n) \in Steps
        /\ StepsOf(n) \subseteq Steps \ {"idle"}
BY DEF StepsOf, FailingSteps, FirstStep, Steps, Registered, ArchiveNames, AccountNames, ChainNames

(***************************************************************************)
(* Moving on within a job, and ending it, keep workers and tasks in step.    *)
(***************************************************************************)
LEMMA GotoKeeps ==
    ASSUME Typed, NEW w \in Worker, NEW s \in StepsOf(job[w].name),
           pc[w] # "idle", Goto(w, s)
    PROVE  JobAtStep' /\ pc' \in [Worker -> Steps] /\ job' = job
BY StepOrder DEF Typed, TypeOK, JobAtStep, Goto

LEMMA FinishKeeps ==
    ASSUME Typed, NEW w \in Worker, Finish(w)
    PROVE  JobAtStep' /\ pc' \in [Worker -> Steps] /\ job' \in [Worker -> Task \cup {NoTask}]
BY DEF Typed, TypeOK, JobAtStep, Finish, Steps

(***************************************************************************)
(* The queue stays a sequence of tasks.                                     *)
(***************************************************************************)
LEMMA QueueTypes ==
    \A q \in Seq(Task) :
        /\ \A t \in Task : Append(q, t) \in Seq(Task)
        /\ q # <<>> => /\ Head(q) \in Task /\ Tail(q) \in Seq(Task)
                       /\ Append(Tail(q), Head(q)) \in Seq(Task)
BY HeadTailProperties, AppendProperties

(***************************************************************************)
(* Where the tasks of the queue are after one is appended or taken away.     *)
(***************************************************************************)
LEMMA QueuePlaces ==
    \A q \in Seq(Task) :
        /\ \A t \in Task :
              /\ DOMAIN q \subseteq DOMAIN Append(q, t)
              /\ \A i \in DOMAIN q : Append(q, t)[i] = q[i]
              /\ \E i \in DOMAIN Append(q, t) : Append(q, t)[i] = t
              /\ \A i \in DOMAIN Append(q, t) : i \in DOMAIN q \/ Append(q, t)[i] = t
        /\ q # <<>> => 
              /\ \A i \in DOMAIN q : q[i] = Head(q) \/ \E j \in DOMAIN Tail(q) : Tail(q)[j] = q[i]
              /\ \A j \in DOMAIN Tail(q) : \E i \in DOMAIN q : Tail(q)[j] = q[i]
<1> TAKE q \in Seq(Task)
<1>1. \A t \in Task :
              /\ DOMAIN q \subseteq DOMAIN Append(q, t)
              /\ \A i \in DOMAIN q : Append(q, t)[i] = q[i]
              /\ \E i \in DOMAIN Append(q, t) : Append(q, t)[i] = t
              /\ \A i \in DOMAIN Append(q, t) : i \in DOMAIN q \/ Append(q, t)[i] = t
   <2> TAKE t \in Task
   <2>1. Len(q)+1 \in DOMAIN Append(q,t) /\ Append(q,t)[Len(q)+1] = t
      BY AppendProperties
   <2> QED BY <2>1, AppendProperties
<1>2. ASSUME q # <<>> PROVE
              /\ \A i \in DOMAIN q : q[i] = Head(q) \/ \E j \in DOMAIN Tail(q) : Tail(q)[j] = q[i]
              /\ \A j \in DOMAIN Tail(q) : \E i \in DOMAIN q : Tail(q)[j] = q[i]
   <2>1. ASSUME NEW i \in DOMAIN q, i # 1 PROVE i-1 \in DOMAIN Tail(q) /\ Tail(q)[i-1] = q[i]
     BY <1>2, <2>1
   <2>2. ASSUME NEW j \in DOMAIN Tail(q) PROVE j+1 \in DOMAIN q /\ Tail(q)[j] = q[j+1]
     BY <1>2, <2>2
   <2>3. Head(q) = q[1]
     BY <1>2
   <2> QED BY <2>1, <2>2, <2>3
<1> QED BY <1>1, <1>2

(***************************************************************************)
(* Every step keeps the types, and every worker at a step of its own task.   *)
(***************************************************************************)
LEMMA TypedStep == Typed /\ [Next]_vars => Typed'
<1> SUFFICES ASSUME Typed, [Next]_vars PROVE Typed'
  OBVIOUS
<1> USE DEF rowVars, cloudVars, apiVars, workerVars, dataVars
<1>1. ASSUME NEW a \in Archive, AddFBArchive(a) PROVE Typed'
  BY <1>1 DEF Typed, TypeOK, JobAtStep, AddFBArchive,
     Statuses, ArchiveNames, ChainNames
<1>2. ASSUME NEW a \in Archive, ClientPut(a) PROVE Typed'
  BY <1>2 DEF Typed, TypeOK, JobAtStep, ClientPut,
     Statuses, ArchiveNames, ChainNames
<1>3. ASSUME NEW a \in Archive, AckUpdate(a) PROVE Typed'
  <2>1. acksLeft' \in [Archive -> Nat] /\ acking' \in [Archive -> Nat]
    BY <1>3 DEF AckUpdate, Typed, TypeOK
  <2>2. status' \in [Archive -> Statuses \cup {"none"}]
    BY <1>3 DEF AckUpdate, UpdateStatus, Typed, TypeOK, Statuses
  <2>3. fileKey' \in [Archive -> BOOLEAN]
    BY <1>3, Zenon DEF AckUpdate, UpdateKey, Exists, Typed, TypeOK
  <2>4. contentHash' \in [Archive -> BOOLEAN]
    BY <1>3, Zenon DEF AckUpdate, UpdateHash, Exists, Typed, TypeOK
  <2>5. restarted' \subseteq Archive
    BY <1>3 DEF AckUpdate, Restart, Typed, TypeOK
  <2> QED
    BY <1>3, <2>1, <2>2, <2>3, <2>4, <2>5 DEF AckUpdate, Typed, TypeOK, JobAtStep
<1>4. ASSUME NEW a \in Archive, AdminSubmit(a) PROVE Typed'
  BY TaskTypes, QueueTypes, <1>4 DEF Typed, TypeOK, JobAtStep, AdminSubmit, AdminRequest,
     Statuses, ArchiveNames, ChainNames
<1>5. ASSUME NEW a \in Archive, AdminGenerateHash(a) PROVE Typed'
  BY TaskTypes, QueueTypes, <1>5 DEF Typed, TypeOK, JobAtStep, AdminGenerateHash, AdminRequest,
     Statuses, ArchiveNames, ChainNames
<1>6. ASSUME NEW a \in Archive, AdminForceParse(a) PROVE Typed'
  <2> DEFINE forced == Append(queue, ArchiveTask("analyze_posts", a))
  <2>1. forced \in Seq(Task)
    BY TaskTypes, QueueTypes DEF Typed, TypeOK, ArchiveNames, ChainNames
  <2>2. Append(forced, AccountTask("extract_time_metadata", Owner[a])) \in Seq(Task)
    BY <2>1, TaskTypes, QueueTypes, OwnerAssumption DEF AccountNames
  <2>3. queue' \in Seq(Task)
    BY <1>6, <2>1, <2>2 DEF AdminForceParse
  <2> QED
    BY <1>6, <2>3 DEF AdminForceParse, AdminRequest, Restart, Typed, TypeOK, JobAtStep
<1>7. ASSUME NEW a \in Archive, MakeLink(a) PROVE Typed'
  BY <1>7 DEF Typed, TypeOK, JobAtStep, MakeLink, InvalidFBArchive, UpdateStatus, Exists,
     Statuses, ArchiveNames, ChainNames
<1>8. ASSUME NEW a \in Archive, UrlSubmit(a) PROVE Typed'
  BY <1>8 DEF Typed, TypeOK, JobAtStep, UrlSubmit, UpdateStatus,
     Statuses, ArchiveNames, ChainNames
<1>9. ASSUME NEW a \in Archive, UrlEnqueue(a) PROVE Typed'
  <2>1. queue' \in Seq(Task)
    BY <1>9, TaskTypes, QueueTypes DEF UrlEnqueue, Typed, TypeOK, ArchiveNames, ChainNames
  <2> QED
    BY <1>9, <2>1 DEF UrlEnqueue, Typed, TypeOK, JobAtStep
<1>10. ASSUME NEW a \in Archive, AckEnqueue(a) PROVE Typed'
  <2> DEFINE hashed == Append(queue, ArchiveTask("generate_hash_content", a))
  <2>1. queue \in Seq(Task) /\ hashed \in Seq(Task)
    BY TaskTypes, QueueTypes DEF Typed, TypeOK, ArchiveNames, ChainNames
  <2>2. Append(hashed, ArchiveTask("parse_archive", a)) \in Seq(Task)
    BY <2>1, TaskTypes, QueueTypes DEF ArchiveNames, ChainNames
  <2>3. queue' \in Seq(Task)
    BY <1>10, <2>1, <2>2 DEF AckEnqueue
  <2>4. acking' \in [Archive -> Nat]
    BY <1>10 DEF AckEnqueue, Typed, TypeOK
  <2> QED
    BY <1>10, <2>3, <2>4 DEF AckEnqueue, Typed, TypeOK, JobAtStep
<1>11. ASSUME NEW w \in Worker, Start(w) PROVE Typed'
  <2>1. Head(queue) \in Task /\ Tail(queue) \in Seq(Task) /\ job[w] = NoTask
    BY <1>11, StepTask, QueueTypes DEF Start, Typed, TypeOK
  <2>2. queue' \in Seq(Task)
    BY <2>1, <1>11, QueueTypes DEF Start, Typed, TypeOK
  <2>3. CASE Head(queue).name \in Registered
    <3>1. /\ job' = [job EXCEPT ![w] = Head(queue)]
          /\ pc' = [pc EXCEPT ![w] = FirstStep(Head(queue).name)]
          /\ UNCHANGED <<rowVars, cloudVars, apiVars, snap, dataVars>>
      BY <2>3, <1>11 DEF Start
    <3>2. FirstStep(Head(queue).name) \in Steps \cap StepsOf(Head(queue).name)
      BY <2>3, StepOrder
    <3>3. job' \in [Worker -> Task \cup {NoTask}] /\ pc' \in [Worker -> Steps]
      BY <2>1, <3>1, <3>2 DEF Typed, TypeOK
    <3>4. JobAtStep'
      BY <2>1, <3>1, <3>2 DEF Typed, TypeOK, JobAtStep
    <3> QED
      BY <3>1, <3>3, <3>4, <2>2 DEF Typed, TypeOK
  <2>4. CASE Head(queue).name \notin Registered
    BY <2>1, <2>2, <2>4, <1>11 DEF Start, Typed, TypeOK, JobAtStep
  <2> QED
    BY <2>3, <2>4
<1>12. ASSUME NEW w \in Worker, Fetch(w) PROVE Typed'
  <2>1. job[w] \in Task /\ job[w].on \in Archive
    BY <1>12, StepTask DEF Fetch, Typed, ChainSteps, Steps, FailingSteps
  <2>2. /\ JobAtStep' /\ pc' \in [Worker -> Steps]
        /\ job' \in [Worker -> Task \cup {NoTask}]
    BY <1>12, StepOrder, GotoKeeps, FinishKeeps DEF Fetch, Typed, TypeOK, JobAtStep, NoTask
  <2> QED
    BY <2>1, <2>2, <1>12 DEF Typed, TypeOK, Fetch, Statuses,
       ArchiveNames, ChainNames
<1>13. ASSUME NEW w \in Worker, MarkStored(w) PROVE Typed'
  <2>1. job[w] \in Task /\ job[w].on \in Archive
    BY <1>13, StepTask DEF MarkStored, Typed, ChainSteps, Steps, FailingSteps
  <2>2. JobAtStep' /\ pc' \in [Worker -> Steps] /\ job' = job
    BY <1>13, StepOrder, GotoKeeps DEF MarkStored, Typed, TypeOK, JobAtStep, NoTask
  <2>3. status' \in [Archive -> Statuses \cup {"none"}]
    BY <1>13, <2>1 DEF MarkStored, UpdateStatus, Typed, TypeOK, Statuses
  <2>4. fileKey' \in [Archive -> BOOLEAN]
    BY <1>13, <2>1, Zenon DEF MarkStored, UpdateKey, Exists, Typed, TypeOK
  <2>5. contentHash' \in [Archive -> BOOLEAN]
    BY <1>13, <2>1, Zenon DEF MarkStored, UpdateHash, Exists, Typed, TypeOK
  <2> QED
    BY <2>2, <2>3, <2>4, <2>5, <1>13 DEF Typed, TypeOK, MarkStored
<1>14. ASSUME NEW w \in Worker, SendParse(w) PROVE Typed'
  <2>1. job[w].on \in Archive
    BY <1>14, StepTask DEF SendParse, Typed, ChainSteps, Steps, FailingSteps
  <2>2. /\ JobAtStep' /\ pc' \in [Worker -> Steps]
        /\ job' \in [Worker -> Task \cup {NoTask}]
    BY <1>14, FinishKeeps DEF SendParse
  <2>3. Append(queue, ArchiveTask("parse_archive", job[w].on)) \in Seq(Task)
    BY <2>1, TaskTypes, QueueTypes DEF Typed, TypeOK, ArchiveNames, ChainNames
  <2>4. queue' \in Seq(Task)
    BY <2>3, <1>14 DEF SendParse, Typed, TypeOK
  <2> QED
    BY <2>2, <2>4, <1>14 DEF Typed, TypeOK, SendParse
<1>15. ASSUME NEW w \in Worker, MarkProcessing(w) PROVE Typed'
  <2>1. job[w] \in Task /\ job[w].on \in Archive
    BY <1>15, StepTask DEF MarkProcessing, Typed, ChainSteps, Steps, FailingSteps
  <2>2. /\ JobAtStep' /\ pc' \in [Worker -> Steps]
        /\ job' \in [Worker -> Task \cup {NoTask}]
    BY <1>15, StepOrder, GotoKeeps DEF MarkProcessing, Typed, TypeOK, JobAtStep, NoTask
  <2> QED
    BY <2>1, <2>2, <1>15 DEF Typed, TypeOK, MarkProcessing, UpdateStatus, Statuses,
       ArchiveNames, ChainNames
<1>16. ASSUME NEW w \in Worker, ParsePosts(w) PROVE Typed'
  <2>1. job[w] \in Task /\ job[w].on \in Archive
    BY <1>16, StepTask DEF ParsePosts, Typed, ChainSteps, Steps, FailingSteps
  <2>2. /\ JobAtStep' /\ pc' \in [Worker -> Steps]
        /\ job' \in [Worker -> Task \cup {NoTask}]
    BY <1>16, StepOrder, GotoKeeps DEF ParsePosts, Typed, TypeOK, JobAtStep, NoTask
  <2> QED
    BY OwnerAssumption, ContentAssumption, <2>1, <2>2, <1>16 DEF Typed, TypeOK, ParsePosts, InsertRows, Statuses,
       ArchiveNames, ChainNames
<1>17. ASSUME NEW w \in Worker, ParseReactions(w) PROVE Typed'
  <2>1. job[w] \in Task /\ job[w].on \in Archive
    BY <1>17, StepTask DEF ParseReactions, Typed, ChainSteps, Steps, FailingSteps
  <2>2. /\ JobAtStep' /\ pc' \in [Worker -> Steps]
        /\ job' \in [Worker -> Task \cup {NoTask}]
    BY <1>17, StepOrder, GotoKeeps DEF ParseReactions, Typed, TypeOK, JobAtStep, NoTask
  <2> QED
    BY OwnerAssumption, ContentAssumption, <2>1, <2>2, <1>17 DEF Typed, TypeOK, ParseReactions, InsertRows, Statuses,
       ArchiveNames, ChainNames
<1>18. ASSUME NEW w \in Worker, SendPosts(w) PROVE Typed'
  <2>1. job[w] \in Task /\ job[w].on \in Archive
    BY <1>18, StepTask DEF SendPosts, Typed, ChainSteps, Steps, FailingSteps
  <2>2. /\ JobAtStep' /\ pc' \in [Worker -> Steps]
        /\ job' \in [Worker -> Task \cup {NoTask}]
    BY <1>18, StepOrder, FinishKeeps DEF SendPosts, Typed, TypeOK, JobAtStep, NoTask
  <2> QED
    BY TaskTypes, QueueTypes, <2>1, <2>2, <1>18 DEF Typed, TypeOK, SendPosts, Statuses,
       ArchiveNames, ChainNames
<1>19. ASSUME NEW w \in Worker, ReadPosts(w) PROVE Typed'
  <2>1. job[w] \in Task /\ job[w].on \in Archive
    BY <1>19, StepTask DEF ReadPosts, Typed, ChainSteps, Steps, FailingSteps
  <2>2. /\ JobAtStep' /\ pc' \in [Worker -> Steps]
        /\ job' \in [Worker -> Task \cup {NoTask}]
    BY <1>19, StepOrder, GotoKeeps DEF ReadPosts, Typed, TypeOK, JobAtStep, NoTask
  <2> QED
    BY OwnerAssumption, <2>1, <2>2, <1>19 DEF Typed, TypeOK, ReadPosts, Statuses,
       ArchiveNames, ChainNames
<1>20. ASSUME NEW w \in Worker, SavePosts(w) PROVE Typed'
  <2>1. job[w] \in Task /\ job[w].on \in Archive
    BY <1>20, StepTask DEF SavePosts, Typed, ChainSteps, Steps, FailingSteps
  <2>2. /\ JobAtStep' /\ pc' \in [Worker -> Steps]
        /\ job' \in [Worker -> Task \cup {NoTask}]
    BY <1>20, StepOrder, GotoKeeps DEF SavePosts, Typed, TypeOK, JobAtStep, NoTask
  <2> QED
    BY OwnerAssumption, <2>1, <2>2, <1>20 DEF Typed, TypeOK, SavePosts, CountInto, Statuses,
       ArchiveNames, ChainNames
<1>21. ASSUME NEW w \in Worker, SendReactions(w) PROVE Typed'
  <2>1. job[w] \in Task /\ job[w].on \in Archive
    BY <1>21, StepTask DEF SendReactions, Typed, ChainSteps, Steps, FailingSteps
  <2>2. /\ JobAtStep' /\ pc' \in [Worker -> Steps]
        /\ job' \in [Worker -> Task \cup {NoTask}]
    BY <1>21, StepOrder, FinishKeeps DEF SendReactions, Typed, TypeOK, JobAtStep, NoTask
  <2> QED
    BY TaskTypes, QueueTypes, <2>1, <2>2, <1>21 DEF Typed, TypeOK, SendReactions, Statuses,
       ArchiveNames, ChainNames
<1>22. ASSUME NEW w \in Worker, ReadReactions(w) PROVE Typed'
  <2>1. job[w] \in Task /\ job[w].on \in Archive
    BY <1>22, StepTask DEF ReadReactions, Typed, ChainSteps, Steps, FailingSteps
  <2>2. /\ JobAtStep' /\ pc' \in [Worker -> Steps]
        /\ job' \in [Worker -> Task \cup {NoTask}]
    BY <1>22, StepOrder, GotoKeeps DEF ReadReactions, Typed, TypeOK, JobAtStep, NoTask
  <2> QED
    BY OwnerAssumption, <2>1, <2>2, <1>22 DEF Typed, TypeOK, ReadReactions, Statuses,
       ArchiveNames, ChainNames
<1>23. ASSUME NEW w \in Worker, SaveReactions(w) PROVE Typed'
  <2>1. job[w] \in Task /\ job[w].on \in Archive
    BY <1>23, StepTask DEF SaveReactions, Typed, ChainSteps, Steps, FailingSteps
  <2>2. /\ JobAtStep' /\ pc' \in [Worker -> Steps]
        /\ job' \in [Worker -> Task \cup {NoTask}]
    BY <1>23, StepOrder, GotoKeeps DEF SaveReactions, Typed, TypeOK, JobAtStep, NoTask
  <2> QED
    BY OwnerAssumption, <2>1, <2>2, <1>23 DEF Typed, TypeOK, SaveReactions, CountInto, Statuses,
       ArchiveNames, ChainNames
<1>24. ASSUME NEW w \in Worker, SendTail(w) PROVE Typed'
  <2> DEFINE time   == AccountTask("extract_time_metadata", Owner[job[w].on])
             notify == AccountTask("notification_finish_parsing", Owner[job[w].on])
  <2>1. job[w].on \in Archive
    BY <1>24, StepTask DEF SendTail, Typed, ChainSteps, Steps, FailingSteps
  <2>2. JobAtStep' /\ pc' \in [Worker -> Steps] /\ job' = job
    BY <1>24, StepOrder, GotoKeeps DEF SendTail, Typed, TypeOK, JobAtStep, NoTask
  <2>3. time \in Task /\ notify \in Task
    BY <2>1, TaskTypes, OwnerAssumption DEF AccountNames
  <2>4. /\ queue \in Seq(Task) /\ Append(queue, notify) \in Seq(Task)
        /\ Append(queue, time) \in Seq(Task)
        /\ Append(Append(queue, time), notify) \in Seq(Task)
    BY <2>3, QueueTypes DEF Typed, TypeOK
  <2>5. queue' \in Seq(Task)
    BY <1>24, <2>4 DEF SendTail
  <2> QED
    BY <2>2, <2>5, <1>24 DEF Typed, TypeOK, SendTail
<1>25. ASSUME NEW w \in Worker, MarkProcessed(w) PROVE Typed'
  <2>1. job[w] \in Task /\ job[w].on \in Archive
    BY <1>25, StepTask DEF MarkProcessed, Typed, ChainSteps, Steps, FailingSteps
  <2>2. /\ JobAtStep' /\ pc' \in [Worker -> Steps]
        /\ job' \in [Worker -> Task \cup {NoTask}]
    BY <1>25, StepOrder, FinishKeeps DEF MarkProcessed, Typed, TypeOK, JobAtStep, NoTask
  <2> QED
    BY <2>1, <2>2, <1>25 DEF Typed, TypeOK, MarkProcessed, UpdateStatus, Statuses,
       ArchiveNames, ChainNames
<1>26. ASSUME NEW w \in Worker, GenerateHash(w) PROVE Typed'
  <2>1. job[w] \in Task /\ job[w].on \in Archive
    BY <1>26, StepTask DEF GenerateHash, Typed, ChainSteps, Steps, FailingSteps
  <2>2. /\ JobAtStep' /\ pc' \in [Worker -> Steps]
        /\ job' \in [Worker -> Task \cup {NoTask}]
    BY <1>26, StepOrder, FinishKeeps DEF GenerateHash, Typed, TypeOK, JobAtStep, NoTask
  <2> QED
    BY <2>1, <2>2, <1>26 DEF Typed, TypeOK, GenerateHash, UpdateHash, Exists, Statuses,
       ArchiveNames, ChainNames
<1>27. ASSUME NEW w \in Worker, TimeMetadata(w) PROVE Typed'
  <2>1. job[w] \in Task /\ job[w].on \in Account
    BY <1>27, StepTask DEF TimeMetadata, Typed, ChainSteps, Steps, FailingSteps
  <2>2. /\ JobAtStep' /\ pc' \in [Worker -> Steps]
        /\ job' \in [Worker -> Task \cup {NoTask}]
    BY <1>27, StepOrder, FinishKeeps DEF TimeMetadata, Typed, TypeOK, JobAtStep, NoTask
  <2> QED
    BY <2>1, <2>2, <1>27 DEF Typed, TypeOK, TimeMetadata, Statuses,
       ArchiveNames, ChainNames
<1>28. ASSUME NEW w \in Worker, Notify(w) PROVE Typed'
  <2>1. job[w] \in Task /\ job[w].on \in Account
    BY <1>28, StepTask DEF Notify, Typed, ChainSteps, Steps, FailingSteps
  <2>2. /\ JobAtStep' /\ pc' \in [Worker -> Steps]
        /\ job' \in [Worker -> Task \cup {NoTask}]
    BY <1>28, StepOrder, FinishKeeps DEF Notify, Typed, TypeOK, JobAtStep, NoTask
  <2> QED
    BY <2>1, <2>2, <1>28 DEF Typed, TypeOK, Notify, Statuses,
       ArchiveNames, ChainNames
<1>29. ASSUME NEW w \in Worker, JobErrorHandler(w) PROVE Typed'
  <2>1. job[w] \in Task /\ job[w].on \in Archive
    BY <1>29, StepTask DEF JobErrorHandler, Typed, ChainSteps, Steps, FailingSteps
  <2>2. /\ JobAtStep' /\ pc' \in [Worker -> Steps]
        /\ job' \in [Worker -> Task \cup {NoTask}]
    BY <1>29, StepOrder, FinishKeeps DEF JobErrorHandler, Typed, TypeOK, JobAtStep, NoTask
  <2> QED
    BY <2>1, <2>2, <1>29 DEF Typed, TypeOK, JobErrorHandler, InvalidFBArchive, UpdateStatus, Exists, Statuses,
       ArchiveNames, ChainNames
<1>30. ASSUME NEW w \in Worker, JobFails(w) PROVE Typed'
  <2>1. job[w] \in Task /\ job[w].on \in Archive
    BY <1>30, StepTask DEF JobFails, Typed, ChainSteps, Steps, FailingSteps
  <2>2. /\ JobAtStep' /\ pc' \in [Worker -> Steps]
        /\ job' \in [Worker -> Task \cup {NoTask}]
    BY <1>30, StepOrder, GotoKeeps DEF JobFails, Typed, TypeOK, JobAtStep, NoTask, FailingSteps
  <2> QED
    BY <2>1, <2>2, <1>30 DEF Typed, TypeOK, JobFails, Statuses,
       ArchiveNames, ChainNames
<1>31. CASE WorkerCrash
  BY <1>31 DEF Typed, TypeOK, JobAtStep, Steps, WorkerCrash
<1>32. CASE ApiCrash
  BY <1>32 DEF Typed, TypeOK, JobAtStep, Steps, ApiCrash
<1>33. CASE UNCHANGED vars
  BY <1>33 DEF Typed, TypeOK, JobAtStep, vars
<1> QED
  BY <1>1, <1>2, <1>3, <1>4, <1>5, <1>6, <1>7, <1>8, <1>9, <1>10, <1>11, <1>12, <1>13, <1>14, <1>15, <1>16, <1>17, <1>18, <1>19, <1>20, <1>21, <1>22, <1>23, <1>24, <1>25, <1>26, <1>27, <1>28, <1>29, <1>30, <1>31, <1>32, <1>33
  DEF Next, ClientStep, AdminStep, HandlerStep, WorkerStep, DownloadStep, ParseStep,
      PostStep, ReactionStep, TailStep

LEMMA InitTyped == Init => Typed
BY AckAssumption, AdminAssumption
DEF Init, Typed, TypeOK, JobAtStep, Steps, FailingSteps

(***************************************************************************)
(* TypeOK holds, and every worker is at a step of the job of its task.       *)
(***************************************************************************)
THEOREM TypeCorrect == Spec => [](TypeOK /\ JobAtStep)
<1>1. Init => Typed
  BY InitTyped
<1>2. Typed /\ [Next]_vars => Typed'
  BY TypedStep
<1> QED
  BY <1>1, <1>2, PTL DEF Spec, Typed

-----------------------------------------------------------------------------
(* Tasks in flight. *)

(***************************************************************************)
(* The queue of the next state still holds every task of this one, at the   *)
(* same place.                                                              *)
(***************************************************************************)
QueueGrows ==
    \A i \in DOMAIN queue : i \in DOMAIN queue' /\ queue'[i] = queue[i]

\* A task of a queue was in this state's queue.
Was(t) == \E i \in DOMAIN queue : queue[i] = t

LEMMA AppendGrows ==
    ASSUME Typed, NEW t \in Task, queue' = Append(queue, t)
    PROVE  /\ QueueGrows /\ \E i \in DOMAIN queue' : queue'[i] = t
           /\ \A i \in DOMAIN queue' : Was(queue'[i]) \/ queue'[i] = t
<1>1. queue \in Seq(Task)
  BY DEF Typed, TypeOK
<1>2. /\ \A i \in DOMAIN queue : i \in DOMAIN queue' /\ queue'[i] = queue[i]
      /\ \E i \in DOMAIN queue' : queue'[i] = t
      /\ \A i \in DOMAIN queue' : i \in DOMAIN queue \/ queue'[i] = t
  BY <1>1, QueuePlaces
<1> QED
  BY <1>2 DEF QueueGrows, Was

LEMMA AppendTwiceGrows ==
    ASSUME Typed, NEW t1 \in Task, NEW t2 \in Task, queue' = Append(Append(queue, t1), t2)
    PROVE  /\ QueueGrows
           /\ \E i \in DOMAIN queue' : queue'[i] = t1
           /\ \E i \in DOMAIN queue' : queue'[i] = t2
           /\ \A i \in DOMAIN queue' : Was(queue'[i]) \/ queue'[i] \in {t1, t2}
<1> DEFINE q == Append(queue, t1)
<1>1. queue \in Seq(Task) /\ q \in Seq(Task)
  BY QueueTypes DEF Typed, TypeOK
<1>2. /\ \A i \in DOMAIN queue : i \in DOMAIN q /\ q[i] = queue[i]
      /\ \E i \in DOMAIN q : q[i] = t1
      /\ \A i \in DOMAIN q : i \in DOMAIN queue \/ q[i] = t1
  BY <1>1, QueuePlaces
<1>3. queue' = Append(q, t2)
  OBVIOUS
<1> HIDE DEF q
<1>4. /\ \A i \in DOMAIN q : i \in DOMAIN Append(q, t2) /\ Append(q, t2)[i] = q[i]
      /\ \E i \in DOMAIN Append(q, t2) : Append(q, t2)[i] = t2
      /\ \A i \in DOMAIN Append(q, t2) : i \in DOMAIN q \/ Append(q, t2)[i] = t2
  BY <1>1, QueuePlaces
<1>5. \A i \in DOMAIN queue' : Was(queue'[i]) \/ queue'[i] \in {t1, t2}
  BY <1>2, <1>3, <1>4 DEF Was
<1> QED
  BY <1>2, <1>3, <1>4, <1>5 DEF QueueGrows

(***************************************************************************)
(* A task that is in the queue or with a worker stays there when the queue   *)
(* only grows and no worker gives the task up.                              *)
(***************************************************************************)
LEMMA TaskKept ==
    ASSUME QueueGrows, NEW NS, NEW x, TaskFor(NS, x),
           \A v \in Worker : job'[v] = job[v] \/ job[v].name \notin NS \/ job[v].on # x
    PROVE  TaskFor(NS, x)'
BY DEF TaskFor, QueuedFor, RunningFor, QueueGrows

LEMMA TaskQueued ==
    ASSUME NEW t, \E i \in DOMAIN queue' : queue'[i] = t, NEW NS, t.name \in NS
    PROVE  TaskFor(NS, t.on)'
BY DEF TaskFor, QueuedFor

(***************************************************************************)
(* A worker that takes the head of the queue, and a broker that moves it to  *)
(* the tail, lose no task.                                                  *)
(***************************************************************************)
LEMMA TaskStarted ==
    ASSUME Typed, NEW w \in Worker, Start(w), NEW NS, "none" \notin NS, NEW x, TaskFor(NS, x)
    PROVE  TaskFor(NS, x)'
<1>1. job[w] = NoTask /\ queue \in Seq(Task) /\ queue # <<>>
  BY StepTask DEF Start, Typed, TypeOK
<1>2. CASE RunningFor(NS, x) # {}
  <2>1. PICK v \in Worker : job[v].name \in NS /\ job[v].on = x
    BY <1>2 DEF RunningFor
  <2>2. v # w
    BY <2>1, <1>1 DEF NoTask
  <2>3. job'[v] = job[v]
    BY <2>2 DEF Start, Typed, TypeOK
  <2> QED
    BY <2>1, <2>3 DEF TaskFor, RunningFor
<1>3. CASE QueuedFor(NS, x) # {}
  <2>1. PICK i \in DOMAIN queue : queue[i].name \in NS /\ queue[i].on = x
    BY <1>3 DEF QueuedFor
  <2>2. queue[i] = Head(queue) \/ \E j \in DOMAIN Tail(queue) : Tail(queue)[j] = queue[i]
    BY <2>1, <1>1, QueuePlaces
  <2>3. CASE Head(queue).name \in Registered
    <3>1. job'[w] = Head(queue) /\ queue' = Tail(queue)
      BY <2>3 DEF Start, Typed, TypeOK
    <3>2. CASE queue[i] = Head(queue)
      <4>1. job'[w].name \in NS /\ job'[w].on = x
        BY <2>1, <3>1, <3>2
      <4> QED
        BY <4>1 DEF TaskFor, RunningFor
    <3>3. CASE \E j \in DOMAIN Tail(queue) : Tail(queue)[j] = queue[i]
      BY <2>1, <3>1, <3>3 DEF TaskFor, QueuedFor
    <3> QED
      BY <2>2, <3>2, <3>3
  <2>4. CASE Head(queue).name \notin Registered
    <3>1. queue' = Append(Tail(queue), Head(queue))
      BY <2>4 DEF Start
    <3>2. Tail(queue) \in Seq(Task) /\ Head(queue) \in Task
      BY <1>1, QueueTypes
    <3> DEFINE rest == Tail(queue)
               head == Head(queue)
    <3> HIDE DEF rest, head
    <3>3. /\ \A j \in DOMAIN rest : j \in DOMAIN Append(rest, head) /\ Append(rest, head)[j] = rest[j]
          /\ \E j \in DOMAIN Append(rest, head) : Append(rest, head)[j] = head
      BY <3>2, QueuePlaces DEF rest, head
    <3>4. \E j \in DOMAIN queue' : queue'[j] = queue[i]
      BY <2>2, <3>1, <3>3 DEF rest, head
    <3> QED
      BY <2>1, <3>4, TaskQueued
  <2> QED
    BY <2>3, <2>4
<1> QED
  BY <1>2, <1>3 DEF TaskFor

-----------------------------------------------------------------------------
\* The failures that lose a task, or the result of one.
NoLoss == Faults \cap {"http", "enqueue", "errorhandler", "crash"} = {}

(***************************************************************************)
(* What is in flight stays in flight for as long as nobody gives it up.      *)
(***************************************************************************)
LEMMA FlightKept ==
    ASSUME Typed, QueueGrows, NEW b \in Archive, InFlight(b),
           creating[b] = "enqueue" => creating'[b] = "enqueue",
           acking[b] > 0 => acking'[b] > 0,
           \A v \in Worker : job'[v] = job[v] \/ job[v].name \notin ChainNames \/ job[v].on # b
    PROVE  InFlight(b)'
BY TaskKept DEF InFlight

(***************************************************************************)
(* A job that ends by queueing the next task of the chain hands its archive  *)
(* on, and leaves every other archive alone.                                *)
(***************************************************************************)
LEMMA HandedOn ==
    ASSUME Typed, NEW w \in Worker, pc[w] \in ChainSteps, NEW n \in ChainNames,
           queue' = Append(queue, ArchiveTask(n, job[w].on)), Finish(w),
           UNCHANGED <<creating, acking>>,
           NEW b \in Archive, InFlight(b)
    PROVE  InFlight(b)'
<1>1. job[w].on \in Archive
  BY StepTask DEF Typed
<1>2. ArchiveTask(n, job[w].on) \in Task
  BY <1>1, TaskTypes DEF ArchiveNames
<1>3. QueueGrows /\ \E i \in DOMAIN queue' : queue'[i] = ArchiveTask(n, job[w].on)
  BY <1>2, AppendGrows
<1>4. CASE job[w].on = b
  <2>1. ArchiveTask(n, job[w].on).name \in ChainNames /\ ArchiveTask(n, job[w].on).on = b
    BY <1>4 DEF ArchiveTask
  <2>2. TaskFor(ChainNames, b)'
    BY <2>1, <1>3, TaskQueued
  <2> QED
    BY <2>2 DEF InFlight
<1>5. CASE job[w].on # b
  <2>1. \A v \in Worker : job'[v] = job[v] \/ job[v].on # b
    BY <1>5 DEF Finish, Typed, TypeOK
  <2> QED
    BY <2>1, <1>3, FlightKept
<1> QED
  BY <1>4, <1>5

(***************************************************************************)
(* A job that ends without a successor is one of no archive in flight: it    *)
(* was outside the chain, or its archive is finished by that step.          *)
(***************************************************************************)
LEMMA Retired ==
    ASSUME Typed, NEW w \in Worker, Finish(w), UNCHANGED <<queue, creating, acking>>,
           NEW b \in Archive, InFlight(b),
           job[w].name \notin ChainNames \/ job[w].on # b
    PROVE  InFlight(b)'
<1>1. \A v \in Worker : job'[v] = job[v] \/ job[v].name \notin ChainNames \/ job[v].on # b
  BY DEF Finish, Typed, TypeOK
<1>2. QueueGrows
  BY DEF QueueGrows
<1> QED
  BY <1>1, <1>2, FlightKept

(***************************************************************************)
(* A step within a job, or of nobody, takes nothing away.                   *)
(***************************************************************************)
LEMMA MovedOn ==
    ASSUME Typed, UNCHANGED <<job, creating, acking>>, QueueGrows,
           NEW b \in Archive, InFlight(b)
    PROVE  InFlight(b)'
BY FlightKept

LEMMA StillQueue ==
    ASSUME UNCHANGED queue
    PROVE  QueueGrows /\ \A i \in DOMAIN queue' : Was(queue'[i])
BY DEF QueueGrows, Was

(***************************************************************************)
(* The worker that raises an archive to an unfinished status is at work on   *)
(* it itself.                                                               *)
(***************************************************************************)
LEMMA AtWork ==
    ASSUME Typed, NEW w \in Worker, pc[w] \in ChainSteps, UNCHANGED job
    PROVE  InFlight(job[w].on)'
<1>1. job[w].name \in ChainNames
  BY StepTask DEF Typed
<1> QED
  BY <1>1 DEF InFlight, TaskFor, RunningFor

(***************************************************************************)
(* No step leaves an archive unfinished without anybody at work on it.      *)
(***************************************************************************)
LEMMA FlightStep == NoLoss /\ Typed /\ WorkInFlight /\ [Next]_vars => WorkInFlight'
<1> SUFFICES ASSUME NoLoss, Typed, WorkInFlight, [Next]_vars,
                    NEW b \in Archive, status'[b] \in Unfinished
             PROVE  InFlight(b)'
  BY DEF WorkInFlight
<1>0. status[b] \in Unfinished => InFlight(b)
  BY DEF WorkInFlight
<1> USE DEF rowVars, cloudVars, apiVars, workerVars, dataVars
<1>1. ASSUME NEW a \in Archive, AddFBArchive(a) PROVE InFlight(b)'
  <2>1. status[b] \in Unfinished
    BY <1>1 DEF AddFBArchive, Typed, TypeOK, Unfinished
  <2>2. creating[b] = "enqueue" => creating'[b] = "enqueue"
    BY <1>1, <2>1 DEF AddFBArchive, Typed, TypeOK, Unfinished
  <2> QED
    BY <2>1, <2>2, <1>0, <1>1, StillQueue, FlightKept DEF AddFBArchive
<1>2. ASSUME NEW a \in Archive, ClientPut(a) PROVE InFlight(b)'
  BY <1>0, <1>2, StillQueue, MovedOn DEF ClientPut
<1>3. ASSUME NEW a \in Archive, AckUpdate(a) PROVE InFlight(b)'
  <2>1. CASE a = b
    BY <1>3, <2>1 DEF AckUpdate, InFlight, Typed, TypeOK
  <2>2. CASE a # b
    <3>1. status[b] = status'[b] /\ acking'[b] = acking[b]
      BY <1>3, <2>2 DEF AckUpdate, UpdateStatus, Typed, TypeOK
    <3> QED
      BY <3>1, <1>0, <1>3, StillQueue, FlightKept DEF AckUpdate
  <2> QED
    BY <2>1, <2>2
<1>4. ASSUME NEW a \in Archive, AdminSubmit(a) PROVE InFlight(b)'
  <2>1. QueueGrows
    BY <1>4, TaskTypes, AppendGrows DEF AdminSubmit, ArchiveNames
  <2> QED
    BY <2>1, <1>0, <1>4, MovedOn DEF AdminSubmit, AdminRequest
<1>5. ASSUME NEW a \in Archive, AdminGenerateHash(a) PROVE InFlight(b)'
  <2>1. QueueGrows
    BY <1>5, TaskTypes, AppendGrows DEF AdminGenerateHash, ArchiveNames
  <2> QED
    BY <2>1, <1>0, <1>5, MovedOn DEF AdminGenerateHash, AdminRequest
<1>6. ASSUME NEW a \in Archive, AdminForceParse(a) PROVE InFlight(b)'
  <2>1. /\ ArchiveTask("analyze_posts", a) \in Task
        /\ AccountTask("extract_time_metadata", Owner[a]) \in Task
    BY TaskTypes, OwnerAssumption DEF ArchiveNames, ChainNames, AccountNames
  <2>2. queue' = Append(Append(queue, ArchiveTask("analyze_posts", a)),
                        AccountTask("extract_time_metadata", Owner[a]))
    BY <1>6 DEF AdminForceParse, NoLoss
  <2>3. QueueGrows
    BY <2>1, <2>2, AppendTwiceGrows
  <2> QED
    BY <2>3, <1>0, <1>6, MovedOn DEF AdminForceParse, AdminRequest
<1>7. ASSUME NEW a \in Archive, MakeLink(a) PROVE InFlight(b)'
  <2>1. status[b] \in Unfinished
    BY <1>7 DEF MakeLink, InvalidFBArchive, UpdateStatus, Typed, TypeOK, Unfinished
  <2>2. creating[b] = "enqueue" => creating'[b] = "enqueue"
    BY <1>7 DEF MakeLink, Typed, TypeOK
  <2> QED
    BY <2>1, <2>2, <1>0, <1>7, StillQueue, FlightKept DEF MakeLink
<1>8. ASSUME NEW a \in Archive, UrlSubmit(a) PROVE InFlight(b)'
  <2>1. CASE a = b
    <3>1. CASE creating'[b] = "enqueue"
      BY <3>1 DEF InFlight
    <3>2. CASE UNCHANGED status
      <4>1. status[b] \in Unfinished /\ creating[b] # "enqueue"
        BY <1>8, <2>1, <3>2 DEF UrlSubmit
      <4>2. creating[b] = "enqueue" => creating'[b] = "enqueue"
        BY <4>1
      <4> QED
        BY <4>1, <4>2, <1>0, <1>8, StillQueue, FlightKept DEF UrlSubmit
    <3> QED
      BY <1>8, <2>1, <3>1, <3>2 DEF UrlSubmit, Typed, TypeOK
  <2>2. CASE a # b
    <3>1. status[b] = status'[b] /\ creating'[b] = creating[b]
      BY <1>8, <2>2 DEF UrlSubmit, UpdateStatus, Typed, TypeOK
    <3> QED
      BY <3>1, <1>0, <1>8, StillQueue, FlightKept DEF UrlSubmit
  <2> QED
    BY <2>1, <2>2
<1>9. ASSUME NEW a \in Archive, UrlEnqueue(a) PROVE InFlight(b)'
  <2> DEFINE t == ArchiveTask("download_archive", a)
  <2>1. t \in Task /\ t.name \in ChainNames /\ t.on = a
    BY TaskTypes DEF ArchiveTask, ArchiveNames, ChainNames
  <2>2. queue' = Append(queue, t)
    BY <1>9 DEF UrlEnqueue, NoLoss
  <2>3. QueueGrows /\ \E i \in DOMAIN queue' : queue'[i] = t
    BY <2>1, <2>2, AppendGrows
  <2>4. CASE a = b
    <3> HIDE DEF t
    <3>1. TaskFor(ChainNames, b)'
      BY <2>1, <2>3, <2>4, TaskQueued
    <3> QED
      BY <3>1 DEF InFlight
  <2>5. CASE a # b
    <3>1. creating'[b] = creating[b]
      BY <1>9, <2>5 DEF UrlEnqueue, Typed, TypeOK
    <3> QED
      BY <3>1, <2>3, <1>0, <1>9, FlightKept DEF UrlEnqueue
  <2> QED
    BY <2>4, <2>5
<1>10. ASSUME NEW a \in Archive, AckEnqueue(a) PROVE InFlight(b)'
  <2> DEFINE h == ArchiveTask("generate_hash_content", a)
             t == ArchiveTask("parse_archive", a)
  <2>1. h \in Task /\ t \in Task /\ t.name \in ChainNames /\ t.on = a
    BY TaskTypes DEF ArchiveTask, ArchiveNames, ChainNames
  <2>2. queue' = Append(Append(queue, h), t)
    BY <1>10 DEF AckEnqueue, NoLoss
  <2>3. QueueGrows /\ \E i \in DOMAIN queue' : queue'[i] = t
    BY <2>1, <2>2, AppendTwiceGrows
  <2>4. CASE a = b
    <3> HIDE DEF t
    <3>1. TaskFor(ChainNames, b)'
      BY <2>1, <2>3, <2>4, TaskQueued
    <3> QED
      BY <3>1 DEF InFlight
  <2>5. CASE a # b
    <3>1. acking'[b] = acking[b]
      BY <1>10, <2>5 DEF AckEnqueue, Typed, TypeOK
    <3> QED
      BY <3>1, <2>3, <1>0, <1>10, FlightKept DEF AckEnqueue
  <2> QED
    BY <2>4, <2>5
<1>11. ASSUME NEW w \in Worker, Start(w) PROVE InFlight(b)'
  <2>1. InFlight(b) /\ UNCHANGED <<creating, acking>> /\ "none" \notin ChainNames
    BY <1>0, <1>11 DEF Start, ChainNames
  <2>2. TaskFor(ChainNames, b) => TaskFor(ChainNames, b)'
    BY <2>1, <1>11, TaskStarted
  <2> QED
    BY <2>1, <2>2 DEF InFlight
<1>12. ASSUME NEW w \in Worker, Fetch(w) PROVE InFlight(b)'
  BY <1>0, <1>12, StillQueue, MovedOn DEF Fetch, Goto, NoLoss
<1>13. ASSUME NEW w \in Worker, MarkStored(w) PROVE InFlight(b)'
  <2>1. pc[w] \in ChainSteps /\ job' = job /\ job[w].on \in Archive
    BY <1>13, StepTask DEF MarkStored, Goto, Typed, ChainSteps, Steps, FailingSteps
  <2>2. CASE job[w].on = b
    BY <2>1, <2>2, AtWork
  <2>3. CASE job[w].on # b
    <3>1. status'[b] = status[b]
      BY <2>1, <2>3, <1>13 DEF MarkStored, UpdateStatus, Typed, TypeOK
    <3> QED
      BY <2>1, <3>1, <1>0, <1>13, StillQueue, MovedOn DEF MarkStored
  <2> QED
    BY <2>2, <2>3
<1>14. ASSUME NEW w \in Worker, SendParse(w) PROVE InFlight(b)'
  <2>1. /\ queue' = Append(queue, ArchiveTask("parse_archive", job[w].on))
        /\ Finish(w) /\ pc[w] \in ChainSteps /\ "parse_archive" \in ChainNames
    BY <1>14 DEF SendParse, ChainSteps, Steps, FailingSteps, ChainNames, NoLoss
  <2> QED
    BY <2>1, <1>0, <1>14, HandedOn DEF SendParse
<1>15. ASSUME NEW w \in Worker, MarkProcessing(w) PROVE InFlight(b)'
  <2>1. pc[w] \in ChainSteps /\ job' = job /\ job[w].on \in Archive
    BY <1>15, StepTask DEF MarkProcessing, Goto, Typed, ChainSteps, Steps, FailingSteps
  <2>2. CASE job[w].on = b
    BY <2>1, <2>2, AtWork
  <2>3. CASE job[w].on # b
    <3>1. status'[b] = status[b]
      BY <2>1, <2>3, <1>15 DEF MarkProcessing, UpdateStatus, Typed, TypeOK
    <3> QED
      BY <2>1, <3>1, <1>0, <1>15, StillQueue, MovedOn DEF MarkProcessing
  <2> QED
    BY <2>2, <2>3
<1>16. ASSUME NEW w \in Worker, ParsePosts(w) PROVE InFlight(b)'
  BY <1>0, <1>16, StillQueue, MovedOn DEF ParsePosts, Goto
<1>17. ASSUME NEW w \in Worker, ParseReactions(w) PROVE InFlight(b)'
  BY <1>0, <1>17, StillQueue, MovedOn DEF ParseReactions, Goto
<1>18. ASSUME NEW w \in Worker, SendPosts(w) PROVE InFlight(b)'
  <2>1. /\ queue' = Append(queue, ArchiveTask("analyze_posts", job[w].on))
        /\ Finish(w) /\ pc[w] \in ChainSteps /\ "analyze_posts" \in ChainNames
    BY <1>18 DEF SendPosts, ChainSteps, Steps, FailingSteps, ChainNames
  <2> QED
    BY <2>1, <1>0, <1>18, HandedOn DEF SendPosts
<1>19. ASSUME NEW w \in Worker, ReadPosts(w) PROVE InFlight(b)'
  BY <1>0, <1>19, StillQueue, MovedOn DEF ReadPosts, Goto
<1>20. ASSUME NEW w \in Worker, SavePosts(w) PROVE InFlight(b)'
  BY <1>0, <1>20, StillQueue, MovedOn DEF SavePosts, Goto
<1>21. ASSUME NEW w \in Worker, SendReactions(w) PROVE InFlight(b)'
  <2>1. /\ queue' = Append(queue, ArchiveTask("analyze_reactions", job[w].on))
        /\ Finish(w) /\ pc[w] \in ChainSteps /\ "analyze_reactions" \in ChainNames
    BY <1>21 DEF SendReactions, ChainSteps, Steps, FailingSteps, ChainNames
  <2> QED
    BY <2>1, <1>0, <1>21, HandedOn DEF SendReactions
<1>22. ASSUME NEW w \in Worker, ReadReactions(w) PROVE InFlight(b)'
  BY <1>0, <1>22, StillQueue, MovedOn DEF ReadReactions, Goto
<1>23. ASSUME NEW w \in Worker, SaveReactions(w) PROVE InFlight(b)'
  BY <1>0, <1>23, StillQueue, MovedOn DEF SaveReactions, Goto
<1>24. ASSUME NEW w \in Worker, SendTail(w) PROVE InFlight(b)'
  <2> DEFINE time   == AccountTask("extract_time_metadata", Owner[job[w].on])
             notify == AccountTask("notification_finish_parsing", Owner[job[w].on])
  <2>1. time \in Task /\ notify \in Task
    BY <1>24, StepTask, TaskTypes, OwnerAssumption
    DEF SendTail, Typed, ChainSteps, Steps, FailingSteps, AccountNames
  <2>2. queue' = Append(Append(queue, time), notify)
    BY <1>24 DEF SendTail, NoLoss
  <2>3. QueueGrows
    BY <2>1, <2>2, AppendTwiceGrows
  <2> QED
    BY <2>3, <1>0, <1>24, MovedOn DEF SendTail, Goto
<1>25. ASSUME NEW w \in Worker, MarkProcessed(w) PROVE InFlight(b)'
  <2>1. job[w].on \in Archive
    BY <1>25, StepTask DEF MarkProcessed, Typed, ChainSteps, Steps, FailingSteps
  <2>2. status[b] \in Unfinished /\ job[w].on # b
    BY <2>1, <1>25 DEF MarkProcessed, UpdateStatus, Typed, TypeOK, Unfinished, NoLoss
  <2> QED
    BY <2>2, <1>0, <1>25, Retired DEF MarkProcessed
<1>26. ASSUME NEW w \in Worker, GenerateHash(w) PROVE InFlight(b)'
  <2>1. job[w].name \notin ChainNames
    BY <1>26, StepTask DEF GenerateHash, Typed, ChainNames, AccountNames
  <2> QED
    BY <2>1, <1>0, <1>26, Retired DEF GenerateHash
<1>27. ASSUME NEW w \in Worker, TimeMetadata(w) PROVE InFlight(b)'
  <2>1. job[w].name \notin ChainNames
    BY <1>27, StepTask DEF TimeMetadata, Typed, ChainNames, AccountNames
  <2> QED
    BY <2>1, <1>0, <1>27, Retired DEF TimeMetadata
<1>28. ASSUME NEW w \in Worker, Notify(w) PROVE InFlight(b)'
  <2>1. job[w].name \notin ChainNames
    BY <1>28, StepTask DEF Notify, Typed, ChainNames, AccountNames
  <2> QED
    BY <2>1, <1>0, <1>28, Retired DEF Notify
<1>29. ASSUME NEW w \in Worker, JobErrorHandler(w) PROVE InFlight(b)'
  <2>1. job[w].on \in Archive
    BY <1>29, StepTask DEF JobErrorHandler, Typed, ChainSteps, Steps, FailingSteps
  <2>2. status[b] \in Unfinished /\ job[w].on # b
    BY <2>1, <1>29 DEF JobErrorHandler, InvalidFBArchive, UpdateStatus, Typed, TypeOK, Unfinished, NoLoss
  <2> QED
    BY <2>2, <1>0, <1>29, Retired DEF JobErrorHandler
<1>30. ASSUME NEW w \in Worker, JobFails(w) PROVE InFlight(b)'
  BY <1>0, <1>30, StillQueue, MovedOn DEF JobFails, Goto
<1>31. CASE WorkerCrash
  BY <1>31 DEF WorkerCrash, NoLoss
<1>32. CASE ApiCrash
  BY <1>32 DEF ApiCrash, NoLoss
<1>33. CASE UNCHANGED vars
  BY <1>0, <1>33, StillQueue, MovedOn DEF vars
<1> QED
  BY <1>1, <1>2, <1>3, <1>4, <1>5, <1>6, <1>7, <1>8, <1>9, <1>10, <1>11, <1>12, <1>13, <1>14, <1>15, <1>16, <1>17, <1>18, <1>19, <1>20, <1>21, <1>22, <1>23, <1>24, <1>25, <1>26, <1>27, <1>28, <1>29, <1>30, <1>31, <1>32, <1>33
  DEF Next, ClientStep, AdminStep, HandlerStep, WorkerStep, DownloadStep, ParseStep,
      PostStep, ReactionStep, TailStep

(***************************************************************************)
(* Unless a task or its result is lost (a failing SendTask, a crash, a row   *)
(* that cannot be marked invalid, a refused download), an archive that       *)
(* shows "submitted" or "processing" always has somebody at work on it.      *)
(***************************************************************************)
THEOREM NoHanging == NoLoss => (Spec => []WorkInFlight)
<1> SUFFICES ASSUME NoLoss PROVE Spec => []WorkInFlight
  OBVIOUS
<1>1. Init => Typed
  BY InitTyped
<1>2. Init => WorkInFlight
  BY DEF Init, WorkInFlight, Unfinished
<1>3. Typed /\ WorkInFlight /\ [Next]_vars => Typed' /\ WorkInFlight'
  BY TypedStep, FlightStep
<1> QED
  BY <1>1, <1>2, <1>3, PTL DEF Spec

-----------------------------------------------------------------------------
\* The steps that end a job.
EndStep(w) ==
    \/ Fetch(w) \/ SendParse(w) \/ SendPosts(w) \/ SendReactions(w)
    \/ MarkProcessed(w) \/ TailStep(w) \/ JobErrorHandler(w)

\* What the step that is taken puts into the queue.
Sent(t) ==
    \/ \E a \in Archive :
          \/ /\ AckEnqueue(a)
             /\ t \in {ArchiveTask("generate_hash_content", a), ArchiveTask("parse_archive", a)}
          \/ UrlEnqueue(a) /\ t = ArchiveTask("download_archive", a)
          \/ AdminSubmit(a) /\ t = ArchiveTask("upload_archive", a)
          \/ AdminGenerateHash(a) /\ t = ArchiveTask("generate_hash_content", a)
          \/ /\ AdminForceParse(a)
             /\ t \in {ArchiveTask("analyze_posts", a),
                       AccountTask("extract_time_metadata", Owner[a])}
    \/ \E w \in Worker :
          \/ SendParse(w) /\ t = ArchiveTask("parse_archive", job[w].on)
          \/ SendPosts(w) /\ t = ArchiveTask("analyze_posts", job[w].on)
          \/ SendReactions(w) /\ t = ArchiveTask("analyze_reactions", job[w].on)
          \/ /\ SendTail(w)
             /\ t \in {AccountTask("extract_time_metadata", Owner[job[w].on]),
                       AccountTask("notification_finish_parsing", Owner[job[w].on])}

(***************************************************************************)
(* Tasks leave the queue by its head only, and enter it when they are sent.  *)
(***************************************************************************)
LEMMA QueueStep ==
    ASSUME Typed, [Next]_vars, \A w \in Worker : ~Start(w)
    PROVE  QueueGrows /\ \A i \in DOMAIN queue' : Was(queue'[i]) \/ Sent(queue'[i])
<1> USE DEF rowVars, cloudVars, apiVars, workerVars, dataVars
<1> DEFINE Goal == QueueGrows /\ \A i \in DOMAIN queue' : Was(queue'[i]) \/ Sent(queue'[i])
<1>n. {"upload_archive", "generate_hash_content", "download_archive", "parse_archive",
       "analyze_posts", "analyze_reactions"} \subseteq ArchiveNames
  BY DEF ArchiveNames, ChainNames
<1>k. UNCHANGED queue => Goal
  BY StillQueue
<1>o. ASSUME NEW t \in Task, queue' = Append(queue, t), Sent(t) PROVE Goal
  <2>1. QueueGrows /\ \A i \in DOMAIN queue' : Was(queue'[i]) \/ queue'[i] = t
    BY <1>o, AppendGrows
  <2> QED
    BY <2>1, <1>o
<1>p. ASSUME NEW t1 \in Task, NEW t2 \in Task, queue' = Append(Append(queue, t1), t2),
             Sent(t1), Sent(t2)
      PROVE  Goal
  <2>1. QueueGrows /\ \A i \in DOMAIN queue' : Was(queue'[i]) \/ queue'[i] \in {t1, t2}
    BY <1>p, AppendTwiceGrows
  <2> QED
    BY <2>1, <1>p
<1>1. ASSUME NEW a \in Archive, ClientStep(a) \/ AdminStep(a) \/ HandlerStep(a)
      PROVE  Goal
  <2>1. CASE AckEnqueue(a)
    <3> DEFINE h == ArchiveTask("generate_hash_content", a)
               t == ArchiveTask("parse_archive", a)
    <3>1. h \in Task /\ t \in Task
      BY <1>n, TaskTypes
    <3>2. \/ queue' = queue \/ queue' = Append(queue, h)
          \/ queue' = Append(Append(queue, h), t)
      BY <2>1 DEF AckEnqueue
    <3>3. Sent(h) /\ Sent(t)
      BY <2>1 DEF Sent
    <3> HIDE DEF h, t, Goal
    <3> QED
      BY <3>1, <3>2, <3>3, <1>k, <1>o, <1>p
  <2>2. CASE AdminForceParse(a)
    <3> DEFINE f == ArchiveTask("analyze_posts", a)
               t == AccountTask("extract_time_metadata", Owner[a])
    <3>1. f \in Task /\ t \in Task
      BY <1>n, TaskTypes, OwnerAssumption DEF AccountNames
    <3>2. queue' = Append(queue, f) \/ queue' = Append(Append(queue, f), t)
      BY <2>2 DEF AdminForceParse
    <3>3. Sent(f) /\ Sent(t)
      BY <2>2 DEF Sent
    <3> HIDE DEF f, t, Goal
    <3> QED
      BY <3>1, <3>2, <3>3, <1>o, <1>p
  <2>3. CASE AdminSubmit(a) \/ AdminGenerateHash(a) \/ UrlEnqueue(a)
    <3>1. \/ UNCHANGED queue
          \/ \E n \in ArchiveNames : /\ queue' = Append(queue, ArchiveTask(n, a))
                                     /\ Sent(ArchiveTask(n, a))
      BY <2>3, <1>n DEF AdminSubmit, AdminGenerateHash, UrlEnqueue, Sent
    <3> HIDE DEF Goal
    <3> QED
      BY <3>1, TaskTypes, <1>k, <1>o
  <2>4. CASE AddFBArchive(a) \/ ClientPut(a) \/ AckUpdate(a) \/ MakeLink(a) \/ UrlSubmit(a)
    BY <2>4, <1>k DEF AddFBArchive, ClientPut, AckUpdate, MakeLink, UrlSubmit
  <2> QED
    BY <1>1, <2>1, <2>2, <2>3, <2>4 DEF ClientStep, AdminStep, HandlerStep
<1>2. ASSUME NEW w \in Worker, WorkerStep(w) \/ JobFails(w)
      PROVE  Goal
  <2>1. CASE SendParse(w) \/ SendPosts(w) \/ SendReactions(w)
    <3>1. job[w].on \in Archive
      BY <2>1, StepTask DEF Typed, SendParse, SendPosts, SendReactions, ChainSteps, Steps, FailingSteps
    <3>2. \/ UNCHANGED queue
          \/ \E n \in ArchiveNames : /\ queue' = Append(queue, ArchiveTask(n, job[w].on))
                                     /\ Sent(ArchiveTask(n, job[w].on))
      BY <2>1, <1>n DEF SendParse, SendPosts, SendReactions, Sent
    <3> HIDE DEF Goal
    <3> QED
      BY <3>1, <3>2, TaskTypes, <1>k, <1>o
  <2>2. CASE SendTail(w)
    <3> DEFINE time   == AccountTask("extract_time_metadata", Owner[job[w].on])
               notify == AccountTask("notification_finish_parsing", Owner[job[w].on])
    <3>1. time \in Task /\ notify \in Task
      BY <2>2, StepTask, TaskTypes, OwnerAssumption
      DEF SendTail, Typed, ChainSteps, Steps, FailingSteps, AccountNames
    <3>2. \/ queue' = queue \/ queue' = Append(queue, time) \/ queue' = Append(queue, notify)
          \/ queue' = Append(Append(queue, time), notify)
      BY <2>2 DEF SendTail
    <3>3. Sent(time) /\ Sent(notify)
      BY <2>2 DEF Sent
    <3> HIDE DEF time, notify, Goal
    <3> QED
      BY <3>1, <3>2, <3>3, <1>k, <1>o, <1>p
  <2>3. CASE UNCHANGED queue
    BY <2>3, <1>k
  <2> QED
    BY <1>2, <2>1, <2>2, <2>3
    DEF WorkerStep, DownloadStep, ParseStep, PostStep, ReactionStep, TailStep, Fetch, MarkStored,
        MarkProcessing, ParsePosts, ParseReactions, ReadPosts, SavePosts, ReadReactions,
        SaveReactions, MarkProcessed, GenerateHash, TimeMetadata, Notify, JobErrorHandler, JobFails
<1>3. ASSUME WorkerCrash \/ ApiCrash \/ UNCHANGED vars PROVE Goal
  BY <1>3, <1>k DEF WorkerCrash, ApiCrash, vars
<1>4. \/ \E a \in Archive : ClientStep(a) \/ AdminStep(a) \/ HandlerStep(a)
      \/ \E w \in Worker : WorkerStep(w) \/ JobFails(w)
      \/ WorkerCrash \/ ApiCrash \/ UNCHANGED vars
  BY DEF Next
<1> HIDE DEF Goal
<1>5. Goal
  BY <1>1, <1>2, <1>3, <1>4
<1> QED
  BY <1>5 DEF Goal

(***************************************************************************)
(* Where the tasks of the queue and of the workers come from.               *)
(***************************************************************************)
LEMMA TaskOrigin ==
    ASSUME Typed, [Next]_vars
    PROVE  /\ \A i \in DOMAIN queue' : Was(queue'[i]) \/ Sent(queue'[i])
           /\ \A w \in Worker : \/ job'[w] \in {job[w], NoTask}
                                \/ Start(w) /\ queue # <<>> /\ job'[w] = Head(queue) /\ Was(job'[w])
<1> USE DEF rowVars, cloudVars, apiVars, workerVars, dataVars
<1>1. CASE \E w \in Worker : Start(w)
  <2>1. PICK w \in Worker : Start(w)
    BY <1>1
  <2>2. queue \in Seq(Task) /\ queue # <<>>
    BY <2>1 DEF Start, Typed, TypeOK
  <2>3. Head(queue) = queue[1] /\ 1 \in DOMAIN queue
    BY <2>2
  <2>4. \A i \in DOMAIN Tail(queue) : Was(Tail(queue)[i])
    BY <2>2, QueuePlaces DEF Was
  <2>5. Was(Head(queue))
    BY <2>3 DEF Was
  <2> DEFINE rest == Tail(queue)
             head == Head(queue)
  <2>6. rest \in Seq(Task) /\ head \in Task /\ queue' \in {rest, Append(rest, head)}
    BY <2>1, <2>2, QueueTypes DEF Start
  <2> HIDE DEF rest, head
  <2>7. \A i \in DOMAIN Append(rest, head) :
            (i \in DOMAIN rest /\ Append(rest, head)[i] = rest[i]) \/ Append(rest, head)[i] = head
    BY <2>6, QueuePlaces
  <2>8. \A i \in DOMAIN queue' : Was(queue'[i])
    BY <2>4, <2>5, <2>6, <2>7 DEF rest, head
  <2>9. ASSUME NEW v \in Worker
        PROVE  \/ job'[v] = job[v]
               \/ Start(v) /\ queue # <<>> /\ job'[v] = Head(queue) /\ Was(job'[v])
    <3>1. CASE v = w /\ job'[v] = Head(queue)
      BY <2>1, <2>2, <2>5, <3>1
    <3>2. job'[v] = job[v] \/ (v = w /\ job'[v] = Head(queue))
      BY <2>1 DEF Start, Typed, TypeOK
    <3> QED
      BY <3>1, <3>2
  <2> QED
    BY <2>8, <2>9
<1>2. CASE \A w \in Worker : ~Start(w)
  <2>1. \A v \in Worker : job'[v] \in {job[v], NoTask}
    <3>1. ASSUME NEW a \in Archive, ClientStep(a) \/ AdminStep(a) \/ HandlerStep(a)
          PROVE  UNCHANGED job
      BY <3>1 DEF ClientStep, AdminStep, HandlerStep, AddFBArchive, ClientPut, AckUpdate, AdminSubmit,
         AdminGenerateHash, AdminForceParse, AdminRequest, MakeLink, UrlSubmit, UrlEnqueue, AckEnqueue
    <3>2. ASSUME NEW w \in Worker, WorkerStep(w) \/ JobFails(w)
          PROVE  UNCHANGED job \/ Finish(w)
      BY <1>2, <3>2 DEF Goto,
        WorkerStep, DownloadStep, ParseStep, PostStep, ReactionStep, TailStep, Fetch, MarkStored,
        SendParse, SendPosts, SendReactions, SendTail,
        MarkProcessing, ParsePosts, ParseReactions, ReadPosts, SavePosts, ReadReactions,
        SaveReactions, MarkProcessed, GenerateHash, TimeMetadata, Notify, JobErrorHandler, JobFails
    <3>3. ASSUME NEW w \in Worker, Finish(w) PROVE \A v \in Worker : job'[v] \in {job[v], NoTask}
      BY <3>3 DEF Finish, Typed, TypeOK
    <3>4. CASE WorkerCrash \/ ApiCrash \/ UNCHANGED vars
      BY <3>4 DEF WorkerCrash, ApiCrash, vars
    <3> QED
      BY <3>1, <3>2, <3>3, <3>4 DEF Next
  <2> QED
    BY <1>2, <2>1, QueueStep
<1> QED
  BY <1>1, <1>2

(***************************************************************************)
(* A task that is queued or running stays so, until the job that executes it *)
(* ends: no other worker, handler or request takes it away.                 *)
(***************************************************************************)
LEMMA TaskFate ==
    ASSUME Typed, [Next]_vars, "crash" \notin Faults, NEW NS, "none" \notin NS, NEW x, TaskFor(NS, x)
    PROVE  \/ TaskFor(NS, x)'
           \/ \E w \in Worker : Finish(w) /\ EndStep(w) /\ job[w].name \in NS /\ job[w].on = x
<1> USE DEF rowVars, cloudVars, apiVars, workerVars, dataVars
<1>1. CASE \E w \in Worker : Start(w)
  BY <1>1, TaskStarted
<1>2. CASE QueueGrows /\ UNCHANGED job
  BY <1>2, TaskKept
<1>3. ASSUME QueueGrows, NEW w \in Worker, Finish(w), EndStep(w)
      PROVE  TaskFor(NS, x)' \/ (Finish(w) /\ EndStep(w) /\ job[w].name \in NS /\ job[w].on = x)
  <2>1. \A v \in Worker : v # w => job'[v] = job[v]
    BY <1>3 DEF Finish, Typed, TypeOK
  <2> QED
    BY <1>3, <2>1, TaskKept
<1>4. \/ UNCHANGED job
      \/ \E w \in Worker : Start(w)
      \/ \E w \in Worker : Finish(w) /\ EndStep(w)
  <2>1. ASSUME NEW a \in Archive, ClientStep(a) \/ AdminStep(a) \/ HandlerStep(a)
        PROVE  UNCHANGED job
    BY <2>1 DEF ClientStep, AdminStep, HandlerStep, AddFBArchive, ClientPut, AckUpdate, AdminSubmit,
         AdminGenerateHash, AdminForceParse, AdminRequest, MakeLink, UrlSubmit, UrlEnqueue, AckEnqueue
  <2>2. ASSUME NEW w \in Worker, WorkerStep(w) \/ JobFails(w)
        PROVE  UNCHANGED job \/ Start(w) \/ (Finish(w) /\ EndStep(w))
    BY <2>2 DEF EndStep, Goto,
        WorkerStep, DownloadStep, ParseStep, PostStep, ReactionStep, TailStep, Fetch, MarkStored,
        SendParse, SendPosts, SendReactions, SendTail,
        MarkProcessing, ParsePosts, ParseReactions, ReadPosts, SavePosts, ReadReactions,
        SaveReactions, MarkProcessed, GenerateHash, TimeMetadata, Notify, JobErrorHandler, JobFails
  <2>3. CASE ApiCrash \/ UNCHANGED vars
    BY <2>3 DEF ApiCrash, vars
  <2> QED
    BY <2>1, <2>2, <2>3 DEF Next, WorkerCrash
<1> QED
  BY <1>1, <1>2, <1>3, <1>4, QueueStep
(***************************************************************************)
(* A worker moves on by a step of its own, unless the process dies.          *)
(***************************************************************************)
LEMMA OwnStep ==
    ASSUME Typed, [Next]_vars, NEW w \in Worker
    PROVE  UNCHANGED <<job[w], pc[w]>> \/ WorkerStep(w) \/ JobFails(w) \/ WorkerCrash
<1> USE DEF rowVars, cloudVars, apiVars, workerVars, dataVars
<1>1. ASSUME NEW v \in Worker, WorkerStep(v) \/ JobFails(v), v # w PROVE UNCHANGED <<job[w], pc[w]>>
  BY <1>1 DEF Finish, Goto, Typed, TypeOK,
        WorkerStep, DownloadStep, ParseStep, PostStep, ReactionStep, TailStep, Start, Fetch,
        MarkStored, SendParse, SendPosts, SendReactions, SendTail, MarkProcessing, ParsePosts,
        ParseReactions, ReadPosts, SavePosts, ReadReactions, SaveReactions, MarkProcessed,
        GenerateHash, TimeMetadata, Notify, JobErrorHandler, JobFails
<1>2. ASSUME NEW a \in Archive, ClientStep(a) \/ AdminStep(a) \/ HandlerStep(a) PROVE UNCHANGED <<job, pc>>
  BY <1>2 DEF ClientStep, AdminStep, HandlerStep, AddFBArchive, ClientPut, AckUpdate, AdminSubmit,
         AdminGenerateHash, AdminForceParse, AdminRequest, MakeLink, UrlSubmit, UrlEnqueue, AckEnqueue
<1> QED
  BY <1>1, <1>2 DEF Next, ApiCrash, vars

-----------------------------------------------------------------------------
(***************************************************************************)
(* The statistics.  What is in the database is counted, or an analysis that  *)
(* will read all of it is still to come: queued, or running and not yet past  *)
(* its last step of counting.                                               *)
(***************************************************************************)
\* The worker process runs one worker (worker.concurrency = 1).
OneWorker == \A v, w \in Worker : v = w

\* The failures that lose rows, statistics or the analysis that counts them.
NoCountLoss == Faults \cap {"job", "query", "dynamo", "crash"} = {}

\* A task of NS is queued for an archive of u, or a worker is at a step of S for one.
Due(NS, S, u) ==
    \/ \E a \in Archive : Owner[a] = u /\ QueuedFor(NS, a) # {}
    \/ \E w \in Worker : pc[w] \in S /\ Owner[job[w].on] = u

CountsPosts == {"parse_reactions", "send_posts", "read_posts", "save_posts"}
CountsReactions == CountsPosts \cup {"send_reactions", "read_reactions", "save_reactions"}
PostsDue(u) == Due({"analyze_posts"}, CountsPosts, u)
ReactionsDue(u) == Due({"analyze_posts", "analyze_reactions"}, CountsReactions, u)

\* A worker that is about to save has read what the database holds now.
UpToDate(w) ==
    /\ pc[w] = "save_posts" => snap[w] = rows[Owner[job[w].on]] \cap Post
    /\ pc[w] = "save_reactions" => snap[w] = rows[Owner[job[w].on]] \cap Reaction

Counted ==
    /\ \A w \in Worker : UpToDate(w)
    /\ \A u \in Account :
          /\ rows[u] \cap Post \subseteq stat[u] \/ PostsDue(u)
          /\ rows[u] \cap Reaction \subseteq stat[u] \/ ReactionsDue(u)

(***************************************************************************)
(* An analysis that is due stays so while the queue grows and the worker at  *)
(* it goes on, and when a worker takes its task.                            *)
(***************************************************************************)
LEMMA DueKept ==
    ASSUME QueueGrows, NEW NS, NEW S, NEW u, Due(NS, S, u),
           \A w \in Worker : pc[w] \in S => pc'[w] \in S /\ job'[w] = job[w]
    PROVE  Due(NS, S, u)'
BY DEF Due, QueuedFor, QueueGrows

LEMMA DueQueued ==
    ASSUME NEW NS, NEW S, NEW u, NEW a \in Archive, Owner[a] = u, NEW n \in NS,
           \E i \in DOMAIN queue' : queue'[i] = ArchiveTask(n, a)
    PROVE  Due(NS, S, u)'
BY DEF Due, QueuedFor, ArchiveTask

LEMMA DueStarted ==
    ASSUME Typed, NEW w \in Worker, Start(w), NEW NS, NEW S, "idle" \notin S,
           \A n \in NS : FirstStep(n) \in S, NEW u, Due(NS, S, u)
    PROVE  Due(NS, S, u)'
<1>1. CASE \E v \in Worker : pc[v] \in S /\ Owner[job[v].on] = u
  <2>1. \A v \in Worker : v # w => job'[v] = job[v] /\ pc'[v] = pc[v]
    BY DEF Start, Typed, TypeOK
  <2> QED
    BY <1>1, <2>1 DEF Start, Due
<1>2. ASSUME NEW a \in Archive, Owner[a] = u, QueuedFor(NS, a) # {}
      PROVE  Due(NS, S, u)'
  <2>1. PICK i \in DOMAIN queue : queue[i].name \in NS /\ queue[i].on = a
    BY <1>2 DEF QueuedFor
  <2>2. queue \in Seq(Task) /\ queue # <<>>
    BY DEF Start, Typed, TypeOK
  <2> DEFINE rest == Tail(queue)
             head == Head(queue)
  <2>3. queue[i] = head \/ \E j \in DOMAIN rest : rest[j] = queue[i]
    BY <2>1, <2>2, QueuePlaces
  <2>4. rest \in Seq(Task) /\ head \in Task
    BY <2>2, QueueTypes
  <2> HIDE DEF rest, head
  <2>5. CASE head.name \in Registered
    <3>1. queue' = rest /\ job'[w] = head /\ pc'[w] = FirstStep(head.name)
      BY <2>5 DEF Start, Typed, TypeOK, rest, head
    <3> QED
      BY <1>2, <2>1, <2>3, <3>1 DEF Due, QueuedFor
  <2>6. CASE head.name \notin Registered
    <3>1. queue' = Append(rest, head)
      BY <2>6 DEF Start, rest, head
    <3>2. \E j \in DOMAIN queue' : queue'[j] = queue[i]
      BY <2>3, <2>4, <3>1, QueuePlaces
    <3> QED
      BY <1>2, <2>1, <3>2 DEF Due, QueuedFor
  <2> QED
    BY <2>5, <2>6
<1> QED
  BY <1>1, <1>2 DEF Due

(***************************************************************************)
(* An analysis that is due ends by counting, and in no other way.           *)
(***************************************************************************)
LEMMA DueStep ==
    ASSUME NoCountLoss, Typed, [Next]_vars, NEW u
    PROVE  /\ PostsDue(u) =>
                 PostsDue(u)' \/ \E w \in Worker : SavePosts(w) /\ Owner[job[w].on] = u
           /\ ReactionsDue(u) =>
                 ReactionsDue(u)' \/ \E w \in Worker : SaveReactions(w) /\ Owner[job[w].on] = u
<1> USE DEF rowVars, cloudVars, apiVars, workerVars, dataVars
<1> DEFINE Goal ==
      /\ PostsDue(u) =>
            PostsDue(u)' \/ \E w \in Worker : SavePosts(w) /\ Owner[job[w].on] = u
      /\ ReactionsDue(u) =>
            ReactionsDue(u)' \/ \E w \in Worker : SaveReactions(w) /\ Owner[job[w].on] = u
<1>s. /\ "idle" \notin CountsPosts /\ "idle" \notin CountsReactions
      /\ \A n \in {"analyze_posts"} : FirstStep(n) \in CountsPosts
      /\ \A n \in {"analyze_posts", "analyze_reactions"} : FirstStep(n) \in CountsReactions
  BY DEF CountsPosts, CountsReactions, FirstStep
<1>1. ASSUME NEW w \in Worker, Start(w) PROVE Goal
  BY <1>1, <1>s, DueStarted DEF PostsDue, ReactionsDue
<1>2. CASE \A w \in Worker : ~Start(w)
  <2>1. QueueGrows
    BY <1>2, QueueStep
  <2>2. ASSUME \A w \in Worker : pc[w] \in CountsReactions => UNCHANGED <<job[w], pc[w]>>
        PROVE  Goal
    BY <2>1, <2>2, DueKept DEF PostsDue, ReactionsDue, CountsReactions
  <2>3. ASSUME NEW a \in Archive, ClientStep(a) \/ AdminStep(a) \/ HandlerStep(a) PROVE Goal
    <3>1. UNCHANGED <<job, pc>>
      BY <2>3 DEF ClientStep, AdminStep, HandlerStep, AddFBArchive, ClientPut, AckUpdate, AdminSubmit,
         AdminGenerateHash, AdminForceParse, AdminRequest, MakeLink, UrlSubmit, UrlEnqueue, AckEnqueue
    <3> QED
      BY <3>1, <2>2
  <2>4. ASSUME NEW w \in Worker, WorkerStep(w) \/ JobFails(w) PROVE Goal
    <3>1. \A v \in Worker : v # w => UNCHANGED <<job[v], pc[v]>>
      BY <2>4, <1>2 DEF Finish, Goto, Typed, TypeOK,
        WorkerStep, DownloadStep, ParseStep, PostStep, ReactionStep, TailStep, Fetch, MarkStored,
        SendParse, SendPosts, SendReactions, SendTail,
        MarkProcessing, ParsePosts, ParseReactions, ReadPosts, SavePosts, ReadReactions,
        SaveReactions, MarkProcessed, GenerateHash, TimeMetadata, Notify, JobErrorHandler, JobFails
    <3>2. CASE pc[w] \notin CountsReactions
      BY <2>2, <3>1, <3>2
    <3>3. CASE ParseReactions(w) \/ ReadPosts(w)
      <4>1. pc'[w] \in CountsPosts /\ job' = job
        BY <3>3 DEF ParseReactions, ReadPosts, Goto, CountsPosts, Typed, TypeOK
      <4> QED
        BY <2>1, <3>1, <4>1, DueKept DEF PostsDue, ReactionsDue, CountsReactions
    <3>4. CASE SendPosts(w)
      <4> DEFINE a == job[w].on
                 t == ArchiveTask("analyze_posts", a)
      <4>1. a \in Archive /\ t \in Task /\ queue' = Append(queue, t)
        BY <3>4, StepTask, TaskTypes
        DEF SendPosts, Typed, ChainSteps, Steps, FailingSteps, ArchiveNames, ChainNames
      <4>2. \E i \in DOMAIN queue' : queue'[i] = t
        BY <4>1, AppendGrows
      <4>3. CASE Owner[a] = u
        BY <4>1, <4>2, <4>3, DueQueued DEF PostsDue, ReactionsDue
      <4>4. CASE Owner[a] # u
        BY <2>1, <3>1, <4>4 DEF PostsDue, ReactionsDue, Due, QueuedFor, QueueGrows
      <4> QED
        BY <4>3, <4>4
    <3>5. CASE SavePosts(w)
      <4>1. pc'[w] \in CountsReactions /\ job' = job
        BY <3>5 DEF SavePosts, Goto, CountsReactions, Typed, TypeOK
      <4>2. ReactionsDue(u) => ReactionsDue(u)'
        BY <2>1, <3>1, <4>1, DueKept DEF ReactionsDue
      <4>3. CASE Owner[job[w].on] = u
        BY <3>5, <4>2, <4>3 DEF SavePosts
      <4>4. CASE Owner[job[w].on] # u
        BY <2>1, <3>1, <4>2, <4>4 DEF PostsDue, Due, QueuedFor, QueueGrows
      <4> QED
        BY <4>3, <4>4
    <3>6. CASE SendReactions(w)
      <4> DEFINE a == job[w].on
                 t == ArchiveTask("analyze_reactions", a)
      <4>1. a \in Archive /\ t \in Task /\ queue' = Append(queue, t)
        BY <3>6, StepTask, TaskTypes
        DEF SendReactions, Typed, ChainSteps, Steps, FailingSteps, ArchiveNames, ChainNames
      <4>2. \E i \in DOMAIN queue' : queue'[i] = t
        BY <4>1, AppendGrows
      <4>3. PostsDue(u) => PostsDue(u)'
        BY <3>6, <2>1, <3>1, DueKept DEF PostsDue, SendReactions, CountsPosts
      <4>4. CASE Owner[a] = u
        BY <4>1, <4>2, <4>3, <4>4, DueQueued DEF ReactionsDue
      <4>5. CASE Owner[a] # u
        BY <2>1, <3>1, <4>3, <4>5 DEF ReactionsDue, Due, QueuedFor, QueueGrows
      <4> QED
        BY <4>4, <4>5
    <3>7. CASE ReadReactions(w)
      <4>1. /\ pc[w] \notin CountsPosts /\ pc'[w] \in CountsReactions /\ job' = job
        BY <3>7 DEF ReadReactions, Goto, CountsPosts, CountsReactions, Typed, TypeOK
      <4> QED
        BY <2>1, <3>1, <4>1, DueKept DEF PostsDue, ReactionsDue
    <3>8. CASE SaveReactions(w)
      <4>1. pc[w] \notin CountsPosts /\ pc'[w] \notin CountsReactions /\ job' = job
        BY <3>8 DEF SaveReactions, Goto, CountsPosts, CountsReactions, Typed, TypeOK
      <4>2. PostsDue(u) => PostsDue(u)'
        BY <2>1, <3>1, <4>1, DueKept DEF PostsDue
      <4>3. CASE Owner[job[w].on] = u
        BY <3>8, <4>2, <4>3
      <4>4. CASE Owner[job[w].on] # u
        BY <2>1, <3>1, <4>2, <4>4 DEF ReactionsDue, Due, QueuedFor, QueueGrows
      <4> QED
        BY <4>3, <4>4
    <3> QED
      BY <1>2, <2>4, <3>2, <3>3, <3>4, <3>5, <3>6, <3>7, <3>8
      DEF NoCountLoss, CountsPosts, CountsReactions,
        WorkerStep, DownloadStep, ParseStep, PostStep, ReactionStep, TailStep, Fetch, MarkStored,
        SendParse, SendTail, MarkProcessing, ParsePosts, MarkProcessed, GenerateHash, TimeMetadata,
        Notify, JobErrorHandler, JobFails
  <2>5. ASSUME WorkerCrash \/ ApiCrash \/ UNCHANGED vars PROVE Goal
    BY <2>5, <2>2 DEF NoCountLoss, WorkerCrash, ApiCrash, vars
  <2> QED
    BY <2>3, <2>4, <2>5 DEF Next
<1> QED
  BY <1>1, <1>2

(***************************************************************************)
(* Rows are inserted by the parser only, which goes on to an analysis.      *)
(***************************************************************************)
LEMMA RowsInserted ==
    ASSUME Typed, [Next]_vars, NEW u \in Account, rows'[u] # rows[u]
    PROVE  PostsDue(u)' /\ stat' = stat
<1> USE DEF rowVars, cloudVars, apiVars, workerVars, dataVars
<1>1. ASSUME NEW w \in Worker, ParsePosts(w) \/ ParseReactions(w)
      PROVE  PostsDue(u)' /\ stat' = stat
  <2>1. Owner[job[w].on] = u
    BY <1>1 DEF ParsePosts, ParseReactions, InsertRows, Typed, TypeOK
  <2>2. pc'[w] \in CountsPosts /\ job' = job /\ stat' = stat
    BY <1>1 DEF ParsePosts, ParseReactions, Goto, CountsPosts, Typed, TypeOK
  <2> QED
    BY <2>1, <2>2 DEF PostsDue, Due
<1>2. ASSUME NEW a \in Archive, ClientStep(a) \/ AdminStep(a) \/ HandlerStep(a) PROVE UNCHANGED rows
  BY <1>2 DEF ClientStep, AdminStep, HandlerStep, AddFBArchive, ClientPut, AckUpdate, AdminSubmit,
         AdminGenerateHash, AdminForceParse, AdminRequest, MakeLink, UrlSubmit, UrlEnqueue, AckEnqueue
<1>3. ASSUME NEW w \in Worker, WorkerStep(w) \/ JobFails(w), ~ParsePosts(w), ~ParseReactions(w)
      PROVE  UNCHANGED rows
  BY <1>3 DEF WorkerStep, DownloadStep, ParseStep, PostStep, ReactionStep, TailStep, Start, Fetch,
        MarkStored, SendParse, SendPosts, SendReactions, SendTail, MarkProcessing, ReadPosts,
        SavePosts, ReadReactions, SaveReactions, CountInto, MarkProcessed, GenerateHash,
        TimeMetadata, Notify, JobErrorHandler, JobFails
<1> QED
  BY <1>1, <1>2, <1>3 DEF Next, WorkerCrash, ApiCrash, vars

(***************************************************************************)
(* What a worker has read stays what the database holds until it saves it:   *)
(* no other worker inserts rows meanwhile.                                  *)
(***************************************************************************)
LEMMA UpToDateStep ==
    ASSUME "query" \notin Faults, OneWorker, Typed, [Next]_vars, NEW w \in Worker, UpToDate(w)
    PROVE  UpToDate(w)'
<1> USE DEF rowVars, cloudVars, apiVars, workerVars, dataVars
<1>1. CASE ReadPosts(w) \/ ReadReactions(w)
  BY <1>1 DEF ReadPosts, ReadReactions, Goto, UpToDate, Typed, TypeOK
<1>2. CASE UNCHANGED <<job, pc, snap, rows>>
  BY <1>2 DEF UpToDate
<1>3. ASSUME NEW a \in Archive, ClientStep(a) \/ AdminStep(a) \/ HandlerStep(a)
      PROVE  UNCHANGED <<job, pc, snap, rows>>
  BY <1>3 DEF ClientStep, AdminStep, HandlerStep, AddFBArchive, ClientPut, AckUpdate, AdminSubmit,
         AdminGenerateHash, AdminForceParse, AdminRequest, MakeLink, UrlSubmit, UrlEnqueue, AckEnqueue
<1>4. CASE Start(w)
  <2>1. pc'[w] \notin {"save_posts", "save_reactions"}
    BY <1>4 DEF Start, FirstStep, Registered, ArchiveNames, AccountNames, ChainNames, Typed, TypeOK
  <2> QED
    BY <2>1 DEF UpToDate
<1>5. CASE (WorkerStep(w) \/ JobFails(w)) /\ ~ReadPosts(w) /\ ~ReadReactions(w) /\ ~Start(w)
  <2>1. pc'[w] \notin {"save_posts", "save_reactions"}
    BY <1>5 DEF Goto, Finish, Typed, TypeOK,
        WorkerStep, DownloadStep, ParseStep, PostStep, ReactionStep, TailStep, Fetch,
        MarkStored, SendParse, SendPosts, SendReactions, SendTail, MarkProcessing, ParsePosts,
        ParseReactions, SavePosts, SaveReactions, MarkProcessed, GenerateHash,
        TimeMetadata, Notify, JobErrorHandler, JobFails
  <2> QED
    BY <2>1 DEF UpToDate
<1>6. CASE WorkerCrash
  BY <1>6 DEF WorkerCrash, UpToDate
<1> QED
  BY <1>1, <1>2, <1>3, <1>4, <1>5, <1>6 DEF Next, OneWorker, ApiCrash, vars

(***************************************************************************)
(* The statistics change when they are saved only.                          *)
(***************************************************************************)
LEMMA StatSaved ==
    ASSUME Typed, [Next]_vars, NEW u \in Account
    PROVE  \/ stat'[u] = stat[u]
           \/ \E w \in Worker : (SavePosts(w) \/ SaveReactions(w)) /\ Owner[job[w].on] = u
<1> USE DEF rowVars, cloudVars, apiVars, workerVars, dataVars
<1>1. ASSUME NEW w \in Worker, SavePosts(w) \/ SaveReactions(w), Owner[job[w].on] # u
      PROVE  stat'[u] = stat[u]
  BY <1>1 DEF SavePosts, SaveReactions, CountInto, Typed, TypeOK
<1>2. ASSUME NEW a \in Archive, ClientStep(a) \/ AdminStep(a) \/ HandlerStep(a) PROVE UNCHANGED stat
  BY <1>2 DEF ClientStep, AdminStep, HandlerStep, AddFBArchive, ClientPut, AckUpdate, AdminSubmit,
         AdminGenerateHash, AdminForceParse, AdminRequest, MakeLink, UrlSubmit, UrlEnqueue, AckEnqueue
<1>3. ASSUME NEW w \in Worker, WorkerStep(w) \/ JobFails(w), ~SavePosts(w), ~SaveReactions(w)
      PROVE  UNCHANGED stat
  BY <1>3 DEF WorkerStep, DownloadStep, ParseStep, PostStep, ReactionStep, TailStep, Start, Fetch,
        MarkStored, SendParse, SendPosts, SendReactions, SendTail, MarkProcessing, ParsePosts,
        ParseReactions, ReadPosts, ReadReactions, MarkProcessed, GenerateHash,
        TimeMetadata, Notify, JobErrorHandler, JobFails
<1> QED
  BY <1>1, <1>2, <1>3 DEF Next, WorkerCrash, ApiCrash, vars

LEMMA CountedStep == NoCountLoss /\ OneWorker /\ Typed /\ Counted /\ [Next]_vars => Counted'
<1> SUFFICES ASSUME NoCountLoss, OneWorker, Typed, Counted, [Next]_vars, NEW u \in Account
             PROVE  /\ rows'[u] \cap Post \subseteq stat'[u] \/ PostsDue(u)'
                    /\ rows'[u] \cap Reaction \subseteq stat'[u] \/ ReactionsDue(u)'
  BY UpToDateStep DEF Counted, NoCountLoss
<1>1. /\ rows[u] \cap Post \subseteq stat[u] \/ PostsDue(u)
      /\ rows[u] \cap Reaction \subseteq stat[u] \/ ReactionsDue(u)
  BY DEF Counted
<1>2. PostsDue(u)' => ReactionsDue(u)'
  BY DEF PostsDue, ReactionsDue, Due, QueuedFor, CountsReactions
<1>3. CASE rows'[u] # rows[u]
  BY <1>2, <1>3, RowsInserted
<1>4. ASSUME NEW w \in Worker, SavePosts(w), Owner[job[w].on] = u, rows'[u] = rows[u]
      PROVE  rows'[u] \cap Post \subseteq stat'[u] /\ ReactionsDue(u)'
  <2>1. snap[w] = rows[u] \cap Post
    BY <1>4 DEF Counted, UpToDate, SavePosts
  <2>2. stat'[u] = IF snap[w] = {} THEN stat[u] ELSE (stat[u] \ Post) \cup snap[w]
    BY <1>4 DEF SavePosts, CountInto, NoCountLoss, Typed, TypeOK
  <2>3. pc'[w] \in CountsReactions /\ job' = job
    BY <1>4 DEF SavePosts, Goto, CountsReactions, Typed, TypeOK
  <2> QED
    BY <1>4, <2>1, <2>2, <2>3 DEF ReactionsDue, Due
<1>5. ASSUME NEW w \in Worker, SaveReactions(w), Owner[job[w].on] = u, rows'[u] = rows[u]
      PROVE  /\ rows'[u] \cap Post \subseteq stat'[u] \/ PostsDue(u)'
             /\ rows'[u] \cap Reaction \subseteq stat'[u]
  <2>1. snap[w] = rows[u] \cap Reaction
    BY <1>5 DEF Counted, UpToDate, SaveReactions
  <2>2. stat'[u] = IF snap[w] = {} THEN stat[u] ELSE (stat[u] \ Reaction) \cup snap[w]
    BY <1>5 DEF SaveReactions, CountInto, Typed, TypeOK
  <2>3. rows[u] \cap Post \subseteq stat[u] => rows[u] \cap Post \subseteq stat'[u]
    BY <2>1, <2>2
  <2>4. PostsDue(u) => PostsDue(u)'
    <3>1. ~\E v \in Worker : SavePosts(v)
      BY <1>5 DEF SavePosts, SaveReactions, OneWorker
    <3> QED
      BY <3>1, DueStep
  <2> QED
    BY <1>1, <1>5, <2>1, <2>2, <2>3, <2>4
<1>6. CASE stat'[u] = stat[u] /\ rows'[u] = rows[u]
  BY <1>1, <1>4, <1>5, <1>6, DueStep
<1> QED
  BY <1>3, <1>4, <1>5, <1>6, StatSaved

(***************************************************************************)
(* One worker that loses nothing leaves every row counted once no archive is *)
(* in flight, whatever is announced twice or forced.                        *)
(***************************************************************************)
THEOREM EverythingCounted == NoCountLoss /\ OneWorker => (Spec => []StatsConverge)
<1> SUFFICES ASSUME NoCountLoss, OneWorker PROVE Spec => []StatsConverge
  OBVIOUS
<1>1. Init => Typed
  BY InitTyped
<1>2. Init => Counted
  BY DEF Init, Counted, UpToDate
<1>3. Typed /\ Counted /\ [Next]_vars => Typed' /\ Counted'
  BY TypedStep, CountedStep
<1>4. Typed /\ Counted => StatsConverge
  <2> SUFFICES ASSUME Typed, Counted, \A a \in Archive : ~InFlight(a), NEW u \in Account
               PROVE  rows[u] \subseteq stat[u]
    BY DEF StatsConverge
  <2>1. \A a \in Archive : QueuedFor(ChainNames, a) = {} /\ RunningFor(ChainNames, a) = {}
    BY DEF InFlight, TaskFor
  <2>2. \A w \in Worker : pc[w] \notin ChainSteps
    BY <2>1, StepTask DEF RunningFor, Typed
  <2>3. CountsPosts \subseteq ChainSteps /\ CountsReactions \subseteq ChainSteps
    BY DEF CountsPosts, CountsReactions, ChainSteps, Steps, FailingSteps
  <2>4. ~PostsDue(u) /\ ~ReactionsDue(u)
    BY <2>1, <2>2, <2>3 DEF PostsDue, ReactionsDue, Due, QueuedFor, ChainNames
  <2>5. rows[u] \subseteq Post \cup Reaction
    BY DEF Typed, TypeOK
  <2> QED
    BY <2>4, <2>5 DEF Counted
<1> QED
  BY <1>1, <1>2, <1>3, <1>4, PTL DEF Spec

-----------------------------------------------------------------------------

(***************************************************************************)
(* A job that reads archive.zip finds it: the proof follows the object from  *)
(* the bucket into the row and from the row into the tasks.  Nothing removes *)
(* an object, a row or its key, so what was true of a task when it was sent  *)
(* is still true when it is executed.                                       *)
(***************************************************************************)

ObjectNames == {"parse_archive", "generate_hash_content"}

\* Archives with a row, and those whose row names an object in the bucket.
Existing == {a \in Archive : status[a] # "none"}
Backed == {a \in Archive : a \in s3 /\ fileKey[a]}

\* A task about an archive is about one with a row; one that reads the object
\* is about one with an object.
Fits(t, existing, backed) ==
    /\ t.name \in ArchiveNames => t.on \in existing
    /\ t.name \in ObjectNames => t.on \in backed
AllFit(q, existing, backed) == \A i \in DOMAIN q : Fits(q[i], existing, backed)

TasksFit ==
    /\ AllFit(queue, Existing, Backed)
    /\ \A w \in Worker : Fits(job[w], Existing, Backed)
HandlersFit ==
    \A a \in Archive :
        /\ acking[a] > 0 => a \in Backed
        /\ creating[a] # "no" \/ a \in links \/ a \in s3 => a \in Existing
        /\ fileKey[a] => a \in s3
JobsFit ==
    \A w \in Worker :
        /\ pc[w] = "mark_stored" => job[w].on \in s3
        /\ pc[w] = "send_parse" => job[w].on \in Backed
Sourced == TasksFit /\ HandlersFit /\ JobsFit

\* Nothing is ever taken away.
Grows ==
    /\ Existing \subseteq Existing'
    /\ Backed \subseteq Backed'
    /\ s3 \subseteq s3'

LEMMA AppendFits ==
    \A existing, backed : \A q \in Seq(Task), t \in Task :
        AllFit(q, existing, backed) /\ Fits(t, existing, backed)
            => AllFit(Append(q, t), existing, backed)
BY QueuePlaces DEF AllFit

LEMMA StartFits ==
    \A existing, backed : \A q \in Seq(Task) :
        AllFit(q, existing, backed) /\ q # <<>>
            => /\ Fits(Head(q), existing, backed)
               /\ AllFit(Tail(q), existing, backed)
               /\ AllFit(Append(Tail(q), Head(q)), existing, backed)
<1> SUFFICES ASSUME NEW q \in Seq(Task), NEW existing, NEW backed,
                    AllFit(q, existing, backed), q # <<>>
             PROVE  /\ Fits(Head(q), existing, backed)
                    /\ AllFit(Tail(q), existing, backed)
                    /\ AllFit(Append(Tail(q), Head(q)), existing, backed)
  OBVIOUS
<1>1. Head(q) = q[1] /\ 1 \in DOMAIN q
  OBVIOUS
<1>2. Fits(Head(q), existing, backed)
  BY <1>1 DEF AllFit
<1>3. AllFit(Tail(q), existing, backed)
  BY QueuePlaces DEF AllFit
<1> QED
  BY <1>2, <1>3, QueueTypes, AppendFits

LEMMA FitsGrow ==
    \A t, existing, backed, more, moreBacked :
        Fits(t, existing, backed) /\ existing \subseteq more /\ backed \subseteq moreBacked
            => Fits(t, more, moreBacked)
BY DEF Fits

(***************************************************************************)
(* Tasks that fit when they are sent, or taken from the queue, fit after.    *)
(***************************************************************************)
LEMMA TasksStay ==
    ASSUME Grows, AllFit(queue', Existing, Backed),
           \A w \in Worker : Fits(job'[w], Existing, Backed)
    PROVE  TasksFit'
<1>1. AllFit(queue', Existing', Backed')
  BY FitsGrow DEF Grows, AllFit
<1>2. \A w \in Worker : Fits(job'[w], Existing', Backed')
  BY FitsGrow DEF Grows
<1> QED
  BY <1>1, <1>2 DEF TasksFit

\* A worker without a task has none that could not fit.
LEMMA NoTaskFits == \A existing, backed : Fits(NoTask, existing, backed)
BY DEF Fits, NoTask, ArchiveNames, ChainNames, ObjectNames

(***************************************************************************)
(* A worker that moves on, or is done, leaves all tasks as fit as they were. *)
(***************************************************************************)
LEMMA JobsKept ==
    ASSUME Typed, Sourced, NEW w \in Worker, job' = job \/ Finish(w)
    PROVE  \A v \in Worker : Fits(job'[v], Existing, Backed)
<1>1. \A v \in Worker : job'[v] \in {job[v], NoTask}
  BY DEF Finish, Typed, TypeOK
<1> QED
  BY <1>1, NoTaskFits DEF Sourced, TasksFit

LEMMA InitSourced == Init => Sourced
<1> SUFFICES ASSUME Init PROVE Sourced
  OBVIOUS
<1>1. TasksFit
  BY NoTaskFits DEF Init, TasksFit, AllFit
<1>2. HandlersFit
  BY DEF Init, HandlersFit
<1>3. JobsFit
  BY DEF Init, JobsFit
<1> QED
  BY <1>1, <1>2, <1>3 DEF Sourced

(***************************************************************************)
(* The steps of clients, administrators and handlers.                       *)
(***************************************************************************)
LEMMA RequestSourced ==
    ASSUME Typed, Sourced, NEW a \in Archive, ClientStep(a) \/ AdminStep(a) \/ HandlerStep(a)
    PROVE  Sourced'
<1> USE DEF rowVars, cloudVars, apiVars, workerVars, dataVars
<1>q. queue \in Seq(Task) /\ AllFit(queue, Existing, Backed)
  BY DEF Typed, TypeOK, Sourced, TasksFit
<1>t. \A n \in ArchiveNames : ArchiveTask(n, a) \in Task
  BY TaskTypes
<1>f. \A n \in ArchiveNames \ ObjectNames :
          a \in Existing => Fits(ArchiveTask(n, a), Existing, Backed)
  BY DEF Fits, ArchiveTask
<1>o. \A n \in ObjectNames :
          a \in Existing /\ a \in Backed => Fits(ArchiveTask(n, a), Existing, Backed)
  BY DEF Fits, ArchiveTask
<1>u. \A n \in AccountNames, u \in Account : Fits(AccountTask(n, u), Existing, Backed)
  BY DEF Fits, AccountTask, AccountNames, ArchiveNames, ChainNames, ObjectNames
<1>n. /\ {"upload_archive", "analyze_posts", "download_archive"} \subseteq ArchiveNames \ ObjectNames
      /\ ObjectNames \subseteq ArchiveNames
  BY DEF ArchiveNames, ChainNames, ObjectNames
<1>w. UNCHANGED <<job, pc>>
  BY DEF ClientStep, AdminStep, HandlerStep, AddFBArchive, ClientPut, AckUpdate, AdminSubmit,
         AdminGenerateHash, AdminForceParse, AdminRequest, MakeLink, UrlSubmit, UrlEnqueue, AckEnqueue
<1>j. \A v \in Worker : Fits(job'[v], Existing, Backed)
  BY <1>w DEF Sourced, TasksFit
<1>s. ASSUME Grows, AllFit(queue', Existing, Backed), HandlersFit' PROVE Sourced'
  <2>1. JobsFit'
    BY <1>w, <1>s DEF Grows, Sourced, JobsFit
  <2> QED
    BY <2>1, <1>j, <1>s, TasksStay DEF Sourced
<1>1. CASE AddFBArchive(a)
  <2>1. Existing' = Existing \cup {a} /\ Backed' = Backed /\ s3' = s3
    BY <1>1 DEF AddFBArchive, Existing, Backed, Typed, TypeOK
  <2>2. HandlersFit'
    BY <1>1, <2>1 DEF AddFBArchive, HandlersFit, Sourced, Typed, TypeOK
  <2> QED
    BY <1>1, <1>q, <1>s, <2>1, <2>2 DEF AddFBArchive, Grows
<1>2. CASE ClientPut(a)
  <2>1. Existing' = Existing /\ Backed \subseteq Backed' /\ s3' = s3 \cup {a}
    BY <1>2 DEF ClientPut, Existing, Backed
  <2>2. HandlersFit'
    BY <1>2, <2>1 DEF ClientPut, HandlersFit, Sourced
  <2> QED
    BY <1>2, <1>q, <1>s, <2>1, <2>2 DEF ClientPut, Grows
<1>3. CASE AckUpdate(a)
  <2>1. a \in s3 /\ a \in Existing /\ UNCHANGED <<s3, links, creating, queue>>
    BY <1>3 DEF AckUpdate, Sourced, HandlersFit
  <2>2. status' = [status EXCEPT ![a] = "submitted"]
    BY <1>3, <2>1 DEF AckUpdate, UpdateStatus, Existing
  <2>3. fileKey' = [fileKey EXCEPT ![a] = TRUE]
    BY <1>3, <2>1, Zenon DEF AckUpdate, UpdateKey, Exists, Existing
  <2>4. Existing' = Existing /\ Backed' = Backed \cup {a}
    BY <2>1, <2>2, <2>3 DEF Existing, Backed, Typed, TypeOK
  <2>5. acking' = [acking EXCEPT ![a] = @ + 1]
    BY <1>3 DEF AckUpdate
  <2>6. HandlersFit'
    BY <2>1, <2>3, <2>4, <2>5 DEF HandlersFit, Sourced, Typed, TypeOK
  <2> QED
    BY <1>q, <1>s, <2>1, <2>4, <2>6 DEF Grows
<1>4. CASE AdminStep(a)
  <2>1. a \in Existing /\ UNCHANGED <<status, fileKey, s3, links, creating, acking>>
    BY <1>4 DEF AdminStep, AdminSubmit, AdminGenerateHash, AdminForceParse, AdminRequest, Exists, Existing
  <2>2. Existing' = Existing /\ Backed' = Backed /\ HandlersFit' /\ Grows
    BY <2>1 DEF Existing, Backed, Sourced, HandlersFit, Grows
  <2>3. CASE AdminSubmit(a)
    BY <2>3, <1>q, <1>t, <1>f, <1>n, <1>s, <2>1, <2>2, AppendFits DEF AdminSubmit
  <2>4. CASE AdminGenerateHash(a)
    <3>1. a \in Backed
      BY <2>4 DEF AdminGenerateHash, Backed, Sourced, HandlersFit
    <3> QED
      BY <2>4, <3>1, <1>q, <1>t, <1>o, <1>n, <1>s, <2>1, <2>2, AppendFits
      DEF AdminGenerateHash, ObjectNames
  <2>5. CASE AdminForceParse(a)
    <3> DEFINE forced == Append(queue, ArchiveTask("analyze_posts", a))
               time == AccountTask("extract_time_metadata", Owner[a])
    <3>1. forced \in Seq(Task) /\ AllFit(forced, Existing, Backed)
      BY <1>q, <1>t, <1>f, <1>n, <2>1, QueueTypes, AppendFits
    <3>2. time \in Task /\ Fits(time, Existing, Backed)
      BY <1>u, TaskTypes, OwnerAssumption DEF AccountNames
    <3>3. queue' \in {forced, Append(forced, time)}
      BY <2>5 DEF AdminForceParse
    <3> HIDE DEF forced, time
    <3>4. AllFit(queue', Existing, Backed)
      BY <3>1, <3>2, <3>3, AppendFits
    <3> QED
      BY <3>4, <1>s, <2>2
  <2> QED
    BY <1>4, <2>3, <2>4, <2>5 DEF AdminStep
<1>5. CASE MakeLink(a) \/ UrlSubmit(a)
  <2>1. creating[a] # "no" /\ a \in Existing
    BY <1>5 DEF MakeLink, UrlSubmit, Sourced, HandlersFit
  <2>2. /\ UNCHANGED <<fileKey, s3, acking, queue>>
        /\ links' \in {links, links \cup {a}}
        /\ \A b \in Archive : b # a => creating'[b] = creating[b] /\ status'[b] = status[b]
        /\ status'[a] # "none"
    BY <1>5, <2>1 DEF MakeLink, UrlSubmit, InvalidFBArchive, UpdateStatus, Existing, Typed, TypeOK
  <2>3. Existing' = Existing /\ Backed' = Backed
    BY <2>1, <2>2 DEF Existing, Backed
  <2>4. HandlersFit'
    BY <2>1, <2>2, <2>3 DEF HandlersFit, Sourced
  <2> QED
    BY <1>q, <1>s, <2>2, <2>3, <2>4 DEF Grows
<1>6. CASE UrlEnqueue(a)
  <2>1. a \in Existing /\ UNCHANGED <<status, fileKey, s3, links, acking>>
    BY <1>6 DEF UrlEnqueue, Sourced, HandlersFit
  <2>2. Existing' = Existing /\ Backed' = Backed
    BY <2>1 DEF Existing, Backed
  <2>3. HandlersFit'
    BY <1>6, <2>1, <2>2 DEF UrlEnqueue, HandlersFit, Sourced, Typed, TypeOK
  <2>4. AllFit(queue', Existing, Backed)
    BY <1>6, <1>q, <1>t, <1>f, <1>n, <2>1, AppendFits DEF UrlEnqueue
  <2> QED
    BY <1>s, <2>1, <2>2, <2>3, <2>4 DEF Grows
<1>7. CASE AckEnqueue(a)
  <2>1. /\ a \in Backed /\ a \in Existing
        /\ UNCHANGED <<status, fileKey, s3, links, creating>>
        /\ acking' = [acking EXCEPT ![a] = @ - 1]
    BY <1>7 DEF AckEnqueue, Sourced, HandlersFit, Backed
  <2>2. Existing' = Existing /\ Backed' = Backed
    BY <2>1 DEF Existing, Backed
  <2>3. HandlersFit'
    BY <2>1, <2>2 DEF HandlersFit, Sourced, Typed, TypeOK
  <2> DEFINE hashed == Append(queue, ArchiveTask("generate_hash_content", a))
             parse == ArchiveTask("parse_archive", a)
  <2>4. hashed \in Seq(Task) /\ AllFit(hashed, Existing, Backed)
    BY <1>q, <1>t, <1>o, <1>n, <2>1, QueueTypes, AppendFits DEF ObjectNames
  <2>5. parse \in Task /\ Fits(parse, Existing, Backed)
    BY <1>t, <1>o, <1>n, <2>1 DEF ObjectNames
  <2>6. queue' \in {queue, hashed, Append(hashed, parse)}
    BY <1>7 DEF AckEnqueue
  <2> HIDE DEF hashed, parse
  <2>7. AllFit(queue', Existing, Backed)
    BY <1>q, <2>4, <2>5, <2>6, AppendFits
  <2> QED
    BY <1>s, <2>1, <2>2, <2>3, <2>7 DEF Grows
<1> QED
  BY <1>1, <1>2, <1>3, <1>4, <1>5, <1>6, <1>7 DEF ClientStep, HandlerStep

(***************************************************************************)
(* What a worker's step leaves to show when it stores nothing, or only more: *)
(* the queue, and where the worker is now.                                  *)
(***************************************************************************)
LEMMA StepSourced ==
    ASSUME Typed, Sourced, NEW w \in Worker, Grows, HandlersFit',
           AllFit(queue', Existing, Backed),
           \/ /\ job' = job
              /\ \E s : pc' = [pc EXCEPT ![w] = s] /\ s \notin {"mark_stored", "send_parse"}
           \/ Finish(w)
    PROVE  Sourced'
<1>1. TasksFit'
  BY JobsKept, TasksStay
<1>2. \A v \in Worker : \/ pc'[v] = pc[v] /\ job'[v] = job[v]
                       \/ pc'[v] \notin {"mark_stored", "send_parse"}
  BY DEF Finish, Typed, TypeOK
<1>3. JobsFit'
  BY <1>2 DEF JobsFit, Sourced, Grows
<1> QED
  BY <1>1, <1>3 DEF Sourced

\* The tasks that jobs of the chain send, but for parse_archive, fit.
LEMMA SuccessorFits ==
    ASSUME Typed, Sourced, NEW w \in Worker, pc[w] \in ChainSteps,
           NEW n \in {"analyze_posts", "analyze_reactions"},
           queue' = Append(queue, ArchiveTask(n, job[w].on))
    PROVE  AllFit(queue', Existing, Backed)
<1>1. job[w].on \in Archive /\ job[w].on \in Existing
  BY StepTask DEF Typed, Sourced, TasksFit, Fits, ArchiveNames
<1>2. ArchiveTask(n, job[w].on) \in Task
  BY <1>1, TaskTypes DEF ArchiveNames, ChainNames
<1>3. Fits(ArchiveTask(n, job[w].on), Existing, Backed)
  BY <1>1 DEF Fits, ArchiveTask, ObjectNames
<1> QED
  BY <1>2, <1>3, AppendFits DEF Typed, TypeOK, Sourced, TasksFit

(***************************************************************************)
(* The steps of the workers.                                                *)
(***************************************************************************)
LEMMA WorkerSourced ==
    ASSUME Typed, Sourced, NEW w \in Worker, WorkerStep(w) \/ JobFails(w)
    PROVE  Sourced'
<1> USE DEF rowVars, cloudVars, apiVars, workerVars, dataVars
<1>q. queue \in Seq(Task) /\ AllFit(queue, Existing, Backed)
  BY DEF Typed, TypeOK, Sourced, TasksFit
<1>k. ASSUME UNCHANGED <<status, fileKey, s3, links, creating, acking>>
      PROVE  Grows /\ HandlersFit'
  <2>1. Existing' = Existing /\ Backed' = Backed
    BY <1>k DEF Existing, Backed
  <2> QED
    BY <1>k, <2>1 DEF Grows, HandlersFit, Sourced
<1>m. ASSUME pc[w] \in ChainSteps
      PROVE  job[w].on \in Archive /\ job[w].on \in Existing
  BY <1>m, StepTask DEF Typed, Sourced, TasksFit, Fits, ArchiveNames
<1>1. CASE Start(w)
  <2>1. Grows /\ HandlersFit'
    BY <1>1, <1>k DEF Start
  <2>2. /\ Fits(Head(queue), Existing, Backed)
        /\ AllFit(Tail(queue), Existing, Backed)
        /\ AllFit(Append(Tail(queue), Head(queue)), Existing, Backed)
    BY <1>1, <1>q, StartFits DEF Start
  <2>3. AllFit(queue', Existing, Backed)
    BY <1>1, <2>2 DEF Start
  <2>4. \A v \in Worker : job'[v] \in {job[v], Head(queue)}
    BY <1>1 DEF Start, Typed, TypeOK
  <2>5. \A v \in Worker : Fits(job'[v], Existing, Backed)
    BY <2>2, <2>4 DEF Sourced, TasksFit
  <2>6. \A v \in Worker : \/ pc'[v] = pc[v] /\ job'[v] = job[v]
                         \/ pc'[v] \notin {"mark_stored", "send_parse"}
    BY <1>1 DEF Start, Typed, TypeOK, FirstStep, Registered, ArchiveNames, AccountNames, ChainNames
  <2>7. JobsFit'
    BY <2>1, <2>6 DEF JobsFit, Sourced, Grows
  <2> QED
    BY <2>1, <2>3, <2>5, <2>7, TasksStay DEF Sourced
<1>2. CASE Fetch(w)
  <2>1. job[w].on \in Existing
    BY <1>2, <1>m DEF Fetch, ChainSteps, Steps, FailingSteps
  <2>2. CASE UNCHANGED s3 /\ Finish(w)
    BY <1>2, <2>2, <1>q, <1>k, StepSourced DEF Fetch
  <2>3. CASE s3' = s3 \cup {job[w].on} /\ Goto(w, "mark_stored")
    <3>1. Existing' = Existing /\ Backed \subseteq Backed'
      BY <1>2, <2>3 DEF Fetch, Existing, Backed
    <3>2. HandlersFit'
      BY <1>2, <2>1, <2>3, <3>1 DEF Fetch, HandlersFit, Sourced
    <3>3. TasksFit'
      BY <1>2, <2>3, <1>q, <3>1, TasksStay DEF Fetch, Goto, Grows, Sourced, TasksFit
    <3>4. JobsFit'
      BY <1>2, <2>3, <3>1 DEF Fetch, Goto, JobsFit, Sourced, Typed, TypeOK
    <3> QED
      BY <3>2, <3>3, <3>4 DEF Sourced
  <2> QED
    BY <1>2, <2>2, <2>3 DEF Fetch
<1>3. CASE MarkStored(w)
  <2>1. job[w].on \in Archive /\ job[w].on \in Existing /\ job[w].on \in s3
    BY <1>3, <1>m DEF MarkStored, ChainSteps, Steps, FailingSteps, Sourced, JobsFit
  <2>2. status' = [status EXCEPT ![job[w].on] = "submitted"]
    BY <1>3, <2>1 DEF MarkStored, UpdateStatus, Existing
  <2>3. fileKey' = [fileKey EXCEPT ![job[w].on] = TRUE]
    BY <1>3, <2>1, Zenon DEF MarkStored, UpdateKey, Exists, Existing
  <2>4. Existing' = Existing /\ Backed' = Backed \cup {job[w].on} /\ s3' = s3
    BY <1>3, <2>1, <2>2, <2>3 DEF MarkStored, Existing, Backed, Typed, TypeOK
  <2>5. HandlersFit'
    BY <1>3, <2>1, <2>3, <2>4 DEF MarkStored, HandlersFit, Sourced, Typed, TypeOK
  <2>6. TasksFit'
    BY <1>3, <1>q, <2>4, TasksStay DEF MarkStored, Goto, Grows, Sourced, TasksFit
  <2>7. JobsFit'
    BY <1>3, <2>4 DEF MarkStored, Goto, JobsFit, Sourced, Typed, TypeOK
  <2> QED
    BY <2>5, <2>6, <2>7 DEF Sourced
<1>4. CASE SendParse(w)
  <2>1. job[w].on \in Archive /\ job[w].on \in Existing /\ job[w].on \in Backed
    BY <1>4, <1>m DEF SendParse, ChainSteps, Steps, FailingSteps, Sourced, JobsFit
  <2> DEFINE parse == ArchiveTask("parse_archive", job[w].on)
  <2>2. parse \in Task /\ Fits(parse, Existing, Backed)
    BY <2>1, TaskTypes DEF Fits, ArchiveTask, ArchiveNames, ChainNames
  <2>3. queue' \in {queue, Append(queue, parse)}
    BY <1>4 DEF SendParse
  <2> HIDE DEF parse
  <2>4. AllFit(queue', Existing, Backed)
    BY <1>q, <2>2, <2>3, AppendFits
  <2> QED
    BY <1>4, <2>4, <1>k, StepSourced DEF SendParse
<1>5. CASE MarkProcessing(w) \/ MarkProcessed(w) \/ JobErrorHandler(w)
  <2>1. job[w].on \in Archive
    BY <1>5, <1>m DEF MarkProcessing, MarkProcessed, JobErrorHandler, ChainSteps, Steps, FailingSteps
  <2>2. Existing' = Existing
    BY <1>5, <2>1 DEF MarkProcessing, MarkProcessed, JobErrorHandler, InvalidFBArchive,
       UpdateStatus, Existing, Typed, TypeOK
  <2>3. UNCHANGED <<fileKey, s3, links, creating, acking, queue>>
    BY <1>5 DEF MarkProcessing, MarkProcessed, JobErrorHandler
  <2>4. Grows /\ HandlersFit'
    BY <2>2, <2>3 DEF Grows, Backed, HandlersFit, Sourced
  <2>5. \/ /\ job' = job
           /\ \E s \in {"parse_posts", "send_posts"} : pc' = [pc EXCEPT ![w] = s]
        \/ Finish(w)
    BY <1>5 DEF MarkProcessing, MarkProcessed, JobErrorHandler, Goto
  <2>6. AllFit(queue', Existing, Backed)
    BY <2>3, <1>q
  <2> QED
    BY <2>4, <2>5, <2>6, StepSourced
<1>6. CASE ParsePosts(w) \/ ParseReactions(w) \/ ReadPosts(w) \/ SavePosts(w)
           \/ ReadReactions(w) \/ SaveReactions(w) \/ JobFails(w)
  <2>1. UNCHANGED <<status, fileKey, s3, links, creating, acking, queue, job>>
    BY <1>6 DEF ParsePosts, ParseReactions, ReadPosts, SavePosts, ReadReactions,
       SaveReactions, JobFails, Goto
  <2>2. \E s : pc' = [pc EXCEPT ![w] = s] /\ s \notin {"mark_stored", "send_parse"}
    BY <1>6 DEF ParsePosts, ParseReactions, ReadPosts, SavePosts, ReadReactions,
       SaveReactions, JobFails, Goto
  <2> QED
    BY <2>1, <2>2, <1>q, <1>k, StepSourced
<1>7. CASE GenerateHash(w) \/ TimeMetadata(w) \/ Notify(w)
  <2>1. UNCHANGED <<status, fileKey, s3, links, creating, acking, queue>> /\ Finish(w)
    BY <1>7 DEF GenerateHash, TimeMetadata, Notify
  <2> QED
    BY <2>1, <1>q, <1>k, StepSourced
<1>8. CASE SendPosts(w) \/ SendReactions(w)
  <2>1. UNCHANGED <<status, fileKey, s3, links, creating, acking>> /\ Finish(w)
    BY <1>8 DEF SendPosts, SendReactions
  <2>2. /\ pc[w] \in ChainSteps
        /\ \E n \in {"analyze_posts", "analyze_reactions"} :
               queue' = Append(queue, ArchiveTask(n, job[w].on))
    BY <1>8 DEF SendPosts, SendReactions, ChainSteps, Steps, FailingSteps
  <2> QED
    BY <2>1, <2>2, <1>k, SuccessorFits, StepSourced
<1>9. CASE SendTail(w)
  <2> DEFINE time   == AccountTask("extract_time_metadata", Owner[job[w].on])
             notify == AccountTask("notification_finish_parsing", Owner[job[w].on])
  <2>1. Owner[job[w].on] \in Account
    BY <1>9, <1>m, OwnerAssumption DEF SendTail, ChainSteps, Steps, FailingSteps
  <2>2. time \in Task /\ notify \in Task
    BY <2>1, TaskTypes DEF AccountNames
  <2>3. Fits(time, Existing, Backed) /\ Fits(notify, Existing, Backed)
    BY DEF Fits, AccountTask, ArchiveNames, ChainNames, ObjectNames
  <2>4. queue' \in {queue, Append(queue, time), Append(queue, notify),
                    Append(Append(queue, time), notify)}
    BY <1>9 DEF SendTail
  <2> HIDE DEF time, notify
  <2>5. Append(queue, time) \in Seq(Task)
    BY <1>q, <2>2, QueueTypes
  <2>6. AllFit(queue', Existing, Backed)
    BY <1>q, <2>2, <2>3, <2>4, <2>5, AppendFits
  <2>7. /\ UNCHANGED <<status, fileKey, s3, links, creating, acking, job>>
        /\ \E s \in {"mark_processed"} : pc' = [pc EXCEPT ![w] = s]
    BY <1>9 DEF SendTail, Goto
  <2>8. Grows /\ HandlersFit'
    BY <2>7, <1>k
  <2> QED
    BY <2>6, <2>7, <2>8, StepSourced
<1> QED
  BY <1>1, <1>2, <1>3, <1>4, <1>5, <1>6, <1>7, <1>8, <1>9
  DEF WorkerStep, DownloadStep, ParseStep, PostStep, ReactionStep, TailStep

\* A crash takes tasks and handlers away, and nothing else.
LEMMA CrashSourced ==
    ASSUME Typed, Sourced, WorkerCrash \/ ApiCrash \/ UNCHANGED vars
    PROVE  Sourced'
<1> USE DEF rowVars, cloudVars, apiVars, workerVars, dataVars
<1>1. UNCHANGED <<status, fileKey, s3, links, queue>>
  BY DEF WorkerCrash, ApiCrash, vars
<1>2. Existing' = Existing /\ Backed' = Backed
  BY <1>1 DEF Existing, Backed
<1>3. \A w \in Worker : job'[w] \in {job[w], NoTask} /\ pc'[w] \in {pc[w], "idle"}
                      /\ (pc'[w] # "idle" => job'[w] = job[w])
  BY DEF WorkerCrash, ApiCrash, vars
<1>4. \A a \in Archive : /\ acking'[a] \in {acking[a], 0}
                       /\ creating'[a] \in {creating[a], "no"}
  BY DEF WorkerCrash, ApiCrash, vars
<1>5. TasksFit'
  BY <1>1, <1>2, <1>3, NoTaskFits DEF TasksFit, Sourced
<1>6. HandlersFit'
  BY <1>1, <1>2, <1>4 DEF HandlersFit, Sourced
<1>7. JobsFit'
  BY <1>1, <1>2, <1>3 DEF JobsFit, Sourced
<1> QED
  BY <1>5, <1>6, <1>7 DEF Sourced

LEMMA SourcedStep == Typed /\ Sourced /\ [Next]_vars => Sourced'
BY RequestSourced, WorkerSourced, CrashSourced DEF Next

LEMMA SourcedAlways == Spec => [](Typed /\ Sourced)
<1>1. Init => Typed /\ Sourced
  BY InitTyped, InitSourced
<1>2. Typed /\ Sourced /\ [Next]_vars => Typed' /\ Sourced'
  BY TypedStep, SourcedStep
<1> QED
  BY <1>1, <1>2, PTL DEF Spec

LEMMA SourcedFinds == Sourced => ObjectBeforeWork
<1> SUFFICES ASSUME Sourced, NEW a \in Archive,
                    TaskFor({"parse_archive", "generate_hash_content"}, a)
             PROVE  a \in s3 /\ fileKey[a]
  BY DEF ObjectBeforeWork
<1>1. a \in Backed
  BY DEF TaskFor, QueuedFor, RunningFor, Sourced, TasksFit, AllFit, Fits, ObjectNames
<1> QED
  BY <1>1 DEF Backed

(***************************************************************************)
(* A job that downloads archive.zip is only ever queued or run for an        *)
(* archive whose row names an object in the bucket: whatever is announced     *)
(* twice, forced by an administrator, refused, lost or killed.               *)
(***************************************************************************)
THEOREM ObjectFound == Spec => []ObjectBeforeWork
<1>1. Spec => [](Typed /\ Sourced)
  BY SourcedAlways
<1> QED
  BY <1>1, SourcedFinds, PTL

-----------------------------------------------------------------------------
(***************************************************************************)
(* The content hash.  A redelivered event blanks it while earlier hash jobs  *)
(* are queued or running; each event is followed by a hash task of its own.  *)
(***************************************************************************)
\* The failures that lose a hash task, or make one end without a hash.
NoHashLoss == Faults \cap {"plain", "enqueue", "crash"} = {}

HashDue(b) == acking[b] > 0 \/ TaskFor({"generate_hash_content"}, b)

(***************************************************************************)
(* A key comes with a hash, but for the event that blanks it.               *)
(***************************************************************************)
LEMMA HashBlanked ==
    ASSUME Typed, Sourced, [Next]_vars, NEW b \in Archive, fileKey'[b], ~contentHash'[b]
    PROVE  \/ fileKey[b] /\ ~contentHash[b]
           \/ AckUpdate(b)
<1> USE DEF rowVars, cloudVars, apiVars, workerVars, dataVars
<1>1. ASSUME NEW a \in Archive, UpdateKey(a), UpdateHash(a, TRUE), status[a] # "none"
      PROVE  fileKey[b] /\ ~contentHash[b]
  <2>1. CASE a = b
    BY <1>1, <2>1, Zenon DEF UpdateKey, UpdateHash, Exists, Typed, TypeOK
  <2>2. CASE a # b
    BY <1>1, <2>2, Zenon DEF UpdateKey, UpdateHash, Exists, Typed, TypeOK
  <2> QED
    BY <2>1, <2>2
<1>2. ASSUME NEW a \in Archive, AckUpdate(a), a # b PROVE fileKey[b] /\ ~contentHash[b]
  BY <1>2, Zenon DEF AckUpdate, UpdateKey, UpdateHash, Typed, TypeOK
<1>3. ASSUME NEW w \in Worker, MarkStored(w) PROVE fileKey[b] /\ ~contentHash[b]
  <2>1. job[w].on \in Archive /\ status[job[w].on] # "none"
    BY <1>3, StepTask
    DEF MarkStored, Typed, ChainSteps, Steps, FailingSteps, Sourced, TasksFit, Fits, Existing, ArchiveNames
  <2> QED
    BY <1>3, <2>1, <1>1 DEF MarkStored
<1>4. ASSUME NEW w \in Worker, GenerateHash(w) PROVE fileKey[b] /\ ~contentHash[b]
  <2>1. job[w].on \in Archive
    BY <1>4, StepTask DEF GenerateHash, Typed
  <2>2. CASE UNCHANGED contentHash
    BY <1>4, <2>2 DEF GenerateHash
  <2>3. CASE UpdateHash(job[w].on, TRUE)
    <3>1. contentHash[b] => contentHash'[b]
      BY <2>1, <2>3, Zenon DEF UpdateHash, Typed, TypeOK
    <3> QED
      BY <3>1, <1>4 DEF GenerateHash
  <2> QED
    BY <1>4, <2>2, <2>3 DEF GenerateHash
<1>5. CASE UNCHANGED <<fileKey, contentHash>>
  BY <1>5
<1>6. ASSUME NEW a \in Archive, ClientStep(a) \/ AdminStep(a) \/ HandlerStep(a), ~AckUpdate(a)
      PROVE  UNCHANGED <<fileKey, contentHash>>
  BY <1>6 DEF ClientStep, AdminStep, HandlerStep, AddFBArchive, ClientPut, AdminSubmit,
         AdminGenerateHash, AdminForceParse, AdminRequest, MakeLink, UrlSubmit, UrlEnqueue, AckEnqueue
<1>7. ASSUME NEW w \in Worker, WorkerStep(w) \/ JobFails(w), ~MarkStored(w), ~GenerateHash(w)
      PROVE  UNCHANGED <<fileKey, contentHash>>
  BY <1>7 DEF WorkerStep, DownloadStep, ParseStep, PostStep, ReactionStep, TailStep, Start, Fetch,
        SendParse, SendPosts, SendReactions, SendTail,
        MarkProcessing, ParsePosts, ParseReactions, ReadPosts, SavePosts, ReadReactions,
        SaveReactions, MarkProcessed, TimeMetadata, Notify, JobErrorHandler, JobFails
<1>8. CASE WorkerCrash \/ ApiCrash \/ UNCHANGED vars
  BY <1>8, <1>5 DEF WorkerCrash, ApiCrash, vars
<1> QED
  BY <1>2, <1>3, <1>4, <1>5, <1>6, <1>7, <1>8 DEF Next

(***************************************************************************)
(* A hash that is due stays due until the hash job writes it.               *)
(***************************************************************************)
LEMMA HashStaysDue ==
    ASSUME NoHashLoss, Typed, Sourced, [Next]_vars, NEW b \in Archive, HashDue(b),
           fileKey'[b], ~contentHash'[b]
    PROVE  HashDue(b)'
<1> USE DEF rowVars, cloudVars, apiVars, workerVars, dataVars
<1>1. CASE TaskFor({"generate_hash_content"}, b)
  <2>1. CASE TaskFor({"generate_hash_content"}, b)'
    BY <2>1 DEF HashDue
  <2>2. ASSUME NEW w \in Worker, Finish(w), EndStep(w),
               job[w].name = "generate_hash_content", job[w].on = b
        PROVE  FALSE
    <3>1. pc[w] = "hash"
      BY <2>2 DEF EndStep, Fetch, SendParse, SendPosts, SendReactions, MarkProcessed, TailStep,
                  GenerateHash, TimeMetadata, Notify, JobErrorHandler, Typed, JobAtStep, StepsOf
    <3>2. GenerateHash(w)
      BY <2>2, <3>1 DEF EndStep, Fetch, SendParse, SendPosts, SendReactions, MarkProcessed, TailStep,
                  GenerateHash, TimeMetadata, Notify, JobErrorHandler
    <3>3. status[b] # "none"
      BY <2>2 DEF Sourced, TasksFit, Fits, Existing, ArchiveNames
    <3>4. UpdateHash(b, TRUE)
      BY <2>2, <3>2 DEF GenerateHash, NoHashLoss
    <3>5. contentHash'[b]
      BY <3>3, <3>4, Zenon DEF UpdateHash, Exists, Typed, TypeOK
    <3> QED
      BY <3>5
  <2> QED
    BY <1>1, <2>1, <2>2, TaskFate DEF NoHashLoss
<1>2. CASE acking[b] > 0
  <2>1. CASE AckEnqueue(b)
    <3> DEFINE h == ArchiveTask("generate_hash_content", b)
               t == ArchiveTask("parse_archive", b)
    <3>1. h \in Task /\ t \in Task /\ h.name = "generate_hash_content" /\ h.on = b
      BY TaskTypes DEF ArchiveTask, ArchiveNames, ChainNames
    <3>2. queue' = Append(Append(queue, h), t)
      BY <2>1 DEF AckEnqueue, NoHashLoss
    <3>3. \E i \in DOMAIN queue' : queue'[i] = h
      BY <3>1, <3>2, AppendTwiceGrows
    <3> HIDE DEF h, t
    <3>4. TaskFor({"generate_hash_content"}, b)'
      BY <3>1, <3>3, TaskQueued
    <3> QED
      BY <3>4 DEF HashDue
  <2>2. CASE ~AckEnqueue(b)
    <3>1. ASSUME NEW a \in Archive, ClientStep(a) \/ AdminStep(a) \/ HandlerStep(a)
          PROVE  acking'[b] > 0
      <4>1. CASE AckUpdate(a)
        BY <1>2, <4>1 DEF AckUpdate, Typed, TypeOK
      <4>2. CASE AckEnqueue(a)
        BY <1>2, <2>2, <4>2 DEF AckEnqueue, Typed, TypeOK
      <4>3. CASE UNCHANGED acking
        BY <1>2, <4>3
      <4> QED
        BY <3>1, <4>1, <4>2, <4>3 DEF ClientStep, AdminStep, HandlerStep, AddFBArchive, ClientPut,
           AdminSubmit, AdminGenerateHash, AdminForceParse, AdminRequest, MakeLink, UrlSubmit, UrlEnqueue
    <3>2. ASSUME NEW w \in Worker, WorkerStep(w) \/ JobFails(w)
          PROVE  UNCHANGED acking
      BY <3>2 DEF WorkerStep, DownloadStep, ParseStep, PostStep, ReactionStep, TailStep, Start, Fetch,
        MarkStored, SendParse, SendPosts, SendReactions, SendTail,
        MarkProcessing, ParsePosts, ParseReactions, ReadPosts, SavePosts, ReadReactions,
        SaveReactions, MarkProcessed, GenerateHash, TimeMetadata, Notify, JobErrorHandler, JobFails
    <3>3. acking'[b] > 0
      BY <1>2, <3>1, <3>2 DEF Next, WorkerCrash, ApiCrash, NoHashLoss, vars
    <3> QED
      BY <3>3 DEF HashDue
  <2> QED
    BY <2>1, <2>2
<1> QED
  BY <1>1, <1>2 DEF HashDue

(***************************************************************************)
(* A row that names a file has its hash, or a hash job on its way: under any *)
(* number of redelivered events and requests of the administrator, failing   *)
(* downloads and failing jobs of the chain.                                 *)
(***************************************************************************)
THEOREM HashFollows == NoHashLoss => (Spec => []HashPending)
<1> SUFFICES ASSUME NoHashLoss PROVE Spec => []HashPending
  OBVIOUS
<1>1. Init => HashPending
  BY DEF Init, HashPending
<1>2. Spec => [](Typed /\ Sourced)
  BY SourcedAlways
<1>3. ASSUME Typed, Sourced, HashPending, [Next]_vars PROVE HashPending'
  <2> SUFFICES ASSUME NEW b \in Archive, fileKey'[b], ~contentHash'[b] PROVE HashDue(b)'
    BY DEF HashPending, HashDue
  <2>1. CASE AckUpdate(b)
    BY <1>3, <2>1 DEF AckUpdate, HashDue, Typed, TypeOK
  <2>2. CASE fileKey[b] /\ ~contentHash[b]
    BY <1>3, <2>2, HashStaysDue DEF HashPending, HashDue
  <2> QED
    BY <1>3, <2>1, <2>2, HashBlanked
<1> QED
  BY <1>1, <1>2, <1>3, PTL DEF Spec

-----------------------------------------------------------------------------
(***************************************************************************)
(* A download that is over and left no object.  What could hide it is a      *)
(* later job that takes the archive out of "invalid" again: none is sent for *)
(* an archive without an object, as long as no analysis is forced.           *)
(***************************************************************************)
AnalysisNames == {"analyze_posts", "analyze_reactions"}

\* An archive that is analysed was stored, and only uploadArchive makes links.
AnalysedStored ==
    \A a \in Archive :
        /\ TaskFor(AnalysisNames, a) => a \in s3
        /\ creating[a] = "link" => FlowOf[a] = "direct"

(***************************************************************************)
(* Where the tasks of an analysis come from: another one, or the parser.     *)
(***************************************************************************)
LEMMA AnalysisOrigin ==
    ASSUME Typed, [Next]_vars, "force" \notin AdminOps, NEW b \in Archive, TaskFor(AnalysisNames, b)'
    PROVE  \/ TaskFor(AnalysisNames, b)
           \/ \E w \in Worker : pc[w] = "send_posts" /\ job[w].on = b
<1> DEFINE Goal == \/ TaskFor(AnalysisNames, b)
                   \/ \E w \in Worker : pc[w] = "send_posts" /\ job[w].on = b
<1>1. ASSUME NEW t, Was(t), t.name \in AnalysisNames, t.on = b PROVE Goal
  BY <1>1 DEF Was, TaskFor, QueuedFor
<1>2. ASSUME NEW t, Sent(t), t.name \in AnalysisNames, t.on = b PROVE Goal
  <2>1. PICK w \in Worker : \/ SendPosts(w) /\ t = ArchiveTask("analyze_posts", job[w].on)
                            \/ SendReactions(w) /\ t = ArchiveTask("analyze_reactions", job[w].on)
    <3>1. \A a \in Archive : ~AdminForceParse(a)
      BY DEF AdminForceParse, AdminRequest
    <3>2. \A n, x : ArchiveTask(n, x).name = n /\ AccountTask(n, x).name = n
      BY DEF ArchiveTask, AccountTask
    <3> QED
      BY <1>2, <3>1, <3>2 DEF Sent, AnalysisNames
  <2>2. job[w].on = b
    BY <1>2, <2>1 DEF ArchiveTask
  <2>3. SendReactions(w) => job[w].name \in AnalysisNames
    BY DEF SendReactions, Typed, JobAtStep, StepsOf, AnalysisNames
  <2> QED
    BY <2>1, <2>2, <2>3 DEF SendPosts, TaskFor, RunningFor
<1>3. CASE QueuedFor(AnalysisNames, b)' # {}
  BY <1>1, <1>2, <1>3, TaskOrigin DEF QueuedFor
<1>4. CASE RunningFor(AnalysisNames, b)' # {}
  <2>1. PICK w \in Worker : job'[w].name \in AnalysisNames /\ job'[w].on = b
    BY <1>4 DEF RunningFor
  <2>2. job'[w] # NoTask
    BY <2>1 DEF AnalysisNames, NoTask
  <2> QED
    BY <2>1, <2>2, <1>1, TaskOrigin DEF TaskFor, RunningFor
<1> QED
  BY <1>3, <1>4 DEF TaskFor

(***************************************************************************)
(* No step takes an object out of the bucket.                               *)
(***************************************************************************)
LEMMA NothingRemoved == [Next]_vars => s3 \subseteq s3'
BY DEF Next, ClientStep, AdminStep, HandlerStep, AddFBArchive, ClientPut, AckUpdate, AdminSubmit,
       AdminGenerateHash, AdminForceParse, AdminRequest, MakeLink, UrlSubmit, UrlEnqueue, AckEnqueue,
       WorkerStep, DownloadStep, ParseStep, PostStep, ReactionStep, TailStep, Start, Fetch, MarkStored,
       SendParse, SendPosts, SendReactions, SendTail,
       MarkProcessing, ParsePosts, ParseReactions, ReadPosts, SavePosts, ReadReactions,
       SaveReactions, MarkProcessed, GenerateHash, TimeMetadata, Notify, JobErrorHandler, JobFails,
       WorkerCrash, ApiCrash, vars, rowVars, cloudVars, apiVars, workerVars, dataVars

LEMMA AnalysedStoredStep ==
    "force" \notin AdminOps /\ Typed /\ Sourced /\ AnalysedStored /\ [Next]_vars => AnalysedStored'
<1> SUFFICES ASSUME "force" \notin AdminOps, Typed, Sourced, AnalysedStored, [Next]_vars,
                    NEW b \in Archive
             PROVE  /\ TaskFor(AnalysisNames, b)' => b \in s3'
                    /\ creating'[b] = "link" => FlowOf[b] = "direct"
  BY DEF AnalysedStored
<1> USE DEF rowVars, cloudVars, apiVars, workerVars, dataVars
<1>1. s3 \subseteq s3'
  BY NothingRemoved
<1>2. ASSUME NEW w \in Worker, pc[w] = "send_posts", job[w].on = b PROVE b \in s3
  <2>1. job[w].name = "parse_archive"
    BY <1>2 DEF Typed, JobAtStep, StepsOf
  <2> QED
    BY <1>2, <2>1 DEF Sourced, TasksFit, Fits, Backed, ObjectNames
<1>3. TaskFor(AnalysisNames, b)' => b \in s3'
  BY <1>1, <1>2, AnalysisOrigin DEF AnalysedStored
<1>4. creating'[b] = "link" => FlowOf[b] = "direct"
  <2>1. creating'[b] = "link" => creating[b] = "link" \/ AddFBArchive(b)
    <3>1. ASSUME NEW a \in Archive, ClientStep(a) \/ AdminStep(a) \/ HandlerStep(a)
          PROVE  \/ creating' = creating
                 \/ creating' = [creating EXCEPT ![a] = "no"]
                 \/ creating' = [creating EXCEPT ![a] = "enqueue"]
                 \/ creating' = [creating EXCEPT ![a] = IF FlowOf[a] = "direct" THEN "link" ELSE "submit"]
                    /\ AddFBArchive(a)
      BY <3>1 DEF ClientStep, AdminStep, HandlerStep, AddFBArchive, ClientPut, AckUpdate,
         AdminSubmit, AdminGenerateHash, AdminForceParse, AdminRequest, MakeLink, UrlSubmit,
         UrlEnqueue, AckEnqueue
    <3>2. ASSUME NEW a \in Archive, ClientStep(a) \/ AdminStep(a) \/ HandlerStep(a)
          PROVE  creating'[b] = "link" => creating[b] = "link" \/ AddFBArchive(b)
      BY <3>1, <3>2 DEF Typed, TypeOK
    <3>3. ASSUME NEW w \in Worker, WorkerStep(w) \/ JobFails(w)
          PROVE  UNCHANGED creating
      BY <3>3 DEF WorkerStep, DownloadStep, ParseStep, PostStep, ReactionStep, TailStep, Start, Fetch,
        MarkStored, SendParse, SendPosts, SendReactions, SendTail,
        MarkProcessing, ParsePosts, ParseReactions, ReadPosts, SavePosts, ReadReactions,
        SaveReactions, MarkProcessed, GenerateHash, TimeMetadata, Notify, JobErrorHandler, JobFails
    <3> QED
      BY <3>2, <3>3 DEF Next, WorkerCrash, ApiCrash, vars
  <2>2. AddFBArchive(b) /\ creating'[b] = "link" => FlowOf[b] = "direct"
    BY DEF AddFBArchive, Typed, TypeOK
  <2> QED
    BY <2>1, <2>2 DEF AnalysedStored
<1> QED
  BY <1>3, <1>4

(***************************************************************************)
(* An archive that is invalid and has no object is not touched any more.     *)
(***************************************************************************)
LEMMA InvalidStays ==
    ASSUME Typed, Sourced, AnalysedStored, [Next]_vars, NEW b \in Archive,
           status[b] = "invalid", b \notin s3, creating'[b] = "no"
    PROVE  status'[b] = "invalid"
<1> USE DEF rowVars, cloudVars, apiVars, workerVars, dataVars
<1>1. ASSUME NEW a \in Archive, ClientStep(a) \/ AdminStep(a) \/ HandlerStep(a)
      PROVE  status'[b] = "invalid"
  <2>1. CASE AddFBArchive(a)
    BY <2>1 DEF AddFBArchive, Typed, TypeOK
  <2>2. CASE AckUpdate(a)
    BY <2>2 DEF AckUpdate, UpdateStatus, Typed, TypeOK
  <2>3. CASE MakeLink(a)
    BY <2>3 DEF MakeLink, InvalidFBArchive, UpdateStatus, Typed, TypeOK
  <2>4. CASE UrlSubmit(a)
    BY <2>4 DEF UrlSubmit, UpdateStatus, Typed, TypeOK
  <2>5. CASE UNCHANGED status
    BY <2>5
  <2> QED
    BY <1>1, <2>1, <2>2, <2>3, <2>4, <2>5 DEF ClientStep, HandlerStep, AdminStep, ClientPut,
       AdminSubmit, AdminGenerateHash, AdminForceParse, AdminRequest, UrlEnqueue, AckEnqueue
<1>2. ASSUME NEW w \in Worker, WorkerStep(w) \/ JobFails(w)
      PROVE  status'[b] = "invalid"
  <2>s. pc[w] \in {"mark_stored", "mark_processing", "mark_processed", "error"} =>
            job[w].on \in Archive
    BY StepTask DEF Typed, ChainSteps, Steps, FailingSteps
  <2>1. CASE MarkStored(w)
    <3>1. job[w].on # b
      BY <2>1 DEF MarkStored, Sourced, JobsFit
    <3> QED
      BY <2>1, <2>s, <3>1 DEF MarkStored, UpdateStatus, Typed, TypeOK
  <2>2. CASE MarkProcessing(w)
    <3>1. job[w].name = "parse_archive"
      BY <2>2 DEF MarkProcessing, Typed, JobAtStep, StepsOf
    <3>2. job[w].on # b
      BY <3>1 DEF Sourced, TasksFit, Fits, Backed, ObjectNames
    <3> QED
      BY <2>2, <2>s, <3>2 DEF MarkProcessing, UpdateStatus, Typed, TypeOK
  <2>3. CASE MarkProcessed(w)
    <3>1. job[w].name = "analyze_reactions"
      BY <2>3 DEF MarkProcessed, Typed, JobAtStep, StepsOf
    <3>2. job[w].on # b
      BY <3>1 DEF AnalysedStored, TaskFor, RunningFor, AnalysisNames
    <3> QED
      BY <2>3, <2>s, <3>2 DEF MarkProcessed, UpdateStatus, Typed, TypeOK
  <2>4. CASE JobErrorHandler(w)
    BY <2>4, <2>s DEF JobErrorHandler, InvalidFBArchive, UpdateStatus, Typed, TypeOK
  <2>5. CASE UNCHANGED status
    BY <2>5
  <2> QED
    BY <1>2, <2>1, <2>2, <2>3, <2>4, <2>5
    DEF WorkerStep, DownloadStep, ParseStep, PostStep, ReactionStep, TailStep, Start, Fetch,
        SendParse, ParsePosts, ParseReactions, SendPosts, ReadPosts, SavePosts, SendReactions,
        ReadReactions, SaveReactions, SendTail, GenerateHash, TimeMetadata, Notify, JobFails
<1>3. CASE WorkerCrash \/ ApiCrash \/ UNCHANGED vars
  BY <1>3 DEF WorkerCrash, ApiCrash, vars
<1> QED
  BY <1>1, <1>2, <1>3 DEF Next

(***************************************************************************)
(* A download job ends with the object stored or the archive invalid.        *)
(***************************************************************************)
LEMMA DownloadEnds ==
    ASSUME NoLoss, Typed, Sourced, [Next]_vars, NEW b \in Archive,
           TaskFor({"download_archive"}, b), ~TaskFor({"download_archive"}, b)', b \notin s3'
    PROVE  status'[b] = "invalid"
<1> USE DEF rowVars, cloudVars, apiVars, workerVars, dataVars
<1>1. PICK w \in Worker : Finish(w) /\ EndStep(w) /\ job[w].name = "download_archive" /\ job[w].on = b
  BY TaskFate DEF NoLoss
<1>2. pc[w] \in {"fetch", "mark_stored", "send_parse", "error"}
  BY <1>1 DEF EndStep, Fetch, SendParse, SendPosts, SendReactions, MarkProcessed, TailStep,
              GenerateHash, TimeMetadata, Notify, JobErrorHandler, Typed, JobAtStep, StepsOf
<1>3. CASE Fetch(w)
  BY <1>1, <1>3 DEF Fetch, NoLoss
<1>4. CASE SendParse(w)
  BY <1>1, <1>4 DEF SendParse, Sourced, JobsFit, Backed
<1>5. CASE JobErrorHandler(w)
  <2>1. status[b] # "none"
    BY <1>1 DEF Sourced, TasksFit, Fits, Existing, ArchiveNames, ChainNames
  <2> QED
    BY <1>1, <1>5, <2>1 DEF JobErrorHandler, InvalidFBArchive, UpdateStatus, NoLoss, Typed, TypeOK
<1> QED
  BY <1>1, <1>2, <1>3, <1>4, <1>5 DEF EndStep, SendPosts, SendReactions, MarkProcessed, TailStep,
              GenerateHash, TimeMetadata, Notify

-----------------------------------------------------------------------------

(***************************************************************************)
(* Every archive has one responsible at a time: the handler that creates it, *)
(* the handler that acknowledges its upload, a task in the queue or a worker. *)
(* The proof keeps, beside that, the status the row must have for each of    *)
(* them; the error of an invalid archive and the lifecycle follow from it.   *)
(***************************************************************************)

InChain(t, b) == t.name \in ChainNames /\ t.on = b

\* The status of the archive a task of that name waits for, and the ones a
\* worker at that step of a chain job finds.
StatusBefore(name) ==
    IF name \in {"download_archive", "parse_archive"} THEN "submitted" ELSE "processing"
StatusesAt(step) ==
    CASE step \in {"fetch", "mark_stored", "send_parse", "mark_processing"} -> {"submitted"}
      [] step = "error" -> Unfinished
      [] OTHER -> {"processing"}

\* A queue q holds no task, or one task, of the chain of b, which fits status s.
Clear(q, b) == \A i \in DOMAIN q : ~InChain(q[i], b)
Once(q, b, s) ==
    /\ \A i, j \in DOMAIN q : InChain(q[i], b) /\ InChain(q[j], b) => i = j
    /\ \A i \in DOMAIN q : InChain(q[i], b) => StatusBefore(q[i].name) = s

\* No task of the chain of b is queued or running.
Free(b) == Clear(queue, b) /\ \A w \in Worker : ~InChain(job[w], b)

TasksAlone(b) ==
    /\ Once(queue, b, status[b])
    /\ \A v, w \in Worker : InChain(job[v], b) /\ InChain(job[w], b) => v = w
    /\ \A w \in Worker : InChain(job[w], b) =>
          Clear(queue, b) /\ status[b] \in StatusesAt(pc[w])

HandlersAlone(b) ==
    /\ acking[b] > 0 =>
          acking[b] = 1 /\ creating[b] = "no" /\ status[b] = "submitted" /\ Free(b)
    /\ creating[b] # "no" => Free(b)
    /\ creating[b] \in {"link", "submit"} => status[b] = "created"
    /\ creating[b] = "enqueue" => status[b] = "submitted"

\* An object that is there before the archive is submitted has been put by the
\* client, with the link that ends the handler.
ObjectAlone(b) ==
    /\ b \in links => creating[b] = "no"
    /\ b \in s3 /\ ~Begun(b) => b \in links

RowAlone(b) ==
    /\ status[b] = "none" =>
          creating[b] = "no" /\ acking[b] = 0 /\ b \notin links /\ Free(b)
    /\ procError[b] <=> status[b] = "invalid"

Alone(b) == TasksAlone(b) /\ HandlersAlone(b) /\ ObjectAlone(b) /\ RowAlone(b)
AllAlone == \A b \in Archive \ restarted : Alone(b)

-----------------------------------------------------------------------------
(***************************************************************************)
(* What appending a task to a queue, and taking its head away, does to the   *)
(* tasks of one archive in it.                                              *)
(***************************************************************************)
LEMMA AppendOther ==
    \A q \in Seq(Task), t \in Task : \A b, s :
        ~InChain(t, b) =>
            /\ Clear(q, b) => Clear(Append(q, t), b)
            /\ Once(q, b, s) => Once(Append(q, t), b, s)
BY QueuePlaces DEF Clear, Once

LEMMA AppendFirst ==
    \A q \in Seq(Task), t \in Task : \A b, s :
        Clear(q, b) /\ StatusBefore(t.name) = s => Once(Append(q, t), b, s)
<1> SUFFICES ASSUME NEW q \in Seq(Task), NEW t \in Task, NEW b, NEW s,
                    Clear(q, b), StatusBefore(t.name) = s
             PROVE  Once(Append(q, t), b, s)
  OBVIOUS
<1>1. \A i \in DOMAIN Append(q, t) :
          \/ i \in DOMAIN q /\ Append(q, t)[i] = q[i]
          \/ i = Len(q) + 1 /\ Append(q, t)[i] = t
  BY AppendProperties
<1>2. \A i \in DOMAIN Append(q, t) :
          InChain(Append(q, t)[i], b) => i = Len(q) + 1 /\ Append(q, t)[i] = t
  BY <1>1 DEF Clear
<1> QED
  BY <1>2 DEF Once

LEMMA TailOf ==
    \A q \in Seq(Task) : \A b, s :
        q # <<>> =>
            /\ Clear(q, b) => ~InChain(Head(q), b) /\ Clear(Tail(q), b)
            /\ Once(q, b, s) =>
                  /\ Once(Tail(q), b, s)
                  /\ InChain(Head(q), b) =>
                        Clear(Tail(q), b) /\ StatusBefore(Head(q).name) = s
<1> SUFFICES ASSUME NEW q \in Seq(Task), NEW b, NEW s, q # <<>>
             PROVE  /\ Clear(q, b) => ~InChain(Head(q), b) /\ Clear(Tail(q), b)
                    /\ Once(q, b, s) =>
                          /\ Once(Tail(q), b, s)
                          /\ InChain(Head(q), b) =>
                                Clear(Tail(q), b) /\ StatusBefore(Head(q).name) = s
  OBVIOUS
<1>1. Head(q) = q[1] /\ 1 \in DOMAIN q
  OBVIOUS
<1>2. \A i \in DOMAIN Tail(q) :
          i \in Nat /\ i + 1 # 1 /\ i + 1 \in DOMAIN q /\ Tail(q)[i] = q[i + 1]
  OBVIOUS
<1>3. Clear(q, b) => ~InChain(Head(q), b) /\ Clear(Tail(q), b)
  BY <1>1, <1>2 DEF Clear
<1>4. ASSUME Once(q, b, s) PROVE Once(Tail(q), b, s)
  <2>1. ASSUME NEW i \in DOMAIN Tail(q), NEW j \in DOMAIN Tail(q),
               InChain(Tail(q)[i], b), InChain(Tail(q)[j], b)
        PROVE  i = j
    <3>1. i + 1 = j + 1
      BY <1>2, <1>4, <2>1 DEF Once
    <3> QED
      BY <1>2, <3>1
  <2>2. \A i \in DOMAIN Tail(q) : InChain(Tail(q)[i], b) => StatusBefore(Tail(q)[i].name) = s
    BY <1>2, <1>4 DEF Once
  <2> QED
    BY <2>1, <2>2 DEF Once
<1>5. ASSUME Once(q, b, s), InChain(Head(q), b)
      PROVE  Clear(Tail(q), b) /\ StatusBefore(Head(q).name) = s
  BY <1>1, <1>2, <1>5 DEF Once, Clear
<1> QED
  BY <1>3, <1>4, <1>5

(***************************************************************************)
(* A clear queue holds one task at most, of any status.                     *)
(***************************************************************************)
LEMMA ClearOnce == \A q, b, s : Clear(q, b) => Once(q, b, s)
BY DEF Clear, Once

(***************************************************************************)
(* Only an archive that has been submitted has a task of its chain.         *)
(***************************************************************************)
LEMMA BusyBegun ==
    ASSUME Typed, NEW b \in Archive, Alone(b), ~Free(b)
    PROVE  Begun(b)
<1>1. CASE ~Clear(queue, b)
  <2>1. PICK i \in DOMAIN queue : InChain(queue[i], b)
    BY <1>1 DEF Clear
  <2>2. status[b] = StatusBefore(queue[i].name)
    BY <2>1 DEF Alone, TasksAlone, Once
  <2> QED
    BY <2>2 DEF StatusBefore, Begun, Unfinished
<1>2. CASE \E w \in Worker : InChain(job[w], b)
  BY <1>2 DEF Alone, TasksAlone, StatusesAt, Begun, Unfinished
<1> QED
  BY <1>1, <1>2 DEF Free

(***************************************************************************)
(* An archive nobody is told to work on, and whose row does not change, keeps *)
(* its only responsible, or loses it.                                       *)
(***************************************************************************)
LEMMA Undisturbed ==
    ASSUME Typed, NEW b \in Archive, Alone(b),
           UNCHANGED <<status[b], procError[b]>>,
           creating'[b] \in {creating[b], "no"}, acking'[b] \in {acking[b], 0},
           b \in links' <=> b \in links,
           b \in s3' => b \in s3 \/ b \in links \/ ~Free(b),
           \A s : Once(queue, b, s) => Once(queue', b, s),
           Clear(queue, b) => Clear(queue', b),
           \A w \in Worker : InChain(job'[w], b) =>
               InChain(job[w], b) /\ status[b] \in StatusesAt(pc'[w])
    PROVE  Alone(b)'
<1>1. Free(b) => Free(b)'
  BY DEF Free
<1>2. TasksAlone(b)'
  BY DEF TasksAlone, Alone
<1>3. HandlersAlone(b)'
  BY <1>1 DEF HandlersAlone, Alone
<1>4. ObjectAlone(b)'
  <2>1. ~Free(b) => Begun(b)
    BY BusyBegun
  <2> QED
    BY <2>1 DEF ObjectAlone, Alone, Begun
<1>5. RowAlone(b)'
  BY <1>1 DEF RowAlone, Alone, Typed, TypeOK
<1> QED
  BY <1>2, <1>3, <1>4, <1>5 DEF Alone

\* The queue of the next state holds no task of the chain of b that this one lacks.
Passes(b) ==
    /\ \A s : Once(queue, b, s) => Once(queue', b, s)
    /\ Clear(queue, b) => Clear(queue', b)

LEMMA QueuePasses ==
    ASSUME Typed, NEW b
    PROVE  /\ UNCHANGED queue => Passes(b)
           /\ \A t \in Task : queue' = Append(queue, t) /\ ~InChain(t, b) => Passes(b)
BY AppendOther DEF Passes, Typed, TypeOK

\* Tasks outside the chain concern no archive's chain, and a task of one
\* archive not that of another.
LEMMA OutsideChain ==
    /\ \A b, n, x : n \notin ChainNames => ~InChain(ArchiveTask(n, x), b)
    /\ \A b, n, x : n \in AccountNames => ~InChain(AccountTask(n, x), b)
    /\ \A b, n, x : x # b => ~InChain(ArchiveTask(n, x), b)
    /\ \A b : ~InChain(NoTask, b)
BY DEF InChain, ArchiveTask, AccountTask, AccountNames, ChainNames, NoTask

(***************************************************************************)
(* A handler of archive a leaves every other archive alone, whatever tasks   *)
(* about a it queues.                                                       *)
(***************************************************************************)
LEMMA OthersAlone ==
    ASSUME Typed, AllAlone, NEW a \in Archive, NEW b \in Archive, b # a,
           UNCHANGED <<job, pc>>, Passes(b),
           b \notin restarted,
           UNCHANGED <<status[b], procError[b], creating[b], acking[b]>>,
           links' \in {links, links \cup {a}}, s3' \in {s3, s3 \cup {a}}
    PROVE  Alone(b)'
<1>1. Alone(b)
  BY DEF AllAlone
<1>2. \A w \in Worker : InChain(job'[w], b) =>
          InChain(job[w], b) /\ status[b] \in StatusesAt(pc'[w])
  BY <1>1 DEF Alone, TasksAlone
<1> QED
  BY <1>1, <1>2, Undisturbed DEF Passes

(***************************************************************************)
(* The steps of clients, administrators and handlers.                       *)
(***************************************************************************)
LEMMA RequestAlone ==
    ASSUME Typed, AllAlone, NEW a \in Archive,
           ClientStep(a) \/ AdminStep(a) \/ HandlerStep(a)
    PROVE  AllAlone'
<1> USE DEF rowVars, cloudVars, apiVars, workerVars, dataVars
<1> SUFFICES ASSUME NEW b \in Archive, b \notin restarted' PROVE Alone(b)'
  BY DEF AllAlone
<1>r. b \notin restarted
  BY DEF ClientStep, AdminStep, HandlerStep, AddFBArchive, ClientPut, AckUpdate, AdminSubmit,
         AdminGenerateHash, AdminForceParse, AdminRequest, MakeLink, UrlSubmit, UrlEnqueue,
         AckEnqueue, Restart
<1>a. Alone(b) /\ queue \in Seq(Task)
  BY <1>r DEF AllAlone, Typed, TypeOK
<1>t. \A n \in ArchiveNames : ArchiveTask(n, a) \in Task
  BY TaskTypes
<1>n. /\ {"upload_archive", "generate_hash_content"} \cap ChainNames = {}
      /\ {"upload_archive", "generate_hash_content", "download_archive", "parse_archive"}
             \subseteq ArchiveNames
      /\ {"download_archive", "parse_archive"} \subseteq ChainNames
  BY DEF ArchiveNames, ChainNames
<1>w. UNCHANGED <<job, pc>>
  BY DEF ClientStep, AdminStep, HandlerStep, AddFBArchive, ClientPut, AckUpdate, AdminSubmit,
         AdminGenerateHash, AdminForceParse, AdminRequest, MakeLink, UrlSubmit, UrlEnqueue, AckEnqueue
<1>1. CASE AddFBArchive(a)
  <2>1. CASE b # a
    BY <1>1, <1>r, <1>w, <2>1, QueuePasses, OthersAlone DEF AddFBArchive, Typed, TypeOK
  <2>2. CASE b = a
    <3>1. /\ UNCHANGED <<queue, links, s3, acking, procError>>
          /\ status[a] = "none" /\ status'[a] = "created"
          /\ creating'[a] = IF FlowOf[a] = "direct" THEN "link" ELSE "submit"
          /\ Free(a) /\ acking[a] = 0 /\ a \notin links
      BY <1>1, <1>a, <2>2 DEF AddFBArchive, Alone, RowAlone, Typed, TypeOK
    <3>2. Free(a)' /\ TasksAlone(a)'
      BY <3>1, <1>w, ClearOnce DEF Free, TasksAlone
    <3>3. HandlersAlone(a)'
      BY <3>1, <3>2, FlowAssumption DEF HandlersAlone
    <3>4. ObjectAlone(a)' /\ RowAlone(a)'
      BY <3>1, <3>2, <1>a, <2>2 DEF ObjectAlone, RowAlone, Alone, Begun, Unfinished, Finished
    <3> QED
      BY <2>2, <3>2, <3>3, <3>4 DEF Alone
  <2> QED
    BY <2>1, <2>2
<1>2. CASE ClientPut(a)
  <2>1. CASE b # a
    BY <1>2, <1>r, <1>w, <2>1, QueuePasses, OthersAlone DEF ClientPut
  <2>2. CASE b = a
    BY <1>2, <1>a, <1>w, <2>2, QueuePasses, Undisturbed DEF ClientPut, Passes, Alone, TasksAlone
  <2> QED
    BY <2>1, <2>2
<1>3. CASE AckUpdate(a)
  <2>1. CASE b # a
    <3>1. UNCHANGED <<status[b], acking[b]>>
      BY <1>3, <2>1 DEF AckUpdate, UpdateStatus, Typed, TypeOK
    <3> QED
      BY <1>3, <1>r, <1>w, <2>1, <3>1, QueuePasses, OthersAlone DEF AckUpdate
  <2>2. CASE b = a
    <3>1. ~Begun(a) /\ a \in s3 /\ Alone(a)
      BY <1>3, <1>a, <2>2 DEF AckUpdate, Restart
    <3>2. a \in links /\ creating[a] = "no" /\ status[a] = "created" /\ Free(a)
      BY <3>1, BusyBegun
      DEF Alone, ObjectAlone, RowAlone, Begun, Unfinished, Finished, Statuses, Typed, TypeOK
    <3>3. acking[a] = 0
      BY <3>2, <3>1 DEF Alone, HandlersAlone, Typed, TypeOK
    <3>4. /\ UNCHANGED <<queue, links, s3, creating, procError>>
          /\ acking'[a] = 1 /\ status'[a] = "submitted"
      BY <1>3, <3>2, <3>3 DEF AckUpdate, UpdateStatus, Typed, TypeOK
    <3>5. Free(a)' /\ TasksAlone(a)'
      BY <3>2, <3>4, <1>w, ClearOnce DEF Free, TasksAlone
    <3>6. HandlersAlone(a)'
      BY <3>2, <3>4, <3>5 DEF HandlersAlone
    <3>7. ObjectAlone(a)' /\ RowAlone(a)'
      BY <3>1, <3>2, <3>4 DEF ObjectAlone, RowAlone, Alone
    <3> QED
      BY <2>2, <3>5, <3>6, <3>7 DEF Alone
  <2> QED
    BY <2>1, <2>2
<1>4. CASE AdminSubmit(a) \/ AdminGenerateHash(a)
  <2>1. PICK n \in {"upload_archive", "generate_hash_content"} :
            queue' = Append(queue, ArchiveTask(n, a))
    BY <1>4 DEF AdminSubmit, AdminGenerateHash
  <2>2. Passes(b)
    BY <2>1, <1>n, <1>t, OutsideChain, QueuePasses
  <2>3. UNCHANGED <<status, procError, creating, acking, links, s3>>
    BY <1>4 DEF AdminSubmit, AdminGenerateHash, AdminRequest
  <2> QED
    BY <2>2, <2>3, <1>a, <1>w, Undisturbed DEF Passes, Alone, TasksAlone
<1>9. CASE AdminForceParse(a)
  <2> DEFINE t == ArchiveTask("analyze_posts", a)
             forced == Append(queue, t)
             time == AccountTask("extract_time_metadata", Owner[a])
  <2>1. b # a
    BY <1>9 DEF AdminForceParse, Restart
  <2>2. t \in Task /\ time \in Task /\ ~InChain(t, b) /\ ~InChain(time, b)
    BY <2>1, <1>t, TaskTypes, OutsideChain, OwnerAssumption DEF ArchiveNames, ChainNames, AccountNames
  <2>3. queue' \in {forced, Append(forced, time)}
    BY <1>9 DEF AdminForceParse
  <2>4. forced \in Seq(Task)
    BY <1>a, <2>2, QueueTypes
  <2>5. \A s : /\ Once(queue, b, s) => Once(forced, b, s)
               /\ Clear(queue, b) => Clear(forced, b)
    BY <1>a, <2>2, AppendOther
  <2> HIDE DEF t, forced, time
  <2>6. \A s : /\ Once(forced, b, s) => Once(Append(forced, time), b, s)
               /\ Clear(forced, b) => Clear(Append(forced, time), b)
    BY <2>2, <2>4, AppendOther
  <2>7. Passes(b)
    BY <2>3, <2>5, <2>6 DEF Passes
  <2>8. UNCHANGED <<status, procError, creating, acking, links, s3>>
    BY <1>9 DEF AdminForceParse, AdminRequest
  <2> QED
    BY <2>7, <2>8, <1>a, <1>w, Undisturbed DEF Passes, Alone, TasksAlone
<1>5. CASE MakeLink(a)
  <2>1. CASE b # a
    <3>1. UNCHANGED <<status[b], procError[b], creating[b]>>
      BY <1>5, <2>1 DEF MakeLink, InvalidFBArchive, UpdateStatus, Typed, TypeOK
    <3> QED
      BY <1>5, <1>r, <1>w, <2>1, <3>1, QueuePasses, OthersAlone DEF MakeLink
  <2>2. CASE b = a
    <3>1. creating[a] = "link" /\ Free(a) /\ status[a] = "created" /\ a \notin links /\ acking[a] = 0
      BY <1>5, <1>a, <2>2 DEF MakeLink, Alone, HandlersAlone, ObjectAlone, Typed, TypeOK
    <3>2. UNCHANGED <<queue, s3, acking>> /\ creating'[a] = "no"
      BY <1>5 DEF MakeLink, Typed, TypeOK
    <3>3. \/ a \in links' /\ UNCHANGED <<status[a], procError[a]>>
          \/ a \notin links' /\ UNCHANGED <<status[a], procError[a]>>
          \/ a \notin links' /\ status'[a] = "invalid" /\ procError'[a] = TRUE
      <4>1. CASE links' = links \cup {a} /\ UNCHANGED <<status, procError>>
        BY <4>1
      <4>2. CASE InvalidFBArchive(a) /\ UNCHANGED links
        BY <4>2, <3>1 DEF InvalidFBArchive, UpdateStatus, Exists, Typed, TypeOK
      <4>3. CASE UNCHANGED <<status, procError, links>>
        BY <4>3, <3>1
      <4> QED
        BY <1>5, <4>1, <4>2, <4>3 DEF MakeLink
    <3>4. Free(a)' /\ TasksAlone(a)'
      BY <3>1, <3>2, <1>w, ClearOnce DEF Free, TasksAlone
    <3>5. HandlersAlone(a)'
      BY <3>1, <3>2 DEF HandlersAlone
    <3>6. ObjectAlone(a)' /\ RowAlone(a)'
      BY <3>1, <3>2, <3>3, <3>4, <1>a, <2>2
      DEF ObjectAlone, RowAlone, Alone, Begun, Unfinished, Finished
    <3> QED
      BY <2>2, <3>4, <3>5, <3>6 DEF Alone
  <2> QED
    BY <2>1, <2>2
<1>6. CASE UrlSubmit(a)
  <2>1. CASE b # a
    <3>1. UNCHANGED <<status[b], creating[b]>>
      BY <1>6, <2>1 DEF UrlSubmit, UpdateStatus, Typed, TypeOK
    <3> QED
      BY <1>6, <1>r, <1>w, <2>1, <3>1, QueuePasses, OthersAlone DEF UrlSubmit
  <2>2. CASE b = a
    <3>1. /\ creating[a] = "submit" /\ Free(a) /\ status[a] = "created" /\ a \notin links
          /\ acking[a] = 0 /\ Alone(a)
      BY <1>6, <1>a, <2>2 DEF UrlSubmit, Alone, HandlersAlone, ObjectAlone, Typed, TypeOK
    <3>2. UNCHANGED <<queue, s3, links, acking, procError>>
      BY <1>6 DEF UrlSubmit
    <3>3. \/ creating'[a] = "enqueue" /\ status'[a] = "submitted"
          \/ creating'[a] = "no" /\ status'[a] = "created"
      BY <1>6, <3>1 DEF UrlSubmit, UpdateStatus, Typed, TypeOK
    <3>4. Free(a)' /\ TasksAlone(a)'
      BY <3>1, <3>2, <1>w, ClearOnce DEF Free, TasksAlone
    <3>5. HandlersAlone(a)'
      BY <3>1, <3>2, <3>3, <3>4 DEF HandlersAlone
    <3>6. ObjectAlone(a)' /\ RowAlone(a)'
      BY <3>1, <3>2, <3>3 DEF ObjectAlone, RowAlone, Alone, Begun, Unfinished, Finished
    <3> QED
      BY <2>2, <3>4, <3>5, <3>6 DEF Alone
  <2> QED
    BY <2>1, <2>2
<1>7. CASE UrlEnqueue(a)
  <2> DEFINE t == ArchiveTask("download_archive", a)
  <2>t. t \in Task /\ StatusBefore(t.name) = "submitted"
    BY <1>t, <1>n DEF StatusBefore, ArchiveTask
  <2>q. queue' = queue \/ queue' = Append(queue, t)
    BY <1>7 DEF UrlEnqueue
  <2> HIDE DEF t
  <2>1. CASE b # a
    <3>1. ~InChain(t, b)
      BY <2>1, OutsideChain DEF t
    <3>2. Passes(b)
      BY <3>1, <2>t, <2>q, QueuePasses
    <3>3. UNCHANGED creating[b]
      BY <1>7, <2>1 DEF UrlEnqueue, Typed, TypeOK
    <3> QED
      BY <1>7, <1>r, <1>w, <2>1, <3>2, <3>3, OthersAlone DEF UrlEnqueue
  <2>2. CASE b = a
    <3>1. /\ creating[a] = "enqueue" /\ Free(a) /\ status[a] = "submitted" /\ a \notin links
          /\ acking[a] = 0 /\ Alone(a)
      BY <1>7, <1>a, <2>2 DEF UrlEnqueue, Alone, HandlersAlone, ObjectAlone, Typed, TypeOK
    <3>2. UNCHANGED <<status, s3, links, acking, procError>> /\ creating'[a] = "no"
      BY <1>7 DEF UrlEnqueue, Typed, TypeOK
    <3>3. Once(queue', a, "submitted")
      BY <3>1, <2>q, <2>t, <1>a, AppendFirst, ClearOnce DEF Free
    <3>4. TasksAlone(a)'
      BY <3>1, <3>2, <3>3, <1>w DEF Free, TasksAlone
    <3>5. HandlersAlone(a)' /\ ObjectAlone(a)' /\ RowAlone(a)'
      BY <3>1, <3>2 DEF HandlersAlone, ObjectAlone, RowAlone, Alone, Begun
    <3> QED
      BY <2>2, <3>4, <3>5 DEF Alone
  <2> QED
    BY <2>1, <2>2
<1>8. CASE AckEnqueue(a)
  <2> DEFINE h == ArchiveTask("generate_hash_content", a)
             hashed == Append(queue, h)
             t == ArchiveTask("parse_archive", a)
  <2>t. h \in Task /\ t \in Task /\ StatusBefore(t.name) = "submitted"
    BY <1>t, <1>n DEF StatusBefore, ArchiveTask
  <2>h. \A x : ~InChain(h, x)
    BY <1>n, OutsideChain
  <2>q. queue' \in {queue, hashed, Append(hashed, t)}
    BY <1>8 DEF AckEnqueue
  <2>s. hashed \in Seq(Task)
    BY <1>a, <2>t, QueueTypes
  <2>p. \A x, s : /\ Once(queue, x, s) => Once(hashed, x, s)
                  /\ Clear(queue, x) => Clear(hashed, x)
    BY <1>a, <2>t, <2>h, AppendOther
  <2> HIDE DEF h, hashed, t
  <2>1. CASE b # a
    <3>1. ~InChain(t, b)
      BY <2>1, OutsideChain DEF t
    <3>2. Passes(b)
      BY <3>1, <2>t, <2>q, <2>s, <2>p, AppendOther DEF Passes
    <3>3. UNCHANGED acking[b]
      BY <1>8, <2>1 DEF AckEnqueue, Typed, TypeOK
    <3> QED
      BY <1>8, <1>r, <1>w, <2>1, <3>2, <3>3, OthersAlone DEF AckEnqueue
  <2>2. CASE b = a
    <3>1. /\ acking[a] = 1 /\ creating[a] = "no" /\ Free(a) /\ status[a] = "submitted"
          /\ Alone(a)
      BY <1>8, <1>a, <2>2 DEF AckEnqueue, Alone, HandlersAlone
    <3>2. UNCHANGED <<status, s3, links, creating, procError>> /\ acking'[a] = 0
      BY <1>8, <3>1 DEF AckEnqueue, Typed, TypeOK
    <3>3. Once(queue', a, "submitted")
      BY <3>1, <2>q, <2>s, <2>t, <2>p, <1>a, AppendFirst, ClearOnce DEF Free
    <3>4. TasksAlone(a)'
      BY <3>1, <3>2, <3>3, <1>w DEF Free, TasksAlone
    <3>5. HandlersAlone(a)' /\ ObjectAlone(a)' /\ RowAlone(a)'
      BY <3>1, <3>2 DEF HandlersAlone, ObjectAlone, RowAlone, Alone, Begun
    <3> QED
      BY <2>2, <3>4, <3>5 DEF Alone
  <2> QED
    BY <2>1, <2>2
<1> QED
  BY <1>1, <1>2, <1>3, <1>4, <1>5, <1>6, <1>7, <1>8, <1>9 DEF ClientStep, AdminStep, HandlerStep

(***************************************************************************)
(* The worker that executes a task of an archive's chain is the only one     *)
(* responsible for it.                                                      *)
(***************************************************************************)
LEMMA Holder ==
    ASSUME Typed, NEW b \in Archive, Alone(b), NEW w \in Worker, InChain(job[w], b)
    PROVE  /\ acking[b] = 0 /\ creating[b] = "no" /\ ObjectAlone(b)
           /\ Clear(queue, b) /\ \A v \in Worker : v # w => ~InChain(job[v], b)
           /\ status[b] \in StatusesAt(pc[w]) /\ status[b] \in Unfinished
           /\ ~procError[b]
<1>1. ~Free(b)
  BY DEF Free
<1>2. acking[b] = 0 /\ creating[b] = "no" /\ ObjectAlone(b)
  BY <1>1 DEF Alone, HandlersAlone, Typed, TypeOK
<1>3. Clear(queue, b) /\ \A v \in Worker : v # w => ~InChain(job[v], b)
  BY DEF Alone, TasksAlone
<1>4. status[b] \in StatusesAt(pc[w])
  BY DEF Alone, TasksAlone
<1>5. status[b] \in Unfinished
  BY <1>4 DEF StatusesAt, Unfinished
<1> QED
  BY <1>2, <1>3, <1>4, <1>5 DEF Alone, RowAlone, Unfinished

LEMMA Worked ==
    ASSUME NEW b \in Archive, TasksAlone(b)',
           acking'[b] = 0, creating'[b] = "no",
           status'[b] \in Unfinished \cup Finished, procError'[b] <=> status'[b] = "invalid"
    PROVE  Alone(b)'
BY DEF Alone, HandlersAlone, ObjectAlone, RowAlone, Begun, Unfinished, Finished

(***************************************************************************)
(* A worker's step that changes no row and queues nothing for b: within its  *)
(* job, or at its end.                                                      *)
(***************************************************************************)
LEMMA JobMoves ==
    ASSUME Typed, AllAlone, NEW b \in Archive, b \notin restarted, NEW w \in Worker, pc[w] # "idle",
           \/ Finish(w)
           \/ \E s : Goto(w, s) /\ (InChain(job[w], b) => status[b] \in StatusesAt(s)),
           UNCHANGED <<status[b], procError[b], apiVars, links>>, Passes(b),
           s3' = s3 \/ (job[w].name \in ChainNames /\ s3' = s3 \cup {job[w].on})
    PROVE  Alone(b)'
<1>1. Alone(b)
  BY DEF AllAlone
<1>2. \A v \in Worker : InChain(job'[v], b) =>
          InChain(job[v], b) /\ status[b] \in StatusesAt(pc'[v])
  <2>1. CASE Finish(w)
    BY <2>1, <1>1, OutsideChain DEF Finish, Alone, TasksAlone, Typed, TypeOK
  <2>2. CASE \E s : Goto(w, s) /\ (InChain(job[w], b) => status[b] \in StatusesAt(s))
    BY <2>2, <1>1 DEF Goto, Alone, TasksAlone, Typed, TypeOK
  <2> QED
    BY <2>1, <2>2
<1>3. b \in s3' => b \in s3 \/ ~Free(b)
  BY DEF Free, InChain
<1> QED
  BY <1>1, <1>2, <1>3, Undisturbed DEF Passes, apiVars

(***************************************************************************)
(* A job that ends by queueing the next task of the chain, or by losing it,  *)
(* leaves its archive with one responsible at most.                         *)
(***************************************************************************)
LEMMA HandedAlone ==
    ASSUME Typed, AllAlone, NEW w \in Worker, pc[w] \in ChainSteps, NEW n \in ChainNames,
           queue' \in {queue, Append(queue, ArchiveTask(n, job[w].on))}, Finish(w),
           StatusesAt(pc[w]) = {StatusBefore(n)},
           UNCHANGED <<rowVars, cloudVars, apiVars>>,
           NEW b \in Archive, b \notin restarted
    PROVE  Alone(b)'
<1> DEFINE t == ArchiveTask(n, job[w].on)
<1>1. job[w].on \in Archive /\ job[w].name \in ChainNames
  BY StepTask DEF Typed
<1>2. t \in Task /\ t.name = n
  BY <1>1, TaskTypes DEF ArchiveNames, ArchiveTask
<1>q. queue' = queue \/ queue' = Append(queue, t)
  OBVIOUS
<1>3. CASE job[w].on # b
  <2>1. ~InChain(t, b)
    BY <1>3, OutsideChain
  <2> HIDE DEF t
  <2>2. Passes(b)
    BY <1>2, <1>q, <2>1, QueuePasses
  <2>3. pc[w] # "idle"
    BY DEF ChainSteps
  <2> QED
    BY <2>2, <2>3, JobMoves DEF rowVars, cloudVars
<1>4. CASE job[w].on = b
  <2>1. InChain(job[w], b) /\ Alone(b)
    BY <1>1, <1>4 DEF InChain, AllAlone
  <2>2. /\ acking[b] = 0 /\ creating[b] = "no" /\ ~procError[b]
        /\ Clear(queue, b) /\ \A v \in Worker : v # w => ~InChain(job[v], b)
        /\ status[b] = StatusBefore(n) /\ status[b] \in Unfinished
    BY <2>1, Holder
  <2>3. \A v \in Worker : ~InChain(job'[v], b)
    BY <2>2, OutsideChain DEF Finish, Typed, TypeOK
  <2> HIDE DEF t
  <2>4. Once(queue', b, status[b])
    <3>1. queue \in Seq(Task) /\ StatusBefore(t.name) = status[b]
      BY <1>2, <2>2 DEF Typed, TypeOK
    <3>2. Once(Append(queue, t), b, status[b]) /\ Once(queue, b, status[b])
      BY <1>2, <2>2, <3>1, AppendFirst, ClearOnce
    <3> QED
      BY <1>q, <3>2
  <2>5. TasksAlone(b)'
    BY <2>3, <2>4 DEF TasksAlone, rowVars
  <2> QED
    BY <2>2, <2>5, Worked DEF rowVars, apiVars, Unfinished
<1> QED
  BY <1>3, <1>4

(***************************************************************************)
(* A job that changes the status of its archive is the only one to do so.    *)
(***************************************************************************)
LEMMA MarkedAlone ==
    ASSUME Typed, AllAlone, NEW w \in Worker, pc[w] \in ChainSteps, NEW new \in Statuses,
           UpdateStatus(job[w].on, new),
           \/ Finish(w)
           \/ \E s : Goto(w, s) /\ new \in StatusesAt(s),
           UNCHANGED <<procError, cloudVars, apiVars, queue>>, new \in {"submitted", "processing", "processed"},
           NEW b \in Archive, b \notin restarted
    PROVE  Alone(b)'
<1>1. job[w].on \in Archive /\ job[w].name \in ChainNames /\ pc[w] # "idle"
  BY StepTask DEF Typed, ChainSteps
<1>2. CASE job[w].on # b
  <2>1. status'[b] = status[b] /\ ~InChain(job[w], b)
    BY <1>1, <1>2 DEF UpdateStatus, InChain, Typed, TypeOK
  <2> QED
    BY <1>1, <2>1, QueuePasses, JobMoves DEF cloudVars
<1>3. CASE job[w].on = b
  <2>1. InChain(job[w], b) /\ Alone(b)
    BY <1>1, <1>3 DEF InChain, AllAlone
  <2>2. /\ acking[b] = 0 /\ creating[b] = "no" /\ ~procError[b]
        /\ Clear(queue, b) /\ \A v \in Worker : v # w => ~InChain(job[v], b)
        /\ status[b] # "none"
    BY <2>1, Holder DEF Unfinished
  <2>3. status'[b] = new
    BY <1>3, <2>2 DEF UpdateStatus, Typed, TypeOK
  <2>4. \A v \in Worker : InChain(job'[v], b) => v = w /\ new \in StatusesAt(pc'[v])
    BY <2>2, OutsideChain DEF Finish, Goto, Typed, TypeOK
  <2>5. TasksAlone(b)'
    BY <2>2, <2>3, <2>4, ClearOnce DEF TasksAlone
  <2> QED
    BY <2>2, <2>3, <2>5, Worked DEF apiVars, Unfinished, Finished
<1> QED
  BY <1>2, <1>3

\* Which statuses a step finds, step by step.
LEMMA StepStatuses ==
    /\ \A s \in {"fetch", "mark_stored", "send_parse", "mark_processing"} :
          StatusesAt(s) = {"submitted"}
    /\ \A s \in ChainSteps \ {"fetch", "mark_stored", "send_parse", "mark_processing", "error"} :
          StatusesAt(s) = {"processing"}
    /\ StatusesAt("error") = Unfinished
    /\ \A s \in ChainSteps : StatusesAt(s) \subseteq Unfinished
    /\ \A n \in Registered : n \in ChainNames => StatusesAt(FirstStep(n)) = {StatusBefore(n)}
    /\ StatusBefore("parse_archive") = "submitted"
    /\ StatusBefore("analyze_posts") = "processing"
    /\ StatusBefore("analyze_reactions") = "processing"
BY DEF StatusesAt, StatusBefore, Unfinished, ChainSteps, ChainNames, FirstStep, Registered

(***************************************************************************)
(* The steps of the workers.                                                *)
(***************************************************************************)
LEMMA WorkerAlone ==
    ASSUME Typed, AllAlone, NEW w \in Worker, WorkerStep(w) \/ JobFails(w)
    PROVE  AllAlone'
<1> USE DEF rowVars, cloudVars, apiVars, workerVars, dataVars
<1>0. UNCHANGED restarted
  BY DEF WorkerStep, DownloadStep, ParseStep, PostStep, ReactionStep, TailStep, Start, Fetch,
         MarkStored, SendParse, SendPosts, SendReactions, SendTail, MarkProcessing, ParsePosts,
         ParseReactions, ReadPosts, SavePosts, ReadReactions, SaveReactions, MarkProcessed,
         GenerateHash, TimeMetadata, Notify, JobErrorHandler, JobFails
<1> SUFFICES ASSUME NEW b \in Archive, b \notin restarted PROVE Alone(b)'
  BY <1>0 DEF AllAlone
<1>a. Alone(b) /\ queue \in Seq(Task)
  BY DEF AllAlone, Typed, TypeOK
<1>h. InChain(job[w], b) => status[b] \in StatusesAt(pc[w])
  BY <1>a DEF Alone, TasksAlone
<1>s. ChainSteps = {"fetch", "mark_stored", "send_parse", "mark_processing", "parse_posts",
                    "parse_reactions", "send_posts", "read_posts", "save_posts",
                    "send_reactions", "read_reactions", "save_reactions", "send_tail",
                    "mark_processed", "error"}
  BY DEF ChainSteps, Steps, FailingSteps
<1>c. pc[w] \in ChainSteps => job[w].name \in ChainNames /\ job[w].on \in Archive
  BY StepTask DEF Typed
<1>1. CASE Start(w)
  <2>1. job[w] = NoTask /\ queue # <<>> /\ Head(queue) \in Task /\ Tail(queue) \in Seq(Task)
    BY <1>1, <1>a, StepTask, QueueTypes DEF Start, Typed
  <2>u. UNCHANGED <<status, procError, creating, acking, links, s3>>
    BY <1>1 DEF Start
  <2>2. CASE ~InChain(Head(queue), b)
    <3>1. Passes(b)
      <4>1. queue' = Tail(queue) \/ queue' = Append(Tail(queue), Head(queue))
        BY <1>1 DEF Start
      <4> DEFINE rest == Tail(queue)
                 head == Head(queue)
      <4>2. \A s : /\ Once(queue, b, s) => Once(rest, b, s)
                   /\ Clear(queue, b) => Clear(rest, b)
        BY <1>a, <2>1, TailOf
      <4> HIDE DEF rest, head
      <4>3. \A s : /\ Once(rest, b, s) => Once(Append(rest, head), b, s)
                   /\ Clear(rest, b) => Clear(Append(rest, head), b)
        BY <2>1, <2>2, AppendOther DEF rest, head
      <4> QED
        BY <4>1, <4>2, <4>3 DEF Passes, rest, head
    <3>2. \A v \in Worker : InChain(job'[v], b) =>
              InChain(job[v], b) /\ status[b] \in StatusesAt(pc'[v])
      <4>1. \A v \in Worker : v # w => job'[v] = job[v] /\ pc'[v] = pc[v]
        BY <1>1 DEF Start, Typed, TypeOK
      <4>2. ~InChain(job'[w], b)
        BY <1>1, <2>1, <2>2, OutsideChain DEF Start, Typed, TypeOK
      <4> QED
        BY <1>a, <4>1, <4>2 DEF Alone, TasksAlone
    <3> QED
      BY <1>a, <2>u, <3>1, <3>2, Undisturbed DEF Passes
  <2>3. CASE InChain(Head(queue), b)
    <3>1. /\ Clear(Tail(queue), b) /\ StatusBefore(Head(queue).name) = status[b]
          /\ ~Free(b) /\ \A v \in Worker : ~InChain(job[v], b)
      BY <1>a, <2>1, <2>3, TailOf DEF Free, Alone, TasksAlone
    <3>2. Head(queue).name \in Registered /\ Head(queue).name \in ChainNames
      BY <2>3 DEF InChain, Registered, ArchiveNames, ChainNames
    <3>3. /\ job' = [job EXCEPT ![w] = Head(queue)]
          /\ pc' = [pc EXCEPT ![w] = FirstStep(Head(queue).name)]
          /\ queue' = Tail(queue)
      BY <1>1, <3>2 DEF Start
    <3>4. status[b] \in StatusesAt(FirstStep(Head(queue).name)) /\ status[b] \in Unfinished
      BY <3>1, <3>2, StepStatuses DEF StatusBefore, Unfinished
    <3>5. \A v \in Worker : InChain(job'[v], b) => v = w
      BY <3>1, <3>3 DEF Typed, TypeOK
    <3>6. pc'[w] = FirstStep(Head(queue).name)
      BY <3>3 DEF Typed, TypeOK
    <3>7. TasksAlone(b)'
      BY <2>u, <3>1, <3>3, <3>4, <3>5, <3>6, ClearOnce DEF TasksAlone
    <3>8. acking[b] = 0 /\ creating[b] = "no"
      BY <1>a, <3>1 DEF Alone, HandlersAlone, Typed, TypeOK
    <3> QED
      BY <1>a, <2>u, <3>4, <3>7, <3>8, Worked DEF Alone, RowAlone, Unfinished
  <2> QED
    BY <2>2, <2>3
<1>2. CASE Fetch(w)
  <2>1. pc[w] = "fetch" /\ pc[w] # "idle" /\ job[w].name \in ChainNames
    BY <1>2, <1>c, <1>s DEF Fetch
  <2>2. InChain(job[w], b) => status[b] \in StatusesAt("mark_stored")
    BY <2>1, <1>h, StepStatuses
  <2> QED
    BY <1>2, <2>1, <2>2, QueuePasses, JobMoves DEF Fetch
<1>3. CASE MarkStored(w)
  <2>1. pc[w] \in ChainSteps /\ "submitted" \in StatusesAt("send_parse") /\ "submitted" \in Statuses
    BY <1>3, <1>s, StepStatuses DEF MarkStored, Statuses
  <2> QED
    BY <1>3, <2>1, MarkedAlone DEF MarkStored
<1>4. CASE SendParse(w)
  <2>1. /\ pc[w] \in ChainSteps /\ "parse_archive" \in ChainNames
        /\ StatusesAt(pc[w]) = {StatusBefore("parse_archive")}
    BY <1>4, <1>s, StepStatuses DEF SendParse, ChainNames
  <2> QED
    BY <1>4, <2>1, HandedAlone DEF SendParse
<1>5. CASE MarkProcessing(w)
  <2>1. /\ pc[w] \in ChainSteps /\ "processing" \in Statuses
        /\ "processing" \in StatusesAt("parse_posts") /\ "processing" \in StatusesAt("send_posts")
    BY <1>5, <1>s, StepStatuses DEF MarkProcessing, Statuses
  <2>2. \E s : Goto(w, s) /\ "processing" \in StatusesAt(s)
    BY <1>5, <2>1 DEF MarkProcessing
  <2> QED
    BY <1>5, <2>1, <2>2, MarkedAlone DEF MarkProcessing
<1>6. CASE ParsePosts(w) \/ ParseReactions(w) \/ ReadPosts(w) \/ SavePosts(w)
             \/ ReadReactions(w) \/ SaveReactions(w)
  <2>1. PICK s \in {"parse_reactions", "send_posts", "save_posts", "send_reactions",
                    "save_reactions", "send_tail"} : Goto(w, s)
    BY <1>6 DEF ParsePosts, ParseReactions, ReadPosts, SavePosts, ReadReactions, SaveReactions
  <2>2. /\ pc[w] \in {"parse_posts", "parse_reactions", "read_posts", "save_posts",
                      "read_reactions", "save_reactions"}
        /\ UNCHANGED <<rowVars, cloudVars, apiVars, queue>>
    BY <1>6 DEF ParsePosts, ParseReactions, ReadPosts, SavePosts, ReadReactions, SaveReactions
  <2>3. StatusesAt(pc[w]) = {"processing"} /\ StatusesAt(s) = {"processing"}
    BY <2>1, <2>2, <1>s, StepStatuses
  <2> QED
    BY <2>1, <2>2, <2>3, <1>h, QueuePasses, JobMoves
<1>7. CASE SendPosts(w)
  <2>1. /\ pc[w] \in ChainSteps /\ "analyze_posts" \in ChainNames
        /\ StatusesAt(pc[w]) = {StatusBefore("analyze_posts")}
    BY <1>7, <1>s, StepStatuses DEF SendPosts, ChainNames
  <2> QED
    BY <1>7, <2>1, HandedAlone DEF SendPosts
<1>8. CASE SendReactions(w)
  <2>1. /\ pc[w] \in ChainSteps /\ "analyze_reactions" \in ChainNames
        /\ StatusesAt(pc[w]) = {StatusBefore("analyze_reactions")}
    BY <1>8, <1>s, StepStatuses DEF SendReactions, ChainNames
  <2> QED
    BY <1>8, <2>1, HandedAlone DEF SendReactions
<1>9. CASE SendTail(w)
  <2> DEFINE time   == AccountTask("extract_time_metadata", Owner[job[w].on])
             notify == AccountTask("notification_finish_parsing", Owner[job[w].on])
             timed  == Append(queue, time)
  <2>1. pc[w] = "send_tail" /\ job[w].on \in Archive
    BY <1>9, <1>s, <1>c DEF SendTail
  <2>2. time \in Task /\ notify \in Task /\ ~InChain(time, b) /\ ~InChain(notify, b)
    BY <2>1, TaskTypes, OutsideChain, OwnerAssumption DEF AccountNames
  <2>3. queue' \in {queue, timed, Append(queue, notify), Append(timed, notify)}
    BY <1>9 DEF SendTail
  <2>4. timed \in Seq(Task)
    BY <1>a, <2>2, QueueTypes
  <2>5. \A s : /\ Once(queue, b, s) => Once(timed, b, s) /\ Once(Append(queue, notify), b, s)
               /\ Clear(queue, b) => Clear(timed, b) /\ Clear(Append(queue, notify), b)
    BY <1>a, <2>2, AppendOther
  <2> HIDE DEF time, notify, timed
  <2>6. \A s : /\ Once(timed, b, s) => Once(Append(timed, notify), b, s)
               /\ Clear(timed, b) => Clear(Append(timed, notify), b)
    BY <2>2, <2>4, AppendOther
  <2>7. Passes(b)
    BY <2>3, <2>5, <2>6 DEF Passes
  <2>8. InChain(job[w], b) => status[b] \in StatusesAt("mark_processed")
    BY <2>1, <1>h, <1>s, StepStatuses
  <2> QED
    BY <1>9, <2>1, <2>7, <2>8, JobMoves DEF SendTail
<1>10. CASE MarkProcessed(w)
  <2>1. pc[w] \in ChainSteps /\ "processed" \in Statuses
    BY <1>10, <1>s DEF MarkProcessed, Statuses
  <2> QED
    BY <1>10, <2>1, MarkedAlone DEF MarkProcessed
<1>11. CASE TailStep(w)
  <2>1. /\ Finish(w) /\ UNCHANGED <<status, procError, cloudVars, apiVars, queue>>
        /\ pc[w] # "idle"
    BY <1>11 DEF TailStep, GenerateHash, TimeMetadata, Notify
  <2> QED
    BY <2>1, QueuePasses, JobMoves
<1>12. CASE JobErrorHandler(w)
  <2>1. pc[w] = "error" /\ job[w].on \in Archive /\ job[w].name \in ChainNames
    BY <1>12, <1>c, <1>s DEF JobErrorHandler
  <2>2. CASE UNCHANGED <<status, procError>>
    BY <1>12, <2>1, <2>2, QueuePasses, JobMoves DEF JobErrorHandler
  <2>3. CASE InvalidFBArchive(job[w].on) /\ job[w].on # b
    <3>1. UNCHANGED <<status[b], procError[b]>>
      BY <2>1, <2>3 DEF InvalidFBArchive, UpdateStatus, Typed, TypeOK
    <3> QED
      BY <1>12, <2>1, <3>1, QueuePasses, JobMoves DEF JobErrorHandler
  <2>4. CASE InvalidFBArchive(job[w].on) /\ job[w].on = b
    <3>1. InChain(job[w], b)
      BY <2>1, <2>4 DEF InChain
    <3>2. /\ acking[b] = 0 /\ creating[b] = "no"
          /\ Clear(queue, b) /\ \A v \in Worker : v # w => ~InChain(job[v], b)
          /\ status[b] # "none"
      BY <1>a, <3>1, Holder DEF Unfinished
    <3>3. status'[b] = "invalid" /\ procError'[b] = TRUE
      BY <2>4, <3>2 DEF InvalidFBArchive, UpdateStatus, Exists, Typed, TypeOK
    <3>4. \A v \in Worker : ~InChain(job'[v], b)
      BY <1>12, <3>2, OutsideChain DEF JobErrorHandler, Finish, Typed, TypeOK
    <3>5. TasksAlone(b)'
      BY <1>12, <3>2, <3>4, ClearOnce DEF TasksAlone, JobErrorHandler
    <3> QED
      BY <1>12, <3>2, <3>3, <3>5, Worked DEF JobErrorHandler, Finished
  <2> QED
    BY <1>12, <2>2, <2>3, <2>4 DEF JobErrorHandler
<1>13. CASE JobFails(w)
  <2>1. pc[w] \in ChainSteps \ {"error"} /\ pc[w] # "idle"
    BY <1>13 DEF JobFails, FailingSteps, ChainSteps, Steps
  <2>2. InChain(job[w], b) => status[b] \in StatusesAt("error")
    BY <2>1, <1>h, StepStatuses
  <2> QED
    BY <1>13, <2>1, <2>2, QueuePasses, JobMoves DEF JobFails
<1> QED
  BY <1>1, <1>2, <1>3, <1>4, <1>5, <1>6, <1>7, <1>8, <1>9, <1>10, <1>11, <1>12, <1>13
  DEF WorkerStep, DownloadStep, ParseStep, PostStep, ReactionStep

(***************************************************************************)
(* A crash takes responsibles away and names none.                          *)
(***************************************************************************)
LEMMA CrashAlone == Typed /\ AllAlone /\ (WorkerCrash \/ ApiCrash \/ UNCHANGED vars) => AllAlone'
<1> SUFFICES ASSUME Typed, AllAlone, WorkerCrash \/ ApiCrash \/ UNCHANGED vars,
                    NEW b \in Archive, b \notin restarted'
             PROVE  Alone(b)'
  BY DEF AllAlone
<1> USE DEF rowVars, cloudVars, apiVars, workerVars, dataVars
<1>1. /\ Alone(b) /\ UNCHANGED <<status, procError, links, s3, queue>>
      /\ creating'[b] \in {creating[b], "no"} /\ acking'[b] \in {acking[b], 0}
  BY DEF AllAlone, WorkerCrash, ApiCrash, vars, Typed, TypeOK
<1>2. \A v \in Worker : job'[v] = NoTask \/ (job'[v] = job[v] /\ pc'[v] = pc[v])
  BY DEF WorkerCrash, ApiCrash, vars
<1>3. \A v \in Worker : InChain(job'[v], b) =>
          InChain(job[v], b) /\ status[b] \in StatusesAt(pc'[v])
  BY <1>1, <1>2, OutsideChain DEF Alone, TasksAlone
<1> QED
  BY <1>1, <1>3, Undisturbed

LEMMA InitAlone == Init => AllAlone
<1> SUFFICES ASSUME Init, NEW b \in Archive PROVE Alone(b)
  BY DEF AllAlone
<1>1. Free(b)
  BY OutsideChain DEF Init, Free, Clear
<1>2. TasksAlone(b)
  BY <1>1 DEF Init, TasksAlone, Free, Once
<1>3. HandlersAlone(b)
  BY DEF Init, HandlersAlone
<1>4. ObjectAlone(b)
  BY DEF Init, ObjectAlone
<1>5. RowAlone(b)
  BY <1>1 DEF Init, RowAlone
<1> QED
  BY <1>2, <1>3, <1>4, <1>5 DEF Alone

LEMMA AloneStep == Typed /\ AllAlone /\ [Next]_vars => AllAlone'
BY RequestAlone, WorkerAlone, CrashAlone DEF Next

(***************************************************************************)
(* As long as its work is not started again an archive has one responsible   *)
(* at most, and the row is in the status that one expects: whatever fails,    *)
(* and however many workers there are.                                      *)
(***************************************************************************)
THEOREM SoleResponsible == Spec => [](Typed /\ AllAlone)
<1>1. Init => Typed /\ AllAlone
  BY InitTyped, InitAlone
<1>2. Typed /\ AllAlone /\ [Next]_vars => Typed' /\ AllAlone'
  BY TypedStep, AloneStep
<1> QED
  BY <1>1, <1>2, PTL DEF Spec

(***************************************************************************)
(* A handler that is done with an archive it did not make a link for has     *)
(* queued the download, or could not submit the archive.                    *)
(***************************************************************************)
LEMMA HandlerEnds ==
    ASSUME NoLoss, Typed, AnalysedStored, [Next]_vars, NEW b \in Archive, FlowOf[b] = "url",
           Alone(b), creating[b] # "no", creating'[b] = "no"
    PROVE  TaskFor({"download_archive"}, b)' \/ ~Begun(b)'
<1> USE DEF rowVars, cloudVars, apiVars, workerVars, dataVars
<1>1. UrlEnqueue(b) \/ UrlSubmit(b)
  <2>1. ASSUME NEW a \in Archive, ClientStep(a) \/ AdminStep(a) \/ HandlerStep(a),
               ~UrlEnqueue(b), ~UrlSubmit(b)
        PROVE  FALSE
    <3>1. CASE AddFBArchive(a)
      BY <3>1 DEF AddFBArchive, Typed, TypeOK
    <3>2. CASE MakeLink(a)
      BY <3>2 DEF MakeLink, AnalysedStored, Typed, TypeOK
    <3>3. CASE UrlSubmit(a) \/ UrlEnqueue(a)
      BY <2>1, <3>3 DEF UrlSubmit, UrlEnqueue, Typed, TypeOK
    <3>4. CASE UNCHANGED creating
      BY <3>4
    <3> QED
      BY <2>1, <3>1, <3>2, <3>3, <3>4 DEF ClientStep, HandlerStep, AdminStep, ClientPut, AckUpdate,
         AdminSubmit, AdminGenerateHash, AdminForceParse, AdminRequest, AckEnqueue
  <2>2. ASSUME NEW w \in Worker, WorkerStep(w) \/ JobFails(w)
        PROVE  UNCHANGED creating
    BY <2>2 DEF WorkerStep, DownloadStep, ParseStep, PostStep, ReactionStep, TailStep, Start, Fetch,
        MarkStored, SendParse, SendPosts, SendReactions, SendTail,
        MarkProcessing, ParsePosts, ParseReactions, ReadPosts, SavePosts, ReadReactions,
        SaveReactions, MarkProcessed, GenerateHash, TimeMetadata, Notify, JobErrorHandler, JobFails
  <2> QED
    BY <2>1, <2>2 DEF Next, WorkerCrash, ApiCrash, vars, NoLoss
<1> DEFINE t == ArchiveTask("download_archive", b)
<1>2. t \in Task /\ t.name = "download_archive" /\ t.on = b
  BY TaskTypes DEF ArchiveTask, ArchiveNames, ChainNames
<1>3. CASE UrlEnqueue(b)
  <2>1. queue' = Append(queue, t)
    BY <1>3 DEF UrlEnqueue, NoLoss
  <2>2. \E i \in DOMAIN queue' : queue'[i] = t
    BY <1>2, <2>1, AppendGrows
  <2> HIDE DEF t
  <2> QED
    BY <1>2, <2>2, TaskQueued
<1>4. CASE UrlSubmit(b)
  <2>1. UNCHANGED status
    BY <1>4 DEF UrlSubmit, Typed, TypeOK
  <2>2. status[b] = "created"
    BY <1>4 DEF UrlSubmit, Alone, HandlersAlone
  <2> QED
    BY <2>1, <2>2 DEF Begun, Unfinished, Finished
<1> QED
  BY <1>1, <1>3, <1>4

(***************************************************************************)
(* Without an object, only its handler submits an archive.                  *)
(***************************************************************************)
LEMMA BegunMade ==
    ASSUME Typed, [Next]_vars, NEW b \in Archive, Alone(b), ~Begun(b), creating[b] = "no", b \notin s3
    PROVE  ~Begun(b)'
<1> USE DEF rowVars, cloudVars, apiVars, workerVars, dataVars
<1>f. Free(b)
  BY BusyBegun
<1>u. ASSUME NEW a, a # b, NEW new, UpdateStatus(a, new) PROVE status'[b] = status[b]
  BY <1>u DEF UpdateStatus, Typed, TypeOK
<1>k. ASSUME status'[b] = status[b] PROVE ~Begun(b)'
  BY <1>k DEF Begun
<1>1. ASSUME NEW a \in Archive, ClientStep(a) \/ AdminStep(a) \/ HandlerStep(a)
      PROVE  ~Begun(b)'
  <2>1. CASE AddFBArchive(a)
    <3>1. status'[b] \in {status[b], "created"}
      BY <2>1 DEF AddFBArchive, Typed, TypeOK
    <3> QED
      BY <1>k, <3>1 DEF Begun, Unfinished, Finished
  <2>2. CASE UNCHANGED status
    BY <1>k, <2>2
  <2>3. CASE AckUpdate(a) \/ MakeLink(a) \/ UrlSubmit(a)
    <3>1. a # b
      BY <2>3 DEF AckUpdate, MakeLink, UrlSubmit
    <3>2. UNCHANGED status \/ \E new : UpdateStatus(a, new)
      BY <2>3 DEF AckUpdate, MakeLink, UrlSubmit, InvalidFBArchive
    <3> QED
      BY <1>k, <1>u, <3>1, <3>2
  <2> QED
    BY <1>1, <2>1, <2>2, <2>3 DEF ClientStep, HandlerStep, AdminStep, ClientPut, UrlEnqueue,
       AdminSubmit, AdminGenerateHash, AdminForceParse, AdminRequest, AckEnqueue
<1>2. ASSUME NEW w \in Worker, WorkerStep(w) \/ JobFails(w) PROVE ~Begun(b)'
  <2>1. CASE MarkStored(w) \/ MarkProcessing(w) \/ MarkProcessed(w) \/ JobErrorHandler(w)
    <3>1. job[w].on # b
      <4>1. pc[w] \in ChainSteps
        BY <2>1 DEF MarkStored, MarkProcessing, MarkProcessed, JobErrorHandler, ChainSteps, Steps,
                    FailingSteps
      <4> QED
        BY <1>f, <4>1, StepTask DEF Typed, Free, InChain
    <3>2. UNCHANGED status \/ \E new : UpdateStatus(job[w].on, new)
      BY <2>1 DEF MarkStored, MarkProcessing, MarkProcessed, JobErrorHandler, InvalidFBArchive
    <3> QED
      BY <1>k, <1>u, <3>1, <3>2
  <2>2. CASE UNCHANGED status
    BY <1>k, <2>2
  <2> QED
    BY <1>2, <2>1, <2>2
    DEF WorkerStep, DownloadStep, ParseStep, PostStep, ReactionStep, TailStep, Start, Fetch,
        SendParse, SendPosts, SendReactions, SendTail, ParsePosts, ParseReactions, ReadPosts,
        SavePosts, ReadReactions, SaveReactions, GenerateHash, TimeMetadata, Notify, JobFails
<1>3. CASE WorkerCrash \/ ApiCrash \/ UNCHANGED vars
  BY <1>3, <1>k DEF WorkerCrash, ApiCrash, vars
<1> QED
  BY <1>1, <1>2, <1>3 DEF Next

(***************************************************************************)
(* Unless an analysis is forced, only the work on an archive whose object is *)
(* in the bucket is started again.                                          *)
(***************************************************************************)
RestartedStored == restarted \subseteq s3

LEMMA RestartedStoredStep ==
    "force" \notin AdminOps /\ RestartedStored /\ [Next]_vars => RestartedStored'
<1> SUFFICES ASSUME "force" \notin AdminOps, restarted \subseteq s3, [Next]_vars
             PROVE  restarted' \subseteq s3'
  BY DEF RestartedStored
<1> USE DEF rowVars, cloudVars, apiVars, workerVars, dataVars
<1>1. ASSUME NEW a \in Archive, ClientStep(a) \/ AdminStep(a) \/ HandlerStep(a)
      PROVE  restarted' \subseteq s3
  BY <1>1 DEF ClientStep, AdminStep, HandlerStep, AddFBArchive, ClientPut, AckUpdate, AdminSubmit,
         AdminGenerateHash, AdminForceParse, AdminRequest, MakeLink, UrlSubmit, UrlEnqueue,
         AckEnqueue, Restart
<1>2. ASSUME NEW w \in Worker, WorkerStep(w) \/ JobFails(w) PROVE UNCHANGED restarted
  BY <1>2 DEF WorkerStep, DownloadStep, ParseStep, PostStep, ReactionStep, TailStep, Start, Fetch,
         MarkStored, SendParse, SendPosts, SendReactions, SendTail, MarkProcessing, ParsePosts,
         ParseReactions, ReadPosts, SavePosts, ReadReactions, SaveReactions, MarkProcessed,
         GenerateHash, TimeMetadata, Notify, JobErrorHandler, JobFails
<1> QED
  BY <1>1, <1>2, NothingRemoved DEF Next, WorkerCrash, ApiCrash, vars

(***************************************************************************)
(* Unless a task or its result is lost, or an analysis is forced, an archive *)
(* that was submitted and whose download is over is in the bucket or invalid: *)
(* under redelivered events, failing jobs and updates, and any number of     *)
(* workers.                                                                *)
(***************************************************************************)
THEOREM DownloadsReported ==
    NoLoss /\ "force" \notin AdminOps => (Spec => []FailedDownloadIsInvalid)
<1> SUFFICES ASSUME NoLoss, "force" \notin AdminOps PROVE Spec => []FailedDownloadIsInvalid
  OBVIOUS
<1>1. Init => AnalysedStored /\ RestartedStored /\ FailedDownloadIsInvalid
  BY DEF Init, AnalysedStored, RestartedStored, FailedDownloadIsInvalid, TaskFor, QueuedFor, RunningFor, NoTask,
         AnalysisNames, Begun, Unfinished, Finished
<1>2. Spec => [](Typed /\ Sourced)
  BY SourcedAlways
<1>4. Spec => [](Typed /\ AllAlone)
  BY SoleResponsible
<1>3. Typed /\ Sourced /\ AllAlone /\ AnalysedStored /\ RestartedStored
          /\ FailedDownloadIsInvalid /\ [Next]_vars
      => AnalysedStored' /\ RestartedStored' /\ FailedDownloadIsInvalid'
  <2> SUFFICES ASSUME Typed, Sourced, AllAlone, AnalysedStored, RestartedStored,
                      FailedDownloadIsInvalid, [Next]_vars
               PROVE  AnalysedStored' /\ RestartedStored' /\ FailedDownloadIsInvalid'
    OBVIOUS
  <2>1. AnalysedStored' /\ RestartedStored'
    BY AnalysedStoredStep, RestartedStoredStep
  <2> SUFFICES ASSUME NEW b \in Archive, FlowOf[b] = "url", Begun(b)', b \notin s3',
                      creating'[b] = "no", ~TaskFor({"download_archive"}, b)'
               PROVE  status'[b] = "invalid"
    BY <2>1 DEF FailedDownloadIsInvalid
  <2>2. b \notin s3 /\ Alone(b)
    BY NothingRemoved DEF AllAlone, RestartedStored
  <2>3. creating[b] = "no"
    BY <2>2, HandlerEnds
  <2>4. Begun(b)
    BY <2>2, <2>3, BegunMade
  <2>5. CASE TaskFor({"download_archive"}, b)
    BY <2>5, DownloadEnds
  <2>6. CASE ~TaskFor({"download_archive"}, b)
    <3>1. status[b] = "invalid"
      BY <2>2, <2>3, <2>4, <2>6 DEF FailedDownloadIsInvalid
    <3> QED
      BY <2>2, <3>1, InvalidStays
  <2> QED
    BY <2>5, <2>6
<1> QED
  BY <1>1, <1>2, <1>3, <1>4, PTL DEF Spec

(***************************************************************************)
(* A set whose elements are all the same has one at most.                   *)
(***************************************************************************)
LEMMA OneAtMost ==
    ASSUME NEW S, \A x, y \in S : x = y
    PROVE  Cardinality(S) \in {0, 1} /\ (Cardinality(S) = 0 <=> S = {})
<1>1. CASE S = {}
  BY <1>1, FS_EmptySet
<1>2. CASE S # {}
  <2>1. PICK x : x \in S
    BY <1>2
  <2>2. S = {x}
    BY <2>1
  <2> QED
    BY <2>2, FS_Singleton
<1> QED
  BY <1>1, <1>2

LEMMA AloneIsOneChain == Typed /\ AllAlone => OneChain
<1> SUFFICES ASSUME Typed, AllAlone, NEW b \in Archive \ restarted
             PROVE  Cardinality(QueuedFor(ChainNames, b)) + Cardinality(RunningFor(ChainNames, b))
                        + acking[b] + (IF creating[b] = "no" THEN 0 ELSE 1) <= 1
  BY DEF OneChain
<1> DEFINE queued == QueuedFor(ChainNames, b)
           running == RunningFor(ChainNames, b)
<1>a. Alone(b) /\ acking[b] \in Nat
  BY DEF AllAlone, Typed, TypeOK
<1>1. \A i, j \in queued : i = j
  BY <1>a DEF Alone, TasksAlone, Once, InChain, QueuedFor
<1>2. \A v, w \in running : v = w
  BY <1>a DEF Alone, TasksAlone, InChain, RunningFor
<1>3. running # {} => queued = {}
  BY <1>a DEF Alone, TasksAlone, InChain, RunningFor, QueuedFor, Clear
<1>4. acking[b] > 0 \/ creating[b] # "no" =>
          /\ queued = {} /\ running = {}
          /\ acking[b] <= 1 /\ (creating[b] # "no" => acking[b] = 0)
  BY <1>a DEF Alone, HandlersAlone, Free, Clear, InChain, RunningFor, QueuedFor
<1> HIDE DEF queued, running
<1>5. /\ Cardinality(queued) \in {0, 1} /\ (queued = {} => Cardinality(queued) = 0)
      /\ Cardinality(running) \in {0, 1} /\ (running = {} => Cardinality(running) = 0)
  BY <1>1, <1>2, OneAtMost
<1>6. Cardinality(queued) + Cardinality(running) + acking[b]
          + (IF creating[b] = "no" THEN 0 ELSE 1) <= 1
  BY <1>a, <1>3, <1>4, <1>5
<1> QED
  BY <1>6 DEF queued, running

(***************************************************************************)
(* OneChain: each job hands an archive on to exactly one successor.         *)
(***************************************************************************)
THEOREM OneAtWork == Spec => []OneChain
<1>1. Spec => [](Typed /\ AllAlone)
  BY SoleResponsible
<1> QED
  BY <1>1, AloneIsOneChain, PTL

(***************************************************************************)
(* The status invalid and the error are only ever written together, and the  *)
(* error is never cleared.                                                  *)
(***************************************************************************)
InvalidHasError == \A a \in Archive : status[a] = "invalid" => procError[a]

LEMMA InvalidStep == Typed /\ InvalidHasError /\ [Next]_vars => InvalidHasError'
<1> SUFFICES ASSUME Typed, InvalidHasError, [Next]_vars, NEW b \in Archive, status'[b] = "invalid"
             PROVE  procError'[b]
  BY DEF InvalidHasError
<1> USE DEF rowVars, cloudVars, apiVars, workerVars, dataVars
<1>b. status[b] = "invalid" => procError[b] = TRUE
  BY DEF InvalidHasError, Typed, TypeOK
<1>i. ASSUME NEW a \in Archive, InvalidFBArchive(a) PROVE procError'[b]
  <2>1. CASE a = b
    <3>1. Exists(b)
      BY <1>i, <2>1 DEF InvalidFBArchive, UpdateStatus, Exists, Typed, TypeOK
    <3> QED
      BY <1>i, <2>1, <3>1 DEF InvalidFBArchive, Typed, TypeOK
  <2>2. CASE a # b
    BY <1>i, <1>b, <2>2 DEF InvalidFBArchive, UpdateStatus, Typed, TypeOK
  <2> QED
    BY <2>1, <2>2
<1>u. ASSUME NEW a \in Archive, NEW new, new # "invalid", UpdateStatus(a, new), UNCHANGED procError
      PROVE  procError'[b]
  BY <1>u, <1>b DEF UpdateStatus, Typed, TypeOK
<1>k. ASSUME UNCHANGED <<status, procError>> PROVE procError'[b]
  BY <1>k, <1>b
<1>1. ASSUME NEW a \in Archive, ClientStep(a) \/ HandlerStep(a) \/ AdminStep(a) PROVE procError'[b]
  <2>1. CASE AddFBArchive(a)
    BY <2>1, <1>b DEF AddFBArchive, Typed, TypeOK
  <2>2. CASE AckUpdate(a)
    BY <2>2, <1>u DEF AckUpdate
  <2>3. CASE MakeLink(a)
    BY <2>3, <1>i, <1>k DEF MakeLink
  <2>4. CASE UrlSubmit(a)
    BY <2>4, <1>u, <1>k DEF UrlSubmit
  <2>5. CASE ClientPut(a) \/ UrlEnqueue(a) \/ AckEnqueue(a) \/ AdminStep(a)
    BY <2>5, <1>k DEF ClientPut, UrlEnqueue, AckEnqueue, AdminStep, AdminSubmit,
                      AdminGenerateHash, AdminForceParse, AdminRequest
  <2> QED
    BY <1>1, <2>1, <2>2, <2>3, <2>4, <2>5 DEF ClientStep, HandlerStep
<1>2. ASSUME NEW w \in Worker, WorkerStep(w) \/ JobFails(w) PROVE procError'[b]
  <2>s. pc[w] \in {"mark_stored", "mark_processing", "mark_processed", "error"} =>
            job[w].on \in Archive
    BY StepTask DEF Typed, ChainSteps, Steps, FailingSteps
  <2>1. CASE MarkStored(w) \/ MarkProcessing(w) \/ MarkProcessed(w)
    BY <2>1, <2>s, <1>u DEF MarkStored, MarkProcessing, MarkProcessed
  <2>2. CASE JobErrorHandler(w)
    BY <2>2, <2>s, <1>i, <1>k DEF JobErrorHandler
  <2>3. CASE \/ Start(w) \/ Fetch(w) \/ SendParse(w) \/ ParsePosts(w) \/ ParseReactions(w)
             \/ SendPosts(w) \/ PostStep(w) \/ ReadReactions(w) \/ SaveReactions(w)
             \/ SendTail(w) \/ TailStep(w) \/ JobFails(w)
    BY <2>3, <1>k DEF Start, Fetch, SendParse, ParsePosts, ParseReactions, SendPosts, PostStep,
                ReadPosts, SavePosts, SendReactions, ReadReactions, SaveReactions, SendTail,
                TailStep, GenerateHash, TimeMetadata, Notify, JobFails
  <2> QED
    BY <1>2, <2>1, <2>2, <2>3 DEF WorkerStep, DownloadStep, ParseStep, ReactionStep
<1>3. CASE WorkerCrash \/ ApiCrash \/ UNCHANGED vars
  BY <1>3, <1>k DEF WorkerCrash, ApiCrash, vars
<1> QED
  BY <1>1, <1>2, <1>3 DEF Next

(***************************************************************************)
(* An invalid row carries a processing error, and a row with an error is     *)
(* invalid as long as its work is not started again.                        *)
(***************************************************************************)
THEOREM ErrorsStay == Spec => []ErrorIffInvalid
<1>1. Spec => [](Typed /\ AllAlone)
  BY SoleResponsible
<1>2. Init => InvalidHasError
  BY DEF Init, InvalidHasError
<1>3. AllAlone /\ InvalidHasError => ErrorIffInvalid
  BY DEF AllAlone, Alone, RowAlone, InvalidHasError, ErrorIffInvalid
<1> QED
  BY <1>1, <1>2, <1>3, InvalidStep, PTL DEF Spec

-----------------------------------------------------------------------------
(***************************************************************************)
(* Every step of the pipeline moves one archive on in its lifecycle, or      *)
(* leaves all statuses and errors as they are: the sole responsible of an    *)
(* archive writes the status that follows the one it finds.                 *)
(***************************************************************************)
LEMMA LifecycleStep ==
    Typed /\ AllAlone /\ [Next]_vars => [Lifecycle!Next]_(Lifecycle!vars)
<1> SUFFICES ASSUME Typed, AllAlone, [Next]_vars
             PROVE  Lifecycle!Next \/ UNCHANGED <<status, procError, restarted>>
  BY DEF Lifecycle!vars
<1> USE DEF rowVars, cloudVars, apiVars, workerVars, dataVars
<1>m. ASSUME NEW a \in Archive,
             \/ Lifecycle!Create(a) \/ Lifecycle!Submit(a) \/ Lifecycle!Process(a)
             \/ Lifecycle!Complete(a) \/ Lifecycle!Reject(a)
             \/ Lifecycle!Restart(a) \/ Lifecycle!Rework(a)
      PROVE  Lifecycle!Next
  BY <1>m DEF Lifecycle!Next
<1>r. ASSUME NEW a \in Archive, status[a] \in {"created", "submitted", "processing"},
             InvalidFBArchive(a), UNCHANGED restarted
      PROVE  Lifecycle!Next
  <2>1. status' = [status EXCEPT ![a] = "invalid"]
    BY <1>r DEF InvalidFBArchive, UpdateStatus
  <2>2. procError' = [procError EXCEPT ![a] = TRUE]
    BY <1>r, Zenon DEF InvalidFBArchive, Exists
  <2> QED
    BY <1>r, <1>m, <2>1, <2>2 DEF Lifecycle!Reject
<1>u. ASSUME NEW a \in Archive, NEW new, status[a] # "none", UpdateStatus(a, new)
      PROVE  status' = [status EXCEPT ![a] = new]
  BY <1>u DEF UpdateStatus
\* An archive whose work was started again may get any status but a new one.
<1>x. ASSUME NEW a \in restarted, NEW new \in {"submitted", "processing", "processed"},
             UpdateStatus(a, new), UNCHANGED <<procError, restarted>>
      PROVE  Lifecycle!Next \/ UNCHANGED <<status, procError, restarted>>
  <2>0. a \in Archive /\ new \in Lifecycle!Submitted /\ new # "invalid"
    BY <1>x DEF Lifecycle!Submitted, Typed, TypeOK
  <2>1. CASE status[a] = "none"
    <3>1. status' = status
      BY <1>x, <2>0, <2>1 DEF UpdateStatus, Typed, TypeOK
    <3> QED
      BY <1>x, <3>1
  <2>2. CASE status[a] # "none"
    <3>1. status' = [status EXCEPT ![a] = new]
      BY <1>x, <2>0, <2>2, <1>u
    <3>2. procError' = [procError EXCEPT ![a] = @ \/ new = "invalid"]
      <4>1. procError \in [Archive -> BOOLEAN] /\ procError' = procError
        BY <1>x DEF Typed, TypeOK
      <4>2. (procError[a] \/ new = "invalid") = procError[a]
        BY <2>0, <4>1
      <4> QED
        BY <4>1, <4>2
    <3> QED
      BY <1>x, <1>m, <2>0, <2>2, <3>1, <3>2 DEF Lifecycle!Rework
  <2> QED
    BY <2>1, <2>2
<1>y. ASSUME NEW a \in restarted, InvalidFBArchive(a), UNCHANGED restarted
      PROVE  Lifecycle!Next \/ UNCHANGED <<status, procError, restarted>>
  <2>0. a \in Archive /\ "invalid" \in Lifecycle!Submitted
    BY DEF Lifecycle!Submitted, Typed, TypeOK
  <2>1. CASE status[a] = "none"
    <3>1. status' = status
      BY <1>y, <2>0, <2>1 DEF InvalidFBArchive, UpdateStatus, Typed, TypeOK
    <3>2. procError' = procError
      <4>1. procError \in [Archive -> BOOLEAN] /\ Exists(a) = FALSE
        BY <2>1 DEF Exists, Typed, TypeOK
      <4>2. (procError[a] \/ Exists(a)) = procError[a]
        BY <2>0, <4>1
      <4> QED
        BY <1>y, <4>1, <4>2 DEF InvalidFBArchive
    <3> QED
      BY <1>y, <3>1, <3>2
  <2>2. CASE status[a] # "none"
    <3>1. status' = [status EXCEPT ![a] = "invalid"]
      BY <1>y, <2>0, <2>2, <1>u DEF InvalidFBArchive
    <3>2. procError' = [procError EXCEPT ![a] = @ \/ "invalid" = "invalid"]
      BY <1>y, <2>2, Zenon DEF InvalidFBArchive, Exists
    <3> QED
      BY <1>y, <1>m, <2>0, <2>2, <3>1, <3>2 DEF Lifecycle!Rework
  <2> QED
    BY <2>1, <2>2
<1>w. ASSUME NEW w \in Worker, pc[w] \in ChainSteps
      PROVE  /\ job[w].on \in Archive
             /\ job[w].on \notin restarted =>
                   status[job[w].on] \in StatusesAt(pc[w]) /\ status[job[w].on] \in Unfinished
  <2>1. job[w].on \in Archive /\ InChain(job[w], job[w].on)
        /\ (job[w].on \notin restarted => Alone(job[w].on))
    BY <1>w, StepTask DEF Typed, InChain, AllAlone
  <2> QED
    BY <2>1, Holder
<1>1. ASSUME NEW a \in Archive, ClientStep(a) \/ HandlerStep(a) \/ AdminStep(a)
      PROVE  Lifecycle!Next \/ UNCHANGED <<status, procError, restarted>>
  <2>a. a \notin restarted => Alone(a)
    BY DEF AllAlone
  <2>1. CASE AddFBArchive(a)
    BY <2>1, <1>m DEF AddFBArchive, Lifecycle!Create, Lifecycle!Move
  <2>2. CASE AckUpdate(a)
    <3>1. CASE Begun(a)
      <4>1. status[a] # "none" /\ restarted' = restarted \cup {a} /\ UNCHANGED procError
        BY <2>2, <3>1 DEF AckUpdate, Begun, Restart, Unfinished, Finished
      <4>2. status' = [status EXCEPT ![a] = "submitted"]
        BY <2>2, <4>1, <1>u DEF AckUpdate
      <4> QED
        BY <1>m, <4>1, <4>2 DEF Lifecycle!Restart
    <3>2. CASE ~Begun(a) /\ a \notin restarted
      <4>1. status[a] = "created"
        BY <2>2, <2>a, <3>2
        DEF AckUpdate, Alone, ObjectAlone, RowAlone, Begun, Unfinished, Finished, Statuses,
            Typed, TypeOK
      <4>2. status' = [status EXCEPT ![a] = "submitted"] /\ UNCHANGED <<procError, restarted>>
        BY <2>2, <3>2, <4>1, <1>u DEF AckUpdate
      <4> QED
        BY <4>1, <4>2, <1>m DEF Lifecycle!Submit, Lifecycle!Move
    <3>3. CASE ~Begun(a) /\ a \in restarted
      BY <2>2, <3>3, <1>x DEF AckUpdate
    <3> QED
      BY <3>1, <3>2, <3>3
  <2>3. CASE MakeLink(a)
    <3>1. a \notin restarted => status[a] = "created"
      BY <2>3, <2>a DEF MakeLink, Alone, HandlersAlone
    <3> QED
      BY <2>3, <3>1, <1>r, <1>y DEF MakeLink
  <2>4. CASE UrlSubmit(a)
    <3>1. CASE UpdateStatus(a, "submitted") /\ a \notin restarted
      <4>1. status[a] = "created"
        BY <2>4, <2>a, <3>1 DEF UrlSubmit, Alone, HandlersAlone
      <4>2. status' = [status EXCEPT ![a] = "submitted"] /\ UNCHANGED <<procError, restarted>>
        BY <2>4, <3>1, <4>1, <1>u DEF UrlSubmit
      <4> QED
        BY <4>1, <4>2, <1>m DEF Lifecycle!Submit, Lifecycle!Move
    <3>2. CASE UpdateStatus(a, "submitted") /\ a \in restarted
      BY <2>4, <3>2, <1>x DEF UrlSubmit
    <3>3. CASE UNCHANGED status
      BY <2>4, <3>3 DEF UrlSubmit
    <3> QED
      BY <2>4, <3>1, <3>2, <3>3 DEF UrlSubmit
  <2>5. CASE AdminForceParse(a)
    <3>1. status[a] # "none" /\ restarted' = restarted \cup {a} /\ UNCHANGED <<status, procError>>
      BY <2>5 DEF AdminForceParse, AdminRequest, Restart, Exists
    <3> QED
      BY <1>m, <3>1 DEF Lifecycle!Restart
  <2>6. CASE ClientPut(a) \/ UrlEnqueue(a) \/ AckEnqueue(a) \/ AdminSubmit(a) \/ AdminGenerateHash(a)
    BY <2>6 DEF ClientPut, UrlEnqueue, AckEnqueue, AdminSubmit, AdminGenerateHash, AdminRequest
  <2> QED
    BY <1>1, <2>1, <2>2, <2>3, <2>4, <2>5, <2>6 DEF ClientStep, HandlerStep, AdminStep
<1>2. ASSUME NEW w \in Worker, WorkerStep(w) \/ JobFails(w)
      PROVE  Lifecycle!Next \/ UNCHANGED <<status, procError, restarted>>
  <2>s. {"mark_stored", "mark_processing", "mark_processed", "error"} \subseteq ChainSteps
    BY DEF ChainSteps, Steps, FailingSteps
  <2>1. CASE MarkStored(w)
    <3>1. /\ job[w].on \in Archive /\ UpdateStatus(job[w].on, "submitted")
          /\ UNCHANGED <<procError, restarted>>
          /\ job[w].on \notin restarted => status[job[w].on] = "submitted"
      BY <2>1, <2>s, <1>w, StepStatuses DEF MarkStored
    <3>2. CASE job[w].on \in restarted
      BY <3>1, <3>2, <1>x
    <3>3. CASE job[w].on \notin restarted
      <4>1. status' = [status EXCEPT ![job[w].on] = "submitted"]
        BY <3>1, <3>3, <1>u
      <4> QED
        BY <3>1, <3>3, <4>1 DEF Typed, TypeOK
    <3> QED
      BY <3>2, <3>3
  <2>2. CASE MarkProcessing(w)
    <3>1. /\ job[w].on \in Archive /\ UpdateStatus(job[w].on, "processing")
          /\ UNCHANGED <<procError, restarted>>
          /\ job[w].on \notin restarted => status[job[w].on] = "submitted"
      BY <2>2, <2>s, <1>w, StepStatuses DEF MarkProcessing
    <3>2. CASE job[w].on \in restarted
      BY <3>1, <3>2, <1>x
    <3>3. CASE job[w].on \notin restarted
      <4>1. status' = [status EXCEPT ![job[w].on] = "processing"]
        BY <3>1, <3>3, <1>u
      <4> QED
        BY <3>1, <3>3, <4>1, <1>m DEF Lifecycle!Process, Lifecycle!Move
    <3> QED
      BY <3>2, <3>3
  <2>3. CASE MarkProcessed(w)
    <3>1. /\ job[w].on \in Archive /\ UpdateStatus(job[w].on, "processed")
          /\ UNCHANGED <<procError, restarted>>
          /\ job[w].on \notin restarted => status[job[w].on] = "processing"
      BY <2>3, <2>s, <1>w, StepStatuses DEF MarkProcessed
    <3>2. CASE job[w].on \in restarted
      BY <3>1, <3>2, <1>x
    <3>3. CASE job[w].on \notin restarted
      <4>1. status' = [status EXCEPT ![job[w].on] = "processed"]
        BY <3>1, <3>3, <1>u
      <4> QED
        BY <3>1, <3>3, <4>1, <1>m DEF Lifecycle!Complete, Lifecycle!Move
    <3> QED
      BY <3>2, <3>3
  <2>4. CASE JobErrorHandler(w)
    <3>1. /\ job[w].on \in Archive /\ UNCHANGED restarted
          /\ job[w].on \notin restarted => status[job[w].on] \in Unfinished
      BY <2>4, <2>s, <1>w DEF JobErrorHandler
    <3>2. CASE InvalidFBArchive(job[w].on)
      BY <3>1, <3>2, <1>r, <1>y DEF Unfinished
    <3> QED
      BY <2>4, <3>1, <3>2 DEF JobErrorHandler
  <2>5. CASE \/ Start(w) \/ Fetch(w) \/ SendParse(w) \/ ParsePosts(w) \/ ParseReactions(w)
             \/ SendPosts(w) \/ PostStep(w) \/ ReadReactions(w) \/ SaveReactions(w)
             \/ SendTail(w) \/ TailStep(w) \/ JobFails(w)
    BY <2>5 DEF Start, Fetch, SendParse, ParsePosts, ParseReactions, SendPosts, PostStep,
                ReadPosts, SavePosts, SendReactions, ReadReactions, SaveReactions, SendTail,
                TailStep, GenerateHash, TimeMetadata, Notify, JobFails
  <2> QED
    BY <1>2, <2>1, <2>2, <2>3, <2>4, <2>5 DEF WorkerStep, DownloadStep, ParseStep, ReactionStep
<1>3. CASE WorkerCrash \/ ApiCrash \/ UNCHANGED vars
  BY <1>3 DEF WorkerCrash, ApiCrash, vars
<1> QED
  BY <1>1, <1>2, <1>3 DEF Next

(***************************************************************************)
(* The pipeline implements the safety part of the lifecycle: whatever fails, *)
(* an archive only moves forward, and never out of processed or invalid,     *)
(* until its work is started again.                                         *)
(***************************************************************************)
THEOREM LifecycleKept == Spec => Lifecycle!Spec
<1>1. Spec => [](Typed /\ AllAlone)
  BY SoleResponsible
<1>2. Init => Lifecycle!Init
  BY DEF Init, Lifecycle!Init
<1>3. Typed /\ AllAlone /\ [Next]_vars => [Lifecycle!Next]_(Lifecycle!vars)
  BY LifecycleStep
<1> QED
  BY <1>1, <1>2, <1>3, PTL DEF Spec, Lifecycle!Spec
-----------------------------------------------------------------------------
\* The work on an archive is over: it is finished, or left behind.
Rests(a) ==
    /\ Free(a) /\ acking[a] = 0 /\ creating[a] = "no"
    /\ status[a] \in Finished \cup Unfinished

\* An archive of the account is at rest, or was until its work was started again.
Settled(u) == \E a \in Archive : Owner[a] = u /\ (Rests(a) \/ a \in restarted)

\* The worker has sent the notification of the account, and has only the
\* status of its archive left to write.
Finishing(w, u) ==
    /\ job[w].name = "analyze_reactions" /\ pc[w] \in {"mark_processed", "error"}
    /\ Owner[job[w].on] = u

Notification == {"notification_finish_parsing"}
Announces(u) ==
    /\ QueuedFor(Notification, u) # {} => Settled(u) \/ \E w \in Worker : Finishing(w, u)
    /\ RunningFor(Notification, u) # {} => Settled(u)
    /\ u \in notified => Settled(u)
AllAnnounces == \A u \in Account : Announces(u)

(***************************************************************************)
(* No request names an archive for the chain unless it starts its work again. *)
(***************************************************************************)
LEMMA RestartedStay == [Next]_vars => restarted \subseteq restarted'
<1> SUFFICES ASSUME [Next]_vars PROVE restarted \subseteq restarted'
  OBVIOUS
<1> USE DEF rowVars, cloudVars, apiVars, workerVars, dataVars
<1>1. ASSUME NEW a \in Archive, ClientStep(a) \/ AdminStep(a) \/ HandlerStep(a)
      PROVE  restarted \subseteq restarted'
  BY <1>1 DEF ClientStep, AdminStep, HandlerStep, AddFBArchive, ClientPut, AckUpdate, AdminSubmit,
         AdminGenerateHash, AdminForceParse, AdminRequest, MakeLink, UrlSubmit, UrlEnqueue,
         AckEnqueue, Restart
<1>2. ASSUME NEW w \in Worker, WorkerStep(w) \/ JobFails(w) PROVE UNCHANGED restarted
  BY <1>2 DEF WorkerStep, DownloadStep, ParseStep, PostStep, ReactionStep, TailStep, Start, Fetch,
         MarkStored, SendParse, SendPosts, SendReactions, SendTail, MarkProcessing, ParsePosts,
         ParseReactions, ReadPosts, SavePosts, ReadReactions, SaveReactions, MarkProcessed,
         GenerateHash, TimeMetadata, Notify, JobErrorHandler, JobFails
<1> QED
  BY <1>1, <1>2 DEF Next, WorkerCrash, ApiCrash, vars

(***************************************************************************)
(* An archive at rest is woken by nobody but who starts its work again: no    *)
(* handler or task names it.                                                *)
(***************************************************************************)
LEMMA RestsOn ==
    ASSUME Typed, AllAlone, [Next]_vars, NEW a \in Archive, Rests(a), a \notin restarted'
    PROVE  Rests(a)'
<1> USE DEF rowVars, cloudVars, apiVars, workerVars, dataVars
<1>a. /\ Clear(queue, a) /\ \A w \in Worker : ~InChain(job[w], a)
      /\ acking[a] = 0 /\ creating[a] = "no"
      /\ status[a] \in Finished \cup Unfinished
  BY DEF Rests, Free
<1>b. status[a] \notin {"none", "created"}
  BY <1>a DEF Finished, Unfinished
<1>w. \A w \in Worker : pc[w] \in ChainSteps => job[w].name \in ChainNames /\ job[w].on # a
  BY <1>a, StepTask DEF Typed, InChain
<1>s. ChainSteps = {"fetch", "mark_stored", "send_parse", "mark_processing", "parse_posts",
                    "parse_reactions", "send_posts", "read_posts", "save_posts",
                    "send_reactions", "read_reactions", "save_reactions", "send_tail",
                    "mark_processed", "error"}
  BY DEF ChainSteps, Steps, FailingSteps
<1>1. ASSUME NEW b \in Archive, ClientStep(b) \/ AdminStep(b) \/ HandlerStep(b)
      PROVE  UNCHANGED <<status[a], acking[a], creating[a]>>
  <2>1. CASE AddFBArchive(b)
    BY <1>b, <2>1 DEF AddFBArchive, Typed, TypeOK
  <2>2. CASE AckUpdate(b)
    <3>1. b # a
      BY <1>a, <2>2 DEF AckUpdate, Begun, Restart
    <3> QED
      BY <2>2, <3>1 DEF AckUpdate, UpdateStatus, Typed, TypeOK
  <2>3. CASE MakeLink(b) \/ UrlSubmit(b) \/ UrlEnqueue(b) \/ AckEnqueue(b)
    <3>1. b # a
      BY <1>a, <2>3 DEF MakeLink, UrlSubmit, UrlEnqueue, AckEnqueue, Typed, TypeOK
    <3> QED
      BY <2>3, <3>1 DEF MakeLink, UrlSubmit, UrlEnqueue, AckEnqueue, InvalidFBArchive,
                        UpdateStatus, Typed, TypeOK
  <2>4. CASE ClientPut(b) \/ AdminStep(b)
    BY <2>4 DEF ClientPut, AdminStep, AdminSubmit, AdminGenerateHash, AdminForceParse, AdminRequest
  <2> QED
    BY <1>1, <2>1, <2>2, <2>3, <2>4 DEF ClientStep, HandlerStep
<1>2. ASSUME NEW w \in Worker, WorkerStep(w) \/ JobFails(w)
      PROVE  UNCHANGED <<status[a], acking[a], creating[a]>>
  <2>1. CASE MarkStored(w) \/ MarkProcessing(w) \/ MarkProcessed(w) \/ JobErrorHandler(w)
    <3>1. job[w].on # a
      BY <1>w, <1>s, <2>1 DEF MarkStored, MarkProcessing, MarkProcessed, JobErrorHandler
    <3> QED
      BY <2>1, <3>1 DEF MarkStored, MarkProcessing, MarkProcessed, JobErrorHandler,
                        InvalidFBArchive, UpdateStatus, Typed, TypeOK
  <2>2. CASE UNCHANGED <<status, apiVars>>
    BY <2>2
  <2> QED
    BY <1>2, <2>1, <2>2
    DEF WorkerStep, DownloadStep, ParseStep, PostStep, ReactionStep, TailStep, Start, Fetch,
        SendParse, ParsePosts, ParseReactions, SendPosts, ReadPosts, SavePosts, SendReactions,
        ReadReactions, SaveReactions, SendTail, GenerateHash, TimeMetadata, Notify, JobFails
<1>3. status'[a] = status[a] /\ acking'[a] = 0 /\ creating'[a] = "no"
  BY <1>1, <1>2, <1>a DEF Next, WorkerCrash, ApiCrash, vars
<1>4. \A t : Was(t) => ~InChain(t, a)
  BY <1>a DEF Was, Clear
<1>5. ASSUME NEW t, Sent(t) PROVE ~InChain(t, a)
  <2>1. ASSUME NEW b \in Archive, AdminForceParse(b) PROVE b # a
    BY <2>1 DEF AdminForceParse, Restart
  <2>2. ASSUME NEW b \in Archive, AckEnqueue(b) \/ UrlEnqueue(b) PROVE b # a
    BY <1>a, <2>2 DEF AckEnqueue, UrlEnqueue
  <2>3. ASSUME NEW w \in Worker, SendParse(w) \/ SendPosts(w) \/ SendReactions(w)
        PROVE  job[w].on # a
    BY <1>w, <1>s, <2>3 DEF SendParse, SendPosts, SendReactions
  <2> QED
    BY <1>5, <2>1, <2>2, <2>3, OutsideChain DEF Sent, AccountNames, ChainNames
<1>6. Clear(queue', a)
  BY <1>4, <1>5, TaskOrigin DEF Clear
<1>7. \A w \in Worker : ~InChain(job'[w], a)
  BY <1>a, <1>4, TaskOrigin, OutsideChain
<1> QED
  BY <1>3, <1>6, <1>7, <1>a DEF Rests, Free

(***************************************************************************)
(* The job that sent the notification writes the last status of its archive, *)
(* as processed or invalid, or leaves the archive behind.                   *)
(***************************************************************************)
LEMMA FinishingEnds ==
    ASSUME Typed, AllAlone, OneWorker, [Next]_vars, NEW u \in Account,
           NEW w \in Worker, Finishing(w, u)
    PROVE  Finishing(w, u)' \/ Settled(u)'
<1> USE DEF rowVars, cloudVars, apiVars, workerVars, dataVars
<1>1. pc[w] \in ChainSteps /\ pc[w] # "idle"
  BY DEF Finishing, ChainSteps, Steps, FailingSteps
<1>a. PICK a \in Archive : a = job[w].on
  BY <1>1, StepTask DEF Typed
<1>2. a \in Archive /\ InChain(job[w], a) /\ Owner[a] = u
  BY <1>1, <1>a, StepTask DEF Typed, InChain, Finishing
<1>0. CASE a \in restarted
  BY <1>0, <1>2, RestartedStay DEF Settled
<1> SUFFICES ASSUME a \notin restarted PROVE Finishing(w, u)' \/ Settled(u)'
  BY <1>0
<1>b. Alone(a)
  BY <1>2 DEF AllAlone
<1>3. /\ acking[a] = 0 /\ creating[a] = "no" /\ Clear(queue, a)
      /\ status[a] \in Unfinished /\ status[a] # "none"
  BY <1>2, <1>b, Holder DEF Unfinished
<1>4. ASSUME UNCHANGED <<queue, creating, acking>>, job'[w] = NoTask,
             status'[a] \in Finished \cup Unfinished
      PROVE  Settled(u)'
  <2>1. \A v \in Worker : ~InChain(job'[v], a)
    BY <1>4, OutsideChain DEF OneWorker
  <2>2. Rests(a)'
    BY <1>3, <1>4, <2>1 DEF Rests, Free
  <2> QED
    BY <1>2, <2>2 DEF Settled
<1>5. ASSUME UNCHANGED <<job, pc>> PROVE Finishing(w, u)'
  BY <1>5 DEF Finishing
<1>6. CASE MarkProcessed(w) \/ JobErrorHandler(w)
  <2>1. UNCHANGED <<queue, creating, acking>> /\ job'[w] = NoTask
    BY <1>6 DEF MarkProcessed, JobErrorHandler, Finish, Typed, TypeOK
  <2>2. status'[a] \in {"processed", "invalid", status[a]}
    BY <1>a, <1>6 DEF MarkProcessed, JobErrorHandler, InvalidFBArchive, UpdateStatus, Typed, TypeOK
  <2> QED
    BY <1>3, <1>4, <2>1, <2>2 DEF Finished
<1>7. CASE JobFails(w)
  BY <1>7 DEF JobFails, Goto, Finishing, Typed, TypeOK
<1>8. CASE WorkerCrash
  BY <1>3, <1>4, <1>8 DEF WorkerCrash
<1>9. ASSUME NEW b \in Archive, ClientStep(b) \/ AdminStep(b) \/ HandlerStep(b)
      PROVE  UNCHANGED <<job, pc>>
  BY <1>9 DEF ClientStep, AdminStep, HandlerStep, AddFBArchive, ClientPut, AckUpdate, AdminSubmit,
         AdminGenerateHash, AdminForceParse, AdminRequest, MakeLink, UrlSubmit, UrlEnqueue, AckEnqueue
<1>10. ASSUME WorkerStep(w) PROVE MarkProcessed(w) \/ JobErrorHandler(w)
  BY <1>10
  DEF Finishing, WorkerStep, DownloadStep, ParseStep, PostStep, ReactionStep, TailStep, Start, Fetch,
      MarkStored, SendParse, MarkProcessing, ParsePosts, ParseReactions, SendPosts, ReadPosts,
      SavePosts, SendReactions, ReadReactions, SaveReactions, SendTail, GenerateHash,
      TimeMetadata, Notify
<1>11. CASE ApiCrash \/ UNCHANGED vars
  BY <1>5, <1>11 DEF ApiCrash, vars
<1> QED
  BY <1>5, <1>6, <1>7, <1>8, <1>9, <1>10, <1>11 DEF Next, OneWorker

LEMMA AnnouncesStep ==
    ASSUME OneWorker, Typed, AllAlone, AllAnnounces, [Next]_vars
    PROVE  AllAnnounces'
<1> SUFFICES ASSUME NEW u \in Account PROVE Announces(u)'
  BY DEF AllAnnounces
<1> USE DEF rowVars, cloudVars, apiVars, workerVars, dataVars
<1>a. Announces(u)
  BY DEF AllAnnounces
<1>1. Settled(u) => Settled(u)'
  BY RestsOn, RestartedStay DEF Settled
<1>2. ASSUME QueuedFor(Notification, u) # {}
      PROVE  Settled(u)' \/ \E w \in Worker : Finishing(w, u)'
  BY <1>a, <1>1, <1>2, FinishingEnds DEF Announces
<1>3. ASSUME NEW i \in DOMAIN queue', queue'[i].name \in Notification, queue'[i].on = u
      PROVE  Settled(u)' \/ \E w \in Worker : Finishing(w, u)'
  <2>1. CASE Was(queue'[i])
    BY <1>2, <1>3, <2>1 DEF Was, QueuedFor
  <2>2. CASE Sent(queue'[i])
    <3>1. PICK w \in Worker :
              SendTail(w) /\ queue'[i] = AccountTask("notification_finish_parsing", Owner[job[w].on])
      BY <1>3, <2>2 DEF Sent, ArchiveTask, AccountTask, Notification
    <3>2. job[w].name = "analyze_reactions"
      BY <3>1 DEF SendTail, Typed, JobAtStep, StepsOf
    <3>3. Finishing(w, u)'
      BY <1>3, <3>1, <3>2 DEF SendTail, Goto, AccountTask, Finishing, Typed, TypeOK
    <3> QED
      BY <3>3
  <2> QED
    BY <2>1, <2>2, TaskOrigin
<1>4. ASSUME NEW w \in Worker, job'[w].name \in Notification, job'[w].on = u
      PROVE  Settled(u)'
  <2>1. CASE job'[w] = job[w]
    BY <1>a, <1>1, <1>4, <2>1 DEF Announces, RunningFor
  <2>2. CASE job'[w] = NoTask
    BY <1>4, <2>2 DEF NoTask, Notification
  <2>3. CASE Start(w) /\ Was(job'[w])
    <3>1. QueuedFor(Notification, u) # {}
      BY <1>4, <2>3 DEF Was, QueuedFor
    <3>2. ~Finishing(w, u)
      BY <2>3 DEF Start, Finishing
    <3> QED
      BY <1>a, <1>1, <3>1, <3>2 DEF Announces, OneWorker
  <2> QED
    BY <2>1, <2>2, <2>3, TaskOrigin
<1>5. u \in notified' => Settled(u)'
  <2>1. CASE u \in notified
    BY <1>a, <1>1, <2>1 DEF Announces
  <2>2. ASSUME NEW w \in Worker, Notify(w), u \in notified', u \notin notified PROVE Settled(u)'
    <3>1. job[w].on = u /\ job[w].name = "notification_finish_parsing"
      BY <2>2 DEF Notify, Typed, JobAtStep, StepsOf
    <3> QED
      BY <1>a, <1>1, <3>1 DEF Announces, RunningFor, Notification
  <2>3. ASSUME \A w \in Worker : ~Notify(w) PROVE UNCHANGED notified
    <3>1. ASSUME NEW b \in Archive, ClientStep(b) \/ AdminStep(b) \/ HandlerStep(b)
          PROVE  UNCHANGED notified
      BY <3>1 DEF ClientStep, AdminStep, HandlerStep, AddFBArchive, ClientPut, AckUpdate, AdminSubmit,
         AdminGenerateHash, AdminForceParse, AdminRequest, MakeLink, UrlSubmit, UrlEnqueue, AckEnqueue
    <3>2. ASSUME NEW w \in Worker, WorkerStep(w) \/ JobFails(w) PROVE UNCHANGED notified
      BY <2>3, <3>2
      DEF WorkerStep, DownloadStep, ParseStep, PostStep, ReactionStep, TailStep, Start, Fetch,
      MarkStored, SendParse, MarkProcessing, ParsePosts, ParseReactions, SendPosts, ReadPosts,
      SavePosts, SendReactions, ReadReactions, SaveReactions, SendTail, MarkProcessed, GenerateHash,
      TimeMetadata, JobFails, JobErrorHandler
    <3> QED
      BY <3>1, <3>2 DEF Next, WorkerCrash, ApiCrash, vars
  <2> QED
    BY <2>1, <2>2, <2>3
<1>6. QueuedFor(Notification, u)' # {} => Settled(u)' \/ \E w \in Worker : Finishing(w, u)'
  BY <1>3 DEF QueuedFor
<1>7. RunningFor(Notification, u)' # {} => Settled(u)'
  BY <1>4 DEF RunningFor
<1> QED
  BY <1>5, <1>6, <1>7 DEF Announces

(***************************************************************************)
(* With one worker the push "your archive is available" reaches an account   *)
(* only when the work on an archive of it is over: the notification is sent  *)
(* before the last status is written, and waits in the queue behind that.    *)
(***************************************************************************)
THEOREM PushAfterWork == OneWorker => (Spec => []NotifiedWhenDone)
<1> SUFFICES ASSUME OneWorker PROVE Spec => []NotifiedWhenDone
  OBVIOUS
<1>1. Spec => [](Typed /\ AllAlone)
  BY SoleResponsible
<1>2. Init => AllAnnounces
  BY DEF Init, AllAnnounces, Announces, QueuedFor, RunningFor, Notification, NoTask
<1>3. Typed /\ AllAlone /\ AllAnnounces /\ [Next]_vars => AllAnnounces'
  BY AnnouncesStep
<1>4. Typed /\ AllAnnounces => NotifiedWhenDone
  <2> SUFFICES ASSUME Typed, AllAnnounces, NEW u \in notified
               PROVE  \E a \in Archive :
                          /\ Owner[a] = u
                          /\ \/ status[a] \in Finished
                             \/ status[a] \in Unfinished /\ ~InFlight(a)
                             \/ a \in restarted
    BY DEF NotifiedWhenDone
  <2>1. u \in Account /\ Settled(u)
    BY DEF AllAnnounces, Announces, Typed, TypeOK
  <2>2. PICK a \in Archive : Owner[a] = u /\ (Rests(a) \/ a \in restarted)
    BY <2>1 DEF Settled
  <2>3. Rests(a) => ~InFlight(a)
    BY <2>2 DEF Rests, Free, Clear, InFlight, InChain, TaskFor, QueuedFor, RunningFor
  <2> QED
    BY <2>2, <2>3 DEF Rests
<1> QED
  BY <1>1, <1>2, <1>3, <1>4, PTL DEF Spec

-----------------------------------------------------------------------------
(***************************************************************************)
(* The statistics of a processed archive.  They are counted while its chain  *)
(* runs, and no later analysis of the account counts less.                   *)
(***************************************************************************)
PostsDone(a) ==
    \/ TaskFor({"analyze_reactions"}, a)
    \/ \E w \in Worker : pc[w] = "send_reactions" /\ job[w].on = a
AllDone(a) ==
    \/ status[a] = "processed"
    \/ \E w \in Worker : pc[w] \in {"send_tail", "mark_processed"} /\ job[w].on = a

\* The chain of archive a has still to count an item of it: an item it brings
\* later, or has brought and not counted.
Pending(a, item) ==
    \/ a \in restarted
    \/ ~AllDone(a) /\ (item \in Post => ~PostsDone(a))

\* A row that is not counted is pending with an archive that brings it.
Available(u) ==
    \A item \in rows[u] \ stat[u] :
        \E a \in Archive : Owner[a] = u /\ item \in Content[a] /\ Pending(a, item)
AllAvailable == (\A w \in Worker : UpToDate(w)) /\ \A u \in Account : Available(u)

(***************************************************************************)
(* Rows that are counted stay counted: an analysis counts all the rows that  *)
(* are there.                                                               *)
(***************************************************************************)
LEMMA CountKept ==
    ASSUME Typed, [Next]_vars, \A w \in Worker : UpToDate(w), NEW u \in Account,
           NEW X, X \subseteq rows[u], X \subseteq stat[u]
    PROVE  X \subseteq stat'[u]
<1>1. ASSUME NEW w \in Worker, SavePosts(w), Owner[job[w].on] = u PROVE X \subseteq stat'[u]
  <2>1. snap[w] = rows[u] \cap Post
    BY <1>1 DEF SavePosts, UpToDate
  <2>2. stat'[u] \in {stat[u], (stat[u] \ Post) \cup snap[w]}
    BY <1>1 DEF SavePosts, CountInto, Typed, TypeOK
  <2> QED
    BY <2>1, <2>2
<1>2. ASSUME NEW w \in Worker, SaveReactions(w), Owner[job[w].on] = u PROVE X \subseteq stat'[u]
  <2>1. snap[w] = rows[u] \cap Reaction
    BY <1>2 DEF SaveReactions, UpToDate
  <2>2. stat'[u] \in {stat[u], (stat[u] \ Reaction) \cup snap[w]}
    BY <1>2 DEF SaveReactions, CountInto, Typed, TypeOK
  <2> QED
    BY <2>1, <2>2
<1> QED
  BY <1>1, <1>2, StatSaved

(***************************************************************************)
(* A new row is brought by a parser of an archive that contains it.         *)
(***************************************************************************)
LEMMA NewRow ==
    ASSUME Typed, [Next]_vars, NEW u \in Account, NEW item \in rows'[u], item \notin rows[u]
    PROVE  \E w \in Worker :
               /\ ParsePosts(w) \/ ParseReactions(w)
               /\ job[w].on \in Archive /\ Owner[job[w].on] = u /\ item \in Content[job[w].on]
<1> USE DEF rowVars, cloudVars, apiVars, workerVars, dataVars
<1>1. ASSUME NEW w \in Worker, ParsePosts(w) \/ ParseReactions(w)
      PROVE  job[w].on \in Archive /\ Owner[job[w].on] = u /\ item \in Content[job[w].on]
  <2>1. PICK b \in Archive : b = job[w].on
    BY <1>1, StepTask DEF ParsePosts, ParseReactions, Typed, ChainSteps, Steps, FailingSteps
  <2>2. PICK X \in SUBSET Content[b] : rows' = [rows EXCEPT ![Owner[b]] = @ \cup X]
    BY <1>1, <2>1 DEF ParsePosts, ParseReactions, InsertRows
  <2> QED
    BY <2>1, <2>2, OwnerAssumption DEF Typed, TypeOK
<1>2. ASSUME NEW b \in Archive, ClientStep(b) \/ AdminStep(b) \/ HandlerStep(b) PROVE UNCHANGED rows
  BY <1>2 DEF ClientStep, AdminStep, HandlerStep, AddFBArchive, ClientPut, AckUpdate, AdminSubmit,
         AdminGenerateHash, AdminForceParse, AdminRequest, MakeLink, UrlSubmit, UrlEnqueue, AckEnqueue
<1>3. ASSUME NEW w \in Worker, WorkerStep(w) \/ JobFails(w), ~ParsePosts(w), ~ParseReactions(w)
      PROVE  UNCHANGED rows
  BY <1>3 DEF WorkerStep, DownloadStep, ParseStep, PostStep, ReactionStep, TailStep, Start, Fetch,
        MarkStored, SendParse, SendPosts, SendReactions, SendTail, MarkProcessing, ReadPosts,
        SavePosts, ReadReactions, SaveReactions, MarkProcessed, GenerateHash,
        TimeMetadata, Notify, JobErrorHandler, JobFails
<1> QED
  BY <1>1, <1>2, <1>3 DEF Next, WorkerCrash, ApiCrash, vars

(***************************************************************************)
(* How an archive's posts, and then all its items, come to be counted.      *)
(***************************************************************************)
LEMMA PostsDoneOrigin ==
    ASSUME Typed, [Next]_vars, NEW a \in Archive, PostsDone(a)'
    PROVE  PostsDone(a) \/ \E w \in Worker : SavePosts(w) /\ job[w].on = a
<1> USE DEF rowVars, cloudVars, apiVars, workerVars, dataVars
<1>1. ASSUME NEW t, Was(t), t.name = "analyze_reactions", t.on = a PROVE PostsDone(a)
  BY <1>1 DEF Was, PostsDone, TaskFor, QueuedFor
<1>2. ASSUME NEW t, Sent(t), t.name = "analyze_reactions", t.on = a PROVE PostsDone(a)
  <2>1. \A n, x : ArchiveTask(n, x) = [name |-> n, on |-> x] /\ ArchiveTask(n, x).name = n
                  /\ ArchiveTask(n, x).on = x /\ AccountTask(n, x).name = n
    BY DEF ArchiveTask, AccountTask
  <2>2. PICK w \in Worker : SendReactions(w) /\ t = ArchiveTask("analyze_reactions", job[w].on)
    BY <1>2, <2>1 DEF Sent
  <2> QED
    BY <1>2, <2>1, <2>2 DEF SendReactions, PostsDone
<1>3. CASE QueuedFor({"analyze_reactions"}, a)' # {}
  BY <1>1, <1>2, <1>3, TaskOrigin DEF QueuedFor
<1>4. ASSUME NEW w \in Worker, job'[w].name = "analyze_reactions", job'[w].on = a
      PROVE  PostsDone(a)
  <2>1. job'[w] # NoTask
    BY <1>4 DEF NoTask
  <2> QED
    BY <1>4, <2>1, <1>1, TaskOrigin DEF PostsDone, TaskFor, RunningFor
<1>5. ASSUME NEW w \in Worker, pc'[w] = "send_reactions", job'[w].on = a
      PROVE  PostsDone(a) \/ (SavePosts(w) /\ job[w].on = a)
  <2>1. CASE UNCHANGED <<job[w], pc[w]>>
    BY <1>5, <2>1 DEF PostsDone
  <2>2. CASE SavePosts(w)
    BY <1>5, <2>2 DEF SavePosts, Goto
  <2>3. CASE Start(w) \/ WorkerCrash
    BY <1>5, <2>3 DEF Start, WorkerCrash, FirstStep, Registered, ArchiveNames, AccountNames,
                      ChainNames, Typed, TypeOK
  <2>4. CASE (WorkerStep(w) \/ JobFails(w)) /\ ~SavePosts(w) /\ ~Start(w)
    BY <1>5, <2>4 DEF Finish, Goto, Typed, TypeOK,
        WorkerStep, DownloadStep, ParseStep, PostStep, ReactionStep, TailStep, Fetch,
        MarkStored, SendParse, SendPosts, SendReactions, SendTail, MarkProcessing, ParsePosts,
        ParseReactions, ReadPosts, ReadReactions, SaveReactions, MarkProcessed,
        GenerateHash, TimeMetadata, Notify, JobErrorHandler, JobFails
  <2> QED
    BY <2>1, <2>2, <2>3, <2>4, OwnStep
<1> QED
  BY <1>3, <1>4, <1>5 DEF PostsDone, TaskFor, RunningFor

LEMMA AllDoneOrigin ==
    ASSUME Typed, [Next]_vars, NEW a \in Archive, AllDone(a)'
    PROVE  AllDone(a) \/ \E w \in Worker : SaveReactions(w) /\ job[w].on = a
<1> USE DEF rowVars, cloudVars, apiVars, workerVars, dataVars
<1>1. ASSUME NEW w \in Worker, pc'[w] \in {"send_tail", "mark_processed"}, job'[w].on = a
      PROVE  AllDone(a) \/ (SaveReactions(w) /\ job[w].on = a)
  <2>1. CASE UNCHANGED <<job[w], pc[w]>>
    BY <1>1, <2>1 DEF AllDone
  <2>2. CASE SaveReactions(w) \/ SendTail(w)
    BY <1>1, <2>2 DEF SaveReactions, SendTail, Goto, AllDone
  <2>3. CASE Start(w) \/ WorkerCrash
    BY <1>1, <2>3 DEF Start, WorkerCrash, FirstStep, Registered, ArchiveNames, AccountNames,
                      ChainNames, Typed, TypeOK
  <2>4. CASE (WorkerStep(w) \/ JobFails(w)) /\ ~SaveReactions(w) /\ ~SendTail(w) /\ ~Start(w)
    BY <1>1, <2>4 DEF Finish, Goto, Typed, TypeOK,
        WorkerStep, DownloadStep, ParseStep, PostStep, ReactionStep, TailStep, Fetch,
        MarkStored, SendParse, SendPosts, SendReactions, MarkProcessing, ParsePosts,
        ParseReactions, ReadPosts, SavePosts, ReadReactions, MarkProcessed,
        GenerateHash, TimeMetadata, Notify, JobErrorHandler, JobFails
  <2> QED
    BY <2>1, <2>2, <2>3, <2>4, OwnStep
<1>2. ASSUME status'[a] = "processed" PROVE AllDone(a)
  <2>1. ASSUME NEW b \in Archive, ClientStep(b) \/ AdminStep(b) \/ HandlerStep(b)
        PROVE  status'[a] \in {status[a], "created", "submitted", "invalid"}
    BY <2>1 DEF ClientStep, AdminStep, HandlerStep, AddFBArchive, ClientPut, AckUpdate, AdminSubmit,
         AdminGenerateHash, AdminForceParse, AdminRequest, MakeLink, UrlSubmit, UrlEnqueue, AckEnqueue,
         InvalidFBArchive, UpdateStatus, Typed, TypeOK
  <2>2. ASSUME NEW w \in Worker, MarkProcessed(w) PROVE status'[a] = status[a] \/ job[w].on = a
    BY <2>2 DEF MarkProcessed, UpdateStatus, Typed, TypeOK
  <2>3. ASSUME NEW w \in Worker, MarkStored(w) \/ MarkProcessing(w) \/ JobErrorHandler(w)
        PROVE  status'[a] \in {status[a], "submitted", "processing", "invalid"}
    BY <2>3 DEF MarkStored, MarkProcessing, JobErrorHandler, InvalidFBArchive, UpdateStatus, Typed, TypeOK
  <2>4. ASSUME NEW w \in Worker, WorkerStep(w) \/ JobFails(w),
               ~MarkStored(w), ~MarkProcessing(w), ~JobErrorHandler(w), ~MarkProcessed(w)
        PROVE  UNCHANGED status
    BY <2>4 DEF
        WorkerStep, DownloadStep, ParseStep, PostStep, ReactionStep, TailStep, Start, Fetch,
        SendParse, SendPosts, SendReactions, SendTail, ParsePosts, ParseReactions, ReadPosts,
        SavePosts, ReadReactions, SaveReactions, GenerateHash, TimeMetadata, Notify, JobFails
  <2>5. status[a] = "processed" \/ \E w \in Worker : MarkProcessed(w) /\ job[w].on = a
    BY <1>2, <2>1, <2>2, <2>3, <2>4 DEF Next, WorkerCrash, ApiCrash, vars
  <2> QED
    BY <2>5 DEF MarkProcessed, AllDone
<1> QED
  BY <1>1, <1>2 DEF AllDone

(***************************************************************************)
(* The parser of an archive has its analysis still before it.               *)
(***************************************************************************)
LEMMA ParserPending ==
    ASSUME OneWorker, Typed, AllAlone, [Next]_vars, NEW w \in Worker,
           ParsePosts(w) \/ ParseReactions(w), NEW a \in Archive, job[w].on = a, NEW item
    PROVE  Pending(a, item)'
<1> USE DEF rowVars, cloudVars, apiVars, workerVars, dataVars
<1>1. pc[w] \in ChainSteps /\ job[w].name = "parse_archive" /\ job[w].on \in Archive
  BY StepTask DEF ParsePosts, ParseReactions, ChainSteps, Steps, FailingSteps, Typed, JobAtStep, StepsOf
<1>3. CASE a \in restarted
  BY <1>3 DEF ParsePosts, ParseReactions, Pending
<1>4. CASE a \notin restarted
  <2>1. Clear(queue, a) /\ status[a] \in Unfinished
    BY <1>1, <1>4, Holder DEF InChain, ChainNames, AllAlone
  <2>2. /\ UNCHANGED <<queue, job, status>>
        /\ pc'[w] \notin {"send_reactions", "send_tail", "mark_processed"}
    BY DEF ParsePosts, ParseReactions, Goto, Typed, TypeOK
  <2>3. ~PostsDone(a)'
    BY <1>1, <2>1, <2>2
    DEF OneWorker, PostsDone, TaskFor, QueuedFor, RunningFor, Clear, InChain, ChainNames
  <2>4. ~AllDone(a)'
    BY <2>1, <2>2 DEF OneWorker, AllDone, Unfinished
  <2> QED
    BY <2>3, <2>4 DEF Pending
<1> QED
  BY <1>3, <1>4

(***************************************************************************)
(* An analysis that is over for an archive has counted every row of its kind. *)
(***************************************************************************)
LEMMA PendingEnds ==
    ASSUME Faults \cap {"query", "dynamo"} = {}, Typed, [Next]_vars, \A w \in Worker : UpToDate(w),
           NEW a \in Archive, NEW item \in Content[a], item \in rows[Owner[a]],
           Pending(a, item), ~Pending(a, item)'
    PROVE  item \in stat'[Owner[a]]
<1> DEFINE u == Owner[a]
<1>u. u \in Account /\ item \in Post \cup Reaction
  BY OwnerAssumption, ContentAssumption
<1>0. ~AllDone(a) /\ (item \in Post => ~PostsDone(a))
  BY RestartedStay DEF Pending
<1>1. ASSUME item \in Post, PostsDone(a)' PROVE item \in stat'[u]
  <2>1. PICK w \in Worker : SavePosts(w) /\ job[w].on = a
    BY <1>0, <1>1, PostsDoneOrigin
  <2>2. snap[w] = rows[u] \cap Post
    BY <2>1 DEF SavePosts, UpToDate
  <2>3. stat'[u] = IF snap[w] = {} THEN stat[u] ELSE (stat[u] \ Post) \cup snap[w]
    BY <1>u, <2>1 DEF SavePosts, CountInto, Typed, TypeOK
  <2> QED
    BY <1>1, <2>2, <2>3
<1>2. ASSUME AllDone(a)' PROVE item \in stat'[u]
  <2>1. PICK w \in Worker : SaveReactions(w) /\ job[w].on = a
    BY <1>0, <1>2, AllDoneOrigin
  <2>2. snap[w] = rows[u] \cap Reaction
    BY <2>1 DEF SaveReactions, UpToDate
  <2>3. stat'[u] = IF snap[w] = {} THEN stat[u] ELSE (stat[u] \ Reaction) \cup snap[w]
    BY <1>u, <2>1 DEF SaveReactions, CountInto, Typed, TypeOK
  <2>4. job[w].name = "analyze_reactions"
    BY <2>1 DEF SaveReactions, Typed, JobAtStep, StepsOf
  <2>5. PostsDone(a)
    BY <2>1, <2>4 DEF PostsDone, TaskFor, RunningFor
  <2>6. item \in Reaction
    BY <1>0, <1>u, <2>5
  <2> QED
    BY <2>2, <2>3, <2>6
<1> QED
  BY <1>0, <1>1, <1>2 DEF Pending

LEMMA AvailableStep ==
    ASSUME OneWorker, Faults \cap {"query", "dynamo"} = {},
           Typed, AllAlone, AllAvailable, [Next]_vars
    PROVE  AllAvailable'
<1> SUFFICES ASSUME NEW u \in Account, NEW item \in rows'[u], item \notin stat'[u]
             PROVE  \E a \in Archive : Owner[a] = u /\ item \in Content[a] /\ Pending(a, item)'
  BY UpToDateStep DEF AllAvailable, Available
<1>a. Available(u) /\ \A w \in Worker : UpToDate(w)
  BY DEF AllAvailable
<1>1. CASE item \in rows[u]
  <2>1. item \notin stat[u]
    BY <1>a, <1>1, CountKept
  <2>2. PICK a \in Archive : Owner[a] = u /\ item \in Content[a] /\ Pending(a, item)
    BY <1>a, <1>1, <2>1 DEF Available
  <2>3. Pending(a, item)'
    BY <1>1, <1>a, <2>2, PendingEnds
  <2> QED
    BY <2>2, <2>3
<1>2. CASE item \notin rows[u]
  <2>1. PICK w \in Worker :
            /\ ParsePosts(w) \/ ParseReactions(w)
            /\ job[w].on \in Archive /\ Owner[job[w].on] = u /\ item \in Content[job[w].on]
    BY <1>2, NewRow
  <2> QED
    BY <2>1, ParserPending
<1> QED
  BY <1>1, <1>2

(***************************************************************************)
(* In a process with one worker, and when statistics are written, a row that *)
(* the statistics do not count belongs to an archive that is not processed    *)
(* or whose work was started again: whatever the archives of an account       *)
(* share.                                                                  *)
(***************************************************************************)
THEOREM ProcessedIsCounted ==
    OneWorker /\ Faults \cap {"query", "dynamo"} = {} => (Spec => []StatsAvailable)
<1> SUFFICES ASSUME OneWorker, Faults \cap {"query", "dynamo"} = {}
             PROVE  Spec => []StatsAvailable
  OBVIOUS
<1>1. Spec => [](Typed /\ AllAlone)
  BY SoleResponsible
<1>2. Init => AllAvailable
  BY DEF Init, AllAvailable, Available, UpToDate
<1>3. Typed /\ AllAlone /\ AllAvailable /\ [Next]_vars => AllAvailable'
  BY AvailableStep
<1>4. AllAvailable => StatsAvailable
  BY DEF AllAvailable, Available, Pending, AllDone, StatsAvailable
<1> QED
  BY <1>1, <1>2, <1>3, <1>4, PTL DEF Spec
=============================================================================
