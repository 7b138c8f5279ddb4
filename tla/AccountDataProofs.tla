--------------------------- MODULE AccountDataProofs ---------------------------
(***************************************************************************)
(* The account number, for all workers, archives, rows and requests.          *)
(*                                                                         *)
(* A deletion is on the way: only accountDelete marks an account, and goes on    *)
(* to send the task; the task stays in the queue until a worker takes it; of     *)
(* all steps that end a worker's job only the last of delete_user_data and a     *)
(* crash can end a deletion, since a worker is always at a step of the job of     *)
(* its task (Control).                                                      *)
(*                                                                         *)
(* A deletion leaves nothing: a worker has emptied the stores it has passed       *)
(* (Emptied), and whoever fills one of them again is the exception.             *)
(*                                                                         *)
(* The document is exact: one updater at a time (SoleUpdater) writes back what   *)
(* it has read as it still is (FreshDoc), so that the client's key, the location  *)
(* and the range change one at a time; a place or a row the document does not      *)
(* know has a job on its way to it (LocationDue, RangeDue).                    *)
(*                                                                         *)
(* No post is missed: every row has come from an archive all of whose posts are    *)
(* known (RowsContributed, ContributedKnown), so that whatever lies between two    *)
(* rows is known, in whichever document or variable the two are (RangesCovered).   *)
(***************************************************************************)
EXTENDS AccountData, CalendarProofs

Names == TaskNames \cup {"none"}
AnyStep == UNION {StepsOf(n) : n \in Names}

LooseTask == [name : TaskNames, on : Nat, gen : Nat]

JobControl ==
  /\ job \in [Worker -> LooseTask \cup {NoTask}]
  /\ pc \in [Worker -> AnyStep]
  /\ \A w \in Worker : pc[w] \in StepsOf(job[w].name)

AccountControl ==
  /\ account = [exists |-> account.exists, deleting |-> account.deleting,
                gen |-> account.gen, doc |-> account.doc]
  /\ account.exists \in BOOLEAN /\ account.deleting \in BOOLEAN /\ account.gen \in Nat

QueueControl == queue \in Seq(LooseTask) /\ uploaded \in Nat /\ flagging \in Nat

Control == JobControl /\ AccountControl /\ QueueControl

-----------------------------------------------------------------------------
(* Steps and the jobs they belong to. *)

LEMMA StepsOfNames ==
  ASSUME NEW n \in Names
  PROVE  /\ "remove" \in StepsOf(n) => n = "delete_user_data"
         /\ "remove_objects" \in StepsOf(n) => n = "delete_user_data"
         /\ "remove_account" \in StepsOf(n) => n = "delete_user_data"
         /\ "read_range" \in StepsOf(n) => n = "parse_archive"
         /\ "posts" \in StepsOf(n) => n = "parse_archive"
         /\ "complex" \in StepsOf(n) => n = "parse_archive"
         /\ "reactions" \in StepsOf(n) => n = "parse_archive"
         /\ "media" \in StepsOf(n) => n = "parse_archive"
         /\ "save_posts" \in StepsOf(n) => n = "analyze_posts"
         /\ "read_doc" \in StepsOf(n) => n = "analyze_posts"
         /\ "write_location" \in StepsOf(n) => n = "analyze_posts"
         /\ "save_reactions" \in StepsOf(n) => n = "analyze_reactions"
         /\ "read_posts" \in StepsOf(n) => n = "extract_time_metadata"
         /\ "read_reactions" \in StepsOf(n) => n = "extract_time_metadata"
         /\ "read_time_doc" \in StepsOf(n) => n = "extract_time_metadata"
         /\ "write_range" \in StepsOf(n) => n = "extract_time_metadata"
         /\ "idle" \in StepsOf(n) => n = "none"
  BY DEF Names, TaskNames, StepsOf

LEMMA FirstSteps ==
  ASSUME NEW n \in TaskNames
  PROVE  FirstStep(n) \in StepsOf(n)
  BY DEF TaskNames, StepsOf, FirstStep

LEMMA JobNames ==
  ASSUME JobControl, NEW w \in Worker
  PROVE  /\ job[w].name \in Names /\ job[w].on \in Nat /\ job[w].gen \in Nat
         /\ pc[w] \in StepsOf(job[w].name)
<1>1. job[w] \in LooseTask \cup {NoTask}
  BY DEF JobControl
<1> QED
  BY <1>1 DEF JobControl, LooseTask, NoTask, NoArchive, Names

\* The next call of the same job.
LEMMA GotoKeeps ==
  ASSUME JobControl, NEW w \in Worker, NEW step, NEW locals,
         Goto(w, step, locals), step \in StepsOf(job[w].name)
  PROVE  JobControl' /\ (Deleting => Deleting')
<1>1. step \in AnyStep
  BY JobNames DEF AnyStep
<1>2. pc' = [pc EXCEPT ![w] = step] /\ job' = job
  BY DEF Goto
<1>3. JobControl'
  BY <1>1, <1>2 DEF JobControl
<1> QED
  BY <1>2, <1>3 DEF Deleting

\* The end of a job that is not a deletion.
LEMMA FinishKeeps ==
  ASSUME JobControl, NEW w \in Worker, Finish(w)
  PROVE  JobControl' /\ (Deleting /\ job[w].name # "delete_user_data" => Deleting')
<1>1. pc' = [pc EXCEPT ![w] = "idle"] /\ job' = [job EXCEPT ![w] = NoTask]
  BY DEF Finish
<1>2. "idle" \in StepsOf(NoTask.name)
  BY DEF StepsOf, NoTask
<1>3. JobControl'
  <2>1. "idle" \in AnyStep
    BY <1>2 DEF AnyStep, Names, NoTask
  <2>2. pc' \in [Worker -> AnyStep] /\ job' \in [Worker -> LooseTask \cup {NoTask}]
    BY <1>1, <2>1 DEF JobControl
  <2>3. ASSUME NEW v \in Worker PROVE pc'[v] \in StepsOf(job'[v].name)
    <3>1. CASE v = w
      <4>1. pc'[v] = "idle" /\ job'[v] = NoTask
        BY <1>1, <3>1 DEF JobControl
      <4> QED
        BY <4>1, <1>2
    <3>2. CASE v # w
      <4>1. pc'[v] = pc[v] /\ job'[v] = job[v]
        BY <1>1, <3>2 DEF JobControl
      <4> QED
        BY <4>1 DEF JobControl
    <3> QED
      BY <3>1, <3>2
  <2> QED
    BY <2>2, <2>3 DEF JobControl
<1>4. ASSUME Deleting, job[w].name # "delete_user_data" PROVE Deleting'
  <2>1. PICK v \in Worker : job[v].name = "delete_user_data"
    BY <1>4 DEF Deleting
  <2>2. v # w /\ job'[v] = job[v]
    BY <1>1, <1>4, <2>1 DEF JobControl
  <2> QED
    BY <2>1, <2>2 DEF Deleting
<1> QED
  BY <1>3, <1>4

LEMMA SendKeeps ==
  ASSUME QueueControl, NEW name \in TaskNames, NEW on \in Nat, NEW gen \in Nat, Send(name, on, gen)
  PROVE  /\ queue' \in Seq(LooseTask)
         /\ Len(queue') = Len(queue) + 1
         /\ \A i \in 1..Len(queue) : queue'[i] = queue[i]
         /\ queue'[Len(queue')] = [name |-> name, on |-> on, gen |-> gen]
<1> DEFINE task == [name |-> name, on |-> on, gen |-> gen]
<1>1. task \in LooseTask /\ queue' = Append(queue, task)
  BY DEF Send, LooseTask
<1> HIDE DEF task
<1>2. queue \in Seq(LooseTask)
  BY DEF QueueControl
<1>3. /\ queue' \in Seq(LooseTask) /\ Len(queue') = Len(queue) + 1
      /\ \A i \in 1..Len(queue) : queue'[i] = queue[i] /\ queue'[Len(queue')] = task
  BY <1>1, <1>2
<1>4. queue'[Len(queue')] = task
  BY <1>1, <1>2
<1> QED
  BY <1>3, <1>4 DEF task

-----------------------------------------------------------------------------
(* Deletions on the way. *)

Queued == \E i \in 1..Len(queue) : queue[i].name = "delete_user_data"

LEMMA InFlight ==
  DeletionInFlight <=>
    (account.exists /\ account.deleting /\ Without({"enqueue", "job", "database"})
       => flagging > 0 \/ Queued \/ Deleting)
  BY DEF DeletionInFlight, Queued

\* What most steps keep.
LEMMA Kept ==
  ASSUME DeletionInFlight,
         account'.exists /\ account'.deleting => account.exists /\ account.deleting,
         happened \subseteq happened',
         flagging > 0 => flagging' > 0, Queued => Queued', Deleting => Deleting'
  PROVE  DeletionInFlight'
  BY InFlight DEF DeletionInFlight, Queued, Without

LEMMA SendKeepsQueued ==
  ASSUME QueueControl, NEW name \in TaskNames, NEW on \in Nat, NEW gen \in Nat, Send(name, on, gen)
  PROVE  (Queued => Queued') /\ (name = "delete_user_data" => Queued')
<1>1. /\ Len(queue') = Len(queue) + 1 /\ Len(queue) \in Nat
      /\ \A i \in 1..Len(queue) : queue'[i] = queue[i]
      /\ queue'[Len(queue')] = [name |-> name, on |-> on, gen |-> gen]
  BY SendKeeps DEF QueueControl
<1>2. \A i \in 1..Len(queue) : i \in 1..Len(queue')
  BY <1>1
<1>3. Len(queue') \in 1..Len(queue')
  BY <1>1
<1>4. ASSUME Queued PROVE Queued'
  BY <1>1, <1>2, <1>4 DEF Queued
<1>5. ASSUME name = "delete_user_data" PROVE Queued'
  BY <1>1, <1>3, <1>5 DEF Queued
<1> QED
  BY <1>4, <1>5

DeletionInv == Control /\ DeletionInFlight

-----------------------------------------------------------------------------
(* Pieces of steps. *)

LEMMA DocKeeps ==
  ASSUME AccountControl, NEW doc, account' = [account EXCEPT !.doc = doc]
  PROVE  /\ AccountControl'
         /\ account'.exists = account.exists /\ account'.deleting = account.deleting
<1>1. account' = [exists |-> account.exists, deleting |-> account.deleting,
                  gen |-> account.gen, doc |-> doc]
  BY DEF AccountControl
<1> QED
  BY <1>1 DEF AccountControl

\* A step that takes no deletion out of a queue, a worker or a handler.
LEMMA Combine ==
  ASSUME DeletionInv, JobControl', AccountControl', QueueControl',
         account'.exists /\ account'.deleting => account.exists /\ account.deleting,
         happened \subseteq happened', flagging' = flagging,
         Queued => Queued', Deleting => Deleting'
  PROVE  DeletionInv'
<1>1. Control'
  BY DEF Control
<1>2. DeletionInFlight'
  BY Kept DEF DeletionInv
<1> QED
  BY <1>1, <1>2 DEF DeletionInv

LEMMA QueueStays ==
  ASSUME QueueControl, UNCHANGED <<queue, uploaded, flagging>>
  PROVE  QueueControl' /\ (Queued => Queued')
  BY DEF QueueControl, Queued

LEMMA QueueGrows ==
  ASSUME QueueControl, UNCHANGED <<uploaded, flagging>>,
         NEW name \in TaskNames, NEW on \in Nat, NEW gen \in Nat, Send(name, on, gen)
  PROVE  QueueControl' /\ (Queued => Queued')
<1>1. queue' \in Seq(LooseTask)
  BY SendKeeps
<1>2. Queued => Queued'
  BY SendKeepsQueued
<1> QED
  BY <1>1, <1>2 DEF QueueControl

LEMMA JobsStay ==
  ASSUME JobControl, UNCHANGED <<job, pc>>
  PROVE  JobControl' /\ (Deleting => Deleting')
  BY DEF JobControl, Deleting

LEMMA AccountStays ==
  ASSUME AccountControl, UNCHANGED account
  PROVE  AccountControl' /\ account'.exists = account.exists /\ account'.deleting = account.deleting
  BY DEF AccountControl

\* The next call of a job, which changes at most the rows and the items it stores.
LEMMA Moves ==
  ASSUME DeletionInv, NEW w \in Worker, NEW step, NEW locals,
         Goto(w, step, locals), step \in StepsOf(job[w].name),
         UNCHANGED <<account, queue, uploaded, flagging>>, happened \subseteq happened'
  PROVE  DeletionInv'
<1>1. JobControl /\ AccountControl /\ QueueControl
  BY DEF DeletionInv, Control
<1>2. JobControl' /\ (Deleting => Deleting')
  BY <1>1, GotoKeeps
<1>3. QueueControl' /\ (Queued => Queued')
  BY <1>1, QueueStays
<1>4. AccountControl' /\ account'.exists = account.exists /\ account'.deleting = account.deleting
  BY <1>1, AccountStays
<1> QED
  BY <1>2, <1>3, <1>4, Combine

\* The end of a job that is no deletion.
LEMMA Ends ==
  ASSUME DeletionInv, NEW w \in Worker, Finish(w), job[w].name # "delete_user_data",
         AccountControl', QueueControl', Queued => Queued',
         account'.exists = account.exists, account'.deleting = account.deleting,
         UNCHANGED flagging, happened \subseteq happened'
  PROVE  DeletionInv'
<1>1. JobControl' /\ (Deleting => Deleting')
  BY FinishKeeps DEF DeletionInv, Control
<1> QED
  BY <1>1, Combine

-----------------------------------------------------------------------------
(* Steps of the handlers. *)

LEMMA HandlerSteps ==
  ASSUME DeletionInv,
         RegisterLook \/ RegisterInsert \/ EditRead \/ EditWrite \/ Upload \/ AdminDelete
  PROVE  DeletionInv'
<1> USE DEF pgVars, apiVars, jobVars, auxVars
<1>1. JobControl /\ AccountControl /\ QueueControl
  BY DEF DeletionInv, Control
<1>2. JobControl' /\ (Deleting => Deleting')
  <2>1. UNCHANGED <<job, pc>>
    BY DEF RegisterLook, RegisterInsert, EditRead, EditWrite, Upload, AdminDelete
  <2> QED
    BY <1>1, <2>1, JobsStay
<1>3. CASE RegisterLook \/ EditRead
  <2>1. UNCHANGED <<account, queue, uploaded, flagging>> /\ happened \subseteq happened'
    BY <1>3 DEF RegisterLook, EditRead
  <2> QED
    BY <1>1, <1>2, <2>1, QueueStays, AccountStays, Combine
<1>4. CASE RegisterInsert
  <2>1. UNCHANGED <<queue, uploaded, flagging, happened>>
    BY <1>4 DEF RegisterInsert
  <2>2. CASE account.exists
    <3>1. UNCHANGED account
      BY <1>4, <2>2 DEF RegisterInsert
    <3> QED
      BY <1>1, <1>2, <2>1, <3>1, QueueStays, AccountStays, Combine
  <2>3. CASE ~account.exists
    <3>1. account' = [exists |-> TRUE, deleting |-> FALSE, doc |-> NewDoc, gen |-> account.gen + 1]
      BY <1>4, <2>3 DEF RegisterInsert
    <3>2. AccountControl' /\ ~account'.deleting
      BY <1>1, <3>1 DEF AccountControl
    <3> QED
      BY <1>1, <1>2, <2>1, <3>2, QueueStays, Combine
  <2> QED
    BY <2>2, <2>3
<1>5. CASE EditWrite
  <2>1. UNCHANGED <<queue, uploaded, flagging>> /\ happened \subseteq happened'
    BY <1>5 DEF EditWrite
  <2>2. account' = account \/ \E doc : account' = [account EXCEPT !.doc = doc]
    BY <1>5 DEF EditWrite
  <2>3. AccountControl' /\ account'.exists = account.exists /\ account'.deleting = account.deleting
    BY <1>1, <2>2, AccountStays, DocKeeps
  <2> QED
    BY <1>1, <1>2, <2>1, <2>3, QueueStays, Combine
<1>6. CASE Upload
  <2>1. /\ UNCHANGED <<account, flagging>> /\ happened \subseteq happened' /\ uploaded' = uploaded + 1
        /\ Send("parse_archive", uploaded', account.gen)
    BY <1>6 DEF Upload
  <2>2. uploaded' \in Nat /\ account.gen \in Nat /\ "parse_archive" \in TaskNames
    BY <1>1, <2>1 DEF QueueControl, AccountControl, TaskNames
  <2>3. queue' \in Seq(LooseTask) /\ (Queued => Queued')
    BY <1>1, <2>1, <2>2, SendKeeps, SendKeepsQueued
  <2>4. QueueControl'
    BY <1>1, <2>1, <2>2, <2>3 DEF QueueControl
  <2> QED
    BY <1>1, <1>2, <2>1, <2>3, <2>4, AccountStays, Combine
<1>7. CASE AdminDelete
  <2>1. /\ UNCHANGED <<account, uploaded, flagging, happened>>
        /\ Send("delete_user_data", NoArchive, account.gen)
    BY <1>7 DEF AdminDelete
  <2>2. NoArchive \in Nat /\ account.gen \in Nat /\ "delete_user_data" \in TaskNames
    BY <1>1 DEF NoArchive, AccountControl, TaskNames
  <2>3. QueueControl' /\ (Queued => Queued')
    BY <1>1, <2>1, <2>2, QueueGrows
  <2> QED
    BY <1>1, <1>2, <2>1, <2>3, AccountStays, Combine
<1> QED
  BY <1>3, <1>4, <1>5, <1>6, <1>7

\* accountDelete marks the account and is on its way to SendTask.
LEMMA FlagStep ==
  ASSUME DeletionInv, DeleteFlag
  PROVE  DeletionInv'
<1> USE DEF pgVars, apiVars, jobVars, auxVars
<1>1. JobControl /\ AccountControl /\ QueueControl
  BY DEF DeletionInv, Control
<1>2. /\ UNCHANGED <<job, pc, queue, uploaded>> /\ flagging' = flagging + 1
      /\ account' = [account EXCEPT !.deleting = TRUE]
  BY DEF DeleteFlag
<1>3. flagging' \in Nat /\ flagging' > 0
  BY <1>1, <1>2 DEF QueueControl
<1>4. AccountControl'
  <2>1. account' = [exists |-> account.exists, deleting |-> TRUE,
                    gen |-> account.gen, doc |-> account.doc]
    BY <1>1, <1>2 DEF AccountControl
  <2> QED
    BY <1>1, <2>1 DEF AccountControl
<1>5. JobControl' /\ QueueControl'
  BY <1>1, <1>2, <1>3, JobsStay DEF QueueControl
<1>6. DeletionInFlight'
  BY <1>3 DEF DeletionInFlight
<1> QED
  BY <1>4, <1>5, <1>6 DEF DeletionInv, Control

\* It sends the task, or fails to, which is an exception of the property.
LEMMA SendStep ==
  ASSUME DeletionInv, DeleteSend
  PROVE  DeletionInv'
<1> USE DEF pgVars, apiVars, jobVars, auxVars
<1>1. JobControl /\ AccountControl /\ QueueControl
  BY DEF DeletionInv, Control
<1>2. UNCHANGED <<job, pc, uploaded, account>> /\ flagging' = flagging - 1 /\ flagging > 0
  BY DEF DeleteSend
<1>3. JobControl' /\ AccountControl'
  BY <1>1, <1>2, JobsStay, AccountStays
<1>4. flagging' \in Nat
  BY <1>1, <1>2 DEF QueueControl
<1>5. CASE Send("delete_user_data", NoArchive, account.gen)
  <2>1. NoArchive \in Nat /\ account.gen \in Nat /\ "delete_user_data" \in TaskNames
    BY <1>1 DEF NoArchive, AccountControl, TaskNames
  <2>2. queue' \in Seq(LooseTask) /\ Queued'
    BY <1>1, <1>5, <2>1, SendKeeps, SendKeepsQueued
  <2>3. QueueControl'
    BY <1>1, <1>2, <1>4, <2>2 DEF QueueControl
  <2>4. DeletionInFlight'
    BY <2>2 DEF DeletionInFlight, Queued
  <2> QED
    BY <1>3, <2>3, <2>4 DEF DeletionInv, Control
<1>6. CASE happened' = happened \cup {"enqueue"} /\ UNCHANGED queue
  <2>1. QueueControl'
    BY <1>1, <1>2, <1>4, <1>6 DEF QueueControl
  <2>2. DeletionInFlight'
    BY <1>6 DEF DeletionInFlight, Without
  <2> QED
    BY <1>3, <2>1, <2>2 DEF DeletionInv, Control
<1> QED
  BY <1>5, <1>6 DEF DeleteSend

-----------------------------------------------------------------------------
(* Steps of the workers. *)

\* A worker takes the task at the head of the queue, the deletion if it is that.
LEMMA StartStep ==
  ASSUME DeletionInv, NEW w \in Worker, Start(w)
  PROVE  DeletionInv'
<1> USE DEF pgVars, apiVars, jobVars, auxVars
<1>1. JobControl /\ AccountControl /\ QueueControl
  BY DEF DeletionInv, Control
<1> DEFINE task == Head(queue)
<1>2. /\ pc[w] = "idle" /\ queue # <<>> /\ queue' = Tail(queue)
      /\ job' = [job EXCEPT ![w] = task] /\ pc' = [pc EXCEPT ![w] = FirstStep(task.name)]
      /\ UNCHANGED <<account, uploaded, flagging>> /\ happened \subseteq happened'
  BY DEF Start, At
<1>3. task \in LooseTask /\ task.name \in TaskNames /\ task = queue[1] /\ queue' \in Seq(LooseTask)
  <2>1. queue \in Seq(LooseTask) /\ queue # <<>>
    BY <1>1, <1>2 DEF QueueControl
  <2>2. task \in LooseTask /\ task = queue[1] /\ queue' \in Seq(LooseTask)
    BY <1>2, <2>1
  <2> QED
    BY <2>2 DEF LooseTask
<1>4. FirstStep(task.name) \in StepsOf(task.name) /\ FirstStep(task.name) \in AnyStep
  BY <1>3, FirstSteps DEF AnyStep, Names
<1>5. job[w].name = "none"
  BY <1>1, <1>2, JobNames, StepsOfNames
<1> HIDE DEF task
<1>6. JobControl'
  <2>1. pc' \in [Worker -> AnyStep] /\ job' \in [Worker -> LooseTask \cup {NoTask}]
    BY <1>1, <1>2, <1>3, <1>4 DEF JobControl
  <2>2. ASSUME NEW v \in Worker PROVE pc'[v] \in StepsOf(job'[v].name)
    <3>1. CASE v = w
      <4>1. pc'[v] = FirstStep(task.name) /\ job'[v] = task
        BY <1>1, <1>2, <3>1 DEF JobControl
      <4> QED
        BY <4>1, <1>4
    <3>2. CASE v # w
      <4>1. pc'[v] = pc[v] /\ job'[v] = job[v]
        BY <1>1, <1>2, <3>2 DEF JobControl
      <4> QED
        BY <1>1, <4>1 DEF JobControl
    <3> QED
      BY <3>1, <3>2
  <2> QED
    BY <2>1, <2>2 DEF JobControl
<1>7. QueueControl' /\ AccountControl'
  BY <1>1, <1>2, <1>3, AccountStays DEF QueueControl
<1>8. ASSUME Deleting PROVE Deleting'
  <2>1. PICK v \in Worker : job[v].name = "delete_user_data"
    BY <1>8 DEF Deleting
  <2>2. v # w /\ job'[v] = job[v]
    BY <1>1, <1>2, <1>5, <2>1 DEF JobControl
  <2> QED
    BY <2>1, <2>2 DEF Deleting
<1>9. ASSUME Queued PROVE Queued' \/ Deleting'
  <2>1. PICK i \in 1..Len(queue) : queue[i].name = "delete_user_data"
    BY <1>9 DEF Queued
  <2>2. CASE i = 1
    <3>1. job'[w] = task /\ task.name = "delete_user_data"
      BY <1>1, <1>2, <1>3, <2>1, <2>2 DEF JobControl
    <3> QED
      BY <3>1 DEF Deleting
  <2>3. CASE i # 1
    <3>1. queue \in Seq(LooseTask) /\ queue # <<>>
      BY <1>1, <1>2 DEF QueueControl
    <3>2. i - 1 \in 1..Len(queue') /\ queue'[i - 1] = queue[i]
      BY <1>2, <2>1, <2>3, <3>1
    <3> QED
      BY <2>1, <3>2 DEF Queued
  <2> QED
    BY <2>2, <2>3
<1>10. DeletionInFlight'
  BY <1>2, <1>8, <1>9, InFlight DEF DeletionInv, DeletionInFlight, Queued, Without
<1> QED
  BY <1>6, <1>7, <1>10 DEF DeletionInv, Control

\* The steps of parse_archive, up to the last.
LEMMA ParseSteps ==
  ASSUME DeletionInv, NEW w \in Worker,
         InsertPosts(w) \/ InsertComplex(w) \/ InsertReactions(w)
  PROVE  DeletionInv'
<1> USE DEF pgVars, apiVars, jobVars, auxVars
<1>1. UNCHANGED <<account, queue, uploaded, flagging>> /\ happened \subseteq happened'
  BY DEF InsertPosts, InsertComplex, InsertReactions, Insert
<1>2. job[w].name = "parse_archive"
  BY JobNames, StepsOfNames DEF InsertPosts, InsertComplex, InsertReactions, At, DeletionInv, Control
<1>3. {"complex", "reactions", "media"} \subseteq StepsOf(job[w].name)
  BY <1>2 DEF StepsOf
<1>4. PICK step \in {"complex", "reactions", "media"} : Goto(w, step, local[w])
  BY DEF InsertPosts, InsertComplex, InsertReactions, Insert
<1> QED
  BY <1>1, <1>3, <1>4, Moves

LEMMA RangeStep ==
  ASSUME DeletionInv, NEW w \in Worker, ReadRange(w)
  PROVE  DeletionInv'
<1> USE DEF pgVars, apiVars, jobVars, auxVars
<1>1. JobControl /\ AccountControl /\ QueueControl
  BY DEF DeletionInv, Control
<1>2. UNCHANGED <<account, queue, uploaded, flagging, happened>>
  BY DEF ReadRange
<1>3. job[w].name = "parse_archive"
  BY <1>1, JobNames, StepsOfNames DEF ReadRange, At
<1>4. CASE Finish(w)
  <2>1. QueueControl' /\ (Queued => Queued')
    BY <1>1, <1>2, QueueStays
  <2>2. AccountControl' /\ account'.exists = account.exists /\ account'.deleting = account.deleting
    BY <1>1, <1>2, AccountStays
  <2> QED
    BY <1>2, <1>3, <1>4, <2>1, <2>2, Ends
<1>5. CASE \E locals : Goto(w, "posts", locals)
  <2>1. "posts" \in StepsOf(job[w].name)
    BY <1>3 DEF StepsOf
  <2> QED
    BY <1>2, <1>5, <2>1, Moves
<1> QED
  BY <1>4, <1>5 DEF ReadRange

\* Jobs that end with a task for the next one.
LEMMA SuccessorSteps ==
  ASSUME DeletionInv, NEW w \in Worker,
         UploadMedia(w) \/ WriteLocation(w) \/ SaveReactions(w)
  PROVE  DeletionInv'
<1> USE DEF pgVars, apiVars, jobVars, auxVars
<1>1. JobControl /\ AccountControl /\ QueueControl
  BY DEF DeletionInv, Control
<1>2. job[w].on \in Nat /\ job[w].gen \in Nat /\ NoArchive \in Nat
  BY <1>1, JobNames DEF NoArchive
<1>3. UNCHANGED <<uploaded, flagging>> /\ happened \subseteq happened' /\ Finish(w)
  BY DEF UploadMedia, WriteLocation, SaveReactions
<1>4. job[w].name # "delete_user_data"
  BY <1>1, JobNames, StepsOfNames DEF UploadMedia, WriteLocation, SaveReactions, At
<1>5. \/ Send("analyze_posts", job[w].on, job[w].gen)
      \/ Send("analyze_reactions", job[w].on, job[w].gen)
      \/ Send("extract_time_metadata", NoArchive, job[w].gen)
  BY DEF UploadMedia, WriteLocation, SaveReactions
<1>6. QueueControl' /\ (Queued => Queued')
  <2>1. {"analyze_posts", "analyze_reactions", "extract_time_metadata"} \subseteq TaskNames
    BY DEF TaskNames
  <2> QED
    BY <1>1, <1>2, <1>3, <1>5, <2>1, QueueGrows
<1>7. account' = account \/ \E doc : account' = [account EXCEPT !.doc = doc]
  BY DEF UploadMedia, WriteLocation, SaveReactions, UpdateDoc
<1>8. AccountControl' /\ account'.exists = account.exists /\ account'.deleting = account.deleting
  BY <1>1, <1>7, AccountStays, DocKeeps
<1> QED
  BY <1>3, <1>4, <1>6, <1>8, Ends

LEMMA ReadDocStep ==
  ASSUME DeletionInv, NEW w \in Worker, ReadDoc(w)
  PROVE  DeletionInv'
<1> USE DEF pgVars, apiVars, jobVars, auxVars
<1>1. JobControl /\ AccountControl /\ QueueControl
  BY DEF DeletionInv, Control
<1>2. UNCHANGED <<account, uploaded, flagging>> /\ happened \subseteq happened'
  BY DEF ReadDoc
<1>3. job[w].name = "analyze_posts" /\ job[w].on \in Nat /\ job[w].gen \in Nat
  BY <1>1, JobNames, StepsOfNames DEF ReadDoc, At
<1>4. CASE account.exists
  <2>1. UNCHANGED queue /\ \E locals : Goto(w, "write_location", locals)
    BY <1>4 DEF ReadDoc
  <2>2. "write_location" \in StepsOf(job[w].name)
    BY <1>3 DEF StepsOf
  <2> QED
    BY <1>2, <2>1, <2>2, Moves
<1>5. CASE ~account.exists
  <2>1. Send("analyze_reactions", job[w].on, job[w].gen) /\ Finish(w)
    BY <1>5 DEF ReadDoc
  <2>2. QueueControl' /\ (Queued => Queued')
    <3>1. "analyze_reactions" \in TaskNames
      BY DEF TaskNames
    <3> QED
      BY <1>1, <1>2, <1>3, <2>1, <3>1, QueueGrows
  <2>3. AccountControl' /\ account'.exists = account.exists /\ account'.deleting = account.deleting
    BY <1>1, <1>2, AccountStays
  <2> QED
    BY <1>2, <1>3, <2>1, <2>2, <2>3, Ends
<1> QED
  BY <1>4, <1>5

\* Steps that only read, or store items.
LEMMA ReadSteps ==
  ASSUME DeletionInv, NEW w \in Worker,
         SavePosts(w) \/ ReadPosts(w) \/ ReadReactions(w)
  PROVE  DeletionInv'
<1> USE DEF pgVars, apiVars, jobVars, auxVars
<1>1. JobControl
  BY DEF DeletionInv, Control
<1>2. UNCHANGED <<account, queue, uploaded, flagging>> /\ happened \subseteq happened'
  BY DEF SavePosts, ReadPosts, ReadReactions
<1>3. CASE SavePosts(w)
  <2>1. job[w].name = "analyze_posts" /\ \E locals : Goto(w, "read_doc", locals)
    BY <1>1, <1>3, JobNames, StepsOfNames DEF SavePosts, At
  <2>2. "read_doc" \in StepsOf(job[w].name)
    BY <2>1 DEF StepsOf
  <2> QED
    BY <1>2, <2>1, <2>2, Moves
<1>4. CASE ReadPosts(w)
  <2>1. job[w].name = "extract_time_metadata" /\ \E locals : Goto(w, "read_reactions", locals)
    BY <1>1, <1>4, JobNames, StepsOfNames DEF ReadPosts, At
  <2>2. "read_reactions" \in StepsOf(job[w].name)
    BY <2>1 DEF StepsOf
  <2> QED
    BY <1>2, <2>1, <2>2, Moves
<1>5. CASE ReadReactions(w)
  <2>1. job[w].name = "extract_time_metadata" /\ \E locals : Goto(w, "read_time_doc", locals)
    BY <1>1, <1>5, JobNames, StepsOfNames DEF ReadReactions, At
  <2>2. "read_time_doc" \in StepsOf(job[w].name)
    BY <2>1 DEF StepsOf
  <2> QED
    BY <1>2, <2>1, <2>2, Moves
<1> QED
  BY <1>3, <1>4, <1>5

LEMMA TimeSteps ==
  ASSUME DeletionInv, NEW w \in Worker, ReadTimeDoc(w) \/ WriteRange(w)
  PROVE  DeletionInv'
<1> USE DEF pgVars, apiVars, jobVars, auxVars
<1>1. JobControl /\ AccountControl /\ QueueControl
  BY DEF DeletionInv, Control
<1>2. UNCHANGED <<queue, uploaded, flagging>> /\ happened \subseteq happened'
  BY DEF ReadTimeDoc, WriteRange
<1>3. job[w].name = "extract_time_metadata"
  BY <1>1, JobNames, StepsOfNames DEF ReadTimeDoc, WriteRange, At
<1>4. account' = account \/ \E doc : account' = [account EXCEPT !.doc = doc]
  BY DEF ReadTimeDoc, WriteRange, UpdateDoc
<1>5. AccountControl' /\ account'.exists = account.exists /\ account'.deleting = account.deleting
  BY <1>1, <1>4, AccountStays, DocKeeps
<1>6. CASE Finish(w)
  BY <1>1, <1>2, <1>3, <1>5, <1>6, QueueStays, Ends
<1>7. CASE ReadTimeDoc(w) /\ \E locals : Goto(w, "write_range", locals)
  <2>1. UNCHANGED account /\ "write_range" \in StepsOf(job[w].name)
    BY <1>3, <1>7 DEF ReadTimeDoc, StepsOf
  <2> QED
    BY <1>2, <1>7, <2>1, Moves
<1> QED
  BY <1>6, <1>7 DEF ReadTimeDoc, WriteRange

\* The removals go on to the next, whether they succeed or not.
LEMMA RemoveSteps ==
  ASSUME DeletionInv, NEW w \in Worker, RemoveStat(w) \/ RemoveObjects(w)
  PROVE  DeletionInv'
<1> USE DEF pgVars, apiVars, jobVars, auxVars
<1>1. JobControl
  BY DEF DeletionInv, Control
<1>2. UNCHANGED <<account, queue, uploaded, flagging>> /\ happened \subseteq happened'
  BY DEF RemoveStat, RemoveObjects
<1>3. job[w].name = "delete_user_data"
  BY <1>1, JobNames, StepsOfNames DEF RemoveStat, RemoveObjects, At
<1>4. {"remove", "remove_objects", "remove_account"} \subseteq StepsOf(job[w].name)
  BY <1>3 DEF StepsOf
<1>5. \E step \in {"remove", "remove_objects", "remove_account"} : \E locals : Goto(w, step, locals)
  BY DEF RemoveStat, RemoveObjects
<1> QED
  BY <1>2, <1>4, <1>5, Moves

\* The row goes, and the mark with it, or the statement fails.
LEMMA RemoveAccountStep ==
  ASSUME DeletionInv, NEW w \in Worker, RemoveAccount(w)
  PROVE  DeletionInv'
<1> USE DEF pgVars, apiVars, jobVars, auxVars
<1>1. JobControl /\ AccountControl /\ QueueControl
  BY DEF DeletionInv, Control
<1>2. UNCHANGED <<queue, uploaded, flagging>> /\ Finish(w)
  BY DEF RemoveAccount
<1>3. JobControl' /\ QueueControl'
  BY <1>1, <1>2, FinishKeeps, QueueStays
<1>4. CASE account' = [account EXCEPT !.exists = FALSE, !.deleting = FALSE, !.doc = NewDoc]
  <2>1. account' = [exists |-> FALSE, deleting |-> FALSE, gen |-> account.gen, doc |-> NewDoc]
    BY <1>1, <1>4 DEF AccountControl
  <2>2. AccountControl' /\ ~account'.exists
    BY <1>1, <2>1 DEF AccountControl
  <2> QED
    BY <1>3, <2>2 DEF DeletionInv, Control, DeletionInFlight
<1>5. CASE happened' = happened \cup {"database"} /\ UNCHANGED account
  <2>1. AccountControl'
    BY <1>1, <1>5, AccountStays
  <2>2. DeletionInFlight'
    BY <1>5 DEF DeletionInFlight, Without
  <2> QED
    BY <1>3, <2>1, <2>2 DEF DeletionInv, Control
<1> QED
  BY <1>4, <1>5 DEF RemoveAccount

LEMMA JobLostStep ==
  ASSUME DeletionInv, NEW w \in Worker, JobLost(w)
  PROVE  DeletionInv'
<1> USE DEF pgVars, apiVars, jobVars, auxVars
<1>1. JobControl /\ AccountControl /\ QueueControl
  BY DEF DeletionInv, Control
<1>2. /\ UNCHANGED <<account, queue, uploaded, flagging>> /\ Finish(w)
      /\ happened' = happened \cup {"job"}
  BY DEF JobLost
<1>3. Control'
  BY <1>1, <1>2, FinishKeeps, QueueStays, AccountStays DEF Control
<1>4. DeletionInFlight'
  BY <1>2 DEF DeletionInFlight, Without
<1> QED
  BY <1>3, <1>4 DEF DeletionInv

-----------------------------------------------------------------------------
LEMMA InitDeletion == Init => DeletionInv
<1> SUFFICES ASSUME Init PROVE DeletionInv
  OBVIOUS
<1>1. account = [exists |-> FALSE, deleting |-> FALSE, gen |-> 0, doc |-> NewDoc]
  BY DEF Init
<1>2. AccountControl /\ DeletionInFlight
  BY <1>1 DEF AccountControl, DeletionInFlight
<1>3. QueueControl
  BY DEF Init, QueueControl
<1>4. JobControl
  <2>1. "idle" \in StepsOf(NoTask.name)
    BY DEF StepsOf, NoTask
  <2>2. "idle" \in AnyStep
    BY <2>1 DEF AnyStep, Names, NoTask
  <2> QED
    BY <2>1, <2>2 DEF Init, JobControl
<1> QED
  BY <1>2, <1>3, <1>4 DEF DeletionInv, Control

LEMMA StepDeletion == DeletionInv /\ [Next]_vars => DeletionInv'
<1> SUFFICES ASSUME DeletionInv, [Next]_vars PROVE DeletionInv'
  OBVIOUS
<1>1. CASE UNCHANGED vars
  <2>1. UNCHANGED <<account, queue, uploaded, flagging, job, pc, happened>>
    BY <1>1 DEF vars, pgVars, apiVars, jobVars
  <2> QED
    BY <2>1, QueueStays, JobsStay, AccountStays, Combine DEF DeletionInv, Control
<1>2. CASE RegisterLook \/ RegisterInsert \/ EditRead \/ EditWrite \/ Upload \/ AdminDelete
  BY <1>2, HandlerSteps
<1>3. CASE DeleteFlag \/ DeleteSend
  BY <1>3, FlagStep, SendStep
<1>4. ASSUME NEW w \in Worker, JobStep(w) PROVE DeletionInv'
  BY <1>4, StartStep, RangeStep, ParseSteps, SuccessorSteps, ReadDocStep, ReadSteps, TimeSteps,
     RemoveSteps, RemoveAccountStep DEF JobStep
<1>5. ASSUME NEW w \in Worker, JobLost(w) PROVE DeletionInv'
  BY <1>5, JobLostStep
<1> QED
  BY <1>1, <1>2, <1>3, <1>4, <1>5 DEF Next

(***************************************************************************)
(* Unless a task is lost or a statement fails, an account that shows that it    *)
(* is under deletion has a handler, a task or a worker at it, for all numbers   *)
(* of workers, archives, requests and failures (accountDelete, deleteUserData). *)
(***************************************************************************)
THEOREM DeletionOnTheWay == Spec => []DeletionInFlight
<1>1. DeletionInv => DeletionInFlight
  BY DEF DeletionInv
<1> QED
  BY InitDeletion, StepDeletion, <1>1, PTL DEF Spec

-----------------------------------------------------------------------------
(* Documents, ranges and records. *)

LEMMA MergeProfile ==
  ASSUME NEW doc \in Doc, NEW v
  PROVE  Merge(doc, [profile |-> v]) =
            [profile |-> v, location |-> doc.location, first |-> doc.first, last |-> doc.last]
BY DEF Doc, Merge

LEMMA MergeLocation ==
  ASSUME NEW doc \in Doc, NEW v
  PROVE  Merge(doc, [location |-> v]) =
            [profile |-> doc.profile, location |-> v, first |-> doc.first, last |-> doc.last]
BY DEF Doc, Merge

LEMMA MergeNothing ==
  ASSUME NEW doc \in Doc
  PROVE  Merge(doc, <<>>) = doc
<1>1. doc = [k \in DOMAIN doc |-> doc[k]]
  BY DEF Doc
<1>2. DOMAIN <<>> = {}
  OBVIOUS
<1> QED
  BY <1>1, <1>2, Zenon DEF Merge

Bounds == [first : Time \cup {0}, last : Time \cup {0}]
LEMMA MergeRange ==
  ASSUME NEW doc \in Doc, NEW range \in Bounds
  PROVE  Merge(doc, range) =
            [profile |-> doc.profile, location |-> doc.location,
             first |-> range.first, last |-> range.last]
BY DEF Doc, Merge, Bounds

LEMMA DocFields ==
  ASSUME NEW doc \in Doc
  PROVE  /\ doc.profile \in 0..Budget["edit"] /\ doc.location \in BOOLEAN
         /\ doc.first \in Time \cup {0} /\ doc.last \in Time \cup {0}
BY DEF Doc

\* What is written back is a document.
LEMMA MergeTypes ==
  ASSUME NEW doc \in Doc
  PROVE  /\ \A v \in 0..Budget["edit"] : Merge(doc, [profile |-> v]) \in Doc
         /\ \A v \in BOOLEAN : Merge(doc, [location |-> v]) \in Doc
         /\ Merge(doc, <<>>) \in Doc
         /\ \A range \in Bounds : Merge(doc, range) \in Doc
<1>1. \A p \in 0..Budget["edit"], l \in BOOLEAN, f, t \in Time \cup {0} :
        [profile |-> p, location |-> l, first |-> f, last |-> t] \in Doc
  BY DEF Doc
<1>2. /\ doc.profile \in 0..Budget["edit"] /\ doc.location \in BOOLEAN
      /\ doc.first \in Time \cup {0} /\ doc.last \in Time \cup {0}
  BY DocFields
<1>3. ASSUME NEW v \in 0..Budget["edit"] PROVE Merge(doc, [profile |-> v]) \in Doc
  <2>1. [profile |-> v, location |-> doc.location, first |-> doc.first, last |-> doc.last] \in Doc
    BY <1>1, <1>2
  <2> QED
    BY <2>1, MergeProfile
<1>4. ASSUME NEW v \in BOOLEAN PROVE Merge(doc, [location |-> v]) \in Doc
  <2>1. [profile |-> doc.profile, location |-> v, first |-> doc.first, last |-> doc.last] \in Doc
    BY <1>1, <1>2
  <2> QED
    BY <2>1, MergeLocation
<1>5. ASSUME NEW range \in Bounds PROVE Merge(doc, range) \in Doc
  <2>1. range.first \in Time \cup {0} /\ range.last \in Time \cup {0}
    BY DEF Bounds
  <2>2. [profile |-> doc.profile, location |-> doc.location,
         first |-> range.first, last |-> range.last] \in Doc
    BY <1>1, <1>2, <2>1
  <2> QED
    BY <2>2, MergeRange
<1> QED
  BY <1>3, <1>4, <1>5, MergeNothing

LEMMA Times == \A t \in Time \cup {0} : t \in Nat /\ (t \in Time <=> t > 0)
BY TimeAssumption

LEMMA EarliestOf ==
  ASSUME NEW times, times \subseteq Time
  PROVE  /\ times = {} => Earliest(times) = 0
         /\ times # {} => Earliest(times) \in times
         /\ Earliest(times) \in Time \cup {0}
<1>1. CASE times = {}
  BY <1>1 DEF Earliest
<1>2. CASE times # {}
  <2>1. \E x \in times : \A y \in times : x <= y
    <3>1. IsFiniteSet(Time) /\ Time \subseteq Int
      BY TimeAssumption
    <3> QED
      BY <1>2, <3>1, FirstOf
  <2> QED
    BY <1>2, <2>1 DEF Earliest
<1> QED
  BY <1>1, <1>2

LEMMA LatestOf ==
  ASSUME NEW times, times \subseteq Time
  PROVE  /\ times = {} => Latest(times) = 0
         /\ times # {} => Latest(times) \in times
         /\ Latest(times) \in Time \cup {0}
<1>1. CASE times = {}
  BY <1>1 DEF Latest
<1>2. CASE times # {}
  <2>1. \E x \in times : \A y \in times : y <= x
    <3>1. IsFiniteSet(Time) /\ Time \subseteq Int
      BY TimeAssumption
    <3> QED
      BY <1>2, <3>1, LastOf
  <2> QED
    BY <1>2, <2>1 DEF Latest
<1> QED
  BY <1>1, <1>2

\* The range of the rows begins and ends with one of them, or with 0.
LEMMA RangeOf ==
  ASSUME NEW found, found \subseteq Time, NEW reacted, reacted \subseteq Time
  PROVE  /\ Range(found, reacted) \in Bounds
         /\ Range(found, reacted).first > 0 =>
               /\ Range(found, reacted).first \in found \cup reacted
               /\ Range(found, reacted).last \in found \cup reacted
         /\ Range({}, {}) = [first |-> 0, last |-> 0]
<1>1. /\ Earliest(found) \in Time \cup {0} /\ Latest(found) \in Time \cup {0}
      /\ Earliest(reacted) \in Time \cup {0} /\ Latest(reacted) \in Time \cup {0}
  BY EarliestOf, LatestOf
<1>2. Range(found, reacted) \in Bounds
  BY <1>1 DEF Range, Bounds
<1>3. ASSUME Range(found, reacted).first > 0
      PROVE  /\ Range(found, reacted).first \in found \cup reacted
             /\ Range(found, reacted).last \in found \cup reacted
  <2>1. Earliest(found) > 0 /\ Earliest(reacted) > 0
    <3>1. Earliest(found) \in Nat /\ Earliest(reacted) \in Nat
      BY <1>1, Times
    <3>2. (IF Earliest(reacted) < Earliest(found) THEN Earliest(reacted) ELSE Earliest(found)) > 0
      BY <1>3 DEF Range
    <3> QED
      BY <3>1, <3>2
  <2>2. found # {} /\ reacted # {}
    BY <2>1, EarliestOf
  <2>3. /\ Earliest(found) \in found /\ Latest(found) \in found
        /\ Earliest(reacted) \in reacted /\ Latest(reacted) \in reacted
    BY <2>2, EarliestOf, LatestOf
  <2> QED
    BY <2>3 DEF Range
<1>4. Range({}, {}) = [first |-> 0, last |-> 0]
  BY EarliestOf, LatestOf DEF Range
<1> QED
  BY <1>2, <1>3, <1>4

LEMMA Records ==
  /\ NewDoc \in Doc
  /\ NoLocal \in Local
  /\ NoEdit \in [open : BOOLEAN, gen : Nat, doc : Doc]
<1>1. Budget["edit"] \in Nat
  BY BudgetAssumption DEF Requests
<1>2. NewDoc \in Doc
  BY <1>1 DEF NewDoc, Doc
<1>3. 1 \in 1..Len(RemovedKeys)
  BY DEF RemovedKeys
<1>4. NoLocal \in Local
  BY <1>2, <1>3 DEF NoLocal, Local
<1> QED
  BY <1>2, <1>4 DEF NoEdit

-----------------------------------------------------------------------------
(* Types. *)

ArchiveJobs == {"parse_archive", "analyze_posts", "analyze_reactions"}
Placing(t) == /\ t.on \in Archive \cup {NoArchive}
              /\ t.name \in ArchiveJobs => t.on \in Archive

StoreFields ==
  /\ account.doc \in Doc
  /\ posts \subseteq Time /\ reactions \subseteq Time
  /\ archives \subseteq Archive /\ parsed \subseteq Archive
  /\ table \subseteq Item
  /\ objects \subseteq (Archive \X {"archive", "media"})
RequestFields ==
  /\ left \in [Requests -> Nat] /\ \A r \in Requests : left[r] <= Budget[r]
  /\ uploaded \in 0..Uploads /\ registering \in Nat
  /\ editing \in [open : BOOLEAN, gen : Nat, doc : Doc]
JobFields ==
  /\ \A i \in 1..Len(queue) : Placing(queue[i])
  /\ \A w \in Worker : Placing(job[w])
  /\ local \in [Worker -> Local]
  /\ \A w \in Worker : pc[w] = "idle" => local[w] = NoLocal
BookFields ==
  /\ saved \in 0..Budget["edit"]
  /\ happened \subseteq AllFaults \cup {"mixed", "overlap", "late", "empty", "page", "dark"}
Fields == StoreFields /\ RequestFields /\ JobFields /\ BookFields

Typed == DeletionInv /\ Fields

LEMMA TypedTypes == Typed => TypeOK
<1> SUFFICES ASSUME Typed PROVE TypeOK
  OBVIOUS
<1> USE DEF Typed, DeletionInv, Control, Fields
<1>1. account \in [exists : BOOLEAN, deleting : BOOLEAN, gen : Nat, doc : Doc]
  BY DEF AccountControl, StoreFields
<1>2. queue \in Seq(Task)
  <2>1. queue \in Seq(LooseTask) /\ \A i \in 1..Len(queue) : Placing(queue[i])
    BY DEF QueueControl, JobFields
  <2>2. \A i \in 1..Len(queue) : queue[i] \in LooseTask
    BY <2>1
  <2>3. \A i \in 1..Len(queue) : queue[i] \in Task
    BY <2>1, <2>2 DEF LooseTask, Task, Placing
  <2> QED
    BY <2>1, <2>3
<1>3. job \in [Worker -> Task \cup {NoTask}]
  BY DEF JobControl, JobFields, LooseTask, Task, Placing
<1> QED
  BY <1>1, <1>2, <1>3 DEF TypeOK, StoreFields, RequestFields, JobFields, BookFields, JobControl,
     QueueControl

\* The steps of an archive's jobs are those of a task of it.
LEMMA OwnArchive ==
  ASSUME Typed, NEW w \in Worker, job[w].name \in ArchiveJobs
  PROVE  job[w].on \in Archive
BY DEF Typed, Fields, JobFields, Placing

LEMMA ItemTypes ==
  ASSUME NEW keys, keys \subseteq PostKeys \cup ReactionKeys, NEW times, times \subseteq Time
  PROVE  Items(keys, times) \subseteq Item
BY DEF Items, Item

LEMMA EmptyTypes == EmptyStats \subseteq Item
BY DEF EmptyStats, Items, Item

LEMMA LocalStep ==
  ASSUME Typed, NEW w \in Worker, NEW step, NEW locals, locals \in Local, step # "idle",
         Goto(w, step, locals), UNCHANGED queue
  PROVE  JobFields'
<1>1. /\ local' = [local EXCEPT ![w] = locals] /\ pc' = [pc EXCEPT ![w] = step]
      /\ UNCHANGED <<job, queue>>
  BY DEF Goto
<1> QED
  BY <1>1 DEF Typed, DeletionInv, Control, JobControl, Fields, JobFields

LEMMA LocalEnd ==
  ASSUME Typed, NEW w \in Worker, Finish(w),
         \A i \in 1..Len(queue') : Placing(queue'[i])
  PROVE  JobFields'
<1>1. /\ local' = [local EXCEPT ![w] = NoLocal] /\ pc' = [pc EXCEPT ![w] = "idle"]
      /\ job' = [job EXCEPT ![w] = NoTask]
  BY DEF Finish
<1>2. Placing(NoTask)
  BY DEF Placing, NoTask, ArchiveJobs
<1>3. ASSUME NEW v \in Worker
      PROVE  Placing(job'[v]) /\ local'[v] \in Local /\ (pc'[v] = "idle" => local'[v] = NoLocal)
  BY <1>1, <1>2, Records DEF Typed, DeletionInv, Control, JobControl, Fields, JobFields
<1> QED
  BY <1>1, <1>3 DEF Typed, Fields, JobFields

LEMMA QueueStep ==
  ASSUME Typed, NEW name \in TaskNames, NEW on, NEW gen \in Nat, Send(name, on, gen),
         Placing([name |-> name, on |-> on, gen |-> gen])
  PROVE  \A i \in 1..Len(queue') : Placing(queue'[i])
<1>1. on \in Nat
  BY UploadAssumption DEF Placing, Archive, NoArchive
<1>2. /\ Len(queue') = Len(queue) + 1 /\ Len(queue) \in Nat
      /\ \A i \in 1..Len(queue) : queue'[i] = queue[i]
      /\ queue'[Len(queue')] = [name |-> name, on |-> on, gen |-> gen]
  BY <1>1, SendKeeps DEF Typed, DeletionInv, Control, QueueControl
<1>3. ASSUME NEW i \in 1..Len(queue') PROVE Placing(queue'[i])
  <2>1. CASE i \in 1..Len(queue)
    BY <1>2, <2>1 DEF Typed, Fields, JobFields
  <2>2. CASE i = Len(queue')
    BY <1>2, <2>2
  <2> QED
    BY <1>2, <2>1, <2>2
<1> QED
  BY <1>3

\* Steps of the handlers.
LEMMA JobsAside ==
  ASSUME Typed, UNCHANGED <<job, pc, local>>, \A i \in 1..Len(queue') : Placing(queue'[i])
  PROVE  JobFields'
BY DEF Typed, Fields, JobFields

LEMMA SpendTypes ==
  ASSUME Typed, NEW r \in Requests, Spend(r)
  PROVE  left' \in [Requests -> Nat] /\ \A q \in Requests : left'[q] <= Budget[q]
<1>1. left \in [Requests -> Nat] /\ \A q \in Requests : left[q] <= Budget[q]
  BY DEF Typed, Fields, RequestFields
<1>2. left[r] > 0 /\ left' = [left EXCEPT ![r] = left[r] - 1]
  BY DEF Spend
<1>3. \A q \in Requests : Budget[q] \in Nat
  BY BudgetAssumption
<1> QED
  BY <1>1, <1>2, <1>3

LEMMA HandlersTyped ==
  ASSUME Typed,
         RegisterLook \/ RegisterInsert \/ EditRead \/ EditWrite \/ Upload
           \/ DeleteFlag \/ DeleteSend \/ AdminDelete
  PROVE  Fields'
<1> USE DEF pgVars, apiVars, jobVars, auxVars
<1>0. StoreFields /\ RequestFields /\ JobFields /\ BookFields /\ AccountControl
  BY DEF Typed, Fields, DeletionInv, Control
<1>a. {"register", "edit", "delete"} \subseteq Requests /\ NoArchive \in Archive \cup {NoArchive}
  BY DEF Requests
<1>b. AccountControl /\ account.gen \in Nat /\ Budget["edit"] \in Nat
  BY <1>0, BudgetAssumption DEF AccountControl, Requests
<1>c. \A i \in 1..Len(queue) : Placing(queue[i])
  BY <1>0 DEF JobFields
<1>1. CASE RegisterLook
  <2>1. JobFields'
    BY <1>1, <1>c, JobsAside DEF RegisterLook
  <2>2. RequestFields'
    BY <1>0, <1>1, <1>a, SpendTypes DEF RegisterLook, RequestFields
  <2> QED
    BY <1>0, <1>1, <2>1, <2>2 DEF RegisterLook, Fields, StoreFields, BookFields
<1>2. CASE RegisterInsert
  <2>1. JobFields'
    BY <1>2, <1>c, JobsAside DEF RegisterInsert
  <2>2. RequestFields'
    BY <1>0, <1>2 DEF RegisterInsert, RequestFields
  <2>3. StoreFields' /\ BookFields'
    BY <1>0, <1>2, <1>b, Records DEF RegisterInsert, StoreFields, BookFields
  <2> QED
    BY <2>1, <2>2, <2>3 DEF Fields
<1>3. CASE EditRead
  <2>1. JobFields'
    BY <1>3, <1>c, JobsAside DEF EditRead
  <2>2. RequestFields'
    BY <1>0, <1>3, <1>a, <1>b, SpendTypes DEF EditRead, RequestFields, StoreFields
  <2>3. StoreFields' /\ BookFields'
    BY <1>0, <1>3 DEF EditRead, StoreFields, BookFields, Overlap
  <2> QED
    BY <2>1, <2>2, <2>3 DEF Fields
<1>4. CASE EditWrite
  <2>1. JobFields'
    BY <1>4, <1>c, JobsAside DEF EditWrite
  <2>2. RequestFields'
    BY <1>0, <1>4, Records DEF EditWrite, RequestFields
  <2> DEFINE version == Budget["edit"] - left["edit"]
  <2>3. version \in 0..Budget["edit"]
    BY <1>0, <1>a, <1>b DEF RequestFields
  <2>4. editing.doc \in Doc
    BY <1>0 DEF RequestFields
  <2>5. Merge(editing.doc, [profile |-> version]) \in Doc
    BY <2>3, <2>4, MergeTypes
  <2>6. account'.doc \in Doc /\ saved' \in 0..Budget["edit"]
    <3>1. CASE account.exists
      <4>1. /\ account' = [account EXCEPT !.doc = Merge(editing.doc, [profile |-> version])]
            /\ saved' = version
        BY <1>4, <3>1 DEF EditWrite
      <4>2. account'.doc = Merge(editing.doc, [profile |-> version])
        BY <1>b, <4>1 DEF AccountControl
      <4> QED
        BY <2>3, <2>5, <4>1, <4>2
    <3>2. CASE ~account.exists
      BY <1>0, <1>4, <3>2 DEF EditWrite, StoreFields, BookFields
    <3> QED
      BY <3>1, <3>2
  <2>7. StoreFields' /\ BookFields'
    BY <1>0, <1>4, <2>6 DEF EditWrite, StoreFields, BookFields, Mixed
  <2> QED
    BY <2>1, <2>2, <2>7 DEF Fields
<1>5. CASE Upload
  <2>1. uploaded' \in Archive /\ uploaded' \in 0..Uploads
    BY <1>0, <1>5, UploadAssumption DEF Upload, Archive, RequestFields
  <2>2. Placing([name |-> "parse_archive", on |-> uploaded', gen |-> account.gen])
    BY <2>1 DEF Placing
  <2>3. \A i \in 1..Len(queue') : Placing(queue'[i])
    BY <1>5, <1>b, <2>2, QueueStep DEF Upload, TaskNames
  <2>4. JobFields'
    BY <1>5, <2>3, JobsAside DEF Upload
  <2>5. RequestFields'
    BY <1>0, <1>5, <2>1 DEF Upload, RequestFields
  <2>6. {<<uploaded', "archive">>} \subseteq Archive \X {"archive", "media"}
    BY <2>1
  <2>7. Late \subseteq {"late"}
    BY DEF Late
  <2>8. /\ archives' = archives \cup {uploaded'}
        /\ objects' = objects \cup {<<uploaded', "archive">>} /\ happened' = happened \cup Late
        /\ UNCHANGED <<account, posts, reactions, table, parsed, saved>>
    BY <1>5 DEF Upload
  <2>9. StoreFields' /\ BookFields'
    BY <1>0, <2>1, <2>6, <2>7, <2>8 DEF StoreFields, BookFields
  <2> QED
    BY <2>4, <2>5, <2>9 DEF Fields
<1>6. CASE DeleteFlag
  <2>1. JobFields'
    BY <1>6, <1>c, JobsAside DEF DeleteFlag
  <2>2. RequestFields'
    BY <1>0, <1>6, <1>a, SpendTypes DEF DeleteFlag, RequestFields
  <2>3. account'.doc = account.doc
    BY <1>6, <1>b DEF DeleteFlag, AccountControl
  <2> QED
    BY <1>0, <1>6, <2>1, <2>2, <2>3 DEF DeleteFlag, Fields, StoreFields, BookFields
<1>7. CASE DeleteSend
  <2>1. Placing([name |-> "delete_user_data", on |-> NoArchive, gen |-> account.gen])
    BY DEF Placing, ArchiveJobs
  <2>2. \A i \in 1..Len(queue') : Placing(queue'[i])
    BY <1>7, <1>b, <1>c, <2>1, QueueStep DEF DeleteSend, TaskNames
  <2>3. JobFields'
    BY <1>7, <2>2, JobsAside DEF DeleteSend
  <2> QED
    BY <1>0, <1>7, <2>3
    DEF DeleteSend, Fields, StoreFields, BookFields, RequestFields, AllFaults
<1>8. CASE AdminDelete
  <2>1. Placing([name |-> "delete_user_data", on |-> NoArchive, gen |-> account.gen])
    BY DEF Placing, ArchiveJobs
  <2>2. \A i \in 1..Len(queue') : Placing(queue'[i])
    BY <1>8, <1>b, <2>1, QueueStep DEF AdminDelete, TaskNames
  <2>3. JobFields'
    BY <1>8, <2>2, JobsAside DEF AdminDelete
  <2>4. RequestFields'
    BY <1>0, <1>8, <1>a, SpendTypes DEF AdminDelete, RequestFields
  <2> QED
    BY <1>0, <1>8, <2>3, <2>4 DEF AdminDelete, Fields, StoreFields, BookFields
<1> QED
  BY <1>1, <1>2, <1>3, <1>4, <1>5, <1>6, <1>7, <1>8

LEMMA JobFacts ==
  ASSUME Typed, NEW w \in Worker
  PROVE  /\ job[w].name \in Names /\ job[w].gen \in Nat /\ pc[w] \in StepsOf(job[w].name)
         /\ local[w] \in Local
         /\ \A range \in Bounds : [local[w] EXCEPT !.range = range] \in Local
         /\ \A found \in SUBSET Time : [local[w] EXCEPT !.found = found] \in Local
         /\ \A doc \in Doc : [local[w] EXCEPT !.doc = doc] \in Local
         /\ \A placed \in BOOLEAN : [local[w] EXCEPT !.placed = placed] \in Local
         /\ account.doc \in Doc /\ AccountControl
<1>1. job[w].name \in Names /\ job[w].gen \in Nat /\ pc[w] \in StepsOf(job[w].name)
  BY JobNames DEF Typed, DeletionInv, Control
<1>2. local[w] \in Local
  BY DEF Typed, Fields, JobFields
<1>3. ASSUME NEW range \in Bounds PROVE [local[w] EXCEPT !.range = range] \in Local
  BY <1>2 DEF Local, Bounds
<1>4. ASSUME NEW found \in SUBSET Time PROVE [local[w] EXCEPT !.found = found] \in Local
  BY <1>2 DEF Local
<1>5. ASSUME NEW doc \in Doc PROVE [local[w] EXCEPT !.doc = doc] \in Local
  BY <1>2 DEF Local
<1>6. ASSUME NEW placed \in BOOLEAN PROVE [local[w] EXCEPT !.placed = placed] \in Local
  BY <1>2 DEF Local
<1>7. account.doc \in Doc /\ AccountControl
  BY DEF Typed, Fields, StoreFields, DeletionInv, Control
<1> QED
  BY <1>1, <1>2, <1>3, <1>4, <1>5, <1>6, <1>7

LEMMA BookSets ==
  /\ Late \subseteq {"late"} /\ Overlap \subseteq {"overlap"}
  /\ \A gen : Mixed(gen) \subseteq {"mixed"}
BY DEF Late, Overlap, Mixed

LEMMA RequestsAside ==
  ASSUME Typed, UNCHANGED apiVars
  PROVE  RequestFields'
BY DEF Typed, Fields, RequestFields, apiVars

LEMMA InsertTypes ==
  ASSUME Typed, NEW w \in Worker, InsertPosts(w) \/ InsertComplex(w) \/ InsertReactions(w)
  PROVE  Fields'
<1> USE DEF pgVars, jobVars, auxVars
<1>0. StoreFields /\ BookFields
  BY DEF Typed, Fields
<1>1. job[w].on \in Archive
  <2>1. job[w].name = "parse_archive"
    BY JobFacts, StepsOfNames DEF InsertPosts, InsertComplex, InsertReactions, At
  <2> QED
    BY <2>1, OwnArchive DEF ArchiveJobs
<1>2. FreshPosts(w) \subseteq Time /\ Reactions[job[w].on] \subseteq Time
  BY <1>1, PostsAssumption, ReactionsAssumption DEF FreshPosts
<1>3. /\ posts' \subseteq Time /\ reactions' \subseteq Time
      /\ UNCHANGED <<account, archives, table, objects, queue, auxVars, apiVars>>
      /\ happened' \subseteq happened \cup Mixed(job[w].gen) \cup {"insert"}
      /\ \E step \in {"complex", "reactions", "media"} : Goto(w, step, local[w])
  <2>1. CASE InsertPosts(w)
    BY <1>0, <1>2, <2>1 DEF InsertPosts, Insert, StoreFields
  <2>2. CASE InsertComplex(w)
    BY <1>0, <1>2, <2>2 DEF InsertComplex, Insert, StoreFields
  <2>3. CASE InsertReactions(w)
    BY <1>0, <1>2, <2>3 DEF InsertReactions, Insert, StoreFields
  <2> QED
    BY <2>1, <2>2, <2>3
<1>4. JobFields'
  BY <1>3, LocalStep, JobFacts
<1>5. StoreFields' /\ BookFields'
  BY <1>0, <1>3, BookSets DEF StoreFields, BookFields, AllFaults
<1> QED
  BY <1>3, <1>4, <1>5, RequestsAside DEF Fields

LEMMA StartTypes ==
  ASSUME Typed, NEW w \in Worker, Start(w)
  PROVE  Fields'
<1> USE DEF pgVars, jobVars, auxVars
<1>1. queue \in Seq(LooseTask) /\ queue # <<>> /\ pc[w] = "idle"
  BY DEF Typed, DeletionInv, Control, QueueControl, Start, At
<1>2. /\ job' = [job EXCEPT ![w] = queue[1]] /\ queue' = Tail(queue) /\ UNCHANGED local
      /\ pc' = [pc EXCEPT ![w] = FirstStep(queue[1].name)]
  <2>1. Head(queue) = queue[1]
    BY <1>1
  <2> QED
    BY <2>1 DEF Start
<1>3. 1 \in 1..Len(queue) /\ \A i \in 1..Len(queue') : i + 1 \in 1..Len(queue) /\ queue'[i] = queue[i + 1]
  BY <1>1, <1>2
<1>4. JobFields /\ JobControl
  BY DEF Typed, Fields, DeletionInv, Control
<1>5. queue[1].name \in TaskNames
  <2>1. queue[1] \in LooseTask
    BY <1>1, <1>3
  <2> QED
    BY <2>1 DEF LooseTask
<1>6. FirstStep(queue[1].name) # "idle"
  BY <1>5 DEF TaskNames, FirstStep
<1>7. \A i \in 1..Len(queue') : Placing(queue'[i])
  BY <1>3, <1>4 DEF JobFields
<1>8. ASSUME NEW v \in Worker PROVE Placing(job'[v]) /\ (pc'[v] = "idle" => local'[v] = NoLocal)
  BY <1>2, <1>3, <1>4, <1>6 DEF JobFields, JobControl
<1>9. JobFields'
  BY <1>2, <1>4, <1>7, <1>8 DEF JobFields
<1>10. StoreFields' /\ BookFields'
  <2>1. StoreFields /\ BookFields
    BY DEF Typed, Fields
  <2>2. happened' \subseteq happened \cup Overlap /\ UNCHANGED <<pgVars, table, objects, auxVars>>
    BY DEF Start
  <2> QED
    BY <2>1, <2>2, BookSets DEF StoreFields, BookFields
<1> QED
  BY <1>9, <1>10, RequestsAside DEF Fields, Start

LEMMA SendTypes ==
  ASSUME Typed, NEW w \in Worker,
         \/ pc[w] = "media" /\ Send("analyze_posts", job[w].on, job[w].gen)
         \/ /\ pc[w] \in {"read_doc", "write_location"}
            /\ Send("analyze_reactions", job[w].on, job[w].gen)
         \/ Send("extract_time_metadata", NoArchive, job[w].gen)
  PROVE  \A i \in 1..Len(queue') : Placing(queue'[i])
<1>1. job[w].gen \in Nat
  BY JobFacts
<1>2. CASE Send("extract_time_metadata", NoArchive, job[w].gen)
  <2>1. /\ "extract_time_metadata" \in TaskNames
        /\ Placing([name |-> "extract_time_metadata", on |-> NoArchive, gen |-> job[w].gen])
    BY DEF Placing, ArchiveJobs, TaskNames
  <2> QED
    BY <1>1, <1>2, <2>1, QueueStep
<1>3. CASE pc[w] \in {"media", "read_doc", "write_location"}
  <2>1. job[w].name \in ArchiveJobs
    BY <1>3, JobFacts, StepsOfNames DEF ArchiveJobs
  <2>2. job[w].on \in Archive
    BY <2>1, OwnArchive
  <2>3. \A n : Placing([name |-> n, on |-> job[w].on, gen |-> job[w].gen])
    BY <2>2 DEF Placing
  <2>4. {"analyze_posts", "analyze_reactions"} \subseteq TaskNames
    BY DEF TaskNames
  <2>5. \A n \in {"analyze_posts", "analyze_reactions"} :
          Send(n, job[w].on, job[w].gen) => \A i \in 1..Len(queue') : Placing(queue'[i])
    BY <1>1, <2>3, <2>4, QueueStep
  <2> QED
    BY <1>2, <2>5
<1> QED
  BY <1>2, <1>3

\* Steps of the chain after the inserts.
LEMMA ChainTypes ==
  ASSUME Typed, NEW w \in Worker,
         \/ ReadRange(w) \/ UploadMedia(w) \/ SavePosts(w) \/ ReadDoc(w) \/ WriteLocation(w)
         \/ SaveReactions(w)
  PROVE  Fields'
<1> USE DEF pgVars, jobVars, auxVars
<1>0. StoreFields /\ BookFields /\ JobFields
  BY DEF Typed, Fields
<1>a. \A i \in 1..Len(queue) : Placing(queue[i])
  BY <1>0 DEF JobFields
<1>1. CASE ReadRange(w)
  <2>1. CASE Finish(w) /\ UNCHANGED queue
    BY <1>0, <1>1, <1>a, <2>1, LocalEnd, RequestsAside
    DEF ReadRange, Fields, StoreFields, BookFields
  <2>2. CASE Goto(w, "posts", [local[w] EXCEPT !.range = [first |-> account.doc.first,
                                                         last |-> account.doc.last]])
    <3>1. [first |-> account.doc.first, last |-> account.doc.last] \in Bounds
      BY JobFacts, DocFields DEF Bounds
    <3>2. JobFields'
      BY <1>1, <2>2, <3>1, JobFacts, LocalStep DEF ReadRange
    <3> QED
      BY <1>0, <1>1, <3>2, RequestsAside DEF ReadRange, Fields, StoreFields, BookFields
  <2> QED
    BY <1>1, <2>1, <2>2 DEF ReadRange
<1>2. CASE UploadMedia(w)
  <2>1. job[w].on \in Archive
    <3>1. job[w].name = "parse_archive"
      BY <1>2, JobFacts, StepsOfNames DEF UploadMedia, At
    <3> QED
      BY <3>1, OwnArchive DEF ArchiveJobs
  <2>2. JobFields'
    BY <1>2, SendTypes, LocalEnd DEF UploadMedia, At
  <2>3. {<<job[w].on, "media">>} \subseteq Archive \X {"archive", "media"}
    BY <2>1
  <2>4. happened' \subseteq happened \cup Late \cup {"dark"}
    BY <1>2 DEF UploadMedia
  <2>5. /\ objects' = objects \cup {<<job[w].on, "media">>} /\ parsed' \subseteq parsed \cup {job[w].on}
        /\ UNCHANGED <<pgVars, table, saved>>
    BY <1>2 DEF UploadMedia
  <2>6. StoreFields' /\ BookFields'
    BY <1>0, <2>1, <2>3, <2>4, <2>5, BookSets DEF StoreFields, BookFields
  <2> QED
    BY <1>2, <2>2, <2>6, RequestsAside DEF UploadMedia, Fields
<1>3. CASE SavePosts(w)
  <2>1. [local[w] EXCEPT !.placed = posts \cap Placed # {}] \in Local
    BY JobFacts
  <2>2. JobFields'
    BY <1>3, <2>1, LocalStep DEF SavePosts
  <2>3. Items(PostKeys, posts) \subseteq Item /\ EmptyStats \subseteq Item
    BY <1>0, ItemTypes, EmptyTypes DEF StoreFields
  <2>4. /\ happened' \subseteq happened \cup Late \cup {"empty"}
        /\ table' \in {table \cup Items(PostKeys, posts), table \cup EmptyStats}
        /\ UNCHANGED <<pgVars, objects, auxVars>>
    BY <1>3 DEF SavePosts
  <2>5. StoreFields' /\ BookFields'
    BY <1>0, <2>3, <2>4, BookSets DEF StoreFields, BookFields
  <2> QED
    BY <1>3, <2>2, <2>5, RequestsAside DEF SavePosts, Fields
<1>4. CASE ReadDoc(w)
  <2>1. JobFields'
    <3>1. CASE account.exists
      BY <1>4, <3>1, JobFacts, LocalStep DEF ReadDoc
    <3>2. CASE ~account.exists
      BY <1>4, <3>2, SendTypes, LocalEnd DEF ReadDoc, At
    <3> QED
      BY <3>1, <3>2
  <2>2. happened' \subseteq happened \cup Overlap /\ UNCHANGED <<pgVars, table, objects, auxVars>>
    BY <1>4 DEF ReadDoc
  <2>3. StoreFields' /\ BookFields'
    BY <1>0, <2>2, BookSets DEF StoreFields, BookFields
  <2> QED
    BY <1>4, <2>1, <2>3, RequestsAside DEF ReadDoc, Fields
<1>5. CASE WriteLocation(w)
  <2>1. JobFields'
    BY <1>5, SendTypes, LocalEnd DEF WriteLocation, At
  <2>2. local[w].doc \in Doc
    BY JobFacts DEF Local
  <2>3. account'.doc \in Doc
    <3> DEFINE update == IF local[w].placed THEN [location |-> TRUE] ELSE <<>>
    <3>1. Merge(local[w].doc, update) \in Doc
      BY <2>2, MergeTypes
    <3>2. account' = IF account.exists
                     THEN [account EXCEPT !.doc = Merge(local[w].doc, update)] ELSE account
      BY <1>5 DEF WriteLocation, UpdateDoc
    <3> HIDE DEF update
    <3> QED
      BY <3>1, <3>2, JobFacts DEF AccountControl
  <2>4. /\ happened' = happened \cup Mixed(job[w].gen)
        /\ UNCHANGED <<posts, reactions, archives, table, objects, auxVars>>
    BY <1>5 DEF WriteLocation
  <2>5. StoreFields' /\ BookFields'
    BY <1>0, <2>3, <2>4, BookSets DEF StoreFields, BookFields
  <2> QED
    BY <1>5, <2>1, <2>5, RequestsAside DEF WriteLocation, Fields
<1>6. CASE SaveReactions(w)
  <2>1. JobFields'
    BY <1>6, SendTypes, LocalEnd DEF SaveReactions
  <2>2. Items(ReactionKeys, reactions) \subseteq Item
    BY <1>0, ItemTypes DEF StoreFields
  <2>3. /\ happened' \subseteq happened \cup Late /\ table' = table \cup Items(ReactionKeys, reactions)
        /\ UNCHANGED <<pgVars, objects, auxVars>>
    BY <1>6 DEF SaveReactions
  <2>4. StoreFields' /\ BookFields'
    BY <1>0, <2>2, <2>3, BookSets DEF StoreFields, BookFields
  <2> QED
    BY <1>6, <2>1, <2>4, RequestsAside DEF SaveReactions, Fields
<1> QED
  BY <1>1, <1>2, <1>3, <1>4, <1>5, <1>6

\* Steps of extract_time_metadata.
LEMMA TimeTypes ==
  ASSUME Typed, NEW w \in Worker,
         ReadPosts(w) \/ ReadReactions(w) \/ ReadTimeDoc(w) \/ WriteRange(w)
  PROVE  Fields'
<1> USE DEF pgVars, jobVars, auxVars
<1>0. StoreFields /\ BookFields /\ JobFields
  BY DEF Typed, Fields
<1>a. \A i \in 1..Len(queue) : Placing(queue[i])
  BY <1>0 DEF JobFields
<1>1. CASE ReadPosts(w)
  <2>1. JobFields'
    BY <1>0, <1>1, JobFacts, LocalStep DEF ReadPosts, StoreFields
  <2>2. happened' \subseteq happened \cup Overlap /\ UNCHANGED <<pgVars, table, objects, auxVars>>
    BY <1>1 DEF ReadPosts
  <2> QED
    BY <1>0, <1>1, <2>1, <2>2, BookSets, RequestsAside DEF ReadPosts, Fields, StoreFields, BookFields
<1>2. CASE ReadReactions(w)
  <2>1. local[w] \in Local /\ local[w].found \in SUBSET Time
    BY JobFacts DEF Local
  <2>2. Range(local[w].found, reactions) \in Bounds
    BY <1>0, <2>1, RangeOf DEF StoreFields
  <2>3. [local[w] EXCEPT !.range = Range(local[w].found, reactions), !.found = {}] \in Local
    BY <2>1, <2>2 DEF Local, Bounds
  <2>4. JobFields'
    BY <1>2, <2>3, LocalStep DEF ReadReactions
  <2> QED
    BY <1>0, <1>2, <2>4, RequestsAside DEF ReadReactions, Fields, StoreFields, BookFields
<1>3. CASE ReadTimeDoc(w)
  <2>1. JobFields'
    BY <1>3, <1>a, JobFacts, LocalStep, LocalEnd DEF ReadTimeDoc
  <2> QED
    BY <1>0, <1>3, <2>1, RequestsAside DEF ReadTimeDoc, Fields, StoreFields, BookFields
<1>4. CASE WriteRange(w)
  <2>1. JobFields'
    BY <1>4, <1>a, LocalEnd DEF WriteRange
  <2>2. local[w].doc \in Doc /\ local[w].range \in Bounds
    BY JobFacts DEF Local, Bounds
  <2>3. Merge(local[w].doc, local[w].range) \in Doc
    BY <2>2, MergeTypes
  <2>4. account' = IF account.exists
                   THEN [account EXCEPT !.doc = Merge(local[w].doc, local[w].range)] ELSE account
    BY <1>4 DEF WriteRange, UpdateDoc
  <2>5. account'.doc \in Doc
    BY <2>3, <2>4, JobFacts DEF AccountControl
  <2>6. /\ happened' = happened \cup Mixed(job[w].gen)
        /\ UNCHANGED <<posts, reactions, archives, table, objects, auxVars>>
    BY <1>4 DEF WriteRange
  <2>7. StoreFields' /\ BookFields'
    BY <1>0, <2>5, <2>6, BookSets DEF StoreFields, BookFields
  <2> QED
    BY <1>4, <2>1, <2>7, RequestsAside DEF WriteRange, Fields
<1> QED
  BY <1>1, <1>2, <1>3, <1>4

\* Steps of delete_user_data, and the end of any job.
LEMMA DeletionTypes ==
  ASSUME Typed, NEW w \in Worker,
         RemoveStat(w) \/ RemoveObjects(w) \/ RemoveAccount(w) \/ JobLost(w)
  PROVE  Fields'
<1> USE DEF pgVars, jobVars, auxVars
<1>0. StoreFields /\ BookFields /\ JobFields
  BY DEF Typed, Fields
<1>a. \A i \in 1..Len(queue) : Placing(queue[i])
  BY <1>0 DEF JobFields
<1>1. CASE RemoveStat(w)
  <2>1. JobFields'
    <3>1. CASE local[w].step = Len(RemovedKeys)
      BY <1>1, <3>1, JobFacts, LocalStep DEF RemoveStat
    <3>2. CASE local[w].step # Len(RemovedKeys)
      <4>1. local[w] \in Local /\ local[w].step + 1 \in 1..Len(RemovedKeys)
        BY <3>2, JobFacts DEF Local, RemovedKeys
      <4>2. [local[w] EXCEPT !.step = @ + 1] \in Local
        BY <4>1 DEF Local
      <4> QED
        BY <1>1, <3>2, <4>2, LocalStep DEF RemoveStat
    <3> QED
      BY <3>1, <3>2
  <2>2. /\ table' \subseteq table /\ happened' \subseteq happened \cup {"page", "remove"}
        /\ UNCHANGED <<pgVars, objects, auxVars>>
    BY <1>1 DEF RemoveStat
  <2>3. StoreFields' /\ BookFields'
    BY <1>0, <2>2 DEF StoreFields, BookFields, AllFaults
  <2> QED
    BY <1>1, <2>1, <2>3, RequestsAside DEF RemoveStat, Fields
<1>2. CASE RemoveObjects(w)
  <2>1. JobFields'
    BY <1>2, JobFacts, LocalStep DEF RemoveObjects
  <2>2. /\ objects' \subseteq objects /\ happened' \subseteq happened \cup {"remove"}
        /\ UNCHANGED <<pgVars, table, auxVars>>
    BY <1>2 DEF RemoveObjects
  <2>3. StoreFields' /\ BookFields'
    BY <1>0, <2>2 DEF StoreFields, BookFields, AllFaults
  <2> QED
    BY <1>2, <2>1, <2>3, RequestsAside DEF RemoveObjects, Fields
<1>3. CASE RemoveAccount(w)
  <2>1. JobFields'
    BY <1>3, <1>a, LocalEnd DEF RemoveAccount
  <2>2. /\ posts' \subseteq posts /\ reactions' \subseteq reactions /\ archives' \subseteq archives
        /\ happened' \subseteq happened \cup Mixed(job[w].gen) \cup {"database"}
        /\ UNCHANGED <<table, objects, auxVars>>
    BY <1>3 DEF RemoveAccount
  <2>3. account'.doc \in Doc
    BY <1>0, <1>3, JobFacts, Records DEF RemoveAccount, AccountControl
  <2>4. StoreFields' /\ BookFields'
    BY <1>0, <2>2, <2>3, BookSets DEF StoreFields, BookFields, AllFaults
  <2> QED
    BY <1>3, <2>1, <2>4, RequestsAside DEF RemoveAccount, Fields
<1>4. CASE JobLost(w)
  <2>1. JobFields'
    BY <1>4, <1>a, LocalEnd DEF JobLost
  <2> QED
    BY <1>0, <1>4, <2>1, RequestsAside DEF JobLost, Fields, StoreFields, BookFields, AllFaults
<1> QED
  BY <1>1, <1>2, <1>3, <1>4

LEMMA InitTyped == Init => Typed
<1> SUFFICES ASSUME Init PROVE Typed
  OBVIOUS
<1>1. account.doc = NewDoc
  BY DEF Init
<1>2. StoreFields
  BY <1>1, Records DEF Init, StoreFields
<1>3. RequestFields
  BY Records, UploadAssumption, BudgetAssumption DEF Init, RequestFields
<1>4. JobFields
  <2>1. Placing(NoTask)
    BY DEF Placing, NoTask, ArchiveJobs
  <2> QED
    BY <2>1, Records DEF Init, JobFields
<1>5. BookFields
  BY BudgetAssumption DEF Init, BookFields, Requests
<1> QED
  BY <1>2, <1>3, <1>4, <1>5, InitDeletion DEF Typed, Fields

LEMMA StepTyped == Typed /\ [Next]_vars => Typed'
<1> SUFFICES ASSUME Typed, [Next]_vars PROVE Typed'
  OBVIOUS
<1>1. DeletionInv'
  BY StepDeletion DEF Typed
<1>2. CASE UNCHANGED vars
  <2>1. UNCHANGED <<account, posts, reactions, archives, table, objects, saved, parsed,
                    happened>>
    BY <1>2 DEF vars, pgVars, auxVars
  <2>2. StoreFields' /\ BookFields'
    BY <2>1 DEF Typed, Fields, StoreFields, BookFields
  <2>3. UNCHANGED <<queue, job, pc, local>> /\ UNCHANGED apiVars
    BY <1>2 DEF vars, jobVars
  <2>4. JobFields'
    BY <2>3, JobsAside DEF Typed, Fields, JobFields
  <2> QED
    BY <1>1, <2>2, <2>3, <2>4, RequestsAside DEF Typed, Fields
<1>3. CASE RegisterLook \/ RegisterInsert \/ EditRead \/ EditWrite \/ Upload
           \/ DeleteFlag \/ DeleteSend \/ AdminDelete
  BY <1>1, <1>3, HandlersTyped DEF Typed
<1>4. ASSUME NEW w \in Worker, JobStep(w) \/ JobLost(w) PROVE Fields'
  BY <1>4, StartTypes, InsertTypes, ChainTypes, TimeTypes, DeletionTypes DEF JobStep
<1> QED
  BY <1>1, <1>2, <1>3, <1>4 DEF Next, Typed

(***************************************************************************)
(* The types hold, and every worker is at a step of the job of its task, for  *)
(* all workers, archives, rows, requests and failures.                       *)
(***************************************************************************)
THEOREM TypeCorrect == Spec => []TypeOK
<1>1. Spec => []Typed
  BY InitTyped, StepTyped, PTL DEF Spec
<1> QED
  BY <1>1, TypedTypes, PTL

-----------------------------------------------------------------------------
(* What a deletion leaves. *)

\* What a later analysis may have left.
Residue == IF "empty" \in happened THEN EmptyStats ELSE {}

\* A worker in delete_user_data has emptied what it has passed.
Emptied(w) ==
  job[w].name = "delete_user_data" =>
    /\ pc[w] = "remove" => \A k \in 1..(local[w].step - 1) : KeyItems(RemovedKeys[k]) \subseteq Residue
    /\ pc[w] \in {"remove_objects", "remove_account"} => table \subseteq Residue
    /\ pc[w] = "remove_account" => objects = {}

RowsOfAccount == ~account.exists => posts = {} /\ reactions = {} /\ archives = {}

NothingLeft ==
  Without({"late", "remove", "page"}) =>
    /\ ~account.exists => table \subseteq Residue /\ objects = {}
    /\ \A w \in Worker : Emptied(w)

LEMMA AllKeys ==
  ASSUME NEW stored, stored \subseteq Item, NEW rest,
         \A k \in 1..Len(RemovedKeys) : {i \in stored : i.key = RemovedKeys[k]} \subseteq rest
  PROVE  stored \subseteq rest
<1> SUFFICES ASSUME NEW i \in stored PROVE i \in rest
  OBVIOUS
<1>1. i.key \in PostKeys \cup ReactionKeys
  BY DEF Item
<1>2. PICK k \in 1..Len(RemovedKeys) : RemovedKeys[k] = i.key
  <2>1. /\ Len(RemovedKeys) = 8
        /\ RemovedKeys[1] = "post-week-stat" /\ RemovedKeys[2] = "post-year-stat"
        /\ RemovedKeys[3] = "post-decade-stat" /\ RemovedKeys[4] = "reaction-week-stat"
        /\ RemovedKeys[5] = "reaction-year-stat" /\ RemovedKeys[6] = "reaction-decade-stat"
        /\ RemovedKeys[7] = "post" /\ RemovedKeys[8] = "reaction"
    BY DEF RemovedKeys
  <2> QED
    BY <1>1, <2>1 DEF PostKeys, ReactionKeys
<1> QED
  BY <1>2

\* A step of worker w.
Apart(w) == \A v \in Worker : v # w => job'[v] = job[v] /\ pc'[v] = pc[v] /\ local'[v] = local[v]

LEMMA GotoCall ==
  ASSUME Typed, NEW w \in Worker, NEW step, NEW locals, Goto(w, step, locals)
  PROVE  Apart(w) /\ pc'[w] = step /\ local'[w] = locals /\ job' = job
BY DEF Goto, Apart, Typed, DeletionInv, Control, JobControl, Fields, JobFields

LEMMA FinishCall ==
  ASSUME Typed, NEW w \in Worker, Finish(w)
  PROVE  Apart(w) /\ pc'[w] = "idle" /\ local'[w] = NoLocal /\ job'[w] = NoTask
BY DEF Finish, Apart, Typed, DeletionInv, Control, JobControl, Fields, JobFields

\* What Start does.
LEMMA Starts ==
  ASSUME Typed, NEW w \in Worker, Start(w)
  PROVE  /\ Apart(w) /\ pc[w] = "idle" /\ job[w] = NoTask /\ local[w] = NoLocal
         /\ local' = local
         /\ 1 \in 1..Len(queue) /\ job'[w] = queue[1] /\ queue[1] \in LooseTask
         /\ pc'[w] = FirstStep(queue[1].name)
         /\ Len(queue') = Len(queue) - 1
         /\ \A i \in 1..Len(queue') : i + 1 \in 1..Len(queue) /\ queue'[i] = queue[i + 1]
<1>1. queue \in Seq(LooseTask) /\ queue # <<>> /\ pc[w] = "idle"
  BY DEF Typed, DeletionInv, Control, QueueControl, Start, At
<1>2. Head(queue) = queue[1] /\ 1 \in 1..Len(queue) /\ queue[1] \in LooseTask
  BY <1>1
<1>3. /\ job' = [job EXCEPT ![w] = queue[1]] /\ queue' = Tail(queue) /\ local' = local
      /\ pc' = [pc EXCEPT ![w] = FirstStep(queue[1].name)]
  BY <1>2 DEF Start
<1>4. job \in [Worker -> LooseTask \cup {NoTask}] /\ pc \in [Worker -> AnyStep]
  BY DEF Typed, DeletionInv, Control, JobControl
<1>5. Apart(w) /\ job'[w] = queue[1] /\ pc'[w] = FirstStep(queue[1].name)
  BY <1>3, <1>4 DEF Apart
<1>6. /\ Len(queue') = Len(queue) - 1
      /\ \A i \in 1..Len(queue') : i + 1 \in 1..Len(queue) /\ queue'[i] = queue[i + 1]
  BY <1>1, <1>3
<1>7. job[w] = NoTask
  <2>1. job[w].name = "none"
    BY <1>1, JobFacts, StepsOfNames
  <2>2. job[w] \in LooseTask \cup {NoTask} /\ "none" \notin TaskNames
    BY <1>4 DEF TaskNames
  <2> QED
    BY <2>1, <2>2 DEF LooseTask
<1>8. local[w] = NoLocal
  BY <1>1 DEF Typed, Fields, JobFields
<1> QED
  BY <1>1, <1>2, <1>3, <1>5, <1>6, <1>7, <1>8

LEMMA ResidueStays ==
  ASSUME happened \subseteq happened'
  PROVE  Residue \subseteq Residue'
BY DEF Residue, EmptyStats, Items

\* A step that stores nothing but empty statistics and leaves the other workers where they are.
LEMMA NothingStored ==
  ASSUME NothingLeft, NEW w \in Worker, Apart(w), happened \subseteq happened',
         table' \subseteq table \cup Residue', objects' \subseteq objects,
         Without({"late", "remove", "page"})' =>
            /\ Emptied(w)'
            /\ ~account'.exists => ~account.exists \/ (table' \subseteq Residue' /\ objects' = {})
  PROVE  NothingLeft'
<1> SUFFICES ASSUME Without({"late", "remove", "page"})'
             PROVE  /\ ~account'.exists => table' \subseteq Residue' /\ objects' = {}
                    /\ \A v \in Worker : Emptied(v)'
  BY DEF NothingLeft
<1>1. Without({"late", "remove", "page"})
  BY DEF Without
<1>2. Residue \subseteq Residue'
  BY ResidueStays
<1>3. ASSUME NEW v \in Worker, v # w PROVE Emptied(v)'
  <2>1. job'[v] = job[v] /\ pc'[v] = pc[v] /\ local'[v] = local[v]
    BY <1>3 DEF Apart
  <2>2. Emptied(v)
    BY <1>1 DEF NothingLeft
  <2>3. \A key : KeyItems(key) \subseteq Residue => KeyItems(key)' \subseteq Residue'
    BY <1>2 DEF KeyItems
  <2>4. table \subseteq Residue => table' \subseteq Residue'
    BY <1>2
  <2> QED
    BY <2>1, <2>2, <2>3, <2>4 DEF Emptied
<1> QED
  BY <1>1, <1>2, <1>3 DEF NothingLeft

\* A step that stores, beside no deletion.
LEMMA SomethingStored ==
  ASSUME NothingLeft, ~Deleting, account'.exists, \A v \in Worker : job'[v] \in {job[v], NoTask}
  PROVE  NothingLeft'
<1>1. \A v \in Worker : job'[v].name # "delete_user_data"
  BY DEF Deleting, NoTask
<1> QED
  BY <1>1 DEF NothingLeft, Emptied

LEMMA RemovedByHandlers ==
  ASSUME Typed, NothingLeft, RowsOfAccount,
         RegisterLook \/ RegisterInsert \/ EditRead \/ EditWrite \/ Upload
           \/ DeleteFlag \/ DeleteSend \/ AdminDelete
  PROVE  NothingLeft' /\ RowsOfAccount'
<1> USE DEF pgVars, apiVars, jobVars, auxVars
<1>0. AccountControl
  BY DEF Typed, DeletionInv, Control
<1>1. CASE RegisterLook \/ RegisterInsert \/ EditRead \/ EditWrite \/ DeleteFlag \/ DeleteSend
           \/ AdminDelete
  <2>1. /\ UNCHANGED <<posts, reactions, archives, table, objects, job, pc, local>>
        /\ happened \subseteq happened'
    BY <1>1 DEF RegisterLook, RegisterInsert, EditRead, EditWrite, DeleteFlag, DeleteSend, AdminDelete
  <2>2. ~account'.exists => ~account.exists
    <3>1. account' = account \/ (\E doc : account' = [account EXCEPT !.doc = doc])
            \/ account' = [account EXCEPT !.deleting = TRUE]
            \/ account' = [exists |-> TRUE, deleting |-> FALSE, doc |-> NewDoc, gen |-> account.gen + 1]
      BY <1>1 DEF RegisterLook, RegisterInsert, EditRead, EditWrite, DeleteFlag, DeleteSend, AdminDelete
    <3> QED
      BY <1>0, <3>1 DEF AccountControl
  <2>3. NothingLeft'
    <3>1. Residue \subseteq Residue'
      BY <2>1, ResidueStays
    <3> QED
      BY <2>1, <2>2, <3>1 DEF NothingLeft, Without, Emptied, KeyItems
  <2> QED
    BY <2>1, <2>2, <2>3 DEF RowsOfAccount
<1>2. CASE Upload
  <2>1. account.exists /\ account' = account /\ UNCHANGED <<job, pc, local>>
    BY <1>2 DEF Upload
  <2>2. CASE Deleting
    <3>1. "late" \in happened'
      BY <1>2, <2>2 DEF Upload, Late
    <3> QED
      BY <2>1, <3>1 DEF NothingLeft, RowsOfAccount, Without
  <2>3. CASE ~Deleting
    BY <2>1, <2>3, SomethingStored DEF RowsOfAccount
  <2> QED
    BY <2>2, <2>3
<1> QED
  BY <1>1, <1>2

LEMMA RemovedByJobs ==
  ASSUME Typed, NothingLeft, RowsOfAccount, NEW w \in Worker,
         \/ Start(w) \/ ReadRange(w) \/ InsertPosts(w) \/ InsertComplex(w) \/ InsertReactions(w)
         \/ ReadDoc(w) \/ WriteLocation(w)
         \/ ReadPosts(w) \/ ReadReactions(w) \/ ReadTimeDoc(w) \/ WriteRange(w)
         \/ JobLost(w)
  PROVE  NothingLeft' /\ RowsOfAccount'
<1> USE DEF pgVars, apiVars, jobVars, auxVars
<1>0. AccountControl
  BY DEF Typed, DeletionInv, Control
<1>1. UNCHANGED <<table, objects>> /\ happened \subseteq happened'
  BY DEF Start, ReadRange, InsertPosts, InsertComplex, InsertReactions, Insert, ReadDoc, WriteLocation,
     ReadPosts, ReadReactions, ReadTimeDoc, WriteRange, JobLost
<1>2. account'.exists = account.exists
  <2>1. account' = account \/ \E doc : account' = [account EXCEPT !.doc = doc]
    BY DEF Start, ReadRange, InsertPosts, InsertComplex, InsertReactions, ReadDoc, WriteLocation,
       ReadPosts, ReadReactions, ReadTimeDoc, WriteRange, JobLost, UpdateDoc
  <2> QED
    BY <1>0, <2>1, DocKeeps
<1>3. RowsOfAccount'
  <2>1. ~account.exists => UNCHANGED <<posts, reactions, archives>>
    BY DEF Start, ReadRange, InsertPosts, InsertComplex, InsertReactions, Insert, ReadDoc,
       WriteLocation, ReadPosts, ReadReactions, ReadTimeDoc, WriteRange, JobLost
  <2> QED
    BY <1>2, <2>1 DEF RowsOfAccount
<1>4. Apart(w) /\ Emptied(w)'
  <2>1. CASE Start(w)
    <3>1. Apart(w) /\ job'[w] = queue[1] /\ pc'[w] = FirstStep(queue[1].name) /\ local'[w] = NoLocal
      BY <2>1, Starts
    <3>2. job'[w].name = "delete_user_data" => pc'[w] = "remove"
      BY <3>1 DEF FirstStep
    <3>3. local'[w].step = 1
      BY <3>1 DEF NoLocal
    <3> QED
      BY <3>1, <3>2, <3>3 DEF Emptied
  <2>2. CASE JobLost(w)
    BY <2>2, GotoCall, FinishCall DEF JobLost, Emptied, NoTask
  <2>3. CASE ~Start(w) /\ ~JobLost(w)
    <3>1. job[w].name # "delete_user_data"
      BY <2>3, JobFacts, StepsOfNames
      DEF ReadRange, InsertPosts, InsertComplex, InsertReactions, ReadDoc, WriteLocation,
          ReadPosts, ReadReactions, ReadTimeDoc, WriteRange, At
    <3>2. Finish(w) \/ \E step, locals : Goto(w, step, locals)
      BY <2>3 DEF ReadRange, InsertPosts, InsertComplex, InsertReactions, Insert, ReadDoc, WriteLocation,
          ReadPosts, ReadReactions, ReadTimeDoc, WriteRange
    <3>3. CASE Finish(w)
      BY <3>3, GotoCall, FinishCall DEF Emptied, NoTask
    <3>4. ASSUME NEW step, NEW locals, Goto(w, step, locals) PROVE Apart(w) /\ Emptied(w)'
      BY <3>1, <3>4, GotoCall, FinishCall DEF Emptied
    <3> QED
      BY <3>2, <3>3, <3>4
  <2> QED
    BY <2>1, <2>2, <2>3
<1> QED
  BY <1>1, <1>2, <1>3, <1>4, NothingStored

LEMMA RemovedByStoring ==
  ASSUME Typed, NothingLeft, RowsOfAccount, NEW w \in Worker,
         UploadMedia(w) \/ SavePosts(w) \/ SaveReactions(w)
  PROVE  NothingLeft' /\ RowsOfAccount'
<1> USE DEF pgVars, apiVars, jobVars, auxVars
<1>1. UNCHANGED <<account, posts, reactions, archives>> /\ happened \subseteq happened'
  BY DEF UploadMedia, SavePosts, SaveReactions
<1>2. job[w].name # "delete_user_data"
  BY JobFacts, StepsOfNames DEF UploadMedia, SavePosts, SaveReactions, At
<1>3. Apart(w) /\ job'[w] \in {job[w], NoTask}
  BY GotoCall, FinishCall DEF UploadMedia, SavePosts, SaveReactions
<1>4. CASE "late" \in happened'
  BY <1>1, <1>4 DEF NothingLeft, RowsOfAccount, Without
<1>5. CASE Deleting \/ ~account.exists => "late" \in happened'
  <2>1. CASE ~Deleting /\ account.exists
    <3>1. \A v \in Worker : job'[v] \in {job[v], NoTask}
      BY <1>3 DEF Apart
    <3> QED
      BY <1>1, <2>1, <3>1, SomethingStored DEF RowsOfAccount
  <2> QED
    BY <1>4, <1>5, <2>1
<1>6. CASE UNCHANGED <<table, objects>>
  <2>1. Emptied(w)'
    BY <1>2, <1>3 DEF Emptied, NoTask
  <2> QED
    BY <1>1, <1>3, <1>6, <2>1, NothingStored DEF RowsOfAccount
<1>7. CASE table' \subseteq table \cup EmptyStats /\ UNCHANGED objects /\ "empty" \in happened'
  <2>1. Emptied(w)'
    BY <1>2, <1>3 DEF Emptied, NoTask
  <2>2. table' \subseteq table \cup Residue'
    BY <1>7 DEF Residue, EmptyStats, Items
  <2>3. (~account'.exists => ~account.exists) /\ objects' \subseteq objects
    BY <1>1, <1>7
  <2> QED
    BY <1>1, <1>3, <2>1, <2>2, <2>3, NothingStored DEF RowsOfAccount
<1>8. \/ UNCHANGED <<table, objects>>
      \/ table' \subseteq table \cup EmptyStats /\ UNCHANGED objects /\ "empty" \in happened'
      \/ Deleting \/ ~account.exists => "late" \in happened'
  <2>1. CASE UploadMedia(w)
    BY <2>1 DEF UploadMedia, Late
  <2>2. CASE SavePosts(w)
    <3>1. CASE posts = {} /\ Late # {}
      BY <2>2, <3>1 DEF SavePosts
    <3>2. CASE posts = {} /\ Late = {}
      BY <3>2 DEF Late
    <3>3. CASE posts # {}
      BY <2>2, <3>3 DEF SavePosts, Late
    <3> QED
      BY <3>1, <3>2, <3>3
  <2>3. CASE SaveReactions(w)
    <3>1. reactions = {} => Items(ReactionKeys, reactions) = {}
      BY DEF Items
    <3> QED
      BY <2>3, <3>1 DEF SaveReactions, Late
  <2> QED
    BY <2>1, <2>2, <2>3
<1> QED
  BY <1>5, <1>6, <1>7, <1>8

\* One key after the other, if no removal fails and no key has more than a page.
LEMMA RemovedByStat ==
  ASSUME Typed, NothingLeft, RowsOfAccount, NEW w \in Worker, RemoveStat(w)
  PROVE  NothingLeft' /\ RowsOfAccount'
<1> USE DEF pgVars, apiVars, jobVars, auxVars
<1> DEFINE key == RemovedKeys[local[w].step]
<1>1. /\ UNCHANGED <<account, posts, reactions, archives, objects>> /\ happened \subseteq happened'
      /\ table' \subseteq table
  BY DEF RemoveStat
<1>2. pc[w] = "remove" /\ job[w].name = "delete_user_data" /\ local[w].step \in 1..Len(RemovedKeys)
  BY JobFacts, StepsOfNames DEF RemoveStat, At, Local
<1>3. Apart(w) /\ job' = job
  BY GotoCall DEF RemoveStat
<1>4. ASSUME Without({"late", "remove", "page"})' PROVE Emptied(w)'
  <2>1. \A k \in 1..(local[w].step - 1) : KeyItems(RemovedKeys[k]) \subseteq Residue
    <3>1. Without({"late", "remove", "page"})
      BY <1>1, <1>4 DEF Without
    <3> QED
      BY <1>2, <3>1 DEF NothingLeft, Emptied
  <2>2. table' = table \ FirstPage(key) /\ FirstPage(key) = KeyItems(key)
    <3>1. "remove" \notin happened' /\ "page" \notin happened'
      BY <1>4 DEF Without
    <3> QED
      BY <3>1 DEF RemoveStat
  <2>3. \A k \in 1..local[w].step : KeyItems(RemovedKeys[k])' \subseteq Residue'
    <3> SUFFICES ASSUME NEW k \in 1..local[w].step PROVE KeyItems(RemovedKeys[k])' \subseteq Residue'
      OBVIOUS
    <3>1. CASE k = local[w].step
      <4>1. KeyItems(RemovedKeys[k])' = {i \in table' : i.key = key}
        BY <3>1 DEF KeyItems
      <4> QED
        BY <2>2, <4>1 DEF KeyItems
    <3>2. CASE k # local[w].step
      <4>1. k \in 1..(local[w].step - 1)
        BY <1>2, <3>2
      <4> QED
        BY <1>1, <2>1, <4>1, ResidueStays DEF KeyItems
    <3> QED
      BY <3>1, <3>2
  <2>4. CASE local[w].step = Len(RemovedKeys)
    <3>1. pc'[w] = "remove_objects"
      BY <2>4, GotoCall DEF RemoveStat
    <3>2. \A k \in 1..Len(RemovedKeys) : {i \in table' : i.key = RemovedKeys[k]} \subseteq Residue'
      BY <2>3, <2>4 DEF KeyItems
    <3>3. table' \subseteq Item
      BY <1>1 DEF Typed, Fields, StoreFields
    <3>4. table' \subseteq Residue'
      BY <3>2, <3>3, AllKeys
    <3> QED
      BY <3>1, <3>4 DEF Emptied
  <2>5. CASE local[w].step # Len(RemovedKeys)
    <3>1. pc'[w] = "remove" /\ local'[w] = [local[w] EXCEPT !.step = @ + 1]
      BY <2>5, GotoCall DEF RemoveStat
    <3>2. local'[w].step - 1 = local[w].step
      BY <1>2, <3>1, JobFacts DEF Local
    <3> QED
      BY <2>3, <3>1, <3>2 DEF Emptied
  <2> QED
    BY <2>4, <2>5
<1> QED
  BY <1>1, <1>3, <1>4, NothingStored DEF RowsOfAccount

LEMMA RemovedByObjects ==
  ASSUME Typed, NothingLeft, RowsOfAccount, NEW w \in Worker, RemoveObjects(w) \/ RemoveAccount(w)
  PROVE  NothingLeft' /\ RowsOfAccount'
<1> USE DEF pgVars, apiVars, jobVars, auxVars
<1>1. job[w].name = "delete_user_data"
  BY JobFacts, StepsOfNames DEF RemoveObjects, RemoveAccount, At
<1>2. CASE RemoveObjects(w)
  <2>1. /\ UNCHANGED <<account, posts, reactions, archives, table>> /\ happened \subseteq happened'
        /\ objects' \subseteq objects /\ pc[w] = "remove_objects"
    BY <1>2 DEF RemoveObjects, At
  <2>2. Apart(w) /\ job' = job /\ pc'[w] = "remove_account"
    BY <1>2, GotoCall DEF RemoveObjects
  <2>3. ASSUME Without({"late", "remove", "page"})' PROVE Emptied(w)'
    <3>1. Without({"late", "remove", "page"})
      BY <2>1, <2>3 DEF Without
    <3>2. table' \subseteq Residue'
      BY <1>1, <2>1, <3>1, ResidueStays DEF NothingLeft, Emptied
    <3>3. objects' = {}
      BY <1>2, <2>3 DEF RemoveObjects, Without
    <3> QED
      BY <2>1, <2>2, <3>2, <3>3 DEF Emptied
  <2> QED
    BY <2>1, <2>2, <2>3, NothingStored DEF RowsOfAccount
<1>3. CASE RemoveAccount(w)
  <2>1. /\ UNCHANGED <<table, objects>> /\ happened \subseteq happened' /\ pc[w] = "remove_account"
    BY <1>3 DEF RemoveAccount, At
  <2>2. Apart(w) /\ Emptied(w)'
    BY <1>3, FinishCall DEF RemoveAccount, Emptied, NoTask
  <2>3. ASSUME Without({"late", "remove", "page"})' PROVE table' \subseteq Residue' /\ objects' = {}
    <3>1. Without({"late", "remove", "page"})
      BY <2>1, <2>3 DEF Without
    <3> QED
      BY <1>1, <2>1, <3>1, ResidueStays DEF NothingLeft, Emptied
  <2>4. RowsOfAccount'
    BY <1>3 DEF RemoveAccount, RowsOfAccount
  <2> QED
    BY <2>1, <2>2, <2>3, <2>4, NothingStored
<1> QED
  BY <1>2, <1>3

LEMMA InitRemoved == Init => Typed /\ NothingLeft /\ RowsOfAccount
<1>1. Init => NothingLeft /\ RowsOfAccount
  BY DEF Init, NothingLeft, RowsOfAccount, Emptied, NoTask
<1> QED
  BY <1>1, InitTyped

LEMMA StepRemoved ==
  Typed /\ NothingLeft /\ RowsOfAccount /\ [Next]_vars => Typed' /\ NothingLeft' /\ RowsOfAccount'
<1> SUFFICES ASSUME Typed, NothingLeft, RowsOfAccount, [Next]_vars
             PROVE  NothingLeft' /\ RowsOfAccount'
  BY StepTyped
<1>1. CASE UNCHANGED vars
  BY <1>1 DEF vars, pgVars, jobVars, NothingLeft, RowsOfAccount, Emptied, KeyItems, Without, Residue, EmptyStats, Items
<1>2. CASE RegisterLook \/ RegisterInsert \/ EditRead \/ EditWrite \/ Upload
           \/ DeleteFlag \/ DeleteSend \/ AdminDelete
  BY <1>2, RemovedByHandlers
<1>3. ASSUME NEW w \in Worker, JobStep(w) \/ JobLost(w) PROVE NothingLeft' /\ RowsOfAccount'
  BY <1>3, RemovedByJobs, RemovedByStoring, RemovedByStat, RemovedByObjects DEF JobStep
<1> QED
  BY <1>1, <1>2, <1>3 DEF Next

(***************************************************************************)
(* Nothing of a deleted account is left in any store, unless something was    *)
(* stored beside or after the deletion, a removal failed, or a key had more    *)
(* than a page of items, and nothing but empty statistics if an analysis ran   *)
(* after it and found no posts: for all workers, archives, rows and requests,  *)
(* however many deletions and registrations there are (deleteUserData).      *)
(***************************************************************************)
THEOREM DeletionComplete == Spec => []DeletedLeavesNothing
<1>1. NothingLeft /\ RowsOfAccount => DeletedLeavesNothing
  BY DEF NothingLeft, RowsOfAccount, DeletedLeavesNothing, Residue
<1> QED
  BY <1>1, InitRemoved, StepRemoved, PTL DEF Spec

-----------------------------------------------------------------------------
(* Queues, registrations and steps of one worker. *)

Was(t) == \E j \in 1..Len(queue) : queue[j] = t
QueueKept == \A j \in 1..Len(queue) : \E i \in 1..Len(queue') : queue'[i] = queue[j]

LEMMA Sends ==
  ASSUME Typed, NEW name \in TaskNames, NEW on \in Nat, NEW gen \in Nat, Send(name, on, gen)
  PROVE  /\ QueueKept
         /\ \E i \in 1..Len(queue') : queue'[i] = [name |-> name, on |-> on, gen |-> gen]
         /\ \A i \in 1..Len(queue') :
               Was(queue'[i]) \/ queue'[i] = [name |-> name, on |-> on, gen |-> gen]
<1>1. /\ Len(queue') = Len(queue) + 1 /\ Len(queue) \in Nat
      /\ \A i \in 1..Len(queue) : queue'[i] = queue[i]
      /\ queue'[Len(queue')] = [name |-> name, on |-> on, gen |-> gen]
  BY SendKeeps DEF Typed, DeletionInv, Control, QueueControl
<1>2. /\ \A i \in 1..Len(queue) : i \in 1..Len(queue')
      /\ Len(queue') \in 1..Len(queue')
      /\ \A i \in 1..Len(queue') : i \in 1..Len(queue) \/ i = Len(queue')
  BY <1>1
<1> QED
  BY <1>1, <1>2 DEF QueueKept, Was

\* The task that a step sends.
Sent(t) ==
  \/ Upload /\ t = [name |-> "parse_archive", on |-> uploaded + 1, gen |-> account.gen]
  \/ t = [name |-> "delete_user_data", on |-> NoArchive, gen |-> account.gen]
  \/ \E w \in Worker :
       \/ UploadMedia(w) /\ t = [name |-> "analyze_posts", on |-> job[w].on, gen |-> job[w].gen]
       \/ /\ ReadDoc(w) \/ WriteLocation(w)
          /\ t = [name |-> "analyze_reactions", on |-> job[w].on, gen |-> job[w].gen]
       \/ /\ SaveReactions(w)
          /\ t = [name |-> "extract_time_metadata", on |-> NoArchive, gen |-> job[w].gen]

LEMMA QueueOrigin ==
  ASSUME Typed, [Next]_vars, NEW i \in 1..Len(queue')
  PROVE  Was(queue'[i]) \/ Sent(queue'[i])
<1> USE DEF pgVars, apiVars, jobVars, auxVars
<1>1. NoArchive \in Nat /\ account.gen \in Nat /\ uploaded + 1 \in Nat
  BY DEF NoArchive, Typed, DeletionInv, Control, AccountControl, QueueControl
<1>2. \A w \in Worker : job[w].on \in Nat /\ job[w].gen \in Nat
  BY JobNames DEF Typed, DeletionInv, Control
<1>3. {"parse_archive", "analyze_posts", "analyze_reactions", "extract_time_metadata",
       "delete_user_data"} \subseteq TaskNames
  BY DEF TaskNames
<1>4. CASE UNCHANGED queue
  BY <1>4 DEF Was
<1>5. CASE Upload \/ DeleteSend \/ AdminDelete
  BY <1>1, <1>3, <1>4, <1>5, Sends DEF Upload, DeleteSend, AdminDelete, Sent
<1>6. ASSUME NEW w \in Worker, Start(w) PROVE Was(queue'[i])
  BY <1>6, Starts DEF Was
<1>7. ASSUME NEW w \in Worker, UploadMedia(w) \/ SaveReactions(w) PROVE Was(queue'[i]) \/ Sent(queue'[i])
  <2>1. CASE UploadMedia(w)
    <3> DEFINE task == [name |-> "analyze_posts", on |-> job[w].on, gen |-> job[w].gen]
    <3>1. Send("analyze_posts", job[w].on, job[w].gen)
      BY <2>1 DEF UploadMedia
    <3>2. Was(queue'[i]) \/ queue'[i] = task
      BY <1>2, <1>3, <3>1, Sends
    <3>3. queue'[i] = task => Sent(queue'[i])
      BY <2>1 DEF Sent
    <3> QED
      BY <3>2, <3>3
  <2>2. CASE SaveReactions(w)
    <3> DEFINE task == [name |-> "extract_time_metadata", on |-> NoArchive, gen |-> job[w].gen]
    <3>1. Send("extract_time_metadata", NoArchive, job[w].gen)
      BY <2>2 DEF SaveReactions
    <3>2. "extract_time_metadata" \in TaskNames /\ NoArchive \in Nat /\ job[w].gen \in Nat
      BY <1>1, <1>2, <1>3
    <3>3. Was(queue'[i]) \/ queue'[i] = task
      BY <3>1, <3>2, Sends
    <3>4. \A t : t = task => Sent(t)
      BY <2>2, Zenon DEF Sent
    <3> HIDE DEF task
    <3> QED
      BY <3>3, <3>4
  <2> QED
    BY <1>7, <2>1, <2>2
<1>8. ASSUME NEW w \in Worker, ReadDoc(w) \/ WriteLocation(w) PROVE Was(queue'[i]) \/ Sent(queue'[i])
  <2>1. UNCHANGED queue \/ Send("analyze_reactions", job[w].on, job[w].gen)
    BY <1>8 DEF ReadDoc, WriteLocation
  <2>2. CASE Send("analyze_reactions", job[w].on, job[w].gen)
    <3> DEFINE task == [name |-> "analyze_reactions", on |-> job[w].on, gen |-> job[w].gen]
    <3>1. Was(queue'[i]) \/ queue'[i] = task
      BY <1>2, <1>3, <2>2, Sends
    <3>2. queue'[i] = task => Sent(queue'[i])
      BY <1>8 DEF Sent
    <3> QED
      BY <3>1, <3>2
  <2> QED
    BY <1>4, <2>1, <2>2
<1>9. ASSUME NEW w \in Worker, JobLost(w) \/ JobStep(w), ~Start(w), ~UploadMedia(w), ~SaveReactions(w),
             ~ReadDoc(w), ~WriteLocation(w)
      PROVE  UNCHANGED queue
  BY <1>9
  DEF JobStep, ReadRange, InsertPosts, InsertComplex, InsertReactions, SavePosts, ReadPosts,
      ReadReactions, ReadTimeDoc, WriteRange, RemoveStat, RemoveObjects, RemoveAccount, JobLost
<1>10. CASE RegisterLook \/ RegisterInsert \/ EditRead \/ EditWrite \/ DeleteFlag \/ UNCHANGED vars
  BY <1>4, <1>10 DEF RegisterLook, RegisterInsert, EditRead, EditWrite, DeleteFlag, vars
<1> QED
  BY <1>4, <1>5, <1>6, <1>7, <1>8, <1>9, <1>10 DEF Next

\* A step belongs to a handler, or to one worker, and only Start takes a task away.
LEMMA Frame ==
  ASSUME Typed, [Next]_vars
  PROVE  \/ UNCHANGED <<job, pc, local>> /\ QueueKept
         \/ \E w \in Worker : Start(w)
         \/ \E w \in Worker : (JobStep(w) \/ JobLost(w)) /\ ~Start(w) /\ Apart(w) /\ QueueKept
<1> USE DEF pgVars, apiVars, jobVars, auxVars
<1>1. NoArchive \in Nat /\ account.gen \in Nat /\ uploaded + 1 \in Nat
  BY DEF NoArchive, Typed, DeletionInv, Control, AccountControl, QueueControl
<1>2. \A w \in Worker : job[w].on \in Nat /\ job[w].gen \in Nat
  BY JobNames DEF Typed, DeletionInv, Control
<1>3. {"parse_archive", "analyze_posts", "analyze_reactions", "extract_time_metadata",
       "delete_user_data"} \subseteq TaskNames
  BY DEF TaskNames
<1>4. UNCHANGED queue => QueueKept
  BY DEF QueueKept
<1>5. CASE RegisterLook \/ RegisterInsert \/ EditRead \/ EditWrite \/ DeleteFlag \/ UNCHANGED vars
  BY <1>4, <1>5 DEF RegisterLook, RegisterInsert, EditRead, EditWrite, DeleteFlag, vars
<1>6. CASE Upload \/ DeleteSend \/ AdminDelete
  BY <1>1, <1>3, <1>4, <1>6, Sends DEF Upload, DeleteSend, AdminDelete
<1>7. ASSUME NEW w \in Worker, JobStep(w) \/ JobLost(w), ~Start(w) PROVE Apart(w) /\ QueueKept
  <2>1. Finish(w) \/ \E step, locals : Goto(w, step, locals)
    BY <1>7 DEF JobStep, ReadRange, InsertPosts, InsertComplex, InsertReactions, Insert, UploadMedia,
       SavePosts, ReadDoc, WriteLocation, SaveReactions, ReadPosts, ReadReactions, ReadTimeDoc,
       WriteRange, RemoveStat, RemoveObjects, RemoveAccount, JobLost
  <2>2. Apart(w)
    BY <2>1, GotoCall, FinishCall
  <2>3. CASE UploadMedia(w) \/ SaveReactions(w)
    BY <1>1, <1>2, <1>3, <2>2, <2>3, Sends DEF UploadMedia, SaveReactions
  <2>4. CASE ReadDoc(w) \/ WriteLocation(w)
    BY <1>1, <1>2, <1>3, <1>4, <2>2, <2>4, Sends DEF ReadDoc, WriteLocation
  <2>5. CASE ~(UploadMedia(w) \/ SaveReactions(w) \/ ReadDoc(w) \/ WriteLocation(w))
    <3>1. UNCHANGED queue
      BY <1>7, <2>5 DEF JobStep, ReadRange, InsertPosts, InsertComplex, InsertReactions, SavePosts,
         ReadPosts, ReadReactions, ReadTimeDoc, WriteRange, RemoveStat, RemoveObjects, RemoveAccount,
         JobLost
    <3> QED
      BY <1>4, <2>2, <3>1
  <2> QED
    BY <2>3, <2>4, <2>5
<1> QED
  BY <1>5, <1>6, <1>7 DEF Next

\* What a step does to the account.
LEMMA AccountStep ==
  ASSUME Typed, [Next]_vars
  PROVE  /\ happened \subseteq happened'
         /\ \/ ~account'.exists /\ account'.gen = account.gen
            \/ /\ ~account.exists /\ RegisterInsert
               /\ account' = [exists |-> TRUE, deleting |-> FALSE, doc |-> NewDoc, gen |-> account.gen + 1]
               /\ saved' = 0 /\ parsed' = {}
            \/ account.exists /\ account'.exists /\ account'.gen = account.gen
<1> USE DEF pgVars, apiVars, jobVars, auxVars
<1>0. AccountControl
  BY DEF Typed, DeletionInv, Control
<1>1. CASE RegisterInsert
  BY <1>0, <1>1 DEF RegisterInsert
<1>2. CASE DeleteFlag
  BY <1>0, <1>2 DEF DeleteFlag, AccountControl
<1>3. CASE RegisterLook \/ EditRead \/ EditWrite \/ Upload \/ DeleteSend \/ AdminDelete \/ UNCHANGED vars
  <2>1. /\ account' = account \/ \E doc : account' = [account EXCEPT !.doc = doc]
        /\ happened \subseteq happened'
    BY <1>3 DEF RegisterLook, EditRead, EditWrite, Upload, DeleteSend, AdminDelete, vars
  <2> QED
    BY <1>0, <2>1 DEF AccountControl
<1>4. ASSUME NEW w \in Worker, RemoveAccount(w)
      PROVE  /\ happened \subseteq happened' /\ account'.gen = account.gen
             /\ account'.exists => account.exists
  BY <1>0, <1>4 DEF RemoveAccount, AccountControl
<1>5. ASSUME NEW w \in Worker, JobStep(w) \/ JobLost(w), ~RemoveAccount(w)
      PROVE  /\ happened \subseteq happened' /\ account'.gen = account.gen
             /\ account'.exists = account.exists
  <2>1. happened \subseteq happened'
    BY <1>5 DEF JobStep, Start, ReadRange, InsertPosts, InsertComplex, InsertReactions, Insert,
       UploadMedia, SavePosts, ReadDoc, WriteLocation, SaveReactions, ReadPosts, ReadReactions,
       ReadTimeDoc, WriteRange, RemoveStat, RemoveObjects, JobLost
  <2>2. account' = account \/ \E doc : account' = [account EXCEPT !.doc = doc]
    BY <1>5 DEF JobStep, Start, ReadRange, InsertPosts, InsertComplex, InsertReactions,
       UploadMedia, SavePosts, ReadDoc, WriteLocation, SaveReactions, ReadPosts, ReadReactions,
       ReadTimeDoc, WriteRange, RemoveStat, RemoveObjects, JobLost, UpdateDoc
  <2> QED
    BY <1>0, <2>1, <2>2 DEF AccountControl
<1> QED
  BY <1>1, <1>2, <1>3, <1>4, <1>5 DEF Next

\* Nobody but accountUpdateMetadata touches the document it has read.
LEMMA EditStep ==
  ASSUME Typed, [Next]_vars
  PROVE  editing' = editing \/ EditRead \/ (EditWrite /\ editing' = NoEdit)
<1>1. ASSUME NEW w \in Worker, JobStep(w) \/ JobLost(w) PROVE UNCHANGED editing
  BY <1>1
  DEF JobStep, Start, ReadRange, InsertPosts, InsertComplex, InsertReactions, UploadMedia,
      SavePosts, ReadDoc, WriteLocation, SaveReactions, ReadPosts, ReadReactions, ReadTimeDoc,
      WriteRange, RemoveStat, RemoveObjects, RemoveAccount, JobLost, apiVars
<1>2. RegisterLook \/ RegisterInsert \/ Upload \/ DeleteFlag \/ DeleteSend \/ AdminDelete
        \/ UNCHANGED vars => UNCHANGED editing
  BY DEF RegisterLook, RegisterInsert, Upload, DeleteFlag, DeleteSend, AdminDelete, vars, apiVars
<1>3. EditWrite => editing' = NoEdit
  BY DEF EditWrite
<1> QED
  BY <1>1, <1>2, <1>3 DEF Next

\* The job of a worker is the one it had, none, or one from the queue.
LEMMA JobOrigin ==
  ASSUME Typed, [Next]_vars, NEW v \in Worker
  PROVE  \/ job'[v] \in {job[v], NoTask}
         \/ \E i \in 1..Len(queue) : job'[v] = queue[i]
<1>1. CASE UNCHANGED job
  BY <1>1
<1>2. ASSUME NEW w \in Worker, Start(w)
      PROVE  job'[v] = job[v] \/ (job'[v] = queue[1] /\ 1 \in 1..Len(queue))
  BY <1>2, Starts DEF Apart
<1>3. ASSUME NEW w \in Worker, JobStep(w) \/ JobLost(w), ~Start(w) PROVE job'[v] \in {job[v], NoTask}
  <2>1. Finish(w) \/ \E step, locals : Goto(w, step, locals)
    BY <1>3 DEF JobStep, ReadRange, InsertPosts, InsertComplex, InsertReactions, Insert, UploadMedia,
       SavePosts, ReadDoc, WriteLocation, SaveReactions, ReadPosts, ReadReactions, ReadTimeDoc,
       WriteRange, RemoveStat, RemoveObjects, RemoveAccount, JobLost
  <2> QED
    BY <2>1, GotoCall, FinishCall DEF Apart
<1> QED
  BY <1>1, <1>2, <1>3, Frame

\* Nobody works for a registration that is still to come.
Ages ==
  /\ \A i \in 1..Len(queue) : queue[i].gen <= account.gen
  /\ \A w \in Worker : job[w].gen <= account.gen
  /\ editing.gen <= account.gen

LEMMA AgesStep == Typed /\ Ages /\ [Next]_vars => Ages'
<1> SUFFICES ASSUME Typed, Ages, [Next]_vars PROVE Ages'
  OBVIOUS
<1>1. account.gen \in Nat /\ account'.gen \in {account.gen, account.gen + 1}
  BY AccountStep DEF Typed, DeletionInv, Control, AccountControl
<1>2. \A t : t.gen \in Nat /\ t.gen <= account.gen => t.gen <= account'.gen
  BY <1>1
<1>3. /\ \A w \in Worker : job[w].gen \in Nat
      /\ \A i \in 1..Len(queue) : queue[i] \in LooseTask /\ queue[i].gen \in Nat
      /\ editing.gen \in Nat
  <2>1. \A i \in 1..Len(queue) : queue[i] \in LooseTask
    BY DEF Typed, DeletionInv, Control, QueueControl
  <2> QED
    BY <2>1, JobFacts DEF LooseTask, Typed, Fields, RequestFields
<1>4. ASSUME NEW i \in 1..Len(queue') PROVE queue'[i].gen <= account'.gen
  <2>1. CASE Was(queue'[i])
    BY <1>2, <1>3, <2>1 DEF Was, Ages
  <2>2. CASE Sent(queue'[i])
    <3>1. ASSUME NEW t, Sent(t) PROVE t.gen = account.gen \/ \E w \in Worker : t.gen = job[w].gen
      BY <3>1 DEF Sent
    <3>2. queue'[i].gen = account.gen \/ \E w \in Worker : queue'[i].gen = job[w].gen
      BY <2>2, <3>1
    <3> QED
      BY <1>1, <1>3, <3>2 DEF Ages
  <2> QED
    BY <2>1, <2>2, QueueOrigin
<1>5. ASSUME NEW v \in Worker PROVE job'[v].gen <= account'.gen
  <2>1. CASE job'[v] = job[v]
    BY <1>2, <1>3, <2>1 DEF Ages
  <2>2. CASE job'[v] = NoTask
    BY <1>1, <2>2 DEF NoTask
  <2>3. CASE \E i \in 1..Len(queue) : job'[v] = queue[i]
    BY <1>2, <1>3, <2>3 DEF Ages
  <2> QED
    BY <2>1, <2>2, <2>3, JobOrigin
<1>6. editing'.gen <= account'.gen
  <2>1. EditRead => editing'.gen = account.gen
    BY DEF EditRead
  <2> QED
    BY <1>1, <1>2, <1>3, <2>1, EditStep DEF Ages, NoEdit
<1> QED
  BY <1>4, <1>5, <1>6 DEF Ages

\* Where the calls of a job lead.
LEMMA Goes ==
  ASSUME Typed, NEW w \in Worker
  PROVE  /\ Start(w) => /\ pc[w] = "idle" /\ pc'[w] = FirstStep(job'[w].name)
                        /\ pc'[w] \in {"read_range", "save_posts", "save_reactions", "read_posts",
                                       "remove"}
         /\ ReadRange(w) => pc[w] = "read_range" /\ pc'[w] \in {"posts", "idle"}
         /\ InsertPosts(w) => pc[w] = "posts" /\ pc'[w] = "complex" /\ local'[w] = local[w]
         /\ InsertComplex(w) => pc[w] = "complex" /\ pc'[w] = "reactions" /\ local'[w] = local[w]
         /\ InsertReactions(w) => pc[w] = "reactions" /\ pc'[w] = "media" /\ local'[w] = local[w]
         /\ UploadMedia(w) => pc[w] = "media" /\ pc'[w] = "idle"
         /\ SavePosts(w) => pc[w] = "save_posts" /\ pc'[w] = "read_doc"
         /\ ReadDoc(w) => pc[w] = "read_doc" /\ pc'[w] \in {"write_location", "idle"}
         /\ WriteLocation(w) => pc[w] = "write_location" /\ pc'[w] = "idle"
         /\ SaveReactions(w) => pc[w] = "save_reactions" /\ pc'[w] = "idle"
         /\ ReadPosts(w) => pc[w] = "read_posts" /\ pc'[w] = "read_reactions"
         /\ ReadReactions(w) => pc[w] = "read_reactions" /\ pc'[w] = "read_time_doc"
         /\ ReadTimeDoc(w) => pc[w] = "read_time_doc" /\ pc'[w] \in {"write_range", "idle"}
         /\ WriteRange(w) => pc[w] = "write_range" /\ pc'[w] = "idle"
         /\ RemoveStat(w) => pc[w] = "remove" /\ pc'[w] \in {"remove", "remove_objects"}
         /\ RemoveObjects(w) => pc[w] = "remove_objects" /\ pc'[w] = "remove_account"
         /\ RemoveAccount(w) => pc[w] = "remove_account" /\ pc'[w] = "idle"
         /\ JobLost(w) => pc'[w] = "idle"
<1>1. Start(w) => /\ pc[w] = "idle" /\ pc'[w] = FirstStep(job'[w].name)
                  /\ pc'[w] \in {"read_range", "save_posts", "save_reactions", "read_posts", "remove"}
  <2> SUFFICES ASSUME Start(w) PROVE /\ pc[w] = "idle" /\ pc'[w] = FirstStep(job'[w].name)
                  /\ pc'[w] \in {"read_range", "save_posts", "save_reactions", "read_posts", "remove"}
    OBVIOUS
  <2>1. queue[1].name \in TaskNames
    BY Starts DEF LooseTask
  <2> QED
    BY <2>1, Starts DEF FirstStep, TaskNames
<1>2. /\ ReadRange(w) => pc[w] = "read_range" /\ pc'[w] \in {"posts", "idle"}
      /\ ReadDoc(w) => pc[w] = "read_doc" /\ pc'[w] \in {"write_location", "idle"}
      /\ ReadTimeDoc(w) => pc[w] = "read_time_doc" /\ pc'[w] \in {"write_range", "idle"}
  BY GotoCall, FinishCall DEF ReadRange, ReadDoc, ReadTimeDoc, At
<1>3. /\ InsertPosts(w) => pc[w] = "posts" /\ pc'[w] = "complex" /\ local'[w] = local[w]
      /\ InsertComplex(w) => pc[w] = "complex" /\ pc'[w] = "reactions" /\ local'[w] = local[w]
      /\ InsertReactions(w) => pc[w] = "reactions" /\ pc'[w] = "media" /\ local'[w] = local[w]
  BY GotoCall DEF InsertPosts, InsertComplex, InsertReactions, Insert, At
<1>4. /\ SavePosts(w) => pc[w] = "save_posts" /\ pc'[w] = "read_doc"
      /\ ReadPosts(w) => pc[w] = "read_posts" /\ pc'[w] = "read_reactions"
      /\ ReadReactions(w) => pc[w] = "read_reactions" /\ pc'[w] = "read_time_doc"
  BY GotoCall DEF SavePosts, ReadPosts, ReadReactions, At
<1>5. /\ UploadMedia(w) => pc[w] = "media" /\ pc'[w] = "idle"
      /\ WriteLocation(w) => pc[w] = "write_location" /\ pc'[w] = "idle"
      /\ SaveReactions(w) => pc[w] = "save_reactions" /\ pc'[w] = "idle"
      /\ WriteRange(w) => pc[w] = "write_range" /\ pc'[w] = "idle"
      /\ RemoveAccount(w) => pc[w] = "remove_account" /\ pc'[w] = "idle"
      /\ JobLost(w) => pc'[w] = "idle"
  BY FinishCall DEF UploadMedia, WriteLocation, SaveReactions, WriteRange, RemoveAccount, JobLost, At
<1>6. /\ RemoveStat(w) => pc[w] = "remove" /\ pc'[w] \in {"remove", "remove_objects"}
      /\ RemoveObjects(w) => pc[w] = "remove_objects" /\ pc'[w] = "remove_account"
  BY GotoCall DEF RemoveStat, RemoveObjects, At
<1> QED
  BY <1>1, <1>2, <1>3, <1>4, <1>5, <1>6

\* Which call has led a worker to its step ...
LEMMA Arrives ==
  ASSUME Typed, NEW w \in Worker, JobStep(w) \/ JobLost(w)
  PROVE  /\ pc'[w] = "posts" => ReadRange(w)
         /\ pc'[w] = "complex" => InsertPosts(w)
         /\ pc'[w] = "reactions" => InsertComplex(w)
         /\ pc'[w] = "media" => InsertReactions(w)
         /\ pc'[w] = "read_doc" => SavePosts(w)
         /\ pc'[w] = "write_location" => ReadDoc(w)
         /\ pc'[w] = "read_reactions" => ReadPosts(w)
         /\ pc'[w] = "read_time_doc" => ReadReactions(w)
         /\ pc'[w] = "write_range" => ReadTimeDoc(w)
  BY Goes DEF JobStep

\* ... and which one is next.
LEMMA Leaves ==
  ASSUME Typed, NEW w \in Worker, JobStep(w)
  PROVE  /\ pc[w] = "posts" => InsertPosts(w)
         /\ pc[w] = "complex" => InsertComplex(w)
         /\ pc[w] = "reactions" => InsertReactions(w)
         /\ pc[w] = "media" => UploadMedia(w)
         /\ pc[w] = "save_posts" => SavePosts(w)
         /\ pc[w] = "read_doc" => ReadDoc(w)
         /\ pc[w] = "write_location" => WriteLocation(w)
         /\ pc[w] = "save_reactions" => SaveReactions(w)
         /\ pc[w] = "read_posts" => ReadPosts(w)
         /\ pc[w] = "read_reactions" => ReadReactions(w)
         /\ pc[w] = "read_time_doc" => ReadTimeDoc(w)
         /\ pc[w] = "write_range" => WriteRange(w)
  BY Goes DEF JobStep

\* A worker stands still, or the step is its own.
LEMMA OwnStep ==
  ASSUME Typed, [Next]_vars, NEW v \in Worker
  PROVE  \/ job'[v] = job[v] /\ pc'[v] = pc[v] /\ local'[v] = local[v]
         \/ JobStep(v) \/ JobLost(v)
<1>1. ASSUME NEW w \in Worker, Start(w) PROVE Apart(w) /\ JobStep(w)
  BY <1>1, Starts DEF JobStep
<1> QED
  BY <1>1, Frame DEF Apart

\* A task stays in the queue until a worker starts it.
LEMMA OneTask ==
  ASSUME Typed, [Next]_vars, NEW i \in 1..Len(queue)
  PROVE  \/ \E j \in 1..Len(queue') : queue'[j] = queue[i]
         \/ \E w \in Worker : Start(w) /\ job'[w] = queue[i]
<1>1. CASE QueueKept
  BY <1>1 DEF QueueKept
<1>2. ASSUME NEW w \in Worker, Start(w)
      PROVE  (\E j \in 1..Len(queue') : queue'[j] = queue[i]) \/ job'[w] = queue[i]
  <2>1. CASE i = 1
    BY <1>2, <2>1, Starts
  <2>2. CASE i # 1
    <3>1. Len(queue') = Len(queue) - 1 /\ Len(queue) \in Nat
      BY <1>2, Starts DEF Typed, DeletionInv, Control, QueueControl
    <3>2. i - 1 \in 1..Len(queue') /\ (i - 1) + 1 = i
      BY <2>2, <3>1
    <3>3. queue'[i - 1] = queue[i]
      BY <1>2, <3>2, Starts
    <3> QED
      BY <3>2, <3>3
  <2> QED
    BY <2>1, <2>2
<1> QED
  BY <1>1, <1>2, Frame

-----------------------------------------------------------------------------
(* One updater of the document, who has read it as it is. *)

Current(w) == account.exists /\ job[w].gen = account.gen

Updates == {"write_location", "read_reactions", "read_time_doc", "write_range"}
SoleUpdater ==
  "overlap" \notin happened =>
    /\ editing.open => \A w \in Worker : pc[w] \notin Updates
    /\ \A v, w \in Worker : pc[v] \in Updates /\ pc[w] \in Updates => v = w

FreshDoc ==
  Without({"overlap", "mixed"}) =>
    /\ editing.open /\ account.exists /\ editing.gen = account.gen => editing.doc = account.doc
    /\ \A w \in Worker :
         Current(w) /\ pc[w] \in {"write_location", "write_range"} => local[w].doc = account.doc

LEMMA SoleStep == Typed /\ SoleUpdater /\ [Next]_vars => SoleUpdater'
<1> SUFFICES ASSUME Typed, SoleUpdater, [Next]_vars, "overlap" \notin happened'
             PROVE  /\ editing'.open => \A w \in Worker : pc'[w] \notin Updates
                    /\ \A v, w \in Worker : pc'[v] \in Updates /\ pc'[w] \in Updates => v = w
  BY DEF SoleUpdater
<1>1. "overlap" \notin happened
  BY AccountStep
<1>2. ASSUME NEW v \in Worker, pc'[v] \in Updates
      PROVE  pc[v] \in Updates \/ ReadDoc(v) \/ ReadPosts(v)
  BY <1>2, OwnStep, Arrives, Goes DEF Updates
<1>3. ASSUME NEW v \in Worker, pc'[v] \in Updates, ReadDoc(v) \/ ReadPosts(v)
      PROVE  ~Updating /\ Apart(v) /\ UNCHANGED editing
  <2>1. CASE ReadDoc(v)
    <3>1. account.exists
      BY <1>3, <2>1, FinishCall DEF ReadDoc, Updates
    <3> QED
      BY <2>1, <3>1, GotoCall DEF ReadDoc, Overlap, apiVars
  <2>2. CASE ReadPosts(v)
    BY <2>2, GotoCall DEF ReadPosts, Overlap, apiVars
  <2> QED
    BY <1>3, <2>1, <2>2
<1>4. Updating <=> editing.open \/ \E w \in Worker : pc[w] \in Updates
  BY DEF Updating, Updates
<1>5. ASSUME NEW v \in Worker, pc'[v] \in Updates, ReadDoc(v) \/ ReadPosts(v), NEW w \in Worker, w # v
      PROVE  pc'[w] \notin Updates /\ ~editing'.open
  BY <1>3, <1>4, <1>5 DEF Apart
<1>6. EditRead => UNCHANGED pc /\ ~Updating
  BY DEF EditRead, jobVars, Overlap
<1>7. editing'.open => editing.open \/ EditRead
  BY EditStep DEF NoEdit
<1>8. ASSUME editing'.open, NEW w \in Worker PROVE pc'[w] \notin Updates
  BY <1>1, <1>2, <1>3, <1>4, <1>6, <1>7, <1>8 DEF SoleUpdater
<1>9. ASSUME NEW v \in Worker, NEW w \in Worker, pc'[v] \in Updates, pc'[w] \in Updates PROVE v = w
  BY <1>1, <1>2, <1>5, <1>9 DEF SoleUpdater
<1> QED
  BY <1>8, <1>9

\* What a step does to the document.
LEMMA DocStep ==
  ASSUME Typed, [Next]_vars
  PROVE  \/ ~account'.exists
         \/ ~account.exists /\ RegisterInsert /\ account'.gen = account.gen + 1
         \/ /\ account.exists /\ account'.exists /\ account'.gen = account.gen
            /\ \/ account'.doc = account.doc
               \/ EditWrite
               \/ \E w \in Worker : WriteLocation(w) \/ WriteRange(w)
<1>0. AccountControl
  BY DEF Typed, DeletionInv, Control
<1>1. ASSUME NEW w \in Worker, JobStep(w) \/ JobLost(w), ~WriteLocation(w), ~WriteRange(w), ~RemoveAccount(w)
      PROVE  UNCHANGED account
  BY <1>1
  DEF JobStep, Start, ReadRange, InsertPosts, InsertComplex, InsertReactions, UploadMedia,
      SavePosts, ReadDoc, SaveReactions, ReadPosts, ReadReactions, ReadTimeDoc,
      RemoveStat, RemoveObjects, JobLost, pgVars
<1>2. ASSUME NEW w \in Worker, RemoveAccount(w) PROVE ~account'.exists \/ UNCHANGED account
  BY <1>0, <1>2 DEF RemoveAccount, AccountControl, pgVars
<1>3. RegisterLook \/ EditRead \/ Upload \/ DeleteSend \/ AdminDelete \/ UNCHANGED vars => UNCHANGED account
  BY DEF RegisterLook, EditRead, Upload, DeleteSend, AdminDelete, vars, pgVars
<1>4. DeleteFlag => account'.doc = account.doc
  BY <1>0 DEF DeleteFlag, AccountControl
<1>5. RegisterInsert => ~account.exists \/ UNCHANGED account
  BY DEF RegisterInsert
<1>6. \/ account'.doc = account.doc \/ ~account'.exists
      \/ RegisterInsert /\ ~account.exists
      \/ EditWrite \/ \E w \in Worker : WriteLocation(w) \/ WriteRange(w)
  BY <1>1, <1>2, <1>3, <1>4, <1>5 DEF Next
<1>7. RegisterInsert /\ ~account.exists => account'.gen = account.gen + 1
  BY DEF RegisterInsert
<1> QED
  BY <1>6, <1>7, AccountStep

\* Only somebody who was there before works for a registration.
LEMMA CurrentStep ==
  ASSUME Typed, Ages, [Next]_vars, NEW w \in Worker, Current(w)', job'[w] = job[w]
  PROVE  Current(w) /\ account'.gen = account.gen
<1>1. job[w].gen <= account.gen /\ account.gen \in Nat /\ job[w].gen \in Nat
  BY JobFacts DEF Ages, AccountControl
<1>2. account'.gen # account.gen + 1
  BY <1>1 DEF Current
<1> QED
  BY <1>2, DocStep DEF Current

LEMMA FreshStep == Typed /\ Ages /\ SoleUpdater /\ FreshDoc /\ [Next]_vars => FreshDoc'
<1> SUFFICES ASSUME Typed, Ages, SoleUpdater, FreshDoc, [Next]_vars, Without({"overlap", "mixed"})'
             PROVE  /\ editing'.open /\ account'.exists /\ editing'.gen = account'.gen
                         => editing'.doc = account'.doc
                    /\ \A w \in Worker :
                         Current(w)' /\ pc'[w] \in {"write_location", "write_range"}
                             => local'[w].doc = account'.doc
  BY DEF FreshDoc
<1>1. Without({"overlap", "mixed"}) /\ "overlap" \notin happened
  BY AccountStep DEF Without
<1>2. CASE EditWrite
  <2>1. editing.open /\ ~editing'.open /\ UNCHANGED pc
    BY <1>2 DEF EditWrite, NoEdit, jobVars
  <2>2. \A w \in Worker : pc[w] \notin Updates
    BY <1>1, <2>1 DEF SoleUpdater
  <2> QED
    BY <2>1, <2>2 DEF Updates
<1>3. ASSUME NEW v \in Worker, WriteLocation(v) \/ WriteRange(v)
      PROVE  /\ ~editing'.open
             /\ \A w \in Worker : pc'[w] \notin {"write_location", "write_range"}
  <2>1. pc[v] \in Updates /\ pc'[v] = "idle" /\ Apart(v) /\ UNCHANGED editing
    BY <1>3, Goes, FinishCall DEF WriteLocation, WriteRange, apiVars, Updates
  <2>2. ~editing.open /\ \A w \in Worker : w # v => pc[w] \notin Updates
    BY <1>1, <2>1 DEF SoleUpdater
  <2> QED
    BY <2>1, <2>2 DEF Updates, Apart
<1>4. CASE account.exists /\ account'.exists /\ account'.gen = account.gen /\ account'.doc = account.doc
  <2>1. ASSUME editing'.open, editing'.gen = account'.gen PROVE editing'.doc = account'.doc
    <3>1. CASE UNCHANGED editing
      BY <1>1, <1>4, <2>1, <3>1 DEF FreshDoc
    <3>2. CASE EditRead
      BY <1>4, <3>2 DEF EditRead
    <3> QED
      BY <2>1, <3>1, <3>2, EditStep DEF NoEdit
  <2>2. ASSUME NEW w \in Worker, Current(w)', pc'[w] \in {"write_location", "write_range"}
        PROVE  local'[w].doc = account'.doc
    <3>1. CASE job'[w] = job[w] /\ pc'[w] = pc[w] /\ local'[w] = local[w]
      <4>1. Current(w)
        BY <2>2, <3>1, CurrentStep
      <4> QED
        BY <1>1, <1>4, <2>2, <3>1, <4>1 DEF FreshDoc
    <3>2. CASE JobStep(w) \/ JobLost(w)
      <4>1. ReadDoc(w) \/ ReadTimeDoc(w)
        BY <2>2, <3>2, Arrives
      <4>2. local'[w] = [local[w] EXCEPT !.doc = account.doc]
        BY <1>4, <4>1, GotoCall DEF ReadDoc, ReadTimeDoc
      <4> QED
        BY <1>4, <4>2, JobFacts DEF Local
    <3> QED
      BY <3>1, <3>2, OwnStep
  <2> QED
    BY <2>1, <2>2
<1>5. CASE ~account.exists /\ account'.gen = account.gen + 1 /\ RegisterInsert
  <2>1. UNCHANGED <<editing, job>>
    BY <1>5 DEF RegisterInsert, jobVars
  <2>2. editing.gen <= account.gen /\ editing.gen \in Nat /\ account.gen \in Nat
    BY DEF Ages, Typed, DeletionInv, Control, AccountControl, Fields, RequestFields
  <2>3. \A w \in Worker : ~Current(w)'
    BY <1>5, <2>1, CurrentStep DEF Current
  <2> QED
    BY <1>5, <2>1, <2>2, <2>3
<1>6. CASE ~account'.exists
  BY <1>6 DEF Current
<1> QED
  BY <1>2, <1>3, <1>4, <1>5, <1>6, DocStep

-----------------------------------------------------------------------------
(* What the document says, and what is on its way to it. *)

HasPlace == posts \cap Placed # {}
DocRange == [first |-> account.doc.first, last |-> account.doc.last]

\* A job that will write the location, or send one that does.
LocationDue ==
  \/ \E i \in 1..Len(queue) : queue[i].name = "analyze_posts"
  \/ \E w \in Worker : pc[w] \in {"complex", "reactions", "media", "save_posts"}
  \/ \E w \in Worker : pc[w] \in {"read_doc", "write_location"} /\ local[w].placed = TRUE

\* A job that will look at the rows for the range, or send one that does; a job that has.
RangeDue ==
  \/ \E i \in 1..Len(queue) :
       queue[i].name \in {"analyze_posts", "analyze_reactions", "extract_time_metadata"}
  \/ \E w \in Worker : pc[w] \in {"complex", "reactions", "media", "save_posts", "read_doc",
                                  "write_location", "save_reactions", "read_posts"}
RangeAtHand == \E w \in Worker : pc[w] \in {"read_reactions", "read_time_doc", "write_range"}

\* What a job sends is in the queue.
LEMMA TaskSent ==
  ASSUME Typed, NEW w \in Worker
  PROVE  /\ UploadMedia(w) => \E i \in 1..Len(queue') : queue'[i].name = "analyze_posts"
         /\ WriteLocation(w) => \E i \in 1..Len(queue') : queue'[i].name = "analyze_reactions"
         /\ SaveReactions(w) => \E i \in 1..Len(queue') : queue'[i].name = "extract_time_metadata"
<1>1. NoArchive \in Nat /\ job[w].on \in Nat /\ job[w].gen \in Nat
  BY JobNames DEF NoArchive, Typed, DeletionInv, Control
<1>2. {"analyze_posts", "analyze_reactions", "extract_time_metadata"} \subseteq TaskNames
  BY DEF TaskNames
<1>3. ASSUME NEW name \in TaskNames, NEW on \in Nat, NEW gen \in Nat, Send(name, on, gen)
      PROVE  \E i \in 1..Len(queue') : queue'[i].name = name
  <2> DEFINE task == [name |-> name, on |-> on, gen |-> gen]
  <2>1. PICK i \in 1..Len(queue') : queue'[i] = task
    BY <1>3, Sends
  <2>2. task.name = name
    OBVIOUS
  <2> QED
    BY <2>1, <2>2
<1>4. UploadMedia(w) => \E i \in 1..Len(queue') : queue'[i].name = "analyze_posts"
  BY <1>1, <1>2, <1>3 DEF UploadMedia
<1>5. WriteLocation(w) => \E i \in 1..Len(queue') : queue'[i].name = "analyze_reactions"
  BY <1>1, <1>2, <1>3 DEF WriteLocation
<1>6. SaveReactions(w) => \E i \in 1..Len(queue') : queue'[i].name = "extract_time_metadata"
  BY <1>1, <1>2, <1>3 DEF SaveReactions
<1> QED
  BY <1>4, <1>5, <1>6

\* Without a lost job, what is due stays due until it is done.
LEMMA LocationStays ==
  ASSUME Typed, [Next]_vars, "job" \notin happened', account.exists, HasPlace, LocationDue
  PROVE  LocationDue' \/ \E w \in Worker : WriteLocation(w) /\ local[w].placed = TRUE
<1>1. \A w \in Worker : ~JobLost(w)
  BY DEF JobLost
<1>2. ASSUME NEW i \in 1..Len(queue), queue[i].name = "analyze_posts" PROVE LocationDue'
  <2>1. CASE \E j \in 1..Len(queue') : queue'[j] = queue[i]
    BY <1>2, <2>1 DEF LocationDue
  <2>2. ASSUME NEW w \in Worker, Start(w), job'[w] = queue[i] PROVE LocationDue'
    <3>1. pc'[w] = "save_posts"
      BY <1>2, <2>2, Goes DEF FirstStep
    <3> QED
      BY <3>1 DEF LocationDue
  <2> QED
    BY <2>1, <2>2, OneTask
<1>3. ASSUME NEW w \in Worker, pc[w] \in {"complex", "reactions", "media", "save_posts"}
      PROVE  LocationDue'
  <2>1. CASE pc'[w] = pc[w]
    BY <1>3, <2>1 DEF LocationDue
  <2>2. CASE InsertComplex(w) \/ InsertReactions(w)
    <3>1. pc'[w] \in {"reactions", "media"}
      BY <2>2, Goes
    <3> QED
      BY <3>1 DEF LocationDue
  <2>3. CASE UploadMedia(w)
    BY <2>3, TaskSent DEF LocationDue
  <2>4. CASE SavePosts(w)
    <3>1. local'[w] = [local[w] EXCEPT !.placed = HasPlace] /\ pc'[w] = "read_doc"
      BY <2>4, GotoCall DEF SavePosts, HasPlace
    <3>2. local'[w].placed = TRUE
      BY <3>1, JobFacts DEF Local
    <3> QED
      BY <3>1, <3>2 DEF LocationDue
  <2> QED
    BY <1>1, <1>3, <2>1, <2>2, <2>3, <2>4, OwnStep, Leaves
<1>4. ASSUME NEW w \in Worker, pc[w] \in {"read_doc", "write_location"}, local[w].placed = TRUE,
             ~WriteLocation(w)
      PROVE  LocationDue'
  <2>1. CASE pc'[w] = pc[w] /\ local'[w] = local[w]
    BY <1>4, <2>1 DEF LocationDue
  <2>2. CASE ReadDoc(w)
    <3>1. local'[w] = [local[w] EXCEPT !.doc = account.doc] /\ pc'[w] = "write_location"
      BY <2>2, GotoCall DEF ReadDoc
    <3>2. local'[w].placed = TRUE
      BY <1>4, <3>1, JobFacts DEF Local
    <3> QED
      BY <3>1, <3>2 DEF LocationDue
  <2> QED
    BY <1>1, <1>4, <2>1, <2>2, OwnStep, Leaves
<1> QED
  BY <1>2, <1>3, <1>4 DEF LocationDue

LEMMA RangeStays ==
  ASSUME Typed, [Next]_vars, "job" \notin happened', account.exists, RangeDue
  PROVE  RangeDue' \/ \E w \in Worker : ReadPosts(w)
<1> DEFINE Tasks == {"analyze_posts", "analyze_reactions", "extract_time_metadata"}
<1>1. \A w \in Worker : ~JobLost(w)
  BY DEF JobLost
<1>2. ASSUME NEW i \in 1..Len(queue), queue[i].name \in Tasks PROVE RangeDue'
  <2>1. CASE \E j \in 1..Len(queue') : queue'[j] = queue[i]
    BY <1>2, <2>1 DEF RangeDue
  <2>2. ASSUME NEW w \in Worker, Start(w), job'[w] = queue[i] PROVE RangeDue'
    <3>1. pc'[w] \in {"save_posts", "save_reactions", "read_posts"}
      BY <1>2, <2>2, Goes DEF FirstStep
    <3> QED
      BY <3>1 DEF RangeDue
  <2> QED
    BY <2>1, <2>2, OneTask
<1>3. ASSUME NEW w \in Worker,
             pc[w] \in {"complex", "reactions", "media", "save_posts", "read_doc",
                        "write_location", "save_reactions", "read_posts"},
             ~ReadPosts(w)
      PROVE  RangeDue'
  <2>1. CASE pc'[w] = pc[w]
    BY <1>3, <2>1 DEF RangeDue
  <2>2. CASE InsertComplex(w) \/ InsertReactions(w) \/ SavePosts(w)
    <3>1. pc'[w] \in {"reactions", "media", "read_doc"}
      BY <2>2, Goes
    <3> QED
      BY <3>1 DEF RangeDue
  <2>3. CASE UploadMedia(w) \/ WriteLocation(w) \/ SaveReactions(w)
    BY <2>3, TaskSent DEF RangeDue
  <2>4. CASE ReadDoc(w)
    <3>1. pc'[w] = "write_location"
      BY <2>4, GotoCall DEF ReadDoc
    <3> QED
      BY <3>1 DEF RangeDue
  <2> QED
    BY <1>1, <1>3, <2>1, <2>2, <2>3, <2>4, OwnStep, Leaves
<1> QED
  BY <1>2, <1>3 DEF RangeDue

LEMMA HandStays ==
  ASSUME Typed, [Next]_vars, "job" \notin happened', account.exists, RangeAtHand
  PROVE  RangeAtHand' \/ \E w \in Worker : WriteRange(w)
<1>1. \A w \in Worker : ~JobLost(w)
  BY DEF JobLost
<1>2. ASSUME NEW w \in Worker, pc[w] \in {"read_reactions", "read_time_doc", "write_range"}, ~WriteRange(w)
      PROVE  RangeAtHand'
  <2>1. CASE pc'[w] = pc[w]
    BY <1>2, <2>1 DEF RangeAtHand
  <2>2. CASE ReadReactions(w) \/ ReadTimeDoc(w)
    <3>1. pc'[w] \in {"read_time_doc", "write_range"}
      BY <2>2, Goes, GotoCall DEF ReadTimeDoc
    <3> QED
      BY <3>1 DEF RangeAtHand
  <2> QED
    BY <1>1, <1>2, <2>1, <2>2, OwnStep, Leaves
<1> QED
  BY <1>2 DEF RangeAtHand

\* Rows are only added, by the inserts of a parse, while the account is there.
LEMMA RowStep ==
  ASSUME Typed, [Next]_vars, account'.exists
  PROVE  /\ posts \subseteq posts' /\ reactions \subseteq reactions'
         /\ \/ UNCHANGED <<posts, reactions>>
            \/ \E w \in Worker : InsertPosts(w) \/ InsertComplex(w) \/ InsertReactions(w)
         /\ (\E w \in Worker : InsertReactions(w)) => UNCHANGED posts
         /\ ~account.exists => UNCHANGED <<posts, reactions>>
<1> USE DEF pgVars
<1>0. AccountControl
  BY DEF Typed, DeletionInv, Control
<1>1. ASSUME NEW w \in Worker, RemoveAccount(w) PROVE UNCHANGED <<posts, reactions>>
  BY <1>0, <1>1 DEF RemoveAccount, AccountControl
<1>2. ASSUME NEW w \in Worker, JobStep(w) \/ JobLost(w), ~InsertPosts(w), ~InsertComplex(w),
             ~InsertReactions(w), ~RemoveAccount(w)
      PROVE  UNCHANGED <<posts, reactions>>
  BY <1>2
  DEF JobStep, Start, ReadRange, UploadMedia, SavePosts, ReadDoc, WriteLocation, SaveReactions,
      ReadPosts, ReadReactions, ReadTimeDoc, WriteRange, RemoveStat, RemoveObjects, JobLost
<1>3. RegisterLook \/ RegisterInsert \/ EditRead \/ EditWrite \/ Upload \/ DeleteFlag \/ DeleteSend
        \/ AdminDelete \/ UNCHANGED vars => UNCHANGED <<posts, reactions>>
  BY DEF RegisterLook, RegisterInsert, EditRead, EditWrite, Upload, DeleteFlag, DeleteSend,
         AdminDelete, vars
<1>4. ASSUME NEW w \in Worker, InsertPosts(w) \/ InsertComplex(w) \/ InsertReactions(w)
      PROVE  /\ posts \subseteq posts' /\ reactions \subseteq reactions'
             /\ InsertReactions(w) => UNCHANGED posts
             /\ ~account.exists => UNCHANGED <<posts, reactions>>
  BY <1>4 DEF InsertPosts, InsertComplex, InsertReactions, Insert
<1> QED
  BY <1>1, <1>2, <1>3, <1>4 DEF Next

-----------------------------------------------------------------------------
(* The document follows the client and the rows. *)

ProfileExact == Without({"overlap", "mixed"}) => (account.exists => account.doc.profile = saved)

LocationExact ==
  Without({"job", "overlap", "mixed"}) =>
    /\ account.exists =>
         /\ account.doc.location = TRUE => HasPlace
         /\ HasPlace => account.doc.location = TRUE \/ LocationDue
    /\ \A w \in Worker :
         Current(w) /\ pc[w] \in {"read_doc", "write_location"} /\ local[w].placed = TRUE => HasPlace

RangeFound(w) ==
  /\ pc[w] = "read_reactions" => local[w].found = posts \/ RangeDue
  /\ pc[w] \in {"read_time_doc", "write_range"} =>
       local[w].range = Range(posts, reactions) \/ RangeDue
RangeExact ==
  Without({"job", "overlap", "mixed"}) =>
    /\ account.exists => DocRange = Range(posts, reactions) \/ RangeDue \/ RangeAtHand
    /\ \A w \in Worker : Current(w) => RangeFound(w)

WithProfile(doc, v) ==
  [profile |-> v, location |-> doc.location, first |-> doc.first, last |-> doc.last]
WithLocation(doc) ==
  [profile |-> doc.profile, location |-> TRUE, first |-> doc.first, last |-> doc.last]
WithRange(doc, range) ==
  [profile |-> doc.profile, location |-> doc.location, first |-> range.first, last |-> range.last]

LEMMA ProfileParts ==
  ASSUME NEW doc, NEW written, NEW v, written = WithProfile(doc, v)
  PROVE  /\ written.profile = v /\ written.location = doc.location
         /\ written.first = doc.first /\ written.last = doc.last
  BY DEF WithProfile
LEMMA LocationParts ==
  ASSUME NEW doc, NEW written, written = WithLocation(doc)
  PROVE  /\ written.profile = doc.profile /\ written.location = TRUE
         /\ written.first = doc.first /\ written.last = doc.last
  BY DEF WithLocation
LEMMA RangeParts ==
  ASSUME NEW doc, NEW written, NEW range, written = WithRange(doc, range)
  PROVE  /\ written.profile = doc.profile /\ written.location = doc.location
         /\ written.first = range.first /\ written.last = range.last
  BY DEF WithRange

LEMMA NewParts ==
  ASSUME NEW written, written = NewDoc
  PROVE  written.profile = 0 /\ written.location = FALSE /\ written.first = 0 /\ written.last = 0
  BY DEF NewDoc

\* Whoever writes the document back has read it as it is, and changes its own part.
LEMMA Written ==
  ASSUME Typed, FreshDoc, Without({"overlap", "mixed"})', account.exists
  PROVE  /\ EditWrite => account'.doc = WithProfile(account.doc, saved')
         /\ \A w \in Worker : WriteLocation(w) =>
              /\ Current(w)
              /\ account'.doc = IF local[w].placed = TRUE THEN WithLocation(account.doc)
                                ELSE account.doc
              /\ saved' = saved
         /\ \A w \in Worker : WriteRange(w) =>
              /\ Current(w)
              /\ account'.doc = WithRange(account.doc, local[w].range)
              /\ saved' = saved
<1>0. AccountControl /\ account.doc \in Doc
  BY DEF Typed, DeletionInv, Control, Fields, StoreFields
<1>1. happened \subseteq happened' => Without({"overlap", "mixed"})
  BY DEF Without
<1>2. ASSUME NEW gen, Mixed(gen) \subseteq happened' PROVE gen = account.gen
  BY <1>2 DEF Mixed, Without
<1>3. ASSUME EditWrite PROVE account'.doc = WithProfile(account.doc, saved')
  <2>1. editing.gen = account.gen /\ editing.open
    BY <1>2, <1>3 DEF EditWrite
  <2>2. editing.doc = account.doc
    BY <1>1, <1>3, <2>1 DEF EditWrite, FreshDoc
  <2>3. account'.doc = Merge(account.doc, [profile |-> saved'])
    BY <1>0, <1>3, <2>2 DEF EditWrite, AccountControl
  <2> QED
    BY <1>0, <2>3, MergeProfile DEF WithProfile
<1>4. ASSUME NEW w \in Worker, WriteLocation(w)
      PROVE  /\ Current(w)
             /\ account'.doc = IF local[w].placed = TRUE THEN WithLocation(account.doc)
                               ELSE account.doc
             /\ saved' = saved
  <2>1. Current(w) /\ pc[w] = "write_location" /\ saved' = saved
    BY <1>2, <1>4 DEF WriteLocation, Current, At, auxVars
  <2>2. local[w].doc = account.doc
    BY <1>1, <1>4, <2>1 DEF WriteLocation, FreshDoc
  <2>3. local[w].placed \in BOOLEAN
    BY JobFacts DEF Local
  <2>4. account'.doc = Merge(account.doc, IF local[w].placed THEN [location |-> TRUE] ELSE <<>>)
    BY <1>0, <1>4, <2>2 DEF WriteLocation, UpdateDoc, AccountControl
  <2>5. CASE local[w].placed = TRUE
    BY <1>0, <2>1, <2>4, <2>5, MergeLocation DEF WithLocation
  <2>6. CASE local[w].placed = FALSE
    BY <1>0, <2>1, <2>4, <2>6, MergeNothing
  <2> QED
    BY <2>3, <2>5, <2>6
<1>5. ASSUME NEW w \in Worker, WriteRange(w)
      PROVE  /\ Current(w)
             /\ account'.doc = WithRange(account.doc, local[w].range)
             /\ saved' = saved
  <2>1. Current(w) /\ pc[w] = "write_range" /\ saved' = saved
    BY <1>2, <1>5 DEF WriteRange, Current, At, auxVars
  <2>2. local[w].doc = account.doc
    BY <1>1, <1>5, <2>1 DEF WriteRange, FreshDoc
  <2>3. local[w].range \in Bounds
    BY JobFacts DEF Local, Bounds
  <2>4. account'.doc = Merge(account.doc, local[w].range)
    BY <1>0, <1>5, <2>2 DEF WriteRange, UpdateDoc, AccountControl
  <2> QED
    BY <1>0, <2>1, <2>3, <2>4, MergeRange DEF WithRange
<1> QED
  BY <1>3, <1>4, <1>5

\* Nobody else answers a client.
LEMMA SavedStep ==
  ASSUME Typed, [Next]_vars, ~EditWrite, account.exists
  PROVE  saved' = saved
<1>1. ASSUME NEW w \in Worker, JobStep(w) \/ JobLost(w) PROVE saved' = saved
  BY <1>1
  DEF JobStep, Start, ReadRange, InsertPosts, InsertComplex, InsertReactions, UploadMedia,
      SavePosts, ReadDoc, WriteLocation, SaveReactions, ReadPosts, ReadReactions, ReadTimeDoc,
      WriteRange, RemoveStat, RemoveObjects, RemoveAccount, JobLost, auxVars
<1>2. RegisterLook \/ RegisterInsert \/ EditRead \/ Upload \/ DeleteFlag \/ DeleteSend
        \/ AdminDelete \/ UNCHANGED vars => saved' = saved
  BY DEF RegisterLook, RegisterInsert, EditRead, Upload, DeleteFlag, DeleteSend,
         AdminDelete, vars, auxVars
<1> QED
  BY <1>1, <1>2 DEF Next

\* The account of the next state: gone, new, or as it was but for one part of the document.
LEMMA DocMoves ==
  ASSUME Typed, FreshDoc, [Next]_vars, Without({"overlap", "mixed"})', account'.exists
  PROVE  \/ ~account.exists /\ account'.doc = NewDoc /\ saved' = 0
         \/ /\ account.exists
            /\ \/ account'.doc = account.doc /\ saved' = saved
               \/ account'.doc = WithProfile(account.doc, saved')
               \/ /\ saved' = saved
                  /\ \E w \in Worker : /\ WriteLocation(w) /\ Current(w) /\ local[w].placed = TRUE
                                       /\ account'.doc = WithLocation(account.doc)
               \/ /\ saved' = saved
                  /\ \E w \in Worker : /\ WriteRange(w) /\ Current(w)
                                       /\ account'.doc = WithRange(account.doc, local[w].range)
<1>1. CASE ~account.exists
  <2>1. /\ account' = [exists |-> TRUE, deleting |-> FALSE, doc |-> NewDoc, gen |-> account.gen + 1]
        /\ saved' = 0
    BY <1>1, AccountStep
  <2>2. account'.doc = NewDoc
    BY <2>1
  <2> QED
    BY <1>1, <2>1, <2>2
<1>2. CASE account.exists
  <2>1. CASE EditWrite
    BY <1>2, <2>1, Written
  <2>2. ASSUME NEW w \in Worker, WriteLocation(w)
        PROVE  \/ account'.doc = account.doc /\ saved' = saved
               \/ /\ saved' = saved
                  /\ Current(w) /\ local[w].placed = TRUE
                  /\ account'.doc = WithLocation(account.doc)
    BY <1>2, <2>2, Written
  <2>3. ASSUME NEW w \in Worker, WriteRange(w)
        PROVE  /\ saved' = saved
               /\ Current(w)
               /\ account'.doc = WithRange(account.doc, local[w].range)
    BY <1>2, <2>3, Written
  <2>4. CASE account'.doc = account.doc /\ ~EditWrite
    BY <1>2, <2>4, SavedStep
  <2> QED
    BY <1>2, <2>1, <2>2, <2>3, <2>4, DocStep
<1> QED
  BY <1>1, <1>2

\* The same, part by part.
LEMMA PartMoves ==
  ASSUME Typed, FreshDoc, [Next]_vars, Without({"overlap", "mixed"})', account'.exists, account.exists
  PROVE  /\ \/ account'.doc.profile = saved'
            \/ account'.doc.profile = account.doc.profile /\ saved' = saved
         /\ \/ account'.doc.location = account.doc.location
            \/ /\ account'.doc.location = TRUE
               /\ \E w \in Worker : WriteLocation(w) /\ Current(w) /\ local[w].placed = TRUE
         /\ \/ account'.doc.first = account.doc.first /\ account'.doc.last = account.doc.last
            \/ \E w \in Worker : /\ WriteRange(w) /\ Current(w)
                                 /\ account'.doc.first = local[w].range.first
                                 /\ account'.doc.last = local[w].range.last
<1>1. CASE account'.doc = account.doc /\ saved' = saved
  BY <1>1
<1>2. CASE account'.doc = WithProfile(account.doc, saved')
  <2>1. /\ account'.doc.profile = saved'
        /\ account'.doc.location = account.doc.location
        /\ account'.doc.first = account.doc.first /\ account'.doc.last = account.doc.last
    BY <1>2, ProfileParts
  <2> QED
    BY <2>1
<1>3. ASSUME NEW w \in Worker, WriteLocation(w) /\ Current(w) /\ local[w].placed = TRUE, saved' = saved,
             account'.doc = WithLocation(account.doc)
      PROVE  /\ account'.doc.profile = account.doc.profile
             /\ account'.doc.location = TRUE
             /\ account'.doc.first = account.doc.first /\ account'.doc.last = account.doc.last
  BY <1>3, LocationParts
<1>4. ASSUME NEW w \in Worker, WriteRange(w) /\ Current(w), saved' = saved,
             account'.doc = WithRange(account.doc, local[w].range)
      PROVE  /\ account'.doc.profile = account.doc.profile
             /\ account'.doc.location = account.doc.location
             /\ account'.doc.first = local[w].range.first /\ account'.doc.last = local[w].range.last
  BY <1>4, RangeParts
<1> QED
  BY <1>1, <1>2, <1>3, <1>4, DocMoves

LEMMA ProfileStep == Typed /\ FreshDoc /\ ProfileExact /\ [Next]_vars => ProfileExact'
<1> SUFFICES ASSUME Typed, FreshDoc, ProfileExact, [Next]_vars,
                    Without({"overlap", "mixed"})', account'.exists
             PROVE  account'.doc.profile = saved'
  BY DEF ProfileExact
<1>1. Without({"overlap", "mixed"}) /\ account.doc \in Doc
  BY AccountStep DEF Without, Typed, Fields, StoreFields
<1>2. CASE ~account.exists
  <2>1. account'.doc = NewDoc /\ saved' = 0
    BY <1>2, DocMoves
  <2> QED
    BY <2>1 DEF NewDoc
<1>3. CASE account.exists
  <2>1. account.doc.profile = saved
    BY <1>1, <1>3 DEF ProfileExact
  <2> QED
    BY <1>1, <1>3, <2>1, PartMoves
<1> QED
  BY <1>2, <1>3

LEMMA LocationStep == Typed /\ RowsOfAccount /\ Ages /\ FreshDoc /\ LocationExact /\ [Next]_vars => LocationExact'
<1> SUFFICES ASSUME Typed, RowsOfAccount, Ages, FreshDoc, LocationExact, [Next]_vars,
                    Without({"job", "overlap", "mixed"})'
             PROVE  /\ account'.exists =>
                         /\ account'.doc.location = TRUE => HasPlace'
                         /\ HasPlace' => account'.doc.location = TRUE \/ LocationDue'
                    /\ \A w \in Worker :
                         Current(w)' /\ pc'[w] \in {"read_doc", "write_location"} /\ local'[w].placed = TRUE
                             => HasPlace'
  BY DEF LocationExact
<1>1. /\ Without({"job", "overlap", "mixed"}) /\ "job" \notin happened'
      /\ Without({"overlap", "mixed"})'
  BY AccountStep DEF Without
<1>2. ASSUME account'.exists PROVE HasPlace => HasPlace'
  BY <1>2, RowStep DEF HasPlace
<1>3. ASSUME account'.exists PROVE account'.doc.location = TRUE => HasPlace'
  <2>1. CASE ~account.exists
    <3>1. account'.doc = NewDoc
      BY <1>1, <1>3, <2>1, DocMoves
    <3>2. account'.doc.location = FALSE
      BY <3>1, NewParts
    <3> QED
      BY <3>2
  <2>2. CASE account.exists
    <3>1. account.doc.location = TRUE => HasPlace
      BY <1>1, <2>2 DEF LocationExact
    <3>2. ASSUME NEW w \in Worker, WriteLocation(w), Current(w), local[w].placed = TRUE PROVE HasPlace
      BY <1>1, <3>2, Goes DEF LocationExact
    <3>3. account'.doc.location = account.doc.location \/ HasPlace
      BY <1>1, <1>3, <2>2, <3>2, PartMoves
    <3> QED
      BY <1>2, <1>3, <3>1, <3>3
  <2> QED
    BY <2>1, <2>2
<1>4. ASSUME account'.exists, HasPlace' PROVE account'.doc.location = TRUE \/ LocationDue'
  <2>1. CASE ~account.exists
    <3>1. posts' = {}
      BY <1>4, <2>1, RowStep DEF RowsOfAccount
    <3> QED
      BY <1>4, <3>1 DEF HasPlace
  <2>2. CASE HasPlace /\ account.exists
    <3>1. CASE account.doc.location = TRUE
      BY <1>1, <1>4, <2>2, <3>1, PartMoves
    <3>2. CASE LocationDue
      <4>1. ASSUME NEW w \in Worker, WriteLocation(w), local[w].placed = TRUE
            PROVE  account'.doc.location = TRUE
        BY <1>1, <2>2, <4>1, Written, LocationParts
      <4> QED
        BY <1>1, <2>2, <3>2, <4>1, LocationStays
    <3> QED
      BY <1>1, <2>2, <3>1, <3>2 DEF LocationExact
  <2>3. CASE ~HasPlace
    <3>1. posts' # posts
      BY <1>4, <2>3 DEF HasPlace
    <3>2. PICK w \in Worker : InsertPosts(w) \/ InsertComplex(w)
      BY <1>4, <3>1, RowStep
    <3>3. pc'[w] \in {"complex", "reactions"}
      BY <3>2, Goes
    <3> QED
      BY <3>3 DEF LocationDue
  <2> QED
    BY <2>1, <2>2, <2>3
<1>5. ASSUME NEW w \in Worker, Current(w)', pc'[w] \in {"read_doc", "write_location"},
             local'[w].placed = TRUE
      PROVE  HasPlace'
  <2>0. account'.exists
    BY <1>5 DEF Current
  <2>1. CASE job'[w] = job[w] /\ pc'[w] = pc[w] /\ local'[w] = local[w]
    BY <1>1, <1>2, <1>5, <2>0, <2>1, CurrentStep DEF LocationExact
  <2>2. CASE SavePosts(w)
    <3>1. local'[w] = [local[w] EXCEPT !.placed = HasPlace]
      BY <2>2, GotoCall DEF SavePosts, HasPlace
    <3>2. HasPlace
      BY <1>5, <3>1, JobFacts DEF Local
    <3> QED
      BY <1>2, <2>0, <3>2
  <2>3. CASE ReadDoc(w)
    <3>1. local'[w] = [local[w] EXCEPT !.doc = account.doc] /\ job' = job /\ pc[w] = "read_doc"
      BY <1>5, <2>3, GotoCall, FinishCall DEF ReadDoc, At
    <3>2. local[w].placed = TRUE
      BY <1>5, <3>1, JobFacts DEF Local
    <3>3. Current(w)
      BY <1>5, <3>1, CurrentStep
    <3> QED
      BY <1>1, <1>2, <2>0, <3>1, <3>2, <3>3 DEF LocationExact
  <2> QED
    BY <1>5, <2>1, <2>2, <2>3, OwnStep, Arrives
<1> QED
  BY <1>3, <1>4, <1>5

LEMMA RangeFollows ==
  Typed /\ RowsOfAccount /\ Ages /\ SoleUpdater /\ FreshDoc /\ RangeExact /\ [Next]_vars => RangeExact'
<1> SUFFICES ASSUME Typed, RowsOfAccount, Ages, SoleUpdater, FreshDoc, RangeExact, [Next]_vars,
                    Without({"job", "overlap", "mixed"})'
             PROVE  /\ account'.exists => DocRange' = Range(posts', reactions') \/ RangeDue' \/ RangeAtHand'
                    /\ \A w \in Worker : Current(w)' => RangeFound(w)'
  BY DEF RangeExact
<1>1. /\ Without({"job", "overlap", "mixed"}) /\ "job" \notin happened' /\ "overlap" \notin happened
      /\ "overlap" \notin happened' /\ Without({"overlap", "mixed"})'
  BY AccountStep DEF Without
\* Rows that are added are going to be looked at.
<1>2. ASSUME account'.exists PROVE UNCHANGED <<posts, reactions>> \/ RangeDue'
  <2>1. ASSUME NEW w \in Worker, InsertPosts(w) \/ InsertComplex(w) \/ InsertReactions(w)
        PROVE  RangeDue'
    <3>1. pc'[w] \in {"complex", "reactions", "media"}
      BY <2>1, Goes
    <3> QED
      BY <3>1 DEF RangeDue
  <2> QED
    BY <1>2, <2>1, RowStep
\* A worker who looks at them is alone.
<1>3. ASSUME NEW v \in Worker, ReadPosts(v)
      PROVE  /\ RangeAtHand' /\ local'[v].found = posts /\ pc'[v] = "read_reactions"
             /\ UNCHANGED <<posts, reactions>> /\ job' = job
             /\ \A w \in Worker : w # v => pc'[w] \notin Updates
  <2>1. local'[v] = [local[v] EXCEPT !.found = posts] /\ pc'[v] = "read_reactions" /\ Apart(v) /\ job' = job
    BY <1>3, GotoCall DEF ReadPosts
  <2>2. ~Updating
    BY <1>1, <1>3 DEF ReadPosts, Overlap
  <2>3. UNCHANGED <<posts, reactions>>
    BY <1>3 DEF ReadPosts, pgVars
  <2>4. \A w \in Worker : w # v => pc'[w] \notin Updates
    BY <2>1, <2>2 DEF Updating, Updates, Apart
  <2> QED
    BY <2>1, <2>3, <2>4, JobFacts DEF Local, RangeAtHand
\* If somebody looks at the rows, nothing else is due for a worker who has looked.
<1>4. ASSUME account.exists, RangeDue, ~RangeDue'
      PROVE  \E v \in Worker : ReadPosts(v)
  BY <1>1, <1>4, RangeStays
<1>5. ASSUME account'.exists PROVE DocRange' = Range(posts', reactions') \/ RangeDue' \/ RangeAtHand'
  <2>1. CASE ~account.exists
    <3>1. account'.doc = NewDoc
      BY <1>1, <1>5, <2>1, DocMoves
    <3>2. account'.doc.first = 0 /\ account'.doc.last = 0
      BY <3>1, NewParts
    <3>3. posts' = {} /\ reactions' = {}
      BY <1>5, <2>1, RowStep DEF RowsOfAccount
    <3>4. Range({}, {}) = [first |-> 0, last |-> 0]
      BY RangeOf
    <3> QED
      BY <3>2, <3>3, <3>4 DEF DocRange
  <2>2. CASE account.exists /\ RangeDue
    BY <1>3, <1>4, <2>2
  <2>3. ASSUME account.exists, NEW w \in Worker, WriteRange(w)
        PROVE  DocRange' = Range(posts', reactions') \/ RangeDue' \/ RangeAtHand'
    <3>1. Current(w) /\ account'.doc = WithRange(account.doc, local[w].range)
      BY <1>1, <2>3, Written
    <3>2. account'.doc.first = local[w].range.first /\ account'.doc.last = local[w].range.last
      BY <3>1, RangeParts
    <3>3. local[w].range = Range(posts, reactions) \/ RangeDue
      BY <1>1, <2>3, <3>1, Goes DEF RangeExact, RangeFound
    <3>4. local[w].range = [first |-> local[w].range.first, last |-> local[w].range.last]
      BY JobFacts DEF Local
    <3>5. UNCHANGED <<posts, reactions>>
      BY <2>3 DEF WriteRange
    <3> QED
      BY <1>3, <1>4, <2>3, <3>2, <3>3, <3>4, <3>5 DEF DocRange
  <2>4. CASE account.exists /\ RangeAtHand /\ ~(\E w \in Worker : WriteRange(w))
    BY <1>1, <2>4, HandStays
  <2>5. CASE account.exists /\ DocRange = Range(posts, reactions) /\ ~(\E w \in Worker : WriteRange(w))
    <3>1. account'.doc.first = account.doc.first /\ account'.doc.last = account.doc.last
      BY <1>1, <1>5, <2>5, PartMoves
    <3>2. DocRange' = DocRange
      BY <3>1 DEF DocRange
    <3> QED
      BY <1>2, <1>5, <2>5, <3>2
  <2> QED
    BY <1>1, <2>1, <2>2, <2>3, <2>4, <2>5 DEF RangeExact
<1>6. ASSUME NEW w \in Worker, Current(w)' PROVE RangeFound(w)'
  <2>0. account'.exists
    BY <1>6 DEF Current
  <2>1. ASSUME NEW v \in Worker, ReadPosts(v) PROVE RangeFound(w)'
    <3>1. CASE v = w
      BY <1>3, <2>1, <3>1 DEF RangeFound
    <3>2. CASE v # w
      <4>1. pc'[w] \notin Updates
        BY <1>3, <2>1, <3>2
      <4> QED
        BY <4>1 DEF RangeFound, Updates
    <3> QED
      BY <3>1, <3>2
  <2>2. CASE (\A v \in Worker : ~ReadPosts(v)) /\ job'[w] = job[w] /\ pc'[w] = pc[w] /\ local'[w] = local[w]
    <3>1. Current(w) /\ RangeFound(w)
      BY <1>1, <1>6, <2>2, CurrentStep DEF RangeExact
    <3>2. RangeDue => RangeDue'
      BY <1>4, <2>2, <3>1 DEF Current
    <3> QED
      BY <1>2, <2>0, <2>2, <3>1, <3>2 DEF RangeFound
  <2>3. CASE ReadReactions(w)
    <3>1. /\ local'[w] = [local[w] EXCEPT !.range = Range(local[w].found, reactions), !.found = {}]
          /\ pc'[w] = "read_time_doc" /\ pc[w] = "read_reactions" /\ job' = job
          /\ UNCHANGED <<posts, reactions>>
      BY <2>3, GotoCall DEF ReadReactions, At, pgVars
    <3>2. local'[w].range = Range(local[w].found, reactions)
      BY <3>1, JobFacts DEF Local
    <3>3. Current(w)
      BY <1>6, <3>1, CurrentStep
    <3>4. local[w].found = posts \/ RangeDue
      BY <1>1, <3>1, <3>3 DEF RangeExact, RangeFound
    <3>5. CASE RangeDue'
      BY <3>1, <3>5 DEF RangeFound
    <3>6. CASE \E v \in Worker : ReadPosts(v)
      BY <2>1, <3>6
    <3> QED
      BY <1>4, <3>1, <3>2, <3>3, <3>4, <3>5, <3>6 DEF RangeFound, Current
  <2>4. CASE ReadTimeDoc(w) /\ pc'[w] = "write_range"
    <3>1. /\ local'[w] = [local[w] EXCEPT !.doc = account.doc]
          /\ pc[w] = "read_time_doc" /\ job' = job
          /\ UNCHANGED <<posts, reactions>>
      BY <2>4, GotoCall, FinishCall DEF ReadTimeDoc, At, pgVars
    <3>2. local'[w].range = local[w].range
      BY <3>1, JobFacts DEF Local
    <3>3. Current(w)
      BY <1>6, <3>1, CurrentStep
    <3>4. local[w].range = Range(posts, reactions) \/ RangeDue
      BY <1>1, <3>1, <3>3 DEF RangeExact, RangeFound
    <3>5. CASE RangeDue'
      BY <2>4, <3>5 DEF RangeFound
    <3>6. CASE \E v \in Worker : ReadPosts(v)
      BY <2>1, <3>6
    <3> QED
      BY <1>4, <2>4, <3>1, <3>2, <3>3, <3>4, <3>5, <3>6 DEF RangeFound, Current
  <2>5. CASE pc'[w] \notin {"read_reactions", "read_time_doc", "write_range"}
    BY <2>5 DEF RangeFound
  <2> QED
    BY <2>1, <2>2, <2>3, <2>4, <2>5, OwnStep, Arrives
<1> QED
  BY <1>5, <1>6

MetadataInv ==
  /\ Typed /\ NothingLeft /\ RowsOfAccount /\ Ages
  /\ SoleUpdater /\ FreshDoc
  /\ ProfileExact /\ LocationExact /\ RangeExact

LEMMA InitMetadata == Init => MetadataInv
<1> SUFFICES ASSUME Init PROVE Ages /\ SoleUpdater /\ FreshDoc /\ ProfileExact /\ LocationExact /\ RangeExact
  BY InitRemoved DEF MetadataInv
<1>1. /\ ~account.exists /\ account.gen = 0 /\ queue = <<>> /\ editing = NoEdit
      /\ \A w \in Worker : job[w] = NoTask /\ pc[w] = "idle"
  BY DEF Init
<1>2. Ages
  BY <1>1 DEF Ages, NoTask, NoEdit
<1>3. SoleUpdater
  BY <1>1 DEF SoleUpdater, NoEdit, Updates
<1> QED
  BY <1>1, <1>2, <1>3 DEF FreshDoc, ProfileExact, LocationExact, RangeExact, Current

LEMMA StepMetadata == MetadataInv /\ [Next]_vars => MetadataInv'
<1> SUFFICES ASSUME MetadataInv, [Next]_vars PROVE MetadataInv'
  OBVIOUS
<1>1. Typed' /\ NothingLeft' /\ RowsOfAccount'
  BY StepRemoved DEF MetadataInv
<1>2. Ages' /\ SoleUpdater' /\ FreshDoc'
  BY AgesStep, SoleStep, FreshStep DEF MetadataInv
<1>3. ProfileExact' /\ LocationExact' /\ RangeExact'
  BY ProfileStep, LocationStep, RangeFollows DEF MetadataInv
<1> QED
  BY <1>1, <1>2, <1>3 DEF MetadataInv

LEMMA QuietExact == MetadataInv => MetadataExact
<1> SUFFICES ASSUME MetadataInv, Quiet, account.exists, Without({"job", "overlap", "mixed"})
             PROVE  /\ account.doc.profile = saved
                    /\ account.doc.location = (posts \cap Placed # {})
                    /\ DocRange = Range(posts, reactions)
  BY DEF MetadataExact, DocRange
<1>1. queue = <<>> /\ \A w \in Worker : pc[w] = "idle"
  BY DEF Quiet, At
<1>2. ~LocationDue /\ ~RangeDue /\ ~RangeAtHand
  BY <1>1 DEF LocationDue, RangeDue, RangeAtHand
<1>3. account.doc.profile = saved
  BY DEF MetadataInv, ProfileExact, Without
<1>4. account.doc.location = TRUE <=> HasPlace
  BY <1>2 DEF MetadataInv, LocationExact
<1>5. DocRange = Range(posts, reactions)
  BY <1>2 DEF MetadataInv, RangeExact
<1>6. account.doc.location \in BOOLEAN
  BY DEF MetadataInv, Typed, Fields, StoreFields, Doc
<1>7. account.doc.location = HasPlace
  <2>1. CASE HasPlace
    <3>1. HasPlace = TRUE
      BY <2>1
    <3> QED
      BY <1>4, <2>1, <3>1, Zenon
  <2>2. CASE ~HasPlace
    <3>1. HasPlace = FALSE
      BY <2>2
    <3>2. account.doc.location = FALSE
      BY <1>4, <1>6, <2>2
    <3> QED
      BY <3>1, <3>2, Zenon
  <2> QED
    BY <2>1, <2>2
<1> QED
  BY <1>3, <1>5, <1>7 DEF HasPlace

(***************************************************************************)
(* The metadata document has the client's last edit, the location and the     *)
(* range of exactly the rows that are there, unless two updates of it overlap,  *)
(* a job fails or a job of an earlier registration writes: for all workers,     *)
(* archives, rows and requests (UpdateAccountMetadata).                       *)
(***************************************************************************)
THEOREM MetadataKept == Spec => []MetadataExact
  BY InitMetadata, StepMetadata, QuietExact, PTL DEF Spec

-----------------------------------------------------------------------------
(* Posts that are left out. *)

\* The task of an archive's parse belongs to the registration that has the archive.
ParseTask(t) == t.name = "parse_archive" /\ t.on \in archives => t.gen = account.gen
ParseOrigin ==
  /\ \A i \in 1..Len(queue) : ParseTask(queue[i]) /\ queue[i].on <= uploaded
  /\ \A w \in Worker : ParseTask(job[w]) /\ job[w].on <= uploaded
  /\ archives \subseteq 1..uploaded

Parsing == {"posts", "complex", "reactions", "media"}
ParseOnRow ==
  \A w \in Worker : Current(w) /\ pc[w] \in Parsing => job[w].on \in archives

\* A parse that leaves out everything below its range, for which MetadataExact has no name
\* before it ends.
Dark(w) == pc[w] \in Parsing /\ local[w].range.first = 0 /\ local[w].range.last > 0
Excused == ~Without({"job", "insert", "dark", "mixed"}) \/ \E w \in Worker : Dark(w)

\* An archive that has added its rows, but for the posts a worker is about to insert.
Contributed(a) ==
  \/ a \in parsed
  \/ \E w \in Worker : Current(w) /\ pc[w] \in {"complex", "reactions", "media"} /\ job[w].on = a
Pending(t) == \E w \in Worker : Current(w) /\ pc[w] = "complex" /\ t \in FreshPosts(w) \cap Complex
Known(t) == t \in posts \/ Pending(t)
Covered(range) == range.first > 0 => \A t \in AllPosts : Known(t) \/ Fresh(t, range)

RowsContributed ==
  /\ \A x \in posts : \E a \in Archive : Contributed(a) /\ x \in Posts[a]
  /\ \A x \in reactions : \E a \in Archive : Contributed(a) /\ x \in Reactions[a]
ContributedKnown == \A a \in Archive : Contributed(a) => \A t \in Posts[a] : Known(t)
CoveredByWorker(w) ==
  /\ pc[w] \in Parsing => Covered(local[w].range)
  /\ pc[w] = "read_reactions" => local[w].found \subseteq posts
  /\ pc[w] \in {"read_time_doc", "write_range"} => Covered(local[w].range)
  /\ pc[w] = "write_location" => Covered(local[w].doc)
RangesCovered ==
  /\ Covered(account.doc)
  /\ editing.open /\ editing.gen = account.gen => Covered(editing.doc)
  /\ \A w \in Worker : Current(w) => CoveredByWorker(w)
NothingMissed == account.exists /\ ~Excused => RowsContributed /\ ContributedKnown /\ RangesCovered

-----------------------------------------------------------------------------
(* The tasks of a parse. *)

LEMMA ArchiveStep ==
  ASSUME Typed, [Next]_vars
  PROVE  \/ UNCHANGED archives /\ UNCHANGED uploaded
         \/ archives' = {} /\ UNCHANGED uploaded /\ ~account'.exists
         \/ /\ Upload /\ account.exists /\ archives' = archives \cup {uploaded + 1}
            /\ uploaded' = uploaded + 1 /\ account' = account
<1> USE DEF pgVars, apiVars
<1>1. ASSUME NEW w \in Worker, RemoveAccount(w)
      PROVE  /\ UNCHANGED uploaded
             /\ UNCHANGED archives \/ (archives' = {} /\ ~account'.exists)
  BY <1>1 DEF RemoveAccount, Typed, DeletionInv, Control, AccountControl
<1>2. ASSUME NEW w \in Worker, JobStep(w) \/ JobLost(w), ~RemoveAccount(w)
      PROVE  UNCHANGED <<archives, uploaded>>
  BY <1>2
  DEF JobStep, Start, ReadRange, InsertPosts, InsertComplex, InsertReactions, UploadMedia, SavePosts,
      ReadDoc, WriteLocation, SaveReactions, ReadPosts, ReadReactions, ReadTimeDoc, WriteRange,
      RemoveStat, RemoveObjects, JobLost
<1>3. RegisterLook \/ RegisterInsert \/ EditRead \/ EditWrite \/ DeleteFlag \/ DeleteSend
        \/ AdminDelete \/ UNCHANGED vars => UNCHANGED <<archives, uploaded>>
  BY DEF RegisterLook, RegisterInsert, EditRead, EditWrite, DeleteFlag, DeleteSend, AdminDelete, vars
<1>4. Upload => /\ account.exists /\ archives' = archives \cup {uploaded + 1}
                /\ uploaded' = uploaded + 1 /\ account' = account
  BY DEF Upload
<1> QED
  BY <1>1, <1>2, <1>3, <1>4 DEF Next

LEMMA OriginStep == Typed /\ RowsOfAccount /\ ParseOrigin /\ [Next]_vars => ParseOrigin'
<1> SUFFICES ASSUME Typed, RowsOfAccount, ParseOrigin, [Next]_vars PROVE ParseOrigin'
  OBVIOUS
<1>0. /\ uploaded \in Nat /\ uploaded' \in {uploaded, uploaded + 1} /\ NoArchive = 0
      /\ \A w \in Worker : job[w].on \in Nat
      /\ \A i \in 1..Len(queue) : queue[i] \in LooseTask /\ queue[i].on \in Nat
  <2>1. \A i \in 1..Len(queue) : queue[i] \in LooseTask
    BY DEF Typed, DeletionInv, Control, QueueControl
  <2> QED
    BY <2>1, ArchiveStep, JobNames DEF LooseTask, NoArchive, Typed, DeletionInv, Control, QueueControl
\* A task that was there keeps what it is about.
<1>1. ASSUME NEW t, t.on \in Nat, t.on <= uploaded, ParseTask(t)
      PROVE  t.on <= uploaded' /\ (t.name = "parse_archive" /\ t.on \in archives' => t.gen = account'.gen)
  <2>1. t.on <= uploaded' /\ t.on # uploaded + 1
    BY <1>0, <1>1
  <2>2. t.on \in archives' => t.on \in archives
    BY <2>1, ArchiveStep
  <2>3. t.on \in archives => account'.gen = account.gen
    BY AccountStep DEF RowsOfAccount
  <2> QED
    BY <1>1, <2>1, <2>2, <2>3 DEF ParseTask
<1>2. ASSUME NEW i \in 1..Len(queue') PROVE ParseTask(queue[i])' /\ queue'[i].on <= uploaded'
  <2>1. CASE Was(queue'[i])
    <3>1. PICK j \in 1..Len(queue) : queue[j] = queue'[i]
      BY <2>1 DEF Was
    <3>2. ParseTask(queue[j]) /\ queue[j].on <= uploaded /\ queue[j].on \in Nat
      BY <1>0 DEF ParseOrigin
    <3> QED
      BY <1>1, <3>1, <3>2 DEF ParseTask
  <2>2. ASSUME NEW t, Sent(t)
        PROVE  t.on <= uploaded' /\ (t.name = "parse_archive" => t.gen = account'.gen)
    <3>1. CASE Upload /\ t = [name |-> "parse_archive", on |-> uploaded + 1, gen |-> account.gen]
      <4>1. uploaded' = uploaded + 1 /\ account' = account
        BY <3>1 DEF Upload
      <4> QED
        BY <1>0, <3>1, <4>1
    <3>2. CASE t = [name |-> "delete_user_data", on |-> NoArchive, gen |-> account.gen]
      BY <1>0, <3>2
    <3>3. ASSUME NEW w \in Worker,
                 \/ t = [name |-> "analyze_posts", on |-> job[w].on, gen |-> job[w].gen]
                 \/ t = [name |-> "analyze_reactions", on |-> job[w].on, gen |-> job[w].gen]
                 \/ t = [name |-> "extract_time_metadata", on |-> NoArchive, gen |-> job[w].gen]
          PROVE  t.on <= uploaded' /\ t.name # "parse_archive"
      <4>1. job[w].on <= uploaded /\ job[w].on \in Nat
        BY <1>0 DEF ParseOrigin
      <4>2. t.on \in {job[w].on, 0} /\ t.name # "parse_archive"
        BY <1>0, <3>3
      <4> QED
        BY <1>0, <4>1, <4>2
    <3> QED
      BY <2>2, <3>1, <3>2, <3>3 DEF Sent
  <2>3. CASE Sent(queue'[i])
    BY <2>2, <2>3 DEF ParseTask
  <2> QED
    BY <2>1, <2>3, QueueOrigin
<1>3. ASSUME NEW v \in Worker PROVE ParseTask(job[v])' /\ job'[v].on <= uploaded'
  <2>1. CASE job'[v] = job[v]
    BY <1>0, <1>1, <2>1 DEF ParseTask, ParseOrigin
  <2>2. CASE job'[v] = NoTask
    BY <1>0, <2>2 DEF NoTask, ParseTask
  <2>3. ASSUME NEW i \in 1..Len(queue), job'[v] = queue[i] PROVE ParseTask(job[v])' /\ job'[v].on <= uploaded'
    BY <1>0, <1>1, <2>3 DEF ParseTask, ParseOrigin
  <2> QED
    BY <2>1, <2>2, <2>3, JobOrigin
<1>4. archives' \subseteq 1..uploaded'
  <2>1. archives \subseteq 1..uploaded
    BY DEF ParseOrigin
  <2>2. 1..uploaded \subseteq 1..uploaded' /\ (uploaded' = uploaded + 1 => uploaded + 1 \in 1..uploaded')
    BY <1>0
  <2> QED
    BY <2>1, <2>2, ArchiveStep
<1> QED
  BY <1>2, <1>3, <1>4 DEF ParseOrigin

LEMMA OnRowStep ==
  Typed /\ Ages /\ ParseOnRow /\ [Next]_vars => ParseOnRow'
<1> SUFFICES ASSUME Typed, Ages, ParseOnRow, [Next]_vars, NEW w \in Worker, Current(w)', pc'[w] \in Parsing
             PROVE  job'[w].on \in archives'
  BY DEF ParseOnRow
<1>1. account'.exists
  BY DEF Current
<1>2. account.exists => archives \subseteq archives'
  BY <1>1, ArchiveStep
<1>3. CASE job'[w] = job[w] /\ pc'[w] = pc[w] /\ local'[w] = local[w]
  <2>1. Current(w)
    BY <1>3, CurrentStep
  <2> QED
    BY <1>2, <1>3, <2>1 DEF ParseOnRow, Current
<1>4. CASE ReadRange(w)
  <2>1. account.exists /\ job[w].on \in archives
    BY <1>4, FinishCall DEF ReadRange, Parsing
  <2> QED
    BY <1>4, <2>1, GotoCall DEF ReadRange, pgVars
<1>5. CASE InsertPosts(w) \/ InsertComplex(w) \/ InsertReactions(w)
  <2>1. job' = job /\ UNCHANGED archives /\ pc[w] \in Parsing
    BY <1>5, Goes DEF InsertPosts, InsertComplex, InsertReactions, Insert, Goto, Parsing
  <2> QED
    BY <2>1, CurrentStep DEF ParseOnRow
<1> QED
  BY <1>3, <1>4, <1>5, OwnStep, Arrives DEF Parsing

-----------------------------------------------------------------------------
(* What is known stays known. *)

Excuses == {"job", "insert", "dark", "mixed"}

LEMMA ExcusedStays ==
  ASSUME Typed, [Next]_vars, ~Excused'
  PROVE  ~Excused /\ Without(Excuses)' /\ \A w \in Worker : ~JobLost(w)
<1>1. Without(Excuses)' /\ Without(Excuses) /\ (\A w \in Worker : ~JobLost(w))
  BY AccountStep DEF Excused, Without, Excuses, JobLost
<1>2. ASSUME NEW w \in Worker, Dark(w) PROVE FALSE
  <2>1. CASE pc'[w] = pc[w] /\ local'[w] = local[w]
    BY <1>2, <2>1 DEF Dark, Excused
  <2>2. CASE InsertPosts(w) \/ InsertComplex(w) \/ InsertReactions(w)
    <3>1. pc'[w] \in Parsing /\ local'[w] = local[w]
      BY <2>2, Goes DEF Parsing
    <3> QED
      BY <1>2, <3>1 DEF Dark, Excused
  <2>3. CASE UploadMedia(w)
    <3>1. "dark" \in happened'
      BY <1>2, <2>3 DEF Dark, UploadMedia
    <3> QED
      BY <1>1, <3>1 DEF Without, Excuses
  <2> QED
    BY <1>1, <1>2, <2>1, <2>2, <2>3, OwnStep, Leaves DEF Dark, Parsing
<1> QED
  BY <1>1, <1>2 DEF Excused, Excuses

\* What an insert without failure adds, for a registration that is there.
LEMMA Inserted ==
  ASSUME Typed, account.exists, Without(Excuses)', NEW w \in Worker
  PROVE  /\ InsertPosts(w) => posts' = posts \cup (FreshPosts(w) \ Complex) /\ Current(w)
         /\ InsertComplex(w) => posts' = posts \cup (FreshPosts(w) \cap Complex) /\ Current(w)
         /\ InsertReactions(w) => reactions' = reactions \cup Reactions[job[w].on] /\ Current(w)
         /\ InsertPosts(w) \/ InsertComplex(w) \/ InsertReactions(w) =>
              job' = job /\ local'[w] = local[w] /\ job[w].on \in Archive
<1>1. "insert" \notin happened' /\ "mixed" \notin happened'
  BY DEF Without, Excuses
<1>2. InsertPosts(w) \/ InsertComplex(w) \/ InsertReactions(w) =>
        job' = job /\ local'[w] = local[w] /\ job[w].on \in Archive
  <2>1. InsertPosts(w) \/ InsertComplex(w) \/ InsertReactions(w) => job[w].name = "parse_archive"
    BY JobFacts, StepsOfNames DEF InsertPosts, InsertComplex, InsertReactions, At
  <2> QED
    BY <2>1, Goes, OwnArchive DEF InsertPosts, InsertComplex, InsertReactions, Insert, Goto, ArchiveJobs
<1>3. ASSUME NEW gen, Mixed(gen) \subseteq happened' PROVE gen = account.gen
  BY <1>1, <1>3 DEF Mixed
<1>4. InsertPosts(w) => posts' = posts \cup (FreshPosts(w) \ Complex) /\ Current(w)
  BY <1>1, <1>3 DEF InsertPosts, Insert, Current
<1>5. InsertComplex(w) => posts' = posts \cup (FreshPosts(w) \cap Complex) /\ Current(w)
  BY <1>1, <1>3 DEF InsertComplex, Insert, Current
<1>6. InsertReactions(w) => reactions' = reactions \cup Reactions[job[w].on] /\ Current(w)
  BY <1>1, <1>3 DEF InsertReactions, Insert, Current
<1> QED
  BY <1>2, <1>4, <1>5, <1>6

LEMMA KnownStays ==
  ASSUME Typed, [Next]_vars, account.exists, account'.exists, ~Excused', NEW t, Known(t)
  PROVE  Known(t)'
<1>1. account'.gen = account.gen /\ Without(Excuses)' /\ \A w \in Worker : ~JobLost(w)
  BY ExcusedStays, DocStep
<1>2. CASE t \in posts
  BY <1>2, RowStep DEF Known
<1>3. ASSUME NEW w \in Worker, Current(w), pc[w] = "complex", t \in FreshPosts(w) \cap Complex
      PROVE  Known(t)'
  <2>1. CASE job'[w] = job[w] /\ pc'[w] = pc[w] /\ local'[w] = local[w]
    <3>1. Current(w)' /\ pc'[w] = "complex" /\ t \in FreshPosts(w)' \cap Complex
      BY <1>1, <1>3, <2>1 DEF Current, FreshPosts
    <3> QED
      BY <3>1 DEF Known, Pending
  <2>2. CASE InsertComplex(w)
    <3>1. posts' = posts \cup (FreshPosts(w) \cap Complex)
      BY <1>1, <2>2, Inserted
    <3> QED
      BY <1>3, <3>1 DEF Known
  <2> QED
    BY <1>1, <1>3, <2>1, <2>2, OwnStep, Leaves
<1> QED
  BY <1>2, <1>3 DEF Known, Pending

-----------------------------------------------------------------------------
(* Archives that have contributed. *)

LEMMA ParsedStep ==
  ASSUME Typed, [Next]_vars, account.exists
  PROVE  \/ parsed' = parsed
         \/ \E w \in Worker : UploadMedia(w) /\ job[w].on \in archives /\ parsed' = parsed \cup {job[w].on}
<1>1. ASSUME NEW w \in Worker, JobStep(w) \/ JobLost(w), ~UploadMedia(w) PROVE parsed' = parsed
  BY <1>1
  DEF JobStep, Start, ReadRange, InsertPosts, InsertComplex, InsertReactions, SavePosts,
      ReadDoc, WriteLocation, SaveReactions, ReadPosts, ReadReactions, ReadTimeDoc, WriteRange,
      RemoveStat, RemoveObjects, RemoveAccount, JobLost, auxVars
<1>2. ASSUME NEW w \in Worker, UploadMedia(w)
      PROVE  parsed' = parsed \/ (job[w].on \in archives /\ parsed' = parsed \cup {job[w].on})
  BY <1>2 DEF UploadMedia
<1>3. RegisterLook \/ RegisterInsert \/ EditRead \/ EditWrite \/ Upload \/ DeleteFlag \/ DeleteSend
        \/ AdminDelete \/ UNCHANGED vars => parsed' = parsed
  BY DEF RegisterLook, RegisterInsert, EditRead, EditWrite, Upload, DeleteFlag, DeleteSend,
         AdminDelete, vars, auxVars
<1> QED
  BY <1>1, <1>2, <1>3 DEF Next

LEMMA ContributedStays ==
  ASSUME Typed, ParseOnRow, [Next]_vars, account.exists, account'.exists, ~Excused',
         NEW a \in Archive, Contributed(a)
  PROVE  Contributed(a)'
<1>1. account'.gen = account.gen /\ \A w \in Worker : ~JobLost(w)
  BY ExcusedStays, DocStep
<1>2. CASE a \in parsed
  BY <1>2, ParsedStep DEF Contributed
<1>3. ASSUME NEW w \in Worker, Current(w), pc[w] \in {"complex", "reactions", "media"}, job[w].on = a
      PROVE  Contributed(a)'
  <2>1. CASE job'[w] = job[w] /\ pc'[w] = pc[w]
    BY <1>1, <1>3, <2>1 DEF Current, Contributed
  <2>2. CASE InsertComplex(w) \/ InsertReactions(w)
    <3>1. job' = job /\ pc'[w] \in {"reactions", "media"}
      BY <2>2, Goes DEF InsertComplex, InsertReactions, Insert, Goto
    <3> QED
      BY <1>1, <1>3, <3>1 DEF Current, Contributed
  <2>3. CASE UploadMedia(w)
    <3>1. job[w].on \in archives
      BY <1>3 DEF ParseOnRow, Parsing
    <3>2. a \in parsed'
      BY <1>3, <2>3, <3>1 DEF UploadMedia
    <3> QED
      BY <3>2 DEF Contributed
  <2> QED
    BY <1>1, <1>3, <2>1, <2>2, <2>3, OwnStep, Leaves
<1> QED
  BY <1>2, <1>3 DEF Contributed

LEMMA ContributedNew ==
  ASSUME Typed, Ages, ParseOrigin, [Next]_vars, account.exists, account'.exists,
         NEW a \in Archive, Contributed(a)', ~Contributed(a)
  PROVE  \E w \in Worker : InsertPosts(w) /\ job[w].on = a
<1>1. ASSUME NEW w \in Worker, UploadMedia(w), job[w].on = a, a \in archives PROVE FALSE
  <2>1. pc[w] = "media" /\ job[w].name = "parse_archive"
    BY <1>1, JobFacts, StepsOfNames DEF UploadMedia, At
  <2>2. Current(w)
    BY <1>1, <2>1 DEF ParseOrigin, ParseTask, Current
  <2> QED
    BY <1>1, <2>1, <2>2 DEF Contributed
<1>2. CASE a \in parsed'
  BY <1>1, <1>2, ParsedStep DEF Contributed
<1>3. ASSUME NEW w \in Worker, Current(w)', pc'[w] \in {"complex", "reactions", "media"}, job'[w].on = a
      PROVE  InsertPosts(w) /\ job[w].on = a
  <2>1. CASE job'[w] = job[w] /\ pc'[w] = pc[w]
    BY <1>3, <2>1, CurrentStep DEF Contributed
  <2>2. CASE InsertPosts(w) \/ InsertComplex(w) \/ InsertReactions(w)
    <3>1. job' = job
      BY <2>2 DEF InsertPosts, InsertComplex, InsertReactions, Insert, Goto
    <3>2. Current(w)
      BY <1>3, <3>1, CurrentStep
    <3>3. InsertComplex(w) \/ InsertReactions(w) => pc[w] \in {"complex", "reactions"}
      BY Goes
    <3> QED
      BY <1>3, <2>2, <3>1, <3>2, <3>3 DEF Contributed
  <2> QED
    BY <1>3, <2>1, <2>2, OwnStep, Arrives
<1> QED
  BY <1>2, <1>3 DEF Contributed

LEMMA RowsContributedStep ==
  ASSUME Typed, ParseOnRow, [Next]_vars, account.exists, account'.exists, ~Excused', RowsContributed
  PROVE  RowsContributed'
<1>1. account'.gen = account.gen /\ Without(Excuses)'
  BY ExcusedStays, DocStep
<1>2. ASSUME NEW w \in Worker, InsertPosts(w) \/ InsertComplex(w) \/ InsertReactions(w)
      PROVE  \E a \in Archive : a = job[w].on /\ Contributed(a)'
  <2>1. Current(w) /\ job' = job /\ job[w].on \in Archive
    BY <1>1, <1>2, Inserted
  <2>2. pc'[w] \in {"complex", "reactions", "media"}
    BY <1>2, Goes
  <2>3. PICK a \in Archive : a = job[w].on
    BY <2>1
  <2>4. Contributed(a)'
    BY <1>1, <2>1, <2>2, <2>3 DEF Contributed, Current
  <2> QED
    BY <2>3, <2>4
<1>3. ASSUME NEW x \in posts' PROVE \E a \in Archive : Contributed(a)' /\ x \in Posts[a]
  <2>1. CASE x \in posts
    BY <2>1, ContributedStays DEF RowsContributed
  <2>2. CASE x \notin posts
    <3>1. PICK w \in Worker : InsertPosts(w) \/ InsertComplex(w)
      BY <2>2, RowStep
    <3>2. x \in FreshPosts(w)
      BY <1>1, <2>2, <3>1, Inserted
    <3> QED
      BY <1>2, <3>1, <3>2 DEF FreshPosts
  <2> QED
    BY <2>1, <2>2
<1>4. ASSUME NEW x \in reactions' PROVE \E a \in Archive : Contributed(a)' /\ x \in Reactions[a]
  <2>1. CASE x \in reactions
    BY <2>1, ContributedStays DEF RowsContributed
  <2>2. CASE x \notin reactions
    <3>1. PICK w \in Worker : InsertPosts(w) \/ InsertComplex(w) \/ InsertReactions(w)
      BY <2>2, RowStep
    <3>2. InsertReactions(w)
      BY <2>2, <3>1 DEF InsertPosts, InsertComplex
    <3>3. x \in Reactions[job[w].on]
      BY <1>1, <2>2, <3>2, Inserted
    <3> QED
      BY <1>2, <3>2, <3>3
  <2> QED
    BY <2>1, <2>2
<1> QED
  BY <1>3, <1>4 DEF RowsContributed

LEMMA ContributedKnownStep ==
  ASSUME Typed, Ages, ParseOrigin, [Next]_vars, account.exists, account'.exists, ~Excused',
         ContributedKnown, RangesCovered
  PROVE  ContributedKnown'
<1> SUFFICES ASSUME NEW a \in Archive, Contributed(a)', NEW t \in Posts[a] PROVE Known(t)'
  BY DEF ContributedKnown
<1>1. account'.gen = account.gen /\ Without(Excuses)' /\ ~Excused
  BY ExcusedStays, DocStep
<1>2. CASE Contributed(a)
  BY <1>2, KnownStays DEF ContributedKnown
<1>3. CASE ~Contributed(a)
  <2>1. PICK w \in Worker : InsertPosts(w) /\ job[w].on = a
    BY <1>3, ContributedNew
  <2>2. /\ posts' = posts \cup (FreshPosts(w) \ Complex) /\ Current(w) /\ job' = job /\ local'[w] = local[w]
        /\ pc[w] = "posts" /\ pc'[w] = "complex"
    BY <1>1, <2>1, Inserted, Goes
  <2>3. CASE Fresh(t, local[w].range)
    <3>1. t \in FreshPosts(w)
      BY <2>1, <2>3 DEF FreshPosts
    <3>2. CASE t \in Complex
      <4>1. t \in FreshPosts(w)' \cap Complex /\ Current(w)'
        BY <1>1, <2>2, <3>1, <3>2 DEF FreshPosts, Current
      <4> QED
        BY <2>2, <4>1 DEF Known, Pending
    <3>3. CASE t \notin Complex
      BY <2>2, <3>1, <3>3 DEF Known
    <3> QED
      BY <3>2, <3>3
  <2>4. CASE ~Fresh(t, local[w].range)
    <3>1. /\ local[w].range.first \in Time \cup {0} /\ local[w].range.last \in Time \cup {0}
          /\ t \in Time /\ t \in AllPosts
      BY JobFacts, PostsAssumption DEF Local, AllPosts
    <3>2. t \in Nat /\ t > 0 /\ local[w].range.first \in Nat /\ local[w].range.last \in Nat
      BY <3>1, Times
    <3>3. local[w].range.first > 0
      <4>1. ~Dark(w)
        BY <1>1 DEF Excused
      <4> QED
        BY <2>2, <2>4, <3>2, <4>1 DEF Dark, Fresh, Parsing
    <3>4. Covered(local[w].range)
      BY <2>2 DEF RangesCovered, CoveredByWorker, Parsing
    <3>5. Known(t)
      BY <2>4, <3>1, <3>3, <3>4 DEF Covered
    <3> QED
      BY <3>5, KnownStays
  <2> QED
    BY <2>3, <2>4
<1> QED
  BY <1>2, <1>3

\* Where the range in a document that is written back comes from.
LEMMA DocFrom ==
  ASSUME Typed, [Next]_vars, account.exists, account'.exists, "mixed" \notin happened'
  PROVE  \/ account'.doc.first = account.doc.first /\ account'.doc.last = account.doc.last
         \/ /\ editing.open /\ editing.gen = account.gen
            /\ account'.doc.first = editing.doc.first /\ account'.doc.last = editing.doc.last
         \/ \E w \in Worker :
              /\ Current(w) /\ pc[w] = "write_location"
              /\ account'.doc.first = local[w].doc.first /\ account'.doc.last = local[w].doc.last
         \/ \E w \in Worker :
              /\ Current(w) /\ pc[w] = "write_range"
              /\ account'.doc.first = local[w].range.first /\ account'.doc.last = local[w].range.last
<1>0. AccountControl /\ editing.doc \in Doc
  BY DEF Typed, DeletionInv, Control, Fields, RequestFields
<1>1. ASSUME NEW gen, Mixed(gen) \subseteq happened' PROVE gen = account.gen
  BY <1>1 DEF Mixed
<1>2. CASE EditWrite
  <2>1. editing.gen = account.gen /\ editing.open
    BY <1>1, <1>2 DEF EditWrite
  <2>2. account'.doc = WithProfile(editing.doc, Budget["edit"] - left["edit"])
    BY <1>0, <1>2, MergeProfile DEF EditWrite, AccountControl, WithProfile
  <2>3. account'.doc.first = editing.doc.first /\ account'.doc.last = editing.doc.last
    BY <2>2, ProfileParts
  <2> QED
    BY <2>1, <2>3
<1>3. ASSUME NEW w \in Worker, WriteLocation(w)
      PROVE  /\ Current(w) /\ pc[w] = "write_location"
             /\ account'.doc.first = local[w].doc.first /\ account'.doc.last = local[w].doc.last
  <2>1. Current(w) /\ pc[w] = "write_location"
    BY <1>1, <1>3 DEF WriteLocation, Current, At
  <2>2. local[w].doc \in Doc /\ local[w].placed \in BOOLEAN
    BY JobFacts DEF Local
  <2>3. account'.doc = Merge(local[w].doc, IF local[w].placed THEN [location |-> TRUE] ELSE <<>>)
    BY <1>0, <1>3 DEF WriteLocation, UpdateDoc, AccountControl
  <2>4. CASE local[w].placed = TRUE
    <3>1. account'.doc = WithLocation(local[w].doc)
      BY <2>2, <2>3, <2>4, MergeLocation DEF WithLocation
    <3> QED
      BY <2>1, <3>1, LocationParts
  <2>5. CASE local[w].placed = FALSE
    <3>1. account'.doc = Merge(local[w].doc, <<>>)
      BY <2>3, <2>5
    <3> QED
      BY <2>1, <2>2, <3>1, MergeNothing
  <2> QED
    BY <2>2, <2>4, <2>5
<1>4. ASSUME NEW w \in Worker, WriteRange(w)
      PROVE  /\ Current(w) /\ pc[w] = "write_range"
             /\ account'.doc.first = local[w].range.first /\ account'.doc.last = local[w].range.last
  <2>1. Current(w) /\ pc[w] = "write_range"
    BY <1>1, <1>4 DEF WriteRange, Current, At
  <2>2. local[w].doc \in Doc /\ local[w].range \in Bounds
    BY JobFacts DEF Local, Bounds
  <2>3. account'.doc = Merge(local[w].doc, local[w].range)
    BY <1>0, <1>4 DEF WriteRange, UpdateDoc, AccountControl
  <2> QED
    BY <2>1, <2>2, <2>3, MergeRange
<1>5. \/ account'.doc = account.doc \/ EditWrite
      \/ \E w \in Worker : WriteLocation(w) \/ WriteRange(w)
  BY DocStep
<1> QED
  BY <1>2, <1>3, <1>4, <1>5

\* Between two rows, one archive or the other has everything.
LEMMA RangeCovers ==
  ASSUME Whole, Typed, RowsContributed, ContributedKnown, NEW found, found \subseteq posts
  PROVE  Covered(Range(found, reactions))
<1> DEFINE r == Range(found, reactions)
<1>1. posts \subseteq Time /\ reactions \subseteq Time
  BY DEF Typed, Fields, StoreFields
<1> SUFFICES ASSUME r.first > 0, NEW t \in AllPosts, ~Fresh(t, r) PROVE Known(t)
  BY DEF Covered
<1>2. /\ r.first \in found \cup reactions /\ r.last \in found \cup reactions
      /\ r.first \in Time \cup {0} /\ r.last \in Time \cup {0}
  BY <1>1, RangeOf DEF Bounds
<1>3. t \in Time
  BY PostsAssumption DEF AllPosts
<1>4. t \in Nat /\ r.first \in Nat /\ r.last \in Nat
  BY <1>2, <1>3, Times
<1>5. r.first <= t /\ t <= r.last
  BY <1>4 DEF Fresh
<1>6. ASSUME NEW x \in found \cup reactions
      PROVE  \E a \in Archive : Contributed(a) /\ x \in Posts[a] \cup Reactions[a]
  BY DEF RowsContributed
<1>7. PICK a \in Archive : Contributed(a) /\ r.first \in Posts[a] \cup Reactions[a]
  BY <1>2, <1>6
<1>8. PICK b \in Archive : Contributed(b) /\ r.last \in Posts[b] \cup Reactions[b]
  BY <1>2, <1>6
<1>9. t \in Posts[a] \cup Posts[b]
  BY <1>5, <1>7, <1>8 DEF Whole
<1> QED
  BY <1>7, <1>8, <1>9 DEF ContributedKnown

LEMMA RangesCoveredStep ==
  ASSUME Whole, Typed, Ages, [Next]_vars, account.exists, account'.exists, ~Excused',
         RowsContributed, ContributedKnown, RangesCovered
  PROVE  RangesCovered'
<1>1. /\ account'.gen = account.gen /\ Without(Excuses)' /\ ~Excused /\ "mixed" \notin happened'
      /\ posts \subseteq posts'
  BY ExcusedStays, DocStep, RowStep DEF Without, Excuses
<1>2. \A t : Known(t) => Known(t)'
  BY KnownStays
<1>3. Covered(account.doc)'
  <2>1. ASSUME NEW r, Covered(r), account'.doc.first = r.first, account'.doc.last = r.last
        PROVE  Covered(account.doc)'
    BY <1>2, <2>1 DEF Covered, Fresh
  <2>2. Covered(account.doc)
    BY DEF RangesCovered
  <2>3. editing.open /\ editing.gen = account.gen => Covered(editing.doc)
    BY DEF RangesCovered
  <2>4. ASSUME NEW w \in Worker, Current(w)
        PROVE  /\ pc[w] = "write_location" => Covered(local[w].doc)
               /\ pc[w] = "write_range" => Covered(local[w].range)
    BY <2>4 DEF RangesCovered, CoveredByWorker
  <2> QED
    BY <1>1, <2>1, <2>2, <2>3, <2>4, DocFrom
<1>4. ASSUME editing'.open, editing'.gen = account'.gen PROVE Covered(editing.doc)'
  <2>1. CASE UNCHANGED editing
    BY <1>1, <1>2, <1>4, <2>1 DEF RangesCovered, Covered
  <2>2. CASE EditRead
    <3>1. editing'.doc = account.doc
      BY <2>2 DEF EditRead
    <3> QED
      BY <1>2, <3>1 DEF RangesCovered, Covered
  <2> QED
    BY <1>4, <2>1, <2>2, EditStep DEF NoEdit
<1>5. ASSUME NEW w \in Worker, Current(w)' PROVE CoveredByWorker(w)'
  <2>1. CASE job'[w] = job[w] /\ pc'[w] = pc[w] /\ local'[w] = local[w]
    <3>1. CoveredByWorker(w)
      BY <1>5, <2>1, CurrentStep DEF RangesCovered
    <3> QED
      BY <1>1, <1>2, <2>1, <3>1 DEF CoveredByWorker, Covered
  <2>2. CASE ReadRange(w) /\ pc'[w] = "posts"
    <3>1. local'[w] = [local[w] EXCEPT !.range = [first |-> account.doc.first, last |-> account.doc.last]]
      BY <2>2, GotoCall, FinishCall DEF ReadRange
    <3>2. local'[w].range.first = account.doc.first /\ local'[w].range.last = account.doc.last
      BY <3>1, JobFacts DEF Local
    <3> QED
      BY <1>2, <2>2, <3>2 DEF RangesCovered, CoveredByWorker, Covered, Fresh
  <2>3. CASE InsertPosts(w) \/ InsertComplex(w) \/ InsertReactions(w)
    <3>1. Current(w) /\ local'[w] = local[w] /\ pc[w] \in Parsing /\ pc'[w] \in Parsing
      BY <1>1, <2>3, Inserted, Goes DEF Parsing
    <3>2. Covered(local[w].range)
      BY <3>1 DEF RangesCovered, CoveredByWorker
    <3>3. Covered(local[w].range)'
      BY <1>2, <3>1, <3>2 DEF Covered
    <3> QED
      BY <3>1, <3>3 DEF CoveredByWorker, Parsing
  <2>4. CASE ReadPosts(w)
    <3>1. local'[w] = [local[w] EXCEPT !.found = posts] /\ pc'[w] = "read_reactions"
      BY <2>4, GotoCall DEF ReadPosts
    <3>2. local'[w].found = posts
      BY <3>1, JobFacts DEF Local
    <3> QED
      BY <1>1, <3>1, <3>2 DEF CoveredByWorker, Parsing
  <2>5. CASE ReadReactions(w)
    <3>1. /\ local'[w] = [local[w] EXCEPT !.range = Range(local[w].found, reactions), !.found = {}]
          /\ pc'[w] = "read_time_doc" /\ pc[w] = "read_reactions" /\ job' = job
      BY <2>5, GotoCall DEF ReadReactions, At
    <3>2. local'[w].range = Range(local[w].found, reactions)
      BY <3>1, JobFacts DEF Local
    <3>3. Current(w)
      BY <1>5, <3>1, CurrentStep
    <3>4. Covered(Range(local[w].found, reactions))
      BY <3>1, <3>3, RangeCovers DEF RangesCovered, CoveredByWorker
    <3>5. Covered(local[w].range)'
      BY <1>2, <3>2, <3>4 DEF Covered
    <3> QED
      BY <3>1, <3>5 DEF CoveredByWorker, Parsing
  <2>6. CASE ReadTimeDoc(w) /\ pc'[w] = "write_range"
    <3>1. /\ local'[w] = [local[w] EXCEPT !.doc = account.doc] /\ pc[w] = "read_time_doc" /\ job' = job
      BY <2>6, GotoCall, FinishCall DEF ReadTimeDoc, At
    <3>2. local'[w].range = local[w].range
      BY <3>1, JobFacts DEF Local
    <3>3. Current(w)
      BY <1>5, <3>1, CurrentStep
    <3>4. Covered(local[w].range)
      BY <3>1, <3>3 DEF RangesCovered, CoveredByWorker
    <3>5. Covered(local[w].range)'
      BY <1>2, <3>2, <3>4 DEF Covered
    <3> QED
      BY <2>6, <3>5 DEF CoveredByWorker, Parsing
  <2>7. CASE ReadDoc(w) /\ pc'[w] = "write_location"
    <3>1. local'[w] = [local[w] EXCEPT !.doc = account.doc]
      BY <2>7, GotoCall, FinishCall DEF ReadDoc
    <3>2. local'[w].doc = account.doc
      BY <3>1, JobFacts DEF Local
    <3>3. Covered(local[w].doc)'
      BY <1>2, <3>2 DEF Covered, RangesCovered
    <3> QED
      BY <2>7, <3>3 DEF CoveredByWorker, Parsing
  <2>8. CASE pc'[w] \notin Parsing \cup {"read_reactions", "read_time_doc", "write_range", "write_location"}
    BY <2>8 DEF CoveredByWorker
  <2> QED
    BY <2>1, <2>2, <2>3, <2>4, <2>5, <2>6, <2>7, <2>8, OwnStep, Arrives DEF Parsing
<1> QED
  BY <1>3, <1>4, <1>5 DEF RangesCovered

\* A new account has nothing, and nobody works for it yet.
LEMMA MissedByRegistration ==
  ASSUME Typed, RowsOfAccount, Ages, [Next]_vars, ~account.exists, account'.exists
  PROVE  RowsContributed' /\ ContributedKnown' /\ RangesCovered'
<1>1. /\ account' = [exists |-> TRUE, deleting |-> FALSE, doc |-> NewDoc, gen |-> account.gen + 1]
      /\ parsed' = {} /\ UNCHANGED <<editing, job>>
  BY AccountStep DEF RegisterInsert, jobVars
<1>2. account'.doc = NewDoc /\ account'.gen = account.gen + 1
  BY <1>1
<1>3. account'.doc.first = 0
  BY <1>2, NewParts
<1>4. posts' = {} /\ reactions' = {}
  BY RowStep DEF RowsOfAccount
<1>5. \A w \in Worker : ~Current(w)'
  BY <1>1, CurrentStep DEF Current
<1>6. \A a \in Archive : ~Contributed(a)'
  BY <1>1, <1>5 DEF Contributed
<1>7. editing'.gen # account'.gen
  <2>1. editing.gen <= account.gen /\ editing.gen \in Nat /\ account.gen \in Nat
    BY DEF Ages, Typed, DeletionInv, Control, AccountControl, Fields, RequestFields
  <2> QED
    BY <1>1, <1>2, <2>1
<1>8. Covered(account.doc)'
  BY <1>3 DEF Covered
<1> QED
  BY <1>4, <1>5, <1>6, <1>7, <1>8 DEF RowsContributed, ContributedKnown, RangesCovered

KeptInv ==
  /\ Typed /\ NothingLeft /\ RowsOfAccount /\ Ages
  /\ ParseOrigin /\ ParseOnRow /\ NothingMissed

LEMMA InitKept == Init => KeptInv
<1> SUFFICES ASSUME Init PROVE Ages /\ ParseOrigin /\ ParseOnRow /\ NothingMissed
  BY InitRemoved DEF KeptInv
<1>1. /\ ~account.exists /\ queue = <<>> /\ archives = {} /\ uploaded = 0
      /\ \A w \in Worker : job[w] = NoTask
  BY DEF Init
<1>2. Ages
  BY InitMetadata DEF MetadataInv
<1>3. ParseOrigin
  BY <1>1 DEF ParseOrigin, ParseTask, NoTask, NoArchive
<1> QED
  BY <1>1, <1>2, <1>3 DEF ParseOnRow, NothingMissed, Current

LEMMA StepKept ==
  ASSUME Whole
  PROVE  KeptInv /\ [Next]_vars => KeptInv'
<1> SUFFICES ASSUME KeptInv, [Next]_vars PROVE KeptInv'
  OBVIOUS
<1>0. Typed /\ RowsOfAccount /\ Ages /\ ParseOrigin /\ ParseOnRow /\ NothingMissed
  BY DEF KeptInv
<1>1. Typed' /\ NothingLeft' /\ RowsOfAccount' /\ Ages' /\ ParseOrigin' /\ ParseOnRow'
  BY StepRemoved, AgesStep, OriginStep, OnRowStep DEF KeptInv
<1>2. ASSUME account'.exists, ~Excused' PROVE RowsContributed' /\ ContributedKnown' /\ RangesCovered'
  <2>1. CASE ~account.exists
    BY <1>0, <1>2, <2>1, MissedByRegistration
  <2>2. CASE account.exists
    <3>1. RowsContributed /\ ContributedKnown /\ RangesCovered
      BY <1>0, <1>2, <2>2, ExcusedStays DEF NothingMissed
    <3> QED
      BY <1>0, <1>2, <2>2, <3>1, RowsContributedStep, ContributedKnownStep, RangesCoveredStep
  <2> QED
    BY <2>1, <2>2
<1> QED
  BY <1>1, <1>2 DEF KeptInv, NothingMissed

LEMMA QuietKept == KeptInv => PostsKept
<1> SUFFICES ASSUME KeptInv, Quiet, account.exists, Without({"job", "insert", "dark", "mixed"}),
                    NEW a \in parsed, NEW t \in Posts[a]
             PROVE  t \in posts
  BY DEF PostsKept
<1>1. \A w \in Worker : pc[w] = "idle"
  BY DEF Quiet, At
<1>2. ~Excused
  BY <1>1 DEF Excused, Dark, Parsing
<1>3. a \in Archive
  BY DEF KeptInv, Typed, Fields, StoreFields
<1>4. Known(t)
  BY <1>2, <1>3 DEF KeptInv, NothingMissed, ContributedKnown, Contributed
<1>5. ~Pending(t)
  BY <1>1 DEF Pending
<1> QED
  BY <1>4, <1>5 DEF Known

(***************************************************************************)
(* Every post of an archive whose parse succeeded is in the database in the    *)
(* end, although the parser leaves out what lies in the activity range, if      *)
(* archives are whole and but for the exceptions of PostsKept: for all workers,  *)
(* archives, posts, reactions and requests, however the jobs, the edits, the     *)
(* deletions and the registrations interleave (RawPosts.ORM).                  *)
(***************************************************************************)
THEOREM NoPostMissed == Whole => (Spec => []PostsKept)
<1> SUFFICES ASSUME Whole PROVE Spec => []PostsKept
  OBVIOUS
<1>1. KeptInv /\ [Next]_vars => KeptInv'
  BY StepKept
<1> QED
  BY <1>1, InitKept, QuietKept, PTL DEF Spec
=============================================================================
