--------------------------- MODULE DataExportProofs ---------------------------
(***************************************************************************)
(* Theorems about DataExport, for every set of accounts, exports and        *)
(* workers.                                                                 *)
(***************************************************************************)
EXTENDS DataExport, SequenceTheorems, TLAPS

\* A worker is free exactly when it has no export.
JobAtStep == \A w \in Worker : pc[w] = "idle" <=> job[w] = NoExport

Typed == TypeOK /\ JobAtStep

(***************************************************************************)
(* The queue stays a sequence of exports, and where they are in it.         *)
(***************************************************************************)
LEMMA QueuePlaces ==
    \A q \in Seq(Export) :
        /\ \A e \in Export :
              /\ Append(q, e) \in Seq(Export)
              /\ \A i \in DOMAIN Append(q, e) :
                    IF i = Len(q) + 1 THEN Append(q, e)[i] = e
                    ELSE i \in DOMAIN q /\ Append(q, e)[i] = q[i]
              /\ Len(q) + 1 \in DOMAIN Append(q, e)
              /\ \A i \in DOMAIN q : i \in DOMAIN Append(q, e) /\ Append(q, e)[i] = q[i]
        /\ q # <<>> =>
              /\ Head(q) \in Export /\ Tail(q) \in Seq(Export)
              /\ 1 \in DOMAIN q /\ q[1] = Head(q)
              /\ \A i \in DOMAIN Tail(q) : i + 1 \in DOMAIN q /\ Tail(q)[i] = q[i + 1] /\ i + 1 # 1
              /\ \A i \in DOMAIN q : i = 1 \/ (i - 1 \in DOMAIN Tail(q) /\ Tail(q)[i - 1] = q[i])
<1> TAKE q \in Seq(Export)
<1>1. ASSUME NEW e \in Export
      PROVE  /\ Append(q, e) \in Seq(Export)
             /\ \A i \in DOMAIN Append(q, e) :
                   IF i = Len(q) + 1 THEN Append(q, e)[i] = e
                   ELSE i \in DOMAIN q /\ Append(q, e)[i] = q[i]
             /\ Len(q) + 1 \in DOMAIN Append(q, e)
             /\ \A i \in DOMAIN q : i \in DOMAIN Append(q, e) /\ Append(q, e)[i] = q[i]
  BY AppendProperties
<1>2. ASSUME q # <<>>
      PROVE  /\ Head(q) \in Export /\ Tail(q) \in Seq(Export)
             /\ 1 \in DOMAIN q /\ q[1] = Head(q)
             /\ \A i \in DOMAIN Tail(q) : i + 1 \in DOMAIN q /\ Tail(q)[i] = q[i + 1] /\ i + 1 # 1
             /\ \A i \in DOMAIN q : i = 1 \/ (i - 1 \in DOMAIN Tail(q) /\ Tail(q)[i - 1] = q[i])
  BY <1>2, HeadTailProperties
<1> QED
  BY <1>1, <1>2

LEMMA InitTyped == Init => Typed
BY DEF Init, Typed, TypeOK, JobAtStep, States, Done, Steps

(***************************************************************************)
(* Every step keeps the types, and workers and exports together.            *)
(***************************************************************************)
LEMMA TypedStep == Typed /\ [Next]_vars => Typed'
<1> SUFFICES ASSUME Typed, [Next]_vars PROVE Typed'
  OBVIOUS
<1> USE NoExportAssumption DEF rowVars, workerVars
<1>1. ASSUME NEW e \in Export, CreateRow(e) PROVE Typed'
  BY <1>1 DEF CreateRow, Typed, TypeOK, JobAtStep, States, Done
<1>2. ASSUME NEW e \in Export, SendTask(e) PROVE Typed'
  <2>1. queue \in Seq(Export) /\ Append(queue, e) \in Seq(Export)
    BY QueuePlaces DEF Typed, TypeOK
  <2>2. state' \in [Export -> States \cup {"none"}]
    BY <1>2 DEF SendTask, Typed, TypeOK, States
  <2> QED
    BY <1>2, <2>1, <2>2 DEF SendTask, Typed, TypeOK, JobAtStep
<1>3. ASSUME NEW w \in Worker, Start(w) PROVE Typed'
  <2>1. Head(queue) \in Export /\ queue' \in Seq(Export)
    BY <1>3, QueuePlaces DEF Start, Typed, TypeOK
  <2> QED
    BY <1>3, <2>1 DEF Start, Goto, Typed, TypeOK, JobAtStep, States, Steps
<1>4. ASSUME NEW w \in Worker, Build(w) PROVE Typed'
  BY <1>4 DEF Build, Goto, Return, Typed, TypeOK, JobAtStep, Done, Steps
<1>5. ASSUME NEW w \in Worker, Upload(w) PROVE Typed'
  BY <1>5 DEF Upload, Goto, Return, Typed, TypeOK, JobAtStep, Done, Steps
<1>6. ASSUME NEW w \in Worker, Name(w) PROVE Typed'
  <2>1. fileKey' \in [Export -> BOOLEAN]
    BY <1>6, Zenon DEF Name, Typed, TypeOK
  <2> QED
    BY <1>6, <2>1 DEF Name, Goto, Return, Typed, TypeOK, JobAtStep, Done, Steps
<1>7. ASSUME NEW w \in Worker, Report(w) PROVE Typed'
  BY <1>7 DEF Report, Goto, Typed, TypeOK, JobAtStep, States, Done, Steps
<1>8. ASSUME NEW w \in Worker, JobProcessed(w) PROVE Typed'
  BY <1>8 DEF JobProcessed, LoseJobs, Goto, Typed, TypeOK, JobAtStep, Steps
<1>9. CASE WorkerCrash
  BY <1>9 DEF WorkerCrash, LoseJobs, Typed, TypeOK, JobAtStep, Steps
<1>10. CASE ApiCrash
  BY <1>10 DEF ApiCrash, Typed, TypeOK, JobAtStep
<1>11. CASE UNCHANGED vars
  BY <1>11 DEF vars, Typed, TypeOK, JobAtStep
<1> QED
  BY <1>1, <1>2, <1>3, <1>4, <1>5, <1>6, <1>7, <1>8, <1>9, <1>10, <1>11 DEF Next, WorkerStep

(***************************************************************************)
(* TypeOK holds.                                                            *)
(***************************************************************************)
THEOREM TypeCorrect == Spec => []TypeOK
<1>1. Typed => TypeOK
  BY DEF Typed
<1> QED
  BY <1>1, InitTyped, TypedStep, PTL DEF Spec

-----------------------------------------------------------------------------
(* At most one export of an account is on its way. *)

\* An export is with one handler, at one place of the queue or with one worker.
OnePlace ==
    /\ \A i, j \in DOMAIN queue : queue[i] = queue[j] => i = j
    /\ \A w, v \in Worker : job[w] = job[v] /\ job[w] # NoExport => w = v
    /\ \A w \in Worker, i \in DOMAIN queue : queue[i] # job[w]
    /\ \A e \in sending : ~Queued(e) /\ ~Running(e)

\* The index: one row of an account is unfinished at most.
OneUnfinished ==
    \A e, f \in Export : Owner[e] = Owner[f] /\ Unfinished(e) /\ Unfinished(f) => e = f

\* What is on its way has an unfinished row, so that the index guards it.
Guarded == \A e \in Export : InFlight(e) => Unfinished(e)

Exclusive == OnePlace /\ OneUnfinished /\ Guarded

LEMMA InitExclusive == Init => Exclusive
BY NoExportAssumption
DEF Init, Exclusive, OnePlace, OneUnfinished, Guarded, InFlight, Queued, Running, Unfinished

(***************************************************************************)
(* Every step keeps the exports of an account apart.                        *)
(***************************************************************************)
LEMMA ExclusiveStep == Typed /\ Exclusive /\ [Next]_vars => Exclusive'
<1> SUFFICES ASSUME Typed, Exclusive, [Next]_vars PROVE Exclusive'
  OBVIOUS
<1> USE NoExportAssumption DEF rowVars, workerVars
<1>q. queue \in Seq(Export)
  BY DEF Typed, TypeOK
<1>1. ASSUME NEW e \in Export, CreateRow(e) PROVE Exclusive'
  <2>1. ~Unfinished(e) /\ ~InFlight(e)
    BY <1>1 DEF CreateRow, Exclusive, Guarded, Unfinished
  <2>2. \A f \in Export : f # e => status'[f] = status[f]
    BY <1>1 DEF CreateRow, Typed, TypeOK
  <2>3. status'[e] = "PENDING" /\ \A f \in Export : Owner[f] = Owner[e] => ~Unfinished(f)
    BY <1>1 DEF CreateRow, Typed, TypeOK
  <2>4. OneUnfinished'
    BY <2>2, <2>3 DEF Exclusive, OneUnfinished, Unfinished
  <2>5. OnePlace'
    BY <1>1, <2>1 DEF CreateRow, Exclusive, OnePlace, InFlight, Queued, Running
  <2>6. Guarded'
    BY <1>1, <2>2, <2>3 DEF CreateRow, Exclusive, Guarded, InFlight, Queued, Running, Unfinished, Done
  <2> QED
    BY <2>4, <2>5, <2>6 DEF Exclusive
<1>2. ASSUME NEW e \in Export, SendTask(e) PROVE Exclusive'
  <2>1. ~Queued(e) /\ ~Running(e) /\ Unfinished(e)
    BY <1>2 DEF SendTask, Exclusive, OnePlace, Guarded, InFlight
  <2>2. CASE queue' = queue
    BY <1>2, <2>2 DEF SendTask, Exclusive, OnePlace, OneUnfinished, Guarded, InFlight, Queued, Running, Unfinished
  <2>3. CASE queue' = Append(queue, e)
    <3>1. \A i \in DOMAIN queue' :
             IF i = Len(queue) + 1 THEN queue'[i] = e ELSE i \in DOMAIN queue /\ queue'[i] = queue[i]
      BY <1>q, <2>3, QueuePlaces
    <3>2. OnePlace'
      BY <1>2, <2>1, <3>1 DEF SendTask, Exclusive, OnePlace, Queued, Running
    <3>3. Guarded'
      BY <1>2, <2>1, <3>1 DEF SendTask, Exclusive, Guarded, InFlight, Queued, Running, Unfinished
    <3> QED
      BY <1>2, <3>2, <3>3 DEF SendTask, Exclusive, OneUnfinished, Unfinished
  <2> QED
    BY <1>2, <2>2, <2>3 DEF SendTask
<1>3. ASSUME NEW w \in Worker, Start(w) PROVE Exclusive'
  <2> DEFINE e == Head(queue)
  <2>1. /\ queue # <<>> /\ queue' = Tail(queue) /\ job[w] = NoExport
        /\ UNCHANGED <<status, sending>>
    BY <1>3 DEF Start, Typed, JobAtStep
  <2>2. /\ e \in Export /\ 1 \in DOMAIN queue /\ queue[1] = e
        /\ \A i \in DOMAIN queue' : i + 1 \in DOMAIN queue /\ queue'[i] = queue[i + 1] /\ i + 1 # 1
    BY <1>q, <2>1, QueuePlaces
  <2>3. DOMAIN queue' \subseteq Int /\ DOMAIN queue \subseteq Int
    BY <1>q, <2>1, QueuePlaces
  <2>4. job' = job \/ job' = [job EXCEPT ![w] = e]
    BY <1>3 DEF Start
  <2> HIDE DEF e
  <2>5. Queued(e) /\ \A f \in Export : Queued(f)' => Queued(f) /\ f # e
    BY <2>2, <2>3 DEF Queued, Exclusive, OnePlace
  <2>6. \A v \in Worker : job'[v] = job[v] \/ (v = w /\ job'[v] = e)
    BY <2>4 DEF Typed, TypeOK
  <2>7. \A i, j \in DOMAIN queue' : queue'[i] = queue'[j] => i = j
    BY <2>2, <2>3 DEF Exclusive, OnePlace
  <2>8. \A v \in Worker, i \in DOMAIN queue' : queue'[i] # job'[v]
    BY <2>2, <2>3, <2>6 DEF Exclusive, OnePlace
  <2>9. \A v, u \in Worker : job'[v] = job'[u] /\ job'[v] # NoExport => v = u
    BY <2>1, <2>2, <2>6 DEF Exclusive, OnePlace
  <2>10. \A f \in Export : Running(f)' => Running(f) \/ f = e
    BY <2>6 DEF Running
  <2>11. \A f \in sending' : ~Queued(f)' /\ ~Running(f)'
    BY <2>1, <2>5, <2>10 DEF Exclusive, OnePlace, Typed, TypeOK
  <2>12. Guarded'
    BY <2>1, <2>5, <2>10 DEF Exclusive, Guarded, InFlight, Unfinished
  <2> QED
    BY <2>1, <2>7, <2>8, <2>9, <2>11, <2>12 DEF Exclusive, OnePlace, OneUnfinished, Unfinished
<1>4. ASSUME NEW w \in Worker, Build(w) \/ Upload(w) \/ Name(w) \/ Report(w) PROVE Exclusive'
  <2>1. UNCHANGED <<status, sending, queue, job>>
    BY <1>4 DEF Build, Upload, Name, Report
  <2> QED
    BY <2>1 DEF Exclusive, OnePlace, OneUnfinished, Guarded, InFlight, Queued, Running, Unfinished
<1>5. ASSUME NEW w \in Worker, JobProcessed(w) PROVE Exclusive'
  <2>1. job[w] \in Export /\ Running(job[w]) /\ UNCHANGED <<sending, queue>>
    BY <1>5 DEF JobProcessed, Typed, TypeOK, JobAtStep, Running
  <2>2. Unfinished(job[w])
    BY <2>1 DEF Exclusive, Guarded, InFlight
  <2>3. \A f \in Export : Unfinished(f)' => Unfinished(f)
    BY <1>5, <2>1, <2>2 DEF JobProcessed, Unfinished, Typed, TypeOK
  <2>4. OneUnfinished'
    BY <2>3 DEF Exclusive, OneUnfinished
  <2>5. \A v \in Worker : job'[v] = NoExport \/ (job'[v] = job[v] /\ v # w)
    BY <1>5 DEF JobProcessed, LoseJobs, Typed, TypeOK
  <2>6. OnePlace'
    <3>1. \A e \in Export : Running(e)' => Running(e)
      BY <2>5 DEF Running
    <3>2. \A i \in DOMAIN queue : queue[i] \in Export
      BY <1>q
    <3> QED
      BY <2>1, <2>5, <3>1, <3>2 DEF Exclusive, OnePlace, Queued, Typed, TypeOK
  <2>7. ASSUME NEW f \in Export, InFlight(f)' PROVE Unfinished(f)'
    <3>1. f # job[w] /\ InFlight(f)
      BY <2>1, <2>5, <2>7 DEF InFlight, Queued, Running, Exclusive, OnePlace
    <3>2. status'[f] = status[f]
      BY <1>5, <3>1 DEF JobProcessed, Typed, TypeOK
    <3> QED
      BY <3>1, <3>2 DEF Exclusive, Guarded, Unfinished
  <2> QED
    BY <2>4, <2>6, <2>7 DEF Exclusive, Guarded
<1>6. CASE WorkerCrash
  <2>1. \A i \in DOMAIN queue : queue[i] \in Export
    BY <1>q
  <2>2. /\ UNCHANGED <<status, sending, queue>>
        /\ \A v \in Worker : job'[v] = NoExport
    BY <1>6 DEF WorkerCrash, LoseJobs
  <2>3. \A e \in Export : ~Running(e)'
    BY <2>2 DEF Running
  <2> QED
    BY <2>1, <2>2, <2>3 DEF Exclusive, OnePlace, OneUnfinished, Guarded, InFlight, Queued,
       Unfinished, Typed, TypeOK
<1>7. CASE ApiCrash
  BY <1>7 DEF ApiCrash, Exclusive, OnePlace, OneUnfinished, Guarded, InFlight, Queued, Running, Unfinished
<1>8. CASE UNCHANGED vars
  BY <1>8 DEF vars, Exclusive, OnePlace, OneUnfinished, Guarded, InFlight, Queued, Running, Unfinished
<1> QED
  BY <1>1, <1>2, <1>3, <1>4, <1>5, <1>6, <1>7, <1>8 DEF Next, WorkerStep

(***************************************************************************)
(* Whatever fails, two exports of one account are never on their way at      *)
(* once.                                                                    *)
(***************************************************************************)
THEOREM ExportsExclude == Spec => []OneExport
<1>1. Exclusive => OneExport
  BY DEF Exclusive, OneUnfinished, Guarded, OneExport
<1> QED
  BY <1>1, InitTyped, InitExclusive, TypedStep, ExclusiveStep, PTL DEF Spec

-----------------------------------------------------------------------------
(* What SUCCESS means. *)

\* Where the knowledge that the file of an export is in place is kept: at the
\* step that names it, in the result, in the state of the task and in the row.
FileInPlace ==
    /\ \A e \in Export : fileKey[e] => e \in s3
    /\ \A w \in Worker : pc[w] = "name" => job[w] \in s3
    /\ \A w \in Worker :
          pc[w] \in {"report", "copy"} /\ result[w] = "SUCCESS" => fileKey[job[w]]
    /\ \A e \in Export : state[e] = "SUCCESS" \/ status[e] = "SUCCESS" => fileKey[e]

(***************************************************************************)
(* Every step but a failed Mkdir keeps a SUCCESS backed by its file.        *)
(***************************************************************************)
LEMMA FileStep ==
    "mkdir" \notin Faults /\ Typed /\ FileInPlace /\ [Next]_vars => FileInPlace'
<1> SUFFICES ASSUME "mkdir" \notin Faults, Typed, FileInPlace, [Next]_vars PROVE FileInPlace'
  OBVIOUS
<1> USE NoExportAssumption DEF rowVars, workerVars
<1>j. \A w \in Worker : pc[w] # "idle" => job[w] \in Export
  BY DEF Typed, TypeOK, JobAtStep
<1>1. ASSUME NEW e \in Export, CreateRow(e) PROVE FileInPlace'
  BY <1>1 DEF CreateRow, FileInPlace, Typed, TypeOK
<1>2. ASSUME NEW e \in Export, SendTask(e) PROVE FileInPlace'
  BY <1>2 DEF SendTask, FileInPlace, Typed, TypeOK
<1>3. ASSUME NEW w \in Worker, Start(w) PROVE FileInPlace'
  <2>1. Head(queue) \in Export
    BY <1>3, QueuePlaces DEF Start, Typed, TypeOK
  <2> QED
    BY <1>3, <2>1 DEF Start, Goto, FileInPlace, Typed, TypeOK
<1>4. ASSUME NEW w \in Worker, Build(w) PROVE FileInPlace'
  BY <1>4 DEF Build, Goto, Return, FileInPlace, Typed, TypeOK
<1>5. ASSUME NEW w \in Worker, Upload(w) PROVE FileInPlace'
  BY <1>5 DEF Upload, Goto, Return, FileInPlace, Typed, TypeOK
<1>6. ASSUME NEW w \in Worker, Name(w) PROVE FileInPlace'
  <2>1. /\ pc[w] = "name" /\ job[w] \in Export /\ job[w] \in s3
        /\ UNCHANGED <<status, s3, state, job>>
    BY <1>6, <1>j DEF Name, FileInPlace
  <2>2. \A e \in Export : fileKey[e] => fileKey'[e]
    BY <1>6, Zenon DEF Name, Typed, TypeOK
  <2>3. \A e \in Export : fileKey'[e] => fileKey[e] \/ e = job[w]
    BY <1>6, Zenon DEF Name, Typed, TypeOK
  <2>4. result'[w] = "SUCCESS" => fileKey'[job[w]]
    BY <1>6, <2>1 DEF Name, Return, Typed, TypeOK
  <2>5. \A v \in Worker : v # w => pc'[v] = pc[v] /\ result'[v] = result[v]
    BY <1>6 DEF Name, Return, Goto, Typed, TypeOK
  <2>6. pc'[w] = "report"
    BY <1>6 DEF Name, Return, Goto, Typed, TypeOK
  <2>7. \A v \in Worker :
            pc'[v] \in {"report", "copy"} /\ result'[v] = "SUCCESS" => fileKey'[job'[v]]
    BY <2>1, <2>2, <2>4, <2>5, <1>j DEF FileInPlace
  <2> QED
    BY <2>1, <2>2, <2>3, <2>5, <2>6, <2>7 DEF FileInPlace
<1>7. ASSUME NEW w \in Worker, Report(w) PROVE FileInPlace'
  BY <1>7, <1>j DEF Report, Goto, FileInPlace, Typed, TypeOK
<1>8. ASSUME NEW w \in Worker, JobProcessed(w) PROVE FileInPlace'
  BY <1>8, <1>j DEF JobProcessed, LoseJobs, Goto, FileInPlace, Typed, TypeOK
<1>9. CASE WorkerCrash
  BY <1>9 DEF WorkerCrash, LoseJobs, FileInPlace
<1>10. CASE ApiCrash
  BY <1>10 DEF ApiCrash, FileInPlace
<1>11. CASE UNCHANGED vars
  BY <1>11 DEF vars, FileInPlace
<1> QED
  BY <1>1, <1>2, <1>3, <1>4, <1>5, <1>6, <1>7, <1>8, <1>9, <1>10, <1>11 DEF Next, WorkerStep

(***************************************************************************)
(* Unless Mkdir fails, an export that shows SUCCESS has its file in the      *)
(* bucket and names it.                                                     *)
(***************************************************************************)
THEOREM SuccessHasFile == "mkdir" \notin Faults => (Spec => []SuccessIsDownloadable)
<1> SUFFICES ASSUME "mkdir" \notin Faults PROVE Spec => []SuccessIsDownloadable
  OBVIOUS
<1>1. Init => FileInPlace
  BY DEF Init, FileInPlace
<1>2. FileInPlace => SuccessIsDownloadable
  BY DEF FileInPlace, SuccessIsDownloadable
<1>3. Typed /\ FileInPlace /\ [Next]_vars => FileInPlace'
  BY FileStep
<1> QED
  BY <1>1, <1>2, <1>3, InitTyped, TypedStep, PTL DEF Spec

-----------------------------------------------------------------------------
(* What an unfinished row means. *)

\* No task, no state of a task and no update of a row is lost.
NoLoss == Faults \subseteq {"mkdir", "job"}

\* Once a task is over, its state says so until the handler has copied it.
Reported == \A w \in Worker : pc[w] = "copy" => state[job[w]] \in Done

Busy == BlockedOnlyWhileExporting /\ Reported

(***************************************************************************)
(* Every step keeps an unfinished row in the hands of somebody.             *)
(***************************************************************************)
LEMMA BusyStep == NoLoss /\ Typed /\ Exclusive /\ Busy /\ [Next]_vars => Busy'
<1> SUFFICES ASSUME NoLoss, Typed, Exclusive, Busy, [Next]_vars PROVE Busy'
  OBVIOUS
<1> USE NoExportAssumption DEF rowVars, workerVars
<1>q. queue \in Seq(Export)
  BY DEF Typed, TypeOK
<1>j. \A w \in Worker : pc[w] # "idle" => job[w] \in Export /\ Running(job[w])
  BY DEF Typed, TypeOK, JobAtStep, Running
<1>1. ASSUME NEW e \in Export, CreateRow(e) PROVE Busy'
  BY <1>1 DEF CreateRow, Busy, BlockedOnlyWhileExporting, Reported, InFlight, Queued, Running,
     Unfinished, Typed, TypeOK
<1>2. ASSUME NEW e \in Export, SendTask(e) PROVE Busy'
  <2>1. /\ queue' = Append(queue, e) /\ state' = [state EXCEPT ![e] = "PENDING"]
        /\ sending' = sending \ {e} /\ UNCHANGED <<status, job, pc>>
    BY <1>2 DEF SendTask, NoLoss
  <2>2. /\ \A i \in DOMAIN queue : i \in DOMAIN queue' /\ queue'[i] = queue[i]
        /\ \E i \in DOMAIN queue' : queue'[i] = e
    <3>1. /\ Len(queue) + 1 \in DOMAIN queue' /\ queue'[Len(queue) + 1] = e
          /\ \A i \in DOMAIN queue : i \in DOMAIN queue' /\ queue'[i] = queue[i]
      BY <1>q, <2>1, QueuePlaces
    <3> QED
      BY <3>1
  <2>3. BlockedOnlyWhileExporting'
    BY <2>1, <2>2 DEF Busy, BlockedOnlyWhileExporting, InFlight, Queued, Running, Unfinished
  <2>4. \A w \in Worker : job[w] # e
    BY <1>2 DEF SendTask, Exclusive, OnePlace, Running
  <2>5. Reported'
    BY <2>1, <2>4, <1>j DEF Busy, Reported, Typed, TypeOK
  <2> QED
    BY <2>3, <2>5 DEF Busy
<1>3. ASSUME NEW w \in Worker, Start(w) PROVE Busy'
  <2> DEFINE e == Head(queue)
  <2>1. /\ queue # <<>> /\ queue' = Tail(queue) /\ job[w] = NoExport /\ pc[w] = "idle"
        /\ job' = [job EXCEPT ![w] = e] /\ pc' = [pc EXCEPT ![w] = "build"]
        /\ state' = [state EXCEPT ![e] = "STARTED"] /\ UNCHANGED <<status, sending>>
    BY <1>3 DEF Start, Goto, NoLoss, Typed, JobAtStep
  <2>2. /\ e \in Export /\ 1 \in DOMAIN queue /\ queue[1] = e
        /\ \A i \in DOMAIN queue : i = 1 \/ (i - 1 \in DOMAIN queue' /\ queue'[i - 1] = queue[i])
    BY <1>q, <2>1, QueuePlaces
  <2> HIDE DEF e
  <2>3. \A f \in Export : Queued(f) => f = e \/ Queued(f)'
    BY <2>2 DEF Queued
  <2>4. /\ job'[w] = e /\ pc'[w] = "build"
        /\ \A v \in Worker : v # w => job'[v] = job[v] /\ pc'[v] = pc[v]
    BY <2>1 DEF Typed, TypeOK
  <2>5. \A f \in Export : Running(f) \/ f = e => Running(f)'
    BY <2>1, <2>4 DEF Running
  <2>6. BlockedOnlyWhileExporting'
    BY <2>1, <2>3, <2>5 DEF Busy, BlockedOnlyWhileExporting, InFlight, Unfinished
  <2>7. \A v \in Worker : job[v] # e
    BY <2>2 DEF Exclusive, OnePlace
  <2>8. Reported'
    BY <2>1, <2>4, <2>7, <1>j DEF Busy, Reported, Typed, TypeOK
  <2> QED
    BY <2>6, <2>8 DEF Busy
<1>4. ASSUME NEW w \in Worker, Build(w) \/ Upload(w) \/ Name(w) PROVE Busy'
  <2>1. UNCHANGED <<status, sending, queue, state, job>>
    BY <1>4 DEF Build, Upload, Name
  <2>2. \A v \in Worker : pc'[v] = "copy" => pc[v] = "copy"
    BY <1>4 DEF Build, Upload, Name, Return, Goto, Typed, TypeOK
  <2> QED
    BY <2>1, <2>2 DEF Busy, BlockedOnlyWhileExporting, Reported, InFlight, Queued, Running, Unfinished
<1>5. ASSUME NEW w \in Worker, Report(w) PROVE Busy'
  <2>1. /\ UNCHANGED <<status, sending, queue, job>>
        /\ state' = [state EXCEPT ![job[w]] = result[w]] /\ result[w] \in Done
        /\ pc' = [pc EXCEPT ![w] = "copy"]
    BY <1>5 DEF Report, Goto, NoLoss, Typed, TypeOK
  <2>2. Reported'
    BY <2>1, <1>j, <1>5 DEF Report, Busy, Reported, Typed, TypeOK
  <2> QED
    BY <2>1, <2>2 DEF Busy, BlockedOnlyWhileExporting, InFlight, Queued, Running, Unfinished
<1>6. ASSUME NEW w \in Worker, JobProcessed(w) PROVE Busy'
  <2> DEFINE e == job[w]
  <2>1. /\ UNCHANGED <<sending, queue, state>> /\ e \in Export /\ state[e] \in Done
        /\ status' = [status EXCEPT ![e] = state[e]]
        /\ job' = [job EXCEPT ![w] = NoExport] /\ pc' = [pc EXCEPT ![w] = "idle"]
    BY <1>6, <1>j DEF JobProcessed, Goto, NoLoss, Busy, Reported
  <2> HIDE DEF e
  <2>2. \A f \in Export : f # e => status'[f] = status[f]
    BY <2>1 DEF Typed, TypeOK
  <2>3. \A f \in Export : f = e => status'[f] \in Done
    BY <2>1 DEF Typed, TypeOK
  <2>4. \A f \in Export : f # e /\ Running(f) => Running(f)'
    BY <2>1 DEF Running, Typed, TypeOK, e
  <2>5. BlockedOnlyWhileExporting'
    BY <2>1, <2>2, <2>3, <2>4 DEF Busy, BlockedOnlyWhileExporting, InFlight, Queued, Unfinished
  <2>6. Reported'
    BY <2>1 DEF Busy, Reported, Typed, TypeOK
  <2> QED
    BY <2>5, <2>6 DEF Busy
<1>7. CASE WorkerCrash
  BY <1>7 DEF WorkerCrash, NoLoss
<1>8. CASE ApiCrash
  BY <1>8 DEF ApiCrash, NoLoss
<1>9. CASE UNCHANGED vars
  BY <1>9 DEF vars, Busy, BlockedOnlyWhileExporting, Reported, InFlight, Queued, Running, Unfinished
<1> QED
  BY <1>1, <1>2, <1>3, <1>4, <1>5, <1>6, <1>7, <1>8, <1>9 DEF Next, WorkerStep

(***************************************************************************)
(* Unless a task, its state or an update of the row is lost, an account is   *)
(* refused an export only while one of it is on the way.                    *)
(***************************************************************************)
THEOREM BlockedMeansBusy == NoLoss => (Spec => []BlockedOnlyWhileExporting)
<1> SUFFICES ASSUME NoLoss PROVE Spec => []BlockedOnlyWhileExporting
  OBVIOUS
<1>1. Init => Busy
  BY DEF Init, Busy, BlockedOnlyWhileExporting, Reported, Unfinished
<1>2. Typed /\ Exclusive /\ Busy /\ [Next]_vars => Busy'
  BY BusyStep
<1>3. Busy => BlockedOnlyWhileExporting
  BY DEF Busy
<1> QED
  BY <1>1, <1>2, <1>3, InitTyped, InitExclusive, TypedStep, ExclusiveStep, PTL DEF Spec
-----------------------------------------------------------------------------
(* The lifecycle of an export. *)

\* What is on its way is PENDING, and the worker that has it knows how far the task is.
Flight ==
    /\ \A e \in Export : InFlight(e) => status[e] = "PENDING"
    /\ \A w \in Worker : pc[w] \notin {"idle", "copy"} => state[job[w]] = "STARTED"
    /\ \A w \in Worker : pc[w] = "copy" =>
          \/ state[job[w]] \in Done
          \/ state[job[w]] = "STARTED" /\ "backend" \in Faults

\* A named file is in the bucket, and so is the one that is about to be named.
Stored ==
    /\ \A e \in Export : fileKey[e] => e \in s3
    /\ \A w \in Worker : pc[w] = "name" => job[w] \in s3

LEMMA FlightInit == Init => Flight /\ Stored
BY NoExportAssumption DEF Init, Flight, Stored, InFlight, Queued, Running

(***************************************************************************)
(* Every step keeps a named file in the bucket, whatever fails.             *)
(***************************************************************************)
LEMMA StoredStep == Typed /\ Stored /\ [Next]_vars => Stored'
<1> SUFFICES ASSUME Typed, Stored, [Next]_vars PROVE Stored'
  OBVIOUS
<1> USE DEF rowVars, workerVars
<1>j. \A w \in Worker : pc[w] # "idle" => job[w] \in Export
  BY DEF Typed, TypeOK, JobAtStep
<1>1. ASSUME NEW e \in Export, CreateRow(e) \/ SendTask(e) PROVE Stored'
  BY <1>1 DEF CreateRow, SendTask, Stored
<1>2. ASSUME NEW w \in Worker, Start(w) \/ Build(w) \/ Upload(w) \/ Report(w) PROVE Stored'
  BY <1>2 DEF Start, Build, Upload, Report, Return, Goto, Stored, Typed, TypeOK
<1>3. ASSUME NEW w \in Worker, Name(w) PROVE Stored'
  <2>1. job[w] \in s3 /\ UNCHANGED <<s3, job>>
    BY <1>3 DEF Name, Stored
  <2>2. \A e \in Export : fileKey'[e] => fileKey[e] \/ e = job[w]
    BY <1>3, Zenon DEF Name, Typed, TypeOK
  <2>3. \A v \in Worker : pc'[v] = "name" => pc[v] = "name"
    BY <1>3 DEF Name, Return, Goto, Typed, TypeOK
  <2> QED
    BY <2>1, <2>2, <2>3 DEF Stored
<1>4. ASSUME NEW w \in Worker, JobProcessed(w) PROVE Stored'
  BY <1>4 DEF JobProcessed, LoseJobs, Goto, Stored, Typed, TypeOK
<1>5. CASE WorkerCrash \/ ApiCrash \/ UNCHANGED vars
  BY <1>5 DEF WorkerCrash, ApiCrash, LoseJobs, vars, Stored
<1> QED
  BY <1>1, <1>2, <1>3, <1>4, <1>5 DEF Next, WorkerStep

(***************************************************************************)
(* Every step keeps the row of an export PENDING until its task is over.    *)
(***************************************************************************)
LEMMA FlightStep == Typed /\ Exclusive /\ Flight /\ [Next]_vars => Flight'
<1> SUFFICES ASSUME Typed, Exclusive, Flight, [Next]_vars PROVE Flight'
  OBVIOUS
<1> USE NoExportAssumption DEF rowVars, workerVars
<1>q. queue \in Seq(Export)
  BY DEF Typed, TypeOK
<1>j. \A w \in Worker : pc[w] # "idle" => job[w] \in Export /\ Running(job[w])
  BY DEF Typed, TypeOK, JobAtStep, Running
<1>o. \A v, w \in Worker : v # w /\ pc[v] # "idle" => job[v] # job[w]
  BY <1>j DEF Exclusive, OnePlace
<1>1. ASSUME NEW e \in Export, CreateRow(e) PROVE Flight'
  <2>1. UNCHANGED <<queue, state, job, pc>> /\ sending' = sending \cup {e}
    BY <1>1 DEF CreateRow
  <2>2. status'[e] = "PENDING" /\ \A f \in Export : f # e => status'[f] = status[f]
    BY <1>1 DEF CreateRow, Typed, TypeOK
  <2>3. \A f \in Export : InFlight(f)' => InFlight(f) \/ f = e
    BY <2>1 DEF InFlight, Queued, Running
  <2> QED
    BY <2>1, <2>2, <2>3 DEF Flight
<1>2. ASSUME NEW e \in Export, SendTask(e) PROVE Flight'
  <2>1. ~Running(e) /\ UNCHANGED <<status, job, pc>> /\ sending' = sending \ {e} /\ e \in sending
    BY <1>2 DEF SendTask, Exclusive, OnePlace
  <2>2. \A f \in Export : f # e => state'[f] = state[f]
    BY <1>2 DEF SendTask, Typed, TypeOK
  <2>3. \A f \in Export : Queued(f)' => Queued(f) \/ f = e
    <3>1. CASE queue' = queue
      BY <3>1 DEF Queued
    <3>2. CASE queue' = Append(queue, e)
      BY <1>q, <3>2, QueuePlaces DEF Queued
    <3> QED
      BY <1>2, <3>1, <3>2 DEF SendTask
  <2>4. \A f \in Export : InFlight(f)' => InFlight(f)
    BY <2>1, <2>3 DEF InFlight, Running
  <2>5. \A w \in Worker : pc[w] # "idle" => job[w] # e
    BY <2>1, <1>j
  <2> QED
    BY <2>1, <2>2, <2>4, <2>5, <1>j DEF Flight
<1>3. ASSUME NEW w \in Worker, Start(w) PROVE Flight'
  <2> DEFINE e == Head(queue)
  <2>1. queue # <<>> /\ queue' = Tail(queue) /\ pc[w] = "idle" /\ UNCHANGED <<status, sending>>
    BY <1>3 DEF Start
  <2>2. /\ e \in Export /\ 1 \in DOMAIN queue /\ queue[1] = e
        /\ \A i \in DOMAIN queue' : i + 1 \in DOMAIN queue /\ queue'[i] = queue[i + 1]
    BY <1>q, <2>1, QueuePlaces
  <2>3. \/ /\ job' = [job EXCEPT ![w] = e] /\ pc' = [pc EXCEPT ![w] = "build"]
           /\ state' = [state EXCEPT ![e] = "STARTED"]
        \/ UNCHANGED <<job, pc, state>>
    BY <1>3 DEF Start, Goto
  <2> HIDE DEF e
  <2>4. \A f \in Export : Queued(f)' => Queued(f)
    BY <2>2 DEF Queued
  <2>5. Queued(e)
    BY <2>2 DEF Queued
  <2>6. \A f \in Export : Running(f)' => Running(f) \/ f = e
    BY <2>3 DEF Running, Typed, TypeOK
  <2>7. \A f \in Export : InFlight(f)' => InFlight(f)
    BY <2>1, <2>4, <2>5, <2>6 DEF InFlight
  <2>8. \A v \in Worker : job[v] # e
    BY <2>2 DEF Exclusive, OnePlace
  <2>9. \A v \in Worker : v # w /\ pc[v] # "idle" =>
           pc'[v] = pc[v] /\ job'[v] = job[v] /\ state'[job[v]] = state[job[v]]
    BY <2>3, <2>8, <1>j DEF Typed, TypeOK
  <2>10. pc'[w] = "idle" \/ (pc'[w] = "build" /\ state'[job'[w]] = "STARTED")
    BY <2>1, <2>2, <2>3 DEF Typed, TypeOK
  <2>11. \A v \in Worker : v # w /\ pc[v] = "idle" => pc'[v] = "idle"
    BY <2>3 DEF Typed, TypeOK
  <2> QED
    BY <2>1, <2>7, <2>9, <2>10, <2>11 DEF Flight
<1>4. ASSUME NEW w \in Worker, Build(w) \/ Upload(w) \/ Name(w) PROVE Flight'
  <2>1. UNCHANGED <<status, sending, queue, state, job>>
    BY <1>4 DEF Build, Upload, Name
  <2>2. pc[w] \notin {"idle", "copy"} /\ pc'[w] # "copy"
    BY <1>4 DEF Build, Upload, Name, Return, Goto, Typed, TypeOK
  <2>3. \A v \in Worker : v # w => pc'[v] = pc[v]
    BY <1>4 DEF Build, Upload, Name, Return, Goto, Typed, TypeOK
  <2> QED
    BY <2>1, <2>2, <2>3 DEF Flight, InFlight, Queued, Running
<1>5. ASSUME NEW w \in Worker, Report(w) PROVE Flight'
  <2>1. /\ UNCHANGED <<status, sending, queue, job>> /\ pc[w] = "report"
        /\ pc' = [pc EXCEPT ![w] = "copy"] /\ result[w] \in Done
        /\ state' = [state EXCEPT ![job[w]] = result[w]] \/ ("backend" \in Faults /\ UNCHANGED state)
    BY <1>5 DEF Report, Goto, Typed, TypeOK
  <2>2. \A v \in Worker : v # w => pc'[v] = pc[v]
    BY <2>1 DEF Typed, TypeOK
  <2>3. \A v \in Worker : v # w /\ pc[v] # "idle" => state'[job[v]] = state[job[v]]
    BY <2>1, <1>j, <1>o DEF Typed, TypeOK
  <2>4. pc'[w] = "copy" /\ \/ state'[job[w]] \in Done
                           \/ state'[job[w]] = "STARTED" /\ "backend" \in Faults
    BY <2>1, <1>j DEF Flight, Typed, TypeOK
  <2> QED
    BY <2>1, <2>2, <2>3, <2>4 DEF Flight, InFlight, Queued, Running
<1>6. ASSUME NEW w \in Worker, JobProcessed(w) PROVE Flight'
  <2>1. job[w] \in Export /\ Running(job[w]) /\ UNCHANGED <<sending, queue, state>>
    BY <1>6, <1>j DEF JobProcessed
  <2>2. \A v \in Worker : \/ job'[v] = NoExport /\ pc'[v] = "idle"
                          \/ job'[v] = job[v] /\ pc'[v] = pc[v] /\ v # w
    BY <1>6 DEF JobProcessed, LoseJobs, Goto, Typed, TypeOK
  <2>3. ASSUME NEW f \in Export, InFlight(f)' PROVE status'[f] = "PENDING"
    <3>1. f # job[w] /\ InFlight(f)
      BY <2>1, <2>2, <2>3 DEF InFlight, Queued, Running, Exclusive, OnePlace
    <3>2. status'[f] = status[f]
      BY <1>6, <3>1 DEF JobProcessed, Typed, TypeOK
    <3> QED
      BY <3>1, <3>2 DEF Flight
  <2> QED
    BY <2>1, <2>2, <2>3 DEF Flight
<1>7. CASE WorkerCrash
  BY <1>7 DEF WorkerCrash, LoseJobs, Flight, InFlight, Queued, Running
<1>8. CASE ApiCrash
  BY <1>8 DEF ApiCrash, Flight, InFlight, Queued, Running
<1>9. CASE UNCHANGED vars
  BY <1>9 DEF vars, Flight, InFlight, Queued, Running
<1> QED
  BY <1>1, <1>2, <1>3, <1>4, <1>5, <1>6, <1>7, <1>8, <1>9 DEF Next, WorkerStep

File == {e \in s3 : fileKey[e]}

\* What the lifecycle rests on.
LifecycleInv == Typed /\ Exclusive /\ Flight /\ Stored /\ ("mkdir" \notin Faults => FileInPlace)

(***************************************************************************)
(* Every step of the export is a step of its lifecycle or leaves the status  *)
(* and the files an account sees.                                           *)
(***************************************************************************)
LEMMA ExportLifecycleStep == LifecycleInv /\ [Next]_vars => [Lifecycle!Next]_(Lifecycle!vars)
<1> SUFFICES ASSUME LifecycleInv, [Next]_vars
             PROVE  Lifecycle!Next \/ (UNCHANGED status /\ File' = File)
  BY DEF Lifecycle!vars, File
<1> USE DEF rowVars, workerVars
<1>t. Typed /\ Exclusive /\ Flight /\ Stored
  BY DEF LifecycleInv
<1>j. \A w \in Worker : pc[w] # "idle" => job[w] \in Export /\ InFlight(job[w])
  BY <1>t DEF Typed, TypeOK, JobAtStep, InFlight, Running
<1>p. \A w \in Worker : pc[w] # "idle" => status[job[w]] = "PENDING"
  BY <1>j, <1>t DEF Flight
<1>m. ASSUME NEW e \in Export,
             Lifecycle!Ask(e) \/ Lifecycle!Publish(e) \/ Lifecycle!Finish(e) \/ Lifecycle!Strand(e)
      PROVE  Lifecycle!Next
  BY <1>m DEF Lifecycle!Next
<1>1. ASSUME NEW e \in Export, CreateRow(e) PROVE Lifecycle!Next
  <2>1. Lifecycle!Ask(e)
    BY <1>1 DEF CreateRow, Lifecycle!Ask, Unfinished, Done, Lifecycle!Unfinished, Lifecycle!Done
  <2> QED
    BY <2>1, <1>m
<1>2. ASSUME NEW e \in Export, SendTask(e) PROVE UNCHANGED status /\ File' = File
  BY <1>2 DEF SendTask, File
<1>3. ASSUME NEW w \in Worker, Start(w) \/ Build(w) \/ Report(w)
      PROVE  UNCHANGED status /\ File' = File
  BY <1>3 DEF Start, Build, Report, File
<1>4. ASSUME NEW w \in Worker, Upload(w)
      PROVE  UNCHANGED status /\ File' = File
  <2>1. UNCHANGED <<status, fileKey>> /\ (s3' = s3 \/ s3' = s3 \cup {job[w]}) /\ pc[w] = "upload"
    BY <1>4 DEF Upload
  <2>2. job[w] \in s3 \/ ~fileKey[job[w]]
    BY <2>1, <1>j, <1>t DEF Stored
  <2> QED
    BY <2>1, <2>2 DEF File
<1>5. ASSUME NEW w \in Worker, Name(w) PROVE Lifecycle!Next \/ (UNCHANGED status /\ File' = File)
  <2>1. job[w] \in Export /\ job[w] \in s3 /\ status[job[w]] = "PENDING" /\ UNCHANGED <<status, s3>>
    BY <1>5, <1>j, <1>p, <1>t DEF Name, Stored
  <2>2. CASE fileKey' = fileKey
    BY <2>1, <2>2 DEF File
  <2>3. CASE fileKey' = [fileKey EXCEPT ![job[w]] = TRUE]
    <3>1. /\ \A e \in s3 : e \in Export
          /\ \A e \in Export : e # job[w] => fileKey'[e] = fileKey[e]
      BY <2>3, <1>t DEF Typed, TypeOK
    <3>2. fileKey'[job[w]]
      BY <2>1, <2>3, <1>t, Zenon DEF Typed, TypeOK
    <3>3. File' = File \cup {job[w]}
      BY <2>1, <3>1, <3>2 DEF File
    <3>4. CASE job[w] \in File
      BY <2>1, <3>3, <3>4
    <3>5. CASE job[w] \notin File
      BY <2>1, <3>3, <3>5, <1>m DEF Lifecycle!Publish, File
    <3> QED
      BY <3>4, <3>5
  <2> QED
    BY <1>5, <2>2, <2>3 DEF Name
<1>6. ASSUME NEW w \in Worker, JobProcessed(w)
      PROVE  Lifecycle!Next \/ (UNCHANGED status /\ File' = File)
  <2> DEFINE e == job[w]
  <2>1. e \in Export /\ status[e] = "PENDING" /\ UNCHANGED <<fileKey, s3>> /\ pc[w] = "copy"
    BY <1>6, <1>j, <1>p DEF JobProcessed
  <2>2. File' = File
    BY <2>1 DEF File
  <2>3. CASE UNCHANGED status
    BY <2>2, <2>3
  <2>4. CASE status' = [status EXCEPT ![e] = state[e]]
    <3>1. CASE state[e] \in Done
      <4>1. state[e] = "SUCCESS" => e \in File \/ "mkdir" \in Faults
        BY <2>1, <1>t DEF LifecycleInv, FileInPlace, Stored, File
      <4>2. Lifecycle!Finish(e)
        BY <2>1, <2>2, <2>4, <3>1, <4>1 DEF Lifecycle!Finish, Lifecycle!Done, Done, File
      <4> QED
        BY <2>1, <4>2, <1>m
    <3>2. CASE state[e] = "STARTED" /\ "backend" \in Faults
      BY <2>1, <2>2, <2>4, <3>2, <1>m DEF Lifecycle!Strand, File
    <3> QED
      BY <2>1, <3>1, <3>2, <1>t DEF Flight
  <2> QED
    BY <1>6, <2>3, <2>4 DEF JobProcessed
<1>7. CASE WorkerCrash \/ ApiCrash \/ UNCHANGED vars
  BY <1>7 DEF WorkerCrash, ApiCrash, vars, File
<1> QED
  BY <1>1, <1>2, <1>3, <1>4, <1>5, <1>6, <1>7 DEF Next, WorkerStep

(***************************************************************************)
(* The export implements the safety part of its lifecycle, whatever fails:   *)
(* an account asks while none of its exports is at work, SUCCESS means that  *)
(* there is a file unless a directory could not be made, and what is over    *)
(* stays as it is.                                                          *)
(***************************************************************************)
THEOREM ExportLifecycleKept == Spec => Lifecycle!Spec
<1>1. Init => LifecycleInv
  <2>1. Init => FileInPlace
    BY DEF Init, FileInPlace
  <2> QED
    BY <2>1, InitTyped, InitExclusive, FlightInit DEF LifecycleInv
<1>2. LifecycleInv /\ [Next]_vars => LifecycleInv'
  <2>1. LifecycleInv /\ [Next]_vars => Typed' /\ Exclusive' /\ Flight' /\ Stored'
    BY TypedStep, ExclusiveStep, FlightStep, StoredStep DEF LifecycleInv
  <2>2. LifecycleInv /\ [Next]_vars => ("mkdir" \notin Faults => FileInPlace')
    BY FileStep DEF LifecycleInv
  <2> QED
    BY <2>1, <2>2 DEF LifecycleInv
<1>3. Init => Lifecycle!Init
  BY DEF Init, Lifecycle!Init
<1>4. LifecycleInv /\ [Next]_vars => [Lifecycle!Next]_(Lifecycle!vars)
  BY ExportLifecycleStep
<1> QED
  BY <1>1, <1>2, <1>3, <1>4, PTL DEF Spec, Lifecycle!Spec
=============================================================================
