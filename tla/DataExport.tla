------------------------------ MODULE DataExport ------------------------------
(***************************************************************************)
(* The export of an account's data: accountPrepareExport (api/account.go)   *)
(* inserts a row into fbm.archive and sends a task, prepareUserExportData     *)
(* (background/export.go) builds the file and names it in the row, and       *)
(* jobProcessedHandler (background/main.go) copies the state the task has in  *)
(* machinery's result backend into the row.  A partial unique index          *)
(* (schema/facebook/migrate) admits one row per account whose status is       *)
(* neither SUCCESS nor FAILURE.                                             *)
(***************************************************************************)
EXTENDS Naturals, Sequences, FiniteSets

CONSTANTS
    Account,  \* account numbers
    Export,   \* ids of fbm.archive rows
    Worker,   \* goroutines of the worker process
    Owner,    \* [Export -> Account]
    NoExport, \* what a free worker works on
    Faults    \* the failures that may happen

(***************************************************************************)
(* enqueue   SendTask fails                                                 *)
(* backend   the state of a task cannot be written                          *)
(* getstate  the state of a task cannot be read                             *)
(* mkdir     a directory for the export cannot be made                      *)
(* job       another call of the job fails                                  *)
(* status    the row cannot be updated once the job is over                 *)
(* crash     the API server or the worker process dies                      *)
(***************************************************************************)
AllFaults == {"enqueue", "backend", "getstate", "mkdir", "job", "status", "crash"}

ASSUME OwnerAssumption == Owner \in [Export -> Account]
ASSUME NoExportAssumption == NoExport \notin Export
ASSUME FaultAssumption == Faults \subseteq AllFaults

VARIABLES
    status,   \* archive.status, "none" while there is no row
    fileKey,  \* archive.file_key is not empty
    s3,       \* exports whose file is in the bucket
    sending,  \* exports whose handler has inserted the row and not sent the task
    state,    \* the state of the export's task in the result backend
    queue,    \* the tasks in the redis list, each the export it is about
    job,      \* the export each worker prepares
    pc,       \* the step its job is at
    result    \* the state the worker will report for its task

rowVars    == <<status, fileKey>>
workerVars == <<job, pc, result>>
vars == <<rowVars, s3, sending, state, queue, workerVars>>

States == {"PENDING", "STARTED", "SUCCESS", "FAILURE"}
Done == {"SUCCESS", "FAILURE"}
Steps == {"idle", "build", "upload", "name", "report", "copy"}

TypeOK ==
    /\ status \in [Export -> States \cup {"none"}]
    /\ fileKey \in [Export -> BOOLEAN]
    /\ s3 \subseteq Export
    /\ sending \subseteq Export
    /\ state \in [Export -> States \cup {"none"}]
    /\ queue \in Seq(Export)
    /\ job \in [Worker -> Export \cup {NoExport}]
    /\ pc \in [Worker -> Steps]
    /\ result \in [Worker -> Done]

Init ==
    /\ status = [e \in Export |-> "none"]
    /\ fileKey = [e \in Export |-> FALSE]
    /\ s3 = {}
    /\ sending = {}
    /\ state = [e \in Export |-> "none"]
    /\ queue = <<>>
    /\ job = [w \in Worker |-> NoExport]
    /\ pc = [w \in Worker |-> "idle"]
    /\ result = [w \in Worker |-> "FAILURE"]

-----------------------------------------------------------------------------
(* The handler. *)

\* A row of the partial unique index archive_account_unique_if_not_done.
Unfinished(e) == status[e] \notin Done \cup {"none"}

\* accountPrepareExport, Create; the index refuses a second unfinished row.
CreateRow(e) ==
    /\ status[e] = "none"
    /\ \A f \in Export : Owner[f] = Owner[e] => ~Unfinished(f)
    /\ status' = [status EXCEPT ![e] = "PENDING"]
    /\ sending' = sending \cup {e}
    /\ UNCHANGED <<fileKey, s3, state, queue, workerVars>>

\* accountPrepareExport, SendTask: machinery stores the state and pushes the
\* task.  If either fails the handler answers 500 and the row stays.
SendTask(e) ==
    /\ e \in sending
    /\ sending' = sending \ {e}
    /\ \/ state' = [state EXCEPT ![e] = "PENDING"] /\ queue' = Append(queue, e)
       \/ /\ "enqueue" \in Faults
          /\ state' \in {state, [state EXCEPT ![e] = "PENDING"]}
          /\ UNCHANGED queue
    /\ UNCHANGED <<rowVars, s3, workerVars>>

-----------------------------------------------------------------------------
(* The worker. *)

Goto(w, step) == pc' = [pc EXCEPT ![w] = step]

\* The job returns; its error, nil or not, decides the state of the task.
Return(w, outcome) ==
    /\ Goto(w, "report")
    /\ result' = [result EXCEPT ![w] = outcome]

\* machinery pops a task and sets its state before it calls the job; if it
\* cannot, neither the job nor the handler after it is called.
Start(w) ==
    /\ pc[w] = "idle" /\ queue # <<>>
    /\ queue' = Tail(queue)
    /\ \/ /\ job' = [job EXCEPT ![w] = Head(queue)]
          /\ Goto(w, "build")
          /\ state' = [state EXCEPT ![Head(queue)] = "STARTED"]
       \/ "backend" \in Faults /\ UNCHANGED <<job, pc, state>>
    /\ UNCHANGED <<rowVars, s3, sending, result>>

\* prepareUserExportData up to the zip file.  "err != fs.Mkdir(...)" returns
\* the outer err, which is nil: a failed Mkdir is a success of the task.
Build(w) ==
    /\ pc[w] = "build"
    /\ \/ Goto(w, "upload") /\ UNCHANGED result
       \/ "mkdir" \in Faults /\ Return(w, "SUCCESS")
       \/ "job" \in Faults /\ Return(w, "FAILURE")
    /\ UNCHANGED <<rowVars, s3, sending, state, queue, job>>

\* Mutant: the error of the upload is only logged.
Upload_Logged(w) ==
    /\ pc[w] = "upload"
    /\ \/ s3' = s3 \cup {job[w]}
       \/ "job" \in Faults /\ UNCHANGED s3
    /\ Goto(w, "name") /\ UNCHANGED result
    /\ UNCHANGED <<rowVars, sending, state, queue, job>>

\* prepareUserExportData, UploadFile.
Upload(w) ==
    /\ pc[w] = "upload"
    /\ \/ s3' = s3 \cup {job[w]} /\ Goto(w, "name") /\ UNCHANGED result
       \/ "job" \in Faults /\ Return(w, "FAILURE") /\ UNCHANGED s3
    /\ UNCHANGED <<rowVars, sending, state, queue, job>>

\* Mutant: the job that names the file also marks the row as done.
Name_MarksDone(w) ==
    /\ pc[w] = "name"
    /\ fileKey' = [fileKey EXCEPT ![job[w]] = TRUE]
    /\ status' = [status EXCEPT ![job[w]] = "SUCCESS"]
    /\ Return(w, "SUCCESS")
    /\ UNCHANGED <<s3, sending, state, queue, job>>

\* prepareUserExportData, the two Updates of the row: the first may succeed
\* and the second fail.
Name(w) ==
    /\ pc[w] = "name"
    /\ \/ fileKey' = [fileKey EXCEPT ![job[w]] = TRUE] /\ Return(w, "SUCCESS")
       \/ /\ "job" \in Faults /\ Return(w, "FAILURE")
          /\ fileKey' \in {fileKey, [fileKey EXCEPT ![job[w]] = TRUE]}
    /\ UNCHANGED <<status, s3, sending, state, queue, job>>

\* Mutant: the task is sent with a RetryCount.
Report_Retries(w) ==
    /\ pc[w] = "report"
    /\ state' = [state EXCEPT ![job[w]] = IF result[w] = "FAILURE" THEN "RETRY" ELSE "SUCCESS"]
    /\ Goto(w, "copy")
    /\ UNCHANGED <<rowVars, s3, sending, queue, job, result>>

\* machinery stores the state of the finished task.
Report(w) ==
    /\ pc[w] = "report"
    /\ \/ state' = [state EXCEPT ![job[w]] = result[w]]
       \/ "backend" \in Faults /\ UNCHANGED state
    /\ Goto(w, "copy")
    /\ UNCHANGED <<rowVars, s3, sending, queue, job, result>>

LoseJobs ==
    /\ job' = [w \in Worker |-> NoExport]
    /\ pc' = [w \in Worker |-> "idle"]
    /\ UNCHANGED result

\* Mutant: a failed export is not recorded.
JobProcessed_SuccessOnly(w) ==
    /\ pc[w] = "copy"
    /\ status' = [status EXCEPT ![job[w]] = IF state[job[w]] = "SUCCESS" THEN "SUCCESS" ELSE @]
    /\ Goto(w, "idle") /\ job' = [job EXCEPT ![w] = NoExport] /\ UNCHANGED result
    /\ UNCHANGED <<fileKey, s3, sending, state, queue>>

\* jobProcessedHandler.  If the state cannot be read, "state.State" of a nil
\* state panics in a deferred call: the process dies with all its jobs.
JobProcessed(w) ==
    /\ pc[w] = "copy"
    /\ \/ /\ \/ status' = [status EXCEPT ![job[w]] = state[job[w]]]
             \/ "status" \in Faults /\ UNCHANGED status
          /\ Goto(w, "idle") /\ job' = [job EXCEPT ![w] = NoExport] /\ UNCHANGED result
       \/ "getstate" \in Faults /\ LoseJobs /\ UNCHANGED status
    /\ UNCHANGED <<fileKey, s3, sending, state, queue>>

WorkerCrash ==
    /\ "crash" \in Faults
    /\ LoseJobs
    /\ UNCHANGED <<rowVars, s3, sending, state, queue>>

ApiCrash ==
    /\ "crash" \in Faults
    /\ sending' = {}
    /\ UNCHANGED <<rowVars, s3, state, queue, workerVars>>

-----------------------------------------------------------------------------
WorkerStep(w) ==
    Start(w) \/ Build(w) \/ Upload(w) \/ Name(w) \/ Report(w) \/ JobProcessed(w)

Next ==
    \/ \E e \in Export : CreateRow(e) \/ SendTask(e)
    \/ \E w \in Worker : WorkerStep(w)
    \/ WorkerCrash
    \/ ApiCrash

Spec == Init /\ [][Next]_vars

\* A handler that has started and a worker run on; nobody need ask for an export.
Fairness ==
    /\ \A e \in Export : WF_vars(SendTask(e))
    /\ \A w \in Worker : WF_vars(WorkerStep(w))

FairSpec == Spec /\ Fairness

-----------------------------------------------------------------------------
(* Properties. *)

Queued(e) == \E i \in DOMAIN queue : queue[i] = e
Running(e) == \E w \in Worker : job[w] = e
InFlight(e) == e \in sending \/ Queued(e) \/ Running(e)

(***************************************************************************)
(* "Multiple exporting is not allowed" (errorMultipleExportingIsNotAllowed):  *)
(* two exports of one account are never on their way at the same time, be it *)
(* in a handler, in the queue or with a worker, whatever fails.  It rests on  *)
(* jobProcessedHandler being the last thing a task does, since the index      *)
(* only guards the status it writes.                                        *)
(***************************************************************************)
OneExport ==
    \A e, f \in Export :
        Owner[e] = Owner[f] /\ InFlight(e) /\ InFlight(f) => e = f

(***************************************************************************)
(* An export that shows SUCCESS can be downloaded: the row names a file and  *)
(* the file is in the bucket (accountDownloadExport signs that key without   *)
(* looking).  It holds under every fault but a failing Mkdir.               *)
(***************************************************************************)
SuccessIsDownloadable ==
    \A e \in Export : status[e] = "SUCCESS" => fileKey[e] /\ e \in s3

(***************************************************************************)
(* An account is told that multiple exporting is not allowed only while an   *)
(* export of it is on the way, and so is never blocked for good.  It holds   *)
(* whether the export succeeds or fails, as long as no task, no state of a    *)
(* task and no update of the row is lost.                                    *)
(***************************************************************************)
BlockedOnlyWhileExporting == \A e \in Export : Unfinished(e) => InFlight(e)

(***************************************************************************)
(* The export implements the lifecycle an account may rely on: it asks while *)
(* none of its exports is at work, a row that shows SUCCESS has its file     *)
(* unless a directory could not be made, and what is over stays as it is.    *)
(* As long as no task, no state of a task and no update of the row is lost,   *)
(* every export ends.                                                       *)
(***************************************************************************)
Lifecycle == INSTANCE ExportLifecycle
                 WITH Export <- Export, Owner <- Owner, status <- status,
                      file <- {e \in s3 : fileKey[e]},
                      Hollow <- "mkdir" \in Faults, Lossy <- "backend" \in Faults
ImplementsExportLifecycle == Lifecycle!FairSpec

=============================================================================
