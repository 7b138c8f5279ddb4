-------------------------- MODULE ArchiveLifecycle --------------------------
(***************************************************************************)
(* What a client sees of its archives through GET /api/archives: a status   *)
(* and, for an invalid archive, an error.  The statuses are those of         *)
(* store/store.go; "stored" is declared there and never written.             *)
(***************************************************************************)
CONSTANT Archive

VARIABLES
    status,     \* processing_status, "none" before the archive exists
    procError,  \* processing_error is set
    again       \* archives whose work was started again after they were submitted

vars == <<status, procError, again>>

Submitted == {"submitted", "processing", "processed", "invalid"}

Init ==
    /\ status = [a \in Archive |-> "none"]
    /\ procError = [a \in Archive |-> FALSE]
    /\ again = {}

Move(a, old, new) ==
    /\ status[a] = old
    /\ status' = [status EXCEPT ![a] = new]
    /\ UNCHANGED <<procError, again>>

Create(a)   == Move(a, "none", "created")
Submit(a)   == Move(a, "created", "submitted")
Process(a)  == Move(a, "submitted", "processing")
Complete(a) == Move(a, "processing", "processed")

\* An archive that exists and is not finished may turn out invalid.
Reject(a) ==
    /\ status[a] \in {"created", "submitted", "processing"}
    /\ status' = [status EXCEPT ![a] = "invalid"]
    /\ procError' = [procError EXCEPT ![a] = TRUE]
    /\ UNCHANGED again

\* Its object is announced once more, or its analysis is forced.
Restart(a) ==
    /\ status[a] # "none"
    /\ status' \in {status, [status EXCEPT ![a] = "submitted"]}
    /\ again' = again \cup {a}
    /\ UNCHANGED procError

\* Then several chains of jobs write its status, in any order; what stays is
\* that it was submitted, and its error.
Rework(a) ==
    /\ a \in again /\ status[a] # "none"
    /\ \E new \in Submitted :
           /\ status' = [status EXCEPT ![a] = new]
           /\ procError' = [procError EXCEPT ![a] = @ \/ new = "invalid"]
    /\ UNCHANGED again

\* What the system itself must go on with once the archive is submitted.
Advance(a) ==
    /\ status[a] \in {"submitted", "processing"}
    /\ Process(a) \/ Complete(a) \/ Reject(a)

Next ==
    \E a \in Archive :
        \/ Create(a) \/ Submit(a) \/ Process(a) \/ Complete(a) \/ Reject(a)
        \/ Restart(a) \/ Rework(a)

Spec == Init /\ [][Next]_vars

FairSpec == Spec /\ \A a \in Archive : WF_vars(Advance(a))

=============================================================================
