--------------------------- MODULE ExportLifecycle ---------------------------
(***************************************************************************)
(* What an account may rely on when it asks for an export of its data: the   *)
(* status that GET /api/accounts/me/export shows and the file that its      *)
(* download is redirected to.                                               *)
(***************************************************************************)
CONSTANTS
    Export,  \* exports that may be asked for
    Owner,   \* [Export -> the account that asks]
    Hollow,  \* an export without a file may pass for a success
    Lossy    \* an export may be over without the service knowing its outcome

VARIABLES
    status,  \* status of the row, "none" before there is one
    file     \* the exports that can be downloaded

vars == <<status, file>>

Init == status = [e \in Export |-> "none"] /\ file = {}

Done == {"SUCCESS", "FAILURE"}
Unfinished(e) == status[e] \notin Done \cup {"none"}

\* An account asks for an export, unless one of it is not over.
Ask(e) ==
    /\ status[e] = "none"
    /\ \A f \in Export : Owner[f] = Owner[e] => ~Unfinished(f)
    /\ status' = [status EXCEPT ![e] = "PENDING"]
    /\ UNCHANGED file

\* The file can be downloaded before the row says so.
Publish(e) ==
    /\ status[e] = "PENDING" /\ e \notin file
    /\ file' = file \cup {e}
    /\ UNCHANGED status

\* A success has a file; a failure may have one.
Finish(e) ==
    /\ status[e] = "PENDING"
    /\ \E outcome \in Done :
          /\ outcome = "SUCCESS" => e \in file \/ Hollow
          /\ status' = [status EXCEPT ![e] = outcome]
    /\ UNCHANGED file

\* The row stays at STARTED and blocks the account for good.
Strand(e) ==
    /\ Lossy
    /\ status[e] = "PENDING"
    /\ status' = [status EXCEPT ![e] = "STARTED"]
    /\ UNCHANGED file

Next == \E e \in Export : Ask(e) \/ Publish(e) \/ Finish(e) \/ Strand(e)

Spec == Init /\ [][Next]_vars

FairSpec == Spec /\ \A e \in Export : WF_vars(Finish(e))

=============================================================================
