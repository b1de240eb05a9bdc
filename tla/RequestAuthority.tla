--------------------------- MODULE RequestAuthority ---------------------------
(***************************************************************************)
(* What the coordinator promises a requester, whatever it does with        *)
(* flights, slots and queues: a request is pending from its admission      *)
(* until its result is published or the authority to publish it is         *)
(* withdrawn, and authority that was withdrawn never comes back.           *)
(*   "A successful computation is not publication authority."              *)
(* (src/task_coordinator.rs, module documentation)                         *)
(***************************************************************************)
EXTENDS Naturals

CONSTANT Requests  \* request ids

VARIABLE status

States == {"unknown", "pending", "withdrawn", "published"}

Init == status = [i \in Requests |-> "unknown"]

\* What may become of one request.
Moves == {<<"unknown", "pending">>,     \* admitted
          <<"pending", "withdrawn">>,   \* cancelled, stale, overdue or refused
          <<"pending", "published">>}

\* One step may withdraw many requests (a session advances, a deadline passes)
\* but admits at most one and publishes at most one.
Next == /\ status' \in [Requests -> States]
        /\ \A i \in Requests : \/ status'[i] = status[i]
                               \/ <<status[i], status'[i]>> \in Moves
        /\ \A i, j \in Requests :
             /\ status'[i] # status[i] /\ status'[i] # "withdrawn"
             /\ status'[j] # status[j] /\ status'[j] # "withdrawn"
             => i = j

Spec == Init /\ [][Next]_status

=============================================================================
