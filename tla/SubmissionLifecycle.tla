------------------------ MODULE SubmissionLifecycle ------------------------
(***************************************************************************)
(* What a client that polls GET /submissions/:id may see of a submission:  *)
(* the statuses of sandbox-engine/model/submission.go, in this order.  The *)
(* store is in memory, so that all of them may be forgotten at once.       *)
(***************************************************************************)
CONSTANTS Submissions, None

VARIABLE status     \* status[s]: the status of s, or None (404)

Move(s, from, to) ==
    /\ status[s] = from
    /\ status' = [status EXCEPT ![s] = to]

Receive(s)  == Move(s, None, "RECEIVED")
Compile(s)  == Move(s, "RECEIVED", "COMPILING")
Start(s)    == Move(s, "COMPILING", "RUNNING")
Fail(s)     == Move(s, "COMPILING", "FAILED")
Complete(s) == Move(s, "RUNNING", "COMPLETED")
Forget      == status' = [s \in Submissions |-> None]

Init == status = [s \in Submissions |-> None]

Next ==
    \/ \E s \in Submissions :
          Receive(s) \/ Compile(s) \/ Start(s) \/ Fail(s) \/ Complete(s)
    \/ Forget

Spec == Init /\ [][Next]_status
=============================================================================
