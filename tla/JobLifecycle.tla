---------------------------- MODULE JobLifecycle ----------------------------
(***************************************************************************)
(* What run-weaver promises about one issue (docs/github-issue-flow.md,    *)
(* "state labels", "completion", "blocked"): an issue is ready, running,   *)
(* done or blocked; one pull request is opened, while it is running; a     *)
(* done issue has it; an issue that has it is not blocked; done is final;  *)
(* a blocked issue may run again.                                          *)
(***************************************************************************)
VARIABLES status,  \* of the issue, as recorded by the agent
          hasPR    \* is the draft pull request open?

vars == <<status, hasPR>>

Init == status = "ready" /\ hasPR = FALSE

Start == /\ status \in {"ready", "blocked"}
         /\ ~hasPR
         /\ status' = "running"
         /\ UNCHANGED hasPR

OpenPR == /\ status = "running"
          /\ ~hasPR
          /\ hasPR' = TRUE
          /\ UNCHANGED status

Finish == /\ status = "running"
          /\ hasPR
          /\ status' = "done"
          /\ UNCHANGED hasPR

Block == /\ status \in {"ready", "running"}   \* it may fail before it runs
         /\ ~hasPR
         /\ status' = "blocked"
         /\ UNCHANGED hasPR

Next == Start \/ OpenPR \/ Finish \/ Block

Spec == Init /\ [][Next]_vars
=============================================================================
