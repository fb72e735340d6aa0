----------------------------- MODULE MCIssueJob -----------------------------
(* Instances of IssueJob for TLC; every constant has its value in the cfg.   *)
EXTENDS IssueJob
=============================================================================
