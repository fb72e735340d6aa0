------------------------------ MODULE MCStatus ------------------------------
\* A status command beside the job of IssueJob; MCStatusClean.cfg gives the bounds.
EXTENDS Status
=============================================================================
