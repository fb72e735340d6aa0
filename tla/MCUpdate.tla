------------------------------ MODULE MCUpdate ------------------------------
\* Instances of Update for TLC; MCUpdate.cfg gives the bounds.
EXTENDS Update
=============================================================================
