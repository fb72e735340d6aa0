---------------------------- MODULE MCReadyQueue ----------------------------
(* Instances of ReadyQueue for TLC. Number 0 is one that gh cannot view.     *)
EXTENDS ReadyQueue
=============================================================================
