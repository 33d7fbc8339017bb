-------------------------- MODULE MCTaskTransaction --------------------------
(* The first operation, and one thing that goes wrong.                       *)
EXTENDS TaskTransaction
=============================================================================
