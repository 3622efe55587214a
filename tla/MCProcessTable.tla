---------------------------- MODULE MCProcessTable ----------------------------
(* The process table under any sequence of calls.                            *)
EXTENDS ProcessTable
=============================================================================
