------------------------------ MODULE MCUserMode ------------------------------
(* User mode with a small table and few pages.                               *)
EXTENDS UserMode
=============================================================================
