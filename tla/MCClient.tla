------------------------------ MODULE MCClient ------------------------------
(***************************************************************************)
(* A client used by two threads of an application that changes its handler *)
(* and calls back into the client from its callbacks.                      *)
(***************************************************************************)
EXTENDS Client
=============================================================================
