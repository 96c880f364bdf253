---------------------------- MODULE MCResource ----------------------------
(* A small instance of Resource for TLC, in two worlds: one where anything *)
(* may go wrong, and one where no more is lost than can be asked for again.*)
EXTENDS Resource

(* Every part has a hash of its own.                                       *)
DistinctHashes == [i \in 1 .. N |-> i]

World(parts, prompt, losses, early, troubled) ==
  [parts |-> parts, prompt |-> prompt, losses |-> losses, zero |-> early, troubled |-> troubled]

TwoWorlds == {World(3, FALSE, 0, TRUE, TRUE), World(5, TRUE, MAX_RETRIES, FALSE, FALSE)}
===========================================================================
