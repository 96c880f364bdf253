------------------------------ MODULE MCLink ------------------------------
(* A small instance of Link for TLC, in three worlds: one where nothing is *)
(* late, one where copies outlive the dedup window, and one that loses     *)
(* packets and restarts a process.                                         *)
EXTENDS Link

World(prompt, lifetime, lives) == [prompt |-> prompt, lifetime |-> lifetime, restarts |-> lives]

ThreeWorlds == {World(TRUE, 1, 0), World(FALSE, 1, 0), World(FALSE, 0, 1)}
===========================================================================
