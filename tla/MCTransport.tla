---------------------------- MODULE MCTransport ---------------------------
(* Small instances of Transport for TLC; see MCTransport_*.cfg.            *)
EXTENDS Transport

CONSTANTS o, a, b, c

(* The destination, and behind its only neighbour a ring.                  *)
Ring == {{o, a}, {a, b}, {b, c}, {c, a}}

(* Two ways to the destination, and a short cut between them.              *)
Diamond == {{o, a}, {o, b}, {a, b}, {a, c}, {b, c}}

(* A leaf on a shared medium with two transports, which are also connected *)
(* to each other; one of them is the destination's neighbour.              *)
Shared == {{o, b}, {a, b}, {a, b, c}}
===========================================================================
