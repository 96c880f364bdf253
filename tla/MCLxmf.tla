------------------------------ MODULE MCLxmf ------------------------------
(* Two nodes, in two worlds: a writes two letters to b, with two links to  *)
(* get mixed up; and a letter and some bytes of b's own cross on one link  *)
(* while a process restarts and both announce again.                       *)
EXTENDS Lxmf, TLC

CONSTANTS a, b, l1, l2, m1, m2, x

Callers == [l \in {l1, l2} |-> a]
Callees == [l \in {l1, l2} |-> b]
Sources == m1 :> a @@ m2 :> a @@ x :> b
Dests == m1 :> b @@ m2 :> b @@ x :> NoNode

TwoWorlds ==
  {[payloads |-> {m1, m2}, links |-> {l1, l2}, announces |-> 1, crashes |-> 0],
   [payloads |-> {m1, x}, links |-> {l1}, announces |-> 2, crashes |-> 1]}
===========================================================================
