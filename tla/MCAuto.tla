------------------------------- MODULE MCAuto -------------------------------
(***************************************************************************)
(* Two hosts of a group and a stranger that everybody hears, on a network  *)
(* where multicasts pass between the two in both directions, or in one.    *)
(***************************************************************************)
EXTENDS Auto

TwoGroups == [h \in Hosts |-> IF h = 2 THEN "stranger" ELSE "reticulum"]

Base == {<<1, 1>>, <<2, 1>>}

OneOrBothWays == {Base \cup {<<1, 3>>, <<3, 1>>}, Base \cup {<<1, 3>>}}
=============================================================================
