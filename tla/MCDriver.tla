----------------------------- MODULE MCDriver -----------------------------
(* Small instances of Driver for TLC; see MCDriver_*.cfg.                  *)
EXTENDS Driver
===========================================================================
