----------------------------- MODULE MCFixClient -----------------------------
(* FixClient on small instances. *)
EXTENDS FixClient
=============================================================================
