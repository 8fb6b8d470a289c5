------------------------------ MODULE MCFixLink ------------------------------
(* FixLink on small instances: two connections, a handful of messages.     *)
EXTENDS FixLink
=============================================================================
