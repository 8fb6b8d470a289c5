----------------------------- MODULE MCFixServer -----------------------------
(* One session disconnects a peer that exceeds its rate, one rejects.      *)
EXTENDS FixServer, TLC
CONSTANTS s1, s2
MCThrottleAction == (s1 :> "DISCONNECT") @@ (s2 :> "REJECT")
=============================================================================
