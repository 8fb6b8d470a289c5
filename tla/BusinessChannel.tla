--------------------------- MODULE BusinessChannel ---------------------------
(***************************************************************************)
(* What one direction of a FIX session promises the two applications: what *)
(* was sent under a number stays what it is, and the receiver's callbacks  *)
(* see business messages that were sent, in the order in which they were   *)
(* sent and each at most once.                                             *)
(***************************************************************************)
EXTENDS Naturals, Sequences

VARIABLES
    sent,       \* sent[n]: the type of the message that was sent with number n
    delivered   \* the numbers of the messages that the callbacks saw

vars == <<sent, delivered>>

Init == sent = <<>> /\ delivered = <<>>

(* More messages, numbered from the last one on.                           *)
Send ==
    /\ Len(sent) < Len(sent')
    /\ \A n \in DOMAIN sent : sent'[n] = sent[n]
    /\ UNCHANGED delivered

Deliver(n) ==
    /\ sent[n] = "APP"
    /\ \A i \in DOMAIN delivered : delivered[i] < n
    /\ delivered' = Append(delivered, n)
    /\ UNCHANGED sent

Next == Send \/ \E n \in DOMAIN sent : Deliver(n)

Spec == Init /\ [][Next]_vars
=============================================================================
