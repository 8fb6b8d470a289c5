----------------------------- MODULE BoundedFifo -----------------------------
(***************************************************************************)
(* What a caller of llfix::SPSCBoundedQueue relies on: a first-in          *)
(* first-out queue of at most Capacity values.  The management thread puts *)
(* administrative commands in, the thread that runs a session takes them   *)
(* out, each exactly once and in the order in which they were pushed.      *)
(***************************************************************************)
EXTENDS Naturals, Sequences

CONSTANTS
    Capacity,  \* the number of values the queue can hold
    Value      \* the values that are pushed

VARIABLES
    queue,     \* the values that are in the queue, oldest first
    taken      \* how many values were taken, and the last one: <<count, value>>

vars == <<queue, taken>>

Init == queue = <<>> /\ taken = <<0>>

Push(v) ==
    /\ Len(queue) < Capacity
    /\ queue' = Append(queue, v)
    /\ UNCHANGED taken

Pop ==
    /\ queue # <<>>
    /\ taken' = <<taken[1] + 1, Head(queue)>>
    /\ queue' = Tail(queue)

Next == (\E v \in Value : Push(v)) \/ Pop

Spec == Init /\ [][Next]_vars
=============================================================================
