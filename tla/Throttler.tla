------------------------------ MODULE Throttler ------------------------------
(***************************************************************************)
(* throttler.h over ring_buffer.h: the times of the last limit messages in *)
(* a ring, and how long the latest one has to wait.  Times count in some   *)
(* unit of the monotonic clock.                                            *)
(***************************************************************************)
EXTENDS Naturals

CONSTANTS
    limit,    \* setting throttle_limit; 0, no throttling, is not modelled
    window    \* setting throttle_window_in_milliseconds

ASSUME ThrottlerAssumption == limit \in Nat \ {0} /\ window \in Nat \ {0}

(* event_times is the ring and index its next slot, latest the slot and    *)
(* wait_time the verdict of the last update.                               *)
ThrottlerType == [event_times : [0 .. limit - 1 -> Nat], index : 0 .. limit - 1,
                  latest : 0 .. limit - 1, wait_time : 0 .. window]

(* The ring starts with limit old times, which leaves the index at 0.      *)
throttler_initialise(now) ==
    [event_times |-> [i \in 0 .. limit - 1 |-> IF now > window THEN now - window ELSE 0],
     index |-> 0, latest |-> 0, wait_time |-> 0]

WaitTime(now, first) == IF now - first < window THEN window - (now - first) ELSE 0

(* Mutant: a message that is held up leaves no time in the ring.           *)
update_forgetting(t, now) ==
    LET wait_time == WaitTime(now, t.event_times[(t.index + 1) % limit])
    IN  IF wait_time > 0 THEN [t EXCEPT !.wait_time = wait_time]
        ELSE [event_times |-> [t.event_times EXCEPT ![t.index] = now],
              index |-> (t.index + 1) % limit, latest |-> t.index, wait_time |-> 0]

(* The slot after the latest one is the oldest of the ring: the message    *)
(* limit - 1 before this one.                                              *)
update(t, now) ==
    LET times == [t.event_times EXCEPT ![t.index] = now]
        first == (t.index + 1) % limit
    IN  [event_times |-> times, index |-> (t.index + 1) % limit,
         latest |-> t.index, wait_time |-> WaitTime(now, times[first])]

reached_limit(t) == t.wait_time > 0

(* Mutant: the message keeps the time before it waited.                    *)
wait_unrecorded(t, now) == t

(* wait, after it has slept.                                               *)
wait(t, now) == [t EXCEPT !.event_times[t.latest] = now]
=============================================================================
