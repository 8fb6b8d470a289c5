-------------------------- MODULE ReceivePathProofs --------------------------
(***************************************************************************)
(* Proofs about the throttler in ReceivePath for every limit, window and   *)
(* stream: the ring of throttler.h decides like a sliding window over all  *)
(* the messages of the session, and bounds their rate.                     *)
(***************************************************************************)
EXTENDS ReceivePath, FiniteSetTheorems, SequenceTheorems, WellFoundedInduction, TLAPS

Arrival == [at : Nat, event : Nat, stopped : BOOLEAN]

ThrottleTypes ==
    /\ throttle_action \in Actions
    /\ throttler \in ThrottlerType
    /\ arrivals \in Seq(Arrival)
    /\ now \in Nat /\ StartTime <= now

(* The clock orders the messages, and a message remembers a time that is   *)
(* not before the one at which the throttler saw it.                       *)
Timeline(a) ==
    /\ \A j \in DOMAIN a : StartTime <= a[j].at /\ a[j].at <= a[j].event /\ a[j].event <= now
    /\ \A i, j \in DOMAIN a : i < j => a[i].event <= a[j].at

(* The ring t holds the times of the last limit messages of a, each in the *)
(* slot of its number, and elsewhere the old time that it started with.    *)
Ring(t, a) ==
    /\ t.index = Len(a) % limit
    /\ \A j \in DOMAIN a : Len(a) < j + limit => t.event_times[(j - 1) % limit] = a[j].event
    /\ \A i \in 0 .. limit - 1 : Len(a) <= i => t.event_times[i] = StartTime - window

(* Message k is held up when the one limit - 1 before it is in its window. *)
Verdict(a) ==
    \A k \in DOMAIN a :
        a[k].stopped <=> \/ limit = 1
                         \/ limit <= k /\ a[k].at - a[k - limit + 1].event < window

(* A message that goes on does so a window after the one limit - 1 before. *)
Spaced(a, action) ==
    limit > 1 => \A k \in DOMAIN a :
        limit <= k /\ (action = "WAIT" \/ ~a[k].stopped)
            => a[k - limit + 1].event + window <= a[k].event

Inv ==
    /\ ThrottleTypes
    /\ Timeline(arrivals)
    /\ Ring(throttler, arrivals)
    /\ Verdict(arrivals)
    /\ Spaced(arrivals, throttle_action)

-----------------------------------------------------------------------------
(* Slots of the ring                                                       *)

LEMMA ModuloUnique ==
    ASSUME NEW n \in Nat, NEW q \in Int, NEW r \in 0 .. limit - 1, n = limit * q + r
    PROVE  n % limit = r
<1> DEFINE p == n \div limit
           s == n % limit
<1>1. /\ limit \in Nat /\ limit > 0
      /\ n = limit * p + s /\ s \in 0 .. limit - 1 /\ p \in Int
  BY ThrottlerAssumption
<1> HIDE DEF p, s
<1>2. limit * (q - p) = s - r
  BY <1>1
<1>3. CASE q - p >= 1
  <2>1. limit * (q - p) >= limit
    BY <1>1, <1>3
  <2> QED BY <1>1, <1>2, <2>1
<1>4. CASE q - p <= 0 - 1
  <2>1. limit * (q - p) <= 0 - limit
    BY <1>1, <1>4
  <2> QED BY <1>1, <1>2, <2>1
<1>5. CASE q - p = 0
  BY <1>1, <1>2, <1>5 DEF s
<1> QED BY <1>1, <1>3, <1>4, <1>5

LEMMA ModuloRange ==
    ASSUME NEW n \in Nat
    PROVE  n % limit \in 0 .. limit - 1 /\ limit \in Nat /\ limit >= 1
  BY ThrottlerAssumption

(* A slot for each number, the same one limit numbers later.               *)
LEMMA ModuloSlots ==
    ASSUME NEW n \in Nat
    PROVE  /\ n < limit => n % limit = n
           /\ ((n % limit) + 1) % limit = (n + 1) % limit
           /\ (n + limit) % limit = n % limit
<1> DEFINE q == n \div limit
           r == n % limit
<1>1. /\ limit \in Nat /\ limit > 0
      /\ n = limit * q + r /\ r \in 0 .. limit - 1 /\ q \in Int
  BY ThrottlerAssumption
<1> HIDE DEF q, r
<1>2. ASSUME n < limit PROVE n % limit = n
  <2>1. n = limit * 0 + n /\ n \in 0 .. limit - 1
    BY <1>1, <1>2
  <2> QED BY <2>1, ModuloUnique
<1>3. (n + limit) % limit = r
  <2>1. n + limit = limit * (q + 1) + r /\ n + limit \in Nat /\ q + 1 \in Int
    BY <1>1
  <2> QED BY <1>1, <2>1, ModuloUnique
<1>4. (r + 1) % limit = (n + 1) % limit
  <2>1. CASE r + 1 < limit
    <3>1. n + 1 = limit * q + (r + 1) /\ n + 1 \in Nat /\ r + 1 \in 0 .. limit - 1
      BY <1>1, <2>1
    <3>2. (n + 1) % limit = r + 1
      BY <1>1, <3>1, ModuloUnique
    <3>3. r + 1 = limit * 0 + (r + 1) /\ r + 1 \in Nat
      BY <1>1, <3>1
    <3> QED BY <3>1, <3>2, <3>3, ModuloUnique
  <2>2. CASE r + 1 = limit
    <3>1. n + 1 = limit * (q + 1) + 0 /\ n + 1 \in Nat /\ 0 \in 0 .. limit - 1 /\ q + 1 \in Int
      BY <1>1, <2>2
    <3>2. (n + 1) % limit = 0
      BY <3>1, ModuloUnique
    <3>3. r + 1 = limit * 1 + 0 /\ r + 1 \in Nat
      BY <1>1, <2>2
    <3>4. (r + 1) % limit = 0
      BY <3>1, <3>3, ModuloUnique
    <3> QED BY <3>2, <3>4
  <2> QED BY <1>1, <2>1, <2>2
<1> QED BY <1>2, <1>3, <1>4 DEF r

LEMMA ModuloDistinct ==
    ASSUME NEW i \in Nat, NEW j \in Nat, i < j, j < i + limit
    PROVE  i % limit # j % limit
<1> DEFINE q == i \div limit
           r == i % limit
<1>1. /\ limit \in Nat /\ limit > 0
      /\ i = limit * q + r /\ r \in 0 .. limit - 1 /\ q \in Int
  BY ThrottlerAssumption
<1> HIDE DEF q, r
<1> DEFINE d == j - i
<1>2. d \in 1 .. limit - 1 /\ j = i + d
  BY <1>1
<1> HIDE DEF d
<1>3. CASE r + d < limit
  <2>1. j = limit * q + (r + d) /\ r + d \in 0 .. limit - 1
    BY <1>1, <1>2, <1>3
  <2>2. j % limit = r + d
    BY <1>1, <2>1, ModuloUnique
  <2> QED BY <1>1, <1>2, <2>2 DEF r
<1>4. CASE r + d >= limit
  <2>1. j = limit * (q + 1) + (r + d - limit) /\ r + d - limit \in 0 .. limit - 1
        /\ q + 1 \in Int
    BY <1>1, <1>2, <1>4
  <2>2. j % limit = r + d - limit
    BY <1>1, <2>1, ModuloUnique
  <2> QED BY <1>1, <1>2, <2>2 DEF r
<1> QED BY <1>1, <1>2, <1>3, <1>4

-----------------------------------------------------------------------------
(* A message arrives                                                       *)

(* The ring starts with times that are a window old: the monotonic clock   *)
(* is at least a window old when the process starts.                       *)
OldEnough == window <= StartTime

LEMMA ArrivalSeq ==
    ASSUME NEW a \in Seq(Arrival)
    PROVE  /\ Len(a) \in Nat /\ DOMAIN a = 1 .. Len(a)
           /\ \A j \in DOMAIN a : /\ a[j] \in Arrival /\ a[j].at \in Nat
                                  /\ a[j].event \in Nat /\ a[j].stopped \in BOOLEAN
<1>1. \A x \in Arrival : x.at \in Nat /\ x.event \in Nat /\ x.stopped \in BOOLEAN
  BY DEF Arrival
<1> QED BY <1>1

LEMMA UpdateIs ==
    ASSUME NEW t, NEW n
    PROVE  LET u == update(t, n)
               times == [t.event_times EXCEPT ![t.index] = n]
           IN  /\ u.event_times = times
               /\ u.index = (t.index + 1) % limit /\ u.latest = t.index
               /\ u.wait_time = WaitTime(n, times[(t.index + 1) % limit])
               /\ u = [event_times |-> times, index |-> (t.index + 1) % limit,
                       latest |-> t.index,
                       wait_time |-> WaitTime(n, times[(t.index + 1) % limit])]
  BY DEF update

(* The oldest time that update looks at: that of the message limit - 1     *)
(* before the new one, or an old one if there are fewer.                   *)
LEMMA OldestIs ==
    ASSUME ThrottleTypes, Ring(throttler, arrivals)
    PROVE  LET n == Len(arrivals)
               times == [throttler.event_times EXCEPT ![throttler.index] = now]
               oldest == times[(throttler.index + 1) % limit]
           IN  /\ limit = 1 => oldest = now
               /\ limit > 1 /\ limit <= n + 1 => oldest = arrivals[n + 2 - limit].event
               /\ limit > 1 /\ n + 1 < limit => oldest = StartTime - window
<1> DEFINE n == Len(arrivals)
           times == [throttler.event_times EXCEPT ![throttler.index] = now]
           first == (throttler.index + 1) % limit
<1>1. n \in Nat /\ DOMAIN arrivals = 1 .. n
  BY ArrivalSeq DEF ThrottleTypes
<1>2. throttler.event_times \in [0 .. limit - 1 -> Nat] /\ limit \in Nat /\ limit >= 1
  BY ModuloRange DEF ThrottleTypes, ThrottlerType
<1>3. throttler.index = n % limit /\ n % limit \in 0 .. limit - 1
  BY <1>1, ModuloRange DEF Ring
<1>4. first = (n + 1) % limit /\ first \in 0 .. limit - 1
  BY <1>1, <1>3, ModuloSlots, ModuloRange
<1> HIDE DEF n, first
<1>5. CASE limit = 1
  <2>1. first = throttler.index
    BY <1>3, <1>4, <1>5
  <2> QED BY <1>2, <1>3, <1>5, <2>1 DEF first, n
<1>6. CASE limit > 1
  <2>1. first # throttler.index
    <3>1. n + 1 \in Nat /\ n < n + 1 /\ n + 1 < n + limit
      BY <1>1, <1>2, <1>6
    <3>2. n % limit # (n + 1) % limit
      BY <1>1, <3>1, ModuloDistinct
    <3> QED BY <1>3, <1>4, <3>2
  <2>2. times[first] = throttler.event_times[first]
    BY <1>2, <1>4, <2>1
  <2>3. CASE limit <= n + 1
    <3> DEFINE j == n + 2 - limit
    <3>1. /\ j \in DOMAIN arrivals /\ n < j + limit /\ j - 1 \in Nat
          /\ n + 1 = (j - 1) + limit
      BY <1>1, <1>2, <1>6, <2>3
    <3>2. (j - 1) % limit = first
      BY <1>4, <3>1, ModuloSlots
    <3> HIDE DEF j
    <3>3. throttler.event_times[first] = arrivals[j].event
      BY <3>1, <3>2 DEF Ring, n
    <3> QED BY <1>1, <1>2, <1>6, <2>2, <2>3, <3>3 DEF first, j, n
  <2>4. CASE n + 1 < limit
    <3>1. first = n + 1
      BY <1>1, <1>4, <2>4, ModuloSlots
    <3>2. throttler.event_times[first] = StartTime - window
      BY <1>1, <1>4, <3>1 DEF Ring, n
    <3> QED BY <1>1, <1>2, <1>6, <2>2, <2>4, <3>2 DEF first, n
  <2> QED BY <1>1, <1>2, <2>3, <2>4
<1> QED BY <1>2, <1>5, <1>6

(* update decides like the window, and asks for a wait of at most one.     *)
LEMMA UpdateDecides ==
    ASSUME OldEnough, ThrottleTypes, Timeline(arrivals), Ring(throttler, arrivals)
    PROVE  LET n == Len(arrivals)
               u == update(throttler, now)
           IN  /\ u.wait_time \in 0 .. window
               /\ reached_limit(u) <=>
                     \/ limit = 1
                     \/ limit <= n + 1 /\ now - arrivals[n + 2 - limit].event < window
               /\ limit > 1 /\ reached_limit(u) =>
                     u.wait_time = window - (now - arrivals[n + 2 - limit].event)
<1> DEFINE n == Len(arrivals)
           u == update(throttler, now)
           times == [throttler.event_times EXCEPT ![throttler.index] = now]
           oldest == times[(throttler.index + 1) % limit]
           j == n + 2 - limit
<1>1. n \in Nat /\ DOMAIN arrivals = 1 .. n /\ \A i \in DOMAIN arrivals : arrivals[i].event \in Nat
  BY ArrivalSeq DEF ThrottleTypes
<1>2. /\ limit \in Nat /\ limit >= 1 /\ window \in Nat /\ window > 0
      /\ now \in Nat /\ StartTime \in Nat /\ StartTime <= now /\ window <= StartTime
  BY ThrottlerAssumption, ReceiveAssumption DEF ThrottleTypes, OldEnough
<1>3. u.wait_time = WaitTime(now, oldest)
  BY UpdateIs
<1>4. /\ limit = 1 => oldest = now
      /\ limit > 1 /\ limit <= n + 1 => oldest = arrivals[j].event
      /\ limit > 1 /\ n + 1 < limit => oldest = StartTime - window
  BY OldestIs
<1> HIDE DEF u, times, oldest
<1>5. CASE limit = 1
  <2>1. u.wait_time = window
    BY <1>2, <1>3, <1>4, <1>5 DEF WaitTime
  <2> QED BY <1>2, <1>5, <2>1 DEF reached_limit, u
<1>6. CASE limit > 1 /\ limit <= n + 1
  <2>1. j \in DOMAIN arrivals
    BY <1>1, <1>2, <1>6
  <2> DEFINE v == arrivals[j].event
  <2>2. v \in Nat /\ v <= now /\ oldest = v
    BY <1>1, <1>4, <1>6, <2>1 DEF Timeline
  <2> HIDE DEF v
  <2>3. /\ u.wait_time \in 0 .. window
        /\ reached_limit(u) <=> now - v < window
        /\ reached_limit(u) => u.wait_time = window - (now - v)
    BY <1>2, <1>3, <2>2 DEF WaitTime, reached_limit
  <2> QED BY <1>6, <2>3 DEF v, u
<1>7. CASE limit > 1 /\ n + 1 < limit
  <2>1. u.wait_time = 0
    BY <1>2, <1>3, <1>4, <1>7 DEF WaitTime
  <2> QED BY <1>1, <1>2, <1>7, <2>1 DEF reached_limit, u
<1> QED BY <1>1, <1>2, <1>5, <1>6, <1>7

(* What process_incoming_throttling does to the throttler's record of a    *)
(* message that arrives: v is the time it remembers.                       *)
Arrives(v, stopped) ==
    LET u == update(throttler, now)
    IN  /\ v \in Nat /\ now <= v /\ now' = v
        /\ stopped = reached_limit(u)
        /\ ~(stopped /\ throttle_action = "WAIT") => v = now
        /\ stopped /\ throttle_action = "WAIT" => now + u.wait_time <= v
        /\ arrivals' = Append(arrivals, [at |-> now, event |-> v, stopped |-> stopped])
        /\ throttler'.event_times = [throttler.event_times EXCEPT ![throttler.index] = v]
        /\ throttler'.index = (throttler.index + 1) % limit
        /\ throttler' \in ThrottlerType
        /\ throttle_action' = throttle_action

LEMMA RecordIs ==
    ASSUME ThrottleTypes, NEW v \in Nat, NEW w \in 0 .. window
    PROVE  [event_times |-> [throttler.event_times EXCEPT ![throttler.index] = v],
            index |-> (throttler.index + 1) % limit,
            latest |-> throttler.index, wait_time |-> w] \in ThrottlerType
<1>1. /\ throttler.event_times \in [0 .. limit - 1 -> Nat]
      /\ throttler.index \in 0 .. limit - 1
  BY DEF ThrottleTypes, ThrottlerType
<1>2. (throttler.index + 1) % limit \in 0 .. limit - 1
  <2>1. throttler.index + 1 \in Nat
    BY <1>1, ThrottlerAssumption
  <2> QED BY <2>1, ModuloRange
<1>3. [throttler.event_times EXCEPT ![throttler.index] = v] \in [0 .. limit - 1 -> Nat]
  BY <1>1
<1> QED BY <1>1, <1>2, <1>3 DEF ThrottlerType

LEMMA MessageArrives ==
    ASSUME OldEnough, ThrottleTypes, Timeline(arrivals), Ring(throttler, arrivals),
           ProcessMessage
    PROVE  \E v, stopped : Arrives(v, stopped)
<1> DEFINE u == update(throttler, now)
           times == [throttler.event_times EXCEPT ![throttler.index] = now]
           end == TagLoop(buffer, MessageBegin)
<1>1. /\ now \in Nat /\ window \in Nat
      /\ throttler.event_times \in [0 .. limit - 1 -> Nat]
      /\ throttler.index \in 0 .. limit - 1
  BY ThrottlerAssumption DEF ThrottleTypes, ThrottlerType
<1>2. u.wait_time \in 0 .. window
  BY UpdateDecides
<1>3. /\ u.event_times = times
      /\ u.index = (throttler.index + 1) % limit /\ u.latest = throttler.index
      /\ u = [event_times |-> times, index |-> (throttler.index + 1) % limit,
              latest |-> throttler.index, wait_time |-> u.wait_time]
  BY UpdateIs
<1>4. u \in ThrottlerType
  BY <1>1, <1>2, <1>3, RecordIs
<1> HIDE DEF u
<1>5. throttle_action' = throttle_action /\ process_incoming_throttling(end)
  BY DEF ProcessMessage
<1>6. CASE ~reached_limit(u)
  <2>1. /\ throttler' = u /\ now' = now
        /\ arrivals' = Append(arrivals, [at |-> now, event |-> now, stopped |-> FALSE])
    BY <1>5, <1>6 DEF process_incoming_throttling, Arrive, u
  <2>2. reached_limit(u) = FALSE
    BY <1>6 DEF reached_limit
  <2>3. Arrives(now, FALSE)
    BY <1>1, <1>3, <1>4, <1>5, <2>1, <2>2 DEF Arrives, u
  <2> QED BY <2>3
<1>7. CASE reached_limit(u) /\ throttle_action # "WAIT"
  <2>1. /\ throttler' = u /\ now' = now
        /\ arrivals' = Append(arrivals, [at |-> now, event |-> now, stopped |-> TRUE])
    BY <1>5, <1>7 DEF process_incoming_throttling, Arrive, u
  <2>2. reached_limit(u) = TRUE
    BY <1>7 DEF reached_limit
  <2>3. Arrives(now, TRUE)
    BY <1>1, <1>3, <1>4, <1>5, <1>7, <2>1, <2>2 DEF Arrives, u
  <2> QED BY <2>3
<1>8. CASE reached_limit(u) /\ throttle_action = "WAIT"
  <2>1. PICK late \in 0 .. 1 : now' = now + u.wait_time + late
    BY <1>5, <1>8 DEF process_incoming_throttling, u
  <2> DEFINE v == now'
  <2>2. /\ throttler' = wait(u, v)
        /\ arrivals' = Append(arrivals, [at |-> now, event |-> v, stopped |-> TRUE])
    BY <1>5, <1>8 DEF process_incoming_throttling, Arrive, u
  <2>3. v \in Nat /\ now <= v /\ now + u.wait_time <= v
    BY <1>1, <1>2, <2>1
  <2> DEFINE waited == [throttler.event_times EXCEPT ![throttler.index] = v]
  <2>4. wait(u, v) = [event_times |-> waited, index |-> (throttler.index + 1) % limit,
                      latest |-> throttler.index, wait_time |-> u.wait_time]
    <3>1. [times EXCEPT ![throttler.index] = v] = waited
      BY <1>1
    <3>2. wait(u, v) = [u EXCEPT !.event_times = [times EXCEPT ![throttler.index] = v]]
      BY <1>3 DEF wait
    <3> HIDE DEF times, waited
    <3> QED BY <1>3, <3>1, <3>2
  <2>5. wait(u, v) \in ThrottlerType
    BY <1>2, <2>3, <2>4, RecordIs
  <2>6. wait(u, v).event_times = waited /\ wait(u, v).index = (throttler.index + 1) % limit
    <3> HIDE DEF waited
    <3> QED BY <2>4
  <2>7. reached_limit(u) = TRUE
    BY <1>8 DEF reached_limit
  <2>8. Arrives(v, TRUE)
    BY <1>5, <1>8, <2>2, <2>3, <2>5, <2>6, <2>7 DEF Arrives, u
  <2> QED BY <2>8
<1> QED BY <1>6, <1>7, <1>8

-----------------------------------------------------------------------------
(* The invariant                                                           *)

LEMMA ArrivalsGrow ==
    ASSUME ThrottleTypes, NEW v, NEW stopped, Arrives(v, stopped)
    PROVE  LET n == Len(arrivals)
           IN  /\ n \in Nat /\ DOMAIN arrivals = 1 .. n
               /\ arrivals' \in Seq(Arrival) /\ Len(arrivals') = n + 1
               /\ DOMAIN arrivals' = 1 .. n + 1
               /\ \A j \in 1 .. n : arrivals'[j] = arrivals[j]
               /\ arrivals'[n + 1].at = now /\ arrivals'[n + 1].event = v
               /\ arrivals'[n + 1].stopped = stopped
<1> DEFINE x == [at |-> now, event |-> v, stopped |-> stopped]
<1>1. x \in Arrival /\ x.at = now /\ x.event = v /\ x.stopped = stopped
  BY DEF Arrives, ThrottleTypes, reached_limit, Arrival
<1>2. arrivals' = Append(arrivals, x) /\ arrivals \in Seq(Arrival)
  BY DEF Arrives, ThrottleTypes
<1> HIDE DEF x
<1> QED BY <1>1, <1>2

LEMMA ArrivalTimeline ==
    ASSUME ThrottleTypes, Timeline(arrivals), NEW v, NEW stopped, Arrives(v, stopped)
    PROVE  Timeline(arrivals)'
<1> DEFINE n == Len(arrivals)
<1>1. /\ n \in Nat /\ DOMAIN arrivals = 1 .. n
      /\ DOMAIN arrivals' = 1 .. n + 1
      /\ \A j \in 1 .. n : arrivals'[j] = arrivals[j]
      /\ arrivals'[n + 1].at = now /\ arrivals'[n + 1].event = v
  BY ArrivalsGrow
<1>2. \A j \in DOMAIN arrivals : arrivals[j].at \in Nat /\ arrivals[j].event \in Nat
  BY ArrivalSeq DEF ThrottleTypes
<1>3. now \in Nat /\ StartTime \in Nat /\ StartTime <= now /\ v \in Nat /\ now <= v /\ now' = v
  BY ReceiveAssumption DEF ThrottleTypes, Arrives
<1> HIDE DEF n
<1>4. ASSUME NEW j \in 1 .. n + 1
      PROVE  /\ StartTime <= arrivals'[j].at /\ arrivals'[j].at <= arrivals'[j].event
             /\ arrivals'[j].event <= now'
  <2>1. CASE j = n + 1
    BY <1>1, <1>3, <2>1
  <2>2. CASE j # n + 1
    <3>1. j \in DOMAIN arrivals /\ arrivals'[j] = arrivals[j]
      BY <1>1, <2>2
    <3> QED BY <1>2, <1>3, <3>1 DEF Timeline
  <2> QED BY <2>1, <2>2
<1>5. ASSUME NEW i \in 1 .. n + 1, NEW j \in 1 .. n + 1, i < j
      PROVE  arrivals'[i].event <= arrivals'[j].at
  <2>1. i \in DOMAIN arrivals /\ arrivals'[i] = arrivals[i]
    BY <1>1, <1>5
  <2>2. CASE j = n + 1
    BY <1>1, <2>1, <2>2 DEF Timeline
  <2>3. CASE j # n + 1
    <3>1. j \in DOMAIN arrivals /\ arrivals'[j] = arrivals[j]
      BY <1>1, <2>3
    <3> QED BY <1>5, <2>1, <3>1 DEF Timeline
  <2> QED BY <2>2, <2>3
<1> QED BY <1>1, <1>4, <1>5 DEF Timeline

LEMMA ArrivalRing ==
    ASSUME ThrottleTypes, Ring(throttler, arrivals), NEW v, NEW stopped, Arrives(v, stopped)
    PROVE  Ring(throttler, arrivals)'
<1> DEFINE n == Len(arrivals)
           slot == throttler.index
           times == throttler.event_times
<1>1. /\ n \in Nat /\ DOMAIN arrivals = 1 .. n
      /\ Len(arrivals') = n + 1 /\ DOMAIN arrivals' = 1 .. n + 1
      /\ \A j \in 1 .. n : arrivals'[j] = arrivals[j]
      /\ arrivals'[n + 1].event = v
  BY ArrivalsGrow
<1>2. slot = n % limit
  BY DEF Ring
<1>3. /\ times \in [0 .. limit - 1 -> Nat] /\ limit \in Nat /\ limit >= 1
      /\ slot \in 0 .. limit - 1
  BY <1>1, <1>2, ModuloRange DEF ThrottleTypes, ThrottlerType
<1>4. /\ throttler'.event_times = [times EXCEPT ![slot] = v]
      /\ throttler'.index = (slot + 1) % limit
  BY DEF Arrives
<1>5. throttler'.index = (n + 1) % limit
  BY <1>1, <1>2, <1>4, ModuloSlots
<1>6. /\ \A j \in 1 .. n : n < j + limit => times[(j - 1) % limit] = arrivals[j].event
      /\ \A i \in 0 .. limit - 1 : n <= i => times[i] = StartTime - window
  BY <1>1 DEF Ring
<1> HIDE DEF n, slot, times
<1>7. ASSUME NEW j \in 1 .. n + 1, n + 1 < j + limit
      PROVE  throttler'.event_times[(j - 1) % limit] = arrivals'[j].event
  <2>1. CASE j = n + 1
    <3>1. (j - 1) % limit = slot
      BY <1>1, <1>2, <2>1
    <3> QED BY <1>1, <1>3, <1>4, <2>1, <3>1
  <2>2. CASE j # n + 1
    <3>1. /\ j \in 1 .. n /\ j - 1 \in Nat /\ j - 1 < n /\ n < (j - 1) + limit
          /\ n < j + limit
      BY <1>1, <1>3, <1>7, <2>2
    <3>2. (j - 1) % limit # slot /\ (j - 1) % limit \in 0 .. limit - 1
      BY <1>1, <1>2, <3>1, ModuloDistinct, ModuloRange
    <3>3. throttler'.event_times[(j - 1) % limit] = times[(j - 1) % limit]
      BY <1>3, <1>4, <3>2
    <3> QED BY <1>1, <1>6, <3>1, <3>3
  <2> QED BY <2>1, <2>2
<1>8. ASSUME NEW i \in 0 .. limit - 1, n + 1 <= i
      PROVE  throttler'.event_times[i] = StartTime - window
  <2>1. slot = n
    BY <1>1, <1>2, <1>3, <1>8, ModuloSlots
  <2>2. i # slot /\ n <= i
    BY <1>1, <1>8, <2>1
  <2> QED BY <1>3, <1>4, <1>6, <2>2
<1> QED BY <1>1, <1>5, <1>7, <1>8 DEF Ring

LEMMA ArrivalVerdict ==
    ASSUME OldEnough, ThrottleTypes, Timeline(arrivals), Ring(throttler, arrivals),
           Verdict(arrivals), NEW v, NEW stopped, Arrives(v, stopped)
    PROVE  Verdict(arrivals)'
<1> DEFINE n == Len(arrivals)
<1>1. /\ n \in Nat /\ DOMAIN arrivals = 1 .. n
      /\ DOMAIN arrivals' = 1 .. n + 1
      /\ \A j \in 1 .. n : arrivals'[j] = arrivals[j]
      /\ arrivals'[n + 1].at = now /\ arrivals'[n + 1].stopped = stopped
  BY ArrivalsGrow
<1>2. limit \in Nat /\ limit >= 1
  BY ThrottlerAssumption
<1>3. stopped <=> \/ limit = 1
                  \/ limit <= n + 1 /\ now - arrivals[n + 2 - limit].event < window
  BY UpdateDecides DEF Arrives
<1> HIDE DEF n
<1>4. ASSUME NEW k \in 1 .. n + 1
      PROVE  arrivals'[k].stopped <=>
                \/ limit = 1
                \/ limit <= k /\ arrivals'[k].at - arrivals'[k - limit + 1].event < window
  <2>1. CASE k = n + 1
    <3>1. CASE limit = 1
      BY <1>1, <1>3, <2>1, <3>1
    <3>2. CASE limit # 1 /\ limit <= k
      <4>1. k - limit + 1 = n + 2 - limit /\ k - limit + 1 \in 1 .. n
        BY <1>1, <1>2, <2>1, <3>2
      <4>2. arrivals'[k - limit + 1] = arrivals[n + 2 - limit]
        BY <1>1, <4>1
      <4> QED BY <1>1, <1>3, <2>1, <3>2, <4>2
    <3>3. CASE limit # 1 /\ ~(limit <= k)
      BY <1>1, <1>3, <2>1, <3>3
    <3> QED BY <3>1, <3>2, <3>3
  <2>2. CASE k # n + 1
    <3>1. k \in DOMAIN arrivals /\ arrivals'[k] = arrivals[k]
      BY <1>1, <2>2
    <3>2. limit <= k => arrivals'[k - limit + 1] = arrivals[k - limit + 1]
      BY <1>1, <1>2, <3>1
    <3> QED BY <3>1, <3>2 DEF Verdict
  <2> QED BY <2>1, <2>2
<1> QED BY <1>1, <1>4 DEF Verdict

LEMMA ArrivalSpaced ==
    ASSUME OldEnough, ThrottleTypes, Timeline(arrivals), Ring(throttler, arrivals),
           Spaced(arrivals, throttle_action), NEW v, NEW stopped, Arrives(v, stopped)
    PROVE  Spaced(arrivals, throttle_action)'
<1> DEFINE n == Len(arrivals)
           u == update(throttler, now)
<1>1. /\ n \in Nat /\ DOMAIN arrivals = 1 .. n
      /\ DOMAIN arrivals' = 1 .. n + 1
      /\ \A j \in 1 .. n : arrivals'[j] = arrivals[j]
      /\ arrivals'[n + 1].event = v /\ arrivals'[n + 1].stopped = stopped
  BY ArrivalsGrow
<1>2. /\ limit \in Nat /\ limit >= 1 /\ window \in Nat /\ now \in Nat
      /\ \A j \in 1 .. n : arrivals[j].event \in Nat
  BY <1>1, ThrottlerAssumption, ArrivalSeq DEF ThrottleTypes
<1>3. /\ stopped <=> \/ limit = 1
                     \/ limit <= n + 1 /\ now - arrivals[n + 2 - limit].event < window
      /\ limit > 1 /\ stopped => u.wait_time = window - (now - arrivals[n + 2 - limit].event)
  BY UpdateDecides DEF Arrives
<1>4. /\ v \in Nat /\ now <= v /\ throttle_action' = throttle_action
      /\ stopped /\ throttle_action = "WAIT" => now + u.wait_time <= v
  BY DEF Arrives
<1> HIDE DEF n, u
<1>5. ASSUME limit > 1, NEW k \in 1 .. n + 1, limit <= k,
             throttle_action = "WAIT" \/ ~arrivals'[k].stopped
      PROVE  arrivals'[k - limit + 1].event + window <= arrivals'[k].event
  <2>1. k - limit + 1 \in 1 .. n /\ arrivals'[k - limit + 1] = arrivals[k - limit + 1]
    BY <1>1, <1>2, <1>5
  <2>2. CASE k = n + 1
    <3> DEFINE b == arrivals[n + 2 - limit].event
    <3>1. k - limit + 1 = n + 2 - limit /\ limit # 1 /\ limit <= n + 1
      BY <1>1, <1>2, <1>5, <2>2
    <3>2. b \in Nat /\ arrivals'[k - limit + 1].event = b /\ arrivals'[k].event = v
      BY <1>1, <1>2, <2>1, <2>2, <3>1
    <3>3. /\ stopped <=> now - b < window
          /\ stopped => u.wait_time = window - (now - b)
      BY <1>3, <1>5, <3>1
    <3> HIDE DEF b
    <3>4. CASE stopped
      <4>1. throttle_action = "WAIT"
        BY <1>1, <1>5, <2>2, <3>4
      <4> QED BY <1>2, <1>4, <3>2, <3>3, <3>4, <4>1
    <3>5. CASE ~stopped
      BY <1>2, <1>4, <3>2, <3>3, <3>5
    <3> QED BY <3>4, <3>5
  <2>3. CASE k # n + 1
    <3>1. k \in DOMAIN arrivals /\ arrivals'[k] = arrivals[k]
      BY <1>1, <2>3
    <3> QED BY <1>5, <2>1, <3>1 DEF Spaced
  <2> QED BY <2>2, <2>3
<1> QED BY <1>1, <1>4, <1>5 DEF Spaced

LEMMA InitialRing ==
    ASSUME OldEnough, Init
    PROVE  Inv
<1> DEFINE old == StartTime - window
<1>1. /\ limit \in Nat /\ limit >= 1 /\ window \in Nat /\ window > 0
      /\ StartTime \in Nat /\ old \in Nat
  BY ThrottlerAssumption, ReceiveAssumption DEF OldEnough
<1>2. /\ throttle_action \in Actions /\ arrivals = <<>> /\ now = StartTime
      /\ throttler = throttler_initialise(StartTime)
  BY DEF Init
<1>3. (IF StartTime > window THEN StartTime - window ELSE 0) = old
  BY <1>1 DEF OldEnough
<1>4. /\ throttler.event_times = [i \in 0 .. limit - 1 |-> old]
      /\ throttler.index = 0
      /\ throttler = [event_times |-> [i \in 0 .. limit - 1 |-> old],
                      index |-> 0, latest |-> 0, wait_time |-> 0]
  BY <1>2, <1>3 DEF throttler_initialise
<1>5. throttler \in ThrottlerType
  BY <1>1, <1>4 DEF ThrottlerType
<1>6. arrivals \in Seq(Arrival) /\ Len(arrivals) = 0 /\ DOMAIN arrivals = {}
  BY <1>2
<1>7. ThrottleTypes
  BY <1>1, <1>2, <1>5, <1>6 DEF ThrottleTypes
<1>8. Timeline(arrivals) /\ Verdict(arrivals) /\ Spaced(arrivals, throttle_action)
  BY <1>6 DEF Timeline, Verdict, Spaced
<1>9. Ring(throttler, arrivals)
  <2>1. 0 % limit = 0
    BY <1>1, ModuloSlots
  <2> QED BY <1>4, <1>6, <2>1 DEF Ring
<1> QED BY <1>7, <1>8, <1>9 DEF Inv

LEMMA ArrivalInv ==
    ASSUME OldEnough, Inv, ProcessMessage
    PROVE  Inv'
<1>1. /\ ThrottleTypes /\ Timeline(arrivals) /\ Ring(throttler, arrivals)
      /\ Verdict(arrivals) /\ Spaced(arrivals, throttle_action)
  BY DEF Inv
<1>2. PICK v, stopped : Arrives(v, stopped)
  BY <1>1, MessageArrives
<1>3. ThrottleTypes'
  <2>1. arrivals' \in Seq(Arrival)
    BY <1>1, <1>2, ArrivalsGrow
  <2>2. /\ throttle_action' \in Actions /\ throttler' \in ThrottlerType
        /\ now' \in Nat /\ StartTime <= now'
    BY <1>1, <1>2, ReceiveAssumption DEF Arrives, ThrottleTypes
  <2> QED BY <2>1, <2>2 DEF ThrottleTypes
<1>4. Timeline(arrivals)' /\ Ring(throttler, arrivals)'
  BY <1>1, <1>2, ArrivalTimeline, ArrivalRing
<1>5. Verdict(arrivals)' /\ Spaced(arrivals, throttle_action)'
  BY <1>1, <1>2, ArrivalVerdict, ArrivalSpaced
<1> QED BY <1>3, <1>4, <1>5 DEF Inv

(* Every other step leaves the throttler alone while time passes.          *)
LEMMA TimePasses ==
    ASSUME Inv, UNCHANGED <<throttle_action, throttler, arrivals>>,
           now' \in Nat, now <= now'
    PROVE  Inv'
<1>1. /\ ThrottleTypes /\ Timeline(arrivals) /\ Ring(throttler, arrivals)
      /\ Verdict(arrivals) /\ Spaced(arrivals, throttle_action)
  BY DEF Inv
<1>2. ThrottleTypes'
  BY <1>1, ReceiveAssumption DEF ThrottleTypes
<1>3. Timeline(arrivals)'
  <2>1. \A j \in DOMAIN arrivals : arrivals[j].event \in Nat /\ arrivals[j].event <= now'
    BY <1>1, ArrivalSeq DEF Timeline, ThrottleTypes
  <2> QED BY <1>1, <2>1 DEF Timeline
<1>4. Ring(throttler, arrivals)' /\ Verdict(arrivals)' /\ Spaced(arrivals, throttle_action)'
  BY <1>1 DEF Ring, Verdict, Spaced
<1> QED BY <1>2, <1>3, <1>4 DEF Inv

(* The ring, the clock and the record of the messages stay as Inv says.    *)
THEOREM ThrottlerInvariance ==
    ASSUME window <= StartTime
    PROVE  Spec => []Inv
<1>1. OldEnough
  BY DEF OldEnough
<1>2. Init => Inv
  BY <1>1, InitialRing
<1>3. Inv /\ [Next]_vars => Inv'
  <2> SUFFICES ASSUME Inv, [Next]_vars PROVE Inv'
    OBVIOUS
  <2>1. now \in Nat
    BY DEF Inv, ThrottleTypes
  <2>2. CASE ProcessMessage
    BY <1>1, <2>2, ArrivalInv
  <2>3. CASE Tick
    <3>1. UNCHANGED <<throttle_action, throttler, arrivals>> /\ now' = now + 1
      BY <2>3 DEF Tick
    <3> QED BY <2>1, <3>1, TimePasses
  <2>4. CASE \E n \in 1 .. receive_size : on_data_ready(n)
    <3>1. UNCHANGED <<throttle_action, throttler, arrivals, now>>
      BY <2>4 DEF on_data_ready
    <3> QED BY <2>1, <3>1, TimePasses
  <2>5. CASE NoBeginString \/ MessageIncomplete \/ ConnectionLost \/ Connect
    <3>1. UNCHANGED <<throttle_action, throttler, arrivals, now>>
      BY <2>5 DEF NoBeginString, MessageIncomplete, ConnectionLost, Connect
    <3> QED BY <2>1, <3>1, TimePasses
  <2>6. CASE UNCHANGED vars
    <3>1. UNCHANGED <<throttle_action, throttler, arrivals, now>>
      BY <2>6 DEF vars
    <3> QED BY <2>1, <3>1, TimePasses
  <2> QED BY <2>2, <2>3, <2>4, <2>5, <2>6 DEF Next
<1> QED BY <1>2, <1>3, PTL DEF Spec

-----------------------------------------------------------------------------
(* What the invariant says of sets of messages                             *)

LEMMA IntervalCounts ==
    ASSUME NEW a \in Int, NEW b \in Int, a <= b + 1, NEW S \in SUBSET (a .. b)
    PROVE  /\ IsFiniteSet(S) /\ Cardinality(S) \in Nat /\ Cardinality(S) <= b - a + 1
           /\ Cardinality(a .. b) = b - a + 1
<1>1. IsFiniteSet(a .. b) /\ Cardinality(a .. b) = IF a > b THEN 0 ELSE b - a + 1
  BY FS_Interval
<1>2. Cardinality(a .. b) = b - a + 1
  BY <1>1
<1>3. IsFiniteSet(S) /\ Cardinality(S) <= Cardinality(a .. b)
  BY <1>1, FS_Subset
<1>4. Cardinality(S) \in Nat
  BY <1>3, FS_CardinalityType
<1> QED BY <1>2, <1>3, <1>4

LEMMA LargestElement ==
    ASSUME NEW n \in Nat, NEW S \in SUBSET (1 .. n), S # {}
    PROVE  \E m \in S : \A k \in S : k <= m
<1> DEFINE R == {ss \in Nat \X Nat : ss[1] < ss[2]}
           T == {d \in Nat : n - d \in S}
<1>1. IsWellFoundedOn(R, Nat)
  BY NatLessThanWellFounded DEF OpToRel
<1>2. T \subseteq Nat /\ T # {}
  <2>1. PICK k \in S : TRUE
    OBVIOUS
  <2>2. n - k \in T
    <3>1. n - (n - k) = k /\ n - k \in Nat
      BY <2>1
    <3> QED BY <2>1, <3>1
  <2> QED BY <2>2
<1>3. \E d \in T : \A e \in T : ~(<<e, d>> \in R)
  <2> HIDE DEF R, T
  <2> QED BY <1>1, <1>2, WFMin
<1>4. PICK d \in T : \A e \in T : ~(<<e, d>> \in R)
  BY <1>3
<1>5. ASSUME NEW k \in S PROVE k <= n - d
  <2>1. n - k \in Nat /\ n - (n - k) = k /\ d \in Nat
    BY <1>2
  <2>2. n - k \in T
    BY <2>1
  <2>3. ~(n - k < d)
    BY <1>4, <2>1, <2>2
  <2> QED BY <2>1, <2>3
<1> QED BY <1>4, <1>5

(* The messages in the window of message k are the last before it: there   *)
(* are limit - 1 of them if the one limit - 1 before k is among them.      *)
LEMMA WindowCounts ==
    ASSUME Inv, NEW k \in DOMAIN arrivals, limit > 1
    PROVE  LET S == {j \in 1 .. k - 1 : arrivals[k].at - arrivals[j].event < window}
           IN  Cardinality(S) >= limit - 1
                 <=> limit <= k /\ arrivals[k].at - arrivals[k - limit + 1].event < window
<1> DEFINE S == {j \in 1 .. k - 1 : arrivals[k].at - arrivals[j].event < window}
           n == Len(arrivals)
           first == k - limit + 1
<1>1. n \in Nat /\ DOMAIN arrivals = 1 .. n /\ k \in 1 .. n
  BY ArrivalSeq DEF Inv, ThrottleTypes
<1>2. \A j \in 1 .. n : arrivals[j].at \in Nat /\ arrivals[j].event \in Nat
  BY <1>1, ArrivalSeq DEF Inv, ThrottleTypes
<1>3. limit \in Nat /\ window \in Nat
  BY ThrottlerAssumption
<1>4. \A i, j \in 1 .. n : i < j => arrivals[i].event <= arrivals[j].event
  <2> TAKE i, j \in 1 .. n
  <2> HAVE i < j
  <2>1. arrivals[i].event <= arrivals[j].at /\ arrivals[j].at <= arrivals[j].event
    BY <1>1 DEF Inv, Timeline
  <2> QED BY <1>2, <2>1
<1> HIDE DEF n
<1>5. S \in SUBSET (1 .. k - 1)
  OBVIOUS
<1>6. CASE k < limit
  <2>1. Cardinality(S) \in Nat /\ Cardinality(S) <= k - 1
    <3> HIDE DEF S
    <3>1. 1 \in Int /\ k - 1 \in Int /\ 1 <= (k - 1) + 1
      BY <1>1
    <3>2. Cardinality(S) \in Nat /\ Cardinality(S) <= (k - 1) - 1 + 1
      BY <1>5, <3>1, IntervalCounts
    <3> QED BY <1>1, <3>2
  <2> HIDE DEF S
  <2>2. ~(Cardinality(S) >= limit - 1) /\ ~(limit <= k)
    BY <1>1, <1>3, <1>6, <2>1
  <2> QED BY <2>2 DEF S
<1>7. CASE limit <= k /\ arrivals[k].at - arrivals[first].event < window
  <2>1. first \in 1 .. k - 1 /\ first .. k - 1 \subseteq 1 .. k - 1
    BY <1>1, <1>3, <1>7
  <2>2. first .. k - 1 \subseteq S
    <3> SUFFICES ASSUME NEW j \in first .. k - 1 PROVE j \in S
      OBVIOUS
    <3>1. j \in 1 .. n /\ first \in 1 .. n /\ j \in 1 .. k - 1
      BY <1>1, <2>1
    <3>2. arrivals[first].event <= arrivals[j].event
      <4>1. CASE first = j
        BY <1>2, <3>1, <4>1
      <4>2. CASE first < j
        BY <1>4, <3>1, <4>2
      <4> QED BY <1>1, <1>3, <3>1, <4>1, <4>2
    <3>3. arrivals[k].at - arrivals[j].event < window
      <4> DEFINE x == arrivals[k].at
                 y == arrivals[first].event
                 z == arrivals[j].event
      <4>1. x \in Nat /\ y \in Nat /\ z \in Nat /\ y <= z /\ x - y < window
        BY <1>1, <1>2, <1>7, <3>1, <3>2
      <4> HIDE DEF x, y, z
      <4>2. x - z < window
        BY <1>3, <4>1
      <4> QED BY <4>2 DEF x, z
    <3> QED BY <3>1, <3>3
  <2> HIDE DEF S
  <2>3. IsFiniteSet(S) /\ Cardinality(S) \in Nat
    <3>1. 1 \in Int /\ k - 1 \in Int /\ 1 <= (k - 1) + 1
      BY <1>1
    <3> QED BY <1>5, <3>1, IntervalCounts
  <2>4. Cardinality(first .. k - 1) = limit - 1
    <3>1. first \in Int /\ k - 1 \in Int /\ first <= (k - 1) + 1
      BY <1>1, <1>3, <1>7
    <3>2. Cardinality(first .. k - 1) = (k - 1) - first + 1
      BY <3>1, IntervalCounts
    <3> QED BY <1>1, <1>3, <3>2
  <2>5. Cardinality(first .. k - 1) <= Cardinality(S)
    BY <2>2, <2>3, FS_Subset
  <2>6. Cardinality(S) >= limit - 1
    BY <1>3, <2>3, <2>4, <2>5
  <2> QED BY <1>7, <2>6 DEF S
<1>8. CASE limit <= k /\ ~(arrivals[k].at - arrivals[first].event < window)
  <2>1. first \in 1 .. k - 1
    BY <1>1, <1>3, <1>8
  <2>2. S \in SUBSET (first + 1 .. k - 1)
    <3> SUFFICES ASSUME NEW j \in S PROVE j \in first + 1 .. k - 1
      OBVIOUS
    <3>1. j \in 1 .. n /\ first \in 1 .. n /\ j \in 1 .. k - 1
      BY <1>1, <2>1
    <3>2. CASE j <= first
      <4>1. arrivals[j].event <= arrivals[first].event
        <5>1. CASE first = j
          BY <1>2, <3>1, <5>1
        <5>2. CASE j < first
          BY <1>4, <3>1, <5>2
        <5> QED BY <3>1, <3>2, <5>1, <5>2
      <4> DEFINE x == arrivals[k].at
                 y == arrivals[first].event
                 z == arrivals[j].event
      <4>2. x \in Nat /\ y \in Nat /\ z \in Nat /\ z <= y /\ ~(x - y < window) /\ x - z < window
        BY <1>1, <1>2, <1>8, <3>1, <4>1
      <4> HIDE DEF x, y, z
      <4> QED BY <1>3, <4>2
    <3> QED BY <3>1, <3>2
  <2> HIDE DEF S
  <2>3. Cardinality(S) \in Nat /\ Cardinality(S) <= limit - 2
    <3>1. first + 1 \in Int /\ k - 1 \in Int /\ first + 1 <= (k - 1) + 1
      BY <1>1, <1>3, <1>8
    <3>2. Cardinality(S) \in Nat /\ Cardinality(S) <= (k - 1) - (first + 1) + 1
      BY <2>2, <3>1, IntervalCounts
    <3> QED BY <1>1, <1>3, <3>2
  <2>4. ~(Cardinality(S) >= limit - 1)
    BY <1>3, <2>3
  <2> QED BY <1>8, <2>4 DEF S
<1> QED BY <1>1, <1>3, <1>6, <1>7, <1>8

(* The messages of a window that went on are fewer than limit: the last of *)
(* them and the one limit - 1 before it do not fit into one window.        *)
LEMMA WindowBounded ==
    ASSUME Inv, limit > 1, NEW t \in Nat
    PROVE  Cardinality({k \in DOMAIN arrivals :
               WentOn(k) /\ arrivals[k].event \in t .. t + window - 1}) < limit
<1> DEFINE W == {k \in DOMAIN arrivals :
                    WentOn(k) /\ arrivals[k].event \in t .. t + window - 1}
           n == Len(arrivals)
<1>1. n \in Nat /\ DOMAIN arrivals = 1 .. n
  BY ArrivalSeq DEF Inv, ThrottleTypes
<1>2. \A j \in 1 .. n : arrivals[j].at \in Nat /\ arrivals[j].event \in Nat
  BY <1>1, ArrivalSeq DEF Inv, ThrottleTypes
<1>3. limit \in Nat /\ window \in Nat
  BY ThrottlerAssumption
<1>4. W \in SUBSET (1 .. n)
  BY <1>1
<1> HIDE DEF n
<1>5. CASE W = {}
  BY <1>3, <1>5, FS_EmptySet
<1>6. CASE W # {}
  <2>1. PICK m \in W : \A k \in W : k <= m
    <3> HIDE DEF W
    <3> QED BY <1>1, <1>4, <1>6, LargestElement
  <2>2. W \in SUBSET (m - limit + 2 .. m)
    <3> SUFFICES ASSUME NEW j \in W, j < m - limit + 2 PROVE FALSE
      BY <1>1, <1>3, <1>4, <2>1
    <3> DEFINE first == m - limit + 1
    <3>1. /\ j \in 1 .. n /\ m \in 1 .. n /\ first \in 1 .. n
          /\ j <= first /\ limit <= m
      BY <1>1, <1>3, <1>4, <2>1
    <3>2. arrivals[first].event + window <= arrivals[m].event
      <4>1. throttle_action = "WAIT" \/ ~arrivals[m].stopped
        BY <2>1 DEF WentOn
      <4> QED BY <1>1, <3>1, <4>1 DEF Inv, Spaced
    <3>3. arrivals[j].event <= arrivals[first].event
      <4>1. CASE j = first
        BY <1>2, <3>1, <4>1
      <4>2. CASE j < first
        <5>1. /\ arrivals[j].event <= arrivals[first].at
              /\ arrivals[first].at <= arrivals[first].event
          BY <1>1, <3>1, <4>2 DEF Inv, Timeline
        <5> QED BY <1>2, <3>1, <5>1
      <4> QED BY <1>1, <3>1, <4>1, <4>2
    <3> DEFINE x == arrivals[j].event
               y == arrivals[first].event
               z == arrivals[m].event
    <3>4. /\ x \in Nat /\ y \in Nat /\ z \in Nat /\ x <= y /\ y + window <= z
          /\ x >= t /\ z <= t + window - 1
      BY <1>2, <2>1, <3>1, <3>2, <3>3
    <3> HIDE DEF x, y, z
    <3> QED BY <1>3, <3>4
  <2>3. m \in 1 .. n
    BY <1>4, <2>1
  <2> HIDE DEF W
  <2>4. m - limit + 2 \in Int /\ m \in Int /\ m - limit + 2 <= m + 1
    BY <1>1, <1>3, <2>3
  <2>5. Cardinality(W) \in Nat /\ Cardinality(W) <= m - (m - limit + 2) + 1
    BY <2>2, <2>4, IntervalCounts
  <2>6. Cardinality(W) < limit
    BY <1>1, <1>3, <2>3, <2>5
  <2> QED BY <2>6 DEF W
<1> QED BY <1>5, <1>6

(* What the ring decides: a message is held up exactly when limit - 1      *)
(* earlier ones lie inside the window before it.                           *)
VerdictIsWindow ==
    \A k \in DOMAIN arrivals : arrivals[k].stopped <=> Cardinality(InWindow(k)) >= limit - 1

(* Throttler::update and reached_limit decide like a sliding window over   *)
(* every message of the session, for every limit and window: the ring      *)
(* never takes a wrong slot for the oldest, not when it wraps and not over *)
(* reconnects.  The monotonic clock has to be at least a window old when   *)
(* the process starts; otherwise the zeros that Throttler::initialise puts *)
(* into the ring count as messages.                                        *)
THEOREM ThrottlerDecidesLikeTheWindow ==
    ASSUME window <= StartTime
    PROVE  Spec => []VerdictIsWindow
<1>1. Inv => VerdictIsWindow
  <2> SUFFICES ASSUME Inv, NEW k \in DOMAIN arrivals
               PROVE  arrivals[k].stopped <=>
                        Cardinality({j \in 1 .. k - 1 :
                            arrivals[k].at - arrivals[j].event < window}) >= limit - 1
    BY DEF VerdictIsWindow, InWindow
  <2> DEFINE S == {j \in 1 .. k - 1 : arrivals[k].at - arrivals[j].event < window}
  <2>1. arrivals[k].stopped <=> \/ limit = 1
                                \/ limit <= k /\ arrivals[k].at - arrivals[k - limit + 1].event < window
    BY DEF Inv, Verdict
  <2>2. limit \in Nat /\ limit >= 1
    BY ThrottlerAssumption
  <2>3. CASE limit > 1
    <3>1. Cardinality(S) >= limit - 1
            <=> limit <= k /\ arrivals[k].at - arrivals[k - limit + 1].event < window
      BY <2>3, WindowCounts
    <3> HIDE DEF S
    <3>2. arrivals[k].stopped <=> Cardinality(S) >= limit - 1
      BY <2>1, <2>2, <2>3, <3>1
    <3> QED BY <3>2 DEF S
  <2>4. CASE limit = 1
    <3>1. k \in Nat /\ k >= 1
      <4>1. DOMAIN arrivals = 1 .. Len(arrivals) /\ Len(arrivals) \in Nat
        BY ArrivalSeq DEF Inv, ThrottleTypes
      <4> QED BY <4>1
    <3>2. S \in SUBSET (1 .. k - 1) /\ 1 \in Int /\ k - 1 \in Int /\ 1 <= (k - 1) + 1
      BY <3>1
    <3> HIDE DEF S
    <3>3. Cardinality(S) \in Nat
      BY <3>2, IntervalCounts
    <3>4. Cardinality(S) >= limit - 1
      BY <2>4, <3>3
    <3> QED BY <2>1, <2>4, <3>4 DEF S
  <2> QED BY <2>2, <2>3, <2>4
<1> QED BY <1>1, ThrottlerInvariance, PTL

(* No message gets past Throttler::update after throttle_limit others      *)
(* within the window, whatever became of those: for every limit and        *)
(* window, and over all connections of the session.                        *)
THEOREM ThrottlerEnforcesTheLimit ==
    ASSUME window <= StartTime
    PROVE  Spec => []LimitEnforced
<1>1. Inv /\ VerdictIsWindow => LimitEnforced
  <2> SUFFICES ASSUME Inv, VerdictIsWindow, NEW k \in DOMAIN arrivals,
                      Cardinality(InWindow(k)) >= limit
               PROVE  arrivals[k].stopped
    BY DEF LimitEnforced
  <2>1. InWindow(k) \in SUBSET (1 .. k - 1) /\ k \in Nat /\ k >= 1
    <3>1. DOMAIN arrivals = 1 .. Len(arrivals) /\ Len(arrivals) \in Nat
      BY ArrivalSeq DEF Inv, ThrottleTypes
    <3> QED BY <3>1 DEF InWindow
  <2>2. 1 \in Int /\ k - 1 \in Int /\ 1 <= (k - 1) + 1
    BY <2>1
  <2>3. Cardinality(InWindow(k)) \in Nat
    BY <2>1, <2>2, IntervalCounts
  <2>4. Cardinality(InWindow(k)) >= limit - 1
    BY <2>3, ThrottlerAssumption
  <2> QED BY <2>4 DEF VerdictIsWindow
<1> QED BY <1>1, ThrottlerInvariance, ThrottlerDecidesLikeTheWindow, PTL

(* However the messages arrive, no stretch of one window sees limit of     *)
(* them go on to the session when throttle_limit is above one: the bound   *)
(* holds at every instant, not only at the edges of fixed windows, and a   *)
(* message that waited counts where its wait ended.                        *)
THEOREM ThrottlerBoundsTheRate ==
    ASSUME window <= StartTime
    PROVE  Spec => []RateBounded
<1>1. Inv => RateBounded
  <2> SUFFICES ASSUME Inv, limit > 1, NEW t \in StartTime .. MaxTime
               PROVE  Cardinality({k \in DOMAIN arrivals :
                          WentOn(k) /\ arrivals[k].event \in t .. t + window - 1}) < limit
    BY DEF RateBounded
  <2>1. t \in Nat
    BY ReceiveAssumption
  <2> QED BY <2>1, WindowBounded
<1> QED BY <1>1, ThrottlerInvariance, PTL
=============================================================================
