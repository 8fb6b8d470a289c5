---------------------------- MODULE ReceivePath ----------------------------
(***************************************************************************)
(* The way of a message into a server session: receive and the incomplete  *)
(* buffer of the connection, the framing loop of process_rx_buffer and     *)
(* process_incoming_throttling, on connections that are lost at any byte.  *)
(* The client's way in is the same without the throttler, and its way out  *)
(* (send_bytes) is the throttler's WAIT.                                   *)
(*                                                                         *)
(* The peer sends a stream, a sequence of messages with possibly some      *)
(* noise between them, and TCP delivers it in pieces of any size.          *)
(***************************************************************************)
EXTENDS Framing, Throttler, SequencesExt

CONSTANTS
    Messages,             \* the messages the peer may send
    Noise,                \* what else may be on the wire
    Streams,              \* sequences of messages and noise
    receive_size,         \* setting
    rx_buffer_capacity,   \* setting
    StartTime,            \* of the process, on the monotonic clock
    MaxTime,              \* bound: the clock
    MaxConnections        \* bound: connections

ASSUME ReceiveAssumption ==
    /\ rx_buffer_capacity \in Nat /\ receive_size \in 1 .. rx_buffer_capacity
    /\ StartTime \in Nat /\ MaxTime \in Nat /\ MaxConnections \in Nat

(* What a peer sends as a message: it begins with "8=", its tag 10 is its  *)
(* last field and none of the fields before has that tag.                  *)
IsMessage(m) ==
    /\ m \in Seq(Byte) /\ Len(m) >= 2 /\ m[1] = "8" /\ m[2] = "="
    /\ TagLoop(m, 1) = Len(m)

ASSUME StreamAssumption ==
    /\ Messages # {} /\ \A m \in Messages : IsMessage(m)
    /\ Noise \subseteq Seq(Byte)
    /\ Streams \subseteq Seq(Messages \cup Noise)

VARIABLES
    throttle_action,   \* setting
    stream,            \* what the peer sends on this connection
    received,          \* bytes of it that were received
    incomplete,        \* the connection's incomplete buffer
    pc,                \* "idle", "parsing", "closed" or "overrun"
    buffer, read,      \* in process_rx_buffer: the buffer, the read index
    final,             \* and where the last message ends
    throttler,         \* the session's
    now,
    connections,       \* that were made
    delivered,         \* history: messages found on this connection
    arrivals           \* history: [at, event, stopped] of every message, see Arrive

connection == <<stream, received, connections>>
parsing == <<buffer, read, final>>
vars == <<throttle_action, connection, incomplete, pc, parsing, throttler, now,
          delivered, arrivals>>

Actions == {"WAIT", "REJECT", "DISCONNECT"}
Bytes == FlattenSeq(stream)

NotParsing == buffer' = <<>> /\ read' = 1 /\ final' = 0

Init ==
    /\ throttle_action \in Actions
    /\ stream \in Streams /\ received = 0
    /\ incomplete = <<>>
    /\ pc = "idle" /\ buffer = <<>> /\ read = 1 /\ final = 0
    /\ now = StartTime /\ throttler = throttler_initialise(StartTime)
    /\ connections = 1
    /\ delivered = <<>> /\ arrivals = <<>>

-----------------------------------------------------------------------------
(* on_data_ready: n bytes are received and follow the incomplete buffer,   *)
(* which has twice rx_buffer_capacity.  get_rx_buffer copies them without  *)
(* a check: beyond the buffer the program has no defined behaviour, and    *)
(* the model does not go on from there.                                    *)
on_data_ready(n) ==
    LET joined == incomplete \o SubSeq(Bytes, received + 1, received + n)
    IN  /\ pc = "idle"
        /\ received + n <= Len(Bytes)
        /\ received' = received + n
        /\ \/ /\ Len(joined) > 2 * rx_buffer_capacity
              /\ pc' = "overrun"
              /\ UNCHANGED <<incomplete, parsing>>
           \/ /\ Len(joined) <= 2 * rx_buffer_capacity /\ FinalTag10(joined) = 0
              /\ incomplete' = joined
              /\ UNCHANGED <<pc, parsing>>
           \/ /\ Len(joined) <= 2 * rx_buffer_capacity /\ FinalTag10(joined) # 0
              /\ pc' = "parsing"
              /\ buffer' = joined /\ read' = 1 /\ final' = FinalTag10(joined)
              /\ UNCHANGED incomplete
        /\ UNCHANGED <<throttle_action, stream, connections, throttler, now,
                       delivered, arrivals>>

(* Mutant: what is left is lost with the messages before it.               *)
set_incomplete_buffer_empty(from) ==
    /\ incomplete' = <<>>
    /\ pc' = "idle" /\ NotParsing

(* The loop ends and what is left from the read index waits for more.  The *)
(* code moves it to the start of the incomplete buffer with memcpy, also   *)
(* when it lies in that buffer and overlaps its destination, which C++     *)
(* leaves undefined: the model has the copy that an ascending memcpy makes.*)
set_incomplete_buffer(from) ==
    /\ incomplete' = SubSeq(buffer, from, Len(buffer))
    /\ pc' = "idle" /\ NotParsing

(* Nothing that begins a message: return, without touching the incomplete  *)
(* buffer.                                                                 *)
NoBeginString ==
    /\ pc = "parsing"
    /\ find_begin_string_position(buffer, read) = 0
    /\ pc' = "idle" /\ NotParsing
    /\ UNCHANGED <<throttle_action, connection, incomplete, throttler, now, delivered,
                   arrivals>>

(* The last "10=" belongs to a message that is not complete.               *)
MessageIncomplete ==
    LET begin == find_begin_string_position(buffer, read)
    IN  /\ pc = "parsing" /\ begin # 0
        /\ TagLoop(buffer, begin) = 0
        /\ set_incomplete_buffer(begin)
        /\ UNCHANGED <<throttle_action, connection, throttler, now, delivered, arrivals>>

(* Mutant: the bytes of the lost connection stay.                          *)
close_keeping_incomplete ==
    /\ pc' = "closed" /\ incomplete' = incomplete /\ NotParsing

(* Connector::close                                                        *)
close ==
    /\ pc' = "closed" /\ incomplete' = <<>> /\ NotParsing

(* After a message that ends at end: the next one, or the end of the loop. *)
Continue(end) ==
    \/ /\ end = Len(buffer)
       /\ incomplete' = <<>> /\ pc' = "idle" /\ NotParsing
    \/ /\ end # Len(buffer) /\ end + 1 > final
       /\ set_incomplete_buffer(end + 1)
    \/ /\ end # Len(buffer) /\ end + 1 <= final
       /\ read' = end + 1
       /\ UNCHANGED <<incomplete, pc, buffer, final>>

(* at: when the throttler saw the message; event: the time it remembers,   *)
(* which is when the message went on; stopped: it was held up.             *)
Arrive(at, event, stopped) ==
    arrivals' = Append(arrivals, [at |-> at, event |-> event, stopped |-> stopped])

(* process_incoming_throttling: the message at the read index goes on, is  *)
(* kept waiting, is rejected or closes the connection.  A sleep may take   *)
(* longer than it was asked to.                                            *)
process_incoming_throttling(end) ==
    LET updated == update(throttler, now)
    IN  \/ /\ ~reached_limit(updated)
           /\ throttler' = updated /\ Arrive(now, now, FALSE)
           /\ Continue(end)
           /\ UNCHANGED now
        \/ /\ reached_limit(updated) /\ throttle_action = "WAIT"
           /\ \E late \in 0 .. 1 :
                 /\ now + updated.wait_time + late <= MaxTime
                 /\ now' = now + updated.wait_time + late
           /\ throttler' = wait(updated, now')
           /\ Arrive(now, now', TRUE)
           /\ Continue(end)
        \/ /\ reached_limit(updated) /\ throttle_action = "REJECT"
           /\ throttler' = updated /\ Arrive(now, now, TRUE)
           /\ Continue(end)
           /\ UNCHANGED now
        \/ /\ reached_limit(updated) /\ throttle_action = "DISCONNECT"
           /\ throttler' = updated /\ Arrive(now, now, TRUE)
           /\ close
           /\ UNCHANGED now

MessageBegin == find_begin_string_position(buffer, read)
AtMessage == pc = "parsing" /\ MessageBegin # 0 /\ TagLoop(buffer, MessageBegin) # 0

ProcessMessage ==
    LET begin == MessageBegin
        end   == TagLoop(buffer, begin)
    IN  /\ AtMessage
        /\ delivered' = Append(delivered, SubSeq(buffer, begin, end))
        /\ process_incoming_throttling(end)
        /\ UNCHANGED <<throttle_action, connection>>

-----------------------------------------------------------------------------
ConnectionLost ==
    /\ pc = "idle"
    /\ close
    /\ UNCHANGED <<throttle_action, connection, throttler, now, delivered, arrivals>>

(* A client takes the slot of the connection; the throttler is the         *)
(* session's and keeps its times.                                          *)
Connect ==
    /\ pc = "closed" /\ connections < MaxConnections
    /\ connections' = connections + 1
    /\ stream' \in Streams /\ received' = 0
    /\ pc' = "idle" /\ delivered' = <<>>
    /\ UNCHANGED <<throttle_action, incomplete, parsing, throttler, now, arrivals>>

(* The clock is only read while a message is processed: that is when it    *)
(* needs to have advanced.                                                 *)
Tick ==
    /\ AtMessage
    /\ now < MaxTime /\ now' = now + 1
    /\ UNCHANGED <<throttle_action, connection, incomplete, pc, parsing, throttler,
                   delivered, arrivals>>

Next ==
    \/ \E n \in 1 .. receive_size : on_data_ready(n)
    \/ NoBeginString
    \/ MessageIncomplete
    \/ ProcessMessage
    \/ ConnectionLost
    \/ Connect
    \/ Tick

Spec == Init /\ [][Next]_vars

-----------------------------------------------------------------------------
(* The stream without the noise.                                           *)
Sifted(s) == [k \in DOMAIN s |-> IF s[k] \in Noise THEN <<>> ELSE <<s[k]>>]
Sent == FlattenSeq(Sifted(stream))

BytesUpTo(k) == Len(FlattenSeq(SubSeq(stream, 1, k)))

(* The messages of the stream of which everything was received.            *)
Complete ==
    {k \in 1 .. Len(stream) : stream[k] \notin Noise /\ BytesUpTo(k) <= received}

(* Noise that, with what may stand before it, reads like the beginning     *)
(* ("8=") or the last tag ("10=") of a message.                            *)
Misleads(x, i) ==
    /\ x[i] = "="
    /\ \/ i = 1
       \/ x[i - 1] = "8"
       \/ x[i - 1] = "0" /\ (i = 2 \/ x[i - 2] = "1")
Misleading == {x \in Noise : \E i \in DOMAIN x : Misleads(x, i)}
Clean(s) == \A k \in DOMAIN s : s[k] \notin Misleading

(* Wherever TCP cuts the stream, and whatever an earlier connection left   *)
(* behind, process_rx_buffer finds exactly the messages that were sent, in *)
(* order, and does not go back to waiting while a complete one is in the   *)
(* buffer.  Excepted are connections with noise that reads like a part of  *)
(* a message: process_rx_buffer may then begin a message in it, or return  *)
(* without keeping the bytes after it, see NoBeginString.  After an        *)
(* overrun, see BufferFits, nothing is said of what is still to come.      *)
FramesExact ==
    Clean(stream) =>
        /\ IsPrefix(delivered, Sent)
        /\ pc = "idle" => Len(delivered) = Cardinality(Complete)

(* get_rx_buffer never writes beyond the incomplete buffer unless a        *)
(* message, with the noise before it, is so large that one receive more    *)
(* does not fit: what earlier messages and earlier connections left behind *)
(* takes no room.  Nothing in the code keeps such a message out.           *)
BufferFits ==
    Clean(stream) /\ pc = "overrun" =>
        \E i, j \in 0 .. Len(stream) :
            /\ i < j /\ \A k \in i + 1 .. j - 1 : stream[k] \in Noise
            /\ (BytesUpTo(j) - BytesUpTo(i)) + receive_size > 2 * rx_buffer_capacity

(* The earlier messages in the window before message k, the rejected ones  *)
(* included, over all connections of the session.                          *)
InWindow(k) == {j \in 1 .. k - 1 : arrivals[k].at - arrivals[j].event < window}

(* A message that comes after limit others within the window is held up    *)
(* (README: "Action to take when the throttle limit is exceeded").         *)
LimitEnforced ==
    \A k \in DOMAIN arrivals : Cardinality(InWindow(k)) >= limit => arrivals[k].stopped

(* Violated: and only such a message is (README: "Maximum number of        *)
(* messages allowed within the throttle window").  The ring holds limit    *)
(* times, the one of the message itself included, so that the message      *)
(* after limit - 1 others is held up already.                              *)
HeldUpOnlyBeyondLimit ==
    \A k \in DOMAIN arrivals : arrivals[k].stopped => Cardinality(InWindow(k)) >= limit

(* In no window do more messages go on than the limit allows; the code     *)
(* even keeps the last of them back, as long as the limit is not one.      *)
WentOn(k) == throttle_action = "WAIT" \/ ~arrivals[k].stopped
RateBounded ==
    limit > 1 =>
        \A t \in StartTime .. MaxTime :
            Cardinality({k \in DOMAIN arrivals :
                WentOn(k) /\ arrivals[k].event \in t .. t + window - 1}) < limit
=============================================================================
