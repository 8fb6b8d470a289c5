# TLA+ verification of llfix

llfix is a C++ FIX engine: a `FixClient` that initiates one FIX session, a
`FixServer` that accepts many, and what they share. This directory holds TLA+
models of the session protocol, of the server's sessions and connections, of the
message log, of the receive path and of the lock-free queue they use, TLC
configurations that check them on small instances, and TLAPS proofs. Paths
below are relative to `src/include/llfix/` unless they say otherwise.

## The system

| Component | Source | State | Operations |
|---|---|---|---|
| Session | `fix_session.h`, `electronic_trading/session/session_state.h` | lifecycle state, pending obligations (answer a TestRequest, answer or send a ResendRequest), last heard/sent times | validation, sequence number rules, SequenceReset, ResendRequest, building messages |
| Sequence store | `electronic_trading/session/sequence_store.h` | number of the last message received and sent, memory mapped | increment, set, reset |
| Client | `fix_client.h` | one session, two endpoint flags, HA role | `connect`, `process`, `send_outgoing_message`, `shutdown`, administrative commands |
| Server | `fix_server.h` | sessions, tables peer index <-> session, HA role | `process_rx_buffer`, `accept_session`, `process_logon_request`, `process_session`, administrative commands |
| Transport | `core/utilities/tcp_connector.h`, `tcp_reactor.h`, `connectors.h` | sockets, receive buffers, incomplete message | connect, send with retries, receive, disconnect notifications |
| Command queue | `core/utilities/spsc_bounded_queue.h` | ring of slots, two indices and a cached copy of each | `push`, `try_push`, `try_pop` |
| Message serialiser | `electronic_trading/common/message_serialiser.h` | files of messages, index by sequence number | write, read, rebuild at start |
| Throttler, schedule | `electronic_trading/session/throttler.h`, `session_schedule_validator.h` | window of event times; days and hours | update, wait; is it a valid time? |
| Management | `management_server/` | connections of operators | parses commands, pushes them into the sessions' queues |
| Spinlock, object cache | `core/utilities/` | lock word; pool | lock/unlock; allocate |

How they interact: the application (or a thread of the client) calls
`FixClient::process()` in a loop, which reads the socket, takes one
administrative command from the queue and then does what the session's timers
and obligations demand. The server does the same for every session from its
reactor or worker threads. The management server's thread is the producer of the
command queue, the session's thread its consumer. The sequence store is memory
mapped, so the two numbers survive the process; the outgoing serialiser is what
replays are read from.

What is hard in it: the two threads on the queue; a state that is read once per
`process()` call and used after callbacks and commands changed it; TCP
connections that break at any time and are noticed late by either end; sequence
numbers that must agree over breaks, retransmissions, resets, shutdowns and
restarts; waits with timeouts that race the answer; sends that fail between two
assignments. `PROJECT.json` lists these hazards with their lines.

What makes each part correct:
* queue: no race on a slot; it is a FIFO queue; neither side waits for ever;
* client: the stored incoming number stands for exactly what was handled; flags,
  state and connection agree; every wait ends and every obligation is met;
* client and server together: each business message is handled once and in
  order; losses are repaired or announced; the ends agree on the connection;
* server: a session is on at most one connection and speaks to its own client
  only; a live session is not taken over; closing a connection touches its own
  session only; a disabled session is not revived by a Logon;
* serialiser: what is repeated is what was sent with that number, over crashes;
  the log is append only; a number is not used twice;
* framing: the messages found are those that were sent, however TCP cuts them, and
  what waits in the incomplete buffer never grows beyond the message it belongs to;
* throttler: what exceeds the limit within the window is held up, nothing else is,
  and the rate of what goes on is bounded.

## Modules

| Module | Models | Code |
|---|---|---|
| `BoundedFifo` | what callers of the queue rely on | abstract |
| `SPSCBoundedQueue` | the lock-free queue, one step per shared access | `spsc_bounded_queue.h` |
| `SPSCBoundedQueueProofs` | TLAPS proofs about it | |
| `FixSession` | session record, sequence number rules and messages, as operators | `fix_session.h`, `sequence_store.h` |
| `FixClient` | one client against an arbitrary peer, operator, application and network | `fix_client.h`, `tcp_connector.h` |
| `FixClientProofs` | TLAPS proofs about it | |
| `BusinessChannel` | what a direction of a session promises the applications | abstract |
| `FixLink` | a client and a server on the two ends of a breakable TCP connection | `fix_client.h`, `fix_server.h` |
| `FixLinkProofs` | TLAPS proofs about it | |
| `FixServer` | several sessions, their connections and tables, administration and HA role | `fix_server.h`, `tcp_reactor.h`, `connectors.h` |
| `FixServerProofs` | TLAPS proofs about it | |
| `MessageSerialiser` | the log files and their index, as operators | `message_serialiser.h` |
| `OutgoingLog` | `send_bytes`, replays, renumbering and crashes over that log and the stored number | `fix_client.h`, `fix_server.h`, `message_serialiser.h`, `sequence_store.h` |
| `OutgoingLogProofs` | TLAPS proofs about both | |
| `Framing` | where messages begin and end in a buffer, as operators | `fix_utilities.h`, `process_rx_buffer` |
| `Throttler` | the ring of event times, as operators | `throttler.h`, `ring_buffer.h` |
| `ReceivePath` | receive, incomplete buffer, framing loop and throttling on connections that are lost | `tcp_reactor.h`, `fix_server.h` |
| `ReceivePathProofs` | TLAPS proofs about its throttler | |
| `FramingProofs` | TLAPS proofs about its framing | |
| `MC...` | the modules TLC is run on | |

Who uses what: `FixClient`, `FixLink`, `FixServer` and `OutgoingLog` use
`FixSession`; `OutgoingLog` composes `MessageSerialiser` with the stored number;
`ReceivePath` composes `Framing` and `Throttler`; `SPSCBoundedQueue` implements
`BoundedFifo`; each direction of `FixLink` implements `BusinessChannel`. `FixServer` keeps sequence numbers as an input (expected, high,
low) because `FixClient` and `FixLink` model them.

Definitions whose comment says "Mutant" are deliberately wrong variants of the
definition that follows them. They are used by no specification; each documents
a plausible bug that one of the properties is known to catch.

### SPSCBoundedQueue

Variables carry the names of the C++ members. `push` starts a push; `try_push` is
three steps (`try_push_check`, `_store`, `_publish`), `try_pop` is three
(`try_pop_check`, `_read`, `_release`), because these are the accesses the other
thread can see. A load with acquire ordering may return any value the other
side's index has had since the last one this side saw (`r`, `w`), which is what
the memory model guarantees and is weaker than sequential consistency. The slots
are not atomic: `NoSlotRace` says their accesses never overlap.

### FixSession

A session is a record and an operation that changes it is an operator from
records to records, so that the client and the composed model share one
translation. Numbers are those of the last message, as in `SequenceStore`;
`Expected` is one more. `IsHigh`, `IsLow` and `Accept` are the sequence number
rules of `process_incoming_fix_message`, which client and server have in common.

### FixClient

`pc` says where the client's thread is: `idle` between two calls, one value for
each function `process()` calls in the order it calls them, `logout_wait` in the
loop of `do_shutdown`, and `stuck` in a send that retries for ever.
`session_state` is the local variable of `process()`. `socket` is what the code
can tell about its descriptor: `closed`, `broken` (a descriptor without a
connection, which later sends find out) and `open`. Every send has the outcomes
of `TCPConnector::send`; `Continue` is what follows from each. The peer
(`PeerMessage`) may send any message type with any number, missing or bad tags
included; `receive_invalid` is a message that validation drops or rejects.
Timers are nondeterministic: an expired timer is a boolean argument of the
action that looks at it. `restart` loses everything but the two numbers.
`covered` is a history variable, the peer's numbers that were handled, skipped
by the peer's own SequenceReset or vouched for by an operator.
With `ConformingPeer` TRUE a SequenceReset announces a number that was not used
before, as FIX demands: a peer that resets to a number it has used can make any
receiver skip a message.

### FixLink

Both ends are records of `FixSession`. `wire[e]` is the FIFO of messages on the
way to `e`; a break empties both. `socket[e]` is whether `e` has closed its end,
`peer` what the server's tables say: no connection, the current one, or an
earlier one whose end it has not noticed (`dead`). A connection break is noticed
by each end in a step of its own, any time later; until then sends succeed and
count. `Effect` collects what an end does in one step (session, numbered
messages kept for replay, messages to put on the wire). A `process()` call is
one step here; its inner interleaving with commands is the subject of
`FixClient`. `do_shutdown` is one step (`shutdown`) where it sends no Logout, and
`begin_logout` and `finish_logout` where it does. `accept_session`,
`process_logon_request` and the post-logon check
are one step, `Logon`. `replay_messages` chooses how ResendRequests are answered;
a repeated administrative message becomes a SequenceReset as in
`OutgoingFixMessage::load_from_buffer`. The process of either end may die and
start again: between two calls (`restart`), or inside `process_incoming_fix_message`
after it has counted a message in the memory mapped store and before it looked
at its number (`restart_after_counting`). `cut` is history, the numbers counted
that way. `NoSilentLoss` and `NeverAhead` except these numbers and are refuted by
TLC without the exception: a message that was counted and not handled is lost,
and a repeated one whose number was not given back puts an end ahead.
`ExactlyOnceInOrder` needs no exception, which is what counting first achieves.
`ImplementsChannels` says more: per direction, with what the sender stored mapped
to `sent` and what the receiver's callbacks saw to `delivered`, a step either adds
messages under new numbers, or delivers one business message that is in the
sender's store under that number and later than all before, or changes neither.

### FixServer

`server` is one record: the sessions' states and obligations, the two tables of
`FixServerConnectors`, the connected slots. `at` is what the reactor's thread is
doing: `idle`, in one of the functions that `process()` calls for a session, or
in `process_rx_buffer` with the session it looked up when it began. A send may
find the connection lost; `close_connection` then runs below the handler that
sent, changes the tables and the state, and the handler goes on. Hence the
operators return the *set* of servers a call can end with and an action takes
one of them. Closing a session that has no peer index reads the connectors at
-1, which is undefined: the model marks the server `crashed` and stops there.
The Logons that `accept_session` admits include one that `validate_fix_message`
then refuses (`LogonsOf`), which leaves the session bound and not logged on.
`identified` is history: the session a connection last logged on to.
One difference in order: `process()` visits all sessions and then the
descriptors; here visits and descriptors come in any order, which includes it.
Timers, the schedule and the throttle limit are nondeterministic inputs.

### MessageSerialiser and OutgoingLog

A log is `[files, written, records, mapped]`: the files on disk, the cursor, the
index from sequence numbers to places, whether the current file is mapped. A
file holds `FileSlots` records and a count, which `write` stores last. `send_bytes`
is four steps, because the process may die between any two: the send, the
increment of the stored number, the store of the record with its index entry,
the count. `Crash` keeps the files and the stored number (memory mapped) and
loses the rest; `Restart` rebuilds the index from the counted records. The
record goes under the number that is current when it is written, the rebuilt
index goes by tag 34: the two differ for sends that failed and for gap fills
beyond the last number. Three history sets name the numbers for which the code
promises less, and nothing else is excepted:
* `doubtful`: the record was not stored or a crash cut it short; the number was
  set back or jumped over; the index was rebuilt and the number is in
  `impostors`;
* `impostors`: the log has the number on a message that did not take it;
* `reusable`: set back, or the process died between send and increment.

### Framing, Throttler and ReceivePath

Bytes are the six that the searches tell apart. `on_data_ready` appends any
number of received bytes to the incomplete buffer; each message found is one
step, in which the throttler lets it pass, makes it wait, rejects it or closes
the connection. The incomplete buffer belongs to the connection's slot, the
throttler to the session. `StreamAssumption` says what a peer sends: a message
begins with "8=" and its only field with tag 10 is its last (`IsMessage`).
`FramesExact` excepts connections with noise that, next to whatever stands before
it, reads like the begin string or the last tag of a message (`Misleading`):
`process_rx_buffer` would begin a message there, or, if the last tag follows no
begin string, return without keeping what it had received. The run contains such
a stream, so that what it leads to is still checked by the throttler's properties.

No size of a message is assumed. `TcpReactor::get_rx_buffer` copies what was
received behind the incomplete buffer, which has twice `rx_buffer_capacity`,
without comparing the two (`tcp_reactor.h`:309; the assert at 317 is compiled
out). Where they do not fit, what follows is undefined: the connection goes to
`overrun` and the model says nothing more about it. `BufferFits` says when that
happens: only for a message that is itself too large, with the noise before it
and one more receive. `set_incomplete_buffer` moves the remainder of a buffer to
its start with `memcpy`, also where the two regions overlap (`tcp_reactor.h`:318),
which C leaves undefined; the model has the outcome of an ascending copy.

The documentation calls `throttle_limit` the maximum number of messages allowed
within the window and has the action taken when it is exceeded
(`src/README.md`:382-383). `LimitEnforced` and `HeldUpOnlyBeyondLimit` are the two
halves of this, stated over the times of all messages and not over the ring. The
code does the first and not the second.

## Runs

| Run | Instance | What it shows |
|---|---|---|
| `queue` | capacity 2, 5 pushes, 2 values; `FairSpec` | types, slot races, index order, refinement of `BoundedFifo`, every push returns, every value is taken |
| `client` | peer numbers up to 2, outgoing numbers not told apart, one send attempt, secondary endpoint; `FairSpec` | `InOrder`, endpoint flags imply a connection, a logout is always waited for; every wait and obligation ends |
| `link_replay` | 2 connections, 6 numbers per end, server application idle, replays on | at most once, in order and as sent (refinement of `BusinessChannel`), over processes that die; a loss does not go unnoticed unless a SequenceReset was rejected or an end died in the handler; ends agree on the connection |
| `link_gapfill` | 2 connections, 4 numbers per end, both applications send, gap fills | no end is ever ahead of what the other sent |
| `server` | 2 sessions (one disconnects at its rate limit, one rejects), 2 slots, starts as primary | tables are inverse and bind connected slots; a session speaks to its client; live sessions are not taken over; closures are local; a disabled session without a connection is not revived |
| `outgoing_log` | files of 2 records, 3 files, 3 messages, 3 events (crash, ResendRequest, renumbering, promotion), replays of up to 2 | index and replays are right, numbers are not used twice, the log is append only |
| `receive_path` | 5 streams of up to 4 items, 2 connections, capacity 16, receives of up to 16 bytes, limit 3 in a window of 2, clock 2..6 | framing is exact, only a message that is too large overruns the buffer, what exceeds the limit is held up, the rate is bounded |
| `throttle_limit` | as `receive_path`, limit 2 | **violated**: a message is held up although the limit is not exceeded with it |
| `client_logged_on` | as `client`, no secondary | **violated**: LOGGED_ON without a connection after a failed answer to a ResendRequest |
| `client_disabled` | as `client`, no secondary | **violated**: a session disabled by a command is re-enabled by the rest of the same `process()` call |
| `link_logon` | 2 connections, 4 numbers per end | **violated**: a Logon response with a higher number is dropped and the client waits for it until it times out |
| `server_ghost` | as `server` | **violated**: the send of the Logon response finds the connection lost, and the session is LOGGED_ON without one |

Why the bounds are enough. Queue: two slots are the least with which full, empty
and in between differ, and five pushes go round the ring twice; the theorems
cover every capacity. Client: the rules compare a number with the expected one
only by less, equal and greater, and two numbers with the successor give all
three before and after an accepted message; `InOrder` is also proved for every
bound. Outgoing numbers are counted modulo one, that is not at all, as no guard
and no property of `FixClient` looks at them; the theorems hold for every modulus. Link: a loss needs one connection to lose messages on and one to
notice it; six numbers leave room for Logon, two business messages, a
ResendRequest and what follows its answer. The two applications do not send at
the same time in `link_replay` (constant `Idle`), where answers are long; they do
in `link_gapfill`, where an answer is one message and four numbers are enough for
a message on each side of it. Server: a takeover, a late closure and a slot that is used
again need two sessions and two connections; a third of either would only repeat
what one of two does. The four throttle actions differ in what follows from
them, and `NONE` and `WAIT` lead to what a message within the limit leads to, so
that two sessions cover all four. Log: with two records per file three messages fill a
file, switch and continue; repetitions of a message go into the log too, so that
two switches happen; three events allow crash, replay and crash, or a
renumbering between two crashes. Receive path: `receive_size` is larger than
every message but one and smaller than a stream, so that a receive ends before, at and
after every byte; the streams have tags that end in `10` and in `8`, stray bytes
and a remainder of an earlier message; one message, of 28 bytes, is large enough
for an overrun to happen, the others are not; five units of time let the window of two
empty and fill again.

`CHECK_DEADLOCK FALSE`: in the client and link configurations, with the numbers
used up or an application that connects no more, the model (like the program)
may have nothing left to do; a server may stop or crash; the log and the receive
path end with their messages and connections.

## Fairness

* Queue: the session's thread calls `try_pop` in a loop and a started push loops
  until it succeeds, so every step of either thread is weakly fair; the checks
  are fair for the newest value of the index, since a store becomes visible in
  finite time. Nobody is obliged to push.
* Client: `Pass` is weakly fair, as the application must keep calling
  `process()` ("Call repeatedly", `fix_client.h`) or runs the client's thread.
  The peer, the network, operators and the application owe nothing. The timers of
  retransmission, TestRequest and logon are strongly fair: they are monotonic
  clocks compared on each pass, so a timer that is looked at again and again
  while what it guards persists has expired at some point. The wait in
  `do_shutdown` is one loop with its own clock: weakly fair. `send_try_count` is
  1 in run `client`; with 0 (retry for ever) a send on a closed descriptor
  never returns and no liveness holds.

## Proofs

`SPSCBoundedQueueProofs`, for every capacity, value set and number of pushes,
from `m_capacity \in Nat \ {0}`:
* `Invariance`: `TypeOK /\ IndexOrder` is inductive. `NoSlotRace` alone is not:
  that the two slots differ follows from the producer being less than a capacity
  ahead of a *cached* read index, which lags behind the real one, and the
  consumer being behind a cached write index. `IndexOrder` states these lags.
* `ModuloDistinct`: positions less than a capacity apart use different slots,
  from which `RaceFree`.
* `Refinement`: the queue implements `BoundedFifo`. The mapped queue is the window
  of the buffer between the two positions; `WindowExtend`, `WindowShrink` and
  `WindowUntouched` say what publishing, reading and filling a slot do to it, and
  every other step stutters.

`FixClientProofs`, for every bound on the peer's numbers, every modulus of the
outgoing ones, every number of send attempts, with or without a secondary
endpoint and number resets, from `ClientAssumption`:
* `Invariance`: the conjunction `Inv` of the four invariants of run `client` is
  inductive, with `InOrder` under `ConformingPeer`. Most operations are
  `Harmless`: they keep the incoming number and start no wait for a Logout. The
  lemmas `SendsAreHarmless` and `EditsAreHarmless` say so of the session
  operators; `ProceedInv`, `ContinueInv`, `ShutDownNowInv` and `BeginLogoutInv`
  say what the ways in which a step ends do to `Inv`. Only `connect` with
  141=Y, SET_INCOMING_SEQUENCE_NUMBER and an accepted message move the number;
  for the last, `ReceiveAcceptedInv`, the number that is counted is the number of
  the message because neither `IsHigh` nor `IsLow` held, or the message is a hard
  reset, which only a conforming peer makes cover what it skips.
* `TypeCorrect`, `NothingSkippedOrCountedTwice`, `FlagsMatchConnection` and
  `LogoutAlwaysAwaited` follow. The last needs the others' company: a send that
  never returns does not happen while a Logout is awaited, because the descriptor
  is closed only when that wait ends or the session is already disconnected.

`OutgoingLogProofs`, for every file size, number of messages, files and events
and every replay limit, from `FileAssumption` and `LogAssumption`:
* `NumbersUsedOnce` from `NumbersInv`, which adds to `NumbersNotReused` that a
  message that has left has a number at or below the stored one, or is the
  message in hand, whose number is about to be taken.
* `LogInvariant`: `LogInv` is inductive. `FilesInv` says that the cursor stands
  behind the counted records of the last file, that one more record is stored
  exactly between the last two steps of `write`, and that the index leads to
  counted records or to that one. `SendInv` says that what remains of a replay is
  in the index, without which a replay could read through a missing entry.
  `StoreShape`, `SwitchShape`, `WriteShape`, `CountShape` and `InitialiseShape` say
  what the serialiser's operations do to a log; each `Keeps` the counted records.
  `RebuiltIndex` is the one about recovery: the first record of a number exists
  (`FirstExists`, from the well-foundedness of the naturals), so the index
  rebuilt at a start leads to counted records.
* `TypeCorrect`, `IndexSound` and the action property `LogIsAppendOnly` follow.
* `ReplaysAreFaithful`: `ReplayFaithful` is not inductive, since it is silent about
  the log on disk, from which the next index is built, and about numbers that no
  message has taken yet. `FaithInv` adds both. A number up to the last one that is
  in the log (`Taken`) is `Held`: the index leads to the message that took it, and
  unless it is an impostor's number so does the first record with that number. A
  higher number is `Free`: it is not in the index, and only impostors have it in
  the log. `HandOK` says which of these the message in hand is about to change.
  `SameRecords` and `OneMoreRecord` say what a write does to first records,
  `RebuiltEntries` what the rebuilt index leads to. All of it is for numbers
  outside `doubtful`.

`FixServerProofs`, for any set of sessions, any number of slots and any throttle
actions, from `ServerAssumption`:
* `Invariance`: `Inv` is inductive. To `TablesAgree` and `SpeaksToItsClient` it
  adds what the thread in `process_rx_buffer` knows: a slot that it found without
  a session still has none (`Unidentified`), because only this thread binds slots,
  and the session it works for is not disabled without a connection
  (`Attended`). Without the first, `update` could bind a slot twice; without the
  second, the end of a handler could enable a session that a command had disabled.
* Operators return sets of servers, so each has a lemma about *every* server in its
  result: `Derived(w, v, s)`, the relation that holds between a server `w` and
  whatever a handler for session `s` makes of it when any of its sends may close
  the connection. It is reflexive and transitive, hence a handler is a chain of
  such lemmas. `accept_session` alone binds, and has its own.
* The same case analysis gives the three action properties: `Steps` shows for
  every disjunct of `Next` that `Inv` is kept, that no live session is taken, that
  closures are local and that disabled sessions are refused.

`FixLinkProofs`, for every number of messages, connections and restarts and every
replay setting and range, from `LinkAssumption`:
* `LinkInvariance`: `Inv` is inductive. The properties say what the callbacks have
  seen and what is counted, and neither is inductive: what arrives next is in
  flight, or will be sent from a store in answer to a request. `Inv` says it of
  all of these. `Flight`: every message on the wire is `Faithful`, the one that was
  sent under its number, a hard SequenceReset in place of a repeated
  administrative message, or a gap fill that starts no later than the expected
  number; and a hard reset is preceded by the numbers between the expected one
  and its own (`Chain`), so that it never jumps over a message. `RequestsOK`: a
  ResendRequest, to be sent or answered, starts no later than the expected number
  and at one that was sent. `Ledger`: every counted number stands for a message of
  the other end's store, seen by the callbacks if it is a business message and all
  requests are replayed, or was cut. `Ordered`: what the callbacks saw. `Connection`
  relates the sockets, the tables and the states.
* Sequence numbers only grow and stores are only extended (`Later`, `Extends`), so
  what holds of a message in flight holds until it arrives (`FaithfulLater`); what
  remains is one lemma per handler for what it sends and what it counts.
* `LinkImplementsChannels`: each direction implements `BusinessChannel`, step by
  step. Every action leaves an extension of both stores (`EndsKept`, proved along
  with `Inv`), which is a `Send` or a stutter (`ExtendsIsLonger`). Only the in-order
  branch of the two receive handlers delivers; there `Flight` makes the message an
  original of the sender's store, its number is the expected one, and `Ordered`
  puts it after all that was delivered (`FirstIsNext`), which is a `Deliver`.
* `DeliveredExactlyOnce`, `LinkTypeCorrect`, `LiveMeansBound` and
  `LinkImplementsChannels` hold for every setting. `ReplaysLoseNothing` assumes `replay_messages` and `MaxSent <=
  max_resend_range`: a request beyond the range is answered with a gap fill, which
  skips business messages by design. `GapFillsStayBehind` assumes
  `~replay_messages`: with replays on, a rejected SequenceReset can put an end ahead
  (see below). These are the settings of the two link runs.

`ReceivePathProofs`, for every limit, window, stream and way of cutting it, from
`ThrottlerAssumption` and `ReceiveAssumption`:
* `ThrottlerInvariance`: `Inv` is inductive: the ring holds the times of the last
  `limit` messages, each in the slot of its number modulo the limit, and old times
  elsewhere (`Ring`); times are ordered (`Timeline`); a message was held up if and
  only if the one `limit - 1` before it is in its window (`Verdict`); one that went
  on did so a window after that one (`Spaced`).
* `ThrottlerDecidesLikeTheWindow` is the code's own rule: a message is held up
  if and only if `limit - 1` others are in its window. Since times are ordered, the
  messages in a window are the last before it, and counting them is looking at one
  of them (`WindowCounts`). `ThrottlerEnforcesTheLimit` follows: a message that went
  on does not exceed the limit. That the rule also holds up messages that do not is
  the finding of run `throttle_limit`.
* `ThrottlerBoundsTheRate`: the last message of a window and the one `limit - 1`
  before it do not fit into it (`WindowBounded`), which is one message less than
  the documented maximum.
* All assume `window <= StartTime`: the monotonic clock, which starts with the
  machine, is at least one throttle window old when the process starts. Otherwise
  `initialise` fills the ring with zeros that count as messages. TLC shows the same
  (with `StartTime` below the window, messages that nothing preceded are held up).

`FramingProofs`, for all messages, noise and streams that `StreamAssumption` admits,
every receive size and every way of cutting the streams, from `ReceiveAssumption`
and `StreamAssumption`:
* What the operators compute. `FlattenSeq` chooses a recursive function; that there
  is one, and that it grows by one item at a time (`FlatSteps`), is an induction. The
  library's induction theorems take a predicate, which the provers cannot
  instantiate, so `UpTo` states induction for a *set* of numbers, from the
  well-foundedness of the naturals, and each use collects the numbers for which the
  claim holds. `TagLoopIs` and `FinalTag10Is` characterise the searches by the fields
  they look for.
* Where the bytes come from. A "8=" or a "10=" in a stream without misleading noise
  lies inside one message (`BeginInMessage`, `Tag10InMessage`). Hence in a buffer
  that begins between two items the first "8=" is the next message (`BeginFound`),
  the loop over the tags ends where that message ends, or not at all if it was cut
  (`TagsFollowed`), and the shortcut from the end of the buffer misses no complete
  message (`NothingMissed`).
* `FrameInvariance`: `FrameInv` is inductive. `FramesExact` only counts what was
  delivered; `FrameInv` says where the code is: there is an item of the stream up
  to which everything was delivered and nothing else, and the incomplete buffer, or
  the buffer from the read index on, is the stream from there to the last byte that
  was received. `NoBeginString` then cannot happen on such a stream (`FrameNoBegin`).
* `FramingIsExact` follows, and `OnlyLargeMessagesOverrun`: while a connection waits
  it holds less than the next message and the noise before it (`WaitingFits`), so
  that a receive that does not fit behind it is the fault of that message alone and
  not of what earlier messages or connections left. No size is assumed; streams
  with misleading noise are excepted, as in `FramesExact`.

Model-checked only: all liveness (`PushReturns`, `Drained` and the client's), since
fairness and ENABLED are beyond the prover. Every invariant and action property of the
passing runs has a theorem.

## Not modelled

* `FixClient`: message contents, message persistence plugins, callbacks that call
  back into the client, a crash inside a handler (which is in `FixLink` and
  `OutgoingLog`), clock values, the throttler's delay.
* `FixLink`: several sessions, administrative commands, disabled sessions,
  throttling, schedule, TestRequest timers, sends that fail, numbers reset by
  141=Y: these are in `FixServer` or `FixClient`. A crash between a send and its
  count is in `OutgoingLog`.
* `FixServer`: worker threads. They need a multithreaded transport
  (`TcpReactorScalable`) that is not in this repository; with `TcpReactor` that
  code does not compile. `stop()` from another thread is a step between two
  visits. A server that is started again after `stop()` is not modelled.
* `OutgoingLog`: a power failure, which may lose what is mapped but not on disk;
  records of different sizes other than too large.
* `ReceivePath`: `LLFIX_ENABLE_BINARY_FIELDS`, which is off by default; a sleep that
  returns early; a limit of zero, which switches the throttler off.
* Components without a module. `SessionScheduleValidator` compares the calendar
  with settings and keeps no state; the models let it answer either way at any
  time. `UserspaceSpinlock` is one atomic exchange per attempt and contended only
  under the missing transport. `ObjectCache` is a pool of one thread. The
  management server parses an operator's text; what its commands do is in
  `FixClient` and `FixServer`. Encoding and decoding, dictionaries, settings,
  logging and the OS wrappers hold no protocol state.

Most lines of the repository are in that last group and in code that is
generated: the message classes under `examples/` (the same accessors for every
field of every message), the dictionary tables, tests and benchmarks. The state
and the ordering are in the engine's headers, which the modules above follow.

Behaviours met while modelling that no property rules out: a second
ResendRequest, renewed by messages in flight behind a gap, makes the peer repeat
old numbers and the session is ended although nothing was lost; a rejected
SequenceReset consumes the number of the next message (the exception in
`NoSilentLoss`); after a logon timeout both endpoint flags can be set; a session
that is disabled while logged out but connected is enabled again by the end of
its connection; after a restart a message that was never sent may be replayed
under a number that another one took (`impostors`); noise that reads like the end
of a message makes the receiver drop bytes. They are listed as hazards that no
property covers, since the properties name these cases as their exceptions.

## Plan

Done: the queue, the client, the link, the server over a single threaded transport,
the log with crashes, framing and throttling, with the proofs above. Next:
1. Numbers reset by 141=Y and a crash between send and count in `FixLink`, which
   then needs `Later` to hold between two resets only.
2. A server that is started again after `stop()`, in `FixServer`.
