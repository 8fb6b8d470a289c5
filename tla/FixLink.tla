------------------------------- MODULE FixLink -------------------------------
(***************************************************************************)
(* A FixClient and a FixServer on the two ends of one FIX session: logon,  *)
(* sequence number agreement, gap detection, ResendRequests and their      *)
(* answers (replay or gap fill), logout, loss of the connection,           *)
(* reconnection and processes that die and start again.                    *)
(*                                                                         *)
(* The transport is TCP: each direction is a first-in first-out queue that *)
(* neither loses, duplicates nor reorders while the connection lasts; when *)
(* it breaks, what is in flight is gone, although the sender has counted   *)
(* it.  Each end notices a break some time later.  Both ends take the      *)
(* sequence number rules and the answers to a ResendRequest from           *)
(* FixSession; the steps of a process() call are taken together.           *)
(***************************************************************************)
EXTENDS FixSession, Sequences

CONSTANTS
    MaxSent,            \* bound: the largest number either end sends
    MaxConnects,        \* bound: connections the client makes
    Idle,               \* ends whose application and heartbeat timer send nothing
    replay_messages,    \* setting replay_messages_on_incoming_resend_request
    max_resend_range    \* setting: replay at most this many messages

ASSUME LinkAssumption ==
    /\ MaxSent \in Nat \ {0} /\ MaxConnects \in Nat \ {0}
    /\ Idle \subseteq {"client", "server"}
    /\ replay_messages \in BOOLEAN /\ max_resend_range \in Nat \ {0}

VARIABLES
    session,     \* session[e]: the FixSession of end e
    store,       \* store[e][n]: the type of the message that e sent with number n
    wire,        \* wire[e]: the messages on their way to e, oldest first
    socket,      \* socket[e]: is e's end of the current connection open?
    broken,      \* has the current connection broken?
    peer,        \* FixServerConnectors: the connection the server's session is on
    in_logout,   \* is the client inside do_shutdown, waiting for a Logout?
    connects,    \* connections made so far
    delivered,   \* delivered[e]: numbers of the business messages e's callbacks saw
    cut          \* history: cut[e], numbers that e counted and died before handling

vars == <<session, store, wire, socket, broken, peer, in_logout, connects, delivered,
          cut>>

Ends == {"client", "server"}
Other(e) == IF e = "client" THEN "server" ELSE "client"

(* none: not connected; current; dead: an earlier connection whose end the *)
(* server has not noticed yet.                                             *)
Peers == {"none", "current", "dead"}

-----------------------------------------------------------------------------
(* What an end does in one step: its session and what it has sent, the     *)
(* numbered messages of which are also in its outgoing serialiser.         *)

Effect(s, st, out) == [s |-> s, store |-> st, out |-> out]
Start(e) == Effect(session[e], store[e], <<>>)

(* send_outgoing_message: encoded with the next number, which is counted.  *)
send_outgoing_message(x, m) ==
    LET n == x.s.outgoing_seq_no + 1
    IN  Effect([x.s EXCEPT !.outgoing_seq_no = n], Append(x.store, m.type),
               Append(x.out, [m EXCEPT !.seq = n]))

SendType(x, type) == send_outgoing_message(x, BasicMessage(type, 0))

(* A message that is repeated: load_from_buffer replaces what is not a     *)
(* business message (or Reject) by a SequenceReset to the next number,     *)
(* without a GapFillFlag.                                                  *)
Retransmission(type, n) ==
    IF type \in {"APP", "REJECT"} THEN BasicMessage(type, n)
    ELSE [BasicMessage("SEQUENCE_RESET", n) EXCEPT !.new = n + 1]

(* Mutant: the type of one message with the number of the next.            *)
resend_messages_shifted(x, begin, end) ==
    [i \in 1 .. end - begin |-> Retransmission(x.store[begin + i - 1], begin + i)]

resend_messages(x, begin, end) ==
    [i \in 1 .. end - begin + 1 |-> Retransmission(x.store[begin + i - 1], begin + i - 1)]

process_outgoing_resend_request(x) ==
    IF /\ x.s.state # "IN_RETRANSMISSION_INITIATED_BY_SELF"
       /\ x.s.needs_to_send_resend_request
    THEN LET y == send_outgoing_message(x, build_resend_request_message(x.s, 0))
         IN  [y EXCEPT !.s.state = "IN_RETRANSMISSION_INITIATED_BY_SELF",
                       !.s.needs_to_send_resend_request = FALSE]
    ELSE x

respond_to_resend_request(x) ==
    LET begin == x.s.incoming_resend_request_begin_no
        answer == IF WillReplay(x.s, replay_messages, max_resend_range, DOMAIN x.store)
                  THEN resend_messages(x, begin, x.s.outgoing_seq_no)
                  ELSE <<build_gap_fill_message(x.s, begin)>>
    IN  IF x.s.needs_responding_to_incoming_resend_request
        THEN [x EXCEPT !.s = ResendAnswered(@), !.out = @ \o answer]
        ELSE x

-----------------------------------------------------------------------------
(* Installing an effect at end e.  Sent messages reach the wire only while *)
(* the connection is whole and the other end has not closed it.            *)

Install(e, x, wires) ==
    /\ x.s.outgoing_seq_no <= MaxSent
    /\ session' = [session EXCEPT ![e] = x.s]
    /\ store' = [store EXCEPT ![e] = x.store]
    /\ wire' = IF broken \/ ~socket[Other(e)] THEN wires
               ELSE [wires EXCEPT ![Other(e)] = @ \o x.out]

Act(e, x) == Install(e, x, wire)

(* The server's session is on the current connection.                      *)
Bound == peer = "current"
Attached(e) == socket[e] /\ (e = "server" => Bound)

(* What e has not read is lost when e closes its end.                      *)
Close(e, x) ==
    /\ Install(e, [x EXCEPT !.s.state = "DISCONNECTED"], [wire EXCEPT ![e] = <<>>])
    /\ socket' = [socket EXCEPT ![e] = FALSE]
    /\ peer' = IF e = "server" THEN "none" ELSE peer

-----------------------------------------------------------------------------
(* The client's application connects again when the session is down.       *)

(* Mutant: what is left of the earlier connection is read on the new one.  *)
connect_keeping_input ==
    LET s == [reset_flags(session["client"]) EXCEPT !.state = "PENDING_LOGON"]
        x == SendType(Effect(s, store["client"], <<>>), "LOGON")
    IN  /\ ~in_logout /\ session["client"].state \in {"DISCONNECTED", "LOGGED_OUT"}
        /\ connects < MaxConnects /\ connects' = connects + 1
        /\ x.s.outgoing_seq_no <= MaxSent
        /\ session' = [session EXCEPT !["client"] = x.s]
        /\ store' = [store EXCEPT !["client"] = x.store]
        /\ wire' = [wire EXCEPT !["server"] = x.out]
        /\ socket' = [e \in Ends |-> TRUE] /\ broken' = FALSE
        /\ peer' = IF Bound THEN "dead" ELSE peer
        /\ UNCHANGED <<in_logout, delivered, cut>>

connect ==
    LET s == [reset_flags(session["client"]) EXCEPT !.state = "PENDING_LOGON"]
        x == SendType(Effect(s, store["client"], <<>>), "LOGON")
    IN  /\ ~in_logout /\ session["client"].state \in {"DISCONNECTED", "LOGGED_OUT"}
        /\ connects < MaxConnects /\ connects' = connects + 1
        /\ x.s.outgoing_seq_no <= MaxSent
        /\ session' = [session EXCEPT !["client"] = x.s]
        /\ store' = [store EXCEPT !["client"] = x.store]
        /\ wire' = [e \in Ends |-> IF e = "server" THEN x.out ELSE <<>>]
        /\ socket' = [e \in Ends |-> TRUE] /\ broken' = FALSE
        /\ peer' = IF Bound THEN "dead" ELSE peer
        /\ UNCHANGED <<in_logout, delivered, cut>>

(* process_outgoing_logon_request: the client gives up, the connection     *)
(* stays open.                                                             *)
logon_timeout ==
    /\ session["client"].state = "PENDING_LOGON"
    /\ session' = [session EXCEPT !["client"].state = "DISCONNECTED"]
    /\ UNCHANGED <<store, wire, socket, broken, peer, in_logout, connects, delivered, cut>>

(* do_shutdown of the application, not gracefully or of a session that is  *)
(* not LOGGED_ON: no Logout is sent.                                       *)
shutdown ==
    /\ ~in_logout
    /\ Close("client", Start("client"))
    /\ UNCHANGED <<broken, in_logout, connects, delivered, cut>>

(* do_shutdown(true) of a session that is: a Logout is sent and its answer *)
(* awaited.                                                                *)
begin_logout ==
    /\ ~in_logout /\ session["client"].state = "LOGGED_ON"
    /\ Act("client", [SendType(Start("client"), "LOGOUT") EXCEPT
                         !.s.state = "PENDING_LOGOUT",
                         !.s.received_logout_response = FALSE])
    /\ in_logout' = TRUE
    /\ UNCHANGED <<socket, broken, peer, connects, delivered, cut>>

(* It was answered, the connection is gone, or the wait timed out.         *)
finish_logout ==
    /\ in_logout /\ in_logout' = FALSE
    /\ Close("client", Start("client"))
    /\ UNCHANGED <<broken, connects, delivered, cut>>

-----------------------------------------------------------------------------
(* The connection                                                          *)

connection_breaks ==
    /\ ~broken /\ \E e \in Ends : socket[e]
    /\ broken' = TRUE
    /\ wire' = [e \in Ends |-> <<>>]
    /\ UNCHANGED <<session, store, socket, peer, in_logout, connects, delivered, cut>>

(* The peer's close is seen after everything it sent was read.             *)
EndOfStream(e) == broken \/ (~socket[Other(e)] /\ wire[e] = <<>>)

on_connection_lost ==
    /\ socket["client"] /\ EndOfStream("client")
    /\ session["client"].state # "DISCONNECTED"     \* process() reads nothing then
    /\ Close("client", Start("client"))
    /\ UNCHANGED <<broken, in_logout, connects, delivered, cut>>

on_client_disconnected ==
    /\ \/ /\ peer = "dead"                          \* an earlier connection
          /\ session' = [session EXCEPT !["server"].state = "DISCONNECTED"]
          /\ peer' = "none" /\ UNCHANGED <<store, wire, socket>>
       \/ /\ socket["server"] /\ EndOfStream("server")
          /\ IF Bound THEN Close("server", Start("server"))
             ELSE /\ socket' = [socket EXCEPT !["server"] = FALSE]
                  /\ UNCHANGED <<session, store, wire, peer>>
    /\ UNCHANGED <<broken, in_logout, connects, delivered, cut>>

-----------------------------------------------------------------------------
(* The process of an end ends and starts again.  The two numbers and what  *)
(* was sent are on disk; the session is new and the connection is gone.    *)
Restarted(e, incoming) ==
    /\ session' = [session EXCEPT ![e] = initialise(incoming, @.outgoing_seq_no)]
    /\ socket' = [socket EXCEPT ![e] = FALSE]
    /\ wire' = [wire EXCEPT ![e] = <<>>]
    /\ peer' = IF e = "server" THEN "none" ELSE peer
    /\ in_logout' = (e = "server" /\ in_logout)
    /\ UNCHANGED <<store, broken, connects, delivered>>

(* Between two calls of process().                                         *)
restart(e) ==
    /\ Restarted(e, session[e].incoming_seq_no)
    /\ UNCHANGED cut

(* Does process_incoming_fix_message see what arrives?                     *)
Receives(e) ==
    /\ socket[e] /\ wire[e] # <<>>
    /\ e = "client" => session[e].state # "DISCONNECTED"
    /\ e = "server" => Bound \/ ~is_state_live(session[e].state)

(* In process_incoming_fix_message, which counts a message before it looks *)
(* at its number and hands it on.                                          *)
restart_after_counting(e) ==
    /\ Receives(e)
    /\ Restarted(e, Expected(session[e]))
    /\ cut' = [cut EXCEPT ![e] = @ \cup {Expected(session[e])}]

-----------------------------------------------------------------------------
(* Receiving                                                               *)

Message1(e) == Head(wire[e])
Rest(e) == [wire EXCEPT ![e] = Tail(@)]

(* The messages that either end dispatches in the same way.                *)
Dispatch(x, m) ==
    CASE m.type = "RESEND_REQUEST" -> [x EXCEPT !.s = process_resend_request(@, m)]
      [] m.type = "SEQUENCE_RESET" ->
            IF IsBackwardReset(x.s, m) THEN SendType(x, "REJECT")
            ELSE [x EXCEPT !.s = process_incoming_sequence_reset_message(@, m)]
      [] OTHER -> x

Deliver(e, m) ==
    delivered' = IF m.type = "APP" THEN [delivered EXCEPT ![e] = Append(@, m.seq)]
                 ELSE delivered

(* FixClient::process_incoming_fix_message                                 *)
client_receive ==
    LET s == session["client"]
        m == Message1("client")
        x == [Start("client") EXCEPT !.s = Accept(s, m)]
    IN  /\ socket["client"] /\ wire["client"] # <<>> /\ s.state # "DISCONNECTED"
        /\ \/ /\ IsHigh(s, m)
              /\ Install("client", [Start("client") EXCEPT !.s =
                            queue_outgoing_resend_request(s, Expected(s), m.seq)],
                         Rest("client"))
              /\ UNCHANGED <<socket, peer, delivered>>
           \/ /\ IsLow(s, m)
              /\ Close("client", Start("client"))
              /\ UNCHANGED delivered
           \/ /\ ~IsHigh(s, m) /\ ~IsLow(s, m)
              /\ Install("client",
                    CASE m.type = "LOGON" -> [x EXCEPT !.s.state = "LOGGED_ON"]
                      [] m.type = "LOGOUT" ->
                            [x EXCEPT !.s.state = IF s.state = "PENDING_LOGON"
                                                  THEN "LOGON_REJECTED" ELSE "LOGGED_OUT",
                                      !.s.received_logout_response =
                                            @ \/ s.state # "PENDING_LOGON"]
                      [] OTHER -> Dispatch(x, m),
                    Rest("client"))
              /\ Deliver("client", m)
              /\ UNCHANGED <<socket, peer>>
        /\ UNCHANGED <<broken, in_logout, connects, cut>>

(* accept_session and process_logon_request for the first message of a     *)
(* connection.  A session that is live is not taken over.  A number that   *)
(* is too high is answered, then asked for.                                *)
Logon(m) ==
    LET s == [reset_flags(session["server"]) EXCEPT !.state = "PENDING_LOGON"]
        low == SendType(Effect(s, store["server"], <<>>), "LOGOUT")
        x == SendType(Effect([s EXCEPT !.incoming_seq_no = Expected(s)],
                             store["server"], <<>>), "LOGON")
        y == [x EXCEPT !.s.state = "LOGGED_ON"]
    IN  \/ /\ is_state_live(session["server"].state)
           /\ socket' = [socket EXCEPT !["server"] = FALSE]
           /\ wire' = [wire EXCEPT !["server"] = <<>>]
           /\ UNCHANGED <<session, store, peer>>
        \/ /\ ~is_state_live(session["server"].state)
           /\ IF IsLow(s, m) THEN Close("server", low)
              ELSE /\ Install("server",
                        IF IsHigh(s, m)
                        THEN [y EXCEPT !.s = queue_outgoing_resend_request(@,
                                                @.incoming_seq_no, m.seq)]
                        ELSE y,
                        Rest("server"))
                   /\ peer' = "current" /\ UNCHANGED socket

server_logon ==
    /\ socket["server"] /\ wire["server"] # <<>> /\ ~Bound
    /\ Logon(Message1("server"))
    /\ UNCHANGED <<broken, in_logout, connects, delivered, cut>>

(* FixServer::process_incoming_fix_message after that.                     *)
server_receive ==
    LET s == session["server"]
        m == Message1("server")
        x == [Start("server") EXCEPT !.s = Accept(s, m)]
    IN  /\ Attached("server") /\ wire["server"] # <<>>
        /\ \/ /\ IsHigh(s, m)
              /\ Install("server", [Start("server") EXCEPT !.s =
                            queue_outgoing_resend_request(s, Expected(s), m.seq)],
                         Rest("server"))
              /\ UNCHANGED <<socket, peer, delivered>>
           \/ /\ IsLow(s, m)
              /\ Close("server", Start("server"))
              /\ UNCHANGED delivered
           \/ /\ ~IsHigh(s, m) /\ ~IsLow(s, m)
              /\ Install("server",
                    IF m.type = "LOGOUT"
                    THEN [SendType(x, "LOGOUT") EXCEPT !.s.state = "LOGGED_OUT"]
                    ELSE Dispatch(x, m),
                    Rest("server"))
              /\ Deliver("server", m)
              /\ UNCHANGED <<socket, peer>>
        /\ UNCHANGED <<broken, in_logout, connects, cut>>

-----------------------------------------------------------------------------
(* process() of the client, process_session of the server                  *)

Running(e) ==
    /\ Attached(e) /\ is_state_live(session[e].state)
    /\ e = "client" => ~in_logout

process(e) ==
    /\ Running(e)
    /\ \/ session[e].needs_to_send_resend_request
       \/ session[e].needs_responding_to_incoming_resend_request
    /\ Act(e, respond_to_resend_request(process_outgoing_resend_request(Start(e))))
    /\ UNCHANGED <<socket, broken, peer, in_logout, connects, delivered, cut>>

(* No answer to the ResendRequest within the configured time.              *)
resend_request_expires(e) ==
    /\ Running(e) /\ session[e].state = "IN_RETRANSMISSION_INITIATED_BY_SELF"
    /\ Close(e, Start(e))
    /\ UNCHANGED <<broken, in_logout, connects, delivered, cut>>

(* Applications send business messages only while logged on.               *)
send_business_message(e) ==
    /\ Running(e) /\ session[e].state = "LOGGED_ON" /\ e \notin Idle
    /\ Act(e, SendType(Start(e), "APP"))
    /\ UNCHANGED <<socket, broken, peer, in_logout, connects, delivered, cut>>

send_heartbeat(e) ==
    /\ Running(e) /\ e \notin Idle
    /\ Act(e, SendType(Start(e), "HEARTBEAT"))
    /\ UNCHANGED <<socket, broken, peer, in_logout, connects, delivered, cut>>

-----------------------------------------------------------------------------
Init ==
    /\ session = [e \in Ends |-> initialise(0, 0)]
    /\ store = [e \in Ends |-> <<>>] /\ wire = [e \in Ends |-> <<>>]
    /\ socket = [e \in Ends |-> FALSE] /\ broken = FALSE /\ peer = "none"
    /\ in_logout = FALSE /\ connects = 0
    /\ delivered = [e \in Ends |-> <<>>] /\ cut = [e \in Ends |-> {}]

Next ==
    \/ connect \/ logon_timeout \/ shutdown \/ begin_logout \/ finish_logout
    \/ connection_breaks \/ on_connection_lost \/ on_client_disconnected
    \/ client_receive \/ server_logon \/ server_receive
    \/ \E e \in Ends :
        \/ process(e) \/ resend_request_expires(e)
        \/ restart(e) \/ restart_after_counting(e)
        \/ send_business_message(e) \/ send_heartbeat(e)

Spec == Init /\ [][Next]_vars

-----------------------------------------------------------------------------
(* Properties                                                              *)

TypeOK ==
    /\ session \in [Ends -> Session]
    /\ store \in [Ends -> Seq(MsgType)]
    /\ wire \in [Ends -> Seq(Message)]
    /\ socket \in [Ends -> BOOLEAN] /\ broken \in BOOLEAN /\ peer \in Peers
    /\ in_logout \in BOOLEAN /\ connects \in 0 .. MaxConnects
    /\ delivered \in [Ends -> Seq(Nat)] /\ cut \in [Ends -> SUBSET Nat]

(* Business messages reach the callbacks of the other end in the order of  *)
(* their numbers and never twice: although replays repeat messages that    *)
(* are also still in flight, connections break, processes die and sessions *)
(* log on again, the sequence number rules of process_incoming_fix_message *)
(* let each number through once.                                           *)
ExactlyOnceInOrder ==
    \A e \in Ends : \A i, j \in DOMAIN delivered[e] :
        i < j => delivered[e][i] < delivered[e][j]

(* Each direction of the session implements BusinessChannel: over broken   *)
(* connections, replays, gap fills and processes that die, the callbacks   *)
(* see only messages that the other end sent under that number as business *)
(* messages, in their order and at most once, and no end ever gives a      *)
(* number to a second message.                                             *)
ToClient == INSTANCE BusinessChannel
                WITH sent <- store["server"], delivered <- delivered["client"]
ToServer == INSTANCE BusinessChannel
                WITH sent <- store["client"], delivered <- delivered["server"]
ImplementsChannels == ToClient!Spec /\ ToServer!Spec

(* With replays on, a number is not counted as received without its        *)
(* business message having been handed to the callbacks: what the gap      *)
(* detection lets through is what the peer sent.  The exceptions are       *)
(* numbers that an end counted when its process died in the handler, and   *)
(* an end that answered a SequenceReset with a Reject: the rejected        *)
(* message took the number of another one.                                 *)
NoSilentLoss ==
    \A e \in Ends : (\A n \in DOMAIN store[e] : store[e][n] # "REJECT") =>
        \A n \in DOMAIN store[Other(e)] :
            n <= session[e].incoming_seq_no /\ n \notin cut[e] /\ store[Other(e)][n] = "APP"
                => \E i \in DOMAIN delivered[e] : delivered[e][i] = n

(* With gap fills, neither end believes that it has received more messages *)
(* than the other has sent: if it did, the next message would be taken for *)
(* a repeated one and end the session.  Only a process that died between   *)
(* counting a repeated message and giving its number back does.            *)
NeverAhead ==
    \A e \in Ends :
        session[Other(e)].outgoing_seq_no + 1 .. session[e].incoming_seq_no \subseteq cut[e]

(* Both ends have the current connection open and it is whole.             *)
Whole == socket["client"] /\ socket["server"] /\ ~broken

(* The two ends agree on which connection carries the session: a client    *)
(* that is live on a whole connection is bound to it at the server too, so *)
(* nothing left over from an earlier connection can log it on.             *)
LoggedOnTogether == Whole /\ is_state_live(session["client"].state) => Bound

(* session_state.h says of PENDING_LOGON: "Logon message sent, awaiting    *)
(* logon response."  While the client waits on a whole connection with     *)
(* nothing in flight, the response is still to come: the server's session  *)
(* is not logged on yet.                                                   *)
AwaitingLogonResponse ==
    /\ session["client"].state = "PENDING_LOGON" /\ Whole
    /\ \A e \in Ends : wire[e] = <<>>
    => ~(Bound /\ is_state_live(session["server"].state))
=============================================================================
