------------------------------ MODULE FixClient ------------------------------
(***************************************************************************)
(* fix_client.h over tcp_connector.h: one initiating FIX session, driven   *)
(* by a thread that calls process() again and again and, between two       *)
(* calls, whatever the application decides: connect, send, shut down.      *)
(*                                                                         *)
(* process() is one action per function it calls, in the order in which it *)
(* calls them; pc says which one is next.  process() reads the session's   *)
(* state ONCE, at its start, and keeps what it read in the local variable  *)
(* session_state while the functions it calls change the state.            *)
(*                                                                         *)
(* The peer is any FIX peer: it may send every kind of message with every  *)
(* sequence number.  Timers are abstracted to whether they have expired    *)
(* when they are looked at.                                                *)
(***************************************************************************)
EXTENDS FixSession

CONSTANTS
    MaxSeqNo,          \* bound: the largest sequence number the peer uses
    SeqNoModulus,      \* outgoing numbers are counted modulo this (2^32 in the code)
    send_try_count,    \* setting: attempts of one send, 0 means infinitely many
    HasSecondary,      \* setting: a secondary endpoint is configured
    LogonResets,       \* setting: the Logon carries 141=Y, reset sequence numbers
    ConformingPeer     \* the peer's SequenceResets announce a higher number

ASSUME ClientAssumption ==
    /\ MaxSeqNo \in Nat \ {0} /\ SeqNoModulus \in Nat \ {0}
    /\ send_try_count \in Nat
    /\ HasSecondary \in BOOLEAN /\ LogonResets \in BOOLEAN
    /\ ConformingPeer \in BOOLEAN

VARIABLES
    session,         \* m_session
    socket,          \* TCPConnector's descriptor: see Sockets
    endpoints,       \* m_connected_to_primary, m_connected_to_secondary
    is_ha_primary,   \* m_is_ha_primary
    pc,              \* what the thread does next
    session_state,   \* process(): the state when it was called
    after_logout,    \* which caller a graceful do_shutdown returns to
    covered          \* history: the peer's numbers that were handled or skipped
                     \* by a SequenceReset, or that an operator vouched for

vars == <<session, socket, endpoints, is_ha_primary, pc, session_state,
          after_logout, covered>>

(* closed: no descriptor; broken: a descriptor whose connection is lost or *)
(* was never made; open: connected, as far as this end knows.              *)
Sockets == {"closed", "broken", "open"}

PassSteps == {"incoming", "admin", "resend_request", "test_request",
              "respond_resend", "respond_test", "heartbeat", "schedule",
              "logon_timeout"}

(* What the peer may send.                                                 *)
ResendRequest(n, ok) ==
    [BasicMessage("RESEND_REQUEST", n) EXCEPT !.begin = 1, !.tags_ok = ok]

SequenceReset(n, gap_fill, new, ok) ==
    [BasicMessage("SEQUENCE_RESET", n)
        EXCEPT !.gap_fill = gap_fill, !.new = new, !.tags_ok = ok]

PeerMessage ==
    {BasicMessage(t, n) : t \in {"APP", "TEST_REQUEST", "REJECT", "LOGON", "LOGOUT"},
                          n \in 1 .. MaxSeqNo}
    \cup {ResendRequest(n, ok) : n \in 1 .. MaxSeqNo, ok \in BOOLEAN}
    \cup {SequenceReset(n, g, w, ok) : n \in 1 .. MaxSeqNo, g \in BOOLEAN,
                                      w \in 0 .. MaxSeqNo + 1, ok \in BOOLEAN}

(* A peer that follows the protocol resets to a number that was not used.  *)
Conforms(m) ==
    m.type = "SEQUENCE_RESET" => m.tags_ok /\ m.new > Expected(session)

AdminCommand ==
    [type : {"SET_INCOMING_SEQUENCE_NUMBER", "SET_OUTGOING_SEQUENCE_NUMBER",
             "SEND_SEQUENCE_RESET"}, arg : 0 .. MaxSeqNo]
    \cup [type : {"DISABLE_SESSION", "ENABLE_SESSION"}, arg : {0}]
    \cup [type : {"SET_IS_HA_PRIMARY_INSTANCE"}, arg : {0, 1}]

-----------------------------------------------------------------------------
(* The transport                                                           *)

(* What TCPConnector::send can end with.  On a closed descriptor the error *)
(* is not one of those that mean "connection lost", so that send tries     *)
(* again, send_try_count times or for ever.                                *)
SendOutcomes ==
    CASE socket = "open"   -> {"sent", "lost"}
                                \cup (IF send_try_count > 0 THEN {"failed"} ELSE {})
      [] socket = "broken" -> {"lost"}
      [] socket = "closed" -> IF send_try_count > 0 THEN {"failed"} ELSE {"stuck"}

(* on_connection_lost: the session is disconnected, the descriptor is kept.*)
on_connection_lost(s) == [s EXCEPT !.state = "DISCONNECTED"]

(* send_bytes<true> with outcome o.                                        *)
send_bytes(s, o) ==
    CASE o = "sent" -> [s EXCEPT !.outgoing_seq_no = (@ + 1) % SeqNoModulus]
      [] o = "lost" -> on_connection_lost(s)
      [] OTHER      -> s

(* send_bytes<false>: replays, gap fills and sequence resets.              *)
send_uncounted(s, o) == IF o = "lost" THEN on_connection_lost(s) ELSE s

(* Mutant: the lost connection is not reported to the client.              *)
ContinueUnnoticed(o, s, next) ==
    /\ pc' = IF o = "stuck" THEN "stuck" ELSE next
    /\ session' = IF o = "stuck" THEN session ELSE s
    /\ socket' = IF o = "lost" THEN "broken" ELSE socket
    /\ UNCHANGED endpoints

(* The thread continues at next with session s, unless it never returns    *)
(* from the send.                                                          *)
Continue(o, s, next) ==
    /\ pc' = IF o = "stuck" THEN "stuck" ELSE next
    /\ session' = IF o = "stuck" THEN session ELSE s
    /\ socket' = IF o = "lost" THEN "broken" ELSE socket
    /\ endpoints' = IF o = "lost" THEN {} ELSE endpoints

Proceed(s, next) ==
    /\ pc' = next /\ session' = s
    /\ UNCHANGED <<socket, endpoints>>

-----------------------------------------------------------------------------
(* do_shutdown                                                             *)

(* What is left of it when no Logout is exchanged.                         *)
ShutDownNow(s, next) ==
    /\ session' = [s EXCEPT !.state = "DISCONNECTED"]
    /\ socket' = "closed" /\ endpoints' = {}
    /\ pc' = next
    /\ UNCHANGED after_logout

(* on_connection_lost() comes first and marks the session disconnected;    *)
(* then the Logout is sent and its answer awaited.                         *)
BeginLogout(caller) ==
    \E o \in SendOutcomes :
        LET s == [on_connection_lost(session) EXCEPT !.received_logout_response = FALSE]
        IN  /\ session' = IF o = "stuck" THEN s
                          ELSE [send_bytes(s, o) EXCEPT !.state = "PENDING_LOGOUT"]
            /\ pc' = IF o = "stuck" THEN "stuck" ELSE "logout_wait"
            /\ socket' = IF o = "lost" THEN "broken" ELSE socket
            /\ endpoints' = {}
            /\ after_logout' = caller

do_shutdown(graceful, caller, next) ==
    IF graceful /\ session.state = "LOGGED_ON"
    THEN BeginLogout(caller)
    ELSE ShutDownNow(session, next)

-----------------------------------------------------------------------------
(* connect(), called by the application                                    *)

connect_failed ==
    /\ pc = "idle" /\ session.state # "DISABLED"
    /\ session' = [reset_flags(session) EXCEPT !.state = "DISCONNECTED"]
    /\ socket' = "broken"
    /\ endpoints' = {}
    /\ UNCHANGED <<is_ha_primary, pc, session_state, after_logout, covered>>

(* The primary is tried first; each flag is assigned when its endpoint is  *)
(* tried, so a success on the primary leaves the secondary's flag alone.   *)
EndpointFlags(e) ==
    IF e = "primary" THEN endpoints \cup {"primary"} ELSE {"secondary"}

connect(e) ==
    /\ pc = "idle" /\ session.state # "DISABLED"
    /\ e = "primary" \/ HasSecondary
    /\ \E o \in {"sent", "lost"} \cup (IF send_try_count > 0 THEN {"failed"} ELSE {}) :
        LET s == [reset_flags(session) EXCEPT !.state = "PENDING_LOGON"]
        IN  /\ session' = send_bytes(IF LogonResets THEN reset_numbers(s) ELSE s, o)
            /\ socket' = IF o = "lost" THEN "broken" ELSE "open"
            /\ endpoints' = IF o = "lost" THEN {} ELSE EndpointFlags(e)
    /\ covered' = IF LogonResets THEN {} ELSE covered
    /\ UNCHANGED <<is_ha_primary, pc, session_state, after_logout>>

-----------------------------------------------------------------------------
(* Other calls of the application: it sends business messages only on a    *)
(* session that is logged on.                                              *)

send_outgoing_message ==
    /\ pc = "idle" /\ session.state = "LOGGED_ON"
    /\ \E o \in SendOutcomes : Continue(o, send_bytes(session, o), "idle")
    /\ UNCHANGED <<is_ha_primary, session_state, after_logout, covered>>

shutdown(graceful) ==
    /\ pc = "idle"
    /\ do_shutdown(graceful, "shutdown", "idle")
    /\ UNCHANGED <<is_ha_primary, session_state, covered>>

(* The process ends at any point and starts again on its sequence store.   *)
restart(starts_as_primary) ==
    /\ session' = [initialise(session.incoming_seq_no, session.outgoing_seq_no)
                      EXCEPT !.state = IF starts_as_primary THEN @ ELSE "DISABLED"]
    /\ is_ha_primary' = starts_as_primary
    /\ socket' = "closed" /\ endpoints' = {}
    /\ pc' = "idle"
    /\ UNCHANGED <<session_state, after_logout, covered>>

-----------------------------------------------------------------------------
(* process()                                                               *)

process ==
    /\ pc = "idle"
    /\ session_state' = session.state
    /\ pc' = IF session.state \in {"DISABLED", "DISCONNECTED"}
             THEN "admin" ELSE "incoming"
    /\ UNCHANGED <<session, socket, endpoints, is_ha_primary, after_logout, covered>>

(* on_data_ready and process_rx_buffer: the messages of one receive are    *)
(* handled one after the other, until one of them ends the session.  The   *)
(* same happens while do_shutdown waits for the answer to its Logout.      *)
CanReceive ==
    /\ pc \in {"incoming", "logout_wait"}
    /\ socket # "closed" /\ session.state # "DISCONNECTED"

(* Any message, valid or not, satisfies an outstanding test request.       *)
Heard == [session EXCEPT !.expecting_response_for_outgoing_test_request = FALSE]

receive_invalid ==
    /\ CanReceive
    /\ \/ Proceed(Heard, pc)                                     \* dropped
       \/ \E o \in SendOutcomes : Continue(o, send_bytes(Heard, o), pc)
    /\ UNCHANGED <<is_ha_primary, session_state, after_logout, covered>>

receive_high(m) ==
    /\ CanReceive /\ IsHigh(session, m)
    /\ Proceed(queue_outgoing_resend_request(Heard, Expected(session), m.seq), pc)
    /\ UNCHANGED <<is_ha_primary, session_state, after_logout, covered>>

receive_low(m) ==
    /\ CanReceive /\ IsLow(session, m)
    /\ ShutDownNow(Heard, pc)
    /\ UNCHANGED <<is_ha_primary, session_state, covered>>

(* The message types that change the session.                              *)
Dispatch(s, m) ==
    CASE m.type \in {"APP", "HEARTBEAT"} -> s
      [] m.type = "TEST_REQUEST" -> process_test_request_message(s)
      [] m.type = "RESEND_REQUEST" -> process_resend_request(s, m)
      [] m.type = "REJECT" ->
            [s EXCEPT !.state = IF @ = "PENDING_LOGON" THEN "LOGON_REJECTED" ELSE @]
      [] m.type = "LOGON" -> [s EXCEPT !.state = "LOGGED_ON"]
      [] m.type = "LOGOUT" ->
            IF s.state = "PENDING_LOGON"
            THEN [s EXCEPT !.state = "LOGON_REJECTED"]
            ELSE [s EXCEPT !.state = "LOGGED_OUT", !.received_logout_response = TRUE]
      [] m.type = "SEQUENCE_RESET" -> process_incoming_sequence_reset_message(s, m)

receive_accepted(m) ==
    LET s == Accept(Heard, m)
        rejected == m.type = "SEQUENCE_RESET" /\ IsBackwardReset(s, m)
    IN  /\ CanReceive /\ ~IsHigh(session, m) /\ ~IsLow(session, m)
        /\ Expected(session) <= MaxSeqNo
        /\ ConformingPeer => Conforms(m)
        /\ IF rejected
           THEN \E o \in SendOutcomes : Continue(o, send_bytes(s, o), pc)
           ELSE Proceed(Dispatch(s, m), pc)
        /\ covered' = covered
              \cup (IF is_a_hard_sequence_reset_message(m) THEN {} ELSE {m.seq})
              \cup (IF m.type = "SEQUENCE_RESET" /\ m.tags_ok /\ ~rejected
                    THEN 1 .. m.new - 1 ELSE {})
        /\ UNCHANGED <<is_ha_primary, session_state, after_logout>>

process_incoming_fix_message(m) ==
    receive_high(m) \/ receive_low(m) \/ receive_accepted(m)

(* The peer closed the connection, or it broke.                            *)
connection_lost ==
    /\ CanReceive
    /\ session' = on_connection_lost(session)
    /\ socket' = "broken" /\ endpoints' = {}
    /\ UNCHANGED <<is_ha_primary, pc, session_state, after_logout, covered>>

end_of_receive ==
    /\ pc = "incoming" /\ pc' = "admin"
    /\ UNCHANGED <<session, socket, endpoints, is_ha_primary, session_state,
                   after_logout, covered>>

(* Mutant: nobody looks at the logon timeout.                              *)
RestOfPassWithoutTimeout ==
    IF is_state_live(session_state) THEN "resend_request" ELSE "idle"

(* process() decides by the state it read at its start.                    *)
RestOfPass ==
    IF is_state_live(session_state) THEN "resend_request"
    ELSE IF session_state = "PENDING_LOGON" THEN "logon_timeout"
    ELSE "idle"

-----------------------------------------------------------------------------
(* process_admin_commands: at most one command of the queue per call       *)

no_admin_command ==
    /\ pc = "admin" /\ pc' = RestOfPass
    /\ UNCHANGED <<session, socket, endpoints, is_ha_primary, session_state,
                   after_logout, covered>>

set_sequence_number(c) ==
    /\ \/ /\ c.type = "SET_INCOMING_SEQUENCE_NUMBER"
          /\ Proceed([session EXCEPT !.incoming_seq_no = c.arg], RestOfPass)
          /\ covered' = 1 .. c.arg
       \/ /\ c.type = "SET_OUTGOING_SEQUENCE_NUMBER"
          /\ Proceed([session EXCEPT !.outgoing_seq_no = c.arg % SeqNoModulus], RestOfPass)
          /\ UNCHANGED covered
    /\ UNCHANGED <<is_ha_primary, after_logout>>

send_sequence_reset(c) ==
    /\ c.type = "SEND_SEQUENCE_RESET"
    /\ IF session.state = "LOGGED_ON"
       THEN \E o \in SendOutcomes :
               Continue(o, send_uncounted([session EXCEPT
                               !.outgoing_seq_no = c.arg % SeqNoModulus], o), RestOfPass)
       ELSE Proceed(session, RestOfPass)
    /\ UNCHANGED <<is_ha_primary, after_logout, covered>>

(* disable_session: a Logout is exchanged first when the session is live.  *)
disable_session ==
    \/ /\ session.state = "LOGGED_ON"
       /\ BeginLogout("disable")
    \/ /\ session.state # "LOGGED_ON"
       /\ session' = [session EXCEPT !.state = "DISABLED"]
       /\ pc' = RestOfPass
       /\ IF is_state_live(session.state)
          THEN socket' = "closed" /\ endpoints' = {}
          ELSE UNCHANGED <<socket, endpoints>>
       /\ UNCHANGED after_logout

enable_session ==
    Proceed([session EXCEPT !.state = IF @ = "DISABLED" THEN "DISCONNECTED" ELSE @],
            RestOfPass)

set_enabled(c) ==
    /\ \/ /\ c.type = "DISABLE_SESSION"
          /\ disable_session /\ UNCHANGED is_ha_primary
       \/ /\ c.type = "ENABLE_SESSION"
          /\ IF is_ha_primary THEN enable_session ELSE Proceed(session, RestOfPass)
          /\ UNCHANGED <<is_ha_primary, after_logout>>
       \/ /\ c.type = "SET_IS_HA_PRIMARY_INSTANCE"
          /\ is_ha_primary' = (c.arg = 1)
          /\ IF c.arg = 1 THEN enable_session /\ UNCHANGED after_logout
             ELSE disable_session
    /\ UNCHANGED covered

process_admin_command(c) ==
    /\ pc = "admin"
    /\ set_sequence_number(c) \/ send_sequence_reset(c) \/ set_enabled(c)
    /\ UNCHANGED session_state

-----------------------------------------------------------------------------
(* The rest of process() for a session that was live when it was called    *)

(* Mutant: the timeout of the retransmission is not enforced.              *)
process_outgoing_resend_request_patient(resend_expired) ==
    /\ pc = "resend_request"
    /\ IF /\ session.state # "IN_RETRANSMISSION_INITIATED_BY_SELF"
          /\ session.needs_to_send_resend_request
       THEN \E o \in SendOutcomes :
              Continue(o, [send_bytes(session, o) EXCEPT
                              !.state = "IN_RETRANSMISSION_INITIATED_BY_SELF",
                              !.needs_to_send_resend_request = FALSE],
                       "test_request")
       ELSE Proceed(session, "test_request")
    /\ UNCHANGED <<is_ha_primary, session_state, after_logout, covered>>

(* resend_expired: outgoing_resend_request_expire_secs have passed.        *)
process_outgoing_resend_request(resend_expired) ==
    /\ pc = "resend_request"
    /\ \/ /\ session.state = "IN_RETRANSMISSION_INITIATED_BY_SELF"
          /\ IF resend_expired THEN ShutDownNow(session, "test_request")
             ELSE Proceed(session, "test_request") /\ UNCHANGED after_logout
       \/ /\ session.state # "IN_RETRANSMISSION_INITIATED_BY_SELF"
          /\ IF session.needs_to_send_resend_request
             THEN \E o \in SendOutcomes :
                    Continue(o, [send_bytes(session, o) EXCEPT
                                    !.state = "IN_RETRANSMISSION_INITIATED_BY_SELF",
                                    !.needs_to_send_resend_request = FALSE],
                             "test_request")
             ELSE Proceed(session, "test_request")
          /\ UNCHANGED after_logout
    /\ UNCHANGED <<is_ha_primary, session_state, covered>>

(* Mutant: the test request is repeated instead of giving up.              *)
process_outgoing_test_request_patient(expired) ==
    /\ pc = "test_request"
    /\ IF expired
       THEN \E o \in SendOutcomes :
              Continue(o, [send_bytes(session, o) EXCEPT
                              !.expecting_response_for_outgoing_test_request = TRUE],
                       "respond_resend")
       ELSE Proceed(session, "respond_resend")
    /\ UNCHANGED <<is_ha_primary, session_state, after_logout, covered>>

(* expired: nothing heard for the test request interval, or no answer to   *)
(* the test request for twice the heartbeat interval.                      *)
process_outgoing_test_request(expired) ==
    /\ pc = "test_request"
    /\ \/ /\ ~expired
          /\ Proceed(session, "respond_resend") /\ UNCHANGED after_logout
       \/ /\ expired /\ ~session.expecting_response_for_outgoing_test_request
          /\ \E o \in SendOutcomes :
                Continue(o, [send_bytes(session, o) EXCEPT
                                !.expecting_response_for_outgoing_test_request = TRUE],
                         "respond_resend")
          /\ UNCHANGED after_logout
       \/ /\ expired /\ session.expecting_response_for_outgoing_test_request
          /\ ShutDownNow(Heard, "respond_resend")
    /\ UNCHANGED <<is_ha_primary, session_state, covered>>

(* The replayed messages or the gap fill: the first send that is stuck     *)
(* keeps the thread, one that fails is ignored.                            *)
respond_to_resend_request ==
    /\ pc = "respond_resend"
    /\ IF session.needs_responding_to_incoming_resend_request
       THEN \E o \in SendOutcomes :
              Continue(o, ResendAnswered(send_uncounted(session, o)), "respond_test")
       ELSE Proceed(session, "respond_test")
    /\ UNCHANGED <<is_ha_primary, session_state, after_logout, covered>>

(* Mutant: the request is answered but not ticked off.                     *)
respond_to_test_request_repeatedly ==
    /\ pc = "respond_test"
    /\ IF session.needs_responding_to_incoming_test_request
       THEN \E o \in SendOutcomes : Continue(o, send_bytes(session, o), "heartbeat")
       ELSE Proceed(session, "heartbeat")
    /\ UNCHANGED <<is_ha_primary, session_state, after_logout, covered>>

respond_to_test_request ==
    /\ pc = "respond_test"
    /\ IF session.needs_responding_to_incoming_test_request
       THEN \E o \in SendOutcomes :
              Continue(o, [send_bytes(session, o) EXCEPT
                              !.needs_responding_to_incoming_test_request = FALSE],
                       "heartbeat")
       ELSE Proceed(session, "heartbeat")
    /\ UNCHANGED <<is_ha_primary, session_state, after_logout, covered>>

send_client_heartbeat(due) ==
    /\ pc = "heartbeat"
    /\ IF due THEN \E o \in SendOutcomes : Continue(o, send_bytes(session, o), "schedule")
       ELSE Proceed(session, "schedule")
    /\ UNCHANGED <<is_ha_primary, session_state, after_logout, covered>>

process_schedule_validator(is_now_valid) ==
    /\ pc = "schedule"
    /\ IF is_now_valid THEN Proceed(session, "idle") /\ UNCHANGED after_logout
       ELSE do_shutdown(TRUE, "shutdown", "idle")
    /\ UNCHANGED <<is_ha_primary, session_state, covered>>

(* process_outgoing_logon_request: the descriptor is left as it is.        *)
process_logon_timeout(expired) ==
    /\ pc = "logon_timeout"
    /\ Proceed(IF expired THEN [session EXCEPT !.state = "DISCONNECTED"] ELSE session,
               "idle")
    /\ UNCHANGED <<is_ha_primary, session_state, after_logout, covered>>

(* Mutants: the wait has no timeout; the state is left as it was.          *)
finish_logout_on_answer(timed_out) ==
    /\ pc = "logout_wait"
    /\ session.received_logout_response \/ session.state = "DISCONNECTED"
    /\ socket' = "closed" /\ endpoints' = {}
    /\ session' = [session EXCEPT !.state = IF after_logout = "disable"
                                            THEN "DISABLED" ELSE "DISCONNECTED"]
    /\ pc' = IF after_logout = "disable" THEN RestOfPass ELSE "idle"
    /\ UNCHANGED <<is_ha_primary, session_state, after_logout, covered>>

finish_logout_keeping_state(timed_out) ==
    /\ pc = "logout_wait"
    /\ timed_out \/ session.received_logout_response \/ session.state = "DISCONNECTED"
    /\ socket' = "closed" /\ endpoints' = {}
    /\ pc' = IF after_logout = "disable" THEN RestOfPass ELSE "idle"
    /\ UNCHANGED <<session, is_ha_primary, session_state, after_logout, covered>>

(* The wait of do_shutdown ends: the Logout was answered, the connection   *)
(* is gone, or the timeout has passed.  The caller then goes on.           *)
finish_logout(timed_out) ==
    /\ pc = "logout_wait"
    /\ timed_out \/ session.received_logout_response \/ session.state = "DISCONNECTED"
    /\ socket' = "closed" /\ endpoints' = {}
    /\ session' = [session EXCEPT !.state = IF after_logout = "disable"
                                            THEN "DISABLED" ELSE "DISCONNECTED"]
    /\ pc' = IF after_logout = "disable" THEN RestOfPass ELSE "idle"
    /\ UNCHANGED <<is_ha_primary, session_state, after_logout, covered>>

-----------------------------------------------------------------------------
Init ==
    \E primary \in BOOLEAN :
        /\ session = [initialise(0, 0) EXCEPT
                         !.state = IF primary THEN @ ELSE "DISABLED"]
        /\ is_ha_primary = primary
        /\ socket = "closed" /\ endpoints = {}
        /\ pc = "idle" /\ session_state = "DISCONNECTED"
        /\ after_logout = "shutdown" /\ covered = {}

(* Applications connect again when the session is down (order_router.h).   *)
Reconnects == session.state \in {"DISCONNECTED", "LOGGED_OUT"}

Application ==
    \/ Reconnects /\ connect_failed
    \/ Reconnects /\ \E e \in {"primary", "secondary"} : connect(e)
    \/ send_outgoing_message
    \/ \E graceful \in BOOLEAN : shutdown(graceful)

Restart == \E primary \in BOOLEAN : restart(primary)

Network ==
    \/ receive_invalid
    \/ \E m \in PeerMessage : process_incoming_fix_message(m)
    \/ connection_lost

Operator == \E c \in AdminCommand : process_admin_command(c)

Pass ==
    \/ process \/ end_of_receive \/ no_admin_command
    \/ \E b \in BOOLEAN :
        \/ process_outgoing_resend_request(b)
        \/ process_outgoing_test_request(b)
        \/ send_client_heartbeat(b)
        \/ process_schedule_validator(b)
        \/ process_logon_timeout(b)
        \/ finish_logout(b)
    \/ respond_to_resend_request
    \/ respond_to_test_request

Next == Application \/ Restart \/ Network \/ Operator \/ Pass

Spec == Init /\ [][Next]_vars

(* The thread keeps calling process(), and a function that was entered     *)
(* returns.  A timer that is looked at again and again while what it       *)
(* guards persists has expired at some point.                              *)
Fairness ==
    /\ WF_vars(Pass)
    /\ SF_vars(process_outgoing_resend_request(TRUE))
    /\ SF_vars(process_outgoing_test_request(TRUE))
    /\ SF_vars(process_logon_timeout(TRUE))
    /\ WF_vars(finish_logout(TRUE))

FairSpec == Spec /\ Fairness

-----------------------------------------------------------------------------
(* Properties                                                              *)

TypeOK ==
    /\ session \in Session
    /\ socket \in Sockets
    /\ endpoints \subseteq {"primary", "secondary"}
    /\ is_ha_primary \in BOOLEAN
    /\ pc \in PassSteps \cup {"idle", "logout_wait", "stuck"}
    /\ session_state \in SessionState
    /\ after_logout \in {"shutdown", "disable"}
    /\ covered \subseteq Nat

(* The stored incoming number stands for exactly the messages that were    *)
(* handled, gap filled by the peer or vouched for by the operator: none is *)
(* skipped and none is counted twice, over gaps, retransmissions, rejected *)
(* messages, shutdowns, lost connections and restarts.                     *)
InOrder == covered = 1 .. session.incoming_seq_no

(* connected_to_primary() and connected_to_secondary() are true only while *)
(* there is a connection: every way to lose or drop it clears both flags.  *)
ConnectedMeansOpen == endpoints # {} => socket = "open"

(* A logout under way is always being waited for: no path leaves a session *)
(* in PENDING_LOGOUT that nobody will close.                               *)
LogoutIsAwaited == session.state = "PENDING_LOGOUT" => pc = "logout_wait"

Live == is_state_live(session.state)

(* A retransmission that this side asked for ends: the messages arrive, or *)
(* the session is terminated after outgoing_resend_request_expire_secs.    *)
RetransmissionEnds ==
    session.state = "IN_RETRANSMISSION_INITIATED_BY_SELF" ~>
    session.state # "IN_RETRANSMISSION_INITIATED_BY_SELF"

(* What a live session owes its peer, it does or it ceases to be live: ask *)
(* for the missing messages, answer a ResendRequest, answer a TestRequest. *)
Obligations ==
    {"needs_to_send_resend_request", "needs_responding_to_incoming_resend_request",
     "needs_responding_to_incoming_test_request"}

ObligationsMet ==
    \A flag \in Obligations : Live /\ session[flag] ~> ~(Live /\ session[flag])

(* A peer that does not answer the TestRequest is noticed: no session stays *)
(* live for ever waiting for a sign of life.                               *)
SilenceDetected ==
    LET waiting == Live /\ session.expecting_response_for_outgoing_test_request
    IN  waiting ~> ~waiting

(* Neither a logon nor a logout waits for ever for its answer.             *)
LogonResolved == session.state = "PENDING_LOGON" ~> session.state # "PENDING_LOGON"
LogoutResolved == pc = "logout_wait" ~> pc # "logout_wait"

(* session_state.h says of LOGGED_ON: "Session is logged on and fully      *)
(* operational."  Between two calls of process() such a session has an     *)
(* open connection.                                                        *)
LiveOnlyWhenConnected == pc = "idle" /\ session.state = "LOGGED_ON" => socket = "open"

(* session_state.h says of DISABLED: "Session is administratively          *)
(* disabled."  Only another command, the application or a restart ends     *)
(* that, never the rest of the process() call that took the command.       *)
DisabledStaysDisabled ==
    [][session.state = "DISABLED" /\ session'.state # "DISABLED"
          => Operator \/ Restart \/ Application]_vars
=============================================================================
