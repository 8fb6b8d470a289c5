------------------------------ MODULE FixServer ------------------------------
(***************************************************************************)
(* fix_server.h over tcp_reactor.h and connectors.h: several accepting FIX *)
(* sessions served by the one thread of a TcpReactor.  The thread runs     *)
(* process() for every session, then handles the descriptors that are      *)
(* ready: it accepts a connection or reads from one.                       *)
(*                                                                         *)
(* A connection is the index of a slot of Connectors; slots are used       *)
(* again.  FixServerConnectors keeps two tables, from slots to sessions    *)
(* and back.  A send that finds its connection lost closes it there and    *)
(* then, below the handler that called it, and the handler goes on: the    *)
(* operators return the SET of servers that a call can end with.           *)
(*                                                                         *)
(* Sequence numbers are data here: the peer chooses whether its message is *)
(* the expected one, too high or too low.  FixClient and FixLink model the *)
(* numbers.  process() visits all sessions before the descriptors; here    *)
(* visits and descriptors come in any order.                               *)
(***************************************************************************)
EXTENDS FixSession

CONSTANTS
    Sessions,          \* the sessions that were added
    MaxPeers,          \* bound: connections at the same time
    None,              \* no session, no peer (-1)
    throttle_action,   \* setting: what a session does at its limit
    starts_as_primary  \* setting: starts_as_primary_instance

Peers == 0 .. MaxPeers - 1

ASSUME ServerAssumption ==
    /\ MaxPeers \in Nat \ {0}
    /\ None \notin Sessions /\ None \notin Peers
    /\ throttle_action \in [Sessions -> {"NONE", "WAIT", "DISCONNECT", "REJECT"}]
    /\ starts_as_primary \in BOOLEAN

VARIABLES
    server,          \* the sessions, the two tables, the connected slots
    is_ha_primary,   \* m_is_ha_primary
    at,              \* what the thread is doing: see Places
    identified       \* history: the session a connection last logged on to

vars == <<server, is_ha_primary, at, identified>>

ServerSession ==
    [state : SessionState,
     needs_to_send_resend_request : BOOLEAN,
     needs_responding_to_incoming_resend_request : BOOLEAN,
     needs_responding_to_incoming_test_request : BOOLEAN,
     expecting_response_for_outgoing_test_request : BOOLEAN]

Server ==
    [session : [Sessions -> ServerSession],
     session_of : [Peers -> Sessions \cup {None}],     \* m_peer_index_session_table
     peer_index : [Sessions -> Peers \cup {None}],     \* m_session_peer_index_table
     connected : SUBSET Peers,
     crashed : BOOLEAN]

PassSteps == {"resend_request", "test_request", "respond_resend",
              "respond_test", "heartbeat", "schedule"}

(* Between two steps, in process() for a session, or in process_rx_buffer  *)
(* for a connection, with the session it looked up at its start.           *)
Place(step, session, peer) == [step |-> step, session |-> session, peer |-> peer]
Idle == Place("idle", None, None)
Places ==
    {Idle, Place("stopping", None, None), Place("stopped", None, None)}
    \cup {Place(step, s, None) : step \in PassSteps, s \in Sessions}
    \cup {Place("receiving", s, p) : s \in Sessions \cup {None}, p \in Peers}

-----------------------------------------------------------------------------
(* Operators on servers                                                    *)

With(w, s, field, value) == [w EXCEPT !.session[s][field] = value]
set_state(w, s, state) == With(w, s, "state", state)
State(w, s) == w.session[s].state

(* FixSession::reset_flags, as far as a server session uses the flags.     *)
reset_session_flags(w, s) ==
    [w EXCEPT !.session[s] =
        [state |-> @.state,
         needs_to_send_resend_request |-> FALSE,
         needs_responding_to_incoming_resend_request |-> FALSE,
         needs_responding_to_incoming_test_request |-> FALSE,
         expecting_response_for_outgoing_test_request |-> FALSE]]

(* FixServerConnectors::update.  Mutant: the peer that the session had     *)
(* before keeps its entry.                                                 *)
update_keeping(w, p, s) ==
    [w EXCEPT !.session_of[p] = s, !.peer_index[s] = p]

update(w, p, s) ==
    [w EXCEPT !.session_of = [q \in Peers |->
                                 IF q = p THEN s
                                 ELSE IF q = w.peer_index[s] THEN None ELSE @[q]],
              !.peer_index[s] = p]

remove(w, p, s) == [w EXCEPT !.session_of[p] = None, !.peer_index[s] = None]

(* Mutant: the slot is recycled, the tables are forgotten.                 *)
on_client_disconnected_keeping(w, p) ==
    LET s == w.session_of[p]
        v == [w EXCEPT !.connected = @ \ {p}]
    IN  IF s = None THEN v ELSE set_state(v, s, "DISCONNECTED")

(* The slot is recycled whoever uses it; the session and the tables change *)
(* only when the slot is bound to a session.                               *)
on_client_disconnected(w, p) ==
    LET s == w.session_of[p]
        v == [w EXCEPT !.connected = @ \ {p}]
    IN  IF s = None THEN v ELSE remove(set_state(v, s, "DISCONNECTED"), p, s)

(* send_bytes to session s: nothing happens without a peer; else the bytes *)
(* leave or the attempts run out, or the connection turns out to be lost.  *)
send_bytes(w, s) ==
    LET p == w.peer_index[s]
    IN  IF p = None THEN {w} ELSE {w, on_client_disconnected(w, p)}

(* process_connection_closure.  The index of a session without a peer is   *)
(* -1 and close_connection reads m_connectors[-1]: undefined, and what the *)
(* builds do is to crash.                                                  *)
process_connection_closure(w, p, send_logout) ==
    IF p = None THEN {[w EXCEPT !.crashed = TRUE]}
    ELSE {on_client_disconnected(v, p) :
             v \in IF send_logout /\ w.session_of[p] # None
                   THEN send_bytes(w, w.session_of[p]) ELSE {w}}

CloseSession(w, s, send_logout) ==
    process_connection_closure(w, w.peer_index[s], send_logout)

-----------------------------------------------------------------------------
(* What a connection may deliver.  to: the session that the comp ids of a  *)
(* Logon name.  order: how the number compares with the expected one.      *)
(* welcome: a Logon that validate_logon_request and                        *)
(* authenticate_logon_request pass.  ends_resend: it carries the last      *)
(* number that was asked for.  INVALID stands for every message that the   *)
(* session's validation refuses, HEARTBEAT for every one that changes      *)
(* nothing, among them requests and resets whose tags cannot be read, and  *)
(* for every one that is too low to be looked at.                          *)
Basic == [type |-> "INVALID", order |-> "expected", ends_resend |-> FALSE, to |-> None,
          welcome |-> FALSE, hard |-> FALSE, forward |-> FALSE]
Plain == {"APP", "HEARTBEAT", "TEST_REQUEST", "RESEND_REQUEST", "LOGOUT"}
Incoming ==
    {Basic, [Basic EXCEPT !.type = "HEARTBEAT", !.order = "low"]}
    \cup {[Basic EXCEPT !.type = t, !.ends_resend = e] : t \in Plain, e \in BOOLEAN}
    \cup {[Basic EXCEPT !.type = t, !.order = "high"] : t \in Plain}
    \cup {[Basic EXCEPT !.type = "LOGON", !.order = o, !.to = s, !.welcome = b] :
             o \in {"expected", "high", "low"}, s \in Sessions \cup {None}, b \in BOOLEAN}
    \cup {[Basic EXCEPT !.type = "SEQUENCE_RESET", !.forward = f, !.ends_resend = e] :
             f \in BOOLEAN, e \in BOOLEAN}
    \cup {[Basic EXCEPT !.type = "SEQUENCE_RESET", !.order = "high", !.forward = f,
                          !.hard = h] : f \in BOOLEAN, h \in BOOLEAN}

(* Mutants: a live session, or a disabled one, may log on.                 *)
AcceptableLive(w, m, in_schedule) ==
    /\ m.type = "LOGON" /\ m.to # None
    /\ State(w, m.to) # "DISABLED"
    /\ in_schedule

AcceptableDisabled(w, m, in_schedule) ==
    /\ m.type = "LOGON" /\ m.to # None
    /\ ~is_state_live(State(w, m.to))
    /\ in_schedule

(* accept_session refuses a Logon for a session that is unknown, live,     *)
(* disabled or out of its schedule, and whatever is not a Logon or does    *)
(* not parse.                                                              *)
Acceptable(w, m, in_schedule) ==
    /\ m.type = "LOGON" /\ m.to # None
    /\ ~is_state_live(State(w, m.to))
    /\ State(w, m.to) # "DISABLED"
    /\ in_schedule

(* What it does to the server when it accepts.                             *)
Accepted(w, p, s) == set_state(reset_session_flags(update(w, p, s), s), s, "PENDING_LOGON")

(* Asks for what is missing after a Logon.                                 *)
do_post_logon_sequence_number_check(w, s, m) ==
    IF m.order = "high" THEN With(w, s, "needs_to_send_resend_request", TRUE) ELSE w

(* The tags of the Logon, and the application's authentication.            *)
validate_logon_request(m) == m.welcome

(* Whatever became of the response, the session is logged on.              *)
process_logon_request(w, s, p, m) ==
    IF ~validate_logon_request(m) THEN process_connection_closure(w, p, FALSE)
    ELSE {do_post_logon_sequence_number_check(set_state(v, s, "LOGGED_ON"), s, m) :
             v \in send_bytes(w, s)}

process_logout_request(w, s) ==
    {set_state(v, s, "LOGGED_OUT") : v \in send_bytes(w, s)}

(* The callbacks of the application may answer a business message.         *)
Dispatch(w, s, p, m) ==
    CASE m.type = "APP" -> send_bytes(w, s)
      [] m.type = "HEARTBEAT" -> {w}
      [] m.type = "TEST_REQUEST" ->
            {IF w.session[s].expecting_response_for_outgoing_test_request THEN w
             ELSE With(w, s, "needs_responding_to_incoming_test_request", TRUE)}
      [] m.type = "RESEND_REQUEST" ->
            {With(set_state(w, s, "IN_RETRANSMISSION_INITIATED_BY_PEER"), s,
                  "needs_responding_to_incoming_resend_request", TRUE)}
      [] m.type = "LOGON" -> process_logon_request(w, s, p, m)
      [] m.type = "LOGOUT" -> process_logout_request(w, s)
      [] m.type = "SEQUENCE_RESET" ->
            IF m.forward THEN {set_state(w, s, "LOGGED_ON")} ELSE send_bytes(w, s)

(* process_incoming_throttling, over the limit.                            *)
Throttled(w, s, p, m) ==
    CASE throttle_action[s] \in {"NONE", "WAIT"} -> Dispatch(w, s, p, m)
      [] throttle_action[s] = "DISCONNECT" -> CloseSession(w, s, FALSE)
      [] throttle_action[s] = "REJECT" -> send_bytes(w, s)

(* The number is right, or a hard sequence reset does not care.            *)
HandleInOrder(w, s, p, m, over_limit) ==
    LET v == IF State(w, s) = "IN_RETRANSMISSION_INITIATED_BY_SELF" /\ m.ends_resend
             THEN set_state(w, s, "LOGGED_ON") ELSE w
    IN  IF over_limit THEN Throttled(v, s, p, m) ELSE Dispatch(v, s, p, m)

(* Any message, valid or not, satisfies an outstanding test request.       *)
process_incoming_fix_message(w, s, p, m, over_limit) ==
    LET v == With(w, s, "expecting_response_for_outgoing_test_request", FALSE)
        logging_on == State(v, s) = "PENDING_LOGON"
    IN  IF m.type = "INVALID"
        THEN {v} \cup send_bytes(v, s)                      \* dropped or rejected
        ELSE IF m.order = "high" /\ ~m.hard /\ ~logging_on
        THEN {With(v, s, "needs_to_send_resend_request", TRUE)}
        ELSE IF m.order = "low" /\ ~m.hard
        THEN process_connection_closure(v, p, logging_on)
        ELSE HandleInOrder(v, s, p, m, over_limit)

-----------------------------------------------------------------------------
(* The reactor                                                             *)

(* The thread goes to place with one of the servers of W; a connection     *)
(* that is closed forgets who it was.                                      *)
Do(W, place) ==
    /\ ~server.crashed
    /\ server' \in W /\ at' = place
    /\ identified' = [p \in Peers |-> IF p \in server'.connected
                                      THEN identified[p] ELSE None]

(* accept_new_connection: add_connector takes the first slot in no use.    *)
accept_new_connection ==
    \E p \in Peers \ server.connected :
        /\ \A q \in Peers \ server.connected : p <= q
        /\ at = Idle
        /\ Do({[server EXCEPT !.connected = @ \cup {p}]}, Idle)
        /\ UNCHANGED is_ha_primary

(* on_data_ready: something was received, or the peer is gone.             *)
on_data_ready(p) ==
    /\ at = Idle /\ p \in server.connected
    /\ \/ Do({server}, Place("receiving", server.session_of[p], p))
       \/ Do({on_client_disconnected(server, p)}, Idle)
    /\ UNCHANGED is_ha_primary

(* The first message of a connection without a session.                    *)
accept_session ==
    /\ at.step = "receiving" /\ at.session = None
    /\ \E m \in Incoming, in_schedule \in BOOLEAN : ~Acceptable(server, m, in_schedule)
    /\ Do(process_connection_closure(server, at.peer, FALSE), Idle)
    /\ UNCHANGED is_ha_primary

(* All that the messages of the set M can lead to, within the rate or not. *)
Outcomes(w, s, M) ==
    UNION {process_incoming_fix_message(w, s, at.peer, m, over_limit) :
              m \in M, over_limit \in BOOLEAN}

(* process_rx_buffer goes on with the next message unless the session is   *)
(* now disconnected.                                                       *)
NextMessage(w, s) ==
    IF State(w, s) = "DISCONNECTED" THEN Idle ELSE Place("receiving", s, at.peer)

(* The Logons of s, and one that validate_fix_message refuses.             *)
LogonsOf(s) == {m \in Incoming : m.type = "LOGON" /\ m.to = s} \cup {Basic}

(* The session is accepted, then its Logon is handled like any message.    *)
accept_and_process(s) ==
    /\ at.step = "receiving" /\ at.session = None
    /\ ~server.crashed
    /\ \E m \in LogonsOf(s) : Acceptable(server, m, TRUE)
    /\ \E v \in Outcomes(Accepted(server, at.peer, s), s, LogonsOf(s)) :
          /\ server' = v
          /\ at' = NextMessage(v, s)
          /\ identified' = [p \in Peers |->
                IF p \notin v.connected THEN None
                ELSE IF p = at.peer THEN s ELSE identified[p]]
    /\ UNCHANGED is_ha_primary

process_message ==
    /\ at.step = "receiving" /\ at.session # None
    /\ \E v \in Outcomes(server, at.session, Incoming) : Do({v}, NextMessage(v, at.session))
    /\ UNCHANGED is_ha_primary

end_of_buffer ==
    /\ at.step = "receiving" /\ Do({server}, Idle)
    /\ UNCHANGED is_ha_primary

-----------------------------------------------------------------------------
(* Administration                                                          *)

disable_session(w, s) ==
    {set_state(v, s, "DISABLED") :
        v \in IF is_state_live(State(w, s)) THEN CloseSession(w, s, TRUE) ELSE {w}}

(* Mutant: the session is enabled but has never been connected.            *)
enable_session_as_new(w, s) ==
    IF State(w, s) = "DISABLED" THEN set_state(w, s, "NONE") ELSE w

enable_session(w, s) ==
    IF State(w, s) = "DISABLED" THEN set_state(w, s, "DISCONNECTED") ELSE w

(* process() looks at the state after the command and goes on only when    *)
(* the session is live.                                                    *)
ProcessLive(W, s) ==
    \E v \in W : Do({v}, IF is_state_live(State(v, s))
                         THEN Place("resend_request", s, None) ELSE Idle)

(* At most one command of the session's queue per visit.  Those that set a *)
(* number change nothing here.                                             *)
no_admin_command(s) ==
    /\ at = Idle
    /\ ProcessLive({server}, s)
    /\ UNCHANGED is_ha_primary

process_admin_command(s) ==
    /\ at = Idle
    /\ \/ ProcessLive(disable_session(server, s), s)             \* DISABLE_SESSION
       \/ is_ha_primary /\ ProcessLive({enable_session(server, s)}, s)
       \/ /\ State(server, s) = "LOGGED_ON"                   \* SEND_SEQUENCE_RESET
          /\ ProcessLive(send_bytes(server, s), s)
    /\ UNCHANGED is_ha_primary

(* SET_IS_HA_PRIMARY_INSTANCE: the copy of the command in one session's    *)
(* queue sets the role of the whole server.                                *)
set_is_ha_primary(s, primary) ==
    /\ at = Idle
    /\ is_ha_primary' = primary
    /\ ProcessLive(IF primary THEN {enable_session(server, s)}
                   ELSE disable_session(server, s), s)

-----------------------------------------------------------------------------
(* The rest of process() for a session that was live after its command     *)

InPass(step) == at.step = step
Here == at.session
Then(step) == Place(step, Here, None)

process_outgoing_resend_request(expired) ==
    /\ InPass("resend_request")
    /\ IF State(server, Here) = "IN_RETRANSMISSION_INITIATED_BY_SELF"
       THEN Do(IF expired THEN CloseSession(server, Here, FALSE) ELSE {server},
               Then("test_request"))
       ELSE Do(IF server.session[Here].needs_to_send_resend_request
               THEN {With(set_state(v, Here, "IN_RETRANSMISSION_INITIATED_BY_SELF"), Here,
                          "needs_to_send_resend_request", FALSE) :
                        v \in send_bytes(server, Here)}
               ELSE {server},
               Then("test_request"))
    /\ UNCHANGED is_ha_primary

process_outgoing_test_request(expired) ==
    /\ InPass("test_request")
    /\ Do(IF ~expired THEN {server}
          ELSE IF server.session[Here].expecting_response_for_outgoing_test_request
          THEN CloseSession(With(server, Here,
                   "expecting_response_for_outgoing_test_request", FALSE), Here, FALSE)
          ELSE {With(v, Here, "expecting_response_for_outgoing_test_request", TRUE) :
                   v \in send_bytes(server, Here)},
          Then("respond_resend"))
    /\ UNCHANGED is_ha_primary

(* Messages are replayed or a gap fill is sent, as FixSession!WillReplay   *)
(* decides; either may find the connection lost.                           *)
respond_to_resend_request ==
    /\ InPass("respond_resend")
    /\ Do(IF server.session[Here].needs_responding_to_incoming_resend_request
          THEN {With(set_state(v, Here, "LOGGED_ON"), Here,
                     "needs_responding_to_incoming_resend_request", FALSE) :
                   v \in send_bytes(server, Here)}
          ELSE {server},
          Then("respond_test"))
    /\ UNCHANGED is_ha_primary

respond_to_test_request ==
    /\ InPass("respond_test")
    /\ Do(IF server.session[Here].needs_responding_to_incoming_test_request
          THEN {With(v, Here, "needs_responding_to_incoming_test_request", FALSE) :
                   v \in send_bytes(server, Here)}
          ELSE {server},
          Then("heartbeat"))
    /\ UNCHANGED is_ha_primary

send_heartbeat(due) ==
    /\ InPass("heartbeat")
    /\ Do(IF due THEN send_bytes(server, Here) ELSE {server}, Then("schedule"))
    /\ UNCHANGED is_ha_primary

process_schedule_validator(is_now_valid) ==
    /\ InPass("schedule")
    /\ Do(IF is_now_valid THEN {server} ELSE CloseSession(server, Here, TRUE), Idle)
    /\ UNCHANGED is_ha_primary

-----------------------------------------------------------------------------
(* stop(): process() sends the Logouts, the loop ends and the slots go.    *)
stop ==
    /\ at = Idle /\ Do({server}, Place("stopping", None, None))
    /\ UNCHANGED is_ha_primary

send_logout_messages_to_all_sessions ==
    /\ at.step = "stopping"
    /\ \E s \in Sessions :
          /\ State(server, s) # "DISCONNECTED"
          /\ Do({set_state(v, s, "DISCONNECTED") : v \in send_bytes(server, s)}, at)
    /\ UNCHANGED is_ha_primary

stopped ==
    /\ at.step = "stopping"
    /\ \A s \in Sessions : State(server, s) = "DISCONNECTED"
    /\ Do({[server EXCEPT !.connected = {}]}, Place("stopped", None, None))
    /\ UNCHANGED is_ha_primary

-----------------------------------------------------------------------------
(* internal_add_session: on a standby instance sessions start disabled.    *)
Init ==
    /\ server = [session |-> [s \in Sessions |->
                    [state |-> IF starts_as_primary THEN "DISCONNECTED" ELSE "DISABLED",
                     needs_to_send_resend_request |-> FALSE,
                     needs_responding_to_incoming_resend_request |-> FALSE,
                     needs_responding_to_incoming_test_request |-> FALSE,
                     expecting_response_for_outgoing_test_request |-> FALSE]],
                 session_of |-> [p \in Peers |-> None],
                 peer_index |-> [s \in Sessions |-> None],
                 connected |-> {}, crashed |-> FALSE]
    /\ is_ha_primary = starts_as_primary
    /\ at = Idle
    /\ identified = [p \in Peers |-> None]

Events ==
    \/ accept_new_connection
    \/ \E p \in Peers : on_data_ready(p)
    \/ accept_session
    \/ \E s \in Sessions : accept_and_process(s)
    \/ process_message
    \/ end_of_buffer

Pass ==
    \/ \E b \in BOOLEAN :
        \/ process_outgoing_resend_request(b) \/ process_outgoing_test_request(b)
        \/ send_heartbeat(b) \/ process_schedule_validator(b)
    \/ respond_to_resend_request \/ respond_to_test_request

Operator ==
    \E s \in Sessions :
        process_admin_command(s) \/ \E b \in BOOLEAN : set_is_ha_primary(s, b)

Stop == stop \/ send_logout_messages_to_all_sessions \/ stopped

Next == Events \/ (\E s \in Sessions : no_admin_command(s)) \/ Pass \/ Operator \/ Stop

Spec == Init /\ [][Next]_vars

-----------------------------------------------------------------------------
(* Properties                                                              *)

TypeOK ==
    /\ server \in Server
    /\ is_ha_primary \in BOOLEAN
    /\ at \in Places
    /\ identified \in [Peers -> Sessions \cup {None}]

Running == at.step # "stopped"

(* The two tables are inverses of each other and bind connected slots      *)
(* only, over relogons from another address, lost connections in the       *)
(* middle of a handler and slots that are used again: send() would         *)
(* otherwise use the socket of a slot that has none.                       *)
TablesAgree ==
    \A s \in Sessions, p \in Peers :
        /\ server.peer_index[s] = p <=> server.session_of[p] = s
        /\ Running /\ server.peer_index[s] = p => p \in server.connected

(* What a session sends goes to the connection on which its own client     *)
(* logged on last, never to another client that was given the slot.        *)
SpeaksToItsClient ==
    \A s \in Sessions : Running /\ server.peer_index[s] # None
        => identified[server.peer_index[s]] = s

(* "This check is the most important part of multithreaded FixServer": no  *)
(* second connection takes a live session over.                            *)
LiveSessionNotTaken ==
    [][\A s \in Sessions :
          is_state_live(State(server, s)) /\ server.peer_index[s] # None
             => server'.peer_index[s] \in {server.peer_index[s], None}]_vars

(* Closing a connection disconnects the session that is bound to it and    *)
(* no other: not one whose client has moved to another connection.         *)
ClosureIsLocal ==
    [][\A s \in Sessions :
          (/\ server.peer_index[s] \in server'.connected
           /\ State(server, s) # "DISCONNECTED" /\ State(server', s) = "DISCONNECTED")
              => \/ at.step = "receiving" /\ at.session = None     \* its own new Logon
                 \/ Operator \/ Stop]_vars

(* A session that was disabled without a connection comes back only by     *)
(* command, or as disconnected when the server stops: no Logon revives it. *)
DisabledIsRefused ==
    [][\A s \in Sessions :
          State(server, s) = "DISABLED" /\ server.peer_index[s] = None
             => State(server', s) = "DISABLED" \/ Operator \/ Stop]_vars

(* session_state.h says of a live session "logged on and fully             *)
(* operational": between two calls it has a connection.                    *)
LiveHasConnection ==
    at = Idle => \A s \in Sessions :
        State(server, s) = "LOGGED_ON" => server.peer_index[s] # None
=============================================================================
