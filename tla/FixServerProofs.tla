--------------------------- MODULE FixServerProofs ---------------------------
(***************************************************************************)
(* Proofs about FixServer for any sessions, any number of connections and  *)
(* any throttling: the two tables, who a session speaks to, and what no    *)
(* handler may do to another session.                                      *)
(***************************************************************************)
EXTENDS FixServer, TLAPS

Inverse(w) ==
    \A s \in Sessions, p \in Peers : w.peer_index[s] = p <=> w.session_of[p] = s

Bound(w) ==
    \A s \in Sessions : w.peer_index[s] # None => w.peer_index[s] \in w.connected

Sound(w) == w \in Server /\ Inverse(w) /\ Bound(w)

(* Disabled, and without a connection that could still reach it.           *)
Orphan(w, s) == State(w, s) = "DISABLED" /\ w.peer_index[s] = None

(* Connections may be lost and none is made.                               *)
Shrunk(w, v) ==
    /\ Sound(v)
    /\ v.connected \subseteq w.connected
    /\ \A t \in Sessions : v.peer_index[t] \in {w.peer_index[t], None}

(* What every handler that serves session s makes of server w: a session   *)
(* that becomes disconnected has lost its connection, and no other session *)
(* than s changes without losing its connection.                           *)
Derived(w, v, s) ==
    /\ Shrunk(w, v)
    /\ \A t \in Sessions :
        /\ State(w, t) # "DISCONNECTED" /\ State(v, t) = "DISCONNECTED"
              => w.peer_index[t] \in Peers \ v.connected
        /\ Orphan(v, t) => Orphan(w, t)
        /\ t # s /\ w.peer_index[t] = None => State(v, t) = State(w, t)

(* The thread looked up a slot without a session: the slot still has none. *)
Unidentified ==
    at.step = "receiving" /\ at.session = None
        => at.peer \in server.connected /\ server.session_of[at.peer] = None

(* The session that the thread works for was bound or live when it began.  *)
Attended == at.session # None => ~Orphan(server, at.session)

Inv ==
    /\ TypeOK
    /\ Inverse(server)
    /\ Running => Bound(server)
    /\ SpeaksToItsClient
    /\ Unidentified
    /\ Attended

-----------------------------------------------------------------------------
(* The operators on servers                                                *)

Flags == {"needs_to_send_resend_request",
          "needs_responding_to_incoming_resend_request",
          "needs_responding_to_incoming_test_request",
          "expecting_response_for_outgoing_test_request"}

LEMMA NoneIsNobody == None \notin Sessions /\ None \notin Peers
  BY ServerAssumption

LEMMA DerivedReflexive ==
    ASSUME NEW w, Sound(w), NEW s
    PROVE  Derived(w, w, s)
  BY DEF Derived, Shrunk

LEMMA DerivedTransitive ==
    ASSUME NEW w, NEW v, NEW u, NEW s, Sound(w),
           Derived(w, v, s), Derived(v, u, s)
    PROVE  Derived(w, u, s)
<1>1. Sound(u) /\ u.connected \subseteq w.connected
  BY DEF Derived, Shrunk
<1>2. ASSUME NEW t \in Sessions
      PROVE  /\ u.peer_index[t] \in {w.peer_index[t], None}
             /\ State(w, t) # "DISCONNECTED" /\ State(u, t) = "DISCONNECTED"
                   => w.peer_index[t] \in Peers \ u.connected
             /\ Orphan(u, t) => Orphan(w, t)
             /\ t # s /\ w.peer_index[t] = None => State(u, t) = State(w, t)
  BY <1>2, NoneIsNobody DEF Derived, Shrunk
<1> QED BY <1>1, <1>2 DEF Derived, Shrunk

LEMMA SetFlag ==
    ASSUME NEW w, Sound(w), NEW s \in Sessions, NEW f \in Flags, NEW b \in BOOLEAN
    PROVE  Derived(w, With(w, s, f, b), s)
<1> DEFINE v == With(w, s, f, b)
<1>1. w \in Server
  BY DEF Sound
<1>2. [w.session[s] EXCEPT ![f] = b] \in ServerSession
  BY <1>1 DEF Server, ServerSession, Flags
<1>3. [w.session[s] EXCEPT ![f] = b].state = w.session[s].state
  BY <1>1 DEF Server, ServerSession, Flags
<1>4. v \in Server
  BY <1>1, <1>2 DEF With, Server
<1>5. /\ v.peer_index = w.peer_index /\ v.session_of = w.session_of
      /\ v.connected = w.connected
  BY <1>1 DEF With, Server
<1>6. \A t \in Sessions : State(v, t) = State(w, t)
  BY <1>1, <1>3 DEF With, Server, State
<1> HIDE DEF v
<1>7. Derived(w, v, s)
  BY <1>4, <1>5, <1>6 DEF Derived, Shrunk, Sound, Inverse, Bound, Orphan
<1> QED BY <1>7 DEF v

LEMMA SetStateIs ==
    ASSUME NEW w \in Server, NEW s \in Sessions, NEW x \in SessionState
    PROVE  LET v == set_state(w, s, x)
           IN  /\ v \in Server
               /\ v.peer_index = w.peer_index /\ v.session_of = w.session_of
               /\ v.connected = w.connected
               /\ \A t \in Sessions : State(v, t) = IF t = s THEN x ELSE State(w, t)
<1>1. [w.session[s] EXCEPT !["state"] = x] \in ServerSession
  BY DEF Server, ServerSession
<1>2. [w.session[s] EXCEPT !["state"] = x].state = x
  BY DEF Server, ServerSession
<1> QED BY <1>1, <1>2 DEF set_state, With, Server, State

LEMMA SetState ==
    ASSUME NEW w, Sound(w), NEW s \in Sessions,
           NEW x \in SessionState \ {"DISCONNECTED", "DISABLED"}
    PROVE  Derived(w, set_state(w, s, x), s)
<1> DEFINE v == set_state(w, s, x)
<1>1. w \in Server
  BY DEF Sound
<1>2. /\ v \in Server
      /\ v.peer_index = w.peer_index /\ v.session_of = w.session_of
      /\ v.connected = w.connected
      /\ \A t \in Sessions : State(v, t) = IF t = s THEN x ELSE State(w, t)
  BY <1>1, SetStateIs
<1> HIDE DEF v
<1>3. Derived(w, v, s)
  BY <1>2 DEF Derived, Shrunk, Sound, Inverse, Bound, Orphan
<1> QED BY <1>3 DEF v

LEMMA Disconnected ==
    ASSUME NEW w, Sound(w), NEW p \in Peers, NEW s
    PROVE  Derived(w, on_client_disconnected(w, p), s)
<1> DEFINE r == w.session_of[p]
           c == [w EXCEPT !.connected = @ \ {p}]
           d == set_state(c, r, "DISCONNECTED")
           v == on_client_disconnected(w, p)
<1>1. w \in Server /\ Inverse(w) /\ Bound(w)
  BY DEF Sound
<1>2. /\ c \in Server
      /\ c.peer_index = w.peer_index /\ c.session_of = w.session_of
      /\ c.connected = w.connected \ {p} /\ c.session = w.session
  BY <1>1 DEF Server
<1>3. r \in Sessions \cup {None}
  BY <1>1 DEF Server
<1>4. CASE r = None
  <2>1. v = c
    BY <1>4 DEF on_client_disconnected
  <2>2. \A t \in Sessions : w.peer_index[t] # p
    BY <1>1, <1>4, NoneIsNobody DEF Inverse
  <2>3. \A t \in Sessions : State(c, t) = State(w, t)
    BY <1>2 DEF State
  <2> HIDE DEF c, v
  <2>4. Derived(w, v, s)
    BY <1>1, <1>2, <2>1, <2>2, <2>3 DEF Derived, Shrunk, Sound, Inverse, Bound, Orphan
  <2> QED BY <2>4 DEF v
<1>5. CASE r \in Sessions
  <2>1. v = remove(d, p, r)
    BY <1>5, NoneIsNobody DEF on_client_disconnected
  <2>2. "DISCONNECTED" \in SessionState
    BY DEF SessionState
  <2> HIDE DEF c
  <2>3. /\ d \in Server
        /\ d.peer_index = c.peer_index /\ d.session_of = c.session_of
        /\ d.connected = c.connected
        /\ \A t \in Sessions :
              State(d, t) = IF t = r THEN "DISCONNECTED" ELSE State(c, t)
    BY <1>2, <1>5, <2>2, SetStateIs
  <2>4. \A t \in Sessions : State(c, t) = State(w, t)
    BY <1>2 DEF State
  <2> HIDE DEF d, v
  <2>5. /\ v \in Server /\ v.session = d.session /\ v.connected = d.connected
        /\ v.session_of = [d.session_of EXCEPT ![p] = None]
        /\ v.peer_index = [d.peer_index EXCEPT ![r] = None]
    BY <1>5, <2>1, <2>3 DEF remove, Server
  <2>6. /\ v.connected = w.connected \ {p}
        /\ \A t \in Sessions : v.peer_index[t] = IF t = r THEN None ELSE w.peer_index[t]
        /\ \A q \in Peers : v.session_of[q] = IF q = p THEN None ELSE w.session_of[q]
        /\ \A t \in Sessions :
              State(v, t) = IF t = r THEN "DISCONNECTED" ELSE State(w, t)
    BY <1>1, <1>2, <2>3, <2>4, <2>5 DEF Server, State
  <2>7. w.peer_index[r] = p
    BY <1>1, <1>5 DEF Inverse
  <2>8. Inverse(v)
    BY <1>1, <2>6, <2>7, <1>5, NoneIsNobody DEF Inverse
  <2>9. Bound(v)
    <3> SUFFICES ASSUME NEW t \in Sessions, v.peer_index[t] # None
                 PROVE  v.peer_index[t] \in v.connected
      BY DEF Bound
    <3>1. t # r /\ v.peer_index[t] = w.peer_index[t]
      BY <2>6
    <3>2. w.peer_index[t] # p
      BY <1>1, <3>1 DEF Inverse
    <3> QED BY <1>1, <2>6, <3>1, <3>2 DEF Bound
  <2>10. Derived(w, v, s)
    BY <2>5, <2>6, <2>7, <2>8, <2>9, NoneIsNobody DEF Derived, Shrunk, Sound, Orphan
  <2> QED BY <2>10 DEF v
<1> QED BY <1>3, <1>4, <1>5

LEMMA Sends ==
    ASSUME NEW w, Sound(w), NEW r \in Sessions, NEW v \in send_bytes(w, r), NEW s
    PROVE  Derived(w, v, s)
<1>1. w.peer_index[r] \in Peers \cup {None}
  BY DEF Sound, Server
<1> QED BY <1>1, DerivedReflexive, Disconnected DEF send_bytes

LEMMA Closes ==
    ASSUME NEW w, Sound(w), NEW p \in Peers \cup {None}, NEW b \in BOOLEAN,
           NEW v \in process_connection_closure(w, p, b), NEW s
    PROVE  Derived(w, v, s)
<1>1. CASE p = None
  <2>1. v = [w EXCEPT !.crashed = TRUE]
    BY <1>1 DEF process_connection_closure
  <2>2. /\ v \in Server /\ v.session = w.session /\ v.connected = w.connected
        /\ v.peer_index = w.peer_index /\ v.session_of = w.session_of
    BY <2>1 DEF Sound, Server
  <2> QED BY <2>2 DEF Derived, Shrunk, Sound, Inverse, Bound, Orphan, State
<1>2. CASE p \in Peers
  <2>1. PICK u \in (IF b /\ w.session_of[p] # None
                    THEN send_bytes(w, w.session_of[p]) ELSE {w}) :
               v = on_client_disconnected(u, p)
    BY <1>2, NoneIsNobody DEF process_connection_closure
  <2>2. w.session_of[p] \in Sessions \cup {None}
    BY <1>2 DEF Sound, Server
  <2>3. Derived(w, u, s)
    BY <2>1, <2>2, Sends, DerivedReflexive
  <2>4. Sound(u)
    BY <2>3 DEF Derived, Shrunk
  <2>5. Derived(u, v, s)
    BY <1>2, <2>1, <2>4, Disconnected
  <2> QED BY <2>3, <2>5, DerivedTransitive
<1> QED BY <1>1, <1>2

LEMMA ClosesSession ==
    ASSUME NEW w, Sound(w), NEW r \in Sessions, NEW b \in BOOLEAN,
           NEW v \in CloseSession(w, r, b), NEW s
    PROVE  Derived(w, v, s)
<1>1. w.peer_index[r] \in Peers \cup {None}
  BY DEF Sound, Server
<1> QED BY <1>1, Closes DEF CloseSession

-----------------------------------------------------------------------------
(* The handlers of incoming messages                                       *)

MessageTypes == Plain \cup {"INVALID", "LOGON", "SEQUENCE_RESET"}

LEMMA IncomingType == \A m \in Incoming : m.type \in MessageTypes
<1> DEFINE H == [Basic EXCEPT !.type = "HEARTBEAT", !.order = "low"]
           P(t, e) == [Basic EXCEPT !.type = t, !.ends_resend = e]
           Q(t) == [Basic EXCEPT !.type = t, !.order = "high"]
           L(o, s, b) == [Basic EXCEPT !.type = "LOGON", !.order = o, !.to = s, !.welcome = b]
           R(f, e) == [Basic EXCEPT !.type = "SEQUENCE_RESET", !.forward = f,
                                    !.ends_resend = e]
           S(f, h) == [Basic EXCEPT !.type = "SEQUENCE_RESET", !.order = "high",
                                    !.forward = f, !.hard = h]
<1>1. Basic.type \in MessageTypes /\ H.type \in MessageTypes
  BY DEF Basic, MessageTypes, Plain
<1>2. \A t \in Plain : Q(t).type \in MessageTypes /\ \A e : P(t, e).type \in MessageTypes
  BY DEF Basic, MessageTypes, Plain
<1>3. \A o, s, b : L(o, s, b).type \in MessageTypes
  BY DEF Basic, MessageTypes
<1>4. \A f, h : R(f, h).type \in MessageTypes /\ S(f, h).type \in MessageTypes
  BY DEF Basic, MessageTypes
<1>5. Incoming = {Basic, H} \cup {P(t, e) : t \in Plain, e \in BOOLEAN}
         \cup {Q(t) : t \in Plain}
         \cup {L(o, s, b) : o \in {"expected", "high", "low"}, s \in Sessions \cup {None},
                            b \in BOOLEAN}
         \cup {R(f, e) : f \in BOOLEAN, e \in BOOLEAN}
         \cup {S(f, h) : f \in BOOLEAN, h \in BOOLEAN}
  BY DEF Incoming
<1> HIDE DEF H, P, Q, L, R, S
<1> QED BY <1>1, <1>2, <1>3, <1>4, <1>5

LEMMA LogsOn ==
    ASSUME NEW w, Sound(w), NEW s \in Sessions, NEW p \in Peers, NEW m,
           NEW v \in process_logon_request(w, s, p, m)
    PROVE  Derived(w, v, s)
<1>1. CASE ~validate_logon_request(m)
  BY <1>1, Closes DEF process_logon_request
<1>2. CASE validate_logon_request(m)
  <2>1. PICK u \in send_bytes(w, s) :
           v = do_post_logon_sequence_number_check(set_state(u, s, "LOGGED_ON"), s, m)
    BY <1>2 DEF process_logon_request
  <2> DEFINE x == set_state(u, s, "LOGGED_ON")
  <2> Derived(w, u, s)
    BY Sends
  <2>2. Derived(w, u, s) /\ Sound(u)
    BY DEF Derived, Shrunk
  <2>3. "LOGGED_ON" \in SessionState \ {"DISCONNECTED", "DISABLED"}
    BY DEF SessionState, LiveStates
  <2>4. Derived(u, x, s)
    BY <2>2, <2>3, SetState
  <2>5. Sound(x)
    BY <2>4 DEF Derived, Shrunk
  <2> HIDE DEF x
  <2>6. v = x \/ v = With(x, s, "needs_to_send_resend_request", TRUE)
    BY <2>1 DEF do_post_logon_sequence_number_check, x
  <2>7. "needs_to_send_resend_request" \in Flags
    BY DEF Flags
  <2>8. Derived(x, v, s)
    BY <2>5, <2>6, <2>7, SetFlag, DerivedReflexive
  <2> QED BY <2>2, <2>4, <2>8, DerivedTransitive
<1> QED BY <1>1, <1>2

(* The bytes leave or not, then the session takes a state.                 *)
LEMMA SendsThenState ==
    ASSUME NEW w, Sound(w), NEW s \in Sessions, NEW u \in send_bytes(w, s),
           NEW x \in SessionState \ {"DISCONNECTED", "DISABLED"}
    PROVE  Derived(w, set_state(u, s, x), s)
<1> Derived(w, u, s)
  BY Sends
<1>1. Derived(w, u, s) /\ Sound(u)
  BY DEF Derived, Shrunk
<1>2. Derived(u, set_state(u, s, x), s)
  BY <1>1, SetState
<1> QED BY <1>1, <1>2, DerivedTransitive

LEMMA SetStateAndFlag ==
    ASSUME NEW w, Sound(w), NEW s \in Sessions, NEW f \in Flags, NEW b \in BOOLEAN,
           NEW x \in SessionState \ {"DISCONNECTED", "DISABLED"}
    PROVE  Derived(w, With(set_state(w, s, x), s, f, b), s)
<1>1. Derived(w, set_state(w, s, x), s)
  BY SetState
<1>2. Sound(set_state(w, s, x))
  BY <1>1 DEF Derived, Shrunk
<1>3. Derived(set_state(w, s, x), With(set_state(w, s, x), s, f, b), s)
  BY <1>2, SetFlag
<1> QED BY <1>1, <1>3, DerivedTransitive

LEMMA Dispatches ==
    ASSUME NEW w, Sound(w), NEW s \in Sessions, NEW p \in Peers,
           NEW m, m.type \in MessageTypes \ {"INVALID"}, NEW v \in Dispatch(w, s, p, m)
    PROVE  Derived(w, v, s)
<1>1. /\ "IN_RETRANSMISSION_INITIATED_BY_PEER" \in SessionState \ {"DISCONNECTED", "DISABLED"}
      /\ "LOGGED_ON" \in SessionState \ {"DISCONNECTED", "DISABLED"}
      /\ "LOGGED_OUT" \in SessionState \ {"DISCONNECTED", "DISABLED"}
      /\ "needs_responding_to_incoming_test_request" \in Flags
      /\ "needs_responding_to_incoming_resend_request" \in Flags
  BY DEF SessionState, LiveStates, Flags
<1>2. CASE m.type = "APP"
  BY <1>2, Sends DEF Dispatch
<1>3. CASE m.type = "HEARTBEAT"
  BY <1>3, DerivedReflexive DEF Dispatch
<1>4. CASE m.type = "TEST_REQUEST"
  BY <1>1, <1>4, DerivedReflexive, SetFlag DEF Dispatch
<1>5. CASE m.type = "RESEND_REQUEST"
  <2>1. v = With(set_state(w, s, "IN_RETRANSMISSION_INITIATED_BY_PEER"), s,
                 "needs_responding_to_incoming_resend_request", TRUE)
    BY <1>5 DEF Dispatch
  <2> QED BY <1>1, <2>1, SetStateAndFlag
<1>6. CASE m.type = "LOGON"
  BY <1>6, LogsOn DEF Dispatch
<1>7. CASE m.type = "LOGOUT"
  <2>1. PICK u \in send_bytes(w, s) : v = set_state(u, s, "LOGGED_OUT")
    BY <1>7 DEF Dispatch, process_logout_request
  <2> QED BY <1>1, <2>1, SendsThenState
<1>8. CASE m.type = "SEQUENCE_RESET"
  BY <1>1, <1>8, Sends, SetState DEF Dispatch
<1> QED BY <1>2, <1>3, <1>4, <1>5, <1>6, <1>7, <1>8 DEF MessageTypes, Plain

LEMMA Throttles ==
    ASSUME NEW w, Sound(w), NEW s \in Sessions, NEW p \in Peers,
           NEW m, m.type \in MessageTypes \ {"INVALID"}, NEW v \in Throttled(w, s, p, m)
    PROVE  Derived(w, v, s)
<1>1. throttle_action[s] \in {"NONE", "WAIT", "DISCONNECT", "REJECT"}
  BY ServerAssumption
<1>2. CASE throttle_action[s] \in {"NONE", "WAIT"}
  BY <1>2, Dispatches DEF Throttled
<1>3. CASE throttle_action[s] = "DISCONNECT"
  BY <1>3, ClosesSession DEF Throttled
<1>4. CASE throttle_action[s] = "REJECT"
  BY <1>4, Sends DEF Throttled
<1> QED BY <1>1, <1>2, <1>3, <1>4

LEMMA HandlesInOrder ==
    ASSUME NEW w, Sound(w), NEW s \in Sessions, NEW p \in Peers, NEW over_limit,
           NEW m, m.type \in MessageTypes \ {"INVALID"},
           NEW v \in HandleInOrder(w, s, p, m, over_limit)
    PROVE  Derived(w, v, s)
<1> DEFINE u == IF State(w, s) = "IN_RETRANSMISSION_INITIATED_BY_SELF" /\ m.ends_resend
                THEN set_state(w, s, "LOGGED_ON") ELSE w
<1>1. "LOGGED_ON" \in SessionState \ {"DISCONNECTED", "DISABLED"}
  BY DEF SessionState, LiveStates
<1>2. Derived(w, u, s)
  BY <1>1, SetState, DerivedReflexive
<1>3. Sound(u)
  BY <1>2 DEF Derived, Shrunk
<1>4. v \in Throttled(u, s, p, m) \/ v \in Dispatch(u, s, p, m)
  BY DEF HandleInOrder
<1> HIDE DEF u
<1>5. Derived(u, v, s)
  BY <1>3, <1>4, Throttles, Dispatches
<1> QED BY <1>2, <1>5, DerivedTransitive

LEMMA Processes ==
    ASSUME NEW w, Sound(w), NEW s \in Sessions, NEW p \in Peers, NEW over_limit,
           NEW m \in Incoming,
           NEW v \in process_incoming_fix_message(w, s, p, m, over_limit)
    PROVE  Derived(w, v, s)
<1> DEFINE u == With(w, s, "expecting_response_for_outgoing_test_request", FALSE)
           logging_on == State(u, s) = "PENDING_LOGON"
<1>1. /\ "expecting_response_for_outgoing_test_request" \in Flags
      /\ "needs_to_send_resend_request" \in Flags
  BY DEF Flags
<1>2. Derived(w, u, s)
  BY <1>1, SetFlag
<1>3. Sound(u)
  BY <1>2 DEF Derived, Shrunk
<1>4. m.type \in MessageTypes
  BY IncomingType
<1>5. \/ m.type = "INVALID" /\ (v = u \/ v \in send_bytes(u, s))
      \/ v = With(u, s, "needs_to_send_resend_request", TRUE)
      \/ v \in process_connection_closure(u, p, logging_on)
      \/ m.type # "INVALID" /\ v \in HandleInOrder(u, s, p, m, over_limit)
  BY DEF process_incoming_fix_message
<1>6. logging_on \in BOOLEAN
  OBVIOUS
<1> HIDE DEF u, logging_on
<1>7. Derived(u, v, s)
  <2>1. CASE m.type = "INVALID" /\ (v = u \/ v \in send_bytes(u, s))
    BY <1>3, <2>1, Sends, DerivedReflexive
  <2>2. CASE v = With(u, s, "needs_to_send_resend_request", TRUE)
    BY <1>1, <1>3, <2>2, SetFlag
  <2>3. CASE v \in process_connection_closure(u, p, logging_on)
    BY <1>3, <1>6, <2>3, Closes
  <2>4. CASE m.type # "INVALID" /\ v \in HandleInOrder(u, s, p, m, over_limit)
    BY <1>3, <1>4, <2>4, HandlesInOrder
  <2> QED BY <1>5, <2>1, <2>2, <2>3, <2>4
<1> QED BY <1>2, <1>7, DerivedTransitive

-----------------------------------------------------------------------------
(* A Logon is accepted on a slot that is connected and has no session      *)

LEMMA FlagsReset ==
    ASSUME NEW w \in Server, NEW s \in Sessions
    PROVE  LET v == reset_session_flags(w, s)
           IN  /\ v \in Server
               /\ v.peer_index = w.peer_index /\ v.session_of = w.session_of
               /\ v.connected = w.connected
               /\ \A t \in Sessions : State(v, t) = State(w, t)
<1> DEFINE r == [state |-> w.session[s].state,
                 needs_to_send_resend_request |-> FALSE,
                 needs_responding_to_incoming_resend_request |-> FALSE,
                 needs_responding_to_incoming_test_request |-> FALSE,
                 expecting_response_for_outgoing_test_request |-> FALSE]
<1>1. w.session[s] \in ServerSession
  BY DEF Server
<1>2. r \in ServerSession /\ r.state = w.session[s].state
  BY <1>1 DEF ServerSession
<1>3. reset_session_flags(w, s) = [w EXCEPT !.session[s] = r]
  BY DEF reset_session_flags
<1> HIDE DEF r
<1> QED BY <1>2, <1>3 DEF Server, State

LEMMA Updates ==
    ASSUME NEW w, Sound(w), NEW s \in Sessions, NEW p \in w.connected,
           w.session_of[p] = None
    PROVE  LET v == update(w, p, s)
           IN  /\ Sound(v)
               /\ v.connected = w.connected /\ v.session = w.session
               /\ v.peer_index = [w.peer_index EXCEPT ![s] = p]
<1> DEFINE v == update(w, p, s)
           table == [q \in Peers |->
                        IF q = p THEN s
                        ELSE IF q = w.peer_index[s] THEN None ELSE w.session_of[q]]
<1>1. w \in Server /\ Inverse(w) /\ Bound(w)
  BY DEF Sound
<1>2. p \in Peers /\ p # None
  BY <1>1, NoneIsNobody DEF Server
<1>3. v = [w EXCEPT !.session_of = table, !.peer_index[s] = p]
  BY DEF update
<1>4. table \in [Peers -> Sessions \cup {None}]
  BY <1>1 DEF Server
<1>5. \A q \in Peers : table[q] = IF q = p THEN s
                                  ELSE IF q = w.peer_index[s] THEN None
                                  ELSE w.session_of[q]
  OBVIOUS
<1> HIDE DEF v, table
<1>6. /\ v \in Server
      /\ v.connected = w.connected /\ v.session = w.session
      /\ v.session_of = table
      /\ v.peer_index = [w.peer_index EXCEPT ![s] = p]
  BY <1>1, <1>2, <1>3, <1>4 DEF Server
<1>7. \A t \in Sessions : v.peer_index[t] = IF t = s THEN p ELSE w.peer_index[t]
  BY <1>1, <1>6 DEF Server
<1>8. Inverse(v)
  BY <1>1, <1>2, <1>5, <1>6, <1>7, NoneIsNobody DEF Inverse
<1>9. Bound(v)
  BY <1>1, <1>6, <1>7 DEF Bound
<1>10. Sound(v) /\ v.connected = w.connected /\ v.session = w.session
         /\ v.peer_index = [w.peer_index EXCEPT ![s] = p]
  BY <1>6, <1>8, <1>9 DEF Sound
<1> QED BY <1>10 DEF v

LEMMA Accepts ==
    ASSUME NEW w, Sound(w), NEW s \in Sessions, NEW p \in w.connected,
           w.session_of[p] = None
    PROVE  LET v == Accepted(w, p, s)
           IN  /\ Sound(v)
               /\ v.connected = w.connected
               /\ v.peer_index = [w.peer_index EXCEPT ![s] = p]
               /\ \A t \in Sessions :
                     State(v, t) = IF t = s THEN "PENDING_LOGON" ELSE State(w, t)
<1> DEFINE u == update(w, p, s)
           r == reset_session_flags(u, s)
           v == set_state(r, s, "PENDING_LOGON")
<1>1. /\ Sound(u)
      /\ u.connected = w.connected /\ u.session = w.session
      /\ u.peer_index = [w.peer_index EXCEPT ![s] = p]
  BY Updates
<1>2. u \in Server
  BY <1>1 DEF Sound
<1>3. \A t \in Sessions : State(u, t) = State(w, t)
  BY <1>1 DEF State
<1> HIDE DEF u
<1>4. /\ r \in Server
      /\ r.peer_index = u.peer_index /\ r.session_of = u.session_of
      /\ r.connected = u.connected
      /\ \A t \in Sessions : State(r, t) = State(u, t)
  BY <1>2, FlagsReset
<1> HIDE DEF r
<1>5. "PENDING_LOGON" \in SessionState
  BY DEF SessionState
<1>6. /\ v \in Server
      /\ v.peer_index = r.peer_index /\ v.session_of = r.session_of
      /\ v.connected = r.connected
      /\ \A t \in Sessions :
            State(v, t) = IF t = s THEN "PENDING_LOGON" ELSE State(r, t)
  BY <1>4, <1>5, SetStateIs
<1>7. Accepted(w, p, s) = v
  BY DEF Accepted, u, r
<1> HIDE DEF v
<1>8. Sound(v)
  BY <1>1, <1>4, <1>6 DEF Sound, Inverse, Bound
<1> QED BY <1>1, <1>3, <1>4, <1>6, <1>7, <1>8

-----------------------------------------------------------------------------
(* Places, and what a step keeps                                           *)

LEMMA PlaceFields ==
    \A step, s, p : /\ Place(step, s, p).step = step
                    /\ Place(step, s, p).session = s
                    /\ Place(step, s, p).peer = p
  BY DEF Place

LEMMA PlacesAre ==
    ASSUME at \in Places
    PROVE  /\ at.session \in Sessions \cup {None}
           /\ at.step = "receiving" => at.peer \in Peers
           /\ at.step \in PassSteps => at.session \in Sessions
<1> DEFINE P(step, s, p) == Place(step, s, p)
<1>1. \A step, s, p : /\ P(step, s, p).step = step
                      /\ P(step, s, p).session = s
                      /\ P(step, s, p).peer = p
  BY PlaceFields
<1>2. Places = {P("idle", None, None), P("stopping", None, None),
                P("stopped", None, None)}
               \cup {P(step, s, None) : step \in PassSteps, s \in Sessions}
               \cup {P("receiving", s, p) : s \in Sessions \cup {None}, p \in Peers}
  BY DEF Places, Idle
<1>3. {"idle", "stopping", "stopped", "receiving"} \cap PassSteps = {}
  BY DEF PassSteps
<1> HIDE DEF P
<1> QED BY <1>1, <1>2, <1>3

LEMMA PlacesInclude ==
    /\ Idle \in Places
    /\ Place("stopping", None, None) \in Places
    /\ Place("stopped", None, None) \in Places
    /\ \A step \in PassSteps, s \in Sessions : Place(step, s, None) \in Places
    /\ \A s \in Sessions \cup {None}, p \in Peers : Place("receiving", s, p) \in Places
<1> DEFINE P(step, s, p) == Place(step, s, p)
<1>1. Places = {Idle, P("stopping", None, None), P("stopped", None, None)}
               \cup {P(step, s, None) : step \in PassSteps, s \in Sessions}
               \cup {P("receiving", s, p) : s \in Sessions \cup {None}, p \in Peers}
  BY DEF Places
<1> HIDE DEF P
<1>2. /\ Idle \in Places
      /\ P("stopping", None, None) \in Places
      /\ P("stopped", None, None) \in Places
      /\ \A step \in PassSteps, s \in Sessions : P(step, s, None) \in Places
      /\ \A s \in Sessions \cup {None}, p \in Peers : P("receiving", s, p) \in Places
  BY <1>1
<1> QED BY <1>2 DEF P

(* The part of Inv that does not mention where the thread is.              *)
Kept ==
    /\ Sound(server)
    /\ identified \in [Peers -> Sessions \cup {None}]
    /\ \A s \in Sessions : server.peer_index[s] # None
          => identified[server.peer_index[s]] = s

(* The three action properties, of a pair of servers.                      *)
NotTaken(w, v) ==
    \A s \in Sessions :
        is_state_live(State(w, s)) /\ w.peer_index[s] # None
            => v.peer_index[s] \in {w.peer_index[s], None}

Local(w, v) ==
    \A s \in Sessions :
        ~(/\ w.peer_index[s] \in v.connected
          /\ State(w, s) # "DISCONNECTED" /\ State(v, s) = "DISCONNECTED")

Refused(w, v) ==
    \A s \in Sessions : Orphan(w, s) => State(v, s) = "DISABLED"

LEMMA InvKept ==
    ASSUME Inv, Running
    PROVE  /\ Kept /\ is_ha_primary \in BOOLEAN /\ at \in Places
           /\ Unidentified /\ Attended
  BY DEF Inv, Kept, TypeOK, Sound, SpeaksToItsClient, Running

LEMMA DoKeeps ==
    ASSUME Kept, NEW W, NEW place, Do(W, place),
           \A v \in W : Shrunk(server, v)
    PROVE  /\ Kept'
           /\ server' \in W /\ at' = place
           /\ NotTaken(server, server')
<1>1. /\ server' \in W /\ at' = place
      /\ identified' = [p \in Peers |-> IF p \in server'.connected
                                        THEN identified[p] ELSE None]
  BY DEF Do
<1>2. Shrunk(server, server')
  BY <1>1
<1>3. Sound(server')
  BY <1>2 DEF Shrunk
<1>4. identified' \in [Peers -> Sessions \cup {None}]
  BY <1>1 DEF Kept
<1>5. ASSUME NEW s \in Sessions, server'.peer_index[s] # None
      PROVE  identified'[server'.peer_index[s]] = s
  <2>1. server'.peer_index[s] = server.peer_index[s]
    BY <1>2, <1>5 DEF Shrunk
  <2>2. server'.peer_index[s] \in server'.connected
    BY <1>3, <1>5 DEF Sound, Bound
  <2>3. server'.peer_index[s] \in Peers
    BY <1>3, <2>2 DEF Sound, Server
  <2>4. identified[server.peer_index[s]] = s
    BY <1>5, <2>1 DEF Kept
  <2> QED BY <1>1, <2>1, <2>2, <2>3, <2>4
<1>6. NotTaken(server, server')
  BY <1>2 DEF Shrunk, NotTaken
<1> QED BY <1>1, <1>3, <1>4, <1>5, <1>6 DEF Kept

LEMMA DoServes ==
    ASSUME Kept, NEW W, NEW place, Do(W, place), NEW s,
           \A v \in W : Derived(server, v, s),
           s \in Sessions => ~Orphan(server, s)
    PROVE  /\ Kept'
           /\ server' \in W /\ at' = place
           /\ NotTaken(server, server')
           /\ Local(server, server')
           /\ Refused(server, server')
           /\ s \in Sessions => ~Orphan(server', s)
<1>1. \A v \in W : Shrunk(server, v)
  BY DEF Derived
<1>2. /\ Kept' /\ server' \in W /\ at' = place
      /\ NotTaken(server, server')
  BY <1>1, DoKeeps
<1>3. Derived(server, server', s)
  BY <1>2
<1>4. Local(server, server')
  BY <1>3 DEF Derived, Local
<1>5. Refused(server, server')
  BY <1>3 DEF Derived, Refused, Orphan
<1>6. s \in Sessions => ~Orphan(server', s)
  BY <1>3 DEF Derived
<1> QED BY <1>2, <1>4, <1>5, <1>6

-----------------------------------------------------------------------------
(* The steps of the reactor and of process()                               *)

Served == Inv' /\ NotTaken(server, server') /\ Local(server, server')
              /\ Refused(server, server')

LEMMA ServingKeepsInv ==
    ASSUME Inv, Running, is_ha_primary' \in BOOLEAN,
           NEW W, NEW place, Do(W, place), NEW s,
           \A v \in W : Derived(server, v, s),
           s \in Sessions => ~Orphan(server, s),
           place \in Places, place.session \in {s, None},
           place.step = "receiving" => place.session # None
    PROVE  Served
<1>1. Kept
  BY InvKept
<1>2. /\ Kept'
      /\ server' \in W /\ at' = place
      /\ NotTaken(server, server')
      /\ Local(server, server')
      /\ Refused(server, server')
      /\ s \in Sessions => ~Orphan(server', s)
  BY <1>1, DoServes
<1>3. at' \in Places /\ Unidentified'
  BY <1>2 DEF Unidentified
<1>4. at'.session \in Sessions \cup {None}
  <2>1. (at \in Places)'
    BY <1>3
  <2>2. (at.session \in Sessions \cup {None})'
    BY <2>1, PlacesAre, PTL
  <2> QED BY <2>2
<1>5. Attended'
  BY <1>2, <1>4, NoneIsNobody DEF Attended
<1>6. Inv'
  BY <1>2, <1>3, <1>5 DEF Inv, Kept, TypeOK, Sound, SpeaksToItsClient, Running
<1> QED BY <1>2, <1>6 DEF Served

LEMMA IdleIs == Idle \in Places /\ Idle.session = None /\ Idle.step = "idle"
  BY PlacesInclude, PlaceFields DEF Idle

(* Any step in which the thread goes to idle, or on to another step of the *)
(* visit to the same session.                                              *)
LEMMA PassStep ==
    ASSUME Inv, Running, UNCHANGED is_ha_primary,
           at.session \in Sessions,
           NEW W, NEW place, Do(W, place),
           \A v \in W : Derived(server, v, at.session),
           \/ place = Idle
           \/ \E step \in PassSteps : place = Place(step, at.session, None)
    PROVE  Served
<1>1. is_ha_primary' \in BOOLEAN /\ ~Orphan(server, at.session)
  BY InvKept, NoneIsNobody DEF Attended
<1>2. /\ place \in Places /\ place.session \in {at.session, None}
      /\ place.step # "receiving"
  BY IdleIs, PlacesInclude, PlaceFields DEF PassSteps
<1> QED BY <1>1, <1>2, ServingKeepsInv

LEMMA LiveServed ==
    /\ "IN_RETRANSMISSION_INITIATED_BY_SELF" \in SessionState \ {"DISCONNECTED", "DISABLED"}
    /\ "LOGGED_ON" \in SessionState \ {"DISCONNECTED", "DISABLED"}
  BY DEF SessionState, LiveStates

(* The answer is sent or not, the session takes a state and the flag that  *)
(* asked for the answer is cleared.                                        *)
LEMMA SendsThenStateAndFlag ==
    ASSUME NEW w, Sound(w), NEW s \in Sessions, NEW u \in send_bytes(w, s),
           NEW x \in SessionState \ {"DISCONNECTED", "DISABLED"},
           NEW f \in Flags, NEW b \in BOOLEAN
    PROVE  Derived(w, With(set_state(u, s, x), s, f, b), s)
<1>1. Derived(w, u, s)
  BY Sends
<1>2. Sound(u)
  BY <1>1 DEF Derived, Shrunk
<1>3. Derived(u, With(set_state(u, s, x), s, f, b), s)
  BY <1>2, SetStateAndFlag
<1> QED BY <1>1, <1>3, DerivedTransitive

LEMMA SendsThenFlag ==
    ASSUME NEW w, Sound(w), NEW s \in Sessions, NEW u \in send_bytes(w, s),
           NEW f \in Flags, NEW b \in BOOLEAN
    PROVE  Derived(w, With(u, s, f, b), s)
<1>1. Derived(w, u, s)
  BY Sends
<1>2. Sound(u)
  BY <1>1 DEF Derived, Shrunk
<1>3. Derived(u, With(u, s, f, b), s)
  BY <1>2, SetFlag
<1> QED BY <1>1, <1>3, DerivedTransitive

LEMMA FlagThenCloses ==
    ASSUME NEW w, Sound(w), NEW s \in Sessions, NEW f \in Flags, NEW b \in BOOLEAN,
           NEW c \in BOOLEAN, NEW v \in CloseSession(With(w, s, f, b), s, c)
    PROVE  Derived(w, v, s)
<1>1. Derived(w, With(w, s, f, b), s)
  BY SetFlag
<1>2. Sound(With(w, s, f, b))
  BY <1>1 DEF Derived, Shrunk
<1>3. Derived(With(w, s, f, b), v, s)
  BY <1>2, ClosesSession
<1> QED BY <1>1, <1>3, DerivedTransitive

LEMMA PassKeeps ==
    ASSUME Inv, Running, Pass
    PROVE  Served
<1>1. Sound(server) /\ at \in Places
  BY InvKept DEF Kept
<1>2. /\ "needs_to_send_resend_request" \in Flags
      /\ "expecting_response_for_outgoing_test_request" \in Flags
      /\ "needs_responding_to_incoming_resend_request" \in Flags
      /\ "needs_responding_to_incoming_test_request" \in Flags
  BY DEF Flags
<1>3. /\ PassSteps = {"resend_request", "test_request", "respond_resend",
                      "respond_test", "heartbeat", "schedule"}
      /\ at.step \in PassSteps => at.session \in Sessions
  BY <1>1, PlacesAre DEF PassSteps
<1>4. ASSUME NEW expired \in BOOLEAN, process_outgoing_resend_request(expired)
      PROVE  Served
  <2>1. UNCHANGED is_ha_primary /\ at.session \in Sessions
    BY <1>3, <1>4 DEF process_outgoing_resend_request, InPass
  <2>2. PICK W : /\ Do(W, Place("test_request", at.session, None))
                 /\ \/ W = {server}
                    \/ W = CloseSession(server, at.session, FALSE)
                    \/ W = {With(set_state(v, at.session,
                                    "IN_RETRANSMISSION_INITIATED_BY_SELF"), at.session,
                                 "needs_to_send_resend_request", FALSE) :
                               v \in send_bytes(server, at.session)}
    BY <1>4 DEF process_outgoing_resend_request, Then, Here
  <2>3. \A v \in W : Derived(server, v, at.session)
    <3>1. \A u \in send_bytes(server, at.session) :
             Derived(server, With(set_state(u, at.session,
                                     "IN_RETRANSMISSION_INITIATED_BY_SELF"), at.session,
                                  "needs_to_send_resend_request", FALSE), at.session)
      BY <1>1, <1>2, <2>1, SendsThenStateAndFlag, LiveServed
    <3>2. \A v \in CloseSession(server, at.session, FALSE) :
             Derived(server, v, at.session)
      BY <1>1, <2>1, ClosesSession
    <3>3. Derived(server, server, at.session)
      BY <1>1, DerivedReflexive
    <3> QED BY <2>2, <3>1, <3>2, <3>3
  <2> QED BY <1>3, <2>1, <2>2, <2>3, PassStep
<1>5. ASSUME NEW expired \in BOOLEAN, process_outgoing_test_request(expired)
      PROVE  Served
  <2>1. UNCHANGED is_ha_primary /\ at.session \in Sessions
    BY <1>3, <1>5 DEF process_outgoing_test_request, InPass
  <2>2. PICK W : /\ Do(W, Place("respond_resend", at.session, None))
                 /\ \/ W = {server}
                    \/ W = CloseSession(With(server, at.session,
                              "expecting_response_for_outgoing_test_request", FALSE),
                              at.session, FALSE)
                    \/ W = {With(v, at.session,
                                 "expecting_response_for_outgoing_test_request", TRUE) :
                               v \in send_bytes(server, at.session)}
    BY <1>5 DEF process_outgoing_test_request, Then, Here
  <2>3. \A v \in W : Derived(server, v, at.session)
    <3>1. \A u \in send_bytes(server, at.session) :
             Derived(server, With(u, at.session,
                        "expecting_response_for_outgoing_test_request", TRUE), at.session)
      BY <1>1, <1>2, <2>1, SendsThenFlag
    <3>2. \A v \in CloseSession(With(server, at.session,
                     "expecting_response_for_outgoing_test_request", FALSE),
                     at.session, FALSE) : Derived(server, v, at.session)
      BY <1>1, <1>2, <2>1, FlagThenCloses
    <3>3. Derived(server, server, at.session)
      BY <1>1, DerivedReflexive
    <3> QED BY <2>2, <3>1, <3>2, <3>3
  <2> QED BY <1>3, <2>1, <2>2, <2>3, PassStep
<1>6. ASSUME respond_to_resend_request PROVE Served
  <2>1. UNCHANGED is_ha_primary /\ at.session \in Sessions
    BY <1>3, <1>6 DEF respond_to_resend_request, InPass
  <2>2. PICK W : /\ Do(W, Place("respond_test", at.session, None))
                 /\ \/ W = {server}
                    \/ W = {With(set_state(v, at.session, "LOGGED_ON"), at.session,
                                 "needs_responding_to_incoming_resend_request", FALSE) :
                               v \in send_bytes(server, at.session)}
    BY <1>6 DEF respond_to_resend_request, Then, Here
  <2>3. \A v \in W : Derived(server, v, at.session)
    <3>1. \A u \in send_bytes(server, at.session) :
             Derived(server, With(set_state(u, at.session, "LOGGED_ON"), at.session,
                        "needs_responding_to_incoming_resend_request", FALSE), at.session)
      BY <1>1, <1>2, <2>1, SendsThenStateAndFlag, LiveServed
    <3>2. Derived(server, server, at.session)
      BY <1>1, DerivedReflexive
    <3> QED BY <2>2, <3>1, <3>2
  <2> QED BY <1>3, <2>1, <2>2, <2>3, PassStep
<1>7. ASSUME respond_to_test_request PROVE Served
  <2>1. UNCHANGED is_ha_primary /\ at.session \in Sessions
    BY <1>3, <1>7 DEF respond_to_test_request, InPass
  <2>2. PICK W : /\ Do(W, Place("heartbeat", at.session, None))
                 /\ \/ W = {server}
                    \/ W = {With(v, at.session,
                                 "needs_responding_to_incoming_test_request", FALSE) :
                               v \in send_bytes(server, at.session)}
    BY <1>7 DEF respond_to_test_request, Then, Here
  <2>3. \A v \in W : Derived(server, v, at.session)
    BY <1>1, <1>2, <2>1, <2>2, DerivedReflexive, SendsThenFlag
  <2> QED BY <1>3, <2>1, <2>2, <2>3, PassStep
<1>8. ASSUME NEW due \in BOOLEAN, send_heartbeat(due) PROVE Served
  <2>1. UNCHANGED is_ha_primary /\ at.session \in Sessions
    BY <1>3, <1>8 DEF send_heartbeat, InPass
  <2>2. PICK W : /\ Do(W, Place("schedule", at.session, None))
                 /\ W = {server} \/ W = send_bytes(server, at.session)
    BY <1>8 DEF send_heartbeat, Then, Here
  <2>3. \A v \in W : Derived(server, v, at.session)
    BY <1>1, <2>1, <2>2, DerivedReflexive, Sends
  <2> QED BY <1>3, <2>1, <2>2, <2>3, PassStep
<1>9. ASSUME NEW valid \in BOOLEAN, process_schedule_validator(valid) PROVE Served
  <2>1. UNCHANGED is_ha_primary /\ at.session \in Sessions
    BY <1>3, <1>9 DEF process_schedule_validator, InPass
  <2>2. PICK W : /\ Do(W, Idle)
                 /\ W = {server} \/ W = CloseSession(server, at.session, TRUE)
    BY <1>9 DEF process_schedule_validator, Here
  <2>3. \A v \in W : Derived(server, v, at.session)
    BY <1>1, <2>1, <2>2, DerivedReflexive, ClosesSession
  <2> QED BY <2>1, <2>2, <2>3, PassStep
<1> QED BY <1>4, <1>5, <1>6, <1>7, <1>8, <1>9 DEF Pass

-----------------------------------------------------------------------------
(* The steps of the reactor                                                *)

(* A step of the thread for no session, back to idle.                      *)
LEMMA SessionlessStep ==
    ASSUME Inv, Running, UNCHANGED is_ha_primary,
           NEW W, Do(W, Idle), \A v \in W : Derived(server, v, None)
    PROVE  Served
<1>1. is_ha_primary' \in BOOLEAN
  BY InvKept
<1> QED BY <1>1, IdleIs, NoneIsNobody, ServingKeepsInv

LEMMA AcceptNewConnectionKeeps ==
    ASSUME Inv, Running, accept_new_connection
    PROVE  Served
<1>1. Kept /\ is_ha_primary \in BOOLEAN
  BY InvKept
<1>2. PICK p \in Peers \ server.connected :
         Do({[server EXCEPT !.connected = @ \cup {p}]}, Idle)
  BY DEF accept_new_connection
<1>3. /\ server' = [server EXCEPT !.connected = @ \cup {p}]
      /\ at' = Idle
      /\ identified' = [q \in Peers |-> IF q \in server'.connected
                                        THEN identified[q] ELSE None]
      /\ is_ha_primary' = is_ha_primary
  BY <1>2 DEF Do, accept_new_connection
<1>4. /\ server \in Server /\ Inverse(server) /\ Bound(server)
  BY <1>1 DEF Kept, Sound
<1>5. /\ server' \in Server
      /\ server'.session = server.session
      /\ server'.peer_index = server.peer_index
      /\ server'.session_of = server.session_of
      /\ server'.connected = server.connected \cup {p}
  BY <1>3, <1>4 DEF Server
<1>6. Sound(server')
  BY <1>4, <1>5 DEF Sound, Inverse, Bound
<1>7. identified' \in [Peers -> Sessions \cup {None}]
  BY <1>1, <1>3 DEF Kept
<1>8. ASSUME NEW s \in Sessions, server'.peer_index[s] # None
      PROVE  identified'[server'.peer_index[s]] = s
  <2>1. server.peer_index[s] \in server.connected
    BY <1>4, <1>5, <1>8 DEF Bound
  <2>2. server.peer_index[s] \in Peers
    BY <1>4, <2>1 DEF Server
  <2>3. identified[server.peer_index[s]] = s
    BY <1>1, <1>5, <1>8 DEF Kept
  <2> QED BY <1>3, <1>5, <2>1, <2>2, <2>3
<1>9. at' \in Places /\ Unidentified' /\ Attended'
  BY <1>3, IdleIs DEF Unidentified, Attended
<1>10. Inv'
  BY <1>1, <1>3, <1>5, <1>6, <1>7, <1>8, <1>9
     DEF Inv, TypeOK, Sound, SpeaksToItsClient, Running
<1>11. /\ NotTaken(server, server') /\ Local(server, server')
       /\ Refused(server, server')
  BY <1>5 DEF NotTaken, Local, Refused, Orphan, State
<1> QED BY <1>10, <1>11 DEF Served

LEMMA OnDataReadyKeeps ==
    ASSUME Inv, Running, NEW p \in Peers, on_data_ready(p)
    PROVE  Served
<1>1. Kept /\ is_ha_primary \in BOOLEAN /\ Sound(server)
  BY InvKept DEF Kept
<1>2. UNCHANGED is_ha_primary /\ p \in server.connected
  BY DEF on_data_ready
<1>3. CASE Do({on_client_disconnected(server, p)}, Idle)
  BY <1>1, <1>2, <1>3, Disconnected, SessionlessStep
<1>4. CASE Do({server}, Place("receiving", server.session_of[p], p))
  <2> DEFINE s == server.session_of[p]
  <2>1. s \in Sessions \cup {None}
    BY <1>1 DEF Sound, Server
  <2>2. s \in Sessions => ~Orphan(server, s)
    BY <1>1, NoneIsNobody DEF Sound, Inverse, Orphan
  <2>3. \A v \in {server} : Derived(server, v, s)
    BY <1>1, DerivedReflexive
  <2>4. Place("receiving", s, p) \in Places
    BY <2>1, PlacesInclude
  <2>5. CASE s \in Sessions
    <3>1. Place("receiving", s, p).session = s /\ s # None
      BY <2>5, PlaceFields, NoneIsNobody
    <3>2. is_ha_primary' \in BOOLEAN
      BY <1>1, <1>2
    <3> QED BY <1>4, <2>2, <2>3, <2>4, <3>1, <3>2, ServingKeepsInv
  <2>6. CASE s = None
    <3>1. /\ Kept' /\ server' \in {server} /\ at' = Place("receiving", s, p)
          /\ NotTaken(server, server')
          /\ Local(server, server')
          /\ Refused(server, server')
      BY <1>1, <1>4, <2>2, <2>3, DoServes
    <3>2. at'.session = None /\ at'.peer = p
      BY <2>6, <3>1, PlaceFields
    <3>3. Unidentified' /\ Attended'
      BY <1>2, <2>6, <3>1, <3>2 DEF Unidentified, Attended
    <3>4. Inv'
      BY <1>1, <1>2, <2>4, <3>1, <3>3
         DEF Inv, Kept, TypeOK, Sound, SpeaksToItsClient, Running
    <3> QED BY <3>1, <3>4 DEF Served
  <2> QED BY <2>1, <2>5, <2>6
<1> QED BY <1>3, <1>4 DEF on_data_ready

LEMMA AcceptSessionKeeps ==
    ASSUME Inv, Running, accept_session
    PROVE  Served
<1>1. Sound(server) /\ at.peer \in Peers
  BY InvKept, PlacesAre DEF Kept, accept_session
<1>2. \A v \in process_connection_closure(server, at.peer, FALSE) :
         Derived(server, v, None)
  BY <1>1, Closes
<1> QED BY <1>2, SessionlessStep DEF accept_session

LEMMA EndOfBufferKeeps ==
    ASSUME Inv, Running, end_of_buffer
    PROVE  Served
<1>1. Sound(server)
  BY InvKept DEF Kept
<1>2. \A v \in {server} : Derived(server, v, None)
  BY <1>1, DerivedReflexive
<1> QED BY <1>2, SessionlessStep DEF end_of_buffer

LEMMA NextMessagePlace ==
    ASSUME NEW v, NEW s \in Sessions, at.peer \in Peers
    PROVE  /\ NextMessage(v, s) \in Places
           /\ NextMessage(v, s).session \in {s, None}
           /\ NextMessage(v, s).step = "receiving" => NextMessage(v, s).session # None
           /\ NextMessage(v, s).step # "stopped"
  BY PlacesInclude, PlaceFields, IdleIs, NoneIsNobody DEF NextMessage

LEMMA ProcessMessageKeeps ==
    ASSUME Inv, Running, process_message
    PROVE  Served
<1>1. /\ Sound(server) /\ at.session \in Sessions /\ at.peer \in Peers
      /\ ~Orphan(server, at.session) /\ is_ha_primary' \in BOOLEAN
  BY InvKept, PlacesAre, NoneIsNobody DEF Kept, process_message, Attended
<1>2. PICK v \in Outcomes(server, at.session, Incoming) :
         Do({v}, NextMessage(v, at.session))
  BY DEF process_message
<1>3. PICK m \in Incoming, over_limit \in BOOLEAN :
         v \in process_incoming_fix_message(server, at.session, at.peer, m, over_limit)
  BY DEF Outcomes
<1>4. Derived(server, v, at.session)
  BY <1>1, <1>3, Processes
<1>5. \A u \in {v} : Derived(server, u, at.session)
  BY <1>4
<1>6. /\ NextMessage(v, at.session) \in Places
      /\ NextMessage(v, at.session).session \in {at.session, None}
      /\ NextMessage(v, at.session).step = "receiving"
            => NextMessage(v, at.session).session # None
  BY <1>1, NextMessagePlace
<1> QED BY <1>1, <1>2, <1>5, <1>6, ServingKeepsInv

(* The Logon moves the session to this slot and is then processed on it.   *)
LEMMA AcceptAndProcessKeeps ==
    ASSUME Inv, Running, NEW s \in Sessions, accept_and_process(s)
    PROVE  Inv' /\ NotTaken(server, server') /\ Refused(server, server')
<1> DEFINE p == at.peer
           a == Accepted(server, p, s)
<1>1. /\ Kept /\ Sound(server) /\ is_ha_primary \in BOOLEAN
      /\ p \in Peers /\ p \in server.connected /\ server.session_of[p] = None
  BY InvKept, PlacesAre DEF Kept, accept_and_process, Unidentified
<1>2. PICK v \in Outcomes(a, s, LogonsOf(s)) :
         /\ server' = v
         /\ at' = NextMessage(v, s)
         /\ identified' = [q \in Peers |->
                IF q \notin v.connected THEN None
                ELSE IF q = p THEN s ELSE identified[q]]
  BY DEF accept_and_process
<1>3. /\ \A m \in LogonsOf(s) : m \in Incoming
      /\ \E m \in LogonsOf(s) : m.to = s /\ Acceptable(server, m, TRUE)
  <2>1. Basic \in Incoming /\ Basic.type = "INVALID"
    BY DEF Incoming, Basic
  <2>2. \A m \in LogonsOf(s) : m \in Incoming /\ (m.to = s \/ m.type = "INVALID")
    BY <2>1, Zenon DEF LogonsOf
  <2>3. PICK m \in LogonsOf(s) : Acceptable(server, m, TRUE)
    BY DEF accept_and_process
  <2>4. m.type = "LOGON"
    BY <2>3 DEF Acceptable
  <2> QED BY <2>2, <2>3, <2>4
<1> PICK m \in LogonsOf(s), over_limit \in BOOLEAN :
         v \in process_incoming_fix_message(a, s, p, m, over_limit)
  BY DEF Outcomes
<1>4. /\ m \in Incoming
      /\ ~is_state_live(State(server, s)) /\ State(server, s) # "DISABLED"
  BY <1>3, Zenon DEF Acceptable
<1>5. /\ Sound(a) /\ a.connected = server.connected
      /\ a.peer_index = [server.peer_index EXCEPT ![s] = p]
      /\ \A t \in Sessions :
            State(a, t) = IF t = s THEN "PENDING_LOGON" ELSE State(server, t)
  BY <1>1, Accepts
<1>6. \A t \in Sessions : a.peer_index[t] = IF t = s THEN p ELSE server.peer_index[t]
  BY <1>1, <1>5 DEF Sound, Server
<1> HIDE DEF a
<1>7. Derived(a, v, s)
  BY <1>1, <1>4, <1>5, Processes
<1>8. /\ Sound(v) /\ v.connected \subseteq a.connected
      /\ \A t \in Sessions : v.peer_index[t] \in {a.peer_index[t], None}
  BY <1>7 DEF Derived, Shrunk
<1>9. identified' \in [Peers -> Sessions \cup {None}]
  BY <1>1, <1>2 DEF Kept
<1>10. ASSUME NEW t \in Sessions, v.peer_index[t] # None
       PROVE  identified'[v.peer_index[t]] = t
  <2>1. v.peer_index[t] \in v.connected
    BY <1>8, <1>10 DEF Sound, Bound
  <2>2. v.peer_index[t] \in Peers
    BY <1>8, <2>1 DEF Sound, Server
  <2>3. CASE t = s
    <3>1. v.peer_index[t] = p
      BY <1>6, <1>8, <1>10, <2>3
    <3> QED BY <1>2, <2>1, <2>2, <2>3, <3>1
  <2>4. CASE t # s
    <3>1. v.peer_index[t] = server.peer_index[t]
      BY <1>6, <1>8, <1>10, <2>4
    <3>2. server.peer_index[t] # p
      BY <1>1, <1>10, <3>1, NoneIsNobody DEF Sound, Inverse
    <3>3. identified[server.peer_index[t]] = t
      BY <1>1, <1>10, <3>1 DEF Kept
    <3> QED BY <1>2, <2>1, <2>2, <3>1, <3>2, <3>3
  <2> QED BY <2>3, <2>4
<1>11. NotTaken(server, server')
  BY <1>2, <1>4, <1>6, <1>8 DEF NotTaken
<1>12. Refused(server, server')
  <2> SUFFICES ASSUME NEW t \in Sessions, Orphan(server, t)
               PROVE  State(server', t) = "DISABLED"
    BY DEF Refused
  <2>1. t # s
    BY <1>4 DEF Orphan
  <2> QED BY <1>2, <1>5, <1>6, <1>7, <2>1 DEF Derived, Orphan
<1>13. /\ at' \in Places /\ at'.session \in {s, None}
       /\ at'.step = "receiving" => at'.session # None
  BY <1>1, <1>2, NextMessagePlace
<1>14. Unidentified' /\ Attended'
  <2>1. ~Orphan(a, s)
    BY <1>5 DEF Orphan
  <2>2. ~Orphan(server', s)
    BY <1>2, <1>7, <2>1 DEF Derived
  <2> QED BY <1>13, <2>2 DEF Unidentified, Attended
<1>15. is_ha_primary' = is_ha_primary
  BY DEF accept_and_process
<1>16. Inv'
  BY <1>1, <1>2, <1>8, <1>9, <1>10, <1>13, <1>14, <1>15
     DEF Inv, TypeOK, Sound, SpeaksToItsClient, Running
<1> QED BY <1>11, <1>12, <1>16

-----------------------------------------------------------------------------
(* Administration and stopping                                             *)

LEMMA SetAnyState ==
    ASSUME NEW w, NEW v, Sound(w), Shrunk(w, v), NEW s \in Sessions, NEW x \in SessionState
    PROVE  Shrunk(w, set_state(v, s, x))
<1> DEFINE u == set_state(v, s, x)
<1>1. v \in Server /\ Inverse(v) /\ Bound(v)
  BY DEF Shrunk, Sound
<1>2. /\ u \in Server
      /\ u.peer_index = v.peer_index /\ u.session_of = v.session_of
      /\ u.connected = v.connected
  BY <1>1, SetStateIs
<1> HIDE DEF u
<1>3. Shrunk(w, u)
  BY <1>1, <1>2 DEF Shrunk, Sound, Inverse, Bound
<1> QED BY <1>3 DEF u

LEMMA ProcessLiveKeeps ==
    ASSUME Inv, Running, is_ha_primary' \in BOOLEAN, NEW s \in Sessions,
           NEW W, \A v \in W : Shrunk(server, v), ProcessLive(W, s)
    PROVE  Inv' /\ NotTaken(server, server')
<1>1. Kept
  BY InvKept
<1>2. PICK v \in W : Do({v}, IF is_state_live(State(v, s))
                             THEN Place("resend_request", s, None) ELSE Idle)
  BY DEF ProcessLive
<1>3. /\ Kept' /\ server' \in {v}
      /\ at' = IF is_state_live(State(v, s))
               THEN Place("resend_request", s, None) ELSE Idle
      /\ NotTaken(server, server')
  BY <1>1, <1>2, DoKeeps
<1>4. at' \in Places
  BY <1>3, PlacesInclude DEF PassSteps
<1>5. Unidentified'
  BY <1>3, PlaceFields, IdleIs DEF Unidentified
<1>6. Attended'
  <2>1. CASE is_state_live(State(v, s))
    <3>1. at'.session = s
      BY <1>3, <2>1, PlaceFields
    <3>2. ~Orphan(server', s)
      BY <1>3, <2>1 DEF is_state_live, LiveStates, Orphan
    <3> QED BY <3>1, <3>2 DEF Attended
  <2>2. CASE ~is_state_live(State(v, s))
    BY <1>3, <2>2, IdleIs DEF Attended
  <2> QED BY <2>1, <2>2
<1>7. Inv'
  BY <1>3, <1>4, <1>5, <1>6 DEF Inv, Kept, TypeOK, Sound, SpeaksToItsClient, Running
<1> QED BY <1>3, <1>7

LEMMA NoCommandKeeps ==
    ASSUME Inv, Running, NEW s \in Sessions, no_admin_command(s)
    PROVE  Served
<1>1. Sound(server) /\ is_ha_primary' \in BOOLEAN
  BY InvKept DEF no_admin_command, Kept
<1>2. \A v \in {server} : Shrunk(server, v)
  BY <1>1 DEF Shrunk
<1>3. Inv' /\ NotTaken(server, server')
  BY <1>1, <1>2, ProcessLiveKeeps DEF no_admin_command
<1>4. server' = server
  BY DEF no_admin_command, ProcessLive, Do
<1>5. Local(server, server') /\ Refused(server, server')
  BY <1>4 DEF Local, Refused, Orphan
<1> QED BY <1>3, <1>5 DEF Served

LEMMA Disables ==
    ASSUME NEW w, Sound(w), NEW s \in Sessions, NEW v \in disable_session(w, s)
    PROVE  Shrunk(w, v)
<1>1. PICK u \in (IF is_state_live(State(w, s)) THEN CloseSession(w, s, TRUE) ELSE {w}) :
         v = set_state(u, s, "DISABLED")
  BY DEF disable_session
<1>2. Derived(w, u, s)
  BY <1>1, ClosesSession, DerivedReflexive
<1>3. Shrunk(w, u)
  BY <1>2 DEF Derived
<1>4. "DISABLED" \in SessionState
  BY DEF SessionState
<1> QED BY <1>1, <1>3, <1>4, SetAnyState

LEMMA Enables ==
    ASSUME NEW w, Sound(w), NEW s \in Sessions
    PROVE  \A v \in {enable_session(w, s)} : Shrunk(w, v)
<1>1. Shrunk(w, w) /\ "DISCONNECTED" \in SessionState
  BY DEF Shrunk, SessionState
<1> QED BY <1>1, SetAnyState DEF enable_session

LEMMA OperatorKeeps ==
    ASSUME Inv, Running, Operator
    PROVE  Inv' /\ NotTaken(server, server')
<1>1. Sound(server) /\ is_ha_primary \in BOOLEAN
  BY InvKept DEF Kept
<1>2. ASSUME NEW s \in Sessions, process_admin_command(s)
      PROVE  Inv' /\ NotTaken(server, server')
  <2>1. is_ha_primary' \in BOOLEAN
    BY <1>1, <1>2 DEF process_admin_command
  <2>2. CASE ProcessLive(disable_session(server, s), s)
    BY <1>1, <2>1, <2>2, Disables, ProcessLiveKeeps
  <2>3. CASE ProcessLive({enable_session(server, s)}, s)
    BY <1>1, <2>1, <2>3, Enables, ProcessLiveKeeps
  <2>4. CASE ProcessLive(send_bytes(server, s), s)
    <3>1. \A v \in send_bytes(server, s) : Derived(server, v, s)
      BY <1>1, Sends
    <3>2. \A v \in send_bytes(server, s) : Shrunk(server, v)
      BY <3>1 DEF Derived
    <3> QED BY <2>1, <2>4, <3>2, ProcessLiveKeeps
  <2> QED BY <1>2, <2>2, <2>3, <2>4 DEF process_admin_command
<1>3. ASSUME NEW s \in Sessions, NEW b \in BOOLEAN, set_is_ha_primary(s, b)
      PROVE  Inv' /\ NotTaken(server, server')
  <2>1. is_ha_primary' \in BOOLEAN
    BY <1>3 DEF set_is_ha_primary
  <2>2. CASE b
    BY <1>1, <1>3, <2>1, <2>2, Enables, ProcessLiveKeeps DEF set_is_ha_primary
  <2>3. CASE ~b
    BY <1>1, <1>3, <2>1, <2>3, Disables, ProcessLiveKeeps DEF set_is_ha_primary
  <2> QED BY <2>2, <2>3
<1> QED BY <1>2, <1>3 DEF Operator

LEMMA StopKeeps ==
    ASSUME Inv, Running, Stop
    PROVE  Inv' /\ NotTaken(server, server')
<1>1. Kept /\ Sound(server) /\ is_ha_primary \in BOOLEAN /\ at \in Places
  BY InvKept DEF Kept
<1> DEFINE stopping == Place("stopping", None, None)
<1>2. /\ stopping \in Places /\ stopping.session = None /\ stopping.step = "stopping"
  BY PlacesInclude, PlaceFields
<1>3. ASSUME at.step = "stopping" PROVE at = stopping
  <2> DEFINE P(step, s, p) == Place(step, s, p)
  <2>1. \A step, s, p : P(step, s, p).step = step
    BY PlaceFields
  <2>2. Places = {P("idle", None, None), P("stopping", None, None),
                  P("stopped", None, None)}
                 \cup {P(step, s, None) : step \in PassSteps, s \in Sessions}
                 \cup {P("receiving", s, p) : s \in Sessions \cup {None}, p \in Peers}
    BY DEF Places, Idle
  <2>3. "stopping" \notin PassSteps
    BY DEF PassSteps
  <2> HIDE DEF P
  <2>4. at = P("stopping", None, None)
    BY <1>1, <1>3, <2>1, <2>2, <2>3
  <2> QED BY <2>4 DEF P
<1> HIDE DEF stopping
<1>4. CASE stop
  <2>1. Do({server}, stopping) /\ is_ha_primary' = is_ha_primary
    BY <1>4 DEF stop, stopping
  <2>2. \A v \in {server} : Shrunk(server, v)
    BY <1>1 DEF Shrunk
  <2>3. Kept' /\ at' = stopping /\ NotTaken(server, server')
    BY <1>1, <2>1, <2>2, DoKeeps
  <2> QED BY <1>1, <1>2, <2>1, <2>3 DEF Inv, Kept, TypeOK, Sound, SpeaksToItsClient,
          Running, Unidentified, Attended
<1>5. CASE send_logout_messages_to_all_sessions
  <2>1. PICK s \in Sessions :
           Do({set_state(v, s, "DISCONNECTED") : v \in send_bytes(server, s)}, at)
    BY <1>5 DEF send_logout_messages_to_all_sessions
  <2>2. at = stopping /\ is_ha_primary' = is_ha_primary
    BY <1>3, <1>5 DEF send_logout_messages_to_all_sessions
  <2>3. \A v \in send_bytes(server, s) : Derived(server, v, s)
    BY <1>1, Sends
  <2>4. \A v \in send_bytes(server, s) : Shrunk(server, v)
    BY <2>3 DEF Derived
  <2>5. "DISCONNECTED" \in SessionState
    BY DEF SessionState
  <2>6. \A v \in send_bytes(server, s) :
           Shrunk(server, set_state(v, s, "DISCONNECTED"))
    BY <1>1, <2>4, <2>5, SetAnyState
  <2> DEFINE W == {set_state(v, s, "DISCONNECTED") : v \in send_bytes(server, s)}
  <2>7. \A v \in W : Shrunk(server, v)
    BY <2>6
  <2>8. Do(W, at)
    BY <2>1
  <2> HIDE DEF W
  <2>9. Kept' /\ at' = stopping /\ NotTaken(server, server')
    BY <1>1, <2>2, <2>7, <2>8, DoKeeps
  <2> QED BY <1>1, <1>2, <2>2, <2>9 DEF Inv, Kept, TypeOK, Sound, SpeaksToItsClient,
          Running, Unidentified, Attended
<1>6. CASE stopped
  <2> DEFINE place == Place("stopped", None, None)
  <2>1. place \in Places /\ place.session = None /\ place.step = "stopped"
    BY PlacesInclude, PlaceFields
  <2>2. /\ server' = [server EXCEPT !.connected = {}]
        /\ at' = place /\ is_ha_primary' = is_ha_primary
        /\ identified' = [p \in Peers |-> IF p \in server'.connected
                                          THEN identified[p] ELSE None]
    BY <1>6 DEF stopped, Do
  <2> HIDE DEF place
  <2>3. /\ server' \in Server /\ server'.peer_index = server.peer_index
        /\ server'.session_of = server.session_of
    BY <1>1, <2>2 DEF Sound, Server
  <2>4. identified' \in [Peers -> Sessions \cup {None}]
    BY <1>1, <2>2 DEF Kept
  <2>5. NotTaken(server, server')
    BY <2>3 DEF NotTaken
  <2> QED BY <1>1, <2>1, <2>2, <2>3, <2>4, <2>5 DEF Inv, TypeOK, Sound, Inverse,
          SpeaksToItsClient, Running, Unidentified, Attended
<1> QED BY <1>4, <1>5, <1>6 DEF Stop

-----------------------------------------------------------------------------
(* The theorems                                                            *)

LEMMA EventsKeep ==
    ASSUME Inv, Running, Events
    PROVE  /\ Inv' /\ NotTaken(server, server') /\ Refused(server, server')
           /\ Local(server, server') \/ (at.step = "receiving" /\ at.session = None)
<1>1. CASE accept_new_connection
  BY <1>1, AcceptNewConnectionKeeps DEF Served
<1>2. ASSUME NEW p \in Peers, on_data_ready(p) PROVE Served
  BY <1>2, OnDataReadyKeeps
<1>3. CASE accept_session
  BY <1>3, AcceptSessionKeeps DEF Served
<1>4. ASSUME NEW s \in Sessions, accept_and_process(s)
      PROVE  /\ Inv' /\ NotTaken(server, server') /\ Refused(server, server')
             /\ at.step = "receiving" /\ at.session = None
  BY <1>4, AcceptAndProcessKeeps DEF accept_and_process
<1>5. CASE process_message
  BY <1>5, ProcessMessageKeeps DEF Served
<1>6. CASE end_of_buffer
  BY <1>6, EndOfBufferKeeps DEF Served
<1> QED BY <1>1, <1>2, <1>3, <1>4, <1>5, <1>6 DEF Events, Served

(* The stopped server takes no step.                                       *)
LEMMA StoppedStays ==
    ASSUME Inv, ~Running, Next
    PROVE  FALSE
<1>1. at.step = "stopped"
  BY DEF Running
<1>2. at # Idle /\ at.step \notin PassSteps \cup {"receiving", "stopping"}
  BY <1>1, IdleIs DEF PassSteps
<1>3. ~Events /\ ~(\E s \in Sessions : no_admin_command(s)) /\ ~Operator
  BY <1>2 DEF Events, accept_new_connection, on_data_ready, accept_session,
     accept_and_process, process_message, end_of_buffer, no_admin_command, Operator,
     process_admin_command, set_is_ha_primary
<1>4. ~Pass /\ ~Stop
  BY <1>1, <1>2 DEF Pass, InPass, process_outgoing_resend_request,
     process_outgoing_test_request, send_heartbeat, process_schedule_validator,
     respond_to_resend_request, respond_to_test_request, PassSteps, Stop, stop,
     send_logout_messages_to_all_sessions, stopped
<1> QED BY <1>3, <1>4 DEF Next

LEMMA Steps ==
    ASSUME Inv, [Next]_vars
    PROVE  /\ Inv' /\ NotTaken(server, server')
           /\ \/ Local(server, server')
              \/ at.step = "receiving" /\ at.session = None
              \/ Operator \/ Stop
           /\ Refused(server, server') \/ Operator \/ Stop
<1>1. CASE UNCHANGED vars
  <2>1. Inv'
    BY <1>1 DEF vars, Inv, TypeOK, Running, SpeaksToItsClient, Unidentified, Attended
  <2>2. NotTaken(server, server') /\ Local(server, server') /\ Refused(server, server')
    BY <1>1 DEF vars, NotTaken, Local, Refused, Orphan
  <2> QED BY <2>1, <2>2
<1>2. CASE Next
  <2>1. Running
    BY <1>2, StoppedStays
  <2>2. CASE Events
    BY <2>1, <2>2, EventsKeep
  <2>3. ASSUME NEW s \in Sessions, no_admin_command(s) PROVE Served
    BY <2>1, <2>3, NoCommandKeeps
  <2>4. CASE Pass
    BY <2>1, <2>4, PassKeeps DEF Served
  <2>5. CASE Operator
    BY <2>1, <2>5, OperatorKeeps
  <2>6. CASE Stop
    BY <2>1, <2>6, StopKeeps
  <2> QED BY <1>2, <2>2, <2>3, <2>4, <2>5, <2>6 DEF Next, Served
<1> QED BY <1>1, <1>2

LEMMA InitKeeps == Init => Inv
<1> SUFFICES ASSUME Init PROVE Inv
  OBVIOUS
<1> DEFINE x == IF starts_as_primary THEN "DISCONNECTED" ELSE "DISABLED"
           fresh == [state |-> x,
                     needs_to_send_resend_request |-> FALSE,
                     needs_responding_to_incoming_resend_request |-> FALSE,
                     needs_responding_to_incoming_test_request |-> FALSE,
                     expecting_response_for_outgoing_test_request |-> FALSE]
<1>1. x \in SessionState
  BY DEF SessionState
<1> HIDE DEF x
<1>2. fresh \in ServerSession
  BY <1>1 DEF ServerSession
<1> HIDE DEF fresh
<1>3. server = [session |-> [s \in Sessions |-> fresh],
                session_of |-> [p \in Peers |-> None],
                peer_index |-> [s \in Sessions |-> None],
                connected |-> {}, crashed |-> FALSE]
  BY DEF Init, fresh, x
<1>4. /\ server.session = [s \in Sessions |-> fresh]
      /\ server.session_of = [p \in Peers |-> None]
      /\ server.peer_index = [s \in Sessions |-> None]
  BY <1>3
<1>5. server \in Server
  BY <1>2, <1>3 DEF Server
<1>6. is_ha_primary \in BOOLEAN /\ at = Idle /\ identified = [p \in Peers |-> None]
  BY ServerAssumption DEF Init
<1>7. Inverse(server) /\ Bound(server)
  BY <1>4, NoneIsNobody DEF Inverse, Bound
<1>8. Unidentified /\ Attended
  BY <1>6, IdleIs DEF Unidentified, Attended
<1> QED BY <1>4, <1>5, <1>6, <1>7, <1>8, IdleIs DEF Inv, TypeOK, SpeaksToItsClient

LEMMA Invariance == Spec => []Inv
<1>1. Inv /\ [Next]_vars => Inv'
  BY Steps
<1> QED BY <1>1, InitKeeps, PTL DEF Spec

(* The tables, the sessions and the place of the thread keep their types,  *)
(* whatever a send that fails in the middle of a handler undoes.           *)
THEOREM ServerTypeCorrect == Spec => []TypeOK
<1>1. Inv => TypeOK
  BY DEF Inv
<1> QED BY <1>1, Invariance, PTL

(* FixServerConnectors: from any sequence of Logons, relogons, closures    *)
(* and reused slots the two tables stay inverses of each other, and bind   *)
(* only connected slots while the server runs.                             *)
THEOREM TablesStayInverse == Spec => []TablesAgree
<1>1. Inv => TablesAgree
  BY NoneIsNobody DEF Inv, Inverse, Bound, TablesAgree
<1> QED BY <1>1, Invariance, PTL

(* The slot to which a session sends is one on which that session logged   *)
(* on last: a recycled slot never carries another client's messages.       *)
THEOREM SessionsSpeakToTheirClients == Spec => []SpeaksToItsClient
<1>1. Inv => SpeaksToItsClient
  BY DEF Inv
<1> QED BY <1>1, Invariance, PTL

(* accept_session's check: no step moves a live session with a connection  *)
(* to another connection.                                                  *)
THEOREM LiveSessionsAreNotTaken == Spec => LiveSessionNotTaken
<1>1. Inv /\ [Next]_vars =>
         [\A s \in Sessions :
            is_state_live(State(server, s)) /\ server.peer_index[s] # None
               => server'.peer_index[s] \in {server.peer_index[s], None}]_vars
  BY Steps DEF NotTaken
<1> QED BY <1>1, Invariance, PTL DEF Spec, LiveSessionNotTaken

(* on_client_disconnected: outside a command, stop() and the session's own *)
(* new Logon, a session becomes disconnected only with its own connection. *)
THEOREM ClosuresAreLocal == Spec => ClosureIsLocal
<1>1. Inv /\ [Next]_vars =>
         [\A s \in Sessions :
            (/\ server.peer_index[s] \in server'.connected
             /\ State(server, s) # "DISCONNECTED" /\ State(server', s) = "DISCONNECTED")
                => \/ at.step = "receiving" /\ at.session = None
                   \/ Operator \/ Stop]_vars
  BY Steps DEF Local
<1> QED BY <1>1, Invariance, PTL DEF Spec, ClosureIsLocal

(* accept_session refuses a disabled session: one without a connection     *)
(* stays disabled until a command or stop().                               *)
THEOREM DisabledSessionsAreRefused == Spec => DisabledIsRefused
<1>1. Inv /\ [Next]_vars =>
         [\A s \in Sessions :
            State(server, s) = "DISABLED" /\ server.peer_index[s] = None
               => State(server', s) = "DISABLED" \/ Operator \/ Stop]_vars
  BY Steps DEF Refused, Orphan
<1> QED BY <1>1, Invariance, PTL DEF Spec, DisabledIsRefused
=============================================================================
