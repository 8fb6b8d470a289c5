--------------------------- MODULE FixClientProofs ---------------------------
(***************************************************************************)
(* Proofs about FixClient for every value of its constants: types, the     *)
(* meaning of the stored incoming number, the endpoint flags and the wait  *)
(* for a Logout.                                                           *)
(***************************************************************************)
EXTENDS FixClient, TLAPS

PCs == PassSteps \cup {"idle", "logout_wait", "stuck"}

(* The four invariants that the runs check, together.  What the incoming   *)
(* number stands for depends on the peer's SequenceResets.                 *)
Inv == /\ TypeOK
       /\ ConformingPeer => InOrder
       /\ ConnectedMeansOpen
       /\ LogoutIsAwaited

(* Most of the client leaves the incoming number alone and starts no wait. *)
Harmless(s, t) ==
    /\ t \in Session
    /\ t.incoming_seq_no = s.incoming_seq_no
    /\ t.state = "PENDING_LOGOUT" => s.state = "PENDING_LOGOUT"

-----------------------------------------------------------------------------
(* The session operators are harmless                                      *)

LEMMA ModuloIsNat == \A n \in Nat : n % SeqNoModulus \in Nat
  BY ClientAssumption

LEMMA SendsAreHarmless ==
    ASSUME NEW s \in Session, NEW o
    PROVE  /\ Harmless(s, send_bytes(s, o))
           /\ Harmless(s, send_uncounted(s, o))
           /\ Harmless(s, on_connection_lost(s))
<1>1. (s.outgoing_seq_no + 1) % SeqNoModulus \in Nat
  BY ModuloIsNat DEF Session
<1> DEFINE n == (s.outgoing_seq_no + 1) % SeqNoModulus
<1>2. n \in Nat
  BY <1>1
<1>3. send_bytes(s, o) = CASE o = "sent" -> [s EXCEPT !.outgoing_seq_no = n]
                           [] o = "lost" -> on_connection_lost(s)
                           [] OTHER      -> s
  BY DEF send_bytes
<1> HIDE DEF n
<1> QED BY <1>2, <1>3 DEF Session, SessionState, send_uncounted, on_connection_lost,
        Harmless

LEMMA EditsAreHarmless ==
    ASSUME NEW s \in Session
    PROVE  /\ Harmless(s, reset_flags(s))
           /\ Harmless(s, ResendAnswered(s))
           /\ \A b \in BOOLEAN : Harmless(s, [s EXCEPT
                  !.expecting_response_for_outgoing_test_request = b])
           /\ \A st \in SessionState \ {"PENDING_LOGOUT"} :
                  Harmless(s, [s EXCEPT !.state = st])
           /\ Harmless(s, [s EXCEPT !.needs_responding_to_incoming_test_request = FALSE])
           /\ Harmless(s, [s EXCEPT !.state = "IN_RETRANSMISSION_INITIATED_BY_SELF",
                                    !.needs_to_send_resend_request = FALSE])
           /\ Harmless(s, [s EXCEPT !.received_logout_response = FALSE])
  BY DEF Session, SessionState, LiveStates, reset_flags, ResendAnswered, Harmless

LEMMA PeerMessageType == PeerMessage \subseteq Message
<1>1. \A t \in MsgType, n \in Nat : BasicMessage(t, n) \in Message
  BY DEF Message, MsgType, BasicMessage
<1>2. \A n \in Nat, ok \in BOOLEAN : ResendRequest(n, ok) \in Message
  BY DEF Message, MsgType, BasicMessage, ResendRequest
<1>3. \A n \in Nat, g \in BOOLEAN, w \in Nat, ok \in BOOLEAN :
         SequenceReset(n, g, w, ok) \in Message
  BY DEF Message, MsgType, BasicMessage, SequenceReset
<1>4. 1 .. MaxSeqNo \subseteq Nat /\ 0 .. MaxSeqNo + 1 \subseteq Nat
  BY ClientAssumption
<1>5. {"APP", "TEST_REQUEST", "REJECT", "LOGON", "LOGOUT"} \subseteq MsgType
  BY DEF MsgType
<1> QED BY <1>1, <1>2, <1>3, <1>4, <1>5 DEF PeerMessage

LEMMA AcceptCounts ==
    ASSUME NEW s \in Session, NEW m \in Message
    PROVE  /\ Accept(s, m) \in Session
           /\ Accept(s, m).incoming_seq_no = s.incoming_seq_no + 1
           /\ Accept(s, m).state = "PENDING_LOGOUT" => s.state = "PENDING_LOGOUT"
<1> DEFINE st == IF /\ s.state = "IN_RETRANSMISSION_INITIATED_BY_SELF"
                    /\ m.seq = s.outgoing_resend_request_end_no
                 THEN "LOGGED_ON" ELSE s.state
<1>1. Accept(s, m) = [s EXCEPT !.incoming_seq_no = s.incoming_seq_no + 1, !.state = st]
  BY DEF Accept, Expected, Session
<1>2. st \in SessionState /\ (st = "PENDING_LOGOUT" => s.state = "PENDING_LOGOUT")
  BY DEF Session, SessionState, LiveStates
<1>3. s.incoming_seq_no + 1 \in Nat
  BY DEF Session
<1> HIDE DEF st
<1> QED BY <1>1, <1>2, <1>3 DEF Session

(* Only a SequenceReset that moves forward changes the incoming number.    *)
LEMMA DispatchCounts ==
    ASSUME NEW s \in Session, NEW m \in Message
    PROVE  /\ Dispatch(s, m) \in Session
           /\ Dispatch(s, m).incoming_seq_no =
                 IF m.type = "SEQUENCE_RESET" /\ m.tags_ok /\ m.new > s.incoming_seq_no
                 THEN m.new - 1 ELSE s.incoming_seq_no
           /\ Dispatch(s, m).state = "PENDING_LOGOUT" => s.state = "PENDING_LOGOUT"
<1>1. CASE m.type \in {"APP", "HEARTBEAT"}
  BY <1>1 DEF Dispatch
<1>2. CASE m.type = "TEST_REQUEST"
  BY <1>2 DEF Dispatch, process_test_request_message, Session
<1>3. CASE m.type = "RESEND_REQUEST"
  BY <1>3 DEF Dispatch, process_resend_request, Session, SessionState, LiveStates, Message
<1>4. CASE m.type \in {"REJECT", "LOGON", "LOGOUT"}
  BY <1>4 DEF Dispatch, Session, SessionState, LiveStates
<1>5. CASE m.type = "SEQUENCE_RESET"
  <2>1. Dispatch(s, m) = process_incoming_sequence_reset_message(s, m)
    BY <1>5 DEF Dispatch
  <2>2. CASE m.tags_ok /\ m.new > s.incoming_seq_no
    <3>1. Dispatch(s, m) =
             [s EXCEPT !.incoming_seq_no = m.new - 1, !.state = "LOGGED_ON"]
      BY <2>1, <2>2 DEF process_incoming_sequence_reset_message
    <3>2. m.new - 1 \in Nat /\ "LOGGED_ON" \in SessionState
      BY <2>2 DEF Message, Session, SessionState, LiveStates
    <3> QED BY <1>5, <2>2, <3>1, <3>2 DEF Session
  <2>3. CASE ~(m.tags_ok /\ m.new > s.incoming_seq_no)
    BY <2>1, <2>3 DEF process_incoming_sequence_reset_message
  <2> QED BY <2>2, <2>3
<1> QED BY <1>1, <1>2, <1>3, <1>4, <1>5 DEF Message, MsgType

-----------------------------------------------------------------------------
(* What the ways in which a step ends do to the invariant                  *)

(* s may be the session of the next state, with the thread at next.        *)
Sound(s, next) ==
    /\ s \in Session /\ next \in PCs
    /\ ConformingPeer => covered' = 1 .. s.incoming_seq_no
    /\ s.state = "PENDING_LOGOUT" => next = "logout_wait"

(* The variables that a step does not move along the pass.                 *)
RestTyped ==
    /\ is_ha_primary' \in BOOLEAN
    /\ session_state' \in SessionState
    /\ after_logout' \in {"shutdown", "disable"}
    /\ covered' \subseteq Nat

LEMMA HarmlessIsSound ==
    ASSUME Inv, NEW s, Harmless(session, s), NEW next \in PCs,
           pc = "logout_wait" => next = "logout_wait", covered' = covered
    PROVE  Sound(s, next)
  BY DEF Inv, InOrder, LogoutIsAwaited, Harmless, Sound

LEMMA ProceedInv ==
    ASSUME Inv, NEW s, NEW next, Sound(s, next), Proceed(s, next), RestTyped
    PROVE  Inv'
  BY DEF Inv, TypeOK, InOrder, ConnectedMeansOpen, LogoutIsAwaited, Sound, Proceed,
         RestTyped, PCs

LEMMA ContinueInv ==
    ASSUME Inv, NEW s, NEW next, NEW o, Sound(s, next), Continue(o, s, next), RestTyped,
           o = "stuck" => pc # "logout_wait" /\ covered' = covered
    PROVE  Inv'
<1>1. CASE o = "stuck"
  BY <1>1 DEF Inv, TypeOK, InOrder, ConnectedMeansOpen, LogoutIsAwaited, Continue,
         RestTyped
<1>2. CASE o # "stuck"
  BY <1>2 DEF Inv, TypeOK, InOrder, ConnectedMeansOpen, LogoutIsAwaited, Sound, Continue,
         RestTyped, PCs, Sockets
<1> QED BY <1>1, <1>2

LEMMA ShutDownNowInv ==
    ASSUME Inv, NEW s, NEW next \in PCs, Harmless(session, s), ShutDownNow(s, next),
           is_ha_primary' \in BOOLEAN, session_state' \in SessionState, covered' = covered
    PROVE  Inv'
  BY DEF Inv, TypeOK, InOrder, ConnectedMeansOpen, LogoutIsAwaited, Harmless, ShutDownNow,
         PCs, Sockets, Session, SessionState

LEMMA BeginLogoutInv ==
    ASSUME Inv, NEW caller \in {"shutdown", "disable"}, BeginLogout(caller),
           is_ha_primary' \in BOOLEAN, session_state' \in SessionState, covered' = covered
    PROVE  Inv'
<1> DEFINE s == [on_connection_lost(session) EXCEPT !.received_logout_response = FALSE]
<1>1. PICK o \in SendOutcomes :
         /\ session' = IF o = "stuck" THEN s
                       ELSE [send_bytes(s, o) EXCEPT !.state = "PENDING_LOGOUT"]
         /\ pc' = IF o = "stuck" THEN "stuck" ELSE "logout_wait"
         /\ socket' = IF o = "lost" THEN "broken" ELSE socket
         /\ endpoints' = {}
         /\ after_logout' = caller
  BY DEF BeginLogout
<1>2. Harmless(session, s) /\ s.state = "DISCONNECTED"
  <2>1. session \in Session
    BY DEF Inv, TypeOK
  <2>2. Harmless(session, on_connection_lost(session))
    BY <2>1, SendsAreHarmless
  <2>3. Harmless(on_connection_lost(session), s)
    BY <2>2, EditsAreHarmless DEF Harmless
  <2> QED BY <2>1, <2>2, <2>3 DEF Harmless, on_connection_lost, Session
<1> HIDE DEF s
<1> DEFINE t == send_bytes(s, o)
<1>3. t \in Session /\ t.incoming_seq_no = session.incoming_seq_no
  BY <1>2, SendsAreHarmless DEF Harmless
<1> HIDE DEF t
<1>4. [t EXCEPT !.state = "PENDING_LOGOUT"] \in Session
      /\ [t EXCEPT !.state = "PENDING_LOGOUT"].incoming_seq_no = session.incoming_seq_no
  BY <1>3 DEF Session, SessionState
<1>5. session' \in Session /\ session'.incoming_seq_no = session.incoming_seq_no
  BY <1>1, <1>2, <1>4 DEF t, Harmless
<1>6. session'.state = "PENDING_LOGOUT" => pc' = "logout_wait"
  BY <1>1, <1>2
<1> QED BY <1>1, <1>5, <1>6 DEF Inv, TypeOK, InOrder, ConnectedMeansOpen, LogoutIsAwaited,
        Sockets

-----------------------------------------------------------------------------
LEMMA HarmlessTwice ==
    ASSUME NEW s, NEW t, NEW u, Harmless(s, t), Harmless(t, u)
    PROVE  Harmless(s, u)
  BY DEF Harmless

LEMMA NothingIsHarmless == ASSUME NEW s \in Session PROVE Harmless(s, s)
  BY DEF Harmless

LEMMA StuckWhenClosed ==
    ASSUME Inv, NEW o \in SendOutcomes, o = "stuck" PROVE socket = "closed"
  BY DEF SendOutcomes, Inv, TypeOK, Sockets

LEMMA RestOfPassIsPC == RestOfPass \in PCs
  BY DEF RestOfPass, PCs, PassSteps

(* A step outside the wait for a Logout that sends and goes on, or just    *)
(* goes on, with a session that differs in harmless ways.                  *)
LEMMA SendStepInv ==
    ASSUME Inv, NEW s, Harmless(session, s), NEW next \in PCs, pc # "logout_wait",
           \/ \E o \in SendOutcomes : Continue(o, s, next)
           \/ Proceed(s, next),
           UNCHANGED <<is_ha_primary, session_state, after_logout, covered>>
    PROVE  Inv'
<1>1. Sound(s, next)
  BY HarmlessIsSound
<1>2. RestTyped
  BY DEF Inv, TypeOK, RestTyped
<1>3. CASE \E o \in SendOutcomes : Continue(o, s, next)
  <2>1. PICK o \in SendOutcomes : Continue(o, s, next)
    BY <1>3
  <2>2. covered' = covered
    OBVIOUS
  <2> QED BY <1>1, <1>2, <2>1, <2>2, ContinueInv
<1>4. CASE Proceed(s, next)
  BY <1>1, <1>2, <1>4, ProceedInv
<1> QED BY <1>3, <1>4

-----------------------------------------------------------------------------
LEMMA InitInv == Init => Inv
<1> SUFFICES ASSUME Init PROVE Inv
  OBVIOUS
<1> PICK primary \in BOOLEAN :
        /\ session = [initialise(0, 0) EXCEPT
                         !.state = IF primary THEN @ ELSE "DISABLED"]
        /\ is_ha_primary = primary
  BY DEF Init
<1>1. session \in Session /\ session.incoming_seq_no = 0
      /\ session.state # "PENDING_LOGOUT"
  BY DEF initialise, Session, SessionState
<1>2. covered = {} /\ 1 .. 0 = {}
  BY DEF Init
<1> QED BY <1>1, <1>2 DEF Init, Inv, TypeOK, InOrder, ConnectedMeansOpen, LogoutIsAwaited,
        Sockets, SessionState

(* What the application and a restart do.                                  *)
LEMMA ApplicationInv == Inv /\ (Application \/ Restart) => Inv'
<1> SUFFICES ASSUME Inv, Application \/ Restart PROVE Inv'
  OBVIOUS
<1>s. session \in Session
  BY DEF Inv, TypeOK
<1>1. CASE connect_failed
  <2> DEFINE s == [reset_flags(session) EXCEPT !.state = "DISCONNECTED"]
  <2>1. Harmless(session, s) /\ s.state = "DISCONNECTED"
    BY <1>s DEF reset_flags, Harmless, Session, SessionState
  <2> HIDE DEF s
  <2>2. session' = s
    BY <1>1 DEF connect_failed, s
  <2> QED BY <1>1, <2>1, <2>2 DEF connect_failed, Inv, TypeOK, InOrder, ConnectedMeansOpen,
          LogoutIsAwaited, Harmless, Sockets
<1>2. ASSUME NEW e \in {"primary", "secondary"}, connect(e) PROVE Inv'
  <2> DEFINE s == [reset_flags(session) EXCEPT !.state = "PENDING_LOGON"]
             u == IF LogonResets THEN reset_numbers(s) ELSE s
  <2>1. u \in Session /\ u.state # "PENDING_LOGOUT"
        /\ u.incoming_seq_no = IF LogonResets THEN 0 ELSE session.incoming_seq_no
    BY <1>s DEF reset_flags, reset_numbers, Session, SessionState
  <2>2. PICK o :
           /\ session' = send_bytes(u, o)
           /\ socket' = IF o = "lost" THEN "broken" ELSE "open"
           /\ endpoints' = IF o = "lost" THEN {} ELSE EndpointFlags(e)
    BY <1>2 DEF connect
  <2> HIDE DEF u
  <2>3. Harmless(u, session')
    BY <2>1, <2>2, SendsAreHarmless
  <2>4. EndpointFlags(e) \subseteq {"primary", "secondary"}
    BY DEF EndpointFlags, Inv, TypeOK
  <2>5. covered' = IF LogonResets THEN {} ELSE covered
    BY <1>2 DEF connect
  <2>6. 1 .. 0 = {}
    OBVIOUS
  <2>7. ConformingPeer => InOrder'
    BY <2>1, <2>3, <2>5, <2>6 DEF Inv, InOrder, Harmless
  <2>8. TypeOK'
    BY <1>2, <2>2, <2>3, <2>4, <2>5 DEF connect, Inv, TypeOK, Harmless, Sockets
  <2> QED BY <2>1, <2>2, <2>3, <2>7, <2>8 DEF Inv, ConnectedMeansOpen, LogoutIsAwaited,
          Harmless
<1>3. CASE send_outgoing_message
  <2>1. PICK o \in SendOutcomes : Continue(o, send_bytes(session, o), "idle")
    BY <1>3 DEF send_outgoing_message
  <2>2. Harmless(session, send_bytes(session, o))
    BY <1>s, SendsAreHarmless
  <2> QED BY <1>3, <2>1, <2>2, SendStepInv DEF send_outgoing_message, PCs
<1>4. ASSUME NEW graceful \in BOOLEAN, shutdown(graceful) PROVE Inv'
  <2>1. CASE graceful /\ session.state = "LOGGED_ON"
    BY <1>4, <2>1, BeginLogoutInv DEF shutdown, do_shutdown, Inv, TypeOK
  <2>2. CASE ~(graceful /\ session.state = "LOGGED_ON")
    BY <1>4, <1>s, <2>2, ShutDownNowInv, NothingIsHarmless
       DEF shutdown, do_shutdown, Inv, TypeOK, PCs
  <2> QED BY <2>1, <2>2
<1>5. ASSUME NEW primary \in BOOLEAN, restart(primary) PROVE Inv'
  <2> DEFINE s == [initialise(session.incoming_seq_no, session.outgoing_seq_no)
                      EXCEPT !.state = IF primary THEN @ ELSE "DISABLED"]
  <2>1. Harmless(session, s) /\ s.state # "PENDING_LOGOUT"
    BY <1>s DEF initialise, Harmless, Session, SessionState
  <2> HIDE DEF s
  <2>2. session' = s
    BY <1>5 DEF restart, s
  <2> QED BY <1>5, <2>1, <2>2 DEF restart, Inv, TypeOK, InOrder, ConnectedMeansOpen,
          LogoutIsAwaited, Harmless, Sockets
<1> QED BY <1>1, <1>2, <1>3, <1>4, <1>5 DEF Application, Restart

-----------------------------------------------------------------------------
(* Receiving, in the pass or while a Logout is awaited                     *)

LEMMA HeardIsHarmless == Inv => Harmless(session, Heard)
  BY EditsAreHarmless DEF Inv, TypeOK, Heard

LEMMA ReceiveAcceptedInv ==
    ASSUME Inv, NEW m \in PeerMessage, receive_accepted(m)
    PROVE  Inv'
<1> DEFINE s == Accept(Heard, m)
           rejected == m.type = "SEQUENCE_RESET" /\ IsBackwardReset(s, m)
           n == session.incoming_seq_no + 1
<1>1. m \in Message /\ n \in Nat
  BY PeerMessageType DEF Inv, TypeOK, Session
<1>2. s \in Session /\ s.incoming_seq_no = n
      /\ (s.state = "PENDING_LOGOUT" => session.state = "PENDING_LOGOUT")
  BY <1>1, HeardIsHarmless, AcceptCounts DEF Harmless
<1>3. pc \in PCs /\ (session.state = "PENDING_LOGOUT" => pc = "logout_wait")
      /\ socket # "closed"
  BY DEF Inv, LogoutIsAwaited, receive_accepted, CanReceive, PCs, PassSteps
<1>4. covered' = covered
          \cup (IF is_a_hard_sequence_reset_message(m) THEN {} ELSE {m.seq})
          \cup (IF m.type = "SEQUENCE_RESET" /\ m.tags_ok /\ ~rejected
                THEN 1 .. m.new - 1 ELSE {})
      /\ UNCHANGED <<is_ha_primary, session_state, after_logout>>
  BY DEF receive_accepted
<1>5. RestTyped
  <2>1. m.seq \in Nat /\ 1 .. m.new - 1 \subseteq Nat
    BY <1>1 DEF Message
  <2>2. covered \subseteq Nat
    BY DEF Inv, TypeOK
  <2> QED BY <1>4, <2>1, <2>2 DEF Inv, TypeOK, RestTyped
<1>6. is_a_hard_sequence_reset_message(m) \/ m.seq = n
  <2>1. ~IsHigh(session, m) /\ ~IsLow(session, m)
    BY DEF receive_accepted
  <2> QED BY <1>1, <2>1 DEF IsHigh, IsLow, Expected, Message
(* The stored number and what was covered move together.                   *)
<1>7. ASSUME ConformingPeer
      PROVE  /\ ~rejected
             /\ m.type = "SEQUENCE_RESET" => m.tags_ok /\ m.new > n
             /\ covered' = IF m.type = "SEQUENCE_RESET" THEN 1 .. m.new - 1 ELSE 1 .. n
  <2>1. m.type = "SEQUENCE_RESET" => m.tags_ok /\ m.new > n
    BY <1>7 DEF receive_accepted, Conforms, Expected
  <2>2. ~rejected
    BY <1>1, <1>2, <2>1 DEF IsBackwardReset, Message
  <2>3. covered = 1 .. n - 1 /\ n - 1 \in Nat
    BY <1>1, <1>7 DEF Inv, TypeOK, InOrder, Session
  <2>4. CASE m.type = "SEQUENCE_RESET"
    <3>1. covered \subseteq 1 .. m.new - 1 /\ n \in 1 .. m.new - 1
      BY <1>1, <2>1, <2>3, <2>4 DEF Message
    <3> HIDE DEF n
    <3> QED BY <1>4, <1>6, <2>1, <2>2, <2>4, <3>1
  <2>5. CASE m.type # "SEQUENCE_RESET"
    <3>1. ~is_a_hard_sequence_reset_message(m)
      BY <2>5 DEF is_a_hard_sequence_reset_message
    <3>2. covered' = (1 .. n - 1) \cup {n}
      BY <1>4, <1>6, <2>3, <2>5, <3>1
    <3> QED BY <1>1, <2>2, <2>3, <2>5, <3>2
  <2> QED BY <2>1, <2>2, <2>4, <2>5
<1>8. CASE rejected
  <2>1. PICK o \in SendOutcomes : Continue(o, send_bytes(s, o), pc)
    BY <1>8 DEF receive_accepted
  <2>2. ~ConformingPeer
    BY <1>7, <1>8
  <2>3. Harmless(s, send_bytes(s, o))
    BY <1>2, SendsAreHarmless
  <2>4. Sound(send_bytes(s, o), pc)
    BY <1>2, <1>3, <2>2, <2>3 DEF Sound, Harmless
  <2>5. o # "stuck"
    BY <1>3, StuckWhenClosed
  <2> QED BY <1>5, <2>1, <2>4, <2>5, ContinueInv
<1>9. CASE ~rejected
  <2> DEFINE t == Dispatch(s, m)
  <2>1. Proceed(t, pc)
    BY <1>9 DEF receive_accepted
  <2>2. /\ t \in Session
        /\ t.incoming_seq_no = IF m.type = "SEQUENCE_RESET" /\ m.tags_ok /\ m.new > n
                               THEN m.new - 1 ELSE n
        /\ t.state = "PENDING_LOGOUT" => s.state = "PENDING_LOGOUT"
    BY <1>1, <1>2, DispatchCounts
  <2> HIDE DEF t, s, n, rejected
  <2>3. Sound(t, pc)
    BY <1>2, <1>3, <1>7, <2>2 DEF Sound
  <2> QED BY <1>5, <2>1, <2>3, ProceedInv
<1> QED BY <1>8, <1>9

LEMMA NetworkInv == Inv /\ Network => Inv'
<1> SUFFICES ASSUME Inv, Network PROVE Inv'
  OBVIOUS
<1>h. Harmless(session, Heard) /\ Heard \in Session /\ session \in Session
  BY HeardIsHarmless DEF Harmless, Inv, TypeOK
<1>p. CanReceive => pc \in PCs /\ socket # "closed"
  BY DEF CanReceive, PCs, PassSteps
<1>1. CASE receive_invalid
  <2>1. Sound(Heard, pc) /\ RestTyped
    BY <1>1, <1>h, <1>p, HarmlessIsSound DEF receive_invalid, RestTyped, Inv, TypeOK
  <2>2. CASE Proceed(Heard, pc)
    BY <2>1, <2>2, ProceedInv
  <2>3. CASE \E o \in SendOutcomes : Continue(o, send_bytes(Heard, o), pc)
    <3>1. PICK o \in SendOutcomes : Continue(o, send_bytes(Heard, o), pc)
      BY <2>3
    <3>2. Harmless(session, send_bytes(Heard, o))
      BY <1>h, SendsAreHarmless, HarmlessTwice
    <3>3. Sound(send_bytes(Heard, o), pc)
      BY <1>1, <1>p, <3>2, HarmlessIsSound DEF receive_invalid
    <3>4. o # "stuck"
      BY <1>1, <1>p, StuckWhenClosed DEF receive_invalid
    <3> QED BY <2>1, <3>1, <3>3, <3>4, ContinueInv
  <2> QED BY <1>1, <2>2, <2>3 DEF receive_invalid
<1>2. ASSUME NEW m \in PeerMessage, receive_high(m) PROVE Inv'
  <2> DEFINE s == queue_outgoing_resend_request(Heard, Expected(session), m.seq)
  <2>1. m \in Message
    BY PeerMessageType
  <2>2. Harmless(Heard, s)
    <3> DEFINE n == session.incoming_seq_no
    <3>1. n \in Nat /\ n + 1 \in Nat /\ (n + 1) - 1 = n /\ m.seq \in Nat
      BY <1>h, <2>1 DEF Session, Message
    <3>2. s = [Heard EXCEPT !.needs_to_send_resend_request = TRUE,
                            !.incoming_seq_no = n,
                            !.outgoing_resend_request_begin_no = n + 1,
                            !.outgoing_resend_request_end_no = m.seq]
      BY <3>1 DEF queue_outgoing_resend_request, Expected
    <3>3. Heard.incoming_seq_no = n
      BY <1>h DEF Harmless
    <3> HIDE DEF s, n
    <3> QED BY <1>h, <3>1, <3>2, <3>3 DEF Harmless, Session
  <2> HIDE DEF s
  <2>3. Harmless(session, s)
    BY <1>h, <2>2, HarmlessTwice
  <2>4. Sound(s, pc) /\ RestTyped
    BY <1>2, <1>p, <2>3, HarmlessIsSound DEF receive_high, RestTyped, Inv, TypeOK
  <2> QED BY <1>2, <2>4, ProceedInv DEF receive_high, s
<1>3. ASSUME NEW m \in PeerMessage, receive_low(m) PROVE Inv'
  BY <1>3, <1>h, <1>p, ShutDownNowInv DEF receive_low, Inv, TypeOK
<1>4. ASSUME NEW m \in PeerMessage, receive_accepted(m) PROVE Inv'
  BY <1>4, ReceiveAcceptedInv
<1>5. CASE connection_lost
  <2>1. Harmless(session, on_connection_lost(session))
        /\ on_connection_lost(session).state = "DISCONNECTED"
    BY <1>h, SendsAreHarmless DEF on_connection_lost, Session
  <2> QED BY <1>5, <2>1 DEF connection_lost, Inv, TypeOK, InOrder, ConnectedMeansOpen,
          LogoutIsAwaited, Harmless, Sockets
<1> QED BY <1>1, <1>2, <1>3, <1>4, <1>5 DEF Network, process_incoming_fix_message

-----------------------------------------------------------------------------
(* Administrative commands                                                 *)

LEMMA OperatorInv == Inv /\ Operator => Inv'
<1> SUFFICES ASSUME Inv, NEW c \in AdminCommand, process_admin_command(c) PROVE Inv'
  BY DEF Operator
<1>s. session \in Session /\ session.state # "PENDING_LOGOUT" /\ c.arg \in Nat
      /\ pc # "logout_wait"
  <2>1. c.arg \in Nat
    BY ClientAssumption DEF AdminCommand
  <2> QED BY <2>1 DEF process_admin_command, Inv, TypeOK, LogoutIsAwaited
<1>r. RestOfPass \in PCs /\ session_state' = session_state
  BY RestOfPassIsPC DEF process_admin_command
<1>o. Harmless(session, session)
      /\ Harmless(session, [session EXCEPT !.outgoing_seq_no = c.arg % SeqNoModulus])
  <2>1. c.arg % SeqNoModulus \in Nat
    BY <1>s, ModuloIsNat
  <2> DEFINE n == c.arg % SeqNoModulus
  <2>2. n \in Nat
    BY <2>1
  <2> HIDE DEF n
  <2>3. Harmless(session, [session EXCEPT !.outgoing_seq_no = n])
    BY <1>s, <2>2 DEF Harmless, Session
  <2> QED BY <1>s, <2>3, NothingIsHarmless DEF n
<1>1. CASE set_sequence_number(c)
  <2>1. CASE /\ Proceed([session EXCEPT !.incoming_seq_no = c.arg], RestOfPass)
             /\ covered' = 1 .. c.arg
    <3> DEFINE s == [session EXCEPT !.incoming_seq_no = c.arg]
    <3>1. s \in Session /\ s.incoming_seq_no = c.arg /\ s.state # "PENDING_LOGOUT"
      BY <1>s DEF Session
    <3> HIDE DEF s
    <3>2. Sound(s, RestOfPass)
      BY <1>r, <2>1, <3>1 DEF Sound
    <3>3. RestTyped
      BY <1>1, <1>s, <1>r, <2>1 DEF set_sequence_number, RestTyped, Inv, TypeOK
    <3> QED BY <2>1, <3>2, <3>3, ProceedInv DEF s
  <2>2. CASE /\ Proceed([session EXCEPT !.outgoing_seq_no = c.arg % SeqNoModulus],
                        RestOfPass)
             /\ UNCHANGED covered
    BY <1>1, <1>s, <1>r, <1>o, <2>2, SendStepInv DEF set_sequence_number
  <2> QED BY <1>1, <2>1, <2>2 DEF set_sequence_number
<1>2. CASE send_sequence_reset(c)
  <2>1. CASE session.state = "LOGGED_ON"
    <3> DEFINE s == [session EXCEPT !.outgoing_seq_no = c.arg % SeqNoModulus]
    <3>1. PICK o \in SendOutcomes : Continue(o, send_uncounted(s, o), RestOfPass)
      BY <1>2, <2>1 DEF send_sequence_reset
    <3> HIDE DEF s
    <3>2. Harmless(session, send_uncounted(s, o))
      BY <1>o, SendsAreHarmless, HarmlessTwice DEF s, Harmless
    <3> QED BY <1>2, <1>s, <1>r, <3>1, <3>2, SendStepInv DEF send_sequence_reset
  <2>2. CASE session.state # "LOGGED_ON"
    BY <1>2, <1>s, <1>r, <1>o, <2>2, SendStepInv DEF send_sequence_reset
  <2> QED BY <2>1, <2>2
<1>3. CASE set_enabled(c)
  <2>1. covered' = covered /\ is_ha_primary' \in BOOLEAN
    BY <1>3 DEF set_enabled, Inv, TypeOK
  <2>2. CASE disable_session
    <3>1. CASE BeginLogout("disable")
      BY <1>r, <2>1, <3>1, BeginLogoutInv DEF Inv, TypeOK
    <3>2. CASE /\ session' = [session EXCEPT !.state = "DISABLED"]
               /\ pc' = RestOfPass
               /\ IF is_state_live(session.state)
                  THEN socket' = "closed" /\ endpoints' = {}
                  ELSE UNCHANGED <<socket, endpoints>>
               /\ UNCHANGED after_logout
      <4>1. Harmless(session, session') /\ session'.state # "PENDING_LOGOUT"
        BY <1>s, <3>2 DEF Harmless, Session, SessionState
      <4>2. TypeOK'
        BY <1>r, <2>1, <3>2, <4>1 DEF Inv, TypeOK, PCs, Harmless, Sockets
      <4> QED BY <2>1, <3>2, <4>1, <4>2 DEF Inv, InOrder, ConnectedMeansOpen,
              LogoutIsAwaited, Harmless
    <3> QED BY <2>2, <3>1, <3>2 DEF disable_session
  <2>3. CASE (enable_session \/ Proceed(session, RestOfPass)) /\ UNCHANGED after_logout
    <3> DEFINE st == IF session.state = "DISABLED" THEN "DISCONNECTED" ELSE session.state
               s == [session EXCEPT !.state = st]
    <3>1. Harmless(session, s)
      BY <1>s DEF Harmless, Session, SessionState
    <3>2. Sound(s, RestOfPass) /\ Sound(session, RestOfPass)
      BY <1>s, <1>r, <1>o, <2>1, <3>1, HarmlessIsSound
    <3>3. RestTyped
      BY <1>r, <2>1, <2>3 DEF RestTyped, Inv, TypeOK
    <3>4. enable_session => Proceed(s, RestOfPass)
      BY <1>s DEF enable_session, Session
    <3> HIDE DEF s
    <3> QED BY <2>3, <3>2, <3>3, <3>4, ProceedInv
  <2> QED BY <1>3, <2>2, <2>3 DEF set_enabled
<1> QED BY <1>1, <1>2, <1>3 DEF process_admin_command

-----------------------------------------------------------------------------
(* The pass of process()                                                   *)

LEMMA PassInv == Inv /\ Pass => Inv'
<1> SUFFICES ASSUME Inv, Pass PROVE Inv'
  OBVIOUS
<1>s. session \in Session /\ Harmless(session, session)
      /\ \A o : Harmless(session, send_bytes(session, o))
               /\ Harmless(session, send_uncounted(session, o))
  BY SendsAreHarmless, NothingIsHarmless DEF Inv, TypeOK
<1>p. PassSteps \subseteq PCs /\ "idle" \in PCs
  BY DEF PCs
<1>1. CASE process \/ end_of_receive \/ no_admin_command
  BY <1>1, RestOfPassIsPC DEF process, end_of_receive, no_admin_command, Inv, TypeOK,
     InOrder, ConnectedMeansOpen, LogoutIsAwaited, PassSteps, PCs, Session
<1>2. ASSUME NEW b \in BOOLEAN, process_outgoing_resend_request(b) PROVE Inv'
  <2>2. "test_request" \in PCs /\ pc # "logout_wait"
    BY <1>2 DEF PCs, PassSteps, process_outgoing_resend_request
  <2>3. CASE ShutDownNow(session, "test_request")
    BY <1>2, <1>s, <2>2, <2>3, ShutDownNowInv
       DEF process_outgoing_resend_request, Inv, TypeOK
  <2>4. CASE Proceed(session, "test_request") /\ UNCHANGED after_logout
    BY <1>2, <1>s, <2>2, <2>4, SendStepInv DEF process_outgoing_resend_request
  <2>5. ASSUME NEW o \in SendOutcomes, UNCHANGED after_logout,
               Continue(o, [send_bytes(session, o) EXCEPT
                              !.state = "IN_RETRANSMISSION_INITIATED_BY_SELF",
                              !.needs_to_send_resend_request = FALSE], "test_request")
        PROVE  Inv'
    <3> DEFINE t == send_bytes(session, o)
               s == [t EXCEPT !.state = "IN_RETRANSMISSION_INITIATED_BY_SELF",
                              !.needs_to_send_resend_request = FALSE]
    <3>t. Harmless(session, t) /\ t \in Session
      BY <1>s DEF Harmless
    <3> HIDE DEF t
    <3>1. Harmless(session, s)
      BY <3>t, EditsAreHarmless, HarmlessTwice
    <3> HIDE DEF s
    <3>2. UNCHANGED <<is_ha_primary, session_state, after_logout, covered>>
      BY <1>2, <2>5 DEF process_outgoing_resend_request
    <3> QED BY <2>2, <2>5, <3>1, <3>2, SendStepInv DEF s, t
  <2> QED BY <1>2, <2>3, <2>4, <2>5 DEF process_outgoing_resend_request
<1>3. ASSUME NEW b \in BOOLEAN, process_outgoing_test_request(b) PROVE Inv'
  <2>2. "respond_resend" \in PCs /\ pc # "logout_wait"
    BY <1>3 DEF PCs, PassSteps, process_outgoing_test_request
  <2>3. CASE ShutDownNow(Heard, "respond_resend")
    BY <1>3, <2>2, <2>3, HeardIsHarmless, ShutDownNowInv
       DEF process_outgoing_test_request, Inv, TypeOK
  <2>4. CASE Proceed(session, "respond_resend") /\ UNCHANGED after_logout
    BY <1>3, <1>s, <2>2, <2>4, SendStepInv DEF process_outgoing_test_request
  <2>5. ASSUME NEW o \in SendOutcomes, UNCHANGED after_logout,
               Continue(o, [send_bytes(session, o) EXCEPT
                              !.expecting_response_for_outgoing_test_request = TRUE],
                        "respond_resend")
        PROVE  Inv'
    <3> DEFINE t == send_bytes(session, o)
               s == [t EXCEPT !.expecting_response_for_outgoing_test_request = TRUE]
    <3>t. Harmless(session, t) /\ t \in Session
      BY <1>s DEF Harmless
    <3> HIDE DEF t
    <3>1. Harmless(session, s)
      BY <3>t, EditsAreHarmless, HarmlessTwice
    <3> HIDE DEF s
    <3>2. UNCHANGED <<is_ha_primary, session_state, after_logout, covered>>
      BY <1>3, <2>5 DEF process_outgoing_test_request
    <3> QED BY <2>2, <2>5, <3>1, <3>2, SendStepInv DEF s, t
  <2> QED BY <1>3, <2>3, <2>4, <2>5 DEF process_outgoing_test_request
<1>4. CASE respond_to_resend_request
  <2>2. "respond_test" \in PCs /\ pc # "logout_wait"
    BY <1>4 DEF PCs, PassSteps, respond_to_resend_request
  <2>3. UNCHANGED <<is_ha_primary, session_state, after_logout, covered>>
    BY <1>4 DEF respond_to_resend_request
  <2>4. ASSUME NEW o \in SendOutcomes,
               Continue(o, ResendAnswered(send_uncounted(session, o)), "respond_test")
        PROVE  Inv'
    <3> DEFINE t == send_uncounted(session, o)
    <3>1. Harmless(session, t) /\ t \in Session
      BY <1>s DEF Harmless
    <3> HIDE DEF t
    <3>2. Harmless(session, ResendAnswered(t))
      BY <3>1, EditsAreHarmless, HarmlessTwice
    <3> QED BY <2>2, <2>3, <2>4, <3>2, SendStepInv DEF t
  <2>5. CASE Proceed(session, "respond_test")
    BY <1>s, <2>2, <2>3, <2>5, SendStepInv
  <2> QED BY <1>4, <2>4, <2>5 DEF respond_to_resend_request
<1>5. CASE respond_to_test_request
  <2>2. "heartbeat" \in PCs /\ pc # "logout_wait"
    BY <1>5 DEF PCs, PassSteps, respond_to_test_request
  <2>3. UNCHANGED <<is_ha_primary, session_state, after_logout, covered>>
    BY <1>5 DEF respond_to_test_request
  <2>4. ASSUME NEW o \in SendOutcomes,
               Continue(o, [send_bytes(session, o) EXCEPT
                              !.needs_responding_to_incoming_test_request = FALSE],
                        "heartbeat")
        PROVE  Inv'
    <3> DEFINE t == send_bytes(session, o)
               s == [t EXCEPT !.needs_responding_to_incoming_test_request = FALSE]
    <3>t. Harmless(session, t) /\ t \in Session
      BY <1>s DEF Harmless
    <3> HIDE DEF t
    <3>1. Harmless(session, s)
      BY <3>t, EditsAreHarmless, HarmlessTwice
    <3> HIDE DEF s
    <3> QED BY <2>2, <2>3, <2>4, <3>1, SendStepInv DEF s, t
  <2>5. CASE Proceed(session, "heartbeat")
    BY <1>s, <2>2, <2>3, <2>5, SendStepInv
  <2> QED BY <1>5, <2>4, <2>5 DEF respond_to_test_request
<1>6. ASSUME NEW b \in BOOLEAN, send_client_heartbeat(b) PROVE Inv'
  <2>2. "schedule" \in PCs /\ pc # "logout_wait"
    BY <1>6 DEF PCs, PassSteps, send_client_heartbeat
  <2>3. UNCHANGED <<is_ha_primary, session_state, after_logout, covered>>
    BY <1>6 DEF send_client_heartbeat
  <2>4. ASSUME NEW o \in SendOutcomes, Continue(o, send_bytes(session, o), "schedule")
        PROVE  Inv'
    BY <1>s, <2>2, <2>3, <2>4, SendStepInv
  <2>5. CASE Proceed(session, "schedule")
    BY <1>s, <2>2, <2>3, <2>5, SendStepInv
  <2> QED BY <1>6, <2>4, <2>5 DEF send_client_heartbeat
<1>7. ASSUME NEW b \in BOOLEAN, process_schedule_validator(b) PROVE Inv'
  <2>1. is_ha_primary' \in BOOLEAN /\ session_state' \in SessionState
        /\ covered' = covered /\ pc # "logout_wait"
        /\ UNCHANGED <<is_ha_primary, session_state>>
    BY <1>7 DEF process_schedule_validator, Inv, TypeOK
  <2>2. CASE Proceed(session, "idle") /\ UNCHANGED after_logout
    BY <1>s, <1>p, <2>1, <2>2, SendStepInv
  <2>3. CASE BeginLogout("shutdown")
    BY <2>1, <2>3, BeginLogoutInv
  <2>4. CASE ShutDownNow(session, "idle")
    BY <1>s, <1>p, <2>1, <2>4, ShutDownNowInv
  <2> QED BY <1>7, <2>2, <2>3, <2>4 DEF process_schedule_validator, do_shutdown
<1>8. ASSUME NEW b \in BOOLEAN, process_logon_timeout(b) PROVE Inv'
  <2> DEFINE s == IF b THEN [session EXCEPT !.state = "DISCONNECTED"] ELSE session
  <2>1. Harmless(session, s)
    BY <1>s DEF Harmless, Session, SessionState
  <2>2. Proceed(s, "idle") /\ pc # "logout_wait"
        /\ UNCHANGED <<is_ha_primary, session_state, after_logout, covered>>
    BY <1>8 DEF process_logon_timeout
  <2> HIDE DEF s
  <2> QED BY <1>p, <2>1, <2>2, SendStepInv
<1>9. ASSUME NEW b \in BOOLEAN, finish_logout(b) PROVE Inv'
  <2> DEFINE st == IF after_logout = "disable" THEN "DISABLED" ELSE "DISCONNECTED"
  <2>1. session' = [session EXCEPT !.state = st]
    BY <1>9 DEF finish_logout
  <2>2. Harmless(session, session') /\ session'.state # "PENDING_LOGOUT"
    BY <1>s, <2>1 DEF Harmless, Session, SessionState
  <2>3. pc' \in PCs
    BY <1>9, <1>p, RestOfPassIsPC DEF finish_logout
  <2> QED BY <1>9, <2>2, <2>3 DEF finish_logout, Inv, TypeOK, InOrder, ConnectedMeansOpen,
          LogoutIsAwaited, Harmless, Sockets, PCs
<1> QED BY <1>1, <1>2, <1>3, <1>4, <1>5, <1>6, <1>7, <1>8, <1>9 DEF Pass

-----------------------------------------------------------------------------
LEMMA NextInv == Inv /\ [Next]_vars => Inv'
<1>1. Inv /\ UNCHANGED vars => Inv'
  BY DEF vars, Inv, TypeOK, InOrder, ConnectedMeansOpen, LogoutIsAwaited
<1> QED BY <1>1, ApplicationInv, NetworkInv, OperatorInv, PassInv DEF Next

THEOREM Invariance == Spec => []Inv
  BY InitInv, NextInv, PTL DEF Spec

(* Types, for every value of the constants.                                *)
THEOREM TypeCorrect == Spec => []TypeOK
<1>1. Inv => TypeOK
  BY DEF Inv
<1> QED BY <1>1, Invariance, PTL

(* What process_incoming_fix_message, the administrative commands, resets  *)
(* and restarts make of the stored incoming number: it stands for exactly  *)
(* what was handled, when the peer's SequenceResets conform.               *)
THEOREM NothingSkippedOrCountedTwice == ConformingPeer => (Spec => []InOrder)
<1> SUFFICES ASSUME ConformingPeer PROVE Spec => []InOrder
  OBVIOUS
<1>1. Inv => InOrder
  BY DEF Inv
<1> QED BY <1>1, Invariance, PTL

(* connected_to_primary() and connected_to_secondary() never claim a       *)
(* connection that send, receive or do_shutdown has given up.              *)
THEOREM FlagsMatchConnection == Spec => []ConnectedMeansOpen
<1>1. Inv => ConnectedMeansOpen
  BY DEF Inv
<1> QED BY <1>1, Invariance, PTL

(* do_shutdown leaves no session in PENDING_LOGOUT that nobody will close. *)
THEOREM LogoutAlwaysAwaited == Spec => []LogoutIsAwaited
<1>1. Inv => LogoutIsAwaited
  BY DEF Inv
<1> QED BY <1>1, Invariance, PTL
=============================================================================
