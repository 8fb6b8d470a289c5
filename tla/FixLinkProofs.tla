---------------------------- MODULE FixLinkProofs ----------------------------
(***************************************************************************)
(* Proofs about FixLink for every bound and every setting: what the        *)
(* sequence number rules of the two ends guarantee together, over lost     *)
(* connections, replays, gap fills and restarts.                           *)
(*                                                                         *)
(* Both numbers of a session only grow, so what is said below of a message *)
(* in flight stays true until it arrives.                                  *)
(***************************************************************************)
EXTENDS FixLink, SequenceTheorems, TLAPS

(* Every ResendRequest is answered with a replay of the messages.          *)
AllReplayed == replay_messages /\ MaxSent <= max_resend_range

Rejected(st) == \E n \in DOMAIN st : st[n] = "REJECT"

-----------------------------------------------------------------------------
(* Messages in flight                                                      *)

(* Message m from an end with session snd and store st to one with session *)
(* rcv: as it was sent, or a SequenceReset in place of a repeated message, *)
(* or a gap fill.  What a ResendRequest asks for has been sent, and its    *)
(* answer starts no later than the number that is expected.                *)
Original(m, st, snd, rcv) ==
    /\ m.type # "SEQUENCE_RESET" /\ m.seq \in DOMAIN st /\ m.type = st[m.seq]
    /\ m.type = "RESEND_REQUEST" =>
          /\ m.tags_ok /\ m.end = 0
          /\ 1 <= m.begin /\ m.begin <= Expected(snd)
          /\ m.begin <= rcv.outgoing_seq_no

HardReset(m, st) ==
    /\ m.type = "SEQUENCE_RESET" /\ ~m.gap_fill /\ m.tags_ok /\ m.new = m.seq + 1
    /\ m.seq \in DOMAIN st /\ st[m.seq] # "APP"
    /\ replay_messages

GapFill(m, snd, rcv) ==
    /\ m.type = "SEQUENCE_RESET" /\ m.gap_fill /\ m.tags_ok
    /\ m.seq <= Expected(rcv)
    /\ m.seq < m.new /\ m.new <= snd.outgoing_seq_no + 1
    /\ ~AllReplayed

Faithful(m, st, snd, rcv) ==
    Original(m, st, snd, rcv) \/ HardReset(m, st) \/ GapFill(m, snd, rcv)

(* A hard reset never jumps over a number that is expected: the numbers    *)
(* from the expected one to its own arrive right before it.                *)
Chain(w, expected) ==
    \A i \in DOMAIN w : is_a_hard_sequence_reset_message(w[i]) =>
        \A k \in Nat : expected <= k /\ k < w[i].seq =>
            LET j == i - (w[i].seq - k) IN j \in DOMAIN w /\ w[j].seq = k

-----------------------------------------------------------------------------
(* The two ends                                                            *)

StoreOK(st, s) ==
    /\ Len(st) = s.outgoing_seq_no /\ s.outgoing_seq_no <= MaxSent
    /\ \A n \in DOMAIN st : st[n] # "SEQUENCE_RESET"
    /\ Rejected(st) => replay_messages

(* A ResendRequest that is to be sent, or answered.                        *)
RequestsOK(s, other) ==
    /\ s.needs_to_send_resend_request =>
          /\ 1 <= s.outgoing_resend_request_begin_no
          /\ s.outgoing_resend_request_begin_no <= Expected(s)
          /\ s.outgoing_resend_request_begin_no <= other.outgoing_seq_no
    /\ s.needs_responding_to_incoming_resend_request =>
          /\ s.incoming_resend_request_end_no = 0
          /\ 1 <= s.incoming_resend_request_begin_no
          /\ s.incoming_resend_request_begin_no <= Expected(other)
          /\ s.incoming_resend_request_begin_no <= s.outgoing_seq_no

(* Number n that an end counted stands for a message of the other end's    *)
(* store st, which the callbacks saw (d) if it is a business message.      *)
Accounted(n, st, d) ==
    /\ n \in DOMAIN st
    /\ AllReplayed /\ st[n] = "APP" => \E i \in DOMAIN d : d[i] = n

Ledger(e) ==
    \/ Rejected(store[e])
    \/ \A n \in Nat : 1 <= n /\ n <= session[e].incoming_seq_no =>
          n \in cut[e] \/ Accounted(n, store[Other(e)], delivered[e])

Ordered(d, last) ==
    /\ \A i \in DOMAIN d : d[i] <= last
    /\ \A i, j \in DOMAIN d : i < j => d[i] < d[j]

Flight(e) ==
    /\ \A i \in DOMAIN wire[e] :
          Faithful(wire[e][i], store[Other(e)], session[Other(e)], session[e])
    /\ Chain(wire[e], Expected(session[e]))

EndOK(e) ==
    /\ StoreOK(store[e], session[e])
    /\ RequestsOK(session[e], session[Other(e)])
    /\ Flight(e)
    /\ Ledger(e)
    /\ Ordered(delivered[e], session[e].incoming_seq_no)

(* A client that is not disconnected has its end of a connection open.     *)
(* Until the server has bound the current connection nothing but the Logon *)
(* is in flight and the client is not live.                                *)
Connection ==
    /\ session["client"].state # "DISCONNECTED" => socket["client"]
    /\ Whole /\ ~Bound => wire["client"] = <<>> /\ ~is_state_live(session["client"].state)
    /\ socket["server"] /\ ~Bound =>
          \A i \in DOMAIN wire["server"] : wire["server"][i].type = "LOGON"

Inv == TypeOK /\ Connection /\ \A e \in Ends : EndOK(e)

-----------------------------------------------------------------------------
(* Sequences                                                               *)

LEMMA SeqDomain ==
    ASSUME NEW S, NEW a \in Seq(S)
    PROVE  /\ Len(a) \in Nat /\ DOMAIN a = 1 .. Len(a)
           /\ \A i \in DOMAIN a : a[i] \in S
  OBVIOUS

LEMMA MessageSeq ==
    ASSUME NEW a \in Seq(Message)
    PROVE  /\ Len(a) \in Nat /\ DOMAIN a = 1 .. Len(a)
           /\ \A i \in DOMAIN a : a[i] \in Message /\ a[i].seq \in Nat
<1>1. \A m \in Message : m.seq \in Nat
  BY DEF Message
<1> QED BY <1>1, SeqDomain

LEMMA ConcatFrom ==
    ASSUME NEW a \in Seq(Message), NEW b \in Seq(Message)
    PROVE  /\ a \o b \in Seq(Message)
           /\ \A i \in DOMAIN (a \o b) : \/ \E j \in DOMAIN a : (a \o b)[i] = a[j]
                                         \/ \E j \in DOMAIN b : (a \o b)[i] = b[j]
<1> DEFINE c == a \o b
<1>1. /\ Len(a) \in Nat /\ DOMAIN a = 1 .. Len(a)
      /\ Len(b) \in Nat /\ DOMAIN b = 1 .. Len(b)
      /\ c \in Seq(Message) /\ DOMAIN c = 1 .. Len(a) + Len(b)
      /\ \A i \in 1 .. Len(a) + Len(b) :
            c[i] = IF i <= Len(a) THEN a[i] ELSE b[i - Len(a)]
  BY ConcatProperties, SeqDomain
<1> HIDE DEF c
<1>2. ASSUME NEW i \in DOMAIN c
      PROVE  (\E j \in DOMAIN a : c[i] = a[j]) \/ (\E j \in DOMAIN b : c[i] = b[j])
  <2>1. CASE i <= Len(a)
    BY <1>1, <2>1
  <2>2. CASE ~(i <= Len(a))
    <3>1. i - Len(a) \in DOMAIN b /\ c[i] = b[i - Len(a)]
      BY <1>1, <2>2
    <3> QED BY <3>1
  <2> QED BY <2>1, <2>2
<1> QED BY <1>1, <1>2 DEF c

LEMMA TailFrom ==
    ASSUME NEW a \in Seq(Message), a # <<>>
    PROVE  /\ Tail(a) \in Seq(Message)
           /\ \A i \in DOMAIN Tail(a) : \E j \in DOMAIN a : Tail(a)[i] = a[j]
<1> DEFINE w == Tail(a)
<1>1. /\ Len(a) \in Nat /\ DOMAIN a = 1 .. Len(a)
      /\ w \in Seq(Message) /\ DOMAIN w = 1 .. Len(a) - 1
      /\ \A i \in 1 .. Len(a) - 1 : w[i] = a[i + 1]
  BY HeadTailProperties, SeqDomain
<1> HIDE DEF w
<1>2. \A i \in DOMAIN w : i + 1 \in DOMAIN a /\ w[i] = a[i + 1]
  BY <1>1
<1>3. w \in Seq(Message) /\ \A i \in DOMAIN w : \E j \in DOMAIN a : w[i] = a[j]
  BY <1>1, <1>2
<1> QED BY <1>3 DEF w

LEMMA ChainEmpty == \A n : Chain(<<>>, n)
  BY DEF Chain

LEMMA ChainLater ==
    ASSUME NEW w, NEW n \in Nat, NEW p \in Nat, n <= p, Chain(w, n)
    PROVE  Chain(w, p)
  BY DEF Chain

LEMMA ChainPlain ==
    ASSUME NEW w, NEW n,
           \A i \in DOMAIN w : ~is_a_hard_sequence_reset_message(w[i])
    PROVE  Chain(w, n)
  BY DEF Chain

LEMMA ChainConcat ==
    ASSUME NEW a \in Seq(Message), NEW b \in Seq(Message), NEW n \in Nat,
           Chain(a, n), Chain(b, n)
    PROVE  Chain(a \o b, n)
<1> DEFINE c == a \o b
<1>1. /\ Len(a) \in Nat /\ DOMAIN a = 1 .. Len(a)
      /\ Len(b) \in Nat /\ DOMAIN b = 1 .. Len(b)
      /\ \A i \in DOMAIN a : a[i].seq \in Nat
      /\ \A i \in DOMAIN b : b[i].seq \in Nat
  BY MessageSeq
<1>2. /\ c \in Seq(Message) /\ DOMAIN c = 1 .. Len(a) + Len(b)
      /\ \A i \in 1 .. Len(a) + Len(b) :
            c[i] = IF i <= Len(a) THEN a[i] ELSE b[i - Len(a)]
  BY ConcatProperties, SeqDomain
<1> HIDE DEF c
<1>3. ASSUME NEW i \in DOMAIN c, is_a_hard_sequence_reset_message(c[i]),
             NEW k \in Nat, n <= k, k < c[i].seq
      PROVE  /\ i - (c[i].seq - k) \in DOMAIN c
             /\ c[i - (c[i].seq - k)].seq = k
  <2>1. CASE i <= Len(a)
    <3>1. i \in DOMAIN a /\ c[i] = a[i]
      BY <1>1, <1>2, <2>1
    <3> DEFINE j == i - (a[i].seq - k)
    <3>2. j \in DOMAIN a /\ a[j].seq = k
      BY <1>3, <3>1 DEF Chain
    <3> QED BY <1>1, <1>2, <3>1, <3>2
  <2>2. CASE ~(i <= Len(a))
    <3> DEFINE h == i - Len(a)
    <3>1. h \in DOMAIN b /\ c[i] = b[h]
      BY <1>1, <1>2, <2>2
    <3> DEFINE j == h - (b[h].seq - k)
    <3>2. j \in DOMAIN b /\ b[j].seq = k
      BY <1>3, <3>1 DEF Chain
    <3>3. i - (c[i].seq - k) = j + Len(a)
      BY <1>1, <1>2, <3>1
    <3> HIDE DEF j
    <3>4. c[j + Len(a)] = b[j] /\ j + Len(a) \in DOMAIN c
      BY <1>1, <1>2, <3>2
    <3> QED BY <3>2, <3>3, <3>4
  <2> QED BY <2>1, <2>2
<1>4. Chain(c, n)
  BY <1>3 DEF Chain
<1> QED BY <1>4 DEF c

(* Taking the first message off: if it was the expected one, the expected  *)
(* number has grown.                                                       *)
LEMMA ChainTail ==
    ASSUME NEW w \in Seq(Message), w # <<>>, NEW n \in Nat, NEW p \in Nat, n <= p,
           Head(w).seq = n => n < p, Chain(w, n)
    PROVE  Chain(Tail(w), p)
<1> DEFINE t == Tail(w)
<1>1. /\ Len(w) \in Nat /\ DOMAIN w = 1 .. Len(w) /\ Len(w) >= 1
      /\ \A i \in DOMAIN w : w[i].seq \in Nat
      /\ Head(w) = w[1]
  <2>1. /\ Len(w) \in Nat /\ DOMAIN w = 1 .. Len(w)
        /\ \A i \in DOMAIN w : w[i].seq \in Nat
    BY MessageSeq
  <2>2. Len(w) >= 1 /\ Head(w) = w[1]
    BY <2>1
  <2> QED BY <2>1, <2>2
<1>2. /\ t \in Seq(Message) /\ DOMAIN t = 1 .. Len(w) - 1
      /\ \A i \in 1 .. Len(w) - 1 : t[i] = w[i + 1]
  BY HeadTailProperties, SeqDomain
<1> HIDE DEF t
<1>3. ASSUME NEW i \in DOMAIN t, is_a_hard_sequence_reset_message(t[i]),
             NEW k \in Nat, p <= k, k < t[i].seq
      PROVE  /\ i - (t[i].seq - k) \in DOMAIN t
             /\ t[i - (t[i].seq - k)].seq = k
  <2> DEFINE h == i + 1
             j(m) == h - (w[h].seq - m)
  <2>1. h \in DOMAIN w /\ t[i] = w[h] /\ i \in Nat /\ w[h].seq \in Nat
    BY <1>1, <1>2
  <2>2. \A m \in Nat : n <= m /\ m < w[h].seq => j(m) \in DOMAIN w /\ w[j(m)].seq = m
    BY <1>3, <2>1 DEF Chain
  <2>3. j(k) \in DOMAIN w /\ w[j(k)].seq = k
    BY <1>3, <2>1, <2>2
  <2>4. j(k) # 1
    <3> SUFFICES ASSUME j(k) = 1 PROVE FALSE
      OBVIOUS
    <3>1. w[1].seq = k
      BY <2>3
    <3>2. n < k
      BY <1>1, <1>3, <3>1
    <3>3. k - 1 \in Nat /\ n <= k - 1 /\ k - 1 < w[h].seq
      BY <1>3, <2>1, <3>2
    <3>4. j(k - 1) \in DOMAIN w
      BY <2>2, <3>3
    <3>5. j(k - 1) = 0
      <4>1. \A q \in Nat : (i + 1) - (q - (k - 1)) = (i + 1) - (q - k) - 1
        BY <2>1
      <4>2. j(k - 1) = j(k) - 1
        BY <2>1, <4>1
      <4> QED BY <4>2
    <3> QED BY <1>1, <3>4, <3>5
  <2>5. i - (t[i].seq - k) = j(k) - 1
    <3>1. \A q \in Nat : i - (q - k) = (i + 1) - (q - k) - 1
      BY <2>1
    <3> QED BY <2>1, <3>1
  <2> DEFINE g == j(k)
  <2>6. g \in DOMAIN w /\ w[g].seq = k /\ g # 1
    BY <2>3, <2>4
  <2> HIDE DEF g
  <2>7. g - 1 \in DOMAIN t /\ t[g - 1] = w[g]
    BY <1>1, <1>2, <2>6
  <2> QED BY <2>5, <2>6, <2>7 DEF g
<1>4. Chain(t, p)
  BY <1>3 DEF Chain
<1> QED BY <1>4 DEF t

-----------------------------------------------------------------------------
(* What holds of a message in flight holds when the numbers have grown     *)

Extends(st, longer) ==
    \A n \in DOMAIN st : n \in DOMAIN longer /\ longer[n] = st[n]

Later(s, t) ==
    s.incoming_seq_no <= t.incoming_seq_no /\ s.outgoing_seq_no <= t.outgoing_seq_no

LEMMA SessionNumbers ==
    ASSUME NEW s \in Session
    PROVE  /\ s.incoming_seq_no \in Nat /\ s.outgoing_seq_no \in Nat
           /\ Expected(s) \in Nat /\ Expected(s) = s.incoming_seq_no + 1
           /\ s.outgoing_resend_request_begin_no \in Nat
           /\ s.incoming_resend_request_begin_no \in Nat
           /\ s.incoming_resend_request_end_no \in Nat
  BY DEF Session, Expected

LEMMA LaterReflexive ==
    ASSUME NEW s \in Session
    PROVE  Later(s, s)
<1>1. s.incoming_seq_no \in Nat /\ s.outgoing_seq_no \in Nat
  BY SessionNumbers
<1> QED BY <1>1 DEF Later

LEMMA LaterTransitive ==
    ASSUME NEW s \in Session, NEW t \in Session, NEW r \in Session,
           Later(s, t), Later(t, r)
    PROVE  Later(s, r)
<1>1. /\ s.incoming_seq_no \in Nat /\ s.outgoing_seq_no \in Nat
      /\ t.incoming_seq_no \in Nat /\ t.outgoing_seq_no \in Nat
      /\ r.incoming_seq_no \in Nat /\ r.outgoing_seq_no \in Nat
  BY SessionNumbers
<1> QED BY <1>1 DEF Later

LEMMA FaithfulLater ==
    ASSUME NEW m \in Message, NEW st, NEW longer, Extends(st, longer),
           NEW snd \in Session, NEW snd2 \in Session, Later(snd, snd2),
           NEW rcv \in Session, NEW rcv2 \in Session, Later(rcv, rcv2),
           Faithful(m, st, snd, rcv)
    PROVE  Faithful(m, longer, snd2, rcv2)
<1>1. /\ Expected(snd) \in Nat /\ Expected(snd2) \in Nat /\ Expected(snd) <= Expected(snd2)
      /\ Expected(rcv) \in Nat /\ Expected(rcv2) \in Nat /\ Expected(rcv) <= Expected(rcv2)
      /\ snd.outgoing_seq_no \in Nat /\ snd2.outgoing_seq_no \in Nat
      /\ rcv.outgoing_seq_no \in Nat /\ rcv2.outgoing_seq_no \in Nat
      /\ snd.outgoing_seq_no <= snd2.outgoing_seq_no
      /\ rcv.outgoing_seq_no <= rcv2.outgoing_seq_no
  BY SessionNumbers DEF Later
<1>2. m.seq \in Nat /\ m.begin \in Nat /\ m.new \in Nat
  BY DEF Message
<1>3. CASE Original(m, st, snd, rcv)
  BY <1>1, <1>2, <1>3 DEF Original, Extends, Faithful
<1>4. CASE HardReset(m, st)
  BY <1>4 DEF HardReset, Extends, Faithful
<1>5. CASE GapFill(m, snd, rcv)
  BY <1>1, <1>2, <1>5 DEF GapFill, Faithful
<1> QED BY <1>3, <1>4, <1>5 DEF Faithful

(* An end that is asked for something was asked in time, and its own       *)
(* request stays justified.                                                *)
LEMMA RequestsLater ==
    ASSUME NEW s \in Session, NEW other \in Session, NEW other2 \in Session,
           Later(other, other2), RequestsOK(s, other)
    PROVE  RequestsOK(s, other2)
  BY SessionNumbers DEF RequestsOK, Later

-----------------------------------------------------------------------------
(* The effect of a step at end e: what it may make of its session and its  *)
(* store, and what it may send.                                            *)

EffectOK(e, x) ==
    /\ x.s \in Session /\ x.store \in Seq(MsgType) /\ x.out \in Seq(Message)
    /\ Later(session[e], x.s) /\ Extends(store[e], x.store)
    /\ Len(x.store) = x.s.outgoing_seq_no
    /\ \A n \in DOMAIN x.store : x.store[n] # "SEQUENCE_RESET"
    /\ Rejected(x.store) => replay_messages
    /\ RequestsOK(x.s, session[Other(e)])
    /\ \A i \in DOMAIN x.out : Faithful(x.out[i], x.store, x.s, session[Other(e)])
    /\ Chain(x.out, Expected(session[Other(e)]))

(* The numbers that the step counts are accounted for in d, what the       *)
(* callbacks have seen after it.                                           *)
Accounts(e, x, d) ==
    \/ Rejected(x.store)
    \/ \A n \in Nat : session[e].incoming_seq_no < n /\ n <= x.s.incoming_seq_no
          => n \in cut'[e] \/ Accounted(n, store[Other(e)], d)

LEMMA TypeOfEnds ==
    ASSUME TypeOK, NEW e \in Ends
    PROVE  /\ Other(e) \in Ends /\ Other(e) # e /\ Other(Other(e)) = e
           /\ \A f \in Ends : f = e \/ f = Other(e)
           /\ session[e] \in Session /\ store[e] \in Seq(MsgType)
           /\ wire[e] \in Seq(Message) /\ delivered[e] \in Seq(Nat) /\ cut[e] \subseteq Nat
<1>1. /\ Other(e) \in Ends /\ Other(e) # e /\ Other(Other(e)) = e
      /\ \A f \in Ends : f = e \/ f = Other(e)
  BY DEF Ends, Other
<1> QED BY <1>1 DEF TypeOK

(* The step of an end: its own effect x, what is left in its wire (w), and *)
(* what is on the way to the other end (u).                                *)
LEMMA StepKeepsEnds ==
    ASSUME TypeOK, \A f \in Ends : EndOK(f), NEW e \in Ends,
           NEW x, EffectOK(e, x), x.s.outgoing_seq_no <= MaxSent,
           NEW w \in Seq(Message), NEW u \in Seq(Message), NEW d \in Seq(Nat),
           \A i \in DOMAIN w : \E j \in DOMAIN wire[e] : w[i] = wire[e][j],
           Chain(w, Expected(x.s)),
           \A i \in DOMAIN u : \/ \E j \in DOMAIN wire[Other(e)] : u[i] = wire[Other(e)][j]
                               \/ \E j \in DOMAIN x.out : u[i] = x.out[j],
           Chain(u, Expected(session[Other(e)])),
           session' = [session EXCEPT ![e] = x.s],
           store' = [store EXCEPT ![e] = x.store],
           wire' = [f \in Ends |-> IF f = e THEN w ELSE u],
           delivered' = [delivered EXCEPT ![e] = d],
           \A n \in DOMAIN delivered[e] : \E i \in DOMAIN d : d[i] = delivered[e][n],
           Ordered(d, x.s.incoming_seq_no),
           \A f \in Ends : cut[f] \subseteq cut'[f],
           Accounts(e, x, d)
    PROVE  \A f \in Ends : EndOK(f)'
<1> DEFINE o == Other(e)
           s == session[e]
           t == session[o]
<1>1. /\ o \in Ends /\ o # e /\ Other(o) = e /\ \A f \in Ends : f = e \/ f = o
      /\ s \in Session /\ t \in Session
      /\ store[e] \in Seq(MsgType) /\ store[o] \in Seq(MsgType)
      /\ wire[e] \in Seq(Message) /\ wire[o] \in Seq(Message)
      /\ x.s \in Session
  BY TypeOfEnds DEF EffectOK
<1>2. /\ session'[e] = x.s /\ session'[o] = t
      /\ store'[e] = x.store /\ store'[o] = store[o]
      /\ wire'[e] = w /\ wire'[o] = u
      /\ delivered'[e] = d /\ delivered'[o] = delivered[o]
  BY <1>1 DEF TypeOK
<1>3. /\ Later(s, x.s) /\ Extends(store[e], x.store) /\ Later(t, t)
      /\ Extends(store[o], store[o])
  <2>1. t.incoming_seq_no \in Nat /\ t.outgoing_seq_no \in Nat
    BY <1>1, SessionNumbers
  <2> QED BY <2>1 DEF EffectOK, Later, Extends
<1>4. EndOK(e) /\ EndOK(o)
  BY <1>1
<1>5. StoreOK(store[e], session[e])' /\ StoreOK(store[o], session[o])'
  BY <1>2, <1>4 DEF StoreOK, EffectOK, EndOK
<1>6. RequestsOK(session[e], session[o])'
  BY <1>2 DEF EffectOK
<1>7. RequestsOK(session[o], session[e])'
  <2>1. RequestsOK(t, s)
    BY <1>1, <1>4 DEF EndOK
  <2>2. RequestsOK(t, x.s)
    BY <1>1, <1>3, <2>1, RequestsLater
  <2> QED BY <1>2, <2>2
<1>8. Flight(e)'
  <2>1. ASSUME NEW i \in DOMAIN w PROVE Faithful(w[i], store[o], t, x.s)
    <3>1. PICK j \in DOMAIN wire[e] : w[i] = wire[e][j]
      OBVIOUS
    <3>2. Faithful(wire[e][j], store[o], t, s) /\ wire[e][j] \in Message
      BY <1>1, <1>4, MessageSeq DEF EndOK, Flight
    <3> QED BY <1>1, <1>3, <3>1, <3>2, FaithfulLater
  <2> QED BY <1>2, <2>1 DEF Flight
<1>9. Flight(o)'
  <2>1. ASSUME NEW i \in DOMAIN u PROVE Faithful(u[i], x.store, x.s, t)
    <3>1. CASE \E j \in DOMAIN wire[o] : u[i] = wire[o][j]
      <4>1. PICK j \in DOMAIN wire[o] : u[i] = wire[o][j]
        BY <3>1
      <4>2. Faithful(wire[o][j], store[e], s, t) /\ wire[o][j] \in Message
        BY <1>1, <1>4, MessageSeq DEF EndOK, Flight
      <4> QED BY <1>1, <1>3, <4>1, <4>2, FaithfulLater
    <3>2. CASE \E j \in DOMAIN x.out : u[i] = x.out[j]
      BY <3>2 DEF EffectOK
    <3> QED BY <3>1, <3>2
  <2> QED BY <1>1, <1>2, <2>1 DEF Flight
<1>10. Ledger(e)'
  <2>1. CASE Rejected(x.store)
    BY <1>2, <2>1 DEF Ledger
  <2>2. CASE ~Rejected(x.store)
    <3>1. ~Rejected(store[e])
      BY <1>3, <2>2 DEF Rejected, Extends
    <3>2. ASSUME NEW n \in Nat, 1 <= n, n <= x.s.incoming_seq_no
          PROVE  n \in cut'[e] \/ Accounted(n, store[o], d)
      <4>1. s.incoming_seq_no \in Nat
        BY <1>1, SessionNumbers
      <4>2. CASE n <= s.incoming_seq_no
        <5>1. n \in cut[e] \/ Accounted(n, store[o], delivered[e])
          BY <1>4, <3>1, <3>2, <4>2 DEF EndOK, Ledger
        <5> QED BY <5>1 DEF Accounted
      <4>3. CASE s.incoming_seq_no < n
        BY <2>2, <3>2, <4>3 DEF Accounts
      <4> QED BY <4>1, <4>2, <4>3
    <3> QED BY <1>2, <3>2 DEF Ledger
  <2> QED BY <2>1, <2>2
<1>11. Ledger(o)'
  <2>1. CASE Rejected(store[o])
    BY <1>2, <2>1 DEF Ledger
  <2>2. CASE ~Rejected(store[o])
    <3>2. ASSUME NEW n \in Nat, 1 <= n, n <= t.incoming_seq_no
          PROVE  n \in cut'[o] \/ Accounted(n, x.store, delivered[o])
      <4>1. n \in cut[o] \/ Accounted(n, store[e], delivered[o])
        BY <1>1, <1>4, <2>2, <3>2 DEF EndOK, Ledger
      <4> QED BY <1>1, <1>3, <4>1 DEF Accounted, Extends
    <3> QED BY <1>1, <1>2, <3>2 DEF Ledger
  <2> QED BY <2>1, <2>2
<1>12. /\ Ordered(delivered[e], session[e].incoming_seq_no)'
       /\ Ordered(delivered[o], session[o].incoming_seq_no)'
  BY <1>2, <1>4 DEF EndOK
<1>13. EndOK(e)'
  BY <1>5, <1>6, <1>8, <1>10, <1>12 DEF EndOK
<1>14. EndOK(o)'
  BY <1>1, <1>5, <1>7, <1>9, <1>11, <1>12 DEF EndOK
<1> QED BY <1>1, <1>13, <1>14

(* The types of what a step of an end changes.                             *)
DataTypes ==
    /\ session \in [Ends -> Session]
    /\ store \in [Ends -> Seq(MsgType)]
    /\ wire \in [Ends -> Seq(Message)]
    /\ delivered \in [Ends -> Seq(Nat)]

(* What a step of an end keeps, and what it makes of what both have sent:  *)
(* nothing that has a number changes.                                      *)
EndsKept ==
    /\ DataTypes' /\ \A f \in Ends : EndOK(f)'
    /\ \A f \in Ends : Extends(store[f], store'[f])

LEMMA StoresExtend ==
    ASSUME TypeOK, NEW e \in Ends, NEW x, EffectOK(e, x),
           store' = [store EXCEPT ![e] = x.store]
    PROVE  \A f \in Ends : Extends(store[f], store'[f])
<1>1. Extends(store[e], x.store) /\ store \in [Ends -> Seq(MsgType)]
  BY DEF EffectOK, TypeOK
<1>2. \A f \in Ends : Extends(store[f], store[f])
  BY DEF Extends
<1>3. \A f \in Ends : store'[f] = IF f = e THEN x.store ELSE store[f]
  BY <1>1
<1> QED BY <1>1, <1>2, <1>3

LEMMA InstallKeepsEnds ==
    ASSUME TypeOK, \A f \in Ends : EndOK(f), NEW e \in Ends,
           NEW x, EffectOK(e, x), NEW w \in Seq(Message), NEW d \in Seq(Nat),
           Install(e, x, [wire EXCEPT ![e] = w]),
           \A i \in DOMAIN w : \E j \in DOMAIN wire[e] : w[i] = wire[e][j],
           Chain(w, Expected(x.s)),
           delivered' = [delivered EXCEPT ![e] = d],
           \A n \in DOMAIN delivered[e] : \E i \in DOMAIN d : d[i] = delivered[e][n],
           Ordered(d, x.s.incoming_seq_no),
           \A f \in Ends : cut[f] \subseteq cut'[f],
           Accounts(e, x, d)
    PROVE  EndsKept
<1> DEFINE o == Other(e)
           u == IF broken \/ ~socket[o] THEN wire[o] ELSE wire[o] \o x.out
<1>1. /\ o \in Ends /\ o # e /\ \A f \in Ends : f = e \/ f = o
      /\ session[o] \in Session /\ wire[o] \in Seq(Message)
      /\ x.s \in Session /\ x.store \in Seq(MsgType) /\ x.out \in Seq(Message)
  BY TypeOfEnds DEF EffectOK
<1>2. /\ session' = [session EXCEPT ![e] = x.s]
      /\ store' = [store EXCEPT ![e] = x.store]
      /\ x.s.outgoing_seq_no <= MaxSent
  BY DEF Install
<1>3. wire' = [f \in Ends |-> IF f = e THEN w ELSE u]
  <2>1. /\ wire \in [Ends -> Seq(Message)]
        /\ wire' = IF broken \/ ~socket[o] THEN [wire EXCEPT ![e] = w]
                   ELSE [[wire EXCEPT ![e] = w] EXCEPT ![o] = @ \o x.out]
    BY DEF Install, TypeOK
  <2>2. [wire EXCEPT ![e] = w][o] = wire[o]
    BY <1>1, <2>1
  <2>3. CASE broken \/ ~socket[o]
    BY <1>1, <2>1, <2>3
  <2>4. CASE ~(broken \/ ~socket[o])
    BY <1>1, <2>1, <2>2, <2>4
  <2> QED BY <2>3, <2>4
<1>4. u \in Seq(Message)
  BY <1>1, ConcatProperties
<1>5. \A i \in DOMAIN u : \/ \E j \in DOMAIN wire[o] : u[i] = wire[o][j]
                          \/ \E j \in DOMAIN x.out : u[i] = x.out[j]
  <2>1. CASE broken \/ ~socket[o]
    BY <2>1
  <2>2. CASE ~(broken \/ ~socket[o])
    <3>1. u = wire[o] \o x.out
      BY <2>2
    <3>2. \A i \in DOMAIN (wire[o] \o x.out) :
             \/ \E j \in DOMAIN wire[o] : (wire[o] \o x.out)[i] = wire[o][j]
             \/ \E j \in DOMAIN x.out : (wire[o] \o x.out)[i] = x.out[j]
      BY <1>1, ConcatFrom, Zenon
    <3> HIDE DEF u
    <3> QED BY <3>1, <3>2, Zenon
  <2> QED BY <2>1, <2>2
<1>6. Chain(u, Expected(session[o]))
  <2>1. Chain(wire[o], Expected(session[o])) /\ Chain(x.out, Expected(session[o]))
    BY <1>1 DEF EndOK, Flight, EffectOK
  <2>2. Expected(session[o]) \in Nat
    BY <1>1, SessionNumbers
  <2> QED BY <1>1, <2>1, <2>2, ChainConcat
<1> HIDE DEF u
<1>7. \A f \in Ends : EndOK(f)'
  BY <1>2, <1>3, <1>4, <1>5, <1>6, StepKeepsEnds
<1>8. DataTypes'
  BY <1>1, <1>2, <1>3, <1>4 DEF DataTypes, TypeOK
<1>9. \A f \in Ends : Extends(store[f], store'[f])
  BY <1>2, StoresExtend
<1> QED BY <1>7, <1>8, <1>9 DEF EndsKept

(* A step that reads nothing, or closes the end, and counts nothing.       *)
LEMMA QuietInstall ==
    ASSUME TypeOK, \A f \in Ends : EndOK(f), NEW e \in Ends,
           NEW x, EffectOK(e, x), x.s.incoming_seq_no = session[e].incoming_seq_no,
           \/ Install(e, x, wire)
           \/ Install(e, x, [wire EXCEPT ![e] = <<>>])
           \/ /\ wire[e] # <<>> /\ Head(wire[e]).seq # Expected(session[e])
              /\ Install(e, x, [wire EXCEPT ![e] = Tail(@)]),
           UNCHANGED <<delivered, cut>>
    PROVE  EndsKept
<1> DEFINE d == delivered[e]
<1>1. /\ wire[e] \in Seq(Message) /\ d \in Seq(Nat) /\ x.s \in Session
      /\ session[e] \in Session
  BY TypeOfEnds DEF EffectOK
<1>2. delivered' = [delivered EXCEPT ![e] = d] /\ \A f \in Ends : cut[f] \subseteq cut'[f]
  BY DEF TypeOK
<1>3. Ordered(d, x.s.incoming_seq_no) /\ Accounts(e, x, d)
  BY <1>1, SessionNumbers DEF EndOK, Accounts
<1>4. Expected(x.s) = Expected(session[e]) /\ Expected(session[e]) \in Nat
  BY <1>1, SessionNumbers
<1>5. Chain(wire[e], Expected(x.s))
  BY <1>4 DEF EndOK, Flight
<1>6. CASE Install(e, x, wire)
  <2>1. wire = [wire EXCEPT ![e] = wire[e]]
    BY DEF TypeOK
  <2>2. Install(e, x, [wire EXCEPT ![e] = wire[e]])
    BY <1>6, <2>1
  <2> QED BY <1>1, <1>2, <1>3, <1>5, <2>2, InstallKeepsEnds
<1>7. CASE Install(e, x, [wire EXCEPT ![e] = <<>>])
  <2>1. <<>> \in Seq(Message) /\ DOMAIN <<>> = {}
    OBVIOUS
  <2> DEFINE w == <<>>
  <2>2. w \in Seq(Message) /\ (\A i \in DOMAIN w : FALSE) /\ Chain(w, Expected(x.s))
        /\ Install(e, x, [wire EXCEPT ![e] = w])
    BY <1>7, <2>1, ChainEmpty
  <2> HIDE DEF w
  <2> QED BY <1>1, <1>2, <1>3, <2>2, InstallKeepsEnds
<1>8. CASE /\ wire[e] # <<>> /\ Head(wire[e]).seq # Expected(session[e])
           /\ Install(e, x, [wire EXCEPT ![e] = Tail(@)])
  <2> DEFINE w == Tail(wire[e])
  <2>1. w \in Seq(Message) /\ \A i \in DOMAIN w : \E j \in DOMAIN wire[e] : w[i] = wire[e][j]
    BY <1>1, <1>8, TailFrom
  <2>2. Chain(w, Expected(x.s))
    BY <1>1, <1>4, <1>5, <1>8, ChainTail
  <2>3. Install(e, x, [wire EXCEPT ![e] = w])
    BY <1>8
  <2> HIDE DEF w
  <2> QED BY <1>1, <1>2, <1>3, <2>1, <2>2, <2>3, InstallKeepsEnds
<1> QED BY <1>6, <1>7, <1>8

(* A step that reads the first message and counts.                         *)
LEMMA CountingInstall ==
    ASSUME TypeOK, \A f \in Ends : EndOK(f), NEW e \in Ends,
           NEW x, EffectOK(e, x), x.s.incoming_seq_no > session[e].incoming_seq_no,
           wire[e] # <<>>, Install(e, x, [wire EXCEPT ![e] = Tail(@)]),
           NEW d \in Seq(Nat), delivered' = [delivered EXCEPT ![e] = d],
           \A n \in DOMAIN delivered[e] : \E i \in DOMAIN d : d[i] = delivered[e][n],
           Ordered(d, x.s.incoming_seq_no),
           UNCHANGED cut,
           Accounts(e, x, d)
    PROVE  EndsKept
<1>1. wire[e] \in Seq(Message) /\ x.s \in Session /\ session[e] \in Session
  BY TypeOfEnds DEF EffectOK
<1>2. /\ Expected(session[e]) \in Nat /\ Expected(x.s) \in Nat
      /\ Expected(session[e]) < Expected(x.s)
  BY <1>1, SessionNumbers
<1> DEFINE w == Tail(wire[e])
<1>3. w \in Seq(Message) /\ \A i \in DOMAIN w : \E j \in DOMAIN wire[e] : w[i] = wire[e][j]
  BY <1>1, TailFrom
<1>4. Chain(w, Expected(x.s))
  <2>1. Chain(wire[e], Expected(session[e]))
    BY DEF EndOK, Flight
  <2> QED BY <1>1, <1>2, <2>1, ChainTail
<1>5. Install(e, x, [wire EXCEPT ![e] = w]) /\ \A f \in Ends : cut[f] \subseteq cut'[f]
  OBVIOUS
<1> HIDE DEF w
<1> QED BY <1>3, <1>4, <1>5, InstallKeepsEnds

-----------------------------------------------------------------------------
(* The operators on effects                                                *)

LEMMA EffectFields ==
    \A s, st, out : /\ Effect(s, st, out).s = s
                    /\ Effect(s, st, out).store = st
                    /\ Effect(s, st, out).out = out
  BY DEF Effect

LEMMA EffectExcept ==
    \A s, st, out, z :
        /\ [Effect(s, st, out) EXCEPT !.s = z] = Effect(z, st, out)
        /\ [Effect(s, st, out) EXCEPT !.out = z] = Effect(s, st, z)
        /\ [Effect(s, st, out) EXCEPT !.s.state = z]
              = Effect([s EXCEPT !.state = z], st, out)
        /\ [Effect(s, st, out) EXCEPT !.s.received_logout_response = z]
              = Effect([s EXCEPT !.received_logout_response = z], st, out)
        /\ [Effect(s, st, out) EXCEPT !.s.needs_to_send_resend_request = z]
              = Effect([s EXCEPT !.needs_to_send_resend_request = z], st, out)
  BY DEF Effect

(* t is session s with another state or other flags, no new request and    *)
(* the same numbers.                                                       *)
Quiet(s, t) ==
    /\ t \in Session
    /\ t.incoming_seq_no = s.incoming_seq_no
    /\ t.outgoing_seq_no = s.outgoing_seq_no
    /\ t.needs_to_send_resend_request =>
          /\ s.needs_to_send_resend_request
          /\ t.outgoing_resend_request_begin_no = s.outgoing_resend_request_begin_no
    /\ t.needs_responding_to_incoming_resend_request =>
          /\ s.needs_responding_to_incoming_resend_request
          /\ t.incoming_resend_request_begin_no = s.incoming_resend_request_begin_no
          /\ t.incoming_resend_request_end_no = s.incoming_resend_request_end_no

LEMMA QuietEdits ==
    ASSUME NEW s \in Session
    PROVE  /\ Quiet(s, s) /\ Quiet(s, reset_flags(s)) /\ Quiet(s, ResendAnswered(s))
           /\ \A z \in SessionState : Quiet(s, [s EXCEPT !.state = z])
           /\ \A b \in BOOLEAN : Quiet(s, [s EXCEPT !.received_logout_response = b])
           /\ Quiet(s, [s EXCEPT !.needs_to_send_resend_request = FALSE])
  BY DEF Session, SessionState, LiveStates, reset_flags, ResendAnswered, Quiet

LEMMA QuietTransitive ==
    ASSUME NEW s, NEW t, NEW r, Quiet(s, t), Quiet(t, r)
    PROVE  Quiet(s, r)
  BY DEF Quiet

LEMMA QuietRequests ==
    ASSUME NEW s \in Session, NEW t, NEW other, Quiet(s, t), RequestsOK(s, other)
    PROVE  RequestsOK(t, other)
  BY DEF Quiet, RequestsOK, Expected

LEMMA EditedEffect ==
    ASSUME TypeOK, NEW e \in Ends, NEW s, NEW st, NEW out, NEW t \in Session,
           EffectOK(e, Effect(s, st, out)),
           t.outgoing_seq_no = s.outgoing_seq_no,
           s.incoming_seq_no <= t.incoming_seq_no,
           RequestsOK(t, session[Other(e)])
    PROVE  EffectOK(e, Effect(t, st, out))
<1>1. /\ s \in Session /\ st \in Seq(MsgType) /\ out \in Seq(Message)
      /\ Later(session[e], s) /\ Extends(store[e], st)
      /\ Len(st) = s.outgoing_seq_no
      /\ \A n \in DOMAIN st : st[n] # "SEQUENCE_RESET"
      /\ Rejected(st) => replay_messages
      /\ \A i \in DOMAIN out : Faithful(out[i], st, s, session[Other(e)])
      /\ Chain(out, Expected(session[Other(e)]))
  BY EffectFields DEF EffectOK
<1>2. session[e] \in Session /\ session[Other(e)] \in Session
  BY TypeOfEnds
<1>3. Later(s, t) /\ Later(session[e], t) /\ Later(session[Other(e)], session[Other(e)])
      /\ Extends(st, st)
  <2>1. Later(s, t) /\ Extends(st, st)
    BY <1>1, SessionNumbers DEF Later, Extends
  <2> QED BY <1>1, <1>2, <2>1, LaterTransitive, LaterReflexive
<1>4. \A i \in DOMAIN out : Faithful(out[i], st, t, session[Other(e)])
  BY <1>1, <1>2, <1>3, MessageSeq, FaithfulLater
<1>5. /\ Effect(t, st, out).s = t /\ Effect(t, st, out).store = st
      /\ Effect(t, st, out).out = out
  BY EffectFields
<1> QED BY <1>1, <1>3, <1>4, <1>5 DEF EffectOK

LEMMA QuietEffect ==
    ASSUME TypeOK, NEW e \in Ends, NEW s, NEW st, NEW out, NEW t,
           EffectOK(e, Effect(s, st, out)), Quiet(s, t)
    PROVE  EffectOK(e, Effect(t, st, out))
<1>1. s \in Session /\ RequestsOK(s, session[Other(e)])
  BY EffectFields DEF EffectOK
<1>2. RequestsOK(t, session[Other(e)])
  BY <1>1, QuietRequests
<1>3. /\ t \in Session /\ t.outgoing_seq_no = s.outgoing_seq_no
      /\ s.incoming_seq_no <= t.incoming_seq_no
  BY <1>1, SessionNumbers DEF Quiet
<1> QED BY <1>2, <1>3, EditedEffect

LEMMA StartEffect ==
    ASSUME TypeOK, NEW e \in Ends, EndOK(e)
    PROVE  EffectOK(e, Start(e)) /\ Start(e) = Effect(session[e], store[e], <<>>)
<1>1. session[e] \in Session /\ store[e] \in Seq(MsgType)
  BY TypeOfEnds
<1>2. Later(session[e], session[e]) /\ Extends(store[e], store[e])
  BY <1>1, SessionNumbers DEF Later, Extends
<1>3. <<>> \in Seq(Message) /\ DOMAIN <<>> = {}
  OBVIOUS
<1>4. Chain(<<>>, Expected(session[Other(e)]))
  BY ChainEmpty
<1>5. /\ Start(e).s = session[e] /\ Start(e).store = store[e] /\ Start(e).out = <<>>
      /\ Start(e) = Effect(session[e], store[e], <<>>)
  BY EffectFields DEF Start
<1>6. /\ StoreOK(store[e], session[e]) /\ RequestsOK(session[e], session[Other(e)])
  BY DEF EndOK
<1> HIDE DEF Start
<1> QED BY <1>1, <1>2, <1>3, <1>4, <1>5, <1>6 DEF EffectOK, StoreOK

(* What a message needs in order to be sent with the next number.          *)
Sendable(e, s, m) ==
    /\ m \in Message /\ m.type # "SEQUENCE_RESET"
    /\ m.type = "REJECT" => replay_messages
    /\ m.type = "RESEND_REQUEST" =>
          /\ m.tags_ok /\ m.end = 0
          /\ 1 <= m.begin /\ m.begin <= Expected(s)
          /\ m.begin <= session[Other(e)].outgoing_seq_no

LEMMA SendEffect ==
    ASSUME TypeOK, NEW e \in Ends, NEW s, NEW st, NEW out, NEW m,
           EffectOK(e, Effect(s, st, out)), Sendable(e, s, m)
    PROVE  LET t == [s EXCEPT !.outgoing_seq_no = s.outgoing_seq_no + 1]
           IN  /\ EffectOK(e, send_outgoing_message(Effect(s, st, out), m))
               /\ send_outgoing_message(Effect(s, st, out), m)
                     = Effect(t, Append(st, m.type),
                              Append(out, [m EXCEPT !.seq = s.outgoing_seq_no + 1]))
               /\ t \in Session
               /\ t.incoming_seq_no = s.incoming_seq_no
<1> DEFINE n == s.outgoing_seq_no + 1
           t == [s EXCEPT !.outgoing_seq_no = n]
           k == [m EXCEPT !.seq = n]
           st2 == Append(st, m.type)
           out2 == Append(out, k)
           o == Other(e)
<1>1. /\ s \in Session /\ st \in Seq(MsgType) /\ out \in Seq(Message)
      /\ Later(session[e], s) /\ Extends(store[e], st)
      /\ Len(st) = s.outgoing_seq_no
      /\ \A i \in DOMAIN st : st[i] # "SEQUENCE_RESET"
      /\ Rejected(st) => replay_messages
      /\ RequestsOK(s, session[o])
      /\ \A i \in DOMAIN out : Faithful(out[i], st, s, session[o])
      /\ Chain(out, Expected(session[o]))
  BY EffectFields DEF EffectOK
<1>2. session[e] \in Session /\ session[o] \in Session
  BY TypeOfEnds
<1>3. n \in Nat /\ 1 <= n /\ s.outgoing_seq_no \in Nat
  BY <1>1, SessionNumbers
<1>4. send_outgoing_message(Effect(s, st, out), m) = Effect(t, st2, out2)
  BY EffectFields DEF send_outgoing_message
<1>5. /\ t \in Session
      /\ t.incoming_seq_no = s.incoming_seq_no /\ t.outgoing_seq_no = n
      /\ t.needs_to_send_resend_request = s.needs_to_send_resend_request
      /\ t.outgoing_resend_request_begin_no = s.outgoing_resend_request_begin_no
      /\ t.needs_responding_to_incoming_resend_request
            = s.needs_responding_to_incoming_resend_request
      /\ t.incoming_resend_request_begin_no = s.incoming_resend_request_begin_no
      /\ t.incoming_resend_request_end_no = s.incoming_resend_request_end_no
  <2> HIDE DEF n
  <2> QED BY <1>1, <1>3 DEF Session
<1>6. /\ k \in Message /\ k.seq = n /\ k.type = m.type
      /\ k.tags_ok = m.tags_ok /\ k.begin = m.begin /\ k.end = m.end
  <2> HIDE DEF n
  <2> QED BY <1>3 DEF Message, Sendable
<1>7. m.type \in MsgType
  BY DEF Sendable, Message
<1>8. /\ st2 \in Seq(MsgType) /\ Len(st2) = n /\ DOMAIN st2 = 1 .. n
      /\ DOMAIN st = 1 .. n - 1
      /\ \A i \in 1 .. n - 1 : st2[i] = st[i]
      /\ st2[n] = m.type
  <2>1. Len(st) = n - 1
    BY <1>1, <1>3
  <2> QED BY <1>1, <1>3, <1>7, <2>1, AppendProperties, SeqDomain
<1>9. /\ out2 \in Seq(Message) /\ DOMAIN out2 = 1 .. Len(out) + 1
      /\ DOMAIN out = 1 .. Len(out) /\ Len(out) \in Nat
      /\ \A i \in 1 .. Len(out) : out2[i] = out[i]
      /\ out2[Len(out) + 1] = k
  <2> HIDE DEF k
  <2> QED BY <1>1, <1>6, AppendProperties, SeqDomain
<1> HIDE DEF n, t, k, st2, out2
<1>10. Extends(st, st2) /\ Extends(store[e], st2)
  BY <1>1, <1>3, <1>8 DEF Extends
<1>11. Later(s, t) /\ Later(session[e], t) /\ Later(session[o], session[o])
  <2>1. Later(s, t)
    BY <1>1, <1>3, <1>5, SessionNumbers DEF Later, n
  <2> QED BY <1>1, <1>2, <1>5, <2>1, LaterTransitive, LaterReflexive
<1>12. \A i \in DOMAIN st2 : st2[i] # "SEQUENCE_RESET"
  BY <1>1, <1>3, <1>8 DEF Sendable
<1>13. Rejected(st2) => replay_messages
  BY <1>1, <1>3, <1>8 DEF Sendable, Rejected
<1>14. RequestsOK(t, session[o])
  BY <1>1, <1>2, <1>3, <1>5, <1>11, SessionNumbers DEF RequestsOK, Expected, Later
<1>15. Faithful(k, st2, t, session[o])
  BY <1>3, <1>5, <1>6, <1>8 DEF Faithful, Original, Sendable, Expected
<1>16. ASSUME NEW i \in DOMAIN out2 PROVE Faithful(out2[i], st2, t, session[o])
  <2>1. CASE i = Len(out) + 1
    BY <1>9, <1>15, <2>1
  <2>2. CASE i # Len(out) + 1
    <3>1. i \in DOMAIN out /\ out2[i] = out[i]
      BY <1>9, <2>2
    <3>2. Faithful(out[i], st, s, session[o]) /\ out[i] \in Message
      BY <1>1, <3>1, MessageSeq
    <3>3. Faithful(out[i], st2, t, session[o])
      BY <1>1, <1>2, <1>5, <1>10, <1>11, <3>2, FaithfulLater
    <3> QED BY <3>1, <3>3
  <2> QED BY <2>1, <2>2
<1>17. Chain(out2, Expected(session[o]))
  <2>1. ~is_a_hard_sequence_reset_message(k)
    BY <1>6 DEF is_a_hard_sequence_reset_message, Sendable
  <2>2. ASSUME NEW i \in DOMAIN out2, is_a_hard_sequence_reset_message(out2[i]),
               NEW q \in Nat, Expected(session[o]) <= q, q < out2[i].seq
        PROVE  i - (out2[i].seq - q) \in DOMAIN out2 /\ out2[i - (out2[i].seq - q)].seq = q
    <3>1. i \in DOMAIN out /\ out2[i] = out[i]
      BY <1>9, <2>1, <2>2
    <3> DEFINE j == i - (out[i].seq - q)
    <3>2. j \in DOMAIN out /\ out[j].seq = q
      BY <1>1, <2>2, <3>1 DEF Chain
    <3> HIDE DEF j
    <3>3. j \in DOMAIN out2 /\ out2[j].seq = q
      BY <1>9, <3>2
    <3> QED BY <3>1, <3>3 DEF j
  <2> QED BY <2>2 DEF Chain
<1>18. EffectOK(e, Effect(t, st2, out2))
  <2>1. /\ Effect(t, st2, out2).s = t /\ Effect(t, st2, out2).store = st2
        /\ Effect(t, st2, out2).out = out2
    BY EffectFields
  <2> QED BY <1>5, <1>8, <1>9, <1>10, <1>11, <1>12, <1>13, <1>14, <1>16, <1>17, <2>1
          DEF EffectOK
<1> QED BY <1>4, <1>5, <1>18 DEF t, n, st2, out2, k

LEMMA BasicIs ==
    ASSUME NEW type \in MsgType, NEW n \in Nat
    PROVE  LET m == BasicMessage(type, n)
           IN  /\ m \in Message /\ m.type = type /\ m.seq = n
               /\ m.tags_ok = TRUE /\ m.gap_fill = FALSE
               /\ m.begin = 0 /\ m.end = 0 /\ m.new = 0
  BY DEF BasicMessage, Message

PlainTypes == MsgType \ {"SEQUENCE_RESET", "RESEND_REQUEST"}

LEMMA SendTypeEffect ==
    ASSUME TypeOK, NEW e \in Ends, NEW s, NEW st, NEW out, NEW type \in PlainTypes,
           EffectOK(e, Effect(s, st, out)), type = "REJECT" => replay_messages
    PROVE  LET t == [s EXCEPT !.outgoing_seq_no = s.outgoing_seq_no + 1]
           IN  \E out2 :
                 /\ SendType(Effect(s, st, out), type) = Effect(t, Append(st, type), out2)
                 /\ EffectOK(e, Effect(t, Append(st, type), out2))
                 /\ t \in Session
                 /\ t.incoming_seq_no = s.incoming_seq_no
<1> DEFINE m == BasicMessage(type, 0)
           t == [s EXCEPT !.outgoing_seq_no = s.outgoing_seq_no + 1]
           out2 == Append(out, [m EXCEPT !.seq = s.outgoing_seq_no + 1])
<1>1. type \in MsgType /\ type # "SEQUENCE_RESET" /\ type # "RESEND_REQUEST"
  BY DEF PlainTypes
<1>2. m \in Message /\ m.type = type
  BY <1>1, BasicIs
<1> HIDE DEF m
<1>3. Sendable(e, s, m)
  BY <1>1, <1>2 DEF Sendable
<1>4. /\ EffectOK(e, send_outgoing_message(Effect(s, st, out), m))
      /\ send_outgoing_message(Effect(s, st, out), m) = Effect(t, Append(st, m.type), out2)
      /\ t \in Session /\ t.incoming_seq_no = s.incoming_seq_no
  BY <1>3, SendEffect
<1>5. SendType(Effect(s, st, out), type) = send_outgoing_message(Effect(s, st, out), m)
  BY DEF SendType, m
<1> HIDE DEF t, out2
<1>6. SendType(Effect(s, st, out), type) = Effect(t, Append(st, type), out2)
  BY <1>2, <1>4, <1>5
<1>7. EffectOK(e, Effect(t, Append(st, type), out2))
  BY <1>4, <1>5, <1>6
<1> QED BY <1>4, <1>6, <1>7 DEF t

LEMMA AppendRejected ==
    ASSUME NEW st \in Seq(MsgType)
    PROVE  Rejected(Append(st, "REJECT"))
<1>1. "REJECT" \in MsgType
  BY DEF MsgType
<1>2. /\ Append(st, "REJECT") \in Seq(MsgType)
      /\ Len(Append(st, "REJECT")) = Len(st) + 1
      /\ Append(st, "REJECT")[Len(st) + 1] = "REJECT"
  BY <1>1, AppendProperties
<1>3. Len(st) + 1 \in DOMAIN Append(st, "REJECT")
  BY <1>2, SeqDomain
<1> QED BY <1>2, <1>3 DEF Rejected

-----------------------------------------------------------------------------
(* Receiving a message                                                     *)

LEMMA AcceptIs ==
    ASSUME NEW s \in Session, NEW m \in Message
    PROVE  LET r == Accept(s, m)
           IN  /\ r \in Session
               /\ r.incoming_seq_no = Expected(s)
               /\ r.outgoing_seq_no = s.outgoing_seq_no
               /\ r.needs_to_send_resend_request = s.needs_to_send_resend_request
               /\ r.outgoing_resend_request_begin_no = s.outgoing_resend_request_begin_no
               /\ r.needs_responding_to_incoming_resend_request
                     = s.needs_responding_to_incoming_resend_request
               /\ r.incoming_resend_request_begin_no = s.incoming_resend_request_begin_no
               /\ r.incoming_resend_request_end_no = s.incoming_resend_request_end_no
<1> DEFINE n == Expected(s)
           z == IF /\ s.state = "IN_RETRANSMISSION_INITIATED_BY_SELF"
                   /\ m.seq = s.outgoing_resend_request_end_no
                THEN "LOGGED_ON" ELSE s.state
<1>1. n \in Nat
  BY SessionNumbers
<1>2. z \in SessionState
  BY DEF Session, SessionState, LiveStates
<1>3. Accept(s, m) = [s EXCEPT !.incoming_seq_no = n, !.state = z]
  BY DEF Accept
<1> HIDE DEF n, z
<1>4. LET r == [s EXCEPT !.incoming_seq_no = n, !.state = z]
      IN  /\ r \in Session
          /\ r.incoming_seq_no = n
          /\ r.outgoing_seq_no = s.outgoing_seq_no
          /\ r.needs_to_send_resend_request = s.needs_to_send_resend_request
          /\ r.outgoing_resend_request_begin_no = s.outgoing_resend_request_begin_no
          /\ r.needs_responding_to_incoming_resend_request
                = s.needs_responding_to_incoming_resend_request
          /\ r.incoming_resend_request_begin_no = s.incoming_resend_request_begin_no
          /\ r.incoming_resend_request_end_no = s.incoming_resend_request_end_no
  BY <1>1, <1>2 DEF Session
<1> QED BY <1>3, <1>4 DEF n

(* The first message in flight to e.                                       *)
LEMMA FirstMessage ==
    ASSUME TypeOK, NEW e \in Ends, EndOK(e), EndOK(Other(e)), wire[e] # <<>>
    PROVE  /\ Message1(e) \in Message /\ Message1(e).seq \in Nat
           /\ Faithful(Message1(e), store[Other(e)], session[Other(e)], session[e])
           /\ is_a_hard_sequence_reset_message(Message1(e))
                 => Message1(e).seq <= Expected(session[e])
           /\ DOMAIN store[Other(e)] = 1 .. session[Other(e)].outgoing_seq_no
<1> DEFINE w == wire[e]
<1>1. /\ w \in Seq(Message) /\ session[e] \in Session
      /\ Other(e) \in Ends /\ store[Other(e)] \in Seq(MsgType)
  BY TypeOfEnds
<1>2. /\ Len(w) \in Nat /\ DOMAIN w = 1 .. Len(w)
      /\ \A i \in DOMAIN w : w[i] \in Message /\ w[i].seq \in Nat
  BY <1>1, MessageSeq
<1>3. 1 \in DOMAIN w /\ Message1(e) = w[1]
  BY <1>1, <1>2 DEF Message1
<1>4. Chain(w, Expected(session[e])) /\ Expected(session[e]) \in Nat
  BY <1>1, SessionNumbers DEF EndOK, Flight
<1>5. is_a_hard_sequence_reset_message(w[1]) => w[1].seq <= Expected(session[e])
  <2> SUFFICES ASSUME is_a_hard_sequence_reset_message(w[1]),
                      ~(w[1].seq <= Expected(session[e]))
               PROVE  FALSE
    OBVIOUS
  <2> DEFINE k == Expected(session[e])
             j == 1 - (w[1].seq - k)
  <2>1. k \in Nat /\ k < w[1].seq /\ w[1].seq \in Nat
    BY <1>2, <1>3, <1>4
  <2>2. j \in DOMAIN w
    BY <1>3, <1>4, <2>1 DEF Chain
  <2>3. j < 1
    <3> HIDE DEF k
    <3> QED BY <2>1
  <2> QED BY <1>2, <2>2, <2>3
<1>6. DOMAIN store[Other(e)] = 1 .. session[Other(e)].outgoing_seq_no
  BY <1>1, SeqDomain DEF EndOK, StoreOK
<1> QED BY <1>2, <1>3, <1>5, <1>6 DEF EndOK, Flight

(* A message that is too high asks for the numbers that are missing, which *)
(* the other end has sent.                                                 *)
LEMMA HighEffect ==
    ASSUME TypeOK, NEW e \in Ends, EndOK(e), EndOK(Other(e)), wire[e] # <<>>,
           NEW s, NEW st, NEW out, EffectOK(e, Effect(s, st, out)),
           s.incoming_seq_no = session[e].incoming_seq_no,
           IsHigh(s, Message1(e))
    PROVE  LET q == queue_outgoing_resend_request(s, Expected(s), Message1(e).seq)
           IN  /\ EffectOK(e, Effect(q, st, out)) /\ q \in Session
               /\ q.incoming_seq_no = session[e].incoming_seq_no
               /\ Message1(e).seq # Expected(session[e])
<1> DEFINE m == Message1(e)
           n == Expected(s)
           l == m.seq
           t == session[Other(e)]
           q == queue_outgoing_resend_request(s, n, l)
<1>1. /\ m \in Message /\ l \in Nat
      /\ Faithful(m, store[Other(e)], t, session[e])
      /\ DOMAIN store[Other(e)] = 1 .. t.outgoing_seq_no
  BY FirstMessage
<1>2. s \in Session /\ t \in Session /\ session[e] \in Session /\ RequestsOK(s, t)
  BY TypeOfEnds, EffectFields DEF EffectOK
<1>3. n \in Nat /\ n = s.incoming_seq_no + 1 /\ s.incoming_seq_no \in Nat
      /\ n = Expected(session[e]) /\ t.outgoing_seq_no \in Nat
  BY <1>2, SessionNumbers DEF Expected
<1>4. n < l /\ ~is_a_hard_sequence_reset_message(m)
  BY <1>1, <1>3 DEF IsHigh
<1>5. n <= t.outgoing_seq_no
  <2>1. CASE Original(m, store[Other(e)], t, session[e])
    BY <1>1, <1>3, <1>4, <2>1 DEF Original
  <2>2. CASE HardReset(m, store[Other(e)])
    BY <1>4, <2>2 DEF HardReset, is_a_hard_sequence_reset_message
  <2>3. CASE GapFill(m, t, session[e])
    BY <1>1, <1>3, <1>4, <2>3 DEF GapFill
  <2> QED BY <1>1, <2>1, <2>2, <2>3 DEF Faithful
<1> DEFINE b == n - 1
<1>6. b \in Nat /\ b = s.incoming_seq_no /\ n = b + 1
  BY <1>3
<1>7. q = [s EXCEPT !.needs_to_send_resend_request = TRUE, !.incoming_seq_no = b,
                    !.outgoing_resend_request_begin_no = n,
                    !.outgoing_resend_request_end_no = l]
  BY DEF queue_outgoing_resend_request
<1> HIDE DEF n, l, b, q, m
<1>8. /\ q \in Session /\ q.incoming_seq_no = b /\ q.outgoing_seq_no = s.outgoing_seq_no
      /\ q.outgoing_resend_request_begin_no = n
      /\ q.needs_responding_to_incoming_resend_request
            = s.needs_responding_to_incoming_resend_request
      /\ q.incoming_resend_request_begin_no = s.incoming_resend_request_begin_no
      /\ q.incoming_resend_request_end_no = s.incoming_resend_request_end_no
  BY <1>1, <1>2, <1>3, <1>6, <1>7 DEF Session
<1>9. RequestsOK(q, t)
  BY <1>2, <1>3, <1>5, <1>6, <1>8 DEF RequestsOK, Expected
<1>10. EffectOK(e, Effect(q, st, out))
  BY <1>2, <1>3, <1>6, <1>8, <1>9, EditedEffect
<1>11. l # Expected(session[e])
  BY <1>1, <1>3, <1>4
<1> QED BY <1>6, <1>8, <1>10, <1>11 DEF q, n, l, m

(* What the handler of an expected message m, or of a hard reset, makes of *)
(* end e: it counts, and what it counts is what the other end sent.        *)
Received(e, y, m) ==
    /\ EffectOK(e, y)
    /\ y.s.incoming_seq_no > session[e].incoming_seq_no
    /\ m.type = "APP" => m.seq = Expected(session[e])
    /\ \/ Rejected(y.store)
       \/ \A n \in Nat : session[e].incoming_seq_no < n /\ n <= y.s.incoming_seq_no =>
             /\ n \in DOMAIN store[Other(e)]
             /\ AllReplayed /\ store[Other(e)][n] = "APP" => m.type = "APP" /\ n = m.seq

LEMMA AcceptedEffect ==
    ASSUME TypeOK, NEW e \in Ends, EndOK(e), NEW m \in Message
    PROVE  EffectOK(e, Effect(Accept(session[e], m), store[e], <<>>))
<1> DEFINE s == session[e]
           r == Accept(s, m)
<1>1. s \in Session /\ session[Other(e)] \in Session
  BY TypeOfEnds
<1>2. /\ r \in Session
      /\ r.incoming_seq_no = Expected(s)
      /\ r.outgoing_seq_no = s.outgoing_seq_no
      /\ r.needs_to_send_resend_request = s.needs_to_send_resend_request
      /\ r.outgoing_resend_request_begin_no = s.outgoing_resend_request_begin_no
      /\ r.needs_responding_to_incoming_resend_request
            = s.needs_responding_to_incoming_resend_request
      /\ r.incoming_resend_request_begin_no = s.incoming_resend_request_begin_no
      /\ r.incoming_resend_request_end_no = s.incoming_resend_request_end_no
  BY <1>1, AcceptIs
<1> HIDE DEF r
<1>3. /\ s.incoming_seq_no <= r.incoming_seq_no
      /\ Expected(s) \in Nat /\ Expected(r) \in Nat /\ Expected(s) <= Expected(r)
      /\ s.outgoing_resend_request_begin_no \in Nat
  BY <1>1, <1>2, SessionNumbers
<1>4. RequestsOK(s, session[Other(e)])
  BY DEF EndOK
<1>5. RequestsOK(r, session[Other(e)])
  BY <1>2, <1>3, <1>4 DEF RequestsOK
<1>6. EffectOK(e, Effect(s, store[e], <<>>))
  BY StartEffect
<1>7. EffectOK(e, Effect(r, store[e], <<>>))
  BY <1>2, <1>3, <1>5, <1>6, EditedEffect
<1> QED BY <1>7 DEF r

(* The number of a message that is neither too high nor too low.           *)
LEMMA InOrderNumber ==
    ASSUME NEW s \in Session, NEW m \in Message, ~IsHigh(s, m), ~IsLow(s, m),
           ~is_a_hard_sequence_reset_message(m)
    PROVE  m.seq = Expected(s)
<1>1. m.seq \in Nat /\ Expected(s) \in Nat
  BY SessionNumbers DEF Message
<1> QED BY <1>1 DEF IsHigh, IsLow

LEMMA OriginalReceived ==
    ASSUME TypeOK, NEW e \in Ends, EndOK(e), EndOK(Other(e)), wire[e] # <<>>,
           ~IsHigh(session[e], Message1(e)), ~IsLow(session[e], Message1(e)),
           Message1(e).type # "SEQUENCE_RESET",
           NEW y, EffectOK(e, y), y.s.incoming_seq_no = Expected(session[e])
    PROVE  Received(e, y, Message1(e))
<1> DEFINE m == Message1(e)
           s == session[e]
<1>1. s \in Session
  BY TypeOfEnds
<1>2. /\ m \in Message /\ Faithful(m, store[Other(e)], session[Other(e)], s)
  BY FirstMessage
<1>3. Original(m, store[Other(e)], session[Other(e)], s)
  BY <1>2 DEF Faithful, HardReset, GapFill
<1>4. m.seq = Expected(s)
  BY <1>1, <1>2, InOrderNumber DEF is_a_hard_sequence_reset_message
<1>5. s.incoming_seq_no \in Nat /\ Expected(s) = s.incoming_seq_no + 1
  BY <1>1, SessionNumbers
<1>6. ASSUME NEW n \in Nat, s.incoming_seq_no < n, n <= y.s.incoming_seq_no
      PROVE  /\ n \in DOMAIN store[Other(e)]
             /\ store[Other(e)][n] = "APP" => m.type = "APP" /\ n = m.seq
  <2>1. n = m.seq
    BY <1>4, <1>5, <1>6
  <2> QED BY <1>3, <2>1 DEF Original
<1> HIDE DEF m
<1> QED BY <1>4, <1>5, <1>6 DEF Received, m

LEMMA AnswersRequest ==
    ASSUME TypeOK, NEW e \in Ends, EndOK(e), NEW r, NEW m \in Message,
           EffectOK(e, Effect(r, store[e], <<>>)),
           r.outgoing_seq_no = session[e].outgoing_seq_no,
           m.type = "RESEND_REQUEST",
           Original(m, store[Other(e)], session[Other(e)], session[e])
    PROVE  LET q == process_resend_request(r, m)
           IN  /\ EffectOK(e, Effect(q, store[e], <<>>))
               /\ q.incoming_seq_no = r.incoming_seq_no
<1> DEFINE q == process_resend_request(r, m)
           b == m.begin
           f == m.end
           t == session[Other(e)]
<1>1. r \in Session /\ RequestsOK(r, t)
  BY EffectFields DEF EffectOK
<1>2. b \in Nat /\ f \in Nat
  BY DEF Message
<1>3. /\ f = 0 /\ 1 <= b /\ b <= Expected(t) /\ b <= r.outgoing_seq_no /\ m.tags_ok
  BY DEF Original
<1>4. q = [r EXCEPT !.state = "IN_RETRANSMISSION_INITIATED_BY_PEER",
                    !.incoming_resend_request_begin_no = b,
                    !.incoming_resend_request_end_no = f,
                    !.needs_responding_to_incoming_resend_request = TRUE]
  BY <1>3 DEF process_resend_request
<1>5. "IN_RETRANSMISSION_INITIATED_BY_PEER" \in SessionState
  BY DEF SessionState, LiveStates
<1> HIDE DEF q, b, f
<1>6. /\ q \in Session
      /\ q.incoming_seq_no = r.incoming_seq_no /\ q.outgoing_seq_no = r.outgoing_seq_no
      /\ q.needs_to_send_resend_request = r.needs_to_send_resend_request
      /\ q.outgoing_resend_request_begin_no = r.outgoing_resend_request_begin_no
      /\ q.incoming_resend_request_begin_no = b
      /\ q.incoming_resend_request_end_no = f
  BY <1>1, <1>2, <1>4, <1>5 DEF Session
<1>7. RequestsOK(q, t)
  BY <1>1, <1>3, <1>6 DEF RequestsOK, Expected
<1>8. r.incoming_seq_no <= q.incoming_seq_no
  BY <1>1, <1>6, SessionNumbers
<1>9. EffectOK(e, Effect(q, store[e], <<>>))
  BY <1>6, <1>7, <1>8, EditedEffect
<1> QED BY <1>6, <1>9 DEF q

(* A forward SequenceReset sets the number.                                *)
LEMMA ResetsNumber ==
    ASSUME TypeOK, NEW e \in Ends, NEW r, NEW m \in Message,
           EffectOK(e, Effect(r, store[e], <<>>)),
           m.tags_ok, r.incoming_seq_no < m.new
    PROVE  LET q == process_incoming_sequence_reset_message(r, m)
           IN  /\ EffectOK(e, Effect(q, store[e], <<>>))
               /\ q.incoming_seq_no = m.new - 1
<1> DEFINE q == process_incoming_sequence_reset_message(r, m)
           n == m.new - 1
<1>1. r \in Session /\ RequestsOK(r, session[Other(e)])
  BY EffectFields DEF EffectOK
<1>2. n \in Nat /\ r.incoming_seq_no <= n /\ r.incoming_seq_no \in Nat
  BY <1>1, SessionNumbers DEF Message
<1>3. q = [r EXCEPT !.incoming_seq_no = n, !.state = "LOGGED_ON"]
  <2>1. m.new > r.incoming_seq_no
    BY <1>1, SessionNumbers DEF Message
  <2> QED BY <2>1 DEF process_incoming_sequence_reset_message
<1>4. "LOGGED_ON" \in SessionState
  BY DEF SessionState, LiveStates
<1> HIDE DEF q, n
<1>5. /\ q \in Session
      /\ q.incoming_seq_no = n /\ q.outgoing_seq_no = r.outgoing_seq_no
      /\ q.needs_to_send_resend_request = r.needs_to_send_resend_request
      /\ q.outgoing_resend_request_begin_no = r.outgoing_resend_request_begin_no
      /\ q.needs_responding_to_incoming_resend_request
            = r.needs_responding_to_incoming_resend_request
      /\ q.incoming_resend_request_begin_no = r.incoming_resend_request_begin_no
      /\ q.incoming_resend_request_end_no = r.incoming_resend_request_end_no
  BY <1>1, <1>2, <1>3, <1>4 DEF Session
<1>6. /\ Expected(r) \in Nat /\ Expected(q) \in Nat /\ Expected(r) <= Expected(q)
      /\ r.outgoing_resend_request_begin_no \in Nat
  BY <1>1, <1>2, <1>5, SessionNumbers
<1>7. RequestsOK(q, session[Other(e)])
  BY <1>1, <1>5, <1>6 DEF RequestsOK
<1>8. EffectOK(e, Effect(q, store[e], <<>>))
  BY <1>2, <1>5, <1>7, EditedEffect
<1> QED BY <1>5, <1>8 DEF q, n

LEMMA DispatchReceived ==
    ASSUME TypeOK, NEW e \in Ends, EndOK(e), EndOK(Other(e)), wire[e] # <<>>,
           ~IsHigh(session[e], Message1(e)), ~IsLow(session[e], Message1(e))
    PROVE  Received(e, Dispatch(Effect(Accept(session[e], Message1(e)), store[e], <<>>),
                                Message1(e)),
                    Message1(e))
<1> DEFINE m == Message1(e)
           s == session[e]
           t == session[Other(e)]
           r == Accept(s, m)
           x == Effect(r, store[e], <<>>)
<1>1. /\ s \in Session /\ t \in Session /\ store[e] \in Seq(MsgType)
      /\ store[Other(e)] \in Seq(MsgType)
  BY TypeOfEnds
<1>2. /\ m \in Message /\ m.seq \in Nat /\ Faithful(m, store[Other(e)], t, s)
      /\ is_a_hard_sequence_reset_message(m) => m.seq <= Expected(s)
      /\ DOMAIN store[Other(e)] = 1 .. t.outgoing_seq_no
  BY FirstMessage
<1>3. r \in Session /\ r.incoming_seq_no = Expected(s)
      /\ r.outgoing_seq_no = s.outgoing_seq_no
  BY <1>1, <1>2, AcceptIs
<1>4. EffectOK(e, x) /\ x.s = r
  BY <1>2, AcceptedEffect, EffectFields
<1>5. /\ Expected(s) \in Nat /\ Expected(s) = s.incoming_seq_no + 1
      /\ s.incoming_seq_no \in Nat /\ t.outgoing_seq_no \in Nat
  BY <1>1, SessionNumbers
<1>6. m.new \in Nat
  BY <1>2 DEF Message
<1>7. CASE m.type # "SEQUENCE_RESET"
  <2>1. Original(m, store[Other(e)], t, s)
    BY <1>2, <1>7 DEF Faithful, HardReset, GapFill
  <2>2. CASE m.type = "RESEND_REQUEST"
    <3> DEFINE q == process_resend_request(r, m)
    <3>1. EffectOK(e, Effect(q, store[e], <<>>)) /\ q.incoming_seq_no = r.incoming_seq_no
      BY <1>2, <1>3, <1>4, <2>1, <2>2, AnswersRequest
    <3>2. Dispatch(x, m) = Effect(q, store[e], <<>>)
      BY <2>2, EffectExcept DEF Dispatch, Effect
    <3> HIDE DEF q, x, m
    <3>3. Received(e, Effect(q, store[e], <<>>), m)
      BY <1>3, <1>7, <3>1, EffectFields, OriginalReceived DEF m
    <3> QED BY <3>2, <3>3 DEF m, x
  <2>3. CASE m.type # "RESEND_REQUEST"
    <3>1. Dispatch(x, m) = x
      BY <1>7, <2>3 DEF Dispatch
    <3>2. Received(e, x, m)
      BY <1>3, <1>4, <1>7, OriginalReceived
    <3> QED BY <3>1, <3>2
  <2> QED BY <2>2, <2>3
<1>8. CASE m.type = "SEQUENCE_RESET" /\ IsBackwardReset(r, m)
  <2>1. Dispatch(x, m) = SendType(x, "REJECT")
    BY <1>4, <1>8 DEF Dispatch
  <2>2. replay_messages
    <3>1. CASE HardReset(m, store[Other(e)])
      BY <3>1 DEF HardReset
    <3>2. CASE GapFill(m, t, s)
      <4>1. m.seq = Expected(s)
        BY <1>1, <1>2, <3>2, InOrderNumber DEF GapFill, is_a_hard_sequence_reset_message
      <4> QED BY <1>2, <1>3, <1>5, <1>6, <1>8, <3>2, <4>1 DEF GapFill, IsBackwardReset
    <3> QED BY <1>2, <1>8, <3>1, <3>2 DEF Faithful, Original
  <2>3. "REJECT" \in PlainTypes
    BY DEF PlainTypes, MsgType
  <2> DEFINE z == [r EXCEPT !.outgoing_seq_no = r.outgoing_seq_no + 1]
  <2> HIDE DEF r, m
  <2>4. PICK out2 : /\ SendType(x, "REJECT") = Effect(z, Append(store[e], "REJECT"), out2)
                    /\ EffectOK(e, Effect(z, Append(store[e], "REJECT"), out2))
                    /\ z.incoming_seq_no = r.incoming_seq_no
    BY <1>4, <2>2, <2>3, SendTypeEffect
  <2> DEFINE y == Effect(z, Append(store[e], "REJECT"), out2)
  <2>5. Rejected(y.store)
    BY <1>1, EffectFields, AppendRejected
  <2>6. y.s.incoming_seq_no > s.incoming_seq_no
    <3>1. y.s = z
      BY EffectFields
    <3>2. z.incoming_seq_no = s.incoming_seq_no + 1
      BY <1>3, <1>5, <2>4
    <3> HIDE DEF y, z
    <3> QED BY <1>5, <3>1, <3>2
  <2> HIDE DEF y
  <2>7. Received(e, y, m)
    BY <1>8, <2>4, <2>5, <2>6 DEF Received, y
  <2> QED BY <2>1, <2>4, <2>7 DEF y, r, m
<1>9. CASE m.type = "SEQUENCE_RESET" /\ ~IsBackwardReset(r, m)
  <2> DEFINE q == process_incoming_sequence_reset_message(r, m)
             y == Effect(q, store[e], <<>>)
  <2>1. Dispatch(x, m) = y
    BY <1>4, <1>9, EffectExcept DEF Dispatch, Effect
  <2>2. m.tags_ok
    BY <1>2, <1>9 DEF Faithful, Original, HardReset, GapFill
  <2>3. r.incoming_seq_no < m.new
    BY <1>3, <1>5, <1>6, <1>9, <2>2 DEF IsBackwardReset
  <2>4. EffectOK(e, y) /\ q.incoming_seq_no = m.new - 1 /\ y.s = q
    BY <1>2, <1>4, <2>2, <2>3, ResetsNumber, EffectFields
  <2> HIDE DEF q, y
  <2>5. y.s.incoming_seq_no > s.incoming_seq_no
    BY <1>3, <1>5, <1>6, <2>3, <2>4
  <2>6. ASSUME NEW n \in Nat, s.incoming_seq_no < n, n <= y.s.incoming_seq_no
        PROVE  /\ n \in DOMAIN store[Other(e)]
               /\ AllReplayed => store[Other(e)][n] # "APP"
    <3>1. CASE HardReset(m, store[Other(e)])
      <4>1. m.new = m.seq + 1 /\ m.seq <= Expected(s)
        BY <1>2, <3>1 DEF HardReset, is_a_hard_sequence_reset_message
      <4>2. n = m.seq
        BY <1>2, <1>3, <1>5, <1>6, <2>3, <2>4, <2>6, <4>1
      <4> QED BY <3>1, <4>2 DEF HardReset
    <3>2. CASE GapFill(m, t, s)
      <4>1. m.new <= t.outgoing_seq_no + 1 /\ ~AllReplayed
        BY <3>2 DEF GapFill
      <4> QED BY <1>2, <1>5, <1>6, <2>4, <2>6, <4>1
    <3> QED BY <1>2, <1>9, <3>1, <3>2 DEF Faithful, Original
  <2>7. Received(e, y, m)
    BY <1>9, <2>4, <2>5, <2>6 DEF Received
  <2> QED BY <2>1, <2>7
<1> QED BY <1>7, <1>8, <1>9

(* What the callbacks have seen after the message.                         *)
LEMMA DeliverAccounts ==
    ASSUME TypeOK, NEW e \in Ends, EndOK(e), NEW m \in Message, NEW y,
           Received(e, y, m), Deliver(e, m)
    PROVE  \E d \in Seq(Nat) :
              /\ delivered' = [delivered EXCEPT ![e] = d]
              /\ \A n \in DOMAIN delivered[e] : \E i \in DOMAIN d : d[i] = delivered[e][n]
              /\ Ordered(d, y.s.incoming_seq_no)
              /\ Accounts(e, y, d)
<1> DEFINE b == delivered[e]
           s == session[e]
           l == y.s.incoming_seq_no
<1>1. b \in Seq(Nat) /\ s \in Session /\ delivered \in [Ends -> Seq(Nat)]
  BY TypeOfEnds DEF TypeOK
<1>2. /\ s.incoming_seq_no \in Nat /\ Expected(s) = s.incoming_seq_no + 1
      /\ l \in Nat /\ s.incoming_seq_no < l
      /\ Len(b) \in Nat /\ DOMAIN b = 1 .. Len(b) /\ \A i \in DOMAIN b : b[i] \in Nat
  <2>1. y.s \in Session
    BY DEF Received, EffectOK
  <2>2. s.incoming_seq_no \in Nat /\ l \in Nat /\ Expected(s) = s.incoming_seq_no + 1
    BY <1>1, <2>1, SessionNumbers
  <2>3. s.incoming_seq_no < l
    BY <2>2 DEF Received
  <2> QED BY <1>1, <2>2, <2>3, SeqDomain
<1>3. Ordered(b, s.incoming_seq_no)
  BY DEF EndOK
<1>4. m.seq \in Nat
  BY DEF Message
<1> HIDE DEF l
<1>5. CASE m.type = "APP"
  <2> DEFINE d == Append(b, m.seq)
  <2>1. m.seq = s.incoming_seq_no + 1
    BY <1>2, <1>5 DEF Received
  <2>2. /\ d \in Seq(Nat) /\ DOMAIN d = 1 .. Len(b) + 1
        /\ \A i \in 1 .. Len(b) : d[i] = b[i]
        /\ d[Len(b) + 1] = m.seq
    BY <1>1, <1>4, AppendProperties, SeqDomain
  <2>3. delivered' = [delivered EXCEPT ![e] = d]
    BY <1>5 DEF Deliver
  <2> HIDE DEF d
  <2>4. \A n \in DOMAIN b : n \in DOMAIN d /\ d[n] = b[n]
    BY <1>2, <2>2
  <2>5. Ordered(d, l)
    <3>1. \A i \in DOMAIN d : d[i] <= l
      <4> SUFFICES ASSUME NEW i \in DOMAIN d PROVE d[i] <= l
        OBVIOUS
      <4>1. CASE i = Len(b) + 1
        BY <1>2, <2>1, <2>2, <4>1
      <4>2. CASE i # Len(b) + 1
        <5>1. i \in DOMAIN b /\ d[i] = b[i] /\ b[i] \in Nat
          BY <1>2, <2>2, <4>2
        <5> QED BY <1>2, <1>3, <5>1 DEF Ordered
      <4> QED BY <4>1, <4>2
    <3>2. ASSUME NEW i \in DOMAIN d, NEW j \in DOMAIN d, i < j PROVE d[i] < d[j]
      <4>1. i \in DOMAIN b /\ d[i] = b[i]
        BY <1>2, <2>2, <3>2
      <4>2. CASE j = Len(b) + 1
        BY <1>2, <1>3, <2>1, <2>2, <4>1, <4>2 DEF Ordered
      <4>3. CASE j # Len(b) + 1
        <5>1. j \in DOMAIN b /\ d[j] = b[j]
          BY <1>2, <2>2, <4>3
        <5> QED BY <1>3, <3>2, <4>1, <5>1 DEF Ordered
      <4> QED BY <4>2, <4>3
    <3> QED BY <3>1, <3>2 DEF Ordered
  <2>6. \E i \in DOMAIN d : d[i] = m.seq
    BY <1>2, <2>2
  <2>7. Accounts(e, y, d)
    BY <2>6 DEF Received, Accounts, Accounted
  <2> QED BY <2>2, <2>3, <2>4, <2>5, <2>7 DEF l
<1>6. CASE m.type # "APP"
  <2>1. delivered' = [delivered EXCEPT ![e] = b]
    BY <1>1, <1>6 DEF Deliver
  <2>2. Ordered(b, l)
    BY <1>2, <1>3 DEF Ordered
  <2>3. Accounts(e, y, b)
    BY <1>6 DEF Received, Accounts, Accounted
  <2> QED BY <1>1, <2>1, <2>2, <2>3 DEF l
<1> QED BY <1>5, <1>6

(* An expected message is read, handled and counted.                       *)
LEMMA ReceiveKeepsEnds ==
    ASSUME TypeOK, \A f \in Ends : EndOK(f), NEW e \in Ends, wire[e] # <<>>,
           NEW y, Received(e, y, Message1(e)), Install(e, y, Rest(e)),
           Deliver(e, Message1(e)), UNCHANGED cut
    PROVE  EndsKept
<1>1. Message1(e) \in Message
  BY TypeOfEnds, FirstMessage
<1>2. PICK d \in Seq(Nat) :
         /\ delivered' = [delivered EXCEPT ![e] = d]
         /\ \A n \in DOMAIN delivered[e] : \E i \in DOMAIN d : d[i] = delivered[e][n]
         /\ Ordered(d, y.s.incoming_seq_no)
         /\ Accounts(e, y, d)
  BY <1>1, DeliverAccounts
<1>3. Install(e, y, [wire EXCEPT ![e] = Tail(@)])
  BY DEF Rest
<1>4. EffectOK(e, y) /\ y.s.incoming_seq_no > session[e].incoming_seq_no
  BY DEF Received
<1> QED BY <1>2, <1>3, <1>4, CountingInstall

-----------------------------------------------------------------------------
(* Asking for what is missing and answering                                *)

LEMMA AskEffect ==
    ASSUME TypeOK, NEW e \in Ends, NEW s, NEW st, NEW out,
           EffectOK(e, Effect(s, st, out))
    PROVE  \E s2, st2, out2 :
              /\ process_outgoing_resend_request(Effect(s, st, out)) = Effect(s2, st2, out2)
              /\ EffectOK(e, Effect(s2, st2, out2))
              /\ s2.incoming_seq_no = s.incoming_seq_no
<1> DEFINE x == Effect(s, st, out)
           asks == /\ s.state # "IN_RETRANSMISSION_INITIATED_BY_SELF"
                   /\ s.needs_to_send_resend_request
<1>1. x.s = s
  BY EffectFields
<1>2. CASE ~asks
  BY <1>1, <1>2 DEF process_outgoing_resend_request
<1>3. CASE asks
  <2> DEFINE b == s.outgoing_resend_request_begin_no
             m == build_resend_request_message(s, 0)
             t == [s EXCEPT !.outgoing_seq_no = s.outgoing_seq_no + 1]
             st2 == Append(st, m.type)
             out2 == Append(out, [m EXCEPT !.seq = s.outgoing_seq_no + 1])
             a == [t EXCEPT !.state = "IN_RETRANSMISSION_INITIATED_BY_SELF"]
             c == [a EXCEPT !.needs_to_send_resend_request = FALSE]
  <2>1. s \in Session /\ RequestsOK(s, session[Other(e)]) /\ b \in Nat
    BY EffectFields, SessionNumbers DEF EffectOK
  <2>2. /\ m \in Message /\ m.type = "RESEND_REQUEST" /\ m.tags_ok /\ m.end = 0
        /\ m.begin = b
    <3>1. m = [BasicMessage("RESEND_REQUEST", 0) EXCEPT !.begin = b]
      BY DEF build_resend_request_message
    <3> DEFINE k == BasicMessage("RESEND_REQUEST", 0)
    <3>2. "RESEND_REQUEST" \in MsgType /\ 0 \in Nat
      BY DEF MsgType
    <3>3. /\ k \in Message /\ k.type = "RESEND_REQUEST" /\ k.tags_ok = TRUE /\ k.end = 0
      BY <3>2, BasicIs
    <3>4. m = [k EXCEPT !.begin = b]
      BY <3>1
    <3> HIDE DEF b, k, m
    <3> QED BY <2>1, <3>3, <3>4 DEF Message
  <2> HIDE DEF m
  <2>3. Sendable(e, s, m)
    BY <1>3, <2>1, <2>2 DEF Sendable, RequestsOK
  <2>4. /\ EffectOK(e, send_outgoing_message(x, m))
        /\ send_outgoing_message(x, m) = Effect(t, st2, out2)
        /\ t \in Session /\ t.incoming_seq_no = s.incoming_seq_no
    BY <2>3, SendEffect
  <2>5. EffectOK(e, Effect(t, st2, out2))
    BY <2>4
  <2> HIDE DEF t, st2, out2
  <2>6. "IN_RETRANSMISSION_INITIATED_BY_SELF" \in SessionState
    BY DEF SessionState, LiveStates
  <2>7. Quiet(t, a)
    BY <2>4, <2>6, QuietEdits
  <2>8. a \in Session
    BY <2>7 DEF Quiet
  <2> HIDE DEF a
  <2>9. Quiet(a, c)
    BY <2>8, QuietEdits
  <2> HIDE DEF c
  <2>10. Quiet(t, c)
    BY <2>7, <2>9, QuietTransitive
  <2>11. EffectOK(e, Effect(c, st2, out2)) /\ c.incoming_seq_no = s.incoming_seq_no
    BY <2>4, <2>5, <2>10, QuietEffect DEF Quiet
  <2>12. process_outgoing_resend_request(x) = Effect(c, st2, out2)
    <3> DEFINE y == Effect(t, st2, out2)
    <3>1. process_outgoing_resend_request(x)
             = [y EXCEPT !.s.state = "IN_RETRANSMISSION_INITIATED_BY_SELF",
                         !.s.needs_to_send_resend_request = FALSE]
      BY <1>1, <1>3, <2>4 DEF process_outgoing_resend_request, m
    <3>2. [y EXCEPT !.s.state = "IN_RETRANSMISSION_INITIATED_BY_SELF",
                    !.s.needs_to_send_resend_request = FALSE]
             = [[y EXCEPT !.s.state = "IN_RETRANSMISSION_INITIATED_BY_SELF"]
                    EXCEPT !.s.needs_to_send_resend_request = FALSE]
      BY DEF Effect
    <3>3. [y EXCEPT !.s.state = "IN_RETRANSMISSION_INITIATED_BY_SELF"] = Effect(a, st2, out2)
      <4>1. \A z : [Effect(t, st2, out2) EXCEPT !.s.state = z]
                      = Effect([t EXCEPT !.state = z], st2, out2)
        BY EffectExcept
      <4> QED BY <4>1, Zenon DEF a
    <3>4. [Effect(a, st2, out2) EXCEPT !.s.needs_to_send_resend_request = FALSE]
             = Effect(c, st2, out2)
      <4>1. \A z : [Effect(a, st2, out2) EXCEPT !.s.needs_to_send_resend_request = z]
                      = Effect([a EXCEPT !.needs_to_send_resend_request = z], st2, out2)
        BY EffectExcept
      <4> QED BY <4>1, Zenon DEF c
    <3> QED BY <3>1, <3>2, <3>3, <3>4, Zenon
  <2> QED BY <2>11, <2>12
<1> QED BY <1>2, <1>3

LEMMA RetransmissionIs ==
    ASSUME NEW type \in MsgType \ {"SEQUENCE_RESET"}, NEW n \in Nat
    PROVE  LET m == Retransmission(type, n)
           IN  /\ m \in Message /\ m.seq = n
               /\ type \in {"APP", "REJECT"} => m.type = type
               /\ type \notin {"APP", "REJECT"} =>
                     /\ m.type = "SEQUENCE_RESET" /\ ~m.gap_fill
                     /\ m.tags_ok /\ m.new = n + 1
<1>1. CASE type \in {"APP", "REJECT"}
  BY <1>1, BasicIs DEF Retransmission
<1>2. CASE type \notin {"APP", "REJECT"}
  <2> DEFINE p == n + 1
             m == [BasicMessage("SEQUENCE_RESET", n) EXCEPT !.new = p]
  <2>1. p \in Nat /\ Retransmission(type, n) = m
    BY <1>2 DEF Retransmission
  <2> HIDE DEF p
  <2>2. /\ m \in Message /\ m.seq = n /\ m.type = "SEQUENCE_RESET" /\ ~m.gap_fill
        /\ m.tags_ok /\ m.new = p
    BY <2>1 DEF BasicMessage, Message, MsgType
  <2> QED BY <1>2, <2>1, <2>2 DEF p
<1> QED BY <1>1, <1>2

(* The replay of everything from b on, which the other end t still         *)
(* expects or has.                                                         *)
LEMMA ReplayIs ==
    ASSUME NEW s \in Session, NEW st \in Seq(MsgType), NEW out, NEW t \in Session,
           Len(st) = s.outgoing_seq_no, NEW b \in Nat, 1 <= b, b <= s.outgoing_seq_no,
           b <= Expected(t), \A n \in DOMAIN st : st[n] # "SEQUENCE_RESET",
           replay_messages
    PROVE  LET r == resend_messages(Effect(s, st, out), b, s.outgoing_seq_no)
           IN  /\ r \in Seq(Message)
               /\ \A i \in DOMAIN r : Faithful(r[i], st, s, t)
               /\ Chain(r, Expected(t))
<1> DEFINE l == s.outgoing_seq_no
           r == resend_messages(Effect(s, st, out), b, l)
<1>1. l \in Nat /\ Expected(t) \in Nat /\ l - b + 1 \in Nat
  BY SessionNumbers
<1>2. DOMAIN st = 1 .. l /\ \A n \in DOMAIN st : st[n] \in MsgType \ {"SEQUENCE_RESET"}
  BY SeqDomain
<1>3. r = [i \in 1 .. l - b + 1 |-> Retransmission(st[b + i - 1], b + i - 1)]
  BY EffectFields DEF resend_messages
<1> HIDE DEF l, r
<1>4. DOMAIN r = 1 .. l - b + 1
  BY <1>3
<1>5. ASSUME NEW i \in 1 .. l - b + 1
      PROVE  /\ r[i] \in Message /\ r[i].seq = b + i - 1
             /\ Faithful(r[i], st, s, t)
  <2> DEFINE n == b + i - 1
             m == Retransmission(st[n], n)
  <2>1. n \in Nat /\ n \in DOMAIN st
    BY <1>1, <1>2
  <2>2. r[i] = m
    BY <1>3
  <2> HIDE DEF n
  <2>3. /\ m \in Message /\ m.seq = n
        /\ st[n] \in {"APP", "REJECT"} => m.type = st[n]
        /\ st[n] \notin {"APP", "REJECT"} =>
              /\ m.type = "SEQUENCE_RESET" /\ ~m.gap_fill
              /\ m.tags_ok /\ m.new = n + 1
    BY <1>2, <2>1, RetransmissionIs
  <2> HIDE DEF m
  <2>4. Faithful(m, st, s, t)
    BY <2>1, <2>3 DEF Faithful, Original, HardReset
  <2> QED BY <2>2, <2>3, <2>4 DEF n
<1>6. r \in Seq(Message)
  <2>1. r \in [1 .. l - b + 1 -> Message]
    BY <1>3, <1>4, <1>5
  <2> QED BY <1>1, <2>1
<1>7. ASSUME NEW i \in DOMAIN r, NEW k \in Nat, Expected(t) <= k, k < r[i].seq
      PROVE  i - (r[i].seq - k) \in DOMAIN r /\ r[i - (r[i].seq - k)].seq = k
  <2>1. i \in 1 .. l - b + 1 /\ r[i].seq = b + i - 1
    BY <1>4, <1>5
  <2> DEFINE j == k - b + 1
  <2>2. j \in 1 .. l - b + 1
    BY <1>1, <1>7, <2>1
  <2>3. i - (r[i].seq - k) = j
    BY <1>1, <2>1
  <2>4. b + j - 1 = k
    OBVIOUS
  <2> HIDE DEF j
  <2>5. r[j].seq = k
    BY <1>5, <2>2, <2>4
  <2> QED BY <1>4, <2>2, <2>3, <2>5
<1>8. Chain(r, Expected(t))
  BY <1>7 DEF Chain
<1> QED BY <1>4, <1>5, <1>6, <1>8 DEF r, l

LEMMA GapFillIs ==
    ASSUME NEW s \in Session, NEW t \in Session, NEW st, NEW b \in Nat,
           b <= s.outgoing_seq_no, b <= Expected(t), ~AllReplayed
    PROVE  LET g == build_gap_fill_message(s, b)
           IN  g \in Message /\ Faithful(g, st, s, t)
               /\ ~is_a_hard_sequence_reset_message(g)
<1> DEFINE g == build_gap_fill_message(s, b)
           n == s.outgoing_seq_no + 1
<1>1. n \in Nat /\ b < n /\ Expected(t) \in Nat
  BY SessionNumbers
<1>2. g = [BasicMessage("SEQUENCE_RESET", b) EXCEPT !.gap_fill = TRUE, !.new = n]
  BY DEF build_gap_fill_message
<1>3. /\ g \in Message /\ g.type = "SEQUENCE_RESET" /\ g.gap_fill /\ g.tags_ok
      /\ g.seq = b /\ g.new = n
  <2> DEFINE k == BasicMessage("SEQUENCE_RESET", b)
  <2>1. /\ k \in Message /\ k.type = "SEQUENCE_RESET" /\ k.tags_ok = TRUE /\ k.seq = b
        /\ g = [k EXCEPT !.gap_fill = TRUE, !.new = n]
    BY <1>2, BasicIs DEF MsgType
  <2> HIDE DEF n, k, g
  <2> QED BY <1>1, <2>1 DEF Message
<1> HIDE DEF n
<1> HIDE DEF g
<1>4. GapFill(g, s, t)
  <2>1. g.new <= s.outgoing_seq_no + 1
    BY <1>1, <1>3 DEF n
  <2> QED BY <1>1, <1>3, <2>1 DEF GapFill
<1>5. ~is_a_hard_sequence_reset_message(g)
  BY <1>3 DEF is_a_hard_sequence_reset_message
<1> QED BY <1>3, <1>4, <1>5 DEF g, Faithful

LEMMA RespondEffect ==
    ASSUME TypeOK, NEW e \in Ends, NEW s, NEW st, NEW out,
           EffectOK(e, Effect(s, st, out)), s.outgoing_seq_no <= MaxSent
    PROVE  \E s2, out2 :
              /\ respond_to_resend_request(Effect(s, st, out)) = Effect(s2, st, out2)
              /\ EffectOK(e, Effect(s2, st, out2))
              /\ s2.incoming_seq_no = s.incoming_seq_no
<1> DEFINE x == Effect(s, st, out)
           b == s.incoming_resend_request_begin_no
           t == session[Other(e)]
           replays == WillReplay(s, replay_messages, max_resend_range, DOMAIN st)
           answer == IF replays THEN resend_messages(x, b, s.outgoing_seq_no)
                     ELSE <<build_gap_fill_message(s, b)>>
<1>1. x.s = s /\ x.store = st /\ x.out = out
  BY EffectFields
<1>2. CASE ~s.needs_responding_to_incoming_resend_request
  BY <1>1, <1>2 DEF respond_to_resend_request
<1>3. CASE s.needs_responding_to_incoming_resend_request
  <2>1. /\ s \in Session /\ st \in Seq(MsgType) /\ out \in Seq(Message) /\ t \in Session
        /\ RequestsOK(s, t) /\ Len(st) = s.outgoing_seq_no
        /\ Later(session[e], s) /\ Extends(store[e], st)
        /\ \A n \in DOMAIN st : st[n] # "SEQUENCE_RESET"
        /\ Rejected(st) => replay_messages
        /\ \A i \in DOMAIN out : Faithful(out[i], st, s, t)
        /\ Chain(out, Expected(t))
    BY <1>1, TypeOfEnds DEF EffectOK
  <2>2. /\ s.incoming_resend_request_end_no = 0 /\ b \in Nat /\ 1 <= b
        /\ b <= Expected(t) /\ b <= s.outgoing_seq_no
    BY <1>3, <2>1, SessionNumbers DEF RequestsOK
  <2>3. s.outgoing_seq_no \in Nat /\ Expected(t) \in Nat
    BY <2>1, SessionNumbers
  <2>4. /\ answer \in Seq(Message)
        /\ \A i \in DOMAIN answer : Faithful(answer[i], st, s, t)
        /\ Chain(answer, Expected(t))
    <3>1. CASE replays
      <4>1. replay_messages
        BY <3>1 DEF WillReplay
      <4> DEFINE r == resend_messages(x, b, s.outgoing_seq_no)
      <4>2. /\ r \in Seq(Message)
            /\ \A i \in DOMAIN r : Faithful(r[i], st, s, t)
            /\ Chain(r, Expected(t))
        BY <2>1, <2>2, <4>1, ReplayIs
      <4>3. answer = r
        BY <3>1
      <4> HIDE DEF r, answer
      <4> QED BY <4>2, <4>3
    <3>2. CASE ~replays
      <4>1. ~AllReplayed
        <5> SUFFICES ASSUME AllReplayed PROVE replays
          BY <3>2
        <5> DEFINE last == s.outgoing_seq_no
        <5>1. MaxSent \in Nat /\ max_resend_range \in Nat
          BY LinkAssumption
        <5>2. last - b + 1 <= max_resend_range
          BY <2>2, <2>3, <5>1 DEF AllReplayed
        <5>3. b .. last \subseteq DOMAIN st
          BY <2>1, <2>2, <2>3, SeqDomain
        <5> QED BY <2>2, <5>2, <5>3 DEF AllReplayed, WillReplay
      <4> DEFINE g == build_gap_fill_message(s, b)
      <4>2. /\ g \in Message /\ Faithful(g, st, s, t)
            /\ ~is_a_hard_sequence_reset_message(g)
        BY <2>1, <2>2, <4>1, GapFillIs
      <4>3. answer = <<g>>
        BY <3>2
      <4> HIDE DEF g, answer
      <4>4. <<g>> \in Seq(Message) /\ DOMAIN <<g>> = {1} /\ <<g>>[1] = g
        BY <4>2
      <4>5. Chain(<<g>>, Expected(t))
        BY <4>2, <4>4, ChainPlain
      <4> QED BY <4>2, <4>3, <4>4, <4>5
    <3> QED BY <3>1, <3>2
  <2>5. respond_to_resend_request(x) = Effect(ResendAnswered(s), st, out \o answer)
    <3>1. respond_to_resend_request(x)
             = [x EXCEPT !.s = ResendAnswered(s), !.out = out \o answer]
      BY <1>1, <1>3 DEF respond_to_resend_request
    <3> HIDE DEF answer
    <3>2. \A z, y : [Effect(s, st, out) EXCEPT !.s = z, !.out = y]
                      = [[Effect(s, st, out) EXCEPT !.s = z] EXCEPT !.out = y]
      BY DEF Effect
    <3>3. \A z, y : [Effect(s, st, out) EXCEPT !.s = z, !.out = y] = Effect(z, st, y)
      <4>1. \A z : [Effect(s, st, out) EXCEPT !.s = z] = Effect(z, st, out)
        BY EffectExcept
      <4>2. \A z, y : [Effect(z, st, out) EXCEPT !.out = y] = Effect(z, st, y)
        BY EffectExcept
      <4> QED BY <3>2, <4>1, <4>2, Zenon
    <3> QED BY <3>1, <3>3, Zenon
  <2> HIDE DEF answer
  <2>6. /\ out \o answer \in Seq(Message)
        /\ \A i \in DOMAIN (out \o answer) :
              \/ \E j \in DOMAIN out : (out \o answer)[i] = out[j]
              \/ \E j \in DOMAIN answer : (out \o answer)[i] = answer[j]
    BY <2>1, <2>4, ConcatFrom, Zenon
  <2>7. Chain(out \o answer, Expected(t))
    BY <2>1, <2>3, <2>4, ChainConcat
  <2> DEFINE c == out \o answer
  <2>8. \A i \in DOMAIN c : Faithful(c[i], st, s, t)
    BY <2>1, <2>4, <2>6, Zenon
  <2>9. EffectOK(e, Effect(s, st, c))
    <3>2. c \in Seq(Message) /\ Chain(c, Expected(t))
      BY <2>6, <2>7
    <3> HIDE DEF c
    <3>1. Effect(s, st, c).s = s /\ Effect(s, st, c).store = st /\ Effect(s, st, c).out = c
      BY EffectFields
    <3> QED BY <2>1, <2>8, <3>1, <3>2 DEF EffectOK
  <2> HIDE DEF c
  <2>10. Quiet(s, ResendAnswered(s))
    BY <2>1, QuietEdits
  <2>11. EffectOK(e, Effect(ResendAnswered(s), st, c))
    BY <2>9, <2>10, QuietEffect
  <2>12. ResendAnswered(s).incoming_seq_no = s.incoming_seq_no
    BY <2>10 DEF Quiet
  <2> QED BY <2>5, <2>11, <2>12 DEF c
<1> QED BY <1>2, <1>3

-----------------------------------------------------------------------------
(* The steps of the two ends                                               *)

(* A step that reads nothing: each direction stays as it is, is emptied,   *)
(* or carries only what the step sends.                                    *)
ReadsNothing(e, x, w, u) ==
    /\ w = <<>> \/ w = wire[e]
    /\ u = <<>> \/ u = wire[Other(e)] \/ u = x.out
    /\ delivered' = delivered
    /\ \/ x.s.incoming_seq_no = session[e].incoming_seq_no
       \/ w = <<>> /\ Accounts(e, x, delivered[e])

LEMMA DirectStep ==
    ASSUME TypeOK, \A f \in Ends : EndOK(f), NEW e \in Ends,
           NEW x, EffectOK(e, x), x.s.outgoing_seq_no <= MaxSent,
           NEW w, NEW u, ReadsNothing(e, x, w, u),
           session' = [session EXCEPT ![e] = x.s],
           store' = [store EXCEPT ![e] = x.store],
           wire' = [f \in Ends |-> IF f = e THEN w ELSE u],
           \A f \in Ends : cut[f] \subseteq cut'[f]
    PROVE  EndsKept
<1> DEFINE d == delivered[e]
<1>1. /\ wire[e] \in Seq(Message) /\ wire[Other(e)] \in Seq(Message) /\ d \in Seq(Nat)
      /\ Other(e) \in Ends /\ session[e] \in Session
      /\ x.s \in Session /\ x.store \in Seq(MsgType) /\ x.out \in Seq(Message)
      /\ Later(session[e], x.s) /\ Chain(x.out, Expected(session[Other(e)]))
  BY TypeOfEnds DEF EffectOK
<1>2. /\ Chain(wire[e], Expected(session[e]))
      /\ Chain(wire[Other(e)], Expected(session[Other(e)]))
  BY <1>1 DEF EndOK, Flight
<1>3. <<>> \in Seq(Message) /\ DOMAIN <<>> = {}
  OBVIOUS
<1>4. w \in Seq(Message) /\ u \in Seq(Message)
  BY <1>1, <1>3 DEF ReadsNothing
<1>5. \A i \in DOMAIN w : \E j \in DOMAIN wire[e] : w[i] = wire[e][j]
  BY <1>3 DEF ReadsNothing
<1>6. \A i \in DOMAIN u : \/ \E j \in DOMAIN wire[Other(e)] : u[i] = wire[Other(e)][j]
                          \/ \E j \in DOMAIN x.out : u[i] = x.out[j]
  BY <1>3 DEF ReadsNothing
<1>7. Chain(u, Expected(session[Other(e)]))
  BY <1>1, <1>2, ChainEmpty DEF ReadsNothing
<1>8. /\ session[e].incoming_seq_no \in Nat /\ x.s.incoming_seq_no \in Nat
      /\ session[e].incoming_seq_no <= x.s.incoming_seq_no
  BY <1>1, SessionNumbers DEF Later
<1>9. Chain(w, Expected(x.s))
  <2>1. CASE w = <<>>
    BY <2>1, ChainEmpty
  <2>2. CASE w # <<>>
    <3>1. w = wire[e] /\ Expected(x.s) = Expected(session[e])
      BY <2>2 DEF Expected, ReadsNothing
    <3> QED BY <1>2, <3>1
  <2> QED BY <2>1, <2>2
<1>10. Ordered(d, x.s.incoming_seq_no)
  <2>1. Ordered(d, session[e].incoming_seq_no) /\ \A i \in DOMAIN d : d[i] \in Nat
    BY <1>1 DEF EndOK
  <2> QED BY <1>8, <2>1 DEF Ordered
<1>11. Accounts(e, x, d)
  BY <1>8 DEF Accounts, ReadsNothing
<1>12. delivered' = [delivered EXCEPT ![e] = d]
  BY DEF TypeOK, ReadsNothing
<1>13. \A n \in DOMAIN delivered[e] : \E i \in DOMAIN d : d[i] = delivered[e][n]
  OBVIOUS
<1> HIDE DEF d
<1>14. DataTypes'
  BY <1>1, <1>4, <1>12 DEF DataTypes, TypeOK
<1>15. \A f \in Ends : EndOK(f)'
  BY <1>1, <1>4, <1>5, <1>6, <1>7, <1>9, <1>10, <1>11, <1>12, <1>13, StepKeepsEnds
<1>16. \A f \in Ends : Extends(store[f], store'[f])
  BY StoresExtend
<1> QED BY <1>14, <1>15, <1>16 DEF EndsKept

LEMMA EndNames == "client" \in Ends /\ "server" \in Ends
                  /\ Other("client") = "server" /\ Other("server") = "client"
  BY DEF Ends, Other

LEMMA StateNames == SessionState = {"DISABLED", "DISCONNECTED", "LOGGED_OUT",
                        "LOGON_REJECTED", "PENDING_CONNECTION", "PENDING_LOGON",
                        "PENDING_LOGOUT", "LOGGED_ON",
                        "IN_RETRANSMISSION_INITIATED_BY_SELF",
                        "IN_RETRANSMISSION_INITIATED_BY_PEER"}
  BY DEF SessionState, LiveStates

(* An end that only takes another state, or new flags.                     *)
LEMMA QuietSession ==
    ASSUME TypeOK, NEW e \in Ends, EndOK(e), NEW t, Quiet(session[e], t)
    PROVE  EffectOK(e, Effect(t, store[e], <<>>))
<1>1. EffectOK(e, Effect(session[e], store[e], <<>>))
  BY StartEffect
<1> QED BY <1>1, QuietEffect

LEMMA ConnectKeepsEnds ==
    ASSUME TypeOK, \A f \in Ends : EndOK(f), connect
    PROVE  EndsKept
<1> DEFINE e == "client"
           r == reset_flags(session[e])
           s == [r EXCEPT !.state = "PENDING_LOGON"]
           x == SendType(Effect(s, store[e], <<>>), "LOGON")
<1>1. e \in Ends /\ Other(e) = "server" /\ session[e] \in Session
  BY EndNames, TypeOfEnds
<1>2. /\ x.s.outgoing_seq_no <= MaxSent
      /\ session' = [session EXCEPT ![e] = x.s]
      /\ store' = [store EXCEPT ![e] = x.store]
      /\ wire' = [f \in Ends |-> IF f = "server" THEN x.out ELSE <<>>]
      /\ UNCHANGED <<delivered, cut>>
  BY DEF connect
<1>3. Quiet(session[e], r)
  BY <1>1, QuietEdits
<1>4. r \in Session
  BY <1>3 DEF Quiet
<1> HIDE DEF r
<1>5. Quiet(session[e], s)
  BY <1>3, <1>4, StateNames, QuietEdits, QuietTransitive
<1>6. EffectOK(e, Effect(s, store[e], <<>>))
  BY <1>1, <1>5, QuietSession
<1>7. s.incoming_seq_no = session[e].incoming_seq_no
  BY <1>5 DEF Quiet
<1> HIDE DEF s
<1>8. "LOGON" \in PlainTypes /\ "LOGON" # "REJECT"
  BY DEF PlainTypes, MsgType
<1>9. EffectOK(e, x) /\ x.s.incoming_seq_no = session[e].incoming_seq_no
  <2> DEFINE t == [s EXCEPT !.outgoing_seq_no = s.outgoing_seq_no + 1]
             st == Append(store[e], "LOGON")
  <2>1. PICK out : /\ x = Effect(t, st, out)
                   /\ EffectOK(e, Effect(t, st, out))
                   /\ t.incoming_seq_no = s.incoming_seq_no
    BY <1>1, <1>6, <1>8, SendTypeEffect
  <2> HIDE DEF x, t, st
  <2> QED BY <1>7, <2>1, EffectFields
<1> HIDE DEF x
<1> DEFINE w == <<>>
           u == x.out
<1>10. wire' = [f \in Ends |-> IF f = e THEN w ELSE u]
  BY <1>2 DEF Ends
<1>11. ReadsNothing(e, x, w, u) /\ \A f \in Ends : cut[f] \subseteq cut'[f]
  BY <1>2, <1>9 DEF ReadsNothing
<1>12. /\ x.s.outgoing_seq_no <= MaxSent
       /\ session' = [session EXCEPT ![e] = x.s]
       /\ store' = [store EXCEPT ![e] = x.store]
  BY <1>2
<1> HIDE DEF e, w, u
<1> QED BY <1>1, <1>9, <1>10, <1>11, <1>12, DirectStep

(* A step that changes only flags and the state of a session and may empty *)
(* the two directions.                                                     *)
ChangesNothing(e, w, u) ==
    /\ w = <<>> \/ w = wire[e]
    /\ u = <<>> \/ u = wire[Other(e)]
    /\ UNCHANGED <<store, delivered, cut>>

LEMMA QuietStep ==
    ASSUME TypeOK, \A f \in Ends : EndOK(f), NEW e \in Ends,
           NEW t, Quiet(session[e], t), NEW w, NEW u, ChangesNothing(e, w, u),
           session' = [session EXCEPT ![e] = t],
           wire' = [f \in Ends |-> IF f = e THEN w ELSE u]
    PROVE  EndsKept
<1> DEFINE x == Effect(t, store[e], <<>>)
<1>1. session[e] \in Session
  BY TypeOfEnds
<1>2. EffectOK(e, x)
  BY QuietSession
<1>3. x.s = t /\ x.store = store[e]
  BY EffectFields
<1>4. store' = [store EXCEPT ![e] = store[e]]
  BY DEF TypeOK, ChangesNothing
<1>5. /\ t.incoming_seq_no = session[e].incoming_seq_no
      /\ t.outgoing_seq_no = session[e].outgoing_seq_no
  BY DEF Quiet
<1>6. t.outgoing_seq_no <= MaxSent
  BY <1>5 DEF EndOK, StoreOK
<1>7. ReadsNothing(e, x, w, u) /\ \A f \in Ends : cut[f] \subseteq cut'[f]
  BY <1>3, <1>5 DEF ReadsNothing, ChangesNothing
<1> HIDE DEF x
<1> QED BY <1>2, <1>3, <1>4, <1>6, <1>7, DirectStep

LEMMA WireHalves ==
    ASSUME TypeOK, NEW e \in Ends
    PROVE  wire = [f \in Ends |-> IF f = e THEN wire[e] ELSE wire[Other(e)]]
  BY DEF TypeOK, Ends, Other

LEMMA LogonTimeoutKeepsEnds ==
    ASSUME TypeOK, \A f \in Ends : EndOK(f), logon_timeout
    PROVE  EndsKept
<1> DEFINE e == "client"
           t == [session[e] EXCEPT !.state = "DISCONNECTED"]
<1>1. e \in Ends /\ session[e] \in Session
  BY EndNames, TypeOfEnds
<1>2. Quiet(session[e], t)
  BY <1>1, StateNames, QuietEdits
<1> DEFINE w == wire[e]
           u == wire[Other(e)]
<1>3. session' = [session EXCEPT ![e] = t] /\ ChangesNothing(e, w, u)
  BY DEF logon_timeout, ChangesNothing
<1>4. wire' = [f \in Ends |-> IF f = e THEN w ELSE u]
  BY <1>1, WireHalves DEF logon_timeout
<1> HIDE DEF e, t, w, u
<1> QED BY <1>1, <1>2, <1>3, <1>4, QuietStep

LEMMA BreakKeepsEnds ==
    ASSUME TypeOK, \A f \in Ends : EndOK(f), connection_breaks
    PROVE  EndsKept
<1> DEFINE e == "client"
           w == <<>>
<1>1. e \in Ends /\ session[e] \in Session
  BY EndNames, TypeOfEnds
<1>2. Quiet(session[e], session[e])
  BY <1>1, QuietEdits
<1>3. session' = [session EXCEPT ![e] = session[e]] /\ ChangesNothing(e, w, w)
  BY DEF connection_breaks, TypeOK, ChangesNothing
<1>4. wire' = [f \in Ends |-> IF f = e THEN w ELSE w]
  BY DEF connection_breaks
<1> HIDE DEF e, w
<1> QED BY <1>1, <1>2, <1>3, <1>4, QuietStep

LEMMA RestartedIs ==
    ASSUME NEW i \in Nat, NEW n \in Nat
    PROVE  LET t == initialise(i, n)
           IN  /\ t \in Session /\ t.incoming_seq_no = i /\ t.outgoing_seq_no = n
               /\ t.state = "DISCONNECTED"
               /\ ~t.needs_to_send_resend_request
               /\ ~t.needs_responding_to_incoming_resend_request
  BY DEF initialise, Session, SessionState

LEMMA RestartKeepsEnds ==
    ASSUME TypeOK, \A f \in Ends : EndOK(f), NEW e \in Ends, restart(e)
    PROVE  EndsKept
<1> DEFINE s == session[e]
           t == initialise(s.incoming_seq_no, s.outgoing_seq_no)
           w == <<>>
           u == wire[Other(e)]
<1>1. s \in Session
  BY TypeOfEnds
<1>2. s.incoming_seq_no \in Nat /\ s.outgoing_seq_no \in Nat
  BY <1>1, SessionNumbers
<1>3. /\ t \in Session /\ t.incoming_seq_no = s.incoming_seq_no
      /\ t.outgoing_seq_no = s.outgoing_seq_no
      /\ ~t.needs_to_send_resend_request
      /\ ~t.needs_responding_to_incoming_resend_request
  BY <1>2, RestartedIs
<1>4. session' = [session EXCEPT ![e] = t] /\ ChangesNothing(e, w, u)
  BY DEF restart, Restarted, ChangesNothing
<1> HIDE DEF t
<1>5. Quiet(session[e], t)
  BY <1>3 DEF Quiet
<1>6. wire' = [f \in Ends |-> IF f = e THEN w ELSE u]
  BY DEF restart, Restarted, TypeOK, Ends, Other
<1> HIDE DEF s, w, u
<1> QED BY <1>4, <1>5, <1>6, QuietStep

(* The number that was counted is one of those that were cut.              *)
LEMMA RestartAfterCountingKeepsEnds ==
    ASSUME TypeOK, \A f \in Ends : EndOK(f), NEW e \in Ends, restart_after_counting(e)
    PROVE  EndsKept
<1> DEFINE s == session[e]
           n == Expected(s)
           t == initialise(n, s.outgoing_seq_no)
           x == Effect(t, store[e], <<>>)
           w == <<>>
           u == wire[Other(e)]
<1>1. s \in Session /\ cut[e] \subseteq Nat
  BY TypeOfEnds
<1>2. /\ n \in Nat /\ s.incoming_seq_no \in Nat /\ s.outgoing_seq_no \in Nat
      /\ n = s.incoming_seq_no + 1
  BY <1>1, SessionNumbers
<1>3. /\ t \in Session /\ t.incoming_seq_no = n
      /\ t.outgoing_seq_no = s.outgoing_seq_no
      /\ ~t.needs_to_send_resend_request
      /\ ~t.needs_responding_to_incoming_resend_request
  BY <1>2, RestartedIs
<1>4. session' = [session EXCEPT ![e] = t]
  BY DEF restart_after_counting, Restarted
<1>5. wire' = [f \in Ends |-> IF f = e THEN w ELSE u]
  BY DEF restart_after_counting, Restarted, TypeOK, Ends, Other
<1>6. cut' = [cut EXCEPT ![e] = cut[e] \cup {n}]
  BY DEF restart_after_counting
<1> HIDE DEF n, t
<1>7. n \in cut'[e] /\ \A f \in Ends : cut[f] \subseteq cut'[f]
  BY <1>6 DEF TypeOK
<1>8. RequestsOK(t, session[Other(e)])
  BY <1>3 DEF RequestsOK
<1>9. EffectOK(e, x)
  <2>1. EffectOK(e, Effect(s, store[e], <<>>))
    BY StartEffect
  <2>2. s.incoming_seq_no <= t.incoming_seq_no
    BY <1>2, <1>3
  <2> QED BY <1>3, <1>8, <2>1, <2>2, EditedEffect
<1>10. x.s = t /\ x.store = store[e]
  BY EffectFields
<1> HIDE DEF x
<1>11. Accounts(e, x, delivered[e])
  <2> SUFFICES ASSUME NEW k \in Nat, s.incoming_seq_no < k, k <= n PROVE k \in cut'[e]
    BY <1>3, <1>10 DEF Accounts
  <2>1. k = n
    BY <1>2
  <2> QED BY <1>7, <2>1
<1>12. ReadsNothing(e, x, w, u)
  BY <1>11 DEF ReadsNothing, restart_after_counting, Restarted
<1>13. t.outgoing_seq_no <= MaxSent
  BY <1>3 DEF EndOK, StoreOK
<1>14. store' = [store EXCEPT ![e] = store[e]]
  BY DEF TypeOK, restart_after_counting, Restarted
<1> HIDE DEF w, u, s
<1> QED BY <1>4, <1>5, <1>7, <1>9, <1>10, <1>12, <1>13, <1>14, DirectStep

LEMMA StartSend ==
    ASSUME TypeOK, NEW e \in Ends, EndOK(e), NEW type \in PlainTypes, type # "REJECT"
    PROVE  \E t, st, out :
              /\ SendType(Start(e), type) = Effect(t, st, out)
              /\ EffectOK(e, Effect(t, st, out))
              /\ t \in Session /\ t.incoming_seq_no = session[e].incoming_seq_no
<1> DEFINE s == session[e]
<1>1. EffectOK(e, Effect(s, store[e], <<>>)) /\ Start(e) = Effect(s, store[e], <<>>)
  BY StartEffect
<1> DEFINE t == [s EXCEPT !.outgoing_seq_no = s.outgoing_seq_no + 1]
           st == Append(store[e], type)
<1>2. PICK out : /\ SendType(Effect(s, store[e], <<>>), type) = Effect(t, st, out)
                 /\ EffectOK(e, Effect(t, st, out))
                 /\ t \in Session /\ t.incoming_seq_no = s.incoming_seq_no
  BY <1>1, SendTypeEffect
<1> HIDE DEF t, st
<1> QED BY <1>1, <1>2

LEMMA SendKeepsEnds ==
    ASSUME TypeOK, \A f \in Ends : EndOK(f), NEW e \in Ends,
           NEW type \in PlainTypes, type # "REJECT",
           Act(e, SendType(Start(e), type)), UNCHANGED <<delivered, cut>>
    PROVE  EndsKept
<1>1. PICK t, st, out :
          /\ SendType(Start(e), type) = Effect(t, st, out)
          /\ EffectOK(e, Effect(t, st, out))
          /\ t \in Session /\ t.incoming_seq_no = session[e].incoming_seq_no
  BY StartSend
<1> DEFINE x == Effect(t, st, out)
<1>2. EffectOK(e, x) /\ x.s.incoming_seq_no = session[e].incoming_seq_no
  BY <1>1, EffectFields
<1>3. Install(e, x, wire)
  BY <1>1 DEF Act
<1> HIDE DEF x
<1> QED BY <1>2, <1>3, QuietInstall

LEMMA BeginLogoutKeepsEnds ==
    ASSUME TypeOK, \A f \in Ends : EndOK(f), begin_logout
    PROVE  EndsKept
<1> DEFINE e == "client"
<1>1. e \in Ends /\ "LOGOUT" \in PlainTypes /\ "LOGOUT" # "REJECT"
  BY EndNames DEF PlainTypes, MsgType
<1>2. PICK t, st, out :
          /\ SendType(Start(e), "LOGOUT") = Effect(t, st, out)
          /\ EffectOK(e, Effect(t, st, out))
          /\ t \in Session /\ t.incoming_seq_no = session[e].incoming_seq_no
  BY <1>1, StartSend
<1> DEFINE a == [t EXCEPT !.state = "PENDING_LOGOUT"]
           c == [a EXCEPT !.received_logout_response = FALSE]
           x == Effect(c, st, out)
<1>3. Quiet(t, a)
  BY <1>2, StateNames, QuietEdits
<1>4. a \in Session
  BY <1>3 DEF Quiet
<1>5. [Effect(t, st, out) EXCEPT !.s.state = "PENDING_LOGOUT",
                                 !.s.received_logout_response = FALSE] = x
  <2>1. [Effect(t, st, out) EXCEPT !.s.state = "PENDING_LOGOUT",
                                   !.s.received_logout_response = FALSE]
           = [[Effect(t, st, out) EXCEPT !.s.state = "PENDING_LOGOUT"]
                 EXCEPT !.s.received_logout_response = FALSE]
    BY DEF Effect
  <2>2. \A z : [Effect(t, st, out) EXCEPT !.s.state = z] = Effect([t EXCEPT !.state = z], st, out)
    BY EffectExcept
  <2>3. [Effect(t, st, out) EXCEPT !.s.state = "PENDING_LOGOUT"] = Effect(a, st, out)
    BY <2>2, Zenon
  <2> HIDE DEF a
  <2>4. \A z : [Effect(a, st, out) EXCEPT !.s.received_logout_response = z]
                  = Effect([a EXCEPT !.received_logout_response = z], st, out)
    BY EffectExcept
  <2> QED BY <2>1, <2>3, <2>4, Zenon
<1> HIDE DEF a
<1>6. Quiet(a, c)
  BY <1>4, QuietEdits
<1> HIDE DEF c
<1>7. Quiet(t, c)
  BY <1>3, <1>6, QuietTransitive
<1>8. EffectOK(e, x)
  BY <1>1, <1>2, <1>7, QuietEffect
<1>9. x.s.incoming_seq_no = session[e].incoming_seq_no
  BY <1>2, <1>7, EffectFields DEF Quiet
<1> HIDE DEF x
<1>10. Install(e, x, wire) /\ UNCHANGED <<delivered, cut>>
  BY <1>2, <1>5 DEF begin_logout, Act
<1> HIDE DEF e
<1> QED BY <1>1, <1>8, <1>9, <1>10, QuietInstall

(* An end closes its connection after sending out.                         *)
LEMMA CloseKeepsEnds ==
    ASSUME TypeOK, \A f \in Ends : EndOK(f), NEW e \in Ends,
           NEW s, NEW st, NEW out, EffectOK(e, Effect(s, st, out)),
           s.incoming_seq_no = session[e].incoming_seq_no,
           Close(e, Effect(s, st, out)), UNCHANGED <<delivered, cut>>
    PROVE  EndsKept
<1> DEFINE t == [s EXCEPT !.state = "DISCONNECTED"]
           x == Effect(t, st, out)
<1>1. s \in Session
  BY EffectFields DEF EffectOK
<1>2. Quiet(s, t)
  BY <1>1, StateNames, QuietEdits
<1>3. [Effect(s, st, out) EXCEPT !.s.state = "DISCONNECTED"] = x
  <2>1. \A z : [Effect(s, st, out) EXCEPT !.s.state = z] = Effect([s EXCEPT !.state = z], st, out)
    BY EffectExcept
  <2> QED BY <2>1, Zenon
<1>4. Install(e, x, [wire EXCEPT ![e] = <<>>])
  BY <1>3 DEF Close
<1> HIDE DEF t
<1>5. EffectOK(e, x) /\ x.s.incoming_seq_no = session[e].incoming_seq_no
  <2>1. EffectOK(e, x)
    BY <1>2, QuietEffect
  <2> QED BY <1>2, <2>1, EffectFields DEF Quiet
<1> HIDE DEF x
<1> QED BY <1>4, <1>5, QuietInstall

LEMMA ClosingKeepsEnds ==
    ASSUME TypeOK, \A f \in Ends : EndOK(f), NEW e \in Ends,
           Close(e, Start(e)), UNCHANGED <<delivered, cut>>
    PROVE  EndsKept
<1>1. /\ EffectOK(e, Effect(session[e], store[e], <<>>))
      /\ Start(e) = Effect(session[e], store[e], <<>>)
  BY StartEffect
<1>2. Close(e, Effect(session[e], store[e], <<>>))
  BY <1>1
<1> QED BY <1>1, <1>2, CloseKeepsEnds

LEMMA DisconnectKeepsEnds ==
    ASSUME TypeOK, \A f \in Ends : EndOK(f), on_client_disconnected
    PROVE  EndsKept
<1> DEFINE e == "server"
           w == wire[e]
           u == wire[Other(e)]
<1>1. e \in Ends /\ session[e] \in Session
  BY EndNames, TypeOfEnds
<1>2. UNCHANGED <<delivered, cut>>
  BY DEF on_client_disconnected
<1>3. CASE session' = [session EXCEPT ![e].state = "DISCONNECTED"] /\ UNCHANGED <<store, wire>>
  <2> DEFINE t == [session[e] EXCEPT !.state = "DISCONNECTED"]
  <2>1. Quiet(session[e], t)
    BY <1>1, StateNames, QuietEdits
  <2>2. session' = [session EXCEPT ![e] = t] /\ ChangesNothing(e, w, u)
    BY <1>2, <1>3 DEF ChangesNothing
  <2>3. wire' = [f \in Ends |-> IF f = e THEN w ELSE u]
    BY <1>1, <1>3, WireHalves
  <2> HIDE DEF e, t, w, u
  <2> QED BY <1>1, <2>1, <2>2, <2>3, QuietStep
<1>4. CASE UNCHANGED <<session, store, wire>>
  <2>1. Quiet(session[e], session[e])
    BY <1>1, QuietEdits
  <2>2. session' = [session EXCEPT ![e] = session[e]] /\ ChangesNothing(e, w, u)
    BY <1>2, <1>4 DEF ChangesNothing, TypeOK
  <2>3. wire' = [f \in Ends |-> IF f = e THEN w ELSE u]
    BY <1>1, <1>4, WireHalves
  <2> HIDE DEF e, w, u
  <2> QED BY <1>1, <2>1, <2>2, <2>3, QuietStep
<1>5. CASE Close(e, Start(e))
  BY <1>1, <1>2, <1>5, ClosingKeepsEnds
<1> QED BY <1>3, <1>4, <1>5 DEF on_client_disconnected

LEMMA RespondNumber ==
    ASSUME NEW s \in Session, NEW st, NEW out
    PROVE  respond_to_resend_request(Effect(s, st, out)).s.outgoing_seq_no = s.outgoing_seq_no
<1> DEFINE x == Effect(s, st, out)
           r == ResendAnswered(s)
<1>1. x.s = s
  BY EffectFields
<1>2. r.outgoing_seq_no = s.outgoing_seq_no
  BY QuietEdits DEF Quiet
<1>3. CASE ~s.needs_responding_to_incoming_resend_request
  BY <1>1, <1>3 DEF respond_to_resend_request
<1>4. CASE s.needs_responding_to_incoming_resend_request
  <2>1. PICK a : respond_to_resend_request(x) = [x EXCEPT !.s = r, !.out = a]
    BY <1>1, <1>4 DEF respond_to_resend_request
  <2> HIDE DEF r
  <2>2. [x EXCEPT !.s = r, !.out = a].s = r
    BY DEF Effect
  <2> QED BY <1>2, <2>1, <2>2
<1> QED BY <1>3, <1>4

LEMMA ProcessKeepsEnds ==
    ASSUME TypeOK, \A f \in Ends : EndOK(f), NEW e \in Ends, process(e)
    PROVE  EndsKept
<1> DEFINE s == session[e]
           y == process_outgoing_resend_request(Start(e))
           x == respond_to_resend_request(y)
<1>1. EffectOK(e, Effect(s, store[e], <<>>)) /\ Start(e) = Effect(s, store[e], <<>>)
  BY StartEffect
<1>2. Install(e, x, wire) /\ x.s.outgoing_seq_no <= MaxSent /\ UNCHANGED <<delivered, cut>>
  BY DEF process, Act, Install
<1>3. PICK s2, st2, out2 : /\ y = Effect(s2, st2, out2)
                           /\ EffectOK(e, Effect(s2, st2, out2))
                           /\ s2.incoming_seq_no = s.incoming_seq_no
  BY <1>1, AskEffect
<1>4. s2 \in Session
  BY <1>3, EffectFields DEF EffectOK
<1>5. s2.outgoing_seq_no <= MaxSent
  BY <1>2, <1>3, <1>4, RespondNumber
<1>6. PICK s3, out3 : /\ x = Effect(s3, st2, out3)
                      /\ EffectOK(e, Effect(s3, st2, out3))
                      /\ s3.incoming_seq_no = s2.incoming_seq_no
  BY <1>3, <1>5, RespondEffect
<1>7. EffectOK(e, x) /\ x.s.incoming_seq_no = session[e].incoming_seq_no
  BY <1>3, <1>6, EffectFields
<1> HIDE DEF x
<1> QED BY <1>2, <1>7, QuietInstall

(* A message that is not the expected one leaves the numbers alone: one    *)
(* that is too high is asked for, one that is too low ends the connection. *)
LEMMA UnexpectedKeepsEnds ==
    ASSUME TypeOK, \A f \in Ends : EndOK(f), NEW e \in Ends, wire[e] # <<>>,
           IsHigh(session[e], Message1(e)),
           Install(e, [Start(e) EXCEPT !.s = queue_outgoing_resend_request(session[e],
                                          Expected(session[e]), Message1(e).seq)], Rest(e)),
           UNCHANGED <<delivered, cut>>
    PROVE  EndsKept
<1> DEFINE s == session[e]
           q == queue_outgoing_resend_request(s, Expected(s), Message1(e).seq)
           x == Effect(q, store[e], <<>>)
<1>1. EffectOK(e, Effect(s, store[e], <<>>)) /\ Start(e) = Effect(s, store[e], <<>>)
  BY StartEffect
<1>2. EndOK(e) /\ EndOK(Other(e))
  BY TypeOfEnds
<1>3. /\ EffectOK(e, x) /\ q.incoming_seq_no = s.incoming_seq_no
      /\ Message1(e).seq # Expected(s)
  BY <1>1, <1>2, HighEffect
<1>4. [Start(e) EXCEPT !.s = q] = x
  <2> HIDE DEF q
  <2> QED BY <1>1, EffectExcept
<1>5. Install(e, x, [wire EXCEPT ![e] = Tail(@)]) /\ Head(wire[e]).seq # Expected(s)
  BY <1>3, <1>4 DEF Rest, Message1
<1>6. x.s.incoming_seq_no = session[e].incoming_seq_no
  BY <1>3, EffectFields
<1> HIDE DEF x
<1> QED BY <1>3, <1>5, <1>6, QuietInstall

(* The Logon and Logout messages of process_incoming_fix_message.          *)
LEMMA AnswerReceived ==
    ASSUME TypeOK, NEW e \in Ends, EndOK(e), EndOK(Other(e)), wire[e] # <<>>,
           ~IsHigh(session[e], Message1(e)), ~IsLow(session[e], Message1(e)),
           Message1(e).type # "SEQUENCE_RESET",
           NEW t, Quiet(Accept(session[e], Message1(e)), t)
    PROVE  Received(e, Effect(t, store[e], <<>>), Message1(e))
<1> DEFINE m == Message1(e)
           r == Accept(session[e], m)
           y == Effect(t, store[e], <<>>)
<1>1. m \in Message /\ session[e] \in Session
  BY FirstMessage, TypeOfEnds
<1>2. EffectOK(e, Effect(r, store[e], <<>>)) /\ r.incoming_seq_no = Expected(session[e])
  BY <1>1, AcceptedEffect, AcceptIs
<1> HIDE DEF r
<1>3. EffectOK(e, y)
  BY <1>2, QuietEffect DEF r
<1>4. y.s.incoming_seq_no = Expected(session[e])
  BY <1>2, EffectFields DEF Quiet, r
<1> HIDE DEF y
<1>5. Received(e, y, m)
  BY <1>3, <1>4, OriginalReceived
<1> QED BY <1>5 DEF y

LEMMA ClientReceiveKeepsEnds ==
    ASSUME TypeOK, \A f \in Ends : EndOK(f), client_receive
    PROVE  EndsKept
<1> DEFINE e == "client"
           s == session[e]
           m == Message1(e)
           r == Accept(s, m)
           x == Effect(r, store[e], <<>>)
           response == IF s.state = "PENDING_LOGON" THEN "LOGON_REJECTED" ELSE "LOGGED_OUT"
           y == CASE m.type = "LOGON" -> [x EXCEPT !.s.state = "LOGGED_ON"]
                  [] m.type = "LOGOUT" ->
                        [x EXCEPT !.s.state = response,
                                  !.s.received_logout_response =
                                        @ \/ s.state # "PENDING_LOGON"]
                  [] OTHER -> Dispatch(x, m)
<1>1. e \in Ends /\ Other(e) \in Ends /\ s \in Session /\ EndOK(e) /\ EndOK(Other(e))
  BY EndNames, TypeOfEnds
<1>2. wire[e] # <<>> /\ UNCHANGED cut
  BY DEF client_receive
<1>3. m \in Message
  BY <1>1, <1>2, FirstMessage
<1>4. [Start(e) EXCEPT !.s = r] = x
  <2>1. Start(e) = Effect(s, store[e], <<>>)
    BY <1>1, StartEffect
  <2> HIDE DEF r
  <2> QED BY <2>1, EffectExcept
<1>5. CASE IsHigh(s, m)
  <2>1. ~IsLow(s, m)
    BY <1>1, <1>3, <1>5, SessionNumbers DEF IsHigh, IsLow, Message
  <2>2. /\ Install(e, [Start(e) EXCEPT !.s =
                          queue_outgoing_resend_request(s, Expected(s), m.seq)], Rest(e))
        /\ UNCHANGED <<delivered, cut>>
    BY <1>5, <2>1 DEF client_receive
  <2> HIDE DEF e
  <2> QED BY <1>1, <1>2, <1>5, <2>2, UnexpectedKeepsEnds DEF s, m
<1>6. CASE IsLow(s, m)
  <2>1. ~IsHigh(s, m)
    BY <1>1, <1>3, <1>6, SessionNumbers DEF IsHigh, IsLow, Message
  <2>2. Close(e, Start(e)) /\ UNCHANGED <<delivered, cut>>
    BY <1>6, <2>1 DEF client_receive
  <2> HIDE DEF e
  <2> QED BY <1>1, <2>2, ClosingKeepsEnds
<1>7. CASE ~IsHigh(s, m) /\ ~IsLow(s, m)
  <2>1. Install(e, y, Rest(e)) /\ Deliver(e, m)
    BY <1>4, <1>7 DEF client_receive
  <2>2. r \in Session
    BY <1>1, <1>3, AcceptIs
  <2>3. Received(e, y, m)
    <3>1. CASE m.type = "LOGON"
      <4> DEFINE t == [r EXCEPT !.state = "LOGGED_ON"]
      <4>1. y = Effect(t, store[e], <<>>)
        <5>1. y = [x EXCEPT !.s.state = "LOGGED_ON"]
          BY <3>1
        <5> HIDE DEF r
        <5>2. \A z : [Effect(r, store[e], <<>>) EXCEPT !.s.state = z]
                        = Effect([r EXCEPT !.state = z], store[e], <<>>)
          BY EffectExcept
        <5> QED BY <5>1, <5>2, Zenon
      <4>2. Quiet(r, t)
        BY <2>2, StateNames, QuietEdits
      <4> HIDE DEF t, y, e
      <4>3. m.type # "SEQUENCE_RESET"
        BY <3>1
      <4> QED BY <1>1, <1>2, <1>7, <4>1, <4>2, <4>3, AnswerReceived
    <3>2. CASE m.type = "LOGOUT"
      <4> DEFINE b == r.received_logout_response \/ s.state # "PENDING_LOGON"
                 a == [r EXCEPT !.state = response]
                 t == [a EXCEPT !.received_logout_response = b]
      <4>1. response \in SessionState /\ b \in BOOLEAN
        BY StateNames
      <4>2. y = Effect(t, store[e], <<>>)
        <5>1. y = [x EXCEPT !.s.state = response, !.s.received_logout_response =
                                                    @ \/ s.state # "PENDING_LOGON"]
          BY <3>2
        <5>2. x.s.received_logout_response = r.received_logout_response
          BY EffectFields
        <5>3. y = [x EXCEPT !.s.state = response, !.s.received_logout_response = b]
          <6> HIDE DEF x, y
          <6> QED BY <5>1, <5>2
        <5> HIDE DEF r, response, b
        <5>4. [x EXCEPT !.s.state = response, !.s.received_logout_response = b]
                 = [[x EXCEPT !.s.state = response] EXCEPT !.s.received_logout_response = b]
          BY DEF Effect
        <5>5. \A z : [Effect(r, store[e], <<>>) EXCEPT !.s.state = z]
                        = Effect([r EXCEPT !.state = z], store[e], <<>>)
          BY EffectExcept
        <5>6. [x EXCEPT !.s.state = response] = Effect(a, store[e], <<>>)
          BY <5>5, Zenon
        <5> HIDE DEF a
        <5>7. \A z : [Effect(a, store[e], <<>>) EXCEPT !.s.received_logout_response = z]
                        = Effect([a EXCEPT !.received_logout_response = z], store[e], <<>>)
          BY EffectExcept
        <5> QED BY <5>3, <5>4, <5>6, <5>7, Zenon
      <4>3. Quiet(r, a)
        BY <2>2, <4>1, QuietEdits
      <4>4. a \in Session
        BY <4>3 DEF Quiet
      <4> HIDE DEF a, b
      <4>5. Quiet(a, t)
        BY <4>1, <4>4, QuietEdits
      <4> HIDE DEF t, y, e, r
      <4>6. Quiet(r, t)
        BY <4>3, <4>5, QuietTransitive
      <4>7. m.type # "SEQUENCE_RESET" /\ Quiet(Accept(session[e], Message1(e)), t)
        BY <3>2, <4>6 DEF r
      <4> QED BY <1>1, <1>2, <1>7, <4>2, <4>7, AnswerReceived
    <3>3. CASE m.type # "LOGON" /\ m.type # "LOGOUT"
      <4>1. y = Dispatch(x, m)
        BY <3>3
      <4> HIDE DEF y, e
      <4>2. Received(e, Dispatch(x, m), m)
        BY <1>1, <1>2, <1>7, DispatchReceived
      <4> QED BY <4>1, <4>2
    <3> QED BY <3>1, <3>2, <3>3
  <2> HIDE DEF e, y
  <2> QED BY <1>1, <1>2, <2>1, <2>3, ReceiveKeepsEnds
<1> QED BY <1>5, <1>6, <1>7

LEMMA ServerReceiveKeepsEnds ==
    ASSUME TypeOK, \A f \in Ends : EndOK(f), server_receive
    PROVE  EndsKept
<1> DEFINE e == "server"
           s == session[e]
           m == Message1(e)
           r == Accept(s, m)
           x == Effect(r, store[e], <<>>)
           y == IF m.type = "LOGOUT"
                THEN [SendType(x, "LOGOUT") EXCEPT !.s.state = "LOGGED_OUT"]
                ELSE Dispatch(x, m)
<1>1. e \in Ends /\ Other(e) \in Ends /\ s \in Session /\ EndOK(e) /\ EndOK(Other(e))
  BY EndNames, TypeOfEnds
<1>2. wire[e] # <<>> /\ UNCHANGED cut
  BY DEF server_receive
<1>3. m \in Message
  BY <1>1, <1>2, FirstMessage
<1>4. [Start(e) EXCEPT !.s = r] = x
  <2>1. Start(e) = Effect(s, store[e], <<>>)
    BY <1>1, StartEffect
  <2> HIDE DEF r
  <2> QED BY <2>1, EffectExcept
<1>5. CASE IsHigh(s, m)
  <2>1. ~IsLow(s, m)
    BY <1>1, <1>3, <1>5, SessionNumbers DEF IsHigh, IsLow, Message
  <2>2. /\ Install(e, [Start(e) EXCEPT !.s =
                          queue_outgoing_resend_request(s, Expected(s), m.seq)], Rest(e))
        /\ UNCHANGED <<delivered, cut>>
    BY <1>5, <2>1 DEF server_receive
  <2> HIDE DEF e
  <2> QED BY <1>1, <1>2, <1>5, <2>2, UnexpectedKeepsEnds DEF s, m
<1>6. CASE IsLow(s, m)
  <2>1. ~IsHigh(s, m)
    BY <1>1, <1>3, <1>6, SessionNumbers DEF IsHigh, IsLow, Message
  <2>2. Close(e, Start(e)) /\ UNCHANGED <<delivered, cut>>
    BY <1>6, <2>1 DEF server_receive
  <2> HIDE DEF e
  <2> QED BY <1>1, <2>2, ClosingKeepsEnds
<1>7. CASE ~IsHigh(s, m) /\ ~IsLow(s, m)
  <2>1. Install(e, y, Rest(e)) /\ Deliver(e, m)
    BY <1>4, <1>7 DEF server_receive
  <2>2. Received(e, y, m)
    <3>1. CASE m.type = "LOGOUT"
      <4>1. EffectOK(e, x) /\ r.incoming_seq_no = Expected(s)
        BY <1>1, <1>3, AcceptedEffect, AcceptIs
      <4>2. "LOGOUT" \in PlainTypes /\ "LOGOUT" # "REJECT"
        BY DEF PlainTypes, MsgType
      <4> HIDE DEF r, e
      <4> DEFINE n == [r EXCEPT !.outgoing_seq_no = r.outgoing_seq_no + 1]
                 st == Append(store[e], "LOGOUT")
      <4>3. PICK out : /\ SendType(x, "LOGOUT") = Effect(n, st, out)
                       /\ EffectOK(e, Effect(n, st, out))
                       /\ n \in Session /\ n.incoming_seq_no = r.incoming_seq_no
        BY <1>1, <4>1, <4>2, SendTypeEffect
      <4> HIDE DEF n, st
      <4> DEFINE t == [n EXCEPT !.state = "LOGGED_OUT"]
                 z == Effect(t, st, out)
      <4>4. y = z
        <5>1. y = [SendType(x, "LOGOUT") EXCEPT !.s.state = "LOGGED_OUT"]
          BY <3>1
        <5>2. \A p : [Effect(n, st, out) EXCEPT !.s.state = p]
                        = Effect([n EXCEPT !.state = p], st, out)
          BY EffectExcept
        <5> QED BY <4>3, <5>1, <5>2, Zenon
      <4>5. Quiet(n, t)
        BY <4>3, StateNames, QuietEdits
      <4> HIDE DEF t
      <4>6. EffectOK(e, z)
        BY <1>1, <4>3, <4>5, QuietEffect
      <4>7. z.s.incoming_seq_no = Expected(s)
        BY <4>1, <4>3, <4>5, EffectFields DEF Quiet
      <4>8. m.type # "SEQUENCE_RESET"
        BY <3>1
      <4> HIDE DEF z, y
      <4>9. Received(e, z, m)
        BY <1>1, <1>2, <1>7, <4>6, <4>7, <4>8, OriginalReceived
      <4> QED BY <4>4, <4>9
    <3>2. CASE m.type # "LOGOUT"
      <4>1. y = Dispatch(x, m)
        BY <3>2
      <4> HIDE DEF y, e
      <4>2. Received(e, Dispatch(x, m), m)
        BY <1>1, <1>2, <1>7, DispatchReceived
      <4> QED BY <4>1, <4>2
    <3> QED BY <3>1, <3>2
  <2> HIDE DEF e, y
  <2> QED BY <1>1, <1>2, <2>1, <2>2, ReceiveKeepsEnds
<1> QED BY <1>5, <1>6, <1>7

LEMMA SendTypeIs ==
    ASSUME NEW s, NEW st, NEW out, NEW type
    PROVE  SendType(Effect(s, st, out), type)
              = Effect([s EXCEPT !.outgoing_seq_no = s.outgoing_seq_no + 1],
                       Append(st, type),
                       Append(out, [BasicMessage(type, 0) EXCEPT !.seq = s.outgoing_seq_no + 1]))
<1>1. BasicMessage(type, 0).type = type
  BY DEF BasicMessage
<1> QED BY <1>1, EffectFields DEF SendType, send_outgoing_message

(* A Logon that is too high was counted before it is asked for, which      *)
(* gives its number back.                                                  *)
LEMMA CountedThenQueued ==
    ASSUME NEW u \in Session, NEW k \in Nat, 1 <= k, NEW l \in Nat
    PROVE  queue_outgoing_resend_request([u EXCEPT !.incoming_seq_no = k], k, l)
              = queue_outgoing_resend_request(u, k, l)
<1> DEFINE j == k - 1
           v == [u EXCEPT !.incoming_seq_no = k]
<1>1. j \in Nat
  OBVIOUS
<1> HIDE DEF j
<1>2. [v EXCEPT !.needs_to_send_resend_request = TRUE,
                !.incoming_seq_no = j,
                !.outgoing_resend_request_begin_no = k,
                !.outgoing_resend_request_end_no = l]
       = [u EXCEPT !.needs_to_send_resend_request = TRUE,
                   !.incoming_seq_no = j,
                   !.outgoing_resend_request_begin_no = k,
                   !.outgoing_resend_request_end_no = l]
  BY <1>1 DEF Session
<1> QED BY <1>2 DEF queue_outgoing_resend_request, j

LEMMA ServerLogonKeepsEnds ==
    ASSUME TypeOK, Connection, \A f \in Ends : EndOK(f), server_logon
    PROVE  EndsKept
<1> DEFINE e == "server"
           m == Message1(e)
           g == reset_flags(session[e])
           s == [g EXCEPT !.state = "PENDING_LOGON"]
           k == Expected(s)
           r == [s EXCEPT !.incoming_seq_no = k]
           low == SendType(Effect(s, store[e], <<>>), "LOGOUT")
           x == SendType(Effect(r, store[e], <<>>), "LOGON")
           y == [x EXCEPT !.s.state = "LOGGED_ON"]
           high == [y EXCEPT !.s = queue_outgoing_resend_request(y.s, y.s.incoming_seq_no, m.seq)]
<1>1. /\ e \in Ends /\ Other(e) = "client" /\ Other(e) \in Ends /\ session[e] \in Session
      /\ session[Other(e)] \in Session
      /\ EndOK(e) /\ EndOK(Other(e)) /\ wire[e] \in Seq(Message)
  BY EndNames, TypeOfEnds
<1>2. wire[e] # <<>> /\ UNCHANGED <<delivered, cut>>
  BY DEF server_logon
<1>3. m \in Message /\ m.type = "LOGON"
  <2>1. m \in Message
    BY <1>1, <1>2, FirstMessage
  <2>2. \A i \in DOMAIN wire[e] : wire[e][i].type = "LOGON"
    BY DEF Connection, server_logon
  <2>3. m = wire[e][1] /\ 1 \in DOMAIN wire[e]
    BY <1>1, <1>2 DEF Message1
  <2> QED BY <2>1, <2>2, <2>3
<1>4. Quiet(session[e], g)
  BY <1>1, QuietEdits
<1>5. g \in Session /\ ~g.needs_to_send_resend_request
      /\ ~g.needs_responding_to_incoming_resend_request
  BY <1>1 DEF reset_flags, Session
<1>6. \/ /\ wire' = [wire EXCEPT ![e] = <<>>] /\ UNCHANGED <<session, store>>
      \/ IsLow(s, m) /\ Close(e, low)
      \/ ~IsLow(s, m) /\ IsHigh(s, m) /\ Install(e, high, Rest(e))
      \/ ~IsLow(s, m) /\ ~IsHigh(s, m) /\ Install(e, y, Rest(e))
  BY DEF server_logon, Logon
<1> HIDE DEF g
<1>7. Quiet(g, s)
  BY <1>5, StateNames, QuietEdits
<1>8. s \in Session /\ ~s.needs_to_send_resend_request
      /\ ~s.needs_responding_to_incoming_resend_request
  BY <1>5, <1>7 DEF Quiet
<1>9. Quiet(session[e], s)
  BY <1>4, <1>7, QuietTransitive
<1>10. EffectOK(e, Effect(s, store[e], <<>>))
  BY <1>1, <1>9, QuietSession
<1> HIDE DEF s
<1>11. /\ s.incoming_seq_no = session[e].incoming_seq_no
       /\ k = Expected(session[e]) /\ k \in Nat /\ k = s.incoming_seq_no + 1
       /\ s.incoming_seq_no \in Nat /\ s.outgoing_seq_no \in Nat
  BY <1>8, <1>9, SessionNumbers DEF Quiet, Expected
<1>12. /\ IsHigh(s, m) <=> IsHigh(session[e], m)
       /\ IsLow(s, m) <=> IsLow(session[e], m)
  BY <1>11 DEF IsHigh, IsLow
<1>13. /\ "LOGOUT" \in PlainTypes /\ "LOGOUT" # "REJECT"
       /\ "LOGON" \in PlainTypes /\ "LOGON" # "REJECT"
  BY DEF PlainTypes, MsgType
<1> DEFINE n == s.outgoing_seq_no + 1
           st == Append(store[e], "LOGON")
           out == Append(<<>>, [BasicMessage("LOGON", 0) EXCEPT !.seq = n])
           a == [s EXCEPT !.outgoing_seq_no = n]
           b == [r EXCEPT !.outgoing_seq_no = n]
           t == [b EXCEPT !.state = "LOGGED_ON"]
           u == [a EXCEPT !.state = "LOGGED_ON"]
<1>14. CASE wire' = [wire EXCEPT ![e] = <<>>] /\ UNCHANGED <<session, store>>
  <2> DEFINE w == <<>>
             v == wire[Other(e)]
  <2>1. Quiet(session[e], session[e])
    BY <1>1, QuietEdits
  <2>2. session' = [session EXCEPT ![e] = session[e]] /\ ChangesNothing(e, w, v)
    BY <1>2, <1>14 DEF ChangesNothing, TypeOK
  <2>3. wire' = [f \in Ends |-> IF f = e THEN w ELSE v]
    BY <1>14 DEF TypeOK, Ends, Other
  <2> HIDE DEF e, w, v
  <2> QED BY <1>1, <2>1, <2>2, <2>3, QuietStep
<1>15. CASE Close(e, low)
  <2> HIDE DEF e
  <2> DEFINE c == [s EXCEPT !.outgoing_seq_no = s.outgoing_seq_no + 1]
             q == Append(store[e], "LOGOUT")
  <2>1. PICK o : /\ SendType(Effect(s, store[e], <<>>), "LOGOUT") = Effect(c, q, o)
                 /\ EffectOK(e, Effect(c, q, o))
                 /\ c \in Session /\ c.incoming_seq_no = s.incoming_seq_no
    BY <1>1, <1>10, <1>13, SendTypeEffect
  <2>2. low = Effect(c, q, o)
    BY <2>1
  <2> HIDE DEF c, q, low
  <2> QED BY <1>1, <1>2, <1>11, <1>15, <2>1, <2>2, CloseKeepsEnds
<1>16. y = Effect(t, st, out)
  <2>1. n \in Nat /\ r.outgoing_seq_no = s.outgoing_seq_no
    BY <1>8, <1>11 DEF Session
  <2> HIDE DEF r
  <2>2. x = Effect(b, st, out)
    <3>1. x = Effect([r EXCEPT !.outgoing_seq_no = r.outgoing_seq_no + 1], st,
                     Append(<<>>, [BasicMessage("LOGON", 0) EXCEPT !.seq = r.outgoing_seq_no + 1]))
      BY SendTypeIs
    <3>2. r.outgoing_seq_no + 1 = n
      BY <2>1
    <3> HIDE DEF n, x, st
    <3> QED BY <3>1, <3>2, Zenon
  <2> HIDE DEF b, st, out, x
  <2>3. \A z : [Effect(b, st, out) EXCEPT !.s.state = z] = Effect([b EXCEPT !.state = z], st, out)
    BY EffectExcept
  <2> QED BY <2>2, <2>3, Zenon
<1>17. EffectOK(e, Effect(a, st, out)) /\ a \in Session
       /\ a.incoming_seq_no = s.incoming_seq_no
  <2>1. PICK o : /\ SendType(Effect(s, store[e], <<>>), "LOGON") = Effect(a, st, o)
                 /\ EffectOK(e, Effect(a, st, o))
                 /\ a \in Session /\ a.incoming_seq_no = s.incoming_seq_no
    BY <1>1, <1>10, <1>13, SendTypeEffect
  <2>2. SendType(Effect(s, store[e], <<>>), "LOGON") = Effect(a, st, out)
    BY SendTypeIs
  <2> HIDE DEF a, st, out
  <2>3. Effect(a, st, o) = Effect(a, st, out)
    BY <2>1, <2>2
  <2> QED BY <2>1, <2>3
<1>18. n \in Nat /\ m.seq \in Nat
  BY <1>3, <1>11 DEF Message
<1> HIDE DEF k, n
<1>19. /\ t \in Session /\ t.incoming_seq_no = k /\ t.outgoing_seq_no = n
       /\ RequestsOK(t, session[Other(e)])
       /\ queue_outgoing_resend_request(t, k, m.seq) = queue_outgoing_resend_request(u, k, m.seq)
  <2>1. "LOGGED_ON" \in SessionState /\ 1 <= k
    BY <1>11, StateNames
  <2>2. /\ t \in Session /\ t.incoming_seq_no = k /\ t.outgoing_seq_no = n
        /\ ~t.needs_to_send_resend_request /\ ~t.needs_responding_to_incoming_resend_request
    BY <1>8, <1>11, <1>18, <2>1 DEF Session
  <2>3. t = [u EXCEPT !.incoming_seq_no = k] /\ u \in Session
    BY <1>8, <1>11, <1>18, <2>1 DEF Session
  <2> HIDE DEF t, u
  <2>4. RequestsOK(t, session[Other(e)])
    BY <2>2 DEF RequestsOK
  <2>5. queue_outgoing_resend_request(t, k, m.seq) = queue_outgoing_resend_request(u, k, m.seq)
    BY <1>11, <1>18, <2>1, <2>3, CountedThenQueued
  <2> QED BY <2>2, <2>4, <2>5
<1>20. a.outgoing_seq_no = n
  BY <1>8, <1>18 DEF Session
<1> HIDE DEF a, b, st, out, y, t
<1>21. CASE ~IsLow(s, m) /\ IsHigh(s, m) /\ Install(e, high, Rest(e))
  <2>1. Quiet(a, u)
    BY <1>17, StateNames, QuietEdits
  <2> HIDE DEF u
  <2>2. EffectOK(e, Effect(u, st, out))
    BY <1>1, <1>17, <2>1, QuietEffect
  <2>3. u.incoming_seq_no = session[e].incoming_seq_no /\ Expected(u) = k
    BY <1>11, <1>17, <2>1 DEF Quiet, Expected
  <2>4. IsHigh(u, m)
    BY <1>11, <1>21, <2>3 DEF IsHigh, k
  <2> DEFINE q == queue_outgoing_resend_request(u, k, m.seq)
             z == Effect(q, st, out)
  <2>5. /\ EffectOK(e, z) /\ q.incoming_seq_no = session[e].incoming_seq_no
        /\ m.seq # Expected(session[e])
    <3> HIDE DEF e
    <3> QED BY <1>1, <1>2, <2>2, <2>3, <2>4, HighEffect
  <2>6. high = z
    <3>1. y.s = t
      BY <1>16, EffectFields
    <3>2. y.s.incoming_seq_no = k
      BY <1>19, <3>1
    <3>3. high = [y EXCEPT !.s = q]
      BY <1>19, <3>1, <3>2
    <3> HIDE DEF q, high
    <3>4. \A p : [Effect(t, st, out) EXCEPT !.s = p] = Effect(p, st, out)
      BY EffectExcept
    <3> QED BY <1>16, <3>3, <3>4, Zenon
  <2> HIDE DEF q, high
  <2>7. z.s.incoming_seq_no = session[e].incoming_seq_no
    BY <2>5, EffectFields
  <2> HIDE DEF z
  <2>8. Install(e, z, [wire EXCEPT ![e] = Tail(@)]) /\ Head(wire[e]).seq # Expected(session[e])
    BY <1>21, <2>5, <2>6 DEF Rest, Message1
  <2> HIDE DEF e
  <2> QED BY <1>1, <1>2, <2>5, <2>7, <2>8, QuietInstall
<1>22. CASE ~IsLow(s, m) /\ ~IsHigh(s, m) /\ Install(e, y, Rest(e))
  <2>1. a.incoming_seq_no <= t.incoming_seq_no
    BY <1>11, <1>17, <1>19
  <2>2. EffectOK(e, Effect(t, st, out))
    BY <1>1, <1>17, <1>19, <1>20, <2>1, EditedEffect
  <2>3. EffectOK(e, y) /\ y.s.incoming_seq_no = Expected(session[e])
    BY <1>11, <1>16, <1>19, <2>2, EffectFields
  <2>4. m.type # "SEQUENCE_RESET" /\ ~IsHigh(session[e], m) /\ ~IsLow(session[e], m)
    BY <1>3, <1>12, <1>22
  <2>5. Deliver(e, m)
    BY <1>2, <1>3 DEF Deliver
  <2> HIDE DEF e
  <2>6. Received(e, y, m)
    BY <1>1, <1>2, <2>3, <2>4, OriginalReceived
  <2> QED BY <1>1, <1>2, <1>22, <2>5, <2>6, ReceiveKeepsEnds
<1> QED BY <1>6, <1>14, <1>15, <1>21, <1>22

-----------------------------------------------------------------------------
(* The connection                                                          *)

RestTypes ==
    /\ socket \in [Ends -> BOOLEAN] /\ broken \in BOOLEAN /\ peer \in Peers
    /\ in_logout \in BOOLEAN /\ connects \in 0 .. MaxConnects
    /\ cut \in [Ends -> SUBSET Nat]

LEMMA NextKeepsRestTypes ==
    ASSUME TypeOK, Next
    PROVE  RestTypes'
<1>1. /\ socket \in [Ends -> BOOLEAN] /\ broken \in BOOLEAN /\ peer \in Peers
      /\ in_logout \in BOOLEAN /\ connects \in 0 .. MaxConnects
      /\ cut \in [Ends -> SUBSET Nat] /\ MaxConnects \in Nat
      /\ "none" \in Peers /\ "current" \in Peers /\ "dead" \in Peers
  BY LinkAssumption DEF TypeOK, Peers
<1>2. CASE connect
  <2>1. /\ connects < MaxConnects /\ connects' = connects + 1
        /\ socket' = [e \in Ends |-> TRUE] /\ broken' = FALSE
        /\ peer' = IF Bound THEN "dead" ELSE peer
        /\ UNCHANGED <<in_logout, cut>>
    BY <1>2 DEF connect
  <2>2. connects' \in 0 .. MaxConnects /\ peer' \in Peers
    BY <1>1, <2>1
  <2> QED BY <1>1, <2>1, <2>2 DEF RestTypes
<1>3. CASE logon_timeout
  BY <1>1, <1>3 DEF logon_timeout, RestTypes
<1>4. CASE begin_logout
  BY <1>1, <1>4 DEF begin_logout, RestTypes
<1>5. CASE finish_logout
  BY <1>1, <1>5 DEF finish_logout, Close, RestTypes
<1>16. CASE shutdown
  BY <1>1, <1>16 DEF shutdown, Close, RestTypes
<1>6. CASE connection_breaks
  BY <1>1, <1>6 DEF connection_breaks, RestTypes
<1>7. CASE on_connection_lost
  BY <1>1, <1>7 DEF on_connection_lost, Close, RestTypes
<1>8. CASE on_client_disconnected
  BY <1>1, <1>8 DEF on_client_disconnected, Close, RestTypes
<1>9. CASE client_receive
  BY <1>1, <1>9 DEF client_receive, Close, RestTypes
<1>10. CASE server_logon
  BY <1>1, <1>10 DEF server_logon, Logon, Close, RestTypes
<1>11. CASE server_receive
  BY <1>1, <1>11 DEF server_receive, Close, RestTypes
<1>12. ASSUME NEW e \in Ends,
              process(e) \/ send_business_message(e) \/ send_heartbeat(e)
       PROVE  RestTypes'
  BY <1>1, <1>12 DEF process, send_business_message, send_heartbeat, RestTypes
<1>13. ASSUME NEW e \in Ends, resend_request_expires(e) PROVE RestTypes'
  BY <1>1, <1>13 DEF resend_request_expires, Close, RestTypes
<1>14. ASSUME NEW e \in Ends, restart(e) PROVE RestTypes'
  BY <1>1, <1>14 DEF restart, Restarted, RestTypes
<1>15. ASSUME NEW e \in Ends, restart_after_counting(e) PROVE RestTypes'
  <2>1. Expected(session[e]) \in Nat
    BY TypeOfEnds, SessionNumbers
  <2> QED BY <1>1, <1>15, <2>1 DEF restart_after_counting, Restarted, RestTypes
<1> QED BY <1>2, <1>3, <1>4, <1>5, <1>6, <1>7, <1>8, <1>9, <1>10, <1>11, <1>12,
           <1>13, <1>14, <1>15, <1>16 DEF Next

(* The server binds the connection, keeps it bound, or closes it.          *)
LEMMA ServerStep ==
    ASSUME TypeOK, Connection, session'["client"] = session["client"],
           socket'["client"] = socket["client"], Bound' \/ ~socket'["server"]
    PROVE  Connection'
  BY DEF Connection, Whole, Bound

(* The client, on a connection that is bound if it is whole.               *)
LEMMA ClientStep ==
    ASSUME TypeOK, Connection, socket["client"], Whole => Bound,
           UNCHANGED <<socket, broken, peer>>,
           broken => wire'["server"] = wire["server"]
    PROVE  Connection'
  BY DEF Connection, Whole, Bound

LEMMA ClientCloses ==
    ASSUME TypeOK, Connection, session'["client"].state = "DISCONNECTED",
           ~socket'["client"], socket'["server"] = socket["server"], peer' = peer,
           socket["server"] /\ ~Bound => wire'["server"] = wire["server"]
    PROVE  Connection'
  BY DEF Connection, Whole, Bound

(* What a step of an end leaves of the other end's session and of its      *)
(* wire.                                                                   *)
LEMMA InstallLeaves ==
    ASSUME TypeOK, NEW e \in Ends, NEW x, NEW w,
           Install(e, x, w), w \in [Ends -> Seq(Message)], w[Other(e)] = wire[Other(e)]
    PROVE  /\ session'[e] = x.s
           /\ session'[Other(e)] = session[Other(e)]
           /\ broken \/ x.out = <<>> => wire'[Other(e)] = wire[Other(e)]
<1>1. Other(e) \in Ends /\ Other(e) # e /\ wire[Other(e)] \in Seq(Message)
  BY TypeOfEnds
<1>2. session'[e] = x.s /\ session'[Other(e)] = session[Other(e)]
  BY <1>1 DEF Install, TypeOK
<1>3. wire[Other(e)] \o <<>> = wire[Other(e)]
  BY <1>1, ConcatEmptySeq
<1>4. CASE broken \/ ~socket[Other(e)]
  BY <1>2, <1>4 DEF Install
<1>5. CASE ~(broken \/ ~socket[Other(e)])
  <2>1. wire' = [w EXCEPT ![Other(e)] = w[Other(e)] \o x.out]
    BY <1>5 DEF Install
  <2>2. wire'[Other(e)] = wire[Other(e)] \o x.out
    BY <1>1, <2>1, Zenon
  <2> QED BY <1>2, <1>3, <1>5, <2>2
<1> QED BY <1>4, <1>5

LEMMA CloseLeaves ==
    ASSUME TypeOK, NEW e \in Ends, NEW s \in Session, NEW st, NEW out,
           Close(e, Effect(s, st, out))
    PROVE  /\ session'[e].state = "DISCONNECTED" /\ ~socket'[e]
           /\ session'[Other(e)] = session[Other(e)]
           /\ socket'[Other(e)] = socket[Other(e)]
           /\ broken \/ out = <<>> => wire'[Other(e)] = wire[Other(e)]
<1> DEFINE t == [s EXCEPT !.state = "DISCONNECTED"]
           x == Effect(t, st, out)
           w == [wire EXCEPT ![e] = <<>>]
<1>1. Other(e) \in Ends /\ Other(e) # e
  BY TypeOfEnds
<1>2. [Effect(s, st, out) EXCEPT !.s.state = "DISCONNECTED"] = x
  <2>1. \A z : [Effect(s, st, out) EXCEPT !.s.state = z] = Effect([s EXCEPT !.state = z], st, out)
    BY EffectExcept
  <2> QED BY <2>1, Zenon
<1>3. t.state = "DISCONNECTED"
  BY DEF Session
<1>4. Install(e, x, w)
  BY <1>2 DEF Close
<1>5. w \in [Ends -> Seq(Message)] /\ w[Other(e)] = wire[Other(e)]
  BY <1>1 DEF TypeOK
<1>6. x.s = t /\ x.out = out
  BY EffectFields
<1>7. ~socket'[e] /\ socket'[Other(e)] = socket[Other(e)]
  BY <1>1 DEF Close, TypeOK
<1> HIDE DEF x, w, t
<1> QED BY <1>3, <1>4, <1>5, <1>6, <1>7, InstallLeaves

LEMMA ConnectConnection ==
    ASSUME TypeOK, Connection, connect
    PROVE  Connection'
<1> DEFINE e == "client"
           g == reset_flags(session[e])
           s == [g EXCEPT !.state = "PENDING_LOGON"]
           n == s.outgoing_seq_no + 1
           t == [s EXCEPT !.outgoing_seq_no = n]
           m == [BasicMessage("LOGON", 0) EXCEPT !.seq = n]
           x == SendType(Effect(s, store[e], <<>>), "LOGON")
<1>1. e \in Ends /\ "server" \in Ends /\ "server" # e /\ session[e] \in Session
  BY EndNames, TypeOfEnds
<1>2. g \in Session
  BY <1>1, QuietEdits DEF Quiet
<1>3. /\ session' = [session EXCEPT ![e] = x.s]
      /\ wire' = [f \in Ends |-> IF f = "server" THEN x.out ELSE <<>>]
      /\ socket' = [f \in Ends |-> TRUE] /\ peer' = IF Bound THEN "dead" ELSE peer
  BY DEF connect
<1> HIDE DEF g
<1>4. s \in Session /\ s.state = "PENDING_LOGON"
  BY <1>2, StateNames DEF Session
<1> HIDE DEF s
<1>5. t.state = "PENDING_LOGON"
  BY <1>4 DEF Session
<1>6. m.type = "LOGON"
  BY DEF BasicMessage
<1>7. x.s = t /\ x.out = Append(<<>>, m)
  <2>1. x = Effect(t, Append(store[e], "LOGON"), Append(<<>>, m))
    BY SendTypeIs
  <2> HIDE DEF x, t, m
  <2> QED BY <2>1, EffectFields
<1> HIDE DEF t, m, x
<1>8. DOMAIN Append(<<>>, m) = {1} /\ Append(<<>>, m)[1] = m
  OBVIOUS
<1>9. session'[e].state = "PENDING_LOGON"
  BY <1>1, <1>3, <1>5, <1>7 DEF TypeOK
<1>10. wire'[e] = <<>> /\ wire'["server"] = Append(<<>>, m)
  BY <1>1, <1>3, <1>7
<1>11. socket'[e] /\ ~is_state_live(session'[e].state)
  BY <1>1, <1>3, <1>9 DEF is_state_live, LiveStates
<1> QED BY <1>6, <1>8, <1>10, <1>11 DEF Connection

LEMMA StartFields ==
    ASSUME TypeOK, NEW e \in Ends
    PROVE  /\ Start(e) = Effect(session[e], store[e], <<>>)
           /\ session[e] \in Session
  BY TypeOfEnds DEF Start

(* A step of the client that may send, on a connection it has open.        *)
LEMMA ClientInstalls ==
    ASSUME TypeOK, Connection, socket["client"], Whole => Bound, NEW x,
           Install("client", x, wire) \/ Install("client", x, Rest("client")),
           UNCHANGED <<socket, broken, peer>>
    PROVE  Connection'
<1> DEFINE e == "client"
<1>1. e \in Ends /\ Other(e) = "server" /\ "server" # e
  BY EndNames
<1>2. wire \in [Ends -> Seq(Message)]
  BY DEF TypeOK
<1>3. ASSUME broken PROVE wire'["server"] = wire["server"]
  <2>1. CASE Install("client", x, wire)
    BY <1>1, <1>3, <2>1 DEF Install
  <2>2. CASE Install("client", x, Rest("client"))
    <3>1. wire' = Rest("client")
      BY <1>3, <2>2 DEF Install
    <3> QED BY <1>1, <1>2, <3>1 DEF Rest
  <2> QED BY <2>1, <2>2
<1> QED BY <1>3, ClientStep

LEMMA ClosesConnection ==
    ASSUME TypeOK, Connection, NEW e \in Ends, Close(e, Start(e))
    PROVE  Connection'
<1>1. Start(e) = Effect(session[e], store[e], <<>>) /\ session[e] \in Session
  BY StartFields
<1>2. /\ session'[e].state = "DISCONNECTED" /\ ~socket'[e]
      /\ session'[Other(e)] = session[Other(e)]
      /\ socket'[Other(e)] = socket[Other(e)]
      /\ wire'[Other(e)] = wire[Other(e)]
  BY <1>1, CloseLeaves
<1>3. CASE e = "client"
  <2>1. peer' = peer
    BY <1>3 DEF Close
  <2> QED BY <1>2, <1>3, <2>1, EndNames, ClientCloses
<1>4. CASE e = "server"
  BY <1>2, <1>4, EndNames, ServerStep
<1> QED BY <1>3, <1>4 DEF Ends

LEMMA RestartConnection ==
    ASSUME TypeOK, Connection, NEW e \in Ends, NEW i \in Nat, Restarted(e, i)
    PROVE  Connection'
<1>1. Other(e) \in Ends /\ Other(e) # e /\ session[e].outgoing_seq_no \in Nat
  BY TypeOfEnds, SessionNumbers
<1> DEFINE t == initialise(i, session[e].outgoing_seq_no)
<1>2. t.state = "DISCONNECTED"
  BY <1>1, RestartedIs
<1>3. session' = [session EXCEPT ![e] = t]
  BY DEF Restarted
<1> HIDE DEF t
<1>4. /\ session'[e].state = "DISCONNECTED" /\ ~socket'[e]
      /\ session'[Other(e)] = session[Other(e)]
      /\ socket'[Other(e)] = socket[Other(e)]
      /\ wire'[Other(e)] = wire[Other(e)]
  BY <1>1, <1>2, <1>3 DEF Restarted, TypeOK
<1>5. CASE e = "client"
  <2>1. peer' = peer
    BY <1>5 DEF Restarted
  <2> QED BY <1>4, <1>5, <2>1, EndNames, ClientCloses
<1>6. CASE e = "server"
  BY <1>4, <1>6, EndNames, ServerStep
<1> QED BY <1>5, <1>6 DEF Ends

LEMMA ClientReceiveConnection ==
    ASSUME TypeOK, Connection, client_receive
    PROVE  Connection'
<1>1. socket["client"] /\ (Whole => Bound) /\ "client" \in Ends /\ broken' = broken
  BY EndNames DEF client_receive, Connection
<1>2. CASE Close("client", Start("client"))
  BY <1>1, <1>2, ClosesConnection
<1>3. ASSUME NEW x, Install("client", x, Rest("client")), UNCHANGED <<socket, peer>>
      PROVE  Connection'
  BY <1>1, <1>3, ClientInstalls
<1> QED BY <1>2, <1>3 DEF client_receive

LEMMA ServerLogonConnection ==
    ASSUME TypeOK, Connection, server_logon
    PROVE  Connection'
<1> DEFINE e == "server"
           s == [reset_flags(session[e]) EXCEPT !.state = "PENDING_LOGON"]
<1>1. e \in Ends /\ Other(e) = "client" /\ "client" # e /\ session[e] \in Session
  BY EndNames, TypeOfEnds
<1>2. CASE socket' = [socket EXCEPT ![e] = FALSE] /\ UNCHANGED session
  <2>1. session'["client"] = session["client"] /\ socket'["client"] = socket["client"]
        /\ ~socket'[e]
    BY <1>1, <1>2 DEF TypeOK
  <2> QED BY <2>1, ServerStep
<1>3. CASE Close(e, SendType(Effect(s, store[e], <<>>), "LOGOUT"))
  <2> HIDE DEF s
  <2>1. PICK z : session' = [session EXCEPT ![e] = z] /\ socket' = [socket EXCEPT ![e] = FALSE]
    BY <1>3 DEF Close, Install
  <2>2. session'["client"] = session["client"] /\ socket'["client"] = socket["client"]
        /\ ~socket'[e]
    BY <1>1, <2>1 DEF TypeOK
  <2> QED BY <2>2, ServerStep
<1>4. ASSUME NEW x, Install(e, x, Rest(e)), peer' = "current", UNCHANGED socket
      PROVE  Connection'
  <2>1. session'["client"] = session["client"]
    BY <1>1, <1>4 DEF Install, TypeOK
  <2> QED BY <1>4, <2>1, ServerStep DEF Bound
<1> QED BY <1>2, <1>3, <1>4 DEF server_logon, Logon

LEMMA ServerReceiveConnection ==
    ASSUME TypeOK, Connection, server_receive
    PROVE  Connection'
<1>1. Bound /\ "server" \in Ends /\ "client" # "server"
  BY EndNames DEF server_receive, Attached
<1>2. CASE Close("server", Start("server"))
  BY <1>1, <1>2, ClosesConnection
<1>3. ASSUME NEW x, Install("server", x, Rest("server")), UNCHANGED <<socket, peer>>
      PROVE  Connection'
  <2>1. session'["client"] = session["client"]
    BY <1>1, <1>3 DEF Install, TypeOK
  <2> QED BY <1>1, <1>3, <2>1, ServerStep DEF Bound
<1> QED BY <1>2, <1>3 DEF server_receive

(* process() and what an application or a timer sends.                     *)
LEMMA RunningConnection ==
    ASSUME TypeOK, Connection, NEW e \in Ends, Running(e), NEW x, Act(e, x),
           UNCHANGED <<socket, broken, peer>>
    PROVE  Connection'
<1>1. CASE e = "client"
  <2>1. socket["client"] /\ (Whole => Bound)
    BY <1>1 DEF Running, Attached, Connection
  <2>2. Install("client", x, wire)
    BY <1>1 DEF Act
  <2> QED BY <2>1, <2>2, ClientInstalls
<1>2. CASE e = "server"
  <2>1. Bound /\ "client" # e
    BY <1>2 DEF Running, Attached
  <2>2. session'["client"] = session["client"]
    BY <2>1 DEF Act, Install, TypeOK
  <2> QED BY <2>1, <2>2, ServerStep DEF Bound
<1> QED BY <1>1, <1>2 DEF Ends

LEMMA NextKeepsConnection ==
    ASSUME TypeOK, Connection, Next
    PROVE  Connection'
<1>1. "client" \in Ends /\ "server" \in Ends /\ "client" # "server"
  BY EndNames
<1>2. CASE connect
  BY <1>2, ConnectConnection
<1>3. CASE logon_timeout
  <2>1. session'["client"].state = "DISCONNECTED" /\ UNCHANGED <<wire, socket, broken, peer>>
    BY <1>1, <1>3, TypeOfEnds DEF logon_timeout, TypeOK, Session
  <2>2. ~is_state_live("DISCONNECTED")
    BY DEF is_state_live, LiveStates
  <2> QED BY <2>1, <2>2 DEF Connection, Whole, Bound
<1>4. CASE begin_logout
  <2>1. is_state_live(session["client"].state) /\ session["client"].state # "DISCONNECTED"
    BY <1>4 DEF begin_logout, is_state_live, LiveStates
  <2>2. socket["client"] /\ (Whole => Bound)
    BY <2>1 DEF Connection
  <2>3. PICK x : Install("client", x, wire)
    BY <1>4 DEF begin_logout, Act
  <2>4. UNCHANGED <<socket, broken, peer>>
    BY <1>4 DEF begin_logout
  <2> QED BY <2>2, <2>3, <2>4, ClientInstalls
<1>5. CASE finish_logout
  BY <1>1, <1>5, ClosesConnection DEF finish_logout
<1>15. CASE shutdown
  BY <1>1, <1>15, ClosesConnection DEF shutdown
<1>6. CASE connection_breaks
  BY <1>1, <1>6 DEF connection_breaks, Connection, Whole, Bound
<1>7. CASE on_connection_lost
  BY <1>1, <1>7, ClosesConnection DEF on_connection_lost
<1>8. CASE on_client_disconnected
  <2>1. CASE Close("server", Start("server"))
    BY <1>1, <2>1, ClosesConnection
  <2>2. CASE /\ peer = "dead" /\ peer' = "none" /\ UNCHANGED <<wire, socket>>
             /\ session' = [session EXCEPT !["server"].state = "DISCONNECTED"]
    <3>1. session'["client"] = session["client"] /\ broken' = broken
      BY <1>1, <1>8, <2>2 DEF TypeOK, on_client_disconnected
    <3> QED BY <2>2, <3>1 DEF Connection, Whole, Bound
  <2>3. CASE socket' = [socket EXCEPT !["server"] = FALSE] /\ UNCHANGED session
    <3>1. /\ session'["client"] = session["client"] /\ socket'["client"] = socket["client"]
          /\ ~socket'["server"]
      BY <1>1, <2>3 DEF TypeOK
    <3> QED BY <3>1, ServerStep
  <2> QED BY <1>8, <2>1, <2>2, <2>3 DEF on_client_disconnected
<1>9. CASE client_receive
  BY <1>9, ClientReceiveConnection
<1>10. CASE server_logon
  BY <1>10, ServerLogonConnection
<1>11. CASE server_receive
  BY <1>11, ServerReceiveConnection
<1>12. ASSUME NEW e \in Ends,
              process(e) \/ send_business_message(e) \/ send_heartbeat(e)
       PROVE  Connection'
  <2>1. PICK x : Act(e, x)
    BY <1>12 DEF process, send_business_message, send_heartbeat
  <2>2. Running(e) /\ UNCHANGED <<socket, broken, peer>>
    BY <1>12 DEF process, send_business_message, send_heartbeat
  <2> QED BY <2>1, <2>2, RunningConnection
<1>13. ASSUME NEW e \in Ends, resend_request_expires(e) PROVE Connection'
  BY <1>13, ClosesConnection DEF resend_request_expires
<1>14. ASSUME NEW e \in Ends, restart(e) \/ restart_after_counting(e) PROVE Connection'
  <2>1. session[e].incoming_seq_no \in Nat /\ Expected(session[e]) \in Nat
    BY TypeOfEnds, SessionNumbers
  <2> QED BY <1>14, <2>1, RestartConnection DEF restart, restart_after_counting
<1> QED BY <1>2, <1>3, <1>4, <1>5, <1>6, <1>7, <1>8, <1>9, <1>10, <1>11, <1>12,
           <1>13, <1>14, <1>15 DEF Next

LEMMA NextKeepsEnds ==
    ASSUME TypeOK, Connection, \A f \in Ends : EndOK(f), Next
    PROVE  EndsKept
<1>1. "client" \in Ends /\ "server" \in Ends
  BY EndNames
<1>2. CASE connect
  BY <1>2, ConnectKeepsEnds
<1>3. CASE logon_timeout
  BY <1>3, LogonTimeoutKeepsEnds
<1>4. CASE begin_logout
  BY <1>4, BeginLogoutKeepsEnds
<1>5. CASE finish_logout
  BY <1>1, <1>5, ClosingKeepsEnds DEF finish_logout
<1>17. CASE shutdown
  BY <1>1, <1>17, ClosingKeepsEnds DEF shutdown
<1>6. CASE connection_breaks
  BY <1>6, BreakKeepsEnds
<1>7. CASE on_connection_lost
  BY <1>1, <1>7, ClosingKeepsEnds DEF on_connection_lost
<1>8. CASE on_client_disconnected
  BY <1>8, DisconnectKeepsEnds
<1>9. CASE client_receive
  BY <1>9, ClientReceiveKeepsEnds
<1>10. CASE server_logon
  BY <1>10, ServerLogonKeepsEnds
<1>11. CASE server_receive
  BY <1>11, ServerReceiveKeepsEnds
<1>12. ASSUME NEW e \in Ends, process(e) PROVE EndsKept
  BY <1>12, ProcessKeepsEnds
<1>13. ASSUME NEW e \in Ends, resend_request_expires(e)
       PROVE  EndsKept
  BY <1>13, ClosingKeepsEnds DEF resend_request_expires
<1>14. ASSUME NEW e \in Ends, restart(e) PROVE EndsKept
  BY <1>14, RestartKeepsEnds
<1>15. ASSUME NEW e \in Ends, restart_after_counting(e)
       PROVE  EndsKept
  BY <1>15, RestartAfterCountingKeepsEnds
<1>16. ASSUME NEW e \in Ends, send_business_message(e) \/ send_heartbeat(e)
       PROVE  EndsKept
  <2>1. /\ "APP" \in PlainTypes /\ "APP" # "REJECT"
        /\ "HEARTBEAT" \in PlainTypes /\ "HEARTBEAT" # "REJECT"
    BY DEF PlainTypes, MsgType
  <2> QED BY <1>16, <2>1, SendKeepsEnds DEF send_business_message, send_heartbeat
<1> QED BY <1>2, <1>3, <1>4, <1>5, <1>6, <1>7, <1>8, <1>9, <1>10, <1>11, <1>12,
           <1>13, <1>14, <1>15, <1>16, <1>17 DEF Next

LEMMA InitInv == Init => Inv
<1> SUFFICES ASSUME Init PROVE Inv
  OBVIOUS
<1>1. MaxSent \in Nat /\ MaxConnects \in Nat
  BY LinkAssumption
<1>2. \A e \in Ends : /\ session[e] = initialise(0, 0) /\ store[e] = <<>> /\ wire[e] = <<>>
                      /\ delivered[e] = <<>> /\ cut[e] = {} /\ ~socket[e]
  BY DEF Init
<1>3. /\ initialise(0, 0) \in Session /\ initialise(0, 0).incoming_seq_no = 0
      /\ initialise(0, 0).outgoing_seq_no = 0 /\ initialise(0, 0).state = "DISCONNECTED"
      /\ ~initialise(0, 0).needs_to_send_resend_request
      /\ ~initialise(0, 0).needs_responding_to_incoming_resend_request
  BY RestartedIs
<1>4. /\ <<>> \in Seq(MsgType) /\ <<>> \in Seq(Message) /\ <<>> \in Seq(Nat)
      /\ DOMAIN <<>> = {} /\ Len(<<>>) = 0
  OBVIOUS
<1>5. TypeOK
  <2>1. session \in [Ends -> Session]
    BY <1>3 DEF Init
  <2>2. /\ store \in [Ends -> Seq(MsgType)] /\ wire \in [Ends -> Seq(Message)]
        /\ delivered \in [Ends -> Seq(Nat)]
    BY <1>4 DEF Init
  <2>3. socket \in [Ends -> BOOLEAN] /\ cut \in [Ends -> SUBSET Nat]
    BY DEF Init
  <2>4. /\ broken \in BOOLEAN /\ peer \in Peers /\ in_logout \in BOOLEAN
        /\ connects \in 0 .. MaxConnects
    <3>1. broken = FALSE /\ peer = "none" /\ in_logout = FALSE /\ connects = 0
      BY DEF Init
    <3>2. 0 \in 0 .. MaxConnects
      BY <1>1
    <3> QED BY <3>1, <3>2, Zenon DEF Peers
  <2> QED BY <2>1, <2>2, <2>3, <2>4 DEF TypeOK
<1>6. Connection
  BY <1>2, <1>3, EndNames DEF Connection, Whole
<1>7. ASSUME NEW e \in Ends PROVE EndOK(e)
  <2>1. Other(e) \in Ends
    BY <1>5, TypeOfEnds
  <2>2. StoreOK(store[e], session[e])
    BY <1>1, <1>2, <1>3, <1>4 DEF StoreOK, Rejected
  <2>3. RequestsOK(session[e], session[Other(e)])
    BY <1>2, <1>3 DEF RequestsOK
  <2>4. Flight(e)
    BY <1>2, <1>4, ChainEmpty DEF Flight
  <2>5. Ledger(e)
    BY <1>2, <1>3 DEF Ledger
  <2>6. Ordered(delivered[e], session[e].incoming_seq_no)
    BY <1>2, <1>4 DEF Ordered
  <2> QED BY <2>2, <2>3, <2>4, <2>5, <2>6 DEF EndOK
<1> QED BY <1>5, <1>6, <1>7 DEF Inv

LEMMA StutterInv == Inv /\ UNCHANGED vars => Inv'
<1> SUFFICES ASSUME Inv, UNCHANGED vars PROVE Inv'
  OBVIOUS
<1>1. TypeOK' /\ Connection'
  BY DEF Inv, vars, TypeOK, Connection, Whole, Bound
<1>2. ASSUME NEW e \in Ends PROVE EndOK(e)'
  BY DEF Inv, vars, EndOK, Flight, Ledger
<1> QED BY <1>1, <1>2 DEF Inv

(* The inductive invariant holds in every reachable state, whatever the    *)
(* bounds, the replay setting and its range are.                           *)
THEOREM LinkInvariance == Spec => []Inv
<1>1. Init => Inv
  BY InitInv
<1>2. Inv /\ [Next]_vars => Inv'
  <2>1. ASSUME Inv, Next PROVE Inv'
    <3>1. TypeOK /\ Connection /\ \A f \in Ends : EndOK(f)
      BY <2>1 DEF Inv
    <3>2. DataTypes' /\ \A f \in Ends : EndOK(f)'
      BY <2>1, <3>1, NextKeepsEnds DEF EndsKept
    <3>3. RestTypes' /\ Connection'
      BY <2>1, <3>1, NextKeepsRestTypes, NextKeepsConnection
    <3>4. TypeOK'
      BY <3>2, <3>3 DEF DataTypes, RestTypes, TypeOK
    <3> QED BY <3>2, <3>3, <3>4 DEF Inv
  <2> QED BY <2>1, StutterInv
<1> QED BY <1>1, <1>2, PTL DEF Spec

-----------------------------------------------------------------------------
(* The sessions, the two directions of the connection and what the model   *)
(* records about them have their types in every reachable state: no        *)
(* sequence number of process_incoming_fix_message goes below zero, also   *)
(* when the number of a message is given back.                             *)
THEOREM LinkTypeCorrect == Spec => []TypeOK
<1>1. Inv => TypeOK
  BY DEF Inv
<1> QED BY <1>1, LinkInvariance, PTL

(* The callbacks of both ends see business messages in the order of their  *)
(* numbers and never twice, for every number of messages, connections and  *)
(* restarts, with replays and with gap fills.                              *)
THEOREM DeliveredExactlyOnce == Spec => []ExactlyOnceInOrder
<1>1. Inv => ExactlyOnceInOrder
  BY DEF Inv, EndOK, Ordered, ExactlyOnceInOrder
<1> QED BY <1>1, LinkInvariance, PTL

(* A client that is live on a whole connection is on the one that the      *)
(* server's session is bound to.                                           *)
THEOREM LiveMeansBound == Spec => []LoggedOnTogether
<1>1. Inv => LoggedOnTogether
  BY DEF Inv, Connection, LoggedOnTogether
<1> QED BY <1>1, LinkInvariance, PTL

(* When every ResendRequest is answered with a replay (replays are on and  *)
(* their range covers all the numbers that are sent), a business message   *)
(* whose number was counted was handed to the callbacks.                   *)
THEOREM ReplaysLoseNothing ==
    ASSUME replay_messages, MaxSent <= max_resend_range
    PROVE  Spec => []NoSilentLoss
<1>1. ASSUME Inv PROVE NoSilentLoss
  <2> SUFFICES ASSUME NEW e \in Ends, ~Rejected(store[e]), NEW n \in DOMAIN store[Other(e)],
                      n <= session[e].incoming_seq_no, n \notin cut[e],
                      store[Other(e)][n] = "APP"
               PROVE  \E i \in DOMAIN delivered[e] : delivered[e][i] = n
    BY DEF NoSilentLoss, Rejected
  <2>1. TypeOK /\ EndOK(e)
    BY <1>1 DEF Inv
  <2>2. Other(e) \in Ends /\ store[Other(e)] \in Seq(MsgType)
    BY <2>1, TypeOfEnds
  <2>3. n \in Nat /\ 1 <= n
    BY <2>2, SeqDomain
  <2>4. Accounted(n, store[Other(e)], delivered[e])
    BY <2>1, <2>3 DEF EndOK, Ledger
  <2> QED BY <2>4 DEF Accounted, AllReplayed
<1>2. Inv => NoSilentLoss
  BY <1>1
<1> QED BY <1>2, LinkInvariance, PTL

(* With gap fills instead of replays no end counts a number that the other *)
(* has not sent, except one that it was counting when its process died.    *)
THEOREM GapFillsStayBehind ==
    ASSUME ~replay_messages
    PROVE  Spec => []NeverAhead
<1>1. ASSUME Inv PROVE NeverAhead
  <2> SUFFICES ASSUME NEW e \in Ends,
                      NEW n \in session[Other(e)].outgoing_seq_no + 1
                                   .. session[e].incoming_seq_no
               PROVE  n \in cut[e]
    BY DEF NeverAhead
  <2>1. TypeOK /\ EndOK(e) /\ \A f \in Ends : EndOK(f)
    BY <1>1 DEF Inv
  <2>2. /\ Other(e) \in Ends /\ store[Other(e)] \in Seq(MsgType)
        /\ session[e] \in Session /\ session[Other(e)] \in Session
    BY <2>1, TypeOfEnds
  <2>3. /\ session[e].incoming_seq_no \in Nat /\ session[Other(e)].outgoing_seq_no \in Nat
    BY <2>2, SessionNumbers
  <2>4. ~Rejected(store[e]) /\ Len(store[Other(e)]) = session[Other(e)].outgoing_seq_no
    BY <2>1, <2>2 DEF EndOK, StoreOK
  <2>5. /\ n \in Nat /\ 1 <= n /\ n <= session[e].incoming_seq_no
        /\ session[Other(e)].outgoing_seq_no < n
    BY <2>3
  <2>6. n \notin DOMAIN store[Other(e)]
    BY <2>2, <2>3, <2>4, <2>5, SeqDomain
  <2> QED BY <2>1, <2>4, <2>5, <2>6 DEF EndOK, Ledger, Accounted
<1>2. Inv => NeverAhead
  BY <1>1
<1> QED BY <1>2, LinkInvariance, PTL
-----------------------------------------------------------------------------
(* Each direction is a BusinessChannel                                     *)

(* What a step makes of what the other end sent to e and e's callbacks     *)
(* saw.                                                                    *)
SendStep(e) ==
    /\ Len(store[Other(e)]) < Len(store'[Other(e)])
    /\ \A n \in DOMAIN store[Other(e)] : store'[Other(e)][n] = store[Other(e)][n]
    /\ delivered'[e] = delivered[e]

DeliverStep(e) ==
    \E n \in DOMAIN store[Other(e)] :
        /\ store[Other(e)][n] = "APP"
        /\ \A i \in DOMAIN delivered[e] : delivered[e][i] < n
        /\ delivered'[e] = Append(delivered[e], n)
        /\ store'[Other(e)] = store[Other(e)]

ChannelStep(e) ==
    \/ SendStep(e) \/ DeliverStep(e)
    \/ store'[Other(e)] = store[Other(e)] /\ delivered'[e] = delivered[e]

LEMMA ExtendsIsLonger ==
    ASSUME NEW S, NEW a \in Seq(S), NEW b \in Seq(S), Extends(a, b)
    PROVE  \/ a = b
           \/ Len(a) < Len(b) /\ \A n \in DOMAIN a : b[n] = a[n]
<1>1. /\ Len(a) \in Nat /\ DOMAIN a = 1 .. Len(a)
      /\ Len(b) \in Nat /\ DOMAIN b = 1 .. Len(b)
  BY SeqDomain
<1>2. \A n \in DOMAIN a : n \in DOMAIN b /\ b[n] = a[n]
  BY DEF Extends
<1>3. Len(a) <= Len(b)
  <2>1. CASE Len(a) = 0
    BY <1>1, <2>1
  <2>2. CASE Len(a) # 0
    <3>1. Len(a) \in DOMAIN a
      BY <1>1, <2>2
    <3> QED BY <1>1, <1>2, <3>1
  <2> QED BY <2>1, <2>2
<1>4. CASE Len(a) = Len(b)
  <2>1. a = b
    BY <1>1, <1>2, <1>4, SeqEqual
  <2> QED BY <2>1
<1>5. CASE Len(a) # Len(b)
  <2>1. \A i, j \in Nat : i <= j /\ i # j => i < j
    OBVIOUS
  <2>2. Len(a) < Len(b)
    BY <1>1, <1>3, <1>5, <2>1, Zenon
  <2> QED BY <1>2, <2>2, Zenon
<1> QED BY <1>4, <1>5

(* A step after which the callbacks of e have seen the same.               *)
LEMMA SilentStep ==
    ASSUME TypeOK, EndsKept, NEW e \in Ends, delivered'[e] = delivered[e]
    PROVE  ChannelStep(e)
<1>1. Other(e) \in Ends /\ store[Other(e)] \in Seq(MsgType)
  BY TypeOfEnds
<1>2. store'[Other(e)] \in Seq(MsgType) /\ Extends(store[Other(e)], store'[Other(e)])
  BY <1>1 DEF EndsKept, DataTypes
<1> DEFINE a == store[Other(e)]
           b == store'[Other(e)]
<1>3. a = b \/ (Len(a) < Len(b) /\ \A n \in DOMAIN a : b[n] = a[n])
  <2> HIDE DEF a, b
  <2>1. a \in Seq(MsgType) /\ b \in Seq(MsgType) /\ Extends(a, b)
    BY <1>1, <1>2 DEF a, b
  <2> QED BY <2>1, ExtendsIsLonger
<1> QED BY <1>3 DEF ChannelStep, SendStep

(* A message that is handed to the callbacks was sent under its number, is *)
(* a business message and is later than all that they saw.                 *)
LEMMA FirstIsNext ==
    ASSUME TypeOK, NEW e \in Ends, EndOK(e), EndOK(Other(e)), wire[e] # <<>>,
           ~IsHigh(session[e], Message1(e)), ~IsLow(session[e], Message1(e)),
           Message1(e).type = "APP"
    PROVE  /\ Message1(e).seq \in DOMAIN store[Other(e)]
           /\ store[Other(e)][Message1(e).seq] = "APP"
           /\ \A i \in DOMAIN delivered[e] : delivered[e][i] < Message1(e).seq
<1> DEFINE m == Message1(e)
           s == session[e]
<1>1. s \in Session /\ delivered[e] \in Seq(Nat)
  BY TypeOfEnds
<1>2. m \in Message /\ Faithful(m, store[Other(e)], session[Other(e)], s)
  BY FirstMessage
<1>3. Original(m, store[Other(e)], session[Other(e)], s)
  BY <1>2 DEF Faithful, HardReset, GapFill
<1>4. m.seq = Expected(s)
  BY <1>1, <1>2, InOrderNumber DEF is_a_hard_sequence_reset_message
<1>5. s.incoming_seq_no \in Nat /\ Expected(s) = s.incoming_seq_no + 1
  BY <1>1, SessionNumbers
<1>6. /\ \A i \in DOMAIN delivered[e] : delivered[e][i] \in Nat
      /\ Ordered(delivered[e], s.incoming_seq_no)
  BY <1>1, SeqDomain DEF EndOK
<1>7. \A i \in DOMAIN delivered[e] : delivered[e][i] < m.seq
  BY <1>4, <1>5, <1>6 DEF Ordered
<1> QED BY <1>3, <1>7 DEF Original

LEMMA ReceiveStep ==
    ASSUME TypeOK, \A f \in Ends : EndOK(f), EndsKept, NEW e \in Ends, wire[e] # <<>>,
           ~IsHigh(session[e], Message1(e)), ~IsLow(session[e], Message1(e)),
           NEW y, Install(e, y, Rest(e)), Deliver(e, Message1(e))
    PROVE  \A f \in Ends : ChannelStep(f)
<1> DEFINE o == Other(e)
           n == Message1(e).seq
<1>1. o \in Ends /\ o # e /\ \A f \in Ends : f = e \/ f = o
  BY TypeOfEnds
<1>2. store'[o] = store[o]
  BY <1>1 DEF Install, TypeOK
<1>3. CASE Message1(e).type = "APP"
  <2>1. /\ n \in DOMAIN store[o] /\ store[o][n] = "APP"
        /\ \A i \in DOMAIN delivered[e] : delivered[e][i] < n
    BY <1>1, <1>3, FirstIsNext
  <2>2. delivered' = [delivered EXCEPT ![e] = Append(delivered[e], n)]
    BY <1>3 DEF Deliver
  <2>3. delivered'[e] = Append(delivered[e], n) /\ delivered'[o] = delivered[o]
    BY <1>1, <2>2 DEF TypeOK
  <2>4. ChannelStep(e)
    <3> HIDE DEF n
    <3> QED BY <1>2, <2>1, <2>3 DEF ChannelStep, DeliverStep
  <2>5. ChannelStep(o)
    BY <1>1, <2>3, SilentStep
  <2> QED BY <1>1, <2>4, <2>5
<1>4. CASE Message1(e).type # "APP"
  <2>1. delivered' = delivered
    BY <1>4 DEF Deliver
  <2> QED BY <2>1, SilentStep
<1> QED BY <1>3, <1>4

LEMMA NextIsChannelStep ==
    ASSUME TypeOK, Connection, \A f \in Ends : EndOK(f), Next
    PROVE  \A f \in Ends : ChannelStep(f)
<1>1. EndsKept
  BY NextKeepsEnds
<1>2. CASE delivered' = delivered
  BY <1>1, <1>2, SilentStep
<1>3. CASE client_receive
  <2> DEFINE e == "client"
  <2>1. e \in Ends /\ wire[e] # <<>>
    BY <1>3, EndNames DEF client_receive
  <2>2. \/ delivered' = delivered
        \/ /\ ~IsHigh(session[e], Message1(e)) /\ ~IsLow(session[e], Message1(e))
           /\ \E y : Install(e, y, Rest(e))
           /\ Deliver(e, Message1(e))
    BY <1>3 DEF client_receive
  <2> HIDE DEF e
  <2> QED BY <1>1, <1>2, <2>1, <2>2, ReceiveStep
<1>4. CASE server_receive
  <2> DEFINE e == "server"
  <2>1. e \in Ends /\ wire[e] # <<>>
    BY <1>4, EndNames DEF server_receive
  <2>2. \/ delivered' = delivered
        \/ /\ ~IsHigh(session[e], Message1(e)) /\ ~IsLow(session[e], Message1(e))
           /\ \E y : Install(e, y, Rest(e))
           /\ Deliver(e, Message1(e))
    BY <1>4 DEF server_receive
  <2> HIDE DEF e
  <2> QED BY <1>1, <1>2, <2>1, <2>2, ReceiveStep
<1>5. CASE \/ connect \/ logon_timeout \/ shutdown \/ begin_logout \/ finish_logout
           \/ connection_breaks \/ on_connection_lost \/ on_client_disconnected
           \/ server_logon
  <2>1. delivered' = delivered
    BY <1>5 DEF connect, logon_timeout, shutdown, begin_logout, finish_logout, connection_breaks,
                on_connection_lost, on_client_disconnected, server_logon
  <2> QED BY <1>2, <2>1
<1>6. ASSUME NEW e \in Ends,
             \/ process(e) \/ resend_request_expires(e)
             \/ restart(e) \/ restart_after_counting(e)
             \/ send_business_message(e) \/ send_heartbeat(e)
      PROVE  \A f \in Ends : ChannelStep(f)
  <2>1. delivered' = delivered
    BY <1>6 DEF process, resend_request_expires, restart, restart_after_counting,
                Restarted, send_business_message, send_heartbeat
  <2> QED BY <1>2, <2>1
<1> QED BY <1>3, <1>4, <1>5, <1>6 DEF Next

LEMMA ToClientStep == Inv /\ [Next]_vars => [ToClient!Next]_ToClient!vars
<1> SUFFICES ASSUME Inv, [Next]_vars PROVE [ToClient!Next]_ToClient!vars
  OBVIOUS
<1>1. Other("client") = "server" /\ "client" \in Ends
  BY EndNames
<1>2. ChannelStep("client")
  <2>1. CASE Next
    BY <1>1, <2>1, NextIsChannelStep DEF Inv
  <2>2. CASE UNCHANGED vars
    BY <2>2 DEF vars, ChannelStep
  <2> QED BY <2>1, <2>2
<1>3. CASE SendStep("client")
  <2>1. ToClient!Send
    BY <1>1, <1>3 DEF SendStep, ToClient!Send
  <2> QED BY <2>1 DEF ToClient!Next
<1>4. CASE DeliverStep("client")
  <2>1. \E n \in DOMAIN store["server"] : ToClient!Deliver(n)
    BY <1>1, <1>4 DEF DeliverStep, ToClient!Deliver
  <2> QED BY <2>1 DEF ToClient!Next
<1>5. CASE store'["server"] = store["server"] /\ delivered'["client"] = delivered["client"]
  BY <1>5 DEF ToClient!vars
<1> QED BY <1>1, <1>2, <1>3, <1>4, <1>5 DEF ChannelStep

LEMMA ToServerStep == Inv /\ [Next]_vars => [ToServer!Next]_ToServer!vars
<1> SUFFICES ASSUME Inv, [Next]_vars PROVE [ToServer!Next]_ToServer!vars
  OBVIOUS
<1>1. Other("server") = "client" /\ "server" \in Ends
  BY EndNames
<1>2. ChannelStep("server")
  <2>1. CASE Next
    BY <1>1, <2>1, NextIsChannelStep DEF Inv
  <2>2. CASE UNCHANGED vars
    BY <2>2 DEF vars, ChannelStep
  <2> QED BY <2>1, <2>2
<1>3. CASE SendStep("server")
  <2>1. ToServer!Send
    BY <1>1, <1>3 DEF SendStep, ToServer!Send
  <2> QED BY <2>1 DEF ToServer!Next
<1>4. CASE DeliverStep("server")
  <2>1. \E n \in DOMAIN store["client"] : ToServer!Deliver(n)
    BY <1>1, <1>4 DEF DeliverStep, ToServer!Deliver
  <2> QED BY <2>1 DEF ToServer!Next
<1>5. CASE store'["client"] = store["client"] /\ delivered'["server"] = delivered["server"]
  BY <1>5 DEF ToServer!vars
<1> QED BY <1>1, <1>2, <1>3, <1>4, <1>5 DEF ChannelStep

(* Each direction of the session implements BusinessChannel, whatever the  *)
(* bounds and the settings are: what an end stored under a number is never *)
(* replaced, and process_incoming_fix_message hands on only messages that  *)
(* the other end sent as business messages under that number, each later   *)
(* than all before.                                                        *)
THEOREM LinkImplementsChannels == Spec => ImplementsChannels
<1>1. Init => ToClient!Init /\ ToServer!Init
  BY EndNames DEF Init, ToClient!Init, ToServer!Init
<1>2. Inv /\ [Next]_vars => [ToClient!Next]_ToClient!vars
  BY ToClientStep
<1>3. Inv /\ [Next]_vars => [ToServer!Next]_ToServer!vars
  BY ToServerStep
<1> QED BY <1>1, <1>2, <1>3, LinkInvariance, PTL
        DEF Spec, ImplementsChannels, ToClient!Spec, ToServer!Spec
=============================================================================
