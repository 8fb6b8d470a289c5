----------------------- MODULE SPSCBoundedQueueProofs -----------------------
(***************************************************************************)
(* Proofs about SPSCBoundedQueue for every capacity, every set of values   *)
(* and every number of pushes.                                             *)
(***************************************************************************)
EXTENDS SPSCBoundedQueue, SequenceTheorems, TLAPS

(* What the steps preserve: the types and the order of the four indices.   *)
Inv == TypeOK /\ IndexOrder

-----------------------------------------------------------------------------
(* A position is mapped into the buffer.                                   *)
LEMMA ModuloInRange ==
    ASSUME NEW n \in Nat PROVE modulo_capacity(n) \in Slots
<1>1. n = m_capacity * (n \div m_capacity) + (n % m_capacity)
      /\ n % m_capacity \in 0 .. m_capacity - 1 /\ n \div m_capacity \in Nat
  BY CapacityAssumption
<1> QED BY <1>1, CapacityAssumption DEF modulo_capacity, Slots

(* Two positions less than the capacity apart never share a slot.          *)
LEMMA ModuloDistinct ==
    ASSUME NEW i \in Nat, NEW j \in Nat, i < j, j < i + m_capacity
    PROVE  modulo_capacity(i) # modulo_capacity(j)
<1> DEFINE qi == i \div m_capacity
           qj == j \div m_capacity
<1>1. qi \in Nat /\ qj \in Nat
  BY CapacityAssumption
<1>2. SUFFICES ASSUME modulo_capacity(i) = modulo_capacity(j) PROVE FALSE
  OBVIOUS
<1>3. j - i = (qj - qi) * m_capacity
  BY <1>1, <1>2, CapacityAssumption DEF modulo_capacity
<1>4. CASE qj - qi <= 0
  <2>1. (qj - qi) * m_capacity <= 0
    BY <1>1, <1>4, CapacityAssumption
  <2> QED BY <1>1, <1>3, <2>1, CapacityAssumption
<1>5. CASE qj - qi >= 1
  <2>1. (qj - qi) * m_capacity >= m_capacity
    BY <1>1, <1>5, CapacityAssumption
  <2> QED BY <1>1, <1>3, <2>1, CapacityAssumption
<1> QED BY <1>1, <1>4, <1>5

-----------------------------------------------------------------------------
LEMMA InitInv == Init => Inv
  BY CapacityAssumption DEF Init, Inv, TypeOK, IndexOrder

(* Every step of either thread preserves the invariant.                    *)
LEMMA NextInv == Inv /\ [Next]_vars => Inv'
<1> SUFFICES ASSUME Inv, [Next]_vars PROVE Inv'
  OBVIOUS
<1> USE CapacityAssumption DEF Inv, TypeOK, IndexOrder
<1>1. ASSUME NEW v \in Value, push(v) PROVE Inv'
  BY <1>1 DEF push, consumer
<1>2. ASSUME NEW r \in 0 .. m_read_index, try_push_check(r) PROVE Inv'
  BY <1>2 DEF try_push_check, SyncedReadIndex, consumer
<1>3. CASE try_push_store
  <2>1. modulo_capacity(m_write_index) \in Slots
    BY ModuloInRange
  <2> QED BY <1>3, <2>1 DEF try_push_store, consumer
<1>4. CASE try_push_publish
  BY <1>4 DEF try_push_publish, consumer
<1>5. ASSUME NEW w \in 0 .. m_write_index, try_pop_check(w) PROVE Inv'
  BY <1>5 DEF try_pop_check, SyncedWriteIndex, producer
<1>6. CASE try_pop_read
  <2>1. modulo_capacity(m_read_index) \in Slots
    BY ModuloInRange
  <2> QED BY <1>6, <2>1 DEF try_pop_read, producer
<1>7. CASE try_pop_release
  BY <1>7 DEF try_pop_release, producer
<1>8. CASE UNCHANGED vars
  BY <1>8 DEF vars
<1> QED
  BY <1>1, <1>2, <1>3, <1>4, <1>5, <1>6, <1>7, <1>8 DEF Next, Produce, Consume

(* The invariant holds in every state.                                     *)
THEOREM Invariance == Spec => []Inv
  BY InitInv, NextInv, PTL DEF Spec

(* Types, for every capacity.                                              *)
THEOREM TypeCorrect == Spec => []TypeOK
<1>1. Inv => TypeOK
  BY DEF Inv
<1> QED BY <1>1, Invariance, PTL

(* Indices, for every capacity: the cached copies lag behind the indices   *)
(* they copy, and the producer never gets a capacity ahead.                *)
THEOREM IndicesOrdered == Spec => []IndexOrder
<1>1. Inv => IndexOrder
  BY DEF Inv
<1> QED BY <1>1, Invariance, PTL

(* The producer never writes the slot that the consumer reads.             *)
THEOREM RaceFree == Spec => []NoSlotRace
<1>1. Inv => NoSlotRace
  <2> SUFFICES ASSUME Inv, p_pc = "storing", c_pc = "reading"
               PROVE  modulo_capacity(m_write_index) # modulo_capacity(m_read_index)
    BY DEF NoSlotRace
  <2>1. m_read_index \in Nat /\ m_write_index \in Nat
    BY DEF Inv, TypeOK
  <2>2. m_read_index < m_write_index /\ m_write_index < m_read_index + m_capacity
    BY CapacityAssumption DEF Inv, TypeOK, IndexOrder
  <2> QED BY <2>1, <2>2, ModuloDistinct
<1> QED BY <1>1, Invariance, PTL

-----------------------------------------------------------------------------
(* The queue implements the FIFO queue.  Window(b, lo, hi) is what the     *)
(* buffer b holds for the positions from lo to hi - 1.                     *)
Window(b, lo, hi) == [i \in 1 .. hi - lo |-> b[modulo_capacity(lo + i - 1)]]

LEMMA WindowIsSeq ==
    ASSUME NEW b \in [Slots -> Value], NEW lo \in Nat, NEW hi \in Nat, lo <= hi
    PROVE  /\ Window(b, lo, hi) \in Seq(Value)
           /\ Len(Window(b, lo, hi)) = hi - lo
           /\ \A i \in 1 .. hi - lo :
                 Window(b, lo, hi)[i] = b[modulo_capacity(lo + i - 1)]
<1>1. ASSUME NEW i \in 1 .. hi - lo PROVE b[modulo_capacity(lo + i - 1)] \in Value
  <2>1. lo + i - 1 \in Nat
    OBVIOUS
  <2> QED BY <2>1, ModuloInRange
<1>0. hi - lo \in Nat
  OBVIOUS
<1>2. Window(b, lo, hi) \in [1 .. hi - lo -> Value]
  BY <1>1 DEF Window
<1>3. Window(b, lo, hi) \in Seq(Value)
  BY <1>0, <1>2, SeqDef
<1>4. DOMAIN Window(b, lo, hi) = 1 .. hi - lo
  BY DEF Window
<1>5. Len(Window(b, lo, hi)) = hi - lo
  BY <1>0, <1>3, <1>4, LenProperties
<1> QED BY <1>3, <1>5 DEF Window

LEMMA WindowExtend ==
    ASSUME NEW b \in [Slots -> Value], NEW lo \in Nat, NEW hi \in Nat, lo <= hi
    PROVE  Window(b, lo, hi + 1) = Append(Window(b, lo, hi), b[modulo_capacity(hi)])
<1> DEFINE s == Window(b, lo, hi)
           t == Window(b, lo, hi + 1)
           v == b[modulo_capacity(hi)]
<1>1. v \in Value
  BY ModuloInRange
<1>2. /\ s \in Seq(Value) /\ Len(s) = hi - lo
      /\ \A i \in 1 .. hi - lo : s[i] = b[modulo_capacity(lo + i - 1)]
  BY WindowIsSeq
<1>3. /\ t \in Seq(Value) /\ Len(t) = hi + 1 - lo
      /\ \A i \in 1 .. hi + 1 - lo : t[i] = b[modulo_capacity(lo + i - 1)]
  <2> DEFINE next == hi + 1
  <2>1. next \in Nat /\ lo <= next
    OBVIOUS
  <2> HIDE DEF next
  <2>2. /\ Window(b, lo, next) \in Seq(Value)
        /\ Len(Window(b, lo, next)) = next - lo
        /\ \A i \in 1 .. next - lo :
               Window(b, lo, next)[i] = b[modulo_capacity(lo + i - 1)]
    BY <2>1, WindowIsSeq
  <2> QED BY <2>2 DEF next
<1> HIDE DEF s, t, v
<1>4. /\ Append(s, v) \in Seq(Value) /\ Len(Append(s, v)) = Len(s) + 1
      /\ \A i \in 1 .. Len(s) : Append(s, v)[i] = s[i]
      /\ Append(s, v)[Len(s) + 1] = v
  BY <1>1, <1>2, AppendProperties
<1>5. ASSUME NEW i \in 1 .. Len(t) PROVE t[i] = Append(s, v)[i]
  <2>1. CASE i = hi + 1 - lo
    <3>1. lo + i - 1 = hi
      BY <2>1
    <3> QED BY <1>2, <1>3, <1>4, <2>1, <3>1 DEF v
  <2>2. CASE i # hi + 1 - lo
    <3>1. i \in 1 .. hi - lo
      BY <1>3, <2>2
    <3> QED BY <1>2, <1>3, <1>4, <3>1
  <2> QED BY <2>1, <2>2
<1>6. t = Append(s, v)
  BY <1>2, <1>3, <1>4, <1>5, SeqEqual
<1> QED BY <1>6 DEF s, t, v

LEMMA WindowShrink ==
    ASSUME NEW b \in [Slots -> Value], NEW lo \in Nat, NEW hi \in Nat, lo < hi
    PROVE  /\ Window(b, lo, hi) # <<>>
           /\ Head(Window(b, lo, hi)) = b[modulo_capacity(lo)]
           /\ Tail(Window(b, lo, hi)) = Window(b, lo + 1, hi)
<1> DEFINE s == Window(b, lo, hi)
           t == Window(b, lo + 1, hi)
<1>1. /\ s \in Seq(Value) /\ Len(s) = hi - lo
      /\ \A i \in 1 .. hi - lo : s[i] = b[modulo_capacity(lo + i - 1)]
  BY WindowIsSeq
<1>2. /\ t \in Seq(Value) /\ Len(t) = hi - (lo + 1)
      /\ \A i \in 1 .. hi - (lo + 1) : t[i] = b[modulo_capacity(lo + 1 + i - 1)]
  <2>1. lo + 1 \in Nat /\ lo + 1 <= hi
    OBVIOUS
  <2> QED BY <2>1, WindowIsSeq
<1> HIDE DEF s, t
<1>3. s # <<>>
  BY <1>1, EmptySeq
<1>4. Head(s) = b[modulo_capacity(lo)]
  <2>1. Head(s) = s[1]
    BY <1>1, <1>3
  <2>2. s[1] = b[modulo_capacity(lo + 1 - 1)] /\ lo + 1 - 1 = lo
    BY <1>1
  <2> QED BY <2>1, <2>2
<1>5. /\ Tail(s) \in Seq(Value) /\ Len(Tail(s)) = Len(s) - 1
      /\ \A i \in 1 .. Len(Tail(s)) : Tail(s)[i] = s[i + 1]
  BY <1>1, <1>3, HeadTailProperties
<1>6. ASSUME NEW i \in 1 .. Len(t) PROVE t[i] = Tail(s)[i]
  <2>1. i + 1 \in 1 .. hi - lo /\ lo + 1 + i - 1 = lo + (i + 1) - 1
    BY <1>2
  <2> QED BY <1>1, <1>2, <1>5, <2>1
<1>7. Tail(s) = t
  BY <1>1, <1>2, <1>5, <1>6, SeqEqual
<1> QED BY <1>3, <1>4, <1>7 DEF s, t

(* Filling a slot that no position of the window uses changes nothing.     *)
LEMMA WindowUntouched ==
    ASSUME NEW b \in [Slots -> Value], NEW lo \in Nat, NEW hi \in Nat,
           lo <= hi, hi < lo + m_capacity, NEW v \in Value
    PROVE  Window([b EXCEPT ![modulo_capacity(hi)] = v], lo, hi) = Window(b, lo, hi)
<1> DEFINE c == [b EXCEPT ![modulo_capacity(hi)] = v]
<1>1. ASSUME NEW i \in 1 .. hi - lo
      PROVE  c[modulo_capacity(lo + i - 1)] = b[modulo_capacity(lo + i - 1)]
  <2>1. /\ lo + i - 1 \in Nat /\ lo + i - 1 < hi
        /\ hi < lo + i - 1 + m_capacity
    BY CapacityAssumption
  <2>2. modulo_capacity(lo + i - 1) # modulo_capacity(hi)
    BY <2>1, ModuloDistinct
  <2>3. modulo_capacity(lo + i - 1) \in Slots
    BY <2>1, ModuloInRange
  <2> QED BY <2>2, <2>3
<1> HIDE DEF c
<1>2. Window(c, lo, hi) = Window(b, lo, hi)
  BY <1>1 DEF Window
<1> QED BY <1>2 DEF c

-----------------------------------------------------------------------------
(* The mapped queue is the window between the two positions.               *)
LEMMA QueueIsWindow ==
    /\ AbstractQueue = Window(buffer, ReadPosition, m_write_index)
    /\ AbstractQueue' = Window(buffer', ReadPosition', m_write_index')
  BY DEF AbstractQueue, Window

LEMMA PositionInRange ==
    ASSUME Inv
    PROVE  /\ ReadPosition \in Nat /\ m_write_index \in Nat
           /\ m_read_index <= ReadPosition /\ ReadPosition <= m_write_index
           /\ m_write_index <= ReadPosition + m_capacity
           /\ p_pc \in {"storing", "publishing"} =>
                  m_write_index < ReadPosition + m_capacity
  BY CapacityAssumption DEF Inv, TypeOK, IndexOrder, ReadPosition

LEMMA InitRefines == Init => Fifo!Init
<1> SUFFICES ASSUME Init PROVE Fifo!Init
  OBVIOUS
<1>1. ReadPosition = 0 /\ m_write_index = 0
  BY DEF Init, ReadPosition
<1>2. AbstractTaken = <<0>>
  BY <1>1 DEF AbstractTaken
<1>3. AbstractQueue = <<>>
  BY <1>1 DEF AbstractQueue
<1> QED BY <1>2, <1>3 DEF Fifo!Init

(* A step that leaves the positions, the buffer and the last value alone   *)
(* leaves the mapped queue alone.                                          *)
LEMMA Stutters ==
    ASSUME UNCHANGED <<m_write_index, m_read_index, buffer, element>>,
           (c_pc = "releasing") = (c_pc' = "releasing")
    PROVE  UNCHANGED Fifo!vars
  BY DEF Fifo!vars, AbstractQueue, AbstractTaken, ReadPosition

LEMMA StepRefines == Inv /\ Inv' /\ [Next]_vars => [Fifo!Next]_Fifo!vars
<1> SUFFICES ASSUME Inv, Inv', [Next]_vars PROVE [Fifo!Next]_Fifo!vars
  OBVIOUS
<1>1. ASSUME NEW v \in Value, push(v) PROVE UNCHANGED Fifo!vars
  BY <1>1, Stutters DEF push, consumer
<1>2. ASSUME NEW r \in 0 .. m_read_index, try_push_check(r) PROVE UNCHANGED Fifo!vars
  BY <1>2, Stutters DEF try_push_check, consumer
<1>3. CASE try_push_store
  <2>1. /\ ReadPosition' = ReadPosition /\ m_write_index' = m_write_index
        /\ AbstractTaken' = AbstractTaken
    BY <1>3 DEF try_push_store, consumer, ReadPosition, AbstractTaken
  <2>2. buffer' = [buffer EXCEPT ![modulo_capacity(m_write_index)] = val]
        /\ p_pc = "storing"
    BY <1>3 DEF try_push_store
  <2>3. buffer \in [Slots -> Value] /\ val \in Value
    BY DEF Inv, TypeOK
  <2>4. Window(buffer', ReadPosition, m_write_index)
            = Window(buffer, ReadPosition, m_write_index)
    BY <2>2, <2>3, PositionInRange, WindowUntouched
  <2> QED BY <2>1, <2>4, QueueIsWindow DEF Fifo!vars
<1>4. CASE try_push_publish
  <2>1. /\ ReadPosition' = ReadPosition /\ m_write_index' = m_write_index + 1
        /\ AbstractTaken' = AbstractTaken /\ buffer' = buffer
        /\ p_pc = "publishing"
    BY <1>4 DEF try_push_publish, consumer, ReadPosition, AbstractTaken
  <2>2. /\ buffer \in [Slots -> Value] /\ val \in Value
        /\ buffer[modulo_capacity(m_write_index)] = val
    BY <2>1 DEF Inv, TypeOK, IndexOrder
  <2>3. AbstractQueue' = Append(AbstractQueue, val)
    BY <2>1, <2>2, PositionInRange, QueueIsWindow, WindowExtend
  <2>4. Len(AbstractQueue) = m_write_index - ReadPosition
    BY <2>2, PositionInRange, QueueIsWindow, WindowIsSeq
  <2>5. Len(AbstractQueue) < m_capacity
    BY <2>1, <2>4, PositionInRange, CapacityAssumption
  <2>6. Fifo!Push(val)
    BY <2>1, <2>3, <2>5 DEF Fifo!Push
  <2> QED BY <2>2, <2>6 DEF Fifo!Next
<1>5. ASSUME NEW w \in 0 .. m_write_index, try_pop_check(w) PROVE UNCHANGED Fifo!vars
  BY <1>5, Stutters DEF try_pop_check, producer
<1>6. CASE try_pop_read
  <2> DEFINE lo == m_read_index
  <2>1. /\ ReadPosition = lo /\ ReadPosition' = lo + 1
        /\ m_write_index' = m_write_index /\ buffer' = buffer
        /\ element' = buffer[modulo_capacity(lo)]
        /\ c_pc = "reading"
    BY <1>6 DEF try_pop_read, producer, ReadPosition
  <2>2. /\ buffer \in [Slots -> Value] /\ lo \in Nat /\ m_write_index \in Nat
        /\ lo < m_write_index
    BY <2>1 DEF Inv, TypeOK, IndexOrder
  <2>3. /\ AbstractQueue # <<>>
        /\ Head(AbstractQueue) = buffer[modulo_capacity(lo)]
        /\ AbstractQueue' = Tail(AbstractQueue)
    BY <2>1, <2>2, QueueIsWindow, WindowShrink
  <2>4. AbstractTaken[1] = lo
    BY <2>1 DEF AbstractTaken
  <2>5. AbstractTaken' = <<lo + 1, buffer[modulo_capacity(lo)]>>
    BY <2>1, <2>2 DEF AbstractTaken
  <2>6. Fifo!Pop
    BY <2>3, <2>4, <2>5 DEF Fifo!Pop
  <2> QED BY <2>6 DEF Fifo!Next
<1>7. CASE try_pop_release
  <2>1. ReadPosition' = ReadPosition /\ AbstractTaken' = AbstractTaken
    BY <1>7 DEF try_pop_release, producer, ReadPosition, AbstractTaken
  <2>2. m_write_index' = m_write_index /\ buffer' = buffer
    BY <1>7 DEF try_pop_release, producer
  <2> QED BY <2>1, <2>2, QueueIsWindow DEF Fifo!vars
<1>8. CASE UNCHANGED vars
  BY <1>8, Stutters DEF vars
<1> QED
  BY <1>1, <1>2, <1>3, <1>4, <1>5, <1>6, <1>7, <1>8 DEF Next, Produce, Consume

(* The lock-free queue implements the bounded FIFO queue: for every        *)
(* capacity, however the two threads' steps interleave and however stale   *)
(* the indices they load are, commands come out once and in order.         *)
THEOREM Refinement == Spec => ImplementsFifo
<1>1. Inv /\ Inv' /\ [Next]_vars => [Fifo!Next]_Fifo!vars
  BY StepRefines
<1>2. Init => Fifo!Init
  BY InitRefines
<1> QED BY <1>1, <1>2, Invariance, PTL DEF Spec, ImplementsFifo, Fifo!Spec
=============================================================================
