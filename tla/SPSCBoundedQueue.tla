-------------------------- MODULE SPSCBoundedQueue --------------------------
(***************************************************************************)
(* core/utilities/spsc_bounded_queue.h: the lock-free queue through which  *)
(* the management thread (producer) hands administrative commands to the   *)
(* thread that runs a FIX session (consumer).                              *)
(*                                                                         *)
(* Every access to memory the other thread also touches is a step of its   *)
(* own.  Each side works on a cached copy of the other side's index and    *)
(* refreshes it only when the cached copy makes the queue look full (or    *)
(* empty).  A load with acquire ordering need not return the newest store: *)
(* it returns any value the index has had since the value this side read   *)
(* last, which is what the C++ memory model promises (coherence).          *)
(***************************************************************************)
EXTENDS Naturals, Sequences

CONSTANTS
    m_capacity,  \* number of slots, create(capacity)
    Value,       \* the values pushed
    MaxPushes    \* bound on the number of pushes

ASSUME CapacityAssumption == m_capacity \in Nat \ {0}
ASSUME MaxPushesAssumption == MaxPushes \in Nat

VARIABLES
    m_write_index,         \* stored by the producer
    m_read_index,          \* stored by the consumer
    m_cached_read_index,   \* the producer's copy of m_read_index
    m_cached_write_index,  \* the consumer's copy of m_write_index
    buffer,                \* the slots
    p_pc, val,             \* the producer: where it is in push, its argument
    c_pc, element          \* the consumer: where it is in try_pop, its result

producer == <<m_write_index, m_cached_read_index, p_pc, val>>
consumer == <<m_read_index, m_cached_write_index, c_pc, element>>
vars == <<m_write_index, m_read_index, m_cached_read_index,
          m_cached_write_index, buffer, p_pc, val, c_pc, element>>

Slots == 0 .. m_capacity - 1

modulo_capacity(input) == input - (input \div m_capacity) * m_capacity

Init ==
    /\ m_write_index = 0 /\ m_read_index = 0
    /\ m_cached_read_index = 0 /\ m_cached_write_index = 0
    /\ buffer \in [Slots -> Value]         \* the slots are not initialised
    /\ p_pc = "idle" /\ val \in Value
    /\ c_pc = "idle" /\ element \in Value

-----------------------------------------------------------------------------
(* Producer: push(v) spins on try_push until it succeeds.                  *)

push(v) ==
    /\ p_pc = "idle" /\ m_write_index < MaxPushes
    /\ p_pc' = "trying" /\ val' = v
    /\ UNCHANGED <<m_write_index, m_cached_read_index, buffer, consumer>>

(* Mutants: the load is forgotten; the free space is counted twice.        *)
SyncedReadIndexStale(r) == m_cached_read_index
SyncedReadIndexShifted(r) ==
    IF m_write_index - m_cached_read_index >= m_capacity
    THEN r - m_capacity ELSE m_cached_read_index

(* The copy the producer works with after its load of m_read_index: r is   *)
(* the value the load returns, when the cached copy says "full".           *)
SyncedReadIndex(r) ==
    IF m_write_index - m_cached_read_index >= m_capacity
    THEN r ELSE m_cached_read_index

(* Mutant: one value too many is let in.                                   *)
try_push_check_overfull(r) ==
    /\ p_pc = "trying"
    /\ r \in m_cached_read_index .. m_read_index
    /\ m_cached_read_index' = SyncedReadIndex(r)
    /\ p_pc' = IF m_write_index > m_cached_read_index' + m_capacity
               THEN "trying" ELSE "storing"
    /\ UNCHANGED <<m_write_index, val, buffer, consumer>>

try_push_check(r) ==
    /\ p_pc = "trying"
    /\ r \in m_cached_read_index .. m_read_index
    /\ m_cached_read_index' = SyncedReadIndex(r)
    /\ p_pc' = IF m_write_index = m_cached_read_index' + m_capacity
               THEN "trying"               \* full: push calls try_push again
               ELSE "storing"
    /\ UNCHANGED <<m_write_index, val, buffer, consumer>>

(* Mutant: the slot after the one that is published.                       *)
try_push_store_ahead ==
    /\ p_pc = "storing" /\ p_pc' = "publishing"
    /\ buffer' = [buffer EXCEPT ![modulo_capacity(m_write_index + 1)] = val]
    /\ UNCHANGED <<m_write_index, m_cached_read_index, val, consumer>>

try_push_store ==
    /\ p_pc = "storing" /\ p_pc' = "publishing"
    /\ buffer' = [buffer EXCEPT ![modulo_capacity(m_write_index)] = val]
    /\ UNCHANGED <<m_write_index, m_cached_read_index, val, consumer>>

try_push_publish ==
    /\ p_pc = "publishing" /\ p_pc' = "idle"
    /\ m_write_index' = m_write_index + 1
    /\ UNCHANGED <<m_cached_read_index, val, buffer, consumer>>

-----------------------------------------------------------------------------
(* Consumer: try_pop returns at once when the queue is empty.              *)

(* Mutant: the load is forgotten.                                          *)
SyncedWriteIndexStale(w) == m_cached_write_index

SyncedWriteIndex(w) ==
    IF m_read_index = m_cached_write_index THEN w ELSE m_cached_write_index

(* Mutant: an empty queue is read.                                         *)
try_pop_check_unchecked(w) ==
    /\ c_pc = "idle"
    /\ w \in m_cached_write_index .. m_write_index
    /\ m_cached_write_index' = SyncedWriteIndex(w)
    /\ c_pc' = "reading"
    /\ UNCHANGED <<m_read_index, element, buffer, producer>>

try_pop_check(w) ==
    /\ c_pc = "idle"
    /\ w \in m_cached_write_index .. m_write_index
    /\ m_cached_write_index' = SyncedWriteIndex(w)
    /\ c_pc' = IF m_read_index = m_cached_write_index' THEN "idle" ELSE "reading"
    /\ UNCHANGED <<m_read_index, element, buffer, producer>>

try_pop_read ==
    /\ c_pc = "reading" /\ c_pc' = "releasing"
    /\ element' = buffer[modulo_capacity(m_read_index)]
    /\ UNCHANGED <<m_read_index, m_cached_write_index, buffer, producer>>

try_pop_release ==
    /\ c_pc = "releasing" /\ c_pc' = "idle"
    /\ m_read_index' = m_read_index + 1
    /\ UNCHANGED <<m_cached_write_index, element, buffer, producer>>

Produce == (\E r \in 0 .. m_read_index : try_push_check(r))
           \/ try_push_store \/ try_push_publish
Consume == (\E w \in 0 .. m_write_index : try_pop_check(w))
           \/ try_pop_read \/ try_pop_release
Next == (\E v \in Value : push(v)) \/ Produce \/ Consume

(* The session's thread keeps calling process(), so try_pop is called for  *)
(* ever; a store becomes visible to the other thread in finite time.       *)
Fairness ==
    /\ WF_vars(try_push_check(m_read_index))
    /\ WF_vars(try_push_store) /\ WF_vars(try_push_publish)
    /\ WF_vars(try_pop_check(m_write_index))
    /\ WF_vars(try_pop_read) /\ WF_vars(try_pop_release)

Spec == Init /\ [][Next]_vars
FairSpec == Spec /\ Fairness

-----------------------------------------------------------------------------
(* Properties                                                              *)

TypeOK ==
    /\ m_write_index \in Nat /\ m_read_index \in Nat
    /\ m_cached_read_index \in Nat /\ m_cached_write_index \in Nat
    /\ buffer \in [Slots -> Value]
    /\ p_pc \in {"idle", "trying", "storing", "publishing"} /\ val \in Value
    /\ c_pc \in {"idle", "reading", "releasing"} /\ element \in Value

(* The plain (non-atomic) accesses to the slots never race: while try_push *)
(* is about to overwrite a slot, try_pop is not about to read that slot.   *)
NoSlotRace ==
    p_pc = "storing" /\ c_pc = "reading" =>
        modulo_capacity(m_write_index) # modulo_capacity(m_read_index)

(* The abstract queue: the values between the consumer's position and the  *)
(* producer's.  A value leaves it when the consumer has copied it.         *)
ReadPosition == IF c_pc = "releasing" THEN m_read_index + 1 ELSE m_read_index

AbstractQueue ==
    [i \in 1 .. (m_write_index - ReadPosition) |->
        buffer[modulo_capacity(ReadPosition + i - 1)]]

AbstractTaken ==
    IF ReadPosition = 0 THEN <<0>> ELSE <<ReadPosition, element>>

Fifo == INSTANCE BoundedFifo
            WITH Capacity <- m_capacity, queue <- AbstractQueue,
                 taken <- AbstractTaken

(* The lock-free queue implements the bounded FIFO queue: no value is      *)
(* lost, duplicated, reordered or torn, and never more than m_capacity of  *)
(* them are held, whatever the two threads' interleaving and however stale *)
(* the cached indices are.                                                 *)
ImplementsFifo == Fifo!Spec

(* A push that started always returns, and every value that was published  *)
(* is eventually taken: the spinning producer and the polling consumer     *)
(* never wait for each other.                                              *)
PushReturns == p_pc = "trying" ~> p_pc = "idle"
Drained == <>[](m_read_index = m_write_index)

(* What makes the above inductive: how far each cached copy may lag, and   *)
(* what each side knows after its check.                                   *)
IndexOrder ==
    /\ m_cached_read_index <= m_read_index
    /\ m_read_index <= m_cached_write_index
    /\ m_cached_write_index <= m_write_index
    /\ m_write_index <= m_cached_read_index + m_capacity
    /\ p_pc \in {"storing", "publishing"} =>
           m_write_index < m_cached_read_index + m_capacity
    /\ p_pc = "publishing" => buffer[modulo_capacity(m_write_index)] = val
    /\ c_pc \in {"reading", "releasing"} => m_read_index < m_cached_write_index
=============================================================================
