-------------------------- MODULE OutgoingLogProofs --------------------------
(***************************************************************************)
(* Proofs about OutgoingLog, for every size of the files and every bound.  *)
(***************************************************************************)
EXTENDS OutgoingLog, WellFoundedInduction, TLAPS

-----------------------------------------------------------------------------
(* The use of numbers                                                      *)

(* A fresh message in hand carries the number after the current one.       *)
NextNumber ==
    pc = "sent" /\ out.fresh => out.seq = outgoing_seq_no + 1 /\ outgoing_seq_no < MaxMessages

(* What has left has a number that was passed, that may belong to two, or  *)
(* is the message in hand, whose number is about to be taken.              *)
InHand(a) == pc = "sent" /\ out.fresh /\ out.sent /\ a = Record(out)
Accounted(a) ==
    /\ a.seq \in Nat
    /\ a.seq <= outgoing_seq_no \/ a.seq \in reusable \/ InHand(a)

NumbersInv ==
    /\ outgoing_seq_no \in Numbers
    /\ NextNumber
    /\ \A a \in transmitted : Accounted(a)
    /\ NumbersNotReused

(* Steps that send nothing new leave the numbers and what has left alone.  *)
LEMMA QuietStep ==
    ASSUME NumbersInv, UNCHANGED <<outgoing_seq_no, transmitted, reusable>>,
           pc # "sent" \/ ~out.fresh \/ ~out.sent,
           pc' # "sent" \/ ~out'.fresh
    PROVE  NumbersInv'
  BY DEF NumbersInv, NextNumber, Accounted, InHand, NumbersNotReused

LEMMA SendNewNumbers ==
    ASSUME NumbersInv, NEW big \in BOOLEAN, NEW sent \in BOOLEAN, SendNew(big, sent)
    PROVE  NumbersInv'
<1> DEFINE new == [seq |-> outgoing_seq_no + 1, id |-> built + 1]
<1>1. /\ pc = "idle" /\ pc' = "sent"
      /\ outgoing_seq_no < MaxMessages /\ outgoing_seq_no \in Nat
      /\ out'.seq = outgoing_seq_no + 1 /\ out'.fresh = TRUE /\ out'.sent = sent
      /\ Record(out)' = new /\ new.seq = outgoing_seq_no + 1
      /\ UNCHANGED <<outgoing_seq_no, reusable>>
      /\ transmitted' = transmitted \cup (IF sent THEN {new} ELSE {})
  BY LogAssumption DEF SendNew, Record, NumbersInv, Numbers
<1> HIDE DEF new
<1>2. \A a \in transmitted : a.seq \in Nat /\ (a.seq <= outgoing_seq_no \/ a.seq \in reusable)
  BY <1>1 DEF NumbersInv, Accounted, InHand
<1>3. NextNumber'
  BY <1>1 DEF NextNumber
<1>4. \A a \in transmitted' : Accounted(a)'
  BY <1>1, <1>2 DEF Accounted, InHand
<1>5. NumbersNotReused'
  <2> SUFFICES ASSUME NEW a \in transmitted', NEW b \in transmitted', a.seq = b.seq, a # b
               PROVE  a.seq \in reusable
    BY <1>1 DEF NumbersNotReused
  <2>1. CASE a \in transmitted /\ b \in transmitted
    BY <2>1 DEF NumbersInv, NumbersNotReused
  <2>2. CASE a = new \/ b = new
    BY <2>2, <1>1, <1>2
  <2> QED BY <2>1, <2>2, <1>1
<1> QED BY <1>1, <1>3, <1>4, <1>5 DEF NumbersInv

LEMMA IncrementNumbers ==
    ASSUME NumbersInv, increment_outgoing_seq_no
    PROVE  NumbersInv'
<1>1. CASE out.fresh /\ out.sent
  <2>1. /\ outgoing_seq_no' = outgoing_seq_no + 1 /\ out.seq = outgoing_seq_no + 1
        /\ outgoing_seq_no' \in Numbers /\ outgoing_seq_no \in Nat
        /\ pc' # "sent" /\ Record(out).seq = out.seq
        /\ UNCHANGED <<transmitted, reusable>>
    BY <1>1, LogAssumption
    DEF increment_outgoing_seq_no, NumbersInv, NextNumber, Numbers, Record
  <2>2. \A a \in transmitted' : Accounted(a)'
    BY <2>1 DEF NumbersInv, Accounted, InHand
  <2> QED BY <2>1, <2>2 DEF NumbersInv, NextNumber, NumbersNotReused
<1>2. CASE ~(out.fresh /\ out.sent)
  BY <1>2, QuietStep DEF increment_outgoing_seq_no
<1> QED BY <1>1, <1>2

LEMMA SetNumbers ==
    ASSUME NumbersInv, NEW n \in Numbers, set_outgoing_seq_no(n)
    PROVE  NumbersInv'
<1>1. /\ pc = "idle" /\ pc' = "idle" /\ outgoing_seq_no' = n
      /\ reusable' = reusable \cup (n + 1 .. MaxMessages + 1)
      /\ transmitted' = transmitted
      /\ n \in Nat /\ outgoing_seq_no \in Nat /\ outgoing_seq_no <= MaxMessages
  BY LogAssumption DEF set_outgoing_seq_no, NumbersInv, Numbers
<1>2. \A a \in transmitted' : Accounted(a)'
  BY <1>1, LogAssumption DEF NumbersInv, Accounted, InHand
<1> QED BY <1>1, <1>2 DEF NumbersInv, NextNumber, NumbersNotReused

LEMMA CrashNumbers ==
    ASSUME NumbersInv, Crash
    PROVE  NumbersInv'
<1>1. /\ pc' = "dead"
      /\ reusable' = reusable \cup (IF pc = "sent" /\ out.fresh /\ out.sent THEN {out.seq} ELSE {})
      /\ UNCHANGED <<outgoing_seq_no, transmitted>>
      /\ Record(out).seq = out.seq
  BY DEF Crash, Die, Record
<1>2. \A a \in transmitted' : Accounted(a)'
  BY <1>1 DEF NumbersInv, Accounted, InHand
<1> QED BY <1>1, <1>2 DEF NumbersInv, NextNumber, NumbersNotReused

LEMMA NumbersStep ==
    ASSUME NumbersInv, [Next]_vars
    PROVE  NumbersInv'
<1>1. CASE \E big, sent \in BOOLEAN : SendNew(big, sent)
  BY <1>1, SendNewNumbers
<1>2. CASE increment_outgoing_seq_no
  BY <1>2, IncrementNumbers
<1>3. CASE \E can_open \in BOOLEAN : WriteLog(can_open)
  BY <1>3, QuietStep DEF WriteLog, Done
<1>4. CASE CountRecord
  BY <1>4, QuietStep DEF CountRecord, Done, history
<1>5. CASE \E begin \in 1 .. MaxMessages, end \in Numbers : RespondToResendRequest(begin, end)
  <2> PICK begin \in 1 .. MaxMessages, end \in Numbers : RespondToResendRequest(begin, end)
    BY <1>5
  <2>1. /\ UNCHANGED <<outgoing_seq_no, transmitted, reusable>> /\ pc = "idle"
        /\ pc' # "sent" \/ ~out'.fresh
    BY DEF RespondToResendRequest
  <2> QED BY <2>1, QuietStep
<1>6. CASE \E sent \in BOOLEAN : ReplayNext(sent)
  <2> PICK sent \in BOOLEAN : ReplayNext(sent)
    BY <1>6
  <2>1. /\ UNCHANGED <<outgoing_seq_no, transmitted, reusable>> /\ pc = "replaying"
        /\ pc' # "sent" \/ ~out'.fresh
    BY DEF ReplayNext, history, Die
  <2> QED BY <2>1, QuietStep
<1>7. CASE ReplayToNobody
  BY <1>7, QuietStep DEF ReplayToNobody, history
<1>8. CASE \E n \in Numbers : set_outgoing_seq_no(n)
  BY <1>8, SetNumbers
<1>9. CASE reinitialise_outgoing_serialiser
  BY <1>9, QuietStep DEF reinitialise_outgoing_serialiser
<1>10. CASE Crash
  BY <1>10, CrashNumbers
<1>11. CASE Restart
  BY <1>11, QuietStep DEF Restart
<1>12. CASE UNCHANGED vars
  BY <1>12 DEF vars, history, NumbersInv, NextNumber, Accounted, InHand, NumbersNotReused
<1> QED
  BY <1>1, <1>2, <1>3, <1>4, <1>5, <1>6, <1>7, <1>8, <1>9, <1>10, <1>11, <1>12 DEF Next

(* Whatever fails, is repeated, renumbered or dies where, two messages     *)
(* leave under one number only when the process died between send and      *)
(* increment_outgoing_seq_no, or the numbers were set back.                *)
THEOREM NumbersUsedOnce == Spec => []NumbersNotReused
<1>1. Init => NumbersInv
  BY LogAssumption
  DEF Init, NumbersInv, NextNumber, Numbers, Accounted, NumbersNotReused
<1>2. NumbersInv /\ [Next]_vars => NumbersInv'
  BY NumbersStep
<1>3. NumbersInv => NumbersNotReused
  BY DEF NumbersInv
<1> QED BY <1>1, <1>2, <1>3, PTL DEF Spec

-----------------------------------------------------------------------------
(* The log                                                                 *)

Message == [seq : Nat, id : Numbers]
File == [count : 0 .. FileSlots, slots : Seq(Message)]

LastFile(l) == l.files[Len(l.files)]

LogShape(l) ==
    /\ l = [files |-> l.files, written |-> l.written, records |-> l.records,
            mapped |-> l.mapped]
    /\ l.files \in Seq(File) /\ Len(l.files) > 0
    /\ \A f \in DOMAIN l.files : Len(l.files[f].slots) \in l.files[f].count .. FileSlots
    /\ l.written \in 0 .. FileSlots /\ l.mapped \in BOOLEAN

(* What every write promises of the files: none disappears and a record    *)
(* that a file counts stays as it is.                                      *)
Keeps(l, k) ==
    \A p \in Counted(l.files) :
        p \in Counted(k.files) /\ MessageAt(k.files, p) = MessageAt(l.files, p)

(* Same files, same promise.                                               *)
LEMMA SameFilesKept ==
    ASSUME NEW l, NEW k, k.files = l.files
    PROVE  Keeps(l, k)
  BY DEF Keeps

LEMMA FileExcept ==
    ASSUME NEW f \in File, NEW s
    PROVE  [f EXCEPT !.slots = s] = [count |-> f.count, slots |-> s]
  BY DEF File

(* The record that was just stored and is not counted yet.                 *)
Pending(l) == <<Len(l.files), l.written + 1>>

(* Store leaves all but the last file alone and in it what it counts.      *)
LEMMA StoreShape ==
    ASSUME NEW l, LogShape(l), NEW m \in Message, NEW seq,
           l.written = LastFile(l).count, l.written < FileSlots
    PROVE  LET k == Store(l, m, seq)
           IN  /\ LogShape(k) /\ Keeps(l, k)
               /\ k.written = l.written /\ k.mapped = l.mapped
               /\ Len(k.files) = Len(l.files)
               /\ LastFile(k).count = LastFile(l).count
               /\ Len(LastFile(k).slots) = l.written + 1
               /\ k.records = insert(l.records, seq, <<Len(l.files), l.written + 1>>)
               /\ Counted(k.files) = Counted(l.files)
               /\ MessageAt(k.files, Pending(k)) = m
<1> DEFINE N == Len(l.files)
           old == l.files[N]
           kept == SubSeq(old.slots, 1, l.written)
           file == [count |-> old.count, slots |-> Append(kept, m)]
           k == Store(l, m, seq)
<1>1. /\ N \in Nat /\ N > 0 /\ DOMAIN l.files = 1 .. N /\ N \in 1 .. N
      /\ FileSlots \in Nat /\ l.written \in Nat
  BY FileAssumption DEF LogShape
<1>2. /\ old \in File /\ old.count \in 0 .. FileSlots /\ old.slots \in Seq(Message)
      /\ Len(old.slots) \in old.count .. FileSlots /\ old.count = l.written
      /\ Len(old.slots) \in Nat
  <2>1. old \in File
    BY <1>1 DEF LogShape
  <2>2. old.count \in 0 .. FileSlots /\ old.slots \in Seq(Message)
    BY <2>1 DEF File
  <2>3. Len(old.slots) \in old.count .. FileSlots
    BY <1>1 DEF LogShape
  <2>4. old.count = l.written
    BY DEF LastFile
  <2>5. Len(old.slots) \in Nat
    BY <2>2
  <2> QED BY <2>1, <2>2, <2>3, <2>4, <2>5
<1>3. kept \in Seq(Message) /\ Len(kept) = l.written
      /\ \A i \in 1 .. l.written : kept[i] = old.slots[i]
  BY <1>1, <1>2
<1>4. /\ file \in File /\ Len(file.slots) = l.written + 1
      /\ file.count = old.count /\ file.slots[l.written + 1] = m
      /\ \A i \in 1 .. l.written : file.slots[i] = old.slots[i]
  BY <1>1, <1>2, <1>3 DEF File
<1>5. k = [files |-> [l.files EXCEPT ![N] = file], written |-> l.written,
           records |-> insert(l.records, seq, <<N, l.written + 1>>), mapped |-> l.mapped]
  <2>1. [old EXCEPT !.slots = Append(kept, m)] = file
    BY <1>2, FileExcept
  <2>2. k = [l EXCEPT !.files = [l.files EXCEPT ![N] = [old EXCEPT !.slots = Append(kept, m)]],
                      !.records = insert(l.records, seq, <<N, l.written + 1>>)]
    BY DEF Store
  <2> QED BY <2>1, <2>2 DEF LogShape
<1> DEFINE files == [l.files EXCEPT ![N] = file]
<1> HIDE DEF file, kept, old, k
<1>6. /\ files \in Seq(File) /\ Len(files) = N /\ files[N] = file
      /\ \A i \in 1 .. N : i # N => files[i] = l.files[i]
  BY <1>1, <1>4 DEF LogShape
<1> HIDE DEF files
<1>7. /\ k.files = files /\ k.written = l.written /\ k.mapped = l.mapped
      /\ k.records = insert(l.records, seq, <<N, l.written + 1>>)
      /\ LastFile(k) = file
  BY <1>5, <1>6 DEF LastFile, files
<1>8. LogShape(k)
  <2>1. \A f \in DOMAIN files : Len(files[f].slots) \in files[f].count .. FileSlots
    <3> SUFFICES ASSUME NEW f \in 1 .. N
                 PROVE  Len(files[f].slots) \in files[f].count .. FileSlots
      BY <1>1, <1>6
    <3>1. CASE f # N
      BY <3>1, <1>1, <1>6 DEF LogShape
    <3>2. CASE f = N
      BY <3>2, <1>1, <1>2, <1>4, <1>6
    <3> QED BY <3>1, <3>2
  <2>2. k = [files |-> k.files, written |-> k.written, records |-> k.records,
             mapped |-> k.mapped]
    BY <1>5
  <2> QED BY <2>1, <2>2, <1>1, <1>6, <1>7 DEF LogShape
<1>9. Keeps(l, k)
  <2> SUFFICES ASSUME NEW p \in Counted(l.files)
               PROVE  p \in Counted(files) /\ files[p[1]].slots[p[2]] = l.files[p[1]].slots[p[2]]
    BY <1>7 DEF Keeps, MessageAt
  <2>1. p \in (1 .. N) \X (1 .. FileSlots) /\ p[2] <= l.files[p[1]].count
    BY <1>1 DEF Counted
  <2>2. DOMAIN files = 1 .. N
    BY <1>1, <1>6
  <2>3. CASE p[1] # N
    BY <2>1, <2>2, <2>3, <1>6 DEF Counted
  <2>4. CASE p[1] = N
    <3>1. p[2] \in 1 .. l.written
      BY <2>1, <2>4, <1>1, <1>2 DEF old
    <3>2. file.slots[p[2]] = l.files[p[1]].slots[p[2]]
      BY <3>1, <2>4, <1>4 DEF old
    <3> QED BY <3>1, <3>2, <2>1, <2>2, <2>4, <1>2, <1>4, <1>6 DEF Counted
  <2> QED BY <2>3, <2>4
<1>10. Counted(files) = Counted(l.files)
  <2>1. DOMAIN files = DOMAIN l.files
    BY <1>1, <1>6
  <2>2. \A f \in DOMAIN files : files[f].count = l.files[f].count
    <3> SUFFICES ASSUME NEW f \in 1 .. N PROVE files[f].count = l.files[f].count
      BY <1>1, <2>1
    <3>1. CASE f # N
      BY <1>6, <3>1
    <3>2. CASE f = N
      BY <1>4, <1>6, <3>2 DEF old
    <3> QED BY <3>1, <3>2
  <2> QED BY <2>1, <2>2 DEF Counted
<1>11. MessageAt(k.files, Pending(k)) = m
  BY <1>4, <1>6, <1>7 DEF MessageAt, Pending
<1> QED BY <1>1, <1>4, <1>6, <1>7, <1>8, <1>9, <1>10, <1>11 DEF LastFile, k, old

LEMMA KeepsTransitive ==
    ASSUME NEW l, NEW k, NEW j, Keeps(l, k), Keeps(k, j)
    PROVE  Keeps(l, j)
  BY DEF Keeps

(* A log is a record: EXCEPT changes the field and nothing else.           *)
LEMMA LogExcept ==
    ASSUME NEW l, LogShape(l), NEW fs
    PROVE  /\ [l EXCEPT !.mapped = FALSE]
                 = [files |-> l.files, written |-> l.written, records |-> l.records,
                    mapped |-> FALSE]
           /\ [l EXCEPT !.records = <<>>, !.written = 0]
                 = [files |-> l.files, written |-> 0, records |-> <<>>,
                    mapped |-> l.mapped]
           /\ [l EXCEPT !.files = fs, !.written = 0]
                 = [files |-> fs, written |-> 0, records |-> l.records,
                    mapped |-> l.mapped]
<1>1. l = [files |-> l.files, written |-> l.written, records |-> l.records,
           mapped |-> l.mapped]
  BY DEF LogShape
<1> DEFINE a == l.files
           b == l.written
           c == l.records
           d == l.mapped
           Rec(w, x, y, z) == [files |-> w, written |-> x, records |-> y, mapped |-> z]
<1>2. l = Rec(a, b, c, d)
  BY <1>1
<1> HIDE DEF a, b, c, d
<1>3. \A z : [l EXCEPT !.mapped = z] = Rec(a, b, c, z)
  BY <1>2, SMT
<1>4. [l EXCEPT !.mapped = FALSE] = Rec(a, b, c, FALSE)
  BY <1>3, Zenon
<1>5. [l EXCEPT !.files = fs] = Rec(fs, b, c, d)
  BY <1>2, SMT
<1>6. [Rec(fs, b, c, d) EXCEPT !.written = 0] = Rec(fs, 0, c, d)
  <2>1. \A x : [Rec(fs, b, c, d) EXCEPT !.written = x] = Rec(fs, x, c, d)
    BY SMT
  <2> QED BY <2>1, Zenon
<1>8. [l EXCEPT !.records = <<>>] = Rec(a, b, <<>>, d)
  <2>1. \A y : [l EXCEPT !.records = y] = Rec(a, b, y, d)
    BY <1>2, SMT
  <2> QED BY <2>1, Zenon
<1>9. [Rec(a, b, <<>>, d) EXCEPT !.written = 0] = Rec(a, 0, <<>>, d)
  <2>1. \A x, y : [Rec(a, b, y, d) EXCEPT !.written = x] = Rec(a, x, y, d)
    BY SMT
  <2> QED BY <2>1, Zenon
<1> HIDE DEF Rec
<1>10. [l EXCEPT !.records = <<>>, !.written = 0] = Rec(a, 0, <<>>, d)
  BY <1>8, <1>9
<1>7. [l EXCEPT !.files = fs, !.written = 0] = Rec(fs, 0, c, d)
  BY <1>5, <1>6
<1> QED BY <1>4, <1>7, <1>10 DEF a, b, c, d, Rec

LEMMA SwitchShape ==
    ASSUME NEW l, LogShape(l)
    PROVE  LET k == switch_to_next_memory_mapped_file(l)
           IN  /\ LogShape(k) /\ Keeps(l, k)
               /\ k.written = 0 /\ LastFile(k).count = 0
               /\ k.mapped = l.mapped /\ k.records = l.records
               /\ Len(k.files) = Len(l.files) + 1
               /\ Counted(k.files) = Counted(l.files)
<1> DEFINE k == switch_to_next_memory_mapped_file(l)
           files == Append(l.files, EmptyFile)
           N == Len(l.files)
<1>1. EmptyFile \in File /\ EmptyFile.count = 0 /\ Len(EmptyFile.slots) = 0
  BY FileAssumption DEF EmptyFile, File
<1>2. /\ l.files \in Seq(File) /\ N \in Nat /\ N > 0 /\ DOMAIN l.files = 1 .. N
      /\ FileSlots \in Nat
  BY FileAssumption DEF LogShape
<1>3. /\ files \in Seq(File) /\ Len(files) = N + 1 /\ files[N + 1] = EmptyFile
      /\ \A i \in 1 .. N : files[i] = l.files[i]
      /\ DOMAIN files = 1 .. N + 1
  BY <1>1, <1>2
<1>4. k = [files |-> files, written |-> 0, records |-> l.records, mapped |-> l.mapped]
  BY LogExcept DEF switch_to_next_memory_mapped_file
<1> HIDE DEF files
<1>5. /\ k.files = files /\ k.written = 0 /\ k.records = l.records /\ k.mapped = l.mapped
  BY <1>4
<1>6. \A f \in DOMAIN files : Len(files[f].slots) \in files[f].count .. FileSlots
  <2> SUFFICES ASSUME NEW f \in 1 .. N + 1
               PROVE  Len(files[f].slots) \in files[f].count .. FileSlots
    BY <1>3
  <2>1. CASE f = N + 1
    BY <2>1, <1>1, <1>2, <1>3
  <2>2. CASE f # N + 1
    <3>1. f \in 1 .. N
      BY <2>2, <1>2
    <3>2. Len(l.files[f].slots) \in l.files[f].count .. FileSlots
      BY <3>1, <1>2 DEF LogShape
    <3> QED BY <3>1, <3>2, <1>3
  <2> QED BY <2>1, <2>2
<1>7. LogShape(k)
  BY <1>2, <1>3, <1>4, <1>5, <1>6 DEF LogShape
<1>8. Keeps(l, k)
  BY <1>2, <1>3, <1>5 DEF Keeps, Counted, MessageAt
<1>9. Counted(files) = Counted(l.files)
  <2> SUFFICES ASSUME NEW p PROVE p \in Counted(files) <=> p \in Counted(l.files)
    OBVIOUS
  <2>1. p \in Counted(files) => p[1] # N + 1
    BY <1>1, <1>2, <1>3 DEF Counted
  <2> QED BY <1>2, <1>3, <2>1 DEF Counted
<1> QED BY <1>1, <1>3, <1>5, <1>7, <1>8, <1>9 DEF LastFile

LEMMA WriteShape ==
    ASSUME NEW l, LogShape(l), l.written = LastFile(l).count,
           NEW m \in Message, NEW big, NEW seq, NEW can_open \in BOOLEAN
    PROVE  LET w == write(l, m, big, seq, can_open)
               k == w.log
           IN  /\ LogShape(k) /\ Keeps(l, k)
               /\ k.written = LastFile(k).count
               /\ w.stored \in BOOLEAN
               /\ w.stored => /\ Len(LastFile(k).slots) = k.written + 1
                              /\ k.written < FileSlots
                              /\ k.records = insert(l.records, seq, Pending(k))
                              /\ MessageAt(k.files, Pending(k)) = m
               /\ ~w.stored => k.records = l.records
               /\ Counted(k.files) = Counted(l.files)
<1> DEFINE w == write(l, m, big, seq, can_open)
           next == switch_to_next_memory_mapped_file(l)
<1>1. /\ LogShape(next) /\ Keeps(l, next) /\ next.written = LastFile(next).count
      /\ next.mapped = l.mapped /\ next.records = l.records
      /\ Counted(next.files) = Counted(l.files)
  BY SwitchShape
<1> HIDE DEF next
<1>2. CASE ~l.mapped
  <2>1. w = [log |-> l, stored |-> FALSE]
    BY <1>2 DEF write
  <2> QED BY <2>1, SameFilesKept
<1>3. CASE l.mapped /\ Fits(l, big)
  <2>1. w = [log |-> Store(l, m, seq), stored |-> TRUE]
    BY <1>3 DEF write
  <2>2. l.written < FileSlots
    BY <1>3 DEF Fits
  <2> DEFINE k == Store(l, m, seq)
  <2>3. /\ LogShape(k) /\ Keeps(l, k)
        /\ k.written = l.written
        /\ Len(k.files) = Len(l.files)
        /\ LastFile(k).count = LastFile(l).count
        /\ Len(LastFile(k).slots) = l.written + 1
        /\ k.records = insert(l.records, seq, <<Len(l.files), l.written + 1>>)
        /\ Counted(k.files) = Counted(l.files) /\ MessageAt(k.files, Pending(k)) = m
    BY <2>2, StoreShape
  <2> HIDE DEF k
  <2> QED BY <2>1, <2>2, <2>3 DEF Pending, k
<1>4. CASE l.mapped /\ ~Fits(l, big) /\ ~can_open
  <2>1. w = [log |-> [l EXCEPT !.mapped = FALSE], stored |-> FALSE]
    BY <1>4 DEF write
  <2>2. [l EXCEPT !.mapped = FALSE] = [files |-> l.files, written |-> l.written,
                                       records |-> l.records, mapped |-> FALSE]
    BY LogExcept
  <2> DEFINE k == [files |-> l.files, written |-> l.written,
                   records |-> l.records, mapped |-> FALSE]
  <2>3. /\ k = [files |-> k.files, written |-> k.written, records |-> k.records,
                mapped |-> k.mapped]
        /\ k.files = l.files /\ k.written = l.written /\ k.records = l.records
        /\ k.mapped = FALSE
    OBVIOUS
  <2>4. w.log = k /\ w.stored = FALSE
    BY <2>1, <2>2
  <2> HIDE DEF k, w
  <2>5. LogShape(k)
    BY <2>3 DEF LogShape
  <2> QED BY <2>3, <2>4, <2>5, SameFilesKept DEF LastFile, w
<1>5. CASE l.mapped /\ ~Fits(l, big) /\ can_open /\ Fits(next, big)
  <2>1. w = [log |-> Store(next, m, seq), stored |-> TRUE]
    BY <1>5 DEF write, next
  <2>2. next.written < FileSlots
    BY <1>5 DEF Fits
  <2> DEFINE k == Store(next, m, seq)
  <2>3. /\ LogShape(k) /\ Keeps(next, k)
        /\ k.written = next.written
        /\ Len(k.files) = Len(next.files)
        /\ LastFile(k).count = LastFile(next).count
        /\ Len(LastFile(k).slots) = next.written + 1
        /\ k.records = insert(next.records, seq, <<Len(next.files), next.written + 1>>)
        /\ Counted(k.files) = Counted(next.files) /\ MessageAt(k.files, Pending(k)) = m
    BY <2>2, <1>1, StoreShape
  <2> HIDE DEF k
  <2>4. Keeps(l, k)
    BY <1>1, <2>3, KeepsTransitive
  <2> QED BY <1>1, <2>1, <2>2, <2>3, <2>4 DEF Pending, k
<1>6. CASE l.mapped /\ ~Fits(l, big) /\ can_open /\ ~Fits(next, big)
  <2>1. w = [log |-> next, stored |-> FALSE]
    BY <1>6 DEF write, next
  <2> QED BY <2>1, <1>1
<1> QED BY <1>2, <1>3, <1>4, <1>5, <1>6 DEF LogShape

LEMMA CountShape ==
    ASSUME NEW l, LogShape(l), l.written = LastFile(l).count,
           Len(LastFile(l).slots) > l.written
    PROVE  LET k == update_no_of_messages(l)
           IN  /\ LogShape(k) /\ Keeps(l, k)
               /\ k.written = LastFile(k).count /\ k.records = l.records
               /\ Len(k.files) = Len(l.files)
               /\ Counted(k.files) = Counted(l.files) \cup {Pending(l)}
               /\ MessageAt(k.files, Pending(l)) = MessageAt(l.files, Pending(l))
               /\ \A p \in Counted(l.files) : Before(p, Pending(l))
<1> DEFINE N == Len(l.files)
           old == l.files[N]
           file == [count |-> l.written + 1, slots |-> old.slots]
           files == [l.files EXCEPT ![N] = file]
           k == update_no_of_messages(l)
<1>1. /\ N \in Nat /\ N > 0 /\ DOMAIN l.files = 1 .. N /\ N \in 1 .. N
      /\ FileSlots \in Nat /\ l.written \in Nat /\ l.files \in Seq(File)
  BY FileAssumption DEF LogShape
<1>2. old \in File
  BY <1>1
<1>3. /\ old.slots \in Seq(Message) /\ old = [count |-> old.count, slots |-> old.slots]
      /\ old.count = l.written
      /\ Len(old.slots) \in l.written + 1 .. FileSlots
  <2>1. old.slots \in Seq(Message) /\ old = [count |-> old.count, slots |-> old.slots]
    BY <1>2 DEF File
  <2>2. Len(old.slots) \in old.count .. FileSlots
    BY <1>1 DEF LogShape
  <2> QED BY <2>1, <2>2, <1>1 DEF LastFile
<1>4. file \in File /\ file.count = l.written + 1 /\ file.slots = old.slots
  BY <1>1, <1>3 DEF File
<1>5. k = [files |-> files, written |-> l.written + 1, records |-> l.records,
           mapped |-> l.mapped]
  <2>1. [old EXCEPT !.count = l.written + 1] = file
    BY <1>3
  <2>2. k = [l EXCEPT !.files = [l.files EXCEPT ![N] = [old EXCEPT !.count = l.written + 1]],
                      !.written = l.written + 1]
    BY DEF update_no_of_messages
  <2> QED BY <2>1, <2>2 DEF LogShape
<1> HIDE DEF file, k
<1>6. /\ files \in Seq(File) /\ Len(files) = N /\ files[N] = file /\ DOMAIN files = 1 .. N
      /\ \A i \in 1 .. N : i # N => files[i] = l.files[i]
  BY <1>1, <1>4
<1> HIDE DEF files, old
<1>7. /\ k.files = files /\ k.written = l.written + 1 /\ k.mapped = l.mapped
      /\ k.records = l.records /\ LastFile(k) = file
  BY <1>5, <1>6 DEF LastFile
<1>8. LogShape(k)
  <2>1. \A f \in DOMAIN files : Len(files[f].slots) \in files[f].count .. FileSlots
    <3> SUFFICES ASSUME NEW f \in 1 .. N
                 PROVE  Len(files[f].slots) \in files[f].count .. FileSlots
      BY <1>6
    <3>1. CASE f # N
      BY <3>1, <1>1, <1>6 DEF LogShape
    <3>2. CASE f = N
      BY <3>2, <1>3, <1>4, <1>6
    <3> QED BY <3>1, <3>2
  <2>2. l.written + 1 \in 0 .. FileSlots
    BY <1>1, <1>3
  <2> QED BY <2>1, <2>2, <1>1, <1>5, <1>6, <1>7 DEF LogShape
<1>9. Keeps(l, k)
  <2> SUFFICES ASSUME NEW p \in Counted(l.files)
               PROVE  p \in Counted(files) /\ files[p[1]].slots[p[2]] = l.files[p[1]].slots[p[2]]
    BY <1>7 DEF Keeps, MessageAt
  <2>1. p \in (1 .. N) \X (1 .. FileSlots) /\ p[2] <= l.files[p[1]].count
    BY <1>1 DEF Counted
  <2>2. CASE p[1] # N
    BY <2>1, <2>2, <1>6 DEF Counted
  <2>3. CASE p[1] = N
    BY <2>1, <2>3, <1>1, <1>3, <1>4, <1>6 DEF Counted, old
  <2> QED BY <2>2, <2>3
<1>10. Counted(files) = Counted(l.files) \cup {Pending(l)}
  <2> SUFFICES ASSUME NEW f \in 1 .. N, NEW i \in 1 .. FileSlots
               PROVE  i <= files[f].count
                         <=> i <= l.files[f].count \/ <<f, i>> = <<N, l.written + 1>>
    <3>1. l.written + 1 \in 1 .. FileSlots
      BY <1>1, <1>3
    <3> QED BY <1>1, <1>6, <3>1 DEF Counted, Pending
  <2>1. CASE f # N
    BY <1>6, <2>1
  <2>2. CASE f = N
    BY <1>1, <1>3, <1>4, <1>6, <2>2 DEF old
  <2> QED BY <2>1, <2>2
<1>11. MessageAt(files, Pending(l)) = MessageAt(l.files, Pending(l))
  BY <1>4, <1>6 DEF MessageAt, Pending, old
<1>12. \A p \in Counted(l.files) : Before(p, Pending(l))
  BY <1>1, <1>3 DEF Counted, Pending, Before, old
<1> QED BY <1>4, <1>6, <1>7, <1>8, <1>9, <1>10, <1>11, <1>12 DEF k

LEMMA InitialiseShape ==
    ASSUME NEW l, LogShape(l), NEW r
    PROVE  LET k == initialise(r, l.files)
           IN  /\ LogShape(k) /\ Keeps(l, k) /\ k.files = l.files
               /\ k.written = LastFile(k).count
               /\ k.records = process_existing_buffers(r, l.files)
<1>1. l.files # <<>> /\ l.files \in Seq(File) /\ Len(l.files) \in DOMAIN l.files
  BY DEF LogShape
<1>2. LastFile(l).count \in 0 .. FileSlots
  <2>1. LastFile(l) \in File
    BY <1>1 DEF LastFile
  <2> QED BY <2>1 DEF File
<1>3. initialise(r, l.files) =
          [files |-> l.files, written |-> LastFile(l).count,
           records |-> process_existing_buffers(r, l.files), mapped |-> TRUE]
  BY <1>1 DEF initialise, LastFile
<1> DEFINE k == initialise(r, l.files)
<1>4. /\ k.files = l.files /\ k.written = LastFile(l).count /\ k.mapped = TRUE
      /\ k.records = process_existing_buffers(r, l.files)
  BY <1>3
<1>5. LogShape(k)
  BY <1>2, <1>3, <1>4 DEF LogShape
<1> QED BY <1>4, <1>5, SameFilesKept DEF LastFile

-----------------------------------------------------------------------------
(* The index                                                               *)

LEMMA NatMinimum ==
    ASSUME NEW T, T \subseteq Nat, T # {}
    PROVE  \E x \in T : \A y \in T : x <= y
<1>1. \E x \in T : \A y \in T : ~(<<y, x>> \in OpToRel(<, Nat))
  BY NatLessThanWellFounded, WFMin
<1>2. PICK x \in T : \A y \in T : ~(<<y, x>> \in OpToRel(<, Nat))
  BY <1>1
<1>3. \A y \in T : x <= y
  <2> TAKE y \in T
  <2>1. y \in Nat /\ x \in Nat
    OBVIOUS
  <2>2. OpToRel(<, Nat) = {ss \in Nat \X Nat : ss[1] < ss[2]}
    BY Zenon DEF OpToRel
  <2>3. y < x => <<y, x>> \in {ss \in Nat \X Nat : ss[1] < ss[2]}
    BY <2>1, SMT
  <2>4. ~(y < x)
    BY <1>2, <2>2, <2>3, Zenon
  <2> QED BY <2>1, <2>4, SMT
<1> QED BY <1>3

(* Of the records with a number one is the first of the log, which is what *)
(* the CHOOSE of process_existing_buffers finds.                           *)
LEMMA FirstExists ==
    ASSUME NEW T, T \subseteq Nat \X Nat, T # {}
    PROVE  \E p \in T : \A q \in T : q = p \/ Before(p, q)
<1> DEFINE A == {p[1] : p \in T}
<1>1. PICK a \in A : \A y \in A : a <= y
  <2>1. A \subseteq Nat /\ A # {}
    OBVIOUS
  <2> HIDE DEF A
  <2> QED BY <2>1, NatMinimum
<1> DEFINE B == {p[2] : p \in {q \in T : q[1] = a}}
<1>2. PICK b \in B : \A y \in B : b <= y
  <2>1. B \subseteq Nat /\ B # {}
    BY <1>1
  <2> HIDE DEF B
  <2> QED BY <2>1, NatMinimum
<1>3. PICK p \in T : p[1] = a /\ p[2] = b
  BY <1>2
<1>4. \A q \in T : q = p \/ Before(p, q)
  <2> SUFFICES ASSUME NEW q \in T PROVE q = p \/ Before(p, q)
    OBVIOUS
  <2>1. a <= q[1] /\ (q[1] = a => b <= q[2])
    BY <1>1, <1>2
  <2>2. q \in Nat \X Nat /\ p \in Nat \X Nat
    OBVIOUS
  <2> QED BY <1>3, <2>1, <2>2 DEF Before
<1> QED BY <1>4

LEMMA CountedIsMessage ==
    ASSUME NEW l, LogShape(l), NEW p \in Counted(l.files)
    PROVE  /\ p \in (1 .. Len(l.files)) \X (1 .. FileSlots)
           /\ p[2] \in 1 .. Len(l.files[p[1]].slots)
           /\ MessageAt(l.files, p) \in Message
<1>1. /\ p \in (1 .. Len(l.files)) \X (1 .. FileSlots) /\ p[1] \in DOMAIN l.files
      /\ p[2] <= l.files[p[1]].count /\ FileSlots \in Nat
  BY FileAssumption DEF LogShape, Counted
<1> DEFINE file == l.files[p[1]]
<1>2. file \in File /\ Len(file.slots) \in file.count .. FileSlots
  BY <1>1 DEF LogShape
<1>3. file.slots \in Seq(Message) /\ file.count \in 0 .. FileSlots
  BY <1>2 DEF File
<1>4. p[2] \in 1 .. Len(file.slots)
  BY <1>1, <1>2, <1>3
<1>5. file.slots[p[2]] \in Message
  BY <1>3, <1>4
<1> QED BY <1>1, <1>4, <1>5 DEF MessageAt

Indexed(records, places) == \A n \in DOMAIN records : records[n] \in places

(* The index that is built from the log leads to what the log counts.      *)
LEMMA RebuiltIndex ==
    ASSUME NEW l, LogShape(l), NEW r, Indexed(r, Counted(l.files))
    PROVE  Indexed(process_existing_buffers(r, l.files), Counted(l.files))
<1> DEFINE places == Counted(l.files)
           numbers == {MessageAt(l.files, p).seq : p \in places} \ {0}
           IsFirst(n, p) ==
              /\ MessageAt(l.files, p).seq = n
              /\ \A q \in places : MessageAt(l.files, q).seq = n => q = p \/ Before(p, q)
           First(n) == CHOOSE p \in places : IsFirst(n, p)
<1>1. process_existing_buffers(r, l.files) = insert_all(r, [n \in numbers |-> First(n)])
  BY DEF process_existing_buffers
<1>2. \A n \in numbers : First(n) \in places
  <2> SUFFICES ASSUME NEW n \in numbers PROVE \E p \in places : IsFirst(n, p)
    OBVIOUS
  <2> DEFINE T == {p \in places : MessageAt(l.files, p).seq = n}
  <2>1. T # {}
    OBVIOUS
  <2>2. T \subseteq Nat \X Nat
    BY CountedIsMessage DEF LogShape
  <2>3. PICK p \in T : \A q \in T : q = p \/ Before(p, q)
    <3> HIDE DEF T
    <3> QED BY <2>1, <2>2, FirstExists
  <2> QED BY <2>3
<1> HIDE DEF numbers, First, places
<1>3. \A n \in DOMAIN r \cup numbers :
          (IF n \in DOMAIN r THEN r[n] ELSE [k \in numbers |-> First(k)][n]) \in places
  BY <1>2 DEF Indexed, places
<1> QED BY <1>1, <1>3 DEF insert_all, Indexed, places

LEMMA InsertedIndex ==
    ASSUME NEW r, NEW seq, NEW place, NEW places, Indexed(r, places)
    PROVE  /\ Indexed(insert(r, seq, place), places \cup {place})
           /\ DOMAIN r \subseteq DOMAIN insert(r, seq, place)
  BY DEF insert, insert_all, Indexed

-----------------------------------------------------------------------------
(* The inductive invariant                                                 *)

(* What the index may lead to: records that count and, until it counts,    *)
(* the one that was just stored.                                           *)
Reachable(l, stored) == Counted(l.files) \cup (IF stored THEN {Pending(l)} ELSE {})

FilesInv ==
    /\ LogShape(log) /\ Len(log.files) <= MaxFiles
    /\ pc # "dead" => log.written = LastFile(log).count
    /\ pc = "stored" => Len(LastFile(log).slots) = log.written + 1
    /\ Indexed(log.records, Reachable(log, pc = "stored"))

(* A replay only asks for numbers that are in the index.                   *)
SendInv ==
    /\ out \in Out /\ built \in Numbers
    /\ pc \in {"idle", "sent", "incremented", "stored", "replaying", "dead"}
    /\ replay \in [next : Nat, last : Numbers]
    /\ replay.next .. replay.last \subseteq DOMAIN log.records
    /\ pc \in {"idle", "dead"} => replay.next > replay.last
    /\ pc = "replaying" => replay.next <= replay.last

LogInv == FilesInv /\ SendInv /\ NumbersInv

LEMMA NothingIsOut == Nothing \in Out
  BY LogAssumption DEF Nothing, Out, Numbers

LEMMA NoReplayTyped ==
    /\ NoReplay \in [next : Nat, last : Numbers] /\ NoReplay.next > NoReplay.last
    /\ NoReplay.next .. NoReplay.last = {}
  BY LogAssumption DEF NoReplay, Numbers

(* Steps of other parts of send_bytes leave the log alone.                 *)
LEMMA FilesUntouched ==
    ASSUME FilesInv, UNCHANGED log, pc \notin {"stored", "dead"}, pc' # "stored"
    PROVE  FilesInv' /\ Keeps(log, log')
  BY SameFilesKept DEF FilesInv, Reachable

LEMMA SendNewLog ==
    ASSUME LogInv, NEW big \in BOOLEAN, NEW sent \in BOOLEAN, SendNew(big, sent)
    PROVE  FilesInv' /\ SendInv' /\ Keeps(log, log')
<1>1. FilesInv' /\ Keeps(log, log')
  BY FilesUntouched DEF SendNew, LogInv
<1>2. out' \in Out /\ built' \in Numbers
  BY LogAssumption DEF SendNew, LogInv, SendInv, NumbersInv, Out, Numbers
<1>3. SendInv'
  BY <1>2 DEF SendNew, LogInv, SendInv
<1> QED BY <1>1, <1>3

LEMMA IncrementLog ==
    ASSUME LogInv, increment_outgoing_seq_no
    PROVE  FilesInv' /\ SendInv' /\ Keeps(log, log')
<1>1. FilesInv' /\ Keeps(log, log')
  BY FilesUntouched DEF increment_outgoing_seq_no, LogInv
<1>2. SendInv'
  BY DEF increment_outgoing_seq_no, LogInv, SendInv
<1> QED BY <1>1, <1>2

LEMMA DoneSend ==
    ASSUME SendInv, Done, UNCHANGED <<replay, built>>,
           DOMAIN log.records \subseteq DOMAIN log'.records
    PROVE  SendInv'
<1>1. replay' = replay /\ replay.next \in Nat /\ replay.last \in Nat
  BY LogAssumption DEF SendInv, Numbers
<1>2. out' \in Out
  BY NothingIsOut DEF Done
<1> QED BY <1>1, <1>2 DEF SendInv, Done

LEMMA WriteLogLog ==
    ASSUME LogInv, NEW can_open \in BOOLEAN, WriteLog(can_open)
    PROVE  FilesInv' /\ SendInv' /\ Keeps(log, log')
<1> DEFINE m == Record(out)
           w == write(log, m, out.big, outgoing_seq_no, can_open)
<1>1. m \in Message
  BY LogAssumption DEF LogInv, SendInv, Out, Record, Message, Numbers
<1>2. /\ LogShape(log) /\ log.written = LastFile(log).count
      /\ Indexed(log.records, Counted(log.files))
  BY DEF LogInv, FilesInv, WriteLog, Reachable
<1> HIDE DEF m
<1>3. /\ LogShape(w.log) /\ Keeps(log, w.log)
      /\ w.log.written = LastFile(w.log).count
      /\ w.stored \in BOOLEAN
      /\ w.stored => /\ Len(LastFile(w.log).slots) = w.log.written + 1
                     /\ w.log.records = insert(log.records, outgoing_seq_no, Pending(w.log))
      /\ ~w.stored => w.log.records = log.records
  BY <1>1, <1>2, WriteShape
<1>4. /\ log' = w.log /\ Len(w.log.files) <= MaxFiles
      /\ w.stored => pc' = "stored" /\ UNCHANGED out
      /\ ~w.stored => Done
      /\ UNCHANGED <<replay, built>> /\ pc = "incremented"
  BY DEF WriteLog, m
<1> HIDE DEF w
<1>5. Counted(log.files) \subseteq Counted(w.log.files)
  BY <1>3 DEF Keeps
<1>6. CASE w.stored
  <2>1. /\ Indexed(w.log.records, Counted(log.files) \cup {Pending(w.log)})
        /\ DOMAIN log.records \subseteq DOMAIN w.log.records
    <3> DEFINE place == Pending(w.log)
               places == Counted(log.files)
    <3>1. w.log.records = insert(log.records, outgoing_seq_no, place)
      BY <1>3, <1>6
    <3> HIDE DEF place, places
    <3>2. Indexed(log.records, places)
      BY <1>2 DEF places
    <3>3. /\ Indexed(insert(log.records, outgoing_seq_no, place), places \cup {place})
          /\ DOMAIN log.records \subseteq DOMAIN insert(log.records, outgoing_seq_no, place)
      BY <3>2, InsertedIndex
    <3> QED BY <3>1, <3>3 DEF place, places
  <2>2. FilesInv'
    BY <1>3, <1>4, <1>5, <1>6, <2>1 DEF FilesInv, Reachable, Indexed
  <2>3. SendInv'
    BY <1>4, <1>6, <2>1 DEF LogInv, SendInv
  <2> QED BY <1>3, <1>4, <2>2, <2>3
<1>7. CASE ~w.stored
  <2>1. pc' # "stored"
    BY <1>4, <1>7 DEF Done
  <2>2. FilesInv'
    BY <1>2, <1>3, <1>4, <1>5, <1>7, <2>1 DEF FilesInv, Reachable, Indexed
  <2>3. SendInv'
    BY <1>3, <1>4, <1>7, DoneSend DEF LogInv
  <2> QED BY <1>3, <1>4, <2>2, <2>3
<1> QED BY <1>3, <1>6, <1>7

LEMMA CountRecordLog ==
    ASSUME LogInv, CountRecord
    PROVE  FilesInv' /\ SendInv' /\ Keeps(log, log')
<1> DEFINE k == update_no_of_messages(log)
<1>1. /\ LogShape(log) /\ log.written = LastFile(log).count
      /\ Len(LastFile(log).slots) > log.written /\ Len(log.files) <= MaxFiles
      /\ Indexed(log.records, Counted(log.files) \cup {Pending(log)})
  <2>1. /\ LogShape(log) /\ log.written = LastFile(log).count
        /\ Len(LastFile(log).slots) = log.written + 1 /\ Len(log.files) <= MaxFiles
        /\ Indexed(log.records, Counted(log.files) \cup {Pending(log)})
    BY DEF LogInv, FilesInv, CountRecord, Reachable
  <2>2. log.written \in Nat
    BY <2>1, FileAssumption DEF LogShape
  <2> QED BY <2>1, <2>2
<1>2. /\ LogShape(k) /\ Keeps(log, k)
      /\ k.written = LastFile(k).count /\ k.records = log.records
      /\ Len(k.files) = Len(log.files)
      /\ Counted(k.files) = Counted(log.files) \cup {Pending(log)}
  BY <1>1, CountShape
<1> HIDE DEF k
<1>3. /\ log' = k /\ pc' # "stored" /\ Done /\ UNCHANGED <<replay, built>>
  BY DEF CountRecord, Done, history, k
<1>4. Counted(log.files) \subseteq Counted(k.files)
  BY <1>2 DEF Keeps
<1>5. FilesInv'
  BY <1>1, <1>2, <1>3, <1>4 DEF FilesInv, Reachable, Indexed
<1>6. SendInv'
  BY <1>2, <1>3, DoneSend DEF LogInv
<1> QED BY <1>2, <1>3, <1>5, <1>6

LEMMA RespondLog ==
    ASSUME LogInv, NEW begin \in 1 .. MaxMessages, NEW end \in Numbers,
           RespondToResendRequest(begin, end)
    PROVE  FilesInv' /\ SendInv' /\ Keeps(log, log')
<1>1. /\ pc = "idle" /\ UNCHANGED <<log, built>> /\ pc' \in {"replaying", "sent"}
      /\ outgoing_seq_no \in Nat /\ outgoing_seq_no <= MaxMessages /\ begin \in Nat
      /\ begin <= MaxMessages
  BY LogAssumption DEF RespondToResendRequest, LogInv, NumbersInv, Numbers
<1>2. FilesInv' /\ Keeps(log, log')
  BY <1>1, FilesUntouched DEF LogInv
<1>3. CASE WillReplay(begin, end)
  <2>1. /\ replay' = [next |-> begin, last |-> outgoing_seq_no]
        /\ pc' = "replaying" /\ out' = out
    BY <1>3 DEF RespondToResendRequest
  <2>2. begin <= outgoing_seq_no /\ begin .. outgoing_seq_no \subseteq DOMAIN log.records
    BY <1>3 DEF WillReplay, S!WillReplay
  <2>3. outgoing_seq_no \in Numbers
    BY DEF LogInv, NumbersInv
  <2> QED BY <1>1, <1>2, <2>1, <2>2, <2>3 DEF SendInv, LogInv
<1>4. CASE ~WillReplay(begin, end)
  <2>1. PICK sent \in BOOLEAN :
            out' = [seq |-> begin, id |-> GapFillId, big |-> FALSE,
                    fresh |-> FALSE, sent |-> sent]
    BY <1>4 DEF RespondToResendRequest
  <2>2. replay' = replay /\ pc' = "sent"
    BY <1>4 DEF RespondToResendRequest
  <2>3. out' \in Out
    BY <1>1, <2>1, LogAssumption DEF Out, GapFillId, Numbers
  <2> QED BY <1>1, <1>2, <2>2, <2>3 DEF SendInv, LogInv
<1> QED BY <1>3, <1>4

(* The process dies: its index is gone, its files are not.                 *)
LEMMA DieLog ==
    ASSUME LogInv, Die, UNCHANGED built
    PROVE  FilesInv' /\ SendInv' /\ Keeps(log, log')
<1>1. LogShape(log) /\ Len(log.files) <= MaxFiles
  BY DEF LogInv, FilesInv
<1>2. /\ log' = [files |-> log.files, written |-> 0, records |-> <<>>, mapped |-> log.mapped]
      /\ pc' = "dead" /\ out' = Nothing /\ replay' = NoReplay
  BY <1>1, LogExcept DEF Die
<1>3. /\ log'.files = log.files /\ log'.written = 0 /\ log'.records = <<>>
      /\ log'.mapped = log.mapped
  BY <1>2
<1>4. LogShape(log')
  BY <1>1, <1>2, <1>3, FileAssumption DEF LogShape
<1>5. DOMAIN log'.records = {}
  BY <1>3
<1>6. FilesInv'
  BY <1>1, <1>2, <1>3, <1>4, <1>5 DEF FilesInv, Indexed
<1>7. SendInv'
  BY <1>2, NothingIsOut, NoReplayTyped DEF LogInv, SendInv
<1> QED BY <1>3, <1>6, <1>7, SameFilesKept

LEMMA AdvanceReplay ==
    ASSUME SendInv, pc = "replaying"
    PROVE  LET r == [replay EXCEPT !.next = @ + 1]
           IN  /\ r \in [next : Nat, last : Numbers]
               /\ r.next = replay.next + 1 /\ r.last = replay.last
               /\ r.next .. r.last \subseteq DOMAIN log.records
               /\ replay.next \in DOMAIN log.records
               /\ replay.next \in 0 .. MaxMessages
  BY LogAssumption DEF SendInv, Numbers

LEMMA ReplayNextLog ==
    ASSUME LogInv, NEW sent \in BOOLEAN, ReplayNext(sent)
    PROVE  FilesInv' /\ SendInv' /\ Keeps(log, log')
<1>1. CASE ~CanRead(log, replay.next)
  BY <1>1, DieLog DEF ReplayNext, history
<1>2. CASE CanRead(log, replay.next)
  <2> DEFINE p == log.records[replay.next]
             m == MessageAt(log.files, p)
             r == [replay EXCEPT !.next = @ + 1]
  <2>1. /\ pc = "replaying" /\ pc' = "sent" /\ UNCHANGED <<log, built>> /\ replay' = r
        /\ out' = [seq |-> replay.next, id |-> m.id, big |-> FALSE, fresh |-> FALSE,
                   sent |-> sent]
    BY <1>2 DEF ReplayNext, history, read_message
  <2>2. /\ r \in [next : Nat, last : Numbers]
        /\ r.next .. r.last \subseteq DOMAIN log.records
        /\ replay.next \in DOMAIN log.records /\ replay.next \in 0 .. MaxMessages
    BY <2>1, AdvanceReplay DEF LogInv
  <2>3. p \in Counted(log.files)
    BY <2>1, <2>2 DEF LogInv, FilesInv, Reachable, Indexed
  <2>4. m \in Message
    <3>1. LogShape(log)
      BY DEF LogInv, FilesInv
    <3> HIDE DEF p
    <3> QED BY <2>3, <3>1, CountedIsMessage
  <2>5. m.id \in Numbers
    BY <2>4 DEF Message
  <2> HIDE DEF m, r
  <2>6. out' \in Out
    BY <2>1, <2>2, <2>5, LogAssumption DEF Out
  <2>7. SendInv'
    BY <2>1, <2>2, <2>6 DEF SendInv, LogInv
  <2> QED BY <2>1, <2>7, FilesUntouched DEF LogInv
<1> QED BY <1>1, <1>2

LEMMA ReplayToNobodyLog ==
    ASSUME LogInv, ReplayToNobody
    PROVE  FilesInv' /\ SendInv' /\ Keeps(log, log')
<1> DEFINE r == [replay EXCEPT !.next = @ + 1]
<1>1. /\ pc = "replaying" /\ UNCHANGED <<log, built, out>> /\ replay' = r
      /\ pc' = IF replay.next < replay.last THEN "replaying" ELSE "idle"
  BY DEF ReplayToNobody, history
<1>2. /\ r \in [next : Nat, last : Numbers]
      /\ r.next = replay.next + 1 /\ r.last = replay.last
      /\ r.next .. r.last \subseteq DOMAIN log.records
      /\ replay.next \in Nat /\ replay.last \in Nat
  BY <1>1, AdvanceReplay, LogAssumption DEF LogInv, SendInv, Numbers
<1> HIDE DEF r
<1>3. SendInv'
  BY <1>1, <1>2 DEF SendInv, LogInv
<1> QED BY <1>1, <1>3, FilesUntouched DEF LogInv

LEMMA SetLog ==
    ASSUME LogInv, NEW n \in Numbers, set_outgoing_seq_no(n)
    PROVE  FilesInv' /\ SendInv' /\ Keeps(log, log')
<1>1. FilesInv' /\ Keeps(log, log')
  BY FilesUntouched DEF set_outgoing_seq_no, LogInv
<1>2. SendInv'
  BY DEF set_outgoing_seq_no, LogInv, SendInv
<1> QED BY <1>1, <1>2

(* The index is built again, with or without what it held before.          *)
LEMMA InitialiseLog ==
    ASSUME FilesInv, NEW r, Indexed(r, Counted(log.files)),
           log' = initialise(r, log.files), pc' = "idle"
    PROVE  FilesInv' /\ Keeps(log, log')
<1> DEFINE k == initialise(r, log.files)
<1>1. LogShape(log) /\ Len(log.files) <= MaxFiles
  BY DEF FilesInv
<1>2. /\ LogShape(k) /\ Keeps(log, k) /\ k.files = log.files
      /\ k.written = LastFile(k).count
      /\ k.records = process_existing_buffers(r, log.files)
  BY <1>1, InitialiseShape
<1>3. Indexed(k.records, Counted(k.files))
  BY <1>1, <1>2, RebuiltIndex
<1>4. log' = k
  OBVIOUS
<1> HIDE DEF k
<1>5. FilesInv'
  BY <1>1, <1>2, <1>3, <1>4 DEF FilesInv, Reachable
<1> QED BY <1>2, <1>4, <1>5

LEMMA ReinitialiseLog ==
    ASSUME LogInv, reinitialise_outgoing_serialiser
    PROVE  FilesInv' /\ SendInv' /\ Keeps(log, log')
<1>1. Indexed(log.records, Counted(log.files))
  BY DEF reinitialise_outgoing_serialiser, LogInv, FilesInv, Reachable
<1>2. FilesInv' /\ Keeps(log, log')
  BY <1>1, InitialiseLog DEF reinitialise_outgoing_serialiser, LogInv
<1>3. replay.next .. replay.last = {}
  BY LogAssumption DEF reinitialise_outgoing_serialiser, LogInv, SendInv, Numbers
<1>4. SendInv'
  BY <1>3 DEF reinitialise_outgoing_serialiser, LogInv, SendInv
<1> QED BY <1>2, <1>4

LEMMA RestartLog ==
    ASSUME LogInv, Restart
    PROVE  FilesInv' /\ SendInv' /\ Keeps(log, log')
<1>1. Indexed(<<>>, Counted(log.files))
  BY DEF Indexed
<1>2. FilesInv' /\ Keeps(log, log')
  BY <1>1, InitialiseLog DEF Restart, LogInv
<1>3. SendInv'
  BY NothingIsOut, NoReplayTyped DEF Restart, LogInv, SendInv
<1> QED BY <1>2, <1>3

LEMMA LogStep ==
    ASSUME LogInv, [Next]_vars
    PROVE  LogInv' /\ Keeps(log, log')
<1>1. NumbersInv'
  BY NumbersStep DEF LogInv
<1>2. FilesInv' /\ SendInv' /\ Keeps(log, log')
  <2>1. CASE \E big, sent \in BOOLEAN : SendNew(big, sent)
    BY <2>1, SendNewLog
  <2>2. CASE increment_outgoing_seq_no
    BY <2>2, IncrementLog
  <2>3. CASE \E can_open \in BOOLEAN : WriteLog(can_open)
    BY <2>3, WriteLogLog
  <2>4. CASE CountRecord
    BY <2>4, CountRecordLog
  <2>5. CASE \E begin \in 1 .. MaxMessages, end \in Numbers : RespondToResendRequest(begin, end)
    BY <2>5, RespondLog
  <2>6. CASE \E sent \in BOOLEAN : ReplayNext(sent)
    BY <2>6, ReplayNextLog
  <2>7. CASE ReplayToNobody
    BY <2>7, ReplayToNobodyLog
  <2>8. CASE \E n \in Numbers : set_outgoing_seq_no(n)
    BY <2>8, SetLog
  <2>9. CASE reinitialise_outgoing_serialiser
    BY <2>9, ReinitialiseLog
  <2>10. CASE Crash
    BY <2>10, DieLog DEF Crash
  <2>11. CASE Restart
    BY <2>11, RestartLog
  <2>12. CASE UNCHANGED vars
    BY <2>12, SameFilesKept DEF vars, history, LogInv, FilesInv, SendInv
  <2> QED
    BY <2>1, <2>2, <2>3, <2>4, <2>5, <2>6, <2>7, <2>8, <2>9, <2>10, <2>11, <2>12 DEF Next
<1> QED BY <1>1, <1>2 DEF LogInv

LEMMA LogInit == Init => LogInv
<1> SUFFICES ASSUME Init PROVE LogInv
  OBVIOUS
<1>1. NumbersInv
  BY LogAssumption DEF Init, NumbersInv, NextNumber, Numbers, Accounted, NumbersNotReused
<1> DEFINE r == process_existing_buffers(<<>>, <<>>)
<1>2. DOMAIN r = {}
  BY DEF process_existing_buffers, insert_all, Counted
<1> HIDE DEF r
<1>3. log = [files |-> <<EmptyFile>>, written |-> 0, records |-> r, mapped |-> TRUE]
  BY DEF Init, initialise, r
<1>4. EmptyFile \in File /\ EmptyFile.count = 0 /\ Len(EmptyFile.slots) = 0
  BY FileAssumption DEF EmptyFile, File
<1>5. /\ log.files = <<EmptyFile>> /\ log.written = 0 /\ log.mapped = TRUE /\ log.records = r
  BY <1>3
<1>6. /\ <<EmptyFile>> \in Seq(File) /\ Len(<<EmptyFile>>) = 1
      /\ \A f \in DOMAIN <<EmptyFile>> : <<EmptyFile>>[f] = EmptyFile
      /\ <<EmptyFile>>[1] = EmptyFile
  BY <1>4
<1>7. LogShape(log)
  BY <1>3, <1>4, <1>5, <1>6, FileAssumption DEF LogShape
<1>8. FilesInv
  <2>1. LastFile(log) = EmptyFile /\ Len(log.files) <= MaxFiles
    BY <1>5, <1>6, LogAssumption DEF LastFile
  <2>2. Indexed(log.records, Reachable(log, pc = "stored"))
    BY <1>2, <1>5 DEF Indexed
  <2>3. pc = "idle"
    BY DEF Init
  <2> QED BY <1>4, <1>5, <1>7, <2>1, <2>2, <2>3 DEF FilesInv
<1>9. SendInv
  BY NothingIsOut, NoReplayTyped, LogAssumption DEF SendInv, Init, Numbers
<1> QED BY <1>1, <1>8, <1>9 DEF LogInv

LEMMA LogInvariant == Spec => []LogInv
<1>1. LogInv /\ [Next]_vars => LogInv'
  BY LogStep
<1> QED BY <1>1, LogInit, PTL DEF Spec

(* A place of the index lies in what its file has stored.                  *)
LEMMA ReachableStored ==
    ASSUME LogInv, NEW n \in DOMAIN log.records
    PROVE  LET p == log.records[n]
           IN  /\ p[1] \in DOMAIN log.files
               /\ p[2] \in 1 .. Len(log.files[p[1]].slots)
               /\ p \in Place
               /\ pc # "stored" => p \in Counted(log.files)
<1> DEFINE p == log.records[n]
           N == Len(log.files)
<1>1. /\ LogShape(log) /\ N \in Nat /\ N > 0 /\ N <= MaxFiles /\ DOMAIN log.files = 1 .. N
      /\ p \in Reachable(log, pc = "stored") /\ FileSlots \in Nat
      /\ log.written \in Nat
      /\ \A f \in 1 .. N : Len(log.files[f].slots) \in log.files[f].count .. FileSlots
  BY FileAssumption DEF LogInv, FilesInv, Indexed, LogShape
<1> HIDE DEF p
<1>2. CASE p \in Counted(log.files)
  <2>1. /\ p \in (1 .. N) \X (1 .. FileSlots)
        /\ p[2] \in 1 .. Len(log.files[p[1]].slots)
    BY <1>1, <1>2, CountedIsMessage
  <2> QED BY <1>1, <1>2, <2>1, LogAssumption DEF Place, p
<1>3. CASE pc = "stored" /\ p = Pending(log)
  <2>1. Len(log.files[N].slots) = log.written + 1
    BY <1>3 DEF LogInv, FilesInv, LastFile
  <2>2. log.files[N] \in File
    BY <1>1 DEF LogShape
  <2>3. Len(log.files[N].slots) <= FileSlots
    BY <1>1, <2>1, <2>2 DEF File
  <2>4. p = <<N, log.written + 1>>
    BY <1>3 DEF Pending
  <2> QED BY <1>1, <1>3, <2>1, <2>3, <2>4, LogAssumption DEF Place, p
<1> QED BY <1>1, <1>2, <1>3 DEF Reachable

(* No sequence of writes, switches of files, crashes and restarts makes    *)
(* MessageSerialiser write past the end of a file, and its counts, its     *)
(* cursor and its index stay inside the files that exist.                  *)
THEOREM TypeCorrect == Spec => []TypeOK
<1>1. LogInv => TypeOK
  <2> SUFFICES ASSUME LogInv PROVE TypeOK
    OBVIOUS
  <2>1. \A n \in DOMAIN log.records : log.records[n] \in Place
    BY ReachableStored
  <2>2. \A f \in DOMAIN log.files :
            /\ log.files[f].count \in 0 .. FileSlots
            /\ Len(log.files[f].slots) \in log.files[f].count .. FileSlots
    <3> SUFFICES ASSUME NEW f \in DOMAIN log.files
                 PROVE  log.files[f].count \in 0 .. FileSlots
      BY DEF LogInv, FilesInv, LogShape
    <3>1. log.files[f] \in File
      BY DEF LogInv, FilesInv, LogShape
    <3> QED BY <3>1 DEF File
  <2> QED BY <2>1, <2>2 DEF TypeOK, LogInv, FilesInv, SendInv, NumbersInv, LogShape
<1> QED BY <1>1, LogInvariant, PTL

(* What a replay reads through the index is always a message that was      *)
(* stored completely: a write that was cut short, did not fit or found no  *)
(* next file never leaves a place of the index behind that leads nowhere.  *)
THEOREM IndexSound == Spec => []IndexLeadsToRecords
<1>1. LogInv => IndexLeadsToRecords
  BY ReachableStored DEF IndexLeadsToRecords
<1> QED BY <1>1, LogInvariant, PTL

(* No step of send_bytes, of a replay, of a promotion or of a restart      *)
(* removes or changes a record that a file of the log counts.              *)
THEOREM LogIsAppendOnly == Spec => LogAppendOnly
<1>1. LogInv /\ [Next]_vars =>
        [\A p \in Counted(log.files) :
            /\ p \in Counted(log'.files)
            /\ MessageAt(log'.files, p) = MessageAt(log.files, p)]_vars
  BY LogStep DEF Keeps
<1> QED BY <1>1, LogInvariant, PTL DEF Spec, LogAppendOnly
-----------------------------------------------------------------------------
(* What a replay reads                                                     *)

Tagged(files, n) == \E p \in Counted(files) : MessageAt(files, p).seq = n

IsFirst(files, n, p) ==
    /\ p \in Counted(files) /\ MessageAt(files, p).seq = n
    /\ \A q \in Counted(files) : MessageAt(files, q).seq = n => q = p \/ Before(p, q)

(* The first record with number n is that of message id.                   *)
Kept(files, n, id) == \E p \in Counted(files) : IsFirst(files, n, p) /\ MessageAt(files, p).id = id

(* A message that left is on its way into the log.                         *)
InWriting == pc \in {"incremented", "stored"} /\ out.fresh /\ out.sent

(* Numbers up to this one belong to messages that are in the log.          *)
Taken == IF InWriting THEN outgoing_seq_no - 1 ELSE outgoing_seq_no

(* Number n leads to the message that took it: now, and after a restart if *)
(* no other message has it in the log.                                     *)
Held(n) ==
    /\ n \in DOMAIN counted
    /\ pc # "dead" => n \in DOMAIN log.records /\ read_message(log, n).id = counted[n]
    /\ n \notin impostors => Kept(log.files, n, counted[n])

(* Number n leads nowhere, but perhaps to the record that is being written *)
(* under it, and only messages that did not take it have it in the log.    *)
Free(n) ==
    /\ n \in DOMAIN log.records =>
          pc = "stored" /\ n = outgoing_seq_no /\ log.records[n] = Pending(log)
    /\ Tagged(log.files, n) => n \in impostors

(* The message in hand has a number that is taken or counts as an          *)
(* impostor, or is the one that has just taken its number.                 *)
HandOK ==
    /\ pc \in {"sent", "incremented", "stored"} /\ ~(out.fresh /\ out.sent)
          => out.seq <= outgoing_seq_no \/ out.seq \in impostors
    /\ InWriting =>
          /\ out.seq = outgoing_seq_no /\ outgoing_seq_no >= 1
          /\ outgoing_seq_no \in DOMAIN counted /\ counted[outgoing_seq_no] = out.id
    /\ pc = "stored" =>
          /\ outgoing_seq_no \in DOMAIN log.records
          /\ MessageAt(log.files, Pending(log)) = Record(out)
    /\ replay.next <= replay.last => replay.last <= outgoing_seq_no

Certain(n) == (1 <= n /\ n <= Taken => Held(n)) /\ (Taken < n => Free(n))

FaithInv == HandOK /\ \A n \in Nat : n \notin doubtful => Certain(n)

LEMMA SameRecords ==
    ASSUME NEW l, NEW k, Keeps(l, k), Counted(k.files) = Counted(l.files), NEW n
    PROVE  /\ Tagged(k.files, n) <=> Tagged(l.files, n)
           /\ \A id : Kept(l.files, n, id) => Kept(k.files, n, id)
<1>1. \A p \in Counted(l.files) : MessageAt(k.files, p) = MessageAt(l.files, p)
  BY DEF Keeps
<1>2. Tagged(k.files, n) <=> Tagged(l.files, n)
  BY <1>1 DEF Tagged
<1>3. ASSUME NEW id, Kept(l.files, n, id) PROVE Kept(k.files, n, id)
  BY <1>1, <1>3 DEF Kept, IsFirst
<1> QED BY <1>2, <1>3

(* A record m that is added comes after all others.                        *)
LEMMA OneMoreRecord ==
    ASSUME NEW l, NEW k, NEW new, NEW m, Keeps(l, k),
           Counted(k.files) = Counted(l.files) \cup {new},
           MessageAt(k.files, new) = m,
           \A p \in Counted(l.files) : Before(p, new),
           NEW n
    PROVE  /\ Tagged(k.files, n) => Tagged(l.files, n) \/ n = m.seq
           /\ \A id : Kept(l.files, n, id) => Kept(k.files, n, id)
           /\ n = m.seq /\ ~Tagged(l.files, n) => Kept(k.files, n, m.id)
<1>1. \A p \in Counted(l.files) : MessageAt(k.files, p) = MessageAt(l.files, p)
  BY DEF Keeps
<1>2. Tagged(k.files, n) => Tagged(l.files, n) \/ n = m.seq
  BY <1>1 DEF Tagged
<1>3. ASSUME NEW id, Kept(l.files, n, id) PROVE Kept(k.files, n, id)
  <2>1. PICK p \in Counted(l.files) : IsFirst(l.files, n, p) /\ MessageAt(l.files, p).id = id
    BY <1>3 DEF Kept
  <2>2. IsFirst(k.files, n, p)
    BY <1>1, <2>1 DEF IsFirst
  <2> QED BY <1>1, <2>1, <2>2 DEF Kept
<1>4. ASSUME n = m.seq, ~Tagged(l.files, n) PROVE Kept(k.files, n, m.id)
  <2>1. IsFirst(k.files, n, new)
    BY <1>1, <1>4 DEF IsFirst, Tagged
  <2> QED BY <2>1 DEF Kept
<1> QED BY <1>2, <1>3, <1>4

(* The index that is built from the log: entries that were there stay, and *)
(* the others lead to the first record with their number.                  *)
LEMMA RebuiltEntries ==
    ASSUME NEW l, LogShape(l), NEW r, NEW n
    PROVE  LET k == process_existing_buffers(r, l.files)
           IN  /\ n \in DOMAIN r => n \in DOMAIN k /\ k[n] = r[n]
               /\ n \in DOMAIN k => n \in DOMAIN r \/ Tagged(l.files, n)
               /\ n \notin DOMAIN r /\ n # 0 => \A id : Kept(l.files, n, id) =>
                     n \in DOMAIN k /\ MessageAt(l.files, k[n]).id = id
<1> DEFINE places == Counted(l.files)
           numbers == {MessageAt(l.files, p).seq : p \in places} \ {0}
           First(i) == CHOOSE p \in places :
                          /\ MessageAt(l.files, p).seq = i
                          /\ \A q \in places : MessageAt(l.files, q).seq = i => q = p \/ Before(p, q)
           more == [i \in numbers |-> First(i)]
           k == process_existing_buffers(r, l.files)
<1>1. k = insert_all(r, more)
  BY DEF process_existing_buffers
<1>2. DOMAIN more = numbers
  OBVIOUS
<1>3. n \in numbers => Tagged(l.files, n)
  BY DEF Tagged
<1>4. ASSUME n # 0, NEW id, Kept(l.files, n, id)
      PROVE  n \in numbers /\ MessageAt(l.files, more[n]).id = id
  <2>1. PICK p \in places : IsFirst(l.files, n, p) /\ MessageAt(l.files, p).id = id
    BY <1>4 DEF Kept
  <2>2. n \in numbers
    BY <1>4, <2>1 DEF IsFirst
  <2>3. more[n] = First(n)
    BY <2>2
  <2> HIDE DEF more
  <2>4. /\ MessageAt(l.files, p).seq = n
        /\ \A q \in places : MessageAt(l.files, q).seq = n => q = p \/ Before(p, q)
    BY <2>1 DEF IsFirst
  <2>5. /\ First(n) \in places /\ MessageAt(l.files, First(n)).seq = n
        /\ \A q \in places : MessageAt(l.files, q).seq = n => q = First(n) \/ Before(First(n), q)
    BY <2>4
  <2> DEFINE f == First(n)
  <2>6. f \in Nat \X Nat /\ p \in Nat \X Nat
    <3>1. f \in places /\ p \in places
      BY <2>5
    <3> HIDE DEF f
    <3>2. \A q \in places : q \in (1 .. Len(l.files)) \X (1 .. FileSlots)
      BY CountedIsMessage
    <3>3. Len(l.files) \in Nat /\ FileSlots \in Nat
      BY FileAssumption DEF LogShape
    <3> QED BY <3>1, <3>2, <3>3
  <2>7. (f = p \/ Before(p, f)) /\ (p = f \/ Before(f, p))
    BY <2>4, <2>5
  <2> HIDE DEF f
  <2>8. f = p
    BY <2>6, <2>7 DEF Before
  <2> QED BY <2>1, <2>2, <2>3, <2>8 DEF f
<1> HIDE DEF numbers, more, k
<1> QED BY <1>1, <1>2, <1>3, <1>4 DEF insert_all, k

-----------------------------------------------------------------------------
(* The steps of send_bytes and of replays                                  *)

LEMMA LogTypes ==
    ASSUME LogInv
    PROVE  /\ outgoing_seq_no \in Nat /\ outgoing_seq_no <= MaxMessages
           /\ out.seq \in Nat /\ out.fresh \in BOOLEAN /\ out.sent \in BOOLEAN
           /\ replay.next \in Nat /\ replay.last \in Nat
           /\ LogShape(log)
<1>1. outgoing_seq_no \in Nat /\ outgoing_seq_no <= MaxMessages
  BY LogAssumption DEF LogInv, NumbersInv, Numbers
<1>2. out.seq \in Nat /\ out.fresh \in BOOLEAN /\ out.sent \in BOOLEAN
  BY LogAssumption DEF LogInv, SendInv, Out
<1>3. replay.next \in Nat /\ replay.last \in Nat
  BY LogAssumption DEF LogInv, SendInv, Numbers
<1> QED BY <1>1, <1>2, <1>3 DEF LogInv, FilesInv

(* Steps that leave the log alone.                                         *)
LEMMA QuietNumbers ==
    ASSUME FaithInv, UNCHANGED <<log, doubtful>>, impostors \subseteq impostors',
           Taken' = Taken, pc \notin {"dead", "stored"},
           \A n \in Nat : n <= Taken /\ n \in DOMAIN counted
                             => n \in DOMAIN counted' /\ counted'[n] = counted[n]
    PROVE  \A n \in Nat : n \notin doubtful' => Certain(n)'
<1> SUFFICES ASSUME NEW n \in Nat, n \notin doubtful PROVE Certain(n)'
  OBVIOUS
<1>1. Certain(n)
  BY DEF FaithInv
<1>2. ASSUME 1 <= n, n <= Taken PROVE Held(n)'
  BY <1>1, <1>2 DEF Certain, Held, read_message
<1>3. ASSUME Taken < n PROVE Free(n)'
  BY <1>1, <1>3 DEF Certain, Free
<1> QED BY <1>2, <1>3 DEF Certain

LEMMA SendNewFaith ==
    ASSUME LogInv, FaithInv, NEW big \in BOOLEAN, NEW sent \in BOOLEAN, SendNew(big, sent)
    PROVE  FaithInv'
<1>1. /\ pc = "idle" /\ pc' = "sent"
      /\ UNCHANGED <<log, outgoing_seq_no, replay, counted, doubtful>>
      /\ out'.fresh = TRUE /\ out'.sent = sent
      /\ impostors' = impostors \cup (IF sent THEN {} ELSE {out'.seq})
  BY DEF SendNew
<1>2. Taken' = Taken
  BY <1>1 DEF Taken, InWriting
<1>3. \A n \in Nat : n \notin doubtful' => Certain(n)'
  BY <1>1, <1>2, QuietNumbers
<1>4. HandOK'
  BY <1>1 DEF FaithInv, HandOK, InWriting
<1> QED BY <1>3, <1>4 DEF FaithInv

LEMMA IncrementFaith ==
    ASSUME LogInv, FaithInv, increment_outgoing_seq_no
    PROVE  FaithInv'
<1>1. /\ pc = "sent" /\ pc' = "incremented"
      /\ UNCHANGED <<log, out, replay, impostors, doubtful>>
  BY DEF increment_outgoing_seq_no
<1>2. /\ outgoing_seq_no \in Nat /\ replay.last \in Nat
  BY LogTypes
<1>3. CASE out.fresh /\ out.sent
  <2>1. /\ outgoing_seq_no' = outgoing_seq_no + 1
        /\ counted' = Taking(outgoing_seq_no + 1, out.id)
    BY <1>3 DEF increment_outgoing_seq_no
  <2>2. Taken = outgoing_seq_no /\ Taken' = outgoing_seq_no
    BY <1>1, <1>2, <1>3, <2>1 DEF Taken, InWriting
  <2> DEFINE new == outgoing_seq_no + 1
  <2>3. /\ new \in DOMAIN counted' /\ counted'[new] = out.id
        /\ \A n : n # new /\ n \in DOMAIN counted
                     => n \in DOMAIN counted' /\ counted'[n] = counted[n]
    BY <2>1 DEF Taking
  <2>4. \A n \in Nat : n \notin doubtful' => Certain(n)'
    <3>1. \A n \in Nat : n <= Taken => n # new
      BY <1>2, <2>2
    <3> QED BY <1>1, <2>2, <2>3, <3>1, QuietNumbers
  <2>5. out.seq = new
    BY <1>1, <1>3 DEF LogInv, NumbersInv, NextNumber
  <2>6. HandOK'
    BY <1>1, <1>2, <1>3, <2>1, <2>3, <2>5 DEF FaithInv, HandOK, InWriting
  <2> QED BY <2>4, <2>6 DEF FaithInv
<1>4. CASE ~(out.fresh /\ out.sent)
  <2>1. UNCHANGED <<outgoing_seq_no, counted>>
    BY <1>4 DEF increment_outgoing_seq_no
  <2>2. Taken' = Taken
    BY <1>1, <1>4, <2>1 DEF Taken, InWriting
  <2>3. \A n \in Nat : n \notin doubtful' => Certain(n)'
    BY <1>1, <2>1, <2>2, QuietNumbers
  <2>4. HandOK'
    BY <1>1, <1>4, <2>1 DEF FaithInv, HandOK, InWriting
  <2> QED BY <2>3, <2>4 DEF FaithInv
<1> QED BY <1>3, <1>4

LEMMA RespondFaith ==
    ASSUME LogInv, FaithInv, NEW begin \in 1 .. MaxMessages, NEW end \in Numbers,
           RespondToResendRequest(begin, end)
    PROVE  FaithInv'
<1>1. /\ pc = "idle" /\ pc' \in {"replaying", "sent"}
      /\ UNCHANGED <<log, outgoing_seq_no, counted, doubtful>>
      /\ impostors \subseteq impostors'
      /\ pc' = "sent" => /\ out'.fresh = FALSE /\ out'.seq = begin /\ replay' = replay
                         /\ impostors' = impostors \cup
                               (IF begin > outgoing_seq_no THEN {begin} ELSE {})
      /\ pc' = "replaying" => replay' = [next |-> begin, last |-> outgoing_seq_no]
  BY DEF RespondToResendRequest
<1>2. outgoing_seq_no \in Nat /\ begin \in Nat
  BY LogTypes, LogAssumption
<1>3. Taken' = Taken
  BY <1>1 DEF Taken, InWriting
<1>4. \A n \in Nat : n \notin doubtful' => Certain(n)'
  BY <1>1, <1>3, QuietNumbers
<1>5. HandOK'
  <2>1. CASE pc' = "sent"
    BY <1>1, <1>2, <2>1 DEF FaithInv, HandOK, InWriting
  <2>2. CASE pc' = "replaying"
    BY <1>1, <1>2, <2>2 DEF HandOK, InWriting
  <2> QED BY <1>1, <2>1, <2>2
<1> QED BY <1>4, <1>5 DEF FaithInv

(* The process dies: what was in writing becomes doubtful.                 *)
LEMMA DieFaith ==
    ASSUME LogInv, FaithInv, Die, UNCHANGED <<outgoing_seq_no, counted, impostors>>,
           doubtful \subseteq doubtful', InWriting => outgoing_seq_no \in doubtful'
    PROVE  FaithInv'
<1>1. /\ LogShape(log) /\ outgoing_seq_no \in Nat
  BY LogTypes
<1>2. /\ log' = [files |-> log.files, written |-> 0, records |-> <<>>, mapped |-> log.mapped]
      /\ pc' = "dead" /\ replay' = NoReplay
  BY <1>1, LogExcept DEF Die
<1>3. log'.files = log.files /\ DOMAIN log'.records = {}
  BY <1>2
<1>4. Taken' = outgoing_seq_no /\ (Taken = outgoing_seq_no \/ (InWriting /\ Taken = outgoing_seq_no - 1))
  <2>1. Taken' = outgoing_seq_no
    BY <1>2 DEF Taken, InWriting
  <2>2. Taken = outgoing_seq_no \/ (InWriting /\ Taken = outgoing_seq_no - 1)
    <3>1. CASE InWriting
      BY <3>1 DEF Taken
    <3>2. CASE ~InWriting
      BY <3>2 DEF Taken
    <3> QED BY <3>1, <3>2
  <2> QED BY <2>1, <2>2
<1>5. ASSUME NEW n \in Nat, n \notin doubtful' PROVE Certain(n)'
  <2>1. Certain(n) /\ (InWriting => n # outgoing_seq_no)
    BY <1>5 DEF FaithInv
  <2>2. ASSUME 1 <= n, n <= outgoing_seq_no PROVE Held(n)'
    <3>1. n <= Taken
      BY <1>1, <1>4, <2>1, <2>2
    <3> QED BY <1>2, <1>3, <2>1, <2>2, <3>1 DEF Certain, Held
  <2>3. ASSUME outgoing_seq_no < n PROVE Free(n)'
    <3>1. Taken < n
      BY <1>1, <1>4, <2>3
    <3> QED BY <1>3, <2>1, <3>1 DEF Certain, Free
  <2> QED BY <1>4, <2>2, <2>3 DEF Certain
<1>6. HandOK'
  BY <1>1, <1>2, NoReplayTyped DEF HandOK, InWriting, NoReplay
<1> QED BY <1>5, <1>6 DEF FaithInv

LEMMA ReplayNextFaith ==
    ASSUME LogInv, FaithInv, NEW sent \in BOOLEAN, ReplayNext(sent)
    PROVE  FaithInv'
<1>1. pc = "replaying" /\ UNCHANGED <<outgoing_seq_no, counted, impostors, doubtful>>
  BY DEF ReplayNext, history
<1>2. CASE ~CanRead(log, replay.next)
  <2>1. Die /\ ~InWriting
    BY <1>1, <1>2 DEF ReplayNext, InWriting
  <2> QED BY <1>1, <2>1, DieFaith
<1>3. CASE CanRead(log, replay.next)
  <2> DEFINE r == [replay EXCEPT !.next = @ + 1]
  <2>1. /\ pc' = "sent" /\ log' = log /\ replay' = r
        /\ out'.seq = replay.next /\ out'.fresh = FALSE
    BY <1>3 DEF ReplayNext
  <2>2. r.next = replay.next + 1 /\ r.last = replay.last
    BY <1>1, AdvanceReplay DEF LogInv
  <2>3. /\ replay.next \in Nat /\ replay.last \in Nat /\ outgoing_seq_no \in Nat
        /\ replay.next <= replay.last
    BY <1>1, LogTypes DEF LogInv, SendInv
  <2> HIDE DEF r
  <2>4. Taken' = Taken
    BY <1>1, <2>1 DEF Taken, InWriting
  <2>5. \A n \in Nat : n \notin doubtful' => Certain(n)'
    BY <1>1, <2>1, <2>4, QuietNumbers
  <2>6. replay.last <= outgoing_seq_no
    BY <2>3 DEF FaithInv, HandOK
  <2>7. HandOK'
    BY <1>1, <2>1, <2>2, <2>3, <2>6 DEF HandOK, InWriting
  <2> QED BY <2>5, <2>7 DEF FaithInv
<1> QED BY <1>2, <1>3

LEMMA ReplayToNobodyFaith ==
    ASSUME LogInv, FaithInv, ReplayToNobody
    PROVE  FaithInv'
<1> DEFINE r == [replay EXCEPT !.next = @ + 1]
<1>1. /\ pc = "replaying" /\ pc' \in {"replaying", "idle"} /\ replay' = r
      /\ UNCHANGED <<log, outgoing_seq_no, counted, impostors, doubtful>>
  BY DEF ReplayToNobody, history
<1>2. r.next = replay.next + 1 /\ r.last = replay.last
  BY <1>1, AdvanceReplay DEF LogInv
<1>3. /\ replay.next \in Nat /\ replay.last \in Nat /\ outgoing_seq_no \in Nat
      /\ replay.next <= replay.last
  BY <1>1, LogTypes DEF LogInv, SendInv
<1> HIDE DEF r
<1>4. Taken' = Taken
  BY <1>1 DEF Taken, InWriting
<1>5. \A n \in Nat : n \notin doubtful' => Certain(n)'
  BY <1>1, <1>4, QuietNumbers
<1>6. replay.last <= outgoing_seq_no
  BY <1>3 DEF FaithInv, HandOK
<1>7. HandOK'
  BY <1>1, <1>2, <1>3, <1>6 DEF HandOK, InWriting
<1> QED BY <1>5, <1>7 DEF FaithInv

-----------------------------------------------------------------------------
(* The log is written                                                      *)

LEMMA DoneHand ==
    ASSUME LogInv, FaithInv, Done, UNCHANGED <<replay, outgoing_seq_no>>
    PROVE  HandOK' /\ ~InWriting' /\ Taken' = outgoing_seq_no /\ pc' \in {"replaying", "idle"}
<1>1. pc' \in {"replaying", "idle"}
  BY DEF Done
<1>2. HandOK' /\ ~InWriting'
  BY <1>1 DEF FaithInv, HandOK, InWriting
<1> QED BY <1>1, <1>2 DEF Taken

LEMMA WriteLogFaith ==
    ASSUME LogInv, FaithInv, NEW can_open \in BOOLEAN, WriteLog(can_open)
    PROVE  FaithInv'
<1> DEFINE m == Record(out)
           w == write(log, m, out.big, outgoing_seq_no, can_open)
<1>1. m \in Message
  BY LogAssumption DEF LogInv, SendInv, Out, Record, Message, Numbers
<1>2. /\ LogShape(log) /\ log.written = LastFile(log).count
      /\ Indexed(log.records, Counted(log.files))
  BY DEF LogInv, FilesInv, WriteLog, Reachable
<1> HIDE DEF m
<1>3. /\ Keeps(log, w.log) /\ w.stored \in BOOLEAN
      /\ w.stored => /\ w.log.records = insert(log.records, outgoing_seq_no, Pending(w.log))
                     /\ MessageAt(w.log.files, Pending(w.log)) = m
      /\ ~w.stored => w.log.records = log.records
      /\ Counted(w.log.files) = Counted(log.files)
  BY <1>1, <1>2, WriteShape
<1>4. /\ log' = w.log /\ pc = "incremented"
      /\ w.stored => pc' = "stored" /\ UNCHANGED out
      /\ ~w.stored => Done
      /\ UNCHANGED <<replay, outgoing_seq_no, counted, impostors>>
      /\ doubtful' = doubtful \cup (IF ~w.stored /\ out.fresh /\ out.sent
                                    THEN {outgoing_seq_no} ELSE {})
  BY DEF WriteLog, m
<1>5. outgoing_seq_no \in Nat
  BY LogTypes
<1>6. /\ Taken = outgoing_seq_no \/ (InWriting /\ Taken = outgoing_seq_no - 1)
      /\ InWriting <=> out.fresh /\ out.sent
  <2>1. InWriting <=> out.fresh /\ out.sent
    BY <1>4 DEF InWriting
  <2>2. CASE InWriting
    BY <2>1, <2>2 DEF Taken
  <2>3. CASE ~InWriting
    BY <2>1, <2>3 DEF Taken
  <2> QED BY <2>1, <2>2, <2>3
<1> HIDE DEF w
<1>7. \A n \in DOMAIN log.records : MessageAt(w.log.files, log.records[n]) = MessageAt(log.files, log.records[n])
  BY <1>2, <1>3 DEF Indexed, Keeps
<1>8. \A n : /\ Tagged(w.log.files, n) <=> Tagged(log.files, n)
             /\ \A id : Kept(log.files, n, id) => Kept(w.log.files, n, id)
  BY <1>3, SameRecords
<1>9. CASE w.stored
  <2>1. /\ doubtful' = doubtful /\ pc' = "stored"
        /\ Taken' = Taken /\ (InWriting' <=> InWriting)
    BY <1>4, <1>9 DEF Taken, InWriting
  <2>2. /\ DOMAIN w.log.records = DOMAIN log.records \cup {outgoing_seq_no}
        /\ \A n \in DOMAIN log.records : w.log.records[n] = log.records[n]
        /\ outgoing_seq_no \notin DOMAIN log.records
              => w.log.records[outgoing_seq_no] = Pending(w.log)
    <3> DEFINE place == Pending(w.log)
    <3>1. w.log.records = insert(log.records, outgoing_seq_no, place)
      BY <1>3, <1>9
    <3> HIDE DEF place
    <3>2. /\ DOMAIN w.log.records = DOMAIN log.records \cup {outgoing_seq_no}
          /\ \A n \in DOMAIN log.records : w.log.records[n] = log.records[n]
          /\ outgoing_seq_no \notin DOMAIN log.records
                => w.log.records[outgoing_seq_no] = place
      BY <3>1 DEF insert, insert_all
    <3> QED BY <3>2 DEF place
  <2>3. ASSUME NEW n \in Nat, n \notin doubtful' PROVE Certain(n)'
    <3>1. Certain(n)
      BY <2>1, <2>3 DEF FaithInv
    <3>2. ASSUME 1 <= n, n <= Taken PROVE Held(n)'
      <4>1. Held(n)
        BY <3>1, <3>2 DEF Certain
      <4>2. n \in DOMAIN log.records /\ read_message(log, n).id = counted[n]
        BY <1>4, <4>1 DEF Held
      <4>3. n \in DOMAIN w.log.records /\ read_message(w.log, n) = read_message(log, n)
        BY <1>7, <2>2, <4>2 DEF read_message
      <4> QED BY <1>4, <1>8, <4>1, <4>2, <4>3 DEF Held
    <3>3. ASSUME Taken < n PROVE Free(n)'
      <4>1. n \notin DOMAIN log.records /\ (Tagged(log.files, n) => n \in impostors)
        BY <1>4, <3>1, <3>3 DEF Certain, Free
      <4> QED BY <1>4, <1>8, <2>1, <2>2, <4>1 DEF Free
    <3> QED BY <2>1, <3>2, <3>3 DEF Certain
  <2>4. HandOK'
    <3>1. /\ outgoing_seq_no \in DOMAIN w.log.records
          /\ MessageAt(w.log.files, Pending(w.log)) = Record(out)
      BY <1>3, <1>9, <2>2 DEF m
    <3> QED BY <1>4, <1>9, <2>1, <3>1 DEF FaithInv, HandOK, InWriting
  <2> QED BY <2>3, <2>4 DEF FaithInv
<1>10. CASE ~w.stored
  <2>1. HandOK' /\ Taken' = outgoing_seq_no /\ pc' \in {"replaying", "idle"}
    BY <1>4, <1>10, DoneHand
  <2>2. ASSUME NEW n \in Nat, n \notin doubtful' PROVE Certain(n)'
    <3>1. Certain(n) /\ (InWriting => n # outgoing_seq_no)
      BY <1>4, <1>6, <1>10, <2>2 DEF FaithInv
    <3>2. ASSUME 1 <= n, n <= outgoing_seq_no PROVE Held(n)'
      <4>1. n <= Taken
        BY <1>5, <1>6, <3>1, <3>2
      <4>2. Held(n)
        BY <3>1, <3>2, <4>1 DEF Certain
      <4>3. n \in DOMAIN log.records /\ read_message(log, n).id = counted[n]
        BY <1>4, <4>2 DEF Held
      <4>4. n \in DOMAIN w.log.records /\ read_message(w.log, n) = read_message(log, n)
        BY <1>3, <1>7, <1>10, <4>3 DEF read_message
      <4> QED BY <1>4, <1>8, <4>2, <4>3, <4>4 DEF Held
    <3>3. ASSUME outgoing_seq_no < n PROVE Free(n)'
      <4>1. Taken < n
        BY <1>5, <1>6, <3>3
      <4>2. n \notin DOMAIN log.records /\ (Tagged(log.files, n) => n \in impostors)
        BY <1>4, <3>1, <4>1 DEF Certain, Free
      <4> QED BY <1>3, <1>4, <1>8, <1>10, <4>2 DEF Free
    <3> QED BY <2>1, <3>2, <3>3 DEF Certain
  <2> QED BY <2>1, <2>2 DEF FaithInv
<1> QED BY <1>3, <1>9, <1>10

LEMMA CountRecordFaith ==
    ASSUME LogInv, FaithInv, CountRecord
    PROVE  FaithInv'
<1> DEFINE k == update_no_of_messages(log)
           new == Pending(log)
           m == Record(out)
<1>1. /\ LogShape(log) /\ log.written = LastFile(log).count
      /\ Len(LastFile(log).slots) > log.written
      /\ Indexed(log.records, Counted(log.files) \cup {new})
  <2>1. /\ LogShape(log) /\ log.written = LastFile(log).count
        /\ Len(LastFile(log).slots) = log.written + 1
        /\ Indexed(log.records, Counted(log.files) \cup {new})
    BY DEF LogInv, FilesInv, CountRecord, Reachable
  <2>2. log.written \in Nat
    BY <2>1, FileAssumption DEF LogShape
  <2> QED BY <2>1, <2>2
<1>2. /\ Keeps(log, k) /\ k.records = log.records
      /\ Counted(k.files) = Counted(log.files) \cup {new}
      /\ MessageAt(k.files, new) = MessageAt(log.files, new)
      /\ \A p \in Counted(log.files) : Before(p, new)
  BY <1>1, CountShape
<1> HIDE DEF k
<1>3. /\ log' = k /\ pc = "stored" /\ Done
      /\ UNCHANGED <<replay, outgoing_seq_no, counted, impostors, doubtful>>
  BY DEF CountRecord, history, k
<1>4. outgoing_seq_no \in Nat /\ out.seq \in Nat
  BY LogTypes
<1>5. HandOK' /\ Taken' = outgoing_seq_no /\ pc' \in {"replaying", "idle"}
  BY <1>3, DoneHand
<1>6. /\ outgoing_seq_no \in DOMAIN log.records /\ MessageAt(log.files, new) = m
      /\ m.seq = out.seq /\ m.id = out.id
  BY <1>3 DEF FaithInv, HandOK, Record
<1> HIDE DEF new, m
<1>7. \A n \in DOMAIN log.records : MessageAt(k.files, log.records[n]) = MessageAt(log.files, log.records[n])
  BY <1>1, <1>2 DEF Indexed, Keeps
<1>8. \A n : /\ Tagged(k.files, n) => Tagged(log.files, n) \/ n = out.seq
             /\ \A id : Kept(log.files, n, id) => Kept(k.files, n, id)
             /\ n = out.seq /\ ~Tagged(log.files, n) => Kept(k.files, n, out.id)
  <2>1. MessageAt(k.files, new) = m
    BY <1>2, <1>6
  <2>2. ASSUME NEW n
        PROVE  /\ Tagged(k.files, n) => Tagged(log.files, n) \/ n = m.seq
               /\ \A id : Kept(log.files, n, id) => Kept(k.files, n, id)
               /\ n = m.seq /\ ~Tagged(log.files, n) => Kept(k.files, n, m.id)
    BY <1>2, <2>1, OneMoreRecord
  <2> QED BY <1>6, <2>2
(* A number that was in the log before.                                    *)
<1>9. ASSUME NEW n \in Nat, Held(n) PROVE Held(n)'
  <2>1. n \in DOMAIN log.records /\ read_message(log, n).id = counted[n]
    BY <1>3, <1>9 DEF Held
  <2>2. n \in DOMAIN k.records /\ read_message(k, n) = read_message(log, n)
    BY <1>2, <1>7, <2>1 DEF read_message
  <2> QED BY <1>3, <1>8, <1>9, <2>1, <2>2 DEF Held
<1>10. CASE InWriting
  <2>1. /\ Taken = outgoing_seq_no - 1 /\ out.seq = outgoing_seq_no
        /\ outgoing_seq_no \in DOMAIN counted /\ counted[outgoing_seq_no] = out.id
    BY <1>10 DEF Taken, FaithInv, HandOK
  <2>2. ASSUME NEW n \in Nat, n \notin doubtful PROVE Certain(n)'
    <3>1. Certain(n)
      BY <2>2 DEF FaithInv
    <3>2. CASE n < outgoing_seq_no
      <4>1. n <= Taken
        BY <1>4, <2>1, <3>2
      <4> QED BY <1>4, <1>5, <1>9, <3>1, <3>2, <4>1 DEF Certain
    <3>3. CASE n = outgoing_seq_no
      <4>1. Free(n)
        BY <1>4, <2>1, <3>1, <3>3 DEF Certain
      <4>2. /\ log.records[n] = new /\ n \in DOMAIN log.records
            /\ ~(n \in impostors) => ~Tagged(log.files, n)
        BY <1>6, <3>3, <4>1 DEF Free, new
      <4>3. n \in DOMAIN k.records /\ read_message(k, n).id = out.id
        BY <1>2, <1>6, <4>2 DEF read_message
      <4>4. n \notin impostors => Kept(k.files, n, out.id)
        BY <1>8, <2>1, <3>3, <4>2
      <4>5. Held(n)'
        BY <1>3, <2>1, <3>3, <4>3, <4>4 DEF Held
      <4> QED BY <1>4, <1>5, <3>3, <4>5 DEF Certain
    <3>4. CASE outgoing_seq_no < n
      <4>1. Free(n) /\ n # outgoing_seq_no /\ ~(n <= outgoing_seq_no)
        BY <1>4, <2>1, <3>1, <3>4 DEF Certain
      <4>2. Free(n)'
        BY <1>2, <1>3, <1>8, <2>1, <4>1 DEF Free
      <4> QED BY <1>5, <4>1, <4>2 DEF Certain
    <3> QED BY <1>4, <3>2, <3>3, <3>4
  <2> QED BY <1>3, <1>5, <2>2 DEF FaithInv
<1>11. CASE ~InWriting
  <2>1. /\ Taken = outgoing_seq_no
        /\ out.seq <= outgoing_seq_no \/ out.seq \in impostors
    <3>1. ~(out.fresh /\ out.sent)
      BY <1>3, <1>11 DEF InWriting
    <3> QED BY <1>3, <1>11, <3>1 DEF Taken, FaithInv, HandOK
  <2>2. ASSUME NEW n \in Nat, n \notin doubtful PROVE Certain(n)'
    <3>1. Certain(n)
      BY <2>2 DEF FaithInv
    <3>2. ASSUME 1 <= n, n <= outgoing_seq_no PROVE Held(n)'
      BY <1>9, <2>1, <3>1, <3>2 DEF Certain
    <3>3. ASSUME outgoing_seq_no < n PROVE Free(n)'
      <4>1. Free(n) /\ n # outgoing_seq_no
        BY <1>4, <2>1, <3>1, <3>3 DEF Certain
      <4>2. n = out.seq => n \in impostors
        BY <1>4, <2>1, <3>3
      <4> QED BY <1>2, <1>3, <1>8, <4>1, <4>2 DEF Free
    <3> QED BY <1>5, <3>2, <3>3 DEF Certain
  <2> QED BY <1>3, <1>5, <2>2 DEF FaithInv
<1> QED BY <1>10, <1>11

-----------------------------------------------------------------------------
(* Numbers that are set, and processes that die and start                  *)

LEMMA SetFaith ==
    ASSUME LogInv, FaithInv, NEW n \in Numbers, set_outgoing_seq_no(n)
    PROVE  FaithInv'
<1>1. /\ pc = "idle" /\ pc' = "idle" /\ outgoing_seq_no' = n
      /\ UNCHANGED <<log, replay, counted, impostors>>
      /\ doubtful' = doubtful \cup (outgoing_seq_no + 1 .. n)
                        \cup {k \in LogTags \cup DOMAIN log.records : k > n}
  BY DEF set_outgoing_seq_no
<1>2. outgoing_seq_no \in Nat /\ n \in Nat
  BY LogTypes, LogAssumption DEF Numbers
<1>3. Taken = outgoing_seq_no /\ Taken' = n
  BY <1>1 DEF Taken, InWriting
<1>4. ASSUME NEW k \in Nat, k \notin doubtful' PROVE Certain(k)'
  <2>1. Certain(k) /\ k \notin outgoing_seq_no + 1 .. n
    BY <1>1, <1>4 DEF FaithInv
  <2>2. ASSUME 1 <= k, k <= n PROVE Held(k)'
    <3>1. k <= outgoing_seq_no
      BY <1>2, <2>1, <2>2
    <3> QED BY <1>1, <1>3, <2>1, <2>2, <3>1 DEF Certain, Held
  <2>3. ASSUME n < k PROVE Free(k)'
    <3>1. k \notin LogTags /\ k \notin DOMAIN log.records
      BY <1>1, <1>2, <1>4, <2>3
    <3>2. ~Tagged(log.files, k)
      BY <3>1 DEF LogTags, Tagged
    <3> QED BY <1>1, <3>1, <3>2 DEF Free
  <2> QED BY <1>3, <2>2, <2>3 DEF Certain
<1>5. HandOK'
  <2>1. replay.next > replay.last
    BY <1>1 DEF LogInv, SendInv
  <2>2. ~(replay.next <= replay.last)
    BY <2>1, LogTypes
  <2> QED BY <1>1, <2>2 DEF HandOK, InWriting
<1> QED BY <1>4, <1>5 DEF FaithInv

(* The index is built again on top of r, which leads where it led before:  *)
(* impostors that r does not know become doubtful.                         *)
LEMMA RebuildFaith ==
    ASSUME LogInv, FaithInv, NEW r, log' = initialise(r, log.files),
           pc \in {"idle", "dead"}, pc' = "idle",
           pc = "idle" => r = log.records, pc = "dead" => DOMAIN r = {},
           UNCHANGED <<outgoing_seq_no, counted, impostors>>,
           doubtful' = doubtful \cup (impostors \ DOMAIN r)
    PROVE  \A n \in Nat : n \notin doubtful' => Certain(n)'
<1> DEFINE k == initialise(r, log.files)
           index == process_existing_buffers(r, log.files)
<1>1. LogShape(log)
  BY LogTypes
<1>2. k.files = log.files /\ k.records = index
  BY <1>1, InitialiseShape
<1>3. \A n : /\ n \in DOMAIN r => n \in DOMAIN index /\ index[n] = r[n]
             /\ n \in DOMAIN index => n \in DOMAIN r \/ Tagged(log.files, n)
             /\ n \notin DOMAIN r /\ n # 0 => \A id : Kept(log.files, n, id) =>
                   n \in DOMAIN index /\ MessageAt(log.files, index[n]).id = id
  BY <1>1, RebuiltEntries
<1>4. log' = k /\ Taken = outgoing_seq_no /\ Taken' = outgoing_seq_no
  BY DEF Taken, InWriting
<1> HIDE DEF k, index
<1>5. ASSUME NEW n \in Nat, n \notin doubtful' PROVE Certain(n)'
  <2>1. Certain(n) /\ (n \in impostors => n \in DOMAIN r)
    BY <1>5 DEF FaithInv
  <2>2. ASSUME 1 <= n, n <= outgoing_seq_no PROVE Held(n)'
    <3>1. Held(n) /\ n # 0
      BY <1>4, <2>1, <2>2 DEF Certain
    <3>2. n \in DOMAIN k.records /\ read_message(k, n).id = counted[n]
      <4>1. CASE n \in DOMAIN r
        <5>1. r = log.records /\ read_message(log, n).id = counted[n]
          BY <3>1, <4>1 DEF Held
        <5> QED BY <1>2, <1>3, <4>1, <5>1 DEF read_message
      <4>2. CASE n \notin DOMAIN r
        <5>1. Kept(log.files, n, counted[n])
          BY <2>1, <3>1, <4>2 DEF Held
        <5> QED BY <1>2, <1>3, <3>1, <4>2, <5>1 DEF read_message
      <4> QED BY <4>1, <4>2
    <3> QED BY <1>2, <1>4, <3>1, <3>2 DEF Held
  <2>3. ASSUME outgoing_seq_no < n PROVE Free(n)'
    <3>1. Free(n)
      BY <1>4, <2>1, <2>3 DEF Certain
    <3>2. n \notin DOMAIN r
      BY <3>1 DEF Free
    <3>3. ~Tagged(log.files, n)
      BY <2>1, <3>1, <3>2 DEF Free
    <3>4. n \notin DOMAIN k.records
      BY <1>2, <1>3, <3>2, <3>3
    <3> QED BY <1>2, <1>4, <3>3, <3>4 DEF Free
  <2> QED BY <1>4, <2>2, <2>3 DEF Certain
<1> QED BY <1>5

LEMMA ReinitialiseFaith ==
    ASSUME LogInv, FaithInv, reinitialise_outgoing_serialiser
    PROVE  FaithInv'
<1>1. /\ pc = "idle" /\ pc' = "idle" /\ log' = initialise(log.records, log.files)
      /\ UNCHANGED <<outgoing_seq_no, replay, counted, impostors>>
      /\ doubtful' = doubtful \cup (impostors \ DOMAIN log.records)
  BY DEF reinitialise_outgoing_serialiser
<1>2. \A n \in Nat : n \notin doubtful' => Certain(n)'
  <2> DEFINE r == log.records
  <2>1. /\ log' = initialise(r, log.files) /\ r = log.records
        /\ doubtful' = doubtful \cup (impostors \ DOMAIN r)
    BY <1>1
  <2> HIDE DEF r
  <2> QED BY <1>1, <2>1, RebuildFaith DEF r
<1>3. HandOK'
  BY <1>1 DEF FaithInv, HandOK, InWriting
<1> QED BY <1>2, <1>3 DEF FaithInv

LEMMA RestartFaith ==
    ASSUME LogInv, FaithInv, Restart
    PROVE  FaithInv'
<1> DEFINE r == <<>>
<1>1. /\ pc = "dead" /\ pc' = "idle" /\ log' = initialise(r, log.files)
      /\ replay' = NoReplay
      /\ UNCHANGED <<outgoing_seq_no, counted, impostors>>
      /\ doubtful' = doubtful \cup impostors
  BY DEF Restart
<1>2. DOMAIN r = {}
  OBVIOUS
<1> HIDE DEF r
<1>3. doubtful' = doubtful \cup (impostors \ DOMAIN r)
  BY <1>1, <1>2
<1>4. \A n \in Nat : n \notin doubtful' => Certain(n)'
  BY <1>1, <1>2, <1>3, RebuildFaith
<1>5. HandOK'
  BY <1>1, LogTypes DEF HandOK, InWriting, NoReplay
<1> QED BY <1>4, <1>5 DEF FaithInv

LEMMA CrashFaith ==
    ASSUME LogInv, FaithInv, Crash
    PROVE  FaithInv'
<1>1. /\ Die /\ UNCHANGED <<outgoing_seq_no, counted, impostors>>
      /\ doubtful \subseteq doubtful' /\ (InWriting => outgoing_seq_no \in doubtful')
  BY DEF Crash, InWriting
<1> QED BY <1>1, DieFaith

LEMMA FaithInit ==
    ASSUME Init
    PROVE  FaithInv
<1> DEFINE r == process_existing_buffers(<<>>, <<>>)
<1>1. DOMAIN r = {}
  BY DEF process_existing_buffers, insert_all, Counted
<1> HIDE DEF r
<1>2. /\ log = [files |-> <<EmptyFile>>, written |-> 0, records |-> r, mapped |-> TRUE]
      /\ outgoing_seq_no = 0 /\ pc = "idle" /\ replay = NoReplay
  BY DEF Init, initialise, r
<1>3. log.files = <<EmptyFile>> /\ DOMAIN log.records = {}
  BY <1>1, <1>2
<1>4. \A n : ~Tagged(log.files, n)
  <2>1. \A f \in DOMAIN <<EmptyFile>> : <<EmptyFile>>[f].count = 0
    BY DEF EmptyFile
  <2>2. Counted(log.files) = {}
    BY <1>3, <2>1, FileAssumption DEF Counted
  <2> QED BY <2>2 DEF Tagged
<1>5. Taken = 0
  BY <1>2 DEF Taken, InWriting
<1>6. \A n \in Nat : Certain(n)
  BY <1>3, <1>4, <1>5 DEF Certain, Free
<1>7. HandOK
  BY <1>2 DEF HandOK, InWriting, NoReplay
<1> QED BY <1>6, <1>7 DEF FaithInv

LEMMA FaithStep ==
    ASSUME LogInv, FaithInv, [Next]_vars
    PROVE  FaithInv'
<1>1. CASE \E big, sent \in BOOLEAN : SendNew(big, sent)
  BY <1>1, SendNewFaith
<1>2. CASE increment_outgoing_seq_no
  BY <1>2, IncrementFaith
<1>3. CASE \E can_open \in BOOLEAN : WriteLog(can_open)
  BY <1>3, WriteLogFaith
<1>4. CASE CountRecord
  BY <1>4, CountRecordFaith
<1>5. CASE \E begin \in 1 .. MaxMessages, end \in Numbers : RespondToResendRequest(begin, end)
  BY <1>5, RespondFaith
<1>6. CASE \E sent \in BOOLEAN : ReplayNext(sent)
  BY <1>6, ReplayNextFaith
<1>7. CASE ReplayToNobody
  BY <1>7, ReplayToNobodyFaith
<1>8. CASE \E n \in Numbers : set_outgoing_seq_no(n)
  BY <1>8, SetFaith
<1>9. CASE reinitialise_outgoing_serialiser
  BY <1>9, ReinitialiseFaith
<1>10. CASE Crash
  BY <1>10, CrashFaith
<1>11. CASE Restart
  BY <1>11, RestartFaith
<1>12. CASE UNCHANGED vars
  BY <1>12 DEF vars, history, FaithInv, HandOK, InWriting, Certain, Taken, Held, Free
<1> QED
  BY <1>1, <1>2, <1>3, <1>4, <1>5, <1>6, <1>7, <1>8, <1>9, <1>10, <1>11, <1>12 DEF Next

(* A number that was sent is replayed with the message that took it, over  *)
(* any switches of files, repetitions, gap fills, failed sends, promotions *)
(* and restarts: the index that send_bytes fills and the one that          *)
(* process_existing_buffers rebuilds both lead there.  Only the numbers in *)
(* doubtful are excepted.                                                  *)
THEOREM ReplaysAreFaithful == Spec => []ReplayFaithful
<1>1. LogInv /\ FaithInv => ReplayFaithful
  <2> SUFFICES ASSUME LogInv, FaithInv, pc \in {"idle", "replaying"},
                      NEW n \in (1 .. outgoing_seq_no) \ doubtful
               PROVE  has_message_in_memory(log, n) /\ read_message(log, n).id = counted[n]
    BY DEF ReplayFaithful
  <2>1. Taken = outgoing_seq_no
    BY DEF Taken, InWriting
  <2>2. n \in Nat /\ 1 <= n /\ n <= outgoing_seq_no
    BY LogTypes
  <2>3. Held(n)
    BY <2>1, <2>2 DEF FaithInv, Certain
  <2> QED BY <2>3 DEF Held, has_message_in_memory
<1>2. Init => LogInv /\ FaithInv
  BY LogInit, FaithInit
<1>3. (LogInv /\ FaithInv) /\ [Next]_vars => (LogInv /\ FaithInv)'
  BY LogStep, FaithStep
<1> QED BY <1>1, <1>2, <1>3, PTL DEF Spec

=============================================================================
