-------------------------- MODULE MessageSerialiser --------------------------
(***************************************************************************)
(* message_serialiser.h: the log of the messages of a session.  The log is *)
(* a series of memory mapped files of a fixed size; each begins with the   *)
(* number of its messages, which is written last.  In memory the           *)
(* serialiser keeps which file it is in, how far it has written and, to    *)
(* replay messages, where the first record of every sequence number is.    *)
(*                                                                         *)
(* A mapped file keeps what was written when the process dies.  A message  *)
(* is [seq, id]: its tag 34, which is all that the serialiser reads of it, *)
(* and what tells it from others.  All messages but the too large ones     *)
(* have one size, so that a position is a slot and files have FileSlots.   *)
(***************************************************************************)
EXTENDS Naturals, Sequences

CONSTANT FileSlots   \* messages that serialised_file_max_size has room for

ASSUME FileAssumption == FileSlots \in Nat \ {0}

(* A file as it is created: zeros.                                         *)
EmptyFile == [count |-> 0, slots |-> <<>>]

(* Everything a file says it holds.                                        *)
Counted(files) == {p \in (DOMAIN files) \X (1 .. FileSlots) : p[2] <= files[p[1]].count}

MessageAt(files, place) == files[place[1]].slots[place[2]]

Before(a, b) == a[1] < b[1] \/ (a[1] = b[1] /\ a[2] < b[2])

(* m_message_memory_records.insert, of several records: the first record   *)
(* of a number stays.                                                      *)
insert_all(records, more) ==
    [n \in DOMAIN records \cup DOMAIN more |->
        IF n \in DOMAIN records THEN records[n] ELSE more[n]]

insert(records, seq, place) == insert_all(records, [n \in {seq} |-> place])

(* Mutant: the last record of a number counts.                             *)
process_existing_buffers_last(records, files) ==
    LET numbers == {MessageAt(files, p).seq : p \in Counted(files)} \ {0}
        Last(n) == CHOOSE p \in Counted(files) :
                      /\ MessageAt(files, p).seq = n
                      /\ \A q \in Counted(files) :
                            MessageAt(files, q).seq = n => q = p \/ Before(q, p)
    IN  insert_all(records, [n \in numbers |-> Last(n)])

(* process_existing_buffer over all files: the number of a record is its   *)
(* tag 34, whatever number it was written under, and whether it was sent   *)
(* is not looked at.  Records that the serialiser had already are kept.    *)
process_existing_buffers(records, files) ==
    LET numbers == {MessageAt(files, p).seq : p \in Counted(files)} \ {0}
        First(n) == CHOOSE p \in Counted(files) :
                      /\ MessageAt(files, p).seq = n
                      /\ \A q \in Counted(files) :
                            MessageAt(files, q).seq = n => q = p \/ Before(p, q)
    IN  insert_all(records, [n \in numbers |-> First(n)])

(* Mutant: the latest file is written from its beginning again.            *)
initialise_at_start(records, files) ==
    [files |-> IF files = <<>> THEN <<EmptyFile>> ELSE files,
     written |-> 0,
     records |-> process_existing_buffers(records, files),
     mapped |-> TRUE]

(* initialise: the latest file is the current one and is continued after   *)
(* the messages it counts.  A folder without files gets its first one.     *)
initialise(records, files) ==
    [files |-> IF files = <<>> THEN <<EmptyFile>> ELSE files,
     written |-> IF files = <<>> THEN 0 ELSE files[Len(files)].count,
     records |-> process_existing_buffers(records, files),
     mapped |-> TRUE]

switch_to_next_memory_mapped_file(log) ==
    [log EXCEPT !.files = Append(@, EmptyFile), !.written = 0]

(* Mutant: the bytes of the header are forgotten.                          *)
FitsLoosely(log, big) == ~big /\ log.written <= FileSlots

Fits(log, big) == ~big /\ log.written < FileSlots

(* Mutant: the offset is taken one record too early.                       *)
StoreMisplaced(log, m, seq) ==
    LET f == Len(log.files)
    IN  [log EXCEPT !.files[f].slots = Append(SubSeq(@, 1, log.written), m),
                    !.records = insert(@, seq, <<f, log.written>>)]

(* The record is stored after the cursor and put in the index; what was    *)
(* there, from a write that was cut short, is overwritten.                 *)
Store(log, m, seq) ==
    LET f == Len(log.files)
    IN  [log EXCEPT !.files[f].slots = Append(SubSeq(@, 1, log.written), m),
                    !.records = insert(@, seq, <<f, log.written + 1>>)]

(* write, up to its last statement: the possible logs and whether the      *)
(* record was stored.  can_open: the next file could be created.           *)
write(log, m, big, seq, can_open) ==
    LET next == switch_to_next_memory_mapped_file(log)
    IN  CASE ~log.mapped -> [log |-> log, stored |-> FALSE]
          [] log.mapped /\ Fits(log, big) -> [log |-> Store(log, m, seq), stored |-> TRUE]
          [] log.mapped /\ ~Fits(log, big) /\ ~can_open ->
                [log |-> [log EXCEPT !.mapped = FALSE], stored |-> FALSE]
          [] log.mapped /\ ~Fits(log, big) /\ can_open /\ Fits(next, big) ->
                [log |-> Store(next, m, seq), stored |-> TRUE]
          [] OTHER -> [log |-> next, stored |-> FALSE]

(* The last statement of write.                                            *)
update_no_of_messages(log) ==
    [log EXCEPT !.files[Len(log.files)].count = log.written + 1,
                !.written = @ + 1]

has_message_in_memory(log, seq) == seq \in DOMAIN log.records

(* A record of the current file is read through the mapping, which is      *)
(* gone when the next file could not be opened.                            *)
CanRead(log, seq) == log.mapped \/ log.records[seq][1] # Len(log.files)

read_message(log, seq) == MessageAt(log.files, log.records[seq])
=============================================================================
