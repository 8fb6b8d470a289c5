----------------------------- MODULE OutgoingLog -----------------------------
(***************************************************************************)
(* What a session remembers of the messages it sent: send_bytes of         *)
(* fix_client.h and fix_server.h over the SequenceStore and the outgoing   *)
(* MessageSerialiser, the answers to ResendRequests, and a process that    *)
(* may die between any two of the steps and start again.                   *)
(*                                                                         *)
(* send_bytes sends, then increments the outgoing number if the message    *)
(* left, then writes the log, under the number that is current then.  The  *)
(* number and the log are memory mapped files: they keep what a step has   *)
(* written when the process dies; the index of the log does not.           *)
(***************************************************************************)
EXTENDS MessageSerialiser

CONSTANTS
    MaxMessages,        \* bound: messages that are built, and the numbers
    MaxFiles,           \* bound: files of the log
    MaxEvents,          \* bound: ResendRequests, renumberings, crashes, promotions
    max_resend_range    \* setting

ASSUME LogAssumption ==
    /\ MaxMessages \in Nat /\ MaxFiles \in Nat \ {0} /\ MaxEvents \in Nat
    /\ max_resend_range \in Nat

S == INSTANCE FixSession

VARIABLES
    log,               \* the serialiser; log.files are on disk
    outgoing_seq_no,   \* SequenceStore, on disk
    pc,                \* where send_bytes and the replay around it are
    out,               \* the message in hand, see Out
    replay             \* the numbers that remain to be replayed: [next, last]

(* History, which no action reads: for the properties.                     *)
VARIABLES
    events,        \* see MaxEvents
    built,         \* messages built; each has its count as identity
    counted,       \* number -> identity of the message that took it
    transmitted,   \* [seq, id] of the messages that left, repetitions apart
    impostors,     \* numbers in the log on messages that did not take them
    doubtful,      \* numbers of which the log promises nothing
    reusable       \* numbers that may belong to two messages

history == <<events, built, counted, transmitted, impostors, doubtful, reusable>>
vars == <<log, outgoing_seq_no, pc, out, replay, history>>

Numbers == 0 .. MaxMessages
GapFillId == 0

(* fresh: sent with send_bytes<true>, which increments the number.         *)
Out == [seq : 0 .. MaxMessages + 1, id : Numbers, big : BOOLEAN,
        fresh : BOOLEAN, sent : BOOLEAN]

Nothing == [seq |-> 0, id |-> 0, big |-> FALSE, fresh |-> FALSE, sent |-> FALSE]

Record(m) == [seq |-> m.seq, id |-> m.id]

(* counted, once message id has taken number n.                            *)
Taking(n, id) == [k \in DOMAIN counted \cup {n} |-> IF k = n THEN id ELSE counted[k]]

NoReplay == [next |-> 1, last |-> 0]

Event == events < MaxEvents /\ events' = events + 1

(* The process is gone, and its memory with it.                            *)
Die ==
    /\ pc' = "dead" /\ out' = Nothing /\ replay' = NoReplay
    /\ log' = [log EXCEPT !.records = <<>>, !.written = 0]

Init ==
    /\ log = initialise(<<>>, <<>>)
    /\ outgoing_seq_no = 0
    /\ pc = "idle" /\ out = Nothing /\ replay = NoReplay
    /\ events = 0 /\ built = 0 /\ counted = <<>> /\ transmitted = {}
    /\ impostors = {} /\ doubtful = {} /\ reusable = {}

-----------------------------------------------------------------------------
(* send_bytes                                                              *)

(* A new message is encoded with the next number and sent; sent says       *)
(* whether it left.                                                        *)
SendNew(big, sent) ==
    /\ pc = "idle"
    /\ built < MaxMessages /\ outgoing_seq_no < MaxMessages
    /\ built' = built + 1
    /\ out' = [seq |-> outgoing_seq_no + 1, id |-> built + 1, big |-> big,
               fresh |-> TRUE, sent |-> sent]
    /\ transmitted' = transmitted \cup (IF sent THEN {Record(out')} ELSE {})
    /\ impostors' = impostors \cup (IF sent THEN {} ELSE {out'.seq})
    /\ pc' = "sent"
    /\ UNCHANGED <<log, outgoing_seq_no, replay, events, counted, doubtful, reusable>>

(* Mutant: the increment is only done for messages that were not sent.     *)
increment_outgoing_seq_no_swapped ==
    /\ pc = "sent"
    /\ pc' = "incremented"
    /\ IF out.fresh /\ ~out.sent
       THEN /\ outgoing_seq_no' = outgoing_seq_no + 1
            /\ counted' = Taking(outgoing_seq_no + 1, out.id)
       ELSE UNCHANGED <<outgoing_seq_no, counted>>
    /\ UNCHANGED <<log, out, replay, events, built, transmitted, impostors, doubtful,
                   reusable>>

(* Only a message that left takes its number.                              *)
increment_outgoing_seq_no ==
    /\ pc = "sent"
    /\ pc' = "incremented"
    /\ IF out.fresh /\ out.sent
       THEN /\ outgoing_seq_no' = outgoing_seq_no + 1
            /\ counted' = Taking(outgoing_seq_no + 1, out.id)
       ELSE UNCHANGED <<outgoing_seq_no, counted>>
    /\ UNCHANGED <<log, out, replay, events, built, transmitted, impostors, doubtful,
                   reusable>>

(* The end of send_bytes: the replay goes on, or there is none.            *)
Done ==
    /\ pc' = IF replay.next <= replay.last THEN "replaying" ELSE "idle"
    /\ out' = Nothing

(* write, up to the store.  can_open: a next file can be created.          *)
WriteLog(can_open) ==
    LET w == write(log, Record(out), out.big, outgoing_seq_no, can_open)
    IN  /\ pc = "incremented"
        /\ Len(w.log.files) <= MaxFiles
        /\ log' = w.log
        /\ IF w.stored THEN pc' = "stored" /\ UNCHANGED out ELSE Done
        /\ doubtful' = doubtful \cup (IF ~w.stored /\ out.fresh /\ out.sent
                                      THEN {outgoing_seq_no} ELSE {})
        /\ UNCHANGED <<outgoing_seq_no, replay, events, built, counted, transmitted,
                       impostors, reusable>>

(* The last statement of write.                                            *)
CountRecord ==
    /\ pc = "stored"
    /\ log' = update_no_of_messages(log)
    /\ Done
    /\ UNCHANGED <<outgoing_seq_no, replay, history>>

-----------------------------------------------------------------------------
(* Answering a ResendRequest                                               *)

WillReplay(begin, end) ==
    S!WillReplay([incoming_resend_request_begin_no |-> begin,
                  incoming_resend_request_end_no |-> end,
                  outgoing_seq_no |-> outgoing_seq_no],
                 TRUE, max_resend_range, DOMAIN log.records)

(* respond_to_resend_request_if_necessary.  A gap fill carries the number  *)
(* that was asked for, even one that no message has had.                   *)
RespondToResendRequest(begin, end) ==
    /\ pc = "idle" /\ Event
    /\ \/ /\ WillReplay(begin, end)
          /\ replay' = [next |-> begin, last |-> outgoing_seq_no]
          /\ pc' = "replaying"
          /\ UNCHANGED <<out, impostors>>
       \/ /\ ~WillReplay(begin, end)
          /\ \E sent \in BOOLEAN :
                out' = [seq |-> begin, id |-> GapFillId, big |-> FALSE,
                        fresh |-> FALSE, sent |-> sent]
          /\ impostors' = impostors \cup
                (IF begin > outgoing_seq_no THEN {begin} ELSE {})
          /\ pc' = "sent"
          /\ UNCHANGED replay
    /\ UNCHANGED <<log, outgoing_seq_no, built, counted, transmitted, doubtful, reusable>>

(* An iteration of resend_messages_to_server (_to_client): the record is   *)
(* read and sent again under its number.  When its file is no longer       *)
(* mapped the read is through a null pointer.                              *)
ReplayNext(sent) ==
    /\ pc = "replaying"
    /\ \/ /\ ~CanRead(log, replay.next)
          /\ Die
       \/ /\ CanRead(log, replay.next)
          /\ out' = [seq |-> replay.next, id |-> read_message(log, replay.next).id,
                     big |-> FALSE, fresh |-> FALSE, sent |-> sent]
          /\ replay' = [replay EXCEPT !.next = @ + 1]
          /\ pc' = "sent"
          /\ UNCHANGED log
    /\ UNCHANGED <<outgoing_seq_no, history>>

(* The server has no connection for the session any more: send_bytes       *)
(* returns at once and the loop goes on.                                   *)
ReplayToNobody ==
    /\ pc = "replaying"
    /\ CanRead(log, replay.next)
    /\ replay' = [replay EXCEPT !.next = @ + 1]
    /\ pc' = IF replay.next < replay.last THEN "replaying" ELSE "idle"
    /\ UNCHANGED <<log, outgoing_seq_no, out, history>>

-----------------------------------------------------------------------------
(* The numbers are set from outside: Logon with 141=Y, SequenceReset and   *)
(* the administrator's set_outgoing.  The log is left as it is.            *)
LogTags == {MessageAt(log.files, p).seq : p \in Counted(log.files)}

set_outgoing_seq_no(n) ==
    /\ pc = "idle" /\ Event
    /\ outgoing_seq_no' = n
    /\ doubtful' = doubtful \cup (outgoing_seq_no + 1 .. n)
                      \cup {k \in LogTags \cup DOMAIN log.records : k > n}
    /\ reusable' = reusable \cup (n + 1 .. MaxMessages + 1)
    /\ UNCHANGED <<log, pc, out, replay, built, counted, transmitted, impostors>>

(* enable_session with refresh_resend_cache_during_promotion               *)
reinitialise_outgoing_serialiser ==
    /\ pc = "idle" /\ Event
    /\ log' = initialise(log.records, log.files)
    /\ doubtful' = doubtful \cup (impostors \ DOMAIN log.records)
    /\ UNCHANGED <<outgoing_seq_no, pc, out, replay, built, counted, transmitted,
                   impostors, reusable>>

(* The process dies, between any two steps, and starts again with what is  *)
(* on disk.                                                                *)
Crash ==
    /\ pc # "dead" /\ Event
    /\ Die
    /\ doubtful' = doubtful \cup
          (IF pc \in {"incremented", "stored"} /\ out.fresh /\ out.sent
           THEN {outgoing_seq_no} ELSE {})
    /\ reusable' = reusable \cup
          (IF pc = "sent" /\ out.fresh /\ out.sent THEN {out.seq} ELSE {})
    /\ UNCHANGED <<outgoing_seq_no, built, counted, transmitted, impostors>>

Restart ==
    /\ pc = "dead"
    /\ log' = initialise(<<>>, log.files)
    /\ pc' = "idle" /\ out' = Nothing /\ replay' = NoReplay
    /\ doubtful' = doubtful \cup impostors
    /\ UNCHANGED <<outgoing_seq_no, events, built, counted, transmitted, impostors,
                   reusable>>

Next ==
    \/ \E big, sent \in BOOLEAN : SendNew(big, sent)
    \/ increment_outgoing_seq_no
    \/ \E can_open \in BOOLEAN : WriteLog(can_open)
    \/ CountRecord
    \/ \E begin \in 1 .. MaxMessages, end \in Numbers : RespondToResendRequest(begin, end)
    \/ \E sent \in BOOLEAN : ReplayNext(sent)
    \/ ReplayToNobody
    \/ \E n \in Numbers : set_outgoing_seq_no(n)
    \/ reinitialise_outgoing_serialiser
    \/ Crash
    \/ Restart

Spec == Init /\ [][Next]_vars

-----------------------------------------------------------------------------
Place == (1 .. MaxFiles) \X (1 .. FileSlots)

(* Types: a file never holds, nor says it holds, more than it has room     *)
(* for, and every place of the index lies inside a file of the log.        *)
TypeOK ==
    /\ \A f \in DOMAIN log.files :
          /\ log.files[f].count \in 0 .. FileSlots
          /\ Len(log.files[f].slots) \in log.files[f].count .. FileSlots
    /\ log.written \in 0 .. FileSlots /\ log.mapped \in BOOLEAN
    /\ \A n \in DOMAIN log.records : log.records[n] \in Place
    /\ outgoing_seq_no \in Numbers /\ out \in Out
    /\ pc \in {"idle", "sent", "incremented", "stored", "replaying", "dead"}

(* The index never leads to bytes that were not stored: what a replay      *)
(* reads is a complete message, whatever crashed, was cut short or did not *)
(* fit before.                                                             *)
IndexLeadsToRecords ==
    \A n \in DOMAIN log.records :
        LET p == log.records[n]
        IN  /\ p[1] \in DOMAIN log.files
            /\ p[2] \in 1 .. Len(log.files[p[1]].slots)
            /\ pc # "stored" => p \in Counted(log.files)

(* A number that was sent is replayed with the message that took it, over  *)
(* switches of files, repetitions, failed sends, crashes and restarts.     *)
(* Excepted are numbers whose record was not stored or was cut short by a  *)
(* crash, numbers that were set back or jumped over and, once the index    *)
(* was rebuilt from the log, numbers that the log has on a message that    *)
(* did not take them.                                                      *)
ReplayFaithful ==
    pc \in {"idle", "replaying"} =>
        \A n \in (1 .. outgoing_seq_no) \ doubtful :
            /\ has_message_in_memory(log, n)
            /\ read_message(log, n).id = counted[n]

(* Two messages leave under one number only when the process died after    *)
(* the send and before the increment, or the numbers were set back.        *)
NumbersNotReused ==
    \A a, b \in transmitted : a.seq = b.seq => a = b \/ a.seq \in reusable

(* The log is append only: a record that a file counts stays as it is,     *)
(* whatever is written, replayed, switched or restarted after it.          *)
LogAppendOnly ==
    [][\A p \in Counted(log.files) :
          /\ p \in Counted(log'.files)
          /\ MessageAt(log'.files, p) = MessageAt(log.files, p)]_vars
=============================================================================
