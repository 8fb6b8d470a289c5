----------------------------- MODULE FixSession -----------------------------
(***************************************************************************)
(* fix_session.h, session_state.h and sequence_store.h: the part of a FIX  *)
(* session that FixClient and FixServer share.  A session is a record; an  *)
(* operation of the C++ class that changes the session is an operator from *)
(* records to records.                                                     *)
(*                                                                         *)
(* The two sequence numbers live in the memory mapped SequenceStore: they  *)
(* are the number of the LAST message received and sent, and they are all  *)
(* that survives a restart of the process.                                 *)
(***************************************************************************)
EXTENDS Naturals

LiveStates == {"LOGGED_ON", "IN_RETRANSMISSION_INITIATED_BY_SELF",
               "IN_RETRANSMISSION_INITIATED_BY_PEER"}

SessionState == {"DISABLED", "DISCONNECTED", "LOGGED_OUT", "LOGON_REJECTED",
                 "PENDING_CONNECTION", "PENDING_LOGON", "PENDING_LOGOUT"}
                    \cup LiveStates

is_state_live(state) == state \in LiveStates

Session == [state : SessionState,
            incoming_seq_no : Nat,                    \* SequenceStore
            outgoing_seq_no : Nat,                    \* SequenceStore
            needs_to_send_resend_request : BOOLEAN,
            outgoing_resend_request_begin_no : Nat,
            outgoing_resend_request_end_no : Nat,
            needs_responding_to_incoming_resend_request : BOOLEAN,
            incoming_resend_request_begin_no : Nat,
            incoming_resend_request_end_no : Nat,
            needs_responding_to_incoming_test_request : BOOLEAN,
            expecting_response_for_outgoing_test_request : BOOLEAN,
            received_logout_response : BOOLEAN]

(* A session object as it is constructed, on the numbers that the sequence *)
(* store holds.                                                            *)
initialise(incoming, outgoing) ==
    [state |-> "DISCONNECTED",
     incoming_seq_no |-> incoming, outgoing_seq_no |-> outgoing,
     needs_to_send_resend_request |-> FALSE,
     outgoing_resend_request_begin_no |-> 0,
     outgoing_resend_request_end_no |-> 0,
     needs_responding_to_incoming_resend_request |-> FALSE,
     incoming_resend_request_begin_no |-> 0,
     incoming_resend_request_end_no |-> 0,
     needs_responding_to_incoming_test_request |-> FALSE,
     expecting_response_for_outgoing_test_request |-> FALSE,
     received_logout_response |-> FALSE]

(* SequenceStore::reset_numbers                                            *)
reset_numbers(s) == [s EXCEPT !.incoming_seq_no = 0, !.outgoing_seq_no = 0]

reset_flags(s) ==
    [s EXCEPT !.needs_responding_to_incoming_test_request = FALSE,
              !.expecting_response_for_outgoing_test_request = FALSE,
              !.needs_responding_to_incoming_resend_request = FALSE,
              !.needs_to_send_resend_request = FALSE,
              !.received_logout_response = FALSE]

-----------------------------------------------------------------------------
(* Messages.  APP stands for every business message, REJECT for 35=3 and   *)
(* 35=j.  tags_ok says that the tags the type needs (7 and 16, or 36) are  *)
(* there and numeric.                                                      *)

MsgType == {"APP", "HEARTBEAT", "TEST_REQUEST", "RESEND_REQUEST", "REJECT",
            "LOGON", "LOGOUT", "SEQUENCE_RESET"}

Message == [type : MsgType, seq : Nat, tags_ok : BOOLEAN,
            begin : Nat, end : Nat,           \* tags 7 and 16
            gap_fill : BOOLEAN, new : Nat]    \* tags 123 and 36

BasicMessage(type, seq) ==
    [type |-> type, seq |-> seq, tags_ok |-> TRUE,
     begin |-> 0, end |-> 0, gap_fill |-> FALSE, new |-> 0]

build_resend_request_message(s, seq) ==
    [BasicMessage("RESEND_REQUEST", seq)
        EXCEPT !.begin = s.outgoing_resend_request_begin_no]  \* end 0: to the last

(* Mutant: the gap fill promises one number too many.                      *)
build_gap_fill_message_beyond(s, seq) ==
    [BasicMessage("SEQUENCE_RESET", seq)
        EXCEPT !.gap_fill = TRUE, !.new = s.outgoing_seq_no + 2]

build_gap_fill_message(s, seq) ==
    [BasicMessage("SEQUENCE_RESET", seq)
        EXCEPT !.gap_fill = TRUE, !.new = s.outgoing_seq_no + 1]

build_sequence_reset_message(desired) ==
    [BasicMessage("SEQUENCE_RESET", desired) EXCEPT !.new = desired + 1]

is_a_hard_sequence_reset_message(m) == m.type = "SEQUENCE_RESET" /\ ~m.gap_fill

-----------------------------------------------------------------------------
(* Receiving                                                               *)

(* Mutants: the number of the message that was not there is kept, or two   *)
(* are given back.                                                         *)
queue_outgoing_resend_request_keeping(s, store_no, live_no) ==
    [s EXCEPT !.needs_to_send_resend_request = TRUE,
              !.incoming_seq_no = store_no,
              !.outgoing_resend_request_begin_no = store_no,
              !.outgoing_resend_request_end_no = live_no]

queue_outgoing_resend_request_twice_back(s, store_no, live_no) ==
    [s EXCEPT !.needs_to_send_resend_request = TRUE,
              !.incoming_seq_no = store_no - 2,
              !.outgoing_resend_request_begin_no = store_no,
              !.outgoing_resend_request_end_no = live_no]

queue_outgoing_resend_request(s, store_no, live_no) ==
    [s EXCEPT !.needs_to_send_resend_request = TRUE,
              !.incoming_seq_no = store_no - 1,
              !.outgoing_resend_request_begin_no = store_no,
              !.outgoing_resend_request_end_no = live_no]

(* The sequence number rules of process_incoming_fix_message.              *)
Expected(s) == s.incoming_seq_no + 1
IsHigh(s, m) == m.seq > Expected(s) /\ ~is_a_hard_sequence_reset_message(m)
(* Mutant: nothing is too low while repeated messages are expected.        *)
IsLowOutsideRetransmission(s, m) ==
    /\ s.state # "IN_RETRANSMISSION_INITIATED_BY_SELF"
    /\ m.seq < Expected(s) /\ ~is_a_hard_sequence_reset_message(m)
IsLow(s, m) == m.seq < Expected(s) /\ ~is_a_hard_sequence_reset_message(m)

(* The message is taken: the stored number advances, whatever number a     *)
(* hard sequence reset carries, and the message that the peer was asked    *)
(* to repeat up to ends a retransmission.                                  *)
Accept(s, m) ==
    [s EXCEPT !.incoming_seq_no = Expected(s),
              !.state = IF /\ @ = "IN_RETRANSMISSION_INITIATED_BY_SELF"
                           /\ m.seq = s.outgoing_resend_request_end_no
                        THEN "LOGGED_ON" ELSE @]

process_resend_request(s, m) ==
    IF m.tags_ok
    THEN [s EXCEPT !.state = "IN_RETRANSMISSION_INITIATED_BY_PEER",
                   !.incoming_resend_request_begin_no = m.begin,
                   !.incoming_resend_request_end_no = m.end,
                   !.needs_responding_to_incoming_resend_request = TRUE]
    ELSE s

process_test_request_message(s) ==
    IF s.expecting_response_for_outgoing_test_request
    THEN s
    ELSE [s EXCEPT !.needs_responding_to_incoming_test_request = TRUE]

(* A sequence reset may only move forward.  One that does not is answered  *)
(* with a Reject.                                                          *)
IsBackwardReset(s, m) == m.tags_ok /\ m.new <= s.incoming_seq_no

(* Mutant: NewSeqNo is taken for the last number instead of the next.      *)
process_incoming_sequence_reset_message_past(s, m) ==
    IF m.tags_ok /\ m.new > s.incoming_seq_no
    THEN [s EXCEPT !.incoming_seq_no = m.new, !.state = "LOGGED_ON"]
    ELSE s

process_incoming_sequence_reset_message(s, m) ==
    IF m.tags_ok /\ m.new > s.incoming_seq_no
    THEN [s EXCEPT !.incoming_seq_no = m.new - 1, !.state = "LOGGED_ON"]
    ELSE s

-----------------------------------------------------------------------------
(* Answering a ResendRequest: is everything from the requested number to   *)
(* the last one sent replayed, or is one gap fill sent?  in_memory is the  *)
(* set of numbers the outgoing serialiser still holds.                     *)
WillReplay(s, replay_enabled, max_resend_range, in_memory) ==
    LET begin == s.incoming_resend_request_begin_no
        last  == s.outgoing_seq_no
    IN  /\ replay_enabled
        /\ s.incoming_resend_request_end_no \in {0, last}
        /\ begin <= last
        /\ last > begin => last - begin + 1 <= max_resend_range
        /\ begin .. last \subseteq in_memory

ResendAnswered(s) ==
    [s EXCEPT !.needs_responding_to_incoming_resend_request = FALSE,
              !.state = "LOGGED_ON"]
=============================================================================
