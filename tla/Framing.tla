------------------------------- MODULE Framing -------------------------------
(***************************************************************************)
(* How the messages are found in the bytes that were received: the part of *)
(* process_rx_buffer of fix_client.h and fix_server.h that decides where a *)
(* message begins and ends, with the searches of fix_utilities.h.          *)
(*                                                                         *)
(* A buffer is a sequence of bytes.  Only five of them matter: those of    *)
(* "8=", of "10=" and the delimiter "|"; all others are "x".  Positions    *)
(* count from 1 and 0 stands for -1, not found.                            *)
(***************************************************************************)
EXTENDS Naturals, Sequences, FiniteSetsExt

Byte == {"8", "=", "1", "0", "|", "x"}

MINIMUM_REQUIRED_INITIAL_BUFFER_FOR_PARSING == 4

FirstOf(positions) == IF positions = {} THEN 0 ELSE Min(positions)
LastOf(positions)  == IF positions = {} THEN 0 ELSE Max(positions)

Delimiters(buffer) == {i \in DOMAIN buffer : buffer[i] = "|"}

find_delimiter_from_end(buffer) == LastOf(Delimiters(buffer))

IsTag10At(buffer, i) ==
    i + 2 <= Len(buffer) /\ SubSeq(buffer, i, i + 2) = <<"1", "0", "=">>

(* Backwards from index, the last bytes that read "10=", which may also be *)
(* the end of a longer tag or lie in a value, and the delimiter after it.  *)
find_tag10_start_from_end(buffer, index) ==
    LET start == LastOf({i \in 1 .. index : IsTag10At(buffer, i)})
    IN  IF start = 0 THEN 0 ELSE FirstOf({j \in Delimiters(buffer) : j >= start + 2})

(* The first "8=" at or after read.                                        *)
find_begin_string_position(buffer, read) ==
    FirstOf({i \in read .. Len(buffer) - 1 : buffer[i] = "8" /\ buffer[i + 1] = "="})

(* A field reaches from the delimiter before it to its own.                *)
FieldStart(buffer, begin, delimiter) ==
    LastOf({begin} \cup {i + 1 : i \in {k \in Delimiters(buffer) : begin <= k /\ k < delimiter}})

(* The loop over the tags of the message at begin ends with its tag 10, or *)
(* with the buffer.                                                        *)
TagLoop(buffer, begin) ==
    FirstOf({j \in Delimiters(buffer) :
                j >= begin /\ IsTag10At(buffer, FieldStart(buffer, begin, j))})

(* The beginning of process_rx_buffer: what ends the last message, unless  *)
(* there is certainly no complete one.                                     *)
FinalTag10(buffer) ==
    LET last == find_delimiter_from_end(buffer)
    IN  IF \/ Len(buffer) < MINIMUM_REQUIRED_INITIAL_BUFFER_FOR_PARSING
           \/ last = 0
        THEN 0 ELSE find_tag10_start_from_end(buffer, last)
=============================================================================
