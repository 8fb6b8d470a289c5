--------------------------- MODULE MCOutgoingLog ---------------------------
(* Three messages, files of two records, three files.                      *)
EXTENDS OutgoingLog
=============================================================================
