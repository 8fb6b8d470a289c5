------------------------- MODULE MCSPSCBoundedQueue -------------------------
(* SPSCBoundedQueue on small instances.                                    *)
EXTENDS SPSCBoundedQueue
=============================================================================
