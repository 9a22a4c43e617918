--------------------------- MODULE MCWriterQueue ---------------------------
(* Small instances of WriterQueue. *)
EXTENDS WriterQueue

CONSTANTS w1, w2, w3
=============================================================================
