--------------------------- MODULE MCRecordStream ---------------------------
(* Words of two bytes: a read can stop inside a header and inside a long. *)
EXTENDS RecordStream
=============================================================================
