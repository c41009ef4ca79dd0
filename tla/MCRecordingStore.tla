--------------------------- MODULE MCRecordingStore ---------------------------
(* Two names, recordings of one or two samples. *)
EXTENDS RecordingStore
=============================================================================
