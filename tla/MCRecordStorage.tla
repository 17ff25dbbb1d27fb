--------------------------- MODULE MCRecordStorage ---------------------------
(* A file of up to three records, or of four other units.                   *)
EXTENDS RecordStorage

AllAdapters == {"fopen", "qfile", "memory", "vector", "static"}
=============================================================================
