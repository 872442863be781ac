------------------------------ MODULE MCIngest ------------------------------
(* Ingest on a small instance. *)
EXTENDS Ingest

AllFaults == {"broker", "crash", "db", "storage"}
=============================================================================
