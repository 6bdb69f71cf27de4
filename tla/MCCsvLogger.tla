----------------------------- MODULE MCCsvLogger ------------------------------
(* CsvLogger for TLC: two threads, a buffer of two rows and three rows a   *)
(* session, so that one row is left to close() or to a crash.              *)
EXTENDS CsvLogger

==============================================================================
