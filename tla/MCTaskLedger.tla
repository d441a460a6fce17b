----------------------------- MODULE MCTaskLedger -----------------------------
(* TaskLedger for TLC.                                                       *)
EXTENDS TaskLedger, TLC

===============================================================================
