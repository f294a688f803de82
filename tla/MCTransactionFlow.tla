--------------------------- MODULE MCTransactionFlow ---------------------------
(* Small instances of TransactionFlow for TLC.                             *)
EXTENDS TransactionFlow

NoStatusErrors == {}
=============================================================================
