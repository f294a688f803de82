---------------------------- MODULE MCLedgerSigning ----------------------------
(* Small instances of LedgerSigning for TLC.                               *)
EXTENDS LedgerSigning

\* Transactions of none to three instructions, and one with an instruction that
\* is too long after one that is not.
ShortTransactions == {<<>>, <<TRUE>>, <<TRUE, TRUE>>, <<TRUE, FALSE>>, <<TRUE, TRUE, TRUE>>}
=============================================================================
