\* Signings one after the other, some abandoned by their callers, and another
\* exchange, share a device that may refuse anything.
CONSTANTS
  Signings = {s1, s2}
  Exchanges = {e1}
  Transactions <- ShortTransactions
  Answers = {"ok", "refused", "malformed", "truncated"}
  OneAtATime = TRUE
SPECIFICATION FairSpec
INVARIANTS TypeOK SignatureCoversTransaction StopAndWait
 
CHECK_DEADLOCK FALSE
