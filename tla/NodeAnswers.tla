---------------------------- MODULE NodeAnswers ----------------------------
(***************************************************************************)
(* A transaction that a node builds, and the parser a Ledger wallet gives  *)
(* its blob to before it is signed (doSignTransaction of packages/         *)
(* hardware-ledger): the calls of CoreApi, and TxParser on what the last   *)
(* of them was answered with.                                              *)
(***************************************************************************)
EXTENDS CoreApi, TxParser

vars == <<apiVars, parserVars>>

\* Bound: the transaction that is signed is that of the first node, and no call
\* failed or is under way.
Built ==
  /\ nodes = 1
  /\ \A c \in DOMAIN calls : calls[c].state = "answered"
  /\ \E c \in DOMAIN calls : calls[c].method = "buildTransaction"

Init == ApiInit /\ ParserInit

DoSignTransaction == Built /\ Receive /\ UNCHANGED apiVars

\* The parser runs to its end in one turn of the event loop.
Next ==
  \/ outcome = "idle" /\ ApiNext /\ UNCHANGED parserVars
  \/ DoSignTransaction
  \/ Parse /\ UNCHANGED apiVars

\* Nodes answer, or the connection to them fails.
Spec ==
  /\ Init /\ [][Next]_vars
  /\ \A c \in 1..(MaxNodes + MaxCalls) :
       WF_vars(/\ outcome = "idle" /\ UNCHANGED parserVars
               /\ \E n \in 1..nodes : <<c, n>> \in requests /\ Responds(c, n))
  /\ WF_vars(Parse /\ UNCHANGED apiVars)

\* The variables of both parts are of their types.
TypeOK == ApiTypeOK /\ ParserTypeOK
=============================================================================
