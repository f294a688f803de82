------------------------------ MODULE CoreApi ------------------------------
(***************************************************************************)
(* The calls to the API of a node: fwdAPICall of radix.ts, radixCoreAPI,   *)
(* the open API client and the handlers that read its answers.             *)
(*                                                                         *)
(* A call subscribes to the stream of nodes, which replays the last one:   *)
(* each node that comes while it waits is asked too, and the first outcome *)
(* is taken. Nodes are the positions they came at. A node comes with       *)
(* connect(), which calls networkId at once.                               *)
(*                                                                         *)
(* Of an answer the model keeps which of its fields have a fault, and the  *)
(* order in which a handler looks at them.                                 *)
(***************************************************************************)
EXTENDS Integers, Sequences, FiniteSets, FiniteSetsExt, SequencesExt

CONSTANTS
  StatusCodes,   \* HTTP status codes and error codes of a node
  MaxFaults,     \* bound: fields of one answer that are not as they should be
  MaxNodes,      \* bound: nodes connected to
  MaxCalls       \* bound: calls made, besides the networkId of connect()

ASSUME CoreApiAssumption ==
  /\ StatusCodes \subseteq Nat \ {0}
  /\ MaxFaults \in Nat /\ MaxNodes \in Nat /\ MaxCalls \in Nat

VARIABLES
  nodes,         \* how many nodes there have been, the last one in use
  calls,         \* the calls made
  requests       \* requests under way: <<call, node>>

apiVars == <<nodes, calls, requests>>

NoCode == 0

-----------------------------------------------------------------------------
(* How the answers are read.                                               *)

\* A handler that throws does so inside a promise that toObservable only
\* follows when it succeeds; a Result that is an error is passed on. What is
\* checked is a text that does not parse, or an amount, there or not. An
\* identifier that is missing throws, before any text is checked that is combined
\* with it: it is a fault of the entry it should be in, "shape" if of no list.
Throwing(fields) == [fields |-> fields, failing |-> "thrown"]
Checked(fields)  == [fields |-> fields, failing |-> "refused"]

TransformTokenAmount == {"amount", "rri"}

\* A URL that does not parse throws; an empty one is left out.
ReadToken ==
  <<Throwing({"shape"}), Checked({"rri", "granularity", "supply"}), Throwing({"url", "icon_url"})>>

\* Stakes are read before those that are pending; of unstakes the pending first.
ReadStakes ==
  <<Throwing({"stakes"}), Checked({"stakes.validator", "stakes.amount"}),
    Throwing({"pending"}), Checked({"pending.validator", "pending.amount"})>>

ReadUnstakes ==
  <<Throwing({"pending"}), Checked({"pending.validator", "pending.amount"}),
    Throwing({"unstakes"}), Checked({"unstakes.validator", "unstakes.amount"})>>

\* transformUrl takes any URL; the uptime is looked at last.
ReadValidators ==
  <<Throwing({"shape"}), Checked({"validator", "owner", "stake", "owner_stake"}),
    Throwing({"uptime"})>>

ReadBalances ==
  <<Throwing({"shape"}), Checked(TransformTokenAmount \cup {"staked.rri", "staked.amount"}),
    Throwing({"ledger_state"})>>

\* An action without an amount, or of an unknown type, is taken as it is.
ReadTransactions ==
  <<Throwing({"shape"}), Checked({"hash", "fee", "unstake_percentage"} \cup TransformTokenAmount)>>

\* The blob of a built transaction is not looked at.
ReadBuilt == <<Throwing({"shape"}), Checked({"fee"})>>

\* Nor is that of a finalized one.
ReadIdentifier == <<Throwing({"shape"}), Checked({"hash"})>>

\* Any text is a network.
Reads ==
  [networkId               |-> <<Throwing({"shape"})>>,
   tokenBalancesForAddress |-> ReadBalances,
   transactionHistory      |-> ReadTransactions,
   recentTransactions      |-> ReadTransactions,
   nativeToken             |-> ReadToken,
   tokenInfo               |-> ReadToken,
   stakesForAddress        |-> ReadStakes,
   unstakesForAddress      |-> ReadUnstakes,
   validators              |-> ReadValidators,
   lookupValidator         |-> ReadValidators,
   getTransaction          |-> ReadTransactions,
   buildTransaction        |-> ReadBuilt,
   finalizeTransaction     |-> ReadIdentifier,
   submitSignedTransaction |-> ReadIdentifier]

Cause ==
  [networkId               |-> "NETWORK_ID_FAILED",
   tokenBalancesForAddress |-> "TOKEN_BALANCES_FAILED",
   transactionHistory      |-> "TRANSACTION_HISTORY_FAILED",
   recentTransactions      |-> "RECENT_TRANSACTIONS_FAILED",
   nativeToken             |-> "NATIVE_TOKEN_FAILED",
   tokenInfo               |-> "TOKEN_INFO_FAILED",
   stakesForAddress        |-> "STAKES_FOR_ADDRESS_FAILED",
   unstakesForAddress      |-> "UNSTAKES_FOR_ADDRESS_FAILED",
   validators              |-> "VALIDATORS_FAILED",
   lookupValidator         |-> "LOOKUP_VALIDATOR_FAILED",
   getTransaction          |-> "LOOKUP_TX_FAILED",
   buildTransaction        |-> "BUILD_TRANSACTION_FAILED",
   finalizeTransaction     |-> "FINALIZE_TX_FAILED",
   submitSignedTransaction |-> "SUBMIT_SIGNED_TX_FAILED"]

Methods == DOMAIN Reads

Fields(method) == UNION {Reads[method][i].fields : i \in DOMAIN Reads[method]}

\* The first fault that is met decides.
HandleResponse(method, faults) ==
  LET met == SelectSeq(Reads[method], LAMBDA read : read.fields \cap faults # {})
  IN  IF met = <<>> THEN "answered" ELSE Head(met).failing

-----------------------------------------------------------------------------
(* Calls.                                                                  *)

Waiting(method) ==
  [method |-> method, since |-> nodes, state |-> "waiting", from |-> 0,
   cause |-> "none", code |-> NoCode, unread |-> FALSE]

\* A slip: every node there has been is asked.
AskAll(call) == {<<call, n>> : n \in 1..nodes}

\* shareReplay(1): the node in use is asked, if there is one.
Ask(call) == {<<call, n>> : n \in {nodes} \ {0}}

Call(method) ==
  /\ Len(calls) < nodes + MaxCalls
  /\ calls' = Append(calls, Waiting(method))
  /\ requests' = requests \cup Ask(Len(calls) + 1)
  /\ UNCHANGED nodes

StillWaiting == {c \in DOMAIN calls : calls[c].state = "waiting"}

\* A slip: calls that wait are not asked of the new node.
ConnectForOneself ==
  /\ nodes < MaxNodes
  /\ nodes' = nodes + 1
  /\ calls' = Append(calls, [Waiting("networkId") EXCEPT !.since = nodes + 1])
  /\ requests' = requests \cup {<<Len(calls) + 1, nodes + 1>>}

\* connect(): mergeMap asks the new node for every call that waits.
Connect ==
  /\ nodes < MaxNodes
  /\ nodes' = nodes + 1
  /\ calls' = Append(calls, [Waiting("networkId") EXCEPT !.since = nodes + 1])
  /\ requests' = requests \cup {<<c, nodes + 1>> : c \in StillWaiting \cup {Len(calls) + 1}}

\* A slip: the requests to other nodes go on.
EndsOnly(c, n, outcome) ==
  /\ calls' = [calls EXCEPT ![c] = outcome]
  /\ requests' = requests \ {<<c, n>>}

\* take(1), or an error: the requests to other nodes are unsubscribed.
Ends(c, n, outcome) ==
  /\ calls' = [calls EXCEPT ![c] = outcome]
  /\ requests' = {request \in requests : request[1] # c}

\* catchError of fwdAPICall, which takes the first of several errors; what
\* failed to be read is an Error, and has no code.
Failed(call, n, code) ==
  [call EXCEPT !.state = "failed", !.from = n, !.cause = Cause[call.method], !.code = code]

\* The node answers with a body, in which there may be faults.
ResponseArrives(c, n, faults) ==
  LET handled == HandleResponse(calls[c].method, faults)
  IN  /\ <<c, n>> \in requests
      /\ \/ /\ handled = "answered"
            /\ Ends(c, n, [calls[c] EXCEPT !.state = "answered", !.from = n])
         \/ /\ handled = "refused"
            /\ Ends(c, n, Failed(calls[c], n, NoCode))
         \/ /\ handled = "thrown"
            /\ requests' = requests \ {<<c, n>>}
            /\ calls' = [calls EXCEPT ![c].unread = TRUE]
      /\ UNCHANGED nodes

\* handleError: a node that answers with an HTTP status and data gives the code
\* in the data, or the status; without data, or an answer, there is no code.
RequestFails(c, n, status, dataCode) ==
  /\ <<c, n>> \in requests
  /\ Ends(c, n, Failed(calls[c], n, IF dataCode # NoCode THEN dataCode ELSE status))
  /\ UNCHANGED nodes

Responds(c, n) ==
  \/ \E k \in 0..MaxFaults : \E faults \in kSubset(k, Fields(calls[c].method)) :
       ResponseArrives(c, n, faults)
  \/ \E status \in StatusCodes \cup {NoCode}, dataCode \in StatusCodes \cup {NoCode} :
       (status = NoCode => dataCode = NoCode) /\ RequestFails(c, n, status, dataCode)

ApiInit == nodes = 0 /\ calls = <<>> /\ requests = {}

ApiNext ==
  \/ \E method \in Methods : Call(method)
  \/ Connect
  \/ \E request \in requests : Responds(request[1], request[2])

-----------------------------------------------------------------------------
(* Properties.                                                             *)

CallRecord ==
  [method : Methods, since : 0..MaxNodes, state : {"waiting", "answered", "failed"},
   from : 0..MaxNodes, cause : {Cause[method] : method \in Methods} \cup {"none"},
   code : StatusCodes \cup {NoCode}, unread : BOOLEAN]

\* Calls and the requests for them are of their types.
ApiTypeOK ==
  /\ nodes \in 0..MaxNodes
  /\ calls \in Seq(CallRecord)
  /\ requests \subseteq (DOMAIN calls) \X (1..nodes)

\* No answer and no error is that of a node that was replaced before the call
\* was made, whatever was under way when it was.
NeverAnOlderNode ==
  \A c \in DOMAIN calls : calls[c].state # "waiting" => calls[c].from \in calls[c].since..nodes

\* A call that was asked of several nodes has one outcome: a later answer, or
\* failure, of another node does not change it.
OneOutcomePerCall ==
  [][\A c \in DOMAIN calls : calls[c].state # "waiting" => calls'[c] = calls[c]]_apiVars

\* A call that a node was asked for comes to an end when the nodes answer, or
\* an answer to it could not be read and threw: nobody hears of that, and
\* connect(), which waits for networkId, would wait for good.
EveryCallSettles ==
  \A c \in 1..(MaxNodes + MaxCalls) :
    c \in DOMAIN calls /\ nodes > 0 ~>
      c \in DOMAIN calls /\ (calls[c].state # "waiting" \/ calls[c].unread)
=============================================================================
