--------------------------- MODULE TransactionFlow ---------------------------
(***************************************************************************)
(* One transaction of packages/application (__makeTransactionFromIntent in *)
(* radix.ts): built, confirmed, signed, finalized, submitted, and polled   *)
(* until the ledger has decided.                                           *)
(*                                                                         *)
(* The code is a network of RxJS streams. What the model keeps of it:      *)
(*  - a call to the API or to the signer is answered, or fails, in a step  *)
(*    of its own, and calls under way are answered in any order;           *)
(*  - networkSubject and the stream of active accounts replay: one call is *)
(*    made for each network ever connected to, and for each one that comes *)
(*    later. Networks and accounts are the positions they were emitted at; *)
(*  - `alive` holds the stages that are still subscribed. A stage that     *)
(*    errs unsubscribes the calls before it; txSubs.unsubscribe() ends all *)
(*    but the signing, which shareReplay(1) keeps connected.               *)
(***************************************************************************)
EXTENDS Integers, Sequences, FiniteSets, FiniteSetsExt

CONSTANTS
  AutoConfirm,            \* userConfirmation is 'skip'
  ActiveAccountObserved,  \* radix.activeAccount has had a subscriber before
  StatusErrors,           \* status codes a status request may fail with
  MaxRetries,             \* times a status that is not found is asked for again: 3
  MaxAccounts,            \* bound: accounts that become active
  MaxNetworks,            \* bound: networks connected to
  MaxConfirms,            \* bound: calls of confirm()
  MaxCopies,              \* bound: networks times confirmations
  MaxRequests             \* bound: status requests under way to a network

ASSUME FlowAssumption ==
  /\ AutoConfirm \in BOOLEAN
  /\ ActiveAccountObserved \in BOOLEAN
  /\ StatusErrors \subseteq {"404", "500"}
  /\ MaxRetries \in Nat
  /\ MaxAccounts \in Nat
  /\ MaxNetworks \in Nat
  /\ MaxConfirms \in Nat
  /\ MaxCopies \in Nat
  /\ MaxRequests \in Nat

VARIABLES
  accounts,       \* accounts that have become active, the last one now
  accountShared,  \* activeAccount is connected: it replays its last account
  networks,       \* networks that networkSubject has emitted and replays
  build,          \* the built transaction: how far, and for which account
  confirms,       \* calls of confirm()
  signCalls,      \* per confirmation forwarded: the signer's account, its state
  finalized,      \* answered finalize calls <<signature, network>>
  submitted,      \* answered submit calls <<signature, network, network>>
  alive,          \* stages still subscribed
  pending,        \* pendingTXSubject has emitted
  ticked,         \* the poll trigger has emitted
  asked,          \* per network and retry: status requests its node has not answered
  answers,        \* per status or error code: answers on their way
  lastStatus,     \* the status distinctUntilChanged let through last
  ledger,         \* per network: its node's view of the transaction; offered: on its way to it
  events,         \* what trackingSubject has emitted
  completion      \* completionSubject: open, completed or errored

session == <<accounts, accountShared, networks>>
signing == <<build, confirms, signCalls>>
sending == <<finalized, submitted>>
requests == <<asked, answers>>
polling == <<pending, ticked, requests, lastStatus>>
tracking == <<events, completion>>

vars == <<session, signing, sending, alive, polling, ledger, tracking>>

Stages == {"sign", "finalize", "submit", "status"}
Networks == 1..MaxNetworks
Retries == 0..MaxRetries
Decided == {"CONFIRMED", "FAILED"}
Statuses == {"PENDING"} \cup Decided

-----------------------------------------------------------------------------
(* Tracking.                                                               *)

Event(type) == [type |-> type, error |-> FALSE]
ErrorEvent(type) == [type |-> type, error |-> TRUE]

Track(types) == events' = events \o [i \in DOMAIN types |-> Event(types[i])]

\* Slips: settling again, and forgetting completionSubject.next and complete.
SettleAgain(outcome) == completion' = outcome
SettleErrorsOnly(outcome) ==
  completion' = IF completion = "open" /\ outcome = "errored" THEN outcome ELSE completion

\* completionSubject ignores what comes once it has settled.
Settle(outcome) ==
  completion' = IF completion = "open" THEN outcome ELSE completion

\* A slip: an error is tracked while the completion is open only.
TrackFirstError(inStep) ==
  IF completion = "open" THEN events' = Append(events, ErrorEvent(inStep)) /\ Settle("errored")
                         ELSE UNCHANGED tracking

TrackError(inStep) ==
  /\ events' = Append(events, ErrorEvent(inStep))
  /\ Settle("errored")

-----------------------------------------------------------------------------
(* The session the transaction runs in.                                    *)

AccountBecomesActive ==
  /\ accounts < MaxAccounts
  /\ accounts' = accounts + 1
  /\ UNCHANGED <<accountShared, networks, signing, sending, alive, polling, ledger, tracking>>

\* The application subscribes to radix.activeAccount.
ObserveActiveAccount ==
  /\ accounts > 0 /\ ~accountShared
  /\ accountShared' = TRUE
  /\ UNCHANGED <<accounts, networks, signing, sending, alive, polling, ledger, tracking>>

\* Slips: the first account, whoever has subscribed, and the one before.
FirstAccount == 1
AccountBefore == IF accountShared THEN accounts - 1 ELSE 1

\* activeAccount.pipe(take(1)): the first subscriber ever is replayed the
\* whole stream and takes the first account of it.
SigningAccount == IF accountShared THEN accounts ELSE 1

-----------------------------------------------------------------------------
(* Building and confirming.                                                *)

\* The intent builder waits for an account. builtTransaction$ joins the intent
\* with the address that is active by then.
IntentReady ==
  /\ build.state = "waiting" /\ accounts > 0
  /\ build' = [state |-> "asked", account |-> accounts]
  /\ Track(<<"INITIATED">>)
  /\ UNCHANGED <<session, confirms, signCalls, sending, alive, polling, ledger, completion>>

StartSigning ==
  /\ signCalls' = Append(signCalls, [account |-> SigningAccount, state |-> "asked"])
  /\ accountShared' = TRUE

WithinCopies(n, calls) == n * calls <= MaxCopies

CallsConfirm ==
  /\ confirms < MaxConfirms /\ WithinCopies(networks, confirms + 1)
  /\ confirms' = confirms + 1

\* The API has built: the user is asked, and may confirm before the asking
\* returns. 'skip' confirms at once.
TransactionBuilt(confirmsAtOnce) ==
  /\ build.state = "asked"
  /\ AutoConfirm => confirmsAtOnce
  /\ build' = [build EXCEPT !.state = "answered"]
  /\ IF confirmsAtOnce
     THEN /\ CallsConfirm
          /\ StartSigning
          /\ Track(<<"BUILT_FROM_INTENT", "ASKED_FOR_CONFIRMATION", "CONFIRMED">>)
     ELSE /\ Track(<<"BUILT_FROM_INTENT", "ASKED_FOR_CONFIRMATION">>)
          /\ UNCHANGED <<accountShared, confirms, signCalls>>
  /\ UNCHANGED <<accounts, networks, sending, alive, polling, ledger, completion>>

\* The intent could not be made, or the API did not build it.
BuildFailed ==
  /\ build.state \in {"waiting", "asked"}
  /\ build' = [build EXCEPT !.state = "failed"]
  /\ TrackError("BUILT_FROM_INTENT")
  /\ alive' = alive \ {"sign"}
  /\ UNCHANGED <<session, confirms, signCalls, sending, polling, ledger>>

\* The user calls confirm(), once or more: combineLatest lets each call
\* through, as long as the signing is connected.
Confirm ==
  /\ build.state = "answered" /\ ~AutoConfirm
  /\ CallsConfirm
  /\ IF "sign" \in alive
     THEN StartSigning /\ Track(<<"CONFIRMED">>)
     ELSE UNCHANGED <<accountShared, signCalls, events>>
  /\ UNCHANGED <<accounts, networks, build, sending, alive, polling, ledger, completion>>

-----------------------------------------------------------------------------
(* Signing, finalizing and submitting.                                     *)

Signatures == {j \in DOMAIN signCalls : signCalls[j].state = "signed"}

\* A signature is tracked, and sent on, while the finalizing is subscribed.
Signed(j) ==
  /\ "sign" \in alive /\ signCalls[j].state = "asked"
  /\ signCalls' = [signCalls EXCEPT ![j].state = "signed"]
  /\ IF "finalize" \in alive THEN Track(<<"SIGNED">>) ELSE UNCHANGED events
  /\ UNCHANGED <<session, build, confirms, sending, alive, polling, ledger, completion>>

\* The signer refuses, or the transaction has tokens of two kinds.
SignFailed(j) ==
  /\ "sign" \in alive /\ signCalls[j].state = "asked"
  /\ alive' = alive \ {"sign"}
  /\ IF "finalize" \in alive THEN TrackError("SIGNED") ELSE UNCHANGED tracking
  /\ UNCHANGED <<session, signing, sending, polling, ledger>>

\* Calls under way: one for each input and network, from the replay.
FinalizeCalls ==
  IF "finalize" \in alive THEN (Signatures \X (1..networks)) \ finalized ELSE {}

SubmitCalls ==
  IF "submit" \in alive
  THEN {<<call[1], call[2], n>> : call \in finalized, n \in 1..networks} \ submitted
  ELSE {}

\* The transaction is sent to nodes, unless it has been before.
SubmitTo(nodes) ==
  ledger' = [n \in Networks |->
              IF "submit" \in alive /\ n \in nodes /\ ledger[n] = "unknown" THEN "offered"
              ELSE ledger[n]]

Finalized(call) ==
  /\ call \in FinalizeCalls
  /\ finalized' = finalized \cup {call}
  /\ SubmitTo(1..networks)
  /\ Track(<<"FINALIZED">>)
  /\ UNCHANGED <<session, signing, submitted, alive, polling, completion>>

FinalizeFailed ==
  /\ FinalizeCalls # {}
  /\ alive' = alive \ {"finalize"}
  /\ TrackError("FINALIZED")
  /\ UNCHANGED <<session, signing, sending, polling, ledger>>

\* combineLatest of the poll trigger and the pending transaction has emitted:
\* the status is asked for, once of each network.
AskStatus ==
  /\ \A n \in 1..networks, k \in Retries : asked[<<n, k>>] < MaxRequests
  /\ asked' = [r \in Networks \X Retries |->
                IF r[1] <= networks /\ r[2] = 0 THEN asked[r] + 1 ELSE asked[r]]
  /\ UNCHANGED answers

\* A node takes the transaction that is on its way to it, even when nobody
\* waits for the answer any more: unsubscribing does not call a request back.
SubmitReceived(n) ==
  /\ ledger[n] = "offered"
  /\ ledger' = [ledger EXCEPT ![n] = "received"]
  /\ UNCHANGED <<session, signing, sending, alive, polling, tracking>>

\* The answer of a node that has taken the transaction arrives.
Submitted(call) ==
  /\ call \in SubmitCalls /\ ledger[call[3]] \notin {"unknown", "offered"}
  /\ submitted' = submitted \cup {call}
  /\ pending' = TRUE
  /\ IF ticked /\ "status" \in alive THEN AskStatus ELSE UNCHANGED requests
  /\ Track(<<"SUBMITTED">>)
  /\ UNCHANGED <<session, signing, finalized, alive, ticked, lastStatus, ledger, completion>>

\* The node refuses, or an answer or the request itself is lost or late: the
\* node may have the transaction, or take it yet.
SubmitFailed(call) ==
  /\ call \in SubmitCalls
  /\ alive' = alive \ {"finalize", "submit"}
  /\ TrackError("SUBMITTED")
  /\ UNCHANGED <<session, signing, sending, polling, ledger>>

-----------------------------------------------------------------------------
(* Polling.                                                                *)

\* A slip: a trigger that fires once.
PollTickOnce ==
  /\ "status" \in alive /\ ~ticked
  /\ ticked' = TRUE
  /\ IF pending THEN AskStatus ELSE UNCHANGED requests
  /\ UNCHANGED <<session, signing, sending, alive, pending, lastStatus, ledger, tracking>>

PollTick ==
  /\ "status" \in alive
  /\ pending \/ ~ticked
  /\ ticked' = TRUE
  /\ IF pending THEN AskStatus ELSE UNCHANGED requests
  /\ UNCHANGED <<session, signing, sending, alive, pending, lastStatus, ledger, tracking>>

\* What has been finalized is submitted to the new network too, and every poll
\* made so far asks it: one of them at least.
ConnectToNetwork ==
  /\ networks < MaxNetworks /\ WithinCopies(networks + 1, confirms)
  /\ networks' = networks + 1
  /\ IF pending /\ ticked /\ "status" \in alive
     THEN \E polls \in 1..MaxRequests : asked' = [asked EXCEPT ![<<networks + 1, 0>>] = polls]
     ELSE UNCHANGED asked
  /\ SubmitTo(IF finalized = {} THEN {} ELSE {networks + 1})
  /\ UNCHANGED <<accounts, accountShared, signing, sending, alive, pending, ticked, answers,
                 lastStatus, tracking>>

\* A received transaction becomes visible, and is decided later.
LedgerMoves(n) ==
  /\ \/ ledger[n] = "received" /\ ledger' = [ledger EXCEPT ![n] = "PENDING"]
     \/ /\ ledger[n] = "PENDING"
        /\ \E status \in Decided : ledger' = [ledger EXCEPT ![n] = status]
  /\ UNCHANGED <<session, signing, sending, alive, polling, tracking>>

\* What ends a request, after k retries: the status, an error, and 404 from
\* a node that knows of none when there are no retries left.
NodeAnswers(n, k) ==
  (IF ledger[n] \in Statuses THEN {ledger[n]} ELSE {})
    \cup {code \in StatusErrors : code = "404" => ledger[n] \notin Statuses /\ k = MaxRetries}

\* A node answers a request: the answer is on its way.
StatusAnswered(n, k) ==
  /\ asked[<<n, k>>] > 0
  /\ \E answer \in NodeAnswers(n, k) :
       /\ answers[answer] < MaxRequests
       /\ answers' = [answers EXCEPT ![answer] = @ + 1]
  /\ asked' = [asked EXCEPT ![<<n, k>>] = @ - 1]
  /\ UNCHANGED <<session, signing, sending, alive, pending, ticked, lastStatus, ledger, tracking>>

\* retryOnErrorCode: a node that knows of no such transaction is asked again
\* some time after its answer.
StatusRetried(n, k) ==
  /\ asked[<<n, k>>] > 0 /\ k < MaxRetries /\ asked[<<n, k + 1>>] < MaxRequests
  /\ "404" \in StatusErrors /\ ledger[n] \notin Statuses
  /\ asked' = [asked EXCEPT ![<<n, k>>] = @ - 1, ![<<n, k + 1>>] = @ + 1]
  /\ UNCHANGED <<session, signing, sending, alive, pending, ticked, answers, lastStatus, ledger,
                 tracking>>

CancelRequests ==
  /\ asked' = [r \in Networks \X Retries |-> 0]
  /\ answers' = [answer \in Statuses \cup StatusErrors |-> 0]

Arrives(answer) ==
  /\ answers' = [answers EXCEPT ![answer] = @ - 1]
  /\ UNCHANGED asked

\* An error that is not retried ends transactionStatus$. Its subscribers only
\* log: completion is left as it is.
StatusFailed(code) ==
  /\ answers[code] > 0
  /\ alive' = alive \ {"status"}
  /\ CancelRequests
  /\ UNCHANGED <<session, signing, sending, pending, ticked, lastStatus, ledger, tracking>>

\* distinctUntilChanged drops a status equal to the last.
StatusRepeated(status) ==
  /\ answers[status] > 0 /\ status = lastStatus
  /\ Arrives(status)
  /\ UNCHANGED <<session, signing, sending, alive, pending, ticked, lastStatus, ledger, tracking>>

\* Slips: the submissions are left subscribed, and everything is.
UnsubscribePollingOnce(status) ==
  IF status \in Decided
  THEN alive' = alive \ {"status"} /\ CancelRequests
  ELSE UNCHANGED alive /\ Arrives(status)
UnsubscribeNothing(status) == UNCHANGED alive /\ Arrives(status)

\* transactionCompletedWithStatusConfirmed$ and ...Failed$ end the
\* subscriptions, all but the shared signing.
UnsubscribeOnce(status) ==
  IF status \in Decided
  THEN alive' = alive \ {"finalize", "submit", "status"} /\ CancelRequests
  ELSE UNCHANGED alive /\ Arrives(status)

Update == Event("UPDATE_OF_STATUS_OF_PENDING_TX")

\* A slip: every status but PENDING is taken for CONFIRMED.
ConcludeNotPending(status) ==
  IF status = "PENDING" THEN events' = Append(events, Update) /\ UNCHANGED completion
  ELSE events' = events \o <<Update, Event("COMPLETED")>> /\ Settle("completed")

Conclude(status) ==
  \/ /\ status = "PENDING"
     /\ events' = Append(events, Update)
     /\ UNCHANGED completion
  \/ /\ status = "CONFIRMED"
     /\ events' = events \o <<Update, Event("COMPLETED")>>
     /\ Settle("completed")
  \/ /\ status = "FAILED"
     /\ events' = events \o <<Update, ErrorEvent("UPDATE_OF_STATUS_OF_PENDING_TX")>>
     /\ Settle("errored")

StatusChanged(status) ==
  /\ answers[status] > 0 /\ status # lastStatus
  /\ lastStatus' = status
  /\ UnsubscribeOnce(status)
  /\ Conclude(status)
  /\ UNCHANGED <<session, signing, sending, pending, ticked, ledger>>

-----------------------------------------------------------------------------
Init ==
  /\ accounts \in 0..1 /\ networks \in 0..1
  /\ accounts <= MaxAccounts /\ networks <= MaxNetworks
  /\ accountShared = ActiveAccountObserved
  /\ build = [state |-> "waiting", account |-> 0]
  /\ confirms = 0
  /\ signCalls = <<>>
  /\ finalized = {}
  /\ submitted = {}
  /\ alive = Stages
  /\ pending = FALSE
  /\ ticked = FALSE
  /\ asked = [r \in Networks \X Retries |-> 0]
  /\ answers = [answer \in Statuses \cup StatusErrors |-> 0]
  /\ lastStatus = "none"
  /\ ledger = [n \in Networks |-> "unknown"]
  /\ events = <<>>
  /\ completion = "open"

BuildAnswered == (\E confirmsAtOnce \in BOOLEAN : TransactionBuilt(confirmsAtOnce)) \/ BuildFailed
SignAnswered == \E j \in DOMAIN signCalls : Signed(j) \/ SignFailed(j)
FinalizeAnswered == (\E call \in FinalizeCalls : Finalized(call)) \/ FinalizeFailed
SubmitAnswered == \E call \in SubmitCalls : Submitted(call) \/ SubmitFailed(call)
StatusRequestMoves(n) == \E k \in Retries : StatusAnswered(n, k) \/ StatusRetried(n, k)
StatusDelivered(status) == StatusRepeated(status) \/ StatusChanged(status)

Next ==
  \/ AccountBecomesActive
  \/ ObserveActiveAccount
  \/ ConnectToNetwork
  \/ IntentReady
  \/ BuildAnswered
  \/ Confirm
  \/ SignAnswered
  \/ FinalizeAnswered
  \/ SubmitAnswered
  \/ PollTick
  \/ \E n \in Networks : SubmitReceived(n) \/ LedgerMoves(n) \/ StatusRequestMoves(n)
  \/ \E status \in Statuses : StatusDelivered(status)
  \/ \E code \in StatusErrors : StatusFailed(code)

Spec == Init /\ [][Next]_vars

\* The interval of the trigger fires; the nodes answer what they are asked,
\* deliver the answers and decide what they received. Nothing obliges the
\* user, the signer or the accounts, nor a node to take what is submitted.
FairSpec ==
  /\ Spec
  /\ WF_vars(FinalizeAnswered) /\ WF_vars(SubmitAnswered) /\ WF_vars(PollTick)
  /\ \A n \in Networks : WF_vars(LedgerMoves(n)) /\ WF_vars(StatusRequestMoves(n))
  /\ \A status \in Statuses : WF_vars(StatusDelivered(status))
  /\ \A code \in StatusErrors : WF_vars(StatusFailed(code))

-----------------------------------------------------------------------------
(* Properties.                                                             *)

EventTypes ==
  {"INITIATED", "BUILT_FROM_INTENT", "ASKED_FOR_CONFIRMATION", "CONFIRMED", "SIGNED",
   "FINALIZED", "SUBMITTED", "UPDATE_OF_STATUS_OF_PENDING_TX", "COMPLETED"}

EventRecord == [type : EventTypes, error : BOOLEAN]

SignCall == [account : 1..MaxAccounts, state : {"asked", "signed"}]

\* The variables stay within the values the code can give them.
TypeOK ==
  /\ accounts \in 0..MaxAccounts
  /\ networks \in 0..MaxNetworks
  /\ accountShared \in BOOLEAN /\ pending \in BOOLEAN /\ ticked \in BOOLEAN
  /\ build \in [state : {"waiting", "asked", "answered", "failed"}, account : 0..MaxAccounts]
  /\ confirms \in 0..MaxConfirms
  /\ signCalls \in Seq(SignCall) /\ Len(signCalls) <= confirms
  /\ finalized \in SUBSET ((1..MaxConfirms) \X Networks)
  /\ submitted \in SUBSET ((1..MaxConfirms) \X Networks \X Networks)
  /\ alive \in SUBSET Stages
  /\ asked \in [Networks \X Retries -> 0..MaxRequests]
  /\ answers \in [Statuses \cup StatusErrors -> 0..MaxRequests]
  /\ lastStatus \in Statuses \cup {"none"}
  /\ ledger \in [Networks -> {"unknown", "offered", "received"} \cup Statuses]
  /\ events \in Seq(EventRecord)
  /\ completion \in {"open", "completed", "errored"}

Tracked(event) == \E i \in DOMAIN events : events[i] = event

OnSomeLedger(status) == \E n \in Networks : ledger[n] = status

\* The caller is told the truth: `completion` completes, and COMPLETED is
\* tracked, only of a transaction that a node has confirmed, and the status
\* step is in error only if a node has failed it, whatever was in flight when
\* networks were switched or a stage erred.
OutcomeAgreesWithLedger ==
  /\ completion = "completed" \/ Tracked(Event("COMPLETED")) => OnSomeLedger("CONFIRMED")
  /\ Tracked(ErrorEvent("UPDATE_OF_STATUS_OF_PENDING_TX")) => OnSomeLedger("FAILED")

IsOutcome(event) == event.error \/ event.type = "COMPLETED"

\* `completion` and `events` tell one story: completion settles with the first
\* error or COMPLETED among the events, and later ones do not change it.
CompletionIsFirstOutcome ==
  \/ completion = "open" /\ \A i \in DOMAIN events : ~IsOutcome(events[i])
  \/ \E i \in DOMAIN events :
       /\ IsOutcome(events[i])
       /\ \A j \in 1..(i - 1) : ~IsOutcome(events[j])
       /\ completion = IF events[i].error THEN "errored" ELSE "completed"

\* A node that has been sent the transaction, and may have it or take it yet,
\* does not go unnoticed: its answer is awaited still, or has been told as
\* SUBMITTED, or the step is in error, or the ledger has decided of what was
\* submitted before. An answer that is lost, an earlier error that settled the
\* completion and a network joined later do not make it forgotten.
NothingSentUnseen ==
  \A n \in Networks : ledger[n] # "unknown" =>
    \/ \E call \in SubmitCalls : call[3] = n
    \/ Tracked(ErrorEvent("SUBMITTED"))
    \/ /\ Tracked(Event("SUBMITTED"))
       /\ lastStatus \in Decided \/ \E call \in submitted : call[3] = n

ConfirmedTracked == Track(<<"CONFIRMED">>)

\* Once the ledger's decision has arrived, answers to calls for other networks
\* that are still under way submit nothing more and are not tracked: only a
\* further confirm() shows.
QuietOnceDecided ==
  [][(lastStatus \in Decided) =>
       submitted' = submitted /\ (events' = events \/ ConfirmedTracked)]_vars

\* The signer is the account the transaction was built for or one the user has
\* switched to since, never an earlier one: take(1) of activeAccount is the
\* account that is active now if the stream has been connected before.
SignerNotStale ==
  ActiveAccountObserved => \A j \in DOMAIN signCalls : signCalls[j].account >= build.account

\* With one network and one confirmation no status request is under way, or
\* made, once the transaction has settled.
NoRequestOutlivesOutcome ==
  completion # "open" =>
    /\ \A r \in Networks \X Retries : asked[r] = 0
    /\ \A answer \in DOMAIN answers : answers[answer] = 0

\* The type of the last of some events that is no error, "none" before it.
LastOf(told) ==
  LET successes == {i \in DOMAIN told : ~told[i].error}
  IN  IF successes = {} THEN "none" ELSE told[Max(successes)].type

LastEvent == LastOf(events)

Tracking == INSTANCE TransactionTracking WITH last <- LastEvent, consent <- confirms > 0

\* One confirmed transaction on one network keeps the promises of
\* TransactionTracking to its caller.
TrackingSpec == Tracking!Spec

\* The polling has ended without a decision.
GaveUp == "status" \notin alive /\ lastStatus \notin Decided

\* A signed transaction settles: it is refused on the way, or the polling sees
\* what its ledger decides, unless it has given up asking.
SettlesOnceSigned == Signatures # {} /\ networks > 0 ~> completion # "open" \/ GaveUp

\* A transaction is finalized and submitted once.
SubmittedOnce ==
  \A i, j \in DOMAIN events :
    events[i] = events[j] /\ events[i].type \in {"FINALIZED", "SUBMITTED"} => i = j
=============================================================================
