----------------------- MODULE TransactionFlowProofs -----------------------
(***************************************************************************)
(* Theorems about TransactionFlow, for every number of accounts, networks, *)
(* confirmations and status requests.                                      *)
(***************************************************************************)
EXTENDS TransactionFlow, SequenceTheorems, TLAPS

(* Events.                                                                 *)

LEMMA EventTyped ==
  ASSUME NEW type \in EventTypes
  PROVE  Event(type) \in EventRecord /\ ErrorEvent(type) \in EventRecord
  BY DEF Event, ErrorEvent, EventRecord

\* What a concatenation has at each position.
LEMMA Positions ==
  ASSUME NEW E, NEW old \in Seq(E), NEW new \in Seq(E)
  PROVE  /\ old \o new \in Seq(E)
         /\ Len(old \o new) = Len(old) + Len(new)
         /\ \A i \in 1..Len(old) : (old \o new)[i] = old[i]
         /\ \A i \in 1..Len(new) : (old \o new)[Len(old) + i] = new[i]
<1>1. Len(old) \in Nat /\ Len(new) \in Nat
  BY LenProperties
<1>2. /\ old \o new \in Seq(E)
      /\ Len(old \o new) = Len(old) + Len(new)
      /\ \A i \in 1..Len(old) + Len(new) :
           (old \o new)[i] = IF i <= Len(old) THEN old[i] ELSE new[i - Len(old)]
  BY ConcatProperties
<1>3. ASSUME NEW i \in 1..Len(old)
      PROVE  (old \o new)[i] = old[i]
  BY <1>1, <1>2
<1>4. ASSUME NEW i \in 1..Len(new)
      PROVE  (old \o new)[Len(old) + i] = new[i]
  <2>1. Len(old) + i \in 1..Len(old) + Len(new) /\ ~(Len(old) + i <= Len(old))
    BY <1>1
  <2>2. (Len(old) + i) - Len(old) = i
    BY <1>1
  <2>. QED
    BY <1>2, <2>1, <2>2
<1>. QED
  BY <1>2, <1>3, <1>4

\* One event for each type.
EventsOf(types) == [i \in DOMAIN types |-> Event(types[i])]

LEMMA EventsOfTyped ==
  ASSUME NEW types \in Seq(EventTypes)
  PROVE  /\ EventsOf(types) \in Seq(EventRecord)
         /\ Len(EventsOf(types)) = Len(types)
         /\ \A i \in 1..Len(types) : EventsOf(types)[i] = Event(types[i])
<1>1. Len(types) \in Nat /\ DOMAIN types = 1..Len(types)
  BY LenProperties
<1>2. \A i \in 1..Len(types) : types[i] \in EventTypes
  BY ElementOfSeq
<1>3. EventsOf(types) \in [1..Len(types) -> EventRecord]
  BY <1>1, <1>2, EventTyped DEF EventsOf
<1>. QED
  BY <1>1, <1>3 DEF EventsOf

\* The types of the events that are no outcome.
QuietTypes == EventTypes \ {"COMPLETED"}

\* A step tracks ordinary events, or none.
TellsQuietly ==
  /\ \E types \in Seq(QuietTypes) : events' = events \o EventsOf(types)
  /\ completion' = completion

\* A stage before the polling errs.
StageErrs ==
  \E type \in {"BUILT_FROM_INTENT", "SIGNED", "FINALIZED", "SUBMITTED"} : TrackError(type)

LEMMA TrackIsQuiet ==
  ASSUME NEW types \in Seq(QuietTypes), Track(types), completion' = completion
  PROVE  TellsQuietly
  BY DEF TellsQuietly, Track, EventsOf

LEMMA SilenceIsQuiet ==
  ASSUME events \in Seq(EventRecord), events' = events, completion' = completion
  PROVE  TellsQuietly
<1>1. <<>> \in Seq(QuietTypes)
  BY EmptySeq
<1>2. EventsOf(<<>>) = <<>>
  BY DEF EventsOf
<1>3. events \o <<>> = events
  BY ConcatEmptySeq
<1>. QED
  BY <1>1, <1>2, <1>3 DEF TellsQuietly

LEMMA SomeTypes ==
  /\ <<"INITIATED">> \in Seq(QuietTypes)
  /\ <<"BUILT_FROM_INTENT", "ASKED_FOR_CONFIRMATION", "CONFIRMED">> \in Seq(QuietTypes)
  /\ <<"BUILT_FROM_INTENT", "ASKED_FOR_CONFIRMATION">> \in Seq(QuietTypes)
  /\ <<"CONFIRMED">> \in Seq(QuietTypes)
  /\ <<"SIGNED">> \in Seq(QuietTypes)
  /\ <<"FINALIZED">> \in Seq(QuietTypes)
  /\ <<"SUBMITTED">> \in Seq(QuietTypes)
  BY DEF QuietTypes, EventTypes

\* What a step may tell the caller: ordinary events, the error of a stage, or
\* a status the polling let through.
LEMMA StepTells ==
  ASSUME TypeOK, [Next]_vars
  PROVE  TellsQuietly \/ StageErrs \/ \E status \in Statuses : StatusChanged(status)
<1>0. events \in Seq(EventRecord)
  BY DEF TypeOK
<1>. SUFFICES ASSUME ~(events' = events /\ completion' = completion)
              PROVE  TellsQuietly \/ StageErrs \/ \E status \in Statuses : StatusChanged(status)
  BY <1>0, SilenceIsQuiet
<1>1. CASE IntentReady
  BY <1>1, SomeTypes, TrackIsQuiet DEF IntentReady
<1>2. ASSUME NEW confirmsAtOnce \in BOOLEAN, TransactionBuilt(confirmsAtOnce)
      PROVE  TellsQuietly
  BY <1>2, SomeTypes, TrackIsQuiet DEF TransactionBuilt
<1>3. CASE BuildFailed
  BY <1>3 DEF BuildFailed, StageErrs
<1>4. CASE Confirm
  BY <1>4, SomeTypes, TrackIsQuiet DEF Confirm
<1>5. ASSUME NEW j \in DOMAIN signCalls, Signed(j)
      PROVE  TellsQuietly
  BY <1>5, SomeTypes, TrackIsQuiet DEF Signed
<1>6. ASSUME NEW j \in DOMAIN signCalls, SignFailed(j)
      PROVE  StageErrs
  BY <1>6 DEF SignFailed, StageErrs, tracking
<1>7. ASSUME NEW call \in FinalizeCalls, Finalized(call)
      PROVE  TellsQuietly
  BY <1>7, SomeTypes, TrackIsQuiet DEF Finalized
<1>8. CASE FinalizeFailed
  BY <1>8 DEF FinalizeFailed, StageErrs
<1>9. ASSUME NEW call \in SubmitCalls, Submitted(call)
      PROVE  TellsQuietly
  BY <1>9, SomeTypes, TrackIsQuiet DEF Submitted
<1>10. ASSUME NEW call \in SubmitCalls, SubmitFailed(call)
       PROVE  StageErrs
  BY <1>10 DEF SubmitFailed, StageErrs
<1>11. ASSUME NEW n \in Networks, SubmitReceived(n) \/ LedgerMoves(n) \/ StatusRequestMoves(n)
       PROVE  FALSE
  BY <1>11 DEF SubmitReceived, LedgerMoves, StatusRequestMoves, StatusAnswered, StatusRetried, tracking
<1>12. ASSUME NEW status \in Statuses, StatusDelivered(status)
       PROVE  StatusChanged(status)
  BY <1>12 DEF StatusDelivered, StatusRepeated, tracking
<1>13. ASSUME NEW code \in StatusErrors, StatusFailed(code)
       PROVE  FALSE
  BY <1>13 DEF StatusFailed, tracking
<1>14. CASE AccountBecomesActive \/ ObserveActiveAccount \/ ConnectToNetwork \/ PollTick
             \/ UNCHANGED vars
  BY <1>14 DEF AccountBecomesActive, ObserveActiveAccount, ConnectToNetwork, PollTick, vars, tracking
<1>. QED
  BY <1>1, <1>2, <1>3, <1>4, <1>5, <1>6, <1>7, <1>8, <1>9, <1>10, <1>11, <1>12, <1>13, <1>14
  DEF Next, BuildAnswered, SignAnswered, FinalizeAnswered, SubmitAnswered

-----------------------------------------------------------------------------
(* Type correctness.                                                       *)

TrackingTypeOK ==
  /\ events \in Seq(EventRecord)
  /\ completion \in {"open", "completed", "errored"}

LEMMA OutcomeTyped ==
  /\ Update \in EventRecord
  /\ <<Update, Event("COMPLETED")>> \in Seq(EventRecord)
  /\ <<Update, ErrorEvent("UPDATE_OF_STATUS_OF_PENDING_TX")>> \in Seq(EventRecord)
<1>1. /\ Update \in EventRecord
      /\ Event("COMPLETED") \in EventRecord
      /\ ErrorEvent("UPDATE_OF_STATUS_OF_PENDING_TX") \in EventRecord
  BY EventTyped DEF Update, EventTypes
<1>. QED
  BY <1>1

LEMMA TrackingTyped ==
  ASSUME TypeOK, [Next]_vars
  PROVE  TrackingTypeOK'
<1>0. events \in Seq(EventRecord) /\ completion \in {"open", "completed", "errored"}
  BY DEF TypeOK
<1>1. CASE TellsQuietly
  <2>1. PICK types \in Seq(QuietTypes) : events' = events \o EventsOf(types)
    BY <1>1 DEF TellsQuietly
  <2>2. types \in Seq(EventTypes)
    BY SeqMonotonic DEF QuietTypes
  <2>3. EventsOf(types) \in Seq(EventRecord)
    BY <2>2, EventsOfTyped
  <2>4. events' \in Seq(EventRecord)
    BY <1>0, <2>1, <2>3, ConcatProperties
  <2>. QED
    BY <1>0, <1>1, <2>4 DEF TrackingTypeOK, TellsQuietly
<1>2. CASE StageErrs
  <2>1. PICK type \in EventTypes : TrackError(type)
    BY <1>2 DEF StageErrs, EventTypes
  <2>2. events' \in Seq(EventRecord)
    BY <1>0, <2>1, EventTyped, AppendProperties DEF TrackError
  <2>3. completion' \in {"open", "completed", "errored"}
    BY <1>0, <2>1 DEF TrackError, Settle
  <2>. QED
    BY <2>2, <2>3 DEF TrackingTypeOK
<1>3. ASSUME NEW status \in Statuses, StatusChanged(status)
      PROVE  TrackingTypeOK'
  <2>1. Conclude(status)
    BY <1>3 DEF StatusChanged
  <2>2. Append(events, Update) \in Seq(EventRecord)
    BY <1>0, OutcomeTyped, AppendProperties
  <2>3. /\ events \o <<Update, Event("COMPLETED")>> \in Seq(EventRecord)
        /\ events \o <<Update, ErrorEvent("UPDATE_OF_STATUS_OF_PENDING_TX")>> \in Seq(EventRecord)
    BY <1>0, OutcomeTyped, ConcatProperties
  <2>4. completion' \in {"open", "completed", "errored"}
    BY <1>0, <2>1 DEF Conclude, Settle
  <2>5. events' \in Seq(EventRecord)
    BY <2>1, <2>2, <2>3 DEF Conclude
  <2>. QED
    BY <2>4, <2>5 DEF TrackingTypeOK
<1>. QED
  BY <1>1, <1>2, <1>3, StepTells

SessionTypeOK ==
  /\ accounts \in 0..MaxAccounts
  /\ networks \in 0..MaxNetworks
  /\ accountShared \in BOOLEAN

SigningTypeOK ==
  /\ build \in [state : {"waiting", "asked", "answered", "failed"}, account : 0..MaxAccounts]
  /\ confirms \in 0..MaxConfirms
  /\ signCalls \in Seq(SignCall) /\ Len(signCalls) <= confirms

SendingTypeOK ==
  /\ finalized \in SUBSET ((1..MaxConfirms) \X Networks)
  /\ submitted \in SUBSET ((1..MaxConfirms) \X Networks \X Networks)
  /\ alive \in SUBSET Stages

PollingTypeOK ==
  /\ pending \in BOOLEAN /\ ticked \in BOOLEAN
  /\ asked \in [Networks \X Retries -> 0..MaxRequests]
  /\ answers \in [Statuses \cup StatusErrors -> 0..MaxRequests]
  /\ lastStatus \in Statuses \cup {"none"}
  /\ ledger \in [Networks -> {"unknown", "offered", "received"} \cup Statuses]

LEMMA TypeParts ==
  TypeOK <=> SessionTypeOK /\ SigningTypeOK /\ SendingTypeOK /\ PollingTypeOK /\ TrackingTypeOK
  BY DEF TypeOK, SessionTypeOK, SigningTypeOK, SendingTypeOK, PollingTypeOK, TrackingTypeOK

\* The actions, by the part of the flow they move.
UserStep ==
  \/ AccountBecomesActive \/ ObserveActiveAccount \/ ConnectToNetwork
  \/ IntentReady \/ Confirm \/ BuildFailed
  \/ \E confirmsAtOnce \in BOOLEAN : TransactionBuilt(confirmsAtOnce)

SignStep ==
  /\ UNCHANGED session
  /\ \E j \in DOMAIN signCalls : Signed(j) \/ SignFailed(j)

SendStep ==
  /\ UNCHANGED <<session, signing>>
  /\ \/ FinalizeFailed
     \/ \E call \in FinalizeCalls : Finalized(call)
     \/ \E call \in SubmitCalls : Submitted(call) \/ SubmitFailed(call)

PollStep ==
  /\ UNCHANGED <<session, signing, sending>>
  /\ \/ PollTick
     \/ \E n \in Networks : SubmitReceived(n) \/ LedgerMoves(n) \/ StatusRequestMoves(n)
     \/ \E status \in Statuses : StatusRepeated(status) \/ StatusChanged(status)
     \/ \E code \in StatusErrors : StatusFailed(code)

LEMMA Steps ==
  ASSUME [Next]_vars
  PROVE  UserStep \/ SignStep \/ SendStep \/ PollStep \/ UNCHANGED vars
<1>1. ASSUME NEW j \in DOMAIN signCalls, Signed(j) \/ SignFailed(j)
      PROVE  UNCHANGED session
  BY <1>1 DEF Signed, SignFailed
<1>2. ASSUME NEW call \in FinalizeCalls, Finalized(call)
      PROVE  UNCHANGED <<session, signing>>
  BY <1>2 DEF Finalized
<1>3. CASE FinalizeFailed
  BY <1>3 DEF FinalizeFailed, SendStep
<1>4. ASSUME NEW call \in SubmitCalls, Submitted(call) \/ SubmitFailed(call)
      PROVE  UNCHANGED <<session, signing>>
  BY <1>4 DEF Submitted, SubmitFailed
<1>5. CASE PollTick
  BY <1>5 DEF PollTick, PollStep
<1>6. ASSUME NEW n \in Networks, SubmitReceived(n) \/ LedgerMoves(n) \/ StatusRequestMoves(n)
      PROVE  UNCHANGED <<session, signing, sending>>
  BY <1>6 DEF SubmitReceived, LedgerMoves, StatusRequestMoves, StatusAnswered, StatusRetried
<1>7. ASSUME NEW status \in Statuses, StatusRepeated(status) \/ StatusChanged(status)
      PROVE  UNCHANGED <<session, signing, sending>>
  BY <1>7 DEF StatusRepeated, StatusChanged
<1>8. ASSUME NEW code \in StatusErrors, StatusFailed(code)
      PROVE  UNCHANGED <<session, signing, sending>>
  BY <1>8 DEF StatusFailed
<1>. QED
  BY <1>1, <1>2, <1>3, <1>4, <1>5, <1>6, <1>7, <1>8
  DEF Next, BuildAnswered, SignAnswered, FinalizeAnswered, SubmitAnswered, StatusDelivered,
      UserStep, SignStep, SendStep, PollStep

LEMMA SessionTyped ==
  ASSUME SessionTypeOK, [Next]_vars
  PROVE  SessionTypeOK'
<1>1. CASE AccountBecomesActive \/ ObserveActiveAccount \/ ConnectToNetwork
  <2>1. CASE AccountBecomesActive
    BY <2>1, FlowAssumption DEF SessionTypeOK, AccountBecomesActive
  <2>2. CASE ObserveActiveAccount
    BY <2>2 DEF SessionTypeOK, ObserveActiveAccount
  <2>3. CASE ConnectToNetwork
    <3>1. networks < MaxNetworks /\ networks' = networks + 1 /\ UNCHANGED <<accounts, accountShared>>
      BY <2>3 DEF ConnectToNetwork
    <3>. QED
      BY <3>1, FlowAssumption DEF SessionTypeOK
  <2>. QED
    BY <1>1, <2>1, <2>2, <2>3
<1>2. ASSUME NEW confirmsAtOnce \in BOOLEAN, TransactionBuilt(confirmsAtOnce)
      PROVE  SessionTypeOK'
  BY <1>2 DEF SessionTypeOK, TransactionBuilt, StartSigning
<1>3. CASE Confirm
  BY <1>3 DEF SessionTypeOK, Confirm, StartSigning
<1>4. CASE IntentReady \/ BuildFailed
  BY <1>4 DEF SessionTypeOK, IntentReady, BuildFailed, session
<1>5. CASE UserStep
  BY <1>1, <1>2, <1>3, <1>4, <1>5 DEF UserStep
<1>6. CASE UNCHANGED session
  BY <1>6 DEF SessionTypeOK, session
<1>. QED
  BY <1>5, <1>6, Steps DEF SignStep, SendStep, PollStep, vars

\* An intent is built for an account that was active.
BuiltForAccount == build.state \in {"asked", "answered"} => build.account \in 1..accounts

\* A built transaction is confirmed.
LEMMA ConfirmTyped ==
  ASSUME SessionTypeOK, SigningTypeOK, accounts > 0, StartSigning, CallsConfirm
  PROVE  /\ signCalls' \in Seq(SignCall) /\ Len(signCalls') <= confirms'
         /\ Len(signCalls') = Len(signCalls) + 1
         /\ confirms' \in 0..MaxConfirms
         /\ \A j \in 1..Len(signCalls) : signCalls'[j] = signCalls[j]
         /\ signCalls'[Len(signCalls) + 1] = [account |-> SigningAccount, state |-> "asked"]
<1>. DEFINE call == [account |-> SigningAccount, state |-> "asked"]
<1>1. Len(signCalls) \in Nat
  BY LenProperties DEF SigningTypeOK
<1>2. SigningAccount \in 1..MaxAccounts
  BY FlowAssumption DEF SigningAccount, SessionTypeOK
<1>3. call \in SignCall
  BY <1>2 DEF SignCall
<1>4. signCalls' = Append(signCalls, call)
  BY DEF StartSigning
<1>. HIDE DEF call
<1>5. /\ signCalls' \in Seq(SignCall) /\ Len(signCalls') = Len(signCalls) + 1
      /\ \A j \in 1..Len(signCalls) : signCalls'[j] = signCalls[j]
      /\ signCalls'[Len(signCalls) + 1] = call
  BY <1>3, <1>4, AppendProperties DEF SigningTypeOK
<1>6. confirms' = confirms + 1 /\ confirms' \in 0..MaxConfirms
  BY FlowAssumption DEF CallsConfirm, SigningTypeOK
<1>7. Len(signCalls') <= confirms'
  BY <1>1, <1>5, <1>6 DEF SigningTypeOK
<1>. QED
  BY <1>5, <1>6, <1>7 DEF call

LEMMA SigningTyped ==
  ASSUME SessionTypeOK, SigningTypeOK, BuiltForAccount, [Next]_vars
  PROVE  SigningTypeOK'
<1>1. CASE AccountBecomesActive \/ ObserveActiveAccount \/ ConnectToNetwork
  BY <1>1 DEF SigningTypeOK, AccountBecomesActive, ObserveActiveAccount, ConnectToNetwork, signing
<1>2. CASE IntentReady
  BY <1>2 DEF SigningTypeOK, SessionTypeOK, IntentReady
<1>3. CASE BuildFailed
  BY <1>3 DEF SigningTypeOK, BuildFailed
<1>4. ASSUME NEW confirmsAtOnce \in BOOLEAN, TransactionBuilt(confirmsAtOnce)
      PROVE  SigningTypeOK'
  <2>1. accounts > 0
    BY <1>4 DEF TransactionBuilt, BuiltForAccount, SessionTypeOK
  <2>2. build' \in [state : {"waiting", "asked", "answered", "failed"}, account : 0..MaxAccounts]
    BY <1>4 DEF TransactionBuilt, SigningTypeOK
  <2>3. (StartSigning /\ CallsConfirm) \/ UNCHANGED <<confirms, signCalls>>
    BY <1>4 DEF TransactionBuilt
  <2>. QED
    BY <2>1, <2>2, <2>3, ConfirmTyped DEF SigningTypeOK
<1>5. CASE Confirm
  <2>1. accounts > 0
    BY <1>5 DEF Confirm, BuiltForAccount, SessionTypeOK
  <2>2. CASE StartSigning /\ UNCHANGED build
    BY <1>5, <2>1, <2>2, ConfirmTyped DEF SigningTypeOK, Confirm
  <2>3. CASE UNCHANGED <<build, signCalls>> /\ CallsConfirm
    <3>1. Len(signCalls) \in Nat
      BY LenProperties DEF SigningTypeOK
    <3>. QED
      BY <2>3, <3>1, FlowAssumption DEF SigningTypeOK, CallsConfirm
  <2>. QED
    BY <1>5, <2>2, <2>3 DEF Confirm
<1>6. ASSUME NEW j \in DOMAIN signCalls, Signed(j)
      PROVE  SigningTypeOK'
  <2>1. DOMAIN signCalls = 1..Len(signCalls)
    BY LenProperties DEF SigningTypeOK
  <2>2. [signCalls[j] EXCEPT !.state = "signed"] \in SignCall
    <3>1. signCalls[j] \in SignCall
      BY <2>1, ElementOfSeq DEF SigningTypeOK
    <3>. QED
      BY <3>1 DEF SignCall
  <2>3. signCalls' \in Seq(SignCall) /\ Len(signCalls') = Len(signCalls)
    BY <1>6, <2>1, <2>2, ExceptSeq DEF Signed, SigningTypeOK
  <2>. QED
    BY <1>6, <2>3 DEF Signed, SigningTypeOK
<1>7. ASSUME NEW j \in DOMAIN signCalls, SignFailed(j)
      PROVE  SigningTypeOK'
  BY <1>7 DEF SignFailed, SigningTypeOK, signing
<1>8. CASE UNCHANGED signing
  BY <1>8 DEF SigningTypeOK, signing
<1>9. UNCHANGED vars => UNCHANGED signing
  BY DEF vars
<1>. QED
  BY <1>1, <1>2, <1>3, <1>4, <1>5, <1>6, <1>7, <1>8, <1>9, Steps
  DEF UserStep, SignStep, SendStep, PollStep

LEMMA CallsTyped ==
  ASSUME SessionTypeOK, SigningTypeOK, SendingTypeOK
  PROVE  /\ FinalizeCalls \subseteq (1..MaxConfirms) \X Networks
         /\ SubmitCalls \subseteq (1..MaxConfirms) \X Networks \X Networks
<1>1. Signatures \subseteq 1..MaxConfirms
  <2>1. DOMAIN signCalls = 1..Len(signCalls) /\ Len(signCalls) \in Nat
    BY LenProperties DEF SigningTypeOK
  <2>. QED
    BY <2>1, FlowAssumption DEF Signatures, SigningTypeOK
<1>2. 1..networks \subseteq Networks
  BY FlowAssumption DEF SessionTypeOK, Networks
<1>3. FinalizeCalls \subseteq (1..MaxConfirms) \X Networks
  BY <1>1, <1>2 DEF FinalizeCalls
<1>4. ASSUME NEW call \in finalized, NEW n \in 1..networks
      PROVE  <<call[1], call[2], n>> \in (1..MaxConfirms) \X Networks \X Networks
  BY <1>2 DEF SendingTypeOK
<1>5. SubmitCalls \subseteq (1..MaxConfirms) \X Networks \X Networks
  BY <1>4 DEF SubmitCalls
<1>. QED
  BY <1>3, <1>5

LEMMA SendingTyped ==
  ASSUME SessionTypeOK, SigningTypeOK, SendingTypeOK, [Next]_vars
  PROVE  SendingTypeOK'
<1>1. CASE UserStep
  BY <1>1 DEF UserStep, SendingTypeOK, AccountBecomesActive, ObserveActiveAccount, ConnectToNetwork,
              IntentReady, Confirm, BuildFailed, TransactionBuilt, sending
<1>2. CASE SignStep
  BY <1>2 DEF SignStep, SendingTypeOK, Signed, SignFailed, sending
<1>3. ASSUME NEW call \in FinalizeCalls, Finalized(call)
      PROVE  SendingTypeOK'
  BY <1>3, CallsTyped DEF SendingTypeOK, Finalized
<1>4. CASE FinalizeFailed
  BY <1>4 DEF SendingTypeOK, FinalizeFailed, sending
<1>5. ASSUME NEW call \in SubmitCalls, Submitted(call)
      PROVE  SendingTypeOK'
  BY <1>5, CallsTyped DEF SendingTypeOK, Submitted
<1>6. ASSUME NEW call \in SubmitCalls, SubmitFailed(call)
      PROVE  SendingTypeOK'
  BY <1>6 DEF SendingTypeOK, SubmitFailed, sending
<1>7. CASE PollStep
  <2>1. alive' \subseteq alive
    BY <1>7 DEF PollStep, PollTick, SubmitReceived, LedgerMoves, StatusRequestMoves, StatusAnswered, StatusRetried, StatusRepeated, StatusChanged,
                UnsubscribeOnce, StatusFailed
  <2>. QED
    BY <1>7, <2>1 DEF PollStep, sending, SendingTypeOK
<1>8. CASE UNCHANGED vars
  BY <1>8 DEF vars, sending, SendingTypeOK
<1>. QED
  BY <1>1, <1>2, <1>3, <1>4, <1>5, <1>6, <1>7, <1>8, Steps DEF SendStep

LEMMA AskTyped ==
  ASSUME SessionTypeOK, PollingTypeOK, AskStatus
  PROVE  /\ asked' \in [Networks \X Retries -> 0..MaxRequests]
         /\ answers' \in [Statuses \cup StatusErrors -> 0..MaxRequests]
  BY FlowAssumption DEF SessionTypeOK, PollingTypeOK, AskStatus, Networks

LEMMA PollingTyped ==
  ASSUME SessionTypeOK, SigningTypeOK, SendingTypeOK, PollingTypeOK, [Next]_vars
  PROVE  PollingTypeOK'
<1>1. CASE ConnectToNetwork
  <2>1. networks + 1 \in Networks
    BY <1>1, FlowAssumption DEF ConnectToNetwork, SessionTypeOK, Networks
  <2>2. asked' \in [Networks \X Retries -> 0..MaxRequests]
    BY <1>1, <2>1, FlowAssumption DEF ConnectToNetwork, PollingTypeOK
  <2>3. ledger' \in [Networks -> {"unknown", "offered", "received"} \cup Statuses]
    BY <1>1 DEF ConnectToNetwork, SubmitTo, PollingTypeOK
  <2>. QED
    BY <1>1, <2>2, <2>3 DEF ConnectToNetwork, PollingTypeOK
<1>2. CASE UserStep
  BY <1>1, <1>2 DEF UserStep, PollingTypeOK, AccountBecomesActive, ObserveActiveAccount,
              IntentReady, Confirm, BuildFailed, TransactionBuilt, polling, requests
<1>3. CASE SignStep
  BY <1>3 DEF SignStep, PollingTypeOK, Signed, SignFailed, polling, requests
<1>4. CASE FinalizeFailed
  BY <1>4 DEF PollingTypeOK, FinalizeFailed, polling, requests
<1>16. ASSUME NEW call \in FinalizeCalls, Finalized(call)
       PROVE  PollingTypeOK'
  <2>1. ledger' \in [Networks -> {"unknown", "offered", "received"} \cup Statuses]
    BY <1>16 DEF Finalized, SubmitTo, PollingTypeOK
  <2>. QED
    BY <1>16, <2>1 DEF PollingTypeOK, Finalized, polling, requests
<1>5. ASSUME NEW call \in SubmitCalls, Submitted(call) \/ SubmitFailed(call)
      PROVE  PollingTypeOK'
  <2>1. ledger' = ledger
    BY <1>5 DEF Submitted, SubmitFailed
  <2>2. /\ asked' \in [Networks \X Retries -> 0..MaxRequests]
        /\ answers' \in [Statuses \cup StatusErrors -> 0..MaxRequests]
    BY <1>5, AskTyped DEF Submitted, SubmitFailed, polling, requests, PollingTypeOK
  <2>. QED
    BY <1>5, <2>1, <2>2 DEF PollingTypeOK, Submitted, SubmitFailed, polling
<1>6. CASE PollTick
  BY <1>6, AskTyped DEF PollTick, PollingTypeOK, requests
<1>7. ASSUME NEW n \in Networks, SubmitReceived(n) \/ LedgerMoves(n)
      PROVE  PollingTypeOK'
  BY <1>7 DEF SubmitReceived, LedgerMoves, PollingTypeOK, polling, requests, Statuses, Decided
<1>15. ASSUME NEW n \in Networks, NEW k \in Retries, StatusRetried(n, k)
       PROVE  PollingTypeOK'
  <2>1. k + 1 \in Retries
    BY <1>15, FlowAssumption DEF StatusRetried, Retries
  <2>2. asked' \in [Networks \X Retries -> 0..MaxRequests]
    BY <1>15, <2>1, FlowAssumption DEF StatusRetried, PollingTypeOK
  <2>. QED
    BY <1>15, <2>2 DEF StatusRetried, PollingTypeOK
<1>8. ASSUME NEW n \in Networks, NEW k \in Retries, StatusAnswered(n, k)
      PROVE  PollingTypeOK'
  <2>1. asked' \in [Networks \X Retries -> 0..MaxRequests]
    BY <1>8, FlowAssumption DEF StatusAnswered, PollingTypeOK
  <2>2. answers' \in [Statuses \cup StatusErrors -> 0..MaxRequests]
    <3>1. NodeAnswers(n, k) \subseteq Statuses \cup StatusErrors
      BY DEF NodeAnswers
    <3>2. PICK answer \in Statuses \cup StatusErrors :
            answers[answer] < MaxRequests /\ answers' = [answers EXCEPT ![answer] = @ + 1]
      BY <1>8, <3>1 DEF StatusAnswered
    <3>. QED
      BY <3>2, FlowAssumption DEF PollingTypeOK
  <2>. QED
    BY <1>8, <2>1, <2>2 DEF StatusAnswered, PollingTypeOK
<1>9. CancelRequests => /\ asked' \in [Networks \X Retries -> 0..MaxRequests]
                        /\ answers' \in [Statuses \cup StatusErrors -> 0..MaxRequests]
  BY FlowAssumption DEF CancelRequests
<1>10. ASSUME NEW status \in Statuses, answers[status] > 0, Arrives(status)
       PROVE  /\ asked' \in [Networks \X Retries -> 0..MaxRequests]
              /\ answers' \in [Statuses \cup StatusErrors -> 0..MaxRequests]
  BY <1>10, FlowAssumption DEF Arrives, PollingTypeOK
<1>11. ASSUME NEW status \in Statuses, StatusRepeated(status)
       PROVE  PollingTypeOK'
  BY <1>10, <1>11 DEF StatusRepeated, PollingTypeOK
<1>12. ASSUME NEW status \in Statuses, StatusChanged(status)
       PROVE  PollingTypeOK'
  <2>1. CancelRequests \/ Arrives(status)
    BY <1>12 DEF StatusChanged, UnsubscribeOnce
  <2>. QED
    BY <1>9, <1>10, <1>12, <2>1 DEF StatusChanged, PollingTypeOK
<1>13. ASSUME NEW code \in StatusErrors, StatusFailed(code)
       PROVE  PollingTypeOK'
  BY <1>9, <1>13 DEF StatusFailed, PollingTypeOK
<1>14. CASE UNCHANGED vars
  BY <1>14 DEF vars, polling, requests, PollingTypeOK
<1>. QED
  BY <1>1, <1>2, <1>3, <1>4, <1>5, <1>6, <1>7, <1>8, <1>11, <1>12, <1>13, <1>14, <1>15, <1>16, Steps
  DEF SendStep, PollStep, StatusRequestMoves

-----------------------------------------------------------------------------
(* What the caller is told.                                                *)

StageTypes == {"BUILT_FROM_INTENT", "SIGNED", "FINALIZED", "SUBMITTED"}

\* The events of a step, with what they do to the completion.
Tells(new) ==
  \/ /\ \A i \in 1..Len(new) : ~IsOutcome(new[i])
     /\ UNCHANGED completion
  \/ /\ \E type \in StageTypes : new = <<ErrorEvent(type)>>
     /\ Settle("errored")
  \/ /\ answers["CONFIRMED"] > 0
     /\ new = <<Update, Event("COMPLETED")>>
     /\ Settle("completed")
  \/ /\ answers["FAILED"] > 0
     /\ new = <<Update, ErrorEvent("UPDATE_OF_STATUS_OF_PENDING_TX")>>
     /\ Settle("errored")

LEMMA StepAppends ==
  ASSUME TypeOK, [Next]_vars
  PROVE  \E new \in Seq(EventRecord) : events' = events \o new /\ Tells(new)
<1>0. events \in Seq(EventRecord)
  BY DEF TypeOK
<1>1. CASE TellsQuietly
  <2>1. PICK types \in Seq(QuietTypes) : events' = events \o EventsOf(types)
    BY <1>1 DEF TellsQuietly
  <2>2. types \in Seq(EventTypes)
    BY SeqMonotonic DEF QuietTypes
  <2>3. ASSUME NEW i \in 1..Len(types)
        PROVE  ~IsOutcome(Event(types[i]))
    <3>1. types[i] \in QuietTypes
      BY ElementOfSeq
    <3>. QED
      BY <3>1 DEF IsOutcome, Event, QuietTypes
  <2>4. /\ EventsOf(types) \in Seq(EventRecord)
        /\ \A i \in 1..Len(EventsOf(types)) : ~IsOutcome(EventsOf(types)[i])
    BY <2>2, <2>3, EventsOfTyped
  <2>. QED
    BY <1>1, <2>1, <2>4 DEF TellsQuietly, Tells
<1>2. CASE StageErrs
  <2>1. PICK type \in StageTypes : TrackError(type)
    BY <1>2 DEF StageErrs, StageTypes
  <2>2. ErrorEvent(type) \in EventRecord
    BY EventTyped DEF StageTypes, EventTypes
  <2>3. /\ events' = events \o <<ErrorEvent(type)>>
        /\ <<ErrorEvent(type)>> \in Seq(EventRecord)
    BY <1>0, <2>1, <2>2, AppendIsConcat DEF TrackError
  <2>4. Tells(<<ErrorEvent(type)>>)
    BY <2>1 DEF Tells, TrackError
  <2>. QED
    BY <2>3, <2>4
<1>3. ASSUME NEW status \in Statuses, StatusChanged(status)
      PROVE  \E new \in Seq(EventRecord) : events' = events \o new /\ Tells(new)
  <2>1. answers[status] > 0 /\ Conclude(status)
    BY <1>3 DEF StatusChanged
  <2>2. CASE status = "PENDING"
    <3>1. events' = events \o <<Update>> /\ UNCHANGED completion
      BY <1>0, <2>1, <2>2, OutcomeTyped, AppendIsConcat DEF Conclude
    <3>2. ~IsOutcome(Update)
      BY DEF Update, Event, IsOutcome
    <3>3. Tells(<<Update>>)
      BY <3>1, <3>2 DEF Tells
    <3>4. <<Update>> \in Seq(EventRecord)
      BY OutcomeTyped
    <3>. QED
      BY <3>1, <3>3, <3>4
  <2>3. CASE status = "CONFIRMED"
    <3>1. events' = events \o <<Update, Event("COMPLETED")>> /\ Settle("completed")
      BY <2>1, <2>3 DEF Conclude
    <3>. QED
      BY <2>1, <2>3, <3>1, OutcomeTyped DEF Tells
  <2>4. CASE status = "FAILED"
    <3>1. /\ events' = events \o <<Update, ErrorEvent("UPDATE_OF_STATUS_OF_PENDING_TX")>>
          /\ Settle("errored")
      BY <2>1, <2>4 DEF Conclude
    <3>. QED
      BY <2>1, <2>4, <3>1, OutcomeTyped DEF Tells
  <2>. QED
    BY <2>2, <2>3, <2>4 DEF Statuses, Decided
<1>. QED
  BY <1>1, <1>2, <1>3, StepTells

LEMMA TrackedAfter ==
  ASSUME events \in Seq(EventRecord), NEW new \in Seq(EventRecord), events' = events \o new,
         NEW event
  PROVE  Tracked(event)' <=> Tracked(event) \/ \E i \in 1..Len(new) : new[i] = event
<1>1. /\ DOMAIN events = 1..Len(events) /\ Len(events) \in Nat
      /\ Len(new) \in Nat
      /\ DOMAIN events' = 1..Len(events')
  BY Positions, LenProperties
<1>2. /\ Len(events') = Len(events) + Len(new)
      /\ \A i \in 1..Len(events) : events'[i] = events[i]
      /\ \A i \in 1..Len(new) : events'[Len(events) + i] = new[i]
  BY Positions
<1>3. \A i \in 1..Len(events') :
        i \in 1..Len(events) \/ \E k \in 1..Len(new) : i = Len(events) + k
  <2>1. ASSUME NEW i \in 1..Len(events'), i \notin 1..Len(events)
        PROVE  i - Len(events) \in 1..Len(new) /\ i = Len(events) + (i - Len(events))
    BY <1>1, <1>2, <2>1
  <2>. QED
    BY <2>1
<1>4. /\ \A i \in 1..Len(events) : i \in 1..Len(events')
      /\ \A i \in 1..Len(new) : Len(events) + i \in 1..Len(events')
  BY <1>1, <1>2
<1>5. /\ Tracked(event) <=> \E i \in 1..Len(events) : events[i] = event
      /\ Tracked(event)' <=> \E i \in 1..Len(events') : events'[i] = event
  BY <1>1 DEF Tracked
<1>6. ASSUME NEW i \in 1..Len(events'), events'[i] = event
      PROVE  Tracked(event) \/ \E k \in 1..Len(new) : new[k] = event
  BY <1>2, <1>3, <1>5, <1>6
<1>7. ASSUME Tracked(event) \/ \E k \in 1..Len(new) : new[k] = event
      PROVE  \E i \in 1..Len(events') : events'[i] = event
  BY <1>2, <1>4, <1>5, <1>7
<1>. QED
  BY <1>5, <1>6, <1>7

\* A step settles the completion with its first outcome, if it is open.
LEMMA FirstOutcomeStep ==
  ASSUME TypeOK, CompletionIsFirstOutcome, [Next]_vars
  PROVE  CompletionIsFirstOutcome'
<1>1. PICK new \in Seq(EventRecord) : events' = events \o new /\ Tells(new)
  BY StepAppends
<1>2. events \in Seq(EventRecord) /\ completion \in {"open", "completed", "errored"}
  BY DEF TypeOK
<1>3. /\ DOMAIN events = 1..Len(events) /\ Len(events) \in Nat
      /\ Len(new) \in Nat
      /\ DOMAIN events' = 1..Len(events')
  BY <1>1, <1>2, Positions, LenProperties
<1>4. /\ Len(events') = Len(events) + Len(new)
      /\ \A i \in 1..Len(events) : events'[i] = events[i]
      /\ \A i \in 1..Len(new) : events'[Len(events) + i] = new[i]
  BY <1>1, <1>2, Positions
<1>5. CASE completion # "open"
  <2>1. completion' = completion
    BY <1>1, <1>5 DEF Tells, Settle
  <2>2. PICK i \in 1..Len(events) :
          /\ IsOutcome(events[i])
          /\ \A j \in 1..(i - 1) : ~IsOutcome(events[j])
          /\ completion = IF events[i].error THEN "errored" ELSE "completed"
    BY <1>3, <1>5 DEF CompletionIsFirstOutcome
  <2>3. i \in 1..Len(events') /\ events'[i] = events[i]
    BY <1>3, <1>4
  <2>4. ASSUME NEW j \in 1..(i - 1)
        PROVE  ~IsOutcome(events'[j])
    <3>1. j \in 1..Len(events)
      BY <1>3
    <3>. QED
      BY <1>4, <2>2, <3>1
  <2>. QED
    BY <1>3, <2>1, <2>2, <2>3, <2>4 DEF CompletionIsFirstOutcome, IsOutcome
<1>6. CASE completion = "open"
  <2>1. \A j \in 1..Len(events) : ~IsOutcome(events'[j])
    BY <1>3, <1>4, <1>6 DEF CompletionIsFirstOutcome
  <2>2. CASE (\A i \in 1..Len(new) : ~IsOutcome(new[i])) /\ completion' = completion
    <3>1. ASSUME NEW j \in 1..Len(events'), j \notin 1..Len(events)
          PROVE  ~IsOutcome(events'[j])
      <4>1. j - Len(events) \in 1..Len(new) /\ Len(events) + (j - Len(events)) = j
        BY <1>3, <1>4, <3>1
      <4>. QED
        BY <1>4, <2>2, <4>1
    <3>. QED
      BY <1>3, <1>6, <2>1, <2>2, <3>1 DEF CompletionIsFirstOutcome
  <2>3. ASSUME NEW k \in 1..Len(new), IsOutcome(new[k]),
               \A j \in 1..(k - 1) : ~IsOutcome(new[j]),
               completion' = IF new[k].error THEN "errored" ELSE "completed"
        PROVE  CompletionIsFirstOutcome'
    <3>1. Len(events) + k \in 1..Len(events') /\ events'[Len(events) + k] = new[k]
      BY <1>3, <1>4
    <3>2. ASSUME NEW j \in 1..((Len(events) + k) - 1), j \notin 1..Len(events)
          PROVE  ~IsOutcome(events'[j])
      <4>1. /\ j - Len(events) \in 1..(k - 1) /\ j - Len(events) \in 1..Len(new)
            /\ Len(events) + (j - Len(events)) = j
        BY <1>3, <1>4, <3>2
      <4>. QED
        BY <1>4, <2>3, <4>1
    <3>. QED
      BY <1>3, <2>1, <2>3, <3>1, <3>2 DEF CompletionIsFirstOutcome
  <2>4. \A type : ErrorEvent(type).error /\ IsOutcome(ErrorEvent(type))
    BY DEF ErrorEvent, IsOutcome
  <2>5. IsOutcome(Event("COMPLETED")) /\ ~Event("COMPLETED").error /\ ~IsOutcome(Update)
    BY DEF Event, Update, IsOutcome
  <2>6. CASE (\E type \in StageTypes : new = <<ErrorEvent(type)>>) /\ Settle("errored")
    <3>1. Len(new) = 1 /\ IsOutcome(new[1]) /\ new[1].error
      BY <2>4, <2>6
    <3>2. completion' = "errored"
      BY <1>6, <2>6 DEF Settle
    <3>. QED
      BY <2>3, <3>1, <3>2
  <2>7. CASE new = <<Update, Event("COMPLETED")>> /\ Settle("completed")
    <3>1. /\ Len(new) = 2 /\ IsOutcome(new[2]) /\ ~new[2].error
          /\ \A j \in 1..(2 - 1) : ~IsOutcome(new[j])
      BY <2>5, <2>7
    <3>2. completion' = "completed"
      BY <1>6, <2>7 DEF Settle
    <3>. QED
      BY <2>3, <3>1, <3>2
  <2>8. CASE new = <<Update, ErrorEvent("UPDATE_OF_STATUS_OF_PENDING_TX")>> /\ Settle("errored")
    <3>1. /\ Len(new) = 2 /\ IsOutcome(new[2]) /\ new[2].error
          /\ \A j \in 1..(2 - 1) : ~IsOutcome(new[j])
      BY <2>4, <2>5, <2>8
    <3>2. completion' = "errored"
      BY <1>6, <2>8 DEF Settle
    <3>. QED
      BY <2>3, <3>1, <3>2
  <2>. QED
    BY <1>1, <2>2, <2>6, <2>7, <2>8 DEF Tells
<1>. QED
  BY <1>5, <1>6

-----------------------------------------------------------------------------
(* The ledgers and what their nodes answer.                                *)

\* A ledger moves forward, and it leaves "unknown" for what is finalized only,
\* on a network that is connected to.
LedgerStep(n) ==
  \/ ledger'[n] = ledger[n]
  \/ /\ ledger[n] = "unknown" /\ ledger'[n] = "offered"
     /\ finalized' # {} /\ n \in 1..networks'
  \/ ledger[n] = "offered" /\ ledger'[n] = "received"
  \/ ledger[n] = "received" /\ ledger'[n] = "PENDING"
  \/ ledger[n] = "PENDING" /\ ledger'[n] \in Decided

LEMMA LedgerForward ==
  ASSUME TypeOK, [Next]_vars, NEW n \in Networks
  PROVE  LedgerStep(n)
<1>0. ledger \in [Networks -> {"unknown", "offered", "received"} \cup Statuses]
  BY DEF TypeOK
<1>9. networks \in Nat
  BY FlowAssumption DEF TypeOK
<1>8. CASE ConnectToNetwork
  <2>1. networks' = networks + 1 /\ finalized' = finalized
    BY <1>8 DEF ConnectToNetwork, sending
  <2>2. SubmitTo(IF finalized = {} THEN {} ELSE {networks + 1})
    BY <1>8 DEF ConnectToNetwork
  <2>3. \/ ledger'[n] = ledger[n]
        \/ /\ ledger[n] = "unknown" /\ ledger'[n] = "offered"
           /\ finalized # {} /\ n = networks + 1
    BY <2>2 DEF SubmitTo
  <2>. QED
    BY <1>9, <2>1, <2>3 DEF LedgerStep
<1>1. CASE UserStep
  BY <1>1, <1>8 DEF UserStep, LedgerStep, AccountBecomesActive, ObserveActiveAccount,
              IntentReady, Confirm, BuildFailed, TransactionBuilt
<1>2. CASE SignStep
  BY <1>2 DEF SignStep, LedgerStep, Signed, SignFailed
<1>3. CASE FinalizeFailed
  BY <1>3 DEF LedgerStep, FinalizeFailed
<1>10. ASSUME NEW call \in FinalizeCalls, Finalized(call)
       PROVE  LedgerStep(n)
  <2>1. networks' = networks /\ finalized' # {} /\ SubmitTo(1..networks)
    BY <1>10 DEF Finalized, session
  <2>2. \/ ledger'[n] = ledger[n]
        \/ ledger[n] = "unknown" /\ ledger'[n] = "offered" /\ n \in 1..networks
    BY <2>1 DEF SubmitTo
  <2>. QED
    BY <2>1, <2>2 DEF LedgerStep
<1>4. ASSUME NEW call \in SubmitCalls, Submitted(call) \/ SubmitFailed(call)
      PROVE  LedgerStep(n)
  BY <1>4 DEF LedgerStep, Submitted, SubmitFailed
<1>5. ASSUME NEW m \in Networks, SubmitReceived(m) \/ LedgerMoves(m)
      PROVE  LedgerStep(n)
  BY <1>0, <1>5 DEF SubmitReceived, LedgerMoves, LedgerStep
<1>6. CASE PollStep
  BY <1>5, <1>6 DEF PollStep, LedgerStep, PollTick, StatusRequestMoves, StatusAnswered, StatusRetried, StatusRepeated, StatusChanged,
              StatusFailed
<1>7. CASE UNCHANGED vars
  BY <1>7 DEF vars, LedgerStep
<1>. QED
  BY <1>1, <1>2, <1>3, <1>4, <1>6, <1>7, <1>10, Steps DEF SendStep

LEMMA LedgerKeeps ==
  ASSUME TypeOK, [Next]_vars, NEW status \in Decided, OnSomeLedger(status)
  PROVE  OnSomeLedger(status)'
<1>1. PICK n \in Networks : ledger[n] = status
  BY DEF OnSomeLedger
<1>2. ledger'[n] = status
  BY <1>1, LedgerForward DEF LedgerStep, Decided
<1>. QED
  BY <1>2 DEF OnSomeLedger

\* A decision is on its way only if a ledger has made it.
AnswersTrue == \A status \in Decided : answers[status] > 0 => OnSomeLedger(status)

LEMMA AnswersFromLedger ==
  ASSUME TypeOK, [Next]_vars, NEW status \in Decided, answers'[status] > 0
  PROVE  answers[status] > 0 \/ OnSomeLedger(status)
<1>0. /\ answers \in [Statuses \cup StatusErrors -> 0..MaxRequests]
      /\ status \in Statuses \cup StatusErrors
      /\ answers[status] \in 0..MaxRequests
  BY DEF TypeOK, Statuses
<1>1. CASE UserStep
  BY <1>1 DEF UserStep, AccountBecomesActive, ObserveActiveAccount, ConnectToNetwork, IntentReady,
              Confirm, BuildFailed, TransactionBuilt, polling, requests
<1>2. CASE SignStep
  BY <1>2 DEF SignStep, Signed, SignFailed, polling, requests
<1>3. CASE SendStep
  BY <1>3 DEF SendStep, FinalizeFailed, Finalized, Submitted, SubmitFailed, AskStatus, polling,
              requests
<1>4. CASE PollTick \/ \E n \in Networks : SubmitReceived(n) \/ LedgerMoves(n)
  BY <1>4 DEF PollTick, SubmitReceived, LedgerMoves, AskStatus, polling, requests
<1>10. ASSUME NEW n \in Networks, NEW k \in Retries, StatusRetried(n, k)
       PROVE  answers[status] > 0
  BY <1>10 DEF StatusRetried
<1>5. ASSUME NEW n \in Networks, NEW k \in Retries, StatusAnswered(n, k)
      PROVE  answers[status] > 0 \/ OnSomeLedger(status)
  <2>1. PICK answer \in NodeAnswers(n, k) : answers' = [answers EXCEPT ![answer] = @ + 1]
    BY <1>5 DEF StatusAnswered
  <2>2. CASE answer = status
    <3>1. status \notin StatusErrors
      BY FlowAssumption DEF Decided
    <3>2. ledger[n] = status
      BY <2>2, <3>1 DEF NodeAnswers
    <3>. QED
      BY <3>2 DEF OnSomeLedger
  <2>3. CASE answer # status
    BY <1>0, <2>1, <2>3
  <2>. QED
    BY <2>2, <2>3
<1>6. CancelRequests => FALSE
  BY <1>0 DEF CancelRequests
<1>7. ASSUME NEW other \in Statuses, StatusRepeated(other) \/ StatusChanged(other)
      PROVE  answers[status] > 0
  <2>1. Arrives(other) /\ answers[other] > 0
    BY <1>6, <1>7 DEF StatusRepeated, StatusChanged, UnsubscribeOnce
  <2>. QED
    BY <1>0, <2>1 DEF Arrives
<1>8. ASSUME NEW code \in StatusErrors, StatusFailed(code)
      PROVE  FALSE
  BY <1>6, <1>8 DEF StatusFailed
<1>9. CASE UNCHANGED vars
  BY <1>9 DEF vars, polling, requests
<1>. QED
  BY <1>1, <1>2, <1>3, <1>4, <1>5, <1>7, <1>8, <1>9, <1>10, Steps DEF PollStep, StatusRequestMoves

LEMMA AnswersTrueStep ==
  ASSUME TypeOK, AnswersTrue, [Next]_vars
  PROVE  AnswersTrue'
<1>. SUFFICES ASSUME NEW status \in Decided, answers'[status] > 0
              PROVE  OnSomeLedger(status)'
  BY DEF AnswersTrue
<1>1. OnSomeLedger(status)
  BY AnswersFromLedger DEF AnswersTrue
<1>. QED
  BY <1>1, LedgerKeeps

LEMMA OutcomeStep ==
  ASSUME TypeOK, AnswersTrue, OutcomeAgreesWithLedger, [Next]_vars
  PROVE  OutcomeAgreesWithLedger'
<1>. DEFINE failure == ErrorEvent("UPDATE_OF_STATUS_OF_PENDING_TX")
<1>1. PICK new \in Seq(EventRecord) : events' = events \o new /\ Tells(new)
  BY StepAppends
<1>2. events \in Seq(EventRecord)
  BY DEF TypeOK
<1>3. /\ "CONFIRMED" \in Decided /\ "FAILED" \in Decided
      /\ OnSomeLedger("CONFIRMED") => OnSomeLedger("CONFIRMED")'
      /\ OnSomeLedger("FAILED") => OnSomeLedger("FAILED")'
  BY LedgerKeeps DEF Decided
<1>4. /\ IsOutcome(Event("COMPLETED")) /\ IsOutcome(failure) /\ ~IsOutcome(Update)
      /\ Event("COMPLETED") # failure
      /\ \A type \in StageTypes : /\ ErrorEvent(type) # failure
                                  /\ ErrorEvent(type) # Event("COMPLETED")
  BY DEF Event, ErrorEvent, Update, IsOutcome, StageTypes
<1>. HIDE DEF failure
<1>a. /\ \A a : \A i \in 1..Len(<<a>>) : <<a>>[i] = a
      /\ \A a, b : \A i \in 1..Len(<<a, b>>) : <<a, b>>[i] \in {a, b}
  OBVIOUS
<1>b. \/ \A i \in 1..Len(new) : ~IsOutcome(new[i])
      \/ \E type \in StageTypes : \A i \in 1..Len(new) : new[i] = ErrorEvent(type)
      \/ /\ OnSomeLedger("CONFIRMED")
         /\ \A i \in 1..Len(new) : new[i] \in {Update, Event("COMPLETED")}
      \/ /\ OnSomeLedger("FAILED")
         /\ \A i \in 1..Len(new) : new[i] \in {Update, failure}
  <2>1. CASE \E type \in StageTypes : new = <<ErrorEvent(type)>>
    BY <1>a, <2>1
  <2>2. CASE answers["CONFIRMED"] > 0 /\ new = <<Update, Event("COMPLETED")>>
    BY <1>3, <1>a, <2>2 DEF AnswersTrue
  <2>3. CASE answers["FAILED"] > 0 /\ new = <<Update, failure>>
    BY <1>3, <1>a, <2>3 DEF AnswersTrue
  <2>. QED
    BY <1>1, <2>1, <2>2, <2>3 DEF Tells, failure
<1>5. ASSUME NEW i \in 1..Len(new), new[i] = Event("COMPLETED")
      PROVE  OnSomeLedger("CONFIRMED")
  BY <1>4, <1>5, <1>b
<1>6. ASSUME NEW i \in 1..Len(new), new[i] = failure
      PROVE  OnSomeLedger("FAILED")
  BY <1>4, <1>6, <1>b
<1>7. completion' = "completed" => completion = "completed" \/ OnSomeLedger("CONFIRMED")
  BY <1>1, <1>3 DEF Tells, Settle, AnswersTrue
<1>8. Tracked(Event("COMPLETED"))' => OnSomeLedger("CONFIRMED")
  BY <1>1, <1>2, <1>5, TrackedAfter DEF OutcomeAgreesWithLedger
<1>9. Tracked(failure)' => OnSomeLedger("FAILED")
  BY <1>1, <1>2, <1>6, TrackedAfter DEF OutcomeAgreesWithLedger, failure
<1>. QED
  BY <1>3, <1>7, <1>8, <1>9 DEF OutcomeAgreesWithLedger, failure

\* A step that tracks SUBMITTED, or the error of that step, is remembered.
LEMMA SubmissionRemembered ==
  ASSUME TypeOK, [Next]_vars
  PROVE  /\ \A event : Tracked(event) => Tracked(event)'
         /\ Track(<<"SUBMITTED">>) => Tracked(Event("SUBMITTED"))'
         /\ TrackError("SUBMITTED") => Tracked(ErrorEvent("SUBMITTED"))'
<1>1. PICK new \in Seq(EventRecord) : events' = events \o new
  BY StepAppends
<1>2. events \in Seq(EventRecord)
  BY DEF TypeOK
<1>3. \A event : Tracked(event) => Tracked(event)'
  BY <1>1, <1>2, TrackedAfter
<1>4. Track(<<"SUBMITTED">>) => Tracked(Event("SUBMITTED"))'
  <2>1. EventsOf(<<"SUBMITTED">>) = <<Event("SUBMITTED")>>
    BY DEF EventsOf
  <2>2. /\ <<Event("SUBMITTED")>> \in Seq(EventRecord)
        /\ 1 \in 1..Len(<<Event("SUBMITTED")>>)
        /\ <<Event("SUBMITTED")>>[1] = Event("SUBMITTED")
    BY EventTyped DEF EventTypes
  <2>3. Track(<<"SUBMITTED">>) => events' = events \o <<Event("SUBMITTED")>>
    BY <2>1 DEF Track, EventsOf
  <2>. QED
    BY <1>2, <2>2, <2>3, TrackedAfter
<1>5. TrackError("SUBMITTED") => Tracked(ErrorEvent("SUBMITTED"))'
  <2>1. ErrorEvent("SUBMITTED") \in EventRecord
    BY EventTyped DEF EventTypes
  <2>2. /\ <<ErrorEvent("SUBMITTED")>> \in Seq(EventRecord)
        /\ 1 \in 1..Len(<<ErrorEvent("SUBMITTED")>>)
        /\ <<ErrorEvent("SUBMITTED")>>[1] = ErrorEvent("SUBMITTED")
    BY <2>1
  <2>3. TrackError("SUBMITTED") => events' = events \o <<ErrorEvent("SUBMITTED")>>
    BY <1>2, <2>1, AppendIsConcat DEF TrackError
  <2>. QED
    BY <1>2, <2>2, <2>3, TrackedAfter
<1>. QED
  BY <1>3, <1>4, <1>5

\* Only what is finalized is sent, to networks connected to; an answered
\* submission is told as SUBMITTED; and submissions end with an error, or with
\* the ledger's decision.
SentInv ==
  /\ \A n \in Networks : ledger[n] # "unknown" => finalized # {} /\ n \in 1..networks
  /\ submitted # {} \/ pending => Tracked(Event("SUBMITTED"))
  /\ "submit" \notin alive =>
       \/ Tracked(ErrorEvent("SUBMITTED"))
       \/ pending /\ lastStatus \in Decided

LEMMA SentSeen ==
  ASSUME SentInv
  PROVE  NothingSentUnseen
<1>. SUFFICES ASSUME NEW n \in Networks, ledger[n] # "unknown", ~Tracked(ErrorEvent("SUBMITTED"))
              PROVE  \/ \E call \in SubmitCalls : call[3] = n
                     \/ /\ Tracked(Event("SUBMITTED"))
                        /\ lastStatus \in Decided \/ \E call \in submitted : call[3] = n
  BY DEF NothingSentUnseen
<1>1. CASE "submit" \notin alive
  BY <1>1 DEF SentInv
<1>2. CASE "submit" \in alive
  <2>1. PICK call \in finalized : n \in 1..networks
    BY DEF SentInv
  <2>. DEFINE sent == <<call[1], call[2], n>>
  <2>2. sent \in SubmitCalls \/ sent \in submitted
    BY <1>2, <2>1 DEF SubmitCalls
  <2>3. sent[3] = n
    OBVIOUS
  <2>. HIDE DEF sent
  <2>. QED
    BY <2>2, <2>3 DEF SentInv
<1>. QED
  BY <1>1, <1>2

-----------------------------------------------------------------------------
(* Who signs, and what is left subscribed.                                 *)

\* Signing follows the building, for an account not older than the one the
\* transaction was built for.
SignerInv ==
  /\ ActiveAccountObserved => accountShared
  /\ BuiltForAccount
  /\ signCalls # <<>> => build.state = "answered"
  /\ SignerNotStale

LEMMA ConfirmKeepsSigner ==
  ASSUME SessionTypeOK, SigningTypeOK, accounts' = accounts, BuiltForAccount,
         build.state = "asked" \/ build.state = "answered",
         build'.state = "answered", build'.account = build.account,
         ActiveAccountObserved => accountShared, SignerNotStale, StartSigning, CallsConfirm
  PROVE  SignerInv'
<1>1. build.account \in 1..accounts /\ accounts > 0 /\ accounts \in Nat
  BY FlowAssumption DEF BuiltForAccount, SessionTypeOK
<1>2. /\ signCalls' \in Seq(SignCall)
      /\ Len(signCalls') = Len(signCalls) + 1
      /\ \A j \in 1..Len(signCalls) : signCalls'[j] = signCalls[j]
      /\ signCalls'[Len(signCalls) + 1] = [account |-> SigningAccount, state |-> "asked"]
  BY <1>1, ConfirmTyped
<1>3. /\ DOMAIN signCalls' = 1..Len(signCalls') /\ Len(signCalls) \in Nat
      /\ DOMAIN signCalls = 1..Len(signCalls)
  BY <1>2, LenProperties DEF SigningTypeOK
<1>4. ASSUME ActiveAccountObserved, NEW j \in DOMAIN signCalls'
      PROVE  signCalls'[j].account >= build.account
  <2>1. CASE j \in 1..Len(signCalls)
    BY <1>2, <1>3, <1>4, <2>1 DEF SignerNotStale
  <2>2. CASE j = Len(signCalls) + 1
    BY <1>1, <1>2, <1>4, <2>2 DEF SigningAccount
  <2>. QED
    BY <1>2, <1>3, <1>4, <2>1, <2>2
<1>5. accountShared'
  BY DEF StartSigning
<1>. QED
  BY <1>1, <1>4, <1>5 DEF SignerInv, SignerNotStale, BuiltForAccount

LEMMA SignerStep ==
  ASSUME TypeOK, SignerInv, [Next]_vars
  PROVE  SignerInv'
<1>0. /\ SessionTypeOK /\ SigningTypeOK
      /\ DOMAIN signCalls = 1..Len(signCalls) /\ signCalls \in Seq(SignCall)
      /\ accounts \in Nat
  BY TypeParts, LenProperties, FlowAssumption DEF SessionTypeOK, SigningTypeOK
<1>1. CASE AccountBecomesActive
  BY <1>0, <1>1 DEF AccountBecomesActive, SignerInv, BuiltForAccount, SignerNotStale, signing
<1>2. CASE ObserveActiveAccount
  BY <1>2 DEF ObserveActiveAccount, SignerInv, BuiltForAccount, SignerNotStale, signing
<1>3. CASE ConnectToNetwork
  BY <1>3 DEF ConnectToNetwork, SignerInv, BuiltForAccount, SignerNotStale, signing
<1>4. CASE IntentReady
  <2>1. signCalls = <<>> /\ signCalls' = <<>> /\ accounts > 0
    BY <1>4 DEF IntentReady, SignerInv
  <2>. QED
    BY <1>0, <1>4, <2>1 DEF IntentReady, SignerInv, BuiltForAccount, SignerNotStale, session
<1>5. CASE BuildFailed
  <2>1. signCalls = <<>> /\ signCalls' = <<>>
    BY <1>5 DEF BuildFailed, SignerInv
  <2>. QED
    BY <1>0, <1>5, <2>1 DEF BuildFailed, SignerInv, BuiltForAccount, SignerNotStale, session,
                            SigningTypeOK
<1>6. ASSUME NEW confirmsAtOnce \in BOOLEAN, TransactionBuilt(confirmsAtOnce)
      PROVE  SignerInv'
  <2>1. build.state = "asked" /\ build'.state = "answered" /\ build'.account = build.account
    BY <1>0, <1>6 DEF TransactionBuilt, SigningTypeOK
  <2>2. CASE StartSigning /\ CallsConfirm
    BY <1>0, <1>6, <2>1, <2>2, ConfirmKeepsSigner DEF TransactionBuilt, SignerInv
  <2>3. CASE UNCHANGED <<accountShared, signCalls>>
    BY <1>6, <2>1, <2>3 DEF TransactionBuilt, SignerInv, BuiltForAccount, SignerNotStale
  <2>. QED
    BY <1>6, <2>2, <2>3 DEF TransactionBuilt
<1>7. CASE Confirm
  <2>1. CASE StartSigning /\ CallsConfirm
    BY <1>0, <1>7, <2>1, ConfirmKeepsSigner DEF Confirm, SignerInv
  <2>2. CASE UNCHANGED <<accountShared, signCalls>>
    BY <1>7, <2>2 DEF Confirm, SignerInv, BuiltForAccount, SignerNotStale
  <2>. QED
    BY <1>7, <2>1, <2>2 DEF Confirm
<1>8. ASSUME NEW j \in DOMAIN signCalls, Signed(j)
      PROVE  SignerInv'
  <2>1. /\ signCalls' = [signCalls EXCEPT ![j].state = "signed"]
        /\ UNCHANGED <<accountShared, accounts, build>>
    BY <1>8 DEF Signed, session
  <2>2. signCalls # <<>> /\ build.state = "answered"
    BY <1>0 DEF SignerInv
  <2>3. /\ DOMAIN signCalls' = DOMAIN signCalls
        /\ \A i \in DOMAIN signCalls : signCalls'[i].account = signCalls[i].account
    <3>1. \A i \in DOMAIN signCalls : signCalls[i] \in SignCall
      BY <1>0, ElementOfSeq
    <3>. QED
      BY <2>1, <3>1 DEF SignCall
  <2>. QED
    BY <2>1, <2>2, <2>3 DEF SignerInv, SignerNotStale, BuiltForAccount
<1>9. CASE UNCHANGED <<session, signing>>
  BY <1>9 DEF session, signing, SignerInv, SignerNotStale, BuiltForAccount
<1>10. ASSUME NEW j \in DOMAIN signCalls, SignFailed(j)
       PROVE  UNCHANGED <<session, signing>>
  BY <1>10 DEF SignFailed
<1>11. UNCHANGED vars => UNCHANGED <<session, signing>>
  BY DEF vars
<1>. QED
  BY <1>1, <1>2, <1>3, <1>4, <1>5, <1>6, <1>7, <1>8, <1>9, <1>10, <1>11, Steps
  DEF UserStep, SignStep, SendStep, PollStep

Built == build.state = "answered"

LEMMA BuiltStays ==
  ASSUME Built, [Next]_vars, TypeOK
  PROVE  Built'
<1>0. build \in [state : {"waiting", "asked", "answered", "failed"}, account : 0..MaxAccounts]
  BY DEF TypeOK
<1>1. CASE UserStep
  BY <1>0, <1>1 DEF UserStep, Built, AccountBecomesActive, ObserveActiveAccount, ConnectToNetwork,
                    IntentReady, Confirm, BuildFailed, TransactionBuilt, signing
<1>2. CASE SignStep
  BY <1>2 DEF SignStep, Built, Signed, SignFailed, signing
<1>3. CASE SendStep \/ PollStep
  BY <1>3 DEF SendStep, PollStep, signing, Built
<1>4. CASE UNCHANGED vars
  BY <1>4 DEF vars, signing, Built
<1>. QED
  BY <1>1, <1>2, <1>3, <1>4, Steps

NoRequests ==
  /\ \A r \in Networks \X Retries : asked[r] = 0
  /\ \A answer \in Statuses \cup StatusErrors : answers[answer] = 0

\* Requests follow a submitted transaction, and end with the polling; once a
\* decision has arrived no call to finalize, submit or poll is subscribed.
PollingInv ==
  /\ finalized # {} => Built
  /\ pending => Built
  /\ ~pending \/ "status" \notin alive => NoRequests
  /\ lastStatus \in Decided => Built /\ alive \cap {"finalize", "submit", "status"} = {}

\* A request is made while polling for a pending transaction only.
LEMMA RequestsStep ==
  ASSUME TypeOK, PollingInv, [Next]_vars
  PROVE  (~pending \/ "status" \notin alive => NoRequests)'
<1>0. /\ answers \in [Statuses \cup StatusErrors -> 0..MaxRequests]
      /\ asked \in [Networks \X Retries -> 0..MaxRequests]
  BY DEF TypeOK
<1>1. CancelRequests => NoRequests'
  BY DEF CancelRequests, NoRequests
<1>2. ASSUME UNCHANGED requests, ~pending' \/ "status" \notin alive' => ~pending \/ "status" \notin alive
      PROVE  (~pending \/ "status" \notin alive => NoRequests)'
  BY <1>2 DEF PollingInv, NoRequests, requests
<1>3. CASE ConnectToNetwork
  BY <1>2, <1>3 DEF ConnectToNetwork, requests
<1>4. CASE UserStep
  BY <1>2, <1>3, <1>4 DEF UserStep, AccountBecomesActive, ObserveActiveAccount, IntentReady,
                          Confirm, BuildFailed, TransactionBuilt, polling
<1>5. CASE SignStep
  BY <1>2, <1>5 DEF SignStep, Signed, SignFailed, polling
<1>6. CASE FinalizeFailed \/ \E call \in FinalizeCalls : Finalized(call)
  BY <1>2, <1>6 DEF FinalizeFailed, Finalized, polling
<1>7. ASSUME NEW call \in SubmitCalls, Submitted(call) \/ SubmitFailed(call)
      PROVE  (~pending \/ "status" \notin alive => NoRequests)'
  BY <1>2, <1>7 DEF Submitted, SubmitFailed, polling
<1>8. CASE PollTick
  BY <1>2, <1>8 DEF PollTick
<1>9. ASSUME NEW n \in Networks, SubmitReceived(n) \/ LedgerMoves(n)
      PROVE  (~pending \/ "status" \notin alive => NoRequests)'
  BY <1>2, <1>9 DEF SubmitReceived, LedgerMoves, polling
<1>10. ASSUME NEW n \in Networks, NEW k \in Retries, StatusAnswered(n, k) \/ StatusRetried(n, k)
       PROVE  (~pending \/ "status" \notin alive => NoRequests)'
  <2>1. pending /\ "status" \in alive
    BY <1>10 DEF StatusAnswered, StatusRetried, PollingInv, NoRequests
  <2>. QED
    BY <1>10, <2>1 DEF StatusAnswered, StatusRetried
<1>11. ASSUME NEW status \in Statuses, StatusRepeated(status) \/ StatusChanged(status)
       PROVE  (~pending \/ "status" \notin alive => NoRequests)'
  <2>1. pending /\ "status" \in alive
    BY <1>11 DEF StatusRepeated, StatusChanged, PollingInv, NoRequests
  <2>2. pending'
    BY <1>11, <2>1 DEF StatusRepeated, StatusChanged
  <2>3. alive' = alive \/ CancelRequests
    BY <1>11 DEF StatusRepeated, StatusChanged, UnsubscribeOnce
  <2>. QED
    BY <1>1, <2>1, <2>2, <2>3
<1>12. ASSUME NEW code \in StatusErrors, StatusFailed(code)
       PROVE  (~pending \/ "status" \notin alive => NoRequests)'
  BY <1>1, <1>12 DEF StatusFailed
<1>13. CASE UNCHANGED vars
  BY <1>2, <1>13 DEF vars, polling
<1>. QED
  BY <1>4, <1>5, <1>6, <1>7, <1>8, <1>9, <1>10, <1>11, <1>12, <1>13, Steps
  DEF SendStep, PollStep, StatusRequestMoves

LEMMA PollingStep ==
  ASSUME TypeOK, SignerInv, PollingInv, [Next]_vars
  PROVE  PollingInv'
<1>1. Signatures # {} => Built
  BY DEF Signatures, SignerInv, Built
<1>2. finalized' # {} => Built'
  <2>1. ASSUME NEW call \in FinalizeCalls, Finalized(call)
        PROVE  Built
    BY <1>1, <2>1 DEF FinalizeCalls
  <2>2. CASE finalized' = finalized
    BY <2>2, BuiltStays DEF PollingInv
  <2>3. CASE UserStep
    BY <2>2, <2>3 DEF UserStep, AccountBecomesActive, ObserveActiveAccount, ConnectToNetwork,
                      IntentReady, Confirm, BuildFailed, TransactionBuilt, sending
  <2>4. CASE SignStep
    BY <2>2, <2>4 DEF SignStep, Signed, SignFailed, sending
  <2>5. CASE SendStep
    BY <2>1, <2>2, <2>5, BuiltStays DEF SendStep, FinalizeFailed, Submitted, SubmitFailed, sending
  <2>6. CASE PollStep \/ UNCHANGED vars
    BY <2>2, <2>6 DEF PollStep, vars, sending
  <2>. QED
    BY <2>3, <2>4, <2>5, <2>6, Steps
<1>3. pending' => Built'
  <2>1. ASSUME NEW call \in SubmitCalls, Submitted(call)
        PROVE  Built
    BY <2>1 DEF SubmitCalls, PollingInv
  <2>2. CASE pending' = pending
    BY <2>2, BuiltStays DEF PollingInv
  <2>3. CASE UserStep
    BY <2>2, <2>3 DEF UserStep, AccountBecomesActive, ObserveActiveAccount, ConnectToNetwork,
                      IntentReady, Confirm, BuildFailed, TransactionBuilt, polling
  <2>4. CASE SignStep
    BY <2>2, <2>4 DEF SignStep, Signed, SignFailed, polling
  <2>5. CASE SendStep
    BY <2>1, <2>2, <2>5, BuiltStays DEF SendStep, FinalizeFailed, Finalized, SubmitFailed, polling
  <2>6. CASE PollStep \/ UNCHANGED vars
    BY <2>2, <2>6 DEF PollStep, PollTick, SubmitReceived, LedgerMoves, StatusRequestMoves, StatusAnswered, StatusRetried, StatusRepeated,
                      StatusChanged, StatusFailed, vars, polling
  <2>. QED
    BY <2>3, <2>4, <2>5, <2>6, Steps
<1>4. (lastStatus \in Decided => Built /\ alive \cap {"finalize", "submit", "status"} = {})'
  <2>1. ASSUME NEW status \in Statuses, StatusChanged(status), status \in Decided
        PROVE  Built /\ alive' \cap {"finalize", "submit", "status"} = {}
    <3>1. Built
      BY <2>1 DEF StatusChanged, PollingInv, NoRequests
    <3>2. alive' = alive \ {"finalize", "submit", "status"}
      BY <2>1 DEF StatusChanged, UnsubscribeOnce
    <3>. QED
      BY <3>1, <3>2
  <2>2. CASE lastStatus' = lastStatus /\ alive' \subseteq alive
    BY <2>2, BuiltStays DEF PollingInv
  <2>3. CASE UserStep
    BY <2>2, <2>3 DEF UserStep, AccountBecomesActive, ObserveActiveAccount, ConnectToNetwork,
                      IntentReady, Confirm, BuildFailed, TransactionBuilt, polling
  <2>4. CASE SignStep
    BY <2>2, <2>4 DEF SignStep, Signed, SignFailed, polling
  <2>5. CASE SendStep
    BY <2>2, <2>5 DEF SendStep, FinalizeFailed, Finalized, Submitted, SubmitFailed, polling
  <2>6. ASSUME NEW status \in Statuses, StatusChanged(status)
        PROVE  (lastStatus \in Decided => Built /\ alive \cap {"finalize", "submit", "status"} = {})'
    BY <2>1, <2>6, BuiltStays DEF StatusChanged
  <2>7. CASE PollStep
    BY <2>2, <2>6, <2>7 DEF PollStep, PollTick, SubmitReceived, LedgerMoves, StatusRequestMoves, StatusAnswered, StatusRetried, StatusRepeated,
                            StatusFailed, polling
  <2>8. CASE UNCHANGED vars
    BY <2>2, <2>8 DEF vars, polling
  <2>. QED
    BY <2>3, <2>4, <2>5, <2>7, <2>8, Steps
<1>. QED
  BY <1>2, <1>3, <1>4, RequestsStep DEF PollingInv

\* What a step leaves of the submissions: it may tell one, or end them, and
\* ends them for an error or a decision only.
SubmissionStep ==
  /\ finalized \subseteq finalized' /\ networks <= networks'
  /\ \/ submitted' = submitted /\ pending' = pending
     \/ Track(<<"SUBMITTED">>)
  /\ \/ "submit" \in alive <=> "submit" \in alive'
     \/ TrackError("SUBMITTED")
     \/ pending' /\ lastStatus' \in Decided
  /\ (pending => pending') /\ (lastStatus \in Decided => lastStatus' = lastStatus)

LEMMA SubmissionSteps ==
  ASSUME TypeOK, PollingInv, [Next]_vars
  PROVE  SubmissionStep
<1>0. networks \in Nat /\ networks <= networks + 1
  BY FlowAssumption DEF TypeOK
<1>1. CASE UserStep
  <2>1. UNCHANGED <<finalized, submitted, pending, lastStatus>> /\ networks <= networks'
    BY <1>0, <1>1 DEF UserStep, AccountBecomesActive, ObserveActiveAccount, ConnectToNetwork,
                      IntentReady, Confirm, BuildFailed, TransactionBuilt, sending, polling, session
  <2>2. "submit" \in alive <=> "submit" \in alive'
    BY <1>1 DEF UserStep, AccountBecomesActive, ObserveActiveAccount, ConnectToNetwork,
                IntentReady, Confirm, BuildFailed, TransactionBuilt
  <2>. QED
    BY <2>1, <2>2 DEF SubmissionStep
<1>2. CASE SignStep
  <2>1. UNCHANGED <<networks, finalized, submitted, pending, lastStatus>>
    BY <1>2 DEF SignStep, Signed, SignFailed, sending, polling, session
  <2>2. "submit" \in alive <=> "submit" \in alive'
    BY <1>2 DEF SignStep, Signed, SignFailed
  <2>. QED
    BY <1>0, <2>1, <2>2 DEF SubmissionStep
<1>3. ASSUME NEW call \in FinalizeCalls, Finalized(call)
      PROVE  SubmissionStep
  BY <1>0, <1>3 DEF Finalized, polling, session, SubmissionStep
<1>4. CASE FinalizeFailed
  BY <1>0, <1>4 DEF FinalizeFailed, sending, polling, session, SubmissionStep
<1>5. ASSUME NEW call \in SubmitCalls, Submitted(call)
      PROVE  SubmissionStep
  BY <1>0, <1>5 DEF Submitted, session, SubmissionStep
<1>6. ASSUME NEW call \in SubmitCalls, SubmitFailed(call)
      PROVE  SubmissionStep
  BY <1>0, <1>6 DEF SubmitFailed, sending, polling, session, SubmissionStep
<1>7. ASSUME NEW status \in Statuses, StatusChanged(status)
      PROVE  SubmissionStep
  <2>1. answers[status] > 0 /\ UNCHANGED <<networks, finalized, submitted, pending>>
    BY <1>7 DEF StatusChanged, session, sending
  <2>2. ~NoRequests
    BY <2>1 DEF NoRequests
  <2>3. pending /\ "status" \in alive /\ lastStatus \notin Decided
    BY <2>2 DEF PollingInv
  <2>4. alive' = alive \/ lastStatus' \in Decided
    BY <1>7 DEF StatusChanged, UnsubscribeOnce
  <2>. QED
    BY <1>0, <2>1, <2>3, <2>4 DEF SubmissionStep
<1>8. ASSUME NEW n \in Networks, SubmitReceived(n) \/ LedgerMoves(n) \/ StatusRequestMoves(n)
      PROVE  SubmissionStep
  <2>1. UNCHANGED <<networks, finalized, submitted, alive, pending, lastStatus>>
    BY <1>8 DEF SubmitReceived, LedgerMoves, StatusRequestMoves, StatusAnswered, StatusRetried,
                sending, polling, session
  <2>. QED
    BY <1>0, <2>1 DEF SubmissionStep
<1>9. CASE PollTick
  BY <1>0, <1>9 DEF PollTick, sending, session, SubmissionStep
<1>10. ASSUME NEW status \in Statuses, StatusRepeated(status)
       PROVE  SubmissionStep
  BY <1>0, <1>10 DEF StatusRepeated, sending, session, SubmissionStep
<1>11. ASSUME NEW code \in StatusErrors, StatusFailed(code)
       PROVE  SubmissionStep
  BY <1>0, <1>11 DEF StatusFailed, sending, session, SubmissionStep
<1>12. CASE UNCHANGED vars
  BY <1>0, <1>12 DEF vars, sending, polling, session, SubmissionStep
<1>. QED
  BY <1>1, <1>2, <1>3, <1>4, <1>5, <1>6, <1>7, <1>8, <1>9, <1>10, <1>11, <1>12, Steps
  DEF SendStep, PollStep

LEMMA SentStep ==
  ASSUME TypeOK, PollingInv, SentInv, [Next]_vars
  PROVE  SentInv'
<1>0. SubmissionStep
  BY SubmissionSteps
<1>1. ASSUME NEW n \in Networks, ledger'[n] # "unknown"
      PROVE  finalized' # {} /\ n \in 1..networks'
  <2>1. networks \in Nat /\ networks' \in Nat
    BY TypeParts, SessionTyped, FlowAssumption DEF SessionTypeOK
  <2>2. CASE ledger[n] = "unknown"
    BY <1>1, <2>2, LedgerForward DEF LedgerStep
  <2>3. CASE ledger[n] # "unknown"
    <3>1. finalized # {} /\ n \in 1..networks
      BY <2>3 DEF SentInv
    <3>. QED
      BY <1>0, <2>1, <3>1 DEF SubmissionStep
  <2>. QED
    BY <2>2, <2>3
<1>2. ASSUME submitted' # {} \/ pending'
      PROVE  Tracked(Event("SUBMITTED"))'
  BY <1>0, <1>2, SubmissionRemembered DEF SubmissionStep, SentInv
<1>3. ASSUME "submit" \notin alive'
      PROVE  \/ Tracked(ErrorEvent("SUBMITTED"))'
             \/ pending' /\ lastStatus' \in Decided
  <2>1. CASE "submit" \in alive <=> "submit" \in alive'
    <3>1. Tracked(ErrorEvent("SUBMITTED")) \/ (pending /\ lastStatus \in Decided)
      BY <1>3, <2>1 DEF SentInv
    <3>. QED
      BY <1>0, <3>1, SubmissionRemembered DEF SubmissionStep
  <2>. QED
    BY <1>0, <2>1, SubmissionRemembered DEF SubmissionStep
<1>. QED
  BY <1>1, <1>2, <1>3 DEF SentInv

Quiet == submitted' = submitted /\ (events' = events \/ ConfirmedTracked)

LEMMA QuietStep ==
  ASSUME TypeOK, PollingInv, lastStatus \in Decided, [Next]_vars
  PROVE  Quiet
<1>1. Built /\ "finalize" \notin alive /\ "submit" \notin alive /\ "status" \notin alive
  BY DEF PollingInv
<1>2. NoRequests /\ FinalizeCalls = {} /\ SubmitCalls = {}
  BY <1>1 DEF PollingInv, FinalizeCalls, SubmitCalls
<1>3. CASE UserStep
  BY <1>1, <1>3 DEF UserStep, AccountBecomesActive, ObserveActiveAccount, ConnectToNetwork,
                    IntentReady, Confirm, BuildFailed, TransactionBuilt, sending, tracking,
                    Quiet, ConfirmedTracked, Built
<1>4. CASE SignStep
  BY <1>1, <1>4 DEF SignStep, Signed, SignFailed, sending, tracking, Quiet
<1>5. CASE SendStep
  BY <1>2, <1>5 DEF SendStep, FinalizeFailed
<1>6. ASSUME NEW status \in Statuses, StatusRepeated(status) \/ StatusChanged(status)
      PROVE  FALSE
  BY <1>2, <1>6 DEF NoRequests, StatusRepeated, StatusChanged
<1>7. CASE PollStep
  BY <1>6, <1>7 DEF PollStep, PollTick, SubmitReceived, LedgerMoves, StatusRequestMoves, StatusAnswered, StatusRetried, StatusFailed, sending,
                    tracking, Quiet
<1>8. CASE UNCHANGED vars
  BY <1>8 DEF vars, sending, tracking, Quiet
<1>. QED
  BY <1>3, <1>4, <1>5, <1>7, <1>8, Steps

-----------------------------------------------------------------------------
(* The invariant of the flow, and what follows from it.                    *)

FlowInv ==
  /\ TypeOK
  /\ AnswersTrue
  /\ OutcomeAgreesWithLedger
  /\ CompletionIsFirstOutcome
  /\ SentInv
  /\ SignerInv
  /\ PollingInv

LEMMA InitFlowInv == Init => FlowInv
<1>. SUFFICES ASSUME Init PROVE FlowInv
  OBVIOUS
<1>1. /\ events = <<>> /\ signCalls = <<>> /\ finalized = {} /\ pending = FALSE
      /\ completion = "open" /\ confirms = 0 /\ lastStatus = "none"
      /\ accountShared = ActiveAccountObserved
      /\ build = [state |-> "waiting", account |-> 0]
      /\ asked = [r \in Networks \X Retries |-> 0]
      /\ answers = [answer \in Statuses \cup StatusErrors |-> 0]
      /\ ledger = [n \in Networks |-> "unknown"]
  BY DEF Init
<1>2. /\ events \in Seq(EventRecord) /\ DOMAIN events = {}
      /\ signCalls \in Seq(SignCall) /\ DOMAIN signCalls = {} /\ Len(signCalls) = 0
  BY <1>1, EmptySeq
<1>3. SessionTypeOK
  BY FlowAssumption DEF Init, SessionTypeOK
<1>4. SigningTypeOK
  BY <1>1, <1>2, FlowAssumption DEF SigningTypeOK
<1>5. SendingTypeOK
  BY DEF Init, SendingTypeOK
<1>6. PollingTypeOK
  <2>1. 0 \in 0..MaxRequests
    BY FlowAssumption
  <2>2. pending \in BOOLEAN /\ ticked \in BOOLEAN /\ lastStatus \in Statuses \cup {"none"}
    BY DEF Init
  <2>3. /\ asked \in [Networks \X Retries -> 0..MaxRequests]
        /\ answers \in [Statuses \cup StatusErrors -> 0..MaxRequests]
    BY <1>1, <2>1
  <2>. QED
    BY <1>1, <2>2, <2>3 DEF PollingTypeOK
<1>7. TypeOK
  BY <1>1, <1>2, <1>3, <1>4, <1>5, <1>6, TypeParts DEF TrackingTypeOK
<1>8. OutcomeAgreesWithLedger /\ CompletionIsFirstOutcome
  BY <1>1, <1>2 DEF OutcomeAgreesWithLedger, CompletionIsFirstOutcome, Tracked
<1>9. AnswersTrue /\ SentInv
  BY <1>1 DEF Init, AnswersTrue, SentInv, Statuses, Stages
<1>10. SignerInv /\ PollingInv
  BY <1>1, <1>2 DEF SignerInv, SignerNotStale, BuiltForAccount, PollingInv, NoRequests, Decided
<1>. QED
  BY <1>7, <1>8, <1>9, <1>10 DEF FlowInv

LEMMA NextFlowInv == FlowInv /\ [Next]_vars => FlowInv'
<1>. SUFFICES ASSUME FlowInv, [Next]_vars PROVE FlowInv'
  OBVIOUS
<1>1. /\ TypeOK /\ SignerInv /\ PollingInv /\ BuiltForAccount
      /\ SessionTypeOK /\ SigningTypeOK /\ SendingTypeOK /\ PollingTypeOK
  BY TypeParts DEF FlowInv, SignerInv
<1>2. SessionTypeOK' /\ SigningTypeOK' /\ SendingTypeOK' /\ PollingTypeOK' /\ TrackingTypeOK'
  BY <1>1, SessionTyped, SigningTyped, SendingTyped, PollingTyped, TrackingTyped
<1>3. TypeOK'
  BY <1>2 DEF TypeOK, SessionTypeOK, SigningTypeOK, SendingTypeOK, PollingTypeOK, TrackingTypeOK
<1>4. AnswersTrue' /\ OutcomeAgreesWithLedger'
  BY <1>1, AnswersTrueStep, OutcomeStep DEF FlowInv
<1>5. CompletionIsFirstOutcome' /\ SentInv'
  BY <1>1, FirstOutcomeStep, SentStep DEF FlowInv
<1>6. SignerInv' /\ PollingInv'
  BY <1>1, SignerStep, PollingStep
<1>. QED
  BY <1>3, <1>4, <1>5, <1>6 DEF FlowInv

\* What is told, what the ledgers hold and what is under way keep the inductive
\* invariant, on any number of networks.
THEOREM FlowInvariant == Spec => []FlowInv
  BY InitFlowInv, NextFlowInv, PTL DEF Spec

\* Every variable of a transaction flow keeps its type, whatever the number of
\* networks it is sent to and of requests it makes.
THEOREM FlowTypeCorrect == Spec => []TypeOK
<1>1. FlowInv => TypeOK
  BY DEF FlowInv
<1>. QED
  BY <1>1, FlowInvariant, PTL

\* A completed transaction is confirmed by a node, and one reported as failed
\* is failed by a node, on any number of networks and for any order in which
\* answers arrive.
THEOREM OutcomesAreTrue == Spec => []OutcomeAgreesWithLedger
<1>1. FlowInv => OutcomeAgreesWithLedger
  BY DEF FlowInv
<1>. QED
  BY <1>1, FlowInvariant, PTL

\* `completion` settles with the first outcome among the events and keeps it.
THEOREM FirstOutcomeSettles == Spec => []CompletionIsFirstOutcome
<1>1. FlowInv => CompletionIsFirstOutcome
  BY DEF FlowInv
<1>. QED
  BY <1>1, FlowInvariant, PTL

\* A node that has been sent the transaction, on any number of networks, owes
\* an answer that is still awaited, or the caller has seen SUBMITTED or an error
\* of that step: also while the answer is on its way, after it was lost, and
\* when the node takes the transaction later than that.
THEOREM SentIsSeen == Spec => []NothingSentUnseen
<1>1. FlowInv => NothingSentUnseen
  BY SentSeen DEF FlowInv
<1>. QED
  BY <1>1, FlowInvariant, PTL

\* Where the active account has been observed before, no signature is asked of
\* an account older than the one the transaction was built for.
THEOREM SignerIsNotStale == Spec => []SignerNotStale
<1>1. FlowInv => SignerNotStale
  BY DEF FlowInv, SignerInv
<1>. QED
  BY <1>1, FlowInvariant, PTL

\* After the decision of the ledger nothing is submitted and nothing but a
\* further confirmation is tracked, on any number of networks.
THEOREM DecisionEndsFlow == Spec => QuietOnceDecided
<1>1. FlowInv /\ [Next]_vars =>
        [(lastStatus \in Decided) =>
           submitted' = submitted /\ (events' = events \/ ConfirmedTracked)]_vars
  BY QuietStep DEF FlowInv, Quiet
<1>. QED
  BY <1>1, FlowInvariant, PTL DEF Spec, QuietOnceDecided

-----------------------------------------------------------------------------
(* One network and one confirmation: no request outlives the outcome, and  *)
(* the flow implements TransactionTracking.                                *)

OnePath == MaxNetworks = 1 /\ MaxConfirms = 1

\* The stages follow each other.
ChainInv ==
  /\ build.state \in {"asked", "answered"} => build.account > 0
  /\ build.state = "waiting" => build.account = 0
  /\ signCalls = <<>> <=> confirms = 0
  /\ finalized # {} => Signatures # {}
  /\ submitted # {} => finalized # {}
  /\ pending <=> submitted # {}
  /\ lastStatus # "none" => pending

\* Where a flow with an outcome has stopped: what would have come next is no
\* longer subscribed.
Stopped ==
  \/ build.state = "failed"
  \/ signCalls # <<>> /\ Signatures = {} /\ "sign" \notin alive
  \/ Signatures # {} /\ finalized = {} /\ "finalize" \notin alive
  \/ finalized # {} /\ submitted = {} /\ alive \cap {"finalize", "submit"} = {}
  \/ pending /\ "status" \notin alive

\* The flow goes on until there is an outcome, and has stopped when there is.
OutcomeInv ==
  /\ completion = "open" => /\ build.state # "failed"
                            /\ {"sign", "finalize", "submit"} \subseteq alive
                            /\ lastStatus \notin Decided
  /\ completion # "open" => Stopped

\* A type is that of the last event that is no error.
EndsWith(told, type) ==
  IF type = "none" THEN \A i \in DOMAIN told : told[i].error
  ELSE \E i \in DOMAIN told :
         /\ ~told[i].error /\ told[i].type = type
         /\ \A j \in DOMAIN told : ~told[j].error => j <= i

\* The last event tells how far the flow has come.
ToldInv ==
  /\ build.account = 0 => EndsWith(events, "none")
  /\ build.account > 0 /\ build.state # "answered" => EndsWith(events, "INITIATED")
  /\ build.state = "answered" /\ signCalls = <<>> => EndsWith(events, "ASKED_FOR_CONFIRMATION")
  /\ signCalls # <<>> /\ Signatures = {} => EndsWith(events, "CONFIRMED")
  /\ Signatures # {} /\ finalized = {} => EndsWith(events, "SIGNED")
  /\ finalized # {} /\ submitted = {} => EndsWith(events, "FINALIZED")
  /\ pending /\ lastStatus = "none" => EndsWith(events, "SUBMITTED")
  /\ lastStatus \in {"PENDING", "FAILED"} => EndsWith(events, "UPDATE_OF_STATUS_OF_PENDING_TX")
  /\ lastStatus = "CONFIRMED" => EndsWith(events, "COMPLETED")

OnePathInv == ChainInv /\ OutcomeInv /\ ToldInv

LEMMA EndsWithIsLast ==
  ASSUME NEW told \in Seq(EventRecord), NEW type, EndsWith(told, type)
  PROVE  LastOf(told) = type
<1>. DEFINE Successes == {i \in DOMAIN told : ~told[i].error}
<1>0. DOMAIN told = 1..Len(told) /\ Len(told) \in Nat
  BY LenProperties
<1>1. LastOf(told) = IF Successes = {} THEN "none" ELSE told[Max(Successes)].type
  BY DEF LastOf
<1>2. CASE type = "none"
  <2>1. Successes = {}
    BY <1>2 DEF EndsWith
  <2>. QED
    BY <1>1, <1>2, <2>1
<1>3. CASE type # "none"
  <2>1. PICK i \in DOMAIN told :
          /\ ~told[i].error /\ told[i].type = type
          /\ \A j \in DOMAIN told : ~told[j].error => j <= i
    BY <1>3 DEF EndsWith
  <2>2. i \in Successes /\ \A j \in Successes : i >= j
    BY <1>0, <2>1
  <2>3. \A m \in Successes : (\A j \in Successes : m >= j) => m = i
    BY <1>0, <2>2
  <2>4. Max(Successes) = i
    BY <2>2, <2>3 DEF Max
  <2>5. Successes # {}
    BY <2>2
  <2>. QED
    BY <1>1, <2>1, <2>4, <2>5
<1>. QED
  BY <1>2, <1>3

\* An error does not change how far the flow has come.
LEMMA ErrorKeepsEnd ==
  ASSUME NEW told \in Seq(EventRecord), NEW event \in EventRecord, event.error,
         NEW type, EndsWith(told, type)
  PROVE  EndsWith(Append(told, event), type)
<1>0. /\ DOMAIN told = 1..Len(told) /\ Len(told) \in Nat
      /\ Append(told, event) \in Seq(EventRecord)
      /\ DOMAIN Append(told, event) = 1..Len(told) + 1
      /\ \A i \in 1..Len(told) : Append(told, event)[i] = told[i]
      /\ Append(told, event)[Len(told) + 1] = event
  BY AppendProperties, LenProperties
<1>1. \A i \in 1..Len(told) + 1 : i = Len(told) + 1 \/ i \in 1..Len(told)
  BY <1>0
<1>. DEFINE after == Append(told, event)
<1>2. /\ DOMAIN after = 1..Len(told) + 1
      /\ \A i \in 1..Len(told) : after[i] = told[i]
      /\ after[Len(told) + 1].error
  BY <1>0
<1>. HIDE DEF after
<1>3. CASE type = "none"
  <2>1. \A i \in 1..Len(told) : told[i].error
    BY <1>0, <1>3 DEF EndsWith
  <2>2. \A i \in DOMAIN after : after[i].error
    BY <1>1, <1>2, <2>1
  <2>. QED
    BY <1>3, <2>2 DEF EndsWith, after
<1>4. CASE type # "none"
  <2>1. PICK i \in 1..Len(told) :
          /\ ~told[i].error /\ told[i].type = type
          /\ \A j \in 1..Len(told) : ~told[j].error => j <= i
    BY <1>0, <1>4 DEF EndsWith
  <2>2. i \in DOMAIN after /\ ~after[i].error /\ after[i].type = type
    BY <1>0, <1>2, <2>1
  <2>3. \A j \in DOMAIN after : ~after[j].error => j <= i
    BY <1>1, <1>2, <2>1
  <2>. QED
    BY <1>4, <2>2, <2>3 DEF EndsWith, after
<1>. QED
  BY <1>3, <1>4

\* Events that end in one that is no error.
LEMMA NewsEnds ==
  ASSUME NEW told \in Seq(EventRecord), NEW news \in Seq(EventRecord), Len(news) > 0,
         ~news[Len(news)].error
  PROVE  EndsWith(told \o news, news[Len(news)].type)
<1>. DEFINE after == told \o news
            n == Len(told) + Len(news)
<1>0. /\ Len(told) \in Nat /\ Len(news) \in Nat
      /\ DOMAIN after = 1..n
      /\ \A i \in 1..Len(news) : after[Len(told) + i] = news[i]
  BY Positions, LenProperties
<1>1. after[n] = news[Len(news)] /\ n \in 1..n
  BY <1>0
<1>2. \A j \in DOMAIN after : j <= n
  BY <1>0
<1>3. news[Len(news)].type # "none"
  <2>1. news[Len(news)] \in EventRecord
    BY <1>0, ElementOfSeq
  <2>. QED
    BY <2>1 DEF EventRecord, EventTypes
<1>. HIDE DEF after, n
<1>4. EndsWith(after, news[Len(news)].type)
  BY <1>0, <1>1, <1>2, <1>3 DEF EndsWith
<1>. QED
  BY <1>4 DEF after

LEMMA TrackEnds ==
  ASSUME NEW told \in Seq(EventRecord), NEW types \in Seq(EventTypes), Len(types) > 0
  PROVE  EndsWith(told \o EventsOf(types), types[Len(types)])
<1>1. /\ EventsOf(types) \in Seq(EventRecord)
      /\ Len(EventsOf(types)) = Len(types)
      /\ EventsOf(types)[Len(types)] = Event(types[Len(types)])
  BY EventsOfTyped, LenProperties
<1>2. ~Event(types[Len(types)]).error /\ Event(types[Len(types)]).type = types[Len(types)]
  BY DEF Event
<1>. QED
  BY <1>1, <1>2, NewsEnds

\* One signature, one call to finalize and one to submit: each is under way
\* only when it has not been answered.
LEMMA OneCall ==
  ASSUME OnePath, TypeOK, ChainInv
  PROVE  /\ DOMAIN signCalls \subseteq {1}
         /\ FinalizeCalls # {} => Signatures # {} /\ finalized = {} /\ "finalize" \in alive
         /\ SubmitCalls # {} => finalized # {} /\ submitted = {} /\ "submit" \in alive
<1>0. /\ Networks = {1} /\ 1..MaxConfirms = {1}
      /\ finalized \subseteq {1} \X {1} /\ submitted \subseteq {1} \X {1} \X {1}
      /\ networks \in 0..1 /\ 1..networks \subseteq {1}
  BY DEF OnePath, Networks, TypeOK
<1>1. DOMAIN signCalls \subseteq {1}
  <2>1. DOMAIN signCalls = 1..Len(signCalls) /\ Len(signCalls) \in Nat
    BY LenProperties DEF TypeOK
  <2>2. Len(signCalls) <= 1 /\ confirms \in 0..1
    BY <2>1 DEF TypeOK, OnePath
  <2>. QED
    BY <2>1, <2>2
<1>2. Signatures \subseteq {1}
  BY <1>1 DEF Signatures
<1>3. ASSUME NEW call \in FinalizeCalls
      PROVE  Signatures # {} /\ finalized = {} /\ "finalize" \in alive
  <2>0. "finalize" \in alive /\ call \in (Signatures \X (1..networks)) \ finalized
    BY <1>3 DEF FinalizeCalls
  <2>1. PICK j \in Signatures, n \in 1..networks : call = <<j, n>>
    BY <2>0
  <2>2. j = 1 /\ n = 1
    BY <1>0, <1>2
  <2>3. call = <<1, 1>> /\ call \notin finalized
    BY <2>0, <2>1, <2>2
  <2>4. finalized = {}
    BY <1>0, <2>3
  <2>. QED
    BY <2>0, <2>1, <2>4
<1>4. ASSUME NEW call \in SubmitCalls
      PROVE  finalized # {} /\ submitted = {} /\ "submit" \in alive
  <2>1. "submit" \in alive /\ call \notin submitted
    BY <1>4 DEF SubmitCalls
  <2>2. PICK made \in finalized, n \in 1..networks : call = <<made[1], made[2], n>>
    BY <1>4 DEF SubmitCalls
  <2>3. made = <<1, 1>> /\ n = 1
    BY <1>0, <2>2
  <2>4. call = <<1, 1, 1>>
    BY <2>2, <2>3
  <2>5. submitted = {}
    BY <1>0, <2>1, <2>4
  <2>. QED
    BY <2>1, <2>2, <2>5
<1>. QED
  BY <1>1, <1>3, <1>4

\* What is still to come has not been stopped.
LEMMA GoesOn ==
  ASSUME OnePath, TypeOK, PollingInv, SignerInv, ChainInv, OutcomeInv
  PROVE  /\ build.state \in {"waiting", "asked"} => completion = "open"
         /\ build.state = "answered" /\ signCalls = <<>> => completion = "open"
         /\ signCalls # <<>> /\ Signatures = {} /\ "sign" \in alive => completion = "open"
         /\ FinalizeCalls # {} => completion = "open"
         /\ SubmitCalls # {} => completion = "open"
         /\ ~NoRequests => completion = "open" /\ pending /\ "status" \in alive
<1>1. signCalls # <<>> => build.state = "answered"
  BY DEF SignerInv
<1>2. Signatures # {} => signCalls # <<>>
  BY DEF Signatures
<1>3. build.state # "answered" \/ signCalls = <<>> =>
        Signatures = {} /\ finalized = {} /\ submitted = {} /\ ~pending
  BY <1>1, <1>2 DEF ChainInv
<1>4. FinalizeCalls # {} => completion = "open"
  BY <1>1, <1>2, OneCall DEF OutcomeInv, Stopped, ChainInv
<1>5. SubmitCalls # {} => completion = "open"
  BY <1>1, <1>2, OneCall DEF OutcomeInv, Stopped, ChainInv
<1>6. ~NoRequests => completion = "open" /\ pending /\ "status" \in alive
  BY <1>1, <1>2 DEF PollingInv, OutcomeInv, Stopped, ChainInv
<1>7. build.state \in {"waiting", "asked"} => completion = "open"
  BY <1>1, <1>2, <1>3 DEF OutcomeInv, Stopped
<1>8. build.state = "answered" /\ signCalls = <<>> => completion = "open"
  BY <1>3 DEF OutcomeInv, Stopped
<1>9. signCalls # <<>> /\ Signatures = {} /\ "sign" \in alive => completion = "open"
  BY <1>1 DEF OutcomeInv, Stopped, ChainInv
<1>. QED
  BY <1>4, <1>5, <1>6, <1>7, <1>8, <1>9

\* A settled flow has no request under way.
LEMMA SettledIsQuiet ==
  ASSUME OnePath, FlowInv, OnePathInv
  PROVE  NoRequestOutlivesOutcome
<1>1. TypeOK /\ PollingInv /\ SignerInv /\ ChainInv /\ OutcomeInv
  BY DEF FlowInv, OnePathInv
<1>2. completion # "open" => NoRequests
  BY <1>1, GoesOn
<1>3. DOMAIN answers = Statuses \cup StatusErrors
  BY <1>1 DEF TypeOK
<1>. QED
  BY <1>2, <1>3 DEF NoRequestOutlivesOutcome, NoRequests

\* Steps that are of the session, the ledger and its requests only.
Still ==
  /\ UNCHANGED <<build, confirms, signCalls, finalized, submitted, pending, lastStatus, events, completion>>
  /\ \/ alive' = alive
     \/ completion = "open" /\ alive' = alive \ {"status"}

LEMMA StepsOnPath ==
  ASSUME OnePath, FlowInv, OnePathInv, [Next]_vars
  PROVE  \/ Still
         \/ IntentReady \/ Confirm \/ BuildFailed \/ FinalizeFailed
         \/ \E confirmsAtOnce \in BOOLEAN : TransactionBuilt(confirmsAtOnce)
         \/ \E j \in DOMAIN signCalls : Signed(j) \/ SignFailed(j)
         \/ \E call \in FinalizeCalls : Finalized(call)
         \/ \E call \in SubmitCalls : Submitted(call) \/ SubmitFailed(call)
         \/ \E status \in Statuses : StatusChanged(status)
<1>0. TypeOK /\ PollingInv /\ SignerInv /\ ChainInv /\ OutcomeInv
  BY DEF FlowInv, OnePathInv
<1>1. CASE AccountBecomesActive \/ ObserveActiveAccount \/ ConnectToNetwork \/ PollTick
  BY <1>1 DEF AccountBecomesActive, ObserveActiveAccount, ConnectToNetwork, PollTick, Still,
              signing, sending, tracking, polling
<1>2. ASSUME NEW n \in Networks, SubmitReceived(n) \/ LedgerMoves(n) \/ StatusRequestMoves(n)
      PROVE  Still
  BY <1>2 DEF SubmitReceived, LedgerMoves, StatusRequestMoves, StatusAnswered, StatusRetried, Still,
              signing, sending, tracking, polling
<1>3. ASSUME NEW status \in Statuses, StatusRepeated(status)
      PROVE  Still
  BY <1>3 DEF StatusRepeated, Still, signing, sending, tracking
<1>4. ASSUME NEW code \in StatusErrors, StatusFailed(code)
      PROVE  Still
  <2>1. ~NoRequests
    BY <1>0, <1>4 DEF StatusFailed, NoRequests, TypeOK
  <2>2. completion = "open"
    BY <1>0, <2>1, GoesOn
  <2>. QED
    BY <1>4, <2>2 DEF StatusFailed, Still, signing, sending, tracking
<1>5. CASE UNCHANGED vars
  BY <1>5 DEF vars, Still, signing, sending, tracking, polling
<1>. QED
  BY <1>1, <1>2, <1>3, <1>4, <1>5
  DEF Next, BuildAnswered, SignAnswered, FinalizeAnswered, SubmitAnswered, StatusDelivered

\* The steps of the lifecycle, counted.
LEMMA LifecycleSteps ==
  /\ Tracking!Step("none") = 0
  /\ \A i \in 1..9 : Tracking!Step(Tracking!Lifecycle[i]) = i
  /\ Tracking!Lifecycle[1] = "INITIATED"
  /\ Tracking!Lifecycle[2] = "BUILT_FROM_INTENT"
  /\ Tracking!Lifecycle[3] = "ASKED_FOR_CONFIRMATION"
  /\ Tracking!Lifecycle[4] = "CONFIRMED"
  /\ Tracking!Lifecycle[5] = "SIGNED"
  /\ Tracking!Lifecycle[6] = "FINALIZED"
  /\ Tracking!Lifecycle[7] = "SUBMITTED"
  /\ Tracking!Lifecycle[8] = "UPDATE_OF_STATUS_OF_PENDING_TX"
  /\ Tracking!Lifecycle[9] = "COMPLETED"
<1>1. DOMAIN Tracking!Lifecycle = 1..9
  BY DEF Tracking!Lifecycle
<1>2. \A i \in 1..9 : \A j \in 1..9 :
        Tracking!Lifecycle[i] = Tracking!Lifecycle[j] => i = j
  BY DEF Tracking!Lifecycle
<1>3. \A i \in 1..9 : Tracking!Lifecycle[i] # "none"
  BY DEF Tracking!Lifecycle
<1>4. ASSUME NEW i \in 1..9
      PROVE  Tracking!Step(Tracking!Lifecycle[i]) = i
  <2>1. Tracking!Step(Tracking!Lifecycle[i])
          = CHOOSE j \in 1..9 : Tracking!Lifecycle[j] = Tracking!Lifecycle[i]
    BY <1>1, <1>3 DEF Tracking!Step
  <2>. QED
    BY <1>2, <2>1
<1>. QED
  BY <1>4 DEF Tracking!Step, Tracking!Lifecycle

TrackingStep == [Tracking!Next]_(Tracking!vars)

\* An event on the way to a submitted transaction.
LEMMA AdvanceMaps ==
  ASSUME NEW last, LastEvent = last,
         NEW i \in 1..7, LastEvent' = Tracking!Lifecycle[i],
         Tracking!Step(last) \in 0..(i - 1),
         completion = "open", completion' = completion,
         confirms \in Nat, confirms' \in Nat,
         confirms > 0 => confirms' > 0, i >= 4 => confirms' > 0
  PROVE  TrackingStep
<1>1. /\ Tracking!Step("SUBMITTED") = 7 /\ Tracking!Step("CONFIRMED") = 4
      /\ Tracking!Step(Tracking!Lifecycle[i]) = i
  BY LifecycleSteps
<1>2. \E k \in (Tracking!Step(LastEvent) + 1)..Tracking!Step("SUBMITTED") :
        LastEvent' = Tracking!Lifecycle[k]
  BY <1>1
<1>3. (confirms > 0)' \in {confirms > 0, TRUE}
  <2>1. (confirms' > 0) = TRUE \/ (confirms' > 0) = (confirms > 0)
    OBVIOUS
  <2>. QED
    BY <2>1
<1>4. Tracking!Step(LastEvent') = i
  BY <1>1
<1>5. Tracking!Reached("CONFIRMED")' => (confirms > 0)'
  BY <1>1, <1>4 DEF Tracking!Reached
<1>6. Tracking!Advance
  BY <1>2, <1>3, <1>5 DEF Tracking!Advance
<1>. QED
  BY <1>6 DEF TrackingStep, Tracking!Next

\* A stage errs.
LEMMA FailMaps ==
  ASSUME NEW last, LastEvent = last, LastEvent' = last,
         completion = "open", completion' = "errored", confirms' = confirms
  PROVE  TrackingStep
<1>1. Tracking!Fail
  BY DEF Tracking!Fail
<1>. QED
  BY <1>1 DEF TrackingStep, Tracking!Next

\* Nothing is told.
LEMMA StutterMaps ==
  ASSUME events' = events, completion' = completion, confirms' = confirms
  PROVE  TrackingStep
  BY DEF TrackingStep, Tracking!vars, LastEvent

\* A submitted transaction, and one that is pending, has a new status.
LEMMA StatusMaps ==
  ASSUME NEW last \in {"SUBMITTED", "UPDATE_OF_STATUS_OF_PENDING_TX"}, LastEvent = last,
         completion = "open", confirms' = confirms,
         \/ LastEvent' = "UPDATE_OF_STATUS_OF_PENDING_TX" /\ completion' = completion
         \/ LastEvent' = "UPDATE_OF_STATUS_OF_PENDING_TX" /\ completion' = "errored"
         \/ LastEvent' = "COMPLETED" /\ completion' = "completed"
  PROVE  TrackingStep
<1>1. /\ Tracking!Step("SUBMITTED") = 7
      /\ Tracking!Step("UPDATE_OF_STATUS_OF_PENDING_TX") = 8
  BY LifecycleSteps
<1>2. Tracking!Reached("SUBMITTED")
  BY <1>1 DEF Tracking!Reached
<1>3. Tracking!Update \/ Tracking!Complete \/ Tracking!Fail
  BY <1>2 DEF Tracking!Update, Tracking!Complete, Tracking!Fail
<1>. QED
  BY <1>3 DEF TrackingStep, Tracking!Next

\* What is left alone keeps the chain of stages.
LEMMA StillKeeps ==
  ASSUME OnePathInv, Still
  PROVE  OnePathInv' /\ TrackingStep
<1>1. Signatures' = Signatures
  BY DEF Still, Signatures
<1>2. ChainInv'
  BY <1>1 DEF OnePathInv, ChainInv, Still
<1>3. OutcomeInv'
  BY <1>1 DEF OnePathInv, OutcomeInv, Stopped, Still
<1>4. ToldInv'
  BY <1>1 DEF OnePathInv, ToldInv, Still
<1>5. TrackingStep
  BY StutterMaps DEF Still
<1>. QED
  BY <1>2, <1>3, <1>4, <1>5 DEF OnePathInv

\* What an action tells with Track, and where it leaves the caller.
LEMMA TrackTells ==
  ASSUME TypeOK, NEW types \in Seq(EventTypes), Track(types), Len(types) > 0
  PROVE  EndsWith(events', types[Len(types)])
<1>1. events' = events \o EventsOf(types) /\ events \in Seq(EventRecord)
  BY DEF Track, EventsOf, TypeOK
<1>. QED
  BY <1>1, TrackEnds

LEMMA OneTells ==
  ASSUME TypeOK, NEW type \in EventTypes, Track(<<type>>)
  PROVE  EndsWith(events', type)
<1>. DEFINE types == <<type>>
<1>1. /\ types \in Seq(EventTypes) /\ Len(types) = 1 /\ types[1] = type
      /\ Track(types)
  OBVIOUS
<1>. HIDE DEF types
<1>2. Len(types) > 0
  BY <1>1
<1>. QED
  BY <1>1, <1>2, TrackTells

LEMMA TwoTell ==
  ASSUME TypeOK, NEW before \in EventTypes, NEW type \in EventTypes, Track(<<before, type>>)
  PROVE  EndsWith(events', type)
<1>. DEFINE types == <<before, type>>
<1>1. /\ types \in Seq(EventTypes) /\ Len(types) = 2 /\ types[2] = type
      /\ Track(types)
  OBVIOUS
<1>. HIDE DEF types
<1>2. Len(types) > 0
  BY <1>1
<1>. QED
  BY <1>1, <1>2, TrackTells

LEMMA ThreeTell ==
  ASSUME TypeOK, NEW first \in EventTypes, NEW before \in EventTypes, NEW type \in EventTypes,
         Track(<<first, before, type>>)
  PROVE  EndsWith(events', type)
<1>. DEFINE types == <<first, before, type>>
<1>1. /\ types \in Seq(EventTypes) /\ Len(types) = 3 /\ types[3] = type
      /\ Track(types)
  OBVIOUS
<1>. HIDE DEF types
<1>2. Len(types) > 0
  BY <1>1
<1>. QED
  BY <1>1, <1>2, TrackTells

\* A stage errs while the flow has no outcome.
LEMMA ErrorTells ==
  ASSUME TypeOK, completion = "open", NEW type \in EventTypes, TrackError(type)
  PROVE  /\ completion' = "errored"
         /\ \A last : EndsWith(events, last) => EndsWith(events', last)
<1>1. /\ events \in Seq(EventRecord) /\ events' = Append(events, ErrorEvent(type))
      /\ ErrorEvent(type) \in EventRecord /\ ErrorEvent(type).error
  BY EventTyped DEF TypeOK, TrackError, ErrorEvent
<1>2. completion' = "errored"
  BY DEF TrackError, Settle
<1>3. ASSUME NEW last, EndsWith(events, last)
      PROVE  EndsWith(events', last)
  BY <1>1, <1>3, ErrorKeepsEnd
<1>. QED
  BY <1>2, <1>3

\* The last event, before a step and after it.
LEMMA Last ==
  ASSUME TypeOK
  PROVE  \A type : EndsWith(events, type) => LastEvent = type
  BY EndsWithIsLast DEF TypeOK, LastEvent

LEMMA LastAfter ==
  ASSUME TypeOK'
  PROVE  \A type : EndsWith(events', type) => LastEvent' = type
<1>1. events' \in Seq(EventRecord)
  BY DEF TypeOK
<1>. QED
  BY <1>1, EndsWithIsLast DEF LastEvent

OnePathNow == OnePath /\ TypeOK /\ PollingInv /\ SignerInv /\ OnePathInv

LEMMA OnePathNowParts ==
  ASSUME OnePathNow
  PROVE  /\ OnePath /\ TypeOK /\ PollingInv /\ SignerInv /\ ChainInv /\ OutcomeInv /\ ToldInv
         /\ accounts \in Nat /\ confirms \in Nat
<1>1. OnePath /\ TypeOK /\ PollingInv /\ SignerInv /\ ChainInv /\ OutcomeInv /\ ToldInv
  BY DEF OnePathNow, OnePathInv
<1>2. accounts \in 0..MaxAccounts /\ confirms \in 0..MaxConfirms
  BY <1>1 DEF TypeOK
<1>. QED
  BY <1>1, <1>2, FlowAssumption

\* The first signature is asked for.
LEMMA StartsSigning ==
  ASSUME signCalls = <<>>, StartSigning
  PROVE  signCalls' # <<>> /\ Signatures' = {}
<1>1. signCalls' = <<[account |-> SigningAccount, state |-> "asked"]>>
  BY DEF StartSigning
<1>2. DOMAIN signCalls' = {1} /\ signCalls'[1].state = "asked"
  BY <1>1
<1>3. signCalls' # <<>>
  BY <1>1
<1>. QED
  BY <1>2, <1>3 DEF Signatures

LEMMA IntentReadyOnPath ==
  ASSUME OnePathNow, TypeOK', IntentReady
  PROVE  OnePathInv' /\ TrackingStep
<1>0. /\ OnePath /\ TypeOK /\ PollingInv /\ SignerInv /\ ChainInv /\ OutcomeInv /\ ToldInv
      /\ accounts \in Nat /\ confirms \in Nat
  BY OnePathNowParts
<1>1. build.state = "waiting" /\ build.account = 0 /\ completion = "open"
  BY <1>0, GoesOn DEF IntentReady, ChainInv
<1>2. /\ build'.state = "asked" /\ build'.account = accounts /\ accounts > 0
      /\ UNCHANGED <<confirms, signCalls, finalized, submitted, alive, pending, lastStatus, completion>>
  BY DEF IntentReady, sending, polling
<1>3. Signatures' = Signatures
  BY <1>2 DEF Signatures
<1>4. signCalls = <<>> /\ Signatures = {} /\ finalized = {} /\ submitted = {} /\ ~pending
      /\ lastStatus = "none"
  <2>1. signCalls = <<>>
    BY <1>0, <1>1 DEF SignerInv
  <2>2. Signatures = {}
    BY <2>1 DEF Signatures
  <2>. QED
    BY <1>0, <2>1, <2>2 DEF ChainInv
<1>5. EndsWith(events', "INITIATED")
  <2>1. "INITIATED" \in EventTypes
    BY DEF EventTypes
  <2>2. Track(<<"INITIATED">>)
    BY DEF IntentReady
  <2>. QED
    BY <1>0, <2>1, <2>2, OneTells
<1>6. ChainInv'
  BY <1>0, <1>2, <1>3, <1>4 DEF ChainInv
<1>7. OutcomeInv'
  BY <1>0, <1>1, <1>2 DEF OutcomeInv
<1>8. ToldInv'
  BY <1>0, <1>2, <1>3, <1>4, <1>5 DEF ToldInv
<1>9. TrackingStep
  <2>1. LastEvent = "none" /\ LastEvent' = Tracking!Lifecycle[1]
    BY <1>0, <1>1, <1>5, Last, LastAfter, LifecycleSteps DEF ToldInv
  <2>2. Tracking!Step("none") \in 0..(1 - 1) /\ 1 \in 1..7
    BY LifecycleSteps
  <2>. QED
    BY <1>0, <1>1, <1>2, <2>1, <2>2, AdvanceMaps
<1>. QED
  BY <1>6, <1>7, <1>8, <1>9 DEF OnePathInv

LEMMA TransactionBuiltOnPath ==
  ASSUME OnePathNow, TypeOK', NEW confirmsAtOnce \in BOOLEAN, TransactionBuilt(confirmsAtOnce)
  PROVE  OnePathInv' /\ TrackingStep
<1>0. /\ OnePath /\ TypeOK /\ PollingInv /\ SignerInv /\ ChainInv /\ OutcomeInv /\ ToldInv
      /\ accounts \in Nat /\ confirms \in Nat
  BY OnePathNowParts
<1>1. build.state = "asked" /\ build.account > 0 /\ completion = "open"
  BY <1>0, GoesOn DEF TransactionBuilt, ChainInv
<1>2. /\ build'.state = "answered" /\ build'.account = build.account
      /\ UNCHANGED <<finalized, submitted, alive, pending, lastStatus, completion>>
  BY <1>0 DEF TransactionBuilt, sending, polling, TypeOK
<1>3. signCalls = <<>> /\ confirms = 0
  BY <1>0, <1>1 DEF SignerInv, ChainInv
<1>4. Signatures = {} /\ finalized = {} /\ submitted = {} /\ ~pending /\ lastStatus = "none"
  <2>1. Signatures = {}
    BY <1>3 DEF Signatures
  <2>. QED
    BY <1>0, <2>1 DEF ChainInv
<1>5. LastEvent = "INITIATED"
  BY <1>0, <1>1, Last DEF ToldInv
<1>6. CASE confirmsAtOnce
  <2>1. /\ confirms' = 1 /\ StartSigning
        /\ Track(<<"BUILT_FROM_INTENT", "ASKED_FOR_CONFIRMATION", "CONFIRMED">>)
    BY <1>3, <1>6 DEF TransactionBuilt, CallsConfirm
  <2>2. signCalls' # <<>> /\ Signatures' = {}
    BY <1>3, <2>1, StartsSigning
  <2>3. EndsWith(events', "CONFIRMED")
    BY <1>0, <2>1, ThreeTell DEF EventTypes
  <2>4. ChainInv'
    BY <1>1, <1>2, <1>4, <2>1, <2>2 DEF ChainInv
  <2>5. OutcomeInv'
    BY <1>0, <1>1, <1>2 DEF OutcomeInv
  <2>6. ToldInv'
    BY <1>1, <1>2, <1>4, <2>2, <2>3 DEF ToldInv
  <2>7. LastEvent' = Tracking!Lifecycle[4]
    BY <2>3, LastAfter, LifecycleSteps
  <2>8. Tracking!Step("INITIATED") \in 0..(4 - 1) /\ 4 \in 1..7
    BY LifecycleSteps
  <2>9. TrackingStep
    BY <1>1, <1>2, <1>3, <1>5, <2>1, <2>7, <2>8, AdvanceMaps
  <2>. QED
    BY <2>4, <2>5, <2>6, <2>9 DEF OnePathInv
<1>7. CASE ~confirmsAtOnce
  <2>1. /\ UNCHANGED <<confirms, signCalls>>
        /\ Track(<<"BUILT_FROM_INTENT", "ASKED_FOR_CONFIRMATION">>)
    BY <1>7 DEF TransactionBuilt
  <2>2. Signatures' = {}
    BY <1>3, <2>1 DEF Signatures
  <2>3. EndsWith(events', "ASKED_FOR_CONFIRMATION")
    BY <1>0, <2>1, TwoTell DEF EventTypes
  <2>4. ChainInv'
    BY <1>1, <1>2, <1>3, <1>4, <2>1, <2>2 DEF ChainInv
  <2>5. OutcomeInv'
    BY <1>0, <1>1, <1>2 DEF OutcomeInv
  <2>6. ToldInv'
    BY <1>1, <1>2, <1>3, <1>4, <2>1, <2>2, <2>3 DEF ToldInv
  <2>7. LastEvent' = Tracking!Lifecycle[3]
    BY <2>3, LastAfter, LifecycleSteps
  <2>8. Tracking!Step("INITIATED") \in 0..(3 - 1) /\ 3 \in 1..7
    BY LifecycleSteps
  <2>9. TrackingStep
    BY <1>0, <1>1, <1>2, <1>5, <2>1, <2>7, <2>8, AdvanceMaps
  <2>. QED
    BY <2>4, <2>5, <2>6, <2>9 DEF OnePathInv
<1>. QED
  BY <1>6, <1>7

LEMMA ConfirmOnPath ==
  ASSUME OnePathNow, TypeOK', Confirm
  PROVE  OnePathInv' /\ TrackingStep
<1>0. /\ OnePath /\ TypeOK /\ PollingInv /\ SignerInv /\ ChainInv /\ OutcomeInv /\ ToldInv
      /\ accounts \in Nat /\ confirms \in Nat
  BY OnePathNowParts
<1>1. build.state = "answered" /\ confirms < 1 /\ confirms' = confirms + 1
  BY <1>0 DEF Confirm, CallsConfirm, OnePath
<1>2. signCalls = <<>> /\ confirms = 0 /\ confirms' = 1
  BY <1>0, <1>1 DEF ChainInv
<1>3. completion = "open" /\ "sign" \in alive
  BY <1>0, <1>1, <1>2, GoesOn DEF OutcomeInv
<1>4. /\ StartSigning /\ Track(<<"CONFIRMED">>)
      /\ UNCHANGED <<build, finalized, submitted, alive, pending, lastStatus, completion>>
  BY <1>3 DEF Confirm, sending, polling
<1>5. Signatures = {} /\ finalized = {} /\ submitted = {} /\ ~pending /\ lastStatus = "none"
  <2>1. Signatures = {}
    BY <1>2 DEF Signatures
  <2>. QED
    BY <1>0, <2>1 DEF ChainInv
<1>6. signCalls' # <<>> /\ Signatures' = {}
  BY <1>2, <1>4, StartsSigning
<1>7. EndsWith(events', "CONFIRMED")
  BY <1>0, <1>4, OneTells DEF EventTypes
<1>8. ChainInv'
  BY <1>0, <1>2, <1>4, <1>5, <1>6 DEF ChainInv
<1>9. OutcomeInv'
  BY <1>0, <1>3, <1>4 DEF OutcomeInv
<1>10. build.account > 0
  BY <1>0, <1>1 DEF ChainInv
<1>11. ToldInv'
  BY <1>1, <1>4, <1>5, <1>6, <1>7, <1>10 DEF ToldInv
<1>12. TrackingStep
  <2>1. LastEvent = "ASKED_FOR_CONFIRMATION" /\ LastEvent' = Tracking!Lifecycle[4]
    BY <1>0, <1>1, <1>2, <1>7, Last, LastAfter, LifecycleSteps DEF ToldInv
  <2>2. Tracking!Step("ASKED_FOR_CONFIRMATION") \in 0..(4 - 1) /\ 4 \in 1..7
    BY LifecycleSteps
  <2>. QED
    BY <1>2, <1>3, <1>4, <2>1, <2>2, AdvanceMaps
<1>. QED
  BY <1>8, <1>9, <1>11, <1>12 DEF OnePathInv

\* A stage errs, and what it would have sent on is never made.
LEMMA FailOnPath ==
  ASSUME OnePathNow, TypeOK', NEW type \in EventTypes, TrackError(type), completion = "open",
         UNCHANGED <<confirms, signCalls, finalized, submitted, pending, lastStatus>>,
         build'.account = build.account, build' = build \/ build'.state = "failed",
         build.state = "answered" => build' = build,
         Stopped'
  PROVE  OnePathInv' /\ TrackingStep
<1>0. /\ OnePath /\ TypeOK /\ PollingInv /\ SignerInv /\ ChainInv /\ OutcomeInv /\ ToldInv
      /\ accounts \in Nat /\ confirms \in Nat
  BY OnePathNowParts
<1>1. Signatures' = Signatures
  BY DEF Signatures
<1>2. completion' = "errored" /\ \A last : EndsWith(events, last) => EndsWith(events', last)
  BY <1>0, ErrorTells
<1>3. ChainInv'
  BY <1>0, <1>1 DEF ChainInv
<1>4. OutcomeInv'
  BY <1>2 DEF OutcomeInv
<1>5. ToldInv'
  BY <1>0, <1>1, <1>2 DEF ToldInv
<1>6. TrackingStep
  <2>1. PICK last : EndsWith(events, last)
    <3>1. build.account \in Nat
      BY <1>0, FlowAssumption DEF TypeOK
    <3>2. lastStatus \in {"none", "PENDING", "CONFIRMED", "FAILED"}
      BY <1>0 DEF TypeOK, Statuses, Decided
    <3>. QED
      BY <1>0, <3>1, <3>2 DEF ToldInv, ChainInv
  <2>2. LastEvent = last /\ LastEvent' = last
    BY <1>0, <1>2, <2>1, Last, LastAfter
  <2>. QED
    BY <1>2, <2>2, FailMaps
<1>. QED
  BY <1>3, <1>4, <1>5, <1>6 DEF OnePathInv

LEMMA StageFailsOnPath ==
  ASSUME OnePathNow, TypeOK',
         \/ BuildFailed
         \/ \E j \in DOMAIN signCalls : SignFailed(j)
         \/ FinalizeFailed
         \/ \E call \in SubmitCalls : SubmitFailed(call)
  PROVE  OnePathInv' /\ TrackingStep
<1>0. /\ OnePath /\ TypeOK /\ PollingInv /\ SignerInv /\ ChainInv /\ OutcomeInv /\ ToldInv
      /\ accounts \in Nat /\ confirms \in Nat
  BY OnePathNowParts
<1>1. {"BUILT_FROM_INTENT", "SIGNED", "FINALIZED", "SUBMITTED"} \subseteq EventTypes
  BY DEF EventTypes
<1>2. CASE BuildFailed
  <2>1. /\ TrackError("BUILT_FROM_INTENT")
        /\ UNCHANGED <<confirms, signCalls, finalized, submitted, pending, lastStatus>>
        /\ build.state \in {"waiting", "asked"}
    BY <1>2 DEF BuildFailed, sending, polling
  <2>2. build'.state = "failed" /\ build'.account = build.account
    BY <1>0, <1>2 DEF BuildFailed, TypeOK
  <2>3. completion = "open"
    BY <1>0, <2>1, GoesOn
  <2>4. Stopped'
    BY <2>2 DEF Stopped
  <2>. QED
    BY <1>1, <2>1, <2>2, <2>3, <2>4, FailOnPath
<1>3. ASSUME NEW j \in DOMAIN signCalls, SignFailed(j)
      PROVE  OnePathInv' /\ TrackingStep
  <2>1. /\ UNCHANGED <<build, confirms, signCalls, finalized, submitted, pending, lastStatus>>
        /\ "sign" \in alive /\ signCalls[j].state = "asked" /\ alive' = alive \ {"sign"}
    BY <1>3 DEF SignFailed, signing, sending, polling
  <2>2. DOMAIN signCalls = {1} /\ j = 1
    BY <1>0, OneCall
  <2>3. Signatures = {} /\ signCalls # <<>>
    BY <2>1, <2>2 DEF Signatures
  <2>4. completion = "open"
    BY <1>0, <2>1, <2>3, GoesOn
  <2>5. TrackError("SIGNED")
    BY <1>0, <1>3, <2>4 DEF SignFailed, OutcomeInv
  <2>6. Signatures' = Signatures
    BY <2>1 DEF Signatures
  <2>7. Stopped'
    BY <2>1, <2>3, <2>6 DEF Stopped
  <2>. QED
    BY <1>1, <2>1, <2>4, <2>5, <2>7, FailOnPath
<1>4. CASE FinalizeFailed
  <2>1. /\ UNCHANGED <<build, confirms, signCalls, finalized, submitted, pending, lastStatus>>
        /\ FinalizeCalls # {} /\ alive' = alive \ {"finalize"} /\ TrackError("FINALIZED")
    BY <1>4 DEF FinalizeFailed, signing, sending, polling
  <2>2. completion = "open" /\ Signatures # {} /\ finalized = {}
    BY <1>0, <2>1, OneCall, GoesOn
  <2>3. Signatures' = Signatures
    BY <2>1 DEF Signatures
  <2>4. Stopped'
    BY <2>1, <2>2, <2>3 DEF Stopped
  <2>. QED
    BY <1>1, <2>1, <2>2, <2>4, FailOnPath
<1>5. ASSUME NEW call \in SubmitCalls, SubmitFailed(call)
      PROVE  OnePathInv' /\ TrackingStep
  <2>1. /\ UNCHANGED <<build, confirms, signCalls, finalized, submitted, pending, lastStatus>>
        /\ alive' = alive \ {"finalize", "submit"} /\ TrackError("SUBMITTED")
    BY <1>5 DEF SubmitFailed, signing, sending, polling
  <2>2. completion = "open" /\ finalized # {} /\ submitted = {}
    BY <1>0, OneCall, GoesOn
  <2>3. Stopped'
    BY <2>1, <2>2 DEF Stopped
  <2>. QED
    BY <1>1, <2>1, <2>2, <2>3, FailOnPath
<1>. QED
  BY <1>2, <1>3, <1>4, <1>5

\* An ordinary event of a stage after the confirmation.
LEMMA SignedOnPath ==
  ASSUME OnePathNow, TypeOK', NEW j \in DOMAIN signCalls, Signed(j)
  PROVE  OnePathInv' /\ TrackingStep
<1>0. /\ OnePath /\ TypeOK /\ PollingInv /\ SignerInv /\ ChainInv /\ OutcomeInv /\ ToldInv
      /\ accounts \in Nat /\ confirms \in Nat
  BY OnePathNowParts
<1>1. /\ UNCHANGED <<build, confirms, finalized, submitted, alive, pending, lastStatus, completion>>
      /\ "sign" \in alive /\ signCalls[j].state = "asked"
      /\ signCalls' = [signCalls EXCEPT ![j].state = "signed"]
  BY DEF Signed, sending, polling
<1>2. DOMAIN signCalls = {1} /\ j = 1
  BY <1>0, OneCall
<1>3. Signatures = {} /\ signCalls # <<>>
  BY <1>1, <1>2 DEF Signatures
<1>4. Signatures' # {} /\ signCalls' # <<>>
  <2>0. signCalls \in Seq(SignCall) /\ 1 \in 1..Len(signCalls)
    BY <1>0, <1>2, LenProperties DEF TypeOK
  <2>1. signCalls[1] \in SignCall
    BY <2>0, ElementOfSeq
  <2>2. DOMAIN signCalls' = {1} /\ signCalls'[1].state = "signed"
    BY <1>1, <1>2, <2>1 DEF SignCall
  <2>. QED
    BY <2>2 DEF Signatures
<1>5. finalized = {} /\ submitted = {} /\ ~pending /\ lastStatus = "none" /\ confirms # 0
      /\ build.state = "answered" /\ build.account > 0
  BY <1>0, <1>3 DEF ChainInv, SignerInv
<1>6. completion = "open"
  BY <1>0, <1>1, <1>3, GoesOn
<1>7. EndsWith(events', "SIGNED")
  <2>1. Track(<<"SIGNED">>)
    BY <1>0, <1>6 DEF Signed, OutcomeInv
  <2>. QED
    BY <1>0, <2>1, OneTells DEF EventTypes
<1>8. ChainInv'
  BY <1>1, <1>4, <1>5 DEF ChainInv
<1>9. OutcomeInv'
  BY <1>0, <1>1, <1>6 DEF OutcomeInv
<1>10. ToldInv'
  BY <1>1, <1>4, <1>5, <1>7 DEF ToldInv
<1>11. TrackingStep
  <2>1. LastEvent = "CONFIRMED" /\ LastEvent' = Tracking!Lifecycle[5]
    BY <1>0, <1>3, <1>7, Last, LastAfter, LifecycleSteps DEF ToldInv
  <2>2. Tracking!Step("CONFIRMED") \in 0..(5 - 1) /\ 5 \in 1..7
    BY LifecycleSteps
  <2>. QED
    BY <1>0, <1>1, <1>5, <1>6, <2>1, <2>2, AdvanceMaps
<1>. QED
  BY <1>8, <1>9, <1>10, <1>11 DEF OnePathInv

LEMMA FinalizedOnPath ==
  ASSUME OnePathNow, TypeOK', NEW call \in FinalizeCalls, Finalized(call)
  PROVE  OnePathInv' /\ TrackingStep
<1>0. /\ OnePath /\ TypeOK /\ PollingInv /\ SignerInv /\ ChainInv /\ OutcomeInv /\ ToldInv
      /\ accounts \in Nat /\ confirms \in Nat
  BY OnePathNowParts
<1>1. /\ UNCHANGED <<build, confirms, signCalls, submitted, alive, pending, lastStatus, completion>>
      /\ finalized' # {} /\ Track(<<"FINALIZED">>)
  BY DEF Finalized, signing, polling
<1>2. Signatures # {} /\ finalized = {} /\ completion = "open"
  BY <1>0, OneCall, GoesOn
<1>3. Signatures' = Signatures
  BY <1>1 DEF Signatures
<1>4. /\ signCalls # <<>> /\ submitted = {} /\ ~pending /\ lastStatus = "none" /\ confirms # 0
      /\ build.state = "answered" /\ build.account > 0
  <2>1. signCalls # <<>>
    BY <1>2 DEF Signatures
  <2>. QED
    BY <1>0, <1>2, <2>1 DEF ChainInv, SignerInv
<1>5. EndsWith(events', "FINALIZED")
  BY <1>0, <1>1, OneTells DEF EventTypes
<1>6. ChainInv'
  BY <1>1, <1>2, <1>3, <1>4 DEF ChainInv
<1>7. OutcomeInv'
  BY <1>0, <1>1, <1>2 DEF OutcomeInv
<1>8. ToldInv'
  BY <1>1, <1>2, <1>3, <1>4, <1>5 DEF ToldInv
<1>9. TrackingStep
  <2>1. LastEvent = "SIGNED" /\ LastEvent' = Tracking!Lifecycle[6]
    BY <1>0, <1>2, <1>5, Last, LastAfter, LifecycleSteps DEF ToldInv
  <2>2. Tracking!Step("SIGNED") \in 0..(6 - 1) /\ 6 \in 1..7
    BY LifecycleSteps
  <2>. QED
    BY <1>0, <1>1, <1>2, <1>4, <2>1, <2>2, AdvanceMaps
<1>. QED
  BY <1>6, <1>7, <1>8, <1>9 DEF OnePathInv

LEMMA SubmittedOnPath ==
  ASSUME OnePathNow, TypeOK', NEW call \in SubmitCalls, Submitted(call)
  PROVE  OnePathInv' /\ TrackingStep
<1>0. /\ OnePath /\ TypeOK /\ PollingInv /\ SignerInv /\ ChainInv /\ OutcomeInv /\ ToldInv
      /\ accounts \in Nat /\ confirms \in Nat
  BY OnePathNowParts
<1>1. /\ UNCHANGED <<build, confirms, signCalls, finalized, alive, lastStatus, completion>>
      /\ submitted' # {} /\ pending' = TRUE /\ Track(<<"SUBMITTED">>)
  BY DEF Submitted, signing
<1>2. finalized # {} /\ submitted = {} /\ completion = "open"
  BY <1>0, OneCall, GoesOn
<1>3. Signatures' = Signatures
  BY <1>1 DEF Signatures
<1>4. /\ Signatures # {} /\ signCalls # <<>> /\ ~pending /\ lastStatus = "none" /\ confirms # 0
      /\ build.state = "answered" /\ build.account > 0
  <2>1. Signatures # {}
    BY <1>0, <1>2 DEF ChainInv
  <2>2. signCalls # <<>>
    BY <2>1 DEF Signatures
  <2>. QED
    BY <1>0, <1>2, <2>1, <2>2 DEF ChainInv, SignerInv
<1>5. EndsWith(events', "SUBMITTED")
  BY <1>0, <1>1, OneTells DEF EventTypes
<1>6. ChainInv'
  BY <1>1, <1>2, <1>3, <1>4 DEF ChainInv
<1>7. OutcomeInv'
  BY <1>0, <1>1, <1>2 DEF OutcomeInv
<1>8. ToldInv'
  BY <1>1, <1>2, <1>3, <1>4, <1>5 DEF ToldInv
<1>9. TrackingStep
  <2>1. LastEvent = "FINALIZED" /\ LastEvent' = Tracking!Lifecycle[7]
    BY <1>0, <1>2, <1>5, Last, LastAfter, LifecycleSteps DEF ToldInv
  <2>2. Tracking!Step("FINALIZED") \in 0..(7 - 1) /\ 7 \in 1..7
    BY LifecycleSteps
  <2>. QED
    BY <1>0, <1>1, <1>2, <1>4, <2>1, <2>2, AdvanceMaps
<1>. QED
  BY <1>6, <1>7, <1>8, <1>9 DEF OnePathInv

\* The events of a new status.
LEMMA StatusTells ==
  ASSUME TypeOK, completion = "open", NEW status \in Statuses, Conclude(status)
  PROVE  /\ status = "PENDING" =>
              /\ EndsWith(events', "UPDATE_OF_STATUS_OF_PENDING_TX")
              /\ completion' = completion
         /\ status = "CONFIRMED" =>
              /\ EndsWith(events', "COMPLETED") /\ completion' = "completed"
         /\ status = "FAILED" =>
              /\ EndsWith(events', "UPDATE_OF_STATUS_OF_PENDING_TX")
              /\ completion' = "errored"
<1>0. events \in Seq(EventRecord)
  BY DEF TypeOK
<1>1. /\ Update \in EventRecord /\ ~Update.error
      /\ Update.type = "UPDATE_OF_STATUS_OF_PENDING_TX"
      /\ Event("COMPLETED") \in EventRecord /\ ~Event("COMPLETED").error
      /\ Event("COMPLETED").type = "COMPLETED"
      /\ ErrorEvent(Update.type) \in EventRecord /\ ErrorEvent(Update.type).error
  BY EventTyped DEF Update, Event, ErrorEvent, EventTypes
<1>2. EndsWith(events \o <<Update>>, "UPDATE_OF_STATUS_OF_PENDING_TX")
  <2>. DEFINE news == <<Update>>
  <2>1. news \in Seq(EventRecord) /\ Len(news) = 1 /\ news[1] = Update
    BY <1>1
  <2>. HIDE DEF news
  <2>2. Len(news) > 0 /\ news[Len(news)] = Update
    BY <2>1
  <2>3. EndsWith(events \o news, Update.type)
    BY <1>0, <1>1, <2>1, <2>2, NewsEnds
  <2>. QED
    BY <1>1, <2>3 DEF news
<1>3. CASE status = "PENDING"
  <2>1. events' = events \o <<Update>> /\ completion' = completion
    BY <1>0, <1>1, <1>3, AppendIsConcat DEF Conclude
  <2>. QED
    BY <1>2, <1>3, <2>1
<1>4. CASE status = "CONFIRMED"
  <2>. DEFINE news == <<Update, Event("COMPLETED")>>
  <2>1. news \in Seq(EventRecord) /\ Len(news) = 2 /\ news[2] = Event("COMPLETED")
    BY <1>1
  <2>2. events' = events \o news /\ completion' = "completed"
    BY <1>4 DEF Conclude, Settle
  <2>. HIDE DEF news
  <2>3. Len(news) > 0 /\ news[Len(news)] = Event("COMPLETED")
    BY <2>1
  <2>4. EndsWith(events \o news, Event("COMPLETED").type)
    BY <1>0, <1>1, <2>1, <2>3, NewsEnds
  <2>. QED
    BY <1>1, <1>4, <2>2, <2>4
<1>5. CASE status = "FAILED"
  <2>. DEFINE error == ErrorEvent(Update.type)
              news == Append(events \o <<Update>>, error)
  <2>1. events' = events \o <<Update, error>> /\ completion' = "errored"
    BY <1>1, <1>5 DEF Conclude, Settle
  <2>2. events \o <<Update>> \in Seq(EventRecord)
    BY <1>0, <1>1, ConcatProperties
  <2>3. events \o <<Update, error>> = news
    BY <1>0, <1>1
  <2>4. error \in EventRecord /\ error.error
    BY <1>1
  <2>. HIDE DEF error
  <2>5. EndsWith(news, "UPDATE_OF_STATUS_OF_PENDING_TX")
    BY <1>2, <2>2, <2>4, ErrorKeepsEnd
  <2>. QED
    BY <1>5, <2>1, <2>3, <2>5
<1>. QED
  BY <1>3, <1>4, <1>5

LEMMA StatusChangedOnPath ==
  ASSUME OnePathNow, TypeOK', NEW status \in Statuses, StatusChanged(status)
  PROVE  OnePathInv' /\ TrackingStep
<1>0. /\ OnePath /\ TypeOK /\ PollingInv /\ SignerInv /\ ChainInv /\ OutcomeInv /\ ToldInv
      /\ accounts \in Nat /\ confirms \in Nat
  BY OnePathNowParts
<1>1. ~NoRequests
  BY <1>0 DEF StatusChanged, NoRequests
<1>2. completion = "open" /\ pending /\ submitted # {} /\ lastStatus \notin Decided
  BY <1>0, <1>1, GoesOn DEF ChainInv, OutcomeInv
<1>3. /\ UNCHANGED <<build, confirms, signCalls, finalized, submitted, pending>>
      /\ lastStatus' = status
      /\ status \in Decided => alive' = alive \ {"finalize", "submit", "status"}
      /\ status \notin Decided => alive' = alive
  BY DEF StatusChanged, UnsubscribeOnce, signing, sending
<1>4. Signatures' = Signatures
  BY <1>3 DEF Signatures
<1>5. /\ status = "PENDING" \/ status = "CONFIRMED" \/ status = "FAILED"
      /\ "PENDING" \notin Decided /\ "CONFIRMED" \in Decided /\ "FAILED" \in Decided
  BY DEF Statuses, Decided
<1>6. /\ status = "PENDING" =>
           /\ EndsWith(events', "UPDATE_OF_STATUS_OF_PENDING_TX")
           /\ completion' = completion
      /\ status = "CONFIRMED" =>
           /\ EndsWith(events', "COMPLETED") /\ completion' = "completed"
      /\ status = "FAILED" =>
           /\ EndsWith(events', "UPDATE_OF_STATUS_OF_PENDING_TX")
           /\ completion' = "errored"
  BY <1>0, <1>2, StatusTells DEF StatusChanged
<1>7. finalized # {} /\ Signatures # {} /\ signCalls # <<>> /\ build.state = "answered" /\ build.account > 0
  <2>1. Signatures # {}
    BY <1>0, <1>2 DEF ChainInv
  <2>2. signCalls # <<>>
    BY <2>1 DEF Signatures
  <2>. QED
    BY <1>0, <1>2, <2>1, <2>2 DEF ChainInv, SignerInv
<1>8. ChainInv'
  BY <1>0, <1>2, <1>3, <1>4 DEF ChainInv
<1>9. OutcomeInv'
  BY <1>0, <1>2, <1>3, <1>5, <1>6 DEF OutcomeInv, Stopped
<1>10. ToldInv'
  BY <1>2, <1>3, <1>4, <1>5, <1>6, <1>7 DEF ToldInv
<1>11. TrackingStep
  <2>1. lastStatus \in {"none", "PENDING"}
    BY <1>0, <1>2 DEF TypeOK, Statuses
  <2>2. PICK last \in {"SUBMITTED", "UPDATE_OF_STATUS_OF_PENDING_TX"} : EndsWith(events, last)
    BY <1>0, <1>2, <2>1 DEF ToldInv
  <2>3. LastEvent = last
    BY <1>0, <2>2, Last
  <2>4. \A type : EndsWith(events', type) => LastEvent' = type
    BY LastAfter
  <2>. QED
    BY <1>2, <1>3, <1>5, <1>6, <2>3, <2>4, StatusMaps
<1>. QED
  BY <1>8, <1>9, <1>10, <1>11 DEF OnePathInv

LEMMA OnePathStep ==
  ASSUME OnePath, FlowInv, FlowInv', OnePathInv, [Next]_vars
  PROVE  OnePathInv' /\ TrackingStep
<1>1. OnePathNow /\ TypeOK'
  BY DEF FlowInv, OnePathNow
<1>2. CASE Still
  BY <1>2, StillKeeps
<1>3. CASE BuildFailed \/ FinalizeFailed
  BY <1>1, <1>3, StageFailsOnPath
<1>4. ASSUME NEW j \in DOMAIN signCalls, SignFailed(j)
      PROVE  OnePathInv' /\ TrackingStep
  BY <1>1, <1>4, StageFailsOnPath
<1>5. ASSUME NEW call \in SubmitCalls, SubmitFailed(call)
      PROVE  OnePathInv' /\ TrackingStep
  BY <1>1, <1>5, StageFailsOnPath
<1>. QED
  BY <1>1, <1>2, <1>3, <1>4, <1>5, StepsOnPath, IntentReadyOnPath, TransactionBuiltOnPath,
     ConfirmOnPath, SignedOnPath, FinalizedOnPath, SubmittedOnPath, StatusChangedOnPath

LEMMA InitOnePath == Init => OnePathInv /\ Tracking!Init
<1>. SUFFICES ASSUME Init PROVE OnePathInv /\ Tracking!Init
  OBVIOUS
<1>1. /\ events = <<>> /\ DOMAIN events = {} /\ signCalls = <<>> /\ confirms = 0
      /\ finalized = {} /\ submitted = {} /\ pending = FALSE /\ lastStatus = "none"
      /\ completion = "open" /\ build.state = "waiting" /\ build.account = 0
      /\ alive = Stages
  BY DEF Init
<1>2. Signatures = {}
  BY <1>1 DEF Signatures
<1>3. ChainInv
  BY <1>1, <1>2 DEF ChainInv
<1>4. OutcomeInv
  BY <1>1 DEF OutcomeInv, Stages, Decided
<1>5. ToldInv
  BY <1>1, <1>2 DEF ToldInv, EndsWith
<1>6. LastEvent = "none"
  BY <1>1 DEF LastEvent, LastOf
<1>7. Tracking!Init
  BY <1>1, <1>6 DEF Tracking!Init
<1>. QED
  BY <1>3, <1>4, <1>5, <1>7 DEF OnePathInv

\* With one network and one confirmation the stages follow each other, and the
\* last event tells how far they have come.
THEOREM OnePathInvariant ==
  ASSUME OnePath
  PROVE  Spec => [](FlowInv /\ OnePathInv)
<1>1. FlowInv /\ OnePathInv /\ [Next]_vars => (FlowInv /\ OnePathInv)'
  BY NextFlowInv, OnePathStep
<1>2. Init => FlowInv /\ OnePathInv
  BY InitFlowInv, InitOnePath
<1>. QED
  BY <1>1, <1>2, PTL DEF Spec

\* With one network and one confirmation, no status request is under way once
\* the transaction has settled, whatever fails and however often it is asked.
THEOREM RequestsEndWithOutcome ==
  ASSUME MaxNetworks = 1, MaxConfirms = 1
  PROVE  Spec => []NoRequestOutlivesOutcome
<1>1. OnePath
  BY DEF OnePath
<1>2. FlowInv /\ OnePathInv => NoRequestOutlivesOutcome
  BY <1>1, SettledIsQuiet
<1>. QED
  BY <1>1, <1>2, OnePathInvariant, PTL

\* With one network and one confirmation the flow keeps the promises of
\* TransactionTracking to its caller: each step advances the lifecycle, ends
\* it, or is invisible.
THEOREM TrackingImplemented ==
  ASSUME MaxNetworks = 1, MaxConfirms = 1
  PROVE  Spec => TrackingSpec
<1>1. OnePath
  BY DEF OnePath
<1>2. FlowInv /\ OnePathInv /\ [Next]_vars => TrackingStep
  BY <1>1, NextFlowInv, OnePathStep
<1>3. Init => Tracking!Init
  BY InitOnePath
<1>. QED
  BY <1>1, <1>2, <1>3, OnePathInvariant, PTL DEF Spec, TrackingSpec, Tracking!Spec, TrackingStep
=============================================================================
