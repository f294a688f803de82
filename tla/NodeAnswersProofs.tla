------------------------- MODULE NodeAnswersProofs -------------------------
(***************************************************************************)
(* Theorems about NodeAnswers: of its calls, for every number of nodes, of *)
(* calls and of faults, and of what is parsed, by TxParserProofs.          *)
(***************************************************************************)
EXTENDS NodeAnswers, TxParserProofs

(* The invariant of the calls.                                             *)

\* A request under way is that of a call that waits, of a node that is not
\* older than the call.
RequestsAreWaited ==
  \A c, n : <<c, n>> \in requests =>
    /\ c \in DOMAIN calls /\ calls[c].state = "waiting"
    /\ n \in calls[c].since..nodes /\ n > 0

CallsOK == nodes \in 0..MaxNodes /\ calls \in Seq(CallRecord)
           /\ requests \subseteq (DOMAIN calls) \X (1..nodes)

SinceOK == \A c \in DOMAIN calls : calls[c].since \in 0..nodes

ApiInv == CallsOK /\ SinceOK /\ RequestsAreWaited /\ NeverAnOlderNode

LEMMA Bounds == MaxNodes \in Nat /\ StatusCodes \subseteq Nat \ {0}
  BY CoreApiAssumption

LEMMA WaitingTyped ==
  ASSUME ApiInv, NEW method \in Methods
  PROVE  /\ Waiting(method) \in CallRecord /\ Waiting(method).since = nodes
         /\ Waiting(method).state = "waiting"
  BY Bounds DEF ApiInv, CallsOK, Waiting, CallRecord

LEMMA NetworkIdIsAMethod == "networkId" \in Methods
  BY DEF Methods, Reads

\* A call that is appended leaves those there are, and is the last.
LEMMA Appended ==
  ASSUME CallsOK, NEW call \in CallRecord, calls' = Append(calls, call)
  PROVE  /\ calls' \in Seq(CallRecord)
         /\ DOMAIN calls' = DOMAIN calls \cup {Len(calls) + 1}
         /\ Len(calls) + 1 \notin DOMAIN calls
         /\ calls'[Len(calls) + 1] = call
         /\ \A c \in DOMAIN calls : calls'[c] = calls[c]
<1>1. calls \in Seq(CallRecord) /\ Len(calls) \in Nat /\ DOMAIN calls = 1..Len(calls)
  BY LenProperties DEF CallsOK
<1>2. calls' \in Seq(CallRecord) /\ Len(calls') = Len(calls) + 1
  BY <1>1
<1>3. DOMAIN calls' = 1..Len(calls) + 1
  BY <1>2, LenProperties
<1>4. calls'[Len(calls) + 1] = call /\ \A c \in 1..Len(calls) : calls'[c] = calls[c]
  BY <1>1
<1>. QED
  BY <1>1, <1>2, <1>3, <1>4

LEMMA CallKeeps == ASSUME ApiInv, NEW method \in Methods, Call(method) PROVE ApiInv'
<1>1. /\ calls' = Append(calls, Waiting(method))
      /\ requests' = requests \cup Ask(Len(calls) + 1) /\ nodes' = nodes
  BY DEF Call
<1>2. /\ Waiting(method) \in CallRecord /\ Waiting(method).since = nodes
      /\ Waiting(method).state = "waiting"
  BY WaitingTyped
<1>3. /\ calls' \in Seq(CallRecord)
      /\ DOMAIN calls' = DOMAIN calls \cup {Len(calls) + 1}
      /\ Len(calls) + 1 \notin DOMAIN calls
      /\ calls'[Len(calls) + 1] = Waiting(method)
      /\ \A c \in DOMAIN calls : calls'[c] = calls[c]
  BY <1>1, <1>2, Appended DEF ApiInv
<1>4. nodes \in Nat
  BY Bounds DEF ApiInv, CallsOK
<1>5. \A request \in Ask(Len(calls) + 1) :
        request = <<Len(calls) + 1, nodes>> /\ nodes \in 1..nodes
  BY <1>4 DEF Ask
<1>6. CallsOK'
  BY <1>1, <1>3, <1>5 DEF ApiInv, CallsOK
<1>7. RequestsAreWaited'
  <2>. SUFFICES ASSUME NEW c, NEW n, <<c, n>> \in requests'
                PROVE  /\ c \in DOMAIN calls' /\ calls'[c].state = "waiting"
                       /\ n \in calls'[c].since..nodes' /\ n > 0
    BY DEF RequestsAreWaited
  <2>1. CASE <<c, n>> \in requests
    BY <1>1, <1>3, <2>1 DEF ApiInv, RequestsAreWaited
  <2>2. CASE <<c, n>> \notin requests
    <3>1. <<c, n>> = <<Len(calls) + 1, nodes>> /\ nodes \in 1..nodes
      BY <1>1, <1>5, <2>2
    <3>2. c = Len(calls) + 1 /\ n = nodes /\ n > 0 /\ n \in nodes..nodes
      BY <1>4, <3>1
    <3>. QED
      BY <1>1, <1>2, <1>3, <3>2
  <2>. QED
    BY <2>1, <2>2
<1>8. NeverAnOlderNode'
  BY <1>1, <1>2, <1>3 DEF ApiInv, NeverAnOlderNode
<1>9. SinceOK'
  BY <1>1, <1>2, <1>3, <1>4 DEF ApiInv, SinceOK
<1>. QED
  BY <1>6, <1>7, <1>8, <1>9 DEF ApiInv

LEMMA ConnectKeeps == ApiInv /\ Connect => ApiInv'
<1>. SUFFICES ASSUME ApiInv, Connect
              PROVE  ApiInv'
  OBVIOUS
<1>. DEFINE call == [Waiting("networkId") EXCEPT !.since = nodes + 1]
<1>1. /\ nodes < MaxNodes /\ nodes' = nodes + 1 /\ calls' = Append(calls, call)
      /\ requests' = requests \cup {<<c, nodes + 1>> : c \in StillWaiting \cup {Len(calls) + 1}}
  BY DEF Connect
<1>2. nodes \in Nat /\ nodes + 1 \in 1..MaxNodes /\ nodes' \in 0..MaxNodes
  BY <1>1, Bounds DEF ApiInv, CallsOK
<1>3. call \in CallRecord /\ call.since = nodes + 1 /\ call.state = "waiting"
  BY <1>2, WaitingTyped, NetworkIdIsAMethod DEF CallRecord
<1>. HIDE DEF call
<1>4. /\ calls' \in Seq(CallRecord)
      /\ DOMAIN calls' = DOMAIN calls \cup {Len(calls) + 1}
      /\ Len(calls) + 1 \notin DOMAIN calls
      /\ calls'[Len(calls) + 1] = call
      /\ \A c \in DOMAIN calls : calls'[c] = calls[c]
  BY <1>1, <1>3, Appended DEF ApiInv
<1>5. \A c \in DOMAIN calls : calls[c].since \in 0..nodes
  BY DEF ApiInv, SinceOK
<1>6. CallsOK'
  <2>1. requests' \subseteq (DOMAIN calls') \X (1..nodes')
    <3>1. requests \subseteq (DOMAIN calls') \X (1..nodes')
      <4>1. 1..nodes \subseteq 1..nodes' /\ DOMAIN calls \subseteq DOMAIN calls'
        BY <1>1, <1>2, <1>4
      <4>. QED
        BY <4>1 DEF ApiInv, CallsOK
    <3>2. \A c \in StillWaiting \cup {Len(calls) + 1} : c \in DOMAIN calls'
      BY <1>4 DEF StillWaiting
    <3>3. nodes + 1 \in 1..nodes'
      BY <1>1, <1>2
    <3>. QED
      BY <1>1, <3>1, <3>2, <3>3
  <2>. QED
    BY <1>2, <1>4, <2>1 DEF CallsOK
<1>7. RequestsAreWaited'
  <2>. SUFFICES ASSUME NEW c, NEW n, <<c, n>> \in requests'
                PROVE  /\ c \in DOMAIN calls' /\ calls'[c].state = "waiting"
                       /\ n \in calls'[c].since..nodes' /\ n > 0
    BY DEF RequestsAreWaited
  <2>1. CASE <<c, n>> \in requests
    <3>1. /\ c \in DOMAIN calls /\ calls[c].state = "waiting"
          /\ n \in calls[c].since..nodes /\ n > 0
      BY <2>1 DEF ApiInv, RequestsAreWaited
    <3>2. n \in calls[c].since..nodes + 1
      BY <1>2, <1>5, <3>1
    <3>. QED
      BY <1>1, <1>4, <3>1, <3>2
  <2>2. CASE <<c, n>> \notin requests
    <3>1. n = nodes + 1 /\ c \in StillWaiting \cup {Len(calls) + 1}
      BY <1>1, <2>2
    <3>2. n > 0
      BY <1>2, <3>1
    <3>3. CASE c = Len(calls) + 1
      BY <1>1, <1>2, <1>3, <1>4, <3>1, <3>2, <3>3
    <3>4. CASE c \in StillWaiting
      <4>1. c \in DOMAIN calls /\ calls[c].state = "waiting"
        BY <3>4 DEF StillWaiting
      <4>2. nodes + 1 \in calls[c].since..nodes + 1
        BY <1>2, <1>5, <4>1
      <4>. QED
        BY <1>1, <1>2, <1>4, <3>1, <3>2, <4>1, <4>2
    <3>. QED
      BY <3>1, <3>3, <3>4
  <2>. QED
    BY <2>1, <2>2
<1>8. NeverAnOlderNode'
  <2>. SUFFICES ASSUME NEW c \in DOMAIN calls', calls'[c].state # "waiting"
                PROVE  calls'[c].from \in calls'[c].since..nodes'
    BY DEF NeverAnOlderNode
  <2>1. c \in DOMAIN calls /\ calls'[c] = calls[c]
    BY <1>3, <1>4
  <2>2. calls[c].from \in calls[c].since..nodes
    BY <2>1 DEF ApiInv, NeverAnOlderNode
  <2>. QED
    BY <1>1, <1>2, <1>5, <2>1, <2>2
<1>9. SinceOK'
  BY <1>1, <1>2, <1>3, <1>4, <1>5 DEF SinceOK
<1>. QED
  BY <1>6, <1>7, <1>8, <1>9 DEF ApiInv

\* An outcome of a call takes its requests away, and is of a node it was asked of.
LEMMA EndsKeeps ==
  ASSUME ApiInv, NEW c, NEW n, <<c, n>> \in requests,
         NEW ended \in CallRecord, ended.since = calls[c].since, ended.from = n,
         Ends(c, n, ended), UNCHANGED nodes
  PROVE  ApiInv'
<1>1. /\ calls' = [calls EXCEPT ![c] = ended]
      /\ requests' = {request \in requests : request[1] # c} /\ nodes' = nodes
  BY DEF Ends
<1>2. c \in DOMAIN calls /\ n \in calls[c].since..nodes
  BY DEF ApiInv, RequestsAreWaited
<1>3. /\ calls \in Seq(CallRecord) /\ Len(calls) \in Nat /\ DOMAIN calls = 1..Len(calls)
      /\ calls' \in Seq(CallRecord) /\ Len(calls') = Len(calls)
      /\ \A d \in 1..Len(calls) : calls'[d] = IF d = c THEN ended ELSE calls[d]
  BY <1>1, <1>2, LenProperties, ExceptSeq DEF ApiInv, CallsOK
<1>4. DOMAIN calls' = DOMAIN calls
  BY <1>3, LenProperties
<1>5. CallsOK'
  BY <1>1, <1>3, <1>4 DEF ApiInv, CallsOK
<1>6. SinceOK'
  BY <1>1, <1>2, <1>3, <1>4 DEF ApiInv, SinceOK
<1>7. RequestsAreWaited'
  <2>. SUFFICES ASSUME NEW d, NEW m, <<d, m>> \in requests'
                PROVE  /\ d \in DOMAIN calls' /\ calls'[d].state = "waiting"
                       /\ m \in calls'[d].since..nodes' /\ m > 0
    BY DEF RequestsAreWaited
  <2>1. <<d, m>> \in requests /\ d # c
    BY <1>1
  <2>. QED
    BY <1>1, <1>3, <1>4, <2>1 DEF ApiInv, RequestsAreWaited
<1>8. NeverAnOlderNode'
  BY <1>1, <1>2, <1>3, <1>4 DEF ApiInv, NeverAnOlderNode
<1>. QED
  BY <1>5, <1>6, <1>7, <1>8 DEF ApiInv

\* What an answer makes of a call is a call.
LEMMA OutcomesTyped ==
  ASSUME ApiInv, NEW c, NEW n, <<c, n>> \in requests, NEW code \in StatusCodes \cup {NoCode}
  PROVE  /\ [calls[c] EXCEPT !.state = "answered", !.from = n] \in CallRecord
         /\ Failed(calls[c], n, code) \in CallRecord
         /\ [calls[c] EXCEPT !.unread = TRUE] \in CallRecord
<1>1. c \in DOMAIN calls /\ n \in 1..nodes
  BY DEF ApiInv, CallsOK
<1>2. calls[c] \in CallRecord
  BY <1>1, LenProperties, ElementOfSeq DEF ApiInv, CallsOK
<1>3. n \in 0..MaxNodes
  BY <1>1, Bounds DEF ApiInv, CallsOK
<1>4. Cause[calls[c].method] \in {Cause[method] : method \in Methods} \cup {"none"}
  BY <1>2 DEF CallRecord
<1>. QED
  BY <1>2, <1>3, <1>4 DEF CallRecord, Failed

LEMMA RespondsKeeps == ASSUME ApiInv, NEW c, NEW n, Responds(c, n) PROVE ApiInv'
<1>1. ASSUME NEW faults, ResponseArrives(c, n, faults)
      PROVE  ApiInv'
  <2>1. <<c, n>> \in requests /\ UNCHANGED nodes /\ NoCode \in StatusCodes \cup {NoCode}
    BY <1>1 DEF ResponseArrives
  <2>2. /\ [calls[c] EXCEPT !.state = "answered", !.from = n] \in CallRecord
        /\ Failed(calls[c], n, NoCode) \in CallRecord
        /\ [calls[c] EXCEPT !.unread = TRUE] \in CallRecord
    BY <2>1, OutcomesTyped
  <2>3. c \in DOMAIN calls /\ calls[c] \in CallRecord
    BY <2>1, LenProperties, ElementOfSeq DEF ApiInv, CallsOK
  <2>4. CASE Ends(c, n, [calls[c] EXCEPT !.state = "answered", !.from = n])
    <3>1. /\ [calls[c] EXCEPT !.state = "answered", !.from = n].since = calls[c].since
          /\ [calls[c] EXCEPT !.state = "answered", !.from = n].from = n
      BY <2>3 DEF CallRecord
    <3>. QED
      BY <2>1, <2>2, <2>4, <3>1, EndsKeeps
  <2>5. CASE Ends(c, n, Failed(calls[c], n, NoCode))
    <3>1. Failed(calls[c], n, NoCode).since = calls[c].since /\ Failed(calls[c], n, NoCode).from = n
      BY <2>3 DEF CallRecord, Failed
    <3>. QED
      BY <2>1, <2>2, <2>5, <3>1, EndsKeeps
  <2>6. CASE /\ requests' = requests \ {<<c, n>>}
             /\ calls' = [calls EXCEPT ![c].unread = TRUE]
    <3>1. calls' = [calls EXCEPT ![c] = [calls[c] EXCEPT !.unread = TRUE]]
      BY <2>6
    <3>2. /\ calls \in Seq(CallRecord) /\ DOMAIN calls = 1..Len(calls)
          /\ calls' \in Seq(CallRecord) /\ Len(calls') = Len(calls)
          /\ \A d \in 1..Len(calls) :
               calls'[d] = IF d = c THEN [calls[c] EXCEPT !.unread = TRUE] ELSE calls[d]
      BY <2>2, <2>3, <3>1, LenProperties, ExceptSeq DEF ApiInv, CallsOK
    <3>3. DOMAIN calls' = DOMAIN calls
      BY <3>2, LenProperties
    <3>4. \A d \in DOMAIN calls :
            /\ calls'[d].since = calls[d].since /\ calls'[d].state = calls[d].state
            /\ calls'[d].from = calls[d].from
      <4>. DEFINE lost == [calls[c] EXCEPT !.unread = TRUE]
      <4>1. /\ lost.since = calls[c].since /\ lost.state = calls[c].state
            /\ lost.from = calls[c].from
        BY <2>3 DEF CallRecord
      <4>. HIDE DEF lost
      <4>2. \A d \in DOMAIN calls : calls'[d] = IF d = c THEN lost ELSE calls[d]
        BY <3>2 DEF lost
      <4>. QED
        BY <4>1, <4>2
    <3>5. CallsOK'
      BY <2>1, <2>6, <3>2, <3>3 DEF ApiInv, CallsOK
    <3>6. SinceOK' /\ NeverAnOlderNode'
      BY <2>1, <3>3, <3>4 DEF ApiInv, SinceOK, NeverAnOlderNode
    <3>7. RequestsAreWaited'
      BY <2>1, <2>6, <3>3, <3>4 DEF ApiInv, RequestsAreWaited
    <3>. QED
      BY <3>5, <3>6, <3>7 DEF ApiInv
  <2>. QED
    BY <1>1, <2>4, <2>5, <2>6 DEF ResponseArrives
<1>2. ASSUME NEW status \in StatusCodes \cup {NoCode}, NEW dataCode \in StatusCodes \cup {NoCode},
             RequestFails(c, n, status, dataCode)
      PROVE  ApiInv'
  <2>. DEFINE code == IF dataCode # NoCode THEN dataCode ELSE status
  <2>1. <<c, n>> \in requests /\ UNCHANGED nodes /\ Ends(c, n, Failed(calls[c], n, code))
    BY <1>2 DEF RequestFails
  <2>2. code \in StatusCodes \cup {NoCode}
    BY <1>2
  <2>. HIDE DEF code
  <2>3. calls[c] \in CallRecord
    BY <2>1, LenProperties, ElementOfSeq DEF ApiInv, CallsOK
  <2>4. Failed(calls[c], n, code) \in CallRecord
    BY <2>1, <2>2, OutcomesTyped
  <2>5. Failed(calls[c], n, code).since = calls[c].since /\ Failed(calls[c], n, code).from = n
    BY <2>3 DEF CallRecord, Failed
  <2>. QED
    BY <2>1, <2>4, <2>5, EndsKeeps
<1>. QED
  BY <1>1, <1>2 DEF Responds

LEMMA ApiStepKeeps == ASSUME ApiInv, [ApiNext]_apiVars PROVE ApiInv'
<1>1. ASSUME UNCHANGED apiVars
      PROVE  ApiInv'
  BY <1>1 DEF apiVars, ApiInv, CallsOK, SinceOK, RequestsAreWaited, NeverAnOlderNode
<1>. QED
  BY <1>1, CallKeeps, ConnectKeeps, RespondsKeeps DEF ApiNext

\* A call that has its outcome is in no request, so that no step changes it.
LEMMA ApiStepLeavesOutcomes ==
  ASSUME ApiInv, [ApiNext]_apiVars
  PROVE  \A c \in DOMAIN calls : calls[c].state # "waiting" => calls'[c] = calls[c]
<1>. SUFFICES ASSUME NEW c \in DOMAIN calls, calls[c].state # "waiting"
              PROVE  calls'[c] = calls[c]
  OBVIOUS
<1>1. \A n : <<c, n>> \notin requests
  BY DEF ApiInv, RequestsAreWaited
<1>2. calls \in Seq(CallRecord) /\ Len(calls) \in Nat /\ c \in 1..Len(calls)
  BY LenProperties DEF ApiInv, CallsOK
<1>3. ASSUME NEW method \in Methods, Call(method)
      PROVE  calls'[c] = calls[c]
  BY <1>2, <1>3 DEF Call
<1>4. ASSUME Connect
      PROVE  calls'[c] = calls[c]
  BY <1>2, <1>4 DEF Connect
<1>5. ASSUME NEW d, NEW n, Responds(d, n)
      PROVE  calls'[c] = calls[c]
  <2>1. <<d, n>> \in requests
    BY <1>5 DEF Responds, ResponseArrives, RequestFails
  <2>2. c # d
    BY <1>1, <2>1
  <2>. QED
    BY <1>2, <1>5, <2>2 DEF Responds, ResponseArrives, RequestFails, Ends
<1>. QED
  BY <1>3, <1>4, <1>5 DEF ApiNext, apiVars

\* A call that waits, and no answer to which was lost, is being asked of every
\* node there has been since it was made, the one in use among them.
WaitingAreAsked ==
  \A c \in DOMAIN calls :
    calls[c].state = "waiting" /\ ~calls[c].unread =>
      \A n \in calls[c].since..nodes : n > 0 => <<c, n>> \in requests

LEMMA CallAsks ==
  ASSUME ApiInv, WaitingAreAsked, NEW method \in Methods, Call(method)
  PROVE  WaitingAreAsked'
<1>1. /\ calls' = Append(calls, Waiting(method))
      /\ requests' = requests \cup Ask(Len(calls) + 1) /\ nodes' = nodes
  BY DEF Call
<1>2. Waiting(method) \in CallRecord /\ Waiting(method).since = nodes /\ nodes \in Nat
  BY WaitingTyped, Bounds DEF ApiInv, CallsOK
<1>3. /\ DOMAIN calls' = DOMAIN calls \cup {Len(calls) + 1}
      /\ calls'[Len(calls) + 1] = Waiting(method)
      /\ \A c \in DOMAIN calls : calls'[c] = calls[c]
  BY <1>1, <1>2, Appended DEF ApiInv
<1>4. ASSUME NEW n \in nodes..nodes, n > 0
      PROVE  <<Len(calls) + 1, n>> \in requests'
  BY <1>1, <1>2, <1>4 DEF Ask
<1>. QED
  BY <1>1, <1>2, <1>3, <1>4 DEF WaitingAreAsked

LEMMA ConnectAsks == ASSUME ApiInv, WaitingAreAsked, Connect PROVE WaitingAreAsked'
<1>. DEFINE call == [Waiting("networkId") EXCEPT !.since = nodes + 1]
<1>1. /\ nodes' = nodes + 1 /\ calls' = Append(calls, call)
      /\ requests' = requests \cup {<<c, nodes + 1>> : c \in StillWaiting \cup {Len(calls) + 1}}
  BY DEF Connect
<1>2. nodes \in Nat /\ nodes + 1 \in 0..MaxNodes
  BY Bounds DEF Connect, ApiInv, CallsOK
<1>3. call \in CallRecord /\ call.since = nodes + 1
  BY <1>2, WaitingTyped, NetworkIdIsAMethod DEF CallRecord
<1>. HIDE DEF call
<1>4. /\ DOMAIN calls' = DOMAIN calls \cup {Len(calls) + 1}
      /\ calls'[Len(calls) + 1] = call
      /\ \A c \in DOMAIN calls : calls'[c] = calls[c]
  BY <1>1, <1>3, Appended DEF ApiInv
<1>. SUFFICES ASSUME NEW c \in DOMAIN calls', calls'[c].state = "waiting", ~calls'[c].unread,
                     NEW n \in calls'[c].since..nodes', n > 0
              PROVE  <<c, n>> \in requests'
  BY DEF WaitingAreAsked
<1>5. CASE c = Len(calls) + 1
  BY <1>1, <1>2, <1>3, <1>4, <1>5
<1>6. CASE c \in DOMAIN calls
  <2>1. calls'[c] = calls[c] /\ c \in StillWaiting /\ calls[c].since \in 0..nodes
    BY <1>4, <1>6 DEF StillWaiting, ApiInv, SinceOK
  <2>2. CASE n = nodes + 1
    BY <1>1, <2>1, <2>2
  <2>3. CASE n # nodes + 1
    <3>1. n \in calls[c].since..nodes
      BY <1>1, <1>2, <2>1, <2>3
    <3>. QED
      BY <1>1, <1>6, <2>1, <3>1 DEF WaitingAreAsked
  <2>. QED
    BY <2>2, <2>3
<1>. QED
  BY <1>4, <1>5, <1>6

\* An outcome takes away the requests of a call that no longer waits.
LEMMA EndsAsks ==
  ASSUME ApiInv, WaitingAreAsked, NEW c, NEW n, <<c, n>> \in requests,
         NEW ended, ended.state # "waiting", Ends(c, n, ended), UNCHANGED nodes
  PROVE  WaitingAreAsked'
<1>1. c \in DOMAIN calls /\ calls \in Seq(CallRecord) /\ DOMAIN calls = 1..Len(calls)
  BY LenProperties DEF ApiInv, CallsOK, RequestsAreWaited
<1>2. /\ DOMAIN calls' = DOMAIN calls /\ calls'[c] = ended
      /\ \A d \in DOMAIN calls \ {c} : calls'[d] = calls[d]
  BY <1>1 DEF Ends
<1>3. \A d, m : d # c /\ <<d, m>> \in requests => <<d, m>> \in requests'
  BY DEF Ends
<1>. QED
  BY <1>2, <1>3 DEF WaitingAreAsked

LEMMA RespondsAsks ==
  ASSUME ApiInv, WaitingAreAsked, NEW c, NEW n, Responds(c, n)
  PROVE  WaitingAreAsked'
<1>1. /\ <<c, n>> \in requests /\ UNCHANGED nodes /\ c \in DOMAIN calls
      /\ calls[c] \in CallRecord /\ DOMAIN calls = 1..Len(calls)
  BY LenProperties, ElementOfSeq
     DEF Responds, ResponseArrives, RequestFails, ApiInv, CallsOK, RequestsAreWaited
<1>2. [calls[c] EXCEPT !.state = "answered", !.from = n].state # "waiting"
  BY <1>1 DEF CallRecord
<1>3. \A code : Failed(calls[c], n, code).state # "waiting"
  BY <1>1 DEF CallRecord, Failed
<1>4. CASE Ends(c, n, [calls[c] EXCEPT !.state = "answered", !.from = n])
  BY <1>1, <1>2, <1>4, EndsAsks
<1>5. ASSUME NEW code, Ends(c, n, Failed(calls[c], n, code))
      PROVE  WaitingAreAsked'
  BY <1>1, <1>3, <1>5, EndsAsks
<1>6. CASE /\ requests' = requests \ {<<c, n>>}
           /\ calls' = [calls EXCEPT ![c].unread = TRUE]
  <2>1. /\ DOMAIN calls' = DOMAIN calls /\ calls'[c].unread
        /\ \A d \in DOMAIN calls \ {c} : calls'[d] = calls[d]
    BY <1>1, <1>6 DEF CallRecord
  <2>2. \A d, m : d # c /\ <<d, m>> \in requests => <<d, m>> \in requests'
    BY <1>6
  <2>. QED
    BY <1>1, <2>1, <2>2 DEF WaitingAreAsked
<1>. QED
  BY <1>4, <1>5, <1>6 DEF Responds, ResponseArrives, RequestFails

LEMMA ApiStepAsks ==
  ASSUME ApiInv, WaitingAreAsked, [ApiNext]_apiVars PROVE WaitingAreAsked'
<1>1. ASSUME UNCHANGED apiVars
      PROVE  WaitingAreAsked'
  BY <1>1 DEF apiVars, WaitingAreAsked
<1>. QED
  BY <1>1, CallAsks, ConnectAsks, RespondsAsks DEF ApiNext

-----------------------------------------------------------------------------
(* The theorems.                                                           *)

\* A step of the whole is one of the calls and one of the parser, or leaves the
\* one or the other alone.
LEMMA StepsOfBoth == [Next]_vars => [ApiNext]_apiVars /\ [Receive \/ Parse]_parserVars
  BY DEF Next, vars, DoSignTransaction

LEMMA ApiInvariant == Spec => []ApiInv
<1>1. ApiInit => ApiInv
  <2>1. <<>> \in Seq(CallRecord) /\ DOMAIN <<>> = {}
    OBVIOUS
  <2>. QED
    BY <2>1, Bounds DEF ApiInit, ApiInv, CallsOK, SinceOK, RequestsAreWaited, NeverAnOlderNode
<1>2. ApiInv /\ [Next]_vars => ApiInv'
  BY StepsOfBoth, ApiStepKeeps
<1>. QED
  BY <1>1, <1>2, PTL DEF Spec, Init

LEMMA ParserRuns == Spec => ParserSpec
<1>1. Init => ParserInit
  BY DEF Init
<1>. QED
  BY <1>1, StepsOfBoth, PTL DEF Spec, ParserSpec

\* Type correctness of the calls, their requests and the parser together.
THEOREM TypeCorrect == Spec => []TypeOK
<1>1. ApiInv => ApiTypeOK
  BY DEF ApiInv, CallsOK, ApiTypeOK
<1>2. ApiTypeOK /\ ParserTypeOK => TypeOK
  BY DEF TypeOK
<1>. QED
  BY <1>1, <1>2, ApiInvariant, ParserRuns, ParserTypeCorrect, PTL

\* However connections, calls and answers interleave, no outcome of a call is
\* that of a node that was no longer in use when the call was made.
THEOREM NoOlderNode == Spec => []NeverAnOlderNode
<1>1. ApiInv => NeverAnOlderNode
  BY DEF ApiInv
<1>. QED
  BY <1>1, ApiInvariant, PTL

\* A call that several nodes are asked for has the one outcome that came first.
THEOREM OneOutcome == Spec => OneOutcomePerCall
<1>1. ApiInv /\ [Next]_vars =>
        [\A c \in DOMAIN calls : calls[c].state # "waiting" => calls'[c] = calls[c]]_apiVars
  BY StepsOfBoth, ApiStepLeavesOutcomes
<1>. QED
  BY <1>1, ApiInvariant, PTL DEF Spec, OneOutcomePerCall

\* What a node built and the wallet reads to its end is written again as it is,
\* but for keys with an x that is not reduced.
THEOREM BuiltIsReassembled == Spec => []OnlyUnreducedKeysAreRewritten
  BY ParserRuns, OnlyKeysAreRewritten, PTL

\* The transaction that a node built is what the Ledger wallet reads of its blob.
THEOREM BuiltIsReadBack == Spec => []WrittenIsReadBack
  BY ParserRuns, ReadsWhatWasWritten, PTL

\* No call is forgotten: one that waits, when there is a node and no answer to
\* it was lost for throwing, is under way at the node in use, whatever calls,
\* connections, answers and failures there were (fwdAPICall).
THEOREM NobodyIsForgotten ==
  Spec => [](\A c \in DOMAIN calls :
               calls[c].state = "waiting" /\ ~calls[c].unread /\ nodes > 0 =>
                 <<c, nodes>> \in requests)
<1>1. Init => WaitingAreAsked
  BY DEF Init, ApiInit, WaitingAreAsked
<1>2. ApiInv /\ WaitingAreAsked /\ [Next]_vars => WaitingAreAsked'
  BY ApiStepAsks, StepsOfBoth
<1>3. ApiInv /\ WaitingAreAsked =>
        \A c \in DOMAIN calls :
          calls[c].state = "waiting" /\ ~calls[c].unread /\ nodes > 0 => <<c, nodes>> \in requests
  <2>1. ApiInv => nodes \in Nat /\ \A c \in DOMAIN calls : calls[c].since \in 0..nodes
    BY Bounds DEF ApiInv, CallsOK, SinceOK
  <2>2. ApiInv => \A c \in DOMAIN calls : nodes \in calls[c].since..nodes
    BY <2>1
  <2>. QED
    BY <2>2 DEF WaitingAreAsked
<1>. QED
  BY <1>1, <1>2, <1>3, ApiInvariant, PTL DEF Spec
=============================================================================
