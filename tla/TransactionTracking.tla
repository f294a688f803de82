------------------------- MODULE TransactionTracking -------------------------
(***************************************************************************)
(* What a caller of transferTokens, stakeTokens or unstakeTokens may rely  *)
(* on: the events of one transaction follow the order of the enumeration   *)
(* TransactionTrackingEventType, nothing is signed before the user has     *)
(* confirmed, and `completion` settles once, together with the last event. *)
(***************************************************************************)
EXTENDS Naturals

VARIABLES
  last,       \* the type of the last event that is no error, "none" before
  consent,    \* the user, or the option that skips asking, has confirmed
  completion  \* "open", "completed" or "errored"

vars == <<last, consent, completion>>

Lifecycle ==
  <<"INITIATED", "BUILT_FROM_INTENT", "ASKED_FOR_CONFIRMATION", "CONFIRMED", "SIGNED",
    "FINALIZED", "SUBMITTED", "UPDATE_OF_STATUS_OF_PENDING_TX", "COMPLETED">>

Step(type) == IF type = "none" THEN 0 ELSE CHOOSE i \in DOMAIN Lifecycle : Lifecycle[i] = type

Reached(type) == Step(last) >= Step(type)

Init == last = "none" /\ consent = FALSE /\ completion = "open"

\* One or more events on the way to a submitted transaction.
Advance ==
  /\ completion = "open"
  /\ \E i \in (Step(last) + 1)..Step("SUBMITTED") : last' = Lifecycle[i]
  /\ consent' \in {consent, TRUE}
  /\ Reached("CONFIRMED")' => consent'
  /\ UNCHANGED completion

\* The node tells how a submitted transaction fares.
Update ==
  /\ completion = "open"
  /\ Reached("SUBMITTED")
  /\ last' = "UPDATE_OF_STATUS_OF_PENDING_TX"
  /\ UNCHANGED <<consent, completion>>

Complete ==
  /\ completion = "open"
  /\ Reached("SUBMITTED")
  /\ last' = "COMPLETED"
  /\ completion' = "completed"
  /\ UNCHANGED consent

\* An error ends the tracking, after a last status when the node rejected.
Fail ==
  /\ completion = "open"
  /\ \/ UNCHANGED last
     \/ Reached("SUBMITTED") /\ last' = "UPDATE_OF_STATUS_OF_PENDING_TX"
  /\ completion' = "errored"
  /\ UNCHANGED consent

Next == Advance \/ Update \/ Complete \/ Fail

Spec == Init /\ [][Next]_vars
=============================================================================
