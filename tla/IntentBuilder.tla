---------------------------- MODULE IntentBuilder ----------------------------
(***************************************************************************)
(* The transaction intent builder of packages/application (dto/            *)
(* transactionIntentBuilder.ts), as radix.ts uses it.                      *)
(*                                                                         *)
(* All handles a builder returns share one array of actions and one        *)
(* message. build() returns a cold observable: each subscription waits for *)
(* the sender, reads actions and message at that moment, and, if they are  *)
(* to be encrypted, waits for the account that encrypts and its answer.    *)
(* The flow of a transaction subscribes once to build and once to sign.    *)
(* The active account is observed from the start, and is replayed.         *)
(***************************************************************************)
EXTENDS Integers, Sequences, FiniteSets, SequencesExt

CONSTANTS
  Accounts,         \* accounts, the user's own and those of others
  Texts,            \* texts of messages, none of them empty
  None,             \* no account, no message
  MaxActions,       \* bound: actions added
  MaxMessages,      \* bound: messages set
  MaxBuilds,        \* bound: calls of build
  MaxSubscriptions  \* bound: subscriptions to what build returned

ASSUME BuilderAssumption ==
  /\ None \notin Accounts
  /\ None \notin [text : Texts, encrypt : BOOLEAN]
  /\ MaxActions \in Nat /\ MaxMessages \in Nat
  /\ MaxBuilds \in Nat /\ MaxSubscriptions \in Nat

VARIABLES
  active,         \* the active account
  actions,        \* the array of actions
  message,        \* the message set last
  messages,       \* how many were set
  held,           \* history: the actions and messages held together so far
  builds,         \* calls of build: options, whether refused
  subscriptions   \* subscriptions to a build, and the intent they make

vars == <<active, actions, message, messages, held, builds, subscriptions>>

\* A transfer has a recipient, and a stake a validator, which is no account; an
\* action whose input does not parse is invalid.
Transfer == [kind : {"transfer"}, to : Accounts]
Stake    == [kind : {"stake"}, to : {None}]
Unstake  == [kind : {"unstake"}, to : {None}]
Invalid  == [kind : {"invalid"}, to : {None}]

Action == Transfer \cup Stake \cup Unstake \cup Invalid

Message == [text : Texts, encrypt : BOOLEAN]

\* How to build: without encrypting, or encrypting with the active account if
\* there is a message; for a sender that is given or the active account (None).
Options == [skipEncryption : BOOLEAN, spendingSender : Accounts \cup {None}]

NoIntent ==
  [actions |-> <<>>, from |-> None, message |-> None, by |-> None, for |-> None]

-----------------------------------------------------------------------------
(* What a subscription does once it has been given a sender.               *)

Ends(sub, state) == [sub EXCEPT !.state = state]

\* Every action names its sender, and a transfer its recipient.
UniqueAddresses(action, from) == {from} \cup (IF action \in Transfer THEN {action.to} ELSE {})

FlatMapAddressesOf(intent) ==
  UNION {UniqueAddresses(intent.actions[i], intent.from) : i \in DOMAIN intent.actions}

\* An encrypted message is for the one account next to the encrypting one that
\* the actions name.
Others(intent, account) == FlatMapAddressesOf(intent) \ {account}

\* Slips: the first of several recipients, and nobody when all is one's own.
EncryptForFirst(sub, account) ==
  IF account = None THEN sub
  ELSE [sub EXCEPT
          !.state = "encrypting", !.intent.by = account,
          !.intent.for = IF Others(sub.intent, account) = {} THEN account
                         ELSE CHOOSE other \in Others(sub.intent, account) : TRUE]

EncryptForOther(sub, account) ==
  IF account = None THEN sub
  ELSE IF Cardinality(Others(sub.intent, account)) > 1 THEN Ends(sub, "failed")
  ELSE [sub EXCEPT
          !.state = "encrypting", !.intent.by = account,
          !.intent.for = IF Others(sub.intent, account) = {} THEN None
                         ELSE CHOOSE other \in Others(sub.intent, account) : TRUE]

\* The encrypting account is known, unless there is none yet.
Encrypt(sub, account) ==
  IF account = None THEN sub
  ELSE IF Cardinality(Others(sub.intent, account)) > 1 THEN Ends(sub, "failed")
  ELSE [sub EXCEPT
          !.state = "encrypting", !.intent.by = account,
          !.intent.for = IF Others(sub.intent, account) = {} THEN account
                         ELSE CHOOSE other \in Others(sub.intent, account) : TRUE]

Intended == actions # <<>> /\ \A i \in DOMAIN actions : actions[i].kind # "invalid"

MakeIntent(sub, sender, account) ==
  LET options == builds[sub.of].options
      made    == [sub EXCEPT !.intent.actions = actions, !.intent.from = sender,
                             !.intent.message = message]
  IN  IF ~Intended THEN Ends(sub, "failed")
      ELSE IF options.skipEncryption \/ message = None THEN Ends(made, "emitted")
      ELSE IF ~message.encrypt THEN Ends(sub, "failed")
      ELSE Encrypt(Ends(made, "waitingForAccount"), account)

-----------------------------------------------------------------------------
(* The builder.                                                            *)

\* transferTokens, stakeTokens and unstakeTokens.
AddAction(action) ==
  /\ Len(actions) < MaxActions
  /\ actions' = Append(actions, action)
  /\ held' = held \cup {<<actions', message>>}
  /\ UNCHANGED <<active, message, messages, builds, subscriptions>>

ReplaceAnyPreviousMessageWithNew(new) ==
  /\ messages < MaxMessages
  /\ messages' = messages + 1
  /\ message' = new
  /\ held' = held \cup {<<actions, message'>>}
  /\ UNCHANGED <<active, actions, builds, subscriptions>>

\* A message to be encrypted is refused by a build that encrypts nothing: the
\* observable it returns errs.
Build(options) ==
  /\ Len(builds) < MaxBuilds
  /\ builds' = Append(builds, [options |-> options,
                               refused |-> options.skipEncryption /\ message # None
                                             /\ message.encrypt])
  /\ UNCHANGED <<active, actions, message, messages, held, subscriptions>>

Subscribe(b) ==
  /\ Len(subscriptions) < MaxSubscriptions
  /\ LET sender == IF builds[b].options.spendingSender = None THEN active
                   ELSE builds[b].options.spendingSender
         sub    == [of |-> b, state |-> "waitingForSender", intent |-> NoIntent]
     IN  subscriptions' =
           Append(subscriptions,
                  IF builds[b].refused THEN Ends(sub, "failed")
                  ELSE IF sender = None THEN sub
                  ELSE MakeIntent(sub, sender, active))
  /\ UNCHANGED <<active, actions, message, messages, held, builds>>

\* Those who wait for an account, as sender or to encrypt, go on at once.
AccountBecomesActive(account) ==
  /\ active' = account
  /\ subscriptions' = [s \in DOMAIN subscriptions |->
       IF subscriptions[s].state = "waitingForSender"
       THEN MakeIntent(subscriptions[s], account, account)
       ELSE IF subscriptions[s].state = "waitingForAccount"
       THEN Encrypt(subscriptions[s], account)
       ELSE subscriptions[s]]
  /\ UNCHANGED <<actions, message, messages, held, builds>>

\* A slip: the message is read when the encryption is answered.
EncryptedMessageSetLast(s) ==
  /\ subscriptions[s].state = "encrypting"
  /\ subscriptions' = [subscriptions EXCEPT ![s].state = "emitted", ![s].intent.message = message]
  /\ UNCHANGED <<active, actions, message, messages, held, builds>>

Encrypted(s) ==
  /\ subscriptions[s].state = "encrypting"
  /\ subscriptions' = [subscriptions EXCEPT ![s].state = "emitted"]
  /\ UNCHANGED <<active, actions, message, messages, held, builds>>

\* A hardware account's key exchange may be refused.
EncryptionFailed(s) ==
  /\ subscriptions[s].state = "encrypting"
  /\ subscriptions' = [subscriptions EXCEPT ![s].state = "failed"]
  /\ UNCHANGED <<active, actions, message, messages, held, builds>>

-----------------------------------------------------------------------------
Init ==
  /\ active \in Accounts \cup {None}
  /\ actions = <<>>
  /\ message = None /\ messages = 0
  /\ held = {<<actions, message>>}
  /\ builds = <<>>
  /\ subscriptions = <<>>

Next ==
  \/ \E action \in Action : AddAction(action)
  \/ \E new \in Message : ReplaceAnyPreviousMessageWithNew(new)
  \/ \E options \in Options : Build(options)
  \/ \E b \in DOMAIN builds : Subscribe(b)
  \/ \E account \in Accounts : AccountBecomesActive(account)
  \/ \E s \in DOMAIN subscriptions : Encrypted(s) \/ EncryptionFailed(s)

Spec == Init /\ [][Next]_vars

-----------------------------------------------------------------------------
(* Properties.                                                             *)

Intent ==
  [actions : Seq(Action), from : Accounts, message : Message \cup {None},
   by : Accounts \cup {None}, for : Accounts \cup {None}]

SubscriptionOK(sub) ==
  /\ sub.of \in DOMAIN builds
  /\ sub.state \in {"waitingForSender", "waitingForAccount", "encrypting", "emitted", "failed"}
  /\ sub.state \in {"waitingForAccount", "encrypting", "emitted"} => sub.intent \in Intent
  /\ sub.state = "encrypting" => sub.intent.by # None /\ sub.intent.for # None

\* The variables stay within the values the code can give them; an encryption
\* under way has an account on either side.
TypeOK ==
  /\ active \in Accounts \cup {None}
  /\ actions \in Seq(Action) /\ Len(actions) <= MaxActions
  /\ message \in Message \cup {None} /\ messages \in 0..MaxMessages
  /\ held \subseteq Seq(Action) \X (Message \cup {None})
  /\ builds \in Seq([options : Options, refused : BOOLEAN])
  /\ \A s \in DOMAIN subscriptions : SubscriptionOK(subscriptions[s])

Emitted == {s \in DOMAIN subscriptions : subscriptions[s].state = "emitted"}
IntentOf(s) == subscriptions[s].intent
BuildOf(s) == builds[subscriptions[s].of]

\* An intent is what the builder held at one moment: its actions and message
\* were there together, although the builder goes on being changed while the
\* sender is waited for and the message is encrypted.
IntentOfOneMoment ==
  \A s \in Emitted : <<IntentOf(s).actions, IntentOf(s).message>> \in held

\* An encrypted message can be read by every account its intent names: they
\* are the one that encrypted it and the one it is for, and a sender that was
\* not given is the account that encrypted, whichever is active by now.
EncryptedForTheOneRecipient ==
  \A s \in Emitted :
    IntentOf(s).by # None =>
      /\ Others(IntentOf(s), IntentOf(s).by) \subseteq {IntentOf(s).for}
      /\ IntentOf(s).message # None /\ IntentOf(s).message.encrypt
      /\ BuildOf(s).options.spendingSender = None => IntentOf(s).from = IntentOf(s).by
=============================================================================
