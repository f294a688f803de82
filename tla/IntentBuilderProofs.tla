------------------------ MODULE IntentBuilderProofs ------------------------
(***************************************************************************)
(* Theorems about IntentBuilder, for any accounts and texts, and any       *)
(* number of actions, messages, builds and subscriptions.                  *)
(***************************************************************************)
EXTENDS IntentBuilder, FiniteSetTheorems, SequenceTheorems, TLAPS

States == {"waitingForSender", "waitingForAccount", "encrypting", "emitted", "failed"}

BuildRecord  == [options : Options, refused : BOOLEAN]
Subscription == [of : Nat, state : States, intent : Intent \cup {NoIntent}]

\* What an intent has that was encrypted, or that an account is encrypting.
Sealed(sub) ==
  /\ sub.intent.by \in Accounts /\ sub.intent.for \in Accounts
  /\ Others(sub.intent, sub.intent.by) \subseteq {sub.intent.for}
  /\ sub.intent.message # None /\ sub.intent.message.encrypt
  /\ builds[sub.of].options.spendingSender = None => sub.intent.from = sub.intent.by

\* What an intent has that waits for the account to encrypt it.
Unsealed(sub) ==
  /\ sub.intent.by = None
  /\ sub.intent.message # None /\ sub.intent.message.encrypt

\* What was read of the builder stays as it was read: it was in the builder at
\* one moment, and nobody but the one who encrypts it gives it a recipient.
SubscriptionInv(sub) ==
  /\ sub.of \in DOMAIN builds
  /\ sub.state = "waitingForSender" => sub.intent = NoIntent
  /\ sub.state \in {"waitingForAccount", "encrypting", "emitted"} =>
       /\ sub.intent \in Intent
       /\ <<sub.intent.actions, sub.intent.message>> \in held
  /\ sub.state = "waitingForAccount" =>
       Unsealed(sub) /\ builds[sub.of].options.spendingSender # None
  /\ sub.state = "encrypting" => Sealed(sub)
  /\ sub.state = "emitted" => sub.intent.by = None \/ Sealed(sub)

BuilderOK ==
  /\ active \in Accounts \cup {None}
  /\ actions \in Seq(Action) /\ Len(actions) <= MaxActions
  /\ message \in Message \cup {None} /\ messages \in 0..MaxMessages
  /\ held \subseteq Seq(Action) \X (Message \cup {None})
  /\ <<actions, message>> \in held
  /\ builds \in Seq(BuildRecord)

SubscriptionsOK ==
  /\ subscriptions \in Seq(Subscription)
  /\ \A s \in DOMAIN subscriptions : SubscriptionInv(subscriptions[s])

BuilderInv == BuilderOK /\ SubscriptionsOK

-----------------------------------------------------------------------------
(* Lemmas.                                                                 *)

LEMMA Bounds ==
  /\ MaxActions \in Nat /\ MaxMessages \in Nat /\ MaxBuilds \in Nat /\ MaxSubscriptions \in Nat
  /\ None \notin Accounts /\ None \notin Message
  BY BuilderAssumption DEF Message

\* The accounts that an intent names are finitely many.
LEMMA NamedAreFinite ==
  ASSUME NEW intent \in Intent
  PROVE  IsFiniteSet(FlatMapAddressesOf(intent))
<1>. DEFINE named(i) == UniqueAddresses(intent.actions[i], intent.from)
            indices  == 1..Len(intent.actions)
<1>1. intent.actions \in Seq(Action)
  BY DEF Intent
<1>2. Len(intent.actions) \in Nat /\ DOMAIN intent.actions = indices
  BY <1>1, LenProperties
<1>3. IsFiniteSet(indices)
  BY <1>2, FS_Interval
<1>4. \A i \in indices : IsFiniteSet(named(i))
  <2>. SUFFICES ASSUME NEW i \in indices PROVE IsFiniteSet(named(i))
    OBVIOUS
  <2>1. IsFiniteSet({intent.from}) /\ IsFiniteSet({intent.actions[i].to}) /\ IsFiniteSet({})
    BY FS_Singleton, FS_EmptySet
  <2>2. IsFiniteSet({intent.from} \cup {intent.actions[i].to})
    BY <2>1, FS_Union
  <2>. QED
    BY <2>1, <2>2 DEF UniqueAddresses
<1>5. IsFiniteSet({named(i) : i \in indices})
  <2>. DEFINE image == [i \in indices |-> named(i)]
            sets  == {named(i) : i \in indices}
  <2>1. image \in [indices -> sets] /\ \A set \in sets : \E i \in indices : image[i] = set
    OBVIOUS
  <2>2. image \in Surjection(indices, sets)
    BY <2>1 DEF Surjection
  <2>. HIDE DEF image, sets
  <2>3. IsFiniteSet(sets)
    BY <1>3, <2>2, FS_Surjection
  <2>. QED
    BY <2>3 DEF sets
<1>6. IsFiniteSet(UNION {named(i) : i \in indices})
  <2>. DEFINE sets == {named(i) : i \in indices}
  <2>1. \A set \in sets : IsFiniteSet(set)
    BY <1>4
  <2>. HIDE DEF sets, named
  <2>. QED
    BY <1>5, <2>1, FS_UNION DEF sets
<1>. QED
  BY <1>2, <1>6 DEF FlatMapAddressesOf

\* If an intent does not name two others, the one that is chosen is all.
LEMMA OneOther ==
  ASSUME NEW intent \in Intent, NEW account,
         ~(Cardinality(Others(intent, account)) > 1)
  PROVE  \/ Others(intent, account) = {}
         \/ Others(intent, account) = {CHOOSE other \in Others(intent, account) : TRUE}
<1>. DEFINE others == Others(intent, account)
<1>1. IsFiniteSet(others)
  BY NamedAreFinite, FS_Subset DEF Others
<1>2. Cardinality(others) \in Nat
  BY <1>1, FS_CardinalityType
<1>3. Cardinality(others) = 0 \/ Cardinality(others) = 1
  BY <1>2
<1>4. CASE Cardinality(others) = 0
  BY <1>1, <1>4, FS_EmptySet
<1>5. CASE Cardinality(others) = 1
  <2>1. PICK one : others = {one}
    BY <1>1, <1>5, FS_Singleton
  <2>. QED
    BY <2>1
<1>. QED
  BY <1>3, <1>4, <1>5

\* The accounts that an intent names are accounts.
LEMMA NamedAreAccounts ==
  ASSUME NEW intent \in Intent, NEW account
  PROVE  Others(intent, account) \subseteq Accounts
<1>1. intent.actions \in Seq(Action) /\ intent.from \in Accounts
  BY DEF Intent
<1>2. \A i \in DOMAIN intent.actions : intent.actions[i] \in Action
  BY <1>1, LenProperties, ElementOfSeq
<1>. QED
  BY <1>1, <1>2 DEF Others, FlatMapAddressesOf, UniqueAddresses, Action, Transfer

-----------------------------------------------------------------------------
(* A subscription that is given an account.                                *)

\* What is read of the builder is an intent, for a sender that is an account.
LEMMA Read ==
  ASSUME BuilderOK, NEW sender \in Accounts
  PROVE  LET intent == [NoIntent EXCEPT !.actions = actions, !.from = sender, !.message = message]
         IN  /\ intent \in Intent
             /\ intent.actions = actions /\ intent.from = sender /\ intent.message = message
             /\ intent.by = None /\ intent.for = None
  BY DEF NoIntent, BuilderOK, Intent

\* The account encrypts, or the subscription ends.
LEMMA Encrypts ==
  ASSUME BuilderOK, NEW sub \in Subscription, sub.state = "waitingForAccount",
         sub.of \in DOMAIN builds, sub.intent \in Intent, Unsealed(sub),
         <<sub.intent.actions, sub.intent.message>> \in held,
         NEW account \in Accounts \cup {None},
         builds[sub.of].options.spendingSender = None =>
           account # None /\ sub.intent.from = account
  PROVE  Encrypt(sub, account) \in Subscription /\ SubscriptionInv(Encrypt(sub, account))
<1>. DEFINE others == Others(sub.intent, account)
            other  == IF others = {} THEN account ELSE CHOOSE one \in others : TRUE
            sealed == [sub EXCEPT !.state = "encrypting", !.intent.by = account,
                                  !.intent.for = other]
<1>1. CASE account = None
  BY <1>1 DEF Encrypt, SubscriptionInv
<1>2. CASE account # None /\ Cardinality(others) > 1
  <2>1. Encrypt(sub, account) = [sub EXCEPT !.state = "failed"]
    BY <1>2 DEF Encrypt, Ends
  <2>. QED
    BY <2>1 DEF Subscription, States, SubscriptionInv
<1>3. CASE account # None /\ ~(Cardinality(others) > 1)
  <2>1. Encrypt(sub, account) = sealed
    BY <1>3 DEF Encrypt
  <2>2. /\ others = {} \/ others = {CHOOSE one \in others : TRUE}
        /\ others \subseteq Accounts
    BY <1>3, OneOther, NamedAreAccounts
  <2>3. other \in Accounts /\ others \subseteq {other} /\ account \in Accounts
    BY <1>3, <2>2
  <2>. HIDE DEF other
  <2>4. /\ sealed.of = sub.of /\ sealed.state = "encrypting"
        /\ sealed.intent = [sub.intent EXCEPT !.by = account, !.for = other]
        /\ sealed \in Subscription
    BY <2>3 DEF Subscription, States, Intent
  <2>. HIDE DEF sealed
  <2>5. /\ sealed.intent \in Intent
        /\ sealed.intent.actions = sub.intent.actions /\ sealed.intent.from = sub.intent.from
        /\ sealed.intent.message = sub.intent.message
        /\ sealed.intent.by = account /\ sealed.intent.for = other
    BY <2>3, <2>4 DEF Intent
  <2>6. Others(sealed.intent, account) = others
    BY <2>5 DEF Others, FlatMapAddressesOf
  <2>7. Sealed(sealed)
    BY <2>3, <2>4, <2>5, <2>6 DEF Sealed, Unsealed
  <2>8. SubscriptionInv(sealed)
    BY <2>4, <2>5, <2>7 DEF SubscriptionInv
  <2>. QED
    BY <2>1, <2>4, <2>8
<1>. QED
  BY <1>1, <1>2, <1>3

\* Given a sender, what a subscription makes of the builder keeps the invariant.
LEMMA MakesIntent ==
  ASSUME BuilderOK, NEW sub \in Subscription, SubscriptionInv(sub),
         sub.state = "waitingForSender", NEW sender \in Accounts, NEW account \in Accounts \cup {None},
         builds[sub.of].options.spendingSender = None => sender = account
  PROVE  /\ MakeIntent(sub, sender, account) \in Subscription
         /\ SubscriptionInv(MakeIntent(sub, sender, account))
<1>. DEFINE made == [sub EXCEPT !.intent.actions = actions, !.intent.from = sender,
                                !.intent.message = message]
<1>1. sub.of \in DOMAIN builds /\ sub.intent = NoIntent
  BY DEF SubscriptionInv
<1>2. /\ made.of = sub.of /\ made \in Subscription /\ made.intent \in Intent
      /\ made.intent.actions = actions /\ made.intent.from = sender
      /\ made.intent.message = message /\ made.intent.by = None /\ made.intent.for = None
  <2>. DEFINE intent == [NoIntent EXCEPT !.actions = actions, !.from = sender, !.message = message]
  <2>1. /\ intent \in Intent
        /\ intent.actions = actions /\ intent.from = sender /\ intent.message = message
        /\ intent.by = None /\ intent.for = None
    BY Read
  <2>2. made.intent = intent /\ made.of = sub.of /\ made.state = sub.state
    BY <1>1 DEF Subscription
  <2>. HIDE DEF intent
  <2>3. made = [sub EXCEPT !.intent = intent]
    BY <1>1 DEF intent
  <2>. QED
    BY <2>1, <2>2, <2>3 DEF Subscription
<1>. HIDE DEF made
<1>3. CASE ~Intended
  <2>1. MakeIntent(sub, sender, account) = [sub EXCEPT !.state = "failed"]
    BY <1>3 DEF MakeIntent, Ends
  <2>. QED
    BY <1>1, <2>1 DEF Subscription, States, SubscriptionInv
<1>4. CASE /\ Intended
           /\ builds[sub.of].options.skipEncryption \/ message = None
  <2>. DEFINE emitted == [made EXCEPT !.state = "emitted"]
  <2>1. MakeIntent(sub, sender, account) = emitted
    BY <1>4 DEF MakeIntent, Ends, made
  <2>2. /\ emitted \in Subscription /\ emitted.state = "emitted" /\ emitted.of = sub.of
        /\ emitted.intent = made.intent
    BY <1>2 DEF Subscription, States
  <2>. HIDE DEF emitted
  <2>. QED
    BY <1>1, <1>2, <2>1, <2>2 DEF SubscriptionInv, BuilderOK
<1>5. CASE /\ Intended /\ ~message.encrypt
           /\ ~(builds[sub.of].options.skipEncryption \/ message = None)
  <2>1. MakeIntent(sub, sender, account) = [sub EXCEPT !.state = "failed"]
    BY <1>5 DEF MakeIntent, Ends
  <2>. QED
    BY <1>1, <2>1 DEF Subscription, States, SubscriptionInv
<1>6. CASE /\ Intended /\ message.encrypt
           /\ ~(builds[sub.of].options.skipEncryption \/ message = None)
  <2>. DEFINE wait == [made EXCEPT !.state = "waitingForAccount"]
  <2>1. MakeIntent(sub, sender, account) = Encrypt(wait, account)
    BY <1>6 DEF MakeIntent, Ends, made
  <2>2. /\ wait \in Subscription /\ wait.state = "waitingForAccount" /\ wait.of = sub.of
        /\ wait.intent = made.intent
    BY <1>2 DEF Subscription, States
  <2>. HIDE DEF wait
  <2>3. wait.of \in DOMAIN builds /\ wait.intent \in Intent
    BY <1>1, <1>2, <2>2
  <2>4. <<wait.intent.actions, wait.intent.message>> \in held
    BY <1>2, <2>2 DEF BuilderOK
  <2>5. Unsealed(wait)
    BY <1>2, <1>6, <2>2 DEF Unsealed
  <2>6. builds[wait.of].options.spendingSender = None =>
          account # None /\ wait.intent.from = account
    BY <1>2, <2>2, Bounds
  <2>. QED
    BY <2>1, <2>2, <2>3, <2>4, <2>5, <2>6, Encrypts
<1>. QED
  BY <1>3, <1>4, <1>5, <1>6

-----------------------------------------------------------------------------
(* The invariant.                                                          *)

\* What the builder goes on to hold, and further builds, change no subscription.
LEMMA SubscriptionsStay ==
  ASSUME SubscriptionsOK, UNCHANGED subscriptions, held \subseteq held',
         DOMAIN builds \subseteq DOMAIN builds',
         \A b \in DOMAIN builds : builds'[b] = builds[b]
  PROVE  SubscriptionsOK'
<1>1. \A s \in DOMAIN subscriptions : SubscriptionInv(subscriptions[s])'
  BY DEF SubscriptionsOK, SubscriptionInv, Sealed, Unsealed
<1>. QED
  BY <1>1 DEF SubscriptionsOK

LEMMA InitEstablishes == Init => BuilderInv
<1>. SUFFICES ASSUME Init PROVE BuilderInv
  OBVIOUS
<1>1. /\ actions = <<>> /\ <<>> \in Seq(Action) /\ Len(<<>>) = 0
      /\ builds = <<>> /\ <<>> \in Seq(BuildRecord)
      /\ subscriptions = <<>> /\ <<>> \in Seq(Subscription) /\ DOMAIN subscriptions = {}
  BY DEF Init
<1>2. /\ actions \in Seq(Action) /\ message \in Message \cup {None}
      /\ held = {<<actions, message>>}
  BY <1>1 DEF Init
<1>3. held \subseteq Seq(Action) \X (Message \cup {None}) /\ <<actions, message>> \in held
  BY <1>2
<1>4. /\ active \in Accounts \cup {None} /\ Len(actions) <= MaxActions
      /\ messages \in 0..MaxMessages /\ builds \in Seq(BuildRecord)
  BY <1>1, Bounds DEF Init
<1>5. BuilderOK
  BY <1>2, <1>3, <1>4 DEF BuilderOK
<1>. QED
  BY <1>1, <1>5 DEF BuilderInv, SubscriptionsOK

LEMMA AddActionKeeps == ASSUME BuilderInv, NEW action \in Action, AddAction(action) PROVE BuilderInv'
<1>1. /\ actions' = Append(actions, action) /\ Len(actions) < MaxActions
      /\ held' = held \cup {<<actions', message>>}
      /\ UNCHANGED <<active, message, messages, builds, subscriptions>>
  BY DEF AddAction
<1>2. actions' \in Seq(Action) /\ Len(actions') = Len(actions) + 1
  BY <1>1 DEF BuilderInv, BuilderOK
<1>3. Len(actions') <= MaxActions
  <2>1. Len(actions) \in Nat /\ MaxActions \in Nat
    BY Bounds, LenProperties DEF BuilderInv, BuilderOK
  <2>. QED
    BY <1>1, <1>2, <2>1
<1>4. held' \subseteq Seq(Action) \X (Message \cup {None}) /\ <<actions', message'>> \in held'
  <2>1. message' = message /\ message \in Message \cup {None}
    BY <1>1 DEF BuilderInv, BuilderOK
  <2>2. <<actions', message>> \in Seq(Action) \X (Message \cup {None})
    BY <1>2, <2>1
  <2>3. held \subseteq Seq(Action) \X (Message \cup {None})
    BY DEF BuilderInv, BuilderOK
  <2>. QED
    BY <1>1, <2>1, <2>2, <2>3, Zenon
<1>5. BuilderOK'
  BY <1>1, <1>2, <1>3, <1>4 DEF BuilderInv, BuilderOK
<1>. QED
  BY <1>1, <1>5, SubscriptionsStay DEF BuilderInv

LEMMA SetMessageKeeps ==
  ASSUME BuilderInv, NEW new \in Message, ReplaceAnyPreviousMessageWithNew(new)
  PROVE  BuilderInv'
<1>1. /\ messages < MaxMessages /\ messages' = messages + 1 /\ message' = new
      /\ held' = held \cup {<<actions, message'>>}
      /\ UNCHANGED <<active, actions, builds, subscriptions>>
  BY DEF ReplaceAnyPreviousMessageWithNew
<1>2. BuilderOK'
  BY <1>1, Bounds DEF BuilderInv, BuilderOK
<1>. QED
  BY <1>1, <1>2, SubscriptionsStay DEF BuilderInv

LEMMA BuildKeeps == ASSUME BuilderInv, NEW options \in Options, Build(options) PROVE BuilderInv'
<1>. DEFINE build == [options |-> options,
                      refused |-> options.skipEncryption /\ message # None /\ message.encrypt]
<1>1. /\ builds' = Append(builds, build)
      /\ UNCHANGED <<active, actions, message, messages, held, subscriptions>>
  BY DEF Build
<1>2. build \in BuildRecord
  <2>1. build.refused \in BOOLEAN
    BY Zenon
  <2>. QED
    BY <2>1 DEF BuildRecord
<1>. HIDE DEF build
<1>3. /\ builds' \in Seq(BuildRecord) /\ DOMAIN builds \subseteq DOMAIN builds'
      /\ \A b \in DOMAIN builds : builds'[b] = builds[b]
  BY <1>1, <1>2, AppendProperties, LenProperties DEF BuilderInv, BuilderOK
<1>4. BuilderOK'
  BY <1>1, <1>3 DEF BuilderInv, BuilderOK
<1>. QED
  BY <1>1, <1>3, <1>4, SubscriptionsStay DEF BuilderInv

\* A subscription that comes, or changes, leaves the others as they are.
LEMMA SubscriptionsChange ==
  ASSUME SubscriptionsOK, UNCHANGED <<held, builds>>,
         subscriptions' \in Seq(Subscription),
         \A s \in DOMAIN subscriptions' : SubscriptionInv(subscriptions'[s])
  PROVE  SubscriptionsOK'
<1>1. \A s \in DOMAIN subscriptions' : SubscriptionInv(subscriptions[s])'
  BY DEF SubscriptionInv, Sealed, Unsealed
<1>. QED
  BY <1>1 DEF SubscriptionsOK

LEMMA SubscribeKeeps == ASSUME BuilderInv, NEW b \in DOMAIN builds, Subscribe(b) PROVE BuilderInv'
<1>. DEFINE sender == IF builds[b].options.spendingSender = None THEN active
                      ELSE builds[b].options.spendingSender
            sub == [of |-> b, state |-> "waitingForSender", intent |-> NoIntent]
            new == IF builds[b].refused THEN Ends(sub, "failed")
                   ELSE IF sender = None THEN sub ELSE MakeIntent(sub, sender, active)
<1>1. /\ subscriptions' = Append(subscriptions, new)
      /\ UNCHANGED <<active, actions, message, messages, held, builds>>
  BY DEF Subscribe
<1>2. b \in Nat /\ builds[b].options \in Options
  <2>1. builds \in Seq(BuildRecord) /\ b \in 1..Len(builds) /\ Len(builds) \in Nat
    BY LenProperties DEF BuilderInv, BuilderOK
  <2>2. builds[b] \in BuildRecord
    BY <2>1, ElementOfSeq
  <2>. QED
    BY <2>1, <2>2 DEF BuildRecord
<1>3. sub \in Subscription /\ SubscriptionInv(sub) /\ sub.state = "waitingForSender"
  BY <1>2 DEF Subscription, States, SubscriptionInv
<1>4. sender \in Accounts \cup {None} /\ active \in Accounts \cup {None}
  BY <1>2 DEF BuilderInv, BuilderOK, Options
<1>5. new \in Subscription /\ SubscriptionInv(new)
  <2>1. CASE builds[b].refused
    <3>1. Ends(sub, "failed") \in Subscription /\ SubscriptionInv(Ends(sub, "failed"))
      BY <1>2, <1>3 DEF Subscription, States, SubscriptionInv, Ends
    <3>. QED
      BY <2>1, <3>1
  <2>2. CASE ~builds[b].refused /\ sender = None
    BY <1>3, <2>2
  <2>3. CASE ~builds[b].refused /\ sender # None
    <3>1. builds[sub.of].options.spendingSender = None => sender = active
      OBVIOUS
    <3>2. new = MakeIntent(sub, sender, active) /\ sender \in Accounts
      BY <1>4, <2>3
    <3>. HIDE DEF sub, sender, new
    <3>. QED
      BY <1>3, <1>4, <3>1, <3>2, MakesIntent DEF BuilderInv
  <2>. QED
    BY <2>1, <2>2, <2>3
<1>. HIDE DEF new
<1>6. /\ subscriptions' \in Seq(Subscription)
      /\ \A s \in DOMAIN subscriptions' : SubscriptionInv(subscriptions'[s])
  <2>1. subscriptions \in Seq(Subscription) /\ DOMAIN subscriptions = 1..Len(subscriptions)
    BY LenProperties DEF BuilderInv, SubscriptionsOK
  <2>2. /\ subscriptions' \in Seq(Subscription) /\ Len(subscriptions') = Len(subscriptions) + 1
        /\ subscriptions'[Len(subscriptions) + 1] = new
        /\ \A s \in 1..Len(subscriptions) : subscriptions'[s] = subscriptions[s]
    BY <1>1, <1>5, <2>1, AppendProperties
  <2>3. DOMAIN subscriptions' = 1..Len(subscriptions) + 1 /\ Len(subscriptions) \in Nat
    BY <2>1, <2>2, LenProperties
  <2>. QED
    BY <1>5, <2>1, <2>2, <2>3 DEF BuilderInv, SubscriptionsOK
<1>7. BuilderOK'
  BY <1>1 DEF BuilderInv, BuilderOK
<1>. QED
  BY <1>1, <1>6, <1>7, SubscriptionsChange DEF BuilderInv

LEMMA AccountKeeps ==
  ASSUME BuilderInv, NEW account \in Accounts, AccountBecomesActive(account)
  PROVE  BuilderInv'
<1>. DEFINE new(s) == IF subscriptions[s].state = "waitingForSender"
                      THEN MakeIntent(subscriptions[s], account, account)
                      ELSE IF subscriptions[s].state = "waitingForAccount"
                      THEN Encrypt(subscriptions[s], account)
                      ELSE subscriptions[s]
<1>1. /\ active' = account /\ subscriptions' = [s \in DOMAIN subscriptions |-> new(s)]
      /\ UNCHANGED <<actions, message, messages, held, builds>>
  BY DEF AccountBecomesActive
<1>2. /\ subscriptions \in Seq(Subscription) /\ Len(subscriptions) \in Nat
      /\ DOMAIN subscriptions = 1..Len(subscriptions)
  BY LenProperties DEF BuilderInv, SubscriptionsOK
<1>3. ASSUME NEW s \in DOMAIN subscriptions
      PROVE  new(s) \in Subscription /\ SubscriptionInv(new(s))
  <2>1. subscriptions[s] \in Subscription /\ SubscriptionInv(subscriptions[s])
    BY <1>2, ElementOfSeq DEF BuilderInv, SubscriptionsOK
  <2>2. CASE subscriptions[s].state = "waitingForSender"
    <3>1. new(s) = MakeIntent(subscriptions[s], account, account)
      BY <2>2
    <3>. QED
      BY <2>1, <2>2, <3>1, MakesIntent DEF BuilderInv
  <2>3. CASE subscriptions[s].state = "waitingForAccount"
    <3>1. new(s) = Encrypt(subscriptions[s], account)
      BY <2>3
    <3>2. /\ subscriptions[s].of \in DOMAIN builds /\ subscriptions[s].intent \in Intent
          /\ Unsealed(subscriptions[s])
          /\ <<subscriptions[s].intent.actions, subscriptions[s].intent.message>> \in held
          /\ builds[subscriptions[s].of].options.spendingSender # None
      BY <2>1, <2>3 DEF SubscriptionInv
    <3>. QED
      BY <2>1, <2>3, <3>1, <3>2, Encrypts DEF BuilderInv
  <2>4. CASE subscriptions[s].state \notin {"waitingForSender", "waitingForAccount"}
    BY <2>1, <2>4
  <2>. QED
    BY <2>2, <2>3, <2>4
<1>. HIDE DEF new
<1>4. subscriptions' \in [1..Len(subscriptions) -> Subscription]
  BY <1>1, <1>2, <1>3
<1>5. subscriptions' \in Seq(Subscription)
  BY <1>2, <1>4
<1>6. \A s \in DOMAIN subscriptions' : SubscriptionInv(subscriptions'[s])
  BY <1>1, <1>3
<1>7. BuilderOK'
  BY <1>1 DEF BuilderInv, BuilderOK
<1>. QED
  BY <1>1, <1>5, <1>6, <1>7, SubscriptionsChange DEF BuilderInv

\* The encryption is answered, or fails.
LEMMA EncryptionKeeps ==
  ASSUME BuilderInv, NEW s \in DOMAIN subscriptions, Encrypted(s) \/ EncryptionFailed(s)
  PROVE  BuilderInv'
<1>1. PICK state \in {"emitted", "failed"} :
        /\ subscriptions' = [subscriptions EXCEPT ![s].state = state]
        /\ UNCHANGED <<active, actions, message, messages, held, builds>>
  BY DEF Encrypted, EncryptionFailed
<1>. DEFINE new == [subscriptions[s] EXCEPT !.state = state]
<1>2. /\ subscriptions \in Seq(Subscription) /\ DOMAIN subscriptions = 1..Len(subscriptions)
      /\ subscriptions[s] \in Subscription /\ SubscriptionInv(subscriptions[s])
      /\ subscriptions[s].state = "encrypting"
  BY LenProperties, ElementOfSeq DEF BuilderInv, SubscriptionsOK, Encrypted, EncryptionFailed
<1>3. /\ new \in Subscription /\ new.of = subscriptions[s].of /\ new.state = state
      /\ new.intent = subscriptions[s].intent
  BY <1>2 DEF Subscription, States
<1>4. subscriptions' = [subscriptions EXCEPT ![s] = new]
  BY <1>1
<1>. HIDE DEF new
<1>5. SubscriptionInv(new)
  BY <1>2, <1>3 DEF SubscriptionInv, Sealed
<1>6. /\ subscriptions' \in Seq(Subscription) /\ Len(subscriptions') = Len(subscriptions)
      /\ \A j \in 1..Len(subscriptions) : subscriptions'[j] = IF j = s THEN new ELSE subscriptions[j]
  BY <1>2, <1>3, <1>4, ExceptSeq
<1>7. \A j \in DOMAIN subscriptions' : SubscriptionInv(subscriptions'[j])
  <2>1. DOMAIN subscriptions' = DOMAIN subscriptions
    BY <1>4
  <2>. QED
    BY <1>2, <1>5, <1>6, <2>1 DEF BuilderInv, SubscriptionsOK
<1>8. BuilderOK'
  BY <1>1 DEF BuilderInv, BuilderOK
<1>. QED
  BY <1>1, <1>6, <1>7, <1>8, SubscriptionsChange DEF BuilderInv

LEMMA NextKeeps == BuilderInv /\ [Next]_vars => BuilderInv'
<1>. SUFFICES ASSUME BuilderInv, [Next]_vars PROVE BuilderInv'
  OBVIOUS
<1>1. CASE UNCHANGED vars
  <2>1. BuilderOK'
    BY <1>1 DEF vars, BuilderInv, BuilderOK
  <2>. QED
    BY <1>1, <2>1, SubscriptionsStay DEF vars, BuilderInv
<1>. QED
  BY <1>1, AddActionKeeps, SetMessageKeeps, BuildKeeps, SubscribeKeeps, AccountKeeps,
     EncryptionKeeps DEF Next

\* The builder and its subscriptions keep the inductive invariant, whoever
\* holds a handle of the builder and changes it.
THEOREM BuilderInvariant == Spec => []BuilderInv
  BY InitEstablishes, NextKeeps, PTL DEF Spec

\* The variables of the builder and of its subscriptions keep their types, and
\* an encryption under way has an account on either side.
THEOREM TypeCorrect == Spec => []TypeOK
<1>1. BuilderInv => TypeOK
  <2>. SUFFICES ASSUME BuilderInv PROVE TypeOK
    OBVIOUS
  <2>1. ASSUME NEW s \in DOMAIN subscriptions PROVE SubscriptionOK(subscriptions[s])
    <3>1. subscriptions[s] \in Subscription /\ SubscriptionInv(subscriptions[s])
      BY LenProperties, ElementOfSeq DEF BuilderInv, SubscriptionsOK
    <3>. QED
      BY <3>1, Bounds DEF SubscriptionOK, SubscriptionInv, Sealed, Subscription, States
  <2>. QED
    BY <2>1 DEF TypeOK, BuilderInv, BuilderOK, BuildRecord
<1>. QED
  BY <1>1, BuilderInvariant, PTL

\* However long a subscription waits and however the builder is changed while
\* it does, its intent is what the builder held at one moment.
THEOREM IntentsAreOfOneMoment == Spec => []IntentOfOneMoment
<1>1. BuilderInv => IntentOfOneMoment
  BY DEF BuilderInv, SubscriptionsOK, SubscriptionInv, IntentOfOneMoment, Emitted, IntentOf
<1>. QED
  BY <1>1, BuilderInvariant, PTL

\* Whoever becomes active and when, an encrypted message is for the one account
\* that its intent names, and from the one that encrypted it.
THEOREM EncryptedForOne == Spec => []EncryptedForTheOneRecipient
<1>1. BuilderInv => EncryptedForTheOneRecipient
  BY DEF BuilderInv, SubscriptionsOK, SubscriptionInv, Sealed, EncryptedForTheOneRecipient,
         Emitted, IntentOf, BuildOf
<1>. QED
  BY <1>1, BuilderInvariant, PTL
=============================================================================
