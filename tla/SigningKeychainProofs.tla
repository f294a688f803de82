----------------------- MODULE SigningKeychainProofs -----------------------
(***************************************************************************)
(* Theorems about SigningKeychain, for every mnemonic's list of keys: any  *)
(* number of keys, devices, imported keys and derivations under way.       *)
(***************************************************************************)
EXTENDS SigningKeychain, FiniteSetTheorems, SequenceTheorems, TLAPS

(* Counting positions.                                                     *)

\* The positions of a kind among the first n keys are finitely many, so that
\* counting them, as numberOfLocalHDSigningKeys does, gives a natural number.
LEMMA PositionsFinite ==
  ASSUME NEW n \in Int, NEW kind
  PROVE  /\ IsFiniteSet(PositionsUpTo(n, kind))
         /\ Cardinality(PositionsUpTo(n, kind)) \in Nat
<1>1. IsFiniteSet(1..n)
  BY FS_Interval
<1>2. PositionsUpTo(n, kind) \in SUBSET (1..n)
  BY DEF PositionsUpTo
<1>. QED
  BY <1>1, <1>2, FS_Subset, FS_CardinalityType

\* A key of a kind has fewer keys of that kind before it than the list has.
LEMMA FewerBefore ==
  ASSUME TypeOK, NEW i \in DOMAIN all, NEW kind, all[i].kind = kind
  PROVE  Cardinality(PositionsUpTo(i - 1, kind)) < NumberOf(kind)
<1>1. i \in 1..Len(all) /\ Len(all) \in Nat
  BY LenProperties DEF TypeOK
<1>. DEFINE before == PositionsUpTo(i - 1, kind)
            upTo == PositionsUpTo(Len(all), kind)
<1>2. /\ IsFiniteSet(before) /\ Cardinality(before) \in Nat
      /\ IsFiniteSet(upTo) /\ Cardinality(upTo) \in Nat
  BY <1>1, PositionsFinite
<1>3. before \in SUBSET upTo /\ i \in upTo /\ i \notin before
  BY <1>1 DEF PositionsUpTo
<1>4. Cardinality(before) <= Cardinality(upTo) /\ Cardinality(before) # Cardinality(upTo)
  BY <1>2, <1>3, FS_Subset
<1>. QED
  BY <1>2, <1>4 DEF NumberOf

-----------------------------------------------------------------------------
(* How one step changes the list.                                          *)

\* One key nobody listed, numbered by the count of its kind.
AddsOne(key) ==
  /\ key \in Key
  /\ ~Present(all, key)
  /\ all' = Append(all, key)
  /\ key.kind = "local" => key.pathOrName[1] = NumberOf("local")
  /\ key.kind = "hardware" =>
       \E call \in HWCalls : /\ hwCall[call].state = "pending"
                             /\ key.pathOrName = hwCall[call].path

\* The local keys from the first free index up to a target.
RestoresUpTo(index) ==
  /\ index >= NumberOf("local")
  /\ all' = all \o RestoredKeys(NumberOf("local"), index)

Growth ==
  \/ all' = all
  \/ \E key \in Key : AddsOne(key)
  \/ \E index \in Nat : RestoresUpTo(index)

\* Keys made by the three constructors are keys.
LEMMA KeyTypes ==
  /\ \A index \in Nat, isHardened \in BOOLEAN : LocalKey(index, isHardened) \in Key
  /\ \A path \in Nat \X BOOLEAN, device \in Devices : HWKey(path, device) \in Key
  /\ \A name \in Names, privateKey \in PrivateKeys : NonHDKey(name, privateKey) \in Key
  BY DEF LocalKey, HWKey, NonHDKey, Key

LEMMA LocalKeyFields ==
  ASSUME NEW index \in Nat, NEW isHardened \in BOOLEAN
  PROVE  /\ LocalKey(index, isHardened).kind = "local"
         /\ LocalKey(index, isHardened).pathOrName = <<index, isHardened>>
         /\ LocalKey(index, isHardened).pathOrName[1] = index
  BY DEF LocalKey

\* Restoring makes a sequence of hardened local keys, numbered from the first.
LEMMA RestoredKeysAre ==
  ASSUME NEW first \in Nat, NEW upTo \in Nat, first <= upTo
  PROVE  /\ RestoredKeys(first, upTo) \in Seq(Key)
         /\ Len(RestoredKeys(first, upTo)) = upTo - first
         /\ \A j \in 1..(upTo - first) :
              RestoredKeys(first, upTo)[j] = LocalKey(first + j - 1, TRUE)
<1>. DEFINE new == RestoredKeys(first, upTo)
<1>1. upTo - first \in Nat
  OBVIOUS
<1>2. \A j \in 1..(upTo - first) : first + j - 1 \in Nat
  OBVIOUS
<1>3. new \in [1..(upTo - first) -> Key]
  BY <1>2, KeyTypes DEF RestoredKeys
<1>4. new \in Seq(Key)
  BY <1>1, <1>3, SeqDef
<1>5. Len(new) = upTo - first
  BY <1>1, <1>3, <1>4, LenProperties
<1>. QED
  BY <1>4, <1>5 DEF RestoredKeys

\* The local indices are below their count: the next index is free.
LEMMA LocalIndexBelowCount ==
  ASSUME TypeOK, LocalIndicesContiguous
  PROVE  \A i \in DOMAIN all :
           all[i].kind = "local" => all[i].pathOrName[1] < NumberOf("local")
  BY FewerBefore DEF LocalIndicesContiguous

\* So add() finds none of the keys a restore makes already there.
LEMMA LocalKeyAbsent ==
  ASSUME TypeOK, LocalIndicesContiguous,
         NEW index \in Nat, index >= NumberOf("local"), NEW isHardened \in BOOLEAN
  PROVE  ~Present(all, LocalKey(index, isHardened))
<1>. SUFFICES ASSUME NEW i \in DOMAIN all,
                     UniqueKey(all[i]) = UniqueKey(LocalKey(index, isHardened))
              PROVE  FALSE
  BY DEF Present
<1>1. all[i] \in Key
  BY DEF TypeOK
<1>2. all[i].kind = "local" /\ all[i].pathOrName = <<index, isHardened>>
  BY <1>1 DEF UniqueKey, LocalKey, Key
<1>3. index < NumberOf("local")
  BY <1>2, LocalIndexBelowCount
<1>4. NumberOf("local") \in Nat
  BY PositionsFinite, LenProperties DEF NumberOf, TypeOK
<1>. QED
  BY <1>3, <1>4

\* A restore concatenates: add() drops nothing.
LEMMA RestoreConcatenates ==
  ASSUME TypeOK, LocalIndicesContiguous,
         NEW index \in Nat, index >= NumberOf("local")
  PROVE  AddAll(all, RestoredKeys(NumberOf("local"), index))
           = all \o RestoredKeys(NumberOf("local"), index)
<1>. DEFINE first == NumberOf("local")
            new == RestoredKeys(first, index)
<1>1. first \in Nat /\ first <= index
  BY PositionsFinite, LenProperties DEF NumberOf, TypeOK
<1>2. new \in Seq(Key) /\ Len(new) = index - first
  BY <1>1, RestoredKeysAre
<1>3. DOMAIN new = 1..(index - first)
  BY <1>2, LenProperties
<1>4. \A j \in 1..(index - first) : new[j] = LocalKey(first + j - 1, TRUE)
  BY <1>1, RestoredKeysAre
<1>. HIDE DEF first, new
<1>5. ASSUME NEW i \in DOMAIN new
      PROVE  ~Present(all, new[i])
  <2>1. first + i - 1 \in Nat /\ first + i - 1 >= NumberOf("local")
    BY <1>1, <1>3 DEF first
  <2>2. ~Present(all, LocalKey(first + i - 1, TRUE))
    BY <2>1, LocalKeyAbsent
  <2>. QED
    BY <2>2, <1>3, <1>4
<1>6. ASSUME NEW i \in DOMAIN new, NEW j \in DOMAIN new,
             UniqueKey(new[i]) = UniqueKey(new[j])
      PROVE  i = j
  <2>. DEFINE a == first + i - 1
              b == first + j - 1
  <2>1. new[i] = LocalKey(a, TRUE) /\ new[j] = LocalKey(b, TRUE)
    BY <1>3, <1>4
  <2>. HIDE DEF a, b
  <2>2. a = b
    BY <1>6, <2>1 DEF UniqueKey, LocalKey
  <2>. QED
    BY <2>2, <1>1, <1>3 DEF a, b
<1>. QED
  BY <1>5, <1>6 DEF AddAll, new, first

\* Adding one key changes nothing or appends a key nobody listed.
LEMMA AddGrows ==
  ASSUME TypeOK, NEW key \in Key, NEW alsoSwitchTo,
         AddAndMaybeSwitchTo(key, alsoSwitchTo),
         key.kind = "local" => key.pathOrName[1] = NumberOf("local"),
         key.kind = "hardware" =>
           \E call \in HWCalls : /\ hwCall[call].state = "pending"
                                 /\ key.pathOrName = hwCall[call].path
  PROVE  Growth
  BY DEF AddAndMaybeSwitchTo, Add, Growth, AddsOne

\* What a derivation under way knows.
LEMMA PendingTypes ==
  ASSUME TypeOK, NEW call \in HWCalls, hwCall[call].state # "idle"
  PROVE  /\ hwCall[call] \in [state : {"pending", "ended"},
                              path : Nat \X BOOLEAN, alsoSwitchTo : BOOLEAN]
         /\ hwCall[call].path \in Nat \X BOOLEAN
         /\ hwCall[call].alsoSwitchTo \in BOOLEAN
  BY DEF TypeOK, HWCallState, Idle

LEMMA StepGrows ==
  ASSUME TypeOK, LocalIndicesContiguous, [Next]_vars
  PROVE  Growth
<1>0. NumberOf("local") \in Nat
  BY PositionsFinite, LenProperties DEF NumberOf, TypeOK
<1>1. CASE UNCHANGED vars
  BY <1>1 DEF vars, Growth
<1>2. ASSUME NEW isHardened \in BOOLEAN, NEW alsoSwitchTo \in BOOLEAN,
             DeriveNextLocalHDSigningKey(isHardened, alsoSwitchTo)
      PROVE  Growth
  <2>. DEFINE key == LocalKey(NumberOf("local"), isHardened)
  <2>1. key \in Key /\ key.kind = "local" /\ key.pathOrName[1] = NumberOf("local")
    BY <1>0, KeyTypes DEF LocalKey
  <2>2. AddAndMaybeSwitchTo(key, alsoSwitchTo)
    BY <1>2 DEF DeriveNextLocalHDSigningKey
  <2>. HIDE DEF key
  <2>. QED
    BY <2>1, <2>2, AddGrows
<1>3. ASSUME NEW index \in Int, RestoreLocalHDSigningKeysUpToIndex(index)
      PROVE  Growth
  <2>1. CASE all' = all
    BY <2>1 DEF Growth
  <2>2. CASE all' # all
    <3>0. index >= 0 /\ ~(index < NumberOf("local"))
      BY <1>3, <2>2 DEF RestoreLocalHDSigningKeysUpToIndex, Threw
    <3>1. index \in Nat /\ index >= NumberOf("local")
      BY <1>0, <3>0
    <3>2. all' = AddAll(all, RestoredKeys(NumberOf("local"), index))
      BY <1>3, <2>2, <3>0 DEF RestoreLocalHDSigningKeysUpToIndex, Threw
    <3>. QED
      BY <3>1, <3>2, RestoreConcatenates DEF Growth, RestoresUpTo
  <2>. QED
    BY <2>1, <2>2
<1>4. ASSUME NEW name \in Names, NEW privateKey \in PrivateKeys, NEW alsoSwitchTo \in BOOLEAN,
             AddSigningKeyFromPrivateKey(name, privateKey, alsoSwitchTo)
      PROVE  Growth
  <2>. DEFINE key == NonHDKey(name, privateKey)
  <2>1. key \in Key /\ key.kind = "nonHD"
    BY KeyTypes DEF NonHDKey
  <2>2. AddAndMaybeSwitchTo(key, alsoSwitchTo)
    BY <1>4 DEF AddSigningKeyFromPrivateKey
  <2>. HIDE DEF key
  <2>. QED
    BY <2>1, <2>2, AddGrows
<1>5. ASSUME NEW call \in HWCalls, NEW device \in Devices, HWSigningKeyMade(call, device)
      PROVE  Growth
  <2>. DEFINE key == HWKey(hwCall[call].path, device)
  <2>1. hwCall[call].state = "pending"
    BY <1>5 DEF HWSigningKeyMade
  <2>2. key \in Key /\ key.kind = "hardware" /\ key.pathOrName = hwCall[call].path
    BY <2>1, PendingTypes, KeyTypes DEF HWKey
  <2>3. AddAndMaybeSwitchTo(key, hwCall[call].alsoSwitchTo)
    BY <1>5 DEF HWSigningKeyMade
  <2>. HIDE DEF key
  <2>. QED
    BY <2>1, <2>2, <2>3, AddGrows
<1>6. ASSUME NEW call \in HWCalls,
             \/ HWSigningKeyFailed(call)
             \/ SubscribeAgain(call)
             \/ \E path, alsoSwitchTo : DeriveHWSigningKey(call, path, alsoSwitchTo)
      PROVE  Growth
  BY <1>6 DEF HWSigningKeyFailed, SubscribeAgain, DeriveHWSigningKey, Growth
<1>7. ASSUME NEW index, SwitchToIndex(index)
      PROVE  Growth
  BY <1>7 DEF SwitchToIndex, Threw, Growth
<1>8. ASSUME NEW key, SwitchToSigningKey(key)
      PROVE  Growth
  BY <1>8 DEF SwitchToSigningKey, Growth
<1>. QED
  BY <1>1, <1>2, <1>3, <1>4, <1>5, <1>6, <1>7, <1>8 DEF Next, SwitchToFirst, SwitchToLast

-----------------------------------------------------------------------------
(* The list after a step.                                                  *)

\* After an append, the old positions and the new one.
LEMMA AfterAppend ==
  ASSUME TypeOK, NEW key \in Key, all' = Append(all, key)
  PROVE  /\ all' \in Seq(Key) /\ Len(all') = Len(all) + 1
         /\ \A i \in 1..Len(all) : all'[i] = all[i]
         /\ all'[Len(all) + 1] = key
         /\ \A n \in 0..Len(all) : \A kind :
              PositionsUpTo(n, kind)' = PositionsUpTo(n, kind)
<1>1. /\ all' \in Seq(Key) /\ Len(all') = Len(all) + 1
      /\ \A i \in 1..Len(all) : all'[i] = all[i]
      /\ all'[Len(all) + 1] = key
  BY AppendProperties DEF TypeOK
<1>2. Len(all) \in Nat
  BY LenProperties DEF TypeOK
<1>3. ASSUME NEW n \in 0..Len(all), NEW kind
      PROVE  PositionsUpTo(n, kind)' = PositionsUpTo(n, kind)
  BY <1>1, <1>2 DEF PositionsUpTo
<1>. QED
  BY <1>1, <1>3

\* The same after a restore.
LEMMA AfterRestore ==
  ASSUME TypeOK, NEW index \in Nat, RestoresUpTo(index)
  PROVE  /\ all' \in Seq(Key) /\ Len(all') = Len(all) + (index - NumberOf("local"))
         /\ \A i \in 1..Len(all) : all'[i] = all[i]
         /\ \A i \in (Len(all) + 1)..Len(all') :
              all'[i] = LocalKey(NumberOf("local") + (i - Len(all)) - 1, TRUE)
         /\ \A n \in 0..Len(all) : \A kind :
              PositionsUpTo(n, kind)' = PositionsUpTo(n, kind)
<1>. DEFINE first == NumberOf("local")
            new == RestoredKeys(first, index)
<1>1. first \in Nat /\ first <= index
  BY PositionsFinite, LenProperties DEF NumberOf, TypeOK, RestoresUpTo
<1>2. /\ new \in Seq(Key) /\ Len(new) = index - first
      /\ \A j \in 1..(index - first) : new[j] = LocalKey(first + j - 1, TRUE)
  BY <1>1, RestoredKeysAre
<1>3. all' = all \o new /\ all \in Seq(Key) /\ Len(all) \in Nat
  BY LenProperties DEF TypeOK, RestoresUpTo
<1>. HIDE DEF first, new
<1>4. /\ all' \in Seq(Key) /\ Len(all') = Len(all) + (index - first)
      /\ \A i \in 1..(Len(all) + (index - first)) :
           all'[i] = IF i <= Len(all) THEN all[i] ELSE new[i - Len(all)]
  <2>1. all \in Seq(Key) /\ new \in Seq(Key) /\ all' = all \o new /\ Len(new) = index - first
    BY <1>2, <1>3
  <2>2. /\ all \o new \in Seq(Key) /\ Len(all \o new) = Len(all) + Len(new)
        /\ \A i \in 1..(Len(all) + Len(new)) :
             (all \o new)[i] = IF i <= Len(all) THEN all[i] ELSE new[i - Len(all)]
    BY <2>1, ConcatProperties, Zenon
  <2>. QED
    BY <2>1, <2>2
<1>5. \A i \in 1..Len(all) : all'[i] = all[i]
  BY <1>1, <1>3, <1>4
<1>6. ASSUME NEW i \in (Len(all) + 1)..Len(all')
      PROVE  all'[i] = LocalKey(first + (i - Len(all)) - 1, TRUE)
  <2>1. i - Len(all) \in 1..(index - first) /\ ~(i <= Len(all)) /\ i \in 1..Len(all')
    BY <1>1, <1>3, <1>4
  <2>. QED
    BY <2>1, <1>2, <1>4
<1>7. ASSUME NEW n \in 0..Len(all), NEW kind
      PROVE  PositionsUpTo(n, kind)' = PositionsUpTo(n, kind)
  BY <1>3, <1>4, <1>5 DEF PositionsUpTo
<1>. QED
  BY <1>4, <1>5, <1>6, <1>7 DEF first

\* The counts after an append.
LEMMA CountAfterAppend ==
  ASSUME TypeOK, NEW key \in Key, all' = Append(all, key), NEW kind
  PROVE  NumberOf(kind)' = IF key.kind = kind THEN NumberOf(kind) + 1 ELSE NumberOf(kind)
<1>. DEFINE old == PositionsUpTo(Len(all), kind)
            new == PositionsUpTo(Len(all), kind)'
<1>1. Len(all) \in Nat
  BY LenProperties DEF TypeOK
<1>2. /\ Len(all') = Len(all) + 1
      /\ \A i \in 1..Len(all) : all'[i] = all[i]
      /\ all'[Len(all) + 1] = key
  BY AfterAppend
<1>3. new = IF key.kind = kind THEN old \cup {Len(all) + 1} ELSE old
  BY <1>1, <1>2 DEF PositionsUpTo
<1>4. Len(all) + 1 \notin old
  BY <1>1 DEF PositionsUpTo
<1>5. IsFiniteSet(old)
  BY <1>1, PositionsFinite
<1>6. Cardinality(old \cup {Len(all) + 1}) = Cardinality(old) + 1
  BY <1>4, <1>5, FS_AddElement
<1>. QED
  BY <1>3, <1>6 DEF NumberOf

\* The local positions after a restore, up to a position it filled.
LEMMA LocalCountAfterRestore ==
  ASSUME TypeOK, NEW index \in Nat, RestoresUpTo(index),
         NEW n \in Len(all)..Len(all')
  PROVE  Cardinality(PositionsUpTo(n, "local")') = NumberOf("local") + (n - Len(all))
<1>. DEFINE old == PositionsUpTo(Len(all), "local")
            filled == (Len(all) + 1)..n
<1>1. Len(all) \in Nat /\ all' \in Seq(Key)
  BY AfterRestore, LenProperties DEF TypeOK
<1>2. Len(all') \in Nat /\ n \in Nat /\ Len(all) <= n
  BY <1>1, LenProperties
<1>3. \A i \in 1..Len(all) : all'[i] = all[i]
  BY AfterRestore
<1>4. ASSUME NEW i \in filled
      PROVE  all'[i].kind = "local"
  <2>1. i \in (Len(all) + 1)..Len(all')
    BY <1>1, <1>2
  <2>2. all'[i] = LocalKey(NumberOf("local") + (i - Len(all)) - 1, TRUE)
    BY <2>1, AfterRestore
  <2>. QED
    BY <2>2 DEF LocalKey
<1>5. PositionsUpTo(n, "local")' = old \cup filled
  BY <1>1, <1>2, <1>3, <1>4 DEF PositionsUpTo
<1>6. old \cap filled = {}
  BY <1>1, <1>2 DEF PositionsUpTo
<1>7. IsFiniteSet(old) /\ Cardinality(old) \in Nat
  BY <1>1, PositionsFinite
<1>8. IsFiniteSet(filled) /\ Cardinality(filled) = n - Len(all)
  <2>1. Len(all) + 1 \in Int /\ n \in Int
    BY <1>1, <1>2
  <2>2. /\ IsFiniteSet(filled)
        /\ Cardinality(filled) = IF Len(all) + 1 > n THEN 0 ELSE n - (Len(all) + 1) + 1
    BY <2>1, FS_Interval
  <2>. QED
    BY <2>2, <1>1, <1>2
<1>9. Cardinality(old \cup filled) = Cardinality(old) + Cardinality(filled) - Cardinality(old \cap filled)
  BY <1>7, <1>8, FS_Union
<1>10. Cardinality(old \cap filled) = 0
  BY <1>6, FS_EmptySet
<1>11. Cardinality(old \cup filled) = Cardinality(old) + (n - Len(all))
  BY <1>1, <1>2, <1>7, <1>8, <1>9, <1>10
<1>. QED
  BY <1>5, <1>11 DEF NumberOf

\* A restore brings the count to its target.
LEMMA CountAfterRestore ==
  ASSUME TypeOK, NEW index \in Nat, RestoresUpTo(index)
  PROVE  NumberOf("local")' = index
<1>. DEFINE first == NumberOf("local")
<1>1. Len(all) \in Nat /\ Len(all') \in Nat /\ Len(all') = Len(all) + (index - first)
  BY AfterRestore, LenProperties DEF TypeOK
<1>2. first \in Nat /\ first <= index
  BY <1>1, PositionsFinite DEF NumberOf, RestoresUpTo
<1>3. PICK n \in Nat : n = Len(all')
  BY <1>1
<1>4. n \in Len(all)..Len(all') /\ n - Len(all) = index - first
  BY <1>1, <1>2, <1>3
<1>5. Cardinality(PositionsUpTo(n, "local")') = first + (n - Len(all))
  BY <1>4, LocalCountAfterRestore
<1>6. NumberOf("local")' = Cardinality(PositionsUpTo(n, "local")')
  BY <1>3 DEF NumberOf, PositionsUpTo
<1>. HIDE DEF first
<1>. QED
  BY <1>2, <1>4, <1>5, <1>6

-----------------------------------------------------------------------------
(* The inductive invariant.                                                *)

\* No index below the count is missing. With contiguity it makes the local
\* keys exactly the accounts 0 up to their number.
LocalIndicesComplete ==
  \A k \in 0..(NumberOf("local") - 1) : \E i \in DOMAIN all :
    all[i].kind = "local" /\ all[i].pathOrName[1] = k

HWIndicesComplete ==
  \A k \in 0..(NumberOf("hardware") - 1) : \E i \in DOMAIN all :
    all[i].kind = "hardware" /\ all[i].pathOrName = <<k, TRUE>>

\* A derivation under way has read a count the list had by then: its path is
\* that of a listed key, or the next one.
PendingPathsBelowCount ==
  \A call \in HWCalls :
    hwCall[call].state # "idle" =>
      \E k \in 0..NumberOf("hardware") : hwCall[call].path = <<k, TRUE>>

HWInv ==
  HWPaths = {} => HWIndicesContiguous /\ HWIndicesComplete /\ PendingPathsBelowCount

KeychainInv ==
  /\ TypeOK
  /\ UniqueKeys
  /\ LocalIndicesContiguous
  /\ LocalIndicesComplete
  /\ HWInv

\* A new list is empty or holds the key of account 0.
LEMMA InitList ==
  ASSUME Init
  PROVE  \/ all = <<>>
         \/ all = <<LocalKey(0, TRUE)>>
  BY DEF Init

LEMMA InitInv == Init => KeychainInv
<1>. SUFFICES ASSUME Init PROVE KeychainInv
  OBVIOUS
<1>0. LocalKey(0, TRUE) \in Key
  BY KeyTypes
<1>1. all \in Seq(Key)
  <2>1. <<>> \in Seq(Key)
    OBVIOUS
  <2>2. \A key \in Key : <<key>> \in Seq(Key)
    OBVIOUS
  <2>. QED
    BY <1>0, <2>1, <2>2, InitList
<1>2. TypeOK
  <2>1. activeLog \in Seq(Key \cup ForeignKeys)
    BY <1>1, SeqMonotonic DEF Init
  <2>2. hwCall \in [HWCalls -> HWCallState]
    BY DEF Init, HWCallState
  <2>3. lastCall = [name |-> "create", index |-> 0, error |-> "none"]
    BY DEF Init
  <2>4. lastCall \in CallRecord
    BY <2>3 DEF CallRecord, CallNames
  <2>. QED
    BY <1>1, <2>1, <2>2, <2>4 DEF TypeOK
<1>3. CASE all = <<>>
  <2>1. Len(all) = 0 /\ DOMAIN all = {}
    BY <1>3
  <2>2. \A kind : PositionsUpTo(Len(all), kind) = {}
    BY <2>1 DEF PositionsUpTo
  <2>3. \A kind : NumberOf(kind) = 0
    BY <2>2, FS_EmptySet DEF NumberOf
  <2>4. PendingPathsBelowCount
    BY DEF Init, Idle, PendingPathsBelowCount
  <2>. QED
    BY <1>2, <2>1, <2>3, <2>4
    DEF KeychainInv, UniqueKeys, LocalIndicesContiguous, LocalIndicesComplete, HWInv,
        HWIndicesContiguous, HWIndicesComplete
<1>4. CASE all = <<LocalKey(0, TRUE)>>
  <2>0. Len(all) = 1 /\ DOMAIN all = {1} /\ all[1] = LocalKey(0, TRUE)
    BY <1>4
  <2>1. /\ Len(all) = 1 /\ DOMAIN all = {1}
        /\ all[1].kind = "local" /\ all[1].pathOrName[1] = 0
    BY <2>0, LocalKeyFields, Zenon
  <2>2. PositionsUpTo(0, "local") = {} /\ PositionsUpTo(Len(all), "local") = {1}
    BY <2>1 DEF PositionsUpTo
  <2>3. PositionsUpTo(Len(all), "hardware") = {}
    BY <2>1 DEF PositionsUpTo
  <2>4. NumberOf("hardware") = 0 /\ NumberOf("local") = 1
    BY <2>2, <2>3, FS_EmptySet, FS_Singleton DEF NumberOf
  <2>5. Cardinality(PositionsUpTo(0, "local")) = 0
    BY <2>2, FS_EmptySet
  <2>6. UniqueKeys
    BY <2>1 DEF UniqueKeys
  <2>7. LocalIndicesContiguous
    BY <2>1, <2>5 DEF LocalIndicesContiguous
  <2>8. LocalIndicesComplete
    BY <2>1, <2>4 DEF LocalIndicesComplete
  <2>9. HWInv
    <3>1. HWIndicesContiguous
      BY <2>1 DEF HWIndicesContiguous
    <3>2. 0..(NumberOf("hardware") - 1) = {}
      BY <2>4
    <3>3. PendingPathsBelowCount
      BY DEF PendingPathsBelowCount, Init, Idle
    <3>. QED
      BY <3>1, <3>2, <3>3 DEF HWInv, HWIndicesComplete
  <2>. QED
    BY <1>2, <2>6, <2>7, <2>8, <2>9 DEF KeychainInv
<1>. QED
  BY <1>3, <1>4, InitList

(* Each part after a growth of the list.                                   *)

LEMMA ListType ==
  ASSUME TypeOK, Growth
  PROVE  all' \in Seq(Key)
  BY AfterAppend, AfterRestore DEF TypeOK, Growth, AddsOne

\* No two keys share a unique key: add() looked for an appended one, and the
\* restored ones have paths the list did not reach.
LEMMA UniqueKeysStep ==
  ASSUME TypeOK, UniqueKeys, LocalIndicesContiguous, Growth
  PROVE  UniqueKeys'
<1>0. Len(all) \in Nat /\ DOMAIN all = 1..Len(all)
  BY LenProperties DEF TypeOK
<1>1. CASE all' = all
  BY <1>1 DEF UniqueKeys
<1>2. ASSUME NEW key \in Key, AddsOne(key)
      PROVE  UniqueKeys'
  <2>1. all' = Append(all, key) /\ ~Present(all, key)
    BY <1>2 DEF AddsOne
  <2>2. /\ all' \in Seq(Key) /\ Len(all') = Len(all) + 1
        /\ \A i \in 1..Len(all) : all'[i] = all[i]
        /\ all'[Len(all) + 1] = key
    BY <2>1, AfterAppend
  <2>3. DOMAIN all' = 1..(Len(all) + 1)
    BY <2>2, LenProperties
  <2>4. \A i \in 1..Len(all) : UniqueKey(all'[i]) # UniqueKey(key)
    BY <1>0, <2>1, <2>2 DEF Present
  <2>. QED
    BY <1>0, <2>2, <2>3, <2>4 DEF UniqueKeys
<1>3. ASSUME NEW index \in Nat, RestoresUpTo(index)
      PROVE  UniqueKeys'
  <2>. DEFINE first == NumberOf("local")
              restored == (Len(all) + 1)..Len(all')
  <2>1. /\ all' \in Seq(Key) /\ Len(all') = Len(all) + (index - first)
        /\ \A i \in 1..Len(all) : all'[i] = all[i]
        /\ \A i \in restored : all'[i] = LocalKey(first + (i - Len(all)) - 1, TRUE)
    BY <1>3, AfterRestore
  <2>2. first \in Nat /\ first <= index
    BY <1>3, <1>0, PositionsFinite DEF NumberOf, RestoresUpTo
  <2>3. DOMAIN all' = 1..Len(all') /\ Len(all') \in Nat
    BY <2>1, LenProperties
  <2>. HIDE DEF first
  <2>4. ASSUME NEW i \in restored, NEW j \in 1..Len(all)
        PROVE  UniqueKey(all'[i]) # UniqueKey(all'[j])
    <3>. DEFINE k == first + (i - Len(all)) - 1
    <3>1. k \in Nat /\ k >= first
      BY <1>0, <2>2, <2>3
    <3>2. ~Present(all, LocalKey(k, TRUE))
      BY <3>1, LocalKeyAbsent DEF first
    <3>. QED
      BY <3>2, <2>1, <1>0 DEF Present
  <2>5. ASSUME NEW i \in restored, NEW j \in restored, UniqueKey(all'[i]) = UniqueKey(all'[j])
        PROVE  i = j
    <3>. DEFINE a == first + (i - Len(all)) - 1
                b == first + (j - Len(all)) - 1
    <3>1. all'[i] = LocalKey(a, TRUE) /\ all'[j] = LocalKey(b, TRUE)
      BY <2>1
    <3>. HIDE DEF a, b
    <3>2. a = b
      BY <2>5, <3>1 DEF UniqueKey, LocalKey
    <3>. QED
      BY <3>2, <1>0, <2>2, <2>3 DEF a, b
  <2>6. \A i \in DOMAIN all' : i \in 1..Len(all) \/ i \in restored
    BY <1>0, <2>1, <2>2, <2>3
  <2>7. \A i, j \in 1..Len(all) : UniqueKey(all'[i]) = UniqueKey(all'[j]) => i = j
    BY <2>1, <1>0 DEF UniqueKeys
  <2>. HIDE DEF restored
  <2>8. ASSUME NEW i \in DOMAIN all', NEW j \in DOMAIN all', UniqueKey(all'[i]) = UniqueKey(all'[j])
        PROVE  i = j
    BY <2>4, <2>5, <2>6, <2>7, <2>8
  <2>. QED
    BY <2>8 DEF UniqueKeys
<1>. QED
  BY <1>1, <1>2, <1>3 DEF Growth

\* The indices of the local keys go on where they ended.
LEMMA LocalIndicesStep ==
  ASSUME TypeOK, LocalIndicesContiguous, Growth
  PROVE  LocalIndicesContiguous'
<1>0. Len(all) \in Nat /\ DOMAIN all = 1..Len(all)
  BY LenProperties DEF TypeOK
<1>1. CASE all' = all
  BY <1>1 DEF LocalIndicesContiguous, PositionsUpTo
<1>2. ASSUME NEW key \in Key, AddsOne(key)
      PROVE  LocalIndicesContiguous'
  <2>1. all' = Append(all, key)
    BY <1>2 DEF AddsOne
  <2>2. /\ all' \in Seq(Key) /\ Len(all') = Len(all) + 1
        /\ \A i \in 1..Len(all) : all'[i] = all[i]
        /\ all'[Len(all) + 1] = key
        /\ \A n \in 0..Len(all) : PositionsUpTo(n, "local")' = PositionsUpTo(n, "local")
    BY <2>1, AfterAppend
  <2>3. DOMAIN all' = 1..(Len(all) + 1)
    BY <2>2, LenProperties
  <2>4. SUFFICES ASSUME NEW i \in DOMAIN all', all'[i].kind = "local"
                 PROVE  all'[i].pathOrName[1] = Cardinality(PositionsUpTo(i - 1, "local")')
    BY DEF LocalIndicesContiguous
  <2>5. PositionsUpTo(i - 1, "local")' = PositionsUpTo(i - 1, "local")
    BY <1>0, <2>2, <2>3
  <2>6. CASE i \in 1..Len(all)
    BY <1>0, <2>2, <2>4, <2>5, <2>6 DEF LocalIndicesContiguous
  <2>7. CASE i = Len(all) + 1
    <3>1. all'[i].pathOrName[1] = NumberOf("local")
      BY <1>2, <2>2, <2>4, <2>7 DEF AddsOne
    <3>2. i - 1 = Len(all)
      BY <1>0, <2>7
    <3>. QED
      BY <3>1, <3>2, <2>5 DEF NumberOf
  <2>. QED
    BY <1>0, <2>3, <2>6, <2>7
<1>3. ASSUME NEW index \in Nat, RestoresUpTo(index)
      PROVE  LocalIndicesContiguous'
  <2>. DEFINE first == NumberOf("local")
  <2>1. /\ all' \in Seq(Key) /\ Len(all') = Len(all) + (index - first)
        /\ \A i \in 1..Len(all) : all'[i] = all[i]
        /\ \A i \in (Len(all) + 1)..Len(all') :
             all'[i] = LocalKey(first + (i - Len(all)) - 1, TRUE)
        /\ \A n \in 0..Len(all) : PositionsUpTo(n, "local")' = PositionsUpTo(n, "local")
    BY <1>3, AfterRestore
  <2>2. first \in Nat /\ first <= index
    BY <1>3, <1>0, PositionsFinite DEF NumberOf, RestoresUpTo
  <2>3. DOMAIN all' = 1..Len(all') /\ Len(all') \in Nat
    BY <2>1, LenProperties
  <2>4. SUFFICES ASSUME NEW i \in DOMAIN all', all'[i].kind = "local"
                 PROVE  all'[i].pathOrName[1] = Cardinality(PositionsUpTo(i - 1, "local")')
    BY DEF LocalIndicesContiguous
  <2>5. CASE i \in 1..Len(all)
    <3>1. PositionsUpTo(i - 1, "local")' = PositionsUpTo(i - 1, "local")
      BY <1>0, <2>1, <2>5
    <3>. QED
      BY <1>0, <2>1, <2>4, <2>5, <3>1 DEF LocalIndicesContiguous
  <2>6. CASE i \in (Len(all) + 1)..Len(all')
    <3>. DEFINE k == first + (i - Len(all)) - 1
    <3>0. all'[i] = LocalKey(k, TRUE)
      BY <2>1, <2>6
    <3>1. k \in Nat
      BY <1>0, <2>2, <2>3, <2>6
    <3>2. i - 1 \in Len(all)..Len(all')
      BY <1>0, <2>3, <2>6
    <3>3. Cardinality(PositionsUpTo(i - 1, "local")') = first + ((i - 1) - Len(all))
      BY <1>3, <3>2, LocalCountAfterRestore
    <3>4. k = first + ((i - 1) - Len(all))
      BY <1>0, <2>2, <2>3, <2>6
    <3>. HIDE DEF k
    <3>5. all'[i].pathOrName[1] = k
      BY <3>0, <3>1, LocalKeyFields
    <3>. QED
      BY <3>3, <3>4, <3>5
  <2>. QED
    BY <1>0, <2>3, <2>5, <2>6
<1>. QED
  BY <1>1, <1>2, <1>3 DEF Growth

\* No local index below the count is missing after a growth.
LEMMA LocalCompleteStep ==
  ASSUME TypeOK, LocalIndicesComplete, Growth
  PROVE  LocalIndicesComplete'
<1>0. Len(all) \in Nat /\ DOMAIN all = 1..Len(all) /\ NumberOf("local") \in Nat
  BY LenProperties, PositionsFinite DEF TypeOK, NumberOf
<1>1. CASE all' = all
  BY <1>1 DEF LocalIndicesComplete, NumberOf, PositionsUpTo
<1>2. ASSUME NEW key \in Key, AddsOne(key)
      PROVE  LocalIndicesComplete'
  <2>1. all' = Append(all, key)
    BY <1>2 DEF AddsOne
  <2>2. /\ all' \in Seq(Key) /\ Len(all') = Len(all) + 1
        /\ \A i \in 1..Len(all) : all'[i] = all[i]
        /\ all'[Len(all) + 1] = key
    BY <2>1, AfterAppend
  <2>3. DOMAIN all' = 1..(Len(all) + 1)
    BY <2>2, LenProperties
  <2>4. NumberOf("local")' = IF key.kind = "local" THEN NumberOf("local") + 1 ELSE NumberOf("local")
    BY <2>1, CountAfterAppend
  <2>5. ASSUME NEW k \in 0..(NumberOf("local")' - 1)
        PROVE  \E i \in DOMAIN all' : all'[i].kind = "local" /\ all'[i].pathOrName[1] = k
    <3>1. CASE k \in 0..(NumberOf("local") - 1)
      <4>1. PICK i \in DOMAIN all : all[i].kind = "local" /\ all[i].pathOrName[1] = k
        BY <3>1 DEF LocalIndicesComplete
      <4>2. i \in 1..Len(all) /\ i \in DOMAIN all'
        BY <1>0, <2>3
      <4>. QED
        BY <2>2, <4>1, <4>2
    <3>2. CASE key.kind = "local" /\ k = NumberOf("local")
      BY <1>0, <1>2, <2>2, <2>3, <3>2 DEF AddsOne
    <3>. QED
      BY <1>0, <2>4, <3>1, <3>2
  <2>. QED
    BY <2>5 DEF LocalIndicesComplete
<1>3. ASSUME NEW index \in Nat, RestoresUpTo(index)
      PROVE  LocalIndicesComplete'
  <2>. DEFINE first == NumberOf("local")
  <2>1. /\ all' \in Seq(Key) /\ Len(all') = Len(all) + (index - first)
        /\ \A i \in 1..Len(all) : all'[i] = all[i]
        /\ \A i \in (Len(all) + 1)..Len(all') :
             all'[i] = LocalKey(first + (i - Len(all)) - 1, TRUE)
    BY <1>3, AfterRestore
  <2>2. first \in Nat /\ first <= index
    BY <1>3, <1>0 DEF RestoresUpTo
  <2>3. DOMAIN all' = 1..Len(all') /\ Len(all') \in Nat
    BY <2>1, LenProperties
  <2>4. NumberOf("local")' = index
    BY <1>3, CountAfterRestore
  <2>5. ASSUME NEW k \in 0..(index - 1)
        PROVE  \E i \in DOMAIN all' : all'[i].kind = "local" /\ all'[i].pathOrName[1] = k
    <3>1. CASE k < first
      <4>1. k \in 0..(first - 1)
        BY <2>2, <3>1
      <4>2. PICK i \in DOMAIN all : all[i].kind = "local" /\ all[i].pathOrName[1] = k
        BY <4>1 DEF LocalIndicesComplete
      <4>3. i \in 1..Len(all) /\ i \in DOMAIN all'
        BY <1>0, <2>1, <2>2, <2>3
      <4>. QED
        BY <2>1, <4>2, <4>3
    <3>2. CASE k >= first
      <4>. DEFINE i == Len(all) + (k - first) + 1
      <4>0. k \in Nat
        OBVIOUS
      <4>1. i \in (Len(all) + 1)..Len(all') /\ i \in DOMAIN all'
        BY <1>0, <2>1, <2>2, <2>3, <3>2
      <4>2. first + (i - Len(all)) - 1 = k
        BY <1>0, <2>2
      <4>. HIDE DEF i, first
      <4>3. all'[i] = LocalKey(k, TRUE)
        BY <2>1, <4>1, <4>2
      <4>4. all'[i].kind = "local" /\ all'[i].pathOrName[1] = k
        BY <4>3, <4>0, LocalKeyFields
      <4>. QED
        BY <4>1, <4>4
    <3>. QED
      BY <2>2, <3>1, <3>2
  <2>. QED
    BY <2>4, <2>5 DEF LocalIndicesComplete
<1>. QED
  BY <1>1, <1>2, <1>3 DEF Growth

\* Without explicit paths a hardware key that add() keeps is the next one:
\* a path read from an older count is already listed, and is dropped.
LEMMA KeptHWKeyIsNext ==
  ASSUME TypeOK, HWPaths = {}, HWInv, NEW key \in Key, AddsOne(key), key.kind = "hardware"
  PROVE  key.pathOrName = <<NumberOf("hardware"), TRUE>>
<1>0. NumberOf("hardware") \in Nat
  BY LenProperties, PositionsFinite DEF TypeOK, NumberOf
<1>1. PICK call \in HWCalls : /\ hwCall[call].state = "pending"
                              /\ key.pathOrName = hwCall[call].path
  BY DEF AddsOne
<1>2. PICK k \in 0..NumberOf("hardware") : key.pathOrName = <<k, TRUE>>
  BY <1>1 DEF HWInv, PendingPathsBelowCount
<1>3. ASSUME k # NumberOf("hardware")
      PROVE  FALSE
  <2>1. k \in 0..(NumberOf("hardware") - 1)
    BY <1>0, <1>3
  <2>2. PICK i \in DOMAIN all : all[i].kind = "hardware" /\ all[i].pathOrName = <<k, TRUE>>
    BY <2>1 DEF HWInv, HWIndicesComplete
  <2>3. UniqueKey(all[i]) = UniqueKey(key)
    BY <1>2, <2>2 DEF UniqueKey
  <2>. QED
    BY <2>3 DEF AddsOne, Present
<1>. QED
  BY <1>2, <1>3

\* The hardware keys stay contiguous and complete when a key is kept.
LEMMA HWIndicesStep ==
  ASSUME TypeOK, HWPaths = {}, HWInv, Growth
  PROVE  /\ HWIndicesContiguous'
         /\ HWIndicesComplete'
         /\ NumberOf("hardware")' \in Nat /\ NumberOf("hardware")' >= NumberOf("hardware")
<1>0. /\ Len(all) \in Nat /\ DOMAIN all = 1..Len(all)
      /\ NumberOf("hardware") \in Nat
  BY LenProperties, PositionsFinite DEF TypeOK, NumberOf
<1>. DEFINE count == NumberOf("hardware")
<1>1. CASE all' = all
  <2>1. \A n : PositionsUpTo(n, "hardware")' = PositionsUpTo(n, "hardware")
    BY <1>1 DEF PositionsUpTo
  <2>2. count' = count
    BY <1>1 DEF NumberOf, PositionsUpTo
  <2>3. HWIndicesContiguous'
    BY <1>1, <2>1 DEF HWInv, HWIndicesContiguous
  <2>4. HWIndicesComplete'
    BY <1>1, <2>2 DEF HWInv, HWIndicesComplete
  <2>. QED
    BY <1>0, <2>2, <2>3, <2>4
<1>2. ASSUME NEW key \in Key, AddsOne(key)
      PROVE  HWIndicesContiguous' /\ HWIndicesComplete' /\ count' \in Nat /\ count' >= count
  <2>1. all' = Append(all, key)
    BY <1>2 DEF AddsOne
  <2>2. /\ all' \in Seq(Key) /\ Len(all') = Len(all) + 1
        /\ \A i \in 1..Len(all) : all'[i] = all[i]
        /\ all'[Len(all) + 1] = key
        /\ \A n \in 0..Len(all) : PositionsUpTo(n, "hardware")' = PositionsUpTo(n, "hardware")
    BY <2>1, AfterAppend
  <2>3. DOMAIN all' = 1..(Len(all) + 1)
    BY <2>2, LenProperties
  <2>4. count' = IF key.kind = "hardware" THEN count + 1 ELSE count
    BY <2>1, CountAfterAppend
  <2>. HIDE DEF count
  <2>5. ASSUME NEW i \in DOMAIN all', all'[i].kind = "hardware"
        PROVE  all'[i].pathOrName = <<Cardinality(PositionsUpTo(i - 1, "hardware")'), TRUE>>
    <3>0. i \in 1..Len(all) \/ i = Len(all) + 1
      BY <1>0, <2>3
    <3>1. PositionsUpTo(i - 1, "hardware")' = PositionsUpTo(i - 1, "hardware")
      BY <1>0, <2>2, <2>3
    <3>2. CASE i \in 1..Len(all)
      BY <1>0, <2>2, <2>5, <3>1, <3>2 DEF HWInv, HWIndicesContiguous
    <3>3. CASE i = Len(all) + 1
      <4>1. i - 1 = Len(all) /\ key.kind = "hardware" /\ all'[i] = key
        BY <1>0, <2>2, <2>5, <3>3
      <4>2. key.pathOrName = <<NumberOf("hardware"), TRUE>>
        BY <1>2, <4>1, KeptHWKeyIsNext
      <4>. QED
        BY <3>1, <4>1, <4>2 DEF NumberOf
    <3>. QED
      BY <3>0, <3>2, <3>3
  <2>6. ASSUME NEW k \in 0..(count' - 1)
        PROVE  \E i \in DOMAIN all' : all'[i].kind = "hardware" /\ all'[i].pathOrName = <<k, TRUE>>
    <3>0. k \in 0..(count - 1) \/ (key.kind = "hardware" /\ k = count)
      <4>1. count \in Nat
        BY <1>0 DEF count
      <4>. QED
        BY <4>1, <2>4
    <3>1. CASE k \in 0..(count - 1)
      <4>1. PICK i \in DOMAIN all : all[i].kind = "hardware" /\ all[i].pathOrName = <<k, TRUE>>
        BY <3>1 DEF HWInv, HWIndicesComplete, count
      <4>2. i \in 1..Len(all) /\ i \in DOMAIN all'
        BY <1>0, <2>3
      <4>. QED
        BY <2>2, <4>1, <4>2
    <3>2. CASE key.kind = "hardware" /\ k = count
      <4>1. key.pathOrName = <<k, TRUE>>
        BY <1>2, <3>2, KeptHWKeyIsNext DEF count
      <4>2. Len(all) + 1 \in DOMAIN all'
        BY <1>0, <2>3
      <4>. QED
        BY <2>2, <3>2, <4>1, <4>2
    <3>. QED
      BY <3>0, <3>1, <3>2
  <2>7. count' \in Nat /\ count' >= count
    <3>1. count \in Nat
      BY <1>0 DEF count
    <3>. QED
      BY <3>1, <2>4
  <2>. QED
    BY <2>5, <2>6, <2>7 DEF HWIndicesContiguous, HWIndicesComplete, count
<1>3. ASSUME NEW index \in Nat, RestoresUpTo(index)
      PROVE  HWIndicesContiguous' /\ HWIndicesComplete' /\ count' \in Nat /\ count' >= count
  <2>1. /\ all' \in Seq(Key)
        /\ Len(all') = Len(all) + (index - NumberOf("local"))
        /\ \A i \in 1..Len(all) : all'[i] = all[i]
        /\ \A n \in 0..Len(all) : PositionsUpTo(n, "hardware")' = PositionsUpTo(n, "hardware")
    BY <1>3, AfterRestore
  <2>2. NumberOf("local") \in Nat /\ NumberOf("local") <= index
    BY <1>3, <1>0, PositionsFinite DEF NumberOf, RestoresUpTo
  <2>3. DOMAIN all' = 1..Len(all') /\ Len(all') \in Nat /\ Len(all) <= Len(all')
    BY <1>0, <2>1, <2>2, LenProperties
  <2>4. ASSUME NEW i \in (Len(all) + 1)..Len(all')
        PROVE  all'[i].kind = "local"
    <3>1. all'[i] = LocalKey(NumberOf("local") + (i - Len(all)) - 1, TRUE)
      BY <1>3, AfterRestore
    <3>. QED
      BY <3>1 DEF LocalKey
  <2>5. PositionsUpTo(Len(all), "hardware")' = PositionsUpTo(Len(all), "hardware")
    BY <1>0, <2>1, <2>3, <2>4 DEF PositionsUpTo
  <2>6. count' = count
    BY <2>5 DEF NumberOf
  <2>7. \A i \in DOMAIN all' : all'[i].kind = "hardware" => i \in 1..Len(all)
    BY <1>0, <2>3, <2>4
  <2>8. HWIndicesContiguous'
    <3>. SUFFICES ASSUME NEW i \in DOMAIN all', all'[i].kind = "hardware"
                  PROVE  all'[i].pathOrName = <<Cardinality(PositionsUpTo(i - 1, "hardware")'), TRUE>>
      BY DEF HWIndicesContiguous
    <3>1. i \in 1..Len(all) /\ PositionsUpTo(i - 1, "hardware")' = PositionsUpTo(i - 1, "hardware")
      BY <1>0, <2>1, <2>7
    <3>. QED
      BY <1>0, <2>1, <3>1 DEF HWInv, HWIndicesContiguous
  <2>9. HWIndicesComplete'
    <3>. SUFFICES ASSUME NEW k \in 0..(count - 1)
                  PROVE  \E i \in DOMAIN all' : all'[i].kind = "hardware" /\ all'[i].pathOrName = <<k, TRUE>>
      BY <2>6 DEF HWIndicesComplete
    <3>1. PICK i \in DOMAIN all : all[i].kind = "hardware" /\ all[i].pathOrName = <<k, TRUE>>
      BY DEF HWInv, HWIndicesComplete
    <3>2. i \in 1..Len(all) /\ i \in DOMAIN all'
      BY <1>0, <2>3
    <3>. QED
      BY <2>1, <3>1, <3>2
  <2>. QED
    BY <1>0, <2>6, <2>8, <2>9
<1>. QED
  BY <1>1, <1>2, <1>3 DEF Growth

(* The other variables.                                                    *)

\* Activating a key keeps the active stream a sequence of keys.
LEMMA ActiveLogType ==
  ASSUME TypeOK, NEW key \in Key \cup ForeignKeys, SetActive(key) \/ UNCHANGED activeLog
  PROVE  activeLog' \in Seq(Key \cup ForeignKeys)
<1>1. activeLog \in Seq(Key \cup ForeignKeys)
  BY DEF TypeOK
<1>2. Append(activeLog, key) \in Seq(Key \cup ForeignKeys)
  BY <1>1, AppendProperties
<1>. QED
  BY <1>1, <1>2 DEF SetActive

LEMMA NextPathType ==
  ASSUME TypeOK, NEW path \in {NextHWPath} \cup HWPaths
  PROVE  path \in Nat \X BOOLEAN
<1>1. NumberOf("hardware") \in Nat
  BY LenProperties, PositionsFinite DEF TypeOK, NumberOf
<1>2. NextHWPath \in Nat \X BOOLEAN
  BY <1>1 DEF NextHWPath
<1>. QED
  BY <1>2, HWPathsAssumption

\* A derivation that starts, ends or is retried keeps its shape.
LEMMA HWCallType ==
  ASSUME TypeOK, NEW call \in HWCalls
  PROVE  /\ \A path \in Nat \X BOOLEAN, alsoSwitchTo \in BOOLEAN :
              [hwCall EXCEPT ![call] = HWDerivation("pending", path, alsoSwitchTo)]
                \in [HWCalls -> HWCallState]
         /\ hwCall[call].state # "idle" =>
              \A state \in {"pending", "ended"} :
                [hwCall EXCEPT ![call].state = state] \in [HWCalls -> HWCallState]
<1>1. ASSUME NEW path \in Nat \X BOOLEAN, NEW alsoSwitchTo \in BOOLEAN
      PROVE  HWDerivation("pending", path, alsoSwitchTo) \in HWCallState
  BY DEF HWDerivation, HWCallState
<1>2. ASSUME hwCall[call].state # "idle", NEW state \in {"pending", "ended"}
      PROVE  [hwCall[call] EXCEPT !.state = state] \in HWCallState
  BY <1>2, PendingTypes DEF HWCallState
<1>3. hwCall \in [HWCalls -> HWCallState]
  BY DEF TypeOK
<1>4. ASSUME hwCall[call].state # "idle", NEW state \in {"pending", "ended"}
      PROVE  [hwCall EXCEPT ![call].state = state] \in [HWCalls -> HWCallState]
  <2>1. [hwCall EXCEPT ![call].state = state]
          = [hwCall EXCEPT ![call] = [hwCall[call] EXCEPT !.state = state]]
    OBVIOUS
  <2>. QED
    BY <1>2, <1>3, <1>4, <2>1
<1>. QED
  BY <1>1, <1>3, <1>4

LEMMA CallTypes ==
  ASSUME NEW name, name \in CallNames, NEW index, index \in Int
  PROVE  /\ Returned(name, index) => lastCall' \in CallRecord
         /\ Threw(name, index, "No signingKeys.") => lastCall' \in CallRecord
         /\ Threw(name, index, "targetIndex must not be negative") => lastCall' \in CallRecord
<1>1. ASSUME NEW error \in {"none", "No signingKeys.", "targetIndex must not be negative"},
             lastCall' = [name |-> name, index |-> index, error |-> error]
      PROVE  lastCall' \in CallRecord
  BY <1>1 DEF CallRecord
<1>. QED
  BY <1>1 DEF Returned, Threw

LEMMA TypeStep ==
  ASSUME TypeOK, LocalIndicesContiguous, [Next]_vars
  PROVE  TypeOK'
<1>0. all' \in Seq(Key)
  BY StepGrows, ListType
<1>1. NumberOf("local") \in Nat /\ NumberOf("local") \in Int
  BY LenProperties, PositionsFinite DEF TypeOK, NumberOf
<1>2. all \in Seq(Key) /\ activeLog \in Seq(Key \cup ForeignKeys) /\ hwCall \in [HWCalls -> HWCallState]
  BY DEF TypeOK
<1>names. /\ {"deriveNext", "restore", "addPrivateKey", "deriveHW", "subscribeHW",
           "hwKeyMade", "hwKeyFailed", "switch", "switchToKey"} \subseteq CallNames
       /\ 0 \in Int
  BY DEF CallNames
<1>3. CASE UNCHANGED vars
  BY <1>3 DEF vars, TypeOK
<1>4. ASSUME NEW key \in Key, NEW alsoSwitchTo, AddAndMaybeSwitchTo(key, alsoSwitchTo)
      PROVE  activeLog' \in Seq(Key \cup ForeignKeys)
  BY <1>4, ActiveLogType DEF AddAndMaybeSwitchTo
<1>5. ASSUME NEW isHardened \in BOOLEAN, NEW alsoSwitchTo \in BOOLEAN,
             DeriveNextLocalHDSigningKey(isHardened, alsoSwitchTo)
      PROVE  TypeOK'
  <2>1. LocalKey(NumberOf("local"), isHardened) \in Key
    BY <1>1, KeyTypes
  <2>2. activeLog' \in Seq(Key \cup ForeignKeys)
    BY <1>4, <1>5, <2>1 DEF DeriveNextLocalHDSigningKey
  <2>3. lastCall' \in CallRecord
    BY <1>1, <1>5, <1>names, CallTypes, Zenon DEF DeriveNextLocalHDSigningKey
  <2>. QED
    BY <1>0, <1>2, <1>5, <2>2, <2>3 DEF TypeOK, DeriveNextLocalHDSigningKey
<1>6. ASSUME NEW index \in Int, RestoreLocalHDSigningKeysUpToIndex(index)
      PROVE  TypeOK'
  <2>1. lastCall' \in CallRecord
    BY <1>6, <1>names, CallTypes, Zenon DEF RestoreLocalHDSigningKeysUpToIndex
  <2>2. activeLog' = activeLog /\ hwCall' = hwCall
    BY <1>6 DEF RestoreLocalHDSigningKeysUpToIndex, Threw
  <2>. QED
    BY <1>0, <1>2, <2>1, <2>2 DEF TypeOK
<1>7. ASSUME NEW name \in Names, NEW privateKey \in PrivateKeys, NEW alsoSwitchTo \in BOOLEAN,
             AddSigningKeyFromPrivateKey(name, privateKey, alsoSwitchTo)
      PROVE  TypeOK'
  <2>1. activeLog' \in Seq(Key \cup ForeignKeys)
    BY <1>4, <1>7, KeyTypes DEF AddSigningKeyFromPrivateKey
  <2>2. lastCall' \in CallRecord
    BY <1>7, <1>names, CallTypes, Zenon DEF AddSigningKeyFromPrivateKey
  <2>. QED
    BY <1>0, <1>2, <1>7, <2>1, <2>2 DEF TypeOK, AddSigningKeyFromPrivateKey
<1>8. ASSUME NEW call \in HWCalls, NEW path \in {NextHWPath} \cup HWPaths, NEW alsoSwitchTo \in BOOLEAN,
             DeriveHWSigningKey(call, path, alsoSwitchTo)
      PROVE  TypeOK'
  <2>1. hwCall' \in [HWCalls -> HWCallState]
    BY <1>8, NextPathType, HWCallType DEF DeriveHWSigningKey
  <2>2. lastCall' \in CallRecord
    BY <1>8, <1>names, CallTypes, Zenon DEF DeriveHWSigningKey
  <2>. QED
    BY <1>0, <1>2, <1>8, <2>1, <2>2 DEF TypeOK, DeriveHWSigningKey
<1>9. ASSUME NEW call \in HWCalls, NEW device \in Devices, HWSigningKeyMade(call, device)
      PROVE  TypeOK'
  <2>1. hwCall[call].state = "pending"
    BY <1>9 DEF HWSigningKeyMade
  <2>2. HWKey(hwCall[call].path, device) \in Key
    BY <2>1, PendingTypes, KeyTypes
  <2>3. activeLog' \in Seq(Key \cup ForeignKeys)
    BY <1>4, <1>9, <2>2 DEF HWSigningKeyMade
  <2>4. hwCall' \in [HWCalls -> HWCallState]
    BY <1>9, <2>1, HWCallType DEF HWSigningKeyMade
  <2>5. lastCall' \in CallRecord
    BY <1>9, <1>names, CallTypes, Zenon DEF HWSigningKeyMade
  <2>. QED
    BY <1>0, <2>3, <2>4, <2>5 DEF TypeOK
<1>10. ASSUME NEW call \in HWCalls, HWSigningKeyFailed(call) \/ SubscribeAgain(call)
       PROVE  TypeOK'
  <2>1. hwCall' \in [HWCalls -> HWCallState]
    BY <1>10, HWCallType DEF HWSigningKeyFailed, SubscribeAgain
  <2>2. lastCall' \in CallRecord
    BY <1>10, <1>names, CallTypes, Zenon DEF HWSigningKeyFailed, SubscribeAgain
  <2>3. activeLog' = activeLog
    BY <1>10 DEF HWSigningKeyFailed, SubscribeAgain
  <2>. QED
    BY <1>0, <1>2, <2>1, <2>2, <2>3 DEF TypeOK
<1>11. ASSUME NEW index \in Int, SwitchToIndex(index)
       PROVE  TypeOK'
  <2>1. lastCall' \in CallRecord
    BY <1>11, <1>names, CallTypes, Zenon DEF SwitchToIndex
  <2>2. hwCall' = hwCall
    BY <1>11 DEF SwitchToIndex, Threw
  <2>3. activeLog' \in Seq(Key \cup ForeignKeys)
    <3>1. CASE activeLog' = activeLog
      BY <1>2, <3>1
    <3>2. CASE \E i \in DOMAIN all : SetActive(all[i])
      BY <1>2, <3>2, ActiveLogType
    <3>. QED
      BY <1>11, <3>1, <3>2 DEF SwitchToIndex, Threw
  <2>. QED
    BY <1>0, <1>2, <2>1, <2>2, <2>3 DEF TypeOK
<1>12. ASSUME NEW key \in KeysInHand, SwitchToSigningKey(key)
       PROVE  TypeOK'
  <2>1. key \in Key \cup ForeignKeys
    BY <1>2 DEF KeysInHand
  <2>2. activeLog' \in Seq(Key \cup ForeignKeys)
    BY <1>12, <2>1, ActiveLogType DEF SwitchToSigningKey
  <2>3. lastCall' \in CallRecord
    BY <1>12, <1>names, CallTypes, Zenon DEF SwitchToSigningKey
  <2>. QED
    BY <1>0, <1>2, <1>12, <2>2, <2>3 DEF TypeOK, SwitchToSigningKey
<1>13. SwitchToFirst \/ SwitchToLast => \E index \in Int : SwitchToIndex(index)
  BY <1>2, LenProperties DEF SwitchToFirst, SwitchToLast
<1>. QED
  BY <1>3, <1>5, <1>6, <1>7, <1>8, <1>9, <1>10, <1>11, <1>12, <1>13 DEF Next

\* A derivation keeps the path it was called with, which was the next one.
LEMMA PathsKept ==
  ASSUME TypeOK, HWPaths = {}, [Next]_vars, NEW call \in HWCalls, hwCall'[call].state # "idle"
  PROVE  \/ hwCall[call].state # "idle" /\ hwCall'[call].path = hwCall[call].path
         \/ hwCall'[call].path = NextHWPath
<1>0. hwCall \in [HWCalls -> HWCallState]
  BY DEF TypeOK
<1>1. CASE hwCall' = hwCall
  BY <1>1
<1>2. ASSUME NEW other \in HWCalls, NEW state, hwCall[other].state # "idle",
             hwCall' = [hwCall EXCEPT ![other].state = state]
      PROVE  hwCall[call].state # "idle" /\ hwCall'[call].path = hwCall[call].path
  <2>1. CASE call # other
    <3>1. hwCall'[call] = hwCall[call]
      BY <1>0, <1>2, <2>1
    <3>. QED
      BY <3>1
  <2>2. CASE call = other
    <3>1. hwCall[call].state # "idle"
      BY <1>2, <2>2
    <3>2. hwCall'[call] = [hwCall[call] EXCEPT !.state = state]
      BY <1>0, <1>2, <2>2
    <3>3. hwCall[call] \in [state : {"pending", "ended"},
                            path : Nat \X BOOLEAN, alsoSwitchTo : BOOLEAN]
      BY <3>1, PendingTypes
    <3>4. hwCall'[call].path = hwCall[call].path
      BY <3>2, <3>3
    <3>. QED
      BY <3>1, <3>4
  <2>. QED
    BY <2>1, <2>2
<1>3. ASSUME NEW other \in HWCalls, NEW alsoSwitchTo \in BOOLEAN,
             DeriveHWSigningKey(other, NextHWPath, alsoSwitchTo)
      PROVE  \/ hwCall[call].state # "idle" /\ hwCall'[call].path = hwCall[call].path
             \/ hwCall'[call].path = NextHWPath
  <2>1. hwCall' = [hwCall EXCEPT ![other] = HWDerivation("pending", NextHWPath, alsoSwitchTo)]
    BY <1>3 DEF DeriveHWSigningKey
  <2>2. CASE call = other
    <3>1. hwCall'[call] = HWDerivation("pending", NextHWPath, alsoSwitchTo)
      BY <1>0, <2>1, <2>2
    <3>. QED
      BY <3>1 DEF HWDerivation
  <2>3. CASE call # other
    <3>1. hwCall'[call] = hwCall[call]
      BY <1>0, <2>1, <2>3
    <3>. QED
      BY <3>1
  <2>. QED
    BY <2>2, <2>3
<1>4. \/ hwCall' = hwCall
      \/ \E other \in HWCalls, state \in {"pending", "ended"} :
           hwCall[other].state # "idle" /\ hwCall' = [hwCall EXCEPT ![other].state = state]
      \/ \E other \in HWCalls, alsoSwitchTo \in BOOLEAN :
           DeriveHWSigningKey(other, NextHWPath, alsoSwitchTo)
  <2>1. CASE UNCHANGED vars
    BY <2>1 DEF vars
  <2>2. CASE \E other \in HWCalls, device \in Devices : HWSigningKeyMade(other, device)
    BY <2>2 DEF HWSigningKeyMade
  <2>3. CASE \E other \in HWCalls : HWSigningKeyFailed(other) \/ SubscribeAgain(other)
    BY <2>3 DEF HWSigningKeyFailed, SubscribeAgain
  <2>4. CASE \E other \in HWCalls, path \in {NextHWPath} \cup HWPaths, alsoSwitchTo \in BOOLEAN :
               DeriveHWSigningKey(other, path, alsoSwitchTo)
    BY <2>4
  <2>5. CASE \E isHardened, alsoSwitchTo \in BOOLEAN :
               DeriveNextLocalHDSigningKey(isHardened, alsoSwitchTo)
    BY <2>5 DEF DeriveNextLocalHDSigningKey
  <2>6. CASE \E index : RestoreLocalHDSigningKeysUpToIndex(index)
    BY <2>6 DEF RestoreLocalHDSigningKeysUpToIndex, Threw
  <2>7. CASE \E name, privateKey : \E alsoSwitchTo \in BOOLEAN :
               AddSigningKeyFromPrivateKey(name, privateKey, alsoSwitchTo)
    BY <2>7 DEF AddSigningKeyFromPrivateKey
  <2>8. CASE \E index : SwitchToIndex(index)
    BY <2>8 DEF SwitchToIndex, Threw
  <2>9. CASE \E key : SwitchToSigningKey(key)
    BY <2>9 DEF SwitchToSigningKey
  <2>. QED
    BY <2>1, <2>2, <2>3, <2>4, <2>5, <2>6, <2>7, <2>8, <2>9
    DEF Next, SwitchToFirst, SwitchToLast
<1>. QED
  BY <1>1, <1>2, <1>3, <1>4

\* A path read from a count stays at or below it: counts only grow.
LEMMA PendingPathsStep ==
  ASSUME TypeOK, HWPaths = {}, HWInv, [Next]_vars, Growth
  PROVE  PendingPathsBelowCount'
<1>. DEFINE count == NumberOf("hardware")
<1>1. count' \in Nat /\ count' >= count
  BY HWIndicesStep
<1>2. count \in Nat
  BY LenProperties, PositionsFinite DEF TypeOK, NumberOf
<1>3. \A k \in 0..count : k \in 0..count'
  <2>. HIDE DEF count
  <2>. QED
    BY <1>1, <1>2
<1>. SUFFICES ASSUME NEW call \in HWCalls, hwCall'[call].state # "idle"
              PROVE  \E k \in 0..count' : hwCall'[call].path = <<k, TRUE>>
  BY DEF PendingPathsBelowCount
<1>4. CASE hwCall[call].state # "idle" /\ hwCall'[call].path = hwCall[call].path
  <2>1. PICK k \in 0..count : hwCall[call].path = <<k, TRUE>>
    BY <1>4 DEF HWInv, PendingPathsBelowCount
  <2>. QED
    BY <1>3, <1>4, <2>1
<1>5. CASE hwCall'[call].path = NextHWPath
  <2>1. count \in 0..count
    <3>. HIDE DEF count
    <3>. QED
      BY <1>2
  <2>. QED
    BY <1>3, <1>5, <2>1 DEF NextHWPath
<1>. QED
  BY <1>4, <1>5, PathsKept

-----------------------------------------------------------------------------
(* The theorems.                                                           *)

LEMMA InvStep == KeychainInv /\ [Next]_vars => KeychainInv'
<1>. SUFFICES ASSUME KeychainInv, [Next]_vars PROVE KeychainInv'
  OBVIOUS
<1>1. TypeOK /\ UniqueKeys /\ LocalIndicesContiguous /\ LocalIndicesComplete /\ HWInv
  BY DEF KeychainInv
<1>2. Growth
  BY <1>1, StepGrows
<1>3. TypeOK'
  BY <1>1, TypeStep
<1>4. UniqueKeys'
  BY <1>1, <1>2, UniqueKeysStep
<1>5. LocalIndicesContiguous' /\ LocalIndicesComplete'
  BY <1>1, <1>2, LocalIndicesStep, LocalCompleteStep
<1>6. HWInv'
  BY <1>1, <1>2, HWIndicesStep, PendingPathsStep DEF HWInv
<1>. QED
  BY <1>3, <1>4, <1>5, <1>6 DEF KeychainInv

\* The list of keys and the derivations under way keep the inductive invariant.
THEOREM KeychainInvariant == Spec => []KeychainInv
<1>1. Init => KeychainInv
  BY InitInv
<1>2. KeychainInv /\ [Next]_vars => KeychainInv'
  BY InvStep
<1>. QED
  BY <1>1, <1>2, PTL DEF Spec

\* The variables keep the types of the code's values.
THEOREM TypeCorrect == Spec => []TypeOK
<1>1. KeychainInv => TypeOK
  BY DEF KeychainInv
<1>. QED
  BY <1>1, KeychainInvariant, PTL

\* However many keys a keychain gets, from whatever operations and devices,
\* no two have one unique key.
THEOREM KeysAreUnique == Spec => []UniqueKeys
<1>1. KeychainInv => UniqueKeys
  BY DEF KeychainInv
<1>. QED
  BY <1>1, KeychainInvariant, PTL

\* The local keys are the accounts 0, 1, 2, ... in list order.
THEOREM LocalKeysAreContiguous == Spec => []LocalIndicesContiguous
<1>1. KeychainInv => LocalIndicesContiguous
  BY DEF KeychainInv
<1>. QED
  BY <1>1, KeychainInvariant, PTL

\* So are the hardware keys when no caller names a path, whatever the number
\* of derivations under way, their order of answering and their retries.
THEOREM HWKeysAreContiguous == Spec => []HWIndicesContiguous
<1>1. KeychainInv => HWIndicesContiguous
  BY DEF KeychainInv, HWInv, HWIndicesContiguous
<1>. QED
  BY <1>1, KeychainInvariant, PTL

\* Which operation a step was.
LEMMA CallNameOf ==
  /\ \A isHardened, alsoSwitchTo \in BOOLEAN :
       DeriveNextLocalHDSigningKey(isHardened, alsoSwitchTo) => lastCall'.name = "deriveNext"
  /\ \A index : RestoreLocalHDSigningKeysUpToIndex(index) =>
       lastCall'.name = "restore" /\ lastCall'.index = index
  /\ \A name, privateKey : \A alsoSwitchTo \in BOOLEAN :
       AddSigningKeyFromPrivateKey(name, privateKey, alsoSwitchTo) =>
         lastCall'.name = "addPrivateKey"
  /\ \A call, path : \A alsoSwitchTo \in BOOLEAN :
       DeriveHWSigningKey(call, path, alsoSwitchTo) => lastCall'.name = "deriveHW"
  /\ \A call, device : HWSigningKeyMade(call, device) => lastCall'.name = "hwKeyMade"
  /\ \A call : HWSigningKeyFailed(call) => lastCall'.name = "hwKeyFailed"
  /\ \A call : SubscribeAgain(call) => lastCall'.name = "subscribeHW"
  /\ \A index : SwitchToIndex(index) => lastCall'.name = "switch"
  /\ \A key : SwitchToSigningKey(key) => lastCall'.name = "switchToKey"
<1>1. \A name, index : Returned(name, index) => lastCall'.name = name /\ lastCall'.index = index
  BY DEF Returned
<1>2. \A name, index, error : Threw(name, index, error) =>
        lastCall'.name = name /\ lastCall'.index = index
  BY DEF Threw
<1>. QED
  BY <1>1, <1>2
  DEF DeriveNextLocalHDSigningKey, RestoreLocalHDSigningKeysUpToIndex, AddSigningKeyFromPrivateKey,
      DeriveHWSigningKey, HWSigningKeyMade, HWSigningKeyFailed, SubscribeAgain, SwitchToIndex,
      SwitchToSigningKey

\* Deriving the next local key always lists one more.
THEOREM NextLocalKeyIsNew == Spec => LocalDerivationAdds
<1>1. ASSUME KeychainInv, [Next]_vars, lastCall'.name = "deriveNext", vars' # vars
      PROVE  NumberOf("local")' = NumberOf("local") + 1
  <2>1. PICK isHardened \in BOOLEAN, alsoSwitchTo \in BOOLEAN :
          DeriveNextLocalHDSigningKey(isHardened, alsoSwitchTo)
    BY <1>1, CallNameOf DEF Next, SwitchToFirst, SwitchToLast
  <2>. DEFINE key == LocalKey(NumberOf("local"), isHardened)
  <2>2. TypeOK /\ LocalIndicesContiguous /\ NumberOf("local") \in Nat
    BY <1>1, LenProperties, PositionsFinite DEF KeychainInv, TypeOK, NumberOf
  <2>3. key \in Key /\ key.kind = "local"
    BY <2>2, KeyTypes, LocalKeyFields
  <2>4. ~Present(all, key)
    BY <2>2, LocalKeyAbsent
  <2>5. all' = Append(all, key)
    BY <2>1, <2>4 DEF DeriveNextLocalHDSigningKey, AddAndMaybeSwitchTo, Add
  <2>. QED
    BY <2>2, <2>3, <2>5, CountAfterAppend
<1>2. KeychainInv /\ [Next]_vars =>
        [lastCall'.name = "deriveNext" => NumberOf("local")' = NumberOf("local") + 1]_vars
  BY <1>1
<1>. QED
  BY <1>2, KeychainInvariant, PTL DEF Spec, LocalDerivationAdds

\* A listed key never moves and never leaves.
THEOREM ListIsAppendOnly == Spec => KeysAreAppendOnly
<1>1. ASSUME KeychainInv, [Next]_vars
      PROVE  IsPrefix(all, all')
  <2>1. TypeOK /\ LocalIndicesContiguous
    BY <1>1 DEF KeychainInv
  <2>2. Growth /\ all' \in Seq(Key) /\ all \in Seq(Key)
    BY <1>1, <2>1, StepGrows, ListType DEF TypeOK
  <2>3. Len(all) \in Nat /\ Len(all') \in Nat
    BY <2>2, LenProperties
  <2>4. Len(all) <= Len(all') /\ \A i \in 1..Len(all) : all'[i] = all[i]
    <3>1. CASE all' = all
      BY <2>3, <3>1
    <3>2. CASE \E key \in Key : AddsOne(key)
      BY <2>1, <2>3, <3>2, AfterAppend DEF AddsOne
    <3>3. ASSUME NEW index \in Nat, RestoresUpTo(index)
          PROVE  Len(all) <= Len(all') /\ \A i \in 1..Len(all) : all'[i] = all[i]
      <4>1. NumberOf("local") \in Nat /\ NumberOf("local") <= index
        BY <2>3, <3>3, PositionsFinite DEF NumberOf, RestoresUpTo
      <4>2. /\ Len(all') = Len(all) + (index - NumberOf("local"))
            /\ \A i \in 1..Len(all) : all'[i] = all[i]
        BY <2>1, <3>3, AfterRestore
      <4>. QED
        BY <2>3, <4>1, <4>2
    <3>. QED
      BY <2>2, <3>1, <3>2, <3>3 DEF Growth
  <2>5. SubSeq(all, 1, Len(all)) = SubSeq(all', 1, Len(all))
    <3>. DEFINE old == SubSeq(all, 1, Len(all))
                new == SubSeq(all', 1, Len(all))
    <3>1. /\ \A i \in 1..Len(all) : all[i] \in Key
          /\ \A i \in 1..Len(all) : all'[i] \in Key
      BY <2>2, <2>3, <2>4
    <3>2. /\ old \in Seq(Key) /\ Len(old) = Len(all)
          /\ \A i \in 1..Len(all) : old[i] = all[i]
      BY <2>3, <3>1, SubSeqProperties
    <3>3. /\ new \in Seq(Key) /\ Len(new) = Len(all)
          /\ \A i \in 1..Len(all) : new[i] = all'[i]
      BY <2>3, <3>1, SubSeqProperties
    <3>. HIDE DEF old, new
    <3>4. old = new
      BY <2>4, <3>2, <3>3, SeqEqual
    <3>. QED
      BY <3>4 DEF old, new
  <2>. QED
    BY <2>4, <2>5 DEF IsPrefix
<1>. QED
  BY <1>1, KeychainInvariant, PTL DEF Spec, KeysAreAppendOnly

\* The indices of the local keys are those below their count.
LocalIndicesBelowCount == LocalIndices = 0..(NumberOf("local") - 1)

LEMMA LocalIndicesAre ==
  ASSUME TypeOK, LocalIndicesContiguous, LocalIndicesComplete
  PROVE  LocalIndicesBelowCount
<1>0. DOMAIN all = 1..Len(all) /\ NumberOf("local") \in Nat /\ Len(all) \in Nat
  BY LenProperties, PositionsFinite DEF TypeOK, NumberOf
<1>1. ASSUME NEW i \in PositionsUpTo(Len(all), "local")
      PROVE  all[i].pathOrName[1] \in 0..(NumberOf("local") - 1)
  <2>1. i \in DOMAIN all /\ all[i].kind = "local"
    BY <1>0 DEF PositionsUpTo
  <2>2. all[i].pathOrName[1] = Cardinality(PositionsUpTo(i - 1, "local"))
    BY <2>1 DEF LocalIndicesContiguous
  <2>3. Cardinality(PositionsUpTo(i - 1, "local")) \in Nat
    BY <1>0, <2>1, PositionsFinite
  <2>4. Cardinality(PositionsUpTo(i - 1, "local")) < NumberOf("local")
    BY <2>1, FewerBefore
  <2>. QED
    BY <1>0, <2>2, <2>3, <2>4
<1>2. ASSUME NEW k \in 0..(NumberOf("local") - 1)
      PROVE  \E i \in PositionsUpTo(Len(all), "local") : all[i].pathOrName[1] = k
  BY <1>0 DEF LocalIndicesComplete, PositionsUpTo
<1>. QED
  BY <1>1, <1>2 DEF LocalIndices, LocalIndicesBelowCount

\* Restoring to a target leaves exactly the accounts that were there and
\* those from 0 up to but excluding the target.
THEOREM RestoreIsExact == Spec => RestoreUpToExcludingTarget
<1>1. KeychainInv => LocalIndicesBelowCount
  BY LocalIndicesAre DEF KeychainInv
<1>2. KeychainInv' => LocalIndicesBelowCount'
  BY <1>1, PTL
<1>3. ASSUME KeychainInv, KeychainInv', [Next]_vars, lastCall'.name = "restore", vars' # vars
      PROVE  LocalIndices' = LocalIndices \cup 0..(lastCall'.index - 1)
  <2>0. TypeOK /\ LocalIndicesContiguous /\ LocalIndicesComplete
    BY <1>3 DEF KeychainInv
  <2>1. PICK index \in -1..MaxKeys : RestoreLocalHDSigningKeysUpToIndex(index)
    BY <1>3, CallNameOf DEF Next, SwitchToFirst, SwitchToLast
  <2>2. index \in Int /\ NumberOf("local") \in Nat /\ Len(all) \in Nat
    BY <2>0, LenProperties, PositionsFinite DEF TypeOK, NumberOf
  <2>3. lastCall'.index = index
    BY <2>1, CallNameOf
  <2>4. LocalIndices = 0..(NumberOf("local") - 1)
    BY <2>0, LocalIndicesAre DEF LocalIndicesBelowCount
  <2>5. CASE all' = all /\ index < NumberOf("local")
    <3>1. LocalIndices' = LocalIndices
      BY <2>5 DEF LocalIndices, PositionsUpTo
    <3>. QED
      BY <2>2, <2>3, <2>4, <2>5, <3>1
  <2>6. CASE index \in Nat /\ RestoresUpTo(index)
    <3>1. LocalIndices' = 0..(NumberOf("local")' - 1)
      BY <1>3, <1>2 DEF LocalIndicesBelowCount
    <3>2. NumberOf("local")' = index
      BY <2>0, <2>6, CountAfterRestore
    <3>3. NumberOf("local") <= index
      BY <2>2, <2>6 DEF RestoresUpTo
    <3>. QED
      BY <2>2, <2>3, <2>4, <3>1, <3>2, <3>3
  <2>. QED
    <3>1. CASE all' = all /\ index < 0
      BY <2>2, <2>5, <3>1
    <3>2. CASE index >= 0 /\ index < NumberOf("local")
      <4>1. ~(index < 0)
        BY <2>2, <3>2
      <4>2. all' = all
        BY <2>1, <3>2, <4>1 DEF RestoreLocalHDSigningKeysUpToIndex
      <4>. QED
        BY <2>5, <3>2, <4>2
    <3>3. CASE index >= 0 /\ ~(index < NumberOf("local"))
      <4>1. index \in Nat /\ index >= NumberOf("local")
        BY <2>2, <3>3
      <4>2. all' = AddAll(all, RestoredKeys(NumberOf("local"), index))
        <5>1. ~(index < 0)
          BY <2>2, <3>3
        <5>. QED
          BY <2>1, <3>3, <5>1 DEF RestoreLocalHDSigningKeysUpToIndex
      <4>. QED
        BY <2>0, <2>6, <4>1, <4>2, RestoreConcatenates DEF RestoresUpTo
    <3>. QED
      BY <2>1, <2>2, <3>1, <3>2, <3>3 DEF RestoreLocalHDSigningKeysUpToIndex, Threw
<1>4. KeychainInv /\ KeychainInv' /\ [Next]_vars =>
        [lastCall'.name = "restore" =>
           LocalIndices' = LocalIndices \cup 0..(lastCall'.index - 1)]_vars
  BY <1>3
<1>. QED
  BY <1>4, KeychainInvariant, PTL DEF Spec, RestoreUpToExcludingTarget

\* A key made active is one the list knows, when callers hand in no keys of
\* their own.
LEMMA ActiveStep ==
  ASSUME TypeOK, ForeignKeys = {}, ActiveKeyIsListed, Growth, all' \in Seq(Key), [Next]_vars
  PROVE  ActiveKeyIsListed'
<1>. DEFINE Listed(keys, key) ==
       IF key.kind = "hardware" THEN Present(keys, key) ELSE \E i \in DOMAIN keys : keys[i] = key
<1>0. /\ all \in Seq(Key) /\ activeLog \in Seq(Key)
      /\ DOMAIN all = 1..Len(all) /\ DOMAIN activeLog = 1..Len(activeLog)
      /\ Len(all) \in Nat /\ Len(activeLog) \in Nat
  BY LenProperties DEF TypeOK
<1>1. \A i \in DOMAIN all : i \in DOMAIN all' /\ all'[i] = all[i]
  <2>1. CASE all' = all
    BY <2>1
  <2>2. CASE \E key \in Key : AddsOne(key)
    <3>1. PICK key \in Key : all' = Append(all, key)
      BY <2>2 DEF AddsOne
    <3>. QED
      BY <1>0, <3>1, AfterAppend, LenProperties
  <2>3. ASSUME NEW index \in Nat, RestoresUpTo(index)
        PROVE  \A i \in DOMAIN all : i \in DOMAIN all' /\ all'[i] = all[i]
    <3>1. NumberOf("local") \in Nat /\ NumberOf("local") <= index
      BY <1>0, <2>3, PositionsFinite DEF NumberOf, RestoresUpTo
    <3>2. /\ Len(all') = Len(all) + (index - NumberOf("local"))
          /\ \A i \in 1..Len(all) : all'[i] = all[i]
      BY <2>3, AfterRestore
    <3>3. DOMAIN all' = 1..Len(all')
      BY LenProperties
    <3>. QED
      BY <1>0, <3>1, <3>2, <3>3
  <2>. QED
    BY <2>1, <2>2, <2>3 DEF Growth
<1>2. \A key : Listed(all, key) => Listed(all', key)
  BY <1>1 DEF Present
<1>3. ASSUME NEW key \in Key, NEW alsoSwitchTo, AddAndMaybeSwitchTo(key, alsoSwitchTo)
      PROVE  Listed(all', key) /\ (activeLog' = activeLog \/ activeLog' = Append(activeLog, key))
  <2>1. all' = Add(all, key) /\ (activeLog' = activeLog \/ activeLog' = Append(activeLog, key))
    BY <1>3 DEF AddAndMaybeSwitchTo, SetActive
  <2>2. CASE ~Present(all, key)
    <3>1. all' = Append(all, key)
      BY <2>1, <2>2 DEF Add
    <3>2. Len(all) + 1 \in DOMAIN all' /\ all'[Len(all) + 1] = key
      BY <1>0, <3>1, AppendProperties, LenProperties
    <3>. QED
      BY <2>1, <3>2 DEF Present
  <2>3. CASE Present(all, key)
    <3>1. all' = all
      BY <2>1, <2>3 DEF Add
    <3>2. PICK i \in DOMAIN all : UniqueKey(all[i]) = UniqueKey(key)
      BY <2>3 DEF Present
    <3>3. all[i] \in Key
      BY <1>0
    <3>4. key.kind # "hardware" => all[i] = key
      BY <3>2, <3>3 DEF UniqueKey, Key
    <3>. QED
      BY <2>1, <2>3, <3>1, <3>4
  <2>. QED
    BY <2>2, <2>3
<1>. HIDE DEF Listed
<1>4. \/ activeLog' = activeLog
      \/ \E key \in Key : Listed(all', key) /\ activeLog' = Append(activeLog, key)
  <2>1. CASE UNCHANGED vars
    BY <2>1 DEF vars
  <2>2. ASSUME NEW isHardened \in BOOLEAN, NEW alsoSwitchTo \in BOOLEAN,
               DeriveNextLocalHDSigningKey(isHardened, alsoSwitchTo)
        PROVE  \/ activeLog' = activeLog
               \/ \E key \in Key : Listed(all', key) /\ activeLog' = Append(activeLog, key)
    <3>1. NumberOf("local") \in Nat
      BY <1>0, PositionsFinite DEF NumberOf
    <3>2. LocalKey(NumberOf("local"), isHardened) \in Key
      BY <3>1, KeyTypes
    <3>. QED
      BY <1>3, <2>2, <3>2 DEF DeriveNextLocalHDSigningKey
  <2>3. CASE \E index : RestoreLocalHDSigningKeysUpToIndex(index)
    BY <2>3 DEF RestoreLocalHDSigningKeysUpToIndex, Threw
  <2>4. CASE \E name \in Names, privateKey \in PrivateKeys, alsoSwitchTo \in BOOLEAN :
               AddSigningKeyFromPrivateKey(name, privateKey, alsoSwitchTo)
    BY <1>3, <2>4, KeyTypes DEF AddSigningKeyFromPrivateKey
  <2>5. CASE \E call : \/ \E path : \E alsoSwitchTo \in BOOLEAN :
                            DeriveHWSigningKey(call, path, alsoSwitchTo)
                       \/ HWSigningKeyFailed(call)
                       \/ SubscribeAgain(call)
    BY <2>5 DEF DeriveHWSigningKey, HWSigningKeyFailed, SubscribeAgain
  <2>6. ASSUME NEW call \in HWCalls, NEW device \in Devices, HWSigningKeyMade(call, device)
        PROVE  \/ activeLog' = activeLog
               \/ \E key \in Key : Listed(all', key) /\ activeLog' = Append(activeLog, key)
    <3>1. hwCall[call].state = "pending"
      BY <2>6 DEF HWSigningKeyMade
    <3>2. HWKey(hwCall[call].path, device) \in Key
      BY <3>1, PendingTypes, KeyTypes
    <3>. QED
      BY <1>3, <2>6, <3>2 DEF HWSigningKeyMade
  <2>7. ASSUME NEW i \in DOMAIN all, SetActive(all[i]), all' = all
        PROVE  \E key \in Key : Listed(all', key) /\ activeLog' = Append(activeLog, key)
    <3>1. all[i] \in Key
      BY <1>0
    <3>2. Listed(all', all[i])
      BY <2>7 DEF Listed, Present
    <3>. QED
      BY <2>7, <3>1, <3>2 DEF SetActive
  <2>8. CASE \E index : SwitchToIndex(index)
    BY <2>7, <2>8 DEF SwitchToIndex, Threw
  <2>9. CASE \E key \in KeysInHand : SwitchToSigningKey(key)
    BY <2>7, <2>9 DEF SwitchToSigningKey, KeysInHand
  <2>. QED
    BY <2>1, <2>2, <2>3, <2>4, <2>5, <2>6, <2>8, <2>9 DEF Next, SwitchToFirst, SwitchToLast
<1>5. \A n \in DOMAIN activeLog : Listed(all', activeLog[n])
  BY <1>2 DEF ActiveKeyIsListed, Listed
<1>6. \A n \in DOMAIN activeLog' : Listed(all', activeLog'[n])
  <2>1. CASE activeLog' = activeLog
    BY <1>5, <2>1
  <2>2. ASSUME NEW key \in Key, Listed(all', key), activeLog' = Append(activeLog, key)
        PROVE  \A n \in DOMAIN activeLog' : Listed(all', activeLog'[n])
    <3>1. /\ activeLog' \in Seq(Key) /\ Len(activeLog') = Len(activeLog) + 1
          /\ \A n \in 1..Len(activeLog) : activeLog'[n] = activeLog[n]
          /\ activeLog'[Len(activeLog) + 1] = key
      BY <1>0, <2>2, AppendProperties
    <3>2. DOMAIN activeLog' = 1..(Len(activeLog) + 1)
      BY <3>1, LenProperties
    <3>3. ASSUME NEW n \in DOMAIN activeLog'
          PROVE  Listed(all', activeLog'[n])
      <4>1. n \in DOMAIN activeLog \/ n = Len(activeLog) + 1
        BY <1>0, <3>2
      <4>2. CASE n \in DOMAIN activeLog
        BY <1>0, <1>5, <3>1, <4>2
      <4>3. CASE n = Len(activeLog) + 1
        BY <2>2, <3>1, <4>3
      <4>. QED
        BY <4>1, <4>2, <4>3
    <3>. QED
      BY <3>3
  <2>. QED
    BY <1>4, <2>1, <2>2
<1>. QED
  BY <1>6 DEF ActiveKeyIsListed, Listed

\* Whatever the order of derivations, imports, restores, switches and late
\* device answers, every key that was active is among the keys.
THEOREM ActiveKeysAreListed == Spec => []ActiveKeyIsListed
<1>1. Init => ActiveKeyIsListed
  BY DEF Init, ActiveKeyIsListed, Present
<1>2. KeychainInv /\ ActiveKeyIsListed /\ [Next]_vars => ActiveKeyIsListed'
  <2>. SUFFICES ASSUME KeychainInv, ActiveKeyIsListed, [Next]_vars, ForeignKeys = {}
                PROVE  ActiveKeyIsListed'
    BY DEF ActiveKeyIsListed
  <2>1. TypeOK /\ LocalIndicesContiguous
    BY DEF KeychainInv
  <2>2. Growth /\ all' \in Seq(Key)
    BY <2>1, StepGrows, ListType
  <2>. QED
    BY <2>1, <2>2, ActiveStep
<1>. QED
  BY <1>1, <1>2, KeychainInvariant, PTL DEF Spec
=============================================================================
