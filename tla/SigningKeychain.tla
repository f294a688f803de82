--------------------------- MODULE SigningKeychain ---------------------------
(***************************************************************************)
(* The signing keychain of packages/account (signingKeychain.ts): the list *)
(* of signing keys of one mnemonic, the stream of active keys, and the     *)
(* operations that grow the list or move the active key.                   *)
(*                                                                         *)
(* Every operation but one is a synchronous handler and is one action.     *)
(* The derivation of a hardware key picks its path when it is called and   *)
(* adds its key when the device has answered: two actions, between which   *)
(* every other operation may run.                                          *)
(***************************************************************************)
EXTENDS Integers, Sequences, FiniteSets, SequencesExt

CONSTANTS
  Devices,      \* hardware wallets that may answer a derivation
  PrivateKeys,  \* private keys the user may import
  Names,        \* names given to imported keys, "" for none
  HWCalls,      \* identities of the hardware derivations under way
  HWPaths,      \* explicit paths <<index, isHardened>> asked of a device
  ForeignKeys,  \* keys held by the caller that no keychain operation made
  MaxKeys,      \* bound: length of the key list
  MaxSwitches   \* bound: length of the active key stream

ASSUME BoundsAssumption ==
  /\ MaxKeys \in Nat \ {0}
  /\ MaxSwitches \in Nat \ {0}

ASSUME HWPathsAssumption == HWPaths \subseteq Nat \X BOOLEAN

VARIABLES
  all,        \* the mutable array behind signingKeysSubject
  activeLog,  \* what activeSigningKeySubject has emitted, and replays
  hwCall,     \* hardware derivations that wait for their device
  lastCall    \* the last operation that returned: name, index, error

vars == <<all, activeLog, hwCall, lastCall>>

-----------------------------------------------------------------------------
(* Signing keys. A hierarchical key has a path, an imported key a name.    *)

LocalKey(index, isHardened) ==
  [kind |-> "local", pathOrName |-> <<index, isHardened>>, owner |-> "mnemonic"]

HWKey(path, device) ==
  [kind |-> "hardware", pathOrName |-> path, owner |-> device]

NonHDKey(name, privateKey) ==
  [kind |-> "nonHD", pathOrName |-> <<name>>, owner |-> privateKey]

\* What the list deduplicates by. It names the path of a hierarchical key
\* and neither the device nor the seed the key comes from.
UniqueKey(key) ==
  IF key.kind = "nonHD" THEN <<key.kind, key.pathOrName, key.owner>>
                        ELSE <<key.kind, key.pathOrName>>

\* A hardware derivation: not called, waiting for its device, or ended. The
\* observable the call returned keeps the path it was called with.
Idle == [state |-> "idle"]

HWDerivation(state, path, alsoSwitchTo) ==
  [state |-> state, path |-> path, alsoSwitchTo |-> alsoSwitchTo]

Present(keys, key) ==
  \E i \in DOMAIN keys : UniqueKey(keys[i]) = UniqueKey(key)

\* Slips: adding without looking, and adding in front.
AddUnchecked(keys, key) == Append(keys, key)
AddInFront(keys, key) == IF Present(keys, key) THEN keys ELSE <<key>> \o keys

Add(keys, key) == IF Present(keys, key) THEN keys ELSE Append(keys, key)

\* Keys added one after the other. When none of them is present and no two
\* share a unique key, that is a concatenation.
AddAll(keys, new) ==
  IF \A i \in DOMAIN new :
       /\ ~Present(keys, new[i])
       /\ \A j \in DOMAIN new : UniqueKey(new[i]) = UniqueKey(new[j]) => i = j
  THEN keys \o new
  ELSE FoldLeft(Add, keys, new)

\* Positions of the first n keys of the list that have this kind.
PositionsUpTo(n, kind) == {i \in 1..n : all[i].kind = kind}

\* Slips: the index of the last key for the number of keys, and the keys of
\* every kind.
LastOf(kind) == Cardinality(PositionsUpTo(Len(all), kind)) - 1
NumberOfAny(kind) == Len(all)

NumberOf(kind) == Cardinality(PositionsUpTo(Len(all), kind))

-----------------------------------------------------------------------------
Returned(name, index) == lastCall' = [name |-> name, index |-> index, error |-> "none"]

Threw(name, index, error) ==
  /\ lastCall' = [name |-> name, index |-> index, error |-> error]
  /\ UNCHANGED <<all, activeLog, hwCall>>

SetActive(key) ==
  /\ Len(activeLog) < MaxSwitches
  /\ activeLog' = Append(activeLog, key)

\* A slip: switching to a key instead of adding it.
AddOrSwitchTo(key, alsoSwitchTo) ==
  /\ Len(all) < MaxKeys
  /\ IF alsoSwitchTo THEN SetActive(key) /\ UNCHANGED all
                     ELSE all' = Add(all, key) /\ UNCHANGED activeLog

AddAndMaybeSwitchTo(key, alsoSwitchTo) ==
  /\ Len(all) < MaxKeys
  /\ all' = Add(all, key)
  /\ IF alsoSwitchTo THEN SetActive(key) ELSE UNCHANGED activeLog

\* A slip: the index of the last local key for the next one.
DeriveLastLocalHDSigningKey(isHardened, alsoSwitchTo) ==
  /\ AddAndMaybeSwitchTo(LocalKey(NumberOf("local") - 1, isHardened), alsoSwitchTo)
  /\ Returned("deriveNext", NumberOf("local"))
  /\ UNCHANGED hwCall

DeriveNextLocalHDSigningKey(isHardened, alsoSwitchTo) ==
  /\ AddAndMaybeSwitchTo(LocalKey(NumberOf("local"), isHardened), alsoSwitchTo)
  /\ Returned("deriveNext", NumberOf("local"))
  /\ UNCHANGED hwCall

\* A slip: the target itself is restored too.
RestoredKeysIncluding(first, upTo) ==
  [j \in 1..(upTo - first + 1) |-> LocalKey(first + j - 1, TRUE)]

RestoredKeys(first, upTo) ==
  [j \in 1..(upTo - first) |-> LocalKey(first + j - 1, TRUE)]

RestoreLocalHDSigningKeysUpToIndex(index) ==
  \/ /\ index < 0
     /\ Threw("restore", index, "targetIndex must not be negative")
  \/ /\ index >= 0
     /\ IF index < NumberOf("local")
        THEN UNCHANGED all
        ELSE /\ Len(all) + index - NumberOf("local") <= MaxKeys
             /\ all' = AddAll(all, RestoredKeys(NumberOf("local"), index))
     /\ Returned("restore", index)
     /\ UNCHANGED <<activeLog, hwCall>>

AddSigningKeyFromPrivateKey(name, privateKey, alsoSwitchTo) ==
  /\ AddAndMaybeSwitchTo(NonHDKey(name, privateKey), alsoSwitchTo)
  /\ Returned("addPrivateKey", 0)
  /\ UNCHANGED hwCall

\* A slip: derivations under way are counted with the keys.
NextHWPathWithPending ==
  <<NumberOf("hardware") + Cardinality({call \in HWCalls : hwCall[call].state = "pending"}), TRUE>>

\* The path of 'next' counts the hardware keys already in the list, not the
\* derivations under way.
NextHWPath == <<NumberOf("hardware"), TRUE>>

DeriveHWSigningKey(call, path, alsoSwitchTo) ==
  /\ hwCall[call].state # "pending"
  /\ hwCall' = [hwCall EXCEPT ![call] = HWDerivation("pending", path, alsoSwitchTo)]
  /\ Returned("deriveHW", 0)
  /\ UNCHANGED <<all, activeLog>>

\* The caller subscribes once more to an observable that ended, to retry:
\* the device is asked again, for the path of the call.
SubscribeAgain(call) ==
  /\ hwCall[call].state = "ended"
  /\ hwCall' = [hwCall EXCEPT ![call].state = "pending"]
  /\ Returned("subscribeHW", 0)
  /\ UNCHANGED <<all, activeLog>>

\* The device the connection emitted has made the key: it is added now.
HWSigningKeyMade(call, device) ==
  /\ hwCall[call].state = "pending"
  /\ AddAndMaybeSwitchTo(HWKey(hwCall[call].path, device), hwCall[call].alsoSwitchTo)
  /\ hwCall' = [hwCall EXCEPT ![call].state = "ended"]
  /\ Returned("hwKeyMade", 0)

\* The connection, the device or its user refused: the observable errors.
HWSigningKeyFailed(call) ==
  /\ hwCall[call].state = "pending"
  /\ hwCall' = [hwCall EXCEPT ![call].state = "ended"]
  /\ Returned("hwKeyFailed", 0)
  /\ UNCHANGED <<all, activeLog>>

SwitchToIndex(index) ==
  LET safeTargetIndex == IF index < Len(all) THEN index ELSE Len(all)
  IN  IF safeTargetIndex + 1 \in DOMAIN all
      THEN /\ SetActive(all[safeTargetIndex + 1])
           /\ Returned("switch", index)
           /\ UNCHANGED <<all, hwCall>>
      ELSE Threw("switch", index, "No signingKeys.")

SwitchToFirst == SwitchToIndex(0)

SwitchToLast == SwitchToIndex(Len(all) - 1)

SwitchToSigningKey(key) ==
  /\ SetActive(key)
  /\ Returned("switchToKey", 0)
  /\ UNCHANGED <<all, hwCall>>

-----------------------------------------------------------------------------
\* startWithInitialSigningKey: the first local key is derived and activated
\* while the keychain is created.
Init ==
  /\ \E startWithInitialSigningKey \in BOOLEAN :
       all = IF startWithInitialSigningKey THEN <<LocalKey(0, TRUE)>> ELSE <<>>
  /\ activeLog = all
  /\ hwCall = [call \in HWCalls |-> Idle]
  /\ lastCall = [name |-> "create", index |-> 0, error |-> "none"]

KeysInHand == {all[i] : i \in DOMAIN all} \cup ForeignKeys

Next ==
  \/ \E isHardened, alsoSwitchTo \in BOOLEAN :
       DeriveNextLocalHDSigningKey(isHardened, alsoSwitchTo)
  \/ \E index \in -1..MaxKeys : RestoreLocalHDSigningKeysUpToIndex(index)
  \/ \E name \in Names, privateKey \in PrivateKeys, alsoSwitchTo \in BOOLEAN :
       AddSigningKeyFromPrivateKey(name, privateKey, alsoSwitchTo)
  \/ \E call \in HWCalls, path \in {NextHWPath} \cup HWPaths, alsoSwitchTo \in BOOLEAN :
       DeriveHWSigningKey(call, path, alsoSwitchTo)
  \/ \E call \in HWCalls, device \in Devices : HWSigningKeyMade(call, device)
  \/ \E call \in HWCalls : HWSigningKeyFailed(call)
  \/ \E call \in HWCalls : SubscribeAgain(call)
  \/ \E index \in -1..MaxKeys : SwitchToIndex(index)
  \/ SwitchToFirst
  \/ SwitchToLast
  \/ \E key \in KeysInHand : SwitchToSigningKey(key)

Spec == Init /\ [][Next]_vars

-----------------------------------------------------------------------------
(* Properties.                                                             *)

Key ==
  [kind : {"local"}, pathOrName : Nat \X BOOLEAN, owner : {"mnemonic"}]
    \cup [kind : {"hardware"}, pathOrName : Nat \X BOOLEAN, owner : Devices]
    \cup [kind : {"nonHD"}, pathOrName : {<<name>> : name \in Names}, owner : PrivateKeys]

HWCallState ==
  {Idle}
    \cup [state : {"pending", "ended"}, path : Nat \X BOOLEAN, alsoSwitchTo : BOOLEAN]

CallNames ==
  {"create", "deriveNext", "restore", "addPrivateKey", "deriveHW", "subscribeHW",
   "hwKeyMade", "hwKeyFailed", "switch", "switchToKey"}

CallRecord ==
  [name : CallNames,
   index : Int,
   error : {"none", "No signingKeys.", "targetIndex must not be negative"}]

\* The variables stay within the values the code can give them.
TypeOK ==
  /\ all \in Seq(Key)
  /\ activeLog \in Seq(Key \cup ForeignKeys)
  /\ hwCall \in [HWCalls -> HWCallState]
  /\ lastCall \in CallRecord

\* add() keeps the list free of two keys with one unique key, whatever the
\* order in which derivations, imports and late device answers reach it.
UniqueKeys ==
  \A i, j \in DOMAIN all : UniqueKey(all[i]) = UniqueKey(all[j]) => i = j

\* The local keys, in list order, have the address indices 0, 1, 2, ...: the
\* keychain never skips or repeats an index, so restoring from the mnemonic
\* finds every key again (deriveNextLocalHDSigningKey counts keys to find
\* its index; restoreLocalHDSigningKeysUpToIndex continues from there).
LocalIndicesContiguous ==
  \A i \in DOMAIN all :
    all[i].kind = "local" =>
      all[i].pathOrName[1] = Cardinality(PositionsUpTo(i - 1, "local"))

\* Without explicit paths the hardware keys are m/.../0', 1', 2', ... in list
\* order too, although several 'next' derivations may have read the same
\* count before the first of their devices answered.
HWIndicesContiguous ==
  HWPaths = {} =>
    \A i \in DOMAIN all :
      all[i].kind = "hardware" =>
        all[i].pathOrName = <<Cardinality(PositionsUpTo(i - 1, "hardware")), TRUE>>

\* A key becomes active only if the list knows its unique key: switching,
\* and deriving with alsoSwitchTo, never leave an active key that a caller
\* cannot find among the keys. A local or imported key is found itself; of
\* hardware keys at one path the list keeps the first device's only.
ActiveKeyIsListed ==
  ForeignKeys = {} =>
    \A n \in DOMAIN activeLog :
      IF activeLog[n].kind = "hardware" THEN Present(all, activeLog[n])
      ELSE \E i \in DOMAIN all : all[i] = activeLog[n]

\* Asking for the next local key always makes a new one: the key it derives
\* is never taken for a duplicate and dropped by add().
LocalDerivationAdds ==
  [][lastCall'.name = "deriveNext" => NumberOf("local")' = NumberOf("local") + 1]_vars

LocalIndices == {all[i].pathOrName[1] : i \in PositionsUpTo(Len(all), "local")}

\* Restoring to a target leaves the accounts 0 up to but excluding it, next
\* to those that were there, and makes no other.
RestoreUpToExcludingTarget ==
  [][lastCall'.name = "restore" =>
       LocalIndices' = LocalIndices \cup 0..(lastCall'.index - 1)]_vars

\* Positions are stable: a key once listed keeps the index callers switch by.
KeysAreAppendOnly == [][IsPrefix(all, all')]_vars

\* switchSigningKey says "No signingKeys." of a keychain without keys only.
NoSigningKeysOnlyWhenEmpty ==
  lastCall.error = "No signingKeys." /\ lastCall.index >= 0 => all = <<>>
=============================================================================
