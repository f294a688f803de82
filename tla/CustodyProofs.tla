--------------------------- MODULE CustodyProofs ---------------------------
(***************************************************************************)
(* Theorems about Custody, for any entropy, passwords, paths, names and    *)
(* messages, any number of calls and terminations.                         *)
(***************************************************************************)
EXTENDS Custody, FiniteSetTheorems, SequenceTheorems, TLAPS

AtMostOne(set) == \A one, other \in set : one = other

-----------------------------------------------------------------------------
(* The invariant of the vault.                                             *)

BoxType ==
  [nonce : Nat, tag : Nat, key : Passwords \X Nat, additional : {NoAdditionalData},
   text : Entropies, length : {entropy.length : entropy \in Entropies}, whole : BOOLEAN]

KeystoreType ==
  [kdf : {"scrypt", "pbkdf2"}, salt : Nat, missing : {"nothing", "crypto", "mac"}, box : BoxType]

CallType ==
  [kind : {"create", "open"},
   stage : {"saving", "loading", "decrypting", "done", "failed", "rejected", "lost"},
   mnemonic : SUBSET MnemonicType, password : Passwords, saved : BOOLEAN,
   keychain : SUBSET MnemonicType, keystore : SUBSET KeystoreType]

\* Only what was saved is decrypted, by the call that creates it; one keychain
\* is handed out, at the end.
CallOK(call) ==
  /\ call.stage = "saving" => call.kind = "create"
  /\ call.stage = "loading" => call.kind = "open"
  /\ call.kind = "create" /\ call.stage \in {"decrypting", "done"} => call.saved
  /\ (call.stage = "done") = (call.keychain # NoKeychain)
  /\ AtMostOne(call.keychain)

VaultInv ==
  /\ calls \in Seq(CallType) /\ Len(calls) <= MaxCalls
  /\ \A c \in DOMAIN calls : CallOK(calls[c])
  /\ disk \subseteq KeystoreType
  /\ wallet \in {0} \cup Running("done")
  /\ crashes \in 0..MaxCrashes

-----------------------------------------------------------------------------
(* The invariant of what is done with the wallet.                          *)

\* A path that can be read from what it is written as, and is as it was.
GoodPath(path) ==
  /\ RadixPathIsRead(PathToString(path))
  /\ BIP32FromString(PathToString(path)) = path
  /\ Children(path) \in Seq(Int)

IsOf(mine) ==
  GoodPath(mine.path) /\ mine.key = KeyAt(mine.mnemonic, mine.path) /\ mine.key \in Keys

AccountInv ==
  /\ \A mine \in account : mine.mnemonic \in Keychain /\ IsOf(mine)
  /\ AtMostOne(account)

IdentifierOK(published) ==
  /\ published.text = published.identifier.text
  /\ \E network \in Networks :
       \/ /\ published.kind \in {"account", "validator"}
          /\ published.identifier = ByBech32ConvertingIt(published.kind, published.key, network)
       \/ /\ published.kind = "rri"
          /\ \E name \in Names :
               published.identifier \in ResourceIdentifiers(published.key, name, network)

CardInv ==
  /\ \A published \in card : IsOf(published) /\ IdentifierOK(published)
  /\ AtMostOne(card)

\* What was sealed, or what became of it.
MessageOK(sealed, sender, recipient) ==
  \/ ~sealed.damaged /\ sealed.message = Plaintext(sealed.text)
  \/ \E message \in Encrypt(sender, recipient, Ephemeral, sealed.text) :
       \/ ~sealed.damaged /\ sealed.message = message
       \/ sealed.damaged /\ sealed.message \in DamagedMessages(message)

SealedOK(sealed) ==
  /\ sealed \in [message : {sealed.message}, text : {sealed.text}, damaged : BOOLEAN,
                 parties : {sealed.parties}, named : {sealed.named}]
  /\ \E sender, recipient \in sealed.parties :
       /\ sealed.parties = {sender, recipient}
       /\ sealed.parties \subseteq sealed.named
       /\ sealed.named \subseteq {sender, recipient, Stranger}
       /\ MessageOK(sealed, sender, recipient)

MailInv ==
  /\ \A sealed \in mail : SealedOK(sealed)
  /\ mail # {} => \E published \in card : published.kind = "account"
  /\ AtMostOne(mail)

\* What was read is what the message is now read as.
ReadingInv ==
  /\ \A read \in reading, sealed \in mail :
       read.got = DecryptTransaction(read.by, sealed.named, sealed.message)
  /\ reading # {} => mail # {}
  /\ AtMostOne(reading)

CustodyInv == VaultInv /\ AccountInv /\ CardInv /\ MailInv /\ ReadingInv

-----------------------------------------------------------------------------
(* Lemmas.                                                                 *)

LEMMA AtMostOneIsFew ==
  ASSUME NEW set, AtMostOne(set)
  PROVE  Cardinality(set) <= 1
<1>1. CASE set = {}
  BY <1>1, FS_EmptySet
<1>2. CASE set # {}
  <2>1. PICK one : set = {one}
    BY <1>2 DEF AtMostOne
  <2>2. Cardinality({one}) = 1
    BY FS_Singleton
  <2> QED
    BY <2>1, <2>2
<1> QED
  BY <1>1, <1>2

\* A sequence one of whose elements is another.
LEMMA ElementReplaced ==
  ASSUME NEW S, NEW seq \in Seq(S), NEW i \in DOMAIN seq, NEW new \in S
  PROVE  /\ [seq EXCEPT ![i] = new] \in Seq(S)
         /\ Len([seq EXCEPT ![i] = new]) = Len(seq)
         /\ DOMAIN [seq EXCEPT ![i] = new] = DOMAIN seq
         /\ [seq EXCEPT ![i] = new][i] = new
         /\ \A j \in DOMAIN seq : j # i => [seq EXCEPT ![i] = new][j] = seq[j]
  OBVIOUS

\* The mnemonics of entropy are one or none.
LEMMA MnemonicsOfEntropy ==
  ASSUME NEW entropy \in Entropies, NEW language \in Languages \cup {DefaultLanguage}
  PROVE  /\ MnemonicsFromEntropy(entropy, language) \subseteq MnemonicType
         /\ AtMostOne(MnemonicsFromEntropy(entropy, language))
         /\ \A mnemonic \in MnemonicsFromEntropy(entropy, language) :
              mnemonic = Mnemonic(entropy, language)
  BY DEF MnemonicsFromEntropy, Mnemonic, MnemonicType, AtMostOne

\* Those that a keystore is made of: new ones, and phrases that are typed in.
LEMMA MnemonicsTyped ==
  ASSUME NEW mnemonic \in Mnemonics
  PROVE  /\ mnemonic \in MnemonicType
         /\ \E language \in Languages : mnemonic = Mnemonic(mnemonic.entropy, language)
<1>1. CASE \E entropy \in Entropies, language \in Languages :
             mnemonic \in MnemonicsFromEntropy(entropy, language)
  BY <1>1, MnemonicsOfEntropy DEF Mnemonic
<1>2. CASE \E entropy \in Entropies, spoken, language \in Languages, checksum \in BOOLEAN :
             mnemonic \in MnemonicsFromPhrase([entropy |-> entropy, language |-> spoken,
                                               checksum |-> checksum], language)
  BY <1>2, MnemonicsOfEntropy DEF MnemonicsFromPhrase, Mnemonic
<1> DEFINE new   == {MnemonicsFromEntropy(entropy, language)
                      : entropy \in Entropies, language \in Languages}
           typed == {MnemonicsFromPhrase([entropy |-> entropy, language |-> spoken,
                                          checksum |-> checksum], language)
                      : entropy \in Entropies, spoken \in Languages, language \in Languages,
                        checksum \in BOOLEAN}
<1>3. PICK made \in new \cup typed : mnemonic \in made
  <2>1. Mnemonics = UNION (new \cup typed)
    BY DEF Mnemonics
  <2> HIDE DEF new, typed
  <2> QED
    BY <2>1
<1>4. CASE made \in new
  BY <1>1, <1>3, <1>4
<1>5. CASE made \in typed
  BY <1>2, <1>3, <1>5
<1> QED
  BY <1>3, <1>4, <1>5

\* The keystore of a mnemonic.
LEMMA SecretEncrypted ==
  ASSUME NEW call \in Nat, NEW mnemonic \in MnemonicType, NEW password \in Passwords
  PROVE  /\ EncryptSecret(call, mnemonic, password) \subseteq KeystoreType
         /\ \A keystore \in EncryptSecret(call, mnemonic, password) :
              /\ keystore.box.key = <<password, call>>
              /\ keystore.box.text = mnemonic.entropy
<1> DEFINE box == Box(<<password, call>>, NoAdditionalData, mnemonic.entropy)
<1>1. mnemonic.entropy \in Entropies
  BY DEF MnemonicType
<1>2. <<password, call>> \in Passwords \X Nat
  OBVIOUS
<1>3. box \in BoxType /\ box.key = <<password, call>> /\ box.text = mnemonic.entropy
  BY <1>1, <1>2 DEF Box, BoxType, NonceLength, TagLength
<1> HIDE DEF box
<1>4. ASSUME NEW keystore \in EncryptSecret(call, mnemonic, password)
      PROVE  keystore = [kdf |-> "scrypt", salt |-> call, missing |-> "nothing", box |-> box]
  BY DEF EncryptSecret, Seal, DeriveKey, box
<1>5. [kdf |-> "scrypt", salt |-> call, missing |-> "nothing", box |-> box] \in KeystoreType
  BY <1>3 DEF KeystoreType
<1> QED
  BY <1>3, <1>4, <1>5

\* The keychains of a keystore are one or none, in the default language, and of
\* the entropy in its box, which opens with the key it was sealed with.
LEMMA KeychainsOfKeystore ==
  ASSUME NEW keystore \in KeystoreType, NEW password
  PROVE  /\ Keychains(keystore, password) \subseteq MnemonicType
         /\ AtMostOne(Keychains(keystore, password))
         /\ \A mnemonic \in Keychains(keystore, password) :
              mnemonic = Mnemonic(keystore.box.text, DefaultLanguage)
<1>1. keystore.box.text \in Entropies
  BY DEF KeystoreType, BoxType
<1>2. \A entropy \in Decrypted(keystore, password) : entropy = keystore.box.text
  <2>1. \A key, entropy : entropy \in Open(key, NoAdditionalData, keystore.box) =>
                          entropy = keystore.box.text
    BY DEF Open, Nothing
  <2> QED
    BY <2>1 DEF Decrypted
<1>3. \A mnemonic \in Keychains(keystore, password) :
        mnemonic \in MnemonicsFromEntropy(keystore.box.text, DefaultLanguage)
  BY <1>2 DEF Keychains
<1> QED
  BY <1>1, <1>3, MnemonicsOfEntropy DEF AtMostOne

\* Damage leaves a keystore with its type, and its box with its key and text.
LEMMA DamageKeeps ==
  ASSUME NEW keystore \in KeystoreType, NEW damaged \in Damaged(keystore)
  PROVE  /\ damaged \in KeystoreType
         /\ damaged.box.key = keystore.box.key /\ damaged.box.text = keystore.box.text
<1>1. keystore.box \in BoxType
  BY DEF KeystoreType
<1>2. CASE damaged \in {[keystore EXCEPT !.missing = field] : field \in {"crypto", "mac"}}
  BY <1>2 DEF KeystoreType
<1>3. CASE damaged \in {[keystore EXCEPT !.kdf = "pbkdf2"], [keystore EXCEPT !.salt = 0]}
  BY <1>3 DEF KeystoreType
<1>4. CASE damaged = [keystore EXCEPT !.box.whole = FALSE]
  <2>1. /\ [keystore.box EXCEPT !.whole = FALSE] \in BoxType
        /\ [keystore.box EXCEPT !.whole = FALSE].key = keystore.box.key
        /\ [keystore.box EXCEPT !.whole = FALSE].text = keystore.box.text
    BY <1>1 DEF BoxType
  <2>2. damaged = [keystore EXCEPT !.box = [keystore.box EXCEPT !.whole = FALSE]]
    BY <1>4
  <2> QED
    BY <2>1, <2>2 DEF KeystoreType
<1>5. CASE damaged = [keystore EXCEPT !.box.tag = TagLength - 1]
  <2>1. /\ [keystore.box EXCEPT !.tag = TagLength - 1] \in BoxType
        /\ [keystore.box EXCEPT !.tag = TagLength - 1].key = keystore.box.key
        /\ [keystore.box EXCEPT !.tag = TagLength - 1].text = keystore.box.text
    BY <1>1 DEF BoxType, TagLength
  <2>2. damaged = [keystore EXCEPT !.box = [keystore.box EXCEPT !.tag = TagLength - 1]]
    BY <1>5
  <2> QED
    BY <2>1, <2>2 DEF KeystoreType
<1> QED
  BY <1>2, <1>3, <1>4, <1>5 DEF Damaged

-----------------------------------------------------------------------------
(* The vault.                                                              *)

\* The types of the calls, without their positions.
LEMMA CallTypes ==
  ASSUME VaultInv
  PROVE  /\ Len(calls) \in Nat /\ DOMAIN calls = 1..Len(calls)
         /\ \A c \in DOMAIN calls : calls[c] \in CallType /\ CallOK(calls[c])
  BY DEF VaultInv

\* The keychain in use is at most one, of the types, and of a call that is done.
LEMMA KeychainInUse ==
  ASSUME VaultInv
  PROVE  /\ Keychain \subseteq MnemonicType /\ AtMostOne(Keychain)
         /\ wallet # 0 => wallet \in DOMAIN calls /\ calls[wallet].stage = "done"
<1>1. wallet # 0 => wallet \in DOMAIN calls /\ calls[wallet].stage = "done"
  BY DEF VaultInv, Running
<1>2. CASE wallet = 0
  BY <1>2, <1>1 DEF Keychain, NoKeychain, AtMostOne
<1>3. CASE wallet # 0
  BY <1>3, <1>1, CallTypes DEF Keychain, CallType, CallOK
<1> QED
  BY <1>1, <1>2, <1>3

\* A call that starts changes nothing else.
LEMMA CallStarts ==
  ASSUME VaultInv, NEW call \in CallType, CallOK(call), Len(calls) < MaxCalls,
         calls' = Append(calls, call), UNCHANGED <<disk, wallet, crashes>>
  PROVE  VaultInv' /\ Keychain' = Keychain
<1>1. Len(calls) \in Nat /\ calls \in Seq(CallType) /\ DOMAIN calls = 1..Len(calls)
  BY CallTypes DEF VaultInv
<1>2. /\ calls' \in Seq(CallType) /\ Len(calls') = Len(calls) + 1
      /\ calls'[Len(calls) + 1] = call
      /\ \A c \in 1..Len(calls) : calls'[c] = calls[c]
  BY <1>1, AppendProperties
<1>3. DOMAIN calls' = 1..(Len(calls) + 1)
  BY <1>2
<1>4. Len(calls') <= MaxCalls
  BY <1>1, <1>2, VaultAssumption
<1>5. \A c \in DOMAIN calls' : CallOK(calls'[c])
  BY <1>1, <1>2, <1>3, CallTypes
<1>6. wallet # 0 => wallet \in DOMAIN calls /\ calls[wallet].stage = "done"
  BY KeychainInUse
<1>7. wallet # 0 => wallet \in DOMAIN calls' /\ calls'[wallet] = calls[wallet]
  BY <1>1, <1>2, <1>3, <1>6
<1>8. wallet' \in {0} \cup Running("done")'
  BY <1>6, <1>7 DEF Running
<1> QED
  BY <1>2, <1>4, <1>5, <1>7, <1>8 DEF VaultInv, Keychain

\* A call under way goes on; if it is done its keychain may come into use.
LEMMA CallGoesOn ==
  ASSUME VaultInv, NEW c \in DOMAIN calls, calls[c].stage # "done",
         NEW call \in CallType, CallOK(call), calls' = [calls EXCEPT ![c] = call],
         disk' \subseteq KeystoreType, crashes' = crashes,
         wallet' = wallet \/ (wallet' = c /\ call.stage = "done")
  PROVE  VaultInv' /\ (wallet' = wallet => Keychain' = Keychain)
<1>1. calls \in Seq(CallType)
  BY DEF VaultInv
<1>2. /\ calls' \in Seq(CallType) /\ Len(calls') = Len(calls) /\ DOMAIN calls' = DOMAIN calls
      /\ calls'[c] = call /\ \A d \in DOMAIN calls : d # c => calls'[d] = calls[d]
  BY <1>1, ElementReplaced
<1>3. \A d \in DOMAIN calls' : CallOK(calls'[d])
  BY <1>2, CallTypes
<1>4. wallet # 0 => wallet \in DOMAIN calls /\ calls[wallet].stage = "done"
  BY KeychainInUse
<1>5. wallet # 0 => wallet # c /\ calls'[wallet] = calls[wallet]
  BY <1>2, <1>4
<1>6. wallet' \in {0} \cup Running("done")'
  BY <1>2, <1>4, <1>5 DEF Running
<1> QED
  BY <1>2, <1>3, <1>5, <1>6 DEF VaultInv, Keychain

LEMMA CreateStep ==
  ASSUME VaultInv, NEW mnemonic \in Mnemonics, NEW password \in Passwords,
         ByEncryptingMnemonicAndSavingKeystore(mnemonic, password)
  PROVE  VaultInv' /\ Keychain' = Keychain
<1> DEFINE call == [kind |-> "create", stage |-> "saving", mnemonic |-> {mnemonic},
                    password |-> password, saved |-> FALSE, keychain |-> NoKeychain,
                    keystore |-> EncryptSecret(Len(calls) + 1, mnemonic, password)]
<1>1. mnemonic \in MnemonicType
  BY MnemonicsTyped
<1>2. EncryptSecret(Len(calls) + 1, mnemonic, password) \subseteq KeystoreType
  BY <1>1, CallTypes, SecretEncrypted
<1>3. call \in CallType /\ CallOK(call)
  BY <1>1, <1>2 DEF CallType, CallOK, NoKeychain, AtMostOne
<1>4. /\ Len(calls) < MaxCalls /\ calls' = Append(calls, call)
      /\ UNCHANGED <<disk, wallet, crashes>>
  BY DEF ByEncryptingMnemonicAndSavingKeystore
<1> HIDE DEF call
<1> QED
  BY <1>3, <1>4, CallStarts

LEMMA OpenStep ==
  ASSUME VaultInv, NEW password \in Passwords, ByLoadingAndDecryptingKeystore(password)
  PROVE  VaultInv' /\ Keychain' = Keychain
<1> DEFINE call == [kind |-> "open", stage |-> "loading", mnemonic |-> {},
                    password |-> password, saved |-> FALSE, keychain |-> NoKeychain,
                    keystore |-> {}]
<1>1. call \in CallType /\ CallOK(call)
  BY DEF CallType, CallOK, NoKeychain, AtMostOne
<1>2. /\ Len(calls) < MaxCalls /\ calls' = Append(calls, call)
      /\ UNCHANGED <<disk, wallet, crashes>>
  BY DEF ByLoadingAndDecryptingKeystore
<1> HIDE DEF call
<1> QED
  BY <1>1, <1>2, CallStarts

\* Saving and loading: the stage changes, and what was saved or loaded.
LEMMA StageStep ==
  ASSUME VaultInv, NEW c \in DOMAIN calls,
         NEW stage \in {"decrypting", "failed", "rejected"}, NEW saved \in BOOLEAN,
         NEW keystore \in SUBSET KeystoreType, calls[c].stage # "done",
         (stage = "decrypting" /\ calls[c].kind = "create") => saved,
         calls' = [calls EXCEPT ![c] = [calls[c] EXCEPT !.stage = stage, !.saved = saved,
                                                        !.keystore = keystore]],
         disk' \subseteq KeystoreType, crashes' = crashes, wallet' = wallet
  PROVE  VaultInv' /\ Keychain' = Keychain
<1> DEFINE call == [calls[c] EXCEPT !.stage = stage, !.saved = saved, !.keystore = keystore]
<1>1. calls[c] \in CallType /\ CallOK(calls[c])
  BY CallTypes
<1>2. call \in CallType
  BY <1>1 DEF CallType
<1>3. /\ call.kind = calls[c].kind /\ call.stage = stage /\ call.saved = saved
      /\ call.keychain = calls[c].keychain
  BY <1>1 DEF CallType
<1>4. calls' = [calls EXCEPT ![c] = call]
  OBVIOUS
<1> HIDE DEF call
<1>5. CallOK(call)
  BY <1>1, <1>3 DEF CallOK
<1> QED
  BY <1>2, <1>4, <1>5, CallGoesOn

LEMMA SaveSteps ==
  ASSUME VaultInv, NEW c \in DOMAIN calls,
         Saved(c) \/ \E wrote \in BOOLEAN : SaveFails(c, wrote)
  PROVE  VaultInv' /\ Keychain' = Keychain
<1>1. calls[c] \in CallType /\ calls[c].stage = "saving"
  BY CallTypes DEF Saved, SaveFails, Running
<1>2. calls[c].keystore \in SUBSET KeystoreType /\ disk \subseteq KeystoreType
  BY <1>1 DEF CallType, VaultInv
<1>3. CASE Saved(c)
  <2>1. calls' = [calls EXCEPT ![c] = [calls[c] EXCEPT !.stage = "decrypting", !.saved = TRUE,
                                                       !.keystore = calls[c].keystore]]
    BY <1>1, <1>3 DEF Saved, CallType
  <2> QED
    BY <2>1, <1>1, <1>2, <1>3, StageStep DEF Saved
<1>4. ASSUME NEW wrote \in BOOLEAN, SaveFails(c, wrote) PROVE VaultInv' /\ Keychain' = Keychain
  <2>1. calls' = [calls EXCEPT ![c] = [calls[c] EXCEPT !.stage = "failed", !.saved = wrote,
                                                       !.keystore = calls[c].keystore]]
    BY <1>1, <1>4 DEF SaveFails, CallType
  <2>2. disk' \subseteq KeystoreType
    BY <1>2, <1>4 DEF SaveFails
  <2>3. crashes' = crashes /\ wallet' = wallet /\ "saving" # "done"
    BY <1>4 DEF SaveFails
  <2> QED
    BY <2>1, <2>2, <2>3, <1>1, <1>2, StageStep
<1> QED
  BY <1>3, <1>4

\* What is loaded was not made by the call that loads it.
LEMMA LoadSteps ==
  ASSUME VaultInv, NEW c \in DOMAIN calls, Loaded(c) \/ LoadFails(c)
  PROVE  VaultInv' /\ Keychain' = Keychain
<1>1. calls[c] \in CallType /\ calls[c].stage = "loading" /\ calls[c].kind # "create"
  BY CallTypes DEF Loaded, LoadFails, Running, CallOK
<1>2. /\ calls[c].keystore \in SUBSET KeystoreType /\ disk \subseteq KeystoreType
      /\ calls[c].saved \in BOOLEAN
  BY <1>1 DEF CallType, VaultInv
<1>3. CASE Loaded(c)
  <2>1. calls' = [calls EXCEPT ![c] = [calls[c] EXCEPT !.stage = "decrypting",
                                                       !.saved = calls[c].saved, !.keystore = disk]]
    BY <1>1, <1>3 DEF Loaded, CallType
  <2>2. disk' = disk /\ crashes' = crashes /\ wallet' = wallet
    BY <1>3 DEF Loaded
  <2>3. disk \in SUBSET KeystoreType
    BY <1>2
  <2> QED
    BY <2>1, <2>2, <2>3, <1>1, <1>2, StageStep
<1>4. CASE LoadFails(c)
  <2>1. calls' = [calls EXCEPT ![c] = [calls[c] EXCEPT !.stage = "failed", !.saved = calls[c].saved,
                                                       !.keystore = calls[c].keystore]]
    BY <1>1, <1>4 DEF LoadFails, CallType
  <2>2. disk' = disk /\ crashes' = crashes /\ wallet' = wallet
    BY <1>4 DEF LoadFails
  <2> QED
    BY <2>1, <2>2, <1>1, <1>2, StageStep
<1> QED
  BY <1>3, <1>4

\* A keystore is decrypted: the keychain is handed out, or the call fails.
LEMMA FromKeystoreSteps ==
  ASSUME VaultInv, NEW c \in DOMAIN calls, FromKeystore(c) \/ FromKeystoreFails(c)
  PROVE  VaultInv' /\ (wallet' = wallet => Keychain' = Keychain)
<1>1. calls[c] \in CallType /\ CallOK(calls[c]) /\ calls[c].stage = "decrypting"
  BY CallTypes DEF FromKeystore, FromKeystoreFails, Running
<1>2. disk' \subseteq KeystoreType /\ crashes' = crashes
  BY DEF VaultInv, FromKeystore, FromKeystoreFails
<1>3. CASE FromKeystore(c)
  <2>1. PICK keystore \in calls[c].keystore :
          /\ Keychains(keystore, calls[c].password) # NoKeychain
          /\ calls' = [calls EXCEPT ![c].stage = "done",
                                    ![c].keychain = Keychains(keystore, calls[c].password)]
    BY <1>3 DEF FromKeystore
  <2> DEFINE found == Keychains(keystore, calls[c].password)
             call  == [calls[c] EXCEPT !.stage = "done", !.keychain = found]
  <2>2. found \subseteq MnemonicType /\ AtMostOne(found) /\ found # NoKeychain
    BY <1>1, <2>1, KeychainsOfKeystore DEF CallType
  <2> HIDE DEF found
  <2>3. call \in CallType /\ call.stage = "done" /\ call.keychain = found
        /\ call.kind = calls[c].kind /\ call.saved = calls[c].saved
    BY <1>1, <2>2 DEF CallType
  <2>4. calls' = [calls EXCEPT ![c] = call]
    BY <2>1 DEF found
  <2> HIDE DEF call
  <2>5. CallOK(call)
    BY <1>1, <2>2, <2>3 DEF CallOK
  <2>6. wallet' = c
    BY <1>3 DEF FromKeystore
  <2> QED
    BY <1>1, <1>2, <2>3, <2>4, <2>5, <2>6, CallGoesOn
<1>4. CASE FromKeystoreFails(c)
  <2>1. PICK stage \in {"rejected", "failed"} : calls' = [calls EXCEPT ![c].stage = stage]
    BY <1>4 DEF FromKeystoreFails
  <2>2. calls' = [calls EXCEPT ![c] = [calls[c] EXCEPT !.stage = stage, !.saved = calls[c].saved,
                                                       !.keystore = calls[c].keystore]]
    BY <1>1, <2>1 DEF CallType
  <2>3. calls[c].saved \in BOOLEAN /\ calls[c].keystore \in SUBSET KeystoreType
    BY <1>1 DEF CallType
  <2>4. wallet' = wallet
    BY <1>4 DEF FromKeystoreFails
  <2> QED
    BY <1>1, <1>2, <2>2, <2>3, <2>4, StageStep
<1> QED
  BY <1>3, <1>4

LEMMA TerminateStep ==
  ASSUME VaultInv, Terminate
  PROVE  VaultInv' /\ (wallet' = wallet => Keychain' = Keychain)
<1> DEFINE lost(c) == [calls[c] EXCEPT !.stage = "lost"]
<1>1. Len(calls) \in Nat /\ DOMAIN calls = 1..Len(calls)
  BY CallTypes
<1>2. \A c \in DOMAIN calls :
        calls'[c] = IF calls[c].stage \in {"saving", "loading", "decrypting"}
                    THEN lost(c) ELSE calls[c]
  BY DEF Terminate
<1>3. ASSUME NEW c \in DOMAIN calls PROVE calls'[c] \in CallType /\ CallOK(calls'[c])
  <2>1. calls[c] \in CallType /\ CallOK(calls[c])
    BY CallTypes
  <2>2. /\ lost(c) \in CallType /\ lost(c).kind = calls[c].kind /\ lost(c).stage = "lost"
        /\ lost(c).saved = calls[c].saved /\ lost(c).keychain = calls[c].keychain
    BY <2>1 DEF CallType
  <2> HIDE DEF lost
  <2>3. CASE calls[c].stage \in {"saving", "loading", "decrypting"}
    <3>1. calls'[c] = lost(c)
      BY <2>3, <1>2
    <3>2. CallOK(lost(c))
      BY <2>1, <2>2, <2>3 DEF CallOK
    <3> QED
      BY <2>2, <3>1, <3>2
  <2>4. CASE calls[c].stage \notin {"saving", "loading", "decrypting"}
    BY <2>1, <2>4, <1>2
  <2> QED
    BY <2>3, <2>4
<1>4. DOMAIN calls' = 1..Len(calls) /\ calls' \in [1..Len(calls) -> CallType]
  <2>1. DOMAIN calls' = 1..Len(calls) /\ calls' = [c \in 1..Len(calls) |-> calls'[c]]
    BY <1>1 DEF Terminate
  <2> QED
    BY <2>1, <1>1, <1>3
<1>5. calls' \in Seq(CallType) /\ Len(calls') = Len(calls)
  BY <1>1, <1>4
<1>6. crashes' \in 0..MaxCrashes
  BY VaultAssumption DEF Terminate, VaultInv
<1>7. wallet' = 0 /\ disk' = disk
  BY DEF Terminate
<1> QED
  BY <1>1, <1>3, <1>4, <1>5, <1>6, <1>7 DEF VaultInv, Keychain

LEMMA DecayStep ==
  ASSUME VaultInv, Decay
  PROVE  VaultInv' /\ wallet' = wallet /\ Keychain' = Keychain
<1>1. disk' \subseteq KeystoreType
  BY DamageKeeps DEF Decay, VaultInv
<1> QED
  BY <1>1 DEF Decay, VaultInv, Running, Keychain

LEMMA VaultSteps ==
  ASSUME VaultInv, CallsNext \/ Decay
  PROVE  VaultInv' /\ (wallet' = wallet => Keychain' = Keychain)
<1>1. CASE \E mnemonic \in Mnemonics, password \in Passwords :
             ByEncryptingMnemonicAndSavingKeystore(mnemonic, password)
  BY <1>1, CreateStep
<1>2. CASE \E password \in Passwords : ByLoadingAndDecryptingKeystore(password)
  BY <1>2, OpenStep
<1>3. ASSUME NEW c \in DOMAIN calls,
             \/ Saved(c) \/ Loaded(c) \/ LoadFails(c) \/ FromKeystore(c) \/ FromKeystoreFails(c)
             \/ \E wrote \in BOOLEAN : SaveFails(c, wrote)
      PROVE  VaultInv' /\ (wallet' = wallet => Keychain' = Keychain)
  BY <1>3, SaveSteps, LoadSteps, FromKeystoreSteps
<1> QED
  BY <1>1, <1>2, <1>3, TerminateStep, DecayStep DEF CallsNext

LEMMA VaultStays ==
  ASSUME VaultInv, UNCHANGED vaultVars
  PROVE  VaultInv' /\ wallet' = wallet /\ Keychain' = Keychain
  BY DEF VaultInv, vaultVars, Running, Keychain

LEMMA VaultStart == VaultInit => VaultInv
  BY VaultAssumption DEF VaultInit, VaultInv, Running

-----------------------------------------------------------------------------
(* Paths and keys.                                                         *)

\* A component is read from what it is written as, and derives its index.
LEMMA ComponentReadBack ==
  ASSUME NEW value \in Int, value < HardenedIncrement, NEW hardened \in BOOLEAN
  PROVE  LET component == Component(value, hardened) IN
           /\ ComponentIsRead(WriteComponent(component))
           /\ ReadComponent(WriteComponent(component)) = component
           /\ ChildNumber(WriteComponent(component)) \in Int
  BY PathsAssumption
  DEF Component, ComponentIsRead, WriteComponent, ReadComponent, ChildNumber, EndsWithHardener,
      Hardened, Plain, ComponentText

\* What a path is that is read or created: five components, with the purpose
\* and the coin type of Radix, hardened as they should be.
RadixPath(path) ==
  /\ DOMAIN path = 1..5 /\ path = [i \in 1..5 |-> path[i]] /\ Len(path) = 5
  /\ \A i \in 1..5 : \E value \in Int, hardened \in BOOLEAN :
       value < HardenedIncrement /\ path[i] = Component(value, hardened)
  /\ path[1] = Component(Purpose, TRUE)
  /\ path[2].isHardened /\ path[3].isHardened /\ ~path[4].isHardened
  /\ path[2].index >= HardenedIncrement
  /\ path[2].index - HardenedIncrement = RADIX_COIN_TYPE

LEMMA RadixPathIsGood ==
  ASSUME NEW path, RadixPath(path)
  PROVE  GoodPath(path)
<1> DEFINE text == PathToString(path)
<1>1. /\ DOMAIN text.components = 1..5
      /\ \A i \in 1..5 : text.components[i] = WriteComponent(path[i])
  BY DEF PathToString, RadixPath
<1>2. ASSUME NEW i \in 1..5
      PROVE  /\ ComponentIsRead(text.components[i])
             /\ ReadComponent(text.components[i]) = path[i]
             /\ ChildNumber(text.components[i]) \in Int
  <2>1. PICK value \in Int, hardened \in BOOLEAN :
          value < HardenedIncrement /\ path[i] = Component(value, hardened)
    BY DEF RadixPath
  <2> QED
    BY <1>1, <2>1, ComponentReadBack
<1> HIDE DEF text
<1>3. BIP32FromString(text) = path
  <2>1. BIP32FromString(text) = [i \in 1..5 |-> path[i]]
    BY <1>1, <1>2 DEF BIP32FromString
  <2> QED
    BY <2>1 DEF RadixPath
<1>4. BIP32IsRead(text)
  <2>1. text.components # <<>>
    BY <1>1
  <2> QED
    BY <1>1, <1>2, <2>1 DEF BIP32IsRead
<1>5. RadixPathIsRead(text)
  BY <1>3, <1>4 DEF RadixPath, RadixPathIsRead, BIP44IsRead
<1>6. Children(path) \in [1..5 -> Int]
  BY <1>2 DEF Children, text, RadixPath
<1>7. Children(path) \in Seq(Int)
  <2>1. \A n \in Nat : [1..n -> Int] \subseteq Seq(Int)
    OBVIOUS
  <2> QED
    BY <1>6, <2>1
<1> QED
  BY <1>3, <1>5, <1>7 DEF GoodPath, text

\* A path that is read from a text is one, in whatever way it was typed.
LEMMA ReadPathIsGood ==
  ASSUME NEW text, text.components \in Seq(ComponentTexts), RadixPathIsRead(text)
  PROVE  GoodPath(BIP32FromString(text))
<1> DEFINE path == BIP32FromString(text)
<1>1. /\ DOMAIN text.components = 1..Len(text.components) /\ Len(text.components) \in Nat
      /\ \A i \in DOMAIN text.components : text.components[i] \in ComponentTexts
  OBVIOUS
<1>2. path = [i \in 1..Len(text.components) |-> ReadComponent(text.components[i])]
  BY <1>1 DEF BIP32FromString
<1>3. Len(path) = 5 /\ Len(path) = Len(text.components)
  <2>1. Len([i \in 1..Len(text.components) |-> ReadComponent(text.components[i])])
          = Len(text.components)
    BY <1>1
  <2> QED
    BY <1>2, <2>1 DEF RadixPathIsRead, BIP44IsRead
<1>4. DOMAIN path = 1..5 /\ path = [i \in 1..5 |-> path[i]]
  BY <1>2, <1>3
<1>5. ASSUME NEW i \in 1..5
      PROVE  \E value \in Int, hardened \in BOOLEAN :
               value < HardenedIncrement /\ path[i] = Component(value, hardened)
  <2>1. text.components[i] \in ComponentTexts /\ ComponentIsRead(text.components[i])
    BY <1>1, <1>3 DEF RadixPathIsRead, BIP44IsRead, BIP32IsRead
  <2>2. text.components[i].number \in Int /\ text.components[i].number < HardenedIncrement
    BY <2>1 DEF ComponentTexts, ComponentIsRead
  <2>3. path[i] = Component(text.components[i].number, EndsWithHardener(text.components[i]))
    BY <1>2, <1>3 DEF ReadComponent
  <2>4. EndsWithHardener(text.components[i]) \in BOOLEAN
    BY DEF EndsWithHardener
  <2> QED
    BY <2>2, <2>3, <2>4
<1>6. /\ path[1] = Component(Purpose, TRUE)
      /\ path[2].isHardened /\ path[3].isHardened /\ ~path[4].isHardened
      /\ path[2].index >= HardenedIncrement
      /\ path[2].index - HardenedIncrement = RADIX_COIN_TYPE
  BY DEF RadixPathIsRead, BIP44IsRead
<1> HIDE DEF path
<1>7. RadixPath(path)
  BY <1>3, <1>4, <1>5, <1>6 DEF RadixPath
<1> QED
  BY <1>7, RadixPathIsGood DEF path

\* So is that of the next index.
LEMMA CreatedPathIsGood ==
  ASSUME NEW index \in {0, 1}
  PROVE  GoodPath(CreateRadixPath(0, 0, index, TRUE))
<1> DEFINE path == CreateRadixPath(0, 0, index, TRUE)
<1>1. /\ Purpose \in Int /\ Purpose < HardenedIncrement
      /\ RADIX_COIN_TYPE \in Int /\ RADIX_COIN_TYPE < HardenedIncrement
      /\ index \in Int /\ index < HardenedIncrement /\ 0 < HardenedIncrement
      /\ HardenedIncrement \in Int
  BY PathsAssumption DEF Purpose, RADIX_COIN_TYPE
<1>2. /\ path[1] = Component(Purpose, TRUE) /\ path[2] = Component(RADIX_COIN_TYPE, TRUE)
      /\ path[3] = Component(0, TRUE) /\ path[4] = Component(0, FALSE)
      /\ path[5] = Component(index, TRUE)
      /\ DOMAIN path = 1..5 /\ Len(path) = 5 /\ path = [i \in 1..5 |-> path[i]]
  BY DEF CreateRadixPath
<1> HIDE DEF path
<1>3. \A i \in 1..5 : \E value \in Int, hardened \in BOOLEAN :
        value < HardenedIncrement /\ path[i] = Component(value, hardened)
  <2> DEFINE Made(component) ==
        \E value \in Int, hardened \in BOOLEAN :
          value < HardenedIncrement /\ component = Component(value, hardened)
  <2>0. \A value \in Int, hardened \in BOOLEAN :
          value < HardenedIncrement => Made(Component(value, hardened))
    OBVIOUS
  <2> HIDE DEF Made
  <2>1. Made(path[1]) /\ Made(path[2]) /\ Made(path[3]) /\ Made(path[4]) /\ Made(path[5])
    <3>1. TRUE \in BOOLEAN /\ FALSE \in BOOLEAN /\ 0 \in Int
      OBVIOUS
    <3>2. /\ Made(Component(Purpose, TRUE)) /\ Made(Component(RADIX_COIN_TYPE, TRUE))
          /\ Made(Component(0, TRUE)) /\ Made(Component(0, FALSE)) /\ Made(Component(index, TRUE))
      BY <1>1, <2>0, <3>1, Zenon
    <3> QED
      BY <1>2, <3>2
  <2>2. \A i \in 1..5 : Made(path[i])
    BY <2>1
  <2> QED
    BY <2>2 DEF Made
<1>4. /\ path[2].isHardened /\ path[3].isHardened /\ ~path[4].isHardened
      /\ path[2].index >= HardenedIncrement
      /\ path[2].index - HardenedIncrement = RADIX_COIN_TYPE
  BY <1>1, <1>2 DEF Component, RADIX_COIN_TYPE
<1>5. RadixPath(path)
  BY <1>2, <1>3, <1>4 DEF RadixPath
<1> QED
  BY <1>5, RadixPathIsGood DEF path

\* The account at such a path of a mnemonic.
LEMMA AccountIsOf ==
  ASSUME NEW mnemonic \in MnemonicType, NEW path, GoodPath(path)
  PROVE  LET mine == AccountAt(mnemonic, path) IN
           IsOf(mine) /\ mine.mnemonic = mnemonic /\ mine.path = path
<1>1. <<HDMasterSeed(mnemonic), Children(path)>> \in Keys
  BY DEF HDMasterSeed, MnemonicType, GoodPath, Keys
<1> QED
  BY <1>1 DEF AccountAt, IsOf, KeyAt

-----------------------------------------------------------------------------
(* Messages.                                                               *)

MessageBox(sender, recipient, text) ==
  Box(<<<<{sender, recipient}, Ephemeral>>, Ephemeral>>, Ephemeral, text)

\* What an encrypted message is.
LEMMA EncryptedMessage ==
  ASSUME NEW sender, NEW recipient, NEW text,
         NEW message \in Encrypt(sender, recipient, Ephemeral, text)
  PROVE  LET box == MessageBox(sender, recipient, text) IN
           /\ IsSealedBox(box) /\ InBounds(CombinedLength(box))
           /\ message = [type |-> MessageType.ENCRYPTED,
                         scheme |-> EncryptionScheme.DH_ADD_EPH_AESGCM256_SCRYPT_000,
                         ephemeral |-> Ephemeral, box |-> box, length |-> CombinedLength(box)]
<1> DEFINE key  == <<<<{sender, recipient}, Ephemeral>>, Ephemeral>>
           box  == MessageBox(sender, recipient, text)
           scheme == EncryptionScheme.DH_ADD_EPH_AESGCM256_SCRYPT_000
<1>1. MessageKey(sender, recipient, Ephemeral) = {key}
  BY DEF MessageKey, DeriveKey, AddPoints, DiffieHellman
<1>2. Seal(key, Ephemeral, text) = {b \in {box} : IsSealedBox(b)}
  BY DEF Seal, MessageBox
<1>3. message \in UNION {CreateEncrypted(scheme, Ephemeral, b)
                           : b \in UNION {Seal(k, Ephemeral, text)
                                            : k \in MessageKey(sender, recipient, Ephemeral)}}
  BY DEF Encrypt, Nothing
<1> HIDE DEF key, box, scheme
<1>4. UNION {Seal(k, Ephemeral, text) : k \in MessageKey(sender, recipient, Ephemeral)}
        = Seal(key, Ephemeral, text)
  BY <1>1
<1>5. message \in UNION {CreateEncrypted(scheme, Ephemeral, b) : b \in Seal(key, Ephemeral, text)}
  BY <1>3, <1>4
<1>6. IsSealedBox(box) /\ message \in CreateEncrypted(scheme, Ephemeral, box)
  BY <1>2, <1>5
<1> QED
  BY <1>6 DEF CreateEncrypted, box, scheme

\* A box opens with the key that the two who read it agree on.
LEMMA DecryptOpens ==
  ASSUME NEW mine, NEW theirs, NEW message
  PROVE  Decrypt(mine, theirs, message)
           = Open(<<<<{mine, theirs}, message.ephemeral>>, message.ephemeral>>,
                  message.ephemeral, message.box)
<1> DEFINE key == <<<<{mine, theirs}, message.ephemeral>>, message.ephemeral>>
<1>1. MessageKey(mine, theirs, message.ephemeral) = {key}
  BY DEF MessageKey, DeriveKey, AddPoints, DiffieHellman
<1> HIDE DEF key
<1>2. Decrypt(mine, theirs, message) = Open(key, message.ephemeral, message.box)
  BY <1>1 DEF Decrypt
<1> QED
  BY <1>2 DEF key

\* What is read of a message that is no plaintext is what one of the recipients
\* decrypts, if it can be read at all.
LEMMA TransactionDecrypts ==
  ASSUME NEW mine, NEW named, NEW message, message.type # MessageType.PLAINTEXT
  PROVE  /\ message \in FromBuffer(message) =>
              DecryptTransaction(mine, named, message)
                = UNION {Decrypt(mine, theirs, message)
                           : theirs \in SingleRecipientFromActions(mine, named)}
         /\ message \notin FromBuffer(message) => DecryptTransaction(mine, named, message) = {}
<1> DEFINE got(read) == IF read.type = MessageType.PLAINTEXT THEN {read.text}
                        ELSE UNION {Decrypt(mine, theirs, read)
                                      : theirs \in SingleRecipientFromActions(mine, named)}
<1>1. DecryptTransaction(mine, named, message) = UNION {got(read) : read \in FromBuffer(message)}
  BY DEF DecryptTransaction
<1>2. got(message) = UNION {Decrypt(mine, theirs, message)
                              : theirs \in SingleRecipientFromActions(mine, named)}
  OBVIOUS
<1>3. FromBuffer(message) \subseteq {message}
  BY DEF FromBuffer, Nothing
<1> HIDE DEF got
<1> QED
  BY <1>1, <1>2, <1>3

\* A damaged message is read by nobody: it is no message, or its box is of
\* another key, or not whole.
LEMMA DamagedIsNotRead ==
  ASSUME NEW sender, NEW recipient, NEW text, NEW mine, NEW named,
         NEW message \in Encrypt(sender, recipient, Ephemeral, text),
         NEW damaged \in DamagedMessages(message)
  PROVE  DecryptTransaction(mine, named, damaged) = {}
<1> DEFINE box == MessageBox(sender, recipient, text)
<1>1. message = [type |-> 1, scheme |-> 255, ephemeral |-> Ephemeral, box |-> box,
                 length |-> CombinedLength(box)]
  BY EncryptedMessage DEF MessageType, EncryptionScheme
<1>k. /\ box.key = <<<<{sender, recipient}, Ephemeral>>, Ephemeral>> /\ box.additional = Ephemeral
      /\ \A whole : [box EXCEPT !.whole = whole].whole = whole
      /\ [box EXCEPT !.whole = FALSE, !.length = @ - 1].whole = FALSE
  BY DEF MessageBox, Box
<1> HIDE DEF box
<1>2. /\ MessageType.PLAINTEXT = 0 /\ MessageType.ENCRYPTED = 1 /\ MessageType.HEX = 30
      /\ EncryptionScheme.NONE = 0
      /\ 255 \notin Values(MessageType) /\ 7 \notin Values(EncryptionScheme)
  BY DEF MessageType, EncryptionScheme, Values
<1>3. CASE damaged \in {[message EXCEPT !.type = type] : type \in {0, 30, 255}}
  <2>1. PICK type \in {0, 30, 255} : damaged = [message EXCEPT !.type = type]
    BY <1>3
  <2>2. damaged.type = type /\ damaged.scheme = 255
    BY <1>1, <2>1
  <2>3. FromBuffer(damaged) = {}
    BY <1>2, <2>2 DEF FromBuffer, Nothing
  <2> QED
    BY <2>3 DEF DecryptTransaction
<1>4. CASE damaged \in {[message EXCEPT !.scheme = scheme] : scheme \in {0, 7}}
  <2>1. PICK scheme \in {0, 7} : damaged = [message EXCEPT !.scheme = scheme]
    BY <1>4
  <2>2. damaged.type = 1 /\ damaged.scheme = scheme
    BY <1>1, <2>1
  <2>3. FromBuffer(damaged) = {}
    BY <1>2, <2>2 DEF FromBuffer, Nothing
  <2> QED
    BY <2>3 DEF DecryptTransaction
<1>5. ASSUME damaged.type = 1,
             \/ ~IsPublicKey(damaged.ephemeral)
             \/ damaged.box = box /\ damaged.ephemeral # Ephemeral
             \/ ~damaged.box.whole
      PROVE  DecryptTransaction(mine, named, damaged) = {}
  <2>1. CASE ~IsPublicKey(damaged.ephemeral)
    <3>1. FromBuffer(damaged) = {}
      BY <1>2, <1>5, <2>1 DEF FromBuffer, Nothing, SealedMessageIsRead
    <3> QED
      BY <3>1 DEF DecryptTransaction
  <2>2. CASE IsPublicKey(damaged.ephemeral)
    <3>1. ASSUME NEW theirs PROVE Decrypt(mine, theirs, damaged) = {}
      BY <2>2, <1>5, <1>k, DecryptOpens DEF Open, Nothing
    <3> QED
      BY <3>1, <1>2, <1>5, TransactionDecrypts
  <2> QED
    BY <2>1, <2>2
<1>6. CASE damaged \in {[message EXCEPT !.ephemeral = key] : key \in {NotAKey, Friend}}
  <2>1. PICK key \in {NotAKey, Friend} : damaged = [message EXCEPT !.ephemeral = key]
    BY <1>6
  <2>2. damaged.type = 1 /\ damaged.box = box /\ damaged.ephemeral = key
    BY <1>1, <2>1
  <2>3. key # Ephemeral
    BY CustodyAssumption
  <2> QED
    BY <1>5, <2>2, <2>3
<1>7. CASE damaged = [message EXCEPT !.box.whole = FALSE]
  <2>1. damaged.type = 1 /\ damaged.box = [box EXCEPT !.whole = FALSE]
    BY <1>1, <1>7
  <2> QED
    BY <1>5, <1>k, <2>1
<1>8. CASE damaged = [message EXCEPT !.box.whole = FALSE, !.box.length = @ - 1, !.length = @ - 1]
  <2>1. damaged.type = 1
    BY <1>1, <1>8
  <2>2. damaged.box = [box EXCEPT !.whole = FALSE, !.length = @ - 1]
    BY <1>1, <1>8
  <2> QED
    BY <1>5, <1>k, <2>1, <2>2
<1> QED
  BY <1>2, <1>3, <1>4, <1>6, <1>7, <1>8 DEF DamagedMessages

\* The recipient that is found makes up the two parties, with who reads, if and
\* only if who reads is one of them and the transaction names no third.
LEMMA RecipientIsParty ==
  ASSUME NEW sender, NEW recipient, NEW mine, NEW named,
         {sender, recipient} \subseteq named, named \subseteq {sender, recipient, Stranger}
  PROVE  (\E theirs \in SingleRecipientFromActions(mine, named) :
            {mine, theirs} = {sender, recipient})
           <=> mine \in {sender, recipient} /\ named = {sender, recipient}
<1> DEFINE others == named \ {mine}
<1>1. IsFiniteSet(others)
  <2>1. IsFiniteSet(({sender} \cup {recipient}) \cup {Stranger})
    BY FS_AddElement, FS_Singleton
  <2>2. others \subseteq ({sender} \cup {recipient}) \cup {Stranger}
    OBVIOUS
  <2> QED
    BY <2>1, <2>2, FS_Subset
<1>2. Cardinality(others) \in Nat
  BY <1>1, FS_CardinalityType
<1>3. CASE Cardinality(others) > 1
  <2>1. SingleRecipientFromActions(mine, named) = {}
    BY <1>3 DEF SingleRecipientFromActions, Nothing
  <2>2. ~AtMostOne(others)
    <3>1. AtMostOne(others) => Cardinality(others) <= 1
      BY AtMostOneIsFew
    <3> HIDE DEF others
    <3> QED
      BY <1>2, <1>3, <3>1
  <2>3. ~(mine \in {sender, recipient} /\ named = {sender, recipient})
    BY <2>2 DEF AtMostOne
  <2> QED
    BY <2>1, <2>3
<1>4. CASE ~(Cardinality(others) > 1) /\ others = {}
  <2>1. SingleRecipientFromActions(mine, named) = {mine}
    BY <1>4 DEF SingleRecipientFromActions
  <2> QED
    BY <1>4, <2>1
<1>5. CASE ~(Cardinality(others) > 1) /\ others # {}
  <2>1. Cardinality(others) = 1
    <3>1. Cardinality(others) # 0
      BY <1>1, <1>5, FS_EmptySet
    <3> HIDE DEF others
    <3> QED
      BY <1>2, <1>5, <3>1
  <2>2. PICK theirs : others = {theirs}
    BY <1>1, <2>1, FS_Singleton
  <2>3. SingleRecipientFromActions(mine, named) = {theirs}
    BY <1>5, <2>2 DEF SingleRecipientFromActions
  <2>4. theirs # mine /\ (named = {theirs} \/ named = {mine, theirs})
    BY <2>2
  <2> QED
    BY <2>3, <2>4
<1> QED
  BY <1>3, <1>4, <1>5

\* A message as it was sealed is read by the two parties.
LEMMA SealedIsRead ==
  ASSUME NEW sender, NEW recipient, NEW text, NEW mine, NEW named,
         {sender, recipient} \subseteq named, named \subseteq {sender, recipient, Stranger},
         NEW message \in Encrypt(sender, recipient, Ephemeral, text)
  PROVE  /\ DecryptTransaction(mine, named, message) \subseteq {text}
         /\ (DecryptTransaction(mine, named, message) # {})
              = (mine \in {sender, recipient} /\ named = {sender, recipient})
<1> DEFINE box  == MessageBox(sender, recipient, text)
           found == SingleRecipientFromActions(mine, named)
<1>1. /\ IsSealedBox(box) /\ InBounds(CombinedLength(box))
      /\ message = [type |-> 1, scheme |-> 255, ephemeral |-> Ephemeral, box |-> box,
                    length |-> CombinedLength(box)]
  BY EncryptedMessage DEF MessageType, EncryptionScheme
<1>2. /\ box.key = <<<<{sender, recipient}, Ephemeral>>, Ephemeral>> /\ box.additional = Ephemeral
      /\ box.whole /\ box.text = text
  BY DEF MessageBox, Box
<1>3. box.length >= 1
  BY <1>1 DEF IsSealedBox
<1> HIDE DEF box
<1>4. /\ MessageType.PLAINTEXT = 0 /\ MessageType.ENCRYPTED = 1 /\ EncryptionScheme.NONE = 0
      /\ 1 \in Values(MessageType) /\ 255 \in Values(EncryptionScheme)
  BY DEF MessageType, EncryptionScheme, Values
<1>5. SealedMessageIsRead(message)
  BY <1>1, <1>3, CustodyAssumption DEF SealedMessageIsRead, IsPublicKey
<1>6. message \in FromBuffer(message)
  BY <1>1, <1>4, <1>5 DEF FromBuffer
<1>7. DecryptTransaction(mine, named, message)
        = UNION {Decrypt(mine, theirs, message) : theirs \in found}
  BY <1>1, <1>4, <1>6, TransactionDecrypts
<1>8. ASSUME NEW theirs
      PROVE  Decrypt(mine, theirs, message)
               = IF {mine, theirs} = {sender, recipient} THEN {text} ELSE {}
  <2> DEFINE key == <<<<{mine, theirs}, Ephemeral>>, Ephemeral>>
  <2>1. message.ephemeral = Ephemeral /\ message.box = box
    BY <1>1
  <2>2. Decrypt(mine, theirs, message) = Open(key, Ephemeral, box)
    BY <2>1, DecryptOpens
  <2>3. key = box.key <=> {mine, theirs} = {sender, recipient}
    BY <1>2
  <2> HIDE DEF key
  <2> QED
    BY <1>1, <1>2, <2>2, <2>3 DEF Open, Nothing
<1> HIDE DEF found
<1>9. /\ DecryptTransaction(mine, named, message) \subseteq {text}
      /\ DecryptTransaction(mine, named, message) # {}
           <=> \E theirs \in found : {mine, theirs} = {sender, recipient}
  <2> DEFINE decrypted == {Decrypt(mine, theirs, message) : theirs \in found}
  <2>1. \A one \in decrypted : one \subseteq {text}
    BY <1>8
  <2>2. \A theirs \in found : Decrypt(mine, theirs, message) \in decrypted
    OBVIOUS
  <2>3. \A one \in decrypted : one # {} =>
          \E theirs \in found : {mine, theirs} = {sender, recipient}
    BY <1>8
  <2>4. \A theirs \in found : {mine, theirs} = {sender, recipient} => {text} \in decrypted
    BY <1>8, <2>2
  <2>5. DecryptTransaction(mine, named, message) = UNION decrypted
    BY <1>7
  <2> HIDE DEF decrypted
  <2> QED
    BY <2>1, <2>3, <2>4, <2>5
<1> QED
  BY <1>9, RecipientIsParty DEF found

\* A plaintext is read as it is, or not at all.
LEMMA PlaintextIsRead ==
  ASSUME NEW text, NEW mine, NEW named
  PROVE  /\ DecryptTransaction(mine, named, Plaintext(text)) \subseteq {text}
         /\ ~IsEncrypted(Plaintext(text))
<1>1. /\ Plaintext(text).type = MessageType.PLAINTEXT /\ Plaintext(text).text = text
      /\ ~IsEncrypted(Plaintext(text))
  BY DEF Plaintext, IsEncrypted, MessageType
<1>2. FromBuffer(Plaintext(text)) \subseteq {Plaintext(text)}
  BY DEF FromBuffer, Nothing
<1> QED
  BY <1>1, <1>2 DEF DecryptTransaction

LEMMA SealedIsReadByParties ==
  ASSUME NEW sealed, SealedOK(sealed), NEW mine, NEW got,
         got = DecryptTransaction(mine, sealed.named, sealed.message)
  PROVE  /\ got \subseteq {sealed.text}
         /\ IsEncrypted(sealed.message) \/ sealed.damaged =>
              (got # {}) = (/\ ~sealed.damaged
                            /\ mine \in sealed.parties
                            /\ sealed.named = sealed.parties)
<1>1. PICK sender, recipient \in sealed.parties :
        /\ sealed.parties = {sender, recipient}
        /\ sealed.parties \subseteq sealed.named
        /\ sealed.named \subseteq {sender, recipient, Stranger}
        /\ MessageOK(sealed, sender, recipient)
  BY DEF SealedOK
<1>2. CASE ~sealed.damaged /\ sealed.message = Plaintext(sealed.text)
  BY <1>2, PlaintextIsRead
<1>3. ASSUME NEW message \in Encrypt(sender, recipient, Ephemeral, sealed.text),
             ~sealed.damaged, sealed.message = message
      PROVE  /\ got \subseteq {sealed.text}
             /\ (got # {}) = (mine \in sealed.parties /\ sealed.named = sealed.parties)
  BY <1>1, <1>3, SealedIsRead
<1>4. ASSUME NEW message \in Encrypt(sender, recipient, Ephemeral, sealed.text),
             sealed.damaged, sealed.message \in DamagedMessages(message)
      PROVE  got = {}
  BY <1>4, DamagedIsNotRead
<1> QED
  BY <1>1, <1>2, <1>3, <1>4 DEF MessageOK

-----------------------------------------------------------------------------
(* Identifiers.                                                            *)

\* A human readable part tells the network, and the kinds are not mixed up.
LEMMA NetworkIsTold ==
  ASSUME NEW network \in Network
  PROVE  /\ NetworksFromHRP("account", HRP[network].account) = {network}
         /\ NetworksFromHRP("validator", HRP[network].validator) = {network}
         /\ NetworksFromHRPSuffix(HRP[network].rri) = {network}
<1> DEFINE names == {"mainnet", "stokenet", "localnet", "releasenet", "rcnet", "milestonenet",
                     "testnet6", "sandpitnet"}
<1>1. Network = names
  BY DEF Network, HRP
<1>2. /\ \A other \in names : HRP[other].account = HRP[network].account => other = network
      /\ \A other \in names : HRP[other].validator = HRP[network].validator => other = network
      /\ \A other \in names : HRP[other].rri = HRP[network].rri => other = network
  BY <1>1 DEF HRP
<1> HIDE DEF names
<1> QED
  BY <1>1, <1>2 DEF NetworksFromHRP, NetworksFromHRPSuffix

\* Of a text in one case an address is read, of its kind only.
LEMMA AddressReadBack ==
  ASSUME NEW kind \in {"account", "validator"}, NEW key, IsPublicKey(key), NEW network \in Network,
         NEW case \in {"lower", "upper", "mixed"}, NEW other \in {"account", "validator", "rri"}
  PROVE  LET address == ByBech32ConvertingIt(kind, key, network)
             found   == Read(other, InCase(case, address.text))
         IN  IF case = "mixed" \/ other # kind THEN found = {}
             ELSE \E one \in found :
                    found = {one} /\ one.network = address.network /\ SameAddress(one, address)
<1> DEFINE address == ByBech32ConvertingIt(kind, key, network)
           text    == InCase(case, address.text)
           data    == Data(VersionByte[kind], Key(key))
<1>1. /\ address.kind = kind /\ address.network = network /\ address.publicKey = key
      /\ address.text = Text(<<HRP[network][kind]>>, data)
  BY DEF ByBech32ConvertingIt
<1>2. /\ text.hrp = <<HRP[network][kind]>> /\ text.data = data /\ text.case = case /\ text.checksum
  BY <1>1 DEF InCase, Text
<1>3. /\ Len(text.hrp) = 1 /\ text.hrp[1] = HRP[network][kind]
      /\ data.version = VersionByte[kind] /\ data.payload.kind = "key" /\ data.payload.key = key
  BY <1>2 DEF Data, Key
<1>4. VersionByte["account"] = 4 /\ VersionByte["validator"] = 0
  BY DEF VersionByte, NoVersion
<1> HIDE DEF text, address, data
<1>5. CASE other = "rri"
  BY <1>3, <1>5 DEF Read, RRIsFromBech32String, text, address
<1>6. CASE other # "rri" /\ (case = "mixed" \/ other # kind)
  <2>1. AddressesFromString(other, text) = {}
    BY <1>2, <1>3, <1>4, <1>6 DEF AddressesFromString, Decodes, HoldsKey
  <2> QED
    BY <2>1, <1>6 DEF Read, text, address
<1>7. CASE other = kind /\ case # "mixed"
  <2>1. NetworksFromHRP(kind, text.hrp[1]) = {network}
    BY <1>3, NetworkIsTold
  <2>2. Decodes(text) /\ HoldsKey(kind, text.data)
    BY <1>2, <1>3, <1>7 DEF Decodes, HoldsKey
  <2> DEFINE one == [kind |-> kind, network |-> network, publicKey |-> text.data.payload.key,
                     text |-> [text EXCEPT !.case = "lower"]]
  <2>3. AddressesFromString(kind, text) = {one}
    BY <2>1, <2>2, <1>3 DEF AddressesFromString
  <2>4. one.network = address.network /\ SameAddress(one, address)
    BY <1>1, <1>2, <1>3 DEF SameAddress
  <2> HIDE DEF one
  <2> QED
    BY <2>3, <2>4, <1>7 DEF Read, text, address
<1> QED
  BY <1>5, <1>6, <1>7

\* The same, apart for what is not read and for what is.
LEMMA NothingElseReadBack ==
  ASSUME NEW kind \in {"account", "validator"}, NEW key, IsPublicKey(key), NEW network \in Network,
         NEW case \in {"lower", "upper", "mixed"}, NEW other \in {"account", "validator", "rri"},
         case = "mixed" \/ other # kind
  PROVE  Read(other, InCase(case, ByBech32ConvertingIt(kind, key, network).text)) = {}
BY AddressReadBack

LEMMA ItselfReadBack ==
  ASSUME NEW kind \in {"account", "validator"}, NEW key, IsPublicKey(key), NEW network \in Network,
         NEW case \in {"lower", "upper"}
  PROVE  \E one \in Read(kind, InCase(case, ByBech32ConvertingIt(kind, key, network).text)) :
           /\ Read(kind, InCase(case, ByBech32ConvertingIt(kind, key, network).text)) = {one}
           /\ one.network = ByBech32ConvertingIt(kind, key, network).network
           /\ SameAddress(one, ByBech32ConvertingIt(kind, key, network))
BY AddressReadBack

\* Of the bytes of an address its key is read, as either kind.
LEMMA KeyReadBack ==
  ASSUME NEW kind \in {"account", "validator"}, NEW key, IsPublicKey(key), NEW network \in Network
  PROVE  LET data == ByBech32ConvertingIt(kind, key, network).text.data IN
           \E one \in AccountAddressesFromBuffer(data), other \in ValidatorAddressesFromBuffer(data) :
             one.publicKey = key /\ other.publicKey = key
<1> DEFINE data == ByBech32ConvertingIt(kind, key, network).text.data
<1>1. data.version \in {0, 4} /\ data.payload.kind = "key" /\ data.payload.key = key
  BY DEF ByBech32ConvertingIt, Text, Data, Key, VersionByte, NoVersion
<1> HIDE DEF data
<1>2. KeysInBuffer(data) = {key}
  BY <1>1 DEF KeysInBuffer, NoVersion, VersionByte
<1>3. /\ AccountAddressesFromBuffer(data) = {AccountAddress(key, "mainnet")}
      /\ ValidatorAddressesFromBuffer(data) = {ValidatorAddress(key, "mainnet")}
  BY <1>2 DEF AccountAddressesFromBuffer, ValidatorAddressesFromBuffer
<1>4. /\ AccountAddress(key, "mainnet").publicKey = key
      /\ ValidatorAddress(key, "mainnet").publicKey = key
  BY DEF AccountAddress, ValidatorAddress, ByBech32ConvertingIt
<1> QED
  BY <1>3, <1>4 DEF data

\* Of the text of a resource identifier it is read, and no address.
LEMMA ResourceReadBack ==
  ASSUME NEW key, NEW name, NEW network \in Network,
         NEW identifier \in ResourceIdentifiers(key, name, network),
         NEW case \in {"lower", "upper", "mixed"}, NEW other \in {"account", "validator", "rri"}
  PROVE  LET found == Read(other, InCase(case, identifier.text)) IN
           IF case = "mixed" \/ other # "rri" THEN found = {}
           ELSE \E one \in found :
                  /\ found = {one}
                  /\ one.network = identifier.network /\ one.name = identifier.name
                  /\ one.hash.payload = identifier.hash.payload
                  /\ \A again \in Read("rri", identifier.text) : SameRRI(one, again)
<1>1. PICK version \in {NativeToken, NonNativeToken}, payload \in {NoPayload, Hash(key, name)} :
        /\ name.legal
        /\ (version = NativeToken) = (payload = NoPayload)
        /\ identifier = [name |-> name, network |-> network, hash |-> Data(NoVersion, payload),
                         text |-> Text(<<name, HRP[network].rri>>, Data(version, payload))]
  BY DEF ResourceIdentifiers, SystemRRIForNetwork, FromPublicKeyAndNameAndNetwork, Hash, NoPayload,
         WithNameRawDataAndVersionByte, NativeToken, NonNativeToken
<1> DEFINE hash == Data(version, payload)
<1>2. ASSUME NEW text, text.hrp = <<name, HRP[network].rri>>, text.data = hash, text.checksum
      PROVE  /\ Len(text.hrp) = 2
             /\ IF Decodes(text)
                THEN RRIsFromBech32String(text)
                       = {[name |-> name, network |-> network, hash |-> hash, text |-> text]}
                ELSE RRIsFromBech32String(text) = {}
  <2>1. Len(text.hrp) = 2 /\ text.hrp[1] = name /\ text.hrp[2] = HRP[network].rri
    BY <1>2
  <2>2. NetworksFromHRPSuffix(text.hrp[2]) = {network}
    BY <2>1, NetworkIsTold
  <2>3. \/ hash.version = NativeToken /\ hash.payload = NoPayload
        \/ hash.version = NonNativeToken /\ hash.payload.kind # "none"
    BY <1>1 DEF Data, Hash, NoPayload
  <2> HIDE DEF hash
  <2> QED
    BY <1>1, <1>2, <2>1, <2>2, <2>3 DEF RRIsFromBech32String
<1>3. /\ identifier.text.hrp = <<name, HRP[network].rri>> /\ identifier.text.data = hash
      /\ identifier.text.checksum /\ identifier.text.case = "lower"
  BY <1>1 DEF Text
<1>i. LET text == InCase(case, identifier.text) IN
        /\ text.hrp = <<name, HRP[network].rri>> /\ text.data = hash
        /\ text.checksum /\ text.case = case
  BY <1>1 DEF InCase, Text
<1> DEFINE text == InCase(case, identifier.text)
           one  == [name |-> name, network |-> network, hash |-> hash, text |-> text]
<1> HIDE DEF text, hash
<1>4. CASE other # "rri"
  <2>1. Len(text.hrp) # 1
    BY <1>2, <1>i DEF text
  <2>2. AddressesFromString(other, text) = {}
    BY <2>1 DEF AddressesFromString
  <2> QED
    BY <1>4, <2>2 DEF Read, text
<1>5. CASE other = "rri" /\ case = "mixed"
  <2>1. ~Decodes(text)
    BY <1>i, <1>5 DEF text, Decodes
  <2>2. RRIsFromBech32String(text) = {}
    BY <2>1 DEF RRIsFromBech32String
  <2> QED
    BY <1>5, <2>2 DEF Read, text
<1>6. CASE other = "rri" /\ case # "mixed"
  <2>1. Read(other, text) = {one}
    <3>1. Decodes(text)
      BY <1>i, <1>6 DEF text, Decodes
    <3>2. RRIsFromBech32String(text) = {one}
      BY <1>2, <1>i, <3>1 DEF text
    <3> QED
      BY <1>6, <3>2 DEF Read
  <2>2. one.network = identifier.network /\ one.name = identifier.name
        /\ one.hash = hash /\ hash.payload = payload /\ identifier.hash.payload = payload
    BY <1>1 DEF Data, hash
  <2>3. ASSUME NEW again \in Read("rri", identifier.text) PROVE SameRRI(one, again)
    <3>1. RRIsFromBech32String(identifier.text)
            = {[name |-> name, network |-> network, hash |-> hash, text |-> identifier.text]}
      BY <1>2, <1>3 DEF Decodes
    <3>2. again.name = name /\ again.network = network /\ again.hash = hash
      BY <2>3, <3>1 DEF Read
    <3> QED
      BY <3>2 DEF SameRRI
  <2> HIDE DEF one
  <2> QED
    BY <1>6, <2>1, <2>2, <2>3 DEF text
<1> QED
  BY <1>4, <1>5, <1>6

\* The same, apart for what is not read and for what is.
LEMMA NothingElseReadAsResource ==
  ASSUME NEW key, NEW name, NEW network \in Network,
         NEW identifier \in ResourceIdentifiers(key, name, network),
         NEW case \in {"lower", "upper", "mixed"}, NEW other \in {"account", "validator", "rri"},
         case = "mixed" \/ other # "rri"
  PROVE  Read(other, InCase(case, identifier.text)) = {}
BY ResourceReadBack

LEMMA ResourceReadAsItself ==
  ASSUME NEW key, NEW name, NEW network \in Network,
         NEW identifier \in ResourceIdentifiers(key, name, network), NEW case \in {"lower", "upper"}
  PROVE  \E one \in Read("rri", InCase(case, identifier.text)) :
           /\ Read("rri", InCase(case, identifier.text)) = {one}
           /\ one.network = identifier.network /\ one.name = identifier.name
           /\ one.hash.payload = identifier.hash.payload
           /\ \A again \in Read("rri", identifier.text) : SameRRI(one, again)
BY ResourceReadBack

-----------------------------------------------------------------------------
(* The steps.                                                              *)

\* What was published and what was sealed for it has nothing to do with the
\* vault.
LEMMA VaultStepKeeps ==
  ASSUME CustodyInv, VaultStep
  PROVE  CustodyInv'
<1> USE DEF CustodyInv
<1>1. VaultInv' /\ (wallet' = wallet => Keychain' = Keychain)
  BY VaultSteps DEF VaultStep
<1>2. AccountInv'
  BY <1>1 DEF VaultStep, AccountInv, Nobody, AtMostOne
<1>3. CardInv' /\ MailInv' /\ ReadingInv'
  BY DEF VaultStep, CardInv, MailInv, ReadingInv
<1> QED
  BY <1>1, <1>2, <1>3

\* An account is derived at a path that can be read again.
LEMMA DeriveAtKeeps ==
  ASSUME CustodyInv, NEW path, GoodPath(path), DeriveAt(path)
  PROVE  CustodyInv'
<1> USE DEF CustodyInv
<1>1. VaultInv' /\ Keychain' = Keychain
  BY VaultStays DEF DeriveAt
<1>2. Keychain \subseteq MnemonicType /\ AtMostOne(Keychain)
  BY KeychainInUse
<1>3. account' = {AccountAt(mnemonic, path) : mnemonic \in Keychain}
  BY DEF DeriveAt
<1>4. \A mine \in account' : mine.mnemonic \in Keychain /\ IsOf(mine)
  BY <1>2, <1>3, AccountIsOf
<1>5. \A one, other \in account' : one = other
  BY <1>2, <1>3 DEF AtMostOne
<1>6. AccountInv'
  BY <1>1, <1>4, <1>5 DEF AccountInv, AtMostOne
<1>7. CardInv' /\ MailInv' /\ ReadingInv'
  BY DEF DeriveAt, CardInv, MailInv, ReadingInv
<1> QED
  BY <1>1, <1>6, <1>7

LEMMA DeriveSteps ==
  ASSUME CustodyInv, Derive \/ DeriveNext
  PROVE  CustodyInv'
<1>1. CASE Derive
  <2>1. PICK text : /\ \/ text \in Paths
                       \/ \E published \in card : text = PathToString(published.path)
                    /\ RadixPathIsRead(text) /\ DeriveAt(BIP32FromString(text))
    BY <1>1 DEF Derive
  <2>2. CASE text \in Paths
    BY <2>1, <2>2, CustodyAssumption, ReadPathIsGood, DeriveAtKeeps
  <2>3. CASE \E published \in card : text = PathToString(published.path)
    BY <2>1, <2>3, DeriveAtKeeps DEF CustodyInv, CardInv, IsOf, GoodPath
  <2> QED
    BY <2>1, <2>2, <2>3
<1>2. CASE DeriveNext
  BY <1>2, CreatedPathIsGood, DeriveAtKeeps DEF DeriveNext
<1> QED
  BY <1>1, <1>2

\* What is published is the identifier of the account in use.
LEMMA PublishSteps ==
  ASSUME CustodyInv, NEW network \in Networks,
         PublishAddress(network) \/ \E name \in Names : PublishResource(name, network)
  PROVE  CustodyInv'
<1> USE DEF CustodyInv
<1>1. VaultInv' /\ Keychain' = Keychain
  BY VaultStays DEF PublishAddress, PublishResource
<1>2. card = {} /\ mail = {} /\ reading = {} /\ account' = account /\ mail' = mail /\ reading' = reading
  BY DEF PublishAddress, PublishResource, MailInv, ReadingInv
<1>3. AccountInv'
  BY <1>1, <1>2 DEF AccountInv
<1> DEFINE Published(mine, kind, identifier) ==
        /\ card' = {Card(kind, identifier, mine)}
        /\ \/ /\ kind \in {"account", "validator"}
              /\ identifier = ByBech32ConvertingIt(kind, mine.key, network)
           \/ /\ kind = "rri"
              /\ \E name \in Names : identifier \in ResourceIdentifiers(mine.key, name, network)
<1>4. \E mine \in account : \E kind, identifier : Published(mine, kind, identifier)
  <2>1. CASE PublishAddress(network)
    <3>1. PICK mine \in account :
            \E address \in {AccountAddress(mine.key, network), ValidatorAddress(mine.key, network)} :
              card' = {Card(address.kind, address, mine)}
      BY <2>1 DEF PublishAddress
    <3>2. PICK address \in {AccountAddress(mine.key, network), ValidatorAddress(mine.key, network)} :
            card' = {Card(address.kind, address, mine)}
      BY <3>1
    <3>3. PICK kind \in {"account", "validator"} :
            address = ByBech32ConvertingIt(kind, mine.key, network) /\ address.kind = kind
      BY <3>2 DEF AccountAddress, ValidatorAddress, ByBech32ConvertingIt
    <3>4. Published(mine, kind, address)
      BY <3>2, <3>3
    <3> QED
      BY <3>4
  <2>2. CASE \E name \in Names : PublishResource(name, network)
    <3>1. PICK name \in Names, mine \in account :
            \E identifier \in ResourceIdentifiers(mine.key, name, network) :
              card' = {Card("rri", identifier, mine)}
      BY <2>2 DEF PublishResource
    <3>2. PICK identifier \in ResourceIdentifiers(mine.key, name, network) :
            card' = {Card("rri", identifier, mine)}
      BY <3>1
    <3>3. Published(mine, "rri", identifier)
      BY <3>2
    <3> QED
      BY <3>3
  <2> QED
    BY <2>1, <2>2
<1>m. PICK mine \in account : \E kind, identifier : Published(mine, kind, identifier)
  BY <1>4
<1>p. PICK kind, identifier : Published(mine, kind, identifier)
  BY <1>m
<1> DEFINE published == Card(kind, identifier, mine)
<1>5. /\ published.kind = kind /\ published.identifier = identifier
      /\ published.text = identifier.text /\ published.mnemonic = mine.mnemonic
      /\ published.path = mine.path /\ published.key = mine.key
  BY DEF Card
<1>6. IsOf(mine)
  BY DEF AccountInv
<1> HIDE DEF published
<1>7. IsOf(published)
  BY <1>5, <1>6 DEF IsOf
<1>8. IdentifierOK(published)
  BY <1>p, <1>5 DEF IdentifierOK
<1>9. card' = {published}
  BY <1>p DEF published
<1>10. CardInv'
  BY <1>7, <1>8, <1>9 DEF CardInv, AtMostOne
<1>11. MailInv' /\ ReadingInv'
  BY <1>2 DEF MailInv, ReadingInv, AtMostOne
<1> QED
  BY <1>1, <1>3, <1>10, <1>11

\* The keys of the world are keys.
LEMMA KeysAreKeys ==
  ASSUME NEW key \in Keys
  PROVE  IsPublicKey(key)
  BY CustodyAssumption DEF IsPublicKey

\* Only of the card of an account an address to seal a message for is read.
LEMMA OnlyAccountsAreSealedFor ==
  ASSUME CardInv, NEW published \in card, NEW case \in {"lower", "upper", "mixed"},
         Read("account", InCase(case, published.text)) # {}
  PROVE  published.kind = "account"
<1>1. published.key \in Keys /\ IdentifierOK(published)
  BY DEF CardInv, IsOf
<1>2. PICK network \in Networks :
        \/ /\ published.kind \in {"account", "validator"}
           /\ published.identifier = ByBech32ConvertingIt(published.kind, published.key, network)
        \/ /\ published.kind = "rri"
           /\ \E name \in Names :
                published.identifier \in ResourceIdentifiers(published.key, name, network)
  BY <1>1 DEF IdentifierOK
<1>3. published.text = published.identifier.text /\ network \in Network
  BY <1>1, CustodyAssumption DEF IdentifierOK
<1>4. CASE published.kind = "validator"
  <2>1. published.text = ByBech32ConvertingIt("validator", published.key, network).text
    BY <1>2, <1>3, <1>4
  <2>2. IsPublicKey(published.key)
    BY <1>1, KeysAreKeys
  <2>3. Read("account", InCase(case, ByBech32ConvertingIt("validator", published.key, network).text)) = {}
    BY <1>3, <2>2, AddressReadBack
  <2> QED
    BY <2>1, <2>3
<1>5. CASE published.kind = "rri"
  BY <1>2, <1>3, <1>5, ResourceReadBack
<1> QED
  BY <1>2, <1>4, <1>5

LEMMA SealStep ==
  ASSUME CustodyInv, NEW case \in {"lower", "upper", "mixed"}, NEW text \in Texts,
         SealMessage(case, text)
  PROVE  CustodyInv'
<1> USE DEF CustodyInv
<1>1. VaultInv' /\ Keychain' = Keychain
  BY VaultStays DEF SealMessage
<1>2. account' = account /\ card' = card /\ reading' = reading /\ mail = {} /\ reading = {}
  BY DEF SealMessage, ReadingInv
<1>3. PICK published \in card : \E address \in Read("account", InCase(case, published.text)) :
       \E sender \in {Friend, address.publicKey}, others \in SUBSET {Stranger} :
       \E message \in Encrypt(sender, address.publicKey, Ephemeral, text) \cup {Plaintext(text)} :
         mail' = {[message |-> message, text |-> text, damaged |-> FALSE,
                   parties |-> {sender, address.publicKey},
                   named |-> {sender, address.publicKey} \cup others]}
  BY DEF SealMessage
<1>a. PICK address \in Read("account", InCase(case, published.text)) :
       \E sender \in {Friend, address.publicKey}, others \in SUBSET {Stranger} :
       \E message \in Encrypt(sender, address.publicKey, Ephemeral, text) \cup {Plaintext(text)} :
         mail' = {[message |-> message, text |-> text, damaged |-> FALSE,
                   parties |-> {sender, address.publicKey},
                   named |-> {sender, address.publicKey} \cup others]}
  BY <1>3
<1>b. PICK sender \in {Friend, address.publicKey}, others \in SUBSET {Stranger} :
       \E message \in Encrypt(sender, address.publicKey, Ephemeral, text) \cup {Plaintext(text)} :
         mail' = {[message |-> message, text |-> text, damaged |-> FALSE,
                   parties |-> {sender, address.publicKey},
                   named |-> {sender, address.publicKey} \cup others]}
  BY <1>a
<1>4. PICK message \in Encrypt(sender, address.publicKey, Ephemeral, text) \cup {Plaintext(text)} :
         mail' = {[message |-> message, text |-> text, damaged |-> FALSE,
                   parties |-> {sender, address.publicKey},
                   named |-> {sender, address.publicKey} \cup others]}
  BY <1>b
<1> DEFINE recipient == address.publicKey
           sealed == [message |-> message, text |-> text, damaged |-> FALSE,
                      parties |-> {sender, recipient}, named |-> {sender, recipient} \cup others]
<1>5. published.kind = "account"
  BY OnlyAccountsAreSealedFor
<1>6. /\ sealed \in [message : {sealed.message}, text : {sealed.text}, damaged : BOOLEAN,
                     parties : {sealed.parties}, named : {sealed.named}]
      /\ sealed.message = message /\ sealed.text = text /\ ~sealed.damaged
      /\ sealed.parties = {sender, recipient} /\ sealed.named = {sender, recipient} \cup others
  OBVIOUS
<1>7. message \in Encrypt(sender, recipient, Ephemeral, text) \cup {Plaintext(text)}
  BY <1>4
<1>8. mail' = {sealed}
  BY <1>4
<1> HIDE DEF sealed, recipient
<1>9. MessageOK(sealed, sender, recipient)
  BY <1>6, <1>7 DEF MessageOK
<1>10. SealedOK(sealed)
  BY <1>6, <1>9 DEF SealedOK
<1>11. MailInv'
  BY <1>2, <1>5, <1>8, <1>10 DEF MailInv, AtMostOne
<1>12. AccountInv' /\ CardInv' /\ ReadingInv'
  BY <1>1, <1>2 DEF AccountInv, CardInv, ReadingInv
<1> QED
  BY <1>1, <1>11, <1>12

LEMMA DamageStep ==
  ASSUME CustodyInv, Damage
  PROVE  CustodyInv'
<1> USE DEF CustodyInv
<1>1. VaultInv' /\ Keychain' = Keychain
  BY VaultStays DEF Damage
<1>2. account' = account /\ card' = card /\ reading' = {}
  BY DEF Damage
<1>3. PICK sealed \in mail :
        /\ IsEncrypted(sealed.message) /\ ~sealed.damaged
        /\ \E message \in DamagedMessages(sealed.message) :
             mail' = {[sealed EXCEPT !.message = message, !.damaged = TRUE]}
  BY DEF Damage
<1>4. PICK message \in DamagedMessages(sealed.message) :
        mail' = {[sealed EXCEPT !.message = message, !.damaged = TRUE]}
  BY <1>3
<1> DEFINE damaged == [sealed EXCEPT !.message = message, !.damaged = TRUE]
<1>5. SealedOK(sealed)
  BY DEF MailInv
<1>6. sealed \in [message : {sealed.message}, text : {sealed.text}, damaged : BOOLEAN,
                  parties : {sealed.parties}, named : {sealed.named}]
  BY <1>5 DEF SealedOK
<1>7. /\ damaged \in [message : {damaged.message}, text : {damaged.text}, damaged : BOOLEAN,
                      parties : {damaged.parties}, named : {damaged.named}]
      /\ damaged.message = message /\ damaged.text = sealed.text /\ damaged.damaged
      /\ damaged.parties = sealed.parties /\ damaged.named = sealed.named
  BY <1>6
<1> HIDE DEF damaged
<1>8. PICK sender, recipient \in sealed.parties :
        /\ sealed.parties = {sender, recipient}
        /\ sealed.parties \subseteq sealed.named
        /\ sealed.named \subseteq {sender, recipient, Stranger}
        /\ MessageOK(sealed, sender, recipient)
  BY <1>5 DEF SealedOK
<1>9. sealed.message \in Encrypt(sender, recipient, Ephemeral, sealed.text)
  BY <1>3, <1>8, PlaintextIsRead DEF MessageOK
<1>10. MessageOK(damaged, sender, recipient)
  BY <1>7, <1>9 DEF MessageOK
<1>11. SealedOK(damaged)
  BY <1>7, <1>8, <1>10 DEF SealedOK
<1>12. mail' = {damaged}
  BY <1>4 DEF damaged
<1>13. MailInv'
  BY <1>2, <1>11, <1>12 DEF MailInv, AtMostOne
<1>14. AccountInv' /\ CardInv' /\ ReadingInv'
  BY <1>1, <1>2 DEF AccountInv, CardInv, ReadingInv, AtMostOne
<1> QED
  BY <1>1, <1>13, <1>14

LEMMA ReadStep ==
  ASSUME CustodyInv, NEW reader, ReadMessage(reader)
  PROVE  CustodyInv'
<1> USE DEF CustodyInv
<1>1. VaultInv' /\ Keychain' = Keychain
  BY VaultStays DEF ReadMessage
<1>2. account' = account /\ card' = card /\ mail' = mail
  BY DEF ReadMessage
<1>3. PICK sealed \in mail :
        reading' = {[by |-> reader,
                     got |-> DecryptTransaction(reader, sealed.named, sealed.message)]}
  BY DEF ReadMessage
<1>4. \A other \in mail : other = sealed
  BY DEF MailInv, AtMostOne
<1>5. ReadingInv'
  BY <1>2, <1>3, <1>4 DEF ReadingInv, AtMostOne
<1>6. AccountInv' /\ CardInv' /\ MailInv'
  BY <1>1, <1>2 DEF AccountInv, CardInv, MailInv
<1> QED
  BY <1>1, <1>5, <1>6

\* Whatever is made, terminated, damaged and opened again, the vault, what it
\* hands out and what is read outside keep the inductive invariant.
THEOREM CustodyInvariant == Spec => []CustodyInv
<1>1. Init => CustodyInv
  BY VaultStart DEF Init, CustodyInv, AccountInv, CardInv, MailInv, ReadingInv, AtMostOne, Nobody
<1>2. CustodyInv /\ [Next]_vars => CustodyInv'
  <2> SUFFICES ASSUME CustodyInv, [Next]_vars
               PROVE  CustodyInv'
    OBVIOUS
  <2>1. CASE VaultStep
    BY <2>1, VaultStepKeeps
  <2>2. CASE Derive \/ DeriveNext
    BY <2>2, DeriveSteps
  <2>3. CASE \E network \in Networks : PublishAddress(network)
    BY <2>3, PublishSteps
  <2>4. CASE \E name \in Names, network \in Networks : PublishResource(name, network)
    BY <2>4, PublishSteps
  <2>5. CASE \E case \in {"lower", "upper", "mixed"}, text \in Texts : SealMessage(case, text)
    BY <2>5, SealStep
  <2>6. CASE Damage
    BY <2>6, DamageStep
  <2>7. CASE \E reader \in {mine.key : mine \in account} \cup {Friend, Stranger} : ReadMessage(reader)
    BY <2>7, ReadStep
  <2>8. CASE UNCHANGED vars
    <3>1. VaultInv' /\ Keychain' = Keychain
      BY <2>8, VaultStays DEF vars, CustodyInv
    <3> QED
      BY <2>8, <3>1 DEF vars, custodyVars, CustodyInv, AccountInv, CardInv, MailInv, ReadingInv
  <2> QED
    BY <2>1, <2>2, <2>3, <2>4, <2>5, <2>6, <2>7, <2>8 DEF Next
<1> QED
  BY <1>1, <1>2, PTL DEF Spec

-----------------------------------------------------------------------------
(* What follows.                                                           *)

\* The vault, the account in use and what is out in the world are of their
\* types in every reachable state; the account is of the keychain in use.
THEOREM TypeCorrect == Spec => []TypeOK
<1>1. ASSUME CustodyInv PROVE TypeOK
  <2>1. /\ VaultInv /\ AccountInv /\ CardInv /\ MailInv /\ ReadingInv
    BY <1>1 DEF CustodyInv
  <2>2. VaultTypeOK
    BY <2>1, CallTypes DEF VaultInv, VaultTypeOK, CallType, CallOK
  <2>3. \A set \in {account, card, mail, reading} : Cardinality(set) <= 1
    BY <2>1, AtMostOneIsFew DEF AccountInv, CardInv, MailInv, ReadingInv
  <2> QED
    BY <2>1, <2>2, <2>3 DEF TypeOK, AccountInv, MailInv, ReadingInv
<1> QED
  BY <1>1, CustodyInvariant, PTL

\* No keychain is handed out by a call whose keystore was not saved.
THEOREM OnlySavedIsHandedOut == Spec => []HandedOutIsSaved
<1>1. CustodyInv => HandedOutIsSaved
  BY CallTypes DEF CustodyInv, HandedOutIsSaved, Running, CallOK
<1> QED
  BY <1>1, CustodyInvariant, PTL

\* The path an account shows derives its key again, in any wallet of the same
\* mnemonic, however the path was typed.
THEOREM RestoredKeysAreTheSame == Spec => []RestoredKeyIsTheSame
<1>1. CustodyInv => RestoredKeyIsTheSame
  BY DEF CustodyInv, CardInv, IsOf, GoodPath, RestoredKeyIsTheSame
<1> QED
  BY <1>1, CustodyInvariant, PTL

\* Identifiers are read as what they were made of, as nothing else, whatever
\* the key, the name, the network and the case.
THEOREM IdentifiersAreReadBack == Spec => []IdentifiersReadBack
<1>1. ASSUME CustodyInv, NEW published \in card
      PROVE  /\ \A case \in {"lower", "upper", "mixed"}, kind \in {"account", "validator", "rri"} :
                  LET found == Read(kind, InCase(case, published.text)) IN
                    IF case = "mixed" \/ kind # published.kind THEN found = {}
                    ELSE \E one \in found :
                           /\ found = {one}
                           /\ one.network = published.identifier.network
                           /\ IF kind = "rri"
                              THEN /\ one.name = published.identifier.name
                                   /\ one.hash.payload = published.identifier.hash.payload
                                   /\ \A other \in Read("rri", published.text) : SameRRI(one, other)
                              ELSE SameAddress(one, published.identifier)
             /\ published.kind # "rri" =>
                  \E one \in AccountAddressesFromBuffer(published.text.data),
                     other \in ValidatorAddressesFromBuffer(published.text.data) :
                    one.publicKey = published.key /\ other.publicKey = published.key
  <2> DEFINE kindOf == published.kind
             key    == published.key
  <2>1. IsPublicKey(key) /\ IdentifierOK(published)
    BY <1>1, KeysAreKeys DEF CustodyInv, CardInv, IsOf
  <2>2. PICK network \in Networks :
          \/ /\ kindOf \in {"account", "validator"}
             /\ published.identifier = ByBech32ConvertingIt(kindOf, key, network)
          \/ /\ kindOf = "rri"
             /\ \E name \in Names : published.identifier \in ResourceIdentifiers(key, name, network)
    BY <2>1 DEF IdentifierOK
  <2>3. published.text = published.identifier.text /\ network \in Network
    BY <2>1, CustodyAssumption DEF IdentifierOK
  <2> HIDE DEF key
  <2>4. CASE kindOf \in {"account", "validator"}
    <3>1. published.identifier = ByBech32ConvertingIt(kindOf, key, network) /\ kindOf # "rri"
      BY <2>2, <2>4
    <3>2. \E one \in AccountAddressesFromBuffer(published.text.data),
             other \in ValidatorAddressesFromBuffer(published.text.data) :
            one.publicKey = key /\ other.publicKey = key
      BY <2>1, <2>3, <2>4, <3>1, KeyReadBack
    <3>3. ASSUME NEW case \in {"lower", "upper", "mixed"}, NEW kind \in {"account", "validator", "rri"}
          PROVE  LET found == Read(kind, InCase(case, published.text)) IN
                   IF case = "mixed" \/ kind # kindOf THEN found = {}
                   ELSE \E one \in found :
                          /\ found = {one} /\ one.network = published.identifier.network
                          /\ SameAddress(one, published.identifier)
      <4>1. published.text = ByBech32ConvertingIt(kindOf, key, network).text
        BY <2>3, <3>1
      <4>a. kindOf \in {"account", "validator"} /\ IsPublicKey(key) /\ network \in Network
        BY <2>1, <2>3, <2>4 DEF key
      <4> HIDE DEF kindOf
      <4>2. CASE case = "mixed" \/ kind # kindOf
        <5>1. Read(kind, InCase(case, ByBech32ConvertingIt(kindOf, key, network).text)) = {}
          BY <4>2, <4>a, NothingElseReadBack
        <5> QED
          BY <4>1, <4>2, <5>1
      <4>3. CASE case # "mixed" /\ kind = kindOf
        <5>1. case \in {"lower", "upper"}
          BY <4>3
        <5>2. \E one \in Read(kindOf, InCase(case, ByBech32ConvertingIt(kindOf, key, network).text)) :
                /\ Read(kindOf, InCase(case, ByBech32ConvertingIt(kindOf, key, network).text)) = {one}
                /\ one.network = ByBech32ConvertingIt(kindOf, key, network).network
                /\ SameAddress(one, ByBech32ConvertingIt(kindOf, key, network))
          BY <4>a, <5>1, ItselfReadBack
        <5> QED
          BY <3>1, <4>1, <4>3, <5>2
      <4> QED
        BY <4>2, <4>3
    <3> QED
      BY <3>1, <3>2, <3>3 DEF key
  <2>5. CASE kindOf = "rri"
    <3>1. PICK name \in Names : published.identifier \in ResourceIdentifiers(key, name, network)
      BY <2>2, <2>5
    <3>2. ASSUME NEW case \in {"lower", "upper", "mixed"}, NEW kind \in {"account", "validator", "rri"}
          PROVE  LET found == Read(kind, InCase(case, published.text)) IN
                   IF case = "mixed" \/ kind # "rri" THEN found = {}
                   ELSE \E one \in found :
                          /\ found = {one} /\ one.network = published.identifier.network
                          /\ one.name = published.identifier.name
                          /\ one.hash.payload = published.identifier.hash.payload
                          /\ \A other \in Read("rri", published.text) : SameRRI(one, other)
      <4> DEFINE identifier == published.identifier
      <4>1. identifier \in ResourceIdentifiers(key, name, network) /\ network \in Network
        BY <2>3, <3>1
      <4>2. published.text = identifier.text
        BY <2>3
      <4> HIDE DEF identifier
      <4>3. CASE case = "mixed" \/ kind # "rri"
        <5>1. Read(kind, InCase(case, identifier.text)) = {}
          BY <4>1, <4>3, NothingElseReadAsResource
        <5> QED
          BY <4>2, <4>3, <5>1
      <4>4. CASE case # "mixed" /\ kind = "rri"
        <5>1. case \in {"lower", "upper"}
          BY <4>4
        <5>2. \E one \in Read("rri", InCase(case, identifier.text)) :
                /\ Read("rri", InCase(case, identifier.text)) = {one}
                /\ one.network = identifier.network /\ one.name = identifier.name
                /\ one.hash.payload = identifier.hash.payload
                /\ \A other \in Read("rri", identifier.text) : SameRRI(one, other)
          BY <4>1, <5>1, ResourceReadAsItself
        <5> QED
          BY <4>2, <4>4, <5>2 DEF identifier
      <4> QED
        BY <4>3, <4>4
    <3> QED
      BY <2>5, <3>2
  <2> QED
    BY <2>2, <2>4, <2>5
<1>2. CustodyInv => IdentifiersReadBack
  BY <1>1 DEF IdentifiersReadBack
<1> QED
  BY <1>2, CustodyInvariant, PTL

\* An encrypted message is read by its two parties and nobody else, undamaged
\* and in a transaction that names no third; what is read is what was sealed.
THEOREM PartiesOnlyRead == Spec => []ReadByPartiesOnly
<1>1. CustodyInv => ReadByPartiesOnly
  BY SealedIsReadByParties DEF CustodyInv, MailInv, ReadingInv, ReadByPartiesOnly
<1> QED
  BY <1>1, CustodyInvariant, PTL

-----------------------------------------------------------------------------
(* What a wallet that is opened again is of.                               *)

\* The keystore is of one of the calls made, and of the entropy of its mnemonic.
KeystoreOf(keystore, made) ==
  LET maker == keystore.box.key[2] IN
    /\ maker \in DOMAIN made
    /\ \A mnemonic \in made[maker].mnemonic : mnemonic.entropy = keystore.box.text

\* A call makes a mnemonic of one language, and hands out the keychain that its
\* keystore is of, in the default language.
KeptOK(call) ==
  /\ AtMostOne(call.keystore)
  /\ \A mnemonic \in call.mnemonic :
       \E language \in Languages : mnemonic = Mnemonic(mnemonic.entropy, language)
  /\ \A keystore \in call.keystore, keychain \in call.keychain :
       keychain = Mnemonic(keystore.box.text, DefaultLanguage)

EntropyInv ==
  /\ AtMostOne(disk) /\ \A keystore \in disk : KeystoreOf(keystore, calls)
  /\ \A c \in DOMAIN calls :
       /\ KeptOK(calls[c])
       /\ \A keystore \in calls[c].keystore : KeystoreOf(keystore, calls)

\* Calls keep the mnemonic they make, so that a keystore stays that of its call.
LEMMA StaysKeystoreOf ==
  ASSUME NEW made, NEW more, NEW keystore, KeystoreOf(keystore, made),
         \A c \in DOMAIN made : c \in DOMAIN more /\ more[c].mnemonic = made[c].mnemonic
  PROVE  KeystoreOf(keystore, more)
  BY DEF KeystoreOf

LEMMA EntropyStarts ==
  ASSUME VaultInv, EntropyInv, NEW call \in CallType, calls' = Append(calls, call),
         disk' = disk, KeptOK(call),
         \A keystore \in call.keystore : KeystoreOf(keystore, calls')
  PROVE  EntropyInv'
<1>1. Len(calls) \in Nat /\ calls \in Seq(CallType) /\ DOMAIN calls = 1..Len(calls)
  BY CallTypes DEF VaultInv
<1>2. /\ calls' \in Seq(CallType) /\ Len(calls') = Len(calls) + 1
      /\ calls'[Len(calls) + 1] = call
      /\ \A c \in 1..Len(calls) : calls'[c] = calls[c]
  BY <1>1, AppendProperties
<1>3. DOMAIN calls' = 1..(Len(calls) + 1)
  BY <1>2
<1>4. \A c \in DOMAIN calls : c \in DOMAIN calls' /\ calls'[c].mnemonic = calls[c].mnemonic
  BY <1>1, <1>2, <1>3
<1>5. \A keystore : KeystoreOf(keystore, calls) => KeystoreOf(keystore, calls')
  BY <1>4, StaysKeystoreOf
<1>6. \A c \in DOMAIN calls' : c \in DOMAIN calls \/ c = Len(calls) + 1
  BY <1>1, <1>3
<1> QED
  BY <1>1, <1>2, <1>5, <1>6 DEF EntropyInv

LEMMA EntropyGoesOn ==
  ASSUME VaultInv, EntropyInv, NEW c \in DOMAIN calls, NEW call \in CallType,
         calls' = [calls EXCEPT ![c] = call], call.mnemonic = calls[c].mnemonic, KeptOK(call),
         call.keystore \subseteq disk \cup calls[c].keystore,
         disk' = disk \/ disk' = calls[c].keystore
  PROVE  EntropyInv'
<1>1. calls \in Seq(CallType)
  BY DEF VaultInv
<1>2. /\ DOMAIN calls' = DOMAIN calls
      /\ calls'[c] = call /\ \A d \in DOMAIN calls : d # c => calls'[d] = calls[d]
  BY <1>1, ElementReplaced
<1>3. \A d \in DOMAIN calls : d \in DOMAIN calls' /\ calls'[d].mnemonic = calls[d].mnemonic
  BY <1>2
<1>4. \A keystore : KeystoreOf(keystore, calls) => KeystoreOf(keystore, calls')
  BY <1>3, StaysKeystoreOf
<1>5. AtMostOne(disk') /\ \A keystore \in disk' : KeystoreOf(keystore, calls')
  BY <1>4 DEF EntropyInv, KeptOK
<1>6. \A d \in DOMAIN calls' :
        KeptOK(calls'[d]) /\ \A keystore \in calls'[d].keystore : KeystoreOf(keystore, calls')
  BY <1>2, <1>4 DEF EntropyInv
<1> QED
  BY <1>5, <1>6 DEF EntropyInv

LEMMA EntropyOfNewCalls ==
  ASSUME VaultInv, EntropyInv,
         \/ \E mnemonic \in Mnemonics, password \in Passwords :
              ByEncryptingMnemonicAndSavingKeystore(mnemonic, password)
         \/ \E password \in Passwords : ByLoadingAndDecryptingKeystore(password)
  PROVE  EntropyInv'
<1>0. Len(calls) \in Nat
  BY CallTypes
<1>1. ASSUME NEW mnemonic \in Mnemonics, NEW password \in Passwords,
             ByEncryptingMnemonicAndSavingKeystore(mnemonic, password)
      PROVE  EntropyInv'
  <2> DEFINE secret == EncryptSecret(Len(calls) + 1, mnemonic, password)
             call == [kind |-> "create", stage |-> "saving", mnemonic |-> {mnemonic},
                      password |-> password, saved |-> FALSE, keychain |-> NoKeychain,
                      keystore |-> secret]
  <2>1. /\ mnemonic \in MnemonicType
        /\ \E language \in Languages : mnemonic = Mnemonic(mnemonic.entropy, language)
    BY MnemonicsTyped
  <2>2. /\ secret \subseteq KeystoreType
        /\ \A keystore \in secret : /\ keystore.box.key = <<password, Len(calls) + 1>>
                                    /\ keystore.box.text = mnemonic.entropy
    BY <1>0, <2>1, SecretEncrypted
  <2>3. AtMostOne(secret)
    BY DEF EncryptSecret, Seal, DeriveKey, AtMostOne
  <2>4. calls' = Append(calls, call) /\ disk' = disk
    BY <1>1 DEF ByEncryptingMnemonicAndSavingKeystore
  <2> HIDE DEF secret
  <2>5. call \in CallType
    BY <2>1, <2>2 DEF CallType, NoKeychain
  <2>6. KeptOK(call)
    BY <2>1, <2>3 DEF KeptOK, NoKeychain
  <2>7. call.keystore = secret /\ call.mnemonic = {mnemonic}
    OBVIOUS
  <2> HIDE DEF call
  <2>8. Len(calls) + 1 \in DOMAIN calls' /\ calls'[Len(calls) + 1] = call
    BY <2>4, <2>5, CallTypes, AppendProperties DEF VaultInv
  <2>9. ASSUME NEW keystore \in call.keystore PROVE KeystoreOf(keystore, calls')
    <3>1. keystore.box.key[2] = Len(calls) + 1 /\ keystore.box.text = mnemonic.entropy
      BY <2>2, <2>7
    <3> QED
      BY <3>1, <2>7, <2>8 DEF KeystoreOf
  <2> QED
    BY <2>4, <2>5, <2>6, <2>9, EntropyStarts
<1>2. ASSUME NEW password \in Passwords, ByLoadingAndDecryptingKeystore(password)
      PROVE  EntropyInv'
  <2> DEFINE call == [kind |-> "open", stage |-> "loading", mnemonic |-> {},
                      password |-> password, saved |-> FALSE, keychain |-> NoKeychain,
                      keystore |-> {}]
  <2>1. call \in CallType /\ KeptOK(call) /\ call.keystore = {}
    BY DEF CallType, NoKeychain, KeptOK, AtMostOne
  <2>2. calls' = Append(calls, call) /\ disk' = disk
    BY <1>2 DEF ByLoadingAndDecryptingKeystore
  <2> HIDE DEF call
  <2> QED
    BY <2>1, <2>2, EntropyStarts
<1> QED
  BY <1>1, <1>2

\* What a call that is under way becomes: only its keystore, if it is loaded, and
\* its keychain, once it is done, matter.
LEMMA EntropyOfSteps ==
  ASSUME VaultInv, EntropyInv, NEW c \in DOMAIN calls,
         \/ Saved(c) \/ Loaded(c) \/ LoadFails(c) \/ FromKeystore(c) \/ FromKeystoreFails(c)
         \/ \E wrote \in BOOLEAN : SaveFails(c, wrote)
  PROVE  EntropyInv'
<1>1. calls[c] \in CallType /\ CallOK(calls[c]) /\ KeptOK(calls[c])
  BY CallTypes DEF EntropyInv
<1>2. ASSUME NEW stage \in {"decrypting", "failed", "rejected"}, NEW saved \in BOOLEAN,
             calls' = [calls EXCEPT ![c] = [calls[c] EXCEPT !.stage = stage, !.saved = saved]],
             disk' = disk \/ disk' = calls[c].keystore
      PROVE  EntropyInv'
  <2> DEFINE call == [calls[c] EXCEPT !.stage = stage, !.saved = saved]
  <2>1. /\ call \in CallType /\ call.mnemonic = calls[c].mnemonic
        /\ call.keystore = calls[c].keystore /\ call.keychain = calls[c].keychain
    BY <1>1 DEF CallType
  <2>2. calls' = [calls EXCEPT ![c] = call]
    BY <1>2
  <2> HIDE DEF call
  <2>3. KeptOK(call)
    BY <1>1, <2>1 DEF KeptOK
  <2> QED
    BY <1>2, <2>1, <2>2, <2>3, EntropyGoesOn
<1>3. calls[c].saved \in BOOLEAN
  BY <1>1 DEF CallType
<1>4. CASE Saved(c)
  <2>1. calls' = [calls EXCEPT ![c] = [calls[c] EXCEPT !.stage = "decrypting", !.saved = TRUE]]
    BY <1>4 DEF Saved
  <2> QED
    BY <2>1, <1>2, <1>4 DEF Saved
<1>5. ASSUME NEW wrote \in BOOLEAN, SaveFails(c, wrote) PROVE EntropyInv'
  <2>1. calls' = [calls EXCEPT ![c] = [calls[c] EXCEPT !.stage = "failed", !.saved = wrote]]
    BY <1>5 DEF SaveFails
  <2>2. disk' = disk \/ disk' = calls[c].keystore
    BY <1>5 DEF SaveFails
  <2> QED
    BY <2>1, <2>2, <1>2
<1>6. CASE Loaded(c)
  <2> DEFINE call == [calls[c] EXCEPT !.stage = "decrypting", !.keystore = disk]
  <2>1. calls[c].keychain = {} /\ calls' = [calls EXCEPT ![c] = call] /\ disk' = disk
    BY <1>1, <1>6 DEF Loaded, Running, CallOK, NoKeychain
  <2>2. /\ call \in CallType /\ call.mnemonic = calls[c].mnemonic
        /\ call.keystore = disk /\ call.keychain = calls[c].keychain
    BY <1>1 DEF CallType, VaultInv
  <2> HIDE DEF call
  <2>3. KeptOK(call)
    BY <1>1, <2>1, <2>2 DEF KeptOK, EntropyInv
  <2> QED
    BY <2>1, <2>2, <2>3, EntropyGoesOn
<1>7. CASE LoadFails(c)
  <2>1. calls' = [calls EXCEPT ![c] = [calls[c] EXCEPT !.stage = "failed", !.saved = calls[c].saved]]
    BY <1>1, <1>7 DEF LoadFails, CallType
  <2> QED
    BY <2>1, <1>2, <1>3, <1>7 DEF LoadFails
<1>8. CASE FromKeystore(c)
  <2>1. PICK keystore \in calls[c].keystore :
          calls' = [calls EXCEPT ![c].stage = "done",
                                 ![c].keychain = Keychains(keystore, calls[c].password)]
    BY <1>8 DEF FromKeystore
  <2> DEFINE found == Keychains(keystore, calls[c].password)
             call  == [calls[c] EXCEPT !.stage = "done", !.keychain = found]
  <2>2. /\ found \subseteq MnemonicType
        /\ \A keychain \in found : keychain = Mnemonic(keystore.box.text, DefaultLanguage)
    BY <1>1, KeychainsOfKeystore DEF CallType
  <2>3. calls' = [calls EXCEPT ![c] = call] /\ disk' = disk
    BY <1>8, <2>1 DEF FromKeystore
  <2> HIDE DEF found
  <2>4. /\ call \in CallType /\ call.mnemonic = calls[c].mnemonic
        /\ call.keystore = calls[c].keystore /\ call.keychain = found
    BY <1>1, <2>2 DEF CallType
  <2> HIDE DEF call
  <2>5. \A other \in calls[c].keystore : other = keystore
    BY <1>1 DEF KeptOK, AtMostOne
  <2>6. KeptOK(call)
    BY <1>1, <2>2, <2>4, <2>5 DEF KeptOK
  <2> QED
    BY <2>3, <2>4, <2>6, EntropyGoesOn
<1>9. CASE FromKeystoreFails(c)
  <2>1. PICK stage \in {"rejected", "failed"} :
          calls' = [calls EXCEPT ![c] = [calls[c] EXCEPT !.stage = stage, !.saved = calls[c].saved]]
    BY <1>1, <1>9 DEF FromKeystoreFails, CallType
  <2> QED
    BY <2>1, <1>2, <1>3, <1>9 DEF FromKeystoreFails
<1> QED
  BY <1>4, <1>5, <1>6, <1>7, <1>8, <1>9

LEMMA EntropyWhenTerminated ==
  ASSUME VaultInv, EntropyInv, Terminate
  PROVE  EntropyInv'
<1>1. disk' = disk /\ DOMAIN calls' = DOMAIN calls
  BY DEF Terminate
<1>2. ASSUME NEW c \in DOMAIN calls
      PROVE  /\ calls'[c].mnemonic = calls[c].mnemonic /\ calls'[c].keystore = calls[c].keystore
             /\ calls'[c].keychain = calls[c].keychain
  <2>1. calls[c] \in CallType
    BY CallTypes
  <2> QED
    BY <2>1 DEF Terminate, CallType
<1>3. \A keystore : KeystoreOf(keystore, calls) => KeystoreOf(keystore, calls')
  BY <1>1, <1>2, StaysKeystoreOf
<1> QED
  BY <1>1, <1>2, <1>3 DEF EntropyInv, KeptOK

LEMMA EntropyWhenDecayed ==
  ASSUME VaultInv, EntropyInv, Decay
  PROVE  EntropyInv'
<1>0. PICK keystore \in disk : \E damaged \in Damaged(keystore) : disk' = {damaged}
  BY DEF Decay
<1>1. PICK damaged \in Damaged(keystore) : disk' = {damaged}
  BY <1>0
<1>2. keystore \in KeystoreType /\ KeystoreOf(keystore, calls)
  BY DEF VaultInv, EntropyInv
<1>3. damaged.box.key = keystore.box.key /\ damaged.box.text = keystore.box.text
  BY <1>2, DamageKeeps
<1>4. KeystoreOf(damaged, calls)
  BY <1>2, <1>3 DEF KeystoreOf
<1>5. calls' = calls
  BY DEF Decay
<1> QED
  BY <1>1, <1>4, <1>5 DEF EntropyInv, AtMostOne

LEMMA EntropyInvariant == Spec => []EntropyInv
<1>1. Init => EntropyInv
  BY DEF Init, VaultInit, EntropyInv, AtMostOne
<1>2. CustodyInv /\ EntropyInv /\ [Next]_vars => EntropyInv'
  <2>1. [Next]_vars => CallsNext \/ Decay \/ UNCHANGED vaultVars
    BY DEF Next, vars, VaultStep, Derive, DeriveNext, DeriveAt, PublishAddress, PublishResource,
           SealMessage, Damage, ReadMessage
  <2>2. ASSUME EntropyInv, UNCHANGED vaultVars PROVE EntropyInv'
    BY <2>2 DEF EntropyInv, vaultVars
  <2>3. VaultInv /\ EntropyInv /\ CallsNext => EntropyInv'
    BY EntropyOfNewCalls, EntropyOfSteps, EntropyWhenTerminated DEF CallsNext
  <2> QED
    BY <2>1, <2>2, <2>3, EntropyWhenDecayed DEF CustodyInv
<1> QED
  BY <1>1, <1>2, CustodyInvariant, PTL DEF Spec

\* A wallet that is opened again is of the entropy that was saved, in English.
ReopenedInDefaultLanguage ==
  \A c \in Running("done") : \A keystore \in calls[c].keystore :
    \A mnemonic \in MadeFrom(keystore) : \A keychain \in calls[c].keychain :
      keychain = Mnemonic(mnemonic.entropy, DefaultLanguage)

\* Whatever is saved, lost, damaged and loaded late, a keychain that is opened
\* has the entropy of the mnemonic its keystore was made from; the language is
\* all that Keystore.encryptSecret and MnemonicT.fromEntropy do not keep.
THEOREM ReopenedHasTheEntropy == Spec => []ReopenedInDefaultLanguage
<1>1. ASSUME EntropyInv, NEW c \in Running("done"), NEW keystore \in calls[c].keystore,
             NEW mnemonic \in MadeFrom(keystore), NEW keychain \in calls[c].keychain
      PROVE  keychain = Mnemonic(mnemonic.entropy, DefaultLanguage)
  <2>1. c \in DOMAIN calls
    BY DEF Running
  <2>2. keychain = Mnemonic(keystore.box.text, DefaultLanguage) /\ KeystoreOf(keystore, calls)
    BY <1>1, <2>1 DEF EntropyInv, KeptOK
  <2>3. mnemonic \in calls[keystore.box.key[2]].mnemonic
    BY DEF MadeFrom
  <2> QED
    BY <2>2, <2>3 DEF KeystoreOf
<1>2. EntropyInv => ReopenedInDefaultLanguage
  BY <1>1 DEF ReopenedInDefaultLanguage
<1> QED
  BY <1>2, EntropyInvariant, PTL

\* So the wallet has the keys of the one that was made if mnemonics are in the
\* default language only: ReopenedWalletIsTheSame fails for no other reason.
THEOREM ReopenedInEnglish ==
  ASSUME Languages \subseteq {DefaultLanguage}
  PROVE  Spec => []ReopenedWalletIsTheSame
<1>1. ASSUME EntropyInv, ReopenedInDefaultLanguage, NEW c \in Running("done"),
             NEW keystore \in calls[c].keystore, NEW mnemonic \in MadeFrom(keystore),
             NEW keychain \in calls[c].keychain
      PROVE  HDMasterSeed(keychain) = HDMasterSeed(mnemonic)
  <2>1. PICK d \in DOMAIN calls : mnemonic \in calls[d].mnemonic
    BY DEF MadeFrom
  <2>2. PICK language \in Languages : mnemonic = Mnemonic(mnemonic.entropy, language)
    BY <1>1, <2>1 DEF EntropyInv, KeptOK
  <2>3. keychain = Mnemonic(mnemonic.entropy, DefaultLanguage) /\ language = DefaultLanguage
    BY <1>1 DEF ReopenedInDefaultLanguage
  <2> QED
    BY <2>2, <2>3
<1>2. EntropyInv /\ ReopenedInDefaultLanguage => ReopenedWalletIsTheSame
  BY <1>1 DEF ReopenedWalletIsTheSame
<1> QED
  BY <1>2, EntropyInvariant, ReopenedHasTheEntropy, PTL
=============================================================================
