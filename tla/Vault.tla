------------------------------- MODULE Vault -------------------------------
(***************************************************************************)
(* Mnemonics, keystores, and how a keychain is made from them: the calls   *)
(* byEncryptingMnemonicAndSavingKeystore and byLoadingAndDecryptingKeystore*)
(* of packages/account, with the mnemonics and the keystore of packages/   *)
(* crypto. A call waits for scrypt, which takes its time, and for the save *)
(* or load that the wallet app gives it, which may fail. Several may be    *)
(* under way, and the app may be terminated at any moment.                 *)
(***************************************************************************)
EXTENDS SealedMessages, Sequences

CONSTANTS
  Entropies,   \* entropy of mnemonics: [id, length in bytes]
  Languages,   \* those of the supported languages that are used
  Passwords,
  MaxCalls,    \* bound: calls made
  MaxCrashes   \* bound: times the app is terminated

ASSUME VaultAssumption == MaxCalls \in Nat /\ MaxCrashes \in Nat

VARIABLES
  disk,        \* the keystore on disk, none at first
  calls,       \* the calls made
  wallet,      \* the call that made the keychain in use, or 0
  crashes      \* how often the app was terminated

vaultVars == <<disk, calls, wallet, crashes>>

-----------------------------------------------------------------------------
(* Mnemonics.                                                              *)

SupportedWordCounts == {12, 15, 18, 21, 24}

WordCount(entropy) == (entropy.length * 8 * 3) \div 32

\* The words are those of one language, and the phrase is all of them.
Mnemonic(entropy, language) ==
  [entropy |-> entropy, language |-> language, phrase |-> <<entropy, language>>]

MnemonicsFromEntropy(entropy, language) ==
  IF entropy.length % 4 = 0 /\ WordCount(entropy) \in SupportedWordCounts
  THEN {Mnemonic(entropy, language)} ELSE {}

\* A phrase with its checksum, of the words of the language it is read in.
MnemonicsFromPhrase(text, language) ==
  IF text.checksum /\ text.language = language
  THEN MnemonicsFromEntropy(text.entropy, language) ELSE {}

\* fromKeystore gives no language.
DefaultLanguage == "ENGLISH"

\* The seed is derived from the phrase, in whatever language it is.
HDMasterSeed(mnemonic) == mnemonic.phrase

\* A new one, or one whose phrase is typed in.
Mnemonics ==
  LET new   == {MnemonicsFromEntropy(entropy, language)
                  : entropy \in Entropies, language \in Languages}
      typed == {MnemonicsFromPhrase([entropy |-> entropy, language |-> spoken,
                                     checksum |-> checksum], language)
                  : entropy \in Entropies, spoken \in Languages, language \in Languages,
                    checksum \in BOOLEAN}
  IN  UNION (new \cup typed)

-----------------------------------------------------------------------------
(* Keystores.                                                              *)

NoAdditionalData == "none"

\* Of the mnemonic the entropy is encrypted; call says whose the salt is.
EncryptSecret(call, mnemonic, password) ==
  {[kdf |-> "scrypt", salt |-> call, missing |-> "nothing", box |-> box]
     : box \in UNION {Seal(key, NoAdditionalData, mnemonic.entropy)
                        : key \in DeriveKey("scrypt", password, call)}}

\* isKeystore does not look for the mac and the nonce.
IsKeystore(keystore) == keystore.missing \notin {"crypto", "kdfparams", "id"}

DecryptThrows(keystore) == keystore.missing \in {"mac", "nonce"}

Decrypted(keystore, password) ==
  UNION {Open(key, NoAdditionalData, keystore.box)
           : key \in DeriveKey(keystore.kdf, password, keystore.salt)}

Damaged(keystore) ==
  {[keystore EXCEPT !.missing = field] : field \in {"crypto", "mac"}}
  \cup {[keystore EXCEPT !.kdf = "pbkdf2"], [keystore EXCEPT !.salt = 0],
        [keystore EXCEPT !.box.whole = FALSE], [keystore EXCEPT !.box.tag = TagLength - 1]}

-----------------------------------------------------------------------------
(* Calls.                                                                  *)

Running(stage) == {c \in DOMAIN calls : calls[c].stage = stage}

NoKeychain == {}

VaultInit == disk = {} /\ calls = <<>> /\ wallet = 0 /\ crashes = 0

ByEncryptingMnemonicAndSavingKeystore(mnemonic, password) ==
  /\ Len(calls) < MaxCalls
  /\ calls' = Append(calls, [kind |-> "create", stage |-> "saving", mnemonic |-> {mnemonic},
                             password |-> password, saved |-> FALSE, keychain |-> NoKeychain,
                             keystore |-> EncryptSecret(Len(calls) + 1, mnemonic, password)])
  /\ UNCHANGED <<disk, wallet, crashes>>

Saved(c) ==
  /\ c \in Running("saving")
  /\ disk' = calls[c].keystore
  /\ calls' = [calls EXCEPT ![c].stage = "decrypting", ![c].saved = TRUE]
  /\ UNCHANGED <<wallet, crashes>>

\* A slip: that it was not saved is only logged.
SaveFailsQuietly(c, wrote) ==
  /\ c \in Running("saving")
  /\ disk' = IF wrote THEN calls[c].keystore ELSE disk
  /\ calls' = [calls EXCEPT ![c].stage = "decrypting", ![c].saved = wrote]
  /\ UNCHANGED <<wallet, crashes>>

\* Written or not: what the app's save did before it failed is its own affair.
SaveFails(c, wrote) ==
  /\ c \in Running("saving")
  /\ disk' = IF wrote THEN calls[c].keystore ELSE disk
  /\ calls' = [calls EXCEPT ![c].stage = "failed", ![c].saved = wrote]
  /\ UNCHANGED <<wallet, crashes>>

ByLoadingAndDecryptingKeystore(password) ==
  /\ Len(calls) < MaxCalls
  /\ calls' = Append(calls, [kind |-> "open", stage |-> "loading", mnemonic |-> {},
                             password |-> password, saved |-> FALSE, keychain |-> NoKeychain,
                             keystore |-> {}])
  /\ UNCHANGED <<disk, wallet, crashes>>

Loaded(c) ==
  /\ c \in Running("loading") /\ disk # {}
  /\ \A keystore \in disk : IsKeystore(keystore)
  /\ calls' = [calls EXCEPT ![c].stage = "decrypting", ![c].keystore = disk]
  /\ UNCHANGED <<disk, wallet, crashes>>

\* Nothing to load, no keystore, or no luck.
LoadFails(c) ==
  /\ c \in Running("loading")
  /\ calls' = [calls EXCEPT ![c].stage = "failed"]
  /\ UNCHANGED <<disk, wallet, crashes>>

\* The keychain of the mnemonic with the entropy that was decrypted.
Keychains(keystore, password) ==
  UNION {MnemonicsFromEntropy(entropy, DefaultLanguage) : entropy \in Decrypted(keystore, password)}

FromKeystore(c) ==
  \E keystore \in calls[c].keystore :
    /\ c \in Running("decrypting")
    /\ ~DecryptThrows(keystore)
    /\ Keychains(keystore, calls[c].password) # NoKeychain
    /\ calls' = [calls EXCEPT ![c].stage = "done",
                              ![c].keychain = Keychains(keystore, calls[c].password)]
    /\ wallet' = c
    /\ UNCHANGED <<disk, crashes>>

\* A slip: what cannot be decrypted is no error.
FromKeystoreFailsUnnoticed(c) ==
  \E keystore \in calls[c].keystore :
    /\ c \in Running("decrypting")
    /\ Keychains(keystore, calls[c].password) = NoKeychain
    /\ calls' = [calls EXCEPT ![c].stage = "done"]
    /\ wallet' = c
    /\ UNCHANGED <<disk, crashes>>

\* A mac that is missing throws, and the promise of the result is rejected.
FromKeystoreFails(c) ==
  \E keystore \in calls[c].keystore :
    /\ c \in Running("decrypting")
    /\ \/ /\ DecryptThrows(keystore)
          /\ calls' = [calls EXCEPT ![c].stage = "rejected"]
       \/ /\ ~DecryptThrows(keystore)
          /\ Keychains(keystore, calls[c].password) = NoKeychain
          /\ calls' = [calls EXCEPT ![c].stage = "failed"]
    /\ UNCHANGED <<disk, wallet, crashes>>

\* The app is terminated: what is not on disk is lost.
Terminate ==
  /\ crashes < MaxCrashes
  /\ crashes' = crashes + 1
  /\ wallet' = 0
  /\ calls' = [c \in DOMAIN calls |->
                 IF calls[c].stage \in {"saving", "loading", "decrypting"}
                 THEN [calls[c] EXCEPT !.stage = "lost"] ELSE calls[c]]
  /\ UNCHANGED disk

\* What is on disk decays.
Decay ==
  /\ \E keystore \in disk : \E damaged \in Damaged(keystore) :
       keystore.box.whole /\ keystore.missing = "nothing" /\ disk' = {damaged}
  /\ UNCHANGED <<calls, wallet, crashes>>

CallsNext ==
  \/ \E mnemonic \in Mnemonics, password \in Passwords :
       ByEncryptingMnemonicAndSavingKeystore(mnemonic, password)
  \/ \E password \in Passwords : ByLoadingAndDecryptingKeystore(password)
  \/ \E c \in DOMAIN calls :
       \/ Saved(c) \/ Loaded(c) \/ LoadFails(c) \/ FromKeystore(c) \/ FromKeystoreFails(c)
       \/ \E wrote \in BOOLEAN : SaveFails(c, wrote)
  \/ Terminate

-----------------------------------------------------------------------------
(* Properties.                                                             *)

MnemonicType == [entropy : Entropies, language : Languages \cup {DefaultLanguage},
                 phrase : Entropies \X (Languages \cup {DefaultLanguage})]

\* The calls are of their types, and the keychain in use is one they made.
VaultTypeOK ==
  /\ Len(calls) <= MaxCalls
  /\ \A c \in DOMAIN calls :
       /\ calls[c].kind \in {"create", "open"}
       /\ calls[c].stage \in
            {"saving", "loading", "decrypting", "done", "failed", "rejected", "lost"}
       /\ calls[c].mnemonic \subseteq MnemonicType /\ calls[c].keychain \subseteq MnemonicType
       /\ (calls[c].stage = "done") = (calls[c].keychain # NoKeychain)
  /\ wallet \in {0} \cup Running("done")
  /\ crashes \in 0..MaxCrashes

\* The mnemonics that were encrypted in a keystore.
MadeFrom(keystore) ==
  UNION {calls[c].mnemonic : c \in {d \in DOMAIN calls : d = keystore.box.key[2]}}

\* No keychain is handed out that could not be opened again: whatever fails or
\* comes late, its keystore was on disk when byEncryptingMnemonicAndSaving-
\* Keystore returned it.
HandedOutIsSaved ==
  \A c \in Running("done") : calls[c].kind = "create" => calls[c].saved

\* A wallet opened from its keystore has the keys of the wallet that was made.
ReopenedWalletIsTheSame ==
  \A c \in Running("done") : \A keystore \in calls[c].keystore :
    \A mnemonic \in MadeFrom(keystore) : \A keychain \in calls[c].keychain :
      HDMasterSeed(keychain) = HDMasterSeed(mnemonic)
=============================================================================
