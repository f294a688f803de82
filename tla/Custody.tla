------------------------------ MODULE Custody ------------------------------
(***************************************************************************)
(* A wallet over its life: the keystore it is kept in and opened from      *)
(* again (Vault), the keys derived at paths of it (HDPaths), the           *)
(* identifiers written for others (Addresses) and the messages that others *)
(* seal for them (SealedMessages). What the wallet app holds is lost when  *)
(* it is terminated; identifiers and messages are out in the world.        *)
(***************************************************************************)
EXTENDS Vault, HDPaths, Addresses

CONSTANTS
  Paths,       \* texts of derivation paths that are typed in
  Networks,    \* networks identifiers are made for
  Names,       \* names of resources: [legal, length]
  Texts,       \* texts of messages: [id, length]
  Friend,      \* the public key of someone else
  Stranger,    \* and of someone else again
  Ephemeral    \* that of the ephemeral key pair of a message

\* The texts of the components of a path, and the public keys of all mnemonics.
ComponentTexts == [number : Int \cup {NoNumber}, marks : Nat, junk : STRING]
Keys == (Entropies \X (Languages \cup {DefaultLanguage})) \X Seq(Int)

ASSUME CustodyAssumption ==
  /\ \A text \in Paths : text.components \in Seq(ComponentTexts)
  /\ Networks \subseteq Network
  /\ NotAKey \notin Keys \cup {Ephemeral}
  /\ Ephemeral # Friend

VARIABLES
  account,     \* the account in use, none at first
  card,        \* the identifier given to others, with where its key is from
  mail,        \* the message sealed for it
  reading      \* what was last read of the message, and by whom

custodyVars == <<account, card, mail, reading>>
vars        == <<vaultVars, custodyVars>>

Nobody == {}

Init ==
  /\ VaultInit
  /\ account = Nobody /\ card = {} /\ mail = {} /\ reading = {}

\* Bound: what follows is done while no call is under way.
Quiet == \A c \in DOMAIN calls : calls[c].stage \notin {"saving", "loading", "decrypting"}

\* Bound: something is published by the first wallet.
FirstLife == Quiet /\ wallet = 1 /\ Len(calls) = 1

Keychain == IF wallet = 0 THEN NoKeychain ELSE calls[wallet].keychain

\* Another wallet, or none, has no account yet. Bounds: the keystore decays
\* before something is published, and calls are made before there is mail.
VaultStep ==
  /\ (mail = {} /\ CallsNext) \/ (card = {} /\ Decay)
  /\ account' = IF wallet' = wallet THEN account ELSE Nobody
  /\ UNCHANGED <<card, mail, reading>>

-----------------------------------------------------------------------------
(* Keys.                                                                   *)

KeyAt(mnemonic, path) == <<HDMasterSeed(mnemonic), Children(path)>>

AccountAt(mnemonic, path) ==
  [mnemonic |-> mnemonic, path |-> path, key |-> KeyAt(mnemonic, path)]

DeriveAt(path) ==
  /\ Quiet /\ mail = {} /\ Derivable(path)
  /\ account' = {AccountAt(mnemonic, path) : mnemonic \in Keychain}
  /\ account' # account
  /\ UNCHANGED <<vaultVars, card, mail, reading>>

\* At a path that is typed in, or read off the card. Bound: there is no other
\* path once there is a card.
Derive ==
  \E text \in IF card = {} THEN Paths
              ELSE {PathToString(published.path) : published \in card} :
    RadixPathIsRead(text) /\ DeriveAt(BIP32FromString(text))

\* At the path of the next index.
DeriveNext == \E index \in {0, 1} : DeriveAt(CreateRadixPath(0, 0, index, TRUE))

-----------------------------------------------------------------------------
(* Identifiers.                                                            *)

Card(kind, identifier, mine) ==
  [kind |-> kind, identifier |-> identifier, text |-> identifier.text,
   mnemonic |-> mine.mnemonic, path |-> mine.path, key |-> mine.key]

PublishAddress(network) ==
  /\ FirstLife /\ card = {}
  /\ \E mine \in account :
       \E address \in {AccountAddress(mine.key, network), ValidatorAddress(mine.key, network)} :
         card' = {Card(address.kind, address, mine)}
  /\ UNCHANGED <<vaultVars, account, mail, reading>>

ResourceIdentifiers(publicKey, name, network) ==
  SystemRRIForNetwork(name, network)
  \cup FromPublicKeyAndNameAndNetwork(publicKey, name, network)

PublishResource(name, network) ==
  /\ FirstLife /\ card = {}
  /\ \E mine \in account : \E identifier \in ResourceIdentifiers(mine.key, name, network) :
       card' = {Card("rri", identifier, mine)}
  /\ UNCHANGED <<vaultVars, account, mail, reading>>

\* What a text is read as, by the parser of the kind.
Read(kind, text) ==
  IF kind = "rri" THEN RRIsFromBech32String(text) ELSE AddressesFromString(kind, text)

InCase(case, text) == [text EXCEPT !.case = case]

-----------------------------------------------------------------------------
(* Messages.                                                               *)

\* To the account whose address was read off the card, from a friend or from
\* that account itself; a transaction may name a third account too. Bound: it
\* is the first account of the wallet, and an account is in use.
SealMessage(case, text) ==
  /\ Quiet /\ mail = {} /\ account # Nobody
  /\ \A published \in card : published.path = CreateRadixPath(0, 0, 0, TRUE)
  /\ \E published \in card :
       \E address \in Read("account", InCase(case, published.text)) :
       \E sender \in {Friend, address.publicKey}, others \in SUBSET {Stranger} :
       \E message \in Encrypt(sender, address.publicKey, Ephemeral, text) \cup {Plaintext(text)} :
         mail' = {[message |-> message, text |-> text, damaged |-> FALSE,
                   parties |-> {sender, address.publicKey},
                   named |-> {sender, address.publicKey} \cup others]}
  /\ UNCHANGED <<vaultVars, account, card, reading>>

IsEncrypted(message) == message.type = MessageType.ENCRYPTED

DamagedMessages(message) ==
  {[message EXCEPT !.type = type] : type \in {MessageType.PLAINTEXT, MessageType.HEX, 255}}
  \cup {[message EXCEPT !.scheme = scheme] : scheme \in {EncryptionScheme.NONE, 7}}
  \cup {[message EXCEPT !.ephemeral = key] : key \in {NotAKey, Friend}}
  \cup {[message EXCEPT !.box.whole = FALSE],
        [message EXCEPT !.box.whole = FALSE, !.box.length = @ - 1, !.length = @ - 1]}

Damage ==
  /\ Quiet
  /\ \E sealed \in mail :
       /\ IsEncrypted(sealed.message) /\ ~sealed.damaged
       /\ \E message \in DamagedMessages(sealed.message) :
            mail' = {[sealed EXCEPT !.message = message, !.damaged = TRUE]}
  /\ reading' = {}
  /\ UNCHANGED <<vaultVars, account, card>>

\* decryptTransaction, in the wallet or with another key.
ReadMessage(reader) ==
  /\ Quiet
  /\ \E sealed \in mail :
       reading' = {[by |-> reader,
                    got |-> DecryptTransaction(reader, sealed.named, sealed.message)]}
  /\ UNCHANGED <<vaultVars, account, card, mail>>

Next ==
  \/ VaultStep
  \/ Derive
  \/ DeriveNext
  \/ \E network \in Networks : PublishAddress(network)
  \/ \E name \in Names, network \in Networks : PublishResource(name, network)
  \/ \E case \in {"lower", "upper", "mixed"}, text \in Texts : SealMessage(case, text)
  \/ Damage
  \/ \E reader \in {mine.key : mine \in account} \cup {Friend, Stranger} : ReadMessage(reader)

Spec == Init /\ [][Next]_vars

-----------------------------------------------------------------------------
(* Properties.                                                             *)

\* The vault is of its types, the account in use is of the keychain in use,
\* and there is no message without an address to seal it for.
TypeOK ==
  /\ VaultTypeOK
  /\ \A mine \in account : mine.mnemonic \in Keychain
  /\ mail # {} => \E published \in card : published.kind = "account"
  /\ reading # {} => mail # {}
  /\ \A set \in {account, card, mail, reading} : Cardinality(set) <= 1

\* With a wallet opened again, or made from the same mnemonic, the path that an
\* account shows derives the key it had, in whatever way the path was typed.
RestoredKeyIsTheSame ==
  \A published \in card :
    /\ RadixPathIsRead(PathToString(published.path))
    /\ \A mnemonic \in Keychain : mnemonic = published.mnemonic =>
         KeyAt(mnemonic, BIP32FromString(PathToString(published.path))) = published.key

\* Who the text of an identifier is given to reads what it was made of: in
\* lower and upper case, as the one kind it is of, on the one network it is of,
\* with its key and its name. From the bytes of an address, which do not tell
\* the network, its key is read.
IdentifiersReadBack ==
  \A published \in card :
    /\ \A case \in {"lower", "upper", "mixed"}, kind \in {"account", "validator", "rri"} :
         LET found == Read(kind, InCase(case, published.text)) IN
           IF case = "mixed" \/ kind # published.kind THEN found = {}
           ELSE \E one \in found :
                  /\ found = {one}
                  /\ one.network = published.identifier.network
                  /\ IF kind = "rri"
                     THEN /\ one.name = published.identifier.name
                          /\ one.hash.payload = published.identifier.hash.payload
                          /\ \A other \in Read("rri", published.text) : SameRRI(one, other)
                     ELSE SameAddress(one, published.identifier)
    /\ published.kind # "rri" =>
         \E one \in AccountAddressesFromBuffer(published.text.data),
            other \in ValidatorAddressesFromBuffer(published.text.data) :
           one.publicKey = published.key /\ other.publicKey = published.key

\* An encrypted message is read by its two parties, and by nobody else: if it
\* was not damaged, and if the transaction names no third. What is read is what
\* was sealed.
ReadByPartiesOnly ==
  \A sealed \in mail : \A read \in reading :
    /\ read.got \subseteq {sealed.text}
    /\ IsEncrypted(sealed.message) \/ sealed.damaged =>
         (read.got # {}) = (/\ ~sealed.damaged
                            /\ read.by \in sealed.parties
                            /\ sealed.named = sealed.parties)
=============================================================================
