-------------------------- MODULE SealedMessages --------------------------
(***************************************************************************)
(* Symmetric encryption and the messages of transactions (packages/crypto, *)
(* symmetric-encryption, key-derivation-functions, encryption).            *)
(*                                                                         *)
(* Bytes are what they hold and how many they are. Ciphers are ideal: a    *)
(* box opens with the key and the additional data it was sealed with, and  *)
(* as long as not a bit of it was changed.                                 *)
(***************************************************************************)
EXTENDS EllipticCurve, Integers, FiniteSets

CompressedByteCount == 33
NonceLength == 12
TagLength   == 16

MaxLength == 255
MinLength == TagLength + NonceLength + CompressedByteCount + 2
MaxLengthOfCipherText == MaxLength - MinLength

Nothing == {}

-----------------------------------------------------------------------------
(* AES-GCM and scrypt.                                                     *)

\* Keys are derived by scrypt only, from a salt that may be any.
DeriveKey(kdf, password, salt) ==
  IF kdf = "scrypt" THEN {<<password, salt>>} ELSE Nothing

\* The length of the nonce and of the tag, and what was sealed.
Box(key, additional, text) ==
  [nonce |-> NonceLength, tag |-> TagLength, key |-> key, additional |-> additional,
   text |-> text, length |-> text.length, whole |-> TRUE]

IsSealedBox(box) == box.nonce = NonceLength /\ box.tag = TagLength /\ box.length >= 1

Seal(key, additional, text) == {box \in {Box(key, additional, text)} : IsSealedBox(box)}

\* A slip: it is not looked whether the tag is right.
OpenUnauthenticated(key, additional, box) == IF IsSealedBox(box) THEN {box.text} ELSE Nothing

Open(key, additional, box) ==
  IF IsSealedBox(box) /\ box.whole /\ box.key = key /\ box.additional = additional
  THEN {box.text} ELSE Nothing

-----------------------------------------------------------------------------
(* Messages.                                                               *)

MessageType      == [PLAINTEXT |-> 0, ENCRYPTED |-> 1, HEX |-> 30]
EncryptionScheme == [NONE |-> 0, DH_ADD_EPH_AESGCM256_SCRYPT_000 |-> 255]

\* The salt is the hash of the nonce, which is as fresh as the ephemeral key.
MessageKey(mine, theirs, ephemeral) ==
  DeriveKey("scrypt", AddPoints(DiffieHellman(mine, theirs), ephemeral), ephemeral)

CombinedLength(box) == 2 + CompressedByteCount + box.nonce + box.tag + box.length

InBounds(length) == MinLength <= length /\ length <= MaxLength

CreateEncrypted(scheme, ephemeral, box) ==
  {message \in {[type |-> MessageType.ENCRYPTED, scheme |-> scheme, ephemeral |-> ephemeral,
                 box |-> box, length |-> CombinedLength(box)]}
     : InBounds(message.length)}

\* What is refused is too long, or, as a box is never empty, is empty.
Encrypt(mine, theirs, ephemeral, text) ==
  IF text.length > MaxLengthOfCipherText THEN Nothing
  ELSE UNION {CreateEncrypted(EncryptionScheme.DH_ADD_EPH_AESGCM256_SCRYPT_000, ephemeral, box)
                : box \in UNION {Seal(key, ephemeral, text)
                                   : key \in MessageKey(mine, theirs, ephemeral)}}

Plaintext(text) ==
  [type |-> MessageType.PLAINTEXT, scheme |-> EncryptionScheme.NONE,
   text |-> text, length |-> 2 + text.length]

Values(enum) == {enum[name] : name \in DOMAIN enum}

SealedMessageIsRead(message) == IsPublicKey(message.ephemeral) /\ message.box.length >= 1

\* The bounds are those of an encrypted message, for a plaintext too: one of
\* less than 61 bytes is written and not read. A type and a scheme that do not
\* belong together are refused.
FromBuffer(message) ==
  IF /\ InBounds(message.length)
     /\ message.type \in Values(MessageType) /\ message.scheme \in Values(EncryptionScheme)
     /\ \/ /\ message.type = MessageType.ENCRYPTED
           /\ message.scheme # EncryptionScheme.NONE
           /\ SealedMessageIsRead(message)
        \/ /\ message.type = MessageType.PLAINTEXT
           /\ message.scheme = EncryptionScheme.NONE
  THEN {message} ELSE Nothing

Decrypt(mine, theirs, message) ==
  UNION {Open(key, message.ephemeral, message.box)
           : key \in MessageKey(mine, theirs, message.ephemeral)}

-----------------------------------------------------------------------------
(* Transactions.                                                           *)

\* The one of the accounts a transaction names that is not mine, or mine if
\* there is none; it throws if there are several.
SingleRecipientFromActions(mine, parties) ==
  LET others == parties \ {mine}
  IN  IF Cardinality(others) > 1 THEN Nothing
      ELSE IF others = {} THEN {mine}
      ELSE others

DecryptTransaction(mine, parties, message) ==
  UNION {IF read.type = MessageType.PLAINTEXT THEN {read.text}
         ELSE UNION {Decrypt(mine, theirs, read)
                       : theirs \in SingleRecipientFromActions(mine, parties)}
           : read \in FromBuffer(message)}
=============================================================================
