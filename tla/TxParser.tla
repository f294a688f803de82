------------------------------ MODULE TxParser ------------------------------
(***************************************************************************)
(* The transaction parser (packages/tx-parser) on the buffer reader of     *)
(* packages/util. A Ledger wallet parses the blob of a transaction that a  *)
(* node built, and shows and signs what it read.                           *)
(*                                                                         *)
(* The grammar is a queue of expected fields: reading one may put the      *)
(* fields it announces in front of the rest. A blob is what the node wrote *)
(* or, when it was cut short or a byte of it was changed, what is left.    *)
(***************************************************************************)
EXTENDS Integers, Sequences, SequencesExt

CONSTANTS
  HashBytes,     \* width of the hash of a substate id: 32
  IndexBytes,    \* of its index: 4
  KeyBytes,      \* of a compressed public key: 33
  NonceBytes,    \* of the tail of a hashed key and nonce: 26
  AmountBytes,   \* of an amount: 32
  Compressed,    \* of the byte strings that are read as a key, the compressed point: a
                 \* string whose x is not reduced is read, and written with its x reduced
  Transactions,  \* what nodes write: sequences of instructions, each the sequence of its fields
  Garbage        \* bytes that may take the place of another

Byte == 0..255

Encoded(transaction) == FlattenSeq(FlattenSeq(transaction))

Cut(blob) == {SubSeq(blob, 1, n) : n \in 0..(Len(blob) - 1)}
Garbled(blob) == {[blob EXCEPT ![i] = b] : i \in DOMAIN blob, b \in Garbage}

ASSUME ParserAssumption ==
  /\ {HashBytes, IndexBytes, KeyBytes, NonceBytes, AmountBytes} \subseteq Nat \ {0}
  /\ Compressed \in [DOMAIN Compressed -> DOMAIN Compressed]
  /\ \A key \in DOMAIN Compressed : key \in Seq(Byte) /\ Len(key) = KeyBytes
  /\ Garbage \subseteq Byte
  /\ Transactions \subseteq Seq(Seq(Seq(Byte)))

VARIABLES
  written,       \* history: the transaction the node wrote
  blob,          \* the bytes that arrived
  offset,        \* bytes read so far
  expects,       \* fields that remain of the instruction being read
  partial,       \* fields of it that were read, as they are written again
  instructions,  \* instructions read
  reassembled,   \* the buffers of all fields read, put together
  outcome        \* "idle", "parsing", "ok", "err", or what was thrown

parserVars ==
  <<written, blob, offset, expects, partial, instructions, reassembled, outcome>>

-----------------------------------------------------------------------------
(* The grammar.                                                            *)

InstructionType ==
  [END |-> 0, SYSCALL |-> 1, UP |-> 2, READ |-> 3, VREAD |-> 5, DOWN |-> 7, LDOWN |-> 8,
   VDOWN |-> 9, SIG |-> 11, MSG |-> 12, HEADER |-> 13]

SubStateType ==
  [TOKENS |-> 6, PREPARED_STAKE |-> 7, STAKE_OWNERSHIP |-> 8, PREPARED_UNSTAKE |-> 9,
   VALIDATOR_ALLOW_DELEGATION_FLAG |-> 14, VALIDATOR_OWNER_COPY |-> 17]

REAddressType ==
  [SYSTEM |-> 0, RADIX_NATIVE_TOKEN |-> 1, HASHED_KEY_NONCE |-> 3, PUBLIC_KEY |-> 4]

Values(enum) == {enum[name] : name \in DOMAIN enum}

Width ==
  [instruction |-> 1, substate |-> 3, address |-> 1, length |-> 2, byte |-> 1, bool |-> 1,
   short |-> 2, hash |-> HashBytes, index |-> IndexBytes, key |-> KeyBytes,
   nonce |-> NonceBytes, amount |-> AmountBytes]

\* The data of a Bytes is as wide as the length in front of it says.
Field == [kind : DOMAIN Width \cup {"data"}, width : Nat]

Expect(kinds) == [i \in 1..Len(kinds) |-> [kind |-> kinds[i], width |-> Width[kinds[i]]]]

InstructionFields(type) ==
  LET T == InstructionType IN
  CASE type = T.UP                                      -> <<"substate">>
    [] type \in {T.READ, T.DOWN}                        -> <<"hash", "index">>
    [] type = T.LDOWN                                   -> <<"short">>
    [] type \in {T.SYSCALL, T.VREAD, T.VDOWN, T.MSG}    -> <<"length">>
    [] type = T.SIG                                     -> <<"byte", "amount", "amount">>
    [] type = T.HEADER                                  -> <<"byte", "byte">>
    [] OTHER                                            -> <<>>

\* After the length, which is kept and never compared, and the type.
SubstateFields(type) ==
  LET T == SubStateType IN
  CASE type = T.TOKENS -> <<"byte", "address", "address", "amount">>
    [] type \in {T.PREPARED_STAKE, T.STAKE_OWNERSHIP, T.PREPARED_UNSTAKE} ->
         <<"byte", "key", "address", "amount">>
    [] type = T.VALIDATOR_ALLOW_DELEGATION_FLAG -> <<"byte", "key", "bool">>
    [] type = T.VALIDATOR_OWNER_COPY -> <<"byte", "key", "address">>
    [] OTHER -> <<>>

REAddressFields(type) ==
  CASE type = REAddressType.HASHED_KEY_NONCE -> <<"nonce">>
    [] type = REAddressType.PUBLIC_KEY       -> <<"key">>
    [] OTHER                                 -> <<>>

ReadUInt16BE(bytes) == bytes[1] * 256 + bytes[2]

\* A slip: the high byte is not shifted.
WriteUnshifted(n) == <<n, n % 256>>

WriteUInt16BE(n) == <<n \div 256, n % 256>>

\* A number holds its bytes with the least significant one first.
Uint256FromReadBuffer(bytes) == Reverse(bytes)

\* A slip: the bytes of the number as it holds them.
AmountToBufferLittleEndian(amount) == amount

AmountToBuffer(amount) == Reverse(amount)

\* Keys that are not written as they were read.
Unreduced == {key \in DOMAIN Compressed : Compressed[key] # key}

\* What the parsed field writes again.
ToBuffer(field, bytes) ==
  CASE field.kind = "amount" -> AmountToBuffer(Uint256FromReadBuffer(bytes))
    [] field.kind = "length" -> WriteUInt16BE(ReadUInt16BE(bytes))
    [] field.kind = "key"    -> Compressed[bytes]
    [] OTHER                 -> bytes

\* The fields that a field announces.
Announces(field, bytes) ==
  CASE field.kind = "instruction" -> Expect(InstructionFields(bytes[1]))
    [] field.kind = "substate"    -> Expect(SubstateFields(bytes[3]))
    [] field.kind = "address"     -> Expect(REAddressFields(bytes[1]))
    [] field.kind = "length"      -> <<[kind |-> "data", width |-> ReadUInt16BE(bytes)]>>
    [] OTHER                      -> <<>>

\* Answered with an error: an instruction that is not parsed, a key that is
\* not on the curve once its x is reduced, a flag that is neither 0 nor 1.
Refused(field, bytes) ==
  \/ field.kind = "instruction" /\ bytes[1] \notin Values(InstructionType)
  \/ field.kind = "key" /\ bytes \notin DOMAIN Compressed
  \/ field.kind = "bool" /\ bytes[1] \notin {0, 1}

\* Thrown: a substate that is not parsed; an address of an unknown type falls
\* through the switch, and its caller uses the undefined it yields.
Unsupported(field, bytes) ==
  \/ field.kind = "substate" /\ bytes[3] \notin Values(SubStateType)
  \/ field.kind = "address" /\ bytes[1] \notin Values(REAddressType)

\* The fields that remain of an instruction when the first f of it were read.
Queues(instruction) ==
  LET queue[f \in 0..Len(instruction)] ==
        IF f = 0 THEN Expect(<<"instruction">>)
        ELSE Announces(Head(queue[f - 1]), instruction[f]) \o Tail(queue[f - 1])
  IN  queue

\* The instruction has the fields that are announced, each as wide as that says
\* and of a value that is parsed, and none besides; its keys are reduced.
Follows(instruction, queue) ==
  /\ queue[0] = Expect(<<"instruction">>)
  /\ \A f \in 1..Len(instruction) :
       /\ queue[f - 1] # <<>>
       /\ Len(instruction[f]) = Head(queue[f - 1]).width
       /\ ~Refused(Head(queue[f - 1]), instruction[f])
       /\ ~Unsupported(Head(queue[f - 1]), instruction[f])
       /\ Head(queue[f - 1]).kind = "key" => instruction[f] \notin Unreduced
       /\ queue[f] = Announces(Head(queue[f - 1]), instruction[f]) \o Tail(queue[f - 1])
  /\ queue[Len(instruction)] = <<>>

\* What nodes write is instructions of the grammar.
ASSUME GrammarAssumption ==
  \A transaction \in Transactions :
    \A i \in 1..Len(transaction) : Follows(transaction[i], Queues(transaction[i]))

-----------------------------------------------------------------------------
(* The parser.                                                             *)

\* The bytes of the next field.
NextBuffer == SubSeq(blob, offset + 1, offset + Head(expects).width)

\* A slip: the last byte of the blob is out of bounds.
InBoundsStrictly == Head(expects).width = 0 \/ offset + Head(expects).width < Len(blob)

\* Whether the blob has as many.
InBounds == Head(expects).width = 0 \/ offset + Head(expects).width <= Len(blob)

ParserInit ==
  /\ written = <<>> /\ blob = <<>> /\ offset = 0
  /\ expects = <<>> /\ partial = <<>> /\ instructions = <<>> /\ reassembled = <<>>
  /\ outcome = "idle"

\* Transaction.fromBuffer is given what became of a transaction.
FromBuffer(transaction, bytes) ==
  /\ outcome = "idle"
  /\ outcome' = "parsing"
  /\ written' = transaction
  /\ blob' = bytes
  /\ UNCHANGED <<offset, expects, partial, instructions, reassembled>>

FinishedParsing == offset = Len(blob)

NextInstruction ==
  /\ outcome = "parsing"
  /\ expects = <<>> /\ partial = <<>> /\ ~FinishedParsing
  /\ expects' = Expect(<<"instruction">>)
  /\ UNCHANGED <<written, blob, offset, partial, instructions, reassembled, outcome>>

ReadField ==
  /\ outcome = "parsing" /\ expects # <<>> /\ InBounds
  /\ ~Refused(Head(expects), NextBuffer)
  /\ ~Unsupported(Head(expects), NextBuffer)
  /\ offset' = offset + Head(expects).width
  /\ expects' = Announces(Head(expects), NextBuffer) \o Tail(expects)
  /\ partial' = Append(partial, ToBuffer(Head(expects), NextBuffer))
  /\ reassembled' = reassembled \o ToBuffer(Head(expects), NextBuffer)
  /\ UNCHANGED <<written, blob, instructions, outcome>>

\* The reader stays where it is.
OutOfBoundary ==
  /\ outcome = "parsing" /\ expects # <<>> /\ ~InBounds
  /\ outcome' = "err"
  /\ UNCHANGED <<written, blob, offset, expects, partial, instructions, reassembled>>

\* Fields that combine() reads after it are read all the same, and dropped: of
\* several faults the first is told, and the reader is not used again.
Refuse ==
  /\ outcome = "parsing" /\ expects # <<>> /\ InBounds
  /\ outcome' = IF Refused(Head(expects), NextBuffer) THEN "err" ELSE "unsupported"
  /\ \/ Refused(Head(expects), NextBuffer)
     \/ Unsupported(Head(expects), NextBuffer)
  /\ offset' = offset + Head(expects).width
  /\ UNCHANGED <<written, blob, expects, partial, instructions, reassembled>>

PushInstruction ==
  /\ outcome = "parsing" /\ expects = <<>> /\ partial # <<>>
  /\ instructions' = Append(instructions, partial)
  /\ partial' = <<>>
  /\ UNCHANGED <<written, blob, offset, expects, reassembled, outcome>>

Reassemble ==
  /\ outcome = "parsing" /\ expects = <<>> /\ partial = <<>> /\ FinishedParsing
  /\ outcome' = IF reassembled = blob THEN "ok" ELSE "incorrect"
  /\ UNCHANGED <<written, blob, offset, expects, partial, instructions, reassembled>>

Parse ==
  \/ NextInstruction \/ ReadField \/ OutOfBoundary
  \/ Refuse \/ PushInstruction \/ Reassemble

Receive ==
  \E transaction \in Transactions :
    \E bytes \in {Encoded(transaction)} \cup Cut(Encoded(transaction))
                                        \cup Garbled(Encoded(transaction)) :
      FromBuffer(transaction, bytes)

ParserSpec == ParserInit /\ [][Receive \/ Parse]_parserVars

-----------------------------------------------------------------------------
(* Properties.                                                             *)

\* The queue, the cursor and what was read are of their types; the cursor
\* (offset of the buffer reader) is never past the end of the blob.
ParserTypeOK ==
  /\ written \in {<<>>} \cup Transactions
  /\ blob \in Seq(Byte) /\ offset \in 0..Len(blob)
  /\ expects \in Seq(Field)
  /\ partial \in Seq(Seq(Byte)) /\ instructions \in Seq(Seq(Seq(Byte)))
  /\ reassembled \in Seq(Byte)
  /\ outcome \in {"idle", "parsing", "ok", "err", "unsupported", "incorrect"}

\* Byte i of the blob is one of bytes that are read as such a key.
InUnreducedKey(i) ==
  \E start \in 0..(Len(blob) - KeyBytes) :
    /\ SubSeq(blob, start + 1, start + KeyBytes) \in Unreduced
    /\ i \in (start + 1)..(start + KeyBytes)

\* Whatever arrives and is read to its end, what was read writes as many bytes,
\* and the same ones but for those of keys with an x that is not reduced: only
\* these make Transaction.fromBuffer throw "Incorrect implementation, reasambled
\* blob NEQ original blob".
OnlyUnreducedKeysAreRewritten ==
  outcome \in {"ok", "incorrect"} =>
    /\ Len(reassembled) = Len(blob)
    /\ \A i \in 1..Len(blob) : reassembled[i] = blob[i] \/ InUnreducedKey(i)

\* An untouched blob is read as the very instructions the node wrote, of every
\* type; one that was cut short is an error, or reads as instructions the node
\* wrote, the last of them missing: never as others.
WrittenIsReadBack ==
  outcome \notin {"idle", "parsing"} =>
    /\ blob = Encoded(written) => outcome = "ok" /\ instructions = written
    /\ blob \in Cut(Encoded(written)) =>
         \/ outcome = "err"
         \/ outcome = "ok" /\ IsStrictPrefix(instructions, written)
=============================================================================
