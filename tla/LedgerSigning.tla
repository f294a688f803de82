---------------------------- MODULE LedgerSigning ----------------------------
(***************************************************************************)
(* Signing a transaction with a Ledger device (packages/hardware-ledger,   *)
(* hardwareWalletFromLedger.ts and ledgerNano.ts).                         *)
(*                                                                         *)
(* A signing is streamed: a setup packet, then one instruction at a time,  *)
(* each sent when the one before was answered; the answer to the last is   *)
(* the signature. It starts when doSignTransaction is called, whether or   *)
(* not its output is subscribed to, and goes on when the caller            *)
(* unsubscribes. Nothing keeps other signings or exchanges from sending    *)
(* their packets in between.                                               *)
(*                                                                         *)
(* The transport and the device are external: the transport hands packets  *)
(* over in the order they were sent, the device works on one at a time and *)
(* collects instructions, whoever sends them, for the last setup it saw.   *)
(***************************************************************************)
EXTENDS Integers, Sequences, FiniteSets, SequencesExt

CONSTANTS
  Signings,      \* calls of doSignTransaction
  Exchanges,     \* other calls: a public key, a hash, a key exchange, a version
  Transactions,  \* transactions: for each instruction, whether it fits a packet
  Answers,       \* what the device may answer: "ok", "refused", "malformed", or
                 \* "truncated": a signature without the byte V that follows it
  OneAtATime     \* callers sign when no other signing is listened to

ASSUME LedgerAssumption ==
  /\ Transactions \subseteq Seq(BOOLEAN)
  /\ Answers \subseteq {"ok", "refused", "malformed", "truncated"}
  /\ OneAtATime \in BOOLEAN
  /\ Signings \cap Exchanges = {}

VARIABLES
  tx,         \* the transaction of each signing
  signing,    \* "idle", "streaming", or how it ended: "signed", "failed", "thrown"
  remaining,  \* the array that instructions are shifted off
  listening,  \* the caller is subscribed to the output
  output,     \* what the caller was given
  exchange,   \* the state of the other calls
  wire,       \* packets the transport has taken
  replies,    \* per call: the answer on its way
  device      \* the instructions the device has collected, and for which setup

vars == <<tx, signing, remaining, listening, output, exchange, wire, replies, device>>

None == [kind |-> "none"]
NoSetup == [expected |-> 0, received |-> <<>>]

\* Instructions of a signing are told apart by their position.
InstructionsOf(s) == [i \in DOMAIN tx[s] |-> [of |-> s, position |-> i, fits |-> tx[s][i]]]

-----------------------------------------------------------------------------
(* Streaming.                                                              *)

Setup(s) == [from |-> s, kind |-> "setup"]
Packet(s, instruction) == [from |-> s, kind |-> "instruction", instruction |-> instruction]

\* What the output subject emits reaches a caller who listens; an error or a
\* first signature ends the output.
Ends(s, state, result) ==
  /\ signing' = [signing EXCEPT ![s] = state]
  /\ output' = IF listening[s] THEN [output EXCEPT ![s] = result] ELSE output


Fails(s) == Ends(s, "failed", [kind |-> "error"])

\* An exception in a handler of next is reported apart from the streaming: it
\* reaches no output, which stays open.
Throws(s) ==
  /\ signing' = [signing EXCEPT ![s] = "thrown"]
  /\ UNCHANGED output

\* A slip: instructions popped off the end.
SendLastInstruction(s) ==
  /\ remaining' = [remaining EXCEPT ![s] = Front(@)]
  /\ IF Last(remaining[s]).fits
     THEN /\ wire' = Append(wire, Packet(s, Last(remaining[s])))
          /\ UNCHANGED <<signing, output>>
     ELSE Fails(s) /\ UNCHANGED wire

\* The next instruction is shifted off. One longer than 255 bytes fails.
SendInstruction(s) ==
  /\ remaining' = [remaining EXCEPT ![s] = Tail(@)]
  /\ IF Head(remaining[s]).fits
     THEN /\ wire' = Append(wire, Packet(s, Head(remaining[s])))
          /\ UNCHANGED <<signing, output>>
     ELSE Fails(s) /\ UNCHANGED wire

\* The output is open, and the caller subscribed to it.
Awaited(s) == signing[s] \in {"streaming", "thrown"} /\ listening[s]

\* The blob is no transaction: the caller is given an error, or the exception
\* of the parser, when it is called.
TransactionUnparsed(s) ==
  /\ signing[s] = "idle"
  /\ signing' = [signing EXCEPT ![s] = "failed"]
  /\ output' = [output EXCEPT ![s] = [kind |-> "error"]]
  /\ UNCHANGED <<tx, remaining, listening, exchange, wire, replies, device>>

DoSignTransaction(s) ==
  /\ signing[s] = "idle"
  /\ OneAtATime => \A other \in Signings : ~Awaited(other)
  /\ signing' = [signing EXCEPT ![s] = "streaming"]
  /\ listening' = [listening EXCEPT ![s] = TRUE]
  /\ remaining' = [remaining EXCEPT ![s] = InstructionsOf(s)]
  /\ wire' = Append(wire, Setup(s))
  /\ UNCHANGED <<tx, output, exchange, replies, device>>

\* The caller unsubscribes: the streaming goes on.
Unsubscribe(s) ==
  /\ Awaited(s)
  /\ listening' = [listening EXCEPT ![s] = FALSE]
  /\ UNCHANGED <<tx, signing, remaining, output, exchange, wire, replies, device>>

\* The signature the reply holds, of what the device collected. A reply that
\* is none (a mere acknowledgement, another length) cannot be parsed; of one
\* that ends with the signature, the byte V is read regardless.
ParseSignature(s, reply) ==
  CASE reply.kind = "signature" -> Ends(s, "signed", reply)
    [] reply.kind = "truncated" -> Throws(s)
    [] OTHER                    -> Fails(s)

\* The answer to the last packet. Of a transaction without instructions that is
\* the setup, and an instruction is shifted off and read as after any setup.
LastAnswer(s) ==
  /\ IF tx[s] = <<>> THEN Throws(s) ELSE ParseSignature(s, replies[s])
  /\ UNCHANGED <<remaining, wire>>

\* A slip: an error that does not keep the response from being emitted.
AnswerArrivesDespiteError(s) ==
  /\ replies[s] # None
  /\ replies' = [replies EXCEPT ![s] = None]
  /\ IF replies[s].kind = "error"
     THEN /\ Fails(s)
          /\ remaining' = [remaining EXCEPT ![s] = IF @ = <<>> THEN @ ELSE Tail(@)]
          /\ wire' = IF remaining[s] = <<>> THEN wire
                     ELSE Append(wire, Packet(s, Head(remaining[s])))
     ELSE IF remaining[s] # <<>> THEN SendInstruction(s)
     ELSE LastAnswer(s)
  /\ UNCHANGED <<tx, listening, exchange, device>>

AnswerArrives(s) ==
  /\ replies[s] # None
  /\ replies' = [replies EXCEPT ![s] = None]
  /\ IF replies[s].kind = "error" THEN Fails(s) /\ UNCHANGED <<remaining, wire>>
     ELSE IF remaining[s] # <<>> THEN SendInstruction(s)
     ELSE LastAnswer(s)
  /\ UNCHANGED <<tx, listening, exchange, device>>

StartExchange(e) ==
  /\ exchange[e] = "idle"
  /\ exchange' = [exchange EXCEPT ![e] = "asked"]
  /\ wire' = Append(wire, [from |-> e, kind |-> "other"])
  /\ UNCHANGED <<tx, signing, remaining, listening, output, replies, device>>

ExchangeAnswered(e) ==
  /\ replies[e] # None
  /\ replies' = [replies EXCEPT ![e] = None]
  /\ exchange' = [exchange EXCEPT ![e] = IF replies[e].kind = "ack" THEN "answered" ELSE "failed"]
  /\ UNCHANGED <<tx, signing, remaining, listening, output, wire, device>>

-----------------------------------------------------------------------------
(* The device. An error, for which a user may have refused, ends what it   *)
(* was collecting; another exchange may end it too.                        *)

Reply(packet, reply) == replies' = [replies EXCEPT ![packet.from] = reply]

Collected(packet) == Append(device.received, packet.instruction)

TakeSetup(packet, answer) ==
  /\ packet.kind = "setup"
  /\ \/ /\ answer # "refused"
        /\ device' = [expected |-> Len(tx[packet.from]), received |-> <<>>]
        /\ Reply(packet, [kind |-> "ack"])
     \/ answer = "refused" /\ device' = NoSetup /\ Reply(packet, [kind |-> "error"])

TakeInstruction(packet, answer) ==
  /\ packet.kind = "instruction"
  /\ IF answer = "refused" \/ device = NoSetup
     THEN device' = NoSetup /\ Reply(packet, [kind |-> "error"])
     ELSE IF Len(Collected(packet)) < device.expected
     THEN /\ device' = [device EXCEPT !.received = Collected(packet)]
          /\ Reply(packet, [kind |-> "ack"])
     ELSE /\ device' = NoSetup
          /\ Reply(packet,
               CASE answer = "ok"        -> [kind |-> "signature", covers |-> Collected(packet)]
                 [] answer = "truncated" -> [kind |-> "truncated"]
                 [] OTHER                -> [kind |-> "ack"])

TakeOther(packet, answer) ==
  /\ packet.kind = "other"
  /\ device' \in {device, NoSetup}
  /\ Reply(packet, IF answer = "ok" THEN [kind |-> "ack"] ELSE [kind |-> "error"])

DeviceTakes ==
  /\ wire # <<>>
  /\ wire' = Tail(wire)
  /\ \E answer \in Answers :
       \/ TakeSetup(Head(wire), answer)
       \/ TakeInstruction(Head(wire), answer)
       \/ TakeOther(Head(wire), answer)
  /\ UNCHANGED <<tx, signing, remaining, listening, output, exchange>>

-----------------------------------------------------------------------------
Init ==
  /\ tx \in [Signings -> Transactions]
  /\ signing = [s \in Signings |-> "idle"]
  /\ remaining = [s \in Signings |-> <<>>]
  /\ listening = [s \in Signings |-> FALSE]
  /\ output = [s \in Signings |-> None]
  /\ exchange = [e \in Exchanges |-> "idle"]
  /\ wire = <<>>
  /\ replies = [call \in Signings \cup Exchanges |-> None]
  /\ device = NoSetup

Next ==
  \/ \E s \in Signings :
       DoSignTransaction(s) \/ TransactionUnparsed(s) \/ Unsubscribe(s) \/ AnswerArrives(s)
  \/ \E e \in Exchanges : StartExchange(e) \/ ExchangeAnswered(e)
  \/ DeviceTakes

Spec == Init /\ [][Next]_vars

\* The device answers every packet, and every answer arrives.
FairSpec ==
  /\ Spec
  /\ WF_vars(DeviceTakes)
  /\ \A s \in Signings : WF_vars(AnswerArrives(s))

-----------------------------------------------------------------------------
(* Properties.                                                             *)

Instructions == UNION {{InstructionsOf(s)[i] : i \in DOMAIN tx[s]} : s \in Signings}

Packets ==
  {Setup(s) : s \in Signings}
    \cup {Packet(s, instruction) : s \in Signings, instruction \in Instructions}
    \cup {[from |-> e, kind |-> "other"] : e \in Exchanges}

IsReply(reply) ==
  \/ reply \in {[kind |-> "ack"], [kind |-> "error"], [kind |-> "truncated"]}
  \/ /\ reply.kind = "signature"
     /\ reply.covers \in Seq(Instructions)

\* The variables stay within the values the code can give them; what remains
\* to be sent are the last instructions of the transaction, in its order.
TypeOK ==
  /\ tx \in [Signings -> Transactions]
  /\ signing \in [Signings -> {"idle", "streaming", "signed", "failed", "thrown"}]
  /\ \A s \in Signings : IsSuffix(remaining[s], InstructionsOf(s))
  /\ listening \in [Signings -> BOOLEAN]
  /\ \A s \in Signings : output[s] = None \/ IsReply(output[s])
  /\ exchange \in [Exchanges -> {"idle", "asked", "answered", "failed"}]
  /\ wire \in Seq(Packets)
  /\ \A call \in Signings \cup Exchanges : replies[call] = None \/ IsReply(replies[call])
  /\ device.expected \in Nat /\ device.received \in Seq(Instructions)

\* Among callers who sign one at a time, a signature given to a caller covers
\* the instructions of that caller's transaction, all and in order, although
\* earlier signings whose callers unsubscribed may still be streaming, and
\* other exchanges send their packets in between.
SignatureCoversTransaction ==
  OneAtATime => \A s \in Signings : output[s].kind = "signature" =>
                  output[s].covers = InstructionsOf(s)

Outstanding(call) ==
  Cardinality({i \in DOMAIN wire : wire[i].from = call}) + IF replies[call] = None THEN 0 ELSE 1

\* A signing waits for the answer to one packet at a time, and one that has
\* ended, by an error at any packet or with its result, sends nothing more.
StopAndWait ==
  \A s \in Signings : Outstanding(s) = IF signing[s] = "streaming" THEN 1 ELSE 0

=============================================================================
