------------------------ MODULE LedgerSigningProofs ------------------------
(***************************************************************************)
(* Theorems about LedgerSigning, for any number of signings and exchanges, *)
(* transactions of any length, and a device that answers as it likes.      *)
(***************************************************************************)
EXTENDS LedgerSigning, FiniteSetTheorems, SequenceTheorems, TLAPS

-----------------------------------------------------------------------------
(* The invariant.                                                          *)

Count(s) == Len(tx[s])
Sent(s)  == Count(s) - Len(remaining[s])

OnWire(call) == \E i \in DOMAIN wire : wire[i].from = call

Device == [expected : Nat, received : Seq(Instructions)]

ReplyRecord == {None, [kind |-> "ack"], [kind |-> "error"], [kind |-> "truncated"]}
            \cup [kind : {"signature"}, covers : Seq(Instructions)]

TypesOK ==
  /\ tx \in [Signings -> Transactions]
  /\ signing \in [Signings -> {"idle", "streaming", "signed", "failed", "thrown"}]
  /\ remaining \in [Signings -> Seq(Instructions)]
  /\ listening \in [Signings -> BOOLEAN]
  /\ output \in [Signings -> ReplyRecord]
  /\ exchange \in [Exchanges -> {"idle", "asked", "answered", "failed"}]
  /\ wire \in Seq(Packets)
  /\ replies \in [Signings \cup Exchanges -> ReplyRecord]
  /\ device \in Device

\* What remains to be sent is the end of the transaction.
RemainingOK ==
  \A s \in Signings :
    /\ Len(remaining[s]) <= Count(s)
    /\ \A i \in 1..Len(remaining[s]) : remaining[s][i] = InstructionsOf(s)[Sent(s) + i]

\* A packet of a signing under way is its setup, before anything else, or the
\* instruction that was shifted off last.
PacketOK(packet) ==
  /\ packet.kind = "setup" => packet.from \in Signings /\ Sent(packet.from) = 0
  /\ packet.kind = "instruction" =>
       /\ packet.from \in Signings
       /\ Sent(packet.from) > 0
       /\ packet.instruction = InstructionsOf(packet.from)[Sent(packet.from)]
  /\ packet.kind = "other" => packet.from \in Exchanges

\* Of a call at most one packet is on the wire, and a signing that streams has
\* either its packet there or its answer on its way.
PacketsOK ==
  /\ \A i \in DOMAIN wire : PacketOK(wire[i])
  /\ \A i, j \in DOMAIN wire : wire[i].from = wire[j].from => i = j
  /\ \A s \in Signings :
       /\ signing[s] = "streaming" => (OnWire(s) <=> replies[s] = None)
       /\ signing[s] # "streaming" => ~OnWire(s) /\ replies[s] = None
  /\ \A e \in Exchanges : exchange[e] = "idle" => ~OnWire(e)

Active(s) == signing[s] = "streaming" /\ listening[s]

\* Of the setups on the wire that of s comes last.
SetupIsLast(s) ==
  \E i \in DOMAIN wire :
    /\ wire[i] = Setup(s)
    /\ \A j \in DOMAIN wire : wire[j].kind = "setup" => j <= i

\* The instructions of s that the device has taken.
Taken(s) == IF OnWire(s) THEN Sent(s) - 1 ELSE Sent(s)

\* The device collects for s. It has as many instructions as it has taken of
\* s, which are these, or others too, and then too many for s to see the end.
Collecting(s) ==
  \/ device = NoSetup
  \/ /\ device.expected = Count(s)
     /\ Taken(s) <= Len(device.received) /\ Len(device.received) < Count(s)
     /\ Len(device.received) = Taken(s) =>
          \A i \in 1..Taken(s) : device.received[i] = InstructionsOf(s)[i]

SignedOK(s, reply) ==
  reply.kind = "signature" => reply.covers = InstructionsOf(s)

\* A signing that is listened to has its setup after that of all others, or has
\* had it taken since; a signature that ends it covers its transaction.
ActiveOK(s) ==
  \/ SetupIsLast(s)
  \/ /\ \A i \in DOMAIN wire : wire[i].kind # "setup"
     /\ Collecting(s)
     /\ Sent(s) = Count(s) => SignedOK(s, replies[s])

CoversOK ==
  OneAtATime =>
    /\ \A s, t \in Signings : Active(s) /\ Active(t) => s = t
    /\ \A s \in Signings : Active(s) => ActiveOK(s)
    /\ \A s \in Signings : SignedOK(s, output[s])

LedgerInv == TypesOK /\ RemainingOK /\ PacketsOK /\ CoversOK

-----------------------------------------------------------------------------
(* Lemmas.                                                                 *)

\* The instructions of a signing are those of its transaction.
LEMMA InstructionsOfSigning ==
  ASSUME TypesOK, NEW s \in Signings
  PROVE  /\ tx[s] \in Seq(BOOLEAN) /\ Count(s) \in Nat /\ DOMAIN tx[s] = 1..Count(s)
         /\ InstructionsOf(s) \in Seq(Instructions) /\ Len(InstructionsOf(s)) = Count(s)
<1>1. tx[s] \in Seq(BOOLEAN)
  BY LedgerAssumption DEF TypesOK
<1>2. Count(s) \in Nat /\ DOMAIN tx[s] = 1..Count(s)
  BY <1>1, LenProperties DEF Count
<1>3. \A i \in 1..Count(s) : InstructionsOf(s)[i] \in Instructions
  BY <1>2 DEF Instructions
<1>4. InstructionsOf(s) \in [1..Count(s) -> Instructions]
  <2>1. DOMAIN InstructionsOf(s) = 1..Count(s)
    BY <1>2 DEF InstructionsOf
  <2>2. InstructionsOf(s) = [i \in 1..Count(s) |-> InstructionsOf(s)[i]]
    BY <2>1, <1>2 DEF InstructionsOf
  <2> QED
    BY <1>3, <2>2
<1> QED
  BY <1>1, <1>2, <1>4

\* Transactions do not change, nor does what is made of them.
LEMMA TransactionsStay ==
  ASSUME tx' = tx
  PROVE  /\ Instructions' = Instructions /\ Packets' = Packets
         /\ ReplyRecord' = ReplyRecord /\ Device' = Device
         /\ \A s : InstructionsOf(s)' = InstructionsOf(s) /\ Count(s)' = Count(s)
<1>1. \A s : InstructionsOf(s)' = InstructionsOf(s) /\ Count(s)' = Count(s)
  BY DEF InstructionsOf, Count
<1>2. Instructions' = Instructions
  BY DEF Instructions, InstructionsOf
<1> QED
  BY <1>1, <1>2 DEF Packets, ReplyRecord, Device, Setup, Packet

\* A call has its kind of packets, and the kinds differ.
LEMMA PacketKinds ==
  ASSUME NEW packet \in Packets
  PROVE  \/ \E s \in Signings : packet = Setup(s) /\ packet.kind = "setup" /\ packet.from = s
         \/ \E s \in Signings : \E instruction \in Instructions :
              /\ packet = Packet(s, instruction) /\ packet.kind = "instruction"
              /\ packet.from = s /\ packet.instruction = instruction
         \/ \E e \in Exchanges : packet.kind = "other" /\ packet.from = e
  BY DEF Packets, Setup, Packet

LEMMA LedgerInit == Init => LedgerInv
<1> SUFFICES ASSUME Init
             PROVE  LedgerInv
  OBVIOUS
<1>1. TypesOK
  BY DEF Init, TypesOK, ReplyRecord, None, NoSetup, Device
<1>2. RemainingOK
  <2>1. \A s \in Signings : Len(remaining[s]) = 0
    BY DEF Init
  <2> QED
    BY <2>1, <1>1, InstructionsOfSigning DEF RemainingOK
<1>3. PacketsOK
  BY DEF Init, PacketsOK, OnWire
<1>4. CoversOK
  BY DEF Init, CoversOK, Active, SignedOK, None
<1> QED
  BY <1>1, <1>2, <1>3, <1>4 DEF LedgerInv

\* What sending a packet does to the wire.
LEMMA Sending ==
  ASSUME TypesOK, tx' = tx, NEW packet \in Packets, wire' = Append(wire, packet)
  PROVE  /\ Len(wire) \in Nat /\ DOMAIN wire = 1..Len(wire)
         /\ wire' \in Seq(Packets') /\ DOMAIN wire' = 1..(Len(wire) + 1)
         /\ wire'[Len(wire) + 1] = packet
         /\ \A i \in DOMAIN wire : i \in DOMAIN wire' /\ wire'[i] = wire[i]
         /\ \A call : OnWire(call)' <=> OnWire(call) \/ call = packet.from
<1>1. wire \in Seq(Packets) /\ Packets' = Packets
  BY TransactionsStay DEF TypesOK
<1>2. Len(wire) \in Nat /\ DOMAIN wire = 1..Len(wire)
  BY <1>1
<1>3. /\ wire' \in Seq(Packets) /\ Len(wire') = Len(wire) + 1
      /\ wire'[Len(wire) + 1] = packet
      /\ \A i \in 1..Len(wire) : wire'[i] = wire[i]
  BY <1>1, AppendProperties
<1>4. DOMAIN wire' = 1..(Len(wire) + 1)
  BY <1>3
<1>5. \A i \in DOMAIN wire : i \in DOMAIN wire' /\ wire'[i] = wire[i]
  BY <1>2, <1>3, <1>4
<1>6. \A i \in DOMAIN wire' : i \in DOMAIN wire \/ i = Len(wire) + 1
  BY <1>2, <1>4
<1>7. Len(wire) + 1 \in DOMAIN wire'
  BY <1>2, <1>4
<1>8. \A call : OnWire(call)' <=> OnWire(call) \/ call = packet.from
  BY <1>3, <1>5, <1>6, <1>7 DEF OnWire
<1> QED
  BY <1>1, <1>2, <1>3, <1>4, <1>5, <1>8

\* What the device's taking a packet does to the wire, on which a call has one
\* packet at most.
LEMMA Taking ==
  ASSUME TypesOK, PacketsOK, tx' = tx, wire # <<>>, wire' = Tail(wire)
  PROVE  /\ Len(wire) \in Nat /\ DOMAIN wire = 1..Len(wire) /\ 1 \in DOMAIN wire
         /\ Head(wire) = wire[1] /\ Head(wire) \in Packets
         /\ wire' \in Seq(Packets') /\ DOMAIN wire' = 1..(Len(wire) - 1)
         /\ \A i \in DOMAIN wire' : i + 1 \in DOMAIN wire /\ wire'[i] = wire[i + 1]
         /\ \A call : OnWire(call)' <=> OnWire(call) /\ call # Head(wire).from
         /\ OnWire(Head(wire).from)
<1>1. wire \in Seq(Packets) /\ Packets' = Packets
  BY TransactionsStay DEF TypesOK
<1>2. Len(wire) \in Nat \ {0} /\ DOMAIN wire = 1..Len(wire)
  BY <1>1, EmptySeq, LenProperties
<1>3. Head(wire) = wire[1] /\ 1 \in DOMAIN wire /\ Head(wire) \in Packets
  BY <1>1, <1>2, HeadTailProperties
<1>4. /\ wire' \in Seq(Packets) /\ Len(wire') = Len(wire) - 1
      /\ \A i \in 1..Len(wire') : wire'[i] = wire[i + 1]
  BY <1>1, HeadTailProperties
<1>5. DOMAIN wire' = 1..(Len(wire) - 1)
  BY <1>4
<1>6. \A i \in DOMAIN wire' : i + 1 \in DOMAIN wire /\ wire'[i] = wire[i + 1] /\ i + 1 # 1
  BY <1>2, <1>4, <1>5
<1>7. \A i \in DOMAIN wire : i = 1 \/ (i - 1 \in DOMAIN wire' /\ wire'[i - 1] = wire[i])
  BY <1>2, <1>4, <1>5
<1>8. \A i, j \in DOMAIN wire : wire[i].from = wire[j].from => i = j
  BY DEF PacketsOK
<1>9. ASSUME NEW call PROVE OnWire(call)' <=> OnWire(call) /\ call # Head(wire).from
  <2>1. CASE OnWire(call)'
    <3>1. PICK i \in DOMAIN wire' : wire'[i].from = call
      BY <2>1 DEF OnWire
    <3> QED
      BY <3>1, <1>3, <1>6, <1>8, <2>1 DEF OnWire
  <2>2. CASE OnWire(call) /\ call # Head(wire).from
    <3>1. PICK i \in DOMAIN wire : wire[i].from = call
      BY <2>2 DEF OnWire
    <3>2. i # 1
      BY <3>1, <2>2, <1>3
    <3> QED
      BY <3>1, <3>2, <1>7, <2>2 DEF OnWire
  <2> QED
    BY <2>1, <2>2
<1> QED
  BY <1>1, <1>2, <1>3, <1>4, <1>5, <1>6, <1>9 DEF OnWire

-----------------------------------------------------------------------------
(* The steps.                                                              *)

LEMMA UnparsedStep ==
  ASSUME LedgerInv, NEW s \in Signings, TransactionUnparsed(s)
  PROVE  LedgerInv'
<1> USE DEF LedgerInv
<1>0. /\ Instructions' = Instructions /\ Packets' = Packets
      /\ ReplyRecord' = ReplyRecord /\ Device' = Device
      /\ \A t : InstructionsOf(t)' = InstructionsOf(t) /\ Count(t)' = Count(t)
  BY TransactionsStay DEF TransactionUnparsed
<1>1. TypesOK'
  BY <1>0 DEF TypesOK, TransactionUnparsed, ReplyRecord
<1>2. RemainingOK'
  BY <1>0 DEF RemainingOK, Sent, TransactionUnparsed
<1>3. PacketsOK'
  BY <1>0 DEF PacketsOK, PacketOK, OnWire, Sent, TransactionUnparsed, TypesOK
<1>4. CoversOK'
  <2>1. \A t \in Signings : Active(t)' => Active(t)
    BY DEF Active, TransactionUnparsed, TypesOK
  <2>2. \A t \in Signings : ActiveOK(t) => ActiveOK(t)'
    BY <1>0 DEF ActiveOK, SetupIsLast, Collecting, Taken, Sent, OnWire, SignedOK, Setup,
                TransactionUnparsed
  <2>3. \A t \in Signings : SignedOK(t, output[t]) => SignedOK(t, output[t])'
    BY <1>0 DEF SignedOK, TransactionUnparsed, TypesOK
  <2> QED
    BY <2>1, <2>2, <2>3 DEF CoversOK
<1> QED
  BY <1>1, <1>2, <1>3, <1>4

LEMMA UnsubscribeStep ==
  ASSUME LedgerInv, NEW s \in Signings, Unsubscribe(s)
  PROVE  LedgerInv'
<1> USE DEF LedgerInv
<1>0. /\ Instructions' = Instructions /\ Packets' = Packets
      /\ ReplyRecord' = ReplyRecord /\ Device' = Device
      /\ \A t : InstructionsOf(t)' = InstructionsOf(t) /\ Count(t)' = Count(t)
  BY TransactionsStay DEF Unsubscribe
<1>1. TypesOK'
  BY <1>0 DEF TypesOK, Unsubscribe
<1>2. RemainingOK'
  BY <1>0 DEF RemainingOK, Sent, Unsubscribe
<1>3. PacketsOK'
  BY <1>0 DEF PacketsOK, PacketOK, OnWire, Sent, Unsubscribe
<1>4. CoversOK'
  <2>1. \A t \in Signings : Active(t)' => Active(t)
    BY DEF Active, Unsubscribe, Awaited, TypesOK
  <2>2. \A t \in Signings : ActiveOK(t) => ActiveOK(t)'
    BY <1>0 DEF ActiveOK, SetupIsLast, Collecting, Taken, Sent, OnWire, SignedOK, Setup, Unsubscribe
  <2>3. \A t \in Signings : SignedOK(t, output[t]) => SignedOK(t, output[t])'
    BY <1>0 DEF SignedOK, Unsubscribe
  <2> QED
    BY <2>1, <2>2, <2>3 DEF CoversOK
<1> QED
  BY <1>1, <1>2, <1>3, <1>4

LEMMA ExchangeAnsweredStep ==
  ASSUME LedgerInv, NEW e \in Exchanges, ExchangeAnswered(e)
  PROVE  LedgerInv'
<1> USE DEF LedgerInv
<1>0. /\ Instructions' = Instructions /\ Packets' = Packets
      /\ ReplyRecord' = ReplyRecord /\ Device' = Device
      /\ \A t : InstructionsOf(t)' = InstructionsOf(t) /\ Count(t)' = Count(t)
  BY TransactionsStay DEF ExchangeAnswered
<1>1. TypesOK'
  BY <1>0 DEF TypesOK, ExchangeAnswered, ReplyRecord
<1>2. RemainingOK'
  BY <1>0 DEF RemainingOK, Sent, ExchangeAnswered
<1>3. \A t \in Signings : replies'[t] = replies[t]
  BY LedgerAssumption DEF TypesOK, ExchangeAnswered
<1>4. PacketsOK'
  BY <1>0, <1>3 DEF PacketsOK, PacketOK, OnWire, Sent, ExchangeAnswered, TypesOK
<1>5. CoversOK'
  <2>2. \A t \in Signings : ActiveOK(t) => ActiveOK(t)'
    BY <1>0, <1>3 DEF ActiveOK, SetupIsLast, Collecting, Taken, Sent, OnWire, SignedOK, Setup,
                      ExchangeAnswered
  <2>3. \A t \in Signings : SignedOK(t, output[t]) => SignedOK(t, output[t])'
    BY <1>0 DEF SignedOK, ExchangeAnswered
  <2> QED
    BY <2>2, <2>3 DEF CoversOK, Active, ExchangeAnswered
<1> QED
  BY <1>1, <1>2, <1>4, <1>5

LEMMA StartExchangeStep ==
  ASSUME LedgerInv, NEW e \in Exchanges, StartExchange(e)
  PROVE  LedgerInv'
<1> USE DEF LedgerInv
<1> DEFINE packet == [from |-> e, kind |-> "other"]
<1>0. /\ Instructions' = Instructions /\ Packets' = Packets
      /\ ReplyRecord' = ReplyRecord /\ Device' = Device
      /\ \A t : InstructionsOf(t)' = InstructionsOf(t) /\ Count(t)' = Count(t)
  BY TransactionsStay DEF StartExchange
<1>1. /\ packet \in Packets /\ wire' = Append(wire, packet) /\ tx' = tx
      /\ packet.kind = "other" /\ packet.from = e /\ e \notin Signings
  BY LedgerAssumption DEF StartExchange, Packets
<1> HIDE DEF packet
<1>2. /\ Len(wire) \in Nat /\ DOMAIN wire = 1..Len(wire)
      /\ wire' \in Seq(Packets') /\ DOMAIN wire' = 1..(Len(wire) + 1)
      /\ wire'[Len(wire) + 1] = packet
      /\ \A i \in DOMAIN wire : i \in DOMAIN wire' /\ wire'[i] = wire[i]
      /\ \A call : OnWire(call)' <=> OnWire(call) \/ call = packet.from
  BY <1>1, Sending
<1>3. \A i \in DOMAIN wire' : i \in DOMAIN wire \/ i = Len(wire) + 1
  BY <1>2
<1>4. TypesOK'
  BY <1>0, <1>2 DEF TypesOK, StartExchange
<1>5. RemainingOK'
  BY <1>0 DEF RemainingOK, Sent, StartExchange
<1>6. PacketsOK'
  <2>1. \A i \in DOMAIN wire : PacketOK(wire[i])'
    BY <1>0, <1>2 DEF PacketsOK, PacketOK, Sent, StartExchange
  <2>4. \A i \in DOMAIN wire' : PacketOK(wire[i])'
    BY <1>1, <1>2, <1>3, <2>1 DEF PacketOK
  <2>5. ~OnWire(e)
    BY DEF PacketsOK, StartExchange
  <2>6. \A i, j \in DOMAIN wire' : wire'[i].from = wire'[j].from => i = j
    BY <1>1, <1>2, <1>3, <2>5 DEF PacketsOK, OnWire
  <2>7. \A t \in Signings : OnWire(t)' <=> OnWire(t)
    BY <1>1, <1>2
  <2>8. \A f \in Exchanges : exchange'[f] = "idle" => ~OnWire(f)'
    BY <1>1, <1>2 DEF PacketsOK, StartExchange, TypesOK
  <2> QED
    BY <2>4, <2>6, <2>7, <2>8 DEF PacketsOK, StartExchange
<1>7. CoversOK'
  <2>1. \A t \in Signings : OnWire(t)' <=> OnWire(t)
    BY <1>1, <1>2
  <2>2. ASSUME NEW t \in Signings, ActiveOK(t) PROVE ActiveOK(t)'
    <3>1. CASE SetupIsLast(t)
      <4>1. SetupIsLast(t)'
        BY <3>1, <1>1, <1>2, <1>3 DEF SetupIsLast, Setup
      <4> QED
        BY <4>1 DEF ActiveOK
    <3>2. CASE ~SetupIsLast(t)
      <4>1. Collecting(t)'
        BY <3>2, <2>2, <2>1, <1>0 DEF ActiveOK, Collecting, Taken, Sent, StartExchange
      <4>2. \A i \in DOMAIN wire' : wire'[i].kind # "setup"
        BY <3>2, <2>2, <1>1, <1>2, <1>3 DEF ActiveOK
      <4> QED
        BY <4>1, <4>2, <3>2, <2>2, <1>0 DEF ActiveOK, SignedOK, Sent, StartExchange
    <3> QED
      BY <3>1, <3>2
  <2>3. \A t \in Signings : SignedOK(t, output[t]) => SignedOK(t, output[t])'
    BY <1>0 DEF SignedOK, StartExchange
  <2> QED
    BY <2>2, <2>3 DEF CoversOK, Active, StartExchange
<1> QED
  BY <1>4, <1>5, <1>6, <1>7

\* The setup of a signing that starts comes after those on the wire, and no
\* other signing is listened to.
LEMMA DoSignStep ==
  ASSUME LedgerInv, NEW s \in Signings, DoSignTransaction(s)
  PROVE  LedgerInv'
<1> USE DEF LedgerInv
<1> DEFINE packet == Setup(s)
<1>0. /\ Instructions' = Instructions /\ Packets' = Packets
      /\ ReplyRecord' = ReplyRecord /\ Device' = Device
      /\ \A t : InstructionsOf(t)' = InstructionsOf(t) /\ Count(t)' = Count(t)
  BY TransactionsStay DEF DoSignTransaction
<1>1. /\ packet \in Packets /\ wire' = Append(wire, packet) /\ tx' = tx
      /\ packet.kind = "setup" /\ packet.from = s /\ s \notin Exchanges
  BY LedgerAssumption DEF DoSignTransaction, Packets, Setup
<1>r. packet = Setup(s)
  OBVIOUS
<1> HIDE DEF packet
<1>2. /\ Len(wire) \in Nat /\ DOMAIN wire = 1..Len(wire)
      /\ wire' \in Seq(Packets') /\ DOMAIN wire' = 1..(Len(wire) + 1)
      /\ wire'[Len(wire) + 1] = packet
      /\ \A i \in DOMAIN wire : i \in DOMAIN wire' /\ wire'[i] = wire[i]
      /\ \A call : OnWire(call)' <=> OnWire(call) \/ call = packet.from
  BY <1>1, Sending
<1>3. \A i \in DOMAIN wire' : i \in DOMAIN wire \/ i = Len(wire) + 1
  BY <1>2
<1>t. /\ InstructionsOf(s) \in Seq(Instructions) /\ Len(InstructionsOf(s)) = Count(s)
      /\ Count(s) \in Nat
  BY InstructionsOfSigning
<1>u. /\ remaining'[s] = InstructionsOf(s)
      /\ \A t \in Signings : t # s => remaining'[t] = remaining[t]
      /\ signing'[s] = "streaming"
      /\ \A t \in Signings : t # s => signing'[t] = signing[t]
      /\ listening'[s]
      /\ \A t \in Signings : t # s => listening'[t] = listening[t]
      /\ replies' = replies /\ output' = output /\ exchange' = exchange /\ device' = device
  BY DEF DoSignTransaction, TypesOK
<1>v. Sent(s)' = 0 /\ \A t \in Signings : t # s => Sent(t)' = Sent(t)
  BY <1>0, <1>t, <1>u DEF Sent
<1>w. ~OnWire(s) /\ replies[s] = None
  BY DEF PacketsOK, DoSignTransaction
<1>4. TypesOK'
  <2>1. remaining' \in [Signings -> Seq(Instructions)]
    BY <1>t DEF TypesOK, DoSignTransaction
  <2> QED
    BY <1>0, <1>2, <2>1 DEF TypesOK, DoSignTransaction
<1>5. RemainingOK'
  <2>1. ASSUME NEW t \in Signings, t = s
        PROVE  /\ Len(remaining'[t]) <= Count(t)'
               /\ \A i \in 1..Len(remaining'[t]) : remaining'[t][i] = InstructionsOf(t)'[Sent(t)' + i]
    BY <2>1, <1>0, <1>t, <1>u, <1>v
  <2>2. ASSUME NEW t \in Signings, t # s
        PROVE  /\ Len(remaining'[t]) <= Count(t)'
               /\ \A i \in 1..Len(remaining'[t]) : remaining'[t][i] = InstructionsOf(t)'[Sent(t)' + i]
    BY <2>2, <1>0, <1>u, <1>v DEF RemainingOK
  <2> QED
    BY <2>1, <2>2 DEF RemainingOK
<1>6. PacketsOK'
  <2>1. \A i \in DOMAIN wire : wire[i].from # s
    BY <1>w DEF OnWire
  <2>2. \A i \in DOMAIN wire : PacketOK(wire[i])'
    BY <2>1, <1>0, <1>2, <1>v DEF PacketsOK, PacketOK
  <2>4. \A i \in DOMAIN wire' : PacketOK(wire[i])'
    BY <1>1, <1>2, <1>3, <1>v, <2>2 DEF PacketOK
  <2>6. \A i, j \in DOMAIN wire' : wire'[i].from = wire'[j].from => i = j
    BY <1>1, <1>2, <1>3, <2>1 DEF PacketsOK
  <2>7. \A t \in Signings :
          /\ signing'[t] = "streaming" => (OnWire(t)' <=> replies'[t] = None)
          /\ signing'[t] # "streaming" => ~OnWire(t)' /\ replies'[t] = None
    BY <1>1, <1>2, <1>u, <1>w DEF PacketsOK
  <2>8. \A f \in Exchanges : exchange'[f] = "idle" => ~OnWire(f)'
    BY <1>1, <1>2, <1>u DEF PacketsOK
  <2> QED
    BY <2>4, <2>6, <2>7, <2>8 DEF PacketsOK
<1>7. CoversOK'
  <2> SUFFICES ASSUME OneAtATime
               PROVE  /\ \A t, u \in Signings : Active(t)' /\ Active(u)' => t = u
                      /\ \A t \in Signings : Active(t)' => ActiveOK(t)'
                      /\ \A t \in Signings : SignedOK(t, output[t])'
    BY DEF CoversOK
  <2>1. \A t \in Signings : Active(t)' => t = s
    BY <1>u DEF Active, Awaited, DoSignTransaction
  <2>2. SetupIsLast(s)'
    BY <1>2, <1>r DEF SetupIsLast, Setup
  <2>3. \A t \in Signings : SignedOK(t, output[t])'
    BY <1>0, <1>u DEF CoversOK, SignedOK
  <2> QED
    BY <2>1, <2>2, <2>3 DEF ActiveOK
<1> QED
  BY <1>4, <1>5, <1>6, <1>7

\* What shifting an instruction off leaves is again the end of a transaction.
LEMMA Shifting ==
  ASSUME TypesOK, RemainingOK, tx' = tx, NEW s \in Signings, remaining[s] # <<>>,
         remaining' = [remaining EXCEPT ![s] = Tail(@)]
  PROVE  /\ remaining' \in [Signings -> Seq(Instructions')] /\ RemainingOK'
         /\ Sent(s) \in Nat /\ Sent(s)' = Sent(s) + 1
         /\ Head(remaining[s]) \in Instructions
         /\ Head(remaining[s]) = InstructionsOf(s)[Sent(s) + 1]
         /\ \A t \in Signings : t # s => Sent(t)' = Sent(t)
<1>0. Instructions' = Instructions /\ \A t : InstructionsOf(t)' = InstructionsOf(t) /\ Count(t)' = Count(t)
  BY TransactionsStay
<1>1. remaining[s] \in Seq(Instructions)
  BY DEF TypesOK
<1>2. Count(s) \in Nat /\ Len(remaining[s]) \in Nat \ {0} /\ Len(remaining[s]) <= Count(s)
  BY <1>1, InstructionsOfSigning, EmptySeq, LenProperties DEF RemainingOK
<1>3. /\ remaining'[s] = Tail(remaining[s])
      /\ \A t \in Signings : t # s => remaining'[t] = remaining[t]
  BY DEF TypesOK
<1>4. /\ Tail(remaining[s]) \in Seq(Instructions)
      /\ Len(Tail(remaining[s])) = Len(remaining[s]) - 1
      /\ \A i \in 1..Len(Tail(remaining[s])) : Tail(remaining[s])[i] = remaining[s][i + 1]
      /\ Head(remaining[s]) = remaining[s][1] /\ Head(remaining[s]) \in Instructions
  BY <1>1, HeadTailProperties
<1>5. Sent(s) \in Nat /\ Sent(s)' = Sent(s) + 1
  <2>1. Len(remaining[s])' = Len(remaining[s]) - 1 /\ Count(s)' = Count(s)
    BY <1>0, <1>3, <1>4
  <2>2. Sent(s) = Count(s) - Len(remaining[s]) /\ Sent(s)' = Count(s)' - Len(remaining[s])'
    BY DEF Sent
  <2> QED
    BY <2>1, <2>2, <1>2
<1>6. \A t \in Signings : t # s => Sent(t)' = Sent(t)
  BY <1>0, <1>3 DEF Sent
<1>7. remaining' \in [Signings -> Seq(Instructions')]
  BY <1>0, <1>4 DEF TypesOK
<1>8. Head(remaining[s]) = InstructionsOf(s)[Sent(s) + 1]
  BY <1>2, <1>4 DEF RemainingOK
<1>9. RemainingOK'
  <2>1. ASSUME NEW i \in 1..Len(Tail(remaining[s]))
        PROVE  Tail(remaining[s])[i] = InstructionsOf(s)[(Sent(s) + 1) + i]
    <3>1. i \in 1..(Len(remaining[s]) - 1)
      BY <1>4
    <3>2. i + 1 \in 1..Len(remaining[s]) /\ Sent(s) + (i + 1) = (Sent(s) + 1) + i
      BY <3>1, <1>2, <1>5
    <3> QED
      BY <3>2, <1>4 DEF RemainingOK
  <2>2. /\ Len(remaining'[s]) <= Count(s)'
        /\ \A i \in 1..Len(remaining'[s]) : remaining'[s][i] = InstructionsOf(s)'[Sent(s)' + i]
    <3>1. Len(Tail(remaining[s])) <= Count(s)
      BY <1>2, <1>4
    <3> QED
      BY <2>1, <3>1, <1>0, <1>3, <1>5
  <2>3. ASSUME NEW t \in Signings, t # s
        PROVE  /\ Len(remaining'[t]) <= Count(t)'
               /\ \A i \in 1..Len(remaining'[t]) : remaining'[t][i] = InstructionsOf(t)'[Sent(t)' + i]
    BY <2>3, <1>0, <1>3, <1>6 DEF RemainingOK
  <2> QED
    BY <2>2, <2>3 DEF RemainingOK
<1> QED
  BY <1>4, <1>5, <1>6, <1>7, <1>8, <1>9

\* A signing ends: by a signature, when all was sent, by an error, or by an
\* exception, which its caller is not told of.
Ended(s) ==
  /\ wire' = wire
  /\ remaining' = remaining \/ (remaining[s] # <<>> /\ remaining' = [remaining EXCEPT ![s] = Tail(@)])
  /\ \E state \in {"signed", "failed", "thrown"} : signing' = [signing EXCEPT ![s] = state]
  /\ \/ output' = output
     \/ output' = [output EXCEPT ![s] = [kind |-> "error"]]
     \/ /\ remaining[s] = <<>> /\ listening[s] /\ replies[s].kind = "signature"
        /\ output' = [output EXCEPT ![s] = replies[s]]

\* Or its next instruction is sent.
SendsNext(s) ==
  /\ remaining[s] # <<>> /\ remaining' = [remaining EXCEPT ![s] = Tail(@)]
  /\ wire' = Append(wire, Packet(s, Head(remaining[s])))
  /\ signing' = signing /\ output' = output

\* An answer ends a signing or has it send the next instruction.
LEMMA AnswerOutcomes ==
  ASSUME LedgerInv, NEW s \in Signings, AnswerArrives(s)
  PROVE  /\ Ended(s) \/ SendsNext(s)
         /\ replies[s] # None /\ replies'[s] = None
         /\ \A call \in Signings \cup Exchanges : call # s => replies'[call] = replies[call]
         /\ replies' = [replies EXCEPT ![s] = None]
         /\ ~OnWire(s) /\ signing[s] = "streaming"
         /\ tx' = tx /\ listening' = listening /\ exchange' = exchange /\ device' = device
<1> USE DEF LedgerInv
<1>1. replies' = [replies EXCEPT ![s] = None] /\ replies[s] # None
  BY DEF AnswerArrives
<1>2. /\ replies'[s] = None
      /\ \A call \in Signings \cup Exchanges : call # s => replies'[call] = replies[call]
  BY <1>1 DEF TypesOK
<1>3. ~OnWire(s) /\ signing[s] = "streaming"
  BY <1>1 DEF PacketsOK
<1>5. Ended(s) \/ SendsNext(s)
  <2>1. CASE replies[s].kind = "error"
    BY <2>1 DEF AnswerArrives, Ended, Fails, Ends
  <2>2. CASE replies[s].kind # "error" /\ remaining[s] # <<>>
    BY <2>2 DEF AnswerArrives, SendInstruction, Ended, SendsNext, Fails, Ends
  <2>3. CASE replies[s].kind # "error" /\ remaining[s] = <<>>
    BY <2>3 DEF AnswerArrives, LastAnswer, ParseSignature, Ended, Fails, Throws, Ends
  <2> QED
    BY <2>1, <2>2, <2>3
<1> QED
  BY <1>1, <1>2, <1>3, <1>5 DEF AnswerArrives

LEMMA EndedStep ==
  ASSUME LedgerInv, NEW s \in Signings, AnswerArrives(s), Ended(s)
  PROVE  LedgerInv'
<1> USE DEF LedgerInv
<1>1. /\ replies[s] # None /\ replies'[s] = None
      /\ \A call \in Signings \cup Exchanges : call # s => replies'[call] = replies[call]
      /\ replies' = [replies EXCEPT ![s] = None]
      /\ ~OnWire(s) /\ signing[s] = "streaming"
      /\ tx' = tx /\ listening' = listening /\ exchange' = exchange /\ device' = device
  BY AnswerOutcomes
<1>0. /\ Instructions' = Instructions /\ Packets' = Packets
      /\ ReplyRecord' = ReplyRecord /\ Device' = Device
      /\ \A t : InstructionsOf(t)' = InstructionsOf(t) /\ Count(t)' = Count(t)
  BY <1>1, TransactionsStay
<1>2. /\ wire' = wire /\ signing'[s] # "streaming"
      /\ \A t \in Signings : t # s => signing'[t] = signing[t]
      /\ signing' \in [Signings -> {"idle", "streaming", "signed", "failed", "thrown"}]
      /\ \A call : OnWire(call)' <=> OnWire(call)
  BY DEF Ended, TypesOK, OnWire
<1>3. /\ remaining' \in [Signings -> Seq(Instructions')] /\ RemainingOK'
      /\ \A t \in Signings : t # s => Sent(t)' = Sent(t)
  <2>1. CASE remaining' = remaining
    BY <2>1, <1>0, <1>1 DEF TypesOK, RemainingOK, Sent
  <2>2. CASE remaining[s] # <<>> /\ remaining' = [remaining EXCEPT ![s] = Tail(@)]
    BY <2>2, <1>1, Shifting
  <2> QED
    BY <2>1, <2>2 DEF Ended
<1>4. TypesOK'
  <2>1. output' \in [Signings -> ReplyRecord]
    BY DEF Ended, TypesOK, ReplyRecord
  <2>2. replies' \in [Signings \cup Exchanges -> ReplyRecord]
    BY <1>1 DEF TypesOK, ReplyRecord
  <2> QED
    BY <2>1, <2>2, <1>0, <1>1, <1>2, <1>3 DEF TypesOK
<1>5. PacketsOK'
  <2>1. \A i \in DOMAIN wire : wire[i].from # s
    BY <1>1 DEF OnWire
  <2>2. \A i \in DOMAIN wire' : PacketOK(wire[i])'
    BY <2>1, <1>0, <1>2, <1>3 DEF PacketsOK, PacketOK
  <2>3. \A i, j \in DOMAIN wire' : wire'[i].from = wire'[j].from => i = j
    BY <1>2 DEF PacketsOK
  <2>4. \A t \in Signings :
          /\ signing'[t] = "streaming" => (OnWire(t)' <=> replies'[t] = None)
          /\ signing'[t] # "streaming" => ~OnWire(t)' /\ replies'[t] = None
    BY <1>1, <1>2 DEF PacketsOK
  <2>5. \A e \in Exchanges : exchange'[e] = "idle" => ~OnWire(e)'
    BY <1>1, <1>2 DEF PacketsOK
  <2> QED
    BY <2>2, <2>3, <2>4, <2>5 DEF PacketsOK
<1>6. CoversOK'
  <2> SUFFICES ASSUME OneAtATime
               PROVE  /\ \A t, u \in Signings : Active(t)' /\ Active(u)' => t = u
                      /\ \A t \in Signings : Active(t)' => ActiveOK(t)'
                      /\ \A t \in Signings : SignedOK(t, output[t])'
    BY DEF CoversOK
  <2>1. \A t \in Signings : Active(t)' => Active(t) /\ t # s
    BY <1>1, <1>2 DEF Active
  <2>2. ASSUME NEW t \in Signings, t # s, ActiveOK(t) PROVE ActiveOK(t)'
    BY <2>2, <1>0, <1>1, <1>2, <1>3
    DEF ActiveOK, SetupIsLast, Setup, Collecting, Taken, SignedOK
  <2>3. ASSUME remaining[s] = <<>>, listening[s] PROVE SignedOK(s, replies[s])
    <3>1. Sent(s) = Count(s)
      BY <2>3, InstructionsOfSigning DEF Sent
    <3>2. ~SetupIsLast(s)
      BY <1>1 DEF SetupIsLast, OnWire, Setup
    <3> QED
      BY <2>3, <1>1, <3>1, <3>2 DEF CoversOK, Active, ActiveOK
  <2>4. \A t \in Signings : SignedOK(t, output[t])
    BY DEF CoversOK
  <2>5. \A t \in Signings : t # s => SignedOK(t, output[t])'
    BY <2>4, <1>0 DEF SignedOK, Ended, TypesOK
  <2>6. SignedOK(s, output[s])'
    BY <2>3, <2>4, <1>0 DEF SignedOK, Ended, TypesOK
  <2> QED
    BY <2>1, <2>2, <2>5, <2>6 DEF CoversOK
<1> QED
  BY <1>3, <1>4, <1>5, <1>6

LEMMA SendsNextStep ==
  ASSUME LedgerInv, NEW s \in Signings, AnswerArrives(s), SendsNext(s)
  PROVE  LedgerInv'
<1> USE DEF LedgerInv
<1> DEFINE packet == Packet(s, Head(remaining[s]))
<1>1. /\ replies[s] # None /\ replies'[s] = None
      /\ \A call \in Signings \cup Exchanges : call # s => replies'[call] = replies[call]
      /\ replies' = [replies EXCEPT ![s] = None]
      /\ ~OnWire(s) /\ signing[s] = "streaming"
      /\ tx' = tx /\ listening' = listening /\ exchange' = exchange /\ device' = device
  BY AnswerOutcomes
<1>0. /\ Instructions' = Instructions /\ Packets' = Packets
      /\ ReplyRecord' = ReplyRecord /\ Device' = Device
      /\ \A t : InstructionsOf(t)' = InstructionsOf(t) /\ Count(t)' = Count(t)
  BY <1>1, TransactionsStay
<1>2. /\ remaining' \in [Signings -> Seq(Instructions')] /\ RemainingOK'
      /\ Sent(s) \in Nat /\ Sent(s)' = Sent(s) + 1
      /\ Head(remaining[s]) \in Instructions
      /\ Head(remaining[s]) = InstructionsOf(s)[Sent(s) + 1]
      /\ \A t \in Signings : t # s => Sent(t)' = Sent(t)
  BY <1>1, Shifting DEF SendsNext
<1>3. /\ packet \in Packets /\ wire' = Append(wire, packet)
      /\ packet.kind = "instruction" /\ packet.from = s
      /\ packet.instruction = InstructionsOf(s)[Sent(s)']
      /\ s \notin Exchanges
  BY <1>2, LedgerAssumption DEF SendsNext, Packets, Packet
<1> HIDE DEF packet
<1>4. /\ Len(wire) \in Nat /\ DOMAIN wire = 1..Len(wire)
      /\ wire' \in Seq(Packets') /\ DOMAIN wire' = 1..(Len(wire) + 1)
      /\ wire'[Len(wire) + 1] = packet
      /\ \A i \in DOMAIN wire : i \in DOMAIN wire' /\ wire'[i] = wire[i]
      /\ \A call : OnWire(call)' <=> OnWire(call) \/ call = packet.from
  BY <1>1, <1>3, Sending
<1>5. \A i \in DOMAIN wire' : i \in DOMAIN wire \/ i = Len(wire) + 1
  BY <1>4
<1>6. signing' = signing /\ output' = output
  BY DEF SendsNext
<1>7. TypesOK'
  <2>1. replies' \in [Signings \cup Exchanges -> ReplyRecord]
    BY <1>1 DEF TypesOK, ReplyRecord
  <2> QED
    BY <2>1, <1>0, <1>1, <1>2, <1>4, <1>6 DEF TypesOK
<1>8. PacketsOK'
  <2>1. \A i \in DOMAIN wire : wire[i].from # s
    BY <1>1 DEF OnWire
  <2>2. \A i \in DOMAIN wire : PacketOK(wire[i])'
    BY <2>1, <1>0, <1>2, <1>4 DEF PacketsOK, PacketOK
  <2>3. \A i \in DOMAIN wire' : PacketOK(wire[i])'
    BY <1>0, <1>2, <1>3, <1>4, <1>5, <2>2 DEF PacketOK
  <2>4. \A i, j \in DOMAIN wire' : wire'[i].from = wire'[j].from => i = j
    BY <1>3, <1>4, <1>5, <2>1 DEF PacketsOK
  <2>5. \A t \in Signings :
          /\ signing'[t] = "streaming" => (OnWire(t)' <=> replies'[t] = None)
          /\ signing'[t] # "streaming" => ~OnWire(t)' /\ replies'[t] = None
    BY <1>1, <1>3, <1>4, <1>6 DEF PacketsOK
  <2>6. \A e \in Exchanges : exchange'[e] = "idle" => ~OnWire(e)'
    BY <1>1, <1>3, <1>4 DEF PacketsOK
  <2> QED
    BY <2>3, <2>4, <2>5, <2>6 DEF PacketsOK
<1>9. CoversOK'
  <2> SUFFICES ASSUME OneAtATime
               PROVE  /\ \A t, u \in Signings : Active(t)' /\ Active(u)' => t = u
                      /\ \A t \in Signings : Active(t)' => ActiveOK(t)'
                      /\ \A t \in Signings : SignedOK(t, output[t])'
    BY DEF CoversOK
  <2>1. \A t \in Signings : Active(t)' <=> Active(t)
    BY <1>1, <1>6 DEF Active
  <2>2. ASSUME NEW t \in Signings, SetupIsLast(t) PROVE SetupIsLast(t)'
    BY <2>2, <1>3, <1>4, <1>5 DEF SetupIsLast, Setup
  <2>3. ASSUME NEW t \in Signings, ActiveOK(t), ~SetupIsLast(t)
        PROVE  \A i \in DOMAIN wire' : wire'[i].kind # "setup"
    BY <2>3, <1>3, <1>4, <1>5 DEF ActiveOK
  <2>4. ASSUME NEW t \in Signings PROVE Taken(t)' = Taken(t)
    <3>1. CASE t = s
      <4>1. Taken(t) = Sent(t) /\ Taken(t)' = Sent(t)' - 1
        BY <3>1, <1>1, <1>3, <1>4 DEF Taken
      <4> QED
        BY <4>1, <3>1, <1>2
    <3>2. CASE t # s
      <4>1. (OnWire(t)' <=> OnWire(t)) /\ Sent(t)' = Sent(t)
        BY <3>2, <1>2, <1>3, <1>4
      <4> QED
        BY <4>1 DEF Taken
    <3> QED
      BY <3>1, <3>2
  <2>5. \A t \in Signings : Collecting(t) => Collecting(t)'
    BY <2>4, <1>0, <1>1 DEF Collecting
  <2>6. ASSUME NEW t \in Signings, Sent(t) = Count(t) => SignedOK(t, replies[t])
        PROVE  (Sent(t) = Count(t) => SignedOK(t, replies[t]))'
    BY <2>6, <1>0, <1>1, <1>2 DEF SignedOK, None
  <2>7. \A t \in Signings : ActiveOK(t) => ActiveOK(t)'
    BY <2>2, <2>3, <2>5, <2>6 DEF ActiveOK
  <2>8. \A t \in Signings : SignedOK(t, output[t])'
    BY <1>0, <1>6 DEF CoversOK, SignedOK
  <2> QED
    BY <2>1, <2>7, <2>8 DEF CoversOK
<1> QED
  BY <1>2, <1>7, <1>8, <1>9

LEMMA AnswerStep ==
  ASSUME LedgerInv, NEW s \in Signings, AnswerArrives(s)
  PROVE  LedgerInv'
  BY AnswerOutcomes, EndedStep, SendsNextStep

\* What the device does with a packet: it answers the packet's sender, with an
\* error, an acknowledgement, or the signature of what it has collected, perhaps
\* without the byte V.
Answered(packet, reply) ==
  /\ reply \in ReplyRecord /\ reply # None
  /\ replies' = [replies EXCEPT ![packet.from] = reply]

DeviceOutcome(packet) ==
  \/ packet.kind = "setup" /\ \E reply \in {[kind |-> "ack"], [kind |-> "error"]} :
       /\ Answered(packet, reply)
       /\ device' \in {[expected |-> Count(packet.from), received |-> <<>>], NoSetup}
  \/ packet.kind = "other" /\ \E reply \in {[kind |-> "ack"], [kind |-> "error"]} :
       /\ Answered(packet, reply)
       /\ device' \in {device, NoSetup}
  \/ /\ packet.kind = "instruction"
     /\ \/ /\ device' = NoSetup
           /\ \E reply \in {[kind |-> "ack"], [kind |-> "error"], [kind |-> "truncated"]} :
                Answered(packet, reply)
        \/ /\ device # NoSetup /\ Len(Collected(packet)) < device.expected
           /\ device' = [expected |-> device.expected, received |-> Collected(packet)]
           /\ Answered(packet, [kind |-> "ack"])
        \/ /\ device # NoSetup /\ ~(Len(Collected(packet)) < device.expected)
           /\ device' = NoSetup
           /\ Answered(packet, [kind |-> "signature", covers |-> Collected(packet)])

\* The device collects instructions, one more with each packet.
LEMMA CollectingOneMore ==
  ASSUME TypesOK, NEW packet \in Packets, packet.kind = "instruction"
  PROVE  /\ packet.instruction \in Instructions
         /\ Collected(packet) \in Seq(Instructions)
         /\ Len(device.received) \in Nat
         /\ Len(Collected(packet)) = Len(device.received) + 1
         /\ Collected(packet)[Len(device.received) + 1] = packet.instruction
         /\ \A i \in 1..Len(device.received) : Collected(packet)[i] = device.received[i]
<1>1. packet.instruction \in Instructions
  BY PacketKinds DEF Setup
<1>2. device.received \in Seq(Instructions)
  BY DEF TypesOK, Device
<1> QED
  BY <1>1, <1>2, AppendProperties, LenProperties DEF Collected

LEMMA DeviceOutcomes ==
  ASSUME LedgerInv, DeviceTakes
  PROVE  DeviceOutcome(Head(wire)) /\ device' \in Device
<1> USE DEF LedgerInv
<1> DEFINE packet == Head(wire)
<1>1. packet \in Packets
  BY Taking DEF DeviceTakes
<1> HIDE DEF packet
<1>2. device \in Device /\ device = [expected |-> device.expected, received |-> device.received]
  BY DEF TypesOK, Device
<1>3. PICK answer \in Answers :
        TakeSetup(packet, answer) \/ TakeInstruction(packet, answer) \/ TakeOther(packet, answer)
  BY DEF DeviceTakes, packet
<1>4. NoSetup \in Device
  BY DEF NoSetup, Device
<1>5. /\ [kind |-> "ack"] \in ReplyRecord /\ [kind |-> "ack"] # None
      /\ [kind |-> "error"] \in ReplyRecord /\ [kind |-> "error"] # None
      /\ [kind |-> "truncated"] \in ReplyRecord /\ [kind |-> "truncated"] # None
  BY DEF ReplyRecord, None
<1>6. CASE TakeSetup(packet, answer)
  <2>1. packet.from \in Signings
    BY <1>1, <1>6, PacketKinds DEF TakeSetup
  <2>2. [expected |-> Count(packet.from), received |-> <<>>] \in Device
    BY <2>1, InstructionsOfSigning DEF Device
  <2> QED
    BY <2>2, <1>4, <1>5, <1>6 DEF TakeSetup, DeviceOutcome, Answered, Reply, Count, packet
<1>7. CASE TakeOther(packet, answer)
  BY <1>2, <1>4, <1>5, <1>7 DEF TakeOther, DeviceOutcome, Answered, Reply, packet
<1>8. CASE TakeInstruction(packet, answer)
  <2>1. packet.kind = "instruction"
    BY <1>8 DEF TakeInstruction
  <2>2. Collected(packet) \in Seq(Instructions)
    BY <1>1, <2>1, CollectingOneMore
  <2>3. [device EXCEPT !.received = Collected(packet)]
           = [expected |-> device.expected, received |-> Collected(packet)]
    BY <1>2
  <2>4. [expected |-> device.expected, received |-> Collected(packet)] \in Device
    BY <1>2, <2>2 DEF Device
  <2>5. /\ [kind |-> "signature", covers |-> Collected(packet)] \in ReplyRecord
        /\ [kind |-> "signature", covers |-> Collected(packet)] # None
    BY <2>2 DEF ReplyRecord, None
  <2>6. CASE answer = "refused" \/ device = NoSetup
    BY <2>1, <2>6, <1>4, <1>5, <1>8 DEF TakeInstruction, DeviceOutcome, Answered, Reply, packet
  <2>7. CASE ~(answer = "refused" \/ device = NoSetup) /\ Len(Collected(packet)) < device.expected
    BY <2>1, <2>3, <2>4, <2>7, <1>5, <1>8 DEF TakeInstruction, DeviceOutcome, Answered, Reply, packet
  <2>8. CASE ~(answer = "refused" \/ device = NoSetup) /\ ~(Len(Collected(packet)) < device.expected)
    BY <2>1, <2>5, <2>8, <1>4, <1>5, <1>8 DEF TakeInstruction, DeviceOutcome, Answered, Reply, packet
  <2> QED
    BY <2>6, <2>7, <2>8
<1> QED
  BY <1>3, <1>6, <1>7, <1>8

\* When the setup of the last signing to be listened to is taken, no other is
\* on the wire, and the device starts to collect for it.
LEMMA DeviceStepSetup ==
  ASSUME LedgerInv, DeviceTakes, NEW s \in Signings, SetupIsLast(s)
  PROVE  ActiveOK(s)'
<1> USE DEF LedgerInv
<1> DEFINE packet == Head(wire)
<1>0. /\ tx' = tx /\ remaining' = remaining
      /\ \A t : InstructionsOf(t)' = InstructionsOf(t) /\ Count(t)' = Count(t)
  BY TransactionsStay DEF DeviceTakes
<1>1. /\ Len(wire) \in Nat /\ DOMAIN wire = 1..Len(wire) /\ 1 \in DOMAIN wire
      /\ packet = wire[1]
      /\ DOMAIN wire' = 1..(Len(wire) - 1)
      /\ \A i \in DOMAIN wire' : i + 1 \in DOMAIN wire /\ wire'[i] = wire[i + 1]
      /\ \A call : OnWire(call)' <=> OnWire(call) /\ call # packet.from
  BY <1>0, Taking DEF DeviceTakes
<1>2. DeviceOutcome(packet)
  BY DeviceOutcomes
<1> HIDE DEF packet
<1>3. PICK k \in DOMAIN wire :
        wire[k] = Setup(s) /\ \A j \in DOMAIN wire : wire[j].kind = "setup" => j <= k
  BY DEF SetupIsLast
<1>4. CASE k = 1
  <2>1. packet.kind = "setup" /\ packet.from = s
    BY <1>1, <1>3, <1>4 DEF Setup
  <2>2. \A i \in DOMAIN wire' : wire'[i].kind # "setup"
    <3>1. ASSUME NEW i \in DOMAIN wire', wire'[i].kind = "setup" PROVE FALSE
      <4>1. i + 1 <= 1 /\ i \in Nat /\ i >= 1
        BY <3>1, <1>1, <1>3, <1>4
      <4> QED
        BY <4>1
    <3> QED
      BY <3>1
  <2>3. Sent(s) = 0 /\ ~OnWire(s)' /\ Count(s) \in Nat
    BY <2>1, <1>1, InstructionsOfSigning DEF PacketsOK, PacketOK
  <2>4. Sent(s)' = 0 /\ Taken(s)' = 0
    BY <2>3, <1>0 DEF Sent, Taken
  <2>5. device' \in {[expected |-> Count(s), received |-> <<>>], NoSetup}
    BY <1>2, <2>1 DEF DeviceOutcome
  <2>6. Collecting(s)'
    <3>1. CASE device' = NoSetup
      BY <3>1 DEF Collecting, NoSetup
    <3>2. CASE device' = [expected |-> Count(s), received |-> <<>>] /\ Count(s) # 0
      BY <3>2, <2>3, <2>4, <1>0 DEF Collecting
    <3> QED
      BY <3>1, <3>2, <2>5 DEF NoSetup
  <2>7. replies'[s].kind # "signature"
    <3>1. PICK reply \in {[kind |-> "ack"], [kind |-> "error"]} : Answered(packet, reply)
      BY <1>2, <2>1 DEF DeviceOutcome
    <3>2. replies'[s] = reply
      BY <3>1, <2>1 DEF Answered, TypesOK
    <3> QED
      BY <3>2
  <2> QED
    BY <2>2, <2>6, <2>7 DEF ActiveOK, SignedOK
<1>5. CASE k # 1
  <2>1. k - 1 \in DOMAIN wire' /\ wire'[k - 1] = Setup(s)
    BY <1>1, <1>3, <1>5
  <2>2. ASSUME NEW j \in DOMAIN wire', wire'[j].kind = "setup" PROVE j <= k - 1
    <3>1. j + 1 <= k /\ j \in Nat /\ k \in Nat
      BY <2>2, <1>1, <1>3
    <3> QED
      BY <3>1
  <2>3. SetupIsLast(s)'
    BY <2>1, <2>2 DEF SetupIsLast, Setup
  <2> QED
    BY <2>3 DEF ActiveOK
<1> QED
  BY <1>4, <1>5

\* An instruction of s that the device takes is the next of those it has of s;
\* one of another signing leaves it with too many. A signature answers s's last
\* only if the device has no other.
LEMMA DeviceStepCollects ==
  ASSUME LedgerInv, DeviceTakes, NEW s \in Signings, ActiveOK(s), ~SetupIsLast(s)
  PROVE  ActiveOK(s)'
<1> USE DEF LedgerInv
<1> DEFINE packet == Head(wire)
           held == Len(device.received)
<1>0. /\ tx' = tx /\ remaining' = remaining
      /\ \A t : InstructionsOf(t)' = InstructionsOf(t) /\ Count(t)' = Count(t)
  BY TransactionsStay DEF DeviceTakes
<1>1. /\ Len(wire) \in Nat /\ DOMAIN wire = 1..Len(wire) /\ 1 \in DOMAIN wire
      /\ packet = wire[1] /\ packet \in Packets
      /\ DOMAIN wire' = 1..(Len(wire) - 1)
      /\ \A i \in DOMAIN wire' : i + 1 \in DOMAIN wire /\ wire'[i] = wire[i + 1]
      /\ \A call : OnWire(call)' <=> OnWire(call) /\ call # packet.from
      /\ OnWire(packet.from)
  BY <1>0, Taking DEF DeviceTakes
<1>2. DeviceOutcome(packet)
  BY DeviceOutcomes
<1> HIDE DEF packet
<1>3. /\ \A i \in DOMAIN wire : wire[i].kind # "setup"
      /\ Collecting(s)
      /\ Sent(s) = Count(s) => SignedOK(s, replies[s])
  BY DEF ActiveOK
<1>4. \A i \in DOMAIN wire' : wire'[i].kind # "setup"
  BY <1>1, <1>3
<1>5. /\ Count(s) \in Nat /\ InstructionsOf(s) \in Seq(Instructions)
      /\ Len(InstructionsOf(s)) = Count(s)
  BY InstructionsOfSigning
<1>6. Sent(s)' = Sent(s) /\ Sent(s) \in Nat /\ Sent(s) <= Count(s)
  <2>1. Len(remaining[s]) \in Nat /\ Len(remaining[s]) <= Count(s)
    BY DEF TypesOK, RemainingOK
  <2> QED
    BY <2>1, <1>0, <1>5 DEF Sent
<1>7. held \in Nat
  BY DEF TypesOK, Device
<1>8. packet.from \in Signings \cup Exchanges
  BY <1>1, PacketKinds
<1>9. CASE packet.from # s
  <2>1. Taken(s)' = Taken(s)
    BY <1>9, <1>1, <1>6 DEF Taken
  <2>2. replies'[s] = replies[s]
    BY <1>9, <1>2 DEF DeviceOutcome, Answered, TypesOK
  <2>3. (Sent(s) = Count(s) => SignedOK(s, replies[s]))'
    BY <2>2, <1>0, <1>3, <1>6 DEF SignedOK
  <2>4. CASE device' = NoSetup
    BY <2>3, <2>4, <1>4 DEF ActiveOK, Collecting, NoSetup
  <2>5. CASE device' = device
    <3>1. Collecting(s)'
      BY <2>1, <2>5, <1>0, <1>3 DEF Collecting, NoSetup
    <3> QED
      BY <3>1, <2>3, <1>4 DEF ActiveOK
  <2>6. CASE /\ packet.kind = "instruction" /\ device # NoSetup
             /\ Len(Collected(packet)) < device.expected
             /\ device' = [expected |-> device.expected, received |-> Collected(packet)]
    <3>1. Len(Collected(packet)) = held + 1
      BY <2>6, <1>1, CollectingOneMore
    <3>2. /\ device.expected = Count(s) /\ Taken(s) <= held /\ held < Count(s)
      BY <2>6, <1>3 DEF Collecting
    <3>3. Taken(s) \in Int
      BY <1>6 DEF Taken
    <3>4. /\ device'.expected = Count(s)' /\ device'.received = Collected(packet)
          /\ Taken(s)' <= held + 1 /\ held + 1 < Count(s)' /\ held + 1 # Taken(s)'
      BY <2>1, <2>6, <3>1, <3>2, <3>3, <1>0, <1>7
    <3>5. Collecting(s)'
      BY <3>1, <3>4 DEF Collecting
    <3> QED
      BY <3>5, <2>3, <1>4 DEF ActiveOK
  <2> QED
    BY <2>4, <2>5, <2>6, <1>1, <1>2, <1>3 DEF DeviceOutcome
<1>10. CASE packet.from = s
  <2>1. packet.kind = "instruction" /\ packet.instruction = InstructionsOf(s)[Sent(s)] /\ Sent(s) > 0
    BY <1>10, <1>1, <1>3, PacketKinds, LedgerAssumption DEF PacketsOK, PacketOK
  <2>2. Taken(s) = Sent(s) - 1 /\ Taken(s)' = Sent(s)
    BY <1>10, <1>1, <1>6 DEF Taken
  <2>3. /\ Len(Collected(packet)) = held + 1
        /\ Collected(packet)[held + 1] = packet.instruction
        /\ \A i \in 1..held : Collected(packet)[i] = device.received[i]
        /\ Collected(packet) \in Seq(Instructions)
    BY <2>1, <1>1, CollectingOneMore
  <2>4. ASSUME device # NoSetup, held = Taken(s)
        PROVE  \A i \in 1..Sent(s) : Collected(packet)[i] = InstructionsOf(s)[i]
    <3>1. ASSUME NEW i \in 1..Sent(s) PROVE Collected(packet)[i] = InstructionsOf(s)[i]
      <4>1. CASE i = Sent(s)
        BY <4>1, <2>1, <2>2, <2>3, <2>4, <1>6
      <4>2. CASE i # Sent(s)
        <5>1. i \in 1..Taken(s) /\ i \in 1..held
          BY <4>2, <2>2, <2>4, <1>6
        <5> QED
          BY <5>1, <2>3, <2>4, <1>3 DEF Collecting
      <4> QED
        BY <4>1, <4>2
    <3> QED
      BY <3>1
  <2>5. CASE /\ device' = NoSetup
             /\ \E reply \in {[kind |-> "ack"], [kind |-> "error"], [kind |-> "truncated"]} :
                  Answered(packet, reply)
    <3>1. replies'[s].kind # "signature"
      BY <1>10, <1>8, <2>5 DEF Answered, TypesOK
    <3> QED
      BY <3>1, <2>5, <1>4 DEF ActiveOK, SignedOK, Collecting, NoSetup
  <2>6. CASE /\ device # NoSetup /\ Len(Collected(packet)) < device.expected
             /\ device' = [expected |-> device.expected, received |-> Collected(packet)]
             /\ Answered(packet, [kind |-> "ack"])
    <3>1. replies'[s].kind # "signature"
      BY <1>10, <1>8, <2>6 DEF Answered, TypesOK
    <3>2. /\ device.expected = Count(s) /\ Taken(s) <= held /\ held < Count(s)
      BY <2>6, <1>3 DEF Collecting
    <3>3. /\ device'.expected = Count(s)' /\ device'.received = Collected(packet)
          /\ Taken(s)' <= held + 1 /\ held + 1 < Count(s)'
      BY <2>2, <2>3, <2>6, <3>2, <1>0, <1>6, <1>7
    <3>4. held + 1 = Taken(s)' =>
            \A i \in 1..Taken(s)' : device'.received[i] = InstructionsOf(s)'[i]
      BY <2>2, <2>4, <2>6, <3>3, <1>0, <1>6, <1>7
    <3>5. Collecting(s)'
      BY <2>3, <3>3, <3>4 DEF Collecting
    <3> QED
      BY <3>1, <3>5, <1>4 DEF ActiveOK, SignedOK
  <2>7. CASE /\ device # NoSetup /\ ~(Len(Collected(packet)) < device.expected)
             /\ device' = NoSetup
             /\ Answered(packet, [kind |-> "signature", covers |-> Collected(packet)])
    <3>1. replies'[s] = [kind |-> "signature", covers |-> Collected(packet)]
      BY <1>10, <1>8, <2>7 DEF Answered, TypesOK
    <3>2. ASSUME Sent(s) = Count(s) PROVE Collected(packet) = InstructionsOf(s)
      <4>1. /\ device.expected = Count(s) /\ Taken(s) <= held /\ held < Count(s)
        BY <2>7, <1>3 DEF Collecting
      <4>2. held = Taken(s) /\ held + 1 = Count(s)
        BY <4>1, <3>2, <2>2, <2>3, <2>7, <1>5, <1>7
      <4>3. \A i \in 1..Count(s) : Collected(packet)[i] = InstructionsOf(s)[i]
        BY <4>2, <3>2, <2>4, <2>7
      <4> QED
        BY <4>2, <4>3, <2>3, <1>5, SeqEqual
    <3>3. (Sent(s) = Count(s) => SignedOK(s, replies[s]))'
      BY <3>1, <3>2, <1>0, <1>6 DEF SignedOK
    <3> QED
      BY <3>3, <2>7, <1>4 DEF ActiveOK, Collecting, NoSetup
  <2> QED
    BY <2>1, <2>5, <2>6, <2>7, <1>2 DEF DeviceOutcome
<1> QED
  BY <1>9, <1>10

LEMMA DeviceStep ==
  ASSUME LedgerInv, DeviceTakes
  PROVE  LedgerInv'
<1> USE DEF LedgerInv
<1> DEFINE packet == Head(wire)
<1>1. /\ tx' = tx /\ signing' = signing /\ remaining' = remaining /\ listening' = listening
      /\ output' = output /\ exchange' = exchange
  BY DEF DeviceTakes
<1>0. /\ Instructions' = Instructions /\ Packets' = Packets
      /\ ReplyRecord' = ReplyRecord /\ Device' = Device
      /\ \A t : InstructionsOf(t)' = InstructionsOf(t) /\ Count(t)' = Count(t)
  BY <1>1, TransactionsStay
<1>2. /\ Len(wire) \in Nat /\ DOMAIN wire = 1..Len(wire) /\ 1 \in DOMAIN wire
      /\ packet = wire[1] /\ packet \in Packets
      /\ wire' \in Seq(Packets') /\ DOMAIN wire' = 1..(Len(wire) - 1)
      /\ \A i \in DOMAIN wire' : i + 1 \in DOMAIN wire /\ wire'[i] = wire[i + 1]
      /\ \A call : OnWire(call)' <=> OnWire(call) /\ call # packet.from
      /\ OnWire(packet.from)
  BY <1>1, Taking DEF DeviceTakes
<1>3. DeviceOutcome(packet) /\ device' \in Device
  BY DeviceOutcomes
<1> HIDE DEF packet
<1>4. PICK reply \in ReplyRecord : reply # None /\ replies' = [replies EXCEPT ![packet.from] = reply]
  BY <1>3 DEF DeviceOutcome, Answered
<1>5. /\ packet.from \in Signings \cup Exchanges
      /\ packet.kind = "other" => packet.from \notin Signings
      /\ packet.kind # "other" => packet.from \in Signings
      /\ packet.kind = "setup" => packet = Setup(packet.from)
  BY <1>2, PacketKinds, LedgerAssumption DEF Setup
<1>6. /\ replies'[packet.from] # None
      /\ \A call \in Signings \cup Exchanges : call # packet.from => replies'[call] = replies[call]
      /\ replies' \in [Signings \cup Exchanges -> ReplyRecord]
  BY <1>4, <1>5 DEF TypesOK
<1>7. \A t \in Signings : Sent(t)' = Sent(t)
  BY <1>0, <1>1 DEF Sent
<1>8. TypesOK'
  BY <1>0, <1>1, <1>2, <1>3, <1>6 DEF TypesOK
<1>9. RemainingOK'
  BY <1>0, <1>1, <1>7 DEF RemainingOK
<1>10. PacketsOK'
  <2>1. \A i \in DOMAIN wire' : PacketOK(wire[i])'
    BY <1>0, <1>2, <1>7 DEF PacketsOK, PacketOK
  <2>2. \A i, j \in DOMAIN wire' : wire'[i].from = wire'[j].from => i = j
    <3>1. ASSUME NEW i \in DOMAIN wire', NEW j \in DOMAIN wire', wire'[i].from = wire'[j].from
          PROVE  i = j
      <4>1. i + 1 = j + 1
        BY <3>1, <1>2 DEF PacketsOK
      <4>2. i \in Nat /\ j \in Nat
        BY <1>2
      <4> QED
        BY <4>1, <4>2
    <3> QED
      BY <3>1
  <2>3. \A t \in Signings :
          /\ signing'[t] = "streaming" => (OnWire(t)' <=> replies'[t] = None)
          /\ signing'[t] # "streaming" => ~OnWire(t)' /\ replies'[t] = None
    BY <1>1, <1>2, <1>6 DEF PacketsOK
  <2>4. \A e \in Exchanges : exchange'[e] = "idle" => ~OnWire(e)'
    BY <1>1, <1>2 DEF PacketsOK
  <2> QED
    BY <2>1, <2>2, <2>3, <2>4 DEF PacketsOK
<1>11. CoversOK'
  <2> SUFFICES ASSUME OneAtATime
               PROVE  /\ \A t, u \in Signings : Active(t)' /\ Active(u)' => t = u
                      /\ \A t \in Signings : Active(t)' => ActiveOK(t)'
                      /\ \A t \in Signings : SignedOK(t, output[t])'
    BY DEF CoversOK
  <2>1. \A t \in Signings : Active(t)' <=> Active(t)
    BY <1>1 DEF Active
  <2>2. \A t \in Signings : SignedOK(t, output[t])'
    BY <1>0, <1>1 DEF CoversOK, SignedOK
  <2>3. ASSUME NEW s \in Signings, SetupIsLast(s) PROVE ActiveOK(s)'
    BY <2>3, DeviceStepSetup
  <2>4. ASSUME NEW s \in Signings, ActiveOK(s), ~SetupIsLast(s) PROVE ActiveOK(s)'
    BY <2>4, DeviceStepCollects
  <2> QED
    BY <2>1, <2>2, <2>3, <2>4 DEF CoversOK
<1> QED
  BY <1>8, <1>9, <1>10, <1>11

\* Signings, exchanges, the wire and the device keep the inductive invariant,
\* with any number of them and abandoned at any time.
THEOREM LedgerInvariant == Spec => []LedgerInv
<1>1. LedgerInv /\ [Next]_vars => LedgerInv'
  <2> SUFFICES ASSUME LedgerInv, [Next]_vars
               PROVE  LedgerInv'
    OBVIOUS
  <2>1. CASE \E s \in Signings : DoSignTransaction(s) \/ TransactionUnparsed(s)
                                   \/ Unsubscribe(s) \/ AnswerArrives(s)
    BY <2>1, DoSignStep, UnparsedStep, UnsubscribeStep, AnswerStep
  <2>2. CASE \E e \in Exchanges : StartExchange(e) \/ ExchangeAnswered(e)
    BY <2>2, StartExchangeStep, ExchangeAnsweredStep
  <2>3. CASE DeviceTakes
    BY <2>3, DeviceStep
  <2>4. CASE UNCHANGED vars
    <3>1. TypesOK'
      BY <2>4, TransactionsStay DEF vars, LedgerInv, TypesOK
    <3>2. RemainingOK'
      BY <2>4, TransactionsStay DEF vars, LedgerInv, RemainingOK, Sent
    <3>3. PacketsOK'
      BY <2>4, TransactionsStay DEF vars, LedgerInv, PacketsOK, PacketOK, Sent, OnWire
    <3>4. CoversOK'
      <4>1. \A s \in Signings : ActiveOK(s) => ActiveOK(s)'
        BY <2>4, TransactionsStay
        DEF vars, ActiveOK, SetupIsLast, Setup, Collecting, Taken, SignedOK, Sent, OnWire
      <4> QED
        BY <4>1, <2>4, TransactionsStay DEF vars, LedgerInv, CoversOK, Active, SignedOK
    <3> QED
      BY <3>1, <3>2, <3>3, <3>4 DEF LedgerInv
  <2> QED
    BY <2>1, <2>2, <2>3, <2>4 DEF Next
<1> QED
  BY <1>1, LedgerInit, PTL DEF Spec

\* In every reachable state the variables stay within the values the code can
\* give them, and what remains to be sent is the end of the transaction.
THEOREM TypeCorrect == Spec => []TypeOK
<1>1. ASSUME LedgerInv PROVE TypeOK
  <2>1. TypesOK /\ RemainingOK
    BY <1>1 DEF LedgerInv
  <2>2. \A reply \in ReplyRecord : reply = None \/ IsReply(reply)
    BY DEF ReplyRecord, IsReply
  <2>3. ASSUME NEW s \in Signings PROVE IsSuffix(remaining[s], InstructionsOf(s))
    <3> DEFINE rest == remaining[s]
               all == InstructionsOf(s)
    <3>1. /\ rest \in Seq(Instructions) /\ all \in Seq(Instructions)
          /\ Len(all) = Count(s) /\ Len(rest) \in Nat /\ Len(all) \in Nat
      BY <2>1, InstructionsOfSigning DEF TypesOK
    <3>2. /\ Len(rest) <= Len(all)
          /\ \A i \in 1..Len(rest) : rest[i] = all[(Len(all) - Len(rest)) + i]
      BY <2>1, <3>1 DEF RemainingOK, Sent
    <3> HIDE DEF rest, all
    <3>3. /\ Reverse(rest) = [i \in 1..Len(rest) |-> rest[(Len(rest) - i) + 1]]
          /\ Reverse(all) = [i \in 1..Len(all) |-> all[(Len(all) - i) + 1]]
      BY DEF Reverse
    <3>4. \A i \in 1..Len(rest) : (Len(rest) - i) + 1 \in 1..Len(rest)
      BY <3>1
    <3>5. \A i \in 1..Len(all) : (Len(all) - i) + 1 \in 1..Len(all)
      BY <3>1
    <3>6. Reverse(rest) \in [1..Len(rest) -> Instructions]
      BY <3>1, <3>3, <3>4
    <3>7. Reverse(all) \in [1..Len(all) -> Instructions]
      BY <3>1, <3>3, <3>5
    <3>8. /\ Reverse(rest) \in Seq(Instructions) /\ Len(Reverse(rest)) = Len(rest)
          /\ Reverse(all) \in Seq(Instructions) /\ Len(Reverse(all)) = Len(all)
      <4>1. \A n \in Nat : \A r \in [1..n -> Instructions] : r \in Seq(Instructions) /\ Len(r) = n
        OBVIOUS
      <4> QED
        BY <4>1, <3>1, <3>6, <3>7
    <3>9. ASSUME NEW i \in 1..Len(rest) PROVE Reverse(rest)[i] = Reverse(all)[i]
      <4>1. /\ (Len(rest) - i) + 1 \in 1..Len(rest) /\ i \in 1..Len(all)
            /\ (Len(all) - Len(rest)) + ((Len(rest) - i) + 1) = (Len(all) - i) + 1
        BY <3>1, <3>2
      <4>2. rest[(Len(rest) - i) + 1] = all[(Len(all) - i) + 1]
        BY <4>1, <3>2
      <4> QED
        BY <4>1, <4>2, <3>3
    <3>10. SubSeq(Reverse(rest), 1, Len(rest)) = SubSeq(Reverse(all), 1, Len(rest))
      <4>1. \A i \in 1..Len(rest) : i \in 1..Len(all)
        BY <3>1, <3>2
      <4> QED
        BY <4>1, <3>1, <3>2, <3>8, <3>9
    <3> QED
      BY <3>2, <3>8, <3>10 DEF IsSuffix, IsPrefix, rest, all
  <2>4. device.expected \in Nat /\ device.received \in Seq(Instructions)
    BY <2>1 DEF TypesOK, Device
  <2>5. /\ \A s \in Signings : output[s] = None \/ IsReply(output[s])
        /\ \A call \in Signings \cup Exchanges : replies[call] = None \/ IsReply(replies[call])
    BY <2>1, <2>2 DEF TypesOK
  <2> QED
    BY <2>1, <2>3, <2>4, <2>5 DEF TypesOK, TypeOK
<1> QED
  BY <1>1, LedgerInvariant, PTL

\* A signing has one packet or one answer outstanding while it streams, and
\* none before and after, whatever the device answered.
THEOREM OnePacketAtATime == Spec => []StopAndWait
<1>1. ASSUME LedgerInv PROVE StopAndWait
  <2>1. PacketsOK
    BY <1>1 DEF LedgerInv
  <2>2. ASSUME NEW s \in Signings
        PROVE  Outstanding(s) = IF signing[s] = "streaming" THEN 1 ELSE 0
    <3> DEFINE mine == {i \in DOMAIN wire : wire[i].from = s}
    <3>1. CASE OnWire(s)
      <4>1. PICK i \in DOMAIN wire : wire[i].from = s
        BY <3>1 DEF OnWire
      <4>2. mine = {i}
        BY <4>1, <2>1 DEF PacketsOK
      <4>3. Cardinality(mine) = 1
        BY <4>2, FS_Singleton
      <4>4. signing[s] = "streaming" /\ replies[s] = None
        BY <3>1, <2>1 DEF PacketsOK
      <4> QED
        BY <4>3, <4>4 DEF Outstanding
    <3>2. CASE ~OnWire(s)
      <4>1. mine = {}
        BY <3>2 DEF OnWire
      <4>2. Cardinality(mine) = 0
        BY <4>1, FS_EmptySet
      <4>3. signing[s] = "streaming" <=> replies[s] # None
        BY <3>2, <2>1 DEF PacketsOK
      <4> QED
        BY <4>2, <4>3 DEF Outstanding
    <3> QED
      BY <3>1, <3>2
  <2> QED
    BY <2>2 DEF StopAndWait
<1> QED
  BY <1>1, LedgerInvariant, PTL

\* Among callers who sign one at a time, a signature given to a caller covers
\* that caller's transaction, although abandoned signings still stream.
THEOREM SignaturesCover == Spec => []SignatureCoversTransaction
<1>1. LedgerInv => SignatureCoversTransaction
  BY DEF LedgerInv, CoversOK, SignedOK, SignatureCoversTransaction
<1> QED
  BY <1>1, LedgerInvariant, PTL
=============================================================================
