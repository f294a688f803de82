--------------------------- MODULE TxParserProofs ---------------------------
(***************************************************************************)
(* Theorems about TxParser, for every width of its fields, every curve and *)
(* every transaction of the grammar that a node may write.                 *)
(***************************************************************************)
EXTENDS TxParser, SequenceTheorems, WellFoundedInduction, TLAPS

Kinds == DOMAIN Width

\* A field whose width is the one of its kind, if it has one.
WellFormed == {field \in Field : field.kind # "data" => field.width = Width[field.kind]}

LEMMA Constants ==
  /\ HashBytes \in Nat /\ IndexBytes \in Nat /\ KeyBytes \in Nat
  /\ NonceBytes \in Nat /\ AmountBytes \in Nat
  /\ Garbage \subseteq Byte
  /\ Transactions \subseteq Seq(Seq(Seq(Byte)))
<1>1. /\ HashBytes \in Nat \ {0} /\ IndexBytes \in Nat \ {0} /\ KeyBytes \in Nat \ {0}
      /\ NonceBytes \in Nat \ {0} /\ AmountBytes \in Nat \ {0}
  BY ParserAssumption
<1>. QED
  BY <1>1, ParserAssumption

LEMMA KindsOfFields ==
  Kinds = {"instruction", "substate", "address", "length", "byte", "bool",
           "short", "hash", "index", "key", "nonce", "amount"}
  BY DEF Kinds, Width

LEMMA Widths ==
  ASSUME NEW kind \in Kinds
  PROVE  Width[kind] \in Nat
  BY Constants, KindsOfFields DEF Width

LEMMA ExpectIsWellFormed ==
  ASSUME NEW kinds \in Seq(Kinds)
  PROVE  Expect(kinds) \in Seq(WellFormed)
<1>1. Len(kinds) \in Nat
  BY LenProperties
<1>2. ASSUME NEW i \in 1..Len(kinds)
      PROVE  [kind |-> kinds[i], width |-> Width[kinds[i]]] \in WellFormed
  <2>1. kinds[i] \in Kinds
    BY ElementOfSeq
  <2>2. Width[kinds[i]] \in Nat
    BY <2>1, Widths
  <2>. QED
    BY <2>1, <2>2 DEF WellFormed, Field, Kinds
<1>3. [i \in 1..Len(kinds) |-> [kind |-> kinds[i], width |-> Width[kinds[i]]]]
        \in [1..Len(kinds) -> WellFormed]
  BY <1>2
<1>. QED
  BY <1>1, <1>3 DEF Expect

\* Whatever its type byte, what an instruction starts with is fields with a
\* width; so is what a substate and an address start with.
LEMMA FieldsHaveKinds ==
  ASSUME NEW type
  PROVE  /\ InstructionFields(type) \in Seq(Kinds)
         /\ SubstateFields(type) \in Seq(Kinds)
         /\ REAddressFields(type) \in Seq(Kinds)
<1>1. /\ <<>> \in Seq(Kinds) /\ <<"substate">> \in Seq(Kinds) /\ <<"hash", "index">> \in Seq(Kinds)
      /\ <<"short">> \in Seq(Kinds) /\ <<"length">> \in Seq(Kinds)
      /\ <<"byte", "amount", "amount">> \in Seq(Kinds) /\ <<"byte", "byte">> \in Seq(Kinds)
  BY KindsOfFields
<1>2. /\ <<"byte", "address", "address", "amount">> \in Seq(Kinds)
      /\ <<"byte", "key", "address", "amount">> \in Seq(Kinds)
      /\ <<"byte", "key", "bool">> \in Seq(Kinds) /\ <<"byte", "key", "address">> \in Seq(Kinds)
      /\ <<"nonce">> \in Seq(Kinds) /\ <<"key">> \in Seq(Kinds)
  BY KindsOfFields
<1>3. InstructionFields(type) \in Seq(Kinds)
  BY <1>1 DEF InstructionFields
<1>4. SubstateFields(type) \in Seq(Kinds)
  BY <1>1, <1>2 DEF SubstateFields
<1>5. REAddressFields(type) \in Seq(Kinds)
  BY <1>1, <1>2 DEF REAddressFields
<1>. QED
  BY <1>3, <1>4, <1>5

LEMMA ReverseTwice ==
  ASSUME NEW S, NEW s \in Seq(S)
  PROVE  Reverse(Reverse(s)) = s
<1>1. Len(s) \in Nat /\ s \in [1..Len(s) -> S]
  BY LenProperties
<1>2. \A i \in 1..Len(s) : (Len(s) - i) + 1 \in 1..Len(s) /\ (Len(s) - ((Len(s) - i) + 1)) + 1 = i
  BY <1>1
<1>3. Reverse(s) \in [1..Len(s) -> S]
  BY <1>1, <1>2 DEF Reverse
<1>4. Reverse(s) \in Seq(S) /\ Len(Reverse(s)) = Len(s)
  BY <1>1, <1>3
<1>5. \A i \in 1..Len(s) : Reverse(s)[i] = s[(Len(s) - i) + 1]
  BY DEF Reverse
<1>6. Reverse(Reverse(s)) = [i \in 1..Len(s) |-> Reverse(s)[(Len(s) - i) + 1]]
  BY <1>4 DEF Reverse
<1>7. \A i \in 1..Len(s) : Reverse(s)[(Len(s) - i) + 1] = s[i]
  BY <1>2, <1>5
<1>. QED
  BY <1>1, <1>6, <1>7

LEMMA UInt16 ==
  ASSUME NEW high \in Byte, NEW low \in Byte
  PROVE  /\ high * 256 + low \in Nat
         /\ (high * 256 + low) \div 256 = high
         /\ (high * 256 + low) % 256 = low
  BY DEF Byte

\* What a field writes is the bytes it was read from: a number is turned round
\* twice, a length is put together again, anything else is kept. An unreduced
\* key is written as another one.
LEMMA WrittenAsRead ==
  ASSUME NEW field \in WellFormed, NEW bytes \in Seq(Byte), Len(bytes) = field.width,
         ~Refused(field, bytes)
  PROVE  \/ ToBuffer(field, bytes) = bytes
         \/ /\ field.kind = "key" /\ bytes \in Unreduced
            /\ ToBuffer(field, bytes) \in Seq(Byte)
            /\ Len(bytes) = KeyBytes /\ Len(ToBuffer(field, bytes)) = KeyBytes
<1>1. CASE field.kind = "amount"
  <2>1. AmountToBuffer(Uint256FromReadBuffer(bytes)) = bytes
    BY ReverseTwice DEF AmountToBuffer, Uint256FromReadBuffer
  <2>2. ToBuffer(field, bytes) = AmountToBuffer(Uint256FromReadBuffer(bytes))
    BY <1>1 DEF ToBuffer
  <2>. QED
    BY <2>1, <2>2
<1>2. CASE field.kind = "length"
  <2>1. Len(bytes) = 2
    BY <1>2 DEF WellFormed, Width
  <2>2. bytes[1] \in Byte /\ bytes[2] \in Byte
    BY <2>1
  <2>3. bytes = <<bytes[1], bytes[2]>>
    <3>1. <<bytes[1], bytes[2]>> \in Seq(Byte) /\ Len(<<bytes[1], bytes[2]>>) = 2
      BY <2>2
    <3>2. \A i \in 1..2 : <<bytes[1], bytes[2]>>[i] = bytes[i]
      OBVIOUS
    <3>. QED
      BY <2>1, <3>1, <3>2, SeqEqual
  <2>4. WriteUInt16BE(ReadUInt16BE(bytes)) = bytes
    BY <2>2, <2>3, UInt16 DEF WriteUInt16BE, ReadUInt16BE
  <2>. QED
    BY <1>2, <2>4 DEF ToBuffer
<1>3. CASE field.kind = "key"
  <2>1. bytes \in DOMAIN Compressed /\ ToBuffer(field, bytes) = Compressed[bytes]
    BY <1>3 DEF Refused, ToBuffer
  <2>2. Compressed[bytes] \in DOMAIN Compressed
    BY <2>1, ParserAssumption
  <2>3. /\ Compressed[bytes] \in Seq(Byte) /\ Len(Compressed[bytes]) = KeyBytes
        /\ Len(bytes) = KeyBytes
    BY <2>1, <2>2, ParserAssumption
  <2>. QED
    BY <1>3, <2>1, <2>3 DEF Unreduced
<1>4. CASE field.kind \notin {"amount", "length", "key"}
  BY <1>4 DEF ToBuffer
<1>. QED
  BY <1>1, <1>2, <1>3, <1>4

\* The fields that a field announces have a width.
LEMMA AnnouncedIsWellFormed ==
  ASSUME NEW field \in WellFormed, NEW bytes \in Seq(Byte), Len(bytes) = field.width
  PROVE  Announces(field, bytes) \in Seq(WellFormed)
<1>1. /\ Expect(InstructionFields(bytes[1])) \in Seq(WellFormed)
      /\ Expect(SubstateFields(bytes[3])) \in Seq(WellFormed)
      /\ Expect(REAddressFields(bytes[1])) \in Seq(WellFormed)
  BY FieldsHaveKinds, ExpectIsWellFormed
<1>2. CASE field.kind = "length"
  <2>1. Len(bytes) = 2
    BY <1>2 DEF WellFormed, Width
  <2>2. bytes[1] \in Byte /\ bytes[2] \in Byte
    BY <2>1
  <2>3. ReadUInt16BE(bytes) \in Nat
    BY <2>2, UInt16 DEF ReadUInt16BE
  <2>4. [kind |-> "data", width |-> ReadUInt16BE(bytes)] \in WellFormed
    BY <2>3 DEF WellFormed, Field
  <2>5. <<[kind |-> "data", width |-> ReadUInt16BE(bytes)]>> \in Seq(WellFormed)
    BY <2>4
  <2>. QED
    BY <1>2, <2>5 DEF Announces
<1>3. CASE field.kind # "length"
  <2>1. <<>> \in Seq(WellFormed)
    OBVIOUS
  <2>. QED
    BY <1>1, <1>3, <2>1 DEF Announces
<1>. QED
  BY <1>2, <1>3

-----------------------------------------------------------------------------
(* What FlattenSeq puts together.                                          *)

\* A set of numbers has a least one.
LEMMA LeastNumber ==
  ASSUME NEW numbers, numbers \subseteq Nat, numbers # {}
  PROVE  \E n \in numbers : \A m \in numbers : n <= m
<1>. DEFINE less == OpToRel(<, Nat)
<1>1. IsWellFoundedOn(less, Nat)
  BY NatLessThanWellFounded, Zenon
<1>2. \A m, n \in Nat : <<m, n>> \in less <=> m < n
  BY DEF OpToRel
<1>. HIDE DEF less
<1>3. PICK n \in numbers : \A m \in numbers : ~(<<m, n>> \in less)
  BY <1>1, WFMin
<1>4. \A m \in numbers : ~(m < n)
  BY <1>2, <1>3
<1>. QED
  BY <1>3, <1>4

\* What a concatenation is, position by position.
LEMMA Continued ==
  ASSUME NEW S, NEW front \in Seq(S), NEW rest \in Seq(S), NEW whole, whole = front \o rest
  PROVE  /\ whole \in Seq(S) /\ Len(front) \in Nat /\ Len(rest) \in Nat
         /\ Len(whole) = Len(front) + Len(rest) /\ Len(front) <= Len(whole)
         /\ \A x \in 1..Len(front) : whole[x] = front[x]
         /\ \A x \in 1..Len(rest) : whole[Len(front) + x] = rest[x]
<1>1. Len(front) \in Nat /\ Len(rest) \in Nat
  BY LenProperties
<1>2. /\ front \o rest \in Seq(S) /\ Len(front \o rest) = Len(front) + Len(rest)
      /\ \A x \in 1..(Len(front) + Len(rest)) :
           (front \o rest)[x] = IF x <= Len(front) THEN front[x] ELSE rest[x - Len(front)]
  BY ConcatProperties, Zenon
<1>3. \A x \in 1..Len(front) : x \in 1..(Len(front) + Len(rest)) /\ x <= Len(front)
  BY <1>1
<1>4. \A x \in 1..Len(rest) : /\ Len(front) + x \in 1..(Len(front) + Len(rest))
                              /\ ~(Len(front) + x <= Len(front)) /\ (Len(front) + x) - Len(front) = x
  BY <1>1
<1>5. \A x \in 1..Len(front) : whole[x] = front[x]
  BY <1>2, <1>3
<1>6. \A x \in 1..Len(rest) : whole[Len(front) + x] = rest[x]
  BY <1>2, <1>4
<1>7. Len(front) <= Len(front) + Len(rest)
  BY <1>1
<1>. QED
  BY <1>1, <1>2, <1>5, <1>6, <1>7

\* What FlattenSeq puts together, one sequence after the other.
PutTogether(s, h) ==
  h = [i \in 1..Len(s) |-> IF i = 1 THEN s[i] ELSE h[i-1] \o s[i]]

LEMMA CanPutTogether ==
  ASSUME NEW S, NEW s \in Seq(Seq(S))
  PROVE  \E h \in [1..Len(s) -> Seq(S)] : PutTogether(s, h)
<1>. DEFINE Upto(m, h) ==
              /\ h \in [1..m -> Seq(S)]
              /\ \A i \in 1..m : h[i] = IF i = 1 THEN s[i] ELSE h[i-1] \o s[i]
            Missing == {m \in 0..Len(s) : ~\E h : Upto(m, h)}
<1>0. Len(s) \in Nat /\ \A i \in 1..Len(s) : s[i] \in Seq(S)
  BY LenProperties, ElementOfSeq
<1>1. Missing = {}
  <2>. SUFFICES ASSUME Missing # {} PROVE FALSE
    OBVIOUS
  <2>1. PICK m \in Missing : \A k \in Missing : m <= k
    <3>1. Missing \subseteq Nat
      BY <1>0
    <3>. HIDE DEF Missing
    <3>. QED
      BY <3>1, LeastNumber
  <2>2. m \in 0..Len(s) /\ ~\E h : Upto(m, h)
    OBVIOUS
  <2>3. CASE m = 0
    <3>1. [i \in 1..0 |-> <<>>] \in [1..m -> Seq(S)] /\ 1..m = {}
      BY <2>3
    <3>2. Upto(m, [i \in 1..0 |-> <<>>])
      BY <3>1
    <3>. QED
      BY <2>2, <3>2
  <2>4. CASE m # 0
    <3>1. m - 1 \in 0..Len(s) /\ m \in 1..Len(s)
      BY <1>0, <2>2, <2>4
    <3>2. ~(m <= m - 1)
      BY <3>1
    <3>3. m - 1 \notin Missing
      <4>. HIDE DEF Missing
      <4>. QED
        BY <2>1, <3>2
    <3>4. PICK h : Upto(m - 1, h)
      BY <3>1, <3>3
    <3>. DEFINE longer == [i \in 1..m |-> IF i = m
                                          THEN IF m = 1 THEN s[m] ELSE h[m-1] \o s[m]
                                          ELSE h[i]]
    <3>5. ASSUME NEW i \in 1..m, i # m
          PROVE  i \in 1..(m - 1)
      BY <3>1, <3>5
    <3>6. s[m] \in Seq(S) /\ (m # 1 => h[m-1] \o s[m] \in Seq(S))
      <4>1. m # 1 => h[m-1] \in Seq(S)
        BY <3>1, <3>4
      <4>. QED
        BY <1>0, <3>1, <4>1, ConcatProperties
    <3>7. longer \in [1..m -> Seq(S)]
      BY <3>4, <3>5, <3>6
    <3>8. ASSUME NEW i \in 1..m
          PROVE  longer[i] = IF i = 1 THEN s[i] ELSE longer[i-1] \o s[i]
      <4>1. CASE i = m
        <5>1. i # 1 => longer[i-1] = h[m-1]
          BY <3>1, <4>1
        <5>. QED
          BY <4>1, <5>1
      <4>2. CASE i # m
        <5>1. i \in 1..(m - 1) /\ longer[i] = h[i]
          BY <3>5, <4>2
        <5>2. i # 1 => i - 1 \in 1..m /\ i - 1 # m
          BY <3>1, <5>1
        <5>3. i # 1 => longer[i-1] = h[i-1]
          BY <5>2
        <5>4. h[i] = IF i = 1 THEN s[i] ELSE h[i-1] \o s[i]
          BY <3>4, <5>1
        <5>. HIDE DEF longer
        <5>. QED
          BY <5>1, <5>3, <5>4
      <4>. QED
        BY <4>1, <4>2
    <3>9. Upto(m, longer)
      BY <3>7, <3>8
    <3>. QED
      BY <2>2, <3>9
  <2>. QED
    BY <2>3, <2>4
<1>2. PICK h : Upto(Len(s), h)
  <2>1. Len(s) \in 0..Len(s)
    BY <1>0
  <2>. QED
    BY <1>1, <2>1
<1>3. PutTogether(s, h)
  BY <1>2 DEF PutTogether
<1>. QED
  BY <1>2, <1>3

LEMMA FlattenIs ==
  ASSUME NEW S, NEW s \in Seq(Seq(S)), Len(s) # 0
  PROVE  \E h : PutTogether(s, h) /\ FlattenSeq(s) = h[Len(s)]
<1>1. \E h : PutTogether(s, h)
  BY CanPutTogether
<1>2. PutTogether(s, CHOOSE h : PutTogether(s, h))
  BY <1>1
<1>3. FlattenSeq(s) = (CHOOSE h : PutTogether(s, h))[Len(s)]
  BY DEF FlattenSeq, PutTogether
<1>. QED
  BY <1>2, <1>3

\* What is put together is sequences, each the beginning of the later ones.
LEMMA PutTogetherGrows ==
  ASSUME NEW S, NEW s \in Seq(Seq(S)), NEW h, PutTogether(s, h)
  PROVE  \A j \in 1..Len(s) :
           /\ h[j] \in Seq(S)
           /\ \A i \in 1..j : /\ Len(h[i]) <= Len(h[j])
                              /\ \A x \in 1..Len(h[i]) : h[j][x] = h[i][x]
<1>. DEFINE Grown(j) == /\ h[j] \in Seq(S)
                        /\ \A i \in 1..j : /\ Len(h[i]) <= Len(h[j])
                                           /\ \A x \in 1..Len(h[i]) : h[j][x] = h[i][x]
            Others == {j \in 1..Len(s) : ~Grown(j)}
<1>0. Len(s) \in Nat /\ \A i \in 1..Len(s) : s[i] \in Seq(S)
  BY LenProperties, ElementOfSeq
<1>1. \A i \in 1..Len(s) : h[i] = IF i = 1 THEN s[i] ELSE h[i-1] \o s[i]
  BY DEF PutTogether
<1>2. ASSUME Others # {}
      PROVE  FALSE
  <2>1. PICK j \in Others : \A k \in Others : j <= k
    <3>1. Others \subseteq Nat
      BY <1>0
    <3>. HIDE DEF Others
    <3>. QED
      BY <3>1, <1>2, LeastNumber
  <2>2. j \in 1..Len(s) /\ ~Grown(j)
    OBVIOUS
  <2>3. CASE j = 1
    <3>1. h[1] = s[1] /\ s[1] \in Seq(S)
      BY <1>0, <1>1, <2>2, <2>3
    <3>2. Len(h[1]) \in Nat
      BY <3>1, LenProperties
    <3>3. \A i \in 1..1 : i = 1
      OBVIOUS
    <3>4. Grown(1)
      BY <3>1, <3>2, <3>3
    <3>. QED
      BY <2>2, <2>3, <3>4
  <2>4. CASE j # 1
    <3>1. j - 1 \in 1..Len(s) /\ ~(j <= j - 1)
      BY <1>0, <2>2, <2>4
    <3>2. j - 1 \notin Others
      <4>. HIDE DEF Others
      <4>. QED
        BY <2>1, <3>1
    <3>3. Grown(j - 1)
      BY <3>1, <3>2
    <3>. DEFINE front == h[j-1]
                whole == h[j]
    <3>4. whole = front \o s[j] /\ s[j] \in Seq(S) /\ front \in Seq(S)
      BY <1>0, <1>1, <2>2, <2>4, <3>3
    <3>5. \A i \in 1..(j - 1) : /\ Len(h[i]) <= Len(front)
                                /\ \A x \in 1..Len(h[i]) : front[x] = h[i][x]
      BY <3>3
    <3>. HIDE DEF front, whole
    <3>6. /\ whole \in Seq(S) /\ Len(whole) \in Nat /\ Len(front) \in Nat /\ Len(front) <= Len(whole)
          /\ \A x \in 1..Len(front) : whole[x] = front[x]
      BY <3>4, Continued, LenProperties
    <3>7. ASSUME NEW i \in 1..j
          PROVE  Len(h[i]) <= Len(whole) /\ \A x \in 1..Len(h[i]) : whole[x] = h[i][x]
      <4>1. CASE i = j
        BY <3>6, <4>1 DEF whole
      <4>2. CASE i # j
        <5>. DEFINE earlier == h[i]
        <5>1. i \in 1..(j - 1)
          BY <2>2, <4>2
        <5>2. Len(earlier) <= Len(front) /\ \A x \in 1..Len(earlier) : front[x] = earlier[x]
          BY <3>5, <5>1
        <5>3. Len(earlier) \in Nat
          <6>1. i \in 1..Len(s) /\ ~(j <= i)
            BY <1>0, <2>2, <5>1
          <6>2. i \notin Others
            <7>. HIDE DEF Others
            <7>. QED
              BY <2>1, <6>1
          <6>3. h[i] \in Seq(S)
            BY <6>1, <6>2
          <6>. QED
            BY <6>3, LenProperties
        <5>. HIDE DEF earlier
        <5>4. Len(earlier) <= Len(whole)
          BY <3>6, <5>2, <5>3
        <5>5. \A x \in 1..Len(earlier) : x \in 1..Len(front)
          BY <3>6, <5>2, <5>3
        <5>6. \A x \in 1..Len(earlier) : whole[x] = earlier[x]
          BY <3>6, <5>2, <5>5
        <5>. QED
          BY <5>4, <5>6 DEF earlier
      <4>. QED
        BY <4>1, <4>2
    <3>8. Grown(j)
      BY <3>6, <3>7 DEF whole
    <3>. QED
      BY <2>2, <3>8
  <2>. QED
    BY <2>3, <2>4
<1>. QED
  BY <1>2

\* Where each sequence starts in what FlattenSeq makes of them: behind the ones
\* before it, and it is there element by element.
Slices(s, start) ==
  /\ start \in [0..Len(s) -> 0..Len(FlattenSeq(s))]
  /\ start[0] = 0 /\ start[Len(s)] = Len(FlattenSeq(s))
  /\ \A i \in 1..Len(s) :
       /\ start[i] = start[i-1] + Len(s[i])
       /\ \A x \in 1..Len(s[i]) : FlattenSeq(s)[start[i-1] + x] = s[i][x]

LEMMA FlattenSlices ==
  ASSUME NEW S, NEW s \in Seq(Seq(S))
  PROVE  FlattenSeq(s) \in Seq(S) /\ \E start : Slices(s, start)
<1>0. Len(s) \in Nat /\ \A i \in 1..Len(s) : s[i] \in Seq(S)
  BY LenProperties, ElementOfSeq
<1>1. CASE Len(s) = 0
  <2>1. s = <<>> /\ FlattenSeq(s) = <<>>
    BY <1>1, EmptySeq DEF FlattenSeq
  <2>2. Slices(s, [i \in 0..0 |-> 0])
    BY <1>1, <2>1 DEF Slices
  <2>. QED
    BY <2>1, <2>2
<1>2. CASE Len(s) # 0
  <2>1. PICK h : PutTogether(s, h) /\ FlattenSeq(s) = h[Len(s)]
    BY <1>2, FlattenIs
  <2>2. \A j \in 1..Len(s) :
           /\ h[j] \in Seq(S)
           /\ \A i \in 1..j : /\ Len(h[i]) <= Len(h[j])
                              /\ \A x \in 1..Len(h[i]) : h[j][x] = h[i][x]
    BY <2>1, PutTogetherGrows
  <2>. DEFINE all == FlattenSeq(s)
              start == [i \in 0..Len(s) |-> IF i = 0 THEN 0 ELSE Len(h[i])]
  <2>3. Len(s) \in 1..Len(s)
    BY <1>0, <1>2
  <2>4. /\ all \in Seq(S) /\ all = h[Len(s)]
        /\ \A i \in 1..Len(s) : /\ Len(h[i]) <= Len(all)
                                /\ \A x \in 1..Len(h[i]) : all[x] = h[i][x]
    BY <2>1, <2>2, <2>3
  <2>. HIDE DEF all
  <2>5. Len(all) \in Nat /\ \A i \in 1..Len(s) : Len(h[i]) \in Nat /\ Len(s[i]) \in Nat
    BY <1>0, <2>2, <2>4, LenProperties
  <2>6. start \in [0..Len(s) -> 0..Len(all)]
    BY <1>0, <2>4, <2>5
  <2>7. start[0] = 0 /\ start[Len(s)] = Len(all)
    BY <1>0, <1>2, <2>4
  <2>8. ASSUME NEW i \in 1..Len(s)
        PROVE  /\ start[i] = start[i-1] + Len(s[i])
               /\ \A x \in 1..Len(s[i]) : all[start[i-1] + x] = s[i][x]
    <3>1. i - 1 \in 0..Len(s) /\ i \in 0..Len(s) /\ i # 0
      BY <1>0
    <3>2. h[i] = IF i = 1 THEN s[i] ELSE h[i-1] \o s[i]
      BY <2>1 DEF PutTogether
    <3>3. start[i] = Len(h[i])
      BY <3>1
    <3>4. CASE i = 1
      <4>1. start[i-1] = 0 /\ h[i] = s[i]
        BY <3>1, <3>2, <3>4
      <4>2. \A x \in 1..Len(s[i]) : 0 + x = x
        BY <2>5
      <4>. HIDE DEF start
      <4>. QED
        BY <2>4, <2>5, <3>3, <4>1, <4>2
    <3>5. CASE i # 1
      <4>. DEFINE front == h[i-1]
                  whole == h[i]
      <4>1. i - 1 \in 1..Len(s) /\ i - 1 # 0
        BY <1>0, <3>1, <3>5
      <4>2. start[i-1] = Len(front)
        BY <3>1, <4>1
      <4>3. whole = front \o s[i] /\ front \in Seq(S) /\ s[i] \in Seq(S)
        BY <1>0, <2>2, <3>2, <3>5, <4>1
      <4>4. start[i] = Len(whole) /\ Len(whole) <= Len(all) /\ \A x \in 1..Len(whole) : all[x] = whole[x]
        BY <2>4, <3>3
      <4>. HIDE DEF front, whole, start
      <4>5. /\ Len(front) \in Nat /\ Len(s[i]) \in Nat
            /\ Len(whole) = Len(front) + Len(s[i])
            /\ \A x \in 1..Len(s[i]) : whole[Len(front) + x] = s[i][x]
        BY <4>3, Continued
      <4>6. \A x \in 1..Len(s[i]) : Len(front) + x \in 1..Len(whole)
        BY <4>5
      <4>. QED
        BY <4>2, <4>4, <4>5, <4>6
    <3>. QED
      BY <3>4, <3>5
  <2>9. Slices(s, start)
    BY <2>6, <2>7, <2>8 DEF Slices, all
  <2>. QED
    BY <2>4, <2>9 DEF all
<1>. QED
  BY <1>1, <1>2

-----------------------------------------------------------------------------
(* The layout of a blob.                                                   *)

Starts(s) == CHOOSE start : Slices(s, start)

\* The bytes in front of field f + 1 of instruction i + 1.
Position(transaction, i, f) == Starts(FlattenSeq(transaction))[Starts(transaction)[i] + f]

LEMMA StartsAre ==
  ASSUME NEW S, NEW s \in Seq(Seq(S))
  PROVE  FlattenSeq(s) \in Seq(S) /\ Slices(s, Starts(s))
<1>1. \E start : Slices(s, start)
  BY FlattenSlices
<1>2. Slices(s, CHOOSE start : Slices(s, start))
  BY <1>1
<1>. QED
  BY <1>2, FlattenSlices DEF Starts

\* The fields are in the blob one behind the other, from its first byte to its
\* last, and so are the instructions.
LEMMA Layout ==
  ASSUME NEW t \in Seq(Seq(Seq(Byte)))
  PROVE  /\ Encoded(t) \in Seq(Byte)
         /\ Position(t, 0, 0) = 0 /\ Position(t, Len(t), 0) = Len(Encoded(t))
         /\ \A i \in 1..Len(t) :
              /\ Position(t, i - 1, Len(t[i])) = Position(t, i, 0)
              /\ \A f \in 1..Len(t[i]) :
                   /\ Position(t, i - 1, f - 1) \in Nat
                   /\ Position(t, i - 1, f) = Position(t, i - 1, f - 1) + Len(t[i][f])
                   /\ Position(t, i - 1, f) <= Len(Encoded(t))
                   /\ \A x \in 1..Len(t[i][f]) :
                        Encoded(t)[Position(t, i - 1, f - 1) + x] = t[i][f][x]
<1>. DEFINE fields == FlattenSeq(t)
            first  == Starts(t)
            before == Starts(fields)
<1>1. fields \in Seq(Seq(Byte)) /\ Slices(t, first)
  BY StartsAre
<1>2. /\ Len(t) \in Nat /\ Len(fields) \in Nat
      /\ \A i \in 1..Len(t) : t[i] \in Seq(Seq(Byte)) /\ Len(t[i]) \in Nat
  BY <1>1, LenProperties, ElementOfSeq
<1>3. Encoded(t) = FlattenSeq(fields)
  BY DEF Encoded
<1>4. \A i, f : Position(t, i, f) = before[first[i] + f]
  BY DEF Position
<1>. HIDE DEF fields
<1>5. Encoded(t) \in Seq(Byte) /\ Slices(fields, before)
  BY <1>1, <1>3, StartsAre
<1>. HIDE DEF first, before
<1>6. Len(Encoded(t)) \in Nat
  BY <1>5, LenProperties
<1>7. /\ first \in [0..Len(t) -> 0..Len(fields)]
      /\ first[0] = 0 /\ first[Len(t)] = Len(fields)
      /\ \A i \in 1..Len(t) :
           /\ first[i] = first[i-1] + Len(t[i])
           /\ \A f \in 1..Len(t[i]) : fields[first[i-1] + f] = t[i][f]
  BY <1>1 DEF Slices, fields
<1>8. /\ before \in [0..Len(fields) -> 0..Len(Encoded(t))]
      /\ before[0] = 0 /\ before[Len(fields)] = Len(Encoded(t))
      /\ \A j \in 1..Len(fields) :
           /\ before[j] = before[j-1] + Len(fields[j])
           /\ \A x \in 1..Len(fields[j]) : Encoded(t)[before[j-1] + x] = fields[j][x]
  BY <1>3, <1>5 DEF Slices
<1>9. Position(t, 0, 0) = 0 /\ Position(t, Len(t), 0) = Len(Encoded(t))
  <2>1. first[0] + 0 = 0 /\ first[Len(t)] + 0 = Len(fields)
    BY <1>2, <1>7
  <2>. QED
    BY <1>4, <1>8, <2>1
<1>10. ASSUME NEW i \in 1..Len(t)
       PROVE  /\ i - 1 \in 0..Len(t) /\ i \in 0..Len(t)
              /\ first[i-1] \in Nat /\ first[i] = first[i-1] + Len(t[i]) /\ first[i] <= Len(fields)
              /\ Position(t, i - 1, Len(t[i])) = Position(t, i, 0)
  <2>1. i - 1 \in 0..Len(t) /\ i \in 0..Len(t)
    BY <1>2
  <2>2. first[i-1] \in Nat /\ first[i] \in 0..Len(fields) /\ first[i] = first[i-1] + Len(t[i])
    BY <1>2, <1>7, <2>1
  <2>3. first[i] + 0 = first[i-1] + Len(t[i])
    BY <1>2, <2>2
  <2>4. Position(t, i - 1, Len(t[i])) = Position(t, i, 0)
    BY <1>4, <2>3
  <2>. QED
    BY <2>1, <2>2, <2>4
<1>11. ASSUME NEW i \in 1..Len(t), NEW f \in 1..Len(t[i])
       PROVE  /\ Position(t, i - 1, f - 1) \in Nat
              /\ Position(t, i - 1, f) = Position(t, i - 1, f - 1) + Len(t[i][f])
              /\ Position(t, i - 1, f) <= Len(Encoded(t))
              /\ \A x \in 1..Len(t[i][f]) :
                   Encoded(t)[Position(t, i - 1, f - 1) + x] = t[i][f][x]
  <2>. DEFINE j == first[i-1] + f
  <2>1. j \in 1..Len(fields) /\ j - 1 = first[i-1] + (f - 1) /\ j - 1 \in 0..Len(fields)
    <3>. DEFINE start == first[i-1]
                size  == Len(t[i])
    <3>1. start \in Nat /\ size \in Nat /\ f \in 1..size /\ start + size <= Len(fields)
      BY <1>2, <1>10
    <3>. HIDE DEF start, size
    <3>2. /\ start + f \in 1..Len(fields) /\ (start + f) - 1 = start + (f - 1)
          /\ (start + f) - 1 \in 0..Len(fields)
      BY <1>2, <3>1
    <3>. QED
      BY <3>2 DEF start
  <2>2. fields[j] = t[i][f]
    BY <1>7
  <2>3. Position(t, i - 1, f) = before[j] /\ Position(t, i - 1, f - 1) = before[j-1]
    BY <1>4, <2>1
  <2>. HIDE DEF j
  <2>4. before[j] \in 0..Len(Encoded(t)) /\ before[j-1] \in Nat
    <3>1. j \in 0..Len(fields)
      BY <1>2, <2>1
    <3>2. before[j] \in 0..Len(Encoded(t)) /\ before[j-1] \in 0..Len(Encoded(t))
      BY <1>8, <2>1, <3>1
    <3>. QED
      BY <1>6, <3>2
  <2>5. before[j] <= Len(Encoded(t))
    BY <1>6, <2>4
  <2>6. /\ before[j] = before[j-1] + Len(t[i][f])
        /\ \A x \in 1..Len(t[i][f]) : Encoded(t)[before[j-1] + x] = t[i][f][x]
    BY <1>8, <2>1, <2>2
  <2>. QED
    BY <2>3, <2>4, <2>5, <2>6
<1>. QED
  BY <1>5, <1>9, <1>10, <1>11

-----------------------------------------------------------------------------
(* The invariant.                                                          *)

Outcomes == {"idle", "parsing", "ok", "err", "unsupported", "incorrect"}

BytesOK    == blob \in Seq(Byte) /\ offset \in 0..Len(blob)
ExpectsOK  == expects \in Seq(WellFormed)
ReadOK     == /\ partial \in Seq(Seq(Byte)) /\ instructions \in Seq(Seq(Seq(Byte)))
              /\ reassembled \in Seq(Byte)
WrittenOK  == written \in {<<>>} \cup Transactions
OutcomeOK  == outcome \in Outcomes

\* Byte i was put together as it arrived, or is one of an unreduced key.
Kept(i) == reassembled[i] = blob[i] \/ InUnreducedKey(i)

\* Nothing was read before a blob is there, and until the parser stops what was
\* put together is what is behind the cursor, but for unreduced keys.
ReassembledSoFar ==
  /\ outcome = "idle" => offset = 0 /\ reassembled = <<>>
  /\ outcome = "parsing" => Len(reassembled) = offset /\ \A i \in 1..offset : Kept(i)

ParserInv ==
  /\ BytesOK /\ ExpectsOK /\ ReadOK /\ WrittenOK /\ OutcomeOK
  /\ ReassembledSoFar /\ OnlyUnreducedKeysAreRewritten

LEMMA InitEstablishes == ParserInit => ParserInv
<1>1. <<>> \in Seq(Byte) /\ Len(<<>>) = 0 /\ <<>> \in Seq(WellFormed)
      /\ <<>> \in Seq(Seq(Byte)) /\ <<>> \in Seq(Seq(Seq(Byte)))
  OBVIOUS
<1>. QED
  BY <1>1 DEF ParserInit, ParserInv, BytesOK, ExpectsOK, ReadOK, WrittenOK, OutcomeOK,
              Outcomes, ReassembledSoFar, OnlyUnreducedKeysAreRewritten

\* What arrives is bytes, whatever became of it on its way.
LEMMA ArrivesAsBytes ==
  ASSUME NEW transaction \in Transactions,
         NEW bytes \in {Encoded(transaction)} \cup Cut(Encoded(transaction))
                                              \cup Garbled(Encoded(transaction))
  PROVE  bytes \in Seq(Byte)
<1>. DEFINE sent == Encoded(transaction)
<1>1. sent \in Seq(Byte)
  BY Constants, Layout
<1>. HIDE DEF sent
<1>2. ASSUME bytes \in Cut(sent)
      PROVE  bytes \in Seq(Byte)
  <2>1. PICK n \in 0..(Len(sent) - 1) : bytes = SubSeq(sent, 1, n)
    BY <1>2 DEF Cut
  <2>2. Len(sent) \in Nat /\ \A i \in 1..n : sent[i] \in Byte
    BY <1>1, <2>1, ElementOfSeq
  <2>. QED
    BY <2>1, <2>2, SubSeqProperties
<1>3. ASSUME bytes \in Garbled(sent)
      PROVE  bytes \in Seq(Byte)
  <2>1. PICK i \in DOMAIN sent, b \in Garbage : bytes = [sent EXCEPT ![i] = b]
    BY <1>3 DEF Garbled
  <2>2. i \in 1..Len(sent) /\ b \in Byte
    BY <1>1, <2>1, LenProperties, Constants
  <2>. QED
    BY <1>1, <2>1, <2>2, ExceptSeq
<1>. QED
  BY <1>1, <1>2, <1>3 DEF sent

LEMMA ReceiveKeeps == ParserInv /\ Receive => ParserInv'
<1>. SUFFICES ASSUME ParserInv, NEW transaction \in Transactions,
                     NEW bytes \in {Encoded(transaction)} \cup Cut(Encoded(transaction))
                                                          \cup Garbled(Encoded(transaction)),
                     FromBuffer(transaction, bytes)
              PROVE  ParserInv'
  BY DEF Receive
<1>1. bytes \in Seq(Byte)
  BY ArrivesAsBytes
<1>2. /\ outcome = "idle" /\ outcome' = "parsing" /\ written' = transaction /\ blob' = bytes
      /\ UNCHANGED <<offset, expects, partial, instructions, reassembled>>
  BY DEF FromBuffer
<1>3. offset = 0 /\ reassembled = <<>>
  BY <1>2 DEF ParserInv, ReassembledSoFar
<1>4. Len(<<>>) = 0 /\ 1..0 = {}
  OBVIOUS
<1>5. BytesOK'
  BY <1>1, <1>2, <1>3, LenProperties DEF BytesOK
<1>6. ExpectsOK' /\ ReadOK' /\ WrittenOK' /\ OutcomeOK'
  BY <1>2 DEF ParserInv, ExpectsOK, ReadOK, WrittenOK, OutcomeOK, Outcomes
<1>7. ReassembledSoFar'
  BY <1>2, <1>3, <1>4 DEF ReassembledSoFar
<1>. QED
  BY <1>2, <1>5, <1>6, <1>7 DEF ParserInv, OnlyUnreducedKeysAreRewritten

\* The next field is well formed, and if it is in bounds it has as many bytes.
LEMMA NextField ==
  ASSUME ParserInv, expects # <<>>
  PROVE  /\ Head(expects) \in WellFormed /\ Tail(expects) \in Seq(WellFormed)
         /\ Head(expects).width \in Nat
         /\ InBounds => /\ NextBuffer \in Seq(Byte)
                        /\ Len(NextBuffer) = Head(expects).width
                        /\ offset + Head(expects).width \in offset..Len(blob)
<1>. DEFINE field == Head(expects)
<1>1. field \in WellFormed /\ Tail(expects) \in Seq(WellFormed)
  BY HeadTailProperties DEF ParserInv, ExpectsOK
<1>2. field.width \in Nat
  BY <1>1 DEF WellFormed, Field
<1>3. blob \in Seq(Byte) /\ Len(blob) \in Nat /\ offset \in 0..Len(blob)
  BY LenProperties DEF ParserInv, BytesOK
<1>. HIDE DEF field
<1>4. ASSUME InBounds
      PROVE  /\ NextBuffer \in Seq(Byte) /\ Len(NextBuffer) = field.width
             /\ offset + field.width \in offset..Len(blob)
  <2>1. offset + field.width <= Len(blob)
    BY <1>2, <1>3, <1>4 DEF InBounds, field
  <2>2. \A i \in (offset + 1)..(offset + field.width) : blob[i] \in Byte
    BY <1>2, <1>3, <2>1, ElementOfSeq
  <2>3. /\ SubSeq(blob, offset + 1, offset + field.width) \in Seq(Byte)
        /\ Len(SubSeq(blob, offset + 1, offset + field.width)) =
             IF offset + 1 <= offset + field.width
             THEN (offset + field.width) - (offset + 1) + 1 ELSE 0
    <3>1. offset + 1 \in Int /\ offset + field.width \in Int
      BY <1>2, <1>3
    <3>. QED
      BY <2>2, <3>1, SubSeqProperties
  <2>4. NextBuffer = SubSeq(blob, offset + 1, offset + field.width)
    BY DEF NextBuffer, field
  <2>5. (IF offset + 1 <= offset + field.width
         THEN (offset + field.width) - (offset + 1) + 1 ELSE 0) = field.width
    BY <1>2, <1>3
  <2>6. offset + field.width \in offset..Len(blob)
    BY <1>2, <1>3, <2>1
  <2>. QED
    BY <2>3, <2>4, <2>5, <2>6
<1>. QED
  BY <1>1, <1>2, <1>4 DEF field

\* The bytes of a field are those of the blob behind the cursor.
LEMMA FieldBytes ==
  ASSUME NEW bytes \in Seq(Byte), NEW start \in Nat, NEW width \in Nat,
         start + width <= Len(bytes)
  PROVE  \A x \in 1..width : SubSeq(bytes, start + 1, start + width)[x] = bytes[start + x]
<1>1. start + 1 \in Int /\ start + width \in Int /\ Len(bytes) \in Nat
  BY LenProperties
<1>2. \A x \in (start + 1)..(start + width) : bytes[x] \in Byte
  <2>1. \A x \in (start + 1)..(start + width) : x \in 1..Len(bytes)
    BY <1>1
  <2>. QED
    BY <2>1, ElementOfSeq
<1>3. \A x \in 1..((start + width) - (start + 1) + 1) :
        SubSeq(bytes, start + 1, start + width)[x] = bytes[start + 1 + x - 1]
  BY <1>1, <1>2, SubSeqProperties
<1>4. \A x \in 1..width : /\ x \in 1..((start + width) - (start + 1) + 1)
                          /\ start + 1 + x - 1 = start + x
  BY <1>1
<1>. QED
  BY <1>3, <1>4

LEMMA ReadFieldKeeps == ParserInv /\ ReadField => ParserInv'
<1>. SUFFICES ASSUME ParserInv, ReadField
              PROVE  ParserInv'
  OBVIOUS
<1>. DEFINE field == Head(expects)
            next  == NextBuffer
<1>1. /\ outcome = "parsing" /\ expects # <<>> /\ InBounds
      /\ offset' = offset + field.width
      /\ expects' = Announces(field, next) \o Tail(expects)
      /\ partial' = Append(partial, ToBuffer(field, next))
      /\ reassembled' = reassembled \o ToBuffer(field, next)
      /\ UNCHANGED <<written, blob, instructions, outcome>>
  BY DEF ReadField
<1>r. ~Refused(field, next)
  BY DEF ReadField
<1>2. /\ field \in WellFormed /\ Tail(expects) \in Seq(WellFormed) /\ field.width \in Nat
      /\ next \in Seq(Byte) /\ Len(next) = field.width
      /\ offset + field.width \in offset..Len(blob)
  BY <1>1, NextField
<1>3. next = SubSeq(blob, offset + 1, offset + field.width)
  BY DEF NextBuffer
<1>. DEFINE again == ToBuffer(field, next)
<1>a. partial' = Append(partial, again) /\ reassembled' = reassembled \o again
  BY <1>1
<1>. HIDE DEF field, next, again
<1>4. /\ again \in Seq(Byte) /\ Len(again) = field.width
      /\ again = next \/ (next \in Unreduced /\ field.width = KeyBytes)
  BY <1>2, <1>r, WrittenAsRead DEF again
<1>5. BytesOK'
  BY <1>1, <1>2, LenProperties DEF ParserInv, BytesOK
<1>6. ExpectsOK'
  <2>1. Announces(field, next) \in Seq(WellFormed)
    BY <1>2, AnnouncedIsWellFormed
  <2>. QED
    BY <1>1, <1>2, <2>1, ConcatProperties DEF ExpectsOK
<1>7. ReadOK'
  <2>1. partial' \in Seq(Seq(Byte))
    BY <1>a, <1>4 DEF ParserInv, ReadOK
  <2>2. reassembled' \in Seq(Byte)
    BY <1>a, <1>4, ConcatProperties DEF ParserInv, ReadOK
  <2>. QED
    BY <1>1, <2>1, <2>2 DEF ParserInv, ReadOK
<1>8. WrittenOK' /\ OutcomeOK'
  BY <1>1 DEF ParserInv, WrittenOK, OutcomeOK
<1>9. Len(reassembled') = offset + field.width /\ \A i \in 1..(offset + field.width) : Kept(i)'
  <2>1. /\ reassembled \in Seq(Byte) /\ Len(reassembled) = offset
        /\ \A i \in 1..offset : Kept(i)
    BY <1>1 DEF ParserInv, ReassembledSoFar, ReadOK
  <2>2. blob \in Seq(Byte) /\ Len(blob) \in Nat /\ offset \in 0..Len(blob)
    BY LenProperties DEF ParserInv, BytesOK
  <2>3. /\ Len(reassembled') = Len(reassembled) + Len(again)
        /\ \A i \in 1..Len(reassembled) : reassembled'[i] = reassembled[i]
        /\ \A i \in 1..Len(again) : reassembled'[Len(reassembled) + i] = again[i]
    <3>1. reassembled \in Seq(Byte) /\ again \in Seq(Byte) /\ reassembled' = reassembled \o again
      BY <1>a, <1>4, <2>1
    <3>. QED
      BY <3>1, Continued, SMTT(30)
  <2>4. \A i : InUnreducedKey(i) => InUnreducedKey(i)'
    BY <1>1 DEF InUnreducedKey
  <2>5. ASSUME NEW i \in 1..offset
        PROVE  Kept(i)'
    BY <1>1, <2>1, <2>3, <2>4 DEF Kept
  <2>6. ASSUME NEW i \in (offset + 1)..(offset + field.width)
        PROVE  Kept(i)'
    <3>1. i - offset \in 1..field.width /\ offset + (i - offset) = i
      BY <1>2, <2>2
    <3>2. reassembled'[i] = again[i - offset]
      BY <1>4, <2>1, <2>3, <3>1
    <3>3. CASE again = next
      <4>1. next[i - offset] = blob[i]
        BY <1>2, <1>3, <2>2, <3>1, FieldBytes
      <4>. QED
        BY <1>1, <3>2, <3>3, <4>1 DEF Kept
    <3>4. CASE next \in Unreduced /\ field.width = KeyBytes
      <4>1. offset \in 0..(Len(blob) - KeyBytes)
        BY <1>2, <2>2, <3>4
      <4>2. InUnreducedKey(i)
        BY <1>3, <3>4, <4>1 DEF InUnreducedKey
      <4>. QED
        BY <2>4, <4>2 DEF Kept
    <3>. QED
      BY <1>4, <3>3, <3>4
  <2>7. \A i \in 1..(offset + field.width) :
          i \in 1..offset \/ i \in (offset + 1)..(offset + field.width)
    BY <1>2, <2>2
  <2>8. Len(reassembled') = offset + field.width
    BY <1>4, <2>1, <2>3
  <2>. QED
    BY <2>5, <2>6, <2>7, <2>8
<1>10. ReassembledSoFar' /\ OnlyUnreducedKeysAreRewritten'
  BY <1>1, <1>9 DEF ReassembledSoFar, OnlyUnreducedKeysAreRewritten
<1>. QED
  BY <1>5, <1>6, <1>7, <1>8, <1>10 DEF ParserInv

LEMMA ReassembleKeeps == ParserInv /\ Reassemble => ParserInv'
<1>. SUFFICES ASSUME ParserInv, Reassemble
              PROVE  ParserInv'
  OBVIOUS
<1>1. /\ outcome = "parsing" /\ offset = Len(blob)
      /\ outcome' = IF reassembled = blob THEN "ok" ELSE "incorrect"
      /\ UNCHANGED <<written, blob, offset, expects, partial, instructions, reassembled>>
  BY DEF Reassemble, FinishedParsing
<1>2. Len(reassembled) = Len(blob) /\ \A i \in 1..Len(blob) : Kept(i)
  BY <1>1 DEF ParserInv, ReassembledSoFar
<1>3. OnlyUnreducedKeysAreRewritten'
  BY <1>1, <1>2 DEF OnlyUnreducedKeysAreRewritten, Kept, InUnreducedKey
<1>4. OutcomeOK' /\ ReassembledSoFar'
  BY <1>1 DEF OutcomeOK, Outcomes, ReassembledSoFar
<1>. QED
  BY <1>1, <1>3, <1>4 DEF ParserInv, BytesOK, ExpectsOK, ReadOK, WrittenOK

\* The steps that read nothing, or stop.
LEMMA OtherStepsKeep ==
  ParserInv /\ (NextInstruction \/ OutOfBoundary \/ Refuse \/ PushInstruction) => ParserInv'
<1>1. ASSUME ParserInv, NextInstruction
      PROVE  ParserInv'
  <2>1. <<"instruction">> \in Seq(Kinds)
    BY KindsOfFields
  <2>2. ExpectsOK'
    BY <1>1, <2>1, ExpectIsWellFormed DEF NextInstruction, ExpectsOK
  <2>. QED
    BY <1>1, <2>2 DEF NextInstruction, ParserInv, BytesOK, ReadOK, WrittenOK, OutcomeOK,
                      ReassembledSoFar, OnlyUnreducedKeysAreRewritten, Kept, InUnreducedKey
<1>2. ASSUME ParserInv, OutOfBoundary
      PROVE  ParserInv'
  BY <1>2 DEF OutOfBoundary, ParserInv, BytesOK, ExpectsOK, ReadOK, WrittenOK, OutcomeOK,
              Outcomes, ReassembledSoFar, OnlyUnreducedKeysAreRewritten
<1>3. ASSUME ParserInv, Refuse
      PROVE  ParserInv'
  <2>1. offset' \in 0..Len(blob)
    <3>1. offset + Head(expects).width \in offset..Len(blob)
      BY <1>3, NextField DEF Refuse
    <3>. QED
      BY <1>3, <3>1 DEF Refuse, ParserInv, BytesOK
  <2>2. outcome' \in {"err", "unsupported"}
    BY <1>3 DEF Refuse
  <2>. QED
    BY <1>3, <2>1, <2>2 DEF Refuse, ParserInv, BytesOK, ExpectsOK, ReadOK, WrittenOK, OutcomeOK,
                            Outcomes, ReassembledSoFar, OnlyUnreducedKeysAreRewritten
<1>4. ASSUME ParserInv, PushInstruction
      PROVE  ParserInv'
  <2>1. ReadOK'
    BY <1>4 DEF PushInstruction, ParserInv, ReadOK
  <2>. QED
    BY <1>4, <2>1 DEF PushInstruction, ParserInv, BytesOK, ExpectsOK, WrittenOK, OutcomeOK,
                      ReassembledSoFar, OnlyUnreducedKeysAreRewritten, Kept, InUnreducedKey
<1>. QED
  BY <1>1, <1>2, <1>3, <1>4

LEMMA ParserStepKeeps == ParserInv /\ [Receive \/ Parse]_parserVars => ParserInv'
<1>1. ASSUME ParserInv, UNCHANGED parserVars
      PROVE  ParserInv'
  BY <1>1 DEF parserVars, ParserInv, BytesOK, ExpectsOK, ReadOK, WrittenOK, OutcomeOK,
              ReassembledSoFar, OnlyUnreducedKeysAreRewritten, Kept, InUnreducedKey
<1>. QED
  BY <1>1, ReceiveKeeps, ReadFieldKeeps, ReassembleKeeps, OtherStepsKeep DEF Parse

-----------------------------------------------------------------------------
(* Types, and what is put together again.                                  *)

LEMMA ParserInvariant == ParserSpec => []ParserInv
<1>1. ParserInit => ParserInv
  BY InitEstablishes
<1>2. ParserInv /\ [Receive \/ Parse]_parserVars => ParserInv'
  BY ParserStepKeeps
<1>. QED
  BY <1>1, <1>2, PTL DEF ParserSpec

\* The exception is thrown of what differs.
Incorrect == outcome = "incorrect" => reassembled # blob

LEMMA DifferIfIncorrect == ParserSpec => []Incorrect
<1>1. ParserInit => Incorrect
  BY DEF ParserInit, Incorrect
<1>2. Incorrect /\ [Receive \/ Parse]_parserVars => Incorrect'
  BY DEF Incorrect, parserVars, Receive, FromBuffer, Parse, NextInstruction, ReadField, OutOfBoundary,
         Refuse, PushInstruction, Reassemble
<1>. QED
  BY <1>1, <1>2, PTL DEF ParserSpec

\* Type correctness of the parser: the reader's cursor never leaves the blob,
\* and the grammar only ever expects fields that there are.
THEOREM ParserTypeCorrect == ParserSpec => []ParserTypeOK
<1>1. ParserInv => ParserTypeOK
  <2>1. ASSUME expects \in Seq(WellFormed)
        PROVE  expects \in Seq(Field)
    BY <2>1, SeqMonotonic DEF WellFormed
  <2>. QED
    BY <2>1 DEF ParserInv, ParserTypeOK, BytesOK, ExpectsOK, ReadOK, WrittenOK, OutcomeOK, Outcomes
<1>. QED
  BY <1>1, ParserInvariant, PTL

\* Whatever the node wrote and whatever became of it, a blob that is read to its
\* end and written again differs in keys with an x that is not reduced, if at all.
THEOREM OnlyKeysAreRewritten == ParserSpec => []OnlyUnreducedKeysAreRewritten
<1>1. ParserInv => OnlyUnreducedKeysAreRewritten
  BY DEF ParserInv
<1>. QED
  BY <1>1, ParserInvariant, PTL

\* Hence "Incorrect implementation, reasambled blob NEQ original blob" is thrown
\* only of a blob that has such a key in it, and never where all x are reduced.
THEOREM IncorrectOnlyForUnreducedKeys ==
  ParserSpec => [](outcome = "incorrect" => \E i \in 1..Len(blob) : InUnreducedKey(i))
<1>1. ASSUME ParserInv, Incorrect, outcome = "incorrect"
      PROVE  \E i \in 1..Len(blob) : InUnreducedKey(i)
  <2>1. /\ blob \in Seq(Byte) /\ reassembled \in Seq(Byte) /\ reassembled # blob
        /\ Len(reassembled) = Len(blob)
        /\ \A i \in 1..Len(blob) : reassembled[i] = blob[i] \/ InUnreducedKey(i)
    BY <1>1 DEF ParserInv, Incorrect, BytesOK, ReadOK, OnlyUnreducedKeysAreRewritten
  <2>. QED
    BY <2>1, SeqEqual
<1>. QED
  BY <1>1, ParserInvariant, DifferIfIncorrect, PTL

-----------------------------------------------------------------------------
(* What was written is read back.                                          *)

Undamaged == blob = Encoded(written) \/ blob \in Cut(Encoded(written))

\* The instruction being read and its next field, as they were written.
Current      == written[Len(instructions) + 1]
NextWritten  == Current[Len(partial) + 1]

\* Of an undamaged blob, what was read is what was written, so is what was put
\* together, the cursor is behind it, and the queue is what the grammar says of the rest of the instruction.
Place ==
  /\ Len(instructions) <= Len(written)
  /\ \A i \in 1..Len(instructions) : instructions[i] = written[i]
  /\ offset = Position(written, Len(instructions), Len(partial))
  /\ reassembled = SubSeq(blob, 1, offset)
  /\ \/ expects = <<>> /\ partial = <<>>
     \/ /\ Len(instructions) < Len(written)
        /\ Len(partial) <= Len(Current)
        /\ expects = Queues(Current)[Len(partial)]
        /\ \A f \in 1..Len(partial) : partial[f] = Current[f]

PlaceInv ==
  /\ outcome = "idle" => expects = <<>> /\ partial = <<>> /\ instructions = <<>>
  /\ outcome = "parsing" /\ Undamaged => Place

ReadBackInv == ParserInv /\ PlaceInv /\ WrittenIsReadBack

LEMMA WrittenFollows ==
  ASSUME ParserInv
  PROVE  /\ written \in Seq(Seq(Seq(Byte))) /\ Len(written) \in Nat
         /\ \A i \in 1..Len(written) :
              /\ Follows(written[i], Queues(written[i]))
              /\ written[i] \in Seq(Seq(Byte)) /\ Len(written[i]) \in Nat
<1>1. CASE written \in Transactions
  <2>1. written \in Seq(Seq(Seq(Byte)))
    BY <1>1, Constants
  <2>. QED
    BY <1>1, <2>1, GrammarAssumption, LenProperties, ElementOfSeq
<1>2. CASE written = <<>>
  BY <1>2
<1>. QED
  BY <1>1, <1>2 DEF ParserInv, WrittenOK

LEMMA SizesOfRead ==
  ASSUME ParserInv
  PROVE  /\ Len(instructions) \in Nat /\ Len(partial) \in Nat
         /\ instructions \in Seq(Seq(Seq(Byte))) /\ partial \in Seq(Seq(Byte))
  BY LenProperties DEF ParserInv, ReadOK

\* Up to where it was cut, if it was, an undamaged blob is what was encoded.
LEMMA UndamagedBytes ==
  ASSUME ParserInv, Undamaged
  PROVE  /\ Len(blob) \in Nat /\ Len(Encoded(written)) \in Nat
         /\ Len(blob) <= Len(Encoded(written))
         /\ \A x \in 1..Len(blob) : blob[x] = Encoded(written)[x]
         /\ blob \in Cut(Encoded(written)) => Len(blob) < Len(Encoded(written))
<1>. DEFINE sent == Encoded(written)
<1>1. sent \in Seq(Byte)
  BY WrittenFollows, Layout
<1>2. Len(sent) \in Nat /\ blob \in Seq(Byte) /\ Len(blob) \in Nat
  BY <1>1, LenProperties DEF ParserInv, BytesOK
<1>. HIDE DEF sent
<1>3. ASSUME blob \in Cut(sent)
      PROVE  Len(blob) < Len(sent) /\ \A x \in 1..Len(blob) : blob[x] = sent[x]
  <2>1. PICK n \in 0..(Len(sent) - 1) : blob = SubSeq(sent, 1, n)
    BY <1>3 DEF Cut
  <2>2. n \in Nat /\ n < Len(sent) /\ \A x \in 1..n : sent[x] \in Byte
    BY <1>1, <1>2, <2>1, ElementOfSeq
  <2>3. /\ Len(blob) = IF 1 <= n THEN n - 1 + 1 ELSE 0
        /\ \A x \in 1..(n - 1 + 1) : blob[x] = sent[1 + x - 1]
    BY <2>1, <2>2, SubSeqProperties
  <2>4. Len(blob) = n /\ \A x \in 1..n : 1 + x - 1 = x /\ x \in 1..(n - 1 + 1)
    BY <2>2, <2>3
  <2>. QED
    BY <2>2, <2>3, <2>4
<1>. QED
  BY <1>2, <1>3 DEF Undamaged, sent

\* While fields are expected, the next one was written as it is expected; and its
\* bytes, if they are there, are the next ones.
LEMMA NextIsWritten ==
  ASSUME ParserInv, Place, Undamaged, expects # <<>>
  PROVE  /\ Len(instructions) < Len(written) /\ Len(partial) < Len(Current)
         /\ \A f \in 1..Len(partial) : partial[f] = Current[f]
         /\ Len(NextWritten) = Head(expects).width
         /\ Head(expects).kind = "key" => NextWritten \notin Unreduced
         /\ ~Refused(Head(expects), NextWritten) /\ ~Unsupported(Head(expects), NextWritten)
         /\ Queues(Current)[Len(partial) + 1] = Announces(Head(expects), NextWritten) \o Tail(expects)
         /\ Position(written, Len(instructions), Len(partial) + 1) = offset + Head(expects).width
         /\ offset + Head(expects).width <= Len(Encoded(written))
         /\ InBounds => NextBuffer = NextWritten
<1>. DEFINE i == Len(instructions) + 1
            f == Len(partial) + 1
            queue == Queues(Current)
            sent == Encoded(written)
<1>1. /\ Len(instructions) \in Nat /\ Len(partial) \in Nat
      /\ written \in Seq(Seq(Seq(Byte))) /\ Len(written) \in Nat
  BY SizesOfRead, WrittenFollows
<1>2. /\ Len(instructions) < Len(written) /\ Len(partial) <= Len(Current)
      /\ expects = queue[Len(partial)] /\ \A g \in 1..Len(partial) : partial[g] = Current[g]
      /\ offset = Position(written, Len(instructions), Len(partial))
  BY DEF Place
<1>3. i \in 1..Len(written) /\ i - 1 = Len(instructions)
  BY <1>1, <1>2
<1>4. Follows(Current, queue) /\ Current \in Seq(Seq(Byte)) /\ Len(Current) \in Nat
  BY <1>3, WrittenFollows DEF Current
<1>5. f \in 1..Len(Current) /\ f - 1 = Len(partial)
  <2>1. Len(partial) # Len(Current)
    BY <1>2, <1>4 DEF Follows
  <2>. QED
    BY <1>1, <1>2, <1>4, <2>1
<1>. HIDE DEF queue
<1>6. /\ Len(NextWritten) = Head(expects).width
      /\ Head(expects).kind = "key" => NextWritten \notin Unreduced
      /\ ~Refused(Head(expects), NextWritten) /\ ~Unsupported(Head(expects), NextWritten)
      /\ queue[f] = Announces(Head(expects), NextWritten) \o Tail(expects)
  <2>. HIDE DEF f
  <2>1. expects = queue[f - 1] /\ NextWritten = Current[f]
    BY <1>2, <1>5 DEF NextWritten, f
  <2>. QED
    BY <1>4, <1>5, <2>1 DEF Follows
<1>7. /\ sent \in Seq(Byte) /\ offset \in Nat
      /\ Position(written, Len(instructions), f) = offset + Len(NextWritten)
      /\ Position(written, Len(instructions), f) <= Len(sent)
      /\ \A x \in 1..Len(NextWritten) : sent[offset + x] = NextWritten[x]
  <2>. HIDE DEF i, f, sent
  <2>1. Current = written[i] /\ NextWritten = written[i][f]
    BY DEF Current, NextWritten, i, f
  <2>2. f \in 1..Len(written[i])
    BY <1>5, <2>1
  <2>3. /\ Encoded(written) \in Seq(Byte)
        /\ Position(written, i - 1, f - 1) \in Nat
        /\ Position(written, i - 1, f) = Position(written, i - 1, f - 1) + Len(written[i][f])
        /\ Position(written, i - 1, f) <= Len(Encoded(written))
        /\ \A x \in 1..Len(written[i][f]) :
             Encoded(written)[Position(written, i - 1, f - 1) + x] = written[i][f][x]
    BY <1>1, <1>3, <2>2, Layout
  <2>4. Position(written, i - 1, f - 1) = offset
    BY <1>2, <1>3, <1>5
  <2>. QED
    BY <1>3, <2>1, <2>3, <2>4 DEF sent
<1>8. ASSUME InBounds
      PROVE  NextBuffer = NextWritten
  <2>1. /\ NextBuffer \in Seq(Byte) /\ Len(NextBuffer) = Head(expects).width
        /\ Head(expects).width \in Nat
        /\ offset + Head(expects).width \in offset..Len(blob)
    BY <1>8, NextField
  <2>. DEFINE width == Head(expects).width
  <2>2. NextWritten \in Seq(Byte)
    BY <1>4, <1>5, ElementOfSeq DEF NextWritten
  <2>3. NextBuffer = SubSeq(blob, offset + 1, offset + width)
    BY DEF NextBuffer
  <2>. HIDE DEF width, sent
  <2>4. width \in Nat /\ Len(blob) \in Nat /\ offset + width <= Len(blob)
    BY <1>7, <2>1, UndamagedBytes DEF width
  <2>5. \A x \in (offset + 1)..(offset + width) : x \in 1..Len(blob)
    BY <1>7, <2>4
  <2>6. \A x \in (offset + 1)..(offset + width) : blob[x] \in Byte
    BY <2>5, ElementOfSeq DEF ParserInv, BytesOK
  <2>7. \A x \in 1..((offset + width) - (offset + 1) + 1) :
          SubSeq(blob, offset + 1, offset + width)[x] = blob[offset + 1 + x - 1]
    <3>1. offset + 1 \in Int /\ offset + width \in Int
      BY <1>7, <2>4
    <3>. QED
      BY <2>6, <3>1, SubSeqProperties
  <2>8. ASSUME NEW x \in 1..width
        PROVE  NextBuffer[x] = NextWritten[x]
    <3>1. /\ x \in 1..((offset + width) - (offset + 1) + 1) /\ offset + 1 + x - 1 = offset + x
          /\ offset + x \in 1..Len(blob)
      BY <1>7, <2>4
    <3>2. blob[offset + x] = sent[offset + x]
      BY <3>1, UndamagedBytes DEF sent
    <3>3. sent[offset + x] = NextWritten[x]
      BY <1>6, <1>7 DEF width
    <3>. QED
      BY <2>3, <2>7, <3>1, <3>2, <3>3
  <2>. QED
    BY <1>6, <2>1, <2>2, <2>8, SeqEqual DEF width
<1>. QED
  BY <1>2, <1>5, <1>6, <1>7, <1>8 DEF queue

\* Every instruction starts with the byte of its type.
LEMMA FirstIsType ==
  /\ Expect(<<"instruction">>) # <<>>
  /\ Head(Expect(<<"instruction">>)).width = 1
<1>1. <<"instruction">> \in Seq(Kinds) /\ Len(<<"instruction">>) = 1 /\ <<"instruction">>[1] = "instruction"
  BY KindsOfFields
<1>2. Width["instruction"] = 1
  BY DEF Width
<1>3. Expect(<<"instruction">>) = [i \in 1..1 |-> [kind |-> "instruction", width |-> 1]]
  <2>1. \A i \in 1..1 : i = 1
    OBVIOUS
  <2>2. \A i \in 1..1 : <<"instruction">>[i] = "instruction"
    BY <1>1, <2>1
  <2>. QED
    BY <1>1, <1>2, <2>2 DEF Expect
<1>4. Expect(<<"instruction">>) \in Seq(WellFormed)
  BY <1>1, ExpectIsWellFormed
<1>5. Len(Expect(<<"instruction">>)) = 1 /\ Expect(<<"instruction">>)[1].width = 1
  BY <1>3
<1>6. Expect(<<"instruction">>) # <<>>
  BY <1>5
<1>7. Head(Expect(<<"instruction">>)) = Expect(<<"instruction">>)[1]
  BY <1>4, <1>6
<1>. QED
  BY <1>5, <1>6, <1>7

\* Between two instructions, the cursor is at the end if and only if all were read.
LEMMA BetweenInstructions ==
  ASSUME ParserInv, Place, Undamaged, expects = <<>>, partial = <<>>
  PROVE  /\ Len(instructions) = Len(written) => offset = Len(Encoded(written))
         /\ Len(instructions) < Len(written) => offset < Len(Encoded(written))
<1>1. /\ written \in Seq(Seq(Seq(Byte))) /\ Len(written) \in Nat /\ Len(instructions) \in Nat
      /\ offset = Position(written, Len(instructions), 0)
  BY WrittenFollows, SizesOfRead DEF Place
<1>2. Len(instructions) = Len(written) => offset = Len(Encoded(written))
  BY <1>1, Layout
<1>3. ASSUME Len(instructions) < Len(written)
      PROVE  offset < Len(Encoded(written))
  <2>. DEFINE i == Len(instructions) + 1
              queue == Queues(written[i])
  <2>1. i \in 1..Len(written) /\ i - 1 = Len(instructions)
    BY <1>1, <1>3
  <2>. HIDE DEF i
  <2>2. Follows(written[i], queue) /\ Len(written[i]) \in Nat
    BY <2>1, WrittenFollows
  <2>. HIDE DEF queue
  <2>3. 1 \in 1..Len(written[i])
    <3>1. Len(written[i]) # 0
      BY <2>2, FirstIsType DEF Follows
    <3>. QED
      BY <2>2, <3>1
  <2>4. Len(written[i][1]) = 1
    <3>1. Len(written[i][1]) = Head(queue[1 - 1]).width /\ queue[0] = Expect(<<"instruction">>)
      BY <2>2, <2>3 DEF Follows
    <3>2. 1 - 1 = 0
      OBVIOUS
    <3>. QED
      BY <3>1, <3>2, FirstIsType
  <2>5. /\ Position(written, i - 1, 1 - 1) \in Nat
        /\ Position(written, i - 1, 1) = Position(written, i - 1, 1 - 1) + Len(written[i][1])
        /\ Position(written, i - 1, 1) <= Len(Encoded(written))
        /\ Encoded(written) \in Seq(Byte)
    BY <1>1, <2>1, <2>3, Layout
  <2>6. 1 - 1 = 0
    OBVIOUS
  <2>7. Position(written, i - 1, 1) = offset + 1 /\ offset \in Nat
    BY <1>1, <2>1, <2>4, <2>5, <2>6
  <2>8. Len(Encoded(written)) \in Nat
    BY <2>5, LenProperties
  <2>. QED
    BY <2>5, <2>7, <2>8
<1>. QED
  BY <1>2, <1>3

\* When nothing more is expected of an instruction, all of it was read.
LEMMA EndOfInstruction ==
  ASSUME ParserInv, Place, Undamaged, expects = <<>>, partial # <<>>
  PROVE  /\ Len(instructions) < Len(written) /\ partial = Current
         /\ offset = Position(written, Len(instructions) + 1, 0)
<1>1. /\ Len(instructions) \in Nat /\ Len(partial) \in Nat /\ partial \in Seq(Seq(Byte))
      /\ written \in Seq(Seq(Seq(Byte))) /\ Len(written) \in Nat
  BY SizesOfRead, WrittenFollows
<1>. DEFINE i == Len(instructions) + 1
            queue == Queues(Current)
<1>2. /\ Len(instructions) < Len(written) /\ Len(partial) <= Len(Current)
      /\ queue[Len(partial)] = <<>> /\ \A f \in 1..Len(partial) : partial[f] = Current[f]
      /\ offset = Position(written, Len(instructions), Len(partial))
  BY DEF Place
<1>3. i \in 1..Len(written) /\ i - 1 = Len(instructions)
  BY <1>1, <1>2
<1>4. Follows(Current, queue) /\ Current \in Seq(Seq(Byte)) /\ Len(Current) \in Nat
  BY <1>3, WrittenFollows DEF Current
<1>. HIDE DEF queue
<1>5. Len(partial) = Len(Current)
  <2>. SUFFICES ASSUME Len(partial) # Len(Current)
                PROVE  FALSE
    OBVIOUS
  <2>. DEFINE f == Len(partial) + 1
  <2>1. f \in 1..Len(Current) /\ f - 1 = Len(partial)
    BY <1>1, <1>2, <1>4
  <2>. HIDE DEF f
  <2>2. queue[f - 1] # <<>>
    BY <1>4, <2>1 DEF Follows
  <2>. QED
    BY <1>2, <2>1, <2>2
<1>6. partial = Current
  BY <1>1, <1>2, <1>4, <1>5, SeqEqual
<1>7. Position(written, i - 1, Len(written[i])) = Position(written, i, 0)
  <2>. HIDE DEF i
  <2>. QED
    BY <1>1, <1>3, Layout
<1>8. offset = Position(written, i, 0)
  BY <1>2, <1>3, <1>5, <1>7 DEF Current
<1>. QED
  BY <1>2, <1>6, <1>8

\* What was read between two instructions is what was written, up to there.
LEMMA ReadIsPrefix ==
  ASSUME ParserInv, Place
  PROVE  /\ Len(instructions) = Len(written) => instructions = written
         /\ Len(instructions) < Len(written) => IsStrictPrefix(instructions, written)
<1>1. /\ Len(instructions) \in Nat /\ instructions \in Seq(Seq(Seq(Byte)))
      /\ written \in Seq(Seq(Seq(Byte))) /\ Len(written) \in Nat
      /\ \A i \in 1..Len(instructions) : instructions[i] = written[i]
  BY SizesOfRead, WrittenFollows DEF Place
<1>2. Len(instructions) = Len(written) => instructions = written
  BY <1>1, SeqEqual
<1>3. ASSUME Len(instructions) < Len(written)
      PROVE  IsStrictPrefix(instructions, written)
  <2>. DEFINE n == Len(instructions)
  <2>1. n \in Nat /\ n < Len(written) /\ \A i \in 1..n : written[i] \in Seq(Seq(Byte))
    BY <1>1, <1>3, ElementOfSeq
  <2>. HIDE DEF n
  <2>2. /\ SubSeq(written, 1, n) \in Seq(Seq(Seq(Byte)))
        /\ Len(SubSeq(written, 1, n)) = IF 1 <= n THEN n - 1 + 1 ELSE 0
        /\ \A i \in 1..(n - 1 + 1) : SubSeq(written, 1, n)[i] = written[1 + i - 1]
    BY <2>1, SubSeqProperties
  <2>3. Len(SubSeq(written, 1, n)) = n /\ \A i \in 1..n : SubSeq(written, 1, n)[i] = written[i]
    BY <2>1, <2>2
  <2>4. SubSeq(written, 1, n) = instructions
    BY <1>1, <2>2, <2>3, SeqEqual DEF n
  <2>5. SubSeq(instructions, 1, Len(instructions)) = instructions
    BY <1>1, SubSeqFull
  <2>6. instructions # written
    BY <1>1, <1>3
  <2>. QED
    BY <1>1, <1>3, <2>4, <2>5, <2>6 DEF IsStrictPrefix, IsPrefix, n
<1>. QED
  BY <1>2, <1>3

LEMMA ReceiveReads == ReadBackInv /\ Receive => PlaceInv' /\ WrittenIsReadBack'
<1>. SUFFICES ASSUME ReadBackInv, NEW transaction \in Transactions,
                     NEW bytes \in {Encoded(transaction)} \cup Cut(Encoded(transaction))
                                                          \cup Garbled(Encoded(transaction)),
                     FromBuffer(transaction, bytes)
              PROVE  PlaceInv' /\ WrittenIsReadBack'
  BY DEF Receive
<1>1. /\ outcome = "idle" /\ outcome' = "parsing" /\ written' = transaction
      /\ UNCHANGED <<offset, expects, partial, instructions, reassembled>>
  BY DEF FromBuffer
<1>2. expects = <<>> /\ partial = <<>> /\ instructions = <<>> /\ offset = 0 /\ reassembled = <<>>
  BY <1>1 DEF ReadBackInv, PlaceInv, ParserInv, ReassembledSoFar
<1>3. transaction \in Seq(Seq(Seq(Byte)))
  BY Constants
<1>4. Position(transaction, 0, 0) = 0 /\ Len(transaction) \in Nat
  BY <1>3, Layout, LenProperties
<1>5. Len(<<>>) = 0 /\ 1..0 = {} /\ SubSeq(bytes, 1, 0) = <<>> /\ blob' = bytes
  BY SubSeqEmpty DEF FromBuffer
<1>6. Place'
  BY <1>1, <1>2, <1>4, <1>5 DEF Place
<1>. QED
  BY <1>1, <1>6 DEF PlaceInv, WrittenIsReadBack

LEMMA NextInstructionReads ==
  ReadBackInv /\ NextInstruction => PlaceInv' /\ WrittenIsReadBack'
<1>. SUFFICES ASSUME ReadBackInv, NextInstruction
              PROVE  PlaceInv' /\ WrittenIsReadBack'
  OBVIOUS
<1>1. /\ outcome = "parsing" /\ outcome' = "parsing"
      /\ expects = <<>> /\ partial = <<>> /\ offset # Len(blob)
      /\ expects' = Expect(<<"instruction">>)
      /\ UNCHANGED <<written, blob, offset, partial, instructions, reassembled>>
  BY DEF NextInstruction, FinishedParsing
<1>2. ASSUME Undamaged
      PROVE  Place'
  <2>1. ParserInv /\ Place
    BY <1>1, <1>2 DEF ReadBackInv, PlaceInv
  <2>2. /\ Len(instructions) \in Nat /\ Len(written) \in Nat /\ Len(instructions) <= Len(written)
        /\ \A i \in 1..Len(written) :
             /\ Follows(written[i], Queues(written[i]))
             /\ Len(written[i]) \in Nat
    BY <2>1, WrittenFollows, SizesOfRead DEF Place
  <2>3. Len(instructions) # Len(written)
    <3>1. offset \in 0..Len(blob) /\ Len(blob) \in Nat /\ Len(Encoded(written)) \in Nat
          /\ Len(blob) <= Len(Encoded(written))
      BY <1>2, <2>1, UndamagedBytes DEF ParserInv, BytesOK
    <3>2. offset # Len(Encoded(written))
      BY <1>1, <3>1
    <3>. QED
      BY <1>1, <1>2, <2>1, <3>2, BetweenInstructions
  <2>4. Len(instructions) < Len(written) /\ Len(instructions) + 1 \in 1..Len(written)
    BY <2>2, <2>3
  <2>5. Queues(Current)[0] = Expect(<<"instruction">>) /\ Len(Current) \in Nat
    BY <2>2, <2>4 DEF Current, Follows
  <2>6. Len(<<>>) = 0 /\ 1..0 = {}
    OBVIOUS
  <2>7. Current' = Current /\ partial' = <<>>
    BY <1>1 DEF Current
  <2>. QED
    BY <1>1, <2>1, <2>4, <2>5, <2>6, <2>7 DEF Place
<1>3. Undamaged' <=> Undamaged
  BY <1>1 DEF Undamaged
<1>. QED
  BY <1>1, <1>2, <1>3 DEF PlaceInv, WrittenIsReadBack

LEMMA ReadFieldReads == ReadBackInv /\ ReadField => PlaceInv' /\ WrittenIsReadBack'
<1>. SUFFICES ASSUME ReadBackInv, ReadField
              PROVE  PlaceInv' /\ WrittenIsReadBack'
  OBVIOUS
<1>. DEFINE field == Head(expects)
            next  == NextBuffer
<1>1. /\ outcome = "parsing" /\ outcome' = "parsing" /\ expects # <<>> /\ InBounds
      /\ offset' = offset + field.width
      /\ expects' = Announces(field, next) \o Tail(expects)
      /\ partial' = Append(partial, ToBuffer(field, next))
      /\ reassembled' = reassembled \o ToBuffer(field, next)
      /\ UNCHANGED <<written, blob, instructions>>
      /\ ~Refused(field, next)
  BY DEF ReadField
<1>2. ParserInv
  BY DEF ReadBackInv
<1>3. /\ field \in WellFormed /\ field.width \in Nat /\ next \in Seq(Byte)
      /\ Len(next) = field.width /\ offset + field.width \in offset..Len(blob)
  BY <1>1, <1>2, NextField
<1>4. ASSUME Undamaged
      PROVE  Place'
  <2>1. Place
    BY <1>1, <1>4 DEF ReadBackInv, PlaceInv
  <2>2. /\ Len(instructions) < Len(written) /\ Len(partial) < Len(Current)
        /\ \A f \in 1..Len(partial) : partial[f] = Current[f]
        /\ Queues(Current)[Len(partial) + 1] = Announces(field, NextWritten) \o Tail(expects)
        /\ Position(written, Len(instructions), Len(partial) + 1) = offset + field.width
        /\ next = NextWritten
        /\ field.kind = "key" => next \notin Unreduced
        /\ next = SubSeq(blob, offset + 1, offset + field.width)
    BY <1>1, <1>2, <1>4, <2>1, NextIsWritten DEF NextBuffer
  <2>. HIDE DEF field, next
  <2>w. ToBuffer(field, next) = next
    BY <1>1, <1>3, <2>2, WrittenAsRead
  <2>3. /\ Len(partial) \in Nat /\ Len(instructions) \in Nat /\ partial \in Seq(Seq(Byte))
        /\ Len(written) \in Nat
    BY <1>2, SizesOfRead, WrittenFollows
  <2>4. Current \in Seq(Seq(Byte)) /\ Len(Current) \in Nat
    <3>1. Len(instructions) + 1 \in 1..Len(written)
      BY <2>2, <2>3
    <3>. QED
      BY <1>2, <3>1, WrittenFollows DEF Current
  <2>5. /\ Len(partial') = Len(partial) + 1
        /\ \A f \in 1..Len(partial) : partial'[f] = partial[f]
        /\ partial'[Len(partial) + 1] = next
    BY <1>1, <1>3, <2>3, <2>w, AppendProperties
  <2>6. ASSUME NEW f \in 1..Len(partial')
        PROVE  partial'[f] = Current[f]
    <3>1. f \in 1..Len(partial) \/ f = Len(partial) + 1
      BY <2>3, <2>5
    <3>. QED
      BY <2>2, <2>5, <3>1 DEF NextWritten
  <2>7. Len(partial') <= Len(Current)
    BY <2>2, <2>3, <2>4, <2>5
  <2>8. expects' = Queues(Current)[Len(partial')]
    BY <1>1, <2>2, <2>5
  <2>9. offset' = Position(written, Len(instructions), Len(partial'))
    BY <1>1, <2>2, <2>5
  <2>10. Current' = Current
    BY <1>1 DEF Current
  <2>11. reassembled' = SubSeq(blob', 1, offset')
    <3>1. blob \in Seq(Byte) /\ Len(blob) \in Nat /\ offset \in 0..Len(blob)
      BY <1>2, LenProperties DEF ParserInv, BytesOK
    <3>2. /\ 1 \in 1..Len(blob) + 1 /\ offset \in 1 - 1..Len(blob)
          /\ offset + field.width \in offset..Len(blob)
      BY <1>3, <3>1
    <3>3. SubSeq(blob, 1, offset) \o SubSeq(blob, offset + 1, offset + field.width)
            = SubSeq(blob, 1, offset + field.width)
      BY <3>1, <3>2, ConcatAdjacentSubSeq
    <3>. QED
      BY <1>1, <2>1, <2>2, <2>w, <3>3 DEF Place
  <2>. QED
    BY <1>1, <2>1, <2>2, <2>6, <2>7, <2>8, <2>9, <2>10, <2>11 DEF Place
<1>5. Undamaged' <=> Undamaged
  BY <1>1 DEF Undamaged
<1>. QED
  BY <1>1, <1>4, <1>5 DEF PlaceInv, WrittenIsReadBack

LEMMA PushInstructionReads ==
  ReadBackInv /\ PushInstruction => PlaceInv' /\ WrittenIsReadBack'
<1>. SUFFICES ASSUME ReadBackInv, PushInstruction
              PROVE  PlaceInv' /\ WrittenIsReadBack'
  OBVIOUS
<1>1. /\ outcome = "parsing" /\ outcome' = "parsing" /\ expects = <<>> /\ partial # <<>>
      /\ instructions' = Append(instructions, partial) /\ partial' = <<>>
      /\ UNCHANGED <<written, blob, offset, expects, reassembled>>
  BY DEF PushInstruction
<1>2. ASSUME Undamaged
      PROVE  Place'
  <2>1. ParserInv /\ Place
    BY <1>1, <1>2 DEF ReadBackInv, PlaceInv
  <2>2. /\ Len(instructions) < Len(written) /\ partial = Current
        /\ offset = Position(written, Len(instructions) + 1, 0)
    BY <1>1, <1>2, <2>1, EndOfInstruction
  <2>3. /\ Len(instructions) \in Nat /\ Len(written) \in Nat
        /\ instructions \in Seq(Seq(Seq(Byte))) /\ partial \in Seq(Seq(Byte))
    BY <2>1, SizesOfRead, WrittenFollows
  <2>4. /\ Len(instructions') = Len(instructions) + 1
        /\ \A i \in 1..Len(instructions) : instructions'[i] = instructions[i]
        /\ instructions'[Len(instructions) + 1] = partial
    BY <1>1, <2>3, AppendProperties
  <2>5. ASSUME NEW i \in 1..Len(instructions')
        PROVE  instructions'[i] = written[i]
    <3>1. i \in 1..Len(instructions) \/ i = Len(instructions) + 1
      BY <2>3, <2>4
    <3>. QED
      BY <2>1, <2>2, <2>4, <3>1 DEF Place, Current
  <2>6. Len(instructions') <= Len(written)
    BY <2>2, <2>3, <2>4
  <2>7. Len(<<>>) = 0
    OBVIOUS
  <2>. QED
    BY <1>1, <2>1, <2>2, <2>4, <2>5, <2>6, <2>7 DEF Place
<1>3. Undamaged' <=> Undamaged
  BY <1>1 DEF Undamaged
<1>. QED
  BY <1>1, <1>2, <1>3 DEF PlaceInv, WrittenIsReadBack

\* The parser stops at a field only if the blob was cut in it, or was changed.
LEMMA StopsReading ==
  ReadBackInv /\ (OutOfBoundary \/ Refuse) => PlaceInv' /\ WrittenIsReadBack'
<1>. SUFFICES ASSUME ReadBackInv, OutOfBoundary \/ Refuse
              PROVE  PlaceInv' /\ WrittenIsReadBack'
  OBVIOUS
<1>1. /\ outcome = "parsing" /\ expects # <<>> /\ outcome' \in {"err", "unsupported"}
      /\ UNCHANGED <<written, blob, instructions>>
  BY DEF OutOfBoundary, Refuse
<1>2. ASSUME Undamaged
      PROVE  outcome' = "err" /\ blob # Encoded(written)
  <2>1. ParserInv /\ Place
    BY <1>1, <1>2 DEF ReadBackInv, PlaceInv
  <2>2. /\ ~Refused(Head(expects), NextWritten) /\ ~Unsupported(Head(expects), NextWritten)
        /\ offset + Head(expects).width <= Len(Encoded(written))
        /\ InBounds => NextBuffer = NextWritten
    BY <1>1, <1>2, <2>1, NextIsWritten
  <2>3. OutOfBoundary
    BY <2>2 DEF Refuse
  <2>4. ~InBounds /\ outcome' = "err"
    BY <2>3 DEF OutOfBoundary
  <2>. QED
    BY <2>2, <2>4 DEF InBounds
<1>3. Undamaged' <=> Undamaged
  BY <1>1 DEF Undamaged
<1>4. PlaceInv'
  BY <1>1 DEF PlaceInv
<1>5. WrittenIsReadBack'
  BY <1>1, <1>2 DEF WrittenIsReadBack, Undamaged
<1>. QED
  BY <1>4, <1>5

\* At the end of the blob, all was read if none of it was cut away.
LEMMA ReassembleReads == ReadBackInv /\ Reassemble => PlaceInv' /\ WrittenIsReadBack'
<1>. SUFFICES ASSUME ReadBackInv, Reassemble
              PROVE  PlaceInv' /\ WrittenIsReadBack'
  OBVIOUS
<1>1. /\ outcome = "parsing" /\ expects = <<>> /\ partial = <<>> /\ offset = Len(blob)
      /\ outcome' = IF reassembled = blob THEN "ok" ELSE "incorrect"
      /\ UNCHANGED <<written, blob, instructions>>
  BY DEF Reassemble, FinishedParsing
<1>2. outcome' # "idle" /\ outcome' # "parsing"
  BY <1>1
<1>3. ASSUME Undamaged
      PROVE  /\ outcome' = "ok"
             /\ blob = Encoded(written) => instructions = written
             /\ blob \in Cut(Encoded(written)) => IsStrictPrefix(instructions, written)
  <2>1. ParserInv /\ Place
    BY <1>1, <1>3 DEF ReadBackInv, PlaceInv
  <2>2. /\ Len(blob) \in Nat /\ Len(Encoded(written)) \in Nat
        /\ blob \in Cut(Encoded(written)) => Len(blob) < Len(Encoded(written))
    BY <1>3, <2>1, UndamagedBytes
  <2>3. /\ Len(instructions) = Len(written) => offset = Len(Encoded(written))
        /\ Len(instructions) < Len(written) => offset < Len(Encoded(written))
    BY <1>1, <1>3, <2>1, BetweenInstructions
  <2>4. Len(instructions) \in Nat /\ Len(written) \in Nat /\ Len(instructions) <= Len(written)
    BY <2>1, WrittenFollows, SizesOfRead DEF Place
  <2>5. blob = Encoded(written) => Len(instructions) = Len(written)
    BY <1>1, <2>2, <2>3, <2>4
  <2>6. blob \in Cut(Encoded(written)) => Len(instructions) < Len(written)
    BY <1>1, <2>2, <2>3, <2>4
  <2>7. reassembled = blob
    BY <1>1, <2>1, SubSeqFull DEF ParserInv, BytesOK, Place
  <2>. QED
    BY <1>1, <2>1, <2>5, <2>6, <2>7, ReadIsPrefix
<1>4. PlaceInv'
  BY <1>2 DEF PlaceInv
<1>5. WrittenIsReadBack'
  BY <1>1, <1>2, <1>3 DEF WrittenIsReadBack, Undamaged
<1>. QED
  BY <1>4, <1>5

LEMMA ReadBackInvariant == ParserSpec => []ReadBackInv
<1>1. ParserInit => ReadBackInv
  BY InitEstablishes DEF ParserInit, ReadBackInv, PlaceInv, WrittenIsReadBack
<1>2. ReadBackInv /\ [Receive \/ Parse]_parserVars => ReadBackInv'
  <2>1. ASSUME ReadBackInv, UNCHANGED parserVars
        PROVE  PlaceInv' /\ WrittenIsReadBack'
    BY <2>1 DEF parserVars, ReadBackInv, PlaceInv, WrittenIsReadBack, Place, Current, Undamaged
  <2>2. ReadBackInv /\ [Receive \/ Parse]_parserVars => PlaceInv' /\ WrittenIsReadBack'
    BY <2>1, ReceiveReads, NextInstructionReads, ReadFieldReads, PushInstructionReads,
       StopsReading, ReassembleReads DEF Parse
  <2>3. ReadBackInv /\ [Receive \/ Parse]_parserVars => ParserInv'
    BY ParserStepKeeps DEF ReadBackInv
  <2>. QED
    BY <2>2, <2>3 DEF ReadBackInv
<1>. QED
  BY <1>1, <1>2, PTL DEF ParserSpec

\* What a node wrote, of any length and any instructions of the grammar, is what
\* Transaction.fromBuffer reads; of a blob that was cut short, a beginning of it
\* or an error. WrittenIsReadBack, from GrammarAssumption.
THEOREM ReadsWhatWasWritten == ParserSpec => []WrittenIsReadBack
<1>1. ReadBackInv => WrittenIsReadBack
  BY DEF ReadBackInv
<1>. QED
  BY <1>1, ReadBackInvariant, PTL
=============================================================================
