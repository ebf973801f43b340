-------------------------- MODULE JwtClaim_proofs ---------------------------
(***************************************************************************)
(* For every token, well-formed or not: the decoder stays inside the       *)
(* memory it is given, and reads no further than the terminator of a token *)
(* that does not end with its last dot.                                    *)
(***************************************************************************)
EXTENDS JwtClaim, SequenceTheorems, TLAPS

LEMMA ExtendedSize ==
  ASSUME NEW n \in Nat
  PROVE  /\ Extended(n) \in Nat /\ Extended(n) <= n + 3
         /\ Allocated(n) \in Nat
         /\ 3 * Extended(n) <= 4 * Allocated(n) + 3
BY DEF Extended, Allocated, b64d_size

LEMMA SextetTypes ==
  ASSUME NEW ch \in Byte
  PROVE  b64_int(ch) \in Sextets
BY DEF Byte, Pad, Sextets, b64_int

LEMMA SextetsAtTypes ==
  ASSUME token \in ByteTexts, NEW offset \in Nat
  PROVE  SextetsAt(offset) \subseteq Sextets
<1>1. Len(token) \in Nat
  BY DEF ByteTexts
<1>2. CASE offset < Len(token)
  <2>1. At(offset) \in Byte
    BY <1>2 DEF At, ByteTexts
  <2>2. SextetsAt(offset) = {b64_int(At(offset))}
    BY <1>2 DEF SextetsAt
  <2> QED BY <2>1, <2>2, SextetTypes
<1>3. CASE offset = Len(token)
  <2>1. SextetsAt(offset) = {b64_int(0)}
    BY <1>1, <1>3 DEF SextetsAt
  <2>2. b64_int(0) \in Sextets
    BY SextetTypes DEF Byte
  <2> QED BY <2>1, <2>2
<1>4. CASE offset > Len(token)
  BY <1>1, <1>4 DEF SextetsAt
<1> QED BY <1>1, <1>2, <1>3, <1>4

LEMMA QuadElements ==
  ASSUME NEW S, NEW q \in Seq(S), Len(q) = 4
  PROVE  \A n \in 1 .. 4 : q[n] \in S
OBVIOUS

LEMMA AppendTypes ==
  ASSUME NEW S, NEW q \in Seq(S), NEW v \in S
  PROVE  /\ Append(q, v) \in Seq(S)
         /\ Len(Append(q, v)) = Len(q) + 1 /\ Len(q) \in Nat
OBVIOUS

\* The bytes that a group gives, each of two of its sextets.
First(a, b) == (a * 4 + ((b \div 16) % 4)) % 256
Second(a, b) == (a % 16) * 16 + ((b \div 4) % 16)
Third(a, b) == (a % 4) * 64 + b

LEMMA Bytes ==
  ASSUME NEW a \in 0 .. 64, NEW b \in 0 .. 64
  PROVE  /\ First(a, b) \in Byte /\ Second(a, b) \in Byte
         /\ b # Pad => Third(a, b) \in Byte
<1>1. First(a, b) \in 0 .. 255
  BY DEF First
<1>2. Second(a, b) \in 0 .. 255
  BY DEF Second
<1>3. b # 64 => Third(a, b) \in 0 .. 255
  BY DEF Third
<1> QED BY <1>1, <1>2, <1>3 DEF Byte, Pad

LEMMA GroupGives ==
  ASSUME NEW q
  PROVE  Group(q) =
           IF q[3] = Pad THEN <<First(q[1], q[2])>>
           ELSE IF q[4] = Pad THEN <<First(q[1], q[2]), Second(q[2], q[3])>>
           ELSE <<First(q[1], q[2]), Second(q[2], q[3]), Third(q[3], q[4])>>
BY DEF Group, First, Second, Third

LEMMA ShortTexts ==
  ASSUME NEW x \in Byte, NEW y \in Byte
  PROVE  /\ <<x>> \in ByteTexts /\ Len(<<x>>) <= 3
         /\ <<x, y>> \in ByteTexts /\ Len(<<x, y>>) <= 3
         /\ \A z \in Byte : <<x, y, z>> \in ByteTexts /\ Len(<<x, y, z>>) <= 3
BY DEF ByteTexts

\* A group gives one to three bytes.
LEMMA GroupBytes ==
  ASSUME NEW q \in Seq(Sextets), Len(q) = 4
  PROVE  Group(q) \in ByteTexts /\ Len(Group(q)) <= 3
<1> DEFINE x == First(q[1], q[2])
           y == Second(q[2], q[3])
           z == Third(q[3], q[4])
<1>1. /\ q[1] \in 0 .. 64 /\ q[2] \in 0 .. 64
      /\ q[3] \in 0 .. 64 /\ q[4] \in 0 .. 64
  <2>1. \A n \in 1 .. 4 : q[n] \in Sextets
    BY QuadElements, Zenon
  <2> QED BY <2>1 DEF Sextets, Pad
<1>2. x \in Byte
  BY <1>1, Bytes, Zenon
<1>3. y \in Byte
  BY <1>1, Bytes, Zenon
<1>4. q[4] # Pad => z \in Byte
  BY <1>1, Bytes, Zenon
<1>5. \/ Group(q) = <<x>> \/ Group(q) = <<x, y>>
      \/ Group(q) = <<x, y, z>> /\ z \in Byte
  BY <1>4, GroupGives
<1> HIDE DEF x, y, z
<1> QED BY <1>2, <1>3, <1>5, ShortTexts

LEMMA ItemTypes ==
  ASSUME NEW text
  PROVE  Item(text).text \in ByteTexts
BY JwtAssumption DEF Item, NoItem, ByteTexts

\* One character more is read, and with a group of them it is written.
LEMMA GatherTypes ==
  ASSUME TypeOK, DecodeInv, DecodeChar
  PROVE  /\ s' \in Seq(Sextets) /\ Len(s') < 4
         /\ out' \in ByteTexts
         /\ 4 * Len(out') <= 3 * (i' - Len(s'))
<1>1. /\ pc = "decode" /\ i \in Nat /\ first \in Nat
      /\ token \in ByteTexts /\ i' = i + 1
  BY DEF TypeOK, DecodeInv, DecodeChar, ByteTexts
<1>2. PICK v \in SextetsAt(first + i) : Gather(Append(s, v))
  BY DEF DecodeChar
<1>3. v \in Sextets
  BY <1>1, <1>2, SextetsAtTypes
<1> DEFINE q == Append(s, v)
<1>4. PICK j \in Nat : j = Len(s)
  BY DEF TypeOK
<1>5. PICK k \in Nat : k = Len(out)
  BY DEF TypeOK, ByteTexts
<1>6. j < 4 /\ 4 * k <= 3 * (i - j)
  BY <1>1, <1>4, <1>5 DEF TypeOK, DecodeInv
<1>7. q \in Seq(Sextets) /\ Len(q) = j + 1
  BY <1>3, <1>4, AppendTypes DEF TypeOK
<1>8. /\ s' = IF Len(q) = 4 THEN <<>> ELSE q
      /\ out' = IF Len(q) = 4 THEN out \o Group(q) ELSE out
  BY <1>2 DEF Gather
<1> HIDE DEF q
<1>9. CASE j = 3
  <2>1. Len(q) = 4
    BY <1>7, <1>9
  <2>2. Group(q) \in ByteTexts /\ Len(Group(q)) <= 3
    BY <1>7, <2>1, GroupBytes
  <2>3. PICK m \in Nat : m = Len(Group(q))
    BY <2>2 DEF ByteTexts
  <2>4. out' \in ByteTexts /\ Len(out') = k + m
    BY <1>5, <1>8, <2>1, <2>2, <2>3 DEF TypeOK, ByteTexts
  <2>5. s' = <<>>
    BY <1>8, <2>1
  <2>6. 4 * (k + m) <= 3 * (i' - 0)
    BY <1>1, <1>6, <1>9, <2>2, <2>3
  <2>7. Len(s') = 0 /\ s' \in Seq(Sextets)
    BY <2>5
  <2> QED BY <2>4, <2>6, <2>7
<1>10. CASE j # 3
  <2>1. Len(q) # 4 /\ j + 1 < 4
    BY <1>6, <1>7, <1>10
  <2>2. s' = q /\ out' = out
    BY <1>8, <2>1
  <2>3. 4 * k <= 3 * (i' - (j + 1))
    BY <1>1, <1>6
  <2> QED BY <1>5, <1>7, <2>1, <2>2, <2>3 DEF TypeOK
<1> QED BY <1>9, <1>10

LEMMA Reordered ==
  ASSUME NEW a \in Int, NEW b \in Int, NEW n \in Nat, n <= (b - a) + 3
  PROVE  a + n <= b + 3
OBVIOUS

LEMMA InitInv == Init => TypeOK /\ DecodeInv
BY JwtAssumption DEF Init, TypeOK, DecodeInv, NoItem, ByteTexts, Pad

LEMMA NextInv ==
  ASSUME TypeOK, DecodeInv, Next
  PROVE  TypeOK' /\ DecodeInv'
<1> USE DEF TypeOK, DecodeInv, place, sizes, result
<1>1. CASE NoToken
  BY <1>1 DEF NoToken
<1>2. CASE Split
  <2>1. first' \in 0 .. Len(token) /\ second' \in 0 .. Len(token)
    BY <1>2 DEF Split, Dots, ByteTexts
  <2> QED BY <1>2, <2>1 DEF Split
<1>3. CASE NoPayload
  BY <1>3 DEF NoPayload
<1>4. CASE Allocate
  <2>1. second - first \in Nat
    BY <1>4 DEF Allocate
  <2>2. /\ len' \in Nat /\ len' <= (second - first) + 3
        /\ dlen' \in Nat /\ 3 * len' <= 4 * dlen' + 3
    BY <1>4, <2>1, ExtendedSize DEF Allocate
  <2>3. UNCHANGED <<token, place, i, s, out, result>> /\ pc = "size"
          /\ pc' = "decode"
    BY <1>4 DEF Allocate
  <2>4. i = 0 /\ Len(out) = 0 /\ Len(s) = 0
    BY <2>3
  <2>5. first + len' <= second + 3
    <3>1. first \in Int /\ second \in Int
      OBVIOUS
    <3>2. len' \in Nat /\ len' <= (second - first) + 3
      BY <2>2
    <3> HIDE DEF TypeOK, DecodeInv
    <3> QED BY <3>1, <3>2, Reordered
  <2>6. TypeOK'
    BY <2>2, <2>3, <2>4
  <2>7. DecodeInv'
    <3>1. 4 * Len(out') <= 3 * (i' - Len(s'))
      BY <2>3, <2>4
    <3> QED BY <2>2, <2>3, <2>5, <3>1
  <2> QED BY <2>6, <2>7
<1>5. CASE AllocateFails
  BY <1>5 DEF AllocateFails
<1>6. CASE DecodeChar
  <2>1. UNCHANGED <<token, pc, place, sizes, result>> /\ pc = "decode"
          /\ i < len /\ i' = i + 1
    BY <1>6 DEF DecodeChar
  <2> QED BY <1>6, <2>1, GatherTypes
<1>7. CASE DecodeNothing
  BY <1>7, SMTT(30) DEF DecodeNothing
<1>8. CASE Lookup
  <2>1. dst'.text \in ByteTexts /\ ret' = Len(dst'.text)
    BY <1>8, ItemTypes DEF Lookup
  <2>2. ret' \in -1 .. Len(dst'.text)
    BY <2>1 DEF ByteTexts
  <2> QED BY <1>8, <2>1, <2>2 DEF Lookup
<1>9. CASE LookupAborts
  BY <1>9 DEF LookupAborts
<1> QED BY <1>1, <1>2, <1>3, <1>4, <1>5, <1>6, <1>7, <1>8, <1>9 DEF Next

LEMMA Inductive == Spec => [](TypeOK /\ DecodeInv)
<1>1. TypeOK /\ DecodeInv /\ UNCHANGED vars => TypeOK' /\ DecodeInv'
  BY DEF TypeOK, DecodeInv, vars, place, sizes, result
<1>2. TypeOK /\ DecodeInv /\ [Next]_vars => TypeOK' /\ DecodeInv'
  BY <1>1, NextInv
<1> QED BY InitInv, <1>2, PTL DEF Spec

(***************************************************************************)
(* Every variable of the function keeps its type: bytes are bytes, and at  *)
(* most three sextets wait.                                                *)
(***************************************************************************)
THEOREM TypeCorrect == Spec => []TypeOK
BY Inductive, PTL

(***************************************************************************)
(* b64_decode never writes behind the memory of payload, and leaves the    *)
(* zero at its end, whatever the token is.                                 *)
(***************************************************************************)
THEOREM NeverWritesBehind == Spec => []WritesInside
<1>1. TypeOK /\ DecodeInv => WritesInside
  BY DEF TypeOK, DecodeInv, WritesInside, ByteTexts
<1> QED BY Inductive, <1>1, PTL

(***************************************************************************)
(* b64_decode never reads behind the terminator of a token with a          *)
(* signature, whatever else the token is.                                  *)
(***************************************************************************)
THEOREM NeverReadsBehind == Spec => []ReadsInside
<1>1. TypeOK /\ DecodeInv => ReadsInside
  <2> SUFFICES ASSUME TypeOK, DecodeInv, pc = "decode", i < len,
                      second + 1 < Len(token)
               PROVE  first + i <= Len(token)
    BY DEF ReadsInside
  <2>1. /\ first + len <= second + 3 /\ second \in Int /\ first \in Int
        /\ len \in Int /\ i \in Int
    BY DEF TypeOK, DecodeInv
  <2>2. Len(token) \in Int
    BY DEF TypeOK, DecodeInv, ByteTexts
  <2> QED BY <2>1, <2>2
<1> QED BY Inductive, <1>1, PTL
-----------------------------------------------------------------------------
\* The bits of sextets and bytes.

LEMMA BitWeights ==
  ASSUME NEW v \in Nat
  PROVE  /\ Bit(v, 6, 0) = (v \div 32) % 2 /\ Bit(v, 6, 1) = (v \div 16) % 2
         /\ Bit(v, 6, 2) = (v \div 8) % 2 /\ Bit(v, 6, 3) = (v \div 4) % 2
         /\ Bit(v, 6, 4) = (v \div 2) % 2 /\ Bit(v, 6, 5) = v % 2
         /\ Bit(v, 8, 0) = (v \div 128) % 2 /\ Bit(v, 8, 1) = (v \div 64) % 2
         /\ Bit(v, 8, 2) = (v \div 32) % 2 /\ Bit(v, 8, 3) = (v \div 16) % 2
         /\ Bit(v, 8, 4) = (v \div 8) % 2 /\ Bit(v, 8, 5) = (v \div 4) % 2
         /\ Bit(v, 8, 6) = (v \div 2) % 2 /\ Bit(v, 8, 7) = v % 2
BY DEF Bit

LEMMA SextetBits ==
  ASSUME NEW v \in 0 .. 63
  PROVE  /\ \A u \in 0 .. 5 : Bit(v, 6, u) \in 0 .. 1
         /\ v = 32 * Bit(v, 6, 0) + 16 * Bit(v, 6, 1) + 8 * Bit(v, 6, 2)
                  + 4 * Bit(v, 6, 3) + 2 * Bit(v, 6, 4) + Bit(v, 6, 5)
         /\ (v \div 16) % 4 = 2 * Bit(v, 6, 0) + Bit(v, 6, 1)
         /\ v % 16 = 8 * Bit(v, 6, 2) + 4 * Bit(v, 6, 3)
                       + 2 * Bit(v, 6, 4) + Bit(v, 6, 5)
         /\ (v \div 4) % 16 = 8 * Bit(v, 6, 0) + 4 * Bit(v, 6, 1)
                                + 2 * Bit(v, 6, 2) + Bit(v, 6, 3)
         /\ v % 4 = 2 * Bit(v, 6, 4) + Bit(v, 6, 5)
<1> DEFINE b0 == (v \div 32) % 2  b1 == (v \div 16) % 2  b2 == (v \div 8) % 2
           b3 == (v \div 4) % 2  b4 == (v \div 2) % 2  b5 == v % 2
<1>1. /\ Bit(v, 6, 0) = b0 /\ Bit(v, 6, 1) = b1 /\ Bit(v, 6, 2) = b2
      /\ Bit(v, 6, 3) = b3 /\ Bit(v, 6, 4) = b4 /\ Bit(v, 6, 5) = b5
  <2>1. v \in Nat
    OBVIOUS
  <2> QED BY <2>1, BitWeights
<1>2. /\ b0 \in 0 .. 1 /\ b1 \in 0 .. 1 /\ b2 \in 0 .. 1
      /\ b3 \in 0 .. 1 /\ b4 \in 0 .. 1 /\ b5 \in 0 .. 1
  OBVIOUS
<1>3. v = 32 * b0 + 16 * b1 + 8 * b2 + 4 * b3 + 2 * b4 + b5
  OBVIOUS
<1> HIDE DEF b0, b1, b2, b3, b4, b5
<1>4. /\ (v \div 16) % 4 = 2 * b0 + b1
      /\ v % 16 = 8 * b2 + 4 * b3 + 2 * b4 + b5
      /\ (v \div 4) % 16 = 8 * b0 + 4 * b1 + 2 * b2 + b3
      /\ v % 4 = 2 * b4 + b5
  BY <1>2, <1>3
<1>5. \A u \in 0 .. 5 : u = 0 \/ u = 1 \/ u = 2 \/ u = 3 \/ u = 4 \/ u = 5
  OBVIOUS
<1>6. \A u \in 0 .. 5 : Bit(v, 6, u) \in 0 .. 1
  BY <1>1, <1>2, <1>5
<1> QED BY <1>1, <1>3, <1>4, <1>6

LEMMA ByteBits ==
  ASSUME NEW v \in Byte
  PROVE  v = 128 * Bit(v, 8, 0) + 64 * Bit(v, 8, 1) + 32 * Bit(v, 8, 2)
               + 16 * Bit(v, 8, 3) + 8 * Bit(v, 8, 4) + 4 * Bit(v, 8, 5)
               + 2 * Bit(v, 8, 6) + Bit(v, 8, 7)
<1>1. v \in 0 .. 255 /\ v \in Nat
  BY DEF Byte
<1> DEFINE b0 == (v \div 128) % 2  b1 == (v \div 64) % 2
           b2 == (v \div 32) % 2   b3 == (v \div 16) % 2
           b4 == (v \div 8) % 2    b5 == (v \div 4) % 2
           b6 == (v \div 2) % 2    b7 == v % 2
<1>2. v = 128 * b0 + 64 * b1 + 32 * b2 + 16 * b3 + 8 * b4 + 4 * b5 + 2 * b6 + b7
  BY <1>1, SMTT(30)
<1> HIDE DEF b0, b1, b2, b3, b4, b5, b6, b7
<1>3. /\ Bit(v, 8, 0) = b0 /\ Bit(v, 8, 1) = b1 /\ Bit(v, 8, 2) = b2
      /\ Bit(v, 8, 3) = b3 /\ Bit(v, 8, 4) = b4 /\ Bit(v, 8, 5) = b5
      /\ Bit(v, 8, 6) = b6 /\ Bit(v, 8, 7) = b7
  BY <1>1, BitWeights DEF b0, b1, b2, b3, b4, b5, b6, b7
<1> QED BY <1>2, <1>3

\* Sextets that hold the bits of three bytes give those bytes.
LEMMA FirstByte ==
  ASSUME NEW p \in 0 .. 63, NEW q \in 0 .. 63, NEW v \in Byte,
         Bit(v, 8, 0) = Bit(p, 6, 0), Bit(v, 8, 1) = Bit(p, 6, 1),
         Bit(v, 8, 2) = Bit(p, 6, 2), Bit(v, 8, 3) = Bit(p, 6, 3),
         Bit(v, 8, 4) = Bit(p, 6, 4), Bit(v, 8, 5) = Bit(p, 6, 5),
         Bit(v, 8, 6) = Bit(q, 6, 0), Bit(v, 8, 7) = Bit(q, 6, 1)
  PROVE  First(p, q) = v
<1>1. /\ Bit(p, 6, 0) \in 0 .. 1 /\ Bit(p, 6, 1) \in 0 .. 1
      /\ Bit(p, 6, 2) \in 0 .. 1 /\ Bit(p, 6, 3) \in 0 .. 1
      /\ Bit(p, 6, 4) \in 0 .. 1 /\ Bit(p, 6, 5) \in 0 .. 1
      /\ Bit(q, 6, 0) \in 0 .. 1 /\ Bit(q, 6, 1) \in 0 .. 1
  BY SextetBits
<1>2. p = 32 * Bit(p, 6, 0) + 16 * Bit(p, 6, 1) + 8 * Bit(p, 6, 2)
            + 4 * Bit(p, 6, 3) + 2 * Bit(p, 6, 4) + Bit(p, 6, 5)
  BY SextetBits
<1>3. (q \div 16) % 4 = 2 * Bit(q, 6, 0) + Bit(q, 6, 1)
  BY SextetBits
<1>4. v = 128 * Bit(p, 6, 0) + 64 * Bit(p, 6, 1) + 32 * Bit(p, 6, 2)
            + 16 * Bit(p, 6, 3) + 8 * Bit(p, 6, 4) + 4 * Bit(p, 6, 5)
            + 2 * Bit(q, 6, 0) + Bit(q, 6, 1)
  BY ByteBits
<1>5. PICK a \in 0 .. 1, b \in 0 .. 1, c \in 0 .. 1, d \in 0 .. 1,
           e \in 0 .. 1, f \in 0 .. 1, g \in 0 .. 1, h \in 0 .. 1 :
        /\ a = Bit(p, 6, 0) /\ b = Bit(p, 6, 1)
        /\ c = Bit(p, 6, 2) /\ d = Bit(p, 6, 3)
        /\ e = Bit(p, 6, 4) /\ f = Bit(p, 6, 5)
        /\ g = Bit(q, 6, 0) /\ h = Bit(q, 6, 1)
  BY <1>1
<1>6. /\ p = 32 * a + 16 * b + 8 * c + 4 * d + 2 * e + f /\ (q \div 16) % 4 = 2 * g + h
      /\ v = 128 * a + 64 * b + 32 * c + 16 * d + 8 * e + 4 * f + 2 * g + h
  BY <1>2, <1>3, <1>4, <1>5
<1> QED BY <1>6 DEF First

LEMMA SecondByte ==
  ASSUME NEW p \in 0 .. 63, NEW q \in 0 .. 63, NEW v \in Byte,
         Bit(v, 8, 0) = Bit(p, 6, 2), Bit(v, 8, 1) = Bit(p, 6, 3),
         Bit(v, 8, 2) = Bit(p, 6, 4), Bit(v, 8, 3) = Bit(p, 6, 5),
         Bit(v, 8, 4) = Bit(q, 6, 0), Bit(v, 8, 5) = Bit(q, 6, 1),
         Bit(v, 8, 6) = Bit(q, 6, 2), Bit(v, 8, 7) = Bit(q, 6, 3)
  PROVE  Second(p, q) = v
<1>1. /\ Bit(p, 6, 2) \in 0 .. 1 /\ Bit(p, 6, 3) \in 0 .. 1
      /\ Bit(p, 6, 4) \in 0 .. 1 /\ Bit(p, 6, 5) \in 0 .. 1
      /\ Bit(q, 6, 0) \in 0 .. 1 /\ Bit(q, 6, 1) \in 0 .. 1
      /\ Bit(q, 6, 2) \in 0 .. 1 /\ Bit(q, 6, 3) \in 0 .. 1
  BY SextetBits
<1>2. p % 16 = 8 * Bit(p, 6, 2) + 4 * Bit(p, 6, 3) + 2 * Bit(p, 6, 4) + Bit(p, 6, 5)
  BY SextetBits
<1>3. (q \div 4) % 16 = 8 * Bit(q, 6, 0) + 4 * Bit(q, 6, 1)
                          + 2 * Bit(q, 6, 2) + Bit(q, 6, 3)
  BY SextetBits
<1>4. v = 128 * Bit(p, 6, 2) + 64 * Bit(p, 6, 3) + 32 * Bit(p, 6, 4)
            + 16 * Bit(p, 6, 5) + 8 * Bit(q, 6, 0) + 4 * Bit(q, 6, 1)
            + 2 * Bit(q, 6, 2) + Bit(q, 6, 3)
  BY ByteBits
<1>5. PICK a \in 0 .. 1, b \in 0 .. 1, c \in 0 .. 1, d \in 0 .. 1,
           e \in 0 .. 1, f \in 0 .. 1, g \in 0 .. 1, h \in 0 .. 1 :
        /\ a = Bit(p, 6, 2) /\ b = Bit(p, 6, 3)
        /\ c = Bit(p, 6, 4) /\ d = Bit(p, 6, 5)
        /\ e = Bit(q, 6, 0) /\ f = Bit(q, 6, 1)
        /\ g = Bit(q, 6, 2) /\ h = Bit(q, 6, 3)
  BY <1>1
<1>6. /\ p % 16 = 8 * a + 4 * b + 2 * c + d /\ (q \div 4) % 16 = 8 * e + 4 * f + 2 * g + h
      /\ v = 128 * a + 64 * b + 32 * c + 16 * d + 8 * e + 4 * f + 2 * g + h
  BY <1>2, <1>3, <1>4, <1>5
<1> QED BY <1>6 DEF Second

LEMMA ThirdByte ==
  ASSUME NEW p \in 0 .. 63, NEW q \in 0 .. 63, NEW v \in Byte,
         Bit(v, 8, 0) = Bit(p, 6, 4), Bit(v, 8, 1) = Bit(p, 6, 5),
         Bit(v, 8, 2) = Bit(q, 6, 0), Bit(v, 8, 3) = Bit(q, 6, 1),
         Bit(v, 8, 4) = Bit(q, 6, 2), Bit(v, 8, 5) = Bit(q, 6, 3),
         Bit(v, 8, 6) = Bit(q, 6, 4), Bit(v, 8, 7) = Bit(q, 6, 5)
  PROVE  Third(p, q) = v
<1>1. /\ Bit(p, 6, 4) \in 0 .. 1 /\ Bit(p, 6, 5) \in 0 .. 1
      /\ Bit(q, 6, 0) \in 0 .. 1 /\ Bit(q, 6, 1) \in 0 .. 1
      /\ Bit(q, 6, 2) \in 0 .. 1 /\ Bit(q, 6, 3) \in 0 .. 1
      /\ Bit(q, 6, 4) \in 0 .. 1 /\ Bit(q, 6, 5) \in 0 .. 1
  BY SextetBits
<1>2. p % 4 = 2 * Bit(p, 6, 4) + Bit(p, 6, 5)
  BY SextetBits
<1>3. q = 32 * Bit(q, 6, 0) + 16 * Bit(q, 6, 1) + 8 * Bit(q, 6, 2)
            + 4 * Bit(q, 6, 3) + 2 * Bit(q, 6, 4) + Bit(q, 6, 5)
  BY SextetBits
<1>4. v = 128 * Bit(p, 6, 4) + 64 * Bit(p, 6, 5) + 32 * Bit(q, 6, 0)
            + 16 * Bit(q, 6, 1) + 8 * Bit(q, 6, 2) + 4 * Bit(q, 6, 3)
            + 2 * Bit(q, 6, 4) + Bit(q, 6, 5)
  BY ByteBits
<1>5. PICK a \in 0 .. 1, b \in 0 .. 1, c \in 0 .. 1, d \in 0 .. 1,
           e \in 0 .. 1, f \in 0 .. 1, g \in 0 .. 1, h \in 0 .. 1 :
        /\ a = Bit(p, 6, 4) /\ b = Bit(p, 6, 5)
        /\ c = Bit(q, 6, 0) /\ d = Bit(q, 6, 1)
        /\ e = Bit(q, 6, 2) /\ f = Bit(q, 6, 3)
        /\ g = Bit(q, 6, 4) /\ h = Bit(q, 6, 5)
  BY <1>1
<1>6. /\ p % 4 = 2 * a + b /\ q = 32 * c + 16 * d + 8 * e + 4 * f + 2 * g + h
      /\ v = 128 * a + 64 * b + 32 * c + 16 * d + 8 * e + 4 * f + 2 * g + h
  BY <1>2, <1>3, <1>4, <1>5
<1> QED BY <1>6 DEF Third

\* The sextet and the byte at a position, zero behind the end.
Val(c, k) == IF k <= Len(c) THEN UrlValue(c[k]) ELSE 0
ByteAt(d, k) == IF k <= Len(d) THEN d[k] ELSE 0

LEMMA LetterValue ==
  ASSUME NEW ch \in UrlLetters
  PROVE  /\ ch \in Int /\ UrlValue(ch) \in 0 .. 63
         /\ ch \notin {Minus, Underscore} => UrlValue(ch) = b64_int(ch)
BY DEF UrlLetters, UrlValue, b64_int, Minus, Underscore, Pad

LEMMA ZeroBits ==
  /\ \A u \in 0 .. 5 : Bit(0, 6, u) = 0
  /\ \A u \in 0 .. 7 : Bit(0, 8, u) = 0
<1>1. /\ \A u \in 0 .. 5 : u = 0 \/ u = 1 \/ u = 2 \/ u = 3 \/ u = 4 \/ u = 5
      /\ \A u \in 0 .. 7 : \/ u = 0 \/ u = 1 \/ u = 2 \/ u = 3
                           \/ u = 4 \/ u = 5 \/ u = 6 \/ u = 7
  OBVIOUS
<1>2. /\ Bit(0, 6, 0) = 0 /\ Bit(0, 6, 1) = 0 /\ Bit(0, 6, 2) = 0
      /\ Bit(0, 6, 3) = 0 /\ Bit(0, 6, 4) = 0 /\ Bit(0, 6, 5) = 0
      /\ Bit(0, 8, 0) = 0 /\ Bit(0, 8, 1) = 0 /\ Bit(0, 8, 2) = 0
      /\ Bit(0, 8, 3) = 0 /\ Bit(0, 8, 4) = 0 /\ Bit(0, 8, 5) = 0
      /\ Bit(0, 8, 6) = 0 /\ Bit(0, 8, 7) = 0
  BY DEF Bit
<1> QED BY <1>1, <1>2

\* How long the text of an object is.
LEMMA UrlLength ==
  ASSUME NEW D \in Nat, NEW n, n = (4 * D + 2) \div 3
  PROVE  /\ n \in Nat /\ 3 * n >= 4 * D /\ n % 4 # 1
         /\ D # 0 => n > 0
         /\ n % 4 = 0 => 4 * D = 3 * n
         /\ n % 4 = 2 => 4 * D = 3 * n - 2
         /\ n % 4 = 3 => 4 * D = 3 * n - 1
OBVIOUS

\* The n-th bit of the letters is the n-th bit of the bytes, wherever one looks.
LEMMA SameBit ==
  ASSUME NEW c \in ByteTexts, NEW d \in ByteTexts, IsBase64Url(c, d),
         NEW k \in Nat \ {0}, NEW u \in 0 .. 5,
         NEW j \in Nat \ {0}, NEW w \in 0 .. 7, 6 * k + u = 8 * j + w - 2
  PROVE  Bit(ByteAt(d, j), 8, w) = Bit(Val(c, k), 6, u)
<1> DEFINE values == [n \in DOMAIN c |-> UrlValue(c[n])]  t == 6 * (k - 1) + u
<1>1. /\ Len(c) \in Nat /\ Len(d) \in Nat /\ DOMAIN c = 1 .. Len(c)
      /\ Len(c) = (4 * Len(d) + 2) \div 3
  BY DEF ByteTexts, IsBase64Url
<1>2. \A n \in 0 .. 6 * Len(c) - 1 : BitOf(values, 6, n) = BitOf(d, 8, n)
  BY DEF IsBase64Url
<1>3. /\ t \in Nat /\ t = 8 * (j - 1) + w
      /\ t \div 6 = k - 1 /\ t % 6 = u /\ t \div 8 = j - 1 /\ t % 8 = w
  OBVIOUS
<1>4. Len(values) = Len(c) /\ \A n \in 1 .. Len(c) : values[n] = UrlValue(c[n])
  BY <1>1
<1> HIDE DEF values, t
<1>5. BitOf(values, 6, t) = Bit(Val(c, k), 6, u)
  <2>1. CASE k <= Len(c)
    <3>1. t \div 6 < Len(values) /\ t \div 6 + 1 = k /\ k \in 1 .. Len(c)
      BY <1>1, <1>3, <1>4, <2>1
    <3>2. BitOf(values, 6, t) = Bit(values[k], 6, u)
      BY <1>3, <3>1 DEF BitOf
    <3> QED BY <1>4, <2>1, <3>1, <3>2 DEF Val
  <2>2. CASE ~ (k <= Len(c))
    <3>1. ~ (t \div 6 < Len(values))
      BY <1>1, <1>3, <1>4, <2>2
    <3>2. BitOf(values, 6, t) = 0 /\ Val(c, k) = 0
      BY <2>2, <3>1 DEF BitOf, Val
    <3> QED BY <3>2, ZeroBits
  <2> QED BY <2>1, <2>2
<1>6. BitOf(d, 8, t) = Bit(ByteAt(d, j), 8, w)
  <2>1. CASE j <= Len(d)
    <3>1. t \div 8 < Len(d) /\ t \div 8 + 1 = j
      BY <1>1, <1>3, <2>1
    <3> QED BY <1>3, <2>1, <3>1 DEF BitOf, ByteAt
  <2>2. CASE ~ (j <= Len(d))
    <3>1. ~ (t \div 8 < Len(d))
      BY <1>1, <1>3, <2>2
    <3>2. BitOf(d, 8, t) = 0 /\ ByteAt(d, j) = 0
      BY <2>2, <3>1 DEF BitOf, ByteAt
    <3> QED BY <3>2, ZeroBits
  <2> QED BY <2>1, <2>2
<1>7. BitOf(values, 6, t) = BitOf(d, 8, t)
  <2>1. CASE t < 6 * Len(c)
    <3>1. t \in 0 .. 6 * Len(c) - 1
      BY <1>1, <1>3, <2>1
    <3> QED BY <1>2, <3>1
  <2>2. CASE ~ (t < 6 * Len(c))
    <3>1. 3 * Len(c) >= 4 * Len(d)
      BY <1>1, UrlLength
    <3>2. ~ (t \div 6 < Len(values)) /\ ~ (t \div 8 < Len(d))
      BY <1>1, <1>3, <1>4, <2>2, <3>1
    <3> QED BY <3>2 DEF BitOf
  <2> QED BY <2>1, <2>2
<1> QED BY <1>5, <1>6, <1>7

LEMMA ValTypes ==
  ASSUME NEW c \in ByteTexts, NEW d \in ByteTexts, IsBase64Url(c, d),
         NEW k \in Nat \ {0}
  PROVE  Val(c, k) \in 0 .. 63 /\ ByteAt(d, k) \in Byte
<1>1. Len(c) \in Nat /\ Len(d) \in Nat /\ 0 \in Byte
  BY DEF ByteTexts, Byte
<1>2. k <= Len(c) => c[k] \in UrlLetters
  BY <1>1 DEF IsBase64Url, ByteTexts
<1>3. k <= Len(d) => d[k] \in Byte
  BY <1>1 DEF ByteTexts
<1>4. Val(c, k) \in 0 .. 63
  <2>1. CASE k <= Len(c)
    <3>1. Val(c, k) = UrlValue(c[k])
      BY <2>1 DEF Val
    <3>2. UrlValue(c[k]) \in 0 .. 63
      BY <1>2, <2>1, LetterValue
    <3> QED BY <3>1, <3>2
  <2>2. CASE ~ (k <= Len(c))
    BY <2>2 DEF Val
  <2> QED BY <2>1, <2>2
<1>5. ByteAt(d, k) \in Byte
  BY <1>1, <1>3 DEF ByteAt
<1> QED BY <1>4, <1>5

\* Four letters on give three bytes on.
LEMMA FourLetters ==
  ASSUME NEW c \in ByteTexts, NEW d \in ByteTexts, IsBase64Url(c, d),
         NEW h \in Nat, NEW p, NEW q, NEW r, NEW s4, NEW x, NEW y, NEW z,
         p = Val(c, 4 * h + 1), q = Val(c, 4 * h + 2),
         r = Val(c, 4 * h + 3), s4 = Val(c, 4 * h + 4),
         x = ByteAt(d, 3 * h + 1), y = ByteAt(d, 3 * h + 2),
         z = ByteAt(d, 3 * h + 3)
  PROVE  /\ p \in 0 .. 63 /\ q \in 0 .. 63 /\ r \in 0 .. 63 /\ s4 \in 0 .. 63
         /\ x \in Byte /\ y \in Byte /\ z \in Byte
         /\ First(p, q) = x /\ Second(q, r) = y /\ Third(r, s4) = z
<1>1. /\ 4 * h + 1 \in Nat \ {0} /\ 4 * h + 2 \in Nat \ {0}
      /\ 4 * h + 3 \in Nat \ {0} /\ 4 * h + 4 \in Nat \ {0}
      /\ 3 * h + 1 \in Nat \ {0} /\ 3 * h + 2 \in Nat \ {0}
      /\ 3 * h + 3 \in Nat \ {0}
  OBVIOUS
<1>2. /\ p \in 0 .. 63 /\ q \in 0 .. 63 /\ r \in 0 .. 63 /\ s4 \in 0 .. 63
      /\ x \in Byte /\ y \in Byte /\ z \in Byte
  <2>1. \A k \in Nat \ {0} : Val(c, k) \in 0 .. 63 /\ ByteAt(d, k) \in Byte
    BY ValTypes, Zenon
  <2> QED BY <1>1, <2>1, Zenon
<1>3. ASSUME NEW j \in {1, 2, 3}, NEW w \in 0 .. 7,
             NEW k \in {1, 2, 3, 4}, NEW u \in 0 .. 5, 6 * k + u = 8 * j + w - 2
      PROVE  Bit(ByteAt(d, 3 * h + j), 8, w) = Bit(Val(c, 4 * h + k), 6, u)
  <2>1. /\ 4 * h + k \in Nat \ {0} /\ 3 * h + j \in Nat \ {0}
        /\ 6 * (4 * h + k) + u = 8 * (3 * h + j) + w - 2
    BY <1>3
  <2> QED BY <2>1, SameBit
<1>4. /\ Bit(x, 8, 0) = Bit(p, 6, 0) /\ Bit(x, 8, 1) = Bit(p, 6, 1)
      /\ Bit(x, 8, 2) = Bit(p, 6, 2) /\ Bit(x, 8, 3) = Bit(p, 6, 3)
      /\ Bit(x, 8, 4) = Bit(p, 6, 4) /\ Bit(x, 8, 5) = Bit(p, 6, 5)
      /\ Bit(x, 8, 6) = Bit(q, 6, 0) /\ Bit(x, 8, 7) = Bit(q, 6, 1)
  BY <1>3
<1>5. /\ Bit(y, 8, 0) = Bit(q, 6, 2) /\ Bit(y, 8, 1) = Bit(q, 6, 3)
      /\ Bit(y, 8, 2) = Bit(q, 6, 4) /\ Bit(y, 8, 3) = Bit(q, 6, 5)
      /\ Bit(y, 8, 4) = Bit(r, 6, 0) /\ Bit(y, 8, 5) = Bit(r, 6, 1)
      /\ Bit(y, 8, 6) = Bit(r, 6, 2) /\ Bit(y, 8, 7) = Bit(r, 6, 3)
  BY <1>3
<1>6. /\ Bit(z, 8, 0) = Bit(r, 6, 4) /\ Bit(z, 8, 1) = Bit(r, 6, 5)
      /\ Bit(z, 8, 2) = Bit(s4, 6, 0) /\ Bit(z, 8, 3) = Bit(s4, 6, 1)
      /\ Bit(z, 8, 4) = Bit(s4, 6, 2) /\ Bit(z, 8, 5) = Bit(s4, 6, 3)
      /\ Bit(z, 8, 6) = Bit(s4, 6, 4) /\ Bit(z, 8, 7) = Bit(s4, 6, 5)
  BY <1>3
<1>7. First(p, q) = x
  BY <1>2, <1>4, FirstByte, Zenon
<1>8. Second(q, r) = y
  BY <1>2, <1>5, SecondByte, Zenon
<1>9. Third(r, s4) = z
  BY <1>2, <1>6, ThirdByte, Zenon
<1> QED BY <1>2, <1>7, <1>8, <1>9
-----------------------------------------------------------------------------
\* A group of sextets that are those of the letters, or zeros behind them.

LEMMA GroupOfLetters ==
  ASSUME NEW c \in ByteTexts, NEW d \in ByteTexts, IsBase64Url(c, d),
         NEW h \in Nat, NEW g \in Seq(Sextets), Len(g) = 4,
         g[1] = Val(c, 4 * h + 1), g[2] = Val(c, 4 * h + 2),
         g[3] = Val(c, 4 * h + 3),
         NEW G, G = Group(g)
  PROVE  /\ G \in ByteTexts /\ Len(G) \in 2 .. 3
         /\ G[1] = ByteAt(d, 3 * h + 1) /\ G[2] = ByteAt(d, 3 * h + 2)
         /\ g[4] = Val(c, 4 * h + 4) =>
              Len(G) = 3 /\ G[3] = ByteAt(d, 3 * h + 3)
<1> DEFINE p == g[1]  q == g[2]  r == g[3]  v == Val(c, 4 * h + 4)
           x == ByteAt(d, 3 * h + 1)  y == ByteAt(d, 3 * h + 2)
           z == ByteAt(d, 3 * h + 3)
<1>1. /\ p \in 0 .. 63 /\ q \in 0 .. 63 /\ r \in 0 .. 63 /\ v \in 0 .. 63
      /\ First(p, q) = x /\ Second(q, r) = y /\ Third(r, v) = z
  BY FourLetters
<1>2. Group(g) =
        IF g[3] = Pad THEN <<x>>
        ELSE IF g[4] = Pad THEN <<x, y>> ELSE <<x, y, Third(r, g[4])>>
  BY <1>1, GroupGives
<1>3. r # Pad /\ v # Pad
  <2>1. r \in 0 .. 63 /\ v \in 0 .. 63
    BY <1>1
  <2> HIDE DEF r, v
  <2> QED BY <2>1 DEF Pad
<1> HIDE DEF x, y, z, v
<1>4. \/ G = <<x, y>> /\ g[4] # v
      \/ G = <<x, y, Third(r, g[4])>>
  BY <1>2, <1>3
<1>5. G \in ByteTexts
  BY GroupBytes
<1>6. Len(G) \in 2 .. 3 /\ G[1] = x /\ G[2] = y
  BY <1>4
<1>7. g[4] = v => Len(G) = 3 /\ G[3] = z
  BY <1>1, <1>4
<1> QED BY <1>5, <1>6, <1>7 DEF x, y, z, v

\* The part of the token that is the payload.
Part == SubSeq(token, first + 1, second)

LEMMA PartIs ==
  ASSUME TypeOK, NEW d \in DOMAIN Docs, SplitFor(d)
  PROVE  /\ token \in ByteTexts /\ Part \in ByteTexts /\ d \in ByteTexts
         /\ IsBase64Url(Part, d)
         /\ first \in Nat /\ second \in Nat /\ Len(token) \in Nat
         /\ first <= second /\ second < Len(token) /\ At(second) = Dot
         /\ Len(Part) = second - first /\ Len(Part) \in Nat
         /\ \A k \in 1 .. Len(Part) : Part[k] = At(first + k - 1)
<1>1. /\ first \in Nat /\ second \in Nat /\ first <= second
      /\ second < Len(token) /\ At(second) = Dot /\ first > 0
      /\ IsBase64Url(Part, d) /\ d \in ByteTexts
  BY JwtAssumption DEF TypeOK, SplitFor, Part
<1>2. token \in ByteTexts /\ Len(token) \in Nat
  <2>1. token # NULL
    <3>1. Len(NULL) = 1
      BY DEF NULL
    <3>2. Len(token) # 1
      BY <1>1
    <3> QED BY <3>1, <3>2
  <2>2. token \in ByteTexts
    BY <2>1 DEF TypeOK
  <2> QED BY <2>2 DEF ByteTexts
<1>3. \A k \in first + 1 .. second : token[k] \in Byte
  BY <1>1, <1>2 DEF ByteTexts
<1>4. /\ Part \in Seq(Byte)
      /\ Len(Part) = IF first + 1 <= second THEN second - (first + 1) + 1 ELSE 0
      /\ \A k \in 1 .. second - (first + 1) + 1 : Part[k] = token[first + 1 + k - 1]
  <2>1. token \in Seq(Byte)
    BY <1>2 DEF ByteTexts
  <2>2. first + 1 \in 1 .. Len(token) + 1 /\ second \in 0 .. Len(token)
    BY <1>1, <1>2
  <2> QED BY <1>1, <1>3, <2>1, <2>2, SubSeqProperties DEF Part
<1>5. Len(Part) = second - first
  BY <1>1, <1>4
<1>6. \A k \in 1 .. Len(Part) : Part[k] = At(first + k - 1)
  <2> SUFFICES ASSUME NEW k \in 1 .. Len(Part)
               PROVE  Part[k] = At(first + k - 1)
    OBVIOUS
  <2>1. k \in 1 .. second - (first + 1) + 1 /\ first + 1 + k - 1 = first + k - 1 + 1
    BY <1>1, <1>5
  <2> QED BY <1>4, <2>1 DEF At
<1> QED BY <1>1, <1>2, <1>4, <1>5, <1>6 DEF ByteTexts

\* What is read within the payload and at the dot behind it.
LEMMA SextetIs ==
  ASSUME TypeOK, NEW d \in DOMAIN Docs, SplitFor(d), Common,
         NEW k \in 1 .. Len(Part) + 1
  PROVE  SextetsAt(first + k - 1) = {Val(Part, k)}
<1>1. /\ first \in Nat /\ second \in Nat /\ Len(token) \in Nat
      /\ second < Len(token) /\ At(second) = Dot
      /\ Len(Part) = second - first /\ Len(Part) \in Nat
      /\ Part \in ByteTexts /\ IsBase64Url(Part, d)
      /\ \A n \in 1 .. Len(Part) : Part[n] = At(first + n - 1)
  BY PartIs
<1>2. SextetsAt(first + k - 1) = {b64_int(At(first + k - 1))}
  BY <1>1 DEF SextetsAt
<1>3. CASE k <= Len(Part)
  <2>1. /\ k \in 1 .. Len(Part) /\ first + k - 1 \in first .. second - 1
        /\ Part[k] = At(first + k - 1)
    BY <1>1, <1>3
  <2>2. Part[k] \notin {Minus, Underscore}
    BY <2>1 DEF Common
  <2>3. Part[k] \in UrlLetters
    BY <1>1, <2>1 DEF IsBase64Url, ByteTexts
  <2>4. UrlValue(Part[k]) = b64_int(Part[k])
    BY <2>2, <2>3, LetterValue
  <2> QED BY <1>2, <1>3, <2>1, <2>4 DEF Val
<1>4. CASE k = Len(Part) + 1
  <2>1. first + k - 1 = second /\ Val(Part, k) = 0
    BY <1>1, <1>4 DEF Val
  <2>2. b64_int(Dot) = 0
    BY DEF b64_int, Dot
  <2> QED BY <1>1, <1>2, <2>1, <2>2
<1> QED BY <1>1, <1>3, <1>4
-----------------------------------------------------------------------------
\* Where the loop of b64_decode is.

LEMMA StartsDecoded ==
  ASSUME TypeOK, DecodeInv, Allocate, NEW d
  PROVE  DecodedFor(d)'
<1>1. /\ pc = "size" /\ second - first \in Nat \ {0}
      /\ len' = Extended(second - first)
      /\ UNCHANGED <<first, second, i, s, out>>
  BY DEF Allocate, place, TypeOK
<1>2. i = 0 /\ s = <<>> /\ out = <<>>
  BY <1>1 DEF DecodeInv
<1>3. /\ i' = 0 /\ s' = <<>> /\ out' = <<>> /\ Len(s') = 0 /\ Len(out') = 0
      /\ first' = first /\ second' = second
  BY <1>1, <1>2
<1> QED BY <1>1, <1>3 DEF DecodedFor

\* How far it is, four characters at a time, when a group is complete.
LEMMA GroupPlace ==
  ASSUME NEW D \in Nat, NEW n \in Nat, n = (4 * D + 2) \div 3,
         NEW at \in Nat, at % 4 = 3, at < n + (n % 4)
  PROVE  \E h \in Nat :
           /\ at = 4 * h + 3
           /\ \/ 4 * h + 4 <= n
              \/ n = 4 * h + 3 /\ D = 3 * h + 2
              \/ n = 4 * h + 2 /\ D = 3 * h + 1
<1>1. at \div 4 \in Nat /\ at = 4 * (at \div 4) + 3
  OBVIOUS
<1>2. PICK h \in Nat : at = 4 * h + 3
  BY <1>1
<1>3. n % 4 # 1
  BY UrlLength
<1>4. \/ 4 * h + 4 <= n
      \/ n = 4 * h + 3
      \/ n = 4 * h + 2
  BY <1>2, <1>3
<1>5. n = 4 * h + 3 => D = 3 * h + 2
  OBVIOUS
<1>6. n = 4 * h + 2 => D = 3 * h + 1
  OBVIOUS
<1> QED BY <1>2, <1>4, <1>5, <1>6

\* The bytes written are those of d, as far as d goes.
Agree(o, d, n) == \A k \in 1 .. n : k <= Len(d) => o[k] = d[k]
Written(o, d) == Agree(o, d, Len(o))

\* A group is complete at the letters 4h + 1 .. 4h + 4 of n, for D bytes.
GroupAt(h, n, D) ==
  \/ 4 * h + 4 <= n
  \/ n = 4 * h + 3 /\ D = 3 * h + 2
  \/ n = 4 * h + 2 /\ D = 3 * h + 1

\* Its sextets; the last is anything where the dot is the third.
GroupIs(g, c, h) ==
  /\ g \in Seq(Sextets) /\ Len(g) = 4
  /\ g[1] = Val(c, 4 * h + 1) /\ g[2] = Val(c, 4 * h + 2)
  /\ g[3] = Val(c, 4 * h + 3)
  /\ Len(c) # 4 * h + 2 => g[4] = Val(c, 4 * h + 4)

\* The bytes after one more group, of two or three bytes.
LEMMA ThreeMore ==
  ASSUME NEW d, NEW D \in Nat, NEW O, NEW L \in Nat, NEW h \in Nat, NEW n \in Nat,
         D = Len(d), L = 3 * h + 2 \/ L = 3 * h + 3,
         Agree(O, d, 3 * h),
         O[3 * h + 1] = ByteAt(d, 3 * h + 1), O[3 * h + 2] = ByteAt(d, 3 * h + 2),
         n # 4 * h + 2 => L = 3 * h + 3 /\ O[3 * h + 3] = ByteAt(d, 3 * h + 3),
         GroupAt(h, n, D)
  PROVE  /\ Agree(O, d, L)
         /\ IF 4 * h + 4 <= n THEN L = 3 * h + 3 ELSE L > D /\ O[D + 1] = 0
<1>1. \A k : ByteAt(d, k) = IF k <= D THEN d[k] ELSE 0
  BY DEF ByteAt
<1>2. Agree(O, d, L)
  <2> SUFFICES ASSUME NEW k \in 1 .. L, k <= D PROVE O[k] = d[k]
    BY DEF Agree
  <2>1. CASE k \in 1 .. 3 * h
    BY <2>1 DEF Agree
  <2>2. CASE k = 3 * h + 1
    BY <1>1, <2>2
  <2>3. CASE k = 3 * h + 2
    BY <1>1, <2>3
  <2>4. CASE k = 3 * h + 3
    <3>1. n # 4 * h + 2
      BY <2>4 DEF GroupAt
    <3> QED BY <1>1, <2>4, <3>1
  <2> QED BY <2>1, <2>2, <2>3, <2>4
<1>3. CASE 4 * h + 4 <= n
  BY <1>2, <1>3
<1>4. CASE n = 4 * h + 3 /\ D = 3 * h + 2
  <2>1. L = 3 * h + 3 /\ O[3 * h + 3] = 0 /\ D + 1 = 3 * h + 3
    BY <1>1, <1>4
  <2> QED BY <1>2, <1>4, <2>1
<1>5. CASE n = 4 * h + 2 /\ D = 3 * h + 1
  <2>1. O[3 * h + 2] = 0 /\ D + 1 = 3 * h + 2
    BY <1>1, <1>5
  <2> QED BY <1>2, <1>5, <2>1
<1> QED BY <1>3, <1>4, <1>5 DEF GroupAt

LEMMA TwoTexts ==
  ASSUME NEW o \in ByteTexts, NEW G \in ByteTexts
  PROVE  /\ Len(o \o G) = Len(o) + Len(G)
         /\ \A k \in 1 .. Len(o) : (o \o G)[k] = o[k]
         /\ \A k \in 1 .. Len(G) : (o \o G)[Len(o) + k] = G[k]
<1>1. /\ Len(o \o G) = Len(o) + Len(G)
      /\ \A k \in 1 .. Len(o) + Len(G) :
           (o \o G)[k] = IF k <= Len(o) THEN o[k] ELSE G[k - Len(o)]
  BY ConcatProperties DEF ByteTexts
<1>2. PICK l \in Nat, m \in Nat : l = Len(o) /\ m = Len(G)
  BY DEF ByteTexts
<1>3. \A k \in 1 .. l : k \in 1 .. l + m /\ k <= l
  OBVIOUS
<1>4. \A k \in 1 .. m : l + k \in 1 .. l + m /\ ~ (l + k <= l) /\ l + k - l = k
  OBVIOUS
<1> QED BY <1>1, <1>2, <1>3, <1>4

LEMMA OneGroupMore ==
  ASSUME NEW c \in ByteTexts, NEW d \in ByteTexts, IsBase64Url(c, d),
         NEW h \in Nat, GroupAt(h, Len(c), Len(d)),
         NEW g, GroupIs(g, c, h),
         NEW o \in ByteTexts, Len(o) = 3 * h, Written(o, d)
  PROVE  /\ Written(o \o Group(g), d)
         /\ IF 4 * h + 4 <= Len(c) THEN Len(o \o Group(g)) = 3 * h + 3
            ELSE /\ Len(o \o Group(g)) > Len(d)
                 /\ (o \o Group(g))[Len(d) + 1] = 0
<1> DEFINE G == Group(g)  O == o \o G
<1>1. /\ G \in ByteTexts /\ Len(G) \in 2 .. 3
      /\ G[1] = ByteAt(d, 3 * h + 1) /\ G[2] = ByteAt(d, 3 * h + 2)
      /\ g[4] = Val(c, 4 * h + 4) => Len(G) = 3 /\ G[3] = ByteAt(d, 3 * h + 3)
  BY GroupOfLetters DEF GroupIs
<1>2. PICK n \in Nat, D \in Nat : n = Len(c) /\ D = Len(d)
  BY DEF ByteTexts
<1>3. n # 4 * h + 2 => Len(G) = 3 /\ G[3] = ByteAt(d, 3 * h + 3)
  BY <1>1, <1>2 DEF GroupIs
<1> HIDE DEF G
<1>4. PICK m \in 2 .. 3 : m = Len(G)
  BY <1>1
<1>5. /\ Len(O) = 3 * h + m
      /\ \A k \in 1 .. 3 * h : O[k] = o[k]
      /\ \A k \in 1 .. m : O[3 * h + k] = G[k]
  <2>1. PICK l \in Nat : l = 3 * h
    OBVIOUS
  <2>2. m \in Nat /\ l = Len(o)
    BY <2>1
  <2>3. /\ Len(O) = l + m
        /\ \A k \in 1 .. l : O[k] = o[k]
        /\ \A k \in 1 .. m : O[l + k] = G[k]
    <3>1. /\ Len(O) = Len(o) + Len(G)
          /\ \A k \in 1 .. Len(o) : O[k] = o[k]
          /\ \A k \in 1 .. Len(G) : O[Len(o) + k] = G[k]
      BY <1>1, TwoTexts
    <3> QED BY <1>4, <2>2, <3>1
  <2> HIDE DEF O
  <2> QED BY <2>1, <2>3
<1> HIDE DEF O
<1>6. O[3 * h + 1] = ByteAt(d, 3 * h + 1) /\ O[3 * h + 2] = ByteAt(d, 3 * h + 2)
  BY <1>1, <1>5
<1>7. n # 4 * h + 2 => m = 3 /\ O[3 * h + 3] = ByteAt(d, 3 * h + 3)
  BY <1>3, <1>4, <1>5
<1>8. Agree(O, d, 3 * h)
  BY <1>5 DEF Written, Agree
<1>9. PICK L \in Nat : L = 3 * h + m
  OBVIOUS
<1>10. /\ L = 3 * h + 2 \/ L = 3 * h + 3
       /\ n # 4 * h + 2 => L = 3 * h + 3 /\ O[3 * h + 3] = ByteAt(d, 3 * h + 3)
  BY <1>7, <1>9
<1>11. GroupAt(h, n, D)
  BY <1>2
<1>12. /\ Agree(O, d, L)
       /\ IF 4 * h + 4 <= n THEN L = 3 * h + 3 ELSE L > D /\ O[D + 1] = 0
  BY <1>2, <1>6, <1>8, <1>10, <1>11, ThreeMore, SMTT(30)
<1>13. Len(O) = L
  BY <1>5, <1>9
<1> QED BY <1>2, <1>12, <1>13 DEF Written, O, G

LEMMA CharDecoded ==
  ASSUME TypeOK, DecodeInv, NEW d \in DOMAIN Docs, SplitFor(d), Common,
         DecodedFor(d), DecodeChar
  PROVE  DecodedFor(d)'
<1>1. /\ Part \in ByteTexts /\ d \in ByteTexts /\ IsBase64Url(Part, d)
      /\ first \in Nat /\ token \in ByteTexts
      /\ Len(Part) = second - first /\ Len(Part) \in Nat
  BY PartIs
<1>2. PICK n \in Nat, D \in Nat : n = Len(Part) /\ D = Len(d)
  BY <1>1 DEF ByteTexts
<1>3. /\ i < len /\ i \in Nat /\ i' = i + 1
      /\ UNCHANGED <<token, first, second, len>>
      /\ \E v \in SextetsAt(first + i) : Gather(Append(s, v))
  BY DEF DecodeChar, TypeOK, place, sizes
<1>4. PICK v \in SextetsAt(first + i) : Gather(Append(s, v))
  BY <1>3
<1>5. PICK j \in 0 .. 3 : j = Len(s)
  <2>1. PICK m \in Nat : m = Len(s)
    BY DEF TypeOK
  <2>2. m < 4
    BY <2>1 DEF TypeOK
  <2>3. m \in 0 .. 3
    BY <2>2
  <2> QED BY <2>1, <2>3
<1>6. PICK R \in Nat : R = i - j /\ i = R + j /\ i % 4 = j
  <2>1. i % 4 = j
    BY <1>5 DEF DecodedFor
  <2>2. i - j \in Nat /\ i = (i - j) + j
    BY <1>3, <2>1
  <2> QED BY <2>1, <2>2
<1>7. /\ len = Extended(n)
      /\ \A k \in 1 .. j : s[k] \in SextetsAt(first + R + k - 1)
      /\ IF R <= n THEN 4 * Len(out) = 3 * R
         ELSE Len(out) > Len(d) /\ out[Len(d) + 1] = 0
      /\ Written(out, d)
  BY <1>1, <1>2, <1>5, <1>6 DEF DecodedFor, Written, Agree
<1> DEFINE g == Append(s, v)
<1>8. /\ g \in Seq(Sextets) /\ Len(g) = j + 1
      /\ \A k \in 1 .. j + 1 : g[k] \in SextetsAt(first + R + k - 1)
  <2>1. s \in Seq(Sextets) /\ v \in Sextets /\ first + i \in Nat
    BY <1>1, <1>3, <1>4, SextetsAtTypes DEF TypeOK
  <2>2. /\ g \in Seq(Sextets) /\ Len(g) = j + 1
        /\ \A k \in 1 .. j : g[k] = s[k]
        /\ g[j + 1] = v
    BY <1>5, <2>1, AppendProperties
  <2>3. first + R + (j + 1) - 1 = first + i
    BY <1>1, <1>6
  <2>4. \A k \in 1 .. j + 1 : k \in 1 .. j \/ k = j + 1
    OBVIOUS
  <2> HIDE DEF g
  <2> QED BY <1>4, <1>7, <2>2, <2>3, <2>4
<1>9. /\ s' = IF j + 1 = 4 THEN <<>> ELSE g
      /\ out' = IF j + 1 = 4 THEN out \o Group(g) ELSE out
  BY <1>4, <1>8 DEF Gather
<1>10. /\ \A x : SextetsAt(x)' = SextetsAt(x)
       /\ first' = first /\ second' = second /\ len' = len
  BY <1>3 DEF SextetsAt, At
<1> HIDE DEF g
<1>11. CASE j # 3
  <2>1. s' = g /\ out' = out /\ Len(s') = j + 1
    BY <1>8, <1>9, <1>11
  <2>2. i' - Len(s') = R /\ i' % 4 = j + 1
    BY <1>3, <1>6, <1>11, <2>1
  <2>3. \A k \in 1 .. Len(s') : s'[k] \in SextetsAt(first + R + k - 1)
    BY <1>8, <2>1
  <2>4. len' = Extended(second' - first')
    BY <1>1, <1>2, <1>7, <1>10
  <2>5. IF R <= second' - first' THEN 4 * Len(out') = 3 * R
        ELSE Len(out') > Len(d) /\ out'[Len(d) + 1] = 0
    BY <1>1, <1>2, <1>7, <1>10, <2>1
  <2>6. \A k \in 1 .. Len(out') : k <= Len(d) => out'[k] = d[k]
    BY <1>7, <2>1 DEF Written, Agree
  <2> QED BY <1>10, <2>1, <2>2, <2>3, <2>4, <2>5, <2>6 DEF DecodedFor
<1>12. CASE j = 3
  <2>1. n = (4 * D + 2) \div 3
    BY <1>1, <1>2 DEF IsBase64Url
  <2>2. i % 4 = 3 /\ i < n + (n % 4)
    BY <1>3, <1>6, <1>7, <1>12 DEF Extended
  <2>3. PICK h \in Nat : i = 4 * h + 3 /\ GroupAt(h, n, D)
    BY <1>3, <2>1, <2>2, GroupPlace DEF GroupAt
  <2>4. R = 4 * h /\ R <= n /\ 4 * h + 2 <= n
    BY <1>6, <1>12, <2>3 DEF GroupAt
  <2>5. Len(out) = 3 * h /\ out \in ByteTexts
    <3>1. out \in ByteTexts /\ Len(out) \in Nat
      BY DEF TypeOK, ByteTexts
    <3>2. 4 * Len(out) = 3 * R
      BY <1>7, <2>4
    <3> QED BY <2>4, <3>1, <3>2
  <2>6. ASSUME NEW k \in 1 .. 4, 4 * h + k <= n + 1
        PROVE  g[k] = Val(Part, 4 * h + k)
    <3>1. 4 * h + k \in 1 .. Len(Part) + 1
      BY <1>2, <2>6
    <3>2. SextetsAt(first + (4 * h + k) - 1) = {Val(Part, 4 * h + k)}
      BY <3>1, SextetIs
    <3>3. first + R + k - 1 = first + (4 * h + k) - 1 /\ k \in 1 .. j + 1
      BY <1>1, <1>12, <2>4
    <3> QED BY <1>8, <3>2, <3>3
  <2>7. GroupIs(g, Part, h)
    <3>1. g[1] = Val(Part, 4 * h + 1)
      BY <2>4, <2>6
    <3>2. g[2] = Val(Part, 4 * h + 2)
      BY <2>4, <2>6
    <3>3. g[3] = Val(Part, 4 * h + 3)
      BY <2>4, <2>6
    <3>4. n # 4 * h + 2 => g[4] = Val(Part, 4 * h + 4)
      BY <2>4, <2>6
    <3> QED BY <1>2, <1>8, <1>12, <3>1, <3>2, <3>3, <3>4 DEF GroupIs
  <2>8. s' = <<>> /\ out' = out \o Group(g)
    BY <1>9, <1>12
  <2>9. /\ Written(out', d)
        /\ IF 4 * h + 4 <= n THEN Len(out') = 3 * h + 3
           ELSE Len(out') > Len(d) /\ out'[Len(d) + 1] = 0
    BY <1>1, <1>2, <1>7, <2>3, <2>5, <2>7, <2>8, OneGroupMore
  <2>10. i' - Len(s') = 4 * h + 4 /\ i' % 4 = Len(s') /\ Len(s') = 0
    BY <1>3, <2>3, <2>8
  <2>11. len' = Extended(second' - first')
    BY <1>1, <1>2, <1>7, <1>10
  <2>12. IF 4 * h + 4 <= second' - first' THEN 4 * Len(out') = 3 * (4 * h + 4)
         ELSE Len(out') > Len(d) /\ out'[Len(d) + 1] = 0
    BY <1>1, <1>2, <1>10, <2>9
  <2>13. \A k \in 1 .. Len(out') : k <= Len(d) => out'[k] = d[k]
    BY <2>9 DEF Written, Agree
  <2> QED BY <2>10, <2>11, <2>12, <2>13 DEF DecodedFor
<1> QED BY <1>11, <1>12

\* What is in the memory when the loop is over: the object, and behind it
\* nothing or a zero.
LEMMA EndDecoded ==
  ASSUME TypeOK, NEW d \in DOMAIN Docs, SplitFor(d), DecodedFor(d), i = len
  PROVE  /\ Len(out) \in Nat /\ Len(d) \in Nat /\ Len(d) <= Len(out)
         /\ Agree(out, d, Len(d))
         /\ Len(out) > Len(d) => out[Len(d) + 1] = 0
<1>1. /\ Part \in ByteTexts /\ d \in ByteTexts /\ IsBase64Url(Part, d)
      /\ Len(Part) = second - first /\ Len(Part) \in Nat
  BY PartIs
<1>2. PICK n \in Nat, D \in Nat : n = Len(Part) /\ D = Len(d)
  BY <1>1 DEF ByteTexts
<1>3. PICK L \in Nat : L = Len(out)
  BY DEF TypeOK, ByteTexts
<1>4. PICK j \in 0 .. 3 : j = Len(s)
  <2>1. PICK m \in Nat : m = Len(s)
    BY DEF TypeOK
  <2>2. m < 4
    BY <2>1 DEF TypeOK
  <2>3. m \in 0 .. 3
    BY <2>2
  <2> QED BY <2>1, <2>3
<1>5. /\ i = n + (n % 4) /\ j = i % 4
      /\ IF i - j <= n THEN 4 * L = 3 * (i - j)
         ELSE L > D /\ out[D + 1] = 0
      /\ Written(out, d)
  BY <1>1, <1>2, <1>3, <1>4 DEF DecodedFor, Extended, Written, Agree
<1>6. n = (4 * D + 2) \div 3
  BY <1>1, <1>2 DEF IsBase64Url
<1>7. /\ n % 4 # 1
      /\ n % 4 = 0 => 4 * D = 3 * n
  BY <1>6, UrlLength
<1>8. \/ L = D
      \/ L > D /\ out[D + 1] = 0
  <2>1. n % 4 = 0 \/ n % 4 = 2 \/ n % 4 = 3
    <3>1. n % 4 \in 0 .. 3
      OBVIOUS
    <3> QED BY <1>7, <3>1
  <2>2. CASE n % 4 = 0
    <3>1. i - j = n
      BY <1>5, <2>2
    <3> QED BY <1>5, <1>7, <2>2, <3>1
  <2>3. CASE n % 4 = 2 \/ n % 4 = 3
    <3>1. ~ (i - j <= n)
      BY <1>5, <2>3
    <3> QED BY <1>5, <3>1
  <2> QED BY <2>1, <2>2, <2>3
<1>9. Agree(out, d, D)
  <2>1. \A k \in 1 .. D : k \in 1 .. L
    BY <1>8
  <2> QED BY <1>3, <1>5, <2>1 DEF Written, Agree
<1> QED BY <1>2, <1>3, <1>8, <1>9
-----------------------------------------------------------------------------
\* What is looked up.

\* A text without a zero that ends there or before a zero is the C string.
LEMMA PayloadIs ==
  ASSUME NEW d \in DOMAIN Docs, out \in ByteTexts,
         Len(out) \in Nat, Len(d) \in Nat, Len(d) <= Len(out),
         Agree(out, d, Len(d)), Len(out) > Len(d) => out[Len(d) + 1] = 0
  PROVE  Payload = d
<1> DEFINE ends == {n \in 1 .. Len(out) : out[n] = 0}
           e == CHOOSE n \in ends : \A m \in ends : n <= m
<1>1. PICK L \in Nat, D \in Nat : L = Len(out) /\ D = Len(d) /\ D <= L
  OBVIOUS
<1>2. d \in ByteTexts /\ \A k \in 1 .. D : d[k] # 0 /\ out[k] = d[k]
  BY <1>1, JwtAssumption DEF Agree
<1>3. Payload = IF ends = {} THEN out ELSE SubSeq(out, 1, e - 1)
  BY DEF Payload
<1>4. \A n : n \in ends <=> n \in 1 .. L /\ out[n] = 0
  BY <1>1
<1> HIDE DEF ends
<1>5. \A n \in ends : n \in Nat /\ n >= D + 1
  <2> SUFFICES ASSUME NEW n \in ends, ~ (n >= D + 1) PROVE FALSE
    BY <1>4
  <2>1. n \in 1 .. D
    BY <1>4
  <2> QED BY <1>2, <1>4, <2>1
<1>6. CASE L = D
  <2>1. ends = {}
    BY <1>4, <1>5, <1>6
  <2>2. out \in Seq(Byte) /\ d \in Seq(Byte) /\ Len(out) = Len(d)
    BY <1>1, <1>2, <1>6 DEF ByteTexts
  <2>3. \A k \in 1 .. Len(out) : out[k] = d[k]
    BY <1>1, <1>2, <1>6
  <2>4. out = d
    BY <2>2, <2>3, SeqEqual
  <2> QED BY <1>3, <2>1, <2>4
<1>7. CASE L # D
  <2>1. D + 1 \in ends /\ \A m \in ends : D + 1 <= m
    <3>1. L > D /\ out[D + 1] = 0 /\ D + 1 \in 1 .. L
      BY <1>1, <1>7
    <3> QED BY <1>4, <1>5, <3>1
  <2>2. e \in ends /\ \A m \in ends : e <= m
    BY <2>1
  <2> HIDE DEF e
  <2>3. e = D + 1
    BY <1>5, <2>1, <2>2
  <2>4. Payload = SubSeq(out, 1, D)
    <3>1. e - 1 = D
      BY <2>3
    <3> QED BY <1>3, <2>1, <3>1
  <2>5. \A k \in 1 .. D : out[k] \in Byte
    BY <1>1 DEF ByteTexts
  <2>6. /\ SubSeq(out, 1, D) \in Seq(Byte)
        /\ Len(SubSeq(out, 1, D)) = IF 1 <= D THEN D - 1 + 1 ELSE 0
        /\ \A k \in 1 .. D - 1 + 1 : SubSeq(out, 1, D)[k] = out[1 + k - 1]
    BY <2>5, SubSeqProperties
  <2>7. Len(Payload) = D /\ \A k \in 1 .. D : Payload[k] = d[k]
    <3>1. \A k \in 1 .. D : k \in 1 .. D - 1 + 1 /\ 1 + k - 1 = k
      OBVIOUS
    <3> QED BY <1>2, <2>4, <2>6, <3>1
  <2>8. Payload \in Seq(Byte) /\ d \in Seq(Byte)
    BY <1>2, <2>4, <2>6 DEF ByteTexts
  <2> QED BY <1>1, <2>7, <2>8, SeqEqual
<1> QED BY <1>6, <1>7

LEMMA ItemIs ==
  ASSUME NEW d \in DOMAIN Docs
  PROVE  Item(d) = Docs[d]
<1>1. d \in ByteTexts /\ \A e \in DOMAIN Docs : Begins(e, d) => e = d
  BY JwtAssumption
<1>2. Begins(d, d)
  <2>1. Len(d) \in Nat /\ d \in Seq(Byte)
    BY <1>1 DEF ByteTexts
  <2>2. SubSeq(d, 1, Len(d)) = d
    BY <2>1, SubSeqFull
  <2> QED BY <2>1, <2>2 DEF Begins
<1>3. {e \in DOMAIN Docs : Begins(e, d)} = {d}
  BY <1>1, <1>2
<1>4. (CHOOSE e \in {d} : TRUE) = d
  OBVIOUS
<1> QED BY <1>3, <1>4 DEF Item

\* The three parts of a token that carries an object.
LEMMA SplitParts ==
  ASSUME TypeOK, NEW d \in DOMAIN Docs, Carries(d), Split
  PROVE  SplitFor(d)'
<1>1. PICK a \in Dots, b \in Dots :
        a < b /\ Dots = {a, b} /\ IsBase64Url(SubSeq(token, a + 2, b), d)
  BY DEF Carries
<1>2. token # NULL /\ token' = token
  BY DEF Split
<1>3. Len(token) \in Nat
  BY <1>2 DEF TypeOK, ByteTexts
<1>4. /\ a \in 0 .. Len(token) - 1 /\ b \in 0 .. Len(token) - 1
      /\ At(b) = Dot
  BY DEF Dots
<1>5. \E x, y \in Dots :
        /\ \A n \in Dots : x <= n /\ n <= y
        /\ first' = x + 1
        /\ second' = IF x = y THEN 0 ELSE y
  BY <1>1 DEF Split
<1>6. PICK x \in Dots, y \in Dots :
        /\ \A n \in Dots : x <= n /\ n <= y
        /\ first' = x + 1
        /\ second' = IF x = y THEN 0 ELSE y
  BY <1>5
<1>7. x = a /\ y = b
  <2>1. /\ x = a \/ x = b
        /\ y = a \/ y = b
        /\ x <= a /\ b <= y
    BY <1>1, <1>6
  <2> QED BY <1>1, <1>3, <1>4, <2>1
<1>8. first' = a + 1 /\ second' = b
  BY <1>1, <1>3, <1>4, <1>6, <1>7
<1>9. first' > 0 /\ first' <= second' /\ second' < Len(token')
  BY <1>1, <1>2, <1>3, <1>4, <1>8
<1>10. At(second)' = Dot
  BY <1>2, <1>4, <1>8 DEF At
<1>11. IsBase64Url(SubSeq(token', first' + 1, second'), d)
  <2>1. first' + 1 = a + 2
    BY <1>3, <1>4, <1>8
  <2> QED BY <1>1, <1>2, <1>8, <2>1
<1> QED BY <1>9, <1>10, <1>11 DEF SplitFor

LEMMA CarriesToken ==
  ASSUME NEW d \in DOMAIN Docs, Carries(d)
  PROVE  token # NULL
<1> SUFFICES ASSUME token = NULL PROVE FALSE
  OBVIOUS
<1>1. Len(token) = 1 /\ At(0) = -1
  BY DEF NULL, At
<1>2. Dots = {}
  BY <1>1 DEF Dots, Dot
<1> QED BY <1>2 DEF Carries
-----------------------------------------------------------------------------
\* The whole of it.

LEMMA SameFor ==
  ASSUME NEW d, UNCHANGED <<token, place, sizes, i, s, out, result>>
  PROVE  /\ Carries(d)' = Carries(d) /\ SplitFor(d)' = SplitFor(d)
         /\ DecodedFor(d)' = DecodedFor(d) /\ Retrieved(d)' = Retrieved(d)
         /\ Common' = Common
BY DEF place, sizes, result, Carries, Dots, SplitFor, DecodedFor, SextetsAt,
       Retrieved, Common, At

\* A step that is not Split leaves what the token is cut into.
LEMMA SameParts ==
  ASSUME NEW d, UNCHANGED <<token, place>>
  PROVE  /\ Carries(d)' = Carries(d) /\ SplitFor(d)' = SplitFor(d)
         /\ Common' = Common
BY DEF place, Carries, Dots, SplitFor, Common, At

LEMMA NextRetrieve ==
  ASSUME TypeOK, DecodeInv, RetrieveInv, Next
  PROVE  RetrieveInv'
<1> SUFFICES ASSUME NEW d \in DOMAIN Docs, Carries(d)'
             PROVE  /\ pc' \in {"size", "decode"} => SplitFor(d)'
                    /\ pc' = "decode" /\ Common' => DecodedFor(d)'
                    /\ pc' = "returned" /\ Common' => Retrieved(d)'
  BY DEF RetrieveInv
<1>1. token' = token
  BY DEF Next, NoToken, Split, NoPayload, Allocate, AllocateFails, DecodeChar,
         DecodeNothing, Lookup, LookupAborts
<1>2. Carries(d)
  BY <1>1 DEF Carries, Dots, At
<1>3. /\ pc \in {"size", "decode"} => SplitFor(d)
      /\ pc = "decode" /\ Common => DecodedFor(d)
  BY <1>2 DEF RetrieveInv
<1>4. CASE NoToken
  BY <1>2, <1>4, CarriesToken DEF NoToken
<1>5. CASE Split
  BY <1>2, <1>5, SplitParts DEF Split
<1>6. CASE NoPayload
  <2>1. SplitFor(d) /\ second - first <= 0
    BY <1>3, <1>6 DEF NoPayload
  <2>2. /\ Part \in ByteTexts /\ d \in ByteTexts /\ IsBase64Url(Part, d)
        /\ Len(Part) = second - first /\ Len(Part) \in Nat
    BY <2>1, PartIs
  <2>3. PICK D \in Nat, n \in Nat : D = Len(d) /\ n = Len(Part)
    BY <2>2 DEF ByteTexts
  <2>4. D # 0
    <3>1. d # <<>> /\ d \in Seq(Byte)
      BY <2>2, JwtAssumption DEF ByteTexts
    <3> QED BY <2>3, <3>1
  <2>5. n = (4 * D + 2) \div 3
    BY <2>2, <2>3 DEF IsBase64Url
  <2>6. n > 0
    BY <2>4, <2>5, UrlLength
  <2> QED BY <2>1, <2>2, <2>3, <2>6
<1>7. CASE Allocate
  <2>1. pc = "size" /\ pc' = "decode" /\ UNCHANGED <<token, place>>
    BY <1>7 DEF Allocate
  <2>2. SplitFor(d)'
    BY <1>3, <2>1, SameParts
  <2>3. DecodedFor(d)'
    BY <1>7, StartsDecoded
  <2> QED BY <2>1, <2>2, <2>3
<1>8. CASE AllocateFails
  BY <1>8 DEF AllocateFails
<1>9. CASE DecodeChar
  <2>1. pc = "decode" /\ pc' = "decode" /\ UNCHANGED <<token, place>>
    BY <1>9 DEF DecodeChar
  <2>2. SplitFor(d) /\ SplitFor(d)' /\ Common' = Common
    BY <1>3, <2>1, SameParts
  <2>3. Common => DecodedFor(d)'
    BY <1>3, <1>9, <2>1, <2>2, CharDecoded
  <2> QED BY <2>1, <2>2, <2>3
<1>10. ASSUME pc = "decode", i = len, Common
       PROVE  out # <<>> /\ Payload = d
  <2>1. /\ Len(out) \in Nat /\ Len(d) \in Nat /\ Len(d) <= Len(out)
        /\ Agree(out, d, Len(d))
        /\ Len(out) > Len(d) => out[Len(d) + 1] = 0
    BY <1>3, <1>10, EndDecoded
  <2>2. Payload = d
    BY <2>1, PayloadIs DEF TypeOK
  <2>3. Len(d) # 0
    <3>1. d # <<>> /\ d \in Seq(Byte)
      BY JwtAssumption DEF ByteTexts
    <3> QED BY <3>1
  <2>4. Len(out) # 0
    BY <2>1, <2>3
  <2> QED BY <2>2, <2>4
<1>11. CASE DecodeNothing
  <2>1. /\ pc = "decode" /\ i = len /\ out = <<>> /\ pc' = "returned"
        /\ UNCHANGED <<token, place>>
    BY <1>11 DEF DecodeNothing
  <2>2. ~Common'
    BY <1>10, <2>1, SameParts
  <2> QED BY <2>1, <2>2
<1>12. CASE Lookup
  <2>1. /\ pc = "decode" /\ i = len /\ pc' = "returned"
        /\ dst' = Item(Payload) /\ ret' = Len(dst'.text)
        /\ UNCHANGED <<token, place>>
    BY <1>12 DEF Lookup
  <2>2. Common' = Common
    BY <2>1, SameParts
  <2>3. Common => dst' = Docs[d]
    BY <1>10, <2>1, ItemIs
  <2> QED BY <2>1, <2>2, <2>3 DEF Retrieved
<1>13. CASE LookupAborts
  BY <1>13 DEF LookupAborts
<1> QED BY <1>4, <1>5, <1>6, <1>7, <1>8, <1>9, <1>11, <1>12, <1>13 DEF Next

(***************************************************************************)
(* From every token that carries an object without the two letters of      *)
(* base64url that base64 does not have, exactly the claim of that object   *)
(* is retrieved, whatever the length of the payload, the bytes behind the  *)
(* dot and those behind the token: the length that is wrong for a          *)
(* remainder of three, and the missing padding, never matter.              *)
(***************************************************************************)
THEOREM ClaimRetrieved == Spec => []RetrievesCommon
<1>1. Init => RetrieveInv
  BY DEF Init, RetrieveInv
<1>2. TypeOK /\ DecodeInv /\ RetrieveInv /\ [Next]_vars => RetrieveInv'
  <2>1. ASSUME RetrieveInv, UNCHANGED vars PROVE RetrieveInv'
    <3>1. UNCHANGED <<token, place, sizes, i, s, out, result>> /\ pc' = pc
      BY <2>1 DEF vars
    <3> QED BY <2>1, <3>1, SameFor DEF RetrieveInv
  <2> QED BY <2>1, NextRetrieve
<1>3. RetrieveInv => RetrievesCommon
  BY DEF RetrieveInv, RetrievesCommon, RetrievesClaim
<1> QED BY <1>1, <1>2, <1>3, Inductive, PTL DEF Spec
=============================================================================
