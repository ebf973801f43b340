------------------------------ MODULE JwtClaim ------------------------------
(***************************************************************************)
(* jwt_get_claim_string (xoauth2_client.c): the claim in the payload of a  *)
(* token, which is header.payload.signature, each in the URL-safe variant  *)
(* of base64 without padding.  The decoder is that of base64.c.  Here a    *)
(* text is a sequence of bytes, as what is at stake are the positions that *)
(* are read and written and the bits that are put together.                *)
(***************************************************************************)
EXTENDS Integers, Sequences, FiniteSets

CONSTANTS
  Tokens,   \* the tokens the function is called with
  Docs      \* what the claim is in each payload that is a JSON object

Byte == 0 .. 255
ByteTexts == Seq(Byte)

\* No token at all.
NULL == <<-1>>

\* A payload without the claim, and one in which it is not a string.
NoItem == [kind |-> "none", text |-> <<>>]
NotString == [kind |-> "other", text |-> <<>>]
String(text) == [kind |-> "string", text |-> text]

Begins(d, text) == Len(d) <= Len(text) /\ SubSeq(text, 1, Len(d)) = d

\* An object is over with its last brace, and JSON has no zero byte.
ASSUME JwtAssumption ==
  /\ Tokens \subseteq ByteTexts \cup {NULL}
  /\ \A d \in DOMAIN Docs :
       /\ d \in ByteTexts /\ d # <<>> /\ \A k \in 1 .. Len(d) : d[k] # 0
       /\ \A e \in DOMAIN Docs : Begins(e, d) => e = d
       /\ Docs[d].text \in ByteTexts
       /\ Docs[d] \in {NoItem, NotString, String(Docs[d].text)}

VARIABLES
  token,    \* the argument
  pc,       \* the next part of the function
  first,    \* the offset behind the first dot
  second,   \* the offset of the last dot
  len,      \* how many characters b64_decode is to read
  dlen,     \* the size of payload, without the byte for the terminator
  i,        \* the offset of the next character, from first
  s,        \* b64_decode's s and j: the sextets gathered so far
  out,      \* the bytes written to payload, from its beginning
  ret,      \* the value returned
  dst       \* the string handed out; NoItem before there is one

place == <<first, second>>
sizes == <<len, dlen>>
result == <<ret, dst>>
vars == <<token, pc, place, sizes, i, s, out, result>>

Dot == 46
At(offset) == token[offset + 1]
Dots == {n \in 0 .. Len(token) - 1 : At(n) = Dot}

Init ==
  /\ token \in Tokens
  /\ pc = "split"
  /\ first = 0 /\ second = 0 /\ len = 0 /\ dlen = 0
  /\ i = 0 /\ s = <<>> /\ out = <<>>
  /\ ret = 0 /\ dst = NoItem
-----------------------------------------------------------------------------
NoToken ==
  /\ pc = "split" /\ token = NULL
  /\ ret' = 0
  /\ pc' = "returned"
  /\ UNCHANGED <<token, place, sizes, i, s, out, dst>>

\* The loop over the token: the first dot and the last, if it is another.
Split ==
  /\ pc = "split" /\ token # NULL
  /\ \/ Dots = {} /\ first' = 0 /\ second' = 0
     \/ \E a, b \in Dots :
          /\ \A n \in Dots : a <= n /\ n <= b
          /\ first' = a + 1
          /\ second' = IF a = b THEN 0 ELSE b
  /\ pc' = "size"
  /\ UNCHANGED <<token, sizes, i, s, out, result>>

NoPayload ==
  /\ pc = "size" /\ second - first <= 0
  /\ ret' = -1
  /\ pc' = "returned"
  /\ UNCHANGED <<token, place, sizes, i, s, out, dst>>

\* Mutants of Extended: as it is, and what one may take for the missing part.
Unextended(n) == n
Overextended(n) == n + (4 - (n % 4))

\* Two more characters for a remainder of two, three for one of three.
Extended(n) == n + (n % 4)

b64d_size(n) == (3 * n) \div 4

\* Mutant of Allocated: the size that the payload alone takes.
AllocatedBefore(n) == b64d_size(n)

Allocated(n) == b64d_size(Extended(n))

Allocate ==
  /\ pc = "size" /\ second - first > 0
  /\ len' = Extended(second - first)
  /\ dlen' = Allocated(second - first)
  /\ pc' = "decode"
  /\ UNCHANGED <<token, place, i, s, out, result>>

\* The memset goes to where malloc found no memory.
AllocateFails ==
  /\ pc = "size" /\ second - first > 0
  /\ pc' = "aborted"
  /\ UNCHANGED <<token, place, sizes, i, s, out, result>>

Pad == 64
Sextets == 0 .. Pad

\* The letters, the digits, '+', '/' and '='; all other bytes count as 'A'.
b64_int(ch) ==
  IF ch = 43 THEN 62 ELSE IF ch = 47 THEN 63 ELSE IF ch = 61 THEN Pad
  ELSE IF 47 < ch /\ ch < 58 THEN ch + 4
  ELSE IF 64 < ch /\ ch < 91 THEN ch - 65
  ELSE IF 96 < ch /\ ch < 123 THEN ch - 97 + 26
  ELSE 0

\* The bytes of a group of four sextets.
Group(q) ==
  LET x == (q[1] * 4 + ((q[2] \div 16) % 4)) % 256
      y == (q[2] % 16) * 16 + ((q[3] \div 4) % 16)
      z == (q[3] % 4) * 64 + q[4]
  IN  IF q[3] = Pad THEN <<x>>
      ELSE IF q[4] = Pad THEN <<x, y>> ELSE <<x, y, z>>

\* What the byte at an offset decodes to.  Behind the token there is its
\* terminator, and then memory that can hold anything.
SextetsAt(offset) ==
  IF offset < Len(token) THEN {b64_int(At(offset))}
  ELSE IF offset = Len(token) THEN {b64_int(0)}
  ELSE Sextets

\* Mutant of Gather: j goes on behind a group.
GatherOn(q) ==
  /\ s' = q
  /\ out' = IF Len(q) = 4 THEN out \o Group(q) ELSE out

\* A complete group is written out.
Gather(q) ==
  /\ s' = IF Len(q) = 4 THEN <<>> ELSE q
  /\ out' = IF Len(q) = 4 THEN out \o Group(q) ELSE out

\* One turn of the loop of b64_decode.
DecodeChar ==
  /\ pc = "decode" /\ i < len
  /\ \E v \in SextetsAt(first + i) : Gather(Append(s, v))
  /\ i' = i + 1
  /\ UNCHANGED <<token, pc, place, sizes, result>>

DecodeNothing ==
  /\ pc = "decode" /\ i = len /\ out = <<>>
  /\ ret' = -1
  /\ pc' = "returned"
  /\ UNCHANGED <<token, place, sizes, i, s, out, dst>>

\* payload as a C string: the memset left a zero behind what was written.
Payload ==
  LET ends == {n \in 1 .. Len(out) : out[n] = 0}
  IN  IF ends = {} THEN out
      ELSE SubSeq(out, 1, (CHOOSE n \in ends : \A m \in ends : n <= m) - 1)

\* cJSON takes an object at the beginning of a text, whatever follows it.
Item(text) ==
  LET found == {d \in DOMAIN Docs : Begins(d, text)}
  IN  IF found = {} THEN NoItem ELSE Docs[CHOOSE d \in found : TRUE]

Lookup ==
  /\ pc = "decode" /\ i = len /\ out # <<>>
  /\ Item(Payload).kind # "other"
  /\ dst' = Item(Payload)
  /\ ret' = Len(dst'.text)
  /\ pc' = "returned"
  /\ UNCHANGED <<token, place, sizes, i, s, out>>

\* strdup is given NULL, or strlen what it returned without memory.
LookupAborts ==
  /\ pc = "decode" /\ i = len /\ out # <<>>
  /\ Item(Payload).kind # "none"
  /\ pc' = "aborted"
  /\ UNCHANGED <<token, place, sizes, i, s, out, result>>

Next ==
  \/ NoToken \/ Split \/ NoPayload \/ Allocate \/ AllocateFails
  \/ DecodeChar \/ DecodeNothing \/ Lookup \/ LookupAborts

Spec == Init /\ [][Next]_vars
-----------------------------------------------------------------------------
TypeOK ==
  /\ token \in ByteTexts \cup {NULL}
  /\ pc \in {"split", "size", "decode", "returned", "aborted"}
  /\ first \in 0 .. Len(token) /\ second \in 0 .. Len(token)
  /\ len \in Nat /\ dlen \in Nat
  /\ i \in 0 .. len
  /\ s \in Seq(Sextets) /\ Len(s) < 4
  /\ out \in ByteTexts
  /\ dst.text \in ByteTexts
  /\ ret \in -1 .. Len(dst.text)

(***************************************************************************)
(* What the payload decodes to fits into the memory that was taken for it, *)
(* the zero at its end included, though the length read is extended beyond *)
(* the payload and any byte may stand there.                               *)
(***************************************************************************)
WritesInside == pc = "decode" => Len(out) <= dlen

(***************************************************************************)
(* No byte is read from behind the terminator of a token: the two or three *)
(* characters more than the payload has are the dot and the beginning of   *)
(* the signature.  For a token that ends with the dot it is not so.        *)
(***************************************************************************)
ReadsInside ==
  pc = "decode" /\ i < len /\ second + 1 < Len(token) =>
    first + i <= Len(token)

(***************************************************************************)
(* base64url by its bits (RFC 7515): the text is the shortest whose        *)
(* sextets hold the bits of the bytes, one after the other, and then only  *)
(* zeros.                                                                  *)
(***************************************************************************)
Bit(number, width, n) == (number \div 2^(width - 1 - n)) % 2

BitOf(seq, width, n) ==
  IF n \div width < Len(seq)
  THEN Bit(seq[n \div width + 1], width, n % width) ELSE 0

\* The letters of base64url, but for '-' and '_' as base64.c has them.
Minus == 45
Underscore == 95
UrlLetters == {Minus, Underscore} \cup 48 .. 57 \cup 65 .. 90 \cup 97 .. 122
UrlValue(ch) ==
  IF ch = Minus THEN 62 ELSE IF ch = Underscore THEN 63 ELSE b64_int(ch)

IsBase64Url(chars, bytes) ==
  /\ Len(chars) = (4 * Len(bytes) + 2) \div 3
  /\ \A n \in DOMAIN chars : chars[n] \in UrlLetters
  /\ LET values == [n \in DOMAIN chars |-> UrlValue(chars[n])]
     IN  \A n \in 0 .. 6 * Len(chars) - 1 :
           BitOf(values, 6, n) = BitOf(bytes, 8, n)

\* The middle one of the three parts of the token is this payload.
Carries(d) ==
  \E a, b \in Dots :
    a < b /\ Dots = {a, b} /\ IsBase64Url(SubSeq(token, a + 2, b), d)

Retrieved(d) == dst = Docs[d] /\ ret = Len(Docs[d].text)

(***************************************************************************)
(* The claim is retrieved from every token that carries an object with it, *)
(* whatever the length of the payload, and nothing from one without it.    *)
(***************************************************************************)
RetrievesClaim ==
  pc = "returned" => \A d \in DOMAIN Docs : Carries(d) => Retrieved(d)

(***************************************************************************)
(* So it is for payloads without the two letters that base64url does not   *)
(* share with base64: the bits left over at the end of the payload, the    *)
(* dot and what is read of the signature never spoil the object.           *)
(***************************************************************************)
Common == \A n \in first .. second - 1 : At(n) \notin {Minus, Underscore}

RetrievesCommon == Common => RetrievesClaim
-----------------------------------------------------------------------------
(***************************************************************************)
(* What makes the properties of memory inductive: at most three bytes were *)
(* written for four characters that were read, and the length read is at   *)
(* most three characters more than the payload has.                        *)
(***************************************************************************)
DecodeInv ==
  /\ pc \in {"split", "size"} => i = 0 /\ s = <<>> /\ out = <<>>
  /\ pc \in {"size", "decode"} => token # NULL
  /\ pc = "decode" =>
       /\ 4 * Len(out) <= 3 * (i - Len(s))
       /\ 3 * len <= 4 * dlen + 3
       /\ first + len <= second + 3

(***************************************************************************)
(* What makes RetrievesCommon inductive: the whole groups within the       *)
(* payload have given the bytes of the object, and the group that reaches  *)
(* beyond it, if there is one, the rest of them and a zero.                *)
(***************************************************************************)
SplitFor(d) ==
  /\ first > 0 /\ first <= second /\ second < Len(token)
  /\ At(second) = Dot
  /\ IsBase64Url(SubSeq(token, first + 1, second), d)

DecodedFor(d) ==
  LET read == i - Len(s)
  IN  /\ len = Extended(second - first)
      /\ Len(s) = i % 4
      /\ \A k \in 1 .. Len(s) : s[k] \in SextetsAt(first + read + k - 1)
      /\ IF read <= second - first
         THEN 4 * Len(out) = 3 * read
         ELSE Len(out) > Len(d) /\ out[Len(d) + 1] = 0
      /\ \A k \in 1 .. Len(out) : k <= Len(d) => out[k] = d[k]

RetrieveInv ==
  \A d \in DOMAIN Docs :
    Carries(d) =>
      /\ pc \in {"size", "decode"} => SplitFor(d)
      /\ pc = "decode" /\ Common => DecodedFor(d)
      /\ pc = "returned" /\ Common => Retrieved(d)
=============================================================================
