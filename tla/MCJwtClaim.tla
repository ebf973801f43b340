----------------------------- MODULE MCJwtClaim -----------------------------
(***************************************************************************)
(* Tokens for JwtClaim: objects that hold {"u":"..."} with names of up to  *)
(* four letters, so that the payload leaves each remainder, and odd ones.  *)
(***************************************************************************)
EXTENDS JwtClaim

\* Bytes of ASCII: {"u":"  "}  1  a  ~  @
Open   == <<123, 34, 117, 34, 58>>
Quote  == <<34>>
Close  == <<125>>
Object(name) == Open \o Quote \o name \o Quote \o Close

\* '~' and '?' are the letters whose last six bits base64url writes as '-'
\* and '_'; in their place base64.c reads '@' and NUL.
Names == UNION {[1 .. n -> {97, 126, 64}] : n \in 0 .. 3}
           \cup {<<97, 97, 97, 97>>, <<97, 97, 63>>}

NoName == <<123, 125>>
Number == Open \o <<49>> \o Close

MCDocs ==
  [d \in {Object(n) : n \in Names} \cup {NoName, Number} |->
     IF d = NoName THEN NoItem ELSE IF d = Number THEN NotString
     ELSE String(SubSeq(d, 7, Len(d) - 2))]

\* The letter of base64url for a sextet.
Letter(v) == CHOOSE ch \in UrlLetters : UrlValue(ch) = v

Base64Url(bytes) ==
  LET bit(n) == BitOf(bytes, 8, n)
      value(k) == 32 * bit(6 * k) + 16 * bit(6 * k + 1) + 8 * bit(6 * k + 2)
                    + 4 * bit(6 * k + 3) + 2 * bit(6 * k + 4) + bit(6 * k + 5)
  IN  [k \in 1 .. (4 * Len(bytes) + 2) \div 3 |-> Letter(value(k - 1))]

Compact(payload, signature) ==
  <<101>> \o <<Dot>> \o payload \o <<Dot>> \o signature

Signatures == {<<>>, <<90>>, <<Underscore, 90, 90, 90, 90>>}

\* None, without a dot, with one, with nothing between two, with three,
\* with one or two letters in the middle, and with padding.
OddTokens ==
  {NULL, <<>>, <<101>>, <<101, Dot, 90>>, <<Dot, Dot>>,
   Compact(<<101, Dot, 101>>, <<90>>), Compact(<<101>>, <<90>>),
   Compact(<<101>>, <<>>), Compact(<<101, 51>>, <<90>>),
   Compact(Base64Url(NoName) \o <<61>>, <<90>>),
   Compact(Base64Url(Object(<<97>>)) \o <<61, 61>>, <<90>>),
   Compact(<<61, 61, 61, 61>>, <<90>>)}

MCTokens ==
  {Compact(Base64Url(d), sig) : d \in DOMAIN MCDocs, sig \in Signatures}
    \cup OddTokens
=============================================================================
