-------------------------- MODULE Exchange_proofs ---------------------------
(***************************************************************************)
(* What holds of every exchange, for all users, tokens and options and     *)
(* whatever another client sends: the parser reads what the grammar says,  *)
(* success is for the user that is meant, and the exchange implements      *)
(* Authentication.                                                         *)
(***************************************************************************)
EXTENDS Exchange, SequenceTheorems, NaturalsInduction, WellFoundedInduction,
        TLAPS

\* The parser.

LEMMA LeastOf ==
  ASSUME NEW P \in SUBSET Nat, P # {}
  PROVE  Min(P) \in P /\ \A y \in P : Min(P) <= y
<1>1. PICK x \in P : \A y \in P : ~ (<<y, x>> \in OpToRel(<, Nat))
  BY WFMin, NatLessThanWellFounded, Zenon
<1>2. ASSUME NEW y \in P PROVE x <= y
  <2>1. x \in Nat /\ y \in Nat /\ <<y, x>> \in Nat \X Nat
    OBVIOUS
  <2>2. ~ (y < x)
    BY <1>1, <2>1 DEF OpToRel
  <2> QED BY <2>1, <2>2
<1> QED BY <1>2 DEF Min

\* n is the first place in a .. b that is in P, or 0 without one.
IsFirst(n, P, a, b) ==
  \/ n = 0 /\ \A k \in a .. b : k \notin P
  \/ n \in a .. b /\ n \in P /\ \A k \in a .. n - 1 : k \notin P

LEMMA FirstIn ==
  ASSUME NEW P, NEW a \in Nat, NEW b \in Int
  PROVE  LET I == {k \in a .. b : k \in P}
         IN  IsFirst(IF I # {} THEN Min(I) ELSE 0, P, a, b)
<1> DEFINE I == {k \in a .. b : k \in P}
<1>1. CASE I = {}
  BY <1>1 DEF IsFirst
<1>2. CASE I # {}
  <2>1. I \in SUBSET Nat
    OBVIOUS
  <2>2. Min(I) \in I /\ \A y \in I : Min(I) <= y
    BY <1>2, <2>1, LeastOf
  <2> QED BY <1>2, <2>2 DEF IsFirst
<1> QED BY <1>1, <1>2

Spaces(m) == {n \in Nat : m[n] = SP}
Others(m) == {n \in Nat : m[n] # SP}
Ends(m) == {n \in Nat : m[n] = SOH}

LEMMA FindIsFirst ==
  ASSUME NEW m \in Seq(Symbols), NEW a \in Nat
  PROVE  IsFirst(Find(m, SOH, a), Ends(m), a, Len(m))
<1>1. Len(m) \in Int
  OBVIOUS
<1>2. {i \in a .. Len(m) : m[i] = SOH} = {k \in a .. Len(m) : k \in Ends(m)}
  BY DEF Ends
<1> QED BY <1>1, <1>2, FirstIn DEF Find, SelectInSubSeq

LEMMA ScansAreFirst ==
  ASSUME NEW m, NEW a \in Nat, NEW b \in Int
  PROVE  /\ IsFirst(SelectInSubSeq(m, a, b, LAMBDA x : x = SP),
                    Spaces(m), a, b)
         /\ IsFirst(SelectInSubSeq(m, a, b, LAMBDA x : x # SP),
                    Others(m), a, b)
<1>1. {i \in a .. b : m[i] = SP} = {k \in a .. b : k \in Spaces(m)}
  BY DEF Spaces
<1>2. {i \in a .. b : m[i] # SP} = {k \in a .. b : k \in Others(m)}
  BY DEF Others
<1>3. IsFirst(SelectInSubSeq(m, a, b, LAMBDA x : x = SP), Spaces(m), a, b)
  BY <1>1, FirstIn DEF SelectInSubSeq
<1>4. IsFirst(SelectInSubSeq(m, a, b, LAMBDA x : x # SP), Others(m), a, b)
  BY <1>2, FirstIn DEF SelectInSubSeq
<1> QED BY <1>3, <1>4

\* What Parse looks at.
Scanned(m, u, b, s, t) ==
  /\ IsFirst(u, Ends(m), 2, Len(m))
  /\ IsFirst(b, Ends(m), u + 2, Len(m))
  /\ IsFirst(s, Spaces(m), u + 2, b - 1)
  /\ IsFirst(t, Others(m), s + 1, b - 1)

Complete(m, u, b, s, t) ==
  /\ Len(m) > 0 /\ m[1] = USER
  /\ u # 0
  /\ u < Len(m) /\ m[u + 1] = AUTH
  /\ b # 0
  /\ b + 1 = Len(m) /\ m[b + 1] = SOH
  /\ s # 0
  /\ t # 0

LEMMA ParseScans ==
  ASSUME NEW m \in Seq(Symbols)
  PROVE  \E u, b, s, t \in Nat :
           /\ Scanned(m, u, b, s, t)
           /\ Parse(m) =
                IF Complete(m, u, b, s, t)
                THEN [ok |-> TRUE,
                      authid |-> SubSeq(m, 2, u - 1),
                      type   |-> SubSeq(m, u + 2, s - 1),
                      token  |-> SubSeq(m, t, b - 1)]
                ELSE [ok |-> FALSE, authid |-> <<>>, type |-> <<>>,
                      token |-> <<>>]
<1> DEFINE u == Find(m, SOH, 2)
           b == Find(m, SOH, u + 2)
           s == SelectInSubSeq(m, u + 2, b - 1, LAMBDA x : x = SP)
           t == SelectInSubSeq(m, s + 1, b - 1, LAMBDA x : x # SP)
<1>1. Parse(m) =
        IF Complete(m, u, b, s, t)
        THEN [ok |-> TRUE,
              authid |-> SubSeq(m, 2, u - 1),
              type   |-> SubSeq(m, u + 2, s - 1),
              token  |-> SubSeq(m, t, b - 1)]
        ELSE [ok |-> FALSE, authid |-> <<>>, type |-> <<>>, token |-> <<>>]
  BY Zenon DEF Parse, Complete
<1>2. \A n, P, c, d : c \in Nat /\ d \in Int /\ IsFirst(n, P, c, d)
                        => n \in Nat
  BY DEF IsFirst
<1>3. Len(m) \in Nat
  OBVIOUS
<1>4. IsFirst(u, Ends(m), 2, Len(m)) /\ u \in Nat
  BY <1>2, <1>3, FindIsFirst
<1> HIDE DEF u
<1>5. IsFirst(b, Ends(m), u + 2, Len(m)) /\ b \in Nat
  BY <1>2, <1>3, <1>4, FindIsFirst
<1> HIDE DEF b
<1>6. IsFirst(s, Spaces(m), u + 2, b - 1)
  <2>1. u + 2 \in Nat /\ b - 1 \in Int
    BY <1>4, <1>5
  <2> QED BY <2>1, ScansAreFirst, Zenon
<1>7. s \in Nat
  <2>1. u + 2 \in Nat /\ b - 1 \in Int
    BY <1>4, <1>5
  <2> QED BY <1>2, <1>6, <2>1
<1> HIDE DEF s
<1>8. IsFirst(t, Others(m), s + 1, b - 1)
  <2>1. s + 1 \in Nat /\ b - 1 \in Int
    BY <1>7, <1>5
  <2> QED BY <2>1, ScansAreFirst, Zenon
<1>9. t \in Nat
  <2>1. s + 1 \in Nat /\ b - 1 \in Int
    BY <1>7, <1>5
  <2> QED BY <1>2, <1>8, <2>1
<1> HIDE DEF t
<1>10. Scanned(m, u, b, s, t)
  BY <1>4, <1>5, <1>6, <1>8 DEF Scanned
<1> QED BY <1>1, <1>4, <1>5, <1>7, <1>9, <1>10

\* A complete message can be cut where the scans have stopped.
LEMMA CompleteIsCut ==
  ASSUME NEW m \in Seq(Symbols), NEW u \in Nat, NEW b \in Nat, NEW s \in Nat,
         NEW t \in Nat, Scanned(m, u, b, s, t), Complete(m, u, b, s, t)
  PROVE  /\ <<u, s, t>> \in Places(m, SOH) \X Places(m, SP) \X (1 .. Len(m))
         /\ IsResponse(m, u, s, t)
         /\ b = Len(m) - 1
<1>1. Len(m) \in Nat /\ b = Len(m) - 1 /\ m[1] = USER /\ m[u + 1] = AUTH
  BY DEF Complete
<1>2. /\ u \in 2 .. Len(m) /\ m[u] = SOH
      /\ \A k \in 2 .. u - 1 : m[k] # SOH
  BY DEF Scanned, Complete, IsFirst, Ends
<1>3. /\ b \in u + 2 .. Len(m) /\ m[b] = SOH /\ m[b + 1] = SOH
      /\ \A k \in u + 2 .. b - 1 : m[k] # SOH
  BY <1>2 DEF Scanned, Complete, IsFirst, Ends
<1>4. /\ s \in u + 2 .. b - 1 /\ m[s] = SP
      /\ \A k \in u + 2 .. s - 1 : m[k] # SP
  BY <1>2, <1>3 DEF Scanned, Complete, IsFirst, Spaces
<1>5. /\ t \in s + 1 .. b - 1 /\ m[t] # SP
      /\ \A k \in s + 1 .. t - 1 : m[k] = SP
  BY <1>3, <1>4 DEF Scanned, Complete, IsFirst, Others
<1>6. Places(m, SOH) = {u, b, b + 1}
  <2>1. ASSUME NEW k \in 1 .. Len(m), m[k] = SOH
        PROVE  k \in {u, b, b + 1}
    <3>1. k # 1 /\ k # u + 1
      BY <1>1, <2>1 DEF USER, AUTH, SOH
    <3>2. k \notin 2 .. u - 1 /\ k \notin u + 2 .. b - 1
      BY <1>2, <1>3, <2>1
    <3> QED BY <1>1, <1>2, <1>3, <3>1, <3>2
  <2>2. u \in 1 .. Len(m) /\ b \in 1 .. Len(m) /\ b + 1 \in 1 .. Len(m)
    BY <1>1, <1>2, <1>3
  <2> QED BY <1>2, <1>3, <2>1, <2>2 DEF Places
<1>7. s .. t - 1 \subseteq Places(m, SP)
  <2>1. \A k \in s .. t - 1 : k \in 1 .. Len(m) /\ m[k] = SP
    BY <1>1, <1>2, <1>3, <1>4, <1>5
  <2> QED BY <2>1 DEF Places
<1>8. (u + 2 .. s - 1) \cap Places(m, SP) = {} /\ t \notin Places(m, SP)
  BY <1>4, <1>5 DEF Places
<1>9. u + 2 <= s /\ s < t /\ t < Len(m) - 1 /\ t \in 1 .. Len(m)
  BY <1>1, <1>2, <1>3, <1>4, <1>5
<1>10. Len(m) - 1 + 1 = b + 1
  BY <1>1
<1>11. IsResponse(m, u, s, t)
  BY <1>1, <1>6, <1>7, <1>8, <1>9, <1>10 DEF IsResponse
<1>12. s \in Places(m, SP)
  BY <1>1, <1>2, <1>3, <1>4 DEF Places
<1> QED BY <1>1, <1>6, <1>9, <1>11, <1>12

\* And there is no other way to cut a message than this one.
LEMMA CutIsScanned ==
  ASSUME NEW m \in Seq(Symbols), NEW u \in Nat, NEW b \in Nat, NEW s \in Nat,
         NEW t \in Nat, Scanned(m, u, b, s, t),
         NEW v \in Places(m, SOH), NEW r \in Places(m, SP),
         NEW w \in 1 .. Len(m), IsResponse(m, v, r, w)
  PROVE  Complete(m, u, b, s, t) /\ v = u /\ r = s /\ w = t
<1> DEFINE e == Len(m) - 1
<1>1. /\ Len(m) \in Nat /\ v \in 1 .. Len(m) /\ r \in 1 .. Len(m)
      /\ v + 2 <= r /\ r < w /\ w < e
      /\ m[1] = USER /\ m[v + 1] = AUTH
  BY DEF Places, IsResponse
<1>2. Places(m, SOH) = {v, e, e + 1}
  BY DEF IsResponse
<1>3. /\ m[v] = SOH /\ m[e] = SOH /\ m[e + 1] = SOH
      /\ \A k \in 1 .. Len(m) : m[k] = SOH => k \in {v, e, e + 1}
  BY <1>2 DEF Places
<1>4. /\ \A k \in r .. w - 1 : m[k] = SP
      /\ \A k \in v + 2 .. r - 1 : m[k] # SP
      /\ m[w] # SP
  <2>1. /\ r .. w - 1 \subseteq Places(m, SP)
        /\ (v + 2 .. r - 1) \cap Places(m, SP) = {}
        /\ w \notin Places(m, SP)
    BY DEF IsResponse
  <2>2. \A k \in v + 2 .. r - 1 : k \in 1 .. Len(m)
    BY <1>1
  <2> QED BY <2>1, <2>2 DEF Places
<1>5. v # 1
  BY <1>1, <1>3 DEF USER, SOH
<1>6. u = v
  <2>1. v \in 2 .. Len(m) /\ v \in Ends(m)
    BY <1>1, <1>3, <1>5 DEF Ends
  <2>2. \A k \in 2 .. v - 1 : k \notin Ends(m)
    BY <1>1, <1>3 DEF Ends
  <2> QED BY <1>1, <2>1, <2>2 DEF Scanned, IsFirst
<1>7. b = e
  <2>1. e \in u + 2 .. Len(m) /\ e \in Ends(m)
    BY <1>1, <1>3, <1>6 DEF Ends
  <2>2. ASSUME NEW k \in u + 2 .. e - 1
        PROVE  k \notin Ends(m)
    <3>1. k \in 1 .. Len(m) /\ k # v /\ k # e /\ k # e + 1
      BY <1>1, <1>6
    <3> QED BY <1>3, <3>1 DEF Ends
  <2> QED BY <1>1, <1>6, <2>1, <2>2 DEF Scanned, IsFirst
<1>8. s = r
  <2>1. r \in u + 2 .. b - 1 /\ r \in Spaces(m)
    BY <1>1, <1>4, <1>6, <1>7 DEF Spaces
  <2>2. \A k \in u + 2 .. r - 1 : k \notin Spaces(m)
    BY <1>4, <1>6 DEF Spaces
  <2> QED BY <1>1, <1>6, <1>7, <2>1, <2>2 DEF Scanned, IsFirst
<1>9. t = w
  <2>1. w \in s + 1 .. b - 1 /\ w \in Others(m)
    BY <1>1, <1>4, <1>7, <1>8 DEF Others
  <2>2. \A k \in s + 1 .. w - 1 : k \notin Others(m)
    BY <1>1, <1>4, <1>8 DEF Others
  <2> QED BY <1>1, <1>7, <1>8, <2>1, <2>2 DEF Scanned, IsFirst
<1>10. Complete(m, u, b, s, t)
  BY <1>1, <1>3, <1>6, <1>7, <1>8, <1>9 DEF Complete
<1> QED BY <1>6, <1>8, <1>9, <1>10

(***************************************************************************)
(* What the server works for is what the grammar says, in any message.     *)
(***************************************************************************)
LEMMA ParserIsGrammar ==
  ASSUME NEW m \in Seq(Symbols)
  PROVE  Asks(Parse(m)) = Said(m)
<1>1. PICK u, b, s, t \in Nat :
        /\ Scanned(m, u, b, s, t)
        /\ Parse(m) =
             IF Complete(m, u, b, s, t)
             THEN [ok |-> TRUE,
                   authid |-> SubSeq(m, 2, u - 1),
                   type   |-> SubSeq(m, u + 2, s - 1),
                   token  |-> SubSeq(m, t, b - 1)]
             ELSE [ok |-> FALSE, authid |-> <<>>, type |-> <<>>,
                   token |-> <<>>]
  BY ParseScans
<1>2. \A c \in WaysToCut(m) : Complete(m, u, b, s, t) /\ c = <<u, s, t>>
  <2> SUFFICES ASSUME NEW c \in WaysToCut(m)
               PROVE  Complete(m, u, b, s, t) /\ c = <<u, s, t>>
    OBVIOUS
  <2>1. /\ c \in Places(m, SOH) \X Places(m, SP) \X (1 .. Len(m))
        /\ IsResponse(m, c[1], c[2], c[3])
    BY DEF WaysToCut
  <2> QED BY <1>1, <2>1, CutIsScanned
<1>3. CASE Complete(m, u, b, s, t)
  <2>1. WaysToCut(m) = {<<u, s, t>>} /\ b - 1 = Len(m) - 2
    <3>1. <<u, s, t>> \in WaysToCut(m) /\ b = Len(m) - 1
      BY <1>1, <1>3, CompleteIsCut DEF WaysToCut
    <3> QED BY <1>2, <3>1
  <2>2. /\ Parse(m).ok = TRUE
        /\ Parse(m).authid = SubSeq(m, 2, u - 1)
        /\ Parse(m).type = SubSeq(m, u + 2, s - 1)
        /\ Parse(m).token = SubSeq(m, t, Len(m) - 2)
    <3>1. Parse(m) = [ok |-> TRUE, authid |-> SubSeq(m, 2, u - 1),
                      type |-> SubSeq(m, u + 2, s - 1),
                      token |-> SubSeq(m, t, b - 1)]
      BY <1>1, <1>3
    <3> QED BY <2>1, <3>1
  <2>3. CASE SubSeq(m, u + 2, s - 1) = <<BEARER>>
    <3>1. {d \in WaysToCut(m) : SubSeq(m, d[1] + 2, d[2] - 1) = <<BEARER>>}
            = {<<u, s, t>>}
      BY <2>1, <2>3
    <3>2. Said(m) = {[user |-> CString(SubSeq(m, 2, u - 1)),
                      token |-> CString(SubSeq(m, t, Len(m) - 2))]}
      <4> DEFINE Fields(c) == [user |-> CString(SubSeq(m, 2, c[1] - 1)),
                              token |-> CString(SubSeq(m, c[3], Len(m) - 2))]
      <4>1. Said(m) = {Fields(c) : c \in {<<u, s, t>>}}
        BY <3>1, Zenon DEF Said
      <4>2. {Fields(c) : c \in {<<u, s, t>>}} = {Fields(<<u, s, t>>)}
        OBVIOUS
      <4> QED BY <4>1, <4>2
    <3> QED BY <2>2, <2>3, <3>2 DEF Asks, Bearer
  <2>4. CASE SubSeq(m, u + 2, s - 1) # <<BEARER>>
    <3>1. {d \in WaysToCut(m) : SubSeq(m, d[1] + 2, d[2] - 1) = <<BEARER>>}
            = {}
      BY <2>1, <2>4
    <3>2. Said(m) = {}
      BY <3>1 DEF Said
    <3> QED BY <2>2, <2>4, <3>2 DEF Asks, Bearer
  <2> QED BY <2>3, <2>4
<1>4. CASE ~Complete(m, u, b, s, t)
  <2>1. WaysToCut(m) = {}
    BY <1>2, <1>4
  <2>2. Said(m) = {}
    BY <2>1 DEF Said
  <2>3. ~Parse(m).ok
    BY <1>1, <1>4
  <2> QED BY <2>2, <2>3 DEF Asks, Bearer
<1> QED BY <1>3, <1>4

\* A text without a zero byte is a C string as it is.
LEMMA CStringIsText ==
  ASSUME NEW x \in Seq(Symbols), \A n \in 1 .. Len(x) : x[n] \notin {SOH, NUL}
  PROVE  CString(x) = x
<1>1. {i \in 1 .. Len(x) : x[i] = NUL} = {}
  OBVIOUS
<1>2. SelectInSeq(x, LAMBDA y : y = NUL) = 0
  BY <1>1, Zenon DEF SelectInSeq
<1> QED BY <1>2, Zenon DEF CString

\* What the client builds, symbol by symbol.
LEMMA BuiltSymbols ==
  ASSUME NEW a \in Seq(Symbols), NEW x \in Seq(Symbols)
  PROVE  LET m == Build(a, <<BEARER>>, x)
             k == Len(a)
             n == Len(x)
         IN  /\ m \in Seq(Symbols) /\ Len(m) = k + n + 7
             /\ m[1] = USER
             /\ \A i \in 1 .. k : m[i + 1] = a[i]
             /\ m[k + 2] = SOH /\ m[k + 3] = AUTH
             /\ m[k + 4] = BEARER /\ m[k + 5] = SP
             /\ \A i \in 1 .. n : m[k + 5 + i] = x[i]
             /\ m[k + n + 6] = SOH /\ m[k + n + 7] = SOH
<1> DEFINE k == Len(a)
           n == Len(x)
           m1 == <<USER>> \o a
           m2 == m1 \o <<SOH, AUTH>>
           m3 == m2 \o <<BEARER>>
           m4 == m3 \o <<SP>>
           m5 == m4 \o x
           m6 == m5 \o <<SOH, SOH>>
<1>1. /\ <<USER>> \in Seq(Symbols) /\ <<BEARER>> \in Seq(Symbols)
      /\ <<SP>> \in Seq(Symbols)
      /\ <<SOH, AUTH>> \in Seq(Symbols) /\ <<SOH, SOH>> \in Seq(Symbols)
  <2>1. \A X, y, z : y \in X /\ z \in X =>
          <<y>> \in Seq(X) /\ <<y, z>> \in Seq(X)
    OBVIOUS
  <2>2. /\ USER \in Symbols /\ BEARER \in Symbols /\ SP \in Symbols
        /\ SOH \in Symbols /\ AUTH \in Symbols
    BY DEF Symbols
  <2> QED BY <2>1, <2>2
<1>2. k \in Nat /\ n \in Nat
  OBVIOUS
<1>3. /\ m1 \in Seq(Symbols) /\ Len(m1) = k + 1 /\ m1[1] = USER
      /\ \A i \in 1 .. k : m1[i + 1] = a[i]
  BY <1>1, ConcatProperties
<1> HIDE DEF m1
<1>4. /\ m2 \in Seq(Symbols) /\ Len(m2) = k + 3
      /\ \A i \in 1 .. k + 1 : m2[i] = m1[i]
      /\ m2[k + 2] = SOH /\ m2[k + 3] = AUTH
  BY <1>1, <1>2, <1>3, ConcatProperties
<1> HIDE DEF m2
<1>5. /\ m3 \in Seq(Symbols) /\ Len(m3) = k + 4
      /\ \A i \in 1 .. k + 3 : m3[i] = m2[i]
      /\ m3[k + 4] = BEARER
  BY <1>1, <1>2, <1>4, ConcatProperties
<1> HIDE DEF m3
<1>6. /\ m4 \in Seq(Symbols) /\ Len(m4) = k + 5
      /\ \A i \in 1 .. k + 4 : m4[i] = m3[i]
      /\ m4[k + 5] = SP
  BY <1>1, <1>2, <1>5, ConcatProperties
<1> HIDE DEF m4
<1>7. /\ m5 \in Seq(Symbols) /\ Len(m5) = k + n + 5
      /\ \A i \in 1 .. k + 5 : m5[i] = m4[i]
      /\ \A i \in 1 .. n : m5[k + 5 + i] = x[i]
  <2>1. /\ m5 \in Seq(Symbols) /\ Len(m5) = Len(m4) + n
        /\ \A i \in 1 .. Len(m4) + n :
             m5[i] = IF i <= Len(m4) THEN m4[i] ELSE x[i - Len(m4)]
    BY <1>6, ConcatProperties
  <2> HIDE DEF m5, k, n
  <2> QED BY <1>2, <1>6, <2>1
<1> HIDE DEF m5
<1>8. /\ m6 \in Seq(Symbols) /\ Len(m6) = k + n + 7
      /\ \A i \in 1 .. k + n + 5 : m6[i] = m5[i]
      /\ m6[k + n + 6] = SOH /\ m6[k + n + 7] = SOH
  <2> DEFINE z == <<SOH, SOH>>
  <2>1. Len(z) = 2 /\ z[1] = SOH /\ z[2] = SOH
    OBVIOUS
  <2>2. /\ m6 \in Seq(Symbols) /\ Len(m6) = Len(m5) + Len(z)
        /\ \A i \in 1 .. Len(m5) + Len(z) :
             m6[i] = IF i <= Len(m5) THEN m5[i] ELSE z[i - Len(m5)]
    BY <1>1, <1>7, ConcatProperties
  <2> HIDE DEF m6, k, n, z
  <2> QED BY <1>2, <1>7, <2>1, <2>2
<1>9. Build(a, <<BEARER>>, x) = m6
  BY DEF Build, m1, m2, m3, m4, m5
<1> HIDE DEF m6, k, n
<1>10. \A i \in 1 .. k + 1 : m6[i] = m1[i]
  BY <1>2, <1>4, <1>5, <1>6, <1>7, <1>8
<1>11. /\ m6[k + 2] = SOH /\ m6[k + 3] = AUTH
       /\ m6[k + 4] = BEARER /\ m6[k + 5] = SP
  BY <1>2, <1>4, <1>5, <1>6, <1>7, <1>8
<1>12. \A i \in 1 .. n : m6[k + 5 + i] = x[i]
  <2> SUFFICES ASSUME NEW i \in 1 .. n PROVE m6[k + 5 + i] = x[i]
    OBVIOUS
  <2>1. k + 5 + i \in 1 .. k + n + 5
    BY <1>2
  <2> QED BY <1>7, <1>8, <2>1
<1>13. m6[1] = USER /\ \A i \in 1 .. k : m6[i + 1] = a[i]
  BY <1>2, <1>3, <1>10
<1> QED BY <1>8, <1>9, <1>11, <1>12, <1>13 DEF k, n

LEMMA OneCut ==
  ASSUME NEW m \in Seq(Symbols), NEW c \in WaysToCut(m)
  PROVE  WaysToCut(m) = {c}
<1>1. PICK u, b, s, t \in Nat : Scanned(m, u, b, s, t)
  BY ParseScans
<1>2. ASSUME NEW d \in WaysToCut(m) PROVE d = <<u, s, t>>
  <2>1. /\ d \in Places(m, SOH) \X Places(m, SP) \X (1 .. Len(m))
        /\ IsResponse(m, d[1], d[2], d[3])
    BY DEF WaysToCut
  <2> QED BY <1>1, <2>1, CutIsScanned
<1> QED BY <1>2

LEMMA CutSays ==
  ASSUME NEW m \in Seq(Symbols), NEW c \in WaysToCut(m),
         SubSeq(m, c[1] + 2, c[2] - 1) = <<BEARER>>
  PROVE  Said(m) = {[user |-> CString(SubSeq(m, 2, c[1] - 1)),
                     token |-> CString(SubSeq(m, c[3], Len(m) - 2))]}
<1> DEFINE Fields(d) == [user |-> CString(SubSeq(m, 2, d[1] - 1)),
                        token |-> CString(SubSeq(m, d[3], Len(m) - 2))]
<1>1. {d \in WaysToCut(m) : SubSeq(m, d[1] + 2, d[2] - 1) = <<BEARER>>} = {c}
  BY OneCut
<1>2. Said(m) = {Fields(d) : d \in {c}}
  BY <1>1, Zenon DEF Said
<1>3. {Fields(d) : d \in {c}} = {Fields(c)}
  OBVIOUS
<1> QED BY <1>2, <1>3

LEMMA SubSeqIs ==
  ASSUME NEW m \in Seq(Symbols), NEW x \in Seq(Symbols), NEW o \in Nat,
         o + Len(x) <= Len(m), \A i \in 1 .. Len(x) : m[o + i] = x[i]
  PROVE  SubSeq(m, o + 1, o + Len(x)) = x
<1> DEFINE p == SubSeq(m, o + 1, o + Len(x))
<1>1. \A k \in o + 1 .. o + Len(x) : m[k] \in Symbols
  <2> SUFFICES ASSUME NEW k \in o + 1 .. o + Len(x) PROVE m[k] \in Symbols
    OBVIOUS
  <2>1. k \in 1 .. Len(m)
    OBVIOUS
  <2> QED BY <2>1, ElementOfSeq
<1>2. /\ p \in Seq(Symbols) /\ Len(p) = Len(x)
      /\ \A i \in 1 .. Len(x) : p[i] = m[o + i]
  BY <1>1, SubSeqProperties
<1> HIDE DEF p
<1>3. p = x
  BY <1>2, SeqEqual
<1> QED BY <1>3 DEF p

(***************************************************************************)
(* A message of the plug-in's client says what its application means.      *)
(***************************************************************************)
LEMMA BuiltSaysWish ==
  ASSUME NEW w, Clean(w)
  PROVE  LET m == Build(w.user, <<BEARER>>, w.token)
         IN  m \in Seq(Symbols) /\ Said(m) = {w}
<1> DEFINE a == w.user
           x == w.token
           k == Len(a)
           n == Len(x)
           m == Build(a, <<BEARER>>, x)
<1>1. /\ a \in Seq(Symbols) /\ x \in Seq(Symbols)
      /\ w = [user |-> a, token |-> x]
      /\ \A i \in 1 .. k : a[i] \notin {SOH, NUL}
      /\ \A i \in 1 .. n : x[i] \notin {SOH, NUL}
      /\ x # <<>> /\ x[1] # SP
  BY DEF Clean
<1>2. k \in Nat /\ n \in Nat \ {0}
  BY <1>1, EmptySeq
<1>3. /\ m \in Seq(Symbols) /\ Len(m) = k + n + 7
      /\ m[1] = USER
      /\ \A i \in 1 .. k : m[i + 1] = a[i]
      /\ m[k + 2] = SOH /\ m[k + 3] = AUTH
      /\ m[k + 4] = BEARER /\ m[k + 5] = SP
      /\ \A i \in 1 .. n : m[k + 5 + i] = x[i]
      /\ m[k + n + 6] = SOH /\ m[k + n + 7] = SOH
  BY <1>1, BuiltSymbols
<1> HIDE DEF m, k, n, a, x
<1>len. Len(m) = k + n + 7
  BY <1>3
<1>4. Places(m, SOH) = {k + 2, k + n + 6, k + n + 7}
  <2>1. ASSUME NEW i \in 1 .. Len(m), m[i] = SOH
        PROVE  i \in {k + 2, k + n + 6, k + n + 7}
    <3>1. i # 1 /\ i # k + 3 /\ i # k + 4 /\ i # k + 5
      BY <1>3, <2>1 DEF USER, AUTH, BEARER, SP, SOH
    <3>2. i \notin 2 .. k + 1
      <4> SUFFICES ASSUME i \in 2 .. k + 1 PROVE FALSE
        OBVIOUS
      <4>1. i - 1 \in 1 .. k /\ (i - 1) + 1 = i
        BY <1>2
      <4> QED BY <1>1, <1>3, <2>1, <4>1
    <3>3. i \notin k + 6 .. k + n + 5
      <4> SUFFICES ASSUME i \in k + 6 .. k + n + 5 PROVE FALSE
        OBVIOUS
      <4>1. i - k - 5 \in 1 .. n /\ k + 5 + (i - k - 5) = i
        BY <1>2
      <4> QED BY <1>1, <1>3, <2>1, <4>1
    <3>4. i # k + 2 /\ i # k + n + 6 => i = k + n + 7
      BY <1>2, <1>len, <3>1, <3>2, <3>3
    <3> QED BY <3>4
  <2>2. /\ k + 2 \in 1 .. Len(m) /\ k + n + 6 \in 1 .. Len(m)
        /\ k + n + 7 \in 1 .. Len(m)
    BY <1>2, <1>len
  <2>3. m[k + 2] = SOH /\ m[k + n + 6] = SOH /\ m[k + n + 7] = SOH
    BY <1>3
  <2> QED BY <2>1, <2>2, <2>3 DEF Places
<1>5. IsResponse(m, k + 2, k + 5, k + 6)
  <2>1. m[k + 6] = x[1]
    <3>1. 1 \in 1 .. n /\ k + 5 + 1 = k + 6
      BY <1>2
    <3>2. m[k + 5 + 1] = x[1]
      BY <1>3, <3>1
    <3> QED BY <3>1, <3>2
  <2>2. k + 5 .. (k + 6) - 1 = {k + 5} /\ (k + 2) + 2 .. (k + 5) - 1 = {k + 4}
    BY <1>2
  <2>3. k + 5 \in Places(m, SP) /\ k + 4 \notin Places(m, SP)
        /\ k + 6 \notin Places(m, SP)
    <3>1. k + 5 \in 1 .. Len(m)
      BY <1>2, <1>3
    <3>2. m[k + 4] # SP /\ m[k + 6] # SP
      BY <1>1, <1>3, <2>1 DEF BEARER, SP
    <3> QED BY <1>3, <3>1, <3>2 DEF Places
  <2>4. Len(m) - 1 = k + n + 6 /\ k + 6 < Len(m) - 1 /\ (k + 2) + 1 = k + 3
        /\ (k + n + 6) + 1 = k + n + 7
    BY <1>2, <1>len
  <2>5. (k + 2) + 2 <= k + 5 /\ k + 5 < k + 6
    BY <1>2
  <2> QED BY <1>3, <1>4, <2>2, <2>3, <2>4, <2>5 DEF IsResponse
<1> DEFINE c == <<k + 2, k + 5, k + 6>>
<1>6. c \in WaysToCut(m)
  <2>1. k + 2 \in Places(m, SOH) /\ k + 5 \in Places(m, SP)
        /\ k + 6 \in 1 .. Len(m)
    BY <1>2, <1>3, <1>4 DEF Places
  <2> QED BY <1>5, <2>1 DEF WaysToCut
<1>7. /\ SubSeq(m, c[1] + 2, c[2] - 1) = <<BEARER>>
      /\ SubSeq(m, 2, c[1] - 1) = a
      /\ SubSeq(m, c[3], Len(m) - 2) = x
  <2>1. /\ c[1] + 2 = (k + 3) + 1 /\ c[2] - 1 = (k + 3) + 1
        /\ c[1] - 1 = 1 + k /\ c[3] = (k + 5) + 1
        /\ Len(m) - 2 = (k + 5) + n
    BY <1>2, <1>len
  <2>2. SubSeq(m, (k + 3) + 1, (k + 3) + 1) = <<BEARER>>
    <3> DEFINE z == <<BEARER>>
    <3>1. z \in Seq(Symbols) /\ Len(z) = 1 /\ z[1] = BEARER
      <4>1. BEARER \in Symbols
        BY DEF Symbols
      <4> QED BY <4>1
    <3> HIDE DEF z
    <3>2. (k + 3) + 1 = k + 4 /\ k + 3 \in Nat /\ (k + 3) + 1 <= Len(m)
      BY <1>2, <1>3
    <3>3. SubSeq(m, (k + 3) + 1, (k + 3) + Len(z)) = z
      BY <1>3, <3>1, <3>2, SubSeqIs
    <3> QED BY <3>1, <3>3 DEF z
  <2>3. SubSeq(m, 1 + 1, 1 + k) = a
    <3>1. 1 + Len(a) <= Len(m) /\ \A i \in 1 .. Len(a) : m[1 + i] = a[i]
      BY <1>2, <1>3 DEF k
    <3> QED BY <1>1, <1>3, <3>1, SubSeqIs DEF k
  <2>4. SubSeq(m, (k + 5) + 1, (k + 5) + n) = x
    <3>1. k + 5 \in Nat /\ (k + 5) + Len(x) <= Len(m)
          /\ \A i \in 1 .. Len(x) : m[(k + 5) + i] = x[i]
      BY <1>2, <1>3 DEF n
    <3> QED BY <1>1, <1>3, <3>1, SubSeqIs DEF n
  <2> QED BY <2>1, <2>2, <2>3, <2>4
<1> HIDE DEF c
<1>8. CString(a) = a /\ CString(x) = x
  BY <1>1, CStringIsText DEF k, n
<1>9. Said(m) = {[user |-> CString(a), token |-> CString(x)]}
  BY <1>3, <1>6, <1>7, CutSays
<1>10. m \in Seq(Symbols) /\ Said(m) = {w}
  BY <1>1, <1>3, <1>8, <1>9
<1> QED BY <1>10 DEF m, a, x

-----------------------------------------------------------------------------
\* The turns.

LEMMA SameMessage ==
  ASSUME NEW w
  PROVE  C!Build(w.user, <<C!BEARER>>, w.token)
           = Build(w.user, <<BEARER>>, w.token)
BY DEF C!Build, Build, C!USER, USER, C!SOH, SOH, C!AUTH, AUTH, C!SP, SP,
       C!BEARER, BEARER

Inv == TypeOK /\ TurnInv /\ RequestInv

\* A sequence that is not empty begins with something.
LEMMA FirstOf ==
  ASSUME NEW X, NEW q \in Seq(X)
  PROVE  /\ Len(q) \in Nat /\ (q = <<>> <=> Len(q) = 0)
         /\ \A x \in X : /\ Append(q, x) \in Seq(X)
                         /\ Len(Append(q, x)) = Len(q) + 1
                         /\ q # <<>> => Append(q, x)[1] = q[1]
                         /\ q = <<>> => Append(q, x)[1] = x
OBVIOUS

LEMMA InitInv == Init => Inv
<1> SUFFICES ASSUME Init PROVE Inv
  OBVIOUS
<1>1. /\ toServer = <<>> /\ toClient = <<>> /\ taken = 0 /\ read = 0
      /\ foreign \in BOOLEAN /\ short \in BOOLEAN
      /\ ~foreign => meant \in Wishes
      /\ sphase = "none" /\ canswer = "none"
  BY DEF Init, C!Init, S!Init
<1>2. "success" \notin Sent
  BY <1>1 DEF Sent
<1>3. TypeOK
  BY <1>1 DEF TypeOK, Conversations
<1>4. TurnInv /\ RequestInv
  BY <1>1, <1>2 DEF TurnInv, RequestInv, Challenged
<1> QED BY <1>3, <1>4 DEF Inv

LEMMA SentIs ==
  ASSUME TypeOK
  PROVE  /\ "success" \in Sent <=> toClient = <<"success">>
         /\ "challenge" \in Sent <=> Challenged
         /\ "failure" \in Sent <=>
              toClient \in {<<"failure">>, <<"challenge", "failure">>}
         /\ Challenged <=>
              toClient \in {<<"challenge">>, <<"challenge", "failure">>}
<1>1. CASE toClient = <<>>
  BY <1>1 DEF Sent, Challenged
<1>2. ASSUME NEW x \in {"success", "failure", "challenge"}, toClient = <<x>>
      PROVE  \A y : y \in Sent <=> y = x
  <2>1. Len(toClient) = 1 /\ toClient[1] = x
    BY <1>2
  <2> QED BY <2>1 DEF Sent
<1>3. CASE toClient = <<"challenge", "failure">>
  <2>1. Len(toClient) = 2 /\ toClient[1] = "challenge"
        /\ toClient[2] = "failure"
    BY <1>3
  <2>2. \A y : y \in Sent <=> y \in {"challenge", "failure"}
    BY <2>1 DEF Sent
  <2> QED BY <1>3, <2>1, <2>2 DEF Challenged
<1>4. CASE \E x \in {"success", "failure", "challenge"} : toClient = <<x>>
  BY <1>2, <1>4 DEF Challenged
<1> QED BY <1>1, <1>3, <1>4 DEF TypeOK, Conversations

LEMMA ClientWorksInv ==
  ASSUME Inv, ClientWorks \/ ClientLeaves
  PROVE  Inv'
<1>1. UNCHANGED <<server, foreign, wire, meant, short>>
  BY DEF ClientWorks, ClientLeaves, C!Open, C!OpenFails, C!Call, C!Return,
         C!Canon, C!Die, C!Close
<1>2. canswer' = canswer \/ canswer' # "SASL_OK"
  BY DEF ClientWorks, ClientLeaves, C!Open, C!OpenFails, C!Call, C!Return,
         C!Canon, C!Die, C!Close
<1>3. toServer = <<>> \/ cuser' = cuser
  BY DEF ClientWorks, ClientLeaves, C!Close
<1>4. "success" \in Sent' <=> "success" \in Sent
  BY <1>1 DEF Sent, wire
<1> QED BY <1>1, <1>2, <1>3, <1>4
        DEF Inv, TypeOK, TurnInv, RequestInv, Challenged, server, wire

\* The first message.
LEMMA SendsInv ==
  ASSUME Inv, ClientSends \/ ForeignSends
  PROVE  Inv'
<1>1. /\ toServer = <<>> /\ toClient = <<>> /\ read = 0 /\ taken = 0
      /\ UNCHANGED <<server, foreign, taken, toClient, read, meant, short>>
      /\ canswer' = canswer \/ canswer' # "SASL_OK"
  <2>1. /\ toServer = <<>>
        /\ UNCHANGED <<server, foreign, taken, toClient, read, meant, short>>
        /\ canswer' = canswer \/ canswer' # "SASL_OK"
    BY DEF ClientSends, ForeignSends, C!Send, client
  <2> QED BY <2>1 DEF Inv, TypeOK, TurnInv
<1>2. PICK m \in Seq(Symbols) :
        /\ toServer' = Append(toServer, m)
        /\ ~foreign =>
             /\ cuser' = meant.user
             /\ ~short => m = Build(meant.user, <<BEARER>>, meant.token)
  <2>1. CASE ForeignSends
    BY <2>1, ExchangeAssumption DEF ForeignSends
  <2>2. CASE ClientSends
    <3>1. /\ ~foreign /\ cuser' = meant.user
          /\ toServer' = Append(toServer, response')
          /\ \/ response' = Build(meant.user, <<BEARER>>, meant.token)
             \/ short /\ response' \in Garbled
      BY <2>2, SameMessage DEF ClientSends, C!Send
    <3>2. Clean(meant)
      BY <3>1, ExchangeAssumption DEF Inv, RequestInv
    <3>3. response' \in Seq(Symbols)
      BY <3>1, <3>2, BuiltSaysWish, ExchangeAssumption
    <3> QED BY <3>1, <3>3
  <2> QED BY <2>1, <2>2
<1>3. /\ toServer' = <<m>> /\ toServer' \in Seq(Seq(Symbols))
      /\ Len(toServer') = 1 /\ toServer'[1] = m
  BY <1>1, <1>2
<1>4. "success" \notin Sent' /\ sphase # "busy" /\ ~Challenged'
  <2>1. "success" \notin Sent'
    BY <1>1 DEF Sent
  <2>2. sphase # "busy"
    BY <1>1 DEF Inv, TurnInv
  <2> QED BY <1>1, <2>1, <2>2 DEF Challenged
<1>5. TypeOK'
  BY <1>1, <1>3 DEF Inv, TypeOK, server
<1>6. TurnInv'
  BY <1>1, <1>3, <1>4 DEF Inv, TurnInv, server, Challenged
<1>7. RequestInv'
  BY <1>1, <1>2, <1>3, <1>4 DEF Inv, RequestInv, server, Challenged
<1> QED BY <1>5, <1>6, <1>7 DEF Inv

\* What the client does with the answers.
LEMMA TakesInv ==
  ASSUME Inv, ClientTakes \/ ForeignTakes
  PROVE  Inv'
<1>1. /\ read < Len(toClient) /\ read' = read + 1
      /\ UNCHANGED <<server, foreign, taken, toClient, meant, short>>
  BY DEF ClientTakes, ForeignTakes, Arrived, C!Answer, client
<1>2. /\ cuser' = cuser
      /\ canswer' = "SASL_OK" => canswer = "SASL_OK" \/ Challenged
  <2>1. CASE ForeignTakes
    BY <2>1 DEF ForeignTakes, client
  <2>2. CASE ClientTakes
    <3>1. Arriving = "challenge" => Challenged
      <4>1. CASE toClient = <<"challenge", "failure">>
        BY <4>1 DEF Challenged
      <4>2. CASE \E x \in {"success", "failure", "challenge"} :
                   toClient = <<x>>
        <5>1. Len(toClient) = 1 /\ read = 0
          BY <1>1, <4>2 DEF Inv, TypeOK
        <5> QED BY <4>2, <5>1 DEF Arriving, Challenged
      <4>3. toClient # <<>>
        BY <1>1 DEF Inv, TypeOK
      <4> QED BY <4>1, <4>2, <4>3 DEF Inv, TypeOK, Conversations
    <3> QED BY <2>2, <3>1 DEF ClientTakes, C!Answer, client
  <2> QED BY <2>1, <2>2
<1>3. \/ toServer' = toServer
      \/ /\ Arriving = "challenge"
         /\ \E m \in Seq(Symbols) : toServer' = Append(toServer, m)
  <2>1. CASE ForeignTakes
    BY <2>1, ExchangeAssumption DEF ForeignTakes
  <2>2. CASE ClientTakes
    <3>1. <<>> \in Seq(Symbols)
      OBVIOUS
    <3> QED BY <2>2, <3>1 DEF ClientTakes, C!Answer
  <2> QED BY <2>1, <2>2
<1>4. /\ toServer # <<>> /\ toServer \in Seq(Seq(Symbols)) /\ toClient # <<>>
      /\ Len(toServer) \in Nat \ {0}
  <2>1. toServer # <<>> /\ toServer \in Seq(Seq(Symbols)) /\ toClient # <<>>
    BY <1>1 DEF Inv, TypeOK, TurnInv
  <2> QED BY <2>1, FirstOf
<1>5. Len(toClient) \in Nat /\ read \in Nat
  BY DEF Inv, TypeOK, Conversations
<1>turn. read = 0 => Len(toServer) = 1
  <2> DEFINE len == Len(toServer)
  <2>1. len <= 2 /\ (len = 2 => read > 0)
    BY DEF Inv, TurnInv
  <2>2. len \in Nat \ {0}
    BY <1>4
  <2> HIDE DEF len
  <2>3. read = 0 => len = 1
    BY <1>5, <2>1, <2>2
  <2> QED BY <2>3 DEF len
<1>6. Arriving = "challenge" => Challenged /\ read = 0 /\ Len(toServer) = 1
  <2>1. CASE toClient = <<"challenge", "failure">>
    <3>1. /\ Len(toClient) = 2 /\ toClient[2] = "failure"
          /\ toClient[1] = "challenge"
      BY <2>1
    <3>2. Arriving = "challenge" => read = 0
      BY <1>1, <1>5, <3>1 DEF Arriving
    <3> QED BY <1>4, <1>turn, <3>1, <3>2 DEF Challenged
  <2>2. CASE \E x \in {"success", "failure", "challenge"} : toClient = <<x>>
    <3>1. Len(toClient) = 1 /\ read = 0
      BY <1>1, <1>5, <2>2
    <3>2. Arriving = toClient[1]
      BY <3>1 DEF Arriving
    <3> QED BY <1>4, <1>turn, <3>1, <3>2 DEF Challenged
  <2> QED BY <1>4, <2>1, <2>2 DEF Inv, TypeOK, Conversations
<1>7. /\ toServer' \in Seq(Seq(Symbols)) /\ toServer' # <<>>
      /\ toServer'[1] = toServer[1]
      /\ Len(toServer') >= Len(toServer)
      /\ Len(toServer') <= 2
      /\ Len(toServer') = Len(toServer) \/ Challenged
  <2>1. Len(toServer) \in Nat
    BY <1>4
  <2>2. CASE toServer' = toServer
    BY <1>4, <2>1, <2>2 DEF Inv, TurnInv
  <2>3. CASE Arriving = "challenge"
             /\ \E m \in Seq(Symbols) : toServer' = Append(toServer, m)
    <3>1. PICK m \in Seq(Symbols) : toServer' = Append(toServer, m)
      BY <2>3
    <3>2. /\ toServer' \in Seq(Seq(Symbols))
          /\ Len(toServer') = Len(toServer) + 1
          /\ toServer'[1] = toServer[1]
      BY <1>4, <3>1, FirstOf
    <3>3. toServer' # <<>>
      BY <2>1, <3>2
    <3>4. Challenged /\ Len(toServer) = 1
      BY <1>6, <2>3
    <3>5. Len(toServer') = 2
      BY <3>2, <3>4
    <3> QED BY <3>2, <3>3, <3>4, <3>5
  <2> QED BY <1>3, <2>2, <2>3
<1>8. "success" \in Sent' <=> "success" \in Sent
  BY <1>1 DEF Sent
<1>9. TypeOK'
  <2>1. read' \in 0 .. Len(toClient) /\ taken \in 0 .. Len(toServer')
    BY <1>1, <1>5, <1>4, <1>7 DEF Inv, TypeOK
  <2> QED BY <1>1, <1>7, <2>1 DEF Inv, TypeOK, server
<1>10. TurnInv'
  BY <1>1, <1>4, <1>5, <1>7 DEF Inv, TurnInv, Challenged, server
<1>11. RequestInv'
  BY <1>1, <1>2, <1>4, <1>7, <1>8 DEF Inv, RequestInv, Challenged, server
<1> QED BY <1>9, <1>10, <1>11 DEF Inv

LEMMA TwoReplies ==
  ASSUME NEW X, NEW x \in X, NEW y \in X
  PROVE  Append(<<y>>, x) = <<y, x>>
<1> DEFINE p == Append(<<y>>, x)
           q == <<y, x>>
<1>1. <<y>> \in Seq(X) /\ Len(<<y>>) = 1 /\ <<y>>[1] = y
  OBVIOUS
<1>2. p \in Seq(X) /\ Len(p) = 2 /\ p[1] = y /\ p[2] = x
  BY <1>1, AppendProperties
<1>3. q \in Seq(X) /\ Len(q) = 2 /\ q[1] = y /\ q[2] = x
  OBVIOUS
<1> HIDE DEF p, q
<1>4. \A i \in 1 .. 2 : p[i] = q[i]
  BY <1>2, <1>3
<1>5. p = q
  BY <1>2, <1>3, <1>4, SeqEqual
<1> QED BY <1>5 DEF p, q

LEMMA Replies ==
  ASSUME NEW x \in {"success", "failure", "challenge"}
  PROVE  /\ Append(<<>>, x) = <<x>>
         /\ Append(<<"challenge">>, x) = <<"challenge", x>>
<1>1. Append(<<>>, x) = <<x>>
  OBVIOUS
<1>2. Append(<<"challenge">>, x) = <<"challenge", x>>
  <2> DEFINE X == {"success", "failure", "challenge"}
  <2>1. x \in X /\ "challenge" \in X
    OBVIOUS
  <2> HIDE DEF X
  <2> QED BY <2>1, TwoReplies
<1> QED BY <1>1, <1>2

\* One message has been sent when the server has not yet answered.
LEMMA OneSent ==
  ASSUME Inv, toClient = <<>>
  PROVE  Len(toServer) \in 0 .. 1 /\ read = 0
<1> DEFINE len == Len(toServer)
<1>1. len \in Nat /\ len <= 2 /\ len # 2 /\ read = 0
  BY DEF Inv, TypeOK, TurnInv, Challenged
<1> HIDE DEF len
<1>2. len \in 0 .. 1 /\ read = 0
  BY <1>1
<1> QED BY <1>2 DEF len

\* The server's answer to a message, and how it leaves the server.
LEMMA ReplyInv ==
  ASSUME Inv, toClient = <<>>, Len(toServer) = 1, taken' = 1,
         UNCHANGED <<client, foreign, toServer, read>>,
         NEW x \in {"success", "failure", "challenge"}, toClient' = <<x>>,
         sphase' = IF x = "challenge" THEN "over" ELSE "ready",
         x = "success" =>
           /\ request' = Asks(Parse(toServer[1]))
           /\ request' # {} /\ request' \subseteq Permitted
           /\ \E q \in request' : suser' = q.user
  PROVE  Inv'
<1>1. read = 0
  BY OneSent
<1>2. Len(<<x>>) = 1 /\ <<x>>[1] = x /\ <<x>> # <<>>
  OBVIOUS
<1>3. toServer # <<>>
  OBVIOUS
<1>4. TypeOK'
  BY <1>1, <1>2 DEF Inv, TypeOK, Conversations, client
<1>5. TurnInv'
  BY <1>1, <1>2, <1>3 DEF Inv, TurnInv, Challenged
<1>6. "success" \in Sent' => x = "success"
  BY <1>2 DEF Sent
<1>7. canswer # "SASL_OK"
  BY DEF Inv, RequestInv, Challenged
<1>8. RequestInv'
  BY <1>3, <1>6, <1>7 DEF Inv, RequestInv, client
<1> QED BY <1>4, <1>5, <1>8 DEF Inv

LEMMA ServerWorksInv ==
  ASSUME Inv, ServerWorks
  PROVE  Inv'
<1>1. /\ sphase = "busy" /\ toClient = <<>> /\ taken = 1 /\ toServer # <<>>
      /\ request = Asks(Parse(toServer[1]))
      /\ permitted = (request # {} /\ request \subseteq Permitted)
      /\ UNCHANGED <<client, foreign, toServer, taken, read>>
  BY DEF ServerWorks, Inv, TurnInv, RequestInv
<1>2. Len(toServer) = 1
  <2>1. Len(toServer) \in 0 .. 1
    BY <1>1, OneSent
  <2>2. taken \in 0 .. Len(toServer)
    BY DEF Inv, TypeOK
  <2> QED BY <1>1, <2>1, <2>2
<1>3. CASE S!Canon /\ UNCHANGED toClient
  <2>1. UNCHANGED <<sphase, request, permitted, wire>>
    BY <1>1, <1>3 DEF S!Canon, wire
  <2>2. "success" \notin Sent'
    BY <1>1, <1>3 DEF Sent
  <2> QED BY <1>1, <2>1, <2>2
          DEF Inv, TypeOK, TurnInv, RequestInv, Challenged, client, wire
<1>4. CASE S!Accept /\ Reply
  <2>1. /\ toClient' = <<"success">> /\ sphase' = "ready"
        /\ permitted /\ UNCHANGED <<request, suser>>
        /\ \E q \in request : suser = q.user
    BY <1>1, <1>4, Replies DEF S!Accept, Reply, Outcome
  <2> QED BY <1>1, <1>2, <2>1, ReplyInv
<1>5. CASE S!Refuse /\ Reply
  <2>1. toClient' = <<"challenge">> /\ sphase' = "over"
    BY <1>1, <1>5, Replies DEF S!Refuse, Reply, Outcome
  <2> QED BY <1>1, <1>2, <2>1, ReplyInv
<1>6. CASE S!Fail /\ Reply
  <2>1. toClient' = <<"failure">> /\ sphase' = "ready"
    BY <1>1, <1>6, Replies DEF S!Fail, Reply, Outcome
  <2> QED BY <1>1, <1>2, <2>1, ReplyInv
<1> QED BY <1>3, <1>4, <1>5, <1>6 DEF ServerWorks

LEMMA ServerTakesInv ==
  ASSUME Inv, ServerTakes
  PROVE  Inv'
<1>1. /\ taken < Len(toServer) /\ taken' = taken + 1
      /\ UNCHANGED <<client, foreign, toServer, read>>
      /\ taken \in Nat /\ Len(toServer) \in Nat
  BY DEF ServerTakes, Inv, TypeOK
<1>2. CASE sphase = "ready"
  <2>1. toClient = <<>> /\ taken = 0
    BY <1>1, <1>2 DEF Inv, TurnInv
  <2>2. Len(toServer) = 1 /\ taken' = 1 /\ toServer # <<>>
    <3>1. Len(toServer) \in 0 .. 1
      BY <2>1, OneSent
    <3> QED BY <1>1, <2>1, <3>1
  <2>3. CASE S!Fail /\ Reply
    <3>1. toClient' = <<"failure">> /\ sphase' = "ready"
      BY <2>1, <2>3, Replies DEF S!Fail, Reply, Outcome
    <3> QED BY <1>1, <2>1, <2>2, <3>1, ReplyInv
  <2>4. CASE S!Ask /\ request' = Asks(Parse(toServer[taken + 1]))
             /\ permitted' = (request' # {} /\ request' \subseteq Permitted)
             /\ UNCHANGED toClient
    <3>1. sphase' = "busy" /\ request' = Asks(Parse(toServer'[1]))
      BY <1>1, <2>1, <2>4 DEF S!Ask
    <3>2. "success" \notin Sent'
      BY <2>1, <2>4 DEF Sent
    <3>3. TypeOK'
      BY <1>1, <2>2, <2>4, <3>1 DEF Inv, TypeOK, client
    <3>4. TurnInv'
      BY <1>1, <2>1, <2>2, <2>4, <3>1 DEF Inv, TurnInv, Challenged
    <3>5. RequestInv'
      BY <1>1, <2>1, <2>2, <2>4, <3>1, <3>2
         DEF Inv, RequestInv, Challenged, client
    <3> QED BY <3>3, <3>4, <3>5 DEF Inv
  <2> QED BY <1>2, <2>3, <2>4 DEF ServerTakes, S!Again
<1>3. CASE sphase # "ready"
  <2>1. S!Again /\ Reply /\ sphase = "over" /\ sphase' = "over"
    BY <1>3 DEF ServerTakes, S!Ask, S!Again
  <2>2. Challenged /\ taken >= 1 /\ (taken = 1 => Len(toClient) = 1)
    BY <2>1 DEF Inv, TurnInv
  <2>3. taken = 1 /\ taken' = 2 /\ Len(toServer) = 2
    <3> DEFINE len == Len(toServer)
    <3>1. taken < len /\ taken >= 1 /\ taken' = taken + 1
      BY <1>1, <2>2
    <3>2. taken \in Nat /\ len \in Nat
      BY <1>1
    <3>3. len <= 2
      BY DEF Inv, TurnInv
    <3> HIDE DEF len
    <3>4. taken = 1 /\ taken' = 2 /\ len = 2
      BY <3>1, <3>2, <3>3
    <3> QED BY <3>4 DEF len
  <2>4. toClient = <<"challenge">>
    <3>1. toClient # <<"challenge", "failure">>
      <4>1. Len(<<"challenge", "failure">>) = 2
        OBVIOUS
      <4> QED BY <2>2, <2>3, <4>1
    <3> QED BY <2>2, <3>1, SentIs DEF Inv
  <2>5. toClient' = <<"challenge", "failure">>
    BY <2>1, <2>4, Replies DEF S!Again, Reply, Outcome
  <2>6. Len(<<"challenge", "failure">>) = 2 /\ Len(<<"challenge">>) = 1
        /\ <<"challenge", "failure">>[1] = "challenge"
        /\ <<"challenge", "failure">>[2] = "failure"
        /\ <<"challenge", "failure">> # <<>>
    OBVIOUS
  <2>7. read \in 0 .. 1
    BY <2>4, <2>6 DEF Inv, TypeOK
  <2>8. TypeOK'
    BY <1>1, <2>1, <2>3, <2>5, <2>6, <2>7
       DEF Inv, TypeOK, Conversations, client
  <2>9. TurnInv'
    BY <1>1, <2>1, <2>2, <2>3, <2>5, <2>6 DEF Inv, TurnInv, Challenged
  <2>10. "success" \notin Sent'
    BY <2>5, <2>6 DEF Sent
  <2>11. RequestInv'
    BY <1>1, <2>1, <2>2, <2>5, <2>6, <2>10
       DEF Inv, RequestInv, Challenged, client
  <2> QED BY <2>8, <2>9, <2>11 DEF Inv
<1> QED BY <1>2, <1>3

LEMMA ServerStartsInv ==
  ASSUME Inv, ServerStarts
  PROVE  Inv'
<1>1. /\ toServer # <<>> /\ toClient = <<>> /\ sphase = "none" /\ taken = 0
      /\ UNCHANGED <<client, foreign, toServer, taken, read>>
  BY DEF ServerStarts, Inv, TurnInv
<1>2. canswer # "SASL_OK"
  BY <1>1 DEF Inv, RequestInv, Challenged
<1>3. CASE S!Open /\ UNCHANGED toClient
  <2>1. sphase' = "ready" /\ "success" \notin Sent'
    BY <1>1, <1>3 DEF S!Open, Sent
  <2> QED BY <1>1, <1>2, <1>3, <2>1
          DEF Inv, TypeOK, TurnInv, RequestInv, Challenged, client
<1>4. CASE S!OpenFails /\ Reply
  <2>1. toClient' = <<"failure">> /\ sphase' = "none"
    BY <1>1, <1>4, Replies DEF S!OpenFails, Reply, Outcome
  <2>2. Len(<<"failure">>) = 1 /\ <<"failure">>[1] = "failure"
        /\ <<"failure">> # <<>>
    OBVIOUS
  <2>3. "success" \notin Sent'
    BY <2>1, <2>2 DEF Sent
  <2>4. read = 0
    BY <1>1 DEF Inv, TypeOK
  <2>5. TypeOK'
    BY <1>1, <2>1, <2>2, <2>4 DEF Inv, TypeOK, Conversations, client
  <2>6. Len(toServer) <= 2 /\ Len(toServer) # 2
    BY <1>1 DEF Inv, TurnInv, Challenged
  <2>7. TurnInv'
    BY <1>1, <2>1, <2>2, <2>6 DEF TurnInv
  <2>8. RequestInv'
    BY <1>1, <1>2, <2>1, <2>3 DEF Inv, RequestInv, client
  <2> QED BY <2>5, <2>7, <2>8 DEF Inv
<1> QED BY <1>3, <1>4 DEF ServerStarts

LEMMA ServerEndsInv ==
  ASSUME Inv, ServerDies \/ ServerLeaves
  PROVE  Inv'
<1>1. /\ UNCHANGED <<client, foreign, wire, request, permitted, suser>>
      /\ \/ sphase' = "dead"
         \/ sphase' = "none" /\ toClient # <<>>
  BY DEF ServerDies, ServerLeaves, S!Die, S!Close
<1>2. "success" \in Sent' <=> "success" \in Sent
  BY <1>1 DEF Sent, wire
<1> QED BY <1>1, <1>2
        DEF Inv, TypeOK, TurnInv, RequestInv, Challenged, client, wire

LEMMA NextInv == Inv /\ [Next]_vars => Inv'
<1> SUFFICES ASSUME Inv, [Next]_vars PROVE Inv'
  OBVIOUS
<1>1. CASE UNCHANGED vars
  <2>1. UNCHANGED <<client, server, foreign, wire>>
    BY <1>1 DEF vars
  <2>2. "success" \in Sent' <=> "success" \in Sent
    BY <2>1 DEF Sent, wire
  <2> QED BY <2>1, <2>2
          DEF Inv, TypeOK, TurnInv, RequestInv, Challenged,
              client, server, wire
<1>2. CASE Next
  BY <1>2, ClientWorksInv, SendsInv, TakesInv, ServerStartsInv, ServerTakesInv,
     ServerWorksInv, ServerEndsInv DEF Next
<1> QED BY <1>1, <1>2

(***************************************************************************)
(* Each side speaks in its turn, and what the server works for is what was *)
(* sent.                                                                   *)
(***************************************************************************)
THEOREM Invariant == Spec => []Inv
<1>1. Init => Inv
  BY InitInv
<1>2. Inv /\ [Next]_vars => Inv'
  BY NextInv
<1> QED BY <1>1, <1>2, PTL DEF Spec

(***************************************************************************)
(* Whatever arrives, the server works for the user, and with the token,    *)
(* that the message names by its grammar, and for nobody if it is no       *)
(* response: step 1 scans it in the bounds of the message and once.        *)
(***************************************************************************)
THEOREM EachIsRead == Spec => []ReadsResponses
<1>1. Inv => ReadsResponses
  <2> SUFFICES ASSUME Inv, sphase = "busy"
               PROVE  request = Said(toServer[taken])
    BY DEF ReadsResponses
  <2>1. taken = 1 /\ toServer # <<>> /\ request = Asks(Parse(toServer[1]))
    BY DEF Inv, TurnInv, RequestInv
  <2>2. toServer[1] \in Seq(Symbols)
    <3>1. toServer \in Seq(Seq(Symbols)) /\ 1 \in 1 .. Len(toServer)
      BY <2>1 DEF Inv, TypeOK
    <3> QED BY <3>1, ElementOfSeq
  <2> QED BY <2>1, <2>2, ParserIsGrammar
<1> QED BY <1>1, Invariant, PTL

LEMMA SuccessForUser ==
  ASSUME Inv, "success" \in Sent, ~foreign, ~short
  PROVE  request = {meant} /\ suser = cuser /\ cuser = meant.user
<1>1. /\ toServer # <<>> /\ request = Asks(Parse(toServer[1]))
      /\ \E q \in request : suser = q.user
      /\ meant \in Wishes /\ cuser = meant.user
      /\ toServer[1] = Build(meant.user, <<BEARER>>, meant.token)
  BY DEF Inv, RequestInv
<1>2. Clean(meant)
  BY <1>1, ExchangeAssumption
<1>3. request = {meant}
  BY <1>1, <1>2, BuiltSaysWish, ParserIsGrammar
<1> QED BY <1>1, <1>3

(***************************************************************************)
(* Between the plug-in's client and server, success is for the user whom   *)
(* the client's application means, and both sides' oparams name that user. *)
(***************************************************************************)
THEOREM UserIsShared == Spec => []SameUser
<1>1. Inv => SameUser
  BY SuccessForUser DEF SameUser
<1> QED BY <1>1, Invariant, PTL

(***************************************************************************)
(* SASL_OK from the client's step 2 is never a success: the server has     *)
(* refused, and says nothing else.                                         *)
(***************************************************************************)
THEOREM OKIsRefusal == Spec => []OKMeansRefused
<1>1. Inv => OKMeansRefused
  <2> SUFFICES ASSUME Inv, canswer = "SASL_OK"
               PROVE  "challenge" \in Sent /\ "success" \notin Sent
    BY DEF OKMeansRefused
  <2>1. Challenged
    BY DEF Inv, RequestInv
  <2>2. toClient # <<"success">>
    <3>1. <<"success">>[1] = "success"
      OBVIOUS
    <3> QED BY <2>1, <3>1 DEF Challenged
  <2> QED BY <2>1, <2>2, SentIs DEF Inv
<1> QED BY <1>1, Invariant, PTL

-----------------------------------------------------------------------------
\* The refinement.

\* What the server works for is what was wished.
LEMMA RequestIsWish ==
  ASSUME Inv, sphase = "busy"
  PROVE  /\ request = Wish
         /\ request = {} \/ \E q : request = {q}
<1>1. /\ toServer # <<>> /\ request = Asks(Parse(toServer[1]))
      /\ ~foreign => meant \in Wishes
      /\ ~foreign /\ ~short =>
           toServer[1] = Build(meant.user, <<BEARER>>, meant.token)
  BY DEF Inv, RequestInv
<1>2. toServer[1] \in Seq(Symbols)
  <2>1. toServer \in Seq(Seq(Symbols)) /\ 1 \in 1 .. Len(toServer)
    BY <1>1 DEF Inv, TypeOK
  <2> QED BY <2>1, ElementOfSeq
<1>3. request = Said(toServer[1])
  BY <1>1, <1>2, ParserIsGrammar
<1>4. CASE foreign \/ short
  BY <1>1, <1>3, <1>4 DEF Wish, Asks
<1>5. CASE ~foreign /\ ~short
  <2>1. Clean(meant)
    BY <1>1, <1>5, ExchangeAssumption
  <2>2. Said(toServer[1]) = {meant}
    BY <1>1, <1>5, <2>1, BuiltSaysWish
  <2> QED BY <1>1, <1>3, <1>5, <2>2 DEF Wish
<1> QED BY <1>4, <1>5

LEMMA NoVerdict ==
  ASSUME Inv, toClient = <<>>
  PROVE  Verdict(Sent) = "none" /\ Verdict(Read) = "none" /\ read = 0
<1>1. read = 0
  BY DEF Inv, TypeOK
<1>2. \A x : x \notin Sent /\ x \notin Read
  BY <1>1 DEF Sent, Read
<1> QED BY <1>1, <1>2 DEF Verdict

LEMMA SameVerdict ==
  ASSUME UNCHANGED <<toClient, read>>
  PROVE  Verdict(Sent)' = Verdict(Sent) /\ Verdict(Read)' = Verdict(Read)
BY DEF Verdict, Sent, Read

\* The first word of the server is the verdict.
LEMMA FirstReply ==
  ASSUME NEW x \in {"success", "failure", "challenge"},
         Inv, toClient = <<>>, read' = read, toClient' = <<x>>
  PROVE  /\ x = "success" => Verdict(Sent)' = "accepted"
         /\ x # "success" => Verdict(Sent)' = "refused"
         /\ Verdict(Read)' = Verdict(Read)
<1>1. Len(<<x>>) = 1 /\ <<x>>[1] = x
  OBVIOUS
<1>2. \A y : y \in Sent' <=> y = x
  BY <1>1 DEF Sent
<1>3. /\ x = "success" => Verdict(Sent)' = "accepted"
      /\ x # "success" => Verdict(Sent)' = "refused"
  BY <1>2 DEF Verdict
<1>4. read = 0
  BY DEF Inv, TypeOK
<1>5. \A y : y \in Read' <=> y \in Read
  BY <1>4 DEF Read
<1>6. Verdict(Read)' = Verdict(Read)
  BY <1>5 DEF Verdict
<1> QED BY <1>3, <1>6

\* And the second one says nothing new.
LEMMA SecondReply ==
  ASSUME Inv, toClient = <<"challenge">>, read' = read,
         toClient' = <<"challenge", "failure">>
  PROVE  Verdict(Sent)' = Verdict(Sent) /\ Verdict(Read)' = Verdict(Read)
<1>1. /\ Len(<<"challenge">>) = 1 /\ <<"challenge">>[1] = "challenge"
      /\ Len(<<"challenge", "failure">>) = 2
      /\ <<"challenge", "failure">>[1] = "challenge"
      /\ <<"challenge", "failure">>[2] = "failure"
  OBVIOUS
<1>2. /\ \A y : y \in Sent <=> y = "challenge"
      /\ \A y : y \in Sent' <=> y \in {"challenge", "failure"}
  BY <1>1 DEF Sent
<1>3. read \in 0 .. 1
  BY <1>1 DEF Inv, TypeOK
<1>4. \A y : y \in Read' <=> y \in Read
  BY <1>1, <1>3 DEF Read
<1> QED BY <1>2, <1>4 DEF Verdict

LEMMA Learns ==
  ASSUME Inv, read < Len(toClient), read' = read + 1, UNCHANGED toClient
  PROVE  /\ Verdict(Sent)' = Verdict(Sent)
         /\ \/ Verdict(Read)' = Verdict(Read)
            \/ /\ Verdict(Read) = "none" /\ Verdict(Sent) # "none"
               /\ Verdict(Read)' = Verdict(Sent)
<1>1. Verdict(Sent)' = Verdict(Sent)
  BY DEF Verdict, Sent
<1>2. ASSUME NEW x \in {"success", "failure", "challenge"}, toClient = <<x>>
      PROVE  /\ Verdict(Read) = "none" /\ Verdict(Sent) # "none"
             /\ Verdict(Read)' = Verdict(Sent)
  <2>1. Len(toClient) = 1 /\ toClient[1] = x /\ read = 0
    BY <1>2 DEF Inv, TypeOK
  <2>2. \A y : /\ y \notin Read
               /\ y \in Read' <=> y = x
               /\ y \in Sent <=> y = x
    BY <2>1 DEF Read, Sent
  <2> QED BY <2>2 DEF Verdict
<1>3. CASE toClient = <<"challenge", "failure">>
  <2>1. /\ Len(toClient) = 2 /\ toClient[1] = "challenge"
        /\ toClient[2] = "failure" /\ read \in 0 .. 1
    BY <1>3 DEF Inv, TypeOK
  <2>2. CASE read = 0
    <3>1. /\ \A y : y \notin Read /\ (y \in Read' <=> y = "challenge")
          /\ \A y : y \in Sent <=> y \in {"challenge", "failure"}
      BY <2>1, <2>2 DEF Read, Sent
    <3>2. Verdict(Read) = "none" /\ Verdict(Sent) = "refused"
      BY <3>1 DEF Verdict
    <3>3. Verdict(Read)' = "refused"
      BY <3>1 DEF Verdict
    <3> QED BY <1>1, <3>2, <3>3
  <2>3. CASE read = 1
    <3>1. /\ \A y : y \in Read <=> y = "challenge"
          /\ \A y : y \in Read' <=> y \in {"challenge", "failure"}
      BY <2>1, <2>3 DEF Read
    <3>2. Verdict(Read) = "refused"
      BY <3>1 DEF Verdict
    <3>3. Verdict(Read)' = "refused"
      BY <3>1 DEF Verdict
    <3> QED BY <1>1, <3>2, <3>3
  <2> QED BY <2>1, <2>2, <2>3
<1>4. toClient # <<>>
  BY DEF Inv, TypeOK
<1>5. CASE \E x \in {"success", "failure", "challenge"} : toClient = <<x>>
  BY <1>1, <1>2, <1>5
<1> QED BY <1>3, <1>4, <1>5 DEF Inv, TypeOK, Conversations

LEMMA InitRefines == Init => A!Init
<1> SUFFICES ASSUME Init PROVE A!Init
  OBVIOUS
<1>1. toServer = <<>> /\ toClient = <<>> /\ read = 0
  BY DEF Init
<1>2. \A x : x \notin Sent /\ x \notin Read
  BY <1>1 DEF Sent, Read
<1> QED BY <1>1, <1>2 DEF A!Init, Wish, Verdict

LEMMA ClientRefines ==
  ASSUME Inv, ClientWorks \/ ClientLeaves
  PROVE  UNCHANGED A!vars
<1>1. UNCHANGED <<server, foreign, wire, meant, short>>
  BY DEF ClientWorks, ClientLeaves, C!Open, C!OpenFails, C!Call, C!Return,
         C!Canon, C!Die, C!Close
<1>2. UNCHANGED <<toClient, read, faulty, Wish>>
  BY <1>1 DEF wire, server, Wish
<1> QED BY <1>2, SameVerdict DEF A!vars

LEMMA SendsRefines ==
  ASSUME Inv, ClientSends \/ ForeignSends
  PROVE  A!Wish
<1>1. toServer = <<>> /\ UNCHANGED <<server, toClient, read>>
  BY DEF ClientSends, ForeignSends
<1>2. Wish = {} /\ toClient = <<>> /\ faulty' = faulty
  BY <1>1 DEF Wish, Inv, TurnInv, server
<1> QED BY <1>1, <1>2, NoVerdict, SameVerdict DEF A!Wish

LEMMA TakesRefines ==
  ASSUME Inv, ClientTakes \/ ForeignTakes
  PROVE  A!Tell \/ UNCHANGED A!vars
<1>1. /\ read < Len(toClient) /\ read' = read + 1
      /\ UNCHANGED <<server, foreign, toClient, meant, short>>
  BY DEF ClientTakes, ForeignTakes, Arrived, C!Answer, client
<1>2. toServer # <<>> /\ toServer \in Seq(Seq(Symbols))
  BY <1>1 DEF Inv, TypeOK, TurnInv
<1>3. toServer' # <<>> /\ toServer'[1] = toServer[1]
  <2>1. \/ toServer' = toServer
        \/ \E m \in Seq(Symbols) : toServer' = Append(toServer, m)
    <3>1. CASE ForeignTakes
      BY <3>1, ExchangeAssumption DEF ForeignTakes
    <3>2. CASE ClientTakes
      <4>1. <<>> \in Seq(Symbols)
        OBVIOUS
      <4> QED BY <3>2, <4>1 DEF ClientTakes, C!Answer
    <3> QED BY <3>1, <3>2
  <2>2. CASE toServer' = toServer
    BY <1>2, <2>2
  <2>3. CASE \E m \in Seq(Symbols) : toServer' = Append(toServer, m)
    <3>1. PICK m \in Seq(Symbols) : toServer' = Append(toServer, m)
      BY <2>3
    <3>2. toServer' # <<>>
      BY <1>2, <3>1, AppendProperties
    <3> QED BY <1>2, <3>1, <3>2, FirstOf
  <2> QED BY <2>1, <2>2, <2>3
<1>4. UNCHANGED <<faulty, Wish>>
  BY <1>1, <1>2, <1>3 DEF Wish, server
<1>5. /\ Verdict(Sent)' = Verdict(Sent)
      /\ \/ Verdict(Read)' = Verdict(Read)
         \/ /\ Verdict(Read) = "none" /\ Verdict(Sent) # "none"
            /\ Verdict(Read)' = Verdict(Sent)
  BY <1>1, Learns
<1> QED BY <1>4, <1>5 DEF A!Tell, A!vars

LEMMA ServerEndsRefines ==
  ASSUME Inv, ServerDies \/ ServerLeaves
  PROVE  UNCHANGED A!vars
<1>1. UNCHANGED <<client, foreign, wire, faulty>>
  BY DEF ServerDies, ServerLeaves, S!Die, S!Close
<1>2. UNCHANGED <<toClient, read, faulty, Wish>>
  BY <1>1 DEF wire, client, Wish
<1> QED BY <1>2, SameVerdict DEF A!vars

LEMMA ServerStartsRefines ==
  ASSUME Inv, ServerStarts
  PROVE  A!Refuse \/ UNCHANGED A!vars
<1>1. /\ toClient = <<>>
      /\ UNCHANGED <<client, foreign, toServer, read>>
  BY DEF ServerStarts
<1>2. Wish' = Wish
  BY <1>1 DEF Wish, client
<1>3. CASE S!Open /\ UNCHANGED toClient
  BY <1>1, <1>2, <1>3, SameVerdict DEF S!Open, A!vars
<1>4. CASE S!OpenFails /\ Reply
  <2>1. toClient' = <<"failure">> /\ faulty /\ faulty' = faulty
    BY <1>1, <1>4, Replies DEF S!OpenFails, Reply, Outcome
  <2>2. Verdict(Sent)' = "refused" /\ Verdict(Read)' = Verdict(Read)
    BY <1>1, <2>1, FirstReply
  <2> QED BY <1>1, <1>2, <2>1, <2>2, NoVerdict DEF A!Refuse
<1> QED BY <1>3, <1>4 DEF ServerStarts

LEMMA ServerTakesRefines ==
  ASSUME Inv, ServerTakes
  PROVE  A!Refuse \/ UNCHANGED A!vars
<1>1. UNCHANGED <<client, foreign, toServer, read>>
  BY DEF ServerTakes
<1>2. Wish' = Wish
  BY <1>1 DEF Wish, client
<1>3. CASE S!Ask /\ UNCHANGED toClient
  BY <1>1, <1>2, <1>3, SameVerdict DEF S!Ask, A!vars
<1>4. CASE sphase = "ready" /\ S!Fail /\ Reply
  <2>1. toClient = <<>>
    <3>1. toClient # <<>> => taken = Len(toServer)
      BY <1>4 DEF Inv, TurnInv
    <3>2. taken < Len(toServer) /\ taken \in Nat /\ Len(toServer) \in Nat
      BY DEF ServerTakes, Inv, TypeOK
    <3> QED BY <3>1, <3>2
  <2>2. toClient' = <<"failure">> /\ faulty /\ faulty' = faulty
    BY <1>4, <2>1, Replies DEF S!Fail, Reply, Outcome
  <2>3. Verdict(Sent)' = "refused" /\ Verdict(Read)' = Verdict(Read)
    BY <1>1, <2>1, <2>2, FirstReply
  <2> QED BY <1>1, <1>2, <2>1, <2>2, <2>3, NoVerdict DEF A!Refuse
<1>5. CASE S!Again /\ Reply
  <2>1. toClient = <<"challenge">>
    <3>1. Challenged /\ taken >= 1 /\ (taken = 1 => Len(toClient) = 1)
          /\ Len(toServer) <= 2
      BY <1>5 DEF Inv, TurnInv, S!Again
    <3>2. taken < Len(toServer) /\ taken \in Nat /\ Len(toServer) \in Nat
      BY DEF ServerTakes, Inv, TypeOK
    <3>3. taken = 1
      <4> DEFINE len == Len(toServer)
      <4>1. /\ taken >= 1 /\ len <= 2 /\ taken < len
            /\ taken \in Nat /\ len \in Nat
        BY <3>1, <3>2
      <4> HIDE DEF len
      <4> QED BY <4>1
    <3>4. Len(<<"challenge", "failure">>) = 2
      OBVIOUS
    <3>5. toClient # <<"challenge", "failure">>
      BY <3>1, <3>3, <3>4
    <3> QED BY <3>1, <3>5, SentIs DEF Inv
  <2>2. toClient' = <<"challenge", "failure">> /\ faulty' = faulty
    BY <1>5, <2>1, Replies DEF S!Again, Reply, Outcome
  <2> QED BY <1>1, <1>2, <2>1, <2>2, SecondReply DEF A!vars
<1> QED BY <1>3, <1>4, <1>5 DEF ServerTakes

LEMMA ServerWorksRefines ==
  ASSUME Inv, ServerWorks
  PROVE  A!Accept \/ A!Refuse \/ UNCHANGED A!vars
<1>1. /\ sphase = "busy" /\ toClient = <<>>
      /\ permitted = (request # {} /\ request \subseteq Permitted)
      /\ UNCHANGED <<client, foreign, toServer, read>>
  BY DEF ServerWorks, Inv, TurnInv, RequestInv
<1>2. Wish' = Wish
  BY <1>1 DEF Wish, client
<1>3. request = Wish /\ (request = {} \/ \E q : request = {q})
  BY <1>1, RequestIsWish
<1>4. Verdict(Sent) = "none"
  BY <1>1, NoVerdict
<1>5. CASE S!Canon /\ UNCHANGED toClient
  BY <1>1, <1>2, <1>5, SameVerdict DEF S!Canon, A!vars
<1>6. CASE S!Accept /\ Reply
  <2>1. toClient' = <<"success">> /\ permitted /\ faulty' = faulty
    BY <1>1, <1>6, Replies DEF S!Accept, Reply, Outcome
  <2>2. Verdict(Sent)' = "accepted" /\ Verdict(Read)' = Verdict(Read)
    BY <1>1, <2>1, FirstReply
  <2>3. Wish # {} /\ Wish \subseteq Permitted
    BY <1>1, <1>3, <2>1
  <2> QED BY <1>2, <1>4, <2>1, <2>2, <2>3 DEF A!Accept
<1>7. CASE (S!Refuse \/ S!Fail) /\ Reply
  <2>1. PICK x \in {"challenge", "failure"} : toClient' = <<x>>
    BY <1>1, <1>7, Replies DEF S!Refuse, S!Fail, Reply, Outcome
  <2>2. Verdict(Sent)' = "refused" /\ Verdict(Read)' = Verdict(Read)
    BY <1>1, <2>1, FirstReply
  <2>3. (~permitted \/ faulty) /\ faulty' = faulty
    <3>1. CASE S!Refuse
      BY <3>1 DEF S!Refuse
    <3>2. CASE S!Fail
      BY <1>1, <3>2 DEF S!Fail
    <3> QED BY <1>7, <3>1, <3>2
  <2>4. Wish \cap Permitted = {} \/ faulty
    BY <1>1, <1>3, <2>3
  <2> QED BY <1>2, <1>4, <2>2, <2>3, <2>4 DEF A!Refuse
<1> QED BY <1>5, <1>6, <1>7 DEF ServerWorks

LEMMA NextRefines == Inv /\ [Next]_vars => [A!Next]_(A!vars)
<1> SUFFICES ASSUME Inv, [Next]_vars PROVE A!Next \/ UNCHANGED A!vars
  BY Zenon
<1>1. CASE UNCHANGED vars
  <2>1. UNCHANGED <<toClient, read, faulty, Wish>>
    BY <1>1 DEF vars, client, server, wire, Wish
  <2> QED BY <2>1, SameVerdict DEF A!vars
<1>2. CASE Next
  BY <1>2, ClientRefines, SendsRefines, TakesRefines, ServerStartsRefines,
     ServerTakesRefines, ServerWorksRefines, ServerEndsRefines DEF Next, A!Next
<1> QED BY <1>1, <1>2

(***************************************************************************)
(* The exchange implements Authentication: one verdict, on what is meant   *)
(* or what another client's message says, and the client learns that one.  *)
(***************************************************************************)
THEOREM Authenticates == Spec => Refines
<1>1. Init => A!Init
  BY InitRefines
<1>2. Inv /\ [Next]_vars => [A!Next]_(A!vars)
  BY NextRefines
<1> QED BY <1>1, <1>2, Invariant, PTL DEF Spec, Refines, A!Spec
=============================================================================
