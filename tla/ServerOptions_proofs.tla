------------------------ MODULE ServerOptions_proofs ------------------------
(***************************************************************************)
(* For every option, every size of the array and however often the library *)
(* is initialised: strtok hands out the words of xoauth2_issuers in their  *)
(* order, as many as there is room for, from the text it cuts up; and what *)
(* it hands out when it goes over the cut text again is a word, too.       *)
(***************************************************************************)
EXTENDS ServerOptions, SequenceTheorems, FiniteSetTheorems,
        WellFoundedInduction, TLAPS

\* The operators of Text.

LEMMA MinIsLeast ==
  ASSUME NEW S \in SUBSET Nat, S # {}
  PROVE  Min(S) \in S /\ \A y \in S : Min(S) <= y
<1>1. PICK x \in S : \A y \in S : ~ (<<y, x>> \in OpToRel(<, Nat))
  BY WFMin, NatLessThanWellFounded, Zenon
<1>2. ASSUME NEW y \in S PROVE x <= y
  <2>1. x \in Nat /\ y \in Nat /\ <<y, x>> \in Nat \X Nat
    OBVIOUS
  <2>2. ~ (y < x)
    BY <1>1, <2>1 DEF OpToRel
  <2> QED BY <2>1, <2>2
<1> QED BY <1>2 DEF Min

LEMMA MinOfTwo ==
  ASSUME NEW a \in Nat, NEW b \in Nat
  PROVE  Min({a, b}) = IF a <= b THEN a ELSE b
<1>1. {a, b} \in SUBSET Nat /\ {a, b} # {}
  OBVIOUS
<1>2. Min({a, b}) \in {a, b} /\ \A y \in {a, b} : Min({a, b}) <= y
  BY <1>1, MinIsLeast
<1> QED BY <1>2

LEMMA PartIsText ==
  ASSUME NEW t \in Texts, NEW a \in 1 .. Len(t) + 1, NEW b \in 0 .. Len(t)
  PROVE  /\ SubSeq(t, a, b) \in Texts
         /\ Len(SubSeq(t, a, b)) = IF a <= b THEN b - a + 1 ELSE 0
         /\ \A k \in 1 .. b - a + 1 : SubSeq(t, a, b)[k] = t[a + k - 1]
<1>1. \A k \in a .. b : t[k] \in STRING \ {"(null)"}
  BY DEF Texts
<1>2. SubSeq(t, a, b) \in Texts
  BY <1>1, SubSeqProperties DEF Texts
<1>3. /\ Len(SubSeq(t, a, b)) = IF a <= b THEN b - a + 1 ELSE 0
      /\ \A k \in 1 .. b - a + 1 : SubSeq(t, a, b)[k] = t[a + k - 1]
  BY <1>1, SubSeqProperties
<1> QED BY <1>2, <1>3

LEMMA NullIsNoText == NULL \notin Texts
BY DEF NULL, Texts

LEMMA EqualParts ==
  ASSUME NEW t \in Texts, NEW u \in Texts,
         NEW c \in 1 .. Len(t), NEW d \in c .. Len(t),
         NEW s \in Nat, d + s <= Len(u),
         \A k \in c .. d : t[k] = u[s + k]
  PROVE  SubSeq(t, c, d) = SubSeq(u, s + c, s + d)
<1> DEFINE v == SubSeq(t, c, d)  w == SubSeq(u, s + c, s + d)
<1>1. /\ Len(t) \in Nat /\ Len(u) \in Nat /\ c \in Nat /\ d \in Nat /\ c <= d
      /\ c \in 1 .. Len(t) + 1 /\ d \in 0 .. Len(t)
      /\ s + c \in 1 .. Len(u) + 1 /\ s + d \in 0 .. Len(u)
  BY DEF Texts
<1>2. /\ v \in Texts /\ Len(v) = IF c <= d THEN d - c + 1 ELSE 0
      /\ \A k \in 1 .. d - c + 1 : v[k] = t[c + k - 1]
  BY <1>1, PartIsText
<1>3. /\ w \in Texts /\ Len(w) = IF s + c <= s + d THEN s + d - (s + c) + 1 ELSE 0
      /\ \A k \in 1 .. s + d - (s + c) + 1 : w[k] = u[s + c + k - 1]
  BY <1>1, PartIsText
<1> HIDE DEF v, w
<1>4. Len(v) = d - c + 1 /\ Len(w) = d - c + 1
  BY <1>1, <1>2, <1>3
<1>5. ASSUME NEW k \in 1 .. d - c + 1 PROVE v[k] = w[k]
  <2>1. c + k - 1 \in c .. d /\ s + (c + k - 1) = s + c + k - 1
    BY <1>1
  <2>2. k \in 1 .. s + d - (s + c) + 1
    BY <1>1
  <2> QED BY <1>2, <1>3, <2>1, <2>2
<1>6. v \in Seq(STRING \ {"(null)"}) /\ w \in Seq(STRING \ {"(null)"})
  BY <1>2, <1>3 DEF Texts
<1> QED BY <1>4, <1>5, <1>6, SeqEqual DEF v, w

\* A C string ends before the first zero byte.
LEMMA CStringCuts ==
  ASSUME NEW t \in Texts
  PROVE  /\ CString(t) \in Texts
         /\ Len(CString(t)) \in 0 .. Len(t)
         /\ \A k \in 1 .. Len(CString(t)) : CString(t)[k] = t[k] /\ t[k] # NUL
         /\ Len(CString(t)) < Len(t) => t[Len(CString(t)) + 1] = NUL
<1> DEFINE zeros == {k \in 1 .. Len(t) : t[k] = NUL}
           z == SelectInSeq(t, LAMBDA x : x = NUL)
<1>1. Len(t) \in Nat
  BY DEF Texts
<1>2. z = IF zeros # {} THEN Min(zeros) ELSE 0
  BY Zenon DEF SelectInSeq
<1>3. CString(t) = IF z = 0 THEN t ELSE SubSeq(t, 1, z - 1)
  BY Zenon DEF CString
<1>4. CASE zeros = {}
  <2>1. z = 0
    BY <1>2, <1>4
  <2>2. CString(t) = t
    BY <1>3, <2>1
  <2> QED BY <1>1, <1>4, <2>2
<1>5. CASE zeros # {}
  <2>1. z \in zeros /\ \A k \in zeros : z <= k
    <3>1. zeros \in SUBSET Nat
      BY <1>1
    <3> QED BY <1>2, <1>5, <3>1, MinIsLeast
  <2>2. /\ z \in 1 .. Len(t) /\ t[z] = NUL
        /\ \A k \in 1 .. Len(t) : t[k] = NUL => z <= k
    BY <2>1
  <2> HIDE DEF z, zeros
  <2>3. CString(t) = SubSeq(t, 1, z - 1)
    BY <1>3, <2>2
  <2>4. /\ 1 \in 1 .. Len(t) + 1 /\ z - 1 \in 0 .. Len(t)
    BY <1>1, <2>2
  <2>5. /\ CString(t) \in Texts
        /\ Len(CString(t)) = IF 1 <= z - 1 THEN z - 1 - 1 + 1 ELSE 0
        /\ \A k \in 1 .. z - 1 - 1 + 1 : CString(t)[k] = t[1 + k - 1]
    BY <2>3, <2>4, PartIsText
  <2>6. Len(CString(t)) = z - 1 /\ z - 1 - 1 + 1 = z - 1
    BY <2>2, <2>5
  <2> QED BY <1>1, <2>2, <2>4, <2>5, <2>6
<1> QED BY <1>4, <1>5

\* When no word is ahead there are only blanks.
LEMMA WordFollows ==
  ASSUME NEW t \in Texts, NEW k \in 1 .. Len(t), t[k] \notin Blanks
  PROVE  NextWord(t, 1) # {}
<1> DEFINE starts == {j \in 1 .. Len(t) : t[j] \notin Blanks}
           a == Min(starts)
           ends == {j \in a .. Len(t) : j = Len(t) \/ t[j + 1] \in Blanks}
           b == Min(ends)
<1>1. Len(t) \in Nat
  BY DEF Texts
<1>2. a \in starts /\ \A j \in starts : a <= j
  <2>1. starts \in SUBSET Nat /\ k \in starts
    BY <1>1
  <2> QED BY <2>1, MinIsLeast
<1>3. /\ a \in 1 .. Len(t) /\ t[a] \notin Blanks
      /\ \A j \in 1 .. a - 1 : t[j] \in Blanks
  <2>1. a \in 1 .. Len(t) /\ t[a] \notin Blanks
    BY <1>2
  <2>2. \A j \in 1 .. Len(t) : t[j] \notin Blanks => a <= j
    BY <1>2
  <2> HIDE DEF a
  <2> QED BY <1>1, <2>1, <2>2
<1> HIDE DEF a
<1>4. b \in ends /\ \A j \in ends : b <= j
  <2>1. ends \in SUBSET Nat /\ Len(t) \in ends
    BY <1>1, <1>3
  <2> QED BY <2>1, MinIsLeast
<1>5. /\ b \in a .. Len(t)
      /\ b = Len(t) \/ t[b + 1] \in Blanks
      /\ \A j \in a .. Len(t) : j = Len(t) \/ t[j + 1] \in Blanks => b <= j
  BY <1>4
<1> HIDE DEF b
<1>6. \A j \in a .. b : t[j] \notin Blanks
  <2> SUFFICES ASSUME NEW j \in a .. b, t[j] \in Blanks PROVE FALSE
    OBVIOUS
  <2>1. j # a /\ a \in Int /\ b \in Int /\ b <= Len(t)
    BY <1>1, <1>3, <1>5
  <2>2. PICK i \in a .. Len(t) : j = i + 1 /\ i < b
    <3>1. j - 1 \in a .. Len(t) /\ j = (j - 1) + 1 /\ j - 1 < b
      BY <1>1, <2>1
    <3> QED BY <3>1
  <2>3. b <= i
    BY <1>5, <2>2
  <2> QED BY <2>1, <2>2, <2>3
<1>7. a = 1 \/ t[a - 1] \in Blanks
  BY <1>1, <1>3
<1>8. a \in 1 .. Len(t) /\ b \in 1 .. Len(t) /\ a <= b
  BY <1>1, <1>3, <1>5
<1>9. IsWord(t, Blanks, a, b)
  BY <1>5, <1>6, <1>7, <1>8 DEF IsWord
<1>10. <<a, b>> \in NextWord(t, 1)
  <2> DEFINE p == <<a, b>>
  <2>1. p \in (1 .. Len(t)) \X (1 .. Len(t)) /\ p[1] = a /\ p[2] = b
    BY <1>8
  <2> HIDE DEF p
  <2> QED BY <1>3, <1>8, <1>9, <2>1 DEF NextWord
<1> QED BY <1>10

\* From a place where a word may begin, the first word ahead is the only one
\* that begins at or before its end.
LEMMA OnlyWord ==
  ASSUME NEW t \in Texts, NEW n \in Nat, NEW a \in 1 .. Len(t),
         NEW b \in 1 .. Len(t), n <= a, IsWord(t, Blanks, a, b),
         \A k \in n .. a - 1 : t[k] \in Blanks,
         NEW c \in 1 .. Len(t), NEW d \in 1 .. Len(t),
         n <= c, c <= b, IsWord(t, Blanks, c, d)
  PROVE  c = a /\ d = b
<1>1. Len(t) \in Nat /\ a <= b /\ c <= d
  BY DEF Texts, IsWord
<1>2. c >= a
  <2> SUFFICES ASSUME c < a PROVE FALSE
    BY <1>1
  <2>1. c \in n .. a - 1 /\ c \in c .. d
    BY <1>1
  <2> QED BY <2>1 DEF IsWord
<1>3. c = a
  <2> SUFFICES ASSUME c > a PROVE FALSE
    BY <1>1, <1>2
  <2>1. c - 1 \in a .. b /\ c # 1
    BY <1>1
  <2> QED BY <2>1 DEF IsWord
<1>4. d >= b
  <2> SUFFICES ASSUME d < b PROVE FALSE
    BY <1>1
  <2>1. d + 1 \in a .. b /\ d # Len(t)
    BY <1>1, <1>3
  <2> QED BY <2>1 DEF IsWord
<1>5. d <= b
  <2> SUFFICES ASSUME b < d PROVE FALSE
    BY <1>1
  <2>1. b + 1 \in c .. d /\ b # Len(t)
    BY <1>1, <1>3
  <2> QED BY <2>1 DEF IsWord
<1> QED BY <1>1, <1>3, <1>4, <1>5

LEMMA SpansFinite ==
  ASSUME NEW t \in Texts, NEW S \in SUBSET Spans(t)
  PROVE  IsFiniteSet(S) /\ Cardinality(S) \in Nat
<1>1. Len(t) \in Nat
  BY DEF Texts
<1>2. IsFiniteSet(1 .. Len(t))
  BY <1>1, FS_Interval
<1>3. IsFiniteSet((1 .. Len(t)) \X (1 .. Len(t)))
  BY <1>2, FS_Product
<1>4. S \in SUBSET ((1 .. Len(t)) \X (1 .. Len(t)))
  BY DEF Spans
<1>5. IsFiniteSet(S)
  BY <1>3, <1>4, FS_Subset
<1> QED BY <1>5, FS_CardinalityType
-----------------------------------------------------------------------------
\* Types.

\* What strtok sees from r on is the text up to a zero byte.
LEMMA VisibleIs ==
  ASSUME NEW T \in Texts, NEW r \in 1 .. Len(T) + 1,
         NEW V, V = CString(SubSeq(T, r, Len(T)))
  PROVE  /\ V \in Texts
         /\ Len(V) \in 0 .. Len(T) - r + 1
         /\ \A k \in 1 .. Len(V) : V[k] = T[r + k - 1] /\ T[r + k - 1] # NUL
         /\ Len(V) < Len(T) - r + 1 => T[r + Len(V)] = NUL
<1> DEFINE m == Len(T)  t == SubSeq(T, r, m)
<1>1. m \in Nat /\ r \in 1 .. m + 1
  BY DEF Texts
<1>2. /\ t \in Texts
      /\ Len(t) = m - r + 1
      /\ \A k \in 1 .. m - r + 1 : t[k] = T[r + k - 1]
  <2>1. Len(T) \in 0 .. Len(T)
    BY <1>1
  <2>2. /\ t \in Texts
        /\ Len(t) = IF r <= m THEN m - r + 1 ELSE 0
        /\ \A k \in 1 .. m - r + 1 : t[k] = T[r + k - 1]
    BY <1>1, <2>1, PartIsText
  <2> HIDE DEF m, t
  <2> QED BY <1>1, <2>2
<1>3. V = CString(t)
  OBVIOUS
<1> HIDE DEF t
<1>4. /\ V \in Texts
      /\ Len(V) \in 0 .. Len(t)
      /\ \A k \in 1 .. Len(V) : V[k] = t[k] /\ t[k] # NUL
      /\ Len(V) < Len(t) => t[Len(V) + 1] = NUL
  BY <1>2, <1>3, CStringCuts
<1> HIDE DEF m
<1>5. \A k \in 1 .. Len(V) : k \in 1 .. m - r + 1
  BY <1>1, <1>2, <1>4
<1>6. Len(V) < Len(t) =>
        /\ Len(V) + 1 \in 1 .. m - r + 1
        /\ r + (Len(V) + 1) - 1 = r + Len(V)
  BY <1>1, <1>2, <1>4
<1> QED BY <1>1, <1>2, <1>4, <1>5, <1>6 DEF m

LEMMA SeenIs ==
  ASSUME TypeOK, table # NULL
  PROVE  /\ table \in Texts /\ Len(table) \in Nat /\ rest \in 1 .. Len(table) + 1
         /\ Seen \in Texts
         /\ Len(Seen) \in 0 .. Len(table) - rest + 1
         /\ \A k \in 1 .. Len(Seen) :
              Seen[k] = table[rest + k - 1] /\ table[rest + k - 1] # NUL
         /\ Len(Seen) < Len(table) - rest + 1 => table[rest + Len(Seen)] = NUL
<1>1. table \in Texts /\ Len(table) \in Nat /\ rest \in 1 .. Len(table) + 1
  BY DEF TypeOK, Texts
<1>2. Seen = CString(SubSeq(table, rest, Len(table)))
  BY DEF Seen
<1> QED BY <1>1, <1>2, VisibleIs

\* Where a word of it is.
LEMMA SeenWord ==
  ASSUME TypeOK, table # NULL, NEW w \in NextWord(Seen, 1)
  PROVE  /\ w[1] \in 1 .. Len(Seen) /\ w[2] \in 1 .. Len(Seen) /\ w[1] <= w[2]
         /\ rest \in 1 .. Len(table) /\ Len(table) \in Nat
         /\ Len(Seen) <= Len(table) - rest + 1 /\ Len(Seen) \in Nat
         /\ After(w) \in 2 .. Len(table) + 1
         /\ w[2] < Len(Seen) => After(w) \in 2 .. Len(table)
         /\ SubSeq(Seen, w[1], w[2]) \in Texts
<1>1. /\ w[1] \in 1 .. Len(Seen) /\ w[2] \in 1 .. Len(Seen) /\ w[1] <= w[2]
  BY DEF NextWord, IsWord
<1>2. /\ Len(table) \in Nat /\ rest \in 1 .. Len(table) + 1
      /\ Len(Seen) \in 0 .. Len(table) - rest + 1
      /\ Seen \in Texts
  BY SeenIs
<1>3. SubSeq(Seen, w[1], w[2]) \in Texts
  <2>1. w[1] \in 1 .. Len(Seen) + 1 /\ w[2] \in 0 .. Len(Seen)
    BY <1>1, <1>2
  <2> QED BY <1>2, <2>1, PartIsText
<1> QED BY <1>1, <1>2, <1>3 DEF After

LEMMA NextIssuerTypeOK ==
  ASSUME TypeOK, table # NULL, NextIssuer
  PROVE  TypeOK'
<1>1. PICK w \in NextWord(Seen, 1) :
        /\ IF w[2] < Len(Seen)
           THEN table' = [table EXCEPT ![After(w)] = NUL] /\ rest' = After(w) + 1
           ELSE UNCHANGED table /\ rest' = After(w)
        /\ IF Full
           THEN UNCHANGED issuers
           ELSE \E copy \in {SubSeq(Seen, w[1], w[2])}
                           \cup (IF StrdupFails THEN {NULL} ELSE {}) :
                  issuers' = Append(issuers, copy)
  BY DEF NextIssuer
<1>2. /\ After(w) \in 2 .. Len(table) + 1 /\ Len(table) \in Nat
      /\ w[2] < Len(Seen) => After(w) \in 2 .. Len(table)
      /\ SubSeq(Seen, w[1], w[2]) \in Texts
  BY SeenWord
<1>3. table \in Texts
  BY SeenIs
<1>4. /\ table' \in Texts /\ Len(table') = Len(table)
      /\ rest' \in 1 .. Len(table) + 1
  <2>1. CASE w[2] < Len(Seen)
    <3>1. After(w) \in 1 .. Len(table) /\ After(w) + 1 \in 1 .. Len(table) + 1
      BY <1>2, <2>1
    <3>2. NUL \in STRING \ {"(null)"}
      BY NulIsString DEF NUL
    <3>3. /\ [table EXCEPT ![After(w)] = NUL] \in Texts
          /\ Len([table EXCEPT ![After(w)] = NUL]) = Len(table)
      BY <1>3, <3>1, <3>2, ExceptSeq DEF Texts
    <3> QED BY <1>1, <2>1, <3>1, <3>3
  <2>2. CASE ~ (w[2] < Len(Seen))
    BY <1>1, <1>2, <1>3, <2>2
  <2> QED BY <2>1, <2>2
<1>5. issuers' \in Seq(Texts \cup {NULL})
  <2>1. CASE Full
    BY <1>1, <2>1 DEF TypeOK
  <2>2. CASE ~Full
    <3>1. PICK copy \in Texts \cup {NULL} : issuers' = Append(issuers, copy)
      BY <1>1, <1>2, <2>2
    <3>2. issuers \in Seq(Texts \cup {NULL})
      BY DEF TypeOK
    <3> QED BY <3>1, <3>2, AppendProperties
  <2> QED BY <2>1, <2>2
<1>6. UNCHANGED <<config, settings, pc, ret, inits>>
  BY DEF NextIssuer
<1> QED BY <1>4, <1>5, <1>6 DEF TypeOK, config

LEMMA OthersTypeOK ==
  ASSUME TypeOK, BadVersion \/ GetOptions \/ IssuersDone \/ UNCHANGED vars
  PROVE  TypeOK'
<1>1. inits < MaxInits => inits + 1 \in 0 .. MaxInits
  BY OptionsAssumption DEF TypeOK
<1>2. CASE BadVersion
  BY <1>1, <1>2 DEF BadVersion, PlugInit, TypeOK, config
<1>3. CASE GetOptions
  <2>1. Option(scope) \in Texts
    BY OptionsAssumption DEF TypeOK, Option, Texts
  <2>2. Len(table) + 1 >= 1 /\ Len(table) \in Int
    BY DEF TypeOK
  <2>3. rest' \in 1 .. Len(table) + 1
    BY <1>3, <2>2 DEF GetOptions
  <2>4. pc' \in {"idle", "strtok"} /\ ret' \in {"none", "SASL_OK", "SASL_BADVERS"}
    BY <1>3 DEF GetOptions, TypeOK
  <2>5. issuers' \in Seq(Texts \cup {NULL})
    BY <1>3 DEF GetOptions
  <2> QED BY <1>1, <1>3, <2>1, <2>3, <2>4, <2>5
          DEF GetOptions, PlugInit, TypeOK, config
<1>4. CASE IssuersDone
  BY <1>4 DEF IssuersDone, TypeOK, config
<1>5. CASE UNCHANGED vars
  BY <1>5 DEF vars, TypeOK, config
<1> QED BY <1>2, <1>3, <1>4, <1>5

LEMMA InitTypeOK == Init => TypeOK
<1> SUFFICES ASSUME Init PROVE TypeOK
  OBVIOUS
<1>1. written \in Lists /\ table = written /\ scope \in Scopes
  BY DEF Init
<1>2. table \in Texts \cup {NULL}
  BY <1>1, OptionsAssumption
<1>3. Len(table) \in Nat
  BY <1>2 DEF Texts, NULL
<1>4. rest \in 1 .. Len(table) + 1
  BY <1>3 DEF Init
<1>5. issuers \in Seq(Texts \cup {NULL})
  BY DEF Init
<1> QED BY <1>1, <1>2, <1>4, <1>5, OptionsAssumption DEF Init, TypeOK
-----------------------------------------------------------------------------
\* The first time strtok goes over the text.

LEMMA OptionIs ==
  ASSUME TypeOK, TableInv, table # NULL
  PROVE  /\ written \in Texts /\ Option(written) = written
         /\ Len(table) = Len(written) /\ Len(written) \in Nat
         /\ \A k \in 1 .. Len(written) : written[k] # NUL
<1>1. written \in Lists /\ written # NULL
  BY DEF TypeOK, TableInv
<1>2. written \in Texts
  BY <1>1, OptionsAssumption
<1> QED BY <1>1, <1>2, OptionsAssumption DEF TableInv, Option, Texts

\* All of what is ahead is seen, as the option has it.
LEMMA SeesAll ==
  ASSUME TypeOK, TableInv, table # NULL,
         \A k \in rest .. Len(table) : table[k] = written[k]
  PROVE  /\ Len(Seen) = Len(written) - rest + 1
         /\ \A k \in 1 .. Len(Seen) : Seen[k] = written[rest + k - 1]
<1>1. /\ Len(table) = Len(written) /\ Len(written) \in Nat
      /\ \A k \in 1 .. Len(written) : written[k] # NUL
  BY OptionIs
<1>2. /\ rest \in 1 .. Len(table) + 1
      /\ Len(Seen) \in 0 .. Len(table) - rest + 1
      /\ \A k \in 1 .. Len(Seen) : Seen[k] = table[rest + k - 1]
      /\ Len(Seen) < Len(table) - rest + 1 => table[rest + Len(Seen)] = NUL
  BY SeenIs
<1>3. Len(Seen) = Len(written) - rest + 1
  <2> SUFFICES ASSUME Len(Seen) < Len(table) - rest + 1 PROVE FALSE
    BY <1>1, <1>2
  <2>1. /\ rest + Len(Seen) \in rest .. Len(table)
        /\ rest + Len(Seen) \in 1 .. Len(written)
    BY <1>1, <1>2
  <2> QED BY <1>1, <1>2, <2>1
<1>4. \A k \in 1 .. Len(Seen) : rest + k - 1 \in rest .. Len(table)
  BY <1>1, <1>2, <1>3
<1> QED BY <1>2, <1>3, <1>4

\* A word of what is seen is a word of the option, the first one from rest on.
LEMMA ReadWord ==
  ASSUME TypeOK, TableInv, table # NULL, Reading, NEW w \in NextWord(Seen, 1),
         NEW a, NEW b, a = rest + w[1] - 1, b = rest + w[2] - 1
  PROVE  /\ a \in rest .. Len(written) /\ b \in a .. Len(written)
         /\ IsWord(written, Blanks, a, b)
         /\ \A k \in rest .. a - 1 : written[k] \in Blanks
         /\ b < Len(written) <=> w[2] < Len(Seen)
         /\ After(w) = b + 1
         /\ SubSeq(Seen, w[1], w[2]) = SubSeq(written, a, b)
<1> DEFINE c == w[1]  d == w[2]  m == Len(written)  n == Len(Seen)
<1>1. /\ c \in 1 .. n /\ d \in 1 .. n /\ c <= d
      /\ \A k \in c .. d : Seen[k] \notin Blanks
      /\ c = 1 \/ Seen[c - 1] \in Blanks
      /\ d = n \/ Seen[d + 1] \in Blanks
      /\ \A k \in 1 .. c - 1 : Seen[k] \in Blanks
  BY DEF NextWord, IsWord
<1>2. /\ n = m - rest + 1
      /\ \A k \in 1 .. n : Seen[k] = written[rest + k - 1]
  BY SeesAll DEF Reading
<1>3. /\ m \in Nat /\ rest \in 1 .. m + 1 /\ n \in Nat
      /\ written \in Texts /\ Seen \in Texts /\ Len(table) = m
  BY OptionIs, SeenIs
<1>4. rest = 1 \/ rest > m \/ written[rest - 1] \in Blanks
  BY <1>3 DEF Reading
<1>5. After(w) = b + 1
  BY <1>1, <1>3 DEF After
<1> HIDE DEF c, d, m, n
<1>6. /\ a = rest + c - 1 /\ b = rest + d - 1
  BY DEF c, d
<1>7. /\ a \in rest .. m /\ b \in a .. m
      /\ b < m <=> d < n
      /\ a \in Int /\ b \in Int /\ c \in Int /\ d \in Int
  BY <1>1, <1>2, <1>3, <1>6
<1>8. \A k \in a .. b : written[k] \notin Blanks
  <2> SUFFICES ASSUME NEW k \in a .. b PROVE written[k] \notin Blanks
    OBVIOUS
  <2>1. /\ k - rest + 1 \in c .. d /\ k - rest + 1 \in 1 .. n
        /\ rest + (k - rest + 1) - 1 = k
    BY <1>1, <1>3, <1>6, <1>7
  <2> QED BY <1>1, <1>2, <2>1
<1>9. \A k \in rest .. a - 1 : written[k] \in Blanks
  <2> SUFFICES ASSUME NEW k \in rest .. a - 1 PROVE written[k] \in Blanks
    OBVIOUS
  <2>1. /\ k - rest + 1 \in 1 .. c - 1 /\ k - rest + 1 \in 1 .. n
        /\ rest + (k - rest + 1) - 1 = k
    BY <1>1, <1>3, <1>6, <1>7
  <2> QED BY <1>1, <1>2, <2>1
<1>10. a = 1 \/ written[a - 1] \in Blanks
  <2>1. CASE c = 1
    BY <1>3, <1>4, <1>6, <1>7, <2>1
  <2>2. CASE c # 1
    <3>1. a - 1 \in rest .. a - 1
      BY <1>1, <1>3, <1>6, <1>7, <2>2
    <3> QED BY <1>9, <3>1
  <2> QED BY <2>1, <2>2
<1>11. b = m \/ written[b + 1] \in Blanks
  <2> SUFFICES ASSUME b # m PROVE written[b + 1] \in Blanks
    OBVIOUS
  <2>1. d # n /\ d + 1 \in 1 .. n /\ rest + (d + 1) - 1 = b + 1
    BY <1>1, <1>3, <1>6, <1>7
  <2> QED BY <1>1, <1>2, <2>1
<1>12. IsWord(written, Blanks, a, b)
  BY <1>7, <1>8, <1>10, <1>11 DEF IsWord, m
<1>13. SubSeq(Seen, c, d) = SubSeq(written, a, b)
  <2>1. /\ c \in 1 .. Len(Seen) /\ d \in c .. Len(Seen)
        /\ rest - 1 \in Nat /\ d + (rest - 1) <= Len(written)
        /\ rest - 1 + c = a /\ rest - 1 + d = b
    <3>1. /\ c \in 1 .. n /\ d \in c .. n
          /\ rest - 1 \in Nat /\ d + (rest - 1) <= m
          /\ rest - 1 + c = a /\ rest - 1 + d = b
      BY <1>1, <1>3, <1>6, <1>7
    <3> QED BY <3>1 DEF n, m
  <2>2. \A k \in c .. d : Seen[k] = written[rest - 1 + k]
    <3>1. \A k \in c .. d : k \in 1 .. n /\ rest + k - 1 = rest - 1 + k
      BY <1>1, <1>3, <1>7
    <3> QED BY <1>2, <3>1
  <2>3. SubSeq(Seen, c, d) = SubSeq(written, rest - 1 + c, rest - 1 + d)
    BY <1>3, <2>1, <2>2, EqualParts
  <2> QED BY <2>1, <2>3
<1> QED BY <1>5, <1>7, <1>9, <1>12, <1>13 DEF c, d, m, n

\* The words begun before the place behind it are those before, and it.
LEMMA BegunStep ==
  ASSUME NEW t \in Texts, NEW n \in Nat, NEW a \in 1 .. Len(t), NEW b \in a .. Len(t), n <= a,
         IsWord(t, Blanks, a, b), \A k \in n .. a - 1 : t[k] \in Blanks,
         NEW r \in {b + 1, b + 2}, r = b + 2 => b < Len(t)
  PROVE  /\ Begun(t, r) = Begun(t, n) \cup {<<a, b>>}
         /\ <<a, b>> \in Spans(t) /\ <<a, b>> \notin Begun(t, n)
         /\ Begun(t, a) = Begun(t, n)
<1>1. Len(t) \in Nat /\ a \in Nat /\ b \in Nat /\ b \in 1 .. Len(t)
  BY DEF Texts
<1>2. <<a, b>> \in Spans(t) /\ <<a, b>>[1] = a /\ <<a, b>>[2] = b
  BY <1>1 DEF Spans
<1>3. ASSUME NEW q \in Spans(t)
      PROVE  /\ q[1] \in 1 .. Len(t) /\ q[2] \in 1 .. Len(t)
             /\ IsWord(t, Blanks, q[1], q[2]) /\ q = <<q[1], q[2]>>
             /\ t[q[1]] \notin Blanks
  BY <1>1 DEF Spans, IsWord
<1>4. ASSUME NEW q \in Spans(t), n <= q[1], q[1] <= b
      PROVE  q = <<a, b>>
  <2>1. q[1] = a /\ q[2] = b
    BY <1>1, <1>3, <1>4, OnlyWord
  <2> QED BY <1>3, <2>1
<1>5. ASSUME NEW q \in Spans(t), q[1] < r PROVE q[1] <= b
  <2>1. q[1] \in Nat
    BY <1>1, <1>3
  <2>2. CASE q[1] = b + 1
    <3>1. r = b + 2 /\ t[b + 1] \in Blanks
      BY <1>1, <1>5, <2>2 DEF IsWord
    <3> QED BY <1>3, <2>2, <3>1
  <2> QED BY <1>1, <1>5, <2>1, <2>2
<1>6. ASSUME NEW q \in Spans(t) PROVE q[1] < a => q[1] < n
  <2>1. ASSUME q[1] < a, ~ (q[1] < n) PROVE FALSE
    <3>1. q[1] \in n .. a - 1
      BY <1>1, <1>3, <2>1
    <3> QED BY <1>3, <3>1
  <2> QED BY <2>1
<1>7. \A m : Begun(t, m) = {q \in Spans(t) : q[1] < m}
  BY DEF Begun
<1>8. <<a, b>> \notin Begun(t, n)
  BY <1>1, <1>2, <1>7
<1>9. Begun(t, n) \subseteq Begun(t, a)
  BY <1>1, <1>3, <1>7
<1>10. Begun(t, n) \subseteq Begun(t, r)
  <2> SUFFICES ASSUME NEW q \in Spans(t), q[1] < n PROVE q[1] < r
    BY <1>7
  <2> QED BY <1>1, <1>3
<1>11. Begun(t, r) \subseteq Begun(t, n) \cup {<<a, b>>}
  <2> SUFFICES ASSUME NEW q \in Spans(t), q[1] < r, ~ (q[1] < n)
               PROVE  q = <<a, b>>
    BY <1>7
  <2>1. n <= q[1] /\ q[1] <= b
    BY <1>1, <1>3, <1>5
  <2> QED BY <1>4, <2>1
<1>12. <<a, b>> \in Begun(t, r)
  BY <1>1, <1>2, <1>7
<1>13. Begun(t, a) \subseteq Begun(t, n)
  BY <1>6, <1>7
<1> QED BY <1>2, <1>8, <1>9, <1>10, <1>11, <1>12, <1>13

\* strtok has come to n in W, whose cut-up text is T; the word a .. b is next.
At(W, T, n) ==
  /\ \A k \in n .. Len(T) : T[k] = W[k]
  /\ \A p \in Begun(W, n) :
       p[2] < n /\ (p[2] < Len(T) => T[p[2] + 1] = NUL)

WordAhead(W, n, a, b) ==
  /\ a \in n .. Len(W) /\ b \in a .. Len(W)
  /\ IsWord(W, Blanks, a, b)
  /\ \A k \in n .. a - 1 : W[k] \in Blanks

\* It takes that word, cuts behind it, and comes to r.
Taken(W, T, b, U, r) ==
  \/ b < Len(W) /\ r = b + 2 /\ U = [T EXCEPT ![b + 1] = NUL]
  \/ b = Len(W) /\ r = b + 1 /\ U = T

\* The text cut up further, from T to U.
CutFurther(W, T, U) ==
  /\ Len(U) = Len(W)
  /\ \A k \in 1 .. Len(U) : U[k] = T[k] \/ (U[k] = NUL /\ W[k] \in Blanks)

LEMMA WordTaken ==
  ASSUME NEW W \in Texts, NEW T \in Texts, Len(T) = Len(W),
         NEW n \in 1 .. Len(W) + 1, At(W, T, n),
         NEW a, NEW b, WordAhead(W, n, a, b),
         NEW U, NEW r, Taken(W, T, b, U, r)
  PROVE  /\ CutFurther(W, T, U) /\ U \in Texts
         /\ r > Len(U) \/ W[r - 1] \in Blanks
         /\ At(W, U, r)
         /\ <<a, b>> \in Spans(W)
         /\ Begun(W, a) = Begun(W, n)
         /\ Cardinality(Begun(W, n)) \in Nat
         /\ Cardinality(Begun(W, r)) = Cardinality(Begun(W, n)) + 1
<1>0. /\ \A k \in n .. Len(T) : T[k] = W[k]
      /\ \A p \in Begun(W, n) :
           p[2] < n /\ (p[2] < Len(T) => T[p[2] + 1] = NUL)
      /\ a \in n .. Len(W) /\ b \in a .. Len(W)
      /\ IsWord(W, Blanks, a, b)
      /\ \A k \in n .. a - 1 : W[k] \in Blanks
      /\ \/ b < Len(W) /\ r = b + 2 /\ U = [T EXCEPT ![b + 1] = NUL]
         \/ b = Len(W) /\ r = b + 1 /\ U = T
  BY DEF At, WordAhead, Taken
<1>1. /\ Len(W) \in Nat /\ n \in Nat /\ a \in Nat /\ b \in Nat
      /\ 1 <= n /\ n <= a /\ a <= b /\ b <= Len(W)
      /\ a \in 1 .. Len(W)
  BY <1>0 DEF Texts
<1>2. /\ r \in {b + 1, b + 2} /\ (r = b + 2 => b < Len(W))
      /\ b < Len(W) => r = b + 2
  BY <1>0, <1>1
<1>3. /\ Begun(W, r) = Begun(W, n) \cup {<<a, b>>}
      /\ <<a, b>> \in Spans(W) /\ <<a, b>> \notin Begun(W, n)
      /\ Begun(W, a) = Begun(W, n)
  BY <1>0, <1>1, <1>2, BegunStep, SMTT(30)
<1>4. /\ U \in Texts /\ Len(U) = Len(W)
      /\ \A k \in 1 .. Len(W) : U[k] = IF k = b + 1 THEN NUL ELSE T[k]
  <2>1. CASE b < Len(W)
    <3>1. b + 1 \in 1 .. Len(T) /\ U = [T EXCEPT ![b + 1] = NUL]
      BY <1>0, <1>1, <2>1
    <3>2. T \in Seq(STRING \ {"(null)"}) /\ NUL \in STRING \ {"(null)"}
      BY NulIsString DEF Texts, NUL
    <3> QED BY <1>0, <1>1, <3>1, <3>2, ExceptSeq DEF Texts
  <2>2. CASE b = Len(W)
    BY <1>0, <1>1, <2>2
  <2> QED BY <1>0, <1>1, <2>1, <2>2
<1>5. b < Len(W) => W[b + 1] \in Blanks
  BY <1>0, <1>1 DEF IsWord
<1>6. \A k \in 1 .. Len(U) : U[k] = T[k] \/ (U[k] = NUL /\ W[k] \in Blanks)
  BY <1>0, <1>1, <1>4, <1>5
<1>7. r > Len(U) \/ W[r - 1] \in Blanks
  <2>1. CASE b < Len(W)
    <3>1. r - 1 = b + 1
      BY <1>0, <1>1, <1>2, <2>1
    <3> QED BY <1>5, <2>1, <3>1
  <2>2. CASE b = Len(W)
    BY <1>0, <1>1, <1>2, <1>4, <2>2
  <2> QED BY <1>0, <1>1, <2>1, <2>2
<1>8. \A k \in r .. Len(U) : U[k] = W[k]
  BY <1>0, <1>1, <1>2, <1>4
<1>9. ASSUME NEW p \in Begun(W, r)
      PROVE  p[2] < r /\ (p[2] < Len(U) => U[p[2] + 1] = NUL)
  <2>1. CASE p \in Begun(W, n)
    <3>1. p[2] < n /\ (p[2] < Len(T) => T[p[2] + 1] = NUL) /\ p[2] \in 1 .. Len(W)
      BY <1>0, <2>1 DEF Begun, Spans
    <3>2. p[2] < r
      BY <1>0, <1>1, <1>2, <3>1
    <3>3. ASSUME p[2] < Len(U) PROVE U[p[2] + 1] = NUL
      <4>1. p[2] + 1 \in 1 .. Len(W) /\ p[2] + 1 # b + 1
        BY <1>0, <1>1, <1>4, <3>1, <3>3
      <4> QED BY <1>4, <3>1, <3>3, <4>1
    <3> QED BY <3>2, <3>3
  <2>2. CASE p = <<a, b>>
    <3>1. p[2] = b /\ b < r
      BY <1>0, <1>1, <1>2, <2>2
    <3>2. b < Len(U) => U[b + 1] = NUL
      BY <1>0, <1>1, <1>4
    <3> QED BY <3>1, <3>2
  <2> QED BY <1>3, <1>9, <2>1, <2>2
<1>10. /\ IsFiniteSet(Begun(W, n)) /\ Cardinality(Begun(W, n)) \in Nat
  BY SpansFinite DEF Begun
<1>11. Cardinality(Begun(W, r)) = Cardinality(Begun(W, n)) + 1
  BY <1>3, <1>10, FS_AddElement
<1> QED BY <1>3, <1>4, <1>6, <1>7, <1>8, <1>9, <1>10, <1>11 DEF At, CutFurther

\* One more word is taken while there is room.
LEMMA ReadingGoesOn ==
  ASSUME TypeOK, TableInv, table # NULL, Reading, EntriesInOrder, NextIssuer
  PROVE  TableInv' /\ Reading' /\ EntriesInOrder'
<1> DEFINE W == Option(written)
<1>1. PICK w \in NextWord(Seen, 1) :
        /\ IF w[2] < Len(Seen)
           THEN table' = [table EXCEPT ![After(w)] = NUL] /\ rest' = After(w) + 1
           ELSE UNCHANGED table /\ rest' = After(w)
        /\ IF Full
           THEN UNCHANGED issuers
           ELSE \E copy \in {SubSeq(Seen, w[1], w[2])}
                           \cup (IF StrdupFails THEN {NULL} ELSE {}) :
                  issuers' = Append(issuers, copy)
  BY DEF NextIssuer
<1>2. PICK a, b : a = rest + w[1] - 1 /\ b = rest + w[2] - 1
  OBVIOUS
<1>3. W = written
  BY OptionIs
<1>4. /\ W \in Texts /\ Len(W) \in Nat /\ Len(table) = Len(W)
      /\ table \in Texts /\ rest \in 1 .. Len(W) + 1
  BY <1>3, OptionIs, SeenIs
<1>5. /\ a \in rest .. Len(W) /\ b \in a .. Len(W)
      /\ WordAhead(W, rest, a, b)
      /\ b < Len(W) <=> w[2] < Len(Seen)
      /\ After(w) = b + 1
      /\ SubSeq(Seen, w[1], w[2]) = SubSeq(W, a, b)
  BY <1>2, <1>3, ReadWord DEF WordAhead
<1>6. written' = written /\ W' = W
  BY DEF NextIssuer, config
<1> HIDE DEF W
<1>7. Taken(W, table, b, table', rest')
  <2>1. b \in Int /\ b <= Len(W)
    BY <1>4, <1>5
  <2>2. CASE b < Len(W)
    BY <1>1, <1>5, <2>1, <2>2 DEF Taken
  <2>3. CASE b = Len(W)
    BY <1>1, <1>4, <1>5, <2>1, <2>3 DEF Taken
  <2> QED BY <1>4, <2>1, <2>2, <2>3
<1>8. /\ At(W, table, rest)
      /\ Len(issuers) = Min({Cardinality(Begun(W, rest)), MaxIssuers - 1})
  BY <1>3 DEF Reading, CutBefore, At, W
<1>9. /\ CutFurther(W, table, table') /\ table' \in Texts
      /\ rest' > Len(table') \/ W[rest' - 1] \in Blanks
      /\ At(W, table', rest')
      /\ <<a, b>> \in Spans(W)
      /\ Begun(W, a) = Begun(W, rest)
      /\ Cardinality(Begun(W, rest)) \in Nat
      /\ Cardinality(Begun(W, rest')) = Cardinality(Begun(W, rest)) + 1
  BY <1>4, <1>5, <1>7, <1>8, WordTaken, SMTT(30)
<1>10. TableInv'
  <2>1. \A k \in 1 .. Len(table) :
          table[k] = written[k] \/ (table[k] = NUL /\ written[k] \in Blanks)
    BY DEF TableInv
  <2>2. \A k \in 1 .. Len(table') :
          \/ table'[k] = written[k]
          \/ table'[k] = NUL /\ written[k] \in Blanks
    BY <1>3, <1>4, <1>9, <2>1 DEF CutFurther
  <2>3. table' # NULL /\ written # NULL /\ Len(table') = Len(written)
    BY <1>3, <1>4, <1>9, NullIsNoText DEF CutFurther, TableInv
  <2> QED BY <1>6, <2>2, <2>3 DEF TableInv
<1>11. \/ issuers' = issuers /\ Len(issuers) >= MaxIssuers - 1
       \/ /\ Len(issuers) < MaxIssuers - 1
          /\ \E copy : /\ issuers' = Append(issuers, copy)
                       /\ \/ copy = SubSeq(W, a, b)
                          \/ StrdupFails /\ copy = NULL
  <2>1. Len(issuers) \in Nat /\ MaxIssuers - 1 \in Int
    BY OptionsAssumption DEF TypeOK
  <2>2. CASE Full
    BY <1>1, <2>2 DEF Full
  <2>3. CASE ~Full
    <3>1. PICK copy \in {SubSeq(Seen, w[1], w[2])}
                        \cup (IF StrdupFails THEN {NULL} ELSE {}) :
            issuers' = Append(issuers, copy)
      BY <1>1, <2>3
    <3>2. copy = SubSeq(W, a, b) \/ (StrdupFails /\ copy = NULL)
      BY <1>5, <3>1
    <3>3. Len(issuers) < MaxIssuers - 1
      BY <2>1, <2>3 DEF Full
    <3> QED BY <3>1, <3>2, <3>3
  <2> QED BY <2>2, <2>3
<1> DEFINE c == Cardinality(Begun(W, rest))  room == MaxIssuers - 1
<1>12. /\ c \in Nat /\ room \in Nat /\ Len(issuers) \in Nat
       /\ issuers \in Seq(Texts \cup {NULL})
       /\ Len(issuers) = IF c <= room THEN c ELSE room
  <2>1. /\ c \in Nat /\ room \in Nat /\ issuers \in Seq(Texts \cup {NULL})
    BY <1>9, OptionsAssumption DEF TypeOK
  <2>2. Len(issuers) = Min({c, room})
    BY <1>8
  <2> HIDE DEF c, room
  <2> QED BY <2>1, <2>2, MinOfTwo
<1>13. Len(issuers') = Min({Cardinality(Begun(W, rest')), room})
  <2>1. Len(issuers') = IF c + 1 <= room THEN c + 1 ELSE room
    <3>1. CASE issuers' = issuers /\ Len(issuers) >= room
      BY <1>12, <3>1
    <3>2. CASE Len(issuers) < room /\ \E copy : issuers' = Append(issuers, copy)
      <4>1. Len(issuers') = Len(issuers) + 1
        BY <1>12, <3>2
      <4> QED BY <1>12, <3>2, <4>1
    <3> QED BY <1>11, <3>1, <3>2
  <2>2. Cardinality(Begun(W, rest')) = c + 1
    BY <1>9
  <2>3. c + 1 \in Nat /\ room \in Nat
    BY <1>12
  <2> HIDE DEF c, room
  <2> QED BY <2>1, <2>2, <2>3, MinOfTwo
<1>14. Reading'
  <2>1. CutBefore(rest)'
    BY <1>6, <1>9 DEF CutBefore, At, W
  <2>2. \A k \in rest' .. Len(table') : table'[k] = written'[k]
    BY <1>3, <1>6, <1>9 DEF At
  <2>3. rest' > Len(table') \/ written'[rest' - 1] \in Blanks
    BY <1>3, <1>6, <1>9
  <2>4. Len(issuers') = Min({Cardinality(Begun(Option(written'), rest')), MaxIssuers - 1})
    BY <1>6, <1>13 DEF W
  <2> QED BY <2>1, <2>2, <2>3, <2>4 DEF Reading
<1>15. EntriesInOrder'
  <2>1. \A n \in 1 .. Len(issuers) :
          IsNthWord(issuers[n], W, n) \/ (StrdupFails /\ issuers[n] = NULL)
    BY DEF EntriesInOrder, W
  <2>2. SUFFICES ASSUME NEW n \in 1 .. Len(issuers')
                 PROVE  \/ IsNthWord(issuers'[n], W, n)
                        \/ StrdupFails /\ issuers'[n] = NULL
    BY <1>6 DEF EntriesInOrder, W
  <2>3. CASE issuers' = issuers
    BY <2>1, <2>3
  <2>4. CASE Len(issuers) < room /\ issuers' # issuers
    <3>1. PICK copy : /\ issuers' = Append(issuers, copy)
                      /\ copy = SubSeq(W, a, b) \/ (StrdupFails /\ copy = NULL)
      BY <1>11, <2>4
    <3>2. /\ Len(issuers') = Len(issuers) + 1 /\ issuers'[Len(issuers) + 1] = copy
          /\ \A k \in 1 .. Len(issuers) : issuers'[k] = issuers[k]
      BY <1>12, <3>1
    <3>3. CASE n <= Len(issuers)
      BY <1>12, <2>1, <3>2, <3>3
    <3>4. CASE n = Len(issuers) + 1
      <4>1. Len(issuers) = c /\ n - 1 = c
        BY <1>12, <2>4, <3>4
      <4>2. ASSUME copy = SubSeq(W, a, b) PROVE IsNthWord(copy, W, n)
        <5> DEFINE p == <<a, b>>
        <5>1. p \in Spans(W) /\ p[1] = a /\ p[2] = b
          BY <1>9
        <5>2. Cardinality(Begun(W, p[1])) = n - 1
          BY <1>9, <4>1, <5>1
        <5> HIDE DEF p
        <5> QED BY <4>2, <5>1, <5>2 DEF IsNthWord
      <4> QED BY <3>1, <3>2, <3>4, <4>2
    <3> QED BY <1>12, <3>2, <3>3, <3>4
  <2> QED BY <1>11, <2>3, <2>4
<1> QED BY <1>10, <1>14, <1>15
-----------------------------------------------------------------------------
\* Any later time.

\* Only the first word is left to be found, and nothing is left to be cut.
LEMMA RereadingGoesOn ==
  ASSUME TypeOK, TableInv, table # NULL, Rereading, EntriesInOrder, NextIssuer
  PROVE  TableInv' /\ Rereading' /\ EntriesInOrder'
<1>1. PICK w \in NextWord(Seen, 1) :
        /\ IF w[2] < Len(Seen)
           THEN table' = [table EXCEPT ![After(w)] = NUL] /\ rest' = After(w) + 1
           ELSE UNCHANGED table /\ rest' = After(w)
        /\ IF Full
           THEN UNCHANGED issuers
           ELSE \E copy \in {SubSeq(Seen, w[1], w[2])}
                           \cup (IF StrdupFails THEN {NULL} ELSE {}) :
                  issuers' = Append(issuers, copy)
  BY DEF NextIssuer
<1> DEFINE W == Option(written)  a == w[1]  b == w[2]  n == Len(Seen)
<1>2. /\ W = written /\ W \in Texts /\ Len(W) \in Nat /\ Len(table) = Len(W)
      /\ \A k \in 1 .. Len(W) : W[k] # NUL
  BY OptionIs
<1>3. /\ table \in Texts
      /\ Seen \in Texts /\ n \in 0 .. Len(W) - rest + 1
      /\ \A k \in 1 .. n : Seen[k] = table[rest + k - 1] /\ table[rest + k - 1] # NUL
      /\ n < Len(W) - rest + 1 => table[rest + n] = NUL
  BY <1>2, SeenIs
<1>4. /\ a \in 1 .. n /\ b \in 1 .. n /\ a <= b
      /\ \A k \in a .. b : Seen[k] \notin Blanks
      /\ a = 1 \/ Seen[a - 1] \in Blanks
      /\ b = n \/ Seen[b + 1] \in Blanks
      /\ \A k \in 1 .. a - 1 : Seen[k] \in Blanks
  BY DEF NextWord, IsWord
<1>5. rest = 1 /\ issuers = <<>> /\ AllCut
  <2>1. Seen # <<>>
    BY <1>3, <1>4
  <2> QED BY <2>1 DEF Rereading
<1>6. After(w) = b + 1
  BY <1>3, <1>4, <1>5 DEF After
<1>7. \A k \in 1 .. n : Seen[k] = W[k] /\ table[k] = W[k]
  <2>1. \A k \in 1 .. Len(table) : table[k] = W[k] \/ table[k] = NUL
    BY <1>2 DEF TableInv
  <2>2. \A k \in 1 .. n : k \in 1 .. Len(table) /\ rest + k - 1 = k
    BY <1>2, <1>3, <1>5
  <2> QED BY <1>3, <2>1, <2>2
<1>8. n < Len(W) => W[n + 1] \in Blanks /\ table[n + 1] = NUL
  <2> SUFFICES ASSUME n < Len(W) PROVE W[n + 1] \in Blanks /\ table[n + 1] = NUL
    OBVIOUS
  <2>1. table[n + 1] = NUL /\ n + 1 \in 1 .. Len(table)
    BY <1>2, <1>3, <1>5
  <2>2. table[n + 1] = W[n + 1] \/ W[n + 1] \in Blanks
    BY <1>2, <2>1 DEF TableInv
  <2> QED BY <1>2, <2>1, <2>2
<1> HIDE DEF W, a, b, n
<1>9. a \in 1 .. Len(W) /\ b \in 1 .. Len(W) /\ IsWord(W, Blanks, a, b)
  <2>1. a \in 1 .. Len(W) /\ b \in 1 .. Len(W) /\ a <= b /\ n <= Len(W)
    BY <1>2, <1>3, <1>4, <1>5
  <2>2. \A k \in a .. b : W[k] \notin Blanks
    <3>1. \A k \in a .. b : k \in 1 .. n
      BY <1>3, <1>4
    <3> QED BY <1>4, <1>7, <3>1
  <2>3. a = 1 \/ W[a - 1] \in Blanks
    <3>1. a # 1 => a - 1 \in 1 .. n
      BY <1>3, <1>4
    <3> QED BY <1>4, <1>7, <3>1
  <2>4. b = Len(W) \/ W[b + 1] \in Blanks
    <3>1. CASE b = n
      BY <1>2, <1>3, <1>8, <2>1, <3>1
    <3>2. CASE b # n
      <4>1. b + 1 \in 1 .. n
        BY <1>3, <1>4, <3>2
      <4> QED BY <1>4, <1>7, <3>2, <4>1
    <3> QED BY <3>1, <3>2
  <2> QED BY <2>1, <2>2, <2>3, <2>4 DEF IsWord
<1>10. /\ <<a, b>> \in Spans(W) /\ Begun(W, a) = {}
  <2> DEFINE p == <<a, b>>
  <2>1. p \in (1 .. Len(W)) \X (1 .. Len(W)) /\ p[1] = a /\ p[2] = b
    BY <1>9
  <2>2. ASSUME NEW q \in Spans(W), q[1] < a PROVE FALSE
    <3>1. q[1] \in 1 .. Len(W) /\ W[q[1]] \notin Blanks
      BY <1>2 DEF Spans, IsWord
    <3>2. q[1] \in 1 .. a - 1 /\ q[1] \in 1 .. n
      BY <1>2, <1>3, <1>4, <2>2, <3>1
    <3> QED BY <1>4, <1>7, <3>1, <3>2
  <2> HIDE DEF p
  <2>3. p \in Spans(W)
    BY <1>9, <2>1 DEF Spans
  <2> QED BY <2>2, <2>3 DEF p, Begun
<1>11. b = n
  <2> SUFFICES ASSUME b # n PROVE FALSE
    OBVIOUS
  <2> DEFINE p == <<a, b>>
  <2>1. p[1] = a /\ p[2] = b /\ p \in Spans(W)
    BY <1>10
  <2>2. b + 1 \in 1 .. n /\ b < Len(table) /\ a < Len(table) + 1
    BY <1>2, <1>3, <1>4, <1>5
  <2> HIDE DEF p
  <2>3. p \in Begun(W, Len(table) + 1)
    BY <2>1, <2>2 DEF Begun
  <2>4. table[b + 1] = NUL
    BY <1>5, <2>1, <2>2, <2>3 DEF AllCut, CutBefore, W
  <2>5. table[b + 1] # NUL
    <3>1. rest + (b + 1) - 1 = b + 1
      BY <1>3, <1>4, <1>5
    <3> QED BY <1>3, <2>2, <3>1
  <2> QED BY <2>4, <2>5
<1>12. table' = table /\ rest' = n + 1 /\ written' = written
  <2>1. table' = table /\ rest' = After(w)
    BY <1>1, <1>3, <1>4, <1>11 DEF b, n
  <2> QED BY <1>6, <1>11, <2>1 DEF NextIssuer, config
<1>13. TableInv'
  BY <1>12 DEF TableInv
<1>14. Seen' = <<>>
  <2>1. Seen' = CString(SubSeq(table, n + 1, Len(table)))
    BY <1>12 DEF Seen
  <2>2. n + 1 \in 1 .. Len(table) + 1
    BY <1>2, <1>3, <1>5
  <2>3. /\ Seen' \in Texts /\ Len(Seen') \in 0 .. Len(table) - (n + 1) + 1
        /\ \A k \in 1 .. Len(Seen') : table[n + 1 + k - 1] # NUL
    BY <1>3, <2>1, <2>2, VisibleIs
  <2>4. Len(Seen') = 0
    <3> SUFFICES ASSUME Len(Seen') # 0 PROVE FALSE
      OBVIOUS
    <3>1. 1 \in 1 .. Len(Seen') /\ n < Len(table) /\ n + 1 + 1 - 1 = n + 1
      BY <1>2, <1>3, <2>2, <2>3
    <3>2. table[n + 1] = NUL
      BY <1>2, <1>8, <3>1
    <3>3. table[n + 1 + 1 - 1] # NUL
      BY <2>3, <3>1
    <3> QED BY <3>1, <3>2, <3>3
  <2> QED BY <2>3, <2>4 DEF Texts
<1>15. SubSeq(Seen, a, b) = SubSeq(W, a, b)
  <2>1. /\ a \in 1 .. Len(Seen) /\ b \in a .. Len(Seen) /\ 0 \in Nat
        /\ b + 0 <= Len(W) /\ 0 + a = a /\ 0 + b = b
    BY <1>2, <1>3, <1>4, <1>9 DEF n
  <2>2. \A k \in a .. b : Seen[k] = W[0 + k]
    <3>1. \A k \in a .. b : k \in 1 .. n /\ 0 + k = k
      BY <1>3, <1>4
    <3> QED BY <1>7, <3>1
  <2>3. SubSeq(Seen, a, b) = SubSeq(W, 0 + a, 0 + b)
    BY <1>2, <1>3, <2>1, <2>2, EqualParts
  <2> QED BY <2>1, <2>3
<1>16. Rereading' /\ EntriesInOrder'
  <2>1. AllCut'
    BY <1>5, <1>12 DEF AllCut, CutBefore
  <2>2. W' = W
    BY <1>12 DEF W
  <2>3. CASE Full
    <3>1. issuers' = <<>>
      BY <1>1, <1>5, <2>3
    <3> QED BY <1>14, <2>1, <3>1 DEF Rereading, EntriesInOrder
  <2>4. CASE ~Full
    <3>1. PICK copy \in {SubSeq(Seen, a, b)}
                        \cup (IF StrdupFails THEN {NULL} ELSE {}) :
            issuers' = Append(issuers, copy)
      BY <1>1, <2>4 DEF a, b
    <3>2. issuers' = <<copy>> /\ Len(issuers') = 1 /\ issuers'[1] = copy
      BY <1>5, <3>1
    <3>3. ASSUME copy = SubSeq(W, a, b) PROVE IsNthWord(copy, W, 1)
      <4> DEFINE p == <<a, b>>
      <4>1. p \in Spans(W) /\ p[1] = a /\ p[2] = b
        BY <1>10
      <4>2. Cardinality(Begun(W, p[1])) = 1 - 1
        <5>1. Begun(W, p[1]) = {}
          BY <1>10, <4>1
        <5>2. Cardinality({}) = 1 - 1
          BY FS_EmptySet
        <5> QED BY <5>1, <5>2
      <4> HIDE DEF p
      <4> QED BY <3>3, <4>1, <4>2 DEF IsNthWord
    <3>4. IsNthWord(copy, W, 1) \/ (StrdupFails /\ copy = NULL)
      BY <1>15, <3>1, <3>3
    <3>5. EntriesInOrder'
      BY <2>2, <3>2, <3>4 DEF EntriesInOrder, W
    <3> QED BY <1>14, <2>1, <3>2, <3>5 DEF Rereading
  <2> QED BY <2>3, <2>4
<1> QED BY <1>13, <1>16
-----------------------------------------------------------------------------
\* The whole of it.

LEMMA NothingBegun ==
  ASSUME NEW t \in Texts
  PROVE  Begun(t, 1) = {} /\ Cardinality(Begun(t, 1)) = 0
<1>1. ASSUME NEW q \in Spans(t) PROVE ~ (q[1] < 1)
  BY DEF Spans, Texts
<1>2. Begun(t, 1) = {}
  BY <1>1 DEF Begun
<1>3. Cardinality({}) = 0
  BY FS_EmptySet
<1> QED BY <1>2, <1>3

LEMMA NoneOfNone ==
  /\ Spans(<<>>) = {}
  /\ Min({Cardinality(Spans(<<>>)), MaxIssuers - 1}) = 0
<1>1. Spans(<<>>) = {}
  BY DEF Spans
<1>2. Cardinality({}) = 0
  BY FS_EmptySet
<1>3. MaxIssuers - 1 \in Nat /\ 0 \in Nat /\ 0 <= MaxIssuers - 1
  BY OptionsAssumption
<1>4. Min({0, MaxIssuers - 1}) = 0
  BY <1>3, MinOfTwo
<1>5. Cardinality(Spans(<<>>)) = 0
  BY <1>1, <1>2
<1> QED BY <1>1, <1>4, <1>5

\* Where no word is ahead, those behind are all there are.
LEMMA ReadingEnds ==
  ASSUME TypeOK, TableInv, table # NULL, Reading, NextWord(Seen, 1) = {}
  PROVE  /\ AllCut
         /\ Begun(Option(written), rest) = Spans(Option(written))
<1> DEFINE W == Option(written)  m == Len(W)
<1>1. W = written /\ W \in Texts /\ m \in Nat /\ Len(table) = m
  BY OptionIs
<1>2. rest \in 1 .. m + 1 /\ Seen \in Texts
  BY <1>1, SeenIs
<1>3. /\ Len(Seen) = m - rest + 1
      /\ \A k \in 1 .. Len(Seen) : Seen[k] = W[rest + k - 1]
  BY <1>1, SeesAll DEF Reading
<1>4. \A k \in 1 .. Len(Seen) : Seen[k] \in Blanks
  BY <1>2, WordFollows
<1> HIDE DEF W, m
<1>5. ASSUME NEW q \in Spans(W) PROVE q[1] \in 1 .. m /\ q[1] < rest
  <2>1. q[1] \in 1 .. m /\ q[1] \in Int /\ W[q[1]] \notin Blanks
    BY <1>1 DEF Spans, IsWord, m
  <2>2. ASSUME ~ (q[1] < rest) PROVE FALSE
    <3>1. q[1] - rest + 1 \in 1 .. Len(Seen) /\ rest + (q[1] - rest + 1) - 1 = q[1]
      BY <1>1, <1>2, <1>3, <2>1, <2>2
    <3> QED BY <1>3, <1>4, <2>1, <3>1
  <2> QED BY <2>1, <2>2
<1>6. Begun(W, rest) = Spans(W) /\ Begun(W, m + 1) = Spans(W)
  <2>1. \A q \in Spans(W) : q[1] < m + 1
    BY <1>1, <1>5
  <2> QED BY <1>5, <2>1 DEF Begun
<1>7. ASSUME NEW p \in Begun(W, m + 1)
      PROVE  p[2] < m + 1 /\ (p[2] < Len(table) => table[p[2] + 1] = NUL)
  <2>1. p[2] \in 1 .. m
    BY <1>7 DEF Begun, Spans, m
  <2>2. p[2] < Len(table) => table[p[2] + 1] = NUL
    BY <1>6, <1>7 DEF Reading, CutBefore, W
  <2> QED BY <1>1, <2>1, <2>2
<1> QED BY <1>1, <1>6, <1>7 DEF AllCut, CutBefore, W

LEMMA NextIssuerInv ==
  ASSUME TypeOK, StrtokInv, NextIssuer
  PROVE  StrtokInv'
<1>1. pc = "strtok" /\ pc' = pc /\ inits' = inits /\ ret' = ret
  BY DEF NextIssuer
<1>2. /\ TableInv /\ EntriesInOrder /\ table # NULL /\ inits # 0
      /\ Reading \/ (inits > 1 /\ Rereading)
  BY <1>1 DEF StrtokInv
<1>3. TableInv' /\ EntriesInOrder' /\ (Reading' \/ (inits > 1 /\ Rereading'))
  BY <1>2, ReadingGoesOn, RereadingGoesOn
<1>4. table' # NULL
  BY <1>2, <1>3 DEF TableInv, NextIssuer, config
<1> QED BY <1>1, <1>2, <1>3, <1>4 DEF StrtokInv

LEMMA IssuersDoneInv ==
  ASSUME TypeOK, StrtokInv, IssuersDone
  PROVE  StrtokInv'
<1>1. /\ pc = "strtok" /\ NextWord(Seen, 1) = {}
      /\ pc' = "idle" /\ inits' = inits
      /\ UNCHANGED <<written, table, issuers, rest>>
  BY DEF IssuersDone, config
<1>2. /\ TableInv /\ EntriesInOrder /\ table # NULL /\ inits # 0
      /\ Reading \/ (inits > 1 /\ Rereading)
  BY <1>1 DEF StrtokInv
<1>3. TableInv' /\ EntriesInOrder'
  BY <1>1, <1>2 DEF TableInv, EntriesInOrder
<1>4. AllCut /\ (AllCut => AllCut')
  <2>1. AllCut
    BY <1>1, <1>2, ReadingEnds DEF Rereading
  <2> QED BY <1>1, <2>1 DEF AllCut, CutBefore
<1>5. inits = 1 =>
        Len(issuers) = Min({Cardinality(Spans(Option(written))), MaxIssuers - 1})
  <2>1. inits = 1 => Reading
    BY <1>2
  <2> QED BY <1>1, <1>2, <2>1, ReadingEnds DEF Reading
<1> QED BY <1>1, <1>2, <1>3, <1>4, <1>5 DEF StrtokInv

LEMMA GetOptionsInv ==
  ASSUME TypeOK, StrtokInv, GetOptions
  PROVE  StrtokInv'
<1>1. /\ pc = "idle" /\ inits \in Nat /\ inits' = inits + 1
      /\ issuers' = <<>> /\ rest' = 1
      /\ UNCHANGED <<written, table>>
      /\ IF table = NULL THEN pc' = "idle" ELSE pc' = "strtok"
  BY DEF GetOptions, PlugInit, TypeOK, config
<1>2. /\ TableInv /\ (inits = 0 => table = written)
      /\ table = written \/ AllCut
  BY <1>1 DEF StrtokInv
<1>3. TableInv' /\ EntriesInOrder'
  <2>1. TableInv'
    BY <1>1, <1>2 DEF TableInv
  <2> QED BY <1>1, <2>1 DEF EntriesInOrder
<1>4. CASE table = NULL
  <2>1. written = NULL /\ Option(written) = <<>>
    BY <1>2, <1>4 DEF TableInv, Option
  <2>2. Len(issuers') = Min({Cardinality(Spans(Option(written))), MaxIssuers - 1})
    BY <1>1, <2>1, NoneOfNone
  <2>3. table' = written'
    BY <1>1, <1>4, <2>1
  <2> QED BY <1>1, <1>3, <1>4, <2>2, <2>3 DEF StrtokInv
<1>5. CASE table # NULL
  <2>1. CASE table = written
    <3>1. Option(written) = written /\ written \in Texts
      BY <1>2, <1>5, OptionIs
    <3>2. \A k \in 1 .. Len(table) : table[k] = written[k]
      BY <2>1
    <3>3. Begun(Option(written), 1) = {} /\ Cardinality(Begun(Option(written), 1)) = 0
      BY <3>1, NothingBegun
    <3>4. Min({Cardinality(Begun(Option(written), 1)), MaxIssuers - 1}) = 0
      BY <3>3, MinOfTwo, OptionsAssumption
    <3>5. CutBefore(rest)'
      BY <1>1, <3>3 DEF CutBefore
    <3>6. Len(issuers') = 0
      BY <1>1
    <3>7. Reading'
      BY <1>1, <3>2, <3>4, <3>5, <3>6 DEF Reading
    <3> QED BY <1>1, <1>3, <1>5, <3>7 DEF StrtokInv
  <2>2. CASE table # written
    <3>1. AllCut /\ inits # 0
      BY <1>2, <2>2
    <3>2. AllCut'
      BY <1>1, <3>1 DEF AllCut, CutBefore
    <3>3. Rereading'
      BY <1>1, <3>2 DEF Rereading
    <3>4. inits' > 1
      BY <1>1, <3>1
    <3> QED BY <1>1, <1>3, <1>5, <3>3, <3>4 DEF StrtokInv
  <2> QED BY <2>1, <2>2
<1> QED BY <1>4, <1>5

LEMMA RestInv ==
  ASSUME TypeOK, StrtokInv, BadVersion \/ UNCHANGED vars
  PROVE  StrtokInv'
<1>1. UNCHANGED <<written, table, issuers, rest, pc>>
  BY DEF BadVersion, vars, config
<1>2. (TableInv => TableInv') /\ (EntriesInOrder => EntriesInOrder')
  BY <1>1 DEF TableInv, EntriesInOrder
<1>3. (Reading => Reading') /\ (Rereading => Rereading') /\ (AllCut => AllCut')
  BY <1>1 DEF Reading, Rereading, AllCut, CutBefore, Seen
<1>4. CASE BadVersion
  <2>1. /\ inits \in Nat /\ inits' = inits + 1 /\ ret' = "SASL_BADVERS"
        /\ pc = "idle"
    BY <1>4 DEF BadVersion, PlugInit, TypeOK
  <2> QED BY <1>1, <1>2, <1>3, <2>1 DEF StrtokInv
<1>5. CASE UNCHANGED vars
  <2>1. ret' = ret /\ inits' = inits
    BY <1>5 DEF vars
  <2> QED BY <1>1, <1>2, <1>3, <2>1 DEF StrtokInv
<1> QED BY <1>4, <1>5

LEMMA InitInv == Init => StrtokInv
<1> SUFFICES ASSUME Init PROVE StrtokInv
  OBVIOUS
<1>1. TypeOK
  BY InitTypeOK
<1>2. table = written /\ issuers = <<>> /\ pc = "idle" /\ ret = "none" /\ inits = 0
  BY DEF Init
<1>3. TableInv /\ EntriesInOrder
  BY <1>2 DEF TableInv, EntriesInOrder
<1> QED BY <1>2, <1>3 DEF StrtokInv

LEMMA StepInv ==
  ASSUME TypeOK, StrtokInv, [Next]_vars
  PROVE  TypeOK' /\ StrtokInv'
<1>1. CASE NextIssuer
  <2>1. table # NULL
    BY <1>1 DEF StrtokInv, NextIssuer
  <2> QED BY <1>1, <2>1, NextIssuerTypeOK, NextIssuerInv
<1>2. CASE IssuersDone
  BY <1>2, OthersTypeOK, IssuersDoneInv
<1>3. CASE GetOptions
  BY <1>3, OthersTypeOK, GetOptionsInv
<1>4. CASE BadVersion \/ UNCHANGED vars
  BY <1>4, OthersTypeOK, RestInv
<1> QED BY <1>1, <1>2, <1>3, <1>4 DEF Next, GetIssuers

\* The settings of the process have their types, for every option: strtok
\* never writes outside the text of xoauth2_issuers nor goes on beyond its
\* end, and the array holds texts and NULLs only.
THEOREM TypeCorrect == Spec => []TypeOK
<1>1. Init => TypeOK /\ StrtokInv
  BY InitTypeOK, InitInv
<1>2. TypeOK /\ StrtokInv /\ [Next]_vars => TypeOK' /\ StrtokInv'
  BY StepInv
<1> QED BY <1>1, <1>2, PTL DEF Spec

\* The inductive invariant of the strtok loop, over any number of plug_init.
THEOREM StrtokInvariant == Spec => []StrtokInv
<1>1. Init => TypeOK /\ StrtokInv
  BY InitTypeOK, InitInv
<1>2. TypeOK /\ StrtokInv /\ [Next]_vars => TypeOK' /\ StrtokInv'
  BY StepInv
<1> QED BY <1>1, <1>2, PTL DEF Spec

\* The first plug_init reads the words of xoauth2_issuers, whatever blanks are
\* between them: in their order, and one fewer than the array has places when
\* there are more.
THEOREM IssuersRead == Spec => []ReadsIssuers
<1>1. StrtokInv => ReadsIssuers
  BY DEF StrtokInv, EntriesInOrder, ReadsIssuers
<1> QED BY <1>1, StrtokInvariant, PTL

\* However often the options are read again, from the text the first reading
\* cut up, the n-th issuer is the n-th word of the option, or NULL.
THEOREM NoOtherIssuers == Spec => []FindsNoOthers
<1>1. StrtokInv => FindsNoOthers
  BY DEF StrtokInv, EntriesInOrder, FindsNoOthers
<1> QED BY <1>1, StrtokInvariant, PTL
=============================================================================
