----------------------- MODULE WildcardMatch_proofs -------------------------
(***************************************************************************)
(* wildcard_match decides Matches, for every string and every pattern.     *)
(***************************************************************************)
EXTENDS WildcardMatch, TLAPS

(***************************************************************************)
(* Extending a cut by one pattern character: changing what a cut says      *)
(* after its first n entries keeps the fit of the first n.                 *)
(***************************************************************************)
LEMMA ExtendCut ==
  ASSUME NEW s \in Seq(Char), NEW p \in Seq(Char),
         NEW c \in Cuts(s, p), NEW n \in 0 .. Len(p) - 1,
         NEW m \in 0 .. Len(s),
         Fits(c, s, p, n),
         IF p[n + 1] = Star
         THEN c[n] <= m
         ELSE m = c[n] + 1 /\ (p[n + 1] = One \/ p[n + 1] = s[m])
  PROVE  \E d \in Cuts(s, p) : Fits(d, s, p, n + 1) /\ d[n + 1] = m
<1> DEFINE d == [c EXCEPT ![n + 1] = m]
<1>1. /\ Len(p) \in Nat /\ Len(s) \in Nat
      /\ c \in [0 .. Len(p) -> 0 .. Len(s)]
  BY DEF Cuts
<1>2. d \in [0 .. Len(p) -> 0 .. Len(s)]
  BY <1>1
<1>3. \A k \in 0 .. n : d[k] = c[k]
  BY <1>1
<1>4. d[n + 1] = m
  BY <1>1
<1>5. d[0] = 0
  BY <1>3, <1>1 DEF Fits
<1>6. ASSUME NEW k \in 1 .. n + 1 PROVE FitsAt(d, s, p, k)
  <2>1. CASE k = n + 1
    BY <2>1, <1>3, <1>4, <1>1 DEF FitsAt
  <2>2. CASE k # n + 1
    <3>1. k \in 1 .. n /\ k \in 0 .. n /\ k - 1 \in 0 .. n
      BY <2>2, <1>1
    <3>2. FitsAt(c, s, p, k)
      BY <3>1 DEF Fits
    <3> QED BY <3>1, <3>2, <1>3 DEF FitsAt
  <2> QED BY <2>1, <2>2
<1> QED BY <1>2, <1>4, <1>5, <1>6 DEF Cuts, Fits

(***************************************************************************)
(* What a cut of the whole string says at one pattern character.           *)
(***************************************************************************)
LEMMA FullCutStep ==
  ASSUME NEW s \in Seq(Char), NEW p \in Seq(Char),
         NEW g \in Cuts(s, p), FullCut(g, s, p),
         NEW n \in 0 .. Len(p) - 1
  PROVE  /\ g[n] \in 0 .. Len(s) /\ g[n + 1] \in 0 .. Len(s)
         /\ p[n + 1] = Star => g[n] <= g[n + 1]
         /\ p[n + 1] # Star => /\ g[n + 1] = g[n] + 1
                               /\ p[n + 1] = One \/ p[n + 1] = s[g[n] + 1]
<1>1. /\ n \in 0 .. Len(p) /\ n + 1 \in 1 .. Len(p) /\ n + 1 \in 0 .. Len(p)
      /\ (n + 1) - 1 = n
  OBVIOUS
<1>2. FitsAt(g, s, p, n + 1)
  BY <1>1 DEF FullCut, Fits
<1>3. g[n] \in 0 .. Len(s) /\ g[n + 1] \in 0 .. Len(s)
  BY <1>1 DEF Cuts
<1> QED BY <1>1, <1>2, <1>3 DEF FitsAt

LEMMA InitIInv == Init => IInv
<1> SUFFICES ASSUME Init PROVE IInv
  OBVIOUS
<1>1. /\ str \in Seq(Char) /\ pat \in Seq(Char)
      /\ Len(str) \in Nat /\ Len(pat) \in Nat
  BY MatchAssumption DEF Init
<1>2. TypeOK
  <2>1. result \in BOOLEAN
    BY Zenon DEF Init
  <2>2. /\ i \in 0 .. Len(str) /\ j \in 0 .. Len(pat)
        /\ star_pat \in -1 .. Len(pat) - 1 /\ star_str \in -1 .. Len(str)
        /\ pc \in {"scan", "trail", "done"}
    BY <1>1 DEF Init, None
  <2> QED BY <1>1, <2>1, <2>2 DEF TypeOK
<1>3. Anchored
  BY DEF Init, Anchored
<1>4. Sound
  <2> DEFINE z == [k \in 0 .. Len(pat) |-> 0]
  <2>1. z \in Cuts(str, pat) /\ z[0] = 0
    BY <1>1 DEF Cuts
  <2>2. Fits(z, str, pat, 0)
    BY <2>1 DEF Fits
  <2> QED BY <2>1, <2>2 DEF Init, Sound
<1>5. Complete
  BY DEF Init, Complete, FullCut, Fits
<1> QED BY <1>2, <1>3, <1>4, <1>5 DEF Init, IInv, Decides

-----------------------------------------------------------------------------
(***************************************************************************)
(* One lemma per action: it keeps IInv.                                    *)
(***************************************************************************)
LEMMA RecordStarIInv == IInv /\ RecordStar => IInv'
<1> SUFFICES ASSUME IInv, RecordStar PROVE IInv'
  OBVIOUS
<1>1. /\ TypeOK /\ Anchored /\ Sound /\ Complete
      /\ pc = "scan" /\ i < Len(str) /\ j < Len(pat) /\ pat[j + 1] = Star
      /\ star_pat' = j /\ star_str' = i /\ j' = j + 1
      /\ str' = str /\ pat' = pat /\ i' = i /\ pc' = pc /\ result' = result
  BY DEF IInv, RecordStar, Scanning, AtStar, args
<1>2. /\ str \in Seq(Char) /\ pat \in Seq(Char)
      /\ Len(str) \in Nat /\ Len(pat) \in Nat
      /\ i \in 0 .. Len(str) /\ j \in 0 .. Len(pat) - 1
  BY <1>1 DEF TypeOK
<1>3. TypeOK'
  <2>1. result' \in BOOLEAN
    BY <1>1, Zenon DEF TypeOK
  <2> QED BY <1>1, <1>2, <2>1 DEF TypeOK
<1>4. Anchored'
  BY <1>1, <1>2 DEF Anchored, None
<1>5. Sound'
  <2>1. PICK c \in Cuts(str, pat) : Fits(c, str, pat, j) /\ c[j] = i
    BY <1>1 DEF Sound
  <2>2. \E d \in Cuts(str, pat) : Fits(d, str, pat, j + 1) /\ d[j + 1] = i
    BY <2>1, <1>1, <1>2, ExtendCut
  <2> QED BY <2>2, <1>1 DEF Sound
<1>6. Complete'
  <2> SUFFICES ASSUME NEW g \in Cuts(str, pat), FullCut(g, str, pat)
               PROVE  g[j + 1] >= i /\ g[j + 1] - g[j + 1] = i - i
    BY <1>1, <1>2 DEF Complete, None
  <2>1. g[j] \in 0 .. Len(str) /\ g[j + 1] \in 0 .. Len(str) /\ g[j] <= g[j + 1]
    BY <1>1, <1>2, FullCutStep
  <2>2. g[j] >= i
    <3>1. CASE star_pat = None
      BY <3>1, <1>1, <1>2 DEF Complete
    <3>2. CASE star_pat # None
      <4>1. g[star_pat + 1] >= star_str /\ g[j] - g[star_pat + 1] = i - star_str
        BY <3>2, <1>1 DEF Complete
      <4>2. star_pat + 1 \in 0 .. Len(pat) /\ star_str \in 0 .. i
        BY <3>2, <1>1, <1>2 DEF Anchored, TypeOK, None
      <4>3. g[star_pat + 1] \in 0 .. Len(str)
        BY <4>2 DEF Cuts
      <4> QED BY <4>1, <4>2, <4>3, <2>1, <1>2
    <3> QED BY <3>1, <3>2
  <2> QED BY <2>1, <2>2, <1>2
<1> QED BY <1>1, <1>3, <1>4, <1>5, <1>6 DEF IInv, Decides

LEMMA MatchOneIInv == IInv /\ MatchOne => IInv'
<1> SUFFICES ASSUME IInv, MatchOne PROVE IInv'
  OBVIOUS
<1>1. /\ TypeOK /\ Anchored /\ Sound /\ Complete
      /\ pc = "scan" /\ i < Len(str) /\ j < Len(pat) /\ pat[j + 1] # Star
      /\ pat[j + 1] = One \/ pat[j + 1] = str[i + 1]
      /\ i' = i + 1 /\ j' = j + 1
      /\ str' = str /\ pat' = pat /\ pc' = pc /\ result' = result
      /\ star_pat' = star_pat /\ star_str' = star_str
  BY DEF IInv, MatchOne, Scanning, AtStar, AtMatch, args
<1>2. /\ str \in Seq(Char) /\ pat \in Seq(Char)
      /\ Len(str) \in Nat /\ Len(pat) \in Nat
      /\ i \in 0 .. Len(str) - 1 /\ j \in 0 .. Len(pat) - 1
      /\ star_pat \in -1 .. Len(pat) - 1 /\ star_str \in -1 .. Len(str)
  BY <1>1 DEF TypeOK
<1>3. TypeOK'
  <2>1. result' \in BOOLEAN
    BY <1>1, Zenon DEF TypeOK
  <2> QED BY <1>1, <1>2, <2>1 DEF TypeOK
<1>4. Anchored'
  BY <1>1, <1>2 DEF Anchored, None
<1>5. Sound'
  <2>1. PICK c \in Cuts(str, pat) : Fits(c, str, pat, j) /\ c[j] = i
    BY <1>1 DEF Sound
  <2>2. \E d \in Cuts(str, pat) : Fits(d, str, pat, j + 1) /\ d[j + 1] = i + 1
    BY <2>1, <1>1, <1>2, ExtendCut
  <2> QED BY <2>2, <1>1 DEF Sound
<1>6. Complete'
  <2> SUFFICES ASSUME NEW g \in Cuts(str, pat), FullCut(g, str, pat)
               PROVE  IF star_pat = None
                      THEN g[j + 1] = i + 1
                      ELSE /\ g[star_pat + 1] >= star_str
                           /\ g[j + 1] - g[star_pat + 1] = (i + 1) - star_str
    BY <1>1, <1>2 DEF Complete
  <2>1. g[j] \in 0 .. Len(str) /\ g[j + 1] = g[j] + 1
    BY <1>1, <1>2, FullCutStep
  <2>2. CASE star_pat = None
    BY <2>1, <2>2, <1>1, <1>2 DEF Complete
  <2>3. CASE star_pat # None
    <3>1. g[star_pat + 1] >= star_str /\ g[j] - g[star_pat + 1] = i - star_str
      BY <2>3, <1>1 DEF Complete
    <3>2. star_pat + 1 \in 0 .. Len(pat)
      BY <2>3, <1>2 DEF None
    <3>3. g[star_pat + 1] \in 0 .. Len(str)
      BY <3>2 DEF Cuts
    <3>4. i \in Int /\ star_str \in Int
      BY <1>2
    <3>5. g[j + 1] - g[star_pat + 1] = (i + 1) - star_str
      BY <2>1, <3>1, <3>3, <3>4
    <3> QED BY <2>3, <3>1, <3>5, Zenon
  <2> QED BY <2>2, <2>3
<1> QED BY <1>1, <1>3, <1>4, <1>5, <1>6 DEF IInv, Decides

(***************************************************************************)
(* At a failed comparison no cut of the whole string can put the text      *)
(* after the last '*' at star_str, and without a '*' there is no cut.      *)
(***************************************************************************)
LEMMA FailedComparison ==
  ASSUME IInv, Scanning, ~AtStar, ~AtMatch,
         NEW g \in Cuts(str, pat), FullCut(g, str, pat)
  PROVE  star_pat # None /\ g[star_pat + 1] >= star_str + 1
<1>1. /\ TypeOK /\ Anchored /\ Complete /\ pc = "scan" /\ i < Len(str)
  BY DEF IInv, Scanning
<1>2. /\ str \in Seq(Char) /\ pat \in Seq(Char)
      /\ Len(str) \in Nat /\ Len(pat) \in Nat
      /\ i \in 0 .. Len(str) - 1 /\ j \in 0 .. Len(pat)
      /\ star_pat \in -1 .. Len(pat) - 1 /\ star_str \in -1 .. Len(str)
  BY <1>1 DEF TypeOK
<1>3. g[j] # i
  <2>1. CASE j = Len(pat)
    BY <2>1, <1>1, <1>2 DEF FullCut
  <2>2. CASE j # Len(pat)
    <3>1. j < Len(pat) /\ j \in 0 .. Len(pat) - 1
      BY <2>2, <1>2
    <3>2. pat[j + 1] # Star /\ pat[j + 1] # One /\ pat[j + 1] # str[i + 1]
      BY <3>1 DEF AtStar, AtMatch
    <3>3. pat[j + 1] = One \/ pat[j + 1] = str[g[j] + 1]
      BY <3>1, <3>2, <1>2, FullCutStep
    <3> QED BY <3>2, <3>3
  <2> QED BY <2>1, <2>2
<1>4. star_pat # None
  BY <1>1, <1>3 DEF Complete
<1>5. g[star_pat + 1] >= star_str /\ g[j] - g[star_pat + 1] = i - star_str
  BY <1>1, <1>4 DEF Complete
<1>6. g[star_pat + 1] \in 0 .. Len(str) /\ g[j] \in 0 .. Len(str)
  BY <1>2, <1>4 DEF Cuts, None
<1> QED BY <1>2, <1>3, <1>4, <1>5, <1>6

LEMMA BacktrackIInv == IInv /\ Backtrack => IInv'
<1> SUFFICES ASSUME IInv, Backtrack PROVE IInv'
  OBVIOUS
<1>1. /\ TypeOK /\ Anchored /\ Sound /\ Complete
      /\ pc = "scan" /\ i < Len(str) /\ star_pat # None
      /\ j' = star_pat + 1 /\ star_str' = star_str + 1 /\ i' = star_str + 1
      /\ str' = str /\ pat' = pat /\ pc' = pc /\ result' = result
      /\ star_pat' = star_pat
  BY DEF IInv, Backtrack, Scanning, args
<1>2. /\ str \in Seq(Char) /\ pat \in Seq(Char)
      /\ Len(str) \in Nat /\ Len(pat) \in Nat
      /\ i \in 0 .. Len(str) - 1 /\ j \in 0 .. Len(pat)
      /\ star_pat \in 0 .. Len(pat) - 1 /\ star_str \in 0 .. i
      /\ pat[star_pat + 1] = Star
  BY <1>1 DEF TypeOK, Anchored, None
<1>3. TypeOK'
  <2>1. result' \in BOOLEAN
    BY <1>1, Zenon DEF TypeOK
  <2> QED BY <1>1, <1>2, <2>1 DEF TypeOK
<1>4. Anchored'
  BY <1>1, <1>2 DEF Anchored, None
<1>5. Sound'
  <2>1. PICK c \in Cuts(str, pat) :
          Fits(c, str, pat, star_pat + 1) /\ c[star_pat + 1] = star_str
    BY <1>1 DEF Sound
  <2>2. /\ star_pat + 1 \in 1 .. star_pat + 1
        /\ \A k \in 1 .. star_pat : k \in 1 .. star_pat + 1
        /\ (star_pat + 1) - 1 = star_pat
    BY <1>2
  <2>3. Fits(c, str, pat, star_pat)
    BY <2>1, <2>2 DEF Fits
  <2>4. c[star_pat] <= star_str
    BY <2>1, <2>2, <1>2 DEF Fits, FitsAt
  <2>5. c[star_pat] \in 0 .. Len(str) /\ star_str + 1 \in 0 .. Len(str)
    <3>1. star_pat \in 0 .. Len(pat) /\ star_str + 1 \in 0 .. Len(str)
      BY <1>2
    <3> QED BY <3>1 DEF Cuts
  <2>6. c[star_pat] <= star_str + 1
    BY <2>4, <2>5, <1>2
  <2>7. \E d \in Cuts(str, pat) :
          Fits(d, str, pat, star_pat + 1) /\ d[star_pat + 1] = star_str + 1
    BY <2>3, <2>5, <2>6, <1>2, ExtendCut
  <2> QED BY <2>7, <1>1 DEF Sound
<1>6. Complete'
  <2> SUFFICES ASSUME NEW g \in Cuts(str, pat), FullCut(g, str, pat)
               PROVE  /\ g[star_pat + 1] >= star_str + 1
                      /\ g[star_pat + 1] - g[star_pat + 1]
                           = (star_str + 1) - (star_str + 1)
    BY <1>1, <1>2 DEF Complete, None
  <2>1. g[star_pat + 1] >= star_str + 1
    BY FailedComparison DEF Backtrack
  <2>2. g[star_pat + 1] \in 0 .. Len(str)
    BY <1>2 DEF Cuts
  <2> QED BY <2>1, <2>2, <1>2
<1> QED BY <1>1, <1>3, <1>4, <1>5, <1>6 DEF IInv, Decides

LEMMA MismatchIInv == IInv /\ Mismatch => IInv'
<1> SUFFICES ASSUME IInv, Mismatch PROVE IInv'
  OBVIOUS
<1>1. /\ TypeOK /\ star_pat = None /\ Scanning /\ ~AtStar /\ ~AtMatch
      /\ result' = FALSE /\ pc' = "done"
      /\ str' = str /\ pat' = pat /\ i' = i /\ j' = j
      /\ star_pat' = star_pat /\ star_str' = star_str
  BY DEF IInv, Mismatch, args
<1>2. ~Matches(str, pat)
  BY <1>1, FailedComparison DEF Matches
<1>3. TypeOK'
  <2>1. result' \in BOOLEAN
    BY <1>1, Zenon
  <2> QED BY <1>1, <2>1 DEF TypeOK
<1>4. Decides'
  <2>1. ~result'
    BY <1>1, Zenon
  <2> QED BY <1>1, <1>2, <2>1, Zenon DEF Decides
<1> QED BY <1>1, <1>3, <1>4 DEF IInv

LEMMA ScanEndIInv == IInv /\ ScanEnd => IInv'
<1> SUFFICES ASSUME IInv, ScanEnd PROVE IInv'
  OBVIOUS
<1>1. /\ TypeOK /\ Anchored /\ Sound /\ Complete
      /\ i >= Len(str) /\ pc' = "trail"
      /\ str' = str /\ pat' = pat /\ i' = i /\ j' = j /\ result' = result
      /\ star_pat' = star_pat /\ star_str' = star_str
  BY DEF IInv, ScanEnd, args
<1>2. /\ Len(str) \in Nat /\ Len(pat) \in Nat
      /\ i \in 0 .. Len(str) /\ j \in 0 .. Len(pat) /\ i = Len(str)
      /\ star_pat \in -1 .. Len(pat) - 1 /\ star_str \in -1 .. Len(str)
  BY <1>1 DEF TypeOK
<1>3. TypeOK'
  BY <1>1 DEF TypeOK
<1>4. ASSUME NEW g \in Cuts(str, pat), FullCut(g, str, pat)
      PROVE  g[j] = i
  <2>1. CASE star_pat = None
    BY <2>1, <1>1, <1>4 DEF Complete
  <2>2. CASE star_pat # None
    <3>1. g[star_pat + 1] >= star_str /\ g[j] - g[star_pat + 1] = i - star_str
      BY <2>2, <1>1, <1>4 DEF Complete
    <3>2. star_pat + 1 \in 0 .. Len(pat)
      BY <2>2, <1>2 DEF None
    <3>3. g[star_pat + 1] \in 0 .. Len(str) /\ g[j] \in 0 .. Len(str)
      BY <3>2, <1>2 DEF Cuts
    <3> QED BY <3>1, <3>3, <1>2
  <2> QED BY <2>1, <2>2
<1>5. AtEnd'
  BY <1>1, <1>2, <1>4 DEF AtEnd, Sound
<1> QED BY <1>1, <1>3, <1>5 DEF IInv, Decides

LEMMA SkipStarIInv == IInv /\ SkipStar => IInv'
<1> SUFFICES ASSUME IInv, SkipStar PROVE IInv'
  OBVIOUS
<1>1. /\ TypeOK /\ AtEnd /\ pc = "trail"
      /\ j < Len(pat) /\ pat[j + 1] = Star /\ j' = j + 1
      /\ str' = str /\ pat' = pat /\ i' = i /\ pc' = pc /\ result' = result
      /\ star_pat' = star_pat /\ star_str' = star_str
  BY DEF IInv, SkipStar, AtStar, args
<1>2. /\ str \in Seq(Char) /\ pat \in Seq(Char)
      /\ Len(str) \in Nat /\ Len(pat) \in Nat
      /\ i \in 0 .. Len(str) /\ j \in 0 .. Len(pat) - 1 /\ i = Len(str)
  BY <1>1 DEF TypeOK, AtEnd
<1>3. TypeOK'
  <2>1. j' \in 0 .. Len(pat)
    BY <1>1, <1>2
  <2> QED BY <1>1, <2>1 DEF TypeOK
<1>4. \E d \in Cuts(str, pat) : Fits(d, str, pat, j + 1) /\ d[j + 1] = i
  <2>1. PICK c \in Cuts(str, pat) : Fits(c, str, pat, j) /\ c[j] = i
    BY <1>1 DEF AtEnd
  <2> QED BY <2>1, <1>1, <1>2, ExtendCut
<1>5. ASSUME NEW g \in Cuts(str, pat), FullCut(g, str, pat)
      PROVE  g[j + 1] = i
  <2>1. /\ g[j] \in 0 .. Len(str) /\ g[j + 1] \in 0 .. Len(str)
        /\ g[j] <= g[j + 1]
    BY <1>1, <1>2, <1>5, FullCutStep
  <2>2. g[j] = i
    BY <1>1, <1>5 DEF AtEnd
  <2> QED BY <2>1, <2>2, <1>2
<1>6. AtEnd'
  BY <1>1, <1>2, <1>4, <1>5 DEF AtEnd
<1> QED BY <1>1, <1>3, <1>6 DEF IInv, Decides

LEMMA ReturnIInv == IInv /\ Return => IInv'
<1> SUFFICES ASSUME IInv, Return PROVE IInv'
  OBVIOUS
<1>1. /\ TypeOK /\ AtEnd /\ ~AtStar /\ pc' = "done"
      /\ result' = (j = Len(pat))
      /\ str' = str /\ pat' = pat /\ i' = i /\ j' = j
      /\ star_pat' = star_pat /\ star_str' = star_str
  BY DEF IInv, Return, args
<1>2. /\ str \in Seq(Char) /\ pat \in Seq(Char)
      /\ Len(str) \in Nat /\ Len(pat) \in Nat
      /\ i = Len(str) /\ j \in 0 .. Len(pat)
  BY <1>1 DEF TypeOK, AtEnd
<1>3. TypeOK'
  <2>1. result' \in BOOLEAN
    BY <1>1, Zenon
  <2> QED BY <1>1, <2>1 DEF TypeOK
<1>4. j = Len(pat) <=> Matches(str, pat)
  <2>1. ASSUME j = Len(pat) PROVE Matches(str, pat)
    BY <1>1, <1>2, <2>1 DEF AtEnd, Matches, FullCut
  <2>2. ASSUME j # Len(pat), NEW g \in Cuts(str, pat), FullCut(g, str, pat)
        PROVE  FALSE
    <3>1. j \in 0 .. Len(pat) - 1 /\ pat[j + 1] # Star
      BY <1>1, <1>2, <2>2 DEF AtStar
    <3>2. g[j + 1] \in 0 .. Len(str) /\ g[j + 1] = g[j] + 1
      BY <3>1, <2>2, <1>2, FullCutStep
    <3>3. g[j] = i
      BY <1>1, <2>2 DEF AtEnd
    <3> QED BY <3>2, <3>3, <1>2
  <2> QED BY <2>1, <2>2 DEF Matches
<1>5. Decides'
  <2>1. result' <=> Matches(str, pat)
    BY <1>1, <1>4, Zenon
  <2> QED BY <1>1, <2>1, Zenon DEF Decides
<1> QED BY <1>1, <1>3, <1>5 DEF IInv

LEMMA StutterIInv == IInv /\ UNCHANGED vars => IInv'
<1> SUFFICES ASSUME IInv, UNCHANGED vars PROVE IInv'
  OBVIOUS
<1>1. /\ str' = str /\ pat' = pat /\ i' = i /\ j' = j /\ pc' = pc
      /\ star_pat' = star_pat /\ star_str' = star_str /\ result' = result
  BY DEF vars
<1> QED BY <1>1 DEF IInv, TypeOK, Anchored, Sound, Complete, AtEnd, Decides

(***************************************************************************)
(* The invariant of the loop and, with it, the type invariant and the      *)
(* correctness of the answer, for every Strings and Patterns.              *)
(***************************************************************************)
THEOREM LoopInvariant == Spec => []IInv
<1>1. IInv /\ [Next]_vars => IInv'
  BY RecordStarIInv, MatchOneIInv, BacktrackIInv, MismatchIInv, ScanEndIInv,
     SkipStarIInv, ReturnIInv, StutterIInv DEF Next
<1> QED BY InitIInv, <1>1, PTL DEF Spec

\* The variables of the loop stay in their ranges: no position runs past the
\* end of the string or of the pattern.
THEOREM TypeCorrect == Spec => []TypeOK
<1>1. IInv => TypeOK
  BY DEF IInv
<1> QED BY LoopInvariant, <1>1, PTL

\* What wildcard_match returns is Matches, for every string and pattern.
THEOREM DecidesMatches == Spec => []Decides
<1>1. IInv => Decides
  BY DEF IInv
<1> QED BY LoopInvariant, <1>1, PTL
=============================================================================
