--------------------------- MODULE WildcardMatch ----------------------------
(***************************************************************************)
(* The two loops of wildcard_match (xoauth2_server.c): one step is one     *)
(* turn of a loop.  i, j, star_pat and star_str are the C variables, with  *)
(* C's indices from 0, so str[i] of the code is str[i + 1] here.           *)
(***************************************************************************)
EXTENDS Wildcard

CONSTANTS
  Char,      \* the characters of strings and patterns
  Strings,   \* the strings it is called with
  Patterns   \* the patterns it is called with

ASSUME MatchAssumption ==
  /\ Strings \subseteq Seq(Char)
  /\ Patterns \subseteq Seq(Char)

VARIABLES
  str, pat,            \* the arguments
  i, j,                \* positions in str and in pat
  star_pat, star_str,  \* the last '*' seen and where the text after it starts
  pc,                  \* which loop: "scan", then "trail", then "done"
  result               \* what the function returned

args == <<str, pat>>
vars == <<str, pat, i, j, star_pat, star_str, pc, result>>

\* (size_t)-1, the code's mark for "no star yet"
None == -1

Init ==
  /\ str \in Strings
  /\ pat \in Patterns
  /\ i = 0 /\ j = 0
  /\ star_pat = None /\ star_str = None
  /\ pc = "scan"
  /\ result = FALSE

\* Mutant of AtStar: only the first '*' of the pattern is one.
FirstStarOnly == j < Len(pat) /\ pat[j + 1] = Star /\ star_pat = None

AtStar == j < Len(pat) /\ pat[j + 1] = Star

\* Mutant of AtMatch: '?' is not special.
ExactMatch == j < Len(pat) /\ pat[j + 1] = str[i + 1]

AtMatch == j < Len(pat) /\ (pat[j + 1] = One \/ pat[j + 1] = str[i + 1])

Scanning == pc = "scan" /\ i < Len(str)

RecordStar ==
  /\ Scanning /\ AtStar
  /\ star_pat' = j
  /\ star_str' = i
  /\ j' = j + 1
  /\ UNCHANGED <<args, i, pc, result>>

MatchOne ==
  /\ Scanning /\ ~AtStar /\ AtMatch
  /\ i' = i + 1
  /\ j' = j + 1
  /\ UNCHANGED <<args, star_pat, star_str, pc, result>>

\* Mutant of Backtrack: star_str is not incremented.
BacktrackInPlace ==
  /\ Scanning /\ ~AtStar /\ ~AtMatch
  /\ star_pat # None
  /\ j' = star_pat + 1
  /\ i' = star_str
  /\ UNCHANGED <<args, star_pat, star_str, pc, result>>

Backtrack ==
  /\ Scanning /\ ~AtStar /\ ~AtMatch
  /\ star_pat # None
  /\ j' = star_pat + 1
  /\ star_str' = star_str + 1
  /\ i' = star_str + 1
  /\ UNCHANGED <<args, star_pat, pc, result>>

Mismatch ==
  /\ Scanning /\ ~AtStar /\ ~AtMatch
  /\ star_pat = None
  /\ result' = FALSE
  /\ pc' = "done"
  /\ UNCHANGED <<args, i, j, star_pat, star_str>>

ScanEnd ==
  /\ pc = "scan" /\ i >= Len(str)
  /\ pc' = "trail"
  /\ UNCHANGED <<args, i, j, star_pat, star_str, result>>

SkipStar ==
  /\ pc = "trail" /\ AtStar
  /\ j' = j + 1
  /\ UNCHANGED <<args, i, star_pat, star_str, pc, result>>

Return ==
  /\ pc = "trail" /\ ~AtStar
  /\ result' = (j = Len(pat))
  /\ pc' = "done"
  /\ UNCHANGED <<args, i, j, star_pat, star_str>>

Next ==
  \/ RecordStar \/ MatchOne \/ Backtrack \/ Mismatch \/ ScanEnd
  \/ SkipStar \/ Return

Spec == Init /\ [][Next]_vars

\* A loop that has a next turn takes it.
FairSpec == Spec /\ WF_vars(Next)
-----------------------------------------------------------------------------
TypeOK ==
  /\ str \in Seq(Char) /\ pat \in Seq(Char)
  /\ i \in 0 .. Len(str)
  /\ j \in 0 .. Len(pat)
  /\ star_pat \in -1 .. Len(pat) - 1
  /\ star_str \in -1 .. Len(str)
  /\ pc \in {"scan", "trail", "done"}
  /\ result \in BOOLEAN

(***************************************************************************)
(* The loop decides the meaning: it answers yes exactly when the string    *)
(* can be cut along the pattern, although it only ever reconsiders the     *)
(* last '*' it saw.                                                        *)
(***************************************************************************)
Decides == pc = "done" => (result <=> Matches(str, pat))

(***************************************************************************)
(* The scan gives an answer for every string and pattern, although each    *)
(* turn at a failed '*' moves both positions back.                         *)
(***************************************************************************)
Answers == <>(pc = "done")
-----------------------------------------------------------------------------
\* What makes Decides inductive, in three parts.

\* Where the positions stand with respect to the last '*'.
Anchored ==
  IF star_pat = None
  THEN star_str = None /\ i = j
  ELSE /\ pat[star_pat + 1] = Star
       /\ star_pat + 1 <= j
       /\ star_str \in 0 .. i
       /\ i - star_str = j - (star_pat + 1)

\* What was consumed of the pattern accounts for what was consumed of the
\* string, and so it did when the text after the last '*' started.
Sound ==
  /\ \E c \in Cuts(str, pat) : Fits(c, str, pat, j) /\ c[j] = i
  /\ star_pat # None =>
       \E c \in Cuts(str, pat) :
         Fits(c, str, pat, star_pat + 1) /\ c[star_pat + 1] = star_str

\* Every way to cut the whole string agrees with the positions up to the
\* last '*', and puts the text after it no earlier than star_str.
Complete ==
  \A g \in Cuts(str, pat) :
    FullCut(g, str, pat) =>
      IF star_pat = None
      THEN g[j] = i
      ELSE /\ g[star_pat + 1] >= star_str
           /\ g[j] - g[star_pat + 1] = i - star_str

\* Once the string is used up only the rest of the pattern is in question.
AtEnd ==
  /\ i = Len(str)
  /\ \E c \in Cuts(str, pat) : Fits(c, str, pat, j) /\ c[j] = i
  /\ \A g \in Cuts(str, pat) : FullCut(g, str, pat) => g[j] = i

IInv ==
  /\ TypeOK
  /\ pc = "scan" => Anchored /\ Sound /\ Complete
  /\ pc = "trail" => AtEnd
  /\ Decides
=============================================================================
