------------------------------ MODULE Wildcard ------------------------------
(***************************************************************************)
(* The meaning of the patterns of xoauth2_scope and xoauth2_group_user:    *)
(* when a string matches a pattern, said without an algorithm.  The module *)
(* WildcardMatch models the loop that decides it and WildcardMatch_proofs  *)
(* shows that the loop decides exactly this; the other modules use Matches.*)
(***************************************************************************)
EXTENDS Integers, Sequences

CONSTANTS
  Star,   \* the pattern character '*': any run of characters, empty or not
  One     \* the pattern character '?': exactly one character, whatever it is

ASSUME WildcardAssumption == Star # One

(***************************************************************************)
(* A cut c of str along pat: the first k characters of pat account for the *)
(* first c[k] characters of str.                                           *)
(***************************************************************************)
Cuts(str, pat) == [0 .. Len(pat) -> 0 .. Len(str)]

\* The k-th pattern character accounts for what lies between c[k-1] and c[k].
FitsAt(c, str, pat, k) ==
  IF pat[k] = Star
  THEN c[k-1] <= c[k]
  ELSE /\ c[k] = c[k-1] + 1
       /\ pat[k] = One \/ pat[k] = str[c[k]]

\* The first n pattern characters account for the first c[n] characters.
Fits(c, str, pat, n) ==
  /\ c[0] = 0
  /\ \A k \in 1 .. n : FitsAt(c, str, pat, k)

FullCut(c, str, pat) ==
  /\ Fits(c, str, pat, Len(pat))
  /\ c[Len(pat)] = Len(str)

Matches(str, pat) == \E c \in Cuts(str, pat) : FullCut(c, str, pat)
=============================================================================
