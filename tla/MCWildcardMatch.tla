-------------------------- MODULE MCWildcardMatch ---------------------------
(***************************************************************************)
(* wildcard_match on every string of up to MaxStr characters and every     *)
(* pattern of up to MaxPat.                                                *)
(***************************************************************************)
EXTENDS WildcardMatch

CONSTANTS MaxStr, MaxPat

Letters == Char \ {Star, One}

MCStrings == UNION {[1 .. n -> Letters] : n \in 0 .. MaxStr}
MCPatterns == UNION {[1 .. n -> Char] : n \in 0 .. MaxPat}
=============================================================================
