-------------------------------- MODULE Text --------------------------------
(***************************************************************************)
(* Texts: what the plug-in reads from its options, from the wire and from  *)
(* tokens.  A text is a sequence of symbols; a symbol is one separator     *)
(* byte or an atom, a run of bytes no operation looks into ("user=", a     *)
(* name, a token).  This module holds what several functions of            *)
(* xoauth2_server.c do with blanks and separators.                         *)
(***************************************************************************)
EXTENDS Integers, SequencesExt

SP  == " "
TAB == "tab"
BAR == "|"      \* SEPARATOR
NUL == "nul"    \* a zero byte inside a length-counted buffer

Blanks == {SP, TAB}     \* DELIMITER

\* A pointer that is NULL where a text could be; no text holds its symbol.
NULL  == <<"(null)">>
Texts == Seq(STRING \ {"(null)"})

\* What a C function that takes no length sees of a buffer.
CString(text) ==
  LET z == SelectInSeq(text, LAMBDA x : x = NUL)
  IN  IF z = 0 THEN text ELSE SubSeq(text, 1, z - 1)

(***************************************************************************)
(* The words of a text, without an algorithm: what stands between two      *)
(* separators, or a separator and an end, with none inside.                *)
(***************************************************************************)
IsWord(text, seps, a, b) ==
  /\ a <= b
  /\ \A k \in a .. b : text[k] \notin seps
  /\ a = 1 \/ text[a - 1] \in seps
  /\ b = Len(text) \/ text[b + 1] \in seps

WordSet(text, seps) ==
  {SubSeq(text, s[1], s[2]) :
     s \in {p \in (1 .. Len(text)) \X (1 .. Len(text)) :
              IsWord(text, seps, p[1], p[2])}}

\* Mutant of NextWord: the cursor stays where it is.
FirstWord(text, n) ==
  {p \in (1 .. Len(text)) \X (1 .. Len(text)) :
     /\ IsWord(text, Blanks, p[1], p[2])
     /\ \A k \in 1 .. p[1] - 1 : text[k] \in Blanks}

(***************************************************************************)
(* The cursor of get_user_claim and get_group_user_name over an option:    *)
(* the ends of the first word at or after position n, as a set of at most  *)
(* one pair.  The cursor goes on behind the word; the blanks there, which  *)
(* the code skips at once, are skipped by the next turn, as the code does  *)
(* with those before the first word.                                       *)
(***************************************************************************)
NextWord(text, n) ==
  {p \in (1 .. Len(text)) \X (1 .. Len(text)) :
     /\ n <= p[1]
     /\ IsWord(text, Blanks, p[1], p[2])
     /\ \A k \in n .. p[1] - 1 : text[k] \in Blanks}

(***************************************************************************)
(* strchr(text, SEPARATOR): the field before the first '|', and what       *)
(* follows it, NULL when there is no '|'.                                  *)
(***************************************************************************)
Bars(text) == {n \in 1 .. Len(text) : text[n] = BAR}

BarAt(text) == IF Bars(text) = {} THEN 0 ELSE Min(Bars(text))

BeforeBar(text) ==
  IF BarAt(text) = 0 THEN text ELSE SubSeq(text, 1, BarAt(text) - 1)

\* Mutant of AfterBar: nothing behind the bar is NULL too.
AfterInnerBar(text) ==
  IF BarAt(text) \in {0, Len(text)}
  THEN NULL
  ELSE SubSeq(text, BarAt(text) + 1, Len(text))

AfterBar(text) ==
  IF BarAt(text) = 0 THEN NULL ELSE SubSeq(text, BarAt(text) + 1, Len(text))

\* get_user_claim: "claim" or "claim|issuer".
UserClaim(word) == [claim |-> BeforeBar(word), iss |-> AfterBar(word)]

\* get_group_user_name: "group|authority|issuer"; what is left out is NULL.
GroupUser(word) ==
  LET rest == AfterBar(word)
  IN  [group     |-> BeforeBar(word),
       authority |-> IF rest = NULL THEN NULL ELSE BeforeBar(rest),
       iss       |-> IF rest = NULL THEN NULL ELSE AfterBar(rest)]
=============================================================================
