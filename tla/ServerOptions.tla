--------------------------- MODULE ServerOptions ----------------------------
(***************************************************************************)
(* plug_init of the server side and its get_options: what the settings of  *)
(* the process become, and what strtok does on the way to the text that    *)
(* the option table (of libsasl2, or of the application's own getopt)      *)
(* handed out.  One turn of the strtok loop is one step.                   *)
(***************************************************************************)
EXTENDS Text

CONSTANTS
  MaxIssuers,   \* MAX_ISSUERS, the size of the array
  Lists,        \* texts xoauth2_issuers may have; NULL: not set
  Scopes,       \* texts xoauth2_scope may have; so do the other options
  StrdupFails,  \* whether strdup may find no memory
  MaxInits      \* bound: how often the process calls plug_init

\* The option table hands out C strings.
ASSUME OptionsAssumption ==
  /\ MaxIssuers \in Nat \ {0}
  /\ Lists \subseteq Texts \cup {NULL}
  /\ \A t \in Lists : \A k \in 1 .. Len(t) : t[k] # NUL
  /\ Scopes \subseteq Texts \cup {NULL}
  /\ StrdupFails \in BOOLEAN
  /\ MaxInits \in Nat

\* As every literal is; the provers have to be told.
ASSUME NulIsString == NUL \in STRING

VARIABLES
  written,   \* xoauth2_issuers as the configuration has it
  table,     \* the table's text of it
  scope,     \* the table's text of xoauth2_scope
  settings,  \* settings->scope
  issuers,   \* settings->issuers up to the last one set; NULL: strdup failed
  rest,      \* where strtok goes on
  pc,        \* "idle", "strtok"
  ret,       \* what plug_init returned last
  inits

config == <<written, scope>>
vars == <<config, table, settings, issuers, rest, pc, ret, inits>>

Init ==
  /\ written \in Lists /\ table = written
  /\ scope \in Scopes
  /\ settings = NULL
  /\ issuers = <<>>
  /\ rest = 1
  /\ pc = "idle"
  /\ ret = "none"
  /\ inits = 0

PlugInit == pc = "idle" /\ inits < MaxInits /\ inits' = inits + 1

\* An older library: nothing is read.
BadVersion ==
  /\ PlugInit
  /\ ret' = "SASL_BADVERS"
  /\ UNCHANGED <<config, table, settings, issuers, rest, pc>>

\* An option that is not set counts as empty.
Option(text) == IF text = NULL THEN <<>> ELSE text

GetOptions ==
  /\ PlugInit
  /\ settings' = Option(scope)
  /\ issuers' = <<>>
  /\ rest' = 1
  /\ IF table = NULL
     THEN ret' = "SASL_OK" /\ UNCHANGED pc
     ELSE pc' = "strtok" /\ UNCHANGED ret
  /\ UNCHANGED <<config, table>>

\* Mutant of Seen: the zero bytes are not taken for ends.
SeenWhole == SubSeq(table, rest, Len(table))

\* What strtok sees: up to the next zero byte, if there is one.
Seen == CString(SubSeq(table, rest, Len(table)))

\* Mutant of Full: no place is left for the NULL.
FullAtSize == Len(issuers) >= MaxIssuers

Full == Len(issuers) >= MaxIssuers - 1

\* Mutant of After: strtok would go on at the word it has just returned.
Within(w) == rest + w[1] - 1

\* Where the word that ends at w[2] of what strtok sees is behind us.
After(w) == rest + w[2]

(***************************************************************************)
(* strtok returns the next word and writes a zero byte over the blank that *)
(* ends it, if one does.                                                   *)
(***************************************************************************)
NextIssuer ==
  /\ pc = "strtok"
  /\ \E w \in NextWord(Seen, 1) :
       /\ IF w[2] < Len(Seen)
          THEN table' = [table EXCEPT ![After(w)] = NUL] /\ rest' = After(w) + 1
          ELSE UNCHANGED table /\ rest' = After(w)
       /\ IF Full
          THEN UNCHANGED issuers
          ELSE \E copy \in {SubSeq(Seen, w[1], w[2])}
                          \cup (IF StrdupFails THEN {NULL} ELSE {}) :
                 issuers' = Append(issuers, copy)
  /\ UNCHANGED <<config, settings, pc, ret, inits>>

IssuersDone ==
  /\ pc = "strtok" /\ NextWord(Seen, 1) = {}
  /\ pc' = "idle"
  /\ ret' = "SASL_OK"
  /\ UNCHANGED <<config, table, settings, issuers, rest, inits>>

GetIssuers == NextIssuer \/ IssuersDone

Next == BadVersion \/ GetOptions \/ GetIssuers

Spec == Init /\ [][Next]_vars

\* plug_init goes on once it is called.
FairSpec == Spec /\ WF_vars(GetIssuers)
-----------------------------------------------------------------------------
TypeOK ==
  /\ written \in Lists /\ table \in Texts \cup {NULL}
  /\ scope \in Scopes
  /\ settings \in Texts \cup {NULL}
  /\ issuers \in Seq(Texts \cup {NULL})
  /\ rest \in 1 .. Len(table) + 1
  /\ pc \in {"idle", "strtok"}
  /\ ret \in {"none", "SASL_OK", "SASL_BADVERS"}
  /\ inits \in 0 .. MaxInits

Spans(text) ==
  {p \in (1 .. Len(text)) \X (1 .. Len(text)) : IsWord(text, Blanks, p[1], p[2])}

\* The words that begin before position n.
Begun(text, n) == {p \in Spans(text) : p[1] < n}

\* The n-th word of a text is the one with n - 1 words before it.
IsNthWord(word, text, n) ==
  \E p \in Spans(text) :
    /\ word = SubSeq(text, p[1], p[2])
    /\ Cardinality(Begun(text, p[1])) = n - 1

(***************************************************************************)
(* What the first plug_init of a process reads is the words of the option, *)
(* in their order and as many as there is room for with a NULL behind      *)
(* them, although strtok cuts up the very text it is reading: the server   *)
(* would let the tokens of a dropped issuer down.  An entry may be NULL    *)
(* where there was no memory for it.                                       *)
(***************************************************************************)
ReadsIssuers ==
  inits = 1 /\ pc = "idle" /\ ret = "SASL_OK" =>
    /\ Len(issuers) = Min({Cardinality(Spans(Option(written))), MaxIssuers - 1})
    /\ \A n \in 1 .. Len(issuers) :
         \/ IsNthWord(issuers[n], Option(written), n)
         \/ StrdupFails /\ issuers[n] = NULL

(***************************************************************************)
(* Reading the options again, in a process that initialises the library    *)
(* again, does not find issuers that were not there before, nor cuts one   *)
(* in two: the entries still come first among the words of the option.     *)
(***************************************************************************)
FindsNoOthers ==
  \A n \in 1 .. Len(issuers) :
    issuers[n] = NULL \/ IsNthWord(issuers[n], Option(written), n)

(***************************************************************************)
(* plug_init returns.                                                      *)
(***************************************************************************)
InitReturns == pc = "strtok" ~> pc = "idle"
-----------------------------------------------------------------------------
\* What makes ReadsIssuers and FindsNoOthers inductive.

\* strtok is done with the words begun before n, and has cut behind each.
CutBefore(n) ==
  \A p \in Begun(Option(written), n) :
    p[2] < n /\ (p[2] < Len(table) => table[p[2] + 1] = NUL)

AllCut == CutBefore(Len(table) + 1)

\* The first time strtok goes over the text: what is ahead is as it was, and
\* what is behind has been taken as far as there was room.
Reading ==
  /\ rest = 1 \/ rest > Len(table) \/ written[rest - 1] \in Blanks
  /\ \A k \in rest .. Len(table) : table[k] = written[k]
  /\ CutBefore(rest)
  /\ Len(issuers) = Min({Cardinality(Begun(Option(written), rest)), MaxIssuers - 1})

\* Any later time: it comes no further than the cut behind the first word.
Rereading ==
  /\ AllCut
  /\ \/ rest = 1 /\ issuers = <<>>
     \/ Seen = <<>> /\ Len(issuers) <= 1

\* Zero bytes stand where the option has blanks, and nowhere else.
TableInv ==
  /\ table = NULL <=> written = NULL
  /\ Len(table) = Len(written)
  /\ \A k \in 1 .. Len(table) :
       table[k] = written[k] \/ (table[k] = NUL /\ written[k] \in Blanks)

EntriesInOrder ==
  \A n \in 1 .. Len(issuers) :
    \/ IsNthWord(issuers[n], Option(written), n)
    \/ StrdupFails /\ issuers[n] = NULL

StrtokInv ==
  /\ TableInv
  /\ EntriesInOrder
  /\ inits = 0 => pc = "idle" /\ table = written /\ ret = "none"
  /\ pc = "strtok" => table # NULL /\ (Reading \/ (inits > 1 /\ Rereading))
  /\ pc = "idle" => table = written \/ AllCut
  /\ inits = 1 /\ pc = "idle" /\ ret = "SASL_OK" =>
       Len(issuers) = Min({Cardinality(Spans(Option(written))), MaxIssuers - 1})
=============================================================================
