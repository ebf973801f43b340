----------------------------- MODULE ClientMech -----------------------------
(***************************************************************************)
(* One connection of the client-side plug-in (xoauth2_client.c): what      *)
(* mech_new, mech_step and mech_dispose do, and inside step 1 the prompts, *)
(* the callbacks, the claim of the token, canon_user and the response, in  *)
(* their order and each with its failure.  After SASL_INTERACT the         *)
(* application answers the prompts and calls mech_step again.              *)
(***************************************************************************)
EXTENDS InitialResponse

CONSTANTS
  Callbacks,  \* what the callbacks of an application may say
  Answers,    \* what its user may answer to prompts
  Claims,     \* what the claim of the options is in each token
  Configs,    \* what load_config may return
  FaultSets,  \* which calls may fail for reasons of their own
  MaxCalls    \* bound: how often the application calls mech_step

Ids == {"authname", "pass"}

\* A callback's result is its return code and, if that is SASL_OK, a text.
Codes == {"SASL_OK", "SASL_FAIL", "SASL_INTERACT", "SASL_BADPARAM"}

TextOrNull == Texts \cup {NULL}

CallbackOK(c) ==
  /\ DOMAIN c = Ids
  /\ \A p \in Ids : /\ DOMAIN c[p] = {"code", "text"}
                    /\ c[p].code \in Codes /\ c[p].text \in TextOrNull

AnswerOK(a) == DOMAIN a = Ids /\ \A p \in Ids : a[p] \in TextOrNull

\* A claim that holds no string ends the process.
Found == {"found", "absent", "no_string"}

ASSUME ClientAssumption ==
  /\ \A c \in Callbacks : CallbackOK(c)
  /\ \A a \in Answers : AnswerOK(a)
  /\ \A t \in DOMAIN Claims : t \in Texts /\
       Claims[t].how \in Found /\ Claims[t].text \in Texts
  /\ Configs \subseteq {"SASL_OK", "SASL_CONTINUE", "SASL_FAIL", "SASL_NOMEM"}
  /\ FaultSets \subseteq SUBSET {"malloc", "canon_user"}
  /\ MaxCalls \in Nat

VARIABLES
  cb, answers,   \* the application: its callbacks and its user
  place,         \* whether it passes a place for prompts
  faults,        \* the calls that may fail in this life
  state,         \* context->state, or NoContext
  outbuf,        \* what was written to context->outbuf
  prompts,       \* what *prompt_need asks for
  pc,            \* "idle", or what step 1 does next
  authid, token, \* in resp; NULL: not set
  wanted,        \* authid_wanted and password_wanted
  get_from_jwt,
  canon,         \* the user in oparams
  ret,           \* what the last call of mech_step returned
  clientout,     \* what it handed out to be sent
  heap,          \* the blocks allocated and not yet freed
  lost,          \* those no pointer leads to any more
  misfreed,      \* blocks that were freed when they were not allocated
  calls

app == <<cb, answers, place, faults>>
conn == <<state, outbuf>>
resp == <<authid, token>>
local == <<resp, wanted, get_from_jwt>>
memory == <<heap, lost, misfreed>>
vars == <<app, conn, prompts, pc, local, canon, ret, clientout, memory, calls>>

NoContext == -1

MayFail(call) == call \in faults

Init ==
  /\ cb \in Callbacks /\ answers \in Answers /\ place \in BOOLEAN
  /\ faults \in FaultSets
  /\ state = NoContext /\ outbuf = <<>>
  /\ prompts = {}
  /\ pc = "idle"
  /\ authid = NULL /\ token = NULL /\ wanted = {} /\ get_from_jwt = FALSE
  /\ canon = NULL
  /\ ret = "none" /\ clientout = NULL
  /\ heap = {} /\ lost = {} /\ misfreed = {}
  /\ calls = 0

\* The block of *prompt_need, if there is one.
PromptBlock == IF prompts = {} THEN {} ELSE {"prompts"}

Free(blocks) ==
  /\ heap' = heap \ blocks
  /\ misfreed' = misfreed \cup (blocks \ heap)
  /\ UNCHANGED lost

\* Mutant of Out: the prompts are freed only when the step succeeds.
OutKeepsPrompts(r) ==
  /\ Free((heap \cap {"username"}) \cup
          (IF r = "SASL_CONTINUE" THEN PromptBlock ELSE {}))
  /\ prompts' = {}
  /\ ret' = r
  /\ pc' = "idle"

\* Mutant of Out: the application's pointer to the prompts is not cleared.
OutLeavesPointer(r) ==
  /\ Free((heap \cap {"username"}) \cup PromptBlock)
  /\ UNCHANGED prompts
  /\ ret' = r
  /\ pc' = "idle"

\* The label "out", for a step that asks for nothing.
Out(r) ==
  /\ Free((heap \cap {"username"}) \cup PromptBlock)
  /\ prompts' = {}
  /\ ret' = r
  /\ pc' = "idle"
-----------------------------------------------------------------------------
\* The application's calls.

\* Mutant of MechNew: the state is not initialised.
MechNewUninit ==
  /\ state = NoContext /\ pc = "idle"
  /\ state' = 7 /\ outbuf' = <<>>
  /\ heap' = heap \cup {"context"}
  /\ ret' = "none" /\ clientout' = NULL
  /\ UNCHANGED <<app, prompts, pc, local, canon, lost, misfreed, calls>>

MechNew ==
  /\ state = NoContext /\ pc = "idle"
  /\ state' = 0 /\ outbuf' = <<>>
  /\ heap' = heap \cup {"context"}
  /\ ret' = "none" /\ clientout' = NULL
  /\ UNCHANGED <<app, prompts, pc, local, canon, lost, misfreed, calls>>

MechNewFails ==
  /\ state = NoContext /\ pc = "idle" /\ MayFail("malloc")
  /\ ret' = "SASL_NOMEM" /\ clientout' = NULL
  /\ UNCHANGED <<app, conn, prompts, pc, local, canon, memory, calls>>

Called ==
  /\ pc = "idle" /\ calls < MaxCalls
  /\ calls' = calls + 1

CallStep1 ==
  /\ state = 0 /\ Called
  /\ authid' = NULL /\ token' = NULL
  /\ wanted' = {} /\ get_from_jwt' = FALSE
  /\ clientout' = NULL
  /\ pc' = "authname"
  /\ UNCHANGED <<app, conn, prompts, canon, ret, memory>>

\* Whatever the server's challenge says.
Step2 ==
  /\ state = 1 /\ Called
  /\ state' = 2
  /\ ret' = "SASL_OK" /\ clientout' = <<>>
  /\ UNCHANGED <<app, outbuf, prompts, pc, local, canon, memory>>

StepAfter ==
  /\ state = 2 /\ Called
  /\ ret' = "SASL_BADPROT"
  /\ UNCHANGED <<app, conn, prompts, pc, local, canon, clientout, memory>>

\* Prompts that are left are the application's affair, and out of account.
Dispose ==
  /\ state # NoContext /\ pc = "idle"
  /\ Free({"context"} \cup (IF outbuf = <<>> THEN {} ELSE {"outbuf"})
                      \cup PromptBlock)
  /\ state' = NoContext /\ outbuf' = <<>>
  /\ prompts' = {}
  /\ ret' = "none" /\ clientout' = NULL
  /\ UNCHANGED <<app, pc, local, canon, calls>>
-----------------------------------------------------------------------------
\* Step 1: who, and with which token.

\* Mutant of Prompted: the answer to the second prompt is not looked for.
PromptedName(p) == p \in prompts /\ p = "authname"

Prompted(p) == p \in prompts

\* Mutant of AfterPass: the claim is taken although there is a name.
AlwaysClaim(asked) ==
  IF asked # {} THEN "prompt" ELSE "load"

\* What follows when nothing is left to look for but what was asked.
AfterPass(asked) ==
  IF asked # {} THEN "prompt"
  ELSE IF get_from_jwt THEN "load"
  ELSE "canon"

NameFromPrompt ==
  /\ pc = "authname" /\ Prompted("authname")
  /\ authid' = answers.authname
  /\ pc' = "pass"
  /\ UNCHANGED <<app, conn, prompts, token, wanted, get_from_jwt, canon, ret,
                 clientout, memory, calls>>

NameFromCallback ==
  /\ pc = "authname" /\ ~Prompted("authname")
  /\ \/ /\ cb.authname.code = "SASL_OK"
        /\ authid' = cb.authname.text /\ UNCHANGED <<wanted, get_from_jwt>>
     \/ /\ cb.authname.code = "SASL_FAIL"
        /\ get_from_jwt' = TRUE /\ UNCHANGED <<authid, wanted>>
     \/ /\ cb.authname.code = "SASL_INTERACT"
        /\ wanted' = {"authname"} /\ UNCHANGED <<authid, get_from_jwt>>
  /\ pc' = "pass"
  /\ UNCHANGED <<app, conn, prompts, token, canon, ret, clientout, memory,
                 calls>>

NameFails ==
  /\ pc = "authname" /\ ~Prompted("authname")
  /\ cb.authname.code = "SASL_BADPARAM"
  /\ Out(cb.authname.code)
  /\ UNCHANGED <<app, conn, local, canon, clientout, calls>>

PassFromPrompt ==
  /\ pc = "pass" /\ Prompted("pass")
  /\ token' = answers.pass
  /\ pc' = AfterPass(wanted)
  /\ UNCHANGED <<app, conn, prompts, authid, wanted, get_from_jwt, canon, ret,
                 clientout, memory, calls>>

PassFromCallback ==
  /\ pc = "pass" /\ ~Prompted("pass") /\ cb.pass.code = "SASL_OK"
  /\ token' = cb.pass.text
  /\ pc' = AfterPass(wanted)
  /\ UNCHANGED <<app, conn, prompts, authid, wanted, get_from_jwt, canon, ret,
                 clientout, memory, calls>>

PassWanted ==
  /\ pc = "pass" /\ ~Prompted("pass") /\ cb.pass.code = "SASL_INTERACT"
  /\ wanted' = wanted \cup {"pass"}
  /\ pc' = "prompt"
  /\ UNCHANGED <<app, conn, prompts, resp, get_from_jwt, canon, ret, clientout,
                 memory, calls>>

PassFails ==
  /\ pc = "pass" /\ ~Prompted("pass")
  /\ cb.pass.code \in {"SASL_FAIL", "SASL_BADPARAM"}
  /\ Out(cb.pass.code)
  /\ UNCHANGED <<app, conn, local, canon, clientout, calls>>

(***************************************************************************)
(* New prompts take the place of the old ones, which are freed.  Without a *)
(* place for them nobody ever learns of the new block.                     *)
(***************************************************************************)
Prompt ==
  /\ pc = "prompt"
  /\ heap' = heap \cup {"prompts"}
  /\ lost' = IF place THEN lost ELSE lost \cup {"prompts"}
  /\ prompts' = IF place THEN wanted ELSE {}
  /\ ret' = "SASL_INTERACT"
  /\ pc' = "idle"
  /\ UNCHANGED <<app, conn, local, canon, clientout, misfreed, calls>>

PromptFails ==
  /\ pc = "prompt" /\ MayFail("malloc")
  /\ Out("SASL_NOMEM")
  /\ UNCHANGED <<app, conn, local, canon, clientout, calls>>
-----------------------------------------------------------------------------
\* Step 1: the user's name out of the token.

\* Without a configuration the name stays unknown.
Load ==
  /\ pc = "load"
  /\ \E r \in Configs : pc' = IF r = "SASL_OK" THEN "claim" ELSE "canon"
  /\ UNCHANGED <<app, conn, prompts, local, canon, ret, clientout, memory,
                 calls>>

ClaimOf(t) == IF t \in DOMAIN Claims THEN Claims[t]
              ELSE [how |-> "absent", text |-> <<>>]

Claim == ClaimOf(token)

\* An empty claim allocates the name, but does not count.
GetClaim ==
  /\ pc = "claim" /\ Claim.how # "no_string"
  /\ heap' = IF Claim.how = "found" THEN heap \cup {"username"} ELSE heap
  /\ authid' = IF Claim.how = "found" /\ Claim.text # <<>> THEN Claim.text
               ELSE authid
  /\ pc' = "canon"
  /\ UNCHANGED <<app, conn, prompts, token, wanted, get_from_jwt, canon, ret,
                 clientout, lost, misfreed, calls>>

\* The claim is no string, or there was no memory to decode or to copy it.
GetClaimAborts ==
  /\ pc = "claim" /\ (Claim.how = "no_string" \/ MayFail("malloc"))
  /\ pc' = "aborted"
  /\ UNCHANGED <<app, conn, prompts, local, canon, ret, clientout, memory,
                 calls>>
-----------------------------------------------------------------------------
\* Step 1: the response.

NoName ==
  /\ pc = "canon" /\ authid = NULL
  /\ Out("SASL_FAIL")
  /\ UNCHANGED <<app, conn, local, canon, clientout, calls>>

CanonUser ==
  /\ pc = "canon" /\ authid # NULL
  /\ canon' = authid
  /\ pc' = "build"
  /\ UNCHANGED <<app, conn, prompts, local, ret, clientout, memory, calls>>

CanonUserFails ==
  /\ pc = "canon" /\ authid # NULL /\ MayFail("canon_user")
  /\ Out("SASL_BADPARAM")
  /\ UNCHANGED <<app, conn, local, canon, clientout, calls>>

\* No bytes are appended for a NULL.
Response ==
  Build(authid, <<BEARER>>, IF token = NULL THEN <<>> ELSE token)

Respond ==
  /\ pc = "build"
  /\ outbuf' = outbuf \o Response
  /\ clientout' = outbuf'
  /\ state' = 1
  /\ ret' = "SASL_CONTINUE"
  /\ heap' = ((heap \ {"username"}) \ PromptBlock) \cup {"outbuf"}
  /\ misfreed' = misfreed \cup (PromptBlock \ heap)
  /\ prompts' = {}
  /\ pc' = "idle"
  /\ UNCHANGED <<app, local, canon, lost, calls>>

\* One of the eight appends finds no memory; what is written stays.
RespondFails ==
  /\ pc = "build" /\ MayFail("malloc")
  /\ \E n \in 0 .. Len(Response) - 1 :
       outbuf' = outbuf \o SubSeq(Response, 1, n)
  /\ heap' = ((heap \ {"username"}) \ PromptBlock)
               \cup (IF outbuf' = <<>> THEN {} ELSE {"outbuf"})
  /\ misfreed' = misfreed \cup (PromptBlock \ heap)
  /\ prompts' = {}
  /\ ret' = "SASL_NOMEM"
  /\ pc' = "idle"
  /\ UNCHANGED <<app, state, local, canon, clientout, lost, calls>>
-----------------------------------------------------------------------------
Application ==
  \/ MechNew \/ MechNewFails \/ Dispose
  \/ CallStep1 \/ Step2 \/ StepAfter

Step1 ==
  \/ NameFromPrompt \/ NameFromCallback \/ NameFails
  \/ PassFromPrompt \/ PassFromCallback \/ PassWanted \/ PassFails
  \/ Prompt \/ PromptFails
  \/ Load \/ GetClaim \/ GetClaimAborts
  \/ NoName \/ CanonUser \/ CanonUserFails
  \/ Respond \/ RespondFails

Next == Application \/ Step1

Spec == Init /\ [][Next]_vars
-----------------------------------------------------------------------------
InStep == {"authname", "pass", "prompt", "load", "claim", "canon", "build"}

Blocks == {"context", "outbuf", "prompts", "username"}

TypeOK ==
  /\ cb \in Callbacks /\ answers \in Answers /\ place \in BOOLEAN
  /\ faults \in FaultSets
  /\ state \in {NoContext, 0, 1, 2}
  /\ outbuf \in Seq(Symbols)
  /\ prompts \subseteq Ids /\ wanted \subseteq Ids
  /\ pc \in {"idle", "aborted"} \cup InStep
  /\ authid \in TextOrNull /\ token \in TextOrNull
  /\ get_from_jwt \in BOOLEAN
  /\ ret \in Codes \cup {"none", "SASL_CONTINUE", "SASL_NOMEM", "SASL_BADPROT"}
  /\ heap \subseteq Blocks /\ lost \subseteq Blocks /\ misfreed \subseteq Blocks
  /\ calls \in 0 .. MaxCalls

(***************************************************************************)
(* Who the application means, and with which token, said without the order *)
(* of calls: a callback's word stands, what the callback leaves to the     *)
(* user is the user's, and only a name that there is no callback for comes *)
(* from the token.                                                         *)
(***************************************************************************)
Meant(p) ==
  IF cb[p].code = "SASL_OK" THEN cb[p].text
  ELSE IF cb[p].code = "SASL_INTERACT" THEN answers[p]
  ELSE NULL

MeantToken == IF Meant("pass") = NULL THEN <<>> ELSE Meant("pass")

MeantName ==
  IF cb.authname.code = "SASL_FAIL" THEN ClaimOf(MeantToken).text
  ELSE Meant("authname")

(***************************************************************************)
(* The response is one message for the user and with the token that the    *)
(* application means, and that user is the one in oparams, however many    *)
(* calls, prompts and failures came before it.  Where memory may be short  *)
(* a part of an earlier message may stand before this one.                 *)
(***************************************************************************)
SendsWhatIsMeant ==
  pc = "idle" /\ ret = "SASL_CONTINUE" /\ ~MayFail("malloc") =>
    /\ canon = MeantName
    /\ clientout = Build(MeantName, <<BEARER>>, MeantToken)

(***************************************************************************)
(* What was asked and answered is not asked again: a call with answers to  *)
(* prompts never ends in prompts.                                          *)
(***************************************************************************)
AsksOnce ==
  [][place /\ ret = "SASL_INTERACT" /\ pc # "idle" /\ pc' = "idle" =>
       ret' # "SASL_INTERACT"]_vars

(***************************************************************************)
(* Between two calls what is allocated is what the context or the          *)
(* application points to, nothing was freed twice, and only prompts that   *)
(* the application gave no place for are lost.                             *)
(***************************************************************************)
Owned ==
  (IF state = NoContext THEN {} ELSE {"context"})
    \cup (IF outbuf = <<>> THEN {} ELSE {"outbuf"})
    \cup PromptBlock

PromptsFreed ==
  /\ misfreed = {}
  /\ pc = "idle" => heap \ lost = Owned
  /\ place => lost = {}

(***************************************************************************)
(* Prompts are handed out just when the application is told to answer some *)
(* and stay until the next call ends, which needs their answers.           *)
(***************************************************************************)
InteractMeansPrompts ==
  pc = "idle" /\ place /\ state # NoContext =>
    (ret = "SASL_INTERACT" <=> prompts # {})
(***************************************************************************)
(* A connection keeps what ClientRole promises to the server's side: in    *)
(* whatever order prompts, callbacks and failures come, one response for   *)
(* what the application means goes out, and only a challenge is answered.  *)
(***************************************************************************)
phase ==
  IF pc = "aborted" THEN "dead"
  ELSE IF state = NoContext THEN "none"
  ELSE IF pc # "idle" THEN "busy"
  ELSE IF state = 0 THEN "ready"
  ELSE IF state = 1 THEN "sent" ELSE "done"

meant == [user |-> MeantName, token |-> MeantToken]

Role == INSTANCE ClientRole WITH
  Garbled <- Seq(Symbols), short <- MayFail("malloc"),
  response <- clientout, user <- canon, answer <- ret

KeepsRole == Role!Spec
-----------------------------------------------------------------------------
\* What the proofs of these properties go by (ClientMech_proofs).

(***************************************************************************)
(* The account of memory inside a step too: the name out of the token is   *)
(* allocated from the claim on, until the step's end.                      *)
(***************************************************************************)
MemInv ==
  /\ misfreed = {}
  /\ lost \subseteq (IF place THEN {} ELSE {"prompts"})
  /\ heap \ {"username"} = Owned \cup lost
  /\ "username" \in heap => pc \in {"canon", "build"}
  /\ ~place => prompts = {}
  /\ state = NoContext => pc = "idle" /\ outbuf = <<>> /\ prompts = {}
  /\ pc # "idle" => state = 0
  /\ pc = "prompt" => wanted # {}

(***************************************************************************)
(* Prompts are there exactly while ret says so, and then they ask for all  *)
(* that a callback leaves to the user; a step that has none asks for all   *)
(* of that, one that has them for nothing.                                 *)
(***************************************************************************)
LeftToUser == {p \in Ids : cb[p].code = "SASL_INTERACT"}

AskInv ==
  /\ prompts # {} => prompts = LeftToUser /\ place /\ ret = "SASL_INTERACT"
  /\ place /\ ret = "SASL_INTERACT" => prompts # {}
  /\ state \in {NoContext, 1, 2} => prompts = {} /\ ret # "SASL_INTERACT"
  /\ pc = "authname" => wanted = {}
  /\ pc = "pass" => wanted = (LeftToUser \cap {"authname"}) \ prompts
  /\ pc = "prompt" => wanted = LeftToUser /\ prompts = {} /\ wanted # {}
  /\ pc \in {"load", "claim", "canon", "build"} =>
       wanted = {} /\ LeftToUser \subseteq prompts

(***************************************************************************)
(* What each part of a step has found, and that nothing is left in outbuf. *)
(***************************************************************************)
NameFound ==
  /\ cb.authname.code # "SASL_BADPARAM"
  /\ get_from_jwt <=> cb.authname.code = "SASL_FAIL"
  /\ get_from_jwt => authid = NULL
  /\ ~get_from_jwt /\ "authname" \notin wanted => authid = Meant("authname")

NameInv ==
  /\ state \in {NoContext, 0} /\ ~MayFail("malloc") => outbuf = <<>>
  /\ pc = "authname" => authid = NULL /\ ~get_from_jwt /\ wanted = {}
  /\ pc \in {"pass", "load", "claim"} => NameFound
  /\ pc \in {"load", "claim"} => get_from_jwt
  /\ pc \in {"load", "claim", "canon", "build"} => token = Meant("pass")
  /\ pc \in {"canon", "build"} /\ authid # NULL => authid = MeantName
  /\ pc = "build" => authid # NULL /\ canon = authid
=============================================================================
