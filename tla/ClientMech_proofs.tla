------------------------- MODULE ClientMech_proofs --------------------------
(***************************************************************************)
(* What holds of every client connection, for all applications, users,     *)
(* tokens and failures: the types, the ownership of prompts and of other   *)
(* memory, that nothing is asked twice, and that what is sent is meant.    *)
(***************************************************************************)
EXTENDS ClientMech, SequenceTheorems, TLAPS

LEMMA NullIsNoText == NULL \notin Texts
<1> SUFFICES ASSUME NULL \in Texts PROVE FALSE
  OBVIOUS
<1>1. 1 \in 1 .. Len(NULL) /\ NULL[1] = "(null)"
  BY DEF NULL
<1>2. NULL[1] \in STRING \ {"(null)"}
  BY <1>1, ElementOfSeq DEF Texts
<1> QED BY <1>1, <1>2

LEMMA SymbolSeqs ==
  ASSUME NEW S, NEW a \in S, NEW b \in S
  PROVE  <<a>> \in Seq(S) /\ <<a, b>> \in Seq(S)
OBVIOUS

\* NULL is one too, if an odd one.
LEMMA TextIsSeq ==
  ASSUME NEW t \in TextOrNull
  PROVE  t \in Seq(Symbols)
<1>1. CASE t \in Texts
  <2>1. STRING \ {"(null)"} \subseteq Symbols
    BY DEF Symbols
  <2> QED BY <1>1, <2>1, SeqMonotonic DEF Texts
<1>2. CASE t = NULL
  <2>1. "(null)" \in Symbols
    BY DEF Symbols
  <2>2. <<"(null)">> \in Seq(Symbols)
    BY <2>1, SymbolSeqs
  <2> QED BY <1>2, <2>2 DEF NULL
<1> QED BY <1>1, <1>2 DEF TextOrNull

LEMMA ApplicationTypes ==
  ASSUME TypeOK
  PROVE  /\ cb.authname.text \in TextOrNull /\ cb.pass.text \in TextOrNull
         /\ cb.authname.code \in Codes /\ cb.pass.code \in Codes
         /\ answers.authname \in TextOrNull /\ answers.pass \in TextOrNull
BY ClientAssumption DEF TypeOK, CallbackOK, AnswerOK, Ids

LEMMA ClaimType ==
  ASSUME TypeOK
  PROVE  Claim.text \in Texts /\ Claim.how \in Found
<1>1. CASE token \in DOMAIN Claims
  BY <1>1, ClientAssumption DEF Claim, ClaimOf
<1>2. CASE token \notin DOMAIN Claims
  BY <1>2 DEF Claim, ClaimOf, Found, Texts
<1> QED BY <1>1, <1>2

LEMMA BuildType ==
  ASSUME NEW a \in Seq(Symbols), NEW t \in Seq(Symbols)
  PROVE  /\ Build(a, <<BEARER>>, t) \in Seq(Symbols)
         /\ Build(a, <<BEARER>>, t) # <<>>
<1>1. /\ <<USER>> \in Seq(Symbols) /\ <<BEARER>> \in Seq(Symbols)
      /\ <<SP>> \in Seq(Symbols)
      /\ <<SOH, AUTH>> \in Seq(Symbols) /\ <<SOH, SOH>> \in Seq(Symbols)
  <2>1. /\ USER \in Symbols /\ BEARER \in Symbols /\ SP \in Symbols
        /\ SOH \in Symbols /\ AUTH \in Symbols
    BY DEF Symbols
  <2> QED BY <2>1, SymbolSeqs
<1> DEFINE b1 == <<USER>> \o a
           b2 == b1 \o <<SOH, AUTH>>
           b3 == b2 \o <<BEARER>>
           b4 == b3 \o <<SP>>
           b5 == b4 \o t
           b6 == b5 \o <<SOH, SOH>>
<1>2. b1 \in Seq(Symbols)
  BY <1>1, ConcatProperties
<1> HIDE DEF b1
<1>3. b2 \in Seq(Symbols)
  BY <1>1, <1>2, ConcatProperties
<1> HIDE DEF b2
<1>4. b3 \in Seq(Symbols)
  BY <1>1, <1>3, ConcatProperties
<1> HIDE DEF b3
<1>5. b4 \in Seq(Symbols)
  BY <1>1, <1>4, ConcatProperties
<1> HIDE DEF b4
<1>6. b5 \in Seq(Symbols)
  BY <1>5, ConcatProperties
<1> HIDE DEF b5
<1>7. b6 \in Seq(Symbols) /\ Len(b6) = Len(b5) + Len(<<SOH, SOH>>)
  BY <1>1, <1>6, ConcatProperties
<1>8. Len(<<SOH, SOH>>) = 2 /\ Len(b5) \in Nat
  BY <1>6, LenProperties
<1>9. b6 # <<>>
  BY <1>7, <1>8, EmptySeq
<1>10. Build(a, <<BEARER>>, t) = b6
  BY DEF Build, b1, b2, b3, b4, b5
<1> HIDE DEF b6
<1> QED BY <1>7, <1>9, <1>10

LEMMA ResponseType ==
  ASSUME TypeOK
  PROVE  Response \in Seq(Symbols) /\ Response # <<>>
<1> DEFINE said == IF token = NULL THEN <<>> ELSE token
<1>1. authid \in Seq(Symbols) /\ token \in Seq(Symbols)
  BY TextIsSeq DEF TypeOK
<1>2. said \in Seq(Symbols)
  BY <1>1, EmptySeq
<1>3. Response = Build(authid, <<BEARER>>, said)
  BY DEF Response
<1> HIDE DEF said
<1> QED BY <1>1, <1>2, <1>3, BuildType

LEMMA RespondsWith ==
  ASSUME TypeOK, Respond
  PROVE  outbuf' \in Seq(Symbols) /\ outbuf' # <<>>
<1>1. outbuf \in Seq(Symbols) /\ outbuf' = outbuf \o Response
  BY DEF TypeOK, Respond
<1>2. Response \in Seq(Symbols) /\ Response # <<>>
  BY ResponseType
<1>3. outbuf' \in Seq(Symbols)
  BY <1>1, <1>2, ConcatProperties
<1>4. outbuf' # <<>>
  BY <1>1, <1>2, ConcatSimplifications
<1> QED BY <1>3, <1>4

LEMMA RespondFailsWith ==
  ASSUME TypeOK, RespondFails
  PROVE  outbuf' \in Seq(Symbols) /\ (outbuf' = <<>> => outbuf = <<>>)
<1>1. PICK n \in 0 .. Len(Response) - 1 :
        outbuf' = outbuf \o SubSeq(Response, 1, n)
  BY DEF RespondFails
<1>2. outbuf \in Seq(Symbols) /\ Response \in Seq(Symbols)
  BY ResponseType DEF TypeOK
<1>3. \A i \in 1 .. n : Response[i] \in Symbols
  <2>1. Len(Response) \in Nat /\ Response \in [1 .. Len(Response) -> Symbols]
    BY <1>2, LenProperties
  <2> QED BY <2>1
<1>4. n \in Int
  OBVIOUS
<1>5. SubSeq(Response, 1, n) \in Seq(Symbols)
  BY <1>3, <1>4, SubSeqProperties
<1>6. outbuf' \in Seq(Symbols)
  BY <1>1, <1>2, <1>5, ConcatProperties
<1>7. outbuf' = <<>> => outbuf = <<>>
  BY <1>1, <1>2, <1>5, ConcatSimplifications
<1> QED BY <1>6, <1>7
-----------------------------------------------------------------------------
LEMMA InitTypeOK == Init => TypeOK
<1> SUFFICES ASSUME Init PROVE TypeOK
  OBVIOUS
<1>1. outbuf \in Seq(Symbols) /\ calls \in 0 .. MaxCalls
  BY ClientAssumption, EmptySeq DEF Init
<1> QED BY <1>1 DEF Init, TypeOK, NoContext, TextOrNull

LEMMA ApplicationTypeOK ==
  ASSUME TypeOK, Application
  PROVE  TypeOK'
<1> USE DEF TypeOK, NoContext, Codes, Blocks, InStep, app, conn, resp, local,
            memory, Free, TextOrNull
<1>1. CASE MechNew \/ MechNewFails
  BY <1>1, EmptySeq DEF MechNew, MechNewFails
<1>2. calls < MaxCalls => calls + 1 \in 0 .. MaxCalls
  BY ClientAssumption
<1>3. CASE CallStep1
  BY <1>2, <1>3 DEF CallStep1, Called
<1>4. CASE Step2
  BY <1>2, <1>4 DEF Step2, Called
<1>5. CASE StepAfter
  BY <1>2, <1>5 DEF StepAfter, Called
<1>6. CASE Dispose
  BY <1>6, EmptySeq DEF Dispose, PromptBlock
<1> QED BY <1>1, <1>3, <1>4, <1>5, <1>6 DEF Application

LEMMA Step1TypeOK ==
  ASSUME TypeOK, Step1
  PROVE  TypeOK'
<1> USE DEF TypeOK, NoContext, Codes, Blocks, InStep, app, conn, resp, local,
            memory, Free, Out, PromptBlock, Ids
<1>1. CASE NameFromPrompt
  BY <1>1, ApplicationTypes DEF NameFromPrompt
<1>2. CASE NameFromCallback
  <2>1. /\ authid' \in TextOrNull /\ wanted' \subseteq Ids
        /\ get_from_jwt' \in BOOLEAN
    BY <1>2, ApplicationTypes DEF NameFromCallback
  <2> QED BY <1>2, <2>1 DEF NameFromCallback
<1>3. CASE NameFails \/ PassFails
  BY <1>3, ApplicationTypes DEF NameFails, PassFails
<1>4. CASE PassFromPrompt
  BY <1>4, ApplicationTypes DEF PassFromPrompt, AfterPass
<1>5. CASE PassFromCallback
  BY <1>5, ApplicationTypes DEF PassFromCallback, AfterPass
<1>6. CASE PassWanted
  BY <1>6 DEF PassWanted
<1>7. CASE Prompt \/ PromptFails
  BY <1>7 DEF Prompt, PromptFails
<1>8. CASE Load
  BY <1>8 DEF Load
<1>9. CASE GetClaim
  <2>1. authid' \in TextOrNull
    BY <1>9, ClaimType DEF GetClaim, TextOrNull
  <2> QED BY <1>9, <2>1 DEF GetClaim
<1>10. CASE GetClaimAborts
  BY <1>10 DEF GetClaimAborts
<1>11. CASE NoName \/ CanonUser \/ CanonUserFails
  BY <1>11 DEF NoName, CanonUser, CanonUserFails
<1>12. CASE Respond
  BY <1>12, RespondsWith DEF Respond
<1>13. CASE RespondFails
  BY <1>13, RespondFailsWith DEF RespondFails
<1> QED BY <1>1, <1>2, <1>3, <1>4, <1>5, <1>6, <1>7, <1>8, <1>9, <1>10,
           <1>11, <1>12, <1>13 DEF Step1

(***************************************************************************)
(* Every variable of a connection keeps its type.                          *)
(***************************************************************************)
THEOREM TypeCorrect == Spec => []TypeOK
<1>1. TypeOK /\ [Next]_vars => TypeOK'
  <2>1. TypeOK /\ UNCHANGED vars => TypeOK'
    BY DEF TypeOK, vars, app, conn, resp, local, memory
  <2> QED BY <2>1, ApplicationTypeOK, Step1TypeOK DEF Next
<1> QED BY InitTypeOK, <1>1, PTL DEF Spec
-----------------------------------------------------------------------------
\* The memory.

LEMMA InitMemInv == Init => MemInv
BY DEF Init, MemInv, Owned, PromptBlock, NoContext

\* What the label "out" does to the account, wherever it is reached from.
LEMMA OutMemInv ==
  ASSUME TypeOK, MemInv, NEW r, Out(r), UNCHANGED <<app, conn>>, pc # "idle"
  PROVE  MemInv'
<1>1. /\ heap' = heap \ ((heap \cap {"username"}) \cup PromptBlock)
      /\ misfreed' = misfreed \cup
           (((heap \cap {"username"}) \cup PromptBlock) \ heap)
      /\ lost' = lost /\ prompts' = {} /\ pc' = "idle"
      /\ place' = place /\ state' = state /\ outbuf' = outbuf
  BY DEF Out, Free, app, conn
<1>2. heap \ {"username"} = Owned \cup lost /\ misfreed = {}
  BY DEF MemInv
<1>3. PromptBlock \subseteq heap
  BY <1>2 DEF Owned, PromptBlock
<1>4. misfreed' = {}
  BY <1>1, <1>2, <1>3
<1>5. PromptBlock' = {}
  BY <1>1 DEF PromptBlock
<1>6. PromptBlock \cap lost = {}
  BY DEF MemInv, PromptBlock
<1>7. Owned' = Owned \ PromptBlock
  BY <1>1, <1>5 DEF Owned, PromptBlock
<1>8. heap' \ {"username"} = Owned' \cup lost' /\ "username" \notin heap'
  BY <1>1, <1>2, <1>6, <1>7 DEF PromptBlock
<1> QED BY <1>1, <1>4, <1>8 DEF MemInv

LEMMA ApplicationMemInv ==
  ASSUME TypeOK, MemInv, Application
  PROVE  MemInv'
<1> USE DEF MemInv, NoContext, app, conn, memory, local, resp
<1>1. CASE MechNew
  BY <1>1 DEF MechNew, Owned, PromptBlock
<1>2. CASE MechNewFails
  BY <1>2 DEF MechNewFails, Owned, PromptBlock
<1>3. CASE CallStep1
  BY <1>3 DEF CallStep1, Called, Owned, PromptBlock
<1>4. CASE Step2
  BY <1>4 DEF Step2, Called, Owned, PromptBlock
<1>5. CASE StepAfter
  BY <1>5 DEF StepAfter, Called, Owned, PromptBlock
<1>6. CASE Dispose
  <2>1. /\ heap' = heap \ Owned /\ misfreed' = misfreed \cup (Owned \ heap)
        /\ lost' = lost
    BY <1>6 DEF Dispose, Free, Owned
  <2>2. Owned' = {}
    BY <1>6 DEF Dispose, Owned, PromptBlock
  <2>3. Owned \cap lost = {}
    BY DEF Owned, PromptBlock
  <2>4. Owned \subseteq heap /\ "username" \notin heap
    BY <1>6 DEF Dispose
  <2>5. heap' \ {"username"} = Owned' \cup lost' /\ misfreed' = {}
          /\ "username" \notin heap'
    BY <2>1, <2>2, <2>3, <2>4
  <2> QED BY <1>6, <2>1, <2>5 DEF Dispose
<1> QED BY <1>1, <1>2, <1>3, <1>4, <1>5, <1>6 DEF Application

\* The end of step 1 that has written to outbuf.
LEMMA RespondMemInv ==
  ASSUME TypeOK, MemInv, Respond \/ RespondFails
  PROVE  MemInv'
<1>1. /\ heap' = ((heap \ {"username"}) \ PromptBlock)
                   \cup (IF outbuf' = <<>> THEN {} ELSE {"outbuf"})
      /\ outbuf' = <<>> => outbuf = <<>>
  BY RespondsWith, RespondFailsWith DEF Respond, RespondFails
<1>2. /\ misfreed' = misfreed \cup (PromptBlock \ heap)
      /\ prompts' = {} /\ pc' = "idle" /\ state' \in {0, 1}
      /\ lost' = lost /\ place' = place /\ state = 0
  BY DEF Respond, RespondFails, app, MemInv
<1>3. heap \ {"username"} = Owned \cup lost /\ misfreed = {}
  BY DEF MemInv
<1>4. PromptBlock \subseteq heap /\ PromptBlock \cap lost = {}
  BY <1>3 DEF Owned, PromptBlock, MemInv
<1>5. Owned' = (Owned \ PromptBlock)
                 \cup (IF outbuf' = <<>> THEN {} ELSE {"outbuf"})
  BY <1>1, <1>2 DEF Owned, PromptBlock, NoContext
<1>6. heap' \ {"username"} = Owned' \cup lost' /\ "username" \notin heap'
  BY <1>1, <1>2, <1>3, <1>4, <1>5 DEF PromptBlock
<1>7. misfreed' = {}
  BY <1>2, <1>3, <1>4
<1> QED BY <1>2, <1>6, <1>7 DEF MemInv, NoContext

LEMMA Step1MemInv ==
  ASSUME TypeOK, MemInv, Step1
  PROVE  MemInv'
<1> USE DEF app, conn, memory, local, resp
<1>1. CASE NameFromPrompt \/ NameFromCallback
  BY <1>1 DEF NameFromPrompt, NameFromCallback, MemInv, Owned, PromptBlock
<1>2. CASE NameFails \/ PassFails \/ PromptFails \/ NoName \/ CanonUserFails
  BY <1>2, OutMemInv DEF NameFails, PassFails, PromptFails, NoName,
                         CanonUserFails
<1>3. CASE PassFromPrompt \/ PassFromCallback \/ PassWanted
  <2>1. /\ pc = "pass" /\ pc' \in {"prompt", "load", "canon"}
        /\ pc' = "prompt" => wanted' # {}
    BY <1>3 DEF PassFromPrompt, PassFromCallback, PassWanted, AfterPass
  <2> QED BY <1>3, <2>1 DEF PassFromPrompt, PassFromCallback, PassWanted,
                            MemInv, Owned, PromptBlock
<1>4. CASE Prompt
  BY <1>4 DEF Prompt, MemInv, Owned, PromptBlock
<1>5. CASE Load \/ GetClaimAborts
  BY <1>5 DEF Load, GetClaimAborts, MemInv, Owned, PromptBlock
<1>6. CASE GetClaim
  BY <1>6 DEF GetClaim, MemInv, Owned, PromptBlock
<1>7. CASE CanonUser
  BY <1>7 DEF CanonUser, MemInv, Owned, PromptBlock
<1>8. CASE Respond \/ RespondFails
  BY <1>8, RespondMemInv
<1> QED BY <1>1, <1>2, <1>3, <1>4, <1>5, <1>6, <1>7, <1>8 DEF Step1

(***************************************************************************)
(* What is allocated at each place of a step, whichever calls fail.        *)
(***************************************************************************)
THEOREM MemoryInvariant == Spec => []MemInv
<1>1. TypeOK /\ MemInv /\ [Next]_vars => MemInv'
  <2>1. MemInv /\ UNCHANGED vars => MemInv'
    BY DEF MemInv, Owned, PromptBlock, vars, app, conn, memory, local
  <2> QED BY <2>1, ApplicationMemInv, Step1MemInv DEF Next
<1> QED BY InitMemInv, <1>1, TypeCorrect, PTL DEF Spec

(***************************************************************************)
(* Between two calls the context and the application point to all that is  *)
(* allocated, nothing was freed twice, and only prompts without a place    *)
(* for them are lost.                                                      *)
(***************************************************************************)
THEOREM PromptsOwned == Spec => []PromptsFreed
<1>1. MemInv => PromptsFreed
  <2> SUFFICES ASSUME MemInv PROVE PromptsFreed
    OBVIOUS
  <2>1. Owned \cap lost = {}
    BY DEF MemInv, Owned, PromptBlock
  <2> QED BY <2>1 DEF MemInv, PromptsFreed
<1> QED BY <1>1, MemoryInvariant, PTL
-----------------------------------------------------------------------------
\* The prompts.

LEMMA InitAskInv == Init => AskInv
BY DEF Init, AskInv, NoContext

LEMMA OutAskInv ==
  ASSUME AskInv, NEW r, Out(r), UNCHANGED <<app, conn, local>>,
         r # "SASL_INTERACT"
  PROVE  AskInv'
BY DEF AskInv, Out, app, conn, LeftToUser, NoContext

LEMMA ApplicationAskInv ==
  ASSUME TypeOK, MemInv, AskInv, Application
  PROVE  AskInv'
<1> USE DEF AskInv, LeftToUser, NoContext, app, conn, local, resp
<1>1. CASE MechNew \/ MechNewFails
  BY <1>1 DEF MechNew, MechNewFails, MemInv
<1>2. CASE CallStep1
  BY <1>2 DEF CallStep1, Called
<1>3. CASE Step2 \/ StepAfter
  BY <1>3 DEF Step2, StepAfter, Called
<1>4. CASE Dispose
  BY <1>4 DEF Dispose
<1> QED BY <1>1, <1>2, <1>3, <1>4 DEF Application

LEMMA Step1AskInv ==
  ASSUME TypeOK, MemInv, AskInv, Step1
  PROVE  AskInv'
<1> USE DEF app, conn, local, resp
<1>1. CASE NameFromPrompt
  BY <1>1 DEF NameFromPrompt, Prompted, AskInv, LeftToUser, NoContext, MemInv,
              Ids
<1>2. CASE NameFromCallback
  BY <1>2 DEF NameFromCallback, Prompted, AskInv, LeftToUser, NoContext,
              MemInv, Ids
<1>3. CASE NameFails \/ PassFails
  <2>1. \E r \in {"SASL_FAIL", "SASL_BADPARAM"} : Out(r)
    BY <1>3 DEF NameFails, PassFails
  <2> QED BY <1>3, <2>1, OutAskInv DEF NameFails, PassFails
<1>4. CASE PromptFails \/ NoName \/ CanonUserFails
  <2>1. \E r \in {"SASL_NOMEM", "SASL_FAIL", "SASL_BADPARAM"} : Out(r)
    BY <1>4 DEF PromptFails, NoName, CanonUserFails
  <2> QED BY <1>4, <2>1, OutAskInv DEF PromptFails, NoName, CanonUserFails
<1>5. CASE PassFromPrompt
  BY <1>5 DEF PassFromPrompt, Prompted, AfterPass, AskInv, LeftToUser,
              NoContext, MemInv, Ids
<1>6. CASE PassFromCallback
  BY <1>6 DEF PassFromCallback, Prompted, AfterPass, AskInv, LeftToUser,
              NoContext, MemInv, Ids
<1>7. CASE PassWanted
  BY <1>7 DEF PassWanted, Prompted, AskInv, LeftToUser, NoContext, MemInv, Ids
<1>8. CASE Prompt
  BY <1>8 DEF Prompt, AskInv, LeftToUser, NoContext, MemInv
<1>9. CASE Load \/ GetClaim \/ GetClaimAborts \/ CanonUser
  BY <1>9 DEF Load, GetClaim, GetClaimAborts, CanonUser, AskInv, LeftToUser,
              NoContext, MemInv
<1>10. CASE Respond \/ RespondFails
  BY <1>10 DEF Respond, RespondFails, AskInv, LeftToUser, NoContext
<1> QED BY <1>1, <1>2, <1>3, <1>4, <1>5, <1>6, <1>7, <1>8, <1>9, <1>10
        DEF Step1

(***************************************************************************)
(* Prompts are for what callbacks leave to the user, for all of it.        *)
(***************************************************************************)
THEOREM AskInvariant == Spec => []AskInv
<1>1. TypeOK /\ MemInv /\ AskInv /\ [Next]_vars => AskInv'
  <2>1. AskInv /\ UNCHANGED vars => AskInv'
    BY DEF AskInv, LeftToUser, vars, app, conn, local
  <2> QED BY <2>1, ApplicationAskInv, Step1AskInv DEF Next
<1> QED BY InitAskInv, <1>1, TypeCorrect, MemoryInvariant, PTL DEF Spec

(***************************************************************************)
(* Prompts are handed out just when the application is told to answer      *)
(* some, and stay until the next call ends.                                *)
(***************************************************************************)
THEOREM PromptsHandedOut == Spec => []InteractMeansPrompts
<1>1. AskInv => InteractMeansPrompts
  BY DEF AskInv, InteractMeansPrompts
<1> QED BY <1>1, AskInvariant, PTL

(***************************************************************************)
(* A call with answers to prompts never ends in prompts.                   *)
(***************************************************************************)
THEOREM AskedOnce == Spec => AsksOnce
<1> DEFINE A == place /\ ret = "SASL_INTERACT" /\ pc # "idle" /\ pc' = "idle"
                => ret' # "SASL_INTERACT"
<1>1. TypeOK /\ AskInv /\ [Next]_vars => [A]_vars
  <2> SUFFICES ASSUME TypeOK, AskInv, Next, place, ret = "SASL_INTERACT",
                      pc # "idle", pc' = "idle"
               PROVE  ret' # "SASL_INTERACT"
    OBVIOUS
  <2>1. ~Application
    BY DEF Application, MechNew, MechNewFails, CallStep1, Step2, StepAfter,
           Dispose, Called
  <2>2. ~Prompt
    BY DEF Prompt, AskInv
  <2>3. \/ NameFails \/ PassFails \/ PromptFails \/ NoName \/ CanonUserFails
        \/ Respond \/ RespondFails
    BY <2>1, <2>2
       DEF Next, Step1, NameFromPrompt, NameFromCallback, PassFromPrompt,
           PassFromCallback, PassWanted, AfterPass, Load, GetClaim,
           GetClaimAborts, CanonUser
  <2> QED BY <2>3 DEF NameFails, PassFails, PromptFails, NoName,
                      CanonUserFails, Respond, RespondFails, Out
<1> QED BY <1>1, TypeCorrect, AskInvariant, PTL DEF Spec, AsksOnce
-----------------------------------------------------------------------------
\* The name and the token.

LEMMA InitNameInv == Init => NameInv
BY DEF Init, NameInv, NoContext

\* The application means the same as long as it lives.
LEMMA MeantKept ==
  ASSUME UNCHANGED app
  PROVE  /\ \A p \in Ids : Meant(p)' = Meant(p)
         /\ MeantName' = MeantName /\ MeantToken' = MeantToken
         /\ MayFail("malloc")' = MayFail("malloc")
<1>1. cb' = cb /\ answers' = answers /\ faults' = faults
  BY DEF app
<1>2. Meant("authname")' = Meant("authname") /\ Meant("pass")' = Meant("pass")
  BY <1>1 DEF Meant
<1>3. MeantToken' = MeantToken
  BY <1>2 DEF MeantToken
<1> QED BY <1>1, <1>2, <1>3 DEF MeantName, MayFail, Ids

LEMMA IdleNameInv ==
  ASSUME NameInv, UNCHANGED app, pc' = "idle",
         state' \in {NoContext, 0} /\ ~MayFail("malloc") => outbuf' = <<>>
  PROVE  NameInv'
BY MeantKept DEF NameInv

LEMMA ApplicationNameInv ==
  ASSUME TypeOK, NameInv, Application
  PROVE  NameInv'
<1>1. CASE MechNew \/ MechNewFails \/ Step2 \/ StepAfter \/ Dispose
  <2>1. /\ UNCHANGED app /\ pc' = "idle"
        /\ state' \in {NoContext, 0} /\ ~MayFail("malloc") => outbuf' = <<>>
    BY <1>1 DEF MechNew, MechNewFails, Step2, StepAfter, Dispose, Called,
                NameInv, NoContext, conn
  <2> QED BY <2>1, IdleNameInv
<1>2. CASE CallStep1
  BY <1>2, MeantKept DEF CallStep1, NameInv, conn
<1> QED BY <1>1, <1>2 DEF Application

\* What step 1 finds before it goes on to the response.
LEMMA NameFoundKept ==
  ASSUME NameFound, UNCHANGED <<app, authid, get_from_jwt>>,
         wanted \subseteq wanted'
  PROVE  NameFound'
<1>1. Meant("authname")' = Meant("authname") /\ cb' = cb
  BY MeantKept DEF app, Ids
<1> QED BY <1>1 DEF NameFound

LEMMA FoundIsMeant ==
  ASSUME NameFound, ~get_from_jwt, wanted = {}
  PROVE  authid = MeantName
BY DEF NameFound, MeantName

LEMMA NameStepsNameInv ==
  ASSUME TypeOK, MemInv, AskInv, NameInv, NameFromPrompt \/ NameFromCallback
  PROVE  NameInv'
<1>1. /\ pc = "authname" /\ pc' = "pass" /\ UNCHANGED <<app, conn>>
      /\ authid = NULL /\ ~get_from_jwt /\ wanted = {}
  BY DEF NameFromPrompt, NameFromCallback, NameInv
<1>2. Meant("authname")' = Meant("authname") /\ cb' = cb
  BY <1>1, MeantKept DEF app, Ids
<1>3. NameFound'
  <2>1. CASE NameFromPrompt
    <3>1. cb.authname.code = "SASL_INTERACT"
      BY <2>1 DEF NameFromPrompt, Prompted, AskInv, LeftToUser
    <3> QED BY <1>1, <1>2, <2>1, <3>1 DEF NameFromPrompt, NameFound, Meant
  <2>2. CASE NameFromCallback
    BY <1>1, <1>2, <2>2 DEF NameFromCallback, NameFound, Meant
  <2> QED BY <2>1, <2>2
<1> QED BY <1>1, <1>3, MeantKept DEF NameInv, conn

LEMMA PassStepsNameInv ==
  ASSUME TypeOK, MemInv, AskInv, NameInv,
         PassFromPrompt \/ PassFromCallback \/ PassWanted
  PROVE  NameInv'
<1>1. /\ pc = "pass" /\ UNCHANGED <<app, conn, authid, get_from_jwt>>
      /\ wanted \subseteq wanted'
  BY DEF PassFromPrompt, PassFromCallback, PassWanted, resp
<1>2. NameFound /\ NameFound'
  BY <1>1, NameFoundKept DEF NameInv
<1>3. CASE PassWanted
  BY <1>1, <1>3, MeantKept DEF PassWanted, NameInv, conn
<1>4. CASE PassFromPrompt \/ PassFromCallback
  <2>1. token' = Meant("pass") /\ wanted' = wanted /\ pc' = AfterPass(wanted)
    BY <1>4 DEF PassFromPrompt, PassFromCallback, Prompted, AskInv,
                LeftToUser, Meant
  <2>2. token' = Meant("pass")'
    BY <1>1, <2>1, MeantKept DEF Ids
  <2>3. CASE wanted # {}
    BY <1>1, <2>1, <2>3, MeantKept DEF AfterPass, NameInv, conn
  <2>4. CASE wanted = {} /\ get_from_jwt
    <3>1. pc' = "load" /\ get_from_jwt'
      BY <1>1, <2>1, <2>4 DEF AfterPass
    <3> QED BY <1>1, <1>2, <2>2, <3>1, MeantKept DEF NameInv, conn
  <2>5. CASE wanted = {} /\ ~get_from_jwt
    <3>1. pc' = "canon" /\ authid' = MeantName
      BY <1>1, <1>2, <2>1, <2>5, FoundIsMeant DEF AfterPass
    <3>2. authid' = MeantName'
      BY <1>1, <3>1, MeantKept
    <3> QED BY <1>1, <2>2, <3>1, <3>2, MeantKept DEF NameInv, conn
  <2> QED BY <2>3, <2>4, <2>5 DEF TypeOK
<1> QED BY <1>3, <1>4

\* The claim is looked up in the token the application means.
LEMMA ClaimIsMeant ==
  ASSUME TypeOK, NameInv, GetClaim
  PROVE  authid' = NULL \/ authid' = MeantName
<1>1. pc = "claim" /\ NameFound /\ get_from_jwt /\ token = Meant("pass")
  BY DEF GetClaim, NameInv
<1>2. cb.authname.code = "SASL_FAIL" /\ authid = NULL
  BY <1>1 DEF NameFound
<1>3. CASE Claim.how = "found"
  <2>1. token \in DOMAIN Claims /\ Claim = Claims[token]
    BY <1>3 DEF Claim, ClaimOf
  <2>2. token # NULL
    BY <2>1, NullIsNoText, ClientAssumption
  <2>3. MeantToken = token
    BY <1>1, <2>2 DEF MeantToken
  <2>4. MeantName = Claim.text
    BY <1>2, <2>1, <2>3 DEF MeantName, ClaimOf
  <2> QED BY <1>2, <2>4 DEF GetClaim
<1>4. CASE Claim.how # "found"
  BY <1>2, <1>4 DEF GetClaim
<1> QED BY <1>3, <1>4

LEMMA Step1NameInv ==
  ASSUME TypeOK, MemInv, AskInv, NameInv, Step1
  PROVE  NameInv'
<1>1. CASE NameFromPrompt \/ NameFromCallback
  BY <1>1, NameStepsNameInv
<1>2. CASE PassFromPrompt \/ PassFromCallback \/ PassWanted
  BY <1>2, PassStepsNameInv
<1>3. CASE \/ NameFails \/ PassFails \/ PromptFails \/ NoName \/ CanonUserFails
           \/ Prompt
  <2>1. UNCHANGED <<app, conn>> /\ pc' = "idle"
    BY <1>3 DEF NameFails, PassFails, PromptFails, NoName, CanonUserFails,
                Prompt, Out
  <2> QED BY <2>1, IdleNameInv DEF NameInv, conn
<1>4. CASE Load
  <2>1. /\ pc = "load" /\ pc' \in {"claim", "canon"}
        /\ UNCHANGED <<app, conn, local>>
    BY <1>4 DEF Load
  <2>2. NameFound /\ NameFound' /\ authid = NULL
    BY <2>1, NameFoundKept DEF NameInv, local, resp, NameFound
  <2> QED BY <2>1, <2>2, MeantKept DEF NameInv, conn, local, resp, Ids
<1>5. CASE GetClaim
  <2>1. authid' = NULL \/ authid' = MeantName'
    BY <1>5, ClaimIsMeant, MeantKept DEF GetClaim
  <2> QED BY <1>5, <2>1, MeantKept DEF GetClaim, NameInv, conn, Ids
<1>6. CASE GetClaimAborts
  BY <1>6, MeantKept DEF GetClaimAborts, NameInv, conn
<1>7. CASE CanonUser
  BY <1>7, MeantKept DEF CanonUser, NameInv, conn, local, resp, Ids
<1>8. CASE Respond
  BY <1>8, IdleNameInv DEF Respond, NoContext
<1>9. CASE RespondFails
  BY <1>9, IdleNameInv DEF RespondFails
<1> QED BY <1>1, <1>2, <1>3, <1>4, <1>5, <1>6, <1>7, <1>8, <1>9 DEF Step1

(***************************************************************************)
(* What each part of step 1 has found about the name and the token.        *)
(***************************************************************************)
THEOREM NameInvariant == Spec => []NameInv
<1>1. TypeOK /\ MemInv /\ AskInv /\ NameInv /\ [Next]_vars => NameInv'
  <2>1. NameInv /\ UNCHANGED vars => NameInv'
    <3> SUFFICES ASSUME NameInv, UNCHANGED vars PROVE NameInv'
      OBVIOUS
    <3>1. UNCHANGED <<app, conn, local, pc, canon>>
      BY DEF vars
    <3>2. NameFound => NameFound'
      BY <3>1, NameFoundKept DEF local, resp
    <3> QED BY <3>1, <3>2, MeantKept DEF NameInv, conn, local, resp, Ids
  <2> QED BY <2>1, ApplicationNameInv, Step1NameInv DEF Next
<1> QED BY InitNameInv, <1>1, TypeCorrect, MemoryInvariant, AskInvariant, PTL
        DEF Spec

LEMMA RespondSendsWhatIsMeant ==
  ASSUME TypeOK, MemInv, NameInv, Respond, ~MayFail("malloc")
  PROVE  /\ canon' = MeantName'
         /\ clientout' = Build(MeantName, <<BEARER>>, MeantToken)'
<1>1. /\ pc = "build" /\ UNCHANGED <<app, canon>>
      /\ outbuf' = outbuf \o Response /\ clientout' = outbuf'
  BY DEF Respond
<1>2. outbuf = <<>>
  BY <1>1 DEF MemInv, NameInv
<1>3. authid = MeantName /\ canon = MeantName /\ token = Meant("pass")
  BY <1>1 DEF NameInv
<1>4. outbuf' = Response
  BY <1>1, <1>2, ResponseType, ConcatEmptySeq
<1>5. Response = Build(MeantName, <<BEARER>>, MeantToken)
  BY <1>3 DEF Response, MeantToken
<1>6. MeantName' = MeantName /\ MeantToken' = MeantToken
  BY <1>1, MeantKept
<1> QED BY <1>1, <1>3, <1>4, <1>5, <1>6

(***************************************************************************)
(* A step that succeeds hands out one message for the user and with the    *)
(* token that the application means, and canon_user was given that user.   *)
(***************************************************************************)
THEOREM MeantIsSent == Spec => []SendsWhatIsMeant
<1>1. Init => SendsWhatIsMeant
  BY DEF Init, SendsWhatIsMeant
<1>2. TypeOK /\ MemInv /\ NameInv /\ SendsWhatIsMeant /\ [Next]_vars
        => SendsWhatIsMeant'
  <2> SUFFICES ASSUME TypeOK, MemInv, NameInv, SendsWhatIsMeant, [Next]_vars
               PROVE  SendsWhatIsMeant'
    OBVIOUS
  <2>1. CASE UNCHANGED vars
    <3>1. UNCHANGED <<app, pc, canon, ret, clientout>>
      BY <2>1 DEF vars
    <3> QED BY <3>1, MeantKept DEF SendsWhatIsMeant
  <2>2. CASE Respond
    <3>1. MayFail("malloc")' = MayFail("malloc")
      BY <2>2, MeantKept DEF Respond
    <3> QED BY <2>2, <3>1, RespondSendsWhatIsMeant DEF SendsWhatIsMeant
  <2>3. CASE Application
    <3>1. pc' # "idle" \/ ret' # "SASL_CONTINUE"
      BY <2>3 DEF Application, MechNew, MechNewFails, CallStep1, Step2,
                  StepAfter, Dispose
    <3> QED BY <3>1 DEF SendsWhatIsMeant
  <2>4. CASE Step1 /\ ~Respond
    <3>1. pc' # "idle" \/ ret' # "SASL_CONTINUE"
      BY <2>4 DEF Step1, NameFromPrompt, NameFromCallback, NameFails,
           PassFromPrompt, PassFromCallback, PassWanted, PassFails, Prompt,
           PromptFails, AfterPass, Load, GetClaim, GetClaimAborts, NoName,
           CanonUser, CanonUserFails, RespondFails, Out
    <3> QED BY <3>1 DEF SendsWhatIsMeant
  <2> QED BY <2>1, <2>2, <2>3, <2>4 DEF Next
<1> QED BY <1>1, <1>2, TypeCorrect, MemoryInvariant, NameInvariant, PTL
        DEF Spec
-----------------------------------------------------------------------------
\* The refinement.

\* ClientRole has its own copies of what both speak of.
LEMMA SameWords ==
  /\ Role!NULL = NULL /\ Role!BEARER = BEARER
  /\ \A a, k, t : Role!Build(a, k, t) = Build(a, k, t)
BY
   DEF Role!NULL, NULL, Role!BEARER, BEARER, Role!Build, Build, Role!USER,
       USER,
       Role!SOH, SOH, Role!AUTH, AUTH, Role!SP, SP

LEMMA MeaningStays ==
  ASSUME UNCHANGED app
  PROVE  meant' = meant /\ MayFail("malloc")' = MayFail("malloc")
BY MeantKept DEF meant

LEMMA ApplicationRole ==
  ASSUME TypeOK, MemInv, Application
  PROVE  Role!Next
<1> USE DEF Role!Next, phase, NoContext, local, conn, Called, MemInv
<1>1. UNCHANGED app
  BY DEF Application, MechNew, MechNewFails, CallStep1, Step2, StepAfter,
         Dispose
<1>2. CASE MechNew
  <2>1. Role!Open
    BY <1>1, <1>2, MeaningStays, SameWords DEF MechNew, Role!Open
  <2> QED BY <2>1
<1>3. CASE MechNewFails
  <2>1. Role!OpenFails
    BY <1>1, <1>3, MeaningStays, SameWords DEF MechNewFails, Role!OpenFails
  <2> QED BY <2>1
<1>4. CASE CallStep1
  <2>1. Role!Call
    BY <1>1, <1>4, MeaningStays, SameWords DEF CallStep1, Role!Call
  <2> QED BY <2>1
<1>5. CASE Step2
  <2>1. Role!Answer
    BY <1>1, <1>5, MeaningStays DEF Step2, Role!Answer
  <2> QED BY <2>1
<1>6. CASE StepAfter
  <2>1. Role!After
    BY <1>1, <1>6, MeaningStays DEF StepAfter, Role!After
  <2> QED BY <2>1
<1>7. CASE Dispose
  <2>1. phase \in {"ready", "sent", "done"}
    BY <1>7 DEF Dispose, TypeOK
  <2>2. phase' = "none"
    BY <1>7 DEF Dispose
  <2>3. Role!Close
    BY <1>1, <1>7, <2>1, <2>2, MeaningStays, SameWords DEF Dispose, Role!Close
  <2> QED BY <2>3
<1> QED BY <1>2, <1>3, <1>4, <1>5, <1>6, <1>7 DEF Application

\* A step that hands out no response.
LEMMA ReturnRole ==
  ASSUME TypeOK, MemInv,
         \/ NameFails \/ PassFails \/ Prompt \/ PromptFails
         \/ NoName \/ CanonUserFails \/ RespondFails
  PROVE  Role!Return
<1>1. /\ pc # "idle" /\ pc # "aborted" /\ pc' = "idle" /\ state = 0 /\ state' = 0
      /\ UNCHANGED <<app, canon, clientout>>
      /\ ret' \in {"SASL_INTERACT", "SASL_FAIL", "SASL_BADPARAM", "SASL_NOMEM"}
  BY DEF NameFails, PassFails, Prompt, PromptFails, NoName, CanonUserFails,
         RespondFails, Out, MemInv, conn
<1>2. phase = "busy" /\ phase' = "ready"
  BY <1>1 DEF phase, NoContext
<1> QED BY <1>1, <1>2, MeaningStays DEF Role!Return

LEMMA SendRole ==
  ASSUME TypeOK, MemInv, NameInv, Respond
  PROVE  Role!Send
<1>1. /\ pc = "build" /\ pc' = "idle" /\ state = 0 /\ state' = 1
      /\ UNCHANGED <<app, canon>> /\ ret' = "SASL_CONTINUE"
      /\ clientout' = outbuf'
  BY DEF Respond, MemInv
<1>2. phase = "busy" /\ phase' = "sent"
  BY <1>1 DEF phase, NoContext
<1>3. canon = meant.user
  BY <1>1 DEF NameInv, meant
<1>4. CASE ~MayFail("malloc")
  <2>1. clientout' = Build(meant.user, <<BEARER>>, meant.token)
    BY <1>1, <1>4, RespondSendsWhatIsMeant, MeantKept DEF meant
  <2> QED BY <1>1, <1>2, <1>3, <2>1, MeaningStays, SameWords DEF Role!Send
<1>5. CASE MayFail("malloc")
  <2>1. clientout' \in Seq(Symbols)
    BY <1>1, RespondsWith
  <2> QED BY <1>1, <1>2, <1>3, <1>5, <2>1, MeaningStays, SameWords
             DEF Role!Send
<1> QED BY <1>4, <1>5

LEMMA Step1Role ==
  ASSUME TypeOK, MemInv, NameInv, Step1
  PROVE  [Role!Next]_(Role!vars)
<1>1. CASE \/ NameFails \/ PassFails \/ Prompt \/ PromptFails
           \/ NoName \/ CanonUserFails \/ RespondFails \/ Respond
  BY <1>1, ReturnRole, SendRole DEF Role!Next
<1>2. CASE CanonUser
  <2>1. /\ pc = "canon" /\ pc' = "build" /\ state = 0 /\ state' = 0
        /\ canon' = meant.user /\ UNCHANGED <<app, clientout, ret>>
    BY <1>2 DEF CanonUser, MemInv, NameInv, meant, conn
  <2>2. phase = "busy" /\ phase' = "busy"
    BY <2>1 DEF phase, NoContext
  <2>3. Role!Canon
    BY <2>1, <2>2, MeaningStays DEF Role!Canon
  <2> QED BY <2>3 DEF Role!Next
<1>3. CASE GetClaimAborts
  <2>1. /\ pc = "claim" /\ pc' = "aborted" /\ state = 0 /\ state' = 0
        /\ UNCHANGED <<app, canon, clientout, ret>>
    BY <1>3 DEF GetClaimAborts, MemInv, conn
  <2>2. phase = "busy" /\ phase' = "dead"
    BY <2>1 DEF phase, NoContext
  <2>3. Role!Die
    BY <2>1, <2>2, MeaningStays DEF Role!Die
  <2> QED BY <2>3 DEF Role!Next
<1>4. CASE \/ NameFromPrompt \/ NameFromCallback
           \/ PassFromPrompt \/ PassFromCallback \/ PassWanted
           \/ Load \/ GetClaim
  <2>1. /\ pc \notin {"idle", "aborted"} /\ pc' \notin {"idle", "aborted"}
        /\ state' = state /\ UNCHANGED <<app, canon, clientout, ret>>
    BY <1>4 DEF NameFromPrompt, NameFromCallback, PassFromPrompt,
                PassFromCallback, PassWanted, AfterPass, Load, GetClaim, conn
  <2>2. phase' = phase
    BY <2>1 DEF phase
  <2> QED BY <2>1, <2>2, MeaningStays DEF Role!vars
<1> QED BY <1>1, <1>2, <1>3, <1>4 DEF Step1

(***************************************************************************)
(* Every connection keeps what ClientRole promises, for all applications,  *)
(* users, tokens and failures: ClientMech implements ClientRole.           *)
(***************************************************************************)
THEOREM RoleKept == Spec => KeepsRole
<1>1. Init => Role!Init
  BY SameWords DEF Init, Role!Init, phase
<1>2. TypeOK /\ MemInv /\ NameInv /\ [Next]_vars => [Role!Next]_(Role!vars)
  <2> SUFFICES ASSUME TypeOK, MemInv, NameInv, [Next]_vars
               PROVE  [Role!Next]_(Role!vars)
    OBVIOUS
  <2>1. CASE UNCHANGED vars
    <3>1. UNCHANGED <<app, state, pc, canon, clientout, ret>>
      BY <2>1 DEF vars, conn
    <3>2. phase' = phase
      BY <3>1 DEF phase
    <3> QED BY <3>1, <3>2, MeaningStays DEF Role!vars
  <2> QED BY <2>1, ApplicationRole, Step1Role DEF Next
<1> QED BY <1>1, <1>2, TypeCorrect, MemoryInvariant, NameInvariant, PTL
        DEF Spec, KeepsRole, Role!Spec
=============================================================================
