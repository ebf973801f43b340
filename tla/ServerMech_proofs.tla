------------------------- MODULE ServerMech_proofs --------------------------
(***************************************************************************)
(* What holds of every connection, for all options, tokens, messages and   *)
(* failures: the types, the ownership of memory, where a step may end the  *)
(* process and, when no failure is answered with 0, that a step succeeds   *)
(* only for a permitted user.                                              *)
(***************************************************************************)
EXTENDS ServerMech, SequenceTheorems, FiniteSetTheorems, WellFoundedInduction,
        TLAPS

LEMMA InitTypeOK == Init => TypeOK
BY ServerAssumption
   DEF Init, TypeOK, NoReq, NoContext, Results, Blocks, Locals, conn,
       fixed

LEMMA OptionTypes ==
  ASSUME TypeOK
  PROVE  /\ settings.user_claim \in Seq(STRING)
         /\ settings.group_user \in Seq(STRING)
         /\ settings.proxy \in Seq(STRING)
         /\ settings.no_proxy \in Seq(STRING)
BY ServerAssumption DEF TypeOK, SettingOK, Texts

LEMMA ExportedType ==
  ASSUME TypeOK, NEW names
  PROVE  EnvOK(Exported(names))
<1>1. \A v \in EnvNames : ProxyOption(v) \in Seq(STRING)
  BY OptionTypes DEF ProxyOption
<1>2. \A v \in EnvNames : env[v] \in Seq(STRING)
  BY DEF TypeOK, EnvOK
<1> QED BY <1>1, <1>2 DEF EnvOK, Exported

\* What mech_new, mech_dispose and the first lines of a step do to the types.
LEMMA ApplicationTypeOK ==
  ASSUME TypeOK, Application
  PROVE  TypeOK'
<1> USE DEF TypeOK, NoContext, Results, Blocks, Locals, InStep, fixed, conn,
            local, answer, memory, Alloc, Free, Called, EnvOK
<1>1. CASE MechNew
  BY <1>1 DEF MechNew
<1>2. CASE MechNewFails
  BY <1>2 DEF MechNewFails
<1>3. CASE Dispose
  BY <1>3 DEF Dispose
<1>4. calls < MaxCalls => calls + 1 \in 0 .. MaxCalls
  BY ServerAssumption
<1>5. CASE Step2
  BY <1>4, <1>5 DEF Step2
<1>6. CASE NoInput
  BY <1>4, <1>6 DEF NoInput
<1>7. CASE NoBuffer
  BY <1>4, <1>7 DEF NoBuffer
<1>8. CASE Receive
  <2>1. PICK m \in Messages : req' = Parse(m)
    BY <1>8 DEF Receive
  <2>2. DOMAIN req' = {"ok", "authid", "type", "token"}
    BY <2>1 DEF Parse
  <2> QED BY <1>4, <1>8, <2>2 DEF Receive
<1> QED BY <1>1, <1>2, <1>3, <1>5, <1>6, <1>7, <1>8 DEF Application

LEMMA NextWordType ==
  ASSUME NEW t \in Seq(STRING), NEW n, NEW w \in NextWord(t, n)
  PROVE  w[2] + 1 \in Nat \ {0}
<1>1. w[2] \in 1 .. Len(t) /\ Len(t) \in Nat
  BY DEF NextWord
<1> QED BY <1>1

LEMMA Step1TypeOK ==
  ASSUME TypeOK, Step1
  PROVE  TypeOK'
<1> USE DEF TypeOK, NoContext, Results, Blocks, Locals, InStep, fixed, conn,
            local, answer, memory, Alloc, Free, Out, IntrospectReturns
<1>1. CASE BadMessage \/ CanonUser \/ CanonUserFails
  BY <1>1 DEF BadMessage, CanonUser, CanonUserFails
<1>2. CASE SetProxies
  <2>1. EnvOK(env')
    BY <1>2, ExportedType DEF SetProxies
  <2> QED BY <1>2, <2>1 DEF SetProxies
<1>3. CASE \/ Deserialize \/ DeserializeFails
           \/ GetIssuer \/ GetIssuerFails
           \/ CreateEnforcer \/ CreateEnforcerFails
  BY <1>3 DEF Deserialize, DeserializeFails, GetIssuer, GetIssuerFails,
              CreateEnforcer, CreateEnforcerFails
<1>4. CASE TestEnforcer \/ TestEnforcerFails
  BY <1>4 DEF TestEnforcer, TestEnforcerFails
<1>5. CASE GetScope \/ GetScopeFails
  BY <1>5 DEF GetScope, NoScope, GetScopeFails
<1>6. CASE CheckScope
  BY <1>6 DEF CheckScope
<1>7. CASE CheckScopeFails
  BY <1>7 DEF CheckScopeFails
<1>8. CASE AudListFails \/ GetScopeAborts \/ TryGroupUserAborts
  BY <1>8 DEF AudListFails, GetScopeAborts, TryGroupUserAborts, Abort
<1>9. CASE TryUserClaim
  <2>1. cursor' \in Nat \ {0} /\ user_ok' \in {0, 1}
          /\ pc' \in {"release", "user_claim"}
    BY <1>9, OptionTypes, NextWordType DEF TryUserClaim
  <2> QED BY <1>9, <2>1 DEF TryUserClaim
<1>10. CASE TryGroupUser
  <2>1. cursor' \in Nat \ {0} /\ user_ok' \in {0, 1}
          /\ pc' \in {"release", "group_user"}
    BY <1>10, OptionTypes, NextWordType DEF TryGroupUser
  <2> QED BY <1>10, <2>1 DEF TryGroupUser
<1>11. CASE UserClaimsDone
  BY <1>11 DEF UserClaimsDone
<1>12. CASE GroupUsersDone
  BY <1>12 DEF GroupUsersDone
<1>13. CASE Release
  BY <1>13 DEF Release
<1>14. CASE Accept
  BY <1>14 DEF Accept
<1>15. CASE Refuse
  BY <1>15 DEF Refuse, BuildJson
<1>16. CASE RefuseFails
  <2>1. outbuf' \in Seq({"json", "part"})
    BY <1>16 DEF RefuseFails
  <2>2. heap' \subseteq Blocks /\ misfreed' \subseteq Blocks
    BY <1>16 DEF RefuseFails
  <2> QED BY <1>16, <2>1, <2>2 DEF RefuseFails
<1>17. CASE UserClaimFails
  <2>1. cursor' \in Nat \ {0}
    BY <1>17, OptionTypes, NextWordType DEF UserClaimFails
  <2> QED BY <1>17, <2>1 DEF UserClaimFails
<1> QED BY <1>1, <1>2, <1>3, <1>4, <1>5, <1>6, <1>7, <1>8, <1>9, <1>10,
           <1>11, <1>12, <1>13, <1>14, <1>15, <1>16, <1>17 DEF Step1

(***************************************************************************)
(* Every variable of a connection keeps its type.                          *)
(***************************************************************************)
THEOREM TypeCorrect == Spec => []TypeOK
<1>1. TypeOK /\ [Next]_vars => TypeOK'
  <2>1. TypeOK /\ UNCHANGED vars => TypeOK'
    BY DEF TypeOK, vars, fixed, conn, local, answer, memory
  <2>2. TypeOK /\ OtherSetenv => TypeOK'
    BY ExportedType DEF TypeOK, OtherSetenv, fixed, conn, local, answer, memory
  <2> QED BY <2>1, <2>2, ApplicationTypeOK, Step1TypeOK DEF Next
<1> QED BY InitTypeOK, <1>1, PTL DEF Spec

-----------------------------------------------------------------------------
\* Memory.

LEMMA ApplicationMemInv ==
  ASSUME TypeOK, MemInv, Application
  PROVE  MemInv'
<1> USE DEF MemInv, Owned, Held, NoContext, InStep, fixed, conn, memory, local,
            answer, Called
<1>1. CASE MechNew
  BY <1>1 DEF MechNew, Alloc
<1>2. CASE MechNewFails
  BY <1>2 DEF MechNewFails
<1>3. CASE Dispose
  BY <1>3 DEF Dispose, Free
<1>4. CASE Step2
  BY <1>4 DEF Step2
<1>5. CASE NoInput
  BY <1>5 DEF NoInput
<1>6. CASE NoBuffer
  BY <1>6 DEF NoBuffer
<1>7. CASE Receive
  BY <1>7 DEF Receive, Alloc
<1> QED BY <1>1, <1>2, <1>3, <1>4, <1>5, <1>6, <1>7 DEF Application

LEMMA Step1MemInv ==
  ASSUME TypeOK, MemInv, Step1
  PROVE  MemInv'
<1> USE DEF MemInv, Owned, Held, NoContext, InStep, fixed, conn, memory, local,
            answer
<1>1. CASE BadMessage
  BY <1>1 DEF BadMessage, Out, Free
<1>2. CASE CanonUser \/ CanonUserFails \/ SetProxies
  BY <1>2 DEF CanonUser, CanonUserFails, SetProxies
<1>3. CASE Deserialize
  BY <1>3 DEF Deserialize, Alloc
<1>4. CASE DeserializeFails
  BY <1>4 DEF DeserializeFails, IntrospectReturns, Locals
<1>5. CASE GetIssuer
  BY <1>5 DEF GetIssuer, Alloc
<1>6. CASE GetIssuerFails
  BY <1>6 DEF GetIssuerFails, IntrospectReturns, Locals
<1>7. CASE CreateEnforcer
  BY <1>7 DEF CreateEnforcer, Alloc
<1>8. CASE CreateEnforcerFails
  BY <1>8 DEF CreateEnforcerFails, IntrospectReturns, Locals
<1>9. CASE AudListFails \/ GetScopeAborts \/ TryGroupUserAborts
  BY <1>9 DEF AudListFails, GetScopeAborts, NoScope, TryGroupUserAborts, Abort
<1>10. CASE TestEnforcer
  BY <1>10 DEF TestEnforcer, Free
<1>11. CASE TestEnforcerFails
  BY <1>11 DEF TestEnforcerFails, IntrospectReturns, Locals
<1>12. CASE GetScope
  BY <1>12 DEF GetScope, Alloc
<1>13. CASE GetScopeFails
  BY <1>13 DEF GetScopeFails, NoScope, IntrospectReturns, Locals
<1>14. CASE CheckScope
  BY <1>14 DEF CheckScope
<1>15. CASE CheckScopeFails
  BY <1>15 DEF CheckScopeFails, IntrospectReturns, Locals
<1>16. CASE \/ TryUserClaim \/ UserClaimFails \/ UserClaimsDone
            \/ TryGroupUser \/ GroupUsersDone
  <2>1. /\ pc \in {"user_claim", "group_user"}
        /\ pc' \in {"user_claim", "group_user", "release"}
        /\ UNCHANGED <<conn, answer, memory>>
    BY <1>16 DEF TryUserClaim, UserClaimFails, UserClaimsDone, TryGroupUser,
                 GroupUsersDone
  <2> QED BY <2>1
<1>17. CASE Release
  BY <1>17 DEF Release, IntrospectReturns, Locals
<1>18. CASE Accept
  BY <1>18 DEF Accept, Out, Free
<1>19. CASE Refuse
  <2>1. outbuf' # <<>>
    BY <1>19 DEF Refuse, BuildJson, TypeOK
  <2> QED BY <1>19, <2>1 DEF Refuse, BuildJson
<1>20. CASE RefuseFails
  <2>1. \/ outbuf' = outbuf /\ heap' = heap \ {"resp"}
        \/ outbuf' # <<>> /\ heap' = (heap \cup {"outbuf"}) \ {"resp"}
    BY <1>20 DEF RefuseFails, TypeOK
  <2> QED BY <1>20, <2>1 DEF RefuseFails
<1> QED BY <1>1, <1>2, <1>3, <1>4, <1>5, <1>6, <1>7, <1>8, <1>9, <1>10,
           <1>11, <1>12, <1>13, <1>14, <1>15, <1>16, <1>17, <1>18, <1>19,
           <1>20 DEF Step1

(***************************************************************************)
(* At every call inside a step just what was allocated on the way to it is *)
(* allocated, whatever fails.                                              *)
(***************************************************************************)
THEOREM MemoryInvariant == Spec => []MemInv
<1>1. Init => MemInv
  BY DEF Init, MemInv, Owned, Held, NoContext, InStep
<1>2. TypeOK /\ MemInv /\ [Next]_vars => MemInv'
  <2>1. MemInv /\ UNCHANGED vars => MemInv'
    BY DEF MemInv, Owned, Held, vars, fixed, conn, local, answer, memory
  <2>2. MemInv /\ OtherSetenv => MemInv'
    BY DEF MemInv, Owned, Held, OtherSetenv, fixed, conn, local, answer, memory
  <2> QED BY <2>1, <2>2, ApplicationMemInv, Step1MemInv DEF Next
<1> QED BY TypeCorrect, <1>1, <1>2, PTL DEF Spec

(***************************************************************************)
(* Between two calls the allocated blocks are those the context points to, *)
(* and nothing is freed twice.                                             *)
(***************************************************************************)
THEOREM BlocksOwned == Spec => []Ownership
<1>1. MemInv => Ownership
  BY DEF MemInv, Ownership, Owned, Held, InStep
<1> QED BY MemoryInvariant, <1>1, PTL

(***************************************************************************)
(* A connection that was refused stays refused.                            *)
(***************************************************************************)
THEOREM RefusedForGood == Spec => []RefusalIsFinal
<1>1. MemInv => RefusalIsFinal
  BY DEF MemInv, RefusalIsFinal
<1> QED BY MemoryInvariant, <1>1, PTL

-----------------------------------------------------------------------------
\* The environment.

LEMMA FixedStay == Next => UNCHANGED <<faults, settings>>
<1> USE DEF fixed
<1>1. Application => UNCHANGED <<faults, settings>>
  BY DEF Application, MechNew, MechNewFails, Dispose, Step2, NoInput,
         NoBuffer, Receive
<1>2. Step1 => UNCHANGED <<faults, settings>>
  BY DEF Step1, BadMessage, CanonUser, CanonUserFails, SetProxies,
         Deserialize, DeserializeFails, GetIssuer, GetIssuerFails,
         CreateEnforcer, CreateEnforcerFails, AudListFails, TestEnforcer,
         TestEnforcerFails, GetScope, GetScopeAborts, GetScopeFails,
         CheckScope, CheckScopeFails, TryUserClaim, UserClaimFails, UserClaimsDone,
         TryGroupUser, TryGroupUserAborts, GroupUsersDone, Release, Accept,
         Refuse, RefuseFails, Abort
<1> QED BY <1>1, <1>2 DEF Next, OtherSetenv

\* No other step of this connection touches the environment.
LEMMA EnvKept ==
  ASSUME Next
  PROVE  SetProxies \/ OtherSetenv \/ env' = env
<1>1. Application => env' = env
  BY DEF Application, MechNew, MechNewFails, Dispose, Step2, NoInput,
         NoBuffer, Receive
<1>2. Step1 => SetProxies \/ env' = env
  BY DEF Step1, BadMessage, CanonUser, CanonUserFails,
         Deserialize, DeserializeFails, GetIssuer, GetIssuerFails,
         CreateEnforcer, CreateEnforcerFails, AudListFails, TestEnforcer,
         TestEnforcerFails, GetScope, GetScopeAborts, GetScopeFails,
         CheckScope, CheckScopeFails, TryUserClaim, UserClaimFails, UserClaimsDone,
         TryGroupUser, TryGroupUserAborts, GroupUsersDone, Release, Accept,
         Refuse, RefuseFails, Abort
<1> QED BY <1>1, <1>2 DEF Next

\* The library is only called after SetProxies.
LEMMA LibraryAfterProxies ==
  ASSUME Next, pc' \in {"deserialize"} \cup Issued
  PROVE  pc \in {"deserialize"} \cup Issued \/ SetProxies
<1> USE DEF Issued, Tested, Scoped
<1>1. ~Application
  BY DEF Application, MechNew, MechNewFails, Dispose, Step2, NoInput,
         NoBuffer, Receive, Called
<1>2. Step1 => pc \in {"deserialize"} \cup Issued \/ SetProxies
  BY DEF Step1, BadMessage, CanonUser, CanonUserFails,
         Deserialize, DeserializeFails, GetIssuer, GetIssuerFails,
         CreateEnforcer, CreateEnforcerFails, AudListFails, TestEnforcer,
         TestEnforcerFails, GetScope, GetScopeAborts, GetScopeFails, NoScope,
         CheckScope, CheckScopeFails, TryUserClaim, UserClaimFails, UserClaimsDone,
         TryGroupUser, TryGroupUserAborts, GroupUsersDone, Release, Accept,
         Refuse, RefuseFails, Abort, Out
<1>3. OtherSetenv => pc' = pc
  BY DEF OtherSetenv
<1> QED BY <1>1, <1>2, <1>3 DEF Next

(***************************************************************************)
(* When the library is called every proxy variable is set that has an      *)
(* option.                                                                 *)
(***************************************************************************)
THEOREM EnvInvariant == Spec => []EnvInv
<1>1. Init => EnvInv
  BY DEF Init, EnvInv, Issued, Tested, Scoped
<1>2. EnvInv /\ [Next]_vars => EnvInv'
  <2>1. EnvInv /\ UNCHANGED vars => EnvInv'
    BY DEF EnvInv, MayFail, ProxyOption, vars, fixed
  <2>2. ASSUME EnvInv, Next PROVE EnvInv'
    <3> SUFFICES ASSUME ~MayFail("malloc")', pc' \in {"deserialize"} \cup Issued,
                        NEW v \in EnvNames
                 PROVE  (env[v] # NULL \/ ProxyOption(v) = NULL)'
      BY DEF EnvInv
    <3>1. /\ ~MayFail("malloc") /\ ProxyOption(v)' = ProxyOption(v)
      BY <2>2, FixedStay DEF MayFail, ProxyOption
    <3>2. CASE SetProxies
      <4>1. env' = Exported(EnvNames)
        BY <3>1, <3>2 DEF SetProxies
      <4> QED BY <3>1, <4>1 DEF Exported
    <3>3. CASE ~SetProxies
      <4>1. env[v] # NULL \/ ProxyOption(v) = NULL
        BY <2>2, <3>1, <3>3, LibraryAfterProxies DEF EnvInv
      <4>2. env' = env \/ \E names : env' = Exported(names)
        BY <2>2, <3>3, EnvKept DEF OtherSetenv
      <4> QED BY <3>1, <4>1, <4>2 DEF Exported
    <3> QED BY <3>2, <3>3
  <2> QED BY <2>1, <2>2
<1> QED BY <1>1, <1>2, PTL DEF Spec

(***************************************************************************)
(* So nothing that other connections do changes it any more.               *)
(***************************************************************************)
THEOREM EnvSettled == Spec => EnvSettles
<1>1. TypeOK /\ EnvInv /\ [Next]_vars
        => [~MayFail("malloc") /\ pc \in {"deserialize"} \cup Issued
              => env' = env]_vars
  <2> SUFFICES ASSUME TypeOK, EnvInv, Next, ~MayFail("malloc"),
                      pc \in {"deserialize"} \cup Issued
               PROVE  env' = env
    OBVIOUS
  <2>1. ~SetProxies
    BY DEF SetProxies, Issued, Tested, Scoped
  <2>2. ASSUME OtherSetenv PROVE env' = env
    <3>1. PICK v \in EnvNames : env' = Exported({v})
      BY <2>2 DEF OtherSetenv
    <3>2. env[v] # NULL \/ ProxyOption(v) = NULL
      BY DEF EnvInv
    <3>3. \A x \in EnvNames : Exported({v})[x] = env[x]
      BY <3>2 DEF Exported
    <3>4. env = [x \in EnvNames |-> env[x]]
      BY DEF TypeOK, EnvOK
    <3> QED BY <3>1, <3>3, <3>4 DEF Exported
  <2> QED BY <2>1, <2>2, EnvKept
<1> QED BY <1>1, TypeCorrect, EnvInvariant, PTL DEF Spec, EnvSettles
-----------------------------------------------------------------------------
\* The checks of introspect_token.

\* What was checked stays checked while the options and the message stay.
LEMMA ChecksStay ==
  ASSUME UNCHANGED <<settings, req>>
  PROVE  /\ authid' = authid
         /\ Bearer(req)' <=> Bearer(req)
         /\ Deserializes' <=> Deserializes
         /\ EnforcerTest' <=> EnforcerTest
         /\ (jwt.scope # NULL)' <=> jwt.scope # NULL
         /\ ScopeOK' <=> ScopeOK
         /\ Granted' <=> Granted
<1>1. authid' = authid /\ jwt' = jwt
  BY DEF authid, jwt
<1>2. Deserializes' <=> Deserializes
  BY <1>1 DEF Deserializes
<1>3. EnforcerTest' <=> EnforcerTest
  BY <1>1 DEF EnforcerTest, AudList
<1>4. ScopeOK' <=> ScopeOK
  BY <1>1 DEF ScopeOK
<1>5. Granted' <=> Granted
  BY <1>1 DEF Granted, UserClaimHolds, GroupUserHolds
<1> QED BY <1>1, <1>2, <1>3, <1>4, <1>5

LEMMA NextWordInWordSet ==
  ASSUME NEW t, NEW n, NEW w \in NextWord(t, n)
  PROVE  SubSeq(t, w[1], w[2]) \in WordSet(t, Blanks)
BY DEF NextWord, WordSet

LEMMA ApplicationChecked ==
  ASSUME CheckInv, Application
  PROVE  CheckInv'
<1> USE DEF CheckInv, Scoped, Tested, Issued, fixed, conn, local, answer, Called,
            ErrorsReported
<1>1. CASE MechNew \/ MechNewFails \/ Dispose \/ Step2 \/ NoBuffer
  <2>1. /\ pc = "idle" /\ pc' = "idle"
        /\ ret' # "SASL_OK"
    BY <1>1 DEF MechNew, MechNewFails, Dispose, Step2, NoBuffer
  <2> QED BY <2>1
<1>2. CASE NoInput
  BY <1>2, ChecksStay DEF NoInput
<1>3. CASE Receive
  BY <1>3 DEF Receive
<1> QED BY <1>1, <1>2, <1>3 DEF Application

LEMMA IssuerIsText ==
  ASSUME settings \in Settings, Deserializes
  PROVE  jwt.iss # NULL /\ jwt.iss \in Texts
<1>1. settings.issuers \subseteq Texts
  BY ServerAssumption DEF SettingOK
<1>2. NULL \notin Texts
  BY DEF NULL, Texts
<1> QED BY <1>1, <1>2 DEF Deserializes

LEMMA Step1Checked ==
  ASSUME TypeOK, CheckInv, Step1
  PROVE  CheckInv'
<1> USE DEF CheckInv, Scoped, Tested, Issued, fixed, conn, local, answer
<1>1. CASE BadMessage
  BY <1>1 DEF BadMessage, Out
<1>2. CASE CanonUser
  BY <1>2, ChecksStay DEF CanonUser
<1>3. CASE CanonUserFails
  BY <1>3 DEF CanonUserFails
<1>4. CASE SetProxies
  BY <1>4, ChecksStay DEF SetProxies
<1>5. CASE Deserialize
  BY <1>5, ChecksStay DEF Deserialize
<1>6. CASE GetIssuer \/ CreateEnforcer
  BY <1>6, ChecksStay DEF GetIssuer, CreateEnforcer
<1>7. ErrorsReported' <=> ErrorsReported
  BY FixedStay DEF Next, ErrorsReported
<1>8. CASE GetIssuerFails \/ CreateEnforcerFails
  <2>1. ~ErrorsReported'
    <3>1. GetIssuerFails => jwt.iss # NULL
      BY IssuerIsText DEF GetIssuerFails, TypeOK
    <3> QED BY <1>7, <1>8, <3>1
            DEF GetIssuerFails, CreateEnforcerFails, ErrorsReported, MayFail
  <2>2. pc' = "accept"
    BY <1>8 DEF GetIssuerFails, CreateEnforcerFails, IntrospectReturns
  <2> QED BY <2>1, <2>2
<1>9. CASE AudListFails \/ GetScopeAborts \/ TryGroupUserAborts
  BY <1>9 DEF AudListFails, GetScopeAborts, TryGroupUserAborts, Abort
<1>10. CASE TestEnforcer
  BY <1>10, ChecksStay DEF TestEnforcer
<1>11. CASE GetScope
  BY <1>11, ChecksStay DEF GetScope
<1>12. CASE CheckScope
  <2>1. ScopeOK'
    BY <1>12, ChecksStay DEF CheckScope, ScopeOK
  <2> QED BY <1>12, <2>1, ChecksStay DEF CheckScope
<1>13. CASE \/ DeserializeFails \/ TestEnforcerFails \/ GetScopeFails
            \/ CheckScopeFails
  BY <1>13 DEF DeserializeFails, TestEnforcerFails, GetScopeFails, NoScope,
               CheckScopeFails, IntrospectReturns
<1>14. CASE TryUserClaim
  <2>1. PICK w \in NextWord(settings.user_claim, cursor) :
          LET e == UserClaim(SubSeq(settings.user_claim, w[1], w[2]))
          IN  /\ user_ok' = (IF UserClaimHolds(e) THEN 1 ELSE 0)
              /\ pc' = IF UserClaimHolds(e) THEN "release" ELSE "user_claim"
    BY <1>14 DEF TryUserClaim
  <2>2. user_ok' = 1 => Granted
    BY <2>1, NextWordInWordSet DEF Granted
  <2>3. pc = "user_claim" /\ IF user_ok' = 1 THEN pc' = "release"
                                           ELSE pc' = "user_claim"
    BY <1>14, <2>1 DEF TryUserClaim
  <2>4. UNCHANGED <<settings, req, canon, ret>>
    BY <1>14 DEF TryUserClaim
  <2>5. user_ok' \in {0, 1}
    BY <2>1
  <2> QED BY <2>2, <2>3, <2>4, <2>5, ChecksStay
<1>15. CASE UserClaimFails \/ UserClaimsDone
  BY <1>15, ChecksStay DEF UserClaimFails, UserClaimsDone
<1>16. CASE TryGroupUser
  <2>1. PICK w \in NextWord(settings.group_user, cursor) :
          LET e == GroupUser(SubSeq(settings.group_user, w[1], w[2]))
          IN  /\ e.iss # NULL
              /\ user_ok' = (IF GroupUserHolds(e) THEN 1 ELSE 0)
              /\ pc' = IF GroupUserHolds(e) THEN "release" ELSE "group_user"
    BY <1>16 DEF TryGroupUser
  <2>2. user_ok' = 1 => Granted
    BY <2>1, NextWordInWordSet DEF Granted
  <2>3. pc = "group_user" /\ IF user_ok' = 1 THEN pc' = "release"
                                           ELSE pc' = "group_user"
    BY <1>16, <2>1 DEF TryGroupUser
  <2>4. UNCHANGED <<settings, req, canon, ret>>
    BY <1>16 DEF TryGroupUser
  <2>5. user_ok' \in {0, 1}
    BY <2>1
  <2> QED BY <2>2, <2>3, <2>4, <2>5, ChecksStay
<1>17. CASE GroupUsersDone
  BY <1>17, ChecksStay DEF GroupUsersDone
<1>18. CASE Release
  <2>1. pc' = "accept" => user_ok = 1
    BY <1>18 DEF Release, IntrospectReturns
  <2>2. pc' \in {"accept", "refuse"}
    BY <1>18 DEF Release, IntrospectReturns
  <2> QED BY <1>18, <2>1, <2>2, ChecksStay DEF Release
<1>19. CASE Accept
  BY <1>7, <1>19, ChecksStay DEF Accept, Out
<1>20. CASE Refuse \/ RefuseFails
  BY <1>20 DEF Refuse, RefuseFails
<1> QED BY <1>1, <1>2, <1>3, <1>4, <1>5, <1>6, <1>7, <1>8, <1>9, <1>10,
           <1>11, <1>12, <1>13, <1>14, <1>15, <1>16, <1>17, <1>18, <1>19,
           <1>20 DEF Step1

(***************************************************************************)
(* What a step has found so far, in the terms of the code.                 *)
(***************************************************************************)
THEOREM ChecksInvariant == Spec => []CheckInv
<1>1. Init => CheckInv
  BY DEF Init, CheckInv, Scoped, Tested, Issued
<1>2. TypeOK /\ CheckInv /\ [Next]_vars => CheckInv'
  <2>1. CheckInv /\ UNCHANGED vars => CheckInv'
    <3>1. UNCHANGED vars =>
            UNCHANGED <<faults, settings, req, pc, canon, ret, user_ok>>
      BY DEF vars, fixed, local, answer
    <3> QED BY <3>1, ChecksStay
            DEF CheckInv, Scoped, Tested, Issued, ErrorsReported
  <2>2. TypeOK /\ CheckInv /\ Next => CheckInv'
    <3>1. CheckInv /\ OtherSetenv => CheckInv'
      BY ChecksStay DEF OtherSetenv, CheckInv, Scoped, Tested, Issued, fixed,
                        local, answer, ErrorsReported
    <3> QED BY <3>1, FixedStay, ApplicationChecked, Step1Checked
            DEF Next
  <2> QED BY <2>1, <2>2
<1> QED BY TypeCorrect, <1>1, <1>2, PTL DEF Spec

-----------------------------------------------------------------------------
\* What the code cuts out of the options, and what the options mean.

LEMMA MinIsLeast ==
  ASSUME NEW S \in SUBSET Nat, S # {}
  PROVE  Min(S) \in S /\ \A y \in S : Min(S) <= y
<1>1. PICK x \in S : \A y \in S : ~ (<<y, x>> \in OpToRel(<, Nat))
  BY WFMin, NatLessThanWellFounded, Zenon
<1>2. ASSUME NEW y \in S PROVE x <= y
  <2>1. x \in Nat /\ y \in Nat /\ <<y, x>> \in Nat \X Nat
    OBVIOUS
  <2>2. ~ (y < x)
    BY <1>1, <2>1 DEF OpToRel
  <2> QED BY <2>1, <2>2
<1> QED BY <1>2 DEF Min

\* BarAt is the first bar.
LEMMA BarIsFirst ==
  ASSUME NEW t \in Texts
  PROVE  /\ BarAt(t) \in 0 .. Len(t)
         /\ BarAt(t) # 0 => t[BarAt(t)] = BAR
         /\ \A k \in 1 .. Len(t) : k < BarAt(t) => t[k] # BAR
<1>1. Bars(t) \in SUBSET Nat /\ Len(t) \in Nat
  BY DEF Bars, Texts
<1>2. CASE Bars(t) = {}
  BY <1>1, <1>2 DEF BarAt
<1>3. CASE Bars(t) # {}
  <2>1. BarAt(t) \in Bars(t) /\ \A y \in Bars(t) : BarAt(t) <= y
    BY <1>1, <1>3, MinIsLeast DEF BarAt
  <2> QED BY <1>1, <2>1 DEF Bars
<1> QED BY <1>2, <1>3

LEMMA PartIsText ==
  ASSUME NEW t \in Texts, NEW a \in 1 .. Len(t) + 1, NEW b \in 0 .. Len(t)
  PROVE  /\ SubSeq(t, a, b) \in Texts
         /\ SubSeq(t, a, b) # NULL
         /\ Len(SubSeq(t, a, b)) = IF a <= b THEN b - a + 1 ELSE 0
         /\ \A k \in 1 .. b - a + 1 : SubSeq(t, a, b)[k] = t[a + k - 1]
<1>1. \A k \in a .. b : t[k] \in STRING \ {"(null)"}
  BY DEF Texts
<1>2. SubSeq(t, a, b) \in Texts
  BY <1>1, SubSeqProperties DEF Texts
<1>3. NULL \notin Texts
  BY DEF NULL, Texts
<1>4. /\ Len(SubSeq(t, a, b)) = IF a <= b THEN b - a + 1 ELSE 0
      /\ \A k \in 1 .. b - a + 1 : SubSeq(t, a, b)[k] = t[a + k - 1]
  BY <1>1, SubSeqProperties
<1> QED BY <1>2, <1>3, <1>4

LEMMA PartOfPart ==
  ASSUME NEW t \in Texts, NEW i \in 1 .. Len(t), NEW j \in 1 .. Len(t),
         NEW m \in 1 .. j - i + 1, NEW n \in 1 .. j - i + 1
  PROVE  SubSeq(SubSeq(t, i, j), m, n) = SubSeq(t, i + m - 1, i + n - 1)
BY SubSeqOfSubSeq DEF Texts

LEMMA WordsAreTexts ==
  ASSUME NEW t \in Texts, NEW seps, NEW w \in WordSet(t, seps)
  PROVE  w \in Texts
<1>1. PICK p \in (1 .. Len(t)) \X (1 .. Len(t)) : w = SubSeq(t, p[1], p[2])
  BY DEF WordSet
<1>2. Len(t) \in Nat
  BY DEF Texts
<1> QED BY <1>1, <1>2, PartIsText

(***************************************************************************)
(* An entry of xoauth2_user_claim that the loop takes grants access.       *)
(***************************************************************************)
LEMMA UserClaimGrants ==
  ASSUME NEW e \in Texts, UserClaimHolds(UserClaim(e))
  PROVE  ClaimGrants(e, jwt, authid)
<1> DEFINE b == BarAt(e)
<1>1. /\ BeforeBar(e) \in DOMAIN jwt.claims
      /\ jwt.claims[BeforeBar(e)] = authid
      /\ AfterBar(e) = NULL \/ AfterBar(e) = jwt.iss
  BY DEF UserClaimHolds, UserClaim
<1>2. CASE b = 0
  BY <1>1, <1>2 DEF ClaimGrants, BeforeBar
<1>3. CASE b # 0
  <2>1. b \in 1 .. Len(e) /\ e[b] = BAR /\ Len(e) \in Nat
    BY <1>3, BarIsFirst DEF Texts
  <2>2. /\ BeforeBar(e) = SubSeq(e, 1, b - 1)
        /\ AfterBar(e) = SubSeq(e, b + 1, Len(e))
    BY <1>3 DEF BeforeBar, AfterBar
  <2>3. AfterBar(e) = jwt.iss
    <3>1. SubSeq(e, b + 1, Len(e)) # NULL
      <4>1. b + 1 \in 1 .. Len(e) + 1 /\ Len(e) \in 0 .. Len(e)
        BY <2>1
      <4> QED BY <4>1, PartIsText
    <3> QED BY <1>1, <2>2, <3>1
  <2>4. e = BeforeBar(e) \o <<BAR>> \o jwt.iss
    <3>1. SubSeq(e, b, b) = <<BAR>>
      <4>1. /\ SubSeq(e, b, b) \in Seq(STRING \ {"(null)"})
            /\ Len(SubSeq(e, b, b)) = 1
            /\ SubSeq(e, b, b)[1] = BAR
        BY <2>1, PartIsText DEF Texts
      <4>2. \A s \in Seq(STRING \ {"(null)"}) : Len(s) = 1 => s = <<s[1]>>
        OBVIOUS
      <4> QED BY <4>1, <4>2
    <3>2. /\ SubSeq(e, 1, b - 1) \o SubSeq(e, b, b) = SubSeq(e, 1, b)
          /\ SubSeq(e, 1, b) \o SubSeq(e, b + 1, Len(e)) = SubSeq(e, 1, Len(e))
          /\ SubSeq(e, 1, Len(e)) = e
      <4>1. e \in Seq(STRING \ {"(null)"})
        BY DEF Texts
      <4>2. /\ 1 \in 1 .. Len(e) + 1 /\ b - 1 \in 1 - 1 .. Len(e)
            /\ b \in b - 1 .. Len(e) /\ (b - 1) + 1 = b
            /\ b \in 1 - 1 .. Len(e) /\ Len(e) \in b .. Len(e)
        BY <2>1
      <4>3. SubSeq(e, 1, b - 1) \o SubSeq(e, (b - 1) + 1, b) = SubSeq(e, 1, b)
        BY <4>1, <4>2, ConcatAdjacentSubSeq
      <4> QED BY <4>1, <4>2, <4>3, ConcatAdjacentSubSeq, SubSeqFull
    <3> QED BY <2>2, <2>3, <3>1, <3>2
  <2> QED BY <1>1, <2>4 DEF ClaimGrants
<1> QED BY <1>2, <1>3

LEMMA WordsHaveNoBlanks ==
  ASSUME NEW t \in Texts, NEW w \in WordSet(t, Blanks)
  PROVE  \A k \in 1 .. Len(w) : w[k] \notin Blanks
<1>1. PICK p \in (1 .. Len(t)) \X (1 .. Len(t)) :
        w = SubSeq(t, p[1], p[2]) /\ IsWord(t, Blanks, p[1], p[2])
  BY DEF WordSet
<1> DEFINE a == p[1]  b == p[2]
<1>2. /\ a \in 1 .. Len(t) + 1 /\ b \in 0 .. Len(t) /\ a <= b
      /\ Len(t) \in Nat
      /\ \A k \in a .. b : t[k] \notin Blanks
  BY <1>1 DEF IsWord, Texts
<1>3. /\ Len(w) = b - a + 1
      /\ \A k \in 1 .. b - a + 1 : w[k] = t[a + k - 1]
  BY <1>1, <1>2, PartIsText
<1> HIDE DEF a, b
<1>4. \A k \in 1 .. b - a + 1 : a + k - 1 \in a .. b
  BY <1>2
<1> QED BY <1>2, <1>3, <1>4

LEMMA OneWord ==
  ASSUME NEW t \in Texts, \A k \in 1 .. Len(t) : t[k] \notin Blanks,
         NEW w \in WordSet(t, Blanks)
  PROVE  w = t
<1>1. PICK p \in (1 .. Len(t)) \X (1 .. Len(t)) :
        w = SubSeq(t, p[1], p[2]) /\ IsWord(t, Blanks, p[1], p[2])
  BY DEF WordSet
<1>2. p[1] \in 1 .. Len(t) /\ p[2] \in 1 .. Len(t) /\ Len(t) \in Nat
  BY DEF Texts
<1>3. p[1] = 1 /\ p[2] = Len(t)
  <2>1. p[1] # 1 => p[1] - 1 \in 1 .. Len(t)
    BY <1>2
  <2>2. p[2] # Len(t) => p[2] + 1 \in 1 .. Len(t)
    BY <1>2
  <2> QED BY <1>1, <2>1, <2>2 DEF IsWord
<1>4. SubSeq(t, 1, Len(t)) = t
  BY SubSeqFull DEF Texts
<1> QED BY <1>1, <1>3, <1>4

LEMMA SpacesAreBlanks ==
  ASSUME NEW t \in Texts, \A n \in 1 .. Len(t) : t[n] # TAB
  PROVE  WordSet(t, {SP}) \subseteq WordSet(t, Blanks)
<1>1. ASSUME NEW a \in 1 .. Len(t), NEW b \in 1 .. Len(t),
             IsWord(t, {SP}, a, b)
      PROVE  IsWord(t, Blanks, a, b)
  <2>1. Len(t) \in Nat
    BY DEF Texts
  <2>2. \A k \in a .. b : k \in 1 .. Len(t)
    BY <2>1
  <2> QED BY <1>1, <2>1, <2>2 DEF IsWord, Blanks
<1> QED BY <1>1 DEF WordSet

(***************************************************************************)
(* An entry of xoauth2_group_user that the loop takes grants access.       *)
(***************************************************************************)
LEMMA GroupUserGrants ==
  ASSUME NEW e \in Texts, \A k \in 1 .. Len(e) : e[k] \notin Blanks,
         GroupUserHolds(GroupUser(e)), GroupUser(e).iss # NULL
  PROVE  GroupGrants(e, jwt, authid)
<1> DEFINE a == BarAt(e)
           rest == AfterBar(e)
           c == BarAt(rest)
           b == a + c
           n == Len(e)
<1>1. rest # NULL
  BY DEF GroupUser
<1>2. /\ a \in 1 .. n /\ n \in Nat /\ e[a] = BAR
      /\ \A k \in 1 .. n : k < a => e[k] # BAR
      /\ rest = SubSeq(e, a + 1, n)
  <2>1. a # 0 /\ rest = SubSeq(e, a + 1, n)
    BY <1>1 DEF AfterBar
  <2> QED BY <2>1, BarIsFirst DEF Texts
<1>3. /\ rest \in Texts
      /\ Len(rest) = n - a
      /\ \A k \in 1 .. n - a : rest[k] = e[a + k]
  <2>1. a + 1 \in 1 .. Len(e) + 1 /\ Len(e) \in 0 .. Len(e)
    BY <1>2
  <2>2. /\ rest \in Texts
        /\ Len(rest) = IF a + 1 <= n THEN n - (a + 1) + 1 ELSE 0
        /\ \A k \in 1 .. n - (a + 1) + 1 : rest[k] = e[(a + 1) + k - 1]
    BY <1>2, <2>1, PartIsText
  <2> HIDE DEF a, n, rest
  <2> QED BY <1>2, <2>2
<1>4. /\ GroupUser(e).iss = AfterBar(rest)
      /\ GroupUser(e).authority = BeforeBar(rest)
      /\ GroupUser(e).group = BeforeBar(e)
  BY <1>1 DEF GroupUser
<1>5. /\ c \in 1 .. n - a /\ rest[c] = BAR
      /\ \A k \in 1 .. n - a : k < c => rest[k] # BAR
      /\ AfterBar(rest) = SubSeq(rest, c + 1, n - a)
      /\ BeforeBar(rest) = SubSeq(rest, 1, c - 1)
  <2>1. c # 0
    BY <1>4 DEF AfterBar
  <2>2. /\ c \in 0 .. Len(rest) /\ rest[c] = BAR
        /\ \A k \in 1 .. Len(rest) : k < c => rest[k] # BAR
    BY <1>3, <2>1, BarIsFirst
  <2>3. /\ AfterBar(rest) = SubSeq(rest, c + 1, Len(rest))
        /\ BeforeBar(rest) = SubSeq(rest, 1, c - 1)
    BY <2>1 DEF AfterBar, BeforeBar
  <2> HIDE DEF a, c, n, rest
  <2>4. c \in 1 .. n - a
    BY <1>2, <1>3, <2>1, <2>2
  <2> QED BY <1>3, <2>1, <2>2, <2>3, <2>4
<1>6. BeforeBar(e) = SubSeq(e, 1, a - 1)
  BY <1>2 DEF BeforeBar
<1>7. /\ BeforeBar(rest) # <<>> /\ AfterBar(rest) # <<>>
      /\ BeforeBar(e) = authid
      /\ Matches(jwt.iss, AfterBar(rest))
      /\ HasStr(jwt.scope, BeforeBar(rest))
  BY <1>4 DEF GroupUserHolds
<1> HIDE DEF a, b, c, n, rest
<1>8. c # 1 /\ c # n - a
  <2>1. c = 1 => SubSeq(rest, 1, c - 1) = <<>>
    BY SubSeqEmpty
  <2>2. c = n - a => SubSeq(rest, c + 1, n - a) = <<>>
    BY <1>2, <1>5, SubSeqEmpty
  <2> QED BY <1>5, <1>7, <2>1, <2>2
<1>9. a + 1 < b /\ b < n /\ a \in 1 .. n /\ b \in 1 .. n
  BY <1>2, <1>5, <1>8 DEF b
<1>10. {k \in 1 .. b : e[k] = BAR} = {a, b}
  <2>1. e[b] = BAR
    BY <1>2, <1>3, <1>5 DEF b
  <2>2. ASSUME NEW k \in 1 .. b, e[k] = BAR PROVE k = a \/ k = b
    <3>1. ~ (k < a)
      BY <1>2, <1>9, <2>2
    <3>2. CASE k > a /\ k < b
      <4>1. /\ k - a \in 1 .. n - a /\ k - a < c /\ a + (k - a) = k
        BY <1>2, <1>5, <1>9, <3>2 DEF b
      <4>2. rest[k - a] = e[k]
        BY <1>3, <4>1
      <4> QED BY <1>5, <2>2, <4>1, <4>2
    <3> QED BY <1>2, <1>9, <3>1, <3>2
  <2> QED BY <1>2, <1>9, <2>1, <2>2
<1>11. /\ BeforeBar(rest) = SubSeq(e, a + 1, b - 1)
       /\ AfterBar(rest) = SubSeq(e, b + 1, n)
  <2>1. /\ a \in Int /\ n \in Int /\ c \in Int /\ b = a + c
        /\ 1 <= a /\ 2 <= c /\ c + 1 <= n - a
    BY <1>2, <1>5, <1>8 DEF b
  <2>2. a + 1 \in 1 .. Len(e) /\ n \in 1 .. Len(e)
    BY <2>1 DEF n
  <2>3. /\ 1 \in 1 .. n - (a + 1) + 1 /\ c - 1 \in 1 .. n - (a + 1) + 1
        /\ c + 1 \in 1 .. n - (a + 1) + 1 /\ n - a \in 1 .. n - (a + 1) + 1
    BY <2>1
  <2>4. /\ (a + 1) + 1 - 1 = a + 1 /\ (a + 1) + (c - 1) - 1 = b - 1
        /\ (a + 1) + (c + 1) - 1 = b + 1 /\ (a + 1) + (n - a) - 1 = n
    BY <2>1
  <2>5. /\ SubSeq(SubSeq(e, a + 1, n), 1, c - 1)
             = SubSeq(e, (a + 1) + 1 - 1, (a + 1) + (c - 1) - 1)
        /\ SubSeq(SubSeq(e, a + 1, n), c + 1, n - a)
             = SubSeq(e, (a + 1) + (c + 1) - 1, (a + 1) + (n - a) - 1)
    BY <2>2, <2>3, PartOfPart
  <2> QED BY <1>2, <1>5, <2>4, <2>5
<1>12. \E w \in WordSet(jwt.scope, Blanks) : Matches(w, BeforeBar(rest))
  <2>1. PICK w \in WordSet(jwt.scope, Blanks),
             p \in WordSet(BeforeBar(rest), Blanks) : Matches(w, p)
    BY <1>7 DEF HasStr
  <2>2. BeforeBar(rest) \in Texts
    BY <1>9, <1>11, PartIsText DEF n
  <2>3. \A k \in 1 .. Len(BeforeBar(rest)) : BeforeBar(rest)[k] \notin Blanks
    <3>1. /\ a + 1 \in 1 .. Len(e) + 1 /\ b - 1 \in 0 .. Len(e)
          /\ a + 1 <= b - 1
      BY <1>9, <1>2 DEF n
    <3>2. /\ Len(BeforeBar(rest)) = (b - 1) - (a + 1) + 1
          /\ \A k \in 1 .. (b - 1) - (a + 1) + 1 :
               BeforeBar(rest)[k] = e[(a + 1) + k - 1]
      BY <1>11, <3>1, PartIsText
    <3>3. \A k \in 1 .. (b - 1) - (a + 1) + 1 : (a + 1) + k - 1 \in 1 .. n
      BY <1>2, <1>9
    <3> QED BY <3>2, <3>3 DEF n
  <2>4. p = BeforeBar(rest)
    BY <2>2, <2>3, OneWord
  <2> QED BY <2>1, <2>4
<1> QED BY <1>6, <1>7, <1>9, <1>10, <1>11, <1>12 DEF GroupGrants, n

(***************************************************************************)
(* A token that passes the checks of the code permits the user.            *)
(***************************************************************************)
LEMMA ChecksPermit ==
  ASSUME SpacedAuds, TypeOK,
         Deserializes, EnforcerTest, ScopeOK, Granted
  PROVE  PermittedReq
<1>1. SettingOK(settings)
  BY ServerAssumption DEF TypeOK
<1>2. /\ settings.aud \in Texts
      /\ settings.user_claim \in Texts
      /\ settings.group_user \in Texts
  BY <1>1 DEF SettingOK
<1>3. jwt.aud \cap WordSet(settings.aud, Blanks) # {}
  <2>1. WordSet(settings.aud, {SP}) \subseteq WordSet(settings.aud, Blanks)
    BY <1>2, SpacesAreBlanks DEF SpacedAuds, TypeOK
  <2> QED BY <2>1 DEF EnforcerTest, AudList
<1>4. \/ \E e \in WordSet(settings.user_claim, Blanks) :
          ClaimGrants(e, jwt, authid)
      \/ \E e \in WordSet(settings.group_user, Blanks) :
          GroupGrants(e, jwt, authid)
  <2>1. CASE \E e \in WordSet(settings.user_claim, Blanks) :
               UserClaimHolds(UserClaim(e))
    BY <1>2, <2>1, WordsAreTexts, UserClaimGrants
  <2>2. CASE \E e \in WordSet(settings.group_user, Blanks) :
               GroupUserHolds(GroupUser(e)) /\ GroupUser(e).iss # NULL
    BY <1>2, <2>2, WordsAreTexts, WordsHaveNoBlanks, GroupUserGrants
  <2> QED BY <2>1, <2>2 DEF Granted
<1>5. \E w \in WordSet(jwt.scope, Blanks),
         p \in WordSet(settings.scope, Blanks) : Matches(w, p)
  BY DEF ScopeOK, HasStr
<1> QED BY <1>3, <1>4, <1>5 DEF PermittedReq, Permitted, Verified, ForUs,
                                ScopeGranted, Deserializes, ScopeOK

(***************************************************************************)
(* A step succeeds only for a user whom the options permit, whatever the   *)
(* tokens, the options and the messages are and whatever else fails.       *)
(***************************************************************************)
THEOREM OnlyPermitted ==
  ASSUME SpacedAuds
  PROVE  Spec => []FailsClosed
<1>1. TypeOK /\ CheckInv => FailsClosed
  BY ChecksPermit DEF CheckInv, FailsClosed, AcceptsPermitted
<1> QED BY TypeCorrect, ChecksInvariant, <1>1, PTL
-----------------------------------------------------------------------------
(***************************************************************************)
(* The other half of the server's verdict: a permitted user is not refused *)
(* unless a call fails, whatever the words of the options and their order. *)
(* With it, that a connection keeps what ServerRole promises.              *)
(***************************************************************************)

\* The loops over the words of an option.

LEMMA PassedStep ==
  ASSUME NEW t \in Texts, NEW n \in Nat \ {0}, Between(t, n),
         NEW w \in NextWord(t, n)
  PROVE  /\ Between(t, w[2] + 1)
         /\ \A e \in Passed(t, w[2] + 1) :
              e \in Passed(t, n) \/ e = SubSeq(t, w[1], w[2])
<1> DEFINE c == w[1]  d == w[2]
<1>1. /\ c \in 1 .. Len(t) /\ d \in 1 .. Len(t) /\ Len(t) \in Nat
      /\ n <= c /\ IsWord(t, Blanks, c, d)
      /\ \A k \in n .. c - 1 : t[k] \in Blanks
  BY DEF NextWord, Texts
<1>2. Between(t, d + 1)
  BY <1>1 DEF IsWord, Between
<1>3. ASSUME NEW a \in 1 .. Len(t), NEW b \in 1 .. Len(t),
             IsWord(t, Blanks, a, b), b < d + 1, ~ (b < n)
      PROVE  a = c /\ b = d
  <2>1. a >= n
    <3> SUFFICES ASSUME a < n PROVE FALSE
      BY <1>1
    <3>1. n \in a .. b /\ n # 1 /\ ~ (n > Len(t))
      BY <1>1, <1>3
    <3> QED BY <1>3, <3>1 DEF IsWord, Between
  <2> HIDE DEF c, d
  <2>2. a >= c
    <3> SUFFICES ASSUME a < c PROVE FALSE
      BY <1>1
    <3>1. a \in n .. c - 1 /\ a \in a .. b
      BY <1>1, <1>3, <2>1 DEF IsWord
    <3> QED BY <1>1, <1>3, <3>1 DEF IsWord
  <2>3. a = c
    <3> SUFFICES ASSUME a > c PROVE FALSE
      BY <1>1, <2>2
    <3>1. a - 1 \in c .. d /\ a # 1
      BY <1>1, <1>3 DEF IsWord
    <3> QED BY <1>1, <1>3, <3>1 DEF IsWord
  <2>4. b = d
    <3> SUFFICES ASSUME b < d PROVE FALSE
      BY <1>1, <1>3
    <3>1. b + 1 \in c .. d /\ b # Len(t)
      BY <1>1, <1>3, <2>3 DEF IsWord
    <3> QED BY <1>1, <1>3, <3>1 DEF IsWord
  <2> QED BY <2>3, <2>4
<1> HIDE DEF c, d
<1>4. ASSUME NEW e \in Passed(t, d + 1) PROVE e \in Passed(t, n) \/ e = SubSeq(t, c, d)
  <2>1. PICK p \in (1 .. Len(t)) \X (1 .. Len(t)) :
          /\ e = SubSeq(t, p[1], p[2])
          /\ IsWord(t, Blanks, p[1], p[2]) /\ p[2] < d + 1
    BY <1>4 DEF Passed
  <2>2. CASE p[2] < n
    BY <2>1, <2>2 DEF Passed
  <2>3. CASE ~ (p[2] < n)
    BY <1>3, <2>1, <2>3
  <2> QED BY <2>2, <2>3
<1> QED BY <1>2, <1>4 DEF c, d

\* A symbol that is no blank is in some word, so that one follows.
LEMMA WordFollows ==
  ASSUME NEW t \in Texts, NEW n \in Nat \ {0}, Between(t, n),
         NEW k \in n .. Len(t), t[k] \notin Blanks
  PROVE  NextWord(t, n) # {}
<1> DEFINE starts == {j \in n .. Len(t) : t[j] \notin Blanks}
           a == Min(starts)
           ends == {j \in a .. Len(t) : j = Len(t) \/ t[j + 1] \in Blanks}
           b == Min(ends)
<1>1. Len(t) \in Nat
  BY DEF Texts
<1>2. a \in starts /\ \A j \in starts : a <= j
  <2>1. starts \in SUBSET Nat /\ k \in starts
    BY <1>1
  <2> QED BY <2>1, MinIsLeast
<1>3. /\ a \in n .. Len(t) /\ t[a] \notin Blanks
      /\ \A j \in n .. a - 1 : t[j] \in Blanks
  <2>1. a \in n .. Len(t) /\ t[a] \notin Blanks
    BY <1>2
  <2>2. \A j \in n .. Len(t) : t[j] \notin Blanks => a <= j
    BY <1>2
  <2> HIDE DEF a
  <2> QED BY <1>1, <2>1, <2>2
<1> HIDE DEF a
<1>4. b \in ends /\ \A j \in ends : b <= j
  <2>1. ends \in SUBSET Nat /\ Len(t) \in ends
    BY <1>1, <1>3
  <2> QED BY <2>1, MinIsLeast
<1>5. /\ b \in a .. Len(t)
      /\ b = Len(t) \/ t[b + 1] \in Blanks
      /\ \A j \in a .. Len(t) : j = Len(t) \/ t[j + 1] \in Blanks => b <= j
  BY <1>4
<1> HIDE DEF b
<1>6. \A j \in a .. b : t[j] \notin Blanks
  <2> SUFFICES ASSUME NEW j \in a .. b, t[j] \in Blanks PROVE FALSE
    OBVIOUS
  <2>1. j # a /\ a \in Int /\ b \in Int /\ b <= Len(t)
    BY <1>1, <1>3, <1>5
  <2>2. PICK i \in a .. Len(t) : j = i + 1 /\ i < b
    <3>1. j - 1 \in a .. Len(t) /\ j = (j - 1) + 1 /\ j - 1 < b
      BY <1>1, <2>1
    <3> QED BY <3>1
  <2>3. b <= i
    BY <1>5, <2>2
  <2> QED BY <2>1, <2>2, <2>3
<1>7. a = 1 \/ t[a - 1] \in Blanks
  <2>1. CASE a = n
    <3>1. t[a] \notin Blanks /\ ~ (n > Len(t))
      BY <1>1, <1>3
    <3> QED BY <2>1, <3>1 DEF Between
  <2>2. CASE a # n
    BY <1>1, <1>3, <2>2
  <2> QED BY <2>1, <2>2
<1>8. a \in 1 .. Len(t) /\ b \in 1 .. Len(t) /\ a <= b /\ n <= a
  BY <1>1, <1>3, <1>5
<1>9. IsWord(t, Blanks, a, b)
  BY <1>5, <1>6, <1>7, <1>8 DEF IsWord
<1>10. <<a, b>> \in NextWord(t, n)
  <2> DEFINE p == <<a, b>>
  <2>1. p \in (1 .. Len(t)) \X (1 .. Len(t)) /\ p[1] = a /\ p[2] = b
    BY <1>8
  <2> HIDE DEF p
  <2> QED BY <1>3, <1>8, <1>9, <2>1 DEF NextWord
<1> QED BY <1>10

LEMMA AllPassed ==
  ASSUME NEW t \in Texts, NEW n \in Nat \ {0}, Between(t, n),
         NextWord(t, n) = {}
  PROVE  WordSet(t, Blanks) \subseteq Passed(t, n)
<1> SUFFICES ASSUME NEW e \in WordSet(t, Blanks) PROVE e \in Passed(t, n)
  OBVIOUS
<1>1. PICK p \in (1 .. Len(t)) \X (1 .. Len(t)) :
        e = SubSeq(t, p[1], p[2]) /\ IsWord(t, Blanks, p[1], p[2])
  BY DEF WordSet
<1>2. p[2] < n
  <2> SUFFICES ASSUME ~ (p[2] < n) PROVE FALSE
    OBVIOUS
  <2>1. p[2] \in n .. Len(t) /\ t[p[2]] \notin Blanks
    BY <1>1 DEF IsWord, Texts
  <2> QED BY <2>1, WordFollows
<1> QED BY <1>1, <1>2 DEF Passed

\* No word ends before the first turn.
LEMMA NonePassed ==
  ASSUME NEW t
  PROVE  Between(t, 1) /\ Passed(t, 1) = {}
BY DEF Between, Passed
-----------------------------------------------------------------------------
\* What a refusal means, in the terms of the code.

LEMMA HoldsStay ==
  ASSUME UNCHANGED <<settings, req, faults>>
  PROVE  /\ authid' = authid
         /\ Bearer(req)' <=> Bearer(req)
         /\ AllChecks' <=> AllChecks
         /\ Granted' <=> Granted
         /\ \A e : UserClaimHolds(e)' <=> UserClaimHolds(e)
         /\ \A e : GroupUserHolds(e)' <=> GroupUserHolds(e)
         /\ \A words : NoClaim(words)' <=> NoClaim(words)
         /\ \A words : NoGroup(words)' <=> NoGroup(words)
         /\ MayFail("claim")' <=> MayFail("claim")
<1>1. authid' = authid /\ jwt' = jwt
  BY DEF authid, jwt
<1>2. /\ \A e : UserClaimHolds(e)' <=> UserClaimHolds(e)
      /\ \A e : GroupUserHolds(e)' <=> GroupUserHolds(e)
  BY <1>1 DEF UserClaimHolds, GroupUserHolds
<1>3. /\ \A words : NoClaim(words)' <=> NoClaim(words)
      /\ \A words : NoGroup(words)' <=> NoGroup(words)
  BY <1>2 DEF NoClaim, NoGroup, MayFail
<1>4. MayFail("claim")' <=> MayFail("claim")
  BY DEF MayFail
<1> QED BY <1>1, <1>2, <1>3, <1>4, ChecksStay DEF AllChecks

LEMMA OptionTexts ==
  ASSUME TypeOK
  PROVE  /\ settings.user_claim \in Texts /\ settings.group_user \in Texts
         /\ settings.aud \in Texts
BY ServerAssumption DEF TypeOK, SettingOK

LEMMA ApplicationRefuseInv ==
  ASSUME TypeOK, MemInv, RefuseInv, Application
  PROVE  RefuseInv'
<1> USE DEF RefuseInv, InStep, NoContext, fixed, conn, local, answer, Called
<1>1. CASE MechNew \/ MechNewFails \/ Dispose \/ NoInput \/ NoBuffer
  <2>1. pc' \in {"idle", "aborted"} /\ state' # 1
    BY <1>1 DEF MechNew, MechNewFails, Dispose, NoInput, NoBuffer
  <2> QED BY <2>1
<1>2. CASE Step2
  BY <1>2, HoldsStay DEF Step2
<1>3. CASE Receive
  BY <1>3 DEF Receive
<1> QED BY <1>1, <1>2, <1>3 DEF Application

LEMMA ClaimTurnRefuseInv ==
  ASSUME TypeOK, MemInv, RefuseInv, TryUserClaim
  PROVE  RefuseInv'
<1> DEFINE t == settings.user_claim
<1>1. PICK w \in NextWord(t, cursor) :
        LET e == UserClaim(SubSeq(t, w[1], w[2]))
        IN  /\ cursor' = w[2] + 1
            /\ user_ok' = (IF UserClaimHolds(e) THEN 1 ELSE 0)
            /\ pc' = IF UserClaimHolds(e) THEN "release" ELSE "user_claim"
  BY DEF TryUserClaim
<1>2. /\ pc = "user_claim" /\ UNCHANGED <<settings, faults, req, canon, state>>
      /\ Bearer(req) /\ canon = authid /\ state = 0
      /\ t \in Texts /\ cursor \in Nat \ {0}
      /\ Between(t, cursor) /\ NoClaim(Passed(t, cursor))
  BY OptionTexts
     DEF TryUserClaim, RefuseInv, MemInv, InStep, TypeOK, fixed, conn
<1>3. /\ Between(t, w[2] + 1)
      /\ \A e \in Passed(t, w[2] + 1) :
           e \in Passed(t, cursor) \/ e = SubSeq(t, w[1], w[2])
  BY <1>1, <1>2, PassedStep
<1>4. t' = t
  BY <1>2
<1> HIDE DEF t
<1>5. pc' = "user_claim" => NoClaim(Passed(t, cursor'))
  BY <1>1, <1>2, <1>3 DEF NoClaim
<1>6. pc' = "user_claim" =>
        Between(t, cursor)' /\ NoClaim(Passed(t, cursor))'
  <2>1. Passed(t, cursor)' = Passed(t, cursor')
    BY <1>4 DEF Passed, IsWord
  <2>2. Between(t, cursor)' <=> Between(t, w[2] + 1)
    BY <1>1, <1>4 DEF Between
  <2> QED BY <1>2, <1>3, <1>5, <2>1, <2>2, HoldsStay DEF NoClaim
<1>7. (pc' = "user_claim" \/ (pc' = "release" /\ user_ok' = 1))
        /\ Bearer(req)' /\ canon' = authid' /\ state' = 0
  BY <1>1, <1>2, HoldsStay
<1> QED BY <1>6, <1>7 DEF RefuseInv, InStep, t

\* A claim that cannot be read leaves nothing to be shown of the loop.
LEMMA ClaimFailsRefuseInv ==
  ASSUME TypeOK, MemInv, RefuseInv, UserClaimFails
  PROVE  RefuseInv'
<1>1. PICK w \in NextWord(settings.user_claim, cursor) : cursor' = w[2] + 1
  BY DEF UserClaimFails
<1>2. /\ pc = "user_claim" /\ pc' = pc /\ MayFail("claim")
      /\ UNCHANGED <<settings, faults, req, canon, state>>
      /\ Bearer(req) /\ canon = authid /\ state = 0
      /\ settings.user_claim \in Texts /\ cursor \in Nat \ {0}
      /\ Between(settings.user_claim, cursor)
  BY OptionTexts
     DEF UserClaimFails, RefuseInv, MemInv, InStep, TypeOK, fixed, conn
<1>3. Between(settings.user_claim, w[2] + 1)
  BY <1>2, PassedStep
<1>4. Between(settings.user_claim, cursor)'
  BY <1>1, <1>2, <1>3 DEF Between
<1>5. NoClaim(Passed(settings.user_claim, cursor))'
  BY <1>2, HoldsStay DEF NoClaim
<1> QED BY <1>2, <1>4, <1>5, HoldsStay DEF RefuseInv, InStep

LEMMA GroupTurnRefuseInv ==
  ASSUME TypeOK, MemInv, RefuseInv, TryGroupUser
  PROVE  RefuseInv'
<1> DEFINE t == settings.group_user
           claims == WordSet(settings.user_claim, Blanks)
<1>1. PICK w \in NextWord(t, cursor) :
        LET e == GroupUser(SubSeq(t, w[1], w[2]))
        IN  /\ cursor' = w[2] + 1
            /\ user_ok' = (IF GroupUserHolds(e) THEN 1 ELSE 0)
            /\ pc' = IF GroupUserHolds(e) THEN "release" ELSE "group_user"
  BY DEF TryGroupUser
<1>2. /\ pc = "group_user" /\ UNCHANGED <<settings, faults, req, canon, state>>
      /\ Bearer(req) /\ canon = authid /\ state = 0
      /\ t \in Texts /\ cursor \in Nat \ {0}
      /\ Between(t, cursor) /\ NoGroup(Passed(t, cursor)) /\ NoClaim(claims)
  BY OptionTexts
     DEF TryGroupUser, RefuseInv, MemInv, InStep, TypeOK, fixed, conn
<1>3. /\ Between(t, w[2] + 1)
      /\ \A e \in Passed(t, w[2] + 1) :
           e \in Passed(t, cursor) \/ e = SubSeq(t, w[1], w[2])
  BY <1>1, <1>2, PassedStep
<1>4. t' = t /\ claims' = claims
  BY <1>2
<1> HIDE DEF t, claims
<1>5. pc' = "group_user" => NoGroup(Passed(t, cursor'))
  BY <1>1, <1>2, <1>3 DEF NoGroup
<1>6. pc' = "group_user" =>
        /\ NoClaim(claims)'
        /\ Between(t, cursor)' /\ NoGroup(Passed(t, cursor))'
  <2>1. Passed(t, cursor)' = Passed(t, cursor')
    BY <1>4 DEF Passed, IsWord
  <2>2. Between(t, cursor)' <=> Between(t, w[2] + 1)
    BY <1>1, <1>4 DEF Between
  <2> QED BY <1>2, <1>3, <1>4, <1>5, <2>1, <2>2, HoldsStay
          DEF NoClaim, NoGroup
<1>7. (pc' = "group_user" \/ (pc' = "release" /\ user_ok' = 1))
        /\ Bearer(req)' /\ canon' = authid' /\ state' = 0
  BY <1>1, <1>2, HoldsStay
<1> QED BY <1>6, <1>7 DEF RefuseInv, InStep, t, claims

\* What is found before the token is looked at, and the checks of the token.
LEMMA CheckStepsRefuseInv ==
  ASSUME TypeOK, MemInv, RefuseInv,
         \/ BadMessage \/ CanonUser \/ CanonUserFails \/ SetProxies
         \/ Deserialize \/ DeserializeFails \/ GetIssuer \/ GetIssuerFails
         \/ CreateEnforcer \/ CreateEnforcerFails
         \/ TestEnforcer \/ TestEnforcerFails
         \/ GetScope \/ GetScopeFails \/ CheckScope \/ CheckScopeFails
  PROVE  RefuseInv'
<1> USE DEF InStep, fixed, conn, local, answer
<1>1. state = 0 /\ UNCHANGED <<faults, settings, req, state>>
  BY DEF MemInv, BadMessage, CanonUser, CanonUserFails, SetProxies,
         Deserialize, DeserializeFails, GetIssuer, GetIssuerFails,
         CreateEnforcer, CreateEnforcerFails, TestEnforcer, TestEnforcerFails,
         GetScope, GetScopeFails, NoScope, CheckScope, CheckScopeFails
<1>2. CASE BadMessage
  BY <1>1, <1>2 DEF BadMessage, Out, RefuseInv
<1>3. CASE CanonUser \/ CanonUserFails
  BY <1>1, <1>3, HoldsStay DEF CanonUser, CanonUserFails, RefuseInv, MayFail
<1>4. CASE SetProxies \/ Deserialize \/ GetIssuer \/ CreateEnforcer
           \/ TestEnforcer \/ GetScope
  BY <1>1, <1>4, HoldsStay
     DEF SetProxies, Deserialize, GetIssuer, CreateEnforcer, TestEnforcer,
         GetScope, RefuseInv
<1>5. CASE GetIssuerFails \/ CreateEnforcerFails
  BY <1>1, <1>5, HoldsStay
     DEF GetIssuerFails, CreateEnforcerFails, IntrospectReturns, RefuseInv
<1>6. CASE CheckScope
  <2>1. /\ Between(settings.user_claim, cursor)'
        /\ NoClaim(Passed(settings.user_claim, cursor))'
    BY <1>6 DEF CheckScope, Between, Passed, NoClaim
  <2> QED BY <1>1, <1>6, <2>1, HoldsStay DEF CheckScope, RefuseInv
<1>7. CASE DeserializeFails \/ TestEnforcerFails \/ GetScopeFails
           \/ CheckScopeFails
  <2>1. faults = {} => ~AllChecks
    BY <1>7 DEF DeserializeFails, TestEnforcerFails, GetScopeFails, NoScope,
                CheckScopeFails, MayFail, AllChecks, ScopeOK
  <2>2. pc' = "refuse" /\ pc \in InStep \ {"parsed"}
    BY <1>7 DEF DeserializeFails, TestEnforcerFails, GetScopeFails, NoScope,
                CheckScopeFails, IntrospectReturns
  <2> QED BY <1>1, <2>1, <2>2, HoldsStay DEF RefuseInv
<1> QED BY <1>2, <1>3, <1>4, <1>5, <1>6, <1>7

\* The ends of the loops and of the step.
LEMMA EndStepsRefuseInv ==
  ASSUME TypeOK, MemInv, RefuseInv,
         \/ UserClaimsDone \/ GroupUsersDone \/ Release
         \/ Accept \/ Refuse \/ RefuseFails
         \/ AudListFails \/ GetScopeAborts \/ TryGroupUserAborts
  PROVE  RefuseInv'
<1> USE DEF InStep, fixed, conn, local, answer
<1>1. CASE UserClaimsDone
  <2>1. NoClaim(WordSet(settings.user_claim, Blanks))
    <3>1. WordSet(settings.user_claim, Blanks)
            \subseteq Passed(settings.user_claim, cursor)
      BY <1>1, AllPassed, OptionTexts DEF UserClaimsDone, RefuseInv, TypeOK
    <3> QED BY <1>1, <3>1 DEF UserClaimsDone, RefuseInv, NoClaim
  <2>2. NoClaim(WordSet(settings.user_claim, Blanks))'
    BY <1>1, <2>1, HoldsStay DEF UserClaimsDone, NoClaim
  <2>3. /\ Between(settings.group_user, cursor)'
        /\ NoGroup(Passed(settings.group_user, cursor))'
    BY <1>1 DEF UserClaimsDone, Between, Passed, NoGroup
  <2>4. /\ pc = "user_claim" /\ pc' = "group_user" /\ state' = 0
        /\ UNCHANGED <<settings, faults, req, canon>>
    BY <1>1 DEF UserClaimsDone, MemInv
  <2> QED BY <2>2, <2>3, <2>4, HoldsStay DEF RefuseInv
<1>2. CASE GroupUsersDone
  <2>1. ~Granted \/ MayFail("claim")
    <3>1. WordSet(settings.group_user, Blanks)
            \subseteq Passed(settings.group_user, cursor)
      BY <1>2, AllPassed, OptionTexts DEF GroupUsersDone, RefuseInv, TypeOK
    <3> QED BY <1>2, <3>1 DEF GroupUsersDone, RefuseInv, NoClaim, NoGroup,
                              Granted
  <2>2. /\ pc = "group_user" /\ pc' = "release" /\ state' = 0
        /\ UNCHANGED <<settings, faults, req, canon>>
    BY <1>2 DEF GroupUsersDone, MemInv
  <2> QED BY <2>1, <2>2, HoldsStay DEF RefuseInv
<1>3. CASE Release
  <2>1. /\ pc = "release" /\ state' = 0
        /\ UNCHANGED <<settings, faults, req, canon>>
        /\ pc' = (IF user_ok = 1 THEN "accept" ELSE "refuse")
    BY <1>3 DEF Release, IntrospectReturns, MemInv
  <2>2. user_ok # 1 /\ faults = {} => ~Granted
    BY <2>1 DEF RefuseInv, TypeOK, MayFail
  <2> QED BY <2>1, <2>2, HoldsStay DEF RefuseInv, AllChecks
<1>4. CASE Refuse
  BY <1>4, HoldsStay DEF Refuse, RefuseInv
<1>5. CASE \/ Accept \/ RefuseFails
           \/ AudListFails \/ GetScopeAborts \/ TryGroupUserAborts
  <2>1. pc' \in {"idle", "aborted"} /\ state' = 0
    BY <1>5
       DEF Accept, Out, RefuseFails, AudListFails, GetScopeAborts, NoScope,
                TryGroupUserAborts, Abort, MemInv
  <2> QED BY <2>1 DEF RefuseInv
<1> QED BY <1>1, <1>2, <1>3, <1>4, <1>5

(***************************************************************************)
(* A refusal without a failure means that one of the checks does not hold. *)
(***************************************************************************)
THEOREM RefuseInvariant == Spec => []RefuseInv
<1>1. Init => RefuseInv
  BY DEF Init, RefuseInv, InStep, NoContext
<1>2. TypeOK /\ MemInv /\ RefuseInv /\ [Next]_vars => RefuseInv'
  <2>1. ASSUME RefuseInv, UNCHANGED vars \/ OtherSetenv PROVE RefuseInv'
    <3>1. UNCHANGED <<faults, settings, req, pc, cursor, user_ok, state, canon>>
      BY <2>1 DEF vars, OtherSetenv, fixed, local, conn
    <3>2. /\ Between(settings.user_claim, cursor)' <=>
               Between(settings.user_claim, cursor)
          /\ Between(settings.group_user, cursor)' <=>
               Between(settings.group_user, cursor)
      BY <3>1 DEF Between
    <3>3. /\ Passed(settings.user_claim, cursor)' =
               Passed(settings.user_claim, cursor)
          /\ Passed(settings.group_user, cursor)' =
               Passed(settings.group_user, cursor)
          /\ WordSet(settings.user_claim, Blanks)' =
               WordSet(settings.user_claim, Blanks)
      BY <3>1
    <3>4. /\ NoClaim(Passed(settings.user_claim, cursor))
               => NoClaim(Passed(settings.user_claim, cursor))'
          /\ NoGroup(Passed(settings.group_user, cursor))
               => NoGroup(Passed(settings.group_user, cursor))'
          /\ NoClaim(WordSet(settings.user_claim, Blanks))
               => NoClaim(WordSet(settings.user_claim, Blanks))'
      BY <3>1, <3>3, HoldsStay DEF NoClaim, NoGroup
    <3> QED BY <2>1, <3>1, <3>2, <3>4, HoldsStay DEF RefuseInv
  <2>2. ASSUME TypeOK, MemInv, RefuseInv, Step1 PROVE RefuseInv'
    BY <2>2, CheckStepsRefuseInv, EndStepsRefuseInv, ClaimTurnRefuseInv,
       ClaimFailsRefuseInv, GroupTurnRefuseInv DEF Step1
  <2> QED BY <2>1, <2>2, ApplicationRefuseInv DEF Next
<1> QED BY <1>1, <1>2, TypeCorrect, MemoryInvariant, PTL DEF Spec
-----------------------------------------------------------------------------
\* From what the options mean to the checks of the code.

LEMMA BlanksAreSpaces ==
  ASSUME NEW t \in Texts, \A n \in 1 .. Len(t) : t[n] # TAB
  PROVE  WordSet(t, Blanks) \subseteq WordSet(t, {SP})
<1>1. ASSUME NEW a \in 1 .. Len(t), NEW b \in 1 .. Len(t),
             IsWord(t, Blanks, a, b)
      PROVE  IsWord(t, {SP}, a, b)
  <2>1. Len(t) \in Nat
    BY DEF Texts
  <2>2. /\ a # 1 => a - 1 \in 1 .. Len(t)
        /\ b # Len(t) => b + 1 \in 1 .. Len(t)
    BY <2>1
  <2> QED BY <1>1, <2>1, <2>2 DEF IsWord, Blanks
<1> QED BY <1>1 DEF WordSet

LEMMA BarAtIs ==
  ASSUME NEW t \in Texts, NEW n \in 1 .. Len(t), t[n] = BAR,
         \A k \in 1 .. Len(t) : k < n => t[k] # BAR
  PROVE  BarAt(t) = n
<1>1. Len(t) \in Nat /\ n \in Bars(t) /\ Bars(t) \in SUBSET Nat
  BY DEF Bars, Texts
<1>2. BarAt(t) \in Bars(t) /\ \A y \in Bars(t) : BarAt(t) <= y
  BY <1>1, MinIsLeast DEF BarAt
<1> QED BY <1>1, <1>2 DEF Bars

LEMMA ClaimWordHolds ==
  ASSUME NEW e \in Texts, NEW c \in Texts, Bars(c) = {}, jwt.iss \in Texts,
         c \in DOMAIN jwt.claims, jwt.claims[c] = authid,
         e = c \/ e = c \o <<BAR>> \o jwt.iss
  PROVE  UserClaimHolds(UserClaim(e))
<1>1. CASE e = c
  <2>1. BarAt(e) = 0
    BY <1>1 DEF BarAt
  <2> QED BY <1>1, <2>1 DEF UserClaimHolds, UserClaim, BeforeBar, AfterBar
<1>2. CASE e = c \o <<BAR>> \o jwt.iss
  <2> DEFINE S == (STRING \ {"(null)"}) \cup {BAR}
             n == Len(c)
             l == Len(jwt.iss)
             cb == c \o <<BAR>>
  <2>1. c \in Seq(S) /\ jwt.iss \in Seq(S) /\ <<BAR>> \in Seq(S)
    <3>1. STRING \ {"(null)"} \subseteq S /\ BAR \in S
      OBVIOUS
    <3>2. c \in Seq(S) /\ jwt.iss \in Seq(S)
      BY <3>1, SeqMonotonic DEF Texts
    <3> HIDE DEF S
    <3> QED BY <3>1, <3>2
  <2>2. n \in Nat /\ l \in Nat /\ Len(<<BAR>>) = 1 /\ <<BAR>>[1] = BAR
    BY <2>1
  <2> HIDE DEF S, n, l
  <2>3. /\ cb \in Seq(S) /\ Len(cb) = n + 1
        /\ \A k \in 1 .. n + 1 : cb[k] = IF k <= n THEN c[k] ELSE <<BAR>>[k - n]
    BY <2>1, <2>2, ConcatProperties DEF n
  <2> HIDE DEF cb
  <2>4. /\ Len(e) = n + 1 + l
        /\ \A k \in 1 .. n + 1 + l :
             e[k] = IF k <= n + 1 THEN cb[k] ELSE jwt.iss[k - (n + 1)]
    <3>1. e = cb \o jwt.iss
      BY <1>2 DEF cb
    <3> DEFINE i == jwt.iss
    <3> HIDE DEF i
    <3>2. i \in Seq(S) /\ Len(i) = l /\ e = cb \o i /\ i = jwt.iss
      BY <2>1, <3>1 DEF i, l
    <3>3. /\ Len(cb \o i) = Len(cb) + Len(i)
          /\ \A k \in 1 .. Len(cb) + Len(i) :
               (cb \o i)[k] = IF k <= Len(cb) THEN cb[k] ELSE i[k - Len(cb)]
      BY <2>3, <3>2, ConcatProperties
    <3> QED BY <2>3, <3>2, <3>3
  <2>5. e[n + 1] = BAR
    <3>1. n + 1 \in 1 .. n + 1 /\ n + 1 \in 1 .. n + 1 + l /\ ~ (n + 1 <= n)
            /\ (n + 1) - n = 1 /\ n + 1 <= n + 1
      BY <2>2
    <3>2. cb[n + 1] = <<BAR>>[(n + 1) - n]
      BY <2>3, <3>1
    <3> QED BY <2>2, <2>4, <3>1, <3>2
  <2>6. \A k \in 1 .. n : e[k] = c[k]
    <3> SUFFICES ASSUME NEW k \in 1 .. n PROVE e[k] = c[k]
      OBVIOUS
    <3>1. k \in 1 .. n + 1 /\ k \in 1 .. n + 1 + l /\ k <= n /\ k <= n + 1
      BY <2>2
    <3> QED BY <2>3, <2>4, <3>1
  <2>7. \A k \in 1 .. l : e[n + 1 + k] = jwt.iss[k]
    <3> SUFFICES ASSUME NEW k \in 1 .. l PROVE e[n + 1 + k] = jwt.iss[k]
      OBVIOUS
    <3>1. n + 1 + k \in 1 .. n + 1 + l /\ ~ (n + 1 + k <= n + 1)
            /\ (n + 1 + k) - (n + 1) = k
      BY <2>2
    <3> QED BY <2>4, <3>1
  <2>8. BarAt(e) = n + 1
    <3>1. n + 1 \in 1 .. Len(e)
      BY <2>2, <2>4
    <3>2. \A k \in 1 .. Len(e) : k < n + 1 => k \in 1 .. n /\ e[k] # BAR
      BY <2>2, <2>4, <2>6 DEF Bars, n
    <3> QED BY <2>5, <3>1, <3>2, BarAtIs
  <2>9. BeforeBar(e) = SubSeq(e, 1, n) /\ AfterBar(e) = SubSeq(e, n + 2, Len(e))
    BY <2>2, <2>8 DEF BeforeBar, AfterBar
  <2>10. SubSeq(e, 1, n) = c
    <3>1. /\ 1 \in 1 .. Len(e) + 1 /\ n \in 0 .. Len(e)
          /\ (IF 1 <= n THEN n - 1 + 1 ELSE 0) = n
          /\ \A k \in 1 .. n : k \in 1 .. n - 1 + 1 /\ 1 + k - 1 = k
      BY <2>2, <2>4
    <3>2. /\ SubSeq(e, 1, n) \in Texts /\ Len(SubSeq(e, 1, n)) = n
          /\ \A k \in 1 .. n - 1 + 1 : SubSeq(e, 1, n)[k] = e[1 + k - 1]
      BY <3>1, PartIsText
    <3>3. \A k \in 1 .. n : SubSeq(e, 1, n)[k] = c[k]
      BY <2>6, <3>1, <3>2
    <3> QED BY <3>2, <3>3, SeqEqual DEF Texts, n
  <2>11. SubSeq(e, n + 2, Len(e)) = jwt.iss
    <3> DEFINE m == Len(e)  part == SubSeq(e, n + 2, m)
    <3>1. /\ n + 2 \in 1 .. m + 1 /\ m \in 0 .. m
          /\ (IF n + 2 <= m THEN m - (n + 2) + 1 ELSE 0) = l
          /\ \A k \in 1 .. l : k \in 1 .. m - (n + 2) + 1
                                 /\ (n + 2) + k - 1 = n + 1 + k
      BY <2>2, <2>4
    <3>2. /\ part \in Texts
          /\ Len(part) = IF n + 2 <= m THEN m - (n + 2) + 1 ELSE 0
          /\ \A k \in 1 .. m - (n + 2) + 1 : part[k] = e[(n + 2) + k - 1]
      BY <3>1, PartIsText
    <3> HIDE DEF m, part
    <3>3. Len(part) = l /\ \A k \in 1 .. l : part[k] = jwt.iss[k]
      BY <2>7, <3>1, <3>2
    <3>4. part = jwt.iss
      BY <3>2, <3>3, SeqEqual DEF Texts, l
    <3> QED BY <3>4 DEF part, m
  <2> QED BY <2>9, <2>10, <2>11 DEF UserClaimHolds, UserClaim
<1> QED BY <1>1, <1>2

\* A text without blanks is its own and only word.
LEMMA WordOfItself ==
  ASSUME NEW t \in Texts, Len(t) # 0, \A k \in 1 .. Len(t) : t[k] \notin Blanks
  PROVE  t \in WordSet(t, Blanks)
<1>1. Len(t) \in Nat /\ 1 \in 1 .. Len(t) /\ Len(t) \in 1 .. Len(t)
  BY DEF Texts
<1> DEFINE p == <<1, Len(t)>>
<1>2. p \in (1 .. Len(t)) \X (1 .. Len(t)) /\ p[1] = 1 /\ p[2] = Len(t)
  BY <1>1
<1>3. SubSeq(t, 1, Len(t)) = t
  BY SubSeqFull DEF Texts
<1>4. IsWord(t, Blanks, 1, Len(t))
  BY <1>1 DEF IsWord
<1> HIDE DEF p
<1> QED BY <1>2, <1>3, <1>4 DEF WordSet

LEMMA GroupWordHolds ==
  ASSUME NEW e \in Texts, \A k \in 1 .. Len(e) : e[k] \notin Blanks,
         GroupGrants(e, jwt, authid)
  PROVE  GroupUserHolds(GroupUser(e)) /\ GroupUser(e).iss # NULL
<1> DEFINE n == Len(e)  rest == AfterBar(e)
<1>1. PICK a \in 1 .. n, b \in 1 .. n :
        /\ a + 1 < b /\ b < n
        /\ {k \in 1 .. b : e[k] = BAR} = {a, b}
        /\ SubSeq(e, 1, a - 1) = authid
        /\ \E w \in WordSet(jwt.scope, Blanks) :
             Matches(w, SubSeq(e, a + 1, b - 1))
        /\ Matches(jwt.iss, SubSeq(e, b + 1, n))
  BY DEF GroupGrants
<1>2. n \in Nat
  BY DEF Texts
<1>3. /\ e[a] = BAR /\ e[b] = BAR
      /\ \A k \in 1 .. n : k < b /\ k # a => e[k] # BAR
  BY <1>1, <1>2
<1>4. BarAt(e) = a
  <2>1. \A k \in 1 .. Len(e) : k < a => e[k] # BAR
    BY <1>1, <1>2, <1>3
  <2> QED BY <1>3, <2>1, BarAtIs
<1>5. rest = SubSeq(e, a + 1, n) /\ BeforeBar(e) = SubSeq(e, 1, a - 1)
  BY <1>1, <1>4 DEF AfterBar, BeforeBar
<1>6. /\ rest \in Texts /\ rest # NULL /\ Len(rest) = n - a
      /\ \A k \in 1 .. n - a : rest[k] = e[a + k]
  <2>1. a + 1 \in 1 .. Len(e) + 1 /\ n \in 0 .. Len(e)
    BY <1>1, <1>2
  <2> DEFINE part == SubSeq(e, a + 1, n)
  <2>2. /\ part \in Texts /\ part # NULL
        /\ Len(part) = IF a + 1 <= n THEN n - (a + 1) + 1 ELSE 0
        /\ \A k \in 1 .. n - (a + 1) + 1 : part[k] = e[(a + 1) + k - 1]
    BY <2>1, PartIsText
  <2>3. rest = part
    BY <1>5
  <2> HIDE DEF n, rest, part
  <2> QED BY <1>1, <1>2, <2>2, <2>3
<1> HIDE DEF n, rest
<1>7. BarAt(rest) = b - a
  <2>1. b - a \in 1 .. Len(rest) /\ a + (b - a) = b
    BY <1>1, <1>2, <1>6
  <2>2. rest[b - a] = BAR
    BY <1>3, <1>6, <2>1
  <2>3. ASSUME NEW k \in 1 .. Len(rest), k < b - a PROVE rest[k] # BAR
    <3>1. a + k \in 1 .. n /\ a + k < b /\ a + k # a /\ k \in 1 .. n - a
      BY <1>1, <1>2, <1>6, <2>3
    <3> QED BY <1>3, <1>6, <3>1
  <2> QED BY <1>6, <2>1, <2>2, <2>3, BarAtIs
<1>8. /\ BeforeBar(rest) = SubSeq(rest, 1, (b - a) - 1)
      /\ AfterBar(rest) = SubSeq(rest, (b - a) + 1, n - a)
  BY <1>1, <1>2, <1>6, <1>7 DEF BeforeBar, AfterBar
<1>9. /\ BeforeBar(rest) = SubSeq(e, a + 1, b - 1)
      /\ AfterBar(rest) = SubSeq(e, b + 1, n)
  <2>1. a + 1 \in 1 .. Len(e) /\ n \in 1 .. Len(e)
    BY <1>1, <1>2 DEF n
  <2>2. /\ 1 \in 1 .. n - (a + 1) + 1
        /\ (b - a) - 1 \in 1 .. n - (a + 1) + 1
        /\ (b - a) + 1 \in 1 .. n - (a + 1) + 1
        /\ n - a \in 1 .. n - (a + 1) + 1
    BY <1>1, <1>2
  <2>3. /\ (a + 1) + 1 - 1 = a + 1 /\ (a + 1) + ((b - a) - 1) - 1 = b - 1
        /\ (a + 1) + ((b - a) + 1) - 1 = b + 1 /\ (a + 1) + (n - a) - 1 = n
    BY <1>1, <1>2
  <2>4. /\ SubSeq(SubSeq(e, a + 1, n), 1, (b - a) - 1)
             = SubSeq(e, (a + 1) + 1 - 1, (a + 1) + ((b - a) - 1) - 1)
        /\ SubSeq(SubSeq(e, a + 1, n), (b - a) + 1, n - a)
             = SubSeq(e, (a + 1) + ((b - a) + 1) - 1, (a + 1) + (n - a) - 1)
    BY <2>1, <2>2, PartOfPart
  <2> QED BY <1>5, <1>8, <2>3, <2>4
<1>10. /\ BeforeBar(rest) \in Texts /\ Len(BeforeBar(rest)) # 0
       /\ BeforeBar(rest) # <<>>
       /\ \A k \in 1 .. Len(BeforeBar(rest)) : BeforeBar(rest)[k] \notin Blanks
  <2>1. a + 1 \in 1 .. Len(e) + 1 /\ b - 1 \in 0 .. Len(e) /\ a + 1 <= b - 1
    BY <1>1, <1>2 DEF n
  <2> DEFINE part == SubSeq(e, a + 1, b - 1)
  <2>2. /\ part \in Texts
        /\ Len(part) = (IF a + 1 <= b - 1 THEN (b - 1) - (a + 1) + 1 ELSE 0)
        /\ \A k \in 1 .. (b - 1) - (a + 1) + 1 : part[k] = e[(a + 1) + k - 1]
    BY <2>1, PartIsText
  <2>3. /\ \A k \in 1 .. (b - 1) - (a + 1) + 1 : (a + 1) + k - 1 \in 1 .. n
        /\ (b - 1) - (a + 1) + 1 # 0
    BY <1>1, <1>2
  <2>4. BeforeBar(rest) = part /\ Len(<<>>) = 0
    BY <1>9
  <2> HIDE DEF part
  <2> QED BY <2>1, <2>2, <2>3, <2>4 DEF n
<1>11. AfterBar(rest) # <<>> /\ AfterBar(rest) # NULL
  <2>1. b + 1 \in 1 .. Len(e) + 1 /\ n \in 0 .. Len(e) /\ b + 1 <= n
    BY <1>1, <1>2 DEF n
  <2>2. /\ AfterBar(rest) # NULL
        /\ Len(AfterBar(rest)) = n - (b + 1) + 1
    BY <1>9, <2>1, PartIsText
  <2>3. n - (b + 1) + 1 # 0 /\ Len(<<>>) = 0
    BY <1>1, <1>2
  <2> QED BY <2>2, <2>3
<1>12. HasStr(jwt.scope, BeforeBar(rest))
  BY <1>1, <1>9, <1>10, WordOfItself DEF HasStr
<1>13. /\ GroupUser(e).group = BeforeBar(e)
       /\ GroupUser(e).authority = BeforeBar(rest)
       /\ GroupUser(e).iss = AfterBar(rest)
  BY <1>6 DEF GroupUser, rest
<1> QED BY <1>1, <1>5, <1>9, <1>10, <1>11, <1>12, <1>13 DEF GroupUserHolds

(***************************************************************************)
(* A token that permits its user passes every check of the code.           *)
(***************************************************************************)
LEMMA PermitChecks ==
  ASSUME SpacedAuds, BarlessClaims, TypeOK, PermittedReq
  PROVE  AllChecks
<1>1. /\ CString(req.token) \in DOMAIN Jwts /\ Permitted(jwt, authid)
      /\ settings.issuers \subseteq Texts
  BY ServerAssumption DEF PermittedReq, TypeOK, SettingOK
<1>2. Deserializes /\ jwt.iss \in Texts
  BY <1>1 DEF Permitted, Verified, Deserializes
<1>3. EnforcerTest
  <2>1. WordSet(settings.aud, Blanks) \subseteq WordSet(settings.aud, {SP})
    BY BlanksAreSpaces, OptionTexts DEF SpacedAuds, TypeOK
  <2> QED BY <1>1, <2>1 DEF Permitted, ForUs, EnforcerTest, AudList
<1>4. ScopeOK
  BY <1>1 DEF Permitted, ScopeGranted, ScopeOK, HasStr
<1>5. CASE \E e \in WordSet(settings.user_claim, Blanks) :
             ClaimGrants(e, jwt, authid)
  <2>1. PICK e \in WordSet(settings.user_claim, Blanks),
             c \in DOMAIN jwt.claims :
          /\ jwt.claims[c] = authid
          /\ e = c \/ e = c \o <<BAR>> \o jwt.iss
    BY <1>5 DEF ClaimGrants
  <2>2. e \in Texts /\ c \in Texts /\ Bars(c) = {}
    BY <1>1, WordsAreTexts, OptionTexts DEF BarlessClaims, jwt
  <2>3. UserClaimHolds(UserClaim(e))
    BY <1>2, <2>1, <2>2, ClaimWordHolds
  <2> QED BY <1>2, <1>3, <1>4, <2>3 DEF AllChecks, Granted
<1>6. CASE \E e \in WordSet(settings.group_user, Blanks) :
             GroupGrants(e, jwt, authid)
  <2>1. PICK e \in WordSet(settings.group_user, Blanks) :
          GroupGrants(e, jwt, authid)
    BY <1>6
  <2>2. e \in Texts /\ \A k \in 1 .. Len(e) : e[k] \notin Blanks
    BY WordsAreTexts, WordsHaveNoBlanks, OptionTexts
  <2>3. GroupUserHolds(GroupUser(e)) /\ GroupUser(e).iss # NULL
    BY <2>1, <2>2, GroupWordHolds
  <2> QED BY <1>2, <1>3, <1>4, <2>3 DEF AllChecks, Granted
<1> QED BY <1>1, <1>5, <1>6 DEF Permitted

(***************************************************************************)
(* When no call fails a permitted user is never answered with the 401      *)
(* challenge, whatever the options, the tokens and the messages are.       *)
(***************************************************************************)
THEOREM OnlyForbidden ==
  ASSUME SpacedAuds, BarlessClaims
  PROVE  Spec => []RefusesForbidden
<1>1. TypeOK /\ RefuseInv => RefusesForbidden
  BY PermitChecks DEF RefuseInv, RefusesForbidden
<1> QED BY <1>1, TypeCorrect, RefuseInvariant, PTL
-----------------------------------------------------------------------------
\* The refinement.

allowed == PermittedReq \/ ~ErrorsReported
faulty == faults # {}

LEMMA RequestStays ==
  ASSUME UNCHANGED <<faults, settings, req>>
  PROVE  Asks(req)' = Asks(req) /\ allowed' = allowed /\ faulty' = faulty
<1>1. authid' = authid /\ jwt' = jwt
  BY DEF authid, jwt
<1>2. Permitted(jwt, authid)' <=> Permitted(jwt, authid)
  BY <1>1 DEF Permitted, Verified, ForUs, ScopeGranted
<1>3. PermittedReq' <=> PermittedReq
  BY <1>2 DEF PermittedReq
<1>4. ErrorsReported' <=> ErrorsReported
  BY DEF ErrorsReported
<1>5. (PermittedReq \/ ~ErrorsReported)' = (PermittedReq \/ ~ErrorsReported)
  BY <1>3, <1>4
<1>6. faulty' = faulty
  BY DEF faulty
<1>7. Asks(req)' = Asks(req)
  OBVIOUS
<1> QED BY <1>5, <1>6, <1>7 DEF allowed

LEMMA ApplicationRole ==
  ASSUME TypeOK, MemInv, Application
  PROVE  Role!Next
<1> USE DEF Role!Next, phase, InStep, NoContext, fixed, conn, local, answer,
            Called, MemInv
<1>1. UNCHANGED <<faults, settings>>
  BY DEF Application, MechNew, MechNewFails, Dispose, Step2, NoInput,
         NoBuffer, Receive
<1>2. ~Receive => UNCHANGED <<req, canon>>
  BY DEF Application, MechNew, MechNewFails, Dispose, Step2, NoInput,
         NoBuffer
<1>3. ~Receive => Asks(req)' = Asks(req) /\ allowed' = allowed /\ faulty' = faulty
  BY <1>1, <1>2, RequestStays
<1>4. \A f : MayFail(f) => faulty
  BY DEF MayFail, faulty
<1>5. CASE MechNew
  <2>1. Role!Open
    BY <1>2, <1>3, <1>5 DEF MechNew, Receive, Role!Open, allowed, faulty
  <2> QED BY <2>1
<1>6. CASE MechNewFails
  <2>1. Role!OpenFails
    BY <1>2, <1>3, <1>4, <1>6
       DEF MechNewFails, Receive, Role!OpenFails, allowed, faulty
  <2> QED BY <2>1
<1>7. CASE Dispose
  <2>1. Role!Close
    BY <1>2, <1>3, <1>7
       DEF Dispose, Receive, Role!Close, allowed, faulty, TypeOK
  <2> QED BY <2>1
<1>8. CASE Step2
  <2>1. Role!Again
    BY <1>2, <1>3, <1>8 DEF Step2, Receive, Role!Again, allowed, faulty
  <2> QED BY <2>1
<1>9. CASE NoInput
  <2>1. CASE pc' = "idle"
    <3>1. Role!Fail
      BY <1>2, <1>3, <1>4, <1>9, <2>1
         DEF NoInput, Receive, Role!Fail, allowed, faulty
    <3> QED BY <3>1
  <2>2. CASE pc' = "aborted"
    <3>1. Role!Die
      BY <1>2, <1>3, <1>9, <2>2 DEF NoInput, Receive, Role!Die, allowed, faulty
    <3> QED BY <3>1
  <2> QED BY <1>9, <2>1, <2>2 DEF NoInput
<1>10. CASE NoBuffer
  <2>1. Role!Fail
    BY <1>2, <1>3, <1>4, <1>10
       DEF NoBuffer, Receive, Role!Fail, allowed, faulty
  <2> QED BY <2>1
<1>11. CASE Receive
  <2>1. faulty' = faulty
    BY <1>1 DEF faulty
  <2>2. Role!Ask
    BY <1>11, <2>1 DEF Receive, Role!Ask, faulty
  <2> QED BY <2>2
<1> QED BY <1>5, <1>6, <1>7, <1>8, <1>9, <1>10, <1>11 DEF Application

\* A step inside a call that ServerRole does not see.
LEMMA QuietStep ==
  ASSUME UNCHANGED <<faults, settings, req, state, canon, ret>>,
         pc \in InStep, pc' \in InStep
  PROVE  UNCHANGED Role!vars
<1>1. phase' = phase
  BY DEF phase, InStep
<1> QED BY <1>1, RequestStays DEF Role!vars, allowed, faulty

LEMMA AcceptRole ==
  ASSUME SpacedAuds, TypeOK, MemInv, CheckInv, RefuseInv, Accept
  PROVE  Role!Accept
<1>1. /\ pc = "accept" /\ state = 0 /\ pc' = "idle" /\ state' = 0
      /\ ret' = "SASL_OK" /\ UNCHANGED <<faults, settings, req, canon>>
  BY DEF Accept, Out, MemInv, InStep, fixed, conn, local
<1>2. phase = "busy" /\ phase' = "ready"
  BY <1>1 DEF phase, InStep, NoContext
<1>3. allowed
  <2>1. ErrorsReported => PermittedReq
    BY <1>1, ChecksPermit DEF CheckInv
  <2> QED BY <2>1 DEF allowed
<1>4. \E q \in Asks(req) : canon = q.user
  BY <1>1 DEF RefuseInv, InStep, Asks, authid
<1> QED BY <1>1, <1>2, <1>3, <1>4, RequestStays
           DEF Role!Accept, allowed, faulty

LEMMA RefuseRole ==
  ASSUME SpacedAuds, BarlessClaims, TypeOK, MemInv, RefuseInv, Refuse
  PROVE  Role!Refuse
<1>1. /\ pc = "refuse" /\ state = 0 /\ pc' = "idle" /\ state' = 1
      /\ ret' = "SASL_CONTINUE" /\ UNCHANGED <<faults, settings, req, canon>>
  BY DEF Refuse, MemInv, InStep, fixed, local
<1>2. phase = "busy" /\ phase' = "over"
  BY <1>1 DEF phase, InStep, NoContext
<1>3. ~allowed \/ faulty
  <2>1. faults = {} => ~PermittedReq /\ ErrorsReported
    BY <1>1, PermitChecks DEF RefuseInv, ErrorsReported
  <2> QED BY <2>1 DEF allowed, faulty
<1>4. Asks(req) # {}
  BY <1>1 DEF RefuseInv, InStep, Asks
<1> QED BY <1>1, <1>2, <1>3, <1>4, RequestStays
           DEF Role!Refuse, allowed, faulty

\* The other ends of a step.
LEMMA FailureRole ==
  ASSUME TypeOK, MemInv, BadMessage \/ RefuseFails
  PROVE  Role!Fail
<1>1. /\ pc \in InStep /\ state = 0 /\ pc' = "idle" /\ state' = 0
      /\ ret' \in {"SASL_BADPROT", "SASL_NOMEM"}
      /\ UNCHANGED <<faults, settings, req, canon>>
  BY DEF BadMessage, RefuseFails, Out, MemInv, InStep, fixed, conn, local
<1>2. phase = "busy" /\ phase' = "ready"
  BY <1>1 DEF phase, InStep, NoContext
<1>3. Asks(req) = {} \/ faulty
  BY DEF BadMessage, RefuseFails, Asks, MayFail, faulty
<1> QED BY <1>1, <1>2, <1>3, RequestStays DEF Role!Fail, allowed, faulty

LEMMA AbortRole ==
  ASSUME TypeOK, MemInv, AudListFails \/ GetScopeAborts \/ TryGroupUserAborts
  PROVE  Role!Die
<1>1. /\ pc \in InStep /\ state = 0 /\ pc' = "aborted" /\ state' = 0
      /\ UNCHANGED <<faults, settings, req, canon, ret>>
  BY DEF AudListFails, GetScopeAborts, NoScope, TryGroupUserAborts, Abort,
         MemInv, InStep, fixed, conn, local, answer
<1>2. phase = "busy" /\ phase' = "dead"
  BY <1>1 DEF phase, InStep, NoContext
<1> QED BY <1>1, <1>2, RequestStays DEF Role!Die, allowed, faulty

LEMMA CanonRole ==
  ASSUME TypeOK, MemInv, CanonUser
  PROVE  Role!Canon
<1>1. /\ pc = "parsed" /\ state = 0 /\ pc' = "proxy" /\ state' = 0
      /\ Bearer(req) /\ canon' = authid
      /\ UNCHANGED <<faults, settings, req, ret>>
  BY DEF CanonUser, MemInv, InStep, fixed, conn, local, answer
<1>2. phase = "busy" /\ phase' = "busy"
  BY <1>1 DEF phase, InStep, NoContext
<1>3. \E q \in Asks(req) : canon' = q.user
  BY <1>1 DEF Asks, authid
<1> QED BY <1>1, <1>2, <1>3, RequestStays DEF Role!Canon, allowed, faulty

LEMMA Step1Role ==
  ASSUME SpacedAuds, BarlessClaims, TypeOK, MemInv, CheckInv, RefuseInv, Step1
  PROVE  [Role!Next]_(Role!vars)
<1>1. CASE Accept \/ Refuse \/ BadMessage \/ RefuseFails \/ AudListFails
           \/ GetScopeAborts \/ TryGroupUserAborts \/ CanonUser
  BY <1>1, AcceptRole, RefuseRole, FailureRole, AbortRole, CanonRole
     DEF Role!Next
<1>2. CASE \/ CanonUserFails \/ SetProxies
           \/ Deserialize \/ DeserializeFails \/ GetIssuer \/ GetIssuerFails
           \/ CreateEnforcer \/ CreateEnforcerFails
           \/ TestEnforcer \/ TestEnforcerFails
           \/ GetScope \/ GetScopeFails \/ CheckScope \/ CheckScopeFails
           \/ TryUserClaim \/ UserClaimFails \/ UserClaimsDone \/ TryGroupUser
           \/ GroupUsersDone \/ Release
  <2>1. /\ pc \in InStep /\ pc' \in InStep
        /\ UNCHANGED <<faults, settings, req, state, canon, ret>>
    BY <1>2
       DEF CanonUserFails, SetProxies, Deserialize, DeserializeFails,
           GetIssuer, GetIssuerFails, CreateEnforcer, CreateEnforcerFails,
           TestEnforcer, TestEnforcerFails, GetScope, GetScopeFails, NoScope,
           CheckScope, CheckScopeFails, TryUserClaim, UserClaimFails, UserClaimsDone,
           TryGroupUser, GroupUsersDone, Release, IntrospectReturns, InStep,
           fixed, conn, local, answer
  <2> QED BY <2>1, QuietStep
<1> QED BY <1>1, <1>2 DEF Step1

(***************************************************************************)
(* Every connection keeps what ServerRole promises, for all options,       *)
(* tokens, messages and failures: ServerMech implements ServerRole.        *)
(***************************************************************************)
THEOREM RoleKept ==
  ASSUME SpacedAuds, BarlessClaims
  PROVE  Spec => KeepsRole
<1>1. Init => Role!Init
  BY DEF Init, Role!Init, phase, Asks, Bearer, NoReq
<1>2. TypeOK /\ MemInv /\ CheckInv /\ RefuseInv /\ [Next]_vars
        => [Role!Next]_(Role!vars)
  <2> SUFFICES ASSUME TypeOK, MemInv, CheckInv, RefuseInv, [Next]_vars
               PROVE  [Role!Next]_(Role!vars)
    OBVIOUS
  <2>1. CASE UNCHANGED vars \/ OtherSetenv
    <3>1. UNCHANGED <<faults, settings, req, state, canon, ret, pc>>
      BY <2>1 DEF vars, OtherSetenv, fixed, conn, local, answer
    <3>2. phase' = phase
      BY <3>1 DEF phase
    <3> QED BY <3>1, <3>2, RequestStays DEF Role!vars, allowed, faulty
  <2> QED BY <2>1, ApplicationRole, Step1Role DEF Next
<1> QED BY <1>1, <1>2, TypeCorrect, MemoryInvariant, ChecksInvariant,
           RefuseInvariant, PTL DEF Spec, KeepsRole, Role!Spec

-----------------------------------------------------------------------------
\* The challenge.

LEMMA ApplicationOutInv ==
  ASSUME OutInv, Application
  PROVE  OutInv'
<1>1. UNCHANGED faults
  BY DEF Application, MechNew, MechNewFails, Dispose, Step2, NoInput, NoBuffer,
         Receive, fixed
<1>2. serverout' = NULL
  BY DEF Application, MechNew, MechNewFails, Dispose, Step2, NoInput, NoBuffer,
         Receive
<1>3. outbuf' = <<>> \/ UNCHANGED <<outbuf, state>>
  BY DEF Application, MechNew, MechNewFails, Dispose, Step2, NoInput, NoBuffer,
         Receive, conn
<1> QED BY <1>1, <1>2, <1>3 DEF OutInv

LEMMA Step1OutInv ==
  ASSUME MemInv, OutInv, Step1
  PROVE  OutInv'
<1>1. UNCHANGED faults
  BY FixedStay DEF Next
<1>2. CASE Refuse
  <2>1. state = 0
    BY <1>2 DEF Refuse, MemInv, InStep
  <2>2. "malloc" \notin faults => serverout' = <<"json">>
    BY <1>2, <2>1 DEF Refuse, BuildJson, OutInv
  <2> QED BY <1>1, <1>2, <2>2 DEF Refuse, OutInv
<1>3. CASE RefuseFails
  BY <1>1, <1>3 DEF RefuseFails, MayFail, OutInv
<1>4. CASE ~Refuse /\ ~RefuseFails
  <2>1. UNCHANGED conn /\ (serverout' = NULL \/ UNCHANGED serverout)
    BY <1>4
       DEF Step1, BadMessage, CanonUser, CanonUserFails, SetProxies,
           Deserialize, DeserializeFails, GetIssuer, GetIssuerFails,
           CreateEnforcer, CreateEnforcerFails, AudListFails, TestEnforcer,
           TestEnforcerFails, GetScope, GetScopeAborts, GetScopeFails,
           CheckScope, CheckScopeFails, TryUserClaim, UserClaimFails, UserClaimsDone,
           TryGroupUser, TryGroupUserAborts, GroupUsersDone, Release, Accept,
           Abort, Out, answer
  <2> QED BY <1>1, <2>1 DEF OutInv, conn
<1> QED BY <1>2, <1>3, <1>4

(***************************************************************************)
(* While there is memory every challenge is one JSON object: what an       *)
(* earlier step has written is never in front of it, however often the     *)
(* context is called.                                                      *)
(***************************************************************************)
THEOREM ChallengeIsOneObject == Spec => []OneObject
<1>1. Init => OutInv
  BY DEF Init, OutInv
<1>2. MemInv /\ OutInv /\ [Next]_vars => OutInv'
  <2>1. OutInv /\ (UNCHANGED vars \/ OtherSetenv) => OutInv'
    BY DEF OutInv, vars, OtherSetenv, fixed, conn, answer
  <2> QED BY <2>1, ApplicationOutInv, Step1OutInv DEF Next
<1>3. OutInv => OneObject
  BY DEF OutInv, OneObject
<1> QED BY MemoryInvariant, <1>1, <1>2, <1>3, PTL DEF Spec

-----------------------------------------------------------------------------
\* Undefined behaviour.

\* An entry with two bars has an issuer, though it may be an empty one.
LEMMA TwoBarsGiveIssuer ==
  ASSUME NEW e \in Texts, Cardinality(Bars(e)) >= 2
  PROVE  GroupUser(e).iss # NULL
<1> DEFINE a == BarAt(e)
           rest == AfterBar(e)
           n == Len(e)
<1>1. n \in Nat /\ IsFiniteSet(Bars(e))
  <2>1. n \in Nat
    BY DEF Texts
  <2>2. IsFiniteSet(1 .. n) /\ Bars(e) \in SUBSET (1 .. n)
    BY <2>1, FS_Interval DEF Bars
  <2> QED BY <2>1, <2>2, FS_Subset
<1>2. Bars(e) # {}
  BY <1>1, FS_EmptySet
<1>3. /\ a \in 1 .. n /\ a \in Bars(e)
      /\ \A k \in 1 .. n : k < a => e[k] # BAR
  <2>1. a # 0
    <3>1. Bars(e) \in SUBSET Nat
      BY <1>1 DEF Bars
    <3>2. Min(Bars(e)) \in Bars(e)
      BY <1>2, <3>1, MinIsLeast
    <3> QED BY <1>1, <1>2, <3>2 DEF BarAt, Bars
  <2> QED BY <1>1, <2>1, BarIsFirst DEF Bars
<1>4. PICK k \in Bars(e) : k # a
  <2>1. Bars(e) # {a}
    BY FS_Singleton
  <2> QED BY <1>3, <2>1
<1>5. k \in 1 .. n /\ e[k] = BAR /\ a < k
  BY <1>1, <1>3, <1>4 DEF Bars
<1>6. rest = SubSeq(e, a + 1, n)
  BY <1>1, <1>3 DEF AfterBar
<1>7. /\ rest \in Texts /\ rest # NULL
      /\ Len(rest) = n - a /\ rest[k - a] = BAR
  <2>1. /\ a + 1 \in 1 .. Len(e) + 1 /\ Len(e) \in 0 .. Len(e)
        /\ k - a \in 1 .. n - (a + 1) + 1 /\ (a + 1) + (k - a) - 1 = k
        /\ a + 1 <= n /\ n - (a + 1) + 1 = n - a
    <3>1. n = Len(e)
      OBVIOUS
    <3> HIDE DEF a, n
    <3> QED BY <1>1, <1>3, <1>5, <3>1
  <2>2. /\ SubSeq(e, a + 1, n) \in Texts /\ SubSeq(e, a + 1, n) # NULL
        /\ Len(SubSeq(e, a + 1, n)) =
             IF a + 1 <= n THEN n - (a + 1) + 1 ELSE 0
        /\ \A m \in 1 .. n - (a + 1) + 1 :
             SubSeq(e, a + 1, n)[m] = e[(a + 1) + m - 1]
    BY <2>1, PartIsText
  <2> HIDE DEF a, rest, n
  <2> QED BY <1>5, <1>6, <2>1, <2>2
<1> HIDE DEF a, n
<1>8. k - a \in Bars(rest)
  <2>1. k - a \in 1 .. Len(rest)
    BY <1>1, <1>3, <1>5, <1>7
  <2> QED BY <1>7, <2>1 DEF Bars
<1>9. BarAt(rest) \in 1 .. Len(rest)
  <2>1. Bars(rest) \in SUBSET Nat /\ Bars(rest) # {}
    BY <1>8 DEF Bars
  <2>2. Min(Bars(rest)) \in Bars(rest)
    BY <2>1, MinIsLeast
  <2> QED BY <2>1, <2>2 DEF BarAt, Bars
<1>10. AfterBar(rest) # NULL
  <2>1. /\ BarAt(rest) + 1 \in 1 .. Len(rest) + 1
        /\ Len(rest) \in 0 .. Len(rest)
        /\ BarAt(rest) # 0
    BY <1>7, <1>9 DEF Texts
  <2>2. AfterBar(rest) = SubSeq(rest, BarAt(rest) + 1, Len(rest))
    BY <2>1 DEF AfterBar
  <2> QED BY <1>7, <2>1, <2>2, PartIsText
<1> QED BY <1>7, <1>10 DEF GroupUser

\* With fewer than two bars, it has none that the code could read.
LEMMA NoIssuerIsShort ==
  ASSUME NEW e \in Texts, GroupUser(e).iss = NULL
  PROVE  Cardinality(Bars(e)) < 2
<1>1. IsFiniteSet(Bars(e))
  <2>1. Len(e) \in Nat
    BY DEF Texts
  <2>2. IsFiniteSet(1 .. Len(e)) /\ Bars(e) \in SUBSET (1 .. Len(e))
    BY <2>1, FS_Interval DEF Bars
  <2> QED BY <2>2, FS_Subset
<1>2. Cardinality(Bars(e)) \in Nat
  BY <1>1, FS_CardinalityType
<1>3. ~ (Cardinality(Bars(e)) >= 2)
  BY TwoBarsGiveIssuer
<1> QED BY <1>2, <1>3

\* What stands once an issuer is known: the token was verified.
LEMMA IssuedIsVerified ==
  ASSUME CheckInv, pc \in Issued
  PROVE  /\ Bearer(req) /\ canon = authid
         /\ CString(req.token) \in DOMAIN Jwts /\ Verified(jwt)
BY DEF CheckInv, Issued, Tested, Scoped, Deserializes, Verified

LEMMA TestedIsForUs ==
  ASSUME SpacedAuds, TypeOK, CheckInv, pc \in Tested
  PROVE  ForUs(jwt)
<1>1. WordSet(settings.aud, {SP}) \subseteq WordSet(settings.aud, Blanks)
  BY SpacesAreBlanks, OptionTexts DEF SpacedAuds, TypeOK
<1> QED BY <1>1 DEF CheckInv, ForUs, EnforcerTest, AudList

\* Words that the loops have passed over grant nothing.
LEMMA NoClaimGrants ==
  ASSUME BarlessClaims, TypeOK, Deserializes,
         NoClaim(WordSet(settings.user_claim, Blanks))
  PROVE  \/ MayFail("claim")
         \/ \A e \in WordSet(settings.user_claim, Blanks) :
              ~ClaimGrants(e, jwt, authid)
<1> SUFFICES ASSUME ~MayFail("claim"),
                    NEW e \in WordSet(settings.user_claim, Blanks),
                    ClaimGrants(e, jwt, authid)
             PROVE  FALSE
  OBVIOUS
<1>1. PICK c \in DOMAIN jwt.claims :
        /\ jwt.claims[c] = authid
        /\ e = c \/ e = c \o <<BAR>> \o jwt.iss
  BY DEF ClaimGrants
<1>2. e \in Texts /\ c \in Texts /\ Bars(c) = {} /\ jwt.iss \in Texts
  BY WordsAreTexts, OptionTexts, IssuerIsText
     DEF BarlessClaims, jwt, Deserializes, TypeOK
<1>3. UserClaimHolds(UserClaim(e))
  BY <1>1, <1>2, ClaimWordHolds
<1> QED BY <1>3 DEF NoClaim

LEMMA PassedAreWords ==
  ASSUME NEW t, NEW n
  PROVE  Passed(t, n) \subseteq WordSet(t, Blanks)
BY DEF Passed, WordSet

LEMMA NoGroupGrants ==
  ASSUME TypeOK, NEW n, NoGroup(Passed(settings.group_user, n))
  PROVE  \A e \in Passed(settings.group_user, n) : ~GroupGrants(e, jwt, authid)
<1> SUFFICES ASSUME NEW e \in Passed(settings.group_user, n),
                    GroupGrants(e, jwt, authid)
             PROVE  FALSE
  OBVIOUS
<1>1. e \in Texts /\ \A k \in 1 .. Len(e) : e[k] \notin Blanks
  BY PassedAreWords, WordsAreTexts, WordsHaveNoBlanks, OptionTexts
<1> QED BY <1>1, GroupWordHolds DEF NoGroup

\* A word that ends before the next one ends before the cursor.
LEMMA PassedBefore ==
  ASSUME NEW t \in Texts, NEW n \in Nat \ {0}, NEW w \in NextWord(t, n)
  PROVE  Passed(t, w[1]) \subseteq Passed(t, n)
<1>1. /\ w[1] \in 1 .. Len(t) /\ Len(t) \in Nat
      /\ \A k \in n .. w[1] - 1 : t[k] \in Blanks
  BY DEF NextWord, Texts
<1>2. ASSUME NEW a \in 1 .. Len(t), NEW b \in 1 .. Len(t),
             IsWord(t, Blanks, a, b), b < w[1]
      PROVE  b < n
  <2> SUFFICES ASSUME ~ (b < n) PROVE FALSE
    OBVIOUS
  <2>1. b \in n .. w[1] - 1 /\ b \in a .. b
    BY <1>1, <1>2 DEF IsWord
  <2> QED BY <1>1, <1>2, <2>1 DEF IsWord
<1> QED BY <1>2 DEF Passed

\* The steps that end the process, each with what it has found.
LEMMA AbortingSteps ==
  ASSUME Next, pc # "aborted", pc' = "aborted"
  PROVE  NoInput \/ AudListFails \/ GetScopeAborts \/ TryGroupUserAborts
<1>1. ASSUME Application PROVE NoInput
  BY <1>1 DEF Application, MechNew, MechNewFails, Dispose, Step2, NoBuffer,
              Receive, Called
<1>2. ASSUME Step1
      PROVE  AudListFails \/ GetScopeAborts \/ TryGroupUserAborts
  BY <1>2
     DEF Step1, BadMessage, CanonUser, CanonUserFails, SetProxies,
         Deserialize, DeserializeFails, GetIssuer, GetIssuerFails,
         CreateEnforcer, CreateEnforcerFails, TestEnforcer,
         TestEnforcerFails, GetScope, GetScopeFails, CheckScope,
         CheckScopeFails, TryUserClaim, UserClaimFails, UserClaimsDone,
         TryGroupUser, GroupUsersDone, Release, Accept, Refuse, RefuseFails,
         Out, IntrospectReturns
<1>3. ~OtherSetenv
  BY DEF OtherSetenv
<1> QED BY <1>1, <1>2, <1>3 DEF Next

\* A short entry that is next means that the claims and the entries before it
\* grant nothing.
LEMMA GroupAbortExplained ==
  ASSUME BarlessClaims, TypeOK, CheckInv, RefuseInv, TryGroupUserAborts
  PROVE  /\ ScopeGranted(jwt)
         /\ \/ MayFail("claim")
            \/ \A e \in WordSet(settings.user_claim, Blanks) :
                 ~ClaimGrants(e, jwt, authid)
         /\ ShortEntryReached
<1> DEFINE g == settings.group_user
<1>1. PICK w \in NextWord(g, cursor) :
        GroupUser(SubSeq(g, w[1], w[2])).iss = NULL
  BY DEF TryGroupUserAborts
<1>2. /\ pc = "group_user" /\ Deserializes /\ ScopeOK
      /\ NoClaim(WordSet(settings.user_claim, Blanks))
      /\ NoGroup(Passed(g, cursor))
      /\ g \in Texts /\ cursor \in Nat \ {0}
  BY OptionTexts
     DEF TryGroupUserAborts, CheckInv, RefuseInv, Issued, Tested, Scoped,
         TypeOK
<1>3. ScopeGranted(jwt)
  BY <1>2 DEF ScopeOK, HasStr, ScopeGranted
<1>4. /\ w[1] \in 1 .. Len(g) /\ w[2] \in 1 .. Len(g)
      /\ IsWord(g, Blanks, w[1], w[2])
  BY <1>1 DEF NextWord
<1>5. Cardinality(Bars(SubSeq(g, w[1], w[2]))) < 2
  <2>1. SubSeq(g, w[1], w[2]) \in Texts
    BY <1>1, <1>2, NextWordInWordSet, WordsAreTexts
  <2> QED BY <1>1, <2>1, NoIssuerIsShort
<1>6. \A e \in Passed(g, w[1]) : ~GroupGrants(e, jwt, authid)
  BY <1>1, <1>2, PassedBefore, NoGroupGrants
<1>7. ShortEntryReached
  BY <1>4, <1>5, <1>6 DEF ShortEntryReached
<1> QED BY <1>2, <1>3, <1>7, NoClaimGrants

\* What an explanation speaks of stays as it was.
LEMMA ReasonsStay ==
  ASSUME UNCHANGED <<faults, settings, req>>
  PROVE  /\ authid' = authid /\ jwt' = jwt
         /\ Verified(jwt)' <=> Verified(jwt)
         /\ ForUs(jwt)' <=> ForUs(jwt)
         /\ ScopeGranted(jwt)' <=> ScopeGranted(jwt)
         /\ ShortEntryReached' <=> ShortEntryReached
         /\ \A e : ClaimGrants(e, jwt, authid)' <=> ClaimGrants(e, jwt, authid)
         /\ \A f : MayFail(f)' <=> MayFail(f)
<1>1. authid' = authid /\ jwt' = jwt
  BY DEF authid, jwt
<1>2. /\ Verified(jwt)' <=> Verified(jwt)
      /\ ForUs(jwt)' <=> ForUs(jwt)
      /\ ScopeGranted(jwt)' <=> ScopeGranted(jwt)
      /\ ShortEntryReached' <=> ShortEntryReached
  BY <1>1 DEF Verified, ForUs, ScopeGranted, ShortEntryReached
<1>3. \A e : ClaimGrants(e, jwt, authid)' <=> ClaimGrants(e, jwt, authid)
  BY <1>1 DEF ClaimGrants
<1>4. \A f : MayFail(f)' <=> MayFail(f)
  BY DEF MayFail
<1> QED BY <1>1, <1>2, <1>3, <1>4

LEMMA NewAbortExplained ==
  ASSUME SpacedAuds, BarlessClaims, TypeOK, MemInv, CheckInv, RefuseInv,
         Next, pc # "aborted", pc' = "aborted"
  PROVE  AbortsExplained'
<1>1. CASE NoInput
  <2>1. "resp" \notin heap /\ UNCHANGED heap
    BY <1>1 DEF NoInput, Called, MemInv, Owned, Held, InStep, NoContext, memory
  <2>2. MayFail("null_input")'
    BY <1>1, FixedStay DEF NoInput, MayFail
  <2> QED BY <2>1, <2>2 DEF AbortsExplained
<1>2. CASE AudListFails \/ GetScopeAborts \/ TryGroupUserAborts
  <2>1. /\ pc \in Issued
        /\ UNCHANGED <<faults, settings, req, canon, heap>>
    BY <1>2 DEF AudListFails, GetScopeAborts, NoScope, TryGroupUserAborts,
                Abort, Issued, Tested, Scoped, fixed, local, memory
  <2>2. /\ Bearer(req) /\ canon = authid
        /\ CString(req.token) \in DOMAIN Jwts /\ Verified(jwt)
    BY <2>1, IssuedIsVerified
  <2>3. \/ /\ "scope_claim" \notin heap
           /\ \/ MayFail("malloc")
              \/ ForUs(jwt) /\ (jwt.scope = NULL \/ MayFail("scope"))
        \/ /\ ForUs(jwt) /\ ScopeGranted(jwt)
           /\ \/ MayFail("claim")
              \/ \A e \in WordSet(settings.user_claim, Blanks) :
                   ~ClaimGrants(e, jwt, authid)
           /\ ShortEntryReached
    <3>1. CASE AudListFails
      BY <3>1 DEF AudListFails, MemInv, Owned, Held, InStep
    <3>2. CASE GetScopeAborts
      <4>1. ForUs(jwt)
        BY <3>2, TestedIsForUs DEF GetScopeAborts, NoScope, Tested
      <4>2. "scope_claim" \notin heap
        BY <3>2 DEF GetScopeAborts, NoScope, MemInv, Owned, Held, InStep
      <4> QED BY <3>2, <4>1, <4>2 DEF GetScopeAborts, NoScope
    <3>3. CASE TryGroupUserAborts
      <4>1. ForUs(jwt)
        BY <3>3, TestedIsForUs DEF TryGroupUserAborts, Tested, Scoped
      <4> QED BY <3>3, <4>1, GroupAbortExplained
    <3> QED BY <1>2, <3>1, <3>2, <3>3
  <2> QED BY <2>1, <2>2, <2>3, ReasonsStay DEF AbortsExplained
<1> QED BY <1>1, <1>2, AbortingSteps

(***************************************************************************)
(* Whatever the tokens, the options and the messages are and whichever     *)
(* calls fail: a step that has its input ends the process only with a      *)
(* verified token, at one of three places and for the reason given there.  *)
(***************************************************************************)
THEOREM EachAbortExplained ==
  ASSUME SpacedAuds, BarlessClaims
  PROVE  Spec => []AbortsExplained
<1>1. Init => AbortsExplained
  BY DEF Init, AbortsExplained
<1>2. TypeOK /\ MemInv /\ CheckInv /\ RefuseInv /\ AbortsExplained /\ [Next]_vars
        => AbortsExplained'
  <2> SUFFICES ASSUME TypeOK, MemInv, CheckInv, RefuseInv, AbortsExplained,
                      [Next]_vars
               PROVE  AbortsExplained'
    OBVIOUS
  <2>1. CASE UNCHANGED vars
    <3>1. UNCHANGED <<faults, settings, req, canon, heap, pc>>
      BY <2>1 DEF vars, fixed, local, memory
    <3> QED BY <3>1, ReasonsStay DEF AbortsExplained
  <2>2. CASE Next /\ pc # "aborted"
    <3>1. CASE pc' = "aborted"
      BY <2>2, <3>1, NewAbortExplained
    <3>2. CASE pc' # "aborted"
      BY <3>2 DEF AbortsExplained
    <3> QED BY <3>1, <3>2
  <2>3. ~ (Next /\ pc = "aborted")
    BY DEF Next, Application, MechNew, MechNewFails, Dispose, Step2, NoInput,
           NoBuffer, Receive, Called, OtherSetenv,
           Step1, BadMessage, CanonUser, CanonUserFails, SetProxies,
           Deserialize, DeserializeFails, GetIssuer, GetIssuerFails,
           CreateEnforcer, CreateEnforcerFails, AudListFails, TestEnforcer,
           TestEnforcerFails, GetScope, GetScopeAborts, GetScopeFails, NoScope,
           CheckScope, CheckScopeFails, TryUserClaim, UserClaimFails,
           UserClaimsDone, TryGroupUser, TryGroupUserAborts, GroupUsersDone,
           Release, Accept, Refuse, RefuseFails
  <2> QED BY <2>1, <2>2, <2>3
<1> QED BY TypeCorrect, MemoryInvariant, ChecksInvariant, RefuseInvariant,
           <1>1, <1>2, PTL DEF Spec
=============================================================================
