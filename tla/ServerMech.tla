----------------------------- MODULE ServerMech -----------------------------
(***************************************************************************)
(* One connection of the server-side plug-in (xoauth2_server.c): what      *)
(* mech_new, mech_step and mech_dispose do to the context, and inside a    *)
(* step the calls of step 1 and of introspect_token in their order, each   *)
(* with its failure.  The application calls at most one of the three at a  *)
(* time, and may call mech_step again whatever the last call returned.     *)
(***************************************************************************)
EXTENDS Wildcard, Text, InitialResponse

CONSTANTS
  Messages,   \* what the application passes on from the client
  Jwts,       \* what each token of the messages says, by token
  Settings,   \* what plug_init may have read from the options
  Environs,   \* the proxy variables the process may start with
  FaultSets,  \* which calls may fail together for reasons of their own
  MaxCalls    \* bound: how often the application calls mech_step

\* The calls that may fail, and the caller that passes no input.
FaultKinds == {"malloc", "canon_user", "deserialize", "issuer", "enforcer",
               "test", "scope", "claim", "null_input"}

\* A genuine token is signed by a key of its issuer and has not expired.
\* The scope claim may be missing.
JwtOK(t) ==
  /\ DOMAIN t = {"genuine", "iss", "aud", "scope", "claims"}
  /\ t.genuine \in BOOLEAN
  /\ t.iss \in Texts \cup {NULL} /\ t.scope \in Texts \cup {NULL}

\* The options as they are written, but the issuers, cut into words: at
\* least one, as what no issuer means is for the library to say.
SettingOK(s) ==
  /\ DOMAIN s = {"scope", "aud", "user_claim", "group_user", "issuers",
                 "proxy", "no_proxy"}
  /\ \A f \in {"scope", "aud", "user_claim", "group_user"} : s[f] \in Texts
  /\ s.issuers \subseteq Texts /\ s.issuers # {}
  /\ s.proxy \in Seq(STRING) /\ s.no_proxy \in Seq(STRING)

Proxies == {"http_proxy", "https_proxy"}
EnvNames == Proxies \cup {"no_proxy"}

EnvOK(e) == e \in [EnvNames -> Seq(STRING)]

ASSUME ServerAssumption ==
  /\ Messages \subseteq Texts
  /\ \A k \in DOMAIN Jwts : JwtOK(Jwts[k])
  /\ \A s \in Settings : SettingOK(s)
  /\ \A e \in Environs : EnvOK(e)
  /\ FaultSets \subseteq SUBSET FaultKinds
  /\ MaxCalls \in Nat

VARIABLES
  faults,      \* the calls that may fail in this process
  settings,    \* glob_context: the options, never changed after plug_init
  env,         \* of the process's environment, the proxies; NULL: not set
  state,       \* context->state, or NoContext
  saved,       \* the block context->resp.buf points to, if any
  outbuf,      \* context->outbuf: the objects written to it so far
  pc,          \* "idle", or the call that step 1 is about to make
  req,         \* resp: what the message says
  cursor,      \* the position in the option being read
  user_ok,     \* the local variable of introspect_token
  canon,       \* the user in oparams
  ret,         \* what the last call of mech_step returned
  serverout,   \* the challenge it handed out
  heap,        \* the blocks allocated and not yet freed
  lost,        \* of them, those no pointer leads to any more
  misfreed,    \* blocks that were freed when they were not allocated
  calls

fixed == <<faults, settings>>
conn == <<state, saved, outbuf>>
local == <<req, cursor, user_ok>>
answer == <<ret, serverout>>
memory == <<heap, lost, misfreed>>
vars == <<fixed, env, conn, pc, local, canon, answer, memory, calls>>

\* The blocks only introspect_token has pointers to.
Locals == {"scitoken", "issuer_ptr", "enf", "scope_claim"}

\* What state says before mech_new and after mech_dispose.
NoContext == -1

NoReq == [ok |-> FALSE, authid |-> <<>>, type |-> <<>>, token |-> <<>>]

jwt == Jwts[CString(req.token)]
authid == CString(req.authid)

MayFail(call) == call \in faults

Init ==
  /\ faults \in FaultSets
  /\ settings \in Settings
  /\ env \in Environs
  /\ state = NoContext /\ saved = {} /\ outbuf = <<>>
  /\ pc = "idle"
  /\ req = NoReq /\ cursor = 1 /\ user_ok = 0
  /\ canon = NULL
  /\ ret = "none" /\ serverout = NULL
  /\ heap = {} /\ lost = {} /\ misfreed = {}
  /\ calls = 0
-----------------------------------------------------------------------------
\* Memory.

Alloc(block) ==
  /\ heap' = heap \cup {block}
  /\ lost' = IF block \in heap THEN lost \cup {block} ELSE lost
  /\ UNCHANGED misfreed

Free(blocks) ==
  /\ heap' = heap \ blocks
  /\ misfreed' = misfreed \cup (blocks \ heap)
  /\ UNCHANGED lost

(***************************************************************************)
(* The end of a step that went no further than step 1's label "out": resp  *)
(* is freed and r returned, and with it nothing for the client.            *)
(***************************************************************************)
Out(r) ==
  /\ Free({"resp"})
  /\ ret' = r
  /\ serverout' = NULL
  /\ pc' = "idle"

(***************************************************************************)
(* introspect_token returns err and has freed what it names; the pointers  *)
(* to the rest go with it.  Step 1 looks only at whether err is SASL_OK.   *)
(***************************************************************************)
IntrospectReturns(err, freed) ==
  /\ heap' = heap \ freed
  /\ misfreed' = misfreed \cup (freed \ heap)
  /\ lost' = lost \cup ((heap \cap Locals) \ freed)
  /\ pc' = IF err = "SASL_OK" THEN "accept" ELSE "refuse"

\* Undefined behaviour that ends the process.
Abort ==
  /\ pc' = "aborted"
  /\ UNCHANGED <<fixed, env, conn, local, canon, answer, memory, calls>>
-----------------------------------------------------------------------------
\* The application's calls.

\* Mutant of MechNew: outbuf is not initialised.
MechNewUninit ==
  /\ state = NoContext /\ pc = "idle"
  /\ state' = 0
  /\ saved' = {}
  /\ outbuf' = <<"garbage">>
  /\ ret' = "none" /\ serverout' = NULL
  /\ Alloc("context")
  /\ UNCHANGED <<fixed, env, pc, local, canon, calls>>

MechNew ==
  /\ state = NoContext /\ pc = "idle"
  /\ state' = 0
  /\ saved' = {}
  /\ outbuf' = <<>>
  /\ ret' = "none" /\ serverout' = NULL
  /\ Alloc("context")
  /\ UNCHANGED <<fixed, env, pc, local, canon, calls>>

MechNewFails ==
  /\ state = NoContext /\ pc = "idle" /\ MayFail("malloc")
  /\ ret' = "SASL_NOMEM" /\ serverout' = NULL
  /\ UNCHANGED <<fixed, env, conn, pc, local, canon, memory, calls>>

Called ==
  /\ pc = "idle" /\ calls < MaxCalls
  /\ calls' = calls + 1

\* Mutant of Step2: the answer to the challenge is taken for success.
Step2Succeeds ==
  /\ state = 1 /\ Called
  /\ ret' = "SASL_OK" /\ serverout' = NULL
  /\ UNCHANGED <<fixed, env, conn, pc, local, canon, memory>>

Step2 ==
  /\ state = 1 /\ Called
  /\ ret' = "SASL_FAIL" /\ serverout' = NULL
  /\ UNCHANGED <<fixed, env, conn, pc, local, canon, memory>>

\* Without input, "out" frees a resp.buf that was never set.
NoInput ==
  /\ state = 0 /\ Called /\ MayFail("null_input")
  /\ \/ ret' = "SASL_BADPROT" /\ pc' = "idle"
     \/ UNCHANGED ret /\ pc' = "aborted"
  /\ serverout' = NULL
  /\ UNCHANGED <<fixed, env, conn, local, canon, memory>>

NoBuffer ==
  /\ state = 0 /\ Called /\ MayFail("malloc")
  /\ ret' = "SASL_NOMEM" /\ serverout' = NULL
  /\ UNCHANGED <<fixed, env, conn, pc, local, canon, memory>>

Receive ==
  /\ state = 0 /\ Called
  /\ \E m \in Messages : req' = Parse(m)
  /\ Alloc("resp")
  /\ serverout' = NULL
  /\ pc' = "parsed"
  /\ UNCHANGED <<fixed, env, conn, cursor, user_ok, canon, ret>>

\* Mutant of Dispose: the response that the context kept is not freed.
DisposeKeepsResp ==
  /\ state # NoContext /\ pc = "idle"
  /\ Free({"context"} \cup (IF outbuf # <<>> THEN {"outbuf"} ELSE {}))
  /\ state' = NoContext /\ saved' = {} /\ outbuf' = <<>>
  /\ ret' = "none" /\ serverout' = NULL
  /\ UNCHANGED <<fixed, env, pc, local, canon, calls>>

Dispose ==
  /\ state # NoContext /\ pc = "idle"
  /\ Free({"context"} \cup saved
                      \cup (IF outbuf # <<>> THEN {"outbuf"} ELSE {}))
  /\ state' = NoContext /\ saved' = {} /\ outbuf' = <<>>
  /\ ret' = "none" /\ serverout' = NULL
  /\ UNCHANGED <<fixed, env, pc, local, canon, calls>>
-----------------------------------------------------------------------------
\* Step 1 up to the inspection of the token.

BadMessage ==
  /\ pc = "parsed" /\ ~Bearer(req)
  /\ Out("SASL_BADPROT")
  /\ UNCHANGED <<fixed, env, conn, local, canon, calls>>

CanonUser ==
  /\ pc = "parsed" /\ Bearer(req)
  /\ canon' = authid
  /\ pc' = "proxy"
  /\ UNCHANGED <<fixed, env, conn, local, answer, memory, calls>>

CanonUserFails ==
  /\ pc = "parsed" /\ Bearer(req) /\ MayFail("canon_user")
  /\ pc' = "refuse"
  /\ UNCHANGED <<fixed, env, conn, local, canon, answer, memory, calls>>
-----------------------------------------------------------------------------
\* introspect_token, call by call.

(***************************************************************************)
(* setenv without overwriting, for a set of variables, when the option for *)
(* them is set.                                                            *)
(***************************************************************************)
ProxyOption(v) == IF v \in Proxies THEN settings.proxy ELSE settings.no_proxy

Exported(names) ==
  [v \in EnvNames |->
     IF env[v] = NULL /\ v \in names THEN ProxyOption(v) ELSE env[v]]

\* Mutant of SetProxies: a proxy that is there spares the rest.
SetProxiesOnce ==
  /\ pc = "proxy"
  /\ env' = IF env["http_proxy"] # NULL THEN env ELSE Exported(EnvNames)
  /\ pc' = "deserialize"
  /\ UNCHANGED <<fixed, conn, local, canon, answer, memory, calls>>

\* When it fails for one of the two proxies the code goes on without the next.
SetProxies ==
  /\ pc = "proxy"
  /\ \E names \in IF MayFail("malloc")
                   THEN {n \cup m : n \in {{}, {"http_proxy"}, Proxies},
                                   m \in {{}, {"no_proxy"}}}
                   ELSE {EnvNames} :
       env' = Exported(names)
  /\ pc' = "deserialize"
  /\ UNCHANGED <<fixed, conn, local, canon, answer, memory, calls>>

(***************************************************************************)
(* The same in the thread of any other connection of the process, one      *)
(* setenv at a time and in their order.                                    *)
(***************************************************************************)
OtherSetenv ==
  /\ pc # "aborted"
  /\ \E v \in EnvNames :
       /\ v = "https_proxy" => env["http_proxy"] # NULL
       /\ v = "no_proxy" /\ ~MayFail("malloc") =>
            settings.proxy = NULL \/ \A w \in Proxies : env[w] # NULL
       /\ env' = Exported({v})
  /\ UNCHANGED <<fixed, conn, pc, local, canon, answer, memory, calls>>

(***************************************************************************)
(* The scitokens library: a token is taken when it is genuine and its      *)
(* issuer is one of the list, and an enforcer lets it pass when it is for  *)
(* one of the audiences.                                                   *)
(***************************************************************************)
Deserializes ==
  /\ CString(req.token) \in DOMAIN Jwts
  /\ jwt.genuine
  /\ jwt.iss \in settings.issuers

\* The list of audiences is cut at spaces only.
AudList == WordSet(settings.aud, {SP})

EnforcerTest == jwt.aud \cap AudList # {}

\* Mutant of HasStr: the words are cut at spaces only.
HasStrSpaced(words, patterns) ==
  \E w \in WordSet(words, {SP}), p \in WordSet(patterns, Blanks) :
    Matches(w, p)

HasStr(words, patterns) ==
  \E w \in WordSet(words, Blanks), p \in WordSet(patterns, Blanks) :
    Matches(w, p)

Deserialize ==
  /\ pc = "deserialize" /\ Deserializes
  /\ Alloc("scitoken")
  /\ pc' = "issuer"
  /\ UNCHANGED <<fixed, env, conn, local, canon, answer, calls>>

\* Mutant of DeserializeFails: a token that cannot be read returns 0 too.
DeserializeFailsMasked ==
  /\ pc = "deserialize" /\ (~Deserializes \/ MayFail("deserialize"))
  /\ IntrospectReturns("SASL_OK", {})
  /\ UNCHANGED <<fixed, env, conn, local, canon, answer, calls>>

DeserializeFails ==
  /\ pc = "deserialize" /\ (~Deserializes \/ MayFail("deserialize"))
  /\ IntrospectReturns("SASL_FAIL", {})
  /\ UNCHANGED <<fixed, env, conn, local, canon, answer, calls>>

GetIssuer ==
  /\ pc = "issuer" /\ jwt.iss # NULL
  /\ Alloc("issuer_ptr")
  /\ pc' = "enforcer"
  /\ UNCHANGED <<fixed, env, conn, local, canon, answer, calls>>

\* return (0), which is SASL_OK
GetIssuerFails ==
  /\ pc = "issuer" /\ (jwt.iss = NULL \/ MayFail("issuer"))
  /\ IntrospectReturns("SASL_OK", {"scitoken"})
  /\ UNCHANGED <<fixed, env, conn, local, canon, answer, calls>>

CreateEnforcer ==
  /\ pc = "enforcer"
  /\ Alloc("enf")
  /\ pc' = "test"
  /\ UNCHANGED <<fixed, env, conn, local, canon, answer, calls>>

\* return (0) here too
CreateEnforcerFails ==
  /\ pc = "enforcer" /\ MayFail("enforcer")
  /\ IntrospectReturns("SASL_OK", {"scitoken", "issuer_ptr"})
  /\ UNCHANGED <<fixed, env, conn, local, canon, answer, calls>>

\* The list is filled in although there was no memory for it.
AudListFails == pc = "enforcer" /\ MayFail("malloc") /\ Abort

TestEnforcer ==
  /\ pc = "test" /\ EnforcerTest
  /\ Free({"enf"})
  /\ pc' = "scope"
  /\ UNCHANGED <<fixed, env, conn, local, canon, answer, calls>>

\* enf is not destroyed on this way out
TestEnforcerFails ==
  /\ pc = "test" /\ (~EnforcerTest \/ MayFail("test"))
  /\ IntrospectReturns("SASL_FAIL", {"scitoken", "issuer_ptr"})
  /\ UNCHANGED <<fixed, env, conn, local, canon, answer, calls>>

GetScope ==
  /\ pc = "scope" /\ jwt.scope # NULL
  /\ Alloc("scope_claim")
  /\ pc' = "has_str"
  /\ UNCHANGED <<fixed, env, conn, local, canon, answer, calls>>

NoScope == pc = "scope" /\ (jwt.scope = NULL \/ MayFail("scope"))

\* scope_claim is freed before it was ever set: this may end the process,
GetScopeAborts == NoScope /\ Abort

\* or find a NULL there.
GetScopeFails ==
  /\ NoScope
  /\ IntrospectReturns("SASL_FAIL", {"issuer_ptr", "scitoken"})
  /\ UNCHANGED <<fixed, env, conn, local, canon, answer, calls>>

CheckScope ==
  /\ pc = "has_str" /\ HasStr(jwt.scope, settings.scope)
  /\ pc' = "user_claim"
  /\ cursor' = 1
  /\ user_ok' = 0
  /\ UNCHANGED <<fixed, env, conn, req, canon, answer, memory, calls>>

CheckScopeFails ==
  /\ pc = "has_str" /\ ~HasStr(jwt.scope, settings.scope)
  /\ IntrospectReturns("SASL_FAIL", {"scope_claim", "issuer_ptr", "scitoken"})
  /\ UNCHANGED <<fixed, env, conn, local, canon, answer, calls>>

\* The entry e names a claim of the token that holds the user's name.
UserClaimHolds(e) ==
  /\ e.iss = NULL \/ e.iss = jwt.iss
  /\ e.claim \in DOMAIN jwt.claims
  /\ jwt.claims[e.claim] = authid

\* One turn of the loop over xoauth2_user_claim.
TryUserClaim ==
  /\ pc = "user_claim"
  /\ \E w \in NextWord(settings.user_claim, cursor) :
       LET e == UserClaim(SubSeq(settings.user_claim, w[1], w[2]))
       IN  /\ cursor' = w[2] + 1
           /\ user_ok' = (IF UserClaimHolds(e) THEN 1 ELSE 0)
           /\ pc' = IF UserClaimHolds(e) THEN "release" ELSE "user_claim"
  /\ UNCHANGED <<fixed, env, conn, req, canon, answer, memory, calls>>

\* A claim that cannot be read is one entry less.
UserClaimFails ==
  /\ pc = "user_claim" /\ MayFail("claim")
  /\ \E w \in NextWord(settings.user_claim, cursor) : cursor' = w[2] + 1
  /\ UNCHANGED <<fixed, env, conn, pc, req, user_ok, canon, answer, memory,
                 calls>>

UserClaimsDone ==
  /\ pc = "user_claim" /\ NextWord(settings.user_claim, cursor) = {}
  /\ cursor' = 1
  /\ pc' = "group_user"
  /\ UNCHANGED <<fixed, env, conn, req, user_ok, canon, answer, memory,
                 calls>>

GroupUserHolds(e) ==
  /\ e.iss # <<>> /\ e.authority # <<>>
  /\ Matches(jwt.iss, e.iss)
  /\ HasStr(jwt.scope, e.authority)
  /\ e.group = authid

\* One turn of the loop over xoauth2_group_user.
TryGroupUser ==
  /\ pc = "group_user"
  /\ \E w \in NextWord(settings.group_user, cursor) :
       LET e == GroupUser(SubSeq(settings.group_user, w[1], w[2]))
       IN  /\ e.iss # NULL
           /\ cursor' = w[2] + 1
           /\ user_ok' = (IF GroupUserHolds(e) THEN 1 ELSE 0)
           /\ pc' = IF GroupUserHolds(e) THEN "release" ELSE "group_user"
  /\ UNCHANGED <<fixed, env, conn, req, canon, answer, memory, calls>>

\* An entry without an issuer is read through a NULL pointer.
TryGroupUserAborts ==
  /\ pc = "group_user"
  /\ \E w \in NextWord(settings.group_user, cursor) :
       GroupUser(SubSeq(settings.group_user, w[1], w[2])).iss = NULL
  /\ Abort

GroupUsersDone ==
  /\ pc = "group_user" /\ NextWord(settings.group_user, cursor) = {}
  /\ pc' = "release"
  /\ UNCHANGED <<fixed, env, conn, local, canon, answer, memory, calls>>

Release ==
  /\ pc = "release"
  /\ IntrospectReturns(IF user_ok = 1 THEN "SASL_OK" ELSE "SASL_FAIL",
                       {"issuer_ptr", "scope_claim", "scitoken"})
  /\ UNCHANGED <<fixed, env, conn, local, canon, answer, calls>>
-----------------------------------------------------------------------------
\* The end of step 1.

Accept ==
  /\ pc = "accept"
  /\ Out("SASL_OK")
  /\ UNCHANGED <<fixed, env, conn, local, canon, calls>>

\* The object with the status, the schemes and the scope, behind what outbuf
\* holds.
BuildJson == Append(outbuf, "json")

\* Mutant of Refuse: the state stays 0.
RefuseAgain ==
  /\ pc = "refuse"
  /\ outbuf' = BuildJson
  /\ saved' = {"resp"}
  /\ serverout' = outbuf'
  /\ heap' = heap \cup {"outbuf"}
  /\ ret' = "SASL_CONTINUE"
  /\ pc' = "idle"
  /\ UNCHANGED <<fixed, env, state, local, canon, lost, misfreed, calls>>

\* Mutant of Refuse: resp.buf is not cleared, and "out" frees it.
RefuseFreesResp ==
  /\ pc = "refuse"
  /\ outbuf' = BuildJson
  /\ state' = 1
  /\ saved' = {"resp"}
  /\ serverout' = outbuf'
  /\ heap' = (heap \cup {"outbuf"}) \ {"resp"}
  /\ ret' = "SASL_CONTINUE"
  /\ pc' = "idle"
  /\ UNCHANGED <<fixed, env, local, canon, lost, misfreed, calls>>

(***************************************************************************)
(* The refusal is a challenge that says 401: the context keeps resp, which *)
(* "out" then finds gone, and the next call goes to step 2.                *)
(***************************************************************************)
Refuse ==
  /\ pc = "refuse"
  /\ outbuf' = BuildJson
  /\ state' = 1
  /\ saved' = {"resp"}
  /\ serverout' = outbuf'
  /\ heap' = heap \cup {"outbuf"}
  /\ ret' = "SASL_CONTINUE"
  /\ pc' = "idle"
  /\ UNCHANGED <<fixed, env, local, canon, lost, misfreed, calls>>

(***************************************************************************)
(* Memory for the challenge runs out: at the first append, or with a part  *)
(* of it written, which stays in outbuf.                                   *)
(***************************************************************************)
RefuseFails ==
  /\ pc = "refuse" /\ MayFail("malloc")
  /\ \/ /\ UNCHANGED outbuf
        /\ heap' = heap \ {"resp"}
     \/ /\ outbuf' = Append(outbuf, "part")
        /\ heap' = (heap \cup {"outbuf"}) \ {"resp"}
  /\ misfreed' = misfreed \cup ({"resp"} \ heap)
  /\ ret' = "SASL_NOMEM"
  /\ serverout' = NULL
  /\ pc' = "idle"
  /\ UNCHANGED <<fixed, env, state, saved, local, canon, lost, calls>>
-----------------------------------------------------------------------------
Application ==
  \/ MechNew \/ MechNewFails \/ Dispose
  \/ Step2 \/ NoInput \/ NoBuffer \/ Receive

Step1 ==
  \/ BadMessage \/ CanonUser \/ CanonUserFails
  \/ SetProxies \/ Deserialize \/ DeserializeFails
  \/ GetIssuer \/ GetIssuerFails
  \/ CreateEnforcer \/ CreateEnforcerFails \/ AudListFails
  \/ TestEnforcer \/ TestEnforcerFails
  \/ GetScope \/ GetScopeAborts \/ GetScopeFails
  \/ CheckScope \/ CheckScopeFails
  \/ TryUserClaim \/ UserClaimFails \/ UserClaimsDone
  \/ TryGroupUser \/ TryGroupUserAborts \/ GroupUsersDone
  \/ Release
  \/ Accept \/ Refuse \/ RefuseFails

Next == Application \/ Step1 \/ OtherSetenv

Spec == Init /\ [][Next]_vars

\* A step that was called is carried out; nothing makes the application call.
FairSpec == Spec /\ WF_vars(Step1)
-----------------------------------------------------------------------------
Results == {"none", "SASL_OK", "SASL_CONTINUE", "SASL_FAIL", "SASL_BADPROT",
             "SASL_NOMEM"}

\* The calls that are reached with these checks passed.
Scoped == {"user_claim", "group_user", "release"}
Tested == {"scope", "has_str"} \cup Scoped
Issued == {"issuer", "enforcer", "test"} \cup Tested

InStep == {"parsed", "proxy", "deserialize", "issuer", "enforcer", "test",
           "scope", "has_str", "user_claim", "group_user", "release",
           "accept", "refuse"}

Blocks == {"context", "resp", "outbuf"} \cup Locals

TypeOK ==
  /\ faults \in FaultSets
  /\ settings \in Settings
  /\ EnvOK(env)
  /\ state \in {NoContext, 0, 1}
  /\ saved \subseteq {"resp"}
  /\ outbuf \in Seq({"json", "part"})
  /\ pc \in {"idle", "aborted"} \cup InStep
  /\ DOMAIN req = {"ok", "authid", "type", "token"}
  /\ cursor \in Nat \ {0}
  /\ user_ok \in {0, 1}
  /\ ret \in Results
  /\ heap \subseteq Blocks /\ lost \subseteq Blocks
  /\ misfreed \subseteq Blocks
  /\ calls \in 0 .. MaxCalls
-----------------------------------------------------------------------------
(***************************************************************************)
(* What the options permit, as doc/configuration.md says it, with no order *)
(* of evaluation: the user of the message against what the token says.     *)
(***************************************************************************)

\* The word e of xoauth2_user_claim grants access to user.
ClaimGrants(e, t, user) ==
  \E c \in DOMAIN t.claims :
    /\ t.claims[c] = user
    /\ e = c \/ e = c \o <<BAR>> \o t.iss

\* The word e of xoauth2_group_user, cut at its first two bars, does.
GroupGrants(e, t, user) ==
  \E a, b \in 1 .. Len(e) :
    /\ a + 1 < b /\ b < Len(e)
    /\ {k \in 1 .. b : e[k] = BAR} = {a, b}
    /\ SubSeq(e, 1, a - 1) = user
    /\ \E w \in WordSet(t.scope, Blanks) : Matches(w, SubSeq(e, a + 1, b - 1))
    /\ Matches(t.iss, SubSeq(e, b + 1, Len(e)))

Verified(t) == t.genuine /\ t.iss \in settings.issuers

ForUs(t) == t.aud \cap WordSet(settings.aud, Blanks) # {}

ScopeGranted(t) ==
  /\ t.scope # NULL
  /\ \E w \in WordSet(t.scope, Blanks), p \in WordSet(settings.scope, Blanks) :
       Matches(w, p)

Permitted(t, user) ==
  /\ Verified(t) /\ ForUs(t) /\ ScopeGranted(t)
  /\ \/ \E e \in WordSet(settings.user_claim, Blanks) : ClaimGrants(e, t, user)
     \/ \E e \in WordSet(settings.group_user, Blanks) : GroupGrants(e, t, user)

PermittedReq ==
  /\ CString(req.token) \in DOMAIN Jwts
  /\ Permitted(jwt, authid)

(***************************************************************************)
(* A step succeeds only for a well-formed message whose token permits the  *)
(* very user the connection then stands for: what CanonUser put into       *)
(* oparams before the token was looked at, and the eight checks of         *)
(* introspect_token after it, speak of the same message.                   *)
(***************************************************************************)
AcceptsPermitted ==
  pc = "idle" /\ ret = "SASL_OK" =>
    Bearer(req) /\ canon = authid /\ PermittedReq

\* Neither of the two calls whose failure introspect_token answers with 0.
ErrorsReported == faults \cap {"issuer", "enforcer"} = {}

(***************************************************************************)
(* So it is whatever other call fails: a failure on the way never ends in  *)
(* success, in this step or in one that is called after it.                *)
(***************************************************************************)
FailsClosed == ErrorsReported => AcceptsPermitted

(***************************************************************************)
(* When no call fails, a token that permits its user is not answered with  *)
(* the 401 challenge: no order of the words in the options, no earlier     *)
(* word that fails and no blank hides the word that grants access from the *)
(* loops.                                                                  *)
(***************************************************************************)
RefusesForbidden == state = 1 /\ faults = {} => ~PermittedReq

(***************************************************************************)
(* Refusing is final: a context that handed out the challenge is never in  *)
(* step 1 again and never accepts, however often it is called.             *)
(***************************************************************************)
RefusalIsFinal ==
  state = 1 => pc = "idle" /\ ret \in {"SASL_CONTINUE", "SASL_FAIL"}

(***************************************************************************)
(* Between two calls exactly the blocks that the context points to are     *)
(* allocated, besides what is lost for good, and nothing was freed twice:  *)
(* resp is freed by "out" or handed over to the context and freed by       *)
(* dispose, and introspect_token leaves none of its blocks behind on its   *)
(* eight ways out but the enforcer, which a failed test forgets.           *)
(***************************************************************************)
Owned ==
  (IF state = NoContext THEN {} ELSE {"context"})
    \cup saved
    \cup (IF outbuf = <<>> THEN {} ELSE {"outbuf"})

Ownership ==
  /\ misfreed = {}
  /\ pc = "idle" => heap \ lost = Owned
  /\ lost \subseteq {"enf"}

(***************************************************************************)
(* The challenge is one JSON object, unless memory runs out: outbuf is     *)
(* never emptied, so a second refusal on one context would be written      *)
(* behind the first.                                                       *)
(***************************************************************************)
OneObject ==
  serverout # NULL /\ "malloc" \notin faults => serverout = <<"json">>

(***************************************************************************)
(* With input, memory, scopes that can be read and complete entries in     *)
(* xoauth2_group_user no step ends the process.  A token without a scope   *)
(* is enough to refute this.                                               *)
(***************************************************************************)
NeverAborts ==
  /\ faults \cap {"null_input", "malloc", "scope"} = {}
  /\ \A e \in WordSet(settings.group_user, Blanks) : Cardinality(Bars(e)) >= 2
  => pc # "aborted"

\* The words that end before n.
Passed(text, n) ==
  {SubSeq(text, s[1], s[2]) :
     s \in {p \in (1 .. Len(text)) \X (1 .. Len(text)) :
              IsWord(text, Blanks, p[1], p[2]) /\ p[2] < n}}

\* xoauth2_group_user has an entry without all its fields, and none before
\* it grants access.
ShortEntryReached ==
  LET g == settings.group_user
  IN  \E a, b \in 1 .. Len(g) :
        /\ IsWord(g, Blanks, a, b)
        /\ Cardinality(Bars(SubSeq(g, a, b))) < 2
        /\ \A e \in Passed(g, a) : ~GroupGrants(e, jwt, authid)

(***************************************************************************)
(* Where a step ends the process, in spite of failures handled by hand.    *)
(* A message can do so only with a token that a listed issuer has signed;  *)
(* then for want of memory, or at a scope that is not there or cannot be   *)
(* read, but only when the token is for this server; or, past the scope,   *)
(* at an entry of xoauth2_group_user without all its fields, but only for  *)
(* a user to whom no claim and no entry before that one grants access.     *)
(* All else that is missing, empty or cut short in messages, tokens and    *)
(* options, and every other failure, is survived.                          *)
(***************************************************************************)
AbortsExplained ==
  pc = "aborted" =>
    \/ MayFail("null_input") /\ "resp" \notin heap
    \/ /\ Bearer(req) /\ canon = authid
       /\ CString(req.token) \in DOMAIN Jwts /\ Verified(jwt)
       /\ \/ /\ "scope_claim" \notin heap
             /\ \/ MayFail("malloc")
                \/ ForUs(jwt) /\ (jwt.scope = NULL \/ MayFail("scope"))
          \/ /\ ForUs(jwt) /\ ScopeGranted(jwt)
             /\ \/ MayFail("claim")
                \/ \A e \in WordSet(settings.user_claim, Blanks) :
                     ~ClaimGrants(e, jwt, authid)
             /\ ShortEntryReached

(***************************************************************************)
(* The environment has settled when the library comes to read it: while it *)
(* verifies the token, no other connection of the process changes a proxy  *)
(* variable under it, although all of them set theirs in every step.  A    *)
(* setenv that finds no memory leaves its variable to a later one.         *)
(***************************************************************************)
EnvSettles ==
  [][~MayFail("malloc") /\ pc \in {"deserialize"} \cup Issued
       => env' = env]_vars

(***************************************************************************)
(* Every step that is called returns: the two loops over the options end.  *)
(***************************************************************************)
StepReturns == pc \in InStep ~> pc \in {"idle", "aborted"}
(***************************************************************************)
(* A connection keeps what ServerRole promises to the client's side: each  *)
(* message that can be read gets one verdict, which is that of the options *)
(* unless a call fails, and a refusal is final.  What is permitted is      *)
(* everything where a failure counts as success.                           *)
(***************************************************************************)
phase ==
  IF pc = "aborted" THEN "dead"
  ELSE IF state = NoContext THEN "none"
  ELSE IF pc \in InStep THEN "busy"
  ELSE IF state = 1 THEN "over" ELSE "ready"

Role == INSTANCE ServerRole WITH
  request <- Asks(req), permitted <- PermittedReq \/ ~ErrorsReported,
  faulty <- faults # {}, user <- canon, answer <- ret

KeepsRole == Role!Spec
-----------------------------------------------------------------------------
\* What makes the properties of memory inductive.

Held ==
  CASE pc = "issuer" -> {"scitoken"}
    [] pc \in {"enforcer", "test", "scope"} -> {"scitoken", "issuer_ptr"}
    [] pc \in {"has_str", "user_claim", "group_user", "release"} ->
         {"scitoken", "issuer_ptr", "scope_claim"}
    [] OTHER -> {}

(***************************************************************************)
(* At every call inside a step just what was allocated on the way to it is *)
(* allocated.  An enforcer that is there other than for its test is lost.  *)
(***************************************************************************)
MemInv ==
  /\ misfreed = {}
  /\ lost \subseteq {"enf"}
  /\ pc # "aborted" =>
       heap \ {"enf"} =
         Owned \cup Held \cup (IF pc \in InStep THEN {"resp"} ELSE {})
  /\ pc = "test" => "enf" \in heap
  /\ pc \notin {"test", "aborted"} => ("enf" \in heap => "enf" \in lost)
  /\ pc \in InStep => state = 0
  /\ saved = IF state = 1 THEN {"resp"} ELSE {}
  /\ state = NoContext => outbuf = <<>>
  /\ state = 1 => pc = "idle" /\ ret \in {"SASL_CONTINUE", "SASL_FAIL"}
-----------------------------------------------------------------------------
\* What makes AcceptsPermitted inductive.

Granted ==
  \/ \E e \in WordSet(settings.user_claim, Blanks) :
       UserClaimHolds(UserClaim(e))
  \/ \E e \in WordSet(settings.group_user, Blanks) :
       GroupUserHolds(GroupUser(e)) /\ GroupUser(e).iss # NULL

ScopeOK == jwt.scope # NULL /\ HasStr(jwt.scope, settings.scope)

\* What the checks made so far have found; a success is left out when one of
\* them may return 0 for a failure.
CheckInv ==
  /\ pc \in {"proxy", "deserialize"} \cup Issued =>
       Bearer(req) /\ canon = authid
  /\ pc \in Issued => Deserializes
  /\ pc \in Tested => EnforcerTest
  /\ pc = "has_str" => jwt.scope # NULL
  /\ pc \in Scoped => ScopeOK
  /\ pc \in {"user_claim", "group_user"} => user_ok = 0
  /\ pc = "release" => (user_ok = 1 => Granted)
  /\ ErrorsReported /\ (pc = "accept" \/ (pc = "idle" /\ ret = "SASL_OK")) =>
       /\ Bearer(req) /\ canon = authid
       /\ Deserializes /\ EnforcerTest /\ ScopeOK /\ Granted

\* What makes EnvSettles hold: a variable that has an option is set by then.
EnvInv ==
  ~MayFail("malloc") /\ pc \in {"deserialize"} \cup Issued =>
    \A v \in EnvNames : env[v] # NULL \/ ProxyOption(v) = NULL

-----------------------------------------------------------------------------
\* What makes RefusesForbidden and KeepsRole inductive.

\* A turn of a loop over text may begin at n: at its start or behind a word.
Between(text, n) == n = 1 \/ n > Len(text) \/ text[n] \in Blanks

\* None of these words is one that a loop would have stopped at, unless a
\* claim cannot be read.
NoClaim(words) ==
  MayFail("claim") \/ \A e \in words : ~UserClaimHolds(UserClaim(e))
NoGroup(words) ==
  \A e \in words : ~(GroupUserHolds(GroupUser(e)) /\ GroupUser(e).iss # NULL)

AllChecks == Deserializes /\ EnforcerTest /\ ScopeOK /\ Granted

(***************************************************************************)
(* What the loops have passed over grants nothing, so that a refusal means *)
(* a check that does not hold; and the user is the message's all along.    *)
(***************************************************************************)
RefuseInv ==
  /\ pc = "user_claim" =>
       /\ Between(settings.user_claim, cursor)
       /\ NoClaim(Passed(settings.user_claim, cursor))
  /\ pc = "group_user" =>
       /\ NoClaim(WordSet(settings.user_claim, Blanks))
       /\ Between(settings.group_user, cursor)
       /\ NoGroup(Passed(settings.group_user, cursor))
  /\ pc = "release" /\ user_ok = 0 => ~Granted \/ MayFail("claim")
  /\ (pc = "refuse" \/ state = 1) /\ faults = {} => ~AllChecks
  /\ pc \in InStep \ {"parsed"} => Bearer(req)
  /\ pc \in InStep \ {"parsed", "refuse"} => canon = authid

-----------------------------------------------------------------------------
\* What makes OneObject inductive.

\* With memory, nothing is in outbuf before the refusal.
OutInv ==
  "malloc" \notin faults =>
    /\ state # 1 => outbuf = <<>>
    /\ serverout # NULL => serverout = <<"json">>

\* What the theorems assume of options and tokens: audiences are separated by
\* spaces, and no claim has a bar in its name.
BarlessClaims ==
  \A k \in DOMAIN Jwts : \A c \in DOMAIN Jwts[k].claims :
    c \in Texts /\ Bars(c) = {}
SpacedAuds == \A s \in Settings : \A n \in 1 .. Len(s.aud) : s.aud[n] # TAB
=============================================================================
