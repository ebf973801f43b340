---------------------------- MODULE MCServerMech ----------------------------
(***************************************************************************)
(* Instances of ServerMech: a handful of tokens, users and option files in *)
(* which each check can succeed and fail, at the first or a later word.    *)
(* One letter stands for a name or an address.                             *)
(***************************************************************************)
EXTENDS ServerMech

i == <<"i">>
k == <<"k">>

JwtOf(genuine, iss, aud, scope, claims) ==
  [genuine |-> genuine, iss |-> iss, aud |-> {aud}, scope |-> scope,
   claims |-> claims]

\* Claims s and n, or only s.
Both(s, n) == [c \in {<<"s">>, <<"n">>} |-> IF c = <<"s">> THEN s ELSE n]
OnlyS(s)   == [c \in {<<"s">>} |-> s]

U == <<"u">>
V == <<"v">>
G == <<"g">>
H == <<"h">>

Good  == [genuine |-> TRUE, iss |-> i, aud |-> {<<"a">>},
          scope |-> <<"r">>, claims |-> Both(U, V)]

MCJwts ==
  [name \in {<<"t1">>, <<"t2">>, <<"t3">>, <<"t4">>, <<"t5">>, <<"t6">>,
             <<"t7">>} |->
     CASE name = <<"t1">> -> Good
       [] name = <<"t2">> -> JwtOf(TRUE, k, <<"b">>,
                                   <<SP, "q", TAB, "w", "x">>, Both(V, U))
       [] name = <<"t3">> -> [Good EXCEPT !.genuine = FALSE]
       [] name = <<"t4">> -> [Good EXCEPT !.aud = {<<"c">>}]
       [] name = <<"t5">> -> [Good EXCEPT !.iss = <<"z">>]
       [] name = <<"t6">> -> JwtOf(TRUE, k, <<"b">>, <<"q">>, OnlyS(H))
       [] name = <<"t7">> -> [Good EXCEPT !.scope = NULL]]

Bearers(users, tokens) ==
  {Build(u, <<BEARER>>, t) : u \in users, t \in tokens}

\* Another type, two blanks, a blank missing, a zero byte in the name, and
\* a message cut short.
OddMessages ==
  {Build(U, <<"Basic">>, <<"t1">>),
   Build(U, <<BEARER>>, <<SP, "t1">>),
   Build(U, <<BEARER>>, <<>>),
   Build(<<"u", NUL, "v">>, <<BEARER>>, <<"t1">>),
   <<USER, "u", SOH, AUTH, BEARER, SP, "t1", SOH>>}

\* Each user with the tokens that may hold the name.
MCMessages ==
  Bearers({U, V, G, H}, {<<"t1">>, <<"t2">>})
    \cup Bearers({U, G}, {<<"t4">>, <<"t6">>})
    \cup Bearers({U}, {<<"t3">>, <<"t5">>, <<"t7">>, <<"other">>})
    \cup OddMessages

FewMessages ==
  Bearers({U, G}, {<<"t1">>, <<"t4">>}) \cup {Build(U, <<"Basic">>, <<"t1">>)}

\* One of the tokens has no scope claim.
NoScopeMessages == Bearers({U}, {<<"t1">>, <<"t7">>})

Options(scope, aud, user_claim, group_user) ==
  [scope |-> scope, aud |-> aud, user_claim |-> user_claim,
   group_user |-> group_user, issuers |-> {i, k},
   proxy |-> <<"p">>, no_proxy |-> NULL]

TwoClaims == <<"n", BAR, "k", SP, "s", BAR, "i">>
AnyIssuer == <<"x", TAB, SP, "s", SP>>
Groups    == <<SP, "g", BAR, "r", BAR, "k", SP, "g", BAR, "w", "*", BAR, "*">>
OneGroup  == <<"g", BAR, "*", BAR, "?">>
EmptyParts == <<"g", BAR, BAR, "i", TAB, "h", BAR, "r", BAR, SP,
                "h", BAR, "q", BAR, "k">>

MCSettings ==
  {Options(<<"r", SP, "w", "*">>, <<"a", SP, SP, "b">>, TwoClaims, <<>>),
   [Options(<<"w", "?", TAB, "r">>, <<"b", SP, "a", SP>>, AnyIssuer, Groups)
      EXCEPT !.no_proxy = <<"n">>],
   Options(<<"*">>, <<SP, "a", SP, "b">>, <<>>, OneGroup),
   Options(<<"*">>, <<"b", SP, "a", SP, "c">>, AnyIssuer, EmptyParts),
   Options(<<>>, <<"a">>, AnyIssuer, OneGroup),
   Options(<<"r">>, <<"a">>, TwoClaims, <<"g", BAR, "r">>)}

OneSetting == {Options(<<"r">>, <<"a">>, AnyIssuer, <<>>)}

\* One of the variables has been set by somebody else.
MCEnvirons == {[v \in EnvNames |-> IF v = "http_proxy" THEN <<"h">> ELSE NULL]}

\* No failure, the two that are answered with 0, and all the others.
MCFaultSets ==
  LET masked == {"issuer", "enforcer"}
  IN  {{}, masked, FaultKinds \ masked}
=============================================================================
