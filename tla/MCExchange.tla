----------------------------- MODULE MCExchange -----------------------------
(***************************************************************************)
(* Instances of Exchange: a user with a token that is hers and one that is *)
(* not, a name and a token with blanks inside, and other clients that send *)
(* responses with up to two symbols wrong.                                 *)
(***************************************************************************)
EXTENDS Exchange

W(user, token) == [user |-> user, token |-> token]

MCWishes ==
  {W(<<"u">>, <<"t1">>), W(<<"u">>, <<"t2">>), W(<<>>, <<"t1">>),
   W(<<"v", SP, "w">>, <<"t1", SP, "x">>)}

MCPermitted ==
  {W(<<"u">>, <<"t1">>), W(<<"v", SP, "w">>, <<"t1", SP, "x">>),
   W(<<>>, <<"t1">>), W(<<"u", SP>>, <<"t1">>)}

Built == {Build(w.user, <<BEARER>>, w.token) : w \in MCWishes}

\* One symbol of m deleted, replaced, or put in.
Edits(m, symbols) ==
  {SubSeq(m, 1, n - 1) \o SubSeq(m, n + 1, Len(m)) : n \in 1 .. Len(m)}
    \cup {[m EXCEPT ![n] = x] : n \in 1 .. Len(m), x \in symbols}
    \cup {InsertAt(m, n, x) : n \in 1 .. Len(m) + 1, x \in symbols}

Wrong(ms, symbols) == ms \cup UNION {Edits(m, symbols) : m \in ms}

MCForeign ==
  {<<>>} \cup Wrong(Built, {USER, AUTH, SOH, SP, NUL, BEARER, "t1"})
    \cup Wrong(Wrong({Build(<<"u">>, <<BEARER>>, <<"t1">>)}, {SOH, SP, NUL}),
               {SOH, SP})

\* Nothing, and a response that would be accepted.
MCRetries == {<<>>, Build(<<"u">>, <<BEARER>>, <<"t1">>)}

\* Two responses, and the end of the first is missing.
MCGarbled ==
  LET m == Build(<<"u">>, <<BEARER>>, <<"t1">>)
  IN  {SubSeq(m, 1, n) \o m : n \in 1 .. Len(m)}
=============================================================================
