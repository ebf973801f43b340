-------------------------- MODULE InitialResponse ---------------------------
(***************************************************************************)
(* The message of the exchange, "user=<authid>^Aauth=<type> <token>^A^A":  *)
(* how the client writes it (build_client_response) and how the server     *)
(* takes it apart (the block at the head of server step 1).                *)
(***************************************************************************)
EXTENDS Text

SOH    == "^A"
USER   == "user="     \* in any case, as strncasecmp takes it
AUTH   == "auth="
BEARER == "Bearer"    \* in any case too

\* All are strings; the provers have to be told that these are symbols too.
Symbols == STRING \cup {USER, AUTH, BEARER, SOH, SP, "(null)"}

\* build_client_response
Build(authid, type, token) ==
  <<USER>> \o authid \o <<SOH, AUTH>> \o type \o <<SP>> \o token
    \o <<SOH, SOH>>

\* Mutant of Find: the scan starts over.
FindFirst(m, x, n) == SelectInSubSeq(m, 1, Len(m), LAMBDA y : y = x)

\* The first place from n on where m holds x, 0 when there is none.
Find(m, x, n) == SelectInSubSeq(m, n, Len(m), LAMBDA y : y = x)

(***************************************************************************)
(* Parsing.  u is the end of the authid, b the end of the credentials, s   *)
(* the blank after the token type and t the first symbol of the token.     *)
(***************************************************************************)
Parse(m) ==
  LET u == Find(m, SOH, 2)
      b == Find(m, SOH, u + 2)
      s == SelectInSubSeq(m, u + 2, b - 1, LAMBDA x : x = SP)
      t == SelectInSubSeq(m, s + 1, b - 1, LAMBDA x : x # SP)
      ok == /\ Len(m) > 0 /\ m[1] = USER
            /\ u # 0
            /\ u < Len(m) /\ m[u + 1] = AUTH
            /\ b # 0
            /\ b + 1 = Len(m) /\ m[b + 1] = SOH
            /\ s # 0
            /\ t # 0
  IN  IF ok
      THEN [ok |-> TRUE,
            authid |-> SubSeq(m, 2, u - 1),
            type   |-> SubSeq(m, u + 2, s - 1),
            token  |-> SubSeq(m, t, b - 1)]
      ELSE [ok |-> FALSE, authid |-> <<>>, type |-> <<>>, token |-> <<>>]

\* The only type step 1 goes on with.
Bearer(p) == p.ok /\ p.type = <<BEARER>>

\* What step 1 then does with the two other fields takes C strings.
Asks(p) ==
  IF Bearer(p) THEN {[user |-> CString(p.authid), token |-> CString(p.token)]}
  ELSE {}
-----------------------------------------------------------------------------
(***************************************************************************)
(* The grammar of the message, without scanning it: m can be cut at u      *)
(* (behind the authid) and s (behind the type); the token goes from t to   *)
(* the two that end the message.                                           *)
(***************************************************************************)
Places(m, x) == {n \in 1 .. Len(m) : m[n] = x}

IsResponse(m, u, s, t) ==
  LET b == Len(m) - 1
  IN  /\ u + 2 <= s /\ s < t /\ t < b
      /\ m[1] = USER /\ m[u + 1] = AUTH
      /\ Places(m, SOH) = {u, b, b + 1}
      /\ s .. t - 1 \subseteq Places(m, SP)
      /\ (u + 2 .. s - 1) \cap Places(m, SP) = {}
      /\ t \notin Places(m, SP)

WaysToCut(m) ==
  {c \in Places(m, SOH) \X Places(m, SP) \X (1 .. Len(m)) :
     IsResponse(m, c[1], c[2], c[3])}

\* What a message asks for, by the grammar.
Said(m) ==
  {[user |-> CString(SubSeq(m, 2, c[1] - 1)),
    token |-> CString(SubSeq(m, c[3], Len(m) - 2))] :
     c \in {d \in WaysToCut(m) : SubSeq(m, d[1] + 2, d[2] - 1) = <<BEARER>>}}
=============================================================================
