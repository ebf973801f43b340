----------------------------- MODULE ClientRole -----------------------------
(***************************************************************************)
(* What a client connection promises to the other side and to its          *)
(* application, however many prompts and failures it takes: an abstraction *)
(* of ClientMech, which implements it, and one half of Exchange.           *)
(***************************************************************************)
EXTENDS InitialResponse

CONSTANT Garbled   \* what may be sent when memory was short before

VARIABLES
  phase,     \* "none", "ready", "busy" in step 1, "sent", "done", "dead"
  meant,     \* the user and the token that the application means
  short,     \* whether memory may be short
  response,  \* what the last call handed out to be sent
  user,      \* the user in oparams
  answer     \* what the last call returned

vars == <<phase, meant, short, response, user, answer>>

Init ==
  /\ phase = "none"
  /\ response = NULL
  /\ answer = "none"

Open ==
  /\ phase = "none"
  /\ phase' = "ready" /\ answer' = "none" /\ response' = NULL
  /\ UNCHANGED <<meant, short, user>>

OpenFails ==
  /\ phase = "none" /\ short
  /\ answer' = "SASL_NOMEM" /\ response' = NULL
  /\ UNCHANGED <<phase, meant, short, user>>

Call ==
  /\ phase = "ready"
  /\ phase' = "busy" /\ response' = NULL
  /\ UNCHANGED <<meant, short, user, answer>>

\* The step asks the application for something, or gives up.
Return ==
  /\ phase = "busy"
  /\ phase' = "ready"
  /\ answer' \in {"SASL_INTERACT", "SASL_FAIL", "SASL_BADPARAM", "SASL_NOMEM"}
  /\ UNCHANGED <<meant, short, response, user>>

Canon ==
  /\ phase = "busy"
  /\ user' = meant.user
  /\ UNCHANGED <<phase, meant, short, response, answer>>

\* Mutant of Send: the name is not canonicalised before it is sent.
SendUncanonical ==
  /\ phase = "busy"
  /\ \/ response' = Build(meant.user, <<BEARER>>, meant.token)
     \/ short /\ response' \in Garbled
  /\ phase' = "sent" /\ answer' = "SASL_CONTINUE"
  /\ UNCHANGED <<meant, short, user>>

\* A part of an earlier response stays in front when memory was short.
Send ==
  /\ phase = "busy" /\ user = meant.user
  /\ \/ response' = Build(meant.user, <<BEARER>>, meant.token)
     \/ short /\ response' \in Garbled
  /\ phase' = "sent" /\ answer' = "SASL_CONTINUE"
  /\ UNCHANGED <<meant, short, user>>

\* Whatever the challenge says.
Answer ==
  /\ phase = "sent"
  /\ phase' = "done" /\ answer' = "SASL_OK" /\ response' = <<>>
  /\ UNCHANGED <<meant, short, user>>

After ==
  /\ phase = "done"
  /\ answer' = "SASL_BADPROT"
  /\ UNCHANGED <<phase, meant, short, response, user>>

Close ==
  /\ phase \in {"ready", "sent", "done"}
  /\ phase' = "none" /\ answer' = "none" /\ response' = NULL
  /\ UNCHANGED <<meant, short, user>>

Die ==
  /\ phase = "busy"
  /\ phase' = "dead"
  /\ UNCHANGED <<meant, short, response, user, answer>>

Next ==
  \/ Open \/ OpenFails \/ Close
  \/ Call \/ Return \/ Canon \/ Send \/ Answer \/ After
  \/ Die

Spec == Init /\ [][Next]_vars
=============================================================================
