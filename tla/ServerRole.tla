----------------------------- MODULE ServerRole -----------------------------
(***************************************************************************)
(* What a server connection promises to the other side and to its          *)
(* application, whatever happens inside a call: an abstraction of          *)
(* ServerMech, which implements it, and one half of Exchange.              *)
(***************************************************************************)

VARIABLES
  phase,      \* "none", "ready", "busy" in step 1, "over", "dead"
  request,    \* what the last message asks for; empty: nothing
  permitted,  \* whether the options permit that
  faulty,     \* whether calls into the libraries may fail
  user,       \* the user in oparams
  answer      \* what the last call returned

vars == <<phase, request, permitted, faulty, user, answer>>

Init ==
  /\ phase = "none"
  /\ request = {}
  /\ answer = "none"

Open ==
  /\ phase = "none"
  /\ phase' = "ready" /\ answer' = "none"
  /\ UNCHANGED <<request, permitted, faulty, user>>

OpenFails ==
  /\ phase = "none" /\ faulty
  /\ answer' = "SASL_NOMEM"
  /\ UNCHANGED <<phase, request, permitted, faulty, user>>

\* A message, whose request is for the composition to say.
Ask ==
  /\ phase = "ready"
  /\ phase' = "busy"
  /\ UNCHANGED <<faulty, user, answer>>

Canon ==
  /\ phase = "busy"
  /\ \E q \in request : user' = q.user
  /\ UNCHANGED <<phase, request, permitted, faulty, answer>>

\* Mutant of Accept: what the options say of the token does not count.
AcceptAll ==
  /\ phase = "busy" /\ \E q \in request : user = q.user
  /\ phase' = "ready" /\ answer' = "SASL_OK"
  /\ UNCHANGED <<request, permitted, faulty, user>>

Accept ==
  /\ phase = "busy" /\ permitted
  /\ \E q \in request : user = q.user
  /\ phase' = "ready" /\ answer' = "SASL_OK"
  /\ UNCHANGED <<request, permitted, faulty, user>>

\* The challenge that says 401.
Refuse ==
  /\ phase = "busy" /\ request # {}
  /\ ~permitted \/ faulty
  /\ phase' = "over" /\ answer' = "SASL_CONTINUE"
  /\ UNCHANGED <<request, permitted, faulty, user>>

\* Mutant of Fail: nothing comes of a message that cannot be read.
FailOnFault ==
  /\ phase \in {"ready", "busy"} /\ faulty
  /\ phase' = "ready" /\ answer' \in {"SASL_BADPROT", "SASL_NOMEM"}
  /\ UNCHANGED <<request, permitted, faulty, user>>

Fail ==
  /\ \/ phase = "busy" /\ request = {}
     \/ phase \in {"ready", "busy"} /\ faulty
  /\ phase' = "ready" /\ answer' \in {"SASL_BADPROT", "SASL_NOMEM"}
  /\ UNCHANGED <<request, permitted, faulty, user>>

\* Mutant of Again: a second answer is taken for a second try.
AgainTries ==
  /\ phase = "over"
  /\ phase' = "ready" /\ answer' = "SASL_OK"
  /\ UNCHANGED <<request, permitted, faulty, user>>

\* The challenge was answered: with anything, and in vain.
Again ==
  /\ phase = "over"
  /\ answer' = "SASL_FAIL"
  /\ UNCHANGED <<phase, request, permitted, faulty, user>>

Close ==
  /\ phase \in {"ready", "over"}
  /\ phase' = "none" /\ answer' = "none"
  /\ UNCHANGED <<request, permitted, faulty, user>>

\* Undefined behaviour that ends the process.
Die ==
  /\ phase \in {"ready", "busy"}
  /\ phase' = "dead"
  /\ UNCHANGED <<request, permitted, faulty, user, answer>>

Next ==
  \/ Open \/ OpenFails \/ Close
  \/ Ask \/ Canon \/ Accept \/ Refuse \/ Fail \/ Again
  \/ Die

Spec == Init /\ [][Next]_vars
=============================================================================
