------------------------------ MODULE Exchange ------------------------------
(***************************************************************************)
(* The exchange between a client and a server connection.  ClientRole and  *)
(* ServerRole say what the two plug-ins do; this module is what is between *)
(* them: the applications, which pass on what the plug-ins hand out, one   *)
(* message at a time, and tell the other side how a step ended.  Instead   *)
(* of the plug-in's client another one may be there, which sends anything. *)
(* The server is one whose libraries report their failures.                *)
(***************************************************************************)
EXTENDS InitialResponse

CONSTANTS
  Wishes,     \* the users and tokens that an application may mean
  Permitted,  \* of what is asked for, what the server's options permit
  Foreign,    \* what another client may send
  Retries,    \* what it may answer a challenge with
  Garbled     \* what ours may send where memory was short before

\* Names and tokens as they come from a user: without the message's own
\* separators, and a token is there and does not start with a blank.
Clean(w) ==
  /\ w \in [user : Seq(Symbols), token : Seq(Symbols)]
  /\ \A n \in 1 .. Len(w.user) : w.user[n] \notin {SOH, NUL}
  /\ \A n \in 1 .. Len(w.token) : w.token[n] \notin {SOH, NUL}
  /\ w.token # <<>> /\ w.token[1] # SP

ASSUME ExchangeAssumption ==
  /\ \A w \in Wishes : Clean(w)
  /\ Foreign \cup Retries \cup Garbled \subseteq Seq(Symbols)

VARIABLES
  cphase, meant, short, response, cuser, canswer,         \* ClientRole
  sphase, request, permitted, faulty, suser, sanswer,     \* ServerRole
  foreign,    \* whether the other client is there
  toServer,   \* what has been sent, in its order
  taken,      \* how many of it the server has taken
  toClient,
  read

client == <<cphase, meant, short, response, cuser, canswer>>
server == <<sphase, request, permitted, faulty, suser, sanswer>>
wire == <<toServer, taken, toClient, read>>
vars == <<client, server, foreign, wire>>

C == INSTANCE ClientRole WITH
  phase <- cphase, user <- cuser, answer <- canswer

S == INSTANCE ServerRole WITH
  phase <- sphase, user <- suser, answer <- sanswer

\* In the other client's place ours means nobody.
Nobody == [user |-> NULL, token |-> NULL]

Init ==
  /\ \/ foreign = FALSE /\ meant \in Wishes /\ short \in BOOLEAN
     \/ foreign = TRUE /\ meant = Nobody /\ short = FALSE
  /\ C!Init /\ cuser = NULL
  /\ S!Init /\ permitted = FALSE /\ faulty \in BOOLEAN /\ suser = NULL
  /\ toServer = <<>> /\ taken = 0
  /\ toClient = <<>> /\ read = 0
-----------------------------------------------------------------------------
\* The client's side.

ClientWorks ==
  /\ ~foreign /\ toServer = <<>>
  /\ C!Open \/ C!OpenFails \/ C!Call \/ C!Return \/ C!Canon \/ C!Die
  /\ UNCHANGED <<server, foreign, wire>>

ClientSends ==
  /\ ~foreign /\ toServer = <<>>
  /\ C!Send
  /\ toServer' = Append(toServer, response')
  /\ UNCHANGED <<server, foreign, taken, toClient, read>>

ForeignSends ==
  /\ foreign /\ toServer = <<>>
  /\ \E m \in Foreign : toServer' = Append(toServer, m)
  /\ UNCHANGED <<client, server, foreign, taken, toClient, read>>

Arrived == read < Len(toClient)
Arriving == toClient[read + 1]

\* A challenge is answered, and an outcome is for the application.
ClientTakes ==
  /\ ~foreign /\ Arrived
  /\ \/ /\ Arriving = "challenge"
        /\ C!Answer
        /\ toServer' = Append(toServer, response')
     \/ /\ Arriving # "challenge" /\ cphase \in {"sent", "done"}
        /\ UNCHANGED <<client, toServer>>
  /\ read' = read + 1
  /\ UNCHANGED <<server, foreign, taken, toClient>>

ForeignTakes ==
  /\ foreign /\ Arrived
  /\ IF Arriving = "challenge"
     THEN \E m \in Retries : toServer' = Append(toServer, m)
     ELSE UNCHANGED toServer
  /\ read' = read + 1
  /\ UNCHANGED <<client, server, foreign, taken, toClient>>

\* It need not wait for the end.
ClientLeaves ==
  /\ ~foreign /\ C!Close
  /\ UNCHANGED <<server, foreign, wire>>
-----------------------------------------------------------------------------
\* The server's side.

Outcome(r) ==
  IF r = "SASL_OK" THEN "success"
  ELSE IF r = "SASL_CONTINUE" THEN "challenge" ELSE "failure"

\* The application tells what the call has returned.
Reply == toClient' = Append(toClient, Outcome(sanswer'))

\* The first message opens the connection.
ServerStarts ==
  /\ toServer # <<>> /\ toClient = <<>> /\ sphase = "none"
  /\ \/ S!Open /\ UNCHANGED toClient
     \/ S!OpenFails /\ Reply
  /\ UNCHANGED <<client, foreign, toServer, taken, read>>

ServerTakes ==
  /\ taken < Len(toServer)
  /\ \/ /\ S!Ask
        /\ request' = Asks(Parse(toServer[taken + 1]))
        /\ permitted' = (request' # {} /\ request' \subseteq Permitted)
        /\ UNCHANGED toClient
     \/ sphase = "ready" /\ S!Fail /\ Reply
     \/ S!Again /\ Reply
  /\ taken' = taken + 1
  /\ UNCHANGED <<client, foreign, toServer, read>>

ServerWorks ==
  /\ sphase = "busy"
  /\ \/ S!Canon /\ UNCHANGED toClient
     \/ (S!Accept \/ S!Refuse \/ S!Fail) /\ Reply
  /\ UNCHANGED <<client, foreign, toServer, taken, read>>

ServerDies ==
  /\ S!Die
  /\ UNCHANGED <<client, foreign, wire>>

\* After its last word, or tired of waiting for an answer to the challenge.
ServerLeaves ==
  /\ toClient # <<>> /\ S!Close
  /\ UNCHANGED <<client, foreign, wire>>
-----------------------------------------------------------------------------
Next ==
  \/ ClientWorks \/ ClientSends \/ ClientTakes \/ ClientLeaves
  \/ ForeignSends \/ ForeignTakes
  \/ ServerStarts \/ ServerTakes \/ ServerWorks
  \/ ServerDies \/ ServerLeaves

Spec == Init /\ [][Next]_vars

(***************************************************************************)
(* Messages that were sent arrive and are passed on, and a step that was   *)
(* called returns (ServerMech's StepReturns).  Nobody has to send anything *)
(* or to stay, and no process has to die.                                  *)
(***************************************************************************)
FairSpec ==
  /\ Spec
  /\ WF_vars(ServerStarts) /\ WF_vars(ServerTakes) /\ WF_vars(ServerWorks)
  /\ WF_vars(ClientTakes) /\ WF_vars(ForeignTakes)
-----------------------------------------------------------------------------
\* What the server has said, and what the client has heard of it.
Sent == {toClient[n] : n \in 1 .. Len(toClient)}
Read == {toClient[n] : n \in 1 .. read}

(***************************************************************************)
(* The three scans of step 1, which overwrite separators as they go, find  *)
(* in every message what its grammar says, and nothing in one that is no   *)
(* response: whoever sent it, the server works for that user and with that *)
(* token.                                                                  *)
(***************************************************************************)
ReadsResponses == sphase = "busy" => request = Said(toServer[taken])

(***************************************************************************)
(* Success is between two that stand for the same user: the name in the    *)
(* server's oparams is the one in the client's, which its application      *)
(* means.                                                                  *)
(***************************************************************************)
SameUser ==
  "success" \in Sent /\ ~foreign /\ ~short =>
    suser = cuser /\ cuser = meant.user

(***************************************************************************)
(* The plug-in's client returns SASL_OK from its answer to the challenge,  *)
(* which is the server's refusal: where it did, the server has refused and *)
(* never says or said anything else.                                       *)
(***************************************************************************)
OKMeansRefused ==
  canswer = "SASL_OK" => "challenge" \in Sent /\ "success" \notin Sent

(***************************************************************************)
(* The exchange is an Authentication: there is one verdict, on what the    *)
(* client's application means (or what another client's message says), by  *)
(* the server's options, and the client learns that one.                   *)
(***************************************************************************)
Verdict(words) ==
  IF words = {} THEN "none"
  ELSE IF "success" \in words THEN "accepted" ELSE "refused"

Wish ==
  IF toServer = <<>> THEN {}
  ELSE IF foreign \/ short THEN Said(toServer[1]) ELSE {meant}

A == INSTANCE Authentication WITH
  wish <- Wish, verdict <- Verdict(Sent), told <- Verdict(Read)

Refines == A!Spec

(***************************************************************************)
(* Whoever has sent a message hears how it ended, however the challenge    *)
(* goes back and forth, or one of the two is gone.                         *)
(***************************************************************************)
ExchangeEnds ==
  toServer # <<>> ~>
    \/ "success" \in Read \/ "failure" \in Read
    \/ sphase = "dead"
    \/ sphase = "none" /\ toClient # <<>>
    \/ ~foreign /\ cphase = "none"
-----------------------------------------------------------------------------
\* What makes these properties inductive.

\* All that a server says before it is gone.
Conversations ==
  {<<>>, <<"success">>, <<"failure">>, <<"challenge">>,
   <<"challenge", "failure">>}

TypeOK ==
  /\ foreign \in BOOLEAN /\ short \in BOOLEAN
  /\ sphase \in {"none", "ready", "busy", "over", "dead"}
  /\ toServer \in Seq(Seq(Symbols)) /\ toClient \in Conversations
  /\ taken \in 0 .. Len(toServer) /\ read \in 0 .. Len(toClient)

Challenged == toClient # <<>> /\ toClient[1] = "challenge"

(***************************************************************************)
(* Nobody sends before his turn: a message is behind the end of one step   *)
(* at each time, and a second one answers the challenge.                   *)
(***************************************************************************)
TurnInv ==
  /\ toServer = <<>> => toClient = <<>>
  /\ Len(toServer) <= 2
  /\ Len(toServer) = 2 => Challenged /\ read > 0
  /\ sphase = "none" /\ toClient = <<>> => taken = 0
  /\ sphase = "ready" =>
       IF toClient = <<>> THEN taken = 0
       ELSE ~Challenged /\ taken = Len(toServer)
  /\ sphase = "busy" => toClient = <<>> /\ taken = 1
  /\ sphase = "over" =>
       Challenged /\ taken >= 1 /\ (taken = 1 => Len(toClient) = 1)

\* What the server works for is what was sent, and that is what was meant.
RequestInv ==
  /\ sphase = "busy" \/ "success" \in Sent =>
       /\ toServer # <<>>
       /\ request = Asks(Parse(toServer[1]))
  /\ sphase = "busy" =>
       permitted = (request # {} /\ request \subseteq Permitted)
  /\ "success" \in Sent =>
       /\ request # {} /\ request \subseteq Permitted
       /\ \E q \in request : suser = q.user
  /\ ~foreign => meant \in Wishes
  /\ ~foreign /\ toServer # <<>> =>
       /\ cuser = meant.user
       /\ ~short => toServer[1] = Build(meant.user, <<BEARER>>, meant.token)
  /\ canswer = "SASL_OK" => Challenged
=============================================================================
