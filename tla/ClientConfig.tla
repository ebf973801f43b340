---------------------------- MODULE ClientConfig ----------------------------
(***************************************************************************)
(* The configuration of the client side, which all connections of the      *)
(* process share: threads that each have a connection load it, once, when  *)
(* they need the name of the claim, read the option, and throw it away     *)
(* when their connection is disposed of (xoauth2_client.c).  The globals   *)
(* are read and written without a lock; pthread_once and the table of      *)
(* libsasl2 behind sasl_config_init, getopt and sasl_config_done are       *)
(* external.                                                               *)
(***************************************************************************)
EXTENDS Integers, FiniteSets

CONSTANTS
  Threads,     \* each with one connection at a time
  Service,     \* the service that each thread's connection is for
  Dirs,        \* how many directories the search path has
  Layouts,     \* what file each directory may have for each service
  MaxSteps     \* bound: how many steps look for the claim

Services == {Service[t] : t \in Threads}

\* No file, one that sasl_config_init rejects, one without the option.
Kinds == {"missing", "broken", "empty", "claim"}

ASSUME ConfigAssumption ==
  /\ Dirs \in Nat \ {0}
  /\ Layouts \subseteq [1 .. Dirs -> [Services -> Kinds]]
  /\ MaxSteps \in Nat

VARIABLES
  files,       \* the layout
  fails,       \* whether load_config may fail before it looks for a file
  apart,       \* whether no connection is disposed of during others' steps
  once,        \* load_config_initialized: "init", "running", "done"
  load_utils,  \* load_config_utils: whose they are
  load_result, \* load_config_result
  table,       \* the table of libsasl2, or NoTable
  user_claim,  \* the table that settings->user_claim points into, or NoTable
  live,        \* the threads that have a connection
  pc,          \* what each thread does next
  mine,        \* utils, the argument of load_config
  dir,         \* where path_to_config points
  outcome,     \* what the last step of each thread found
  stale,       \* what was used after it was freed
  steps

env == <<files, fails, apart>>
global == <<env, once, load_utils, load_result, table, user_claim>>
local == <<mine, dir, outcome>>
vars == <<global, live, pc, local, stale, steps>>

Nobody  == "nobody"
NoTable == [id |-> 0, kind |-> "empty", service |-> "none"]

Found(what, service) == [what |-> what, service |-> service]
Unknown == Found("unknown", "none")

\* load_config_result starts as 0, which is SASL_OK.
Init ==
  /\ files \in Layouts /\ fails \in BOOLEAN /\ apart \in BOOLEAN
  /\ once = "init" /\ load_utils = Nobody /\ load_result = "SASL_OK"
  /\ table = NoTable /\ user_claim = NoTable
  /\ live = {}
  /\ pc = [t \in Threads |-> "idle"]
  /\ mine = [t \in Threads |-> Nobody]
  /\ dir = [t \in Threads |-> 1]
  /\ outcome = [t \in Threads |-> Unknown]
  /\ stale = {}
  /\ steps = 0

Goto(t, where) == pc' = [pc EXCEPT ![t] = where]

Used(what, freed) == stale' = IF freed THEN stale \cup {what} ELSE stale

Quiet == \A u \in Threads : pc[u] = "idle"

MechNew(t) ==
  /\ pc[t] = "idle" /\ t \notin live
  /\ live' = live \cup {t}
  /\ UNCHANGED <<global, pc, local, stale, steps>>
-----------------------------------------------------------------------------
\* Step 1, when the name is to come from the token.

SetUtils(t) ==
  /\ pc[t] = "idle" /\ t \in live /\ steps < MaxSteps
  /\ apart => \A u \in Threads : pc[u] # "reset"
  /\ load_utils' = t
  /\ outcome' = [outcome EXCEPT ![t] = Unknown]
  /\ steps' = steps + 1
  /\ Goto(t, "once")
  /\ UNCHANGED <<env, once, load_result, table, user_claim, live, mine, dir,
                 stale>>

\* Mutant of PassOnce: a thread does not wait for the one that loads.
PassUnlessInit(t) ==
  /\ pc[t] = "once" /\ once # "init"
  /\ Goto(t, "result")
  /\ UNCHANGED <<global, live, local, stale, steps>>

\* pthread_once returns when the routine has run; meanwhile the thread waits.
PassOnce(t) ==
  /\ pc[t] = "once" /\ once = "done"
  /\ Goto(t, "result")
  /\ UNCHANGED <<global, live, local, stale, steps>>

\* Mutant of RunOnce: the flag is set only when the work is done.
RunUnmarked(t) ==
  /\ pc[t] = "once" /\ once = "init"
  /\ Goto(t, "load")
  /\ UNCHANGED <<global, live, local, stale, steps>>

RunOnce(t) ==
  /\ pc[t] = "once" /\ once = "init"
  /\ once' = "running"
  /\ Goto(t, "load")
  /\ UNCHANGED <<env, load_utils, load_result, table, user_claim, live,
                 local, stale, steps>>

\* The utils are those the last thread has left there.
LoadConfig(t) ==
  /\ pc[t] = "load"
  /\ mine' = [mine EXCEPT ![t] = load_utils]
  /\ dir' = [dir EXCEPT ![t] = 1]
  /\ Used("conn", load_utils \notin live)
  /\ Goto(t, "path")
  /\ UNCHANGED <<global, live, outcome, steps>>

\* The locals of load_config are gone.
Loaded(t, result) ==
  /\ load_result' = result
  /\ once' = "done"
  /\ mine' = [mine EXCEPT ![t] = Nobody]
  /\ dir' = [dir EXCEPT ![t] = 1]
  /\ Goto(t, "result")

\* SASL_SERVICE, the search path, the length of a name or memory.
LoadConfigFails(t) ==
  /\ pc[t] = "path" /\ fails
  /\ \E r \in {"SASL_FAIL", "SASL_NOMEM"} : Loaded(t, r)
  /\ UNCHANGED <<env, load_utils, table, user_claim, live, outcome, stale,
                 steps>>

File(t) == files[dir[t]][Service[mine[t]]]

ReadFile(t) ==
  /\ pc[t] = "path" /\ File(t) # "missing"
  /\ IF File(t) = "broken"
     THEN Loaded(t, "SASL_FAIL") /\ UNCHANGED table
     ELSE /\ Loaded(t, "SASL_OK")
          /\ table' = [id |-> steps, kind |-> File(t),
                       service |-> Service[mine[t]]]
  /\ UNCHANGED <<env, load_utils, user_claim, live, outcome, stale, steps>>

\* Mutant of NextDir: the path is looked at from its start again.
FirstDirAgain(t) ==
  /\ pc[t] = "path" /\ File(t) = "missing" /\ dir[t] < Dirs
  /\ dir' = [dir EXCEPT ![t] = 1]
  /\ UNCHANGED <<global, live, pc, mine, outcome, stale, steps>>

\* Mutant of NextDir: the end of the path is not seen.
NextDirBeyond(t) ==
  /\ pc[t] = "path" /\ File(t) = "missing"
  /\ dir' = [dir EXCEPT ![t] = dir[t] + 1]
  /\ UNCHANGED <<global, live, pc, mine, outcome, stale, steps>>

NextDir(t) ==
  /\ pc[t] = "path" /\ File(t) = "missing" /\ dir[t] < Dirs
  /\ dir' = [dir EXCEPT ![t] = dir[t] + 1]
  /\ UNCHANGED <<global, live, pc, mine, outcome, stale, steps>>

NoFile(t) ==
  /\ pc[t] = "path" /\ File(t) = "missing" /\ dir[t] = Dirs
  /\ Loaded(t, "SASL_CONTINUE")
  /\ UNCHANGED <<env, load_utils, table, user_claim, live, outcome, stale,
                 steps>>

ReadResult(t) ==
  /\ pc[t] = "result" /\ load_result = "SASL_OK"
  /\ Goto(t, "getopt")
  /\ UNCHANGED <<global, live, local, stale, steps>>

ReadFailure(t) ==
  /\ pc[t] = "result" /\ load_result # "SASL_OK"
  /\ outcome' = [outcome EXCEPT ![t] = Found("failed", "none")]
  /\ Goto(t, "idle")
  /\ UNCHANGED <<global, live, mine, dir, stale, steps>>

\* Mutant of GetOptions: an option that was read once is kept.
KeepOptions(t) ==
  /\ pc[t] = "getopt"
  /\ user_claim' = IF table.kind = "claim" /\ user_claim = NoTable
                   THEN table ELSE user_claim
  /\ Goto(t, "claim")
  /\ UNCHANGED <<env, once, load_utils, load_result, table, live, local,
                 stale, steps>>

\* An option that is not in the table, or no table, makes "" of it.
GetOptions(t) ==
  /\ pc[t] = "getopt"
  /\ user_claim' = IF table.kind = "claim" THEN table ELSE NoTable
  /\ Goto(t, "claim")
  /\ UNCHANGED <<env, once, load_utils, load_result, table, live, local,
                 stale, steps>>

CopyClaim(t) ==
  /\ pc[t] = "claim"
  /\ Used("option", user_claim # NoTable /\ user_claim # table)
  /\ outcome' = [outcome EXCEPT ![t] =
                   Found(user_claim.kind, user_claim.service)]
  /\ Goto(t, "idle")
  /\ UNCHANGED <<global, live, mine, dir, steps>>
-----------------------------------------------------------------------------
\* Dispose, in its two writes to what is shared.

ConfigDone(t) ==
  /\ pc[t] = "idle" /\ t \in live
  /\ apart => Quiet
  /\ table' = NoTable
  /\ outcome' = [outcome EXCEPT ![t] = Unknown]
  /\ Goto(t, "reset")
  /\ UNCHANGED <<env, once, load_utils, load_result, user_claim, live, mine,
                 dir, stale, steps>>

ResetOnce(t) ==
  /\ pc[t] = "reset"
  /\ once' = "init"
  /\ live' = live \ {t}
  /\ Goto(t, "idle")
  /\ UNCHANGED <<env, load_utils, load_result, table, user_claim, local,
                 stale, steps>>
-----------------------------------------------------------------------------
Step(t) ==
  \/ PassOnce(t) \/ RunOnce(t)
  \/ LoadConfig(t)
  \/ ReadFile(t) \/ NextDir(t) \/ NoFile(t)
  \/ ReadResult(t) \/ ReadFailure(t)
  \/ GetOptions(t) \/ CopyClaim(t)
  \/ ResetOnce(t)

Next ==
  \E t \in Threads :
    \/ MechNew(t) \/ SetUtils(t) \/ ConfigDone(t)
    \/ LoadConfigFails(t) \/ Step(t)

Spec == Init /\ [][Next]_vars

\* A thread that is in a step or disposing goes on, unless it waits.  No
\* failure is counted on: without one the search has to end by itself.
FairSpec == Spec /\ \A t \in Threads : WF_vars(Step(t))
-----------------------------------------------------------------------------
Tables ==
  [id : 0 .. MaxSteps, kind : Kinds, service : Services \cup {"none"}]

Outcomes ==
  [what : {"unknown", "failed"} \cup Kinds, service : Services \cup {"none"}]

TypeOK ==
  /\ files \in Layouts
  /\ once \in {"init", "running", "done"}
  /\ load_utils \in Threads \cup {Nobody}
  /\ load_result \in {"SASL_OK", "SASL_CONTINUE", "SASL_FAIL", "SASL_NOMEM"}
  /\ table \in Tables /\ user_claim \in Tables
  /\ live \subseteq Threads
  /\ pc \in [Threads -> {"idle", "once", "load", "path", "result", "getopt",
                         "claim", "reset"}]
  /\ mine \in [Threads -> Threads \cup {Nobody}]
  /\ dir \in [Threads -> 1 .. Dirs]
  /\ outcome \in [Threads -> Outcomes]
  /\ stale \subseteq {"conn", "option"}
  /\ steps \in 0 .. MaxSteps

(***************************************************************************)
(* What a step should find, with no sharing at all: the first file for its *)
(* own service in the order of the search path.                            *)
(***************************************************************************)
OwnFile(t) ==
  LET there == {d \in 1 .. Dirs : files[d][Service[t]] # "missing"}
  IN  IF there = {} THEN "missing"
      ELSE files[CHOOSE d \in there : \A e \in there : d <= e][Service[t]]

OwnOutcome(t) ==
  IF OwnFile(t) = "claim" THEN Found("claim", Service[t])
  ELSE IF OwnFile(t) = "empty" THEN Found("empty", "none")
  ELSE Found("failed", "none")

(***************************************************************************)
(* Each step finds what is in the file of its own service, whichever       *)
(* thread loaded it, with whose utils, and however often it was thrown     *)
(* away and loaded again in between.  Like the next two it needs an        *)
(* application that disposes of no connection during a step of another.    *)
(***************************************************************************)
FindsOwnFile ==
  apart => \A t \in Threads :
             \/ outcome[t] \in {Unknown, OwnOutcome(t)}
             \/ fails /\ outcome[t] = Found("failed", "none")

(***************************************************************************)
(* No step uses the utils of a connection that is gone or an option of a   *)
(* table that was freed, although both come out of globals that any thread *)
(* may have written last.                                                  *)
(***************************************************************************)
NothingStale == apart => stale = {}

(***************************************************************************)
(* Two threads are never in load_config at once, though every dispose arms *)
(* pthread_once again.                                                     *)
(***************************************************************************)
OneLoads ==
  apart => Cardinality({t \in Threads : pc[t] \in {"load", "path"}}) <= 1

(***************************************************************************)
(* Every step ends, and every dispose, whenever connections are disposed   *)
(* of: those who wait for the thread that loads go on, and its search of   *)
(* the path ends.                                                          *)
(***************************************************************************)
StepsEnd == \A t \in Threads : pc[t] # "idle" ~> pc[t] = "idle"
-----------------------------------------------------------------------------
\* What makes these properties inductive.

Loading(t) == pc[t] \in {"load", "path"}
Past(t) == pc[t] \in {"result", "getopt", "claim"}
InStep(t) == pc[t] = "once" \/ Loading(t) \/ Past(t)

UtilsInv ==
  \A t \in Threads :
    /\ InStep(t) => load_utils \in Threads
    /\ pc[t] = "path" => mine[t] \in Threads

(***************************************************************************)
(* pthread_once works as a lock where nobody disposes in between: one      *)
(* thread is behind it and loads, or it is open and nobody loads; and who  *)
(* disposes is alone.                                                      *)
(***************************************************************************)
LockInv ==
  apart =>
    /\ stale = {}
    /\ \A t \in Threads :
         /\ pc[t] # "idle" => t \in live
         /\ InStep(t) => load_utils \in live
         /\ pc[t] = "reset" => \A u \in Threads \ {t} : pc[u] = "idle"
         /\ Loading(t) =>
              once = "running" /\ \A u \in Threads \ {t} : ~Loading(u)
         /\ Past(t) => once = "done"
         /\ pc[t] = "claim" =>
              user_claim = IF table.kind = "claim" THEN table ELSE NoTable

\* What was loaded is what t would have loaded.
Accurate(t) ==
  IF load_result = "SASL_OK"
  THEN /\ OwnFile(t) \in {"empty", "claim"}
       /\ table.kind = OwnFile(t) /\ table.service = Service[t]
  ELSE fails \/ OwnFile(t) \in {"missing", "broken"}

FileInv ==
  apart =>
    \A t \in Threads :
      /\ pc[t] = "path" =>
           \A d \in 1 .. dir[t] - 1 : files[d][Service[t]] = "missing"
      /\ once = "done" /\ (\A u \in Threads : pc[u] # "reset") => Accurate(t)
      /\ pc[t] \in {"getopt", "claim"} => load_result = "SASL_OK"
      /\ outcome[t] \notin {Unknown, OwnOutcome(t)} =>
           fails /\ outcome[t] = Found("failed", "none")
=============================================================================
