------------------------ MODULE ClientConfig_proofs ------------------------
(***************************************************************************)
(* What holds of the shared configuration for all threads, files and       *)
(* services, where the application disposes of no connection during a step *)
(* of another one: pthread_once works as a lock although every dispose     *)
(* arms it again, nothing is used after it was freed, and threads with     *)
(* connections for one service find what is in its file.                   *)
(***************************************************************************)
EXTENDS ClientConfig, FiniteSetTheorems, TLAPS

TypeInv == TypeOK /\ UtilsInv

Places == {"idle", "once", "load", "path", "result", "getopt", "claim",
           "reset"}

LEMMA Went ==
  ASSUME TypeOK, NEW t \in Threads, NEW x \in Places, Goto(t, x)
  PROVE  /\ pc' \in [Threads -> Places] /\ pc'[t] = x
         /\ \A u \in Threads \ {t} : pc'[u] = pc[u]
BY DEF TypeOK, Goto, Places

LEMMA NoTableOK == NoTable \in Tables
BY ConfigAssumption DEF NoTable, Tables, Kinds

LEMMA InitType == Init => TypeInv
<1> SUFFICES ASSUME Init PROVE TypeInv
  OBVIOUS
<1>1. Unknown \in Outcomes
  BY DEF Unknown, Found, Outcomes
<1>2. TypeOK
  BY <1>1, NoTableOK, ConfigAssumption DEF Init, TypeOK, Tables
<1>3. UtilsInv
  BY DEF Init, UtilsInv, InStep, Loading, Past
<1> QED BY <1>2, <1>3 DEF TypeInv

\* The name a file is looked for by is that of a service.
LEMMA FileIsKind ==
  ASSUME TypeInv, NEW t \in Threads, pc[t] = "path"
  PROVE  Service[mine[t]] \in Services /\ File(t) \in Kinds
<1>1. mine[t] \in Threads /\ dir[t] \in 1 .. Dirs
  BY DEF TypeInv, TypeOK, UtilsInv
<1>2. Service[mine[t]] \in Services
  BY <1>1 DEF Services
<1>3. files \in [1 .. Dirs -> [Services -> Kinds]]
  BY ConfigAssumption DEF TypeInv, TypeOK
<1> QED BY <1>1, <1>2, <1>3 DEF File

LEMMA LoadedType ==
  ASSUME TypeInv, NEW t \in Threads, pc[t] = "path",
         NEW r \in {"SASL_OK", "SASL_CONTINUE", "SASL_FAIL", "SASL_NOMEM"},
         Loaded(t, r), table' \in Tables,
         UNCHANGED <<env, load_utils, user_claim, live, outcome, stale, steps>>
  PROVE  TypeInv'
<1>1. /\ pc' \in [Threads -> Places] /\ pc'[t] = "result"
      /\ \A u \in Threads \ {t} : pc'[u] = pc[u]
  BY Went DEF TypeInv, Loaded, Places
<1>2. /\ mine' \in [Threads -> Threads \cup {Nobody}]
      /\ \A u \in Threads \ {t} : mine'[u] = mine[u]
      /\ dir' \in [Threads -> 1 .. Dirs]
  <2>1. 1 \in 1 .. Dirs
    BY ConfigAssumption
  <2> QED BY <2>1 DEF TypeInv, TypeOK, Loaded
<1>3. TypeOK'
  BY <1>1, <1>2 DEF TypeInv, TypeOK, Loaded, Places, env
<1>4. UtilsInv'
  BY <1>1, <1>2 DEF TypeInv, UtilsInv, InStep, Loading, Past
<1> QED BY <1>3, <1>4 DEF TypeInv

LEMMA NextType == TypeInv /\ [Next]_vars => TypeInv'
<1> SUFFICES ASSUME TypeInv, [Next]_vars PROVE TypeInv'
  OBVIOUS
<1> USE DEF TypeInv
<1>0. CASE UNCHANGED vars
  BY <1>0 DEF vars, global, env, local, TypeOK, UtilsInv, InStep, Loading, Past
<1>n. CASE Next
  <2> SUFFICES ASSUME NEW t \in Threads,
                      \/ MechNew(t) \/ SetUtils(t) \/ ConfigDone(t)
                      \/ LoadConfigFails(t) \/ Step(t)
               PROVE  TypeInv'
    BY <1>n DEF Next
  <2>1. CASE MechNew(t)
    BY <2>1 DEF MechNew, global, env, local, TypeOK, UtilsInv, InStep, Loading,
                Past
  <2>2. CASE SetUtils(t)
    <3>1. /\ pc' \in [Threads -> Places] /\ pc'[t] = "once"
          /\ \A u \in Threads \ {t} : pc'[u] = pc[u]
      BY <2>2, Went DEF SetUtils, Places
    <3>2. outcome' \in [Threads -> Outcomes]
      BY <2>2 DEF SetUtils, TypeOK, Unknown, Found, Outcomes
    <3>3. steps' \in 0 .. MaxSteps
      BY <2>2, ConfigAssumption DEF SetUtils, TypeOK
    <3>4. TypeOK'
      BY <2>2, <3>1, <3>2, <3>3 DEF SetUtils, env, TypeOK, Places
    <3>5. UtilsInv'
      BY <2>2, <3>1 DEF SetUtils, UtilsInv, InStep, Loading, Past
    <3> QED BY <3>4, <3>5
  <2>3. CASE ConfigDone(t)
    <3>1. /\ pc' \in [Threads -> Places] /\ pc'[t] = "reset"
          /\ \A u \in Threads \ {t} : pc'[u] = pc[u]
      BY <2>3, Went DEF ConfigDone, Places
    <3>2. outcome' \in [Threads -> Outcomes]
      BY <2>3 DEF ConfigDone, TypeOK, Unknown, Found, Outcomes
    <3>3. TypeOK'
      BY <2>3, <3>1, <3>2, NoTableOK DEF ConfigDone, env, TypeOK, Places
    <3>4. UtilsInv'
      BY <2>3, <3>1 DEF ConfigDone, UtilsInv, InStep, Loading, Past
    <3> QED BY <3>3, <3>4
  <2>4. CASE LoadConfigFails(t)
    BY <2>4, LoadedType DEF LoadConfigFails, TypeOK
  <2>5. CASE PassOnce(t) \/ ReadResult(t)
    <3>1. /\ pc' \in [Threads -> Places] /\ pc'[t] \in {"result", "getopt"}
          /\ \A u \in Threads \ {t} : pc'[u] = pc[u]
      BY <2>5, Went DEF PassOnce, ReadResult, Places
    <3>2. TypeOK'
      BY <2>5, <3>1
         DEF PassOnce, ReadResult, global, env, local, TypeOK, Places
    <3>3. UtilsInv'
      BY <2>5, <3>1 DEF PassOnce, ReadResult, global, local, UtilsInv, InStep,
                        Loading, Past
    <3> QED BY <3>2, <3>3
  <2>6. CASE RunOnce(t)
    <3>1. /\ pc' \in [Threads -> Places] /\ pc'[t] = "load"
          /\ \A u \in Threads \ {t} : pc'[u] = pc[u]
      BY <2>6, Went DEF RunOnce, Places
    <3>2. TypeOK'
      BY <2>6, <3>1 DEF RunOnce, env, local, TypeOK, Places
    <3>3. UtilsInv'
      BY <2>6, <3>1 DEF RunOnce, local, UtilsInv, InStep, Loading, Past
    <3> QED BY <3>2, <3>3
  <2>7. CASE LoadConfig(t)
    <3>1. /\ pc' \in [Threads -> Places] /\ pc'[t] = "path"
          /\ \A u \in Threads \ {t} : pc'[u] = pc[u]
      BY <2>7, Went DEF LoadConfig, Places
    <3>2. /\ load_utils \in Threads
          /\ mine' \in [Threads -> Threads \cup {Nobody}]
          /\ mine'[t] = load_utils
          /\ \A u \in Threads \ {t} : mine'[u] = mine[u]
      BY <2>7 DEF LoadConfig, TypeOK, UtilsInv, InStep, Loading
    <3>3. dir' \in [Threads -> 1 .. Dirs]
      <4>1. 1 \in 1 .. Dirs
        BY ConfigAssumption
      <4> QED BY <2>7, <4>1 DEF LoadConfig, TypeOK
    <3>4. stale' \subseteq {"conn", "option"}
      BY <2>7 DEF LoadConfig, Used, TypeOK
    <3>5. TypeOK'
      BY <2>7, <3>1, <3>2, <3>3, <3>4
         DEF LoadConfig, global, env, TypeOK, Places
    <3>6. UtilsInv'
      BY <2>7, <3>1, <3>2
         DEF LoadConfig, global, UtilsInv, InStep, Loading, Past
    <3> QED BY <3>5, <3>6
  <2>8. CASE ReadFile(t)
    <3>1. pc[t] = "path" /\ Service[mine[t]] \in Services /\ File(t) \in Kinds
      BY <2>8, FileIsKind DEF ReadFile
    <3>2. table' \in Tables
      BY <2>8, <3>1 DEF ReadFile, TypeOK, Tables
    <3>3. Loaded(t, "SASL_FAIL") \/ Loaded(t, "SASL_OK")
      BY <2>8 DEF ReadFile
    <3> QED BY <2>8, <3>1, <3>2, <3>3, LoadedType DEF ReadFile
  <2>9. CASE NextDir(t)
    <3>1. dir[t] + 1 \in 1 .. Dirs
      BY <2>9, ConfigAssumption DEF NextDir, TypeOK
    <3>2. dir' \in [Threads -> 1 .. Dirs]
      BY <2>9, <3>1 DEF NextDir, TypeOK
    <3> QED BY <2>9, <3>2
            DEF NextDir, global, env, TypeOK, UtilsInv, InStep, Loading, Past
  <2>10. CASE NoFile(t)
    BY <2>10, LoadedType DEF NoFile, TypeOK
  <2>11. CASE ReadFailure(t) \/ CopyClaim(t)
    <3>1. /\ pc' \in [Threads -> Places] /\ pc'[t] = "idle"
          /\ \A u \in Threads \ {t} : pc'[u] = pc[u]
      BY <2>11, Went DEF ReadFailure, CopyClaim, Places
    <3>2. outcome' \in [Threads -> Outcomes]
      <4>1. /\ Found("failed", "none") \in Outcomes
            /\ Found(user_claim.kind, user_claim.service) \in Outcomes
        BY DEF TypeOK, Tables, Found, Outcomes
      <4> QED BY <2>11, <4>1 DEF ReadFailure, CopyClaim, TypeOK
    <3>3. stale' \subseteq {"conn", "option"}
      BY <2>11 DEF ReadFailure, CopyClaim, Used, TypeOK
    <3>4. UNCHANGED <<global, live, mine, dir, steps>>
      BY <2>11 DEF ReadFailure, CopyClaim
    <3>5. TypeOK'
      BY <3>1, <3>2, <3>3, <3>4 DEF global, env, TypeOK, Places
    <3>6. UtilsInv'
      BY <3>1, <3>4 DEF global, UtilsInv, InStep, Loading, Past
    <3> QED BY <3>5, <3>6
  <2>12. CASE GetOptions(t)
    <3>1. /\ pc' \in [Threads -> Places] /\ pc'[t] = "claim"
          /\ \A u \in Threads \ {t} : pc'[u] = pc[u]
      BY <2>12, Went DEF GetOptions, Places
    <3>2. TypeOK'
      BY <2>12, <3>1, NoTableOK DEF GetOptions, env, local, TypeOK, Places
    <3>3. UtilsInv'
      BY <2>12, <3>1 DEF GetOptions, local, UtilsInv, InStep, Loading, Past
    <3> QED BY <3>2, <3>3
  <2>13. CASE ResetOnce(t)
    <3>1. /\ pc' \in [Threads -> Places] /\ pc'[t] = "idle"
          /\ \A u \in Threads \ {t} : pc'[u] = pc[u]
      BY <2>13, Went DEF ResetOnce, Places
    <3>2. TypeOK'
      BY <2>13, <3>1 DEF ResetOnce, env, local, TypeOK, Places
    <3>3. UtilsInv'
      BY <2>13, <3>1 DEF ResetOnce, local, UtilsInv, InStep, Loading, Past
    <3> QED BY <3>2, <3>3
  <2> QED BY <2>1, <2>2, <2>3, <2>4, <2>5, <2>6, <2>7, <2>8, <2>9, <2>10,
             <2>11, <2>12, <2>13 DEF Step
<1> QED BY <1>0, <1>n

LEMMA TypeHolds == Spec => []TypeInv
<1>1. Init => TypeInv
  BY InitType
<1>2. TypeInv /\ [Next]_vars => TypeInv'
  BY NextType
<1> QED BY <1>1, <1>2, PTL DEF Spec

(***************************************************************************)
(* Type correctness of the shared configuration.                           *)
(***************************************************************************)
THEOREM TypeCorrect == Spec => []TypeOK
<1>1. TypeInv => TypeOK
  BY DEF TypeInv
<1> QED BY <1>1, TypeHolds, PTL
-----------------------------------------------------------------------------
\* The lock.

LEMMA LoadedLock ==
  ASSUME TypeInv, LockInv, NEW t \in Threads, pc[t] = "path",
         NEW r, Loaded(t, r),
         UNCHANGED <<env, load_utils, user_claim, live, stale>>
  PROVE  LockInv'
<1>1. /\ pc'[t] = "result" /\ once' = "done"
      /\ \A u \in Threads \ {t} : pc'[u] = pc[u]
  BY Went DEF TypeInv, Loaded, Places
<1>2. apart => \A u \in Threads \ {t} :
                  ~Loading(u) /\ ~Past(u) /\ pc[u] # "reset"
  BY DEF LockInv, Loading, Past
<1>3. UNCHANGED <<apart, stale, live, load_utils>>
  BY DEF env
<1> QED BY <1>1, <1>2, <1>3 DEF LockInv, InStep, Loading, Past

LEMMA NextLock == TypeInv /\ LockInv /\ [Next]_vars => LockInv'
<1> SUFFICES ASSUME TypeInv, LockInv, [Next]_vars PROVE LockInv'
  OBVIOUS
<1> USE DEF TypeInv
<1>0. CASE UNCHANGED vars
  BY <1>0 DEF vars, global, env, local, LockInv, InStep, Loading, Past
<1>n. CASE Next
  <2> SUFFICES ASSUME NEW t \in Threads,
                      \/ MechNew(t) \/ SetUtils(t) \/ ConfigDone(t)
                      \/ LoadConfigFails(t) \/ Step(t)
               PROVE  LockInv'
    BY <1>n DEF Next
  <2>1. CASE MechNew(t)
    BY <2>1 DEF MechNew, global, env, local, LockInv, InStep, Loading, Past
  <2>2. CASE SetUtils(t)
    <3>1. /\ pc'[t] = "once"
          /\ \A u \in Threads \ {t} : pc'[u] = pc[u]
      BY <2>2, Went DEF SetUtils, Places
    <3> QED BY <2>2, <3>1 DEF SetUtils, env, LockInv, InStep, Loading, Past
  <2>3. CASE ConfigDone(t)
    <3>1. /\ pc'[t] = "reset"
          /\ \A u \in Threads \ {t} : pc'[u] = pc[u]
      BY <2>3, Went DEF ConfigDone, Places
    <3> QED BY <2>3, <3>1
               DEF ConfigDone, env, Quiet, LockInv, InStep, Loading, Past
  <2>4. CASE LoadConfigFails(t) \/ ReadFile(t) \/ NoFile(t)
    <3>1. /\ pc[t] = "path" /\ \E r : Loaded(t, r)
          /\ UNCHANGED <<env, load_utils, user_claim, live, stale>>
      BY <2>4 DEF LoadConfigFails, ReadFile, NoFile
    <3> QED BY <3>1, LoadedLock
  <2>5. CASE PassOnce(t)
    <3>1. /\ pc'[t] = "result"
          /\ \A u \in Threads \ {t} : pc'[u] = pc[u]
      BY <2>5, Went DEF PassOnce, Places
    <3> QED BY <2>5, <3>1
               DEF PassOnce, global, env, LockInv, InStep, Loading, Past
  <2>6. CASE RunOnce(t)
    <3>1. /\ pc'[t] = "load"
          /\ \A u \in Threads \ {t} : pc'[u] = pc[u]
      BY <2>6, Went DEF RunOnce, Places
    <3> QED BY <2>6, <3>1 DEF RunOnce, env, LockInv, InStep, Loading, Past
  <2>7. CASE LoadConfig(t)
    <3>1. /\ pc'[t] = "path"
          /\ \A u \in Threads \ {t} : pc'[u] = pc[u]
      BY <2>7, Went DEF LoadConfig, Places
    <3> QED BY <2>7, <3>1
               DEF LoadConfig, global, env, Used, LockInv, InStep, Loading,
                   Past
  <2>8. CASE NextDir(t)
    BY <2>8 DEF NextDir, global, env, LockInv, InStep, Loading, Past
  <2>9. CASE ReadResult(t)
    <3>1. /\ pc'[t] = "getopt"
          /\ \A u \in Threads \ {t} : pc'[u] = pc[u]
      BY <2>9, Went DEF ReadResult, Places
    <3> QED BY <2>9, <3>1
               DEF ReadResult, global, env, LockInv, InStep, Loading, Past
  <2>10. CASE ReadFailure(t)
    <3>1. /\ pc'[t] = "idle"
          /\ \A u \in Threads \ {t} : pc'[u] = pc[u]
      BY <2>10, Went DEF ReadFailure, Places
    <3> QED BY <2>10, <3>1
               DEF ReadFailure, global, env, LockInv, InStep, Loading, Past
  <2>11. CASE GetOptions(t)
    <3>1. /\ pc'[t] = "claim"
          /\ \A u \in Threads \ {t} : pc'[u] = pc[u]
      BY <2>11, Went DEF GetOptions, Places
    <3> QED BY <2>11, <3>1 DEF GetOptions, env, LockInv, InStep, Loading, Past
  <2>12. CASE CopyClaim(t)
    <3>1. /\ pc'[t] = "idle"
          /\ \A u \in Threads \ {t} : pc'[u] = pc[u]
      BY <2>12, Went DEF CopyClaim, Places
    <3> QED BY <2>12, <3>1
               DEF CopyClaim, global, env, Used, LockInv, InStep, Loading, Past
  <2>13. CASE ResetOnce(t)
    <3>1. /\ pc'[t] = "idle"
          /\ \A u \in Threads \ {t} : pc'[u] = pc[u]
      BY <2>13, Went DEF ResetOnce, Places
    <3> QED BY <2>13, <3>1 DEF ResetOnce, env, LockInv, InStep, Loading, Past
  <2> QED BY <2>1, <2>2, <2>3, <2>4, <2>5, <2>6, <2>7, <2>8, <2>9, <2>10,
             <2>11, <2>12, <2>13 DEF Step
<1> QED BY <1>0, <1>n

LEMMA LockHolds == Spec => []LockInv
<1>1. Init => LockInv
  BY DEF Init, LockInv, InStep, Loading, Past
<1>2. TypeInv /\ LockInv /\ [Next]_vars => LockInv'
  BY NextLock
<1> QED BY <1>1, <1>2, TypeHolds, PTL DEF Spec

(***************************************************************************)
(* No two threads are in load_config at once, however often pthread_once   *)
(* is armed again.                                                         *)
(***************************************************************************)
THEOREM LoadsAlone == Spec => []OneLoads
<1>1. LockInv => OneLoads
  <2> SUFFICES ASSUME LockInv, apart
               PROVE  Cardinality({t \in Threads :
                                    pc[t] \in {"load", "path"}}) <= 1
    BY DEF OneLoads
  <2> DEFINE L == {t \in Threads : pc[t] \in {"load", "path"}}
  <2>1. \A t, u \in L : t = u
    BY DEF LockInv, Loading
  <2>2. L = {} \/ \E t \in L : L = {t}
    BY <2>1
  <2> HIDE DEF L
  <2>3. Cardinality(L) = 0 \/ Cardinality(L) = 1
    BY <2>2, FS_EmptySet, FS_Singleton
  <2>4. Cardinality(L) <= 1
    BY <2>3
  <2> QED BY <2>4 DEF L
<1> QED BY <1>1, LockHolds, PTL

(***************************************************************************)
(* No step uses the utils of a connection that is gone, nor an option of a *)
(* table that was freed.                                                   *)
(***************************************************************************)
THEOREM UsesNothingStale == Spec => []NothingStale
<1>1. LockInv => NothingStale
  BY DEF LockInv, NothingStale
<1> QED BY <1>1, LockHolds, PTL
-----------------------------------------------------------------------------
\* The file.

OneServiceForAll == \A t, u \in Threads : Service[t] = Service[u]

LEMMA FirstFile ==
  ASSUME NEW t \in Threads, NEW d \in 1 .. Dirs,
         files[d][Service[t]] # "missing",
         \A e \in 1 .. d - 1 : files[e][Service[t]] = "missing"
  PROVE  OwnFile(t) = files[d][Service[t]]
<1> DEFINE there == {e \in 1 .. Dirs : files[e][Service[t]] # "missing"}
           first == CHOOSE e \in there : \A f \in there : e <= f
<1>1. d \in there /\ \A f \in there : d <= f
  BY ConfigAssumption
<1>2. first \in there /\ \A f \in there : first <= f
  BY <1>1
<1>3. first = d
  BY <1>1, <1>2, ConfigAssumption
<1>4. there # {}
  BY <1>1
<1>5. OwnFile(t) = files[first][Service[t]]
  BY <1>4, Zenon DEF OwnFile
<1> QED BY <1>3, <1>5

LEMMA NoFileThere ==
  ASSUME NEW t \in Threads,
         \A e \in 1 .. Dirs : files[e][Service[t]] = "missing"
  PROVE  OwnFile(t) = "missing"
<1>1. {e \in 1 .. Dirs : files[e][Service[t]] # "missing"} = {}
  OBVIOUS
<1> QED BY <1>1, Zenon DEF OwnFile

\* What the thread that loads leaves behind.
LEMMA LoadedIs ==
  ASSUME OneServiceForAll, TypeInv, FileInv, apart,
         NEW t \in Threads, NEW u \in Threads,
         \/ LoadConfigFails(t) \/ ReadFile(t) \/ NoFile(t)
  PROVE  Accurate(u)'
<1> DEFINE x == Service[t]
<1>1. /\ pc[t] = "path" /\ mine[t] \in Threads /\ dir[t] \in 1 .. Dirs
      /\ files' = files /\ fails' = fails
  BY DEF LoadConfigFails, ReadFile, NoFile, env, TypeInv, TypeOK, UtilsInv
<1>2. Service[mine[t]] = x /\ Service[u] = x
  BY <1>1 DEF OneServiceForAll
<1>3. \A d \in 1 .. dir[t] - 1 : files[d][x] = "missing"
  BY <1>1 DEF FileInv
<1>4. OwnFile(u)' = OwnFile(t) /\ OwnFile(u) = OwnFile(t)
  BY <1>1, <1>2 DEF OwnFile
<1>5. CASE LoadConfigFails(t)
  BY <1>1, <1>5 DEF LoadConfigFails, Loaded, Accurate
<1>6. CASE ReadFile(t)
  <2>1. File(t) = OwnFile(t) /\ File(t) # "missing"
    BY <1>1, <1>2, <1>3, <1>6, FirstFile DEF ReadFile, File
  <2>2. File(t) \in Kinds
    BY <1>1, FileIsKind
  <2>3. CASE File(t) = "broken"
    BY <1>4, <1>6, <2>1, <2>3 DEF ReadFile, Loaded, Accurate
  <2>4. CASE File(t) # "broken"
    <3>1. /\ load_result' = "SASL_OK" /\ table'.kind = OwnFile(t)
          /\ table'.service = x
      BY <1>2, <1>6, <2>1, <2>4 DEF ReadFile, Loaded
    <3> QED BY <1>2, <1>4, <2>1, <2>2, <2>4, <3>1 DEF Accurate, Kinds
  <2> QED BY <2>3, <2>4
<1>7. CASE NoFile(t)
  <2>1. \A d \in 1 .. Dirs : files[d][x] = "missing"
    <3>1. dir[t] = Dirs /\ files[dir[t]][x] = "missing"
      BY <1>2, <1>7 DEF NoFile, File
    <3> QED BY <1>3, <3>1, ConfigAssumption
  <2>2. OwnFile(t) = "missing"
    BY <2>1, NoFileThere
  <2> QED BY <1>4, <1>7, <2>2 DEF NoFile, Loaded, Accurate
<1> QED BY <1>5, <1>6, <1>7

LEMMA NextFile ==
  ASSUME OneServiceForAll
  PROVE  TypeInv /\ LockInv /\ FileInv /\ [Next]_vars => FileInv'
<1> SUFFICES ASSUME TypeInv, LockInv, FileInv, [Next]_vars PROVE FileInv'
  OBVIOUS
<1> USE DEF TypeInv
<1>0. CASE UNCHANGED vars
  <2>1. UNCHANGED <<files, fails, apart, once, load_result, table, pc, dir,
                    outcome>>
    BY <1>0 DEF vars, global, env, local
  <2>2. \A u \in Threads :
          OwnFile(u)' = OwnFile(u) /\ OwnOutcome(u)' = OwnOutcome(u)
    BY <2>1 DEF OwnFile, OwnOutcome
  <2>3. \A u \in Threads : Accurate(u)' = Accurate(u)
    BY <2>1, <2>2 DEF Accurate
  <2> QED BY <2>1, <2>2, <2>3 DEF FileInv
<1>n. CASE Next
  <2> SUFFICES ASSUME NEW t \in Threads,
                      \/ MechNew(t) \/ SetUtils(t) \/ ConfigDone(t)
                      \/ LoadConfigFails(t) \/ Step(t)
               PROVE  FileInv'
    BY <1>n DEF Next
  <2>a. UNCHANGED <<files, fails, apart>>
    BY DEF MechNew, SetUtils, ConfigDone, LoadConfigFails, Step, PassOnce,
           RunOnce, LoadConfig, ReadFile, NextDir, NoFile, ReadResult,
           ReadFailure, GetOptions, CopyClaim, ResetOnce, global, env
  <2>b. \A u \in Threads :
          OwnFile(u)' = OwnFile(u) /\ OwnOutcome(u)' = OwnOutcome(u)
    BY <2>a DEF OwnFile, OwnOutcome
  <2> SUFFICES ASSUME apart PROVE FileInv'
    BY <2>a DEF FileInv
  <2>1. CASE MechNew(t)
    BY <2>1, <2>b DEF MechNew, global, env, local, FileInv, Accurate
  <2>2. CASE SetUtils(t)
    <3>1. /\ pc'[t] = "once"
          /\ \A u \in Threads \ {t} : pc'[u] = pc[u]
      BY <2>2, Went DEF SetUtils, Places
    <3>2. /\ outcome'[t] = Unknown
          /\ \A u \in Threads \ {t} : outcome'[u] = outcome[u]
      BY <2>2 DEF SetUtils, TypeOK
    <3>3. \A u \in Threads : pc[u] # "reset"
      BY <2>2 DEF SetUtils
    <3> QED BY <2>2, <2>a, <2>b, <3>1, <3>2, <3>3
            DEF SetUtils, env, FileInv, Accurate
  <2>3. CASE ConfigDone(t)
    <3>1. /\ pc'[t] = "reset"
          /\ \A u \in Threads \ {t} : pc'[u] = pc[u]
      BY <2>3, Went DEF ConfigDone, Places
    <3>2. /\ outcome'[t] = Unknown
          /\ \A u \in Threads \ {t} : outcome'[u] = outcome[u]
      BY <2>3 DEF ConfigDone, TypeOK
    <3>3. \A u \in Threads : pc[u] = "idle"
      BY <2>3 DEF ConfigDone, Quiet
    <3> QED BY <2>3, <2>a, <2>b, <3>1, <3>2, <3>3 DEF ConfigDone, env, FileInv
  <2>4. CASE LoadConfigFails(t) \/ ReadFile(t) \/ NoFile(t)
    <3>1. /\ pc[t] = "path" /\ \E r : Loaded(t, r)
          /\ UNCHANGED outcome
      BY <2>4 DEF LoadConfigFails, ReadFile, NoFile
    <3>2. /\ pc'[t] = "result"
          /\ \A u \in Threads \ {t} : pc'[u] = pc[u] /\ dir'[u] = dir[u]
      BY <3>1, Went DEF Loaded, Places, TypeOK
    <3>3. \A u \in Threads \ {t} : pc[u] \notin {"getopt", "claim", "path"}
      BY <3>1 DEF LockInv, Loading, Past
    <3>4. \A u \in Threads : Accurate(u)'
      BY <2>4, LoadedIs
    <3> QED BY <2>a, <2>b, <3>1, <3>2, <3>3, <3>4 DEF FileInv
  <2>5. CASE PassOnce(t)
    <3>1. /\ pc'[t] = "result"
          /\ \A u \in Threads \ {t} : pc'[u] = pc[u]
      BY <2>5, Went DEF PassOnce, Places
    <3>2. pc[t] # "reset"
      BY <2>5 DEF PassOnce
    <3>3. (\A u \in Threads : pc'[u] # "reset")
            => \A u \in Threads : pc[u] # "reset"
      BY <3>1, <3>2
    <3> QED BY <2>5, <2>a, <2>b, <3>1, <3>3
            DEF PassOnce, global, env, local, FileInv, Accurate
  <2>6. CASE RunOnce(t)
    <3>1. /\ pc'[t] = "load"
          /\ \A u \in Threads \ {t} : pc'[u] = pc[u]
      BY <2>6, Went DEF RunOnce, Places
    <3> QED BY <2>6, <2>a, <2>b, <3>1 DEF RunOnce, env, local, FileInv
  <2>7. CASE LoadConfig(t)
    <3>1. /\ pc'[t] = "path"
          /\ \A u \in Threads \ {t} : pc'[u] = pc[u]
      BY <2>7, Went DEF LoadConfig, Places
    <3>2. dir'[t] = 1 /\ \A u \in Threads \ {t} : dir'[u] = dir[u]
      BY <2>7 DEF LoadConfig, TypeOK
    <3>3. once # "done"
      BY <2>7 DEF LoadConfig, LockInv, Loading
    <3>4. UNCHANGED <<once, load_result, outcome>>
      BY <2>7 DEF LoadConfig, global
    <3> QED BY <2>a, <2>b, <3>1, <3>2, <3>3, <3>4 DEF FileInv
  <2>8. CASE NextDir(t)
    <3>1. /\ pc[t] = "path" /\ dir'[t] = dir[t] + 1 /\ dir[t] \in 1 .. Dirs
          /\ \A u \in Threads \ {t} : dir'[u] = dir[u]
          /\ UNCHANGED <<global, pc, outcome>>
      BY <2>8 DEF NextDir, TypeOK
    <3>2. files[dir[t]][Service[t]] = "missing"
      <4>1. mine[t] \in Threads
        BY <3>1 DEF UtilsInv
      <4>2. Service[mine[t]] = Service[t]
        BY <4>1 DEF OneServiceForAll
      <4> QED BY <2>8, <4>2 DEF NextDir, File
    <3>3. \A d \in 1 .. dir'[t] - 1 : files[d][Service[t]] = "missing"
      <4>1. \A d \in 1 .. dir[t] - 1 : files[d][Service[t]] = "missing"
        BY <3>1 DEF FileInv
      <4> QED BY <3>1, <3>2, <4>1, ConfigAssumption
    <3>4. UNCHANGED <<once, load_result, table>>
      BY <3>1 DEF global
    <3> QED BY <2>a, <2>b, <3>1, <3>3, <3>4 DEF FileInv, Accurate
  <2>9. CASE ReadResult(t)
    <3>1. /\ pc'[t] = "getopt"
          /\ \A u \in Threads \ {t} : pc'[u] = pc[u]
      BY <2>9, Went DEF ReadResult, Places
    <3>2. pc[t] # "reset" /\ load_result = "SASL_OK"
      BY <2>9 DEF ReadResult
    <3>3. (\A u \in Threads : pc'[u] # "reset")
            => \A u \in Threads : pc[u] # "reset"
      BY <3>1, <3>2
    <3> QED BY <2>9, <2>a, <2>b, <3>1, <3>2, <3>3
            DEF ReadResult, global, env, local, FileInv, Accurate
  <2>p. ASSUME Past(t)
        PROVE  Accurate(t) /\ \A u \in Threads : pc[u] # "reset"
    <3>1. once = "done" /\ \A u \in Threads : pc[u] # "reset"
      BY <2>p DEF LockInv, Past
    <3> QED BY <3>1 DEF FileInv
  <2>10. CASE ReadFailure(t)
    <3>1. /\ pc'[t] = "idle"
          /\ \A u \in Threads \ {t} : pc'[u] = pc[u]
      BY <2>10, Went DEF ReadFailure, Places
    <3>2. /\ outcome'[t] = Found("failed", "none")
          /\ \A u \in Threads \ {t} : outcome'[u] = outcome[u]
      BY <2>10 DEF ReadFailure, TypeOK
    <3>3. fails \/ OwnOutcome(t) = Found("failed", "none")
      BY <2>10, <2>p DEF ReadFailure, Past, Accurate, OwnOutcome
    <3>4. \A u \in Threads : pc[u] # "reset"
      BY <2>10, <2>p DEF ReadFailure, Past
    <3> QED BY <2>10, <2>a, <2>b, <3>1, <3>2, <3>3, <3>4
            DEF ReadFailure, global, env, FileInv, Accurate
  <2>11. CASE GetOptions(t)
    <3>1. /\ pc'[t] = "claim"
          /\ \A u \in Threads \ {t} : pc'[u] = pc[u]
      BY <2>11, Went DEF GetOptions, Places
    <3>2. \A u \in Threads : pc[u] # "reset"
      BY <2>11, <2>p DEF GetOptions, Past
    <3>3. load_result = "SASL_OK"
      BY <2>11 DEF GetOptions, FileInv
    <3> QED BY <2>11, <2>a, <2>b, <3>1, <3>2, <3>3
            DEF GetOptions, env, local, FileInv, Accurate
  <2>12. CASE CopyClaim(t)
    <3>1. /\ pc'[t] = "idle"
          /\ \A u \in Threads \ {t} : pc'[u] = pc[u]
      BY <2>12, Went DEF CopyClaim, Places
    <3>2. /\ outcome'[t] = Found(user_claim.kind, user_claim.service)
          /\ \A u \in Threads \ {t} : outcome'[u] = outcome[u]
      BY <2>12 DEF CopyClaim, TypeOK
    <3>3. \A u \in Threads : pc[u] # "reset"
      BY <2>12, <2>p DEF CopyClaim, Past
    <3>4. Found(user_claim.kind, user_claim.service) = OwnOutcome(t)
      <4>1. /\ Accurate(t) /\ load_result = "SASL_OK"
            /\ user_claim = IF table.kind = "claim" THEN table ELSE NoTable
        BY <2>12, <2>p DEF CopyClaim, Past, FileInv, LockInv
      <4> QED BY <4>1 DEF Accurate, OwnOutcome, Found, NoTable
    <3> QED BY <2>12, <2>a, <2>b, <3>1, <3>2, <3>3, <3>4
            DEF CopyClaim, global, env, FileInv, Accurate
  <2>13. CASE ResetOnce(t)
    <3>1. /\ pc'[t] = "idle"
          /\ \A u \in Threads \ {t} : pc'[u] = pc[u]
      BY <2>13, Went DEF ResetOnce, Places
    <3> QED BY <2>13, <2>a, <2>b, <3>1 DEF ResetOnce, env, local, FileInv
  <2> QED BY <2>1, <2>2, <2>3, <2>4, <2>5, <2>6, <2>7, <2>8, <2>9, <2>10,
             <2>11, <2>12, <2>13 DEF Step
<1> QED BY <1>0, <1>n

(***************************************************************************)
(* Where all connections are for one service, each step finds what is in   *)
(* the first file of the search path for it, whichever thread has loaded   *)
(* it, or fails.                                                           *)
(***************************************************************************)
THEOREM OwnFileFound ==
  ASSUME OneServiceForAll
  PROVE  Spec => []FindsOwnFile
<1>1. Init => FileInv
  BY DEF Init, FileInv
<1>2. TypeInv /\ LockInv /\ FileInv /\ [Next]_vars => FileInv'
  BY NextFile
<1>3. FileInv => FindsOwnFile
  BY DEF FileInv, FindsOwnFile
<1> QED BY <1>1, <1>2, <1>3, TypeHolds, LockHolds, PTL DEF Spec
=============================================================================
