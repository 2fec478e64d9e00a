------------------------- MODULE RouterConfigProofs -------------------------
(***************************************************************************)
(* Theorems about RouterConfig for any number of threads, configurations,  *)
(* prefixes and faults.                                                    *)
(*                                                                         *)
(* SettledFiles is not inductive: it speaks only of moments when nobody    *)
(* holds the lock, and so says nothing of what the holder has written so   *)
(* far.  CfgInv adds who holds the lock, what the files hold at every step *)
(* of the holder, that what the holder saved is the last proven state, and *)
(* which configuration the router can be running when its health is asked. *)
(***************************************************************************)
EXTENDS RouterConfig, TLAPS

\* The files as the candidate of t wants them.
Wanted(t) == [config |-> job[t].config, prefix |-> job[t].prefix, pub |-> job[t].pub]

\* The lock is held exactly by the thread between Acquire and Return.
LockInv == \A t \in Threads : pc[t] \in Holding <=> lock = t

\* What the three files hold when thread t is at each of its steps.
FilesAt(t) ==
  /\ pc[t] \in {"save", "config", "rerestart", "rehealth"} => disk = prev[t]
  /\ pc[t] = "prefix" =>
       disk.config = job[t].config /\ disk.prefix = prev[t].prefix /\ disk.pub = prev[t].pub
  /\ pc[t] = "pub" =>
       disk.config = job[t].config /\ disk.prefix = job[t].prefix /\ disk.pub = prev[t].pub
  /\ pc[t] \in {"restart", "health", "link", "native"} => disk = Wanted(t)
  /\ pc[t] = "back_prefix" => disk.config = prev[t].config
  /\ pc[t] = "back_pub" => disk.config = prev[t].config /\ disk.prefix = prev[t].prefix

\* What thread t saved in its locals is the last proven state.
SavedAt(t) ==
  /\ (intact /\ pc[t] = "check") => disk = committed
  /\ (intact /\ pc[t] \in Unproven \cup {"save", "rerestart", "rehealth"}) => prev[t] = committed
  /\ pc[t] = "native" => disk = committed

\* The router whose health thread t asks for runs on the files as they are.
RunningAt(t) == pc[t] \in {"health", "link", "rehealth"} => running \in {disk.config, Down}

HolderInv == \A t \in Threads : FilesAt(t) /\ SavedAt(t) /\ RunningAt(t)

CfgInv == CfgTypeOK /\ LockInv /\ HolderInv /\ SettledFiles

\* Initially the invariant holds.
LEMMA CfgInvInit == CfgInit => CfgInv
<1> SUFFICES ASSUME CfgInit PROVE CfgInv
  OBVIOUS
<1>1. CfgTypeOK
  BY ConfigAssumption DEF CfgInit, CfgTypeOK, Files, Candidate, NoJob, PCs, Outcomes
<1>2. LockInv
  BY ConfigAssumption DEF CfgInit, LockInv, Holding, Unproven
<1>3. HolderInv
  BY DEF CfgInit, HolderInv, FilesAt, SavedAt, RunningAt, Unproven
<1>4. SettledFiles
  BY DEF CfgInit, SettledFiles
<1> QED
  BY <1>1, <1>2, <1>3, <1>4 DEF CfgInv

-----------------------------------------------------------------------------
(* Types.  The state files and the ghosts are typed apart from the threads'  *)
(* control state, which changes only through Goto, Restore, Return, Call.    *)

FileTypes ==
  /\ disk \in Files
  /\ lkg \in Configs \cup {Torn, NoConfig}
  /\ running \in Configs \cup {Torn, Down}
  /\ natives \in Prefixes \cup {Torn}
  /\ committed \in Files
  /\ intact \in BOOLEAN

ControlTypes ==
  /\ lock \in Threads \cup {NoThread}
  /\ pc \in [Threads -> PCs]
  /\ job \in [Threads -> Candidate]
  /\ prev \in [Threads -> Files]
  /\ why \in [Threads -> {"none", "write", "unhealthy"}]
  /\ result \in [Threads -> Outcomes]
  /\ puts \in 0..MaxPuts

\* The two halves are the type invariant.
LEMMA TypeHalves == CfgTypeOK <=> FileTypes /\ ControlTypes
  BY DEF CfgTypeOK, FileTypes, ControlTypes

\* What a thread's locals hold outside apply_rendered_config has their types.
LEMMA NoLocals == NoJob \in Candidate /\ InitFiles \in Files
  BY ConfigAssumption DEF NoJob, Candidate, Files

\* Rewriting one state file with a text of its kind leaves typed files.
LEMMA ConfigUpdate ==
  ASSUME NEW d \in Files, NEW c \in Configs \cup {Torn}
  PROVE  [d EXCEPT !["config"] = c] \in Files
  BY DEF Files

\* The same for namespace-prefix.
LEMMA PrefixUpdate ==
  ASSUME NEW d \in Files, NEW p \in Prefixes \cup {Torn}
  PROVE  [d EXCEPT !["prefix"] = p] \in Files
  BY DEF Files

\* The same for data-topic-prefix.
LEMMA PubUpdate ==
  ASSUME NEW d \in Files, NEW p \in Prefixes \cup {Torn}
  PROVE  [d EXCEPT !["pub"] = p] \in Files
  BY DEF Files

\* Goto keeps the control types.
LEMMA GotoType ==
  ASSUME ControlTypes, NEW t \in Threads, NEW l \in PCs, Goto(t, l)
  PROVE  ControlTypes'
  BY DEF ControlTypes, Goto

\* Return keeps the control types.
LEMMA ReturnType ==
  ASSUME ControlTypes, NEW t \in Threads, NEW s \in Outcomes, Return(t, s)
  PROVE  ControlTypes'
  BY NoLocals DEF ControlTypes, Return, PCs

\* Restore keeps the control types.
LEMMA RestoreType ==
  ASSUME ControlTypes, NEW t \in Threads, NEW r \in {"write", "unhealthy"}, Restore(t, r)
  PROVE  ControlTypes'
  BY DEF ControlTypes, Restore, PCs, Holding, Unproven

\* Every status is an outcome and every label a control point.
LEMMA Labels ==
  /\ {"applied", "rejected", "rolled_back", "failed", "raised", "none"} \subseteq Outcomes
  /\ {"idle", "call", "done", "check", "save", "config", "prefix", "pub", "restart", "health",
      "link", "native", "back_prefix", "back_pub", "rerestart", "rehealth"} \subseteq PCs
  BY DEF Outcomes, Statuses, PCs, Holding, Unproven

\* Every step of apply_rendered_config keeps the control types.
LEMMA ApplyControlTypes ==
  ASSUME CfgTypeOK, NEW t \in Threads, apply_rendered_config(t)
  PROVE  ControlTypes'
<1> USE TypeHalves, Labels
<1>1. CASE Acquire(t)
  BY <1>1 DEF Acquire, ControlTypes
<1>2. CASE Check(t)
  <2>1. CASE Return(t, "rejected")
    BY <2>1, ReturnType
  <2>2. CASE prev' = [prev EXCEPT ![t] = disk] /\ pc' = [pc EXCEPT ![t] = "save"]
             /\ UNCHANGED <<lock, job, why, result, puts>>
    BY <2>2 DEF ControlTypes, FileTypes
  <2> QED
    BY <1>2, <2>1, <2>2 DEF Check
<1>3. CASE SaveLastKnownGood(t)
  BY <1>3, GotoType, ReturnType DEF SaveLastKnownGood
<1>4. CASE WriteCandidate(t, "config", "prefix")
  BY <1>4, GotoType, RestoreType DEF WriteCandidate
<1>5. CASE WriteCandidate(t, "prefix", "pub")
  BY <1>5, GotoType, RestoreType DEF WriteCandidate
<1>6. CASE WriteCandidate(t, "pub", "restart")
  BY <1>6, GotoType, RestoreType DEF WriteCandidate
<1>7. CASE Restart(t)
  BY <1>7, GotoType, RestoreType DEF Restart
<1>8. CASE Health(t)
  BY <1>8, GotoType, RestoreType, ReturnType DEF Health, Commit
<1>9. CASE Link(t)
  BY <1>9, GotoType, RestoreType, ReturnType DEF Link, Commit
<1>10. CASE WriteBack(t, "config", "back_config", "back_prefix")
  BY <1>10, GotoType, ReturnType DEF WriteBack
<1>11. CASE WriteBack(t, "prefix", "back_prefix", "back_pub")
  BY <1>11, GotoType, ReturnType DEF WriteBack
<1>12. CASE WriteBack(t, "pub", "back_pub", "restored")
  BY <1>12, GotoType, ReturnType DEF WriteBack, Restored
<1>13. CASE Rerestart(t)
  BY <1>13, GotoType, ReturnType DEF Rerestart
<1>14. CASE Rehealth(t)
  BY <1>14, ReturnType DEF Rehealth
<1>15. CASE RestartNatives(t)
  BY <1>15, ReturnType DEF RestartNatives
<1>16. CASE DockerRaises(t)
  BY <1>16, ReturnType DEF DockerRaises
<1> QED
  BY <1>1, <1>2, <1>3, <1>4, <1>5, <1>6, <1>7, <1>8, <1>9, <1>10, <1>11, <1>12, <1>13, <1>14, <1>15,
     <1>16
     DEF apply_rendered_config

\* Every step of apply_rendered_config keeps the types of files and ghosts.
LEMMA ApplyFileTypes ==
  ASSUME CfgTypeOK, NEW t \in Threads, apply_rendered_config(t)
  PROVE  FileTypes'
<1> USE TypeHalves DEF fileVars, ghosts
<1>a. FileTypes /\ prev[t] \in Files /\ job[t] \in Candidate
  BY DEF ControlTypes
<1>b. /\ disk.config \in Configs \cup {Torn}
      /\ disk.prefix \in Prefixes \cup {Torn}
      /\ disk.pub \in Prefixes \cup {Torn}
      /\ prev[t].config \in Configs \cup {Torn}
      /\ prev[t].prefix \in Prefixes \cup {Torn}
      /\ prev[t].pub \in Prefixes \cup {Torn}
      /\ [config |-> job[t].config, prefix |-> job[t].prefix, pub |-> job[t].pub] \in Files
      /\ job[t].config \in Configs \cup {Torn}
      /\ job[t].prefix \in Prefixes \cup {Torn}
      /\ job[t].pub \in Prefixes \cup {Torn}
  BY <1>a DEF FileTypes, Files, Candidate
<1>1. CASE Acquire(t) \/ Check(t)
  BY <1>1, <1>a DEF Acquire, Check, FileTypes
<1>2. CASE SaveLastKnownGood(t)
  BY <1>2, <1>a, <1>b DEF SaveLastKnownGood, FileTypes
<1>3. CASE WriteCandidate(t, "config", "prefix")
  BY <1>3, <1>a, <1>b, ConfigUpdate DEF WriteCandidate, FileTypes
<1>4. CASE WriteCandidate(t, "prefix", "pub")
  BY <1>4, <1>a, <1>b, PrefixUpdate DEF WriteCandidate, FileTypes
<1>5. CASE WriteCandidate(t, "pub", "restart")
  BY <1>5, <1>a, <1>b, PubUpdate DEF WriteCandidate, FileTypes
<1>6. CASE Restart(t) \/ Rerestart(t)
  BY <1>6, <1>a, <1>b DEF Restart, Rerestart, FileTypes
<1>7. CASE Health(t) \/ Link(t)
  BY <1>7, <1>a, <1>b DEF Health, Link, Commit, FileTypes
<1>8. CASE WriteBack(t, "config", "back_config", "back_prefix")
  BY <1>8, <1>a, <1>b, ConfigUpdate DEF WriteBack, FileTypes
<1>9. CASE WriteBack(t, "prefix", "back_prefix", "back_pub")
  BY <1>9, <1>a, <1>b, PrefixUpdate DEF WriteBack, FileTypes
<1>10. CASE WriteBack(t, "pub", "back_pub", "restored")
  BY <1>10, <1>a, <1>b, PubUpdate DEF WriteBack, FileTypes
<1>11. CASE Rehealth(t)
  BY <1>11, <1>a DEF Rehealth, FileTypes
<1>12. CASE RestartNatives(t)
  BY <1>12, <1>a, <1>b DEF RestartNatives, FileTypes
<1>13. CASE DockerRaises(t)
  BY <1>13, <1>a, <1>b DEF DockerRaises, FileTypes
<1> QED
  BY <1>1, <1>2, <1>3, <1>4, <1>5, <1>6, <1>7, <1>8, <1>9, <1>10, <1>11, <1>12, <1>13
     DEF apply_rendered_config

\* What a killed thread leaves in the files has their type.
LEMMA InterruptedType ==
  ASSUME CfgTypeOK, NEW t \in Threads
  PROVE  Interrupted(t) \subseteq Files
<1> DEFINE source == IF pc[t] \in {"config", "prefix", "pub"} THEN job[t] ELSE prev[t]
<1>a. disk \in Files /\ prev[t] \in Files /\ job[t] \in Candidate
  BY TypeHalves DEF ControlTypes, FileTypes
<1>b. /\ source.config \in Configs \cup {Torn}
      /\ source.prefix \in Prefixes \cup {Torn}
      /\ source.pub \in Prefixes \cup {Torn}
  BY <1>a DEF Files, Candidate
<1>c. /\ disk.config \in Configs \cup {Torn}
      /\ disk.prefix \in Prefixes \cup {Torn}
      /\ disk.pub \in Prefixes \cup {Torn}
  BY <1>a DEF Files
<1>1. CASE pc[t] \in {"config", "back_config"}
  <2>1. FileAt[pc[t]] = "config" /\ pc[t] \in DOMAIN FileAt
    BY <1>1 DEF FileAt
  <2>2. Interrupted(t) = {[disk EXCEPT !["config"] = v] : v \in {disk.config, Torn, source.config}}
    BY <2>1 DEF Interrupted
  <2> HIDE DEF source
  <2> QED
    BY <2>2, <1>a, <1>b, <1>c, ConfigUpdate
<1>2. CASE pc[t] \in {"prefix", "back_prefix"}
  <2>1. FileAt[pc[t]] = "prefix" /\ pc[t] \in DOMAIN FileAt
    BY <1>2 DEF FileAt
  <2>2. Interrupted(t) = {[disk EXCEPT !["prefix"] = v] : v \in {disk.prefix, Torn, source.prefix}}
    BY <2>1 DEF Interrupted
  <2> HIDE DEF source
  <2> QED
    BY <2>2, <1>a, <1>b, <1>c, PrefixUpdate
<1>3. CASE pc[t] \in {"pub", "back_pub"}
  <2>1. FileAt[pc[t]] = "pub" /\ pc[t] \in DOMAIN FileAt
    BY <1>3 DEF FileAt
  <2>2. Interrupted(t) = {[disk EXCEPT !["pub"] = v] : v \in {disk.pub, Torn, source.pub}}
    BY <2>1 DEF Interrupted
  <2> HIDE DEF source
  <2> QED
    BY <2>2, <1>a, <1>b, <1>c, PubUpdate
<1>4. CASE pc[t] \notin {"config", "back_config", "prefix", "back_prefix", "pub", "back_pub"}
  <2>1. pc[t] \notin DOMAIN FileAt
    BY <1>4 DEF FileAt
  <2> QED
    BY <2>1, <1>a DEF Interrupted
<1> QED
  BY <1>1, <1>2, <1>3, <1>4

\* Every step of the component keeps the types.
LEMMA CfgTypeStep == CfgTypeOK /\ [CfgNext]_cfgVars => CfgTypeOK'
<1> SUFFICES ASSUME CfgTypeOK, [CfgNext]_cfgVars PROVE FileTypes' /\ ControlTypes'
  BY TypeHalves DEF CfgTypeOK, FileTypes, ControlTypes
<1>a. FileTypes /\ ControlTypes
  BY TypeHalves
<1>1. ASSUME NEW t \in Locals, NEW d \in Drafts, put_config(t, d)
      PROVE  FileTypes' /\ ControlTypes'
  <2>1. [config |-> d.config, prefix |-> d.prefix, pub |-> d.pub,
         preserve |-> d.config \in Linked] \in Candidate
    BY ConfigAssumption DEF Candidate
  <2>2. ControlTypes'
    BY <1>1, <1>a, <2>1, Labels, ConfigAssumption DEF put_config, Call, ControlTypes
  <2> QED
    BY <1>1, <1>a, <2>2 DEF put_config, Call, FileTypes, fileVars, ghosts
<1>2. ASSUME NEW t \in Locals, NEW c \in Texts, put_rendered_config(t, c)
      PROVE  FileTypes' /\ ControlTypes'
  <2>1. [config |-> c, prefix |-> disk.prefix, pub |-> disk.pub, preserve |-> FALSE] \in Candidate
    BY <1>a, ConfigAssumption DEF Candidate, FileTypes, Files
  <2>2. ControlTypes'
    BY <1>2, <1>a, <2>1, Labels, ConfigAssumption DEF put_rendered_config, Call, ControlTypes
  <2> QED
    BY <1>2, <1>a, <2>2 DEF put_rendered_config, Call, FileTypes, fileVars, ghosts
<1>3. ASSUME NEW t \in Locals, PutReturns(t)
      PROVE  FileTypes' /\ ControlTypes'
  BY <1>3, <1>a, Labels, ConfigAssumption
     DEF PutReturns, Resume, ControlTypes, FileTypes, fileVars, ghosts
<1>4. ASSUME NEW t \in Threads, apply_rendered_config(t)
      PROVE  FileTypes' /\ ControlTypes'
  BY <1>4, ApplyFileTypes, ApplyControlTypes
<1>5. CASE RouterRestarts
  <2>1. disk.config \in Configs \cup {Torn}
    BY <1>a DEF FileTypes, Files
  <2> QED
    BY <1>5, <1>a, <2>1 DEF RouterRestarts, callVars, ghosts, FileTypes, ControlTypes
<1>6. CASE AdminCrash
  <2>1. disk' \in Files
    BY <1>6, <1>a, InterruptedType DEF AdminCrash, FileTypes, ControlTypes
  <2>2. FileTypes'
    BY <1>6, <1>a, <2>1 DEF AdminCrash, FileTypes
  <2>3. ControlTypes'
    BY <1>6, <1>a, Labels, NoLocals DEF AdminCrash, ControlTypes
  <2> QED
    BY <2>2, <2>3
<1>8. CASE NativeStarts
  BY <1>8, <1>a DEF NativeStarts, callVars, ghosts, FileTypes, ControlTypes, Files
<1>7. CASE UNCHANGED cfgVars
  BY <1>7, <1>a DEF cfgVars, FileTypes, ControlTypes
<1> QED
  BY <1>1, <1>2, <1>3, <1>4, <1>5, <1>6, <1>7, <1>8 DEF CfgNext

\* Every variable of the activation path has its type, for any number of threads,
\* configurations and faults (compose/zenoh-admin/api/config.py).
THEOREM CfgTypes == CfgSpec => []CfgTypeOK
<1>1. CfgInit => CfgTypeOK
  BY CfgInvInit DEF CfgInv
<1> QED
  BY <1>1, CfgTypeStep, PTL DEF CfgSpec

-----------------------------------------------------------------------------
(* The lock. *)

\* A step of t in apply_rendered_config moves t alone: it takes the lock, keeps
\* it inside the critical section, or gives it back with the return.
LEMMA ApplyMoves ==
  ASSUME CfgTypeOK, NEW t \in Threads, apply_rendered_config(t)
  PROVE  \E l \in PCs :
           /\ pc' = [pc EXCEPT ![t] = l]
           /\ \/ pc[t] = "call" /\ l = "check" /\ lock = NoThread /\ lock' = t
              \/ pc[t] \in Holding /\ l \in Holding /\ lock' = lock
              \/ pc[t] \in Holding /\ l = "done" /\ lock' = NoThread
<1> USE DEF PCs, Holding, Unproven
<1>1. CASE Acquire(t)
  BY <1>1 DEF Acquire
<1>2. CASE Check(t)
  BY <1>2 DEF Check, Return
<1>3. CASE SaveLastKnownGood(t)
  BY <1>3 DEF SaveLastKnownGood, Goto, Return
<1>4. CASE WriteCandidate(t, "config", "prefix")
  BY <1>4 DEF WriteCandidate, Goto, Restore
<1>5. CASE WriteCandidate(t, "prefix", "pub")
  BY <1>5 DEF WriteCandidate, Goto, Restore
<1>6. CASE WriteCandidate(t, "pub", "restart")
  BY <1>6 DEF WriteCandidate, Goto, Restore
<1>7. CASE Restart(t)
  BY <1>7 DEF Restart, Goto, Restore
<1>8. CASE Health(t)
  BY <1>8 DEF Health, Commit, Goto, Return, Restore
<1>9. CASE Link(t)
  BY <1>9 DEF Link, Commit, Goto, Return, Restore
<1>10. CASE WriteBack(t, "config", "back_config", "back_prefix")
  BY <1>10 DEF WriteBack, Goto, Return
<1>11. CASE WriteBack(t, "prefix", "back_prefix", "back_pub")
  BY <1>11 DEF WriteBack, Goto, Return
<1>12. CASE WriteBack(t, "pub", "back_pub", "restored")
  BY <1>12 DEF WriteBack, Restored, Goto, Return
<1>13. CASE Rerestart(t)
  BY <1>13 DEF Rerestart, Goto, Return
<1>14. CASE Rehealth(t)
  BY <1>14 DEF Rehealth, Return
<1>15. CASE RestartNatives(t)
  BY <1>15 DEF RestartNatives, Return
<1>16. CASE DockerRaises(t)
  BY <1>16 DEF DockerRaises, Return
<1> QED
  BY <1>1, <1>2, <1>3, <1>4, <1>5, <1>6, <1>7, <1>8, <1>9, <1>10, <1>11, <1>12, <1>13, <1>14, <1>15,
     <1>16
     DEF apply_rendered_config

\* The lock stays with the thread inside apply_rendered_config, and no other
\* thread is inside before or after the step.
LEMMA ApplyLock ==
  ASSUME CfgTypeOK, LockInv, NEW t \in Threads, apply_rendered_config(t)
  PROVE  /\ LockInv'
         /\ \A u \in Threads \ {t} : pc'[u] = pc[u] /\ pc[u] \notin Holding
<1>a. pc \in [Threads -> PCs] /\ NoThread \notin Threads /\ {"call", "done"} \cap Holding = {}
  BY ConfigAssumption DEF CfgTypeOK, Holding, Unproven
<1>b. "check" \in Holding
  BY DEF Holding
<1>1. PICK l \in PCs :
        /\ pc' = [pc EXCEPT ![t] = l]
        /\ \/ pc[t] = "call" /\ l = "check" /\ lock = NoThread /\ lock' = t
           \/ pc[t] \in Holding /\ l \in Holding /\ lock' = lock
           \/ pc[t] \in Holding /\ l = "done" /\ lock' = NoThread
  BY ApplyMoves
<1> QED
  BY <1>a, <1>b, <1>1 DEF LockInv

\* A step of t in apply_rendered_config leaves the locals of the others alone.
LEMMA ApplyFrame ==
  ASSUME CfgTypeOK, NEW t \in Threads, apply_rendered_config(t)
  PROVE  \A u \in Threads \ {t} :
           /\ pc'[u] = pc[u] /\ job'[u] = job[u] /\ prev'[u] = prev[u] /\ result'[u] = result[u]
<1> USE DEF CfgTypeOK, fileVars, ghosts
<1>1. CASE Acquire(t)
  BY <1>1 DEF Acquire
<1>2. CASE Check(t)
  BY <1>2 DEF Check, Return
<1>3. CASE SaveLastKnownGood(t)
  BY <1>3 DEF SaveLastKnownGood, Goto, Return
<1>4. CASE WriteCandidate(t, "config", "prefix")
  BY <1>4 DEF WriteCandidate, Goto, Restore
<1>5. CASE WriteCandidate(t, "prefix", "pub")
  BY <1>5 DEF WriteCandidate, Goto, Restore
<1>6. CASE WriteCandidate(t, "pub", "restart")
  BY <1>6 DEF WriteCandidate, Goto, Restore
<1>7. CASE Restart(t)
  BY <1>7 DEF Restart, Goto, Restore
<1>8. CASE Health(t)
  BY <1>8 DEF Health, Commit, Goto, Return, Restore
<1>9. CASE Link(t)
  BY <1>9 DEF Link, Commit, Goto, Return, Restore
<1>10. CASE WriteBack(t, "config", "back_config", "back_prefix")
  BY <1>10 DEF WriteBack, Goto, Return
<1>11. CASE WriteBack(t, "prefix", "back_prefix", "back_pub")
  BY <1>11 DEF WriteBack, Goto, Return
<1>12. CASE WriteBack(t, "pub", "back_pub", "restored")
  BY <1>12 DEF WriteBack, Restored, Goto, Return
<1>13. CASE Rerestart(t)
  BY <1>13 DEF Rerestart, Goto, Return
<1>14. CASE Rehealth(t)
  BY <1>14 DEF Rehealth, Return
<1>15. CASE RestartNatives(t)
  BY <1>15 DEF RestartNatives, Return
<1>16. CASE DockerRaises(t)
  BY <1>16 DEF DockerRaises, Return
<1> QED
  BY <1>1, <1>2, <1>3, <1>4, <1>5, <1>6, <1>7, <1>8, <1>9, <1>10, <1>11, <1>12, <1>13, <1>14, <1>15,
     <1>16
     DEF apply_rendered_config

-----------------------------------------------------------------------------
(* The files at every step of the holder. *)

\* Files are equal when the three texts are.
LEMMA FilesEqual ==
  ASSUME NEW d \in Files, NEW e \in Files,
         d.config = e.config, d.prefix = e.prefix, d.pub = e.pub
  PROVE  d = e
  BY DEF Files

\* Every step of apply_rendered_config keeps what its thread knows of the files.
LEMMA ApplyHolder ==
  ASSUME CfgInv, NEW t \in Threads, apply_rendered_config(t)
  PROVE  FilesAt(t)' /\ SavedAt(t)' /\ RunningAt(t)' /\ SettledFiles'
<1>a. /\ FilesAt(t) /\ SavedAt(t) /\ RunningAt(t)
      /\ SettledFiles
      /\ pc[t] \in Holding => lock = t
  BY DEF CfgInv, HolderInv, LockInv
<1>b. /\ pc \in [Threads -> PCs] /\ job \in [Threads -> Candidate] /\ prev \in [Threads -> Files]
      /\ disk \in Files /\ committed \in Files /\ NoThread \notin Threads
  BY ConfigAssumption DEF CfgInv, CfgTypeOK
<1>c. CfgTypeOK'
  BY CfgTypeStep DEF CfgInv, CfgNext
<1>d. disk' \in Files /\ committed' \in Files
  BY <1>c DEF CfgTypeOK
<1> USE DEF FilesAt, SavedAt, RunningAt, SettledFiles, fileVars, ghosts
<1>1. CASE Acquire(t)
  BY <1>1, <1>a, <1>b DEF Acquire, Unproven
<1>2. CASE Check(t)
  BY <1>2, <1>a, <1>b DEF Check, Return, Unproven
<1>3. CASE SaveLastKnownGood(t)
  BY <1>3, <1>a, <1>b DEF SaveLastKnownGood, Goto, Return, Unproven, Holding
<1>4. CASE WriteCandidate(t, "config", "prefix")
  BY <1>4, <1>a, <1>b DEF WriteCandidate, Goto, Restore, Unproven, Holding, Files
<1>5. CASE WriteCandidate(t, "prefix", "pub")
  BY <1>5, <1>a, <1>b DEF WriteCandidate, Goto, Restore, Unproven, Holding, Files
<1>6. CASE WriteCandidate(t, "pub", "restart")
  BY <1>6, <1>a, <1>b DEF WriteCandidate, Goto, Restore, Wanted, Unproven, Holding, Files
<1>7. CASE Restart(t)
  BY <1>7, <1>a, <1>b DEF Restart, Goto, Restore, Wanted, Unproven, Holding
<1>8. CASE Health(t)
  BY <1>8, <1>a, <1>b DEF Health, Commit, Goto, Return, Restore, Wanted, Unproven, Holding
<1>9. CASE Link(t)
  BY <1>9, <1>a, <1>b DEF Link, Commit, Goto, Return, Restore, Wanted, Unproven, Holding
<1>10. CASE WriteBack(t, "config", "back_config", "back_prefix")
  BY <1>10, <1>a, <1>b DEF WriteBack, Goto, Return, Unproven, Holding, Files
<1>11. CASE WriteBack(t, "prefix", "back_prefix", "back_pub")
  BY <1>11, <1>a, <1>b DEF WriteBack, Goto, Return, Unproven, Holding, Files
<1>12. CASE WriteBack(t, "pub", "back_pub", "restored")
  <2>1. CASE disk' = [disk EXCEPT !["pub"] = prev[t]["pub"]] /\ Restored(t) /\ UNCHANGED intact
    <3>1. disk' = prev[t]
      BY <2>1, <1>12, <1>a, <1>b, <1>d, FilesEqual DEF WriteBack, Files
    <3> QED
      BY <2>1, <3>1, <1>12, <1>a, <1>b DEF WriteBack, Restored, Goto, Return, Unproven, Holding
  <2>2. CASE Return(t, "raised") /\ intact' = FALSE
    BY <2>2, <1>b DEF Return, Unproven
  <2> QED
    BY <1>12, <2>1, <2>2 DEF WriteBack
<1>13. CASE Rerestart(t)
  BY <1>13, <1>a, <1>b DEF Rerestart, Goto, Return, Unproven, Holding
<1>14. CASE Rehealth(t)
  BY <1>14, <1>a, <1>b DEF Rehealth, Return, Unproven
<1>15. CASE RestartNatives(t)
  BY <1>15, <1>a, <1>b DEF RestartNatives, Return, Unproven
<1>16. CASE DockerRaises(t)
  BY <1>16, <1>a, <1>b DEF DockerRaises, Return, Unproven, Holding
<1> QED
  BY <1>1, <1>2, <1>3, <1>4, <1>5, <1>6, <1>7, <1>8, <1>9, <1>10, <1>11, <1>12, <1>13, <1>14, <1>15,
     <1>16
     DEF apply_rendered_config

\* A thread outside the critical section satisfies HolderInv whatever the files hold.
LEMMA Outside ==
  ASSUME NEW u \in Threads, pc'[u] \notin Holding
  PROVE  (FilesAt(u) /\ SavedAt(u) /\ RunningAt(u))'
  BY DEF FilesAt, SavedAt, RunningAt, Holding, Unproven

\* Moving a thread outside the critical section - a call or its return - changes
\* nothing for the others.
LEMMA MovesOutside ==
  ASSUME CfgInv, NEW t \in Threads, NEW l \in {"idle", "call"}, pc[t] \in {"idle", "done"},
         pc' = [pc EXCEPT ![t] = l], UNCHANGED <<fileVars, lock, prev, ghosts>>,
         \A u \in Threads \ {t} : job'[u] = job[u]
  PROVE  LockInv' /\ HolderInv' /\ SettledFiles'
<1>a. pc \in [Threads -> PCs] /\ LockInv /\ HolderInv /\ SettledFiles
  BY DEF CfgInv, CfgTypeOK
<1>b. {"idle", "call", "done"} \cap Holding = {}
  BY DEF Holding, Unproven
<1>1. LockInv' /\ SettledFiles'
  BY <1>a, <1>b DEF LockInv, SettledFiles, fileVars, ghosts
<1>2. ASSUME NEW u \in Threads \ {t}
      PROVE  (FilesAt(u) /\ SavedAt(u) /\ RunningAt(u))'
  BY <1>a DEF HolderInv, FilesAt, SavedAt, RunningAt, Wanted, fileVars, ghosts
<1>3. (FilesAt(t) /\ SavedAt(t) /\ RunningAt(t))'
  BY <1>a, <1>b, Outside
<1> QED
  BY <1>1, <1>2, <1>3 DEF HolderInv

\* Every step of the component keeps the invariant.
LEMMA CfgInvStep == CfgInv /\ [CfgNext]_cfgVars => CfgInv'
<1> SUFFICES ASSUME CfgInv, [CfgNext]_cfgVars PROVE CfgInv'
  OBVIOUS
<1>a. CfgTypeOK' /\ CfgTypeOK
  BY CfgTypeStep DEF CfgInv
<1> SUFFICES LockInv' /\ HolderInv' /\ SettledFiles'
  BY <1>a DEF CfgInv
<1>b. /\ pc \in [Threads -> PCs] /\ NoThread \notin Threads /\ Locals \subseteq Threads
      /\ LockInv /\ HolderInv /\ SettledFiles
  BY ConfigAssumption DEF CfgInv, CfgTypeOK
<1>c. {"idle", "call", "done"} \cap Holding = {}
  BY DEF Holding, Unproven
<1>1. ASSUME NEW t \in Locals, NEW d \in Drafts, put_config(t, d)
      PROVE  LockInv' /\ HolderInv' /\ SettledFiles'
  BY <1>1, <1>a, <1>b, MovesOutside DEF put_config, Call, CfgTypeOK
<1>2. ASSUME NEW t \in Locals, NEW c \in Texts, put_rendered_config(t, c)
      PROVE  LockInv' /\ HolderInv' /\ SettledFiles'
  BY <1>2, <1>a, <1>b, MovesOutside DEF put_rendered_config, Call, CfgTypeOK
<1>3. ASSUME NEW t \in Locals, PutReturns(t)
      PROVE  LockInv' /\ HolderInv' /\ SettledFiles'
  BY <1>3, <1>b, MovesOutside DEF PutReturns, Resume
<1>4. ASSUME NEW t \in Threads, apply_rendered_config(t)
      PROVE  LockInv' /\ HolderInv' /\ SettledFiles'
  <2>1. LockInv' /\ \A u \in Threads \ {t} : pc'[u] \notin Holding
    BY <1>4, <1>a, <1>b, ApplyLock
  <2> QED
    BY <1>4, Outside, <2>1, ApplyHolder DEF HolderInv
<1>5. CASE RouterRestarts
  <2>1. LockInv' /\ SettledFiles'
    BY <1>5, <1>b DEF RouterRestarts, LockInv, SettledFiles, callVars, ghosts
  <2>2. HolderInv'
    BY <1>5, <1>b DEF RouterRestarts, HolderInv, FilesAt, SavedAt, RunningAt, Wanted, callVars, ghosts
  <2> QED
    BY <2>1, <2>2
<1>6. CASE AdminCrash
  <2>1. LockInv'
    BY <1>6, <1>b, <1>c DEF AdminCrash, LockInv
  <2>2. HolderInv'
    BY <1>6, <1>c, Outside DEF AdminCrash, HolderInv
  <2>3. SettledFiles'
    \* A holder outside Unproven has not touched the files, or has them proven or restored.
    <3>1. ASSUME lock # NoThread, pc[lock] \notin Unproven, intact
          PROVE  disk = committed
      <4>1. lock \in Threads /\ pc[lock] \in Holding
        BY <1>a, <1>b, <3>1 DEF CfgTypeOK, LockInv
      <4> QED
        BY <4>1, <1>b, <3>1 DEF HolderInv, FilesAt, SavedAt, Holding
    <3> QED
      BY <1>6, <1>b, <3>1 DEF AdminCrash, SettledFiles
  <2> QED
    BY <2>1, <2>2, <2>3
<1>8. CASE NativeStarts
  BY <1>8, <1>b DEF NativeStarts, LockInv, HolderInv, SettledFiles, FilesAt, SavedAt, RunningAt, Wanted,
                    callVars, ghosts
<1>7. CASE UNCHANGED cfgVars
  BY <1>7, <1>b DEF cfgVars, LockInv, HolderInv, SettledFiles, FilesAt, SavedAt, RunningAt, Wanted
<1> QED
  BY <1>1, <1>2, <1>3, <1>4, <1>5, <1>6, <1>7, <1>8 DEF CfgNext

\* The inductive invariant holds in every reachable state.
THEOREM CfgInvariant == CfgSpec => []CfgInv
  BY CfgInvInit, CfgInvStep, PTL DEF CfgSpec

\* Whenever no activation is under way and none was abandoned half-way, the three
\* state files are those of the last candidate proven healthy, for any number of
\* concurrent callers and with every fault (apply_rendered_config).
THEOREM FilesSettle == CfgSpec => []SettledFiles
<1>1. CfgInv => SettledFiles
  BY DEF CfgInv
<1> QED
  BY <1>1, CfgInvariant, PTL

-----------------------------------------------------------------------------
(* What a step may never do. *)

\* A step of apply_rendered_config commits only what it has proven healthy.
LEMMA ApplyCommits ==
  ASSUME CfgInv, NEW t \in Threads, apply_rendered_config(t), committed' # committed
  PROVE  running = committed'.config /\ disk = committed'
<1>1. pc[t] \in {"health", "link"} /\ running \in Configs /\ Commit(t)
  BY DEF apply_rendered_config, Acquire, Check, SaveLastKnownGood, WriteCandidate, Restart, Health,
         Link, WriteBack, Rerestart, Rehealth, RestartNatives, DockerRaises, ghosts
<1>2. disk = Wanted(t) /\ running \in {disk.config, Down}
  BY <1>1 DEF CfgInv, HolderInv, FilesAt, RunningAt
<1> QED
  BY <1>1, <1>2, ConfigAssumption DEF Commit, Wanted

\* A candidate is committed only by a health proof of the router running that very
\* candidate while all three files hold it (apply_rendered_config).
THEOREM OnlyProven == CfgSpec => ProvenCandidate
<1>1. ASSUME CfgInv, [CfgNext]_cfgVars, committed' # committed
      PROVE  running = committed'.config /\ disk = committed'
  <2>1. PICK t \in Threads : apply_rendered_config(t)
    BY <1>1 DEF CfgNext, put_config, put_rendered_config, PutReturns, Call, Resume, RouterRestarts,
                NativeStarts, AdminCrash, cfgVars, ghosts
  <2> QED
    BY <1>1, <2>1, ApplyCommits
<1> QED
  BY <1>1, CfgInvariant, PTL DEF CfgSpec, ProvenCandidate

\* The status t returns is true of the files.
HonestAt(t) ==
  (pc[t] \in Holding /\ pc'[t] = "done") =>
    /\ result'[t] = "applied" => disk' = Wanted(t)
    /\ (result'[t] \in {"rejected", "rolled_back", "failed"} /\ pc[t] # "check") => disk' = prev[t]
    /\ result'[t] = "rolled_back" => running' = prev[t].config

\* Every step of apply_rendered_config returns a true status.
LEMMA ApplyHonest ==
  ASSUME CfgInv, NEW t \in Threads, apply_rendered_config(t)
  PROVE  HonestAt(t)
<1>a. FilesAt(t) /\ RunningAt(t)
  BY DEF CfgInv, HolderInv
<1>b. /\ pc \in [Threads -> PCs] /\ result \in [Threads -> Outcomes] /\ prev \in [Threads -> Files]
      /\ disk \in Files /\ Down \notin Configs
  BY ConfigAssumption DEF CfgInv, CfgTypeOK
<1>c. disk' \in Files
  BY CfgTypeStep DEF CfgInv, CfgNext, CfgTypeOK
<1> USE DEF HonestAt, FilesAt, fileVars
<1>1. CASE Acquire(t)
  BY <1>1, <1>b DEF Acquire
<1>2. CASE Check(t)
  BY <1>2, <1>b DEF Check, Return
<1>3. CASE SaveLastKnownGood(t)
  BY <1>3, <1>b DEF SaveLastKnownGood, Goto, Return
<1>4. CASE WriteCandidate(t, "config", "prefix")
  BY <1>4, <1>b DEF WriteCandidate, Goto, Restore
<1>5. CASE WriteCandidate(t, "prefix", "pub")
  BY <1>5, <1>b DEF WriteCandidate, Goto, Restore
<1>6. CASE WriteCandidate(t, "pub", "restart")
  BY <1>6, <1>b DEF WriteCandidate, Goto, Restore
<1>7. CASE Restart(t)
  BY <1>7, <1>b DEF Restart, Goto, Restore
<1>8. CASE Health(t)
  BY <1>8, <1>a, <1>b DEF Health, Commit, Goto, Return, Restore
<1>9. CASE Link(t)
  BY <1>9, <1>a, <1>b DEF Link, Commit, Goto, Return, Restore
<1>10. CASE WriteBack(t, "config", "back_config", "back_prefix")
  BY <1>10, <1>b DEF WriteBack, Goto, Return
<1>11. CASE WriteBack(t, "prefix", "back_prefix", "back_pub")
  BY <1>11, <1>b DEF WriteBack, Goto, Return
<1>12. CASE WriteBack(t, "pub", "back_pub", "restored")
  <2>1. CASE disk' = [disk EXCEPT !["pub"] = prev[t]["pub"]] /\ Restored(t)
    <3>1. disk' = prev[t]
      BY <2>1, <1>12, <1>a, <1>b, <1>c, FilesEqual DEF WriteBack, Files
    <3> QED
      BY <2>1, <3>1, <1>12, <1>b DEF Restored, Goto, Return
  <2>2. CASE Return(t, "raised")
    BY <2>2, <1>b DEF Return
  <2> QED
    BY <1>12, <2>1, <2>2 DEF WriteBack
<1>13. CASE Rerestart(t)
  BY <1>13, <1>a, <1>b DEF Rerestart, Goto, Return
<1>14. CASE Rehealth(t)
  BY <1>14, <1>a, <1>b DEF Rehealth, Return, RunningAt
<1>15. CASE RestartNatives(t)
  BY <1>15, <1>a, <1>b DEF RestartNatives, Return
<1>16. CASE DockerRaises(t)
  BY <1>16, <1>b DEF DockerRaises, Return
<1> QED
  BY <1>1, <1>2, <1>3, <1>4, <1>5, <1>6, <1>7, <1>8, <1>9, <1>10, <1>11, <1>12, <1>13, <1>14, <1>15,
     <1>16
     DEF apply_rendered_config

\* The status apply_rendered_config returns is true of the three files and, for
\* "rolled_back", of the router, however its callers interleave.
THEOREM StatusIsHonest == CfgSpec => HonestStatus
<1>1. ASSUME CfgInv, [CfgNext]_cfgVars, NEW t \in Threads
      PROVE  HonestAt(t)
  <2>a. pc \in [Threads -> PCs] /\ {"idle", "call", "done"} \cap Holding = {} /\ Locals \subseteq Threads
    BY <1>1, ConfigAssumption DEF CfgInv, CfgTypeOK, Holding, Unproven
  <2>1. CASE \E u \in Threads : apply_rendered_config(u)
    <3>1. PICK u \in Threads : apply_rendered_config(u)
      BY <2>1
    <3>2. CASE u = t
      BY <1>1, <3>1, <3>2, ApplyHonest
    <3>3. CASE u # t
      BY <1>1, <2>a, <3>1, <3>3, ApplyLock DEF CfgInv, HonestAt
    <3> QED
      BY <3>2, <3>3
  <2>2. CASE ~ \E u \in Threads : apply_rendered_config(u)
    BY <1>1, <2>a, <2>2 DEF CfgNext, put_config, put_rendered_config, PutReturns, Call, Resume,
       RouterRestarts, NativeStarts, AdminCrash, cfgVars, callVars, HonestAt
  <2> QED
    BY <2>1, <2>2
<1>2. ASSUME CfgInv, [CfgNext]_cfgVars
      PROVE  \A t \in Threads :
       (pc[t] \in Holding /\ pc'[t] = "done") =>
         /\ result'[t] = "applied" =>
              disk' = [config |-> job[t].config, prefix |-> job[t].prefix, pub |-> job[t].pub]
         /\ (result'[t] \in {"rejected", "rolled_back", "failed"} /\ pc[t] # "check") =>
              disk' = prev[t]
         /\ result'[t] = "rolled_back" => running' = prev[t].config
  BY <1>1, <1>2 DEF HonestAt, Wanted
<1> QED
  BY <1>2, CfgInvariant, PTL DEF CfgSpec, HonestStatus
=============================================================================
