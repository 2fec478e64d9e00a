-------------------------- MODULE ConfigStoreProofs --------------------------
(***************************************************************************)
(* What the callers of apply_rendered_config may rely on: the last proven  *)
(* configuration stays available, and every call is a transaction on the   *)
(* store of ConfigStore.                                                   *)
(*                                                                         *)
(* Both hold with every fault until an activation is abandoned half-way,   *)
(* and without exception where none can be (Dependable); the run           *)
(* activation_crash shows what a kill half-way does.                       *)
(***************************************************************************)
EXTENDS RouterConfigProofs

\* A thread that may have to restore has its saved text in last-known-good.
SavedText == \A t \in Threads : pc[t] \in Unproven => lkg = prev[t].config

StoreInv == CfgInv /\ SavedText

-----------------------------------------------------------------------------
(* The previous configuration. *)

\* A step of apply_rendered_config saves the text before the first write, and
\* keeps it saved until it is done with the candidate.
LEMMA ApplySaves ==
  ASSUME StoreInv, NEW t \in Threads, apply_rendered_config(t)
  PROVE  SavedText'
<1>a. /\ pc \in [Threads -> PCs] /\ prev \in [Threads -> Files]
      /\ pc[t] \in Unproven => lkg = prev[t].config
      /\ CfgTypeOK /\ LockInv
  BY DEF StoreInv, CfgInv, CfgTypeOK, SavedText
<1>b. \A u \in Threads \ {t} : pc'[u] \notin Unproven
  BY <1>a, ApplyLock DEF Holding
<1>c. SUFFICES pc'[t] \in Unproven => lkg' = prev'[t].config
  BY <1>b DEF SavedText
<1> USE DEF Unproven, fileVars
<1>1. CASE Acquire(t) \/ Check(t)
  BY <1>1, <1>a DEF Acquire, Check, Return
<1>2. CASE SaveLastKnownGood(t)
  BY <1>2, <1>a DEF SaveLastKnownGood, Goto, Return
<1>3. CASE WriteCandidate(t, "config", "prefix")
  BY <1>3, <1>a DEF WriteCandidate, Goto, Restore
<1>4. CASE WriteCandidate(t, "prefix", "pub")
  BY <1>4, <1>a DEF WriteCandidate, Goto, Restore
<1>5. CASE WriteCandidate(t, "pub", "restart")
  BY <1>5, <1>a DEF WriteCandidate, Goto, Restore
<1>6. CASE Restart(t)
  BY <1>6, <1>a DEF Restart, Goto, Restore
<1>7. CASE Health(t) \/ Link(t)
  BY <1>7, <1>a DEF Health, Link, Commit, Goto, Return, Restore
<1>8. CASE WriteBack(t, "config", "back_config", "back_prefix")
  BY <1>8, <1>a DEF WriteBack, Goto, Return
<1>9. CASE WriteBack(t, "prefix", "back_prefix", "back_pub")
  BY <1>9, <1>a DEF WriteBack, Goto, Return
<1>10. CASE WriteBack(t, "pub", "back_pub", "restored")
  BY <1>10, <1>a DEF WriteBack, Restored, Goto, Return
<1>11. CASE Rerestart(t) \/ Rehealth(t) \/ RestartNatives(t) \/ DockerRaises(t)
  BY <1>11, <1>a DEF Rerestart, Rehealth, RestartNatives, DockerRaises, Goto, Return
<1> QED
  BY <1>1, <1>2, <1>3, <1>4, <1>5, <1>6, <1>7, <1>8, <1>9, <1>10, <1>11 DEF apply_rendered_config

\* Every step keeps the saved text.
LEMMA SavedStep ==
  ASSUME StoreInv, [CfgNext]_cfgVars
  PROVE  SavedText'
<1>a. pc \in [Threads -> PCs] /\ SavedText /\ Locals \subseteq Threads
  BY ConfigAssumption DEF StoreInv, CfgInv, CfgTypeOK
<1>1. ASSUME NEW t \in Threads, apply_rendered_config(t)
      PROVE  SavedText'
  BY <1>1, ApplySaves
<1>2. ASSUME NEW t \in Locals, NEW d \in Drafts, put_config(t, d)
      PROVE  SavedText'
  BY <1>2, <1>a DEF put_config, Call, SavedText, Unproven, fileVars
<1>3. ASSUME NEW t \in Locals, NEW c \in Texts, put_rendered_config(t, c)
      PROVE  SavedText'
  BY <1>3, <1>a DEF put_rendered_config, Call, SavedText, Unproven, fileVars
<1>4. ASSUME NEW t \in Locals, PutReturns(t)
      PROVE  SavedText'
  BY <1>4, <1>a DEF PutReturns, Resume, SavedText, Unproven, fileVars
<1>5. CASE RouterRestarts \/ NativeStarts \/ UNCHANGED cfgVars
  BY <1>5, <1>a DEF RouterRestarts, NativeStarts, SavedText, callVars, cfgVars
<1>6. CASE AdminCrash
  BY <1>6 DEF AdminCrash, SavedText, Unproven
<1> QED
  BY <1>1, <1>2, <1>3, <1>4, <1>5, <1>6 DEF CfgNext

\* The extended invariant holds throughout.
THEOREM StoreInvariant == CfgSpec => []StoreInv
<1>1. CfgInit => StoreInv
  BY CfgInvInit DEF StoreInv, SavedText, CfgInit, Unproven
<1>2. StoreInv /\ [CfgNext]_cfgVars => StoreInv'
  BY CfgInvStep, SavedStep DEF StoreInv
<1> QED
  BY <1>1, <1>2, PTL DEF CfgSpec

\* Whoever holds the lock, the last proven text is on disk or saved, unless an
\* activation was abandoned half-way.
LEMMA TextKept == StoreInv /\ intact => PreviousConfigAvailable
<1> SUFFICES ASSUME StoreInv, intact PROVE PreviousConfigAvailable
  OBVIOUS
<1>1. CASE lock = NoThread
  BY <1>1 DEF StoreInv, CfgInv, SettledFiles, PreviousConfigAvailable
<1>2. CASE lock # NoThread
  <2>1. lock \in Threads /\ pc[lock] \in Holding
    BY <1>2 DEF StoreInv, CfgInv, CfgTypeOK, LockInv
  <2>2. FilesAt(lock) /\ SavedAt(lock) /\ (pc[lock] \in Unproven => lkg = prev[lock].config)
    BY <2>1 DEF StoreInv, CfgInv, HolderInv, SavedText
  <2>3. CASE pc[lock] \in Unproven
    BY <2>2, <2>3 DEF SavedAt, PreviousConfigAvailable
  <2>4. CASE pc[lock] \in {"check", "save", "rerestart", "rehealth", "native"}
    BY <2>2, <2>4 DEF FilesAt, SavedAt, PreviousConfigAvailable
  <2> QED
    BY <2>1, <2>3, <2>4 DEF Holding
<1> QED
  BY <1>1, <1>2

\* With every fault, and at every step of every activation: the text of the last
\* proven configuration is in config.json5 or in last-known-good until the first
\* activation that is abandoned half-way.
THEOREM KeptWhileIntact == CfgSpec => []KeptUnlessAbandoned
<1>1. StoreInv => KeptUnlessAbandoned
  BY TextKept DEF KeptUnlessAbandoned
<1> QED
  BY <1>1, StoreInvariant, PTL

\* The admin process is not killed, the restoring writes succeed, and the Docker
\* client raises nothing but its own exceptions.
Dependable == Faults \cap {"crash", "restore_error", "docker_error"} = {}

\* Then no activation is abandoned.
LEMMA NothingAbandoned ==
  ASSUME Dependable
  PROVE  CfgSpec => []intact
<1>1. CfgInit => intact
  BY DEF CfgInit
<1>2. intact /\ [CfgNext]_cfgVars => intact'
  BY DEF CfgNext, put_config, put_rendered_config, PutReturns, Call, Resume, RouterRestarts, NativeStarts, AdminCrash,
         cfgVars, ghosts, apply_rendered_config, Acquire, Check, SaveLastKnownGood, WriteCandidate,
         Restart, Health, Link, Commit, WriteBack, Rerestart, Rehealth, RestartNatives, DockerRaises,
         Dependable
<1> QED
  BY <1>1, <1>2, PTL DEF CfgSpec

\* "The previous config remains available until the new router is proven healthy"
\* (apply_rendered_config), for any number of callers and any failure of writes,
\* restarts and health checks.
THEOREM PreviousKept ==
  ASSUME Dependable
  PROVE  CfgSpec => []PreviousConfigAvailable
<1>1. StoreInv /\ intact => PreviousConfigAvailable
  BY TextKept
<1> QED
  BY <1>1, StoreInvariant, NothingAbandoned, PTL

-----------------------------------------------------------------------------
(* The store.  A step of thread t is seen from outside as what it does to the *)
(* active files, and to what t has asked and was told.                        *)

\* Threads that keep their locals look the same from outside.
LEMMA OthersLookTheSame ==
  ASSUME NEW u \in Threads, pc'[u] = pc[u], job'[u] = job[u], result'[u] = result[u]
  PROVE  AskedOf(u)' = AskedOf(u) /\ VerdictOf(u)' = VerdictOf(u)
  BY DEF AskedOf, VerdictOf

\* What t asked for is a complete configuration, and never nothing.
LEMMA AskedIsFiles ==
  ASSUME CfgTypeOK, NEW t \in Threads
  PROVE  Wanted(t) \in Files /\ Wanted(t) # NoThread /\ (pc[t] \in Undecided => AskedOf(t) = Wanted(t))
<1>1. job[t] \in Candidate
  BY DEF CfgTypeOK
<1>2. Wanted(t) \in Files
  BY <1>1 DEF Wanted, Files, Candidate
<1> QED
  BY <1>2, ConfigAssumption DEF AskedOf, Wanted

\* The four steps of the store, as what they do to one requester.
Asks(t) == AskedOf(t) = NoThread /\ AskedOf(t)' \in Files /\ VerdictOf(t) = "none" /\ VerdictOf(t)' = "none"
Activates(t) == AskedOf(t) # NoThread /\ AskedOf(t)' = NoThread /\ VerdictOf(t)' = "applied"
Refuses(t) == AskedOf(t) # NoThread /\ AskedOf(t)' = NoThread /\ VerdictOf(t)' = "refused"
Answers(t) == VerdictOf(t) # "none" /\ VerdictOf(t)' = "none" /\ AskedOf(t)' = AskedOf(t)
Stays(t) == AskedOf(t)' = AskedOf(t) /\ VerdictOf(t)' = VerdictOf(t)

\* A function that differs from another at one point only is its update there.
LEMMA UpdatedAt ==
  ASSUME NEW S, NEW f, NEW g, NEW x \in S, f = [u \in S |-> f[u]], g = [u \in S |-> g[u]],
         \A u \in S \ {x} : g[u] = f[u]
  PROVE  g = [f EXCEPT ![x] = g[x]]
  OBVIOUS

\* A step that changes one requester in one of these ways is a step of the store.
LEMMA StoreStep ==
  ASSUME NEW t \in Threads,
         \A u \in Threads \ {t} : AskedOf(u)' = AskedOf(u) /\ VerdictOf(u)' = VerdictOf(u),
         \/ Asks(t) /\ ActiveFiles' = ActiveFiles
         \/ Activates(t) /\ ActiveFiles' = AskedOf(t)
         \/ Refuses(t) /\ ActiveFiles' = ActiveFiles
         \/ Answers(t) /\ ActiveFiles' = ActiveFiles
         \/ Stays(t) /\ ActiveFiles' = ActiveFiles
  PROVE  [Store!StoreNext]_(Store!storeVars)
<1> DEFINE a == [u \in Threads |-> AskedOf(u)]
           b == [u \in Threads |-> AskedOf(u)']
           v == [u \in Threads |-> VerdictOf(u)]
           w == [u \in Threads |-> VerdictOf(u)']
<1>a. a[t] = AskedOf(t) /\ b[t] = AskedOf(t)' /\ v[t] = VerdictOf(t) /\ w[t] = VerdictOf(t)'
  OBVIOUS
<1>b. b = [a EXCEPT ![t] = b[t]]
  <2>1. \A u \in Threads \ {t} : b[u] = a[u]
    OBVIOUS
  <2>2. a = [u \in Threads |-> a[u]] /\ b = [u \in Threads |-> b[u]]
    OBVIOUS
  <2> HIDE DEF a, b
  <2> QED
    BY <2>1, <2>2, UpdatedAt
<1>c. w = [v EXCEPT ![t] = w[t]]
  <2>1. \A u \in Threads \ {t} : w[u] = v[u]
    OBVIOUS
  <2>2. v = [u \in Threads |-> v[u]] /\ w = [u \in Threads |-> w[u]]
    OBVIOUS
  <2> HIDE DEF v, w
  <2> QED
    BY <2>1, <2>2, UpdatedAt
<1>d. ([u \in Threads |-> AskedOf(u)])' = b /\ ([u \in Threads |-> VerdictOf(u)])' = w
  OBVIOUS
<1>e. /\ AskedOf(t)' = AskedOf(t) => b = a
      /\ VerdictOf(t)' = VerdictOf(t) => w = v
  OBVIOUS
<1>1. CASE Asks(t) /\ ActiveFiles' = ActiveFiles
  <2>1. \E f \in Files : Store!Ask(t, f)
    BY <1>1, <1>a, <1>b, <1>d, <1>e DEF Asks, Store!Ask
  <2> QED
    BY <2>1 DEF Store!StoreNext
<1>2. CASE Activates(t) /\ ActiveFiles' = AskedOf(t)
  <2>1. Store!Activate(t)
    BY <1>2, <1>a, <1>b, <1>c, <1>d DEF Activates, Store!Activate
  <2> QED
    BY <2>1 DEF Store!StoreNext
<1>3. CASE Refuses(t) /\ ActiveFiles' = ActiveFiles
  <2>1. Store!Refuse(t)
    BY <1>3, <1>a, <1>b, <1>c, <1>d DEF Refuses, Store!Refuse
  <2> QED
    BY <2>1 DEF Store!StoreNext
<1>4. CASE Answers(t) /\ ActiveFiles' = ActiveFiles
  <2>1. Store!Answer(t)
    BY <1>4, <1>a, <1>c, <1>d, <1>e DEF Answers, Store!Answer
  <2> QED
    BY <2>1 DEF Store!StoreNext
<1>5. CASE Stays(t) /\ ActiveFiles' = ActiveFiles
  BY <1>5, <1>d, <1>e DEF Stays, Store!storeVars
<1> QED
  BY <1>1, <1>2, <1>3, <1>4, <1>5

\* What a step of t may look like from outside.
Seen(t) ==
  \/ Asks(t) /\ ActiveFiles' = ActiveFiles
  \/ Activates(t) /\ ActiveFiles' = AskedOf(t)
  \/ Refuses(t) /\ ActiveFiles' = ActiveFiles
  \/ Answers(t) /\ ActiveFiles' = ActiveFiles
  \/ Stays(t) /\ ActiveFiles' = ActiveFiles

\* Taking the lock and reading the current files show nothing; a refusal before the
\* first write leaves the files as they are.
LEMMA SeenBefore ==
  ASSUME CfgInv, NEW t \in Threads, Acquire(t) \/ Check(t) \/ SaveLastKnownGood(t)
  PROVE  Seen(t)
<1>a. /\ pc \in [Threads -> PCs] /\ job \in [Threads -> Candidate] /\ prev \in [Threads -> Files]
      /\ result \in [Threads -> Outcomes] /\ NoThread \notin Threads
      /\ pc[t] \in Holding => lock = t
      /\ FilesAt(t) /\ CfgTypeOK
  BY ConfigAssumption DEF CfgInv, CfgTypeOK, LockInv, HolderInv
<1>b. pc[t] \in Undecided => AskedOf(t) # NoThread /\ AskedOf(t) = Wanted(t)
  BY <1>a, AskedIsFiles
<1>1. CASE Acquire(t)
  <2>1. Stays(t)
    BY <1>1, <1>a DEF Acquire, Stays, AskedOf, VerdictOf, Undecided
  <2>2. ActiveFiles' = ActiveFiles
    BY <1>1, <1>a DEF Acquire, ActiveFiles, Unproven, fileVars
  <2> QED
    BY <2>1, <2>2 DEF Seen
<1>2. CASE Check(t)
  <2>1. ActiveFiles' = ActiveFiles
    BY <1>2, <1>a DEF Check, Return, ActiveFiles, Unproven, Holding, fileVars
  <2>2. CASE Return(t, "rejected")
    BY <1>2, <2>1, <2>2, <1>a, <1>b DEF Check, Return, Seen, Refuses, AskedOf, VerdictOf, Undecided
  <2>3. CASE pc' = [pc EXCEPT ![t] = "save"] /\ job' = job
    BY <1>2, <2>1, <2>3, <1>a DEF Check, Seen, Stays, AskedOf, VerdictOf, Undecided
  <2> QED
    BY <1>2, <2>2, <2>3 DEF Check
<1>3. CASE SaveLastKnownGood(t)
  <2>1. lock = t /\ t # NoThread /\ ActiveFiles = disk /\ disk = prev[t] /\ disk' = disk
    BY <1>3, <1>a DEF SaveLastKnownGood, FilesAt, ActiveFiles, Unproven, Holding
  <2>2. CASE Return(t, "raised")
    <3>1. ActiveFiles' = ActiveFiles
      BY <2>1, <2>2 DEF Return, ActiveFiles
    <3> QED
      BY <1>3, <3>1, <2>2, <1>a, <1>b
         DEF SaveLastKnownGood, Return, Seen, Refuses, AskedOf, VerdictOf, Undecided
  <2>3. CASE Goto(t, "config")
    <3>1. ActiveFiles' = ActiveFiles
      BY <2>1, <2>3, <1>a DEF Goto, ActiveFiles, Unproven
    <3> QED
      BY <1>3, <3>1, <2>3, <1>a
         DEF SaveLastKnownGood, Goto, Seen, Stays, AskedOf, VerdictOf, Undecided
  <2> QED
    BY <1>3, <2>2, <2>3 DEF SaveLastKnownGood
<1> QED
  BY <1>1, <1>2, <1>3

\* The holder's saved files stay the active ones while it moves inside Unproven:
\* forward it shows nothing, back it refuses.
LEMMA SeenUnproven ==
  ASSUME CfgInv, NEW t \in Threads, pc[t] \in Unproven,
         (\E l \in Unproven \cap Undecided : Goto(t, l)) \/ (\E r \in {"write", "unhealthy"} : Restore(t, r)),
         pc[t] \in Undecided
  PROVE  Seen(t)
<1>a. /\ pc \in [Threads -> PCs] /\ lock = t /\ NoThread \notin Threads /\ CfgTypeOK
  BY ConfigAssumption DEF CfgInv, CfgTypeOK, LockInv, Holding
<1>b. AskedOf(t) # NoThread
  BY <1>a, AskedIsFiles
<1>1. ActiveFiles' = ActiveFiles
  BY <1>a DEF ActiveFiles, Goto, Restore, Unproven
<1>2. CASE \E l \in Unproven \cap Undecided : Goto(t, l)
  <2>1. pc'[t] \in Undecided /\ job' = job
    BY <1>2, <1>a DEF Goto
  <2>2. Stays(t)
    BY <2>1 DEF Stays, AskedOf, VerdictOf, Undecided
  <2> QED
    BY <1>1, <2>2 DEF Seen
<1>3. CASE \E r \in {"write", "unhealthy"} : Restore(t, r)
  <2>1. pc'[t] = "back_config"
    BY <1>3, <1>a DEF Restore
  <2>2. Refuses(t)
    BY <2>1, <1>b DEF Refuses, AskedOf, VerdictOf, Undecided
  <2> QED
    BY <1>1, <2>2 DEF Seen
<1> QED
  BY <1>2, <1>3

\* The health proof activates the candidate: the files already hold it.
LEMMA SeenCommit ==
  ASSUME CfgInv, NEW t \in Threads, pc[t] \in {"health", "link"}, Commit(t), UNCHANGED disk
  PROVE  Seen(t)
<1>a. /\ pc \in [Threads -> PCs] /\ lock = t /\ NoThread \notin Threads /\ CfgTypeOK
      /\ result \in [Threads -> Outcomes] /\ disk = Wanted(t)
  BY ConfigAssumption DEF CfgInv, CfgTypeOK, LockInv, HolderInv, FilesAt, Holding, Unproven
<1>b. AskedOf(t) # NoThread /\ AskedOf(t) = Wanted(t)
  BY <1>a, AskedIsFiles DEF Undecided
<1>1. ActiveFiles' = AskedOf(t)
  BY <1>a, <1>b DEF Commit, Goto, Return, ActiveFiles, Unproven
<1>2. Activates(t)
  BY <1>a, <1>b DEF Commit, Goto, Return, Activates, AskedOf, VerdictOf, Undecided
<1> QED
  BY <1>1, <1>2 DEF Seen

\* From the restoring writes to the return nothing shows any more.
LEMMA SeenAfter ==
  ASSUME CfgInv, NEW t \in Threads, intact',
         \/ WriteBack(t, "config", "back_config", "back_prefix")
         \/ WriteBack(t, "prefix", "back_prefix", "back_pub")
         \/ WriteBack(t, "pub", "back_pub", "restored")
         \/ Rerestart(t) \/ Rehealth(t) \/ RestartNatives(t) \/ DockerRaises(t)
  PROVE  Seen(t)
<1>a. /\ pc \in [Threads -> PCs] /\ prev \in [Threads -> Files] /\ disk \in Files
      /\ result \in [Threads -> Outcomes] /\ NoThread \notin Threads
      /\ pc[t] \in Holding => lock = t
      /\ FilesAt(t) /\ CfgTypeOK
  BY ConfigAssumption DEF CfgInv, CfgTypeOK, LockInv, HolderInv
<1>b. disk' \in Files
  BY CfgTypeStep DEF CfgInv, CfgNext, CfgTypeOK, apply_rendered_config
<1> SUFFICES Stays(t) /\ ActiveFiles' = ActiveFiles
  BY DEF Seen
<1> USE DEF Stays, AskedOf, VerdictOf, Undecided, ActiveFiles, Unproven, Holding, fileVars
<1>1. CASE WriteBack(t, "config", "back_config", "back_prefix")
  BY <1>1, <1>a DEF WriteBack, Goto
<1>2. CASE WriteBack(t, "prefix", "back_prefix", "back_pub")
  BY <1>2, <1>a DEF WriteBack, Goto
<1>3. CASE WriteBack(t, "pub", "back_pub", "restored")
  <2>1. disk' = prev[t]
    BY <1>3, <1>a, <1>b, FilesEqual DEF WriteBack, Files, FilesAt
  <2>2. Restored(t)
    BY <1>3 DEF WriteBack
  <2> QED
    BY <1>3, <2>1, <2>2, <1>a DEF WriteBack, Restored, Goto, Return
<1>4. CASE Rerestart(t)
  BY <1>4, <1>a DEF Rerestart, Goto, Return
<1>5. CASE Rehealth(t)
  BY <1>5, <1>a DEF Rehealth, Return
<1>6. CASE RestartNatives(t)
  BY <1>6, <1>a DEF RestartNatives, Return
<1>7. CASE DockerRaises(t)
  <2>1. pc[t] \in {"rerestart", "rehealth"} /\ disk' = disk
    BY <1>7 DEF DockerRaises
  <2> QED
    BY <1>7, <2>1, <1>a DEF DockerRaises, Return
<1> QED
  BY <1>1, <1>2, <1>3, <1>4, <1>5, <1>6, <1>7

\* Every step of apply_rendered_config that abandons nothing is one of the store's,
\* or is not seen.
LEMMA SeenApply ==
  ASSUME CfgInv, NEW t \in Threads, intact', apply_rendered_config(t)
  PROVE  Seen(t)
<1> USE DEF Unproven, Undecided
<1>1. CASE Acquire(t) \/ Check(t) \/ SaveLastKnownGood(t)
  BY <1>1, SeenBefore
<1>2. CASE WriteCandidate(t, "config", "prefix")
  BY <1>2, SeenUnproven DEF WriteCandidate
<1>3. CASE WriteCandidate(t, "prefix", "pub")
  BY <1>3, SeenUnproven DEF WriteCandidate
<1>4. CASE WriteCandidate(t, "pub", "restart")
  BY <1>4, SeenUnproven DEF WriteCandidate
<1>5. CASE Restart(t)
  BY <1>5, SeenUnproven DEF Restart
<1>6. CASE Health(t) \/ Link(t)
  BY <1>6, SeenUnproven, SeenCommit DEF Health, Link, fileVars
<1>7. CASE \/ WriteBack(t, "config", "back_config", "back_prefix")
           \/ WriteBack(t, "prefix", "back_prefix", "back_pub")
           \/ WriteBack(t, "pub", "back_pub", "restored")
           \/ Rerestart(t) \/ Rehealth(t) \/ RestartNatives(t) \/ DockerRaises(t)
  BY <1>7, SeenAfter
<1> QED
  BY <1>1, <1>2, <1>3, <1>4, <1>5, <1>6, <1>7 DEF apply_rendered_config

\* Every step of the component that abandons nothing is a step of the store or
\* leaves it alone.
LEMMA SeenNext ==
  ASSUME CfgInv, intact', [CfgNext]_cfgVars
  PROVE  [Store!StoreNext]_(Store!storeVars)
<1>a. /\ pc \in [Threads -> PCs] /\ job \in [Threads -> Candidate] /\ result \in [Threads -> Outcomes]
      /\ CfgTypeOK /\ CfgTypeOK' /\ Locals \subseteq Threads
      /\ \A t \in Threads : pc[t] \in Holding <=> lock = t
  BY CfgTypeStep, ConfigAssumption DEF CfgInv, CfgTypeOK, LockInv
<1>b. intact'
  OBVIOUS
<1>c. ASSUME NEW t \in Threads, NEW l \in PCs, pc' = [pc EXCEPT ![t] = l], UNCHANGED <<fileVars, lock, prev>>,
             pc[t] \notin Holding, l \notin Holding
      PROVE  ActiveFiles' = ActiveFiles
  <2>1. lock # t
    BY <1>a, <1>c
  <2>2. lock # NoThread => lock \in Threads
    BY <1>a DEF CfgTypeOK
  <2> QED
    BY <1>a, <1>c, <2>1, <2>2 DEF ActiveFiles, fileVars
<1>d. ASSUME NEW t \in Threads, Seen(t),
             \A u \in Threads \ {t} : pc'[u] = pc[u] /\ job'[u] = job[u] /\ result'[u] = result[u]
      PROVE  [Store!StoreNext]_(Store!storeVars)
  <2>1. \A u \in Threads \ {t} : AskedOf(u)' = AskedOf(u) /\ VerdictOf(u)' = VerdictOf(u)
    BY <1>d, OthersLookTheSame
  <2> QED
    BY <1>d, <2>1, StoreStep DEF Seen
<1>e. ASSUME NEW t \in Locals, pc[t] = "idle", pc' = [pc EXCEPT ![t] = "call"], UNCHANGED <<fileVars, lock, prev, result>>,
             \A u \in Threads \ {t} : job'[u] = job[u]
      PROVE  [Store!StoreNext]_(Store!storeVars)
  <2>1. t \in Threads /\ pc'[t] = "call"
    BY <1>a, <1>e
  <2>2. job'[t] \in Candidate
    BY <1>a, <2>1 DEF CfgTypeOK
  <2>3. AskedOf(t)' \in Files
    BY <2>1, <2>2 DEF AskedOf, Undecided, Candidate, Files
  <2>4. Asks(t)
    BY <1>e, <2>1, <2>3 DEF Asks, AskedOf, VerdictOf, Undecided
  <2>5. ActiveFiles' = ActiveFiles
    BY <1>e, <1>c, <2>1, Labels DEF Holding, Unproven
  <2>6. Seen(t)
    BY <2>4, <2>5 DEF Seen
  <2> QED
    BY <1>a, <1>d, <1>e, <2>1, <2>6
<1>1. ASSUME NEW t \in Locals, NEW d \in Drafts, put_config(t, d)
      PROVE  [Store!StoreNext]_(Store!storeVars)
  BY <1>1, <1>a, <1>e DEF put_config, Call
<1>2. ASSUME NEW t \in Locals, NEW c \in Texts, put_rendered_config(t, c)
      PROVE  [Store!StoreNext]_(Store!storeVars)
  BY <1>2, <1>a, <1>e DEF put_rendered_config, Call
<1>3. ASSUME NEW t \in Locals, PutReturns(t)
      PROVE  [Store!StoreNext]_(Store!storeVars)
  <2>1. t \in Threads /\ pc[t] = "done" /\ pc'[t] = "idle"
    BY <1>3, <1>a DEF PutReturns, Resume
  <2>2. Answers(t)
    BY <2>1 DEF Answers, AskedOf, VerdictOf, Undecided
  <2>3. ActiveFiles' = ActiveFiles
    BY <1>3, <1>c, <2>1, Labels DEF PutReturns, Resume, Holding, Unproven
  <2>4. Seen(t)
    BY <2>2, <2>3 DEF Seen
  <2> QED
    BY <1>3, <1>a, <1>d, <2>1, <2>4 DEF PutReturns, Resume
<1>4. ASSUME NEW t \in Threads, apply_rendered_config(t)
      PROVE  [Store!StoreNext]_(Store!storeVars)
  BY <1>4, <1>a, <1>b, <1>d, SeenApply, ApplyFrame
<1>5. CASE RouterRestarts \/ NativeStarts \/ UNCHANGED cfgVars
  <2>1. UNCHANGED <<disk, lock, pc, job, prev, result>>
    BY <1>5 DEF RouterRestarts, NativeStarts, cfgVars, callVars
  <2>2. UNCHANGED Store!storeVars
    BY <2>1 DEF Store!storeVars, ActiveFiles, AskedOf, VerdictOf
  <2> QED
    BY <2>2
<1>6. CASE AdminCrash
  <2>1. ~ (lock # NoThread /\ pc[lock] \in Unproven)
    BY <1>6, <1>b DEF AdminCrash
  <2>2. ActiveFiles' = ActiveFiles
    BY <1>6, <2>1 DEF AdminCrash, ActiveFiles
  <2>3. \A t \in Threads : AskedOf(t)' = NoThread /\ VerdictOf(t)' = "none"
    BY <1>6 DEF AdminCrash, AskedOf, VerdictOf, Undecided
  <2>4. ([t \in Threads |-> AskedOf(t)])' = [t \in Threads |-> NoThread]
    BY <2>3
  <2>5. ([t \in Threads |-> VerdictOf(t)])' = [t \in Threads |-> "none"]
    BY <2>3
  <2>6. Store!Forget
    BY <2>2, <2>4, <2>5 DEF Store!Forget
  <2> QED
    BY <2>6 DEF Store!StoreNext
<1> QED
  BY <1>1, <1>2, <1>3, <1>4, <1>5, <1>6 DEF CfgNext

\* apply_rendered_config implements the store: for any number of callers, however
\* they interleave, whichever of their writes, restarts and health checks fail and
\* whenever the process is killed, each call replaces the whole configuration at one
\* instant or leaves it alone, and its caller is told which; only the step that
\* abandons an activation half-way, and what follows until a candidate is proven, is
\* not the store's.
THEOREM ActivationIsTransaction == CfgSpec => StoreSpec
<1>1. CfgInit => Store!StoreInit
  BY DEF CfgInit, Store!StoreInit, ActiveFiles, AskedOf, VerdictOf, Undecided
<1>2. CfgInv /\ [CfgNext]_cfgVars => [intact' => Store!StoreNext]_(Store!storeVars)
  BY SeenNext
<1> QED
  BY <1>1, <1>2, CfgInvariant, PTL DEF CfgSpec, StoreSpec

\* Where the process is not killed, the restoring writes succeed and the Docker client
\* raises only its own exceptions, every step is the store's.
THEOREM TransactionAlways ==
  ASSUME Dependable
  PROVE  CfgSpec => Store!StoreSpec
<1>1. CfgInit => Store!StoreInit
  BY DEF CfgInit, Store!StoreInit, ActiveFiles, AskedOf, VerdictOf, Undecided
<1>2. CfgInv /\ intact' /\ [CfgNext]_cfgVars => [Store!StoreNext]_(Store!storeVars)
  BY SeenNext
<1> QED
  BY <1>1, <1>2, CfgInvariant, NothingAbandoned, PTL DEF CfgSpec, Store!StoreSpec
==============================================================================
