------------------------- MODULE ServiceControlProofs -------------------------
(***************************************************************************)
(* Theorems about ServiceControl for any number of request threads and     *)
(* pids, any backoff and any set of circumstances.                         *)
(*                                                                         *)
(* OneCopy is not inductive: whether start.sh may fork depends on what it  *)
(* saw two steps before.  TurnInv adds that without overlap one actor is   *)
(* at work at a time, that no shell is waiting for its exec while a script *)
(* is ahead of its fork, and that the process table is empty between the   *)
(* look of is_running and the fork.  StoppedStaysDown needs NamedInv as    *)
(* well: in an orderly scene every copy is the one the pidfile names or    *)
(* the one about to be written there, so that stop.sh finds it.            *)
(***************************************************************************)
EXTENDS ServiceControl, TLAPS, FiniteSetTheorems

\* Where an actor is between its beginning and its fork.
BeforeFork == {"is_running", "rm", "spawn", "stop", "kill", "unfile", "stopped", "orphans"}

\* No forked shell waits for its exec.
NoShell == \A p \in Pids : proc[p] # "shell"

\* Nothing of the service runs.
NoCopy == \A p \in Pids : proc[p] \notin Forms \cup {"shell"}

\* What the launcher starts, and what is started by hand under the full path, is
\* what the launcher finds.
FullPath == \A p \in Pids : proc[p] \notin {"relative", "bare"}

TurnInv ==
  ~scene.overlap /\ "by_name" \notin scene.faults =>
    /\ FullPath
    /\ \A a, b \in Actors : pc[a] # "idle" /\ pc[b] # "idle" => a = b
    /\ \A a \in Actors : pc[a] \in BeforeFork => NoShell
    /\ \A a \in Actors : pc[a] \in {"rm", "spawn"} => NoCopy
    /\ \A p, q \in Copies : p = q

\* Where the copies are known to be, and what a stop has established so far.
NamedInv ==
  Orderly =>
    /\ FullPath /\ \A p \in Pids : proc[p] # "other"
    /\ \A p \in Copies : p = file \/ \E a \in Actors : pc[a] = "record" /\ mine[a] = p
    /\ \A u \in Actors : pc[u] = "kill" => mine[u] = file
    /\ \A u \in Actors : pc[u] \in {"unfile", "stopped"} => NoCopy
    /\ \A u \in Actors : pc[u] \in {"spawn", "record", "stopped"} => file = NoPid

\* After a completed stop there is no pidfile, and whoever works is stopping.
DownInv ==
  (Orderly /\ intent = "down") =>
    /\ NoCopy
    /\ file = NoPid
    /\ \A a \in Actors : pc[a] \in {"idle", "stop", "stopped"}
    /\ \A a \in Actors : pc[a] # "idle" => op[a] = "stop"

\* What is left of the backoff and the time since the last attempt make it up.
BackoffInv ==
  /\ failures > 0 => wait + since >= Backoff(failures)
  /\ pc[Sup] = "orphans" => wait = 0

SvcInv == SvcTypeOK /\ TurnInv /\ NamedInv /\ DownInv /\ BackoffInv

-----------------------------------------------------------------------------
(* The constants. *)

\* A backoff is a number of sweeps, and never more than the cap.
LEMMA BackoffType ==
  ASSUME NEW n \in 0..FailCap
  PROVE  Backoff(n) \in 0..BackoffMax
<1> DEFINE k == IF n = 0 THEN 0 ELSE n - 1
<1>1. BackoffBase \in Nat /\ BackoffMax \in Nat /\ FailCap \in Nat
  BY ServiceAssumption
<1>2. k \in 0..FailCap
  BY <1>1
<1>3. 2 ^ k \in Nat
  BY <1>2, PowersAreNaturals
<1>4. BackoffBase * 2 ^ k \in Nat
  BY <1>1, <1>3, SMT
<1> QED
  BY <1>1, <1>4 DEF Backoff

\* The supervisor is an actor, and is no request thread.
LEMMA SupIsActor == Sup \in Actors /\ Sup \notin Users /\ Users \subseteq Actors
  BY ServiceAssumption DEF Actors

-----------------------------------------------------------------------------
(* Types. *)

\* Every variable has its type initially.
LEMMA InitTypes == SvcInit => SvcTypeOK
<1> SUFFICES ASSUME SvcInit PROVE SvcTypeOK
  OBVIOUS
<1>1. FailCap \in Nat /\ BackoffMax \in Nat
  BY ServiceAssumption
<1>2. failures \in 0..FailCap /\ wait \in 0..BackoffMax /\ since \in 0..BackoffMax
  BY <1>1 DEF SvcInit
<1> QED
  BY <1>2 DEF SvcInit, SvcTypeOK

\* Every step of start.sh keeps the types.
LEMMA StartTypes ==
  ASSUME SvcTypeOK, NEW a \in Actors, StartScript(a)
  PROVE  SvcTypeOK'
<1>1. CASE IsRunning(a)
  BY <1>1 DEF IsRunning, Goto, SvcTypeOK, Serving, entry, ghost
<1>2. CASE RemoveStale(a)
  BY <1>2 DEF RemoveStale, Goto, SvcTypeOK, entry, ghost
<1>3. CASE Spawn(a)
  BY <1>3 DEF Spawn, Goto, SvcTypeOK, entry, ghost
<1>4. CASE Record(a)
  BY <1>4 DEF Record, Goto, SvcTypeOK, entry, ghost
<1> QED
  BY <1>1, <1>2, <1>3, <1>4 DEF StartScript

\* Every step of stop.sh, and what _action does around the scripts, keeps the types.
LEMMA ActionTypes ==
  ASSUME SvcTypeOK, NEW u \in Users,
         \/ StopScript(u) \/ Started(u) \/ Stopped(u)
         \/ \E action \in {"start", "stop", "restart"} : Request(u, action)
  PROVE  SvcTypeOK'
<1> USE SupIsActor
<1>1. CASE ReadPidfile(u)
  BY <1>1 DEF ReadPidfile, Goto, SvcTypeOK, entry, ghost
<1>2. CASE KillProcess(u)
  BY <1>2 DEF KillProcess, Goto, SvcTypeOK, entry, ghost
<1>3. CASE RemovePidfile(u)
  BY <1>3 DEF RemovePidfile, Goto, SvcTypeOK, entry, ghost
<1>4. CASE Started(u)
  BY <1>4 DEF Started, Goto, SvcTypeOK, entry, ghost
<1>5. CASE Stopped(u)
  BY <1>5 DEF Stopped, Goto, SvcTypeOK, entry, ghost
<1>6. ASSUME NEW action \in {"start", "stop", "restart"}, Request(u, action)
      PROVE  SvcTypeOK'
  BY <1>6 DEF Request, Goto, SvcTypeOK, entry, ghost
<1> QED
  BY <1>1, <1>2, <1>3, <1>4, <1>5, <1>6 DEF StopScript

\* The supervisor's own steps keep the types.
LEMMA SupervisorTypes ==
  ASSUME SvcTypeOK, Sweep \/ OrphanPids \/ Restarted \/ RestartFailed \/ Tick
  PROVE  SvcTypeOK'
<1> USE SupIsActor, ServiceAssumption
<1>1. CASE Sweep
  <2>1. failures' \in {0, failures} /\ age' \in {NoAge, age} /\ wait' = wait /\ due' = FALSE
    BY <1>1 DEF Sweep, entry
  <2>2. pc' = [pc EXCEPT ![Sup] = "orphans"] \/ pc' = pc
    BY <1>1 DEF Sweep, Goto
  <2>3. UNCHANGED <<file, proc, selected, op, mine, token, intent, since>>
    BY <1>1 DEF Sweep
  <2>4. failures' \in 0..FailCap
    BY <2>1, ServiceAssumption DEF SvcTypeOK
  <2> QED
    BY <2>1, <2>2, <2>3, <2>4 DEF SvcTypeOK
<1>2. CASE OrphanPids
  BY <1>2 DEF OrphanPids, Goto, SvcTypeOK, Serving, entry, ghost
<1>3. CASE Restarted
  BY <1>3 DEF Restarted, Goto, SvcTypeOK
<1>4. CASE RestartFailed
  <2>1. failures' \in 0..FailCap
    BY <1>4 DEF RestartFailed, SvcTypeOK
  <2>2. wait' \in 0..BackoffMax
    BY <1>4, <2>1, BackoffType DEF RestartFailed
  <2> QED
    BY <1>4, <2>1, <2>2 DEF RestartFailed, Goto, SvcTypeOK
<1>5. CASE Tick
  BY <1>5 DEF Tick, SvcTypeOK
<1> QED
  BY <1>1, <1>2, <1>3, <1>4, <1>5

\* What happens to processes and the presence token keeps the types.
LEMMA ProcessTypes ==
  ASSUME SvcTypeOK,
         \/ \E p \in Pids : Exec(p) \/ ExecFails(p) \/ Die(p) \/ Reuse(p) \/ ByHand(p)
         \/ PresenceSweep
  PROVE  SvcTypeOK'
<1>1. ASSUME NEW p \in Pids, Exec(p) \/ ExecFails(p) \/ Die(p) \/ Reuse(p) \/ ByHand(p)
      PROVE  SvcTypeOK'
  BY <1>1 DEF Exec, ExecFails, Die, Reuse, ByHand, SvcTypeOK, Forms, entry, ghost
<1>2. CASE PresenceSweep
  BY <1>2 DEF PresenceSweep, SvcTypeOK, entry, ghost
<1> QED
  BY <1>1, <1>2

\* Every step keeps the types.
LEMMA NextTypes ==
  ASSUME SvcTypeOK, [SvcNext]_<<scene, svcVars>>
  PROVE  SvcTypeOK'
<1>1. CASE UNCHANGED <<scene, svcVars>>
  BY <1>1 DEF SvcTypeOK, svcVars, entry, ghost
<1>2. CASE SvcNext
  BY <1>2, StartTypes, ActionTypes, SupervisorTypes, ProcessTypes, SupIsActor
     DEF SvcNext, User, Supervisor
<1> QED
  BY <1>1, <1>2

\* Every variable of the service keeps its type, whatever the circumstances.
THEOREM SvcTypes == SvcSpec => []SvcTypeOK
<1>1. SvcInit => SvcTypeOK
  BY InitTypes
<1>2. SvcTypeOK /\ [SvcNext]_<<scene, svcVars>> => SvcTypeOK'
  BY NextTypes
<1> QED
  BY <1>1, <1>2, PTL DEF SvcSpec

-----------------------------------------------------------------------------
(* Turns: without overlap one actor is at work, and start.sh forks only when *)
(* nothing of the service runs.                                              *)

\* Every step of start.sh keeps the turns.
LEMMA StartTurns ==
  ASSUME SvcTypeOK, TurnInv, NEW a \in Actors, StartScript(a), UNCHANGED scene
  PROVE  TurnInv'
<1> USE DEF TurnInv, NoShell, NoCopy, FullPath, Forms, Known, Copies, BeforeFork, SvcTypeOK, Goto
<1>1. CASE IsRunning(a)
  BY <1>1 DEF IsRunning, Serving
<1>2. CASE RemoveStale(a)
  BY <1>2 DEF RemoveStale
<1>3. CASE Spawn(a)
  BY <1>3 DEF Spawn
<1>4. CASE Record(a)
  BY <1>4 DEF Record
<1> QED
  BY <1>1, <1>2, <1>3, <1>4 DEF StartScript

\* Every step of stop.sh and of _action keeps the turns.
LEMMA ActionTurns ==
  ASSUME SvcTypeOK, TurnInv, NEW u \in Users, UNCHANGED scene,
         \/ StopScript(u) \/ Started(u) \/ Stopped(u)
         \/ \E action \in {"start", "stop", "restart"} : Request(u, action)
  PROVE  TurnInv'
<1> USE SupIsActor DEF TurnInv, NoShell, NoCopy, FullPath, Forms, Known, Copies, BeforeFork, SvcTypeOK, Goto
<1>1. CASE ReadPidfile(u)
  BY <1>1 DEF ReadPidfile
<1>2. CASE KillProcess(u)
  BY <1>2 DEF KillProcess
<1>3. CASE RemovePidfile(u)
  BY <1>3 DEF RemovePidfile
<1>4. CASE Started(u)
  BY <1>4 DEF Started
<1>5. CASE Stopped(u)
  BY <1>5 DEF Stopped
<1>6. ASSUME NEW action \in {"start", "stop", "restart"}, Request(u, action)
      PROVE  TurnInv'
  BY <1>6 DEF Request, MayBegin
<1> QED
  BY <1>1, <1>2, <1>3, <1>4, <1>5, <1>6 DEF StopScript

\* The supervisor's own steps keep the turns.
LEMMA SupervisorTurns ==
  ASSUME SvcTypeOK, TurnInv, UNCHANGED scene,
         Sweep \/ OrphanPids \/ Restarted \/ RestartFailed \/ Tick
  PROVE  TurnInv'
<1> USE SupIsActor DEF TurnInv, NoShell, NoCopy, FullPath, Forms, Known, Copies, BeforeFork, SvcTypeOK, Goto
<1>1. CASE Sweep
  <2>1. UNCHANGED pc \/ (MayBegin(Sup) /\ pc' = [pc EXCEPT ![Sup] = "orphans"])
    BY <1>1 DEF Sweep
  <2>2. UNCHANGED proc
    BY <1>1 DEF Sweep
  <2> QED
    BY <2>1, <2>2 DEF MayBegin
<1>2. CASE OrphanPids
  BY <1>2 DEF OrphanPids
<1>3. CASE Restarted
  BY <1>3 DEF Restarted
<1>4. CASE RestartFailed
  <2>1. UNCHANGED proc /\ pc' = [pc EXCEPT ![Sup] = "idle"]
    BY <1>4 DEF RestartFailed
  <2> QED
    BY <2>1
<1>5. CASE Tick
  BY <1>5 DEF Tick
<1> QED
  BY <1>1, <1>2, <1>3, <1>4, <1>5

\* What happens to processes and the presence token keeps the turns.
LEMMA ProcessTurns ==
  ASSUME SvcTypeOK, TurnInv, UNCHANGED scene,
         \/ \E p \in Pids : Exec(p) \/ ExecFails(p) \/ Die(p) \/ Reuse(p) \/ ByHand(p)
         \/ PresenceSweep
  PROVE  TurnInv'
<1> USE DEF TurnInv, NoShell, NoCopy, FullPath, Forms, Known, Copies, BeforeFork, SvcTypeOK
<1>1. ASSUME NEW p \in Pids, Exec(p) \/ ExecFails(p) \/ Die(p) \/ Reuse(p)
      PROVE  TurnInv'
  BY <1>1 DEF Exec, ExecFails, Die, Reuse
<1>2. ASSUME NEW p \in Pids, ByHand(p)
      PROVE  TurnInv'
  BY <1>2 DEF ByHand
<1>3. CASE PresenceSweep
  BY <1>3 DEF PresenceSweep
<1> QED
  BY <1>1, <1>2, <1>3

\* Every step keeps the turns.
LEMMA NextTurns ==
  ASSUME SvcTypeOK, TurnInv, [SvcNext]_<<scene, svcVars>>
  PROVE  TurnInv'
<1>1. CASE UNCHANGED <<scene, svcVars>>
  BY <1>1 DEF TurnInv, svcVars, Copies, NoShell, NoCopy, FullPath
<1>2. CASE SvcNext
  BY <1>2, StartTurns, ActionTurns, SupervisorTurns, ProcessTurns, SupIsActor
     DEF SvcNext, User, Supervisor
<1> QED
  BY <1>1, <1>2

\* Copies that are all the same one are at most one.
LEMMA AtMostOne ==
  ASSUME \A p, q \in Copies : p = q
  PROVE  Cardinality(Copies) <= 1
<1>1. CASE Copies = {}
  BY <1>1, FS_EmptySet
<1>2. CASE Copies # {}
  <2>1. PICK p \in Copies : Copies = {p}
    BY <1>2
  <2>2. Cardinality({p}) = 1
    BY FS_Singleton
  <2> QED
    BY <2>1, <2>2
<1> QED
  BY <1>1, <1>2

\* Scripts that take turns never bring up a second copy of the service, whatever
\* crashes, times out, is started by hand under its full path or reuses a pid.
THEOREM NeverTwo == SvcSpec => []OneCopy
<1>1. SvcInit => TurnInv
  BY DEF SvcInit, TurnInv, Copies, NoShell, NoCopy, FullPath, Forms, BeforeFork
<1>2. SvcTypeOK /\ TurnInv /\ [SvcNext]_<<scene, svcVars>> => TurnInv'
  BY NextTurns
<1>3. TurnInv => OneCopy
  BY AtMostOne DEF TurnInv, OneCopy
<1> QED
  BY <1>1, <1>2, <1>3, SvcTypes, PTL DEF SvcSpec

-----------------------------------------------------------------------------
(* Stops: in an orderly scene stop.sh finds whatever runs.                   *)

\* Every step of start.sh keeps the copies named.
LEMMA StartNamed ==
  ASSUME SvcTypeOK, TurnInv, NamedInv, NEW a \in Actors, StartScript(a), UNCHANGED scene
  PROVE  NamedInv'
<1> USE DEF NamedInv, Orderly, TurnInv, NoCopy, FullPath, Forms, Known, Copies, SvcTypeOK, Goto
<1>1. CASE IsRunning(a)
  BY <1>1 DEF IsRunning, Serving
<1>2. CASE RemoveStale(a)
  BY <1>2 DEF RemoveStale
<1>3. CASE Spawn(a)
  BY <1>3 DEF Spawn
<1>4. CASE Record(a)
  BY <1>4, ServiceAssumption DEF Record
<1> QED
  BY <1>1, <1>2, <1>3, <1>4 DEF StartScript

\* Every step of stop.sh and of _action keeps the copies named.
LEMMA ActionNamed ==
  ASSUME SvcTypeOK, TurnInv, NamedInv, NEW u \in Users, UNCHANGED scene,
         \/ StopScript(u) \/ Started(u) \/ Stopped(u)
         \/ \E action \in {"start", "stop", "restart"} : Request(u, action)
  PROVE  NamedInv'
<1> USE SupIsActor DEF NamedInv, Orderly, TurnInv, NoCopy, FullPath, Forms, Known, Copies, SvcTypeOK, Goto
<1>1. CASE ReadPidfile(u)
  <2> SUFFICES ASSUME Orderly PROVE NamedInv'
    BY <1>1
  <2>1. \A p \in Copies : p = file
    BY <1>1 DEF ReadPidfile
  <2>2. UNCHANGED <<file, proc>>
    BY <1>1 DEF ReadPidfile
  <2>3. CASE file \in Copies
    <3>1. mine' = [mine EXCEPT ![u] = file] /\ pc' = [pc EXCEPT ![u] = "kill"]
      BY <1>1, <2>3, ServiceAssumption DEF ReadPidfile
    <3> QED
      BY <2>1, <2>2, <3>1
  <2>4. CASE file \notin Copies
    <3>1. NoCopy
      BY <2>1, <2>4
    <3>2. UNCHANGED mine /\ pc' = [pc EXCEPT ![u] = IF file = NoPid THEN "stopped" ELSE "unfile"]
      BY <1>1, <2>4 DEF ReadPidfile
    <3> QED
      BY <2>2, <3>1, <3>2
  <2> QED
    BY <2>3, <2>4
<1>2. CASE KillProcess(u)
  BY <1>2 DEF KillProcess
<1>3. CASE RemovePidfile(u)
  BY <1>3 DEF RemovePidfile
<1>4. CASE Started(u)
  BY <1>4 DEF Started
<1>5. CASE Stopped(u)
  BY <1>5 DEF Stopped
<1>6. ASSUME NEW action \in {"start", "stop", "restart"}, Request(u, action)
      PROVE  NamedInv'
  BY <1>6 DEF Request, MayBegin
<1> QED
  BY <1>1, <1>2, <1>3, <1>4, <1>5, <1>6 DEF StopScript

\* The supervisor's own steps keep the copies named.
LEMMA SupervisorNamed ==
  ASSUME SvcTypeOK, TurnInv, NamedInv, UNCHANGED scene,
         Sweep \/ OrphanPids \/ Restarted \/ RestartFailed \/ Tick
  PROVE  NamedInv'
<1> USE SupIsActor DEF NamedInv, Orderly, TurnInv, NoCopy, FullPath, Forms, Known, Copies, SvcTypeOK, Goto
<1>1. CASE Sweep
  <2>1. UNCHANGED pc \/ (pc[Sup] = "idle" /\ pc' = [pc EXCEPT ![Sup] = "orphans"])
    BY <1>1 DEF Sweep, MayBegin
  <2>2. UNCHANGED <<file, proc, mine>>
    BY <1>1 DEF Sweep
  <2> QED
    BY <2>1, <2>2
<1>2. CASE OrphanPids
  BY <1>2 DEF OrphanPids, Serving
<1>3. CASE Restarted
  BY <1>3 DEF Restarted
<1>4. CASE RestartFailed
  <2>1. UNCHANGED <<file, proc, mine>> /\ pc' = [pc EXCEPT ![Sup] = "idle"]
        /\ pc[Sup] \in {"started", "timed_out"}
    BY <1>4 DEF RestartFailed
  <2> QED
    BY <2>1
<1>5. CASE Tick
  BY <1>5 DEF Tick
<1> QED
  BY <1>1, <1>2, <1>3, <1>4, <1>5

\* What happens to processes and the presence token keeps the copies named.
LEMMA ProcessNamed ==
  ASSUME SvcTypeOK, NamedInv, UNCHANGED scene,
         \/ \E p \in Pids : Exec(p) \/ ExecFails(p) \/ Die(p) \/ Reuse(p) \/ ByHand(p)
         \/ PresenceSweep
  PROVE  NamedInv'
<1> USE DEF NamedInv, Orderly, NoCopy, FullPath, Forms, Known, Copies, SvcTypeOK
<1>1. ASSUME NEW p \in Pids, Exec(p) \/ ExecFails(p) \/ Die(p)
      PROVE  NamedInv'
  BY <1>1 DEF Exec, ExecFails, Die
<1>2. ASSUME NEW p \in Pids, Reuse(p) \/ ByHand(p)
      PROVE  NamedInv'
  BY <1>2 DEF Reuse, ByHand
<1>3. CASE PresenceSweep
  BY <1>3 DEF PresenceSweep
<1> QED
  BY <1>1, <1>2, <1>3

\* Every step keeps the copies named.
LEMMA NextNamed ==
  ASSUME SvcTypeOK, TurnInv, NamedInv, [SvcNext]_<<scene, svcVars>>
  PROVE  NamedInv'
<1>1. CASE UNCHANGED <<scene, svcVars>>
  BY <1>1 DEF NamedInv, Orderly, svcVars, Copies, NoCopy, FullPath
<1>2. CASE SvcNext
  BY <1>2, StartNamed, ActionNamed, SupervisorNamed, ProcessNamed, SupIsActor
     DEF SvcNext, User, Supervisor
<1> QED
  BY <1>1, <1>2

\* After a completed stop only a request to start can end it: the supervisor finds
\* no pidfile and takes the service for stopped on purpose.
LEMMA NextDown ==
  ASSUME SvcTypeOK, TurnInv, NamedInv, DownInv, [SvcNext]_<<scene, svcVars>>
  PROVE  DownInv'
<1> USE SupIsActor DEF DownInv, NoCopy, Forms, SvcTypeOK, Goto
<1> SUFFICES ASSUME Orderly', intent' = "down"
             PROVE  /\ NoCopy'
                    /\ file' = NoPid
                    /\ \A a \in Actors : pc'[a] \in {"idle", "stop", "stopped"}
                    /\ \A a \in Actors : pc'[a] # "idle" => op'[a] = "stop"
  OBVIOUS
<1>1. Orderly /\ UNCHANGED scene
  BY DEF SvcNext, Orderly
<1>2. CASE UNCHANGED <<scene, svcVars>>
  BY <1>1, <1>2 DEF svcVars, ghost
<1>3. ASSUME NEW a \in Actors, StartScript(a) PROVE FALSE
  BY <1>1, <1>3 DEF StartScript, IsRunning, RemoveStale, Spawn, Record, ghost
<1>4. ASSUME NEW u \in Users, ReadPidfile(u) \/ KillProcess(u) \/ RemovePidfile(u)
      PROVE  DownInv'
  BY <1>1, <1>4 DEF ReadPidfile, KillProcess, RemovePidfile, ghost
<1>5. ASSUME NEW u \in Users, Started(u)
      PROVE  FALSE
  BY <1>1, <1>5 DEF Started, ghost
<1>6. ASSUME NEW u \in Users, Stopped(u)
      PROVE  DownInv'
  BY <1>1, <1>6 DEF Stopped, NamedInv, TurnInv, Orderly
<1>7. ASSUME NEW u \in Users, NEW action \in {"start", "stop", "restart"}, Request(u, action)
      PROVE  DownInv'
  BY <1>1, <1>7 DEF Request
<1>8. CASE Sweep
  <2>1. intent = "down" /\ file = NoPid
    BY <1>1, <1>8 DEF Sweep
  <2>2. Status = "stopped" /\ ~scene.startStopped
    BY <1>1, <2>1 DEF Status, Running, Orderly
  <2>3. UNCHANGED <<file, proc, op, pc>>
    BY <1>8, <2>2 DEF Sweep
  <2> QED
    BY <1>1, <2>1, <2>3
<1>9. CASE OrphanPids \/ Restarted \/ RestartFailed
  BY <1>1, <1>9 DEF OrphanPids, Restarted, RestartFailed, ghost
<1>10. CASE Tick
  BY <1>1, <1>10 DEF Tick
<1>11. ASSUME NEW p \in Pids, Exec(p) \/ ExecFails(p) \/ Die(p) \/ Reuse(p) \/ ByHand(p)
       PROVE  DownInv'
  BY <1>1, <1>11 DEF Exec, ExecFails, Die, Reuse, ByHand, ghost
<1>12. CASE PresenceSweep
  BY <1>1, <1>12 DEF PresenceSweep, ghost
<1> QED
  BY <1>2, <1>3, <1>4, <1>5, <1>6, <1>7, <1>8, <1>9, <1>10, <1>11, <1>12
     DEF SvcNext, User, StopScript, Supervisor

-----------------------------------------------------------------------------
(* Backoff. *)

\* A step of anybody else leaves the supervisor's entry and its clock alone.
LEMMA OthersKeepBackoff ==
  ASSUME BackoffInv, UNCHANGED <<failures, wait, since>>,
         pc'[Sup] = pc[Sup] \/ pc'[Sup] # "orphans"
  PROVE  BackoffInv'
  BY DEF BackoffInv, Backoff

\* A sum that covers b still does when it does not shrink, or when one part alone
\* has reached the most that b can be.
LEMMA StillCovered ==
  ASSUME NEW w \in Nat, NEW s \in Nat, NEW v \in Nat, NEW r \in Nat, NEW m \in Nat, NEW b \in 0..m,
         w + s >= b, v + r >= w + s \/ r = m
  PROVE  v + r >= b
  OBVIOUS

\* The backoff that is left shrinks by at most one interval for each that passes.
LEMMA NextBackoff ==
  ASSUME SvcTypeOK, BackoffInv, [SvcNext]_<<scene, svcVars>>
  PROVE  BackoffInv'
<1> USE SupIsActor DEF Goto, SvcTypeOK, entry, ghost
<1>1. CASE UNCHANGED <<scene, svcVars>>
  BY <1>1, OthersKeepBackoff DEF svcVars
<1>2. ASSUME NEW a \in Actors, StartScript(a) PROVE BackoffInv'
  BY <1>2, OthersKeepBackoff DEF StartScript, IsRunning, RemoveStale, Spawn, Record
<1>3. ASSUME NEW u \in Users, StopScript(u) PROVE BackoffInv'
  BY <1>3, OthersKeepBackoff DEF StopScript, ReadPidfile, KillProcess, RemovePidfile
<1>4. ASSUME NEW u \in Users,
             \/ Started(u) \/ Stopped(u)
             \/ \E action \in {"start", "stop", "restart"} : Request(u, action)
      PROVE  BackoffInv'
  BY <1>4, OthersKeepBackoff DEF Started, Stopped, Request
<1>5. CASE Sweep
  <2>1. CASE pc' = [pc EXCEPT ![Sup] = "orphans"] /\ wait = 0 /\ UNCHANGED <<failures, wait, since>>
    BY <2>1 DEF BackoffInv, Backoff
  <2>2. CASE failures' \in {0, failures} /\ UNCHANGED <<pc, wait, since>>
    BY <2>2 DEF BackoffInv, Backoff
  <2> QED
    BY <1>5, <2>1, <2>2 DEF Sweep
<1>6. CASE OrphanPids
  BY <1>6, OthersKeepBackoff DEF OrphanPids
<1>7. CASE Restarted
  BY <1>7 DEF Restarted, BackoffInv
<1>8. CASE RestartFailed
  <2>1. failures' \in 0..FailCap
    BY <1>8, NextTypes DEF SvcNext, Supervisor
  <2>2. Backoff(failures') \in 0..BackoffMax
    BY <2>1, BackoffType
  <2>3. wait' = Backoff(failures') /\ since' = 0 /\ pc'[Sup] = "idle"
    BY <1>8 DEF RestartFailed
  <2> QED
    BY <2>2, <2>3, ServiceAssumption DEF BackoffInv, Backoff
<1>9. CASE Tick
  <2>1. Backoff(failures) \in 0..BackoffMax
    BY BackoffType
  <2>2. failures' = failures /\ Backoff(failures') = Backoff(failures) /\ pc'[Sup] = "idle"
    BY <1>9 DEF Tick, Backoff
  <2>3. wait' + since' >= wait + since \/ since' = BackoffMax
    BY <1>9, ServiceAssumption DEF Tick
  <2>4. BackoffMax \in Nat /\ wait \in Nat /\ since \in Nat /\ wait' \in Nat /\ since' \in Nat
    BY <1>9, ServiceAssumption DEF Tick
  <2>5. ASSUME failures > 0 PROVE wait' + since' >= Backoff(failures)
    <3>1. wait + since >= Backoff(failures)
      BY <2>5 DEF BackoffInv
    <3> HIDE DEF SvcTypeOK
    <3> QED
      BY <2>1, <2>3, <2>4, <3>1, StillCovered
  <2> QED
    BY <2>2, <2>5 DEF BackoffInv, Backoff
<1>10. ASSUME NEW p \in Pids, Exec(p) \/ ExecFails(p) \/ Die(p) \/ Reuse(p) \/ ByHand(p)
       PROVE  BackoffInv'
  BY <1>10, OthersKeepBackoff DEF Exec, ExecFails, Die, Reuse, ByHand
<1>11. CASE PresenceSweep
  BY <1>11, OthersKeepBackoff DEF PresenceSweep
<1> QED
  BY <1>1, <1>2, <1>3, <1>4, <1>5, <1>6, <1>7, <1>8, <1>9, <1>10, <1>11
     DEF SvcNext, User, Supervisor

-----------------------------------------------------------------------------
(* The theorems. *)

\* The inductive invariant holds throughout.
THEOREM SvcInvariant == SvcSpec => []SvcInv
<1>1. SvcInit => SvcInv
  <2> SUFFICES ASSUME SvcInit PROVE SvcInv
    OBVIOUS
  <2>1. SvcTypeOK
    BY InitTypes
  <2>2. TurnInv /\ NamedInv /\ DownInv
    BY DEF SvcInit, TurnInv, NamedInv, DownInv, Copies, NoShell, NoCopy, FullPath, Forms, BeforeFork
  <2>3. BackoffInv
    BY SupIsActor DEF SvcInit, BackoffInv
  <2> QED
    BY <2>1, <2>2, <2>3 DEF SvcInv
<1>2. SvcInv /\ [SvcNext]_<<scene, svcVars>> => SvcInv'
  BY NextTypes, NextTurns, NextNamed, NextDown, NextBackoff DEF SvcInv
<1> QED
  BY <1>1, <1>2, PTL DEF SvcSpec

\* What was stopped on purpose stays down until somebody asks for it, also next to
\* the supervisor, scripts that time out and services that do not come up.
THEOREM StopsHold == SvcSpec => []StoppedStaysDown
<1>1. SvcInv => StoppedStaysDown
  BY DEF SvcInv, DownInv, StoppedStaysDown, NoCopy, Copies
<1> QED
  BY <1>1, SvcInvariant, PTL

\* Whoever else works on the service, the supervisor's attempt after n failures
\* comes no sooner than _backoff(n) after the one before.
THEOREM AttemptsAreSpaced == SvcSpec => FailuresWiden
<1>1. SvcInv /\ [SvcNext]_<<scene, svcVars>> =>
        [(pc[Sup] = "orphans" /\ pc'[Sup] = "is_running" /\ failures > 0) =>
            since >= Backoff(failures)]_svcVars
  <2> SUFFICES ASSUME SvcInv, pc[Sup] = "orphans", failures > 0
               PROVE  since >= Backoff(failures)
    OBVIOUS
  <2>1. wait = 0 /\ wait + since >= Backoff(failures)
    BY DEF SvcInv, BackoffInv
  <2>2. since \in Nat
    BY ServiceAssumption DEF SvcInv, SvcTypeOK
  <2> QED
    BY <2>1, <2>2 DEF Backoff
<1> QED
  BY <1>1, SvcInvariant, PTL DEF SvcSpec, FailuresWiden
===============================================================================
