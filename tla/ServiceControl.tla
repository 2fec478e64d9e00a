---------------------------- MODULE ServiceControl ----------------------------
(***************************************************************************)
(* The life of one host-native service: the launcher scripts (start.sh,    *)
(* stop.sh), the control agent's _action (admin_control.py), the           *)
(* supervisor's sweep (supervisor.py) and the presence announcer           *)
(* (presence.py).  They share nothing but the service's pidfile and the    *)
(* process table; there is no lock.                                        *)
(*                                                                         *)
(* Time is counted in sweep intervals (15 s): wait is next_attempt - now,  *)
(* age is now - started_at.                                                *)
(***************************************************************************)
EXTENDS Naturals, FiniteSets

CONSTANTS
  Users,         \* request threads of the control agent
  Sup,           \* the supervisor
  Pids,          \* process identifiers
  NoPid, NoAge,
  StableAfter,   \* STABLE_AFTER_S
  BackoffBase,   \* BACKOFF_BASE_S
  BackoffMax,    \* BACKOFF_MAX_S
  FailCap,       \* bound on the failures counted: the backoff is at its maximum there
  Scenes         \* the circumstances considered

\* by_hand, by_name: somebody starts the script with its full path, or as it is
\* called from its own directory or the repository's.
SvcFaultKinds == {"timeout", "by_hand", "by_name", "pid_reuse", "unconfigured", "exec_fails"}

\* overlap: an actor may begin while another's script is at work;
\* startStopped: the supervisor runs with --start-stopped;
\* faults: what the environment does.
Scene == [overlap : BOOLEAN, startStopped : BOOLEAN, faults : SUBSET SvcFaultKinds]

Actors == Users \cup {Sup}

\* Mutant: the cap is forgotten.
BackoffUncapped(n) == BackoffBase * 2 ^ (IF n = 0 THEN 0 ELSE n - 1)

\* _backoff(failures).
Backoff(n) ==
  LET delay == BackoffBase * 2 ^ (IF n = 0 THEN 0 ELSE n - 1)
  IN  IF delay < BackoffMax THEN delay ELSE BackoffMax

ASSUME ServiceAssumption ==
  /\ Sup \notin Users
  /\ NoPid \notin Pids
  /\ NoAge \notin Nat
  /\ {StableAfter, BackoffBase, BackoffMax, FailCap} \subseteq Nat \ {0}
  /\ BackoffBase * 2 ^ (FailCap - 1) >= BackoffMax
  /\ Scenes \subseteq Scene

\* A fact of arithmetic that the proofs cannot derive: exponentiation is defined by
\* recursion, and the provers do no induction.
ASSUME PowersAreNaturals == \A n \in 0..FailCap : 2 ^ n \in Nat

VARIABLES
  scene,     \* one of Scenes, the same throughout
  file,      \* the pid in <name>.pid, NoPid when there is no such file
  proc,      \* what runs under each pid: nothing, the forked shell of start.sh
             \* before its exec, the service (under its full path, a relative
             \* one or its bare file name), or an unrelated process
  selected,  \* the service is in SELECTED_SERVICES
  pc, op,    \* where each actor is, and the request it works on
  mine,      \* the pid it forked or is stopping
  due,       \* the supervisor's sleep is over
  failures, wait, age,   \* the supervisor's entry for the service
  token,     \* presence has declared the liveliness token
  intent,    \* ghost: what the last completed stop, or later start, asked for
  since      \* ghost: time since the supervisor's last attempt ended

entry == <<failures, wait, age>>
ghost == <<intent, since>>
svcVars == <<file, proc, selected, pc, op, mine, due, entry, token, ghost>>

\* The command lines a copy may have.  start.sh and stop.sh know "service" alone,
\* the control agent and the supervisor "relative" too, and nobody "bare".
Forms == {"service", "relative", "bare"}
Known == {"service", "relative"}

Copies == {p \in Pids : proc[p] \in Forms \cup {"shell"}}
Serving == {p \in Pids : proc[p] = "service"}

SvcInit ==
  /\ scene \in Scenes
  /\ file = NoPid
  /\ proc = [p \in Pids |-> "free"]
  /\ selected = FALSE
  /\ pc = [a \in Actors |-> "idle"]
  /\ op = [a \in Actors |-> "none"]
  /\ mine = [a \in Actors |-> NoPid]
  /\ due = FALSE
  /\ failures = 0 /\ wait = 0 /\ age = NoAge
  /\ token = FALSE
  /\ intent = "down"
  /\ since = BackoffMax

Goto(a, label) == pc' = [pc EXCEPT ![a] = label]

\* Without overlap the actors take turns, each after the last exec has landed.
MayBegin(a) ==
  /\ pc[a] = "idle"
  /\ \/ scene.overlap
     \/ (\A b \in Actors : pc[b] = "idle") /\ (\A p \in Pids : proc[p] # "shell")

-----------------------------------------------------------------------------
(* Status. *)

\* _pid_record, _pid_is_service: the pidfile names a process whose command line
\* holds the script's path below compose/.
Running == file # NoPid /\ proc[file] \in Known

\* _service_status, for a service whose prerequisites are met.
Status ==
  IF Running THEN "running" ELSE IF file # NoPid THEN "crashed" ELSE "stopped"

\* The pidfile names a subshell of start.sh that has yet to exec.
Forking == file # NoPid /\ proc[file] = "shell"

-----------------------------------------------------------------------------
(* start.sh --service <name>, run by a request or by the supervisor. *)

\* Mutant: only the pidfile is looked at, not the process table.
IsRunningByFile(a) ==
  /\ pc[a] = "is_running"
  /\ Goto(a, IF file \in Serving THEN "started" ELSE "rm")
  /\ UNCHANGED <<file, proc, selected, op, mine, due, entry, token, ghost>>

\* is_running: the pidfile's process, or any process of the script, which is then
\* adopted, if is_bridge_pid finds the script's full path in it.  launch skips a service whose settings are missing, and still exits 0.
IsRunning(a) ==
  /\ pc[a] = "is_running"
  /\ \/ file \in Serving /\ Goto(a, "started") /\ UNCHANGED file
     \/ file \notin Serving /\ Serving # {} /\ file' \in Serving /\ Goto(a, "started")
     \/ Serving = {} /\ Goto(a, "rm") /\ UNCHANGED file
     \/ "unconfigured" \in scene.faults /\ Goto(a, "started") /\ UNCHANGED file
  /\ UNCHANGED <<proc, selected, op, mine, due, entry, token, ghost>>

\* rm -f "$pid_file".
RemoveStale(a) ==
  /\ pc[a] = "rm"
  /\ file' = NoPid
  /\ Goto(a, "spawn")
  /\ UNCHANGED <<proc, selected, op, mine, due, entry, token, ghost>>

\* After retire_moved_instances and _wait_for_zenoh the subshell is forked.  These
\* two are the script's waits: the caller's subprocess.run may give up, and kill
\* the script, before they end.
Spawn(a) ==
  /\ pc[a] = "spawn"
  /\ \/ \E p \in Pids :
          /\ proc[p] = "free"
          /\ proc' = [proc EXCEPT ![p] = "shell"]
          /\ mine' = [mine EXCEPT ![a] = p]
          /\ Goto(a, "record")
     \/ /\ "timeout" \in scene.faults
        /\ Goto(a, "timed_out")
        /\ UNCHANGED <<proc, mine>>
  /\ UNCHANGED <<file, selected, op, due, entry, token, ghost>>

\* echo $! > "$pid_file".
Record(a) ==
  /\ pc[a] = "record"
  /\ file' = mine[a]
  /\ mine' = [mine EXCEPT ![a] = NoPid]
  /\ Goto(a, "started")
  /\ UNCHANGED <<proc, selected, op, due, entry, token, ghost>>

StartScript(a) == IsRunning(a) \/ RemoveStale(a) \/ Spawn(a) \/ Record(a)

-----------------------------------------------------------------------------
(* stop.sh <name>. *)

\* The pidfile is read; only a process of this repository is signalled, be it
\* the service or the shell about to become it.
ReadPidfile(u) ==
  /\ pc[u] = "stop"
  /\ IF file # NoPid /\ proc[file] \in {"shell", "service"}
       THEN mine' = [mine EXCEPT ![u] = file] /\ Goto(u, "kill")
       ELSE UNCHANGED mine /\ Goto(u, IF file = NoPid THEN "stopped" ELSE "unfile")
  /\ UNCHANGED <<file, proc, selected, op, due, entry, token, ghost>>

\* stop_pid: SIGTERM, and SIGKILL after the grace period.
KillProcess(u) ==
  /\ pc[u] = "kill"
  /\ proc' = IF proc[mine[u]] \in {"shell", "service"} THEN [proc EXCEPT ![mine[u]] = "free"] ELSE proc
  /\ mine' = [mine EXCEPT ![u] = NoPid]
  /\ Goto(u, "unfile")
  /\ UNCHANGED <<file, selected, op, due, entry, token, ghost>>

\* Mutant: the pidfile is left in place.
KeepPidfile(u) ==
  /\ pc[u] = "unfile"
  /\ Goto(u, "stopped")
  /\ UNCHANGED <<file, proc, selected, op, mine, due, entry, token, ghost>>

\* rm -f "$pid_file", whatever it names by now.
RemovePidfile(u) ==
  /\ pc[u] = "unfile"
  /\ file' = NoPid
  /\ Goto(u, "stopped")
  /\ UNCHANGED <<proc, selected, op, mine, due, entry, token, ghost>>

StopScript(u) == ReadPidfile(u) \/ KillProcess(u) \/ RemovePidfile(u)

-----------------------------------------------------------------------------
(* The control agent, _action(name, action). *)

\* A request to start, stop or restart; no lock orders the request threads.
Request(u, action) ==
  /\ MayBegin(u)
  /\ op' = [op EXCEPT ![u] = action]
  /\ Goto(u, IF action = "start" THEN "is_running" ELSE "stop")
  /\ intent' = IF action = "stop" THEN intent ELSE "up"
  /\ UNCHANGED <<file, proc, selected, mine, due, entry, token, since>>

\* start.sh returned: a service that is seen running is added to the selection.
Started(u) ==
  /\ pc[u] \in {"started", "timed_out"}
  /\ selected' = (selected \/ (pc[u] = "started" /\ Running))
  /\ op' = [op EXCEPT ![u] = "none"]
  /\ Goto(u, "idle")
  /\ UNCHANGED <<file, proc, mine, due, entry, token, ghost>>

\* stop.sh returned: the service leaves the selection, or is started again.
Stopped(u) ==
  /\ pc[u] = "stopped"
  /\ IF op[u] = "restart"
       THEN Goto(u, "is_running") /\ UNCHANGED <<selected, op, intent>>
       ELSE /\ selected' = FALSE
            /\ intent' = "down"
            /\ op' = [op EXCEPT ![u] = "none"]
            /\ Goto(u, "idle")
  /\ UNCHANGED <<file, proc, mine, due, entry, token, since>>

\* A step of a request thread.
User(u) == StartScript(u) \/ StopScript(u) \/ Started(u) \/ Stopped(u)

-----------------------------------------------------------------------------
(* The supervisor, sweep and _wait_running. *)

\* Mutant: a crashed service is only restarted when it is selected.
SweepSelected ==
  /\ MayBegin(Sup) /\ due /\ due' = FALSE
  /\ IF Status \in {"crashed", "stopped"} /\ selected /\ wait = 0
       THEN Goto(Sup, "orphans")
       ELSE UNCHANGED pc
  /\ UNCHANGED <<file, proc, selected, op, mine, entry, token, ghost>>

\* The status decides: a service that outlived its probation is forgiven, a
\* crashed one is restarted unless it is backing off, and a stopped one only on a
\* boot sweep.  A service whose settings went missing is left alone.
Sweep ==
  /\ MayBegin(Sup)
  /\ due
  /\ due' = FALSE
  /\ LET wanted == Status = "crashed" \/ (scene.startStopped /\ Status = "stopped" /\ selected)
         forgiven == Status = "running" /\ failures > 0 /\ age # NoAge /\ age >= StableAfter
     IN  \/ /\ wanted /\ wait = 0
            /\ Goto(Sup, "orphans")
            /\ UNCHANGED entry
         \/ /\ ~wanted \/ wait > 0 \/ "unconfigured" \in scene.faults
            /\ failures' = IF forgiven THEN 0 ELSE failures
            /\ age' = IF forgiven THEN NoAge ELSE age
            /\ UNCHANGED <<pc, wait>>
  /\ UNCHANGED <<file, proc, selected, op, mine, token, intent, since>>

\* orphan_pids: a process of the service the pidfile does not name is adopted, if
\* its script is named by the path below compose/ or by one that ends in it.
OrphanPids ==
  /\ pc[Sup] = "orphans"
  /\ LET orphans == {p \in Pids : proc[p] \in Known} \ {file}
     IN  IF orphans # {}
           THEN file' \in orphans /\ Goto(Sup, "idle")
           ELSE UNCHANGED file /\ Goto(Sup, "is_running")
  /\ UNCHANGED <<proc, selected, op, mine, due, entry, token, ghost>>

\* start.sh succeeded and _wait_running saw the service.
Restarted ==
  /\ pc[Sup] = "started"
  /\ Running
  /\ failures' = 0 /\ wait' = 0 /\ age' = 0
  /\ since' = 0
  /\ Goto(Sup, "idle")
  /\ UNCHANGED <<file, proc, selected, op, mine, due, token, intent>>

\* Mutant: the delay is the one of the failure before.
RestartFailedShort ==
  /\ pc[Sup] = "timed_out" \/ (pc[Sup] = "started" /\ ~Running /\ ~Forking)
  /\ failures' = IF failures < FailCap THEN failures + 1 ELSE FailCap
  /\ wait' = Backoff(failures)
  /\ age' = NoAge
  /\ since' = 0
  /\ Goto(Sup, "idle")
  /\ UNCHANGED <<file, proc, selected, op, mine, due, token, intent>>

\* It did not: start.sh timed out or skipped the service, or the process was
\* gone before it was seen.  The exec lands well within the 8 s of _wait_running.
RestartFailed ==
  /\ pc[Sup] = "timed_out" \/ (pc[Sup] = "started" /\ ~Running /\ ~Forking)
  /\ failures' = IF failures < FailCap THEN failures + 1 ELSE FailCap
  /\ wait' = Backoff(failures')
  /\ age' = NoAge
  /\ since' = 0
  /\ Goto(Sup, "idle")
  /\ UNCHANGED <<file, proc, selected, op, mine, due, token, intent>>

Supervisor == Sweep \/ OrphanPids \/ StartScript(Sup) \/ Restarted \/ RestartFailed

\* The sleep between two sweeps.  A forked shell has become the service by then.
Tick ==
  /\ pc[Sup] = "idle" /\ ~due
  /\ \A p \in Pids : proc[p] # "shell"
  /\ due' = TRUE
  /\ wait' = IF wait > 0 THEN wait - 1 ELSE 0
  /\ age' = IF age = NoAge \/ age >= StableAfter THEN age ELSE age + 1
  /\ since' = IF since < BackoffMax THEN since + 1 ELSE since
  /\ UNCHANGED <<file, proc, selected, pc, op, mine, failures, token, intent>>

-----------------------------------------------------------------------------
(* Processes and presence. *)

\* The subshell of start.sh becomes the service, or exits.
Exec(p) ==
  /\ proc[p] = "shell"
  /\ proc' = [proc EXCEPT ![p] = "service"]
  /\ UNCHANGED <<file, selected, pc, op, mine, due, entry, token, ghost>>

ExecFails(p) ==
  /\ "exec_fails" \in scene.faults
  /\ proc[p] = "shell"
  /\ proc' = [proc EXCEPT ![p] = "free"]
  /\ UNCHANGED <<file, selected, pc, op, mine, due, entry, token, ghost>>

\* The service dies on its own.
Die(p) ==
  /\ proc[p] \in Forms
  /\ proc' = [proc EXCEPT ![p] = "free"]
  /\ UNCHANGED <<file, selected, pc, op, mine, due, entry, token, ghost>>

\* The operating system gives the pid of a dead service to another program.
Reuse(p) ==
  /\ "pid_reuse" \in scene.faults
  /\ file = p
  /\ \/ proc[p] = "free" /\ proc' = [proc EXCEPT ![p] = "other"]
     \/ proc[p] = "other" /\ proc' = [proc EXCEPT ![p] = "free"]
  /\ UNCHANGED <<file, selected, pc, op, mine, due, entry, token, ghost>>

\* Somebody starts the script without the launcher, in one of the forms the
\* scripts' own usage texts and docs/11-troubleshooting.md show.
ByHand(p) ==
  /\ Copies = {} /\ \A a \in Actors : pc[a] = "idle"
  /\ proc[p] = "free"
  /\ \E form \in Forms :
       /\ (IF form = "service" THEN "by_hand" ELSE "by_name") \in scene.faults
       /\ proc' = [proc EXCEPT ![p] = form]
  /\ intent' = "up"
  /\ UNCHANGED <<file, selected, pc, op, mine, due, entry, token, since>>

\* presence.py: _live_services probes the pid, and the token follows.
PresenceSweep ==
  /\ token' = (file # NoPid /\ proc[file] # "free")
  /\ UNCHANGED <<file, proc, selected, pc, op, mine, due, entry, ghost>>

-----------------------------------------------------------------------------
SvcNext ==
  /\ \/ \E u \in Users : User(u) \/ \E action \in {"start", "stop", "restart"} : Request(u, action)
     \/ Supervisor
     \/ Tick
     \/ \E p \in Pids : Exec(p) \/ ExecFails(p) \/ Die(p) \/ Reuse(p) \/ ByHand(p)
     \/ PresenceSweep
  /\ UNCHANGED scene

\* Scripts run to their end, the supervisor keeps sweeping, and a service that is
\* started again and again comes up some time.
SvcSpec ==
  /\ SvcInit
  /\ [][SvcNext]_<<scene, svcVars>>
  /\ \A u \in Users : WF_svcVars(User(u))
  /\ WF_svcVars(Supervisor)
  /\ WF_svcVars(Tick)
  /\ \A p \in Pids : WF_svcVars(Exec(p) \/ ExecFails(p)) /\ SF_svcVars(Exec(p))

-----------------------------------------------------------------------------
(* Properties *)

\* Every variable has its type.
SvcTypeOK ==
  /\ file \in Pids \cup {NoPid}
  /\ proc \in [Pids -> Forms \cup {"free", "shell", "other"}]
  /\ selected \in BOOLEAN
  /\ pc \in [Actors -> {"idle", "is_running", "rm", "spawn", "record", "started", "timed_out",
                        "stop", "kill", "unfile", "stopped", "orphans"}]
  /\ op \in [Actors -> {"none", "start", "stop", "restart"}]
  /\ mine \in [Actors -> Pids \cup {NoPid}]
  /\ due \in BOOLEAN
  /\ failures \in 0..FailCap
  /\ wait \in 0..BackoffMax
  /\ age \in 0..StableAfter \cup {NoAge}
  /\ token \in BOOLEAN
  /\ intent \in {"up", "down"}
  /\ since \in 0..BackoffMax

\* Actors that take turns, and nothing goes wrong but scripts that time out and
\* services that do not come up.
Orderly ==
  ~scene.overlap /\ ~scene.startStopped /\ scene.faults \subseteq {"timeout", "exec_fails"}

\* Never two copies of a service: "a restart would add a SECOND copy. That is
\* actively harmful for the C2 layers" (orphan_pids) - through crashes, stale
\* pidfiles, reused pids, copies started by hand under the full path and scripts
\* that time out, as long as no two scripts are at work at once.
OneCopy == ~scene.overlap /\ "by_name" \notin scene.faults => Cardinality(Copies) <= 1

\* The supervisor never adds a copy to one that runs: orphan_pids is there because
\* after "a hand-started run" the status "reports 'crashed' and a restart would
\* add a SECOND copy" (supervisor.py).  It forks only when nothing runs.
AddsNoCopy == [][pc[Sup] = "spawn" /\ pc'[Sup] = "record" => Copies = {}]_svcVars

\* "It deliberately does NOT re-run anything that was stopped on purpose, so it can
\* be left running alongside stop.sh and the admin web UI without fighting either"
\* (supervisor.py): after a completed stop nothing runs until somebody asks, as
\* long as no two scripts are at work at once.
StoppedStaysDown == Orderly /\ intent = "down" => Copies = {}

\* The same promise without its condition: "it can be left running alongside
\* stop.sh and the admin web UI without fighting either" (supervisor.py).
StoppedForGood == intent = "down" => Copies = {}

\* "Watches the host-managed services and brings back the ones that crashed"
\* (supervisor.py), whatever the backoff has grown to and whoever else works on the
\* service, unless it is stopped on purpose.  Scripts that time out are excluded.
Recovered ==
  (Status = "crashed" /\ scene.faults \subseteq {"exec_fails"}) ~>
    (Serving # {} \/ intent = "down")

\* The supervisor's attempts are spaced by the backoff of the failures before it,
\* whatever the other actors do meanwhile ("Backoff after consecutive failed restarts: 15s, 30s, 60s ... capped").
FailuresWiden ==
  [][(pc[Sup] = "orphans" /\ pc'[Sup] = "is_running" /\ failures > 0) =>
        since >= Backoff(failures)]_svcVars

\* "presence tracks real process liveness" (presence.py): a token is declared only
\* for a process of the service.
TokenMeansAlive == [][~token /\ token' => file \in Copies]_svcVars
=============================================================================
