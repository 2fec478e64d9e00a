---------------------------- MODULE RouterConfig ----------------------------
(***************************************************************************)
(* The activation path of a pod's router configuration                     *)
(* (compose/zenoh-admin/api/config.py): apply_rendered_config and the two  *)
(* HTTP handlers that call it.  Every caller runs on a thread of its own   *)
(* (asyncio.to_thread, or a Zenoh callback thread); the call is serialised *)
(* by _CONFIG_APPLY_LOCK, but what the caller read to build its candidate  *)
(* was read before the lock.                                               *)
(*                                                                         *)
(* A configuration text is a member of Configs; a state directory holds    *)
(* three files: config.json5, namespace-prefix and data-topic-prefix.      *)
(* Torn is the content of a file whose rewrite was interrupted: these      *)
(* files are single-file bind mounts, for which atomic_write falls back to *)
(* a rewrite in place.                                                     *)
(* The value of a file is what its readers make of it: a torn prefix file  *)
(* reads as some value no candidate has, be it the default of              *)
(* _read_prefix_file or the first half of a name.                          *)
(***************************************************************************)
EXTENDS Naturals

CONSTANTS
  Threads,     \* callers of apply_rendered_config
  Locals,      \* the threads of local HTTP requests, a subset of Threads
  Configs,     \* rendered configuration texts
  Prefixes,    \* organisation / data topic prefixes
  Backbone,    \* the configurations that use the "backbone" TLS profile
  Linked,      \* the configurations that name a fabric endpoint
  Drafts,      \* the structured fields an operator may submit
  Texts,       \* the rendered texts an operator may load from a file
  InitFiles,   \* what first-boot.sh left in the state directory
  MaxPuts,     \* bound on the local requests made
  Faults,      \* environment faults considered, a subset of FaultKinds
  NoThread, Down, Torn, NoConfig

\* crash: the admin process is killed; restore_error: a restoring write fails;
\* docker_error: the Docker client raises what is not a DockerException;
\* native_error: a native process is not restarted.
FaultKinds == {"crash", "restore_error", "docker_error", "native_error"}

\* The three state files, in the order apply_rendered_config writes them.
Files == [config : Configs \cup {Torn},
          prefix : Prefixes \cup {Torn},
          pub    : Prefixes \cup {Torn}]

Candidate == [config : Configs, prefix : Prefixes \cup {Torn},
              pub : Prefixes \cup {Torn}, preserve : BOOLEAN]

ASSUME ConfigAssumption ==
  /\ Locals \subseteq Threads
  /\ Backbone \subseteq Configs
  /\ Linked \subseteq Configs
  /\ Drafts \subseteq [config : Configs, prefix : Prefixes, pub : Prefixes]
  /\ Texts \subseteq Configs
  /\ InitFiles \in [config : Configs, prefix : Prefixes, pub : Prefixes]
  /\ MaxPuts \in Nat
  /\ Faults \subseteq FaultKinds
  /\ NoThread \notin Threads \cup Files
  /\ NoConfig \notin Configs
  /\ {Down, Torn} \cap Configs = {}
  /\ Torn \notin Prefixes
  /\ Down # Torn

VARIABLES
  disk,        \* the three state files
  lkg,         \* config.json5.last-known-good
  running,     \* the configuration the router process was started with
  natives,     \* the data prefix a host-native process was started with
  lock,        \* holder of _CONFIG_APPLY_LOCK
  pc,          \* where each thread is
  job,         \* the candidate of each thread's call
  prev,        \* previous_config, previous_prefix, previous_publish_prefix
  why,         \* which failure sent the thread to the restoring writes
  puts,        \* local requests made so far
  result,      \* "status" of the returned dict, or "raised"
  committed,   \* ghost: the files of the last candidate proven healthy
  intact       \* ghost: no activation was abandoned half-way since

fileVars == <<disk, lkg, running, natives>>
callVars == <<lock, pc, job, prev, why, result, puts>>
ghosts   == <<committed, intact>>
cfgVars  == <<disk, lkg, running, natives, lock, pc, job, prev, why, result,
              puts, committed, intact>>

Statuses == {"applied", "rejected", "rolled_back", "failed"}
Outcomes == Statuses \cup {"none", "raised"}

\* Between the first write of the candidate and the proof of its health the
\* files hold, in part or in whole, an unproven candidate.
Unproven == {"config", "prefix", "pub", "restart", "health", "link",
             "back_config", "back_prefix", "back_pub"}
Holding  == Unproven \cup {"check", "save", "rerestart", "rehealth", "native"}
PCs      == Holding \cup {"idle", "call", "done"}

\* A thread outside apply_rendered_config has no locals.
NoJob == [config |-> InitFiles.config, prefix |-> InitFiles.prefix,
          pub |-> InitFiles.pub, preserve |-> FALSE]

CfgInit ==
  /\ disk = InitFiles
  /\ lkg = NoConfig
  /\ running = InitFiles.config
  /\ natives = InitFiles.pub
  /\ lock = NoThread
  /\ pc = [t \in Threads |-> "idle"]
  /\ job = [t \in Threads |-> NoJob]
  /\ prev = [t \in Threads |-> InitFiles]
  /\ why = [t \in Threads |-> "none"]
  /\ result = [t \in Threads |-> "none"]
  /\ puts = 0
  /\ committed = InitFiles
  /\ intact = TRUE

-----------------------------------------------------------------------------
(* The callers. *)

\* Entry of apply_rendered_config(rendered, fields, preserve_management).
Call(t, c, p, q, preserve) ==
  /\ pc[t] = "idle"
  /\ pc' = [pc EXCEPT ![t] = "call"]
  /\ job' = [job EXCEPT ![t] = [config |-> c, prefix |-> p, pub |-> q, preserve |-> preserve]]
  /\ UNCHANGED <<fileVars, lock, prev, why, result, ghosts>>

\* PUT /api/config: the structured fields carry the prefixes; the management
\* link is demanded back only if the candidate names a fabric endpoint.
put_config(t, d) ==
  /\ t \in Locals
  /\ puts < MaxPuts
  /\ Call(t, d.config, d.prefix, d.pub, d.config \in Linked)
  /\ puts' = puts + 1

\* PUT /api/config/rendered: _extract_fields takes both prefixes from the
\* state files as they are now, and no link is demanded back.
put_rendered_config(t, c) ==
  /\ t \in Locals
  /\ puts < MaxPuts
  /\ Call(t, c, disk.prefix, disk.pub, FALSE)
  /\ puts' = puts + 1

\* The caller resumes with the returned status, or with the exception that
\* apply_rendered_config let through.
Resume(t) ==
  /\ pc[t] = "done"
  /\ pc' = [pc EXCEPT ![t] = "idle"]
  /\ result' = [result EXCEPT ![t] = "none"]
  /\ UNCHANGED <<fileVars, lock, job, prev, why, puts, ghosts>>

\* The HTTP handler closes its ConfigRevision row with the status ("failed"
\* for an exception) and answers.
PutReturns(t) == t \in Locals /\ Resume(t)

-----------------------------------------------------------------------------
(* apply_rendered_config, from taking the lock to its return. *)

Goto(t, label) ==
  /\ pc' = [pc EXCEPT ![t] = label]
  /\ UNCHANGED <<lock, job, prev, why, result, puts>>

Return(t, status) ==
  /\ pc' = [pc EXCEPT ![t] = "done"]
  /\ result' = [result EXCEPT ![t] = status]
  /\ lock' = NoThread
  /\ job' = [job EXCEPT ![t] = NoJob]
  /\ prev' = [prev EXCEPT ![t] = InitFiles]
  /\ why' = [why EXCEPT ![t] = "none"]
  /\ UNCHANGED puts

\* To the restoring writes.
Restore(t, reason) ==
  /\ pc' = [pc EXCEPT ![t] = "back_config"]
  /\ why' = [why EXCEPT ![t] = reason]
  /\ UNCHANGED <<lock, job, prev, result, puts>>

\* Mutant: the lock is not taken, only noted.
AcquireUnlocked(t) ==
  /\ pc[t] = "call"
  /\ lock' = t
  /\ pc' = [pc EXCEPT ![t] = "check"]
  /\ UNCHANGED <<fileVars, job, prev, why, result, puts, ghosts>>

Acquire(t) ==
  /\ pc[t] = "call"
  /\ lock = NoThread
  /\ lock' = t
  /\ pc' = [pc EXCEPT ![t] = "check"]
  /\ UNCHANGED <<fileVars, job, prev, why, result, puts, ghosts>>

\* The backbone profile is refused; the preflight on the host control agent
\* accepts or refuses (or cannot be reached); the current config is read, or
\* cannot be.  All three refusals leave every file alone.
Check(t) ==
  /\ pc[t] = "check"
  /\ \/ Return(t, "rejected")
     \/ /\ job[t].config \notin Backbone
        /\ prev' = [prev EXCEPT ![t] = disk]
        /\ pc' = [pc EXCEPT ![t] = "save"]
        /\ UNCHANGED <<lock, job, why, result, puts>>
  /\ UNCHANGED <<fileVars, ghosts>>

\* Mutant: the candidate is saved in place of the previous text.
SaveCandidate(t) ==
  /\ pc[t] = "save"
  /\ \/ lkg' = job[t].config /\ Goto(t, "config")
     \/ UNCHANGED lkg /\ Return(t, "raised")
  /\ UNCHANGED <<disk, running, natives, ghosts>>

\* atomic_write(_LAST_KNOWN_GOOD_PATH, previous_config), outside any try.
SaveLastKnownGood(t) ==
  /\ pc[t] = "save"
  /\ \/ lkg' = prev[t].config /\ Goto(t, "config")
     \/ UNCHANGED lkg /\ Return(t, "raised")
  /\ UNCHANGED <<disk, running, natives, ghosts>>

\* One write of the candidate.  OSError leaves the file as it was or torn and
\* goes to the restoring writes.
WriteCandidate(t, file, next) ==
  /\ pc[t] = file
  /\ \/ /\ disk' = [disk EXCEPT ![file] = job[t][file]]
        /\ Goto(t, next)
     \/ /\ \E v \in {disk[file], Torn} : disk' = [disk EXCEPT ![file] = v]
        /\ Restore(t, "write")
  /\ UNCHANGED <<lkg, running, natives, ghosts>>

\* Mutant: an error from Docker is not noticed.
RestartUnchecked(t) ==
  /\ pc[t] = "restart"
  /\ running' \in {running, Down, disk.config}
  /\ Goto(t, "health")
  /\ UNCHANGED <<disk, lkg, natives, ghosts>>

\* restart_router_container: the container comes back on the file as it is,
\* or Docker reports an error and leaves it up or down.
Restart(t) ==
  /\ pc[t] = "restart"
  /\ \/ running' = disk.config /\ Goto(t, "health")
     \/ running' \in {running, Down} /\ Restore(t, "unhealthy")
  /\ UNCHANGED <<disk, lkg, natives, ghosts>>

\* native_restart_required compares the candidate's prefixes with the files'.
NativeRestartRequired(t) ==
  job[t].prefix # prev[t].prefix \/ job[t].pub # prev[t].pub

\* The candidate is proven: from here on nothing undoes it.
Commit(t) ==
  /\ committed' = [config |-> job[t].config, prefix |-> job[t].prefix, pub |-> job[t].pub]
  /\ intact' = TRUE
  /\ IF NativeRestartRequired(t) THEN Goto(t, "native") ELSE Return(t, "applied")

\* wait_for_router_health, up to _HEALTH_CHECK_TIMEOUT_S.
Health(t) ==
  /\ pc[t] = "health"
  /\ \/ /\ running \in Configs
        /\ IF job[t].preserve THEN Goto(t, "link") /\ UNCHANGED ghosts ELSE Commit(t)
     \/ Restore(t, "unhealthy") /\ UNCHANGED ghosts
  /\ UNCHANGED fileVars

\* Mutant: the wait for the link has no timeout.
LinkForever(t) ==
  /\ pc[t] = "link"
  /\ running \in Configs /\ Commit(t)
  /\ UNCHANGED fileVars

\* wait_for_remote_router_link, up to _MANAGEMENT_LINK_TIMEOUT_S.
Link(t) ==
  /\ pc[t] = "link"
  /\ \/ running \in Configs /\ Commit(t)
     \/ Restore(t, "unhealthy") /\ UNCHANGED ghosts
  /\ UNCHANGED fileVars

\* Where a thread goes once all three files are restored: after a failed write
\* the router was never restarted and the call returns; otherwise the router
\* is restarted on the restored files.
Restored(t) == IF why[t] = "write" THEN Return(t, "rejected") ELSE Goto(t, "rerestart")

\* Mutant: only config.json5 is restored.
WriteBackConfig(t, file, here, next) ==
  /\ pc[t] = here
  /\ disk' = IF file = "config" THEN [disk EXCEPT ![file] = prev[t][file]] ELSE disk
  /\ IF next = "restored" THEN Restored(t) ELSE Goto(t, next)
  /\ UNCHANGED <<lkg, running, natives, ghosts>>

\* One restoring write.  An OSError here escapes apply_rendered_config.
WriteBack(t, file, here, next) ==
  /\ pc[t] = here
  /\ \/ /\ disk' = [disk EXCEPT ![file] = prev[t][file]]
        /\ IF next = "restored" THEN Restored(t) ELSE Goto(t, next)
        /\ UNCHANGED intact
     \/ /\ "restore_error" \in Faults
        /\ \E v \in {disk[file], Torn} : disk' = [disk EXCEPT ![file] = v]
        /\ Return(t, "raised")
        /\ intact' = FALSE
  /\ UNCHANGED <<lkg, running, natives, committed>>

\* The rollback's own restart and health wait.
Rerestart(t) ==
  /\ pc[t] = "rerestart"
  /\ \/ running' = disk.config /\ Goto(t, "rehealth")
     \/ running' \in {running, Down} /\ Return(t, "failed")
  /\ UNCHANGED <<disk, lkg, natives, ghosts>>

\* Mutant: the rollback's health is not looked at.
RehealthUnchecked(t) ==
  /\ pc[t] = "rehealth"
  /\ Return(t, "rolled_back")
  /\ UNCHANGED <<fileVars, ghosts>>

\* Mutant: the reason is returned where the status belongs.
RehealthReason(t) ==
  /\ pc[t] = "rehealth"
  /\ Return(t, why[t])
  /\ UNCHANGED <<fileVars, ghosts>>

Rehealth(t) ==
  /\ pc[t] = "rehealth"
  /\ \/ running \in Configs /\ Return(t, "rolled_back")
     \/ Return(t, "failed")
  /\ UNCHANGED <<fileVars, ghosts>>

\* restart_native_processes: failures are listed in the result, and the
\* status is "applied" all the same.
RestartNatives(t) ==
  /\ pc[t] = "native"
  /\ \/ natives' = disk.pub
     \/ "native_error" \in Faults /\ UNCHANGED natives
  /\ Return(t, "applied")
  /\ UNCHANGED <<disk, lkg, running, ghosts>>

\* restart_router_container and router_is_healthy catch DockerException; what
\* else the client raises (a timeout of its HTTP connection) leaves
\* apply_rendered_config at once, before the restoring writes or after them.
DockerRaises(t) ==
  /\ "docker_error" \in Faults
  /\ pc[t] \in {"restart", "health", "rerestart", "rehealth"}
  /\ running' \in IF pc[t] \in {"restart", "rerestart"} THEN {running, Down, disk.config} ELSE {running}
  /\ intact' = (intact /\ pc[t] \in {"rerestart", "rehealth"})
  /\ Return(t, "raised")
  /\ UNCHANGED <<disk, lkg, natives, committed>>

apply_rendered_config(t) ==
  \/ Acquire(t)
  \/ Check(t)
  \/ SaveLastKnownGood(t)
  \/ WriteCandidate(t, "config", "prefix")
  \/ WriteCandidate(t, "prefix", "pub")
  \/ WriteCandidate(t, "pub", "restart")
  \/ Restart(t)
  \/ Health(t)
  \/ Link(t)
  \/ WriteBack(t, "config", "back_config", "back_prefix")
  \/ WriteBack(t, "prefix", "back_prefix", "back_pub")
  \/ WriteBack(t, "pub", "back_pub", "restored")
  \/ Rerestart(t)
  \/ Rehealth(t)
  \/ RestartNatives(t)
  \/ DockerRaises(t)

-----------------------------------------------------------------------------
(* The environment: Docker's restart policy and the router watchdog restart  *)
(* the router at any time, and native processes come up at any time; the     *)
(* admin process may be killed and started again at any time, and start-up   *)
(* never looks at config.json5.last-known-good.                              *)

RouterRestarts ==
  /\ running' \in {disk.config, Down}
  /\ UNCHANGED <<disk, lkg, natives, callVars, ghosts>>

\* A native process is started, by the supervisor, the control agent or by hand:
\* namespace_prefix.prefix() reads the data prefix as the file has it now.
NativeStarts ==
  /\ natives' = disk.pub
  /\ UNCHANGED <<disk, lkg, running, callVars, ghosts>>

\* The file each writing step rewrites.
FileAt == [config |-> "config", prefix |-> "prefix", pub |-> "pub",
           back_config |-> "config", back_prefix |-> "prefix", back_pub |-> "pub"]

\* The file a thread is rewriting when it is killed may be left torn.
Interrupted(t) ==
  LET source == IF pc[t] \in {"config", "prefix", "pub"} THEN job[t] ELSE prev[t]
  IN  IF pc[t] \in DOMAIN FileAt
        THEN LET f == FileAt[pc[t]]
             IN  {[disk EXCEPT ![f] = v] : v \in {disk[f], Torn, source[f]}}
        ELSE {disk}

AdminCrash ==
  /\ "crash" \in Faults
  /\ IF lock # NoThread /\ pc[lock] \in Unproven
       THEN disk' \in Interrupted(lock) /\ intact' = FALSE
       ELSE UNCHANGED <<disk, intact>>
  /\ lock' = NoThread
  /\ pc' = [t \in Threads |-> "idle"]
  /\ job' = [t \in Threads |-> NoJob]
  /\ prev' = [t \in Threads |-> InitFiles]
  /\ why' = [t \in Threads |-> "none"]
  /\ result' = [t \in Threads |-> "none"]
  /\ UNCHANGED <<lkg, running, natives, puts, committed>>

-----------------------------------------------------------------------------
CfgNext ==
  \/ \E t \in Locals, d \in Drafts : put_config(t, d)
  \/ \E t \in Locals, c \in Texts : put_rendered_config(t, c)
  \/ \E t \in Locals : PutReturns(t)
  \/ \E t \in Threads : apply_rendered_config(t)
  \/ RouterRestarts
  \/ NativeStarts
  \/ AdminCrash

\* A thread inside apply_rendered_config is scheduled again and again: every
\* wait in it (Docker, health, link) has a timeout.  Taking the lock is only
\* weakly fair: threading.RLock promises no turn to a waiter.
CfgSpec == CfgInit /\ [][CfgNext]_cfgVars /\ \A t \in Threads : WF_cfgVars(apply_rendered_config(t))

-----------------------------------------------------------------------------
(* Properties *)

\* Every variable has its type.
CfgTypeOK ==
  /\ disk \in Files
  /\ lkg \in Configs \cup {Torn, NoConfig}
  /\ running \in Configs \cup {Torn, Down}
  /\ natives \in Prefixes \cup {Torn}
  /\ lock \in Threads \cup {NoThread}
  /\ pc \in [Threads -> PCs]
  /\ job \in [Threads -> Candidate]
  /\ prev \in [Threads -> Files]
  /\ why \in [Threads -> {"none", "write", "unhealthy"}]
  /\ result \in [Threads -> Outcomes]
  /\ puts \in 0..MaxPuts
  /\ committed \in Files
  /\ intact \in BOOLEAN

\* Whenever no activation is under way and none was abandoned half-way, the
\* three state files are together those of the last candidate that was proven
\* healthy: a refused, failed or rolled-back candidate leaves no trace, and no
\* two candidates are mixed (config.py, "Validate, atomically activate,
\* health-check, and roll back a config").
SettledFiles == (lock = NoThread /\ intact) => disk = committed

\* The returned status tells the truth about the files: "applied" means that
\* all three hold the candidate, every other status that all three hold what
\* they held before, and "rolled_back" also that the router runs on it again.
HonestStatus ==
  [][\A t \in Threads :
       (pc[t] \in Holding /\ pc'[t] = "done") =>
         /\ result'[t] = "applied" =>
              disk' = [config |-> job[t].config, prefix |-> job[t].prefix, pub |-> job[t].pub]
         /\ (result'[t] \in {"rejected", "rolled_back", "failed"} /\ pc[t] # "check") =>
              disk' = prev[t]
         /\ result'[t] = "rolled_back" => running' = prev[t].config]_cfgVars

\* A candidate is committed only by a health proof of the router running that
\* very candidate, while all three files hold it: neither a stale router
\* process nor another thread's write can be what was found healthy.
ProvenCandidate ==
  [][committed' # committed => (running = committed'.config /\ disk = committed')]_cfgVars

\* "A process must land in the same namespace whether it was started by start.sh,
\* by the admin control agent, by systemd or by hand" (namespace_prefix.py): when no
\* activation is under way, a native process works in the namespace the state files
\* name, which is where one started now would work.
SameNamespace == (lock = NoThread /\ intact) => natives = disk.pub

\* "The previous config [...] remain[s] available until the new router is proven
\* healthy" (apply_rendered_config): at every moment the text of the last proven
\* configuration is in config.json5 or in config.json5.last-known-good.
PreviousConfigAvailable == committed.config \in {disk.config, lkg}

\* The same for as long as no activation was abandoned half-way, by a kill or by an
\* exception: whoever else fails, waits or restores meanwhile, the text is not lost.
KeptUnlessAbandoned == intact => PreviousConfigAvailable

\* _CONFIG_APPLY_LOCK is never held for ever: every activation, however Docker,
\* the router or the disk behave, comes to its return.
LockReleased == \A t \in Threads : (lock = t) ~> (lock # t)

-----------------------------------------------------------------------------
(* The abstract store.  The linearisation point of a successful activation is *)
(* the last health proof; until then the files that count are the ones the    *)
(* thread saved in its locals.                                                *)

Undecided == {"call", "check", "save", "config", "prefix", "pub", "restart", "health", "link"}

ActiveFiles == IF lock # NoThread /\ pc[lock] \in Unproven THEN prev[lock] ELSE disk

AskedOf(t) ==
  IF pc[t] \in Undecided
    THEN [config |-> job[t].config, prefix |-> job[t].prefix, pub |-> job[t].pub]
    ELSE NoThread

VerdictOf(t) ==
  CASE pc[t] \in {"idle"} \cup Undecided -> "none"
    [] pc[t] = "native" -> "applied"
    [] pc[t] = "done" -> IF result[t] = "applied" THEN "applied" ELSE "refused"
    [] OTHER -> "refused"

Store == INSTANCE ConfigStore WITH
  States <- Files,
  InitState <- InitFiles,
  Nothing <- NoThread,
  active <- ActiveFiles,
  asked <- [t \in Threads |-> AskedOf(t)],
  verdict <- [t \in Threads |-> VerdictOf(t)]

\* apply_rendered_config implements the store: seen from its callers, each call
\* is a transaction, whatever the interleaving of the threads, the outcome of
\* each write, restart and health check, the router's own restarts and kills of
\* the process.  The one exception is the step that abandons an activation half-way,
\* and what follows until a candidate is proven again.
StoreSpec == Store!StoreInit /\ [][intact' => Store!StoreNext]_(Store!storeVars)
=============================================================================
