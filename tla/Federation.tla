------------------------------ MODULE Federation ------------------------------
(***************************************************************************)
(* One parent pushes configurations to one direct child.                   *)
(*                                                                         *)
(*   parent   _push_to_target (federation.py), the ConfigRevision ledger   *)
(*            (config_revisions.py), _record_status (federation_status.py) *)
(*   network  Zenoh puts: every live subscription gets a copy or loses it; *)
(*            statuses are repeated, lost and overtake one another         *)
(*   child    _handle_config_push on the callback thread of a subscriber   *)
(*            session, the session watcher (federation_apply.py), and the  *)
(*            activation path of RouterConfig, which the local operator    *)
(*            uses at the same time                                        *)
(*                                                                         *)
(* A callback thread is a thread of RouterConfig.  Two of them are alive   *)
(* at once whenever the watcher has replaced the session while the old     *)
(* one's callback is still at work, which is the normal case: the change   *)
(* of config.json5 that a push makes is what the watcher reacts to.        *)
(***************************************************************************)
EXTENDS RouterConfig, Integers, FiniteSets

CONSTANTS
  Sessions,       \* subscriber sessions (and their callback threads)
  Versions,       \* readings of the parent's millisecond clock
  Pushable,       \* configurations the parent may push
  Endpoints,      \* fabric endpoints
  Fabric,         \* Fabric[c]: the fabric endpoints c connects to
  Ident,          \* Ident[c]: namespace, listener ports, TLS profile and
                  \* certificate-name policy of c, none of which a push may change
  OwnIdent,       \* identities that carry this router's own PARTNER_NAMESPACE
  MaxPushes,      \* bound on the pushes made
  StatusAttempts, \* _STATUS_PUBLISH_ATTEMPTS
  Scenes          \* the circumstances considered: [sessions |-> those the child may
                  \* use, monotone |-> whether the parent's clock readings strictly
                  \* increase, operator |-> whether the child has a local operator,
                  \* kills |-> whether its admin process may be killed,
                  \* pushable |-> those of Pushable that are pushed]

ASSUME FederationAssumption ==
  /\ Sessions \subseteq Threads
  /\ Sessions \cap Locals = {}
  /\ Sessions # {} /\ IsFiniteSet(Sessions)
  /\ Versions # {} /\ Versions \subseteq Nat
  /\ Scenes \subseteq [sessions : (SUBSET Sessions) \ {{}}, monotone : BOOLEAN,
                       operator : BOOLEAN, kills : BOOLEAN, pushable : SUBSET Pushable]
  /\ Pushable \subseteq Configs
  /\ Fabric \in [Configs -> SUBSET Endpoints]
  /\ Linked = {c \in Configs : Fabric[c] # {}}
  /\ DOMAIN Ident = Configs
  /\ MaxPushes \in Nat
  /\ StatusAttempts \in Nat \ {0}

VARIABLES
  scene,       \* one of Scenes, the same throughout
  rows,        \* the parent's ConfigRevision rows, by order of creation
  pushed,      \* number of rows
  lastStatus,  \* FederatedChild.last_status and last_status_version
  statuses,    \* status messages on their way to the parent
  inbox,       \* samples queued for each session's callback
  live,        \* sessions with a declared subscriber
  current,     \* _federation_session
  dirty,       \* the config fingerprint differs from the watcher's
  lastSeen,    \* config.json5.last-seen-version; -1 when there is none
  hpc,         \* where each callback is
  push,        \* the push it handles
  fields,      \* the prefixes _extract_fields read for it
  report,      \* the status it is publishing, and the attempts left
  activated,   \* ghost: versions whose configuration was proven and kept
  undone       \* ghost: versions whose configuration was rolled back

parentVars == <<rows, pushed, lastStatus>>
sessionVars == <<inbox, live, current, dirty>>
handlerVars == <<hpc, push, fields, report>>
fedVars == <<parentVars, statuses, sessionVars, lastSeen, handlerVars, activated, undone>>
vars == <<cfgVars, fedVars>>

Push == [version : Versions, config : Configs]
Healths == {"ok", "rejected", "rolled_back"}
Status == [version : Versions, health : Healths]
RowStates == {"validating", "pending", "failed", "applied", "rejected", "rolled_back"}
Row == [version : Versions, config : Configs, state : RowStates,
        phase : {"create", "put", "done"}]

\* A callback between two samples has no locals.
AnyVersion == CHOOSE v \in Versions : TRUE
NoPush     == [version |-> AnyVersion, config |-> InitFiles.config]
NoFields   == [prefix |-> InitFiles.prefix, pub |-> InitFiles.pub]
NoReport   == [health |-> "rejected", left |-> 0]

FedInit ==
  /\ CfgInit
  /\ scene \in Scenes
  /\ rows = [r \in 1..MaxPushes |-> [version |-> AnyVersion, config |-> InitFiles.config,
                                     state |-> "validating", phase |-> "create"]]
  /\ pushed = 0
  /\ lastStatus = [version |-> AnyVersion, health |-> "none"]
  /\ statuses = {}
  /\ inbox = [s \in Sessions |-> {}]
  /\ current \in scene.sessions
  /\ live = {current}
  /\ dirty = FALSE
  /\ lastSeen = -1
  /\ hpc = [s \in Sessions |-> "wait"]
  /\ push = [s \in Sessions |-> NoPush]
  /\ fields = [s \in Sessions |-> NoFields]
  /\ report = [s \in Sessions |-> NoReport]
  /\ activated = {}
  /\ undone = {}

-----------------------------------------------------------------------------
(* The parent. *)

\* The clock reading a push is stamped with.
Stamp(v) == scene.monotone => \A r \in 1..pushed : rows[r].version < v

\* _push_to_target up to create_revision: the row is committed "validating".
CreateRevision(v, c) ==
  /\ pushed < MaxPushes
  /\ c \in scene.pushable
  /\ Stamp(v)
  /\ pushed' = pushed + 1
  /\ rows' = [rows EXCEPT ![pushed'] =
                [version |-> v, config |-> c, state |-> "validating", phase |-> "create"]]
  /\ UNCHANGED <<cfgVars, lastStatus, statuses, sessionVars, lastSeen, handlerVars, activated, undone>>

\* Sign, open a one-shot session, put, close.  Each live subscription of the
\* child gets its own copy unless the link is down.  An error before the put, or
\* in close() after it, marks the row "failed" - delivered or not.
Publish(r) ==
  /\ r <= pushed
  /\ rows[r].phase = "create"
  /\ \E S \in SUBSET live :
       inbox' = [s \in Sessions |->
                   IF s \in S THEN inbox[s] \cup {[version |-> rows[r].version, config |-> rows[r].config]}
                   ELSE inbox[s]]
  /\ \/ rows' = [rows EXCEPT ![r].phase = "put"]
     \/ rows' = [rows EXCEPT ![r].phase = "done", ![r].state = "failed"]
  /\ UNCHANGED <<cfgVars, pushed, lastStatus, statuses, live, current, dirty, lastSeen,
                 handlerVars, activated, undone>>

\* set_revision_state(revision, "pending"), whatever the row says by now.
MarkPending(r) ==
  /\ r <= pushed
  /\ rows[r].phase = "put"
  /\ rows' = [rows EXCEPT ![r].phase = "done", ![r].state = "pending"]
  /\ UNCHANGED <<cfgVars, pushed, lastStatus, statuses, sessionVars, lastSeen, handlerVars,
                 activated, undone>>

\* Mutant: the newest row of the child, whatever its version.
NewestOfChild(v) == {pushed} \ {0}

\* The row _record_status picks: the newest with the status's version.
NewestRow(v) ==
  {r \in 1..pushed : rows[r].version = v /\ \A q \in 1..pushed : rows[q].version = v => q <= r}

\* Mutant: the health of the status is stored as the state of the row.
RecordHealth(st) ==
  /\ st \in statuses
  /\ statuses' = statuses \ {st}
  /\ rows' = [r \in 1..MaxPushes |->
                IF r \in NewestRow(st.version) THEN [rows[r] EXCEPT !.state = st.health] ELSE rows[r]]
  /\ lastStatus' = st
  /\ UNCHANGED <<cfgVars, pushed, sessionVars, lastSeen, handlerVars, activated, undone>>

\* Mutant: a rejection is recorded on the child's newest row, whatever its version.
RecordRejection(st) ==
  /\ st \in statuses
  /\ statuses' = statuses \ {st}
  /\ rows' = [r \in 1..MaxPushes |->
                IF r \in (IF st.health = "rejected" THEN {pushed} ELSE NewestRow(st.version))
                  THEN [rows[r] EXCEPT !.state = IF st.health = "ok" THEN "applied" ELSE st.health]
                  ELSE rows[r]]
  /\ lastStatus' = st
  /\ UNCHANGED <<cfgVars, pushed, sessionVars, lastSeen, handlerVars, activated, undone>>

\* _record_status: the newest row of that version and the child's last_status
\* are overwritten, whatever they held.
RecordStatus(st) ==
  /\ st \in statuses
  /\ statuses' = statuses \ {st}
  /\ rows' = [r \in 1..MaxPushes |->
                IF r \in NewestRow(st.version)
                  THEN [rows[r] EXCEPT !.state = IF st.health = "ok" THEN "applied" ELSE st.health]
                  ELSE rows[r]]
  /\ lastStatus' = st
  /\ UNCHANGED <<cfgVars, pushed, sessionVars, lastSeen, handlerVars, activated, undone>>

-----------------------------------------------------------------------------
(* The child's callback, _handle_config_push. *)

\* A put of the status reaches the parent or is dropped on the way.
Send(st) == statuses' \in {statuses, statuses \cup {st}}

StatusOf(s, health) == [version |-> push[s].version, health |-> health]

\* The callback returns, or dies with an exception.
Finish(s) ==
  /\ hpc' = [hpc EXCEPT ![s] = "wait"]
  /\ push' = [push EXCEPT ![s] = NoPush]
  /\ fields' = [fields EXCEPT ![s] = NoFields]
  /\ report' = [report EXCEPT ![s] = NoReport]

\* _publish_status(session, version, "rejected", ...) and return.
Reject(s) == Send(StatusOf(s, "rejected")) /\ Finish(s)

\* The next sample; its signature is verified against the trusted parent's
\* certificate.  A failure is reported with the version the sample claims.
Receive(s, m) ==
  /\ hpc[s] = "wait"
  /\ m \in inbox[s]
  /\ inbox' = [inbox EXCEPT ![s] = @ \ {m}]
  /\ \/ /\ hpc' = [hpc EXCEPT ![s] = "replay"]
        /\ push' = [push EXCEPT ![s] = m]
        /\ UNCHANGED statuses
     \/ /\ Send([version |-> m.version, health |-> "rejected"])
        /\ UNCHANGED <<hpc, push>>
  /\ UNCHANGED <<cfgVars, parentVars, live, current, dirty, lastSeen, fields, report,
                 activated, undone>>

\* Mutant: the last version seen is accepted again.
CheckReplayBelow(s) ==
  /\ hpc[s] = "replay"
  /\ IF push[s].version < lastSeen
       THEN Reject(s)
       ELSE /\ hpc' = [hpc EXCEPT ![s] = "mark"]
            /\ UNCHANGED <<statuses, push, fields, report>>
  /\ UNCHANGED <<cfgVars, parentVars, sessionVars, lastSeen, activated, undone>>

\* last_seen = _read_last_seen_version(), and the replay check.
CheckReplay(s) ==
  /\ hpc[s] = "replay"
  /\ IF push[s].version <= lastSeen
       THEN Reject(s)
       ELSE /\ hpc' = [hpc EXCEPT ![s] = "mark"]
            /\ UNCHANGED <<statuses, push, fields, report>>
  /\ UNCHANGED <<cfgVars, parentVars, sessionVars, lastSeen, activated, undone>>

\* _write_last_seen_version(version); an OSError ends the callback silently.
MarkSeen(s) ==
  /\ hpc[s] = "mark"
  /\ \/ /\ lastSeen' = push[s].version
        /\ hpc' = [hpc EXCEPT ![s] = "extract"]
        /\ UNCHANGED <<push, fields, report>>
     \/ /\ Finish(s)
        /\ UNCHANGED lastSeen
  /\ UNCHANGED <<cfgVars, parentVars, statuses, sessionVars, activated, undone>>

\* _extract_fields(rendered): the shape is checked; the prefixes are not part
\* of the text, they are read from this pod's own state files.
Extract(s) ==
  /\ hpc[s] = "extract"
  /\ \/ /\ hpc' = [hpc EXCEPT ![s] = "protect"]
        /\ fields' = [fields EXCEPT ![s] = [prefix |-> disk.prefix, pub |-> disk.pub]]
        /\ UNCHANGED <<statuses, push, report>>
     \/ Reject(s)
  /\ UNCHANGED <<cfgVars, parentVars, sessionVars, lastSeen, activated, undone>>

\* Mutant: the uplinks of the candidate are not compared.
PermittedAnyUplink(c, p) ==
  /\ Ident[c] \in OwnIdent
  /\ disk.config \in Configs
  /\ p = disk.prefix
  /\ Ident[c] = Ident[disk.config]

\* _federated_candidate_error against the files as they are at this moment.
Permitted(c, p) ==
  /\ Ident[c] \in OwnIdent
  /\ disk.config \in Configs
  /\ p = disk.prefix
  /\ Ident[c] = Ident[disk.config]
  /\ Fabric[disk.config] = {} \/ Fabric[disk.config] \cap Fabric[c] # {}

Protect(s) ==
  /\ hpc[s] = "protect"
  /\ IF Permitted(push[s].config, fields[s].prefix)
       THEN /\ hpc' = [hpc EXCEPT ![s] = "apply"]
            /\ Call(s, push[s].config, fields[s].prefix, fields[s].pub, TRUE)
            /\ UNCHANGED <<puts, statuses, push, fields, report>>
       ELSE Reject(s) /\ UNCHANGED cfgVars
  /\ UNCHANGED <<parentVars, sessionVars, lastSeen, activated, undone>>

\* apply_rendered_config returned: "failed" is reported as "rejected".  An
\* exception out of it ends the callback without any status.
Applied(s) ==
  /\ hpc[s] = "apply"
  /\ Resume(s)
  /\ IF result[s] = "raised"
       THEN Finish(s)
       ELSE /\ hpc' = [hpc EXCEPT ![s] = "report"]
            /\ report' = [report EXCEPT ![s] =
                 [health |-> CASE result[s] = "applied" -> "ok"
                               [] result[s] = "rolled_back" -> "rolled_back"
                               [] OTHER -> "rejected",
                  left |-> StatusAttempts]]
            /\ UNCHANGED <<push, fields>>
  /\ UNCHANGED <<parentVars, statuses, sessionVars, lastSeen, activated, undone>>

\* One put of _publish_status_fresh; the session for it may fail, which ends
\* the publishing.
PublishStatusFresh(s) ==
  /\ hpc[s] = "report"
  /\ \/ /\ Send(StatusOf(s, report[s].health))
        /\ IF report[s].left > 1
             THEN /\ report' = [report EXCEPT ![s].left = @ - 1]
                  /\ UNCHANGED <<hpc, push, fields>>
             ELSE Finish(s)
     \/ UNCHANGED statuses /\ Finish(s)
  /\ UNCHANGED <<cfgVars, parentVars, sessionVars, lastSeen, activated, undone>>

HandleConfigPush(s) ==
  \/ \E m \in inbox[s] : Receive(s, m)
  \/ CheckReplay(s)
  \/ MarkSeen(s)
  \/ Extract(s)
  \/ Protect(s)
  \/ Applied(s)
  \/ PublishStatusFresh(s)

-----------------------------------------------------------------------------
(* The child's other activities. *)

\* The step that proves a thread's candidate healthy.
Commits(t) == pc[t] \in {"health", "link"} /\ pc'[t] \in {"native", "done"}

\* A step of apply_rendered_config on any thread.  Writing config.json5 or
\* namespace-prefix changes the fingerprint (their mtime), content or not.
Activation(t) ==
  /\ apply_rendered_config(t)
  /\ dirty' = (dirty \/ pc[t] \in {"config", "prefix", "back_config", "back_prefix"})
  /\ activated' = activated \cup (IF t \in Sessions /\ Commits(t) THEN {push[t].version} ELSE {})
  /\ undone' = undone \cup (IF t \in Sessions /\ pc[t] = "rehealth" /\ result'[t] = "rolled_back"
                              THEN {push[t].version} ELSE {})
  /\ UNCHANGED <<parentVars, statuses, inbox, live, current, lastSeen, handlerVars>>

\* _watch_federation_session: the fingerprint changed, a replacement session
\* subscribes ...
Resubscribe(s) ==
  /\ dirty
  /\ live = {current}
  /\ s \in scene.sessions \ live
  /\ hpc[s] = "wait" /\ inbox[s] = {}
  /\ live' = live \cup {s}
  /\ dirty' = FALSE
  /\ UNCHANGED <<cfgVars, parentVars, statuses, inbox, current, lastSeen, handlerVars,
                 activated, undone>>

\* ... and the old one is closed.  Its running callback goes on; the samples
\* still queued for it are dropped or run.
CloseOld(s) ==
  /\ s \in live
  /\ s # current
  /\ current' = s
  /\ live' = {s}
  /\ inbox' \in {inbox, [inbox EXCEPT ![current] = {}]}
  /\ UNCHANGED <<cfgVars, parentVars, statuses, dirty, lastSeen, handlerVars, activated, undone>>

Operator ==
  /\ scene.operator
  /\ \/ \E t \in Locals, d \in Drafts : put_config(t, d)
     \/ \E t \in Locals, c \in Texts : put_rendered_config(t, c)
     \/ \E t \in Locals : PutReturns(t)
  /\ UNCHANGED fedVars

\* Nothing here reads what native processes were started with, and their own starts
\* are left to RouterConfig.
Router == RouterRestarts /\ UNCHANGED fedVars

\* The admin process is killed: callbacks and queued samples are gone, and a
\* new session subscribes.  last-seen-version is on disk.
ChildCrash ==
  /\ scene.kills
  /\ AdminCrash
  /\ hpc' = [s \in Sessions |-> "wait"]
  /\ push' = [s \in Sessions |-> NoPush]
  /\ fields' = [s \in Sessions |-> NoFields]
  /\ report' = [s \in Sessions |-> NoReport]
  /\ inbox' = [s \in Sessions |-> {}]
  /\ current' \in scene.sessions
  /\ live' = {current'}
  /\ dirty' = FALSE
  /\ UNCHANGED <<parentVars, statuses, lastSeen, activated, undone>>

-----------------------------------------------------------------------------
Parent ==
  \/ \E v \in Versions, c \in Pushable : CreateRevision(v, c)
  \/ \E r \in 1..MaxPushes : Publish(r) \/ MarkPending(r)
  \/ \E st \in Status : RecordStatus(st)

FedNext ==
  /\ \/ Parent
     \/ \E s \in Sessions : HandleConfigPush(s) \/ Resubscribe(s) \/ CloseOld(s)
     \/ \E t \in Threads : Activation(t)
     \/ Operator
     \/ Router
     \/ ChildCrash
  /\ UNCHANGED scene

\* Threads inside a callback or an activation keep running; nothing else is
\* promised: pushes, statuses, restarts and crashes may or may not happen.
FedSpec ==
  /\ FedInit
  /\ [][FedNext]_<<scene, vars>>
  /\ \A t \in Threads : WF_vars(Activation(t))
  /\ \A s \in Sessions : WF_vars(HandleConfigPush(s))

-----------------------------------------------------------------------------
(* Properties *)

\* Every variable has its type.
FedTypeOK ==
  /\ CfgTypeOK
  /\ pushed \in 0..MaxPushes
  /\ rows \in [1..MaxPushes -> Row]
  /\ lastStatus \in [version : Versions, health : Healths \cup {"none"}]
  /\ statuses \subseteq Status
  /\ inbox \in [Sessions -> SUBSET Push]
  /\ live \subseteq Sessions
  /\ current \in Sessions
  /\ dirty \in BOOLEAN
  /\ lastSeen \in Versions \cup {-1}
  /\ hpc \in [Sessions -> {"wait", "replay", "mark", "extract", "protect", "apply", "report"}]
  /\ push \in [Sessions -> Push]
  /\ fields \in [Sessions -> [prefix : Prefixes \cup {Torn}, pub : Prefixes \cup {Torn}]]
  /\ report \in [Sessions -> [health : Healths, left : 0..StatusAttempts]]
  /\ activated \subseteq Versions
  /\ undone \subseteq Versions

\* The ledger of the parent never claims what did not happen at the child: a row
\* marked "applied" is of a version whose configuration the child proved healthy
\* and kept, a row marked "rolled_back" of one it restored from - through lost,
\* repeated and overtaking statuses, overlapping callbacks and crashes.
LedgerTruth ==
  \A r \in 1..pushed :
    /\ rows[r].state = "applied" => rows[r].version \in activated
    /\ rows[r].state = "rolled_back" => rows[r].version \in undone

\* No push is activated after a push of the same or of a later version: a replayed
\* or delayed envelope never undoes a newer configuration (the replay check of
\* _handle_config_push, kept across restarts by config.json5.last-seen-version), as
\* long as one session at a time delivers.
VersionsIncrease ==
  [][Cardinality(scene.sessions) = 1 =>
       \A s \in Sessions : Commits(s) => \A u \in activated : u < push[s].version]_vars


\* What t replaces has the prefix and the identity of the candidate, and shares an
\* endpoint with it.
KeepsSettings(t) ==
  prev[t].config \in Configs =>
    /\ disk.prefix = prev[t].prefix
    /\ Ident[disk.config] = Ident[prev[t].config]
    /\ \/ Fabric[prev[t].config] = {}
       \/ Fabric[prev[t].config] \cap Fabric[disk.config] # {}

\* One session delivers, and nobody else changes the configuration.
Alone == Cardinality(scene.sessions) = 1 /\ ~scene.operator

\* "A parent push cannot change the child's identity, listener ports, fabric CA
\* profile, certificate-name verification policy, or organization control prefix.
\* Uplink replacement is deliberately two-stage" (docs/12-zenoh-admin-gui.md).
CannotChange == [][\A s \in Sessions : Commits(s) => KeepsSettings(s)]_vars

\* The same where pushes are all that changes the configuration, whichever of them are
\* refused, undone or cut off by a kill: what was compared is what is replaced.
ProtectedSettings == [][Alone => \A s \in Sessions : Commits(s) => KeepsSettings(s)]_vars

FinalStates == {"applied", "rejected", "rolled_back"}

\* One session delivers, and the parent's clock increases.
Orderly == Cardinality(scene.sessions) = 1 /\ scene.monotone

\* Once the request that made a push has returned, a final state in the ledger is
\* final: no repeated, late or overtaking status changes it, nor a status of another
\* version (_record_status), where one session delivers and the clock increases.
FinalOnceReturned ==
  [][Orderly => \A r \in 1..pushed :
       (rows[r].phase = "done" /\ rows[r].state \in FinalStates) => rows'[r].state = rows[r].state]_vars

\* "Changes records local and relayed revisions, target, hash, and final
\* applied/rejected/rolled-back state" (README.md): a final state is final, also while
\* the request that made the push has not returned.
FinalIsFinal ==
  [][\A r \in 1..pushed : rows[r].state \in FinalStates => rows'[r].state = rows[r].state]_vars
=============================================================================
