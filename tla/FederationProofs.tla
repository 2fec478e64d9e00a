-------------------------- MODULE FederationProofs --------------------------
(***************************************************************************)
(* Theorems about Federation for any number of sessions, local callers,    *)
(* pushes, versions and configurations, through lost, repeated and         *)
(* overtaking messages, restarts and kills.                                *)
(*                                                                         *)
(* LedgerTruth speaks of the parent's rows only.  It is inductive together *)
(* with what the statuses on their way, the callbacks about to publish and *)
(* the activations about to return say (LedgerInv), and with the fact that *)
(* a session's thread is inside apply_rendered_config exactly while its    *)
(* callback waits for it (HandlerInv).                                     *)
(***************************************************************************)
EXTENDS Federation, RouterConfigProofs, FiniteSetTheorems

\* A session's thread is inside apply_rendered_config while its callback is.
HandlerInv == \A s \in Sessions : pc[s] # "idle" <=> hpc[s] = "apply"

\* What a status may say of a version.
Truthful(version, health) ==
  /\ health = "ok" => version \in activated
  /\ health = "rolled_back" => version \in undone

\* Whoever is about to say something of a push says what happened to it.
ReturnsTruth(s) ==
  /\ pc[s] = "native" => push[s].version \in activated
  /\ (pc[s] = "done" /\ result[s] = "applied") => push[s].version \in activated
  /\ (pc[s] = "done" /\ result[s] = "rolled_back") => push[s].version \in undone

LedgerInv ==
  /\ LedgerTruth
  /\ \A st \in statuses : Truthful(st.version, st.health)
  /\ \A s \in Sessions : hpc[s] = "report" => Truthful(push[s].version, report[s].health)
  /\ \A s \in Sessions : hpc[s] = "apply" => ReturnsTruth(s)

FedInv == FedTypeOK /\ CfgInv /\ HandlerInv /\ LedgerInv

-----------------------------------------------------------------------------
(* Types. *)

ParentTypes ==
  /\ pushed \in 0..MaxPushes
  /\ rows \in [1..MaxPushes -> Row]
  /\ lastStatus \in [version : Versions, health : Healths \cup {"none"}]
  /\ statuses \subseteq Status

SessionTypes ==
  /\ inbox \in [Sessions -> SUBSET Push]
  /\ live \subseteq Sessions
  /\ current \in Sessions
  /\ dirty \in BOOLEAN
  /\ lastSeen \in Versions \cup {-1}
  /\ activated \subseteq Versions
  /\ undone \subseteq Versions

HandlerTypes ==
  /\ hpc \in [Sessions -> {"wait", "replay", "mark", "extract", "protect", "apply", "report"}]
  /\ push \in [Sessions -> Push]
  /\ fields \in [Sessions -> [prefix : Prefixes \cup {Torn}, pub : Prefixes \cup {Torn}]]
  /\ report \in [Sessions -> [health : Healths, left : 0..StatusAttempts]]

\* The parts are the type invariant.
LEMMA FedTypeParts == FedTypeOK <=> CfgTypeOK /\ ParentTypes /\ SessionTypes /\ HandlerTypes
  BY DEF FedTypeOK, ParentTypes, SessionTypes, HandlerTypes

\* The locals a callback has between two samples have their types.
LEMMA FinishValues ==
  /\ AnyVersion \in Versions
  /\ NoPush \in Push
  /\ NoFields \in [prefix : Prefixes \cup {Torn}, pub : Prefixes \cup {Torn}]
  /\ NoReport \in [health : Healths, left : 0..StatusAttempts]
<1>1. AnyVersion \in Versions
  BY FederationAssumption DEF AnyVersion
<1> QED
  BY <1>1, FederationAssumption, ConfigAssumption DEF NoPush, NoFields, NoReport, Push, Healths

\* The end of a callback keeps its types.
LEMMA FinishTypes ==
  ASSUME HandlerTypes, NEW s \in Sessions, Finish(s)
  PROVE  HandlerTypes'
<1> HIDE DEF NoPush, NoFields, NoReport
<1>1. hpc' \in [Sessions -> {"wait", "replay", "mark", "extract", "protect", "apply", "report"}]
  BY DEF HandlerTypes, Finish
<1>2. push' \in [Sessions -> Push]
  BY FinishValues DEF HandlerTypes, Finish
<1>3. fields' \in [Sessions -> [prefix : Prefixes \cup {Torn}, pub : Prefixes \cup {Torn}]]
  BY FinishValues DEF HandlerTypes, Finish
<1>4. report' \in [Sessions -> [health : Healths, left : 0..StatusAttempts]]
  BY FinishValues DEF HandlerTypes, Finish
<1> QED
  BY <1>1, <1>2, <1>3, <1>4 DEF HandlerTypes

\* The steps of the parent keep its types.
LEMMA ParentStep ==
  ASSUME ParentTypes, SessionTypes, Parent
  PROVE  ParentTypes' /\ inbox' \in [Sessions -> SUBSET Push]
<1>a. inbox \in [Sessions -> SUBSET Push] /\ rows \in [1..MaxPushes -> Row] /\ pushed \in 0..MaxPushes
      /\ MaxPushes \in Nat /\ live \subseteq Sessions
  BY FederationAssumption DEF ParentTypes, SessionTypes
<1>1. ASSUME NEW v \in Versions, NEW c \in Pushable, CreateRevision(v, c)
      PROVE  ParentTypes' /\ inbox' \in [Sessions -> SUBSET Push]
  <2>1. [version |-> v, config |-> c, state |-> "validating", phase |-> "create"] \in Row
    BY FederationAssumption DEF Row, RowStates
  <2>2. pushed' \in 0..MaxPushes
    BY <1>1, <1>a DEF CreateRevision
  <2>3. rows' \in [1..MaxPushes -> Row]
    BY <1>1, <1>a, <2>1 DEF CreateRevision
  <2> QED
    BY <1>1, <1>a, <2>2, <2>3 DEF CreateRevision, ParentTypes, sessionVars
<1>2. ASSUME NEW r \in 1..MaxPushes, Publish(r)
      PROVE  ParentTypes' /\ inbox' \in [Sessions -> SUBSET Push]
  <2>1. rows[r] \in Row
    BY <1>a
  <2>2. [version |-> rows[r].version, config |-> rows[r].config] \in Push
    BY <2>1 DEF Row, Push
  <2>3. inbox' \in [Sessions -> SUBSET Push]
    BY <1>2, <1>a, <2>2 DEF Publish
  <2>4. /\ [rows[r] EXCEPT !.phase = "put"] \in Row
        /\ [rows[r] EXCEPT !.phase = "done", !.state = "failed"] \in Row
    BY <2>1 DEF Row, RowStates
  <2>5. rows' \in [1..MaxPushes -> Row]
    BY <1>2, <1>a, <2>4 DEF Publish
  <2> QED
    BY <1>2, <2>3, <2>5 DEF Publish, ParentTypes
<1>3. ASSUME NEW r \in 1..MaxPushes, MarkPending(r)
      PROVE  ParentTypes' /\ inbox' \in [Sessions -> SUBSET Push]
  <2>1. [rows[r] EXCEPT !.phase = "done", !.state = "pending"] \in Row
    BY <1>a DEF Row, RowStates
  <2>2. rows' \in [1..MaxPushes -> Row]
    BY <1>3, <1>a, <2>1 DEF MarkPending
  <2> QED
    BY <1>3, <1>a, <2>2 DEF MarkPending, ParentTypes, sessionVars
<1>4. ASSUME NEW st \in Status, RecordStatus(st)
      PROVE  ParentTypes' /\ inbox' \in [Sessions -> SUBSET Push]
  <2>1. ASSUME NEW r \in 1..MaxPushes
        PROVE  [rows[r] EXCEPT !.state = IF st.health = "ok" THEN "applied" ELSE st.health] \in Row
    BY <1>a DEF Row, RowStates, Status, Healths
  <2>2. rows' \in [1..MaxPushes -> Row]
    BY <1>4, <1>a, <2>1 DEF RecordStatus
  <2>3. lastStatus' \in [version : Versions, health : Healths \cup {"none"}]
    BY <1>4 DEF RecordStatus, Status
  <2> QED
    BY <1>4, <1>a, <2>2, <2>3 DEF RecordStatus, ParentTypes, sessionVars
<1> QED
  BY <1>1, <1>2, <1>3, <1>4 DEF Parent

\* A status of the push at hand is a status.
LEMMA SendTypes ==
  ASSUME ParentTypes, NEW v \in Versions, NEW h \in Healths, Send([version |-> v, health |-> h])
  PROVE  statuses' \subseteq Status
  BY DEF ParentTypes, Send, Status

\* A push enters apply_rendered_config with a typed candidate.
LEMMA CallTypes ==
  ASSUME CfgTypeOK, NEW t \in Threads, NEW c \in Configs, NEW b \in BOOLEAN,
         NEW p \in Prefixes \cup {Torn}, NEW q \in Prefixes \cup {Torn},
         Call(t, c, p, q, b), UNCHANGED puts
  PROVE  CfgTypeOK'
<1>1. [config |-> c, prefix |-> p, pub |-> q, preserve |-> b] \in Candidate
  BY DEF Candidate
<1>2. FileTypes /\ ControlTypes
  BY TypeHalves
<1>3. ControlTypes'
  BY <1>1, <1>2, Labels DEF Call, ControlTypes
<1>4. FileTypes'
  BY <1>2 DEF Call, FileTypes, fileVars, ghosts
<1> QED
  BY <1>3, <1>4 DEF CfgTypeOK, FileTypes, ControlTypes

\* ... and comes back from it.
LEMMA ResumeTypes ==
  ASSUME CfgTypeOK, NEW t \in Threads, Resume(t)
  PROVE  CfgTypeOK'
<1>1. FileTypes /\ ControlTypes
  BY TypeHalves
<1>2. ControlTypes'
  BY <1>1, Labels DEF Resume, ControlTypes
<1>3. FileTypes'
  BY <1>1 DEF Resume, FileTypes, fileVars, ghosts
<1> QED
  BY <1>2, <1>3 DEF CfgTypeOK, FileTypes, ControlTypes

\* The steps of the callback keep the types.
LEMMA CallbackTypes ==
  ASSUME FedTypeOK, NEW s \in Sessions, HandleConfigPush(s)
  PROVE  FedTypeOK'
<1>a. CfgTypeOK /\ ParentTypes /\ SessionTypes /\ HandlerTypes
  BY FedTypeParts
<1>b. s \in Threads /\ StatusAttempts \in Nat \ {0}
  BY FederationAssumption
<1>c. push[s] \in Push /\ push[s].version \in Versions /\ push[s].config \in Configs
  BY <1>a DEF HandlerTypes, Push
<1>d. fields[s].prefix \in Prefixes \cup {Torn} /\ fields[s].pub \in Prefixes \cup {Torn}
  BY <1>a DEF HandlerTypes
<1>e. report[s] \in [health : Healths, left : 0..StatusAttempts]
  BY <1>a DEF HandlerTypes
\* The rejection of the push at hand.
<1>f. ASSUME Reject(s)
      PROVE  statuses' \subseteq Status /\ HandlerTypes'
  BY <1>f, <1>a, <1>c, SendTypes, FinishTypes DEF Reject, StatusOf, Healths
<1> SUFFICES CfgTypeOK' /\ ParentTypes' /\ SessionTypes' /\ HandlerTypes'
  BY DEF FedTypeOK, ParentTypes, SessionTypes, HandlerTypes
<1>g. UNCHANGED cfgVars => CfgTypeOK'
  BY <1>a, CfgTypeStep
<1>h. (UNCHANGED parentVars /\ statuses' \subseteq Status) => ParentTypes'
  BY <1>a DEF parentVars, ParentTypes
<1>i. (UNCHANGED <<sessionVars, activated, undone>> /\ lastSeen' \in Versions \cup {-1}) => SessionTypes'
  BY <1>a DEF sessionVars, SessionTypes
<1>j. UNCHANGED statuses => statuses' \subseteq Status
  BY <1>a DEF ParentTypes
<1>k. lastSeen \in Versions \cup {-1}
  BY <1>a DEF SessionTypes
<1>1. ASSUME NEW m \in inbox[s], Receive(s, m)
      PROVE  CfgTypeOK' /\ ParentTypes' /\ SessionTypes' /\ HandlerTypes'
  <2>1. m \in Push /\ m.version \in Versions
    BY <1>1, <1>a DEF SessionTypes, Push
  <2>2. SessionTypes'
    BY <1>1, <1>a DEF Receive, SessionTypes
  <2>3. statuses' \subseteq Status
    BY <1>1, <1>a, <1>j, <2>1, SendTypes DEF Receive, Healths
  <2>4. HandlerTypes'
    BY <1>1, <1>a, <2>1 DEF Receive, HandlerTypes
  <2> QED
    BY <1>1, <1>g, <1>h, <2>2, <2>3, <2>4 DEF Receive
<1>2. CASE CheckReplay(s)
  <2>1. HandlerTypes' /\ statuses' \subseteq Status
    <3>1. CASE push[s].version <= lastSeen
      BY <1>2, <1>f, <3>1 DEF CheckReplay
    <3>2. CASE ~(push[s].version <= lastSeen)
      BY <1>2, <1>a, <1>j, <3>2 DEF CheckReplay, HandlerTypes
    <3> QED
      BY <3>1, <3>2
  <2> QED
    BY <1>2, <1>g, <1>h, <1>i, <1>k, <2>1 DEF CheckReplay
<1>3. CASE MarkSeen(s)
  <2>1. HandlerTypes'
    BY <1>3, <1>a, FinishTypes DEF MarkSeen, HandlerTypes
  <2> QED
    BY <1>3, <1>c, <1>g, <1>h, <1>i, <1>j, <1>k, <2>1 DEF MarkSeen
<1>4. CASE Extract(s)
  <2>1. [prefix |-> disk.prefix, pub |-> disk.pub] \in [prefix : Prefixes \cup {Torn}, pub : Prefixes \cup {Torn}]
    BY <1>a DEF CfgTypeOK, Files
  <2>2. HandlerTypes' /\ statuses' \subseteq Status
    <3>1. CASE Reject(s)
      BY <3>1, <1>f
    <3>2. CASE /\ hpc' = [hpc EXCEPT ![s] = "protect"]
               /\ fields' = [fields EXCEPT ![s] = [prefix |-> disk.prefix, pub |-> disk.pub]]
               /\ UNCHANGED <<statuses, push, report>>
      BY <3>2, <1>a, <1>j, <2>1 DEF HandlerTypes
    <3> QED
      BY <1>4, <3>1, <3>2 DEF Extract
  <2> QED
    BY <1>4, <1>g, <1>h, <1>i, <1>k, <2>2 DEF Extract
<1>5. CASE Protect(s)
  <2>1. CASE Permitted(push[s].config, fields[s].prefix)
    <3>1. CfgTypeOK'
      BY <1>5, <2>1, <1>a, <1>b, <1>c, <1>d, CallTypes DEF Protect
    <3>2. HandlerTypes' /\ statuses' \subseteq Status
      BY <1>5, <2>1, <1>a, <1>j DEF Protect, HandlerTypes
    <3> QED
      BY <1>5, <1>h, <1>i, <1>k, <3>1, <3>2 DEF Protect
  <2>2. CASE ~Permitted(push[s].config, fields[s].prefix)
    BY <1>5, <2>2, <1>f, <1>g, <1>h, <1>i, <1>k DEF Protect
  <2> QED
    BY <2>1, <2>2
<1>6. CASE Applied(s)
  <2>1. HandlerTypes'
    <3>1. CASE result[s] = "raised"
      BY <1>6, <1>a, <3>1, FinishTypes DEF Applied
    <3>2. CASE result[s] # "raised"
      <4>1. PICK h \in Healths : report' = [report EXCEPT ![s] = [health |-> h, left |-> StatusAttempts]]
        BY <1>6, <3>2 DEF Applied, Healths
      <4>2. [health |-> h, left |-> StatusAttempts] \in [health : Healths, left : 0..StatusAttempts]
        BY <1>b
      <4> QED
        BY <1>6, <1>a, <3>2, <4>1, <4>2 DEF Applied, HandlerTypes
    <3> QED
      BY <3>1, <3>2
  <2> QED
    BY <1>6, <1>a, <1>b, <1>h, <1>i, <1>j, <1>k, <2>1, ResumeTypes DEF Applied
<1>7. CASE PublishStatusFresh(s)
  <2>1. statuses' \subseteq Status
    BY <1>7, <1>a, <1>c, <1>e, <1>j, SendTypes DEF PublishStatusFresh, StatusOf
  <2>2. HandlerTypes'
    <3>1. CASE Finish(s)
      BY <3>1, <1>a, FinishTypes
    <3>2. CASE /\ report[s].left > 1
               /\ report' = [report EXCEPT ![s].left = @ - 1]
               /\ UNCHANGED <<hpc, push, fields>>
      <4>1. [report[s] EXCEPT !.left = @ - 1] \in [health : Healths, left : 0..StatusAttempts]
        BY <3>2, <1>b, <1>e
      <4> QED
        BY <3>2, <4>1, <1>a DEF HandlerTypes
    <3> QED
      BY <1>7, <3>1, <3>2 DEF PublishStatusFresh
  <2> QED
    BY <1>7, <1>g, <1>h, <1>i, <1>k, <2>1, <2>2 DEF PublishStatusFresh
<1> QED
  BY <1>1, <1>2, <1>3, <1>4, <1>5, <1>6, <1>7 DEF HandleConfigPush

\* A step of the activation path, on any thread, keeps the types.
LEMMA ActivationTypes ==
  ASSUME FedTypeOK, NEW t \in Threads, Activation(t)
  PROVE  FedTypeOK'
<1>a. CfgTypeOK /\ ParentTypes /\ SessionTypes /\ HandlerTypes
  BY FedTypeParts
<1>1. CfgTypeOK'
  BY <1>a, CfgTypeStep DEF Activation, CfgNext
<1>2. t \in Sessions => push[t].version \in Versions
  BY <1>a DEF HandlerTypes, Push
<1>3. SessionTypes'
  BY <1>a, <1>2 DEF Activation, SessionTypes
<1>4. ParentTypes' /\ HandlerTypes'
  BY <1>a DEF Activation, ParentTypes, HandlerTypes, parentVars, handlerVars
<1> QED
  BY <1>1, <1>3, <1>4 DEF FedTypeOK, ParentTypes, SessionTypes, HandlerTypes

\* Every step of the composition keeps the types.
LEMMA FedTypeStep ==
  ASSUME FedTypeOK, scene \in Scenes, [FedNext]_<<scene, vars>>
  PROVE  FedTypeOK'
<1>a. CfgTypeOK /\ ParentTypes /\ SessionTypes /\ HandlerTypes
  BY FedTypeParts
<1>b. scene.sessions \subseteq Sessions
  BY FederationAssumption
<1>c. CfgTypeOK' /\ ParentTypes' /\ SessionTypes' /\ HandlerTypes' => FedTypeOK'
  BY DEF FedTypeOK, ParentTypes, SessionTypes, HandlerTypes
<1>d. UNCHANGED fedVars => ParentTypes' /\ SessionTypes' /\ HandlerTypes'
  BY <1>a DEF fedVars, parentVars, sessionVars, handlerVars, ParentTypes, SessionTypes, HandlerTypes
<1>e. [CfgNext]_cfgVars => CfgTypeOK'
  BY <1>a, CfgTypeStep
<1>1. CASE Parent
  <2>1. UNCHANGED <<cfgVars, live, current, dirty, lastSeen, handlerVars, activated, undone>>
    BY <1>1 DEF Parent, CreateRevision, Publish, MarkPending, RecordStatus, sessionVars
  <2>2. ParentTypes' /\ inbox' \in [Sessions -> SUBSET Push]
    BY <1>1, <1>a, ParentStep
  <2>3. SessionTypes' /\ HandlerTypes'
    BY <1>a, <2>1, <2>2 DEF SessionTypes, HandlerTypes, handlerVars
  <2> QED
    BY <1>c, <1>e, <2>1, <2>2, <2>3
<1>2. ASSUME NEW s \in Sessions, HandleConfigPush(s)
      PROVE  FedTypeOK'
  BY <1>2, CallbackTypes
<1>3. ASSUME NEW s \in Sessions, Resubscribe(s)
      PROVE  FedTypeOK'
  <2>1. SessionTypes'
    BY <1>3, <1>a DEF Resubscribe, SessionTypes
  <2>2. ParentTypes' /\ HandlerTypes'
    BY <1>3, <1>a DEF Resubscribe, ParentTypes, HandlerTypes, parentVars, handlerVars
  <2> QED
    BY <1>3, <1>c, <1>e, <2>1, <2>2 DEF Resubscribe
<1>4. ASSUME NEW s \in Sessions, CloseOld(s)
      PROVE  FedTypeOK'
  <2>1. SessionTypes'
    BY <1>4, <1>a DEF CloseOld, SessionTypes
  <2>2. ParentTypes' /\ HandlerTypes'
    BY <1>4, <1>a DEF CloseOld, ParentTypes, HandlerTypes, parentVars, handlerVars
  <2> QED
    BY <1>4, <1>c, <1>e, <2>1, <2>2 DEF CloseOld
<1>5. ASSUME NEW t \in Threads, Activation(t)
      PROVE  FedTypeOK'
  BY <1>5, ActivationTypes
<1>6. CASE Operator \/ Router
  <2>1. CfgNext /\ UNCHANGED fedVars
    BY <1>6 DEF Operator, Router, CfgNext
  <2> QED
    BY <1>c, <1>d, <1>e, <2>1
<1>7. CASE ChildCrash
  <2>1. CfgTypeOK'
    BY <1>7, <1>e DEF ChildCrash, CfgNext
  <2>2. HandlerTypes'
    BY <1>7, FinishValues DEF ChildCrash, HandlerTypes
  <2>3. SessionTypes'
    BY <1>7, <1>a, <1>b DEF ChildCrash, SessionTypes
  <2>4. ParentTypes'
    BY <1>7, <1>a DEF ChildCrash, ParentTypes, parentVars
  <2> QED
    BY <1>c, <2>1, <2>2, <2>3, <2>4
<1>8. CASE UNCHANGED vars
  BY <1>8, <1>c, <1>d, <1>e DEF vars
<1> QED
  BY <1>1, <1>2, <1>3, <1>4, <1>5, <1>6, <1>7, <1>8 DEF FedNext

\* Initially the types hold.
LEMMA FedTypeInit == FedInit => FedTypeOK /\ scene \in Scenes
<1> SUFFICES ASSUME FedInit PROVE FedTypeOK /\ scene \in Scenes
  OBVIOUS
<1>a. scene \in Scenes /\ scene.sessions \subseteq Sessions
  BY FederationAssumption DEF FedInit
<1>1. CfgTypeOK
  BY CfgInvInit DEF FedInit, CfgInv
<1>2. [version |-> AnyVersion, config |-> InitFiles.config, state |-> "validating", phase |-> "create"] \in Row
  BY FinishValues, ConfigAssumption DEF Row, RowStates
<1>3. ParentTypes
  BY <1>2, FinishValues, FederationAssumption DEF FedInit, ParentTypes, Status
<1>4. SessionTypes
  BY <1>a DEF FedInit, SessionTypes
<1>5. HandlerTypes
  BY FinishValues DEF FedInit, HandlerTypes
<1> QED
  BY <1>a, <1>1, <1>3, <1>4, <1>5, FedTypeParts

\* Every variable of parent, network and child has its type, for any number of
\* sessions, pushes and callers (federation.py, federation_apply.py).
THEOREM FedTypes == FedSpec => []FedTypeOK
<1>1. FedTypeOK /\ scene \in Scenes /\ [FedNext]_<<scene, vars>> => (FedTypeOK /\ scene \in Scenes)'
  BY FedTypeStep DEF FedNext
<1> QED
  BY <1>1, FedTypeInit, PTL DEF FedSpec

-----------------------------------------------------------------------------
(* The activation path keeps its invariant when callbacks call it. *)

\* Seen from the activation path, a step of the composition is one of its own, or
\* the entry or return of a callback.
LEMMA FedCfgStep ==
  ASSUME [FedNext]_<<scene, vars>>
  PROVE  \/ [CfgNext]_cfgVars
         \/ \E s \in Sessions : Call(s, push[s].config, fields[s].prefix, fields[s].pub, TRUE)
         \/ \E s \in Sessions : Resume(s)
<1>1. CASE Parent
  BY <1>1 DEF Parent, CreateRevision, Publish, MarkPending, RecordStatus
<1>2. ASSUME NEW s \in Sessions, HandleConfigPush(s)
      PROVE  \/ [CfgNext]_cfgVars
             \/ Call(s, push[s].config, fields[s].prefix, fields[s].pub, TRUE)
             \/ Resume(s)
  BY <1>2 DEF HandleConfigPush, Receive, CheckReplay, MarkSeen, Extract, Protect, Applied, PublishStatusFresh
<1>3. ASSUME NEW s \in Sessions, Resubscribe(s) \/ CloseOld(s)
      PROVE  UNCHANGED cfgVars
  BY <1>3 DEF Resubscribe, CloseOld
<1>4. CASE (\E t \in Threads : Activation(t)) \/ Operator \/ Router \/ ChildCrash
  BY <1>4 DEF Activation, Operator, Router, ChildCrash, CfgNext
<1>5. CASE UNCHANGED vars
  BY <1>5 DEF vars
<1> QED
  BY <1>1, <1>2, <1>3, <1>4, <1>5 DEF FedNext

\* The invariant of the activation path, with callbacks as callers.
LEMMA FedCfgInvStep ==
  ASSUME CfgInv, CfgTypeOK', [FedNext]_<<scene, vars>>
  PROVE  CfgInv'
<1>a. pc \in [Threads -> PCs] /\ job \in [Threads -> Candidate] /\ Sessions \subseteq Threads
  BY FederationAssumption DEF CfgInv, CfgTypeOK
<1>1. CASE [CfgNext]_cfgVars
  BY <1>1, CfgInvStep
<1>2. ASSUME NEW s \in Sessions, Call(s, push[s].config, fields[s].prefix, fields[s].pub, TRUE)
      PROVE  CfgInv'
  BY <1>2, <1>a, MovesOutside DEF Call, CfgInv
<1>3. ASSUME NEW s \in Sessions, Resume(s)
      PROVE  CfgInv'
  BY <1>3, <1>a, MovesOutside DEF Resume, CfgInv
<1> QED
  BY <1>1, <1>2, <1>3, FedCfgStep

\* The activation path keeps its promises to pushes and to the operator at once.
THEOREM FedCfgInvariant == FedSpec => []CfgInv
<1>1. FedInit => CfgInv
  BY CfgInvInit DEF FedInit
<1>2. CfgInv /\ FedTypeOK' /\ [FedNext]_<<scene, vars>> => CfgInv'
  BY FedCfgInvStep DEF FedTypeOK
<1> QED
  BY <1>1, <1>2, FedTypes, PTL DEF FedSpec

\* Also with pushes and local requests at the same time, the three state files are
\* those of the last candidate proven healthy whenever no activation is under way
\* and none was abandoned half-way (apply_rendered_config).
THEOREM FedFilesSettle == FedSpec => []SettledFiles
<1>1. CfgInv => SettledFiles
  BY DEF CfgInv
<1> QED
  BY <1>1, FedCfgInvariant, PTL

-----------------------------------------------------------------------------
(* A callback and its thread. *)

\* A thread that is not idle stays so within apply_rendered_config.
LEMMA ApplyNotIdle ==
  ASSUME CfgTypeOK, NEW t \in Threads, apply_rendered_config(t)
  PROVE  /\ pc[t] # "idle" /\ pc'[t] # "idle"
         /\ \A u \in Threads \ {t} : pc'[u] = pc[u]
<1>a. pc \in [Threads -> PCs] /\ {"idle"} \cap Holding = {}
  BY DEF CfgTypeOK, Holding, Unproven
<1>1. PICK l \in PCs :
        /\ pc' = [pc EXCEPT ![t] = l]
        /\ \/ pc[t] = "call" /\ l = "check" /\ lock = NoThread /\ lock' = t
           \/ pc[t] \in Holding /\ l \in Holding /\ lock' = lock
           \/ pc[t] \in Holding /\ l = "done" /\ lock' = NoThread
  BY ApplyMoves
<1> QED
  BY <1>a, <1>1

\* What the callback of s leaves alone: the other callbacks and threads, the parent's
\* rows, who is subscribed, and the files.
OthersKept(s) ==
  /\ \A u \in Sessions \ {s} :
       hpc'[u] = hpc[u] /\ push'[u] = push[u] /\ fields'[u] = fields[u] /\ report'[u] = report[u]
  /\ \A u \in Threads \ {s} : pc'[u] = pc[u] /\ result'[u] = result[u] /\ job'[u] = job[u]
  /\ UNCHANGED <<live, current, dirty, activated, undone, rows, pushed, lastStatus>>
  /\ UNCHANGED <<disk, lkg, lock, prev>>

\* A step of a callback leaves alone what is not its own.
LEMMA CallbackFrame ==
  ASSUME FedTypeOK, NEW s \in Sessions, HandleConfigPush(s)
  PROVE  OthersKept(s)
<1>a. /\ hpc \in [Sessions -> {"wait", "replay", "mark", "extract", "protect", "apply", "report"}]
      /\ push \in [Sessions -> Push]
      /\ pc \in [Threads -> PCs] /\ result \in [Threads -> Outcomes] /\ job \in [Threads -> Candidate]
      /\ Sessions \subseteq Threads
  BY FederationAssumption DEF FedTypeOK, CfgTypeOK
<1>b. /\ fields \in [Sessions -> [prefix : Prefixes \cup {Torn}, pub : Prefixes \cup {Torn}]]
      /\ report \in [Sessions -> [health : Healths, left : 0..StatusAttempts]]
  BY DEF FedTypeOK
<1> USE <1>a, <1>b DEF cfgVars, sessionVars, fileVars, parentVars, OthersKept
<1>1. ASSUME NEW m \in inbox[s], Receive(s, m)
      PROVE  OthersKept(s)
  BY <1>1 DEF Receive
<1>2. CASE CheckReplay(s)
  BY <1>2 DEF CheckReplay, Reject, Finish
<1>3. CASE MarkSeen(s)
  BY <1>3 DEF MarkSeen, Finish
<1>4. CASE Extract(s)
  BY <1>4 DEF Extract, Reject, Finish
<1>5. CASE Protect(s)
  BY <1>5 DEF Protect, Reject, Finish, Call
<1>6. CASE Applied(s)
  BY <1>6 DEF Applied, Finish, Resume
<1>7. CASE PublishStatusFresh(s)
  BY <1>7 DEF PublishStatusFresh, Finish
<1> QED
  BY <1>1, <1>2, <1>3, <1>4, <1>5, <1>6, <1>7 DEF HandleConfigPush

\* A callback waits for its thread exactly while the thread is at work.
LEMMA HandlerStep ==
  ASSUME FedTypeOK, HandlerInv, [FedNext]_<<scene, vars>>
  PROVE  HandlerInv'
<1>a. /\ hpc \in [Sessions -> {"wait", "replay", "mark", "extract", "protect", "apply", "report"}]
      /\ pc \in [Threads -> PCs] /\ Sessions \subseteq Threads /\ Sessions \cap Locals = {}
      /\ CfgTypeOK
  BY FederationAssumption DEF FedTypeOK, CfgTypeOK
<1>1. CASE Parent
  BY <1>1 DEF Parent, CreateRevision, Publish, MarkPending, RecordStatus, handlerVars, cfgVars, HandlerInv
<1>2. ASSUME NEW s \in Sessions, HandleConfigPush(s)
      PROVE  HandlerInv'
  <2>1. \A u \in Sessions \ {s} : hpc'[u] = hpc[u] /\ pc'[u] = pc[u]
    BY <1>2, <1>a, CallbackFrame DEF OthersKept
  <2>2. pc'[s] # "idle" <=> hpc'[s] = "apply"
    <3> USE <1>a DEF HandlerInv, cfgVars
    <3>1. ASSUME NEW m \in inbox[s], Receive(s, m)
          PROVE  pc'[s] # "idle" <=> hpc'[s] = "apply"
      BY <3>1 DEF Receive
    <3>2. CASE CheckReplay(s) \/ MarkSeen(s) \/ Extract(s)
      BY <3>2 DEF CheckReplay, MarkSeen, Extract, Reject, Finish
    <3>3. CASE Protect(s)
      BY <3>3 DEF Protect, Reject, Finish, Call
    <3>4. CASE Applied(s)
      BY <3>4 DEF Applied, Finish, Resume
    <3>5. CASE PublishStatusFresh(s)
      BY <3>5 DEF PublishStatusFresh, Finish
    <3> QED
      BY <1>2, <3>1, <3>2, <3>3, <3>4, <3>5 DEF HandleConfigPush
  <2> QED
    BY <2>1, <2>2 DEF HandlerInv
<1>3. ASSUME NEW s \in Sessions, Resubscribe(s) \/ CloseOld(s)
      PROVE  HandlerInv'
  BY <1>3 DEF Resubscribe, CloseOld, handlerVars, cfgVars, HandlerInv
<1>4. ASSUME NEW t \in Threads, Activation(t)
      PROVE  HandlerInv'
  BY <1>4, <1>a, ApplyNotIdle DEF Activation, handlerVars, HandlerInv
<1>5. CASE Operator
  <2>1. \A u \in Sessions : pc'[u] = pc[u]
    BY <1>5, <1>a DEF Operator, put_config, put_rendered_config, PutReturns, Call, Resume
  <2> QED
    BY <1>5, <2>1 DEF Operator, fedVars, handlerVars, HandlerInv
<1>6. CASE Router
  BY <1>6 DEF Router, RouterRestarts, callVars, fedVars, handlerVars, HandlerInv
<1>7. CASE ChildCrash
  BY <1>7, <1>a DEF ChildCrash, AdminCrash, HandlerInv
<1>8. CASE UNCHANGED vars
  BY <1>8 DEF vars, cfgVars, fedVars, handlerVars, HandlerInv
<1> QED
  BY <1>1, <1>2, <1>3, <1>4, <1>5, <1>6, <1>7, <1>8 DEF FedNext

-----------------------------------------------------------------------------
(* The ledger. *)

\* A thread comes to "applied" only past the health proof, and to "rolled_back" only
\* past the second one.
LEMMA ApplyVerdict ==
  ASSUME CfgTypeOK, NEW t \in Threads, apply_rendered_config(t)
  PROVE  /\ pc'[t] = "native" => Commits(t)
         /\ (pc'[t] = "done" /\ result'[t] = "applied") => Commits(t) \/ pc[t] = "native"
         /\ (pc'[t] = "done" /\ result'[t] = "rolled_back") => pc[t] = "rehealth"
<1> USE DEF CfgTypeOK, Commits
<1>1. CASE Acquire(t) \/ Check(t)
  BY <1>1 DEF Acquire, Check, Return
<1>2. CASE SaveLastKnownGood(t)
  BY <1>2 DEF SaveLastKnownGood, Goto, Return
<1>3. CASE WriteCandidate(t, "config", "prefix")
  BY <1>3 DEF WriteCandidate, Goto, Restore
<1>4. CASE WriteCandidate(t, "prefix", "pub")
  BY <1>4 DEF WriteCandidate, Goto, Restore
<1>5. CASE WriteCandidate(t, "pub", "restart")
  BY <1>5 DEF WriteCandidate, Goto, Restore
<1>6. CASE Restart(t)
  BY <1>6 DEF Restart, Goto, Restore
<1>7. CASE Health(t) \/ Link(t)
  BY <1>7 DEF Health, Link, Commit, Goto, Return, Restore
<1>8. CASE WriteBack(t, "config", "back_config", "back_prefix")
  BY <1>8 DEF WriteBack, Goto, Return
<1>9. CASE WriteBack(t, "prefix", "back_prefix", "back_pub")
  BY <1>9 DEF WriteBack, Goto, Return
<1>10. CASE WriteBack(t, "pub", "back_pub", "restored")
  BY <1>10 DEF WriteBack, Restored, Goto, Return
<1>11. CASE Rerestart(t) \/ Rehealth(t) \/ RestartNatives(t) \/ DockerRaises(t)
  BY <1>11 DEF Rerestart, Rehealth, RestartNatives, DockerRaises, Goto, Return
<1> QED
  BY <1>1, <1>2, <1>3, <1>4, <1>5, <1>6, <1>7, <1>8, <1>9, <1>10, <1>11 DEF apply_rendered_config

\* A step of the parent writes into the ledger only what a status said.
LEMMA ParentLedger ==
  ASSUME FedTypeOK, LedgerInv, Parent
  PROVE  LedgerInv'
<1>a. /\ rows \in [1..MaxPushes -> Row] /\ pushed \in 0..MaxPushes /\ MaxPushes \in Nat
      /\ statuses \subseteq Status /\ LedgerTruth
      /\ \A st \in statuses : Truthful(st.version, st.health)
  BY FederationAssumption DEF FedTypeOK, LedgerInv
<1>b. UNCHANGED <<cfgVars, hpc, push, report, activated, undone>> /\ statuses' \subseteq statuses
  BY DEF Parent, CreateRevision, Publish, MarkPending, RecordStatus, handlerVars
<1>c. SUFFICES LedgerTruth'
  BY <1>b DEF LedgerInv, Truthful, ReturnsTruth, cfgVars
<1>1. ASSUME NEW v \in Versions, NEW c \in Pushable, CreateRevision(v, c)
      PROVE  LedgerTruth'
  <2>1. /\ \A r \in 1..pushed : rows'[r] = rows[r]
        /\ rows'[pushed'].state = "validating" /\ pushed' = pushed + 1
    BY <1>1, <1>a DEF CreateRevision
  <2> QED
    BY <1>a, <1>b, <2>1 DEF LedgerTruth
<1>2. ASSUME NEW r \in 1..MaxPushes, Publish(r) \/ MarkPending(r)
      PROVE  LedgerTruth'
  <2>1. \A q \in 1..MaxPushes :
          rows'[q].version = rows[q].version /\ rows'[q].state \in {rows[q].state, "failed", "pending"}
    BY <1>2, <1>a DEF Publish, MarkPending, Row
  <2>2. pushed' = pushed
    BY <1>2 DEF Publish, MarkPending
  <2> QED
    BY <1>a, <1>b, <2>1, <2>2 DEF LedgerTruth
<1>3. ASSUME NEW st \in Status, RecordStatus(st)
      PROVE  LedgerTruth'
  <2>1. ASSUME NEW r \in 1..MaxPushes
        PROVE  /\ rows'[r].version = rows[r].version
               /\ \/ rows'[r] = rows[r]
                  \/ /\ rows[r].version = st.version
                     /\ rows'[r].state = IF st.health = "ok" THEN "applied" ELSE st.health
    BY <1>3, <1>a DEF RecordStatus, NewestRow, Row
  <2>2. Truthful(st.version, st.health) /\ st.health \in Healths /\ pushed' = pushed
    BY <1>3, <1>a DEF RecordStatus, Status
  <2>3. 1..pushed \subseteq 1..MaxPushes
    BY <1>a
  <2>4. ASSUME NEW r \in 1..pushed
        PROVE  /\ rows'[r].state = "applied" => rows'[r].version \in activated
               /\ rows'[r].state = "rolled_back" => rows'[r].version \in undone
    BY <1>a, <2>1, <2>2, <2>3 DEF LedgerTruth, Truthful, Healths
  <2> QED
    BY <1>b, <2>2, <2>4 DEF LedgerTruth
<1> QED
  BY <1>1, <1>2, <1>3 DEF Parent

\* A callback publishes only what its thread returned.
LEMMA CallbackLedger ==
  ASSUME FedTypeOK, HandlerInv, LedgerInv, NEW s \in Sessions, HandleConfigPush(s)
  PROVE  LedgerInv'
<1>a. /\ hpc \in [Sessions -> {"wait", "replay", "mark", "extract", "protect", "apply", "report"}]
      /\ push \in [Sessions -> Push]
      /\ report \in [Sessions -> [health : Healths, left : 0..StatusAttempts]]
      /\ pc \in [Threads -> PCs] /\ Sessions \subseteq Threads
  BY FederationAssumption DEF FedTypeOK, CfgTypeOK
<1>b. /\ LedgerTruth
      /\ \A st \in statuses : Truthful(st.version, st.health)
      /\ \A u \in Sessions : hpc[u] = "report" => Truthful(push[u].version, report[u].health)
      /\ \A u \in Sessions : hpc[u] = "apply" => ReturnsTruth(u)
  BY DEF LedgerInv
<1>c. OthersKept(s)
  BY CallbackFrame
<1>d. LedgerTruth'
  BY <1>b, <1>c DEF LedgerTruth, OthersKept
<1>e. ASSUME NEW u \in Sessions \ {s}
      PROVE  /\ hpc'[u] = "report" => Truthful(push[u].version, report[u].health)'
             /\ hpc'[u] = "apply" => ReturnsTruth(u)'
  BY <1>a, <1>b, <1>c DEF OthersKept, Truthful, ReturnsTruth
\* What is left: the statuses, and s itself.
<1>f. SUFFICES /\ \A st \in statuses' : Truthful(st.version, st.health)
               /\ hpc'[s] = "report" => Truthful(push[s].version, report[s].health)'
               /\ hpc'[s] = "apply" => ReturnsTruth(s)'
  BY <1>c, <1>d, <1>e DEF LedgerInv, Truthful, ReturnsTruth, OthersKept
<1>g. ASSUME NEW v, NEW h, Truthful(v, h), Send([version |-> v, health |-> h])
      PROVE  \A st \in statuses' : Truthful(st.version, st.health)
  BY <1>g, <1>b DEF Send
<1>h. \A v : Truthful(v, "rejected")
  BY DEF Truthful
<1>i. Finish(s) => hpc'[s] = "wait"
  BY <1>a DEF Finish
<1>j. Reject(s) => hpc'[s] = "wait" /\ \A st \in statuses' : Truthful(st.version, st.health)
  BY <1>g, <1>h, <1>i DEF Reject, StatusOf
<1>1. ASSUME NEW m \in inbox[s], Receive(s, m)
      PROVE  hpc'[s] \notin {"report", "apply"} /\ \A st \in statuses' : Truthful(st.version, st.health)
  BY <1>1, <1>a, <1>b, <1>g, <1>h DEF Receive
<1>2. CASE CheckReplay(s) \/ MarkSeen(s) \/ Extract(s)
  <2>1. hpc'[s] \notin {"report", "apply"} /\ \A st \in statuses' : Truthful(st.version, st.health)
    BY <1>2, <1>a, <1>b, <1>i, <1>j DEF CheckReplay, MarkSeen, Extract
  <2> QED
    BY <2>1
<1>3. CASE Protect(s)
  <2>1. CASE Permitted(push[s].config, fields[s].prefix)
    <3>1. statuses' = statuses /\ hpc'[s] = "apply" /\ pc'[s] = "call"
      BY <1>3, <2>1, <1>a DEF Protect, Call
    <3> QED
      BY <1>b, <3>1 DEF ReturnsTruth
  <2>2. CASE ~Permitted(push[s].config, fields[s].prefix)
    BY <1>3, <2>2, <1>j DEF Protect
  <2> QED
    BY <2>1, <2>2
<1>4. CASE Applied(s)
  <2>1. ReturnsTruth(s) /\ pc[s] = "done" /\ statuses' = statuses
    BY <1>4, <1>b DEF Applied, Resume
  <2>2. CASE result[s] = "raised"
    BY <1>4, <2>1, <2>2, <1>b, <1>i DEF Applied
  <2>3. CASE result[s] # "raised"
    <3>1. push'[s] = push[s] /\ hpc'[s] = "report"
      BY <1>4, <2>3, <1>a DEF Applied
    <3>2. report'[s].health = CASE result[s] = "applied" -> "ok"
                                [] result[s] = "rolled_back" -> "rolled_back"
                                [] OTHER -> "rejected"
      BY <1>4, <2>3, <1>a DEF Applied
    <3>3. Truthful(push[s].version, report'[s].health)
      BY <2>1, <3>2 DEF Truthful, ReturnsTruth
    <3> QED
      BY <1>b, <1>c, <2>1, <3>1, <3>3 DEF Truthful, OthersKept
  <2> QED
    BY <2>2, <2>3
<1>5. CASE PublishStatusFresh(s)
  <2>1. Truthful(push[s].version, report[s].health)
    BY <1>5, <1>b DEF PublishStatusFresh
  <2>2. \A st \in statuses' : Truthful(st.version, st.health)
    BY <1>5, <1>b, <1>g, <2>1 DEF PublishStatusFresh, StatusOf
  <2>3. hpc'[s] = "wait" \/ (hpc'[s] = "report" /\ push'[s] = push[s] /\ report'[s].health = report[s].health)
    BY <1>5, <1>a, <1>i DEF PublishStatusFresh
  <2> QED
    BY <1>c, <2>1, <2>2, <2>3 DEF Truthful, OthersKept
<1> QED
  BY <1>1, <1>2, <1>3, <1>4, <1>5 DEF HandleConfigPush

\* An activation notes what it proved before it can be told.
LEMMA ActivationLedger ==
  ASSUME FedTypeOK, HandlerInv, LedgerInv, NEW t \in Threads, Activation(t)
  PROVE  LedgerInv'
<1>a. CfgTypeOK /\ Sessions \subseteq Threads /\ apply_rendered_config(t)
      /\ UNCHANGED <<rows, pushed, statuses, hpc, push, report>>
      /\ activated \subseteq activated' /\ undone \subseteq undone'
  BY FederationAssumption DEF FedTypeOK, Activation, parentVars, handlerVars
<1>b. /\ LedgerTruth
      /\ \A st \in statuses : Truthful(st.version, st.health)
      /\ \A u \in Sessions : hpc[u] = "report" => Truthful(push[u].version, report[u].health)
      /\ \A u \in Sessions : hpc[u] = "apply" => ReturnsTruth(u)
  BY DEF LedgerInv
<1>1. LedgerTruth'
  BY <1>a, <1>b DEF LedgerTruth
<1>2. (\A st \in statuses : Truthful(st.version, st.health))'
  BY <1>a, <1>b DEF Truthful
<1>3. (\A u \in Sessions : hpc[u] = "report" => Truthful(push[u].version, report[u].health))'
  BY <1>a, <1>b DEF Truthful
<1>4. ASSUME NEW u \in Sessions, hpc[u] = "apply"
      PROVE  ReturnsTruth(u)'
  <2>1. CASE u = t
    <3>1. Commits(t) => push[t].version \in activated'
      BY <2>1 DEF Activation
    <3>2. (pc[t] = "rehealth" /\ result'[t] = "rolled_back") => push[t].version \in undone'
      BY <2>1 DEF Activation
    <3> QED
      BY <1>4, <1>a, <1>b, <2>1, <3>1, <3>2, ApplyVerdict DEF ReturnsTruth
  <2>2. CASE u # t
    <3>1. pc'[u] = pc[u] /\ result'[u] = result[u]
      BY <1>a, <2>2, ApplyFrame
    <3> QED
      BY <1>4, <1>a, <1>b, <3>1 DEF ReturnsTruth
  <2> QED
    BY <2>1, <2>2
<1> QED
  BY <1>a, <1>1, <1>2, <1>3, <1>4 DEF LedgerInv

\* Every step keeps the ledger true.
LEMMA LedgerStep ==
  ASSUME FedTypeOK, HandlerInv, LedgerInv, [FedNext]_<<scene, vars>>
  PROVE  LedgerInv'
<1>a. pc \in [Threads -> PCs] /\ Sessions \subseteq Threads /\ Sessions \cap Locals = {}
  BY FederationAssumption DEF FedTypeOK, CfgTypeOK
<1>b. ASSUME UNCHANGED <<rows, pushed, statuses, hpc, push, report, activated, undone>>,
             \A u \in Sessions : pc'[u] = pc[u] /\ result'[u] = result[u]
      PROVE  LedgerInv'
  BY <1>b DEF LedgerInv, LedgerTruth, Truthful, ReturnsTruth
<1>1. CASE Parent
  BY <1>1, ParentLedger
<1>2. ASSUME NEW s \in Sessions, HandleConfigPush(s)
      PROVE  LedgerInv'
  BY <1>2, CallbackLedger
<1>3. ASSUME NEW s \in Sessions, Resubscribe(s) \/ CloseOld(s)
      PROVE  LedgerInv'
  BY <1>3, <1>b DEF Resubscribe, CloseOld, parentVars, handlerVars, cfgVars
<1>4. ASSUME NEW t \in Threads, Activation(t)
      PROVE  LedgerInv'
  BY <1>4, ActivationLedger
<1>5. CASE Operator
  <2>1. \A u \in Sessions : pc'[u] = pc[u] /\ result'[u] = result[u]
    BY <1>5, <1>a DEF Operator, put_config, put_rendered_config, PutReturns, Call, Resume, FedTypeOK, CfgTypeOK
  <2> QED
    BY <1>5, <1>b, <2>1 DEF Operator, fedVars, parentVars, handlerVars
<1>6. CASE Router
  BY <1>6, <1>b DEF Router, RouterRestarts, callVars, fedVars, parentVars, handlerVars
<1>7. CASE ChildCrash
  <2>1. \A u \in Sessions : hpc'[u] = "wait"
    BY <1>7 DEF ChildCrash
  <2> QED
    BY <1>7, <2>1 DEF ChildCrash, parentVars, LedgerInv, LedgerTruth, Truthful
<1>8. CASE UNCHANGED vars
  BY <1>8, <1>b DEF vars, cfgVars, fedVars, parentVars, handlerVars
<1> QED
  BY <1>1, <1>2, <1>3, <1>4, <1>5, <1>6, <1>7, <1>8 DEF FedNext

\* The inductive invariant of the composition.
THEOREM FedInvariant == FedSpec => []FedInv
<1>1. FedInit => HandlerInv /\ LedgerInv
  <2>1. FedInit => HandlerInv
    BY FederationAssumption DEF FedInit, CfgInit, HandlerInv
  <2>2. FedInit => LedgerInv
    BY DEF FedInit, LedgerInv, LedgerTruth
  <2> QED
    BY <2>1, <2>2
<1>2. FedTypeOK /\ HandlerInv /\ LedgerInv /\ [FedNext]_<<scene, vars>> => (HandlerInv /\ LedgerInv)'
  BY HandlerStep, LedgerStep
<1>3. FedTypeOK /\ CfgInv /\ HandlerInv /\ LedgerInv => FedInv
  BY DEF FedInv
<1> QED
  BY <1>1, <1>2, <1>3, FedTypes, FedCfgInvariant, PTL DEF FedSpec

\* The ledger of the parent never claims what did not happen at the child, whatever is
\* lost, repeated or overtaken, with any number of overlapping callbacks and with kills
\* at every step (_record_status, _handle_config_push).
THEOREM LedgerIsTrue == FedSpec => []LedgerTruth
<1>1. FedInv => LedgerTruth
  BY DEF FedInv, LedgerInv
<1> QED
  BY <1>1, FedInvariant, PTL

-----------------------------------------------------------------------------
(* One session at a time.  VersionsIncrease is a property of steps; what makes it *)
(* true is that last-seen-version bounds everything activated so far, and that    *)
(* the push at work was found above it before it became it.                       *)

\* Only the sessions of the scene are ever subscribed.
SceneInv ==
  /\ scene \in Scenes
  /\ current \in scene.sessions
  /\ live \subseteq scene.sessions
  /\ \A s \in Sessions \ scene.sessions : inbox[s] = {} /\ hpc[s] = "wait"

\* A push that may still be activated.
Pending(s) == hpc[s] \in {"extract", "protect"} \/ (hpc[s] = "apply" /\ pc[s] \in Undecided)

SeenAt(s) ==
  /\ hpc[s] = "mark" => lastSeen < push[s].version
  /\ hpc[s] \in {"extract", "protect", "apply"} => push[s].version = lastSeen
  /\ Pending(s) => \A u \in activated : u < push[s].version

SeenInv ==
  Cardinality(scene.sessions) = 1 =>
    /\ \A u \in activated : u <= lastSeen
    /\ \A s \in Sessions : SeenAt(s)

\* Every step keeps to the sessions of the scene.
LEMMA SceneStep ==
  ASSUME FedTypeOK, SceneInv, [FedNext]_<<scene, vars>>
  PROVE  SceneInv'
<1>a. /\ inbox \in [Sessions -> SUBSET Push]
      /\ hpc \in [Sessions -> {"wait", "replay", "mark", "extract", "protect", "apply", "report"}]
  BY DEF FedTypeOK
<1>b. scene' = scene
  BY DEF FedNext, vars
<1>c. ASSUME UNCHANGED <<live, current>>,
             \A s \in Sessions \ scene.sessions : inbox'[s] = inbox[s] /\ hpc'[s] = hpc[s]
      PROVE  SceneInv'
  BY <1>b, <1>c DEF SceneInv
<1>1. CASE Parent
  <2>1. UNCHANGED <<live, current, hpc>>
    BY <1>1 DEF Parent, CreateRevision, Publish, MarkPending, RecordStatus, sessionVars, handlerVars
  <2>2. \A s \in Sessions \ scene.sessions : inbox'[s] = inbox[s]
    BY <1>1, <1>a DEF Parent, CreateRevision, Publish, MarkPending, RecordStatus, sessionVars, SceneInv
  <2> QED
    BY <1>c, <2>1, <2>2
<1>2. ASSUME NEW s \in Sessions, HandleConfigPush(s)
      PROVE  SceneInv'
  <2>1. s \in scene.sessions
    BY <1>2 DEF SceneInv, HandleConfigPush, CheckReplay, MarkSeen, Extract, Protect, Applied, PublishStatusFresh
  <2>2. \A u \in Sessions \ {s} : inbox'[u] = inbox[u]
    BY <1>2, <1>a DEF HandleConfigPush, Receive, CheckReplay, MarkSeen, Extract, Protect, Applied,
       PublishStatusFresh, sessionVars
  <2> QED
    BY <1>2, <1>c, <2>1, <2>2, CallbackFrame DEF OthersKept
<1>3. ASSUME NEW s \in Sessions, Resubscribe(s)
      PROVE  SceneInv'
  BY <1>3, <1>b DEF Resubscribe, handlerVars, SceneInv
<1>4. ASSUME NEW s \in Sessions, CloseOld(s)
      PROVE  SceneInv'
  BY <1>4, <1>a, <1>b DEF CloseOld, handlerVars, SceneInv
<1>5. ASSUME NEW t \in Threads, Activation(t)
      PROVE  SceneInv'
  BY <1>5, <1>c DEF Activation, handlerVars
<1>6. CASE Operator \/ Router \/ UNCHANGED vars
  BY <1>6, <1>c DEF Operator, Router, vars, fedVars, sessionVars, handlerVars
<1>7. CASE ChildCrash
  BY <1>7, <1>b DEF ChildCrash, SceneInv
<1> QED
  BY <1>1, <1>2, <1>3, <1>4, <1>5, <1>6, <1>7 DEF FedNext

\* A scene of one session has one callback at work.
LEMMA OnlySession ==
  ASSUME SceneInv, Cardinality(scene.sessions) = 1, NEW s \in Sessions, NEW u \in Sessions,
         s \in scene.sessions, u # s
  PROVE  hpc[u] = "wait" /\ inbox[u] = {}
<1>1. IsFiniteSet(scene.sessions)
  <2>1. scene.sessions \in SUBSET Sessions
    BY FederationAssumption DEF SceneInv
  <2> QED
    BY <2>1, FederationAssumption, FS_Subset
<1>2. PICK x : scene.sessions = {x}
  BY <1>1, FS_Singleton
<1> QED
  BY <1>2 DEF SceneInv

\* A thread past its health proof can no longer be undecided.
LEMMA ApplyDecides ==
  ASSUME CfgTypeOK, NEW t \in Threads, apply_rendered_config(t)
  PROVE  /\ pc'[t] \in Undecided => pc[t] \in Undecided
         /\ Commits(t) => pc[t] \in Undecided /\ pc'[t] \notin Undecided
<1> USE DEF CfgTypeOK, Commits, Undecided
<1>1. CASE Acquire(t) \/ Check(t)
  BY <1>1 DEF Acquire, Check, Return
<1>2. CASE SaveLastKnownGood(t)
  BY <1>2 DEF SaveLastKnownGood, Goto, Return
<1>3. CASE WriteCandidate(t, "config", "prefix")
  BY <1>3 DEF WriteCandidate, Goto, Restore
<1>4. CASE WriteCandidate(t, "prefix", "pub")
  BY <1>4 DEF WriteCandidate, Goto, Restore
<1>5. CASE WriteCandidate(t, "pub", "restart")
  BY <1>5 DEF WriteCandidate, Goto, Restore
<1>6. CASE Restart(t)
  BY <1>6 DEF Restart, Goto, Restore
<1>7. CASE Health(t) \/ Link(t)
  BY <1>7 DEF Health, Link, Commit, Goto, Return, Restore
<1>8. CASE WriteBack(t, "config", "back_config", "back_prefix")
  BY <1>8 DEF WriteBack, Goto, Return
<1>9. CASE WriteBack(t, "prefix", "back_prefix", "back_pub")
  BY <1>9 DEF WriteBack, Goto, Return
<1>10. CASE WriteBack(t, "pub", "back_pub", "restored")
  BY <1>10 DEF WriteBack, Restored, Goto, Return
<1>11. CASE Rerestart(t) \/ Rehealth(t) \/ RestartNatives(t) \/ DockerRaises(t)
  BY <1>11 DEF Rerestart, Rehealth, RestartNatives, DockerRaises, Goto, Return
<1> QED
  BY <1>1, <1>2, <1>3, <1>4, <1>5, <1>6, <1>7, <1>8, <1>9, <1>10, <1>11 DEF apply_rendered_config

\* Versions are compared as integers.
LEMMA VersionNumbers ==
  ASSUME FedTypeOK
  PROVE  lastSeen \in Int /\ activated \subseteq Int /\ \A s \in Sessions : push[s].version \in Int
<1>1. Versions \subseteq Int
  BY FederationAssumption
<1>2. lastSeen \in Int
  BY <1>1 DEF FedTypeOK
<1>3. activated \subseteq Int
  BY <1>1 DEF FedTypeOK
<1>4. \A s \in Sessions : push[s].version \in Int
  BY <1>1 DEF FedTypeOK, Push
<1> QED
  BY <1>2, <1>3, <1>4

\* A step of the one callback keeps to the last version seen.
LEMMA CallbackSeen ==
  ASSUME FedTypeOK, HandlerInv, SceneInv, SeenInv, Cardinality(scene.sessions) = 1,
         NEW s \in Sessions, HandleConfigPush(s)
  PROVE  (\A u \in activated : u <= lastSeen)' /\ \A u \in Sessions : SeenAt(u)'
<1>a. /\ hpc \in [Sessions -> {"wait", "replay", "mark", "extract", "protect", "apply", "report"}]
      /\ push \in [Sessions -> Push] /\ pc \in [Threads -> PCs] /\ Sessions \subseteq Threads
      /\ lastSeen \in Int /\ activated \subseteq Int /\ push[s].version \in Int
  BY VersionNumbers, FederationAssumption DEF FedTypeOK, CfgTypeOK
<1>b. (\A u \in activated : u <= lastSeen) /\ SeenAt(s)
  BY DEF SeenInv
<1>c. OthersKept(s) /\ activated' = activated
  BY CallbackFrame DEF OthersKept
<1>d. s \in scene.sessions
  BY DEF SceneInv, HandleConfigPush, CheckReplay, MarkSeen, Extract, Protect, Applied, PublishStatusFresh
<1>e. ASSUME NEW u \in Sessions \ {s}
      PROVE  SeenAt(u)'
  <2>1. hpc'[u] = "wait"
    BY <1>c, <1>d, OnlySession DEF OthersKept
  <2> QED
    BY <2>1 DEF SeenAt, Pending
<1>f. SUFFICES (\A u \in activated : u <= lastSeen') /\ SeenAt(s)'
  BY <1>c, <1>e
<1>g. Finish(s) => hpc'[s] = "wait"
  BY <1>a DEF Finish
<1>h. hpc'[s] \in {"wait", "replay", "report"} => SeenAt(s)'
  BY DEF SeenAt, Pending
<1>1. ASSUME NEW m \in inbox[s], Receive(s, m)
      PROVE  (\A u \in activated : u <= lastSeen') /\ SeenAt(s)'
  BY <1>1, <1>a, <1>b, <1>h DEF Receive
<1>2. CASE CheckReplay(s)
  <2>1. CASE push[s].version <= lastSeen
    BY <1>2, <2>1, <1>b, <1>g, <1>h DEF CheckReplay, Reject
  <2>2. CASE ~(push[s].version <= lastSeen)
    <3>1. hpc'[s] = "mark" /\ push' = push /\ lastSeen' = lastSeen
      BY <1>2, <2>2, <1>a DEF CheckReplay
    <3>2. lastSeen < push[s].version
      BY <2>2, <1>a
    <3> QED
      BY <3>1, <3>2, <1>b DEF SeenAt, Pending
  <2> QED
    BY <2>1, <2>2
<1>3. CASE MarkSeen(s)
  <2>1. CASE Finish(s) /\ UNCHANGED lastSeen
    BY <2>1, <1>b, <1>g, <1>h
  <2>2. CASE lastSeen' = push[s].version /\ hpc' = [hpc EXCEPT ![s] = "extract"] /\ push' = push
    <3>1. lastSeen < push[s].version /\ hpc'[s] = "extract"
      BY <1>3, <2>2, <1>a, <1>b DEF MarkSeen, SeenAt
    <3>2. \A u \in activated : u < push[s].version /\ u <= push[s].version
      BY <3>1, <1>a, <1>b
    <3> QED
      BY <2>2, <3>1, <3>2, <1>c DEF SeenAt, Pending
  <2> QED
    BY <1>3, <2>1, <2>2 DEF MarkSeen
<1>4. CASE Extract(s)
  <2>1. lastSeen' = lastSeen /\ (hpc'[s] = "wait" \/ (hpc[s] = "extract" /\ hpc'[s] = "protect" /\ push' = push))
    BY <1>4, <1>a, <1>g DEF Extract, Reject
  <2> QED
    BY <2>1, <1>b, <1>c, <1>h DEF SeenAt, Pending
<1>5. CASE Protect(s)
  <2>1. lastSeen' = lastSeen /\ (hpc'[s] = "wait" \/ (hpc[s] = "protect" /\ hpc'[s] = "apply" /\ push' = push))
    BY <1>5, <1>a, <1>g DEF Protect, Reject
  <2> QED
    BY <2>1, <1>b, <1>c, <1>h DEF SeenAt, Pending
<1>6. CASE Applied(s) \/ PublishStatusFresh(s)
  <2>1. lastSeen' = lastSeen /\ hpc'[s] \in {"wait", "report"}
    BY <1>6, <1>a, <1>g DEF Applied, PublishStatusFresh
  <2> QED
    BY <2>1, <1>b, <1>h
<1> QED
  BY <1>1, <1>2, <1>3, <1>4, <1>5, <1>6 DEF HandleConfigPush

\* Every step keeps to the last version seen.
LEMMA SeenStep ==
  ASSUME FedTypeOK, HandlerInv, SceneInv, SeenInv, [FedNext]_<<scene, vars>>
  PROVE  SeenInv'
<1>a. /\ pc \in [Threads -> PCs] /\ Sessions \subseteq Threads /\ Sessions \cap Locals = {}
      /\ CfgTypeOK /\ scene' = scene
  BY FederationAssumption DEF FedTypeOK, CfgTypeOK, FedNext, vars
<1> SUFFICES ASSUME Cardinality(scene.sessions) = 1
             PROVE  (\A u \in activated : u <= lastSeen)' /\ \A u \in Sessions : SeenAt(u)'
  BY <1>a DEF SeenInv
<1>b. (\A u \in activated : u <= lastSeen) /\ \A u \in Sessions : SeenAt(u)
  BY DEF SeenInv
<1>c. ASSUME UNCHANGED <<hpc, push, lastSeen, activated>>,
             \A u \in Sessions : pc'[u] \in Undecided => pc[u] \in Undecided \/ hpc[u] # "apply"
      PROVE  (\A u \in activated : u <= lastSeen)' /\ \A u \in Sessions : SeenAt(u)'
  BY <1>b, <1>c DEF SeenAt, Pending
<1>1. CASE Parent
  BY <1>1, <1>c DEF Parent, CreateRevision, Publish, MarkPending, RecordStatus, cfgVars, handlerVars
<1>2. ASSUME NEW s \in Sessions, HandleConfigPush(s)
      PROVE  (\A u \in activated : u <= lastSeen)' /\ \A u \in Sessions : SeenAt(u)'
  BY <1>2, CallbackSeen
<1>3. ASSUME NEW s \in Sessions, Resubscribe(s) \/ CloseOld(s)
      PROVE  (\A u \in activated : u <= lastSeen)' /\ \A u \in Sessions : SeenAt(u)'
  BY <1>3, <1>c DEF Resubscribe, CloseOld, cfgVars, handlerVars
<1>4. ASSUME NEW t \in Threads, Activation(t)
      PROVE  (\A u \in activated : u <= lastSeen)' /\ \A u \in Sessions : SeenAt(u)'
  <2>a. apply_rendered_config(t) /\ UNCHANGED <<hpc, push, lastSeen>>
    BY <1>4 DEF Activation, handlerVars
  <2>b. \A u \in Sessions : pc'[u] \in Undecided => pc[u] \in Undecided
    BY <1>a, <2>a, ApplyNotIdle, ApplyDecides
  <2>1. CASE t \in Sessions /\ Commits(t)
    <3>1. hpc[t] = "apply" /\ pc'[t] \notin Undecided /\ t \in scene.sessions
      BY <2>1, <2>a, <1>a, ApplyDecides, ApplyNotIdle DEF HandlerInv, SceneInv
    <3>2. push[t].version = lastSeen
      BY <3>1, <2>1, <1>b DEF SeenAt
    <3>3. activated' = activated \cup {lastSeen}
      BY <1>4, <2>1, <3>2 DEF Activation
    <3>4. lastSeen \in Int
      BY FederationAssumption DEF FedTypeOK
    <3>5. (\A u \in activated : u <= lastSeen)'
      BY <1>b, <2>a, <3>3, <3>4
    <3>6. SeenAt(t)'
      BY <3>1, <3>2, <2>a DEF SeenAt, Pending
    <3>7. ASSUME NEW u \in Sessions \ {t}
          PROVE  SeenAt(u)'
      <4>1. hpc'[u] = "wait"
        BY <2>1, <2>a, <3>1, OnlySession
      <4> QED
        BY <4>1 DEF SeenAt, Pending
    <3> QED
      BY <3>5, <3>6, <3>7
  <2>2. CASE ~(t \in Sessions /\ Commits(t))
    <3>1. activated' = activated
      BY <1>4, <2>2 DEF Activation
    <3> QED
      BY <1>c, <2>a, <2>b, <3>1
  <2> QED
    BY <2>1, <2>2
<1>5. CASE Operator
  <2>1. \A u \in Sessions : pc'[u] = pc[u]
    BY <1>5, <1>a DEF Operator, put_config, put_rendered_config, PutReturns, Call, Resume
  <2> QED
    BY <1>5, <1>c, <2>1 DEF Operator, fedVars, handlerVars
<1>6. CASE Router \/ UNCHANGED vars
  BY <1>6, <1>c DEF Router, RouterRestarts, callVars, vars, cfgVars, fedVars, handlerVars
<1>7. CASE ChildCrash
  BY <1>7, <1>b DEF ChildCrash, SeenAt, Pending
<1> QED
  BY <1>1, <1>2, <1>3, <1>4, <1>5, <1>6, <1>7 DEF FedNext

\* Both invariants hold throughout.
THEOREM SessionInvariant == FedSpec => [](SceneInv /\ SeenInv)
<1>1. FedInit => SceneInv /\ SeenInv
  BY DEF FedInit, SceneInv, SeenInv, SeenAt, Pending
<1>2. FedInv /\ SceneInv /\ SeenInv /\ [FedNext]_<<scene, vars>> => (SceneInv /\ SeenInv)'
  BY SceneStep, SeenStep DEF FedInv
<1> QED
  BY <1>1, <1>2, FedInvariant, PTL DEF FedSpec

\* No push is activated after a push of the same or of a later version, as long as one
\* session at a time delivers: through replays, delays and kills, and beside any number
\* of local requests (the replay check of _handle_config_push).
THEOREM NoStaleActivation == FedSpec => VersionsIncrease
<1>1. ASSUME FedInv, SceneInv, SeenInv, [FedNext]_<<scene, vars>>, Cardinality(scene.sessions) = 1,
             NEW s \in Sessions, Commits(s)
      PROVE  \A u \in activated : u < push[s].version
  <2>1. pc[s] \in Undecided /\ pc[s] # "idle"
    BY <1>1 DEF Commits, Undecided
  <2>2. hpc[s] = "apply"
    BY <1>1, <2>1 DEF FedInv, HandlerInv
  <2> QED
    BY <1>1, <2>1, <2>2 DEF SeenInv, SeenAt, Pending
<1>2. FedInv /\ SceneInv /\ SeenInv /\ [FedNext]_<<scene, vars>> =>
        [Cardinality(scene.sessions) = 1 =>
           \A s \in Sessions : Commits(s) => \A u \in activated : u < push[s].version]_vars
  BY <1>1
<1> QED
  BY <1>2, FedInvariant, SessionInvariant, PTL DEF FedSpec, VersionsIncrease

-----------------------------------------------------------------------------
(* One session and no local operator.  The candidate of a push is compared with *)
(* the files before the lock is taken; nobody else can have changed them by the *)
(* time they are saved.                                                         *)

\* Candidate c under prefix p may replace the files f.
MayReplace(f, c, p) ==
  f.config \in Configs =>
    /\ p = f.prefix
    /\ Ident[c] = Ident[f.config]
    /\ Fabric[f.config] = {} \/ Fabric[f.config] \cap Fabric[c] # {}

\* The candidate of t was compared with the files that are there, or that it saved.
GuardAt(t) ==
  /\ pc[t] \in {"call", "check"} => MayReplace(disk, job[t].config, job[t].prefix)
  /\ pc[t] \in Undecided \ {"call", "check"} => MayReplace(prev[t], job[t].config, job[t].prefix)

GuardInv ==
  Alone => /\ \A t \in Threads \ scene.sessions : pc[t] = "idle"
           /\ \A t \in Threads : GuardAt(t)

\* What is compared stays what is replaced.
LEMMA ApplyGuard ==
  ASSUME CfgTypeOK, NEW t \in Threads, apply_rendered_config(t), GuardAt(t)
  PROVE  GuardAt(t)'
<1>a. pc \in [Threads -> PCs] /\ prev \in [Threads -> Files]
  BY DEF CfgTypeOK
<1> USE DEF GuardAt, Undecided, MayReplace, fileVars
<1>1. CASE Acquire(t)
  BY <1>1, <1>a DEF Acquire
<1>2. CASE Check(t)
  BY <1>2, <1>a DEF Check, Return
<1>3. CASE SaveLastKnownGood(t)
  BY <1>3, <1>a DEF SaveLastKnownGood, Goto, Return
<1>4. CASE WriteCandidate(t, "config", "prefix")
  BY <1>4, <1>a DEF WriteCandidate, Goto, Restore
<1>5. CASE WriteCandidate(t, "prefix", "pub")
  BY <1>5, <1>a DEF WriteCandidate, Goto, Restore
<1>6. CASE WriteCandidate(t, "pub", "restart")
  BY <1>6, <1>a DEF WriteCandidate, Goto, Restore
<1>7. CASE Restart(t)
  BY <1>7, <1>a DEF Restart, Goto, Restore
<1>8. CASE Health(t) \/ Link(t)
  BY <1>8, <1>a DEF Health, Link, Commit, Goto, Return, Restore
<1>9. CASE WriteBack(t, "config", "back_config", "back_prefix")
  BY <1>9, <1>a DEF WriteBack, Goto, Return
<1>10. CASE WriteBack(t, "prefix", "back_prefix", "back_pub")
  BY <1>10, <1>a DEF WriteBack, Goto, Return
<1>11. CASE WriteBack(t, "pub", "back_pub", "restored")
  BY <1>11, <1>a DEF WriteBack, Restored, Goto, Return
<1>12. CASE Rerestart(t) \/ Rehealth(t) \/ RestartNatives(t) \/ DockerRaises(t)
  BY <1>12, <1>a DEF Rerestart, Rehealth, RestartNatives, DockerRaises, Goto, Return
<1> QED
  BY <1>1, <1>2, <1>3, <1>4, <1>5, <1>6, <1>7, <1>8, <1>9, <1>10, <1>11, <1>12 DEF apply_rendered_config

\* Every step keeps the comparison valid.
LEMMA GuardStep ==
  ASSUME FedTypeOK, HandlerInv, SceneInv, GuardInv, [FedNext]_<<scene, vars>>
  PROVE  GuardInv'
<1>a. /\ pc \in [Threads -> PCs] /\ job \in [Threads -> Candidate] /\ Sessions \subseteq Threads
      /\ CfgTypeOK /\ scene' = scene /\ scene.sessions \subseteq Sessions
  BY FederationAssumption DEF FedTypeOK, CfgTypeOK, FedNext, vars, SceneInv
<1> SUFFICES ASSUME Alone
             PROVE  /\ \A t \in Threads \ scene.sessions : pc'[t] = "idle"
                    /\ \A t \in Threads : GuardAt(t)'
  BY <1>a DEF GuardInv, Alone
<1>b. (\A t \in Threads \ scene.sessions : pc[t] = "idle") /\ \A t \in Threads : GuardAt(t)
  BY DEF GuardInv
<1>c. \A s, u \in scene.sessions : s = u
  <2>1. IsFiniteSet(scene.sessions)
    BY <1>a, FederationAssumption, FS_Subset
  <2>2. PICK x : scene.sessions = {x}
    BY <2>1, FS_Singleton DEF Alone
  <2> QED
    BY <2>2
\* Only the one session moves, and its comparison stays valid.
<1>d. ASSUME NEW s \in scene.sessions, \A u \in Threads \ {s} : pc'[u] = pc[u], GuardAt(s)'
      PROVE  /\ \A t \in Threads \ scene.sessions : pc'[t] = "idle"
             /\ \A t \in Threads : GuardAt(t)'
  <2>1. \A t \in Threads \ scene.sessions : pc'[t] = "idle"
    BY <1>b, <1>d
  <2>2. ASSUME NEW t \in Threads \ {s}
        PROVE  GuardAt(t)'
    <3>1. pc'[t] = "idle"
      BY <1>b, <1>c, <1>d
    <3> QED
      BY <3>1 DEF GuardAt, Undecided
  <2> QED
    BY <1>d, <2>1, <2>2
<1>e. ASSUME UNCHANGED <<disk, pc, job, prev>>
      PROVE  /\ \A t \in Threads \ scene.sessions : pc'[t] = "idle"
             /\ \A t \in Threads : GuardAt(t)'
  BY <1>b, <1>e DEF GuardAt, MayReplace
<1>1. CASE Parent
  BY <1>1, <1>e DEF Parent, CreateRevision, Publish, MarkPending, RecordStatus, cfgVars
<1>2. ASSUME NEW s \in Sessions, HandleConfigPush(s)
      PROVE  /\ \A t \in Threads \ scene.sessions : pc'[t] = "idle"
             /\ \A t \in Threads : GuardAt(t)'
  <2>1. s \in scene.sessions
    BY <1>2 DEF SceneInv, HandleConfigPush, CheckReplay, MarkSeen, Extract, Protect, Applied, PublishStatusFresh
  <2>2. \A u \in Threads \ {s} : pc'[u] = pc[u]
    BY <1>2, CallbackFrame DEF OthersKept
  <2>3. CASE UNCHANGED cfgVars
    BY <2>3, <1>e DEF cfgVars
  <2>4. CASE Applied(s)
    <3>1. pc'[s] = "idle"
      BY <2>4, <1>a DEF Applied, Resume
    <3>2. GuardAt(s)'
      BY <3>1 DEF GuardAt, Undecided
    <3> QED
      BY <1>d, <2>1, <2>2, <3>2
  <2>5. CASE Protect(s) /\ Permitted(push[s].config, fields[s].prefix)
    <3>1. pc'[s] = "call" /\ disk' = disk
      BY <2>5, <1>a DEF Protect, Call, fileVars
    <3>2. job'[s].config = push[s].config /\ job'[s].prefix = fields[s].prefix
      BY <2>5, <1>a DEF Protect, Call
    <3>3. GuardAt(s)'
      BY <2>5, <3>1, <3>2 DEF GuardAt, MayReplace, Permitted, Undecided
    <3> QED
      BY <1>d, <2>1, <2>2, <3>3
  <2> QED
    BY <1>2, <2>3, <2>4, <2>5 DEF HandleConfigPush, Receive, CheckReplay, MarkSeen, Extract, Protect,
       PublishStatusFresh
<1>3. ASSUME NEW s \in Sessions, Resubscribe(s) \/ CloseOld(s)
      PROVE  UNCHANGED <<disk, pc, job, prev>>
  BY <1>3 DEF Resubscribe, CloseOld, cfgVars
<1>4. ASSUME NEW t \in Threads, Activation(t)
      PROVE  /\ \A u \in Threads \ scene.sessions : pc'[u] = "idle"
             /\ \A u \in Threads : GuardAt(u)'
  <2>1. apply_rendered_config(t)
    BY <1>4 DEF Activation
  <2>2. pc[t] # "idle" /\ \A u \in Threads \ {t} : pc'[u] = pc[u]
    BY <1>a, <2>1, ApplyNotIdle
  <2>3. t \in scene.sessions
    BY <1>b, <2>2
  <2>4. GuardAt(t)'
    BY <1>a, <1>b, <2>1, ApplyGuard
  <2> QED
    BY <1>d, <2>2, <2>3, <2>4
<1>5. ~ Operator
  BY DEF Operator, Alone
<1>6. CASE Router \/ UNCHANGED vars
  BY <1>6, <1>e DEF Router, RouterRestarts, callVars, vars, cfgVars
<1>7. CASE ChildCrash
  <2>1. \A t \in Threads : pc'[t] = "idle"
    BY <1>7 DEF ChildCrash, AdminCrash
  <2> QED
    BY <2>1 DEF GuardAt, Undecided
<1> QED
  BY <1>1, <1>2, <1>3, <1>4, <1>5, <1>6, <1>7, <1>e DEF FedNext

\* A push cannot change identity, ports, profile, name policy or control prefix of the
\* child, and shares an endpoint with what it replaces, where a push is all that can
\* change the configuration: with any number of pushes and with kills at every step
\* (_federated_candidate_error and docs/12-zenoh-admin-gui.md).
THEOREM PushesAreGuarded == FedSpec => ProtectedSettings
<1>1. FedInit => GuardInv
  BY DEF FedInit, CfgInit, GuardInv, GuardAt, Undecided
<1>2. FedInv /\ SceneInv /\ GuardInv /\ [FedNext]_<<scene, vars>> => GuardInv'
  BY GuardStep DEF FedInv
<1>3. ASSUME FedInv, GuardInv, Alone, NEW s \in Sessions, Commits(s)
      PROVE  KeepsSettings(s)
  <2>1. s \in Threads
    BY FederationAssumption
  <2>2. disk = Wanted(s)
    BY <1>3, <2>1 DEF FedInv, CfgInv, HolderInv, FilesAt, Commits
  <2>3. MayReplace(prev[s], job[s].config, job[s].prefix)
    BY <1>3, <2>1 DEF GuardInv, GuardAt, Undecided, Commits
  <2>4. disk.prefix = job[s].prefix /\ disk.config = job[s].config
    BY <2>2 DEF Wanted
  <2> QED
    BY <1>3, <2>3, <2>4 DEF MayReplace, KeepsSettings
<1>4. FedInv /\ GuardInv => [Alone => \A s \in Sessions : Commits(s) => KeepsSettings(s)]_vars
  BY <1>3
<1> QED
  BY <1>1, <1>2, <1>4, FedInvariant, SessionInvariant, PTL DEF FedSpec, ProtectedSettings

-----------------------------------------------------------------------------
(* One session and a clock that increases: a version belongs to one row, is     *)
(* queued and handled at most once, and all that is ever said of it is the same. *)

\* The push of version v has been put.
Sent(v) == \E r \in 1..pushed : rows[r].version = v /\ rows[r].phase # "create"

\* The ledger has version v in the final state g.
Told(v, g) == \E r \in 1..pushed : rows[r].version = v /\ rows[r].state = g

\* The final state a status leads to.
StateFor(h) == IF h = "ok" THEN "applied" ELSE h

\* Nothing was said of v yet; or nothing but h.
Silent(v) == (\A g \in FinalStates : ~Told(v, g)) /\ \A st \in statuses : st.version # v
Says(v, h) ==
  /\ \A g \in FinalStates : Told(v, g) => g = StateFor(h)
  /\ \A st \in statuses : st.version = v => st.health = h

RowsOnce ==
  /\ \A q, r \in 1..pushed : q < r => rows[q].version < rows[r].version
  /\ \A r \in 1..pushed : rows[r].state \in FinalStates => rows[r].phase # "create"
StatusOnce == \A st \in statuses : Sent(st.version) /\ Says(st.version, st.health)
QueueOnce(s) ==
  \A m \in inbox[s] :
    /\ Sent(m.version) /\ Silent(m.version)
    /\ hpc[s] # "wait" => push[s].version # m.version
    /\ \A n \in inbox[s] : n.version = m.version => n = m
WorkOnce(s) ==
  /\ hpc[s] # "wait" => Sent(push[s].version)
  /\ hpc[s] \notin {"wait", "report"} => Silent(push[s].version)
  /\ hpc[s] = "report" => Says(push[s].version, report[s].health)

Once == RowsOnce /\ StatusOnce /\ \A s \in Sessions : QueueOnce(s) /\ WorkOnce(s)

OnceInv == Orderly => Once

\* Steps that touch neither ledger, network nor callbacks keep it.
LEMMA OnceKept ==
  ASSUME Once, UNCHANGED <<rows, pushed, statuses, hpc, push, report>>,
         \A s \in Sessions : inbox'[s] \subseteq inbox[s]
  PROVE  Once'
<1>1. RowsOnce' /\ StatusOnce'
  BY DEF Once, RowsOnce, StatusOnce, Sent, Says, Told
<1>2. ASSUME NEW s \in Sessions
      PROVE  QueueOnce(s)' /\ WorkOnce(s)'
  BY DEF Once, QueueOnce, WorkOnce, Sent, Says, Silent, Told
<1> QED
  BY <1>1, <1>2 DEF Once

\* A version names its row.
LEMMA OneRow ==
  ASSUME FedTypeOK, RowsOnce, NEW q \in 1..pushed, NEW r \in 1..pushed, rows[q].version = rows[r].version
  PROVE  q = r
<1>1. rows[q].version \in Int /\ rows[r].version \in Int /\ q \in Int /\ r \in Int
  <2>1. q \in 1..MaxPushes /\ r \in 1..MaxPushes
    BY FederationAssumption DEF FedTypeOK
  <2>2. rows[q].version \in Versions /\ rows[r].version \in Versions
    BY <2>1 DEF FedTypeOK, Row
  <2>3. Versions \subseteq Int /\ MaxPushes \in Nat
    BY FederationAssumption
  <2>4. rows[q].version \in Int /\ rows[r].version \in Int
    BY <2>2, <2>3, Zenon
  <2>5. q \in Int /\ r \in Int
    BY <2>1
  <2> QED
    BY <2>4, <2>5
<1>2. ~(q < r) /\ ~(r < q)
  BY <1>1 DEF RowsOnce
<1> QED
  BY <1>1, <1>2

\* A status that repeats what was said, or says the first thing, keeps it so.
LEMMA SendOnce ==
  ASSUME StatusOnce, NEW v, NEW h, Sent(v), Says(v, h), Send([version |-> v, health |-> h]),
         UNCHANGED <<rows, pushed>>
  PROVE  /\ StatusOnce' /\ Says(v, h)'
         /\ \A w : w # v /\ Silent(w) => Silent(w)'
<1>1. \A w : (Sent(w)' <=> Sent(w)) /\ (\A g \in FinalStates : Told(w, g)' <=> Told(w, g))
  BY DEF Sent, Told
<1>2. \A st \in statuses' : st \in statuses \/ (st.version = v /\ st.health = h)
  BY DEF Send
<1>3. Says(v, h)'
  BY <1>1, <1>2 DEF Says
<1>4. ASSUME NEW st \in statuses'
      PROVE  Sent(st.version)' /\ Says(st.version, st.health)'
  BY <1>1, <1>2, <1>3 DEF StatusOnce, Says
<1>5. ASSUME NEW w, w # v, Silent(w)
      PROVE  Silent(w)'
  BY <1>1, <1>2, <1>5 DEF Silent
<1> QED
  BY <1>3, <1>4, <1>5 DEF StatusOnce

\* Who was silent may say anything.
LEMMA SilentSays == \A v, h : Silent(v) => Says(v, h)
  BY DEF Silent, Says

\* A new row is stamped above all others and nothing is said of it.
LEMMA CreateOnce ==
  ASSUME FedTypeOK, Once, scene.monotone, NEW v \in Versions, NEW c \in Pushable, CreateRevision(v, c)
  PROVE  Once'
<1>a. /\ rows \in [1..MaxPushes -> Row] /\ pushed \in 0..MaxPushes /\ MaxPushes \in Nat
      /\ pushed < MaxPushes /\ pushed' = pushed + 1
      /\ UNCHANGED <<statuses, inbox, hpc, push, report>>
  BY FederationAssumption DEF FedTypeOK, CreateRevision, sessionVars, handlerVars
<1>b. /\ \A r \in 1..pushed : rows'[r] = rows[r] /\ rows[r].version < v
      /\ rows'[pushed'].version = v /\ rows'[pushed'].phase = "create" /\ rows'[pushed'].state = "validating"
  BY <1>a DEF CreateRevision, Stamp
<1>c. 1..pushed' = 1..pushed \cup {pushed'} /\ pushed' \notin 1..pushed /\ \A r \in 1..pushed : r < pushed'
  BY <1>a
<1>d. \A w : (Sent(w)' <=> Sent(w)) /\ (\A g \in FinalStates : Told(w, g)' <=> Told(w, g))
  BY <1>b, <1>c DEF Sent, Told, FinalStates
<1>e. \A w : Silent(w)' <=> Silent(w)
  BY <1>a, <1>d DEF Silent
<1>f. \A w, h : Says(w, h)' <=> Says(w, h)
  BY <1>a, <1>d DEF Says
<1>1. RowsOnce'
  <2>1. ASSUME NEW q \in 1..pushed', NEW r \in 1..pushed', q < r
        PROVE  rows'[q].version < rows'[r].version
    BY <2>1, <1>a, <1>b, <1>c DEF Once, RowsOnce
  <2>2. ASSUME NEW r \in 1..pushed', rows'[r].state \in FinalStates
        PROVE  rows'[r].phase # "create"
    BY <2>2, <1>b, <1>c DEF Once, RowsOnce, FinalStates
  <2> QED
    BY <2>1, <2>2 DEF RowsOnce
<1>2. StatusOnce'
  BY <1>a, <1>d, <1>f DEF Once, StatusOnce
<1>3. ASSUME NEW s \in Sessions
      PROVE  QueueOnce(s)' /\ WorkOnce(s)'
  <2>1. QueueOnce(s)'
    BY <1>a, <1>d, <1>e DEF Once, QueueOnce
  <2>2. WorkOnce(s)'
    BY <1>a, <1>d, <1>e, <1>f DEF Once, WorkOnce
  <2> QED
    BY <2>1, <2>2
<1> QED
  BY <1>1, <1>2, <1>3 DEF Once

\* A put changes one row, which is then put or failed.
LEMMA RowPublished ==
  ASSUME rows \in [1..MaxPushes -> Row], NEW r \in 1..MaxPushes, Publish(r)
  PROVE  \E x \in Row : /\ rows' = [rows EXCEPT ![r] = x] /\ x.version = rows[r].version
                        /\ x.state \in {rows[r].state, "failed"} /\ x.phase # "create"
<1>1. CASE rows' = [rows EXCEPT ![r].phase = "put"]
  <2>1. [rows[r] EXCEPT !.phase = "put"] \in Row
    BY DEF Row
  <2>2. rows' = [rows EXCEPT ![r] = [rows[r] EXCEPT !.phase = "put"]]
    BY <1>1
  <2> QED
    BY <2>1, <2>2 DEF Row
<1>2. CASE rows' = [rows EXCEPT ![r].phase = "done", ![r].state = "failed"]
  <2>1. [rows[r] EXCEPT !.phase = "done", !.state = "failed"] \in Row
    BY DEF Row, RowStates
  <2>2. rows' = [rows EXCEPT ![r] = [rows[r] EXCEPT !.phase = "done", !.state = "failed"]]
    BY <1>2
  <2> QED
    BY <2>1, <2>2 DEF Row
<1> QED
  BY <1>1, <1>2 DEF Publish

\* The put of a row is the first copy of its version.
LEMMA PublishOnce ==
  ASSUME FedTypeOK, Once, NEW r \in 1..MaxPushes, Publish(r)
  PROVE  Once'
<1>v. PICK v, c : v = rows[r].version /\ c = rows[r].config
  OBVIOUS
<1> DEFINE m == [version |-> v, config |-> c]
<1>a. /\ rows \in [1..MaxPushes -> Row] /\ pushed \in 0..MaxPushes /\ MaxPushes \in Nat
      /\ inbox \in [Sessions -> SUBSET Push] /\ 1..pushed \subseteq 1..MaxPushes
      /\ r \in 1..pushed /\ rows[r].phase = "create"
      /\ UNCHANGED <<statuses, hpc, push, report, pushed>>
  BY FederationAssumption DEF FedTypeOK, Publish, handlerVars
<1>b. /\ \A q \in 1..pushed : rows'[q].version = rows[q].version /\ rows'[q].state \in {rows[q].state, "failed"}
      /\ \A q \in 1..pushed : q # r => rows'[q] = rows[q]
      /\ rows'[r].phase # "create"
  <2>1. \E x \in Row : /\ rows' = [rows EXCEPT ![r] = x] /\ x.version = rows[r].version
                       /\ x.state \in {rows[r].state, "failed"} /\ x.phase # "create"
    BY <1>a, RowPublished
  <2> QED
    BY <1>a, <2>1
<1>c. \A s \in Sessions : inbox'[s] \subseteq inbox[s] \cup {m}
  BY <1>a, <1>v DEF Publish
<1>d. ~Sent(v)
  <2>1. ASSUME NEW q \in 1..pushed, rows[q].version = v
        PROVE  q = r
    BY <2>1, <1>a, <1>v, OneRow DEF Once
  <2> QED
    BY <1>a, <2>1 DEF Sent
<1>e. \A w : (Sent(w) => Sent(w)') /\ (\A g \in FinalStates : Told(w, g)' => Told(w, g))
  BY <1>a, <1>b DEF Sent, Told, FinalStates
<1>f. Sent(v)'
  BY <1>a, <1>b, <1>v DEF Sent
<1>g. Silent(v)
  <2>1. \A g \in FinalStates : ~Told(v, g)
    BY <1>a, <1>d DEF Told, Once, RowsOnce, Sent
  <2>2. \A st \in statuses : st.version # v
    BY <1>d DEF Once, StatusOnce
  <2> QED
    BY <2>1, <2>2 DEF Silent
<1>h. \A w : Silent(w) => Silent(w)'
  BY <1>a, <1>e DEF Silent
<1>i. \A w, h : Says(w, h) => Says(w, h)'
  BY <1>a, <1>e DEF Says
<1>1. RowsOnce'
  BY <1>a, <1>b DEF Once, RowsOnce, FinalStates
<1>2. StatusOnce'
  BY <1>a, <1>e, <1>i DEF Once, StatusOnce
<1>3. ASSUME NEW s \in Sessions
      PROVE  QueueOnce(s)'
  <2>1. m.version = v
    OBVIOUS
  <2>2. (\A n \in inbox[s] : n.version # v) /\ (hpc[s] # "wait" => push[s].version # v)
    BY <1>d DEF Once, QueueOnce, WorkOnce
  <2> HIDE DEF m
  <2>3. ASSUME NEW n \in inbox'[s]
        PROVE  /\ Sent(n.version)' /\ Silent(n.version)'
               /\ hpc'[s] # "wait" => push'[s].version # n.version
               /\ \A o \in inbox'[s] : o.version = n.version => o = n
    <3>a. hpc'[s] = hpc[s] /\ push'[s] = push[s] /\ inbox'[s] \subseteq inbox[s] \cup {m} /\ QueueOnce(s)
      BY <1>a, <1>c DEF Once
    <3>1. CASE n = m
      BY <3>1, <3>a, <1>f, <1>g, <1>h, <2>1, <2>2
    <3>2. CASE n \in inbox[s]
      BY <3>2, <3>a, <1>e, <1>h, <2>1, <2>2 DEF QueueOnce
    <3> QED
      BY <3>1, <3>2, <3>a
  <2> QED
    BY <2>3 DEF QueueOnce
<1>4. ASSUME NEW s \in Sessions
      PROVE  WorkOnce(s)'
  BY <1>a, <1>e, <1>h, <1>i DEF Once, WorkOnce
<1> QED
  BY <1>1, <1>2, <1>3, <1>4 DEF Once

\* Marking a row "pending" unsays at most an acknowledgement.
LEMMA PendingOnce ==
  ASSUME FedTypeOK, Once, NEW r \in 1..MaxPushes, MarkPending(r)
  PROVE  Once'
<1>a. /\ rows \in [1..MaxPushes -> Row] /\ pushed \in 0..MaxPushes /\ MaxPushes \in Nat
      /\ 1..pushed \subseteq 1..MaxPushes
      /\ UNCHANGED <<statuses, inbox, hpc, push, report, pushed>>
  BY FederationAssumption DEF FedTypeOK, MarkPending, handlerVars, sessionVars
<1>b. \A q \in 1..pushed :
        /\ rows'[q].version = rows[q].version /\ rows'[q].state \in {rows[q].state, "pending"}
        /\ rows'[q].phase \in {rows[q].phase, "done"}
  <2>1. [rows[r] EXCEPT !.phase = "done", !.state = "pending"] \in Row
    BY <1>a DEF Row, RowStates
  <2>2. rows' = [rows EXCEPT ![r] = [rows[r] EXCEPT !.phase = "done", !.state = "pending"]]
    BY <1>a DEF MarkPending
  <2> QED
    BY <1>a, <2>1, <2>2 DEF Row
<1>c. \A w : (Sent(w) => Sent(w)') /\ (\A g \in FinalStates : Told(w, g)' => Told(w, g))
  BY <1>a, <1>b DEF Sent, Told, FinalStates
<1>d. \A w : Silent(w) => Silent(w)'
  BY <1>a, <1>c DEF Silent
<1>e. \A w, h : Says(w, h) => Says(w, h)'
  BY <1>a, <1>c DEF Says
<1>1. RowsOnce'
  BY <1>a, <1>b DEF Once, RowsOnce, FinalStates
<1>2. StatusOnce'
  BY <1>a, <1>c, <1>e DEF Once, StatusOnce
<1>3. ASSUME NEW s \in Sessions
      PROVE  QueueOnce(s)' /\ WorkOnce(s)'
  <2>1. QueueOnce(s)'
    BY <1>a, <1>c, <1>d DEF Once, QueueOnce
  <2>2. WorkOnce(s)'
    BY <1>a, <1>c, <1>d, <1>e DEF Once, WorkOnce
  <2> QED
    BY <2>1, <2>2
<1> QED
  BY <1>1, <1>2, <1>3 DEF Once

\* Recording a status makes the ledger say what the status said.
LEMMA RecordOnce ==
  ASSUME FedTypeOK, Once, NEW st \in Status, RecordStatus(st)
  PROVE  Once'
<1>a. /\ rows \in [1..MaxPushes -> Row] /\ pushed \in 0..MaxPushes /\ MaxPushes \in Nat
      /\ 1..pushed \subseteq 1..MaxPushes
      /\ st \in statuses /\ statuses' = statuses \ {st}
      /\ UNCHANGED <<inbox, hpc, push, report, pushed>>
  BY FederationAssumption DEF FedTypeOK, RecordStatus, handlerVars, sessionVars
<1>b. Sent(st.version) /\ Says(st.version, st.health) /\ st.health \in Healths
  BY <1>a DEF Once, StatusOnce, Status
<1>c. \A q \in 1..pushed :
        /\ rows'[q].version = rows[q].version /\ rows'[q].phase = rows[q].phase
        /\ \/ rows'[q].state = rows[q].state
           \/ /\ rows[q].version = st.version
              /\ rows'[q].state = StateFor(st.health)
  BY <1>a, <1>b DEF RecordStatus, NewestRow, Row, Healths, StateFor
<1>d. \A w : (Sent(w)' <=> Sent(w)) /\ (\A g \in FinalStates : Told(w, g)' => Told(w, g) \/ (w = st.version /\ g = StateFor(st.health)))
  BY <1>a, <1>c DEF Sent, Told
<1>e. \A w : Silent(w) => Silent(w)'
  BY <1>a, <1>d DEF Silent
<1>f. \A w, h : Says(w, h) => Says(w, h)'
  BY <1>a, <1>d DEF Says
<1>1. RowsOnce'
  <2>1. ASSUME NEW q \in 1..pushed, rows[q].version = st.version
        PROVE  rows[q].phase # "create"
    BY <1>a, <1>b, <2>1, OneRow DEF Sent, Once
  <2> QED
    BY <1>a, <1>c, <2>1 DEF Once, RowsOnce
<1>2. StatusOnce'
  BY <1>a, <1>d, <1>f DEF Once, StatusOnce
<1>3. ASSUME NEW s \in Sessions
      PROVE  QueueOnce(s)' /\ WorkOnce(s)'
  <2>1. QueueOnce(s)'
    BY <1>a, <1>d, <1>e DEF Once, QueueOnce
  <2>2. WorkOnce(s)'
    BY <1>a, <1>d, <1>e, <1>f DEF Once, WorkOnce
  <2> QED
    BY <2>1, <2>2
<1> QED
  BY <1>1, <1>2, <1>3 DEF Once

\* The one callback takes each version out of the queue once, and says one thing of it.
LEMMA CallbackOnce ==
  ASSUME FedTypeOK, Once, SceneInv, Cardinality(scene.sessions) = 1, NEW s \in Sessions, HandleConfigPush(s)
  PROVE  Once'
<1>a. /\ hpc \in [Sessions -> {"wait", "replay", "mark", "extract", "protect", "apply", "report"}]
      /\ push \in [Sessions -> Push] /\ inbox \in [Sessions -> SUBSET Push]
      /\ report \in [Sessions -> [health : Healths, left : 0..StatusAttempts]]
  BY DEF FedTypeOK
<1>b. RowsOnce /\ StatusOnce /\ QueueOnce(s) /\ WorkOnce(s)
  BY DEF Once
<1>c. OthersKept(s) /\ UNCHANGED <<rows, pushed>>
  BY CallbackFrame DEF OthersKept
<1>d. s \in scene.sessions
  BY DEF SceneInv, HandleConfigPush, CheckReplay, MarkSeen, Extract, Protect, Applied, PublishStatusFresh
<1>e. \A w : Sent(w)' <=> Sent(w)
  BY <1>c DEF Sent
<1>f. \A w, g : Told(w, g)' <=> Told(w, g)
  BY <1>c DEF Told
<1>g. RowsOnce'
  BY <1>b, <1>c DEF RowsOnce
\* The other sessions have nothing.
<1>h. ASSUME NEW u \in Sessions \ {s}
      PROVE  QueueOnce(u)' /\ WorkOnce(u)'
  <2>1. hpc'[u] = "wait"
    BY <1>c, <1>d, OnlySession DEF OthersKept
  <2>2. inbox'[u] = inbox[u]
    BY <1>a DEF HandleConfigPush, Receive, CheckReplay, MarkSeen, Extract, Protect, Applied,
       PublishStatusFresh, sessionVars
  <2>3. inbox'[u] = {}
    BY <1>d, <2>2, OnlySession
  <2> QED
    BY <2>1, <2>3 DEF QueueOnce, WorkOnce
<1>i. SUFFICES StatusOnce' /\ QueueOnce(s)' /\ WorkOnce(s)'
  BY <1>g, <1>h DEF Once
<1>j. ASSUME UNCHANGED statuses
      PROVE  StatusOnce' /\ (\A w : Silent(w)' <=> Silent(w)) /\ (\A w, h : Says(w, h)' <=> Says(w, h))
  BY <1>j, <1>b, <1>e, <1>f DEF StatusOnce, Silent, Says
<1>v. PICK v : v = push[s].version
  OBVIOUS
\* The end of a callback that leaves the queue alone.
<1>k. ASSUME UNCHANGED inbox, hpc'[s] = "wait", \A w : w # v /\ Silent(w) => Silent(w)', hpc[s] # "wait"
      PROVE  QueueOnce(s)' /\ WorkOnce(s)'
  BY <1>k, <1>b, <1>e, <1>v DEF QueueOnce, WorkOnce
<1>l. Finish(s) => hpc'[s] = "wait"
  BY <1>a DEF Finish
<1>m. ASSUME Reject(s), UNCHANGED inbox, hpc[s] \notin {"wait", "report"}
      PROVE  StatusOnce' /\ QueueOnce(s)' /\ WorkOnce(s)'
  <2>1. Sent(v) /\ Says(v, "rejected") /\ Send([version |-> v, health |-> "rejected"])
    BY <1>m, <1>b, <1>v, SilentSays DEF WorkOnce, Reject, StatusOf
  <2>2. StatusOnce' /\ \A w : w # v /\ Silent(w) => Silent(w)'
    BY <1>b, <1>c, <2>1, SendOnce
  <2> QED
    BY <1>k, <1>l, <1>m, <2>2 DEF Reject
\* A step inside the callback that says nothing.
<1>n. ASSUME UNCHANGED <<inbox, statuses>>, push'[s] = push[s], hpc[s] \notin {"wait", "report"},
             hpc'[s] \in {"mark", "extract", "protect", "apply", "report"}
      PROVE  StatusOnce' /\ QueueOnce(s)' /\ WorkOnce(s)'
  <2>1. StatusOnce'
    BY <1>j, <1>n
  <2>2. QueueOnce(s)'
    BY <1>b, <1>e, <1>j, <1>n DEF QueueOnce
  <2>3. Sent(v)' /\ Silent(v)' /\ \A h : Says(v, h)'
    BY <1>b, <1>e, <1>j, <1>n, <1>v, SilentSays DEF WorkOnce
  <2>4. push'[s].version = v
    BY <1>n, <1>v
  <2>5. WorkOnce(s)'
    BY <1>n, <2>3, <2>4 DEF WorkOnce
  <2> QED
    BY <2>1, <2>2, <2>5
<1>1. ASSUME NEW m \in inbox[s], Receive(s, m)
      PROVE  StatusOnce' /\ QueueOnce(s)' /\ WorkOnce(s)'
  <2>1. hpc[s] = "wait" /\ inbox'[s] = inbox[s] \ {m}
    BY <1>1, <1>a DEF Receive
  <2>2. Sent(m.version) /\ Silent(m.version) /\ \A n \in inbox'[s] : n \in inbox[s] /\ n.version # m.version
    BY <1>b, <2>1 DEF QueueOnce
  <2>3. CASE hpc' = [hpc EXCEPT ![s] = "replay"] /\ push' = [push EXCEPT ![s] = m] /\ UNCHANGED statuses
    <3>1. hpc'[s] = "replay" /\ push'[s] = m
      BY <2>3, <1>a
    <3>2. StatusOnce'
      BY <1>j, <2>3
    <3>3. QueueOnce(s)'
      BY <1>b, <1>e, <1>j, <2>2, <2>3, <3>1 DEF QueueOnce
    <3>4. WorkOnce(s)'
      BY <1>e, <1>j, <2>2, <2>3, <3>1 DEF WorkOnce
    <3> QED
      BY <3>2, <3>3, <3>4
  <2>4. CASE Send([version |-> m.version, health |-> "rejected"]) /\ UNCHANGED <<hpc, push>>
    <3>1. StatusOnce' /\ \A w : w # m.version /\ Silent(w) => Silent(w)'
      BY <1>b, <1>c, <2>2, <2>4, SilentSays, SendOnce
    <3>2. hpc'[s] = "wait"
      BY <2>1, <2>4
    <3>3. QueueOnce(s)'
      BY <1>b, <1>e, <2>2, <3>1, <3>2 DEF QueueOnce
    <3> QED
      BY <3>1, <3>2, <3>3 DEF WorkOnce
  <2> QED
    BY <1>1, <2>3, <2>4 DEF Receive
<1>2. CASE CheckReplay(s)
  <2>1. UNCHANGED inbox /\ hpc[s] = "replay"
    BY <1>2 DEF CheckReplay, sessionVars
  <2>2. Reject(s) \/ (UNCHANGED <<statuses, push>> /\ hpc'[s] = "mark")
    BY <1>2, <1>a DEF CheckReplay
  <2> QED
    BY <1>m, <1>n, <2>1, <2>2
<1>3. CASE MarkSeen(s)
  <2>1. UNCHANGED <<inbox, statuses>> /\ hpc[s] = "mark"
    BY <1>3 DEF MarkSeen, sessionVars
  <2>2. hpc'[s] = "wait" \/ (UNCHANGED push /\ hpc'[s] = "extract")
    BY <1>3, <1>a, <1>l DEF MarkSeen
  <2> QED
    BY <1>j, <1>k, <1>n, <2>1, <2>2
<1>4. CASE Extract(s)
  <2>1. UNCHANGED inbox /\ hpc[s] = "extract"
    BY <1>4 DEF Extract, sessionVars
  <2>2. Reject(s) \/ (UNCHANGED <<statuses, push>> /\ hpc'[s] = "protect")
    BY <1>4, <1>a DEF Extract
  <2> QED
    BY <1>m, <1>n, <2>1, <2>2
<1>5. CASE Protect(s)
  <2>1. UNCHANGED inbox /\ hpc[s] = "protect"
    BY <1>5 DEF Protect, sessionVars
  <2>2. Reject(s) \/ (UNCHANGED <<statuses, push>> /\ hpc'[s] = "apply")
    BY <1>5, <1>a DEF Protect
  <2> QED
    BY <1>m, <1>n, <2>1, <2>2
<1>6. CASE Applied(s)
  <2>1. UNCHANGED <<inbox, statuses>> /\ hpc[s] = "apply"
    BY <1>6 DEF Applied, sessionVars
  <2>2. hpc'[s] = "wait" \/ (UNCHANGED push /\ hpc'[s] = "report")
    BY <1>6, <1>a, <1>l DEF Applied
  <2> QED
    BY <1>j, <1>k, <1>n, <2>1, <2>2
<1>7. CASE PublishStatusFresh(s)
  <2>1. UNCHANGED inbox /\ hpc[s] = "report"
    BY <1>7 DEF PublishStatusFresh, sessionVars
  <2>2. PICK h : h = report[s].health
    OBVIOUS
  <2>3. Sent(v) /\ Says(v, h)
    BY <1>b, <1>v, <2>1, <2>2 DEF WorkOnce
  <2>4. StatusOnce' /\ Says(v, h)' /\ \A w : w # v /\ Silent(w) => Silent(w)'
    <3>1. CASE UNCHANGED statuses
      BY <3>1, <1>j, <2>3
    <3>2. CASE Send([version |-> v, health |-> h])
      BY <3>2, <1>b, <1>c, <2>3, SendOnce
    <3> QED
      BY <1>7, <1>v, <2>2, <3>1, <3>2 DEF PublishStatusFresh, StatusOf
  <2>5. hpc'[s] = "wait" \/ (hpc'[s] = "report" /\ push'[s] = push[s] /\ report'[s].health = h)
    BY <1>7, <1>a, <1>l, <2>1, <2>2 DEF PublishStatusFresh
  <2>6. CASE hpc'[s] = "wait"
    BY <1>k, <2>1, <2>4, <2>6
  <2>7. CASE hpc'[s] = "report" /\ push'[s] = push[s] /\ report'[s].health = h
    <3>1. push'[s].version = v
      BY <1>v, <2>7
    <3>2. QueueOnce(s)'
      BY <1>b, <1>e, <1>v, <2>1, <2>4, <2>7, <3>1 DEF QueueOnce
    <3>3. WorkOnce(s)'
      BY <1>e, <2>3, <2>4, <2>7, <3>1 DEF WorkOnce
    <3> QED
      BY <2>4, <3>2, <3>3
  <2> QED
    BY <2>5, <2>6, <2>7
<1> QED
  BY <1>1, <1>2, <1>3, <1>4, <1>5, <1>6, <1>7 DEF HandleConfigPush

\* Every step keeps it.
LEMMA OnceStep ==
  ASSUME FedTypeOK, SceneInv, OnceInv, [FedNext]_<<scene, vars>>
  PROVE  OnceInv'
<1>a. scene' = scene
  BY DEF FedNext, vars
<1> SUFFICES ASSUME Orderly, Once PROVE Once'
  BY <1>a DEF OnceInv, Orderly
<1>1. CASE Parent
  BY <1>1, CreateOnce, PublishOnce, PendingOnce, RecordOnce DEF Parent, Orderly
<1>2. ASSUME NEW s \in Sessions, HandleConfigPush(s)
      PROVE  Once'
  BY <1>2, CallbackOnce DEF Orderly
<1>3. ASSUME NEW s \in Sessions, Resubscribe(s)
      PROVE  Once'
  BY <1>3, OnceKept DEF Resubscribe, parentVars, handlerVars
<1>4. ASSUME NEW s \in Sessions, CloseOld(s)
      PROVE  Once'
  <2>1. \A u \in Sessions : inbox'[u] \subseteq inbox[u]
    BY <1>4 DEF CloseOld, FedTypeOK
  <2> QED
    BY <1>4, <2>1, OnceKept DEF CloseOld, parentVars, handlerVars
<1>5. ASSUME NEW t \in Threads, Activation(t)
      PROVE  Once'
  BY <1>5, OnceKept DEF Activation, parentVars, handlerVars
<1>6. CASE Operator \/ Router \/ UNCHANGED vars
  BY <1>6, OnceKept DEF Operator, Router, vars, fedVars, parentVars, sessionVars, handlerVars
<1>7. CASE ChildCrash
  <2>1. UNCHANGED <<rows, pushed, statuses>> /\ \A s \in Sessions : inbox'[s] = {} /\ hpc'[s] = "wait"
    BY <1>7 DEF ChildCrash, parentVars
  <2>2. RowsOnce' /\ StatusOnce'
    BY <2>1 DEF Once, RowsOnce, StatusOnce, Sent, Says, Told
  <2> QED
    BY <2>1, <2>2 DEF Once, QueueOnce, WorkOnce
<1> QED
  BY <1>1, <1>2, <1>3, <1>4, <1>5, <1>6, <1>7 DEF FedNext

\* Where one session at a time delivers and the parent's clock increases, a final state
\* stays once the request that made the push has returned: with any number of pushes,
\* lost, repeated and overtaking statuses, local requests and kills (_record_status).
THEOREM FinalStays == FedSpec => FinalOnceReturned
<1>1. FedInit => OnceInv
  BY DEF FedInit, OnceInv, Once, RowsOnce, StatusOnce, QueueOnce, WorkOnce
<1>2. FedInv /\ SceneInv /\ OnceInv /\ [FedNext]_<<scene, vars>> => OnceInv'
  BY OnceStep DEF FedInv
<1>3. ASSUME FedInv, OnceInv, [FedNext]_<<scene, vars>>, Orderly, NEW r \in 1..pushed,
             rows[r].phase = "done", rows[r].state \in FinalStates
      PROVE  rows'[r].state = rows[r].state
  <2>a. /\ Once /\ r \in 1..MaxPushes /\ rows \in [1..MaxPushes -> Row]
    BY <1>3, FederationAssumption DEF OnceInv, FedInv, FedTypeOK
  <2>1. ASSUME NEW v \in Versions, NEW c \in Pushable, CreateRevision(v, c)
        PROVE  rows'[r] = rows[r]
    <3>1. pushed' # r /\ pushed' \in 1..MaxPushes
      BY <1>3, <2>1, FederationAssumption DEF CreateRevision, FedInv, FedTypeOK
    <3> QED
      BY <2>1, <2>a, <3>1 DEF CreateRevision
  <2>2. ASSUME NEW q \in 1..MaxPushes, Publish(q) \/ MarkPending(q)
        PROVE  rows'[r] = rows[r]
    <3>1. q # r
      BY <1>3, <2>2 DEF Publish, MarkPending
    <3>2. CASE Publish(q)
      BY <3>1, <3>2, <2>a, RowPublished
    <3>3. CASE MarkPending(q)
      BY <3>1, <3>3, <2>a DEF MarkPending
    <3> QED
      BY <2>2, <3>2, <3>3
  <2>3. ASSUME NEW st \in Status, RecordStatus(st)
        PROVE  rows'[r].state = rows[r].state
    <3>1. CASE r \in NewestRow(st.version)
      <4>1. Told(st.version, rows[r].state) /\ st \in statuses
        BY <1>3, <2>3, <3>1 DEF Told, NewestRow, RecordStatus
      <4>2. rows[r].state = StateFor(st.health)
        BY <1>3, <2>a, <4>1 DEF Once, StatusOnce, Says
      <4> QED
        BY <2>3, <2>a, <3>1, <4>2 DEF RecordStatus, Row, StateFor
    <3>2. CASE r \notin NewestRow(st.version)
      BY <1>3, <2>3, <2>a, <3>2 DEF RecordStatus
    <3> QED
      BY <3>1, <3>2
  <2>4. CASE ~Parent
    <3>1. rows' = rows
      BY <1>3, <2>4, CallbackFrame DEF FedNext, FedInv, OthersKept, Resubscribe, CloseOld, Activation, Operator,
         Router, ChildCrash, vars, fedVars, parentVars
    <3> QED
      BY <1>3, <3>1
  <2> QED
    BY <1>3, <2>1, <2>2, <2>3, <2>4 DEF Parent
<1>4. FedInv /\ OnceInv /\ [FedNext]_<<scene, vars>> =>
        [Orderly => \A r \in 1..pushed : (rows[r].phase = "done" /\ rows[r].state \in FinalStates) =>
            rows'[r].state = rows[r].state]_vars
  BY <1>3
<1> QED
  BY <1>1, <1>2, <1>4, FedInvariant, SessionInvariant, PTL DEF FedSpec, FinalOnceReturned
=============================================================================
