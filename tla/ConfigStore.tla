----------------------------- MODULE ConfigStore -----------------------------
(***************************************************************************)
(* What apply_rendered_config promises to its callers, stated without      *)
(* locks, files or restarts: a store of one active configuration on which  *)
(* every request is a transaction.  A request either replaces the whole    *)
(* active configuration at one instant and is answered "applied", or       *)
(* leaves it alone and is answered "refused", or is never answered because *)
(* the process died.                                                       *)
(***************************************************************************)
CONSTANTS
  Threads,    \* requesters
  States,     \* complete configurations: text, prefix, data prefix
  InitState,  \* the configuration first-boot.sh installed
  Nothing     \* no request

VARIABLES
  active,     \* the active configuration
  asked,      \* the undecided request of each requester
  verdict     \* what the requester is told

storeVars == <<active, asked, verdict>>

StoreInit ==
  /\ active = InitState
  /\ asked = [t \in Threads |-> Nothing]
  /\ verdict = [t \in Threads |-> "none"]

\* A requester with nothing outstanding asks for a configuration.
Ask(t, s) ==
  /\ asked[t] = Nothing
  /\ verdict[t] = "none"
  /\ asked' = [asked EXCEPT ![t] = s]
  /\ UNCHANGED <<active, verdict>>

\* The whole configuration changes at once, to what this requester asked for.
Activate(t) ==
  /\ asked[t] # Nothing
  /\ active' = asked[t]
  /\ asked' = [asked EXCEPT ![t] = Nothing]
  /\ verdict' = [verdict EXCEPT ![t] = "applied"]

Refuse(t) ==
  /\ asked[t] # Nothing
  /\ asked' = [asked EXCEPT ![t] = Nothing]
  /\ verdict' = [verdict EXCEPT ![t] = "refused"]
  /\ UNCHANGED active

\* The requester takes its answer.
Answer(t) ==
  /\ verdict[t] # "none"
  /\ verdict' = [verdict EXCEPT ![t] = "none"]
  /\ UNCHANGED <<active, asked>>

\* The process that serves the requesters dies: nobody is answered, nothing changes.
Forget ==
  /\ asked' = [t \in Threads |-> Nothing]
  /\ verdict' = [t \in Threads |-> "none"]
  /\ UNCHANGED active

StoreNext ==
  \/ \E t \in Threads :
       \/ \E s \in States : Ask(t, s)
       \/ Activate(t)
       \/ Refuse(t)
       \/ Answer(t)
  \/ Forget

StoreSpec == StoreInit /\ [][StoreNext]_storeVars
=============================================================================
