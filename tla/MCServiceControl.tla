-------------------------- MODULE MCServiceControl --------------------------
(* One request thread next to the supervisor.  Three pids are enough for two *)
(* copies of the service and a pid that is given to another program.         *)
EXTENDS ServiceControl

CONSTANTS u1, pid1, pid2, pid3

\* Turns with every fault; turns in good order; scripts in any order.
MCScenes ==
  {[overlap |-> FALSE, startStopped |-> TRUE, faults |-> SvcFaultKinds \ {"by_name"}],
   [overlap |-> FALSE, startStopped |-> FALSE, faults |-> {"timeout", "exec_fails"}],
   [overlap |-> TRUE, startStopped |-> FALSE, faults |-> {"exec_fails"}]}

\* Turns, with a script that is started by its name; with a reused pid; and a stop
\* next to the supervisor's restart.
MCByName == {[overlap |-> FALSE, startStopped |-> FALSE, faults |-> {"by_name"}]}
MCReuse == {[overlap |-> FALSE, startStopped |-> FALSE, faults |-> {"pid_reuse"}]}
MCAlongside == {[overlap |-> TRUE, startStopped |-> FALSE, faults |-> {}]}
=============================================================================
