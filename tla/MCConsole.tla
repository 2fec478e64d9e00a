------------------------------ MODULE MCConsole ------------------------------
(* The two ways in which the admin console changes what the router runs: a     *)
(* configuration is activated, or the trust database is compiled into access   *)
(* control.  Each is looked at on its own.                                     *)
EXTENDS MCRouterConfig, ManagedAcl

VARIABLE part       \* which of the two

Init == part \in {"activation", "acl"} /\ CfgInit /\ AclInit

Next ==
  \/ part = "activation" /\ CfgNext /\ UNCHANGED <<part, aclVars>>
  \/ part = "acl" /\ AclNext /\ UNCHANGED <<part, cfgVars>>

Spec == Init /\ [][Next]_<<part, cfgVars, aclVars>> /\ \A t \in Threads : WF_cfgVars(apply_rendered_config(t))
=============================================================================
