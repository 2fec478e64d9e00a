------------------------------ MODULE ManagedAcl ------------------------------
(* managed_acl.py: the trust database is compiled into the router's access      *)
(* control and its dictionary of link credentials, and both are activated.      *)
(* trust_api.py changes the children and asks for an apply to follow.           *)
(* Activation itself is RouterConfig's: here it succeeds or is undone.  The pod *)
(* has no unmanaged fabric uplink, which would have every request refused.      *)
EXTENDS Naturals, FiniteSets

CONSTANTS
    Children,       \* direct children, enrolled, with a grant and a credential each
    Requests,       \* calls of POST /apply that may overlap
    Operations,     \* subset of {"quarantine", "restore", "decommission", "rotate"}
    MaxChanges,     \* operations on a child
    MaxUndos,       \* activations that fail and are undone
    MaxRows,        \* revisions of the table
    None

ASSUME AclBounds ==
    /\ Operations \subseteq {"quarantine", "restore", "decommission", "rotate"}
    /\ {MaxChanges, MaxUndos, MaxRows} \subseteq Nat

VARIABLES
    child,          \* state of each child: active, quarantined or decommissioned
    secret,         \* version of each child's password in link_secrets
    rows,           \* acl_revisions: [seq, acl, state]
    file,           \* the dictionary on disk, or None
    config,         \* the activated configuration: [acl, dict], dict being the dictionary it came with
    router,         \* [acl, dict] the router runs with
    req,            \* request under way, or None
    changes, undos

aclVars == <<child, secret, rows, file, config, router, req, changes, undos>>
trust == <<child, secret, changes>>

Off == [acl |-> None, dict |-> None]

AclInit ==
    /\ child = [c \in Children |-> "active"] /\ secret = [c \in Children |-> 0]
    /\ rows = {} /\ file = None /\ config = Off /\ router = Off
    /\ req = [r \in Requests |-> None] /\ changes = 0 /\ undos = 0

------------------------------------------------------------------------------
(* The operator's changes to a child.                                          *)

Change(c, op) == op \in Operations /\ changes < MaxChanges /\ changes' = changes + 1
                 /\ UNCHANGED <<rows, file, config, router, req, undos>>

quarantine_authority(c) ==
    /\ Change(c, "quarantine") /\ child[c] # "decommissioned"
    /\ child' = [child EXCEPT ![c] = "quarantined"] /\ UNCHANGED secret
restore_authority(c) ==
    /\ Change(c, "restore") /\ child[c] = "quarantined"
    /\ child' = [child EXCEPT ![c] = "active"] /\ UNCHANGED secret

\* Its grant, identity and credential are revoked with it, its secret stays.
decommission_authority(c) ==
    /\ Change(c, "decommission") /\ child[c] # "decommissioned"
    /\ child' = [child EXCEPT ![c] = "decommissioned"] /\ UNCHANGED secret

rotate_link_credential(c) ==
    /\ Change(c, "rotate") /\ child[c] = "active"
    /\ secret' = [secret EXCEPT ![c] = @ + 1] /\ UNCHANGED child

------------------------------------------------------------------------------
(* POST /apply.                                                                *)

\* compile_acl: the rules of its grant for a child, or a rule that denies it all.
compile_acl == [c \in Children |-> IF child[c] = "active" THEN "allow" ELSE "deny"]

\* compile_current_policy raises for a child without an active grant, identity and
\* credential.
incomplete == \E c \in Children : child[c] = "decommissioned"

\* The answer to a request that stops here changes nothing.
_preview(r) ==
    /\ req[r] = None /\ ~incomplete /\ Cardinality(rows) < MaxRows
    /\ req' = [req EXCEPT ![r] = [at |-> "number", acl |-> compile_acl, dict |-> secret,
                                  seq |-> 0, prev |-> None, status |-> "staged"]]
    /\ UNCHANGED <<rows, file, config, router, undos>> /\ UNCHANGED trust

\* The number after the last revision.
number == 1 + Cardinality({n \in 1..MaxRows : \E x \in rows : x.seq >= n})

Number(r) ==
    /\ req[r] # None /\ req[r].at = "number"
    /\ req' = [req EXCEPT ![r].at = "insert", ![r].seq = number]
    /\ UNCHANGED <<rows, file, config, router, undos>> /\ UNCHANGED trust

\* Both the number and the hash of the rules are unique: the commit raises on a second one.
taken(r) == \E x \in rows : x.seq = req[r].seq \/ x.acl = req[r].acl
Insert(r) ==
    /\ req[r] # None /\ req[r].at = "insert"
    /\ IF taken(r) THEN req' = [req EXCEPT ![r] = None] /\ UNCHANGED rows
       ELSE /\ rows' = rows \cup {[seq |-> req[r].seq, acl |-> req[r].acl, state |-> "staged"]}
            /\ req' = [req EXCEPT ![r].at = "write"]
    /\ UNCHANGED <<file, config, router, undos>> /\ UNCHANGED trust

WriteDictionary(r) ==
    /\ req[r] # None /\ req[r].at = "write" /\ file' = req[r].dict
    /\ req' = [req EXCEPT ![r].at = "activate", ![r].prev = file]
    /\ UNCHANGED <<rows, config, router, undos>> /\ UNCHANGED trust

\* apply_rendered_config: applied, the router restarted with the dictionary it finds; or
\* undone, the router back on the configuration before.
ActivateAcl(r) ==
    /\ req[r] # None /\ req[r].at = "activate"
    /\ \/ /\ config' = [acl |-> req[r].acl, dict |-> req[r].dict]
          /\ router' = [acl |-> req[r].acl, dict |-> file]
          /\ req' = [req EXCEPT ![r].at = "finish", ![r].status = "applied"] /\ UNCHANGED undos
       \/ /\ undos < MaxUndos /\ undos' = undos + 1
          /\ router' = [acl |-> config.acl, dict |-> file] /\ UNCHANGED config
          /\ req' = [req EXCEPT ![r].at = "undo", ![r].status = "rolled_back"]
    /\ UNCHANGED <<rows, file>> /\ UNCHANGED trust


\* The dictionary this request found.
before(r) == req[r].prev

Undo(r) ==
    /\ req[r] # None /\ req[r].at = "undo" /\ file' = before(r)
    /\ req' = [req EXCEPT ![r].at = "restart"]
    /\ UNCHANGED <<rows, config, router, undos>> /\ UNCHANGED trust

restart_router_container(r) ==
    /\ req[r] # None /\ req[r].at = "restart"
    /\ router' = [acl |-> config.acl, dict |-> file]
    /\ req' = [req EXCEPT ![r].at = "finish"]
    /\ UNCHANGED <<rows, file, config, undos>> /\ UNCHANGED trust

\* Mutant: what was staged is recorded as applied.
final_applied(r) == "applied"

final(r) == req[r].status

Finish(r) ==
    /\ req[r] # None /\ req[r].at = "finish"
    /\ rows' = {IF x.seq = req[r].seq THEN [x EXCEPT !.state = final(r)] ELSE x : x \in rows}
    /\ req' = [req EXCEPT ![r] = None]
    /\ UNCHANGED <<file, config, router, undos>> /\ UNCHANGED trust

apply_acl(r) ==
    \/ _preview(r) \/ Number(r) \/ Insert(r) \/ WriteDictionary(r) \/ ActivateAcl(r)
    \/ Undo(r) \/ restart_router_container(r) \/ Finish(r)

AclNext ==
    \/ \E c \in Children : \/ quarantine_authority(c) \/ restore_authority(c)
                           \/ decommission_authority(c) \/ rotate_link_credential(c)
    \/ \E r \in Requests : apply_acl(r)

\* The operator goes on to apply what the trust page says must be applied.
AclSpec == AclInit /\ [][AclNext]_aclVars /\ \A r \in Requests : WF_aclVars(apply_acl(r))

------------------------------------------------------------------------------

Idle == \A r \in Requests : req[r] = None


\* ... and the last revision recorded as applied is the one in force.
RowsTell ==
    LET applied == {x \in rows : x.state = "applied"}
    IN  Idle => config.acl = IF applied = {} THEN None
                             ELSE (CHOOSE x \in applied : \A y \in applied : y.seq <= x.seq).acl

\* Rules in force that admit a decommissioned child are replaced in the end.
DecommissionTakes ==
    \A c \in Children : []<>(child[c] = "decommissioned" => router.acl = None \/ router.acl[c] = "deny")

\* A child that stays active is admitted with the password it was given last.
RotationTakes ==
    \A c \in Children : []<>(child[c] = "active" => router.dict # None /\ router.dict[c] = secret[c])
=============================================================================
