--------------------------- MODULE MCRouterConfig ---------------------------
(* Two concurrent local requests.  MCDrafts has one draft, which changes the *)
(* config and both prefixes; the texts loaded from a file are bb, which uses *)
(* the backbone profile, and c0, which keeps whatever prefixes the state     *)
(* files hold when it is parsed.                                             *)
EXTENDS RouterConfig, TLC

CONSTANTS c0, c1, bb, p0, p1, t1, t2

MCDrafts == {[config |-> c1, prefix |-> p1, pub |-> p1]}

MCInitFiles == [config |-> c0, prefix |-> p0, pub |-> p0]

\* The two requests are interchangeable.
MCSymmetry == Permutations({t1, t2})
=============================================================================
