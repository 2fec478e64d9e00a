---------------------------- MODULE MCFederation ----------------------------
(* A child on configuration c0 (endpoint a) under prefix p0.  The parent     *)
(* pushes c1 (endpoints a and b), c2 (b only) and c3 (a, but with other      *)
(* listener ports); the local operator may move the pod to prefix p1.        *)
EXTENDS Federation, TLC

CONSTANTS c0, c1, c2, c3, p0, p1, a, b, own, moved, s1, s2

MCInitFiles == [config |-> c0, prefix |-> p0, pub |-> p0]

MCDrafts == {[config |-> c0, prefix |-> p1, pub |-> p1]}

MCFabric == [c \in Configs |-> CASE c \in {c0, c3} -> {a} [] c = c1 -> {a, b} [] OTHER -> {b}]

Scene(S, clock, op, kill, pushes) ==
  [sessions |-> S, monotone |-> clock, operator |-> op, kills |-> kill, pushable |-> pushes]

\* One session: with an operator; with kills and any clock; with every kind of push.
\* Two sessions that overlap.
MCPush ==
  UNION {{Scene({s}, TRUE, TRUE, FALSE, {c1}), Scene({s}, FALSE, FALSE, TRUE, {c1}),
          Scene({s}, TRUE, FALSE, FALSE, {c1, c2, c3})} : s \in {s1, s2}}
    \cup {Scene({s1, s2}, TRUE, FALSE, FALSE, {c1})}

MCAlone == {Scene({s1}, TRUE, FALSE, FALSE, {c1})}
MCOperator == {Scene({s1}, TRUE, TRUE, FALSE, {c1})}
MCOverlap == {Scene({s1, s2}, TRUE, FALSE, FALSE, {c1})}

\* The subscriber sessions are interchangeable.
MCSymmetry == Permutations({s1, s2})

MCIdent == [c \in Configs |-> IF c = c3 THEN moved ELSE own]
=============================================================================
