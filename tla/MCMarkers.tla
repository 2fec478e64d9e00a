------------------------------ MODULE MCMarkers ------------------------------
EXTENDS Markers

\* m has the callsign of k close by, o far away; n has the address of k; m and n have
\* one name close by, and o has it far away.
MCDesc ==
    [ k |-> [icao |-> "a", address |-> None, call |-> "c", name |-> None],
      m |-> [icao |-> None, address |-> None, call |-> "c", name |-> "n"],
      n |-> [icao |-> None, address |-> "a", call |-> None, name |-> "n"],
      o |-> [icao |-> None, address |-> None, call |-> "c", name |-> "n"] ]
MCNear == {{"k", "m"}, {"m", "n"}}
MCOrder == [k |-> 1, m |-> 2, n |-> 3, o |-> 4]
MCCasts == {{"k", "m"}, {"k", "n"}, {"m", "n"}, {"k", "o"}, {"m", "o"}}

\* For k and o the NVG cache is one item too small.
MCItems == [c \in MCCasts |-> IF c = {"k", "o"} THEN 1 ELSE 2]

\* A copy that is reported rarely.
RareCasts == {{"k", "n"}}
RareItems == [c \in RareCasts |-> 2]
=============================================================================
