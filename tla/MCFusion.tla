------------------------------ MODULE MCFusion ------------------------------
EXTENDS Fusion

MCPlot ==
    [ a1 |-> [radar |-> "A", num |-> "1", icao |-> None, squawk |-> None],
      b2 |-> [radar |-> "B", num |-> "2", icao |-> None, squawk |-> None],
      c3 |-> [radar |-> "C", num |-> "3", icao |-> None, squawk |-> None],
      b1 |-> [radar |-> "B", num |-> "1", icao |-> None, squawk |-> None],
      s  |-> [radar |-> "A", num |-> "4", icao |-> "i", squawk |-> None],
      m  |-> [radar |-> "B", num |-> "5", icao |-> None, squawk |-> "x"] ]
MCFits == [p |-> {"t"}, q |-> {"t", "u"}]
MCCasts == {{"a1", "b2", "c3"}, {"a1", "b2", "t", "u"}, {"a1", "b1", "t"}, {"s", "m", "i"}}
HandoffCast == {{"a1", "b2", "c3"}}
NumberCast == {{"a1", "b1", "t"}}
AddressCast == {{"s", "i"}}
PairCast == {{"a1", "t", "u"}}
=============================================================================
