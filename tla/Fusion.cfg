CONSTANTS
    Contacts = {"a1", "b2", "c3", "b1", "s", "m"}
    Plot <- MCPlot
    None = None
    Aircraft = {"i"}
    Threats = {"t", "u"}
    Places = {"p", "q"}
    Squawks = {"x"}
    Fits <- MCFits
    AdsbTail = "json"
    MaxAge = 2
    TTL = 1
    MaxCrashes = 1
    Casts <- MCCasts
SPECIFICATION Spec
INVARIANTS FusionTypeOK HoldHasReport
PROPERTIES MarkerNotSplit NeptunReturns FallbackFollows
