CONSTANTS
    Contacts = {"a1", "b2", "c3", "b1", "s", "m"}
    Plot <- MCPlot
    None = None
    Aircraft = {"i"}
    Threats = {"t", "u"}
    Places = {"p", "q"}
    Squawks = {"x"}
    Fits <- MCFits
    AdsbTail = "tracks/v1"
    MaxAge = 2
    TTL = 1
    MaxCrashes = 0
    Casts <- AddressCast
SPECIFICATION Spec
PROPERTY FallbackResumes
