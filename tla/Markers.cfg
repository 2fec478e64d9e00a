CONSTANTS
    Tracks = {"k", "m", "n", "o"}
    Desc <- MCDesc
    Near <- MCNear
    None = None
    Slow = {}
    Ranks = {0, 1}
    Order <- MCOrder
    TTL = 2
    Fresh = 3
    Stale = 3
    DrLife = 2
    MaxItems <- MCItems
    MaxChanges = 2
    Casts <- MCCasts
    Alarms = {"region"}
    Events = {"event"}
    Caller <- MCCaller
    NoCall = NoCall
    Hosts = 2
    MaxQueue = 1
    MaxRises <- MCRises
    MaxOutages = 1
    Deaths = 1
    Closes = 1
SPECIFICATION LayersSpec
CHECK_DEADLOCK FALSE
INVARIANTS MarkersTypeOK HeldForAnother TakTypeOK AlertOnce
PROPERTIES OneMarkerSettles GoneLeaves Drains
