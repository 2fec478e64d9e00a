CONSTANTS
    Observed = {"mapa", "deepstate", "geoconfirmed", "dronestrikemap", "community",
        "alerts", "zones", "threats", "aircraft", "devices", "sitaware", "clients", "forecast"}
    Ids = {1, 2}
    Unsound <- MCUnsound
    StaleAfter = 3
    RefreshEvery = 2
    CacheLife = 1
    MaxMarkers = 1
    MaxChanges = 3
    MaxTold = 2
    Sticky = {"community", "deepstate", "dronestrikemap"}
    Hasty = {"dronestrikemap", "alerts", "zones"}
    Sparse = {"forecast"}
SPECIFICATION Spec
INVARIANT FeedsTypeOK
PROPERTIES KeepsListed LeavesTheMap AnnouncedOnce
