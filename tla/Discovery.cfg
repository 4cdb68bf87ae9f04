\* A listed device, one the list does not know, and one listed as disabled; a renumbering,
\* a press of Refresh, a device switched on or off or the adapter unplugged, a restart.
SPECIFICATION FairSpec
CONSTANTS
    d1 = d1
    d2 = d2
    d3 = d3
    Device = {d1, d2, d3}
    Id = {1, 2, 3}
    InitPhys <- Wired
    InitList = {1, 3}
    Disabled = {3}
    Scan = {1, 2, 3}
    Broadcast = 0
    None = None
    MaxRequests = 1
    MaxRenames = 0
    MaxRefresh = 1
    MaxEvents = 1
    MaxRestarts = 1
PROPERTIES
    RefreshDiscovers
    SilentGoesOffline
