\* The accounts of *.workbuddy.ai when the gateway is started again.
SPECIFICATION RegistrySpec
CONSTANTS
    k1 = k1
    r1 = r1
    r2 = r2
    u1 = u1
    u2 = u2
    p1 = p1
    p2 = p2
    w1 = w1
    c1 = c1
    c2 = c2
    Keys <- MCKeys
    Requests <- MCRequests
    Limits <- MCLimits
    Logins <- MCLogins
    Processes <- MCProcesses
    PortOf <- MCPorts
    Writers <- MCWriters
    Clicks <- MCClicks
    Stores <- MCStores
    Scenes <- MCScenes
    MaxRow = 4
    MaxRelease = 2
    MaxDay = 3
    MaxRows = 1
    MaxRestarts = 2
    MaxPerDay = 3
    Retention = 1
SYMMETRY Symmetric
CHECK_DEADLOCK FALSE
PROPERTIES StartMovesRegions
