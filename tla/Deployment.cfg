\* Two processes on one database: any old database, starts, stops and deaths.
CONSTANTS
    NoArtist = NoArtist
    NoRow = NoRow
    None = None
    Procs = {p1, p2}
    Songs = {s1}
    Artists = {a1}
    Users = {u1}
    OldFlaws <- OneFlaw
    MaxHandlers = 1
    MaxStarts = 2
SPECIFICATION DeploymentSpec
INVARIANTS
    UpgradeIsAllOrNothing
    UpgradeKeepsArtists
    RequestsSeeCurrentSchema
    CutsAreReported
    MembershipsStayGone
PROPERTIES
    StartsEnd
    SignalsStop
\* The starts are bounded.
CHECK_DEADLOCK FALSE
