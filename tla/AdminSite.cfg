\* Two requests in flight among all operations of the platform administrator.
CONSTANTS
    NoRow = NoRow
    ArtistIDs = {a1, a2}
    UserIDs = {u1, u2}
    InvitationIDs = {i1, i2}
    Slugs = {s1}
    Emails = {e1, e2}
    Codes = {c1, c2}
    InvitationLifetime = 1
    MaxTime = 2
    SessionLifetime = 1
    Requests = {r1, r2}
SPECIFICATION SiteSpec
SYMMETRY IdSymmetry
INVARIANTS
    SessionsAreOfLiveAccounts
    WritersAreAdministrators
    SettingsByAnAdministrator
PROPERTIES
    RedeemedAsGranted
\* The ids, the codes and the clock are bounded.
CHECK_DEADLOCK FALSE
