\* Every order of repository calls that involves two accounts, two artists,
\* two invitation rows and two codes.  No symmetry: OpenCodesClose is a
\* liveness property.
CONSTANTS
    NoRow = NoRow
    ArtistIDs = {a1, a2}
    UserIDs = {u1, u2}
    InvitationIDs = {i1, i2}
    Slugs = {s1, s2}
    Emails = {e1, e2}
    Codes = {c1, c2}
    InvitationLifetime = 1
    MaxTime = 3
SPECIFICATION FairStoreSpec
INVARIANTS
    AcceptedIffAccount
    AccountKeepsItsArtist
PROPERTIES
    CodesSpec
    IdsAreForEver
    OpenCodesClose
\* The ids, the codes and the clock are bounded.
CHECK_DEADLOCK FALSE
