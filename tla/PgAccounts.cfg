\* Three transactions at a time, over two artists and two accounts of one
\* e-mail that follow one another.
CONSTANTS
    NoRow = NoRow
    ArtistIDs = {a1, a2}
    UserIDs = {u1, u2}
    InvitationIDs = {i1, i2}
    Slugs = {s1, s2}
    Emails = {e1}
    Codes = {c1, c2}
    Transactions = {t1, t2, t3}
    InvitationLifetime = 1
    MaxTime = 1
SPECIFICATION PgSpec
SYMMETRY PgSymmetry
INVARIANTS
    ForeignKeysHold
    AcceptedHasAccount
    AccountKeepsArtistThatExists
    DeletedAccountsAreRevoked
    DeadlocksNeedLateReference
PROPERTIES
    RedeemedWhileOffered
    OverlapsAreNamed
\* The ids, the codes and the clock are bounded.
CHECK_DEADLOCK FALSE
