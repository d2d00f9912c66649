\* store.go:19 says an artist with administrators is not deleted.
CONSTANTS
    NoRow = NoRow
    ArtistIDs = {a1}
    UserIDs = {u1}
    InvitationIDs = {i1}
    Slugs = {s1}
    Emails = {e1}
    Codes = {c1}
    Transactions = {t1, t2}
    InvitationLifetime = 1
    MaxTime = 1
SPECIFICATION PgSpec
PROPERTY DeletedArtistHadNoAdmins
CHECK_DEADLOCK FALSE
