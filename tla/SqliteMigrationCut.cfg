\* The comment at migrate.go:106 against an upgrade that dies once.
CONSTANTS
    Null = Null
    Songs = {song1}
    Users = {u1}
    Invitations = {i1}
    Slugs = {s1}
    MaxCrashes = 1
SPECIFICATION Spec
INVARIANT SongsHaveTheirArtist
CHECK_DEADLOCK FALSE
