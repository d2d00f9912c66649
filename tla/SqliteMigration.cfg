\* Every old database with two songs, two users and two artists, upgraded by
\* a program that dies or fails at most three times.
CONSTANTS
    Null = Null
    Songs = {song1, song2}
    Users = {u1, u2}
    Invitations = {i1}
    Slugs = {s1, s2}
    MaxCrashes = 3
SPECIFICATION Spec
INVARIANTS
    MembershipsSurvive
    InvitationsExpire
PROPERTY MigrationEnds
\* The program stops once it serves, or with e-mails that nobody normalizes.
CHECK_DEADLOCK FALSE
