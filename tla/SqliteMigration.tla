--------------------------- MODULE SqliteMigration ---------------------------
(***************************************************************************)
(* migrate (src/internal/store/migrate.go) on a SQLite database that an    *)
(* older build has left: statements that commit one by one, so that a      *)
(* crash or an error leaves the database between two of them and the next  *)
(* start runs migrate again, from the top.                                 *)
(*                                                                         *)
(* Abstracted: an artist is its slug; of the columns and tables, those     *)
(* whose absence makes migrate move data.  The other CREATE and ALTER      *)
(* statements add empty columns and are skipped when repeated.             *)
(***************************************************************************)
EXTENDS Naturals

CONSTANTS
    Songs, Users, Invitations, Slugs,
    Null,           \* SQL NULL
    MaxCrashes      \* bound: starts of the program that die or fail

ASSUME NullAssumption == Null \notin Slugs
ASSUME MaxCrashesAssumption == MaxCrashes \in Nat

VARIABLES
    schema,         \* the columns and tables that exist, of Movable
    artists,        \* the slugs in table artists
    artistSlug,     \* the artist of each song: songs.artist_slug of an old build
    songArtist,     \* songs.artist_id (Null also while it does not exist)
    userArtist,     \* users.artist_id of an old build
    members,        \* table user_artists
    expires,        \* does user_invitations.expires_at hold a time?
    colliding,      \* e-mails that differ in case only
    collected,      \* temporary table user_artist_backfill
    at,             \* the next statement of migrate
    crashes,        \* starts that died or failed so far
    owed            \* history: the memberships of the old database

vars == <<schema, artists, artistSlug, songArtist, userArtist, members,
          expires, colliding, collected, at, crashes, owed>>

Movable == {"songs.artist_id", "users.artist_id", "user_artists",
            "user_invitations.expires_at"}

Steps == {"add song artists", "insert artists", "fill songs",
          "collect members", "rebuild users", "create user_artists",
          "add expiry", "fill expiry", "check e-mails", "serving", "stopped"}

\* What the columns users.artist_id say, where there are any.
LegacyMembers ==
    {m \in Users \X Slugs :
        "users.artist_id" \in schema /\ userArtist[m[1]] = m[2]}

\* The databases of older builds: a song names its artist by slug or, in a
\* later build, by id; what refers to an artist refers to one that exists.
Init ==
    /\ schema \in SUBSET Movable
    /\ artistSlug \in [Songs -> Slugs]
    /\ songArtist = (IF "songs.artist_id" \in schema THEN artistSlug
                     ELSE [s \in Songs |-> Null])
    /\ userArtist \in
           (IF "users.artist_id" \in schema THEN [Users -> Slugs \cup {Null}]
            ELSE {[u \in Users |-> Null]})
    /\ members \in
           (IF "user_artists" \in schema THEN SUBSET (Users \X Slugs) ELSE {{}})
    /\ artists = ({songArtist[s] : s \in Songs} \cup
                  {userArtist[u] : u \in Users} \cup
                  {m[2] : m \in members}) \ {Null}
    /\ expires = [i \in Invitations |-> FALSE]
    /\ colliding \in BOOLEAN
    /\ collected = {}
    /\ at = "add song artists"
    /\ crashes = 0
    /\ owed = LegacyMembers \cup members

Goes(from, to) == at = from /\ at' = to

-----------------------------------------------------------------------------
(* Songs: the three statements run only if the column was missing. *)

AddSongArtists ==
    /\ Goes("add song artists",
            IF "songs.artist_id" \in schema THEN "collect members"
            ELSE "insert artists")
    /\ schema' = schema \cup {"songs.artist_id"}
    /\ UNCHANGED <<artists, artistSlug, songArtist, userArtist, members,
                   expires, colliding, collected, crashes, owed>>

InsertArtists ==
    /\ Goes("insert artists", "fill songs")
    /\ artists' = artists \cup {artistSlug[s] : s \in Songs}
    /\ UNCHANGED <<schema, artistSlug, songArtist, userArtist, members,
                   expires, colliding, collected, crashes, owed>>

FillSongs ==
    /\ Goes("fill songs", "collect members")
    /\ songArtist' = [s \in Songs |->
           IF songArtist[s] = Null /\ artistSlug[s] \in artists
           THEN artistSlug[s] ELSE songArtist[s]]
    /\ UNCHANGED <<schema, artists, artistSlug, userArtist, members,
                   expires, colliding, collected, crashes, owed>>

-----------------------------------------------------------------------------
(* Memberships: removeLegacyUserArtistID, then CREATE TABLE IF NOT EXISTS. *)

\* Variant: rows that are already in user_artists are not collected.
Memberships_LegacyOnly == LegacyMembers

\* Table user_artists, if there is one, and the old column.
Memberships == members \cup LegacyMembers

CollectMembers ==
    /\ Goes("collect members",
            IF "users.artist_id" \in schema THEN "rebuild users"
            ELSE "create user_artists")
    /\ collected' = (IF "users.artist_id" \in schema THEN Memberships
                     ELSE collected)
    /\ UNCHANGED <<schema, artists, artistSlug, songArtist, userArtist,
                   members, expires, colliding, crashes, owed>>

\* One transaction: users without the column, user_artists anew.
RebuildUsers ==
    /\ Goes("rebuild users", "create user_artists")
    /\ schema' = (schema \ {"users.artist_id"}) \cup {"user_artists"}
    /\ userArtist' = [u \in Users |-> Null]
    /\ members' = collected
    /\ collected' = {}
    /\ UNCHANGED <<artists, artistSlug, songArtist, expires, colliding,
                   crashes, owed>>

CreateUserArtists ==
    /\ Goes("create user_artists", "add expiry")
    /\ schema' = schema \cup {"user_artists"}
    /\ UNCHANGED <<artists, artistSlug, songArtist, userArtist, members,
                   expires, colliding, collected, crashes, owed>>

-----------------------------------------------------------------------------
(* Invitations: the UPDATE runs on every start. *)

\* Variant: ALTER TABLE without looking whether the column is there fails
\* the second time.
AddExpiry_Unchecked ==
    /\ "user_invitations.expires_at" \notin schema
    /\ Goes("add expiry", "fill expiry")
    /\ schema' = schema \cup {"user_invitations.expires_at"}
    /\ UNCHANGED <<artists, artistSlug, songArtist, userArtist, members,
                   expires, colliding, collected, crashes, owed>>

\* Variant: the UPDATE belongs to the ALTER, as it does for songs.
AddExpiry_ThenFillOnce ==
    /\ Goes("add expiry",
            IF "user_invitations.expires_at" \in schema THEN "check e-mails"
            ELSE "fill expiry")
    /\ schema' = schema \cup {"user_invitations.expires_at"}
    /\ UNCHANGED <<artists, artistSlug, songArtist, userArtist, members,
                   expires, colliding, collected, crashes, owed>>

AddExpiry ==
    /\ Goes("add expiry", "fill expiry")
    /\ schema' = schema \cup {"user_invitations.expires_at"}
    /\ UNCHANGED <<artists, artistSlug, songArtist, userArtist, members,
                   expires, colliding, collected, crashes, owed>>

FillExpiry ==
    /\ Goes("fill expiry", "check e-mails")
    /\ expires' = [i \in Invitations |-> TRUE]
    /\ UNCHANGED <<schema, artists, artistSlug, songArtist, userArtist,
                   members, colliding, collected, crashes, owed>>

\* ensureNormalizedEmailUniqueness: passes only when no e-mails collide; the
\* unique indexes that follow change no row.
CheckEmails ==
    /\ ~colliding
    /\ Goes("check e-mails", "serving")
    /\ UNCHANGED <<schema, artists, artistSlug, songArtist, userArtist,
                   members, expires, colliding, collected, crashes, owed>>

Migrate ==
    \/ AddSongArtists \/ InsertArtists \/ FillSongs
    \/ CollectMembers \/ RebuildUsers \/ CreateUserArtists
    \/ AddExpiry \/ FillExpiry \/ CheckEmails

-----------------------------------------------------------------------------
\* The process dies, or a statement fails and migrate returns its error (as
\* it must while e-mails collide): the temporary table goes with the
\* connection.
Stop ==
    /\ at \notin {"stopped", "serving"}
    /\ crashes < MaxCrashes
    /\ crashes' = crashes + 1
    /\ at' = "stopped"
    /\ collected' = {}
    /\ UNCHANGED <<schema, artists, artistSlug, songArtist, userArtist,
                   members, expires, colliding, owed>>

\* "normalize the duplicates before running this build"
Normalize ==
    /\ at = "stopped"
    /\ colliding
    /\ colliding' = FALSE
    /\ UNCHANGED <<schema, artists, artistSlug, songArtist, userArtist,
                   members, expires, collected, at, crashes, owed>>

Start ==
    /\ Goes("stopped", "add song artists")
    /\ UNCHANGED <<schema, artists, artistSlug, songArtist, userArtist,
                   members, expires, colliding, collected, crashes, owed>>

Next == Migrate \/ Stop \/ Normalize \/ Start

\* The program runs while it is up, and is started again when it is not.
Spec == Init /\ [][Next]_vars /\ WF_vars(Migrate) /\ WF_vars(Start)

-----------------------------------------------------------------------------
TypeOK ==
    /\ schema \subseteq Movable
    /\ artists \subseteq Slugs
    /\ artistSlug \in [Songs -> Slugs]
    /\ songArtist \in [Songs -> Slugs \cup {Null}]
    /\ userArtist \in [Users -> Slugs \cup {Null}]
    /\ members \subseteq Users \X Slugs
    /\ collected \subseteq Users \X Slugs
    /\ expires \in [Invitations -> BOOLEAN]
    /\ colliding \in BOOLEAN
    /\ at \in Steps
    /\ crashes \in 0..MaxCrashes
    /\ owed \subseteq Users \X Slugs

\* No crash loses or invents a membership: at every moment the old column and
\* the table together say what they said before the upgrade, although the
\* table is dropped and the column rebuilt on the way (migrate.go:202).
MembershipsSurvive == members \cup LegacyMembers = owed

\* Once the server runs, every invitation expires (migrate.go:173), also
\* those of a database whose first upgrade died half-way.
InvitationsExpire == at = "serving" => \A i \in Invitations : expires[i]

\* An upgrade that was cut short anywhere can be completed: the statements
\* can be repeated, and only colliding e-mails keep the server from starting.
MigrationEnds == ~colliding ~> at = "serving"

\* migrate.go:106 speaks of every existing song row: once the server runs,
\* each song belongs to the artist that its slug named.
SongsHaveTheirArtist ==
    at = "serving" => \A s \in Songs : songArtist[s] = artistSlug[s]

=============================================================================
