----------------------------- MODULE PgMigration -----------------------------
(***************************************************************************)
(* The upgrade of a PostgreSQL database when SongDock starts, and what     *)
(* several processes that share the database do to each other: `serve`     *)
(* with automatic migrations, `serve` without, which only validates the    *)
(* schema, and `migrate up`.  The upgrade is one transaction, moved along  *)
(* statement by statement on a draft that nobody else sees, and a process  *)
(* may fail or be killed between any two statements.                       *)
(*                                                                         *)
(* An old database has songs that name their artist by slug, accounts with *)
(* a single artist (users.artist_id), and no version table.  Abstracted:   *)
(* all columns that an upgrade only adds, and the rows of a table that it  *)
(* does not read.                                                          *)
(***************************************************************************)
EXTENDS Naturals, FiniteSets

CONSTANTS
    Procs,          \* processes that share the database
    Songs, Artists, Users,
    OldFlaws,       \* the sets of flaws an old database may have
    NoArtist,       \* NULL, or a column that is not there
    NoRow,          \* no such song
    None            \* no process

Flaws ==
    {"names",       \* two songs call the artist of a slug by different names
     "invitations", \* an invitation has no artist
     "emails"}      \* two e-mail addresses differ in case only

ASSUME OldFlawsAssumption == OldFlaws \subseteq SUBSET Flaws
ASSUME NoArtistAssumption == NoArtist \notin Artists
ASSUME NoRowAssumption == NoRow \notin Artists \cup {NoArtist}
ASSUME NoneAssumption == None \notin Procs

VARIABLES
    legacy,         \* what the old columns hold, which no upgrade changes
    db,             \* the committed database
    writer,         \* the process whose upgrade holds the locks
    draft,          \* the database as the writer's transaction sees it, or db
    pc,             \* process -> where it is
    mode,           \* process -> how it was started, until it serves or exits
    saw             \* process -> the version table was there when it looked

migrationVars == <<legacy, db, writer, draft, pc, mode, saw>>

Modes == {"auto", "validate", "up"}
UpgradeStages == {"artists", "songs", "members", "invitations", "commit"}

Database ==
    [ready : BOOLEAN,       \* version 1 is recorded
     songs : [Songs -> Artists \cup {NoArtist, NoRow}],
     artists : SUBSET Artists,
     users : SUBSET Users,
     members : SUBSET (Users \X Artists)]

Legacy ==
    [slug : [Songs -> Artists \cup {NoArtist}],     \* songs.artist_slug
     artist : [Users -> Artists \cup {NoArtist}],   \* users.artist_id
     flaws : OldFlaws]

\* An old database, before any upgrade: users.artist_id is a foreign key.
OldDatabase(d, old) ==
    /\ ~d.ready
    /\ \A s \in Songs :
          \/ d.songs[s] = NoArtist
          \/ d.songs[s] = NoRow /\ old.slug[s] = NoArtist
    /\ d.members = {}
    /\ \A u \in Users :
          old.artist[u] \in (IF u \in d.users THEN d.artists ELSE {}) \cup {NoArtist}

MigrationInit ==
    /\ legacy \in Legacy
    /\ db \in Database
    /\ OldDatabase(db, legacy)
    /\ writer = None
    /\ draft = db
    /\ pc = [p \in Procs |-> "down"]
    /\ mode = [p \in Procs |-> "none"]
    /\ saw = [p \in Procs |-> FALSE]

Enter(p, label) == pc' = [pc EXCEPT ![p] = label]

\* The start is over, one way or the other.
Leave(p, label) ==
    /\ Enter(p, label)
    /\ mode' = [mode EXCEPT ![p] = "none"]
    /\ saw' = [saw EXCEPT ![p] = FALSE]

-----------------------------------------------------------------------------
(* Statements of the upgrade *)

\* Columns are looked up first: an upgraded database has songs.artist_id.
WithArtists(d) ==
    IF d.ready THEN d
    ELSE [d EXCEPT !.artists =
              @ \cup ({legacy.slug[s] : s \in {t \in Songs : d.songs[t] # NoRow}}
                      \ {NoArtist})]

\* Variant: the condition a.slug = s.artist_slug is lost.
WithSongs_AnyArtist(d) ==
    [d EXCEPT !.songs = [s \in Songs |->
        IF @[s] = NoArtist /\ d.artists # {}
        THEN CHOOSE a \in d.artists : TRUE ELSE @[s]]]

WithSongs(d) ==
    [d EXCEPT !.songs = [s \in Songs |->
        IF @[s] = NoArtist /\ legacy.slug[s] \in d.artists
        THEN legacy.slug[s] ELSE @[s]]]

\* Every upgrade inserts these, the column users.artist_id being kept.
WithMembers(d) ==
    [d EXCEPT !.members =
        @ \cup {<<u, legacy.artist[u]>> :
                   u \in {v \in d.users : legacy.artist[v] # NoArtist}}]

\* The upgrade ends at this stage whatever happens: INSERT ... ON CONFLICT DO
\* UPDATE touches no artist twice, songs and invitations without an artist are
\* counted, and an index is unique.
Refuses(stage, d) ==
    CASE stage = "artists" -> ~d.ready /\ "names" \in legacy.flaws
      [] stage = "members" -> \E s \in Songs : d.songs[s] = NoArtist
      [] stage = "invitations" -> ~d.ready /\ "invitations" \in legacy.flaws
      [] stage = "commit" -> ~d.ready /\ "emails" \in legacy.flaws
      [] OTHER -> FALSE

-----------------------------------------------------------------------------
(* Starting *)

\* serve and migrate up, as far as the connection.
StartProcess(p, m) ==
    /\ pc[p] \in {"down", "exited"}
    /\ mode' = [mode EXCEPT ![p] = m]
    /\ Enter(p, IF m = "validate" THEN "validating" ELSE "opened")
    /\ UNCHANGED <<legacy, db, writer, draft, saw>>

\* Variant: the version is not looked at.
Validates_Always(d) == TRUE

Validates(d) == d.ready

Validate(p) ==
    /\ pc[p] = "validating"
    /\ Leave(p, IF Validates(db) THEN "serving" ELSE "exited")
    /\ UNCHANGED <<legacy, db, writer, draft>>

\* CREATE TABLE IF NOT EXISTS looks, and then waits for the locks.
LookForTables(p) ==
    /\ pc[p] = "opened"
    /\ saw' = [saw EXCEPT ![p] = db.ready]
    /\ Enter(p, "waiting")
    /\ UNCHANGED <<legacy, db, writer, draft, mode>>

\* A table that another upgrade has committed in between cannot be created.
TablesCollide(p) == db.ready /\ ~saw[p]

GetLocks(p) ==
    /\ pc[p] = "waiting"
    /\ writer = None
    /\ ~TablesCollide(p)
    /\ writer' = p
    /\ draft' = db
    /\ Enter(p, "artists")
    /\ UNCHANGED <<legacy, db, mode, saw>>

Collide(p) ==
    /\ pc[p] = "waiting"
    /\ writer = None
    /\ TablesCollide(p)
    /\ Leave(p, "exited")
    /\ UNCHANGED <<legacy, db, writer, draft>>

RunStatement(p, stage, next, newDraft) ==
    /\ pc[p] = stage
    /\ ~Refuses(stage, draft)
    /\ draft' = newDraft
    /\ Enter(p, next)
    /\ UNCHANGED <<legacy, db, writer, mode, saw>>

\* Variant: this statement commits by itself.
FillSongs_Autocommit(p) ==
    /\ pc[p] = "songs"
    /\ draft' = WithSongs(draft)
    /\ db' = draft'
    /\ Enter(p, "members")
    /\ UNCHANGED <<legacy, writer, mode, saw>>

InsertArtists(p) == RunStatement(p, "artists", "songs", WithArtists(draft))
FillSongs(p) == RunStatement(p, "songs", "members", WithSongs(draft))
FillMembers(p) == RunStatement(p, "members", "invitations", WithMembers(draft))
CheckInvitations(p) == RunStatement(p, "invitations", "commit", draft)

\* Indexes, the version row, and COMMIT.
CommitUpgrade(p) ==
    /\ pc[p] = "commit"
    /\ ~Refuses("commit", draft)
    /\ db' = [draft EXCEPT !.ready = TRUE]
    /\ draft' = db'
    /\ writer' = None
    /\ Leave(p, IF mode[p] = "up" THEN "exited" ELSE "serving")
    /\ UNCHANGED legacy

\* The transaction, if there is one, is rolled back.
Rollback(p) ==
    IF writer = p THEN writer' = None /\ draft' = db
    ELSE UNCHANGED <<writer, draft>>

\* Variant: the transaction is left open.
UpgradeRefused_NoRollback(p) ==
    /\ pc[p] \in UpgradeStages
    /\ Refuses(pc[p], draft)
    /\ Leave(p, "exited")
    /\ UNCHANGED <<legacy, db, writer, draft>>

UpgradeRefused(p) ==
    /\ pc[p] \in UpgradeStages
    /\ Refuses(pc[p], draft)
    /\ Rollback(p)
    /\ Leave(p, "exited")
    /\ UNCHANGED <<legacy, db>>

\* The connection is lost, a deadlock is broken, or the process is killed: it
\* does not handle signals yet.
StartFails(p) ==
    /\ pc[p] \in {"validating", "opened", "waiting"} \cup UpgradeStages
    /\ Rollback(p)
    /\ Leave(p, "exited")
    /\ UNCHANGED <<legacy, db>>

StartStep(p) ==
    \/ Validate(p)
    \/ LookForTables(p)
    \/ GetLocks(p)
    \/ Collide(p)
    \/ InsertArtists(p)
    \/ FillSongs(p)
    \/ FillMembers(p)
    \/ CheckInvitations(p)
    \/ CommitUpgrade(p)
    \/ UpgradeRefused(p)

-----------------------------------------------------------------------------
(* Properties *)

\* The database and the draft hold rows of their schema, and a process holds
\* the locks exactly in the stages of the upgrade.
MigrationTypeOK ==
    /\ legacy \in Legacy
    /\ db \in Database
    /\ draft \in Database
    /\ mode \in [Procs -> Modes \cup {"none"}]
    /\ saw \in [Procs -> BOOLEAN]
    /\ \A p \in Procs : pc[p] \in UpgradeStages <=> writer = p
    /\ writer = None => draft = db

\* An upgrade that fails or dies at any statement leaves the old database: as
\* long as no upgrade has committed, no song has got an artist and no account a
\* membership.
UpgradeIsAllOrNothing == ~db.ready => OldDatabase(db, legacy)

\* Once the version is recorded, every song belongs to the artist its old slug
\* names, and that artist exists.
SongsKeepTheirArtist ==
    db.ready => \A s \in Songs : db.songs[s] # NoRow =>
        db.songs[s] = legacy.slug[s] /\ db.songs[s] \in db.artists

\* Once the version is recorded, every account of the old database that is
\* still there administers the artist it had, and that artist exists.
AccountsKeepTheirArtist ==
    db.ready => \A u \in db.users : legacy.artist[u] # NoArtist =>
        <<u, legacy.artist[u]>> \in db.members /\ legacy.artist[u] \in db.artists

\* An upgrade takes its artist from nothing that has one, however many processes
\* try it, die in it or run it again.
UpgradeKeepsArtists == SongsKeepTheirArtist /\ AccountsKeepTheirArtist

=============================================================================
