# A verification of songdock in TLA+

songdock is a Go web service in which musicians publish song pages. A platform
administrator creates artists and hands out invitation codes; whoever redeems a
code gets an account that administers one artist, and edits that artist's songs
and their cover artwork. The service runs as one or more processes over SQLite
or PostgreSQL, with artwork files in a directory or an S3 bucket.

The modules here model the parts of the service that keep state: what each
operation reads and writes, in which steps, and what may run in between. TLC
checks them on small instances and TLAPS proves the most important results for
instances of any size. Paths below are relative to `src/`.

## The system

| component | source | state | operations |
|---|---|---|---|
| account tables | `internal/store/sqlite_*.go`, `store.go` | artists, users, user_artists, user_invitations, user_token_revocations | one repository method = one transaction |
| the same on PostgreSQL | `internal/store/postgres.go` | the same tables | the same methods, READ COMMITTED |
| artist administration | `internal/admin/server.go`, `session.go` | signed cookies and open pages in browsers; local variables of handlers | register, login, settings, choice of artist, logout |
| songs and artwork | `internal/admin/server.go`, `internal/store/sqlite_song.go`, `internal/artwork` | table songs; files in storage | create, update, remove artwork, delete, delete artist |
| rate limiter | `internal/admin/ratelimit.go` | map of buckets behind a mutex | Allow, Reset |
| platform administration | `internal/platformadmin/server.go` | none of its own | create and delete artists; create, reissue, revoke invitations; delete users |
| migrations | `internal/store/migrate.go`, `postgres_migrate.go` | the schema and its version | run at start-up, or by `songdock migrate` |
| server | `cmd/songdock/main.go` | two goroutines and a channel, the listener, requests in flight, the connection pool | start, serve, graceful shutdown, exit |
| public pages | `cmd/songdock/router.go`, `internal/artwork/artwork.go` | none | show a song, serve its artwork |
| routing, views, configuration | `cmd/songdock/router.go`, `*_templ.go`, `config.go` | none | none that changes state |

How they interact. `net/http` runs every request in a goroutine. A handler makes
several repository and storage calls with no transaction and no lock around
them, so everything it learnt from one call may be stale at the next. The
repository methods are transactions; storage is not covered by any transaction;
sessions are signed tokens that no table lists, and are revoked only through
`user_token_revocations`.

What makes each part correct, and what is hard about it:

* Account tables: five tables that must agree after any sequence of calls
  (memberships and invitations point at rows that exist, an accepted invitation
  has its account, revoked ids are exactly the deleted ones). Long sequences of
  reissue, expiry and deletion must never revive a code.
* Artist administration: a registration hashes a password between looking up an
  invitation and redeeming it; a login mints a token for a user it looked up
  before; a write uses memberships read before. Deletion, revocation, expiry and
  reissue can fall in between.
* The pages of the artist administration: no form names an artist. The server finds it
  anew for every request from two cookies with lives of their own, which other tabs
  and earlier users of the browser change.
* Songs and artwork: a row and a file cannot change together. Order, failure and
  crash decide whether a page shows a missing file or a file is left behind;
  concurrent requests work from stale copies of the row; an artist's slug may pass
  to a new artist while a request that resolved it is running.
* Rate limiter: the map is bounded, so something live may have to be evicted, and
  the clock is read outside the mutex.
* Public pages: a page is rendered at one time and asks for its artwork at another; the
  answer may be cached for a year, so half a file must never be served.
* Migrations: crash between statements, several processes at once, old columns that
  every start reads again.
* Server: the signal, the listener, requests, the deadline of the shutdown and the
  closing of the pool may come in any order; an exit without an error is a promise
  that no request was cut short.

## Modules

| module | what it models |
|---|---|
| `InvitationCodes` | the promise about a code, without tables or requests: unissued, open, then used by one new account or closed, both for ever |
| `AccountStore` | the account tables; one action per repository method that writes them |
| `AdminSite` | extends `AccountStore` with the handlers for registration, login and settings, each a record with a program counter and its local variables |
| `AdminPages` | one browser with several tabs: cookies, pages and forms of the artist administration |
| `PgAccounts` | extends `AccountStore`'s tables with PostgreSQL transactions, one action per statement |
| `SqliteMigration` | `migrate` on an old SQLite database, statement by statement, with crashes and restarts |
| `PgMigration` | the starts of a process on PostgreSQL: `serve` with or without upgrading, `migrate up`; the upgrade statement by statement |
| `Deployment` | extends `PgMigration`: several processes that start, serve requests, shut down, exit, die and start again on one database |
| `SongArtwork` | songs, files in storage, the four song handlers, the deletion of artists and its clean-up |
| `SongFiles` | extends `SongArtwork` with the steps of the filesystem driver, crashes of the process, and visitors of public pages |
| `RateLimiter` | the limiter, its mutex and its clock |
| `AccountStore_proofs`, `AdminSite_proofs`, `AdminPages_proofs`, `PgAccounts_proofs`, `SqliteMigration_proofs`, `Deployment_proofs`, `SongFiles_proofs`, `RateLimiter_proofs` | theorems about the modules they are named for; the first two also about `InvitationCodes`, `Deployment_proofs` about `PgMigration`, `SongFiles_proofs` about `SongArtwork` |
| `MC*` | small instances, symmetry sets |

`AccountStore` and `AdminSite` are both shown to implement `InvitationCodes`
(property `CodesSpec`): `holders` is the history of redemptions and `fate` is
computed from the tables by `CodeFate`. `AdminSite` also implements `AccountStore`. The
committed tables of `PgAccounts` implement it up to four overlaps that the model names
(property `OverlapsAreNamed`).

Conventions. A table is a function from ids to a row or `NoRow`. A method that
returns an error rolls back and changes nothing, so it is the absence of a step.
In `AdminSite` and `SongArtwork`, `req[r]` is what the handler of request `r` is doing; it
is reused after the request ends. History variables (`issued`, `redemptions`,
`tokens`, `home`, `usedKeys`, `leaked`, `dangling`, the field `seen` of a
deletion, `permits`, `evicted`, `chosen`, `gone`) record what happened and are not read by any
action, except that a code, an artwork key or an AUTOINCREMENT id that was drawn once is not
drawn again. Operators marked "Variant" are the model with a
plausible bug; nothing uses them, they are there to confirm that each property
notices that bug.

### AccountStore

SQLite lets only one transaction write on a given snapshot, so a method is one
atomic step whose guard is the conjunction of the conditions under which it
commits. E-mail addresses are normalized before they reach the store. A code
stands for its HMAC. `AUTOINCREMENT` never repeats an id, which is what `everUsed`
says. `InvitationStatus` is `invitationStatus`, with the strict boundary of
`sqlite_helpers.go:24`: an invitation is expired from the second `expires_at` on.
`CreateUser` is not modelled because no production code calls it.

### PgAccounts

On PostgreSQL a method is a transaction of several statements, and pooled
connections and replicas run several at once. `tx[t]` is what connection `t` has
read, locked and written; the tables change at COMMIT. In READ COMMITTED a
statement that needs a row, a unique key or a referenced row that another transaction holds
waits for its end and then looks again, so here it is not enabled until then: `FOR UPDATE`
and DELETE put the row in `invs` or `members`, a pending account keeps its e-mail. Identity
values are used up even when a transaction rolls back. `Abort` is every error return, a lost
connection, and the victim of a deadlock. The last
statement of a transaction that may wait is joined with
what follows it and the COMMIT: after it the transaction holds all it needs, and what it has
written is seen by nobody. `DELETE FROM artists` is two steps: `LockArtistRow` takes the row,
for which whoever writes a reference to it waits from then on (`FreeArtist`), and
`DeleteArtistRow` is its referential check, which waits for references that others have
locked or are deleting, and COMMIT. A connection lost during COMMIT is a commit or an abort:
the tables cannot tell.

`WaitsFor` says who waits for whom: for invitations and memberships, for the row of an artist,
for references to it, and for unique keys. Left out are waits of statements
that are one step with their COMMIT for a row that somebody holds who waits for nothing more,
and those of an INSERT of an invitation for its e-mail: nobody waits for a transaction that
invites but another one with that e-mail. These close no circle. A DELETE takes all its rows
at once, so two deletions that meet the rows of one artist in different orders are not told apart,
and songs have no rows here: whoever writes one does so in one statement, which holds nothing
while it waits. Any deadlock is an `Abort`.

What no lock protects between its check and the COMMIT is named by an operator each:
`LateRedemption` (the invitation has expired since its check), `LateDeletion` (the artist has
got an administrator since they were counted, see the findings), `LateInvitation` (the e-mail
has got an account since, whose invitation was lost to another overlap) and `RepeatedDeletion`
(an account is deleted twice at once, which takes the invitations of its e-mail twice). Every
other commit is a step of `AccountStore` on the committed tables, with the ids that committed
rows have had in place of those that were drawn. `AcceptedIffAccount`, `AccountKeepsItsArtist`
and `CodesSpec` of `AccountStore` therefore do not hold here: a late redemption uses a code
that is closed. `AcceptedHasAccount`, `AccountKeepsArtistThatExists` and
`RedeemedWhileOffered` are what is left of them.

### SqliteMigration

`Init` is every old database: songs that name their artist by slug or by id,
accounts with a column `artist_id`, a table `user_artists`, both or neither. Each
statement that moves data commits on its own, except the rebuild of `users`, which is a
transaction. `Stop` is a crash or an error, also the one about e-mails that
differ in case only; it loses the temporary table. Statements that add an empty
table, column or index are left out: they are skipped when repeated.

### PgMigration and Deployment

`Init` is every old PostgreSQL database: songs with or without an artist slug, accounts with
or without `users.artist_id`, and the flaws for which the upgrade refuses it (`Refuses`): two
names for one artist slug, an invitation without an artist, two e-mails that differ in
case only. `legacy` is what the old columns hold; they are kept, and every later start reads
them again. The upgrade is one transaction: `draft` is what it sees, and its locks admit one
`writer`. `CREATE TABLE IF NOT EXISTS` looks for the table before it waits for the lock, so
the loser of two first upgrades fails (`Collide`) and has to be started again. Requests of
the old program are not modelled: a database is first upgraded when the old program has stopped.

`Deployment` adds what `serve` and `serveHTTPServer` do with a process that has started: the
listening goroutine, its channel of capacity one, the `select`, `Shutdown` with its ten
seconds, the error that takes precedence, the deferred `Close` of the pool, the exit. A
running request may redeem an invitation, delete an account or delete an artist; the first
and the last need locks that an upgrade holds, so they wait for it. The deletion of an
account meets such locks only near the end of an upgrade (its unique indexes); it does not wait
here, which only allows more. `Killed` is SIGKILL,
`StartFails` any error or death before the server listens, when signals are not handled yet.

### AdminSite

The steps of `HandleRegisterSubmit` are the lookup, the hashing of the password
(during which anything may happen), the redemption with the id, hash and e-mail
of the lookup, and the minting of a token. Login is lookup and minting. A settings
request authenticates, lists its artists, picks the one its cookie names or the
first, and writes by artist id. `RequestFails` is any error return, a wrong
password, or the end of the process. `tokens` is every token ever given out:
logging out only clears a cookie, so any of them may be presented at any time.

### AdminPages

The two cookies are `session` and `choice`; `tab[t]` is the page a tab shows, with the artist
it was rendered for, and `old` records that another tab has changed a cookie since. Every form
is one step, which works for `ActiveArtistOf` at that moment; what happens between the steps of
a handler is in `AdminSite` and `SongArtwork`. `Init` allows accounts with several artists: the
code handles them, though the program itself creates none (they come from old databases or
from rows written by hand).

### SongArtwork and SongFiles

The four handlers share their steps: read by artist slug and song slug, store a
file under a fresh key, write the row by artist id, remove a file.
`RequestDies` is a crash, or an error of storage that the code only logs; it records
in `leaked` what the handler was holding. `WriteFails` is a database error of a statement that
had no effect. `InsertUnseen`, `UpdateUnseen` and `DeleteUnseen` are the loss of a PostgreSQL
connection after the commit, which the handler takes for a refusal; `UploadUnseen` is the same
for an object that the bucket has stored. A title is the sequence of slugs
that `insertSongWithUniqueSlug` tries. Who administers an artist is reduced to
whether anybody does (`administered`), since `DeleteArtist` refuses otherwise.

The deletion of an artist is two steps, because on PostgreSQL its statements see what others
have committed by then. `BeginDeletion` has found the artist without administrators and read
the keys its songs name; `DeleteRows` deletes the rows there are by now and commits. Between
them a song may be added or get another file: its row goes, and its key is not among those
read (`Unseen`). What commits after `DELETE FROM songs` makes `DELETE FROM artists` fail on the
foreign key or waits and finds no row, so that the deletes and COMMIT can be one step.
`DeleteArtist` hands the keys to the handler, which removes the files one by one (`CleanUp`);
`DeleteArtistUnseen` is a COMMIT whose answer is lost, after which the handler removes none;
`DeletionFails` is every rollback. On SQLite the two steps follow one another, which is among
these behaviours.

In `SongFiles` a file is put by creating, writing and renaming a temporary file, each of which
may fail or be cut by `Crash`, which ends all handlers at once, runs no deferred call and rolls
open transactions back. It may happen any number of times. The temporary files it leaves are
forgotten by the model as by the program: their names are not drawn again.
A visitor reads the song's page and asks for the artwork of that page later.

### RateLimiter

`ReadClock` is the first line of `Allow` and `Allow` the rest, under the mutex. `permits`
is a limiter with no bound on its map, kept as a history for comparison; `evicted` are the
keys for which the two may differ.

## What TLC checks

| run | instance | distinct states | shows |
|---|---|---|---|
| `account_store` | 2 artists, 2 users, 2 invitation rows, 2 codes, 2 e-mails, lifetime 1, time 0..3 | 102 thousand | the tables agree after any sequence of methods, ids are for ever, the promise about codes is kept, and an open code ends even if nobody acts |
| `admin_site` | 2 artists, 2 users, 2 rows, 2 codes, 2 e-mails, 2 requests | 151 thousand | sessions, settings and redemptions are right under every interleaving |
| `admin_pages` | 2 artists, 2 accounts, 2 tabs, 1 song slug, session lifetime 1, time 0..2 | 487 thousand | when a form can be taken for another artist than its page shows, and that nobody works for an artist somebody else chose |
| `pg_accounts` | 2 artists, 2 users, 2 rows, 2 codes, 1 e-mail, 3 transactions, time 0..1 | 282 thousand | what holds however the statements of three transactions interleave, which deletions of artists a deadlock needs, and that every commit is a method of the store or a named overlap |
| `pg_delete_artist` | 1 of each, 2 transactions | | finds the deleted administrator described below |
| `song_artwork` | 2 artist ids for one slug, 1 song slug, 2 keys, 2 requests, 1 deletion | 536 thousand | whatever interleaves and fails, no request touches a file of another song or artist, no row shows a missing file but after a stale or unseen write, and every file is accounted for, also when songs are written while their artist is deleted |
| `song_files` | 1 artist, 2 song slugs, 1 key, 2 requests, 1 deletion, 1 visitor, any number of crashes | 282 thousand | nobody is sent half a file, only old pages miss their artwork, crashes forget no file but those that handlers held, every request ends |
| `song_artwork_remove` | 1 artist, 2 keys, 2 requests | | finds the orphaned artwork described below |
| `rate_limiter` | 3 keys, 2 buckets, 2 requests, window 2, time 0..3 | 559 thousand | the map is bounded and drops live windows last; a key that was not evicted gets `max` permits per window |
| `sqlite_migration` | 2 songs, 2 users, 2 artists, 3 crashes | 130 thousand | an upgrade cut anywhere loses no membership and can be completed |
| `sqlite_migration_cut` | 1 of each, 1 crash | | finds the songs without an artist described below |
| `deployment` | 2 processes, 2 starts, 1 song, artist, account and request each, at most one flaw | 138 thousand | an upgrade is all or nothing and takes nothing away, requests see an upgraded database, cut requests are reported, starts and stops end |

Bounds. `MaxTime` stops the clock; `LifeFitsClock` issues invitations only while their whole life fits
it, so that every issued code can be seen to expire. An invitation that is created, expires, is
reissued and redeemed needs two codes and two ticks. Two users, two artists and two e-mails are what
the pairwise properties compare, and a deleted one of each can be followed by its
successor. `KeysLeft` starts a request with a file only while a key is left, so
that running out of keys never stops a handler. `maxSlugAttempts` (1000) is two, the
lifetime of an invitation and a session one or two ticks, `max` and
`maxRateLimitBuckets` two: each is reached, and passed where the code lets it be
passed. Three transactions of `postgresMaxOpenConns` (10) are enough for a statement
of one to fall between two of another, and for a third to change what both rely on. In
`song_artwork` the two artists follow each other under one slug, which is the case in which a
request by slug can meet the wrong one, and the one song slug is that of a song of each; artists
that exist at once and more songs are covered by the proof. An insert is not retried there: the
search among several slugs (`TryInsert`) is in `song_files`. Two
processes let one upgrade, serve or die while the other starts, and with two starts a process
also restarts alone. Three
crashes let one fall before, in and after the part that the last one repeated. What the runs check for
safety is proved for every size. Every run
stops when its ids, its keys, its clock or its starts are used up, hence
`CHECK_DEADLOCK FALSE`. Symmetry sets contain only values the modules compare for equality; the
runs that check liveness use none. Type invariants that are proved are not spent on a run.

Fairness. `account_store` assumes only that time passes (`WF(Tick)`).
`song_files` assumes weak fairness of each handler's ordinary steps: a
goroutine keeps running until its handler returns, since it waits for nothing but the
database and the file system, which answer or fail. It assumes nothing about
failures, which may or may not happen, nor about new requests, visitors or clean-ups.
`sqlite_migration` assumes that a started program executes its statements and that a stopped
one is started again; nobody has to normalize e-mails. `deployment` assumes that each start,
each listening goroutine and each main goroutine runs on, and that the ten seconds of
`Shutdown` pass: requests need not end, nothing has to fail, and nobody has to send a signal or
start a process again.

Some things do not hold without their exceptions, and the properties name these.
`ShownArtworkExists`: an update without a file writes back the key it had read, and a
concurrent replacement may have removed that file; and a write that PostgreSQL commits
without being able to say so makes the handler remove the file the row now names.
`NoFileForgotten`: a failed removal, a crash, a lost answer (also to the COMMIT of a deletion of an
artist), a write over a row that had changed since it was read, and a write to a row whose
artist is being deleted and whose key had been read before, leave a file that no row names
(`leaked`); the error paths of the handlers leave none. `PermitsMaxPerWindow`: past `maxRateLimitBuckets`
a live window may be evicted, and its key starts again with a full allowance, which
is the price of the bound; `LockoutLasts` says when that may happen. `StrayWritesHaveACause`: a
choice of artist lives no longer than a session, so one made in an earlier session may run out
in the middle of this one, and forms that were opened before go to the first artist. No
document of the repository claims otherwise.

Findings, each reproduced by a run that TLC must find violated:

* `song_artwork_remove`: `HandleRemoveArtworkSubmit` (`internal/admin/server.go:750`)
  reads the song, clears its artwork and then removes the file it had read. If an
  update replaces the artwork in between, the row loses the new key and storage the
  old file: the "current artwork" of the comment on line 749 stays in storage, named
  by no row.
* `pg_delete_artist`: on PostgreSQL, `DeleteArtist` counts the administrators
  (`postgres.go:521`) and deletes memberships (`postgres.go:557`) without locking
  anything in between. A registration that commits there gives the artist an
  administrator, who loses the membership and is left with an account and no artist,
  where `store.go:19` promises `ErrArtistHasAdmins`. `DeadlocksNeedLateReference` shows that
  transactions wait for each other in a circle only around a deletion of an artist that has been
  overtaken, by such a registration or by an invitation added behind its DELETEs.
* `sqlite_migration_cut`: `migrate` fills `songs.artist_id` only in the start that adds
  the column. If that start dies in between, no later one back-fills "every existing
  song row" (`migrate.go:106`), and the songs have no artist for ever.

Observations that contradict no document. On PostgreSQL, the file of a song that is added or
changed between the SELECT of the keys (`postgres.go:528`) and `DELETE FROM songs`
(`postgres.go:558`) stays in storage when its artist is deleted, and so do all files of the
artist when the answer to the COMMIT is lost. A crash in the middle of an upload leaves the temporary file
(`filesystem.go:32`). An old PostgreSQL database in which two songs call
one artist slug by different names cannot be upgraded until somebody edits the songs, because
one `INSERT ... ON CONFLICT DO UPDATE` may not touch an artist twice.

## What is proved

`tlapm` checks the eight modules of theorems with no assumption other
than those the modules declare on their constants (special values are distinct from rows;
lifetimes and bounds are natural numbers; in `SongFiles` the requests in flight are finitely
many). They hold for any number of rows, codes, requests, processes and ticks.

* `StoreInvariant`: `StoreSpec => []StoreInv`. `StoreInv` is inductive. The
  properties alone are not: that a code opens one account needs that a row
  still carrying a redeemed code is accepted (`RedemptionsAreFinal`), that redeemed
  accounts have ids that will not come again (`IdsOfRowsAreUsed`), and that rows say
  what their codes were issued for (`RowsMatchGrants`). There is one lemma per
  repository method for the types and one for the rest.
* `ForeignKeysAlwaysHold`, `AcceptedAlwaysIffAccount`, `AccountsAlwaysKeepTheirArtist`,
  `CodesOpenOneAccount`, `RevocationIsDeletion` follow from it, and `IdsStayForEver`
  is the action property.
* `StoreKeepsPromise`: `StoreSpec => CodesSpec`, step by step: creating or reissuing issues
  a code, redeeming uses it, and everything else closes a set of codes or stutters.
  `PromiseIsEnough`: `CodesSpec` alone, whoever implements it, keeps a code from opening two
  accounts, by the small invariant `HoldersAreFinal`. `FatesAreAlwaysFinal`: used and closed
  codes stay so.
* `SiteInvariant`: `SiteSpec => []SiteInv`. It adds what a handler's local variables
  are still worth after others have run (`LocalsAreSound`): an account that was
  seen still has its e-mail or is gone for ever, and a membership that was read still exists
  or its account is revoked. Sessions, writers, settings and `AlwaysRedeemedAsGranted` follow.
  `SiteImplementsStore`: `SiteSpec => StoreSpec`, one case per handler step, so that what is
  proved of the store (`SiteKeepsPromise`, `SiteFatesAreFinal`) holds of the site without a
  second proof.
* `PgInvariant`: `PgSpec => []PgInv`. `TablesInv` is what the committed tables are like;
  `Jobs` says what each open transaction may rely on (the invitation it has locked is still the
  one it read, the account it has inserted is in no table, the administrators it has counted may be
  out of date); `LocksExclude` that no two transactions hold the same row or key. A statement
  that only reads, locks or writes for its own eyes changes no table (`QuietStep`), a COMMIT
  changes them under the locks of all others (`CommitStep`), and a method of one statement does
  both (`LoneStep`); each statement has a lemma that says which of the three it is, and each
  COMMIT one that what the others rely on survives it. The five safety invariants of the run
  and `RedeemedWhileOffered` follow.
* `DeadlocksAlwaysNeedLateReference`, for a circle of any length, without following the circle
  round: in a set in which everybody waits for somebody of the set, whoever holds a wanted
  invitation, membership or artist has to be waiting too, and the order in which methods take
  them leaves one kind of transaction that can: a deletion of an artist, either
  at its memberships, one of which is of an account it has not counted, or at its row, which
  something references that its DELETEs did not find.
* `OverlapsAreAlwaysNamed`: the refinement, one lemma per COMMIT, each with the case in which
  it is a method of `AccountStore` and the case in which an overlap made its check late.
* `PagesInvariant`: a page that is not `old` shows the artist that the present cookies select,
  or the first one after the choice has run out (`PagesShowTheirArtist`), and a choice kept in
  the browser was made by its account (`ChoicesWereMade`). `StrayWritesAlwaysHaveACause` and
  `WritesAlwaysFollowOnesOwnChoice` are action properties that follow from it; the first needs
  that a choice made in a session ends no earlier than the session.
* `ArtworkInvariant`: next to the properties it holds what the tables are like (`TablesOK`), that
  a key named by a row was drawn for an artist id in use (`HomesAreUsed`), what a handler's
  local variables are still worth (`JobsOK`: the key it read belongs to the song it read, the
  key it stored to no row), and that no two requests hold the same fresh key
  (`FreshKeysAreOnesOwn`). Without the last two, a removal could be of somebody else's file.
  `DeletionsOK` says what the keys read by an open deletion are worth after others have
  written: they are still keys of that artist's songs, which no other row will name.
  Each handler step, fault and platform step has a lemma. All five properties of the run
  `song_artwork` follow.
* `FilesInvariant`: contains that invariant and adds that the files with all their data are
  the files under a key (`whole = blobs`) and what a visitor's page is worth (`PageOK`). Steps
  that touch rows only are taken over from the first part of the module. That no file is
  forgotten holds through every crash too (`NoFileIsEverForgottenByCrashes`). `FilesImplementArtwork`
  says that a crash is the only step of the driver that is not one of `SongArtwork`.
* `LimiterInvariant`: the bounded map and the unbounded history agree on every key that was not
  evicted (`MapIsHistory`), and no request brings a reading later than the clock
  (`ReadingsArePast`). `MapStaysBounded` and `AtMostMaxPermits` follow; `LockoutAlwaysLasts`
  follows the choice of `evictOldest` through one `Allow`.
* `NoMembershipIsLost`, `ServedInvitationsExpire` (with `MigrationTypes`), for every old
  database and any number of crashes. The invariant adds that the temporary table holds all memberships while
  `users` waits to be rebuilt (`CollectedIsComplete`), and that no start gets past the
  e-mail check without having filled the expiry (`FilledBeforeServing`).
* `DeploymentInvariant`: before the first commit the database is the old one and the draft on
  the way up (`DatabaseOK`, `DraftOK`); after it every song and account has its artist, in the
  draft too, because an upgrade of an upgraded database changes nothing. That is why
  memberships stay gone although each start inserts those of `users.artist_id` again: an
  account loses its membership only together with its row, whose id does not come again
  (`MembersOK`). `ReplicaOK` ties the states of the goroutines together, which gives
  `CutsAreAlwaysReported` and `RequestsAlwaysSeeCurrentSchema`.

Liveness is out of the prover's reach: it needs fairness and ENABLED. What each liveness
property rests on besides is proved: that a measure of the work left goes down with every step
of its owner and that nobody else can raise it, and that nobody waits for what will not come.

| checked by TLC | proved part |
|---|---|
| `OpenCodesClose` | `OpenCodesAlwaysRunOut`: the end of an open code lies ahead and at most a lifetime away |
| `RequestsEnd` | `WorkAlwaysOnlyShrinks`: the steps a handler has left, slugs still to be tried and the steps of `Put` included; neither the slugs that others take nor failures add to them |
| `MigrationEnds` | `UpgradeAlwaysAdvances`: no statement of `migrate` leads back, and only a crash makes it begin again |
| `StartsEnd`, `SignalsStop` | `StepsAlwaysRunOut`: a process has at most eighteen steps from start to exit; `NobodyEverHangs`: the main goroutine never waits for a report that was received or that will not be made, and whoever waits for the locks of an upgrade waits for a process that can go on (`CanGoOn`, which TLC finds equal to ENABLED of its steps in the instance of `deployment`) |

Left to TLC alone: that these five properties follow from the fairness assumed above.

## What is not modelled, and the plan

Planned: a start of SQLite with `SONGDOCK_AUTO_MIGRATE=false` after an upgrade that failed.
`validateSQLiteSchema` only counts tables, so it accepts a schema that lacks what the
upgrade had still to add.

Not planned, because there is no state that several steps could bring out of order: HTML views
and generated templates (which forms they offer is in `AdminPages`), routing, headers and the
policy for links, configuration, cryptography (HMAC, PBKDF2, the encoding of tokens), and the
choice of a slug from a title, a function of one string which the unit tests cover. Two
settings forms saved one after the other overwrite each other; nothing in the code or its
documents is against it. That a renamed file survives a power cut is up to the file system,
since the code does not call `fsync`. The order in which the `ALTER TABLE` statements of an
upgrade take their locks is not told from taking them at once: replicas of the same version
take them in the same order.
