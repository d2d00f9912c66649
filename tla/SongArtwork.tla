----------------------------- MODULE SongArtwork -----------------------------
(***************************************************************************)
(* Songs and the files of their cover artwork.  A song's row names its     *)
(* artwork by a storage key; the file is in a directory or a bucket that   *)
(* no database transaction covers.  The handlers of src/internal/admin     *)
(* therefore read a row, store or remove a file and write the row in steps *)
(* of their own, while other requests and the deletion of artists by the   *)
(* platform administrator run in between, and any step may fail.           *)
(*                                                                         *)
(* Abstracted: every other column of a song, image validation, and who     *)
(* administers an artist, reduced here to whether anybody does (the        *)
(* accounts are in module AccountStore).                                   *)
(***************************************************************************)
EXTENDS Naturals, FiniteSets, Sequences

CONSTANTS
    ArtistIDs, Slugs,   \* artists and their slugs
    SongSlugs,          \* slugs of songs
    Titles,             \* a title is the sequence of slugs tried for it
    Keys,               \* artwork keys
    Requests,           \* song requests that may be in flight together
    Deleters,           \* deletions of artists that may be in flight together
    NoRow,              \* no row under this id or slug
    NoArt               \* artwork_path = '': a song without artwork

ASSUME TitlesAssumption ==
    \A t \in Titles : t \in Seq(SongSlugs) /\ t # <<>>
ASSUME NoArtAssumption == NoArt \notin Keys
ASSUME NoRowAssumption ==
    NoRow \notin Slugs \cup Keys \cup {NoArt} \cup (ArtistIDs \X SongSlugs)

VARIABLES
    artists,        \* id -> slug or NoRow
    usedIDs,        \* the artist ids AUTOINCREMENT has passed
    administered,   \* the artists with a row in user_artists
    songs,          \* artist id -> song slug -> artwork_path, or NoRow
    blobs,          \* the keys whose file is in storage
    cleanup,        \* keys the platform administrator has yet to remove
    deletions,      \* deletion -> the open transaction that deletes an artist
    req,            \* request -> what its handler is doing
    usedKeys,       \* keys drawn so far (16 random bytes: never repeated)
    home,           \* key -> the first song whose row named it (history)
    leaked,         \* keys left behind by a failure or a stale step (history)
    dangling        \* keys a row may name after their file has gone (history)

tables == <<artists, usedIDs, administered, songs>>
histories == <<usedKeys, home, leaked, dangling>>
vars == <<tables, blobs, cleanup, deletions, req, histories>>

Artwork == Keys \cup {NoArt}
Idle == [pc |-> "idle"]

\* "replace" is an update whose form carries a file.
EditKinds == {"update", "replace", "remove", "delete"}

RequestState ==
    {Idle}
    \cup [pc : {"uploading", "inserting"}, kind : {"create"},
          artist : ArtistIDs, title : Titles, attempt : Nat, new : Artwork]
    \cup [pc : {"reading", "uploading", "updating", "deleting"},
          kind : EditKinds, artist : ArtistIDs, artistSlug : Slugs,
          song : SongSlugs, old : Artwork, new : Artwork]
    \cup [pc : {"removing"}, artist : ArtistIDs, key : Keys]

\* The artist to delete, the keys read for the clean-up, and all keys that the
\* artist's songs named then (history).
NoDeletion == [at |-> "none"]
DeletionState ==
    {NoDeletion} \cup [at : {"rows"}, artist : ArtistIDs,
                      paths : SUBSET Keys, seen : SUBSET Keys]

Init ==
    /\ artists = [a \in ArtistIDs |-> NoRow]
    /\ usedIDs = {}
    /\ administered = {}
    /\ songs = [a \in ArtistIDs |-> [s \in SongSlugs |-> NoRow]]
    /\ blobs = {}
    /\ cleanup = {}
    /\ deletions = [d \in Deleters |-> NoDeletion]
    /\ req = [r \in Requests |-> Idle]
    /\ usedKeys = {}
    /\ home = [k \in Keys |-> NoRow]
    /\ leaked = {}
    /\ dangling = {}

Goto(r, state) == req' = [req EXCEPT ![r] = state]

\* removeArtwork as the last thing a handler does, if there is a key.
RemoveThenFinish(r, k) ==
    Goto(r, IF k = NoArt THEN Idle
            ELSE [pc |-> "removing", artist |-> req[r].artist, key |-> k])

\* Variant: whatever key the handler holds.
Fresh_AnyKind(job) == job.new

\* The file this request stored and no row names yet.
Fresh(job) == IF job.kind \in {"create", "replace"} THEN job.new ELSE NoArt

\* The row of song s of artist a now names k.
WriteRow(a, s, k) ==
    /\ songs' = [songs EXCEPT ![a][s] = k]
    /\ home' = [j \in Keys |->
                   IF j = k /\ home[j] = NoRow THEN <<a, s>> ELSE home[j]]

\* What the row names now, if that is not what this handler read in it.
Overwritten(job) == {songs[job.artist][job.song]} \ {job.old, NoArt}

\* A key that an update without a file writes back though the row has changed.
WrittenBack(job) ==
    IF job.kind = "update" /\ songs[job.artist][job.song] # job.old
    THEN {job.old} \ {NoArt} ELSE {}

-----------------------------------------------------------------------------
(* Requests of an artist's administrator *)

\* Bound: a request whose form has a file starts while a key is left for it.
WillUpload(job) ==
    \/ job.pc = "uploading"
    \/ job.pc = "reading" /\ job.kind = "replace"
KeysLeft ==
    Cardinality(usedKeys) + Cardinality({r \in Requests : WillUpload(req[r])})
        < Cardinality(Keys)

\* HandleCreateSongSubmit, up to the artist the session is working for.
StartCreate(r, a, t, pc) ==
    /\ req[r] = Idle
    /\ a \in administered
    /\ pc = "uploading" => KeysLeft
    /\ Goto(r, [pc |-> pc, kind |-> "create", artist |-> a, title |-> t,
                attempt |-> 1, new |-> NoArt])
    /\ UNCHANGED <<tables, blobs, cleanup, deletions, histories>>

\* HandleUpdateSongSubmit, HandleRemoveArtworkSubmit, HandleDeleteSongSubmit.
StartEdit(r, kind, a, s) ==
    /\ req[r] = Idle
    /\ a \in administered
    /\ kind = "replace" => KeysLeft
    /\ Goto(r, [pc |-> "reading", kind |-> kind, artist |-> a,
                artistSlug |-> artists[a], song |-> s,
                old |-> NoArt, new |-> NoArt])
    /\ UNCHANGED <<tables, blobs, cleanup, deletions, histories>>

\* FindBySlug looks for the artist by slug; the writes go by artist id.
FindBySlug(artistSlug, s) ==
    {a \in ArtistIDs : artists[a] = artistSlug /\ songs[a][s] # NoRow}

AfterRead(kind, old) ==
    CASE kind = "replace" -> "uploading"
      [] kind = "delete" -> "deleting"
      [] kind = "remove" /\ old = NoArt -> "idle"
      [] OTHER -> "updating"

ReadSong(r) ==
    /\ req[r].pc = "reading"
    /\ LET job == req[r]
           found == FindBySlug(job.artistSlug, job.song)
       IN \/ found = {} /\ Goto(r, Idle)
          \/ \E a \in found :
                LET old == songs[a][job.song]
                    next == AfterRead(job.kind, old)
                IN Goto(r, IF next = "idle" THEN Idle
                           ELSE [job EXCEPT !.pc = next, !.old = old,
                                     !.new = IF job.kind = "update"
                                             THEN old ELSE NoArt])
    /\ UNCHANGED <<tables, blobs, cleanup, deletions, histories>>

\* Variant: the key is a hash of the content, so it may come again.
UploadArtwork_HashedKey(r, k) ==
    /\ req[r].pc = "uploading"
    /\ blobs' = blobs \cup {k}
    /\ usedKeys' = usedKeys \cup {k}
    /\ Goto(r, [req[r] EXCEPT !.new = k,
                    !.pc = IF req[r].kind = "create"
                           THEN "inserting" ELSE "updating"])
    /\ UNCHANGED <<tables, cleanup, deletions, home, leaked, dangling>>

\* Store.Save draws a key and puts the file.
UploadArtwork(r, k) ==
    /\ req[r].pc = "uploading"
    /\ k \notin usedKeys
    /\ blobs' = blobs \cup {k}
    /\ usedKeys' = usedKeys \cup {k}
    /\ Goto(r, [req[r] EXCEPT !.new = k,
                    !.pc = IF req[r].kind = "create"
                           THEN "inserting" ELSE "updating"])
    /\ UNCHANGED <<tables, cleanup, deletions, home, leaked, dangling>>

\* PutObject has stored the object but its answer is lost: the handler gives
\* up and does not know that there is a file.
UploadUnseen(r, k) ==
    /\ req[r].pc = "uploading"
    /\ k \notin usedKeys
    /\ blobs' = blobs \cup {k}
    /\ usedKeys' = usedKeys \cup {k}
    /\ leaked' = leaked \cup {k}
    /\ Goto(r, Idle)
    /\ UNCHANGED <<tables, cleanup, deletions, home, dangling>>

SongExists(a, s) == songs[a][s] # NoRow

\* The INSERT of the slug that is tried next.
InsertRow(job) ==
    LET s == job.title[job.attempt] IN
        /\ artists[job.artist] # NoRow
        /\ ~SongExists(job.artist, s)
        /\ WriteRow(job.artist, s, job.new)

\* InsertSongForArtist succeeds.
InsertSong(r) ==
    /\ req[r].pc = "inserting"
    /\ InsertRow(req[r])
    /\ Goto(r, Idle)
    /\ UNCHANGED <<artists, usedIDs, administered, blobs, cleanup, deletions,
                   usedKeys, leaked, dangling>>

\* The connection to PostgreSQL is lost after the commit: the handler takes
\* the error for a refusal and removes the file that the row names.
InsertUnseen(r) ==
    /\ req[r].pc = "inserting"
    /\ InsertRow(req[r])
    /\ dangling' = dangling \cup ({req[r].new} \ {NoArt})
    /\ RemoveThenFinish(r, req[r].new)
    /\ UNCHANGED <<artists, usedIDs, administered, blobs, cleanup, deletions,
                   usedKeys, leaked>>

\* Variant: the loop does not count its attempts.
SlugTaken_Spins(r) ==
    /\ req[r].pc = "inserting"
    /\ SongExists(req[r].artist, req[r].title[req[r].attempt])
    /\ req[r].attempt < Len(req[r].title)
    /\ UNCHANGED vars

\* ErrSongAlreadyExists: the next slug is tried, if there is one.
SlugTaken(r) ==
    /\ req[r].pc = "inserting"
    /\ SongExists(req[r].artist, req[r].title[req[r].attempt])
    /\ req[r].attempt < Len(req[r].title)
    /\ Goto(r, [req[r] EXCEPT !.attempt = @ + 1])
    /\ UNCHANGED <<tables, blobs, cleanup, deletions, histories>>

\* insertSongWithUniqueSlug: one turn of its loop that does not fail.
TryInsert(r) ==
    /\ req[r].pc = "inserting"
    /\ IF SongExists(req[r].artist, req[r].title[req[r].attempt])
       THEN SlugTaken(r)
       ELSE InsertSong(r)

\* The UPDATE: the whole row is written from what was read.
UpdateRow(job) ==
    /\ SongExists(job.artist, job.song)
    /\ WriteRow(job.artist, job.song, job.new)
    /\ dangling' = dangling \cup WrittenBack(job)

\* The key of a file that an update has replaced or taken away.
Replaced(job) == IF job.kind = "update" THEN NoArt ELSE job.old

\* Variant: the new file is removed in place of the old one.
UpdateSong_RemovesNew(r) ==
    /\ req[r].pc = "updating"
    /\ UpdateRow(req[r])
    /\ leaked' = leaked \cup Overwritten(req[r])
    /\ RemoveThenFinish(r, IF req[r].kind = "update" THEN NoArt ELSE req[r].new)
    /\ UNCHANGED <<artists, usedIDs, administered, blobs, cleanup, deletions, usedKeys>>

\* The rest of the two handlers that update.
UpdateSong(r) ==
    /\ req[r].pc = "updating"
    /\ UpdateRow(req[r])
    /\ leaked' = leaked \cup Overwritten(req[r])
    /\ RemoveThenFinish(r, Replaced(req[r]))
    /\ UNCHANGED <<artists, usedIDs, administered, blobs, cleanup, deletions, usedKeys>>

\* The same loss of a connection: the new file goes, the old one stays.
UpdateUnseen(r) ==
    /\ req[r].pc = "updating"
    /\ LET job == req[r] IN
          /\ SongExists(job.artist, job.song)
          /\ WriteRow(job.artist, job.song, job.new)
          /\ dangling' = dangling \cup WrittenBack(job)
                                  \cup ({Fresh(job)} \ {NoArt})
          /\ leaked' = leaked \cup Overwritten(job)
                              \cup ({Replaced(job)} \ {NoArt})
          /\ RemoveThenFinish(r, Fresh(job))
    /\ UNCHANGED <<artists, usedIDs, administered, blobs, cleanup, deletions, usedKeys>>

\* Variant: ErrNotFound is taken for success.
DeleteSong_NotFoundIgnored(r) ==
    /\ req[r].pc = "deleting"
    /\ LET job == req[r] IN
          /\ songs' = [songs EXCEPT ![job.artist][job.song] = NoRow]
          /\ leaked' = leaked \cup (Overwritten(job) \ {NoRow})
          /\ RemoveThenFinish(r, job.old)
    /\ UNCHANGED <<artists, usedIDs, administered, blobs, cleanup, deletions,
                   usedKeys, home, dangling>>

DeleteSong(r) ==
    /\ req[r].pc = "deleting"
    /\ LET job == req[r] IN
          /\ SongExists(job.artist, job.song)
          /\ songs' = [songs EXCEPT ![job.artist][job.song] = NoRow]
          /\ leaked' = leaked \cup Overwritten(job)
          /\ RemoveThenFinish(r, job.old)
    /\ UNCHANGED <<artists, usedIDs, administered, blobs, cleanup, deletions,
                   usedKeys, home, dangling>>

\* And the same for a DELETE: its handler removes nothing after an error.
DeleteUnseen(r) ==
    /\ req[r].pc = "deleting"
    /\ LET job == req[r] IN
          /\ SongExists(job.artist, job.song)
          /\ songs' = [songs EXCEPT ![job.artist][job.song] = NoRow]
          /\ leaked' = leaked \cup Overwritten(job) \cup ({job.old} \ {NoArt})
    /\ Goto(r, Idle)
    /\ UNCHANGED <<artists, usedIDs, administered, blobs, cleanup, deletions,
                   usedKeys, home, dangling>>

\* The row is not there (ErrNotFound, a foreign key), or no slug is left.
Refused(job) ==
    IF job.pc = "inserting"
    THEN \/ artists[job.artist] = NoRow
         \/ SongExists(job.artist, job.title[job.attempt])
            /\ job.attempt = Len(job.title)
    ELSE ~SongExists(job.artist, job.song)

\* Variant: only an error of the database has the stored file removed.
WriteRefused_KeepsFile(r) ==
    /\ req[r].pc \in {"inserting", "updating", "deleting"}
    /\ Refused(req[r])
    /\ Goto(r, Idle)
    /\ UNCHANGED <<tables, blobs, cleanup, deletions, histories>>

\* An insert or update that is refused removes the file it had stored.
WriteRefused(r) ==
    /\ req[r].pc \in {"inserting", "updating", "deleting"}
    /\ Refused(req[r])
    /\ RemoveThenFinish(r, Fresh(req[r]))
    /\ UNCHANGED <<tables, blobs, cleanup, deletions, histories>>

\* Variant: the stored file is left behind.
WriteFails_KeepsFile(r) ==
    /\ req[r].pc \in {"inserting", "updating", "deleting"}
    /\ Goto(r, Idle)
    /\ UNCHANGED <<tables, blobs, cleanup, deletions, histories>>

\* So does one for which the database returns an error.
WriteFails(r) ==
    /\ req[r].pc \in {"inserting", "updating", "deleting"}
    /\ RemoveThenFinish(r, Fresh(req[r]))
    /\ UNCHANGED <<tables, blobs, cleanup, deletions, histories>>

RemoveArtwork(r) ==
    /\ req[r].pc = "removing"
    /\ blobs' = blobs \ {req[r].key}
    /\ Goto(r, Idle)
    /\ UNCHANGED <<tables, cleanup, deletions, histories>>

\* What a handler would still have removed.
Held(job) ==
    CASE job.pc = "removing" -> {job.key}
      [] job.pc \in {"inserting", "updating"} -> {Fresh(job)} \ {NoArt}
      [] OTHER -> {}

\* The process dies, or a read, an upload or a removal fails: nothing more is
\* done (a failed removal is only logged).
RequestDies(r) ==
    /\ req[r] # Idle
    /\ leaked' = leaked \cup Held(req[r])
    /\ Goto(r, Idle)
    /\ UNCHANGED <<tables, blobs, cleanup, deletions, usedKeys, home, dangling>>

HandlerStep(r) ==
    \/ ReadSong(r)
    \/ \E k \in Keys : UploadArtwork(r, k)
    \/ TryInsert(r)
    \/ UpdateSong(r)
    \/ DeleteSong(r)
    \/ WriteRefused(r)
    \/ RemoveArtwork(r)

Fault(r) ==
    \/ WriteFails(r)
    \/ RequestDies(r)
    \/ \E k \in Keys : UploadUnseen(r, k)
    \/ InsertUnseen(r)
    \/ UpdateUnseen(r)
    \/ DeleteUnseen(r)

RequestStep(r) ==
    \/ \E a \in ArtistIDs, t \in Titles, pc \in {"uploading", "inserting"} :
           StartCreate(r, a, t, pc)
    \/ \E kind \in EditKinds, a \in ArtistIDs, s \in SongSlugs :
           StartEdit(r, kind, a, s)
    \/ HandlerStep(r)
    \/ Fault(r)

-----------------------------------------------------------------------------
(* The platform administrator *)

NewArtistID == ArtistIDs \ usedIDs

CreateArtist(a, slug) ==
    /\ a \in NewArtistID
    /\ \A other \in ArtistIDs : artists[other] # slug
    /\ artists' = [artists EXCEPT ![a] = slug]
    /\ usedIDs' = usedIDs \cup {a}
    /\ UNCHANGED <<administered, songs, blobs, cleanup, deletions, req, histories>>

\* A redeemed invitation gives an artist an administrator; deleting accounts
\* takes the last one away.
AppointAdmin(a) ==
    /\ artists[a] # NoRow
    /\ administered' = administered \cup {a}
    /\ UNCHANGED <<artists, usedIDs, songs, blobs, cleanup, deletions, req, histories>>

DismissAdmins(a) ==
    /\ a \in administered
    /\ administered' = administered \ {a}
    /\ UNCHANGED <<artists, usedIDs, songs, blobs, cleanup, deletions, req, histories>>

(* DeleteArtist runs in a transaction, but on PostgreSQL each statement sees *)
(* what others have committed by then: an administrator and songs may come   *)
(* between.  (On SQLite the two steps of a deletion follow one another.)     *)

\* The keys that the songs of a name.
KeysOf(a) == {k \in Keys : \E s \in SongSlugs : songs[a][s] = k}

\* Of these, the ones that no other artist's song names.
ArtworkOf(a) ==
    {k \in KeysOf(a) : \A other \in ArtistIDs \ {a} : k \notin KeysOf(other)}

\* HandleDeleteArtistSubmit: the artist is there and has no administrator, and
\* the SELECT of the keys to return.  (An administrator may come between the
\* two; one who has left before, with requests in flight, does as much.)
BeginDeletion(d, a) ==
    /\ deletions[d] = NoDeletion
    /\ artists[a] # NoRow
    /\ a \notin administered
    /\ deletions' = [deletions EXCEPT ![d] =
           [at |-> "rows", artist |-> a, paths |-> ArtworkOf(a),
            seen |-> KeysOf(a)]]
    /\ UNCHANGED <<tables, blobs, cleanup, req, histories>>

\* The DELETEs and COMMIT, for whatever rows there are by now.  They are one
\* step: a song or a membership that is added after its DELETE makes the last
\* one fail on the foreign key, and nobody else sees them before COMMIT.
DeleteRows(d) ==
    LET a == deletions[d].artist IN
        /\ deletions[d].at = "rows"
        /\ songs' = [songs EXCEPT ![a] = [s \in SongSlugs |-> NoRow]]
        /\ artists' = [artists EXCEPT ![a] = NoRow]
        /\ administered' = administered \ {a}
        /\ deletions' = [deletions EXCEPT ![d] = NoDeletion]
        /\ UNCHANGED <<usedIDs, blobs, req, usedKeys, home, dangling>>

\* The keys of rows that were written after the SELECT.
Unseen(d) == KeysOf(deletions[d].artist) \ deletions[d].seen

\* The files are removed after the transaction.
DeleteArtist(d) ==
    /\ DeleteRows(d)
    /\ cleanup' = cleanup \cup deletions[d].paths
    /\ leaked' = leaked \cup Unseen(d)

\* The answer to COMMIT is lost: the handler removes nothing.
DeleteArtistUnseen(d) ==
    /\ DeleteRows(d)
    /\ leaked' = leaked \cup KeysOf(deletions[d].artist)
    /\ UNCHANGED cleanup

\* Variant: the files go although the artist stays.
DeletionFails_ErrorIgnored(d) ==
    /\ deletions[d] # NoDeletion
    /\ cleanup' = cleanup \cup deletions[d].paths
    /\ deletions' = [deletions EXCEPT ![d] = NoDeletion]
    /\ UNCHANGED <<tables, blobs, req, histories>>

\* Any error, or the process dies: the transaction is rolled back.
DeletionFails(d) ==
    /\ deletions[d] # NoDeletion
    /\ deletions' = [deletions EXCEPT ![d] = NoDeletion]
    /\ UNCHANGED <<tables, blobs, cleanup, req, histories>>

CleanUp(k) ==
    /\ k \in cleanup
    /\ cleanup' = cleanup \ {k}
    /\ blobs' = blobs \ {k}
    /\ UNCHANGED <<tables, deletions, req, histories>>

\* A removal fails, which is only logged, or the process dies.
CleanUpFails(k) ==
    /\ k \in cleanup
    /\ cleanup' = cleanup \ {k}
    /\ leaked' = leaked \cup {k}
    /\ UNCHANGED <<tables, deletions, blobs, req, usedKeys, home, dangling>>

DeletionStep(d) ==
    \/ \E a \in ArtistIDs : BeginDeletion(d, a)
    \/ DeleteArtist(d)
    \/ DeleteArtistUnseen(d)
    \/ DeletionFails(d)

PlatformStep ==
    \/ \E a \in ArtistIDs, slug \in Slugs : CreateArtist(a, slug)
    \/ \E a \in ArtistIDs : AppointAdmin(a) \/ DismissAdmins(a)
    \/ \E d \in Deleters : DeletionStep(d)
    \/ \E k \in Keys : CleanUp(k) \/ CleanUpFails(k)

Next ==
    \/ \E r \in Requests : RequestStep(r)
    \/ PlatformStep

Spec == Init /\ [][Next]_vars

-----------------------------------------------------------------------------
(* Properties *)

\* A handler is always at one of its steps, with that step's local variables,
\* and the tables hold rows of their schema.
TypeOK ==
    /\ artists \in [ArtistIDs -> Slugs \cup {NoRow}]
    /\ usedIDs \subseteq ArtistIDs
    /\ administered \subseteq ArtistIDs
    /\ songs \in [ArtistIDs -> [SongSlugs -> Artwork \cup {NoRow}]]
    /\ blobs \subseteq Keys
    /\ cleanup \subseteq Keys
    /\ deletions \in [Deleters -> DeletionState]
    /\ req \in [Requests -> RequestState]
    /\ usedKeys \subseteq Keys
    /\ home \in [Keys -> (ArtistIDs \X SongSlugs) \cup {NoRow}]
    /\ leaked \subseteq Keys
    /\ dangling \subseteq Keys

\* A file is the artwork of one song for ever: whatever a stale update writes
\* back, its key never turns up in another song's row, nor under the same slug
\* of an artist that was deleted and created again.
ArtworkStaysWithItsSong ==
    \A a \in ArtistIDs, s \in SongSlugs :
        songs[a][s] \in Keys => home[songs[a][s]] = <<a, s>>

\* A request only ever removes a file of its own artist or one that no row has
\* named, even though it reads by artist slug, writes by artist id, and the
\* slug may have passed to another artist in between (the removal comes after
\* a write by id that must have found its row).
RequestsRemoveOwnArtwork ==
    \A r \in Requests : req[r].pc = "removing" =>
        \/ home[req[r].key] = NoRow
        \/ home[req[r].key][1] = req[r].artist

\* Deleting an artist removes files of songs that are gone, never one that
\* some other song shows.
CleanupSparesTheLiving ==
    \A k \in cleanup : home[k] # NoRow /\ artists[home[k][1]] = NoRow

\* The key k is in some song's row.
Shown(k) == \E a \in ArtistIDs, s \in SongSlugs : songs[a][s] = k

\* A song never names a file that is not in storage, whatever fails and
\* whatever runs at the same time, with two exceptions: an update without a
\* file that writes back a key it read before the row changed, and a write that
\* PostgreSQL committed without being able to say so.
ShownArtworkExists == \A k \in Keys : Shown(k) => k \in blobs \cup dangling

\* Every file in storage is shown by a song, or held by a handler that still
\* has to write or remove it, or was left behind by a failure (an answer that
\* is lost is one), by a write over a row that had changed, or in a row that
\* was written after the deletion of its artist had read the keys: no error
\* path of the handlers forgets a file.
NoFileForgotten ==
    blobs \subseteq {k \in Keys : Shown(k)} \cup cleanup \cup leaked
                    \cup UNION {Held(req[r]) : r \in Requests}

\* server.go:749: HandleRemoveArtworkSubmit removes the current artwork from
\* an existing song: the key it takes out of the row is the one it goes on to
\* remove from storage.
RemovesCurrentArtwork ==
    [][\A r \in Requests :
          req[r].pc = "updating" /\ req[r].kind = "remove" /\ UpdateSong(r) =>
              songs[req[r].artist][req[r].song] \in {req'[r].key, NoArt}]_vars

=============================================================================
