--------------------------- MODULE SongFiles_proofs ---------------------------
(***************************************************************************)
(* The first part is about the rows and keys of SongArtwork: no            *)
(* interleaving of song requests, deletions of artists and failures mixes  *)
(* up whose artwork a file is, shows a missing file but after a stale or   *)
(* unseen write, or forgets a file, for any number of artists, songs,      *)
(* keys, requests and open deletions.                                      *)
(*                                                                         *)
(* The second part shows that this holds down to the files of the          *)
(* filesystem driver, through crashes of the whole process, and gives the  *)
(* visitors of public pages whole files and fresh pages.                   *)
(***************************************************************************)
EXTENDS SongFiles, FiniteSetTheorems, TLAPS

USE TitlesAssumption, NoArtAssumption, NoRowAssumption

-----------------------------------------------------------------------------
(* First part: rows and keys.  The invariant. *)

\* Ids are never given again, slugs are unique, only artists that exist have
\* administrators and songs.
TablesOK ==
    /\ \A a, b \in ArtistIDs : artists[a] # NoRow /\ artists[a] = artists[b] => a = b
    /\ \A a \in ArtistIDs : artists[a] # NoRow => a \in usedIDs
    /\ \A a \in administered : artists[a] # NoRow
    /\ \A a \in ArtistIDs, s \in SongSlugs :
          songs[a][s] # NoRow => artists[a] # NoRow

\* A key is drawn before a row names it, for an artist that has had its id.
HomesAreUsed ==
    \A k \in Keys : home[k] # NoRow => k \in usedKeys /\ home[k][1] \in usedIDs

\* The step a handler is at fits what it is doing.
KindFits(job) ==
    /\ job.pc = "reading" => job.new = NoArt /\ job.old = NoArt
    /\ job.pc = "uploading" => job.kind \in {"create", "replace"} /\ job.new = NoArt
    /\ job.pc = "deleting" => job.kind = "delete"
    /\ job.pc = "updating" =>
          /\ job.kind \in {"update", "replace", "remove"}
          /\ job.kind = "update" => job.new = job.old
          /\ job.kind = "remove" => job.new = NoArt
    /\ job.pc \in {"uploading", "inserting"} /\ job.kind = "create" =>
          job.attempt \in 1..Len(job.title)

Edits(job) == job.pc \in {"reading", "uploading", "updating", "deleting"}
                 /\ job.kind \in EditKinds

\* The keys among a handler's local variables.
JobKeys(job) ==
    IF job.pc = "removing" THEN {job.key}
    ELSE IF Edits(job) THEN {job.old, job.new} \ {NoArt}
    ELSE IF job.pc = "inserting" THEN {job.new} \ {NoArt}
    ELSE {}

\* The file a handler has stored and no row names yet.
FreshKeys(job) ==
    IF job.pc \in {"inserting", "updating"} THEN {Fresh(job)} \ {NoArt} ELSE {}

\* What a handler read by the artist's slug is of the artist it works for, if
\* that artist is still there.
ReadsFit(job) ==
    /\ job.artist \in usedIDs
    /\ artists[job.artist] \in {job.artistSlug, NoRow}
    /\ job.old # NoArt =>
          /\ home[job.old] # NoRow
          /\ artists[job.artist] # NoRow => home[job.old] = <<job.artist, job.song>>

JobOK(job) ==
    /\ KindFits(job)
    /\ JobKeys(job) \subseteq usedKeys
    /\ Edits(job) => ReadsFit(job)
    /\ \A k \in FreshKeys(job) : home[k] = NoRow /\ k \in blobs
    /\ job.pc = "removing" =>
          /\ home[job.key] = NoRow \/ home[job.key][1] = job.artist
          /\ Shown(job.key) => job.key \in dangling

JobsOK == \A r \in Requests : JobOK(req[r])

\* Two handlers never have the same new file.
FreshKeysAreOnesOwn ==
    \A r1, r2 \in Requests :
        r1 # r2 => FreshKeys(req[r1]) \cap Held(req[r2]) = {}

\* An open deletion has read all keys its artist's songs named, and they are
\* that artist's.
DeletionOK(x) ==
    /\ x.paths = x.seen
    /\ \A k \in x.paths : home[k] # NoRow /\ home[k][1] = x.artist

DeletionsOK ==
    \A d \in Deleters : deletions[d] # NoDeletion => DeletionOK(deletions[d])

Inv ==
    /\ TypeOK
    /\ TablesOK
    /\ HomesAreUsed
    /\ ArtworkStaysWithItsSong
    /\ JobsOK
    /\ FreshKeysAreOnesOwn
    /\ CleanupSparesTheLiving
    /\ ShownArtworkExists
    /\ NoFileForgotten

ArtworkInv == Inv /\ DeletionsOK

-----------------------------------------------------------------------------
(* The local variables of a handler. *)

LEMMA Fields ==
    ASSUME NEW job \in RequestState
    PROVE  /\ job.pc \in {"idle", "reading", "uploading", "inserting", "updating",
                          "deleting", "removing"}
           /\ job.pc = "idle" => job = Idle
           /\ job.pc = "removing" => job.artist \in ArtistIDs /\ job.key \in Keys
           /\ job.pc = "inserting" =>
                 /\ job.kind = "create"
                 /\ job.artist \in ArtistIDs
                 /\ job.title \in Titles
                 /\ job.attempt \in Nat
                 /\ job.new \in Artwork
           /\ job.pc \in {"reading", "updating", "deleting"} => Edits(job)
           /\ job.pc = "uploading" =>
                 job.artist \in ArtistIDs /\ (job.kind = "create" \/ Edits(job))
           /\ Edits(job) =>
                 /\ job.kind # "create"
                 /\ job.artist \in ArtistIDs
                 /\ job.artistSlug \in Slugs
                 /\ job.song \in SongSlugs
                 /\ job.old \in Artwork
                 /\ job.new \in Artwork
  BY DEF RequestState, Idle, Edits, EditKinds

LEMMA HeldByCounter ==
    ASSUME NEW job \in RequestState
    PROVE  /\ job.pc = "removing" => Held(job) = {job.key}
           /\ job.pc \in {"inserting", "updating"} =>
                 Held(job) = {Fresh(job)} \ {NoArt}
           /\ job.pc \notin {"removing", "inserting", "updating"} => Held(job) = {}
           /\ FreshKeys(job) \subseteq Held(job)
           /\ Held(job) \subseteq Keys
<1>1. job.pc = "removing" => Held(job) = {job.key}
  BY DEF Held
<1>2. job.pc \in {"inserting", "updating"} => Held(job) = {Fresh(job)} \ {NoArt}
  BY DEF Held
<1>3. job.pc \notin {"removing", "inserting", "updating"} => Held(job) = {}
  BY DEF Held
<1>4. FreshKeys(job) \subseteq Held(job)
  BY <1>2 DEF FreshKeys
<1>5. Held(job) \subseteq Keys
  BY <1>1, <1>2, <1>3, Fields DEF Fresh, Artwork
<1>6. QED
  BY <1>1, <1>2, <1>3, <1>4, <1>5

LEMMA HeldKeysAreDrawn ==
    ASSUME NEW job \in RequestState, JobOK(job)
    PROVE  Held(job) \subseteq usedKeys
<1>1. CASE job.pc = "removing"
  BY <1>1, HeldByCounter DEF JobOK, JobKeys
<1>2. CASE job.pc = "inserting"
  BY <1>2, HeldByCounter, Fields DEF JobOK, JobKeys, Fresh, Edits
<1>3. CASE job.pc = "updating"
  BY <1>3, HeldByCounter, Fields DEF JobOK, JobKeys, Fresh
<1>4. QED
  BY <1>1, <1>2, <1>3, HeldByCounter

LEMMA IdleIsOK ==
    /\ Idle \in RequestState
    /\ JobOK(Idle)
    /\ Held(Idle) = {}
    /\ FreshKeys(Idle) = {}
<1>1. Idle \in RequestState /\ Idle.pc = "idle"
  BY DEF Idle, RequestState
<1>2. QED
  BY <1>1, HeldByCounter DEF JobOK, KindFits, JobKeys, Edits, FreshKeys

\* What the other requests need of a step.
MovesOn(job) ==
    /\ usedIDs \subseteq usedIDs'
    /\ \A a \in usedIDs : artists'[a] \in {artists[a], NoRow}
    /\ usedKeys \subseteq usedKeys'
    /\ dangling \subseteq dangling'
    /\ \A k \in Keys : home[k] # NoRow => home'[k] = home[k]
    /\ \A k \in Held(job) :
          /\ home'[k] = home[k]
          /\ Shown(k)' => Shown(k) \/ k \in dangling'
    /\ \A k \in FreshKeys(job) : k \in blobs'

LEMMA JobsStay ==
    ASSUME NEW job \in RequestState, JobOK(job), MovesOn(job)
    PROVE  JobOK(job)'
<1>1. KindFits(job)' /\ (JobKeys(job) \subseteq usedKeys)'
  BY DEF JobOK, MovesOn, KindFits, JobKeys, Edits
<1>2. (Edits(job) => ReadsFit(job))'
  <2> SUFFICES ASSUME Edits(job) PROVE ReadsFit(job)'
    BY DEF Edits
  <2>1. ReadsFit(job)
    BY DEF JobOK
  <2>2. /\ job.artist \in usedIDs'
        /\ artists'[job.artist] \in {artists[job.artist], NoRow}
    BY <2>1 DEF ReadsFit, MovesOn
  <2>3. job.old # NoArt => job.old \in Keys /\ home'[job.old] = home[job.old]
    BY <2>1, Fields DEF ReadsFit, MovesOn, Artwork
  <2>4. QED
    BY <2>1, <2>2, <2>3 DEF ReadsFit
<1>3. (\A k \in FreshKeys(job) : home[k] = NoRow /\ k \in blobs)'
  <2>1. \A k \in FreshKeys(job) : home'[k] = NoRow /\ k \in blobs'
    BY HeldByCounter DEF JobOK, MovesOn
  <2>2. QED
    BY <2>1 DEF FreshKeys, Fresh
<1>4. (job.pc = "removing" =>
          /\ home[job.key] = NoRow \/ home[job.key][1] = job.artist
          /\ Shown(job.key) => job.key \in dangling)'
  <2> SUFFICES ASSUME job.pc = "removing"
               PROVE  /\ home'[job.key] = NoRow \/ home'[job.key][1] = job.artist
                      /\ Shown(job.key)' => job.key \in dangling'
    OBVIOUS
  <2>1. /\ home[job.key] = NoRow \/ home[job.key][1] = job.artist
        /\ Shown(job.key) => job.key \in dangling
    BY DEF JobOK
  <2>2. /\ home'[job.key] = home[job.key]
        /\ Shown(job.key)' => Shown(job.key) \/ job.key \in dangling'
        /\ dangling \subseteq dangling'
    BY HeldByCounter DEF MovesOn
  <2>3. QED
    BY <2>1, <2>2
<1>5. QED
  BY <1>1, <1>2, <1>3, <1>4 DEF JobOK

\* The request r has moved to job, all others are where they were.
LEMMA RequestsStay ==
    ASSUME Inv, NEW r \in Requests, NEW job \in RequestState,
           req' = [req EXCEPT ![r] = job],
           JobOK(job)',
           \A q \in Requests \ {r} : MovesOn(req[q]),
           \A q \in Requests \ {r} :
               /\ FreshKeys(job) \cap Held(req[q]) = {}
               /\ FreshKeys(req[q]) \cap Held(job) = {}
    PROVE  JobsOK' /\ FreshKeysAreOnesOwn'
<1>1. ASSUME NEW q \in Requests PROVE JobOK(req[q])'
  <2>1. CASE q = r
    <3>1. req'[q] = job
      BY <2>1 DEF Inv, TypeOK
    <3>2. QED
      BY <3>1 DEF JobOK, KindFits, JobKeys, Edits, ReadsFit, FreshKeys, Fresh, Shown
  <2>2. CASE q # r
    <3>1. PICK other \in RequestState : other = req[q] /\ other = req'[q]
      BY <2>2 DEF Inv, TypeOK
    <3>2. JobOK(other) /\ MovesOn(other)
      BY <2>2, <3>1 DEF Inv, JobsOK
    <3>3. JobOK(other)'
      BY <3>2, JobsStay
    <3>4. QED
      BY <3>1, <3>3
         DEF JobOK, KindFits, JobKeys, Edits, ReadsFit, FreshKeys, Fresh, Shown
  <2>3. QED
    BY <2>1, <2>2
<1>2. ASSUME NEW p \in Requests, NEW q \in Requests, p # q
      PROVE  FreshKeys(req'[p]) \cap Held(req'[q]) = {}
  BY <1>2 DEF Inv, TypeOK, FreshKeysAreOnesOwn
<1>3. QED
  BY <1>1, <1>2 DEF JobsOK, FreshKeysAreOnesOwn, FreshKeys, Fresh, Held

\* A step of the platform administrator moves no request.
LEMMA AllRequestsStay ==
    ASSUME Inv, req' = req, \A q \in Requests : MovesOn(req[q])
    PROVE  JobsOK' /\ FreshKeysAreOnesOwn'
<1>1. ASSUME NEW q \in Requests PROVE JobOK(req[q])'
  <2>1. PICK other \in RequestState : other = req[q] /\ other = req'[q]
    BY DEF Inv, TypeOK
  <2>2. JobOK(other)'
    BY <2>1, JobsStay DEF Inv, JobsOK
  <2>3. QED
    BY <2>1, <2>2
       DEF JobOK, KindFits, JobKeys, Edits, ReadsFit, FreshKeys, Fresh, Shown
<1>2. QED
  BY <1>1 DEF Inv, JobsOK, FreshKeysAreOnesOwn, FreshKeys, Fresh, Held

-----------------------------------------------------------------------------
(* Keys and the songs they belong to. *)

LEMMA SongIsNoRow ==
    ASSUME NEW a \in ArtistIDs, NEW s \in SongSlugs
    PROVE  <<a, s>> # NoRow
<1>1. <<a, s>> \in ArtistIDs \X SongSlugs
  OBVIOUS
<1>2. QED
  BY <1>1

LEMMA ShownHasHome ==
    ASSUME ArtworkStaysWithItsSong, NEW k \in Keys,
           NEW a \in ArtistIDs, NEW s \in SongSlugs, songs[a][s] = k
    PROVE  home[k] = <<a, s>> /\ home[k] # NoRow
  BY SongIsNoRow DEF ArtworkStaysWithItsSong

-----------------------------------------------------------------------------
(* Steps that touch nothing but the handler's own variables. *)

LEMMA LocalStep ==
    ASSUME Inv, NEW r \in Requests, NEW job \in RequestState,
           req' = [req EXCEPT ![r] = job],
           UNCHANGED <<tables, blobs, cleanup, deletions, histories>>,
           JobOK(job),
           Held(job) = Held(req[r]),
           FreshKeys(job) \subseteq FreshKeys(req[r])
    PROVE  Inv'
<1> USE DEF tables, histories
<1>1. TypeOK'
  BY DEF Inv, TypeOK
<1>2. \A k : Shown(k)' <=> Shown(k)
  BY DEF Shown
<1>3. JobOK(job)'
  BY <1>2 DEF JobOK, KindFits, JobKeys, Edits, ReadsFit, FreshKeys, Fresh
<1>4. ASSUME NEW q \in Requests \ {r}
      PROVE  /\ MovesOn(req[q])
             /\ FreshKeys(job) \cap Held(req[q]) = {}
             /\ FreshKeys(req[q]) \cap Held(job) = {}
  <2>1. req[q] \in RequestState /\ JobOK(req[q])
    BY DEF Inv, TypeOK, JobsOK
  <2>2. \A k \in FreshKeys(req[q]) : k \in blobs
    BY <2>1 DEF JobOK
  <2>3. MovesOn(req[q])
    BY <1>2, <2>2 DEF MovesOn
  <2>4. QED
    BY <2>3 DEF Inv, FreshKeysAreOnesOwn
<1>5. JobsOK' /\ FreshKeysAreOnesOwn'
  BY <1>3, <1>4, RequestsStay
<1>6. NoFileForgotten'
  <2>1. \A q \in Requests : Held(req'[q]) = Held(req[q])
    BY DEF Inv, TypeOK
  <2>2. UNION {Held(req'[q]) : q \in Requests} = UNION {Held(req[q]) : q \in Requests}
    BY <2>1
  <2>3. NoFileForgotten
    BY DEF Inv
  <2>4. \A k \in blobs : \/ Shown(k)'
                         \/ k \in cleanup' \cup leaked'
                         \/ k \in UNION {Held(req'[q]) : q \in Requests}
    BY <1>2, <2>2, <2>3 DEF NoFileForgotten
  <2>5. blobs' = blobs /\ blobs \subseteq Keys
    BY DEF Inv, TypeOK
  <2>6. QED
    BY <2>4, <2>5 DEF NoFileForgotten, Held, Fresh
<1>7. TablesOK' /\ HomesAreUsed' /\ ArtworkStaysWithItsSong'
      /\ CleanupSparesTheLiving' /\ ShownArtworkExists'
  BY <1>2 DEF Inv, TablesOK, HomesAreUsed, ArtworkStaysWithItsSong,
              CleanupSparesTheLiving, ShownArtworkExists
<1>8. QED
  BY <1>1, <1>5, <1>6, <1>7 DEF Inv

LEMMA StartCreateKeepsInv ==
    ASSUME Inv, NEW r \in Requests, NEW a \in ArtistIDs, NEW t \in Titles,
           NEW pc \in {"uploading", "inserting"}, StartCreate(r, a, t, pc)
    PROVE  Inv'
<1> DEFINE job == [pc |-> pc, kind |-> "create", artist |-> a, title |-> t,
                   attempt |-> 1, new |-> NoArt]
<1>1. job \in RequestState
  BY DEF RequestState, Artwork
<1>2. /\ Held(job) = {}
      /\ FreshKeys(job) = {}
      /\ JobOK(job)
  <2>1. 1 \in 1..Len(t)
    OBVIOUS
  <2>2. QED
    BY <1>1, <2>1, HeldByCounter
     DEF JobOK, KindFits, JobKeys, Edits, EditKinds, FreshKeys, Fresh
<1>3. Held(req[r]) = {}
  BY IdleIsOK DEF StartCreate
<1>4. req' = [req EXCEPT ![r] = job]
  BY DEF StartCreate, Goto
<1> HIDE DEF job
<1>5. QED
  BY <1>1, <1>2, <1>3, <1>4, LocalStep DEF StartCreate

LEMMA StartEditKeepsInv ==
    ASSUME Inv, NEW r \in Requests, NEW kind \in EditKinds,
           NEW a \in ArtistIDs, NEW s \in SongSlugs, StartEdit(r, kind, a, s)
    PROVE  Inv'
<1> DEFINE job == [pc |-> "reading", kind |-> kind, artist |-> a,
                   artistSlug |-> artists[a], song |-> s,
                   old |-> NoArt, new |-> NoArt]
<1>1. a \in usedIDs /\ artists[a] \in Slugs
  BY DEF StartEdit, Inv, TypeOK, TablesOK
<1>2. job \in RequestState
  BY <1>1 DEF RequestState, Artwork
<1>3. /\ Held(job) = {}
      /\ FreshKeys(job) = {}
  BY <1>2, HeldByCounter DEF FreshKeys
<1>4. JobOK(job)
  BY <1>1, <1>3 DEF JobOK, KindFits, JobKeys, Edits, ReadsFit
<1>5. Held(req[r]) = {}
  BY IdleIsOK DEF StartEdit
<1>6. req' = [req EXCEPT ![r] = job]
  BY DEF StartEdit, Goto
<1> HIDE DEF job
<1>7. QED
  BY <1>2, <1>3, <1>4, <1>5, <1>6, LocalStep DEF StartEdit

LEMMA ReadSongKeepsInv ==
    ASSUME Inv, NEW r \in Requests, ReadSong(r)
    PROVE  Inv'
<1> DEFINE job == req[r]
<1>1. /\ job \in RequestState /\ JobOK(job) /\ Edits(job) /\ ReadsFit(job)
      /\ Held(job) = {}
  BY HeldByCounter, Fields DEF ReadSong, Inv, TypeOK, JobsOK, JobOK
<1>2. CASE req' = [req EXCEPT ![r] = Idle]
  BY <1>1, <1>2, IdleIsOK, LocalStep DEF ReadSong
<1>3. ASSUME NEW a \in FindBySlug(job.artistSlug, job.song),
             AfterRead(job.kind, songs[a][job.song]) # "idle",
             Goto(r, [job EXCEPT
                 !.pc = AfterRead(job.kind, songs[a][job.song]),
                 !.old = songs[a][job.song],
                 !.new = IF job.kind = "update" THEN songs[a][job.song] ELSE NoArt])
      PROVE  Inv'
  <2> DEFINE old == songs[a][job.song]
             next == AfterRead(job.kind, old)
             read == [job EXCEPT !.pc = next, !.old = old,
                                 !.new = IF job.kind = "update" THEN old ELSE NoArt]
  <2>1. /\ a \in ArtistIDs
        /\ artists[a] = job.artistSlug
        /\ artists[a] # NoRow
        /\ old \in Artwork
    BY <1>1, <1>3, Fields DEF FindBySlug, Inv, TypeOK, TablesOK
  <2>2. /\ job.kind \in EditKinds
        /\ job.kind = "replace" => next = "uploading"
        /\ job.kind = "delete" => next = "deleting"
        /\ job.kind \in {"update", "remove"} => next = "updating"
    BY <1>1, <1>3 DEF AfterRead, Edits, EditKinds
  <2>3. job \in [pc : {"reading", "uploading", "updating", "deleting"},
                 kind : EditKinds, artist : ArtistIDs, artistSlug : Slugs,
                 song : SongSlugs, old : Artwork, new : Artwork]
    BY <1>1 DEF RequestState, Edits, Idle, EditKinds
  <2>4. /\ read \in [pc : {"reading", "uploading", "updating", "deleting"},
                     kind : EditKinds, artist : ArtistIDs, artistSlug : Slugs,
                     song : SongSlugs, old : Artwork, new : Artwork]
        /\ read.pc = next /\ read.kind = job.kind /\ read.old = old
        /\ read.artist = job.artist /\ read.artistSlug = job.artistSlug
        /\ read.song = job.song
        /\ read.new = IF job.kind = "update" THEN old ELSE NoArt
    BY <2>1, <2>2, <2>3 DEF EditKinds, Artwork
  <2> HIDE DEF read, next
  <2>5. read \in RequestState /\ Edits(read)
    BY <2>4 DEF RequestState, Edits
  <2>6. FreshKeys(read) = {} /\ Held(read) = {}
    BY <2>2, <2>4, <2>5, HeldByCounter DEF FreshKeys, Fresh, EditKinds
  <2>7. old # NoArt => /\ old \in Keys
                       /\ home[old] = <<a, job.song>>
                       /\ home[old] # NoRow
    BY <1>1, <2>1, Fields, ShownHasHome DEF Inv, Artwork
  <2>8. artists[job.artist] # NoRow => a = job.artist
    BY <1>1, <2>1, Fields DEF ReadsFit, Inv, TablesOK
  <2>9. ReadsFit(read)
    BY <1>1, <2>4, <2>7, <2>8 DEF ReadsFit
  <2>10. KindFits(read)
    BY <2>2, <2>4 DEF KindFits, EditKinds
  <2>11. JobKeys(read) \subseteq usedKeys
    <3>1. old # NoArt => old \in usedKeys
      BY <2>7 DEF Inv, HomesAreUsed
    <3>2. QED
      BY <2>2, <2>4, <2>5, <3>1 DEF JobKeys, EditKinds
  <2>12. JobOK(read)
    BY <2>2, <2>4, <2>6, <2>9, <2>10, <2>11 DEF JobOK, EditKinds
  <2>13. req' = [req EXCEPT ![r] = read]
    BY <1>3 DEF Goto, read, next
  <2>14. QED
    BY <1>1, <2>5, <2>6, <2>12, <2>13, LocalStep DEF ReadSong
<1>4. QED
  BY <1>2, <1>3 DEF ReadSong, Goto

LEMMA SlugTakenKeepsInv ==
    ASSUME Inv, NEW r \in Requests, SlugTaken(r)
    PROVE  Inv'
<1> DEFINE job == req[r]
           next == [job EXCEPT !.attempt = @ + 1]
<1>1. job \in RequestState /\ JobOK(job) /\ job.pc = "inserting"
  BY DEF SlugTaken, Inv, TypeOK, JobsOK
<1>2. job \in [pc : {"uploading", "inserting"}, kind : {"create"},
               artist : ArtistIDs, title : Titles, attempt : Nat, new : Artwork]
  BY <1>1 DEF RequestState, Idle
<1>3. /\ next \in [pc : {"uploading", "inserting"}, kind : {"create"},
                   artist : ArtistIDs, title : Titles, attempt : Nat, new : Artwork]
      /\ next.pc = job.pc /\ next.new = job.new /\ next.kind = job.kind
      /\ next.title = job.title /\ next.attempt = job.attempt + 1
  BY <1>2
<1>4. req' = [req EXCEPT ![r] = next]
  BY DEF SlugTaken, Goto
<1> HIDE DEF next
<1>5. next \in RequestState
  BY <1>3 DEF RequestState
<1>6. Held(next) = Held(job) /\ FreshKeys(next) = FreshKeys(job)
  <2>1. Fresh(next) = Fresh(job) /\ next.pc = "inserting"
    BY <1>1, <1>3 DEF Fresh
  <2>2. QED
    BY <1>1, <1>5, <2>1, HeldByCounter DEF FreshKeys
<1>7. JobOK(next)
  <2>1. next.attempt \in 1..Len(next.title)
    BY <1>2, <1>3 DEF SlugTaken
  <2>2. QED
    BY <1>1, <1>3, <1>6, <2>1 DEF JobOK, KindFits, JobKeys, Edits
<1>8. QED
  BY <1>4, <1>5, <1>6, <1>7, LocalStep DEF SlugTaken

\* A handler that goes on to remove its new file, or has none.
LEMMA RefusalKeepsInv ==
    ASSUME Inv, NEW r \in Requests,
           req[r].pc \in {"inserting", "updating", "deleting"},
           RemoveThenFinish(r, Fresh(req[r])),
           UNCHANGED <<tables, blobs, cleanup, deletions, histories>>
    PROVE  Inv'
<1> DEFINE job == req[r]
           next == [pc |-> "removing", artist |-> job.artist, key |-> Fresh(job)]
<1>1. job \in RequestState /\ JobOK(job) /\ job.artist \in ArtistIDs
  BY Fields DEF Inv, TypeOK, JobsOK
<1>2. CASE Fresh(job) = NoArt
  <2>1. Held(job) = {}
    BY <1>1, <1>2, HeldByCounter
  <2>2. req' = [req EXCEPT ![r] = Idle]
    BY <1>2 DEF RemoveThenFinish, Goto
  <2>3. QED
    BY <2>1, <2>2, IdleIsOK, LocalStep
<1>3. CASE Fresh(job) # NoArt
  <2>1. job.pc \in {"inserting", "updating"}
    BY <1>1, <1>3 DEF JobOK, KindFits, Fresh
  <2>2. /\ Held(job) = {Fresh(job)}
        /\ FreshKeys(job) = {Fresh(job)}
        /\ Fresh(job) \in Keys
    BY <1>1, <1>3, <2>1, HeldByCounter DEF FreshKeys
  <2>3. next \in RequestState /\ next.pc = "removing" /\ next.key = Fresh(job)
    BY <1>1, <2>2 DEF RequestState
  <2>4. Held(next) = Held(job) /\ FreshKeys(next) = {}
    BY <2>2, <2>3, HeldByCounter DEF FreshKeys
  <2>5. home[Fresh(job)] = NoRow /\ Fresh(job) \in usedKeys
    BY <1>1, <2>2, HeldKeysAreDrawn DEF JobOK
  <2>6. ~Shown(Fresh(job))
    BY <2>2, <2>5, ShownHasHome DEF Shown, Inv
  <2>7. JobOK(next)
    BY <2>3, <2>4, <2>5, <2>6 DEF JobOK, KindFits, JobKeys, Edits
  <2>8. req' = [req EXCEPT ![r] = next]
    BY <1>3 DEF RemoveThenFinish, Goto
  <2> HIDE DEF next
  <2>9. QED
    BY <2>3, <2>4, <2>7, <2>8, LocalStep
<1>4. QED
  BY <1>2, <1>3

-----------------------------------------------------------------------------
(* Uploads, removals and deaths. *)

\* A key that was never drawn is in no row and in no handler's variables.
LEMMA NewKeyIsUnknown ==
    ASSUME Inv, NEW k \in Keys, k \notin usedKeys
    PROVE  /\ home[k] = NoRow
           /\ ~Shown(k)
           /\ \A q \in Requests : k \notin Held(req[q])
<1>1. home[k] = NoRow
  BY DEF Inv, HomesAreUsed
<1>2. ~Shown(k)
  BY <1>1, ShownHasHome DEF Shown, Inv
<1>3. ASSUME NEW q \in Requests PROVE k \notin Held(req[q])
  BY HeldKeysAreDrawn DEF Inv, TypeOK, JobsOK
<1>4. QED
  BY <1>1, <1>2, <1>3

LEMMA SameTables ==
    ASSUME Inv, UNCHANGED <<tables, home>>, usedKeys \subseteq usedKeys'
    PROVE  /\ \A k : Shown(k)' <=> Shown(k)
           /\ TablesOK' /\ HomesAreUsed' /\ ArtworkStaysWithItsSong'
  BY DEF Inv, TablesOK, HomesAreUsed, ArtworkStaysWithItsSong, Shown, tables

LEMMA UploadArtworkKeepsInv ==
    ASSUME Inv, NEW r \in Requests, NEW k \in Keys, UploadArtwork(r, k)
    PROVE  Inv'
<1> DEFINE job == req[r]
           made == [job EXCEPT !.new = k,
                       !.pc = IF job.kind = "create" THEN "inserting" ELSE "updating"]
<1> USE DEF histories
<1>1. /\ job \in RequestState /\ JobOK(job) /\ job.pc = "uploading"
      /\ job.kind \in {"create", "replace"}
  BY DEF UploadArtwork, Inv, TypeOK, JobsOK, JobOK, KindFits
<1>2. PICK next \in RequestState :
      /\ next = made
      /\ next.kind = job.kind /\ next.new = k
      /\ next.pc = IF job.kind = "create" THEN "inserting" ELSE "updating"
      /\ job.kind = "create" =>
            next.attempt = job.attempt /\ next.title = job.title
      /\ job.kind = "replace" =>
            /\ Edits(job) /\ Edits(next)
            /\ next.old = job.old /\ next.artist = job.artist
            /\ next.song = job.song /\ next.artistSlug = job.artistSlug
  <2>1. CASE job.kind = "create"
    <3>1. job \in [pc : {"uploading", "inserting"}, kind : {"create"},
                   artist : ArtistIDs, title : Titles, attempt : Nat, new : Artwork]
      BY <1>1, <2>1 DEF RequestState, Idle, EditKinds
    <3>2. /\ made \in [pc : {"uploading", "inserting"}, kind : {"create"},
                       artist : ArtistIDs, title : Titles, attempt : Nat, new : Artwork]
          /\ made.kind = job.kind /\ made.new = k /\ made.pc = "inserting"
          /\ made.attempt = job.attempt /\ made.title = job.title
      BY <2>1, <3>1 DEF Artwork
    <3>3. QED
      BY <2>1, <3>2 DEF RequestState
  <2>2. CASE job.kind = "replace"
    <3>1. job \in [pc : {"reading", "uploading", "updating", "deleting"},
                   kind : EditKinds, artist : ArtistIDs, artistSlug : Slugs,
                   song : SongSlugs, old : Artwork, new : Artwork]
      BY <1>1, <2>2 DEF RequestState, Idle
    <3>2. /\ made \in [pc : {"reading", "uploading", "updating", "deleting"},
                       kind : EditKinds, artist : ArtistIDs, artistSlug : Slugs,
                       song : SongSlugs, old : Artwork, new : Artwork]
          /\ made.kind = job.kind /\ made.new = k /\ made.pc = "updating"
          /\ made.old = job.old /\ made.artist = job.artist
          /\ made.song = job.song /\ made.artistSlug = job.artistSlug
      BY <2>2, <3>1 DEF Artwork
    <3>3. QED
      BY <1>1, <2>2, <3>1, <3>2 DEF RequestState, Edits, EditKinds
  <2>3. QED
    BY <1>1, <2>1, <2>2
<1>3. /\ req' = [req EXCEPT ![r] = next]
      /\ blobs' = blobs \cup {k}
      /\ usedKeys' = usedKeys \cup {k}
      /\ UNCHANGED <<tables, cleanup, deletions, home, leaked, dangling>>
      /\ k \notin usedKeys
  BY <1>2 DEF UploadArtwork, Goto
<1> HIDE DEF made
<1>4. /\ home[k] = NoRow
      /\ \A q \in Requests : k \notin Held(req[q])
  BY <1>3, NewKeyIsUnknown
<1>5. k # NoArt /\ Held(next) = {k} /\ FreshKeys(next) = {k} /\ Held(job) = {}
  <2>1. k # NoArt /\ Fresh(next) = k /\ next.pc \in {"inserting", "updating"}
    BY <1>1, <1>2 DEF Fresh
  <2>2. Held(next) = {k} /\ FreshKeys(next) = {k}
    BY <2>1, HeldByCounter DEF FreshKeys
  <2>3. QED
    BY <1>1, <2>1, <2>2, HeldByCounter
<1>6. JobOK(next)'
  <2>1. KindFits(next)'
    BY <1>1, <1>2 DEF KindFits, JobOK
  <2>2. (JobKeys(next) \subseteq usedKeys)'
    BY <1>1, <1>2, <1>3 DEF JobKeys, JobOK, Edits
  <2>3. (Edits(next) => ReadsFit(next))'
    BY <1>1, <1>2, <1>3 DEF JobOK, ReadsFit, Edits, tables, EditKinds
  <2>4. (\A j \in FreshKeys(next) : home[j] = NoRow /\ j \in blobs)'
    <3>1. \A j \in FreshKeys(next) : home'[j] = NoRow /\ j \in blobs'
      BY <1>3, <1>4, <1>5
    <3>2. QED
      BY <3>1 DEF FreshKeys, Fresh
  <2>5. next.pc # "removing"
    BY <1>2
  <2>6. QED
    BY <2>1, <2>2, <2>3, <2>4, <2>5 DEF JobOK
<1>7. /\ \A j : Shown(j)' <=> Shown(j)
      /\ TablesOK' /\ HomesAreUsed' /\ ArtworkStaysWithItsSong'
  BY <1>3, SameTables
<1>8. ASSUME NEW q \in Requests \ {r}
      PROVE  /\ MovesOn(req[q])
             /\ FreshKeys(next) \cap Held(req[q]) = {}
             /\ FreshKeys(req[q]) \cap Held(next) = {}
  <2>1. req[q] \in RequestState /\ JobOK(req[q])
    BY DEF Inv, TypeOK, JobsOK
  <2>2. \A j \in FreshKeys(req[q]) : j \in blobs'
    BY <1>3, <2>1 DEF JobOK
  <2>3. MovesOn(req[q])
    BY <1>3, <1>7, <2>2 DEF MovesOn, tables
  <2>4. k \notin Held(req[q]) /\ FreshKeys(req[q]) \subseteq Held(req[q])
    BY <1>4, <2>1, HeldByCounter
  <2>5. QED
    BY <1>5, <2>3, <2>4
<1>9. JobsOK' /\ FreshKeysAreOnesOwn'
  BY <1>2, <1>3, <1>6, <1>8, RequestsStay
<1>10. TypeOK'
  BY <1>2, <1>3 DEF Inv, TypeOK, tables
<1>11. NoFileForgotten'
  <2>1. ASSUME NEW j \in blobs'
        PROVE  \/ Shown(j)'
               \/ j \in cleanup' \cup leaked'
               \/ \E q \in Requests : j \in Held(req'[q])
    <3>1. CASE j = k
      BY <1>3, <1>5, <3>1 DEF Inv, TypeOK
    <3>2. CASE j # k
      <4>1. \/ Shown(j)
            \/ j \in cleanup \cup leaked
            \/ \E q \in Requests : j \in Held(req[q])
        BY <1>3, <3>2 DEF Inv, NoFileForgotten
      <4>2. \A q \in Requests : j \in Held(req[q]) => q # r /\ req'[q] = req[q]
        BY <1>3, <1>5 DEF Inv, TypeOK
      <4>3. QED
        BY <1>3, <1>7, <4>1, <4>2
    <3>3. QED
      BY <3>1, <3>2
  <2>2. blobs' \subseteq Keys
    BY <1>10 DEF TypeOK
  <2>3. QED
    BY <2>1, <2>2 DEF NoFileForgotten, Held, Fresh
<1>12. CleanupSparesTheLiving' /\ ShownArtworkExists'
  BY <1>3, <1>7 DEF Inv, CleanupSparesTheLiving, ShownArtworkExists, tables
<1>13. QED
  BY <1>7, <1>9, <1>10, <1>11, <1>12 DEF Inv

\* A handler ends, whatever became of the key it held.
LEMMA EndOfRequest ==
    ASSUME Inv, NEW r \in Requests,
           req' = [req EXCEPT ![r] = Idle],
           UNCHANGED <<tables, cleanup, deletions, home, dangling>>,
           usedKeys \subseteq usedKeys', usedKeys' \subseteq Keys,
           leaked \subseteq leaked', leaked' \subseteq Keys,
           blobs' \subseteq Keys,
           \A k \in blobs \ blobs' : k \in Held(req[r]) /\ k \notin FreshKeys(req[r])
                                     /\ ~(Shown(k) /\ k \notin dangling),
           \A k \in blobs' \ blobs : k \in leaked',
           \A k \in Held(req[r]) : k \in leaked' \/ k \notin blobs'
    PROVE  Inv'
<1>1. TypeOK'
  BY IdleIsOK DEF Inv, TypeOK, tables
<1>2. /\ \A j : Shown(j)' <=> Shown(j)
      /\ TablesOK' /\ HomesAreUsed' /\ ArtworkStaysWithItsSong'
  BY SameTables
<1>3. JobOK(Idle)'
  BY DEF JobOK, KindFits, JobKeys, Edits, FreshKeys, Idle
<1>4. ASSUME NEW q \in Requests \ {r}
      PROVE  /\ MovesOn(req[q])
             /\ FreshKeys(Idle) \cap Held(req[q]) = {}
             /\ FreshKeys(req[q]) \cap Held(Idle) = {}
  <2>1. req[q] \in RequestState /\ JobOK(req[q])
    BY DEF Inv, TypeOK, JobsOK
  <2>2. ASSUME NEW j \in FreshKeys(req[q]) PROVE j \in blobs'
    <3>1. j \in blobs
      BY <2>1 DEF JobOK
    <3>2. j \notin Held(req[r])
      BY DEF Inv, FreshKeysAreOnesOwn
    <3>3. QED
      BY <3>1, <3>2
  <2>3. MovesOn(req[q])
    BY <1>2, <2>2 DEF MovesOn, tables, Inv, TypeOK
  <2>4. QED
    BY <2>3, IdleIsOK
<1>5. JobsOK' /\ FreshKeysAreOnesOwn'
  BY <1>3, <1>4, IdleIsOK, RequestsStay
<1>6. ShownArtworkExists'
  BY <1>2 DEF Inv, ShownArtworkExists
<1>7. CleanupSparesTheLiving'
  BY DEF Inv, CleanupSparesTheLiving, tables
<1>8. NoFileForgotten'
  <2>1. ASSUME NEW j \in blobs'
        PROVE  \/ Shown(j)'
               \/ j \in cleanup' \cup leaked'
               \/ \E q \in Requests : j \in Held(req'[q])
    <3>1. CASE j \notin blobs
      BY <3>1
    <3>2. CASE j \in blobs
      <4>1. \/ Shown(j)
            \/ j \in cleanup \cup leaked
            \/ \E q \in Requests : j \in Held(req[q])
        BY <3>2 DEF Inv, NoFileForgotten
      <4>2. ASSUME NEW q \in Requests, j \in Held(req[q])
            PROVE  j \in leaked' \/ \E p \in Requests : j \in Held(req'[p])
        <5>1. CASE q = r
          BY <4>2, <5>1
        <5>2. CASE q # r
          <6>1. req'[q] = req[q]
            BY <5>2 DEF Inv, TypeOK
          <6>2. QED
            BY <4>2, <6>1
        <5>3. QED
          BY <5>1, <5>2
      <4>3. QED
        BY <1>2, <4>1, <4>2
    <3>3. QED
      BY <3>1, <3>2
  <2>2. QED
    BY <1>1, <2>1 DEF NoFileForgotten, Held, Fresh, TypeOK
<1>9. QED
  BY <1>1, <1>2, <1>5, <1>6, <1>7, <1>8 DEF Inv

LEMMA UploadUnseenKeepsInv ==
    ASSUME Inv, NEW r \in Requests, NEW k \in Keys, UploadUnseen(r, k)
    PROVE  Inv'
<1>1. Held(req[r]) = {}
  BY HeldByCounter DEF UploadUnseen, Inv, TypeOK
<1>2. /\ req' = [req EXCEPT ![r] = Idle]
      /\ blobs' = blobs \cup {k} /\ usedKeys' = usedKeys \cup {k}
      /\ leaked' = leaked \cup {k}
      /\ UNCHANGED <<tables, cleanup, deletions, home, dangling>>
  BY DEF UploadUnseen, Goto
<1>3. usedKeys' \subseteq Keys /\ leaked' \subseteq Keys /\ blobs' \subseteq Keys
  BY <1>2 DEF Inv, TypeOK
<1>4. QED
  BY <1>1, <1>2, <1>3, EndOfRequest

LEMMA RemoveArtworkKeepsInv ==
    ASSUME Inv, NEW r \in Requests, RemoveArtwork(r)
    PROVE  Inv'
<1> DEFINE k == req[r].key
<1>1. req[r] \in RequestState /\ JobOK(req[r]) /\ req[r].pc = "removing"
  BY DEF RemoveArtwork, Inv, TypeOK, JobsOK
<1>2. /\ Held(req[r]) = {k}
      /\ FreshKeys(req[r]) = {}
      /\ Shown(k) => k \in dangling
  BY <1>1, HeldByCounter DEF FreshKeys, JobOK
<1>3. /\ req' = [req EXCEPT ![r] = Idle]
      /\ blobs' = blobs \ {k}
      /\ UNCHANGED <<tables, cleanup, deletions, histories>>
  BY DEF RemoveArtwork, Goto
<1>4. QED
  BY <1>2, <1>3, EndOfRequest DEF histories, Inv, TypeOK

LEMMA RequestDiesKeepsInv ==
    ASSUME Inv, NEW r \in Requests, RequestDies(r)
    PROVE  Inv'
<1>1. Held(req[r]) \subseteq Keys
  BY HeldByCounter DEF Inv, TypeOK
<1>2. /\ req' = [req EXCEPT ![r] = Idle]
      /\ leaked' = leaked \cup Held(req[r])
      /\ UNCHANGED <<tables, blobs, cleanup, deletions, usedKeys, home, dangling>>
  BY DEF RequestDies, Goto
<1>3. QED
  BY <1>1, <1>2, EndOfRequest DEF Inv, TypeOK

-----------------------------------------------------------------------------
(* Rows are written. *)

\* The row of a song names k: a new file of this request, or the file the row
\* named before, or one that may be missing.  What the row named is removed
\* next, or left behind.
RowIsWritten(r, job, a, s, k) ==
    /\ artists[a] # NoRow
    /\ WriteRow(a, s, k)
    /\ UNCHANGED <<artists, usedIDs, administered, blobs, cleanup, deletions, usedKeys>>
    /\ dangling \subseteq dangling' /\ dangling' \subseteq Keys
    /\ leaked \subseteq leaked' /\ leaked' \subseteq Keys
    /\ k # NoArt =>
          \/ k \in FreshKeys(req[r])
          \/ home[k] = <<a, s>> /\ (songs[a][s] = k \/ k \in dangling')
    /\ req' = [req EXCEPT ![r] = job]
    /\ job = Idle \/ (job.pc = "removing" /\ job.artist = a)
    /\ Held(req[r]) \subseteq {k} \cup Held(job)
    /\ {songs[a][s]} \subseteq {NoRow, NoArt, k} \cup leaked' \cup Held(job)
    /\ \A j \in Held(job) :
          \/ j \in FreshKeys(req[r]) /\ j = k /\ j \in dangling'
          \/ home[j] = <<a, s>> /\ j # k

LEMMA WriteStep ==
    ASSUME Inv, NEW r \in Requests, NEW job \in RequestState,
           NEW a \in ArtistIDs, NEW s \in SongSlugs, NEW k \in Artwork,
           RowIsWritten(r, job, a, s, k)
    PROVE  Inv'
<1> USE DEF RowIsWritten
<1>1. /\ songs' = [songs EXCEPT ![a][s] = k]
      /\ home' = [j \in Keys |->
                     IF j = k /\ home[j] = NoRow THEN <<a, s>> ELSE home[j]]
      /\ a \in usedIDs
  BY DEF WriteRow, Inv, TablesOK
<1>2. TypeOK'
  BY <1>1 DEF Inv, TypeOK
<1>3. /\ songs'[a][s] = k
      /\ \A b \in ArtistIDs, t \in SongSlugs :
            <<b, t>> # <<a, s>> => songs'[b][t] = songs[b][t]
  BY <1>1 DEF Inv, TypeOK
<1>4. k # NoArt => /\ k \in Keys /\ k \in usedKeys
                   /\ home[k] = NoRow \/ home[k] = <<a, s>>
  <2>1. req[r] \in RequestState /\ JobOK(req[r])
    BY DEF Inv, TypeOK, JobsOK
  <2>2. k \in FreshKeys(req[r]) => k \in usedKeys /\ home[k] = NoRow
    BY <2>1, HeldKeysAreDrawn, HeldByCounter DEF JobOK
  <2>3. k # NoArt /\ home[k] = <<a, s>> => k \in usedKeys
    BY SongIsNoRow DEF Inv, HomesAreUsed, Artwork
  <2>4. QED
    BY <2>2, <2>3 DEF Artwork
<1>5. k # NoArt => home'[k] = <<a, s>>
  BY <1>1, <1>4, SongIsNoRow
<1>6. \A j \in Keys : home[j] # NoRow \/ j # k => home'[j] = home[j]
  BY <1>1
<1>7. \A j \in Keys : Shown(j)' => Shown(j) \/ j = k
  BY <1>3 DEF Shown
<1>8. \A j \in Keys : Shown(j) /\ songs[a][s] # j => Shown(j)'
  BY <1>3 DEF Shown
<1>9. ArtworkStaysWithItsSong'
  <2> SUFFICES ASSUME NEW b \in ArtistIDs, NEW t \in SongSlugs, songs'[b][t] \in Keys
               PROVE  home'[songs'[b][t]] = <<b, t>>
    BY DEF ArtworkStaysWithItsSong
  <2>1. CASE <<b, t>> = <<a, s>>
    BY <1>3, <1>5, <2>1
  <2>2. CASE <<b, t>> # <<a, s>>
    <3>1. songs[b][t] = songs'[b][t]
      BY <1>3, <2>2
    <3>2. home[songs[b][t]] = <<b, t>> /\ home[songs[b][t]] # NoRow
      BY <3>1, ShownHasHome DEF Inv
    <3>3. QED
      BY <1>6, <3>1, <3>2
  <2>3. QED
    BY <2>1, <2>2
<1>10. HomesAreUsed'
  <2> SUFFICES ASSUME NEW j \in Keys, home'[j] # NoRow
               PROVE  j \in usedKeys /\ home'[j][1] \in usedIDs
    BY DEF HomesAreUsed
  <2>1. CASE home'[j] = home[j]
    BY <2>1 DEF Inv, HomesAreUsed
  <2>2. CASE home'[j] # home[j]
    <3>1. j = k /\ home'[j] = <<a, s>>
      BY <1>1, <2>2
    <3>2. QED
      BY <1>1, <1>4, <3>1
  <2>3. QED
    BY <2>1, <2>2
<1>11. TablesOK'
  BY <1>3 DEF Inv, TablesOK
<1>12. JobOK(job)'
  <2>1. CASE job = Idle
    BY <2>1 DEF JobOK, KindFits, JobKeys, Edits, FreshKeys, Idle
  <2>2. CASE job.pc = "removing" /\ job.artist = a
    <3>1. Held(job) = {job.key} /\ job.key \in Keys
      BY <2>2, HeldByCounter, Fields
    <3>2. job.key \in usedKeys
      <4>1. CASE job.key = k
        BY <1>4, <3>1, <4>1
      <4>2. CASE job.key # k
        BY <3>1, <4>2, SongIsNoRow DEF Inv, HomesAreUsed
      <4>3. QED
        BY <4>1, <4>2
    <3>3. home'[job.key] = <<a, s>>
      BY <1>5, <1>6, <3>1
    <3>4. Shown(job.key)' => job.key \in dangling'
      <4>1. CASE job.key = k
        BY <3>1, <4>1
      <4>2. CASE job.key # k
        <5> SUFFICES ASSUME NEW b \in ArtistIDs, NEW t \in SongSlugs,
                            songs'[b][t] = job.key
                     PROVE  FALSE
          BY DEF Shown
        <5>1. home'[job.key] = <<b, t>>
          BY <1>9, <3>1 DEF ArtworkStaysWithItsSong
        <5>2. b = a /\ t = s
          BY <3>3, <5>1
        <5>3. QED
          BY <1>3, <4>2, <5>2
      <4>3. QED
        BY <4>1, <4>2
    <3>5. (JobKeys(job) \subseteq usedKeys)'
      BY <2>2, <3>2 DEF JobKeys
    <3>6. QED
      BY <2>2, <3>3, <3>4, <3>5 DEF JobOK, KindFits, Edits, FreshKeys
  <2>3. QED
    BY <2>1, <2>2
<1>13. FreshKeys(job) = {}
  BY IdleIsOK DEF FreshKeys
<1>14. ASSUME NEW q \in Requests \ {r}
       PROVE  /\ MovesOn(req[q])
              /\ FreshKeys(job) \cap Held(req[q]) = {}
              /\ FreshKeys(req[q]) \cap Held(job) = {}
  <2>1. /\ req[q] \in RequestState /\ JobOK(req[q])
        /\ Held(req[q]) \subseteq Keys /\ FreshKeys(req[q]) \subseteq Held(req[q])
    BY HeldByCounter DEF Inv, TypeOK, JobsOK
  <2>2. /\ FreshKeys(req[r]) \cap Held(req[q]) = {}
        /\ FreshKeys(req[q]) \cap Held(req[r]) = {}
    BY DEF Inv, FreshKeysAreOnesOwn
  <2>3. ASSUME NEW j \in Held(req[q])
        PROVE  /\ home'[j] = home[j]
               /\ Shown(j)' => Shown(j) \/ j \in dangling'
    <3>1. CASE j # k
      BY <1>6, <1>7, <2>1, <3>1
    <3>2. CASE j = k
      <4>1. k \in Keys /\ k # NoArt /\ k \notin FreshKeys(req[r])
        BY <2>1, <2>2, <3>2
      <4>2. home[k] = <<a, s>> /\ (songs[a][s] = k \/ k \in dangling')
        BY <4>1
      <4>3. QED
        BY <1>6, <3>2, <4>1, <4>2, SongIsNoRow DEF Shown
    <3>3. QED
      BY <3>1, <3>2
  <2>4. \A j \in FreshKeys(req[q]) : j \in blobs' /\ home[j] = NoRow
    BY <2>1 DEF JobOK
  <2>5. MovesOn(req[q])
    BY <1>1, <1>4, <1>6, <2>3, <2>4, SongIsNoRow DEF MovesOn, Inv, TypeOK
  <2>6. FreshKeys(req[q]) \cap Held(job) = {}
    <3> SUFFICES ASSUME NEW j \in FreshKeys(req[q]), j \in Held(job)
                 PROVE  FALSE
      OBVIOUS
    <3>1. home[j] = NoRow /\ j \notin FreshKeys(req[r])
      BY <2>1, <2>2, <2>4
    <3>2. QED
      BY <3>1, SongIsNoRow
  <2>7. QED
    BY <1>13, <2>5, <2>6
<1>15. JobsOK' /\ FreshKeysAreOnesOwn'
  BY <1>12, <1>14, RequestsStay
<1>16. ShownArtworkExists'
  <2> SUFFICES ASSUME NEW j \in Keys, Shown(j)'
               PROVE  j \in blobs \cup dangling'
    BY DEF ShownArtworkExists
  <2>1. CASE Shown(j)
    BY <2>1 DEF Inv, ShownArtworkExists
  <2>2. CASE j = k /\ k \in FreshKeys(req[r])
    BY <2>2 DEF Inv, JobsOK, JobOK
  <2>3. CASE j = k /\ (songs[a][s] = k \/ k \in dangling')
    BY <2>3 DEF Inv, ShownArtworkExists, Shown
  <2>4. QED
    BY <1>7, <2>1, <2>2, <2>3
<1>17. CleanupSparesTheLiving'
  BY <1>6 DEF Inv, TypeOK, CleanupSparesTheLiving
<1>18. NoFileForgotten'
  <2>1. ASSUME NEW j \in blobs
        PROVE  \/ Shown(j)'
               \/ j \in cleanup' \cup leaked'
               \/ \E q \in Requests : j \in Held(req'[q])
    <3>0. j \in Keys /\ j # NoRow /\ j # NoArt
      BY DEF Inv, TypeOK
    <3>1. \/ Shown(j)
          \/ j \in cleanup \cup leaked
          \/ \E q \in Requests : j \in Held(req[q])
      BY DEF Inv, NoFileForgotten
    <3>2. j = k => Shown(j)'
      BY <1>3 DEF Shown
    <3>3. req'[r] = job
      BY DEF Inv, TypeOK
    <3>4. CASE Shown(j)
      BY <1>8, <3>0, <3>2, <3>3, <3>4
    <3>5. CASE j \in cleanup \cup leaked
      BY <3>5
    <3>6. ASSUME NEW q \in Requests, j \in Held(req[q])
          PROVE  \/ Shown(j)'
                 \/ \E p \in Requests : j \in Held(req'[p])
      <4>1. CASE q = r
        BY <3>2, <3>3, <3>6, <4>1
      <4>2. CASE q # r
        <5>1. req'[q] = req[q]
          BY <4>2 DEF Inv, TypeOK
        <5>2. QED
          BY <3>6, <5>1
      <4>3. QED
        BY <4>1, <4>2
    <3>7. QED
      BY <3>1, <3>4, <3>5, <3>6
  <2>2. QED
    BY <1>2, <2>1 DEF NoFileForgotten, Held, Fresh, TypeOK
<1>19. QED
  BY <1>2, <1>9, <1>10, <1>11, <1>15, <1>16, <1>17, <1>18 DEF Inv

LEMMA InsertedRow ==
    ASSUME Inv, NEW r \in Requests, req[r].pc = "inserting", InsertRow(req[r])
    PROVE  /\ req[r] \in RequestState /\ JobOK(req[r])
           /\ req[r].artist \in ArtistIDs
           /\ req[r].new \in Artwork
           /\ artists[req[r].artist] # NoRow
           /\ Held(req[r]) = {req[r].new} \ {NoArt}
           /\ FreshKeys(req[r]) = {req[r].new} \ {NoArt}
           /\ \E s \in SongSlugs : /\ songs[req[r].artist][s] = NoRow
                                   /\ WriteRow(req[r].artist, s, req[r].new)
<1>1. /\ req[r] \in RequestState /\ JobOK(req[r])
      /\ req[r].kind = "create"
      /\ req[r].artist \in ArtistIDs
      /\ req[r].title \in Titles
      /\ req[r].new \in Artwork
  BY Fields DEF Inv, TypeOK, JobsOK
<1>2. req[r].title[req[r].attempt] \in SongSlugs
  <2>1. req[r].attempt \in 1..Len(req[r].title)
    BY <1>1 DEF JobOK, KindFits
  <2>2. QED
    BY <1>1, <2>1
<1>3. Held(req[r]) = {req[r].new} \ {NoArt} /\ FreshKeys(req[r]) = {req[r].new} \ {NoArt}
  BY <1>1, HeldByCounter DEF FreshKeys, Fresh
<1>4. QED
  BY <1>1, <1>2, <1>3 DEF InsertRow, SongExists

LEMMA InsertSongKeepsInv ==
    ASSUME Inv, NEW r \in Requests, InsertSong(r)
    PROVE  Inv'
<1>1. PICK s \in SongSlugs : /\ songs[req[r].artist][s] = NoRow
                             /\ WriteRow(req[r].artist, s, req[r].new)
  BY InsertedRow DEF InsertSong
<1>2. /\ req' = [req EXCEPT ![r] = Idle]
      /\ UNCHANGED <<artists, usedIDs, administered, blobs, cleanup, deletions,
                     usedKeys, leaked, dangling>>
  BY DEF InsertSong, Goto
<1>3. leaked' \subseteq Keys /\ dangling' \subseteq Keys
  BY <1>2 DEF Inv, TypeOK
<1>4. PICK a \in ArtistIDs, k \in Artwork : a = req[r].artist /\ k = req[r].new
  BY InsertedRow DEF InsertSong
<1>5. RowIsWritten(r, Idle, a, s, k)
  BY <1>1, <1>2, <1>3, <1>4, InsertedRow, IdleIsOK DEF InsertSong, RowIsWritten
<1>6. QED
  BY <1>5, IdleIsOK, WriteStep

\* The record of a handler that goes on to remove k.
LEMMA Removal ==
    ASSUME NEW r \in Requests, req[r].artist \in ArtistIDs,
           NEW k \in Artwork, RemoveThenFinish(r, k)
    PROVE  \E job \in RequestState :
              /\ req' = [req EXCEPT ![r] = job]
              /\ job = Idle \/ (job.pc = "removing" /\ job.artist = req[r].artist)
              /\ Held(job) = {k} \ {NoArt}
<1>1. CASE k = NoArt
  BY <1>1, IdleIsOK DEF RemoveThenFinish, Goto
<1>2. CASE k # NoArt
  <2>1. PICK job \in RequestState :
            job = [pc |-> "removing", artist |-> req[r].artist, key |-> k]
    BY <1>2 DEF RequestState, Artwork
  <2>2. Held(job) = {k} /\ job.pc = "removing" /\ job.artist = req[r].artist
    BY <2>1, HeldByCounter
  <2>3. QED
    BY <1>2, <2>1, <2>2 DEF RemoveThenFinish, Goto
<1>3. QED
  BY <1>1, <1>2

LEMMA InsertUnseenKeepsInv ==
    ASSUME Inv, NEW r \in Requests, InsertUnseen(r)
    PROVE  Inv'
<1>0. PICK k \in Artwork : k = req[r].new
  BY InsertedRow DEF InsertUnseen
<1>1. PICK s \in SongSlugs : /\ songs[req[r].artist][s] = NoRow
                             /\ WriteRow(req[r].artist, s, k)
  BY <1>0, InsertedRow DEF InsertUnseen
<1>2. /\ k \in Artwork
      /\ Held(req[r]) = {k} \ {NoArt}
      /\ FreshKeys(req[r]) = {k} \ {NoArt}
  BY <1>0, InsertedRow DEF InsertUnseen
<1>3. PICK job \in RequestState :
         /\ req' = [req EXCEPT ![r] = job]
         /\ job = Idle \/ (job.pc = "removing" /\ job.artist = req[r].artist)
         /\ Held(job) = {k} \ {NoArt}
  BY <1>0, InsertedRow, Removal DEF InsertUnseen
<1>4. /\ UNCHANGED <<artists, usedIDs, administered, blobs, cleanup, deletions, usedKeys, leaked>>
      /\ dangling' = dangling \cup ({k} \ {NoArt})
  BY <1>0 DEF InsertUnseen
<1>5. leaked' \subseteq Keys /\ dangling' \subseteq Keys
  BY <1>2, <1>4 DEF Inv, TypeOK, Artwork
<1>6. k # NoArt => k \in FreshKeys(req[r])
  BY <1>2
<1>7. \A j \in Held(job) : j \in FreshKeys(req[r]) /\ j = k /\ j \in dangling'
  BY <1>2, <1>3, <1>4
<1>8. PICK a \in ArtistIDs : a = req[r].artist
  BY InsertedRow DEF InsertUnseen
<1>9. /\ artists[a] # NoRow /\ WriteRow(a, s, k) /\ songs[a][s] = NoRow
      /\ job = Idle \/ (job.pc = "removing" /\ job.artist = a)
  BY <1>1, <1>3, <1>8, InsertedRow DEF InsertUnseen
<1>10. RowIsWritten(r, job, a, s, k)
  BY <1>2, <1>3, <1>4, <1>5, <1>6, <1>7, <1>9 DEF RowIsWritten
<1>11. QED
  BY <1>10, WriteStep

\* What an UPDATE that finds its row has in its hands.
LEMMA UpdatedRow ==
    ASSUME Inv, NEW r \in Requests, req[r].pc = "updating",
           SongExists(req[r].artist, req[r].song)
    PROVE  LET job == req[r]
               row == songs[job.artist][job.song]
           IN /\ job \in RequestState /\ JobOK(job)
              /\ job.artist \in ArtistIDs /\ job.song \in SongSlugs
              /\ job.old \in Artwork /\ job.new \in Artwork
              /\ artists[job.artist] # NoRow
              /\ row \in Artwork
              /\ job.kind \in {"update", "replace", "remove"}
              /\ job.kind = "update" => job.new = job.old
              /\ job.kind = "remove" => job.new = NoArt
              /\ Held(job) = {Fresh(job)} \ {NoArt}
              /\ FreshKeys(job) = {Fresh(job)} \ {NoArt}
              /\ \A k \in FreshKeys(job) : home[k] = NoRow
              /\ job.old # NoArt => home[job.old] = <<job.artist, job.song>>
              /\ Overwritten(job) \subseteq Keys
              /\ WrittenBack(job) \subseteq Keys
<1>1. /\ req[r] \in RequestState /\ JobOK(req[r]) /\ ReadsFit(req[r])
      /\ req[r].artist \in ArtistIDs /\ req[r].song \in SongSlugs
      /\ req[r].old \in Artwork /\ req[r].new \in Artwork
  BY Fields DEF Inv, TypeOK, JobsOK, JobOK
<1>2. /\ artists[req[r].artist] # NoRow
      /\ songs[req[r].artist][req[r].song] \in Artwork
  BY <1>1 DEF SongExists, Inv, TablesOK, TypeOK
<1>3. /\ Held(req[r]) = {Fresh(req[r])} \ {NoArt}
      /\ FreshKeys(req[r]) = {Fresh(req[r])} \ {NoArt}
  BY <1>1, HeldByCounter DEF FreshKeys
<1>4. Overwritten(req[r]) \subseteq Keys /\ WrittenBack(req[r]) \subseteq Keys
  BY <1>1, <1>2 DEF Overwritten, WrittenBack, Artwork
<1>5. QED
  BY <1>1, <1>2, <1>3, <1>4 DEF JobOK, KindFits, ReadsFit

LEMMA UpdateSongKeepsInv ==
    ASSUME Inv, NEW r \in Requests, UpdateSong(r)
    PROVE  Inv'
<1>0. PICK a \in ArtistIDs, s \in SongSlugs, k \in Artwork :
         a = req[r].artist /\ s = req[r].song /\ k = req[r].new
  BY UpdatedRow DEF UpdateSong, UpdateRow
<1>1. /\ a \in ArtistIDs /\ s \in SongSlugs /\ k \in Artwork /\ artists[a] # NoRow
      /\ req[r].old \in Artwork /\ songs[a][s] \in Artwork
      /\ req[r].kind \in {"update", "replace", "remove"}
      /\ req[r].kind = "update" => k = req[r].old
      /\ req[r].kind = "remove" => k = NoArt
      /\ Held(req[r]) = {Fresh(req[r])} \ {NoArt}
      /\ FreshKeys(req[r]) = {Fresh(req[r])} \ {NoArt}
      /\ \A j \in FreshKeys(req[r]) : home[j] = NoRow
      /\ req[r].old # NoArt => home[req[r].old] = <<a, s>>
      /\ Overwritten(req[r]) \subseteq Keys
      /\ WrittenBack(req[r]) \subseteq Keys
  BY <1>0, UpdatedRow DEF UpdateSong, UpdateRow
<1>2. PICK job \in RequestState :
         /\ req' = [req EXCEPT ![r] = job]
         /\ job = Idle \/ (job.pc = "removing" /\ job.artist = a)
         /\ Held(job) = {Replaced(req[r])} \ {NoArt}
  <2>1. Replaced(req[r]) \in Artwork
    BY <1>0, <1>1 DEF Replaced, Artwork
  <2>2. RemoveThenFinish(r, Replaced(req[r]))
    BY DEF UpdateSong
  <2>3. req[r].artist \in ArtistIDs /\ req[r].artist = a
    BY <1>0
  <2>4. QED
    BY <2>1, <2>2, <2>3, Removal
<1>3. /\ WriteRow(a, s, k)
      /\ UNCHANGED <<artists, usedIDs, administered, blobs, cleanup, deletions, usedKeys>>
      /\ dangling' = dangling \cup WrittenBack(req[r])
      /\ leaked' = leaked \cup Overwritten(req[r])
  BY <1>0 DEF UpdateSong, UpdateRow
<1>4. leaked' \subseteq Keys /\ dangling' \subseteq Keys
  BY <1>1, <1>3 DEF Inv, TypeOK
<1>5. k # NoArt => \/ k \in FreshKeys(req[r])
                   \/ home[k] = <<a, s>> /\ (songs[a][s] = k \/ k \in dangling')
  BY <1>0, <1>1, <1>3 DEF Fresh, WrittenBack
<1>6. Held(req[r]) \subseteq {k} \cup Held(job)
  BY <1>0, <1>1 DEF Fresh
<1>7. {songs[a][s]} \subseteq {NoRow, NoArt, k} \cup leaked' \cup Held(job)
  BY <1>0, <1>1, <1>2, <1>3 DEF Overwritten, Replaced
<1>8. \A j \in Held(job) : home[j] = <<a, s>> /\ j # k
  BY <1>0, <1>1, <1>2, SongIsNoRow DEF Replaced, Fresh
<1>9. RowIsWritten(r, job, a, s, k)
  BY <1>1, <1>2, <1>3, <1>4, <1>5, <1>6, <1>7, <1>8 DEF RowIsWritten
<1>10. QED
  BY <1>9, WriteStep

LEMMA UpdateUnseenKeepsInv ==
    ASSUME Inv, NEW r \in Requests, UpdateUnseen(r)
    PROVE  Inv'
<1>0. PICK a \in ArtistIDs, s \in SongSlugs, k \in Artwork :
         a = req[r].artist /\ s = req[r].song /\ k = req[r].new
  BY UpdatedRow DEF UpdateUnseen, UpdateRow
<1>1. /\ a \in ArtistIDs /\ s \in SongSlugs /\ k \in Artwork /\ artists[a] # NoRow
      /\ req[r].old \in Artwork /\ songs[a][s] \in Artwork
      /\ req[r].kind \in {"update", "replace", "remove"}
      /\ req[r].kind = "update" => k = req[r].old
      /\ req[r].kind = "remove" => k = NoArt
      /\ Held(req[r]) = {Fresh(req[r])} \ {NoArt}
      /\ FreshKeys(req[r]) = {Fresh(req[r])} \ {NoArt}
      /\ req[r].old # NoArt => home[req[r].old] = <<a, s>>
      /\ Overwritten(req[r]) \subseteq Keys
      /\ WrittenBack(req[r]) \subseteq Keys
  BY <1>0, UpdatedRow DEF UpdateUnseen
<1>2. Fresh(req[r]) \in {k, NoArt} /\ Fresh(req[r]) \in Artwork
      /\ Replaced(req[r]) \in Artwork
  BY <1>0, <1>1 DEF Fresh, Replaced, Artwork
<1>3. PICK job \in RequestState :
         /\ req' = [req EXCEPT ![r] = job]
         /\ job = Idle \/ (job.pc = "removing" /\ job.artist = a)
         /\ Held(job) = {Fresh(req[r])} \ {NoArt}
  <2>1. RemoveThenFinish(r, Fresh(req[r]))
    BY DEF UpdateUnseen
  <2>2. req[r].artist \in ArtistIDs /\ req[r].artist = a
    BY <1>0
  <2>3. QED
    BY <1>2, <2>1, <2>2, Removal
<1>4. /\ WriteRow(a, s, k)
      /\ UNCHANGED <<artists, usedIDs, administered, blobs, cleanup, deletions, usedKeys>>
      /\ dangling' = dangling \cup WrittenBack(req[r])
                              \cup ({Fresh(req[r])} \ {NoArt})
      /\ leaked' = leaked \cup Overwritten(req[r]) \cup ({Replaced(req[r])} \ {NoArt})
  BY <1>0 DEF UpdateUnseen
<1>5. leaked' \subseteq Keys /\ dangling' \subseteq Keys
  BY <1>1, <1>2, <1>4 DEF Inv, TypeOK, Artwork
<1>6. k # NoArt => \/ k \in FreshKeys(req[r])
                   \/ home[k] = <<a, s>> /\ (songs[a][s] = k \/ k \in dangling')
  BY <1>0, <1>1, <1>4 DEF Fresh, WrittenBack
<1>7. Held(req[r]) \subseteq {k} \cup Held(job)
  BY <1>1, <1>3
<1>8. {songs[a][s]} \subseteq {NoRow, NoArt, k} \cup leaked' \cup Held(job)
  BY <1>0, <1>1, <1>4 DEF Overwritten, Replaced
<1>9. \A j \in Held(job) : j \in FreshKeys(req[r]) /\ j = k /\ j \in dangling'
  BY <1>1, <1>2, <1>3, <1>4
<1>10. RowIsWritten(r, job, a, s, k)
  BY <1>1, <1>3, <1>4, <1>5, <1>6, <1>7, <1>8, <1>9 DEF RowIsWritten
<1>11. QED
  BY <1>10, WriteStep

-----------------------------------------------------------------------------
(* Rows are deleted. *)

\* The row of a song goes; the file it named is removed next, or left behind.
RowIsDeleted(r, job, a, s) ==
    /\ songs' = [songs EXCEPT ![a][s] = NoRow]
    /\ UNCHANGED <<artists, usedIDs, administered, blobs, cleanup, deletions,
                   usedKeys, home, dangling>>
    /\ leaked \subseteq leaked' /\ leaked' \subseteq Keys
    /\ req' = [req EXCEPT ![r] = job]
    /\ job = Idle \/ (job.pc = "removing" /\ job.artist = a)
    /\ Held(req[r]) = {}
    /\ {songs[a][s]} \subseteq {NoArt} \cup leaked' \cup Held(job)
    /\ \A j \in Held(job) : home[j] = <<a, s>>

LEMMA DeleteStep ==
    ASSUME Inv, NEW r \in Requests, NEW job \in RequestState,
           NEW a \in ArtistIDs, NEW s \in SongSlugs,
           RowIsDeleted(r, job, a, s)
    PROVE  Inv'
<1> USE DEF RowIsDeleted
<1>1. TypeOK'
  BY DEF Inv, TypeOK
<1>2. /\ songs'[a][s] = NoRow
      /\ \A b \in ArtistIDs, t \in SongSlugs :
            <<b, t>> # <<a, s>> => songs'[b][t] = songs[b][t]
  BY DEF Inv, TypeOK
<1>3. \A j \in Keys : Shown(j)' => Shown(j)
  BY <1>2 DEF Shown
<1>4. \A j \in Keys : Shown(j) /\ songs[a][s] # j => Shown(j)'
  BY <1>2 DEF Shown
<1>5. ArtworkStaysWithItsSong'
  <2> SUFFICES ASSUME NEW b \in ArtistIDs, NEW t \in SongSlugs, songs'[b][t] \in Keys
               PROVE  home'[songs'[b][t]] = <<b, t>>
    BY DEF ArtworkStaysWithItsSong
  <2>1. songs'[b][t] = songs[b][t]
    BY <1>2
  <2>2. QED
    BY <2>1, ShownHasHome DEF Inv
<1>6. TablesOK' /\ HomesAreUsed'
  BY <1>2 DEF Inv, TablesOK, HomesAreUsed
<1>7. JobOK(job)'
  <2>1. CASE job = Idle
    BY <2>1 DEF JobOK, KindFits, JobKeys, Edits, FreshKeys, Idle
  <2>2. CASE job.pc = "removing" /\ job.artist = a
    <3>1. Held(job) = {job.key} /\ job.key \in Keys /\ home[job.key] = <<a, s>>
      BY <2>2, HeldByCounter, Fields
    <3>2. job.key \in usedKeys
      BY <3>1, SongIsNoRow DEF Inv, HomesAreUsed
    <3>3. ~Shown(job.key)'
      <4> SUFFICES ASSUME NEW b \in ArtistIDs, NEW t \in SongSlugs,
                          songs'[b][t] = job.key
                   PROVE  FALSE
        BY DEF Shown
      <4>1. home'[job.key] = <<b, t>>
        BY <1>5, <3>1 DEF ArtworkStaysWithItsSong
      <4>2. b = a /\ t = s
        BY <3>1, <4>1
      <4>3. QED
        BY <1>2, <3>1, <4>2
    <3>4. (JobKeys(job) \subseteq usedKeys)'
      BY <2>2, <3>2 DEF JobKeys
    <3>5. QED
      BY <2>2, <3>1, <3>3, <3>4 DEF JobOK, KindFits, Edits, FreshKeys
  <2>3. QED
    BY <2>1, <2>2
<1>8. ASSUME NEW q \in Requests \ {r}
      PROVE  /\ MovesOn(req[q])
             /\ FreshKeys(job) \cap Held(req[q]) = {}
             /\ FreshKeys(req[q]) \cap Held(job) = {}
  <2>1. req[q] \in RequestState /\ JobOK(req[q]) /\ Held(req[q]) \subseteq Keys
    BY HeldByCounter DEF Inv, TypeOK, JobsOK
  <2>2. \A j \in FreshKeys(req[q]) : home[j] = NoRow /\ j \in blobs
    BY <2>1 DEF JobOK
  <2>3. MovesOn(req[q])
    BY <1>3, <2>1, <2>2 DEF MovesOn
  <2>4. FreshKeys(job) = {}
    BY IdleIsOK DEF FreshKeys
  <2>5. QED
    BY <2>2, <2>3, <2>4, SongIsNoRow
<1>9. JobsOK' /\ FreshKeysAreOnesOwn'
  BY <1>7, <1>8, RequestsStay
<1>10. ShownArtworkExists' /\ CleanupSparesTheLiving'
  BY <1>3 DEF Inv, ShownArtworkExists, CleanupSparesTheLiving
<1>11. NoFileForgotten'
  <2>1. ASSUME NEW j \in blobs
        PROVE  \/ Shown(j)'
               \/ j \in cleanup' \cup leaked'
               \/ \E q \in Requests : j \in Held(req'[q])
    <3>0. j \in Keys /\ j # NoArt
      BY DEF Inv, TypeOK
    <3>1. \/ Shown(j)
          \/ j \in cleanup \cup leaked
          \/ \E q \in Requests : j \in Held(req[q])
      BY DEF Inv, NoFileForgotten
    <3>2. req'[r] = job /\ \A q \in Requests \ {r} : req'[q] = req[q]
      BY DEF Inv, TypeOK
    <3>3. CASE Shown(j)
      BY <1>4, <3>0, <3>2, <3>3
    <3>4. CASE j \in cleanup \cup leaked
      BY <3>4
    <3>5. CASE \E q \in Requests : j \in Held(req[q])
      <4>1. PICK q \in Requests : j \in Held(req[q])
        BY <3>5
      <4>2. q # r
        BY <4>1
      <4>3. QED
        BY <3>2, <4>1, <4>2
    <3>6. QED
      BY <3>1, <3>3, <3>4, <3>5
  <2>2. QED
    BY <1>1, <2>1 DEF NoFileForgotten, Held, Fresh, TypeOK
<1>12. QED
  BY <1>1, <1>5, <1>6, <1>9, <1>10, <1>11 DEF Inv

\* What a DELETE that finds its row has in its hands.
LEMMA DeletedRow ==
    ASSUME Inv, NEW r \in Requests, req[r].pc = "deleting",
           SongExists(req[r].artist, req[r].song)
    PROVE  LET job == req[r] IN
              /\ job.artist \in ArtistIDs /\ job.song \in SongSlugs
              /\ job.old \in Artwork
              /\ Held(job) = {}
              /\ job.old # NoArt => home[job.old] = <<job.artist, job.song>>
              /\ Overwritten(job) \subseteq Keys
<1>1. /\ req[r] \in RequestState /\ JobOK(req[r]) /\ ReadsFit(req[r])
      /\ req[r].artist \in ArtistIDs /\ req[r].song \in SongSlugs
      /\ req[r].old \in Artwork
  BY Fields DEF Inv, TypeOK, JobsOK, JobOK
<1>2. /\ artists[req[r].artist] # NoRow
      /\ songs[req[r].artist][req[r].song] \in Artwork
  BY <1>1 DEF SongExists, Inv, TablesOK, TypeOK
<1>3. QED
  BY <1>1, <1>2, HeldByCounter DEF ReadsFit, Overwritten, Artwork

LEMMA DeleteSongKeepsInv ==
    ASSUME Inv, NEW r \in Requests, DeleteSong(r)
    PROVE  Inv'
<1>1. PICK a \in ArtistIDs, s \in SongSlugs, k \in Artwork :
         a = req[r].artist /\ s = req[r].song /\ k = req[r].old
  BY DeletedRow DEF DeleteSong
<1>2. /\ Held(req[r]) = {}
      /\ k # NoArt => home[k] = <<a, s>>
      /\ Overwritten(req[r]) \subseteq Keys
  BY <1>1, DeletedRow DEF DeleteSong
<1>3. PICK job \in RequestState :
         /\ req' = [req EXCEPT ![r] = job]
         /\ job = Idle \/ (job.pc = "removing" /\ job.artist = a)
         /\ Held(job) = {k} \ {NoArt}
  <2>1. RemoveThenFinish(r, k)
    BY <1>1 DEF DeleteSong
  <2>2. QED
    BY <1>1, <2>1, Removal
<1>4. /\ songs' = [songs EXCEPT ![a][s] = NoRow]
      /\ leaked' = leaked \cup Overwritten(req[r])
      /\ UNCHANGED <<artists, usedIDs, administered, blobs, cleanup, deletions,
                     usedKeys, home, dangling>>
  BY <1>1 DEF DeleteSong
<1>5. leaked' \subseteq Keys
  BY <1>2, <1>4 DEF Inv, TypeOK
<1>6. {songs[a][s]} \subseteq {NoArt} \cup leaked' \cup Held(job)
  BY <1>1, <1>3, <1>4 DEF Overwritten
<1>7. \A j \in Held(job) : home[j] = <<a, s>>
  BY <1>2, <1>3
<1>8. RowIsDeleted(r, job, a, s)
  BY <1>2, <1>3, <1>4, <1>5, <1>6, <1>7 DEF RowIsDeleted
<1>9. QED
  BY <1>8, DeleteStep

LEMMA DeleteUnseenKeepsInv ==
    ASSUME Inv, NEW r \in Requests, DeleteUnseen(r)
    PROVE  Inv'
<1>1. PICK a \in ArtistIDs, s \in SongSlugs, k \in Artwork :
         a = req[r].artist /\ s = req[r].song /\ k = req[r].old
  BY DeletedRow DEF DeleteUnseen
<1>2. Held(req[r]) = {} /\ Overwritten(req[r]) \subseteq Keys
  BY DeletedRow DEF DeleteUnseen
<1>3. /\ songs' = [songs EXCEPT ![a][s] = NoRow]
      /\ leaked' = leaked \cup Overwritten(req[r]) \cup ({k} \ {NoArt})
      /\ req' = [req EXCEPT ![r] = Idle]
      /\ UNCHANGED <<artists, usedIDs, administered, blobs, cleanup, deletions,
                     usedKeys, home, dangling>>
  BY <1>1 DEF DeleteUnseen, Goto
<1>4. leaked' \subseteq Keys
  BY <1>2, <1>3 DEF Inv, TypeOK, Artwork
<1>5. {songs[a][s]} \subseteq {NoArt} \cup leaked'
  BY <1>1, <1>3 DEF Overwritten
<1>6. RowIsDeleted(r, Idle, a, s)
  BY <1>2, <1>3, <1>4, <1>5, IdleIsOK DEF RowIsDeleted
<1>7. QED
  BY <1>6, IdleIsOK, DeleteStep

-----------------------------------------------------------------------------
(* The platform administrator. *)

LEMMA CreateArtistKeepsInv ==
    ASSUME Inv, NEW a \in ArtistIDs, NEW slug \in Slugs, CreateArtist(a, slug)
    PROVE  Inv'
<1>1. /\ a \notin usedIDs
      /\ \A b \in ArtistIDs : artists[b] # slug
      /\ artists' = [artists EXCEPT ![a] = slug]
      /\ usedIDs' = usedIDs \cup {a}
      /\ UNCHANGED <<administered, songs, blobs, cleanup, deletions, req, histories>>
  BY DEF CreateArtist, NewArtistID
<1>2. TypeOK'
  BY <1>1 DEF Inv, TypeOK, histories
<1>3. /\ artists'[a] = slug /\ slug # NoRow
      /\ \A b \in ArtistIDs \ {a} : artists'[b] = artists[b]
      /\ \A k : Shown(k)' <=> Shown(k)
  BY <1>1 DEF Inv, TypeOK, Shown
<1>4. TablesOK'
  BY <1>1, <1>3 DEF Inv, TablesOK, TypeOK
<1>5. HomesAreUsed' /\ ArtworkStaysWithItsSong'
  BY <1>1 DEF Inv, HomesAreUsed, ArtworkStaysWithItsSong, histories
<1>6. ASSUME NEW q \in Requests PROVE MovesOn(req[q])
  <2>1. JobOK(req[q])
    BY DEF Inv, JobsOK
  <2>2. QED
    BY <1>1, <1>3, <2>1 DEF MovesOn, JobOK, Inv, TypeOK, histories
<1>7. JobsOK' /\ FreshKeysAreOnesOwn'
  BY <1>1, <1>6, AllRequestsStay
<1>8. CleanupSparesTheLiving'
  BY <1>1, <1>3 DEF Inv, CleanupSparesTheLiving, HomesAreUsed, TypeOK, histories
<1>9. ShownArtworkExists'
  BY <1>1, <1>3 DEF Inv, ShownArtworkExists, histories
<1>10. NoFileForgotten'
  BY <1>1, <1>3 DEF Inv, NoFileForgotten, Held, Fresh, Shown, histories
<1>11. QED
  BY <1>2, <1>4, <1>5, <1>7, <1>8, <1>9, <1>10 DEF Inv

LEMMA AdminsKeepInv ==
    ASSUME Inv, NEW a \in ArtistIDs, AppointAdmin(a) \/ DismissAdmins(a)
    PROVE  Inv'
<1>1. /\ administered' \subseteq ArtistIDs
      /\ \A b \in administered' : artists[b] # NoRow
      /\ UNCHANGED <<artists, usedIDs, songs, blobs, cleanup, deletions, req, histories>>
  BY DEF AppointAdmin, DismissAdmins, Inv, TypeOK, TablesOK
<1>2. TypeOK' /\ TablesOK'
  BY <1>1 DEF Inv, TypeOK, TablesOK, histories
<1>3. JobsOK' /\ FreshKeysAreOnesOwn'
  BY <1>1 DEF Inv, JobsOK, JobOK, KindFits, JobKeys, Edits, ReadsFit, FreshKeys,
              Fresh, Shown, FreshKeysAreOnesOwn, Held, histories
<1>4. /\ HomesAreUsed' /\ ArtworkStaysWithItsSong' /\ CleanupSparesTheLiving'
      /\ ShownArtworkExists' /\ NoFileForgotten'
  BY <1>1 DEF Inv, HomesAreUsed, ArtworkStaysWithItsSong, CleanupSparesTheLiving,
              ShownArtworkExists, NoFileForgotten, Shown, Held, Fresh, histories
<1>5. QED
  BY <1>2, <1>3, <1>4 DEF Inv

\* Only what a deletion holds, or nothing, has changed.
LEMMA DeletionsMove ==
    ASSUME Inv, deletions' \in [Deleters -> DeletionState],
           UNCHANGED <<tables, blobs, cleanup, req, histories>>
    PROVE  Inv'
<1> USE DEF tables, histories
<1>1. TypeOK' /\ TablesOK'
  BY DEF Inv, TypeOK, TablesOK
<1>2. JobsOK' /\ FreshKeysAreOnesOwn'
  BY DEF Inv, JobsOK, JobOK, KindFits, JobKeys, Edits, ReadsFit, FreshKeys,
         Fresh, Shown, FreshKeysAreOnesOwn, Held
<1>3. /\ HomesAreUsed' /\ ArtworkStaysWithItsSong' /\ CleanupSparesTheLiving'
      /\ ShownArtworkExists' /\ NoFileForgotten'
  BY DEF Inv, HomesAreUsed, ArtworkStaysWithItsSong, CleanupSparesTheLiving,
         ShownArtworkExists, NoFileForgotten, Shown, Held, Fresh
<1>4. QED
  BY <1>1, <1>2, <1>3 DEF Inv

\* The keys that an artist's songs name are that artist's alone.
LEMMA ArtworkOfIsKeysOf ==
    ASSUME ArtworkStaysWithItsSong, NEW a \in ArtistIDs
    PROVE  /\ ArtworkOf(a) = KeysOf(a) /\ KeysOf(a) \subseteq Keys
           /\ \A k \in KeysOf(a) : home[k] # NoRow /\ home[k][1] = a
<1>1. \A c \in ArtistIDs : \A k \in KeysOf(c) :
         k \in Keys /\ home[k] # NoRow /\ home[k][1] = c
  BY ShownHasHome DEF KeysOf
<1>2. KeysOf(a) \subseteq Keys
  BY DEF KeysOf
<1>3. ArtworkOf(a) = KeysOf(a)
  BY <1>1 DEF ArtworkOf
<1>4. QED
  BY <1>1, <1>2, <1>3

LEMMA BeginDeletionKeepsInv ==
    ASSUME Inv, NEW d \in Deleters, NEW a \in ArtistIDs, BeginDeletion(d, a)
    PROVE  Inv'
<1> DEFINE x == [at |-> "rows", artist |-> a, paths |-> ArtworkOf(a),
                 seen |-> KeysOf(a)]
<1>1. x \in DeletionState
  BY ArtworkOfIsKeysOf DEF DeletionState, Inv
<1>2. deletions' = [deletions EXCEPT ![d] = x]
  BY DEF BeginDeletion
<1> HIDE DEF x
<1>3. deletions' \in [Deleters -> DeletionState]
  BY <1>1, <1>2 DEF Inv, TypeOK
<1>4. QED
  BY <1>3, DeletionsMove DEF BeginDeletion

LEMMA DeletionFailsKeepsInv ==
    ASSUME Inv, NEW d \in Deleters, DeletionFails(d)
    PROVE  Inv'
<1>1. deletions' \in [Deleters -> DeletionState]
  BY DEF DeletionFails, DeletionState, Inv, TypeOK
<1>2. QED
  BY <1>1, DeletionsMove DEF DeletionFails

\* The rows of an artist go: what they named is handed to the clean-up or left
\* behind, and the clean-up is handed nothing but keys of that artist.
LEMMA DeleteRowsKeepsInv ==
    ASSUME Inv, NEW d \in Deleters, DeleteRows(d),
           NEW a \in ArtistIDs, a = deletions[d].artist,
           NEW handed \in SUBSET Keys, NEW left \in SUBSET Keys,
           cleanup' = cleanup \cup handed, leaked' = leaked \cup left,
           KeysOf(a) \subseteq handed \cup left,
           \A k \in handed : home[k] # NoRow /\ home[k][1] = a
    PROVE  Inv'
<1>1. /\ songs' = [songs EXCEPT ![a] = [s \in SongSlugs |-> NoRow]]
      /\ artists' = [artists EXCEPT ![a] = NoRow]
      /\ administered' = administered \ {a}
      /\ deletions' = [deletions EXCEPT ![d] = NoDeletion]
      /\ UNCHANGED <<usedIDs, blobs, req, usedKeys, home, dangling>>
  BY DEF DeleteRows
<1>2. /\ \A b \in ArtistIDs : artists'[b] = IF b = a THEN NoRow ELSE artists[b]
      /\ \A b \in ArtistIDs, s \in SongSlugs :
            songs'[b][s] = IF b = a THEN NoRow ELSE songs[b][s]
  BY <1>1 DEF Inv, TypeOK
<1>3. TypeOK'
  BY <1>1 DEF Inv, TypeOK, DeletionState
<1>4. TablesOK' /\ HomesAreUsed'
  BY <1>1, <1>2 DEF Inv, TablesOK, HomesAreUsed, TypeOK
<1>5. ArtworkStaysWithItsSong'
  <2>1. SUFFICES ASSUME NEW b \in ArtistIDs, NEW s \in SongSlugs,
                        songs'[b][s] \in Keys
                 PROVE  home'[songs'[b][s]] = <<b, s>>
    BY DEF ArtworkStaysWithItsSong
  <2>2. b # a /\ songs'[b][s] = songs[b][s]
    BY <1>2, <2>1, NoRowAssumption
  <2>3. QED
    BY <1>1, <2>1, <2>2 DEF Inv, ArtworkStaysWithItsSong
<1>6. \A k \in Keys : Shown(k)' => Shown(k)
  BY <1>2 DEF Shown
<1>7. ASSUME NEW k \in Keys, Shown(k), ~Shown(k)'
      PROVE  k \in cleanup' \cup leaked'
  <2>1. PICK b \in ArtistIDs, s \in SongSlugs : songs[b][s] = k
    BY <1>7 DEF Shown
  <2>2. b = a
    BY <1>2, <1>7, <2>1 DEF Shown
  <2>3. QED
    BY <2>1, <2>2 DEF KeysOf
<1>8. ASSUME NEW q \in Requests PROVE MovesOn(req[q])
  <2>1. req[q] \in RequestState /\ JobOK(req[q]) /\ Held(req[q]) \subseteq Keys
    BY HeldByCounter DEF Inv, JobsOK, TypeOK
  <2>2. \A k \in FreshKeys(req[q]) : k \in blobs
    BY <2>1 DEF JobOK
  <2>3. QED
    BY <1>1, <1>2, <1>6, <2>1, <2>2 DEF MovesOn, Inv, TypeOK
<1>9. JobsOK' /\ FreshKeysAreOnesOwn'
  BY <1>1, <1>8, AllRequestsStay
<1>10. CleanupSparesTheLiving'
  <2> SUFFICES ASSUME NEW k \in cleanup'
               PROVE  home'[k] # NoRow /\ artists'[home'[k][1]] = NoRow
    BY DEF CleanupSparesTheLiving
  <2>1. CASE k \in cleanup
    <3>1. home[k] # NoRow /\ artists[home[k][1]] = NoRow /\ home[k][1] \in ArtistIDs
      BY <2>1 DEF Inv, CleanupSparesTheLiving, TypeOK
    <3>2. QED
      BY <1>1, <1>2, <3>1
  <2>2. CASE k \in handed
    BY <1>1, <1>2, <2>2
  <2>3. QED
    BY <2>1, <2>2
<1>11. ShownArtworkExists'
  BY <1>1, <1>6 DEF Inv, ShownArtworkExists
<1>12. NoFileForgotten'
  <2>1. \A k \in blobs : \/ Shown(k)'
                         \/ k \in cleanup' \cup leaked'
                         \/ \E q \in Requests : k \in Held(req'[q])
    BY <1>1, <1>7 DEF Inv, NoFileForgotten, TypeOK
  <2>2. QED
    BY <1>1, <1>3, <2>1 DEF NoFileForgotten, Held, Fresh, TypeOK
<1>13. QED
  BY <1>3, <1>4, <1>5, <1>9, <1>10, <1>11, <1>12 DEF Inv

\* The transaction that runs to its end.
LEMMA OpenDeletion ==
    ASSUME Inv, DeletionsOK, NEW d \in Deleters, DeleteRows(d)
    PROVE  LET x == deletions[d] IN
              /\ x.artist \in ArtistIDs
              /\ x.paths \subseteq Keys /\ x.paths = x.seen
              /\ \A k \in x.paths : home[k] # NoRow /\ home[k][1] = x.artist
<1>1. deletions[d] \in DeletionState /\ deletions[d].at = "rows"
  BY DEF DeleteRows, Inv, TypeOK
<1>2. /\ deletions[d] # NoDeletion
      /\ deletions[d].artist \in ArtistIDs /\ deletions[d].paths \subseteq Keys
  BY <1>1 DEF DeletionState, NoDeletion
<1>3. QED
  BY <1>2 DEF DeletionsOK, DeletionOK

LEMMA DeleteArtistKeepsInv ==
    ASSUME Inv, DeletionsOK, NEW d \in Deleters, DeleteArtist(d)
    PROVE  Inv'
<1>1. PICK a \in ArtistIDs, handed \in SUBSET Keys :
         /\ a = deletions[d].artist
         /\ handed = deletions[d].paths /\ handed = deletions[d].seen
         /\ \A k \in handed : home[k] # NoRow /\ home[k][1] = a
  BY OpenDeletion DEF DeleteArtist
<1>2. PICK left \in SUBSET Keys : left = KeysOf(a) \ handed
  BY DEF KeysOf
<1>3. /\ DeleteRows(d)
      /\ cleanup' = cleanup \cup handed /\ leaked' = leaked \cup left
  BY <1>1, <1>2 DEF DeleteArtist, Unseen
<1>4. KeysOf(a) \subseteq handed \cup left
  BY <1>2
<1>5. QED
  BY <1>1, <1>3, <1>4, DeleteRowsKeepsInv

LEMMA DeleteArtistUnseenKeepsInv ==
    ASSUME Inv, DeletionsOK, NEW d \in Deleters, DeleteArtistUnseen(d)
    PROVE  Inv'
<1>1. PICK a \in ArtistIDs, left \in SUBSET Keys :
         a = deletions[d].artist /\ left = KeysOf(a)
  BY OpenDeletion DEF DeleteArtistUnseen, KeysOf
<1>2. PICK handed \in SUBSET Keys : handed = {}
  OBVIOUS
<1>3. /\ DeleteRows(d)
      /\ cleanup' = cleanup \cup handed /\ leaked' = leaked \cup left
  BY <1>1, <1>2 DEF DeleteArtistUnseen
<1>4. QED
  BY <1>1, <1>2, <1>3, DeleteRowsKeepsInv

\* A key of a deleted artist's song leaves the list, its file perhaps storage.
LEMMA CleanUpsKeepInv ==
    ASSUME Inv, NEW k \in Keys, CleanUp(k) \/ CleanUpFails(k)
    PROVE  Inv'
<1>1. /\ k \in cleanup /\ cleanup' = cleanup \ {k}
      /\ UNCHANGED <<tables, deletions, req, usedKeys, home, dangling>>
      /\ \/ blobs' = blobs \ {k} /\ leaked' = leaked
         \/ blobs' = blobs /\ leaked' = leaked \cup {k}
  BY DEF CleanUp, CleanUpFails, histories
<1>2. TypeOK'
  BY <1>1 DEF Inv, TypeOK, tables
<1>3. /\ \A j : Shown(j)' <=> Shown(j)
      /\ TablesOK' /\ HomesAreUsed' /\ ArtworkStaysWithItsSong'
  BY <1>1, SameTables
<1>4. home[k] # NoRow /\ artists[home[k][1]] = NoRow
  BY <1>1 DEF Inv, CleanupSparesTheLiving
<1>5. ~Shown(k)
  BY <1>4, ShownHasHome DEF Shown, Inv, TablesOK
<1>6. ASSUME NEW q \in Requests PROVE MovesOn(req[q])
  <2>1. \A j \in FreshKeys(req[q]) : j \in blobs /\ home[j] = NoRow
    BY DEF Inv, JobsOK, JobOK
  <2>2. QED
    BY <1>1, <1>3, <1>4, <2>1 DEF MovesOn, tables, Inv, TypeOK
<1>7. JobsOK' /\ FreshKeysAreOnesOwn'
  BY <1>1, <1>6, AllRequestsStay
<1>8. CleanupSparesTheLiving'
  BY <1>1 DEF Inv, CleanupSparesTheLiving, tables
<1>9. ShownArtworkExists'
  BY <1>1, <1>3, <1>5 DEF Inv, ShownArtworkExists
<1>10. NoFileForgotten'
  <2>1. \A j \in blobs' : \/ Shown(j)'
                          \/ j \in cleanup' \cup leaked'
                          \/ \E q \in Requests : j \in Held(req'[q])
    BY <1>1, <1>3 DEF Inv, NoFileForgotten
  <2>2. QED
    BY <1>2, <2>1 DEF NoFileForgotten, Held, Fresh, TypeOK
<1>11. QED
  BY <1>2, <1>3, <1>7, <1>8, <1>9, <1>10 DEF Inv

-----------------------------------------------------------------------------
(* Rows. *)

\* A key that has been in a row returns to no row but by a stale or an unseen
\* write.
RowsKeep(k) ==
    /\ home'[k] = home[k]
    /\ dangling \subseteq dangling'
    /\ \A a \in ArtistIDs, s \in SongSlugs :
          songs'[a][s] = k => songs[a][s] = k \/ k \in dangling'

LEMMA InsertKeepsRows ==
    ASSUME Inv, NEW k \in Keys, home[k] # NoRow, NEW r \in Requests,
           req[r].pc = "inserting", InsertRow(req[r]), dangling \subseteq dangling'
    PROVE  RowsKeep(k)
<1>1. /\ req[r].artist \in ArtistIDs
      /\ JobOK(req[r])
      /\ FreshKeys(req[r]) = {req[r].new} \ {NoArt}
      /\ \E s \in SongSlugs : WriteRow(req[r].artist, s, req[r].new)
  BY InsertedRow
<1>2. req[r].new # k
  BY <1>1 DEF JobOK
<1>3. QED
  BY <1>1, <1>2 DEF RowsKeep, WriteRow, Inv, TypeOK

LEMMA UpdateKeepsRows ==
    ASSUME Inv, NEW k \in Keys, home[k] # NoRow, NEW r \in Requests,
           req[r].pc = "updating", SongExists(req[r].artist, req[r].song),
           WriteRow(req[r].artist, req[r].song, req[r].new),
           dangling \cup WrittenBack(req[r]) \subseteq dangling'
    PROVE  RowsKeep(k)
<1> DEFINE job == req[r]
<1>1. /\ job.artist \in ArtistIDs /\ job.song \in SongSlugs
      /\ job.kind \in {"update", "replace", "remove"}
      /\ job.kind = "update" => job.new = job.old
      /\ job.kind = "remove" => job.new = NoArt
      /\ FreshKeys(job) = {Fresh(job)} \ {NoArt}
      /\ \A j \in FreshKeys(job) : home[j] = NoRow
  BY UpdatedRow
<1>2. job.new = k =>
         songs[job.artist][job.song] = k \/ k \in dangling'
  BY <1>1 DEF Fresh, WrittenBack
<1>3. home'[k] = home[k]
  BY DEF WriteRow
<1>4. \A a \in ArtistIDs, s \in SongSlugs :
         \/ songs'[a][s] = songs[a][s]
         \/ a = job.artist /\ s = job.song /\ songs'[a][s] = job.new
  BY <1>1 DEF WriteRow, Inv, TypeOK
<1>5. QED
  BY <1>2, <1>3, <1>4 DEF RowsKeep

LEMMA StepsKeepRows ==
    ASSUME Inv, Next, NEW k \in Keys, home[k] # NoRow
    PROVE  RowsKeep(k)
<1>1. ASSUME NEW r \in Requests, RequestStep(r) PROVE RowsKeep(k)
  <2>1. CASE InsertSong(r) \/ InsertUnseen(r)
    <3>1. /\ req[r].pc = "inserting" /\ InsertRow(req[r])
          /\ dangling \subseteq dangling'
      BY <2>1 DEF InsertSong, InsertUnseen
    <3>2. QED
      BY <3>1, InsertKeepsRows
  <2>2. CASE UpdateSong(r) \/ UpdateUnseen(r)
    <3>1. /\ req[r].pc = "updating" /\ SongExists(req[r].artist, req[r].song)
          /\ WriteRow(req[r].artist, req[r].song, req[r].new)
          /\ dangling \cup WrittenBack(req[r]) \subseteq dangling'
      BY <2>2 DEF UpdateSong, UpdateUnseen, UpdateRow
    <3>2. QED
      BY <3>1, UpdateKeepsRows
  <2>3. CASE DeleteSong(r) \/ DeleteUnseen(r)
    <3>1. req[r].pc = "deleting" /\ SongExists(req[r].artist, req[r].song)
      BY <2>3 DEF DeleteSong, DeleteUnseen
    <3>2. req[r].artist \in ArtistIDs /\ req[r].song \in SongSlugs
      BY <3>1, DeletedRow
    <3>3. /\ songs' = [songs EXCEPT ![req[r].artist][req[r].song] = NoRow]
          /\ home' = home /\ dangling' = dangling
      BY <2>3 DEF DeleteSong, DeleteUnseen
    <3>4. QED
      BY <3>2, <3>3 DEF RowsKeep, Inv, TypeOK
  <2>4. CASE UNCHANGED <<songs, home, dangling>>
    BY <2>4 DEF RowsKeep
  <2>5. QED
    BY <1>1, <2>1, <2>2, <2>3, <2>4
       DEF RequestStep, HandlerStep, Fault, StartCreate, StartEdit, ReadSong,
           UploadArtwork, TryInsert, SlugTaken, WriteRefused, RemoveArtwork, WriteFails,
           RequestDies, UploadUnseen, tables, histories
<1>2. ASSUME PlatformStep PROVE RowsKeep(k)
  <2>1. ASSUME NEW d \in Deleters, DeleteRows(d) PROVE RowsKeep(k)
    <3>1. deletions[d] \in DeletionState /\ deletions[d].at = "rows"
      BY <2>1 DEF DeleteRows, Inv, TypeOK
    <3>2. PICK a \in ArtistIDs : a = deletions[d].artist
      BY <3>1 DEF DeletionState, NoDeletion
    <3>3. /\ songs' = [songs EXCEPT ![a] = [s \in SongSlugs |-> NoRow]]
          /\ UNCHANGED <<home, dangling>>
      BY <2>1, <3>2 DEF DeleteRows
    <3>4. k # NoRow
      OBVIOUS
    <3>5. QED
      BY <3>3, <3>4 DEF RowsKeep, Inv, TypeOK
  <2>2. CASE UNCHANGED <<songs, home, dangling>>
    BY <2>2 DEF RowsKeep
  <2>3. QED
    BY <1>2, <2>1, <2>2
       DEF PlatformStep, CreateArtist, AppointAdmin, DismissAdmins, CleanUp,
           CleanUpFails, DeletionStep, BeginDeletion, DeleteArtist,
           DeleteArtistUnseen, DeletionFails, tables, histories
<1>3. QED
  BY <1>1, <1>2 DEF Next

-----------------------------------------------------------------------------
(* What open deletions hold. *)

\* A deletion's keys stay those of its artist: a key keeps its song for ever.
LEMMA DeletionsStay ==
    ASSUME Inv, DeletionsOK, UNCHANGED deletions,
           \A k \in Keys : home[k] # NoRow => home'[k] = home[k]
    PROVE  DeletionsOK'
<1> SUFFICES ASSUME NEW d \in Deleters, deletions[d] # NoDeletion
             PROVE  /\ deletions[d].paths = deletions[d].seen
                    /\ \A k \in deletions[d].paths :
                          home'[k] # NoRow /\ home'[k][1] = deletions[d].artist
  BY DEF DeletionsOK, DeletionOK
<1>1. DeletionOK(deletions[d])
  BY DEF DeletionsOK
<1>2. deletions[d].paths \subseteq Keys
  BY DEF Inv, TypeOK, DeletionState
<1>3. QED
  BY <1>1, <1>2 DEF DeletionOK

LEMMA DeletionStepKeepsDeletions ==
    ASSUME Inv, DeletionsOK, NEW d \in Deleters, DeletionStep(d)
    PROVE  DeletionsOK'
<1>1. home' = home
  BY DEF DeletionStep, BeginDeletion, DeleteArtist, DeleteArtistUnseen, DeleteRows,
         DeletionFails, histories
<1>2. deletions \in [Deleters -> DeletionState]
  BY DEF Inv, TypeOK
<1>3. CASE deletions' = [deletions EXCEPT ![d] = NoDeletion]
  BY <1>1, <1>2, <1>3 DEF DeletionsOK, DeletionOK
<1>4. ASSUME NEW a \in ArtistIDs, BeginDeletion(d, a) PROVE DeletionsOK'
  <2>1. /\ ArtworkOf(a) = KeysOf(a)
        /\ \A k \in ArtworkOf(a) : home[k] # NoRow /\ home[k][1] = a
    BY ArtworkOfIsKeysOf DEF Inv
  <2>2. /\ deletions'[d].artist = a
        /\ deletions'[d].paths = ArtworkOf(a) /\ deletions'[d].seen = KeysOf(a)
        /\ \A other \in Deleters \ {d} : deletions'[other] = deletions[other]
    BY <1>2, <1>4 DEF BeginDeletion
  <2>3. QED
    BY <1>1, <2>1, <2>2 DEF DeletionsOK, DeletionOK
<1>5. QED
  BY <1>3, <1>4 DEF DeletionStep, DeleteArtist, DeleteArtistUnseen, DeleteRows,
                    DeletionFails

LEMMA NextKeepsDeletions ==
    ASSUME Inv, DeletionsOK, [Next]_vars
    PROVE  DeletionsOK'
<1>1. CASE UNCHANGED deletions
  <2>1. \A k \in Keys : home[k] # NoRow => home'[k] = home[k]
    BY StepsKeepRows DEF RowsKeep, vars, histories
  <2>2. QED
    BY <1>1, <2>1, DeletionsStay
<1>2. CASE \E d \in Deleters : DeletionStep(d)
  BY <1>2, DeletionStepKeepsDeletions
<1>3. UNCHANGED deletions \/ \E d \in Deleters : DeletionStep(d)
  BY DEF Next, RequestStep, HandlerStep, Fault, StartCreate, StartEdit, ReadSong,
         UploadArtwork, InsertSong, TryInsert, SlugTaken, UpdateSong, DeleteSong,
         WriteRefused, RemoveArtwork, WriteFails, RequestDies, UploadUnseen, InsertUnseen,
         UpdateUnseen, DeleteUnseen, PlatformStep, CreateArtist, AppointAdmin,
         DismissAdmins, CleanUp, CleanUpFails, vars
<1>4. QED
  BY <1>1, <1>2, <1>3

-----------------------------------------------------------------------------
(* The theorems. *)

LEMMA InitInv ==
    ASSUME Init
    PROVE  Inv
<1> USE DEF Init
<1>1. TypeOK
  <2>1. deletions \in [Deleters -> DeletionState]
    BY DEF DeletionState
  <2>2. QED
    BY <2>1, IdleIsOK DEF TypeOK
<1>2. \A k \in Keys : ~Shown(k)
  BY DEF Shown
<1>3. TablesOK /\ HomesAreUsed /\ ArtworkStaysWithItsSong
  BY DEF TablesOK, HomesAreUsed, ArtworkStaysWithItsSong
<1>4. JobsOK /\ FreshKeysAreOnesOwn
  BY IdleIsOK DEF JobsOK, FreshKeysAreOnesOwn
<1>5. CleanupSparesTheLiving /\ ShownArtworkExists /\ NoFileForgotten
  BY <1>2 DEF CleanupSparesTheLiving, ShownArtworkExists, NoFileForgotten
<1>6. QED
  BY <1>1, <1>3, <1>4, <1>5 DEF Inv

LEMMA NextKeepsInv ==
    ASSUME Inv, DeletionsOK, [Next]_vars
    PROVE  Inv'
<1>1. ASSUME NEW r \in Requests, RequestStep(r) PROVE Inv'
  <2>1. CASE \E a \in ArtistIDs, t \in Titles, pc \in {"uploading", "inserting"} :
                 StartCreate(r, a, t, pc)
    BY <2>1, StartCreateKeepsInv
  <2>2. CASE \E kind \in EditKinds, a \in ArtistIDs, s \in SongSlugs :
                 StartEdit(r, kind, a, s)
    BY <2>2, StartEditKeepsInv
  <2>3. CASE HandlerStep(r)
    <3>1. CASE ReadSong(r)
      BY <3>1, ReadSongKeepsInv
    <3>2. CASE \E k \in Keys : UploadArtwork(r, k)
      BY <3>2, UploadArtworkKeepsInv
    <3>3. CASE InsertSong(r)
      BY <3>3, InsertSongKeepsInv
    <3>4. CASE SlugTaken(r)
      BY <3>4, SlugTakenKeepsInv
    <3>5. CASE UpdateSong(r)
      BY <3>5, UpdateSongKeepsInv
    <3>6. CASE DeleteSong(r)
      BY <3>6, DeleteSongKeepsInv
    <3>7. CASE WriteRefused(r)
      BY <3>7, RefusalKeepsInv DEF WriteRefused
    <3>8. CASE RemoveArtwork(r)
      BY <3>8, RemoveArtworkKeepsInv
    <3>9. QED
      BY <2>3, <3>1, <3>2, <3>3, <3>4, <3>5, <3>6, <3>7, <3>8 DEF HandlerStep, TryInsert
  <2>4. CASE Fault(r)
    <3>1. CASE WriteFails(r)
      BY <3>1, RefusalKeepsInv DEF WriteFails
    <3>2. CASE RequestDies(r)
      BY <3>2, RequestDiesKeepsInv
    <3>3. CASE \E k \in Keys : UploadUnseen(r, k)
      BY <3>3, UploadUnseenKeepsInv
    <3>4. CASE InsertUnseen(r)
      BY <3>4, InsertUnseenKeepsInv
    <3>5. CASE UpdateUnseen(r)
      BY <3>5, UpdateUnseenKeepsInv
    <3>6. CASE DeleteUnseen(r)
      BY <3>6, DeleteUnseenKeepsInv
    <3>7. QED
      BY <2>4, <3>1, <3>2, <3>3, <3>4, <3>5, <3>6 DEF Fault
  <2>5. QED
    BY <1>1, <2>1, <2>2, <2>3, <2>4 DEF RequestStep
<1>2. ASSUME PlatformStep PROVE Inv'
  <2>1. CASE \E a \in ArtistIDs, slug \in Slugs : CreateArtist(a, slug)
    BY <2>1, CreateArtistKeepsInv
  <2>2. CASE \E a \in ArtistIDs : AppointAdmin(a) \/ DismissAdmins(a)
    BY <2>2, AdminsKeepInv
  <2>3. CASE \E d \in Deleters : DeletionStep(d)
    BY <2>3, BeginDeletionKeepsInv, DeleteArtistKeepsInv,
       DeleteArtistUnseenKeepsInv, DeletionFailsKeepsInv DEF DeletionStep
  <2>4. CASE \E k \in Keys : CleanUp(k) \/ CleanUpFails(k)
    BY <2>4, CleanUpsKeepInv
  <2>5. QED
    BY <1>2, <2>1, <2>2, <2>3, <2>4 DEF PlatformStep
<1>3. CASE UNCHANGED vars
  BY <1>3 DEF Inv, vars, tables, histories, TypeOK, TablesOK, HomesAreUsed,
              ArtworkStaysWithItsSong, JobsOK, JobOK, KindFits, JobKeys, Edits,
              ReadsFit, FreshKeys, Fresh, FreshKeysAreOnesOwn, Held, Shown,
              CleanupSparesTheLiving, ShownArtworkExists, NoFileForgotten
<1>4. QED
  BY <1>1, <1>2, <1>3 DEF Next

\* Everything below in one inductive invariant.
THEOREM ArtworkInvariant == Spec => []ArtworkInv
<1>1. Init => ArtworkInv
  BY InitInv DEF ArtworkInv, DeletionsOK, Init
<1>2. ArtworkInv /\ [Next]_vars => ArtworkInv'
  BY NextKeepsInv, NextKeepsDeletions DEF ArtworkInv
<1>3. QED
  BY <1>1, <1>2, PTL DEF Spec

\* A handler is always at one of its steps with that step's local variables,
\* and the tables hold rows of their schema (song handlers of admin/server.go).
THEOREM ArtworkTypeCorrect == Spec => []TypeOK
<1>1. ArtworkInv => TypeOK
  BY DEF ArtworkInv, Inv
<1>2. QED
  BY <1>1, ArtworkInvariant, PTL

\* A file's key never turns up in the row of another song, whatever stale
\* updates write back and however artists and slugs come and go
\* (HandleUpdateSongSubmit writes the whole row from what it read).
THEOREM ArtworkAlwaysStaysWithItsSong == Spec => []ArtworkStaysWithItsSong
<1>1. ArtworkInv => ArtworkStaysWithItsSong
  BY DEF ArtworkInv, Inv
<1>2. QED
  BY <1>1, ArtworkInvariant, PTL

\* A handler's removeArtwork only ever takes a file of its own artist or one
\* that no row has named, though it read the row by the artist's slug.
THEOREM RequestsAlwaysRemoveOwnArtwork == Spec => []RequestsRemoveOwnArtwork
<1>1. ArtworkInv => RequestsRemoveOwnArtwork
  BY DEF ArtworkInv, Inv, JobsOK, JobOK, RequestsRemoveOwnArtwork
<1>2. QED
  BY <1>1, ArtworkInvariant, PTL

\* HandleDeleteArtistSubmit removes files of songs that are gone and of no
\* others, whatever else runs between its transaction and the removals.
THEOREM CleanupAlwaysSparesTheLiving == Spec => []CleanupSparesTheLiving
<1>1. ArtworkInv => CleanupSparesTheLiving
  BY DEF ArtworkInv, Inv
<1>2. QED
  BY <1>1, ArtworkInvariant, PTL

\* A row names a file that is in storage, but for the two ways out in dangling:
\* a stale update without a file and a commit whose answer is lost.
THEOREM ShownArtworkAlwaysExists == Spec => []ShownArtworkExists
<1>1. ArtworkInv => ShownArtworkExists
  BY DEF ArtworkInv, Inv
<1>2. QED
  BY <1>1, ArtworkInvariant, PTL

\* No path through the handlers, error paths included, forgets a stored file
\* that no failure, no write over a changed row and no write under an open
\* deletion of its artist has left behind.
THEOREM NoFileIsEverForgotten == Spec => []NoFileForgotten
<1>1. ArtworkInv => NoFileForgotten
  BY DEF ArtworkInv, Inv
<1>2. QED
  BY <1>1, ArtworkInvariant, PTL

-----------------------------------------------------------------------------
(* Second part: the files.  The invariant. *)

\* The page shows a file of the song it is about.
PageOK(page) ==
    page.at # "away" =>
        /\ home[page.key] = page.song
        /\ page.at # "cut"
        /\ page.at = "missing" =>
              \/ songs[page.song[1]][page.song[2]] # page.key
              \/ page.key \in dangling

FilesInv ==
    /\ ArtworkInv
    /\ FilesTypeOK
    /\ whole = blobs
    /\ \A v \in Visitors : PageOK(visitor[v])

-----------------------------------------------------------------------------
(* The invariant of the rows and keys. *)

\* A crash ends all requests and the removals of the platform administrator.
LEMMA CrashKeepsInv ==
    ASSUME Inv, Crash
    PROVE  Inv'
<1>1. /\ req' = [r \in Requests |-> Idle] /\ cleanup' = {}
      /\ leaked' = leaked \cup cleanup \cup UNION {Held(req[r]) : r \in Requests}
      /\ UNCHANGED <<tables, blobs, usedKeys, home, dangling>>
  BY DEF Crash
<1>2. /\ \A j : Shown(j)' <=> Shown(j)
      /\ TablesOK' /\ HomesAreUsed' /\ ArtworkStaysWithItsSong'
  BY <1>1, SameTables
<1>3. \A r \in Requests : Held(req[r]) \subseteq Keys
  BY HeldByCounter DEF Inv, TypeOK
<1>4. TypeOK'
  <2>1. deletions' \in [Deleters -> DeletionState]
    BY DEF Crash, DeletionState
  <2>2. QED
    BY <1>1, <1>3, <2>1, IdleIsOK DEF Inv, TypeOK, tables
<1>5. JobsOK' /\ FreshKeysAreOnesOwn'
  BY <1>1, IdleIsOK
     DEF JobsOK, FreshKeysAreOnesOwn, JobOK, KindFits, JobKeys, Edits, FreshKeys,
         Held, Idle
<1>6. CleanupSparesTheLiving' /\ ShownArtworkExists'
  BY <1>1, <1>2 DEF Inv, CleanupSparesTheLiving, ShownArtworkExists
<1>7. NoFileForgotten'
  <2>1. \A j \in blobs : Shown(j)' \/ j \in leaked'
    BY <1>1, <1>2 DEF Inv, NoFileForgotten
  <2>2. QED
    BY <1>1, <1>4, <2>1 DEF NoFileForgotten, Held, Fresh, TypeOK
<1>8. QED
  BY <1>2, <1>4, <1>5, <1>6, <1>7 DEF Inv

\* Every step is one of the rows and keys, or moves none of them.
LEMMA FilesStepIsStep ==
    ASSUME FilesNext, ~Crash
    PROVE  Next \/ UNCHANGED vars
<1>1. ASSUME NEW r \in Requests,
             StartRequest(r) \/ FilesHandlerStep(r) \/ RowFault(r) \/ PutFails(r)
      PROVE  RequestStep(r) \/ UNCHANGED vars
  <2>1. CASE StartRequest(r)
    BY <2>1 DEF StartRequest, RequestStep
  <2>2. CASE FilesHandlerStep(r)
    BY <2>2 DEF FilesHandlerStep, RowStep, CreateTemp, WriteTemp, RenameTemp,
                RemoveFile, RequestStep, HandlerStep
  <2>3. CASE RowFault(r) \/ PutFails(r)
    BY <2>3 DEF RowFault, PutFails, RequestStep, Fault
  <2>4. QED
    BY <1>1, <2>1, <2>2, <2>3
<1>2. ASSUME PlatformRowStep \/ \E k \in Keys : CleanUpFile(k)
      PROVE  PlatformStep
  BY <1>2 DEF PlatformRowStep, CleanUpFile, PlatformStep
<1>3. ASSUME NEW v \in Visitors,
             Serve(v) \/ \E slug \in Slugs, s \in SongSlugs : VisitPage(v, slug, s)
      PROVE  UNCHANGED vars
  BY <1>3 DEF Serve, VisitPage
<1>4. QED
  BY <1>1, <1>2, <1>3 DEF FilesNext, Next

LEMMA FilesKeepInv ==
    ASSUME ArtworkInv, FilesNext
    PROVE  ArtworkInv'
<1>1. CASE Crash
  <2>1. DeletionsOK'
    BY <1>1 DEF Crash, DeletionsOK
  <2>2. QED
    BY <1>1, <2>1, CrashKeepsInv DEF ArtworkInv
<1>2. CASE ~Crash
  BY <1>2, FilesStepIsStep, NextKeepsInv, NextKeepsDeletions DEF ArtworkInv
<1>3. QED
  BY <1>1, <1>2

-----------------------------------------------------------------------------
(* Temporary files. *)

\* Another request, or one without a temporary file, has moved on.
LEMMA TempsStay ==
    ASSUME Inv, FilesTypeOK, NEW r \in Requests, NEW job,
           req' = [req EXCEPT ![r] = job], temp' = temp, temp[r] = "none"
    PROVE  \A q \in Requests : temp'[q] # "none" => req'[q].pc = "uploading"
  BY DEF Inv, TypeOK, FilesTypeOK

LEMMA OthersTempsStay ==
    ASSUME Inv, FilesTypeOK, NEW r \in Requests, NEW job,
           req' = [req EXCEPT ![r] = job], temp' = [temp EXCEPT ![r] = "none"]
    PROVE  /\ temp' \in [Requests -> TempState]
           /\ \A q \in Requests : temp'[q] # "none" => req'[q].pc = "uploading"
  BY DEF Inv, TypeOK, FilesTypeOK, TempState

\* A step of the rows and keys that is none of a file's.
LEMMA RowStepsKeepTemps ==
    ASSUME Inv, FilesTypeOK, NEW r \in Requests, temp' = temp,
           \/ StartRequest(r) \/ RowStep(r) \/ RowFault(r) \/ RemoveFile(r)
    PROVE  \A q \in Requests : temp'[q] # "none" => req'[q].pc = "uploading"
<1>1. temp[r] = "none"
  <2>1. req[r].pc = "uploading" => req[r] # Idle
    BY DEF Idle
  <2>2. temp[r] # "none" => req[r].pc = "uploading"
    BY DEF FilesTypeOK
  <2>3. QED
    BY <2>1, <2>2
       DEF StartRequest, StartCreate, StartEdit, RowStep, ReadSong, InsertSong,
           TryInsert, SlugTaken, UpdateSong, DeleteSong, WriteRefused, RowFault,
           WriteFails, InsertUnseen, UpdateUnseen, DeleteUnseen, RemoveFile, RemoveArtwork
<1>2. \E job : req' = [req EXCEPT ![r] = job]
  <2>1. CASE StartRequest(r)
    BY <2>1 DEF StartRequest, StartCreate, StartEdit, Goto
  <2>2. CASE RowStep(r)
    BY <2>2 DEF RowStep, ReadSong, InsertSong, TryInsert, SlugTaken, UpdateSong,
                DeleteSong, WriteRefused, RemoveThenFinish, Goto
  <2>3. CASE RowFault(r)
    BY <2>3 DEF RowFault, WriteFails, RequestDies, InsertUnseen, UpdateUnseen,
                DeleteUnseen, RemoveThenFinish, Goto
  <2>4. CASE RemoveFile(r)
    BY <2>4 DEF RemoveFile, RemoveArtwork, Goto
  <2>5. QED
    BY <2>1, <2>2, <2>3, <2>4
<1>3. QED
  BY <1>1, <1>2, TempsStay

\* The temporary files, and those put in place.
FilesOK ==
    /\ temp \in [Requests -> TempState]
    /\ \A r \in Requests : temp[r] # "none" => req[r].pc = "uploading"
    /\ whole = blobs

LEMMA RequestsKeepFiles ==
    ASSUME Inv, FilesTypeOK, FilesOK, NEW r \in Requests,
           StartRequest(r) \/ FilesHandlerStep(r) \/ RowFault(r) \/ PutFails(r)
    PROVE  FilesOK'
<1>1. CASE StartRequest(r) \/ RowStep(r) \/ RowFault(r)
  <2>1. temp' = temp /\ whole' = whole
    BY <1>1 DEF StartRequest, RowStep, RowFault, fileVars
  <2>2. blobs' = blobs
    BY <1>1 DEF StartRequest, StartCreate, StartEdit, RowStep, ReadSong, InsertSong,
                TryInsert, SlugTaken, UpdateSong, DeleteSong, WriteRefused, RowFault,
                WriteFails, RequestDies, InsertUnseen, UpdateUnseen, DeleteUnseen
  <2>3. QED
    BY <1>1, <2>1, <2>2, RowStepsKeepTemps DEF FilesOK
<1>2. CASE CreateTemp(r) \/ WriteTemp(r)
  <2>1. /\ req[r].pc = "uploading" /\ req' = req /\ blobs' = blobs /\ whole' = whole
        /\ \E t \in TempState : temp' = [temp EXCEPT ![r] = t]
    BY <1>2 DEF CreateTemp, WriteTemp, SetTemp, TempState, vars, FilesTypeOK
  <2>2. QED
    BY <2>1 DEF FilesOK
<1>3. CASE \E k \in Keys : RenameTemp(r, k)
  <2>1. PICK k \in Keys : RenameTemp(r, k)
    BY <1>3
  <2>2. /\ temp' = [temp EXCEPT ![r] = "none"]
        /\ \E job : req' = [req EXCEPT ![r] = job]
        /\ whole' = whole \cup {k} /\ blobs' = blobs \cup {k}
    BY <2>1 DEF RenameTemp, UploadArtwork, SetTemp, Goto
  <2>3. QED
    BY <2>2, OthersTempsStay DEF FilesOK
<1>4. CASE RemoveFile(r)
  <2>1. temp' = temp /\ whole' = whole \ {req[r].key} /\ blobs' = blobs \ {req[r].key}
    BY <1>4 DEF RemoveFile, RemoveArtwork
  <2>2. QED
    BY <1>4, <2>1, RowStepsKeepTemps DEF FilesOK
<1>5. CASE PutFails(r)
  <2>1. /\ temp' = [temp EXCEPT ![r] = "none"]
        /\ req' = [req EXCEPT ![r] = Idle]
        /\ whole' = whole /\ blobs' = blobs
    BY <1>5 DEF PutFails, RequestDies, SetTemp, Goto
  <2>2. QED
    BY <2>1, OthersTempsStay DEF FilesOK
<1>6. QED
  BY <1>1, <1>2, <1>3, <1>4, <1>5 DEF FilesHandlerStep

LEMMA CrashKeepsFiles ==
    ASSUME FilesOK, Crash
    PROVE  FilesOK'
  BY DEF Crash, FilesOK, TempState

LEMMA StepsKeepFiles ==
    ASSUME Inv, FilesTypeOK, FilesOK, FilesNext
    PROVE  FilesOK'
<1>1. CASE \E r \in Requests :
          StartRequest(r) \/ FilesHandlerStep(r) \/ RowFault(r) \/ PutFails(r)
  BY <1>1, RequestsKeepFiles
<1>2. CASE PlatformRowStep
  <2>1. UNCHANGED <<temp, whole, blobs, req>>
    BY <1>2 DEF PlatformRowStep, fileVars, CreateArtist, AppointAdmin, DismissAdmins,
                DeletionStep, BeginDeletion, DeleteArtist, DeleteArtistUnseen,
                DeleteRows, DeletionFails, CleanUpFails
  <2>2. QED
    BY <2>1 DEF FilesOK
<1>3. CASE \E k \in Keys : CleanUpFile(k)
  <2>1. PICK k \in Keys : CleanUpFile(k)
    BY <1>3
  <2>2. /\ whole' = whole \ {k} /\ blobs' = blobs \ {k}
        /\ UNCHANGED <<temp, req>>
    BY <2>1 DEF CleanUpFile, CleanUp
  <2>3. QED
    BY <2>2 DEF FilesOK
<1>4. CASE \E v \in Visitors :
          Serve(v) \/ \E slug \in Slugs, s \in SongSlugs : VisitPage(v, slug, s)
  <2>1. UNCHANGED <<temp, whole, blobs, req>>
    BY <1>4 DEF Serve, VisitPage, vars, fileVars
  <2>2. QED
    BY <2>1 DEF FilesOK
<1>5. CASE Crash
  BY <1>5, CrashKeepsFiles
<1>6. QED
  BY <1>1, <1>2, <1>3, <1>4, <1>5 DEF FilesNext

-----------------------------------------------------------------------------
(* Visitors. *)

LEMMA PageStays ==
    ASSUME NEW page \in VisitorState, PageOK(page),
           \A k \in Keys : home[k] # NoRow => RowsKeep(k)
    PROVE  PageOK(page)'
<1> SUFFICES ASSUME page.at # "away" PROVE PageOK(page)'
  BY DEF PageOK
<1>1. /\ page.key \in Keys /\ page.song \in ArtistIDs \X SongSlugs
  BY DEF VisitorState, Away
<1>2. /\ home[page.key] = page.song /\ page.at # "cut"
      /\ page.at = "missing" =>
            \/ songs[page.song[1]][page.song[2]] # page.key
            \/ page.key \in dangling
  BY DEF PageOK
<1>3. RowsKeep(page.key)
  BY <1>1, <1>2
<1>4. page.song[1] \in ArtistIDs /\ page.song[2] \in SongSlugs
  BY <1>1
<1>5. QED
  BY <1>2, <1>3, <1>4 DEF PageOK, RowsKeep

LEMMA StepsKeepVisitors ==
    ASSUME FilesInv, FilesNext
    PROVE  /\ visitor' \in [Visitors -> VisitorState]
           /\ \A v \in Visitors : PageOK(visitor[v])'
<1>1. /\ Inv /\ visitor \in [Visitors -> VisitorState] /\ whole = blobs
      /\ \A v \in Visitors : PageOK(visitor[v])
  BY DEF FilesInv, ArtworkInv, FilesTypeOK
<1>2. \A k \in Keys : home[k] # NoRow => RowsKeep(k)
  <2>1. CASE Crash \/ UNCHANGED vars
    BY <2>1 DEF Crash, RowsKeep, vars, tables, histories
  <2>2. QED
    BY <1>1, <2>1, FilesStepIsStep, StepsKeepRows
<1>3. ASSUME NEW v \in Visitors, visitor'[v] = visitor[v]
      PROVE  PageOK(visitor[v])'
  <2>1. PICK page \in VisitorState : page = visitor[v] /\ page = visitor'[v]
    BY <1>1, <1>3
  <2>2. PageOK(page)'
    BY <1>1, <1>2, <2>1, PageStays
  <2>3. QED
    BY <2>1, <2>2 DEF PageOK
<1>4. ASSUME NEW v \in Visitors, NEW slug \in Slugs, NEW s \in SongSlugs,
             VisitPage(v, slug, s)
      PROVE  /\ visitor' \in [Visitors -> VisitorState]
             /\ \A w \in Visitors : PageOK(visitor[w])'
  <2>1. PICK a \in ArtistIDs :
           /\ songs[a][s] \in Keys
           /\ visitor' = [visitor EXCEPT ![v] =
                  [at |-> "page", key |-> songs[a][s], song |-> <<a, s>>]]
           /\ home' = home
    BY <1>4 DEF VisitPage, FindBySlug, vars, histories
  <2>2. home[songs[a][s]] = <<a, s>>
    BY <1>1, <2>1, ShownHasHome DEF Inv
  <2>3. PICK page \in VisitorState :
           page = [at |-> "page", key |-> songs[a][s], song |-> <<a, s>>]
    BY <2>1 DEF VisitorState
  <2>4. visitor' = [visitor EXCEPT ![v] = page]
    BY <2>1, <2>3
  <2>5. PageOK(visitor[v])'
    BY <1>1, <2>1, <2>2, <2>3, <2>4 DEF PageOK
  <2>6. QED
    BY <1>1, <1>3, <2>4, <2>5
<1>5. ASSUME NEW v \in Visitors, Serve(v)
      PROVE  /\ visitor' \in [Visitors -> VisitorState]
             /\ \A w \in Visitors : PageOK(visitor[w])'
  <2>1. PICK page \in VisitorState : page = visitor[v]
    BY <1>1
  <2>2. /\ page.at = "page" /\ PageOK(page)
        /\ page \in [at : {"page", "missing", "cut"}, key : Keys,
                     song : ArtistIDs \X SongSlugs]
    BY <1>1, <1>5, <2>1 DEF Serve, VisitorState, Away
  <2>3. CASE page.key \in blobs
    <3>1. visitor' = [visitor EXCEPT ![v] = Away]
      BY <1>1, <1>5, <2>1, <2>3 DEF Serve
    <3>2. PageOK(visitor[v])'
      BY <1>1, <3>1 DEF PageOK, Away
    <3>3. QED
      BY <1>1, <1>3, <3>1, <3>2 DEF VisitorState
  <2>4. CASE page.key \notin blobs
    <3>1. PICK next \in VisitorState : next = [page EXCEPT !.at = "missing"]
      BY <2>2 DEF VisitorState
    <3>2. /\ next.at = "missing" /\ next.key = page.key /\ next.song = page.song
          /\ next.key \in Keys
          /\ next.song[1] \in ArtistIDs /\ next.song[2] \in SongSlugs
      BY <2>2, <3>1
    <3>3. visitor' = [visitor EXCEPT ![v] = next]
      BY <1>1, <1>5, <2>1, <2>4, <3>1 DEF Serve
    <3>4. \/ songs[next.song[1]][next.song[2]] # next.key
          \/ next.key \in dangling
      BY <1>1, <2>4, <3>2 DEF Inv, ShownArtworkExists, Shown
    <3>5. PageOK(next)
      BY <2>2, <3>2, <3>4 DEF PageOK
    <3>6. UNCHANGED <<home, songs, dangling>>
      BY <1>5 DEF Serve, vars, tables, histories
    <3>7. PageOK(visitor[v])'
      BY <1>1, <3>3, <3>5, <3>6 DEF PageOK
    <3>8. QED
      BY <1>1, <1>3, <3>3, <3>7
  <2>5. QED
    BY <2>3, <2>4
<1>6. CASE visitor' = visitor
  BY <1>1, <1>3, <1>6
<1>7. QED
  BY <1>4, <1>5, <1>6
     DEF FilesNext, StartRequest, FilesHandlerStep, RowStep, CreateTemp, WriteTemp,
         RenameTemp, RemoveFile, RowFault, PutFails, PlatformRowStep, CleanUpFile,
         Crash

-----------------------------------------------------------------------------
(* The theorems. *)

LEMMA FilesInitInv ==
    ASSUME FilesInit
    PROVE  FilesInv
<1>1. ArtworkInv
  BY InitInv DEF FilesInit, Init, ArtworkInv, DeletionsOK
<1>2. /\ temp = [r \in Requests |-> "none"] /\ whole = {} /\ blobs = {}
      /\ visitor = [v \in Visitors |-> Away]
  BY DEF FilesInit, Init
<1>3. FilesTypeOK
  BY <1>2 DEF FilesTypeOK, TempState, VisitorState
<1>4. \A v \in Visitors : PageOK(visitor[v])
  BY <1>2 DEF PageOK, Away
<1>5. QED
  BY <1>1, <1>2, <1>3, <1>4 DEF FilesInv

LEMMA FilesNextKeepsInv ==
    ASSUME FilesInv, [FilesNext]_filesVars
    PROVE  FilesInv'
<1>1. CASE FilesNext
  <2>1. ArtworkInv' /\ Inv' /\ Inv /\ FilesTypeOK
    BY <1>1, FilesKeepInv DEF FilesInv, ArtworkInv
  <2>2. FilesOK'
    BY <1>1, <2>1, StepsKeepFiles DEF FilesInv, FilesOK, FilesTypeOK
  <2>3. FilesTypeOK'
    BY <1>1, <2>1, <2>2, StepsKeepVisitors DEF FilesTypeOK, FilesOK, Inv, TypeOK
  <2>4. QED
    BY <1>1, <2>1, <2>2, <2>3, StepsKeepVisitors DEF FilesInv, FilesOK
<1>2. CASE UNCHANGED filesVars
  <2>1. ArtworkInv'
    BY <1>2, NextKeepsInv, NextKeepsDeletions DEF FilesInv, ArtworkInv, filesVars
  <2>2. QED
    BY <1>2, <2>1 DEF FilesInv, filesVars, fileVars, vars, tables, histories,
                      FilesTypeOK, PageOK
<1>3. QED
  BY <1>1, <1>2

\* Everything below in one inductive invariant, in which that of the rows and
\* keys is contained.
THEOREM FilesInvariant == FilesSpec => []FilesInv
<1>1. FilesInit => FilesInv
  BY FilesInitInv
<1>2. FilesInv /\ [FilesNext]_filesVars => FilesInv'
  BY FilesNextKeepsInv
<1>3. QED
  BY <1>1, <1>2, PTL DEF FilesSpec

\* A request has a temporary file only while it uploads (storage/filesystem.go).
THEOREM FilesTypeCorrect == FilesSpec => []FilesTypeOK
<1>1. FilesInv => FilesTypeOK
  BY DEF FilesInv
<1>2. QED
  BY <1>1, FilesInvariant, PTL

\* ServeArtwork never sends half a file, although a Put may fail or die at any
\* of its steps.
THEOREM ServedFilesAreAlwaysWhole == FilesSpec => []ServedFilesAreWhole
<1>1. ASSUME FilesInv, NEW v \in Visitors PROVE visitor[v].at # "cut"
  <2>1. visitor[v] \in VisitorState /\ PageOK(visitor[v])
    BY <1>1 DEF FilesInv, FilesTypeOK
  <2>2. QED
    BY <2>1 DEF PageOK
<1>2. FilesInv => ServedFilesAreWhole
  BY <1>1 DEF ServedFilesAreWhole
<1>3. QED
  BY <1>2, FilesInvariant, PTL

\* Artwork is missing for a visitor only if the page is older than the song's
\* row, or if that row has lost its file to a stale or an unseen write.
THEOREM MissingOnlyEverOnOldPages == FilesSpec => []MissingOnlyOnOldPages
<1>1. ASSUME FilesInv, NEW v \in Visitors, visitor[v].at = "missing"
      PROVE  \/ songs[visitor[v].song[1]][visitor[v].song[2]] # visitor[v].key
             \/ visitor[v].key \in dangling
  BY <1>1 DEF FilesInv, PageOK
<1>2. FilesInv => MissingOnlyOnOldPages
  BY <1>1 DEF MissingOnlyOnOldPages
<1>3. QED
  BY <1>2, FilesInvariant, PTL

\* Nor do the filesystem driver and crashes of the process lose track of a
\* file: what a crash leaves behind is what handlers held at that moment.
THEOREM NoFileIsEverForgottenByCrashes == FilesSpec => []NoFileForgotten
<1>1. FilesInv => NoFileForgotten
  BY DEF FilesInv, ArtworkInv, Inv
<1>2. QED
  BY <1>1, FilesInvariant, PTL

-----------------------------------------------------------------------------
(* SongFiles is SongArtwork, but for the crash of the whole process. *)

\* The filesystem driver adds no behaviour to the rows and keys: its steps are
\* those of SongArtwork or none, so whatever every step of SongArtwork keeps
\* holds of the driver too, up to the crashes.
THEOREM FilesImplementArtwork == FilesSpec => Init /\ [][Next \/ Crash]_vars
<1>1. FilesInit => Init
  BY DEF FilesInit
<1>2. [FilesNext]_filesVars => [Next \/ Crash]_vars
  BY FilesStepIsStep DEF filesVars
<1>3. QED
  BY <1>1, <1>2, PTL DEF FilesSpec

-----------------------------------------------------------------------------
(* The work that is left of a request. *)

PutLeft(state) == IF state = "none" THEN 3 ELSE IF state = "partial" THEN 2 ELSE 1

SlugsLeft(job) == IF job.kind = "create" THEN Len(job.title) - job.attempt ELSE 0

\* The most steps that a handler has still to take.
StepsLeft(job, state) ==
    IF job.pc = "idle" THEN 0
    ELSE IF job.pc = "removing" THEN 1
    ELSE IF job.pc \in {"updating", "deleting"} THEN 2
    ELSE IF job.pc = "inserting" THEN 2 + SlugsLeft(job)
    ELSE IF job.pc = "uploading" THEN 2 + SlugsLeft(job) + PutLeft(state)
    ELSE 6

Left(r) == StepsLeft(req[r], temp[r])

Nearer(r) == Left(r)' < Left(r)

\* A running request is brought nearer to its end by every step of its own, and
\* no step of anybody else adds to what it has still to do: neither requests
\* that take the slugs it tries nor deletions, failures or crashes.
WorkOnlyShrinks ==
    [][\A r \in Requests : req[r] # Idle =>
          \/ Nearer(r)
          \/ ~FilesHandlerStep(r) /\ req'[r] = req[r] /\ temp'[r] = temp[r]]_filesVars

LEMMA SlugsAreLeft ==
    ASSUME NEW job \in RequestState, JobOK(job),
           job.pc \in {"uploading", "inserting"}
    PROVE  /\ SlugsLeft(job) \in Nat
           /\ job.kind = "create" => Len(job.title) \in Nat /\ job.attempt \in Nat
<1>1. CASE job.kind = "create"
  <2>1. job.title \in Seq(SongSlugs) /\ job.attempt \in 1..Len(job.title)
    BY <1>1, Fields DEF JobOK, KindFits, RequestState, Idle, EditKinds
  <2>2. QED
    BY <1>1, <2>1 DEF SlugsLeft
<1>2. CASE job.kind # "create"
  BY <1>2 DEF SlugsLeft
<1>3. QED
  BY <1>1, <1>2

LEMMA WorkIsNatural ==
    ASSUME NEW job \in RequestState, JobOK(job), NEW state
    PROVE  /\ StepsLeft(job, state) \in Nat
           /\ job # Idle => StepsLeft(job, state) > 0
           /\ job.pc \in {"updating", "deleting", "inserting"} =>
                 StepsLeft(job, state) > 1
           /\ job.pc = "reading" => StepsLeft(job, state) = 6
           /\ job.pc = "inserting" => StepsLeft(job, state) = 2 + SlugsLeft(job)
           /\ job.pc = "uploading" =>
                 StepsLeft(job, state) = 2 + SlugsLeft(job) + PutLeft(state)
<1>1. PutLeft(state) \in 1..3
  BY DEF PutLeft
<1>2. QED
  BY <1>1, Fields, SlugsAreLeft DEF StepsLeft

\* What ends a handler, or leaves it a removal.
LEMMA EndIsNearer ==
    ASSUME FilesInv, NEW r \in Requests, NEW k,
           req[r].pc \in {"updating", "deleting", "inserting"},
           RemoveThenFinish(r, k)
    PROVE  Nearer(r)
<1>1. req[r] \in RequestState /\ JobOK(req[r])
  BY DEF FilesInv, ArtworkInv, Inv, TypeOK, JobsOK
<1>2. req'[r].pc \in {"idle", "removing"}
  BY DEF RemoveThenFinish, Goto, Idle, FilesInv, ArtworkInv, Inv, TypeOK
<1>3. Left(r)' \in {0, 1}
  BY <1>2 DEF Left, StepsLeft
<1>4. QED
  BY <1>1, <1>3, WorkIsNatural DEF Nearer, Left

LEMMA IdleIsNearer ==
    ASSUME FilesInv, NEW r \in Requests, req[r] # Idle, req'[r] = Idle
    PROVE  Nearer(r)
<1>1. req[r] \in RequestState /\ JobOK(req[r])
  BY DEF FilesInv, ArtworkInv, Inv, TypeOK, JobsOK
<1>2. Left(r)' = 0
  BY DEF Left, StepsLeft, Idle
<1>3. QED
  BY <1>1, <1>2, WorkIsNatural DEF Nearer, Left

LEMMA ReadIsNearer ==
    ASSUME FilesInv, NEW r \in Requests, ReadSong(r), temp' = temp
    PROVE  Nearer(r)
<1>1. /\ req[r] \in RequestState /\ JobOK(req[r]) /\ req[r].pc = "reading"
      /\ req[r] # Idle
  <2>1. req[r] \in RequestState /\ JobOK(req[r])
    BY DEF FilesInv, ArtworkInv, Inv, TypeOK, JobsOK
  <2>2. req[r].pc = "reading" /\ Idle.pc = "idle"
    BY DEF ReadSong, Idle
  <2>3. QED
    BY <2>1, <2>2
<1>2. CASE Goto(r, Idle)
  BY <1>1, <1>2, IdleIsNearer DEF Goto, FilesInv, ArtworkInv, Inv, TypeOK
<1>3. ASSUME NEW a \in ArtistIDs, NEW old, NEW new,
             AfterRead(req[r].kind, old) # "idle",
             Goto(r, [req[r] EXCEPT !.pc = AfterRead(req[r].kind, old),
                                    !.old = old, !.new = new])
      PROVE  Nearer(r)
  <2>1. Edits(req[r]) /\ req[r].kind # "create"
    BY <1>1, Fields
  <2>2. /\ req'[r].pc = AfterRead(req[r].kind, old)
        /\ req'[r].kind = req[r].kind
    BY <1>1, <1>3, <2>1
       DEF Goto, RequestState, Idle, Edits, FilesInv, ArtworkInv, Inv, TypeOK
  <2>3. req'[r].pc \in {"uploading", "deleting", "updating"}
    BY <1>3, <2>2 DEF AfterRead
  <2>4. temp'[r] = temp[r] /\ PutLeft(temp[r]) \in 1..3
    BY DEF PutLeft
  <2>5. SlugsLeft(req'[r]) = 0
    BY <2>1, <2>2 DEF SlugsLeft
  <2>6. Left(r)' \in 2..5
    BY <2>3, <2>4, <2>5 DEF Left, StepsLeft
  <2>7. QED
    BY <1>1, <2>6, WorkIsNatural DEF Nearer, Left
<1>4. CASE ~Goto(r, Idle)
  <2>1. PICK a \in FindBySlug(req[r].artistSlug, req[r].song) :
           LET old == songs[a][req[r].song]
               next == AfterRead(req[r].kind, old)
           IN Goto(r, IF next = "idle" THEN Idle
                      ELSE [req[r] EXCEPT !.pc = next, !.old = old,
                                !.new = IF req[r].kind = "update"
                                        THEN old ELSE NoArt])
    BY <1>4 DEF ReadSong
  <2> DEFINE old == songs[a][req[r].song]
             new == IF req[r].kind = "update" THEN old ELSE NoArt
  <2>2. a \in ArtistIDs
    BY DEF FindBySlug
  <2>3. CASE AfterRead(req[r].kind, old) = "idle"
    BY <1>2, <2>1, <2>3
  <2>4. CASE AfterRead(req[r].kind, old) # "idle"
    <3>1. Goto(r, [req[r] EXCEPT !.pc = AfterRead(req[r].kind, old),
                                 !.old = old, !.new = new])
      BY <2>1, <2>4
    <3>2. QED
      BY <1>3, <2>2, <2>4, <3>1
  <2>5. QED
    BY <2>3, <2>4
<1>5. QED
  BY <1>2, <1>4 DEF ReadSong

LEMMA NextSlugIsNearer ==
    ASSUME FilesInv, NEW r \in Requests, SlugTaken(r)
    PROVE  Nearer(r)
<1>1. req[r] \in RequestState /\ JobOK(req[r]) /\ req[r].pc = "inserting"
  BY DEF FilesInv, ArtworkInv, Inv, TypeOK, JobsOK, SlugTaken
<1>2. /\ req[r].kind = "create" /\ req[r].attempt \in Nat
      /\ Len(req[r].title) \in Nat
  BY <1>1, Fields, SlugsAreLeft
<1>3. /\ req'[r].pc = "inserting" /\ req'[r].kind = "create"
      /\ req'[r].title = req[r].title /\ req'[r].attempt = req[r].attempt + 1
  BY <1>1, <1>2 DEF SlugTaken, Goto, RequestState, Idle, FilesInv, ArtworkInv, Inv, TypeOK
<1>4. Left(r)' = 2 + (Len(req[r].title) - (req[r].attempt + 1))
  BY <1>3 DEF Left, StepsLeft, SlugsLeft
<1>5. Left(r) = 2 + (Len(req[r].title) - req[r].attempt)
  BY <1>1, <1>2 DEF Left, StepsLeft, SlugsLeft
<1>6. QED
  BY <1>2, <1>4, <1>5 DEF Nearer

LEMMA RenameIsNearer ==
    ASSUME FilesInv, NEW r \in Requests, NEW k \in Keys, RenameTemp(r, k)
    PROVE  Nearer(r)
<1>1. /\ req[r] \in RequestState /\ JobOK(req[r]) /\ req[r].pc = "uploading"
      /\ temp[r] = "whole"
  BY DEF FilesInv, ArtworkInv, Inv, TypeOK, JobsOK, RenameTemp, UploadArtwork
<1>2. req[r].kind = "create" \/ Edits(req[r])
  BY <1>1, Fields
<1>3. /\ req'[r].pc = (IF req[r].kind = "create" THEN "inserting" ELSE "updating")
      /\ req'[r].kind = req[r].kind
      /\ req[r].kind = "create" =>
            req'[r].title = req[r].title /\ req'[r].attempt = req[r].attempt
  BY <1>1, <1>2
     DEF RenameTemp, UploadArtwork, Goto, RequestState, Idle, Edits, EditKinds,
         FilesInv, ArtworkInv, Inv, TypeOK
<1>4. SlugsLeft(req'[r]) = SlugsLeft(req[r]) /\ SlugsLeft(req[r]) \in Nat
  BY <1>1, <1>3, SlugsAreLeft DEF SlugsLeft
<1>5. Left(r)' <= 2 + SlugsLeft(req[r])
  BY <1>3, <1>4 DEF Left, StepsLeft
<1>6. Left(r) = 2 + SlugsLeft(req[r]) + 1
  BY <1>1, <1>4 DEF Left, StepsLeft, PutLeft
<1>7. Left(r)' \in Nat
  BY <1>3, <1>4 DEF Left, StepsLeft
<1>8. QED
  BY <1>4, <1>5, <1>6, <1>7 DEF Nearer

LEMMA TempIsNearer ==
    ASSUME FilesInv, NEW r \in Requests, CreateTemp(r) \/ WriteTemp(r)
    PROVE  Nearer(r)
<1>1. /\ req[r] \in RequestState /\ JobOK(req[r]) /\ req[r].pc = "uploading"
      /\ req' = req
  BY DEF FilesInv, ArtworkInv, Inv, TypeOK, JobsOK, FilesTypeOK, CreateTemp, WriteTemp, vars
<1>2. PutLeft(temp[r]) \in 1..3 /\ PutLeft(temp'[r]) = PutLeft(temp[r]) - 1
  BY DEF CreateTemp, WriteTemp, SetTemp, PutLeft, FilesInv, FilesTypeOK, TempState
<1>3. SlugsLeft(req[r]) \in Nat
  BY <1>1, SlugsAreLeft
<1>4. /\ Left(r) = 2 + SlugsLeft(req[r]) + PutLeft(temp[r])
      /\ Left(r)' = 2 + SlugsLeft(req[r]) + PutLeft(temp'[r])
  BY <1>1 DEF Left, StepsLeft
<1>5. QED
  BY <1>2, <1>3, <1>4 DEF Nearer

\* Every step of a handler.
LEMMA HandlerGoesOn ==
    ASSUME FilesInv, NEW r \in Requests, FilesHandlerStep(r)
    PROVE  Nearer(r)
<1>1. CASE RowStep(r)
  <2>1. CASE ReadSong(r)
    BY <1>1, <2>1, ReadIsNearer DEF RowStep, fileVars
  <2>2. CASE InsertSong(r)
    BY <2>2, IdleIsNearer DEF InsertSong, Goto, FilesInv, ArtworkInv, Inv, TypeOK, Idle
  <2>3. CASE SlugTaken(r)
    BY <2>3, NextSlugIsNearer
  <2>4. CASE UpdateSong(r) \/ DeleteSong(r) \/ WriteRefused(r)
    BY <2>4, EndIsNearer DEF UpdateSong, DeleteSong, WriteRefused
  <2>5. QED
    BY <1>1, <2>1, <2>2, <2>3, <2>4 DEF RowStep, TryInsert
<1>2. CASE RemoveFile(r)
  BY <1>2, IdleIsNearer DEF RemoveFile, RemoveArtwork, Goto, FilesInv, ArtworkInv, Inv, TypeOK, Idle
<1>3. QED
  BY <1>1, <1>2, RenameIsNearer, TempIsNearer DEF FilesHandlerStep

\* Every failure of one.
LEMMA FaultGoesOn ==
    ASSUME FilesInv, NEW r \in Requests, RowFault(r) \/ PutFails(r)
    PROVE  Nearer(r)
<1>1. CASE RequestDies(r) \/ DeleteUnseen(r)
  BY <1>1, IdleIsNearer
     DEF RequestDies, DeleteUnseen, Goto, FilesInv, ArtworkInv, Inv, TypeOK, Idle
<1>2. CASE WriteFails(r) \/ InsertUnseen(r) \/ UpdateUnseen(r)
  BY <1>2, EndIsNearer DEF WriteFails, InsertUnseen, UpdateUnseen
<1>3. QED
  BY <1>1, <1>2 DEF RowFault, PutFails

\* The steps of one request touch no other.
LEMMA OthersStandStill ==
    ASSUME FilesInv, NEW q \in Requests, NEW r \in Requests, r # q,
           StartRequest(q) \/ FilesHandlerStep(q) \/ RowFault(q) \/ PutFails(q)
    PROVE  req'[r] = req[r] /\ temp'[r] = temp[r]
<1>1. /\ req \in [Requests -> RequestState]
      /\ temp \in [Requests -> TempState]
  BY DEF FilesInv, ArtworkInv, Inv, TypeOK, FilesTypeOK
<1>2. temp' = temp \/ \E state : temp' = [temp EXCEPT ![q] = state]
  BY DEF StartRequest, FilesHandlerStep, RowStep, CreateTemp, WriteTemp, RenameTemp,
         RemoveFile, RowFault, PutFails, SetTemp, fileVars
<1>3. req' = req \/ \E job : req' = [req EXCEPT ![q] = job]
  <2>1. CASE StartRequest(q)
    BY <2>1 DEF StartRequest, StartCreate, StartEdit, Goto
  <2>2. CASE RowStep(q)
    BY <2>2 DEF RowStep, ReadSong, InsertSong, TryInsert, SlugTaken, UpdateSong,
                DeleteSong, WriteRefused, RemoveThenFinish, Goto
  <2>3. CASE CreateTemp(q) \/ WriteTemp(q)
    BY <2>3 DEF CreateTemp, WriteTemp, vars
  <2>4. CASE RemoveFile(q) \/ \E k \in Keys : RenameTemp(q, k)
    BY <2>4 DEF RemoveFile, RemoveArtwork, RenameTemp, UploadArtwork, Goto
  <2>5. CASE RowFault(q) \/ PutFails(q)
    BY <2>5 DEF RowFault, PutFails, WriteFails, RequestDies, InsertUnseen,
                UpdateUnseen, DeleteUnseen, RemoveThenFinish, Goto
  <2>6. QED
    BY <2>1, <2>2, <2>3, <2>4, <2>5 DEF FilesHandlerStep
<1>4. QED
  BY <1>1, <1>2, <1>3

\* No request runs for ever on its own work: the number of steps its handler
\* has left is a natural number that each of its steps lessens and nothing
\* raises.  What RequestsEnd needs besides is that handlers are scheduled.
THEOREM WorkAlwaysOnlyShrinks == FilesSpec => WorkOnlyShrinks
<1> DEFINE Onward(r) ==
      req[r] # Idle =>
          \/ Nearer(r)
          \/ ~FilesHandlerStep(r) /\ req'[r] = req[r] /\ temp'[r] = temp[r]
<1>1. ASSUME FilesInv, FilesNext, NEW r \in Requests, req[r] # Idle,
             ~FilesHandlerStep(r)
      PROVE  Nearer(r) \/ (req'[r] = req[r] /\ temp'[r] = temp[r])
  <2>1. ASSUME NEW q \in Requests,
               StartRequest(q) \/ FilesHandlerStep(q) \/ RowFault(q) \/ PutFails(q)
        PROVE  Nearer(r) \/ (req'[r] = req[r] /\ temp'[r] = temp[r])
    <3>1. CASE q = r
      <4>1. ~StartRequest(r)
        BY <1>1 DEF StartRequest, StartCreate, StartEdit
      <4>2. RowFault(r) \/ PutFails(r)
        BY <1>1, <2>1, <3>1, <4>1
      <4>3. QED
        BY <1>1, <4>2, FaultGoesOn
    <3>2. CASE q # r
      BY <1>1, <2>1, <3>2, OthersStandStill
    <3>3. QED
      BY <3>1, <3>2
  <2>2. CASE \/ PlatformRowStep
             \/ \E k \in Keys : CleanUpFile(k)
             \/ \E v \in Visitors :
                   Serve(v) \/ \E slug \in Slugs, s \in SongSlugs : VisitPage(v, slug, s)
    BY <2>2 DEF PlatformRowStep, CreateArtist, AppointAdmin, DismissAdmins,
                DeletionStep, BeginDeletion, DeleteArtist, DeleteArtistUnseen,
                DeleteRows, DeletionFails, CleanUpFails, CleanUpFile, CleanUp,
                Serve, VisitPage, vars, fileVars
  <2>3. CASE Crash
    BY <1>1, <2>3, IdleIsNearer DEF Crash
  <2>4. QED
    BY <1>1, <2>1, <2>2, <2>3 DEF FilesNext
<1>2. ASSUME FilesInv, FilesNext, NEW r \in Requests
      PROVE  Onward(r)
  BY <1>1, <1>2, HandlerGoesOn
<1>3. FilesInv /\ [FilesNext]_filesVars =>
          [\A r \in Requests : Onward(r)]_filesVars
  BY <1>2
<1>4. QED
  BY <1>3, FilesInvariant, PTL DEF FilesSpec, WorkOnlyShrinks

=============================================================================
