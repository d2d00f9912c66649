------------------------------ MODULE SongFiles ------------------------------
(***************************************************************************)
(* SongArtwork with the files themselves: how the filesystem driver puts   *)
(* artwork under its key, step by step, and how the visitors of public     *)
(* pages get at it.  A put writes a temporary file next to the artwork and *)
(* renames it, so an upload that fails or dies half-way must never be      *)
(* visible; a visitor learns a key from a song's page and asks for the     *)
(* file later, when the song may have another.                             *)
(*                                                                         *)
(* A name that os.CreateTemp has drawn is taken to be never drawn again, so *)
(* that the temporary files a crash leaves behind are in nobody's way.      *)
(***************************************************************************)
EXTENDS SongArtwork

CONSTANT Visitors   \* browsers that show public song pages

VARIABLES
    temp,           \* request -> its temporary file
    whole,          \* the keys whose file has all its data
    visitor         \* visitor -> the page shown and what became of its artwork

fileVars == <<temp, whole>>
filesVars == <<vars, fileVars, visitor>>

TempState == {"none", "partial", "whole"}
Away == [at |-> "away"]
VisitorState ==
    {Away} \cup [at : {"page", "missing", "cut"}, key : Keys,
                 song : ArtistIDs \X SongSlugs]

FilesInit ==
    /\ Init
    /\ temp = [r \in Requests |-> "none"]
    /\ whole = {}
    /\ visitor = [v \in Visitors |-> Away]

SetTemp(r, state) == temp' = [temp EXCEPT ![r] = state]

-----------------------------------------------------------------------------
(* Storage.Put and Storage.Delete of the filesystem driver *)

\* os.MkdirAll and os.CreateTemp.
CreateTemp(r) ==
    /\ req[r].pc = "uploading"
    /\ temp[r] = "none"
    /\ SetTemp(r, "partial")
    /\ UNCHANGED <<vars, whole, visitor>>

\* All data is written and the file is closed.
WriteTemp(r) ==
    /\ temp[r] = "partial"
    /\ SetTemp(r, "whole")
    /\ UNCHANGED <<vars, whole, visitor>>

\* Variant: the file is renamed before it is written.
RenameTemp_Early(r, k) ==
    /\ temp[r] # "none"
    /\ UploadArtwork(r, k)
    /\ whole' = IF temp[r] = "whole" THEN whole \cup {k} ELSE whole
    /\ SetTemp(r, "none")
    /\ UNCHANGED visitor

\* os.Rename to the key that Save has drawn; the deferred os.Remove of the
\* temporary name finds nothing.
RenameTemp(r, k) ==
    /\ temp[r] = "whole"
    /\ UploadArtwork(r, k)
    /\ whole' = whole \cup {k}
    /\ SetTemp(r, "none")
    /\ UNCHANGED visitor

\* An error of any step: the deferred os.Remove takes the temporary file away
\* and the handler returns.
PutFails(r) ==
    /\ temp[r] # "none"
    /\ RequestDies(r)
    /\ SetTemp(r, "none")
    /\ UNCHANGED <<whole, visitor>>

\* os.Remove, for which a missing file is no error.
RemoveFile(r) ==
    /\ RemoveArtwork(r)
    /\ whole' = whole \ {req[r].key}
    /\ UNCHANGED <<temp, visitor>>

CleanUpFile(k) ==
    /\ CleanUp(k)
    /\ whole' = whole \ {k}
    /\ UNCHANGED <<temp, visitor>>

\* The process dies: every handler stops where it is, no deferred call runs,
\* open transactions are rolled back, and nobody knows which files were still
\* to be removed.
Crash ==
    /\ temp' = [r \in Requests |-> "none"]
    /\ leaked' = leaked \cup cleanup \cup UNION {Held(req[r]) : r \in Requests}
    /\ req' = [r \in Requests |-> Idle]
    /\ cleanup' = {}
    /\ deletions' = [d \in Deleters |-> NoDeletion]
    /\ UNCHANGED <<tables, blobs, usedKeys, home, dangling, whole, visitor>>

-----------------------------------------------------------------------------
(* Visitors of public pages *)

\* The song page reads the row and renders the address of its artwork.
VisitPage(v, slug, s) ==
    /\ visitor[v].at # "page"
    /\ \E a \in FindBySlug(slug, s) :
          /\ songs[a][s] \in Keys
          /\ visitor' = [visitor EXCEPT ![v] =
                 [at |-> "page", key |-> songs[a][s], song |-> <<a, s>>]]
    /\ UNCHANGED <<vars, fileVars>>

\* The browser asks for the artwork of its page: Open, then ServeContent from
\* the open file, which a removal no longer affects, or 404.
Serve(v) ==
    /\ visitor[v].at = "page"
    /\ LET k == visitor[v].key
       IN visitor' = [visitor EXCEPT ![v] =
              CASE k \in blobs \cap whole -> Away
                [] k \in blobs \ whole -> [@ EXCEPT !.at = "cut"]
                [] OTHER -> [@ EXCEPT !.at = "missing"]]
    /\ UNCHANGED <<vars, fileVars>>

-----------------------------------------------------------------------------

\* The steps of a handler that neither put nor remove a file.
RowStep(r) ==
    /\ \/ ReadSong(r)
       \/ TryInsert(r)
       \/ UpdateSong(r)
       \/ DeleteSong(r)
       \/ WriteRefused(r)
    /\ UNCHANGED <<fileVars, visitor>>

FilesHandlerStep(r) ==
    \/ RowStep(r)
    \/ CreateTemp(r)
    \/ WriteTemp(r)
    \/ \E k \in Keys : RenameTemp(r, k)
    \/ RemoveFile(r)

RowFault(r) ==
    /\ \/ WriteFails(r)
       \/ temp[r] = "none" /\ RequestDies(r)
       \/ InsertUnseen(r)
       \/ UpdateUnseen(r)
       \/ DeleteUnseen(r)
    /\ UNCHANGED <<fileVars, visitor>>

StartRequest(r) ==
    /\ \/ \E a \in ArtistIDs, t \in Titles, pc \in {"uploading", "inserting"} :
              StartCreate(r, a, t, pc)
       \/ \E kind \in EditKinds, a \in ArtistIDs, s \in SongSlugs :
              StartEdit(r, kind, a, s)
    /\ UNCHANGED <<fileVars, visitor>>

PlatformRowStep ==
    /\ \/ \E a \in ArtistIDs, slug \in Slugs : CreateArtist(a, slug)
       \/ \E a \in ArtistIDs : AppointAdmin(a) \/ DismissAdmins(a)
       \/ \E d \in Deleters : DeletionStep(d)
       \/ \E k \in Keys : CleanUpFails(k)
    /\ UNCHANGED <<fileVars, visitor>>

FilesNext ==
    \/ \E r \in Requests :
          StartRequest(r) \/ FilesHandlerStep(r) \/ RowFault(r) \/ PutFails(r)
    \/ PlatformRowStep
    \/ \E k \in Keys : CleanUpFile(k)
    \/ \E v \in Visitors :
          Serve(v) \/ \E slug \in Slugs, s \in SongSlugs : VisitPage(v, slug, s)
    \/ Crash

\* A handler runs on by itself: it waits for nobody but the database and the
\* file system, which answer or fail.
FilesSpec ==
    /\ FilesInit
    /\ [][FilesNext]_filesVars
    /\ \A r \in Requests : WF_filesVars(FilesHandlerStep(r))

-----------------------------------------------------------------------------
(* Properties *)

\* A request has a temporary file only while it uploads, and visitors are in
\* one of their states.
FilesTypeOK ==
    /\ temp \in [Requests -> TempState]
    /\ \A r \in Requests : temp[r] # "none" => req[r].pc = "uploading"
    /\ whole \subseteq Keys
    /\ visitor \in [Visitors -> VisitorState]

\* No visitor is ever sent half a file, although uploads fail or die at any
\* step and the answer may be cached for a year (Cache-Control: immutable).
ServedFilesAreWhole == \A v \in Visitors : visitor[v].at # "cut"

\* A page whose artwork turns out to be missing is an old page: the song has
\* another row by now, or has lost its file to a stale or unseen write.  A
\* visitor of the song as it is always gets its artwork.
MissingOnlyOnOldPages ==
    \A v \in Visitors : visitor[v].at = "missing" =>
        \/ songs[visitor[v].song[1]][visitor[v].song[2]] # visitor[v].key
        \/ visitor[v].key \in dangling

\* Every song request ends, whatever the others do: the search for a free slug
\* included, which competes with requests that take and free slugs.
RequestsEnd == \A r \in Requests : req[r] # Idle ~> req[r] = Idle

=============================================================================
