----------------------------- MODULE MCSongFiles -----------------------------
(* Small instances of module SongFiles for TLC. *)
EXTENDS SongFiles, TLC

\* One title, of which two attempts are allowed (admin/slug.go: 1000).
TwoSongs == {"song", "song-2"}
OneTitle == {<<"song", "song-2">>}

=============================================================================
