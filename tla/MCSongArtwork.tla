---------------------------- MODULE MCSongArtwork ----------------------------
(* Small instances of module SongArtwork for TLC. *)
EXTENDS SongArtwork, TLC

\* One title and one song slug: a request stays with the song it has read.
OneSong == {"song"}
OneAttempt == {<<"song">>}

\* One title, of which two attempts are allowed (admin/slug.go: 1000).
TwoSongs == {"song", "song-2"}
OneTitle == {<<"song", "song-2">>}

DataSymmetry ==
    Permutations(ArtistIDs) \cup Permutations(Keys) \cup Permutations(Requests)
    \cup Permutations(Slugs)

=============================================================================
