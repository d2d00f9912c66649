----------------------------- MODULE MCAdminSite -----------------------------
(* Small instances of the administration site for TLC. *)
EXTENDS AdminSite, TLC

IdSymmetry ==
    Permutations(UserIDs) \cup Permutations(InvitationIDs) \cup
    Permutations(Codes) \cup Permutations(ArtistIDs) \cup
    Permutations(Emails) \cup Permutations(Slugs) \cup Permutations(Requests)

=============================================================================
