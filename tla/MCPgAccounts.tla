---------------------------- MODULE MCPgAccounts ----------------------------
(* Small tables and two connections for TLC.  Ids, codes, slugs, e-mails    *)
(* and connections are only compared for equality.                          *)
EXTENDS PgAccounts, TLC

PgSymmetry ==
    Permutations(UserIDs) \cup Permutations(InvitationIDs) \cup
    Permutations(Codes) \cup Permutations(ArtistIDs) \cup
    Permutations(Emails) \cup Permutations(Slugs) \cup
    Permutations(Transactions)

=============================================================================
