------------------------- MODULE MCSqliteMigration -------------------------
(* Old databases small enough to start from every one of them. *)
EXTENDS SqliteMigration

=============================================================================
