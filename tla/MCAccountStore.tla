--------------------------- MODULE MCAccountStore ---------------------------
(* Small tables for TLC.  No symmetry sets: the run checks liveness too.    *)
EXTENDS AccountStore

=============================================================================
