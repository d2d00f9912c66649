---------------------------- MODULE MCAdminPages ----------------------------
(* Small instances of module AdminPages for TLC. *)
EXTENDS AdminPages, TLC

PageSymmetry == Permutations(Users) \cup Permutations(Tabs)

=============================================================================
