---------------------------- MODULE MCCommonsHome ----------------------------
(* TLC instance of CommonsHome; the .cfg files name the writers and packets. *)
(* The ledger needs no bound: only writers that saw no file may commit.      *)
EXTENDS CommonsHome, TLC

=============================================================================
