------------------------- MODULE MCStoreConnection -------------------------
(***************************************************************************)
(* Instances of StoreConnection for TLC: two processes; the bounds are in  *)
(* the .cfg files.                                                         *)
(***************************************************************************)
EXTENDS StoreConnection, TLC

=============================================================================
