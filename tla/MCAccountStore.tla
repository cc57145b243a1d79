--------------------------- MODULE MCAccountStore ---------------------------
(***************************************************************************)
(* Instances of the account store for TLC.                                 *)
(***************************************************************************)
EXTENDS AccountStore, TLC

StoreSymmetry == Permutations(Requests) \cup Permutations(Names \ DemoNames)
============================================================================
