------------------------------ MODULE MCBtree ------------------------------
(* Instances of Btree for TLC. *)
EXTENDS Btree
=============================================================================
