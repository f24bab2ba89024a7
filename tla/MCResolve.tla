------------------------------ MODULE MCResolve ------------------------------
(* Instances of Resolve for TLC: the constants are numbers given in the .cfg. *)
EXTENDS Resolve, TLC
==============================================================================
