------------------------------- MODULE MCHandles ------------------------------
(***************************************************************************)
(* Three objects of three classes: one with two handles, one with one, and *)
(* one without.                                                            *)
(***************************************************************************)
EXTENDS Handles, TLC

CONSTANTS o1, o2, o3

Three == {o1, o2, o3}
Classes == (o1 :> 2) @@ (o2 :> 1) @@ (o3 :> 0)
===============================================================================
