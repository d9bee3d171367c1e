------------------------------- MODULE MCDeadCode -----------------------------
(***************************************************************************)
(* The eliminator on what the code generator makes of programs that leave  *)
(* something to eliminate.                                                 *)
(***************************************************************************)
EXTENDS DeadCode, Pipeline

WastefulTable == Compiled(Wasteful)
WastefulPrograms == WastefulTable
===============================================================================
