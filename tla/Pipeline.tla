-------------------------------- MODULE Pipeline ------------------------------
(***************************************************************************)
(* The back half of samples/parse.cc up to the interpreter: CodeGenerator  *)
(* on a syntax tree, then RedundantCodeEliminator on the module it made.   *)
(***************************************************************************)
EXTENDS CodeGen, IR, Meaning, Sources

Analysis == INSTANCE TypeAnalysis

\* TypeAnalysis::runOnAst finds no error in a tree.
Accepted(tree) ==
  \E a \in {Analysis!Visit(Analysis!Fresh([n \in {} |-> Analysis!NoType]), tree)} :
    ~a.crashed /\ a.errors = << >>

\* What running the program of a tree has to print.
Expected(tree) ==
  LET lines == Output(tree) IN
  [l \in DOMAIN lines |-> [k \in DOMAIN lines[l] |-> <<"number", lines[l][k]>>]]

\* Every tree is compiled for both values that the uninitialised address_ can
\* hold.  (Appending the empty sequence makes TLC compute a table once.)
Compiled(trees) ==
  [k \in 1..(2 * Len(trees)) |-> Compile(trees[(k + 1) \div 2], k % 2 = 0)] \o << >>

\* The programs as they are and with the redundant code eliminated.
Optimized(programs) ==
  programs \o [k \in DOMAIN programs |-> Eliminated(programs[k])]

\* The programs of trees with the output that they should give, those of others without.
WithExpected(trees, others) ==
  LET programs == Optimized(Compiled(trees \o others))
      place(k) == (((k - 1) \div 2) % (Len(programs) \div 4)) + 1 IN
  [k \in DOMAIN programs |->
    IF place(k) > Len(trees) THEN programs[k]
    ELSE programs[k] @@ ("expected" :> Expected(trees[place(k)]))] \o << >>
===============================================================================
