-------------------------------- MODULE MCInterp ------------------------------
(***************************************************************************)
(* The interpreter on what the rest of the compiler makes of source        *)
(* programs.                                                               *)
(***************************************************************************)
EXTENDS Interp, Pipeline, FiniteSetsExt

\* Programs with a meaning, then those that type analysis lets through.
WellBehavedTable ==
  CHOOSE table \in {WithExpected(WellBehaved, others) :
                     others \in {Listed({tree \in TypedPrograms : Accepted(tree)})}} : TRUE
IllBehavedTable == Optimized(Compiled(IllBehaved)) \o << >>
PrintsThenReadsTable == Compiled(PrintsThenReads)

\* TLC keeps the value of a table, but evaluates what it substitutes for
\* a constant at every use.
WellBehavedPrograms == WellBehavedTable
IllBehavedPrograms == IllBehavedTable
PrintsThenReadsPrograms == PrintsThenReadsTable

\* The code generator gets through every one of these trees.
ASSUME CodeGenerated ==
  LET programs == Programs IN \A p \in DOMAIN programs : ~programs[p].crashed

\* The blocks that may run behind a ret, the values there on every way into a block,
\* and how deep functions can be called.
RECURSIVE Behind(_, _), Narrowed(_, _), Raised(_, _, _)
Behind(p, S) ==
  LET jumps(b) == {j \in DOMAIN p.code[b] :
        /\ p.code[b][j].op \in {"brk", "jmp"}
        /\ b \in S \/ \E l \in 1..j : p.code[b][l].op = "ret"}
      wider == S \cup {c \in DOMAIN p.code : \E b \in DOMAIN p.code :
                         \E j \in jumps(b) : p.code[b][j].aux = c} IN
  IF wider = S THEN S ELSE Behind(p, wider)

Leads(p, i, b) ==
  \/ i.op \in {"brk", "jmp"} /\ i.aux = b
  \/ CallsOwn(p, i) /\ p.functions[i.aux].entry = b

Narrowed(p, known) ==
  LET narrower ==
        [b \in DOMAIN p.code |->
          IF b = p.functions[1].entry THEN {}
          ELSE {v \in known[b] :
                 \A c \in DOMAIN p.code : \A j \in DOMAIN p.code[c] :
                   Leads(p, p.code[c][j], b) => v \in Known(p, known, c, j)}] IN
  IF narrower = known THEN known ELSE Narrowed(p, narrower)

Raised(p, level, times) ==
  IF times = 0 THEN level
  ELSE Raised(p, [f \in DOMAIN p.functions |->
         Max({0} \cup {level[p.home[b]] + 1 :
           b \in {b \in DOMAIN p.code : \E j \in DOMAIN p.code[b] :
                   CallsOwn(p, p.code[b][j]) /\ p.code[b][j].aux = f}})], times - 1)

\* The programs with a meaning are of the forms that the proofs speak of.
ASSUME FormsAreMet ==
  LET programs == Programs IN
  \A k \in DOMAIN programs : LET p == programs[k] IN "expected" \in DOMAIN p =>
    /\ NoNativeBesideParameters(p)
    /\ ReturnsLast(p, Behind(p, {}))
    /\ LevelsRise(p, Raised(p, [f \in DOMAIN p.functions |-> 0], Len(p.functions)))
    /\ ComputesFirst(p, Narrowed(p, [b \in DOMAIN p.code |-> 1..Len(p.users)]))

\* Compiling a tree and running it, with or without the redundant code, gives the
\* output that the tree means.
OutputIsMeaning ==
  status = "halted" /\ "expected" \in DOMAIN program => out = program.expected
===============================================================================
