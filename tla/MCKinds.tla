---------------------------------- MODULE MCKinds --------------------------------
(***************************************************************************)
(* Typings for what the rest of the compiler makes of source programs:     *)
(* every program that MCInterp runs has one, as the proofs about faults    *)
(* want it.  What is run beside it are the ill-behaved programs.           *)
(***************************************************************************)
EXTENDS Kinds, MCInterp

\* A typing, from the layouts of the variables along the code and the calls.
RECURSIVE KindAt(_, _), Inferred(_, _)
KindAt(layout, r) ==
  IF layout[r].type = "pointer"
  THEN [is |-> "pointer", to |-> KindAt(layout, layout[r].pointer)]
  ELSE IF layout[r].type = "struct"
  THEN [is |-> "struct", has |-> [f \in DOMAIN layout[r].members |->
                                   KindAt(layout, layout[r].members[f])]]
  ELSE Plain(layout[r].type)

Sites(p) == UNION {{<<b, j>> : j \in DOMAIN p.code[b]} : b \in DOMAIN p.code}
One(kinds, other) == IF kinds = {} THEN other ELSE CHOOSE kind \in kinds : TRUE

\* What function f does to text is taken for a hint at its parameters if nothing calls it.
Given(p, t, f, n) ==
  LET calls == {i \in {p.code[s[1]][s[2]] : s \in Sites(p)} :
                  i.op = "invoke" /\ i.aux = f /\ n \in DOMAIN i.operands}
      texts == {s \in Sites(p) : p.home[s[1]] = f /\
                  \E k \in DOMAIN p.code[s[1]][s[2]].operands :
                    OperandKind(t, p.code[s[1]][s[2]].operands[k]) = Plain("string")} IN
  One({OperandKind(t, i.operands[n]) : i \in calls} \ {NoKind},
      IF texts = {} THEN Plain("number") ELSE Plain("string"))

ParametersRead(p, f) ==
  {p.code[s[1]][s[2]].operands[1].id + 1 : s \in {s \in Sites(p) :
     p.home[s[1]] = f /\ p.code[s[1]][s[2]].op = "load"
       /\ p.code[s[1]][s[2]].operands[1].kind = "param"}}

Infer(p, t) ==
  LET kind(i, k) == OperandKind(t, i.operands[k])
      value(f, i) ==
        CASE i.op = "alloc" -> t.layout[i.id][1]
          [] i.op = "load" /\ i.operands[1].kind = "param" ->
               t.param[f][i.operands[1].id + 1]
          [] i.op = "load" /\ i.operands[1].kind # "param" ->
               IF kind(i, 1).is = "pointer" THEN kind(i, 1).to ELSE NoKind
          [] i.op = "add" -> kind(i, 1)
          [] i.op \in Arithmetic -> Plain("number")
          [] i.op = "gea" ->
               IF kind(i, 1).is = "pointer" /\ i.aux \in DOMAIN kind(i, 1).to.has
               THEN kind(i, 1).to.has[i.aux] ELSE NoKind
          [] i.op = "invoke" -> IF i.aux = NoFunction THEN NoKind ELSE t.result[i.aux]
          [] OTHER -> NoKind IN
  [value |-> [id \in DOMAIN t.value |->
     One({value(p.home[s[1]], p.code[s[1]][s[2]]) :
            s \in {s \in Sites(p) : p.code[s[1]][s[2]].id = id}}, NoKind)],
   layout |-> t.layout,
   param |-> [f \in DOMAIN t.param |->
     [n \in 1..Max({0} \cup ParametersRead(p, f)) |-> Given(p, t, f, n)]],
   result |-> [f \in DOMAIN t.result |->
     One({kind(p.code[s[1]][s[2]], 1) : s \in {s \in Sites(p) :
            p.home[s[1]] = f /\ p.code[s[1]][s[2]].op = "ret"}} \ {NoKind}, NoKind)]]

Inferred(p, t) ==
  LET more == Infer(p, t) IN IF more = t THEN t ELSE Inferred(p, more)

Typing(p) ==
  Inferred(p,
    [value |-> [id \in 1..Len(p.users) |-> NoKind],
     layout |-> [id \in 1..Len(p.users) |->
       LET at == {s \in Sites(p) : LET i == p.code[s[1]][s[2]] IN
                                   i.id = id /\ i.op = "alloc"} IN
       IF at = {} THEN << >>
       ELSE LET s == CHOOSE s \in at : TRUE
                layout == p.code[s[1]][s[2]].aux IN
            [r \in DOMAIN layout |-> KindAt(layout, r)]],
     param |-> [f \in DOMAIN p.functions |->
       [n \in 1..Max({0} \cup ParametersRead(p, f)) |-> NoKind]],
     result |-> [f \in DOMAIN p.functions |-> NoKind]])

\* The blocks before which there has been a ret, on every way into them.
RECURSIVE Surely(_, _)
Surely(p, sure) ==
  LET fewer == {b \in sure :
        /\ \A f \in DOMAIN p.functions : p.functions[f].entry # b
        /\ \A s \in Sites(p) : LET i == p.code[s[1]][s[2]] IN
             i.op \in {"brk", "jmp"} /\ i.aux = b => HasReturned(p, sure, s[1], s[2])} IN
  IF fewer = sure THEN sure ELSE Surely(p, fewer)

\* The programs with a meaning and those that type analysis lets through are of the
\* form that the proofs speak of, and divide by sound constants alone.
ASSUME TypingsAreMet ==
  LET programs == WellBehavedTable IN
  \A k \in DOMAIN programs : LET p == programs[k] IN
    /\ DividesSafely(p)
    /\ \E t \in {Typing(p)} :
         TypedForm(p, t, Narrowed(p, [b \in DOMAIN p.code |-> 1..Len(p.users)]),
                   Surely(p, DOMAIN p.code), Behind(p, {}))
===============================================================================
