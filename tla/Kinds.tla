--------------------------------- MODULE Kinds --------------------------------
(***************************************************************************)
(* Programs that run without a fault: typings of the intermediate code,    *)
(* which has no types of its own, and what else such a program needs.  The *)
(* interpreter checks the type of every operand when it executes an        *)
(* instruction; a program that has a typing passes all of these checks.    *)
(***************************************************************************)
EXTENDS Interp

\* Typings: a kind for the value of every instruction, for what every function is
\* given and hands back, and for the objects of every alloc.  A kind says what type
\* an object has, what a pointer points to and what a struct has under each name.
Plain(type) == [is |-> type]
NoKind == Plain("none")    \* there may be no object

\* kinds are those of the objects around.
OfKind(o, kinds, kind) ==
  /\ o.type = kind.is
  /\ kind.is = "pointer" => o.pointer \in DOMAIN kinds /\ kinds[o.pointer] = kind.to
  /\ kind.is = "struct" =>
       \A f \in DOMAIN kind.has :
         /\ f \in DOMAIN o.members /\ o.members[f] \in DOMAIN kinds
         /\ kinds[o.members[f]] = kind.has[f]
Fits(objects, kinds) ==
  /\ DOMAIN kinds = DOMAIN objects
  /\ \A r \in DOMAIN objects : OfKind(objects[r], kinds, kinds[r])

OperandKind(t, o) ==
  IF IsConstant(o) THEN Plain(o.type)
  ELSE IF o.kind = "value" THEN t.value[o.id] ELSE NoKind

\* Instruction i of function f has operands of the kinds that it asserts or relies on.
\* What an extern function is given is what its caller has for parameters from then on.
TypedCall(p, t, f, i) ==
  LET own == CallsOwn(p, i)
      given == t.param[IF own THEN i.aux ELSE f] IN
  /\ i.aux # NoFunction
  /\ ~own => p.functions[i.aux].name \in Natives
  /\ \A k \in DOMAIN i.operands : i.operands[k].kind # "null"
  /\ \A k \in DOMAIN given :
       k \in DOMAIN i.operands /\ OperandKind(t, i.operands[k]) = given[k]
  /\ t.value[i.id] = IF own THEN t.result[i.aux] ELSE NoKind

TypedInstruction(p, t, f, i) ==
  LET kind(k) == OperandKind(t, i.operands[k])
      value == t.value[i.id] IN
  /\ i.op # "idx"
  /\ i.op = "alloc" => Fits(i.aux, t.layout[i.id]) /\ value = t.layout[i.id][1]
  /\ i.op = "load" =>
       IF i.operands[1].kind = "param"
       THEN LET n == i.operands[1].id + 1 IN
            n \in DOMAIN t.param[f] /\ value = t.param[f][n]
       ELSE kind(1).is = "pointer" /\ value = kind(1).to
  /\ i.op = "store" =>
       /\ kind(1).is = "pointer" /\ kind(2) # NoKind
       /\ kind(1).to.is = "struct" => kind(2) = kind(1).to
  /\ i.op = "add" =>
       /\ kind(1) \in {Plain("number"), Plain("string")}
       /\ kind(2) = kind(1) /\ value = kind(1)
  /\ i.op \in Arithmetic =>
       /\ kind(1) # NoKind /\ kind(2) # NoKind /\ Plain("number") \in {kind(1), kind(2)}
       /\ value = Plain("number")
  /\ i.op = "brk" => kind(1) = Plain("number")
  /\ i.op = "gea" =>
       /\ kind(1).is = "pointer" /\ kind(1).to.is = "struct"
       /\ i.aux \in DOMAIN kind(1).to.has /\ value = kind(1).to.has[i.aux]
  /\ i.op = "ret" =>
       /\ i.operands[1].kind # "null"
       /\ t.result[f] # NoKind => kind(1) = t.result[f]
  /\ i.op = "invoke" => TypedCall(p, t, f, i)

\* init is given nothing.
WellTyped(p, t) ==
  /\ t.param[1] = << >>
  /\ \A b \in DOMAIN p.code : \A j \in DOMAIN p.code[b] :
       TypedInstruction(p, t, p.home[b], p.code[b][j])

\* A function that has a result has executed a ret on every way to its end: sure are
\* the blocks before which it has.
HasReturned(p, sure, b, at) ==
  b \in sure \/ \E l \in DOMAIN p.code[b] : l < at /\ p.code[b][l].op = "ret"
ReturnsSurely(p, t, sure) ==
  /\ \A f \in DOMAIN p.functions : ~p.functions[f].extern => p.functions[f].entry \notin sure
  /\ \A b \in DOMAIN p.code : \A j \in DOMAIN p.code[b] :
       p.code[b][j].op \in {"brk", "jmp"} /\ p.code[b][j].aux \in sure =>
         HasReturned(p, sure, b, j)
  /\ \A b \in DOMAIN p.code : t.result[p.home[b]] # NoKind =>
       \/ HasReturned(p, sure, b, Len(p.code[b]) + 1)
       \/ p.code[b] # << >> /\ p.code[b][Len(p.code[b])].op = "jmp"

\* What such a program is like: it has a typing, computes first what it reads, returns
\* a result where it is to, and calls nothing behind a ret.
TypedForm(p, t, known, sure, last) ==
  /\ WellTyped(p, t) /\ ComputesFirst(p, known)
  /\ ReturnsSurely(p, t, sure) /\ ReturnsLast(p, last)

\* It divides and shifts only by constants that it may divide and shift by.
DividesSafely(p) ==
  \A b \in DOMAIN p.code : \A j \in DOMAIN p.code[b] :
    LET i == p.code[b][j] IN
    i.op \in {"div", "mod"} \cup Shifts =>
      /\ IsConstant(i.operands[2])
      /\ IF i.op \in Shifts THEN i.operands[2].int \in 0..63 ELSE i.operands[2].int # 0
===============================================================================
