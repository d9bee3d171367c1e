----------------------------------- MODULE IR ---------------------------------
(***************************************************************************)
(* The intermediate code that the code generator makes, the eliminator     *)
(* rewrites and the interpreter runs (include/jast/ir).  A program p is a  *)
(* record with                                                             *)
(*   code       the instructions of each block, blocks numbered from 1;    *)
(*   home       the function of each block;                                *)
(*   functions  name, extern and entry block of each Function object, the  *)
(*              first of them the one that CodeGenerator makes for init;   *)
(*   module     the Module: a name gives the number of a function;         *)
(*   users      user_list_ of each instruction, as instruction numbers.    *)
(* An instruction has its number in id, its OpCode in op, its values in    *)
(* operands and what else it names in aux: the block of a brk or jmp, the  *)
(* function of an invoke, the member of a gea, the layout of an alloc.     *)
(***************************************************************************)
EXTENDS Integers, Sequences, FiniteSets

NoFunction == 0    \* an invoke of a value that is no function

\* What an Object can be.
Types == {"undefined", "number", "string", "array", "struct", "pointer"}

\* How many operands the constructors of the instructions take; an invoke has any.
Arity ==
  [load |-> 1, store |-> 2, add |-> 2, sub |-> 2, mul |-> 2, div |-> 2, mod |-> 2,
   lt |-> 2, gt |-> 2, eq |-> 2, neq |-> 2, and |-> 2, or |-> 2, shl |-> 2, shr |-> 2,
   szr |-> 2, brk |-> 1, jmp |-> 0, ret |-> 1, alloc |-> 0, gea |-> 1, idx |-> 2]

IsSequence(s) == s \in Seq({s[k] : k \in DOMAIN s})

\* An Object among n others: what it refers to is one of them or nothing.
IsObject(o, n) ==
  o \in [type : Types, int : Int, str : {o.str}, members : [DOMAIN o.members -> 0..n],
         pointer : 0..n]

\* The objects of an alloc: the first points to one of them.
IsLayout(layout) ==
  /\ IsSequence(layout)
  /\ \A k \in DOMAIN layout : IsObject(layout[k], Len(layout))
  /\ 1 \in DOMAIN layout /\ layout[1].pointer # 0

IsOperand(o) ==
  /\ o.kind \in {"null", "const", "param", "value", "function"}
  /\ o.kind = "const" => o.type \in {"number", "string"} /\ o.int \in Int
  /\ o.kind = "param" => o.id \in Nat

IsInstruction(i) ==
  /\ i.op \in DOMAIN Arity \cup {"invoke"}
  /\ IsSequence(i.operands)
  /\ i.op # "invoke" => Len(i.operands) = Arity[i.op]
  /\ \A k \in DOMAIN i.operands : IsOperand(i.operands[k])
  /\ i.op = "alloc" => IsLayout(i.aux)

\* No two instructions are the same object.
IdsDiffer(code) ==
  \A b, c \in DOMAIN code : \A j \in DOMAIN code[b], l \in DOMAIN code[c] :
    code[b][j].id = code[c][l].id => b = c /\ j = l

\* What the constructors and the code generator see to: instructions are sound ones
\* and differ, jumps stay in their function, an invoke names a function or none, a
\* function that is not extern has an entry block.
WellFormed(p) ==
  /\ IsSequence(p.functions)
  /\ IdsDiffer(p.code)
  /\ 1 \in DOMAIN p.functions /\ ~p.functions[1].extern
  /\ \A f \in DOMAIN p.functions :
       /\ p.functions[f].extern \in BOOLEAN
       /\ ~p.functions[f].extern =>
            p.functions[f].entry \in DOMAIN p.code /\ p.home[p.functions[f].entry] = f
  /\ \A b \in DOMAIN p.code :
       /\ IsSequence(p.code[b])
       /\ \A j \in DOMAIN p.code[b] :
            LET i == p.code[b][j] IN
            /\ IsInstruction(i)
            /\ i.op \in {"brk", "jmp"} =>
                 i.aux \in DOMAIN p.code /\ p.home[i.aux] = p.home[b]
            /\ i.op = "invoke" => i.aux \in DOMAIN p.functions \cup {NoFunction}

\* Instruction i has the value of instruction v among its operands.
Reads(i, v) ==
  \E k \in DOMAIN i.operands : i.operands[k].kind = "value" /\ i.operands[k].id = v

\* Every value that some code reads is computed somewhere in it.
ValuesComputed(code) ==
  \A b \in DOMAIN code : \A j \in DOMAIN code[b] :
    \A k \in DOMAIN code[b][j].operands :
      code[b][j].operands[k].kind = "value" =>
        \E c \in DOMAIN code : \E l \in DOMAIN code[c] :
          code[c][l].id = code[b][j].operands[k].id

\* Every reader of a value is in its user list (AddOperand and AddUser).
UsersListed(code, users) ==
  \A b \in DOMAIN code : \A j \in DOMAIN code[b] :
    \A k \in DOMAIN code[b][j].operands :
      LET o == code[b][j].operands[k] IN
      o.kind = "value" =>
        /\ o.id \in DOMAIN users
        /\ \E n \in DOMAIN users[o.id] : users[o.id][n] = code[b][j].id

\* Users are only added as readers, by the constructor of the reader.
UsersRead(code, users) ==
  \A v \in DOMAIN users : users[v] # << >> =>
    \E b \in DOMAIN code : \E j \in DOMAIN code[b] : Reads(code[b][j], v)

\* What AddInstruction and AddOperand see to; blocks are numbered from 1.
WellLinked(p) ==
  /\ IsSequence(p.code)
  /\ \A b \in DOMAIN p.code : IsSequence(p.code[b])
  /\ \A v \in DOMAIN p.users : IsSequence(p.users[v])
  /\ \A b \in DOMAIN p.code : \A j \in DOMAIN p.code[b] : p.code[b][j].id \in DOMAIN p.users
  /\ IdsDiffer(p.code)
  /\ ValuesComputed(p.code)
  /\ UsersListed(p.code, p.users)
  /\ UsersRead(p.code, p.users)

-------------------------------------------------------------------------------
\* redundant-code-elimination.h.
HasSideEffect(i) == i.op \in {"store", "invoke", "ret", "brk", "jmp"}

\* Its blocks: those of the functions that the module names.
Visited(p) == {b \in DOMAIN p.code : \E n \in DOMAIN p.module : p.module[n] = p.home[b]}

\* The instructions of a block that have a side effect or that some instruction of
\* the whole program, a removed one included, reads.
Staying(p, b) ==
  {j \in DOMAIN p.code[b] :
     \/ HasSideEffect(p.code[b][j])
     \/ \E c \in DOMAIN p.code : \E l \in DOMAIN p.code[c] :
          Reads(p.code[c][l], p.code[b][j].id)}

\* How many of the places are among the first n.
Among(places, n) == Cardinality(places \cap 1..n)
\* What s has at the places, in their order.
Picked(s, places) ==
  [k \in 1..Cardinality(places) |->
    s[CHOOSE j \in places : Among(places, j) = k]]

\* The program without the others.
Remaining(p) ==
  [b \in DOMAIN p.code |->
    IF b \in Visited(p) THEN Picked(p.code[b], Staying(p, b)) ELSE p.code[b]]
Eliminated(p) == [p EXCEPT !.code = Remaining(p)]
===============================================================================
