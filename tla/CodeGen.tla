-------------------------------- MODULE CodeGen -------------------------------
(***************************************************************************)
(* src/jast/ir/code-generator.cc as an operator from syntax trees to the   *)
(* programs that module Interp runs, and the layouts that the interpreter  *)
(* gives to variables.  Both are recursive, so nothing is proved here.     *)
(*                                                                         *)
(* A tree is a record with its node type in t.  A generator state s has    *)
(* the code so far, a sequence of blocks of instructions, and the members  *)
(* of CodeGeneratorImpl and IRBuilder.  Gen...(tree, s, address) is the    *)
(* pair of the new state and the Ref<Value> returned; address is address_, *)
(* which AddressEnv sets for a scope and puts back, so it is an argument.  *)
(***************************************************************************)
EXTENDS AST, Integers, Sequences, FiniteSets

Nothing == [kind |-> "null"]      \* a null Ref<Value>

Number(n) == [kind |-> "const", type |-> "number", int |-> n, str |-> << >>]
Text(str) == [kind |-> "const", type |-> "string", int |-> 0, str |-> <<str>>]
Param(i) == [kind |-> "param", id |-> i]
InstructionValue(id) == [kind |-> "value", id |-> id]
FunctionValue(f) == [kind |-> "function", id |-> f]

-------------------------------------------------------------------------------
\* InterpreterImpl::NewObject of an alloc of a variable of type ty: the objects
\* it makes, each reference counted from the start of the layout; the first is
\* the pointer it returns, the second what that points to.
Blank(type, pointer) ==
  [type |-> type, int |-> 0, str |-> << >>, members |-> [f \in {} |-> 0],
   pointer |-> pointer]

KindOf(ty) ==
  CASE ty.k = "int" -> "number" [] ty.k = "str" -> "string"
    [] ty.k = "array" -> "array" [] ty.k = "struct" -> "struct"
    [] ty.k = "pointer" -> "pointer" [] OTHER -> "undefined"

\* NewObject of a member strips one pointer off its type.
Stripped(ty) == IF ty.k = "pointer" THEN ty.base ELSE ty

Shifted(layout, by) ==
  LET At(ref) == IF ref = 0 THEN 0 ELSE ref + by IN
  [k \in DOMAIN layout |->
    [layout[k] EXCEPT !.pointer = At(@), !.members = [f \in DOMAIN @ |-> At(@[f])]]]

RECURSIVE Layout(_), WithMembers(_, _)
WithMembers(layout, fields) ==   \* NewStruct: one member after the other
  IF fields = << >> THEN layout
  ELSE LET at == Len(layout) + 1
           f == Head(fields) IN
       WithMembers([layout EXCEPT ![2].members = (f.name :> at) @@ @]
                     \o Shifted(Layout(Stripped(f.type)), Len(layout)),
                   Tail(fields))
Layout(ty) ==
  LET layout == <<Blank("pointer", 2), Blank(KindOf(ty), 0)>> IN
  IF ty.k = "struct" THEN WithMembers(layout, ty.fields) ELSE layout

-------------------------------------------------------------------------------
\* RunOn(ast, mod): the state before the tree is visited.
Start ==
  [code |-> << << >> >>, home |-> <<1>>, current |-> 1, function |-> 1,
   functions |-> <<[name |-> "init", extern |-> FALSE, entry |-> 1]>>,
   module |-> [n \in {} |-> 0], symbols |-> [n \in {} |-> Nothing],
   users |-> << >>, crashed |-> FALSE]

R(s, value) == [s |-> s, value |-> value]
Crash(s) == R([s EXCEPT !.crashed = TRUE], Nothing)

\* AddUser for each of the operands of a new instruction, which has no users.
\* (A sequence concatenated is one that TLC has computed.)
AddUsers(users, operands) ==
  LET new == Len(users) + 1
      uses(v) == {k \in DOMAIN operands : operands[k] = InstructionValue(v)} IN
  Append([v \in DOMAIN users |-> users[v] \o [k \in 1..Cardinality(uses(v)) |-> new]],
         << >>)

\* IRBuilder::add after a constructor of an instruction.
Emit(s, op, operands, aux) ==
  LET id == Len(s.users) + 1 IN
  R([s EXCEPT !.users = AddUsers(@, operands),
              !.code[s.current] = Append(@, [op |-> op, id |-> id,
                                             operands |-> operands, aux |-> aux])],
    InstructionValue(id))

\* SymbolTable::PutSymbol at depth 0, where CodeGenerator always is.
PutSymbol(s, name, value) ==
  IF name \in DOMAIN s.symbols THEN s
  ELSE [s EXCEPT !.symbols = (name :> value) @@ @]

\* A new BasicBlock of the current function; SetBasicBlock.
NewBlock(s) == [s EXCEPT !.code = Append(@, << >>), !.home = Append(@, s.function)]
At(s, block) == [s EXCEPT !.current = block]

Opcode ==
  [plus |-> "add", minus |-> "sub", times |-> "mul", over |-> "div", rest |-> "mod",
   less |-> "lt", greater |-> "gt", equal |-> "eq", unequal |-> "neq",
   bitand |-> "and", bitor |-> "or", right |-> "shr", left |-> "shl",
   zeroright |-> "szr", atleast |-> "gt", atmost |-> "lt"]

GenIdentifier(e, s, address) ==
  IF e.name \notin DOMAIN s.symbols THEN Crash(s)
  ELSE IF address THEN R(s, s.symbols[e.name])
  ELSE Emit(s, "load", <<s.symbols[e.name]>>, 0)

RECURSIVE Gen(_, _, _), GenEach(_, _, _)

\* The values of a list of trees, from left to right, up to a crash.
GenEach(es, s, address) ==
  IF es = << >> \/ s.crashed THEN R(s, << >>)
  ELSE LET first == Gen(Head(es), s, address)
           rest == GenEach(Tail(es), first.s, address) IN
       R(rest.s, <<first.value>> \o rest.value)

\* An empty argument list is a null pointer.
GenFunctionInvoke(member, arguments, s) ==
  IF arguments = << >> \/ member.kind = "null" THEN Crash(s)
  ELSE LET as == GenEach(arguments, s, FALSE) IN
       Emit(as.s, "invoke", as.value,
            IF member.kind = "function" THEN member.id ELSE 0)

GenMemberExpression(e, s, address) ==
  LET m == Gen(e.expr, s, TRUE) IN
  CASE e.kind = "call" -> GenFunctionInvoke(m.value, e.arguments, m.s)
    [] e.kind = "dot" ->
         LET addr == Emit(m.s, "gea", <<m.value>>, e.name) IN
         IF address THEN addr ELSE Emit(addr.s, "load", <<addr.value>>, 0)
    [] e.kind = "index" ->
         LET i == Gen(e.index, m.s, address) IN
         Emit(i.s, "idx", <<m.value, i.value>>, 0)

\* The operand is generated twice, once for its value and once for its address.
GenUpdate(e, s) ==
  LET value == Gen(e.expr, s, FALSE)
      addr == Gen(e.expr, value.s, TRUE)
      update == Emit(addr.s, IF e.op = "increment" THEN "add" ELSE "sub",
                     <<value.value, Number(1)>>, 0)
      store == Emit(update.s, "store", <<addr.value, update.value>>, 0) IN
  [s |-> store.s, value |-> value.value, addr |-> addr.value,
   before |-> addr.s, update |-> update.value]

\* The other prefix operators fail an assertion.
GenPrefixExpression(e, s) ==
  LET u == GenUpdate(e, s) IN
  CASE e.op = "addr" -> R(u.before, u.addr)
    [] e.op = "deref" -> Emit(u.before, "load", <<u.value>>, 0)
    [] e.op \in {"increment", "decrement"} -> R(u.s, u.update)
    [] OTHER -> Crash(u.before)

GenPostfixExpression(e, s) == LET u == GenUpdate(e, s) IN R(u.s, u.value)

GenBinaryExpression(e, s) ==
  LET lhs == Gen(e.lhs, s, FALSE)
      rhs == Gen(e.rhs, lhs.s, FALSE) IN
  IF e.op \in DOMAIN Opcode
    THEN Emit(rhs.s, Opcode[e.op], <<lhs.value, rhs.value>>, 0)
    ELSE R(rhs.s, Nothing)

GenAssignExpression(e, s, address) ==
  LET value == Gen(e.rhs, s, FALSE)
      addr == Gen(e.lhs, value.s, TRUE)
      store == Emit(addr.s, "store", <<addr.value, value.value>>, 0) IN
  IF address THEN R(store.s, Nothing)
  ELSE Emit(store.s, "load", <<addr.value>>, 0)

GenDeclaration(e, s) ==
  LET alloc == Emit(s, "alloc", << >>, Layout(e.type))
      known == PutSymbol(alloc.s, e.name, alloc.value)
      init == Gen(e.init, known, FALSE) IN
  IF e.init = None THEN R(known, alloc.value)
  ELSE R(Emit(init.s, "store", <<alloc.value, init.value>>, 0).s, alloc.value)

RECURSIVE GenParams(_, _, _)
GenParams(params, s, i) ==
  IF params = << >> THEN s
  ELSE GenParams(Tail(params), PutSymbol(s, Head(params), Param(i)), i + 1)

\* The builder's function and block are put back after the body.
GenFunctionStatement(e, s, address) ==
  LET new == Len(s.functions) + 1
      known == PutSymbol(s, e.name, FunctionValue(new))
      entry == Len(s.code) + 1
      function == [name |-> e.name, extern |-> e.extern,
                   entry |-> IF e.extern THEN 0 ELSE entry]
      added == [known EXCEPT !.functions = Append(@, function),
                             !.module = (e.name :> new) @@ @]
      inside == At(NewBlock([added EXCEPT !.function = new]), entry)
      body == Gen(e.body, GenParams(e.params, inside, 0), address) IN
  IF e.extern THEN R(added, FunctionValue(new))
  ELSE R([body.s EXCEPT !.function = s.function, !.current = s.current],
         FunctionValue(new))

\* condition: brk to the body or jmp to the end; the body and the update go back.
GenForStatement(e, s, address) ==
  LET init == Gen(e.init, s, address)
      condition == Len(init.s.code) + 1
      body == condition + 1
      end == condition + 2
      blocks == NewBlock(NewBlock(NewBlock(init.s)))
      entered == Emit(blocks, "jmp", << >>, condition).s
      done == Gen(e.body, At(entered, body), address)
      update == Gen(e.update, done.s, address)
      back == Emit(update.s, "jmp", << >>, condition).s
      cond == Gen(e.condition, At(back, condition), address)
      test == Emit(cond.s, "brk", <<cond.value>>, body).s IN
  R(At(Emit(test, "jmp", << >>, end).s, end), Nothing)

GenIfStatement_FallThrough(e, s, address) ==  \* mutant: the body runs into the else
  LET body == Len(s.code) + 1
      els == body + 1
      after == body + 2
      cond == Gen(e.condition, NewBlock(NewBlock(NewBlock(s))), address)
      test == Emit(cond.s, "brk", <<cond.value>>, body).s
      skip == Emit(test, "jmp", << >>, IF e.els = None THEN after ELSE els).s
      then == Gen(e.body, At(skip, body), address)
      joined == Emit(then.s, "jmp", << >>, IF e.els = None THEN after ELSE els).s
      other == Gen(e.els, At(joined, els), address) IN
  R(At(IF e.els = None THEN joined ELSE Emit(other.s, "jmp", << >>, after).s, after),
    Nothing)
GenIfStatement(e, s, address) ==
  LET body == Len(s.code) + 1
      els == body + 1
      after == body + 2
      cond == Gen(e.condition, NewBlock(NewBlock(NewBlock(s))), address)
      test == Emit(cond.s, "brk", <<cond.value>>, body).s
      skip == Emit(test, "jmp", << >>, IF e.els = None THEN after ELSE els).s
      then == Gen(e.body, At(skip, body), address)
      joined == Emit(then.s, "jmp", << >>, after).s
      other == Gen(e.els, At(joined, els), address) IN
  R(At(IF e.els = None THEN joined ELSE Emit(other.s, "jmp", << >>, after).s, after),
    Nothing)

GenReturnStatement(e, s, address) ==
  LET value == Gen(e.expr, s, address) IN Emit(value.s, "ret", <<value.value>>, 0)

\* The lists of a block and of let: every element, for its effect.
GenList(es, s, address) == R(GenEach(es, s, address).s, Nothing)

\* RunOn(ast): the visitor.  A null tree is a null pointer, a tree of another
\* type an exception.
Gen(e, s, address) ==
  CASE e.t = "null" -> R(s, Nothing)
    [] e.t = "int" -> R(s, Number(e.value))
    [] e.t = "str" -> R(s, Text(e.text))
    [] e.t = "id" -> GenIdentifier(e, s, address)
    [] e.t = "member" -> GenMemberExpression(e, s, address)
    [] e.t = "prefix" -> GenPrefixExpression(e, s)
    [] e.t = "postfix" -> GenPostfixExpression(e, s)
    [] e.t = "binary" -> GenBinaryExpression(e, s)
    [] e.t = "assign" -> GenAssignExpression(e, s, address)
    [] e.t = "let" -> GenDeclaration(e, s)
    [] e.t \in {"lets", "block"} -> GenList(e.list, s, address)
    [] e.t = "function" -> GenFunctionStatement(e, s, address)
    [] e.t = "return" -> GenReturnStatement(e, s, address)
    [] e.t = "for" -> GenForStatement(e, s, address)
    [] e.t = "if" -> GenIfStatement(e, s, address)
    [] OTHER -> Crash(s)

\* CodeGenerator::RunOn on a whole program.  The name init is given to the code
\* outside all functions in the end.  address is what the uninitialised
\* member address_ happens to hold.
Compile(tree, address) ==
  LET s == Gen(tree, Start, address).s IN
  [code |-> s.code, home |-> s.home, functions |-> s.functions,
   module |-> ("init" :> 1) @@ s.module, users |-> s.users, crashed |-> s.crashed]
===============================================================================
