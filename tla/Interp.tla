-------------------------------- MODULE Interp --------------------------------
(***************************************************************************)
(* src/jast/ir/interp.cc: the interpreter of the intermediate code, one    *)
(* action per instruction it executes.                                     *)
(*                                                                         *)
(* The registers of the machine are the members of InterpreterImpl.  There *)
(* is one value per instruction of the program (valueMap_), not one per    *)
(* execution of it, and one set of registers, which Execute(Invoke) copies *)
(* into its own C++ frame, runs Loop() on the callee, and copies back.     *)
(* frames is the stack of those C++ frames.                                *)
(*                                                                         *)
(* An Object is a position of heap and a Ref<Object> such a position or    *)
(* Null.  Objects are shared: Load, arguments and results hand out the     *)
(* object itself.  Refs keep every object that is reachable alive, so      *)
(* nothing is freed here.  Arr is left out: no code ever fills it.         *)
(***************************************************************************)
EXTENDS IR, FiniteSets

CONSTANTS
  Programs,    \* a sequence of programs, see IR
  Natives,     \* names that NativeFunctionResolver knows
  MaxObjects   \* bound on Len(heap), so on the length of a run

VARIABLES
  program,    \* the Module that runs, one of Programs
  heap,       \* the Objects, in order of creation
  valueMap,   \* valueMap_ : instruction -> Ref<Object>
  current,    \* current_ : the block
  next,       \* next_ : position in the block of the next instruction
  args,       \* args_
  isReturn,   \* isReturn_
  retResult,  \* retResult_
  frames,     \* what the active calls of Execute(Invoke) saved, innermost last
  out,        \* what the native print was given
  status,     \* "running", "halted", "failed" (assert), "undefined" (C++ UB)
  history     \* auxiliary: see below

registers == <<current, next, args, isReturn, retResult>>
vars == <<program, heap, valueMap, registers, frames, out, status, history>>

(***************************************************************************)
(* The auxiliary variable history records, and never decides, which        *)
(* activation (call of a function) did what: act is the one that runs,     *)
(* born how many there were, actuals what act was called with, writer the  *)
(* activation that last wrote an instruction's value, returned the ones    *)
(* that have executed a ret and returner the last of them.                 *)
(***************************************************************************)
Null == 0

Object(type, int, str) ==
  [type |-> type, int |-> int, str |-> str, members |-> [f \in {} |-> Null],
   pointer |-> Null]

ASSUME ProgramsOK ==
  LET programs == Programs IN \A p \in DOMAIN programs : WellFormed(programs[p])

Code == program.code[current]
AtEnd == next > Len(Code)
Instruction == Code[next]
FunctionOf(block) == program.home[block]

-------------------------------------------------------------------------------
\* Operands: a constant, a parameter, the value of an instruction, or nullptr
\* where the code generator had nothing to give.
IsConstant(o) == o.kind = "const"
ConstantObject(o) == Object(o.type, o.int, o.str)

\* valueMap_[v]: only instructions ever put an object there.
ValueOf(o) ==
  IF o.kind = "value" /\ o.id \in DOMAIN valueMap THEN valueMap[o.id] ELSE Null

\* What ConstantOrValue finds, for an operand that IsKnown.
IsKnown(o) == IsConstant(o) \/ ValueOf(o) # Null
Content(o) == IF IsConstant(o) THEN ConstantObject(o) ELSE heap[ValueOf(o)]

\* The Objects that ConstantOrValue makes for the constants of os, and the
\* Ref<Object> it gives for the k-th of os.
Rank(os, k) == Cardinality({j \in 1..k : IsConstant(os[j])})
Constants(os) ==
  LET Place(n) == CHOOSE k \in 1..Len(os) : IsConstant(os[k]) /\ Rank(os, k) = n IN
  [n \in 1..Rank(os, Len(os)) |-> ConstantObject(os[Place(n)])]
Reference(os, k) ==
  IF IsConstant(os[k]) THEN Len(heap) + Rank(os, k) ELSE ValueOf(os[k])

\* >> of a signed number, in two halves: 2^r alone is soon too large for TLC.
ShiftedRight(l, r) == (l \div 2^(r \div 2)) \div 2^(r - r \div 2)

\* C++ division truncates.
Quotient(l, r) ==
  LET Abs(n) == IF n < 0 THEN -n ELSE n
      q == Abs(l) \div Abs(r) IN IF (l < 0) = (r < 0) THEN q ELSE -q
Truth(b) == IF b THEN 1 ELSE 0

Shifts == {"shl", "shr", "szr"}
Arithmetic == {"sub", "mul", "div", "mod", "lt", "gt", "eq", "neq", "and", "or"}
                \cup Shifts
Binary == Arithmetic \cup {"add"}

Compute(op, l, r) ==
  CASE op = "sub" -> l - r
    [] op = "mul" -> l * r
    [] op = "div" -> Quotient(l, r)
    [] op = "mod" -> l - r * Quotient(l, r)
    [] op = "lt" -> Truth(l < r)
    [] op = "gt" -> Truth(l > r)
    [] op = "eq" -> Truth(l = r)
    [] op = "neq" -> Truth(l # r)
    [] op = "and" -> Truth(l # 0 /\ r # 0)
    [] op = "or" -> Truth(l # 0 \/ r # 0)
    [] op = "shl" -> l * 2^r
    [] op \in {"shr", "szr"} -> ShiftedRight(l, r)

BinaryResult(op, l, r) ==
  IF op # "add" THEN Object("number", Compute(op, l.int, r.int), << >>)
  ELSE IF l.type = "string" THEN Object("string", 0, l.str \o r.str)
  ELSE Object("number", l.int + r.int, << >>)

-------------------------------------------------------------------------------
\* The first thing that goes wrong in executing i: an assert fails, a null
\* pointer or something else without a defined meaning is used, or nothing.
FaultOfLoad(o) ==
  IF o.kind = "param" THEN IF o.id < Len(args) THEN "none" ELSE "undefined"
  ELSE IF ValueOf(o) = Null THEN "undefined"
  ELSE IF heap[ValueOf(o)].type # "pointer" THEN "failed" ELSE "none"

FaultOfStore(location, target) ==
  IF ~IsKnown(target) /\ target.kind = "null" THEN "undefined"
  ELSE IF ValueOf(location) = Null THEN "undefined"
  ELSE IF heap[ValueOf(location)].type # "pointer" THEN "failed"
  ELSE IF heap[ValueOf(location)].pointer = Null THEN "failed"
  ELSE IF ~IsKnown(target) THEN "undefined" ELSE "none"

FaultOfAdd(first, second) ==
  IF ~IsKnown(first) THEN "undefined"
  ELSE IF Content(first).type \notin {"number", "string"} THEN "failed"
  ELSE IF ~IsKnown(second) THEN "undefined"
  ELSE IF Content(first).type # Content(second).type THEN "failed" ELSE "none"

FaultOfArithmetic(op, first, second) ==
  IF ~IsKnown(first) \/ ~IsKnown(second) THEN "undefined"
  ELSE IF Content(first).type # "number" /\ Content(second).type # "number" THEN "failed"
  ELSE IF op \in {"div", "mod"} /\ Content(second).int = 0 THEN "undefined"
  ELSE IF op \in Shifts /\ Content(second).int \notin 0..63 THEN "undefined"
  ELSE "none"

FaultOfBrk(condition) ==
  IF ~IsKnown(condition) THEN "undefined"
  ELSE IF Content(condition).type # "number" THEN "failed" ELSE "none"

FaultOfGea(base) ==
  IF ValueOf(base) = Null THEN "undefined"
  ELSE IF heap[ValueOf(base)].type # "pointer" THEN "failed"
  ELSE LET target == heap[ValueOf(base)].pointer IN
    IF target = Null THEN "undefined"
    ELSE IF heap[target].type # "struct" THEN "failed" ELSE "none"

\* Arr is empty, so an index that passes the checks is out of its bounds.
FaultOfIdx(base, index) ==
  IF ValueOf(base) = Null THEN "undefined"
  ELSE IF heap[ValueOf(base)].type # "pointer" THEN "failed"
  ELSE IF ValueOf(index) = Null THEN "undefined"
  ELSE IF heap[ValueOf(index)].type # "number" THEN "failed" ELSE "undefined"

FaultOfInvoke(i) ==
  IF \/ i.aux = NoFunction
     \/ \E k \in DOMAIN i.operands : i.operands[k].kind = "null"
     \/ program.functions[i.aux].extern
        /\ program.functions[i.aux].name \notin Natives
  THEN "undefined" ELSE "none"

Fault(i) ==
  CASE i.op = "load" -> FaultOfLoad(i.operands[1])
    [] i.op = "store" -> FaultOfStore(i.operands[1], i.operands[2])
    [] i.op = "add" -> FaultOfAdd(i.operands[1], i.operands[2])
    [] i.op \in Arithmetic -> FaultOfArithmetic(i.op, i.operands[1], i.operands[2])
    [] i.op = "brk" -> FaultOfBrk(i.operands[1])
    [] i.op = "gea" -> FaultOfGea(i.operands[1])
    [] i.op = "idx" -> FaultOfIdx(i.operands[1], i.operands[2])
    [] i.op = "ret" -> IF i.operands[1].kind = "null" THEN "undefined" ELSE "none"
    [] i.op = "invoke" -> FaultOfInvoke(i)
    [] i.op \in {"alloc", "jmp"} -> "none"

-------------------------------------------------------------------------------
\* Static initialisation and Execute(Module): the entry block of init.  isReturn_
\* is not initialised.
Init ==
  /\ \E p \in DOMAIN Programs : program = Programs[p]
  /\ heap = << >>
  /\ valueMap = [i \in {} |-> Null]
  /\ current = program.functions[1].entry
  /\ next = 1
  /\ args = << >>
  /\ isReturn \in BOOLEAN
  /\ retResult = Null
  /\ frames = << >>
  /\ out = << >>
  /\ status = "running"
  /\ history = [act |-> 0, born |-> 0, actuals |-> << >>, returned |-> {},
                returner |-> 0, writer |-> [i \in {} |-> 0]]

\* Tick: the next instruction is a sound one of the operation op.
Executes(op) ==
  /\ status = "running" /\ Len(heap) < MaxObjects
  /\ ~AtEnd
  /\ Instruction.op = op
  /\ Fault(Instruction) = "none"

SetValue(ref) ==
  /\ valueMap' = [i \in DOMAIN valueMap \cup {Instruction.id} |->
                    IF i = Instruction.id THEN ref ELSE valueMap[i]]
  /\ history' = [history EXCEPT !.writer =
                   [i \in DOMAIN @ \cup {Instruction.id} |->
                     IF i = Instruction.id THEN history.act ELSE @[i]]]

Advance ==
  /\ next' = next + 1
  /\ UNCHANGED <<program, current, args, isReturn, retResult, frames, out, status>>

\* The address that an Object of a layout has once it is on the heap.
Moved(layout) ==
  LET At(ref) == IF ref = Null THEN Null ELSE ref + Len(heap) IN
  [k \in DOMAIN layout |->
    [layout[k] EXCEPT !.pointer = At(@),
                      !.members = [f \in DOMAIN @ |-> At(@[f])]]]

Alloc ==
  /\ Executes("alloc")
  /\ heap' = heap \o Moved(Instruction.aux)
  /\ SetValue(Len(heap) + 1)
  /\ Advance

Load ==
  LET o == Instruction.operands[1] IN
  /\ Executes("load")
  /\ SetValue(IF o.kind = "param" THEN args[o.id + 1] ELSE heap[ValueOf(o)].pointer)
  /\ UNCHANGED heap
  /\ Advance

Store_Aliases ==  \* mutant: the location points at the value from now on
  LET o == Instruction.operands[2]
      objects == heap \o Constants(<<o>>) IN
  /\ Executes("store")
  /\ heap' = [objects EXCEPT ![ValueOf(Instruction.operands[1])].pointer =
                                Reference(<<o>>, 1)]
  /\ UNCHANGED <<valueMap, history>>
  /\ Advance

\* CopyTo keeps the type of the object at the location.
Store ==
  LET place == heap[ValueOf(Instruction.operands[1])].pointer
      from == Content(Instruction.operands[2]) IN
  /\ Executes("store")
  /\ heap' = [heap EXCEPT ![place].int = from.int, ![place].str = from.str,
                          ![place].members = from.members]
  /\ UNCHANGED <<valueMap, history>>
  /\ Advance

BinaryOp(op) ==
  /\ Executes(op)
  /\ heap' = Append(heap, BinaryResult(op, Content(Instruction.operands[1]),
                                           Content(Instruction.operands[2])))
  /\ SetValue(Len(heap) + 1)
  /\ Advance

\* Asking a map for a member that it does not have adds the member.
Gea ==
  LET place == heap[ValueOf(Instruction.operands[1])].pointer
      old == heap[place].members
      members == [f \in DOMAIN old \cup {Instruction.aux} |->
                   IF f \in DOMAIN old THEN old[f] ELSE Null] IN
  /\ Executes("gea")
  /\ heap' = [heap EXCEPT ![place].members = members]
  /\ SetValue(members[Instruction.aux])
  /\ Advance

Jump_KeepsPlace(taken, block) ==  \* mutant: next_ stays on in the new block
  /\ current' = IF taken THEN block ELSE current
  /\ next' = next + 1
  /\ UNCHANGED <<program, heap, valueMap, args, isReturn, retResult, frames, out, status,
                 history>>
\* PerformJump, for the jumps that are taken.
Jump(taken, block) ==
  /\ current' = IF taken THEN block ELSE current
  /\ next' = IF taken THEN 1 ELSE next + 1
  /\ UNCHANGED <<program, heap, valueMap, args, isReturn, retResult, frames, out, status,
                 history>>

Brk ==
  /\ Executes("brk")
  /\ Jump(Content(Instruction.operands[1]).int # 0, Instruction.aux)

Jmp == Executes("jmp") /\ Jump(TRUE, Instruction.aux)

\* Ret only records the result: execution goes on after it.
Ret ==
  /\ Executes("ret")
  /\ heap' = heap \o Constants(Instruction.operands)
  /\ isReturn' = TRUE
  /\ retResult' = Reference(Instruction.operands, 1)
  /\ next' = next + 1
  /\ history' = [history EXCEPT !.returner = history.act,
                               !.returned = @ \cup {history.act}]
  /\ UNCHANGED <<program, valueMap, current, args, frames, out, status>>

Actuals ==
  [k \in DOMAIN Instruction.operands |-> Reference(Instruction.operands, k)]

\* What print writes for an Object, to the depth a property can tell apart.
Shown(objects, ref) ==
  IF ref = Null THEN <<"nullptr">>
  ELSE IF objects[ref].type = "number" THEN <<"number", objects[ref].int>>
  ELSE IF objects[ref].type = "string" THEN <<"string", objects[ref].str>>
  ELSE <<objects[ref].type>>

\* Execute(Invoke) of an extern function: args_ stays what the call was given.
InvokeNative ==
  LET objects == heap \o Constants(Instruction.operands) IN
  /\ Executes("invoke")
  /\ program.functions[Instruction.aux].extern
  /\ heap' = objects
  /\ args' = Actuals
  /\ out' = IF Actuals = << >> THEN out
            ELSE Append(out, [k \in DOMAIN Actuals |-> Shown(objects, Actuals[k])])
  /\ SetValue(Null)
  /\ next' = next + 1
  /\ UNCHANGED <<program, current, isReturn, retResult, frames, status>>

\* What Execute(Invoke) saves; Tick has already moved next_ on.
Frame(n) ==
  [next |-> n, current |-> current, isReturn |-> isReturn, args |-> args,
   id |-> Instruction.id, act |-> history.act, actuals |-> history.actuals]
Saved_Again == Frame(next)       \* mutant: back to the invoke itself
Saved_PastIt == Frame(next + 2)  \* mutant: moves on once more
Saved == Frame(next + 1)

Enter_KeepsFlag(function) ==  \* mutant: isReturn_ is not reset
  /\ args' = Actuals /\ isReturn' = isReturn
  /\ current' = function.entry /\ next' = 1
Enter(function) ==
  /\ args' = Actuals /\ isReturn' = FALSE
  /\ current' = function.entry /\ next' = 1

\* Execute(Invoke) up to Loop().
Invoke ==
  /\ Executes("invoke")
  /\ ~program.functions[Instruction.aux].extern
  /\ frames' = Append(frames, Saved)
  /\ heap' = heap \o Constants(Instruction.operands)
  /\ Enter(program.functions[Instruction.aux])
  /\ history' = [history EXCEPT !.act = history.born + 1, !.born = @ + 1,
                               !.actuals = Actuals]
  /\ UNCHANGED <<program, valueMap, retResult, out, status>>

Resume_LeavesFlag(f) ==  \* mutant: isReturn_ is not put back
  next' = f.next /\ current' = f.current /\ isReturn' = isReturn /\ args' = f.args
Resume_LeavesArguments(f) ==  \* mutant: args_ is not put back
  next' = f.next /\ current' = f.current /\ isReturn' = f.isReturn /\ args' = args
Resume(f) ==
  next' = f.next /\ current' = f.current /\ isReturn' = f.isReturn /\ args' = f.args

\* The callee's Loop() has ended: the rest of Execute(Invoke).
Return ==
  LET f == frames[Len(frames)]
      result == IF isReturn THEN retResult ELSE Null IN
  /\ status = "running" /\ AtEnd /\ frames # << >>
  /\ Resume(f)
  /\ valueMap' = [i \in DOMAIN valueMap \cup {f.id} |->
                    IF i = f.id THEN result ELSE valueMap[i]]
  /\ frames' = SubSeq(frames, 1, Len(frames) - 1)
  /\ history' = [history EXCEPT !.act = f.act, !.actuals = f.actuals,
                   !.writer = [i \in DOMAIN @ \cup {f.id} |->
                                IF i = f.id THEN f.act ELSE @[i]]]
  /\ UNCHANGED <<program, heap, retResult, out, status>>

Halt ==
  /\ status = "running" /\ AtEnd /\ frames = << >>
  /\ status' = "halted"
  /\ UNCHANGED <<program, heap, valueMap, registers, frames, out, history>>

Abort ==
  /\ status = "running" /\ ~AtEnd /\ Fault(Instruction) # "none"
  /\ status' = Fault(Instruction)
  /\ UNCHANGED <<program, heap, valueMap, registers, frames, out, history>>

Next ==
  \/ Alloc \/ Load \/ Store \/ Gea \/ Brk \/ Jmp \/ Ret
  \/ \E op \in Binary : BinaryOp(op)
  \/ InvokeNative \/ Invoke \/ Return \/ Halt \/ Abort

Spec == Init /\ [][Next]_vars

\* Loop() runs until the code ends; nothing can hold it up.
FairSpec == Spec /\ WF_vars(Next)

-------------------------------------------------------------------------------
\* Types of the registers; every Ref points at an existing object or nowhere.
Refs == 0..Len(heap)

TypeOK ==
  /\ \A r \in 1..Len(heap) :
       /\ heap[r].type \in Types /\ heap[r].int \in Int
       /\ heap[r].pointer \in Refs
       /\ \A f \in DOMAIN heap[r].members : heap[r].members[f] \in Refs
  /\ \A i \in DOMAIN valueMap : valueMap[i] \in Refs
  /\ current \in DOMAIN program.code /\ next \in 1..(Len(Code) + 1)
  /\ \A k \in 1..Len(args) : args[k] \in Refs
  /\ isReturn \in BOOLEAN /\ retResult \in Refs
  /\ \A k \in 1..Len(frames) :
       /\ frames[k].current \in DOMAIN program.code
       /\ frames[k].next \in 2..(Len(program.code[frames[k].current]) + 1)
       /\ \A j \in 1..Len(frames[k].args) : frames[k].args[j] \in Refs
  /\ status \in {"running", "halted", "failed", "undefined"}

\* The active calls, outermost first: which activation, of which function.
Depth == Len(frames) + 1
ActivationAt(k) == IF k = Depth THEN history.act ELSE frames[k].act
FunctionAt(k) == FunctionOf(IF k = Depth THEN current ELSE frames[k].current)

\* An instruction only reads values that the latest active call of the function
\* they belong to has computed: never one left over from a call that ended.
Owner(id) ==
  FunctionOf(CHOOSE b \in DOMAIN program.code :
               \E j \in DOMAIN program.code[b] : program.code[b][j].id = id)

OperandsAreCurrent ==
  status = "running" /\ ~AtEnd =>
    \A j \in DOMAIN Instruction.operands :
      LET o == Instruction.operands[j] IN
      o.kind = "value" =>
        \E k \in 1..Depth :
          /\ FunctionAt(k) = Owner(o.id)
          /\ \A l \in (k + 1)..Depth : FunctionAt(l) # Owner(o.id)
          /\ o.id \in DOMAIN history.writer
          /\ history.writer[o.id] = ActivationAt(k)

\* The result a function is about to hand back is one that it returned itself,
\* not one of a function it called (there is one retResult_ for all).
ResultIsOwn == isReturn /\ frames # << >> => history.returner = history.act

\* Whatever a program does, isReturn_ and its saved copies tell whether the call
\* they belong to has returned: a call leaves its caller's as it was.
ReturnFlagAt(k) == IF k = Depth THEN isReturn ELSE frames[k].isReturn
ReturnFlagIsOwn ==
  \A k \in 2..Depth : ReturnFlagAt(k) <=> ActivationAt(k) \in history.returned

\* The variables of a program never share their storage: no store redirects the
\* pointer that an alloc gave.
IsAlloc(id) ==
  \E b \in DOMAIN program.code : \E j \in DOMAIN program.code[b] :
    program.code[b][j].id = id /\ program.code[b][j].op = "alloc"
VariablesAreApart ==
  \A i, j \in DOMAIN valueMap :
    i # j /\ IsAlloc(i) /\ IsAlloc(j) =>
      heap[valueMap[i]].pointer # heap[valueMap[j]].pointer

\* A parameter that is read is the argument of the running call.  The comment
\* "save the iterators" (interp.cc:298) introduces the copies, args_S among
\* them, that Execute(Invoke) makes for this.
ParametersAreOwn ==
  (status = "running" /\ ~AtEnd) =>
    (Instruction.op = "load" /\ Instruction.operands[1].kind = "param"
       => args = history.actuals)

-------------------------------------------------------------------------------
\* Forms of programs for which values, results and parameters stay apart although
\* all calls share them.
CallsOwn(p, i) == i.op = "invoke" /\ i.aux # NoFunction /\ ~p.functions[i.aux].extern

\* No function that reads its parameters calls an extern one.
NoNativeBesideParameters(p) ==
  \A b, c \in DOMAIN p.code : p.home[b] = p.home[c] =>
    \A j \in DOMAIN p.code[b], l \in DOMAIN p.code[c] :
      LET i == p.code[b][j] IN
      i.op = "load" /\ i.operands[1].kind = "param" /\ p.code[c][l].op = "invoke"
        => p.code[c][l].aux = NoFunction \/ CallsOwn(p, p.code[c][l])

\* Behind a ret, up to the end of the function, no function is called: S are the
\* blocks that jumps may lead to from there.
Quiet(p, S, b, from) ==
  \A l \in DOMAIN p.code[b] : l >= from =>
    /\ ~CallsOwn(p, p.code[b][l])
    /\ p.code[b][l].op \in {"brk", "jmp"} => p.code[b][l].aux \in S
ReturnsLast(p, S) ==
  /\ \A b \in DOMAIN p.code \cap S : Quiet(p, S, b, 1)
  /\ \A b \in DOMAIN p.code : \A j \in DOMAIN p.code[b] :
       p.code[b][j].op = "ret" => Quiet(p, S, b, j + 1)

\* No function calls itself, directly or not: levels rise along calls.  What an
\* instruction reads has been computed on every way to it: known are the values that
\* are there when a block is entered.
Computes == {"load", "alloc", "gea", "invoke"} \cup Binary
Known(p, known, b, at) ==
  known[b] \cup {p.code[b][l].id : l \in {l \in DOMAIN p.code[b] :
                                          l < at /\ p.code[b][l].op \in Computes}}
LevelsRise(p, level) ==
  /\ \A f \in DOMAIN p.functions : level[f] \in Nat
  /\ \A b \in DOMAIN p.code : \A j \in DOMAIN p.code[b] :
       CallsOwn(p, p.code[b][j]) => level[p.home[b]] < level[p.code[b][j].aux]
ComputesFirst(p, known) ==
  /\ known[p.functions[1].entry] = {}
  /\ \A b \in DOMAIN p.code : \A j \in DOMAIN p.code[b] :
       LET i == p.code[b][j]
           there == Known(p, known, b, j) IN
       /\ \A k \in DOMAIN i.operands :
            i.operands[k].kind = "value" => i.operands[k].id \in there
       /\ i.op \in {"brk", "jmp"} => known[i.aux] \subseteq there
       /\ CallsOwn(p, i) => known[p.functions[i.aux].entry] \subseteq there

-------------------------------------------------------------------------------
\* No assert of the interpreter fails and nothing undefined is used.
NoFault == status \notin {"failed", "undefined"}

\* The run comes to an end.
Halts == <>(status = "halted")
===============================================================================
