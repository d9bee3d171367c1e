------------------------------- MODULE InterpProofs ----------------------------
(***************************************************************************)
(* Proofs about Interp for every program, bound and set of native names:   *)
(* control never leaves the code, and the return flag and its saved copies *)
(* belong to their calls.  So do, for the forms of programs that Interp    *)
(* names, parameters, results and values, of which all calls share one set.*)
(***************************************************************************)
EXTENDS Interp, SequenceTheorems, TLAPS

\* Where control is, and where the active calls go back to.
ControlOK ==
  /\ WellFormed(program)
  /\ current \in DOMAIN program.code
  /\ next \in 1..(Len(Code) + 1)
  /\ isReturn \in BOOLEAN
  /\ IsSequence(frames)
  /\ \A k \in 1..Len(frames) :
       /\ frames[k].current \in DOMAIN program.code
       /\ frames[k].next \in 2..(Len(program.code[frames[k].current]) + 1)
       /\ frames[k].isReturn \in BOOLEAN

\* Activations are numbered in the order of their calls, so the active ones
\* differ, and none that returned is still to be born.
ActivationsInOrder ==
  /\ DOMAIN history = {"act", "born", "actuals", "returned", "returner", "writer"}
  /\ history.born \in Nat
  /\ history.returned \subseteq 0..history.born
  /\ \A k \in 1..Depth : ActivationAt(k) \in 0..history.born
  /\ \A j, k \in 1..Depth : j < k => ActivationAt(j) < ActivationAt(k)

IInv == ControlOK /\ ActivationsInOrder /\ ReturnFlagIsOwn

-------------------------------------------------------------------------------
\* What the proofs need of a sequence, after a push and after a pop.
LEMMA SequenceFacts ==
  ASSUME NEW s, IsSequence(s)
  PROVE  Len(s) \in Nat /\ DOMAIN s = 1..Len(s)
  BY DEF IsSequence

LEMMA FunctionIsSequence ==
  ASSUME NEW m \in Nat, NEW t, DOMAIN t = 1..m, t = [k \in 1..m |-> t[k]]
  PROVE  IsSequence(t) /\ Len(t) = m
<1> DEFINE T == {t[k] : k \in DOMAIN t}
<1>1. t \in [1..m -> T]
  OBVIOUS
<1> HIDE DEF T
<1>2. t \in Seq(T) /\ Len(t) = m
  BY <1>1
<1> QED
  BY <1>2 DEF IsSequence, T

LEMMA Push ==
  ASSUME NEW s, IsSequence(s), NEW e
  PROVE  /\ IsSequence(Append(s, e))
         /\ Len(s) \in Nat /\ Len(Append(s, e)) = Len(s) + 1
         /\ \A k \in 1..Len(s) : Append(s, e)[k] = s[k]
         /\ Append(s, e)[Len(s) + 1] = e
<1> DEFINE S == {s[k] : k \in DOMAIN s} \cup {e}
           t == Append(s, e)
<1>1. s \in Seq(S)
  BY DEF IsSequence
<1>2. /\ t \in Seq(S) /\ Len(t) = Len(s) + 1 /\ Len(s) \in Nat
      /\ \A k \in 1..Len(s) : t[k] = s[k]
      /\ t[Len(s) + 1] = e
  BY <1>1, AppendProperties
<1> HIDE DEF S, t
<1>3. DOMAIN t = 1..Len(t) /\ t = [k \in 1..Len(t) |-> t[k]] /\ Len(t) \in Nat
  BY <1>2
<1>4. IsSequence(t)
  BY <1>3, FunctionIsSequence
<1> QED
  BY <1>2, <1>4 DEF t

LEMMA Pop ==
  ASSUME NEW s, IsSequence(s), s # << >>
  PROVE  LET t == SubSeq(s, 1, Len(s) - 1) IN
         /\ IsSequence(t)
         /\ Len(s) \in Nat \ {0} /\ Len(t) = Len(s) - 1
         /\ \A k \in 1..(Len(s) - 1) : t[k] = s[k]
<1> DEFINE t == SubSeq(s, 1, Len(s) - 1)
<1>1. Len(s) \in Nat \ {0} /\ DOMAIN s = 1..Len(s)
  BY DEF IsSequence
<1>2. t = [k \in 1..(Len(s) - 1) |-> s[k]] /\ Len(t) = Len(s) - 1
  BY <1>1 DEF IsSequence
<1>3. IsSequence(t)
  <2>1. DOMAIN t = 1..(Len(s) - 1) /\ t = [k \in 1..(Len(s) - 1) |-> t[k]]
        /\ Len(s) - 1 \in Nat
    BY <1>1, <1>2
  <2> HIDE DEF t
  <2> QED
    BY <2>1, FunctionIsSequence
<1> QED
  BY <1>1, <1>2, <1>3

-------------------------------------------------------------------------------
LEMMA InitIInv == Init => IInv
<1> SUFFICES ASSUME Init PROVE IInv
  OBVIOUS
<1>1. WellFormed(program)
  BY ProgramsOK DEF Init
<1>2. current \in DOMAIN program.code /\ next = 1 /\ isReturn \in BOOLEAN
  BY <1>1 DEF Init, WellFormed
<1>3. Len(Code) \in Nat
  BY <1>1, <1>2, SequenceFacts DEF WellFormed, Code
<1>4. frames = << >> /\ IsSequence(frames) /\ Len(frames) = 0
  BY DEF Init, IsSequence
<1>5. ControlOK
  BY <1>1, <1>2, <1>3, <1>4 DEF ControlOK
<1>6. history = [act |-> 0, born |-> 0, actuals |-> << >>, returned |-> {},
                 returner |-> 0, writer |-> [i \in {} |-> 0]]
  BY DEF Init
<1>7. ActivationsInOrder /\ ReturnFlagIsOwn
  BY <1>4, <1>6 DEF ActivationsInOrder, ReturnFlagIsOwn, Depth, ActivationAt
<1> QED
  BY <1>5, <1>7 DEF IInv

\* Steps that stay in the running call and neither return nor look at its flag.
LEMMA StayingPreservesIInv ==
  ASSUME IInv, UNCHANGED <<program, frames, isReturn>>,
         current' \in DOMAIN program.code,
         next' \in 1..(Len(program.code[current']) + 1),
         DOMAIN history' = DOMAIN history, history'.act = history.act,
         history'.born = history.born, history'.returned = history.returned
  PROVE  IInv'
<1>1. ControlOK'
  BY DEF IInv, ControlOK, Code
<1>2. Depth' = Depth /\ \A k : ActivationAt(k)' = ActivationAt(k)
  BY DEF Depth, ActivationAt
<1>3. ActivationsInOrder'
  BY <1>2 DEF IInv, ActivationsInOrder
<1>4. \A k : ReturnFlagAt(k)' = ReturnFlagAt(k)
  BY <1>2 DEF ReturnFlagAt
<1>5. ReturnFlagIsOwn'
  BY <1>2, <1>4 DEF IInv, ReturnFlagIsOwn
<1> QED
  BY <1>1, <1>3, <1>5 DEF IInv

\* While there is an instruction, the place behind it is in the code too.
LEMMA NextPlace ==
  ASSUME IInv, ~AtEnd
  PROVE  /\ next \in DOMAIN Code /\ next \in Nat \ {0} /\ Len(Code) \in Nat
         /\ next + 1 \in 2..(Len(Code) + 1)
<1>1. IsSequence(Code)
  BY DEF IInv, ControlOK, WellFormed, Code
<1>2. Len(Code) \in Nat /\ DOMAIN Code = 1..Len(Code)
  BY <1>1, SequenceFacts
<1>3. next \in 1..(Len(Code) + 1) /\ ~(next > Len(Code))
  BY DEF IInv, ControlOK, AtEnd
<1> QED
  BY <1>2, <1>3

\* Setting the value of an instruction records only who wrote it.
LEMMA SetValueKeepsHistory ==
  ASSUME IInv, NEW ref, SetValue(ref)
  PROVE  /\ DOMAIN history' = DOMAIN history /\ history'.act = history.act
         /\ history'.born = history.born /\ history'.returned = history.returned
  BY DEF SetValue, IInv, ActivationsInOrder

LEMMA AdvancingPreservesIInv ==
  ASSUME IInv, ~AtEnd, Advance,
         \/ UNCHANGED history
         \/ \E ref : SetValue(ref)
  PROVE  IInv'
<1>1. /\ UNCHANGED <<program, frames, isReturn, current>> /\ next' = next + 1
  BY DEF Advance
<1>2. /\ DOMAIN history' = DOMAIN history /\ history'.act = history.act
      /\ history'.born = history.born /\ history'.returned = history.returned
  BY SetValueKeepsHistory
<1>3. current' \in DOMAIN program.code /\ Len(Code) \in Nat
      /\ next' \in 1..(Len(program.code[current']) + 1)
  BY <1>1, NextPlace DEF IInv, ControlOK, Code
<1> QED
  BY <1>1, <1>2, <1>3, StayingPreservesIInv

\* A jump leads to the start of a block of the same function.
LEMMA JumpingPreservesIInv ==
  ASSUME IInv, ~AtEnd, Instruction.op \in {"brk", "jmp"}, NEW taken \in BOOLEAN,
         Jump(taken, Instruction.aux)
  PROVE  IInv'
<1>1. UNCHANGED <<program, frames, isReturn, history>>
  BY DEF Jump
<1>2. Instruction.aux \in DOMAIN program.code
  BY NextPlace DEF IInv, ControlOK, WellFormed, Code, Instruction
<1>3. Len(program.code[Instruction.aux]) \in Nat
  BY <1>2, SequenceFacts DEF IInv, ControlOK, WellFormed
<1>4. CASE taken
  <2>1. current' = Instruction.aux /\ next' = 1
    BY <1>4 DEF Jump
  <2> QED
    BY <1>1, <1>2, <1>3, <2>1, StayingPreservesIInv
<1>5. CASE ~taken
  <2>1. current' = current /\ next' = next + 1
    BY <1>5 DEF Jump
  <2> QED
    BY <1>1, <2>1, NextPlace, StayingPreservesIInv DEF IInv, ControlOK, Code
<1> QED
  BY <1>4, <1>5

-------------------------------------------------------------------------------
\* A ret sets the flag of the running call and of no other.
LEMMA RetPreservesIInv ==
  ASSUME IInv, Ret
  PROVE  IInv'
<1>1. /\ UNCHANGED <<program, frames, current>> /\ isReturn' = TRUE /\ next' = next + 1
      /\ ~AtEnd
  BY DEF Ret, Executes
<1>2. /\ DOMAIN history' = DOMAIN history /\ history'.act = history.act
      /\ history'.born = history.born
      /\ history'.returned = history.returned \cup {history.act}
  BY DEF Ret, IInv, ActivationsInOrder
<1>3. ControlOK'
  BY <1>1, NextPlace DEF IInv, ControlOK, Code
<1>4. Depth' = Depth /\ Depth \in Nat \ {0} /\ \A k : ActivationAt(k)' = ActivationAt(k)
  BY <1>1, <1>2, SequenceFacts DEF Depth, ActivationAt, IInv, ControlOK
<1>5. history.act = ActivationAt(Depth) /\ history.act \in 0..history.born
  BY <1>4 DEF IInv, ActivationsInOrder, ActivationAt
<1>6. ActivationsInOrder'
  BY <1>2, <1>4, <1>5 DEF IInv, ActivationsInOrder
<1>7. ASSUME NEW k \in 2..Depth
      PROVE  ReturnFlagAt(k)' <=> ActivationAt(k) \in history'.returned
  <2>1. CASE k = Depth
    BY <1>1, <1>2, <1>4, <1>5, <2>1 DEF ReturnFlagAt
  <2>2. CASE k # Depth
    <3>1. ReturnFlagAt(k)' = ReturnFlagAt(k)
      BY <1>1, <1>4, <2>2 DEF ReturnFlagAt
    <3>2. k < Depth /\ k \in 1..Depth /\ Depth \in 1..Depth
      BY <1>4, <2>2
    <3>3. ActivationAt(k) < ActivationAt(Depth) /\ ActivationAt(k) \in 0..history.born
      BY <3>2 DEF IInv, ActivationsInOrder
    <3>4. ActivationAt(k) # history.act
      BY <1>5, <3>3 DEF IInv, ActivationsInOrder
    <3> QED
      BY <1>2, <3>1, <3>4 DEF IInv, ReturnFlagIsOwn
  <2> QED
    BY <2>1, <2>2
<1>8. ReturnFlagIsOwn'
  BY <1>4, <1>7 DEF ReturnFlagIsOwn
<1> QED
  BY <1>3, <1>6, <1>8 DEF IInv

\* A call of a function of the program starts a new activation, which has not
\* returned, and keeps the caller's flag in its frame.
LEMMA InvokePreservesIInv ==
  ASSUME IInv, Invoke
  PROVE  IInv'
<1> DEFINE f == program.functions[Instruction.aux]
<1>1. /\ ~AtEnd /\ Instruction.op = "invoke" /\ Fault(Instruction) = "none" /\ ~f.extern
      /\ UNCHANGED program /\ isReturn' = FALSE /\ current' = f.entry /\ next' = 1
  BY DEF Invoke, Executes, Enter
<1>2. Instruction.aux \in DOMAIN program.functions
  <2>1. Instruction.aux \in DOMAIN program.functions \cup {NoFunction}
    BY <1>1, NextPlace DEF IInv, ControlOK, WellFormed, Code, Instruction
  <2>2. Fault(Instruction) = FaultOfInvoke(Instruction)
    BY <1>1 DEF Fault, Arithmetic, Shifts
  <2>3. Instruction.aux # NoFunction
    BY <1>1, <2>2 DEF FaultOfInvoke
  <2> QED
    BY <2>1, <2>3
<1>3. f.entry \in DOMAIN program.code /\ Len(program.code[f.entry]) \in Nat
  BY <1>1, <1>2, SequenceFacts DEF IInv, ControlOK, WellFormed
<1>4. /\ IsSequence(frames') /\ Len(frames) \in Nat /\ Len(frames') = Len(frames) + 1
      /\ \A k \in 1..Len(frames) : frames'[k] = frames[k]
      /\ frames'[Len(frames) + 1] = Saved
  BY Push DEF Invoke, IInv, ControlOK
<1>5. /\ Saved.current = current /\ Saved.next = next + 1
      /\ Saved.isReturn = isReturn /\ Saved.act = history.act
  BY DEF Saved, Frame
<1>6. ControlOK'
  <2>1. ASSUME NEW k \in 1..Len(frames')
        PROVE  /\ frames'[k].current \in DOMAIN program.code
               /\ frames'[k].next \in 2..(Len(program.code[frames'[k].current]) + 1)
               /\ frames'[k].isReturn \in BOOLEAN
    <3>1. CASE k \in 1..Len(frames)
      BY <1>4, <3>1 DEF IInv, ControlOK
    <3>2. CASE k = Len(frames) + 1
      BY <1>1, <1>4, <1>5, <3>2, NextPlace DEF IInv, ControlOK, Code
    <3> QED
      BY <1>4, <3>1, <3>2
  <2>2. WellFormed(program')
    BY <1>1 DEF IInv, ControlOK
  <2>3. program' = program /\ isReturn' \in BOOLEAN
    BY <1>1
  <2>4. current' = f.entry /\ next' = 1
    BY <1>1
  <2> HIDE DEF f
  <2>5. current' \in DOMAIN program.code /\ next' \in 1..(Len(program.code[current']) + 1)
    BY <1>3, <2>4
  <2> QED
    BY <1>4, <2>1, <2>2, <2>3, <2>5 DEF ControlOK, Code
<1>7. /\ Depth = Len(frames) + 1 /\ Depth' = Depth + 1 /\ Depth \in Nat \ {0}
      /\ history.born \in Nat /\ DOMAIN history' = DOMAIN history
      /\ history'.act = history.born + 1 /\ history'.born = history.born + 1
      /\ history'.returned = history.returned
  BY <1>4 DEF Depth, Invoke, IInv, ActivationsInOrder
<1>8. \A k \in 1..Depth : ActivationAt(k)' = ActivationAt(k)
  BY <1>4, <1>5, <1>7 DEF ActivationAt
<1>9. \A k : k = Depth' => ActivationAt(k)' = history.born + 1
  BY <1>7 DEF ActivationAt
<1>10. ActivationsInOrder'
  <2>1. ASSUME NEW k \in 1..Depth'
        PROVE  ActivationAt(k)' \in 0..history'.born
               /\ (k # Depth' => ActivationAt(k)' < history.born + 1)
    BY <1>7, <1>8, <1>9 DEF IInv, ActivationsInOrder
  <2>2. ASSUME NEW j \in 1..Depth', NEW k \in 1..Depth', j < k
        PROVE  ActivationAt(j)' < ActivationAt(k)'
    <3>1. CASE k = Depth'
      BY <1>9, <2>1, <2>2, <3>1
    <3>2. CASE k # Depth'
      <4>1. j \in 1..Depth /\ k \in 1..Depth
        BY <1>7, <2>2, <3>2
      <4> QED
        BY <1>8, <2>2, <4>1 DEF IInv, ActivationsInOrder
    <3> QED
      BY <3>1, <3>2
  <2>3. history'.returned \subseteq 0..history'.born /\ history'.born \in Nat
    BY <1>7 DEF IInv, ActivationsInOrder
  <2> QED
    BY <1>7, <2>1, <2>2, <2>3 DEF IInv, ActivationsInOrder
<1>11. ReturnFlagIsOwn'
  <2>1. ASSUME NEW k \in 2..Depth'
        PROVE  ReturnFlagAt(k)' <=> ActivationAt(k)' \in history'.returned
    <3>1. CASE k = Depth'
      <4>1. ~ReturnFlagAt(k)'
        BY <1>1, <3>1 DEF ReturnFlagAt
      <4>2. history.born + 1 \notin history.returned
        BY <1>7 DEF IInv, ActivationsInOrder
      <4> QED
        BY <1>7, <1>9, <3>1, <4>1, <4>2
    <3>2. CASE k # Depth'
      <4>1. k \in 1..Depth /\ k \in 2..Depth
        BY <1>7, <3>2
      <4>2. ReturnFlagAt(k)' = ReturnFlagAt(k)
        BY <1>4, <1>5, <1>7, <4>1 DEF ReturnFlagAt
      <4> QED
        BY <1>7, <1>8, <4>1, <4>2 DEF IInv, ReturnFlagIsOwn
    <3> QED
      BY <3>1, <3>2
  <2> QED
    BY <2>1 DEF ReturnFlagIsOwn
<1> QED
  BY <1>6, <1>10, <1>11 DEF IInv

\* The end of a call gives its caller back the flag that was the caller's.
LEMMA ReturnPreservesIInv ==
  ASSUME IInv, Return
  PROVE  IInv'
<1> DEFINE f == frames[Len(frames)]
<1>1. /\ frames # << >> /\ frames' = SubSeq(frames, 1, Len(frames) - 1)
      /\ UNCHANGED program
      /\ next' = f.next /\ current' = f.current /\ isReturn' = f.isReturn
  BY DEF Return, Resume
<1>2. /\ IsSequence(frames') /\ Len(frames) \in Nat \ {0} /\ Len(frames') = Len(frames) - 1
      /\ \A k \in 1..(Len(frames) - 1) : frames'[k] = frames[k]
  BY <1>1, Pop DEF IInv, ControlOK
<1>3. ControlOK'
  <2>1. Len(frames) \in 1..Len(frames)
    BY <1>2
  <2>2. /\ f.current \in DOMAIN program.code /\ f.isReturn \in BOOLEAN
        /\ f.next \in 1..(Len(program.code[f.current]) + 1)
    BY <2>1 DEF IInv, ControlOK
  <2> QED
    BY <1>1, <1>2, <2>2 DEF IInv, ControlOK, Code
<1>4. /\ DOMAIN history' = DOMAIN history /\ history'.act = f.act
      /\ history'.born = history.born /\ history'.returned = history.returned
  BY DEF Return, IInv, ActivationsInOrder
<1>5. Depth = Len(frames) + 1 /\ Depth' = Len(frames) /\ Depth \in Nat /\ Depth' \in Nat
  BY <1>2 DEF Depth
<1>6. \A k \in 1..Depth' : /\ ActivationAt(k)' = ActivationAt(k)
                           /\ ReturnFlagAt(k)' = ReturnFlagAt(k)
  <2>1. ASSUME NEW k \in 1..Depth'
        PROVE  ActivationAt(k)' = frames[k].act /\ ReturnFlagAt(k)' = frames[k].isReturn
    BY <1>1, <1>2, <1>4, <1>5 DEF ActivationAt, ReturnFlagAt
  <2> QED
    BY <1>5, <2>1 DEF ActivationAt, ReturnFlagAt
<1>7. ActivationsInOrder'
  BY <1>4, <1>5, <1>6 DEF IInv, ActivationsInOrder
<1>8. ReturnFlagIsOwn'
  BY <1>4, <1>5, <1>6 DEF IInv, ReturnFlagIsOwn
<1> QED
  BY <1>3, <1>7, <1>8 DEF IInv

LEMMA StepPreservesIInv == IInv /\ [Next]_vars => IInv'
<1> SUFFICES ASSUME IInv, [Next]_vars PROVE IInv'
  OBVIOUS
<1>1. CASE Alloc
  BY <1>1, AdvancingPreservesIInv DEF Alloc, Executes
<1>2. CASE Load
  BY <1>2, AdvancingPreservesIInv DEF Load, Executes
<1>3. CASE Store
  BY <1>3, AdvancingPreservesIInv DEF Store, Executes
<1>4. CASE Gea
  BY <1>4, AdvancingPreservesIInv DEF Gea, Executes
<1>5. ASSUME NEW op \in Binary, BinaryOp(op) PROVE IInv'
  BY <1>5, AdvancingPreservesIInv DEF BinaryOp, Executes
<1>6. CASE Brk
  BY <1>6, JumpingPreservesIInv DEF Brk, Executes
<1>7. CASE Jmp
  BY <1>7, JumpingPreservesIInv DEF Jmp, Executes
<1>8. CASE Ret
  BY <1>8, RetPreservesIInv
<1>9. CASE InvokeNative
  <2>1. ~AtEnd /\ UNCHANGED <<program, frames, isReturn, current>> /\ next' = next + 1
        /\ \E ref : SetValue(ref)
    BY <1>9 DEF InvokeNative, Executes
  <2>2. current' \in DOMAIN program.code /\ next' \in 1..(Len(program.code[current']) + 1)
    BY <2>1, NextPlace DEF IInv, ControlOK, Code
  <2> QED
    BY <2>1, <2>2, SetValueKeepsHistory, StayingPreservesIInv
<1>10. CASE Invoke
  BY <1>10, InvokePreservesIInv
<1>11. CASE Return
  BY <1>11, ReturnPreservesIInv
<1>12. CASE Halt \/ Abort \/ UNCHANGED vars
  <2>1. UNCHANGED <<program, frames, isReturn, current, next, history>>
    BY <1>12 DEF Halt, Abort, vars, registers
  <2> QED
    BY <2>1, StayingPreservesIInv DEF IInv, ControlOK, Code
<1> QED
  BY <1>1, <1>2, <1>3, <1>4, <1>5, <1>6, <1>7, <1>8, <1>9, <1>10, <1>11, <1>12 DEF Next

THEOREM InterpInvariant == Spec => []IInv
  BY InitIInv, StepPreservesIInv, PTL DEF Spec

\* For every program: a call's return flag, the running one's and the saved ones,
\* says whether that very call has executed a ret, whatever it called since.
THEOREM ReturnFlagBelongsToCall == Spec => []ReturnFlagIsOwn
<1>1. IInv => ReturnFlagIsOwn
  BY DEF IInv
<1> QED
  BY <1>1, InterpInvariant, PTL

\* For every well formed program, control stays inside its blocks, and every
\* return goes back behind an instruction that exists.
THEOREM ControlStaysInCode == Spec => []ControlOK
<1>1. IInv => ControlOK
  BY DEF IInv
<1> QED
  BY <1>1, InterpInvariant, PTL

-------------------------------------------------------------------------------
\* What the steps are as far as calls are concerned.
Advances ==
  /\ ~AtEnd /\ Instruction.op \notin {"brk", "jmp", "ret"} /\ ~CallsOwn(program, Instruction)
  /\ next' = next + 1 /\ UNCHANGED <<program, current, isReturn, frames>>
  /\ \/ args' = args
     \/ Instruction.op = "invoke" /\ Instruction.aux # NoFunction
  /\ \/ Instruction.op \in Computes /\ \E ref : SetValue(ref)
     \/ Instruction.op \notin Computes /\ UNCHANGED history
Jumps ==
  /\ ~AtEnd /\ Instruction.op \in {"brk", "jmp"}
  /\ UNCHANGED <<program, args, isReturn, frames, history>>
  /\ \/ current' = current /\ next' = next + 1
     \/ current' = Instruction.aux /\ next' = 1
Rests == UNCHANGED <<program, current, next, args, isReturn, frames, history>>

LEMMA FunctionIsNamed ==
  ASSUME IInv, Executes("invoke")
  PROVE  /\ ~AtEnd /\ Instruction.op = "invoke" /\ Instruction.aux # NoFunction
         /\ Instruction.aux \in DOMAIN program.functions
<1>1. ~AtEnd /\ Instruction.op = "invoke" /\ Fault(Instruction) = "none"
  BY DEF Executes
<1>2. Instruction.aux \in DOMAIN program.functions \cup {NoFunction}
  BY <1>1, NextPlace DEF IInv, ControlOK, WellFormed, Code, Instruction
<1>3. Fault(Instruction) = FaultOfInvoke(Instruction)
  BY <1>1 DEF Fault, Arithmetic, Shifts
<1>4. Instruction.aux # NoFunction
  BY <1>1, <1>3 DEF FaultOfInvoke
<1> QED
  BY <1>1, <1>2, <1>4

LEMMA StepKinds == IInv /\ [Next]_vars => Advances \/ Jumps \/ Ret \/ Invoke \/ Return \/ Rests
<1> SUFFICES ASSUME IInv, [Next]_vars
             PROVE  Advances \/ Jumps \/ Ret \/ Invoke \/ Return \/ Rests
  OBVIOUS
<1>1. CASE Alloc \/ Load \/ Gea
  <2>1. Instruction.op \in {"alloc", "load", "gea"} /\ ~AtEnd /\ Advance
        /\ \E ref : SetValue(ref)
    BY <1>1 DEF Alloc, Load, Gea, Executes
  <2> QED
    BY <2>1 DEF Advances, Advance, Computes, CallsOwn
<1>2. CASE Store
  <2>1. Instruction.op = "store" /\ ~AtEnd /\ Advance /\ UNCHANGED history
    BY <1>2 DEF Store, Executes
  <2> QED
    BY <2>1 DEF Advances, Advance, Computes, CallsOwn, Binary, Arithmetic, Shifts
<1>3. ASSUME NEW op \in Binary, BinaryOp(op)
      PROVE  Advances
  <2>1. Instruction.op = op /\ ~AtEnd /\ Advance /\ \E ref : SetValue(ref)
    BY <1>3 DEF BinaryOp, Executes
  <2>2. op \notin {"brk", "jmp", "ret", "invoke"} /\ op \in Computes
    BY DEF Computes, Binary, Arithmetic, Shifts
  <2> QED
    BY <2>1, <2>2 DEF Advances, Advance, CallsOwn
<1>4. CASE InvokeNative
  <2>1. /\ Executes("invoke") /\ program.functions[Instruction.aux].extern
        /\ \E ref : SetValue(ref)
        /\ next' = next + 1 /\ UNCHANGED <<program, current, isReturn, frames>>
    BY <1>4 DEF InvokeNative
  <2>2. ~AtEnd /\ Instruction.op = "invoke" /\ Instruction.aux # NoFunction
    BY <2>1, FunctionIsNamed
  <2> QED
    BY <2>1, <2>2 DEF Advances, Computes, CallsOwn
<1>5. CASE Brk \/ Jmp
  BY <1>5 DEF Brk, Jmp, Jump, Jumps, Executes
<1>6. CASE Halt \/ Abort \/ UNCHANGED vars
  BY <1>6 DEF Halt, Abort, Rests, vars, registers
<1> QED
  BY <1>1, <1>2, <1>3, <1>4, <1>5, <1>6 DEF Next

\* The instruction that runs, and where its jump leads.
LEMMA CurrentInstruction ==
  ASSUME IInv, ~AtEnd
  PROVE  /\ current \in DOMAIN program.code /\ next \in DOMAIN program.code[current]
         /\ Instruction = program.code[current][next]
         /\ Instruction.op \in {"brk", "jmp"} =>
              /\ Instruction.aux \in DOMAIN program.code
              /\ program.home[Instruction.aux] = program.home[current]
  BY NextPlace DEF IInv, ControlOK, WellFormed, Instruction, Code

\* Function and activation of each active call, before and after a step.
LEMMA CallsStay ==
  ASSUME IInv, Advances \/ Jumps \/ Ret \/ Rests
  PROVE  /\ Depth' = Depth /\ UNCHANGED <<program, frames>>
         /\ FunctionOf(current)' = FunctionOf(current)
         /\ \A k : FunctionAt(k)' = FunctionAt(k) /\ ActivationAt(k)' = ActivationAt(k)
         /\ history'.act = history.act /\ history'.actuals = history.actuals
<1>1. UNCHANGED <<program, frames>>
  BY DEF Advances, Jumps, Ret, Rests
<1>2. FunctionOf(current)' = FunctionOf(current)
  <2>1. CASE Advances \/ Ret \/ Rests
    BY <1>1, <2>1 DEF Advances, Ret, Rests, FunctionOf
  <2>2. CASE Jumps
    BY <1>1, <2>2, CurrentInstruction DEF Jumps, FunctionOf
  <2> QED
    BY <2>1, <2>2
<1>3. history'.act = history.act /\ history'.actuals = history.actuals
  <2>1. CASE Advances
    BY <2>1 DEF Advances, SetValue, IInv, ActivationsInOrder
  <2>2. CASE Jumps \/ Rests
    BY <2>2 DEF Jumps, Rests
  <2>3. CASE Ret
    BY <2>3 DEF Ret, IInv, ActivationsInOrder
  <2> QED
    BY <2>1, <2>2, <2>3
<1> QED
  BY <1>1, <1>2, <1>3 DEF Depth, FunctionAt, ActivationAt, FunctionOf

LEMMA CallBegins ==
  ASSUME IInv, Invoke
  PROVE  /\ Depth \in Nat \ {0} /\ Depth' = Depth + 1 /\ UNCHANGED program
         /\ CallsOwn(program, Instruction) /\ ~AtEnd
         /\ current' = program.functions[Instruction.aux].entry /\ next' = 1
         /\ FunctionOf(current') = Instruction.aux
         /\ \A k \in 1..Depth : FunctionAt(k)' = FunctionAt(k)
                                /\ ActivationAt(k)' = ActivationAt(k)
         /\ FunctionAt(Depth)' = Instruction.aux
         /\ \A k \in 1..(Depth - 1) : frames'[k] = frames[k]
         /\ frames'[Depth] = Saved
<1>1. Executes("invoke") /\ ~program.functions[Instruction.aux].extern
      /\ frames' = Append(frames, Saved) /\ UNCHANGED program
      /\ current' = program.functions[Instruction.aux].entry /\ next' = 1
  BY DEF Invoke, Enter
<1>2. ~AtEnd /\ Instruction.op = "invoke" /\ Instruction.aux # NoFunction
      /\ Instruction.aux \in DOMAIN program.functions
  BY <1>1, FunctionIsNamed
<1>3. CallsOwn(program, Instruction)
  BY <1>1, <1>2 DEF CallsOwn
<1>4. program.home[current'] = Instruction.aux
  BY <1>1, <1>2 DEF IInv, ControlOK, WellFormed
<1>5. /\ Len(frames) \in Nat /\ Len(frames') = Len(frames) + 1
      /\ \A k \in 1..Len(frames) : frames'[k] = frames[k]
      /\ frames'[Len(frames) + 1] = Saved
  BY <1>1, Push DEF IInv, ControlOK
<1>6. Depth = Len(frames) + 1 /\ Depth' = Depth + 1 /\ Depth \in Nat \ {0}
  BY <1>5 DEF Depth
<1>7. Saved.current = current /\ Saved.act = history.act
  BY DEF Saved, Frame
<1>8. ASSUME NEW k \in 1..Depth
      PROVE  FunctionAt(k)' = FunctionAt(k) /\ ActivationAt(k)' = ActivationAt(k)
  BY <1>1, <1>5, <1>6, <1>7 DEF FunctionAt, ActivationAt, FunctionOf
<1>9. FunctionAt(Depth)' = Instruction.aux
  BY <1>1, <1>4, <1>6 DEF FunctionAt, FunctionOf
<1> QED
  BY <1>1, <1>2, <1>3, <1>4, <1>5, <1>6, <1>8, <1>9 DEF FunctionOf

LEMMA CallEnds ==
  ASSUME IInv, Return
  PROVE  /\ Len(frames) \in Nat \ {0} /\ Depth = Len(frames) + 1 /\ Depth' = Len(frames)
         /\ UNCHANGED program
         /\ \A k \in 1..Depth' : FunctionAt(k)' = FunctionAt(k)
                                 /\ ActivationAt(k)' = ActivationAt(k)
         /\ \A k \in 1..(Len(frames) - 1) : frames'[k] = frames[k]
         /\ history'.act = frames[Len(frames)].act
         /\ history'.actuals = frames[Len(frames)].actuals
<1> DEFINE f == frames[Len(frames)]
<1>1. /\ frames # << >> /\ frames' = SubSeq(frames, 1, Len(frames) - 1)
      /\ UNCHANGED program /\ current' = f.current
  BY DEF Return, Resume
<1>2. history'.act = f.act /\ history'.actuals = f.actuals
  BY DEF Return, IInv, ActivationsInOrder
<1>3. /\ Len(frames) \in Nat \ {0} /\ Len(frames') = Len(frames) - 1
      /\ \A k \in 1..(Len(frames) - 1) : frames'[k] = frames[k]
  BY <1>1, Pop DEF IInv, ControlOK
<1>4. Depth = Len(frames) + 1 /\ Depth' = Len(frames)
  BY <1>3 DEF Depth
<1>5. ASSUME NEW k \in 1..Depth'
      PROVE  FunctionAt(k)' = FunctionAt(k) /\ ActivationAt(k)' = ActivationAt(k)
  BY <1>1, <1>2, <1>3, <1>4 DEF FunctionAt, ActivationAt, FunctionOf
<1> QED
  BY <1>1, <1>2, <1>3, <1>4, <1>5

-------------------------------------------------------------------------------
\* Parameters: what each active call that reads some was given, and has in args_ or
\* saved of it.
ReadsParameters(f) ==
  \E b \in DOMAIN program.code : program.home[b] = f /\
    \E j \in DOMAIN program.code[b] :
      program.code[b][j].op = "load" /\ program.code[b][j].operands[1].kind = "param"
ArgumentsAt(k) == IF k = Depth THEN args ELSE frames[k].args
ActualsAt(k) == IF k = Depth THEN history.actuals ELSE frames[k].actuals
ArgumentsKept ==
  NoNativeBesideParameters(program) =>
    \A k \in 1..Depth : ReadsParameters(FunctionAt(k)) => ArgumentsAt(k) = ActualsAt(k)

LEMMA InitArguments == Init => ArgumentsKept
<1> SUFFICES ASSUME Init PROVE ArgumentsKept
  OBVIOUS
<1>1. frames = << >> /\ args = << >> /\ history.actuals = << >>
  BY DEF Init
<1>2. Depth = 1
  BY <1>1 DEF Depth
<1> QED
  BY <1>1, <1>2 DEF ArgumentsKept, ArgumentsAt, ActualsAt

LEMMA StepKeepsArguments == IInv /\ ArgumentsKept /\ [Next]_vars => ArgumentsKept'
<1> SUFFICES ASSUME IInv, ArgumentsKept, [Next]_vars, NoNativeBesideParameters(program)',
                    NEW k \in 1..Depth', ReadsParameters(FunctionAt(k))'
             PROVE  ArgumentsAt(k)' = ActualsAt(k)'
  BY DEF ArgumentsKept
<1>1. UNCHANGED program /\ NoNativeBesideParameters(program)
      /\ \A f : ReadsParameters(f)' = ReadsParameters(f)
  <2>1. UNCHANGED program
    BY StepKinds DEF Advances, Jumps, Ret, Invoke, Return, Rests
  <2> QED
    BY <2>1 DEF ReadsParameters
<1>2. CASE Advances \/ Jumps \/ Ret \/ Rests
  <2>1. /\ Depth' = Depth /\ UNCHANGED <<program, frames>>
        /\ FunctionAt(k)' = FunctionAt(k) /\ history'.actuals = history.actuals
    BY <1>2, CallsStay
  <2>2. ArgumentsAt(k) = ActualsAt(k)
    BY <1>1, <2>1 DEF ArgumentsKept
  <2>3. CASE k # Depth \/ args' = args
    BY <2>1, <2>2, <2>3 DEF ArgumentsAt, ActualsAt
  <2>4. CASE k = Depth /\ args' # args
    <3>1. ~AtEnd /\ Instruction.op = "invoke" /\ Instruction.aux # NoFunction
          /\ ~CallsOwn(program, Instruction)
      BY <1>2, <2>4 DEF Advances, Jumps, Ret, Rests
    <3>2. ReadsParameters(program.home[current])
      BY <1>1, <2>1, <2>4 DEF FunctionAt, FunctionOf
    <3>3. PICK b \in DOMAIN program.code : program.home[b] = program.home[current] /\
            \E j \in DOMAIN program.code[b] :
              program.code[b][j].op = "load" /\ program.code[b][j].operands[1].kind = "param"
      BY <3>2 DEF ReadsParameters
    <3> QED
      BY <1>1, <3>1, <3>3, CurrentInstruction DEF NoNativeBesideParameters
  <2> QED
    BY <2>3, <2>4
<1>3. CASE Invoke
  <2>1. /\ Depth \in Nat \ {0} /\ Depth' = Depth + 1
        /\ \A j \in 1..Depth : FunctionAt(j)' = FunctionAt(j)
        /\ \A j \in 1..(Depth - 1) : frames'[j] = frames[j]
        /\ frames'[Depth] = Saved
    BY <1>3, CallBegins
  <2>2. args' = Actuals /\ history'.actuals = Actuals
    BY <1>3 DEF Invoke, Enter, IInv, ActivationsInOrder
  <2>3. Saved.args = args /\ Saved.actuals = history.actuals
    BY DEF Saved, Frame
  <2>4. CASE k = Depth'
    BY <2>2, <2>4 DEF ArgumentsAt, ActualsAt
  <2>5. CASE k \in 1..Depth
    <3>1. ArgumentsAt(k) = ActualsAt(k)
      BY <1>1, <2>1, <2>5 DEF ArgumentsKept
    <3> QED
      BY <2>1, <2>3, <2>5, <3>1 DEF ArgumentsAt, ActualsAt
  <2> QED
    BY <2>1, <2>4, <2>5
<1>4. CASE Return
  <2>1. /\ Len(frames) \in Nat \ {0} /\ Depth = Len(frames) + 1 /\ Depth' = Len(frames)
        /\ FunctionAt(k)' = FunctionAt(k)
        /\ \A j \in 1..(Len(frames) - 1) : frames'[j] = frames[j]
        /\ history'.actuals = frames[Len(frames)].actuals
    BY <1>4, CallEnds
  <2>2. args' = frames[Len(frames)].args
    BY <1>4 DEF Return, Resume
  <2>3. ArgumentsAt(k) = ActualsAt(k) /\ k # Depth
    BY <1>1, <2>1 DEF ArgumentsKept
  <2> QED
    BY <2>1, <2>2, <2>3 DEF ArgumentsAt, ActualsAt
<1> QED
  BY <1>2, <1>3, <1>4, StepKinds

\* In a program none of whose functions both reads parameters and calls an extern
\* function, every parameter that is read is the argument of the running call, for
\* each call gets args_ back as it left them.
THEOREM ParametersBelongToCall ==
  Spec => [](NoNativeBesideParameters(program) => ParametersAreOwn)
<1>1. Init => IInv /\ ArgumentsKept
  BY InitIInv, InitArguments
<1>2. IInv /\ ArgumentsKept /\ [Next]_vars => (IInv /\ ArgumentsKept)'
  BY StepPreservesIInv, StepKeepsArguments
<1>3. IInv /\ ArgumentsKept => (NoNativeBesideParameters(program) => ParametersAreOwn)
  <2> SUFFICES ASSUME IInv, ArgumentsKept, NoNativeBesideParameters(program), ~AtEnd,
                      Instruction.op = "load", Instruction.operands[1].kind = "param"
               PROVE  args = history.actuals
    BY DEF ParametersAreOwn
  <2>1. Depth \in 1..Depth
    BY SequenceFacts DEF Depth, IInv, ControlOK
  <2>2. ReadsParameters(FunctionAt(Depth))
    BY CurrentInstruction DEF ReadsParameters, FunctionAt, FunctionOf
  <2> QED
    BY <2>1, <2>2 DEF ArgumentsKept, ArgumentsAt, ActualsAt
<1> QED
  BY <1>1, <1>2, <1>3, PTL DEF Spec

-------------------------------------------------------------------------------
\* Results: a call that has returned calls nothing any more, and no saved flag but that
\* of the outermost call is set.
ResultKept ==
  \A S : ReturnsLast(program, S) =>
    /\ isReturn /\ frames # << >> =>
         history.returner = history.act /\ Quiet(program, S, current, next)
    /\ \A k \in 2..Len(frames) : ~frames[k].isReturn

LEMMA QuietGoesOn ==
  ASSUME NEW p, NEW S, NEW b, NEW j \in Nat, Quiet(p, S, b, j),
         \A l \in DOMAIN p.code[b] : l \in Nat
  PROVE  Quiet(p, S, b, j + 1)
  BY DEF Quiet

LEMMA StepKeepsResult == IInv /\ ResultKept /\ [Next]_vars => ResultKept'
<1> SUFFICES ASSUME IInv, ResultKept, [Next]_vars, NEW S, ReturnsLast(program, S)'
             PROVE  /\ isReturn' /\ frames' # << >> =>
                         history'.returner = history'.act
                         /\ Quiet(program', S, current', next')
                    /\ \A k \in 2..Len(frames') : ~frames'[k].isReturn
  BY DEF ResultKept
<1>1. UNCHANGED program /\ ReturnsLast(program, S)
  <2>1. UNCHANGED program
    BY StepKinds DEF Advances, Jumps, Ret, Invoke, Return, Rests
  <2> QED
    BY <2>1
<1>2. /\ isReturn /\ frames # << >> =>
           history.returner = history.act /\ Quiet(program, S, current, next)
      /\ \A k \in 2..Len(frames) : ~frames[k].isReturn
  BY <1>1 DEF ResultKept
<1>3. ASSUME Quiet(program, S, current, next), ~AtEnd
      PROVE  Quiet(program, S, current, next + 1)
  <2>1. next \in Nat /\ \A l \in DOMAIN program.code[current] : l \in Nat
    BY <1>3, NextPlace, SequenceFacts DEF IInv, ControlOK, WellFormed, Code
  <2> QED
    BY <1>3, <2>1, QuietGoesOn
<1>4. CASE Advances \/ Rests
  <2>1. history'.returner = history.returner /\ history'.act = history.act
        /\ UNCHANGED <<current, isReturn, frames>>
    BY <1>4 DEF Advances, Rests, SetValue, IInv, ActivationsInOrder
  <2>2. Quiet(program, S, current, next) => Quiet(program, S, current, next')
    BY <1>3, <1>4 DEF Advances, Rests
  <2> QED
    BY <1>1, <1>2, <2>1, <2>2
<1>5. CASE Jumps
  <2>1. UNCHANGED <<isReturn, frames, history>> /\ ~AtEnd
    BY <1>5 DEF Jumps
  <2>2. ASSUME Quiet(program, S, current, next)
        PROVE  Quiet(program, S, current', next')
    <3>1. CASE current' = current /\ next' = next + 1
      BY <1>3, <2>1, <2>2, <3>1
    <3>2. CASE current' = Instruction.aux /\ next' = 1
      <4>1. Instruction.aux \in S /\ Instruction.aux \in DOMAIN program.code
        BY <1>5, <2>1, <2>2, CurrentInstruction, NextPlace DEF Jumps, Quiet
      <4> QED
        BY <1>1, <3>2, <4>1 DEF ReturnsLast
    <3> QED
      BY <1>5, <3>1, <3>2 DEF Jumps
  <2> QED
    BY <1>1, <1>2, <2>1, <2>2
<1>6. CASE Ret
  <2>1. /\ ~AtEnd /\ Instruction.op = "ret" /\ next' = next + 1
        /\ UNCHANGED <<current, frames>>
        /\ history'.returner = history.act /\ history'.act = history.act
    BY <1>6 DEF Ret, Executes, IInv, ActivationsInOrder
  <2>2. Quiet(program, S, current, next + 1)
    BY <1>1, <2>1, CurrentInstruction DEF ReturnsLast
  <2> QED
    BY <1>1, <1>2, <2>1, <2>2
<1>7. CASE Invoke
  <2>1. /\ Depth \in Nat \ {0} /\ Depth' = Depth + 1 /\ CallsOwn(program, Instruction)
        /\ ~AtEnd /\ \A j \in 1..(Depth - 1) : frames'[j] = frames[j]
        /\ frames'[Depth] = Saved
    BY <1>7, CallBegins
  <2>2. isReturn' = FALSE /\ Saved.isReturn = isReturn
    BY <1>7 DEF Invoke, Enter, Saved, Frame
  <2>3. ASSUME NEW k \in 2..Len(frames')
        PROVE  ~frames'[k].isReturn
    <3>1. Len(frames) \in Nat /\ Depth = Len(frames) + 1 /\ Len(frames') = Depth
      BY <1>7, Push DEF Invoke, Depth, IInv, ControlOK
    <3>2. CASE k \in 1..(Depth - 1)
      BY <1>2, <2>1, <3>1, <3>2
    <3>3. CASE k = Depth
      <4>1. frames # << >>
        BY <3>1, <3>3
      <4>2. ~isReturn
        <5> SUFFICES ASSUME isReturn PROVE FALSE
          OBVIOUS
        <5>1. Quiet(program, S, current, next)
          BY <1>2, <4>1
        <5>2. next \in DOMAIN program.code[current] /\ next >= next
              /\ CallsOwn(program, program.code[current][next])
          BY <2>1, CurrentInstruction, NextPlace
        <5> QED
          BY <5>1, <5>2 DEF Quiet
      <4> QED
        BY <2>1, <2>2, <3>3, <4>2
    <3> QED
      BY <3>1, <3>2, <3>3
  <2> QED
    BY <2>2, <2>3
<1>8. CASE Return
  <2>1. /\ Len(frames) \in Nat \ {0} /\ Depth' = Len(frames)
        /\ \A j \in 1..(Len(frames) - 1) : frames'[j] = frames[j]
    BY <1>8, CallEnds
  <2>2. isReturn' = frames[Len(frames)].isReturn /\ frames' = SubSeq(frames, 1, Len(frames) - 1)
        /\ frames # << >>
    BY <1>8 DEF Return, Resume
  <2>3. Len(frames') = Len(frames) - 1 /\ IsSequence(frames')
    BY <2>2, Pop DEF IInv, ControlOK
  <2>4. frames' # << >> => Len(frames) \in 2..Len(frames)
    <3>1. Len(frames') = 0 => frames' = << >>
      BY <2>3 DEF IsSequence
    <3> QED
      BY <2>1, <2>3, <3>1
  <2>5. frames' # << >> => ~isReturn'
    BY <1>2, <2>2, <2>4
  <2>6. \A k \in 2..Len(frames') : ~frames'[k].isReturn
    BY <1>2, <2>1, <2>3
  <2> QED
    BY <2>5, <2>6
<1> QED
  BY <1>4, <1>5, <1>6, <1>7, <1>8, StepKinds

\* In a program whose functions call nothing between a ret and their end, the result
\* that a call is about to hand back is the one of its own ret, although there is one
\* retResult_ for all calls.
THEOREM ResultsBelongToCall ==
  Spec => []((\E S : ReturnsLast(program, S)) => ResultIsOwn)
<1>1. Init => IInv /\ ResultKept
  <2>1. Init => frames = << >>
    BY DEF Init
  <2> QED
    BY <2>1, InitIInv DEF ResultKept
<1>2. IInv /\ ResultKept /\ [Next]_vars => (IInv /\ ResultKept)'
  BY StepPreservesIInv, StepKeepsResult
<1>3. ResultKept => ((\E S : ReturnsLast(program, S)) => ResultIsOwn)
  BY DEF ResultKept, ResultIsOwn
<1> QED
  BY <1>1, <1>2, <1>3, PTL DEF Spec

-------------------------------------------------------------------------------
\* Values: every active call waits at a call of a function, on rising levels, and the
\* values known there are those that the active calls of their functions wrote.
CallersOK ==
  /\ \A k \in 1..Depth : FunctionAt(k) \in DOMAIN program.functions
  /\ \A k \in 1..Len(frames) :
       LET i == program.code[frames[k].current][frames[k].next - 1] IN
       CallsOwn(program, i) /\ i.id = frames[k].id
  /\ \A level : LevelsRise(program, level) =>
       \A j, k \in 1..Depth : j < k => level[FunctionAt(j)] < level[FunctionAt(k)]

BlockAt(k) == IF k = Depth THEN current ELSE frames[k].current
PlaceAt(k) == IF k = Depth THEN next ELSE frames[k].next - 1
Present(id, k) ==
  \E l \in 1..k : /\ FunctionAt(l) = Owner(id)
                  /\ id \in DOMAIN history.writer /\ history.writer[id] = ActivationAt(l)
HasLevels == \E level : LevelsRise(program, level)
ValuesKept ==
  \A known : HasLevels /\ ComputesFirst(program, known) =>
    \A k \in 1..Depth : \A id \in Known(program, known, BlockAt(k), PlaceAt(k)) :
      Present(id, k)

LEMMA InitCalls == Init => CallersOK /\ ValuesKept
<1> SUFFICES ASSUME Init PROVE CallersOK /\ ValuesKept
  OBVIOUS
<1>1. IInv /\ frames = << >> /\ Len(frames) = 0 /\ Depth = 1 /\ next = 1
      /\ current = program.functions[1].entry
  BY InitIInv DEF Init, Depth
<1>2. FunctionAt(1) = 1 /\ 1 \in DOMAIN program.functions
  BY <1>1 DEF FunctionAt, FunctionOf, IInv, ControlOK, WellFormed
<1>3. CallersOK
  BY <1>1, <1>2 DEF CallersOK
<1>4. ASSUME NEW known, ComputesFirst(program, known), NEW k \in 1..Depth
      PROVE  Known(program, known, BlockAt(k), PlaceAt(k)) = {}
  <2>1. BlockAt(k) = current /\ PlaceAt(k) = 1 /\ known[current] = {}
    BY <1>1, <1>4 DEF BlockAt, PlaceAt, ComputesFirst
  <2>2. \A l \in DOMAIN program.code[current] : ~(l < 1)
    BY <1>1, SequenceFacts DEF IInv, ControlOK, WellFormed
  <2> QED
    BY <2>1, <2>2 DEF Known
<1>5. ValuesKept
  BY <1>4 DEF ValuesKept
<1> QED
  BY <1>3, <1>5

LEMMA StepKeepsCallers == IInv /\ CallersOK /\ [Next]_vars => CallersOK'
<1> SUFFICES ASSUME IInv, CallersOK, [Next]_vars PROVE CallersOK'
  OBVIOUS
<1>1. CASE Advances \/ Jumps \/ Ret \/ Rests
  BY <1>1, CallsStay DEF CallersOK
<1>2. CASE Invoke
  <2>1. /\ Depth \in Nat \ {0} /\ Depth' = Depth + 1 /\ UNCHANGED program
        /\ CallsOwn(program, Instruction) /\ ~AtEnd
        /\ \A k \in 1..Depth : FunctionAt(k)' = FunctionAt(k)
        /\ FunctionAt(Depth)' = Instruction.aux
        /\ \A k \in 1..(Depth - 1) : frames'[k] = frames[k]
        /\ frames'[Depth] = Saved
    BY <1>2, CallBegins
  <2>2. Instruction.aux \in DOMAIN program.functions
    BY <1>2, FunctionIsNamed DEF Invoke
  <2>3. Depth = Len(frames) + 1 /\ Len(frames') = Depth /\ Len(frames) \in Nat
    BY <1>2, Push DEF Invoke, Depth, IInv, ControlOK
  <2>4. /\ \A k : k = Depth' => FunctionAt(k)' = Instruction.aux
        /\ FunctionAt(Depth) = program.home[current]
    BY <2>1 DEF FunctionAt, FunctionOf
  <2>5. Saved.current = current /\ Saved.next = next + 1 /\ Saved.id = Instruction.id
        /\ next \in Nat
    BY <2>1, NextPlace DEF Saved, Frame
  <2>6. (\A k \in 1..Depth : FunctionAt(k) \in DOMAIN program.functions)'
    <3> SUFFICES ASSUME NEW k \in 1..Depth'
                 PROVE  FunctionAt(k)' \in DOMAIN program.functions
      BY <2>1
    <3>1. CASE k \in 1..Depth
      BY <2>1, <3>1 DEF CallersOK
    <3>2. CASE k = Depth'
      BY <2>2, <2>4, <3>2
    <3> QED
      BY <2>1, <3>1, <3>2
  <2>7. ASSUME NEW k \in 1..Len(frames')
        PROVE  LET i == program.code[frames'[k].current][frames'[k].next - 1] IN
               CallsOwn(program, i) /\ i.id = frames'[k].id
    <3>1. CASE k \in 1..Len(frames)
      BY <2>1, <2>3, <3>1 DEF CallersOK
    <3>2. CASE k = Depth
      <4>1. frames'[k].current = current /\ frames'[k].next - 1 = next
            /\ frames'[k].id = Instruction.id
        BY <2>1, <2>5, <3>2
      <4> QED
        BY <2>1, <4>1, CurrentInstruction
    <3> QED
      BY <2>3, <3>1, <3>2
  <2>8. ASSUME NEW level, LevelsRise(program, level),
               NEW j \in 1..Depth', NEW k \in 1..Depth', j < k
        PROVE  level[FunctionAt(j)'] < level[FunctionAt(k)']
    <3>1. j \in 1..Depth /\ FunctionAt(j)' = FunctionAt(j)
      BY <2>1, <2>8
    <3>2. CASE k \in 1..Depth
      BY <2>1, <2>8, <3>1, <3>2 DEF CallersOK
    <3>3. CASE k = Depth'
      <4>1. level[FunctionAt(Depth)] < level[Instruction.aux]
        BY <2>1, <2>4, <2>8, CurrentInstruction DEF LevelsRise
      <4>2. j # Depth => level[FunctionAt(j)] < level[FunctionAt(Depth)]
        BY <2>1, <2>8, <3>1 DEF CallersOK
      <4>3. level[FunctionAt(j)] \in Nat /\ level[FunctionAt(Depth)] \in Nat
            /\ level[Instruction.aux] \in Nat
        BY <2>1, <2>2, <2>8, <3>1 DEF CallersOK, LevelsRise
      <4> QED
        BY <2>4, <3>1, <3>3, <4>1, <4>2, <4>3
    <3> QED
      BY <2>1, <3>2, <3>3
  <2> QED
    BY <2>1, <2>6, <2>7, <2>8 DEF CallersOK
<1>3. CASE Return
  <2>1. /\ Len(frames) \in Nat \ {0} /\ Depth = Len(frames) + 1 /\ Depth' = Len(frames)
        /\ UNCHANGED program
        /\ \A k \in 1..Depth' : FunctionAt(k)' = FunctionAt(k)
        /\ \A k \in 1..(Len(frames) - 1) : frames'[k] = frames[k]
    BY <1>3, CallEnds
  <2>2. Len(frames') = Len(frames) - 1
    BY <1>3, Pop DEF Return, IInv, ControlOK
  <2> QED
    BY <2>1, <2>2 DEF CallersOK
<1> QED
  BY <1>1, <1>2, <1>3, StepKinds

\* The function that an instruction's value belongs to.
LEMMA OwnerOfInstruction ==
  ASSUME IInv, NEW b \in DOMAIN program.code, NEW j \in DOMAIN program.code[b]
  PROVE  Owner(program.code[b][j].id) = FunctionOf(b)
<1>1. ASSUME NEW c \in DOMAIN program.code, NEW l \in DOMAIN program.code[c],
             program.code[c][l].id = program.code[b][j].id
      PROVE  c = b
  BY <1>1 DEF IInv, ControlOK, WellFormed, IdsDiffer
<1> DEFINE Has(c) == \E l \in DOMAIN program.code[c] :
                       program.code[c][l].id = program.code[b][j].id
<1>2. \A c \in DOMAIN program.code : Has(c) => c = b
  BY <1>1
<1>3. Has(b)
  OBVIOUS
<1>4. Owner(program.code[b][j].id) = FunctionOf(CHOOSE c \in DOMAIN program.code : Has(c))
  BY DEF Owner
<1> HIDE DEF Has
<1>5. (CHOOSE c \in DOMAIN program.code : Has(c)) = b
  BY <1>2, <1>3
<1> QED
  BY <1>4, <1>5

\* Behind one more instruction at most its own value is known as well.
LEMMA KnownBehind ==
  ASSUME NEW p, NEW known, NEW b, NEW at \in Nat, NEW id \in Known(p, known, b, at + 1),
         DOMAIN p.code[b] \subseteq Nat
  PROVE  \/ id \in Known(p, known, b, at)
         \/ at \in DOMAIN p.code[b] /\ p.code[b][at].op \in Computes /\ id = p.code[b][at].id
<1>1. CASE id \in known[b]
  BY <1>1 DEF Known
<1>2. CASE id \notin known[b]
  <2>1. PICK l \in DOMAIN p.code[b] :
          l < at + 1 /\ p.code[b][l].op \in Computes /\ id = p.code[b][l].id
    BY <1>2 DEF Known
  <2>2. l = at \/ l < at
    BY <2>1
  <2> QED
    BY <2>1, <2>2 DEF Known
<1> QED
  BY <1>1, <1>2

LEMMA KnownAtStart ==
  ASSUME NEW p, NEW known, NEW b, \A l \in DOMAIN p.code[b] : l \in Nat \ {0}
  PROVE  Known(p, known, b, 1) = known[b]
  BY DEF Known

\* A value written in the call at depth d of a function was known in no call outside.
LEMMA NotKnownOutside ==
  ASSUME IInv, CallersOK, HasLevels, NEW d \in 1..Depth, NEW k \in 1..Depth, k < d,
         NEW id, Owner(id) = FunctionAt(d)
  PROVE  ~Present(id, k)
<1> SUFFICES ASSUME NEW l \in 1..k, FunctionAt(l) = Owner(id) PROVE FALSE
  BY DEF Present
<1>1. PICK level : LevelsRise(program, level)
  BY DEF HasLevels
<1>2. l \in 1..Depth /\ l < d
  BY SequenceFacts DEF Depth, IInv, ControlOK
<1>3. level[FunctionAt(l)] < level[FunctionAt(d)] /\ level[FunctionAt(d)] \in Nat
  BY <1>1, <1>2 DEF CallersOK, LevelsRise
<1> QED
  BY <1>3

LEMMA AdvancingKeepsValues ==
  ASSUME IInv, CallersOK, ValuesKept, Advances
  PROVE  ValuesKept'
<1> SUFFICES ASSUME NEW known, HasLevels', ComputesFirst(program, known)',
                    NEW k \in 1..Depth',
                    NEW id \in Known(program, known, BlockAt(k), PlaceAt(k))'
             PROVE  Present(id, k)'
  BY DEF ValuesKept
<1>1. /\ Depth' = Depth /\ UNCHANGED <<program, frames, current>> /\ next' = next + 1
      /\ \A j : FunctionAt(j)' = FunctionAt(j) /\ ActivationAt(j)' = ActivationAt(j)
      /\ Depth \in Nat \ {0} /\ ~AtEnd
  BY CallsStay, SequenceFacts DEF Advances, Depth, IInv, ControlOK
<1>2. HasLevels /\ ComputesFirst(program, known) /\ \A v : Owner(v)' = Owner(v)
  BY <1>1 DEF HasLevels, Owner, FunctionOf
<1>3. FunctionAt(Depth) = FunctionOf(current) /\ ActivationAt(Depth) = history.act
      /\ Owner(Instruction.id) = FunctionOf(current)
  BY <1>1, OwnerOfInstruction, CurrentInstruction DEF FunctionAt, ActivationAt
<1>4. ASSUME Present(id, k), id # Instruction.id \/ UNCHANGED history
      PROVE  Present(id, k)'
  <2>1. PICK l \in 1..k : FunctionAt(l) = Owner(id) /\ id \in DOMAIN history.writer
                          /\ history.writer[id] = ActivationAt(l)
    BY <1>4 DEF Present
  <2>2. id \in DOMAIN history'.writer /\ history'.writer[id] = history.writer[id]
    BY <1>4, <2>1 DEF Advances, SetValue, IInv, ActivationsInOrder
  <2> QED
    BY <1>1, <1>2, <2>1, <2>2 DEF Present
<1>5. ASSUME id = Instruction.id, ~UNCHANGED history, k = Depth
      PROVE  Present(id, k)'
  <2>1. id \in DOMAIN history'.writer /\ history'.writer[id] = history.act
    BY <1>5 DEF Advances, SetValue, IInv, ActivationsInOrder
  <2>2. k \in 1..k /\ FunctionAt(k) = Owner(id) /\ ActivationAt(k) = history.act
    BY <1>1, <1>3, <1>5
  <2> QED
    BY <1>1, <1>2, <2>1, <2>2 DEF Present
<1>6. CASE k < Depth
  <2>1. Present(id, k)
    BY <1>1, <1>2, <1>6 DEF ValuesKept, BlockAt, PlaceAt
  <2>2. id # Instruction.id
    BY <1>1, <1>2, <1>3, <1>6, <2>1, NotKnownOutside
  <2> QED
    BY <1>4, <2>1, <2>2
<1>7. CASE k = Depth
  <2>1. id \in Known(program, known, current, next + 1)
    BY <1>1, <1>7 DEF BlockAt, PlaceAt
  <2>2. next \in Nat /\ DOMAIN program.code[current] \subseteq Nat
    BY <1>1, NextPlace, SequenceFacts DEF IInv, ControlOK, WellFormed, Code
  <2>3. CASE id \in Known(program, known, current, next)
    <3>1. Present(id, k)
      BY <1>1, <1>2, <1>7, <2>3 DEF ValuesKept, BlockAt, PlaceAt
    <3> QED
      BY <1>4, <1>5, <1>7, <3>1
  <2>4. CASE Instruction.op \in Computes /\ id = Instruction.id
    <3>1. \E ref : SetValue(ref)
      BY <2>4 DEF Advances
    <3>2. id \in DOMAIN history'.writer /\ history'.writer[id] = history.act
      BY <2>4, <3>1 DEF SetValue, IInv, ActivationsInOrder
    <3>3. k \in 1..k /\ FunctionAt(k) = Owner(id) /\ ActivationAt(k) = history.act
      BY <1>1, <1>3, <1>7, <2>4
    <3> QED
      BY <1>1, <1>2, <3>2, <3>3 DEF Present
  <2> QED
    BY <1>1, <2>1, <2>2, <2>3, <2>4, KnownBehind, CurrentInstruction
<1> QED
  BY <1>1, <1>6, <1>7

\* Steps in a call that compute no value.
LEMMA MovingKeepsValues ==
  ASSUME IInv, ValuesKept, Jumps \/ Ret \/ Rests
  PROVE  ValuesKept'
<1> SUFFICES ASSUME NEW known, HasLevels', ComputesFirst(program, known)',
                    NEW k \in 1..Depth',
                    NEW id \in Known(program, known, BlockAt(k), PlaceAt(k))'
             PROVE  Present(id, k)'
  BY DEF ValuesKept
<1>1. /\ Depth' = Depth /\ UNCHANGED <<program, frames>>
      /\ \A j : FunctionAt(j)' = FunctionAt(j) /\ ActivationAt(j)' = ActivationAt(j)
      /\ history'.writer = history.writer
  BY CallsStay DEF Jumps, Ret, Rests, IInv, ActivationsInOrder
<1>2. HasLevels /\ ComputesFirst(program, known) /\ \A v : Owner(v)' = Owner(v)
  BY <1>1 DEF HasLevels, Owner, FunctionOf
<1>3. Present(id, k) => Present(id, k)'
  BY <1>1, <1>2 DEF Present
<1>4. id \in Known(program, known, BlockAt(k), PlaceAt(k))
  <2>1. CASE k # Depth
    BY <1>1, <2>1 DEF BlockAt, PlaceAt
  <2>2. CASE k = Depth
    <3>1. id \in Known(program, known, current', next')
      BY <1>1, <2>2 DEF BlockAt, PlaceAt
    <3>2. CASE Rests
      BY <2>2, <3>1, <3>2 DEF Rests, BlockAt, PlaceAt
    <3>3. CASE ~Rests
      <4>1. ~AtEnd /\ Instruction.op \notin Computes
        BY <3>3 DEF Jumps, Ret, Executes, Computes, Binary, Arithmetic, Shifts
      <4>2. next \in Nat /\ DOMAIN program.code[current] \subseteq Nat
        BY <4>1, NextPlace, SequenceFacts DEF IInv, ControlOK, WellFormed, Code
      <4>3. CASE current' = current /\ next' = next + 1
        BY <2>2, <3>1, <4>1, <4>2, <4>3, KnownBehind, CurrentInstruction DEF BlockAt, PlaceAt
      <4>4. CASE Jumps /\ current' = Instruction.aux /\ next' = 1
        <5>1. Instruction.op \in {"brk", "jmp"} /\ Instruction.aux \in DOMAIN program.code
          BY <4>1, <4>4, CurrentInstruction DEF Jumps
        <5>2. \A l \in DOMAIN program.code[Instruction.aux] : l \in Nat \ {0}
          BY <5>1, SequenceFacts DEF IInv, ControlOK, WellFormed
        <5>3. id \in known[Instruction.aux]
          BY <3>1, <4>4, <5>2, KnownAtStart
        <5>4. known[Instruction.aux] \subseteq Known(program, known, current, next)
          BY <1>2, <4>1, <5>1, CurrentInstruction DEF ComputesFirst
        <5> QED
          BY <2>2, <5>3, <5>4 DEF BlockAt, PlaceAt
      <4> QED
        BY <3>3, <4>3, <4>4 DEF Jumps, Ret
    <3> QED
      BY <3>2, <3>3
  <2> QED
    BY <2>1, <2>2
<1> QED
  BY <1>1, <1>2, <1>3, <1>4 DEF ValuesKept

LEMMA CallKeepsValues ==
  ASSUME IInv, ValuesKept, Invoke
  PROVE  ValuesKept'
<1> SUFFICES ASSUME NEW known, HasLevels', ComputesFirst(program, known)',
                    NEW k \in 1..Depth',
                    NEW id \in Known(program, known, BlockAt(k), PlaceAt(k))'
             PROVE  Present(id, k)'
  BY DEF ValuesKept
<1>1. /\ Depth \in Nat \ {0} /\ Depth' = Depth + 1 /\ UNCHANGED program
      /\ CallsOwn(program, Instruction) /\ ~AtEnd
      /\ current' = program.functions[Instruction.aux].entry /\ next' = 1
      /\ \A j \in 1..Depth : FunctionAt(j)' = FunctionAt(j) /\ ActivationAt(j)' = ActivationAt(j)
      /\ \A j \in 1..(Depth - 1) : frames'[j] = frames[j]
      /\ frames'[Depth] = Saved
  BY CallBegins
<1>2. HasLevels /\ ComputesFirst(program, known) /\ \A v : Owner(v)' = Owner(v)
  BY <1>1 DEF HasLevels, Owner, FunctionOf
<1>3. history'.writer = history.writer
  BY DEF Invoke, IInv, ActivationsInOrder
<1>4. ASSUME NEW j \in 1..Depth, j <= k, Present(id, j)
      PROVE  Present(id, k)'
  <2>1. PICK l \in 1..j : FunctionAt(l) = Owner(id) /\ id \in DOMAIN history.writer
                          /\ history.writer[id] = ActivationAt(l)
    BY <1>4 DEF Present
  <2>2. l \in 1..Depth /\ l \in 1..k
    BY <1>1, <1>4
  <2> QED
    BY <1>1, <1>2, <1>3, <2>1, <2>2 DEF Present
<1>5. CASE k < Depth
  <2>1. k \in 1..(Depth - 1) /\ k \in 1..Depth /\ k <= k /\ k # Depth /\ k # Depth'
    BY <1>1, <1>5
  <2>2. BlockAt(k)' = BlockAt(k) /\ PlaceAt(k)' = PlaceAt(k)
    BY <1>1, <2>1 DEF BlockAt, PlaceAt
  <2>3. Present(id, k)
    BY <1>1, <1>2, <2>1, <2>2 DEF ValuesKept
  <2> QED
    BY <1>4, <2>1, <2>3
<1>6. CASE k = Depth
  <2>1. Saved.current = current /\ Saved.next = next + 1 /\ next \in Nat
    BY <1>1, NextPlace DEF Saved, Frame
  <2>2. k # Depth' /\ k \in 1..Depth /\ k <= k
    BY <1>1, <1>6
  <2>3. BlockAt(k)' = current /\ PlaceAt(k)' = next
    BY <1>1, <1>6, <2>1, <2>2 DEF BlockAt, PlaceAt
  <2>4. Present(id, k)
    BY <1>1, <1>2, <1>6, <2>2, <2>3 DEF ValuesKept, BlockAt, PlaceAt
  <2> QED
    BY <1>4, <2>2, <2>4
<1>7. CASE k = Depth'
  <2>1. id \in Known(program, known, program.functions[Instruction.aux].entry, 1)
    BY <1>1, <1>7 DEF BlockAt, PlaceAt
  <2>2. Executes("invoke") /\ program.functions[Instruction.aux].entry \in DOMAIN program.code
    BY FunctionIsNamed DEF Invoke, IInv, ControlOK, WellFormed
  <2>3. id \in known[program.functions[Instruction.aux].entry]
    BY <2>1, <2>2, KnownAtStart, SequenceFacts DEF IInv, ControlOK, WellFormed
  <2>4. id \in Known(program, known, current, next)
    BY <1>1, <1>2, <2>3, CurrentInstruction DEF ComputesFirst
  <2>5. Depth \in 1..Depth /\ Depth <= k
    BY <1>1, <1>7
  <2>6. Present(id, Depth)
    BY <1>2, <2>4, <2>5 DEF ValuesKept, BlockAt, PlaceAt
  <2> QED
    BY <1>4, <2>5, <2>6
<1> QED
  BY <1>1, <1>5, <1>6, <1>7

LEMMA ReturnKeepsValues ==
  ASSUME IInv, CallersOK, ValuesKept, Return
  PROVE  ValuesKept'
<1> DEFINE f == frames[Len(frames)]
<1> SUFFICES ASSUME NEW known, HasLevels', ComputesFirst(program, known)',
                    NEW k \in 1..Depth',
                    NEW id \in Known(program, known, BlockAt(k), PlaceAt(k))'
             PROVE  Present(id, k)'
  BY DEF ValuesKept
<1>1. /\ Len(frames) \in Nat \ {0} /\ Depth = Len(frames) + 1 /\ Depth' = Len(frames)
      /\ UNCHANGED program
      /\ \A j \in 1..Depth' : FunctionAt(j)' = FunctionAt(j) /\ ActivationAt(j)' = ActivationAt(j)
      /\ \A j \in 1..(Len(frames) - 1) : frames'[j] = frames[j]
  BY CallEnds
<1>2. HasLevels /\ ComputesFirst(program, known) /\ \A v : Owner(v)' = Owner(v)
  BY <1>1 DEF HasLevels, Owner, FunctionOf
<1>3. next' = f.next /\ current' = f.current
  BY DEF Return, Resume
<1>4. /\ DOMAIN history'.writer = DOMAIN history.writer \cup {f.id}
      /\ history'.writer[f.id] = f.act
      /\ \A v \in DOMAIN history.writer : v # f.id => history'.writer[v] = history.writer[v]
  BY DEF Return, IInv, ActivationsInOrder
<1>5. /\ f.current \in DOMAIN program.code
      /\ f.next - 1 \in DOMAIN program.code[f.current] /\ f.next - 1 \in Nat
      /\ f.next - 1 + 1 = f.next /\ DOMAIN program.code[f.current] \subseteq Nat
      /\ program.code[f.current][f.next - 1].id = f.id
  <2>1. Len(frames) \in 1..Len(frames)
    BY <1>1
  <2>2. f.current \in DOMAIN program.code
        /\ f.next \in 2..(Len(program.code[f.current]) + 1)
        /\ program.code[f.current][f.next - 1].id = f.id
    BY <2>1 DEF CallersOK, IInv, ControlOK
  <2>3. DOMAIN program.code[f.current] = 1..Len(program.code[f.current])
        /\ Len(program.code[f.current]) \in Nat
    BY <2>2, SequenceFacts DEF IInv, ControlOK, WellFormed
  <2> HIDE DEF f
  <2> QED
    BY <2>2, <2>3
<1>6. Owner(f.id) = FunctionOf(f.current)
  BY <1>5, OwnerOfInstruction
<1>7. FunctionAt(Len(frames)) = FunctionOf(f.current) /\ ActivationAt(Len(frames)) = f.act
  BY <1>1 DEF FunctionAt, ActivationAt
<1> HIDE DEF f
<1>8. ASSUME Present(id, k), id # f.id
      PROVE  Present(id, k)'
  <2>1. PICK l \in 1..k : FunctionAt(l) = Owner(id) /\ id \in DOMAIN history.writer
                          /\ history.writer[id] = ActivationAt(l)
    BY <1>8 DEF Present
  <2>2. l \in 1..Depth'
    BY <1>1
  <2> QED
    BY <1>1, <1>2, <1>4, <1>8, <2>1, <2>2 DEF Present
<1>9. ASSUME id = f.id, k = Len(frames)
      PROVE  Present(id, k)'
  <2>1. k \in 1..k /\ FunctionAt(k) = Owner(id) /\ ActivationAt(k) = f.act
    BY <1>1, <1>6, <1>7, <1>9
  <2> QED
    BY <1>1, <1>2, <1>4, <1>9, <2>1 DEF Present
<1>10. CASE k < Len(frames)
  <2>1. k \in 1..(Len(frames) - 1) /\ k # Depth /\ k # Depth' /\ k \in 1..Depth
    BY <1>1, <1>10
  <2>2. BlockAt(k)' = BlockAt(k) /\ PlaceAt(k)' = PlaceAt(k)
    BY <1>1, <2>1 DEF BlockAt, PlaceAt
  <2>3. Present(id, k)
    BY <1>1, <1>2, <2>1, <2>2 DEF ValuesKept
  <2>4. id # f.id
    <3>1. Len(frames) \in 1..Depth
      BY <1>1
    <3> QED
      BY <1>2, <1>6, <1>7, <1>10, <2>1, <2>3, <3>1, NotKnownOutside
  <2> QED
    BY <1>8, <2>3, <2>4
<1>11. CASE k = Len(frames)
  <2>1. id \in Known(program, known, f.current, f.next)
    BY <1>1, <1>3, <1>11 DEF BlockAt, PlaceAt
  <2>2. CASE id \in Known(program, known, f.current, f.next - 1)
    <3>1. k \in 1..Depth /\ k # Depth
      BY <1>1, <1>11
    <3>2. BlockAt(k) = f.current /\ PlaceAt(k) = f.next - 1
      BY <1>11, <3>1 DEF BlockAt, PlaceAt, f
    <3>3. Present(id, k)
      BY <1>2, <2>2, <3>1, <3>2 DEF ValuesKept
    <3> QED
      BY <1>8, <1>9, <1>11, <3>3
  <2>3. CASE id = f.id
    BY <1>9, <1>11, <2>3
  <2> QED
    BY <1>5, <2>1, <2>2, <2>3, KnownBehind
<1> QED
  BY <1>1, <1>10, <1>11

LEMMA StepKeepsValues == IInv /\ CallersOK /\ ValuesKept /\ [Next]_vars => ValuesKept'
  BY StepKinds, AdvancingKeepsValues, MovingKeepsValues, CallKeepsValues, ReturnKeepsValues

\* In a program without recursion that computes every value on all ways to where it is
\* read, an instruction reads only what the latest active call of the value's function
\* has computed, although valueMap_ has one value per instruction for all calls.
THEOREM OperandsBelongToCalls ==
  Spec => []((/\ \E level : LevelsRise(program, level)
              /\ \E known : ComputesFirst(program, known)) => OperandsAreCurrent)
<1>1. Init => IInv /\ CallersOK /\ ValuesKept
  BY InitIInv, InitCalls
<1>2. IInv /\ CallersOK /\ ValuesKept /\ [Next]_vars => (IInv /\ CallersOK /\ ValuesKept)'
  BY StepPreservesIInv, StepKeepsCallers, StepKeepsValues
<1>3. IInv /\ CallersOK /\ ValuesKept =>
        ((/\ \E level : LevelsRise(program, level)
          /\ \E known : ComputesFirst(program, known)) => OperandsAreCurrent)
  <2> SUFFICES ASSUME IInv, CallersOK, ValuesKept, ~AtEnd,
                      NEW level, LevelsRise(program, level),
                      NEW known, ComputesFirst(program, known),
                      NEW j \in DOMAIN Instruction.operands,
                      Instruction.operands[j].kind = "value"
               PROVE  LET id == Instruction.operands[j].id IN
                      \E k \in 1..Depth :
                        /\ FunctionAt(k) = Owner(id)
                        /\ \A l \in (k + 1)..Depth : FunctionAt(l) # Owner(id)
                        /\ id \in DOMAIN history.writer
                        /\ history.writer[id] = ActivationAt(k)
    BY DEF OperandsAreCurrent
  <2> DEFINE id == Instruction.operands[j].id
  <2>1. id \in Known(program, known, current, next)
    BY CurrentInstruction DEF ComputesFirst
  <2>2. Depth \in Nat \ {0} /\ Depth \in 1..Depth
    BY SequenceFacts DEF Depth, IInv, ControlOK
  <2> HIDE DEF id
  <2>3. Present(id, Depth)
    BY <2>1, <2>2 DEF ValuesKept, HasLevels, BlockAt, PlaceAt
  <2>4. PICK k \in 1..Depth : FunctionAt(k) = Owner(id) /\ id \in DOMAIN history.writer
                              /\ history.writer[id] = ActivationAt(k)
    BY <2>3 DEF Present
  <2>5. ASSUME NEW l \in (k + 1)..Depth
        PROVE  FunctionAt(l) # Owner(id)
    <3>1. l \in 1..Depth /\ k < l
      BY <2>2
    <3>2. level[FunctionAt(k)] < level[FunctionAt(l)] /\ level[FunctionAt(k)] \in Nat
      BY <3>1 DEF CallersOK, LevelsRise
    <3> QED
      BY <2>4, <3>2
  <2> QED
    BY <2>4, <2>5 DEF id
<1> QED
  BY <1>1, <1>2, <1>3, PTL DEF Spec
===============================================================================
