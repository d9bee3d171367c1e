---------------------------- MODULE InterpDataProofs ---------------------------
(***************************************************************************)
(* Proofs about the data of Interp.  For every well formed program:        *)
(* references point at objects, and variables never share their storage.   *)
(* For every program that has a typing (see Kinds): what the registers and *)
(* objects hold is of the kinds that the typing gives, so no check of the  *)
(* interpreter fails.                                                      *)
(***************************************************************************)
EXTENDS InterpProofs, Kinds, FiniteSetTheorems

\* The objects, and everything that holds a Ref<Object>.
RefsOK(s, n) == IsSequence(s) /\ \A k \in 1..Len(s) : s[k] \in 0..n
MemoryOK ==
  /\ IsSequence(heap)
  /\ \A r \in 1..Len(heap) : IsObject(heap[r], Len(heap))
  /\ \A i \in DOMAIN valueMap : valueMap[i] \in Refs
  /\ retResult \in Refs
  /\ RefsOK(args, Len(heap))
  /\ \A k \in 1..Len(frames) : RefsOK(frames[k].args, Len(heap))
  /\ status \in {"running", "halted", "failed", "undefined"}

\* A variable is the object that an alloc gave; the pointer in it is its storage.
VariablesOK ==
  /\ \A i \in DOMAIN valueMap :
       IsAlloc(i) => valueMap[i] \in 1..Len(heap) /\ heap[valueMap[i]].pointer # Null
  /\ VariablesAreApart
  /\ \A k \in 1..Len(frames) : ~IsAlloc(frames[k].id)

DataInv == MemoryOK /\ VariablesOK

-------------------------------------------------------------------------------
LEMMA Concatenated ==
  ASSUME NEW s, IsSequence(s), NEW t, IsSequence(t)
  PROVE  /\ IsSequence(s \o t) /\ Len(s \o t) = Len(s) + Len(t)
         /\ \A k \in 1..Len(s) : (s \o t)[k] = s[k]
         /\ \A k \in 1..Len(t) : (s \o t)[Len(s) + k] = t[k]
<1> DEFINE S == {s[k] : k \in DOMAIN s} \cup {t[k] : k \in DOMAIN t}
           u == s \o t
<1>1. s \in Seq(S) /\ t \in Seq(S)
  BY DEF IsSequence
<1>2. /\ u \in Seq(S) /\ Len(u) = Len(s) + Len(t) /\ Len(s) \in Nat /\ Len(t) \in Nat
      /\ \A k \in 1..Len(s) : u[k] = s[k]
      /\ \A k \in 1..Len(t) : u[Len(s) + k] = t[k]
  BY <1>1, ConcatProperties
<1> HIDE DEF S, u
<1>3. DOMAIN u = 1..Len(u) /\ u = [k \in 1..Len(u) |-> u[k]] /\ Len(u) \in Nat
  BY <1>2
<1> QED
  BY <1>2, <1>3, FunctionIsSequence DEF u

\* The constants among operands are numbered without gaps.
LEMMA RanksOfConstants ==
  ASSUME NEW os, IsSequence(os)
  PROVE  /\ Rank(os, Len(os)) \in Nat
         /\ \A k \in 1..Len(os) : IsConstant(os[k]) => Rank(os, k) \in 1..Rank(os, Len(os))
         /\ \A n \in 1..Rank(os, Len(os)) :
              \E k \in 1..Len(os) : IsConstant(os[k]) /\ Rank(os, k) = n
         /\ \A j, k \in 1..Len(os) :
              IsConstant(os[j]) /\ IsConstant(os[k]) /\ Rank(os, j) = Rank(os, k) => j = k
<1> DEFINE Upto(k) == {j \in 1..k : IsConstant(os[j])}
           All == Upto(Len(os))
           N == Cardinality(All)
           f == [k \in All |-> Cardinality(Upto(k))]
<1>1. Len(os) \in Nat
  BY SequenceFacts
<1>2. IsFiniteSet(All) /\ N \in Nat
  <2>1. IsFiniteSet(1..Len(os)) /\ All \subseteq 1..Len(os)
    BY <1>1, FS_Interval
  <2> QED
    BY <2>1, FS_Subset, FS_CardinalityType
<1>3. ASSUME NEW k \in All
      PROVE  /\ IsFiniteSet(Upto(k)) /\ Cardinality(Upto(k)) \in 1..N
             /\ k \in Upto(k) /\ Upto(k) \subseteq All
  <2>1. Upto(k) \subseteq All /\ k \in Upto(k)
    BY <1>1
  <2>2. IsFiniteSet(Upto(k)) /\ Cardinality(Upto(k)) <= N /\ Cardinality(Upto(k)) \in Nat
    BY <1>2, <2>1, FS_Subset, FS_CardinalityType
  <2>3. Cardinality(Upto(k)) # 0
    BY <2>1, <2>2, FS_EmptySet
  <2> QED
    BY <1>2, <2>1, <2>2, <2>3
<1>4. ASSUME NEW j \in All, NEW k \in All, j < k
      PROVE  Cardinality(Upto(j)) # Cardinality(Upto(k))
  <2>1. Upto(j) \subseteq Upto(k) /\ k \notin Upto(j) /\ k \in Upto(k)
    BY <1>1, <1>4
  <2> QED
    BY <1>3, <2>1, FS_Subset
<1>5. f \in Injection(All, 1..N)
  <2>1. f \in [All -> 1..N]
    BY <1>3
  <2>2. ASSUME NEW j \in All, NEW k \in All, j # k
        PROVE  f[j] # f[k]
    <3>1. j < k \/ k < j
      BY <1>1, <2>2
    <3> QED
      BY <1>4, <3>1
  <2> QED
    BY <2>1, <2>2 DEF Injection, IsInjective
<1>6. f \in Surjection(All, 1..N)
  <2>1. IsFiniteSet(1..N) /\ Cardinality(1..N) = N
    BY <1>2, FS_Interval
  <2> HIDE DEF f, All
  <2> QED
    BY <1>5, <2>1, FS_Injection
<1>7. ASSUME NEW n \in 1..N
      PROVE  \E k \in All : Cardinality(Upto(k)) = n
  BY <1>6 DEF Surjection
<1>8. ASSUME NEW j \in 1..Len(os), NEW k \in 1..Len(os), IsConstant(os[j]),
             IsConstant(os[k]), Cardinality(Upto(j)) = Cardinality(Upto(k))
      PROVE  j = k
  <2>1. j \in All /\ k \in All /\ (j < k \/ k < j \/ j = k)
    BY <1>1, <1>8
  <2> QED
    BY <1>4, <1>8, <2>1
<1> QED
  BY <1>2, <1>3, <1>7, <1>8 DEF Rank

LEMMA ConstantsMade ==
  ASSUME NEW os, IsSequence(os), \A k \in DOMAIN os : IsOperand(os[k]), NEW n \in Nat
  PROVE  /\ IsSequence(Constants(os)) /\ Len(Constants(os)) = Rank(os, Len(os))
         /\ \A m \in 1..Rank(os, Len(os)) : IsObject(Constants(os)[m], n)
<1> DEFINE N == Rank(os, Len(os))
           Place(m) == CHOOSE k \in 1..Len(os) : IsConstant(os[k]) /\ Rank(os, k) = m
<1>1. N \in Nat /\ Len(os) \in Nat /\ DOMAIN os = 1..Len(os)
  BY RanksOfConstants, SequenceFacts
<1>2. ASSUME NEW m \in 1..N
      PROVE  Place(m) \in DOMAIN os /\ IsConstant(os[Place(m)])
  BY <1>1, RanksOfConstants
<1>3. ASSUME NEW m \in 1..N
      PROVE  IsObject(ConstantObject(os[Place(m)]), n)
  <2>1. os[Place(m)].type \in {"number", "string"} /\ os[Place(m)].int \in Int
    BY <1>2 DEF IsOperand, IsConstant
  <2> QED
    BY <2>1 DEF IsObject, ConstantObject, Object, Types, Null
<1>4. Constants(os) = [m \in 1..N |-> ConstantObject(os[Place(m)])]
  BY DEF Constants
<1> HIDE DEF N, Place
<1>5. DOMAIN Constants(os) = 1..N /\ Constants(os) = [m \in 1..N |-> Constants(os)[m]]
  BY <1>4
<1>6. IsSequence(Constants(os)) /\ Len(Constants(os)) = N
  BY <1>1, <1>5, FunctionIsSequence
<1> QED
  BY <1>3, <1>4, <1>6 DEF N

-------------------------------------------------------------------------------
\* Numbers stay numbers: shifts by what the interpreter accepts.
LEMMA PowerIsPositive ==
  ASSUME NEW k \in 0..32
  PROVE  2^k \in Int /\ 2^k > 0
<1>1. k \in {0,1,2,3,4,5,6,7,8,9,10,11,12,13,14,15,16,17,18,19,20,21,22,23,24,25,26,
             27,28,29,30,31,32}
  BY SMT
<1>2. /\ 2^0 > 0 /\ 2^1 > 0 /\ 2^2 > 0 /\ 2^3 > 0 /\ 2^4 > 0 /\ 2^5 > 0 /\ 2^6 > 0
      /\ 2^7 > 0 /\ 2^8 > 0 /\ 2^9 > 0 /\ 2^10 > 0 /\ 2^11 > 0 /\ 2^12 > 0 /\ 2^13 > 0
      /\ 2^14 > 0 /\ 2^15 > 0 /\ 2^16 > 0 /\ 2^17 > 0 /\ 2^18 > 0 /\ 2^19 > 0
      /\ 2^20 > 0 /\ 2^21 > 0 /\ 2^22 > 0 /\ 2^23 > 0 /\ 2^24 > 0 /\ 2^25 > 0
      /\ 2^26 > 0 /\ 2^27 > 0 /\ 2^28 > 0 /\ 2^29 > 0 /\ 2^30 > 0 /\ 2^31 > 0
      /\ 2^32 > 0
  BY SMT
<1>3. 2^k > 0
  BY <1>1, <1>2, Zenon
<1>4. 2^k \in Int
  BY SMT
<1> QED
  BY <1>3, <1>4

LEMMA ShiftedRightIsNumber ==
  ASSUME NEW l \in Int, NEW r \in 0..63
  PROVE  ShiftedRight(l, r) \in Int
<1> DEFINE a == 2^(r \div 2)
           b == 2^(r - r \div 2)
<1>1. r \div 2 \in 0..32 /\ r - r \div 2 \in 0..32
  BY SMT
<1>2. a \in Int /\ a > 0 /\ b \in Int /\ b > 0
  BY <1>1, PowerIsPositive
<1>3. ShiftedRight(l, r) = (l \div a) \div b
  BY DEF ShiftedRight
<1> HIDE DEF a, b
<1> QED
  BY <1>2, <1>3

LEMMA QuotientIsNumber ==
  ASSUME NEW l \in Int, NEW r \in Int, r # 0
  PROVE  Quotient(l, r) \in Int
<1> DEFINE Abs(n) == IF n < 0 THEN -n ELSE n
           q == Abs(l) \div Abs(r)
<1>1. Abs(l) \in Int /\ Abs(r) \in Int /\ Abs(r) > 0
  OBVIOUS
<1> HIDE DEF Abs
<1>2. q \in Int
  BY <1>1
<1>3. Quotient(l, r) = IF (l < 0) = (r < 0) THEN q ELSE -q
  BY DEF Quotient, Abs
<1> QED
  BY <1>2, <1>3

LEMMA ComputeIsNumber ==
  ASSUME NEW op \in Arithmetic, NEW l \in Int, NEW r \in Int,
         op \in {"div", "mod"} => r # 0, op \in Shifts => r \in 0..63
  PROVE  Compute(op, l, r) \in Int
<1>1. CASE op \in {"div", "mod"}
  <2>1. Quotient(l, r) \in Int
    BY <1>1, QuotientIsNumber
  <2>2. CASE op = "div"
    BY <2>1, <2>2 DEF Compute
  <2>3. CASE op = "mod"
    BY <2>1, <2>3 DEF Compute
  <2> QED
    BY <1>1, <2>2, <2>3
<1>2. CASE op = "shl"
  <2>1. l * 2^r \in Int
    BY <1>2 DEF Shifts
  <2> QED
    BY <1>2, <2>1 DEF Compute
<1>3. CASE op \in {"shr", "szr"}
  BY <1>3, ShiftedRightIsNumber DEF Compute, Shifts
<1>4. CASE op \in {"sub", "mul", "lt", "gt", "eq", "neq", "and", "or"}
  BY <1>4 DEF Compute, Truth
<1> QED
  BY <1>1, <1>2, <1>3, <1>4 DEF Arithmetic, Shifts

-------------------------------------------------------------------------------
\* Objects, and what an instruction finds at its operands.
LEMMA ObjectAmongMore ==
  ASSUME NEW n \in Nat, NEW m \in Nat, n <= m, NEW o, IsObject(o, n)
  PROVE  IsObject(o, m)
<1>1. 0..n \subseteq 0..m
  OBVIOUS
<1>2. /\ o = [type |-> o.type, int |-> o.int, str |-> o.str, members |-> o.members,
              pointer |-> o.pointer]
      /\ o.type \in Types /\ o.int \in Int /\ o.pointer \in 0..m
      /\ o.members \in [DOMAIN o.members -> 0..n]
  BY <1>1 DEF IsObject
<1>3. o.members \in [DOMAIN o.members -> 0..m]
  BY <1>1, <1>2
<1> QED
  BY <1>2, <1>3 DEF IsObject

LEMMA MadeObject ==
  ASSUME NEW type \in Types, NEW int \in Int, NEW str, NEW n \in Nat
  PROVE  IsObject(Object(type, int, str), n)
  BY DEF IsObject, Object, Null

LEMMA BinaryResultIsObject ==
  ASSUME NEW op \in Binary, NEW n \in Nat, NEW l, NEW r, l.int \in Int, r.int \in Int,
         op \in {"div", "mod"} => r.int # 0, op \in Shifts => r.int \in 0..63
  PROVE  IsObject(BinaryResult(op, l, r), n)
<1>1. CASE op = "add"
  <2>1. l.int + r.int \in Int /\ 0 \in Int /\ "number" \in Types /\ "string" \in Types
    BY DEF Types
  <2> QED
    BY <1>1, <2>1, MadeObject DEF BinaryResult
<1>2. CASE op # "add"
  <2>1. op \in Arithmetic
    BY <1>2 DEF Binary
  <2>2. Compute(op, l.int, r.int) \in Int /\ "number" \in Types
    BY <2>1, ComputeIsNumber DEF Types
  <2> QED
    BY <1>2, <2>2, MadeObject DEF BinaryResult
<1> QED
  BY <1>1, <1>2

\* The instruction about to run is a sound one.
LEMMA InstructionIsSound ==
  ASSUME IInv, ~AtEnd
  PROVE  /\ IsInstruction(Instruction)
         /\ IsSequence(Instruction.operands)
         /\ DOMAIN Instruction.operands = 1..Len(Instruction.operands)
         /\ Len(Instruction.operands) \in Nat
         /\ \A k \in DOMAIN Instruction.operands : IsOperand(Instruction.operands[k])
<1>1. IsInstruction(Instruction)
  BY NextPlace DEF IInv, ControlOK, WellFormed, Code, Instruction
<1> QED
  BY <1>1, SequenceFacts DEF IsInstruction

LEMMA OperandsThere ==
  ASSUME IInv, ~AtEnd
  PROVE  /\ Instruction.op \in {"load", "brk", "ret", "gea"} \cup {"store", "idx"} \cup Binary
               => 1 \in DOMAIN Instruction.operands
         /\ Instruction.op \in {"store", "idx"} \cup Binary => 2 \in DOMAIN Instruction.operands
<1>1. Instruction.op # "invoke" => Len(Instruction.operands) = Arity[Instruction.op]
  BY InstructionIsSound DEF IsInstruction
<1>2. \A op \in {"load", "brk", "ret", "gea"} : op # "invoke" /\ Arity[op] = 1
  BY DEF Arity
<1>3. \A op \in {"store", "idx"} \cup Binary : op # "invoke" /\ Arity[op] = 2
  BY DEF Arity, Binary, Arithmetic, Shifts
<1>4. /\ Instruction.op \in {"load", "brk", "ret", "gea"} => Len(Instruction.operands) = 1
      /\ Instruction.op \in {"store", "idx"} \cup Binary => Len(Instruction.operands) = 2
  BY <1>1, <1>2, <1>3
<1> QED
  BY <1>4, InstructionIsSound

LEMMA ValueInRange ==
  ASSUME MemoryOK, NEW o
  PROVE  /\ Len(heap) \in Nat /\ ValueOf(o) \in 0..Len(heap)
         /\ ValueOf(o) # Null => ValueOf(o) \in 1..Len(heap)
  BY SequenceFacts DEF MemoryOK, ValueOf, Refs, Null

LEMMA ContentIsObject ==
  ASSUME MemoryOK, NEW o, IsOperand(o), IsKnown(o)
  PROVE  IsObject(Content(o), Len(heap))
<1>1. CASE IsConstant(o)
  <2>1. o.type \in Types /\ o.int \in Int
    BY <1>1 DEF IsConstant, IsOperand, Types
  <2> QED
    BY <1>1, <2>1, MadeObject, ValueInRange DEF Content, ConstantObject
<1>2. CASE ~IsConstant(o)
  <2>1. ValueOf(o) \in 1..Len(heap)
    BY <1>2, ValueInRange DEF IsKnown
  <2> QED
    BY <1>2, <2>1 DEF Content, MemoryOK
<1> QED
  BY <1>1, <1>2

LEMMA ReferenceInRange ==
  ASSUME MemoryOK, NEW os, IsSequence(os), NEW k \in 1..Len(os)
  PROVE  Reference(os, k) \in 0..(Len(heap) + Rank(os, Len(os)))
<1>1. Len(heap) \in Nat /\ ValueOf(os[k]) \in 0..Len(heap)
  BY ValueInRange
<1>2. Rank(os, Len(os)) \in Nat
      /\ (IsConstant(os[k]) => Rank(os, k) \in 1..Rank(os, Len(os)))
  BY RanksOfConstants
<1> QED
  BY <1>1, <1>2 DEF Reference

\* What the operands' constants add to the heap.
LEMMA HeapWithConstants ==
  ASSUME MemoryOK, NEW os, IsSequence(os), \A k \in DOMAIN os : IsOperand(os[k])
  PROVE  LET objects == heap \o Constants(os) IN
         /\ IsSequence(objects) /\ Len(objects) = Len(heap) + Rank(os, Len(os))
         /\ Len(objects) >= Len(heap) /\ Len(objects) \in Nat
         /\ \A r \in 1..Len(objects) : IsObject(objects[r], Len(objects))
         /\ \A r \in 1..Len(heap) : objects[r] = heap[r]
         /\ \A k \in 1..Len(os) : Reference(os, k) \in 0..Len(objects)
<1> DEFINE made == Constants(os)
           u == heap \o made
<1>1. Len(heap) \in Nat /\ Rank(os, Len(os)) \in Nat /\ IsSequence(heap)
  BY ValueInRange, RanksOfConstants DEF MemoryOK
<1> DEFINE n == Len(heap) + Rank(os, Len(os))
<1>2. IsSequence(made) /\ Len(made) = Rank(os, Len(os))
      /\ \A m \in 1..Rank(os, Len(os)) : IsObject(made[m], n)
  BY <1>1, ConstantsMade
<1> HIDE DEF made
<1>3. /\ IsSequence(u) /\ Len(u) = Len(heap) + Len(made)
      /\ \A k \in 1..Len(heap) : u[k] = heap[k]
      /\ \A k \in 1..Len(made) : u[Len(heap) + k] = made[k]
  <2>1. IsSequence(heap \o made) /\ Len(heap \o made) = Len(heap) + Len(made)
    BY <1>1, <1>2, Concatenated
  <2>2. \A k \in 1..Len(heap) : (heap \o made)[k] = heap[k]
    BY <1>1, <1>2, Concatenated
  <2>3. \A k \in 1..Len(made) : (heap \o made)[Len(heap) + k] = made[k]
    BY <1>1, <1>2, Concatenated
  <2> QED
    BY <2>1, <2>2, <2>3
<1> HIDE DEF u
<1>4. ASSUME NEW r \in 1..Len(u)
      PROVE  IsObject(u[r], Len(u))
  <2>1. CASE r <= Len(heap)
    <3>1. IsObject(u[r], Len(heap))
      BY <1>1, <1>2, <1>3, <2>1 DEF MemoryOK
    <3> QED
      BY <1>1, <1>2, <1>3, <3>1, ObjectAmongMore
  <2>2. CASE r > Len(heap)
    <3>1. r - Len(heap) \in 1..Len(made) /\ r = Len(heap) + (r - Len(heap))
      BY <1>1, <1>2, <1>3, <2>2
    <3>2. u[r] = made[r - Len(heap)]
      BY <1>3, <3>1
    <3> QED
      BY <1>2, <1>3, <3>1, <3>2
  <2> QED
    BY <1>1, <1>2, <1>3, <2>1, <2>2
<1>5. \A k \in 1..Len(os) : Reference(os, k) \in 0..Len(u)
  BY <1>2, <1>3, ReferenceInRange
<1> QED
  BY <1>1, <1>2, <1>3, <1>4, <1>5 DEF u, made

\* The objects of an alloc, moved behind those that are there.
MovedTo(ref) == IF ref = Null THEN Null ELSE ref + Len(heap)

LEMMA MovedObject ==
  ASSUME NEW layout, IsLayout(layout), NEW k \in DOMAIN layout
  PROVE  LET o == layout[k]
             moved == Moved(layout)[k] IN
         /\ moved.type = o.type /\ moved.int = o.int /\ moved.str = o.str
         /\ moved.pointer = MovedTo(o.pointer)
         /\ moved.members = [f \in DOMAIN o.members |-> MovedTo(o.members[f])]
         /\ moved = [type |-> moved.type, int |-> moved.int, str |-> moved.str,
                     members |-> moved.members, pointer |-> moved.pointer]
<1> DEFINE At(ref) == IF ref = Null THEN Null ELSE ref + Len(heap)
           moved == Moved(layout)
<1>1. IsObject(layout[k], Len(layout))
  BY DEF IsLayout
<1>2. moved = [l \in DOMAIN layout |->
                [layout[l] EXCEPT !.pointer = At(@),
                                  !.members = [f \in DOMAIN @ |-> At(@[f])]]]
  BY DEF Moved
<1>3. \A ref : At(ref) = MovedTo(ref)
  BY DEF MovedTo
<1> HIDE DEF At, moved
<1>4. moved[k] = [layout[k] EXCEPT !.pointer = At(@),
                                   !.members = [f \in DOMAIN @ |-> At(@[f])]]
  BY <1>2
<1>5. /\ moved[k].type = layout[k].type /\ moved[k].int = layout[k].int
      /\ moved[k].str = layout[k].str
      /\ moved[k].pointer = At(layout[k].pointer)
      /\ moved[k].members =
           [f \in DOMAIN layout[k].members |-> At(layout[k].members[f])]
      /\ moved[k] = [type |-> moved[k].type, int |-> moved[k].int,
                     str |-> moved[k].str, members |-> moved[k].members,
                     pointer |-> moved[k].pointer]
  BY <1>1, <1>4 DEF IsObject
<1> QED
  BY <1>3, <1>5 DEF moved

LEMMA MovedLayout ==
  ASSUME MemoryOK, NEW layout, IsLayout(layout)
  PROVE  /\ IsSequence(Moved(layout)) /\ Len(Moved(layout)) = Len(layout)
         /\ Len(layout) \in Nat \ {0} /\ 1 \in DOMAIN layout
         /\ \A k \in 1..Len(layout) :
              IsObject(Moved(layout)[k], Len(heap) + Len(layout))
         /\ Moved(layout)[1].pointer > Len(heap)
<1> DEFINE moved == Moved(layout)
           n == Len(heap) + Len(layout)
<1>1. /\ Len(layout) \in Nat /\ DOMAIN layout = 1..Len(layout) /\ Len(heap) \in Nat
      /\ 1 \in DOMAIN layout /\ layout[1].pointer # 0
      /\ \A k \in 1..Len(layout) : IsObject(layout[k], Len(layout))
  BY SequenceFacts, ValueInRange DEF IsLayout
<1>2. ASSUME NEW ref \in 0..Len(layout)
      PROVE  MovedTo(ref) \in 0..n /\ (ref # 0 => MovedTo(ref) > Len(heap))
  BY <1>1 DEF Null, MovedTo
<1>3. DOMAIN moved = DOMAIN layout /\ moved = [k \in DOMAIN layout |-> moved[k]]
  BY DEF Moved
<1>4. ASSUME NEW k \in 1..Len(layout)
      PROVE  /\ moved[k].type = layout[k].type /\ moved[k].int = layout[k].int
             /\ moved[k].pointer = MovedTo(layout[k].pointer)
             /\ moved[k].members =
                  [f \in DOMAIN layout[k].members |-> MovedTo(layout[k].members[f])]
             /\ moved[k] = [type |-> moved[k].type, int |-> moved[k].int,
                            str |-> moved[k].str, members |-> moved[k].members,
                            pointer |-> moved[k].pointer]
  BY <1>1, MovedObject
<1> HIDE DEF moved, n
<1>5. ASSUME NEW k \in 1..Len(layout)
      PROVE  IsObject(moved[k], n)
  <2>1. IsObject(layout[k], Len(layout))
    BY <1>1
  <2>2. /\ layout[k].type \in Types /\ layout[k].int \in Int
        /\ layout[k].pointer \in 0..Len(layout)
        /\ \A f \in DOMAIN layout[k].members : layout[k].members[f] \in 0..Len(layout)
    BY <2>1 DEF IsObject
  <2>3. moved[k].members \in [DOMAIN moved[k].members -> 0..n] /\ moved[k].pointer \in 0..n
    BY <1>2, <1>4, <2>2
  <2>4. moved[k].type \in Types /\ moved[k].int \in Int
    BY <1>4, <2>2
  <2>5. moved[k] = [type |-> moved[k].type, int |-> moved[k].int, str |-> moved[k].str,
                    members |-> moved[k].members, pointer |-> moved[k].pointer]
    BY <1>4
  <2> QED
    BY <2>3, <2>4, <2>5 DEF IsObject
<1>6. IsSequence(moved) /\ Len(moved) = Len(layout)
  <2>1. DOMAIN moved = 1..Len(layout) /\ moved = [k \in 1..Len(layout) |-> moved[k]]
    BY <1>1, <1>3
  <2> QED
    BY <1>1, <2>1, FunctionIsSequence
<1>7. moved[1].pointer > Len(heap)
  <2>1. 1 \in 1..Len(layout) /\ layout[1].pointer \in 0..Len(layout)
    BY <1>1 DEF IsObject
  <2> QED
    BY <1>1, <1>2, <1>4, <2>1
<1> QED
  BY <1>1, <1>5, <1>6, <1>7 DEF moved, n

LEMMA HeapWithLayout ==
  ASSUME MemoryOK, NEW layout, IsLayout(layout)
  PROVE  LET objects == heap \o Moved(layout) IN
         /\ IsSequence(objects) /\ Len(objects) \in Nat /\ Len(objects) > Len(heap)
         /\ \A r \in 1..Len(objects) : IsObject(objects[r], Len(objects))
         /\ \A r \in 1..Len(heap) : objects[r] = heap[r]
         /\ objects[Len(heap) + 1].pointer > Len(heap)
<1> DEFINE moved == Moved(layout)
           u == heap \o moved
<1>1. Len(heap) \in Nat /\ IsSequence(heap)
  BY ValueInRange DEF MemoryOK
<1>2. /\ IsSequence(moved) /\ Len(moved) = Len(layout) /\ Len(layout) \in Nat \ {0}
      /\ \A k \in 1..Len(moved) : IsObject(moved[k], Len(heap) + Len(moved))
      /\ moved[1].pointer > Len(heap)
  BY MovedLayout
<1> HIDE DEF moved
<1>3. /\ IsSequence(u) /\ Len(u) = Len(heap) + Len(moved)
      /\ \A k \in 1..Len(heap) : u[k] = heap[k]
      /\ \A k \in 1..Len(moved) : u[Len(heap) + k] = moved[k]
  <2>1. IsSequence(heap \o moved) /\ Len(heap \o moved) = Len(heap) + Len(moved)
    BY <1>1, <1>2, Concatenated
  <2>2. \A k \in 1..Len(heap) : (heap \o moved)[k] = heap[k]
    BY <1>1, <1>2, Concatenated
  <2>3. \A k \in 1..Len(moved) : (heap \o moved)[Len(heap) + k] = moved[k]
    BY <1>1, <1>2, Concatenated
  <2> QED
    BY <2>1, <2>2, <2>3
<1> HIDE DEF u
<1>4. ASSUME NEW r \in 1..Len(u)
      PROVE  IsObject(u[r], Len(u))
  <2>1. CASE r <= Len(heap)
    <3>1. IsObject(u[r], Len(heap))
      BY <1>1, <1>2, <1>3, <2>1 DEF MemoryOK
    <3> QED
      BY <1>1, <1>2, <1>3, <3>1, ObjectAmongMore
  <2>2. CASE r > Len(heap)
    <3>1. r - Len(heap) \in 1..Len(moved) /\ r = Len(heap) + (r - Len(heap))
      BY <1>1, <1>2, <1>3, <2>2
    <3>2. u[r] = moved[r - Len(heap)]
      BY <1>3, <3>1
    <3> QED
      BY <1>2, <1>3, <3>1, <3>2
  <2> QED
    BY <1>1, <1>2, <1>3, <2>1, <2>2
<1>5. u[Len(heap) + 1].pointer > Len(heap)
  <2>1. 1 \in 1..Len(moved)
    BY <1>2
  <2> QED
    BY <1>2, <1>3, <2>1
<1> QED
  BY <1>1, <1>2, <1>3, <1>4, <1>5 DEF u, moved

-------------------------------------------------------------------------------
\* What the checks of an instruction that goes through have established.
LEMMA LoadIsSound ==
  ASSUME IInv, MemoryOK, Executes("load")
  PROVE  LET o == Instruction.operands[1] IN
         (IF o.kind = "param" THEN args[o.id + 1] ELSE heap[ValueOf(o)].pointer)
           \in 0..Len(heap)
<1> DEFINE o == Instruction.operands[1]
<1>1. FaultOfLoad(o) = "none" /\ ~AtEnd /\ Instruction.op = "load"
  BY DEF Executes, Fault, Arithmetic, Shifts
<1>2. IsOperand(o)
  BY <1>1, OperandsThere, InstructionIsSound
<1> HIDE DEF o
<1>3. CASE o.kind = "param"
  <2>1. o.id \in Nat /\ o.id < Len(args)
    BY <1>1, <1>2, <1>3 DEF FaultOfLoad, IsOperand
  <2>2. Len(args) \in Nat
    BY SequenceFacts DEF MemoryOK, RefsOK
  <2> QED
    BY <1>3, <2>1, <2>2 DEF MemoryOK, RefsOK, o
<1>4. CASE o.kind # "param"
  <2>1. ValueOf(o) \in 1..Len(heap)
    BY <1>1, <1>4, ValueInRange DEF FaultOfLoad
  <2>2. IsObject(heap[ValueOf(o)], Len(heap))
    BY <2>1 DEF MemoryOK
  <2> QED
    BY <1>4, <2>2 DEF IsObject, o
<1> QED
  BY <1>3, <1>4

LEMMA StoreIsSound ==
  ASSUME IInv, MemoryOK, Executes("store")
  PROVE  /\ ValueOf(Instruction.operands[1]) \in 1..Len(heap)
         /\ heap[ValueOf(Instruction.operands[1])].pointer \in 1..Len(heap)
         /\ IsKnown(Instruction.operands[2])
         /\ IsObject(Content(Instruction.operands[2]), Len(heap))
<1> DEFINE o == Instruction.operands[1]
           from == Instruction.operands[2]
<1>1. FaultOfStore(o, from) = "none" /\ ~AtEnd /\ Instruction.op = "store"
  BY DEF Executes, Fault, Arithmetic, Shifts
<1>2. IsOperand(from)
  BY <1>1, OperandsThere, InstructionIsSound
<1> HIDE DEF o, from
<1>3. ValueOf(o) # Null /\ heap[ValueOf(o)].pointer # Null /\ IsKnown(from)
  BY <1>1 DEF FaultOfStore
<1>4. ValueOf(o) \in 1..Len(heap)
  BY <1>3, ValueInRange
<1>5. heap[ValueOf(o)].pointer \in 0..Len(heap)
  BY <1>4 DEF MemoryOK, IsObject
<1>6. heap[ValueOf(o)].pointer \in 1..Len(heap)
  BY <1>3, <1>5, ValueInRange DEF Null
<1>7. IsObject(Content(from), Len(heap))
  BY <1>2, <1>3, ContentIsObject
<1> QED
  BY <1>3, <1>4, <1>6, <1>7 DEF o, from

LEMMA GeaIsSound ==
  ASSUME IInv, MemoryOK, Executes("gea")
  PROVE  heap[ValueOf(Instruction.operands[1])].pointer \in 1..Len(heap)
<1> DEFINE o == Instruction.operands[1]
<1>1. FaultOfGea(o) = "none"
  BY DEF Executes, Fault, Arithmetic, Shifts
<1> HIDE DEF o
<1>2. ValueOf(o) # Null /\ heap[ValueOf(o)].pointer # Null
  BY <1>1 DEF FaultOfGea
<1>3. ValueOf(o) \in 1..Len(heap)
  BY <1>2, ValueInRange
<1>4. heap[ValueOf(o)].pointer \in 0..Len(heap)
  BY <1>3 DEF MemoryOK, IsObject
<1> QED
  BY <1>2, <1>4, ValueInRange DEF Null, o

LEMMA BinaryIsSound ==
  ASSUME IInv, MemoryOK, NEW op \in Binary, Executes(op), NEW n \in Nat
  PROVE  IsObject(BinaryResult(op, Content(Instruction.operands[1]),
                                   Content(Instruction.operands[2])), n)
<1> DEFINE l == Instruction.operands[1]
           r == Instruction.operands[2]
<1>1. Fault(Instruction) = "none" /\ ~AtEnd /\ Instruction.op = op
  BY DEF Executes
<1>2. IsOperand(l) /\ IsOperand(r)
  BY <1>1, OperandsThere, InstructionIsSound
<1>3. /\ IsKnown(l) /\ IsKnown(r)
      /\ op \in {"div", "mod"} => Content(r).int # 0
      /\ op \in Shifts => Content(r).int \in 0..63
  <2>1. CASE op = "add"
    <3>1. FaultOfAdd(l, r) = "none"
      BY <1>1, <2>1 DEF Fault, Arithmetic, Shifts
    <3> HIDE DEF l, r
    <3> QED
      BY <2>1, <3>1 DEF FaultOfAdd, Shifts
  <2>2. CASE op # "add"
    <3>1. op \in Arithmetic /\ op \notin {"load", "store", "add"}
      BY <2>2 DEF Binary, Arithmetic, Shifts
    <3>2. FaultOfArithmetic(op, l, r) = "none"
      BY <1>1, <3>1 DEF Fault, Arithmetic, Shifts
    <3> HIDE DEF l, r
    <3> QED
      BY <3>2 DEF FaultOfArithmetic
  <2> QED
    BY <2>1, <2>2
<1> HIDE DEF l, r
<1>4. Content(l).int \in Int /\ Content(r).int \in Int
  BY <1>2, <1>3, ContentIsObject DEF IsObject
<1> QED
  BY <1>3, <1>4, BinaryResultIsObject DEF l, r

-------------------------------------------------------------------------------
\* Steps that stay in the running call.
LEMMA StayingKeepsMemory ==
  ASSUME MemoryOK, IsSequence(heap'), Len(heap') >= Len(heap), Len(heap') \in Nat,
         \A r \in 1..Len(heap') : IsObject(heap'[r], Len(heap')),
         UNCHANGED valueMap \/ \E ref \in 0..Len(heap') : SetValue(ref),
         retResult' \in 0..Len(heap'), RefsOK(args', Len(heap')),
         UNCHANGED frames, status' \in {"running", "halted", "failed", "undefined"}
  PROVE  MemoryOK'
<1>1. Len(heap) \in Nat /\ 0..Len(heap) \subseteq 0..Len(heap')
  BY ValueInRange
<1>2. \A i \in DOMAIN valueMap' : valueMap'[i] \in Refs'
  <2>1. CASE UNCHANGED valueMap
    BY <1>1, <2>1 DEF MemoryOK, Refs
  <2>2. CASE \E ref \in 0..Len(heap') : SetValue(ref)
    <3>1. PICK ref \in 0..Len(heap') : SetValue(ref)
      BY <2>2
    <3> QED
      BY <1>1, <3>1 DEF MemoryOK, Refs, SetValue
  <2> QED
    BY <2>1, <2>2
<1>3. \A k \in 1..Len(frames) : RefsOK(frames'[k].args, Len(heap'))
  BY <1>1 DEF MemoryOK, RefsOK
<1> QED
  BY <1>2, <1>3 DEF MemoryOK, Refs

LEMMA StayingKeepsVariables ==
  ASSUME MemoryOK, VariablesOK, UNCHANGED <<program, frames>>,
         Len(heap') >= Len(heap), Len(heap') \in Nat,
         \A r \in 1..Len(heap) : heap'[r].pointer = heap[r].pointer,
         UNCHANGED valueMap \/ (~IsAlloc(Instruction.id) /\ \E ref : SetValue(ref))
  PROVE  VariablesOK'
<1>1. Len(heap) \in Nat
  BY ValueInRange
<1>2. \A i : IsAlloc(i)' = IsAlloc(i)
  BY DEF IsAlloc
<1>3. \A i \in DOMAIN valueMap' :
        IsAlloc(i) => i \in DOMAIN valueMap /\ valueMap'[i] = valueMap[i]
  BY DEF SetValue
<1>4. \A i \in DOMAIN valueMap' : IsAlloc(i) =>
        /\ i \in DOMAIN valueMap /\ valueMap[i] \in 1..Len(heap) /\ valueMap'[i] = valueMap[i]
        /\ heap'[valueMap[i]].pointer = heap[valueMap[i]].pointer
        /\ heap[valueMap[i]].pointer # Null
  BY <1>3 DEF VariablesOK
<1>5. VariablesAreApart'
  BY <1>2, <1>4 DEF VariablesOK, VariablesAreApart
<1>6. (\A k \in 1..Len(frames) : ~IsAlloc(frames[k].id))'
  BY <1>2 DEF VariablesOK
<1>7. \A i \in DOMAIN valueMap' :
        IsAlloc(i) => valueMap'[i] \in 1..Len(heap') /\ heap'[valueMap'[i]].pointer # Null
  BY <1>1, <1>4
<1> QED
  BY <1>2, <1>5, <1>6, <1>7 DEF VariablesOK

\* What is no alloc does not have the number of one.
LEMMA OtherThanAlloc ==
  ASSUME IInv, ~AtEnd, Instruction.op # "alloc"
  PROVE  ~IsAlloc(Instruction.id)
<1>1. current \in DOMAIN program.code /\ next \in DOMAIN program.code[current]
  BY NextPlace DEF IInv, ControlOK, Code
<1>2. IdsDiffer(program.code) /\ Instruction = program.code[current][next]
  BY DEF IInv, ControlOK, WellFormed, Instruction, Code
<1>3. ASSUME NEW b \in DOMAIN program.code, NEW j \in DOMAIN program.code[b],
             program.code[b][j].id = Instruction.id
      PROVE  program.code[b][j].op # "alloc"
  <2>1. b = current /\ j = next
    BY <1>1, <1>2, <1>3 DEF IdsDiffer
  <2> QED
    BY <1>2, <2>1
<1> QED
  BY <1>3 DEF IsAlloc

LEMMA InitData == Init => DataInv
<1> SUFFICES ASSUME Init PROVE DataInv
  OBVIOUS
<1>1. heap = << >> /\ args = << >> /\ frames = << >> /\ retResult = 0 /\ DOMAIN valueMap = {}
      /\ status = "running"
  BY DEF Init, Null
<1>2. IsSequence(heap) /\ IsSequence(args) /\ Len(heap) = 0 /\ Len(args) = 0 /\ Len(frames) = 0
  BY <1>1 DEF IsSequence
<1> QED
  BY <1>1, <1>2 DEF DataInv, MemoryOK, VariablesOK, VariablesAreApart, RefsOK, Refs

LEMMA AllocKeepsData ==
  ASSUME IInv, DataInv, Alloc
  PROVE  DataInv'
<1> DEFINE id == Instruction.id
<1>1. /\ ~AtEnd /\ Instruction.op = "alloc" /\ heap' = heap \o Moved(Instruction.aux)
      /\ SetValue(Len(heap) + 1)
      /\ UNCHANGED <<program, args, retResult, frames, status>>
  BY DEF Alloc, Executes, Advance
<1>2. IsLayout(Instruction.aux)
  BY <1>1, InstructionIsSound DEF IsInstruction
<1>3. /\ IsSequence(heap') /\ Len(heap') \in Nat /\ Len(heap') > Len(heap)
      /\ \A r \in 1..Len(heap') : IsObject(heap'[r], Len(heap'))
      /\ \A r \in 1..Len(heap) : heap'[r] = heap[r]
      /\ heap'[Len(heap) + 1].pointer > Len(heap)
      /\ Len(heap) \in Nat
  BY <1>1, <1>2, HeapWithLayout, ValueInRange DEF DataInv
<1>4. MemoryOK'
  <2>1. Len(heap) + 1 \in 0..Len(heap') /\ 0..Len(heap) \subseteq 0..Len(heap')
    BY <1>3
  <2>2. retResult' \in 0..Len(heap') /\ RefsOK(args', Len(heap'))
    BY <1>1, <2>1 DEF DataInv, MemoryOK, RefsOK, Refs
  <2>3. \E ref \in 0..Len(heap') : SetValue(ref)
    BY <1>1, <2>1
  <2> QED
    BY <1>1, <1>3, <2>2, <2>3, StayingKeepsMemory DEF DataInv, MemoryOK
<1>5. \A i : IsAlloc(i)' = IsAlloc(i)
  BY <1>1 DEF IsAlloc
<1>6. /\ DOMAIN valueMap' = DOMAIN valueMap \cup {id} /\ valueMap'[id] = Len(heap) + 1
      /\ \A i \in DOMAIN valueMap : i # id => valueMap'[i] = valueMap[i]
  BY <1>1 DEF SetValue
<1> HIDE DEF id
<1>7. ASSUME NEW i \in DOMAIN valueMap', IsAlloc(i), i # id
      PROVE  /\ i \in DOMAIN valueMap /\ valueMap'[i] \in 1..Len(heap)
             /\ heap'[valueMap'[i]].pointer \in 1..Len(heap)
             /\ valueMap'[i] = valueMap[i]
             /\ heap'[valueMap'[i]].pointer = heap[valueMap[i]].pointer
  <2>1. /\ i \in DOMAIN valueMap /\ valueMap'[i] = valueMap[i] /\ valueMap[i] \in 1..Len(heap)
        /\ heap[valueMap[i]].pointer # Null
    BY <1>6, <1>7 DEF DataInv, VariablesOK
  <2>2. heap[valueMap[i]].pointer \in 0..Len(heap)
    BY <2>1 DEF DataInv, MemoryOK, IsObject
  <2>3. heap[valueMap[i]].pointer \in 1..Len(heap)
    BY <1>3, <2>1, <2>2 DEF Null
  <2> QED
    BY <1>3, <2>1, <2>3
<1>8. valueMap'[id] \in 1..Len(heap') /\ heap'[valueMap'[id]].pointer > Len(heap)
      /\ Len(heap) + 1 \in 1..Len(heap')
  BY <1>3, <1>6
<1>9. heap'[valueMap'[id]].pointer \in Nat
  BY <1>3, <1>6, <1>8 DEF IsObject
<1>10. \A i \in DOMAIN valueMap' : IsAlloc(i) =>
         valueMap'[i] \in 1..Len(heap') /\ heap'[valueMap'[i]].pointer # Null
  BY <1>3, <1>7, <1>8, <1>9 DEF Null
<1>11. ASSUME NEW i \in DOMAIN valueMap', NEW j \in DOMAIN valueMap', i # j,
              IsAlloc(i), IsAlloc(j)
       PROVE  heap'[valueMap'[i]].pointer # heap'[valueMap'[j]].pointer
  <2>1. CASE i = id
    BY <1>3, <1>7, <1>8, <1>9, <1>11, <2>1
  <2>2. CASE j = id
    BY <1>3, <1>7, <1>8, <1>9, <1>11, <2>2
  <2>3. CASE i # id /\ j # id
    <3>1. heap[valueMap[i]].pointer # heap[valueMap[j]].pointer
      BY <1>7, <1>11, <2>3 DEF DataInv, VariablesOK, VariablesAreApart
    <3> QED
      BY <1>7, <1>11, <2>3, <3>1
  <2> QED
    BY <2>1, <2>2, <2>3
<1>12. VariablesAreApart'
  BY <1>5, <1>11 DEF VariablesAreApart
<1>13. VariablesOK'
  BY <1>1, <1>5, <1>10, <1>12 DEF DataInv, VariablesOK
<1> QED
  BY <1>4, <1>13 DEF DataInv

\* Steps that change no registers but the value of an instruction that is no alloc,
\* and make or change objects but no pointer in one.
LEMMA ComputingKeepsData ==
  ASSUME IInv, DataInv, ~AtEnd, Instruction.op # "alloc",
         UNCHANGED <<program, frames, status>>,
         IsSequence(heap'), Len(heap') >= Len(heap), Len(heap') \in Nat,
         \A r \in 1..Len(heap') : IsObject(heap'[r], Len(heap')),
         \A r \in 1..Len(heap) : heap'[r].pointer = heap[r].pointer,
         retResult' \in 0..Len(heap'), RefsOK(args', Len(heap')),
         UNCHANGED valueMap \/ \E ref \in 0..Len(heap') : SetValue(ref)
  PROVE  DataInv'
<1>1. MemoryOK'
  BY StayingKeepsMemory DEF DataInv, MemoryOK
<1>2. UNCHANGED valueMap \/ (~IsAlloc(Instruction.id) /\ \E ref : SetValue(ref))
  BY OtherThanAlloc
<1>3. VariablesOK'
  BY <1>2, StayingKeepsVariables DEF DataInv
<1> QED
  BY <1>1, <1>3 DEF DataInv

LEMMA LoadKeepsData ==
  ASSUME IInv, DataInv, Load
  PROVE  DataInv'
<1> DEFINE o == Instruction.operands[1]
           ref == IF o.kind = "param" THEN args[o.id + 1] ELSE heap[ValueOf(o)].pointer
<1>1. /\ Executes("load") /\ ~AtEnd /\ Instruction.op = "load" /\ SetValue(ref)
      /\ UNCHANGED <<program, heap, args, retResult, frames, status>>
  BY DEF Load, Advance, Executes
<1>2. ref \in 0..Len(heap)
  BY <1>1, LoadIsSound DEF DataInv
<1> HIDE DEF ref
<1>3. Len(heap) \in Nat
  BY ValueInRange DEF DataInv
<1> QED
  BY <1>1, <1>2, <1>3, ComputingKeepsData DEF DataInv, MemoryOK, Refs

\* One object changes, but neither its type nor its pointer.
LEMMA ObjectChanged ==
  ASSUME MemoryOK, NEW place \in 1..Len(heap), NEW from,
         from.type = heap[place].type, from.pointer = heap[place].pointer,
         IsObject(from, Len(heap)), heap' = [heap EXCEPT ![place] = from]
  PROVE  /\ IsSequence(heap') /\ Len(heap') = Len(heap) /\ Len(heap) \in Nat
         /\ \A r \in 1..Len(heap) : IsObject(heap'[r], Len(heap))
         /\ \A r \in 1..Len(heap) : heap'[r].pointer = heap[r].pointer
<1>1. Len(heap) \in Nat /\ DOMAIN heap = 1..Len(heap)
  BY SequenceFacts DEF MemoryOK
<1>2. DOMAIN heap' = 1..Len(heap) /\ heap' = [r \in 1..Len(heap) |-> heap'[r]]
  BY <1>1
<1>3. IsSequence(heap') /\ Len(heap') = Len(heap)
  BY <1>1, <1>2, FunctionIsSequence
<1>4. \A r \in 1..Len(heap) : heap'[r] = IF r = place THEN from ELSE heap[r]
  BY <1>1
<1> QED
  BY <1>1, <1>3, <1>4 DEF MemoryOK

LEMMA StoreKeepsData ==
  ASSUME IInv, DataInv, Store
  PROVE  DataInv'
<1> DEFINE place == heap[ValueOf(Instruction.operands[1])].pointer
           from == Content(Instruction.operands[2])
           new == [heap[place] EXCEPT !.int = from.int, !.str = from.str,
                                      !.members = from.members]
<1>1. /\ Executes("store") /\ ~AtEnd /\ Instruction.op = "store"
      /\ UNCHANGED <<program, valueMap, args, retResult, frames, status>>
      /\ heap' = [heap EXCEPT ![place].int = from.int, ![place].str = from.str,
                              ![place].members = from.members]
  BY DEF Store, Advance, Executes
<1>2. place \in 1..Len(heap) /\ IsObject(from, Len(heap))
  BY <1>1, StoreIsSound DEF DataInv
<1>3. IsObject(heap[place], Len(heap)) /\ DOMAIN heap = 1..Len(heap)
  BY <1>2, SequenceFacts DEF DataInv, MemoryOK
<1> HIDE DEF place, from
<1>4. /\ IsObject(new, Len(heap))
      /\ new.type = heap[place].type /\ new.pointer = heap[place].pointer
  BY <1>2, <1>3 DEF IsObject
<1>5. heap' = [heap EXCEPT ![place] = new]
  BY <1>1, <1>2, <1>3
<1> HIDE DEF new
<1>6. /\ IsSequence(heap') /\ Len(heap') = Len(heap) /\ Len(heap) \in Nat
      /\ \A r \in 1..Len(heap) : IsObject(heap'[r], Len(heap))
      /\ \A r \in 1..Len(heap) : heap'[r].pointer = heap[r].pointer
  BY <1>2, <1>4, <1>5, ObjectChanged DEF DataInv
<1>7. /\ Len(heap') >= Len(heap) /\ Len(heap') \in Nat
      /\ \A r \in 1..Len(heap') : IsObject(heap'[r], Len(heap'))
      /\ retResult' \in 0..Len(heap') /\ RefsOK(args', Len(heap'))
  BY <1>1, <1>6 DEF DataInv, MemoryOK, Refs
<1>8. UNCHANGED valueMap /\ Instruction.op # "alloc"
  BY <1>1
<1> QED
  BY <1>1, <1>6, <1>7, <1>8, ComputingKeepsData

LEMMA GeaKeepsData ==
  ASSUME IInv, DataInv, Gea
  PROVE  DataInv'
<1> DEFINE place == heap[ValueOf(Instruction.operands[1])].pointer
           old == heap[place].members
           members == [f \in DOMAIN old \cup {Instruction.aux} |->
                        IF f \in DOMAIN old THEN old[f] ELSE Null]
           new == [heap[place] EXCEPT !.members = members]
<1>1. /\ Executes("gea") /\ ~AtEnd /\ Instruction.op = "gea"
      /\ UNCHANGED <<program, args, retResult, frames, status>>
      /\ heap' = [heap EXCEPT ![place].members = members]
      /\ SetValue(members[Instruction.aux])
  BY DEF Gea, Advance, Executes
<1>2. place \in 1..Len(heap)
  BY <1>1, GeaIsSound DEF DataInv
<1>3. IsObject(heap[place], Len(heap)) /\ DOMAIN heap = 1..Len(heap) /\ Len(heap) \in Nat
  BY <1>2, SequenceFacts DEF DataInv, MemoryOK
<1> HIDE DEF place
<1>4. \A f \in DOMAIN members : members[f] \in 0..Len(heap)
  BY <1>3 DEF IsObject, Null
<1>5. Instruction.aux \in DOMAIN members /\ members = [f \in DOMAIN members |-> members[f]]
  OBVIOUS
<1> HIDE DEF members
<1>6. /\ IsObject(new, Len(heap))
      /\ new.type = heap[place].type /\ new.pointer = heap[place].pointer
  <2>1. members \in [DOMAIN members -> 0..Len(heap)]
    BY <1>4, <1>5
  <2> QED
    BY <1>3, <2>1 DEF IsObject
<1>7. heap' = [heap EXCEPT ![place] = new]
  BY <1>1, <1>2, <1>3
<1> HIDE DEF new
<1>8. /\ IsSequence(heap') /\ Len(heap') = Len(heap) /\ Len(heap) \in Nat
      /\ \A r \in 1..Len(heap) : IsObject(heap'[r], Len(heap))
      /\ \A r \in 1..Len(heap) : heap'[r].pointer = heap[r].pointer
  BY <1>2, <1>6, <1>7, ObjectChanged DEF DataInv
<1>9. \E ref \in 0..Len(heap') : SetValue(ref)
  BY <1>1, <1>4, <1>5, <1>8
<1> QED
  BY <1>1, <1>8, <1>9, ComputingKeepsData DEF DataInv, MemoryOK, Refs

LEMMA BinaryKeepsData ==
  ASSUME IInv, DataInv, NEW op \in Binary, BinaryOp(op)
  PROVE  DataInv'
<1> DEFINE o == BinaryResult(op, Content(Instruction.operands[1]),
                                 Content(Instruction.operands[2]))
<1>1. /\ Executes(op) /\ ~AtEnd /\ Instruction.op = op
      /\ UNCHANGED <<program, args, retResult, frames, status>>
      /\ heap' = Append(heap, o) /\ SetValue(Len(heap) + 1)
  BY DEF BinaryOp, Advance, Executes
<1>2. op # "alloc"
  BY DEF Binary, Arithmetic, Shifts
<1>3. /\ IsSequence(heap') /\ Len(heap) \in Nat /\ Len(heap') = Len(heap) + 1
      /\ \A r \in 1..Len(heap) : heap'[r] = heap[r]
      /\ heap'[Len(heap) + 1] = o
  BY <1>1, Push DEF DataInv, MemoryOK
<1>4. IsObject(o, Len(heap) + 1)
  BY <1>1, <1>3, BinaryIsSound DEF DataInv
<1> HIDE DEF o
<1>5. ASSUME NEW r \in 1..Len(heap')
      PROVE  IsObject(heap'[r], Len(heap'))
  <2>1. CASE r \in 1..Len(heap)
    <3>1. IsObject(heap[r], Len(heap))
      BY <2>1 DEF DataInv, MemoryOK
    <3> QED
      BY <1>3, <2>1, <3>1, ObjectAmongMore
  <2>2. CASE r = Len(heap) + 1
    BY <1>3, <1>4, <2>2
  <2> QED
    BY <1>3, <2>1, <2>2
<1>6. /\ Len(heap) + 1 \in 0..Len(heap') /\ 0..Len(heap) \subseteq 0..Len(heap')
      /\ Len(heap') >= Len(heap) /\ Len(heap') \in Nat
  BY <1>3
<1>7. \E ref \in 0..Len(heap') : SetValue(ref)
  BY <1>1, <1>6
<1>8. retResult' \in 0..Len(heap') /\ RefsOK(args', Len(heap'))
  BY <1>1, <1>6 DEF DataInv, MemoryOK, RefsOK, Refs
<1>9. \A r \in 1..Len(heap) : heap'[r].pointer = heap[r].pointer
  BY <1>3
<1> QED
  BY <1>1, <1>2, <1>3, <1>5, <1>6, <1>7, <1>8, <1>9, ComputingKeepsData

LEMMA JumpKeepsData ==
  ASSUME DataInv, NEW taken, NEW block, Jump(taken, block)
  PROVE  DataInv'
<1>1. UNCHANGED <<program, heap, valueMap, args, retResult, frames, status>>
  BY DEF Jump
<1> QED
  BY <1>1 DEF DataInv, MemoryOK, VariablesOK, VariablesAreApart, IsAlloc, Refs

\* What the operands of an instruction refer to, with the objects made for them.
LEMMA ActualsInRange ==
  ASSUME IInv, MemoryOK, ~AtEnd
  PROVE  LET objects == heap \o Constants(Instruction.operands) IN
         /\ IsSequence(objects) /\ Len(objects) >= Len(heap) /\ Len(objects) \in Nat
         /\ \A r \in 1..Len(objects) : IsObject(objects[r], Len(objects))
         /\ \A r \in 1..Len(heap) : objects[r] = heap[r]
         /\ \A k \in DOMAIN Instruction.operands :
              Reference(Instruction.operands, k) \in 0..Len(objects)
         /\ RefsOK(Actuals, Len(objects))
<1> DEFINE os == Instruction.operands
           objects == heap \o Constants(os)
<1>1. /\ IsSequence(os) /\ DOMAIN os = 1..Len(os) /\ Len(os) \in Nat
      /\ \A k \in DOMAIN os : IsOperand(os[k])
  BY InstructionIsSound
<1>2. Actuals = [k \in DOMAIN os |-> Reference(os, k)]
  BY DEF Actuals
<1> HIDE DEF os
<1>3. /\ IsSequence(objects) /\ Len(objects) >= Len(heap) /\ Len(objects) \in Nat
      /\ \A r \in 1..Len(objects) : IsObject(objects[r], Len(objects))
      /\ \A r \in 1..Len(heap) : objects[r] = heap[r]
      /\ \A k \in 1..Len(os) : Reference(os, k) \in 0..Len(objects)
  BY <1>1, HeapWithConstants
<1> HIDE DEF objects
<1>4. DOMAIN Actuals = 1..Len(os) /\ Actuals = [k \in 1..Len(os) |-> Actuals[k]]
      /\ \A k \in 1..Len(os) : Actuals[k] \in 0..Len(objects)
  BY <1>1, <1>2, <1>3
<1>5. RefsOK(Actuals, Len(objects))
  BY <1>1, <1>4, FunctionIsSequence DEF RefsOK
<1> QED
  BY <1>1, <1>3, <1>5 DEF os, objects

LEMMA RetKeepsData ==
  ASSUME IInv, DataInv, Ret
  PROVE  DataInv'
<1>1. /\ ~AtEnd /\ Instruction.op = "ret"
      /\ UNCHANGED <<program, valueMap, args, frames, status>>
      /\ heap' = heap \o Constants(Instruction.operands)
      /\ retResult' = Reference(Instruction.operands, 1)
  BY DEF Ret, Executes
<1>2. /\ IsSequence(heap') /\ Len(heap') >= Len(heap) /\ Len(heap') \in Nat
      /\ \A r \in 1..Len(heap') : IsObject(heap'[r], Len(heap'))
      /\ \A r \in 1..Len(heap) : heap'[r] = heap[r]
      /\ \A k \in DOMAIN Instruction.operands :
           Reference(Instruction.operands, k) \in 0..Len(heap')
  BY <1>1, ActualsInRange DEF DataInv
<1>3. 1 \in DOMAIN Instruction.operands
  BY <1>1, OperandsThere
<1>4. RefsOK(args', Len(heap'))
  BY <1>1, <1>2, ValueInRange DEF DataInv, MemoryOK, RefsOK
<1> QED
  BY <1>1, <1>2, <1>3, <1>4, ComputingKeepsData

LEMMA InvokeNativeKeepsData ==
  ASSUME IInv, DataInv, InvokeNative
  PROVE  DataInv'
<1>1. /\ ~AtEnd /\ Instruction.op = "invoke" /\ SetValue(Null)
      /\ UNCHANGED <<program, retResult, frames, status>>
      /\ heap' = heap \o Constants(Instruction.operands) /\ args' = Actuals
  BY DEF InvokeNative, Executes
<1>2. /\ IsSequence(heap') /\ Len(heap') >= Len(heap) /\ Len(heap') \in Nat
      /\ \A r \in 1..Len(heap') : IsObject(heap'[r], Len(heap'))
      /\ \A r \in 1..Len(heap) : heap'[r] = heap[r]
      /\ RefsOK(args', Len(heap'))
  BY <1>1, ActualsInRange DEF DataInv
<1>3. Null \in 0..Len(heap') /\ retResult' \in 0..Len(heap')
  BY <1>1, <1>2, ValueInRange DEF DataInv, MemoryOK, Refs, Null
<1>4. \E ref \in 0..Len(heap') : SetValue(ref)
  BY <1>1, <1>3
<1>5. \A r \in 1..Len(heap) : heap'[r].pointer = heap[r].pointer
  BY <1>2
<1> QED
  BY <1>1, <1>2, <1>3, <1>4, <1>5, ComputingKeepsData

LEMMA InvokeKeepsData ==
  ASSUME IInv, DataInv, Invoke
  PROVE  DataInv'
<1>1. /\ ~AtEnd /\ Instruction.op = "invoke"
      /\ UNCHANGED <<program, valueMap, retResult, status>>
      /\ heap' = heap \o Constants(Instruction.operands) /\ args' = Actuals
      /\ frames' = Append(frames, Saved)
  BY DEF Invoke, Executes, Enter
<1>2. /\ IsSequence(heap') /\ Len(heap') >= Len(heap) /\ Len(heap') \in Nat
      /\ \A r \in 1..Len(heap') : IsObject(heap'[r], Len(heap'))
      /\ \A r \in 1..Len(heap) : heap'[r] = heap[r]
      /\ RefsOK(args', Len(heap'))
  BY <1>1, ActualsInRange DEF DataInv
<1>3. /\ Len(frames) \in Nat /\ Len(frames') = Len(frames) + 1
      /\ \A k \in 1..Len(frames) : frames'[k] = frames[k]
      /\ frames'[Len(frames) + 1] = Saved
  BY <1>1, Push DEF IInv, ControlOK
<1>4. Saved.args = args /\ Saved.id = Instruction.id
  BY DEF Saved, Frame
<1>5. Len(heap) \in Nat /\ 0..Len(heap) \subseteq 0..Len(heap')
  BY <1>2, ValueInRange DEF DataInv
<1>6. ASSUME NEW k \in 1..Len(frames')
      PROVE  RefsOK(frames'[k].args, Len(heap')) /\ ~IsAlloc(frames'[k].id)
  <2>1. CASE k \in 1..Len(frames)
    BY <1>3, <1>5, <2>1 DEF DataInv, MemoryOK, VariablesOK, RefsOK
  <2>2. CASE k = Len(frames) + 1
    BY <1>1, <1>3, <1>4, <1>5, <2>2, OtherThanAlloc DEF DataInv, MemoryOK, RefsOK
  <2> QED
    BY <1>3, <2>1, <2>2
<1>7. MemoryOK'
  BY <1>1, <1>2, <1>5, <1>6 DEF DataInv, MemoryOK, Refs
<1>8. \A i : IsAlloc(i)' = IsAlloc(i)
  BY <1>1 DEF IsAlloc
<1>9. \A i \in DOMAIN valueMap : IsAlloc(i) =>
        /\ valueMap[i] \in 1..Len(heap') /\ heap'[valueMap[i]].pointer # Null
        /\ heap'[valueMap[i]].pointer = heap[valueMap[i]].pointer
  BY <1>2, <1>5 DEF DataInv, VariablesOK
<1>10. VariablesAreApart'
  BY <1>1, <1>8, <1>9 DEF DataInv, VariablesOK, VariablesAreApart
<1>11. VariablesOK'
  BY <1>1, <1>6, <1>8, <1>9, <1>10 DEF VariablesOK
<1> QED
  BY <1>7, <1>11 DEF DataInv

LEMMA ReturnKeepsData ==
  ASSUME IInv, DataInv, Return
  PROVE  DataInv'
<1> DEFINE f == frames[Len(frames)]
           result == IF isReturn THEN retResult ELSE Null
<1>1. /\ frames # << >> /\ frames' = SubSeq(frames, 1, Len(frames) - 1)
      /\ UNCHANGED <<program, heap, retResult, status>> /\ args' = f.args
      /\ valueMap' = [i \in DOMAIN valueMap \cup {f.id} |->
                       IF i = f.id THEN result ELSE valueMap[i]]
  BY DEF Return, Resume
<1>2. /\ Len(frames) \in Nat \ {0} /\ Len(frames') = Len(frames) - 1
      /\ \A k \in 1..(Len(frames) - 1) : frames'[k] = frames[k]
  BY <1>1, Pop DEF IInv, ControlOK
<1>3. ~IsAlloc(f.id) /\ RefsOK(f.args, Len(heap)) /\ result \in Refs
  BY <1>2, ValueInRange DEF DataInv, MemoryOK, VariablesOK, Refs, Null
<1> HIDE DEF f, result
<1>4. MemoryOK'
  BY <1>1, <1>2, <1>3 DEF DataInv, MemoryOK, Refs
<1>5. \A i : IsAlloc(i)' = IsAlloc(i)
  BY <1>1 DEF IsAlloc
<1>6. \A i \in DOMAIN valueMap' :
        IsAlloc(i) => i \in DOMAIN valueMap /\ valueMap'[i] = valueMap[i]
  BY <1>1, <1>3
<1>7. VariablesAreApart'
  <2>1. ASSUME NEW i \in DOMAIN valueMap', NEW j \in DOMAIN valueMap', i # j,
               IsAlloc(i), IsAlloc(j)
        PROVE  heap'[valueMap'[i]].pointer # heap'[valueMap'[j]].pointer
    <3>1. heap[valueMap[i]].pointer # heap[valueMap[j]].pointer
      BY <1>6, <2>1 DEF DataInv, VariablesOK, VariablesAreApart
    <3> QED
      BY <1>1, <1>6, <2>1, <3>1
  <2> QED
    BY <1>5, <2>1 DEF VariablesAreApart
<1>8. VariablesOK'
  <2>1. \A i \in DOMAIN valueMap' : IsAlloc(i) =>
          valueMap'[i] \in 1..Len(heap') /\ heap'[valueMap'[i]].pointer # Null
    BY <1>1, <1>6 DEF DataInv, VariablesOK
  <2>2. \A k \in 1..Len(frames') : ~IsAlloc(frames'[k].id)
    BY <1>2 DEF DataInv, VariablesOK
  <2> QED
    BY <1>5, <1>7, <2>1, <2>2 DEF VariablesOK
<1> QED
  BY <1>4, <1>8 DEF DataInv

\* A run that stops says how.
LEMMA FaultIsStatus ==
  ASSUME IInv, ~AtEnd
  PROVE  Fault(Instruction) \in {"none", "failed", "undefined"}
<1>1. Instruction.op \in DOMAIN Arity \cup {"invoke"}
  BY InstructionIsSound DEF IsInstruction
<1>2. DOMAIN Arity \cup {"invoke"} \subseteq
        {"load", "store", "add", "alloc", "jmp", "brk", "ret", "gea", "idx", "invoke"}
          \cup Arithmetic
  BY DEF Arity, Arithmetic, Shifts
<1> DEFINE i == Instruction
<1>3. CASE i.op \in Arithmetic
  <2>1. Fault(i) = FaultOfArithmetic(i.op, i.operands[1], i.operands[2])
    BY <1>3 DEF Fault, Arithmetic, Shifts
  <2> QED
    BY <2>1 DEF FaultOfArithmetic
<1>4. CASE i.op = "load"
  <2>1. Fault(i) = FaultOfLoad(i.operands[1])
    BY <1>4 DEF Fault, Arithmetic, Shifts
  <2> QED
    BY <2>1 DEF FaultOfLoad
<1>5. CASE i.op = "store"
  <2>1. Fault(i) = FaultOfStore(i.operands[1], i.operands[2])
    BY <1>5 DEF Fault, Arithmetic, Shifts
  <2> QED
    BY <2>1 DEF FaultOfStore
<1>6. CASE i.op = "add"
  <2>1. Fault(i) = FaultOfAdd(i.operands[1], i.operands[2])
    BY <1>6 DEF Fault, Arithmetic, Shifts
  <2> QED
    BY <2>1 DEF FaultOfAdd
<1>7. CASE i.op = "brk"
  <2>1. Fault(i) = FaultOfBrk(i.operands[1])
    BY <1>7 DEF Fault, Arithmetic, Shifts
  <2> QED
    BY <2>1 DEF FaultOfBrk
<1>8. CASE i.op = "gea"
  <2>1. Fault(i) = FaultOfGea(i.operands[1])
    BY <1>8 DEF Fault, Arithmetic, Shifts
  <2> QED
    BY <2>1 DEF FaultOfGea
<1>9. CASE i.op = "idx"
  <2>1. Fault(i) = FaultOfIdx(i.operands[1], i.operands[2])
    BY <1>9 DEF Fault, Arithmetic, Shifts
  <2> QED
    BY <2>1 DEF FaultOfIdx
<1>10. CASE i.op = "invoke"
  <2>1. Fault(i) = FaultOfInvoke(i)
    BY <1>10 DEF Fault, Arithmetic, Shifts
  <2> QED
    BY <2>1 DEF FaultOfInvoke
<1>11. CASE i.op \in {"alloc", "jmp", "ret"}
  BY <1>11 DEF Fault, Arithmetic, Shifts
<1> QED
  BY <1>1, <1>2, <1>3, <1>4, <1>5, <1>6, <1>7, <1>8, <1>9, <1>10, <1>11

LEMMA StepKeepsData == IInv /\ DataInv /\ [Next]_vars => DataInv'
<1> SUFFICES ASSUME IInv, DataInv, [Next]_vars PROVE DataInv'
  OBVIOUS
<1>1. CASE Alloc
  BY <1>1, AllocKeepsData
<1>2. CASE Load
  BY <1>2, LoadKeepsData
<1>3. CASE Store
  BY <1>3, StoreKeepsData
<1>4. CASE Gea
  BY <1>4, GeaKeepsData
<1>5. ASSUME NEW op \in Binary, BinaryOp(op) PROVE DataInv'
  BY <1>5, BinaryKeepsData
<1>6. CASE Brk \/ Jmp
  BY <1>6, JumpKeepsData DEF Brk, Jmp
<1>7. CASE Ret
  BY <1>7, RetKeepsData
<1>8. CASE InvokeNative
  BY <1>8, InvokeNativeKeepsData
<1>9. CASE Invoke
  BY <1>9, InvokeKeepsData
<1>10. CASE Return
  BY <1>10, ReturnKeepsData
<1>11. CASE Halt \/ Abort \/ UNCHANGED vars
  <2>1. UNCHANGED <<program, heap, valueMap, args, retResult, frames>>
    BY <1>11 DEF Halt, Abort, vars, registers
  <2>2. status' \in {"running", "halted", "failed", "undefined"}
    BY <1>11, FaultIsStatus DEF Halt, Abort, vars, DataInv, MemoryOK
  <2> QED
    BY <2>1, <2>2 DEF DataInv, MemoryOK, VariablesOK, VariablesAreApart, IsAlloc, Refs
<1> QED
  BY <1>1, <1>2, <1>3, <1>4, <1>5, <1>6, <1>7, <1>8, <1>9, <1>10, <1>11 DEF Next

THEOREM DataInvariant == Spec => [](IInv /\ DataInv)
<1>1. Init => IInv /\ DataInv
  BY InitIInv, InitData
<1>2. IInv /\ DataInv /\ [Next]_vars => (IInv /\ DataInv)'
  BY StepPreservesIInv, StepKeepsData
<1> QED
  BY <1>1, <1>2, PTL DEF Spec

\* Every Ref<Object> that the registers, the objects and the saved registers hold
\* points at an object or is null, and numbers stay numbers, whatever program runs.
THEOREM InterpTypes == Spec => []TypeOK
<1>1. IInv /\ DataInv => TypeOK
  BY DEF IInv, ControlOK, DataInv, MemoryOK, RefsOK, Refs, TypeOK, IsObject
<1> QED
  BY <1>1, DataInvariant, PTL

\* Two allocs of a program never give the same storage, however often each is
\* executed and whatever is stored in between.
THEOREM VariablesStayApart == Spec => []VariablesAreApart
<1>1. IInv /\ DataInv => VariablesAreApart
  BY DEF DataInv, VariablesOK
<1> QED
  BY <1>1, DataInvariant, PTL

-------------------------------------------------------------------------------
\* What is known where a call stands has been computed, by whichever call.
ValuesThere ==
  \A known : ComputesFirst(program, known) =>
    \A k \in 1..Depth :
      Known(program, known, BlockAt(k), PlaceAt(k)) \subseteq DOMAIN valueMap

\* A call that has surely returned has set its flag.
ReturnedSurely ==
  \A t, sure : ReturnsSurely(program, t, sure) =>
    \A k \in 2..Depth :
      HasReturned(program, sure, BlockAt(k), PlaceAt(k)) => ReturnFlagAt(k)

\* Control is never behind a jump that is always taken.
NotBehindJump == next > 1 => Code[next - 1].op # "jmp"

\* A call is one of the function that the call below it waits for.
CalleesOK ==
  \A k \in 1..Len(frames) :
    FunctionAt(k + 1) = program.code[frames[k].current][frames[k].next - 1].aux

\* All of this is about the ways through the code alone.
PathsOK ==
  /\ CallersOK /\ ResultKept
  /\ ValuesThere /\ ReturnedSurely /\ NotBehindJump /\ CalleesOK

-------------------------------------------------------------------------------
LEMMA InitPaths == Init => PathsOK
<1> SUFFICES ASSUME Init PROVE PathsOK
  OBVIOUS
<1>1. IInv /\ CallersOK /\ frames = << >> /\ Len(frames) = 0 /\ Depth = 1 /\ next = 1
      /\ current = program.functions[1].entry
  BY InitIInv, InitCalls DEF Init, Depth
<1>2. ResultKept
  BY <1>1 DEF ResultKept
<1>3. ValuesThere
  <2> SUFFICES ASSUME NEW known, ComputesFirst(program, known), NEW k \in 1..Depth
               PROVE  Known(program, known, BlockAt(k), PlaceAt(k)) = {}
    BY DEF ValuesThere
  <2>1. BlockAt(k) = current /\ PlaceAt(k) = 1 /\ known[current] = {}
    BY <1>1 DEF BlockAt, PlaceAt, ComputesFirst
  <2>2. \A l \in DOMAIN program.code[current] : l \in Nat \ {0}
    BY <1>1, SequenceFacts DEF IInv, ControlOK, WellFormed
  <2> QED
    BY <2>1, <2>2, KnownAtStart
<1>4. ReturnedSurely
  BY <1>1 DEF ReturnedSurely
<1>5. NotBehindJump /\ CalleesOK
  BY <1>1 DEF NotBehindJump, CalleesOK
<1> QED
  BY <1>1, <1>2, <1>3, <1>4, <1>5 DEF PathsOK

\* A value that is there stays there, and so does a program.
LEMMA ValuesStay ==
  [Next]_vars => DOMAIN valueMap \subseteq DOMAIN valueMap' /\ UNCHANGED program
<1> SUFFICES ASSUME [Next]_vars
             PROVE  DOMAIN valueMap \subseteq DOMAIN valueMap' /\ UNCHANGED program
  OBVIOUS
<1>1. ASSUME NEW ref, SetValue(ref)
      PROVE  DOMAIN valueMap \subseteq DOMAIN valueMap'
  BY <1>1 DEF SetValue
<1>2. CASE Alloc \/ Load \/ Gea
  BY <1>1, <1>2 DEF Alloc, Load, Gea, Advance
<1>3. ASSUME NEW op \in Binary, BinaryOp(op)
      PROVE  DOMAIN valueMap \subseteq DOMAIN valueMap' /\ UNCHANGED program
  BY <1>1, <1>3 DEF BinaryOp, Advance
<1>4. CASE InvokeNative
  BY <1>1, <1>4 DEF InvokeNative
<1>5. CASE Store \/ Brk \/ Jmp \/ Ret \/ Invoke
  BY <1>5 DEF Store, Advance, Brk, Jmp, Jump, Ret, Invoke
<1>6. CASE Return
  BY <1>6 DEF Return
<1>7. CASE Halt \/ Abort \/ UNCHANGED vars
  BY <1>7 DEF Halt, Abort, vars
<1> QED
  BY <1>2, <1>3, <1>4, <1>5, <1>6, <1>7 DEF Next

\* Block and place of each active call after a step.
LEMMA PlacesStay ==
  ASSUME IInv, Advances \/ Jumps \/ Ret \/ Rests
  PROVE  /\ Depth' = Depth /\ Depth \in Nat \ {0}
         /\ \A k \in 1..Depth : k # Depth =>
              /\ BlockAt(k)' = BlockAt(k) /\ PlaceAt(k)' = PlaceAt(k)
              /\ ReturnFlagAt(k)' = ReturnFlagAt(k)
         /\ BlockAt(Depth) = current /\ PlaceAt(Depth) = next
         /\ BlockAt(Depth)' = current' /\ PlaceAt(Depth)' = next'
         /\ ReturnFlagAt(Depth) = isReturn /\ ReturnFlagAt(Depth)' = isReturn'
<1>1. Depth' = Depth /\ UNCHANGED <<program, frames>>
  BY CallsStay
<1>2. Depth \in Nat \ {0}
  BY SequenceFacts DEF Depth, IInv, ControlOK
<1> QED
  BY <1>1, <1>2 DEF BlockAt, PlaceAt, ReturnFlagAt

LEMMA PlacesPushed ==
  ASSUME IInv, Invoke
  PROVE  /\ Depth \in Nat \ {0} /\ Depth' = Depth + 1
         /\ \A k \in 1..Depth :
              /\ BlockAt(k)' = BlockAt(k) /\ PlaceAt(k)' = PlaceAt(k)
              /\ ReturnFlagAt(k)' = ReturnFlagAt(k)
         /\ BlockAt(Depth)' = current' /\ PlaceAt(Depth)' = 1
         /\ ReturnFlagAt(Depth)' = FALSE
<1>1. /\ Depth \in Nat \ {0} /\ Depth' = Depth + 1
      /\ \A k \in 1..(Depth - 1) : frames'[k] = frames[k]
      /\ frames'[Depth] = Saved /\ next' = 1 /\ ~AtEnd
  BY CallBegins
<1>2. isReturn' = FALSE
  BY DEF Invoke, Enter
<1>3. Saved.current = current /\ Saved.next - 1 = next /\ Saved.isReturn = isReturn
  BY <1>1, NextPlace DEF Saved, Frame
<1>4. ASSUME NEW k \in 1..Depth
      PROVE  /\ BlockAt(k)' = BlockAt(k) /\ PlaceAt(k)' = PlaceAt(k)
             /\ ReturnFlagAt(k)' = ReturnFlagAt(k)
  <2>1. k # Depth'
    BY <1>1
  <2>2. CASE k = Depth
    BY <1>1, <1>3, <2>1, <2>2 DEF BlockAt, PlaceAt, ReturnFlagAt
  <2>3. CASE k # Depth
    BY <1>1, <2>1, <2>3 DEF BlockAt, PlaceAt, ReturnFlagAt
  <2> QED
    BY <2>2, <2>3
<1> QED
  BY <1>1, <1>2, <1>4 DEF BlockAt, PlaceAt, ReturnFlagAt

\* A call that ends gives the registers back at the instruction behind its invoke.
LEMMA PlacesPopped ==
  ASSUME IInv, CallersOK, Return
  PROVE  /\ Depth' \in Nat \ {0} /\ Depth = Depth' + 1 /\ Depth' = Len(frames)
         /\ \A k \in 1..Depth' : k # Depth' =>
              /\ BlockAt(k)' = BlockAt(k) /\ PlaceAt(k)' = PlaceAt(k)
              /\ ReturnFlagAt(k)' = ReturnFlagAt(k)
         /\ BlockAt(Depth)' = BlockAt(Depth') /\ PlaceAt(Depth)' = PlaceAt(Depth') + 1
         /\ ReturnFlagAt(Depth)' = ReturnFlagAt(Depth')
         /\ current' = BlockAt(Depth') /\ next' = PlaceAt(Depth') + 1
         /\ BlockAt(Depth') \in DOMAIN program.code
         /\ PlaceAt(Depth') \in DOMAIN program.code[BlockAt(Depth')]
         /\ LET i == program.code[BlockAt(Depth')][PlaceAt(Depth')] IN
            CallsOwn(program, i) /\ i.id = frames[Depth'].id /\ i.id \in DOMAIN valueMap'
<1> DEFINE f == frames[Len(frames)]
<1>1. /\ Len(frames) \in Nat \ {0} /\ Depth = Len(frames) + 1 /\ Depth' = Len(frames)
      /\ \A k \in 1..(Len(frames) - 1) : frames'[k] = frames[k]
  BY CallEnds
<1>2. /\ next' = f.next /\ current' = f.current /\ isReturn' = f.isReturn
      /\ f.id \in DOMAIN valueMap'
  BY DEF Return, Resume
<1>3. /\ f.current \in DOMAIN program.code
      /\ f.next \in 2..(Len(program.code[f.current]) + 1)
      /\ LET i == program.code[f.current][f.next - 1] IN
         CallsOwn(program, i) /\ i.id = f.id
  BY <1>1 DEF CallersOK, IInv, ControlOK
<1>4. f.next - 1 \in DOMAIN program.code[f.current] /\ f.next \in Nat
  BY <1>3, SequenceFacts DEF IInv, ControlOK, WellFormed
<1> HIDE DEF f
<1>5. BlockAt(Depth') = f.current /\ PlaceAt(Depth') = f.next - 1
      /\ ReturnFlagAt(Depth') = f.isReturn
  BY <1>1 DEF BlockAt, PlaceAt, ReturnFlagAt, f
<1>6. BlockAt(Depth)' = current' /\ PlaceAt(Depth)' = next' /\ ReturnFlagAt(Depth)' = isReturn'
  BY DEF BlockAt, PlaceAt, ReturnFlagAt
<1>7. ASSUME NEW k \in 1..Depth', k # Depth'
      PROVE  /\ BlockAt(k)' = BlockAt(k) /\ PlaceAt(k)' = PlaceAt(k)
             /\ ReturnFlagAt(k)' = ReturnFlagAt(k)
  BY <1>1, <1>7 DEF BlockAt, PlaceAt, ReturnFlagAt
<1>8. frames[Depth'].id = f.id
  BY <1>1 DEF f
<1> QED
  BY <1>1, <1>2, <1>3, <1>4, <1>5, <1>6, <1>7, <1>8

LEMMA StepKeepsThere ==
  ASSUME IInv, CallersOK, ValuesThere, [Next]_vars
  PROVE  ValuesThere'
<1> SUFFICES ASSUME NEW known, ComputesFirst(program, known)', NEW k \in 1..Depth',
                    NEW id \in Known(program, known, BlockAt(k), PlaceAt(k))'
             PROVE  id \in DOMAIN valueMap'
  BY DEF ValuesThere
<1>1. /\ UNCHANGED program /\ ComputesFirst(program, known)
      /\ \A v \in DOMAIN valueMap : v \in DOMAIN valueMap'
      /\ id \in Known(program, known, BlockAt(k)', PlaceAt(k)')
  BY ValuesStay
<1>2. \A j \in 1..Depth : \A v \in Known(program, known, BlockAt(j), PlaceAt(j)) :
        v \in DOMAIN valueMap'
  BY <1>1 DEF ValuesThere
<1>3. \A b \in DOMAIN program.code : DOMAIN program.code[b] \subseteq Nat \ {0}
  BY SequenceFacts DEF IInv, ControlOK, WellFormed
<1>4. ASSUME Advances \/ Jumps \/ Ret \/ Rests
      PROVE  id \in DOMAIN valueMap'
  <2>1. /\ Depth' = Depth /\ Depth \in Nat \ {0}
        /\ \A j \in 1..Depth : j # Depth =>
             BlockAt(j)' = BlockAt(j) /\ PlaceAt(j)' = PlaceAt(j)
        /\ BlockAt(Depth) = current /\ PlaceAt(Depth) = next
        /\ BlockAt(Depth)' = current' /\ PlaceAt(Depth)' = next'
    BY <1>4, PlacesStay
  <2>2. CASE k # Depth
    BY <1>1, <1>2, <2>1, <2>2
  <2>3. CASE k = Depth
    <3>1. \A v \in Known(program, known, current, next) : v \in DOMAIN valueMap'
      BY <1>2, <2>1
    <3>2. id \in Known(program, known, current', next')
      BY <1>1, <2>1, <2>3
    <3>3. CASE Rests
      BY <3>1, <3>2, <3>3 DEF Rests
    <3>4. CASE Advances \/ Jumps \/ Ret
      <4>1. ~AtEnd
        BY <3>4 DEF Advances, Jumps, Ret, Executes
      <4>2. /\ current \in DOMAIN program.code /\ next \in DOMAIN program.code[current]
            /\ Instruction = program.code[current][next] /\ next \in Nat
            /\ DOMAIN program.code[current] \subseteq Nat
        BY <1>3, <4>1, CurrentInstruction
      <4>3. CASE current' = current /\ next' = next + 1
        <5>1. Instruction.op \in Computes => Instruction.id \in DOMAIN valueMap'
          <6>1. Jumps \/ Ret => Instruction.op \notin Computes
            BY DEF Jumps, Ret, Executes, Computes, Binary, Arithmetic, Shifts
          <6>2. Advances /\ Instruction.op \in Computes => \E ref : SetValue(ref)
            BY DEF Advances
          <6> QED
            BY <3>4, <6>1, <6>2 DEF SetValue
        <5>2. \/ id \in Known(program, known, current, next)
              \/ Instruction.op \in Computes /\ id = Instruction.id
          BY <3>2, <4>2, <4>3, KnownBehind
        <5> QED
          BY <3>1, <5>1, <5>2
      <4>4. CASE Jumps /\ current' = Instruction.aux /\ next' = 1
        <5>1. Instruction.op \in {"brk", "jmp"} /\ Instruction.aux \in DOMAIN program.code
          BY <4>1, <4>4, CurrentInstruction DEF Jumps
        <5>2. id \in known[Instruction.aux]
          BY <1>3, <3>2, <4>4, <5>1, KnownAtStart
        <5>3. known[Instruction.aux] \subseteq Known(program, known, current, next)
          BY <1>1, <4>2, <5>1 DEF ComputesFirst
        <5> QED
          BY <3>1, <5>2, <5>3
      <4> QED
        BY <3>4, <4>3, <4>4 DEF Advances, Jumps, Ret
    <3> QED
      BY <1>4, <3>3, <3>4
  <2> QED
    BY <2>2, <2>3
<1>5. CASE Invoke
  <2>1. /\ Depth \in Nat \ {0} /\ Depth' = Depth + 1
        /\ \A j \in 1..Depth : BlockAt(j)' = BlockAt(j) /\ PlaceAt(j)' = PlaceAt(j)
        /\ BlockAt(Depth)' = current' /\ PlaceAt(Depth)' = 1
    BY <1>5, PlacesPushed
  <2>2. CASE k \in 1..Depth
    BY <1>1, <1>2, <2>1, <2>2
  <2>3. CASE k = Depth'
    <3>1. /\ ~AtEnd /\ CallsOwn(program, Instruction)
          /\ current' = program.functions[Instruction.aux].entry
      BY <1>5, CallBegins
    <3>2. /\ current \in DOMAIN program.code /\ next \in DOMAIN program.code[current]
          /\ Instruction = program.code[current][next]
      BY <3>1, CurrentInstruction
    <3>3. current' \in DOMAIN program.code
      BY <1>1, <1>5, StepPreservesIInv DEF IInv, ControlOK, Next
    <3>4. id \in known[current']
      BY <1>1, <1>3, <2>1, <2>3, <3>3, KnownAtStart
    <3>5. id \in Known(program, known, current, next)
      BY <1>1, <3>1, <3>2, <3>4 DEF ComputesFirst
    <3>6. BlockAt(Depth) = current /\ PlaceAt(Depth) = next
      BY DEF BlockAt, PlaceAt
    <3> QED
      BY <1>2, <2>1, <3>5, <3>6
  <2> QED
    BY <2>1, <2>2, <2>3
<1>6. CASE Return
  <2>0. PICK d, b, at : d = Depth' /\ b = BlockAt(d) /\ at = PlaceAt(d)
    OBVIOUS
  <2>1. /\ d \in Nat \ {0} /\ Depth = d + 1
        /\ \A j \in 1..d : j # d => BlockAt(j)' = BlockAt(j) /\ PlaceAt(j)' = PlaceAt(j)
        /\ BlockAt(Depth)' = b /\ PlaceAt(Depth)' = at + 1
        /\ b \in DOMAIN program.code /\ at \in DOMAIN program.code[b]
        /\ program.code[b][at].id \in DOMAIN valueMap'
    BY <1>6, <2>0, PlacesPopped
  <2>2. d \in Nat \ {0} /\ Depth = d + 1 /\ d = Depth'
    BY ONLY <2>0, <2>1
  <2>3. k \in 1..d /\ k \in 1..Depth /\ d \in 1..Depth
    <3>1. d = Depth' /\ k \in 1..Depth'
      BY <2>2
    <3>2. k \in 1..d
      BY ONLY <3>1
    <3>3. d \in Nat \ {0} /\ Depth = d + 1
      BY <2>2
    <3> QED
      BY ONLY <3>2, <3>3
  <2>4. CASE k # d
    <3>1. BlockAt(k)' = BlockAt(k) /\ PlaceAt(k)' = PlaceAt(k)
      BY <2>1, <2>3, <2>4
    <3> QED
      BY <1>1, <1>2, <2>3, <3>1
  <2>5. CASE k = d
    <3>1. BlockAt(k)' = b /\ PlaceAt(k)' = at + 1
      BY ONLY <2>1, <2>2, <2>5
    <3>2. id \in Known(program, known, b, at + 1)
      BY <1>1, <3>1
    <3>3. at \in Nat /\ DOMAIN program.code[b] \subseteq Nat
      BY <1>3, <2>1
    <3>4. \/ id \in Known(program, known, b, at)
          \/ id = program.code[b][at].id
      BY <3>2, <3>3, KnownBehind
    <3>5. \A v \in Known(program, known, b, at) : v \in DOMAIN valueMap'
      BY <1>2, <2>0, <2>3
    <3> QED
      BY <2>1, <3>4, <3>5
  <2> QED
    BY <2>4, <2>5
<1> QED
  BY <1>4, <1>5, <1>6, StepKinds

\* Behind one more instruction a ret is behind only if it was, or is that one.
LEMMA ReturnedBehind ==
  ASSUME NEW p, NEW sure, NEW b, NEW at \in Nat, DOMAIN p.code[b] \subseteq Nat,
         HasReturned(p, sure, b, at + 1)
  PROVE  \/ HasReturned(p, sure, b, at)
         \/ at \in DOMAIN p.code[b] /\ p.code[b][at].op = "ret"
<1>1. CASE b \in sure
  BY <1>1 DEF HasReturned
<1>2. CASE b \notin sure
  <2>1. PICK l \in DOMAIN p.code[b] : l < at + 1 /\ p.code[b][l].op = "ret"
    BY <1>2 DEF HasReturned
  <2>2. l = at \/ l < at
    BY <2>1
  <2> QED
    BY <2>1, <2>2 DEF HasReturned
<1> QED
  BY <1>1, <1>2

LEMMA StepKeepsReturned ==
  ASSUME IInv, CallersOK, ReturnedSurely, [Next]_vars
  PROVE  ReturnedSurely'
<1> SUFFICES ASSUME NEW t, NEW sure, ReturnsSurely(program, t, sure)', NEW k \in 2..Depth',
                    HasReturned(program, sure, BlockAt(k), PlaceAt(k))'
             PROVE  ReturnFlagAt(k)'
  BY DEF ReturnedSurely
<1>1. /\ UNCHANGED program /\ ReturnsSurely(program, t, sure)
      /\ HasReturned(program, sure, BlockAt(k)', PlaceAt(k)')
  BY ValuesStay
<1>2. \A j \in 2..Depth :
        HasReturned(program, sure, BlockAt(j), PlaceAt(j)) => ReturnFlagAt(j)
  BY <1>1 DEF ReturnedSurely
<1>3. \A b \in DOMAIN program.code : DOMAIN program.code[b] \subseteq Nat \ {0}
  BY SequenceFacts DEF IInv, ControlOK, WellFormed
<1>4. ASSUME NEW b \in DOMAIN program.code, HasReturned(program, sure, b, 1)
      PROVE  b \in sure
  BY <1>3, <1>4 DEF HasReturned
<1>5. ASSUME Advances \/ Jumps \/ Ret \/ Rests
      PROVE  ReturnFlagAt(k)'
  <2>1. /\ Depth' = Depth /\ Depth \in Nat \ {0}
        /\ \A j \in 1..Depth : j # Depth =>
             /\ BlockAt(j)' = BlockAt(j) /\ PlaceAt(j)' = PlaceAt(j)
             /\ ReturnFlagAt(j)' = ReturnFlagAt(j)
        /\ BlockAt(Depth) = current /\ PlaceAt(Depth) = next
        /\ BlockAt(Depth)' = current' /\ PlaceAt(Depth)' = next'
        /\ ReturnFlagAt(Depth) = isReturn /\ ReturnFlagAt(Depth)' = isReturn'
    BY <1>5, PlacesStay
  <2>2. CASE k # Depth
    BY <1>1, <1>2, <2>1, <2>2
  <2>3. CASE k = Depth
    <3>1. HasReturned(program, sure, current, next) => isReturn
      BY <1>2, <2>1, <2>3
    <3>2. HasReturned(program, sure, current', next')
      BY <1>1, <2>1, <2>3
    <3>3. CASE Rests
      BY <2>1, <2>3, <3>1, <3>2, <3>3 DEF Rests
    <3>4. CASE Ret
      BY <2>1, <2>3, <3>4 DEF Ret
    <3>5. CASE Advances \/ Jumps
      <4>1. ~AtEnd /\ isReturn' = isReturn /\ Instruction.op # "ret"
        BY <3>5 DEF Advances, Jumps
      <4>2. /\ current \in DOMAIN program.code /\ next \in DOMAIN program.code[current]
            /\ Instruction = program.code[current][next] /\ next \in Nat
            /\ DOMAIN program.code[current] \subseteq Nat
        BY <1>3, <4>1, CurrentInstruction
      <4>3. HasReturned(program, sure, current, next)
        <5>1. CASE current' = current /\ next' = next + 1
          BY <3>2, <4>1, <4>2, <5>1, ReturnedBehind
        <5>2. CASE Jumps /\ current' = Instruction.aux /\ next' = 1
          <6>1. /\ Instruction.op \in {"brk", "jmp"}
                /\ Instruction.aux \in DOMAIN program.code
            BY <4>1, <5>2, CurrentInstruction DEF Jumps
          <6>2. Instruction.aux \in sure
            BY <1>4, <3>2, <5>2, <6>1
          <6> QED
            BY <1>1, <4>2, <6>1, <6>2 DEF ReturnsSurely
        <5> QED
          BY <3>5, <5>1, <5>2 DEF Advances, Jumps
      <4> QED
        BY <2>1, <2>3, <3>1, <4>1, <4>3
    <3> QED
      BY <1>5, <3>3, <3>4, <3>5
  <2> QED
    BY <2>2, <2>3
<1>6. CASE Invoke
  <2>1. /\ Depth \in Nat \ {0} /\ Depth' = Depth + 1
        /\ \A j \in 1..Depth : /\ BlockAt(j)' = BlockAt(j) /\ PlaceAt(j)' = PlaceAt(j)
                               /\ ReturnFlagAt(j)' = ReturnFlagAt(j)
        /\ BlockAt(Depth)' = current' /\ PlaceAt(Depth)' = 1
    BY <1>6, PlacesPushed
  <2>2. CASE k \in 1..Depth
    BY <1>1, <1>2, <2>1, <2>2
  <2>3. k # Depth'
    <3> SUFFICES ASSUME k = Depth' PROVE FALSE
      OBVIOUS
    <3>1. /\ Instruction.aux \in DOMAIN program.functions
          /\ ~program.functions[Instruction.aux].extern
          /\ current' = program.functions[Instruction.aux].entry
      BY <1>6, FunctionIsNamed, CallBegins DEF Invoke
    <3>2. current' \in DOMAIN program.code
      BY <3>1 DEF IInv, ControlOK, WellFormed
    <3>3. current' \in sure
      BY <1>1, <1>4, <2>1, <3>2
    <3> QED
      BY <1>1, <3>1, <3>3 DEF ReturnsSurely
  <2> QED
    BY <2>1, <2>2, <2>3
<1>7. CASE Return
  <2>0. PICK d, b, at : d = Depth' /\ b = BlockAt(d) /\ at = PlaceAt(d)
    OBVIOUS
  <2>1. /\ d \in Nat \ {0} /\ Depth = d + 1
        /\ \A j \in 1..d : j # d =>
             /\ BlockAt(j)' = BlockAt(j) /\ PlaceAt(j)' = PlaceAt(j)
             /\ ReturnFlagAt(j)' = ReturnFlagAt(j)
        /\ BlockAt(Depth)' = b /\ PlaceAt(Depth)' = at + 1
        /\ ReturnFlagAt(Depth)' = ReturnFlagAt(d)
        /\ b \in DOMAIN program.code /\ at \in DOMAIN program.code[b]
        /\ CallsOwn(program, program.code[b][at])
    BY <1>7, <2>0, PlacesPopped
  <2>2. d \in Nat \ {0} /\ Depth = d + 1 /\ d = Depth'
    BY ONLY <2>0, <2>1
  <2>3. k \in 1..d /\ k \in 2..Depth
    <3>1. d = Depth' /\ k \in 2..Depth'
      BY <2>2
    <3>2. k \in 2..d
      BY ONLY <3>1
    <3>3. d \in Nat \ {0} /\ Depth = d + 1
      BY <2>2
    <3> QED
      BY ONLY <3>2, <3>3
  <2>4. CASE k # d
    <3>1. /\ BlockAt(k)' = BlockAt(k) /\ PlaceAt(k)' = PlaceAt(k)
          /\ ReturnFlagAt(k)' = ReturnFlagAt(k)
      BY <2>1, <2>3, <2>4
    <3> QED
      BY <1>1, <1>2, <2>3, <3>1
  <2>5. CASE k = d
    <3>1. /\ BlockAt(k)' = b /\ PlaceAt(k)' = at + 1
          /\ ReturnFlagAt(k)' = ReturnFlagAt(d)
      BY ONLY <2>1, <2>2, <2>5
    <3>2. HasReturned(program, sure, b, at + 1)
      BY <1>1, <3>1
    <3>3. at \in Nat /\ DOMAIN program.code[b] \subseteq Nat
          /\ program.code[b][at].op # "ret"
      BY <1>3, <2>1 DEF CallsOwn
    <3>4. HasReturned(program, sure, b, at)
      BY <3>2, <3>3, ReturnedBehind
    <3>5. HasReturned(program, sure, BlockAt(k), PlaceAt(k))
      BY <2>0, <2>5, <3>4
    <3> QED
      BY <1>2, <2>3, <2>5, <3>1, <3>5
  <2> QED
    BY <2>4, <2>5
<1> QED
  BY <1>5, <1>6, <1>7, StepKinds

LEMMA StepKeepsBehindJump ==
  ASSUME IInv, CallersOK, NotBehindJump, [Next]_vars
  PROVE  NotBehindJump'
<1>1. UNCHANGED program
  BY ValuesStay
<1>2. ASSUME ~AtEnd
      PROVE  next \in Nat /\ Instruction = program.code[current][next]
  BY <1>2, NextPlace DEF Instruction, Code
<1>3. ASSUME ~AtEnd, Instruction.op # "jmp", current' = current, next' = next + 1
      PROVE  NotBehindJump'
  <2>1. next' - 1 = next /\ Code' = program.code[current]
    BY <1>1, <1>2, <1>3 DEF Code
  <2> QED
    BY <1>2, <1>3, <2>1 DEF NotBehindJump
<1>4. CASE Advances \/ Ret
  <2>1. ~AtEnd /\ Instruction.op # "jmp" /\ current' = current /\ next' = next + 1
    BY <1>4 DEF Advances, Ret, Executes
  <2> QED
    BY <1>3, <2>1
<1>5. CASE Brk \/ Jmp
  <2>1. next' = 1 \/ (~AtEnd /\ Instruction.op = "brk" /\ current' = current /\ next' = next + 1)
    BY <1>5 DEF Brk, Jmp, Jump, Executes
  <2>2. CASE next' = 1
    BY <2>2 DEF NotBehindJump
  <2> QED
    BY <1>3, <2>1, <2>2
<1>6. CASE Invoke
  <2>1. next' = 1
    BY <1>6, CallBegins
  <2> QED
    BY <2>1 DEF NotBehindJump
<1>7. CASE Return
  <2>1. PICK b, at : b = BlockAt(Depth') /\ at = PlaceAt(Depth')
    OBVIOUS
  <2>2. /\ current' = b /\ next' = at + 1
        /\ b \in DOMAIN program.code /\ at \in DOMAIN program.code[b]
        /\ CallsOwn(program, program.code[b][at])
    BY <1>7, <2>1, PlacesPopped
  <2>3. at \in Nat /\ program.code[b][at].op # "jmp"
    BY <2>2, SequenceFacts DEF IInv, ControlOK, WellFormed, CallsOwn
  <2>4. next' - 1 = at /\ Code' = program.code[b]
    BY <1>1, <2>2, <2>3 DEF Code
  <2> QED
    BY <2>3, <2>4 DEF NotBehindJump
<1>8. CASE Rests
  BY <1>8 DEF Rests, NotBehindJump, Code
<1>9. Jumps => Brk \/ Jmp \/ Rests
  <2> SUFFICES ASSUME ~AtEnd, Instruction.op \in {"brk", "jmp"} PROVE Brk \/ Jmp \/ Rests
    BY DEF Jumps
  <2>1. ~Return /\ ~Alloc /\ ~Load /\ ~Store /\ ~Gea /\ ~Ret /\ ~InvokeNative /\ ~Invoke
    BY DEF Return, Alloc, Load, Store, Gea, Ret, InvokeNative, Invoke, Executes
  <2>2. ASSUME NEW op \in Binary PROVE ~BinaryOp(op)
    BY <2>2 DEF BinaryOp, Executes, Binary, Arithmetic, Shifts
  <2>3. Halt \/ Abort \/ UNCHANGED vars => Rests
    BY DEF Halt, Abort, Rests, vars, registers
  <2> QED
    BY <2>1, <2>2, <2>3 DEF Next
<1> QED
  BY <1>4, <1>5, <1>6, <1>7, <1>8, <1>9, StepKinds

LEMMA StepKeepsCallees ==
  ASSUME IInv, CallersOK, CalleesOK, [Next]_vars
  PROVE  CalleesOK'
<1>1. CASE Advances \/ Jumps \/ Ret \/ Rests
  BY <1>1, CallsStay DEF CalleesOK
<1>2. CASE Invoke
  <2>1. /\ Depth \in Nat \ {0} /\ Depth' = Depth + 1 /\ UNCHANGED program /\ ~AtEnd
        /\ \A k \in 1..Depth : FunctionAt(k)' = FunctionAt(k)
        /\ FunctionAt(Depth)' = Instruction.aux
        /\ \A k \in 1..(Depth - 1) : frames'[k] = frames[k]
        /\ frames'[Depth] = Saved
    BY <1>2, CallBegins
  <2>2. Depth = Len(frames) + 1 /\ Len(frames') = Depth /\ Len(frames) \in Nat
    BY <1>2, Push DEF Invoke, Depth, IInv, ControlOK
  <2>3. /\ Saved.current = current /\ Saved.next - 1 = next
        /\ Instruction = program.code[current][next]
    BY <2>1, NextPlace DEF Saved, Frame, Instruction, Code
  <2> SUFFICES ASSUME NEW k \in 1..Len(frames')
               PROVE  FunctionAt(k + 1)' =
                        program'.code[frames'[k].current][frames'[k].next - 1].aux
    BY DEF CalleesOK
  <2>4. CASE k \in 1..Len(frames)
    <3>1. k + 1 \in 1..Depth /\ k \in 1..(Depth - 1)
      BY <2>2, <2>4
    <3> QED
      BY <2>1, <2>4, <3>1 DEF CalleesOK
  <2>5. CASE k = Depth
    <3>1. FunctionAt(k + 1)' = Instruction.aux
      BY <2>1, <2>5
    <3>2. frames'[k].current = current /\ frames'[k].next - 1 = next
      BY <2>1, <2>3, <2>5
    <3> QED
      BY <2>1, <2>3, <3>1, <3>2
  <2> QED
    BY <2>2, <2>4, <2>5
<1>3. CASE Return
  <2>1. /\ Len(frames) \in Nat \ {0} /\ Depth = Len(frames) + 1 /\ Depth' = Len(frames)
        /\ UNCHANGED program
        /\ \A k \in 1..Depth' : FunctionAt(k)' = FunctionAt(k)
        /\ \A k \in 1..(Len(frames) - 1) : frames'[k] = frames[k]
    BY <1>3, CallEnds
  <2>2. Len(frames') = Len(frames) - 1
    BY <1>3, Pop DEF Return, IInv, ControlOK
  <2> SUFFICES ASSUME NEW k \in 1..Len(frames')
               PROVE  FunctionAt(k + 1)' =
                        program'.code[frames'[k].current][frames'[k].next - 1].aux
    BY DEF CalleesOK
  <2>3. k \in 1..Len(frames) /\ k \in 1..(Len(frames) - 1) /\ k + 1 \in 1..Len(frames)
    BY <2>1, <2>2
  <2>4. k + 1 \in 1..Depth'
    BY <2>1, <2>3
  <2> QED
    BY <2>1, <2>3, <2>4 DEF CalleesOK
<1> QED
  BY <1>1, <1>2, <1>3, StepKinds

LEMMA StepKeepsPaths == IInv /\ PathsOK /\ [Next]_vars => PathsOK'
  BY StepKeepsCallers, StepKeepsResult, StepKeepsThere, StepKeepsReturned,
     StepKeepsBehindJump, StepKeepsCallees DEF PathsOK

-------------------------------------------------------------------------------
\* Kinds of the objects on the heap: ref is one of kind, and so are those that a call
\* was given.
Has(kinds, ref, kind) == kind # NoKind => ref \in DOMAIN kinds /\ kinds[ref] = kind
ArgsFit(kinds, as, ks) ==
  \A n \in DOMAIN ks : n \in DOMAIN as /\ Has(kinds, as[n], ks[n])
Extends(all, kinds) == \A r \in DOMAIN kinds : r \in DOMAIN all /\ all[r] = kinds[r]

\* Values, arguments of every active call and the result to hand back are of the kinds
\* that the typing t gives.
Kinded(t, kinds) ==
  /\ Fits(heap, kinds)
  /\ \A i \in DOMAIN valueMap : Has(kinds, valueMap[i], t.value[i])
  /\ \A k \in 1..Depth : ArgsFit(kinds, ArgumentsAt(k), t.param[FunctionAt(k)])
  /\ isReturn /\ frames # << >> =>
       Has(kinds, retResult, t.result[FunctionOf(current)])

LEMMA HasInMore ==
  ASSUME NEW kinds, NEW all, Extends(all, kinds)
  PROVE  /\ \A ref, kind : Has(kinds, ref, kind) => Has(all, ref, kind)
         /\ \A as, ks : ArgsFit(kinds, as, ks) => ArgsFit(all, as, ks)
  BY DEF Extends, Has, ArgsFit

\* What is of a kind stays of it when objects are added.
LEMMA OfKindInMore ==
  ASSUME NEW kinds, NEW all, Extends(all, kinds), NEW o, NEW kind, OfKind(o, kinds, kind)
  PROVE  OfKind(o, all, kind)
  BY DEF Extends, OfKind

\* u has m objects behind the n of s.
Prolongs(u, s, n, m) ==
  /\ n \in Nat /\ m \in Nat
  /\ DOMAIN s = 1..n /\ DOMAIN u = 1..(n + m)
  /\ \A r \in 1..n : u[r] = s[r]

\* Pointers and members of the new ones lead to new ones.
AmongNew(o, n, more, kind) ==
  /\ o.type = kind.is
  /\ kind.is = "pointer" =>
       \E j \in DOMAIN more : o.pointer = n + j /\ more[j] = kind.to
  /\ kind.is = "struct" =>
       \A f \in DOMAIN kind.has :
         /\ f \in DOMAIN o.members
         /\ \E j \in DOMAIN more : o.members[f] = n + j /\ more[j] = kind.has[f]
NewFit(u, n, m, more) ==
  DOMAIN more = 1..m /\ \A k \in 1..m : AmongNew(u[n + k], n, more, more[k])

\* all has the kinds of the old objects, and those of the new ones behind.
Grown(all, u, kinds, n, m, more) ==
  /\ Fits(u, all) /\ Extends(all, kinds)
  /\ \A k \in 1..m : n + k \in DOMAIN all /\ all[n + k] = more[k]

LEMMA MoreObjects ==
  ASSUME NEW s, NEW u, NEW n, NEW m, Prolongs(u, s, n, m),
         NEW kinds, Fits(s, kinds), NEW more, NewFit(u, n, m, more)
  PROVE  \E all : Grown(all, u, kinds, n, m, more)
<1> DEFINE all == [r \in 1..(n + m) |-> IF r \in 1..n THEN kinds[r] ELSE more[r - n]]
<1>1. /\ n \in Nat /\ m \in Nat /\ DOMAIN kinds = 1..n /\ DOMAIN more = 1..m
      /\ DOMAIN u = 1..(n + m) /\ \A r \in 1..n : u[r] = s[r]
      /\ \A r \in 1..n : OfKind(s[r], kinds, kinds[r])
      /\ \A k \in 1..m : AmongNew(u[n + k], n, more, more[k])
  BY DEF Fits, Prolongs, NewFit
<1>2. \A k \in 1..m : n + k \in DOMAIN all /\ all[n + k] = more[k]
  BY <1>1
<1>3. DOMAIN all = 1..(n + m) /\ \A r \in 1..n : r \in DOMAIN all /\ all[r] = kinds[r]
  BY <1>1
<1> HIDE DEF all
<1>4. Extends(all, kinds)
  BY <1>1, <1>3 DEF Extends
<1>5. ASSUME NEW r \in 1..n PROVE OfKind(u[r], all, all[r])
  BY <1>1, <1>3, <1>4, OfKindInMore
<1>6. ASSUME NEW k \in 1..m PROVE OfKind(u[n + k], all, all[n + k])
  <2>1. AmongNew(u[n + k], n, more, more[k]) /\ all[n + k] = more[k]
    BY <1>1, <1>2
  <2>2. \A j \in DOMAIN more : n + j \in DOMAIN all /\ all[n + j] = more[j]
    BY <1>1, <1>2
  <2> QED
    BY <2>1, <2>2 DEF AmongNew, OfKind
<1>7. ASSUME NEW r \in 1..(n + m) PROVE OfKind(u[r], all, all[r])
  <2>1. r \in 1..n \/ (r - n \in 1..m /\ r = n + (r - n))
    BY <1>1
  <2>2. CASE r \in 1..n
    BY <1>5, <2>2
  <2>3. CASE r - n \in 1..m /\ r = n + (r - n)
    <3>1. OfKind(u[n + (r - n)], all, all[n + (r - n)])
      BY <1>6, <2>3
    <3> QED
      BY <2>3, <3>1
  <2> QED
    BY <2>1, <2>2, <2>3
<1>8. Fits(u, all)
  BY <1>1, <1>3, <1>7 DEF Fits
<1> QED
  BY <1>2, <1>4, <1>8 DEF Grown

\* Numbers and strings refer to nothing.
LEMMA PlainObjects ==
  ASSUME NEW s, NEW u, NEW n, NEW m, Prolongs(u, s, n, m), NEW kinds, Fits(s, kinds),
         \A k \in 1..m : u[n + k].type \in {"number", "string"}
  PROVE  \E all : Grown(all, u, kinds, n, m, [k \in 1..m |-> Plain(u[n + k].type)])
<1> DEFINE more == [k \in 1..m |-> Plain(u[n + k].type)]
<1>1. DOMAIN more = 1..m /\ \A k \in 1..m : more[k] = Plain(u[n + k].type)
  OBVIOUS
<1> HIDE DEF more
<1>2. \A k \in 1..m : AmongNew(u[n + k], n, more, more[k])
  BY <1>1 DEF AmongNew, Plain
<1>3. NewFit(u, n, m, more)
  BY <1>1, <1>2 DEF NewFit
<1>4. \E all : Grown(all, u, kinds, n, m, more)
  BY <1>3, MoreObjects
<1> QED
  BY <1>4 DEF more

LEMMA HeapProlonged ==
  ASSUME MemoryOK, NEW made, IsSequence(made)
  PROVE  /\ Prolongs(heap \o made, heap, Len(heap), Len(made))
         /\ \A k \in 1..Len(made) : (heap \o made)[Len(heap) + k] = made[k]
<1>1. IsSequence(heap) /\ Len(heap) \in Nat /\ DOMAIN heap = 1..Len(heap) /\ Len(made) \in Nat
  BY SequenceFacts DEF MemoryOK
<1>2. /\ IsSequence(heap \o made) /\ Len(heap \o made) = Len(heap) + Len(made)
      /\ \A k \in 1..Len(heap) : (heap \o made)[k] = heap[k]
      /\ \A k \in 1..Len(made) : (heap \o made)[Len(heap) + k] = made[k]
  BY <1>1, Concatenated
<1>3. DOMAIN (heap \o made) = 1..(Len(heap) + Len(made))
  BY <1>2, SequenceFacts
<1> QED
  BY <1>1, <1>2, <1>3 DEF Prolongs

\* The objects of an alloc are of the kinds that its layout has.
LEMMA KindsWithLayout ==
  ASSUME MemoryOK, NEW layout, IsLayout(layout), NEW kinds, Fits(heap, kinds),
         NEW more, Fits(layout, more)
  PROVE  \E all : /\ Fits(heap \o Moved(layout), all) /\ Extends(all, kinds)
                  /\ Has(all, Len(heap) + 1, more[1])
<1> DEFINE n == Len(heap)
           m == Len(layout)
           moved == Moved(layout)
           u == heap \o moved
<1>1. n \in Nat /\ IsSequence(moved) /\ Len(moved) = m /\ m \in Nat \ {0}
  BY MovedLayout, ValueInRange
<1>2. DOMAIN layout = 1..m /\ DOMAIN more = 1..m
  BY SequenceFacts DEF IsLayout, Fits
<1>3. ASSUME NEW k \in 1..m
      PROVE  AmongNew(moved[k], n, more, more[k])
  <2>1. k \in DOMAIN layout
    BY <1>2
  <2>2. /\ moved[k].type = layout[k].type
        /\ moved[k].pointer = MovedTo(layout[k].pointer)
        /\ moved[k].members =
             [f \in DOMAIN layout[k].members |-> MovedTo(layout[k].members[f])]
    BY <2>1, MovedObject
  <2>3. OfKind(layout[k], more, more[k])
    BY <2>1 DEF Fits
  <2>4. \A ref \in 1..m : MovedTo(ref) = n + ref
    BY <1>1 DEF MovedTo, Null
  <2> HIDE DEF n, m, moved
  <2>5. more[k].is = "pointer" =>
          \E j \in DOMAIN more : moved[k].pointer = n + j /\ more[j] = more[k].to
    BY <1>2, <2>2, <2>3, <2>4 DEF OfKind
  <2>6. ASSUME more[k].is = "struct", NEW f \in DOMAIN more[k].has
        PROVE  /\ f \in DOMAIN moved[k].members
               /\ \E j \in DOMAIN more :
                    moved[k].members[f] = n + j /\ more[j] = more[k].has[f]
    BY <1>2, <2>2, <2>3, <2>4, <2>6 DEF OfKind
  <2> QED
    BY <2>2, <2>3, <2>5, <2>6 DEF AmongNew, OfKind
<1> HIDE DEF moved
<1>4. Prolongs(u, heap, n, m) /\ \A k \in 1..m : u[n + k] = moved[k]
  BY <1>1, HeapProlonged
<1> HIDE DEF u, n, m
<1>5. NewFit(u, n, m, more)
  BY <1>2, <1>3, <1>4 DEF NewFit
<1>6. PICK all : Grown(all, u, kinds, n, m, more)
  BY <1>4, <1>5, MoreObjects
<1>7. Fits(u, all) /\ Extends(all, kinds) /\ Has(all, n + 1, more[1])
  <2>1. 1 \in 1..m
    BY <1>1
  <2> QED
    BY <1>6, <2>1 DEF Grown, Has
<1> QED
  BY <1>7 DEF u, moved, n

\* The objects made for constants are of the kinds of these.
LEMMA KindsWithConstants ==
  ASSUME MemoryOK, NEW os, IsSequence(os), \A k \in DOMAIN os : IsOperand(os[k]),
         NEW kinds, Fits(heap, kinds)
  PROVE  \E all : /\ Fits(heap \o Constants(os), all) /\ Extends(all, kinds)
                  /\ \A k \in DOMAIN os : IsConstant(os[k]) =>
                       Has(all, Reference(os, k), Plain(os[k].type))
<1> DEFINE n == Len(heap)
           m == Rank(os, Len(os))
           made == Constants(os)
           Place(l) == CHOOSE k \in 1..Len(os) : IsConstant(os[k]) /\ Rank(os, k) = l
           u == heap \o made
<1>1. n \in Nat /\ IsSequence(made) /\ Len(made) = m /\ m \in Nat /\ DOMAIN os = 1..Len(os)
  BY ValueInRange, ConstantsMade, RanksOfConstants, SequenceFacts
<1>2. ASSUME NEW k \in DOMAIN os, IsConstant(os[k])
      PROVE  Rank(os, k) \in 1..m /\ Place(Rank(os, k)) = k
  BY <1>1, <1>2, RanksOfConstants
<1>3. \A l \in 1..m : made[l] = ConstantObject(os[Place(l)])
  BY DEF Constants
<1>4. ASSUME NEW l \in 1..m
      PROVE  Place(l) \in DOMAIN os /\ IsConstant(os[Place(l)])
  BY <1>1, RanksOfConstants
<1> HIDE DEF made, Place
<1>5. ASSUME NEW l \in 1..m
      PROVE  made[l].type = os[Place(l)].type /\ made[l].type \in {"number", "string"}
  <2>1. made[l].type = os[Place(l)].type
    <3>1. \A o : ConstantObject(o).type = o.type
      BY DEF ConstantObject, Object
    <3> QED
      BY <1>3, <3>1
  <2>2. os[Place(l)].type \in {"number", "string"}
    BY <1>4 DEF IsOperand, IsConstant
  <2> QED
    BY <2>1, <2>2
<1>6. Prolongs(u, heap, n, m) /\ \A k \in 1..m : u[n + k] = made[k]
  BY <1>1, HeapProlonged
<1> HIDE DEF u, n, m
<1>7. \A k \in 1..m : u[n + k].type \in {"number", "string"}
  BY <1>5, <1>6
<1>8. PICK all : Grown(all, u, kinds, n, m, [k \in 1..m |-> Plain(u[n + k].type)])
  <2>1. Fits(heap, kinds)
    OBVIOUS
  <2> QED
    BY <1>6, <1>7, <2>1, PlainObjects
<1>9. ASSUME NEW k \in DOMAIN os, IsConstant(os[k])
      PROVE  Has(all, Reference(os, k), Plain(os[k].type))
  <2>1. Reference(os, k) = n + Rank(os, k) /\ Rank(os, k) \in 1..m
    BY <1>2, <1>9 DEF Reference, n
  <2>2. u[n + Rank(os, k)].type = os[k].type
    BY <1>2, <1>5, <1>6, <1>9
  <2>3. n + Rank(os, k) \in DOMAIN all /\ all[n + Rank(os, k)] = Plain(u[n + Rank(os, k)].type)
    BY <1>8, <2>1 DEF Grown
  <2> QED
    BY <2>1, <2>2, <2>3 DEF Has
<1>10. Fits(u, all) /\ Extends(all, kinds)
  BY <1>8 DEF Grown
<1> QED
  BY <1>9, <1>10 DEF u, made

-------------------------------------------------------------------------------
\* The instruction that runs has operands of the kinds that it relies on.
LEMMA InstructionIsTyped ==
  ASSUME IInv, ~AtEnd, NEW t, WellTyped(program, t)
  PROVE  TypedInstruction(program, t, FunctionOf(current), Instruction)
<1>1. /\ current \in DOMAIN program.code /\ next \in DOMAIN program.code[current]
      /\ Instruction = program.code[current][next]
  BY CurrentInstruction
<1> QED
  BY <1>1 DEF WellTyped, FunctionOf

LEMMA OperandFits ==
  ASSUME IInv, MemoryOK, ValuesThere, ~AtEnd,
         NEW t, NEW kinds, Kinded(t, kinds), NEW known, ComputesFirst(program, known),
         NEW k \in DOMAIN Instruction.operands,
         OperandKind(t, Instruction.operands[k]) # NoKind
  PROVE  LET o == Instruction.operands[k]
             kind == OperandKind(t, o) IN
         /\ IsKnown(o) /\ Content(o).type = kind.is
         /\ IsConstant(o) => kind = Plain(o.type) /\ kind.is \in {"number", "string"}
         /\ ~IsConstant(o) =>
              /\ ValueOf(o) \in 1..Len(heap) /\ ValueOf(o) \in DOMAIN kinds
              /\ kinds[ValueOf(o)] = kind /\ OfKind(heap[ValueOf(o)], kinds, kind)
<1> DEFINE o == Instruction.operands[k]
<1>1. /\ current \in DOMAIN program.code /\ next \in DOMAIN program.code[current]
      /\ Instruction = program.code[current][next]
  BY CurrentInstruction
<1>2. IsOperand(o)
  BY InstructionIsSound
<1>3. o.kind = "value" => o.id \in Known(program, known, current, next)
  BY <1>1 DEF ComputesFirst
<1>4. o.kind = "value" => o.id \in DOMAIN valueMap
  <2>1. Depth \in 1..Depth /\ BlockAt(Depth) = current /\ PlaceAt(Depth) = next
    BY SequenceFacts DEF Depth, BlockAt, PlaceAt, IInv, ControlOK
  <2> QED
    BY <1>3, <2>1 DEF ValuesThere
<1>5. DOMAIN kinds = 1..Len(heap) /\ \A r \in 1..Len(heap) : OfKind(heap[r], kinds, kinds[r])
  BY SequenceFacts DEF Kinded, Fits, MemoryOK
<1> SUFFICES ASSUME OperandKind(t, o) # NoKind
             PROVE  /\ IsKnown(o) /\ Content(o).type = OperandKind(t, o).is
                    /\ IsConstant(o) =>
                         /\ OperandKind(t, o) = Plain(o.type)
                         /\ OperandKind(t, o).is \in {"number", "string"}
                    /\ ~IsConstant(o) =>
                         /\ ValueOf(o) \in 1..Len(heap) /\ ValueOf(o) \in DOMAIN kinds
                         /\ kinds[ValueOf(o)] = OperandKind(t, o)
                         /\ OfKind(heap[ValueOf(o)], kinds, OperandKind(t, o))
  OBVIOUS
<1> HIDE DEF o
<1>6. CASE IsConstant(o)
  <2>1. OperandKind(t, o) = Plain(o.type) /\ o.type \in {"number", "string"}
    BY <1>2, <1>6 DEF OperandKind, IsOperand, IsConstant
  <2>2. Content(o).type = o.type
    BY <1>6 DEF Content, ConstantObject, Object
  <2> QED
    BY <1>6, <2>1, <2>2 DEF IsKnown, Plain
<1>7. CASE ~IsConstant(o)
  <2>1. o.kind = "value" /\ OperandKind(t, o) = t.value[o.id]
    BY <1>7 DEF OperandKind
  <2>2. ValueOf(o) = valueMap[o.id] /\ o.id \in DOMAIN valueMap
    BY <1>4, <2>1 DEF ValueOf
  <2>3. ValueOf(o) \in DOMAIN kinds /\ kinds[ValueOf(o)] = OperandKind(t, o)
    BY <2>1, <2>2 DEF Kinded, Has
  <2>4. ValueOf(o) \in 1..Len(heap) /\ OfKind(heap[ValueOf(o)], kinds, OperandKind(t, o))
    BY <1>5, <2>3
  <2>5. Len(heap) \in Nat
    BY ValueInRange
  <2>6. ValueOf(o) # Null
    BY <2>4, <2>5 DEF Null
  <2> QED
    BY <1>7, <2>3, <2>4, <2>6 DEF IsKnown, Content, OfKind
<1> QED
  BY <1>6, <1>7

\* A value of pointer kind points at an object of the kind it is to point at.
LEMMA PointerFits ==
  ASSUME IInv, MemoryOK, ValuesThere, ~AtEnd,
         NEW t, NEW kinds, Kinded(t, kinds), NEW known, ComputesFirst(program, known),
         NEW k \in DOMAIN Instruction.operands,
         OperandKind(t, Instruction.operands[k]).is = "pointer"
  PROVE  LET v == ValueOf(Instruction.operands[k])
             to == OperandKind(t, Instruction.operands[k]).to IN
         /\ v # Null /\ heap[v].type = "pointer" /\ heap[v].pointer # Null
         /\ heap[v].pointer \in DOMAIN kinds /\ kinds[heap[v].pointer] = to
         /\ heap[v].pointer \in 1..Len(heap) /\ OfKind(heap[heap[v].pointer], kinds, to)
<1> DEFINE o == Instruction.operands[k]
           kind == OperandKind(t, o)
           v == ValueOf(o)
<1>1. kind # NoKind /\ kind.is = "pointer"
  BY DEF NoKind, Plain
<1>2. ~IsConstant(o) /\ v \in 1..Len(heap) /\ OfKind(heap[v], kinds, kind)
  BY <1>1, OperandFits
<1>3. DOMAIN kinds = 1..Len(heap) /\ \A r \in 1..Len(heap) : OfKind(heap[r], kinds, kinds[r])
  BY SequenceFacts DEF Kinded, Fits, MemoryOK
<1>4. Len(heap) \in Nat
  BY ValueInRange
<1> HIDE DEF kind, v
<1>5. heap[v].type = "pointer" /\ heap[v].pointer \in DOMAIN kinds
      /\ kinds[heap[v].pointer] = kind.to
  BY <1>1, <1>2 DEF OfKind
<1>6. heap[v].pointer \in 1..Len(heap) /\ OfKind(heap[heap[v].pointer], kinds, kind.to)
  BY <1>3, <1>5
<1>7. v # Null /\ heap[v].pointer # Null
  BY <1>2, <1>4, <1>6 DEF Null
<1> QED
  BY <1>5, <1>6, <1>7 DEF kind, v

-------------------------------------------------------------------------------
\* The one thing that a typing does not rule out.
DividesBadly ==
  /\ ~AtEnd
  /\ LET o == Instruction.operands[2] IN
     \/ Instruction.op \in {"div", "mod"} /\ Content(o).int = 0
     \/ Instruction.op \in Shifts /\ Content(o).int \notin 0..63

\* A typed instruction passes the checks of its operands.
LEMMA TypedPasses ==
  ASSUME IInv, MemoryOK, ValuesThere, ~AtEnd,
         NEW t, WellTyped(program, t), NEW kinds, Kinded(t, kinds),
         NEW known, ComputesFirst(program, known)
  PROVE  Fault(Instruction) = "none" \/ (Fault(Instruction) = "undefined" /\ DividesBadly)
<1> DEFINE o(k) == Instruction.operands[k]
           kind(k) == OperandKind(t, o(k))
           f == FunctionOf(current)
<1>1. TypedInstruction(program, t, f, Instruction)
  BY InstructionIsTyped
<1>2. Instruction.op \in DOMAIN Arity \cup {"invoke"}
  BY InstructionIsSound DEF IsInstruction
<1>3. /\ Instruction.op \in {"load", "brk", "ret", "gea", "store"} \cup Binary
           => 1 \in DOMAIN Instruction.operands
      /\ Instruction.op \in {"store"} \cup Binary => 2 \in DOMAIN Instruction.operands
  BY OperandsThere
<1>4. ASSUME NEW k \in DOMAIN Instruction.operands, kind(k) # NoKind
      PROVE  IsKnown(o(k)) /\ Content(o(k)).type = kind(k).is
  BY <1>4, OperandFits
<1>5. ASSUME NEW k \in DOMAIN Instruction.operands, kind(k).is = "pointer"
      PROVE  LET v == ValueOf(o(k)) IN
             /\ v # Null /\ heap[v].type = "pointer" /\ heap[v].pointer # Null
             /\ OfKind(heap[heap[v].pointer], kinds, kind(k).to)
  BY <1>5, PointerFits
<1>6. ASSUME NEW type \in {"pointer", "number", "string"}
      PROVE  Plain(type) # NoKind /\ Plain(type).is = type
  BY DEF Plain, NoKind
<1>7. ASSUME NEW k, kind(k).is = "pointer"
      PROVE  kind(k) # NoKind
  BY <1>7 DEF Plain, NoKind
<1>8. CASE Instruction.op = "load"
  <2>1. Fault(Instruction) = FaultOfLoad(o(1))
    BY <1>8 DEF Fault, Arithmetic, Shifts
  <2>2. CASE o(1).kind = "param"
    <3>1. o(1).id + 1 \in DOMAIN t.param[f] /\ o(1).id \in Nat
      BY <1>1, <1>3, <1>8, <2>2, InstructionIsSound DEF TypedInstruction, IsOperand
    <3>2. ArgsFit(kinds, args, t.param[f])
      <4>1. Depth \in 1..Depth /\ ArgumentsAt(Depth) = args /\ FunctionAt(Depth) = f
        BY SequenceFacts DEF Depth, ArgumentsAt, FunctionAt, IInv, ControlOK
      <4> QED
        BY <4>1 DEF Kinded
    <3>3. o(1).id + 1 \in DOMAIN args
      BY <3>1, <3>2 DEF ArgsFit
    <3>4. DOMAIN args = 1..Len(args) /\ Len(args) \in Nat
      BY SequenceFacts DEF MemoryOK, RefsOK
    <3>5. o(1).id < Len(args)
      BY <3>1, <3>3, <3>4
    <3> QED
      BY <2>1, <2>2, <3>5 DEF FaultOfLoad
  <2>3. CASE o(1).kind # "param"
    <3>1. kind(1).is = "pointer"
      BY <1>1, <1>8, <2>3 DEF TypedInstruction
    <3> QED
      BY <1>3, <1>5, <1>8, <2>1, <2>3, <3>1 DEF FaultOfLoad
  <2> QED
    BY <2>2, <2>3
<1>9. CASE Instruction.op = "store"
  <2>1. Fault(Instruction) = FaultOfStore(o(1), o(2))
    BY <1>9 DEF Fault, Arithmetic, Shifts
  <2>2. kind(1).is = "pointer" /\ kind(2) # NoKind
    BY <1>1, <1>9 DEF TypedInstruction
  <2>3. IsKnown(o(2))
    BY <1>3, <1>4, <1>9, <2>2
  <2> QED
    BY <1>3, <1>5, <1>9, <2>1, <2>2, <2>3 DEF FaultOfStore
<1>10. CASE Instruction.op = "add"
  <2>1. Fault(Instruction) = FaultOfAdd(o(1), o(2))
    BY <1>10 DEF Fault, Arithmetic, Shifts
  <2>2. kind(1) \in {Plain("number"), Plain("string")} /\ kind(2) = kind(1)
    BY <1>1, <1>10 DEF TypedInstruction
  <2>3. 1 \in DOMAIN Instruction.operands /\ 2 \in DOMAIN Instruction.operands
    BY <1>3, <1>10 DEF Binary
  <2>4. kind(1) # NoKind /\ kind(2) # NoKind /\ kind(1).is \in {"number", "string"}
    BY <1>6, <2>2
  <2>5. /\ IsKnown(o(1)) /\ IsKnown(o(2))
        /\ Content(o(1)).type \in {"number", "string"}
        /\ Content(o(2)).type = Content(o(1)).type
    <3>1. IsKnown(o(1)) /\ Content(o(1)).type = kind(1).is
      BY <1>4, <2>3, <2>4
    <3>2. IsKnown(o(2)) /\ Content(o(2)).type = kind(2).is
      BY <1>4, <2>3, <2>4
    <3> HIDE DEF kind
    <3> QED
      BY <2>2, <2>4, <3>1, <3>2
  <2> QED
    BY <2>1, <2>5 DEF FaultOfAdd
<1>11. CASE Instruction.op \in Arithmetic
  <2>1. Fault(Instruction) = FaultOfArithmetic(Instruction.op, o(1), o(2))
    BY <1>11 DEF Fault, Arithmetic, Shifts
  <2>2. /\ kind(1) # NoKind /\ kind(2) # NoKind
        /\ Plain("number") \in {kind(1), kind(2)}
    BY <1>1, <1>11 DEF TypedInstruction
  <2>3. 1 \in DOMAIN Instruction.operands /\ 2 \in DOMAIN Instruction.operands
    BY <1>3, <1>11 DEF Binary
  <2>4. IsKnown(o(1)) /\ Content(o(1)).type = kind(1).is
    BY <1>4, <2>2, <2>3
  <2>5. IsKnown(o(2)) /\ Content(o(2)).type = kind(2).is
    BY <1>4, <2>2, <2>3
  <2>6. Content(o(1)).type = "number" \/ Content(o(2)).type = "number"
    <3> HIDE DEF kind
    <3> QED
      BY <1>6, <2>2, <2>4, <2>5
  <2> QED
    BY <2>1, <2>4, <2>5, <2>6 DEF FaultOfArithmetic, DividesBadly
<1>12. CASE Instruction.op = "brk"
  <2>1. Fault(Instruction) = FaultOfBrk(o(1))
    BY <1>12 DEF Fault, Arithmetic, Shifts
  <2>2. kind(1) = Plain("number")
    BY <1>1, <1>12 DEF TypedInstruction
  <2>3. IsKnown(o(1)) /\ Content(o(1)).type = "number"
    BY <1>3, <1>4, <1>6, <1>12, <2>2
  <2> QED
    BY <2>1, <2>3 DEF FaultOfBrk
<1>13. CASE Instruction.op = "gea"
  <2>1. Fault(Instruction) = FaultOfGea(o(1))
    BY <1>13 DEF Fault, Arithmetic, Shifts
  <2>2. kind(1).is = "pointer" /\ kind(1).to.is = "struct"
    BY <1>1, <1>13 DEF TypedInstruction
  <2> DEFINE v == ValueOf(o(1))
  <2>3. /\ v # Null /\ heap[v].type = "pointer" /\ heap[v].pointer # Null
        /\ OfKind(heap[heap[v].pointer], kinds, kind(1).to)
    BY <1>3, <1>5, <1>13, <2>2
  <2>4. heap[heap[v].pointer].type = "struct"
    BY <2>2, <2>3 DEF OfKind
  <2> QED
    BY <2>1, <2>3, <2>4 DEF FaultOfGea
<1>14. CASE Instruction.op = "ret"
  <2>1. o(1).kind # "null"
    BY <1>1, <1>14 DEF TypedInstruction
  <2> QED
    BY <1>14, <2>1 DEF Fault, Arithmetic, Shifts
<1>15. CASE Instruction.op = "invoke"
  <2>1. Fault(Instruction) = FaultOfInvoke(Instruction)
    BY <1>15 DEF Fault, Arithmetic, Shifts
  <2>2. TypedCall(program, t, f, Instruction)
    BY <1>1, <1>15 DEF TypedInstruction
  <2> QED
    BY <2>1, <2>2 DEF FaultOfInvoke, TypedCall, CallsOwn
<1>16. CASE Instruction.op \in {"alloc", "jmp"}
  BY <1>16 DEF Fault, Arithmetic, Shifts
<1>17. Instruction.op # "idx"
  BY <1>1 DEF TypedInstruction
<1> QED
  BY <1>2, <1>8, <1>9, <1>10, <1>11, <1>12, <1>13, <1>14, <1>15, <1>16, <1>17
     DEF Arity, Arithmetic, Shifts

\* A program that divides by sound constants alone never divides badly.
LEMMA SafeDivisors ==
  ASSUME IInv, DividesSafely(program)
  PROVE  ~DividesBadly
<1> SUFFICES ASSUME DividesBadly PROVE FALSE
  OBVIOUS
<1>1. /\ current \in DOMAIN program.code /\ next \in DOMAIN program.code[current]
      /\ Instruction = program.code[current][next]
  BY CurrentInstruction DEF DividesBadly
<1> DEFINE o == Instruction.operands[2]
<1>2. Instruction.op \in {"div", "mod"} \cup Shifts
  BY DEF DividesBadly
<1>3. /\ IsConstant(o)
      /\ IF Instruction.op \in Shifts THEN o.int \in 0..63 ELSE o.int # 0
  BY <1>1, <1>2 DEF DividesSafely
<1>4. Content(o).int = o.int
  BY <1>3 DEF Content, ConstantObject, Object
<1>5. Shifts \cap {"div", "mod"} = {}
  BY DEF Shifts
<1> QED
  BY <1>3, <1>4, <1>5 DEF DividesBadly

-------------------------------------------------------------------------------
LEMMA InitKinded ==
  ASSUME Init, NEW t, WellTyped(program, t)
  PROVE  Kinded(t, << >>)
<1>1. IInv /\ heap = << >> /\ args = << >> /\ frames = << >> /\ valueMap = [i \in {} |-> Null]
      /\ current = program.functions[1].entry
  BY InitIInv DEF Init
<1>2. Depth = 1 /\ FunctionAt(1) = 1 /\ ArgumentsAt(1) = << >>
  BY <1>1 DEF Depth, FunctionAt, FunctionOf, ArgumentsAt, IInv, ControlOK, WellFormed
<1>3. t.param[1] = << >>
  BY DEF WellTyped
<1>4. Fits(heap, << >>)
  BY <1>1 DEF Fits
<1>5. \A k \in 1..Depth : ArgsFit(<< >>, ArgumentsAt(k), t.param[FunctionAt(k)])
  BY <1>2, <1>3 DEF ArgsFit
<1> QED
  BY <1>1, <1>4, <1>5 DEF Kinded

\* Steps that stay in the running call.
LEMMA StayingKeepsKinds ==
  ASSUME IInv, Advances \/ Jumps \/ Ret \/ Rests, NEW t, NEW kinds, Kinded(t, kinds),
         NEW all, Fits(heap', all), Extends(all, kinds),
         \/ UNCHANGED valueMap
         \/ \E ref : SetValue(ref) /\ Has(all, ref, t.value[Instruction.id]),
         \/ args' = args
         \/ ArgsFit(all, args', t.param[FunctionOf(current)]),
         \/ isReturn' = isReturn /\ retResult' = retResult
         \/ Has(all, retResult', t.result[FunctionOf(current)])
  PROVE  Kinded(t, all)'
<1>1. /\ Depth' = Depth /\ UNCHANGED <<program, frames>>
      /\ FunctionOf(current)' = FunctionOf(current)
      /\ \A k : FunctionAt(k)' = FunctionAt(k)
  BY CallsStay
<1>2. /\ \A ref, kind : Has(kinds, ref, kind) => Has(all, ref, kind)
      /\ \A as, ks : ArgsFit(kinds, as, ks) => ArgsFit(all, as, ks)
  BY HasInMore
<1>3. \A i \in DOMAIN valueMap' : Has(all, valueMap'[i], t.value[i])
  <2>1. \A i \in DOMAIN valueMap : Has(all, valueMap[i], t.value[i])
    BY <1>2 DEF Kinded
  <2>2. CASE UNCHANGED valueMap
    BY <2>1, <2>2
  <2>3. CASE \E ref : SetValue(ref) /\ Has(all, ref, t.value[Instruction.id])
    BY <2>1, <2>3 DEF SetValue
  <2> QED
    BY <2>2, <2>3
<1>4. ASSUME NEW k \in 1..Depth
      PROVE  ArgsFit(all, ArgumentsAt(k)', t.param[FunctionAt(k)])
  <2>1. ArgsFit(all, ArgumentsAt(k), t.param[FunctionAt(k)])
    BY <1>2 DEF Kinded
  <2>2. CASE k # Depth
    BY <1>1, <2>1, <2>2 DEF ArgumentsAt
  <2>3. CASE k = Depth
    <3>1. ArgumentsAt(k) = args /\ ArgumentsAt(k)' = args' /\ FunctionAt(k) = FunctionOf(current)
      BY <1>1, <2>3 DEF ArgumentsAt, FunctionAt
    <3> QED
      BY <2>1, <3>1
  <2> QED
    BY <2>2, <2>3
<1>5. isReturn' /\ frames' # << >> => Has(all, retResult', t.result[FunctionOf(current)])
  BY <1>1, <1>2 DEF Kinded
<1> QED
  BY <1>1, <1>3, <1>4, <1>5 DEF Kinded

\* What the operands of the running instruction refer to once the objects for its
\* constants are there.
LEMMA OperandsReferTo ==
  ASSUME IInv, MemoryOK, ValuesThere, ~AtEnd,
         NEW t, NEW kinds, Kinded(t, kinds), NEW known, ComputesFirst(program, known)
  PROVE  LET os == Instruction.operands IN
         \E all : /\ Fits(heap \o Constants(os), all) /\ Extends(all, kinds)
                  /\ \A k \in DOMAIN os : Has(all, Reference(os, k), OperandKind(t, os[k]))
<1> DEFINE os == Instruction.operands
<1>1. IsSequence(os) /\ \A k \in DOMAIN os : IsOperand(os[k])
  BY InstructionIsSound
<1>2. Fits(heap, kinds)
  BY DEF Kinded
<1>3. PICK all : /\ Fits(heap \o Constants(os), all) /\ Extends(all, kinds)
                 /\ \A k \in DOMAIN os : IsConstant(os[k]) =>
                      Has(all, Reference(os, k), Plain(os[k].type))
  <2> HIDE DEF os
  <2> QED
    BY <1>1, <1>2, KindsWithConstants
<1>4. ASSUME NEW k \in DOMAIN os, OperandKind(t, os[k]) # NoKind
      PROVE  Has(all, Reference(os, k), OperandKind(t, os[k]))
  <2>1. /\ IsConstant(os[k]) => OperandKind(t, os[k]) = Plain(os[k].type)
        /\ ~IsConstant(os[k]) =>
             ValueOf(os[k]) \in DOMAIN kinds /\ kinds[ValueOf(os[k])] = OperandKind(t, os[k])
    BY <1>4, OperandFits
  <2> HIDE DEF os
  <2>2. CASE IsConstant(os[k])
    BY <1>3, <2>1, <2>2
  <2>3. CASE ~IsConstant(os[k])
    BY <1>3, <2>1, <2>3 DEF Reference, Has, Extends
  <2> QED
    BY <2>2, <2>3
<1>5. \A k \in DOMAIN os : Has(all, Reference(os, k), OperandKind(t, os[k]))
  BY <1>4 DEF Has
<1> QED
  BY <1>3, <1>5

LEMMA ActualsFit ==
  ASSUME NEW t, NEW all, NEW ks,
         \A k \in DOMAIN Instruction.operands :
           Has(all, Reference(Instruction.operands, k), OperandKind(t, Instruction.operands[k])),
         \A k \in DOMAIN ks :
           k \in DOMAIN Instruction.operands /\ OperandKind(t, Instruction.operands[k]) = ks[k]
  PROVE  ArgsFit(all, Actuals, ks)
  BY DEF ArgsFit, Actuals

-------------------------------------------------------------------------------
\* A typed program about to execute an instruction, while all it holds is of the
\* kinds of its typing.
AtTyped(t, known, kinds) ==
  /\ IInv /\ MemoryOK /\ ValuesThere /\ ~AtEnd
  /\ WellTyped(program, t) /\ ComputesFirst(program, known) /\ Kinded(t, kinds)

LEMMA StaysInCall ==
  ASSUME IInv, [Next]_vars, ~AtEnd, ~CallsOwn(program, Instruction)
  PROVE  Advances \/ Jumps \/ Ret \/ Rests
<1>1. ~Invoke
  BY CallBegins
<1>2. ~Return
  BY DEF Return
<1> QED
  BY <1>1, <1>2, StepKinds

LEMMA AllocKeepsKinds ==
  ASSUME NEW t, NEW known, NEW kinds, AtTyped(t, known, kinds), Alloc
  PROVE  \E all : Kinded(t, all)'
<1>1. /\ Instruction.op = "alloc" /\ heap' = heap \o Moved(Instruction.aux)
      /\ SetValue(Len(heap) + 1) /\ UNCHANGED <<args, isReturn, retResult>>
  BY DEF Alloc, Advance, Executes
<1>2. Advances \/ Jumps \/ Ret \/ Rests
  BY <1>1, StaysInCall DEF AtTyped, Next, CallsOwn
<1>3. IsLayout(Instruction.aux)
  BY <1>1, InstructionIsSound DEF AtTyped, IsInstruction
<1>4. /\ Fits(Instruction.aux, t.layout[Instruction.id])
      /\ t.value[Instruction.id] = t.layout[Instruction.id][1]
  BY <1>1, InstructionIsTyped DEF AtTyped, TypedInstruction
<1>5. Fits(heap, kinds)
  BY DEF AtTyped, Kinded
<1>6. PICK all : /\ Fits(heap \o Moved(Instruction.aux), all) /\ Extends(all, kinds)
                 /\ Has(all, Len(heap) + 1, t.layout[Instruction.id][1])
  BY <1>3, <1>4, <1>5, KindsWithLayout DEF AtTyped
<1>7. Kinded(t, all)'
  BY <1>1, <1>2, <1>4, <1>6, StayingKeepsKinds DEF AtTyped
<1> QED
  BY <1>7

LEMMA LoadKeepsKinds ==
  ASSUME NEW t, NEW known, NEW kinds, AtTyped(t, known, kinds), Load
  PROVE  \E all : Kinded(t, all)'
<1> DEFINE o == Instruction.operands[1]
           ref == IF o.kind = "param" THEN args[o.id + 1] ELSE heap[ValueOf(o)].pointer
<1>1. /\ Instruction.op = "load" /\ UNCHANGED heap /\ SetValue(ref)
      /\ UNCHANGED <<args, isReturn, retResult>>
  BY DEF Load, Advance, Executes
<1>2. Advances \/ Jumps \/ Ret \/ Rests
  BY <1>1, StaysInCall DEF AtTyped, Next, CallsOwn
<1>3. TypedInstruction(program, t, FunctionOf(current), Instruction)
  BY InstructionIsTyped DEF AtTyped
<1>4. Has(kinds, ref, t.value[Instruction.id])
  <2>1. CASE o.kind = "param"
    <3>1. /\ o.id + 1 \in DOMAIN t.param[FunctionOf(current)]
          /\ t.value[Instruction.id] = t.param[FunctionOf(current)][o.id + 1]
      BY <1>1, <1>3, <2>1 DEF TypedInstruction
    <3>2. ArgsFit(kinds, args, t.param[FunctionOf(current)])
      <4>1. Depth \in 1..Depth /\ ArgumentsAt(Depth) = args
            /\ FunctionAt(Depth) = FunctionOf(current)
        BY SequenceFacts DEF Depth, ArgumentsAt, FunctionAt, AtTyped, IInv, ControlOK
      <4> QED
        BY <4>1 DEF AtTyped, Kinded
    <3> QED
      BY <2>1, <3>1, <3>2 DEF ArgsFit
  <2>2. CASE o.kind # "param"
    <3>1. /\ OperandKind(t, o).is = "pointer"
          /\ t.value[Instruction.id] = OperandKind(t, o).to
      BY <1>1, <1>3, <2>2 DEF TypedInstruction
    <3>2. 1 \in DOMAIN Instruction.operands
      BY <1>1, OperandsThere DEF AtTyped
    <3>3. /\ heap[ValueOf(o)].pointer \in DOMAIN kinds
          /\ kinds[heap[ValueOf(o)].pointer] = OperandKind(t, o).to
      BY <3>1, <3>2, PointerFits DEF AtTyped
    <3> QED
      BY <2>2, <3>1, <3>3 DEF Has
  <2> QED
    BY <2>1, <2>2
<1> HIDE DEF ref
<1>5. Fits(heap', kinds) /\ Extends(kinds, kinds)
  BY <1>1 DEF AtTyped, Kinded, Extends
<1>6. Kinded(t, kinds)'
  BY <1>1, <1>2, <1>4, <1>5, StayingKeepsKinds DEF AtTyped
<1> QED
  BY <1>6

\* One object changes into one of the same kind.
LEMMA ObjectKeepsKind ==
  ASSUME MemoryOK, NEW kinds, Fits(heap, kinds), NEW place \in 1..Len(heap), NEW new,
         heap' = [heap EXCEPT ![place] = new], OfKind(new, kinds, kinds[place])
  PROVE  Fits(heap', kinds)
  BY SequenceFacts DEF MemoryOK, Fits

LEMMA StoreKeepsKinds ==
  ASSUME NEW t, NEW known, NEW kinds, AtTyped(t, known, kinds), Store
  PROVE  \E all : Kinded(t, all)'
<1> DEFINE o(k) == Instruction.operands[k]
           kind(k) == OperandKind(t, o(k))
           place == heap[ValueOf(o(1))].pointer
           from == Content(o(2))
           new == [heap[place] EXCEPT !.int = from.int, !.str = from.str,
                                      !.members = from.members]
<1>1. /\ Executes("store") /\ Instruction.op = "store"
      /\ UNCHANGED <<valueMap, args, isReturn, retResult>>
      /\ heap' = [heap EXCEPT ![place].int = from.int, ![place].str = from.str,
                              ![place].members = from.members]
  BY DEF Store, Advance, Executes
<1>2. Advances \/ Jumps \/ Ret \/ Rests
  BY <1>1, StaysInCall DEF AtTyped, Next, CallsOwn
<1>3. /\ kind(1).is = "pointer" /\ kind(2) # NoKind
      /\ kind(1).to.is = "struct" => kind(2) = kind(1).to
  BY <1>1, InstructionIsTyped DEF AtTyped, TypedInstruction
<1>4. 1 \in DOMAIN Instruction.operands /\ 2 \in DOMAIN Instruction.operands
  BY <1>1, OperandsThere DEF AtTyped
<1>5. /\ place \in DOMAIN kinds /\ kinds[place] = kind(1).to /\ place \in 1..Len(heap)
      /\ OfKind(heap[place], kinds, kind(1).to)
  BY <1>3, <1>4, PointerFits DEF AtTyped
<1>6. kind(2).is = "struct" => OfKind(from, kinds, kind(2))
  <2>1. /\ IsConstant(o(2)) => kind(2).is \in {"number", "string"}
        /\ ~IsConstant(o(2)) => OfKind(heap[ValueOf(o(2))], kinds, kind(2))
    BY <1>3, <1>4, OperandFits DEF AtTyped
  <2> QED
    BY <2>1 DEF Content
<1>7. IsObject(heap[place], Len(heap)) /\ DOMAIN heap = 1..Len(heap)
  BY <1>5, SequenceFacts DEF AtTyped, MemoryOK
<1> HIDE DEF place, from, kind
<1>8. /\ new.type = heap[place].type /\ new.pointer = heap[place].pointer
      /\ new.members = from.members
  BY <1>7 DEF IsObject
<1>9. heap' = [heap EXCEPT ![place] = new]
  BY <1>1, <1>5, <1>7
<1> HIDE DEF new
<1>10. OfKind(new, kinds, kind(1).to)
  BY <1>3, <1>5, <1>6, <1>8 DEF OfKind
<1>11. Fits(heap', kinds) /\ Extends(kinds, kinds)
  BY <1>5, <1>9, <1>10, ObjectKeepsKind DEF AtTyped, Kinded, Extends
<1>12. Kinded(t, kinds)'
  BY <1>1, <1>2, <1>11, StayingKeepsKinds DEF AtTyped
<1> QED
  BY <1>12

LEMMA GeaKeepsKinds ==
  ASSUME NEW t, NEW known, NEW kinds, AtTyped(t, known, kinds), Gea
  PROVE  \E all : Kinded(t, all)'
<1> DEFINE o == Instruction.operands[1]
           kind == OperandKind(t, o)
           place == heap[ValueOf(o)].pointer
           old == heap[place].members
           members == [f \in DOMAIN old \cup {Instruction.aux} |->
                        IF f \in DOMAIN old THEN old[f] ELSE Null]
           new == [heap[place] EXCEPT !.members = members]
<1>1. /\ Executes("gea") /\ Instruction.op = "gea"
      /\ UNCHANGED <<args, isReturn, retResult>>
      /\ heap' = [heap EXCEPT ![place].members = members]
      /\ SetValue(members[Instruction.aux])
  BY DEF Gea, Advance, Executes
<1>2. Advances \/ Jumps \/ Ret \/ Rests
  BY <1>1, StaysInCall DEF AtTyped, Next, CallsOwn
<1>3. /\ kind.is = "pointer" /\ kind.to.is = "struct" /\ Instruction.aux \in DOMAIN kind.to.has
      /\ t.value[Instruction.id] = kind.to.has[Instruction.aux]
  BY <1>1, InstructionIsTyped DEF AtTyped, TypedInstruction
<1>4. 1 \in DOMAIN Instruction.operands
  BY <1>1, OperandsThere DEF AtTyped
<1>5. /\ place \in DOMAIN kinds /\ kinds[place] = kind.to /\ place \in 1..Len(heap)
      /\ OfKind(heap[place], kinds, kind.to)
  BY <1>3, <1>4, PointerFits DEF AtTyped
<1>6. IsObject(heap[place], Len(heap)) /\ DOMAIN heap = 1..Len(heap)
  BY <1>5, SequenceFacts DEF AtTyped, MemoryOK
<1>7. \A f \in DOMAIN old : f \in DOMAIN members /\ members[f] = old[f]
  OBVIOUS
<1> HIDE DEF place, members, kind
<1>8. /\ new.type = heap[place].type /\ new.pointer = heap[place].pointer
      /\ new.members = members
  BY <1>6 DEF IsObject
<1>9. heap' = [heap EXCEPT ![place] = new]
  BY <1>1, <1>5, <1>6
<1> HIDE DEF new
<1>10. OfKind(new, kinds, kind.to) /\ Has(kinds, members[Instruction.aux], t.value[Instruction.id])
  BY <1>3, <1>5, <1>7, <1>8 DEF OfKind, Has
<1>11. Fits(heap', kinds) /\ Extends(kinds, kinds)
  BY <1>5, <1>9, <1>10, ObjectKeepsKind DEF AtTyped, Kinded, Extends
<1>12. Kinded(t, kinds)'
  BY <1>1, <1>2, <1>10, <1>11, StayingKeepsKinds DEF AtTyped
<1> QED
  BY <1>12

-------------------------------------------------------------------------------
LEMMA BinaryKeepsKinds ==
  ASSUME NEW t, NEW known, NEW kinds, AtTyped(t, known, kinds), NEW op \in Binary, BinaryOp(op)
  PROVE  \E all : Kinded(t, all)'
<1> DEFINE o(k) == Instruction.operands[k]
           kind(k) == OperandKind(t, o(k))
           result == BinaryResult(op, Content(o(1)), Content(o(2)))
           n == Len(heap)
<1>1. /\ Instruction.op = op /\ UNCHANGED <<args, isReturn, retResult>>
      /\ heap' = Append(heap, result) /\ SetValue(n + 1)
  BY DEF BinaryOp, Advance, Executes
<1>2. Advances \/ Jumps \/ Ret \/ Rests
  <2>1. op # "invoke"
    BY DEF Binary, Arithmetic, Shifts
  <2> QED
    BY <1>1, <2>1, StaysInCall DEF AtTyped, Next, CallsOwn
<1>3. TypedInstruction(program, t, FunctionOf(current), Instruction)
  BY InstructionIsTyped DEF AtTyped
<1>4. /\ result.type \in {"number", "string"}
      /\ t.value[Instruction.id] = Plain(result.type)
  <2>1. CASE op = "add"
    <3>1. /\ kind(1) \in {Plain("number"), Plain("string")}
          /\ t.value[Instruction.id] = kind(1)
      BY <1>1, <1>3, <2>1 DEF TypedInstruction
    <3>2. kind(1) # NoKind /\ kind(1).is \in {"number", "string"} /\ kind(1) = Plain(kind(1).is)
      BY <3>1 DEF NoKind, Plain
    <3>3. 1 \in DOMAIN Instruction.operands
      BY <1>1, <2>1, OperandsThere DEF AtTyped
    <3>4. Content(o(1)).type = kind(1).is
      BY <3>2, <3>3, OperandFits DEF AtTyped
    <3>5. result.type = IF Content(o(1)).type = "string" THEN "string" ELSE "number"
      BY <2>1 DEF BinaryResult, Object
    <3>6. result.type = kind(1).is
      BY <3>2, <3>4, <3>5
    <3> HIDE DEF kind, result
    <3> QED
      BY <3>1, <3>2, <3>6
  <2>2. CASE op # "add"
    <3>1. op \in Arithmetic
      BY <2>2 DEF Binary
    <3>2. t.value[Instruction.id] = Plain("number")
      BY <1>1, <1>3, <3>1 DEF TypedInstruction
    <3>3. result.type = "number"
      BY <2>2 DEF BinaryResult, Object
    <3> QED
      BY <3>2, <3>3
  <2> QED
    BY <2>1, <2>2
<1>5. Fits(heap, kinds)
  BY DEF AtTyped, Kinded
<1> HIDE DEF result
<1>6. n \in Nat /\ Prolongs(heap', heap, n, 1) /\ heap'[n + 1] = result
  <2>1. /\ IsSequence(heap) /\ IsSequence(Append(heap, result)) /\ Len(heap) \in Nat
        /\ Len(Append(heap, result)) = Len(heap) + 1
        /\ \A k \in 1..Len(heap) : Append(heap, result)[k] = heap[k]
        /\ Append(heap, result)[Len(heap) + 1] = result
    BY Push DEF AtTyped, MemoryOK
  <2>2. DOMAIN heap = 1..n /\ DOMAIN Append(heap, result) = 1..(n + 1)
    BY <2>1, SequenceFacts
  <2> QED
    BY <1>1, <2>1, <2>2 DEF Prolongs
<1> HIDE DEF n
<1>7. PICK all : Grown(all, heap', kinds, n, 1, [k \in 1..1 |-> Plain(heap'[n + k].type)])
  <2>1. \A k \in 1..1 : heap'[n + k].type \in {"number", "string"}
    BY <1>4, <1>6
  <2>2. 1 \in Nat
    OBVIOUS
  <2> QED
    BY <1>5, <1>6, <2>1, <2>2, PlainObjects
<1>8. Fits(heap', all) /\ Extends(all, kinds)
  BY <1>7 DEF Grown
<1>9. Has(all, n + 1, t.value[Instruction.id])
  BY <1>4, <1>6, <1>7 DEF Grown, Has
<1>10. Kinded(t, all)'
  BY <1>1, <1>2, <1>8, <1>9, StayingKeepsKinds DEF AtTyped
<1> QED
  BY <1>10

LEMMA JumpKeepsKinds ==
  ASSUME NEW t, NEW known, NEW kinds, AtTyped(t, known, kinds), Brk \/ Jmp
  PROVE  \E all : Kinded(t, all)'
<1>1. /\ Instruction.op \in {"brk", "jmp"}
      /\ UNCHANGED <<heap, valueMap, args, isReturn, retResult>>
  BY DEF Brk, Jmp, Jump, Executes
<1>2. Advances \/ Jumps \/ Ret \/ Rests
  BY <1>1, StaysInCall DEF AtTyped, Next, CallsOwn
<1>3. Fits(heap', kinds) /\ Extends(kinds, kinds)
  BY <1>1 DEF AtTyped, Kinded, Extends
<1>4. Kinded(t, kinds)'
  BY <1>1, <1>2, <1>3, StayingKeepsKinds DEF AtTyped
<1> QED
  BY <1>4

LEMMA RetKeepsKinds ==
  ASSUME NEW t, NEW known, NEW kinds, AtTyped(t, known, kinds), Ret
  PROVE  \E all : Kinded(t, all)'
<1> DEFINE os == Instruction.operands
<1>1. /\ Instruction.op = "ret" /\ heap' = heap \o Constants(os)
      /\ retResult' = Reference(os, 1) /\ UNCHANGED <<valueMap, args>>
  BY DEF Ret, Executes
<1>2. PICK all : /\ Fits(heap \o Constants(os), all) /\ Extends(all, kinds)
                 /\ \A k \in DOMAIN os : Has(all, Reference(os, k), OperandKind(t, os[k]))
  BY OperandsReferTo DEF AtTyped
<1>3. Has(all, retResult', t.result[FunctionOf(current)])
  <2>1. 1 \in DOMAIN os
    BY <1>1, OperandsThere DEF AtTyped
  <2>2. t.result[FunctionOf(current)] # NoKind =>
          OperandKind(t, os[1]) = t.result[FunctionOf(current)]
    BY <1>1, InstructionIsTyped DEF AtTyped, TypedInstruction
  <2> QED
    BY <1>1, <1>2, <2>1, <2>2 DEF Has
<1>4. Kinded(t, all)'
  BY <1>1, <1>2, <1>3, StayingKeepsKinds DEF AtTyped
<1> QED
  BY <1>4

\* An extern function may be given anything that its caller has for parameters.
LEMMA InvokeNativeKeepsKinds ==
  ASSUME NEW t, NEW known, NEW kinds, AtTyped(t, known, kinds), InvokeNative
  PROVE  \E all : Kinded(t, all)'
<1> DEFINE os == Instruction.operands
           f == FunctionOf(current)
<1>1. /\ Instruction.op = "invoke" /\ heap' = heap \o Constants(os)
      /\ program.functions[Instruction.aux].extern
      /\ args' = Actuals /\ SetValue(Null) /\ UNCHANGED <<isReturn, retResult>>
  BY DEF InvokeNative, Executes
<1>2. Advances \/ Jumps \/ Ret \/ Rests
  BY <1>1, StaysInCall DEF AtTyped, Next, CallsOwn
<1>3. PICK all : /\ Fits(heap \o Constants(os), all) /\ Extends(all, kinds)
                 /\ \A k \in DOMAIN os : Has(all, Reference(os, k), OperandKind(t, os[k]))
  BY OperandsReferTo DEF AtTyped
<1>4. TypedCall(program, t, f, Instruction) /\ ~CallsOwn(program, Instruction)
  BY <1>1, InstructionIsTyped DEF AtTyped, TypedInstruction, CallsOwn
<1>5. /\ t.value[Instruction.id] = NoKind
      /\ \A k \in DOMAIN t.param[f] :
           k \in DOMAIN os /\ OperandKind(t, os[k]) = t.param[f][k]
  BY <1>4 DEF TypedCall
<1>6. ArgsFit(all, args', t.param[f]) /\ Has(all, Null, t.value[Instruction.id])
  BY <1>1, <1>3, <1>5, ActualsFit DEF Has
<1>7. Kinded(t, all)'
  BY <1>1, <1>2, <1>3, <1>6, StayingKeepsKinds DEF AtTyped
<1> QED
  BY <1>7

LEMMA InvokeKeepsKinds ==
  ASSUME NEW t, NEW known, NEW kinds, AtTyped(t, known, kinds), Invoke
  PROVE  \E all : Kinded(t, all)'
<1> DEFINE os == Instruction.operands
           callee == Instruction.aux
<1>1. /\ Instruction.op = "invoke" /\ heap' = heap \o Constants(os)
      /\ frames' = Append(frames, Saved) /\ args' = Actuals /\ isReturn' = FALSE
      /\ UNCHANGED valueMap
  BY DEF Invoke, Enter, Executes
<1>2. /\ Depth \in Nat \ {0} /\ Depth' = Depth + 1
      /\ CallsOwn(program, Instruction)
      /\ \A k \in 1..Depth : FunctionAt(k)' = FunctionAt(k)
      /\ FunctionOf(current') = callee /\ UNCHANGED program
      /\ \A k \in 1..(Depth - 1) : frames'[k] = frames[k]
      /\ frames'[Depth] = Saved
  BY CallBegins DEF AtTyped
<1>3. PICK all : /\ Fits(heap \o Constants(os), all) /\ Extends(all, kinds)
                 /\ \A k \in DOMAIN os : Has(all, Reference(os, k), OperandKind(t, os[k]))
  BY OperandsReferTo DEF AtTyped
<1>4. \A k \in DOMAIN t.param[callee] :
        k \in DOMAIN os /\ OperandKind(t, os[k]) = t.param[callee][k]
  BY <1>1, <1>2, InstructionIsTyped DEF AtTyped, TypedInstruction, TypedCall
<1>5. ArgsFit(all, args', t.param[callee])
  BY <1>1, <1>3, <1>4, ActualsFit
<1>6. /\ \A ref, kind : Has(kinds, ref, kind) => Has(all, ref, kind)
      /\ \A as, ks : ArgsFit(kinds, as, ks) => ArgsFit(all, as, ks)
  BY <1>3, HasInMore
<1>7. ASSUME NEW k \in 1..Depth'
      PROVE  ArgsFit(all, ArgumentsAt(k)', t.param[FunctionAt(k)'])
  <2>1. CASE k = Depth'
    <3>1. ArgumentsAt(k)' = args' /\ FunctionAt(k)' = callee
      BY <1>2, <2>1 DEF ArgumentsAt, FunctionAt, FunctionOf
    <3> QED
      BY <1>5, <3>1
  <2>2. CASE k # Depth'
    <3>1. k \in 1..Depth
      BY <1>2, <2>2
    <3>2. ArgumentsAt(k)' = ArgumentsAt(k)
      <4>1. ArgumentsAt(k)' = frames'[k].args
        BY <2>2 DEF ArgumentsAt
      <4>2. Saved.args = args
        BY DEF Saved, Frame
      <4>3. CASE k = Depth
        BY <1>2, <4>1, <4>2, <4>3 DEF ArgumentsAt
      <4>4. CASE k # Depth
        BY <1>2, <3>1, <4>1, <4>4 DEF ArgumentsAt
      <4> QED
        BY <4>3, <4>4
    <3>3. ArgsFit(kinds, ArgumentsAt(k), t.param[FunctionAt(k)])
      BY <3>1 DEF AtTyped, Kinded
    <3> QED
      BY <1>2, <1>6, <3>1, <3>2, <3>3
  <2> QED
    BY <2>1, <2>2
<1>8. \A i \in DOMAIN valueMap' : Has(all, valueMap'[i], t.value[i])
  BY <1>1, <1>6 DEF AtTyped, Kinded
<1>9. Kinded(t, all)'
  BY <1>1, <1>3, <1>7, <1>8 DEF Kinded
<1> QED
  BY <1>9

-------------------------------------------------------------------------------
\* At its end a function that has a result has returned it.
LEMMA ResultIsThere ==
  ASSUME IInv, PathsOK, Return, NEW t, NEW sure, ReturnsSurely(program, t, sure),
         t.result[FunctionOf(current)] # NoKind
  PROVE  isReturn
<1>1. current \in DOMAIN program.code /\ IsSequence(Code) /\ next \in 1..(Len(Code) + 1)
      /\ AtEnd /\ Len(Code) \in Nat /\ Code = program.code[current]
  BY SequenceFacts DEF Return, IInv, ControlOK, WellFormed, Code
<1>2. next = Len(Code) + 1
  BY <1>1 DEF AtEnd
<1>3. ~(Code # << >> /\ Code[Len(Code)].op = "jmp")
  <2> SUFFICES ASSUME Code # << >>, Code[Len(Code)].op = "jmp" PROVE FALSE
    OBVIOUS
  <2>1. Len(Code) > 0
    BY <1>1, Pop
  <2>2. next > 1 /\ next - 1 = Len(Code)
    BY <1>1, <1>2, <2>1
  <2> QED
    BY <2>2 DEF PathsOK, NotBehindJump
<1>4. HasReturned(program, sure, current, next)
  BY <1>1, <1>2, <1>3 DEF ReturnsSurely, FunctionOf
<1>5. /\ Depth \in 2..Depth /\ BlockAt(Depth) = current /\ PlaceAt(Depth) = next
      /\ ReturnFlagAt(Depth) = isReturn
  <2>1. Len(frames) \in Nat \ {0} /\ Depth = Len(frames) + 1
    BY CallEnds
  <2> QED
    BY <2>1 DEF BlockAt, PlaceAt, ReturnFlagAt
<1> QED
  BY <1>4, <1>5 DEF PathsOK, ReturnedSurely

LEMMA ReturnKeepsKinds ==
  ASSUME IInv, PathsOK, NEW t, NEW known, NEW sure, NEW last,
         TypedForm(program, t, known, sure, last), NEW kinds, Kinded(t, kinds), Return
  PROVE  Kinded(t, kinds)'
<1> DEFINE f == frames[Len(frames)]
           result == IF isReturn THEN retResult ELSE Null
           i == program.code[f.current][f.next - 1]
<1>1. /\ next' = f.next /\ current' = f.current /\ isReturn' = f.isReturn /\ args' = f.args
      /\ valueMap' = [v \in DOMAIN valueMap \cup {f.id} |-> IF v = f.id THEN result ELSE valueMap[v]]
      /\ UNCHANGED <<program, heap, retResult>>
      /\ frames' = SubSeq(frames, 1, Len(frames) - 1) /\ frames # << >>
  BY DEF Return, Resume
<1>2. /\ Len(frames) \in Nat \ {0} /\ Depth = Len(frames) + 1 /\ Depth' = Len(frames)
      /\ \A k \in 1..Depth' : FunctionAt(k)' = FunctionAt(k)
      /\ \A k \in 1..(Len(frames) - 1) : frames'[k] = frames[k]
  BY CallEnds
<1>3. CallsOwn(program, i) /\ i.id = f.id
  BY <1>2 DEF PathsOK, CallersOK
<1>4. FunctionOf(current) = i.aux
  <2>1. FunctionAt(Len(frames) + 1) = i.aux
    BY <1>2 DEF PathsOK, CalleesOK
  <2> QED
    BY <1>2, <2>1 DEF FunctionAt
<1>5. t.value[f.id] = t.result[FunctionOf(current)]
  <2>1. /\ f.current \in DOMAIN program.code
        /\ f.next \in 2..(Len(program.code[f.current]) + 1)
    BY <1>2 DEF IInv, ControlOK
  <2>2. f.next - 1 \in DOMAIN program.code[f.current]
    BY <2>1, SequenceFacts DEF IInv, ControlOK, WellFormed
  <2>3. TypedInstruction(program, t, program.home[f.current], i)
    BY <2>1, <2>2 DEF TypedForm, WellTyped
  <2>4. TypedCall(program, t, program.home[f.current], i)
    BY <1>3, <2>3 DEF TypedInstruction, CallsOwn
  <2> QED
    BY <1>3, <1>4, <2>4 DEF TypedCall
<1>6. Has(kinds, result, t.value[f.id])
  <2>1. CASE t.value[f.id] = NoKind
    BY <2>1 DEF Has
  <2>2. CASE t.value[f.id] # NoKind
    <3>1. isReturn
      BY <1>5, <2>2, ResultIsThere DEF TypedForm
    <3> QED
      BY <1>1, <1>5, <3>1 DEF Kinded
  <2> QED
    BY <2>1, <2>2
<1> HIDE DEF f, result
<1>7. \A v \in DOMAIN valueMap' : Has(kinds, valueMap'[v], t.value[v])
  BY <1>1, <1>6 DEF Kinded
<1>8. ASSUME NEW k \in 1..Depth'
      PROVE  ArgsFit(kinds, ArgumentsAt(k)', t.param[FunctionAt(k)'])
  <2>1. k \in 1..Depth /\ k # Depth
    BY <1>2
  <2>2. ArgumentsAt(k) = frames[k].args /\ ArgsFit(kinds, ArgumentsAt(k), t.param[FunctionAt(k)])
    BY <2>1 DEF ArgumentsAt, Kinded
  <2>3. ArgumentsAt(k)' = ArgumentsAt(k)
    <3>1. CASE k = Depth'
      BY <1>1, <1>2, <2>2, <3>1 DEF ArgumentsAt, f
    <3>2. CASE k # Depth'
      BY <1>2, <2>2, <3>2 DEF ArgumentsAt
    <3> QED
      BY <3>1, <3>2
  <2> QED
    BY <1>2, <2>2, <2>3
<1>9. ~(isReturn' /\ frames' # << >>)
  <2> SUFFICES ASSUME frames' # << >> PROVE ~f.isReturn
    BY <1>1
  <2>1. Len(frames') = Len(frames) - 1 /\ IsSequence(frames')
    BY <1>1, Pop DEF IInv, ControlOK
  <2>2. Len(frames') # 0
    BY <2>1, Pop
  <2>3. Len(frames) \in 2..Len(frames)
    BY <1>2, <2>1, <2>2
  <2> QED
    BY <2>3 DEF TypedForm, PathsOK, ResultKept, f
<1> QED
  BY <1>1, <1>7, <1>8, <1>9 DEF Kinded

LEMMA StepKeepsKinds ==
  ASSUME IInv, MemoryOK, PathsOK, [Next]_vars, NEW t, NEW known, NEW sure, NEW last,
         TypedForm(program, t, known, sure, last), NEW kinds, Kinded(t, kinds)
  PROVE  \E all : Kinded(t, all)'
<1>1. ASSUME ~AtEnd PROVE AtTyped(t, known, kinds)
  BY <1>1 DEF AtTyped, PathsOK, TypedForm
<1>2. CASE Alloc \/ Load \/ Store \/ Gea \/ Brk \/ Jmp \/ Ret \/ InvokeNative \/ Invoke
  <2>1. ~AtEnd
    BY <1>2 DEF Alloc, Load, Store, Gea, Brk, Jmp, Ret, InvokeNative, Invoke, Executes
  <2> QED
    BY <1>1, <1>2, <2>1, AllocKeepsKinds, LoadKeepsKinds, StoreKeepsKinds, GeaKeepsKinds,
       JumpKeepsKinds, RetKeepsKinds, InvokeNativeKeepsKinds, InvokeKeepsKinds
<1>3. ASSUME NEW op \in Binary, BinaryOp(op) PROVE \E all : Kinded(t, all)'
  <2>1. ~AtEnd
    BY <1>3 DEF BinaryOp, Executes
  <2> QED
    BY <1>1, <1>3, <2>1, BinaryKeepsKinds
<1>4. CASE Return
  BY <1>4, ReturnKeepsKinds
<1>5. CASE Halt \/ Abort \/ UNCHANGED vars
  <2>1. Rests /\ UNCHANGED <<heap, valueMap, args, isReturn, retResult>>
    BY <1>5 DEF Halt, Abort, Rests, vars, registers
  <2>2. Fits(heap', kinds) /\ Extends(kinds, kinds)
    BY <2>1 DEF Kinded, Extends
  <2>3. Kinded(t, kinds)'
    BY <2>1, <2>2, StayingKeepsKinds
  <2> QED
    BY <2>3
<1> QED
  BY <1>2, <1>3, <1>4, <1>5 DEF Next

-------------------------------------------------------------------------------
\* While the run goes on, everything is of the kinds of every typing that the program
\* has; it stops by itself or at a division.
HasTyping == \E t, known, sure, last : TypedForm(program, t, known, sure, last)
KindsOK ==
  \A t, known, sure, last : TypedForm(program, t, known, sure, last) =>
    \E kinds : Kinded(t, kinds)
StopsAtDivisions ==
  HasTyping =>
    \/ status \in {"running", "halted"}
    \/ status = "undefined" /\ DividesBadly

LEMMA StepKeepsKindsOK ==
  ASSUME IInv, MemoryOK, PathsOK, KindsOK, [Next]_vars
  PROVE  KindsOK'
<1> SUFFICES ASSUME NEW t, NEW known, NEW sure, NEW last,
                    TypedForm(program, t, known, sure, last)'
             PROVE  \E kinds : Kinded(t, kinds)'
  BY DEF KindsOK
<1>1. TypedForm(program, t, known, sure, last)
  BY ValuesStay
<1>2. PICK kinds : Kinded(t, kinds)
  BY <1>1 DEF KindsOK
<1> QED
  BY <1>1, <1>2, StepKeepsKinds

LEMMA StepStopsAtDivisions ==
  ASSUME IInv, MemoryOK, PathsOK, KindsOK, StopsAtDivisions, [Next]_vars
  PROVE  StopsAtDivisions'
<1> SUFFICES ASSUME NEW t, NEW known, NEW sure, NEW last,
                    TypedForm(program, t, known, sure, last)
             PROVE  \/ status' \in {"running", "halted"}
                    \/ status' = "undefined" /\ DividesBadly'
  BY ValuesStay DEF StopsAtDivisions, HasTyping
<1>1. CASE Abort
  <2>1. ~AtEnd /\ status' = Fault(Instruction) /\ Fault(Instruction) # "none"
        /\ UNCHANGED <<program, heap, valueMap, current, next>>
    BY <1>1 DEF Abort, registers
  <2>2. PICK kinds : Kinded(t, kinds)
    BY DEF KindsOK
  <2>3. Fault(Instruction) = "none" \/ (Fault(Instruction) = "undefined" /\ DividesBadly)
    BY <2>1, <2>2, TypedPasses DEF TypedForm, PathsOK
  <2>4. DividesBadly' = DividesBadly
    BY <2>1 DEF DividesBadly, AtEnd, Instruction, Code, Content, ValueOf
  <2> QED
    BY <2>1, <2>3, <2>4
<1>2. CASE UNCHANGED vars
  <2>1. DividesBadly' = DividesBadly /\ status' = status
    BY <1>2 DEF vars, registers, DividesBadly, AtEnd, Instruction, Code, Content, ValueOf
  <2> QED
    BY <2>1 DEF StopsAtDivisions, HasTyping
<1>3. CASE Halt
  BY <1>3 DEF Halt
<1>4. CASE Next /\ ~Abort /\ ~Halt
  <2>1. ASSUME NEW op \in Binary, BinaryOp(op) PROVE status' = "running"
    BY <2>1 DEF BinaryOp, Advance, Executes
  <2>2. Alloc \/ Load \/ Store \/ Gea => status' = "running"
    BY DEF Alloc, Load, Store, Gea, Advance, Executes
  <2>3. Brk \/ Jmp \/ Ret \/ InvokeNative \/ Invoke \/ Return => status' = "running"
    BY DEF Brk, Jmp, Jump, Ret, InvokeNative, Invoke, Return, Executes
  <2> QED
    BY <1>4, <2>1, <2>2, <2>3 DEF Next
<1> QED
  BY <1>1, <1>2, <1>3, <1>4

\* The inductive invariant, for every program.
KindsInv == PathsOK /\ KindsOK /\ StopsAtDivisions

LEMMA InitKinds == Init => KindsInv
<1> SUFFICES ASSUME Init PROVE KindsInv
  OBVIOUS
<1>1. KindsOK
  BY InitKinded DEF KindsOK, TypedForm
<1>2. StopsAtDivisions
  BY DEF Init, StopsAtDivisions
<1> QED
  BY <1>1, <1>2, InitPaths DEF KindsInv

\* Whatever typing a program has, what its values, parameters and results refer to is
\* of the kinds that the typing gives for as long as the program runs.
THEOREM KindsInvariant == Spec => [](IInv /\ DataInv /\ KindsInv)
<1>1. Init => IInv /\ DataInv /\ KindsInv
  BY InitIInv, InitData, InitKinds
<1>2. IInv /\ DataInv /\ KindsInv /\ [Next]_vars => (IInv /\ DataInv /\ KindsInv)'
  BY StepPreservesIInv, StepKeepsData, StepKeepsPaths, StepKeepsKindsOK,
     StepStopsAtDivisions DEF KindsInv, DataInv
<1> QED
  BY <1>1, <1>2, PTL DEF Spec

\* A program that has a typing, computes what it reads, returns a result where one is
\* used and calls nothing behind a ret passes every check of the interpreter; the one
\* thing it may do that is undefined is to divide by zero or to shift too far.
THEOREM OnlyDivisionsFault ==
  Spec => [](HasTyping => status # "failed" /\ (status = "undefined" => DividesBadly))
<1>1. IInv /\ DataInv /\ KindsInv =>
        (HasTyping => status # "failed" /\ (status = "undefined" => DividesBadly))
  BY DEF KindsInv, StopsAtDivisions
<1> QED
  BY <1>1, KindsInvariant, PTL

\* If it also divides and shifts by sound constants alone, it never faults.
THEOREM TypedProgramsDoNotFault ==
  Spec => [](HasTyping /\ DividesSafely(program) => NoFault)
<1>1. IInv /\ DataInv /\ KindsInv => (HasTyping /\ DividesSafely(program) => NoFault)
  BY SafeDivisors DEF KindsInv, StopsAtDivisions, NoFault
<1> QED
  BY <1>1, KindsInvariant, PTL
===============================================================================
