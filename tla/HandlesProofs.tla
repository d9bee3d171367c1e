----------------------------- MODULE HandlesProofs ----------------------------
(***************************************************************************)
(* The count of an object is the number of the handles that refer to it,   *)
(* for any objects, classes and programs.  The invariant that is inductive *)
(* says besides what the frames on the stack promise to each other.        *)
(***************************************************************************)
EXTENDS Handles, FiniteSetTheorems, SequenceTheorems, TLAPS

\* A pending take has the handle it goes to emptied by the frame above it, and there
\* is nothing below it that has begun.
TakesWait ==
  \A i \in DOMAIN stack : stack[i].op = "take" =>
    /\ stack[i].at # Temp
    /\ \A j \in 1..(i - 1) : stack[j].op = "clear"
    /\ i = Len(stack) => held[stack[i].at] = Null
    /\ i < Len(stack) => stack[i + 1].op \in {"clear", "forget"}
                         /\ stack[i + 1].at = stack[i].at

\* An object whose destructor runs is one that no handle counts on, on behalf of the
\* handle in the frame below.
DestroysOwn ==
  \A i \in DOMAIN stack : stack[i].op = "destroy" =>
    /\ i > 1 /\ stack[i - 1].op = "forget" /\ held[stack[i - 1].at] = stack[i].obj
    /\ stack[i].obj \in live
    /\ count[stack[i].obj] = 0
    /\ stack[i].left <= Slots[stack[i].obj]

\* The members it has left behind are empty, but for the one that is being cleared.
MembersCleared ==
  \A i \in DOMAIN stack : stack[i].op = "destroy" =>
    \A k \in (stack[i].left + 1)..Slots[stack[i].obj] :
      \/ held[<<stack[i].obj, k>>] = Null
      \/ /\ k = stack[i].left + 1 /\ i < Len(stack)
         /\ stack[i + 1].op \in {"clear", "forget"}
         /\ stack[i + 1].at = <<stack[i].obj, k>>

\* A handle that waits for its object to be deleted.
ForgetsWait ==
  \A i \in DOMAIN stack : stack[i].op = "forget" =>
    /\ held[stack[i].at] # Null
    /\ i < Len(stack) => stack[i + 1].op = "destroy"
    /\ i = Len(stack) => held[stack[i].at] \notin live

Apart ==
  \A i, j \in DOMAIN stack : i # j /\ stack[i].op = stack[j].op =>
    /\ stack[i].op = "forget" => stack[i].at # stack[j].at
    /\ stack[i].op = "destroy" => stack[i].obj # stack[j].obj

TempOwned ==
  held[Temp] # Null =>
    stack # << >> /\ stack[1].op \in {"clear", "forget"} /\ stack[1].at = Temp

FreedEmpty == \A p \in Members(Objects \ live) : held[p] = Null

Referring(o) == {p \in Places \ Forgotten : held[p] = o}
Counted == \A o \in Objects : IF o \in live THEN count[o] = Cardinality(Referring(o))
                                            ELSE Referring(o) = {}

Inv == /\ TypeOK /\ TakesWait /\ DestroysOwn /\ MembersCleared /\ ForgetsWait /\ Apart
       /\ TempOwned /\ FreedEmpty /\ Counted

-------------------------------------------------------------------------------
LEMMA FinitePlaces == IsFiniteSet(Places)
<1> DEFINE f == [o \in Objects |-> Member(o)]
           C == {Member(o) : o \in Objects}
<1>1. IsFiniteSet(C)
  <2>1. f \in Surjection(Objects, C)
    BY DEF Surjection
  <2> HIDE DEF f, C
  <2> QED
    BY <2>1, SizesOK, FS_Surjection
<1>2. ASSUME NEW o \in Objects
      PROVE  IsFiniteSet(Member(o))
  <2>1. IsFiniteSet(1..Slots[o]) /\ IsFiniteSet({o})
    <3>1. Slots[o] \in Int
      BY SlotsOK
    <3>2. IsFiniteSet(1..Slots[o])
      BY <3>1, FS_Interval
    <3> QED
      BY <3>2, FS_Singleton
  <2>2. IsFiniteSet({o} \X (1..Slots[o]))
    BY <2>1, FS_Product
  <2>3. Member(o) \subseteq {o} \X (1..Slots[o])
    BY DEF Member
  <2> QED
    BY <2>2, <2>3, FS_Subset
<1>3. IsFiniteSet(Members(Objects))
  <2>1. \A S \in C : IsFiniteSet(S)
    BY <1>2
  <2>2. IsFiniteSet(UNION C)
    <3> HIDE DEF C
    <3> QED BY <1>1, <2>1, FS_UNION
  <2> QED
    BY <2>2 DEF Members
<1>4. IsFiniteSet(Locals \cup {Temp})
  BY SizesOK, FS_AddElement
<1> QED
  BY <1>3, <1>4, FS_Union DEF Places, Roots

LEMMA ReferringFinite ==
  ASSUME NEW o
  PROVE  IsFiniteSet(Referring(o)) /\ Cardinality(Referring(o)) \in Nat
<1>1. Referring(o) \subseteq Places
  BY DEF Referring
<1> QED
  BY <1>1, FinitePlaces, FS_Subset, FS_CardinalityType

\* The members of an object are places, of no other object and no local.
LEMMA MembersArePlaces ==
  /\ \A o \in Objects : \A k \in 1..Slots[o] : <<o, k>> \in Members(Objects)
  /\ Members(Objects) \subseteq Places /\ Roots \subseteq Places
  /\ \A os \in SUBSET Objects : \A o \in Objects :
       \A k \in 1..Slots[o] : <<o, k>> \in Members(os) <=> o \in os
  /\ \A os \in SUBSET Objects : Members(os) \subseteq Members(Objects)
  /\ \A os \in SUBSET Objects : \A p \in Members(os) :
       \E o \in os : \E k \in 1..Slots[o] : p = <<o, k>>
  BY DEF Members, Member, Places

-------------------------------------------------------------------------------
LEMMA WithoutLast ==
  ASSUME NEW S, NEW s \in Seq(S), s # << >>
  PROVE  LET r == SubSeq(s, 1, Len(s) - 1) IN
         /\ r \in Seq(S) /\ Len(s) \in Nat \ {0} /\ Len(r) = Len(s) - 1
         /\ DOMAIN s = 1..Len(s) /\ DOMAIN r = 1..(Len(s) - 1)
         /\ \A i \in 1..(Len(s) - 1) : r[i] = s[i]
         /\ s[Len(s)] \in S
<1>1. Len(s) \in Nat \ {0} /\ DOMAIN s = 1..Len(s) /\ \A i \in 1..Len(s) : s[i] \in S
  OBVIOUS
<1> DEFINE n == Len(s) - 1
<1>2. 1 \in Int /\ n \in Int /\ \A i \in 1..n : s[i] \in S
  BY <1>1
<1> HIDE DEF n
<1>3. /\ SubSeq(s, 1, n) \in Seq(S)
      /\ Len(SubSeq(s, 1, n)) = IF 1 <= n THEN n - 1 + 1 ELSE 0
      /\ \A i \in 1..(n - 1 + 1) : SubSeq(s, 1, n)[i] = s[1 + i - 1]
  BY <1>2, SubSeqProperties
<1> QED
  BY <1>1, <1>3 DEF n

\* The stack when a frame has returned, and when one has been replaced by two.
LEMMA Popped ==
  ASSUME TypeOK, stack # << >>, stack' = Rest
  PROVE  /\ Len(stack) \in Nat \ {0}
         /\ Len(stack') = Len(stack) - 1
         /\ DOMAIN stack = 1..Len(stack) /\ DOMAIN stack' = 1..(Len(stack) - 1)
         /\ \A i \in 1..(Len(stack) - 1) : stack'[i] = stack[i]
         /\ stack' \in Seq(Frame) /\ stack[Len(stack)] \in Frame
  BY WithoutLast DEF TypeOK, Rest

LEMMA Replaced ==
  ASSUME TypeOK, stack # << >>, NEW f \in Frame, NEW g \in Frame,
         stack' = Rest \o <<f, g>>
  PROVE  /\ Len(stack) \in Nat \ {0}
         /\ Len(stack') = Len(stack) + 1
         /\ DOMAIN stack = 1..Len(stack) /\ DOMAIN stack' = 1..(Len(stack) + 1)
         /\ \A i \in 1..(Len(stack) - 1) : stack'[i] = stack[i]
         /\ stack'[Len(stack)] = f /\ stack'[Len(stack) + 1] = g
         /\ stack' \in Seq(Frame) /\ stack[Len(stack)] \in Frame
<1>1. /\ Len(stack) \in Nat \ {0} /\ DOMAIN stack = 1..Len(stack)
      /\ Rest \in Seq(Frame) /\ Len(Rest) = Len(stack) - 1
      /\ \A i \in 1..(Len(stack) - 1) : Rest[i] = stack[i]
      /\ stack[Len(stack)] \in Frame
  BY WithoutLast DEF TypeOK, Rest
<1> DEFINE t == Rest \o <<f, g>>
<1>2. /\ t \in Seq(Frame) /\ Len(t) = Len(Rest) + 2 /\ DOMAIN t = 1..(Len(Rest) + 2)
      /\ \A i \in 1..Len(Rest) : t[i] = Rest[i]
      /\ t[Len(Rest) + 1] = f /\ t[Len(Rest) + 2] = g
  <2>1. PICK r \in Seq(Frame) : r = Rest
    BY <1>1
  <2>2. /\ r \o <<f, g>> \in Seq(Frame) /\ Len(r \o <<f, g>>) = Len(r) + 2
        /\ DOMAIN (r \o <<f, g>>) = 1..(Len(r) + 2)
        /\ \A i \in 1..Len(r) : (r \o <<f, g>>)[i] = r[i]
        /\ (r \o <<f, g>>)[Len(r) + 1] = f /\ (r \o <<f, g>>)[Len(r) + 2] = g
    OBVIOUS
  <2> QED
    BY <2>1, <2>2, Zenon
<1> HIDE DEF t
<1>4. stack' = t
  BY DEF t
<1>3. Len(Rest) + 2 = Len(stack) + 1 /\ Len(Rest) + 1 = Len(stack)
  BY <1>1
<1> QED
  BY <1>1, <1>2, <1>3, <1>4

\* What the fields of a frame can be.
LEMMA FrameFields ==
  /\ \A f \in Frame : f.op \in {"clear", "forget", "take", "destroy"}
  /\ \A f \in Frame : f.op \in {"clear", "forget"} => f.at \in Places
  /\ \A f \in Frame : f.op = "take" => f.at \in Places /\ f.from \in Places
  /\ \A f \in Frame : f.op = "destroy" => f.obj \in Objects /\ f.left \in Nat
  /\ \A p \in Places : Clear(p) \in Frame /\ Clear(p).op = "clear" /\ Clear(p).at = p
  /\ \A p \in Places : Forget(p) \in Frame /\ Forget(p).op = "forget" /\ Forget(p).at = p
  /\ \A p, q \in Places : /\ Take(p, q) \in Frame /\ Take(p, q).op = "take"
                          /\ Take(p, q).at = p /\ Take(p, q).from = q
  /\ \A o \in Objects, k \in Nat :
       /\ Destroy(o, k) \in Frame /\ Destroy(o, k).op = "destroy"
       /\ Destroy(o, k).obj = o /\ Destroy(o, k).left = k
  BY DEF Frame, Clear, Forget, Take, Destroy

-------------------------------------------------------------------------------
\* Who is forgotten when a frame has returned.
LEMMA PopForgotten ==
  ASSUME TypeOK, Apart, stack # << >>, stack' = Rest
  PROVE  /\ Top.op # "forget" => Forgotten' = Forgotten
         /\ Top.op = "forget" => Forgotten' = Forgotten \ {Top.at} /\ Top.at \in Forgotten
<1>1. /\ Len(stack) \in Nat \ {0} /\ Len(stack') = Len(stack) - 1
      /\ DOMAIN stack = 1..Len(stack) /\ DOMAIN stack' = 1..(Len(stack) - 1)
      /\ \A i \in 1..(Len(stack) - 1) : stack'[i] = stack[i]
  BY Popped
<1>2. \A p : p \in Forgotten <=>
        \E i \in 1..Len(stack) : stack[i].op = "forget" /\ p = stack[i].at
  BY <1>1 DEF Forgotten
<1>3. \A p : p \in Forgotten' <=>
        \E i \in 1..(Len(stack) - 1) : stack[i].op = "forget" /\ p = stack[i].at
  BY <1>1 DEF Forgotten
<1>4. \A i \in 1..Len(stack) : i \in 1..(Len(stack) - 1) \/ i = Len(stack)
  BY <1>1
<1>5. CASE Top.op # "forget"
  <2>1. \A i \in 1..Len(stack) : stack[i].op = "forget" => i \in 1..(Len(stack) - 1)
    BY <1>4, <1>5 DEF Top
  <2>2. 1..(Len(stack) - 1) \subseteq 1..Len(stack)
    BY <1>1
  <2>3. \A p : p \in Forgotten' <=> p \in Forgotten
    BY <1>2, <1>3, <2>1, <2>2, Zenon
  <2> QED
    BY <1>5, <2>3
<1>6. CASE Top.op = "forget"
  <2>1. \A i \in 1..(Len(stack) - 1) :
          stack[i].op = "forget" => stack[i].at # Top.at
    BY <1>1, <1>6 DEF Apart, Top
  <2>2. Len(stack) \in 1..Len(stack) /\ 1..(Len(stack) - 1) \subseteq 1..Len(stack)
    BY <1>1
  <2> QED
    BY <1>2, <1>3, <1>4, <1>6, <2>1, <2>2 DEF Top
<1> QED
  BY <1>5, <1>6

\* A handle that waits for its object to be deleted refers to one that is dying or
\* gone.
LEMMA ForgottenIsDying ==
  ASSUME TypeOK, ForgetsWait, DestroysOwn
  PROVE  /\ \A p \in Forgotten : held[p] \notin live \ Dying /\ held[p] # Null
         /\ \A o \in Dying : o \in live /\ count[o] = 0
         /\ Forgotten \subseteq Places
<1>1. Len(stack) \in Nat /\ DOMAIN stack = 1..Len(stack)
      /\ \A i \in DOMAIN stack : stack[i] \in Frame
  BY DEF TypeOK
<1>2. \A o \in Dying : o \in live /\ count[o] = 0
  BY <1>1 DEF Dying, DestroysOwn
<1>3. ASSUME NEW i \in DOMAIN stack, stack[i].op = "forget"
      PROVE  /\ held[stack[i].at] \notin live \ Dying /\ held[stack[i].at] # Null
             /\ stack[i].at \in Places
  <2>1. stack[i].at \in Places
    BY <1>1, <1>3, FrameFields
  <2>2. CASE i = Len(stack)
    BY <1>3, <2>1, <2>2 DEF ForgetsWait
  <2>3. CASE i < Len(stack)
    <3>1. stack[i + 1].op = "destroy" /\ i + 1 \in DOMAIN stack /\ (i + 1) - 1 = i
      BY <1>1, <1>3, <2>3 DEF ForgetsWait
    <3>2. held[stack[i].at] = stack[i + 1].obj
      BY <3>1 DEF DestroysOwn
    <3>3. stack[i + 1].obj \in Dying
      BY <3>1 DEF Dying
    <3> QED
      BY <1>3, <2>1, <3>2, <3>3 DEF ForgetsWait
  <2> QED
    BY <1>1, <2>2, <2>3
<1> QED
  BY <1>2, <1>3 DEF Forgotten

\* The handle that is cleared is one of those that its object counts.
LEMMA ClearedIsCounted ==
  ASSUME Inv, Running("clear"), held[Top.at] \in live \ Dying
  PROVE  /\ Top \in Frame /\ Top.at \in Places /\ Top.at \notin Forgotten
         /\ held[Top.at] \in Objects /\ held[Top.at] # Null
         /\ Top.at \in Referring(held[Top.at])
         /\ count[held[Top.at]] = Cardinality(Referring(held[Top.at]))
         /\ Cardinality(Referring(held[Top.at]) \ {Top.at}) = count[held[Top.at]] - 1
         /\ Cardinality(Referring(held[Top.at]) \ {Top.at}) \in Nat
<1>1. Top \in Frame /\ Top.at \in Places
  <2>1. Top \in Frame
    BY DEF Inv, TypeOK, Running, Top
  <2> QED
    BY <2>1, FrameFields DEF Running
<1>2. Top.at \notin Forgotten
  BY ForgottenIsDying DEF Inv
<1>3. held[Top.at] \in Objects /\ held[Top.at] # Null
  BY NullOK DEF Inv, TypeOK
<1>4. Top.at \in Referring(held[Top.at])
  BY <1>1, <1>2 DEF Referring
<1>5. count[held[Top.at]] = Cardinality(Referring(held[Top.at]))
  BY <1>3 DEF Inv, Counted
<1>6. IsFiniteSet(Referring(held[Top.at]))
  BY ReferringFinite
<1>7. /\ Cardinality(Referring(held[Top.at]) \ {Top.at}) =
           Cardinality(Referring(held[Top.at])) - 1
      /\ IsFiniteSet(Referring(held[Top.at]) \ {Top.at})
  BY <1>4, <1>6, FS_RemoveElement
<1>8. Cardinality(Referring(held[Top.at]) \ {Top.at}) \in Nat
  BY <1>7, FS_CardinalityType
<1> QED
  BY <1>1, <1>2, <1>3, <1>4, <1>5, <1>7, <1>8

-------------------------------------------------------------------------------
\* What the frames promise to each other is kept when one that clears a handle
\* returns, and that handle is the only one that is other than before.
LEMMA PopKeepsShape ==
  ASSUME Inv, stack # << >>, stack' = Rest, Top.op \in {"clear", "forget"},
         Top.at \in Places, held' = [held EXCEPT ![Top.at] = Null],
         Top.op = "clear" => Top.at \notin Forgotten,
         UNCHANGED live, \A o \in Dying : count'[o] = count[o]
  PROVE  TakesWait' /\ DestroysOwn' /\ MembersCleared' /\ ForgetsWait' /\ Apart'
         /\ TempOwned' /\ FreedEmpty'
<1> DEFINE n == Len(stack)
<1>1. /\ n \in Nat \ {0} /\ Len(stack') = n - 1
      /\ DOMAIN stack = 1..n /\ DOMAIN stack' = 1..(n - 1)
      /\ \A i \in 1..(n - 1) : stack'[i] = stack[i]
      /\ Top = stack[n] /\ \A i \in 1..n : stack[i] \in Frame
  BY Popped DEF Inv, TypeOK, Top
<1>2. /\ held'[Top.at] = Null
      /\ \A p \in Places : p # Top.at => held'[p] = held[p]
      /\ \A p \in Places : held'[p] = held[p] \/ held'[p] = Null
  BY DEF Inv, TypeOK
<1>3. \A i \in 1..(n - 1) : stack[i].op = "forget" => stack[i].at # Top.at
  <2>1. SUFFICES ASSUME NEW i \in 1..(n - 1), stack[i].op = "forget",
                        stack[i].at = Top.at
                 PROVE  FALSE
    OBVIOUS
  <2>2. i \in DOMAIN stack /\ n \in DOMAIN stack /\ i # n
    BY <1>1
  <2>3. CASE Top.op = "clear"
    BY <2>1, <2>2, <2>3 DEF Forgotten
  <2>4. CASE Top.op = "forget"
    BY <1>1, <2>1, <2>2, <2>4 DEF Inv, Apart
  <2> QED
    BY <2>3, <2>4
<1> HIDE DEF n
<1>4. TakesWait'
  <2>1. SUFFICES ASSUME NEW i \in 1..(n - 1), stack[i].op = "take"
        PROVE  /\ stack[i].at # Temp
               /\ \A j \in 1..(i - 1) : stack'[j].op = "clear"
               /\ i = n - 1 => held'[stack[i].at] = Null
               /\ i < n - 1 => stack'[i + 1].op \in {"clear", "forget"}
                               /\ stack'[i + 1].at = stack[i].at
    BY <1>1 DEF TakesWait
  <2>2. /\ i \in DOMAIN stack /\ i < n /\ i + 1 \in 1..n
        /\ \A j \in 1..(i - 1) : j \in 1..(n - 1)
    BY <1>1
  <2>3. /\ stack[i].at # Temp
        /\ \A j \in 1..(i - 1) : stack[j].op = "clear"
        /\ stack[i + 1].op \in {"clear", "forget"} /\ stack[i + 1].at = stack[i].at
    BY <2>1, <2>2 DEF Inv, TakesWait, n
  <2>4. i = n - 1 => held'[stack[i].at] = Null
    BY <1>1, <1>2, <2>3
  <2>5. i < n - 1 => i + 1 \in 1..(n - 1)
    BY <1>1
  <2> QED
    BY <1>1, <2>2, <2>3, <2>4, <2>5
<1>5. DestroysOwn'
  <2>1. SUFFICES ASSUME NEW i \in 1..(n - 1), stack[i].op = "destroy"
        PROVE  /\ i > 1 /\ stack'[i - 1].op = "forget"
               /\ held'[stack'[i - 1].at] = stack[i].obj
               /\ stack[i].obj \in live' /\ count'[stack[i].obj] = 0
               /\ stack[i].left <= Slots[stack[i].obj]
    BY <1>1 DEF DestroysOwn
  <2>2. i \in DOMAIN stack /\ i - 1 \in Nat
    BY <1>1
  <2>3. /\ i > 1 /\ stack[i - 1].op = "forget" /\ held[stack[i - 1].at] = stack[i].obj
        /\ stack[i].obj \in live /\ count[stack[i].obj] = 0
        /\ stack[i].left <= Slots[stack[i].obj]
    BY <2>1, <2>2 DEF Inv, DestroysOwn
  <2>4. i - 1 \in 1..(n - 1) /\ i - 1 \in 1..n
    BY <1>1, <2>3
  <2>5. stack[i - 1].at \in Places
    BY <1>1, <2>3, <2>4, FrameFields
  <2>6. stack[i].obj \in Dying
    BY <2>1, <2>2 DEF Dying
  <2> QED
    BY <1>1, <1>2, <1>3, <2>3, <2>4, <2>5, <2>6
<1>6. MembersCleared'
  <2>1. SUFFICES ASSUME NEW i \in 1..(n - 1), stack[i].op = "destroy",
                        NEW k \in (stack[i].left + 1)..Slots[stack[i].obj]
        PROVE  \/ held'[<<stack[i].obj, k>>] = Null
               \/ /\ k = stack[i].left + 1 /\ i < n - 1
                  /\ stack'[i + 1].op \in {"clear", "forget"}
                  /\ stack'[i + 1].at = <<stack[i].obj, k>>
    BY <1>1 DEF MembersCleared
  <2>2. i \in DOMAIN stack /\ i < n /\ i + 1 \in 1..n
    BY <1>1
  <2>3. <<stack[i].obj, k>> \in Places
    <3>1. stack[i].obj \in Objects /\ stack[i].left \in Nat
      BY <1>1, <2>1, <2>2, FrameFields
    <3>2. k \in 1..Slots[stack[i].obj]
      BY <3>1, SlotsOK
    <3> QED
      BY <3>1, <3>2, MembersArePlaces
  <2>4. \/ held[<<stack[i].obj, k>>] = Null
        \/ /\ k = stack[i].left + 1
           /\ stack[i + 1].op \in {"clear", "forget"}
           /\ stack[i + 1].at = <<stack[i].obj, k>>
    BY <2>1, <2>2 DEF Inv, MembersCleared
  <2>5. CASE i = n - 1
    <3>1. stack[i + 1] = Top
      BY <1>1, <2>5
    <3> QED
      BY <1>2, <2>3, <2>4, <3>1
  <2>6. CASE i < n - 1
    <3>1. i + 1 \in 1..(n - 1)
      BY <1>1, <2>6
    <3> QED
      BY <1>1, <1>2, <2>3, <2>4, <2>6, <3>1
  <2> QED
    BY <1>1, <2>5, <2>6
<1>7. ForgetsWait'
  <2>1. SUFFICES ASSUME NEW i \in 1..(n - 1), stack[i].op = "forget"
        PROVE  /\ held'[stack[i].at] # Null
               /\ i < n - 1 => stack'[i + 1].op = "destroy"
               /\ i = n - 1 => held'[stack[i].at] \notin live'
    BY <1>1 DEF ForgetsWait
  <2>2. i \in DOMAIN stack /\ i < n /\ i + 1 \in 1..n
    BY <1>1
  <2>3. held[stack[i].at] # Null /\ stack[i + 1].op = "destroy"
    BY <2>1, <2>2 DEF Inv, ForgetsWait, n
  <2>4. stack[i].at \in Places
    BY <1>1, <2>1, <2>2, FrameFields
  <2>5. held'[stack[i].at] # Null
    BY <1>2, <1>3, <2>1, <2>3, <2>4
  <2>6. i # n - 1
    BY <1>1, <2>2, <2>3
  <2>7. i < n - 1 => i + 1 \in 1..(n - 1)
    BY <1>1
  <2> QED
    BY <1>1, <2>2, <2>3, <2>5, <2>6, <2>7
<1>8. Apart'
  <2>1. 1..(n - 1) \subseteq DOMAIN stack
    BY <1>1
  <2> QED
    BY <1>1, <2>1 DEF Inv, Apart
<1>9. TempOwned'
  <2>1. SUFFICES ASSUME held'[Temp] # Null
        PROVE  /\ n - 1 > 0 /\ stack'[1].op \in {"clear", "forget"} /\ stack'[1].at = Temp
    BY <1>1 DEF TempOwned
  <2>2. Temp \in Places
    BY DEF Places, Roots
  <2>3. held[Temp] # Null /\ Temp # Top.at
    BY <1>2, <2>1, <2>2
  <2>4. stack[1].op \in {"clear", "forget"} /\ stack[1].at = Temp
    BY <2>3 DEF Inv, TempOwned
  <2>5. n # 1
    BY <1>1, <2>3, <2>4
  <2>6. n - 1 > 0 /\ 1 \in 1..(n - 1)
    BY <1>1, <2>5
  <2> QED
    BY <1>1, <2>4, <2>6
<1>10. FreedEmpty'
  <2>1. Members(Objects \ live) \subseteq Places
    BY MembersArePlaces
  <2> QED
    BY <1>2, <2>1 DEF Inv, FreedEmpty
<1> QED
  BY <1>4, <1>5, <1>6, <1>7, <1>8, <1>9, <1>10

-------------------------------------------------------------------------------
LEMMA ClearNothingStep ==
  ASSUME Inv, ClearNothing
  PROVE  Inv'
<1>1. /\ stack # << >> /\ stack' = Rest /\ Top.op = "clear" /\ held[Top.at] = Null
      /\ UNCHANGED <<live, count, held, fault>>
  BY DEF ClearNothing, Running
<1>2. Top \in Frame /\ Top.at \in Places
  <2>1. Top \in Frame
    BY <1>1, Popped DEF Inv, Top
  <2> QED
    BY <1>1, <2>1, FrameFields
<1>3. held' = [held EXCEPT ![Top.at] = Null]
  BY <1>1, <1>2 DEF Inv, TypeOK
<1>4. Top.at \notin Forgotten
  BY <1>1, ForgottenIsDying DEF Inv
<1>5. TypeOK'
  <2>1. stack' \in Seq(Frame)
    BY <1>1, Popped DEF Inv
  <2> QED
    BY <1>1, <2>1 DEF Inv, TypeOK
<1>6. Forgotten' = Forgotten
  BY <1>1, PopForgotten DEF Inv
<1>7. Counted'
  BY <1>1, <1>6 DEF Inv, Counted, Referring
<1> QED
  BY <1>1, <1>2, <1>3, <1>4, <1>5, <1>7, PopKeepsShape DEF Inv

\* Every object but the one that is released is counted as before.
LEMMA ReleaseStep ==
  ASSUME Inv, Release
  PROVE  Inv'
<1> DEFINE x == held[Top.at]
<1>1. /\ stack # << >> /\ stack' = Rest /\ Top.op = "clear" /\ x \in live \ Dying
      /\ count' = [count EXCEPT ![x] = @ - 1] /\ held' = [held EXCEPT ![Top.at] = Null]
      /\ UNCHANGED <<live, fault>> /\ Running("clear")
  BY DEF Release, Running
<1>2. /\ Top \in Frame /\ Top.at \in Places /\ Top.at \notin Forgotten
      /\ x \in Objects /\ x # Null
      /\ Cardinality(Referring(x) \ {Top.at}) = count[x] - 1
  BY <1>1, ClearedIsCounted
<1> HIDE DEF x
<1>3. count' \in [Objects -> Int] /\ count'[x] = count[x] - 1
      /\ \A o \in Objects : o # x => count'[o] = count[o]
  BY <1>1, <1>2 DEF Inv, TypeOK
<1>4. TypeOK'
  <2>1. stack' \in Seq(Frame)
    BY <1>1, Popped DEF Inv
  <2>2. held' \in [Places -> Objects \cup {Null}]
    BY <1>1 DEF Inv, TypeOK
  <2> QED
    BY <1>1, <1>3, <2>1, <2>2 DEF Inv, TypeOK
<1>5. Forgotten' = Forgotten
  BY <1>1, PopForgotten DEF Inv
<1>6. /\ held'[Top.at] = Null
      /\ \A p \in Places : p # Top.at => held'[p] = held[p]
  BY <1>1, <1>2 DEF Inv, TypeOK
<1>7. {p \in Places \ Forgotten' : held'[p] = x} = Referring(x) \ {Top.at}
  BY <1>2, <1>5, <1>6 DEF Referring
<1>8. ASSUME NEW o \in Objects, o # x
      PROVE  {p \in Places \ Forgotten' : held'[p] = o} = Referring(o)
  <2>1. o # Null /\ held[Top.at] # o
    BY <1>8, NullOK DEF x
  <2> QED
    BY <1>5, <1>6, <2>1 DEF Referring
<1>9. Counted'
  <2>1. SUFFICES ASSUME NEW o \in Objects
                 PROVE  LET ps == {p \in Places \ Forgotten' : held'[p] = o} IN
                        IF o \in live THEN count'[o] = Cardinality(ps) ELSE ps = {}
    BY <1>1 DEF Counted, Referring
  <2>2. CASE o = x
    BY <1>1, <1>2, <1>3, <1>7, <2>2
  <2>3. CASE o # x
    BY <1>3, <1>8, <2>3 DEF Inv, Counted
  <2> QED
    BY <2>2, <2>3
<1>10. \A o \in Dying : count'[o] = count[o]
  <2>1. \A o \in Dying : o \in Objects
    BY ForgottenIsDying DEF Inv, TypeOK
  <2> QED
    BY <1>1, <1>3, <2>1
<1> QED
  BY <1>1, <1>2, <1>4, <1>9, <1>10, PopKeepsShape DEF Inv

LEMMA ForgetDeletedStep ==
  ASSUME Inv, ForgetDeleted
  PROVE  Inv'
<1>1. /\ stack # << >> /\ stack' = Rest /\ Top.op = "forget"
      /\ held' = [held EXCEPT ![Top.at] = Null] /\ UNCHANGED <<live, count, fault>>
  BY DEF ForgetDeleted, Running
<1>2. Top.at \in Places
  <2>1. Top \in Frame
    BY <1>1, Popped DEF Inv, Top
  <2> QED
    BY <1>1, <2>1, FrameFields
<1>3. TypeOK'
  <2>1. stack' \in Seq(Frame)
    BY <1>1, Popped DEF Inv
  <2>2. held' \in [Places -> Objects \cup {Null}]
    BY <1>1 DEF Inv, TypeOK
  <2> QED
    BY <1>1, <2>1, <2>2 DEF Inv, TypeOK
<1>4. Forgotten' = Forgotten \ {Top.at} /\ Top.at \in Forgotten
  BY <1>1, PopForgotten DEF Inv
<1>5. /\ held'[Top.at] = Null
      /\ \A p \in Places : p # Top.at => held'[p] = held[p]
  BY <1>1, <1>2 DEF Inv, TypeOK
<1>6. \A o \in Objects : Referring(o)' = Referring(o)
  <2>1. \A o \in Objects : o # Null
    BY NullOK
  <2> QED
    BY <1>4, <1>5, <2>1 DEF Referring
<1>7. Counted'
  BY <1>1, <1>6 DEF Inv, Counted
<1> QED
  BY <1>1, <1>2, <1>3, <1>7, PopKeepsShape DEF Inv

-------------------------------------------------------------------------------
LEMMA FreeStep ==
  ASSUME Inv, Free
  PROVE  Inv'
<1> DEFINE n == Len(stack)
           x == Top.obj
<1>1. /\ stack # << >> /\ stack' = Rest /\ Top.op = "destroy" /\ Top.left = 0
      /\ live' = live \ {x} /\ UNCHANGED <<count, held, fault>>
  BY DEF Free, Running
<1>2. /\ n \in Nat \ {0} /\ Len(stack') = n - 1
      /\ DOMAIN stack = 1..n /\ DOMAIN stack' = 1..(n - 1)
      /\ \A i \in 1..(n - 1) : stack'[i] = stack[i]
      /\ Top = stack[n] /\ \A i \in 1..n : stack[i] \in Frame
      /\ stack' \in Seq(Frame)
  BY <1>1, Popped DEF Inv, TypeOK, Top
<1>3. x \in live /\ x \in Objects /\ count[x] = 0
  <2>1. n \in DOMAIN stack
    BY <1>2
  <2> QED
    BY <1>1, <1>2, <2>1 DEF Inv, DestroysOwn, TypeOK
<1>4. \A k \in 1..Slots[x] : held[<<x, k>>] = Null
  <2>1. n \in DOMAIN stack
    BY <1>2
  <2>2. stack[n].left + 1 = 1
    BY <1>1, <1>2
  <2> QED
    BY <1>1, <1>2, <2>1, <2>2 DEF Inv, MembersCleared
<1> HIDE DEF n
<1>5. TypeOK'
  BY <1>1, <1>2 DEF Inv, TypeOK
<1>6. TakesWait'
  <2>1. SUFFICES ASSUME NEW i \in 1..(n - 1), stack[i].op = "take"
        PROVE  /\ stack[i].at # Temp
               /\ \A j \in 1..(i - 1) : stack'[j].op = "clear"
               /\ i = n - 1 => held[stack[i].at] = Null
               /\ i < n - 1 => stack'[i + 1].op \in {"clear", "forget"}
                               /\ stack'[i + 1].at = stack[i].at
    BY <1>1, <1>2 DEF TakesWait
  <2>2. /\ i \in DOMAIN stack /\ i < n /\ i + 1 \in 1..n
        /\ \A j \in 1..(i - 1) : j \in 1..(n - 1)
    BY <1>2
  <2>3. /\ stack[i].at # Temp
        /\ \A j \in 1..(i - 1) : stack[j].op = "clear"
        /\ stack[i + 1].op \in {"clear", "forget"} /\ stack[i + 1].at = stack[i].at
    BY <2>1, <2>2 DEF Inv, TakesWait, n
  <2>4. i # n - 1
    BY <1>1, <1>2, <2>2, <2>3
  <2>5. i < n - 1 => i + 1 \in 1..(n - 1)
    BY <1>2
  <2> QED
    BY <1>2, <2>2, <2>3, <2>4, <2>5
<1>7. ASSUME NEW i \in 1..(n - 1), stack[i].op = "destroy"
      PROVE  stack[i].obj # x
  <2>1. i \in DOMAIN stack /\ n \in DOMAIN stack /\ i # n
    BY <1>2
  <2> QED
    BY <1>1, <1>2, <1>7, <2>1 DEF Inv, Apart
<1>8. DestroysOwn'
  <2>1. SUFFICES ASSUME NEW i \in 1..(n - 1), stack[i].op = "destroy"
        PROVE  /\ i > 1 /\ stack'[i - 1].op = "forget"
               /\ held[stack'[i - 1].at] = stack[i].obj
               /\ stack[i].obj \in live' /\ count[stack[i].obj] = 0
               /\ stack[i].left <= Slots[stack[i].obj]
    BY <1>1, <1>2 DEF DestroysOwn
  <2>2. i \in DOMAIN stack /\ i - 1 \in Nat
    BY <1>2
  <2>3. /\ i > 1 /\ stack[i - 1].op = "forget" /\ held[stack[i - 1].at] = stack[i].obj
        /\ stack[i].obj \in live /\ count[stack[i].obj] = 0
        /\ stack[i].left <= Slots[stack[i].obj]
    BY <2>1, <2>2 DEF Inv, DestroysOwn
  <2>4. i - 1 \in 1..(n - 1)
    BY <1>2, <2>3
  <2> QED
    BY <1>1, <1>2, <1>7, <2>1, <2>3, <2>4
<1>9. MembersCleared'
  <2>1. SUFFICES ASSUME NEW i \in 1..(n - 1), stack[i].op = "destroy",
                        NEW k \in (stack[i].left + 1)..Slots[stack[i].obj]
        PROVE  \/ held[<<stack[i].obj, k>>] = Null
               \/ /\ k = stack[i].left + 1 /\ i < n - 1
                  /\ stack'[i + 1].op \in {"clear", "forget"}
                  /\ stack'[i + 1].at = <<stack[i].obj, k>>
    BY <1>1, <1>2 DEF MembersCleared
  <2>2. i \in DOMAIN stack /\ i < n /\ i + 1 \in 1..n
    BY <1>2
  <2>3. \/ held[<<stack[i].obj, k>>] = Null
        \/ /\ k = stack[i].left + 1
           /\ stack[i + 1].op \in {"clear", "forget"}
           /\ stack[i + 1].at = <<stack[i].obj, k>>
    BY <2>1, <2>2 DEF Inv, MembersCleared
  <2>4. i = n - 1 => stack[i + 1].op = "destroy"
    BY <1>1, <1>2
  <2>5. i < n - 1 => i + 1 \in 1..(n - 1)
    BY <1>2
  <2>6. i = n - 1 \/ i < n - 1
    BY <1>2
  <2> QED
    BY <1>2, <2>3, <2>4, <2>5, <2>6
<1>10. ForgetsWait'
  <2>1. SUFFICES ASSUME NEW i \in 1..(n - 1), stack[i].op = "forget"
        PROVE  /\ held[stack[i].at] # Null
               /\ i < n - 1 => stack'[i + 1].op = "destroy"
               /\ i = n - 1 => held[stack[i].at] \notin live'
    BY <1>1, <1>2 DEF ForgetsWait
  <2>2. i \in DOMAIN stack /\ i < n /\ i + 1 \in DOMAIN stack /\ (i + 1) - 1 = i
    BY <1>2
  <2>3. held[stack[i].at] # Null /\ stack[i + 1].op = "destroy"
    BY <2>1, <2>2 DEF Inv, ForgetsWait, n
  <2>4. held[stack[i].at] = stack[i + 1].obj
    BY <2>2, <2>3 DEF Inv, DestroysOwn
  <2>5. i = n - 1 => stack[i + 1].obj = x
    BY <1>2
  <2>6. i < n - 1 => i + 1 \in 1..(n - 1)
    BY <1>2
  <2> QED
    BY <1>1, <1>2, <2>3, <2>4, <2>5, <2>6
<1>11. Apart'
  <2>1. 1..(n - 1) \subseteq DOMAIN stack
    BY <1>2
  <2> QED
    BY <1>2, <2>1 DEF Inv, Apart
<1>12. TempOwned'
  <2>1. SUFFICES ASSUME held[Temp] # Null
        PROVE  /\ n - 1 > 0 /\ stack'[1].op \in {"clear", "forget"} /\ stack'[1].at = Temp
    BY <1>1, <1>2 DEF TempOwned
  <2>2. stack[1].op \in {"clear", "forget"} /\ stack[1].at = Temp
    BY <2>1 DEF Inv, TempOwned
  <2>3. n # 1
    BY <1>1, <1>2, <2>2
  <2>4. n - 1 > 0 /\ 1 \in 1..(n - 1)
    BY <1>2, <2>3
  <2> QED
    BY <1>2, <2>2, <2>4
<1>13. FreedEmpty'
  <2>1. SUFFICES ASSUME NEW p \in Members(Objects \ live')
                 PROVE  held[p] = Null
    BY <1>1 DEF FreedEmpty
  <2>2. PICK o \in Objects \ live' : \E k \in 1..Slots[o] : p = <<o, k>>
    BY MembersArePlaces
  <2>3. CASE o = x
    BY <1>4, <2>2, <2>3
  <2>4. CASE o # x
    <3>1. o \in Objects \ live
      BY <1>1, <2>2, <2>4
    <3>2. p \in Members(Objects \ live)
      BY <2>2, <3>1, MembersArePlaces
    <3> QED
      BY <3>2 DEF Inv, FreedEmpty
  <2> QED
    BY <2>3, <2>4
<1>14. Counted'
  <2>1. Forgotten' = Forgotten
    BY <1>1, PopForgotten DEF Inv
  <2>2. \A o \in Objects : Referring(o)' = Referring(o)
    BY <1>1, <2>1 DEF Referring
  <2>3. Referring(x) = {}
    <3>1. Cardinality(Referring(x)) = 0
      BY <1>3 DEF Inv, Counted
    <3> HIDE DEF x
    <3> QED
      BY <3>1, ReferringFinite, FS_EmptySet
  <2> HIDE DEF x
  <2>4. \A o \in Objects : o \in live' <=> o \in live /\ o # x
    BY <1>1
  <2> QED
    BY <1>1, <2>2, <2>3, <2>4 DEF Inv, Counted
<1> QED
  BY <1>5, <1>6, <1>8, <1>9, <1>10, <1>11, <1>12, <1>13, <1>14 DEF Inv

\* Below a take there are only clears that have not begun.
LEMMA TakeOverStep ==
  ASSUME Inv, TakeOver
  PROVE  Inv'
<1> DEFINE n == Len(stack)
           p == Top.at
           x == held[Top.from]
<1>1. /\ stack # << >> /\ stack' = Rest /\ Top.op = "take"
      /\ Exist(p) /\ Exist(Top.from) /\ held' = [held EXCEPT ![p] = x]
      /\ count' = IF x = Null THEN count ELSE [count EXCEPT ![x] = @ + 1]
      /\ UNCHANGED <<live, fault>>
  BY DEF TakeOver, Running
<1>2. /\ n \in Nat \ {0} /\ Len(stack') = n - 1
      /\ DOMAIN stack = 1..n /\ DOMAIN stack' = 1..(n - 1)
      /\ \A i \in 1..(n - 1) : stack'[i] = stack[i]
      /\ Top = stack[n] /\ Top \in Frame
      /\ stack' \in Seq(Frame)
  BY <1>1, Popped DEF Inv, TypeOK, Top
<1>3. p \in Places /\ Top.from \in Places
  BY <1>1, <1>2, FrameFields
<1>4. /\ p # Temp /\ held[p] = Null
      /\ \A i \in 1..(n - 1) : stack[i].op = "clear"
  <2>1. n \in DOMAIN stack
    BY <1>2
  <2> QED
    BY <1>1, <1>2, <2>1 DEF Inv, TakesWait
<1>5. \A i \in 1..(n - 1) : stack'[i].op = "clear"
  BY <1>2, <1>4
<1>6. Forgotten = {} /\ Forgotten' = {}
  <2>1. \A i \in 1..n : i \in 1..(n - 1) \/ i = n
    BY <1>2
  <2>2. \A i \in DOMAIN stack : stack[i].op # "forget"
    BY <1>1, <1>2, <1>4, <2>1
  <2>3. \A i \in DOMAIN stack' : stack'[i].op # "forget"
    BY <1>2, <1>5
  <2> QED
    BY <2>2, <2>3 DEF Forgotten
<1>7. x \in Objects \cup {Null}
  BY <1>3 DEF Inv, TypeOK
<1> HIDE DEF n, p, x
<1>8. /\ held' \in [Places -> Objects \cup {Null}] /\ held'[p] = x
      /\ \A q \in Places : q # p => held'[q] = held[q]
  BY <1>1, <1>3, <1>7 DEF Inv, TypeOK
<1>9. count' \in [Objects -> Int]
  BY <1>1, <1>7 DEF Inv, TypeOK
<1>10. TypeOK'
  BY <1>1, <1>2, <1>8, <1>9 DEF Inv, TypeOK
<1>11. TakesWait' /\ DestroysOwn' /\ MembersCleared' /\ ForgetsWait' /\ Apart'
  BY <1>2, <1>5 DEF TakesWait, DestroysOwn, MembersCleared, ForgetsWait, Apart
<1>12. TempOwned'
  <2>1. SUFFICES ASSUME held'[Temp] # Null
        PROVE  /\ n - 1 > 0 /\ stack'[1].op \in {"clear", "forget"} /\ stack'[1].at = Temp
    BY <1>2 DEF TempOwned
  <2>2. held[Temp] # Null
    <3>1. Temp \in Places
      BY DEF Places, Roots
    <3> QED
      BY <1>4, <1>8, <2>1, <3>1
  <2>3. stack[1].op \in {"clear", "forget"} /\ stack[1].at = Temp
    BY <2>2 DEF Inv, TempOwned
  <2>4. n # 1
    BY <1>1, <1>2, <2>3
  <2>5. n - 1 > 0 /\ 1 \in 1..(n - 1)
    BY <1>2, <2>4
  <2> QED
    BY <1>2, <2>3, <2>5
<1>13. FreedEmpty'
  <2>1. SUFFICES ASSUME NEW q \in Members(Objects \ live)
                 PROVE  held'[q] = Null
    BY <1>1 DEF FreedEmpty
  <2>2. q \in Places /\ q \notin Roots
    BY MembersArePlaces, PlacesApart
  <2>3. q \notin Members(live)
    <3>1. PICK o \in Objects \ live : \E k \in 1..Slots[o] : q = <<o, k>>
      BY MembersArePlaces
    <3>2. live \in SUBSET Objects
      BY DEF Inv, TypeOK
    <3> QED
      BY <3>1, <3>2, MembersArePlaces
  <2>4. q # p
    BY <1>1, <2>2, <2>3 DEF Exist
  <2> QED
    BY <1>8, <2>2, <2>4 DEF Inv, FreedEmpty
<1>14. Counted'
  <2>1. SUFFICES ASSUME NEW o \in Objects
                 PROVE  LET ps == {q \in Places : held'[q] = o} IN
                        IF o \in live THEN count'[o] = Cardinality(ps) ELSE ps = {}
    BY <1>1, <1>6 DEF Counted, Referring
  <2>2. Referring(o) = {q \in Places : held[q] = o} /\ o # Null
    BY <1>6, NullOK DEF Referring
  <2>3. CASE o # x
    <3>1. {q \in Places : held'[q] = o} = Referring(o)
      BY <1>3, <1>4, <1>8, <2>2, <2>3
    <3>2. count'[o] = count[o]
      BY <1>1, <1>7, <2>3 DEF Inv, TypeOK
    <3> QED
      BY <3>1, <3>2 DEF Inv, Counted
  <2>4. CASE o = x
    <3>1. {q \in Places : held'[q] = o} = Referring(o) \cup {p} /\ p \notin Referring(o)
      BY <1>3, <1>4, <1>8, <2>2, <2>4
    <3>2. Top.from \in Referring(o)
      BY <1>3, <2>2, <2>4 DEF x
    <3>3. o \in live /\ count[o] = Cardinality(Referring(o))
      BY <3>2 DEF Inv, Counted
    <3>4. Cardinality(Referring(o) \cup {p}) = Cardinality(Referring(o)) + 1
      BY <3>1, ReferringFinite, FS_AddElement
    <3>5. count'[o] = count[o] + 1
      BY <1>1, <2>2, <2>4 DEF Inv, TypeOK
    <3> QED
      BY <3>1, <3>3, <3>4, <3>5
  <2> QED
    BY <2>3, <2>4
<1> QED
  BY <1>10, <1>11, <1>12, <1>13, <1>14 DEF Inv

\* The last handle is no longer counted, and waits until its object is deleted.
LEMMA ReleaseLastStep ==
  ASSUME Inv, ReleaseLast
  PROVE  Inv'
<1> DEFINE n == Len(stack)
           p == Top.at
           x == held[Top.at]
           f == Forget(p)
           g == Destroy(x, Slots[x])
<1>1. /\ stack # << >> /\ Top.op = "clear" /\ x \in live \ Dying /\ count[x] <= 1
      /\ stack' = Rest \o <<f, g>> /\ count' = [count EXCEPT ![x] = @ - 1]
      /\ UNCHANGED <<live, held, fault>> /\ Running("clear")
  BY DEF ReleaseLast, Running
<1>2. /\ Top \in Frame /\ p \in Places /\ p \notin Forgotten
      /\ x \in Objects /\ x # Null /\ p \in Referring(x)
      /\ Cardinality(Referring(x) \ {p}) = count[x] - 1
      /\ Cardinality(Referring(x) \ {p}) \in Nat
  BY <1>1, ClearedIsCounted
<1>3. Slots[x] \in Nat
  BY <1>2, SlotsOK
<1> HIDE DEF x
<1>4. /\ f \in Frame /\ f.op = "forget" /\ f.at = p
      /\ g \in Frame /\ g.op = "destroy" /\ g.obj = x /\ g.left = Slots[x]
  BY <1>2, <1>3, FrameFields
<1> HIDE DEF p, f, g
<1>5. /\ n \in Nat \ {0} /\ Len(stack') = n + 1
      /\ DOMAIN stack = 1..n /\ DOMAIN stack' = 1..(n + 1)
      /\ \A i \in 1..(n - 1) : stack'[i] = stack[i]
      /\ stack'[n] = f /\ stack'[n + 1] = g
      /\ stack' \in Seq(Frame) /\ Top = stack[n]
  BY <1>1, <1>4, Replaced DEF Inv, Top
<1> HIDE DEF n
<1>6. count' \in [Objects -> Int] /\ count'[x] = 0
      /\ \A o \in Objects : o # x => count'[o] = count[o]
  <2>1. count[x] \in Int
    BY <1>2 DEF Inv, TypeOK
  <2>2. count[x] - 1 = 0
    BY <1>1, <1>2, <2>1
  <2> QED
    BY <1>1, <1>2, <2>2 DEF Inv, TypeOK
<1>7. TypeOK'
  BY <1>1, <1>5, <1>6 DEF Inv, TypeOK
<1>8. \A i \in 1..(n + 1) : i \in 1..(n - 1) \/ i = n \/ i = n + 1
  BY <1>5
<1>9. \A i \in 1..(n - 1) : /\ i \in DOMAIN stack /\ i + 1 \in 1..n /\ i < n
                            /\ i # n /\ \A j \in 1..i : j \in 1..(n - 1)
  BY <1>5
<1>10. TakesWait'
  <2>1. SUFFICES ASSUME NEW i \in 1..(n - 1), stack[i].op = "take"
        PROVE  /\ stack[i].at # Temp
               /\ \A j \in 1..(i - 1) : stack'[j].op = "clear"
               /\ i # n + 1
               /\ stack'[i + 1].op \in {"clear", "forget"}
               /\ stack'[i + 1].at = stack[i].at
    BY <1>1, <1>4, <1>5, <1>8 DEF TakesWait
  <2>2. /\ stack[i].at # Temp
        /\ \A j \in 1..(i - 1) : stack[j].op = "clear"
        /\ stack[i + 1].op \in {"clear", "forget"} /\ stack[i + 1].at = stack[i].at
    BY <1>9, <2>1 DEF Inv, TakesWait, n
  <2>3. \A j \in 1..(i - 1) : j \in 1..(n - 1)
    BY <1>5
  <2>4. i + 1 \in 1..(n - 1) \/ i + 1 = n
    BY <1>5
  <2> QED
    BY <1>4, <1>5, <1>9, <2>2, <2>3, <2>4 DEF p
<1>11. ASSUME NEW i \in 1..(n - 1), stack[i].op = "destroy"
       PROVE  stack[i].obj # x /\ stack[i].obj \in Objects
  <2>1. stack[i].obj \in Dying
    BY <1>9, <1>11 DEF Dying
  <2> QED
    BY <1>1, <2>1, ForgottenIsDying DEF Inv, TypeOK
<1>12. DestroysOwn'
  <2>1. SUFFICES ASSUME NEW i \in 1..(n + 1), stack'[i].op = "destroy"
        PROVE  /\ i > 1 /\ stack'[i - 1].op = "forget"
               /\ held[stack'[i - 1].at] = stack'[i].obj
               /\ stack'[i].obj \in live /\ count'[stack'[i].obj] = 0
               /\ stack'[i].left <= Slots[stack'[i].obj]
    BY <1>1, <1>5 DEF DestroysOwn
  <2>2. CASE i \in 1..(n - 1)
    <3>1. /\ i > 1 /\ stack[i - 1].op = "forget" /\ held[stack[i - 1].at] = stack[i].obj
          /\ stack[i].obj \in live /\ count[stack[i].obj] = 0
          /\ stack[i].left <= Slots[stack[i].obj]
      BY <1>5, <1>9, <2>1, <2>2 DEF Inv, DestroysOwn
    <3>2. i - 1 \in 1..(n - 1)
      BY <1>5, <2>2, <3>1
    <3> QED
      BY <1>5, <1>6, <1>11, <2>1, <2>2, <3>1, <3>2
  <2>3. CASE i = n
    BY <1>4, <1>5, <2>1, <2>3
  <2>4. CASE i = n + 1
    <3>1. i > 1 /\ i - 1 = n
      BY <1>5, <2>4
    <3>2. held[p] = x
      BY DEF p, x
    <3> QED
      BY <1>1, <1>3, <1>4, <1>5, <1>6, <2>4, <3>1, <3>2
  <2> QED
    BY <1>8, <2>2, <2>3, <2>4
<1>13. MembersCleared'
  <2>1. SUFFICES ASSUME NEW i \in 1..(n + 1), stack'[i].op = "destroy",
                        NEW k \in (stack'[i].left + 1)..Slots[stack'[i].obj]
        PROVE  \/ held[<<stack'[i].obj, k>>] = Null
               \/ /\ k = stack'[i].left + 1 /\ i < n + 1
                  /\ stack'[i + 1].op \in {"clear", "forget"}
                  /\ stack'[i + 1].at = <<stack'[i].obj, k>>
    <3>1. held' = held /\ Len(stack') = n + 1 /\ DOMAIN stack' = 1..(n + 1)
      BY <1>1, <1>5
    <3> QED
      BY <3>1 DEF MembersCleared
  <2>2. i \in 1..(n - 1)
    <3>1. i # n
      BY <1>4, <1>5, <2>1
    <3>2. i # n + 1
      BY <1>3, <1>4, <1>5, <2>1
    <3> QED
      BY <1>8, <3>1, <3>2
  <2>3. stack'[i] = stack[i]
    BY <1>5, <2>2
  <2>4. \/ held[<<stack[i].obj, k>>] = Null
        \/ /\ k = stack[i].left + 1
           /\ stack[i + 1].op \in {"clear", "forget"}
           /\ stack[i + 1].at = <<stack[i].obj, k>>
    BY <1>9, <2>1, <2>2, <2>3 DEF Inv, MembersCleared
  <2>5. i < n + 1 /\ (i + 1 \in 1..(n - 1) \/ i + 1 = n)
    BY <1>5, <2>2
  <2> QED
    BY <1>4, <1>5, <2>3, <2>4, <2>5 DEF p
<1>14. ForgetsWait'
  <2>1. SUFFICES ASSUME NEW i \in 1..(n + 1), stack'[i].op = "forget"
        PROVE  /\ held[stack'[i].at] # Null
               /\ i < n + 1 => stack'[i + 1].op = "destroy"
               /\ i # n + 1
    BY <1>1, <1>5 DEF ForgetsWait
  <2>2. CASE i \in 1..(n - 1)
    <3>1. held[stack[i].at] # Null /\ stack[i + 1].op = "destroy"
      BY <1>5, <1>9, <2>1, <2>2 DEF Inv, ForgetsWait, n
    <3>2. i + 1 # n
      BY <1>1, <1>5, <3>1
    <3>3. i + 1 \in 1..(n - 1) /\ i # n + 1
      BY <1>5, <2>2, <3>2
    <3> QED
      BY <1>5, <2>2, <3>1, <3>3
  <2>3. CASE i = n
    BY <1>2, <1>4, <1>5, <2>3 DEF p, x
  <2>4. CASE i = n + 1
    BY <1>4, <1>5, <2>1, <2>4
  <2> QED
    BY <1>8, <2>2, <2>3, <2>4
<1>15. Apart'
  <2>1. SUFFICES ASSUME NEW i \in 1..(n + 1), NEW j \in 1..(n + 1), i # j,
                        stack'[i].op = stack'[j].op
        PROVE  /\ stack'[i].op = "forget" => stack'[i].at # stack'[j].at
               /\ stack'[i].op = "destroy" => stack'[i].obj # stack'[j].obj
    BY <1>5 DEF Apart
  <2>2. \A k \in 1..(n - 1) : stack[k].op = "forget" => stack[k].at # p
    BY <1>2, <1>9 DEF Forgotten
  <2>3. \A k \in 1..(n - 1) : stack[k].op = "destroy" => stack[k].obj # x
    BY <1>11
  <2>4. CASE i \in 1..(n - 1) /\ j \in 1..(n - 1)
    BY <1>5, <1>9, <2>1, <2>4 DEF Inv, Apart
  <2>5. CASE i = n
    BY <1>4, <1>5, <1>8, <2>1, <2>2, <2>5
  <2>6. CASE i = n + 1
    BY <1>4, <1>5, <1>8, <2>1, <2>3, <2>6
  <2>7. CASE i \in 1..(n - 1) /\ (j = n \/ j = n + 1)
    BY <1>4, <1>5, <2>1, <2>2, <2>3, <2>7
  <2> QED
    BY <1>8, <2>4, <2>5, <2>6, <2>7
<1>16. TempOwned'
  <2>1. SUFFICES ASSUME held[Temp] # Null
        PROVE  /\ stack'[1].op \in {"clear", "forget"} /\ stack'[1].at = Temp
    BY <1>1, <1>5 DEF TempOwned
  <2>2. stack[1].op \in {"clear", "forget"} /\ stack[1].at = Temp
    BY <2>1 DEF Inv, TempOwned
  <2>3. n = 1 \/ 1 \in 1..(n - 1)
    BY <1>5
  <2> QED
    BY <1>4, <1>5, <2>2, <2>3 DEF p
<1>17. FreedEmpty'
  BY <1>1 DEF Inv, FreedEmpty
<1>18. Forgotten' = Forgotten \cup {p}
  <2>1. \A q : q \in Forgotten <=>
          \E i \in 1..(n - 1) : stack[i].op = "forget" /\ q = stack[i].at
    <3>1. \A i \in 1..n : i \in 1..(n - 1) \/ i = n
      BY <1>5
    <3>2. stack[n].op # "forget"
      BY <1>1, <1>5
    <3>3. \A q : q \in Forgotten <=>
            \E i \in 1..n : stack[i].op = "forget" /\ q = stack[i].at
      BY <1>5 DEF Forgotten
    <3>4. \A i \in 1..(n - 1) : i \in 1..n
      BY <1>5
    <3> QED
      BY <3>1, <3>2, <3>3, <3>4, Zenon
  <2>2. \A q : q \in Forgotten' <=>
          \E i \in 1..(n + 1) : stack'[i].op = "forget" /\ q = stack'[i].at
    BY <1>5 DEF Forgotten
  <2>3. n \in 1..(n + 1) /\ 1..(n - 1) \subseteq 1..(n + 1)
    BY <1>5
  <2> QED
    BY <1>4, <1>5, <1>8, <2>1, <2>2, <2>3
<1>19. Counted'
  <2>1. SUFFICES ASSUME NEW o \in Objects
                 PROVE  LET ps == {q \in Places \ Forgotten' : held[q] = o} IN
                        IF o \in live THEN count'[o] = Cardinality(ps) ELSE ps = {}
    BY <1>1 DEF Counted, Referring
  <2>2. CASE o = x
    <3>1. {q \in Places \ Forgotten' : held[q] = o} = Referring(o) \ {p}
      BY <1>18 DEF Referring
    <3>2. count'[o] = count[x] - 1
      BY <1>1, <1>2, <2>2 DEF Inv, TypeOK
    <3> QED
      BY <1>1, <1>2, <2>2, <3>1, <3>2
  <2>3. CASE o # x
    <3>1. {q \in Places \ Forgotten' : held[q] = o} = Referring(o)
      BY <1>18, <2>3 DEF Referring, x, p
    <3> QED
      BY <1>6, <2>3, <3>1 DEF Inv, Counted
  <2> QED
    BY <2>2, <2>3
<1> QED
  BY <1>7, <1>10, <1>12, <1>13, <1>14, <1>15, <1>16, <1>17, <1>19 DEF Inv

\* The destructor clears its next member.
LEMMA DestroyMemberStep ==
  ASSUME Inv, DestroyMember
  PROVE  Inv'
<1> DEFINE n == Len(stack)
           x == Top.obj
           k == Top.left
           p == <<x, k>>
           f == Destroy(x, k - 1)
           g == Clear(p)
<1>1. /\ stack # << >> /\ Top.op = "destroy" /\ k > 0 /\ stack' = Rest \o <<f, g>>
      /\ UNCHANGED <<live, count, held, fault>>
  BY DEF DestroyMember, Running
<1>2. /\ n \in Nat \ {0} /\ n \in DOMAIN stack /\ Top = stack[n] /\ Top \in Frame
  BY <1>1 DEF Inv, TypeOK, Top
<1>3. x \in Objects /\ k \in Nat /\ Slots[x] \in Nat
  BY <1>1, <1>2, FrameFields, SlotsOK
<1>4. /\ n > 1 /\ stack[n - 1].op = "forget" /\ held[stack[n - 1].at] = x
      /\ x \in live /\ count[x] = 0 /\ k <= Slots[x]
  BY <1>1, <1>2 DEF Inv, DestroysOwn
<1>5. \A l \in (k + 1)..Slots[x] : held[<<x, l>>] = Null
  BY <1>1, <1>2 DEF Inv, MembersCleared
<1>6. p \in Places /\ p \notin Roots
  <2>1. k \in 1..Slots[x]
    BY <1>1, <1>3, <1>4
  <2> QED
    BY <1>3, <2>1, MembersArePlaces, PlacesApart
<1> HIDE DEF x, k
<1>7. /\ f \in Frame /\ f.op = "destroy" /\ f.obj = x /\ f.left = k - 1
      /\ g \in Frame /\ g.op = "clear" /\ g.at = p
  <2>1. k - 1 \in Nat
    BY <1>1, <1>3
  <2> HIDE DEF p
  <2> QED
    BY <1>3, <1>6, <2>1, FrameFields
<1> HIDE DEF f, g, p
<1>8. /\ Len(stack') = n + 1
      /\ DOMAIN stack = 1..n /\ DOMAIN stack' = 1..(n + 1)
      /\ \A i \in 1..(n - 1) : stack'[i] = stack[i]
      /\ stack'[n] = f /\ stack'[n + 1] = g /\ stack' \in Seq(Frame)
  BY <1>1, <1>7, Replaced DEF Inv
<1> HIDE DEF n
<1>9. TypeOK'
  BY <1>1, <1>8 DEF Inv, TypeOK
<1>10. /\ \A i \in 1..(n + 1) : i \in 1..(n - 1) \/ i = n \/ i = n + 1
       /\ \A i \in 1..(n - 1) : /\ i \in DOMAIN stack /\ i + 1 \in 1..n /\ i < n
                                /\ i # n /\ i < n + 1 /\ i # n + 1
                                /\ (i + 1 \in 1..(n - 1) \/ i + 1 = n)
  BY <1>2, <1>8
<1>11. TakesWait'
  <2>1. SUFFICES ASSUME NEW i \in 1..(n + 1), stack'[i].op = "take"
        PROVE  /\ stack'[i].at # Temp
               /\ \A j \in 1..(i - 1) : stack'[j].op = "clear"
               /\ i = n + 1 => held[stack'[i].at] = Null
               /\ i < n + 1 => stack'[i + 1].op \in {"clear", "forget"}
                               /\ stack'[i + 1].at = stack'[i].at
    BY <1>1, <1>8 DEF TakesWait
  <2>2. i \in 1..(n - 1) /\ stack'[i] = stack[i]
    <3>1. i # n /\ i # n + 1
      BY <1>7, <1>8, <2>1
    <3> QED
      BY <1>8, <1>10, <3>1
  <2>3. /\ stack[i].at # Temp
        /\ \A j \in 1..(i - 1) : stack[j].op = "clear"
        /\ stack[i + 1].op \in {"clear", "forget"} /\ stack[i + 1].at = stack[i].at
    BY <1>10, <2>1, <2>2 DEF Inv, TakesWait, n
  <2>4. \A j \in 1..(i - 1) : j \in 1..(n - 1)
    BY <1>2, <2>2
  <2>5. i + 1 # n
    BY <1>1, <1>2, <2>3
  <2> QED
    BY <1>8, <1>10, <2>2, <2>3, <2>4, <2>5
<1>12. DestroysOwn'
  <2>1. SUFFICES ASSUME NEW i \in 1..(n + 1), stack'[i].op = "destroy"
        PROVE  /\ i > 1 /\ stack'[i - 1].op = "forget"
               /\ held[stack'[i - 1].at] = stack'[i].obj
               /\ stack'[i].obj \in live /\ count[stack'[i].obj] = 0
               /\ stack'[i].left <= Slots[stack'[i].obj]
    BY <1>1, <1>8 DEF DestroysOwn
  <2>2. CASE i \in 1..(n - 1)
    <3>1. /\ i > 1 /\ stack[i - 1].op = "forget" /\ held[stack[i - 1].at] = stack[i].obj
          /\ stack[i].obj \in live /\ count[stack[i].obj] = 0
          /\ stack[i].left <= Slots[stack[i].obj]
      BY <1>8, <1>10, <2>1, <2>2 DEF Inv, DestroysOwn
    <3>2. i - 1 \in 1..(n - 1)
      BY <1>2, <2>2, <3>1
    <3> QED
      BY <1>8, <2>1, <2>2, <3>1, <3>2
  <2>3. CASE i = n
    <3>1. n - 1 \in 1..(n - 1)
      BY <1>2, <1>4
    <3>2. k - 1 <= Slots[x]
      BY <1>3, <1>4
    <3> QED
      BY <1>4, <1>7, <1>8, <2>3, <3>1, <3>2
  <2>4. CASE i = n + 1
    BY <1>7, <1>8, <2>1, <2>4
  <2> QED
    BY <1>10, <2>2, <2>3, <2>4
<1>13. MembersCleared'
  <2>1. SUFFICES ASSUME NEW i \in 1..(n + 1), stack'[i].op = "destroy",
                        NEW l \in (stack'[i].left + 1)..Slots[stack'[i].obj]
        PROVE  \/ held[<<stack'[i].obj, l>>] = Null
               \/ /\ l = stack'[i].left + 1 /\ i < n + 1
                  /\ stack'[i + 1].op \in {"clear", "forget"}
                  /\ stack'[i + 1].at = <<stack'[i].obj, l>>
    BY <1>1, <1>8 DEF MembersCleared
  <2>2. CASE i \in 1..(n - 1)
    <3>1. \/ held[<<stack[i].obj, l>>] = Null
          \/ /\ l = stack[i].left + 1
             /\ stack[i + 1].op \in {"clear", "forget"}
             /\ stack[i + 1].at = <<stack[i].obj, l>>
      BY <1>8, <1>10, <2>1, <2>2 DEF Inv, MembersCleared
    <3>2. stack[i + 1].op \in {"clear", "forget"} => i + 1 \in 1..(n - 1)
      BY <1>1, <1>2, <1>10, <2>2
    <3> QED
      BY <1>8, <1>10, <2>2, <3>1, <3>2
  <2>3. CASE i = n
    <3>1. l = k \/ l \in (k + 1)..Slots[x]
      BY <1>1, <1>3, <1>7, <1>8, <2>1, <2>3
    <3>2. k - 1 + 1 = k /\ n < n + 1
      BY <1>2, <1>3
    <3> QED
      BY <1>5, <1>7, <1>8, <2>3, <3>1, <3>2 DEF p
  <2>4. CASE i = n + 1
    BY <1>7, <1>8, <2>1, <2>4
  <2> QED
    BY <1>10, <2>2, <2>3, <2>4
<1>14. ForgetsWait'
  <2>1. SUFFICES ASSUME NEW i \in 1..(n - 1), stack[i].op = "forget"
        PROVE  held[stack[i].at] # Null /\ stack'[i + 1].op = "destroy"
    BY <1>1, <1>7, <1>8, <1>10 DEF ForgetsWait
  <2>2. held[stack[i].at] # Null /\ stack[i + 1].op = "destroy"
    BY <1>10, <2>1 DEF Inv, ForgetsWait, n
  <2> QED
    BY <1>7, <1>8, <1>10, <2>2
<1>15. Apart'
  <2>1. SUFFICES ASSUME NEW i \in 1..(n + 1), NEW j \in 1..(n + 1), i # j,
                        stack'[i].op = stack'[j].op
        PROVE  /\ stack'[i].op = "forget" => stack'[i].at # stack'[j].at
               /\ stack'[i].op = "destroy" => stack'[i].obj # stack'[j].obj
    BY <1>8 DEF Apart
  <2>2. \A l \in 1..(n - 1) : stack[l].op = "destroy" => stack[l].obj # x
    BY <1>1, <1>2, <1>10 DEF Inv, Apart, x
  <2>3. CASE i \in 1..(n - 1) /\ j \in 1..(n - 1)
    BY <1>8, <1>10, <2>1, <2>3 DEF Inv, Apart
  <2>4. CASE i \in 1..(n - 1) /\ (j = n \/ j = n + 1)
    BY <1>7, <1>8, <2>1, <2>2, <2>4
  <2>5. CASE i = n
    BY <1>7, <1>8, <1>10, <2>1, <2>2, <2>5
  <2>6. CASE i = n + 1
    BY <1>7, <1>8, <2>1, <2>6
  <2> QED
    BY <1>10, <2>3, <2>4, <2>5, <2>6
<1>16. TempOwned'
  <2>1. SUFFICES ASSUME held[Temp] # Null
        PROVE  /\ stack'[1].op \in {"clear", "forget"} /\ stack'[1].at = Temp
    BY <1>1, <1>2, <1>8 DEF TempOwned
  <2>2. stack[1].op \in {"clear", "forget"} /\ stack[1].at = Temp
    BY <2>1 DEF Inv, TempOwned
  <2>3. 1 \in 1..(n - 1)
    BY <1>2, <1>4
  <2> QED
    BY <1>8, <2>2, <2>3
<1>17. FreedEmpty'
  BY <1>1 DEF Inv, FreedEmpty
<1>18. Forgotten' = Forgotten
  <2>1. \A q : q \in Forgotten <=>
          \E i \in 1..(n - 1) : stack[i].op = "forget" /\ q = stack[i].at
    <3>1. \A i \in 1..n : i \in 1..(n - 1) \/ i = n
      BY <1>2
    <3>2. stack[n].op # "forget"
      BY <1>1, <1>2
    <3>3. \A q : q \in Forgotten <=>
            \E i \in 1..n : stack[i].op = "forget" /\ q = stack[i].at
      BY <1>8 DEF Forgotten
    <3>4. \A i \in 1..(n - 1) : i \in 1..n
      BY <1>2
    <3> QED
      BY <3>1, <3>2, <3>3, <3>4, Zenon
  <2>2. \A q : q \in Forgotten' <=>
          \E i \in 1..(n + 1) : stack'[i].op = "forget" /\ q = stack'[i].at
    BY <1>8 DEF Forgotten
  <2>3. 1..(n - 1) \subseteq 1..(n + 1)
    BY <1>2
  <2> QED
    <3>1. stack'[n].op # "forget" /\ stack'[n + 1].op # "forget"
      BY <1>7, <1>8
    <3>2. \A i \in 1..(n + 1) : stack'[i].op = "forget" => i \in 1..(n - 1)
      BY <1>10, <3>1
    <3>3. \A i \in 1..(n - 1) : stack'[i] = stack[i]
      BY <1>8
    <3>4. ASSUME NEW q \in Forgotten
          PROVE  q \in Forgotten'
      <4>1. PICK i \in 1..(n - 1) : stack[i].op = "forget" /\ q = stack[i].at
        BY <2>1
      <4> QED
        BY <2>2, <2>3, <3>3, <4>1
    <3>5. ASSUME NEW q \in Forgotten'
          PROVE  q \in Forgotten
      <4>1. PICK i \in 1..(n + 1) : stack'[i].op = "forget" /\ q = stack'[i].at
        BY <2>2
      <4>2. i \in 1..(n - 1) /\ stack'[i] = stack[i]
        BY <3>2, <3>3, <4>1
      <4> QED
        BY <2>1, <4>1, <4>2
    <3> QED
      BY <3>4, <3>5
<1>19. Counted'
  <2>1. \A o \in Objects : Referring(o)' = Referring(o)
    BY <1>1, <1>18 DEF Referring
  <2> QED
    BY <1>1, <2>1 DEF Inv, Counted
<1> QED
  BY <1>9, <1>11, <1>12, <1>13, <1>14, <1>15, <1>16, <1>17, <1>19 DEF Inv

-------------------------------------------------------------------------------
\* The frames of a call that is made, from the last one on.
CallFrames(p, q) == {<<Clear(p)>>, <<Take(p, q), Clear(p)>>,
                     <<Clear(Temp), Take(p, q), Clear(p)>>}

LEMMA CallShape ==
  ASSUME NEW p \in Places, NEW q \in Places, p # Temp, stack' \in CallFrames(p, q)
  PROVE  /\ stack' \in Seq(Frame)
         /\ TakesWait' /\ DestroysOwn' /\ MembersCleared' /\ ForgetsWait' /\ Apart'
         /\ Forgotten' = {}
<1> DEFINE c == Clear(p)
           d == Clear(Temp)
           t == Take(p, q)
<1>1. /\ c \in Frame /\ c.op = "clear" /\ c.at = p
      /\ d \in Frame /\ d.op = "clear"
      /\ t \in Frame /\ t.op = "take" /\ t.at = p
  <2>1. Temp \in Places
    BY DEF Places, Roots
  <2> QED
    BY <2>1, FrameFields
<1>2. stack' = <<c>> \/ stack' = <<t, c>> \/ stack' = <<d, t, c>>
  BY DEF CallFrames
<1> HIDE DEF c, d, t
<1>3. stack' \in Seq(Frame)
  <2>1. c \in Frame /\ d \in Frame /\ t \in Frame
    BY <1>1
  <2>2. <<c>> \in Seq(Frame) /\ <<t, c>> \in Seq(Frame) /\ <<d, t, c>> \in Seq(Frame)
    <3> HIDE DEF Frame
    <3> QED
      BY <2>1
  <2> QED
    BY <1>2, <2>2
<1>4. \A i \in DOMAIN stack' : stack'[i].op \in {"clear", "take"}
  BY <1>1, <1>2
<1>5. DestroysOwn' /\ MembersCleared' /\ ForgetsWait' /\ Apart'
  BY <1>4 DEF DestroysOwn, MembersCleared, ForgetsWait, Apart
<1>6. TakesWait'
  <2>1. CASE stack' = <<c>>
    BY <1>1, <2>1 DEF TakesWait
  <2>2. CASE stack' = <<t, c>>
    <3>1. /\ Len(stack') = 2 /\ DOMAIN stack' = {1, 2}
          /\ stack'[1] = t /\ stack'[2] = c
      BY <2>2
    <3>2. 1..(1 - 1) = {} /\ 1 < 2 /\ 1 + 1 = 2
      OBVIOUS
    <3> QED
      BY <1>1, <3>1, <3>2 DEF TakesWait
  <2>3. CASE stack' = <<d, t, c>>
    <3>1. /\ Len(stack') = 3 /\ DOMAIN stack' = {1, 2, 3}
          /\ stack'[1] = d /\ stack'[2] = t /\ stack'[3] = c
      BY <2>3
    <3>2. 1..(2 - 1) = {1} /\ 2 < 3 /\ 2 + 1 = 3
      OBVIOUS
    <3> QED
      BY <1>1, <3>1, <3>2 DEF TakesWait
  <2> QED
    BY <1>2, <2>1, <2>2, <2>3
<1>7. Forgotten' = {}
  BY <1>4 DEF Forgotten
<1> QED
  BY <1>3, <1>5, <1>6, <1>7

\* Between calls nothing is being forgotten, and the temporary is empty.
LEMMA IdleFacts ==
  ASSUME Inv, Idle
  PROVE  /\ stack = << >> /\ Forgotten = {} /\ held[Temp] = Null /\ Temp \in Places
         /\ Named \subseteq Places /\ Temp \notin Named
<1>1. stack = << >>
  BY DEF Idle
<1>2. Forgotten = {} /\ held[Temp] = Null
  BY <1>1 DEF Forgotten, Inv, TempOwned
<1>3. live \in SUBSET Objects /\ Reachable \in SUBSET Objects
  BY DEF Inv, TypeOK, Reachable
<1>4. Members(Reachable) \subseteq Members(Objects)
  BY <1>3, MembersArePlaces
<1> QED
  BY <1>1, <1>2, <1>4, PlacesApart DEF Named, Places, Roots

LEMMA PlainCallStep ==
  ASSUME Inv, NEW p, NEW q, Empty(p) \/ Assign(p, q)
  PROVE  Inv'
<1>1. /\ Idle /\ p \in Named /\ UNCHANGED <<live, count, held, fault>>
      /\ (stack' = <<Clear(p)>> \/ (q \in Named /\ stack' = <<Take(p, q), Clear(p)>>))
  <2>1. CASE Empty(p)
    BY <2>1 DEF Empty, Called
  <2>2. CASE Assign(p, q)
    BY <2>2 DEF Assign, Called
  <2> QED
    BY <2>1, <2>2
<1>2. p \in Places /\ p # Temp /\ Forgotten = {} /\ held[Temp] = Null
  BY <1>1, IdleFacts
<1>3. \E r \in Places : stack' \in CallFrames(p, r)
  <2>1. CASE stack' = <<Clear(p)>>
    <3>1. stack' \in CallFrames(p, p)
      BY <2>1 DEF CallFrames
    <3> QED
      BY <1>2, <3>1
  <2>2. CASE q \in Named /\ stack' = <<Take(p, q), Clear(p)>>
    <3>1. stack' \in CallFrames(p, q)
      BY <2>2 DEF CallFrames
    <3>2. q \in Places
      BY <1>1, <2>2, IdleFacts
    <3> QED
      BY <3>1, <3>2
  <2> QED
    BY <1>1, <2>1, <2>2
<1>4. /\ stack' \in Seq(Frame)
      /\ TakesWait' /\ DestroysOwn' /\ MembersCleared' /\ ForgetsWait' /\ Apart'
      /\ Forgotten' = {}
  BY <1>2, <1>3, CallShape
<1>5. TypeOK'
  BY <1>1, <1>4 DEF Inv, TypeOK
<1>6. TempOwned' /\ FreedEmpty'
  BY <1>1, <1>2 DEF Inv, TempOwned, FreedEmpty
<1>7. Counted'
  <2>1. \A o \in Objects : Referring(o)' = Referring(o)
    BY <1>1, <1>2, <1>4 DEF Referring
  <2> QED
    BY <1>1, <2>1 DEF Inv, Counted
<1> QED
  BY <1>4, <1>5, <1>6, <1>7 DEF Inv

\* A call that goes through the temporary, which comes to refer to x, an object that
\* there is or has just been allocated, or to nothing.
LEMMA ThroughTempStep ==
  ASSUME Inv, Idle, NEW p \in Named, NEW x \in Objects \cup {Null},
         live' = IF x = Null THEN live ELSE live \cup {x},
         held' = [held EXCEPT ![Temp] = x],
         count' = IF x = Null THEN count
                  ELSE [count EXCEPT ![x] = IF x \in live THEN @ + 1 ELSE 1],
         stack' = <<Clear(Temp), Take(p, Temp), Clear(p)>>, UNCHANGED fault
  PROVE  Inv'
<1>1. /\ Forgotten = {} /\ held[Temp] = Null /\ Temp \in Places
      /\ p \in Places /\ p # Temp
  BY IdleFacts
<1>2. /\ stack' \in Seq(Frame)
      /\ TakesWait' /\ DestroysOwn' /\ MembersCleared' /\ ForgetsWait' /\ Apart'
      /\ Forgotten' = {}
  <2>1. stack' \in CallFrames(p, Temp)
    BY DEF CallFrames
  <2> QED
    BY <1>1, <2>1, CallShape
<1>3. /\ held' \in [Places -> Objects \cup {Null}] /\ held'[Temp] = x
      /\ \A r \in Places : r # Temp => held'[r] = held[r]
  BY <1>1 DEF Inv, TypeOK
<1>4. /\ live' \subseteq Objects /\ live \subseteq Objects
      /\ \A o \in Objects : o \in live' <=> o \in live \/ o = x
  BY NullOK DEF Inv, TypeOK
<1>5. /\ count' \in [Objects -> Int]
      /\ \A o \in Objects : o # x => count'[o] = count[o]
      /\ x \in live => count'[x] = count[x] + 1
      /\ x \in Objects \ live => count'[x] = 1
  BY NullOK DEF Inv, TypeOK
<1>6. TypeOK'
  BY <1>2, <1>3, <1>4, <1>5 DEF Inv, TypeOK
<1>7. TempOwned'
  <2>1. stack' # << >> /\ stack'[1] = Clear(Temp)
    OBVIOUS
  <2>2. Clear(Temp).op = "clear" /\ Clear(Temp).at = Temp
    BY <1>1, FrameFields
  <2> QED
    BY <2>1, <2>2 DEF TempOwned
<1>8. FreedEmpty'
  <2>1. SUFFICES ASSUME NEW r \in Members(Objects \ live')
                 PROVE  held'[r] = Null
    BY DEF FreedEmpty
  <2>2. PICK o \in Objects \ live' : \E k \in 1..Slots[o] : r = <<o, k>>
    BY MembersArePlaces
  <2>3. o \in Objects \ live
    BY <1>4, <2>2
  <2>4. r \in Members(Objects \ live) /\ r \in Members(Objects)
    BY <2>2, <2>3, MembersArePlaces
  <2>5. r # Temp /\ r \in Places
    BY <2>4, MembersArePlaces, PlacesApart DEF Roots
  <2> QED
    BY <1>3, <2>4, <2>5 DEF Inv, FreedEmpty
<1>9. Counted'
  <2>1. SUFFICES ASSUME NEW o \in Objects
                 PROVE  LET ps == {r \in Places : held'[r] = o} IN
                        IF o \in live' THEN count'[o] = Cardinality(ps) ELSE ps = {}
    BY <1>2 DEF Counted, Referring
  <2>2. Referring(o) = {r \in Places : held[r] = o} /\ o # Null
    BY <1>1, NullOK DEF Referring
  <2>3. CASE o # x
    <3>1. {r \in Places : held'[r] = o} = Referring(o)
      BY <1>1, <1>3, <2>2, <2>3
    <3> QED
      BY <1>4, <1>5, <2>3, <3>1 DEF Inv, Counted
  <2>4. CASE o = x
    <3>1. {r \in Places : held'[r] = o} = Referring(o) \cup {Temp}
          /\ Temp \notin Referring(o)
      BY <1>1, <1>3, <2>2, <2>4
    <3>2. Cardinality(Referring(o) \cup {Temp}) = Cardinality(Referring(o)) + 1
      BY <3>1, ReferringFinite, FS_AddElement
    <3>3. o \in live => count'[o] = count[o] + 1 /\ count[o] = Cardinality(Referring(o))
      BY <1>5, <2>4 DEF Inv, Counted
    <3>4. o \notin live => count'[o] = 1 /\ Cardinality(Referring(o)) = 0
      BY <1>5, <2>4, FS_EmptySet DEF Inv, Counted
    <3>5. o \in live'
      BY <1>4, <2>4
    <3> QED
      BY <3>1, <3>2, <3>3, <3>4, <3>5
  <2> QED
    BY <2>3, <2>4
<1> QED
  BY <1>2, <1>6, <1>7, <1>8, <1>9 DEF Inv

LEMMA NewStep ==
  ASSUME Inv, NEW p, NEW o \in Objects, New(p, o)
  PROVE  Inv'
<1>1. /\ Idle /\ p \in Named /\ o \notin live /\ o # Null
      /\ live' = live \cup {o} /\ held' = [held EXCEPT ![Temp] = o]
      /\ count' = [count EXCEPT ![o] = 1] /\ UNCHANGED fault
      /\ stack' = <<Clear(Temp), Take(p, Temp), Clear(p)>>
  BY NullOK DEF New, Called
<1> QED
  BY <1>1, ThroughTempStep

LEMMA ConvertStep ==
  ASSUME Inv, NEW p, NEW q, Convert(p, q)
  PROVE  Inv'
<1>1. /\ Idle /\ p \in Named /\ q \in Named /\ UNCHANGED <<live, fault>>
      /\ stack' = <<Clear(Temp), Take(p, Temp), Clear(p)>>
  BY DEF Convert, Called
<1>2. PICK x \in {held[q], Null} :
        /\ held' = [held EXCEPT ![Temp] = x]
        /\ count' = IF x = Null THEN count ELSE [count EXCEPT ![x] = @ + 1]
  BY DEF Convert, Adopted
<1>3. q \in Places /\ Forgotten = {} /\ x \in Objects \cup {Null}
  BY <1>1, <1>2, IdleFacts DEF Inv, TypeOK
<1>4. x # Null => x \in live
  <2>1. SUFFICES ASSUME x # Null
                 PROVE  x \in live
    OBVIOUS
  <2>2. x \in Objects /\ q \in Referring(x)
    BY <1>2, <1>3, <2>1 DEF Referring
  <2> QED
    BY <2>2 DEF Inv, Counted
<1>5. live' = IF x = Null THEN live ELSE live \cup {x}
  BY <1>1, <1>4
<1>6. count' = IF x = Null THEN count
               ELSE [count EXCEPT ![x] = IF x \in live THEN @ + 1 ELSE 1]
  BY <1>2, <1>4
<1> QED
  BY <1>1, <1>2, <1>3, <1>5, <1>6, ThroughTempStep

-------------------------------------------------------------------------------
LEMMA InitInv == Init => Inv
<1> SUFFICES ASSUME Init
             PROVE  Inv
  OBVIOUS
<1>1. TypeOK
  <2>1. live \subseteq Objects /\ fault \in BOOLEAN
    BY DEF Init
  <2>4. count \in [Objects -> Int]
    BY DEF Init
  <2>2. held \in [Places -> Objects \cup {Null}]
    BY DEF Init
  <2>3. stack \in Seq(Frame)
    BY DEF Init
  <2> QED
    BY <2>1, <2>2, <2>3, <2>4 DEF TypeOK
<1>2. stack = << >> /\ DOMAIN stack = {}
  BY DEF Init
<1>3. TakesWait /\ DestroysOwn /\ MembersCleared /\ ForgetsWait /\ Apart
  BY <1>2 DEF TakesWait, DestroysOwn, MembersCleared, ForgetsWait, Apart
<1>4. TempOwned
  BY DEF Init, TempOwned, Places, Roots
<1>5. FreedEmpty
  BY MembersArePlaces DEF Init, FreedEmpty
<1>6. Counted
  BY NullOK DEF Init, Counted, Referring
<1> QED
  BY <1>1, <1>3, <1>4, <1>5, <1>6 DEF Inv

LEMMA NextInv == Inv /\ [Next]_vars => Inv'
<1> SUFFICES ASSUME Inv, [Next]_vars
             PROVE  Inv'
  OBVIOUS
<1>2. CASE ClearNothing
  BY <1>2, ClearNothingStep
<1>3. CASE Release
  BY <1>3, ReleaseStep
<1>4. CASE ReleaseLast
  BY <1>4, ReleaseLastStep
<1>5. CASE DestroyMember
  BY <1>5, DestroyMemberStep
<1>6. CASE Free
  BY <1>6, FreeStep
<1>7. CASE ForgetDeleted
  BY <1>7, ForgetDeletedStep
<1>8. CASE TakeOver
  BY <1>8, TakeOverStep
<1>9. CASE Faults \/ UNCHANGED vars
  <2>1. UNCHANGED <<live, count, held, stack>> /\ (fault' = fault \/ fault' = TRUE)
    BY <1>9 DEF Faults, vars
  <2>2. fault' \in BOOLEAN
    BY <2>1 DEF Inv, TypeOK
  <2>3. TypeOK'
    BY <2>1, <2>2 DEF Inv, TypeOK
  <2>4. TakesWait' /\ DestroysOwn' /\ MembersCleared' /\ ForgetsWait' /\ Apart'
    BY <2>1 DEF Inv, TakesWait, DestroysOwn, MembersCleared, ForgetsWait, Apart
  <2>5. TempOwned' /\ FreedEmpty'
    BY <2>1 DEF Inv, TempOwned, FreedEmpty
  <2>6. Forgotten' = Forgotten
    BY <2>1 DEF Forgotten
  <2>7. Counted'
    BY <2>1, <2>6 DEF Inv, Counted, Referring
  <2> QED
    BY <2>3, <2>4, <2>5, <2>7 DEF Inv
<1>10. ASSUME NEW p, Empty(p)
       PROVE  Inv'
  BY <1>10, PlainCallStep
<1>11. ASSUME NEW p, NEW q, Convert(p, q) \/ Assign(p, q)
       PROVE  Inv'
  BY <1>11, PlainCallStep, ConvertStep
<1>12. ASSUME NEW p, NEW o \in Objects, New(p, o)
       PROVE  Inv'
  BY <1>12, NewStep
<1> QED
  BY <1>2, <1>3, <1>4, <1>5, <1>6, <1>7, <1>8, <1>9, <1>10, <1>11, <1>12 DEF Next, Step

\* The invariant that is inductive: what the stacked frames promise to each other,
\* and the counts.
THEOREM HandlesInvariant == Spec => []Inv
<1>1. Init => Inv
  BY InitInv
<1>2. Inv /\ [Next]_vars => Inv'
  BY NextInv
<1> QED
  BY <1>1, <1>2, PTL DEF Spec

\* The variables have their types (handle.h:12-110).
THEOREM HandlesTypes == Spec => []TypeOK
<1>1. Inv => TypeOK
  BY DEF Inv
<1> QED
  BY <1>1, HandlesInvariant, PTL

\* Whatever a program does with its handles, an object counts the handles that refer
\* to it, and no handle refers to one that is gone (handle.h:43-104).
THEOREM ObjectsCountTheirHandles == Spec => []CountIsHandles
<1>1. Inv => CountIsHandles
  <2> SUFFICES ASSUME Inv, NEW o \in Objects
               PROVE  IF o \in live THEN count[o] = Cardinality(Holders(o))
                                    ELSE Holders(o) = {}
    BY DEF CountIsHandles
  <2>1. Holders(o) = Referring(o)
    <3>1. live \in SUBSET Objects
      BY DEF Inv, TypeOK
    <3>2. Members(live) \subseteq Members(Objects)
      BY <3>1, MembersArePlaces
    <3>3. \A p \in Members(Objects) : p \in Members(live) \/ p \in Members(Objects \ live)
      <4>1. SUFFICES ASSUME NEW p \in Members(Objects)
                     PROVE  p \in Members(live) \/ p \in Members(Objects \ live)
        OBVIOUS
      <4>2. PICK x \in Objects : \E k \in 1..Slots[x] : p = <<x, k>>
        BY MembersArePlaces
      <4> QED
        BY <3>1, <4>2, MembersArePlaces
    <3>4. \A p \in Members(Objects \ live) : held[p] # o
      BY NullOK DEF Inv, FreedEmpty
    <3> QED
      BY <3>2, <3>3, <3>4 DEF Holders, Referring, Places
  <2> QED
    BY <2>1 DEF Inv, Counted
<1> QED
  BY <1>1, HandlesInvariant, PTL
===============================================================================
