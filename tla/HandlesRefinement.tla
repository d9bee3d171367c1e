--------------------------- MODULE HandlesRefinement --------------------------
(***************************************************************************)
(* A call of the handles does at once what ObjectGraph says, for any       *)
(* objects, classes and programs.  What goes with the last handle is a     *)
(* least fixed point of the objects before the call; the invariant says,   *)
(* for every frame of the call, how far the destructors have got with it.  *)
(***************************************************************************)
EXTENDS HandlesProofs

\* The operators of ObjectGraph, of the objects A whose handles refer to what h says.
Alone(A, h, p, o, os) == \A q \in Locals \cup Members(A \ os) : h[q] = o => q = p
Goes(A, h, p, kept) ==
  {o \in A \ {kept} :
     \A os \in SUBSET A :
       (\A x \in A \ {kept} : Alone(A, h, p, x, os) => x \in os) => o \in os}
Follows(h, os) == \A p \in Locals \cup Members(os) : h[p] \in os \cup {Null}
Reached(A, h) == {o \in A : \A os \in SUBSET A : Follows(h, os) => o \in os}

Closed(A, h) ==
  /\ A \subseteq Objects
  /\ h \in [Places -> Objects \cup {Null}]
  /\ \A q \in Places : h[q] \in A \cup {Null}
  /\ \A q \in Members(Objects \ A) : h[q] = Null

-------------------------------------------------------------------------------
\* An object that is not being deleted has a handle.
Positive == \A o \in live \ Dying : count[o] > 0

Dooms(p, kept) == Goes(before.live, before.held, p, kept)
CallNames == Locals \cup Members(Reached(before.live, before.held))

\* What is below the frame that clears p, and what the temporary holds meanwhile.
Bases(p, q) == {<< >>, <<Take(p, q)>>, <<Clear(Temp), Take(p, Temp)>>}
Keeps(q, kept, b) ==
  IF Len(b) = 2 THEN kept \in {Null, before.held[q]} \cup (Objects \ before.live)
                ELSE kept = Null

\* Destructors run on behalf of p: each one for the handle that is a member of the
\* object the one below destroys.
Nested(p, b) ==
  /\ Len(b) < Len(stack)
  /\ \A i \in DOMAIN b : stack[i] = b[i]
  /\ stack[Len(b) + 1].op \in {"clear", "forget"} /\ stack[Len(b) + 1].at = p
  /\ \A i \in DOMAIN stack : i > Len(b) + 1 =>
       \/ stack[i].op = "destroy"
       \/ /\ stack[i].op \in {"clear", "forget"} /\ stack[i - 1].op = "destroy"
          /\ stack[i - 1].left < Slots[stack[i - 1].obj]
          /\ stack[i].at = <<stack[i - 1].obj, stack[i - 1].left + 1>>

\* So far only objects and handles that are to go have gone.
Partly(p, kept) ==
  /\ Dying \subseteq Dooms(p, kept)
  /\ live \subseteq before.live \cup ({kept} \ {Null})
  /\ (before.live \ Dooms(p, kept)) \cup ({kept} \ {Null}) \subseteq live
  /\ \A x \in Places \ {Temp} :
       \/ held[x] = before.held[x]
       \/ held[x] = Null /\ x \in {p} \cup Members(Dooms(p, kept))

\* All of them have.
Wholly(p, kept) ==
  /\ live = (before.live \ Dooms(p, kept)) \cup ({kept} \ {Null})
  /\ \A x \in Places \ {Temp, p} :
       held[x] = IF x \in Members(Dooms(p, kept)) THEN Null ELSE before.held[x]

Clearing(p, kept, b) == Nested(p, b) /\ Partly(p, kept) /\ held[Temp] = kept
Taking(p, kept, b) == /\ b # << >> /\ stack = b
                      /\ Wholly(p, kept) /\ held[Temp] = kept /\ held[p] = Null
Closing(p, kept, b) == /\ Len(b) = 2 /\ stack = <<Clear(Temp)>>
                       /\ Wholly(p, kept) /\ held[Temp] = kept /\ held[p] = kept

AtWork(p, q, kept, b) ==
  /\ b \in Bases(p, q) /\ Keeps(q, kept, b)
  /\ Clearing(p, kept, b) \/ Taking(p, kept, b) \/ Closing(p, kept, b)
InCall ==
  stack # << >> /\ ~fault =>
    \E p, q \in CallNames : \E kept \in Objects \cup {Null} :
      \E b \in Bases(p, q) : AtWork(p, q, kept, b)

CallInv == Inv /\ Positive /\ Closed(before.live, before.held) /\ InCall

-------------------------------------------------------------------------------
\* The least fixed point: it is closed, whatever is in it is there for a reason, and
\* it is in every set that is closed.
LEMMA GoesIsClosed ==
  ASSUME NEW A, NEW h, NEW p, NEW kept, NEW x \in A \ {kept},
         Alone(A, h, p, x, Goes(A, h, p, kept))
  PROVE  x \in Goes(A, h, p, kept)
<1> DEFINE D == Goes(A, h, p, kept)
<1>1. SUFFICES ASSUME NEW os \in SUBSET A,
                      \A y \in A \ {kept} : Alone(A, h, p, y, os) => y \in os
               PROVE  x \in os
  BY DEF Goes
<1>2. D \subseteq os
  BY <1>1 DEF Goes
<1>3. Members(A \ os) \subseteq Members(A \ D)
  BY <1>2 DEF Members
<1> QED
  BY <1>1, <1>3 DEF Alone

LEMMA GoesIsGrounded ==
  ASSUME NEW A, NEW h, NEW p, NEW kept, NEW x \in Goes(A, h, p, kept)
  PROVE  x \in A \ {kept} /\ Alone(A, h, p, x, Goes(A, h, p, kept))
<1> DEFINE D == Goes(A, h, p, kept)
           os == {y \in A \ {kept} : Alone(A, h, p, y, D)}
<1>1. D \subseteq A \ {kept} /\ os \subseteq D /\ os \in SUBSET A
  <2>1. \A y \in A \ {kept} : Alone(A, h, p, y, D) => y \in D
    BY GoesIsClosed
  <2> QED
    BY <2>1 DEF Goes
<1>2. ASSUME NEW y \in A \ {kept}, Alone(A, h, p, y, os)
      PROVE  y \in os
  <2>1. Members(A \ D) \subseteq Members(A \ os)
    BY <1>1 DEF Members
  <2> QED
    BY <1>2, <2>1 DEF Alone
<1>3. x \in os
  BY <1>1, <1>2 DEF Goes
<1> QED
  BY <1>1, <1>3

LEMMA GoesIsLeast ==
  ASSUME NEW A, NEW h, NEW p, NEW kept, NEW os \in SUBSET A,
         \A x \in A \ {kept} : Alone(A, h, p, x, os) => x \in os
  PROVE  Goes(A, h, p, kept) \subseteq os
  BY DEF Goes

\* A handle that the program can name stays when it is emptied: the object it is a
\* member of is in reach without it.
LEMMA NamedStays ==
  ASSUME NEW A, NEW h, Closed(A, h), NEW kept, NEW p \in Locals \cup Members(Reached(A, h))
  PROVE  /\ p \in Places \ {Temp}
         /\ p \notin Members(Goes(A, h, p, kept))
         /\ p \in Locals \cup Members(A \ Goes(A, h, p, kept))
<1> DEFINE D == Goes(A, h, p, kept)
<1>1. D \subseteq A /\ A \subseteq Objects /\ Reached(A, h) \subseteq A
  BY DEF Goes, Closed, Reached
<1>2. Members(D) \subseteq Members(Objects) /\ Members(A) \subseteq Members(Objects)
      /\ Members(A \ D) \subseteq Members(A) /\ Members(Reached(A, h)) \subseteq Members(A)
  BY <1>1 DEF Members
<1>3. p \in Places \ {Temp}
  BY <1>2, PlacesApart DEF Places, Roots
<1>4. p \notin Members(D)
  <2>1. SUFFICES ASSUME p \in Members(D)
                 PROVE  FALSE
    OBVIOUS
  <2>2. p \notin Locals /\ p \in Members(Reached(A, h))
    BY <1>2, <2>1, PlacesApart DEF Roots
  <2>3. PICK o \in Reached(A, h), k \in Nat : k \in 1..Slots[o] /\ p = <<o, k>>
    BY <2>2 DEF Members, Member
  <2>4. o \in D
    BY <2>1, <2>3 DEF Members, Member
  <2>5. p \notin Members(A \ D)
    BY <2>3, <2>4 DEF Members, Member
  <2>6. Follows(h, A \ D)
    <3>1. SUFFICES ASSUME NEW q \in Locals \cup Members(A \ D)
                   PROVE  h[q] \in (A \ D) \cup {Null}
      BY DEF Follows
    <3>2. q \in Places /\ q # p
      BY <1>2, <2>2, <2>5 DEF Places, Roots
    <3>3. h[q] \in A \cup {Null}
      BY <3>2 DEF Closed
    <3>4. h[q] \notin D
      <4>1. SUFFICES ASSUME h[q] \in D
                     PROVE  FALSE
        OBVIOUS
      <4>2. Alone(A, h, p, h[q], D)
        BY <4>1, GoesIsGrounded
      <4> QED
        BY <3>2, <4>2 DEF Alone
    <3> QED
      BY <3>3, <3>4
  <2>7. A \ D \in SUBSET A
    OBVIOUS
  <2>8. o \in A \ D
    BY <2>3, <2>6, <2>7 DEF Reached
  <2> QED
    BY <2>4, <2>8
<1>5. p \in Locals \cup Members(A \ D)
  BY <1>2, <1>4 DEF Members
<1> QED
  BY <1>3, <1>4, <1>5

-------------------------------------------------------------------------------
\* ObjectGraph speaks of the objects before the call.
LEMMA GraphInCall ==
  ASSUME ~Idle, Closed(before.live, before.held)
  PROVE  /\ Graph!Handles = CallNames
         /\ \A p, kept : Graph!Doomed(p, kept) = Dooms(p, kept)
         /\ \A os : Graph!Members(os) = Members(os)
         /\ Alive = before.live
         /\ \A q \in Places \ {Temp} : Target[q] = before.held[q]
         /\ DOMAIN Target = Places \ {Temp}
<1>1. Alive = before.live /\ DOMAIN Target = Places \ {Temp}
      /\ \A q \in Places \ {Temp} : Target[q] = before.held[q]
  BY DEF Alive, Target
<1>2. \A os : Graph!Members(os) = Members(os)
  BY DEF Graph!Members, Graph!Member, Members, Member
<1>3. \A os : os \subseteq before.live => Locals \cup Members(os) \subseteq Places \ {Temp}
  <2>1. \A os : os \subseteq before.live => Members(os) \subseteq Members(Objects)
    BY DEF Closed, Members
  <2> QED
    BY <2>1, PlacesApart DEF Places, Roots
<1>4. Graph!Handles = CallNames
  <2>1. \A os \in SUBSET before.live : Graph!FollowsHandles(os) <=> Follows(before.held, os)
    BY <1>1, <1>2, <1>3 DEF Graph!FollowsHandles, Follows
  <2>2. Graph!Reachable = Reached(before.live, before.held)
    BY <1>1, <2>1 DEF Graph!Reachable, Reached
  <2> QED
    BY <1>2, <2>2 DEF Graph!Handles, CallNames
<1>5. ASSUME NEW p, NEW kept
      PROVE  Graph!Doomed(p, kept) = Dooms(p, kept)
  <2>1. \A o, os : Graph!Unreferenced(o, p, os) <=> Alone(before.live, before.held, p, o, os)
    <3>1. \A os : before.live \ os \subseteq before.live
      OBVIOUS
    <3> QED
      BY <1>1, <1>2, <1>3, <3>1 DEF Graph!Unreferenced, Alone
  <2> QED
    BY <1>1, <2>1 DEF Graph!Doomed, Dooms, Goes
<1> QED
  BY <1>1, <1>2, <1>4, <1>5

-------------------------------------------------------------------------------
\* The call p, q has the result that p refers to v.
Results(p, kept, v) ==
  /\ live' = (before.live \ Dooms(p, kept)) \cup ({kept} \ {Null})
  /\ \A x \in Places \ {Temp, p} :
       held'[x] = IF x \in Members(Dooms(p, kept)) THEN Null ELSE before.held[x]
  /\ held'[p] = v

\* The end of a call is a step of ObjectGraph.
LEMMA CallEnds ==
  ASSUME stack # << >>, ~fault, Closed(before.live, before.held),
         stack' = << >>, fault' = fault, NEW p \in CallNames, NEW q \in CallNames,
         NEW kept \in Objects \cup {Null}, NEW b \in Bases(p, q), Keeps(q, kept, b),
         Results(p, kept,
           IF Len(b) = 1 THEN IF q = p THEN Null ELSE before.held[q] ELSE kept),
         Len(b) = 1 => q \notin Members(Dooms(p, kept))
  PROVE  Graph!Next
<1> DEFINE v == IF Len(b) = 1 THEN IF q = p THEN Null ELSE before.held[q] ELSE kept
           D == Dooms(p, kept)
<1>1. ~Idle /\ Idle'
  BY DEF Idle
<1>2. /\ Graph!Handles = CallNames
      /\ Graph!Doomed(p, kept) = D /\ Graph!Doomed(p, Null) = Dooms(p, Null)
      /\ \A os : Graph!Members(os) = Members(os)
      /\ Alive = before.live
      /\ \A x \in Places \ {Temp} : Target[x] = before.held[x]
      /\ DOMAIN Target = Places \ {Temp}
  BY <1>1, GraphInCall
<1>3. Alive' = (before.live \ D) \cup ({kept} \ {Null})
  BY <1>1 DEF Alive, Results
<1>4. p \in Places \ {Temp} /\ q \in Places \ {Temp}
  BY NamedStays DEF CallNames
<1>5. Target' = [Graph!Emptied(p, kept) EXCEPT ![p] = v]
  <2>1. Target' = [x \in Places \ {Temp} |-> held'[x]]
    BY <1>1 DEF Target
  <2>2. Graph!Emptied(p, kept) =
          [x \in Places \ {Temp} |-> IF x = p \/ x \in Members(D) THEN Null ELSE Target[x]]
    BY <1>2 DEF Graph!Emptied
  <2>3. \A x \in Places \ {Temp} : x # p =>
          held'[x] = IF x = p \/ x \in Members(D) THEN Null ELSE Target[x]
    BY <1>2 DEF Results
  <2>4. held'[p] = v
    BY DEF Results
  <2> HIDE DEF v, D
  <2> QED
    BY <1>4, <2>1, <2>2, <2>3, <2>4
<1>6. Len(b) \in 0..2 /\ (Len(b) # 2 => kept = Null)
  BY DEF Bases, Keeps
<1>7. kept \notin D /\ before.live \subseteq Objects
  BY DEF Closed, Dooms, Goes
<1>8. CASE Len(b) = 0
  <2>1. Graph!Redirect(p, Null)
    BY <1>2, <1>3, <1>5, <1>6, <1>8 DEF Graph!Redirect
  <2> QED
    BY <1>2, <2>1 DEF Graph!Next, Graph!Empty
<1>9. CASE Len(b) = 1
  <2>1. q \notin Graph!Members(Graph!Doomed(p, Null))
    BY <1>2, <1>6, <1>9
  <2>2. Graph!Emptied(p, Null)[q] = v
    BY <1>2, <1>4, <1>6, <1>9 DEF Graph!Emptied
  <2>3. Graph!Assign(p, q)
    <3> HIDE DEF v
    <3> QED
      BY <1>2, <1>3, <1>5, <1>6, <1>9, <2>1, <2>2 DEF Graph!Assign
  <2> QED
    BY <1>2, <2>3 DEF Graph!Next
<1>10. CASE Len(b) = 2 /\ kept \in {Null, before.held[q]}
  <2>1. kept = Null \/ kept \in before.live
    BY <1>4, <1>10 DEF Closed
  <2>2. Alive' = Alive \ D
    BY <1>2, <1>3, <1>7, <2>1
  <2>3. Graph!Redirect(p, kept)
    BY <1>2, <1>5, <1>10, <2>2 DEF Graph!Redirect
  <2>4. kept \in {Target[q], Null}
    BY <1>2, <1>4, <1>10
  <2> QED
    BY <1>2, <2>3, <2>4 DEF Graph!Next, Graph!Convert
<1>11. CASE Len(b) = 2 /\ kept \in Objects \ before.live
  <2>1. D = Dooms(p, Null)
    <3>1. before.live \ {kept} = before.live /\ before.live \ {Null} = before.live
      BY <1>7, <1>11, NullOK
    <3> QED
      BY <3>1 DEF Dooms, Goes
  <2>2. Graph!Emptied(p, kept) = Graph!Emptied(p, Null)
    BY <1>2, <2>1 DEF Graph!Emptied
  <2>3. Alive' = (Alive \ D) \cup {kept}
    BY <1>2, <1>3, <1>11, NullOK
  <2>4. Graph!New(p, kept)
    BY <1>2, <1>5, <1>11, <2>1, <2>2, <2>3 DEF Graph!New
  <2> QED
    BY <1>2, <1>11, <2>4 DEF Graph!Next
<1> QED
  BY <1>6, <1>8, <1>9, <1>10, <1>11 DEF Keeps

\* So is a call that reads a handle that went with what it gave up.
LEMMA CallFails ==
  ASSUME stack # << >>, ~fault, Closed(before.live, before.held),
         UNCHANGED <<live, held, stack, before>>, fault' = TRUE,
         NEW p \in CallNames, NEW q \in CallNames, q \in Members(Dooms(p, Null))
  PROVE  Graph!Next
<1>1. ~Idle /\ ~Idle'
  BY DEF Idle
<1>2. /\ Graph!Handles = CallNames /\ Graph!Doomed(p, Null) = Dooms(p, Null)
      /\ Graph!Members(Dooms(p, Null)) = Members(Dooms(p, Null))
  BY <1>1, GraphInCall
<1>3. Alive' = Alive /\ Target' = Target
  BY <1>1 DEF Alive, Target
<1>4. Graph!Assign(p, q)
  BY <1>2, <1>3 DEF Graph!Assign
<1> QED
  BY <1>2, <1>4 DEF Graph!Next

-------------------------------------------------------------------------------
\* Which destructors run when a frame has returned, and when one has been replaced.
LEMMA PopDying ==
  ASSUME TypeOK, Apart, stack # << >>, stack' = Rest
  PROVE  /\ Top.op # "destroy" => Dying' = Dying
         /\ Top.op = "destroy" => Dying' = Dying \ {Top.obj} /\ Top.obj \in Dying
<1>1. /\ Len(stack) \in Nat \ {0} /\ Len(stack') = Len(stack) - 1
      /\ DOMAIN stack = 1..Len(stack) /\ DOMAIN stack' = 1..(Len(stack) - 1)
      /\ \A i \in 1..(Len(stack) - 1) : stack'[i] = stack[i]
  BY Popped
<1>2. \A o : o \in Dying <=>
        \E i \in 1..Len(stack) : stack[i].op = "destroy" /\ o = stack[i].obj
  BY <1>1 DEF Dying
<1>3. \A o : o \in Dying' <=>
        \E i \in 1..(Len(stack) - 1) : stack[i].op = "destroy" /\ o = stack[i].obj
  BY <1>1 DEF Dying
<1>4. \A i \in 1..Len(stack) : i \in 1..(Len(stack) - 1) \/ i = Len(stack)
  BY <1>1
<1>5. Len(stack) \in 1..Len(stack) /\ 1..(Len(stack) - 1) \subseteq 1..Len(stack)
  BY <1>1
<1>6. CASE Top.op # "destroy"
  <2>1. \A i \in 1..Len(stack) : stack[i].op = "destroy" => i \in 1..(Len(stack) - 1)
    BY <1>4, <1>6 DEF Top
  <2>2. \A o : o \in Dying' <=> o \in Dying
    BY <1>2, <1>3, <1>5, <2>1, Zenon
  <2> QED
    BY <1>6, <2>2
<1>7. CASE Top.op = "destroy"
  <2>1. \A i \in 1..(Len(stack) - 1) :
          stack[i].op = "destroy" => stack[i].obj # Top.obj
    BY <1>1, <1>7 DEF Apart, Top
  <2> QED
    BY <1>2, <1>3, <1>4, <1>5, <1>7, <2>1 DEF Top
<1> QED
  BY <1>6, <1>7

LEMMA ReplacedDying ==
  ASSUME TypeOK, stack # << >>, NEW f \in Frame, NEW g \in Frame,
         stack' = Rest \o <<f, g>>
  PROVE  /\ \A o \in Dying' : \/ o \in Dying
                              \/ f.op = "destroy" /\ o = f.obj
                              \/ g.op = "destroy" /\ o = g.obj
         /\ \A o \in Dying : o \in Dying' \/ (Top.op = "destroy" /\ o = Top.obj)
         /\ f.op = "destroy" => f.obj \in Dying'
         /\ g.op = "destroy" => g.obj \in Dying'
<1>1. /\ Len(stack) \in Nat \ {0} /\ DOMAIN stack = 1..Len(stack)
      /\ DOMAIN stack' = 1..(Len(stack) + 1)
      /\ \A i \in 1..(Len(stack) - 1) : stack'[i] = stack[i]
      /\ stack'[Len(stack)] = f /\ stack'[Len(stack) + 1] = g
  BY Replaced
<1>2. /\ \A i \in DOMAIN stack : stack[i].op = "destroy" => stack[i].obj \in Dying
      /\ \A i \in DOMAIN stack' : stack'[i].op = "destroy" => stack'[i].obj \in Dying'
  BY DEF Dying
<1>3. ASSUME NEW i \in DOMAIN stack', stack'[i].op = "destroy"
      PROVE  \/ stack'[i].obj \in Dying
             \/ f.op = "destroy" /\ stack'[i].obj = f.obj
             \/ g.op = "destroy" /\ stack'[i].obj = g.obj
  <2>1. i \in 1..(Len(stack) - 1) \/ i = Len(stack) \/ i = Len(stack) + 1
    BY <1>1
  <2>2. i \in 1..(Len(stack) - 1) => i \in DOMAIN stack /\ stack'[i] = stack[i]
    BY <1>1
  <2> QED
    BY <1>1, <1>2, <1>3, <2>1, <2>2
<1>4. ASSUME NEW i \in DOMAIN stack, stack[i].op = "destroy"
      PROVE  stack[i].obj \in Dying' \/ (Top.op = "destroy" /\ stack[i].obj = Top.obj)
  <2>1. i # Len(stack) => i \in DOMAIN stack' /\ stack'[i] = stack[i]
    BY <1>1
  <2> QED
    BY <1>2, <1>4, <2>1 DEF Top
<1>5. Len(stack) \in DOMAIN stack' /\ Len(stack) + 1 \in DOMAIN stack'
  BY <1>1
<1> QED
  BY <1>1, <1>2, <1>3, <1>4, <1>5 DEF Dying

-------------------------------------------------------------------------------
\* An object that counts no handle is being deleted.
LEMMA PositiveInit == Init => Positive
  BY DEF Init, Positive

LEMMA PositiveStep ==
  ASSUME Inv, Positive, [Next]_vars
  PROVE  Positive'
<1>1. /\ TypeOK /\ Apart /\ count \in [Objects -> Int] /\ live \subseteq Objects
      /\ held \in [Places -> Objects \cup {Null}]
  BY DEF Inv, TypeOK
<1>2. ASSUME Idle, NEW p, NEW q, \/ Empty(p) \/ Assign(p, q) \/ Convert(p, q)
                                 \/ \E o \in Objects : New(p, o)
      PROVE  Positive'
  <2>1. Dying = {}
    BY <1>2 DEF Idle, Dying
  <2>2. Empty(p) \/ Assign(p, q) => UNCHANGED <<live, count>>
    BY DEF Empty, Assign
  <2>3. CASE UNCHANGED <<live, count>>
    BY <2>1, <2>3 DEF Positive
  <2>4. CASE Convert(p, q)
    <3>1. PICK o \in {held[q], Null} : Adopted(o)
      BY <2>4 DEF Convert
    <3>2. \A x \in Objects : count'[x] = count[x] \/ count'[x] = count[x] + 1
      BY <1>1, <3>1 DEF Adopted
    <3>3. live' = live
      BY <2>4 DEF Convert
    <3> QED
      BY <1>1, <2>1, <3>2, <3>3 DEF Positive
  <2>5. CASE \E o \in Objects : New(p, o)
    <3>1. PICK o \in Objects : New(p, o)
      BY <2>5
    <3>2. /\ live' = live \cup {o} /\ count'[o] = 1
          /\ \A x \in Objects : x # o => count'[x] = count[x]
      BY <1>1, <3>1 DEF New
    <3> QED
      BY <1>1, <2>1, <3>2 DEF Positive
  <2> QED
    BY <1>2, <2>2, <2>3, <2>4, <2>5
<1>3. CASE UNCHANGED vars
  BY <1>3 DEF vars, Positive, Dying
<1>4. ASSUME stack # << >>, stack' = Rest, Top.op # "destroy", live' = live,
             \A o \in Objects : count'[o] = count[o] \/ count'[o] > 0
      PROVE  Positive'
  <2>1. Dying' = Dying
    BY <1>1, <1>4, PopDying
  <2> QED
    BY <1>1, <1>4, <2>1 DEF Positive
<1>5. CASE ClearNothing
  BY <1>4, <1>5 DEF ClearNothing, Running
<1>6. CASE ForgetDeleted
  BY <1>4, <1>6 DEF ForgetDeleted, Running
<1>7. CASE Release
  <2>1. \A o \in Objects : count'[o] = count[o] \/ count'[o] > 0
    BY <1>1, <1>7 DEF Release
  <2> QED
    BY <1>4, <1>7, <2>1 DEF Release, Running
<1>8. CASE TakeOver
  <2>1. \A o \in Objects : count'[o] = count[o] \/ count'[o] = count[o] + 1
    BY <1>1, <1>8 DEF TakeOver
  <2>2. Top.op # "destroy" /\ stack # << >> /\ live' = live /\ stack' = Rest
    BY <1>8 DEF TakeOver, Running
  <2>3. Dying' = Dying
    BY <1>1, <2>2, PopDying
  <2> QED
    BY <1>1, <2>1, <2>2, <2>3 DEF Positive
<1>9. CASE Free
  <2>1. Dying' = Dying \ {Top.obj} /\ live' = live \ {Top.obj} /\ count' = count
    BY <1>1, <1>9, PopDying DEF Free, Running
  <2> QED
    BY <2>1 DEF Positive
<1>10. CASE ReleaseLast
  <2> DEFINE o == held[Top.at]
  <2>1. /\ stack # << >> /\ o \in live /\ live' = live
        /\ count' = [count EXCEPT ![o] = @ - 1]
        /\ stack' = Rest \o <<Forget(Top.at), Destroy(o, Slots[o])>>
    BY <1>10 DEF ReleaseLast, Running
  <2>2. Forget(Top.at) \in Frame /\ Destroy(o, Slots[o]) \in Frame
        /\ Destroy(o, Slots[o]).op = "destroy" /\ Destroy(o, Slots[o]).obj = o
    <3>1. Top \in Frame
      BY <2>1 DEF Inv, TypeOK, Top
    <3>2. Top.at \in Places
      BY <1>10, <3>1, FrameFields DEF ReleaseLast, Running
    <3>3. o \in Objects /\ Slots[o] \in Nat
      BY <1>1, <2>1, SlotsOK
    <3> HIDE DEF o
    <3> QED
      BY <3>2, <3>3, FrameFields
  <2> HIDE DEF o
  <2>3. Top.op # "destroy"
    BY <1>10 DEF ReleaseLast, Running
  <2>4. Dying \cup {o} \subseteq Dying'
    BY <1>1, <2>1, <2>2, <2>3, ReplacedDying
  <2>5. \A x \in Objects : x # o => count'[x] = count[x]
    BY <1>1, <2>1
  <2> QED
    BY <1>1, <2>1, <2>4, <2>5 DEF Positive
<1>11. CASE DestroyMember
  <2> DEFINE o == Top.obj
             k == Top.left
  <2>1. /\ stack # << >> /\ Top.op = "destroy" /\ k > 0 /\ UNCHANGED <<live, count>>
        /\ stack' = Rest \o <<Destroy(o, k - 1), Clear(<<o, k>>)>>
    BY <1>11 DEF DestroyMember, Running
  <2>2. Destroy(o, k - 1) \in Frame /\ Clear(<<o, k>>) \in Frame
        /\ Destroy(o, k - 1).op = "destroy" /\ Destroy(o, k - 1).obj = o
    <3>1. Top \in Frame /\ Len(stack) \in DOMAIN stack
      BY <2>1 DEF Inv, TypeOK, Top
    <3>2. o \in Objects /\ k \in Nat /\ k <= Slots[o]
      BY <2>1, <3>1, FrameFields DEF Inv, DestroysOwn, Top
    <3>3. k - 1 \in Nat /\ k \in 1..Slots[o]
      BY <2>1, <3>2, SlotsOK
    <3>4. <<o, k>> \in Places
      BY <3>2, <3>3, MembersArePlaces
    <3> QED
      BY <3>2, <3>3, <3>4, FrameFields
  <2> HIDE DEF k
  <2>3. Dying \subseteq Dying'
    BY <1>1, <2>1, <2>2, ReplacedDying
  <2> QED
    BY <2>1, <2>3 DEF Positive
<1>12. CASE Faults
  BY <1>12 DEF Faults, Positive, Dying
<1> QED
  <2>1. \A p, q : (Empty(p) \/ Assign(p, q) \/ Convert(p, q)) => Idle
    BY DEF Empty, Assign, Convert
  <2>2. \A p, o : New(p, o) => Idle
    BY DEF New
  <2> QED
    BY <1>2, <1>3, <1>5, <1>6, <1>7, <1>8, <1>9, <1>10, <1>11, <1>12, <2>1, <2>2
    DEF Next, Step

-------------------------------------------------------------------------------
LEMMA MembersOf ==
  \A os : \A o \in os : \A k \in 1..Slots[o] : <<o, k>> \in Members(os)
  BY DEF Members, Member

LEMMA BaseFacts ==
  ASSUME NEW p \in Places, NEW q \in Places, NEW b \in Bases(p, q)
  PROVE  /\ b \in Seq(Frame) /\ Len(b) \in 0..2 /\ DOMAIN b = 1..Len(b)
         /\ Len(b) = 0 => b = << >>
         /\ Len(b) = 1 => b = <<Take(p, q)>>
         /\ Len(b) = 2 => b = <<Clear(Temp), Take(p, Temp)>>
         /\ \A i \in DOMAIN b : b[i].op \in {"clear", "take"}
<1> DEFINE d == Clear(Temp)
           t == Take(p, q)
           u == Take(p, Temp)
<1>1. /\ d \in Frame /\ d.op = "clear" /\ t \in Frame /\ t.op = "take"
      /\ u \in Frame /\ u.op = "take"
  <2>1. Temp \in Places
    BY DEF Places, Roots
  <2> QED
    BY <2>1, FrameFields
<1>2. b = << >> \/ b = <<t>> \/ b = <<d, u>>
  BY DEF Bases
<1> HIDE DEF d, t, u
<1>3. /\ b \in Seq(Frame) /\ Len(b) \in 0..2 /\ DOMAIN b = 1..Len(b)
      /\ Len(b) = 0 => b = << >>
      /\ Len(b) = 1 => b = <<t>>
      /\ Len(b) = 2 => b = <<d, u>>
      /\ \A i \in DOMAIN b : b[i] \in {d, t, u}
  <2> HIDE DEF Frame
  <2>1. CASE b = << >>
    BY <2>1
  <2>2. CASE b = <<t>>
    BY <1>1, <2>2
  <2>3. CASE b = <<d, u>>
    <3>1. <<d, u>> \in Seq(Frame)
      BY <1>1
    <3>2. Len(b) = 2 /\ DOMAIN b = 1..2 /\ b[1] = d /\ b[2] = u
      BY <2>3
    <3>3. \A i \in 1..2 : i = 1 \/ i = 2
      OBVIOUS
    <3> QED
      BY <2>3, <3>1, <3>2, <3>3
  <2> QED
    BY <1>2, <2>1, <2>2, <2>3
<1> QED
  BY <1>1, <1>3 DEF d, t, u

\* The running frame of a call that clears p, and what it may meet.
LEMMA RunningFrame ==
  ASSUME CallInv, NEW p \in CallNames, NEW q \in CallNames, NEW kept,
         NEW b \in Bases(p, q), Clearing(p, kept, b), stack # << >>
  PROVE  /\ p \in Places \ {Temp} /\ q \in Places \ {Temp} /\ Exist(p)
         /\ Top \in Frame /\ Top.op \in {"clear", "forget", "destroy"}
         /\ Top.op # "destroy" => /\ Top.at \in {p} \cup Members(Dooms(p, kept))
                                  /\ Top.at \in Places \ {Temp} /\ Exist(Top.at)
         /\ Top.op = "clear" => /\ Top.at \notin Forgotten
                                /\ held[Top.at] \in (live \ Dying) \cup {Null}
         /\ Forgotten \subseteq {p} \cup Members(Dying)
         /\ Len(stack) = Len(b) + 1 => Top.at = p
<1> DEFINE n == Len(b)
           m == Len(stack)
<1>1. p \in Places \ {Temp} /\ q \in Places \ {Temp} /\ p \notin Members(Dooms(p, kept))
  BY NamedStays DEF CallNames, Dooms, CallInv
<1>2. /\ n \in 0..2 /\ m \in Nat /\ n < m /\ DOMAIN stack = 1..m
      /\ \A i \in 1..m : stack[i] \in Frame
      /\ DOMAIN b = 1..n /\ \A i \in 1..n : stack[i].op \in {"clear", "take"}
  <2>1. p \in Places /\ q \in Places
    BY <1>1
  <2>2. Len(b) \in 0..2 /\ DOMAIN b = 1..Len(b)
        /\ \A i \in DOMAIN b : b[i].op \in {"clear", "take"}
    BY <2>1, BaseFacts
  <2>3. stack \in Seq(Frame)
    BY DEF CallInv, Inv, TypeOK
  <2>4. Len(stack) \in Nat /\ DOMAIN stack = 1..Len(stack)
        /\ \A i \in 1..Len(stack) : stack[i] \in Frame
    BY <2>3
  <2> QED
    BY <2>2, <2>4 DEF Clearing, Nested
<1>3. Exist(p)
  <2>1. p \in Locals \cup Members(before.live \ Dooms(p, kept))
    BY NamedStays DEF CallNames, Dooms, CallInv
  <2>2. before.live \ Dooms(p, kept) \subseteq live
    BY DEF Clearing, Partly
  <2>3. Members(before.live \ Dooms(p, kept)) \subseteq Members(live)
    BY <2>2 DEF Members
  <2> QED
    BY <2>1, <2>3 DEF Exist, Roots
<1>4. ASSUME NEW i \in 1..m, stack[i].op = "destroy"
      PROVE  stack[i].obj \in Dying /\ stack[i].left \in Nat /\ stack[i].obj \in Objects
  BY <1>2, <1>4, FrameFields DEF Dying
<1>5. Dying \subseteq Dooms(p, kept) /\ Dying \subseteq live /\ live \subseteq Objects
      /\ Dooms(p, kept) \subseteq Objects
  <2>1. \A o \in Dying : o \in live
    BY ForgottenIsDying DEF CallInv, Inv
  <2> QED
    BY <2>1 DEF Clearing, Partly, CallInv, Inv, TypeOK, Closed, Dooms, Goes
<1>6. ASSUME NEW i \in 1..m, i > n + 1, stack[i].op \in {"clear", "forget"}
      PROVE  /\ i - 1 \in 1..m /\ stack[i - 1].op = "destroy"
             /\ \E o \in Dying : \E k \in 1..Slots[o] :
                  o = stack[i - 1].obj /\ stack[i].at = <<o, k>>
  <2>1. i \in DOMAIN stack /\ i - 1 \in 1..m
    BY <1>2, <1>6
  <2>2. /\ stack[i - 1].op = "destroy" /\ stack[i - 1].left < Slots[stack[i - 1].obj]
        /\ stack[i].at = <<stack[i - 1].obj, stack[i - 1].left + 1>>
    BY <1>2, <1>6, <2>1 DEF Clearing, Nested
  <2>3. /\ stack[i - 1].obj \in Dying /\ stack[i - 1].left \in Nat
        /\ Slots[stack[i - 1].obj] \in Nat
    BY <1>4, <2>1, <2>2, SlotsOK
  <2>4. stack[i - 1].left + 1 \in 1..Slots[stack[i - 1].obj]
    BY <2>2, <2>3
  <2> QED
    BY <2>1, <2>2, <2>3, <2>4
<1>7. stack[n + 1].op \in {"clear", "forget"} /\ stack[n + 1].at = p
  BY DEF Clearing, Nested
<1>8. \A i \in 1..m : i \in 1..n \/ i = n + 1 \/ i > n + 1
  BY <1>2
<1>9. \A i \in 1..m : i > n + 1 => stack[i].op \in {"clear", "forget", "destroy"}
  BY <1>2 DEF Clearing, Nested
<1> HIDE DEF n, m
<1>10. m \in 1..m /\ m > n /\ Top = stack[m]
  BY <1>2 DEF Top, m
<1>11. Top \in Frame /\ Top.op \in {"clear", "forget", "destroy"}
  <2>1. m = n + 1 \/ m > n + 1
    BY <1>2
  <2> QED
    BY <1>2, <1>7, <1>9, <1>10, <2>1
<1>12. ASSUME NEW i \in 1..m, i > n, stack[i].op \in {"clear", "forget"}
       PROVE  stack[i].at = p \/ stack[i].at \in Members(Dying)
  <2>1. CASE i = n + 1
    BY <1>7, <2>1
  <2>2. CASE i > n + 1
    <3>1. PICK o \in Dying : \E k \in 1..Slots[o] : stack[i].at = <<o, k>>
      BY <1>6, <1>12, <2>2
    <3> QED
      BY <3>1, MembersOf
  <2> QED
    BY <1>2, <1>12, <2>1, <2>2
<1>13. Members(Dying) \subseteq Members(Dooms(p, kept)) /\ Members(Dying) \subseteq Members(live)
       /\ Members(Dooms(p, kept)) \subseteq Members(Objects)
  BY <1>5 DEF Members
<1>14. Members(Objects) \subseteq Places \ {Temp}
  BY PlacesApart DEF Places, Roots
<1>15. Top.op # "destroy" => /\ Top.at \in {p} \cup Members(Dooms(p, kept))
                             /\ Top.at \in Places \ {Temp} /\ Exist(Top.at)
  BY <1>1, <1>3, <1>10, <1>11, <1>12, <1>13, <1>14 DEF Exist
<1>16. Forgotten \subseteq {p} \cup Members(Dying)
  <2>1. SUFFICES ASSUME NEW i \in 1..m, stack[i].op = "forget"
                 PROVE  stack[i].at \in {p} \cup Members(Dying)
    BY <1>2 DEF Forgotten
  <2>2. i > n
    BY <1>2, <1>8, <2>1
  <2> QED
    BY <1>12, <2>1, <2>2
<1>17. Len(stack) = Len(b) + 1 => Top.at = p
  BY <1>7, <1>10 DEF n, m
<1>18. ASSUME Top.op = "clear"
       PROVE  Top.at \notin Forgotten
  <2>1. SUFFICES ASSUME NEW i \in 1..m, stack[i].op = "forget", stack[i].at = Top.at
                 PROVE  FALSE
    BY <1>2 DEF Forgotten
  <2>2. i > n /\ i # m
    BY <1>2, <1>8, <1>10, <1>18, <2>1
  <2>3. CASE m = n + 1
    BY <1>2, <2>2, <2>3
  <2>4. CASE m > n + 1
    <3>1. PICK o \in Dying : \E k \in 1..Slots[o] : o = stack[m - 1].obj /\ Top.at = <<o, k>>
      BY <1>6, <1>10, <1>18, <2>4
    <3>2. m - 1 \in 1..m /\ stack[m - 1].op = "destroy"
      BY <1>6, <1>10, <1>18, <2>4
    <3>3. Top.at \in Members(Dooms(p, kept))
      BY <1>13, <3>1, MembersOf
    <3>4. i > n + 1
      BY <1>1, <1>2, <1>7, <2>1, <2>2, <3>3
    <3>5. /\ i - 1 \in 1..m /\ stack[i - 1].op = "destroy"
          /\ stack[i - 1].obj = stack[m - 1].obj
      BY <1>6, <2>1, <3>1, <3>4
    <3>6. i - 1 # m - 1
      BY <1>2, <2>2
    <3> QED
      BY <1>2, <3>2, <3>5, <3>6 DEF CallInv, Inv, Apart
  <2> QED
    BY <1>2, <2>3, <2>4
<1>19. ASSUME Top.op = "clear"
       PROVE  held[Top.at] \in (live \ Dying) \cup {Null}
  <2>1. SUFFICES ASSUME held[Top.at] # Null
                 PROVE  held[Top.at] \in live /\ held[Top.at] \notin Dying
    OBVIOUS
  <2>2. Top.at \in Places \ Forgotten
    BY <1>15, <1>18, <1>19
  <2>3. held[Top.at] \in Objects
    BY <2>1, <2>2 DEF CallInv, Inv, TypeOK
  <2>4. Top.at \in Referring(held[Top.at])
    BY <2>2 DEF Referring
  <2>5. held[Top.at] \in live
    BY <2>3, <2>4 DEF CallInv, Inv, Counted
  <2>6. held[Top.at] \notin Dying
    <3>1. count[held[Top.at]] = Cardinality(Referring(held[Top.at]))
      BY <2>3, <2>5 DEF CallInv, Inv, Counted
    <3>2. Cardinality(Referring(held[Top.at])) # 0
      BY <2>4, ReferringFinite, FS_EmptySet
    <3> QED
      BY <3>1, <3>2, ForgottenIsDying DEF CallInv, Inv
  <2> QED
    BY <2>5, <2>6
<1> QED
  BY <1>1, <1>3, <1>11, <1>15, <1>16, <1>17, <1>18, <1>19

-------------------------------------------------------------------------------
\* The frames stay nested when one returns, and when one is replaced by two.
LEMMA NestedPops ==
  ASSUME TypeOK, NEW p \in Places, NEW q \in Places, NEW b \in Bases(p, q),
         Nested(p, b), stack # << >>, stack' = Rest
  PROVE  /\ Len(stack) # Len(b) + 1 => Nested(p, b)'
         /\ Len(stack) = Len(b) + 1 => stack' = b
<1> DEFINE n == Len(b)
           m == Len(stack)
<1>1. b \in Seq(Frame) /\ n \in 0..2 /\ DOMAIN b = 1..n
  BY BaseFacts
<1>2. /\ m \in Nat \ {0} /\ Len(stack') = m - 1 /\ stack' \in Seq(Frame)
      /\ DOMAIN stack = 1..m /\ DOMAIN stack' = 1..(m - 1)
      /\ \A i \in 1..(m - 1) : stack'[i] = stack[i]
  BY Popped
<1>3. /\ n < m /\ \A i \in 1..n : stack[i] = b[i]
      /\ stack[n + 1].op \in {"clear", "forget"} /\ stack[n + 1].at = p
      /\ \A i \in 1..m : i > n + 1 =>
           \/ stack[i].op = "destroy"
           \/ /\ stack[i].op \in {"clear", "forget"} /\ stack[i - 1].op = "destroy"
              /\ stack[i - 1].left < Slots[stack[i - 1].obj]
              /\ stack[i].at = <<stack[i - 1].obj, stack[i - 1].left + 1>>
  BY <1>1, <1>2 DEF Nested
<1> HIDE DEF n, m
<1>4. CASE m # n + 1
  <2>1. n < m - 1 /\ n + 1 \in 1..(m - 1) /\ \A i \in 1..n : i \in 1..(m - 1)
    BY <1>1, <1>2, <1>3, <1>4
  <2>2. \A i \in 1..(m - 1) : i > n + 1 => i - 1 \in 1..(m - 1) /\ i \in 1..m
    BY <1>1, <1>2
  <2>3. n < Len(stack') /\ \A i \in 1..n : stack'[i] = b[i]
    BY <1>2, <1>3, <2>1
  <2>4. stack'[n + 1].op \in {"clear", "forget"} /\ stack'[n + 1].at = p
    BY <1>2, <1>3, <2>1
  <2>5. ASSUME NEW i \in 1..(m - 1), i > n + 1
        PROVE  \/ stack'[i].op = "destroy"
               \/ /\ stack'[i].op \in {"clear", "forget"} /\ stack'[i - 1].op = "destroy"
                  /\ stack'[i - 1].left < Slots[stack'[i - 1].obj]
                  /\ stack'[i].at = <<stack'[i - 1].obj, stack'[i - 1].left + 1>>
    <3>1. i - 1 \in 1..(m - 1) /\ i \in 1..m
      BY <2>2, <2>5
    <3>2. stack'[i] = stack[i] /\ stack'[i - 1] = stack[i - 1]
      BY <1>2, <3>1
    <3> QED
      BY <1>3, <2>5, <3>1, <3>2
  <2>6. Nested(p, b)'
    BY <1>1, <1>2, <2>3, <2>4, <2>5 DEF Nested, n
  <2> QED
    BY <1>4, <2>6 DEF n, m
<1>5. CASE m = n + 1
  <2>1. Len(stack') = Len(b) /\ m - 1 = n
    BY <1>1, <1>2, <1>5 DEF n
  <2>2. \A i \in 1..Len(stack') : stack'[i] = b[i]
    BY <1>1, <1>2, <1>3, <2>1
  <2>3. stack' = b
    BY <1>1, <1>2, <2>1, <2>2, SeqEqual
  <2> QED
    BY <1>5, <2>3 DEF n, m
<1> QED
  BY <1>4, <1>5

LEMMA NestedReplaced ==
  ASSUME TypeOK, NEW p \in Places, NEW q \in Places, NEW b \in Bases(p, q),
         Nested(p, b), stack # << >>, NEW f \in Frame, NEW g \in Frame,
         stack' = Rest \o <<f, g>>,
         \/ /\ Top.op = "clear" /\ f.op = "forget" /\ f.at = Top.at /\ g.op = "destroy"
         \/ /\ Top.op = "destroy" /\ f.op = "destroy" /\ f.left < Slots[f.obj]
            /\ g.op = "clear" /\ g.at = <<f.obj, f.left + 1>>
  PROVE  Nested(p, b)'
<1> DEFINE n == Len(b)
           m == Len(stack)
<1>1. b \in Seq(Frame) /\ n \in 0..2 /\ DOMAIN b = 1..n
  BY BaseFacts
<1>2. /\ m \in Nat \ {0} /\ Len(stack') = m + 1
      /\ DOMAIN stack = 1..m /\ DOMAIN stack' = 1..(m + 1)
      /\ \A i \in 1..(m - 1) : stack'[i] = stack[i]
      /\ stack'[m] = f /\ stack'[m + 1] = g
  BY Replaced
<1>3. /\ n < m /\ \A i \in 1..n : stack[i] = b[i]
      /\ stack[n + 1].op \in {"clear", "forget"} /\ stack[n + 1].at = p
      /\ \A i \in 1..m : i > n + 1 =>
           \/ stack[i].op = "destroy"
           \/ /\ stack[i].op \in {"clear", "forget"} /\ stack[i - 1].op = "destroy"
              /\ stack[i - 1].left < Slots[stack[i - 1].obj]
              /\ stack[i].at = <<stack[i - 1].obj, stack[i - 1].left + 1>>
  BY <1>1, <1>2 DEF Nested
<1>4. Top = stack[m]
  BY DEF Top
<1> HIDE DEF n, m
<1>5. n < m + 1 /\ \A i \in 1..n : i \in 1..(m - 1)
  BY <1>1, <1>2, <1>3
<1>6. \A i \in 1..n : stack'[i] = b[i]
  BY <1>2, <1>3, <1>5
<1>7. stack'[n + 1].op \in {"clear", "forget"} /\ stack'[n + 1].at = p
  <2>1. CASE m = n + 1
    BY <1>2, <1>3, <1>4, <2>1
  <2>2. CASE m # n + 1
    <3>1. n + 1 \in 1..(m - 1)
      BY <1>1, <1>2, <1>3, <2>2
    <3> QED
      BY <1>2, <1>3, <3>1
  <2> QED
    BY <2>1, <2>2
<1>8. ASSUME NEW i \in 1..(m + 1), i > n + 1
      PROVE  \/ stack'[i].op = "destroy"
             \/ /\ stack'[i].op \in {"clear", "forget"} /\ stack'[i - 1].op = "destroy"
                /\ stack'[i - 1].left < Slots[stack'[i - 1].obj]
                /\ stack'[i].at = <<stack'[i - 1].obj, stack'[i - 1].left + 1>>
  <2>1. CASE i \in 1..(m - 1)
    <3>1. i - 1 \in 1..(m - 1) /\ i \in 1..m
      BY <1>1, <1>2, <1>8, <2>1
    <3>2. stack'[i] = stack[i] /\ stack'[i - 1] = stack[i - 1]
      BY <1>2, <2>1, <3>1
    <3> QED
      BY <1>3, <1>8, <3>1, <3>2
  <2>2. CASE i = m
    <3>1. m \in 1..m /\ m - 1 \in 1..(m - 1) /\ m > n + 1
      BY <1>1, <1>2, <1>8, <2>2
    <3>2. stack'[m - 1] = stack[m - 1] /\ stack'[m] = f
      BY <1>2, <3>1
    <3>3. CASE Top.op = "clear"
      <4>1. f.op = "forget" /\ f.at = stack[m].at
        BY <1>4, <3>3
      <4>2. /\ stack[m - 1].op = "destroy"
            /\ stack[m - 1].left < Slots[stack[m - 1].obj]
            /\ stack[m].at = <<stack[m - 1].obj, stack[m - 1].left + 1>>
        BY <1>3, <1>4, <3>1, <3>3
      <4> QED
        BY <2>2, <3>2, <4>1, <4>2
    <3> QED
      BY <2>2, <3>2, <3>3
  <2>3. CASE i = m + 1
    <3>1. (m + 1) - 1 = m
      BY <1>2
    <3> QED
      BY <1>2, <2>3, <3>1
  <2>4. i \in 1..(m - 1) \/ i = m \/ i = m + 1
    BY <1>2
  <2> QED
    BY <2>1, <2>2, <2>3, <2>4
<1> QED
  BY <1>1, <1>2, <1>5, <1>6, <1>7, <1>8 DEF Nested, n

\* What goes while p is cleared has to go.
LEMMA PartlyGoesOn ==
  ASSUME NEW p, NEW kept, Partly(p, kept), before' = before,
         Dying' \subseteq Dooms(p, kept),
         live' = live \/ (\E o \in Dying : live' = live \ {o}),
         \A x \in Places \ {Temp} :
            \/ held'[x] = held[x]
            \/ held'[x] = Null /\ x \in {p} \cup Members(Dooms(p, kept))
  PROVE  Partly(p, kept)'
<1>1. Dooms(p, kept)' = Dooms(p, kept)
  BY DEF Dooms
<1>2. Dying \subseteq Dooms(p, kept) /\ kept \notin Dooms(p, kept)
  BY DEF Partly, Dooms, Goes
<1>3. /\ live' \subseteq before'.live \cup ({kept} \ {Null})
      /\ (before'.live \ Dooms(p, kept)) \cup ({kept} \ {Null}) \subseteq live'
  BY <1>2 DEF Partly
<1>4. \A x \in Places \ {Temp} :
        \/ held'[x] = before'.held[x]
        \/ held'[x] = Null /\ x \in {p} \cup Members(Dooms(p, kept))
  BY DEF Partly
<1> QED
  BY <1>1, <1>2, <1>3, <1>4 DEF Partly

\* When p is empty and no destructor runs, all of it has gone: what is left has a
\* handle, which is one that was there before and is not p.
LEMMA PartlyIsWholly ==
  ASSUME Inv', Positive', Closed(before.live, before.held), before' = before,
         NEW p \in CallNames, NEW kept \in Objects \cup {Null}, Partly(p, kept)',
         Dying' = {}, held'[p] = Null, held'[Temp] = kept
  PROVE  Wholly(p, kept)'
<1> DEFINE A == before.live
           h == before.held
           D == Dooms(p, kept)
<1>1. /\ Dooms(p, kept)' = D /\ D \subseteq A /\ kept \notin D /\ A \subseteq Objects
      /\ live' \subseteq Objects /\ held' \in [Places -> Objects \cup {Null}]
  BY DEF Dooms, Goes, Closed, Inv, TypeOK
<1>2. /\ live' \subseteq A \cup ({kept} \ {Null})
      /\ (A \ D) \cup ({kept} \ {Null}) \subseteq live'
      /\ \A x \in Places \ {Temp} :
           h[x] = held'[x] \/ (held'[x] = Null /\ x \in {p} \cup Members(D))
  BY <1>1 DEF Partly
<1>3. D \subseteq A \ live'
  <2> DEFINE os == A \ live'
  <2>1. SUFFICES ASSUME NEW x \in A \ {kept}, Alone(A, h, p, x, os), x \in live'
                 PROVE  FALSE
    BY GoesIsLeast DEF Dooms
  <2>2. x \in Objects /\ count'[x] > 0 /\ count'[x] = Cardinality(Referring(x)')
    <3>1. x \in Objects
      BY <1>1
    <3>2. count'[x] = Cardinality(Referring(x)')
      BY <2>1, <3>1 DEF Inv, Counted
    <3>3. count'[x] > 0
      BY <2>1 DEF Positive
    <3> QED
      BY <3>1, <3>2, <3>3
  <2>3. Referring(x)' # {}
    <3>1. Referring(x)' = {} => Cardinality(Referring(x)') = 0
      BY FS_EmptySet
    <3> QED
      BY <2>2, <3>1
  <2>4. PICK q \in Places : held'[q] = x
    BY <2>3 DEF Referring
  <2>5. q # Temp /\ q # p /\ x # Null
    BY <2>1, <2>2, <2>4, NullOK
  <2>6. h[q] = x
    BY <1>2, <2>4, <2>5
  <2>7. q \in Locals \cup Members(A \ os)
    <3>1. SUFFICES ASSUME q \in Members(Objects)
                   PROVE  q \in Members(A \ os)
      BY <2>5 DEF Places, Roots
    <3>2. PICK o \in Objects : \E k \in 1..Slots[o] : q = <<o, k>>
      BY <3>1, MembersArePlaces
    <3>3. o \in live'
      <4>1. o \notin live' => q \in Members(Objects \ live')
        BY <3>2, MembersOf
      <4> QED
        BY <2>4, <2>5, <4>1 DEF Inv, FreedEmpty
    <3>4. o \in A
      <4>1. o \notin A => q \in Members(Objects \ A)
        BY <3>2, MembersOf
      <4> QED
        BY <2>5, <2>6, <4>1 DEF Closed
    <3> QED
      BY <3>2, <3>3, <3>4, MembersOf
  <2> QED
    BY <2>1, <2>5, <2>6, <2>7 DEF Alone
<1>4. live' = (A \ D) \cup ({kept} \ {Null})
  BY <1>2, <1>3
<1>5. ASSUME NEW x \in Places \ {Temp, p}
      PROVE  held'[x] = IF x \in Members(D) THEN Null ELSE h[x]
  <2>1. CASE x \in Members(D)
    <3>1. PICK o \in D : \E k \in 1..Slots[o] : x = <<o, k>>
      BY <2>1 DEF Members, Member
    <3>2. x \in Members(Objects \ live')
      BY <1>1, <1>3, <3>1, MembersOf
    <3> QED
      BY <2>1, <3>2 DEF Inv, FreedEmpty
  <2>2. CASE x \notin Members(D)
    BY <1>2, <1>5, <2>2
  <2> QED
    BY <2>1, <2>2
<1> QED
  BY <1>1, <1>4, <1>5 DEF Wholly

-------------------------------------------------------------------------------
\* A step in the middle of a call is none of ObjectGraph.
LEMMA GoesOn ==
  ASSUME stack # << >>, ~fault, UNCHANGED <<before, fault>>, stack' # << >>,
         NEW p \in CallNames, NEW q \in CallNames, NEW kept \in Objects \cup {Null},
         NEW b \in Bases(p, q), Keeps(q, kept, b),
         Clearing(p, kept, b)' \/ Taking(p, kept, b)' \/ Closing(p, kept, b)'
  PROVE  InCall' /\ UNCHANGED <<Alive, Target, fault>>
<1>1. ~Idle /\ ~Idle'
  BY DEF Idle
<1>2. UNCHANGED <<Alive, Target, fault>>
  BY <1>1 DEF Alive, Target
<1>3. CallNames' = CallNames /\ Keeps(q, kept, b)'
  BY DEF CallNames, Keeps
<1>4. AtWork(p, q, kept, b)'
  BY <1>3 DEF AtWork
<1>5. InCall'
  BY <1>3, <1>4 DEF InCall
<1> QED
  BY <1>2, <1>5

\* The object of the last handle goes.
LEMMA LastGoes ==
  ASSUME CallInv, NEW p \in CallNames, NEW q \in CallNames, NEW kept,
         NEW b \in Bases(p, q), Clearing(p, kept, b), ReleaseLast
  PROVE  held[Top.at] \in Dooms(p, kept)
<1> DEFINE x == held[Top.at]
           A == before.live
           h == before.held
           D == Dooms(p, kept)
<1>1. stack # << >> /\ Running("clear") /\ x \in live \ Dying /\ count[x] <= 1
  BY DEF ReleaseLast, Running
<1>2. /\ p \in Places \ {Temp} /\ Top.at \in {p} \cup Members(D) /\ Top.at # Temp
      /\ Forgotten \subseteq {p} \cup Members(Dying)
  BY <1>1, RunningFrame DEF Running
<1>3. /\ Dying \subseteq D /\ D \subseteq A /\ A \subseteq Objects
      /\ live \subseteq A \cup ({kept} \ {Null}) /\ held[Temp] = kept
      /\ \A y \in Places \ {Temp} :
           h[y] = held[y] \/ (held[y] = Null /\ y \in {p} \cup Members(D))
  BY DEF Clearing, Partly, CallInv, Closed, Dooms, Goes
<1>4. Referring(x) \subseteq {Top.at}
  <2>1. /\ Cardinality(Referring(x) \ {Top.at}) = count[x] - 1
        /\ Cardinality(Referring(x) \ {Top.at}) \in Nat
    BY <1>1, ClearedIsCounted DEF CallInv
  <2>2. Cardinality(Referring(x) \ {Top.at}) = 0
    <3>1. x \in Objects /\ count[x] \in Int
      BY <1>1 DEF CallInv, Inv, TypeOK
    <3> HIDE DEF x
    <3> QED
      BY <1>1, <2>1, <3>1
  <2>3. IsFiniteSet(Referring(x) \ {Top.at})
    BY ReferringFinite, FS_Subset
  <2>4. Referring(x) \ {Top.at} = {}
    BY <2>2, <2>3, FS_EmptySet
  <2> QED
    BY <2>4
<1>5. Members(Dying) \subseteq Members(D) /\ Members(D) \subseteq Members(Objects)
      /\ Members(A \ D) \subseteq Members(Objects)
  BY <1>3 DEF Members
<1>6. Temp \notin Members(Objects) /\ Temp \in Places /\ Locals \cap Members(Objects) = {}
      /\ Locals \cup Members(Objects) \subseteq Places \ {Temp}
  BY PlacesApart DEF Places, Roots
<1>7. x \in A \ {kept}
  <2>1. SUFFICES ASSUME x = kept
                 PROVE  FALSE
    BY <1>1, <1>3
  <2>2. Temp \notin Forgotten
    BY <1>2, <1>5, <1>6
  <2>3. Temp \in Referring(x)
    BY <1>3, <1>6, <2>1, <2>2 DEF Referring
  <2> QED
    BY <1>2, <1>4, <2>3
<1>8. Alone(A, h, p, x, D)
  <2>1. SUFFICES ASSUME NEW y \in Locals \cup Members(A \ D), h[y] = x, y # p
                 PROVE  FALSE
    BY DEF Alone
  <2>2. y \notin Members(D)
    <3>1. CASE y \in Locals
      BY <1>5, <1>6, <3>1
    <3>2. CASE y \in Members(A \ D)
      BY <3>2 DEF Members, Member
    <3> QED
      BY <3>1, <3>2
  <2>3. y \in Places \ {Temp} /\ y \notin Forgotten
    BY <1>2, <1>5, <1>6, <2>1, <2>2
  <2>4. held[y] = x
    BY <1>3, <2>1, <2>2, <2>3
  <2>5. y \in Referring(x)
    BY <2>3, <2>4 DEF Referring
  <2> QED
    BY <1>2, <1>4, <2>1, <2>2, <2>5
<1> QED
  BY <1>7, <1>8, GoesIsClosed DEF Dooms

\* A frame that clears returns, and with the last one all is over or p is assigned.
LEMMA ClearingReturns ==
  ASSUME CallInv, Inv', Positive', stack # << >>, ~fault, UNCHANGED <<before, fault>>,
         NEW p \in CallNames, NEW q \in CallNames, NEW kept \in Objects \cup {Null},
         NEW b \in Bases(p, q), Keeps(q, kept, b), Clearing(p, kept, b),
         stack' = Rest, Partly(p, kept)', held'[Temp] = kept,
         Top.op # "destroy" => held'[Top.at] = Null
  PROVE  InCall' /\ (Graph!Next \/ UNCHANGED <<Alive, Target, fault>>)
<1>1. /\ p \in Places /\ q \in Places /\ Nested(p, b) /\ TypeOK
      /\ Len(stack) = Len(b) + 1 => Top.at = p
  BY RunningFrame DEF Clearing, CallInv, Inv
<1>2. Len(b) \in 0..2 /\ \A i \in DOMAIN b : b[i].op \in {"clear", "take"}
  BY <1>1, BaseFacts
<1>3. CASE Len(stack) # Len(b) + 1
  <2>1. Nested(p, b)'
    BY <1>1, <1>3, NestedPops
  <2>2. Clearing(p, kept, b)'
    BY <2>1 DEF Clearing
  <2>3. stack' # << >>
    <3>1. Len(b) < Len(stack')
      BY <2>1 DEF Nested
    <3> QED
      BY <1>2, <3>1
  <2> QED
    BY <2>2, <2>3, GoesOn
<1>4. CASE Len(stack) = Len(b) + 1
  <2>1. stack' = b
    BY <1>1, <1>4, NestedPops
  <2>2. Dying' = {}
    BY <1>2, <2>1 DEF Dying
  <2>3. Top = stack[Len(b) + 1] /\ Top.op # "destroy" /\ Top.at = p
    BY <1>4 DEF Clearing, Nested, Top
  <2>4. held'[p] = Null
    BY <2>3
  <2>5. Wholly(p, kept)'
    BY <2>2, <2>4, PartlyIsWholly DEF CallInv
  <2>6. CASE b = << >>
    <3>1. kept = Null /\ Len(b) = 0
      BY <2>6 DEF Keeps
    <3>2. Dooms(p, kept)' = Dooms(p, kept)
      BY DEF Dooms
    <3>3. Results(p, kept, kept)
      BY <2>4, <2>5, <3>1, <3>2 DEF Results, Wholly
    <3>4. Results(p, kept, IF Len(b) = 1 THEN IF q = p THEN Null ELSE before.held[q]
                                         ELSE kept)
      BY <3>1, <3>3
    <3>5. Graph!Next
      BY <2>1, <2>6, <3>1, <3>4, CallEnds DEF CallInv
    <3>6. InCall'
      BY <2>1, <2>6 DEF InCall
    <3> QED
      BY <3>5, <3>6
  <2>7. CASE b # << >>
    <3>1. Taking(p, kept, b)'
      BY <2>1, <2>4, <2>5, <2>7 DEF Taking
    <3> QED
      BY <2>1, <2>7, <3>1, GoesOn
  <2> QED
    BY <2>6, <2>7
<1> QED
  BY <1>3, <1>4

\* A frame that clears has another one do part of its work.
LEMMA ClearingCalls ==
  ASSUME CallInv, stack # << >>, ~fault, UNCHANGED <<before, fault, held, live>>,
         NEW p \in CallNames, NEW q \in CallNames, NEW kept \in Objects \cup {Null},
         NEW b \in Bases(p, q), Keeps(q, kept, b), Clearing(p, kept, b), Nested(p, b)',
         Dying' \subseteq Dooms(p, kept)
  PROVE  InCall' /\ UNCHANGED <<Alive, Target, fault>>
<1>1. Partly(p, kept)'
  BY PartlyGoesOn DEF Clearing
<1>2. Clearing(p, kept, b)'
  BY <1>1 DEF Clearing
<1>3. stack' # << >>
  <2>1. p \in Places /\ q \in Places
    BY RunningFrame
  <2>2. Len(b) \in 0..2 /\ Len(b) < Len(stack')
    BY <2>1, BaseFacts DEF Nested
  <2> QED
    BY <2>2
<1> QED
  BY <1>2, <1>3, GoesOn

-------------------------------------------------------------------------------
\* While p is cleared.
LEMMA ClearingStep ==
  ASSUME CallInv, Inv', Positive', Step,
         NEW p \in CallNames, NEW q \in CallNames, NEW kept \in Objects \cup {Null},
         NEW b \in Bases(p, q), Keeps(q, kept, b), Clearing(p, kept, b)
  PROVE  InCall' /\ (Graph!Next \/ UNCHANGED <<Alive, Target, fault>>)
<1> DEFINE o == held[Top.at]
           D == Dooms(p, kept)
<1>1. stack # << >> /\ ~fault
  BY DEF Step, Running, ClearNothing, Release, ReleaseLast, DestroyMember, Free,
         ForgetDeleted, TakeOver, Faults
<1>2. /\ p \in Places \ {Temp} /\ q \in Places \ {Temp}
      /\ Top \in Frame /\ Top.op \in {"clear", "forget", "destroy"}
      /\ Top.op # "destroy" => /\ Top.at \in {p} \cup Members(D)
                               /\ Top.at \in Places \ {Temp} /\ Exist(Top.at)
      /\ Top.op = "clear" => held[Top.at] \in (live \ Dying) \cup {Null}
  BY <1>1, RunningFrame
<1>3. /\ Partly(p, kept) /\ held[Temp] = kept /\ Nested(p, b)
      /\ TypeOK /\ Apart /\ Dying \subseteq D /\ Temp \in Places
      /\ held \in [Places -> Objects \cup {Null}] /\ live \subseteq Objects
  BY DEF Clearing, Partly, CallInv, Inv, TypeOK, Places, Roots
<1>4. ASSUME stack' = Rest, Top.op # "destroy", UNCHANGED <<before, fault, live>>,
             held' = [held EXCEPT ![Top.at] = Null] \/ (held' = held /\ o = Null)
      PROVE  InCall' /\ (Graph!Next \/ UNCHANGED <<Alive, Target, fault>>)
  <2>1. Dying' = Dying
    BY <1>1, <1>3, <1>4, PopDying
  <2>2. /\ held'[Temp] = kept /\ held'[Top.at] = Null
        /\ \A x \in Places : x # Top.at => held'[x] = held[x]
    BY <1>2, <1>3, <1>4
  <2>3. \A x \in Places \ {Temp} :
          \/ held'[x] = held[x]
          \/ held'[x] = Null /\ x \in {p} \cup Members(D)
    BY <1>2, <1>4, <2>2
  <2>4. Partly(p, kept)'
    BY <1>3, <1>4, <2>1, <2>3, PartlyGoesOn
  <2> QED
    BY <1>1, <1>4, <2>2, <2>4, ClearingReturns
<1>5. CASE ClearNothing
  BY <1>4, <1>5 DEF ClearNothing, Running
<1>6. CASE Release
  BY <1>4, <1>6 DEF Release, Running
<1>7. CASE ForgetDeleted
  BY <1>4, <1>7 DEF ForgetDeleted, Running
<1>8. CASE ReleaseLast
  <2>1. o \in D
    BY <1>8, LastGoes
  <2>2. /\ Top.op = "clear" /\ o \in Objects /\ UNCHANGED <<before, fault, held, live>>
        /\ stack' = Rest \o <<Forget(Top.at), Destroy(o, Slots[o])>>
    BY <1>3, <1>8 DEF ReleaseLast, Running
  <2> DEFINE f == Forget(Top.at)
             g == Destroy(o, Slots[o])
  <2>3. f \in Frame /\ f.op = "forget" /\ f.at = Top.at
    BY <1>2, <2>2, FrameFields
  <2>4. g \in Frame /\ g.op = "destroy" /\ g.obj = o
    <3>1. Slots[o] \in Nat
      BY <2>2, SlotsOK
    <3> HIDE DEF o
    <3> QED
      BY <2>2, <3>1, FrameFields
  <2>5. stack' = Rest \o <<f, g>>
    BY <2>2
  <2> HIDE DEF f, g, o
  <2>6. Dying' \subseteq D
    BY <1>1, <1>3, <2>1, <2>3, <2>4, <2>5, ReplacedDying
  <2>7. Nested(p, b)'
    BY <1>1, <1>2, <1>3, <2>2, <2>3, <2>4, <2>5, NestedReplaced
  <2> QED
    BY <1>1, <2>2, <2>6, <2>7, ClearingCalls
<1>9. CASE DestroyMember
  <2> DEFINE x == Top.obj
             k == Top.left
             f == Destroy(x, k - 1)
             g == Clear(<<x, k>>)
  <2>1. /\ Top.op = "destroy" /\ k > 0 /\ UNCHANGED <<before, fault, held, live>>
        /\ stack' = Rest \o <<f, g>>
    BY <1>9 DEF DestroyMember, Running
  <2>2. /\ x \in Objects /\ x \in Dying /\ k \in Nat /\ k <= Slots[x]
        /\ Slots[x] \in Nat
    <3>1. Len(stack) \in DOMAIN stack
      BY <1>1, <1>3 DEF TypeOK
    <3> QED
      BY <1>2, <2>1, <3>1, FrameFields, SlotsOK DEF CallInv, Inv, DestroysOwn, Top, Dying
  <2>3. f \in Frame /\ f.op = "destroy" /\ f.obj = x /\ f.left = k - 1
    <3>1. k - 1 \in Nat
      BY <2>1, <2>2
    <3> QED
      BY <2>2, <3>1, FrameFields
  <2>4. g \in Frame /\ g.op = "clear" /\ g.at = <<x, k>>
    <3>1. k \in 1..Slots[x]
      BY <2>1, <2>2
    <3>2. <<x, k>> \in Places
      BY <2>2, <3>1, MembersArePlaces
    <3> QED
      BY <3>2, FrameFields
  <2>5. f.left < Slots[f.obj] /\ f.left + 1 = k
    <3> HIDE DEF f, k, x
    <3> QED
      BY <2>1, <2>2, <2>3
  <2> HIDE DEF f, g
  <2>6. Dying' \subseteq D
    BY <1>1, <1>3, <2>1, <2>2, <2>3, <2>4, ReplacedDying
  <2>7. Nested(p, b)'
    <3>1. g.at = <<f.obj, f.left + 1>>
      BY <2>3, <2>4, <2>5
    <3> QED
      BY <1>1, <1>2, <1>3, <2>1, <2>3, <2>4, <2>5, <3>1, NestedReplaced
  <2> QED
    BY <1>1, <2>1, <2>6, <2>7, ClearingCalls
<1>10. CASE Free
  <2>1. /\ Top.op = "destroy" /\ stack' = Rest /\ UNCHANGED <<before, fault, held>>
        /\ live' = live \ {Top.obj}
    BY <1>10 DEF Free, Running
  <2>2. Dying' \subseteq Dying /\ Top.obj \in Dying
    BY <1>1, <1>3, <2>1, PopDying
  <2>3. Partly(p, kept)'
    BY <1>3, <2>1, <2>2, PartlyGoesOn
  <2> QED
    BY <1>1, <1>3, <2>1, <2>3, ClearingReturns
<1>11. CASE TakeOver
  BY <1>2, <1>11 DEF TakeOver, Running
<1>12. CASE Faults
  <2>1. Misuse
    BY <1>12 DEF Faults
  <2>2. CASE Top.op = "clear"
    BY <1>2, <2>1, <2>2 DEF Misuse
  <2>3. CASE Top.op = "forget"
    BY <1>2, <2>1, <2>3 DEF Misuse
  <2>4. CASE Top.op = "destroy"
    BY <2>1, <2>4 DEF Misuse
  <2> QED
    BY <1>2, <2>2, <2>3, <2>4
<1> QED
  BY <1>5, <1>6, <1>7, <1>8, <1>9, <1>10, <1>11, <1>12 DEF Step

\* When p is assigned.
LEMMA TakingStep ==
  ASSUME CallInv, Step,
         NEW p \in CallNames, NEW q \in CallNames, NEW kept \in Objects \cup {Null},
         NEW b \in Bases(p, q), Keeps(q, kept, b), Taking(p, kept, b)
  PROVE  InCall' /\ (Graph!Next \/ UNCHANGED <<Alive, Target, fault>>)
<1> DEFINE A == before.live
           D == Dooms(p, kept)
<1>1. stack # << >> /\ ~fault
  BY DEF Step, Running, ClearNothing, Release, ReleaseLast, DestroyMember, Free,
         ForgetDeleted, TakeOver, Faults
<1>2. /\ p \in Places \ {Temp} /\ q \in Places \ {Temp} /\ Temp \in Places
      /\ p \in Locals \cup Members(A \ D)
  <2>1. Temp \in Places
    BY DEF Places, Roots
  <2> QED
    BY <2>1, NamedStays DEF CallNames, Dooms, CallInv
<1>3. /\ Len(b) = 1 \/ Len(b) = 2
      /\ Len(b) = 1 => stack = <<Take(p, q)>> /\ kept = Null
      /\ Len(b) = 2 => stack = <<Clear(Temp), Take(p, Temp)>>
  <2>1. /\ Len(b) \in 0..2
        /\ Len(b) = 0 => b = << >>
        /\ Len(b) = 1 => b = <<Take(p, q)>>
        /\ Len(b) = 2 => b = <<Clear(Temp), Take(p, Temp)>>
    BY <1>2, BaseFacts
  <2>2. b # << >> /\ stack = b /\ (Len(b) # 2 => kept = Null)
    BY DEF Taking, Keeps
  <2>3. Len(b) = 1 \/ Len(b) = 2
    <3>1. Len(b) # 0
      BY <2>1, <2>2
    <3> QED
      BY <2>1, <3>1
  <2>4. Len(b) = 1 => Len(b) # 2
    OBVIOUS
  <2> QED
    BY <2>1, <2>2, <2>3, <2>4, Zenon
<1>4. /\ live = (A \ D) \cup ({kept} \ {Null}) /\ held[Temp] = kept /\ held[p] = Null
      /\ \A x \in Places \ {Temp, p} :
           held[x] = IF x \in Members(D) THEN Null ELSE before.held[x]
      /\ held \in [Places -> Objects \cup {Null}] /\ TypeOK
  BY DEF Taking, Wholly, CallInv, Inv, TypeOK
<1>5. Exist(p) /\ Exist(Temp)
  <2>1. Members(A \ D) \subseteq Members(live)
    BY <1>4 DEF Members
  <2> QED
    BY <1>2, <2>1 DEF Exist, Roots
<1>6. /\ Top.op = "take" /\ Top.at = p
      /\ Len(b) = 1 => Top.from = q
      /\ Len(b) = 2 => Top.from = Temp
  <2>1. /\ Len(b) = 1 => Top = Take(p, q)
        /\ Len(b) = 2 => Top = Take(p, Temp)
    <3> DEFINE c == Clear(Temp)
               t == Take(p, Temp)
               u == Take(p, q)
    <3>1. /\ Len(b) = 1 => stack = <<u>>
          /\ Len(b) = 2 => stack = <<c, t>>
      BY <1>3
    <3> HIDE DEF c, t, u
    <3>2. /\ Len(b) = 1 => Top = u
          /\ Len(b) = 2 => Top = t
      BY <3>1 DEF Top
    <3> QED
      BY <3>2 DEF t, u
  <2> QED
    BY <1>2, <1>3, <2>1, FrameFields
<1>7. Len(b) = 1 => (Exist(q) <=> q \notin Members(D))
  <2>1. SUFFICES ASSUME Len(b) = 1
                 PROVE  Exist(q) <=> q \notin Members(D)
    OBVIOUS
  <2>2. live = A \ D /\ A \subseteq Objects /\ D \subseteq A
    BY <1>3, <1>4, <2>1 DEF CallInv, Closed, Dooms, Goes
  <2>3. Members(A) \subseteq Members(Objects) /\ Members(D) \subseteq Members(Objects)
    BY <2>2 DEF Members
  <2>4. CASE q \in Locals
    BY <2>3, <2>4, PlacesApart DEF Exist, Roots
  <2>5. CASE q \in Members(Reached(A, before.held))
    <3>1. PICK o \in A : \E k \in 1..Slots[o] : q = <<o, k>>
      BY <2>5 DEF Members, Member, Reached
    <3>2. q \in Members(A)
      BY <3>1, MembersOf
    <3>3. q \notin Roots
      BY <2>3, <3>2, PlacesApart
    <3>4. q \in Members(live) <=> o \in live
      BY <3>1 DEF Members, Member
    <3>5. q \in Members(D) <=> o \in D
      BY <3>1 DEF Members, Member
    <3> QED
      BY <2>2, <3>1, <3>3, <3>4, <3>5 DEF Exist
  <2> QED
    BY <2>4, <2>5 DEF CallNames
<1>8. Faults \/ TakeOver
  BY <1>6 DEF Step, Running, ClearNothing, Release, ReleaseLast, DestroyMember, Free,
              ForgetDeleted
<1>9. CASE TakeOver
  <2>1. /\ stack' = Rest /\ UNCHANGED <<live, fault, before>> /\ Exist(Top.from)
        /\ held' = [held EXCEPT ![p] = held[Top.from]]
    BY <1>6, <1>9 DEF TakeOver
  <2>2. /\ held'[p] = held[Top.from]
        /\ \A x \in Places : x # p => held'[x] = held[x]
    BY <1>2, <1>4, <2>1
  <2>3. CASE Len(b) = 1
    <3>1. stack' = << >>
      <4> DEFINE u == Take(p, q)
      <4>1. stack = <<u>>
        BY <1>3, <2>3
      <4> HIDE DEF u
      <4> QED
        BY <2>1, <4>1 DEF Rest
    <3>2. q \notin Members(D) /\ Top.from = q
      BY <1>6, <1>7, <2>1, <2>3
    <3>3. held'[p] = IF q = p THEN Null ELSE before.held[q]
      BY <1>2, <1>4, <2>2, <3>2
    <3>4. Results(p, kept, IF q = p THEN Null ELSE before.held[q])
      BY <1>4, <2>1, <2>2, <3>3 DEF Results
    <3>5. Results(p, kept, IF Len(b) = 1 THEN IF q = p THEN Null ELSE before.held[q]
                                         ELSE kept)
      BY <2>3, <3>4
    <3>6. Graph!Next
      BY <1>1, <2>1, <3>1, <3>2, <3>5, CallEnds DEF CallInv
    <3> QED
      BY <3>1, <3>6 DEF InCall
  <2>4. CASE Len(b) = 2
    <3>1. stack' = <<Clear(Temp)>>
      <4> DEFINE c == Clear(Temp)
                 t == Take(p, Temp)
      <4>1. stack = <<c, t>>
        BY <1>3, <2>4
      <4>2. c \in Frame
        BY <1>2, FrameFields
      <4> HIDE DEF c, t
      <4>3. Len(stack) = 2 /\ stack[1] = c
        BY <4>1
      <4>4. stack' \in Seq(Frame) /\ Len(stack') = Len(stack) - 1
            /\ \A i \in 1..(Len(stack) - 1) : stack'[i] = stack[i]
        BY <1>1, <1>4, <2>1, Popped
      <4>5. Len(stack') = 1 /\ stack'[1] = c
        BY <4>3, <4>4
      <4>6. <<c>> \in Seq(Frame) /\ Len(<<c>>) = 1 /\ <<c>>[1] = c
        BY <4>2
      <4>7. \A i \in 1..Len(stack') : stack'[i] = <<c>>[i]
        BY <4>5, <4>6
      <4>8. stack' = <<c>>
        BY <4>4, <4>5, <4>6, <4>7, SeqEqual
      <4> QED
        BY <4>8 DEF c
    <3>2. held'[p] = kept /\ held'[Temp] = kept
      BY <1>2, <1>4, <1>6, <2>2, <2>4
    <3>3. Dooms(p, kept)' = D
      BY <2>1 DEF Dooms
    <3>4. Wholly(p, kept)'
      BY <1>4, <2>1, <2>2, <3>3 DEF Wholly
    <3>5. Closing(p, kept, b)'
      BY <2>4, <3>1, <3>2, <3>4 DEF Closing
    <3>6. stack' # << >>
      BY <3>1
    <3> QED
      BY <1>1, <2>1, <3>5, <3>6, GoesOn
  <2> QED
    BY <1>3, <2>3, <2>4
<1>10. CASE Faults
  <2>1. UNCHANGED <<live, held, stack, before>> /\ fault' = TRUE /\ Misuse
    BY <1>10 DEF Faults
  <2>2. ~Exist(Top.from)
    BY <1>5, <1>6, <2>1 DEF Misuse
  <2>3. Len(b) = 1 /\ kept = Null /\ q \in Members(Dooms(p, Null))
    BY <1>3, <1>5, <1>6, <1>7, <2>2
  <2>4. Graph!Next
    BY <1>1, <2>1, <2>3, CallFails DEF CallInv
  <2> QED
    BY <2>1, <2>4 DEF InCall
<1> QED
  BY <1>8, <1>9, <1>10

\* When the temporary is cleared: p refers to its object as well.
LEMMA ClosingStep ==
  ASSUME CallInv, Step,
         NEW p \in CallNames, NEW q \in CallNames, NEW kept \in Objects \cup {Null},
         NEW b \in Bases(p, q), Keeps(q, kept, b), Closing(p, kept, b)
  PROVE  InCall' /\ (Graph!Next \/ UNCHANGED <<Alive, Target, fault>>)
<1> DEFINE A == before.live
           D == Dooms(p, kept)
           c == Clear(Temp)
<1>1. stack # << >> /\ ~fault
  BY DEF Step, Running, ClearNothing, Release, ReleaseLast, DestroyMember, Free,
         ForgetDeleted, TakeOver, Faults
<1>2. p \in Places \ {Temp} /\ q \in Places \ {Temp} /\ Temp \in Places
  <2>1. Temp \in Places
    BY DEF Places, Roots
  <2> QED
    BY <2>1, NamedStays DEF CallNames, CallInv
<1>3. c \in Frame /\ c.op = "clear" /\ c.at = Temp
  BY <1>2, FrameFields
<1>4. /\ live = (A \ D) \cup ({kept} \ {Null}) /\ held[Temp] = kept /\ held[p] = kept
      /\ \A x \in Places \ {Temp, p} :
           held[x] = IF x \in Members(D) THEN Null ELSE before.held[x]
      /\ held \in [Places -> Objects \cup {Null}] /\ TypeOK
      /\ Len(b) = 2 /\ stack = <<c>>
  BY DEF Closing, Wholly, CallInv, Inv, TypeOK
<1> HIDE DEF c
<1>5. Top = c /\ Len(stack) = 1 /\ DOMAIN stack = {1} /\ stack[1] = c
  BY <1>4 DEF Top
<1>6. Dying = {} /\ Forgotten = {} /\ Exist(Temp)
  BY <1>3, <1>5 DEF Dying, Forgotten, Exist, Roots
<1>7. ASSUME stack' = Rest, UNCHANGED <<live, before, fault>>,
             \A x \in Places \ {Temp} : held'[x] = held[x]
      PROVE  InCall' /\ (Graph!Next \/ UNCHANGED <<Alive, Target, fault>>)
  <2>1. stack' = << >>
    <3>1. stack' \in Seq(Frame) /\ Len(stack') = Len(stack) - 1
      BY <1>1, <1>4, <1>7, Popped
    <3> QED
      BY <1>5, <3>1
  <2>2. Results(p, kept, kept)
    BY <1>2, <1>4, <1>7 DEF Results
  <2>3. Len(b) # 1
    BY <1>4
  <2>4. Results(p, kept, IF Len(b) = 1 THEN IF q = p THEN Null ELSE before.held[q]
                                       ELSE kept)
    BY <2>2, <2>3
  <2>5. Graph!Next
    BY <1>1, <1>7, <2>1, <2>3, <2>4, CallEnds DEF CallInv
  <2> QED
    BY <2>1, <2>5 DEF InCall
<1>8. ClearNothing \/ Release \/ ReleaseLast \/ Faults
  BY <1>3, <1>5 DEF Step, Running, DestroyMember, Free, ForgetDeleted, TakeOver
<1>9. CASE ClearNothing
  BY <1>7, <1>9 DEF ClearNothing
<1>10. CASE Release
  <2>1. held' = [held EXCEPT ![Temp] = Null] /\ stack' = Rest
        /\ UNCHANGED <<live, before, fault>>
    BY <1>3, <1>5, <1>10 DEF Release
  <2>2. \A x \in Places \ {Temp} : held'[x] = held[x]
    BY <1>4, <2>1
  <2> QED
    BY <1>7, <2>1, <2>2
<1>11. CASE ReleaseLast
  <2>1. Running("clear") /\ held[Top.at] \in live \ Dying /\ count[held[Top.at]] <= 1
        /\ Top.at = Temp
    BY <1>3, <1>5, <1>11 DEF ReleaseLast
  <2>2. kept \in live /\ count[kept] <= 1 /\ count[kept] \in Int
    BY <1>4, <2>1 DEF TypeOK
  <2>3. /\ Cardinality(Referring(kept) \ {Temp}) = count[kept] - 1
        /\ Cardinality(Referring(kept) \ {Temp}) \in Nat
    BY <1>4, <2>1, ClearedIsCounted DEF CallInv
  <2>4. Cardinality(Referring(kept) \ {Temp}) = 0
    BY <2>2, <2>3
  <2>5. IsFiniteSet(Referring(kept) \ {Temp})
    BY ReferringFinite, FS_Subset
  <2>6. Referring(kept) \ {Temp} = {}
    BY <2>4, <2>5, FS_EmptySet
  <2>7. p \in Referring(kept)
    BY <1>2, <1>4, <1>6 DEF Referring
  <2> QED
    BY <1>2, <2>6, <2>7
<1>12. CASE Faults
  <2>1. Misuse
    BY <1>12 DEF Faults
  <2>2. held[Temp] \in (live \ Dying) \cup {Null}
    BY <1>4, <1>6
  <2> QED
    BY <1>3, <1>5, <1>6, <2>1, <2>2 DEF Misuse
<1> QED
  BY <1>8, <1>9, <1>10, <1>11, <1>12

-------------------------------------------------------------------------------
\* A call is made.
LEMMA CallBegins ==
  ASSUME CallInv, Idle, NEW p \in Named, NEW q \in Named, NEW b \in Bases(p, q),
         NEW kept \in Objects \cup {Null},
         IF Len(b) = 2 THEN kept \in {Null, held[q]} \cup (Objects \ live)
                       ELSE kept = Null,
         stack' = b \o <<Clear(p)>>, before' = [live |-> live, held |-> held],
         fault' = fault, live' = live \cup ({kept} \ {Null}),
         held' = [held EXCEPT ![Temp] = kept]
  PROVE  /\ InCall' /\ UNCHANGED <<Alive, Target, fault>>
         /\ Closed(before.live, before.held)'
<1>1. /\ stack = << >> /\ ~fault /\ Forgotten = {} /\ Temp \in Places
      /\ p \in Places \ {Temp} /\ q \in Places \ {Temp}
  BY IdleFacts DEF Idle, CallInv
<1>2. before'.live = live /\ before'.held = held
  OBVIOUS
<1>3. Closed(live, held)
  <2>1. live \subseteq Objects /\ held \in [Places -> Objects \cup {Null}]
    BY DEF CallInv, Inv, TypeOK
  <2>2. ASSUME NEW x \in Places, held[x] # Null
        PROVE  held[x] \in live
    <3>1. held[x] \in Objects
      BY <2>1, <2>2
    <3>2. x \in Referring(held[x])
      BY <1>1 DEF Referring
    <3> QED
      BY <3>1, <3>2 DEF CallInv, Inv, Counted
  <2> QED
    BY <2>1, <2>2 DEF Closed, CallInv, Inv, FreedEmpty
<1>4. CallNames' = Named
  BY <1>2 DEF CallNames, Named, Reachable, FollowsHandles, Reached, Follows
<1>5. /\ b \in Seq(Frame) /\ Len(b) \in 0..2 /\ DOMAIN b = 1..Len(b)
      /\ \A i \in DOMAIN b : b[i].op \in {"clear", "take"}
  <2>1. p \in Places /\ q \in Places
    BY <1>1
  <2> QED
    BY <2>1, BaseFacts
<1> DEFINE c == Clear(p)
           n == Len(b)
<1>6. c \in Frame /\ c.op = "clear" /\ c.at = p
  BY <1>1, FrameFields
<1>7. /\ Len(stack') = n + 1 /\ DOMAIN stack' = 1..(n + 1)
      /\ \A i \in 1..n : stack'[i] = b[i]
      /\ stack'[n + 1] = c
  <2>1. stack' = b \o <<c>>
    OBVIOUS
  <2> HIDE DEF c
  <2> QED
    BY <1>5, <1>6, <2>1
<1>8. stack' # << >> /\ Nested(p, b)' /\ Dying' = {}
  <2> HIDE DEF c, n
  <2>1. n \in 0..2 /\ DOMAIN b = 1..n
    BY <1>5 DEF n
  <2>2. stack' # << >>
    BY <1>7, <2>1
  <2>3. Nested(p, b)'
    <3>1. \A i \in 1..(n + 1) : ~(i > n + 1)
      BY <2>1
    <3>2. n < n + 1
      BY <2>1
    <3> QED
      BY <1>6, <1>7, <2>1, <3>1, <3>2 DEF Nested, n
  <2>4. \A i \in 1..(n + 1) : stack'[i].op \in {"clear", "take"}
    <3>1. \A i \in 1..(n + 1) : i \in 1..n \/ i = n + 1
      BY <2>1
    <3> QED
      BY <1>5, <1>6, <1>7, <2>1, <3>1
  <2>5. Dying' = {}
    BY <1>7, <2>4 DEF Dying
  <2> QED
    BY <2>2, <2>3, <2>5
<1>9. /\ held'[Temp] = kept
      /\ \A x \in Places \ {Temp} : held'[x] = held[x]
  <2>1. held \in [Places -> Objects \cup {Null}]
    BY DEF CallInv, Inv, TypeOK
  <2> QED
    BY <1>1, <2>1
<1>10. Partly(p, kept)'
  <2>1. (live \ Goes(live, held, p, kept)) \cup ({kept} \ {Null}) \subseteq live'
    OBVIOUS
  <2> QED
    BY <1>2, <1>8, <1>9, <2>1 DEF Partly, Dooms
<1>11. Keeps(q, kept, b)'
  BY <1>2 DEF Keeps
<1>12. InCall'
  <2>1. AtWork(p, q, kept, b)'
    BY <1>8, <1>9, <1>10, <1>11 DEF AtWork, Clearing
  <2> QED
    BY <1>4, <2>1 DEF InCall
<1>13. UNCHANGED <<Alive, Target, fault>>
  <2>1. ~Idle'
    BY <1>8 DEF Idle
  <2> QED
    BY <1>2, <2>1 DEF Alive, Target
<1> QED
  BY <1>2, <1>3, <1>12, <1>13

LEMMA Joined ==
  ASSUME NEW c, NEW d, NEW u
  PROVE  /\ <<u>> \o <<c>> = <<u, c>> /\ <<d, u>> \o <<c>> = <<d, u, c>>
         /\ Len(<<u>>) = 1 /\ Len(<<d, u>>) = 2
<1> DEFINE S == {c, d, u}
<1>1. c \in S /\ d \in S /\ u \in S
  OBVIOUS
<1> HIDE DEF S
<1>2. /\ <<u>> \o <<c>> \in Seq(S) /\ <<u, c>> \in Seq(S)
      /\ <<d, u>> \o <<c>> \in Seq(S) /\ <<d, u, c>> \in Seq(S)
      /\ Len(<<u>> \o <<c>>) = 2 /\ Len(<<d, u>> \o <<c>>) = 3
      /\ Len(<<u>>) = 1 /\ Len(<<d, u>>) = 2
      /\ Len(<<u, c>>) = 2 /\ Len(<<d, u, c>>) = 3
  BY <1>1
<1>3. \A i \in 1..2 : (<<u>> \o <<c>>)[i] = <<u, c>>[i]
  BY <1>1
<1>4. \A i \in 1..3 : (<<d, u>> \o <<c>>)[i] = <<d, u, c>>[i]
  BY <1>1
<1>5. <<u>> \o <<c>> = <<u, c>>
  BY <1>2, <1>3, SeqEqual
<1>6. <<d, u>> \o <<c>> = <<d, u, c>>
  BY <1>2, <1>4, SeqEqual
<1> QED
  BY <1>2, <1>5, <1>6

LEMMA CallStep ==
  ASSUME CallInv, NEW p, NEW q,
         Empty(p) \/ Assign(p, q) \/ Convert(p, q) \/ \E o \in Objects : New(p, o)
  PROVE  /\ InCall' /\ UNCHANGED <<Alive, Target, fault>>
         /\ Closed(before.live, before.held)'
<1>1. Idle /\ p \in Named
  BY DEF Empty, Assign, Convert, New
<1>2. /\ held[Temp] = Null /\ Temp \in Places
      /\ held \in [Places -> Objects \cup {Null}]
      /\ p \in Places /\ Named \subseteq Places
  BY <1>1, IdleFacts DEF CallInv, Inv, TypeOK
<1>3. held = [held EXCEPT ![Temp] = Null]
  BY <1>2
<1> DEFINE c == Clear(p)
           d == Clear(Temp)
           u == Take(p, Temp)
<1>4. CASE Empty(p)
  <2>1. /\ stack' = <<c>> /\ UNCHANGED <<live, held, fault>>
        /\ before' = [live |-> live, held |-> held]
    BY <1>4 DEF Empty, Called
  <2>2. << >> \in Bases(p, p) /\ Len(<< >>) = 0 /\ << >> \o <<c>> = <<c>>
    BY DEF Bases
  <2>3. live' = live \cup ({Null} \ {Null})
    BY <2>1
  <2> QED
    BY <1>1, <1>3, <2>1, <2>2, <2>3, CallBegins
<1>5. CASE Assign(p, q)
  <2> DEFINE t == Take(p, q)
  <2>1. /\ stack' = <<t, c>> /\ UNCHANGED <<live, held, fault>> /\ q \in Named
        /\ before' = [live |-> live, held |-> held]
    BY <1>5 DEF Assign, Called
  <2>2. <<t>> \in Bases(p, q)
    BY DEF Bases
  <2>3. Len(<<t>>) = 1 /\ <<t>> \o <<c>> = <<t, c>>
    <3> HIDE DEF t, c
    <3> QED
      BY Joined
  <2>4. live' = live \cup ({Null} \ {Null})
    BY <2>1
  <2> QED
    BY <1>1, <1>3, <2>1, <2>2, <2>3, <2>4, CallBegins
<1>6. <<d, u>> \in Bases(p, q) /\ <<d, u>> \in Bases(p, p)
  BY DEF Bases
<1>7. Len(<<d, u>>) = 2 /\ <<d, u>> \o <<c>> = <<d, u, c>>
  <2> HIDE DEF c, d, u
  <2> QED
    BY Joined
<1>8. CASE Convert(p, q)
  <2>1. PICK o \in {held[q], Null} : Adopted(o)
    BY <1>8 DEF Convert
  <2>2. /\ stack' = <<d, u, c>> /\ UNCHANGED <<live, fault>> /\ q \in Named
        /\ before' = [live |-> live, held |-> held]
        /\ held' = [held EXCEPT ![Temp] = o]
    BY <1>8, <2>1 DEF Convert, Called, Adopted
  <2>3. o \in Objects \cup {Null}
    BY <1>2, <2>1, <2>2
  <2>4. o # Null => o \in live
    <3>1. SUFFICES ASSUME o # Null
                   PROVE  o \in live
      OBVIOUS
    <3>2. q \in Referring(o) /\ o \in Objects
      BY <1>1, <1>2, <2>1, <2>2, <2>3, <3>1, IdleFacts DEF Referring, CallInv
    <3> QED
      BY <3>2 DEF CallInv, Inv, Counted
  <2>5. live' = live \cup ({o} \ {Null})
    BY <2>2, <2>4
  <2>6. o \in {Null, held[q]} \cup (Objects \ live)
    BY <2>1
  <2> QED
    BY <1>1, <1>6, <1>7, <2>2, <2>3, <2>5, <2>6, CallBegins
<1>9. CASE \E o \in Objects : New(p, o)
  <2>1. PICK o \in Objects : New(p, o)
    BY <1>9
  <2>2. /\ stack' = <<d, u, c>> /\ fault' = fault /\ o \notin live
        /\ live' = live \cup {o} /\ held' = [held EXCEPT ![Temp] = o]
        /\ before' = [live |-> live, held |-> held]
    BY <2>1 DEF New, Called
  <2>3. live' = live \cup ({o} \ {Null})
    BY <2>2, NullOK
  <2>4. o \in {Null, held[p]} \cup (Objects \ live)
    BY <2>2
  <2> QED
    BY <1>1, <1>6, <1>7, <2>2, <2>3, <2>4, CallBegins
<1> QED
  BY <1>4, <1>5, <1>8, <1>9

\* Every step keeps the invariant and is one of ObjectGraph, or none.
LEMMA CallInvInit == Init => CallInv /\ Graph!Init
<1> SUFFICES ASSUME Init
             PROVE  CallInv /\ Graph!Init
  OBVIOUS
<1>1. Inv /\ Positive
  BY InitInv, PositiveInit
<1>2. stack = << >> /\ live = {} /\ fault = FALSE /\ held = [p \in Places |-> Null]
      /\ before.live = {} /\ before.held = held
  BY DEF Init
<1>3. Closed(before.live, before.held) /\ InCall
  BY <1>2 DEF Closed, InCall, Members, Member, Places
<1>4. Graph!Init
  <2>1. Idle
    BY <1>2 DEF Idle
  <2>2. Places \ {Temp} = Locals \cup Graph!Members(Objects)
    BY PlacesApart DEF Places, Roots, Graph!Members, Graph!Member, Members, Member
  <2>3. Target = [p \in Places \ {Temp} |-> Null] /\ Alive = {}
    BY <1>2, <2>1 DEF Target, Alive
  <2> QED
    BY <1>2, <2>2, <2>3 DEF Graph!Init
<1> QED
  BY <1>1, <1>3, <1>4 DEF CallInv

LEMMA CallInvNext ==
  ASSUME CallInv, [Next]_vars
  PROVE  CallInv' /\ (Graph!Next \/ UNCHANGED <<Alive, Target, fault>>)
<1>1. Inv' /\ Positive'
  BY NextInv, PositiveStep DEF CallInv
<1>2. CASE UNCHANGED vars
  <2>1. UNCHANGED <<Alive, Target, fault>>
    BY <1>2 DEF vars, Alive, Target, Idle
  <2>2. UNCHANGED <<live, held, stack, fault, before>>
    BY <1>2 DEF vars
  <2>3. Closed(before.live, before.held)' /\ CallNames' = CallNames
    BY <2>2 DEF CallInv, Closed, CallNames
  <2>4. InCall'
    <3>1. SUFFICES ASSUME stack # << >>, ~fault
                   PROVE  InCall'
      BY <2>2 DEF InCall
    <3>2. PICK p \in CallNames : \E q \in CallNames : \E kept \in Objects \cup {Null} :
                 \E b \in Bases(p, q) : AtWork(p, q, kept, b)
      BY <3>1 DEF CallInv, InCall
    <3>3. PICK q \in CallNames : \E kept \in Objects \cup {Null} :
                 \E b \in Bases(p, q) : AtWork(p, q, kept, b)
      BY <3>2
    <3>4. PICK kept \in Objects \cup {Null} : \E b \in Bases(p, q) : AtWork(p, q, kept, b)
      BY <3>3
    <3>5. PICK b \in Bases(p, q) : AtWork(p, q, kept, b)
      BY <3>4
    <3>6. AtWork(p, q, kept, b)'
      BY <2>2, <3>5 DEF AtWork, Keeps, Clearing, Taking, Closing, Nested, Partly, Wholly,
                        Dooms, Dying
    <3> QED
      BY <2>3, <3>6 DEF InCall
  <2> QED
    BY <1>1, <2>1, <2>3, <2>4 DEF CallInv
<1>3. CASE Step
  <2>1. stack # << >> /\ ~fault
    BY <1>3 DEF Step, Running, ClearNothing, Release, ReleaseLast, DestroyMember, Free,
                ForgetDeleted, TakeOver, Faults
  <2>2. before' = before
    BY <1>3 DEF Step, ClearNothing, Release, ReleaseLast, DestroyMember, Free,
                ForgetDeleted, TakeOver, Faults
  <2>3. Closed(before.live, before.held)'
    BY <2>2 DEF CallInv
  <2>4. PICK p \in CallNames : \E q \in CallNames : \E kept \in Objects \cup {Null} :
               \E b \in Bases(p, q) : AtWork(p, q, kept, b)
    BY <2>1 DEF CallInv, InCall
  <2>5. PICK q \in CallNames : \E kept \in Objects \cup {Null} :
               \E b \in Bases(p, q) : AtWork(p, q, kept, b)
    BY <2>4
  <2>6. PICK kept \in Objects \cup {Null} : \E b \in Bases(p, q) : AtWork(p, q, kept, b)
    BY <2>5
  <2>7. PICK b \in Bases(p, q) : AtWork(p, q, kept, b)
    BY <2>6
  <2>8. Keeps(q, kept, b)
    BY <2>7 DEF AtWork
  <2>9. InCall' /\ (Graph!Next \/ UNCHANGED <<Alive, Target, fault>>)
    <3>1. CASE Clearing(p, kept, b)
      BY <1>1, <1>3, <2>8, <3>1, ClearingStep
    <3>2. CASE Taking(p, kept, b)
      BY <1>3, <2>8, <3>2, TakingStep
    <3>3. CASE Closing(p, kept, b)
      BY <1>3, <2>8, <3>3, ClosingStep
    <3> QED
      BY <2>7, <3>1, <3>2, <3>3 DEF AtWork
  <2> QED
    BY <1>1, <2>3, <2>9 DEF CallInv
<1>4. ASSUME NEW p, NEW q,
             Empty(p) \/ Assign(p, q) \/ Convert(p, q) \/ \E o \in Objects : New(p, o)
      PROVE  CallInv' /\ (Graph!Next \/ UNCHANGED <<Alive, Target, fault>>)
  BY <1>1, <1>4, CallStep DEF CallInv
<1> QED
  BY <1>2, <1>3, <1>4 DEF Next

\* What is true of a call in every step of it: which call it is, which frames run, and
\* that what has gone so far is only what ObjectGraph says has to.
THEOREM CallsAreOrderly == Spec => []CallInv
<1>1. Init => CallInv
  BY CallInvInit
<1>2. CallInv /\ [Next]_vars => CallInv'
  BY CallInvNext
<1> QED
  BY <1>1, <1>2, PTL DEF Spec

\* Handles implement ObjectGraph: between calls, the objects are those that the last
\* call leaves, each with all that goes or stays with it, and a call reads a freed
\* handle exactly when it assigns from what goes with its target (handle.h:43-104).
THEOREM HandlesImplementGraph == Spec => ImplementsGraph
<1>1. Init => Graph!Init
  BY CallInvInit
<1>2. CallInv /\ [Next]_vars => [Graph!Next]_(Graph!vars)
  <2>1. SUFFICES ASSUME CallInv, [Next]_vars
                 PROVE  Graph!Next \/ UNCHANGED <<Alive, Target, fault>>
    BY DEF Graph!vars
  <2> QED
    BY <2>1, CallInvNext
<1>3. Spec => []CallInv
  BY CallsAreOrderly
<1> QED
  BY <1>1, <1>2, <1>3, PTL DEF Spec, ImplementsGraph, Graph!Spec
===============================================================================
