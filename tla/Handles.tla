-------------------------------- MODULE Handles -------------------------------
(***************************************************************************)
(* include/jast/handle.h: the handles that hold every tree, value and      *)
(* object of the program.  A handle is a local variable or a member of an  *)
(* object; an object counts the handles that refer to it and is deleted,   *)
(* with its members, when one of them finds it was the last.               *)
(*                                                                         *)
(* A call is made when none is active and runs in the steps of the C++     *)
(* code; stack has its frames, the running one last.  The destructor of an *)
(* object clears its members in the reverse order of their declaration,    *)
(* which may delete further objects.                                       *)
(***************************************************************************)
EXTENDS Integers, Sequences, FiniteSets

CONSTANTS
  Objects,   \* what new can return
  Locals,    \* the local handles of the program
  Slots,     \* Slots[o] : the number of handles that are members of object o
  Temp,      \* the handle that MakeHandle, cast and a conversion return
  Null       \* nullptr

Member(o) == {<<o, k>> : k \in 1..Slots[o]}
Members(os) == UNION {Member(o) : o \in os}
Roots == Locals \cup {Temp}
Places == Roots \cup Members(Objects)

ASSUME SlotsOK == Slots \in [Objects -> Nat]
ASSUME NullOK == Null \notin Objects
ASSUME PlacesApart == Temp \notin Locals /\ Roots \cap Members(Objects) = {}
ASSUME SizesOK == IsFiniteSet(Objects) /\ IsFiniteSet(Locals)

VARIABLES
  live,     \* the objects that are allocated
  count,    \* reference_count_
  held,     \* ptr_
  stack,    \* the calls that are active
  fault,    \* freed memory has been used: anything may follow
  before    \* auxiliary: live and held when the call was made

vars == <<live, count, held, stack, fault, before>>

Frame ==
  [op : {"clear", "forget"}, at : Places] \cup [op : {"take"}, at : Places, from : Places]
    \cup [op : {"destroy"}, obj : Objects, left : Nat]

Clear(p) == [op |-> "clear", at |-> p]             \* clear() begins
Forget(p) == [op |-> "forget", at |-> p]           \* clear() behind its delete
Take(p, q) == [op |-> "take", at |-> p, from |-> q] \* operator= behind its clear()
Destroy(o, k) == [op |-> "destroy", obj |-> o, left |-> k]  \* members 1..k are left

\* The handles that there are: those of objects that have been freed are gone.
Exist(p) == p \in Roots \cup Members(live)

Top == stack[Len(stack)]
Rest == SubSeq(stack, 1, Len(stack) - 1)
Dying == {stack[i].obj : i \in {i \in DOMAIN stack : stack[i].op = "destroy"}}

Init ==
  /\ live = {}
  /\ count = [o \in Objects |-> 0]
  /\ held = [p \in Places |-> Null]
  /\ stack = << >>
  /\ fault = FALSE
  /\ before = [live |-> live, held |-> held]

-------------------------------------------------------------------------------
\* The handles that the program can name: its locals, and the members of the objects
\* it gets to from them.
FollowsHandles(os) == \A p \in Locals \cup Members(os) : held[p] \in os \cup {Null}
Reachable == {o \in live : \A os \in SUBSET live : FollowsHandles(os) => o \in os}
Named == Locals \cup Members(Reachable)

Idle == stack = << >> /\ ~fault

\* What a call that is made does: p is cleared, then it takes from q, then a
\* temporary is cleared.
Called(frames) ==
  /\ stack' = frames
  /\ before' = [live |-> live, held |-> held]
  /\ UNCHANGED fault

\* Ref(T *): the temporary refers to o, and o counts it.
Adopted(o) ==
  /\ held' = [held EXCEPT ![Temp] = o]
  /\ count' = IF o = Null THEN count ELSE [count EXCEPT ![o] = @ + 1]

\* p = MakeHandle<T>()
New(p, o) ==
  /\ Idle /\ p \in Named /\ o \notin live
  /\ live' = live \cup {o}
  /\ held' = [held EXCEPT ![Temp] = o]
  /\ count' = [count EXCEPT ![o] = 1]
  /\ Called(<<Clear(Temp), Take(p, Temp), Clear(p)>>)

\* p = cast<T>(q), or q converted to another kind of handle: dynamic_cast gives the
\* object or nothing.
Convert(p, q) ==
  /\ Idle /\ {p, q} \subseteq Named
  /\ \E o \in {held[q], Null} : Adopted(o)
  /\ Called(<<Clear(Temp), Take(p, Temp), Clear(p)>>)
  /\ UNCHANGED live

\* p = q
Assign(p, q) ==
  /\ Idle /\ {p, q} \subseteq Named
  /\ Called(<<Take(p, q), Clear(p)>>)
  /\ UNCHANGED <<live, count, held>>

\* p.clear(), or the end of the scope of p
Empty(p) ==
  /\ Idle /\ p \in Named
  /\ Called(<<Clear(p)>>)
  /\ UNCHANGED <<live, count, held>>

-------------------------------------------------------------------------------
Running(op) == stack # << >> /\ ~fault /\ Top.op = op

ClearNothing ==
  /\ Running("clear") /\ Exist(Top.at) /\ held[Top.at] = Null
  /\ stack' = Rest
  /\ UNCHANGED <<live, count, held, fault, before>>

\* decrement(), and the object is not the last one's.
Release ==
  /\ Running("clear") /\ Exist(Top.at) /\ held[Top.at] \in live \ Dying
  /\ count[held[Top.at]] > 1
  /\ count' = [count EXCEPT ![held[Top.at]] = @ - 1]
  /\ held' = [held EXCEPT ![Top.at] = Null]
  /\ stack' = Rest
  /\ UNCHANGED <<live, fault, before>>

\* decrement(), then delete: the handle keeps pointing at the object meanwhile.
ReleaseLast_Keeps ==   \* mutant: the last handle does not delete
  /\ Running("clear") /\ Exist(Top.at) /\ held[Top.at] \in live \ Dying
  /\ count[held[Top.at]] <= 1
  /\ count' = [count EXCEPT ![held[Top.at]] = @ - 1]
  /\ held' = [held EXCEPT ![Top.at] = Null]
  /\ stack' = Rest
  /\ UNCHANGED <<live, fault, before>>
ReleaseLast ==
  /\ Running("clear") /\ Exist(Top.at) /\ held[Top.at] \in live \ Dying
  /\ count[held[Top.at]] <= 1
  /\ count' = [count EXCEPT ![held[Top.at]] = @ - 1]
  /\ stack' = Rest \o <<Forget(Top.at), Destroy(held[Top.at], Slots[held[Top.at]])>>
  /\ UNCHANGED <<live, held, fault, before>>

\* The destructor of the next member, the last one first.
DestroyMember_Again ==   \* mutant: the same member over and over
  /\ Running("destroy") /\ Top.left > 0
  /\ stack' = stack \o <<Clear(<<Top.obj, Top.left>>)>>
  /\ UNCHANGED <<live, count, held, fault, before>>
DestroyMember ==
  /\ Running("destroy") /\ Top.left > 0
  /\ stack' = Rest \o <<Destroy(Top.obj, Top.left - 1), Clear(<<Top.obj, Top.left>>)>>
  /\ UNCHANGED <<live, count, held, fault, before>>

Free ==
  /\ Running("destroy") /\ Top.left = 0
  /\ live' = live \ {Top.obj}
  /\ stack' = Rest
  /\ UNCHANGED <<count, held, fault, before>>

\* ptr_ = nullptr, which the deleted object must not have taken with it.
ForgetDeleted ==
  /\ Running("forget") /\ Exist(Top.at)
  /\ held' = [held EXCEPT ![Top.at] = Null]
  /\ stack' = Rest
  /\ UNCHANGED <<live, count, fault, before>>

\* ptr_ = ref.ptr_, and the object counts the handle.
TakeOver_Uncounted ==   \* mutant: the copy is not counted
  /\ Running("take") /\ Exist(Top.at) /\ Exist(Top.from)
  /\ held' = [held EXCEPT ![Top.at] = held[Top.from]]
  /\ stack' = Rest
  /\ UNCHANGED <<live, count, fault, before>>
TakeOver ==
  /\ Running("take") /\ Exist(Top.at) /\ Exist(Top.from)
  /\ held' = [held EXCEPT ![Top.at] = held[Top.from]]
  /\ count' = IF held[Top.from] = Null THEN count
              ELSE [count EXCEPT ![held[Top.from]] = @ + 1]
  /\ stack' = Rest
  /\ UNCHANGED <<live, fault, before>>

\* A handle is used that was freed with its object, an object is used that was
\* freed, or one is deleted that is being deleted.
Misuse ==
  CASE Top.op = "clear" ->
         ~Exist(Top.at) \/ held[Top.at] \notin (live \ Dying) \cup {Null}
    [] Top.op = "forget" -> ~Exist(Top.at)
    [] Top.op = "take" -> ~(Exist(Top.at) /\ Exist(Top.from))
    [] OTHER -> FALSE
Faults ==
  /\ stack # << >> /\ ~fault /\ Misuse
  /\ fault' = TRUE
  /\ UNCHANGED <<live, count, held, stack, before>>

Step ==
  \/ ClearNothing \/ Release \/ ReleaseLast \/ DestroyMember \/ Free
  \/ ForgetDeleted \/ TakeOver \/ Faults

Next ==
  \/ \E p \in Locals \cup Members(live) :
       \/ Empty(p)
       \/ \E o \in Objects : New(p, o)
       \/ \E q \in Locals \cup Members(live) : Convert(p, q) \/ Assign(p, q)
  \/ Step

Spec == Init /\ [][Next]_vars
FairSpec == Spec /\ WF_vars(Step)   \* a call goes on

-------------------------------------------------------------------------------
TypeOK ==
  /\ live \subseteq Objects
  /\ count \in [Objects -> Int]
  /\ held \in [Places -> Objects \cup {Null}]
  /\ stack \in Seq(Frame)
  /\ fault \in BOOLEAN

\* The handles that refer to o, without those that are just about to be emptied.
Forgotten == {stack[i].at : i \in {i \in DOMAIN stack : stack[i].op = "forget"}}
Holders(o) == {p \in (Roots \cup Members(live)) \ Forgotten : held[p] = o}

\* In every step of every call, an object counts the handles that refer to it, and
\* no handle refers to an object that is gone (handle.h:43-104): so no handle ever
\* deletes an object that another one uses, and the last one always does.
CountIsHandles ==
  ~fault => \A o \in Objects : IF o \in live THEN count[o] = Cardinality(Holders(o))
                                             ELSE Holders(o) = {}

\* The objects, and what the handles refer to, as the last call that is over left
\* them.
Alive == IF Idle THEN live ELSE before.live
Target == [p \in Places \ {Temp} |-> IF Idle THEN held[p] ELSE before.held[p]]

\* Between calls, the objects and handles are those of ObjectGraph: a call changes
\* them all at once.  This says what is copied, which objects are gone with the
\* last handle, that the others stay, and exactly when an assignment reads a handle
\* that its own clear() has freed.
Graph == INSTANCE ObjectGraph WITH alive <- Alive, target <- Target

ImplementsGraph == Graph!Spec

\* Every call comes to an end, however many objects it deletes.
CallsReturn == []<>(stack = << >> \/ fault)
===============================================================================
