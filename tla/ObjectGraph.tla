------------------------------ MODULE ObjectGraph -----------------------------
(***************************************************************************)
(* What the handles of include/jast/handle.h are for: objects that refer   *)
(* to each other, where what is assigned takes effect at once and an       *)
(* object that nothing refers to any more is gone with it, and so on.      *)
(* Objects that refer to each other in a circle stay.                      *)
(*                                                                         *)
(* Assigning is not the usual one in two cases, which users of Ref must    *)
(* know: a handle assigned to itself is emptied, and the source must not   *)
(* lie in an object that goes with the old target.                         *)
(***************************************************************************)
EXTENDS Naturals

CONSTANTS
  Objects,   \* the objects that can be created
  Locals,    \* the handles outside all objects
  Slots,     \* Slots[o] : how many handles are members of object o
  Null       \* what an empty handle refers to

Member(o) == {<<o, k>> : k \in 1..Slots[o]}
Members(os) == UNION {Member(o) : o \in os}

VARIABLES
  alive,    \* the objects that exist
  target,   \* what each handle refers to
  fault     \* whether a handle has been read that was gone

vars == <<alive, target, fault>>

Init ==
  /\ alive = {}
  /\ target = [p \in Locals \cup Members(Objects) |-> Null]
  /\ fault = FALSE

-------------------------------------------------------------------------------
\* The objects that a program can get at, starting at its locals: those that are in
\* every set that contains what is referred to from a local and from the set.
FollowsHandles(os) == \A p \in Locals \cup Members(os) : target[p] \in os \cup {Null}
Reachable == {o \in alive : \A os \in SUBSET alive : FollowsHandles(os) => o \in os}
Handles == Locals \cup Members(Reachable)

\* What goes when p is emptied while something else refers to kept: what only p or
\* members of what goes refer to.
Unreferenced(o, p, os) == \A q \in Locals \cup Members(alive \ os) : target[q] = o => q = p
Doomed(p, kept) ==
  {o \in alive \ {kept} :
     \A os \in SUBSET alive :
       (\A x \in alive \ {kept} : Unreferenced(x, p, os) => x \in os) => o \in os}

Emptied(p, kept) ==
  [q \in DOMAIN target |->
    IF q = p \/ q \in Members(Doomed(p, kept)) THEN Null ELSE target[q]]

\* p refers to o, which something has kept in between, and no longer to what it did.
Redirect(p, o) ==
  /\ alive' = alive \ Doomed(p, o)
  /\ target' = [Emptied(p, o) EXCEPT ![p] = o]
  /\ UNCHANGED fault

New(p, o) ==
  /\ o \notin alive
  /\ alive' = (alive \ Doomed(p, Null)) \cup {o}
  /\ target' = [Emptied(p, Null) EXCEPT ![p] = o]
  /\ UNCHANGED fault

Empty(p) == Redirect(p, Null)

\* Through a temporary, which holds the object: any two handles will do.
Convert(p, q) == \E o \in {target[q], Null} : Redirect(p, o)

\* Directly.  The source must outlive what goes.
Assign(p, q) ==
  IF q \in Members(Doomed(p, Null))
    THEN fault' = TRUE /\ UNCHANGED <<alive, target>>
    ELSE /\ alive' = alive \ Doomed(p, Null)
         /\ target' = [Emptied(p, Null) EXCEPT ![p] = Emptied(p, Null)[q]]
         /\ UNCHANGED fault

Next ==
  /\ ~fault
  /\ \E p \in Handles :
       \/ Empty(p)
       \/ \E o \in Objects : New(p, o)
       \/ \E q \in Handles : Convert(p, q) \/ Assign(p, q)

Spec == Init /\ [][Next]_vars
===============================================================================
