-------------------------------- MODULE DeadCode ------------------------------
(***************************************************************************)
(* RedundantCodeEliminator::RunOn (redundant-code-elimination.h), one      *)
(* action per turn of its loops.  What it relies on is the user list of a  *)
(* value: an instruction without side effect goes when its list is empty.  *)
(*                                                                         *)
(* RemoveUser calls std::remove_if and drops its result, so a list keeps   *)
(* its length: the users that stay are moved forward and the old tail is   *)
(* left behind them.                                                       *)
(***************************************************************************)
EXTENDS IR

CONSTANT Programs   \* a sequence of programs, see IR

VARIABLES
  original,   \* auxiliary: the program that the pass was given
  code,       \* the code of the program now
  users,      \* user_list_ of every instruction now
  todo,       \* the blocks that the loops have still to visit
  block,      \* the block that is visited, or NoBlock
  place       \* the position of the loop's iterator in it

vars == <<original, code, users, todo, block, place>>

NoBlock == 0

ASSUME ProgramsOK ==
  LET programs == Programs IN
  \A p \in DOMAIN programs : WellLinked(programs[p])

Init ==
  /\ \E p \in DOMAIN Programs : original = Programs[p]
  /\ code = original.code
  /\ users = original.users
  /\ todo = Visited(original)
  /\ block = NoBlock
  /\ place = 1

\* The next block of some function.  (The map visits functions by name.)
Enter ==
  /\ block = NoBlock
  /\ \E b \in todo :
       /\ \A c \in todo : original.home[c] = original.home[b] => b <= c
       /\ block' = b
       /\ todo' = todo \ {b}
  /\ place' = 1
  /\ UNCHANGED <<original, code, users>>

Instruction == code[block][place]

Keep_Waits ==  \* mutant: the iterator is moved on only by a removal
  /\ block # NoBlock /\ place <= Len(code[block])
  /\ HasSideEffect(Instruction) \/ users[Instruction.id] # << >>
  /\ UNCHANGED vars
Keep ==
  /\ block # NoBlock /\ place <= Len(code[block])
  /\ HasSideEffect(Instruction) \/ users[Instruction.id] # << >>
  /\ place' = place + 1
  /\ UNCHANGED <<original, code, users, todo, block>>

\* How many of the first n of list are not the user.
Others(list, user, n) == Cardinality({j \in 1..n : list[j] # user})
\* The k-th of list that is not the user.
Other(list, user, k) ==
  list[CHOOSE j \in DOMAIN list : list[j] # user /\ Others(list, user, j) = k]

WithoutUser_Erases(list, user) ==  \* mutant: the list shrinks
  [k \in 1..Others(list, user, Len(list)) |-> Other(list, user, k)]
WithoutUser_Inverted(list, user) ==  \* mutant: the test is the wrong way round
  [k \in DOMAIN list |->
    IF k <= Len(list) - Others(list, user, Len(list)) THEN user ELSE list[k]]
\* RemoveUser: std::remove_if without erase.
WithoutUser(list, user) ==
  [k \in DOMAIN list |->
    IF k <= Others(list, user, Len(list)) THEN Other(list, user, k) ELSE list[k]]

\* What RemoveInstruction does to the list of v, once per use of v.  (What can be
\* removed has at most two operands.)
UsersWithout(i, v) ==
  LET uses == {k \in DOMAIN i.operands :
                 i.operands[k].kind = "value" /\ i.operands[k].id = v}
      once == WithoutUser(users[v], i.id) IN
  IF uses = {} THEN users[v]
  ELSE IF Cardinality(uses) = 1 THEN once ELSE WithoutUser(once, i.id)

\* The list of the block without the instruction at place.
Erased ==
  [l \in 1..(Len(code[block]) - 1) |-> code[block][IF l < place THEN l ELSE l + 1]]

Remove_Advances ==  \* mutant: moves on after a removal too
  /\ block # NoBlock /\ place <= Len(code[block])
  /\ ~HasSideEffect(Instruction) /\ users[Instruction.id] = << >>
  /\ code' = [code EXCEPT ![block] = Erased]
  /\ users' = [v \in DOMAIN users |-> UsersWithout(Instruction, v)]
  /\ place' = place + 1
  /\ UNCHANGED <<original, todo, block>>
Remove_Used ==  \* mutant: the user list is not asked
  /\ block # NoBlock /\ place <= Len(code[block])
  /\ ~HasSideEffect(Instruction)
  /\ code' = [code EXCEPT ![block] = Erased]
  /\ users' = [v \in DOMAIN users |-> UsersWithout(Instruction, v)]
  /\ UNCHANGED <<original, todo, block, place>>
Remove ==
  /\ block # NoBlock /\ place <= Len(code[block])
  /\ ~HasSideEffect(Instruction) /\ users[Instruction.id] = << >>
  /\ code' = [code EXCEPT ![block] = Erased]
  /\ users' = [v \in DOMAIN users |-> UsersWithout(Instruction, v)]
  /\ UNCHANGED <<original, todo, block, place>>

Leave ==
  /\ block # NoBlock /\ place > Len(code[block])
  /\ block' = NoBlock
  /\ UNCHANGED <<original, code, users, todo, place>>

Next == Enter \/ Keep \/ Remove \/ Leave

Spec == Init /\ [][Next]_vars
FairSpec == Spec /\ WF_vars(Next)

-------------------------------------------------------------------------------
TypeOK ==
  /\ DOMAIN code = DOMAIN original.code
  /\ DOMAIN users = DOMAIN original.users
  /\ todo \subseteq DOMAIN code
  /\ block \in DOMAIN code \cup {NoBlock}
  /\ block # NoBlock => place \in 1..(Len(code[block]) + 1)

\* Every value that the code reads is still computed somewhere in the code: no
\* instruction is taken away from under one that stays.
NothingDangles == ValuesComputed(code)

\* However the lists are shuffled, an instruction that is still there is in the
\* user list of every value it reads.
LiveUsersAreListed == UsersListed(code, users)

\* In the end exactly the values that nothing of the program ever read are gone.
\* A value whose only readers are gone stays: there is one pass, and user lists
\* do not shrink.
RemovesTheUnread ==
  todo = {} /\ block = NoBlock => code = Remaining(original)

\* The loops come to an end.
Ends == <>[](todo = {} /\ block = NoBlock)
===============================================================================
