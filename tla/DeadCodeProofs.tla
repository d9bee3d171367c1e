------------------------------ MODULE DeadCodeProofs ---------------------------
(***************************************************************************)
(* Proofs about DeadCode for every list of programs that are well linked:  *)
(* the user lists, shuffled as they are, keep the pass from taking away a  *)
(* value that is read, and what it leaves is what the program as it was    *)
(* given reads or needs.                                                   *)
(***************************************************************************)
EXTENDS DeadCode, FiniteSetTheorems, FunctionTheorems, SequenceTheorems, TLAPS

IInv ==
  /\ TypeOK
  /\ \A b \in DOMAIN code : IsSequence(code[b])
  /\ \A v \in DOMAIN users : IsSequence(users[v])
  /\ IdsDiffer(code)
  /\ NothingDangles
  /\ LiveUsersAreListed

-------------------------------------------------------------------------------
LEMMA SequenceFacts ==
  ASSUME NEW s, IsSequence(s)
  PROVE  Len(s) \in Nat /\ DOMAIN s = 1..Len(s)
  BY DEF IsSequence

LEMMA FunctionIsSequence ==
  ASSUME NEW m \in Nat, NEW t, DOMAIN t = 1..m, t = [k \in 1..m |-> t[k]]
  PROVE  IsSequence(t) /\ Len(t) = m
<1> DEFINE T == {t[k] : k \in DOMAIN t}
<1>1. t \in [1..m -> T]
  OBVIOUS
<1> HIDE DEF T
<1>2. t \in Seq(T) /\ Len(t) = m
  BY <1>1
<1> QED
  BY <1>2 DEF IsSequence, T

\* Two different places that are not the user's have different numbers of others
\* up to them.
LEMMA OthersCounts ==
  ASSUME NEW list, IsSequence(list), NEW user,
         NEW p \in DOMAIN list, list[p] # user
  PROVE  /\ Others(list, user, p) \in 1..p
         /\ Others(list, user, p) <= Others(list, user, Len(list))
         /\ \A q \in DOMAIN list :
              list[q] # user /\ Others(list, user, q) = Others(list, user, p) => q = p
<1> DEFINE S(n) == {j \in 1..n : list[j] # user}
<1>1. Len(list) \in Nat /\ DOMAIN list = 1..Len(list)
  BY SequenceFacts
<1>2. ASSUME NEW n \in Nat
      PROVE  IsFiniteSet(S(n)) /\ Cardinality(S(n)) \in 0..n
  <2>1. IsFiniteSet(1..n) /\ Cardinality(1..n) = n
    BY FS_Interval
  <2>2. S(n) \subseteq 1..n
    OBVIOUS
  <2> HIDE DEF S
  <2> QED
    BY <2>1, <2>2, FS_Subset, FS_CardinalityType
<1>3. ASSUME NEW q \in 1..Len(list), NEW r \in 1..Len(list), q <= r,
             list[r] # user, Others(list, user, q) = Others(list, user, r)
      PROVE  q = r
  <2>1. S(q) \subseteq S(r) /\ r \in S(r)
    BY <1>1, <1>3
  <2>2. Cardinality(S(q)) = Cardinality(S(r))
    BY <1>3 DEF Others
  <2>3. S(q) = S(r)
    <3>1. r \in Nat
      BY <1>1
    <3> HIDE DEF S
    <3>2. IsFiniteSet(S(r))
      BY <1>2, <3>1
    <3> QED
      BY <2>1, <2>2, <3>2, FS_Subset
  <2>4. r \in 1..q
    BY <2>1, <2>3
  <2> QED
    BY <1>1, <1>3, <2>4
<1>4. Others(list, user, p) \in 1..p
  <2>1. p \in S(p) /\ p \in Nat
    BY <1>1
  <2>2. Cardinality(S(p)) # 0 /\ Cardinality(S(p)) \in 0..p
    <3> HIDE DEF S
    <3> QED
      BY <1>2, <2>1, FS_EmptySet
  <2> QED
    BY <2>1, <2>2 DEF Others
<1>5. Others(list, user, p) <= Others(list, user, Len(list))
  <2>1. S(p) \subseteq S(Len(list))
    BY <1>1
  <2>2. Cardinality(S(p)) <= Cardinality(S(Len(list)))
    <3> HIDE DEF S
    <3>1. IsFiniteSet(S(Len(list)))
      BY <1>1, <1>2
    <3> QED
      BY <2>1, <3>1, FS_Subset
  <2> QED
    BY <2>2 DEF Others
<1>6. ASSUME NEW q \in DOMAIN list, list[q] # user,
             Others(list, user, q) = Others(list, user, p)
      PROVE  q = p
  <2>1. CASE q <= p
    BY <1>1, <1>3, <1>6, <2>1
  <2>2. CASE p <= q
    BY <1>1, <1>3, <1>6, <2>2
  <2> QED
    BY <1>1, <2>1, <2>2
<1> QED
  BY <1>4, <1>5, <1>6

\* Removing a user leaves every other user in the list.
LEMMA OtherUsersStay ==
  ASSUME NEW list, IsSequence(list), NEW user
  PROVE  /\ IsSequence(WithoutUser(list, user))
         /\ \A p \in DOMAIN list : list[p] # user =>
              \E n \in DOMAIN WithoutUser(list, user) :
                WithoutUser(list, user)[n] = list[p]
<1> DEFINE new == WithoutUser(list, user)
<1>1. Len(list) \in Nat /\ DOMAIN list = 1..Len(list)
  BY SequenceFacts
<1>2. DOMAIN new = 1..Len(list) /\ new = [k \in 1..Len(list) |-> new[k]]
  BY <1>1 DEF WithoutUser
<1>3. IsSequence(new)
  <2> HIDE DEF new
  <2> QED
    BY <1>1, <1>2, FunctionIsSequence
<1>4. ASSUME NEW p \in DOMAIN list, list[p] # user
      PROVE  \E n \in DOMAIN new : new[n] = list[p]
  <2> DEFINE n == Others(list, user, p)
  <2>1. /\ n \in 1..p /\ n <= Others(list, user, Len(list))
        /\ \A q \in DOMAIN list : list[q] # user /\ Others(list, user, q) = n => q = p
    BY <1>4, OthersCounts
  <2>2. n \in DOMAIN list
    BY <1>1, <2>1
  <2> HIDE DEF n
  <2>3. p = CHOOSE j \in DOMAIN list : list[j] # user /\ Others(list, user, j) = n
    BY <1>4, <2>1 DEF n
  <2>4. new[n] = list[p]
    BY <2>1, <2>2, <2>3 DEF WithoutUser, Other
  <2> QED
    BY <1>1, <1>2, <2>2, <2>4
<1> QED
  BY <1>3, <1>4

-------------------------------------------------------------------------------
\* Where an instruction that a removal leaves stood before.
Before(b, l) == IF b = block /\ l >= place THEN l + 1 ELSE l

LEMMA RemovalFacts ==
  ASSUME IInv, Remove
  PROVE  /\ block \in DOMAIN code /\ place \in DOMAIN code[block]
         /\ DOMAIN code' = DOMAIN code /\ \A b \in DOMAIN code : IsSequence(code'[b])
         /\ Len(code'[block]) = Len(code[block]) - 1 /\ Len(code[block]) \in Nat
         /\ \A b \in DOMAIN code : \A l \in DOMAIN code'[b] :
              /\ Before(b, l) \in DOMAIN code[b]
              /\ code'[b][l] = code[b][Before(b, l)]
              /\ ~(b = block /\ Before(b, l) = place)
              /\ \A m \in DOMAIN code'[b] : Before(b, m) = Before(b, l) => m = l
         /\ \A b \in DOMAIN code : \A m \in DOMAIN code[b] :
              ~(b = block /\ m = place) => \E l \in DOMAIN code'[b] : Before(b, l) = m
<1>1. /\ block \in DOMAIN code /\ place \in 1..Len(code[block])
      /\ Len(code[block]) \in Nat /\ DOMAIN code[block] = 1..Len(code[block])
  BY SequenceFacts DEF IInv, TypeOK, Remove
<1>2. /\ DOMAIN code' = DOMAIN code /\ code'[block] = Erased
      /\ \A b \in DOMAIN code : b # block => code'[b] = code[b]
  BY <1>1 DEF Remove
<1>3. IsSequence(Erased) /\ Len(Erased) = Len(code[block]) - 1
      /\ DOMAIN Erased = 1..(Len(code[block]) - 1)
  <2>1. /\ DOMAIN Erased = 1..(Len(code[block]) - 1)
        /\ Erased = [l \in 1..(Len(code[block]) - 1) |-> Erased[l]]
    BY DEF Erased
  <2>2. Len(code[block]) - 1 \in Nat
    BY <1>1
  <2> QED
    BY <2>1, <2>2, FunctionIsSequence
<1>4. ASSUME NEW b \in DOMAIN code
      PROVE  IsSequence(code'[b]) /\ Len(code'[b]) \in Nat
             /\ DOMAIN code'[b] = 1..Len(code'[b])
  <2>1. IsSequence(code'[b])
    BY <1>2, <1>3 DEF IInv
  <2> QED
    BY <2>1, SequenceFacts
<1>5. ASSUME NEW b \in DOMAIN code, NEW l \in DOMAIN code'[b]
      PROVE  /\ Before(b, l) \in DOMAIN code[b]
             /\ code'[b][l] = code[b][Before(b, l)]
             /\ ~(b = block /\ Before(b, l) = place)
             /\ \A m \in DOMAIN code'[b] : Before(b, m) = Before(b, l) => m = l
  <2>1. CASE b = block
    BY <1>1, <1>2, <1>3, <2>1 DEF Erased, Before
  <2>2. CASE b # block
    BY <1>2, <2>2 DEF Before
  <2> QED
    BY <2>1, <2>2
<1>6. ASSUME NEW b \in DOMAIN code, NEW m \in DOMAIN code[b], ~(b = block /\ m = place)
      PROVE  \E l \in DOMAIN code'[b] : Before(b, l) = m
  <2>1. CASE b # block
    BY <1>2, <2>1 DEF Before
  <2>2. CASE b = block /\ m < place
    <3>1. m \in DOMAIN code'[b] /\ Before(b, m) = m
      BY <1>1, <1>2, <1>3, <2>2 DEF Before
    <3> QED
      BY <3>1
  <2>3. CASE b = block /\ m > place
    <3>1. m - 1 \in DOMAIN code'[b] /\ Before(b, m - 1) = m
      BY <1>1, <1>2, <1>3, <2>3 DEF Before
    <3> QED
      BY <3>1
  <2> QED
    BY <1>1, <1>6, <2>1, <2>2, <2>3
<1> QED
  BY <1>1, <1>2, <1>3, <1>4, <1>5, <1>6

\* Removing an instruction that has no users takes it from the lists of its
\* operands, leaves everything else in them, and leaves no reader without value.
LEMMA RemovePreservesIInv ==
  ASSUME IInv, Remove
  PROVE  IInv'
<1> DEFINE i == Instruction
<1>1. /\ UNCHANGED <<original, todo, block, place>> /\ block # NoBlock
      /\ users' = [v \in DOMAIN users |-> UsersWithout(i, v)]
      /\ users[i.id] = << >> /\ i = code[block][place]
  BY DEF Remove, Instruction
<1>2. TypeOK'
  BY <1>1, RemovalFacts DEF IInv, TypeOK
<1>3. \A b \in DOMAIN code' : IsSequence(code'[b])
  BY RemovalFacts
<1>4. ASSUME NEW v \in DOMAIN users
      PROVE  /\ IsSequence(users'[v])
             /\ \A n \in DOMAIN users[v] : users[v][n] # i.id =>
                  \E m \in DOMAIN users'[v] : users'[v][m] = users[v][n]
  <2> DEFINE once == WithoutUser(users[v], i.id)
             twice == WithoutUser(once, i.id)
  <2>1. users'[v] = users[v] \/ users'[v] = once \/ users'[v] = twice
    BY <1>1 DEF UsersWithout
  <2>2. /\ IsSequence(once)
        /\ \A n \in DOMAIN users[v] : users[v][n] # i.id =>
             \E m \in DOMAIN once : once[m] = users[v][n]
    BY OtherUsersStay DEF IInv
  <2> HIDE DEF once
  <2>3. /\ IsSequence(twice)
        /\ \A n \in DOMAIN once : once[n] # i.id =>
             \E m \in DOMAIN twice : twice[m] = once[n]
    BY <2>2, OtherUsersStay
  <2> HIDE DEF twice, i
  <2> QED
    BY <2>1, <2>2, <2>3 DEF IInv
<1>5. IdsDiffer(code')
  BY RemovalFacts DEF IInv, IdsDiffer
<1>6. \A b \in DOMAIN code : \A l \in DOMAIN code'[b] : code'[b][l].id # i.id
  BY <1>1, RemovalFacts DEF IInv, IdsDiffer
<1>7. DOMAIN users' = DOMAIN users
  BY <1>1
<1>8. UsersListed(code', users')
  <2> SUFFICES ASSUME NEW b \in DOMAIN code', NEW l \in DOMAIN code'[b],
                      NEW k \in DOMAIN code'[b][l].operands,
                      code'[b][l].operands[k].kind = "value"
               PROVE  LET v == code'[b][l].operands[k].id IN
                      /\ v \in DOMAIN users'
                      /\ \E n \in DOMAIN users'[v] : users'[v][n] = code'[b][l].id
    BY DEF UsersListed
  <2> DEFINE v == code'[b][l].operands[k].id
  <2>1. /\ b \in DOMAIN code /\ Before(b, l) \in DOMAIN code[b]
        /\ code'[b][l] = code[b][Before(b, l)]
    BY RemovalFacts
  <2>2. PICK n : v \in DOMAIN users /\ n \in DOMAIN users[v]
                 /\ users[v][n] = code'[b][l].id
    BY <2>1 DEF IInv, LiveUsersAreListed, UsersListed
  <2>3. users[v][n] # i.id
    BY <1>6, <2>1, <2>2
  <2> HIDE DEF v, i
  <2> QED
    BY <1>4, <1>7, <2>2, <2>3 DEF v
<1>9. ValuesComputed(code')
  <2> SUFFICES ASSUME NEW b \in DOMAIN code', NEW l \in DOMAIN code'[b],
                      NEW k \in DOMAIN code'[b][l].operands,
                      code'[b][l].operands[k].kind = "value"
               PROVE  \E c \in DOMAIN code' : \E m \in DOMAIN code'[c] :
                        code'[c][m].id = code'[b][l].operands[k].id
    BY DEF ValuesComputed
  <2> DEFINE v == code'[b][l].operands[k].id
  <2>1. /\ b \in DOMAIN code /\ Before(b, l) \in DOMAIN code[b]
        /\ code'[b][l] = code[b][Before(b, l)]
    BY RemovalFacts
  <2>2. v # i.id
    <3>1. \E n \in DOMAIN users[v] : TRUE
      BY <2>1 DEF IInv, LiveUsersAreListed, UsersListed
    <3> QED
      BY <1>1, <3>1
  <2>3. PICK c \in DOMAIN code : \E m \in DOMAIN code[c] : code[c][m].id = v
    BY <2>1 DEF IInv, NothingDangles, ValuesComputed
  <2>4. PICK m \in DOMAIN code[c] : code[c][m].id = v
    BY <2>3
  <2>5. ~(c = block /\ m = place)
    BY <1>1, <2>2, <2>4
  <2>6. PICK n \in DOMAIN code'[c] : Before(c, n) = m
    BY <2>5, RemovalFacts
  <2>7. code'[c][n].id = v /\ c \in DOMAIN code'
    BY <2>6, <2>4, RemovalFacts
  <2> QED
    BY <2>7
<1> QED
  BY <1>2, <1>3, <1>4, <1>5, <1>7, <1>8, <1>9 DEF IInv, NothingDangles, LiveUsersAreListed

LEMMA InitIInv == Init => IInv
<1> SUFFICES ASSUME Init PROVE IInv
  OBVIOUS
<1>1. WellLinked(original)
  BY ProgramsOK DEF Init
<1>2. code = original.code /\ users = original.users /\ block = NoBlock
      /\ todo \subseteq DOMAIN code
  BY DEF Init, Visited
<1> QED
  BY <1>1, <1>2 DEF IInv, TypeOK, WellLinked, NothingDangles, LiveUsersAreListed

LEMMA StepPreservesIInv == IInv /\ [Next]_vars => IInv'
<1> SUFFICES ASSUME IInv, [Next]_vars PROVE IInv'
  OBVIOUS
<1>1. ASSUME UNCHANGED <<original, code, users>>, TypeOK' PROVE IInv'
  BY <1>1 DEF IInv, NothingDangles, LiveUsersAreListed
<1>2. CASE Enter
  <2>1. block' \in DOMAIN code /\ place' = 1 /\ todo' \subseteq DOMAIN code
    BY <1>2 DEF Enter, IInv, TypeOK
  <2>2. Len(code[block']) \in Nat
    BY <2>1, SequenceFacts DEF IInv
  <2>3. UNCHANGED <<original, code, users>>
    BY <1>2 DEF Enter
  <2> QED
    BY <1>1, <2>1, <2>2, <2>3 DEF IInv, TypeOK
<1>3. CASE Keep
  <2>1. block \in DOMAIN code /\ place \in 1..Len(code[block])
    BY <1>3, SequenceFacts DEF Keep, IInv, TypeOK
  <2>2. Len(code[block]) \in Nat
    BY <2>1, SequenceFacts DEF IInv
  <2>3. UNCHANGED <<original, code, users, todo, block>> /\ place' = place + 1
    BY <1>3 DEF Keep
  <2> QED
    BY <1>1, <2>1, <2>2, <2>3 DEF IInv, TypeOK
<1>4. CASE Remove
  BY <1>4, RemovePreservesIInv
<1>5. CASE Leave
  BY <1>1, <1>5 DEF Leave, IInv, TypeOK
<1>6. CASE UNCHANGED vars
  BY <1>1, <1>6 DEF vars, IInv, TypeOK
<1> QED
  BY <1>2, <1>3, <1>4, <1>5, <1>6 DEF Next

THEOREM DeadCodeInvariant == Spec => []IInv
  BY InitIInv, StepPreservesIInv, PTL DEF Spec

\* For every program whose users are listed, at every moment of the pass: what is
\* still in the code reads only values that are still computed.
THEOREM EliminationLeavesNothingDangling == Spec => []NothingDangles
<1>1. IInv => NothingDangles
  BY DEF IInv
<1> QED
  BY <1>1, DeadCodeInvariant, PTL

\* However often remove_if has shuffled a user list without shortening it, the
\* instructions that are left are in the lists of the values that they read.
THEOREM ShuffledListsKeepUsers == Spec => []LiveUsersAreListed
<1>1. IInv => LiveUsersAreListed
  BY DEF IInv
<1> QED
  BY <1>1, DeadCodeInvariant, PTL

\* The iterator of the pass is on an instruction of its block or at the end.
THEOREM DeadCodeTypes == Spec => []TypeOK
<1>1. IInv => TypeOK
  BY DEF IInv
<1> QED
  BY <1>1, DeadCodeInvariant, PTL

-------------------------------------------------------------------------------
LEMMA FirstPlaces ==
  ASSUME NEW n \in Nat
  PROVE  IsFiniteSet(1..n) /\ Cardinality(1..n) = n
  BY FS_Interval

\* Counting the places up to one of them adds that one.
LEMMA AmongFacts ==
  ASSUME NEW m \in Nat, NEW S \in SUBSET (1..m)
  PROVE  /\ IsFiniteSet(S) /\ Cardinality(S) \in Nat
         /\ Among(S, m) = Cardinality(S)
         /\ \A k \in 0..m : Among(S, k) \in 0..k
         /\ \A k \in 1..m :
              Among(S, k) = IF k \in S THEN Among(S, k - 1) + 1 ELSE Among(S, k - 1)
         /\ \A j, k \in 0..m : j <= k => Among(S, j) <= Among(S, k)
<1>1. IsFiniteSet(S) /\ Cardinality(S) \in Nat
  <2>1. IsFiniteSet(1..m)
    BY FirstPlaces
  <2> QED
    BY <2>1, FS_Subset, FS_CardinalityType
<1>2. ASSUME NEW k \in 0..m
      PROVE  IsFiniteSet(S \cap 1..k) /\ Among(S, k) \in 0..k
  <2>1. IsFiniteSet(1..k) /\ Cardinality(1..k) = k
    BY FirstPlaces
  <2> QED
    BY <2>1, FS_Subset, FS_CardinalityType DEF Among
<1>3. Among(S, m) = Cardinality(S)
  <2>1. S \cap 1..m = S
    OBVIOUS
  <2> QED
    BY <2>1 DEF Among
<1>4. ASSUME NEW k \in 1..m
      PROVE  Among(S, k) = IF k \in S THEN Among(S, k - 1) + 1 ELSE Among(S, k - 1)
  <2>1. k - 1 \in 0..m /\ k \notin S \cap 1..(k - 1)
    OBVIOUS
  <2>2. CASE k \in S
    <3>1. S \cap 1..k = (S \cap 1..(k - 1)) \cup {k}
      BY <2>2
    <3> QED
      BY <1>2, <2>1, <2>2, <3>1, FS_AddElement DEF Among
  <2>3. CASE k \notin S
    <3>1. S \cap 1..k = S \cap 1..(k - 1)
      BY <2>3
    <3> QED
      BY <2>3, <3>1 DEF Among
  <2> QED
    BY <2>2, <2>3
<1>5. ASSUME NEW j \in 0..m, NEW k \in 0..m, j <= k
      PROVE  Among(S, j) <= Among(S, k)
  <2>1. S \cap 1..j \subseteq S \cap 1..k
    BY <1>5
  <2> QED
    BY <1>2, <2>1, FS_Subset DEF Among
<1> QED
  BY <1>1, <1>2, <1>3, <1>4, <1>5

\* The places are numbered without a gap in the order in which they stand.
LEMMA PlacesAreNumbered ==
  ASSUME NEW m \in Nat, NEW S \in SUBSET (1..m)
  PROVE  /\ \A j \in S : Among(S, j) \in 1..Cardinality(S)
         /\ \A j, k \in S : j < k => Among(S, j) < Among(S, k)
         /\ \A j, k \in S : Among(S, j) = Among(S, k) => j = k
         /\ \A n \in 1..Cardinality(S) : \E j \in S : Among(S, j) = n
<1>1. ASSUME NEW j \in S PROVE Among(S, j) \in 1..Cardinality(S)
  <2>1. j \in 1..m /\ j - 1 \in 0..m /\ m \in 0..m
    OBVIOUS
  <2>2. Among(S, j) = Among(S, j - 1) + 1 /\ Among(S, j - 1) \in 0..(j - 1)
    BY <2>1, AmongFacts
  <2>3. Among(S, j) <= Cardinality(S) /\ Cardinality(S) \in Nat
    BY <2>1, AmongFacts
  <2> QED
    BY <2>2, <2>3
<1>2. ASSUME NEW j \in S, NEW k \in S, j < k PROVE Among(S, j) < Among(S, k)
  <2>1. j \in 0..m /\ k \in 1..m /\ k - 1 \in 0..m /\ j <= k - 1
    BY <1>2
  <2>2. Among(S, k) = Among(S, k - 1) + 1 /\ Among(S, k - 1) \in 0..(k - 1)
    BY <2>1, AmongFacts
  <2>3. Among(S, j) <= Among(S, k - 1) /\ Among(S, j) \in 0..j
    BY <2>1, AmongFacts
  <2> QED
    BY <2>2, <2>3
<1>3. ASSUME NEW j \in S, NEW k \in S, Among(S, j) = Among(S, k) PROVE j = k
  <2>1. j \in 1..m /\ k \in 1..m /\ Among(S, j) \in Int
    BY <1>1
  <2> QED
    BY <1>2, <1>3, <2>1
<1>4. ASSUME NEW n \in 1..Cardinality(S) PROVE \E j \in S : Among(S, j) = n
  <2> DEFINE f == [j \in S |-> Among(S, j)]
             T == 1..Cardinality(S)
  <2>1. f \in Injection(S, T)
    BY <1>1, <1>3 DEF Injection, IsInjective
  <2>2. IsFiniteSet(T) /\ Cardinality(T) = Cardinality(S)
    BY AmongFacts, FirstPlaces
  <2>3. f \in Surjection(S, T)
    <3> HIDE DEF f, T
    <3> QED
      BY <2>1, <2>2, FS_Injection
  <2> QED
    BY <2>3 DEF Surjection
<1> QED
  BY <1>1, <1>2, <1>3, <1>4

LEMMA PickedFacts ==
  ASSUME NEW s, NEW m \in Nat, NEW S \in SUBSET (1..m)
  PROVE  /\ IsSequence(Picked(s, S)) /\ Len(Picked(s, S)) = Cardinality(S)
         /\ DOMAIN Picked(s, S) = 1..Cardinality(S)
         /\ \A j \in S : Picked(s, S)[Among(S, j)] = s[j]
<1>1. Cardinality(S) \in Nat
  BY AmongFacts
<1>2. /\ DOMAIN Picked(s, S) = 1..Cardinality(S)
      /\ Picked(s, S) = [k \in 1..Cardinality(S) |-> Picked(s, S)[k]]
  BY DEF Picked
<1>3. IsSequence(Picked(s, S)) /\ Len(Picked(s, S)) = Cardinality(S)
  BY <1>1, <1>2, FunctionIsSequence
<1>4. ASSUME NEW j \in S PROVE Picked(s, S)[Among(S, j)] = s[j]
  <2>1. /\ Among(S, j) \in 1..Cardinality(S)
        /\ \A k \in S : Among(S, k) = Among(S, j) => k = j
    BY PlacesAreNumbered
  <2>2. (CHOOSE k \in S : Among(S, k) = Among(S, j)) = j
    BY <2>1
  <2> QED
    BY <2>1, <2>2 DEF Picked
<1> QED
  BY <1>2, <1>3, <1>4

\* Picking all is the sequence itself.
LEMMA PickedAll ==
  ASSUME NEW s, IsSequence(s)
  PROVE  Picked(s, 1..Len(s)) = s
<1>1. Len(s) \in Nat /\ DOMAIN s = 1..Len(s)
  BY SequenceFacts
<1>2. s = [k \in 1..Len(s) |-> s[k]]
  BY <1>1 DEF IsSequence
<1> DEFINE S == 1..Len(s)
<1>3. IsFiniteSet(S) /\ Cardinality(S) = Len(s)
  BY <1>1, FirstPlaces
<1>4. ASSUME NEW k \in S PROVE Among(S, k) = k
  <2>1. S \cap 1..k = 1..k /\ k \in Nat
    BY <1>1
  <2> QED
    BY <2>1, FirstPlaces DEF Among
<1>5. ASSUME NEW k \in S PROVE Picked(s, S)[k] = s[k]
  <2>1. S \in SUBSET (1..Len(s)) /\ Among(S, k) = k
    BY <1>4
  <2> HIDE DEF S
  <2>2. Picked(s, S)[Among(S, k)] = s[k]
    BY <1>1, <2>1, PickedFacts
  <2> QED
    BY <2>1, <2>2
<1>6. Picked(s, S) = [k \in 1..Len(s) |-> Picked(s, S)[k]]
  BY <1>3 DEF Picked
<1> HIDE DEF S
<1>7. [k \in 1..Len(s) |-> Picked(s, S)[k]] = [k \in 1..Len(s) |-> s[k]]
  BY <1>5 DEF S
<1> QED
  BY <1>2, <1>6, <1>7 DEF S

\* Erasing the element that came from place c is picking without c.
LEMMA PickedWithout ==
  ASSUME NEW s, NEW m \in Nat, NEW S \in SUBSET (1..m), NEW c \in S
  PROVE  [l \in 1..(Len(Picked(s, S)) - 1) |->
            Picked(s, S)[IF l < Among(S, c) THEN l ELSE l + 1]] = Picked(s, S \ {c})
<1> DEFINE T == S \ {c}
           r == Among(S, c)
<1>1. T \in SUBSET (1..m) /\ c \in 1..m
  OBVIOUS
<1>2. Cardinality(S) \in Nat /\ Cardinality(T) = Cardinality(S) - 1
  BY AmongFacts, FS_RemoveElement
<1>3. ASSUME NEW j \in T
      PROVE  Among(T, j) = IF j < c THEN Among(S, j) ELSE Among(S, j) - 1
  <2>1. j \in 1..m /\ j # c /\ j \in 0..m
    BY <1>1
  <2>2. CASE j < c
    <3>1. T \cap 1..j = S \cap 1..j
      BY <1>1, <2>1, <2>2
    <3> QED
      BY <2>2, <3>1 DEF Among
  <2>3. CASE ~(j < c)
    <3>1. T \cap 1..j = (S \cap 1..j) \ {c} /\ c \in S \cap 1..j
      BY <1>1, <2>1, <2>3
    <3>2. IsFiniteSet(1..j)
      BY <2>1, FirstPlaces
    <3>3. IsFiniteSet(S \cap 1..j)
      BY <3>2, FS_Subset
    <3> QED
      BY <2>3, <3>1, <3>3, FS_RemoveElement DEF Among
  <2> QED
    BY <2>2, <2>3
<1>4. ASSUME NEW l \in 1..Cardinality(T)
      PROVE  Picked(s, S)[IF l < r THEN l ELSE l + 1] = Picked(s, T)[l]
  <2> HIDE DEF T
  <2>1. PICK j \in T : Among(T, j) = l
    BY <1>1, PlacesAreNumbered
  <2>2. j \in S /\ j # c /\ j \in 1..m
    BY <1>1, <2>1 DEF T
  <2>3. Picked(s, T)[l] = s[j] /\ Picked(s, S)[Among(S, j)] = s[j]
    <3>1. Picked(s, T)[Among(T, j)] = s[j]
      BY <1>1, <2>1, PickedFacts
    <3>2. Picked(s, S)[Among(S, j)] = s[j]
      BY <2>2, PickedFacts
    <3> QED
      BY <2>1, <3>1, <3>2
  <2>4. Among(S, j) \in Int /\ r \in Int
    <3>1. \A k \in S : Among(S, k) \in 1..Cardinality(S)
      BY PlacesAreNumbered
    <3> QED
      BY <2>2, <3>1
  <2>5. CASE j < c
    <3>1. Among(S, j) < r /\ Among(S, j) = l
      BY <1>3, <2>1, <2>2, <2>5, PlacesAreNumbered
    <3> QED
      BY <2>3, <3>1
  <2>6. CASE j > c
    <3>1. r < Among(S, j) /\ Among(S, j) = l + 1
      <4>1. r < Among(S, j)
        BY <2>2, <2>6, PlacesAreNumbered
      <4>2. l = Among(S, j) - 1
        BY <1>1, <1>3, <2>1, <2>2, <2>6
      <4> HIDE DEF r
      <4> QED
        BY <2>4, <4>1, <4>2
    <3> HIDE DEF r
    <3>2. ~(l < r)
      BY <2>4, <3>1
    <3> QED
      BY <2>3, <3>1, <3>2
  <2> QED
    BY <1>1, <2>2, <2>5, <2>6
<1>5. Len(Picked(s, S)) = Cardinality(S)
  BY PickedFacts
<1>6. Picked(s, T) = [l \in 1..Cardinality(T) |-> Picked(s, T)[l]]
  BY DEF Picked
<1> HIDE DEF T, r
<1>7. [l \in 1..Cardinality(T) |-> Picked(s, S)[IF l < r THEN l ELSE l + 1]]
        = [l \in 1..Cardinality(T) |-> Picked(s, T)[l]]
  BY <1>4
<1> QED
  BY <1>2, <1>5, <1>6, <1>7 DEF T, r

-------------------------------------------------------------------------------
\* The places of block b that are left when the loop has come to place c of it.
LeftAt(b, c) == (Staying(original, b) \cap 1..(c - 1)) \cup c..Len(original.code[b])

\* The loop has come to what stood at place c of block b.
IsAt(b, c) ==
  /\ code[b] = Picked(original.code[b], LeftAt(b, c))
  /\ place = Among(Staying(original, b), c - 1) + 1

\* User lists keep their length, blocks still to be visited are as they were, visited
\* ones have what stays, and the one in hand has what stays up to the place of the
\* loop and all from there on.
PInv ==
  /\ IInv
  /\ WellLinked(original)
  /\ code = [b \in DOMAIN original.code |-> code[b]]
  /\ \A v \in DOMAIN users : DOMAIN users[v] = DOMAIN original.users[v]
  /\ todo \subseteq Visited(original) /\ block \notin todo
  /\ \A b \in DOMAIN original.code :
       b \in todo \/ b \notin Visited(original) => code[b] = original.code[b]
  /\ \A b \in Visited(original) \ todo :
       b # block => code[b] = Picked(original.code[b], Staying(original, b))
  /\ block # NoBlock =>
       /\ block \in Visited(original)
       /\ \E c \in 1..(Len(original.code[block]) + 1) : IsAt(block, c)

\* A list that keeps its length tells whether the value had a reader at first.
LEMMA ListsTellReaders ==
  ASSUME PInv, NEW b \in DOMAIN original.code, NEW j \in DOMAIN original.code[b]
  PROVE  LET i == original.code[b][j] IN
         j \in Staying(original, b) <=> HasSideEffect(i) \/ users[i.id] # << >>
<1> DEFINE i == original.code[b][j]
<1>1. /\ WellLinked(original) /\ DOMAIN users = DOMAIN original.users
      /\ \A v \in DOMAIN users : IsSequence(users[v])
      /\ \A v \in DOMAIN users : DOMAIN users[v] = DOMAIN original.users[v]
  BY DEF PInv, IInv, TypeOK
<1>2. i.id \in DOMAIN users
  BY <1>1 DEF WellLinked
<1>3. users[i.id] = << >> <=> original.users[i.id] = << >>
  <2>1. IsSequence(users[i.id]) /\ IsSequence(original.users[i.id])
        /\ DOMAIN users[i.id] = DOMAIN original.users[i.id]
    BY <1>1, <1>2 DEF WellLinked
  <2>2. ASSUME NEW s, IsSequence(s) PROVE s = << >> <=> DOMAIN s = {}
    BY <2>2, EmptySeq DEF IsSequence
  <2> HIDE DEF i
  <2> QED
    BY <2>1, <2>2
<1>4. original.users[i.id] # << >> <=>
        \E c \in DOMAIN original.code : \E l \in DOMAIN original.code[c] :
          Reads(original.code[c][l], i.id)
  <2>1. UsersRead(original.code, original.users) /\ UsersListed(original.code, original.users)
    BY <1>1 DEF WellLinked
  <2>2. ASSUME NEW c \in DOMAIN original.code, NEW l \in DOMAIN original.code[c],
               Reads(original.code[c][l], i.id)
        PROVE  original.users[i.id] # << >>
    <3>1. \E n \in DOMAIN original.users[i.id] : TRUE
      BY <2>1, <2>2 DEF UsersListed, Reads
    <3> QED
      BY <3>1
  <2> QED
    BY <1>1, <1>2, <2>1, <2>2 DEF UsersRead
<1> QED
  BY <1>3, <1>4 DEF Staying

\* Where the loop is, in terms of the original block.
LEMMA CursorFacts ==
  ASSUME NEW b \in DOMAIN original.code, IsSequence(original.code[b]),
         NEW c \in 1..(Len(original.code[b]) + 1), IsAt(b, c)
  PROVE  /\ LeftAt(b, c) \subseteq 1..Len(original.code[b])
         /\ Len(original.code[b]) \in Nat
         /\ DOMAIN original.code[b] = 1..Len(original.code[b])
         /\ place \in Nat \ {0}
         /\ Len(code[b]) = Cardinality(LeftAt(b, c))
         /\ c <= Len(original.code[b]) =>
              /\ place <= Len(code[b])
              /\ c \in LeftAt(b, c) /\ Among(LeftAt(b, c), c) = place
              /\ code[b][place] = original.code[b][c]
         /\ c = Len(original.code[b]) + 1 =>
              LeftAt(b, c) = Staying(original, b) /\ ~(place <= Len(code[b]))
<1> DEFINE s == original.code[b]
           m == Len(s)
           S == Staying(original, b)
           L == LeftAt(b, c)
<1>1. m \in Nat /\ DOMAIN s = 1..m
  BY SequenceFacts
<1>2. S \in SUBSET (1..m) /\ L \in SUBSET (1..m) /\ c - 1 \in 0..m
  BY <1>1 DEF Staying, LeftAt
<1>3. Among(S, c - 1) \in 0..(c - 1) /\ place = Among(S, c - 1) + 1
  <2> HIDE DEF S, m
  <2> QED
    BY <1>1, <1>2, AmongFacts DEF IsAt, S
<1>4. Len(code[b]) = Cardinality(L)
  <2> HIDE DEF m, L
  <2>1. code[b] = Picked(s, L)
    BY DEF IsAt, L
  <2> HIDE DEF s
  <2> QED
    BY <1>1, <1>2, <2>1, PickedFacts
<1>5. ASSUME c <= m
      PROVE  /\ place <= Len(code[b])
             /\ c \in L /\ Among(L, c) = place /\ code[b][place] = s[c]
  <2>1. c \in L /\ c \in 1..m /\ L \cap 1..(c - 1) = S \cap 1..(c - 1)
    BY <1>1, <1>2, <1>5 DEF LeftAt
  <2>2. Among(L, c - 1) = Among(S, c - 1)
    BY <2>1 DEF Among
  <2> HIDE DEF L, S, m
  <2>3. Among(L, c) = Among(L, c - 1) + 1
    BY <1>1, <1>2, <2>1, AmongFacts
  <2>4. Among(L, c) = place
    BY <1>3, <2>2, <2>3
  <2>5. place \in 1..Cardinality(L) /\ Picked(s, L)[place] = s[c]
    <3>1. Among(L, c) \in 1..Cardinality(L)
      BY <1>1, <1>2, <2>1, PlacesAreNumbered
    <3>2. Picked(s, L)[Among(L, c)] = s[c]
      BY <1>1, <1>2, <2>1, PickedFacts
    <3> QED
      BY <2>4, <3>1, <3>2
  <2>6. code[b] = Picked(s, L)
    BY DEF IsAt, L
  <2>7. Cardinality(L) \in Nat
    BY <1>1, <1>2, AmongFacts
  <2> QED
    BY <1>4, <2>1, <2>4, <2>5, <2>6, <2>7
<1>6. ASSUME c = m + 1
      PROVE  L = S /\ ~(place <= Len(code[b]))
  <2>1. L = S
    BY <1>1, <1>2, <1>6 DEF LeftAt
  <2> HIDE DEF L, S, m
  <2>2. Among(S, m) = Cardinality(S) /\ Cardinality(S) \in Nat
    BY <1>1, <1>2, AmongFacts
  <2>3. place = Cardinality(S) + 1
    BY <1>1, <1>3, <1>6, <2>2
  <2> QED
    BY <1>4, <2>1, <2>2, <2>3
<1> QED
  BY <1>1, <1>2, <1>3, <1>4, <1>5, <1>6

\* One place further on.
LEMMA NextPlace ==
  ASSUME NEW b \in DOMAIN original.code, IsSequence(original.code[b]),
         NEW c \in 1..Len(original.code[b])
  PROVE  /\ c \in Staying(original, b) =>
              /\ LeftAt(b, c + 1) = LeftAt(b, c)
              /\ Among(Staying(original, b), c) = Among(Staying(original, b), c - 1) + 1
         /\ c \notin Staying(original, b) =>
              /\ LeftAt(b, c + 1) = LeftAt(b, c) \ {c}
              /\ Among(Staying(original, b), c) = Among(Staying(original, b), c - 1)
<1> DEFINE m == Len(original.code[b])
           S == Staying(original, b)
<1>1. m \in Nat /\ S \in SUBSET (1..m)
  BY SequenceFacts DEF Staying
<1>2. Among(S, c) = IF c \in S THEN Among(S, c - 1) + 1 ELSE Among(S, c - 1)
  <2> HIDE DEF S
  <2> QED
    BY <1>1, AmongFacts
<1>3. c + 1 - 1 = c
  BY <1>1
<1>4. LeftAt(b, c + 1) = IF c \in S THEN LeftAt(b, c) ELSE LeftAt(b, c) \ {c}
  <2> HIDE DEF S, m
  <2>1. LeftAt(b, c) = (S \cap 1..(c - 1)) \cup c..m
    BY DEF LeftAt, S, m
  <2>2. LeftAt(b, c + 1) = (S \cap 1..c) \cup (c + 1)..m
    BY <1>3 DEF LeftAt, S, m
  <2>3. c \in 1..m
    BY DEF m
  <2>4. CASE c \in S
    BY <1>1, <2>1, <2>2, <2>3, <2>4
  <2>5. CASE c \notin S
    <3>1. S \cap 1..c = S \cap 1..(c - 1) /\ c..m = {c} \cup (c + 1)..m
      BY <1>1, <2>3, <2>5
    <3>2. c \notin 1..(c - 1) /\ c \notin (c + 1)..m
      BY <1>1, <2>3
    <3> QED
      BY <2>1, <2>2, <2>5, <3>1, <3>2
  <2> QED
    BY <2>4, <2>5
<1> QED
  BY <1>2, <1>4

\* The block in hand and the place in it, at every step.
LEMMA InHand ==
  ASSUME PInv, block # NoBlock
  PROVE  /\ block \in DOMAIN original.code /\ block \in DOMAIN code
         /\ IsSequence(original.code[block])
         /\ \E c \in 1..(Len(original.code[block]) + 1) : IsAt(block, c)
         /\ \A c \in 1..(Len(original.code[block]) + 1) : IsAt(block, c) =>
              (place <= Len(code[block]) <=> c <= Len(original.code[block]))
<1>1. block \in DOMAIN original.code
  BY DEF PInv, Visited
<1>2. IsSequence(original.code[block])
  BY <1>1 DEF PInv, WellLinked
<1>3. \E c \in 1..(Len(original.code[block]) + 1) : IsAt(block, c)
  BY DEF PInv
<1>4. ASSUME NEW c \in 1..(Len(original.code[block]) + 1), IsAt(block, c)
      PROVE  place <= Len(code[block]) <=> c <= Len(original.code[block])
  <2>1. Len(original.code[block]) \in Nat
    BY <1>2, SequenceFacts
  <2>2. c <= Len(original.code[block]) \/ c = Len(original.code[block]) + 1
    BY <2>1
  <2>3. CASE c <= Len(original.code[block])
    BY <1>1, <1>2, <1>4, <2>3, CursorFacts
  <2>4. CASE c = Len(original.code[block]) + 1
    <3>1. ~(place <= Len(code[block]))
      BY <1>1, <1>2, <1>4, <2>4, CursorFacts
    <3> QED
      BY <2>1, <2>4, <3>1
  <2> QED
    BY <2>2, <2>3, <2>4
<1>5. DOMAIN code = DOMAIN original.code
  BY DEF PInv, IInv, TypeOK
<1> QED
  BY <1>1, <1>2, <1>3, <1>4, <1>5

LEMMA NoBlockIsNone == PInv => NoBlock \notin DOMAIN original.code
<1> SUFFICES ASSUME PInv PROVE 0 \notin DOMAIN original.code
  BY DEF NoBlock
<1>1. IsSequence(original.code)
  BY DEF PInv, WellLinked
<1>2. DOMAIN original.code = 1..Len(original.code) /\ Len(original.code) \in Nat
  BY <1>1, SequenceFacts
<1> QED
  BY <1>2

LEMMA InitPInv == Init => PInv
<1> SUFFICES ASSUME Init PROVE PInv
  OBVIOUS
<1>1. WellLinked(original) /\ IInv
  BY ProgramsOK, InitIInv DEF Init
<1>2. code = original.code /\ users = original.users /\ block = NoBlock
      /\ todo = Visited(original)
  BY DEF Init
<1>3. NoBlock \notin todo
  <2>1. IsSequence(original.code)
    BY <1>1 DEF WellLinked
  <2>2. DOMAIN original.code = 1..Len(original.code) /\ Len(original.code) \in Nat
    BY <2>1, SequenceFacts
  <2> QED
    BY <1>2, <2>2 DEF NoBlock, Visited
<1>4. code = [b \in DOMAIN original.code |-> code[b]]
  BY <1>1, <1>2 DEF WellLinked, IsSequence
<1> QED
  BY <1>1, <1>2, <1>3, <1>4 DEF PInv

LEMMA EnterPreservesPInv ==
  ASSUME PInv, Enter
  PROVE  PInv'
<1>1. /\ UNCHANGED <<original, code, users>> /\ place' = 1
      /\ block = NoBlock /\ block' \in todo /\ todo' = todo \ {block'}
  BY DEF Enter
<1>2. IInv'
  BY StepPreservesIInv DEF PInv, Next
<1>3. block' \in DOMAIN original.code /\ block' \in Visited(original)
  BY <1>1 DEF PInv, Visited
<1> DEFINE s == original.code[block']
<1>4. IsSequence(s) /\ Len(s) \in Nat /\ DOMAIN s = 1..Len(s)
  BY <1>3, SequenceFacts DEF PInv, WellLinked
<1>5. code[block'] = Picked(s, LeftAt(block', 1))
  <2>1. LeftAt(block', 1) = 1..Len(s)
    BY <1>4 DEF LeftAt
  <2>2. code[block'] = s
    BY <1>1, <1>3 DEF PInv
  <2> HIDE DEF s
  <2> QED
    BY <1>4, <2>1, <2>2, PickedAll
<1>6. Among(Staying(original, block'), 1 - 1) = 0
  <2>1. Staying(original, block') \in SUBSET (1..Len(s))
    BY <1>4 DEF Staying
  <2> HIDE DEF s
  <2>2. Among(Staying(original, block'), 0) \in 0..0
    BY <1>4, <2>1, AmongFacts
  <2> QED
    BY <2>2
<1>7. IsAt(block, 1)' /\ 1 \in 1..(Len(s) + 1)
  BY <1>1, <1>4, <1>5, <1>6 DEF IsAt, LeftAt
<1>8. ASSUME NEW b \in Visited(original) \ todo', b # block'
      PROVE  code[b] = Picked(original.code[b], Staying(original, b))
  <2>1. b \in Visited(original) \ todo /\ b # block
    BY <1>1, <1>8, NoBlockIsNone DEF Visited
  <2> QED
    BY <2>1 DEF PInv
<1> QED
  BY <1>1, <1>2, <1>3, <1>7, <1>8 DEF PInv

LEMMA KeepPreservesPInv ==
  ASSUME PInv, Keep
  PROVE  PInv'
<1>1. /\ UNCHANGED <<original, code, users, todo, block>> /\ place' = place + 1
      /\ block # NoBlock /\ place <= Len(code[block])
      /\ HasSideEffect(code[block][place]) \/ users[code[block][place].id] # << >>
  BY DEF Keep, Instruction
<1>2. IInv'
  BY StepPreservesIInv DEF PInv, Next
<1>3. block \in DOMAIN original.code /\ IsSequence(original.code[block])
  BY <1>1, InHand
<1>4. Len(original.code[block]) \in Nat
      /\ DOMAIN original.code[block] = 1..Len(original.code[block])
  BY <1>3, SequenceFacts
<1>5. PICK c \in 1..(Len(original.code[block]) + 1) : IsAt(block, c)
  BY <1>1, InHand
<1>6. c \in 1..Len(original.code[block])
  BY <1>1, <1>4, <1>5, InHand
<1>7. code[block][place] = original.code[block][c]
  BY <1>3, <1>5, <1>6, CursorFacts
<1>8. c \in Staying(original, block)
  BY <1>1, <1>3, <1>4, <1>6, <1>7, ListsTellReaders
<1>9. IsAt(block, c + 1)'
  <2>1. /\ LeftAt(block, c + 1) = LeftAt(block, c) /\ c + 1 - 1 = c
        /\ Among(Staying(original, block), c)
             = Among(Staying(original, block), c - 1) + 1
    BY <1>3, <1>6, <1>8, NextPlace
  <2>2. LeftAt(block, c + 1)' = LeftAt(block, c + 1)
    BY <1>1 DEF LeftAt
  <2>3. /\ code'[block'] = Picked(original'.code[block'], LeftAt(block, c + 1)')
        /\ place' = Among(Staying(original', block'), c + 1 - 1) + 1
    BY <1>1, <1>5, <2>1, <2>2 DEF IsAt
  <2> QED
    BY <2>3 DEF IsAt
<1>10. c + 1 \in 1..(Len(original.code[block]) + 1)
  BY <1>4, <1>6
<1> QED
  BY <1>1, <1>2, <1>9, <1>10 DEF PInv

LEMMA RemovePreservesPInv ==
  ASSUME PInv, Remove
  PROVE  PInv'
<1>1. /\ UNCHANGED <<original, todo, block, place>>
      /\ code' = [code EXCEPT ![block] = Erased]
      /\ users' = [v \in DOMAIN users |-> UsersWithout(Instruction, v)]
      /\ block # NoBlock /\ place <= Len(code[block])
      /\ ~HasSideEffect(code[block][place]) /\ users[code[block][place].id] = << >>
  BY DEF Remove, Instruction
<1>2. IInv'
  BY StepPreservesIInv DEF PInv, Next
<1>3. block \in DOMAIN original.code /\ block \in DOMAIN code
      /\ IsSequence(original.code[block])
  BY <1>1, InHand
<1>4. Len(original.code[block]) \in Nat
      /\ DOMAIN original.code[block] = 1..Len(original.code[block])
  BY <1>3, SequenceFacts
<1>5. PICK c \in 1..(Len(original.code[block]) + 1) : IsAt(block, c)
  BY <1>1, InHand
<1>6. c \in 1..Len(original.code[block])
  BY <1>1, <1>4, <1>5, InHand
<1>7. /\ code[block][place] = original.code[block][c]
      /\ c \in LeftAt(block, c) /\ Among(LeftAt(block, c), c) = place
      /\ LeftAt(block, c) \in SUBSET (1..Len(original.code[block]))
  BY <1>3, <1>5, <1>6, CursorFacts
<1>8. c \notin Staying(original, block)
  BY <1>1, <1>3, <1>4, <1>6, <1>7, ListsTellReaders
<1>9. Erased = Picked(original.code[block], LeftAt(block, c) \ {c})
  <2>1. code[block] = Picked(original.code[block], LeftAt(block, c))
    BY <1>5 DEF IsAt
  <2> DEFINE s == original.code[block]
             L == LeftAt(block, c)
  <2>2. Len(s) \in Nat /\ L \in SUBSET (1..Len(s)) /\ c \in L
    BY <1>4, <1>7
  <2>3. code[block] = Picked(s, L) /\ place = Among(L, c)
    BY <1>7, <2>1
  <2> HIDE DEF s, L
  <2>4. [l \in 1..(Len(Picked(s, L)) - 1) |->
          Picked(s, L)[IF l < Among(L, c) THEN l ELSE l + 1]] = Picked(s, L \ {c})
    BY <2>2, PickedWithout
  <2>5. Erased = Picked(s, L \ {c})
    BY <2>3, <2>4 DEF Erased
  <2> QED
    BY <2>5 DEF s, L
<1>10. code'[block] = Erased /\ \A b \in DOMAIN code : b # block => code'[b] = code[b]
  BY <1>1, <1>3
<1>11. IsAt(block, c + 1)'
  <2>1. /\ LeftAt(block, c + 1) = LeftAt(block, c) \ {c} /\ c + 1 - 1 = c
        /\ Among(Staying(original, block), c)
             = Among(Staying(original, block), c - 1)
    BY <1>3, <1>6, <1>8, NextPlace
  <2>2. LeftAt(block, c + 1)' = LeftAt(block, c + 1)
    BY <1>1 DEF LeftAt
  <2>3. /\ code'[block'] = Picked(original'.code[block'], LeftAt(block, c + 1)')
        /\ place' = Among(Staying(original', block'), c + 1 - 1) + 1
    BY <1>1, <1>5, <1>9, <1>10, <2>1, <2>2 DEF IsAt
  <2> QED
    BY <2>3 DEF IsAt
<1>12. c + 1 \in 1..(Len(original.code[block]) + 1)
  BY <1>4, <1>6
<1>13. code' = [b \in DOMAIN original.code |-> code'[b]]
  <2>1. DOMAIN code = DOMAIN original.code
    BY DEF PInv
  <2> QED
    BY <1>1, <2>1
<1>14. \A v \in DOMAIN users : DOMAIN users'[v] = DOMAIN users[v]
  BY <1>1 DEF UsersWithout, WithoutUser
<1>15. DOMAIN users' = DOMAIN users
  BY <1>1
<1>16. DOMAIN code = DOMAIN original.code /\ Visited(original) \subseteq DOMAIN code
  BY DEF PInv, Visited
<1>17. ASSUME NEW b \in DOMAIN original.code, b \in todo \/ b \notin Visited(original)
       PROVE  code'[b] = original.code[b]
  BY <1>1, <1>10, <1>16, <1>17 DEF PInv
<1>18. ASSUME NEW b \in Visited(original) \ todo, b # block
       PROVE  code'[b] = Picked(original.code[b], Staying(original, b))
  BY <1>10, <1>16, <1>18 DEF PInv
<1> QED
  BY <1>1, <1>2, <1>11, <1>12, <1>13, <1>14, <1>15, <1>17, <1>18 DEF PInv

LEMMA LeavePreservesPInv ==
  ASSUME PInv, Leave
  PROVE  PInv'
<1>1. /\ UNCHANGED <<original, code, users, todo, place>> /\ block' = NoBlock
      /\ block # NoBlock /\ ~(place <= Len(code[block]))
  <2>1. /\ UNCHANGED <<original, code, users, todo, place>> /\ block' = NoBlock
        /\ block # NoBlock /\ place > Len(code[block])
    BY DEF Leave
  <2>2. place \in Int /\ Len(code[block]) \in Nat
    BY <2>1, SequenceFacts DEF PInv, IInv, TypeOK
  <2> QED
    BY <2>1, <2>2
<1>2. IInv'
  BY StepPreservesIInv DEF PInv, Next
<1>3. block \in DOMAIN original.code /\ IsSequence(original.code[block])
  BY <1>1, InHand
<1>4. Len(original.code[block]) \in Nat
  BY <1>3, SequenceFacts
<1>5. PICK c \in 1..(Len(original.code[block]) + 1) : IsAt(block, c)
  BY <1>1, InHand
<1>6. c = Len(original.code[block]) + 1
  <2>1. ~(c <= Len(original.code[block]))
    BY <1>1, <1>5, InHand
  <2> QED
    BY <1>4, <2>1
<1>7. code[block] = Picked(original.code[block], Staying(original, block))
  BY <1>3, <1>5, <1>6, CursorFacts DEF IsAt
<1>8. NoBlock \notin todo
  BY NoBlockIsNone DEF PInv, Visited
<1> QED
  BY <1>1, <1>2, <1>7, <1>8 DEF PInv

LEMMA StepPreservesPInv == PInv /\ [Next]_vars => PInv'
<1> SUFFICES ASSUME PInv, [Next]_vars PROVE PInv'
  OBVIOUS
<1>1. CASE UNCHANGED vars
  <2>1. IInv'
    BY StepPreservesIInv DEF PInv
  <2> QED
    BY <1>1, <2>1 DEF vars, PInv, IsAt, LeftAt
<1> QED
  BY <1>1, EnterPreservesPInv, KeepPreservesPInv, RemovePreservesPInv,
     LeavePreservesPInv DEF Next

THEOREM EliminationInvariant == Spec => []PInv
  BY InitPInv, StepPreservesPInv, PTL DEF Spec

\* Whatever remove_if leaves behind in the lists, the pass ends with exactly the
\* instructions that have an effect or whose value some instruction of the program
\* that it was given reads, in their order, in every block that it visits, and with
\* the other blocks as they were.
THEOREM ExactlyTheUnreadGo == Spec => []RemovesTheUnread
<1>1. ASSUME PInv, todo = {}, block = NoBlock
      PROVE  code = Remaining(original)
  <2>1. \A b \in DOMAIN original.code : b # NoBlock
    BY <1>1, NoBlockIsNone
  <2>2. ASSUME NEW b \in DOMAIN original.code
        PROVE  code[b] = IF b \in Visited(original)
                         THEN Picked(original.code[b], Staying(original, b))
                         ELSE original.code[b]
    BY <1>1, <2>1 DEF PInv
  <2>3. code = [b \in DOMAIN original.code |-> code[b]]
    BY <1>1 DEF PInv
  <2> QED
    BY <2>2, <2>3 DEF Remaining
<1>2. PInv => RemovesTheUnread
  BY <1>1 DEF RemovesTheUnread
<1> QED
  BY <1>2, EliminationInvariant, PTL

-------------------------------------------------------------------------------
\* Fewer blocks to visit, or out of the block in hand, or less of it in front of the
\* iterator.
GetsOn ==
  \/ todo' \subseteq todo /\ todo' # todo
  \/ todo' = todo /\ block # NoBlock /\ block' = NoBlock
  \/ /\ todo' = todo /\ block' = block
     /\ Len(code'[block]) - place' < Len(code[block]) - place
     /\ Len(code'[block]) + 1 - place' \in Nat

\* Every turn of the loops gets on, a removal as much as a step of the iterator:
\* blocks to visit are finitely many, what is in front of the iterator is never less
\* than nothing, so that no behaviour goes on for ever (the safety half of Ends).
THEOREM LoopsGetOn == Spec => [][GetsOn]_vars
<1>1. ASSUME IInv, [Next]_vars PROVE [GetsOn]_vars
  <2>1. ASSUME block # NoBlock
        PROVE  /\ Len(code[block]) \in Nat /\ place \in 1..(Len(code[block]) + 1)
               /\ block \in DOMAIN code
    BY <1>1, <2>1, SequenceFacts DEF IInv, TypeOK
  <2>2. CASE Enter
    BY <2>2 DEF Enter, GetsOn
  <2>3. CASE Keep
    <3>1. /\ UNCHANGED <<code, todo, block>> /\ place' = place + 1
          /\ block # NoBlock /\ place <= Len(code[block])
      BY <2>3 DEF Keep
    <3> QED
      BY <2>1, <3>1 DEF GetsOn
  <2>4. CASE Remove
    <3>1. /\ UNCHANGED <<todo, block, place>> /\ block # NoBlock
          /\ place <= Len(code[block])
      BY <2>4 DEF Remove
    <3>2. Len(code'[block]) = Len(code[block]) - 1
      BY <1>1, <2>4, RemovalFacts
    <3> QED
      BY <2>1, <3>1, <3>2 DEF GetsOn
  <2>5. CASE Leave
    BY <2>5 DEF Leave, GetsOn
  <2> QED
    BY <1>1, <2>2, <2>3, <2>4, <2>5 DEF Next
<1> QED
  BY <1>1, DeadCodeInvariant, PTL DEF Spec
===============================================================================
