-------------------------- MODULE TaskAttrsProofs --------------------------
(***************************************************************************)
(* What is proved of an attribute vector, for every number of tasks and of *)
(* types.  First facts about the operators of TaskAttrsOps: what           *)
(* setup_taskattrs, balance_mem_types and lower_utilization_by_attr do to  *)
(* the cached counts (SchedulerProofs uses them, too).  Then the machine   *)
(* of TaskAttrs: the counts stay exact, and max_type is the type of some   *)
(* task.  Its inductive invariant adds to the two that the vector is well  *)
(* formed and within the configured types.                                 *)
(***************************************************************************)
EXTENDS TaskAttrs, FiniteSetTheorems, WellFoundedInduction, TLAPS

USE NTasksAssumption, MaxAttrTypesAssumption

-----------------------------------------------------------------------------
(* Facts about numbers and finite sets                                     *)

\* A non-empty set of naturals has a least element.
LEMMA LeastExists ==
    ASSUME NEW T \in SUBSET Nat, T # {}
    PROVE  \E x \in T : \A y \in T : x <= y
<1>1. PICK x \in T : \A y \in T : ~ (<<y, x>> \in OpToRel(<, Nat))
  BY NatLessThanWellFounded, WFMin
<1>2. \A y \in T : ~ (y < x)
  BY <1>1 DEF OpToRel
<1> QED
  BY <1>2

\* A natural-valued function on a non-empty set is least somewhere.
LEMMA ArgMinExists ==
    ASSUME NEW S, S # {}, NEW f \in [S -> Nat]
    PROVE  \E s \in S : \A u \in S : f[s] <= f[u]
<1> DEFINE T == {f[s] : s \in S}
<1>1. T \in SUBSET Nat /\ T # {}
  OBVIOUS
<1>2. PICK x \in T : \A y \in T : x <= y
  BY <1>1, LeastExists
<1>3. PICK s \in S : f[s] = x
  BY <1>2
<1> QED
  BY <1>2, <1>3

\* Sets of tasks are finite and have at most NTasks elements.
LEMMA TaskSets ==
    ASSUME NEW A \in SUBSET Tasks
    PROVE  /\ IsFiniteSet(A)
           /\ Cardinality(A) \in Nat
           /\ Cardinality(A) <= NTasks
<1>1. IsFiniteSet(Tasks) /\ Cardinality(Tasks) = NTasks
  BY FS_Interval DEF Tasks
<1>2. IsFiniteSet(A) /\ Cardinality(A) <= NTasks
  BY <1>1, FS_Subset
<1> QED
  BY <1>2, FS_CardinalityType

LEMMA CountType ==
    ASSUME NEW attrs, NEW t
    PROVE  CountOf(attrs, t) \in 0..NTasks
<1>1. {i \in Tasks : attrs[i] = t} \in SUBSET Tasks
  OBVIOUS
<1> QED
  BY <1>1, TaskSets DEF CountOf

\* A task counts for its own type.
LEMMA CountPositive ==
    ASSUME NEW attrs, NEW i \in Tasks
    PROVE  CountOf(attrs, attrs[i]) > 0
<1> DEFINE A == {j \in Tasks : attrs[j] = attrs[i]}
<1>1. A \in SUBSET Tasks /\ A # {}
  OBVIOUS
<1>2. IsFiniteSet(A) /\ Cardinality(A) \in Nat
  BY <1>1, TaskSets
<1>3. Cardinality(A) # 0
  BY <1>1, <1>2, FS_EmptySet
<1> QED
  BY <1>2, <1>3 DEF CountOf

\* Retyping one task moves one unit of count.
LEMMA CountUpdate ==
    ASSUME NEW attrs \in Vectors, NEW i \in Tasks, NEW new \in AttrTypes, new # attrs[i]
    PROVE  LET after == [attrs EXCEPT ![i] = new]
           IN  /\ after \in Vectors
               /\ \A t \in AttrTypes :
                    CountOf(after, t) = IF t = new THEN CountOf(attrs, t) + 1
                                        ELSE IF t = attrs[i] THEN CountOf(attrs, t) - 1
                                        ELSE CountOf(attrs, t)
<1> DEFINE after == [attrs EXCEPT ![i] = new]
           A(t) == {j \in Tasks : attrs[j] = t}
           B(t) == {j \in Tasks : after[j] = t}
<1>1. after \in Vectors
  BY DEF Vectors
<1>2. ASSUME NEW t \in AttrTypes
      PROVE  CountOf(after, t) = IF t = new THEN CountOf(attrs, t) + 1
                                 ELSE IF t = attrs[i] THEN CountOf(attrs, t) - 1
                                 ELSE CountOf(attrs, t)
  <2>1. IsFiniteSet(A(t)) /\ Cardinality(A(t)) \in Nat
    <3>1. A(t) \in SUBSET Tasks
      OBVIOUS
    <3> QED
      BY <3>1, TaskSets
  <2>2. CASE t = new
    <3>1. B(t) = A(t) \cup {i} /\ i \notin A(t)
      BY <2>2 DEF Vectors
    <3>2. Cardinality(A(t) \cup {i}) = Cardinality(A(t)) + 1
      BY <2>1, <3>1, FS_AddElement
    <3> QED
      BY <2>2, <3>1, <3>2 DEF CountOf
  <2>3. CASE t = attrs[i]
    <3>1. B(t) = A(t) \ {i} /\ i \in A(t)
      BY <2>3 DEF Vectors
    <3>2. Cardinality(A(t) \ {i}) = Cardinality(A(t)) - 1
      BY <2>1, <3>1, FS_RemoveElement
    <3> QED
      BY <2>3, <3>1, <3>2 DEF CountOf
  <2>4. CASE t # new /\ t # attrs[i]
    <3>1. B(t) = A(t)
      BY <2>4 DEF Vectors
    <3> QED
      BY <2>4, <3>1 DEF CountOf
  <2> QED
    BY <2>2, <2>3, <2>4
<1> QED
  BY <1>1, <1>2

-----------------------------------------------------------------------------
(* The operations                                                          *)

\* setup_taskattrs finds a type, and one that some task has.
LEMMA FirstToPeakOK ==
    ASSUME NEW attrs \in Vectors
    PROVE  /\ FirstToPeak(attrs) \in AttrTypes
           /\ FirstToPeak(attrs) \in PeakTypes(attrs)
           /\ CountOf(attrs, FirstToPeak(attrs)) > 0
<1> DEFINE P == PeakTypes(attrs)
<1>1. P # {}
  <2> DEFINE f == [t \in AttrTypes |-> NTasks - CountOf(attrs, t)]
  <2>1. f \in [AttrTypes -> Nat]
    BY CountType
  <2>2. AttrTypes # {}
    BY DEF AttrTypes
  <2>3. PICK t \in AttrTypes : \A u \in AttrTypes : f[t] <= f[u]
    BY <2>1, <2>2, ArgMinExists
  <2>4. \A u \in AttrTypes : CountOf(attrs, u) <= CountOf(attrs, t)
    BY <2>3, CountType
  <2> QED
    BY <2>4 DEF PeakTypes
<1>2. \E t \in P : \A u \in P : SeenAfter(attrs, t) <= SeenAfter(attrs, u)
  <2> DEFINE f == [t \in P |-> SeenAfter(attrs, t)]
  <2>1. ASSUME NEW t PROVE SeenAfter(attrs, t) \in Nat
    <3>1. {i \in Tasks : \E j \in i..NTasks : attrs[j] = t} \in SUBSET Tasks
      OBVIOUS
    <3> QED
      BY <3>1, TaskSets DEF SeenAfter
  <2>2. f \in [P -> Nat]
    BY <2>1
  <2>3. \E t \in P : \A u \in P : f[t] <= f[u]
    BY <1>1, <2>2, ArgMinExists
  <2> QED
    BY <2>3
<1>3. FirstToPeak(attrs) \in P
  BY <1>2 DEF FirstToPeak
<1>4. P \subseteq AttrTypes
  BY DEF PeakTypes
<1>5. CountOf(attrs, FirstToPeak(attrs)) > 0
  <2>1. 1 \in Tasks /\ attrs[1] \in AttrTypes
    BY DEF Tasks, Vectors
  <2>2. CountOf(attrs, attrs[1]) <= CountOf(attrs, FirstToPeak(attrs))
    BY <1>3, <1>4, <2>1 DEF PeakTypes
  <2> QED
    BY <2>1, <2>2, CountPositive, CountType
<1> QED
  BY <1>3, <1>4, <1>5

\* The scan of balance_mem_types finds a task of the type when the index is below
\* the number of such tasks.
LEMMA NthOfTypeFound ==
    ASSUME NEW attrs \in Vectors, NEW t \in AttrTypes, NEW nth \in Nat,
           nth < CountOf(attrs, t)
    PROVE  NthOfType(attrs, t, nth) \in Tasks /\ attrs[NthOfType(attrs, t, nth)] = t
<1> DEFINE Upto(i) == {j \in 1..i : attrs[j] = t}
           \* the positions by which more than nth tasks of the type have been seen
           T == {i \in Tasks : Cardinality(Upto(i)) > nth}
           hits == {i \in Tasks : attrs[i] = t /\ Cardinality(Upto(i - 1)) = nth}
<1>1. ASSUME NEW i \in 0..NTasks
      PROVE  IsFiniteSet(Upto(i)) /\ Cardinality(Upto(i)) \in Nat
  <2>1. Upto(i) \in SUBSET Tasks
    BY DEF Tasks
  <2> QED
    BY <2>1, TaskSets
<1>2. NTasks \in T
  BY DEF CountOf, Tasks
<1>3. T \in SUBSET Nat /\ T # {}
  BY <1>2 DEF Tasks
<1>4. PICK i \in T : \A y \in T : i <= y
  BY <1>3, LeastExists
<1>5. i \in Tasks /\ i \in Nat /\ i >= 1 /\ i <= NTasks
  BY <1>4 DEF Tasks
<1>6. Cardinality(Upto(i - 1)) <= nth
  <2>1. CASE i = 1
    <3>1. Upto(i - 1) = {}
      BY <2>1
    <3> QED
      BY <3>1, FS_EmptySet
  <2>2. CASE i > 1
    <3>1. i - 1 \in Tasks /\ i - 1 \notin T
      BY <1>4, <1>5, <2>2 DEF Tasks
    <3>2. i - 1 \in 0..NTasks
      BY <3>1 DEF Tasks
    <3>3. Cardinality(Upto(i - 1)) \in Nat
      BY <1>1, <3>2
    <3>4. ~ (Cardinality(Upto(i - 1)) > nth)
      BY <3>1
    <3> HIDE DEF Upto
    <3> QED
      BY <3>3, <3>4
  <2> QED
    BY <1>5, <2>1, <2>2
<1>7. attrs[i] = t /\ Cardinality(Upto(i - 1)) = nth
  <2>1. Upto(i) = IF attrs[i] = t THEN Upto(i - 1) \cup {i} ELSE Upto(i - 1)
    BY <1>5
  <2>2. i \notin Upto(i - 1)
    BY <1>5
  <2>3. IsFiniteSet(Upto(i - 1)) /\ Cardinality(Upto(i - 1)) \in Nat
    BY <1>1, <1>5
  <2>4. Cardinality(Upto(i - 1) \cup {i}) = Cardinality(Upto(i - 1)) + 1
    BY <2>2, <2>3, FS_AddElement
  <2>5. Cardinality(Upto(i)) > nth
    BY <1>4
  <2> HIDE DEF Upto
  <2> QED
    BY <1>6, <2>1, <2>3, <2>4, <2>5
<1>8. i \in hits
  BY <1>5, <1>7
<1>9. NthOfType(attrs, t, nth) \in hits
  BY <1>8 DEF NthOfType
<1> QED
  BY <1>9

\* The vector is well formed, its counts are exact and max_type is populated.
Counted(v) ==
    /\ v \in TaskAttrsType
    /\ \A t \in AttrTypes : v.n_tasks_per_type[t] = CountOf(v.attrs, t)
    /\ v.n_tasks_per_type[v.max_type] > 0

\* setup_taskattrs establishes exact counts.
LEMMA SetupCounted ==
    ASSUME NEW attrs \in Vectors
    PROVE  Counted(SetupTaskattrs(attrs)) /\ SetupTaskattrs(attrs).attrs = attrs
<1>1. FirstToPeak(attrs) \in AttrTypes /\ CountOf(attrs, FirstToPeak(attrs)) > 0
  BY FirstToPeakOK
<1>2. [t \in AttrTypes |-> CountOf(attrs, t)] \in [AttrTypes -> Int]
  BY CountType
<1> QED
  BY <1>1, <1>2 DEF Counted, SetupTaskattrs, TaskAttrsType

\* w is v with task i retyped, and the cache updated the way balance_mem_types and
\* lower_utilization_by_attr do it.
Retyped(v, w, i, new) ==
    /\ i \in Tasks /\ new \in AttrTypes /\ new # v.attrs[i]
    /\ w \in TaskAttrsType
    /\ w.attrs = [v.attrs EXCEPT ![i] = new]
    /\ w.n_tasks_per_type = [v.n_tasks_per_type EXCEPT ![v.attrs[i]] = @ - 1, ![new] = @ + 1]
    /\ w.max_type = IF w.n_tasks_per_type[v.max_type] < w.n_tasks_per_type[new]
                    THEN new ELSE v.max_type

\* It keeps the counts exact and max_type populated.
LEMMA RetypeCounted ==
    ASSUME NEW v, Counted(v), NEW w, NEW i, NEW new, Retyped(v, w, i, new)
    PROVE  Counted(w)
<1> USE DEF Retyped
<1> DEFINE old == v.attrs[i]
           n == v.n_tasks_per_type
<1>1. /\ v.attrs \in Vectors /\ old \in AttrTypes /\ v.max_type \in AttrTypes
      /\ n \in [AttrTypes -> Int] /\ n[v.max_type] > 0
      /\ \A t \in AttrTypes : n[t] = CountOf(v.attrs, t)
  BY DEF Counted, TaskAttrsType, Vectors
<1>2. \A t \in AttrTypes :
        w.n_tasks_per_type[t] = IF t = new THEN n[t] + 1 ELSE IF t = old THEN n[t] - 1 ELSE n[t]
  BY <1>1
<1>3. \A t \in AttrTypes : w.n_tasks_per_type[t] = CountOf(w.attrs, t)
  BY <1>1, <1>2, CountUpdate
<1>4. n[new] >= 0 /\ n[new] \in Int /\ n[v.max_type] \in Int
  BY <1>1, CountType
<1>5. w.n_tasks_per_type[w.max_type] > 0
  <2>1. w.n_tasks_per_type[new] > 0
    BY <1>2, <1>4
  <2>2. CASE w.n_tasks_per_type[v.max_type] < w.n_tasks_per_type[new]
    BY <2>1, <2>2
  <2>3. CASE ~ (w.n_tasks_per_type[v.max_type] < w.n_tasks_per_type[new])
    <3>1. w.n_tasks_per_type[v.max_type] \in Int /\ w.n_tasks_per_type[new] \in Int
      BY <1>1 DEF TaskAttrsType
    <3> QED
      BY <2>1, <2>3, <3>1
  <2> QED
    BY <2>2, <2>3
<1> QED
  BY <1>3, <1>5 DEF Counted

\* The attributes stay within the configured types.
Within(v, ntypes) == \A i \in Tasks : v.attrs[i] < ntypes

\* balance_mem_types moves a task that exists.
LEMMA BalanceCounted ==
    ASSUME NEW v, Counted(v), NEW ntypes \in 1..MAX_ATTRTYPES,
           NEW w \in BalanceMemTypes(v, ntypes)
    PROVE  Counted(w) /\ (Within(v, ntypes) => Within(w, ntypes))
<1>1. /\ v.attrs \in Vectors /\ v.max_type \in AttrTypes
      /\ v.n_tasks_per_type \in [AttrTypes -> Int] /\ v.n_tasks_per_type[v.max_type] > 0
      /\ v.n_tasks_per_type[v.max_type] = CountOf(v.attrs, v.max_type)
  BY DEF Counted, TaskAttrsType
<1>2. PICK idx \in 0..(v.n_tasks_per_type[v.max_type] - 1), new \in 0..(ntypes - 1) \ {v.max_type} :
        w = RetypeMax(v, NthOfType(v.attrs, v.max_type, idx), new)
  BY <1>1 DEF BalanceMemTypes
<1> DEFINE i == NthOfType(v.attrs, v.max_type, idx)
<1>3. i \in Tasks /\ v.attrs[i] = v.max_type
  BY <1>1, NthOfTypeFound
<1>4. new \in AttrTypes /\ new # v.attrs[i] /\ new < ntypes
  BY <1>3 DEF AttrTypes
<1> HIDE DEF i
<1> DEFINE n == [v.n_tasks_per_type EXCEPT ![v.max_type] = @ - 1, ![new] = @ + 1]
<1>5. /\ w.attrs = [v.attrs EXCEPT ![i] = new]
      /\ w.n_tasks_per_type = n
      /\ w.max_type = IF n[v.max_type] < n[new] THEN new ELSE v.max_type
      /\ w = [attrs |-> w.attrs, n_tasks_per_type |-> w.n_tasks_per_type, max_type |-> w.max_type]
  BY <1>2 DEF RetypeMax, i
<1>6. w \in TaskAttrsType
  BY <1>1, <1>3, <1>4, <1>5 DEF TaskAttrsType, Vectors
<1>7. Retyped(v, w, i, new)
  BY <1>3, <1>4, <1>5, <1>6 DEF Retyped
<1>8. Within(v, ntypes) => Within(w, ntypes)
  BY <1>1, <1>3, <1>4, <1>5 DEF Within, Vectors
<1> QED
  BY <1>7, <1>8, RetypeCounted

\* lower_utilization_by_attr keeps the counts exact.
LEMMA LowerCounted ==
    ASSUME NEW v, Counted(v), NEW w \in LowerUtilizationByAttr(v), NEW ntypes \in 1..MAX_ATTRTYPES
    PROVE  Counted(w) /\ (Within(v, ntypes) => Within(w, ntypes))
<1>1. PICK i \in Tasks : v.attrs[i] > 0 /\ w = LowerTask(v, i)
  BY DEF LowerUtilizationByAttr, LowerableTasks
<1>2. /\ v.attrs \in Vectors /\ v.max_type \in AttrTypes
      /\ v.n_tasks_per_type \in [AttrTypes -> Int]
  BY DEF Counted, TaskAttrsType
<1> DEFINE old == v.attrs[i]
           new == old - 1
           n == [v.n_tasks_per_type EXCEPT ![old] = @ - 1, ![new] = @ + 1]
<1>3. old \in AttrTypes /\ new \in AttrTypes /\ new # old /\ new < old
  BY <1>1, <1>2 DEF AttrTypes, Vectors
<1>4. /\ w.attrs = [v.attrs EXCEPT ![i] = new]
      /\ w.n_tasks_per_type = n
      /\ w.max_type = IF n[new] > n[v.max_type] THEN new ELSE v.max_type
      /\ w = [attrs |-> w.attrs, n_tasks_per_type |-> w.n_tasks_per_type, max_type |-> w.max_type]
  BY <1>1 DEF LowerTask
<1> HIDE DEF new
<1>5. w \in TaskAttrsType
  BY <1>2, <1>3, <1>4 DEF TaskAttrsType, Vectors
<1>6. n \in [AttrTypes -> Int]
  BY <1>4, <1>5 DEF TaskAttrsType
<1>7. w.max_type = IF n[v.max_type] < n[new] THEN new ELSE v.max_type
  BY <1>2, <1>3, <1>4, <1>6
<1>8. Retyped(v, w, i, new)
  BY <1>1, <1>3, <1>4, <1>5, <1>7 DEF Retyped
<1>9. Within(v, ntypes) => Within(w, ntypes)
  BY <1>2, <1>3, <1>4 DEF Within, Vectors, AttrTypes
<1> QED
  BY <1>8, <1>9, RetypeCounted

-----------------------------------------------------------------------------
(* The machine of TaskAttrs                                                *)

VectorInv == Counted(vector) /\ Within(vector, NTypes)

\* VectorInv is an inductive invariant of the machine.
LEMMA VectorInvInvariant == VectorSpec => []VectorInv
<1> USE NTypesAssumption
<1>1. VectorInit => VectorInv
  <2> SUFFICES ASSUME VectorInit PROVE VectorInv
    OBVIOUS
  <2>1. PICK attrs \in [Tasks -> 0..(NTypes - 1)] : vector = SetupTaskattrs(attrs)
    BY DEF VectorInit, AssignTaskattrs
  <2>2. attrs \in Vectors /\ \A i \in Tasks : attrs[i] < NTypes
    BY MaxAttrTypesAssumption DEF Vectors, AttrTypes
  <2> QED
    BY <2>1, <2>2, SetupCounted DEF VectorInv, Within
<1>2. VectorInv /\ [VectorNext]_vector => VectorInv'
  <2> SUFFICES ASSUME VectorInv, [VectorNext]_vector PROVE VectorInv'
    OBVIOUS
  <2>1. CASE BalanceVector
    BY <2>1, BalanceCounted DEF BalanceVector, VectorInv
  <2>2. CASE LowerVector
    BY <2>2, LowerCounted DEF LowerVector, VectorInv
  <2>3. CASE UNCHANGED vector
    BY <2>3 DEF VectorInv
  <2> QED
    BY <2>1, <2>2, <2>3 DEF VectorNext
<1> QED
  BY <1>1, <1>2, PTL DEF VectorSpec

\* The attribute vectors of gastask stay well formed.
THEOREM TypeCorrect == VectorSpec => []VectorOK
<1>1. VectorInv => VectorOK
  BY DEF VectorInv, Counted, Within, VectorOK
<1> QED
  BY <1>1, VectorInvInvariant, PTL

\* The cached counts never drift from the attributes, for any number of tasks, types
\* and incremental updates.
THEOREM CountsAlwaysExact == VectorSpec => []CountsExact
<1>1. VectorInv => CountsExact
  BY DEF VectorInv, Counted, CountsExact
<1> QED
  BY <1>1, VectorInvInvariant, PTL

\* balance_mem_types always has a task to move, and finds it.
THEOREM BalanceInBounds == VectorSpec => []PeakPopulated
<1>1. VectorInv => PeakPopulated
  <2> SUFFICES ASSUME VectorInv,
                      NEW idx \in 0..(vector.n_tasks_per_type[vector.max_type] - 1)
               PROVE  NthOfType(vector.attrs, vector.max_type, idx) \in Tasks
    BY DEF VectorInv, Counted, PeakPopulated
  <2>1. /\ vector.attrs \in Vectors /\ vector.max_type \in AttrTypes
        /\ vector.n_tasks_per_type[vector.max_type] = CountOf(vector.attrs, vector.max_type)
        /\ CountOf(vector.attrs, vector.max_type) \in Int
    BY CountType DEF VectorInv, Counted, TaskAttrsType
  <2>2. idx \in Nat /\ idx < CountOf(vector.attrs, vector.max_type)
    BY <2>1
  <2> QED
    BY <2>1, <2>2, NthOfTypeFound
<1> QED
  BY <1>1, VectorInvInvariant, PTL

-----------------------------------------------------------------------------
(* setup_taskattrs and its loop                                            *)

\* How many of the first k tasks have type t.
CountUpTo(attrs, k, t) == Cardinality({i \in 1..k : attrs[i] = t})

\* Counting one more task.
LEMMA CountUpToStep ==
    ASSUME NEW attrs, NEW k \in 0..(NTasks - 1), NEW t
    PROVE  /\ CountUpTo(attrs, k, t) \in Nat
           /\ CountUpTo(attrs, k + 1, t) = IF attrs[k + 1] = t THEN CountUpTo(attrs, k, t) + 1
                                           ELSE CountUpTo(attrs, k, t)
<1> DEFINE A == {i \in 1..k : attrs[i] = t}
           B == {i \in 1..(k + 1) : attrs[i] = t}
<1>1. A \in SUBSET Tasks
  BY DEF Tasks
<1>2. IsFiniteSet(A) /\ Cardinality(A) \in Nat
  BY <1>1, TaskSets
<1>3. CASE attrs[k + 1] = t
  <2>1. B = A \cup {k + 1} /\ k + 1 \notin A
    BY <1>3
  <2>2. Cardinality(A \cup {k + 1}) = Cardinality(A) + 1
    BY <1>2, <2>1, FS_AddElement
  <2> QED
    BY <1>2, <1>3, <2>1, <2>2 DEF CountUpTo
<1>4. CASE attrs[k + 1] # t
  <2>1. B = A
    BY <1>4
  <2> QED
    BY <1>2, <1>4, <2>1 DEF CountUpTo
<1> QED
  BY <1>3, <1>4

\* Before the loop nothing is counted, after it everything.
LEMMA CountUpToEnds ==
    ASSUME NEW attrs, NEW t
    PROVE  /\ CountUpTo(attrs, 0, t) = 0
           /\ CountUpTo(attrs, NTasks, t) = CountOf(attrs, t)
<1>1. {i \in 1..0 : attrs[i] = t} = {}
  OBVIOUS
<1>2. CountUpTo(attrs, 0, t) = 0
  BY <1>1, FS_EmptySet DEF CountUpTo
<1> QED
  BY <1>2 DEF CountUpTo, CountOf, Tasks

\* A type that has all its tasks among the first x was last seen there.
LEMMA SeenWithin ==
    ASSUME NEW attrs, NEW t, NEW x \in Tasks,
           CountUpTo(attrs, x, t) = CountOf(attrs, t)
    PROVE  SeenAfter(attrs, t) <= x
<1> DEFINE A == {i \in 1..x : attrs[i] = t}
           B == {i \in Tasks : attrs[i] = t}
           D == {i \in Tasks : \E j \in i..NTasks : attrs[j] = t}
<1>1. A \in SUBSET B /\ B \in SUBSET Tasks
  BY DEF Tasks
<1>2. IsFiniteSet(B)
  BY <1>1, TaskSets
<1>3. Cardinality(B) = Cardinality(A)
  BY DEF CountUpTo, CountOf
<1>4. A = B
  BY <1>1, <1>2, <1>3, FS_Subset
<1>5. D \in SUBSET (1..x)
  <2> SUFFICES ASSUME NEW i \in Tasks, NEW j \in i..NTasks, attrs[j] = t PROVE i \in 1..x
    OBVIOUS
  <2>1. j \in B
    BY DEF Tasks
  <2>2. j \in 1..x
    BY <1>4, <2>1
  <2> QED
    BY <2>2 DEF Tasks
<1>6. x \in Nat /\ IsFiniteSet(1..x) /\ Cardinality(1..x) = x
  BY FS_Interval DEF Tasks
<1>7. Cardinality(D) <= x
  BY <1>5, <1>6, FS_Subset
<1> QED
  BY <1>7 DEF SeenAfter

\* A type with tasks after the first x is seen later.
LEMMA SeenBeyond ==
    ASSUME NEW attrs, NEW t, NEW x \in Tasks,
           CountUpTo(attrs, x, t) # CountOf(attrs, t)
    PROVE  SeenAfter(attrs, t) > x
<1> DEFINE A == {i \in 1..x : attrs[i] = t}
           B == {i \in Tasks : attrs[i] = t}
           D == {i \in Tasks : \E j \in i..NTasks : attrs[j] = t}
<1>1. A # B
  BY DEF CountUpTo, CountOf
<1>2. PICK j \in Tasks : attrs[j] = t /\ j > x
  <2>1. A \in SUBSET B
    BY DEF Tasks
  <2>2. PICK j \in B : j \notin A
    BY <1>1, <2>1
  <2> QED
    BY <2>2 DEF Tasks
<1>3. (1..(x + 1)) \in SUBSET D
  <2> SUFFICES ASSUME NEW i \in 1..(x + 1) PROVE i \in D
    OBVIOUS
  <2>1. i \in Tasks /\ j \in i..NTasks
    BY <1>2 DEF Tasks
  <2> QED
    BY <1>2, <2>1
<1>4. D \in SUBSET Tasks
  OBVIOUS
<1>5. IsFiniteSet(D) /\ Cardinality(D) \in Nat
  BY <1>4, TaskSets
<1>6. x \in Nat /\ Cardinality(1..(x + 1)) = x + 1
  BY FS_Interval DEF Tasks
<1>7. Cardinality(1..(x + 1)) <= Cardinality(D)
  BY <1>3, <1>5, FS_Subset
<1> QED
  BY <1>5, <1>6, <1>7 DEF SeenAfter

\* Among the first k tasks no type has more than m, and m was ahead of all others when it
\* came to that number.
Leads(attrs, k, m) ==
    /\ m \in AttrTypes
    /\ \A u \in AttrTypes : CountUpTo(attrs, k, u) <= CountUpTo(attrs, k, m)
    /\ k > 0 => \E x \in 1..k :
                  /\ CountUpTo(attrs, x, m) = CountUpTo(attrs, k, m)
                  /\ \A u \in AttrTypes \ {m} : CountUpTo(attrs, x, u) < CountUpTo(attrs, x, m)

\* The type that leads at the end is the one the closed form names.
LEMMA LeaderIsFirstToPeak ==
    ASSUME NEW attrs \in Vectors, NEW m, Leads(attrs, NTasks, m)
    PROVE  FirstToPeak(attrs) = m
<1> DEFINE P == PeakTypes(attrs)
<1>1. \A t : CountUpTo(attrs, NTasks, t) = CountOf(attrs, t) /\ CountOf(attrs, t) \in Nat
  BY CountUpToEnds, CountType
<1>2. m \in AttrTypes /\ \A u \in AttrTypes : CountOf(attrs, u) <= CountOf(attrs, m)
  BY <1>1 DEF Leads
<1>3. m \in P
  BY <1>2 DEF PeakTypes
<1>4. PICK x \in Tasks :
        /\ CountUpTo(attrs, x, m) = CountOf(attrs, m)
        /\ \A u \in AttrTypes \ {m} : CountUpTo(attrs, x, u) < CountUpTo(attrs, x, m)
  BY <1>1 DEF Leads, Tasks
<1>5. ASSUME NEW t PROVE SeenAfter(attrs, t) \in Nat
  <2>1. {i \in Tasks : \E j \in i..NTasks : attrs[j] = t} \in SUBSET Tasks
    OBVIOUS
  <2> QED
    BY <2>1, TaskSets DEF SeenAfter
<1>6. ASSUME NEW u \in P, u # m PROVE SeenAfter(attrs, m) < SeenAfter(attrs, u)
  <2>1. u \in AttrTypes /\ CountOf(attrs, m) <= CountOf(attrs, u)
    BY <1>2 DEF PeakTypes
  <2>2. CountOf(attrs, u) = CountOf(attrs, m)
    BY <1>1, <1>2, <2>1
  <2>3. CountUpTo(attrs, x, u) # CountOf(attrs, u)
    BY <1>1, <1>4, <1>6, <2>1, <2>2
  <2>4. SeenAfter(attrs, u) > x
    BY <2>3, SeenBeyond
  <2>5. SeenAfter(attrs, m) <= x
    BY <1>4, SeenWithin
  <2>6. x \in Nat /\ SeenAfter(attrs, m) \in Nat /\ SeenAfter(attrs, u) \in Nat
    BY <1>5 DEF Tasks
  <2> QED
    BY <2>4, <2>5, <2>6
<1>7. \A u \in P : SeenAfter(attrs, m) <= SeenAfter(attrs, u)
  BY <1>5, <1>6
<1>8. ASSUME NEW t \in P, \A u \in P : SeenAfter(attrs, t) <= SeenAfter(attrs, u)
      PROVE  t = m
  <2>1. SeenAfter(attrs, t) <= SeenAfter(attrs, m)
    BY <1>3, <1>8
  <2>2. SeenAfter(attrs, t) \in Nat /\ SeenAfter(attrs, m) \in Nat
    BY <1>5
  <2> QED
    BY <1>6, <2>1, <2>2
<1>9. (CHOOSE t \in P : \A u \in P : SeenAfter(attrs, t) <= SeenAfter(attrs, u)) = m
  BY <1>3, <1>7, <1>8
<1> QED
  BY <1>9 DEF FirstToPeak

\* The record s is what the loop has computed after k tasks.
Tallied(attrs, k, s) ==
    /\ s.n_tasks_per_type = [t \in AttrTypes |-> CountUpTo(attrs, k, t)]
    /\ Leads(attrs, k, s.max_type)

\* One turn of the loop of setup_taskattrs.
LEMMA SetupStepTallies ==
    ASSUME NEW attrs \in Vectors, NEW k \in 0..(NTasks - 1), NEW s, Tallied(attrs, k, s)
    PROVE  Tallied(attrs, k + 1, SetupStep(attrs, k + 1, s))
<1> DEFINE a == attrs[k + 1]
           m == s.max_type
           n == [s.n_tasks_per_type EXCEPT ![a] = @ + 1]
           C(i, t) == CountUpTo(attrs, i, t)
<1>1. a \in AttrTypes
  BY DEF Vectors, Tasks
<1>2. \A t : C(k, t) \in Nat /\ C(k + 1, t) = IF a = t THEN C(k, t) + 1 ELSE C(k, t)
  BY CountUpToStep
<1>3. /\ m \in AttrTypes
      /\ \A u \in AttrTypes : C(k, u) <= C(k, m)
      /\ k > 0 => \E x \in 1..k : /\ C(x, m) = C(k, m)
                                  /\ \A u \in AttrTypes \ {m} : C(x, u) < C(x, m)
  BY DEF Tallied, Leads
<1>4. s.n_tasks_per_type = [t \in AttrTypes |-> C(k, t)]
  BY DEF Tallied
<1> HIDE DEF a, C
<1>5. n = [t \in AttrTypes |-> C(k + 1, t)]
  <2>1. n = [t \in AttrTypes |-> IF t = a THEN C(k, a) + 1 ELSE C(k, t)]
    BY <1>1, <1>4
  <2> QED
    BY <1>2, <2>1
<1> HIDE DEF n, m
<1>6. n[m] = C(k + 1, m) /\ n[a] = C(k + 1, a)
  BY <1>1, <1>3, <1>5
<1> DEFINE l == IF n[m] < n[a] THEN a ELSE m
<1>7. l \in AttrTypes
  BY <1>1, <1>3
<1>8. k + 1 \in 1..(k + 1) /\ (k + 1 > 0)
  OBVIOUS
<1>9. ASSUME a = m PROVE Leads(attrs, k + 1, l)
  <2>1. l = m
    BY <1>9
  <2>2. \A u \in AttrTypes \ {m} : C(k + 1, u) < C(k + 1, m)
    BY <1>2, <1>3, <1>9
  <2>3. \A u \in AttrTypes : C(k + 1, u) <= C(k + 1, m)
    BY <1>2, <1>3, <1>9
  <2> QED
    BY <1>3, <1>8, <2>1, <2>2, <2>3 DEF Leads, C
<1>10. ASSUME a # m /\ n[m] < n[a] PROVE Leads(attrs, k + 1, l)
  <2>1. l = a
    BY <1>10
  <2>2. C(k, a) = C(k, m)
    BY <1>1, <1>2, <1>3, <1>6, <1>10
  <2>3. \A u \in AttrTypes \ {a} : C(k + 1, u) < C(k + 1, a)
    BY <1>2, <1>3, <2>2
  <2>4. \A u \in AttrTypes : C(k + 1, u) <= C(k + 1, a)
    BY <1>2, <1>3, <2>2
  <2> QED
    BY <1>1, <1>8, <2>1, <2>3, <2>4 DEF Leads, C
<1>11. ASSUME a # m /\ ~ (n[m] < n[a]) PROVE Leads(attrs, k + 1, l)
  <2>1. l = m
    BY <1>11
  <2>2. C(k, a) + 1 <= C(k, m) /\ C(k + 1, m) = C(k, m)
    BY <1>2, <1>6, <1>11
  <2>3. \A u \in AttrTypes : C(k + 1, u) <= C(k + 1, m)
    BY <1>2, <1>3, <2>2
  <2>4. k > 0
    <3>1. k = 0 => C(k, m) = 0
      BY CountUpToEnds DEF C
    <3> QED
      BY <1>2, <2>2, <3>1
  <2>5. PICK x \in 1..k : /\ C(x, m) = C(k, m)
                          /\ \A u \in AttrTypes \ {m} : C(x, u) < C(x, m)
    BY <1>3, <2>4
  <2>6. x \in 1..(k + 1) /\ C(x, m) = C(k + 1, m)
    BY <2>2, <2>5
  <2> QED
    BY <1>3, <2>1, <2>3, <2>5, <2>6 DEF Leads, C
<1>12. Leads(attrs, k + 1, l)
  BY <1>9, <1>10, <1>11
<1>13. SetupStep(attrs, k + 1, s) = [n_tasks_per_type |-> n, max_type |-> l]
  BY DEF SetupStep, n, a, m
<1> QED
  BY <1>5, <1>12, <1>13 DEF Tallied, C

\* The equation of the function that SetupLoop defines.
IsTally(f, attrs, k) ==
    f = [i \in 0..k |-> IF i = 0
                        THEN [n_tasks_per_type |-> [t \in AttrTypes |-> 0], max_type |-> 0]
                        ELSE SetupStep(attrs, i, f[i - 1])]

\* There is such a function for any number of tasks.
LEMMA TallyExists ==
    ASSUME NEW attrs, NEW k \in Nat
    PROVE  \E f : IsTally(f, attrs, k)
<1> DEFINE T == {m \in Nat : ~ \E f : IsTally(f, attrs, m)}
           zero == [n_tasks_per_type |-> [t \in AttrTypes |-> 0], max_type |-> 0]
<1>1. SUFFICES ASSUME T # {} PROVE FALSE
  OBVIOUS
<1>2. PICK m \in T : \A y \in T : m <= y
  BY <1>1, LeastExists
<1> HIDE DEF zero
<1>3. m # 0
  <2> DEFINE f == [i \in 0..0 |-> zero]
  <2>1. f = [i \in 0..0 |-> IF i = 0 THEN zero ELSE SetupStep(attrs, i, f[i - 1])]
    OBVIOUS
  <2>2. IsTally(f, attrs, 0)
    BY <2>1 DEF IsTally, zero
  <2> QED
    BY <2>2
<1>4. m - 1 \in Nat /\ m - 1 \notin T
  BY <1>2, <1>3
<1>5. PICK f : IsTally(f, attrs, m - 1)
  BY <1>4
<1> DEFINE g == [i \in 0..m |-> IF i = m THEN SetupStep(attrs, m, f[m - 1]) ELSE f[i]]
<1>6. ASSUME NEW i \in 0..m
      PROVE  g[i] = IF i = 0 THEN zero ELSE SetupStep(attrs, i, g[i - 1])
  <2>1. CASE i = m
    BY <1>3, <1>4, <2>1
  <2>2. CASE i # m
    <3>1. i \in 0..(m - 1) /\ (i # 0 => i - 1 \in 0..m /\ i - 1 # m)
      BY <2>2
    <3>2. f[i] = IF i = 0 THEN zero ELSE SetupStep(attrs, i, f[i - 1])
      BY <1>5, <3>1 DEF IsTally, zero
    <3> QED
      BY <2>2, <3>1, <3>2
  <2> QED
    BY <2>1, <2>2
<1>7. IsTally(g, attrs, m)
  BY <1>6 DEF IsTally, zero
<1> QED
  BY <1>2, <1>7

\* The closed form that the models use for setup_taskattrs is what its loop computes,
\* for any number of tasks and types: the counts, and as max_type the first type to
\* reach the largest count.
THEOREM SetupComputesLoop ==
    \A attrs \in Vectors : SetupTaskattrs(attrs) = SetupLoop(attrs)
<1> SUFFICES ASSUME NEW attrs \in Vectors PROVE SetupTaskattrs(attrs) = SetupLoop(attrs)
  OBVIOUS
<1> DEFINE f == CHOOSE g : IsTally(g, attrs, NTasks)
           zero == [n_tasks_per_type |-> [t \in AttrTypes |-> 0], max_type |-> 0]
<1>1. IsTally(f, attrs, NTasks)
  BY TallyExists
<1>2. SetupLoop(attrs) = [attrs |-> attrs,
                          n_tasks_per_type |-> f[NTasks].n_tasks_per_type,
                          max_type |-> f[NTasks].max_type]
  BY DEF SetupLoop, IsTally
<1> HIDE DEF f
<1>3. ASSUME NEW i \in 0..NTasks
      PROVE  f[i] = IF i = 0 THEN zero ELSE SetupStep(attrs, i, f[i - 1])
  BY <1>1 DEF IsTally
<1>4. Tallied(attrs, 0, zero)
  <2>1. \A t : CountUpTo(attrs, 0, t) = 0
    BY CountUpToEnds
  <2>2. Leads(attrs, 0, 0)
    BY <2>1 DEF Leads, AttrTypes
  <2> QED
    BY <2>1, <2>2 DEF Tallied
<1> HIDE DEF zero
<1> DEFINE T == {i \in 0..NTasks : ~ Tallied(attrs, i, f[i])}
<1>5. T = {}
  <2> SUFFICES ASSUME T # {} PROVE FALSE
    OBVIOUS
  <2>1. T \in SUBSET Nat
    OBVIOUS
  <2>2. PICK i \in T : \A y \in T : i <= y
    BY <2>1, LeastExists
  <2>3. i # 0
    BY <1>3, <1>4, <2>2
  <2>4. i - 1 \in 0..(NTasks - 1) /\ i - 1 \in 0..NTasks /\ i - 1 \notin T /\ (i - 1) + 1 = i
    BY <2>2, <2>3
  <2>5. Tallied(attrs, i - 1, f[i - 1])
    BY <2>4
  <2>6. Tallied(attrs, (i - 1) + 1, SetupStep(attrs, (i - 1) + 1, f[i - 1]))
    BY <2>4, <2>5, SetupStepTallies
  <2>7. f[i] = SetupStep(attrs, i, f[i - 1])
    BY <1>3, <2>2, <2>3
  <2> QED
    BY <2>2, <2>4, <2>6, <2>7
<1>6. Tallied(attrs, NTasks, f[NTasks])
  <2>1. NTasks \in 0..NTasks
    OBVIOUS
  <2> QED
    BY <1>5, <2>1
<1>7. f[NTasks].n_tasks_per_type = [t \in AttrTypes |-> CountOf(attrs, t)]
  <2>1. \A t : CountUpTo(attrs, NTasks, t) = CountOf(attrs, t)
    BY CountUpToEnds
  <2> QED
    BY <1>6, <2>1 DEF Tallied
<1>8. f[NTasks].max_type = FirstToPeak(attrs)
  BY <1>6, LeaderIsFirstToPeak DEF Tallied
<1> QED
  BY <1>2, <1>7, <1>8 DEF SetupTaskattrs

=============================================================================
