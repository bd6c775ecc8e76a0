---------------------------- MODULE TaskAttrsOps ----------------------------
(***************************************************************************)
(* The per-task attribute vectors of a gene (taskattrs_t, gastask.h) and   *)
(* the operations of GA.c on them.  A gene carries four vectors: memory    *)
(* type, cloud, CPU frequency and offloading ratio.  Each vector caches,   *)
(* beside the attributes, how many tasks have each type and a type that    *)
(* held the largest count (max_type); GA.c maintains the cache by hand.    *)
(*                                                                         *)
(* Tasks are numbered 1..NTasks here and 0..n_tasks-1 in C.  Only pure     *)
(* operators live here: the machines that use them are TaskAttrs and       *)
(* GeneticScheduler.                                                       *)
(***************************************************************************)
EXTENDS Integers, FiniteSets

CONSTANTS NTasks,          \* n_tasks
          MAX_ATTRTYPES    \* size of n_tasks_per_type[]

ASSUME NTasksAssumption == NTasks \in Nat \ {0}
ASSUME MaxAttrTypesAssumption == MAX_ATTRTYPES \in Nat \ {0}

Tasks == 1..NTasks
AttrTypes == 0..(MAX_ATTRTYPES - 1)
Vectors == [Tasks -> AttrTypes]
TaskAttrsType == [attrs : Vectors, n_tasks_per_type : [AttrTypes -> Int], max_type : AttrTypes]

CountOf(attrs, t) == Cardinality({i \in Tasks : attrs[i] = t})

-----------------------------------------------------------------------------
(* setup_taskattrs: recount a vector from scratch.                         *)

\* The types with the largest count.
PeakTypes(attrs) ==
    LET count == [t \in AttrTypes |-> CountOf(attrs, t)]
    IN  {t \in AttrTypes : \A u \in AttrTypes : count[u] <= count[t]}

\* How far the counting loop must go to see every task of type t.
SeenAfter(attrs, t) == Cardinality({i \in Tasks : \E j \in i..NTasks : attrs[j] = t})

\* The loop replaces max_type only on a strictly larger count, so the type that
\* is the first to reach the largest count keeps the title.
FirstToPeak(attrs) ==
    LET peaks == PeakTypes(attrs)
    IN  CHOOSE t \in peaks : \A u \in peaks : SeenAfter(attrs, t) <= SeenAfter(attrs, u)

SetupTaskattrs(attrs) ==
    [attrs |-> attrs,
     n_tasks_per_type |-> [t \in AttrTypes |-> CountOf(attrs, t)],
     max_type |-> FirstToPeak(attrs)]

\* The same as a loop over the tasks.  SetupTaskattrs is what it computes
\* (SetupComputesLoop in TaskAttrsProofs).
SetupStep(attrs, i, s) ==
    LET n == [s.n_tasks_per_type EXCEPT ![attrs[i]] = @ + 1]
    IN  [n_tasks_per_type |-> n,
         max_type |-> IF n[s.max_type] < n[attrs[i]] THEN attrs[i] ELSE s.max_type]

SetupLoop(attrs) ==
    LET step[i \in 0..NTasks] ==
          IF i = 0
          THEN [n_tasks_per_type |-> [t \in AttrTypes |-> 0], max_type |-> 0]
          ELSE SetupStep(attrs, i, step[i - 1])
    IN  [attrs |-> attrs,
         n_tasks_per_type |-> step[NTasks].n_tasks_per_type,
         max_type |-> step[NTasks].max_type]

\* Mutated form: get_rand(max_value + 1).
AssignTaskattrsOneMore(max_value) ==
    {SetupTaskattrs(attrs) : attrs \in [Tasks -> 0..max_value]}

\* assign_taskattrs: an arbitrary vector over the first max_value types.
AssignTaskattrs(max_value) ==
    {SetupTaskattrs(attrs) : attrs \in [Tasks -> 0..(max_value - 1)]}

-----------------------------------------------------------------------------
(* balance_mem_types: move one task of the most populated memory type to   *)
(* another type.  The task is the idx_changed-th task of type max_type.    *)

\* The scan for that task; it runs off the end (to the byte past the last
\* task) when fewer tasks have the type than the cached count says.
NthOfType(attrs, t, nth) ==
    LET hits == {i \in Tasks : /\ attrs[i] = t
                               /\ Cardinality({j \in 1..(i - 1) : attrs[j] = t}) = nth}
    IN  IF hits = {} THEN NTasks + 1 ELSE CHOOSE i \in hits : TRUE

\* Move task i to type_new and update the cached counts and max_type.
RetypeMax(ta, i, type_new) ==
    LET n == [ta.n_tasks_per_type EXCEPT ![ta.max_type] = @ - 1, ![type_new] = @ + 1]
    IN  [attrs |-> [ta.attrs EXCEPT ![i] = type_new],
         n_tasks_per_type |-> n,
         max_type |-> IF n[ta.max_type] < n[type_new] THEN type_new ELSE ta.max_type]

\* Mutated form: max_type is not updated after the move.
BalanceMemTypesStaleMax(ta, n_mems) ==
    IF ta.n_tasks_per_type[ta.max_type] = 0 THEN {ta}
    ELSE {[RetypeMax(ta, NthOfType(ta.attrs, ta.max_type, idx), type_new)
              EXCEPT !.max_type = ta.max_type] :
            idx \in 0..(ta.n_tasks_per_type[ta.max_type] - 1),
            type_new \in 0..(n_mems - 1) \ {ta.max_type}}

\* The possible results.  With a single memory type there is none: the loop of
\* get_rand_except never finds a value other than max_type = 0.
BalanceMemTypes(ta, n_mems) ==
    IF ta.n_tasks_per_type[ta.max_type] = 0 THEN {ta}
    ELSE {RetypeMax(ta, NthOfType(ta.attrs, ta.max_type, idx), type_new) :
            idx \in 0..(ta.n_tasks_per_type[ta.max_type] - 1),
            type_new \in 0..(n_mems - 1) \ {ta.max_type}}

-----------------------------------------------------------------------------
(* lower_utilization_by_attr: lower by one the attribute of the first task *)
(* above 0 at or after a random position, wrapping around.                 *)

\* Since the starting position is arbitrary, any task above 0 can be the one.
LowerableTasks(ta) == {i \in Tasks : ta.attrs[i] > 0}

\* Mutated form: the count of the new type is not incremented.
LowerTaskLosingCount(ta, i) ==
    LET type == ta.attrs[i]
        n == [ta.n_tasks_per_type EXCEPT ![type] = @ - 1]
    IN  [attrs |-> [ta.attrs EXCEPT ![i] = type - 1],
         n_tasks_per_type |-> n,
         max_type |-> IF n[type - 1] > n[ta.max_type] THEN type - 1 ELSE ta.max_type]

LowerTask(ta, i) ==
    LET type == ta.attrs[i]
        n == [ta.n_tasks_per_type EXCEPT ![type] = @ - 1, ![type - 1] = @ + 1]
    IN  [attrs |-> [ta.attrs EXCEPT ![i] = type - 1],
         n_tasks_per_type |-> n,
         max_type |-> IF n[type - 1] > n[ta.max_type] THEN type - 1 ELSE ta.max_type]

\* The possible results; empty when the function returns FALSE.
LowerUtilizationByAttr(ta) == {LowerTask(ta, i) : i \in LowerableTasks(ta)}

-----------------------------------------------------------------------------
(* inherit_values: one-point crossover of two vectors.                     *)
InheritValues(ta1, ta2, crosspt) ==
    SetupTaskattrs([i \in Tasks |-> IF i <= crosspt THEN ta1.attrs[i] ELSE ta2.attrs[i]])

=============================================================================
