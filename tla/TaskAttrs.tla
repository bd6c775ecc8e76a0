----------------------------- MODULE TaskAttrs -----------------------------
(***************************************************************************)
(* The life of one attribute vector of a gene: it is assigned at random,   *)
(* then rebalanced and lowered while the gene is being initialised.  GA.c  *)
(* counts the types in setup_taskattrs and maintains the counts            *)
(* incrementally in balance_mem_types and lower_utilization_by_attr.  (A   *)
(* gene that is reborn has its vectors counted afresh: it is back in one   *)
(* of the initial states of this module.  GeneticScheduler has that step.) *)
(***************************************************************************)
EXTENDS TaskAttrsOps

CONSTANT NTypes            \* how many types the configuration defines

ASSUME NTypesAssumption == NTypes \in 1..MAX_ATTRTYPES

VARIABLE vector            \* a taskattrs_t

VectorInit == vector \in AssignTaskattrs(NTypes)

\* balance_mem_types
BalanceVector == vector' \in BalanceMemTypes(vector, NTypes)

\* lower_utilization_by_attr
LowerVector == vector' \in LowerUtilizationByAttr(vector)

VectorNext == BalanceVector \/ LowerVector

VectorSpec == VectorInit /\ [][VectorNext]_vector

-----------------------------------------------------------------------------
\* Every vector is a well-formed taskattrs_t over the configured types.
VectorOK ==
    /\ vector \in TaskAttrsType
    /\ \A i \in Tasks : vector.attrs[i] < NTypes

\* The cached n_tasks_per_type[] of GA.c always equals a recount of attrs[]: no
\* sequence of incremental updates by balance_mem_types and
\* lower_utilization_by_attr drifts from what setup_taskattrs would compute.
CountsExact ==
    \A t \in AttrTypes : vector.n_tasks_per_type[t] = CountOf(vector.attrs, t)

\* Some task has type max_type.  balance_mem_types draws the task to move among
\* the n_tasks_per_type[max_type] tasks of that type (GA.c:202-210): its guard
\* never skips the move, and the scan never runs past the last task.
PeakPopulated ==
    /\ vector.n_tasks_per_type[vector.max_type] > 0
    /\ \A idx \in 0..(vector.n_tasks_per_type[vector.max_type] - 1) :
          NthOfType(vector.attrs, vector.max_type, idx) \in Tasks

=============================================================================
