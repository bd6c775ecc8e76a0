---------------------------- MODULE MCTaskAttrs ----------------------------
(***************************************************************************)
(* Model checking of TaskAttrs, with the counting loop of setup_taskattrs  *)
(* as the reference for the closed form the model uses.                    *)
(***************************************************************************)
EXTENDS TaskAttrs

\* setup_taskattrs computes exactly the counts and the max_type that its loop
\* computes: the first type, in task order, to reach the largest count.
ASSUME SetupIsLoop ==
    \A attrs \in [Tasks -> 0..(NTypes - 1)] : SetupTaskattrs(attrs) = SetupLoop(attrs)

=============================================================================
