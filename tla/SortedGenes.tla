---------------------------- MODULE SortedGenes ----------------------------
(***************************************************************************)
(* What a gene list of GA.c promises: a sequence of genes, always in key   *)
(* order, from which one gene at a time is taken out, given a new key, and *)
(* put back in its place in a single step.  GeneList implements it with a  *)
(* circular doubly linked list and a walk.                                 *)
(***************************************************************************)
EXTENDS GeneOrder, FiniteSets

CONSTANTS Genes,           \* the population
          Keys,            \* the values a gene's util, power or score can take
          NoGene

VARIABLES order,           \* the listed genes, smallest key first
          key,             \* key[g]: the gene's current key
          newborn          \* the gene under construction, or NoGene

vars == <<order, key, newborn>>

Init ==
    /\ order = <<>>
    /\ key = [g \in Genes |-> 0]
    /\ newborn = NoGene

\* A gene is taken up for construction: a new one, or a listed one.
Take(g) ==
    /\ newborn = NoGene
    /\ newborn' = g
    /\ order' = Unlisted(order, g)
    /\ UNCHANGED key

\* The gene under construction is evaluated.
Evaluate(k) ==
    /\ newborn # NoGene
    /\ key' = [key EXCEPT ![newborn] = k]
    /\ UNCHANGED <<order, newborn>>

\* The gene under construction takes its place.
Place ==
    /\ newborn # NoGene
    /\ order' = InsertSorted(order, key, newborn)
    /\ newborn' = NoGene
    /\ UNCHANGED key

Next ==
    \/ \E g \in Genes : Take(g)
    \/ \E k \in Keys : Evaluate(k)
    \/ Place

Spec == Init /\ [][Next]_vars

=============================================================================
