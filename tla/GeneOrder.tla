----------------------------- MODULE GeneOrder -----------------------------
(***************************************************************************)
(* A sorted gene list as a sequence: what sort_gene_util, sort_gene_power  *)
(* and sort_gene_score of GA.c do to genes_by_util, genes_by_power and     *)
(* genes_by_score, seen from outside.  GeneList shows that the pointer     *)
(* code does exactly this.                                                 *)
(***************************************************************************)
EXTENDS Integers, Sequences, SequencesExt

\* No gene is listed before one with a smaller key.
IsOrdered(order, key) ==
    \A i, j \in 1..Len(order) : i <= j => key[order[i]] <= key[order[j]]

\* The gene goes in front of the first gene with a larger key, so behind its
\* equals: `if (gene->key < gene_list->key)'.
InsertPosition(order, key, gene) ==
    CHOOSE p \in 1..(Len(order) + 1) :
        /\ \A i \in 1..(p - 1) : key[order[i]] <= key[gene]
        /\ p <= Len(order) => key[gene] < key[order[p]]

InsertSorted(order, key, gene) == InsertAt(order, InsertPosition(order, key, gene), gene)

\* list_del_init, for the list the gene is in
Unlisted(order, gene) == RemoveFirst(order, gene)

=============================================================================
