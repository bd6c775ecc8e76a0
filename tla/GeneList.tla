------------------------------ MODULE GeneList ------------------------------
(***************************************************************************)
(* One of the three gene lists of GA.c at the level of its pointers: the   *)
(* circular doubly linked list of ecm_list.h, threaded through the genes,  *)
(* and the code that keeps it sorted.  genes_by_util, genes_by_power and   *)
(* genes_by_score differ only in the key; `key' stands for any of them.    *)
(*                                                                         *)
(* A gene's list node starts as the zeroes of calloc.  init_gene points it *)
(* at itself, sort_gene_* unlinks it and walks the list to its place, and  *)
(* get_newborn unlinks a listed gene (the last of the score list, one at   *)
(* any position of the other two) so that crossover can rebuild it.        *)
(***************************************************************************)
EXTENDS Integers, FiniteSets, SequencesExt

CONSTANTS Genes, ListHead, NULL

ASSUME GenesAssumption == ListHead \notin Genes /\ NULL \notin Genes \cup {ListHead}
ASSUME FiniteAssumption == IsFiniteSet(Genes)

CONSTANT Keys              \* the values of the sorted field
ASSUME KeysAssumption == Keys \subseteq Int /\ 0 \in Keys

Nodes == Genes \cup {ListHead}

VARIABLES next, prev,      \* the list_head of every gene and of the list itself
          key,             \* gene->util, gene->power or gene->score
          gene,            \* the gene init_gene or crossover is working on
          lp,              \* the cursor of list_for_each
          pc               \* "idle", "build" or "walk"

links == <<next, prev>>
vars == <<next, prev, key, gene, lp, pc>>

-----------------------------------------------------------------------------
(* ecm_list.h.  Each operator takes and returns a pair of link functions,  *)
(* and assigns in the order the C code does.                               *)

INIT_LIST_HEAD(l, n) ==
    [next |-> [l.next EXCEPT ![n] = n],
     prev |-> [l.prev EXCEPT ![n] = n]]

\* Mutated form: __list_add does not set the links of the new entry.
list_add_neighbours(l, lnew, p, n) ==
    [prev |-> [l.prev EXCEPT ![n] = lnew],
     next |-> [l.next EXCEPT ![p] = lnew]]

\* __list_add
list_add_between(l, lnew, p, n) ==
    [prev |-> [l.prev EXCEPT ![n] = lnew, ![lnew] = p],
     next |-> [l.next EXCEPT ![lnew] = n, ![p] = lnew]]

list_add_tail(l, lnew, head) == list_add_between(l, lnew, l.prev[head], head)

\* __list_del
list_del_between(l, p, n) ==
    [prev |-> [l.prev EXCEPT ![n] = p],
     next |-> [l.next EXCEPT ![p] = n]]

list_del_init(l, entry) ==
    INIT_LIST_HEAD(list_del_between(l, l.prev[entry], l.next[entry]), entry)

lists == [next |-> next, prev |-> prev]

SetLinks(l) == next' = l.next /\ prev' = l.prev

-----------------------------------------------------------------------------
(* GA.c                                                                    *)

\* A gene whose node init_gene has not set up yet.
Fresh(g) == next[g] = NULL

Listed(g) == next[g] # NULL /\ next[g] # g

Init ==
    /\ next = [n \in Nodes |-> IF n = ListHead THEN ListHead ELSE NULL]
    /\ prev = [n \in Nodes |-> IF n = ListHead THEN ListHead ELSE NULL]
    /\ key = [g \in Genes |-> 0]
    /\ gene = NULL
    /\ lp = ListHead
    /\ pc = "idle"

\* Mutated form: init_populations does not set the gene it works on.
InitGeneUnset(g) ==
    /\ pc = "idle" /\ Fresh(g)
    /\ SetLinks(INIT_LIST_HEAD(lists, g))
    /\ pc' = "build"
    /\ UNCHANGED <<key, gene, lp>>

\* init_gene, up to INIT_LIST_HEAD (which every further try repeats to no effect)
InitGene(g) ==
    /\ pc = "idle" /\ Fresh(g)
    /\ SetLinks(INIT_LIST_HEAD(lists, g))
    /\ gene' = g
    /\ pc' = "build"
    /\ UNCHANGED <<key, lp>>

\* get_newborn, once init_populations has listed everyone
GetNewborn(g) ==
    /\ pc = "idle" /\ \A h \in Genes : ~ Fresh(h)
    /\ SetLinks(list_del_init(lists, g))
    /\ gene' = g
    /\ pc' = "build"
    /\ UNCHANGED <<key, lp>>

\* check_utilpower stores a new util, power and score
CheckUtilpower(k) ==
    /\ pc = "build"
    /\ key' = [key EXCEPT ![gene] = k]
    /\ UNCHANGED <<links, gene, lp, pc>>

\* sort_gene_*: unlink the gene and set the cursor to the first entry
SortGene ==
    /\ pc = "build"
    /\ LET l == list_del_init(lists, gene)
       IN  SetLinks(l) /\ lp' = l.next[ListHead]
    /\ pc' = "walk"
    /\ UNCHANGED <<key, gene>>

\* Mutated form: `<=' puts the gene in front of its equals.
GoesBeforeEquals(g, h) == key[g] <= key[h]

\* `if (gene->key < gene_list->key)'
GoesBefore(g, h) == key[g] < key[h]

\* sort_gene_*: one turn of list_for_each that finds a smaller or equal key
Walk ==
    /\ pc = "walk" /\ lp # ListHead
    /\ ~ GoesBefore(gene, lp)
    /\ lp' = next[lp]
    /\ UNCHANGED <<links, key, gene, pc>>

\* sort_gene_*: the turn that finds a larger key, and returns
InsertBefore ==
    /\ pc = "walk" /\ lp # ListHead
    /\ GoesBefore(gene, lp)
    /\ SetLinks(list_add_tail(lists, gene, lp))
    /\ pc' = "idle"
    /\ UNCHANGED <<key, gene, lp>>

\* sort_gene_*: the loop ended without finding one
InsertTail ==
    /\ pc = "walk" /\ lp = ListHead
    /\ SetLinks(list_add_tail(lists, gene, ListHead))
    /\ pc' = "idle"
    /\ UNCHANGED <<key, gene, lp>>

Next ==
    \/ \E g \in Genes : InitGene(g) \/ GetNewborn(g)
    \/ \E k \in Keys : CheckUtilpower(k)
    \/ SortGene \/ Walk \/ InsertBefore \/ InsertTail

\* The program is sequential: a walk that has started is carried on.
Fairness == WF_vars(Walk \/ InsertBefore \/ InsertTail)

Spec == Init /\ [][Next]_vars /\ Fairness

-----------------------------------------------------------------------------
\* The links are pointers to list nodes or still zero, and the cursor and the
\* gene are nodes whenever the code uses them.
TypeOK ==
    /\ next \in [Nodes -> Nodes \cup {NULL}]
    /\ prev \in [Nodes -> Nodes \cup {NULL}]
    /\ key \in [Genes -> Keys]
    /\ gene \in Genes \cup {NULL}
    /\ lp \in Nodes
    /\ pc \in {"idle", "build", "walk"}
    /\ pc # "idle" => gene \in Genes

\* The list is a consistent ring at every step of the code: following next and
\* then prev (or prev and then next) comes back, no initialised node leads to a
\* node still zeroed by calloc, and a node is zero in both links or in neither.
RingOK ==
    /\ next[ListHead] # NULL
    /\ \A n \in Nodes :
         /\ next[n] = NULL <=> prev[n] = NULL
         /\ next[n] # NULL => /\ next[next[n]] # NULL /\ prev[next[n]] = n
                              /\ prev[prev[n]] # NULL /\ next[prev[n]] = n

\* Outside its construction every initialised gene is linked, and during it the
\* gene points only at itself: the walk of sort_gene_* can neither meet the gene
\* it is placing nor lose another one.
OnlyNewbornUnlinked ==
    \A g \in Genes : next[g] = g <=> (pc # "idle" /\ g = gene)

\* Neighbours are in key order, whatever keys the off-list gene takes on.
NeighboursOrdered ==
    \A g \in Genes : (Listed(g) /\ next[g] # ListHead) => key[g] <= key[next[g]]

\* While sort_gene_* walks, the entry behind the cursor does not have a larger
\* key than the gene being placed, and the cursor is a node of the list.
CursorOK ==
    pc = "walk" =>
        /\ next[lp] # NULL /\ lp # gene
        /\ prev[lp] # ListHead => key[prev[lp]] <= key[gene]

ListInv == TypeOK /\ RingOK /\ OnlyNewbornUnlinked /\ NeighboursOrdered /\ CursorOK

\* sort_gene_* always returns: the walk meets the head or a larger key.
SortGeneReturns == (pc = "walk") ~> (pc = "idle")

-----------------------------------------------------------------------------
(* The sequence the list stands for.                                       *)

\* The i-th entry of a list of the genes q, counted from the head and back to it.
NodeAt(q, i) == IF i \in 1..Len(q) THEN q[i] ELSE ListHead

\* The links nx lead from the head along q and back to the head.
IsChain(q, nx) == \A i \in 0..Len(q) : nx[NodeAt(q, i)] = NodeAt(q, i + 1)

\* The genes list_for_each visits.  GeneListProofs shows that there is one such
\* sequence, and that it has no gene twice.
Visited == CHOOSE q \in BoundedSeq(Genes, Cardinality(Genes)) : IsChain(q, next)

Abstract ==
    INSTANCE SortedGenes WITH
        order <- Visited,
        newborn <- IF pc = "idle" THEN NULL ELSE gene,
        NoGene <- NULL

\* The pointer code of sort_gene_*, list_del_init and list_add_tail implements
\* the sorted list of SortedGenes: every walk puts the gene exactly behind the
\* last gene with a key as small, losing and duplicating none.
ImplementsSortedGenes == Abstract!Spec

=============================================================================
