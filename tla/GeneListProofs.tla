--------------------------- MODULE GeneListProofs ---------------------------
(***************************************************************************)
(* The linked list of GeneList is safe for every population and every      *)
(* range of keys.                                                          *)
(*                                                                         *)
(* ListInv alone is not inductive.  It speaks of neighbours only, so it    *)
(* does not exclude a second ring of two genes apart from the list; taking *)
(* one of them out would leave the other pointing at itself.  Ranked adds  *)
(* what excludes such rings: the genes can be numbered so that the numbers *)
(* rise along next, except from the last gene back to the head.            *)
(*                                                                         *)
(* The second half is the refinement of SortedGenes: the links determine   *)
(* one sequence of genes (ChainIsVisited), the pointer operations insert   *)
(* and remove one place of it (InsertChain, RemoveChain), and every step   *)
(* of the code is a step of SortedGenes or none (StepSimulates).           *)
(***************************************************************************)
EXTENDS GeneList, FiniteSetTheorems, SequenceTheorems, WellFoundedInduction, TLAPS

Rises(f, nx) ==
    \A g \in Genes : (nx[g] # NULL /\ nx[g] # g /\ nx[g] # ListHead) => f[g] < f[nx[g]]

Ranked == \E f \in [Genes -> Int] : Rises(f, next)

IInv == ListInv /\ Ranked

\* INIT_LIST_HEAD on a node still zeroed by calloc keeps the ring of the others.
LEMMA InitGenePreserves ==
    ASSUME IInv, NEW g \in Genes, InitGene(g)
    PROVE  IInv'
<1> USE GenesAssumption DEF Nodes, IInv
<1>1. /\ next' = [next EXCEPT ![g] = g] /\ prev' = [prev EXCEPT ![g] = g]
      /\ next[g] = NULL /\ prev[g] = NULL /\ g # ListHead
      /\ UNCHANGED <<key, lp>> /\ gene' = g /\ pc = "idle" /\ pc' = "build"
  BY DEF IInv, ListInv, RingOK, InitGene, Fresh, SetLinks, INIT_LIST_HEAD, lists
<1>2. TypeOK'
  BY <1>1 DEF ListInv, TypeOK
<1>3. RingOK'
  BY <1>1 DEF ListInv, TypeOK, RingOK
<1>4. OnlyNewbornUnlinked'
  BY <1>1 DEF ListInv, TypeOK, RingOK, OnlyNewbornUnlinked
<1>5. NeighboursOrdered'
  BY <1>1 DEF ListInv, TypeOK, RingOK, NeighboursOrdered, Listed
<1>6. CursorOK'
  BY <1>1 DEF CursorOK
<1>7. Ranked'
  BY <1>1 DEF ListInv, TypeOK, RingOK, Ranked, Rises
<1> QED
  BY <1>2, <1>3, <1>4, <1>5, <1>6, <1>7 DEF ListInv, IInv

\* list_del_init on a listed gene closes the gap between its neighbours, which stay
\* in order because the gene was between them.
LEMMA GetNewbornPreserves ==
    ASSUME IInv, NEW g \in Genes, GetNewborn(g)
    PROVE  IInv'
<1> USE GenesAssumption DEF Nodes, IInv
<1> DEFINE p == prev[g]
           n == next[g]
<1>1. /\ next' = [[next EXCEPT ![p] = n] EXCEPT ![g] = g]
      /\ prev' = [[prev EXCEPT ![n] = p] EXCEPT ![g] = g]
      /\ UNCHANGED <<key, lp>> /\ gene' = g /\ pc = "idle" /\ pc' = "build"
      /\ \A h \in Genes : next[h] # NULL
  BY DEF GetNewborn, Fresh, SetLinks, list_del_init, list_del_between, INIT_LIST_HEAD, lists
<1>2. /\ p \in Nodes /\ n \in Nodes /\ p # g /\ n # g /\ g # ListHead
      /\ next[p] = g /\ prev[n] = g
  BY <1>1 DEF ListInv, TypeOK, RingOK, OnlyNewbornUnlinked
<1>3. /\ next' \in [Nodes -> Nodes \cup {NULL}] /\ prev' \in [Nodes -> Nodes \cup {NULL}]
      /\ next'[g] = g /\ prev'[g] = g
      /\ next'[p] = n /\ prev'[n] = p
      /\ \A m \in Nodes \ {g, p} : next'[m] = next[m]
      /\ \A m \in Nodes \ {g, n} : prev'[m] = prev[m]
  BY <1>1, <1>2 DEF ListInv, TypeOK
<1> HIDE DEF p, n
<1>4. TypeOK'
  BY <1>1, <1>3 DEF ListInv, TypeOK
<1>5. RingOK'
  <2>1. \A m \in Nodes : /\ next[m] # NULL /\ prev[m] # NULL
                         /\ next[m] \in Nodes /\ prev[m] \in Nodes
                         /\ prev[next[m]] = m /\ next[prev[m]] = m
    BY <1>1 DEF ListInv, TypeOK, RingOK
  <2>2. \A m \in Nodes : next'[m] \in Nodes /\ prev'[m] \in Nodes
    BY <2>1, <1>2, <1>3
  <2>3. \A m \in Nodes : prev'[next'[m]] = m
    <3> TAKE m \in Nodes
    <3>1. CASE m \in {g, p}
      BY <3>1, <1>2, <1>3
    <3>2. CASE m \notin {g, p}
      <4>1. next'[m] = next[m] /\ next[m] # g /\ next[m] # n
        BY <3>2, <2>1, <1>2, <1>3 DEF p
      <4> QED
        BY <4>1, <2>1, <1>3
    <3> QED
      BY <3>1, <3>2
  <2>4. \A m \in Nodes : next'[prev'[m]] = m
    <3> TAKE m \in Nodes
    <3>1. CASE m \in {g, n}
      BY <3>1, <1>2, <1>3
    <3>2. CASE m \notin {g, n}
      <4>1. prev'[m] = prev[m] /\ prev[m] # g /\ prev[m] # p
        BY <3>2, <2>1, <1>2, <1>3 DEF n
      <4> QED
        BY <4>1, <2>1, <1>3
    <3> QED
      BY <3>1, <3>2
  <2> QED
    BY <2>2, <2>3, <2>4 DEF RingOK
<1> PICK f \in [Genes -> Int] : Rises(f, next)
  BY DEF Ranked
<1>r. p \in Genes /\ n \in Genes => f[p] < f[n]
  <2> SUFFICES ASSUME p \in Genes, n \in Genes PROVE f[p] < f[n]
    OBVIOUS
  <2>1. f[p] < f[g] /\ f[g] < f[n]
    BY <1>2 DEF Rises, n
  <2> QED
    BY <2>1
<1>6. OnlyNewbornUnlinked'
  <2> SUFFICES ASSUME NEW h \in Genes, h # g PROVE next'[h] # h
    BY <1>1, <1>3 DEF OnlyNewbornUnlinked
  <2>1. CASE h = p
    BY <2>1, <1>2, <1>3, <1>r
  <2>2. CASE h # p
    BY <2>2, <1>1, <1>3 DEF ListInv, OnlyNewbornUnlinked
  <2> QED
    BY <2>1, <2>2
<1>9. Ranked'
  <2> SUFFICES Rises(f, next')
    BY DEF Ranked
  <2> SUFFICES ASSUME NEW h \in Genes, next'[h] # NULL, next'[h] # h, next'[h] # ListHead
               PROVE  f[h] < f[next'[h]]
    BY DEF Rises
  <2>1. CASE h = p
    BY <2>1, <1>2, <1>3, <1>r
  <2>2. CASE h # p
    BY <2>2, <1>3 DEF Rises
  <2> QED
    BY <2>1, <2>2
<1>7. NeighboursOrdered'
  <2> SUFFICES ASSUME NEW h \in Genes, Listed(h)', next'[h] # ListHead
               PROVE  key[h] <= key[next'[h]]
    BY <1>1 DEF NeighboursOrdered
  <2>1. h # g /\ next[h] # NULL /\ next[h] # h
    BY <1>1, <1>3 DEF ListInv, OnlyNewbornUnlinked, Listed
  <2>2. CASE h # p
    BY <2>1, <2>2, <1>2, <1>3 DEF ListInv, NeighboursOrdered, Listed
  <2>3. CASE h = p
    <3>1. key[p] <= key[g]
      BY <2>1, <2>3, <1>2 DEF ListInv, NeighboursOrdered, Listed
    <3>2. next[g] # ListHead /\ next[g] # NULL /\ next[g] \in Genes
      BY <2>3, <1>1, <1>2, <1>3 DEF n
    <3>3. key[g] <= key[n]
      BY <3>2, <1>2 DEF ListInv, NeighboursOrdered, Listed, n
    <3>4. key[p] \in Int /\ key[g] \in Int /\ key[n] \in Int
      BY <2>3, <3>2, KeysAssumption DEF ListInv, TypeOK, n
    <3> QED
      BY <3>1, <3>3, <3>4, <2>3, <1>3
  <2> QED
    BY <2>2, <2>3
<1>8. CursorOK'
  BY <1>1 DEF CursorOK
<1> QED
  BY <1>4, <1>5, <1>6, <1>7, <1>8, <1>9 DEF ListInv

\* check_utilpower changes only the key of the gene that is out of the list.
LEMMA CheckUtilpowerPreserves ==
    ASSUME IInv, NEW k \in Keys, CheckUtilpower(k)
    PROVE  IInv'
<1> USE GenesAssumption DEF Nodes, IInv
<1>1. /\ key' = [key EXCEPT ![gene] = k] /\ UNCHANGED <<next, prev, gene, lp, pc>>
      /\ pc = "build" /\ gene \in Genes
  BY DEF CheckUtilpower, links, ListInv, TypeOK
<1>2. TypeOK' /\ RingOK' /\ OnlyNewbornUnlinked' /\ CursorOK'
  BY <1>1 DEF ListInv, TypeOK, RingOK, OnlyNewbornUnlinked, CursorOK
<1>3. NeighboursOrdered'
  <2> SUFFICES ASSUME NEW h \in Genes, Listed(h), next[h] # ListHead
               PROVE  key'[h] <= key'[next[h]]
    BY <1>1 DEF NeighboursOrdered, Listed
  <2>1. h # gene /\ next[h] # gene /\ next[h] \in Genes
    BY <1>1 DEF ListInv, TypeOK, RingOK, OnlyNewbornUnlinked, Listed
  <2>2. key'[h] = key[h] /\ key'[next[h]] = key[next[h]]
    BY <1>1, <2>1 DEF ListInv, TypeOK
  <2> QED
    BY <2>2 DEF ListInv, NeighboursOrdered
<1>4. Ranked'
  BY <1>1 DEF Ranked, Rises
<1> QED
  BY <1>2, <1>3, <1>4 DEF ListInv

\* The list_del_init that opens sort_gene_* finds the gene unlinked already, and the
\* cursor starts at the first entry, with only the head behind it.
LEMMA SortGenePreserves ==
    ASSUME IInv, SortGene
    PROVE  IInv'
<1> USE GenesAssumption DEF Nodes, IInv
<1>1. /\ pc = "build" /\ pc' = "walk" /\ gene \in Genes /\ UNCHANGED <<key, gene>>
      /\ next[gene] = gene /\ prev[gene] = gene
  BY DEF SortGene, ListInv, TypeOK, RingOK, OnlyNewbornUnlinked
<1>2. next' = next /\ prev' = prev /\ lp' = next[ListHead]
  BY <1>1 DEF SortGene, SetLinks, list_del_init, list_del_between, INIT_LIST_HEAD, lists,
              ListInv, TypeOK
<1>3. TypeOK' /\ RingOK' /\ OnlyNewbornUnlinked' /\ NeighboursOrdered'
  BY <1>1, <1>2 DEF ListInv, TypeOK, RingOK, OnlyNewbornUnlinked, NeighboursOrdered, Listed
<1>4. CursorOK'
  BY <1>1, <1>2 DEF ListInv, TypeOK, RingOK, CursorOK
<1>5. Ranked'
  BY <1>2 DEF Ranked, Rises
<1> QED
  BY <1>3, <1>4, <1>5 DEF ListInv

\* A turn of the walk leaves behind an entry that is not larger than the gene.
LEMMA WalkPreserves ==
    ASSUME IInv, Walk
    PROVE  IInv'
<1> USE GenesAssumption DEF Nodes, IInv
<1>1. /\ pc = "walk" /\ lp # ListHead /\ ~ (key[gene] < key[lp]) /\ lp' = next[lp]
      /\ UNCHANGED <<next, prev, key, gene, pc>>
  BY DEF Walk, GoesBefore, links
<1>2. lp \in Genes /\ gene \in Genes /\ key[lp] \in Int /\ key[gene] \in Int
  BY <1>1, KeysAssumption DEF ListInv, TypeOK
<1>3. lp' \in Nodes /\ next[lp'] # NULL /\ prev[lp'] = lp /\ lp' # gene
  BY <1>1, <1>2 DEF ListInv, TypeOK, RingOK, OnlyNewbornUnlinked, CursorOK
<1>4. TypeOK' /\ RingOK' /\ OnlyNewbornUnlinked' /\ NeighboursOrdered'
  BY <1>1, <1>3 DEF ListInv, TypeOK, RingOK, OnlyNewbornUnlinked, NeighboursOrdered, Listed
<1>5. CursorOK'
  BY <1>1, <1>2, <1>3 DEF CursorOK
<1>6. Ranked'
  BY <1>1 DEF Ranked, Rises
<1> QED
  BY <1>4, <1>5, <1>6 DEF ListInv

\* list_add_tail puts the unlinked gene in front of node n, after the entry the
\* walk has just passed; n is the head or has a larger key.  Doubling the ranks makes
\* room for the gene's.
LEMMA InsertPreserves ==
    ASSUME IInv, pc = "walk", NEW n \in Nodes, n = lp,
           n # ListHead => key[gene] < key[n],
           SetLinks(list_add_tail(lists, gene, n)),
           pc' = "idle", UNCHANGED <<key, gene, lp>>
    PROVE  IInv'
<1> USE GenesAssumption DEF Nodes, IInv
<1> DEFINE p == prev[n]
<1>1. /\ gene \in Genes /\ n # gene /\ next[n] # NULL /\ p \in Nodes /\ p # gene
      /\ next[p] = n /\ next[gene] = gene /\ prev[gene] = gene /\ gene # ListHead
  BY DEF ListInv, TypeOK, RingOK, OnlyNewbornUnlinked, CursorOK
<1>2. /\ prev' = [[prev EXCEPT ![n] = gene] EXCEPT ![gene] = p]
      /\ next' = [[next EXCEPT ![gene] = n] EXCEPT ![p] = gene]
  BY DEF SetLinks, list_add_tail, list_add_between, lists
<1>3. /\ next' \in [Nodes -> Nodes \cup {NULL}] /\ prev' \in [Nodes -> Nodes \cup {NULL}]
      /\ next'[gene] = n /\ prev'[gene] = p
      /\ next'[p] = gene /\ prev'[n] = gene
      /\ \A m \in Nodes \ {gene, p} : next'[m] = next[m]
      /\ \A m \in Nodes \ {gene, n} : prev'[m] = prev[m]
  BY <1>1, <1>2 DEF ListInv, TypeOK
<1>4. p # ListHead => p \in Genes /\ key[p] <= key[gene]
  BY <1>1 DEF ListInv, CursorOK
<1> HIDE DEF p
<1>5. TypeOK'
  BY <1>3 DEF ListInv, TypeOK
<1>6. RingOK'
  BY <1>1, <1>3 DEF ListInv, TypeOK, RingOK, p
<1>7. OnlyNewbornUnlinked'
  BY <1>1, <1>3 DEF ListInv, TypeOK, RingOK, OnlyNewbornUnlinked
<1>8. NeighboursOrdered'
  <2> SUFFICES ASSUME NEW h \in Genes, Listed(h)', next'[h] # ListHead
               PROVE  key[h] <= key[next'[h]]
    BY DEF NeighboursOrdered
  <2>1. CASE h = gene
    <3>1. key[gene] \in Int /\ key[n] \in Int /\ key[gene] < key[n]
      BY <2>1, <1>1, <1>3, KeysAssumption DEF ListInv, TypeOK
    <3> QED
      BY <2>1, <3>1, <1>3
  <2>2. CASE h = p
    BY <2>2, <1>3, <1>4
  <2>3. CASE h # gene /\ h # p
    BY <2>3, <1>3 DEF ListInv, NeighboursOrdered, Listed
  <2> QED
    BY <2>1, <2>2, <2>3
<1>9. CursorOK'
  BY DEF CursorOK
<1>10. Ranked'
  <2> PICK f \in [Genes -> Int] : Rises(f, next)
    BY DEF Ranked
  <2> DEFINE r == IF n \in Genes THEN 2 * f[n] - 1 ELSE IF p \in Genes THEN 2 * f[p] + 1 ELSE 0
             d == [h \in Genes |-> IF h = gene THEN r ELSE 2 * f[h]]
  <2>1. n \in Genes => f[n] \in Int
    OBVIOUS
  <2>2. p \in Genes => f[p] \in Int
    OBVIOUS
  <2>3. r \in Int
    BY <2>1, <2>2
  <2>4. d \in [Genes -> Int]
    BY <2>3
  <2>5. p \in Genes /\ n \in Genes => f[p] < f[n]
    BY <1>1, <1>3 DEF Rises, ListInv, OnlyNewbornUnlinked
  <2> SUFFICES Rises(d, next')
    BY <2>4 DEF Ranked
  <2> SUFFICES ASSUME NEW h \in Genes, next'[h] # NULL, next'[h] # h, next'[h] # ListHead
               PROVE  d[h] < d[next'[h]]
    BY DEF Rises
  <2>6. CASE h = gene
    <3>1. n \in Genes /\ d[h] = 2 * f[n] - 1 /\ d[n] = 2 * f[n]
      BY <2>6, <1>1, <1>3
    <3> QED
      BY <3>1, <2>1, <2>6, <1>3
  <2>7. CASE h = p
    <3>1. d[h] = 2 * f[p] /\ next'[h] = gene /\ d[gene] = r
      BY <2>7, <1>1, <1>3
    <3> QED
      BY <3>1, <2>1, <2>2, <2>5, <2>7
  <2>8. CASE h # gene /\ h # p
    <3>1. next'[h] = next[h] /\ next[h] # gene /\ next[h] \in Genes
      BY <2>8, <1>1, <1>3 DEF ListInv, RingOK
    <3>2. f[h] < f[next[h]] /\ f[h] \in Int /\ f[next[h]] \in Int
      BY <3>1, <2>8 DEF Rises
    <3>3. d[h] = 2 * f[h] /\ d[next[h]] = 2 * f[next[h]]
      BY <3>1, <2>8
    <3> QED
      BY <3>1, <3>2, <3>3
  <2> QED
    BY <2>6, <2>7, <2>8
<1> QED
  BY <1>5, <1>6, <1>7, <1>8, <1>9, <1>10 DEF ListInv

\* The empty list is a ring, and no gene is linked.
LEMMA IInvInit == Init => IInv
<1> SUFFICES ASSUME Init PROVE IInv
  OBVIOUS
<1>1. ListInv
  BY GenesAssumption, KeysAssumption
  DEF Init, ListInv, TypeOK, RingOK, OnlyNewbornUnlinked, NeighboursOrdered, CursorOK,
      Listed, Nodes
<1>2. Rises([g \in Genes |-> 0], next)
  BY GenesAssumption DEF Init, Rises, Nodes
<1> QED
  BY <1>1, <1>2 DEF IInv, Ranked

\* Every step of the pointer code keeps the list consistent, sorted and ranked.
LEMMA IInvStep == IInv /\ [Next]_vars => IInv'
<1> SUFFICES ASSUME IInv, [Next]_vars PROVE IInv'
  OBVIOUS
<1>1. CASE \E g \in Genes : InitGene(g) \/ GetNewborn(g)
  BY <1>1, InitGenePreserves, GetNewbornPreserves
<1>2. CASE \E k \in Keys : CheckUtilpower(k)
  BY <1>2, CheckUtilpowerPreserves
<1>3. CASE SortGene
  BY <1>3, SortGenePreserves
<1>4. CASE Walk
  BY <1>4, WalkPreserves
<1>5. CASE InsertBefore
  <2>1. lp \in Nodes /\ key[gene] < key[lp]
    BY <1>5 DEF InsertBefore, GoesBefore, IInv, ListInv, TypeOK
  <2> QED
    BY <1>5, <2>1, InsertPreserves DEF InsertBefore
<1>6. CASE InsertTail
  BY <1>6, InsertPreserves DEF InsertTail, Nodes
<1>7. CASE UNCHANGED vars
  BY <1>7 DEF vars, IInv, Ranked, Rises, ListInv, TypeOK, RingOK, OnlyNewbornUnlinked,
              NeighboursOrdered, CursorOK, Listed, Nodes
<1> QED
  BY <1>1, <1>2, <1>3, <1>4, <1>5, <1>6, <1>7 DEF Next

\* ListInv holds in every reachable state of the pointer code, for every population
\* and every range of keys.
THEOREM ListSafe == Spec => []ListInv
<1>1. IInv => ListInv
  BY DEF IInv
<1> QED
  BY <1>1, IInvInit, IInvStep, PTL DEF Spec

-----------------------------------------------------------------------------
(* The list as a sequence                                                  *)

\* A set of naturals that is not empty has a least element.
LEMMA LeastExists ==
    ASSUME NEW T \in SUBSET Nat, T # {}
    PROVE  \E x \in T : \A y \in T : x <= y
<1>1. PICK x \in T : \A y \in T : ~ (<<y, x>> \in OpToRel(<, Nat))
  BY NatLessThanWellFounded, WFMin
<1>2. \A y \in T : ~ (y < x)
  BY <1>1 DEF OpToRel
<1> QED
  BY <1>2

\* prev leads back wherever next leads.
LeadsBack(nx, pv) == \A n \in Nodes : nx[n] # NULL => pv[nx[n]] = n

\* The entries of a list are its genes and the head.
LEMMA EntryType ==
    ASSUME NEW q \in Seq(Genes)
    PROVE  /\ Len(q) \in Nat
           /\ \A i \in 1..Len(q) : q[i] \in Genes /\ NodeAt(q, i) = q[i]
           /\ \A i : NodeAt(q, i) \in Nodes /\ NodeAt(q, i) # NULL
           /\ \A i : i \notin 1..Len(q) => NodeAt(q, i) = ListHead
<1>1. Len(q) \in Nat
  BY LenProperties
<1>2. \A i \in 1..Len(q) : q[i] \in Genes
  BY ElementOfSeq
<1> QED
  BY <1>1, <1>2, GenesAssumption DEF NodeAt, Nodes

\* list_for_each visits no gene twice, and not the head before the end.
LEMMA EntriesDiffer ==
    ASSUME NEW nx, NEW pv, LeadsBack(nx, pv), NEW q \in Seq(Genes), IsChain(q, nx)
    PROVE  \A i, j \in 0..Len(q) : NodeAt(q, i) = NodeAt(q, j) => i = j
<1>1. /\ Len(q) \in Nat
      /\ \A i \in 1..Len(q) : q[i] \in Genes /\ NodeAt(q, i) = q[i]
      /\ \A i : NodeAt(q, i) \in Nodes /\ NodeAt(q, i) # NULL
      /\ NodeAt(q, 0) = ListHead
  BY EntryType
<1> DEFINE T == {i \in 0..Len(q) : \E j \in 0..Len(q) : j > i /\ NodeAt(q, i) = NodeAt(q, j)}
<1>2. SUFFICES ASSUME T # {} PROVE FALSE
  <2> SUFFICES ASSUME NEW i \in 0..Len(q), NEW j \in 0..Len(q), NodeAt(q, i) = NodeAt(q, j), i # j
               PROVE  FALSE
    OBVIOUS
  <2>1. i < j \/ j < i
    BY <1>1
  <2> QED
    BY <1>2, <2>1
<1>3. T \in SUBSET Nat
  BY <1>1
<1>4. PICK i \in T : \A y \in T : i <= y
  BY <1>2, <1>3, LeastExists
<1>5. PICK j \in 0..Len(q) : j > i /\ NodeAt(q, i) = NodeAt(q, j)
  BY <1>4
<1>6. i \in 0..Len(q) /\ j \in 1..Len(q) /\ NodeAt(q, j) # ListHead
  BY <1>1, <1>4, <1>5, GenesAssumption
<1>7. i # 0
  BY <1>1, <1>5, <1>6
<1>8. i - 1 \in 0..Len(q) /\ j - 1 \in 0..Len(q) /\ (i - 1) + 1 = i /\ (j - 1) + 1 = j /\ j - 1 > i - 1
  BY <1>1, <1>5, <1>6, <1>7
<1>9. nx[NodeAt(q, i - 1)] = NodeAt(q, i) /\ nx[NodeAt(q, j - 1)] = NodeAt(q, j)
  BY <1>8 DEF IsChain
<1>10. NodeAt(q, i - 1) = pv[NodeAt(q, i)] /\ NodeAt(q, j - 1) = pv[NodeAt(q, j)]
  BY <1>1, <1>9 DEF LeadsBack
<1>11. NodeAt(q, i - 1) = NodeAt(q, j - 1)
  BY <1>5, <1>10
<1>12. i - 1 \in T
  BY <1>8, <1>11
<1> QED
  BY <1>4, <1>6, <1>12

\* A shorter list cannot be followed along the same links as a longer one.
LEMMA NoShorterChain ==
    ASSUME NEW nx, NEW q \in Seq(Genes), NEW r \in Seq(Genes), IsChain(q, nx), IsChain(r, nx)
    PROVE  Len(q) >= Len(r) /\ \A i \in 0..Len(r) : NodeAt(q, i) = NodeAt(r, i)
<1>1. /\ Len(q) \in Nat
      /\ \A i \in 1..Len(q) : q[i] \in Genes /\ NodeAt(q, i) = q[i]
      /\ \A i : i \notin 1..Len(q) => NodeAt(q, i) = ListHead
  BY EntryType
<1>2. /\ Len(r) \in Nat
      /\ \A i \in 1..Len(r) : r[i] \in Genes /\ NodeAt(r, i) = r[i]
      /\ \A i : i \notin 1..Len(r) => NodeAt(r, i) = ListHead
  BY EntryType
<1> DEFINE T == {i \in 0..Len(r) : i > Len(q) \/ NodeAt(q, i) # NodeAt(r, i)}
<1>3. SUFFICES ASSUME T # {} PROVE FALSE
  <2>1. \A i \in 0..Len(r) : ~ (i > Len(q)) /\ NodeAt(q, i) = NodeAt(r, i)
    BY <1>3
  <2>2. Len(r) \in 0..Len(r)
    BY <1>2
  <2> QED
    BY <1>1, <1>2, <2>1, <2>2
<1>4. T \in SUBSET Nat
  BY <1>2
<1>5. PICK i \in T : \A y \in T : i <= y
  BY <1>3, <1>4, LeastExists
<1>6. i \in 0..Len(r) /\ i # 0
  <2>1. 0 \notin 1..Len(q) /\ 0 \notin 1..Len(r) /\ ~ (0 > Len(q))
    BY <1>1, <1>2
  <2> QED
    BY <1>1, <1>2, <1>5, <2>1
<1>7. i - 1 \in 0..Len(r) /\ i - 1 \notin T /\ (i - 1) + 1 = i
  BY <1>2, <1>5, <1>6
<1>8. i - 1 \in 0..Len(q) /\ NodeAt(q, i - 1) = NodeAt(r, i - 1)
  BY <1>1, <1>2, <1>6, <1>7
<1>9. nx[NodeAt(q, i - 1)] = NodeAt(q, i) /\ nx[NodeAt(r, i - 1)] = NodeAt(r, i)
  BY <1>7, <1>8 DEF IsChain
<1>10. NodeAt(q, i) = NodeAt(r, i)
  BY <1>8, <1>9
<1>11. i > Len(q)
  BY <1>5, <1>10
<1>12. i \notin 1..Len(q) /\ i \in 1..Len(r)
  BY <1>1, <1>2, <1>6, <1>11
<1> QED
  BY <1>1, <1>2, <1>10, <1>12, GenesAssumption

\* The links determine the list.
LEMMA ChainUnique ==
    ASSUME NEW nx, NEW q \in Seq(Genes), NEW r \in Seq(Genes), IsChain(q, nx), IsChain(r, nx)
    PROVE  q = r
<1>1. Len(q) \in Nat /\ \A i \in 1..Len(q) : q[i] \in Genes /\ NodeAt(q, i) = q[i]
  BY EntryType
<1>2. Len(r) \in Nat /\ \A i \in 1..Len(r) : r[i] \in Genes /\ NodeAt(r, i) = r[i]
  BY EntryType
<1>3. Len(q) >= Len(r) /\ \A i \in 0..Len(r) : NodeAt(q, i) = NodeAt(r, i)
  BY NoShorterChain
<1>4. Len(r) >= Len(q)
  BY NoShorterChain
<1>5. Len(q) = Len(r)
  BY <1>1, <1>2, <1>3, <1>4
<1>6. \A i \in 1..Len(q) : q[i] = r[i]
  BY <1>1, <1>2, <1>3, <1>5
<1> QED
  BY <1>5, <1>6, SeqEqual

\* A list along consistent links is no longer than the population, and is the one
\* the mapping names.
LEMMA ChainIsVisited ==
    ASSUME NEW nx, NEW pv, LeadsBack(nx, pv), NEW q \in Seq(Genes), IsChain(q, nx)
    PROVE  /\ q \in BoundedSeq(Genes, Cardinality(Genes))
           /\ \A r \in BoundedSeq(Genes, Cardinality(Genes)) : IsChain(r, nx) => r = q
<1>1. Len(q) \in Nat /\ \A i \in 1..Len(q) : q[i] \in Genes /\ NodeAt(q, i) = q[i]
  BY EntryType
<1>2. q \in [1..Len(q) -> Genes]
  BY LenProperties, <1>1
<1>3. \A i, j \in 1..Len(q) : q[i] = q[j] => i = j
  <2>1. \A i, j \in 0..Len(q) : NodeAt(q, i) = NodeAt(q, j) => i = j
    BY EntriesDiffer
  <2>2. \A i \in 1..Len(q) : i \in 0..Len(q)
    BY <1>1
  <2> QED
    BY <1>1, <2>1, <2>2
<1>4. q \in Injection(1..Len(q), Genes)
  BY <1>2, <1>3 DEF Injection, IsInjective
<1>5. Cardinality(1..Len(q)) <= Cardinality(Genes)
  BY <1>4, FiniteAssumption, FS_Injection
<1>6. Cardinality(1..Len(q)) = Len(q)
  BY <1>1, FS_Interval
<1>7. Cardinality(Genes) \in Nat
  BY FiniteAssumption, FS_CardinalityType
<1>8. Len(q) \in 0..Cardinality(Genes)
  BY <1>1, <1>5, <1>6, <1>7
<1>9. q \in BoundedSeq(Genes, Cardinality(Genes))
  BY <1>2, <1>8 DEF BoundedSeq, SeqOf
<1>10. ASSUME NEW r \in BoundedSeq(Genes, Cardinality(Genes)) PROVE r \in Seq(Genes)
  <2>1. PICK m \in 0..Cardinality(Genes) : r \in [1..m -> Genes]
    BY DEF BoundedSeq, SeqOf
  <2>2. m \in Nat
    BY <1>7
  <2> QED
    BY <2>1, <2>2, SeqDef
<1> QED
  BY <1>9, <1>10, ChainUnique

\* Where everyone is after an insertion at p.
LEMMA InsertAtProperties ==
    ASSUME NEW l \in Seq(Genes), NEW g \in Genes, NEW p \in 1..(Len(l) + 1)
    PROVE  LET s == Abstract!InsertAt(l, p, g)
           IN  /\ s \in Seq(Genes) /\ Len(s) = Len(l) + 1
               /\ \A i \in 1..(Len(l) + 1) :
                     s[i] = IF i < p THEN l[i] ELSE IF i = p THEN g ELSE l[i - 1]
<1> DEFINE a == SubSeq(l, 1, p - 1)
           c == SubSeq(l, p, Len(l))
<1>1. Len(l) \in Nat /\ p \in Nat /\ \A i \in 1..Len(l) : l[i] \in Genes
  BY LenProperties, ElementOfSeq
<1>2. a \in Seq(Genes) /\ Len(a) = p - 1 /\ \A i \in 1..(p - 1) : a[i] = l[i]
  <2>1. \A i \in 1..(p - 1) : l[i] \in Genes
    BY <1>1
  <2> QED
    BY <1>1, <2>1, SubSeqProperties
<1>3. c \in Seq(Genes) /\ Len(c) = Len(l) - p + 1 /\ \A i \in 1..(Len(l) - p + 1) : c[i] = l[p + i - 1]
  <2>1. \A i \in p..Len(l) : l[i] \in Genes
    BY <1>1
  <2> QED
    BY <1>1, <2>1, SubSeqProperties
<1> HIDE DEF a, c
<1>4. a \o <<g>> = Append(a, g)
  BY <1>2, AppendIsConcat
<1> DEFINE b == Append(a, g)
<1>5. b \in Seq(Genes) /\ Len(b) = p /\ (\A i \in 1..(p - 1) : b[i] = l[i]) /\ b[p] = g
  <2>1. /\ b \in Seq(Genes) /\ Len(b) = Len(a) + 1
        /\ \A i \in 1..Len(a) : b[i] = a[i]
        /\ b[Len(a) + 1] = g
    BY <1>2, AppendProperties
  <2>2. Len(a) + 1 = p
    BY <1>1, <1>2
  <2> QED
    BY <1>2, <2>1, <2>2
<1> HIDE DEF b
<1>6. b \o c \in Seq(Genes) /\ Len(b \o c) = Len(l) + 1
      /\ \A i \in 1..(Len(l) + 1) : (b \o c)[i] = IF i <= p THEN b[i] ELSE c[i - p]
  <2>1. /\ b \o c \in Seq(Genes) /\ Len(b \o c) = Len(b) + Len(c)
        /\ \A i \in 1..(Len(b) + Len(c)) : (b \o c)[i] = IF i <= Len(b) THEN b[i] ELSE c[i - Len(b)]
    BY <1>3, <1>5, ConcatProperties
  <2>2. Len(b) + Len(c) = Len(l) + 1
    BY <1>1, <1>3, <1>5
  <2> QED
    BY <1>5, <2>1, <2>2
<1>7. ASSUME NEW i \in 1..(Len(l) + 1)
      PROVE  (b \o c)[i] = IF i < p THEN l[i] ELSE IF i = p THEN g ELSE l[i - 1]
  <2>1. CASE i < p
    <3>1. i \in 1..(p - 1) /\ i <= p /\ ~ (i = p)
      BY <1>1, <2>1
    <3> QED
      BY <1>5, <1>6, <2>1, <3>1
  <2>2. CASE i = p
    <3>1. i <= p /\ ~ (i < p)
      BY <1>1, <2>2
    <3> QED
      BY <1>5, <1>6, <2>2, <3>1
  <2>3. CASE i > p
    <3>1. i - p \in 1..(Len(l) - p + 1) /\ p + (i - p) - 1 = i - 1 /\ ~ (i <= p) /\ ~ (i < p) /\ ~ (i = p)
      BY <1>1, <2>3
    <3> QED
      BY <1>3, <1>6, <3>1
  <2>4. i < p \/ i = p \/ i > p
    BY <1>1
  <2> QED
    BY <2>1, <2>2, <2>3, <2>4
<1> QED
  BY <1>4, <1>6, <1>7 DEF Abstract!InsertAt, a, b, c

\* Where everyone is after the removal of the gene at p.
LEMMA RemoveAtProperties ==
    ASSUME NEW l \in Seq(Genes), NEW p \in 1..Len(l)
    PROVE  LET s == Abstract!RemoveAt(l, p)
           IN  /\ s \in Seq(Genes) /\ Len(s) = Len(l) - 1
               /\ \A i \in 1..(Len(l) - 1) : s[i] = IF i < p THEN l[i] ELSE l[i + 1]
<1> DEFINE a == SubSeq(l, 1, p - 1)
           c == SubSeq(l, p + 1, Len(l))
<1>1. Len(l) \in Nat /\ p \in Nat /\ \A i \in 1..Len(l) : l[i] \in Genes
  BY LenProperties, ElementOfSeq
<1>2. a \in Seq(Genes) /\ Len(a) = p - 1 /\ \A i \in 1..(p - 1) : a[i] = l[i]
  <2>1. \A i \in 1..(p - 1) : l[i] \in Genes
    BY <1>1
  <2> QED
    BY <1>1, <2>1, SubSeqProperties
<1>3. c \in Seq(Genes) /\ Len(c) = Len(l) - p /\ \A i \in 1..(Len(l) - p) : c[i] = l[p + i]
  <2>1. \A i \in (p + 1)..Len(l) : l[i] \in Genes
    BY <1>1
  <2> QED
    BY <1>1, <2>1, SubSeqProperties
<1> HIDE DEF a, c
<1>4. a \o c \in Seq(Genes) /\ Len(a \o c) = Len(l) - 1
      /\ \A i \in 1..(Len(l) - 1) : (a \o c)[i] = IF i <= p - 1 THEN a[i] ELSE c[i - (p - 1)]
  <2>1. /\ a \o c \in Seq(Genes) /\ Len(a \o c) = Len(a) + Len(c)
        /\ \A i \in 1..(Len(a) + Len(c)) : (a \o c)[i] = IF i <= Len(a) THEN a[i] ELSE c[i - Len(a)]
    BY <1>2, <1>3, ConcatProperties
  <2>2. Len(a) + Len(c) = Len(l) - 1
    BY <1>1, <1>2, <1>3
  <2> QED
    BY <1>2, <2>1, <2>2
<1>5. ASSUME NEW i \in 1..(Len(l) - 1)
      PROVE  (a \o c)[i] = IF i < p THEN l[i] ELSE l[i + 1]
  <2>1. CASE i < p
    <3>1. i \in 1..(p - 1) /\ i <= p - 1
      BY <1>1, <2>1
    <3> QED
      BY <1>2, <1>4, <2>1, <3>1
  <2>2. CASE i >= p
    <3>1. i - (p - 1) \in 1..(Len(l) - p) /\ p + (i - (p - 1)) = i + 1 /\ ~ (i <= p - 1) /\ ~ (i < p)
      BY <1>1, <2>2
    <3> QED
      BY <1>3, <1>4, <3>1
  <2>3. i < p \/ i >= p
    BY <1>1
  <2> QED
    BY <2>1, <2>2, <2>3
<1> QED
  BY <1>4, <1>5 DEF Abstract!RemoveAt, a, c

\* Removing a gene: it goes from its place, or nothing happens when it has none.
LEMMA UnlistedProperties ==
    ASSUME NEW q \in Seq(Genes), NEW g \in Genes
    PROVE  \/ /\ \A i \in 1..Len(q) : q[i] # g
              /\ Abstract!Unlisted(q, g) = q
           \/ \E p \in 1..Len(q) : q[p] = g /\ Abstract!Unlisted(q, g) = Abstract!RemoveAt(q, p)
<1>1. CASE \A i \in 1..Len(q) : q[i] # g
  BY <1>1 DEF Abstract!Unlisted, Abstract!RemoveFirst
<1>2. CASE \E i \in 1..Len(q) : q[i] = g
  <2> DEFINE T == {i \in 1..Len(q) : q[i] = g}
             p == Abstract!Min(T)
  <2>1. T \in SUBSET Nat /\ T # {}
    BY <1>2, LenProperties
  <2>2. \E x \in T : \A y \in T : x <= y
    BY <2>1, LeastExists
  <2>3. p \in T
    BY <2>2 DEF Abstract!Min
  <2>4. Abstract!Unlisted(q, g) = Abstract!RemoveAt(q, p)
    BY <1>2, <2>1 DEF Abstract!Unlisted, Abstract!RemoveFirst, Abstract!SelectInSeq
  <2> QED
    BY <2>3, <2>4
<1> QED
  BY <1>1, <1>2

\* The place behind the gene's equals is the only one InsertSorted can choose.
LEMMA PositionUnique ==
    ASSUME NEW q \in Seq(Genes), NEW ks \in [Genes -> Int], NEW g \in Genes,
           NEW p \in 1..(Len(q) + 1),
           \A i \in 1..(p - 1) : ks[q[i]] <= ks[g],
           p <= Len(q) => ks[g] < ks[q[p]]
    PROVE  Abstract!InsertSorted(q, ks, g) = Abstract!InsertAt(q, p, g)
<1> DEFINE Fits(x) == /\ \A i \in 1..(x - 1) : ks[q[i]] <= ks[g]
                      /\ x <= Len(q) => ks[g] < ks[q[x]]
<1>1. Len(q) \in Nat /\ p \in Nat /\ \A i \in 1..Len(q) : q[i] \in Genes /\ ks[q[i]] \in Int
  BY EntryType
<1>2. ASSUME NEW x \in 1..(Len(q) + 1), Fits(x) PROVE x = p
  <2>1. CASE x < p
    <3>1. x \in 1..(p - 1) /\ x \in 1..Len(q) /\ x <= Len(q)
      BY <1>1, <2>1
    <3>2. ks[q[x]] <= ks[g] /\ ks[g] < ks[q[x]]
      BY <1>2, <3>1
    <3> QED
      BY <1>1, <3>1, <3>2
  <2>2. CASE x > p
    <3>1. p \in 1..(x - 1) /\ p \in 1..Len(q) /\ p <= Len(q)
      BY <1>1, <2>2
    <3>2. ks[q[p]] <= ks[g] /\ ks[g] < ks[q[p]]
      BY <1>2, <3>1
    <3> QED
      BY <1>1, <3>1, <3>2
  <2> QED
    BY <1>1, <2>1, <2>2
<1>3. Fits(p)
  OBVIOUS
<1>4. Abstract!InsertPosition(q, ks, g) = CHOOSE x \in 1..(Len(q) + 1) : Fits(x)
  BY DEF Abstract!InsertPosition
<1> HIDE DEF Fits
<1>5. Abstract!InsertPosition(q, ks, g) = p
  BY <1>2, <1>3, <1>4
<1> QED
  BY <1>5 DEF Abstract!InsertSorted

\* list_add_tail in front of the p-th entry puts the gene at place p.
LEMMA InsertChain ==
    ASSUME NEW nx, NEW pv, NEW nx2, LeadsBack(nx, pv), NEW q \in Seq(Genes), IsChain(q, nx),
           NEW g \in Genes, \A i \in 1..Len(q) : q[i] # g, NEW p \in 1..(Len(q) + 1),
           nx2[g] = NodeAt(q, p), nx2[NodeAt(q, p - 1)] = g,
           \A m \in Nodes \ {g, NodeAt(q, p - 1)} : nx2[m] = nx[m]
    PROVE  IsChain(Abstract!InsertAt(q, p, g), nx2)
<1>1. /\ Len(q) \in Nat
      /\ \A i \in 1..Len(q) : q[i] \in Genes /\ NodeAt(q, i) = q[i]
      /\ \A i : NodeAt(q, i) \in Nodes /\ NodeAt(q, i) # NULL
      /\ \A i : i \notin 1..Len(q) => NodeAt(q, i) = ListHead
  BY EntryType
<1> DEFINE s == Abstract!InsertAt(q, p, g)
<1>3. /\ s \in Seq(Genes) /\ Len(s) = Len(q) + 1
      /\ \A i \in 1..(Len(q) + 1) : s[i] = IF i < p THEN q[i] ELSE IF i = p THEN g ELSE q[i - 1]
  BY InsertAtProperties
<1> HIDE DEF s
<1>4. ASSUME NEW i \in 0..(Len(q) + 2)
      PROVE  NodeAt(s, i) = IF i < p THEN NodeAt(q, i) ELSE IF i = p THEN g ELSE NodeAt(q, i - 1)
  <2>1. CASE i < p
    <3>1. i \in 1..Len(s) <=> i \in 1..Len(q)
      BY <1>1, <1>3, <2>1
    <3>2. i \in 1..Len(q) => i \in 1..(Len(q) + 1)
      BY <1>1
    <3> QED
      BY <1>3, <2>1, <3>1, <3>2 DEF NodeAt
  <2>2. CASE i = p
    <3>1. i \in 1..Len(s) /\ ~ (i < p) /\ i \in 1..(Len(q) + 1)
      BY <1>1, <1>3, <2>2
    <3> QED
      BY <1>3, <2>2, <3>1 DEF NodeAt
  <2>3. CASE i > p
    <3>1. /\ ~ (i < p) /\ i # p
          /\ i \in 1..Len(s) <=> i - 1 \in 1..Len(q)
      BY <1>1, <1>3, <2>3
    <3>2. i - 1 \in 1..Len(q) => i \in 1..(Len(q) + 1)
      BY <1>1
    <3> QED
      BY <1>3, <3>1, <3>2 DEF NodeAt
  <2>4. i < p \/ i = p \/ i > p
    BY <1>1
  <2> QED
    BY <2>1, <2>2, <2>3, <2>4
<1>5. \A i : NodeAt(q, i) # g
  <2>1. g # ListHead
    BY GenesAssumption
  <2> QED
    BY <1>1, <2>1
<1>6. \A i, j \in 0..Len(q) : NodeAt(q, i) = NodeAt(q, j) => i = j
  BY EntriesDiffer
<1>7. ASSUME NEW i \in 0..Len(q), i # p - 1 PROVE nx2[NodeAt(q, i)] = NodeAt(q, i + 1)
  <2>1. p - 1 \in 0..Len(q)
    BY <1>1
  <2>2. NodeAt(q, i) # NodeAt(q, p - 1)
    BY <1>6, <1>7, <2>1
  <2>3. nx2[NodeAt(q, i)] = nx[NodeAt(q, i)]
    BY <1>1, <1>5, <2>2
  <2> QED
    BY <2>3 DEF IsChain
<1>8. ASSUME NEW i \in 0..(Len(q) + 1) PROVE nx2[NodeAt(s, i)] = NodeAt(s, i + 1)
  <2>1. i \in 0..(Len(q) + 2) /\ i + 1 \in 0..(Len(q) + 2)
    BY <1>1
  <2>2. CASE i < p - 1
    <3>1. i < p /\ i + 1 < p /\ i \in 0..Len(q) /\ i # p - 1
      BY <1>1, <2>2
    <3> QED
      BY <1>4, <1>7, <2>1, <3>1
  <2>3. CASE i = p - 1
    <3>1. i < p /\ i + 1 = p /\ ~ (i + 1 < p)
      BY <1>1, <2>3
    <3>2. NodeAt(s, i) = NodeAt(q, p - 1) /\ NodeAt(s, i + 1) = g
      BY <1>4, <2>1, <2>3, <3>1
    <3> QED
      BY <3>2
  <2>4. CASE i = p
    <3>1. ~ (i < p) /\ ~ (i + 1 < p) /\ i + 1 # p /\ (i + 1) - 1 = p
      BY <1>1, <2>4
    <3>2. NodeAt(s, i) = g /\ NodeAt(s, i + 1) = NodeAt(q, p)
      BY <1>4, <2>1, <2>4, <3>1
    <3> QED
      BY <3>2
  <2>5. CASE i > p
    <3>1. /\ ~ (i < p) /\ i # p /\ ~ (i + 1 < p) /\ i + 1 # p
          /\ (i + 1) - 1 = (i - 1) + 1 /\ i - 1 \in 0..Len(q) /\ i - 1 # p - 1
      BY <1>1, <2>5
    <3>2. NodeAt(s, i) = NodeAt(q, i - 1) /\ NodeAt(s, i + 1) = NodeAt(q, (i - 1) + 1)
      BY <1>4, <2>1, <3>1
    <3> QED
      BY <1>7, <3>1, <3>2
  <2>6. i < p - 1 \/ i = p - 1 \/ i = p \/ i > p
    BY <1>1
  <2> QED
    BY <2>2, <2>3, <2>4, <2>5, <2>6
<1>9. IsChain(s, nx2)
  BY <1>3, <1>8 DEF IsChain
<1> QED
  BY <1>9 DEF s

\* list_del_init of the p-th entry leaves the list without place p.
LEMMA RemoveChain ==
    ASSUME NEW nx, NEW pv, NEW nx2, LeadsBack(nx, pv), NEW q \in Seq(Genes), IsChain(q, nx),
           NEW p \in 1..Len(q), nx2[NodeAt(q, p - 1)] = NodeAt(q, p + 1),
           \A m \in Nodes \ {q[p], NodeAt(q, p - 1)} : nx2[m] = nx[m]
    PROVE  IsChain(Abstract!RemoveAt(q, p), nx2)
<1>1. /\ Len(q) \in Nat
      /\ \A i \in 1..Len(q) : q[i] \in Genes /\ NodeAt(q, i) = q[i]
      /\ \A i : NodeAt(q, i) \in Nodes /\ NodeAt(q, i) # NULL
      /\ \A i : i \notin 1..Len(q) => NodeAt(q, i) = ListHead
  BY EntryType
<1> DEFINE s == Abstract!RemoveAt(q, p)
<1>3. /\ s \in Seq(Genes) /\ Len(s) = Len(q) - 1
      /\ \A i \in 1..(Len(q) - 1) : s[i] = IF i < p THEN q[i] ELSE q[i + 1]
  BY RemoveAtProperties
<1> HIDE DEF s
<1>4. ASSUME NEW i \in 0..Len(q)
      PROVE  NodeAt(s, i) = IF i < p THEN NodeAt(q, i) ELSE NodeAt(q, i + 1)
  <2>1. CASE i < p
    <3>1. /\ i \in 1..Len(s) <=> i \in 1..Len(q)
      BY <1>1, <1>3, <2>1
    <3> QED
      BY <1>3, <2>1, <3>1 DEF NodeAt
  <2>2. CASE i >= p
    <3>1. /\ ~ (i < p)
          /\ i \in 1..Len(s) <=> i + 1 \in 1..Len(q)
      BY <1>1, <1>3, <2>2
    <3> QED
      BY <1>3, <3>1 DEF NodeAt
  <2>3. i < p \/ i >= p
    BY <1>1
  <2> QED
    BY <2>1, <2>2, <2>3
<1>5. \A i, j \in 0..Len(q) : NodeAt(q, i) = NodeAt(q, j) => i = j
  BY EntriesDiffer
<1>6. ASSUME NEW i \in 0..Len(q), i # p - 1, i # p PROVE nx2[NodeAt(q, i)] = NodeAt(q, i + 1)
  <2>1. p - 1 \in 0..Len(q) /\ p \in 0..Len(q)
    BY <1>1
  <2>2. NodeAt(q, i) # NodeAt(q, p - 1) /\ NodeAt(q, i) # q[p]
    BY <1>1, <1>5, <1>6, <2>1
  <2>3. nx2[NodeAt(q, i)] = nx[NodeAt(q, i)]
    BY <1>1, <2>2
  <2> QED
    BY <2>3 DEF IsChain
<1>7. ASSUME NEW i \in 0..(Len(q) - 1) PROVE nx2[NodeAt(s, i)] = NodeAt(s, i + 1)
  <2>1. i \in 0..Len(q) /\ i + 1 \in 0..Len(q)
    BY <1>1
  <2>2. CASE i < p - 1
    <3>1. i < p /\ i + 1 < p /\ i # p - 1 /\ i # p
      BY <1>1, <2>2
    <3> QED
      BY <1>4, <1>6, <2>1, <3>1
  <2>3. CASE i = p - 1
    <3>1. i < p /\ ~ (i + 1 < p) /\ (i + 1) + 1 = p + 1
      BY <1>1, <2>3
    <3>2. NodeAt(s, i) = NodeAt(q, p - 1) /\ NodeAt(s, i + 1) = NodeAt(q, p + 1)
      BY <1>4, <2>1, <2>3, <3>1
    <3> QED
      BY <3>2
  <2>4. CASE i >= p
    <3>1. ~ (i < p) /\ ~ (i + 1 < p) /\ i + 1 # p - 1 /\ i + 1 # p
      BY <1>1, <2>4
    <3>2. NodeAt(s, i) = NodeAt(q, i + 1) /\ NodeAt(s, i + 1) = NodeAt(q, (i + 1) + 1)
      BY <1>4, <2>1, <3>1
    <3> QED
      BY <1>6, <2>1, <3>1, <3>2
  <2>5. i < p - 1 \/ i = p - 1 \/ i >= p
    BY <1>1
  <2> QED
    BY <2>2, <2>3, <2>4, <2>5
<1>8. IsChain(s, nx2)
  BY <1>3, <1>7 DEF IsChain
<1> QED
  BY <1>8 DEF s

-----------------------------------------------------------------------------
(* The refinement                                                          *)

\* The walk of sort_gene_* is at some place of the list, and has found no larger key
\* before it.
CursorAt(q) ==
    pc = "walk" => \E p \in 1..(Len(q) + 1) :
                     /\ lp = NodeAt(q, p)
                     /\ \A i \in 1..(p - 1) : key[q[i]] <= key[gene]

ChainInv == \E q \in Seq(Genes) : IsChain(q, next) /\ CursorAt(q)

\* The mapping yields the list.
LEMMA VisitedIs ==
    ASSUME RingOK, NEW q \in Seq(Genes), IsChain(q, next)
    PROVE  LeadsBack(next, prev) /\ Visited = q
<1>1. LeadsBack(next, prev)
  BY DEF RingOK, LeadsBack
<1>2. /\ q \in BoundedSeq(Genes, Cardinality(Genes))
      /\ \A r \in BoundedSeq(Genes, Cardinality(Genes)) : IsChain(r, next) => r = q
  BY <1>1, ChainIsVisited
<1> QED
  BY <1>1, <1>2 DEF Visited

\* The same after a step.
LEMMA VisitedNext ==
    ASSUME RingOK', NEW q \in Seq(Genes), IsChain(q, next')
    PROVE  Visited' = q
<1>1. LeadsBack(next', prev')
  BY DEF RingOK, LeadsBack
<1>2. /\ q \in BoundedSeq(Genes, Cardinality(Genes))
      /\ \A r \in BoundedSeq(Genes, Cardinality(Genes)) : IsChain(r, next') => r = q
  BY <1>1, ChainIsVisited
<1> QED
  BY <1>1, <1>2 DEF Visited

\* init_gene touches a node that is in no list: SortedGenes takes up a new gene.
LEMMA InitGeneSimulates ==
    ASSUME IInv, IInv', ChainInv, NEW g \in Genes, InitGene(g)
    PROVE  ChainInv' /\ Abstract!Take(g)
<1> PICK q \in Seq(Genes) : IsChain(q, next) /\ CursorAt(q)
  BY DEF ChainInv
<1>1. /\ Len(q) \in Nat
      /\ \A i \in 1..Len(q) : q[i] \in Genes /\ NodeAt(q, i) = q[i]
      /\ \A i : NodeAt(q, i) \in Nodes /\ NodeAt(q, i) # NULL
  BY EntryType
<1>2. /\ next' = [next EXCEPT ![g] = g] /\ next[g] = NULL
      /\ key' = key /\ gene' = g /\ pc = "idle" /\ pc' = "build"
  BY DEF InitGene, Fresh, SetLinks, INIT_LIST_HEAD, lists
<1>3. \A i \in 0..Len(q) : NodeAt(q, i) # g
  BY <1>1, <1>2 DEF IsChain
<1>4. \A i \in 1..Len(q) : q[i] # g
  <2>1. \A i \in 1..Len(q) : i \in 0..Len(q)
    BY <1>1
  <2> QED
    BY <1>1, <1>3, <2>1
<1>5. IsChain(q, next')
  <2>1. \A m \in Nodes : m # g => next'[m] = next[m]
    BY <1>2 DEF IInv, ListInv, TypeOK
  <2> QED
    BY <1>1, <1>3, <2>1 DEF IsChain
<1>6. Visited = q /\ Visited' = q
  BY <1>5, VisitedIs, VisitedNext DEF IInv, ListInv
<1>7. Abstract!Unlisted(q, g) = q
  BY <1>4, UnlistedProperties
<1>8. Abstract!Take(g)
  BY <1>2, <1>6, <1>7 DEF Abstract!Take
<1>9. CursorAt(q)'
  BY <1>2 DEF CursorAt
<1> QED
  BY <1>5, <1>8, <1>9 DEF ChainInv

\* get_newborn closes the list over the gene: SortedGenes takes the gene out.
LEMMA GetNewbornSimulates ==
    ASSUME IInv, IInv', ChainInv, NEW g \in Genes, GetNewborn(g)
    PROVE  ChainInv' /\ Abstract!Take(g)
<1> PICK q \in Seq(Genes) : IsChain(q, next) /\ CursorAt(q)
  BY DEF ChainInv
<1> DEFINE b == prev[g]
           n == next[g]
<1>1. /\ Len(q) \in Nat
      /\ \A i \in 1..Len(q) : q[i] \in Genes /\ NodeAt(q, i) = q[i]
      /\ \A i : NodeAt(q, i) \in Nodes /\ NodeAt(q, i) # NULL
      /\ \A i : i \notin 1..Len(q) => NodeAt(q, i) = ListHead
  BY EntryType
<1>2. /\ next' = [[next EXCEPT ![b] = n] EXCEPT ![g] = g]
      /\ key' = key /\ gene' = g /\ pc = "idle" /\ pc' = "build"
      /\ \A h \in Genes : next[h] # NULL
  BY DEF GetNewborn, Fresh, SetLinks, list_del_init, list_del_between, INIT_LIST_HEAD, lists
<1>3. g \in Nodes /\ g # ListHead /\ b \in Nodes /\ b # g /\ next[b] = g
  BY <1>2, GenesAssumption DEF IInv, ListInv, TypeOK, RingOK, OnlyNewbornUnlinked, Nodes
<1>4. /\ next'[b] = n
      /\ \A m \in Nodes \ {g, b} : next'[m] = next[m]
  BY <1>2, <1>3 DEF IInv, ListInv, TypeOK
<1> HIDE DEF b, n
<1>5. LeadsBack(next, prev) /\ Visited = q
  BY VisitedIs DEF IInv, ListInv
<1>6. \E s \in Seq(Genes) : IsChain(s, next') /\ s = Abstract!Unlisted(q, g)
  <2>1. CASE (\A i \in 1..Len(q) : q[i] # g) /\ Abstract!Unlisted(q, g) = q
    <3>1. ASSUME NEW i \in 0..Len(q) PROVE next'[NodeAt(q, i)] = NodeAt(q, i + 1)
      <4>1. \A j : NodeAt(q, j) # g
        BY <1>1, <1>3, <2>1
      <4>2. next[NodeAt(q, i)] = NodeAt(q, i + 1)
        BY DEF IsChain
      <4>3. NodeAt(q, i) # b
        BY <1>3, <4>1, <4>2
      <4> QED
        BY <1>1, <1>4, <4>1, <4>2, <4>3
    <3>2. IsChain(q, next')
      BY <3>1 DEF IsChain
    <3> QED
      BY <2>1, <3>2
  <2>2. ASSUME NEW p \in 1..Len(q), q[p] = g, Abstract!Unlisted(q, g) = Abstract!RemoveAt(q, p)
        PROVE  \E s \in Seq(Genes) : IsChain(s, next') /\ s = Abstract!Unlisted(q, g)
    <3>1. p - 1 \in 0..Len(q) /\ p \in 0..Len(q) /\ (p - 1) + 1 = p
      BY <1>1
    <3>2. next[NodeAt(q, p - 1)] = g /\ n = NodeAt(q, p + 1)
      BY <1>1, <2>2, <3>1 DEF IsChain, n
    <3>3. NodeAt(q, p - 1) = b
      BY <1>1, <1>5, <3>2, GenesAssumption DEF LeadsBack, b
    <3>4. next'[NodeAt(q, p - 1)] = NodeAt(q, p + 1)
      BY <1>4, <3>2, <3>3
    <3>5. \A m \in Nodes \ {q[p], NodeAt(q, p - 1)} : next'[m] = next[m]
      BY <1>4, <2>2, <3>3
    <3>6. IsChain(Abstract!RemoveAt(q, p), next')
      BY <1>5, <3>4, <3>5, RemoveChain
    <3>7. Abstract!RemoveAt(q, p) \in Seq(Genes)
      BY RemoveAtProperties
    <3> QED
      BY <2>2, <3>6, <3>7
  <2> QED
    BY <2>1, <2>2, UnlistedProperties
<1>7. PICK s \in Seq(Genes) : IsChain(s, next') /\ s = Abstract!Unlisted(q, g)
  BY <1>6
<1>8. Visited' = s
  BY <1>7, VisitedNext DEF IInv, ListInv
<1>9. Abstract!Take(g)
  BY <1>2, <1>5, <1>7, <1>8 DEF Abstract!Take
<1>10. CursorAt(s)'
  BY <1>2 DEF CursorAt
<1> QED
  BY <1>7, <1>9, <1>10 DEF ChainInv

\* check_utilpower evaluates the gene that is off the list.
LEMMA CheckUtilpowerSimulates ==
    ASSUME IInv, IInv', ChainInv, NEW k \in Keys, CheckUtilpower(k)
    PROVE  ChainInv' /\ Abstract!Evaluate(k)
<1> PICK q \in Seq(Genes) : IsChain(q, next) /\ CursorAt(q)
  BY DEF ChainInv
<1>1. /\ key' = [key EXCEPT ![gene] = k] /\ next' = next /\ gene' = gene /\ pc' = pc
      /\ pc = "build" /\ gene \in Genes
  BY DEF CheckUtilpower, links, IInv, ListInv, TypeOK
<1>2. IsChain(q, next')
  BY <1>1
<1>3. Visited' = Visited
  BY <1>1 DEF Visited
<1>4. Abstract!Evaluate(k)
  BY <1>1, <1>3, GenesAssumption DEF Abstract!Evaluate
<1>5. CursorAt(q)'
  BY <1>1 DEF CursorAt
<1> QED
  BY <1>2, <1>4, <1>5 DEF ChainInv

\* The list_del_init that opens sort_gene_* finds the gene unlinked: a stuttering step,
\* after which the cursor is at the first place.
LEMMA SortGeneSimulates ==
    ASSUME IInv, IInv', ChainInv, SortGene
    PROVE  ChainInv' /\ UNCHANGED Abstract!vars
<1> PICK q \in Seq(Genes) : IsChain(q, next) /\ CursorAt(q)
  BY DEF ChainInv
<1>1. /\ pc = "build" /\ pc' = "walk" /\ gene \in Genes /\ UNCHANGED <<key, gene>>
      /\ next[gene] = gene /\ prev[gene] = gene
  BY GenesAssumption DEF SortGene, IInv, ListInv, TypeOK, RingOK, OnlyNewbornUnlinked, Nodes
<1>2. next' = next /\ lp' = next[ListHead]
  BY <1>1, GenesAssumption
  DEF SortGene, SetLinks, list_del_init, list_del_between, INIT_LIST_HEAD, lists,
      IInv, ListInv, TypeOK, Nodes
<1>3. /\ Len(q) \in Nat
      /\ \A i : i \notin 1..Len(q) => NodeAt(q, i) = ListHead
  BY EntryType
<1>4. lp' = NodeAt(q, 1)
  <2>1. 0 \in 0..Len(q) /\ 0 \notin 1..Len(q) /\ 0 + 1 = 1
    BY <1>3
  <2>2. next[NodeAt(q, 0)] = NodeAt(q, 0 + 1)
    BY <2>1 DEF IsChain
  <2> QED
    BY <1>2, <1>3, <2>1, <2>2
<1>5. CursorAt(q)'
  <2>1. 1 \in 1..(Len(q) + 1) /\ \A i \in 1..(1 - 1) : FALSE
    BY <1>3
  <2> QED
    BY <1>4, <2>1 DEF CursorAt
<1>6. Visited' = Visited
  BY <1>2 DEF Visited
<1>7. UNCHANGED Abstract!vars
  BY <1>1, <1>6 DEF Abstract!vars
<1> QED
  BY <1>2, <1>5, <1>7 DEF ChainInv

\* A turn of the walk is a stuttering step that moves the cursor one place on.
LEMMA WalkSimulates ==
    ASSUME IInv, IInv', ChainInv, Walk
    PROVE  ChainInv' /\ UNCHANGED Abstract!vars
<1> PICK q \in Seq(Genes) : IsChain(q, next) /\ CursorAt(q)
  BY DEF ChainInv
<1>1. /\ pc = "walk" /\ lp # ListHead /\ ~ (key[gene] < key[lp]) /\ lp' = next[lp]
      /\ UNCHANGED <<next, prev, key, gene, pc>>
  BY DEF Walk, GoesBefore, links
<1>2. PICK p \in 1..(Len(q) + 1) :
        /\ lp = NodeAt(q, p)
        /\ \A i \in 1..(p - 1) : key[q[i]] <= key[gene]
  BY <1>1 DEF CursorAt
<1>3. /\ Len(q) \in Nat
      /\ \A i \in 1..Len(q) : q[i] \in Genes /\ NodeAt(q, i) = q[i]
      /\ \A i : i \notin 1..Len(q) => NodeAt(q, i) = ListHead
  BY EntryType
<1>4. p \in 1..Len(q) /\ lp = q[p] /\ lp \in Genes
  BY <1>1, <1>2, <1>3
<1>5. p \in 0..Len(q) /\ p + 1 \in 1..(Len(q) + 1)
  BY <1>3, <1>4
<1>6. lp' = NodeAt(q, p + 1)
  BY <1>1, <1>2, <1>5 DEF IsChain
<1>7. key[lp] \in Int /\ key[gene] \in Int
  BY <1>1, <1>4, KeysAssumption DEF IInv, ListInv, TypeOK
<1>8. key[q[p]] <= key[gene]
  BY <1>1, <1>4, <1>7
<1>9. ASSUME NEW i \in 1..((p + 1) - 1) PROVE key[q[i]] <= key[gene]
  <2>1. i \in 1..(p - 1) \/ i = p
    BY <1>4
  <2> QED
    BY <1>2, <1>8, <2>1
<1>10. CursorAt(q)'
  BY <1>1, <1>5, <1>6, <1>9 DEF CursorAt
<1>11. Visited' = Visited
  BY <1>1 DEF Visited
<1>12. UNCHANGED Abstract!vars
  BY <1>1, <1>11 DEF Abstract!vars
<1> QED
  BY <1>1, <1>10, <1>12 DEF ChainInv

\* list_add_tail in front of the cursor places the gene where SortedGenes does: behind
\* the last gene with a key as small.
LEMMA InsertSimulates ==
    ASSUME IInv, IInv', ChainInv, pc = "walk",
           lp # ListHead => key[gene] < key[lp],
           SetLinks(list_add_tail(lists, gene, lp)),
           pc' = "idle", UNCHANGED <<key, gene, lp>>
    PROVE  ChainInv' /\ Abstract!Place
<1> PICK q \in Seq(Genes) : IsChain(q, next) /\ CursorAt(q)
  BY DEF ChainInv
<1>1. PICK p \in 1..(Len(q) + 1) :
        /\ lp = NodeAt(q, p)
        /\ \A i \in 1..(p - 1) : key[q[i]] <= key[gene]
  BY DEF CursorAt
<1>2. /\ Len(q) \in Nat
      /\ \A i \in 1..Len(q) : q[i] \in Genes /\ NodeAt(q, i) = q[i]
      /\ \A i : NodeAt(q, i) \in Nodes /\ NodeAt(q, i) # NULL
  BY EntryType
<1>3. LeadsBack(next, prev) /\ Visited = q
  BY VisitedIs DEF IInv, ListInv
<1>4. gene \in Genes /\ next[gene] = gene /\ gene # lp /\ key \in [Genes -> Int]
  BY KeysAssumption DEF IInv, ListInv, TypeOK, OnlyNewbornUnlinked, CursorOK
<1>5. prev[lp] = NodeAt(q, p - 1)
  <2>1. p - 1 \in 0..Len(q) /\ (p - 1) + 1 = p
    BY <1>2
  <2>2. next[NodeAt(q, p - 1)] = lp
    BY <1>1, <2>1 DEF IsChain
  <2>3. lp # NULL
    BY <1>1, <1>2
  <2> QED
    BY <1>2, <1>3, <2>2, <2>3 DEF LeadsBack
<1>6. \A i \in 1..Len(q) : q[i] # gene
  <2> SUFFICES ASSUME NEW i \in 1..Len(q), q[i] = gene PROVE FALSE
    OBVIOUS
  <2>1. i \in 0..Len(q) /\ i # i + 1
    BY <1>2
  <2>2. NodeAt(q, i) = gene /\ NodeAt(q, i + 1) = gene
    BY <1>2, <1>4, <2>1 DEF IsChain
  <2>3. i + 1 \in 1..Len(q)
    BY <1>4, <2>2, GenesAssumption DEF NodeAt
  <2>4. i + 1 \in 0..Len(q)
    BY <2>3
  <2>5. i = i + 1
    BY <1>3, <2>1, <2>2, <2>4, EntriesDiffer
  <2> QED
    BY <2>1, <2>5
<1>7. /\ next' = [[next EXCEPT ![gene] = lp] EXCEPT ![prev[lp]] = gene]
      /\ prev[lp] # gene /\ prev[lp] \in Nodes /\ gene \in Nodes
  <2>1. next' = [[next EXCEPT ![gene] = lp] EXCEPT ![prev[lp]] = gene]
    BY DEF SetLinks, list_add_tail, list_add_between, lists
  <2>2. prev[lp] \in Nodes
    BY <1>2, <1>5
  <2>3. prev[lp] # gene
    BY <1>4, <1>5, <1>6, GenesAssumption DEF NodeAt
  <2> QED
    BY <1>4, <2>1, <2>2, <2>3 DEF Nodes
<1>8. /\ next'[gene] = NodeAt(q, p) /\ next'[NodeAt(q, p - 1)] = gene
      /\ \A m \in Nodes \ {gene, NodeAt(q, p - 1)} : next'[m] = next[m]
  BY <1>1, <1>5, <1>7 DEF IInv, ListInv, TypeOK
<1>9. IsChain(Abstract!InsertAt(q, p, gene), next')
  BY <1>3, <1>4, <1>6, <1>8, InsertChain
<1>10. p <= Len(q) => key[gene] < key[q[p]]
  <2> SUFFICES ASSUME p <= Len(q) PROVE key[gene] < key[q[p]]
    OBVIOUS
  <2>1. p \in 1..Len(q)
    BY <1>2
  <2>2. lp = q[p] /\ lp # ListHead
    BY <1>1, <1>2, <2>1, GenesAssumption
  <2> QED
    BY <2>2
<1>11. Abstract!InsertSorted(q, key, gene) = Abstract!InsertAt(q, p, gene)
  BY <1>1, <1>4, <1>10, PositionUnique
<1> DEFINE s == Abstract!InsertAt(q, p, gene)
<1>12. s \in Seq(Genes)
  BY <1>4, InsertAtProperties
<1>13. Visited' = s
  BY <1>9, <1>12, VisitedNext DEF IInv, ListInv
<1>14. Abstract!Place
  BY <1>3, <1>4, <1>11, <1>13, GenesAssumption DEF Abstract!Place
<1>15. CursorAt(s)'
  BY DEF CursorAt
<1> QED
  BY <1>9, <1>12, <1>14, <1>15 DEF ChainInv

\* Each step of the pointer code is a step of SortedGenes or leaves it alone.
LEMMA StepSimulates ==
    ASSUME IInv, IInv', ChainInv, [Next]_vars
    PROVE  ChainInv' /\ [Abstract!Next]_(Abstract!vars)
<1>1. CASE \E g \in Genes : InitGene(g) \/ GetNewborn(g)
  BY <1>1, InitGeneSimulates, GetNewbornSimulates DEF Abstract!Next
<1>2. CASE \E k \in Keys : CheckUtilpower(k)
  BY <1>2, CheckUtilpowerSimulates DEF Abstract!Next
<1>3. CASE SortGene
  BY <1>3, SortGeneSimulates
<1>4. CASE Walk
  BY <1>4, WalkSimulates
<1>5. CASE InsertBefore
  BY <1>5, InsertSimulates DEF InsertBefore, GoesBefore, Abstract!Next
<1>6. CASE InsertTail
  BY <1>6, InsertSimulates DEF InsertTail, Abstract!Next
<1>7. CASE UNCHANGED vars
  <2>1. UNCHANGED <<next, key, gene, lp, pc>>
    BY <1>7 DEF vars
  <2>2. UNCHANGED Abstract!vars
    BY <2>1 DEF Abstract!vars, Visited
  <2>3. ChainInv'
    BY <2>1 DEF ChainInv, CursorAt
  <2> QED
    BY <2>2, <2>3
<1> QED
  BY <1>1, <1>2, <1>3, <1>4, <1>5, <1>6, <1>7 DEF Next

\* At the start the list is empty.
LEMMA ChainInit ==
    ASSUME Init, IInv
    PROVE  ChainInv /\ Abstract!Init
<1>1. <<>> \in Seq(Genes) /\ Len(<<>>) = 0
  OBVIOUS
<1>2. IsChain(<<>>, next)
  <2>1. next[ListHead] = ListHead
    BY DEF Init, Nodes
  <2>2. \A i : NodeAt(<<>>, i) = ListHead
    BY <1>1 DEF NodeAt
  <2> QED
    BY <2>1, <2>2 DEF IsChain
<1>3. CursorAt(<<>>)
  BY DEF Init, CursorAt
<1>4. Visited = <<>>
  BY <1>1, <1>2, VisitedIs DEF IInv, ListInv
<1>5. Abstract!Init
  BY <1>4 DEF Init, Abstract!Init
<1> QED
  BY <1>1, <1>2, <1>3, <1>5 DEF ChainInv

\* The pointer code implements SortedGenes for every population and every range of keys:
\* init_gene and get_newborn take one gene out, and however long the walk of sort_gene_*
\* is, its list_add_tail puts the gene behind the last one with a key as small.
THEOREM ListRefinesSortedGenes == Spec => ImplementsSortedGenes
<1>1. Init => IInv /\ ChainInv /\ Abstract!Init
  BY IInvInit, ChainInit
<1>2. IInv /\ ChainInv /\ [Next]_vars => IInv' /\ ChainInv' /\ [Abstract!Next]_(Abstract!vars)
  BY IInvStep, StepSimulates
<1> QED
  BY <1>1, <1>2, PTL DEF Spec, ImplementsSortedGenes, Abstract!Spec

=============================================================================
