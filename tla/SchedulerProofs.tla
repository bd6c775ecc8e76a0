-------------------------- MODULE SchedulerProofs --------------------------
(***************************************************************************)
(* What is proved of GeneticScheduler for every population, every table    *)
(* of evaluation and any number of generations.  The ASSERT of             *)
(* select_position is arithmetic (KvalueInRange: alpha is at most          *)
(* 2 * NPops + 1).  The rest follows from the invariant GAInv: the three   *)
(* lists are sorted and hold exactly the genes they should, a gene in them *)
(* has well-formed vectors and the util, power and score of its plan, and  *)
(* for every row of the report some listed gene is as good as that row.    *)
(* First come the lemmas on lists (insertion behind equals and removal),   *)
(* then what the operations do to one gene, then one lemma per action.     *)
(***************************************************************************)
EXTENDS GeneticScheduler, TaskAttrsProofs, SequenceTheorems

\* The kvalue of select_position is below n_pops for every draw.
LEMMA KvalueInRange ==
    ASSUME NEW k \in Kvalues
    PROVE  k < NPops
<1>1. PICK alpha \in Alphas : 2 * k * (k + 1) <= alpha * NPops
  BY DEF Kvalues, IsKvalue
<1>2. k \in Nat /\ NPops \in Nat /\ NPops > 1
  BY PopulationAssumption DEF Kvalues
<1>3. alpha \in Nat /\ alpha <= 2 * NPops + 1
  BY <1>2 DEF Alphas
<1>4. alpha * NPops <= (2 * NPops + 1) * NPops
  BY <1>2, <1>3
<1>5. SUFFICES ASSUME k >= NPops PROVE FALSE
  BY <1>2
<1>6. 2 * k * (k + 1) >= 2 * NPops * (NPops + 1)
  BY <1>2, <1>5
<1>7. 2 * NPops * (NPops + 1) > (2 * NPops + 1) * NPops
  BY <1>2
<1> QED
  BY <1>1, <1>2, <1>3, <1>4, <1>6, <1>7

\* For every n_pops and every random draw, the position n_pops - kvalue - 1 that
\* select_position returns is not negative.
THEOREM SelectPositionSafe == Spec => []SelectPositionAsserts
<1>1. SelectPositionAsserts
  <2>1. ASSUME NEW k \in Kvalues PROVE NPops > k
    BY KvalueInRange, PopulationAssumption DEF Kvalues
  <2> QED
    BY <2>1 DEF SelectPositionAsserts
<1> QED
  BY <1>1, PTL

-----------------------------------------------------------------------------
(* Sorted lists                                                            *)

\* l lists the genes of S, each one once, in the order of key.
ListOK(l, S, key) ==
    /\ l \in Seq(Genes)
    /\ \A i, j \in 1..Len(l) : l[i] = l[j] => i = j
    /\ ToSet(l) = S
    /\ IsOrdered(l, key)

\* sort_gene finds a place: in front of the first gene with a larger key, or at the end.
LEMMA InsertPositionExists ==
    ASSUME NEW l \in Seq(Genes), NEW key \in [Genes -> Int], NEW gene \in Genes
    PROVE  LET p == InsertPosition(l, key, gene)
           IN  /\ p \in 1..(Len(l) + 1)
               /\ \A i \in 1..(p - 1) : key[l[i]] <= key[gene]
               /\ p <= Len(l) => key[gene] < key[l[p]]
<1> DEFINE T == {p \in 1..(Len(l) + 1) : p <= Len(l) => key[gene] < key[l[p]]}
<1>1. Len(l) \in Nat /\ \A i \in 1..Len(l) : key[l[i]] \in Int
  BY LenProperties, ElementOfSeq
<1>2. T \in SUBSET Nat /\ Len(l) + 1 \in T
  BY <1>1
<1>3. PICK p \in T : \A y \in T : p <= y
  BY <1>2, LeastExists
<1>4. \A i \in 1..(p - 1) : key[l[i]] <= key[gene]
  <2> SUFFICES ASSUME NEW i \in 1..(p - 1) PROVE key[l[i]] <= key[gene]
    OBVIOUS
  <2>1. i \in 1..Len(l) /\ i \in 1..(Len(l) + 1) /\ i \notin T
    BY <1>1, <1>3
  <2>2. ~ (key[gene] < key[l[i]])
    BY <2>1
  <2> QED
    BY <1>1, <2>1, <2>2
<1>5. \E q \in 1..(Len(l) + 1) :
        /\ \A i \in 1..(q - 1) : key[l[i]] <= key[gene]
        /\ q <= Len(l) => key[gene] < key[l[q]]
  BY <1>3, <1>4
<1> QED
  BY <1>5 DEF InsertPosition

\* Where everyone is after an insertion at p.
LEMMA InsertAtProperties ==
    ASSUME NEW l \in Seq(Genes), NEW gene \in Genes, NEW p \in 1..(Len(l) + 1)
    PROVE  LET s == InsertAt(l, p, gene)
           IN  /\ s \in Seq(Genes) /\ Len(s) = Len(l) + 1
               /\ \A i \in 1..(Len(l) + 1) :
                     s[i] = IF i < p THEN l[i] ELSE IF i = p THEN gene ELSE l[i - 1]
<1> DEFINE a == SubSeq(l, 1, p - 1)
           c == SubSeq(l, p, Len(l))
<1>1. Len(l) \in Nat /\ p \in Nat /\ \A i \in 1..Len(l) : l[i] \in Genes
  BY LenProperties, ElementOfSeq
<1>2. a \in Seq(Genes) /\ Len(a) = p - 1 /\ \A i \in 1..(p - 1) : a[i] = l[i]
  <2>1. \A i \in 1..(p - 1) : l[i] \in Genes
    BY <1>1
  <2> QED
    BY <1>1, <2>1, SubSeqProperties
<1>3. c \in Seq(Genes) /\ Len(c) = Len(l) - p + 1 /\ \A i \in 1..(Len(l) - p + 1) : c[i] = l[p + i - 1]
  <2>1. \A i \in p..Len(l) : l[i] \in Genes
    BY <1>1
  <2> QED
    BY <1>1, <2>1, SubSeqProperties
<1> HIDE DEF a, c
<1>4. a \o <<gene>> = Append(a, gene)
  BY <1>2, AppendIsConcat
<1> DEFINE b == Append(a, gene)
<1>5. b \in Seq(Genes) /\ Len(b) = p /\ (\A i \in 1..(p - 1) : b[i] = l[i]) /\ b[p] = gene
  <2>1. /\ b \in Seq(Genes) /\ Len(b) = Len(a) + 1
        /\ \A i \in 1..Len(a) : b[i] = a[i]
        /\ b[Len(a) + 1] = gene
    BY <1>2, AppendProperties
  <2>2. Len(a) + 1 = p
    BY <1>1, <1>2
  <2> QED
    BY <1>2, <2>1, <2>2
<1> HIDE DEF b
<1>6. b \o c \in Seq(Genes) /\ Len(b \o c) = Len(l) + 1
      /\ \A i \in 1..(Len(l) + 1) : (b \o c)[i] = IF i <= p THEN b[i] ELSE c[i - p]
  <2>1. /\ b \o c \in Seq(Genes) /\ Len(b \o c) = Len(b) + Len(c)
        /\ \A i \in 1..(Len(b) + Len(c)) : (b \o c)[i] = IF i <= Len(b) THEN b[i] ELSE c[i - Len(b)]
    BY <1>3, <1>5, ConcatProperties
  <2>2. Len(b) + Len(c) = Len(l) + 1
    BY <1>1, <1>3, <1>5
  <2> QED
    BY <1>5, <2>1, <2>2
<1>7. ASSUME NEW i \in 1..(Len(l) + 1)
      PROVE  (b \o c)[i] = IF i < p THEN l[i] ELSE IF i = p THEN gene ELSE l[i - 1]
  <2>1. CASE i < p
    <3>1. i \in 1..(p - 1) /\ i <= p /\ ~ (i = p)
      BY <1>1, <2>1
    <3> QED
      BY <1>5, <1>6, <2>1, <3>1
  <2>2. CASE i = p
    <3>1. i <= p /\ ~ (i < p)
      BY <1>1, <2>2
    <3> QED
      BY <1>5, <1>6, <2>2, <3>1
  <2>3. CASE i > p
    <3>1. i - p \in 1..(Len(l) - p + 1) /\ p + (i - p) - 1 = i - 1 /\ ~ (i <= p) /\ ~ (i < p) /\ ~ (i = p)
      BY <1>1, <2>3
    <3> QED
      BY <1>3, <1>6, <3>1
  <2>4. i < p \/ i = p \/ i > p
    BY <1>1
  <2> QED
    BY <2>1, <2>2, <2>3, <2>4
<1> QED
  BY <1>4, <1>6, <1>7 DEF InsertAt, a, b, c

\* Where everyone is after the removal of the gene at p.
LEMMA RemoveAtProperties ==
    ASSUME NEW l \in Seq(Genes), NEW p \in 1..Len(l)
    PROVE  LET s == RemoveAt(l, p)
           IN  /\ s \in Seq(Genes) /\ Len(s) = Len(l) - 1
               /\ \A i \in 1..(Len(l) - 1) : s[i] = IF i < p THEN l[i] ELSE l[i + 1]
<1> DEFINE a == SubSeq(l, 1, p - 1)
           c == SubSeq(l, p + 1, Len(l))
<1>1. Len(l) \in Nat /\ p \in Nat /\ \A i \in 1..Len(l) : l[i] \in Genes
  BY LenProperties, ElementOfSeq
<1>2. a \in Seq(Genes) /\ Len(a) = p - 1 /\ \A i \in 1..(p - 1) : a[i] = l[i]
  <2>1. \A i \in 1..(p - 1) : l[i] \in Genes
    BY <1>1
  <2> QED
    BY <1>1, <2>1, SubSeqProperties
<1>3. c \in Seq(Genes) /\ Len(c) = Len(l) - p /\ \A i \in 1..(Len(l) - p) : c[i] = l[p + i]
  <2>1. \A i \in (p + 1)..Len(l) : l[i] \in Genes
    BY <1>1
  <2> QED
    BY <1>1, <2>1, SubSeqProperties
<1> HIDE DEF a, c
<1>4. a \o c \in Seq(Genes) /\ Len(a \o c) = Len(l) - 1
      /\ \A i \in 1..(Len(l) - 1) : (a \o c)[i] = IF i <= p - 1 THEN a[i] ELSE c[i - (p - 1)]
  <2>1. /\ a \o c \in Seq(Genes) /\ Len(a \o c) = Len(a) + Len(c)
        /\ \A i \in 1..(Len(a) + Len(c)) : (a \o c)[i] = IF i <= Len(a) THEN a[i] ELSE c[i - Len(a)]
    BY <1>2, <1>3, ConcatProperties
  <2>2. Len(a) + Len(c) = Len(l) - 1
    BY <1>1, <1>2, <1>3
  <2> QED
    BY <1>2, <2>1, <2>2
<1>5. ASSUME NEW i \in 1..(Len(l) - 1)
      PROVE  (a \o c)[i] = IF i < p THEN l[i] ELSE l[i + 1]
  <2>1. CASE i < p
    <3>1. i \in 1..(p - 1) /\ i <= p - 1
      BY <1>1, <2>1
    <3> QED
      BY <1>2, <1>4, <2>1, <3>1
  <2>2. CASE i >= p
    <3>1. i - (p - 1) \in 1..(Len(l) - p) /\ p + (i - (p - 1)) = i + 1 /\ ~ (i <= p - 1) /\ ~ (i < p)
      BY <1>1, <2>2
    <3> QED
      BY <1>3, <1>4, <3>1
  <2>3. i < p \/ i >= p
    BY <1>1
  <2> QED
    BY <2>1, <2>2, <2>3
<1> QED
  BY <1>4, <1>5 DEF RemoveAt, a, c

\* The elements of a listed list, by index.
LEMMA ToSetIndexed ==
    ASSUME NEW l \in Seq(Genes)
    PROVE  \A x : x \in ToSet(l) <=> \E i \in 1..Len(l) : x = l[i]
BY LenProperties DEF ToSet

\* s is l with the gene at some place p, in front of a gene with a larger key or last.
Inserted(l, s, key, gene) ==
    \E p \in 1..(Len(l) + 1) :
        /\ \A i \in 1..(Len(l) + 1) :
              s[i] = IF i < p THEN l[i] ELSE IF i = p THEN gene ELSE l[i - 1]
        /\ p <= Len(l) => key[gene] < key[l[p]]

\* sort_gene keeps a list right: the keys of the listed genes are those they were
\* sorted by, the new gene's may be any.
LEMMA InsertSortedOK ==
    ASSUME NEW l, NEW S, NEW key \in [Genes -> Int], ListOK(l, S, key),
           NEW gene \in Genes \ S
    PROVE  LET s == InsertSorted(l, key, gene)
           IN  /\ ListOK(s, S \cup {gene}, key)
               /\ Len(s) = Len(l) + 1
               /\ Inserted(l, s, key, gene)
<1> DEFINE p == InsertPosition(l, key, gene)
           s == InsertAt(l, p, gene)
<1>1. l \in Seq(Genes) /\ Len(l) \in Nat /\ \A i \in 1..Len(l) : l[i] \in Genes /\ key[l[i]] \in Int
  BY LenProperties, ElementOfSeq DEF ListOK
<1>2. /\ p \in 1..(Len(l) + 1)
      /\ \A i \in 1..(p - 1) : key[l[i]] <= key[gene]
      /\ p <= Len(l) => key[gene] < key[l[p]]
  BY <1>1, InsertPositionExists
<1> HIDE DEF p
<1>3. /\ s \in Seq(Genes) /\ Len(s) = Len(l) + 1
      /\ \A i \in 1..(Len(l) + 1) : s[i] = IF i < p THEN l[i] ELSE IF i = p THEN gene ELSE l[i - 1]
  BY <1>1, <1>2, InsertAtProperties
<1> HIDE DEF s
<1>4. \A x : x \in ToSet(l) <=> \E i \in 1..Len(l) : x = l[i]
  BY <1>1, ToSetIndexed
<1>5. \A i \in 1..Len(l) : l[i] # gene
  BY <1>4 DEF ListOK
<1>6. ASSUME NEW i \in 1..(Len(l) + 1)
      PROVE  \/ i < p /\ i \in 1..Len(l) /\ i \in 1..(p - 1) /\ s[i] = l[i]
             \/ i = p /\ s[i] = gene
             \/ i > p /\ i - 1 \in 1..Len(l) /\ i - 1 >= p /\ s[i] = l[i - 1]
  <2>1. i < p \/ i = p \/ i > p
    BY <1>2
  <2>2. i < p => i \in 1..Len(l) /\ i \in 1..(p - 1)
    BY <1>1, <1>2
  <2>3. i > p => i - 1 \in 1..Len(l) /\ i - 1 >= p /\ ~ (i < p) /\ ~ (i = p)
    BY <1>1, <1>2
  <2>4. i = p => ~ (i < p)
    BY <1>1, <1>2
  <2> QED
    BY <1>3, <2>1, <2>2, <2>3, <2>4
<1>7. \A i, j \in 1..Len(s) : s[i] = s[j] => i = j
  <2> SUFFICES ASSUME NEW i \in 1..(Len(l) + 1), NEW j \in 1..(Len(l) + 1), s[i] = s[j]
               PROVE  i = j
    BY <1>3
  <2>1. \/ i < p /\ i \in 1..Len(l) /\ i \in 1..(p - 1) /\ s[i] = l[i]
        \/ i = p /\ s[i] = gene
        \/ i > p /\ i - 1 \in 1..Len(l) /\ i - 1 >= p /\ s[i] = l[i - 1]
    BY <1>1, <1>2, <1>6
  <2>2. \/ j < p /\ j \in 1..Len(l) /\ j \in 1..(p - 1) /\ s[j] = l[j]
        \/ j = p /\ s[j] = gene
        \/ j > p /\ j - 1 \in 1..Len(l) /\ j - 1 >= p /\ s[j] = l[j - 1]
    BY <1>1, <1>2, <1>6
  <2>3. \A x, y \in 1..Len(l) : l[x] = l[y] => x = y
    BY DEF ListOK
  <2>4. i \in Int /\ j \in Int
    OBVIOUS
  <2> QED
    BY <1>2, <1>5, <2>1, <2>2, <2>3, <2>4, SMTT(20)
<1>8. ToSet(s) = S \cup {gene}
  <2>1. \A x : x \in ToSet(s) <=> \E i \in 1..(Len(l) + 1) : x = s[i]
    BY <1>3, ToSetIndexed
  <2>2. ASSUME NEW i \in 1..(Len(l) + 1) PROVE s[i] \in S \cup {gene}
    BY <1>4, <1>6 DEF ListOK
  <2>3. s[p] = gene
    BY <1>2, <1>3
  <2>4. ASSUME NEW i \in 1..Len(l) PROVE \E j \in 1..(Len(l) + 1) : l[i] = s[j]
    <3>1. CASE i < p
      <4>1. i \in 1..(Len(l) + 1)
        BY <1>1
      <4> QED
        BY <1>3, <3>1, <4>1
    <3>2. CASE i >= p
      <4>1. i + 1 \in 1..(Len(l) + 1) /\ ~ (i + 1 < p) /\ ~ (i + 1 = p) /\ (i + 1) - 1 = i
        BY <1>1, <1>2, <3>2
      <4> QED
        BY <1>3, <4>1
    <3> QED
      BY <1>2, <3>1, <3>2
  <2>5. ASSUME NEW x \in ToSet(s) PROVE x \in S \cup {gene}
    <3>1. PICK i \in 1..(Len(l) + 1) : x = s[i]
      BY <2>1
    <3> QED
      BY <2>2, <3>1
  <2>6. ASSUME NEW x \in S PROVE x \in ToSet(s)
    <3>1. PICK i \in 1..Len(l) : x = l[i]
      BY <1>4 DEF ListOK
    <3>2. PICK j \in 1..(Len(l) + 1) : l[i] = s[j]
      BY <2>4
    <3> QED
      BY <2>1, <3>1, <3>2
  <2>7. gene \in ToSet(s)
    BY <1>2, <2>1, <2>3
  <2> QED
    BY <2>5, <2>6, <2>7
<1>9. IsOrdered(s, key)
  <2> SUFFICES ASSUME NEW i \in 1..(Len(l) + 1), NEW j \in 1..(Len(l) + 1), i <= j
               PROVE  key[s[i]] <= key[s[j]]
    BY <1>3 DEF IsOrdered
  <2>1. \A x, y \in 1..Len(l) : x <= y => key[l[x]] <= key[l[y]]
    BY DEF ListOK, IsOrdered
  <2>2. ASSUME NEW x \in 1..Len(l), x >= p PROVE key[gene] <= key[l[x]]
    <3>1. p \in 1..Len(l) /\ key[gene] < key[l[p]]
      BY <1>1, <1>2, <2>2
    <3>2. key[l[p]] <= key[l[x]]
      BY <2>1, <2>2, <3>1
    <3> QED
      BY <1>1, <3>1, <3>2
  <2>3. key[gene] \in Int /\ i \in Int /\ j \in Int
    OBVIOUS
  <2>4. \/ i < p /\ i \in 1..Len(l) /\ i \in 1..(p - 1) /\ s[i] = l[i]
        \/ i = p /\ s[i] = gene
        \/ i > p /\ i - 1 \in 1..Len(l) /\ i - 1 >= p /\ s[i] = l[i - 1]
    BY <1>1, <1>2, <1>6
  <2>5. \/ j < p /\ j \in 1..Len(l) /\ j \in 1..(p - 1) /\ s[j] = l[j]
        \/ j = p /\ s[j] = gene
        \/ j > p /\ j - 1 \in 1..Len(l) /\ j - 1 >= p /\ s[j] = l[j - 1]
    BY <1>1, <1>2, <1>6
  <2>6. CASE i < p
    <3>1. j < p => key[s[i]] <= key[s[j]]
      BY <1>2, <2>1, <2>3, <2>4, <2>5, <2>6
    <3>2. j = p => key[s[i]] <= key[s[j]]
      BY <1>2, <2>3, <2>4, <2>5, <2>6
    <3>3. j > p => key[s[i]] <= key[s[j]]
      BY <1>2, <2>1, <2>3, <2>4, <2>5, <2>6
    <3> QED
      BY <1>2, <2>3, <3>1, <3>2, <3>3
  <2>7. CASE i = p
    BY <1>2, <2>2, <2>3, <2>4, <2>5, <2>7
  <2>8. CASE i > p
    BY <1>2, <2>1, <2>3, <2>4, <2>5, <2>8, SMTT(20)
  <2> QED
    BY <1>2, <2>3, <2>6, <2>7, <2>8
<1>10. Inserted(l, s, key, gene)
  BY <1>2, <1>3 DEF Inserted
<1> QED
  BY <1>3, <1>7, <1>8, <1>9, <1>10 DEF ListOK, InsertSorted, p, s

\* list_del_init keeps a list right.
LEMMA UnlistedOK ==
    ASSUME NEW l, NEW S, NEW key \in [Genes -> Int], ListOK(l, S, key), NEW gene \in S
    PROVE  LET s == Unlisted(l, gene)
           IN  /\ ListOK(s, S \ {gene}, key)
               /\ Len(s) = Len(l) - 1
               /\ \E p \in 1..Len(l) :
                     /\ l[p] = gene
                     /\ \A i \in 1..(Len(l) - 1) : s[i] = IF i < p THEN l[i] ELSE l[i + 1]
<1> DEFINE T == {i \in 1..Len(l) : l[i] = gene}
           p == Min(T)
           s == RemoveAt(l, p)
<1>1. l \in Seq(Genes) /\ Len(l) \in Nat /\ \A i \in 1..Len(l) : l[i] \in Genes /\ key[l[i]] \in Int
  BY LenProperties, ElementOfSeq DEF ListOK
<1>2. \A x : x \in ToSet(l) <=> \E i \in 1..Len(l) : x = l[i]
  BY <1>1, ToSetIndexed
<1>3. PICK q \in 1..Len(l) : l[q] = gene
  BY <1>2 DEF ListOK
<1>4. T \in SUBSET Nat /\ T # {}
  BY <1>1, <1>3
<1>5. \E x \in T : \A y \in T : x <= y
  BY <1>4, LeastExists
<1>6. p \in T
  BY <1>5 DEF Min
<1>7. p \in 1..Len(l) /\ l[p] = gene
  BY <1>6
<1>8. Unlisted(l, gene) = s
  BY <1>3, <1>4 DEF Unlisted, RemoveFirst, SelectInSeq
<1> HIDE DEF p
<1>9. /\ s \in Seq(Genes) /\ Len(s) = Len(l) - 1
      /\ \A i \in 1..(Len(l) - 1) : s[i] = IF i < p THEN l[i] ELSE l[i + 1]
  BY <1>1, <1>7, RemoveAtProperties
<1> HIDE DEF s
<1>10. ASSUME NEW i \in 1..(Len(l) - 1)
       PROVE  \/ i < p /\ i \in 1..Len(l) /\ s[i] = l[i]
              \/ i >= p /\ i + 1 \in 1..Len(l) /\ s[i] = l[i + 1]
  <2>1. i < p \/ i >= p
    BY <1>7
  <2>2. i \in 1..Len(l) /\ i + 1 \in 1..Len(l) /\ (i >= p => ~ (i < p))
    BY <1>1, <1>7
  <2> QED
    BY <1>9, <2>1, <2>2
<1>11. \A x, y \in 1..Len(l) : l[x] = l[y] => x = y
  BY DEF ListOK
<1>12. \A i, j \in 1..Len(s) : s[i] = s[j] => i = j
  <2> SUFFICES ASSUME NEW i \in 1..(Len(l) - 1), NEW j \in 1..(Len(l) - 1), s[i] = s[j]
               PROVE  i = j
    BY <1>9
  <2>1. \/ i < p /\ i \in 1..Len(l) /\ s[i] = l[i]
        \/ i >= p /\ i + 1 \in 1..Len(l) /\ s[i] = l[i + 1]
    BY <1>10
  <2>2. \/ j < p /\ j \in 1..Len(l) /\ s[j] = l[j]
        \/ j >= p /\ j + 1 \in 1..Len(l) /\ s[j] = l[j + 1]
    BY <1>10
  <2>3. i \in Int /\ j \in Int /\ p \in Int
    BY <1>7
  <2> QED
    BY <1>11, <2>1, <2>2, <2>3
<1>13. ToSet(s) = S \ {gene}
  <2>1. \A x : x \in ToSet(s) <=> \E i \in 1..(Len(l) - 1) : x = s[i]
    <3>1. \A x : x \in ToSet(s) <=> \E i \in 1..Len(s) : x = s[i]
      BY <1>9, ToSetIndexed
    <3> QED
      BY <1>9, <3>1
  <2>2. ASSUME NEW i \in 1..(Len(l) - 1) PROVE s[i] \in S \ {gene}
    <3>1. \/ i < p /\ i \in 1..Len(l) /\ s[i] = l[i]
          \/ i >= p /\ i + 1 \in 1..Len(l) /\ s[i] = l[i + 1]
      BY <1>10
    <3>2. s[i] \in S
      BY <1>2, <3>1 DEF ListOK
    <3>3. i \in Int /\ p \in Int
      BY <1>7
    <3>4. s[i] # gene
      BY <1>7, <1>11, <3>1, <3>3
    <3> QED
      BY <3>2, <3>4
  <2>3. ASSUME NEW x \in S \ {gene} PROVE \E j \in 1..(Len(l) - 1) : x = s[j]
    <3>1. PICK i \in 1..Len(l) : x = l[i]
      BY <1>2 DEF ListOK
    <3>2. i # p
      BY <1>7, <3>1
    <3>3. CASE i < p
      <4>1. i \in 1..(Len(l) - 1)
        BY <1>1, <1>7, <3>3
      <4> QED
        BY <1>9, <3>1, <3>3, <4>1
    <3>4. CASE i > p
      <4>1. i - 1 \in 1..(Len(l) - 1) /\ ~ (i - 1 < p) /\ (i - 1) + 1 = i
        BY <1>1, <1>7, <3>4
      <4> QED
        BY <1>9, <3>1, <4>1
    <3> QED
      BY <1>7, <3>2, <3>3, <3>4
  <2> QED
    BY <2>1, <2>2, <2>3
<1>14. IsOrdered(s, key)
  <2> SUFFICES ASSUME NEW i \in 1..(Len(l) - 1), NEW j \in 1..(Len(l) - 1), i <= j
               PROVE  key[s[i]] <= key[s[j]]
    BY <1>9 DEF IsOrdered
  <2>1. \A x, y \in 1..Len(l) : x <= y => key[l[x]] <= key[l[y]]
    BY DEF ListOK, IsOrdered
  <2>2. \/ i < p /\ i \in 1..Len(l) /\ s[i] = l[i]
        \/ i >= p /\ i + 1 \in 1..Len(l) /\ s[i] = l[i + 1]
    BY <1>10
  <2>3. \/ j < p /\ j \in 1..Len(l) /\ s[j] = l[j]
        \/ j >= p /\ j + 1 \in 1..Len(l) /\ s[j] = l[j + 1]
    BY <1>10
  <2>4. i \in Int /\ j \in Int /\ p \in Int
    BY <1>7
  <2>5. CASE i < p
    <3>1. i \in 1..Len(l) /\ s[i] = l[i] /\ i <= j + 1
      BY <2>2, <2>4, <2>5
    <3> QED
      BY <2>1, <2>3, <2>4, <3>1
  <2>6. CASE i >= p
    <3>1. i + 1 \in 1..Len(l) /\ s[i] = l[i + 1] /\ ~ (j < p) /\ i + 1 <= j + 1
      BY <2>2, <2>4, <2>6
    <3> QED
      BY <2>1, <2>3, <2>4, <3>1
  <2> QED
    BY <2>4, <2>5, <2>6
<1> QED
  BY <1>7, <1>8, <1>9, <1>12, <1>13, <1>14 DEF ListOK

\* A list is right under any keys that agree on the listed genes.
LEMMA RekeyOK ==
    ASSUME NEW l, NEW S, NEW key, ListOK(l, S, key), NEW key2,
           \A g \in S : key2[g] = key[g]
    PROVE  ListOK(l, S, key2)
<1>1. l \in Seq(Genes)
  BY DEF ListOK
<1>2. \A i \in 1..Len(l) : l[i] \in S
  BY <1>1, ToSetIndexed DEF ListOK
<1> QED
  BY <1>2 DEF ListOK, IsOrdered

\* Without duplicates, the length counts the genes.
LEMMA ListLength ==
    ASSUME NEW l, NEW S, NEW key, ListOK(l, S, key)
    PROVE  IsFiniteSet(S) /\ Len(l) = Cardinality(S)
<1>1. l \in Seq(Genes) /\ Len(l) \in Nat /\ l \in [1..Len(l) -> Genes]
  BY LenProperties DEF ListOK
<1>2. \A x : x \in S <=> \E i \in 1..Len(l) : x = l[i]
  BY <1>1, ToSetIndexed DEF ListOK
<1>3. l \in Bijection(1..Len(l), S)
  <2>1. l \in [1..Len(l) -> S]
    BY <1>1, <1>2
  <2> QED
    BY <1>2, <2>1 DEF ListOK, Bijection, Injection, Surjection, IsInjective
<1>4. ExistsBijection(1..Len(l), S)
  BY <1>3 DEF ExistsBijection
<1>5. IsFiniteSet(1..Len(l)) /\ Cardinality(1..Len(l)) = Len(l)
  <2>1. ASSUME NEW m \in Nat PROVE IsFiniteSet(1..m) /\ Cardinality(1..m) = m
    BY FS_Interval
  <2> QED
    BY <1>1, <2>1
<1> QED
  BY <1>4, <1>5, FS_Bijection

\* The first gene of a list has the least key and the last the largest.
LEMMA ListEnds ==
    ASSUME NEW l, NEW S, NEW key \in [Genes -> Int], ListOK(l, S, key), S # {}
    PROVE  /\ Len(l) \in Nat \ {0} /\ l # <<>>
           /\ l[1] \in S /\ \A g \in S : key[l[1]] <= key[g]
           /\ Last(l) \in S /\ \A g \in S : key[g] <= key[Last(l)]
<1>1. l \in Seq(Genes) /\ Len(l) \in Nat
  BY LenProperties DEF ListOK
<1>2. \A x : x \in S <=> \E i \in 1..Len(l) : x = l[i]
  BY <1>1, ToSetIndexed DEF ListOK
<1>3. Len(l) # 0
  BY <1>1, <1>2
<1>4. 1 \in 1..Len(l) /\ Len(l) \in 1..Len(l)
  BY <1>1, <1>3
<1>5. l # <<>>
  BY <1>3
<1>6. \A x, y \in 1..Len(l) : x <= y => key[l[x]] <= key[l[y]]
  BY DEF ListOK, IsOrdered
<1>7. ASSUME NEW g \in S PROVE key[l[1]] <= key[g] /\ key[g] <= key[l[Len(l)]]
  <2>1. PICK i \in 1..Len(l) : g = l[i]
    BY <1>2
  <2>2. 1 <= i /\ i <= Len(l)
    BY <1>1
  <2> QED
    BY <1>4, <1>6, <2>1, <2>2
<1> QED
  BY <1>1, <1>2, <1>3, <1>4, <1>5, <1>7 DEF Last

-----------------------------------------------------------------------------
(* The inductive invariant                                                 *)

\* The vectors of a gene: counted, over the configured types, and with a fullest
\* memory as max_type when there are at most two.
PeakOK(v) == NMems <= 2 => v.max_type \in PeakTypes(v.attrs)

GeneOK(g) ==
    /\ Counted(g.mem) /\ Within(g.mem, NMems) /\ PeakOK(g.mem)
    /\ Counted(g.cloud) /\ Within(g.cloud, NClouds)
    /\ Counted(g.cpufreq) /\ Within(g.cpufreq, NCpufreqs)
    /\ Counted(g.ratio) /\ Within(g.ratio, NRatios)

\* The gene offloads nothing.
Local(g) == \A i \in Tasks : g.ratio.attrs[i] = 0

\* The gene is admissible, and its values are those of its plan.
Evaluated(g) ==
    /\ Evaluable(g)
    /\ Util(PlanOf(g)) <= Cutoff
    /\ g.util = Util(PlanOf(g)) /\ g.power = Power(PlanOf(g)) /\ g.score = Score(PlanOf(g))

ListsOK ==
    /\ ListOK(by_util, ExpectedListed, Utils(genes))
    /\ ListOK(by_power, ExpectedListed, Powers(genes))
    /\ ListOK(by_score, ExpectedListed, Scores(genes))

ListedOK == \A g \in ExpectedListed : GeneOK(genes[g]) /\ Evaluated(genes[g])

\* The gene under repair or under construction.
CurrentOK == pc \in {"try", "cross"} => GeneOK(genes[cur])

\* For every row of report.txt some listed gene is as good as the row says.
ReportsKept ==
    \A i \in 1..Len(report) : \E g \in ExpectedListed : genes[g].score <= report[i].cost_min

GAInv ==
    /\ TypeOK
    /\ pc = "cross" => gen <= MaxGen
    /\ \A g \in Genes : Local(genes[g])
    /\ ListsOK
    /\ ListedOK
    /\ CurrentOK
    /\ ReportsKept
    /\ task_txt.plans # {} => pc = "done"
    /\ SavedIsBest

-----------------------------------------------------------------------------
(* What the pieces of GA.c do to one gene                                  *)

\* The plan of a gene in use can be evaluated.
LEMMA PlanOK ==
    ASSUME NEW g, GeneOK(g)
    PROVE  /\ PlanOf(g) \in Plans
           /\ Util(PlanOf(g)) \in Int /\ Power(PlanOf(g)) \in Int /\ Score(PlanOf(g)) \in Int
<1>1. ASSUME NEW v, Counted(v), NEW n \in 1..MAX_ATTRTYPES, Within(v, n)
      PROVE  v.attrs \in VectorsOver(n)
  <2>1. v.attrs \in [Tasks -> AttrTypes]
    BY <1>1 DEF Counted, TaskAttrsType, Vectors
  <2>2. \A i \in Tasks : v.attrs[i] \in 0..(n - 1)
    BY <1>1, <2>1 DEF Within, AttrTypes
  <2> QED
    BY <2>1, <2>2 DEF VectorsOver
<1>2. PlanOf(g) \in Plans
  BY <1>1, TypesAssumption DEF GeneOK, PlanOf, Plans
<1> QED
  BY <1>2, EvaluationAssumption

\* check_utilpower stores values and leaves the vectors alone.
LEMMA CheckUtilpowerOK ==
    ASSUME NEW g \in GeneType, GeneOK(g)
    PROVE  LET h == CheckUtilpower(g)
           IN  /\ h \in GeneType /\ GeneOK(h)
               /\ h.mem = g.mem /\ h.cloud = g.cloud /\ h.cpufreq = g.cpufreq /\ h.ratio = g.ratio
               /\ PlanOf(h) = PlanOf(g)
               /\ Util(PlanOf(g)) <= Cutoff /\ Evaluable(g) => Evaluated(h)
<1> DEFINE h == CheckUtilpower(g)
           p == PlanOf(g)
<1>1. Util(p) \in Int /\ Power(p) \in Int /\ Score(p) \in Int
  BY PlanOK
<1>2. /\ h \in GeneType
      /\ h.mem = g.mem /\ h.cloud = g.cloud /\ h.cpufreq = g.cpufreq /\ h.ratio = g.ratio
      /\ Util(p) <= Cutoff => h.util = Util(p) /\ h.power = Power(p) /\ h.score = Score(p)
  BY <1>1 DEF CheckUtilpower, GeneType
<1> HIDE DEF h
<1>3. PlanOf(h) = p
  BY <1>2 DEF PlanOf
<1>4. GeneOK(h)
  BY <1>2 DEF GeneOK
<1>5. Util(p) <= Cutoff /\ Evaluable(g) => Evaluated(h)
  BY <1>2, <1>3 DEF Evaluated, Evaluable
<1> QED
  BY <1>2, <1>3, <1>4, <1>5 DEF h

\* setup_taskattrs over a configured table.
LEMMA SetupOK ==
    ASSUME NEW n \in 1..MAX_ATTRTYPES, NEW attrs \in [Tasks -> 0..(n - 1)]
    PROVE  LET v == SetupTaskattrs(attrs)
           IN  Counted(v) /\ Within(v, n) /\ PeakOK(v) /\ v \in TaskAttrsType /\ v.attrs = attrs
<1>1. attrs \in Vectors
  <2>1. \A i \in Tasks : attrs[i] \in AttrTypes
    BY MaxAttrTypesAssumption DEF AttrTypes
  <2> QED
    BY <2>1 DEF Vectors
<1>2. Counted(SetupTaskattrs(attrs)) /\ SetupTaskattrs(attrs).attrs = attrs
  BY <1>1, SetupCounted
<1>3. PeakOK(SetupTaskattrs(attrs))
  BY <1>1, FirstToPeakOK DEF PeakOK, SetupTaskattrs
<1>4. Within(SetupTaskattrs(attrs), n)
  BY <1>2 DEF Within
<1> QED
  BY <1>2, <1>3, <1>4 DEF Counted

\* inherit_values mixes two vectors over a configured table.
LEMMA InheritOK ==
    ASSUME NEW n \in 1..MAX_ATTRTYPES, NEW v1, Counted(v1), Within(v1, n),
           NEW v2, Counted(v2), Within(v2, n), NEW crosspt
    PROVE  LET v == InheritValues(v1, v2, crosspt)
           IN  /\ Counted(v) /\ Within(v, n) /\ PeakOK(v) /\ v \in TaskAttrsType
               /\ \A i \in Tasks : v.attrs[i] \in {v1.attrs[i], v2.attrs[i]}
<1> DEFINE attrs == [i \in Tasks |-> IF i <= crosspt THEN v1.attrs[i] ELSE v2.attrs[i]]
<1>1. v1.attrs \in [Tasks -> AttrTypes] /\ v2.attrs \in [Tasks -> AttrTypes]
  BY DEF Counted, TaskAttrsType, Vectors
<1>2. \A i \in Tasks : v1.attrs[i] \in 0..(n - 1) /\ v2.attrs[i] \in 0..(n - 1)
  BY <1>1 DEF Within, AttrTypes
<1>3. attrs \in [Tasks -> 0..(n - 1)] /\ \A i \in Tasks : attrs[i] \in {v1.attrs[i], v2.attrs[i]}
  BY <1>2
<1> HIDE DEF attrs
<1>4. LET v == SetupTaskattrs(attrs)
      IN  Counted(v) /\ Within(v, n) /\ PeakOK(v) /\ v \in TaskAttrsType /\ v.attrs = attrs
  BY <1>3, SetupOK
<1>5. InheritValues(v1, v2, crosspt) = SetupTaskattrs(attrs)
  BY DEF InheritValues, attrs
<1> QED
  BY <1>3, <1>4, <1>5

\* With two memories, balance_mem_types keeps max_type at a fullest one.
LEMMA BalancePeak ==
    ASSUME NEW v, Counted(v), Within(v, NMems), PeakOK(v), NEW w \in BalanceMemTypes(v, NMems)
    PROVE  Counted(w) /\ Within(w, NMems) /\ PeakOK(w) /\ w \in TaskAttrsType
<1>0. NMems \in 1..MAX_ATTRTYPES
  BY TypesAssumption
<1>1. Counted(w) /\ Within(w, NMems)
  BY <1>0, BalanceCounted
<1>2. ASSUME NMems <= 2 PROVE w.max_type \in PeakTypes(w.attrs)
  <2>1. /\ v.max_type \in AttrTypes /\ v.n_tasks_per_type \in [AttrTypes -> Int]
        /\ v.n_tasks_per_type[v.max_type] > 0
        /\ \A t \in AttrTypes : v.n_tasks_per_type[t] = CountOf(v.attrs, t)
    BY DEF Counted, TaskAttrsType
  <2>2. PICK idx \in 0..(v.n_tasks_per_type[v.max_type] - 1), new \in 0..(NMems - 1) \ {v.max_type} :
          w = RetypeMax(v, NthOfType(v.attrs, v.max_type, idx), new)
    BY <2>1 DEF BalanceMemTypes
  <2>3. w.max_type = IF w.n_tasks_per_type[v.max_type] < w.n_tasks_per_type[new] THEN new ELSE v.max_type
    BY <2>2 DEF RetypeMax
  <2>4. /\ w.attrs \in Vectors
        /\ w.n_tasks_per_type \in [AttrTypes -> Int]
        /\ \A t \in AttrTypes : w.n_tasks_per_type[t] = CountOf(w.attrs, t)
    BY <1>1 DEF Counted, TaskAttrsType
  <2>5. ASSUME NEW x, x.attrs \in Vectors, Within(x, NMems), NEW t \in AttrTypes, CountOf(x.attrs, t) # 0
        PROVE  t < NMems
    <3>1. SUFFICES ASSUME ~ \E i \in Tasks : x.attrs[i] = t PROVE FALSE
      BY <2>5 DEF Within
    <3>2. {i \in Tasks : x.attrs[i] = t} = {}
      BY <3>1
    <3> QED
      BY <2>5, <3>2, FS_EmptySet DEF CountOf
  <2>6. v.attrs \in Vectors
    BY DEF Counted, TaskAttrsType
  <2>7. v.max_type < NMems
    <3>1. CountOf(v.attrs, v.max_type) # 0
      BY <2>1
    <3> QED
      BY <2>1, <2>5, <2>6, <3>1
  <2>8. \A t \in AttrTypes : t # v.max_type /\ t # new => w.n_tasks_per_type[t] = 0
    <3> SUFFICES ASSUME NEW t \in AttrTypes, t # v.max_type, t # new PROVE CountOf(w.attrs, t) = 0
      BY <2>4
    <3>1. t \in Nat /\ v.max_type \in Nat /\ new \in Nat /\ new < NMems /\ new # v.max_type
      BY <1>0, <2>1 DEF AttrTypes
    <3>2. ~ (t < NMems)
      BY <1>0, <1>2, <2>7, <3>1
    <3> QED
      BY <1>1, <2>4, <2>5, <3>2
  <2>9. new \in AttrTypes /\ w.max_type \in AttrTypes
    <3>1. new \in AttrTypes
      BY <1>0, MaxAttrTypesAssumption DEF AttrTypes
    <3> QED
      BY <1>1, <3>1 DEF Counted, TaskAttrsType
  <2>10. \A t \in AttrTypes : w.n_tasks_per_type[t] \in Int /\ w.n_tasks_per_type[t] >= 0
    BY <2>4, CountType
  <2>11. \A t \in AttrTypes : w.n_tasks_per_type[t] <= w.n_tasks_per_type[w.max_type]
    <3> SUFFICES ASSUME NEW t \in AttrTypes
                 PROVE  w.n_tasks_per_type[t] <= w.n_tasks_per_type[w.max_type]
      OBVIOUS
    <3> DEFINE a == w.n_tasks_per_type[v.max_type]
               b == w.n_tasks_per_type[new]
               c == w.n_tasks_per_type[t]
               d == w.n_tasks_per_type[w.max_type]
    <3>1. a \in Int /\ a >= 0 /\ b \in Int /\ b >= 0 /\ c \in Int /\ c >= 0
      BY <2>1, <2>9, <2>10
    <3>2. d = IF a < b THEN b ELSE a
      BY <2>3
    <3>3. c = a \/ c = b \/ c = 0
      BY <2>8
    <3> HIDE DEF a, b, c, d
    <3>4. c <= d
      BY <3>1, <3>2, <3>3
    <3> QED
      BY <3>4 DEF c, d
  <2> QED
    BY <2>4, <2>9, <2>11 DEF PeakTypes
<1> QED
  BY <1>1, <1>2 DEF PeakOK, Counted

\* A gene whose CPU frequencies were lowered.
LEMMA LowerCpufreqOK ==
    ASSUME NEW g \in GeneType, GeneOK(g), NEW ta \in LowerUtilizationByAttr(g.cpufreq)
    PROVE  LET h == [g EXCEPT !["cpufreq"] = ta]
           IN  h \in GeneType /\ GeneOK(h) /\ h.ratio = g.ratio
<1>1. Counted(ta) /\ Within(ta, NCpufreqs)
  BY LowerCounted, TypesAssumption DEF GeneOK
<1>2. ta \in TaskAttrsType
  BY <1>1 DEF Counted
<1> DEFINE h == [g EXCEPT !["cpufreq"] = ta]
<1>3. h \in GeneType /\ h.mem = g.mem /\ h.cloud = g.cloud /\ h.cpufreq = ta /\ h.ratio = g.ratio
  BY <1>2 DEF GeneType
<1> HIDE DEF h
<1>4. GeneOK(h)
  BY <1>1, <1>3 DEF GeneOK
<1> QED
  BY <1>3, <1>4 DEF h

\* lower_utilization: the ratios are all at index 0 already, only CPU frequencies change.
LEMMA LowerOK ==
    ASSUME NEW g \in GeneType, GeneOK(g), Local(g), NEW h \in LowerUtilization(g)
    PROVE  h \in GeneType /\ GeneOK(h) /\ Local(h)
<1>1. LowerUtilizationByAttr(g.ratio) = {}
  BY DEF Local, LowerUtilizationByAttr, LowerableTasks
<1>2. h = g \/ \E ta \in LowerUtilizationByAttr(g.cpufreq) : h = [g EXCEPT !["cpufreq"] = ta]
  BY <1>1 DEF LowerUtilization, LowerFirst
<1> QED
  BY <1>2, LowerCpufreqOK DEF Local

\* do_crossover: what the newborn inherits is over the configured tables.
LEMMA InheritedOK ==
    ASSUME NEW g \in GeneType, GeneOK(g), NEW g1, GeneOK(g1), Local(g1),
           NEW g2, GeneOK(g2), Local(g2), NEW r, NEW f, NEW m
    PROVE  LET h == Inherited(g, g1, g2, r, f, m)
           IN  h \in GeneType /\ GeneOK(h) /\ Local(h)
<1> DEFINE mem == InheritValues(g1.mem, g2.mem, m)
           ratio == InheritValues(g1.ratio, g2.ratio, r)
           cpufreq == InheritValues(g1.cpufreq, g2.cpufreq, f)
           h == Inherited(g, g1, g2, r, f, m)
<1>1. Counted(mem) /\ Within(mem, NMems) /\ PeakOK(mem) /\ mem \in TaskAttrsType
  BY InheritOK, TypesAssumption DEF GeneOK
<1>2. /\ Counted(ratio) /\ Within(ratio, NRatios) /\ ratio \in TaskAttrsType
      /\ \A i \in Tasks : ratio.attrs[i] \in {g1.ratio.attrs[i], g2.ratio.attrs[i]}
  BY InheritOK, TypesAssumption DEF GeneOK
<1>3. Counted(cpufreq) /\ Within(cpufreq, NCpufreqs) /\ cpufreq \in TaskAttrsType
  BY InheritOK, TypesAssumption DEF GeneOK
<1> HIDE DEF mem, ratio, cpufreq
<1>4. /\ h \in GeneType /\ h.cloud = g.cloud
      /\ h.mem = mem /\ h.ratio = ratio /\ h.cpufreq = cpufreq
  BY <1>1, <1>2, <1>3 DEF Inherited, GeneType, mem, ratio, cpufreq
<1> HIDE DEF h
<1>5. GeneOK(h)
  BY <1>1, <1>2, <1>3, <1>4 DEF GeneOK
<1>6. Local(h)
  BY <1>2, <1>4 DEF Local
<1> QED
  BY <1>4, <1>5, <1>6 DEF h

-----------------------------------------------------------------------------
(* Steps                                                                   *)

\* The keys of the lists are integers.
LEMMA KeysType ==
    ASSUME NEW gs \in [Genes -> GeneType]
    PROVE  Utils(gs) \in [Genes -> Int] /\ Powers(gs) \in [Genes -> Int] /\ Scores(gs) \in [Genes -> Int]
BY DEF Utils, Powers, Scores, GeneType

\* The gene under repair or under construction is in no list.
LEMMA CurrentUnlisted ==
    ASSUME TypeOK, pc \in {"assign", "try", "cross"}
    PROVE  cur \in Genes /\ cur \notin ExpectedListed /\ ExpectedListed \subseteq Genes
<1>1. cur \in 1..NPops /\ NPops \in Nat
  BY PopulationAssumption DEF TypeOK, Genes
<1>2. CASE pc = "cross"
  BY <1>1, <1>2 DEF ExpectedListed, Genes
<1>3. CASE pc \in {"assign", "try"}
  <2>1. ExpectedListed = 1..(cur - 1)
    BY <1>3 DEF ExpectedListed
  <2>2. cur \notin 1..(cur - 1)
    BY <1>1
  <2>3. \A x \in 1..(cur - 1) : x \in 1..NPops
    BY <1>1
  <2> QED
    BY <1>1, <2>1, <2>2, <2>3 DEF Genes
<1> QED
  BY <1>2, <1>3

\* A step that only changes the gene under work leaves the lists right.
LEMMA WorkLists ==
    ASSUME GAInv, pc \in {"assign", "try", "cross"},
           NEW h \in GeneType, Local(h), genes' = [genes EXCEPT ![cur] = h],
           UNCHANGED <<lists, report>>, ExpectedListed' = ExpectedListed
    PROVE  /\ genes' \in [Genes -> GeneType]
           /\ genes'[cur] = h
           /\ \A g \in ExpectedListed : genes'[g] = genes[g]
           /\ (\A g \in Genes : Local(genes[g]))'
           /\ ListsOK' /\ ListedOK' /\ ReportsKept'
<1> DEFINE S == ExpectedListed
<1>1. TypeOK /\ genes \in [Genes -> GeneType]
  BY DEF GAInv, TypeOK
<1>2. cur \in Genes /\ cur \notin S /\ S \subseteq Genes
  BY <1>1, CurrentUnlisted
<1>3. genes' \in [Genes -> GeneType] /\ genes'[cur] = h /\ \A g \in Genes \ {cur} : genes'[g] = genes[g]
  BY <1>1, <1>2
<1>4. \A g \in S : genes'[g] = genes[g]
  BY <1>2, <1>3
<1>5. (\A g \in Genes : Local(genes[g]))'
  BY <1>3 DEF GAInv, Local
<1> HIDE DEF S
<1>6. /\ by_util' = by_util /\ by_power' = by_power /\ by_score' = by_score /\ report' = report
      /\ ExpectedListed = S /\ ExpectedListed' = S
  BY DEF lists, S
<1>7. ListsOK'
  <2>1. /\ ListOK(by_util, S, Utils(genes)) /\ ListOK(by_power, S, Powers(genes))
        /\ ListOK(by_score, S, Scores(genes))
    BY <1>6 DEF GAInv, ListsOK
  <2>2. \A g \in S : /\ Utils(genes')[g] = Utils(genes)[g] /\ Powers(genes')[g] = Powers(genes)[g]
                     /\ Scores(genes')[g] = Scores(genes)[g]
    BY <1>2, <1>4 DEF Utils, Powers, Scores, S
  <2>3. ListOK(by_util, S, Utils(genes'))
    BY <2>1, <2>2, RekeyOK
  <2>4. ListOK(by_power, S, Powers(genes'))
    BY <2>1, <2>2, RekeyOK
  <2>5. ListOK(by_score, S, Scores(genes'))
    BY <2>1, <2>2, RekeyOK
  <2> QED
    BY <1>6, <2>3, <2>4, <2>5 DEF ListsOK
<1>8. ListedOK'
  <2>1. \A g \in S : GeneOK(genes[g]) /\ Evaluated(genes[g])
    BY <1>6 DEF GAInv, ListedOK
  <2>2. \A g \in S : GeneOK(genes'[g]) /\ Evaluated(genes'[g])
    BY <1>4, <2>1
  <2> QED
    BY <1>6, <2>2 DEF ListedOK
<1>9. ReportsKept'
  <2>1. \A i \in 1..Len(report) : \E g \in S : genes[g].score <= report[i].cost_min
    BY <1>6 DEF GAInv, ReportsKept
  <2>2. \A i \in 1..Len(report) : \E g \in S : genes'[g].score <= report[i].cost_min
    BY <1>4, <2>1
  <2> QED
    BY <1>6, <2>2 DEF ReportsKept
<1> QED
  BY <1>3, <1>4, <1>5, <1>6, <1>7, <1>8, <1>9

\* Listing the gene under work, once it is admissible and evaluated, keeps them right.
LEMMA SortLists ==
    ASSUME GAInv, pc \in {"try", "cross"},
           NEW h \in GeneType, GeneOK(h), Evaluated(h), Local(h),
           genes' = [genes EXCEPT ![cur] = h], SortGene(genes', cur), report' = report,
           ExpectedListed' = ExpectedListed \cup {cur}
    PROVE  /\ genes' \in [Genes -> GeneType]
           /\ (\A g \in Genes : Local(genes[g]))'
           /\ ListsOK' /\ ListedOK' /\ ReportsKept'
<1> DEFINE S == ExpectedListed
<1>1. TypeOK /\ genes \in [Genes -> GeneType]
  BY DEF GAInv, TypeOK
<1>2. cur \in Genes /\ cur \notin S /\ S \subseteq Genes
  BY <1>1, CurrentUnlisted
<1>3. genes' \in [Genes -> GeneType] /\ genes'[cur] = h /\ \A g \in Genes \ {cur} : genes'[g] = genes[g]
  BY <1>1, <1>2
<1>4. \A g \in S : genes'[g] = genes[g]
  BY <1>2, <1>3
<1>5. (\A g \in Genes : Local(genes[g]))'
  BY <1>3 DEF GAInv, Local
<1> HIDE DEF S
<1>6. ExpectedListed = S /\ ExpectedListed' = S \cup {cur}
  BY DEF S
<1>7. ListsOK'
  <2>1. /\ ListOK(by_util, S, Utils(genes)) /\ ListOK(by_power, S, Powers(genes))
        /\ ListOK(by_score, S, Scores(genes))
    BY <1>6 DEF GAInv, ListsOK
  <2>2. \A g \in S : /\ Utils(genes')[g] = Utils(genes)[g] /\ Powers(genes')[g] = Powers(genes)[g]
                     /\ Scores(genes')[g] = Scores(genes)[g]
    BY <1>2, <1>4 DEF Utils, Powers, Scores, S
  <2>3. /\ Utils(genes') \in [Genes -> Int] /\ Powers(genes') \in [Genes -> Int]
        /\ Scores(genes') \in [Genes -> Int]
    BY <1>3, KeysType
  <2>4. cur \in Genes \ S
    BY <1>2
  <2>5. ListOK(by_util, S, Utils(genes'))
    BY <2>1, <2>2, RekeyOK
  <2>6. ListOK(by_power, S, Powers(genes'))
    BY <2>1, <2>2, RekeyOK
  <2>7. ListOK(by_score, S, Scores(genes'))
    BY <2>1, <2>2, RekeyOK
  <2>8. ListOK(InsertSorted(by_util, Utils(genes'), cur), S \cup {cur}, Utils(genes'))
    BY <2>3, <2>4, <2>5, InsertSortedOK
  <2>9. ListOK(InsertSorted(by_power, Powers(genes'), cur), S \cup {cur}, Powers(genes'))
    BY <2>3, <2>4, <2>6, InsertSortedOK
  <2>10. ListOK(InsertSorted(by_score, Scores(genes'), cur), S \cup {cur}, Scores(genes'))
    BY <2>3, <2>4, <2>7, InsertSortedOK
  <2> QED
    BY <1>6, <2>8, <2>9, <2>10 DEF ListsOK, SortGene
<1>8. ListedOK'
  <2>1. \A g \in S : GeneOK(genes[g]) /\ Evaluated(genes[g])
    BY <1>6 DEF GAInv, ListedOK
  <2>2. \A g \in S \cup {cur} : GeneOK(genes'[g]) /\ Evaluated(genes'[g])
    BY <1>3, <1>4, <2>1
  <2> QED
    BY <1>6, <2>2 DEF ListedOK
<1>9. ReportsKept'
  <2>1. \A i \in 1..Len(report) : \E g \in S : genes[g].score <= report[i].cost_min
    BY <1>6 DEF GAInv, ReportsKept
  <2>2. \A i \in 1..Len(report) : \E g \in S \cup {cur} : genes'[g].score <= report[i].cost_min
    BY <1>4, <2>1
  <2> QED
    BY <1>6, <2>2 DEF ReportsKept
<1> QED
  BY <1>3, <1>5, <1>7, <1>8, <1>9

\* task.txt is written in the very last step.
LEMMA NothingSaved ==
    ASSUME GAInv, pc # "done", task_txt' = task_txt
    PROVE  /\ (task_txt.plans # {} => pc = "done")' /\ SavedIsBest'
           /\ task_txt'.opened \in BOOLEAN /\ task_txt'.plans \subseteq Plans
BY DEF GAInv, SavedIsBest, TypeOK

\* init_gene and do_crossover at work on a gene that is in no list
LEMMA WorkInv ==
    ASSUME GAInv, pc \in {"assign", "try", "cross"},
           NEW h \in GeneType, GeneOK(h), Local(h), genes' = [genes EXCEPT ![cur] = h],
           UNCHANGED <<lists, cur, output>>, tries' \in 0..MAX_TRY,
           pc' = IF pc = "assign" THEN "try" ELSE pc
    PROVE  GAInv'
<1>1. report' = report /\ gen' = gen /\ intervals' = intervals /\ task_txt' = task_txt /\ cur' = cur
  BY DEF output
<1>2. ExpectedListed' = ExpectedListed
  BY <1>1 DEF ExpectedListed
<1>3. /\ genes' \in [Genes -> GeneType] /\ genes'[cur] = h
      /\ (\A g \in Genes : Local(genes[g]))'
      /\ ListsOK' /\ ListedOK' /\ ReportsKept'
  BY <1>1, <1>2, WorkLists
<1>4. CurrentOK'
  BY <1>1, <1>3 DEF CurrentOK
<1>5. /\ (task_txt.plans # {} => pc = "done")' /\ SavedIsBest'
      /\ task_txt'.opened \in BOOLEAN /\ task_txt'.plans \subseteq Plans
  BY <1>1, NothingSaved
<1>6. TypeOK'
  BY <1>1, <1>3, <1>5 DEF GAInv, TypeOK, lists
<1>7. (pc = "cross" => gen <= MaxGen)'
  BY <1>1 DEF GAInv
<1> QED
  BY <1>3, <1>4, <1>5, <1>6, <1>7 DEF GAInv

\* exit(3) while a gene is out of the lists
LEMMA FatalInv ==
    ASSUME GAInv, pc \in {"try", "cross"},
           NEW h \in GeneType, Local(h), genes' = [genes EXCEPT ![cur] = h],
           UNCHANGED <<lists, cur, tries, output>>, pc' = "fatal"
    PROVE  GAInv'
<1>1. report' = report /\ gen' = gen /\ intervals' = intervals /\ task_txt' = task_txt /\ by_score' = by_score
  BY DEF output, lists
<1>2. ExpectedListed' = ExpectedListed
  <2>1. ToSet(by_score) = ExpectedListed
    BY DEF GAInv, ListsOK, ListOK
  <2> QED
    BY <1>1, <2>1 DEF ExpectedListed
<1>3. /\ genes' \in [Genes -> GeneType]
      /\ (\A g \in Genes : Local(genes[g]))'
      /\ ListsOK' /\ ListedOK' /\ ReportsKept'
  BY <1>1, <1>2, WorkLists
<1>4. /\ (task_txt.plans # {} => pc = "done")' /\ SavedIsBest'
      /\ task_txt'.opened \in BOOLEAN /\ task_txt'.plans \subseteq Plans
  BY <1>1, NothingSaved
<1>5. TypeOK'
  BY <1>1, <1>3, <1>4 DEF GAInv, TypeOK, lists
<1> QED
  BY <1>3, <1>4, <1>5 DEF GAInv, CurrentOK

\* A step that lists the gene and goes on
LEMMA ListInv ==
    ASSUME GAInv, pc \in {"try", "cross"},
           NEW h \in GeneType, GeneOK(h), Evaluated(h), Local(h),
           genes' = [genes EXCEPT ![cur] = h], SortGene(genes', cur),
           UNCHANGED <<tries, intervals, report, task_txt>>,
           ExpectedListed' = ExpectedListed \cup {cur},
           cur' \in Genes, gen' \in 1..(MaxGen + 1), pc' \in {"assign", "report"}
    PROVE  GAInv'
<1>1. /\ genes' \in [Genes -> GeneType]
      /\ (\A g \in Genes : Local(genes[g]))'
      /\ ListsOK' /\ ListedOK' /\ ReportsKept'
  BY SortLists
<1>2. /\ (task_txt.plans # {} => pc = "done")' /\ SavedIsBest'
      /\ task_txt'.opened \in BOOLEAN /\ task_txt'.plans \subseteq Plans
  BY NothingSaved
<1>3. by_util' \in Seq(Genes) /\ by_power' \in Seq(Genes) /\ by_score' \in Seq(Genes)
  BY <1>1 DEF ListsOK, ListOK
<1>4. TypeOK'
  BY <1>1, <1>2, <1>3 DEF GAInv, TypeOK
<1> QED
  BY <1>1, <1>2, <1>4 DEF GAInv, CurrentOK

\* The invariant holds at the start.
LEMMA SchedulerInit == Init => GAInv
<1> SUFFICES ASSUME Init PROVE GAInv
  OBVIOUS
<1> USE DEF Init
<1>1. ExpectedListed = {}
  BY DEF ExpectedListed
<1>2. NPops \in Nat /\ NPops >= 2 /\ MaxGen \in Nat /\ MAX_TRY \in Nat
  BY PopulationAssumption
<1>3. ZeroAttrs \in TaskAttrsType
  <2>1. 0 \in AttrTypes
    BY MaxAttrTypesAssumption DEF AttrTypes
  <2> QED
    BY <2>1 DEF ZeroAttrs, TaskAttrsType, Vectors
<1>4. genes \in [Genes -> GeneType]
  BY <1>3 DEF GeneType
<1>5. \A g \in Genes : Local(genes[g])
  BY DEF Local, ZeroAttrs
<1>6. TypeOK
  <2>1. report \in Seq(Rows) /\ \A l \in {by_util, by_power, by_score} : l \in Seq(Genes)
    OBVIOUS
  <2>2. cur \in Genes /\ tries \in 0..MAX_TRY /\ gen \in 1..(MaxGen + 1)
    BY <1>2 DEF Genes
  <2> QED
    BY <1>4, <2>1, <2>2 DEF TypeOK
<1>7. ASSUME NEW key PROVE ListOK(<<>>, {}, key)
  BY DEF ListOK, ToSet, IsOrdered
<1>8. ListsOK
  BY <1>1, <1>7 DEF ListsOK
<1>9. ListedOK /\ CurrentOK /\ ReportsKept
  BY <1>1 DEF ListedOK, CurrentOK, ReportsKept
<1> QED
  BY <1>5, <1>6, <1>8, <1>9 DEF GAInv, SavedIsBest

\* init_gene draws a plan.
LEMMA AssignInv == ASSUME GAInv, AssignGene PROVE GAInv'
<1>1. PICK m \in AssignTaskattrs(NMems), f \in AssignTaskattrs(NCpufreqs), c \in AssignTaskattrs(NClouds) :
        genes' = [genes EXCEPT ![cur].mem = m, ![cur].cpufreq = f, ![cur].cloud = c,
                               ![cur].ratio = SetupTaskattrs([i \in Tasks |-> 0])]
  BY DEF AssignGene
<1> DEFINE r == SetupTaskattrs([i \in Tasks |-> 0])
           h == [genes[cur] EXCEPT !.mem = m, !.cpufreq = f, !.cloud = c, !.ratio = r]
<1>2. genes \in [Genes -> GeneType] /\ cur \in Genes
  BY DEF GAInv, TypeOK
<1>3. ASSUME NEW n \in 1..MAX_ATTRTYPES, NEW v \in AssignTaskattrs(n)
      PROVE  Counted(v) /\ Within(v, n) /\ PeakOK(v) /\ v \in TaskAttrsType
  BY SetupOK DEF AssignTaskattrs
<1>4. Counted(m) /\ Within(m, NMems) /\ PeakOK(m) /\ m \in TaskAttrsType
  BY <1>3, TypesAssumption
<1>5. Counted(f) /\ Within(f, NCpufreqs) /\ f \in TaskAttrsType
  BY <1>3, TypesAssumption
<1>6. Counted(c) /\ Within(c, NClouds) /\ c \in TaskAttrsType
  BY <1>3, TypesAssumption
<1>7. /\ Counted(r) /\ Within(r, NRatios) /\ r \in TaskAttrsType
      /\ r.attrs = [i \in Tasks |-> 0]
  <2>1. [i \in Tasks |-> 0] \in [Tasks -> 0..(NRatios - 1)]
    BY TypesAssumption
  <2> QED
    BY <2>1, SetupOK, TypesAssumption
<1> HIDE DEF r
<1>8. genes' = [genes EXCEPT ![cur] = h]
  BY <1>1, <1>2 DEF r
<1>9. h \in GeneType /\ h.mem = m /\ h.cpufreq = f /\ h.cloud = c /\ h.ratio = r
  BY <1>2, <1>4, <1>5, <1>6, <1>7 DEF GeneType
<1> HIDE DEF h
<1>10. GeneOK(h) /\ Local(h)
  BY <1>4, <1>5, <1>6, <1>7, <1>9 DEF GeneOK, Local
<1>11. tries' \in 0..MAX_TRY
  BY PopulationAssumption DEF AssignGene
<1> QED
  BY <1>8, <1>9, <1>10, <1>11, WorkInv DEF AssignGene

\* balance_mem_types moves a task of the gene under repair.
LEMMA BalanceInv == ASSUME GAInv, Balance PROVE GAInv'
<1>1. PICK m \in BalanceMemTypes(genes[cur].mem, NMems) : genes' = [genes EXCEPT ![cur].mem = m]
  BY DEF Balance
<1> DEFINE h == [genes[cur] EXCEPT !.mem = m]
<1>2. genes \in [Genes -> GeneType] /\ cur \in Genes /\ pc = "try" /\ tries \in 0..MAX_TRY /\ tries < MAX_TRY
  BY DEF GAInv, TypeOK, Balance, Trying
<1>3. GeneOK(genes[cur]) /\ Local(genes[cur])
  BY <1>2 DEF GAInv, CurrentOK
<1>4. Counted(m) /\ Within(m, NMems) /\ PeakOK(m) /\ m \in TaskAttrsType
  BY <1>3, BalancePeak DEF GeneOK
<1>5. genes' = [genes EXCEPT ![cur] = h]
  BY <1>1, <1>2
<1>6. /\ h \in GeneType /\ h.mem = m /\ h.cpufreq = genes[cur].cpufreq
      /\ h.cloud = genes[cur].cloud /\ h.ratio = genes[cur].ratio
  BY <1>2, <1>4 DEF GeneType
<1> HIDE DEF h
<1>7. GeneOK(h) /\ Local(h)
  BY <1>3, <1>4, <1>6 DEF GeneOK, Local
<1>8. tries' \in 0..MAX_TRY
  BY <1>2, PopulationAssumption DEF Balance
<1> QED
  BY <1>2, <1>5, <1>6, <1>7, <1>8, WorkInv DEF Balance

\* lower_utilization lowers an attribute of the gene under repair.
LEMMA LowerInv == ASSUME GAInv, Lower PROVE GAInv'
<1>1. PICK h \in LowerUtilization(CheckUtilpower(genes[cur])) : genes' = [genes EXCEPT ![cur] = h]
  BY DEF Lower
<1>2. genes[cur] \in GeneType /\ cur \in Genes /\ pc = "try" /\ tries \in 0..MAX_TRY /\ tries < MAX_TRY
  BY DEF GAInv, TypeOK, Lower, Trying
<1>3. GeneOK(genes[cur]) /\ Local(genes[cur])
  BY <1>2 DEF GAInv, CurrentOK
<1> DEFINE g == CheckUtilpower(genes[cur])
<1>4. g \in GeneType /\ GeneOK(g) /\ g.ratio = genes[cur].ratio
  BY <1>2, <1>3, CheckUtilpowerOK
<1>5. Local(g)
  BY <1>3, <1>4 DEF Local
<1>6. h \in GeneType /\ GeneOK(h) /\ Local(h)
  BY <1>4, <1>5, LowerOK
<1>7. tries' \in 0..MAX_TRY
  BY <1>2, PopulationAssumption DEF Lower
<1> QED
  BY <1>1, <1>2, <1>6, <1>7, WorkInv DEF Lower

\* A gene that passed its checks is put into the lists.
LEMMA AdmitInv == ASSUME GAInv, Admit PROVE GAInv'
<1> DEFINE h == CheckUtilpower(genes[cur])
<1>1. /\ genes \in [Genes -> GeneType] /\ genes[cur] \in GeneType /\ cur \in Genes
      /\ gen \in 1..(MaxGen + 1) /\ pc = "try"
  BY DEF GAInv, TypeOK, Admit, Trying
<1>2. GeneOK(genes[cur]) /\ Local(genes[cur])
  BY <1>1 DEF GAInv, CurrentOK
<1>3. h \in GeneType /\ GeneOK(h) /\ Evaluated(h) /\ h.ratio = genes[cur].ratio
  BY <1>1, <1>2, CheckUtilpowerOK DEF Admit
<1>4. Local(h)
  BY <1>2, <1>3 DEF Local
<1>5. genes' = [genes EXCEPT ![cur] = h]
  BY <1>1 DEF Admit
<1>6. cur \in 1..NPops /\ NPops \in Nat
  BY <1>1, PopulationAssumption DEF Genes
<1>7. cur' \in Genes /\ pc' \in {"assign", "report"} /\ ExpectedListed' = ExpectedListed \cup {cur}
  <2>1. 1..cur = 1..(cur - 1) \cup {cur}
    BY <1>6
  <2>2. ExpectedListed = 1..(cur - 1)
    BY <1>1 DEF ExpectedListed
  <2>3. CASE cur < NPops
    <3>1. cur' = cur + 1 /\ pc' = "assign"
      BY <2>3 DEF Admit
    <3>2. ExpectedListed' = 1..(cur' - 1)
      BY <3>1 DEF ExpectedListed
    <3>3. cur' - 1 = cur /\ cur' \in 1..NPops
      BY <1>6, <2>3, <3>1
    <3> QED
      BY <2>1, <2>2, <3>1, <3>2, <3>3 DEF Genes
  <2>4. CASE ~ (cur < NPops)
    <3>1. cur' = cur /\ pc' = "report" /\ cur = NPops
      BY <1>6, <2>4 DEF Admit
    <3>2. ExpectedListed' = 1..NPops
      BY <3>1 DEF ExpectedListed, Genes
    <3> QED
      BY <1>1, <2>1, <2>2, <3>1, <3>2
  <2> QED
    BY <2>3, <2>4
<1>8. SortGene(genes', cur) /\ UNCHANGED <<tries, intervals, report, task_txt>> /\ gen' = gen
  BY DEF Admit, output
<1> HIDE DEF h
<1> QED
  BY <1>1, <1>3, <1>4, <1>5, <1>7, <1>8, ListInv

\* The fatal exits change nothing that is listed.
LEMMA InitFatalInv == ASSUME GAInv, ScaledWcetFatal \/ InitFatal \/ CrossFatal PROVE GAInv'
<1> DEFINE h == genes[cur]
<1>1. genes \in [Genes -> GeneType] /\ cur \in Genes /\ h \in GeneType /\ Local(h)
  BY DEF GAInv, TypeOK
<1>2. pc \in {"try", "cross"} /\ UNCHANGED <<genes, lists, cur, tries, output>> /\ pc' = "fatal"
  BY DEF ScaledWcetFatal, InitFatal, CrossFatal, Trying
<1>3. genes' = [genes EXCEPT ![cur] = h]
  BY <1>1, <1>2
<1> QED
  BY <1>1, <1>2, <1>3, FatalInv

\* The gene with the worst score leaves the lists to become the newborn.
LEMMA NewbornInv == ASSUME GAInv, GetNewborn PROVE GAInv'
<1> DEFINE g0 == Last(by_score)
<1>1. genes \in [Genes -> GeneType] /\ pc = "loop" /\ gen <= MaxGen
  BY DEF GAInv, TypeOK, GetNewborn
<1>2. ExpectedListed = Genes
  BY <1>1 DEF ExpectedListed
<1>3. /\ Utils(genes) \in [Genes -> Int] /\ Powers(genes) \in [Genes -> Int]
      /\ Scores(genes) \in [Genes -> Int]
  BY <1>1, KeysType
<1>4. /\ ListOK(by_util, Genes, Utils(genes)) /\ ListOK(by_power, Genes, Powers(genes))
      /\ ListOK(by_score, Genes, Scores(genes))
  BY <1>2 DEF GAInv, ListsOK
<1>5. 1 \in Genes /\ 2 \in Genes
  BY PopulationAssumption DEF Genes
<1>6. g0 \in Genes /\ \A g \in Genes : Scores(genes)[g] <= Scores(genes)[g0]
  <2>1. Genes # {}
    BY <1>5
  <2> QED
    BY <1>3, <1>4, <2>1, ListEnds
<1> HIDE DEF g0
<1>7. /\ by_util' = Unlisted(by_util, g0) /\ by_power' = Unlisted(by_power, g0)
      /\ by_score' = Unlisted(by_score, g0)
      /\ cur' = g0 /\ pc' = "cross" /\ tries' = 0 /\ genes' = genes
      /\ gen' = gen /\ intervals' = intervals /\ report' = report /\ task_txt' = task_txt
  BY DEF GetNewborn, Newborn, output, g0
<1>8. ExpectedListed' = Genes \ {g0}
  BY <1>7 DEF ExpectedListed
<1>9. ListsOK'
  <2>1. ListOK(Unlisted(by_util, g0), Genes \ {g0}, Utils(genes))
    BY <1>3, <1>4, <1>6, UnlistedOK
  <2>2. ListOK(Unlisted(by_power, g0), Genes \ {g0}, Powers(genes))
    BY <1>3, <1>4, <1>6, UnlistedOK
  <2>3. ListOK(Unlisted(by_score, g0), Genes \ {g0}, Scores(genes))
    BY <1>3, <1>4, <1>6, UnlistedOK
  <2> QED
    BY <1>7, <1>8, <2>1, <2>2, <2>3 DEF ListsOK
<1>10. ListedOK' /\ CurrentOK'
  BY <1>2, <1>6, <1>7, <1>8 DEF GAInv, ListedOK, CurrentOK
<1>11. ReportsKept'
  <2> SUFFICES ASSUME NEW i \in 1..Len(report)
               PROVE  \E g \in Genes \ {g0} : genes[g].score <= report[i].cost_min
    BY <1>7, <1>8 DEF ReportsKept
  <2>1. PICK g \in Genes : genes[g].score <= report[i].cost_min
    BY <1>2 DEF GAInv, ReportsKept
  <2>2. PICK h \in Genes : h # g0
    BY <1>5
  <2>3. CASE g # g0
    BY <2>1, <2>3
  <2>4. CASE g = g0
    <3>1. genes[h].score <= genes[g0].score
      BY <1>6 DEF Scores
    <3>2. genes[h].score \in Int /\ genes[g0].score \in Int
      BY <1>1, <1>6 DEF GeneType
    <3>3. report[i].cost_min \in Int
      <4>1. report[i] \in Rows
        BY ElementOfSeq DEF GAInv, TypeOK
      <4> QED
        BY <4>1 DEF Rows
    <3>4. genes[h].score <= report[i].cost_min
      BY <2>1, <2>4, <3>1, <3>2, <3>3
    <3> QED
      BY <2>2, <3>4
  <2> QED
    BY <2>3, <2>4
<1>12. /\ (task_txt.plans # {} => pc = "done")' /\ SavedIsBest'
       /\ task_txt'.opened \in BOOLEAN /\ task_txt'.plans \subseteq Plans
  BY <1>1, <1>7, NothingSaved
<1>13. tries' \in 0..MAX_TRY
  BY <1>7, PopulationAssumption
<1>14. by_util' \in Seq(Genes) /\ by_power' \in Seq(Genes) /\ by_score' \in Seq(Genes)
  BY <1>9 DEF ListsOK, ListOK
<1>15. TypeOK'
  BY <1>6, <1>7, <1>12, <1>13, <1>14 DEF GAInv, TypeOK
<1>16. (\A g \in Genes : Local(genes[g]))'
  BY <1>7 DEF GAInv
<1> QED
  BY <1>1, <1>7, <1>9, <1>10, <1>11, <1>12, <1>15, <1>16 DEF GAInv

\* During crossover all the genes but the newborn are listed; select_gene draws from them.
LEMMA ParentsListed ==
    ASSUME GAInv, pc = "cross"
    PROVE  /\ SelectGene \subseteq Genes \ {cur}
           /\ Len(by_score) = NPops - 1
<1> DEFINE S == Genes \ {cur}
<1>1. ExpectedListed = S
  BY DEF ExpectedListed
<1>2. ListOK(by_score, S, Scores(genes)) /\ Scores(genes) \in [Genes -> Int] /\ cur \in Genes
  BY <1>1, KeysType DEF GAInv, ListsOK, TypeOK
<1>3. IsFiniteSet(S) /\ Len(by_score) = Cardinality(S)
  BY <1>2, ListLength
<1>4. NPops \in Nat /\ NPops >= 2
  BY PopulationAssumption
<1>5. IsFiniteSet(Genes) /\ Cardinality(Genes) = NPops
  <2>1. ASSUME NEW m \in Nat PROVE IsFiniteSet(1..m) /\ Cardinality(1..m) = m
    BY FS_Interval
  <2> QED
    BY <1>4, <2>1 DEF Genes
<1>6. Cardinality(S) = NPops - 1
  BY <1>2, <1>5, FS_RemoveElement
<1>7. by_score \in Seq(Genes)
  BY <1>2 DEF ListOK
<1>8. \A i \in 1..Len(by_score) : by_score[i] \in S
  BY <1>2, <1>7, ToSetIndexed DEF ListOK
<1>9. ASSUME NEW k \in Kvalues \cap 0..(NPops - 1)
      PROVE  (IF NPops - k <= Len(by_score) THEN by_score[NPops - k] ELSE Last(by_score)) \in S
  <2>1. Len(by_score) \in 1..Len(by_score) /\ (NPops - k <= Len(by_score) => NPops - k \in 1..Len(by_score))
    BY <1>3, <1>4, <1>6
  <2> QED
    BY <1>8, <2>1 DEF Last
<1> QED
  BY <1>3, <1>6, <1>9 DEF SelectGene

\* A child is made, and listed when it is good enough.
LEMMA CrossoverInv == ASSUME GAInv, Crossover PROVE GAInv'
<1>1. /\ genes \in [Genes -> GeneType] /\ genes[cur] \in GeneType /\ cur \in Genes
      /\ pc = "cross" /\ tries \in 0..MAX_TRY /\ tries < MAX_TRY
      /\ gen \in 1..(MaxGen + 1) /\ gen <= MaxGen
  BY DEF GAInv, TypeOK, Crossover
<1>2. ExpectedListed = Genes \ {cur}
  BY <1>1 DEF ExpectedListed
<1>a. PICK g1 \in Genes \ {cur}, g2 \in Genes \ {cur} : \E child \in Children(g1, g2) :
        Accept(g1, g2, child) \/ Reject(g1, g2, child) \/ CrossWcetFatal(child)
  BY <1>1, ParentsListed DEF Crossover
<1>3. PICK child \in Children(g1, g2) :
        Accept(g1, g2, child) \/ Reject(g1, g2, child) \/ CrossWcetFatal(child)
  BY <1>a
<1>4. child \in GeneType /\ GeneOK(child) /\ Local(child)
  <2>1. /\ GeneOK(genes[g1]) /\ Local(genes[g1]) /\ GeneOK(genes[g2]) /\ Local(genes[g2])
        /\ GeneOK(genes[cur])
    BY <1>1, <1>2 DEF GAInv, ListedOK, CurrentOK
  <2>2. PICK r, f, m \in 1..(NTasks - 1) : child = Inherited(genes[cur], genes[g1], genes[g2], r, f, m)
    BY DEF Children
  <2> QED
    BY <1>1, <2>1, <2>2, InheritedOK
<1> DEFINE h == CheckUtilpower(child)
<1>5. /\ h \in GeneType /\ GeneOK(h) /\ h.ratio = child.ratio
      /\ Util(PlanOf(child)) <= Cutoff /\ Evaluable(child) => Evaluated(h)
  BY <1>4, CheckUtilpowerOK
<1>6. Local(h)
  BY <1>4, <1>5 DEF Local
<1>7. CASE Accept(g1, g2, child)
  <2>1. /\ genes' = [genes EXCEPT ![cur] = h] /\ SortGene(genes', cur) /\ Evaluated(h)
        /\ cur' = cur /\ UNCHANGED <<tries, intervals, report, task_txt>>
        /\ gen' = gen + 1 /\ pc' = "report"
    BY <1>5, <1>7 DEF Accept
  <2>2. ExpectedListed' = ExpectedListed \cup {cur}
    <3>1. ExpectedListed' = Genes
      BY <2>1 DEF ExpectedListed
    <3> QED
      BY <1>1, <1>2, <3>1
  <2>3. gen' \in 1..(MaxGen + 1)
    BY <1>1, <2>1, PopulationAssumption
  <2> HIDE DEF h
  <2> QED
    BY <1>1, <1>5, <1>6, <2>1, <2>2, <2>3, ListInv
<1>8. CASE Reject(g1, g2, child)
  <2>1. PICK w \in {child, h} : genes' = [genes EXCEPT ![cur] = w]
    BY <1>8 DEF Reject
  <2>2. tries' \in 0..MAX_TRY
    BY <1>1, <1>8, PopulationAssumption DEF Reject
  <2>3. UNCHANGED <<lists, cur, output>> /\ pc' = pc
    BY <1>8 DEF Reject
  <2>4. w \in GeneType /\ GeneOK(w) /\ Local(w)
    BY <1>4, <1>5, <1>6, <2>1
  <2> QED
    BY <1>1, <2>1, <2>2, <2>3, <2>4, WorkInv
<1>9. CASE CrossWcetFatal(child)
  BY <1>1, <1>4, <1>9, FatalInv DEF CrossWcetFatal
<1> QED
  BY <1>3, <1>7, <1>8, <1>9

\* Between generations everyone is listed, and the score list ends with the best
\* and the worst gene.
LEMMA EveryoneListed ==
    ASSUME GAInv, ExpectedListed = Genes
    PROVE  /\ by_score[1] \in Genes /\ Last(by_score) \in Genes
           /\ by_util[1] \in Genes /\ Last(by_util) \in Genes
           /\ \A g \in Genes : genes[by_score[1]].score <= genes[g].score
<1>1. genes \in [Genes -> GeneType]
  BY DEF GAInv, TypeOK
<1>2. Utils(genes) \in [Genes -> Int] /\ Scores(genes) \in [Genes -> Int]
  BY <1>1, KeysType
<1>3. ListOK(by_util, Genes, Utils(genes)) /\ ListOK(by_score, Genes, Scores(genes))
  BY DEF GAInv, ListsOK
<1>4. Genes # {}
  <2>1. 1 \in Genes
    BY PopulationAssumption DEF Genes
  <2> QED
    BY <2>1
<1>5. by_util[1] \in Genes /\ Last(by_util) \in Genes
  BY <1>2, <1>3, <1>4, ListEnds
<1>6. /\ by_score[1] \in Genes /\ Last(by_score) \in Genes
      /\ \A g \in Genes : Scores(genes)[by_score[1]] <= Scores(genes)[g]
  BY <1>2, <1>3, <1>4, ListEnds
<1> QED
  BY <1>5, <1>6 DEF Scores

\* A row of the report is what the lists say.
LEMMA ReportInv == ASSUME GAInv, AddReport PROVE GAInv'
<1>1. /\ genes \in [Genes -> GeneType] /\ pc = "report" /\ report \in Seq(Rows)
      /\ gen \in 1..(MaxGen + 1) /\ intervals \in Nat
  BY DEF GAInv, TypeOK, AddReport
<1>2. /\ pc' = "loop" /\ genes' = genes /\ cur' = cur /\ tries' = tries /\ gen' = gen
      /\ task_txt' = task_txt /\ UNCHANGED lists
      /\ by_util' = by_util /\ by_power' = by_power /\ by_score' = by_score
  BY DEF AddReport, lists
<1>3. ExpectedListed = Genes /\ ExpectedListed' = Genes
  BY <1>1, <1>2 DEF ExpectedListed
<1>4. /\ by_score[1] \in Genes /\ Last(by_score) \in Genes
      /\ by_util[1] \in Genes /\ Last(by_util) \in Genes
  BY <1>3, EveryoneListed
<1>5. \A g \in Genes : genes[g].score \in Int /\ genes[g].util \in Int
  BY <1>1 DEF GeneType
<1>6. Row \in Rows /\ Row.cost_min \in {genes[by_score[1]].score, genes[Last(by_score)].score}
  <2>1. gen \in Nat
    BY <1>1
  <2> QED
    BY <1>4, <1>5, <2>1 DEF Row, Rows
<1>7. intervals' \in Nat
  <2>1. MaxGen \in Nat /\ N_REPORTS \in Nat /\ N_REPORTS > 0
    BY PopulationAssumption
  <2>2. MaxGen \div N_REPORTS \in Nat
    BY <2>1
  <2> QED
    BY <1>1, <2>2 DEF AddReport
<1>8. report' = report \/ report' = Append(report, Row)
  BY DEF AddReport
<1>9. report' \in Seq(Rows)
  BY <1>1, <1>6, <1>8, AppendProperties
<1>10. ReportsKept'
  <2>1. \A i \in 1..Len(report) : \E g \in Genes : genes[g].score <= report[i].cost_min
    BY <1>3 DEF GAInv, ReportsKept
  <2>2. CASE report' = report
    BY <1>2, <1>3, <2>1, <2>2 DEF ReportsKept
  <2>3. CASE report' = Append(report, Row)
    <3>1. /\ Len(report') = Len(report) + 1 /\ Len(report) \in Nat
          /\ \A i \in 1..Len(report) : report'[i] = report[i]
          /\ report'[Len(report) + 1] = Row
      BY <1>1, <1>6, <2>3, AppendProperties, LenProperties
    <3>2. \E g \in Genes : genes[g].score <= Row.cost_min
      BY <1>4, <1>5, <1>6
    <3>3. ASSUME NEW i \in 1..Len(report') PROVE \E g \in Genes : genes[g].score <= report'[i].cost_min
      <4>1. i \in 1..Len(report) \/ i = Len(report) + 1
        BY <3>1
      <4> QED
        BY <2>1, <3>1, <3>2, <4>1
    <3> QED
      BY <1>2, <1>3, <3>3 DEF ReportsKept
  <2> QED
    BY <1>8, <2>2, <2>3
<1>11. ListsOK' /\ ListedOK'
  BY <1>2, <1>3 DEF GAInv, ListsOK, ListedOK
<1>12. /\ (task_txt.plans # {} => pc = "done")' /\ SavedIsBest'
       /\ task_txt'.opened \in BOOLEAN /\ task_txt'.plans \subseteq Plans
  BY <1>1, <1>2, NothingSaved
<1>13. TypeOK'
  BY <1>2, <1>7, <1>9, <1>12 DEF GAInv, TypeOK
<1>14. (\A g \in Genes : Local(genes[g]))'
  BY <1>2 DEF GAInv
<1> QED
  BY <1>2, <1>10, <1>11, <1>12, <1>13, <1>14 DEF GAInv, CurrentOK

\* The plan that is saved is that of the best gene.
LEMMA SaveInv == ASSUME GAInv, SaveTaskInfos PROVE GAInv'
<1> DEFINE best == by_score[1]
           p == PlanOf(genes[best])
<1>1. genes \in [Genes -> GeneType] /\ pc = "loop" /\ report \in Seq(Rows)
  BY DEF GAInv, TypeOK, SaveTaskInfos
<1>2. /\ genes' = genes /\ cur' = cur /\ tries' = tries /\ gen' = gen /\ UNCHANGED lists
      /\ intervals' = intervals /\ report' = report /\ pc' \in {"fatal", "done"}
      /\ by_util' = by_util /\ by_power' = by_power /\ by_score' = by_score
  BY DEF SaveTaskInfos, lists
<1>3. ExpectedListed = Genes
  BY <1>1 DEF ExpectedListed
<1>4. ExpectedListed' = Genes
  <2>1. ToSet(by_score) = Genes
    BY <1>3 DEF GAInv, ListsOK, ListOK
  <2> QED
    BY <1>2, <2>1 DEF ExpectedListed
<1>5. best \in Genes /\ \A g \in Genes : genes[best].score <= genes[g].score
  BY <1>3, EveryoneListed
<1>6. GeneOK(genes[best]) /\ Evaluated(genes[best])
  BY <1>3, <1>5 DEF GAInv, ListedOK
<1> HIDE DEF best
<1>7. p \in Plans /\ Util(p) \in Int /\ UtilOne \in Int
  BY <1>6, PlanOK, TypesAssumption
<1>8. /\ MemFits(p) /\ ~ WcetExceeds(p) /\ Util(p) <= Cutoff
      /\ genes[best].util = Util(p) /\ genes[best].score = Score(p)
  BY <1>6 DEF Evaluated, Evaluable
<1>9. \A i \in 1..Len(report) : Score(p) <= report[i].cost_min
  <2> SUFFICES ASSUME NEW i \in 1..Len(report) PROVE Score(p) <= report[i].cost_min
    OBVIOUS
  <2>1. PICK g \in Genes : genes[g].score <= report[i].cost_min
    BY <1>3 DEF GAInv, ReportsKept
  <2>2. genes[best].score <= genes[g].score
    BY <1>5
  <2>3. genes[g].score \in Int /\ genes[best].score \in Int
    BY <1>1, <1>5 DEF GeneType
  <2>4. report[i].cost_min \in Int
    <3>1. report[i] \in Rows
      BY <1>1, ElementOfSeq
    <3> QED
      BY <3>1 DEF Rows
  <2> QED
    BY <1>8, <2>1, <2>2, <2>3, <2>4
<1>10. \/ task_txt' = [opened |-> TRUE, plans |-> {}]
       \/ /\ task_txt' = [opened |-> TRUE, plans |-> {p}] /\ pc' = "done"
          /\ ~ (genes[best].util > 2 * UtilOne)
  BY DEF SaveTaskInfos, best
<1>11. task_txt'.plans # {} => pc' = "done" /\ task_txt'.plans = {p} /\ Util(p) <= 2 * UtilOne
  BY <1>7, <1>8, <1>10
<1> HIDE DEF p
<1>12. SavedIsBest'
  <2> SUFFICES ASSUME NEW q \in task_txt'.plans
               PROVE  /\ MemFits(q) /\ ~ WcetExceeds(q)
                      /\ Util(q) <= Cutoff /\ Util(q) <= 2 * UtilOne
                      /\ \A g \in Genes : Score(q) <= genes[g].score
                      /\ \A i \in 1..Len(report) : Score(q) <= report[i].cost_min
    BY <1>2 DEF SavedIsBest
  <2>1. q = p /\ Util(p) <= 2 * UtilOne
    BY <1>11
  <2> QED
    BY <1>5, <1>8, <1>9, <2>1
<1>13. task_txt'.opened \in BOOLEAN /\ task_txt'.plans \subseteq Plans
  <2>1. task_txt'.opened = TRUE /\ task_txt'.plans \in {{}, {p}}
    BY <1>10
  <2>2. {p} \subseteq Plans
    BY <1>7
  <2> QED
    BY <2>1, <2>2
<1>14. ListsOK' /\ ListedOK' /\ ReportsKept'
  BY <1>2, <1>3, <1>4 DEF GAInv, ListsOK, ListedOK, ReportsKept
<1>15. TypeOK'
  BY <1>2, <1>13 DEF GAInv, TypeOK
<1>16. (\A g \in Genes : Local(genes[g]))'
  BY <1>2 DEF GAInv
<1> QED
  BY <1>2, <1>11, <1>12, <1>14, <1>15, <1>16 DEF GAInv, CurrentOK

\* Every step keeps the invariant.
LEMMA SchedulerStep == GAInv /\ [Next]_vars => GAInv'
<1> SUFFICES ASSUME GAInv, [Next]_vars PROVE GAInv'
  OBVIOUS
<1>1. CASE Next
  BY <1>1, AssignInv, BalanceInv, LowerInv, AdmitInv, InitFatalInv, NewbornInv, CrossoverInv,
     ReportInv, SaveInv DEF Next
<1>2. CASE UNCHANGED vars
  <2> USE <1>2 DEF vars
  <2>1. TypeOK' /\ ExpectedListed' = ExpectedListed
    BY DEF GAInv, TypeOK, ExpectedListed
  <2>2. ListsOK' /\ ListedOK' /\ CurrentOK' /\ ReportsKept'
    BY <2>1 DEF GAInv, ListsOK, ListedOK, CurrentOK, ReportsKept
  <2>3. SavedIsBest'
    BY DEF GAInv, SavedIsBest
  <2> QED
    BY <2>1, <2>2, <2>3 DEF GAInv
<1> QED
  BY <1>1, <1>2

\* The invariant holds in every state.
LEMMA SchedulerInv == Spec => []GAInv
BY SchedulerInit, SchedulerStep, PTL DEF Spec

-----------------------------------------------------------------------------
(* The theorems                                                            *)

\* Every variable of run_GA has its type, for every population, number of tasks and
\* configuration.
THEOREM SchedulerTypeCorrect == Spec => []TypeOK
<1>1. GAInv => TypeOK
  BY DEF GAInv
<1> QED
  BY <1>1, SchedulerInv, PTL

\* The three lists hold the same genes, those expected, once each and in order.
THEOREM ListsAlwaysRight == Spec => []ListsRight
<1>1. GAInv => ListsRight
  <2> SUFFICES ASSUME GAInv PROVE ListsRight
    OBVIOUS
  <2> DEFINE S == ExpectedListed
  <2>1. /\ ListOK(by_util, S, Utils(genes)) /\ ListOK(by_power, S, Powers(genes))
        /\ ListOK(by_score, S, Scores(genes))
    BY DEF GAInv, ListsOK
  <2> HIDE DEF S
  <2>2. /\ Len(by_util) = Cardinality(S) /\ Len(by_power) = Cardinality(S)
        /\ Len(by_score) = Cardinality(S)
    BY <2>1, ListLength
  <2>3. ListsSorted
    BY <2>1 DEF ListsSorted, ListOK
  <2>4. ListsAgree
    BY <2>1, <2>2 DEF ListsAgree, ListOK, S
  <2> QED
    BY <2>3, <2>4 DEF ListsRight
<1> QED
  BY <1>1, SchedulerInv, PTL

\* No listed gene has a stale util, power or score, whatever repairs and refused
\* children came before.
THEOREM ListedAlwaysEvaluated == Spec => []ListedEvaluated
<1>1. GAInv => ListedEvaluated
  <2> SUFFICES ASSUME GAInv, NEW g \in ToSet(by_score) PROVE Evaluated(genes[g])
    BY DEF ListedEvaluated, Evaluated
  <2>1. g \in ExpectedListed
    BY DEF GAInv, ListsOK, ListOK
  <2> QED
    BY <2>1 DEF GAInv, ListedOK
<1> QED
  BY <1>1, SchedulerInv, PTL

\* The caches of every vector in use describe it: exact counts, and with at most two
\* memories the max_type that balance_mem_types relies on.
THEOREM VectorsAlwaysRight == Spec => []VectorsRight
<1>1. GAInv => VectorsRight
  <2> SUFFICES ASSUME GAInv,
                      NEW g \in ToSet(by_score) \cup (IF pc \in {"try", "cross"} THEN {cur} ELSE {})
               PROVE  GeneOK(genes[g])
    BY DEF VectorsRight, VectorsCounted, MemPeakIsMax, VectorCounted, GeneOK, PeakOK, Counted, Within
  <2>1. CASE g \in ToSet(by_score)
    BY <2>1 DEF GAInv, ListsOK, ListOK, ListedOK
  <2>2. CASE g \notin ToSet(by_score)
    BY <2>2 DEF GAInv, CurrentOK
  <2> QED
    BY <2>1, <2>2
<1> QED
  BY <1>1, SchedulerInv, PTL

\* No gene gets another ratio than the first of the table, whatever the table offers.
THEOREM AlwaysFirstRatio == Spec => []FirstRatioOnly
<1>1. GAInv => FirstRatioOnly
  BY DEF GAInv, Local, FirstRatioOnly
<1> QED
  BY <1>1, SchedulerInv, PTL

\* The plan in task.txt is admissible, and no gene and no reported generation is better.
THEOREM SavedAlwaysBest == Spec => []SavedIsBest
<1>1. GAInv => SavedIsBest
  BY DEF GAInv
<1> QED
  BY <1>1, SchedulerInv, PTL

\* The accepting step of crossover: place by place the score list does not get worse.
LEMMA AcceptImproves ==
    ASSUME GAInv, pc = "cross", NEW g1 \in Genes \ {cur}, NEW g2 \in Genes \ {cur},
           NEW child \in GeneType, GeneOK(child), Accept(g1, g2, child)
    PROVE  /\ \A k \in 1..(NPops - 1) : Scores(genes')[by_score'[k]] <= Scores(genes)[by_score[k]]
           /\ Scores(genes')[by_score'[NPops]] = Scores(genes)[by_score[NPops - 1]]
<1> DEFINE S == Genes \ {cur}
           h == CheckUtilpower(child)
           l == by_score
           s == by_score'
           key == Scores(genes')
<1>1. genes \in [Genes -> GeneType] /\ cur \in Genes /\ NPops \in Nat /\ NPops >= 2
  <2>1. NPops \in Nat /\ NPops >= 2
    BY PopulationAssumption
  <2> QED
    BY <2>1 DEF GAInv, TypeOK
<1>2. ListOK(l, S, Scores(genes))
  BY DEF GAInv, ListsOK, ExpectedListed
<1>3. Len(l) = NPops - 1
  BY ParentsListed
<1>4. h \in GeneType
  BY CheckUtilpowerOK
<1>5. /\ genes' = [genes EXCEPT ![cur] = h] /\ s = InsertSorted(l, key, cur)
      /\ h.score <= genes[g1].score /\ h.score <= genes[g2].score
  BY DEF Accept, SortGene, MatchesParents
<1> HIDE DEF h
<1>6. genes' \in [Genes -> GeneType] /\ genes'[cur] = h /\ \A g \in S : genes'[g] = genes[g]
  BY <1>1, <1>4, <1>5
<1>7. \A g \in S : key[g] = Scores(genes)[g]
  BY <1>6 DEF Scores
<1>8. key \in [Genes -> Int] /\ Scores(genes) \in [Genes -> Int]
  BY <1>1, <1>6, KeysType
<1>9. ListOK(l, S, key)
  BY <1>2, <1>7, RekeyOK
<1>10. key[cur] <= key[g1]
  BY <1>1, <1>5, <1>6 DEF Scores
<1> HIDE DEF key, s, l
<1>11. ListOK(s, S \cup {cur}, key) /\ Len(s) = Len(l) + 1 /\ Inserted(l, s, key, cur)
  <2>1. cur \in Genes \ S
    BY <1>1
  <2> QED
    BY <1>5, <1>8, <1>9, <2>1, InsertSortedOK
<1>12. PICK p \in 1..NPops :
         /\ \A i \in 1..NPops : s[i] = IF i < p THEN l[i] ELSE IF i = p THEN cur ELSE l[i - 1]
         /\ p <= NPops - 1 => key[cur] < key[l[p]]
  <2>1. Len(l) + 1 = NPops
    BY <1>1, <1>3
  <2> QED
    BY <1>3, <1>11, <2>1 DEF Inserted
<1>13. /\ \A i, j \in 1..(NPops - 1) : i <= j => key[l[i]] <= key[l[j]]
       /\ \A i \in 1..(NPops - 1) : key[l[i]] \in Int /\ l[i] \in S
  <2>1. l \in Seq(Genes)
    BY <1>9 DEF ListOK
  <2>2. \A i \in 1..Len(l) : l[i] \in S
    BY <1>9, <2>1, ToSetIndexed DEF ListOK
  <2> QED
    BY <1>3, <1>8, <1>9, <2>2 DEF ListOK, IsOrdered
<1>14. ASSUME NEW k \in 1..(NPops - 1) PROVE key[s[k]] <= key[l[k]]
  <2>0. k \in 1..NPops /\ k \in Int /\ p \in Int
    BY <1>1
  <2>1. CASE k < p
    BY <1>12, <1>13, <2>0, <2>1
  <2>2. CASE k = p
    <3>1. s[k] = cur /\ key[cur] < key[l[k]]
      BY <1>1, <1>12, <2>0, <2>2
    <3> QED
      BY <1>1, <1>8, <1>13, <3>1
  <2>3. CASE k > p
    <3>1. s[k] = l[k - 1] /\ k - 1 \in 1..(NPops - 1) /\ k - 1 <= k
      BY <1>1, <1>12, <2>0, <2>3
    <3> QED
      BY <1>13, <3>1
  <2> QED
    BY <2>0, <2>1, <2>2, <2>3
<1>15. key[s[NPops]] = key[l[NPops - 1]]
  <2>0. NPops \in 1..NPops /\ NPops - 1 \in 1..(NPops - 1) /\ NPops - 1 \in 1..NPops
    BY <1>1
  <2>1. CASE p < NPops
    BY <1>1, <1>12, <2>0, <2>1
  <2>2. CASE p = NPops
    <3>1. s[NPops] = cur /\ s[NPops - 1] = l[NPops - 1]
      BY <1>1, <1>12, <2>0, <2>2
    <3>2. key[l[NPops - 1]] <= key[cur]
      <4>1. \A i, j \in 1..Len(s) : i <= j => key[s[i]] <= key[s[j]]
        BY <1>11 DEF ListOK, IsOrdered
      <4>2. Len(s) = NPops
        BY <1>1, <1>3, <1>11
      <4> QED
        BY <1>1, <2>0, <3>1, <4>1, <4>2
    <3>3. key[g1] <= key[l[NPops - 1]]
      <4>1. l \in Seq(Genes)
        BY <1>9 DEF ListOK
      <4>2. PICK i \in 1..Len(l) : g1 = l[i]
        BY <1>9, <4>1, ToSetIndexed DEF ListOK
      <4>3. i \in 1..(NPops - 1) /\ i <= NPops - 1
        BY <1>1, <1>3
      <4> QED
        BY <1>13, <2>0, <4>2, <4>3
    <3> QED
      BY <1>1, <1>8, <1>10, <1>13, <2>0, <3>1, <3>2, <3>3
  <2> QED
    BY <1>1, <2>1, <2>2
<1>16. \A i \in 1..(NPops - 1) : Scores(genes)[l[i]] = key[l[i]]
  BY <1>7, <1>13
<1>17. NPops - 1 \in 1..(NPops - 1)
  BY <1>1
<1> QED
  BY <1>14, <1>15, <1>16, <1>17 DEF key, s, l

\* A generation never makes the population worse: at every place of the score list the
\* score does not rise, and the last is now what the last but one was.
THEOREM GenerationsAlwaysImprove == Spec => GenerationsImprove
<1> DEFINE Better == (pc = "cross" /\ pc' = "report") =>
              /\ \A k \in 1..(NPops - 1) :
                    Scores(genes')[by_score'[k]] <= Scores(genes)[by_score[k]]
              /\ Scores(genes')[by_score'[NPops]] = Scores(genes)[by_score[NPops - 1]]
<1>1. GAInv /\ [Next]_vars => [Better]_vars
  <2> SUFFICES ASSUME GAInv, Next, pc = "cross", pc' = "report"
               PROVE  /\ \A k \in 1..(NPops - 1) :
                             Scores(genes')[by_score'[k]] <= Scores(genes)[by_score[k]]
                      /\ Scores(genes')[by_score'[NPops]] = Scores(genes)[by_score[NPops - 1]]
    OBVIOUS
  <2>1. Crossover
    BY DEF Next, AssignGene, Balance, ScaledWcetFatal, Admit, Lower, InitFatal, Trying, GetNewborn,
           CrossFatal, AddReport, SaveTaskInfos
  <2>2. PICK g1 \in Genes \ {cur}, g2 \in Genes \ {cur} : \E child \in Children(g1, g2) :
          Accept(g1, g2, child) \/ Reject(g1, g2, child) \/ CrossWcetFatal(child)
    BY <2>1, ParentsListed DEF Crossover
  <2>3. PICK child \in Children(g1, g2) : Accept(g1, g2, child)
    BY <2>2 DEF Reject, CrossWcetFatal
  <2>4. child \in GeneType /\ GeneOK(child)
    <3>1. /\ GeneOK(genes[g1]) /\ Local(genes[g1]) /\ GeneOK(genes[g2]) /\ Local(genes[g2])
          /\ GeneOK(genes[cur]) /\ genes[cur] \in GeneType
      BY DEF GAInv, ListedOK, CurrentOK, ExpectedListed, TypeOK
    <3>2. PICK r, f, m \in 1..(NTasks - 1) : child = Inherited(genes[cur], genes[g1], genes[g2], r, f, m)
      BY DEF Children
    <3> QED
      BY <3>1, <3>2, InheritedOK
  <2> QED
    BY <2>3, <2>4, AcceptImproves
<1> QED
  BY <1>1, SchedulerInv, PTL DEF Spec, GenerationsImprove

=============================================================================
