--------------------------- MODULE PipelineProofs ---------------------------
(***************************************************************************)
(* What is proved of the configuration loader and of the way of a workload *)
(* into the scheduler, for every file, every template and every size of    *)
(* the tables.                                                             *)
(***************************************************************************)
EXTENDS Pipeline, SequenceTheorems, WellFoundedInduction, TLAPS

-----------------------------------------------------------------------------
(* The meaning of a file                                                   *)

\* A set of naturals that is not empty has a least element.
LEMMA LeastExists ==
    ASSUME NEW T \in SUBSET Nat, T # {}
    PROVE  \E x \in T : \A y \in T : x <= y
<1>1. PICK x \in T : \A y \in T : ~ (<<y, x>> \in OpToRel(<, Nat))
  BY NatLessThanWellFounded, WFMin
<1>2. \A y \in T : ~ (y < x)
  BY <1>1 DEF OpToRel
<1> QED
  BY <1>2

\* A line is under one header at most.
LEMMA HeadsUnique ==
    ASSUME NEW f, NEW i \in Nat, NEW h \in Heads(f, i)
    PROVE  Governor(f, i) = f[h].section
<1>1. h \in Int /\ \A g \in Heads(f, i) : g \in Int
  BY DEF Heads
<1>2. ASSUME NEW g \in Heads(f, i) PROVE g = h
  <2>1. /\ g \in 1..(i - 1) /\ f[g].kind = "header"
        /\ \A k \in (g + 1)..(i - 1) : f[k].kind \notin {"blank", "header"}
    BY DEF Heads
  <2>2. /\ h \in 1..(i - 1) /\ f[h].kind = "header"
        /\ \A k \in (h + 1)..(i - 1) : f[k].kind \notin {"blank", "header"}
    BY DEF Heads
  <2>3. g \notin (h + 1)..(i - 1) /\ h \notin (g + 1)..(i - 1)
    BY <2>1, <2>2
  <2> QED
    BY <2>1, <2>2, <2>3
<1>3. Heads(f, i) = {h}
  BY <1>2
<1>4. Max({h}) = h
  BY <1>1 DEF Max
<1> QED
  BY <1>3, <1>4 DEF Governor

\* The section of a line, by the line before it.
LEMMA GovernorStep ==
    ASSUME NEW f, NEW i \in Nat \ {0}
    PROVE  Governor(f, i + 1) = IF f[i].kind = "header" THEN f[i].section
                                ELSE IF f[i].kind = "blank" THEN "none" ELSE Governor(f, i)
<1>1. CASE f[i].kind = "header"
  <2>1. i \in Heads(f, i + 1)
    BY <1>1 DEF Heads
  <2>2. i + 1 \in Nat
    OBVIOUS
  <2> QED
    BY <1>1, <2>1, <2>2, HeadsUnique
<1>2. CASE f[i].kind = "blank"
  <2>1. ASSUME NEW h \in Heads(f, i + 1) PROVE FALSE
    <3>1. h \in 1..i /\ f[h].kind = "header" /\ \A k \in (h + 1)..i : f[k].kind # "blank"
      BY DEF Heads
    <3>2. h # i
      BY <1>2, <3>1
    <3> QED
      BY <1>2, <3>1, <3>2
  <2> QED
    BY <1>2, <2>1 DEF Governor
<1>3. CASE f[i].kind \notin {"header", "blank"}
  <2>1. ASSUME NEW h \in Heads(f, i + 1) PROVE h \in Heads(f, i)
    <3>1. /\ h \in 1..i /\ f[h].kind = "header"
          /\ \A k \in (h + 1)..i : f[k].kind \notin {"blank", "header"}
      BY DEF Heads
    <3>2. h # i
      BY <1>3, <3>1
    <3> QED
      BY <3>1, <3>2 DEF Heads
  <2>2. ASSUME NEW h \in Heads(f, i) PROVE h \in Heads(f, i + 1)
    <3>1. /\ h \in 1..(i - 1) /\ f[h].kind = "header"
          /\ \A k \in (h + 1)..(i - 1) : f[k].kind \notin {"blank", "header"}
      BY DEF Heads
    <3>2. ASSUME NEW k \in (h + 1)..i PROVE f[k].kind \notin {"blank", "header"}
      BY <1>3, <3>1
    <3> QED
      BY <3>1, <3>2 DEF Heads
  <2>3. Heads(f, i + 1) = Heads(f, i)
    BY <2>1, <2>2
  <2> QED
    BY <1>3, <2>3 DEF Governor
<1> QED
  BY <1>1, <1>2, <1>3

\* Nothing comes before the first line.
LEMMA GovernorFirst ==
    ASSUME NEW f
    PROVE  Governor(f, 1) = "none"
<1>1. Heads(f, 1) = {}
  BY DEF Heads
<1> QED
  BY <1>1 DEF Governor

\* The section of a line depends only on the lines before it.
LEMMA GovernorPrefix ==
    ASSUME NEW f, NEW g, NEW i \in Nat, \A k \in 1..(i - 1) : f[k] = g[k]
    PROVE  Governor(f, i) = Governor(g, i)
<1>1. Heads(f, i) = Heads(g, i)
  BY DEF Heads
<1>2. CASE Heads(f, i) = {}
  BY <1>1, <1>2 DEF Governor
<1>3. CASE Heads(f, i) # {}
  <2>1. PICK h \in Heads(f, i) : TRUE
    BY <1>3
  <2>2. h \in 1..(i - 1)
    BY DEF Heads
  <2> QED
    BY <1>1, <2>1, <2>2, HeadsUnique
<1> QED
  BY <1>2, <1>3

\* The rows of section s after line k.
With(rows, f, p, s, k) == IF IsRow(f, p, s, k) THEN Append(rows, k) ELSE rows

\* The equation of the function that Rows defines.
IsTake(r, f, p, s, n) ==
    r = [k \in 0..n |-> IF k = 0 THEN <<>> ELSE With(r[k - 1], f, p, s, k)]

\* There is such a function for every number of lines.
LEMMA TakeExists ==
    ASSUME NEW f, NEW p, NEW s, NEW n \in Nat
    PROVE  \E r : IsTake(r, f, p, s, n)
<1> DEFINE T == {m \in Nat : ~ \E r : IsTake(r, f, p, s, m)}
<1>1. SUFFICES ASSUME T # {} PROVE FALSE
  OBVIOUS
<1>2. PICK m \in T : \A y \in T : m <= y
  BY <1>1, LeastExists
<1>3. m # 0
  <2> DEFINE r == [k \in 0..0 |-> <<>>]
  <2>1. IsTake(r, f, p, s, 0)
    BY DEF IsTake
  <2> QED
    BY <2>1
<1>4. m - 1 \in Nat /\ m - 1 \notin T
  BY <1>2, <1>3
<1>5. PICK r : IsTake(r, f, p, s, m - 1)
  BY <1>4
<1> DEFINE g == [k \in 0..m |-> IF k = m THEN With(r[m - 1], f, p, s, m) ELSE r[k]]
<1>6. ASSUME NEW k \in 0..m
      PROVE  g[k] = IF k = 0 THEN <<>> ELSE With(g[k - 1], f, p, s, k)
  <2>1. CASE k = m
    <3>1. m - 1 \in 0..m /\ m - 1 # m
      BY <1>4
    <3>2. g[m - 1] = r[m - 1] /\ g[m] = With(r[m - 1], f, p, s, m)
      BY <3>1
    <3> QED
      BY <1>3, <2>1, <3>2
  <2>2. CASE k # m
    <3>1. k \in 0..(m - 1) /\ (k # 0 => k - 1 \in 0..m /\ k - 1 # m)
      BY <2>2
    <3>2. r[k] = IF k = 0 THEN <<>> ELSE With(r[k - 1], f, p, s, k)
      BY <1>5, <3>1 DEF IsTake
    <3> QED
      BY <2>2, <3>1, <3>2
  <2> QED
    BY <2>1, <2>2
<1>7. IsTake(g, f, p, s, m)
  BY <1>6 DEF IsTake
<1> QED
  BY <1>2, <1>7

\* Rows is the last value of such a function.
LEMMA TakeOfRows ==
    ASSUME NEW f, NEW p, NEW s, NEW i \in Nat \ {0}
    PROVE  \E r : IsTake(r, f, p, s, i - 1) /\ Rows(f, p, s, i) = r[i - 1]
<1> DEFINE rr == CHOOSE r : IsTake(r, f, p, s, i - 1)
<1>1. IsTake(rr, f, p, s, i - 1)
  BY TakeExists
<1>2. Rows(f, p, s, i) = rr[i - 1]
  BY DEF Rows, IsTake, With
<1> QED
  BY <1>1, <1>2

\* Two such functions agree as far as the rows of their files do.
LEMMA TakesAgree ==
    ASSUME NEW f, NEW g, NEW p, NEW s, NEW n \in Nat, NEW m \in Nat, NEW q, NEW r,
           IsTake(q, f, p, s, n), IsTake(r, g, p, s, m),
           NEW l \in 0..n, l <= m, \A k \in 1..l : IsRow(f, p, s, k) <=> IsRow(g, p, s, k)
    PROVE  q[l] = r[l]
<1> DEFINE T == {k \in 0..l : q[k] # r[k]}
<1>1. SUFFICES ASSUME T # {} PROVE FALSE
  OBVIOUS
<1>2. PICK k \in T : \A y \in T : k <= y
  <2>1. T \in SUBSET Nat
    OBVIOUS
  <2> QED
    BY <1>1, <2>1, LeastExists
<1>3. q[k] = IF k = 0 THEN <<>> ELSE With(q[k - 1], f, p, s, k)
  BY DEF IsTake
<1>4. r[k] = IF k = 0 THEN <<>> ELSE With(r[k - 1], g, p, s, k)
  BY DEF IsTake
<1>5. k # 0
  BY <1>3, <1>4
<1>6. q[k - 1] = r[k - 1] /\ (IsRow(f, p, s, k) <=> IsRow(g, p, s, k))
  BY <1>2, <1>5
<1> QED
  BY <1>2, <1>3, <1>4, <1>5, <1>6 DEF With

\* Two files with the same rows before line i have the same Rows.
LEMMA RowsAgree ==
    ASSUME NEW f, NEW g, NEW p, NEW s, NEW i \in Nat \ {0},
           \A k \in 1..(i - 1) : IsRow(f, p, s, k) <=> IsRow(g, p, s, k)
    PROVE  Rows(f, p, s, i) = Rows(g, p, s, i)
<1>1. PICK q : IsTake(q, f, p, s, i - 1) /\ Rows(f, p, s, i) = q[i - 1]
  BY TakeOfRows
<1>2. PICK r : IsTake(r, g, p, s, i - 1) /\ Rows(g, p, s, i) = r[i - 1]
  BY TakeOfRows
<1>3. i - 1 \in Nat /\ i - 1 \in 0..(i - 1) /\ i - 1 <= i - 1
  OBVIOUS
<1> QED
  BY <1>1, <1>2, <1>3, TakesAgree

\* No rows before the first line.
LEMMA RowsFirst ==
    ASSUME NEW f, NEW p, NEW s
    PROVE  Rows(f, p, s, 1) = <<>>
<1>1. PICK r : IsTake(r, f, p, s, 0) /\ Rows(f, p, s, 1) = r[0]
  <2>1. PICK r : IsTake(r, f, p, s, 1 - 1) /\ Rows(f, p, s, 1) = r[1 - 1]
    BY TakeOfRows
  <2> QED
    BY <2>1
<1>2. r[0] = <<>>
  BY <1>1 DEF IsTake
<1> QED
  BY <1>1, <1>2

\* One line more adds that line, or nothing.
LEMMA RowsStep ==
    ASSUME NEW f, NEW p, NEW s, NEW i \in Nat \ {0}
    PROVE  Rows(f, p, s, i + 1) =
             IF IsRow(f, p, s, i) THEN Append(Rows(f, p, s, i), i) ELSE Rows(f, p, s, i)
<1>1. PICK r : IsTake(r, f, p, s, i) /\ Rows(f, p, s, i + 1) = r[i]
  <2>1. i + 1 \in Nat \ {0} /\ (i + 1) - 1 = i
    OBVIOUS
  <2> DEFINE j == i + 1
  <2>2. j \in Nat \ {0} /\ j - 1 = i
    BY <2>1
  <2> HIDE DEF j
  <2>3. PICK r : IsTake(r, f, p, s, j - 1) /\ Rows(f, p, s, j) = r[j - 1]
    BY <2>2, TakeOfRows
  <2> QED
    BY <2>2, <2>3 DEF j
<1>2. PICK q : IsTake(q, f, p, s, i - 1) /\ Rows(f, p, s, i) = q[i - 1]
  BY TakeOfRows
<1>3. r[i] = With(r[i - 1], f, p, s, i)
  BY <1>1 DEF IsTake
<1>4. i - 1 \in Nat /\ i - 1 \in 0..i /\ i - 1 <= i - 1 /\ i \in Nat
  OBVIOUS
<1>5. r[i - 1] = q[i - 1]
  BY <1>1, <1>2, <1>4, TakesAgree
<1> QED
  BY <1>1, <1>2, <1>3, <1>5 DEF With

\* What Append does, index by index.
LEMMA AppendIndexed ==
    ASSUME NEW S, NEW q \in Seq(S), NEW x \in S
    PROVE  /\ Append(q, x) \in Seq(S) /\ Len(q) \in Nat /\ Len(Append(q, x)) = Len(q) + 1
           /\ \A j \in 1..Len(q) : Append(q, x)[j] = q[j] /\ q[j] \in S
           /\ Append(q, x)[Len(q) + 1] = x
           /\ Append(q, x) # <<>>
  OBVIOUS

\* The rows before line i are lines before line i that are rows.
RowsOK(f, p, s, i) ==
    /\ Rows(f, p, s, i) \in Seq(Nat)
    /\ \A j \in 1..Len(Rows(f, p, s, i)) :
          Rows(f, p, s, i)[j] \in 1..(i - 1) /\ IsRow(f, p, s, Rows(f, p, s, i)[j])

\* RowsOK holds for every file, program, section and line.
LEMMA RowsAreRows ==
    ASSUME NEW f, NEW p, NEW s, NEW i \in Nat \ {0}
    PROVE  RowsOK(f, p, s, i)
<1> DEFINE T == {m \in Nat \ {0} : ~ RowsOK(f, p, s, m)}
<1>1. SUFFICES ASSUME T # {} PROVE FALSE
  OBVIOUS
<1>2. PICK m \in T : \A y \in T : m <= y
  <2>1. T \in SUBSET Nat
    OBVIOUS
  <2> QED
    BY <1>1, <2>1, LeastExists
<1>3. m # 1
  <2>1. Rows(f, p, s, 1) = <<>>
    BY RowsFirst
  <2> DEFINE e == Rows(f, p, s, 1)
  <2>3. e \in Seq(Nat) /\ Len(e) = 0
    BY <2>1, EmptySeq, Zenon
  <2> HIDE DEF e
  <2>4. \A j \in 1..Len(e) : e[j] \in 1..(1 - 1) /\ IsRow(f, p, s, e[j])
    BY <2>3
  <2>2. RowsOK(f, p, s, 1)
    BY <2>3, <2>4 DEF RowsOK, e
  <2> QED
    BY <1>2, <2>2
<1>4. PICK n \in Nat \ {0} : m = n + 1
  <2>1. m - 1 \in Nat \ {0} /\ m = (m - 1) + 1
    BY <1>3
  <2> QED
    BY <2>1
<1>5. RowsOK(f, p, s, n)
  BY <1>2, <1>4
<1> DEFINE q == Rows(f, p, s, n)
           r == Rows(f, p, s, m)
<1>6. r = IF IsRow(f, p, s, n) THEN Append(q, n) ELSE q
  BY <1>4, RowsStep
<1>7. q \in Seq(Nat) /\ \A j \in 1..Len(q) : q[j] \in 1..(n - 1) /\ IsRow(f, p, s, q[j])
  BY <1>5 DEF RowsOK
<1> HIDE DEF q, r
<1>8. r \in Seq(Nat) /\ \A j \in 1..Len(r) : r[j] \in 1..(m - 1) /\ IsRow(f, p, s, r[j])
  <2>1. CASE IsRow(f, p, s, n)
    <3>1. r = Append(q, n)
      BY <1>6, <2>1
    <3>2. /\ r \in Seq(Nat) /\ Len(q) \in Nat /\ Len(r) = Len(q) + 1
          /\ \A j \in 1..Len(q) : r[j] = q[j]
          /\ r[Len(q) + 1] = n
      BY <1>7, <3>1, AppendIndexed
    <3>3. ASSUME NEW j \in 1..Len(r) PROVE r[j] \in 1..(m - 1) /\ IsRow(f, p, s, r[j])
      <4>1. CASE j = Len(q) + 1
        BY <1>4, <2>1, <3>2, <4>1
      <4>2. CASE j # Len(q) + 1
        <5>1. j \in 1..Len(q)
          BY <3>2, <4>2
        <5> QED
          BY <1>4, <1>7, <3>2, <5>1, SMTT(20)
      <4> QED
        BY <4>1, <4>2
    <3> QED
      BY <3>2, <3>3
  <2>2. CASE ~ IsRow(f, p, s, n)
    BY <1>4, <1>6, <1>7, <2>2
  <2> QED
    BY <2>1, <2>2
<1>9. RowsOK(f, p, s, m)
  BY <1>8 DEF RowsOK, r
<1> QED
  BY <1>2, <1>9

\* The rows before a line depend only on the lines before it.
LEMMA RowsPrefix ==
    ASSUME NEW f, NEW g, NEW p, NEW s, NEW i \in Nat \ {0}, \A k \in 1..(i - 1) : f[k] = g[k]
    PROVE  Rows(f, p, s, i) = Rows(g, p, s, i)
<1>1. ASSUME NEW k \in 1..(i - 1) PROVE IsRow(f, p, s, k) <=> IsRow(g, p, s, k)
  <2>1. k \in Nat /\ f[k] = g[k] /\ \A h \in 1..(k - 1) : f[h] = g[h]
    OBVIOUS
  <2>2. Governor(f, k) = Governor(g, k)
    BY <2>1, GovernorPrefix
  <2> QED
    BY <2>1, <2>2 DEF IsRow
<1> QED
  BY <1>1, RowsAgree

\* What is wrong with a line depends only on that line and those before it.
LEMMA OffencePrefix ==
    ASSUME NEW f, NEW g, NEW p, NEW i \in Nat \ {0}, \A k \in 1..i : f[k] = g[k]
    PROVE  Offence(f, p, i) = Offence(g, p, i)
<1>1. f[i] = g[i] /\ \A k \in 1..(i - 1) : f[k] = g[k]
  OBVIOUS
<1>2. Governor(f, i) = Governor(g, i)
  BY <1>1, GovernorPrefix
<1>3. \A s : Rows(f, p, s, i) = Rows(g, p, s, i)
  BY <1>1, RowsPrefix
<1>4. ASSUME NEW s PROVE Accepts(f, f[i], s, Rows(f, p, s, i)) <=> Accepts(g, g[i], s, Rows(g, p, s, i))
  <2> DEFINE rows == Rows(f, p, s, i)
  <2>1. RowsOK(f, p, s, i)
    BY RowsAreRows
  <2>2. rows \in Seq(Nat) /\ \A j \in 1..Len(rows) : rows[j] \in 1..(i - 1)
    BY <2>1 DEF RowsOK
  <2> HIDE DEF rows
  <2>3. ASSUME rows # <<>> PROVE f[Last(rows)] = g[Last(rows)]
    <3>1. Len(rows) \in 1..Len(rows) /\ Last(rows) = rows[Len(rows)]
      BY <2>2, <2>3 DEF Last
    <3> QED
      BY <1>1, <2>2, <3>1
  <2>4. Follows(f, f[i], s, rows) <=> Follows(g, g[i], s, rows)
    BY <1>1, <2>3 DEF Follows, FreqFollows, RatioFollows
  <2> QED
    BY <1>1, <1>3, <2>4 DEF Accepts, rows
<1> DEFINE l == f[i]
           s == Governor(f, i)
<1>5. /\ Rows(f, p, "cpufreq", i) = Rows(g, p, "cpufreq", i)
      /\ Rows(f, p, s, i) = Rows(g, p, s, i)
      /\ Accepts(f, l, s, Rows(f, p, s, i)) <=> Accepts(g, l, s, Rows(g, p, s, i))
      /\ l = g[i] /\ s = Governor(g, i)
  BY <1>1, <1>2, <1>3, <1>4
<1> HIDE DEF l, s
<1> QED
  BY <1>5 DEF Offence, l, s

\* A file extended keeps what was right in it.
LEMMA FaultlessPrefix ==
    ASSUME NEW f, NEW g, NEW p, NEW i \in Nat \ {0}, \A k \in 1..(i - 1) : f[k] = g[k]
    PROVE  Faultless(f, p, i) <=> Faultless(g, p, i)
<1>1. ASSUME NEW k \in 1..(i - 1) PROVE Offence(f, p, k) = Offence(g, p, k)
  <2>1. k \in Nat \ {0} /\ \A h \in 1..k : f[h] = g[h]
    OBVIOUS
  <2> QED
    BY <2>1, OffencePrefix
<1> QED
  BY <1>1 DEF Faultless

\* How many of the lines a..b come before line i.
Within(a, b, i) == IF i <= a THEN 0 ELSE IF i <= b THEN i - a ELSE b + 1 - a

\* When the rows of a section are the lines a..b, there are as many as such lines.
LEMMA RowsCounted ==
    ASSUME NEW f, NEW p, NEW s, NEW a \in Nat \ {0}, NEW b \in Nat, a <= b + 1, NEW i \in Nat \ {0},
           \A k \in 1..(i - 1) : IsRow(f, p, s, k) <=> k \in a..b
    PROVE  Len(Rows(f, p, s, i)) = Within(a, b, i)
<1> DEFINE T == {m \in 1..i : Len(Rows(f, p, s, m)) # Within(a, b, m)}
<1>1. SUFFICES ASSUME T # {} PROVE FALSE
  OBVIOUS
<1>2. PICK m \in T : \A y \in T : m <= y
  <2>1. T \in SUBSET Nat
    OBVIOUS
  <2> QED
    BY <1>1, <2>1, LeastExists
<1>3. m # 1
  <2>1. Len(Rows(f, p, s, 1)) = 0
    BY RowsFirst
  <2>2. Within(a, b, 1) = 0
    BY DEF Within
  <2> QED
    BY <1>2, <2>1, <2>2
<1>4. PICK n \in 1..(i - 1) : m = n + 1
  <2>1. m - 1 \in 1..(i - 1) /\ m = (m - 1) + 1
    BY <1>3
  <2> QED
    BY <2>1
<1>5. Len(Rows(f, p, s, n)) = Within(a, b, n)
  BY <1>2, <1>4
<1> DEFINE q == Rows(f, p, s, n)
<1>6. Rows(f, p, s, m) = IF IsRow(f, p, s, n) THEN Append(q, n) ELSE q
  BY <1>4, RowsStep
<1>7. q \in Seq(Nat)
  BY RowsAreRows DEF RowsOK
<1>8. Len(Append(q, n)) = Len(q) + 1
  BY <1>7
<1>9. IsRow(f, p, s, n) <=> n \in a..b
  OBVIOUS
<1> HIDE DEF q
<1>10. Len(Rows(f, p, s, m)) = IF n \in a..b THEN Within(a, b, n) + 1 ELSE Within(a, b, n)
  BY <1>5, <1>6, <1>8, <1>9 DEF q
<1>11. Len(Rows(f, p, s, m)) = Within(a, b, m)
  BY <1>4, <1>10 DEF Within
<1> QED
  BY <1>2, <1>11

\* Without a row there are no rows.
LEMMA RowsNone ==
    ASSUME NEW f, NEW p, NEW s, NEW i \in Nat \ {0}, \A k \in 1..(i - 1) : ~ IsRow(f, p, s, k)
    PROVE  Rows(f, p, s, i) = <<>>
<1>1. RowsOK(f, p, s, i)
  BY RowsAreRows
<1>2. 1 \notin 1..Len(Rows(f, p, s, i))
  BY <1>1 DEF RowsOK
<1> QED
  BY <1>1, <1>2 DEF RowsOK

\* A row of a faultless file was accepted behind the rows before it.
LEMMA RowAccepted ==
    ASSUME NEW f, NEW p \in Programs, NEW s, NEW k, IsRow(f, p, s, k), Offence(f, p, k) = "none"
    PROVE  Accepts(f, f[k], s, Rows(f, p, s, k))
<1>1. s \in Parses(p) /\ f[k].kind = "data" /\ Governor(f, k) = s
  BY DEF IsRow
<1>2. s # "none"
  BY <1>1 DEF Parses, GeneratorSections, SchedulerSections
<1>3. Offence(f, p, k) = IF ~ Accepts(f, f[k], s, Rows(f, p, s, k)) THEN "fatal" ELSE "none"
  BY <1>1, <1>2 DEF Offence
<1> QED
  BY <1>3

\* A bound that holds whenever a row is added bounds the rows.
LEMMA RowsBounded ==
    ASSUME NEW f, NEW p, NEW s, NEW i \in Nat \ {0}, NEW M \in Nat,
           \A k \in 1..(i - 1) : IsRow(f, p, s, k) => Len(Rows(f, p, s, k)) < M
    PROVE  Len(Rows(f, p, s, i)) <= M
<1> DEFINE T == {m \in 1..i : ~ (Len(Rows(f, p, s, m)) <= M)}
<1>1. SUFFICES ASSUME T # {} PROVE FALSE
  OBVIOUS
<1>2. PICK m \in T : \A y \in T : m <= y
  <2>1. T \in SUBSET Nat
    OBVIOUS
  <2> QED
    BY <1>1, <2>1, LeastExists
<1>3. m # 1
  <2>1. Len(Rows(f, p, s, 1)) = 0
    BY RowsFirst
  <2> QED
    BY <1>2, <2>1
<1>4. PICK n \in 1..(i - 1) : m = n + 1
  <2>1. m - 1 \in 1..(i - 1) /\ m = (m - 1) + 1
    BY <1>3
  <2> QED
    BY <2>1
<1> DEFINE q == Rows(f, p, s, n)
<1>5. Len(q) <= M
  BY <1>2, <1>4
<1>6. Rows(f, p, s, m) = IF IsRow(f, p, s, n) THEN Append(q, n) ELSE q
  BY <1>4, RowsStep
<1>7. q \in Seq(Nat)
  BY RowsAreRows DEF RowsOK
<1>8. Len(Append(q, n)) = Len(q) + 1 /\ Len(q) \in Nat
  BY <1>7
<1>9. IsRow(f, p, s, n) => Len(q) < M
  OBVIOUS
<1> HIDE DEF q
<1>10. Len(Rows(f, p, s, m)) <= M
  BY <1>5, <1>6, <1>8, <1>9
<1> QED
  BY <1>2, <1>10

\* The value v[k] of the rows rises along them.
Rising(v, r) == \A x, y \in 1..Len(r) : x <= y => v[r[x]] <= v[r[y]]

\* When no row is added whose value is below that of the last row, the values rise.
LEMMA RowsRising ==
    ASSUME NEW f, NEW p, NEW s, NEW i \in Nat \ {0}, NEW v,
           \A k \in 1..(i - 1) : IsRow(f, p, s, k) =>
              /\ v[k] \in Int
              /\ Rows(f, p, s, k) # <<>> => v[Last(Rows(f, p, s, k))] <= v[k]
    PROVE  Rising(v, Rows(f, p, s, i))
<1> DEFINE T == {m \in 1..i : ~ Rising(v, Rows(f, p, s, m))}
<1>1. SUFFICES ASSUME T # {} PROVE FALSE
  OBVIOUS
<1>2. PICK m \in T : \A y \in T : m <= y
  <2>1. T \in SUBSET Nat
    OBVIOUS
  <2> QED
    BY <1>1, <2>1, LeastExists
<1>3. m # 1
  <2>1. Len(Rows(f, p, s, 1)) = 0
    BY RowsFirst
  <2>2. Rising(v, Rows(f, p, s, 1))
    BY <2>1 DEF Rising
  <2> QED
    BY <1>2, <2>2
<1>4. PICK n \in 1..(i - 1) : m = n + 1
  <2>1. m - 1 \in 1..(i - 1) /\ m = (m - 1) + 1
    BY <1>3
  <2> QED
    BY <2>1
<1> DEFINE q == Rows(f, p, s, n)
           r == Rows(f, p, s, m)
<1>5. Rising(v, q)
  BY <1>2, <1>4
<1>6. r = IF IsRow(f, p, s, n) THEN Append(q, n) ELSE q
  BY <1>4, RowsStep
<1>7. q \in Seq(Nat) /\ \A j \in 1..Len(q) : q[j] \in 1..(n - 1) /\ IsRow(f, p, s, q[j])
  BY RowsAreRows DEF RowsOK
<1>8. \A j \in 1..Len(q) : v[q[j]] \in Int
  BY <1>7
<1>9. IsRow(f, p, s, n) => v[n] \in Int /\ (q # <<>> => v[Last(q)] <= v[n])
  OBVIOUS
<1> HIDE DEF q, r
<1>10. CASE ~ IsRow(f, p, s, n)
  BY <1>2, <1>5, <1>6, <1>10 DEF r
<1>11. CASE IsRow(f, p, s, n)
  <2>1. r = Append(q, n) /\ n \in Nat
    BY <1>6, <1>11
  <2>2. /\ Len(q) \in Nat /\ Len(r) = Len(q) + 1
        /\ \A j \in 1..Len(q) : r[j] = q[j]
        /\ r[Len(q) + 1] = n
    BY <1>7, <2>1, AppendIndexed
  <2>3. ASSUME NEW x \in 1..Len(q) PROVE v[q[x]] <= v[n]
    <3>1. q # <<>> /\ Last(q) = q[Len(q)] /\ Len(q) \in 1..Len(q)
      BY <1>7, <2>2 DEF Last
    <3>2. v[q[x]] <= v[q[Len(q)]]
      BY <1>5, <3>1 DEF Rising
    <3>3. v[q[x]] \in Int /\ v[q[Len(q)]] \in Int /\ v[n] \in Int
      BY <1>8, <1>9, <1>11, <3>1
    <3> QED
      BY <1>9, <1>11, <3>1, <3>2, <3>3
  <2>4. ASSUME NEW x \in 1..Len(r), NEW y \in 1..Len(r), x <= y PROVE v[r[x]] <= v[r[y]]
    <3>1. CASE y \in 1..Len(q)
      <4>1. x \in 1..Len(q)
        BY <2>2, <2>4, <3>1
      <4> QED
        BY <1>5, <2>2, <2>4, <3>1, <4>1 DEF Rising
    <3>2. CASE y = Len(q) + 1 /\ x \in 1..Len(q)
      BY <2>2, <2>3, <3>2
    <3>3. CASE y = Len(q) + 1 /\ x = Len(q) + 1
      BY <1>9, <1>11, <2>2, <3>3
    <3> QED
      BY <2>2, <2>4, <3>1, <3>2, <3>3
  <2>5. Rising(v, r)
    BY <2>4 DEF Rising
  <2> QED
    BY <1>2, <2>5 DEF r
<1> QED
  BY <1>10, <1>11

\* The tables of a program that found nothing wrong before line i.
TableOK(f, p, i) ==
    /\ Len(Rows(f, p, "mem", i)) <= MAX_MEMS
    /\ \A s \in {"cpufreq", "cloud", "offloadingratio"} : Len(Rows(f, p, s, i)) <= MAX_TABLE
    /\ LET r == Rows(f, p, "cpufreq", i)
       IN  \A x, y \in 1..Len(r) : x <= y => f[r[x]].cols[1] >= f[r[y]].cols[1]
    /\ LET r == Rows(f, p, "offloadingratio", i)
       IN  \A x, y \in 1..Len(r) : x <= y => f[r[x]].cols[1] <= f[r[y]].cols[1]

\* Those that are checked fit their arrays, and they are in order.
LEMMA FaultlessTables ==
    ASSUME NEW f, NEW p \in Programs, NEW i \in Nat \ {0}, Faultless(f, p, i)
    PROVE  TableOK(f, p, i)
<1> USE TableAssumption
<1>1. ASSUME NEW s, NEW k \in 1..(i - 1), IsRow(f, p, s, k)
      PROVE  /\ Accepts(f, f[k], s, Rows(f, p, s, k))
             /\ Len(Rows(f, p, s, k)) \in Nat
  <2>1. Offence(f, p, k) = "none"
    BY DEF Faultless
  <2>2. Rows(f, p, s, k) \in Seq(Nat)
    BY RowsAreRows DEF RowsOK
  <2> QED
    BY <1>1, <2>1, <2>2, RowAccepted
<1>2. Len(Rows(f, p, "mem", i)) <= MAX_MEMS
  <2>1. \A k \in 1..(i - 1) : IsRow(f, p, "mem", k) => Len(Rows(f, p, "mem", k)) < MAX_MEMS
    BY <1>1 DEF Accepts, MemHasRoom
  <2> QED
    BY <2>1, RowsBounded
<1>3. ASSUME NEW s \in {"cpufreq", "cloud", "offloadingratio"} PROVE Len(Rows(f, p, s, i)) <= MAX_TABLE
  <2>1. \A k \in 1..(i - 1) : IsRow(f, p, s, k) => Len(Rows(f, p, s, k)) < MAX_TABLE
    BY <1>1 DEF Accepts, TableHasRoom
  <2> QED
    BY <2>1, RowsBounded
<1> DEFINE fr == Rows(f, p, "cpufreq", i)
           ra == Rows(f, p, "offloadingratio", i)
<1>5. \A x, y \in 1..Len(fr) : x <= y => f[fr[x]].cols[1] >= f[fr[y]].cols[1]
  <2> DEFINE v == [k \in 1..(i - 1) |-> 100 - f[k].cols[1]]

  <2>1. ASSUME NEW k \in 1..(i - 1), IsRow(f, p, "cpufreq", k) PROVE f[k].cols[1] \in 0..100
    <3>1. CpufreqOK(Values(f[k], "cpufreq"))
      BY <1>1, <2>1 DEF Accepts, InRange
    <3>2. Values(f[k], "cpufreq") = f[k].cols
      BY DEF Values
    <3> QED
      BY <3>1, <3>2 DEF CpufreqOK
  <2>2. ASSUME NEW k \in 1..(i - 1), IsRow(f, p, "cpufreq", k), Rows(f, p, "cpufreq", k) # <<>>
        PROVE  v[Last(Rows(f, p, "cpufreq", k))] <= v[k]
    <3> DEFINE q == Rows(f, p, "cpufreq", k)
               z == Last(q)
    <3>1. q \in Seq(Nat) /\ \A j \in 1..Len(q) : q[j] \in 1..(k - 1) /\ IsRow(f, p, "cpufreq", q[j])
      BY RowsAreRows DEF RowsOK
    <3>2. z = q[Len(q)] /\ Len(q) \in 1..Len(q)
      BY <2>2, <3>1 DEF Last
    <3>3. z \in 1..(i - 1) /\ IsRow(f, p, "cpufreq", z)
      BY <3>1, <3>2
    <3>4. f[z].cols[1] >= f[k].cols[1]
      BY <1>1, <2>2 DEF Accepts, Follows, FreqFollows
    <3> HIDE DEF z, q
    <3>5. f[z].cols[1] \in 0..100 /\ f[k].cols[1] \in 0..100
      BY <2>1, <2>2, <3>3
    <3>6. 100 - f[z].cols[1] <= 100 - f[k].cols[1]
      <4>1. \A a, b \in 0..100 : a >= b => 100 - a <= 100 - b
        OBVIOUS
      <4> QED
        BY <3>4, <3>5, <4>1
    <3>7. v[z] <= v[k]
      BY <3>3, <3>6
    <3> QED
      BY <3>7 DEF z, q
  <2>3. \A k \in 1..(i - 1) : IsRow(f, p, "cpufreq", k) => v[k] \in Int
    BY <2>1, SMTT(20)
  <2> HIDE DEF v
  <2>4. Rising(v, fr)
    BY <2>2, <2>3, RowsRising
  <2>5. fr \in Seq(Nat) /\ \A j \in 1..Len(fr) : fr[j] \in 1..(i - 1) /\ IsRow(f, p, "cpufreq", fr[j])
    BY RowsAreRows DEF RowsOK
  <2> HIDE DEF fr
  <2> SUFFICES ASSUME NEW x \in 1..Len(fr), NEW y \in 1..Len(fr), x <= y
               PROVE  f[fr[x]].cols[1] >= f[fr[y]].cols[1]
    OBVIOUS
  <2>6. v[fr[x]] <= v[fr[y]]
    BY <2>4 DEF Rising
  <2>7. v[fr[x]] = 100 - f[fr[x]].cols[1] /\ v[fr[y]] = 100 - f[fr[y]].cols[1]
    BY <2>5 DEF v
  <2>8. f[fr[x]].cols[1] \in 0..100 /\ f[fr[y]].cols[1] \in 0..100
    BY <2>1, <2>5
  <2>9. \A a, b \in 0..100 : 100 - a <= 100 - b => a >= b
    OBVIOUS
  <2> QED
    BY <2>6, <2>7, <2>8, <2>9
<1>6. \A x, y \in 1..Len(ra) : x <= y => f[ra[x]].cols[1] <= f[ra[y]].cols[1]
  <2> DEFINE v == [k \in 1..(i - 1) |-> f[k].cols[1]]
  <2>1. ASSUME NEW k \in 1..(i - 1), IsRow(f, p, "offloadingratio", k) PROVE f[k].cols[1] \in 0..100
    <3>1. RatioOK(Values(f[k], "offloadingratio"))
      BY <1>1, <2>1 DEF Accepts, InRange
    <3>2. Values(f[k], "offloadingratio") = f[k].cols
      BY DEF Values
    <3> QED
      BY <3>1, <3>2 DEF RatioOK
  <2>2. ASSUME NEW k \in 1..(i - 1), IsRow(f, p, "offloadingratio", k),
               Rows(f, p, "offloadingratio", k) # <<>>
        PROVE  v[Last(Rows(f, p, "offloadingratio", k))] <= v[k]
    <3> DEFINE q == Rows(f, p, "offloadingratio", k)
               z == Last(q)
    <3>1. q \in Seq(Nat) /\ \A j \in 1..Len(q) : q[j] \in 1..(k - 1)
      BY RowsAreRows DEF RowsOK
    <3>2. z = q[Len(q)] /\ Len(q) \in 1..Len(q)
      BY <2>2, <3>1 DEF Last
    <3>3. z \in 1..(i - 1)
      BY <3>1, <3>2
    <3>4. f[z].cols[1] <= f[k].cols[1]
      BY <1>1, <2>2 DEF Accepts, Follows, RatioFollows
    <3> HIDE DEF z, q
    <3>7. v[z] <= v[k]
      BY <3>3, <3>4
    <3> QED
      BY <3>7 DEF z, q
  <2>3. \A k \in 1..(i - 1) : IsRow(f, p, "offloadingratio", k) => v[k] \in Int
    BY <2>1
  <2> HIDE DEF v
  <2>4. Rising(v, ra)
    BY <2>2, <2>3, RowsRising
  <2>5. ra \in Seq(Nat) /\ \A j \in 1..Len(ra) : ra[j] \in 1..(i - 1)
    BY RowsAreRows DEF RowsOK
  <2> HIDE DEF ra
  <2> QED
    BY <2>4, <2>5 DEF Rising, v
<1> QED
  BY <1>2, <1>3, <1>5, <1>6 DEF TableOK

-----------------------------------------------------------------------------
(* The loader                                                              *)

Statuses == {"waiting", "loading", "loaded", "fatal", "overrun", "crashed", "done"}

\* Program p has taken the rows before line n, and nothing else.
Kept(p, n) == \A s \in Sections : loaded[p][s] = Rows(file, p, s, n)

\* Where the parser is agrees with what the file says of the next line.  A line that
\* has been handed back may still be under the header of the section just left.
SectOK ==
    /\ sect \in {"none", "skip"} \cup Parses(prog)
    /\ sect = "none" => \/ Governor(file, pos) = "none"
                        \/ pos <= Len(file) /\ file[pos].kind \in {"blank", "header"}
    /\ sect = "skip" => Governor(file, pos) \in Sections \ Parses(prog)
    /\ sect \in Parses(prog) => Governor(file, pos) = sect

LoadTypeOK ==
    /\ file \in Seq(Lines)
    /\ prog \in Programs
    /\ pos \in 1..(Len(file) + 1)
    /\ status \in [Programs -> Statuses]
    /\ loaded \in [Programs -> [Sections -> Seq(Nat)]]

\* The program that is loading has taken exactly the rows before its position, and
\* found nothing wrong before it; so had the other program, when it stopped.
Progress ==
    /\ Faultless(file, prog, pos) /\ Kept(prog, pos)
    /\ \A p \in Programs : \E n \in 1..(Len(file) + 1) : Faultless(file, p, n) /\ Kept(p, n)

\* How loading has ended.
EndOK ==
    /\ status[prog] = "fatal" => pos <= Len(file) /\ Offence(file, prog, pos) = "fatal"
    /\ status[prog] = "overrun" => pos <= Len(file) /\ OverrunAt(file, prog, pos)
    /\ status[prog] \in {"loaded", "crashed", "done"} => pos = Len(file) + 1
    /\ status[prog] # "waiting"

LoadInv == LoadTypeOK /\ SectOK /\ Progress /\ EndOK

\* Section names and the places a parser can be in are apart.
LEMMA SectionNames ==
    ASSUME NEW p \in Programs
    PROVE  /\ Parses(p) \subseteq Sections
           /\ "none" \notin Sections /\ "skip" \notin Sections /\ "unknown" \notin Sections
           /\ "cpufreq" \in Sections
  BY DEF Parses, Sections, GeneratorSections, SchedulerSections

\* A line of a file.
LEMMA LineOf ==
    ASSUME NEW f \in Seq(Lines), NEW i \in 1..Len(f)
    PROVE  /\ f[i] \in Lines /\ f[i].kind \in {"header", "data", "blank", "comment"}
           /\ f[i].kind = "data" => f[i].section = "none"
           /\ f[i].section \in Sections \cup {"none", "unknown"}
           /\ f[i].named \in BOOLEAN /\ f[i].cols \in Seq(Int)
<1>1. f[i] \in Lines
  BY ElementOfSeq
<1> QED
  BY <1>1 DEF Lines

\* One line more that is not wrong, for the program that is loading.
LEMMA Advances ==
    ASSUME LoadInv, pos \in 1..Len(file), status[prog] = "loading",
           file' = file, prog' = prog, pos' = pos + 1, status' = status,
           loaded' \in [Programs -> [Sections -> Seq(Nat)]],
           Offence(file, prog, pos) = "none",
           \A p \in Programs : p # prog => loaded'[p] = loaded[p],
           \A s \in Sections : loaded'[prog][s] =
               IF IsRow(file, prog, s, pos) THEN Append(loaded[prog][s], pos) ELSE loaded[prog][s]
    PROVE  LoadTypeOK' /\ Progress' /\ EndOK'
<1>1. LoadTypeOK'
  BY DEF LoadInv, LoadTypeOK
<1>2. EndOK'
  BY DEF EndOK
<1>n. PICK n \in Nat : n = pos + 1
  BY DEF LoadInv, LoadTypeOK
<1>3. pos \in Nat \ {0} /\ pos' = n /\ n \in 1..(Len(file) + 1) /\ \A k \in 1..(n - 1) : k \in 1..(pos - 1) \/ k = pos
  BY <1>n DEF LoadInv, LoadTypeOK
<1>4. Faultless(file, prog, n)
  BY <1>3 DEF LoadInv, Progress, Faultless
<1>5. ASSUME NEW s \in Sections PROVE loaded'[prog][s] = Rows(file, prog, s, n)
  <2>1. loaded[prog][s] = Rows(file, prog, s, pos)
    BY DEF LoadInv, Progress, Kept
  <2>2. Rows(file, prog, s, pos + 1) =
           IF IsRow(file, prog, s, pos) THEN Append(Rows(file, prog, s, pos), pos) ELSE Rows(file, prog, s, pos)
    BY <1>3, RowsStep
  <2> QED
    BY <1>n, <2>1, <2>2
<1>6. ASSUME NEW p \in Programs
      PROVE  \E m \in 1..(Len(file') + 1) : Faultless(file', p, m) /\ Kept(p, m)'
  <2>1. CASE p = prog
    <3>1. Kept(p, n)'
      BY <1>5, <2>1 DEF Kept
    <3> QED
      BY <1>3, <1>4, <2>1, <3>1
  <2>2. CASE p # prog
    <3>1. PICK m \in 1..(Len(file) + 1) : Faultless(file, p, m) /\ Kept(p, m)
      BY DEF LoadInv, Progress
    <3>2. Kept(p, m)'
      BY <2>2, <3>1 DEF Kept
    <3> QED
      BY <3>1, <3>2
  <2> QED
    BY <2>1, <2>2
<1>7. Faultless(file', prog', pos') /\ Kept(prog, pos)'
  BY <1>3, <1>4, <1>5 DEF Kept
<1>8. Progress'
  BY <1>6, <1>7 DEF Progress
<1> QED
  BY <1>1, <1>2, <1>8

\* fgets returns NULL.
LEMMA EndOfFilePreserves ==
    ASSUME LoadInv, EndOfFile
    PROVE  LoadInv'
<1>1. /\ status[prog] = "loading" /\ pos > Len(file) /\ status' = [status EXCEPT ![prog] = "loaded"]
      /\ UNCHANGED <<file, prog, pos, sect, loaded>>
  BY DEF EndOfFile, Ends
<1>2. LoadTypeOK' /\ pos = Len(file) + 1 /\ status'[prog] = "loaded"
  BY <1>1 DEF LoadInv, LoadTypeOK, Statuses
<1>3. SectOK' /\ Progress'
  BY <1>1 DEF LoadInv, SectOK, Progress, Kept
<1>4. EndOK'
  BY <1>1, <1>2 DEF EndOK
<1> QED
  BY <1>2, <1>3, <1>4 DEF LoadInv

\* The position of a program that is loading, and the line it reads next.
LEMMA AtLine ==
    ASSUME LoadInv, pos <= Len(file)
    PROVE  /\ pos \in 1..Len(file) /\ pos \in Nat \ {0} /\ Len(file) \in Nat /\ prog \in Programs
           /\ file[pos].kind \in {"header", "data", "blank", "comment"}
           /\ file[pos].kind = "data" => file[pos].section = "none"
<1>1. file \in Seq(Lines) /\ pos \in 1..(Len(file) + 1) /\ prog \in Programs
  BY DEF LoadInv, LoadTypeOK
<1>2. Len(file) \in Nat
  BY <1>1
<1>3. pos \in 1..Len(file)
  BY <1>1, <1>2
<1> QED
  BY <1>1, <1>2, <1>3, LineOf

\* A comment, or a blank line between two sections, changes nothing.
LEMMA PassOverPreserves ==
    ASSUME LoadInv, PassOver
    PROVE  LoadInv'
<1>1. /\ status[prog] = "loading" /\ pos <= Len(file) /\ pos' = pos + 1
      /\ \/ file[pos].kind = "comment"
         \/ file[pos].kind = "blank" /\ sect = "none"
      /\ UNCHANGED <<file, prog, sect, status, loaded>>
  BY DEF PassOver
<1>2. pos \in 1..Len(file) /\ pos \in Nat \ {0}
  BY <1>1, AtLine
<1>3. Offence(file, prog, pos) = "none" /\ \A s : ~ IsRow(file, prog, s, pos)
  BY <1>1 DEF Offence, IsRow
<1>4. LoadTypeOK' /\ Progress' /\ EndOK'
  BY <1>1, <1>2, <1>3, Advances DEF LoadInv, LoadTypeOK
<1>5. Governor(file, pos + 1) = IF file[pos].kind = "blank" THEN "none" ELSE Governor(file, pos)
  BY <1>1, <1>2, GovernorStep
<1>6. SectOK'
  <2>1. CASE sect = "none"
    <3>1. Governor(file, pos + 1) = "none"
      BY <1>1, <1>5, <2>1 DEF LoadInv, SectOK
    <3>2. "none" \notin Parses(prog)
      BY <1>1, SectionNames DEF LoadInv, LoadTypeOK
    <3> QED
      BY <1>1, <2>1, <3>1, <3>2 DEF SectOK
  <2>2. CASE sect # "none"
    <3>1. Governor(file, pos + 1) = Governor(file, pos)
      BY <1>1, <1>5, <2>2
    <3> QED
      BY <1>1, <2>2, <3>1 DEF LoadInv, SectOK
  <2> QED
    BY <2>1, <2>2
<1> QED
  BY <1>4, <1>6 DEF LoadInv

\* The line that ends a section is handed back.
LEMMA LeaveSectionPreserves ==
    ASSUME LoadInv, LeaveSection
    PROVE  LoadInv'
<1>1. /\ status[prog] = "loading" /\ pos <= Len(file) /\ sect' = "none"
      /\ file[pos].kind \in {"blank", "header"}
      /\ UNCHANGED <<file, prog, pos, status, loaded>>
  BY DEF LeaveSection
<1>2. LoadTypeOK' /\ Progress' /\ EndOK'
  BY <1>1 DEF LoadInv, LoadTypeOK, Progress, Kept, EndOK
<1>3. "none" \notin Parses(prog)
  BY <1>1, SectionNames DEF LoadInv, LoadTypeOK
<1>4. SectOK'
  BY <1>1, <1>3 DEF SectOK
<1> QED
  BY <1>2, <1>4 DEF LoadInv

\* A program that ends because of a line has met its offence, or no room for it.
LEMMA Stops ==
    ASSUME LoadInv, status[prog] = "loading", pos <= Len(file),
           NEW how \in {"fatal", "overrun"}, Ends(how),
           how = "fatal" => Offence(file, prog, pos) = "fatal",
           how = "overrun" => OverrunAt(file, prog, pos),
           UNCHANGED <<file, prog, pos, sect, loaded>>
    PROVE  LoadInv'
<1>1. LoadTypeOK' /\ status'[prog] = how
  BY DEF LoadInv, LoadTypeOK, Statuses, Ends
<1>2. SectOK' /\ Progress'
  BY DEF LoadInv, SectOK, Progress, Kept
<1>3. EndOK'
  BY <1>1 DEF EndOK
<1> QED
  BY <1>1, <1>2, <1>3 DEF LoadInv

\* A header: fatal, or the parser of its section or skip_section starts.
LEMMA EnterSectionPreserves ==
    ASSUME LoadInv, EnterSection
    PROVE  LoadInv'
<1> DEFINE s == file[pos].section
           bad == s \notin Sections \/ (prog = "gastask" /\ s = "task" /\ loaded[prog]["cpufreq"] = <<>>)
<1>1. /\ status[prog] = "loading" /\ pos <= Len(file) /\ sect = "none"
      /\ file[pos].kind \in {"header", "data"}
      /\ bad => Ends("fatal") /\ UNCHANGED <<pos, sect>>
      /\ ~ bad => /\ sect' = IF s \in Parses(prog) THEN s ELSE "skip"
                  /\ pos' = pos + 1 /\ UNCHANGED status
      /\ UNCHANGED <<file, prog, loaded>>
  BY DEF EnterSection
<1>2. /\ pos \in 1..Len(file) /\ pos \in Nat \ {0} /\ prog \in Programs
      /\ file[pos].kind = "data" => s = "none"
  BY <1>1, AtLine
<1>3. /\ Parses(prog) \subseteq Sections /\ "none" \notin Sections /\ "skip" \notin Sections
      /\ "cpufreq" \in Sections
  BY <1>2, SectionNames
<1>4. loaded[prog]["cpufreq"] = Rows(file, prog, "cpufreq", pos)
  BY <1>3 DEF LoadInv, Progress, Kept
<1>5. file[pos].kind = "header" => Offence(file, prog, pos) = IF bad THEN "fatal" ELSE "none"
  BY <1>4 DEF Offence
<1>6. file[pos].kind = "data" => bad /\ Offence(file, prog, pos) = "fatal"
  <2> SUFFICES ASSUME file[pos].kind = "data" PROVE bad /\ Offence(file, prog, pos) = "fatal"
    OBVIOUS
  <2>1. Governor(file, pos) = "none"
    BY <1>1 DEF LoadInv, SectOK
  <2>2. Offence(file, prog, pos) = "fatal"
    BY <2>1 DEF Offence
  <2> QED
    BY <1>2, <1>3, <2>2
<1>7. CASE bad
  BY <1>1, <1>5, <1>6, <1>7, Stops
<1>8. CASE ~ bad
  <2>1. file[pos].kind = "header" /\ Offence(file, prog, pos) = "none"
    BY <1>1, <1>5, <1>6, <1>8
  <2>2. \A u : ~ IsRow(file, prog, u, pos)
    BY <2>1 DEF IsRow
  <2>3. LoadTypeOK' /\ Progress' /\ EndOK'
    BY <1>1, <1>2, <1>8, <2>1, <2>2, Advances DEF LoadInv, LoadTypeOK
  <2>4. Governor(file, pos + 1) = s
    BY <1>2, <2>1, GovernorStep
  <2>5. SectOK'
    BY <1>1, <1>3, <1>8, <2>4 DEF SectOK
  <2> QED
    BY <2>3, <2>5 DEF LoadInv
<1> QED
  BY <1>7, <1>8

\* skip_section passes over the data of the other program.
LEMMA SkipDataPreserves ==
    ASSUME LoadInv, SkipData
    PROVE  LoadInv'
<1>1. /\ status[prog] = "loading" /\ pos <= Len(file) /\ sect = "skip" /\ file[pos].kind = "data"
      /\ pos' = pos + 1 /\ UNCHANGED <<file, prog, sect, status, loaded>>
  BY DEF SkipData
<1>2. pos \in 1..Len(file) /\ pos \in Nat \ {0} /\ prog \in Programs
  BY <1>1, AtLine
<1>3. "none" \notin Sections
  BY <1>2, SectionNames
<1>4. Governor(file, pos) \in Sections \ Parses(prog)
  BY <1>1 DEF LoadInv, SectOK
<1>5. Offence(file, prog, pos) = "none" /\ \A s : ~ IsRow(file, prog, s, pos)
  BY <1>1, <1>3, <1>4 DEF Offence, IsRow
<1>6. LoadTypeOK' /\ Progress' /\ EndOK'
  BY <1>1, <1>2, <1>5, Advances DEF LoadInv, LoadTypeOK
<1>7. Governor(file, pos + 1) = Governor(file, pos)
  BY <1>1, <1>2, GovernorStep
<1>8. SectOK'
  BY <1>1, <1>7 DEF LoadInv, SectOK
<1> QED
  BY <1>6, <1>8 DEF LoadInv

\* A line of data for the section being parsed: taken, or the end of loading.
LEMMA ParseDataPreserves ==
    ASSUME LoadInv, ParseData
    PROVE  LoadInv'
<1> DEFINE rows == loaded[prog][sect]
           acc == Accepts(file, file[pos], sect, rows)
           over == Overruns(sect, rows)
           stores == /\ loaded' = [loaded EXCEPT ![prog][sect] = Append(rows, pos)]
                     /\ pos' = pos + 1 /\ UNCHANGED status
<1>1. /\ status[prog] = "loading" /\ pos <= Len(file) /\ sect \in Sections /\ file[pos].kind = "data"
      /\ UNCHANGED <<file, prog, sect>>
      /\ \/ ~ acc /\ Ends("fatal") /\ UNCHANGED <<pos, loaded>>
         \/ acc /\ over /\ Ends("overrun") /\ UNCHANGED <<pos, loaded>>
         \/ acc /\ stores
  BY DEF ParseData
<1>2. pos \in 1..Len(file) /\ pos \in Nat \ {0} /\ prog \in Programs
  BY <1>1, AtLine
<1>3. "none" \notin Sections /\ "skip" \notin Sections
  BY <1>2, SectionNames
<1>4. sect \in Parses(prog) /\ Governor(file, pos) = sect
  BY <1>1, <1>3 DEF LoadInv, SectOK
<1>5. rows = Rows(file, prog, sect, pos)
  BY <1>1 DEF LoadInv, Progress, Kept
<1>6. Offence(file, prog, pos) = IF ~ acc THEN "fatal" ELSE "none"
  BY <1>1, <1>3, <1>4, <1>5 DEF Offence
<1>7. \A s : IsRow(file, prog, s, pos) <=> s = sect
  BY <1>1, <1>4 DEF IsRow
<1>11. over => OverrunAt(file, prog, pos)
  BY <1>5, <1>7 DEF OverrunAt, Overruns
<1> HIDE DEF acc, over
<1>8. CASE ~ acc /\ Ends("fatal") /\ UNCHANGED <<pos, loaded>>
  BY <1>1, <1>6, <1>8, Stops
<1>9. CASE acc /\ over /\ Ends("overrun") /\ UNCHANGED <<pos, loaded>>
  BY <1>1, <1>9, <1>11, Stops
<1>10. CASE acc /\ stores
  <2>1. loaded \in [Programs -> [Sections -> Seq(Nat)]] /\ rows \in Seq(Nat)
    BY <1>1, <1>2 DEF LoadInv, LoadTypeOK
  <2>2. PICK ap \in Seq(Nat) : ap = Append(rows, pos)
    <3> HIDE DEF rows
    <3>1. pos \in Nat /\ Append(rows, pos) \in Seq(Nat)
      BY <1>2, <2>1, AppendIndexed
    <3> QED
      BY <3>1
  <2>3. PICK g \in [Sections -> Seq(Nat)] : g = [loaded[prog] EXCEPT ![sect] = ap]
    BY <1>2, <2>1, <2>2
  <2>8. loaded' = [loaded EXCEPT ![prog] = g]
    BY <1>1, <1>10, <2>2, <2>3
  <2>9. loaded' \in [Programs -> [Sections -> Seq(Nat)]]
    BY <2>1, <2>3, <2>8
  <2>10. \A p \in Programs : p # prog => loaded'[p] = loaded[p]
    BY <2>1, <2>8
  <2>11. loaded'[prog] = g
    BY <1>2, <2>1, <2>8
  <2>12. \A s \in Sections : g[s] = IF s = sect THEN ap ELSE loaded[prog][s]
    BY <1>1, <1>2, <2>1, <2>3
  <2>4. \A s \in Sections : loaded'[prog][s] =
          IF IsRow(file, prog, s, pos) THEN Append(loaded[prog][s], pos) ELSE loaded[prog][s]
    BY <1>7, <2>2, <2>11, <2>12
  <2>5. LoadTypeOK' /\ Progress' /\ EndOK'
    BY <1>1, <1>2, <1>6, <1>10, <2>4, <2>9, <2>10, Advances
  <2>6. Governor(file, pos + 1) = Governor(file, pos)
    BY <1>1, <1>2, GovernorStep
  <2>7. SectOK'
    BY <1>1, <1>3, <1>4, <1>10, <2>6 DEF SectOK
  <2> QED
    BY <2>5, <2>7 DEF LoadInv
<1> QED
  BY <1>1, <1>8, <1>9, <1>10

\* Every step of loading preserves the invariant of the loader.
LEMMA LoadStepPreserves ==
    ASSUME LoadInv, LoadStep
    PROVE  LoadInv'
  BY EndOfFilePreserves, PassOverPreserves, LeaveSectionPreserves, EnterSectionPreserves,
     SkipDataPreserves, ParseDataPreserves DEF LoadStep

\* What the invariant of the loader says of its result.
LEMMA LoadInvExactly ==
    ASSUME LoadInv
    PROVE  LoadedExactly
  BY DEF LoadInv, Progress, EndOK, Kept, LoadedExactly

\* What it says of the tables.
LEMMA LoadInvTables ==
    ASSUME LoadInv
    PROVE  TablesFit
<1> SUFFICES ASSUME NEW p \in Programs
             PROVE  /\ Len(loaded[p]["mem"]) <= MAX_MEMS
                    /\ \A s \in {"cpufreq", "cloud", "offloadingratio"} : Len(loaded[p][s]) <= MAX_TABLE
                    /\ LET f == Column(p, "cpufreq", 1)
                           r == Column(p, "offloadingratio", 1)
                       IN  /\ \A i, j \in 1..Len(f) : i <= j => f[i] >= f[j]
                           /\ \A i, j \in 1..Len(r) : i <= j => r[i] <= r[j]
  BY DEF TablesFit
<1>1. PICK n \in 1..(Len(file) + 1) : Faultless(file, p, n) /\ Kept(p, n)
  BY DEF LoadInv, Progress
<1>2. n \in Nat \ {0}
  BY DEF LoadInv, LoadTypeOK
<1>3. TableOK(file, p, n)
  BY <1>1, <1>2, FaultlessTables
<1>4. \A s \in Sections : loaded[p][s] = Rows(file, p, s, n) /\ loaded[p][s] \in Seq(Nat)
  BY <1>1 DEF Kept, LoadInv, LoadTypeOK
<1>5. {"mem", "cpufreq", "cloud", "offloadingratio", "task", "network", "netcommander"} \subseteq Sections
  BY DEF Sections, SchedulerSections
<1> DEFINE fr == loaded[p]["cpufreq"]
           ra == loaded[p]["offloadingratio"]
<1>6. /\ fr = Rows(file, p, "cpufreq", n) /\ ra = Rows(file, p, "offloadingratio", n)
      /\ Len(fr) \in Nat /\ Len(ra) \in Nat
  BY <1>4, <1>5
<1> HIDE DEF fr, ra
<1>7. /\ \A x, y \in 1..Len(fr) : x <= y => file[fr[x]].cols[1] >= file[fr[y]].cols[1]
      /\ \A x, y \in 1..Len(ra) : x <= y => file[ra[x]].cols[1] <= file[ra[y]].cols[1]
  BY <1>3, <1>6 DEF TableOK
<1> DEFINE cf == Column(p, "cpufreq", 1)
           cr == Column(p, "offloadingratio", 1)
<1>8. cf = [i \in 1..Len(fr) |-> file[fr[i]].cols[1]] /\ cr = [i \in 1..Len(ra) |-> file[ra[i]].cols[1]]
  BY DEF Column, Values, fr, ra
<1>9. Len(cf) = Len(fr) /\ Len(cr) = Len(ra)
  BY <1>6, <1>8
<1> HIDE DEF cf, cr
<1>10. /\ \A i, j \in 1..Len(cf) : i <= j => cf[i] >= cf[j]
       /\ \A i, j \in 1..Len(cr) : i <= j => cr[i] <= cr[j]
  BY <1>7, <1>8, <1>9
<1> QED
  BY <1>3, <1>4, <1>5, <1>10 DEF TableOK, cf, cr

-----------------------------------------------------------------------------
(* The script                                                              *)

\* Plain data of n columns.
Plain(n) == {l \in PlainData : Len(l.cols) = n}

\* The configuration that the script makes of the template t.
Whole(t) ==
    t \o network_txt
      \o <<Blank, Comment, Header("netcommander")>> \o commander_txt
      \o <<Blank, Comment, Header("task")>> \o task_txt

Done == status["gasgen"] = "done"

\* The files: plain data, whoever wrote them; those that this run of gasgen has
\* written have the columns of their sections, as long as no line was cut, and hold
\* tasks that gastask accepts when that is feasible.
TextsOK ==
    /\ network_txt \in Seq(PlainData) /\ commander_txt \in Seq(PlainData)
    /\ task_txt \in Seq(PlainData)
    /\ (Done \/ stage = "gen_commander") => network_txt \in Seq(Plain(2))
    /\ Done => commander_txt \in Seq(Plain(2))
    /\ stage = "gen_task" => task_txt \in Seq(Plain(8))
    /\ (/\ Done \/ stage \in {"gen_task", "gen_network", "gen_commander"}
        /\ FeasibleParameters) =>
          \A i \in 1..Len(task_txt) :
             task_txt[i] \in Plain(8) /\ task_txt[i].cols[1] < task_txt[i].cols[2]

\* Where the script is, and what it has done with the configuration.
StageOK ==
    /\ stage \in {"alone", "script", "gen_task", "gen_network", "gen_commander", "append", "gastask"}
    /\ stage \notin {"alone", "gastask"} =>
          /\ file \in Templates /\ prog = "gasgen"
          /\ \A s \in Sections : loaded["gastask"][s] = <<>>
    /\ stage = "gastask" =>
          /\ prog = "gastask" /\ status["gastask"] \notin {"crashed", "done"}
          /\ \E t \in Templates : file = Whole(t)
    /\ stage \in {"alone", "script"} => status["gasgen"] \notin {"crashed", "done"}
    /\ stage \in {"gen_task", "gen_network", "gen_commander"} => status["gasgen"] = "loaded"
    /\ stage \in {"append", "gastask"} =>
          /\ status["gasgen"] \in {"fatal", "overrun", "crashed", "done"}
          /\ status["gasgen"] \in {"fatal", "overrun"} => ~ Faultless(file, "gasgen", Len(file) + 1)
          /\ FeasibleParameters => status["gasgen"] # "crashed"

\* How many lines gasgen has written.
LengthsOK ==
    /\ (Done \/ stage \in {"gen_network", "gen_commander"}) => Len(task_txt) = NTasksTarget
    /\ (Done \/ stage = "gen_commander") => Len(network_txt) = Param("gennetwork", 5)
    /\ Done => Len(commander_txt) = Param("gennetcommander", 5)

PipelineInv == LoadInv /\ TextsOK /\ StageOK /\ LengthsOK

\* What a program has taken are rows of the file that were accepted.
LEMMA TakenAreRows ==
    ASSUME LoadInv, NEW p \in Programs, NEW s \in Sections
    PROVE  /\ loaded[p][s] \in Seq(Nat)
           /\ \A j \in 1..Len(loaded[p][s]) :
                 /\ loaded[p][s][j] \in 1..Len(file)
                 /\ IsRow(file, p, s, loaded[p][s][j])
                 /\ Scans(file[loaded[p][s][j]], s)
<1>1. PICK n \in 1..(Len(file) + 1) : Faultless(file, p, n) /\ Kept(p, n)
  BY DEF LoadInv, Progress
<1>2. n \in Nat \ {0} /\ Len(file) \in Nat
  BY DEF LoadInv, LoadTypeOK
<1>3. RowsOK(file, p, s, n) /\ loaded[p][s] = Rows(file, p, s, n)
  BY <1>1, <1>2, RowsAreRows DEF Kept
<1>4. loaded[p][s] \in Seq(Nat)
  BY DEF LoadInv, LoadTypeOK
<1>5. ASSUME NEW j \in 1..Len(loaded[p][s])
      PROVE  /\ loaded[p][s][j] \in 1..Len(file) /\ IsRow(file, p, s, loaded[p][s][j])
             /\ Scans(file[loaded[p][s][j]], s)
  <2> DEFINE r == loaded[p][s][j]
  <2>1. r \in 1..(n - 1) /\ IsRow(file, p, s, r)
    BY <1>3 DEF RowsOK
  <2>2. Offence(file, p, r) = "none"
    BY <1>1, <2>1 DEF Faultless
  <2>3. Scans(file[r], s)
    BY <2>1, <2>2, RowAccepted DEF Accepts
  <2> QED
    BY <1>2, <2>1, <2>3
<1> QED
  BY <1>4, <1>5

\* A step of loading concerns the program that is loading only.
LEMMA LoadStepFrame ==
    ASSUME LoadInv, LoadStep
    PROVE  /\ file' = file /\ prog' = prog /\ status[prog] = "loading"
           /\ \A p \in Programs : p # prog => loaded'[p] = loaded[p] /\ status'[p] = status[p]
           /\ status'[prog] \in {"loading", "loaded", "fatal", "overrun"}
<1>1. /\ status \in [Programs -> Statuses] /\ prog \in Programs
      /\ loaded \in [Programs -> [Sections -> Seq(Nat)]]
  BY DEF LoadInv, LoadTypeOK
<1>2. /\ file' = file /\ prog' = prog /\ status[prog] = "loading"
      /\ \/ status' = status
         \/ \E how \in {"loaded", "fatal", "overrun"} : status' = [status EXCEPT ![prog] = how]
      /\ \/ loaded' = loaded
         \/ \E g : loaded' = [loaded EXCEPT ![prog] = g]
  <2>1. CASE EndOfFile
    BY <2>1 DEF EndOfFile, Ends
  <2>2. CASE PassOver \/ LeaveSection \/ SkipData
    BY <2>2 DEF PassOver, LeaveSection, SkipData
  <2>3. CASE EnterSection
    BY <2>3 DEF EnterSection, Ends
  <2>4. CASE ParseData
    <3>1. loaded' = loaded \/ loaded' = [loaded EXCEPT ![prog][sect] = Append(loaded[prog][sect], pos)]
      BY <2>4 DEF ParseData
    <3>2. loaded' = loaded \/ \E g : loaded' = [loaded EXCEPT ![prog] = g]
      BY <3>1
    <3>3. \/ status' = status
          \/ \E how \in {"loaded", "fatal", "overrun"} : status' = [status EXCEPT ![prog] = how]
      BY <2>4 DEF ParseData, Ends
    <3> QED
      BY <2>4, <3>2, <3>3 DEF ParseData
  <2> QED
    BY <2>1, <2>2, <2>3, <2>4 DEF LoadStep
<1>3. \A p \in Programs : p # prog => loaded'[p] = loaded[p]
  BY <1>1, <1>2
<1>4. \A p \in Programs : p # prog => status'[p] = status[p]
  BY <1>1, <1>2
<1>5. status'[prog] \in {"loading", "loaded", "fatal", "overrun"}
  BY <1>1, <1>2
<1> QED
  BY <1>2, <1>3, <1>4, <1>5

\* The parameters of gasgen are those it has loaded, whatever is appended to the file.
LEMMA ParametersStable ==
    ASSUME LoadInv, loaded'["gasgen"] = loaded["gasgen"], \A k \in 1..Len(file) : file'[k] = file[k]
    PROVE  /\ \A s \in Sections : \A k : Param(s, k)' = Param(s, k)
           /\ NTasksTarget' = NTasksTarget /\ Scales' = Scales
           /\ FeasibleParameters' <=> FeasibleParameters
<1>1. "gasgen" \in Programs /\ GeneratorSections \subseteq Sections /\ "mem" \in Sections
  BY DEF Programs, Sections
<1>2. ASSUME NEW s \in Sections, NEW k PROVE Param(s, k)' = Param(s, k)
  <2> DEFINE rows == loaded["gasgen"][s]
  <2>1. rows # <<>> => file'[Last(rows)] = file[Last(rows)]
    <3>1. /\ rows \in Seq(Nat) /\ \A j \in 1..Len(rows) : rows[j] \in 1..Len(file)
      BY <1>1, TakenAreRows
    <3>2. rows # <<>> => Last(rows) = rows[Len(rows)] /\ Len(rows) \in 1..Len(rows)
      BY <3>1 DEF Last
    <3> QED
      BY <3>1, <3>2
  <2> QED
    BY <2>1 DEF Param
<1>3. Scales' = Scales
  <2> DEFINE rows == loaded["gasgen"]["mem"]
  <2>1. /\ rows \in Seq(Nat) /\ \A j \in 1..Len(rows) : rows[j] \in 1..Len(file)
    BY <1>1, TakenAreRows
  <2>2. \A j \in 1..Len(rows) : file'[rows[j]] = file[rows[j]]
    BY <2>1
  <2> QED
    BY <2>2 DEF Scales, Column, Values
<1>4. /\ "gentask" \in Sections /\ "gennetwork" \in Sections /\ "gennetcommander" \in Sections
  BY <1>1 DEF GeneratorSections
<1>5. NTasksTarget' = NTasksTarget
  BY <1>2, <1>4 DEF NTasksTarget
<1>6. MemreqsPerTask' = MemreqsPerTask
  BY <1>2, <1>3, <1>4, <1>5 DEF MemreqsPerTask
<1>7. FeasibleParameters' <=> FeasibleParameters
  BY <1>2, <1>3, <1>4, <1>5, <1>6 DEF FeasibleParameters
<1> QED
  BY <1>2, <1>3, <1>5, <1>7

\* They are numbers.
LEMMA ParametersTyped ==
    ASSUME LoadInv, NEW s \in GeneratorSections, NEW k \in 1..Columns(s)
    PROVE  /\ Param(s, k) \in Int
           /\ (file \in Templates /\ s \in {"gennetwork", "gennetcommander"}) => Param(s, k) \in Nat
<1>1. "gasgen" \in Programs /\ s \in Sections /\ s \notin {"mem", "cloud"}
  BY DEF Programs, Sections, GeneratorSections
<1>2. Columns(s) \in Nat
  BY DEF GeneratorSections, Columns
<1> DEFINE rows == loaded["gasgen"][s]
           r == Last(rows)
<1>3. CASE rows = <<>>
  BY <1>3 DEF Param
<1>4. CASE rows # <<>>
  <2>1. /\ rows \in Seq(Nat)
        /\ \A j \in 1..Len(rows) : /\ rows[j] \in 1..Len(file) /\ IsRow(file, "gasgen", s, rows[j])
                                   /\ Scans(file[rows[j]], s)
    BY <1>1, TakenAreRows
  <2>2. r = rows[Len(rows)] /\ Len(rows) \in 1..Len(rows)
    BY <1>4, <2>1 DEF Last
  <2>3. r \in 1..Len(file) /\ IsRow(file, "gasgen", s, r) /\ Scans(file[r], s)
    BY <2>1, <2>2
  <2>4. Param(s, k) = file[r].cols[k]
    BY <1>4 DEF Param
  <2> HIDE DEF r, rows
  <2>5. file[r].cols \in Seq(Int)
    BY <2>3, LineOf DEF LoadInv, LoadTypeOK
  <2>6. Values(file[r], s) = file[r].cols
    BY <1>1 DEF Values
  <2>7. k \in 1..Len(file[r].cols)
    BY <1>2, <2>3, <2>5, <2>6 DEF Scans
  <2>8. file[r].cols[k] \in Int
    BY <2>5, <2>7, ElementOfSeq
  <2>9. ASSUME file \in Templates, s \in {"gennetwork", "gennetcommander"} PROVE file[r].cols[k] \in Nat
    <3>1. IsTemplate(file)
      BY <2>9, FilesAssumption
    <3>2. file[r].cols \in Seq(Nat)
      BY <2>3, <2>9, <3>1 DEF IsTemplate, IsRow
    <3> QED
      BY <2>7, <3>2, ElementOfSeq
  <2> QED
    BY <2>4, <2>8, <2>9
<1> QED
  BY <1>3, <1>4

\* The smaller of two bounds is below both.
LEMMA MinOfTwo ==
    ASSUME NEW a \in Nat, NEW b \in Nat
    PROVE  Min({a, b}) \in Nat /\ Min({a, b}) <= a /\ Min({a, b}) <= b
<1>1. \E x \in {a, b} : \A y \in {a, b} : x <= y
  <2>1. CASE a <= b
    BY <2>1
  <2>2. CASE b <= a
    BY <2>2
  <2> QED
    BY <2>1, <2>2
<1>2. Min({a, b}) \in {a, b} /\ \A y \in {a, b} : Min({a, b}) <= y
  BY <1>1 DEF Min
<1> QED
  BY <1>2

\* Division by a positive number, as the provers need it.
LEMMA Quotient ==
    ASSUME NEW a \in Int, NEW b \in Int, b > 0
    PROVE  a \div b \in Int /\ a >= b * (a \div b) /\ a < b * (a \div b) + b
<1>1. a \div b \in Int
  OBVIOUS
<1>2. a >= b * (a \div b)
  OBVIOUS
<1>3. a < b * (a \div b) + b
  OBVIOUS
<1> QED
  BY <1>1, <1>2, <1>3

\* A number of at least 2 can be spread, and to nothing below its half.
LEMMA SpreadDefined ==
    ASSUME NEW x \in Int, x >= 2
    PROVE  Spread(x) # {} /\ \A y \in Spread(x) : y \in Int /\ 2 * y >= x + 2
<1>1. PICK h \in Int : h = x \div 2 /\ 2 * h <= x /\ x < 2 * h + 2
  BY Quotient
<1>2. h >= 1
  BY <1>1
<1>3. Spread(x) = (x - (h - 1))..(x + (h - 1))
  BY <1>1, <1>2 DEF Spread
<1>4. x \in Spread(x)
  BY <1>2, <1>3
<1> QED
  BY <1>1, <1>2, <1>3, <1>4

\* do_gen_task: with a share of the CPU of a third at most, the nominal duration is
\* three times the wcet at least, less what the truncation takes.
LEMMA NominalDuration ==
    ASSUME NEW w \in Int, w >= 1, NEW u \in Int, u > 0, NEW n \in Int, 3 * u <= 100 * n,
           NEW d \in Truncations(w * 100 * n, u)
    PROVE  d \in Int /\ d >= 3 * w - 1
<1> DEFINE a == w * 100 * n
           q == a \div u
<1>1. a \in Int
  OBVIOUS
<1>2. a >= w * (3 * u)
  <2>1. a = w * (100 * n)
    OBVIOUS
  <2>2. \A x, y \in Int : x <= y => w * x <= w * y
    OBVIOUS
  <2>3. 3 * u \in Int /\ 100 * n \in Int
    OBVIOUS
  <2> QED
    BY <2>1, <2>2, <2>3
<1>3. q \in Int /\ a < u * q + u
  BY <1>1, Quotient
<1>4. d = q \/ d = q - 1
  BY DEF Truncations
<1>5. q >= 3 * w
  <2> HIDE DEF a, q
  <2>1. SUFFICES ASSUME q <= 3 * w - 1 PROVE FALSE
    BY <1>3
  <2>2. u * q <= u * (3 * w - 1)
    BY <1>3, <2>1
  <2>3. u * (3 * w - 1) = w * (3 * u) - u
    OBVIOUS
  <2>4. w * (3 * u) \in Int /\ u * q \in Int
    BY <1>3
  <2> QED
    BY <1>1, <1>2, <1>3, <2>2, <2>3, <2>4
<1> QED
  BY <1>3, <1>4, <1>5

\* A task whose parameters are feasible has a period above its wcet.
LEMMA DurationAboveWcet ==
    ASSUME NEW w \in Int, w >= 1, NEW u \in Int, u > 0, NEW n \in Int, 3 * u <= 100 * n
    PROVE  /\ \A d \in Durations(w, u, n) : d \in Int /\ w < d
           /\ \A d \in Truncations(w * 100 * n, u) : Spread(d) # {}
<1>1. ASSUME NEW x \in Truncations(w * 100 * n, u)
      PROVE  Spread(x) # {} /\ \A d \in Spread(x) : d \in Int /\ w < d
  <2>1. x \in Int /\ x >= 3 * w - 1
    BY NominalDuration
  <2>2. x >= 2
    BY <2>1
  <2>3. Spread(x) # {} /\ \A d \in Spread(x) : d \in Int /\ 2 * d >= x + 2
    BY <2>1, <2>2, SpreadDefined
  <2> QED
    BY <2>1, <2>3
<1> QED
  BY <1>1 DEF Durations

\* A line that gasgen prints.
LEMMA PlainLine ==
    ASSUME NEW cols \in Seq(Int)
    PROVE  Data(cols) \in PlainData /\ Data(cols) \in Plain(Len(cols)) /\ Data(cols).cols = cols
<1>1. Data(cols) \in Lines
  BY DEF Data, Line, Lines
<1> QED
  BY <1>1 DEF Data, Line, Plain, PlainData

\* The networks or commanders that gasgen draws.
LEMMA PairLinesTyped ==
    ASSUME LoadInv, file \in Templates, NEW s \in {"gennetwork", "gennetcommander"}
    PROVE  /\ Param(s, 5) \in Nat
           /\ \A lines \in PairLines(s) : lines \in Seq(Plain(2)) /\ Len(lines) = Param(s, 5)
           /\ FeasibleParameters => PairLines(s) # {}
<1>1. s \in GeneratorSections /\ Columns(s) = 5
  BY DEF GeneratorSections, Columns
<1>2. PICK n \in Nat : n = Param(s, 5)
  BY <1>1, ParametersTyped
<1> DEFINE D == Draw(Param(s, 1), Param(s, 2)) \X Draw(Param(s, 3), Param(s, 4))
           L == {Data(v) : v \in D}
<1>3. PairLines(s) = [1..n -> L]
  BY <1>2 DEF PairLines
<1>4. L \subseteq Plain(2)
  <2>1. ASSUME NEW v \in D PROVE Data(v) \in Plain(2)
    <3>1. PICK a \in Int, b \in Int : v = <<a, b>>
      BY DEF Draw
    <3>2. v \in Seq(Int) /\ Len(v) = 2
      BY <3>1
    <3> QED
      BY <3>2, PlainLine
  <2> HIDE DEF D
  <2> QED
    BY <2>1
<1>5. FeasibleParameters => D # {}
  <2> SUFFICES ASSUME FeasibleParameters PROVE D # {}
    OBVIOUS
  <2>1. Param(s, 1) <= Param(s, 2) /\ Param(s, 3) <= Param(s, 4)
    BY DEF FeasibleParameters
  <2>2. \A k \in 1..4 : Param(s, k) \in Int
    BY <1>1, ParametersTyped
  <2>3. <<Param(s, 1), Param(s, 3)>> \in D
    BY <2>1, <2>2 DEF Draw
  <2> QED
    BY <2>3
<1> HIDE DEF D
<1>8. FeasibleParameters => L # {}
  BY <1>5
<1> HIDE DEF L
<1>6. ASSUME NEW lines \in [1..n -> L] PROVE lines \in Seq(Plain(2)) /\ Len(lines) = n
  <2>1. lines \in [1..n -> Plain(2)]
    BY <1>4
  <2> QED
    BY <2>1, IsASeq, LenProperties
<1>7. ASSUME NEW x \in L PROVE [1..n -> L] # {}
  <2>1. [i \in 1..n |-> x] \in [1..n -> L]
    OBVIOUS
  <2> QED
    BY <2>1
<1> QED
  BY <1>2, <1>3, <1>6, <1>7, <1>8

\* What is spread is a number.
LEMMA SpreadTyped ==
    ASSUME NEW x, NEW y \in Spread(x)
    PROVE  y \in Int
  BY DEF Spread

\* do_gen_task prints a line of eight columns, and when that is feasible one that
\* gastask accepts.
LEMMA DrawnTask ==
    ASSUME LoadInv, NEW w \in Draw(Param("gentask", 1), Param("gentask", 2)),
           NEW d \in Durations(w, Param("gentask", 4), NTasksTarget),
           NEW m \in Int, NEW size \in Int, NEW input \in Int, NEW output \in Int,
           NEW l, l = Data(<<w, d, m, 10, size, input, output, 0>>)
    PROVE  /\ l \in Plain(8) /\ l \in PlainData
           /\ FeasibleParameters => l.cols[1] < l.cols[2]
<1>1. w \in Int
  BY DEF Draw
<1>2. d \in Int
  BY SpreadTyped DEF Durations
<1> DEFINE cols == <<w, d, m, 10, size, input, output, 0>>
<1>3. cols \in Seq(Int) /\ Len(cols) = 8 /\ cols[1] = w /\ cols[2] = d
  BY <1>1, <1>2
<1> HIDE DEF cols
<1>4. l = Data(cols)
  BY DEF cols
<1>5. l \in Plain(8) /\ l \in PlainData /\ l.cols = cols
  BY <1>3, <1>4, PlainLine
<1>6. ASSUME FeasibleParameters PROVE w < d
  <2>1. "gentask" \in GeneratorSections /\ Columns("gentask") = 12
    BY DEF GeneratorSections, Columns
  <2>2. Param("gentask", 1) \in Int /\ Param("gentask", 4) \in Int /\ NTasksTarget \in Int
    BY <2>1, ParametersTyped DEF NTasksTarget
  <2>3. w >= 1 /\ Param("gentask", 4) > 0 /\ 3 * Param("gentask", 4) <= 100 * NTasksTarget
    BY <1>1, <1>6, <2>2, SMTT(20) DEF FeasibleParameters, Draw
  <2> QED
    BY <1>1, <2>2, <2>3, DurationAboveWcet
<1> QED
  BY <1>3, <1>5, <1>6

\* No division by zero when the parameters are feasible.
LEMMA DrawsDefined ==
    ASSUME LoadInv, FeasibleParameters
    PROVE  /\ \A w \in Draw(Param("gentask", 1), Param("gentask", 2)) :
                 \A d \in Truncations(w * 100 * NTasksTarget, Param("gentask", 4)) : Spread(d) # {}
           /\ \A m \in MemreqsPerTask : Spread(m) # {}
           /\ \A k \in {1, 7, 9, 11} : Draw(Param("gentask", k), Param("gentask", k + 1)) # {}
           /\ NTasksTarget <= MAX_BOOL /\ NTasksTarget <= MAX_ROWS
<1>1. "gentask" \in GeneratorSections /\ Columns("gentask") = 12
  BY DEF GeneratorSections, Columns
<1>2. \A k \in 1..12 : Param("gentask", k) \in Int
  BY <1>1, ParametersTyped
<1>3. NTasksTarget \in Int
  BY <1>2 DEF NTasksTarget
<1>4. ASSUME NEW w \in Draw(Param("gentask", 1), Param("gentask", 2)),
             NEW d \in Truncations(w * 100 * NTasksTarget, Param("gentask", 4))
      PROVE  Spread(d) # {}
  <2>1. w \in Int /\ w >= 1
    <3>1. Param("gentask", 1) \in Int /\ Param("gentask", 1) >= 1
      BY <1>2 DEF FeasibleParameters
    <3> QED
      BY <3>1 DEF Draw
  <2>2. Param("gentask", 4) \in Int /\ Param("gentask", 4) > 0 /\ 3 * Param("gentask", 4) <= 100 * NTasksTarget
    BY <1>2 DEF FeasibleParameters
  <2> QED
    BY <1>3, <2>1, <2>2, DurationAboveWcet
<1>5. ASSUME NEW m \in MemreqsPerTask PROVE Spread(m) # {}
  <2>1. m \in Nat \ {0, 1}
    BY DEF FeasibleParameters
  <2> QED
    BY <2>1, SpreadDefined
<1>6. ASSUME NEW k \in {1, 7, 9, 11} PROVE Draw(Param("gentask", k), Param("gentask", k + 1)) # {}
  <2>1. Param("gentask", k) \in Int /\ Param("gentask", k + 1) \in Int
    BY <1>2
  <2>2. Param("gentask", k) <= Param("gentask", k + 1)
    BY DEF FeasibleParameters
  <2> QED
    BY <2>1, <2>2 DEF Draw
<1>7. NTasksTarget <= MAX_BOOL /\ NTasksTarget <= MAX_ROWS
  <2>1. MAX_BOOL \in Nat /\ MAX_ROWS \in Nat
    BY AllocationAssumption, TableAssumption
  <2>2. NTasksTarget <= Min({MAX_BOOL, MAX_ROWS})
    BY <2>1, MinOfTwo DEF FeasibleParameters
  <2> QED
    BY <1>3, <2>1, <2>2, MinOfTwo
<1> QED
  BY <1>4, <1>5, <1>6, <1>7

\* A file that a crash leaves behind.
LEMMA FlushedTyped ==
    ASSUME NEW lines \in Seq(Plain(8)), NEW x \in Flushed(lines)
    PROVE  x \in Seq(PlainData)
<1>1. lines \in Seq(PlainData) /\ Len(lines) \in Nat
  <2>1. Plain(8) \subseteq PlainData
    BY DEF Plain
  <2> QED
    BY <2>1
<1>2. \A n \in 0..Len(lines) : SubSeq(lines, 1, n) \in Seq(PlainData)
  BY <1>1
<1>3. CASE \E n \in 0..Len(lines) : x = SubSeq(lines, 1, n)
  BY <1>2, <1>3
<1>4. CASE \E n \in 0..(Len(lines) - 1) : x = Append(SubSeq(lines, 1, n), Data(SubSeq(lines[n + 1].cols, 1, 3)))
  <2>1. PICK n \in 0..(Len(lines) - 1) : x = Append(SubSeq(lines, 1, n), Data(SubSeq(lines[n + 1].cols, 1, 3)))
    BY <1>4
  <2>2. n \in 0..Len(lines) /\ n + 1 \in 1..Len(lines)
    BY <1>1
  <2>3. PICK l \in Plain(8) : l = lines[n + 1]
    BY <2>2, ElementOfSeq
  <2>4. l.cols \in Seq(Int) /\ Len(l.cols) = 8
    BY DEF Plain, PlainData, Lines
  <2>5. SubSeq(l.cols, 1, 3) \in Seq(Int)
    BY <2>4
  <2>6. Data(SubSeq(l.cols, 1, 3)) \in PlainData
    BY <2>5, PlainLine
  <2>7. SubSeq(lines, 1, n) \in Seq(PlainData)
    BY <1>2, <2>2
  <2> QED
    BY <2>1, <2>3, <2>6, <2>7, AppendIndexed
<1> QED
  BY <1>3, <1>4 DEF Flushed

\* gasgen goes on after it has loaded the configuration, and may end.
LEMMA GasgenGoesOn ==
    ASSUME LoadInv, prog = "gasgen", status["gasgen"] = "loaded",
           UNCHANGED <<file, prog, pos, sect, loaded>>,
           status' = status \/ Ends("crashed") \/ Ends("done")
    PROVE  /\ LoadInv' /\ status'["gastask"] = status["gastask"]
           /\ \A how \in {"crashed", "done"} : Ends(how) => status'["gasgen"] = how
           /\ \A s \in Sections : \A k : Param(s, k)' = Param(s, k)
           /\ NTasksTarget' = NTasksTarget /\ Scales' = Scales
           /\ FeasibleParameters' <=> FeasibleParameters
<1>1. LoadTypeOK /\ SectOK /\ Progress /\ EndOK
  BY DEF LoadInv
<1>2. LoadTypeOK'
  BY <1>1 DEF LoadTypeOK, Statuses, Ends
<1>3. SectOK' /\ Progress'
  BY <1>1 DEF SectOK, Progress, Kept
<1>4. /\ status'["gastask"] = status["gastask"] /\ status'["gasgen"] \in {"loaded", "crashed", "done"}
      /\ \A how \in {"crashed", "done"} : Ends(how) => status'["gasgen"] = how
  BY <1>1 DEF LoadTypeOK, Ends, Programs
<1>5. pos = Len(file) + 1
  BY <1>1 DEF EndOK
<1>6. EndOK'
  BY <1>4, <1>5 DEF EndOK
<1>7. /\ \A s \in Sections : \A k : Param(s, k)' = Param(s, k)
      /\ NTasksTarget' = NTasksTarget /\ Scales' = Scales
      /\ FeasibleParameters' <=> FeasibleParameters
  BY ParametersStable
<1> QED
  BY <1>2, <1>3, <1>4, <1>6, <1>7 DEF LoadInv

\* Two sequences, one behind the other, of lengths l and r - l.
LEMMA ConcatParts ==
    ASSUME NEW S, NEW q1 \in Seq(S), NEW q2 \in Seq(S),
           NEW l \in Nat, l = Len(q1), NEW r \in Nat, r = l + Len(q2)
    PROVE  /\ q1 \o q2 \in Seq(S) /\ Len(q1 \o q2) = r
           /\ \A k \in 1..l : (q1 \o q2)[k] = q1[k]
           /\ \A k \in (l + 1)..r : (q1 \o q2)[k] = q2[k - l]
<1>1. /\ q1 \o q2 \in Seq(S) /\ Len(q1 \o q2) = r
      /\ \A k \in 1..r : (q1 \o q2)[k] = IF k <= l THEN q1[k] ELSE q2[k - l]
  BY ConcatProperties
<1>2. Len(q2) \in Nat /\ l <= r
  OBVIOUS
<1> QED
  BY <1>1, <1>2

\* The parts of the configuration that the script makes of a template.
LEMMA WholeLayout ==
    ASSUME TextsOK, NEW t \in Seq(Lines)
    PROVE  LET n == Len(t)
               a == n + Len(network_txt)
               c == a + 3 + Len(commander_txt)
               e == c + 3 + Len(task_txt)
               g == Whole(t)
           IN  /\ n \in Nat /\ a \in Nat /\ c \in Nat /\ e \in Nat /\ n <= a /\ a + 3 <= c /\ c + 3 <= e
               /\ g \in Seq(Lines) /\ Len(g) = e
               /\ \A k \in 1..n : g[k] = t[k]
               /\ \A k \in (n + 1)..a : g[k] = network_txt[k - n]
               /\ g[a + 1] = Blank /\ g[a + 2] = Comment /\ g[a + 3] = Header("netcommander")
               /\ \A k \in (a + 4)..c : g[k] = commander_txt[k - (a + 3)]
               /\ g[c + 1] = Blank /\ g[c + 2] = Comment /\ g[c + 3] = Header("task")
               /\ \A k \in (c + 4)..e : g[k] = task_txt[k - (c + 3)]
<1>1. network_txt \in Seq(Lines) /\ commander_txt \in Seq(Lines) /\ task_txt \in Seq(Lines)
  <2>1. PlainData \subseteq Lines
    BY DEF PlainData
  <2> QED
    BY <2>1 DEF TextsOK
<1>2. Blank \in Lines /\ Comment \in Lines /\ Header("netcommander") \in Lines /\ Header("task") \in Lines
  <2>2. <<>> \in Seq(Int)
    OBVIOUS
  <2>3. "netcommander" \in Sections /\ "task" \in Sections
    BY DEF Sections, SchedulerSections
  <2>4. Blank \in Lines /\ Comment \in Lines
    BY <2>2 DEF Blank, Comment, Line, Lines
  <2>5. Header("netcommander") \in Lines /\ Header("task") \in Lines
    BY <2>2, <2>3 DEF Header, Line, Lines
  <2> QED
    BY <2>4, <2>5
<1> DEFINE m1 == <<Blank, Comment, Header("netcommander")>>
           m2 == <<Blank, Comment, Header("task")>>
<1>3. /\ m1 \in Seq(Lines) /\ Len(m1) = 3
      /\ m1[1] = Blank /\ m1[2] = Comment /\ m1[3] = Header("netcommander")
  BY <1>2
<1>4. /\ m2 \in Seq(Lines) /\ Len(m2) = 3
      /\ m2[1] = Blank /\ m2[2] = Comment /\ m2[3] = Header("task")
  BY <1>2
<1> HIDE DEF m1, m2
<1> DEFINE n == Len(t)
           N == Len(network_txt)
           C == Len(commander_txt)
           K == Len(task_txt)
           x1 == t \o network_txt
           x2 == x1 \o m1
           x3 == x2 \o commander_txt
           x4 == x3 \o m2
           x5 == x4 \o task_txt
<1>5. n \in Nat /\ N \in Nat /\ C \in Nat /\ K \in Nat
  BY <1>1
<1>12. PICK a \in Nat : a = n + N
  BY <1>5
<1>13. PICK b \in Nat : b = a + 3
  OBVIOUS
<1>14. PICK c \in Nat : c = b + C
  BY <1>5
<1>15. PICK d \in Nat : d = c + 3
  OBVIOUS
<1>16. PICK e \in Nat : e = d + K
  BY <1>5
<1>17. n <= a /\ a <= b /\ b <= c /\ c <= d /\ d <= e
  BY <1>5, <1>12, <1>13, <1>14, <1>15, <1>16
<1>6. /\ x1 \in Seq(Lines) /\ Len(x1) = a
      /\ \A k \in 1..n : x1[k] = t[k]
      /\ \A k \in (n + 1)..a : x1[k] = network_txt[k - n]
  BY <1>1, <1>5, <1>12, ConcatParts
<1> HIDE DEF x1
<1>7. /\ x2 \in Seq(Lines) /\ Len(x2) = b
      /\ \A k \in 1..a : x2[k] = x1[k]
      /\ \A k \in (a + 1)..b : x2[k] = m1[k - a]
  <2>1. b = a + Len(m1) /\ m1 \in Seq(Lines)
    BY <1>3, <1>13
  <2>2. a = Len(x1) /\ x1 \in Seq(Lines)
    BY <1>6
  <2> QED
    BY <2>1, <2>2, ConcatParts
<1> HIDE DEF x2
<1>8. /\ x3 \in Seq(Lines) /\ Len(x3) = c
      /\ \A k \in 1..b : x3[k] = x2[k]
      /\ \A k \in (b + 1)..c : x3[k] = commander_txt[k - b]
  BY <1>1, <1>5, <1>7, <1>14, ConcatParts
<1> HIDE DEF x3
<1>9. /\ x4 \in Seq(Lines) /\ Len(x4) = d
      /\ \A k \in 1..c : x4[k] = x3[k]
      /\ \A k \in (c + 1)..d : x4[k] = m2[k - c]
  <2>1. d = c + Len(m2) /\ m2 \in Seq(Lines)
    BY <1>4, <1>15
  <2>2. c = Len(x3) /\ x3 \in Seq(Lines)
    BY <1>8
  <2> QED
    BY <2>1, <2>2, ConcatParts
<1> HIDE DEF x4
<1>10. /\ x5 \in Seq(Lines) /\ Len(x5) = e
       /\ \A k \in 1..d : x5[k] = x4[k]
       /\ \A k \in (d + 1)..e : x5[k] = task_txt[k - d]
  BY <1>1, <1>5, <1>9, <1>16, ConcatParts
<1>11. Whole(t) = x5
  BY DEF Whole, x1, x2, x3, x4, m1, m2
<1> HIDE DEF x5, n, N, C, K
<1>21. \A k \in 1..c : x5[k] = x3[k]
  BY <1>9, <1>10, <1>17
<1>22. \A k \in 1..a : x5[k] = x1[k]
  BY <1>7, <1>8, <1>17, <1>21
<1>23. \A k \in 1..n : x5[k] = t[k]
  BY <1>5, <1>6, <1>17, <1>22
<1>24. \A k \in (n + 1)..a : x5[k] = network_txt[k - n]
  BY <1>5, <1>6, <1>17, <1>22
<1>18. x5[a + 1] = m1[1] /\ x5[a + 2] = m1[2] /\ x5[a + 3] = m1[3]
  <2>1. \A k \in (a + 1)..(a + 3) : x5[k] = m1[k - a]
    BY <1>7, <1>8, <1>13, <1>17, <1>21
  <2>2. a + 1 \in (a + 1)..(a + 3) /\ a + 2 \in (a + 1)..(a + 3) /\ a + 3 \in (a + 1)..(a + 3)
    OBVIOUS
  <2>3. (a + 1) - a = 1 /\ (a + 2) - a = 2 /\ (a + 3) - a = 3
    OBVIOUS
  <2> QED
    BY <2>1, <2>2, <2>3
<1>19. \A k \in (a + 4)..c : x5[k] = commander_txt[k - (a + 3)]
  BY <1>8, <1>13, <1>17, <1>21, SMTT(20)
<1>20. x5[c + 1] = m2[1] /\ x5[c + 2] = m2[2] /\ x5[c + 3] = m2[3]
  <2>1. \A k \in (c + 1)..(c + 3) : x5[k] = m2[k - c]
    BY <1>9, <1>10, <1>15, <1>17
  <2>2. c + 1 \in (c + 1)..(c + 3) /\ c + 2 \in (c + 1)..(c + 3) /\ c + 3 \in (c + 1)..(c + 3)
    OBVIOUS
  <2>3. (c + 1) - c = 1 /\ (c + 2) - c = 2 /\ (c + 3) - c = 3
    OBVIOUS
  <2> QED
    BY <2>1, <2>2, <2>3
<1>25. \A k \in (c + 4)..e : x5[k] = task_txt[k - (c + 3)]
  BY <1>10, <1>15
<1>26. c = a + 3 + C /\ e = c + 3 + K /\ a + 3 <= c /\ c + 3 <= e
  BY <1>5, <1>13, <1>14, <1>15, <1>16
<1> QED
  BY <1>3, <1>4, <1>5, <1>10, <1>11, <1>12, <1>17, <1>18, <1>19, <1>20, <1>23, <1>24, <1>25, <1>26 DEF n, N, C, K

\* A file is prefix of the configuration that the script makes of it.
LEMMA WholeExtends ==
    ASSUME TextsOK, NEW t \in Seq(Lines)
    PROVE  /\ Whole(t) \in Seq(Lines) /\ Len(t) \in Nat /\ Len(Whole(t)) \in Nat /\ Len(t) <= Len(Whole(t))
           /\ \A k \in 1..Len(t) : Whole(t)[k] = t[k]
<1> DEFINE a == Len(t) + Len(network_txt)
           c == a + 3 + Len(commander_txt)
           e == c + 3 + Len(task_txt)
<1>1. /\ Len(t) \in Nat /\ a \in Nat /\ c \in Nat /\ e \in Nat /\ Len(t) <= a /\ a + 3 <= c /\ c + 3 <= e
      /\ Whole(t) \in Seq(Lines) /\ Len(Whole(t)) = e /\ \A k \in 1..Len(t) : Whole(t)[k] = t[k]
  BY WholeLayout
<1> HIDE DEF a, c, e
<1> QED
  BY <1>1

\* The invariant holds at the start.
LEMMA PipelineInvInit ==
    ASSUME Init
    PROVE  PipelineInv
<1>1. /\ prog \in Programs /\ pos = 1 /\ sect = "none"
      /\ status = [p \in Programs |-> IF p = prog THEN "loading" ELSE "waiting"]
      /\ loaded = NothingLoaded
      /\ \/ /\ file \in Files /\ stage = "alone"
            /\ task_txt = <<>> /\ network_txt = <<>> /\ commander_txt = <<>>
         \/ /\ file \in Templates /\ stage = "script" /\ prog = "gasgen"
            /\ \E x \in Leftovers : task_txt = x[1] /\ network_txt = x[2] /\ commander_txt = x[3]
  BY DEF Init
<1>2. file \in Seq(Lines) /\ Len(file) \in Nat
  BY <1>1, FilesAssumption
<1>3. loaded \in [Programs -> [Sections -> Seq(Nat)]] /\ \A p \in Programs, s \in Sections : loaded[p][s] = <<>>
  BY <1>1 DEF NothingLoaded
<1>4. LoadTypeOK
  BY <1>1, <1>2, <1>3 DEF LoadTypeOK, Statuses
<1>5. SectOK
  <2>1. Governor(file, 1) = "none" /\ "none" \notin Parses(prog)
    BY <1>1, GovernorFirst, SectionNames
  <2> QED
    BY <1>1, <2>1 DEF SectOK
<1>6. ASSUME NEW p \in Programs PROVE Faultless(file, p, 1) /\ Kept(p, 1)
  BY <1>3, RowsFirst DEF Faultless, Kept
<1>7. Progress
  <2>1. 1 \in 1..(Len(file) + 1)
    BY <1>2
  <2> QED
    BY <1>1, <1>6, <2>1 DEF Progress
<1>8. status[prog] = "loading" /\ status["gasgen"] \in {"loading", "waiting"}
  BY <1>1 DEF Programs
<1>9. EndOK
  BY <1>8 DEF EndOK
<1>10. TextsOK
  <2>1. <<>> \in Seq(PlainData)
    OBVIOUS
  <2>2. \A x \in Leftovers : x[1] \in Seq(PlainData) /\ x[2] \in Seq(PlainData) /\ x[3] \in Seq(PlainData)
    BY LeftoversAssumption
  <2>3. task_txt \in Seq(PlainData) /\ network_txt \in Seq(PlainData) /\ commander_txt \in Seq(PlainData)
    BY <1>1, <2>1, <2>2
  <2> QED
    BY <1>1, <1>8, <2>3 DEF TextsOK, Done
<1>11. StageOK
  <2>1. "gastask" \in Programs
    BY DEF Programs
  <2> QED
    BY <1>1, <1>3, <1>8, <2>1 DEF StageOK
<1>12. LengthsOK
  BY <1>1, <1>8 DEF LengthsOK, Done
<1> QED
  BY <1>4, <1>5, <1>7, <1>9, <1>10, <1>11, <1>12 DEF PipelineInv, LoadInv

\* A program loads a line.
LEMMA LoadPreserves ==
    ASSUME PipelineInv, Load
    PROVE  PipelineInv'
<1>1. LoadInv /\ TextsOK /\ StageOK /\ LengthsOK /\ LoadStep /\ UNCHANGED <<stage, generated>>
  BY DEF PipelineInv, Load
<1>2. LoadInv'
  BY <1>1, LoadStepPreserves
<1>3. /\ file' = file /\ prog' = prog /\ status[prog] = "loading"
      /\ \A p \in Programs : p # prog => loaded'[p] = loaded[p] /\ status'[p] = status[p]
      /\ status'[prog] \in {"loading", "loaded", "fatal", "overrun"}
  BY <1>1, LoadStepFrame
<1>4. /\ stage' = stage /\ network_txt' = network_txt /\ commander_txt' = commander_txt /\ task_txt' = task_txt
  BY <1>1 DEF generated
<1>5. "gasgen" \in Programs /\ "gastask" \in Programs /\ prog \in Programs
  BY <1>1 DEF Programs, LoadInv, LoadTypeOK
<1>6. CASE stage \in {"alone", "script"}
  <2>1. status["gasgen"] \notin {"crashed", "done"}
    BY <1>1, <1>6 DEF StageOK
  <2>2. status'["gasgen"] \notin {"crashed", "done"}
    BY <1>3, <1>5, <2>1
  <2>3. TextsOK'
    BY <1>1, <1>4, <1>6, <2>2 DEF TextsOK, Done
  <2>4. LengthsOK'
    BY <1>4, <1>6, <2>2 DEF LengthsOK, Done
  <2>5. StageOK'
    BY <1>1, <1>3, <1>4, <1>5, <1>6, <2>2 DEF StageOK
  <2> QED
    BY <1>2, <2>3, <2>4, <2>5 DEF PipelineInv
<1>7. CASE stage = "gastask"
  <2>1. prog = "gastask" /\ status["gastask"] \notin {"crashed", "done"}
    BY <1>1, <1>7 DEF StageOK
  <2>2. loaded'["gasgen"] = loaded["gasgen"] /\ status'["gasgen"] = status["gasgen"]
    BY <1>3, <1>5, <2>1
  <2>3. /\ \A s \in Sections : \A k : Param(s, k)' = Param(s, k)
        /\ NTasksTarget' = NTasksTarget
        /\ FeasibleParameters' <=> FeasibleParameters
    BY <1>1, <1>3, <2>2, ParametersStable
  <2>4. "gennetwork" \in Sections /\ "gennetcommander" \in Sections
    BY DEF Sections, GeneratorSections
  <2>5. TextsOK'
    BY <1>1, <1>4, <2>2, <2>3 DEF TextsOK, Done
  <2>6. LengthsOK'
    BY <1>1, <1>4, <2>2, <2>3, <2>4 DEF LengthsOK, Done
  <2>7. StageOK'
    <3>1. \A t : Whole(t)' = Whole(t)
      BY <1>4 DEF Whole
    <3> QED
      BY <1>1, <1>3, <1>4, <1>7, <2>1, <2>2, <2>3, <3>1 DEF StageOK
  <2> QED
    BY <1>2, <2>5, <2>6, <2>7 DEF PipelineInv
<1>8. stage \in {"alone", "script", "gastask"}
  <2>1. stage \notin {"alone", "gastask"} => prog = "gasgen"
    BY <1>1 DEF StageOK
  <2> QED
    BY <1>1, <1>3, <2>1 DEF StageOK
<1> QED
  BY <1>6, <1>7, <1>8

\* gen_task starts, or a flag is written past the array.
LEMMA GenOffloadingBoolPreserves ==
    ASSUME PipelineInv, GenOffloadingBool
    PROVE  PipelineInv'
<1>1. LoadInv /\ TextsOK /\ StageOK /\ LengthsOK
  BY DEF PipelineInv
<1>2. /\ stage = "script" /\ status["gasgen"] = "loaded" /\ UNCHANGED <<file, prog, pos, sect, loaded>>
      /\ \/ stage' = "gen_task" /\ status' = status
         \/ NTasksTarget > MAX_BOOL /\ Ends("crashed") /\ stage' = "append"
      /\ network_txt' = network_txt /\ commander_txt' = commander_txt /\ task_txt' = <<>>
  BY DEF GenOffloadingBool
<1>3. /\ prog = "gasgen" /\ file \in Templates /\ \A s \in Sections : loaded["gastask"][s] = <<>>
  BY <1>1, <1>2 DEF StageOK
<1>4. /\ LoadInv'
      /\ Ends("crashed") => status'["gasgen"] = "crashed"
      /\ FeasibleParameters' <=> FeasibleParameters
  BY <1>1, <1>2, <1>3, GasgenGoesOn
<1>5. status'["gasgen"] \in {"loaded", "crashed"}
  BY <1>2, <1>4
<1>6. TextsOK'
  <2>1. task_txt' \in Seq(Plain(8)) /\ task_txt' \in Seq(PlainData) /\ Len(task_txt') = 0
    BY <1>2
  <2> QED
    BY <1>1, <1>2, <1>5, <2>1 DEF TextsOK, Done
<1>7. LengthsOK'
  BY <1>2, <1>5 DEF LengthsOK, Done
<1>8. stage' = "append" => ~ FeasibleParameters
  <2>1. FeasibleParameters => NTasksTarget <= MAX_BOOL /\ NTasksTarget \in Int
    BY <1>1, DrawsDefined DEF FeasibleParameters
  <2> QED
    BY <1>2, <2>1, AllocationAssumption
<1>9. StageOK'
  BY <1>2, <1>3, <1>4, <1>5, <1>8 DEF StageOK
<1> QED
  BY <1>4, <1>6, <1>7, <1>9 DEF PipelineInv

\* do_gen_task prints one more line.
LEMMA DoGenTaskPreserves ==
    ASSUME PipelineInv, DoGenTask
    PROVE  PipelineInv'
<1>1. LoadInv /\ TextsOK /\ StageOK /\ LengthsOK
  BY DEF PipelineInv
<1>2. /\ stage = "gen_task" /\ UNCHANGED <<file, prog, pos, sect, loaded, stage, network_txt, commander_txt>>
      /\ status' = status
  BY DEF DoGenTask, loader
<1>3. /\ prog = "gasgen" /\ file \in Templates /\ \A s \in Sections : loaded["gastask"][s] = <<>>
      /\ status["gasgen"] = "loaded"
  BY <1>1, <1>2 DEF StageOK
<1>4. LoadInv' /\ (FeasibleParameters' <=> FeasibleParameters)
  BY <1>1, <1>2, <1>3, GasgenGoesOn
<1>5. PICK l \in Plain(8) : /\ task_txt' = Append(task_txt, l) /\ l \in PlainData
                            /\ FeasibleParameters => l.cols[1] < l.cols[2]
  <2> DEFINE M == UNION {Spread(x) : x \in MemreqsPerTask}
  <2>1. PICK w \in Draw(Param("gentask", 1), Param("gentask", 2)),
             m \in Sampled(M),
             size \in Draw(Param("gentask", 7), Param("gentask", 8)),
             input \in Draw(Param("gentask", 9), Param("gentask", 10)),
             output \in Draw(Param("gentask", 11), Param("gentask", 12)) :
               \E d \in Sampled(Durations(w, Param("gentask", 4), NTasksTarget)) :
                  task_txt' = Append(task_txt, Data(<<w, d, m, 10, size, input, output, 0>>))
    BY DEF DoGenTask
  <2>2. PICK d \in Sampled(Durations(w, Param("gentask", 4), NTasksTarget)) :
               task_txt' = Append(task_txt, Data(<<w, d, m, 10, size, input, output, 0>>))
    BY <2>1
  <2>3. d \in Durations(w, Param("gentask", 4), NTasksTarget) /\ m \in M
    BY DEF Sampled
  <2>4. m \in Int
    BY <2>3, SpreadTyped
  <2>5. size \in Int /\ input \in Int /\ output \in Int
    BY DEF Draw
  <2> HIDE DEF M
  <2>6. PICK l : l = Data(<<w, d, m, 10, size, input, output, 0>>)
    OBVIOUS
  <2>7. l \in Plain(8) /\ l \in PlainData /\ (FeasibleParameters => l.cols[1] < l.cols[2])
    BY <1>1, <2>3, <2>4, <2>5, <2>6, DrawnTask
  <2> QED
    BY <2>2, <2>6, <2>7
<1>6. TextsOK'
  <2>1. task_txt \in Seq(Plain(8)) /\ task_txt \in Seq(PlainData)
    BY <1>1, <1>2 DEF TextsOK
  <2>2. /\ task_txt' \in Seq(Plain(8)) /\ Len(task_txt) \in Nat /\ Len(task_txt') = Len(task_txt) + 1
        /\ \A j \in 1..Len(task_txt) : task_txt'[j] = task_txt[j]
        /\ task_txt'[Len(task_txt) + 1] = l
    BY <1>5, <2>1, AppendIndexed
  <2>3. task_txt' \in Seq(PlainData)
    BY <1>5, <2>1, AppendIndexed
  <2>4. ASSUME FeasibleParameters, NEW i \in 1..Len(task_txt')
        PROVE  task_txt'[i] \in Plain(8) /\ task_txt'[i].cols[1] < task_txt'[i].cols[2]
    <3>1. CASE i \in 1..Len(task_txt)
      <4>1. task_txt[i] \in Plain(8) /\ task_txt[i].cols[1] < task_txt[i].cols[2]
        BY <1>1, <1>2, <2>4, <3>1 DEF TextsOK
      <4> QED
        BY <2>2, <3>1, <4>1
    <3>2. CASE i = Len(task_txt) + 1
      BY <1>5, <2>2, <2>4, <3>2
    <3> QED
      BY <2>2, <3>1, <3>2
  <2> QED
    BY <1>1, <1>2, <1>3, <1>4, <2>2, <2>3, <2>4 DEF TextsOK, Done
<1>7. LengthsOK'
  BY <1>1, <1>2, <1>3 DEF LengthsOK, Done
<1>8. StageOK'
  BY <1>2, <1>3 DEF StageOK
<1> QED
  BY <1>4, <1>6, <1>7, <1>8 DEF PipelineInv

\* A draw of do_gen_task divides by zero.
LEMMA TaskCrashPreserves ==
    ASSUME PipelineInv, TaskCrash
    PROVE  PipelineInv'
<1>1. LoadInv /\ TextsOK /\ StageOK /\ LengthsOK
  BY DEF PipelineInv
<1>2. /\ stage = "gen_task" /\ stage' = "append" /\ Ends("crashed") /\ task_txt' \in Flushed(task_txt)
      /\ UNCHANGED <<file, prog, pos, sect, loaded, network_txt, commander_txt>>
  BY DEF TaskCrash
<1>3. /\ prog = "gasgen" /\ file \in Templates /\ \A s \in Sections : loaded["gastask"][s] = <<>>
      /\ status["gasgen"] = "loaded"
  BY <1>1, <1>2 DEF StageOK
<1>4. /\ LoadInv' /\ status'["gasgen"] = "crashed"
      /\ FeasibleParameters' <=> FeasibleParameters
  BY <1>1, <1>2, <1>3, GasgenGoesOn
<1>5. ~ FeasibleParameters
  <2> SUFFICES ASSUME FeasibleParameters PROVE FALSE
    OBVIOUS
  <2>1. /\ \A w \in Draw(Param("gentask", 1), Param("gentask", 2)) :
              \A d \in Truncations(w * 100 * NTasksTarget, Param("gentask", 4)) : Spread(d) # {}
        /\ \A m \in MemreqsPerTask : Spread(m) # {}
        /\ \A k \in {1, 7, 9, 11} : Draw(Param("gentask", k), Param("gentask", k + 1)) # {}
    BY <1>1, DrawsDefined
  <2> QED
    BY <2>1, Zenon DEF TaskCrash
<1>6. TextsOK'
  <2>1. task_txt' \in Seq(PlainData)
    BY <1>1, <1>2, FlushedTyped DEF TextsOK
  <2> QED
    BY <1>1, <1>2, <1>4, <2>1 DEF TextsOK, Done
<1>7. LengthsOK'
  BY <1>1, <1>2, <1>3, <1>4 DEF LengthsOK, Done
<1>8. StageOK'
  BY <1>2, <1>3, <1>4, <1>5 DEF StageOK
<1> QED
  BY <1>4, <1>6, <1>7, <1>8 DEF PipelineInv

\* The summary of gen_task.
LEMMA GenTaskReturnsPreserves ==
    ASSUME PipelineInv, GenTaskReturns
    PROVE  PipelineInv'
<1>1. LoadInv /\ TextsOK /\ StageOK /\ LengthsOK
  BY DEF PipelineInv
<1>2. /\ stage = "gen_task" /\ Len(task_txt) = NTasksTarget /\ UNCHANGED <<file, prog, pos, sect, loaded>>
      /\ \/ Scales = <<>> /\ Ends("crashed") /\ stage' = "append"
         \/ stage' = "gen_network" /\ status' = status
      /\ network_txt' = network_txt /\ commander_txt' = commander_txt /\ task_txt' = task_txt
  BY DEF GenTaskReturns, generated
<1>3. /\ prog = "gasgen" /\ file \in Templates /\ \A s \in Sections : loaded["gastask"][s] = <<>>
      /\ status["gasgen"] = "loaded"
  BY <1>1, <1>2 DEF StageOK
<1>4. /\ LoadInv' /\ NTasksTarget' = NTasksTarget
      /\ Ends("crashed") => status'["gasgen"] = "crashed"
      /\ FeasibleParameters' <=> FeasibleParameters
  BY <1>1, <1>2, <1>3, GasgenGoesOn
<1>5. status'["gasgen"] \in {"loaded", "crashed"}
  BY <1>2, <1>3, <1>4
<1>6. TextsOK'
  BY <1>1, <1>2, <1>4, <1>5 DEF TextsOK, Done
<1>7. LengthsOK'
  BY <1>1, <1>2, <1>3, <1>4, <1>5 DEF LengthsOK, Done
<1>8. stage' = "append" => ~ FeasibleParameters
  BY <1>2 DEF FeasibleParameters
<1>9. StageOK'
  BY <1>2, <1>3, <1>4, <1>5, <1>8 DEF StageOK
<1> QED
  BY <1>4, <1>6, <1>7, <1>9 DEF PipelineInv

\* gen_network rewrites its file, or loses it.
LEMMA GenNetworkPreserves ==
    ASSUME PipelineInv, GenNetwork
    PROVE  PipelineInv'
<1>1. LoadInv /\ TextsOK /\ StageOK /\ LengthsOK
  BY DEF PipelineInv
<1>2. /\ stage = "gen_network" /\ UNCHANGED <<file, prog, pos, sect, loaded>>
      /\ \/ /\ PairLines("gennetwork") = {} /\ Ends("crashed") /\ stage' = "append" /\ network_txt' = <<>>
         \/ /\ stage' = "gen_commander" /\ status' = status /\ network_txt' \in PairLines("gennetwork")
      /\ commander_txt' = commander_txt /\ task_txt' = task_txt
  BY DEF GenNetwork, GenPairs
<1>3. /\ prog = "gasgen" /\ file \in Templates /\ \A s \in Sections : loaded["gastask"][s] = <<>>
      /\ status["gasgen"] = "loaded"
  BY <1>1, <1>2 DEF StageOK
<1>4. /\ LoadInv' /\ NTasksTarget' = NTasksTarget
      /\ Ends("crashed") => status'["gasgen"] = "crashed"
      /\ \A s \in Sections : \A k : Param(s, k)' = Param(s, k)
      /\ FeasibleParameters' <=> FeasibleParameters
  BY <1>1, <1>2, <1>3, GasgenGoesOn
<1>5. /\ \A lines \in PairLines("gennetwork") :
            lines \in Seq(Plain(2)) /\ Len(lines) = Param("gennetwork", 5)
      /\ FeasibleParameters => PairLines("gennetwork") # {}
  BY <1>1, <1>3, PairLinesTyped
<1>6. status'["gasgen"] \in {"loaded", "crashed"} /\ "gennetwork" \in Sections
  BY <1>2, <1>3, <1>4 DEF Sections, GeneratorSections
<1>7. TextsOK'
  <2>1. network_txt' \in Seq(Plain(2))
    <3>1. <<>> \in Seq(Plain(2))
      OBVIOUS
    <3> QED
      BY <1>2, <1>5, <3>1
  <2>2. network_txt' \in Seq(PlainData)
    BY <2>1 DEF Plain
  <2> QED
    BY <1>1, <1>2, <1>4, <1>6, <2>1, <2>2 DEF TextsOK, Done
<1>8. LengthsOK'
  <2>1. stage' = "gen_commander" => Len(network_txt') = Param("gennetwork", 5)'
    BY <1>2, <1>4, <1>5, <1>6
  <2> QED
    BY <1>1, <1>2, <1>3, <1>4, <1>6, <2>1 DEF LengthsOK, Done
<1>9. StageOK'
  BY <1>2, <1>3, <1>4, <1>5, <1>6 DEF StageOK
<1> QED
  BY <1>4, <1>7, <1>8, <1>9 DEF PipelineInv

\* gen_net_commander writes its file, and gasgen is done, or crashes.
LEMMA GenNetCommanderPreserves ==
    ASSUME PipelineInv, GenNetCommander
    PROVE  PipelineInv'
<1>1. LoadInv /\ TextsOK /\ StageOK /\ LengthsOK
  BY DEF PipelineInv
<1>2. /\ stage = "gen_commander" /\ UNCHANGED <<file, prog, pos, sect, loaded>> /\ stage' = "append"
      /\ \/ PairLines("gennetcommander") = {} /\ Ends("crashed")
         \/ Ends("done")
      /\ network_txt' = network_txt /\ task_txt' = task_txt
      /\ IF status'["gasgen"] = "crashed" THEN commander_txt' = <<>>
         ELSE commander_txt' \in PairLines("gennetcommander")
  BY DEF GenNetCommander, GenPairs
<1>3. /\ prog = "gasgen" /\ file \in Templates /\ \A s \in Sections : loaded["gastask"][s] = <<>>
      /\ status["gasgen"] = "loaded"
  BY <1>1, <1>2 DEF StageOK
<1>4. /\ LoadInv' /\ NTasksTarget' = NTasksTarget
      /\ \A how \in {"crashed", "done"} : Ends(how) => status'["gasgen"] = how
      /\ \A s \in Sections : \A k : Param(s, k)' = Param(s, k)
      /\ FeasibleParameters' <=> FeasibleParameters
  BY <1>1, <1>2, <1>3, GasgenGoesOn
<1>5. /\ \A lines \in PairLines("gennetcommander") :
            lines \in Seq(Plain(2)) /\ Len(lines) = Param("gennetcommander", 5)
      /\ FeasibleParameters => PairLines("gennetcommander") # {}
  BY <1>1, <1>3, PairLinesTyped
<1>6. /\ \/ status'["gasgen"] = "crashed" /\ PairLines("gennetcommander") = {}
         \/ status'["gasgen"] = "done"
      /\ "gennetwork" \in Sections /\ "gennetcommander" \in Sections
  BY <1>2, <1>4 DEF Sections, GeneratorSections
<1>7. TextsOK'
  <2>1. commander_txt' \in Seq(Plain(2))
    <3>1. <<>> \in Seq(Plain(2))
      OBVIOUS
    <3> QED
      BY <1>2, <1>5, <3>1
  <2>2. commander_txt' \in Seq(PlainData)
    BY <2>1 DEF Plain
  <2> QED
    BY <1>1, <1>2, <1>4, <1>6, <2>1, <2>2 DEF TextsOK, Done
<1>8. LengthsOK'
  <2>1. status'["gasgen"] = "done" => Len(commander_txt') = Param("gennetcommander", 5)'
    BY <1>2, <1>4, <1>5, <1>6
  <2>2. Len(network_txt') = Param("gennetwork", 5)' /\ Len(task_txt') = NTasksTarget'
    BY <1>1, <1>2, <1>4, <1>6 DEF LengthsOK
  <2> QED
    BY <1>2, <1>6, <2>1, <2>2 DEF LengthsOK, Done
<1>9. StageOK'
  BY <1>2, <1>3, <1>4, <1>5, <1>6 DEF StageOK
<1> QED
  BY <1>4, <1>7, <1>8, <1>9 DEF PipelineInv

\* gasgen has not loaded the configuration.
LEMMA GasgenFatalPreserves ==
    ASSUME PipelineInv, GasgenFatal
    PROVE  PipelineInv'
<1>1. LoadInv /\ TextsOK /\ StageOK /\ LengthsOK
  BY DEF PipelineInv
<1>2. /\ stage = "script" /\ status["gasgen"] \in {"fatal", "overrun"} /\ stage' = "append"
      /\ UNCHANGED <<file, prog, pos, sect, status, loaded>>
      /\ network_txt' = network_txt /\ commander_txt' = commander_txt /\ task_txt' = task_txt
  BY DEF GasgenFatal, generated, loader
<1>3. /\ prog = "gasgen" /\ file \in Templates /\ \A s \in Sections : loaded["gastask"][s] = <<>>
  BY <1>1, <1>2 DEF StageOK
<1>4. LoadInv'
  BY <1>1, <1>2 DEF LoadInv, LoadTypeOK, SectOK, Progress, Kept, EndOK
<1>5. FeasibleParameters' <=> FeasibleParameters
  BY <1>1, <1>2, ParametersStable
<1>6. ~ Faultless(file, "gasgen", Len(file) + 1)
  <2>4. ~ OverrunAt(file, "gasgen", pos)
    BY DEF OverrunAt, IsRow, Parses, GeneratorSections, LargeSections
  <2>1. pos <= Len(file) /\ Offence(file, "gasgen", pos) = "fatal"
    BY <1>1, <1>2, <1>3, <2>4 DEF LoadInv, EndOK
  <2>2. pos \in 1..Len(file) /\ Len(file) \in Nat
    BY <1>1, <2>1, AtLine
  <2>3. pos \in 1..((Len(file) + 1) - 1)
    BY <2>2
  <2> QED
    BY <1>2, <2>1, <2>3 DEF Faultless
<1>7. TextsOK'
  BY <1>1, <1>2, <1>5 DEF TextsOK, Done
<1>8. LengthsOK'
  BY <1>1, <1>2 DEF LengthsOK, Done
<1>9. StageOK'
  BY <1>2, <1>3, <1>6 DEF StageOK
<1> QED
  BY <1>4, <1>7, <1>8, <1>9 DEF PipelineInv

\* The script appends the files and starts gastask.
LEMMA AppendAndRunPreserves ==
    ASSUME PipelineInv, AppendAndRun
    PROVE  PipelineInv'
<1>1. LoadInv /\ TextsOK /\ StageOK /\ LengthsOK
  BY DEF PipelineInv
<1>2. /\ stage = "append" /\ file' = Whole(file) /\ prog' = "gastask" /\ pos' = 1 /\ sect' = "none"
      /\ status' = [status EXCEPT !["gastask"] = "loading"] /\ stage' = "gastask" /\ loaded' = loaded
      /\ network_txt' = network_txt /\ commander_txt' = commander_txt /\ task_txt' = task_txt
  BY DEF AppendAndRun, Start, Whole, generated
<1>3. /\ prog = "gasgen" /\ file \in Templates /\ \A s \in Sections : loaded["gastask"][s] = <<>>
      /\ status["gasgen"] \in {"fatal", "overrun", "crashed", "done"}
      /\ status["gasgen"] \in {"fatal", "overrun"} => ~ Faultless(file, "gasgen", Len(file) + 1)
      /\ FeasibleParameters => status["gasgen"] # "crashed"
  BY <1>1, <1>2 DEF StageOK
<1>4. file \in Seq(Lines)
  BY <1>1 DEF LoadInv, LoadTypeOK
<1>5. PICK g : g = Whole(file)
  OBVIOUS
<1>6. /\ g \in Seq(Lines) /\ Len(file) \in Nat /\ Len(g) \in Nat /\ Len(file) <= Len(g)
      /\ \A k \in 1..Len(file) : g[k] = file[k]
  BY <1>1, <1>4, <1>5, WholeExtends
<1>7. file' = g
  BY <1>2, <1>5
<1>8. /\ "gasgen" \in Programs /\ "gastask" \in Programs /\ \A p \in Programs : p = "gasgen" \/ p = "gastask"
  BY DEF Programs
<1>9. /\ status \in [Programs -> Statuses] /\ loaded \in [Programs -> [Sections -> Seq(Nat)]]
  BY <1>1 DEF LoadInv, LoadTypeOK
<1>10. status'["gastask"] = "loading" /\ status'["gasgen"] = status["gasgen"]
  BY <1>2, <1>8, <1>9
<1>11. LoadTypeOK'
  <2>1. status' \in [Programs -> Statuses]
    BY <1>2, <1>9 DEF Statuses
  <2>2. 1 \in 1..(Len(g) + 1)
    BY <1>6
  <2> QED
    BY <1>2, <1>6, <1>7, <1>8, <1>9, <2>1, <2>2 DEF LoadTypeOK
<1>12. SectOK'
  <2>1. Governor(g, 1) = "none" /\ "none" \notin Parses("gastask")
    BY <1>8, GovernorFirst, SectionNames
  <2> QED
    BY <1>2, <1>7, <2>1 DEF SectOK
<1>13. Faultless(g, "gastask", 1) /\ \A s \in Sections : loaded["gastask"][s] = Rows(g, "gastask", s, 1)
  BY <1>3, RowsFirst DEF Faultless
<1>14. \E n \in 1..(Len(g) + 1) :
          Faultless(g, "gasgen", n) /\ \A s \in Sections : loaded["gasgen"][s] = Rows(g, "gasgen", s, n)
  <2>1. PICK n \in 1..(Len(file) + 1) : Faultless(file, "gasgen", n) /\ Kept("gasgen", n)
    BY <1>1, <1>8 DEF LoadInv, Progress
  <2>2. n \in Nat \ {0} /\ n \in 1..(Len(g) + 1) /\ \A k \in 1..(n - 1) : file[k] = g[k]
    BY <1>6
  <2>3. Faultless(g, "gasgen", n)
    BY <2>1, <2>2, FaultlessPrefix
  <2>4. \A s : Rows(file, "gasgen", s, n) = Rows(g, "gasgen", s, n)
    BY <2>2, RowsPrefix
  <2> QED
    BY <2>1, <2>2, <2>3, <2>4 DEF Kept
<1>15. Progress'
  <2>1. 1 \in 1..(Len(g) + 1)
    BY <1>6
  <2>2. Faultless(g, "gastask", 1) /\ Kept("gastask", 1)'
    BY <1>2, <1>7, <1>13 DEF Kept
  <2>3. \E n \in 1..(Len(g) + 1) : Faultless(g, "gasgen", n) /\ Kept("gasgen", n)'
    BY <1>2, <1>7, <1>14 DEF Kept
  <2>4. (Kept(prog, pos))'
    BY <1>2, <1>7, <1>13 DEF Kept
  <2> QED
    BY <1>2, <1>7, <1>8, <2>1, <2>2, <2>3, <2>4 DEF Progress
<1>16. EndOK'
  BY <1>2, <1>10 DEF EndOK
<1>17. /\ \A s \in Sections : \A k : Param(s, k)' = Param(s, k)
       /\ NTasksTarget' = NTasksTarget
       /\ FeasibleParameters' <=> FeasibleParameters
  BY <1>1, <1>2, <1>6, <1>7, ParametersStable
<1>18. TextsOK'
  BY <1>1, <1>2, <1>10, <1>17 DEF TextsOK, Done
<1>19. LengthsOK'
  <2>1. "gennetwork" \in Sections /\ "gennetcommander" \in Sections
    BY DEF Sections, GeneratorSections
  <2> QED
    BY <1>1, <1>2, <1>10, <1>17, <2>1 DEF LengthsOK, Done
<1>20. StageOK'
  <2>1. \A t : Whole(t)' = Whole(t)
    BY <1>2 DEF Whole
  <2>2. \E t \in Templates : file' = Whole(t)'
    BY <1>2, <1>3, <2>1
  <2>3. ~ Faultless(file, "gasgen", Len(file) + 1) => ~ Faultless(g, "gasgen", Len(g) + 1)
    <3>1. \A k \in 1..((Len(file) + 1) - 1) : file[k] = g[k]
      BY <1>6
    <3>2. Len(file) + 1 \in Nat \ {0}
      BY <1>6
    <3>3. Faultless(file, "gasgen", Len(file) + 1) <=> Faultless(g, "gasgen", Len(file) + 1)
      BY <3>1, <3>2, FaultlessPrefix
    <3>4. \A k \in 1..((Len(file) + 1) - 1) : k \in 1..((Len(g) + 1) - 1)
      BY <1>6
    <3> QED
      BY <3>3, <3>4 DEF Faultless
  <2> QED
    BY <1>2, <1>3, <1>7, <1>10, <1>17, <2>2, <2>3 DEF StageOK
<1> QED
  BY <1>11, <1>12, <1>15, <1>16, <1>18, <1>19, <1>20 DEF PipelineInv, LoadInv

\* Every step of the pipeline preserves the invariant.
LEMMA PipelineInvNext ==
    ASSUME PipelineInv, [Next]_vars
    PROVE  PipelineInv'
<1>1. CASE UNCHANGED vars
  <2>1. /\ UNCHANGED <<file, prog, pos, sect, loaded, stage, task_txt, network_txt, commander_txt>>
        /\ status' = status
    BY <1>1 DEF vars
  <2>2. LoadInv /\ TextsOK /\ StageOK /\ LengthsOK
    BY DEF PipelineInv
  <2>3. LoadInv'
    BY <2>1, <2>2 DEF LoadInv, LoadTypeOK, SectOK, Progress, Kept, EndOK
  <2>4. /\ \A s \in Sections : \A k : Param(s, k)' = Param(s, k)
        /\ NTasksTarget' = NTasksTarget
        /\ FeasibleParameters' <=> FeasibleParameters
    BY <2>1, <2>2, ParametersStable
  <2>5. TextsOK'
    BY <2>1, <2>2, <2>4 DEF TextsOK, Done
  <2>6. "gennetwork" \in Sections /\ "gennetcommander" \in Sections
    BY DEF Sections, GeneratorSections
  <2>7. LengthsOK'
    BY <2>1, <2>2, <2>4, <2>6 DEF LengthsOK, Done
  <2>8. \A t : Whole(t)' = Whole(t)
    BY <2>1 DEF Whole
  <2>9. StageOK'
    BY <2>1, <2>2, <2>4, <2>8 DEF StageOK
  <2> QED
    BY <2>3, <2>5, <2>7, <2>9 DEF PipelineInv
<1> QED
  BY <1>1, LoadPreserves, GenOffloadingBoolPreserves, DoGenTaskPreserves, TaskCrashPreserves,
     GenTaskReturnsPreserves, GenNetworkPreserves, GenNetCommanderPreserves, GasgenFatalPreserves,
     AppendAndRunPreserves DEF Next

\* The inductive invariant of the pipeline: what each program has taken is what the file
\* holds for it, and each of the generated files is as the stage of the script says.
THEOREM PipelineInvariant == Spec => []PipelineInv
  BY PipelineInvInit, PipelineInvNext, PTL DEF Spec

\* Every variable of the loader and of the script has its type, and the lines that the
\* programs have taken are lines of the file, after the script has appended to it, too.
THEOREM PipelineTypeCorrect == Spec => []TypeOK
<1>1. ASSUME PipelineInv PROVE TypeOK
  <2>1. LoadInv /\ StageOK
    BY <1>1 DEF PipelineInv
  <2>2. ASSUME NEW p \in Programs, NEW s \in Sections PROVE ToSet(loaded[p][s]) \subseteq 1..Len(file)
    <3>1. /\ loaded[p][s] \in Seq(Nat)
          /\ \A j \in 1..Len(loaded[p][s]) : loaded[p][s][j] \in 1..Len(file)
      BY <2>1, TakenAreRows
    <3>2. DOMAIN loaded[p][s] = 1..Len(loaded[p][s])
      BY <3>1
    <3> QED
      BY <3>1, <3>2 DEF ToSet
  <2>3. /\ prog \in Programs /\ pos \in 1..(Len(file) + 1) /\ sect \in {"none", "skip"} \cup Parses(prog)
        /\ status \in [Programs -> Statuses]
    BY <2>1 DEF LoadInv, LoadTypeOK, SectOK
  <2> QED
    BY <2>1, <2>2, <2>3 DEF TypeOK, Statuses, StageOK
<1> QED
  BY <1>1, PipelineInvariant, PTL

\* The hand-written parsers of gasgen and gastask take exactly the data of their
\* sections and end at the first line that the code's format refuses, for every file
\* with which no array is outgrown.
THEOREM AlwaysLoadedExactly == Spec => []LoadedExactly
<1>1. ASSUME PipelineInv PROVE LoadedExactly
  BY <1>1, LoadInvExactly DEF PipelineInv
<1> QED
  BY <1>1, PipelineInvariant, PTL

\* The tables of memories, frequencies, clouds and ratios never exceed their arrays
\* and stay in order, for every file; those of tasks, networks and commanders may.
THEOREM AlwaysTablesFit == Spec => []TablesFit
<1>1. ASSUME PipelineInv PROVE TablesFit
  BY <1>1, LoadInvTables DEF PipelineInv
<1> QED
  BY <1>1, PipelineInvariant, PTL

-----------------------------------------------------------------------------
(* What arrives in gastask                                                 *)

\* The lines of the file g that the script makes of the template t: networks up to
\* line a, commanders up to line c and tasks up to line e.
Layout(g, t, a, c, e) ==
    /\ g \in Seq(Lines) /\ Len(g) = e
    /\ a = Len(t) + Len(network_txt) /\ c = a + 3 + Len(commander_txt) /\ e = c + 3 + Len(task_txt)
    /\ Len(t) <= a /\ a + 3 <= c /\ c + 3 <= e
    /\ \A k \in 1..Len(t) : g[k] = t[k]
    /\ \A k \in (Len(t) + 1)..a : g[k] = network_txt[k - Len(t)] /\ g[k] \in PlainData
    /\ g[a + 1] = Blank /\ g[a + 2] = Comment /\ g[a + 3] = Header("netcommander")
    /\ \A k \in (a + 4)..c : g[k] = commander_txt[k - (a + 3)] /\ g[k] \in PlainData
    /\ g[c + 1] = Blank /\ g[c + 2] = Comment /\ g[c + 3] = Header("task")
    /\ \A k \in (c + 4)..e : g[k] = task_txt[k - (c + 3)] /\ g[k] \in PlainData

\* Every template has such lines.
LEMMA LayoutExists ==
    ASSUME TextsOK, NEW t \in Seq(Lines)
    PROVE  Len(t) \in Nat /\ \E a, c, e \in Nat : Layout(Whole(t), t, a, c, e)
<1> DEFINE n == Len(t)
           a == n + Len(network_txt)
           c == a + 3 + Len(commander_txt)
           e == c + 3 + Len(task_txt)
           g == Whole(t)
<1>1. /\ n \in Nat /\ a \in Nat /\ c \in Nat /\ e \in Nat /\ n <= a /\ a + 3 <= c /\ c + 3 <= e
      /\ g \in Seq(Lines) /\ Len(g) = e
      /\ \A k \in 1..n : g[k] = t[k]
      /\ \A k \in (n + 1)..a : g[k] = network_txt[k - n]
      /\ g[a + 1] = Blank /\ g[a + 2] = Comment /\ g[a + 3] = Header("netcommander")
      /\ \A k \in (a + 4)..c : g[k] = commander_txt[k - (a + 3)]
      /\ g[c + 1] = Blank /\ g[c + 2] = Comment /\ g[c + 3] = Header("task")
      /\ \A k \in (c + 4)..e : g[k] = task_txt[k - (c + 3)]
  BY WholeLayout
<1>2. /\ network_txt \in Seq(PlainData) /\ commander_txt \in Seq(PlainData) /\ task_txt \in Seq(PlainData)
      /\ Len(network_txt) \in Nat /\ Len(commander_txt) \in Nat /\ Len(task_txt) \in Nat
  BY DEF TextsOK
<1>3. a = n + Len(network_txt) /\ c = a + 3 + Len(commander_txt) /\ e = c + 3 + Len(task_txt)
  OBVIOUS
<1> HIDE DEF a, c, e, g, n
<1>4. ASSUME NEW k \in (n + 1)..a PROVE g[k] \in PlainData
  <2>1. k - n \in 1..Len(network_txt)
    BY <1>1, <1>2, <1>3
  <2> QED
    BY <1>1, <1>2, <2>1, ElementOfSeq
<1>5. ASSUME NEW k \in (a + 4)..c PROVE g[k] \in PlainData
  <2>1. k - (a + 3) \in 1..Len(commander_txt)
    BY <1>1, <1>2, <1>3
  <2> QED
    BY <1>1, <1>2, <2>1, ElementOfSeq
<1>6. ASSUME NEW k \in (c + 4)..e PROVE g[k] \in PlainData
  <2>1. k - (c + 3) \in 1..Len(task_txt)
    BY <1>1, <1>2, <1>3
  <2> QED
    BY <1>1, <1>2, <2>1, ElementOfSeq
<1>7. Layout(g, t, a, c, e)
  BY <1>1, <1>3, <1>4, <1>5, <1>6 DEF Layout, n
<1> QED
  BY <1>1, <1>7 DEF g, n

\* No line of a template belongs to one of the three sections that the script fills.
LEMMA TemplateGovernors ==
    ASSUME NEW t \in Templates, NEW k \in 1..Len(t)
    PROVE  Governor(t, k) \notin {"task", "network", "netcommander"}
<1>1. IsTemplate(t) /\ t \in Seq(Lines) /\ Len(t) \in Nat
  BY FilesAssumption
<1>2. CASE Heads(t, k) = {}
  BY <1>2 DEF Governor
<1>3. CASE Heads(t, k) # {}
  <2>1. PICK h \in Heads(t, k) : TRUE
    BY <1>3
  <2>2. Governor(t, k) = t[h].section
    BY <1>1, HeadsUnique
  <2>3. h \in 1..(k - 1) /\ t[h].kind = "header"
    BY DEF Heads
  <2>4. h \in 1..(Len(t) - 1)
    BY <1>1, <2>3
  <2> QED
    BY <1>1, <2>2, <2>3, <2>4 DEF IsTemplate
<1> QED
  BY <1>2, <1>3

\* A line belongs to the header before it when there is only plain data between.
LEMMA GovernedBy ==
    ASSUME NEW f, NEW i \in Nat, NEW h \in 1..(i - 1), f[h].kind = "header",
           \A k \in (h + 1)..(i - 1) : f[k].kind = "data"
    PROVE  Governor(f, i) = f[h].section
<1>1. h \in Heads(f, i)
  BY DEF Heads
<1> QED
  BY <1>1, HeadsUnique

\* The sections of the lines that the script has appended, and those that gastask takes.
LEMMA WholeRows ==
    ASSUME NEW t \in Templates, NEW a \in Nat, NEW c \in Nat, NEW e \in Nat, NEW g,
           Layout(g, t, a, c, e), NEW k \in 1..e
    PROVE  /\ k \in 1..Len(t) => Governor(g, k) = Governor(t, k)
           /\ k \in (Len(t) + 1)..a => Governor(g, k) = "network"
           /\ k \in (a + 4)..c => Governor(g, k) = "netcommander"
           /\ k \in (c + 4)..e => Governor(g, k) = "task"
           /\ IsRow(g, "gastask", "network", k) <=> k \in (Len(t) + 1)..a
           /\ IsRow(g, "gastask", "netcommander", k) <=> k \in (a + 4)..c
           /\ IsRow(g, "gastask", "task", k) <=> k \in (c + 4)..e
<1>1. IsTemplate(t) /\ t \in Seq(Lines) /\ t # <<>>
  BY FilesAssumption DEF IsTemplate
<1>2. PICK n \in Nat \ {0} : n = Len(t)
  BY <1>1
<1>3. t[n] = Header("network")
  BY <1>1, <1>2 DEF IsTemplate, Last
<1>4. /\ n <= a /\ a + 3 <= c /\ c + 3 <= e
      /\ \A j \in 1..n : g[j] = t[j]
      /\ \A j \in (n + 1)..a : g[j] \in PlainData
      /\ g[a + 1] = Blank /\ g[a + 2] = Comment /\ g[a + 3] = Header("netcommander")
      /\ \A j \in (a + 4)..c : g[j] \in PlainData
      /\ g[c + 1] = Blank /\ g[c + 2] = Comment /\ g[c + 3] = Header("task")
      /\ \A j \in (c + 4)..e : g[j] \in PlainData
  BY <1>2 DEF Layout
<1>5. /\ \A l \in PlainData : l.kind = "data"
      /\ Blank.kind = "blank" /\ Comment.kind = "comment"
      /\ \A s : Header(s).kind = "header" /\ Header(s).section = s
  BY DEF PlainData, Blank, Comment, Header, Line
<1>6. ASSUME k \in 1..n PROVE Governor(g, k) = Governor(t, k) /\ Governor(g, k) \notin {"task", "network", "netcommander"}
  <2>1. \A j \in 1..(k - 1) : g[j] = t[j]
    BY <1>4, <1>6
  <2>2. Governor(g, k) = Governor(t, k)
    BY <2>1, GovernorPrefix
  <2> QED
    BY <1>2, <1>6, <2>2, TemplateGovernors
<1>7. ASSUME k \in (n + 1)..a PROVE Governor(g, k) = "network" /\ g[k].kind = "data"
  <2>1. n \in 1..(k - 1) /\ g[n] = Header("network")
    BY <1>3, <1>4, <1>7
  <2>2. \A j \in (n + 1)..(k - 1) : g[j].kind = "data"
    BY <1>4, <1>5, <1>7
  <2>3. Governor(g, k) = g[n].section
    BY <1>5, <2>1, <2>2, GovernedBy
  <2> QED
    BY <1>4, <1>5, <1>7, <2>1, <2>3
<1>8. ASSUME k \in (a + 4)..c PROVE Governor(g, k) = "netcommander" /\ g[k].kind = "data"
  <2>1. PICK h \in Nat : h = a + 3
    OBVIOUS
  <2>2. h \in 1..(k - 1) /\ g[h] = Header("netcommander")
    BY <1>4, <1>8, <2>1
  <2>3. \A j \in (h + 1)..(k - 1) : g[j].kind = "data"
    BY <1>4, <1>5, <1>8, <2>1
  <2>4. Governor(g, k) = g[h].section
    BY <1>5, <2>2, <2>3, GovernedBy
  <2> QED
    BY <1>4, <1>5, <1>8, <2>2, <2>4
<1>9. ASSUME k \in (c + 4)..e PROVE Governor(g, k) = "task" /\ g[k].kind = "data"
  <2>1. PICK h \in Nat : h = c + 3
    OBVIOUS
  <2>2. h \in 1..(k - 1) /\ g[h] = Header("task")
    BY <1>4, <1>9, <2>1
  <2>3. \A j \in (h + 1)..(k - 1) : g[j].kind = "data"
    BY <1>4, <1>5, <1>9, <2>1
  <2>4. Governor(g, k) = g[h].section
    BY <1>5, <2>2, <2>3, GovernedBy
  <2> QED
    BY <1>4, <1>5, <1>9, <2>2, <2>4
<1>10. ASSUME k \in {a + 1, a + 2, a + 3, c + 1, c + 2, c + 3} PROVE g[k].kind # "data"
  BY <1>4, <1>5, <1>10
<1>11. \/ k \in 1..n \/ k \in (n + 1)..a \/ k \in (a + 4)..c \/ k \in (c + 4)..e
       \/ k \in {a + 1, a + 2, a + 3, c + 1, c + 2, c + 3}
  BY <1>4
<1>12. {"task", "network", "netcommander"} \subseteq Parses("gastask")
  BY DEF Parses, SchedulerSections
<1>14. k \in {a + 1, a + 2, a + 3, c + 1, c + 2, c + 3} =>
          k \notin (n + 1)..a /\ k \notin (a + 4)..c /\ k \notin (c + 4)..e
  BY <1>4
<1>15. ASSUME NEW s \in {"task", "network", "netcommander"}
       PROVE  IsRow(g, "gastask", s, k) <=> g[k].kind = "data" /\ Governor(g, k) = s
  BY <1>12 DEF IsRow
<1>16. IsRow(g, "gastask", "network", k) <=> k \in (n + 1)..a
  BY <1>6, <1>7, <1>8, <1>9, <1>10, <1>11, <1>14, <1>15
<1>17. IsRow(g, "gastask", "netcommander", k) <=> k \in (a + 4)..c
  BY <1>6, <1>7, <1>8, <1>9, <1>10, <1>11, <1>14, <1>15
<1>18. IsRow(g, "gastask", "task", k) <=> k \in (c + 4)..e
  BY <1>6, <1>7, <1>8, <1>9, <1>10, <1>11, <1>14, <1>15
<1> QED
  BY <1>2, <1>6, <1>7, <1>8, <1>9, <1>16, <1>17, <1>18

\* The header of a template governs the networks behind it.
LEMMA NetworksGoverned ==
    ASSUME NEW t \in Templates, NEW a \in Nat, NEW c \in Nat, NEW e \in Nat, NEW g,
           Layout(g, t, a, c, e), NEW k \in 1..e, k \in (Len(t) + 1)..a
    PROVE  Governor(g, k) = "network"
  BY WholeRows

\* As many rows of the three sections as the script has appended.
LEMMA WholeCounts ==
    ASSUME NEW t \in Templates, NEW a \in Nat, NEW c \in Nat, NEW e \in Nat, NEW g,
           Layout(g, t, a, c, e), NEW i \in 1..(e + 1)
    PROVE  /\ Len(Rows(g, "gastask", "network", i)) = Within(Len(t) + 1, a, i)
           /\ Len(Rows(g, "gastask", "netcommander", i)) = Within(a + 4, c, i)
           /\ Len(Rows(g, "gastask", "task", i)) = Within(c + 4, e, i)
<1>1. Len(t) \in Nat
  BY FilesAssumption
<1>2. Len(t) <= a /\ a + 3 <= c /\ c + 3 <= e
  BY DEF Layout
<1>3. i \in Nat \ {0} /\ \A k \in 1..(i - 1) : k \in 1..e
  OBVIOUS
<1>4. \A k \in 1..(i - 1) : /\ IsRow(g, "gastask", "network", k) <=> k \in (Len(t) + 1)..a
                            /\ IsRow(g, "gastask", "netcommander", k) <=> k \in (a + 4)..c
                            /\ IsRow(g, "gastask", "task", k) <=> k \in (c + 4)..e
  BY <1>3, WholeRows
<1>5. /\ Len(t) + 1 \in Nat \ {0} /\ Len(t) + 1 <= a + 1
      /\ a + 4 \in Nat \ {0} /\ a + 4 <= c + 1
      /\ c + 4 \in Nat \ {0} /\ c + 4 <= e + 1
  BY <1>1, <1>2
<1>6. Len(Rows(g, "gastask", "network", i)) = Within(Len(t) + 1, a, i)
  <2>1. PICK n \in Nat \ {0} : n = Len(t) + 1
    BY <1>5
  <2>2. n <= a + 1 /\ \A k \in 1..(i - 1) : IsRow(g, "gastask", "network", k) <=> k \in n..a
    BY <1>4, <1>5, <2>1
  <2>3. Len(Rows(g, "gastask", "network", i)) = Within(n, a, i)
    BY <1>3, <2>2, RowsCounted
  <2> QED
    BY <2>1, <2>3
<1>7. Len(Rows(g, "gastask", "netcommander", i)) = Within(a + 4, c, i)
  BY <1>3, <1>4, <1>5, RowsCounted
<1>8. Len(Rows(g, "gastask", "task", i)) = Within(c + 4, e, i)
  BY <1>3, <1>4, <1>5, RowsCounted
<1> QED
  BY <1>6, <1>7, <1>8

\* When gastask has loaded the whole file it has every line that was appended.
LEMMA WholeArrives ==
    ASSUME PipelineInv, stage = "gastask", status["gastask"] = "loaded"
    PROVE  /\ Len(loaded["gastask"]["network"]) = Len(network_txt)
           /\ Len(loaded["gastask"]["netcommander"]) = Len(commander_txt)
           /\ Len(loaded["gastask"]["task"]) = Len(task_txt)
<1>1. LoadInv /\ TextsOK /\ StageOK
  BY DEF PipelineInv
<1>2. prog = "gastask" /\ \E t \in Templates : file = Whole(t)
  BY <1>1 DEF StageOK
<1>3. PICK t \in Templates : file = Whole(t)
  BY <1>2
<1>4. t \in Seq(Lines)
  BY FilesAssumption
<1>5. PICK a \in Nat, c \in Nat, e \in Nat : Layout(file, t, a, c, e)
  BY <1>1, <1>3, <1>4, LayoutExists
<1>6. /\ Len(file) = e /\ Len(t) <= a /\ a + 3 <= c /\ c + 3 <= e
      /\ a = Len(t) + Len(network_txt) /\ c = a + 3 + Len(commander_txt) /\ e = c + 3 + Len(task_txt)
  BY <1>5 DEF Layout
<1>7. Len(t) \in Nat /\ Len(network_txt) \in Nat /\ Len(commander_txt) \in Nat /\ Len(task_txt) \in Nat
  BY <1>1, <1>4 DEF TextsOK
<1>8. \A s \in Sections : loaded["gastask"][s] = Rows(file, "gastask", s, e + 1)
  <2>1. pos = e + 1 /\ Kept(prog, pos)
    BY <1>1, <1>2, <1>6 DEF LoadInv, Progress, EndOK
  <2> QED
    BY <1>2, <2>1 DEF Kept
<1>9. {"task", "network", "netcommander"} \subseteq Sections
  BY DEF Sections, SchedulerSections
<1>10. e + 1 \in 1..(e + 1)
  OBVIOUS
<1>11. /\ Len(loaded["gastask"]["network"]) = Within(Len(t) + 1, a, e + 1)
       /\ Len(loaded["gastask"]["netcommander"]) = Within(a + 4, c, e + 1)
       /\ Len(loaded["gastask"]["task"]) = Within(c + 4, e, e + 1)
  <2>1. /\ loaded["gastask"]["network"] = Rows(file, "gastask", "network", e + 1)
        /\ loaded["gastask"]["netcommander"] = Rows(file, "gastask", "netcommander", e + 1)
        /\ loaded["gastask"]["task"] = Rows(file, "gastask", "task", e + 1)
    BY <1>8, <1>9
  <2> QED
    BY <1>5, <1>10, <2>1, WholeCounts
<1>12. Within(Len(t) + 1, a, e + 1) = Len(network_txt)
  BY <1>6, <1>7 DEF Within
<1>13. Within(a + 4, c, e + 1) = Len(commander_txt)
  BY <1>6, <1>7 DEF Within
<1>14. Within(c + 4, e, e + 1) = Len(task_txt)
  BY <1>6, <1>7 DEF Within
<1> QED
  BY <1>11, <1>12, <1>13, <1>14

\* When gasgen came to its end, what gastask has loaded is the workload of this run,
\* whatever an earlier use had left in the files, for every template and every draw.
THEOREM AlwaysNothingLeftOver == Spec => []NothingLeftOver
<1>1. ASSUME PipelineInv PROVE NothingLeftOver
  <2> SUFFICES ASSUME stage = "gastask", status["gasgen"] = "done", status["gastask"] = "loaded"
               PROVE  Complete
    BY DEF NothingLeftOver
  <2>1. /\ Len(loaded["gastask"]["network"]) = Len(network_txt)
        /\ Len(loaded["gastask"]["netcommander"]) = Len(commander_txt)
        /\ Len(loaded["gastask"]["task"]) = Len(task_txt)
    BY <1>1, WholeArrives
  <2> QED
    BY <1>1, <2>1 DEF PipelineInv, LengthsOK, Done, Complete
<1> QED
  BY <1>1, PipelineInvariant, PTL

\* A section that has a row has rows.
LEMMA RowsSome ==
    ASSUME NEW f, NEW p, NEW s, NEW i \in Nat \ {0}, NEW k \in 1..(i - 1), IsRow(f, p, s, k)
    PROVE  Rows(f, p, s, i) # <<>>
<1> DEFINE T == {m \in (k + 1)..i : Rows(f, p, s, m) = <<>>}
<1>1. SUFFICES ASSUME T # {} PROVE FALSE
  OBVIOUS
<1>2. PICK m \in T : \A y \in T : m <= y
  <2>1. T \in SUBSET Nat
    OBVIOUS
  <2> HIDE DEF T
  <2> QED
    BY <1>1, <2>1, LeastExists
<1>3. m \in (k + 1)..i /\ Rows(f, p, s, m) = <<>>
  OBVIOUS
<1>4. PICK j \in Nat \ {0} : m = j + 1
  BY <1>3
<1>5. Rows(f, p, s, j + 1) = IF IsRow(f, p, s, j) THEN Append(Rows(f, p, s, j), j) ELSE Rows(f, p, s, j)
  BY RowsStep
<1>6. Rows(f, p, s, j) \in Seq(Nat)
  BY RowsAreRows DEF RowsOK
<1>7. ~ IsRow(f, p, s, j) /\ Rows(f, p, s, j) = <<>>
  <2>1. Append(Rows(f, p, s, j), j) # <<>>
    BY <1>6, AppendIndexed
  <2> QED
    BY <1>3, <1>4, <1>5, <2>1
<1>8. j # k
  BY <1>7
<1>9. j \in (k + 1)..i
  BY <1>3, <1>4, <1>8
<1>10. j \in T
  BY <1>7, <1>9
<1> QED
  BY <1>2, <1>4, <1>10

\* A generated line is in order when it has its columns.
LEMMA GeneratedLineOK ==
    ASSUME NEW f, NEW k \in Nat \ {0}, NEW s \in {"task", "network", "netcommander"},
           f[k] \in Plain(Columns(s)), Governor(f, k) = s,
           s = "task" => f[k].cols[1] < f[k].cols[2]
    PROVE  Offence(f, "gastask", k) = "none"
<1>1. f[k].kind = "data" /\ f[k].named = FALSE /\ Len(f[k].cols) = Columns(s)
  BY DEF Plain, PlainData
<1>2. s \notin {"none", "mem", "cloud", "cpufreq", "offloadingratio", "gentask"} /\ s \in Parses("gastask")
  BY DEF Parses, SchedulerSections
<1>3. Values(f[k], s) = f[k].cols
  BY <1>2 DEF Values
<1>4. Columns(s) \in Nat
  BY DEF Columns
<1>5. Scans(f[k], s)
  BY <1>1, <1>3, <1>4 DEF Scans
<1>6. InRange(f[k], s)
  BY <1>2, <1>3 DEF InRange, TaskOK
<1> DEFINE rows == Rows(f, "gastask", s, k)
<1> HIDE DEF rows
<1>7. MemHasRoom(s, rows) /\ TableHasRoom(s, rows) /\ Follows(f, f[k], s, rows)
  BY <1>2 DEF MemHasRoom, TableHasRoom, Follows, FreqFollows, RatioFollows
<1>8. Accepts(f, f[k], s, rows)
  BY <1>5, <1>6, <1>7 DEF Accepts
<1> QED
  BY <1>1, <1>2, <1>8 DEF Offence, rows

\* The arrays have room for the generated lines when these are not too many.
LEMMA WholeFits ==
    ASSUME NEW t \in Templates, NEW a \in Nat, NEW c \in Nat, NEW e \in Nat, NEW g, Layout(g, t, a, c, e),
           Len(network_txt) \in 0..MAX_ROWS, Len(commander_txt) \in 0..MAX_ROWS,
           Len(task_txt) \in 0..MAX_ROWS, NEW k \in 1..e
    PROVE  ~ OverrunAt(g, "gastask", k)
<1>1. IsTemplate(t) /\ t \in Seq(Lines) /\ MAX_ROWS \in Nat /\ t # <<>>
  BY FilesAssumption, TableAssumption DEF IsTemplate
<1>2. PICK n \in Nat \ {0} : n = Len(t)
  BY <1>1
<1>3. /\ n <= a /\ a + 3 <= c /\ c + 3 <= e
      /\ a = n + Len(network_txt) /\ c = a + 3 + Len(commander_txt) /\ e = c + 3 + Len(task_txt)
  BY <1>2 DEF Layout
<1>5. k \in Nat \ {0} /\ k \in 1..(e + 1)
  OBVIOUS
<1>6. ASSUME IsRow(g, "gastask", "network", k) PROVE Len(Rows(g, "gastask", "network", k)) < MAX_ROWS
  <2>1. k \in (n + 1)..a /\ Len(Rows(g, "gastask", "network", k)) = Within(n + 1, a, k)
    BY <1>2, <1>5, <1>6, WholeRows, WholeCounts
  <2>2. Within(n + 1, a, k) < MAX_ROWS
    BY <1>1, <1>3, <2>1, SMTT(20) DEF Within
  <2> QED
    BY <2>1, <2>2
<1>7. ASSUME IsRow(g, "gastask", "netcommander", k) PROVE Len(Rows(g, "gastask", "netcommander", k)) < MAX_ROWS
  <2>1. k \in (a + 4)..c /\ Len(Rows(g, "gastask", "netcommander", k)) = Within(a + 4, c, k)
    BY <1>5, <1>7, WholeRows, WholeCounts
  <2>2. Within(a + 4, c, k) < MAX_ROWS
    BY <1>1, <1>3, <2>1, SMTT(20) DEF Within
  <2> QED
    BY <2>1, <2>2
<1>8. ASSUME IsRow(g, "gastask", "task", k) PROVE Len(Rows(g, "gastask", "task", k)) < MAX_ROWS
  <2>1. k \in (c + 4)..e /\ Len(Rows(g, "gastask", "task", k)) = Within(c + 4, e, k)
    BY <1>5, <1>8, WholeRows, WholeCounts
  <2>2. Within(c + 4, e, k) < MAX_ROWS
    <3>1. k >= c + 4 /\ k <= e /\ e = c + 3 + Len(task_txt)
      BY <1>3, <2>1
    <3>2. k - (c + 4) \in Nat /\ k - (c + 4) < MAX_ROWS
      BY <1>1, <3>1
    <3>3. Within(c + 4, e, k) = k - (c + 4) \/ (Within(c + 4, e, k) = 0 /\ k = c + 4)
      BY <3>1 DEF Within
    <3> QED
      BY <3>2, <3>3
  <2> QED
    BY <2>1, <2>2
<1>9. ASSUME NEW s \in LargeSections, IsRow(g, "gastask", s, k) PROVE Len(Rows(g, "gastask", s, k)) < MAX_ROWS
  BY <1>6, <1>7, <1>8, <1>9 DEF LargeSections
<1>10. ASSUME NEW s \in LargeSections, IsRow(g, "gastask", s, k) PROVE ~ Overruns(s, Rows(g, "gastask", s, k))
  <2>1. Rows(g, "gastask", s, k) \in Seq(Nat)
    BY <1>5, RowsAreRows DEF RowsOK
  <2> QED
    BY <1>1, <1>9, <1>10, <2>1 DEF Overruns
<1> QED
  BY <1>10 DEF OverrunAt

\* gastask finds nothing wrong in a file whose generated lines are right.
LEMMA WholeFaultless ==
    ASSUME NEW t \in Templates, NEW a \in Nat, NEW c \in Nat, NEW e \in Nat, NEW g, Layout(g, t, a, c, e),
           Len(network_txt) \in Nat, Len(commander_txt) \in Nat, Len(task_txt) \in Nat,
           \A i \in 1..Len(network_txt) : network_txt[i] \in Plain(2),
           \A i \in 1..Len(commander_txt) : commander_txt[i] \in Plain(2),
           \A i \in 1..Len(task_txt) :
              task_txt[i] \in Plain(8) /\ task_txt[i].cols[1] < task_txt[i].cols[2]
    PROVE  Faultless(g, "gastask", e + 1)
<1>1. IsTemplate(t) /\ t \in Seq(Lines) /\ t # <<>>
  BY FilesAssumption DEF IsTemplate
<1>2. PICK n \in Nat \ {0} : n = Len(t)
  BY <1>1
<1>3. /\ n <= a /\ a + 3 <= c /\ c + 3 <= e
      /\ a = n + Len(network_txt) /\ c = a + 3 + Len(commander_txt) /\ e = c + 3 + Len(task_txt)
      /\ \A k \in 1..n : g[k] = t[k]
      /\ \A k \in (n + 1)..a : g[k] = network_txt[k - n]
      /\ g[a + 1] = Blank /\ g[a + 2] = Comment /\ g[a + 3] = Header("netcommander")
      /\ \A k \in (a + 4)..c : g[k] = commander_txt[k - (a + 3)]
      /\ g[c + 1] = Blank /\ g[c + 2] = Comment /\ g[c + 3] = Header("task")
      /\ \A k \in (c + 4)..e : g[k] = task_txt[k - (c + 3)]
  BY <1>2 DEF Layout
<1>4. Columns("network") = 2 /\ Columns("netcommander") = 2 /\ Columns("task") = 8
  BY DEF Columns
<1> SUFFICES ASSUME NEW k \in 1..e PROVE Offence(g, "gastask", k) = "none"
  BY DEF Faultless
<1>5. k \in Nat \ {0} /\ k \in 1..(e + 1)
  OBVIOUS
<1>6. CASE k \in 1..n
  <2>1. \A j \in 1..k : g[j] = t[j]
    BY <1>3, <1>6, SMTT(20)
  <2>2. Offence(g, "gastask", k) = Offence(t, "gastask", k)
    BY <1>5, <2>1, OffencePrefix
  <2>3. Faultless(t, "gastask", n + 1) /\ k \in 1..((n + 1) - 1)
    BY <1>1, <1>2, <1>6 DEF IsTemplate
  <2> QED
    BY <2>2, <2>3 DEF Faultless
<1>7. CASE k \in (n + 1)..a
  <2>1. Governor(g, k) = "network"
    <3>1. k \in (Len(t) + 1)..a
      BY <1>2, <1>7
    <3> QED
      BY ONLY <3>1, NetworksGoverned, t \in Templates, a \in Nat, c \in Nat, e \in Nat, k \in 1..e, Layout(g, t, a, c, e)
  <2>2. k - n \in 1..Len(network_txt)
    <3>1. PICK N \in Nat : N = Len(network_txt) /\ a = n + N
      BY <1>3
    <3>2. k - n \in 1..N
      BY <1>7, <3>1
    <3> QED
      BY <3>1, <3>2
  <2>4. g[k] = network_txt[k - n]
    BY <1>3, <1>7
  <2>5. network_txt[k - n] \in Plain(2)
    BY <2>2
  <2>3. g[k] \in Plain(Columns("network"))
    BY <1>4, <2>4, <2>5
  <2> QED
    BY <1>5, <2>1, <2>3, GeneratedLineOK
<1>8. CASE k \in (a + 4)..c
  <2>1. Governor(g, k) = "netcommander"
    BY <1>5, <1>8, WholeRows
  <2>2. k - (a + 3) \in 1..Len(commander_txt)
    <3>1. PICK C \in Nat : C = Len(commander_txt) /\ c = a + 3 + C
      BY <1>3
    <3>2. k - (a + 3) \in 1..C
      BY <1>8, <3>1
    <3> QED
      BY <3>1, <3>2
  <2>4. g[k] = commander_txt[k - (a + 3)]
    BY <1>3, <1>8
  <2>5. commander_txt[k - (a + 3)] \in Plain(2)
    BY <2>2
  <2>3. g[k] \in Plain(Columns("netcommander"))
    BY <1>4, <2>4, <2>5
  <2> QED
    BY <1>5, <2>1, <2>3, GeneratedLineOK
<1>9. CASE k \in (c + 4)..e
  <2>1. Governor(g, k) = "task"
    BY <1>5, <1>9, WholeRows
  <2>3. PICK j \in 1..Len(task_txt) : g[k] = task_txt[j]
    <3>1. k - (c + 3) \in 1..Len(task_txt)
      BY <1>3, <1>9
    <3> QED
      BY <1>3, <1>9, <3>1
  <2>4. g[k] \in Plain(Columns("task")) /\ g[k].cols[1] < g[k].cols[2]
    BY <1>4, <2>3
  <2> QED
    BY <1>5, <2>1, <2>4, GeneratedLineOK
<1>10. CASE k \in {a + 1, a + 2, c + 1, c + 2}
  <2>1. g[k] = Blank \/ g[k] = Comment
    BY <1>3, <1>10
  <2>2. g[k].kind \notin {"header", "data"}
    BY <2>1 DEF Blank, Comment, Line
  <2> QED
    BY <2>2 DEF Offence
<1>11. CASE k = a + 3
  <2>1. g[k].kind = "header" /\ g[k].section = "netcommander"
    BY <1>3, <1>11 DEF Header, Line
  <2>2. "netcommander" \in Sections
    BY DEF Sections, SchedulerSections
  <2> QED
    BY <2>1, <2>2 DEF Offence
<1>12. CASE k = c + 3
  <2>1. g[k].kind = "header" /\ g[k].section = "task"
    BY <1>3, <1>12 DEF Header, Line
  <2>2. "task" \in Sections
    BY DEF Sections, SchedulerSections
  <2>3. PICK r \in Seq(Nat) : /\ r = Rows(t, "gastask", "cpufreq", n + 1) /\ r # <<>>
                              /\ \A j \in 1..Len(r) : r[j] \in 1..n /\ IsRow(t, "gastask", "cpufreq", r[j])
    <3>1. Rows(t, "gastask", "cpufreq", n + 1) # <<>>
      BY <1>1, <1>2 DEF IsTemplate
    <3>2. RowsOK(t, "gastask", "cpufreq", n + 1)
      BY RowsAreRows
    <3> QED
      BY <3>1, <3>2 DEF RowsOK
  <2>4. 1 \in 1..Len(r)
    BY <2>3
  <2>5. PICK h \in 1..n : IsRow(t, "gastask", "cpufreq", h)
    BY <2>3, <2>4
  <2>6. /\ g[h] = t[h] /\ Governor(g, h) = Governor(t, h)
    BY <1>2, <1>3, WholeRows, SMTT(20)
  <2>7. IsRow(g, "gastask", "cpufreq", h)
    BY <2>5, <2>6 DEF IsRow
  <2>8. h \in 1..(k - 1)
    BY <1>3, <1>12
  <2>9. Rows(g, "gastask", "cpufreq", k) # <<>>
    BY <1>5, <2>7, <2>8, RowsSome
  <2> QED
    BY <2>1, <2>2, <2>9 DEF Offence
<1>13. \/ k \in 1..n \/ k \in (n + 1)..a \/ k \in (a + 4)..c \/ k \in (c + 4)..e
       \/ k \in {a + 1, a + 2, c + 1, c + 2} \/ k = a + 3 \/ k = c + 3
  <2>1. n <= a /\ a + 3 <= c /\ c + 3 <= e
    BY <1>3
  <2>2. k \in Int /\ k >= 1 /\ k <= e
    OBVIOUS
  <2>3. k <= a => k \in 1..n \/ k \in (n + 1)..a
    BY <2>2
  <2>4. k > a /\ k <= c => k = a + 1 \/ k = a + 2 \/ k = a + 3 \/ k \in (a + 4)..c
    BY <2>2
  <2>5. k > c => k = c + 1 \/ k = c + 2 \/ k = c + 3 \/ k \in (c + 4)..e
    BY <2>2
  <2>6. k <= a \/ (k > a /\ k <= c) \/ k > c
    BY <2>2
  <2> QED
    BY <2>3, <2>4, <2>5, <2>6, Zenon
<1> QED
  BY <1>6, <1>7, <1>8, <1>9, <1>10, <1>11, <1>12, <1>13

\* With feasible parameters whatever gasgen draws is accepted by gastask and arrives
\* completely, for every template and every outcome of the draws.
THEOREM AlwaysFeasibleArrives == Spec => []FeasibleArrives
<1>1. ASSUME PipelineInv PROVE FeasibleArrives
  <2> SUFFICES ASSUME stage = "gastask", Feasible
               PROVE  /\ status["gasgen"] = "done"
                      /\ status["gastask"] \in {"loading", "loaded"}
                      /\ status["gastask"] = "loaded" => Complete
    BY DEF FeasibleArrives
  <2>1. LoadInv /\ TextsOK /\ StageOK /\ LengthsOK
    BY <1>1 DEF PipelineInv
  <2>2. Faultless(file, "gasgen", Len(file) + 1) /\ FeasibleParameters
    BY DEF Feasible
  <2>3. /\ prog = "gastask" /\ status["gastask"] \notin {"crashed", "done"}
        /\ status["gasgen"] = "done" /\ \E t \in Templates : file = Whole(t)
    BY <2>1, <2>2 DEF StageOK
  <2>4. /\ Len(task_txt) = NTasksTarget /\ Len(network_txt) = Param("gennetwork", 5)
        /\ Len(commander_txt) = Param("gennetcommander", 5)
    BY <2>1, <2>3 DEF LengthsOK, Done
  <2>5. /\ NTasksTarget <= MAX_ROWS /\ Param("gennetwork", 5) <= MAX_ROWS
        /\ Param("gennetcommander", 5) <= MAX_ROWS
    BY <2>1, <2>2, DrawsDefined DEF FeasibleParameters
  <2>6. PICK t \in Templates : file = Whole(t)
    BY <2>3
  <2>7. t \in Seq(Lines)
    BY FilesAssumption
  <2>8. PICK a \in Nat, c \in Nat, e \in Nat : Layout(file, t, a, c, e)
    BY <2>1, <2>6, <2>7, LayoutExists
  <2>9. /\ Len(network_txt) \in 0..MAX_ROWS /\ Len(commander_txt) \in 0..MAX_ROWS
        /\ Len(task_txt) \in 0..MAX_ROWS
    <3>1. Len(network_txt) \in Nat /\ Len(commander_txt) \in Nat /\ Len(task_txt) \in Nat
      BY <2>1 DEF TextsOK
    <3> QED
      BY <2>4, <2>5, <3>1, TableAssumption
  <2>15. /\ network_txt \in Seq(Plain(2)) /\ commander_txt \in Seq(Plain(2)) /\ task_txt \in Seq(PlainData)
         /\ \A i \in 1..Len(task_txt) :
               task_txt[i] \in Plain(8) /\ task_txt[i].cols[1] < task_txt[i].cols[2]
    BY <2>1, <2>2, <2>3 DEF TextsOK, Done
  <2>16. /\ Len(network_txt) \in Nat /\ Len(commander_txt) \in Nat /\ Len(task_txt) \in Nat
         /\ \A i \in 1..Len(network_txt) : network_txt[i] \in Plain(2)
         /\ \A i \in 1..Len(commander_txt) : commander_txt[i] \in Plain(2)
    BY <2>15, ElementOfSeq
  <2>10. Faultless(file, "gastask", e + 1)
    BY <2>8, <2>15, <2>16, WholeFaultless
  <2>11. Len(file) = e
    BY <2>8 DEF Layout
  <2>12. status["gastask"] \notin {"fatal", "overrun"}
    <3> SUFFICES ASSUME status["gastask"] \in {"fatal", "overrun"} PROVE FALSE
      OBVIOUS
    <3>1. /\ pos <= Len(file)
          /\ Offence(file, "gastask", pos) = "fatal" \/ OverrunAt(file, "gastask", pos)
      BY <2>1, <2>3 DEF LoadInv, EndOK
    <3>2. pos \in 1..Len(file)
      BY <2>1, <3>1, AtLine
    <3>3. pos \in 1..((e + 1) - 1) /\ pos \in 1..e
      BY <2>11, <3>2
    <3>4. ~ OverrunAt(file, "gastask", pos)
      BY <2>8, <2>9, <3>3, WholeFits
    <3> QED
      BY <2>10, <3>1, <3>3, <3>4 DEF Faultless
  <2>13. status["gastask"] \in {"loading", "loaded"}
    <3>1. status["gastask"] \in Statuses /\ status["gastask"] # "waiting"
      BY <2>1, <2>3 DEF LoadInv, LoadTypeOK, EndOK, Programs
    <3> QED
      BY <2>3, <2>12, <3>1 DEF Statuses
  <2>14. status["gastask"] = "loaded" => Complete
    BY <1>1, <2>4, WholeArrives DEF Complete
  <2> QED
    BY <2>3, <2>13, <2>14
<1> QED
  BY <1>1, PipelineInvariant, PTL

=============================================================================
