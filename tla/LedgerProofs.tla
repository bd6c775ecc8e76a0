---------------------------- MODULE LedgerProofs ----------------------------
(***************************************************************************)
(* What is proved of the mileage ledger, for any enterprises, amounts,     *)
(* width of an int and number of transactions: while GetState succeeds, it *)
(* is serializable, and it implements one account per enterprise.          *)
(***************************************************************************)
EXTENDS MileageLedger, FiniteSetTheorems, SequenceTheorems, WellFoundedInduction, TLAPS

-----------------------------------------------------------------------------
(* Executing a list of blocks                                              *)

\* A set of naturals that is not empty has a least element.
LEMMA LeastExists ==
    ASSUME NEW T \in SUBSET Nat, T # {}
    PROVE  \E x \in T : \A y \in T : x <= y
<1>1. PICK x \in T : \A y \in T : ~ (<<y, x>> \in OpToRel(<, Nat))
  BY NatLessThanWellFounded, WFMin
<1>2. \A y \in T : ~ (y < x)
  BY <1>1 DEF OpToRel
<1> QED
  BY <1>2

\* The equation of the function that Replay defines.
IsRun(f, h, e, n) == f = [k \in 0..n |-> IF k = 0 THEN 0 ELSE Executed(h[k], e, f[k - 1])]

\* There is such a function for every number of blocks.
LEMMA RunExists ==
    ASSUME NEW h, NEW e, NEW n \in Nat
    PROVE  \E f : IsRun(f, h, e, n)
<1> DEFINE T == {m \in Nat : ~ \E f : IsRun(f, h, e, m)}
<1>1. SUFFICES ASSUME T # {} PROVE FALSE
  OBVIOUS
<1>2. PICK m \in T : \A y \in T : m <= y
  BY <1>1, LeastExists
<1>3. m # 0
  <2> DEFINE f == [k \in 0..0 |-> 0]
  <2>1. f = [k \in 0..0 |-> IF k = 0 THEN 0 ELSE Executed(h[k], e, f[k - 1])]
    OBVIOUS
  <2>2. IsRun(f, h, e, 0)
    BY <2>1 DEF IsRun
  <2> QED
    BY <2>2
<1>4. m - 1 \in Nat /\ m - 1 \notin T
  BY <1>2, <1>3
<1>5. PICK f : IsRun(f, h, e, m - 1)
  BY <1>4
<1> DEFINE g == [k \in 0..m |-> IF k = m THEN Executed(h[m], e, f[m - 1]) ELSE f[k]]
<1>6. ASSUME NEW k \in 0..m
      PROVE  g[k] = IF k = 0 THEN 0 ELSE Executed(h[k], e, g[k - 1])
  <2>1. CASE k = m
    BY <1>3, <1>4, <2>1
  <2>2. CASE k # m
    <3>1. k \in 0..(m - 1) /\ (k # 0 => k - 1 \in 0..m /\ k - 1 # m)
      BY <2>2
    <3>2. f[k] = IF k = 0 THEN 0 ELSE Executed(h[k], e, f[k - 1])
      BY <1>5, <3>1 DEF IsRun
    <3> QED
      BY <2>2, <3>1, <3>2
  <2> QED
    BY <2>1, <2>2
<1>7. IsRun(g, h, e, m)
  BY <1>6 DEF IsRun
<1> QED
  BY <1>2, <1>7

\* Replay unfolds: nothing executed gives zero, and the last block is executed on what
\* the blocks before it leave.
LEMMA RunOfReplay ==
    ASSUME NEW h, NEW e, NEW n \in Nat
    PROVE  \E f : IsRun(f, h, e, n) /\ Replay(h, e, n) = f[n]
<1> DEFINE run == CHOOSE f : IsRun(f, h, e, n)
<1>1. IsRun(run, h, e, n)
  BY RunExists
<1>2. Replay(h, e, n) = run[n]
  BY DEF Replay, IsRun
<1> QED
  BY <1>1, <1>2

\* Two functions that satisfy the equations of two lists agree as far as the lists do.
LEMMA RunsAgree ==
    ASSUME NEW h, NEW g, NEW e, NEW n \in Nat, NEW m \in Nat, NEW f1, NEW f2,
           IsRun(f1, h, e, n), IsRun(f2, g, e, m),
           NEW l \in 0..n, l <= m, \A k \in 1..l : h[k] = g[k]
    PROVE  f1[l] = f2[l]
<1> DEFINE T == {k \in 0..l : f1[k] # f2[k]}
<1>1. SUFFICES ASSUME T # {} PROVE FALSE
  OBVIOUS
<1>2. PICK k \in T : \A y \in T : k <= y
  <2>1. T \in SUBSET Nat
    OBVIOUS
  <2> QED
    BY <1>1, <2>1, LeastExists
<1>3. f1[k] = IF k = 0 THEN 0 ELSE Executed(h[k], e, f1[k - 1])
  BY DEF IsRun
<1>4. f2[k] = IF k = 0 THEN 0 ELSE Executed(g[k], e, f2[k - 1])
  BY DEF IsRun
<1>5. k # 0
  BY <1>3, <1>4
<1>6. f1[k - 1] = f2[k - 1] /\ h[k] = g[k]
  BY <1>2, <1>5
<1> QED
  BY <1>2, <1>3, <1>4, <1>5, <1>6

\* The recursive equation of Replay.
LEMMA ReplayUnfolds ==
    ASSUME NEW h, NEW e, NEW n \in Nat
    PROVE  Replay(h, e, n) = IF n = 0 THEN 0 ELSE Executed(h[n], e, Replay(h, e, n - 1))
<1>1. PICK f : IsRun(f, h, e, n) /\ Replay(h, e, n) = f[n]
  BY RunOfReplay
<1>2. f[n] = IF n = 0 THEN 0 ELSE Executed(h[n], e, f[n - 1])
  BY <1>1 DEF IsRun
<1>3. ASSUME n # 0 PROVE f[n - 1] = Replay(h, e, n - 1)
  <2>1. n - 1 \in Nat /\ n - 1 \in 0..n
    BY <1>3
  <2>2. PICK g : IsRun(g, h, e, n - 1) /\ Replay(h, e, n - 1) = g[n - 1]
    BY <2>1, RunOfReplay
  <2> QED
    BY <1>1, <2>1, <2>2, RunsAgree
<1> QED
  BY <1>1, <1>2, <1>3

\* The first blocks decide what executing them gives.
LEMMA ReplayPrefix ==
    ASSUME NEW h, NEW g, NEW e, NEW n \in Nat, \A k \in 1..n : h[k] = g[k]
    PROVE  Replay(h, e, n) = Replay(g, e, n)
<1>1. PICK f1 : IsRun(f1, h, e, n) /\ Replay(h, e, n) = f1[n]
  BY RunOfReplay
<1>2. PICK f2 : IsRun(f2, g, e, n) /\ Replay(g, e, n) = f2[n]
  BY RunOfReplay
<1> QED
  BY <1>1, <1>2, RunsAgree

-----------------------------------------------------------------------------
(* The inductive invariant                                                 *)

Ops == {"init", "earn", "consume", "query"}

\* The result of an operation is an int.
LEMMA ResultType ==
    ASSUME NEW op \in Ops, NEW seen \in Ints, NEW n \in Ints
    PROVE  Result(op, seen, n) \in Ints
<1>1. Half \in Nat \ {0}
  BY LedgerAssumption
<1>2. ASSUME NEW m \in Int PROVE Wrap(m) \in Ints
  <2>1. (m + Half) % (2 * Half) \in 0..(2 * Half - 1)
    BY <1>1
  <2> QED
    BY <1>1, <2>1 DEF Wrap, Ints
<1>3. seen + n \in Int /\ seen - n \in Int
  BY <1>1 DEF Ints
<1> QED
  BY <1>2, <1>3 DEF Result, Ops

\* A record holds what the chaincode computes from what it has read: InitLedger reads
\* nothing, and the others do read unless GetState fails.
Computed(t) ==
    /\ t.write = Result(t.op, t.seen, t.amount)
    /\ t.op = "init" => t.seen = 0 /\ t.amount = 0
    /\ t.op # "init" => t.version # Nil \/ GetStateFails
    /\ t.op \in {"earn", "consume"} => t.amount \in Amounts

\* The key to version checking: no version is ahead of the chain, so that a version is
\* never used twice, and whoever has read the current version has seen the current balance.
Fresh(t) ==
    /\ t.version <= Len(chain)
    /\ t.version = world[t.enterprise].version => t.seen = world[t.enterprise].balance

LedgerInv ==
    /\ TypeOK
    /\ chain \in Seq([id : Nat, valid : BOOLEAN])
    /\ \A i \in 1..Len(tx) : Computed(tx[i]) /\ Fresh(tx[i])

\* Blocks hold different transactions, so there are no more of them.
LEMMA ChainBounded ==
    ASSUME TypeOK, chain \in Seq([id : Nat, valid : BOOLEAN])
    PROVE  Len(chain) <= Len(tx)
<1> DEFINE S == 1..Len(chain)
           T == 1..Len(tx)
           f == [k \in S |-> chain[k].id]
<1>1. Len(chain) \in Nat /\ Len(tx) \in Nat
  BY LenProperties DEF TypeOK
<1>2. f \in Injection(S, T)
  <2>1. f \in [S -> T]
    BY DEF TypeOK
  <2>2. \A k, l \in S : f[k] = f[l] => k = l
    BY DEF TypeOK
  <2> QED
    BY <2>1, <2>2 DEF Injection, IsInjective
<1>3. IsFiniteSet(T) /\ Cardinality(T) = Len(tx) /\ Cardinality(S) = Len(chain)
  <2>1. ASSUME NEW m \in Nat PROVE IsFiniteSet(1..m) /\ Cardinality(1..m) = m
    BY FS_Interval
  <2> QED
    BY <1>1, <2>1
<1>4. Cardinality(S) <= Cardinality(T)
  BY <1>2, <1>3, FS_Injection
<1> QED
  BY <1>3, <1>4

\* The invariant holds at the start.
LEMMA LedgerInit == Init => LedgerInv
<1> SUFFICES ASSUME Init PROVE LedgerInv
  OBVIOUS
<1>1. 0 \in Ints /\ MaxTx \in Nat
  BY LedgerAssumption DEF Ints
<1>2. Len(chain) = 0 /\ Len(tx) = 0
  BY DEF Init
<1> QED
  BY <1>1, <1>2 DEF Init, LedgerInv, TypeOK

\* Running a transaction: it reads the committed state, or nothing.
LEMMA EndorseInv ==
    ASSUME LedgerInv, NEW op \in Ops, NEW e \in Enterprises, NEW n,
           IF op \in {"earn", "consume"} THEN n \in Amounts ELSE n = 0,
           NEW r, IF op = "init" THEN r = Nothing ELSE r \in Reads(e),
           Endorse(Record(op, e, n, r))
    PROVE  LedgerInv'
<1> DEFINE t == Record(op, e, n, r)
<1>1. /\ Half \in Nat \ {0} /\ MaxTx \in Nat /\ n \in Amounts \cup {0} /\ n \in Ints /\ 0 \in Ints
  <2>1. Half \in Nat \ {0} /\ MaxTx \in Nat /\ 0 \in Ints
    BY LedgerAssumption DEF Ints
  <2>2. n \in Amounts \cup {0}
    OBVIOUS
  <2> QED
    BY <2>1, <2>2, LedgerAssumption DEF Ints
<1>2. /\ Len(chain) \in Nat /\ Len(tx) \in Nat /\ Len(chain) <= Len(tx) /\ Len(tx) < MaxTx
  BY LenProperties, ChainBounded DEF LedgerInv, TypeOK, Endorse
<1>3. /\ world[e].version \in 0..Len(chain) /\ world[e].balance \in Ints
  BY DEF LedgerInv, TypeOK
<1>4. /\ r.version \in {Nil} \cup 0..Len(chain) /\ r.seen \in Ints
      /\ op = "init" => r.seen = 0 /\ n = 0
      /\ op # "init" => r.version # Nil \/ GetStateFails
      /\ r.version = world[e].version => r.seen = world[e].balance
  <2>1. CASE r = Nothing
    BY <1>1, <1>3, <2>1 DEF Reads, Nothing, Nil
  <2>2. CASE r # Nothing
    <3>1. op # "init" /\ r = [version |-> world[e].version, seen |-> world[e].balance]
      BY <2>2 DEF Reads
    <3> QED
      BY <1>1, <1>3, <3>1 DEF Nil
  <2> QED
    BY <2>1, <2>2
<1>5. /\ t.op = op /\ t.enterprise = e /\ t.amount = n /\ t.version = r.version /\ t.seen = r.seen
      /\ t.write = Result(op, r.seen, n)
  BY DEF Record
<1>6. t \in Records
  <2>1. Result(op, r.seen, n) \in Ints
    BY <1>1, <1>4, ResultType
  <2>2. r.version \in {Nil} \cup 0..MaxTx
    BY <1>1, <1>2, <1>4
  <2> QED
    BY <1>1, <1>4, <2>1, <2>2 DEF Record, Records, Ops
<1>7. Computed(t) /\ Fresh(t)
  <2>1. Computed(t)
    BY <1>4, <1>5 DEF Computed
  <2>2. Fresh(t)
    BY <1>2, <1>4, <1>5 DEF Fresh, Nil
  <2> QED
    BY <2>1, <2>2
<1> HIDE DEF t
<1>8. /\ tx' \in Seq(Records) /\ Len(tx') = Len(tx) + 1 /\ tx'[Len(tx) + 1] = t
      /\ \A i \in 1..Len(tx) : tx'[i] = tx[i]
  BY <1>6, AppendProperties DEF Endorse, LedgerInv, TypeOK, t
<1>9. world' = world /\ chain' = chain /\ pending' = pending \cup {Len(tx) + 1}
  BY DEF Endorse
<1>10. TypeOK'
  <2>1. world' \in [Enterprises -> [version : 0..Len(chain'), balance : Ints]]
    BY <1>9 DEF LedgerInv, TypeOK
  <2>2. pending' \subseteq 1..Len(tx')
    <3>1. \A i \in pending : i \in 1..Len(tx)
      BY DEF LedgerInv, TypeOK
    <3>2. \A i \in pending' : i \in 1..(Len(tx) + 1)
      BY <1>2, <1>9, <3>1
    <3>3. \A i \in pending' : i \in 1..Len(tx')
      BY <1>8, <3>2
    <3> QED
      BY <3>3
  <2>3. \A k \in 1..Len(chain') : chain'[k].id \in (1..Len(tx')) \ pending'
    <3>1. \A k \in 1..Len(chain) : chain[k].id \in 1..Len(tx) /\ chain[k].id \notin pending
      BY DEF LedgerInv, TypeOK
    <3>2. \A k \in 1..Len(chain) : chain[k].id \in 1..(Len(tx) + 1) /\ chain[k].id # Len(tx) + 1
      BY <1>2, <3>1
    <3> QED
      BY <1>8, <1>9, <3>1, <3>2
  <2>4. \A k, l \in 1..Len(chain') : chain'[k].id = chain'[l].id => k = l
    BY <1>9 DEF LedgerInv, TypeOK
  <2>5. Len(tx') <= MaxTx
    BY <1>1, <1>2, <1>8
  <2> QED
    BY <1>8, <2>1, <2>2, <2>3, <2>4, <2>5 DEF TypeOK
<1>11. ASSUME NEW i \in 1..Len(tx') PROVE Computed(tx[i])' /\ Fresh(tx[i])'
  <2>1. i \in 1..Len(tx) \/ i = Len(tx) + 1
    BY <1>2, <1>8
  <2>2. Computed(tx'[i]) /\ Fresh(tx'[i])
    BY <1>7, <1>8, <2>1 DEF LedgerInv
  <2> QED
    BY <1>9, <2>2 DEF Fresh, Computed
<1>12. chain' \in Seq([id : Nat, valid : BOOLEAN])
  BY <1>9 DEF LedgerInv
<1> QED
  BY <1>10, <1>11, <1>12 DEF LedgerInv

\* The next block: it writes a new version, so that whoever has read the old one no longer
\* has the current version.
LEMMA CommitInv ==
    ASSUME LedgerInv, NEW i \in pending, Commit(i)
    PROVE  LedgerInv'
<1> DEFINE n == Len(chain) + 1
           b == [id |-> i, valid |-> Current(tx[i])]
           e == tx[i].enterprise
<1>1. /\ Len(chain) \in Nat /\ Len(tx) \in Nat /\ i \in 1..Len(tx) /\ tx[i] \in Records
  BY LenProperties, ElementOfSeq DEF LedgerInv, TypeOK
<1>2. /\ e \in Enterprises /\ tx[i].write \in Ints /\ b \in [id : Nat, valid : BOOLEAN]
  BY <1>1 DEF Records, Current
<1>3. /\ chain' \in Seq([id : Nat, valid : BOOLEAN]) /\ Len(chain') = n /\ chain'[n].id = i
      /\ \A k \in 1..Len(chain) : chain'[k] = chain[k]
  BY <1>2, AppendProperties DEF Commit, LedgerInv
<1>4. tx' = tx /\ pending' = pending \ {i}
  BY DEF Commit
<1>5. world' = world \/ world' = [world EXCEPT ![e] = [version |-> n, balance |-> tx[i].write]]
  BY DEF Commit
<1> HIDE DEF n, e
<1>6. n \in Nat /\ n > Len(chain) /\ 1..n = 1..Len(chain) \cup {n} /\ 0..Len(chain) \subseteq 0..n /\ n \in 0..n
  BY <1>1 DEF n
<1>7. TypeOK'
  <2>1. world' \in [Enterprises -> [version : 0..Len(chain'), balance : Ints]]
    <3> DEFINE W == [version : 0..n, balance : Ints]
    <3>1. world \in [Enterprises -> W]
      BY <1>6 DEF LedgerInv, TypeOK
    <3>2. [version |-> n, balance |-> tx[i].write] \in W
      BY <1>2, <1>6
    <3>3. world' \in [Enterprises -> W]
      BY <1>5, <3>1, <3>2
    <3> QED
      BY <1>3, <3>3
  <2>2. pending' \subseteq 1..Len(tx')
    BY <1>4 DEF LedgerInv, TypeOK
  <2>3. \A k \in 1..Len(chain') : chain'[k].id \in (1..Len(tx')) \ pending'
    BY <1>1, <1>3, <1>4, <1>6 DEF LedgerInv, TypeOK
  <2>4. \A k \in 1..Len(chain) : chain[k].id # i
    BY DEF LedgerInv, TypeOK
  <2>5. \A k, l \in 1..Len(chain') : chain'[k].id = chain'[l].id => k = l
    <3>1. \A k, l \in 1..Len(chain) : chain[k].id = chain[l].id => k = l
      BY DEF LedgerInv, TypeOK
    <3>2. SUFFICES ASSUME NEW k \in 1..n, NEW l \in 1..n, chain'[k].id = chain'[l].id PROVE k = l
      BY <1>3
    <3>3. (k \in 1..Len(chain) \/ k = n) /\ (l \in 1..Len(chain) \/ l = n)
      BY <1>6
    <3> QED
      BY <1>3, <2>4, <3>1, <3>2, <3>3
  <2> QED
    BY <1>4, <2>1, <2>2, <2>3, <2>5 DEF LedgerInv, TypeOK
<1>8. ASSUME NEW j \in 1..Len(tx') PROVE Computed(tx[j])' /\ Fresh(tx[j])'
  <2>1. Computed(tx[j]) /\ Fresh(tx[j]) /\ tx[j] \in Records
    BY <1>4, ElementOfSeq DEF LedgerInv, TypeOK
  <2>2. /\ tx[j].version \in Int /\ tx[j].enterprise \in Enterprises /\ tx[j].version <= Len(chain)
    BY <2>1 DEF Records, Nil, Fresh
  <2>3. tx[j].version <= Len(chain')
    BY <1>1, <1>3, <1>6, <2>2
  <2>4. tx[j].version = world'[tx[j].enterprise].version => tx[j].seen = world'[tx[j].enterprise].balance
    <3>1. CASE world' = world
      BY <2>1, <3>1 DEF Fresh
    <3>2. CASE world' = [world EXCEPT ![e] = [version |-> n, balance |-> tx[i].write]]
      <4>1. tx[j].version # n
        BY <1>1, <1>6, <2>2
      <4>2. tx[j].enterprise = e => world'[tx[j].enterprise].version = n
        BY <1>2, <2>2, <3>2 DEF LedgerInv, TypeOK
      <4>3. tx[j].enterprise # e => world'[tx[j].enterprise] = world[tx[j].enterprise]
        BY <1>2, <2>2, <3>2 DEF LedgerInv, TypeOK
      <4> QED
        BY <2>1, <4>1, <4>2, <4>3 DEF Fresh
    <3> QED
      BY <1>5, <3>1, <3>2
  <2> QED
    BY <1>4, <2>1, <2>3, <2>4 DEF Computed, Fresh
<1> QED
  BY <1>3, <1>7, <1>8 DEF LedgerInv

\* A transaction that is dropped leaves the ledger as it was.
LEMMA DropInv ==
    ASSUME LedgerInv, NEW i \in pending, Drop(i)
    PROVE  LedgerInv'
BY DEF LedgerInv, TypeOK, Computed, Fresh, Drop

\* Every step keeps the invariant.
LEMMA LedgerStep == LedgerInv /\ [Next]_vars => LedgerInv'
<1> SUFFICES ASSUME LedgerInv, [Next]_vars PROVE LedgerInv'
  OBVIOUS
<1>1. CASE InitLedger
  <2>1. A \in Enterprises
    BY LedgerAssumption
  <2>2. Endorse(Record("init", A, 0, Nothing))
    BY <1>1 DEF InitLedger, InitLedgerRecord
  <2> QED
    BY <2>1, <2>2, EndorseInv DEF Ops
<1>2. ASSUME NEW e \in Enterprises, Query(e) PROVE LedgerInv'
  BY <1>2, EndorseInv DEF Query, Ops
<1>3. ASSUME NEW e \in Enterprises, NEW n \in Amounts, Earn(e, n) PROVE LedgerInv'
  BY <1>3, EndorseInv DEF Earn, Ops
<1>4. ASSUME NEW e \in Enterprises, NEW n \in Amounts, Consume(e, n) PROVE LedgerInv'
  BY <1>4, EndorseInv DEF Consume, Ops
<1>5. ASSUME NEW i \in pending, Commit(i) \/ Drop(i) PROVE LedgerInv'
  BY <1>5, CommitInv, DropInv
<1>6. CASE UNCHANGED vars
  BY <1>6 DEF vars, LedgerInv, TypeOK, Computed, Fresh
<1> QED
  BY <1>1, <1>2, <1>3, <1>4, <1>5, <1>6 DEF Next

\* Every variable of the ledger keeps its type, and a transaction is decided once, for
\* every number of transactions and enterprises.
THEOREM LedgerTypeCorrect == Spec => []TypeOK
<1>1. LedgerInv => TypeOK
  BY DEF LedgerInv
<1> QED
  BY <1>1, LedgerInit, LedgerStep, PTL DEF Spec

-----------------------------------------------------------------------------
(* Serializability                                                         *)

\* A step of the ledger leaves the history alone or adds a block to it.
LEMMA HistoryGrows ==
    ASSUME LedgerInv, [Next]_vars
    PROVE  /\ Len(chain) \in Nat /\ Len(chain') \in Nat
           /\ \A k \in 1..Len(chain) : History'[k] = History[k]
           /\ \/ Len(chain') = Len(chain) /\ world' = world
              \/ \E i \in pending : Commit(i) /\ Len(chain') = Len(chain) + 1
<1>1. Len(chain) \in Nat /\ Len(tx) \in Nat
  BY LenProperties DEF LedgerInv, TypeOK
<1>2. \A k \in 1..Len(chain) : chain[k].id \in 1..Len(tx)
  BY DEF LedgerInv, TypeOK
<1>3. ASSUME NEW t, Endorse(t)
      PROVE  chain' = chain /\ world' = world /\ \A j \in 1..Len(tx) : tx'[j] = tx[j]
  BY <1>1, <1>3 DEF Endorse, LedgerInv, TypeOK
<1>4. ASSUME chain' = chain, world' = world, \A j \in 1..Len(tx) : tx'[j] = tx[j]
      PROVE  /\ \A k \in 1..Len(chain) : History'[k] = History[k]
             /\ Len(chain') = Len(chain) /\ world' = world
  BY <1>2, <1>4 DEF History
<1>5. ASSUME NEW i \in pending, Commit(i)
      PROVE  /\ \A k \in 1..Len(chain) : History'[k] = History[k]
             /\ Len(chain') = Len(chain) + 1
  <2> DEFINE b == [id |-> i, valid |-> Current(tx[i])]
  <2>1. b \in [id : Nat, valid : BOOLEAN] /\ chain \in Seq([id : Nat, valid : BOOLEAN])
    BY DEF Current, LedgerInv, TypeOK
  <2>2. chain' = Append(chain, b) /\ tx' = tx
    BY <1>5 DEF Commit
  <2> HIDE DEF b
  <2>3. Len(chain') = Len(chain) + 1 /\ \A k \in 1..Len(chain) : chain'[k] = chain[k]
    BY <2>1, <2>2, AppendProperties
  <2>4. 1..Len(chain) \subseteq 1..Len(chain')
    BY <1>1, <2>3
  <2> QED
    BY <2>2, <2>3, <2>4 DEF History
<1>6. CASE InitLedger
  BY <1>1, <1>3, <1>4, <1>6 DEF InitLedger
<1>7. ASSUME NEW e \in Enterprises, Query(e) \/ \E n \in Amounts : Earn(e, n) \/ Consume(e, n)
      PROVE  chain' = chain /\ world' = world /\ \A j \in 1..Len(tx) : tx'[j] = tx[j]
  BY <1>3, <1>7 DEF Query, Earn, Consume
<1>8. ASSUME NEW i \in pending, Drop(i)
      PROVE  chain' = chain /\ world' = world /\ \A j \in 1..Len(tx) : tx'[j] = tx[j]
  BY <1>8 DEF Drop
<1>9. CASE UNCHANGED vars
  BY <1>1, <1>4, <1>9 DEF vars
<1> QED
  BY <1>1, <1>4, <1>5, <1>6, <1>7, <1>8, <1>9 DEF Next

\* While GetState succeeds, the block that Commit adds, executed on the committed balance,
\* gives the balance that was computed at endorsement.
LEMMA CommitIsExecution ==
    ASSUME ~ GetStateFails, LedgerInv, NEW i \in pending, Commit(i), NEW e \in Enterprises
    PROVE  LET b == History'[Len(chain')]
           IN  /\ world'[e].balance = Executed(b, e, world[e].balance)
               /\ (b.valid /\ b.tx.op # "init") => b.tx.seen = world[b.tx.enterprise].balance
               /\ b.tx.enterprise \in Enterprises
<1> DEFINE n == Len(chain) + 1
           t == tx[i]
           b == [valid |-> Current(t), tx |-> t]
<1>1. /\ Len(chain) \in Nat /\ i \in 1..Len(tx) /\ t \in Records /\ Computed(t) /\ Fresh(t)
  BY LenProperties, ElementOfSeq DEF LedgerInv, TypeOK
<1>2. Len(chain') = n /\ chain'[n] = [id |-> i, valid |-> Current(t)] /\ tx' = tx
  BY <1>1 DEF Commit, LedgerInv
<1>3. n \in 1..n
  BY <1>1
<1>4. History'[Len(chain')] = b
  BY <1>2, <1>3 DEF History
<1>5. t.enterprise \in Enterprises /\ t.op \in Ops
  BY <1>1 DEF Records, Ops
<1>6. ASSUME Current(t), t.op # "init" PROVE t.seen = world[t.enterprise].balance
  BY <1>1, <1>6 DEF Current, Computed, Fresh
<1>7. world'[e].balance = Executed(b, e, world[e].balance)
  <2>1. CASE Applies(b, e)
    <3>1. Current(t) /\ t.enterprise = e /\ t.op # "query"
      BY <2>1 DEF Applies
    <3>2. world'[e].balance = t.write
      BY <1>5, <3>1 DEF Commit, LedgerInv, TypeOK
    <3>3. t.seen = IF t.op = "init" THEN 0 ELSE world[e].balance
      BY <1>1, <1>6, <3>1 DEF Computed
    <3> QED
      BY <1>1, <2>1, <3>2, <3>3 DEF Executed, Computed
  <2>2. CASE ~ Applies(b, e)
    <3>1. world'[e] = world[e]
      BY <1>5, <2>2 DEF Commit, Applies, LedgerInv, TypeOK
    <3> QED
      BY <2>2, <3>1 DEF Executed
  <2> QED
    BY <2>1, <2>2
<1> QED
  BY <1>4, <1>5, <1>6, <1>7

\* While GetState succeeds the ledger is serializable, for any number of transactions,
\* enterprises and amounts and every width of an int: balances computed at endorsement are
\* those that executing the chain gives, and no valid transaction has worked on a balance
\* that was not current.
THEOREM LedgerSerializable == ASSUME ~ GetStateFails PROVE Spec => []Serializable
<1> DEFINE Inv == LedgerInv /\ Serializable
<1>1. Init => Inv
  <2> SUFFICES ASSUME Init PROVE Serializable
    BY LedgerInit
  <2>1. chain = <<>> /\ Len(chain) = 0
    BY DEF Init
  <2>2. \A e \in Enterprises : world[e].balance = 0 /\ Replay(History, e, 0) = 0
    BY ReplayUnfolds DEF Init
  <2> QED
    BY <2>1, <2>2 DEF Serializable, BalanceIsReplay, SeenIsCurrent
<1>2. Inv /\ [Next]_vars => Inv'
  <2> SUFFICES ASSUME LedgerInv, Serializable, [Next]_vars PROVE Serializable'
    BY LedgerStep
  <2>1. /\ Len(chain) \in Nat /\ Len(chain') \in Nat
        /\ \A k \in 1..Len(chain) : History'[k] = History[k]
        /\ \/ Len(chain') = Len(chain) /\ world' = world
           \/ \E i \in pending : Commit(i) /\ Len(chain') = Len(chain) + 1
    BY HistoryGrows
  <2>2. ASSUME NEW e, NEW k \in 0..Len(chain) PROVE Replay(History', e, k) = Replay(History, e, k)
    BY <2>1, ReplayPrefix
  <2>3. \A e \in Enterprises : world[e].balance = Replay(History', e, Len(chain))
    BY <2>1, <2>2 DEF Serializable, BalanceIsReplay
  <2>4. ASSUME NEW k \in 1..Len(chain), History'[k].valid, History'[k].tx.op # "init"
        PROVE  History'[k].tx.seen = Replay(History', History'[k].tx.enterprise, k - 1)
    <3>1. k - 1 \in 0..Len(chain) /\ History'[k] = History[k]
      BY <2>1
    <3>2. History[k].tx.seen = Replay(History, History[k].tx.enterprise, k - 1)
      BY <2>4, <3>1 DEF Serializable, SeenIsCurrent
    <3> QED
      BY <2>2, <3>1, <3>2
  <2>5. CASE Len(chain') = Len(chain) /\ world' = world
    BY <2>3, <2>4, <2>5 DEF Serializable, BalanceIsReplay, SeenIsCurrent
  <2>6. ASSUME NEW i \in pending, Commit(i), Len(chain') = Len(chain) + 1 PROVE Serializable'
    <3> DEFINE n == Len(chain')
               b == History'[n]
    <3>1. n \in Nat /\ n # 0 /\ n - 1 = Len(chain)
      BY <2>1, <2>6
    <3>2. ASSUME NEW e \in Enterprises PROVE world'[e].balance = Replay(History', e, n)
      <4>1. world'[e].balance = Executed(b, e, world[e].balance)
        BY <2>6, CommitIsExecution
      <4>2. Replay(History', e, n) = Executed(b, e, Replay(History', e, n - 1))
        BY <3>1, ReplayUnfolds
      <4> QED
        BY <2>3, <3>1, <4>1, <4>2
    <3>3. ASSUME b.valid, b.tx.op # "init"
          PROVE  b.tx.seen = Replay(History', b.tx.enterprise, n - 1)
      <4>1. b.tx.seen = world[b.tx.enterprise].balance /\ b.tx.enterprise \in Enterprises
        <5>1. A \in Enterprises
          BY LedgerAssumption
        <5> QED
          BY <2>6, <3>3, <5>1, CommitIsExecution
      <4> QED
        BY <2>3, <3>1, <4>1
    <3>4. \A k \in 1..n : k \in 1..Len(chain) \/ k = n
      BY <2>1, <2>6
    <3>5. BalanceIsReplay'
      BY <3>2 DEF BalanceIsReplay
    <3>6. SeenIsCurrent'
      BY <2>4, <3>3, <3>4 DEF SeenIsCurrent
    <3> QED
      BY <3>5, <3>6 DEF Serializable
  <2> QED
    BY <2>1, <2>5, <2>6
<1> QED
  BY <1>1, <1>2, PTL DEF Spec

-----------------------------------------------------------------------------
(* The refinement                                                          *)

\* The balances that AbstractAccounts is about.
Balances == [e \in Enterprises |-> world[e].balance]

\* A valid block is one whole operation on one account.
LEMMA CommitIsOperation ==
    ASSUME ~ GetStateFails, LedgerInv, NEW i \in pending, Commit(i)
    PROVE  AbstractAccounts!Next \/ Balances' = Balances
<1> DEFINE t == tx[i]
<1>1. /\ t \in Records /\ Computed(t) /\ Fresh(t) /\ t.enterprise \in Enterprises /\ t.op \in Ops
  <2>1. t \in Records /\ Computed(t) /\ Fresh(t)
    BY ElementOfSeq DEF LedgerInv, TypeOK
  <2> QED
    BY <2>1 DEF Records, Ops
<1>2. CASE ~ Current(t) \/ t.op = "query"
  BY <1>2 DEF Commit, Balances
<1>3. ASSUME Current(t), t.op # "query"
      PROVE  AbstractAccounts!Next
  <2> PICK e \in Enterprises, n \in {t.amount} : e = t.enterprise /\ n = t.amount
    BY <1>1
  <2>1. Balances' = [Balances EXCEPT ![e] = t.write]
    BY <1>1, <1>3 DEF Commit, Balances, LedgerInv, TypeOK
  <2>2. t.op # "init" => t.seen = Balances[e]
    BY <1>1, <1>3 DEF Computed, Fresh, Current, Balances
  <2>3. CASE t.op = "init"
    <3>1. t.write = 0
      BY <1>1, <2>3 DEF Computed, Result
    <3>2. AbstractAccounts!Clear(e)
      BY <2>1, <3>1 DEF AbstractAccounts!Clear, Balances
    <3> QED
      BY <1>1, <3>2 DEF AbstractAccounts!Next
  <2>4. CASE t.op = "earn"
    <3>1. n \in Amounts /\ t.write = Wrap(t.seen + n)
      BY <1>1, <2>4 DEF Computed, Result
    <3>2. AbstractAccounts!Earn(e, n)
      BY <1>1, <2>1, <2>2, <2>4, <3>1 DEF AbstractAccounts!Earn, AbstractAccounts!Wrap, Wrap, Balances
    <3> QED
      BY <1>1, <3>1, <3>2 DEF AbstractAccounts!Next
  <2>5. CASE t.op = "consume"
    <3>1. n \in Amounts /\ t.write = Wrap(t.seen - n)
      BY <1>1, <2>5 DEF Computed, Result
    <3>2. AbstractAccounts!Consume(e, n)
      BY <1>1, <2>1, <2>2, <2>5, <3>1 DEF AbstractAccounts!Consume, AbstractAccounts!Wrap, Wrap, Balances
    <3> QED
      BY <1>1, <3>1, <3>2 DEF AbstractAccounts!Next
  <2> QED
    BY <1>1, <1>3, <2>3, <2>4, <2>5 DEF Ops
<1> QED
  BY <1>2, <1>3

\* While GetState succeeds the ledger implements Accounts for all values of its other
\* constants: seen from the balances alone, transactions happen whole and one at a time.
THEOREM LedgerRefinesAccounts == ASSUME ~ GetStateFails PROVE Spec => ImplementsAccounts
<1>1. Init => AbstractAccounts!Init
  BY DEF Init, AbstractAccounts!Init
<1>2. LedgerInv /\ [Next]_vars => [AbstractAccounts!Next]_Balances
  <2> SUFFICES ASSUME LedgerInv, [Next]_vars PROVE [AbstractAccounts!Next]_Balances
    OBVIOUS
  <2>1. world' = world \/ \E i \in pending : Commit(i)
    BY HistoryGrows
  <2> QED
    BY <2>1, CommitIsOperation DEF Balances
<1> QED
  BY <1>1, <1>2, LedgerInit, LedgerStep, PTL DEF Spec, ImplementsAccounts, AbstractAccounts!Spec, Balances

=============================================================================
