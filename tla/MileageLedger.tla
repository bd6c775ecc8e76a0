---------------------------- MODULE MileageLedger ---------------------------
(***************************************************************************)
(* The chaincode mileage_cc.go on Hyperledger Fabric.  A peer runs a       *)
(* transaction against the state it has and records what it read and what  *)
(* it would write (endorsement); transactions are put in an order, and     *)
(* each is applied only if nothing it read has been written since.  The    *)
(* order may be any, and a client may drop what was endorsed.              *)
(*                                                                         *)
(* The chaincode ignores the errors of GetState and of json.Unmarshal: an  *)
(* enterprise that is not there, and one that cannot be read, has balance  *)
(* zero.  The second loses credits, which is why the promises below are    *)
(* those of a ledger whose reads succeed, and CreditsMove fails of others. *)
(***************************************************************************)
EXTENDS Integers, Sequences, FiniteSetsExt

CONSTANTS Enterprises,
          A,         \* the enterprise that InitLedger names
          Amounts,
          Half,      \* an int holds -Half .. Half - 1; 2^63 in the chaincode
          GetStateFails, \* whether GetState may return an error
          MaxTx      \* bound: the transactions of a behaviour

ASSUME LedgerAssumption ==
    /\ A \in Enterprises
    /\ Half \in Nat \ {0} /\ Amounts \subseteq -Half..(Half - 1)
    /\ GetStateFails \in BOOLEAN
    /\ MaxTx \in Nat

Ints == -Half..(Half - 1)

\* Go's arithmetic on int.
Wrap(n) == ((n + Half) % (2 * Half)) - Half

VARIABLES world,   \* the state database: the version and the balance of each enterprise
          tx,      \* the transactions, in the order they were endorsed
          pending, \* those of them that are neither committed nor dropped
          chain    \* the blocks: transactions in their order, each valid or not

vars == <<world, tx, pending, chain>>

Nil == -1   \* the version of an enterprise in a read set that does not have it

\* A version is the place in the chain of the transaction that wrote last, 0 when there
\* is none.
Init ==
    /\ world = [e \in Enterprises |-> [version |-> 0, balance |-> 0]]
    /\ tx = <<>> /\ pending = {} /\ chain = <<>>

-----------------------------------------------------------------------------
(* The chaincode: what an invocation reads and would write.                *)

\* Mutated form: the balance is computed in a wider type.
ResultWide(op, seen, n) ==
    CASE op = "earn" -> seen + n [] op = "consume" -> seen - n [] OTHER -> seen

\* The balance that an operation makes of the one it has read.
Result(op, seen, n) ==
    CASE op = "earn" -> Wrap(seen + n) [] op = "consume" -> Wrap(seen - n) [] OTHER -> seen

\* Mutated form: the balance is taken from a cache of the chaincode, not with GetState.
ReadsCached(e) == {[version |-> Nil, seen |-> world[e].balance]}

\* Mutated form: the field has another name in the JSON, and Unmarshal does not find it.
ReadsUntagged(e) == {[version |-> world[e].version, seen |-> 0]}

\* Zero, and no entry in the read set.
Nothing == [version |-> Nil, seen |-> 0]

\* GetState and Unmarshal: the committed balance; after an error, which nobody looks at,
\* the zero that the struct was created with.
Reads(e) ==
    {[version |-> world[e].version, seen |-> world[e].balance]}
    \cup (IF GetStateFails THEN {Nothing} ELSE {})

\* The record of a transaction that has been run.
Record(op, e, n, read) ==
    [op |-> op, enterprise |-> e, amount |-> n, version |-> read.version, seen |-> read.seen,
     write |-> Result(op, read.seen, n)]

\* A blind write: nothing is read.
InitLedgerRecord == Record("init", A, 0, Nothing)

Endorse(t) ==
    /\ Len(tx) < MaxTx
    /\ tx' = Append(tx, t)
    /\ pending' = pending \cup {Len(tx) + 1}
    /\ UNCHANGED <<world, chain>>

InitLedger == Endorse(InitLedgerRecord)

Consume(e, n) == \E r \in Reads(e) : Endorse(Record("consume", e, n, r))

Earn(e, n) == \E r \in Reads(e) : Endorse(Record("earn", e, n, r))

Query(e) == \E r \in Reads(e) : Endorse(Record("query", e, 0, r))

-----------------------------------------------------------------------------
(* Fabric                                                                  *)

\* What a transaction read is still current.
Current(t) == t.version \in {Nil, world[t.enterprise].version}

\* The next transaction of a block is validated, and applied if it is valid.
Commit(i) ==
    /\ i \in pending
    /\ pending' = pending \ {i}
    /\ chain' = Append(chain, [id |-> i, valid |-> Current(tx[i])])
    /\ world' = IF Current(tx[i]) /\ tx[i].op # "query"
                THEN [world EXCEPT ![tx[i].enterprise] =
                         [version |-> Len(chain) + 1, balance |-> tx[i].write]]
                ELSE world
    /\ UNCHANGED tx

\* A client does not submit what was endorsed, or the order loses it.
Drop(i) ==
    /\ i \in pending
    /\ pending' = pending \ {i}
    /\ UNCHANGED <<world, tx, chain>>

Next ==
    \/ InitLedger
    \/ \E e \in Enterprises : Query(e) \/ \E n \in Amounts : Earn(e, n) \/ Consume(e, n)
    \/ \E i \in pending : Commit(i) \/ Drop(i)

Spec == Init /\ [][Next]_vars

-----------------------------------------------------------------------------
(* The ledger, read as a list of operations done one after the other.      *)

\* The blocks, each with its transaction.
History == [k \in 1..Len(chain) |-> [valid |-> chain[k].valid, tx |-> tx[chain[k].id]]]

\* The block does its work on an account of enterprise e.
Applies(b, e) == b.valid /\ b.tx.enterprise = e /\ b.tx.op # "query"

\* The balance of e after the block, when it is v before.
Executed(b, e, v) ==
    IF Applies(b, e) THEN Result(b.tx.op, IF b.tx.op = "init" THEN 0 ELSE v, b.tx.amount) ELSE v

\* The balance of e when the first n blocks of h are executed from the beginning, each
\* on the balance its predecessor leaves.
Replay(h, e, n) ==
    LET run[k \in 0..n] == IF k = 0 THEN 0 ELSE Executed(h[k], e, run[k - 1])
    IN  run[n]

Records ==
    [op : {"init", "earn", "consume", "query"}, enterprise : Enterprises, amount : Amounts \cup {0},
     version : {Nil} \cup 0..MaxTx, seen : Ints, write : Ints]

\* Every variable has its type; a transaction is decided once.
TypeOK ==
    /\ world \in [Enterprises -> [version : 0..Len(chain), balance : Ints]]
    /\ tx \in Seq(Records) /\ Len(tx) <= MaxTx
    /\ pending \subseteq 1..Len(tx)
    /\ \A k \in 1..Len(chain) :
          /\ chain[k].id \in (1..Len(tx)) \ pending
          /\ \A l \in 1..Len(chain) : chain[k].id = chain[l].id => k = l

\* The balance in the state database, which is made of values computed at endorsement,
\* is what executing the chain serially gives.
BalanceIsReplay == \A e \in Enterprises : world[e].balance = Replay(History, e, Len(chain))

\* Every valid Earn, Consume and Query has seen the balance at its place in the chain
\* and not an older one.
SeenIsCurrent ==
    \A k \in 1..Len(chain) :
        LET b == History[k]
        IN  (b.valid /\ b.tx.op # "init") => b.tx.seen = Replay(History, b.tx.enterprise, k - 1)

\* The ledger is serializable: although Earn, Consume and InitLedger of one enterprise
\* overlap, no update is lost and no valid transaction has worked on a balance that
\* was not current.  It is so only while GetState succeeds.
Serializable == BalanceIsReplay /\ SeenIsCurrent

\* The balance of e that the first n blocks leave in the state database.
BalanceAfter(e, n) ==
    LET writes == {k \in 1..n : Applies(History[k], e)}
    IN  IF writes = {} THEN 0 ELSE History[Max(writes)].tx.write

\* "Credits increase when an enterprise supplies idle edge resources and decrease when
\* it borrows resources" (README.md:203): a valid Earn leaves more than there was and a
\* valid Consume less, unless an int overflows.
CreditsMove ==
    \A k \in 1..Len(chain) :
        LET t == History[k].tx
            before == BalanceAfter(t.enterprise, k - 1)
        IN  (History[k].valid /\ t.amount > 0) =>
               /\ (t.op = "earn" /\ before + t.amount \in Ints) => t.write > before
               /\ (t.op = "consume" /\ before - t.amount \in Ints) => t.write < before

AbstractAccounts == INSTANCE Accounts WITH balance <- [e \in Enterprises |-> world[e].balance]

\* While GetState succeeds the ledger implements one account per enterprise whose balance
\* changes by a whole operation at a time.
ImplementsAccounts == AbstractAccounts!Spec

=============================================================================
