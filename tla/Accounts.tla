------------------------------ MODULE Accounts ------------------------------
(***************************************************************************)
(* What the mileage ledger promises: an account per enterprise whose       *)
(* balance changes by one whole operation at a time.                       *)
(***************************************************************************)
EXTENDS Integers

CONSTANTS Enterprises,
          Amounts,
          Half        \* an int holds -Half .. Half - 1; 2^63 in the chaincode

\* Go's arithmetic on int.
Wrap(n) == ((n + Half) % (2 * Half)) - Half

VARIABLE balance

Init == balance = [e \in Enterprises |-> 0]

Earn(e, n) == balance' = [balance EXCEPT ![e] = Wrap(@ + n)]
Consume(e, n) == balance' = [balance EXCEPT ![e] = Wrap(@ - n)]

\* What InitLedger does to an account.
Clear(e) == balance' = [balance EXCEPT ![e] = 0]

Next ==
    \E e \in Enterprises :
        \/ Clear(e)
        \/ \E n \in Amounts : Earn(e, n) \/ Consume(e, n)

Spec == Init /\ [][Next]_balance

=============================================================================
