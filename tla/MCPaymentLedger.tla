-------------------------- MODULE MCPaymentLedger --------------------------
(* Instances of PaymentLedger for TLC: deposits and withdrawals of one user *)
(* (the races are between requests on one account), net amounts that differ *)
(* so that crediting the wrong payment shows in the balance.                *)
EXTENDS PaymentLedger, TLC

CONSTANTS u1, d1, d2, x1, x2, w1, w2

OneUser == {u1}
AllToU1 == [r \in Refs |-> u1]
Amounts == [r \in Refs |-> IF r = d1 THEN 3 ELSE IF r = d2 THEN 4 ELSE IF r = x1 THEN 2 ELSE 5]
OpenAt2 == [u \in Users |-> 2]
OpenAt5 == [u \in Users |-> 5]
\* Runs with a single kind of payment give the other kind no reference at all.
Nothing == {}

WorkerSymmetry == Permutations(Workers)
=============================================================================
