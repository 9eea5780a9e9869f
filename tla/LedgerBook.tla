----------------------------- MODULE LedgerBook -----------------------------
(***************************************************************************)
(* What the payment service promises about an account: a deposit raises    *)
(* the owner's balance by its net amount once and never again, a           *)
(* withdrawal lowers it by its amount once, when it is created, and        *)
(* nothing else moves the balance.  PaymentLedger implements this module   *)
(* when neither the reconciliation pass nor a full-row save of the user    *)
(* runs beside the locked handlers (payments/services.py:22-222).          *)
(***************************************************************************)
EXTENDS Integers

CONSTANTS
    Users,        \* account owners
    Deposits,     \* references of deposits (DK-...)
    Withdrawals,  \* references of withdrawals (DKW-...)
    Owner,        \* the user of each reference
    Amount,       \* net_amount of a deposit, amount of a withdrawal
    Opening       \* balance of each user before any of these payments

VARIABLES
    credited,     \* deposits already posted to a balance
    debited,      \* withdrawals already taken from a balance
    balance       \* accounts.User.balance

vars == <<credited, debited, balance>>

Init ==
    /\ credited = {}
    /\ debited = {}
    /\ balance = Opening

Credit(d) ==
    /\ d \notin credited
    /\ credited' = credited \union {d}
    /\ balance' = [balance EXCEPT ![Owner[d]] = @ + Amount[d]]
    /\ UNCHANGED debited

Debit(x) ==
    /\ x \notin debited
    /\ debited' = debited \union {x}
    /\ balance' = [balance EXCEPT ![Owner[x]] = @ - Amount[x]]
    /\ UNCHANGED credited

Next ==
    \/ \E d \in Deposits : Credit(d)
    \/ \E x \in Withdrawals : Debit(x)

Spec == Init /\ [][Next]_vars
=============================================================================
