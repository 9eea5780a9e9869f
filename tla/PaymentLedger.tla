--------------------------- MODULE PaymentLedger ---------------------------
(***************************************************************************)
(* payments/services.py: PaymentService over the Transaction rows, the     *)
(* user's balance and the Korapay gateway.                                 *)
(*                                                                         *)
(* Web and task workers run the handlers side by side.  verify_deposit and *)
(* handle_webhook lock the Transaction row (select_for_update) and commit  *)
(* it together with the balance; create_deposit and create_withdrawal      *)
(* insert a row no one else sees before the commit; reconcile_transactions *)
(* has no transaction: every save and every credit of it is a commit of    *)
(* its own, made from rows it read when the pass began.  A full-row        *)
(* user.save() (accounts/views.py, config/tasks.py sync_mt5_data) writes   *)
(* back every column of the user: the balance it read earlier, or the one  *)
(* the broker reports.                                                     *)
(* A worker may die at any point: its open database transaction rolls      *)
(* back and its row locks are released.                                    *)
(***************************************************************************)
EXTENDS Integers, FiniteSets, FiniteSetsExt

CONSTANTS
    Users, Deposits, Withdrawals, Owner, Amount, Opening,   \* as in LedgerBook
    Verified,       \* users with a VERIFIED KYC record
    Workers,        \* web and celery workers
    Reconcilers,    \* the workers that may run a reconciliation pass
    Editors,        \* the workers that may save a whole User row
    Terminal,       \* balance of each user's account at the broker
    NoRef, NoWorker \* model values

Refs == Deposits \union Withdrawals

ASSUME PaymentAssumption ==
    /\ Owner \in [Refs -> Users]
    /\ Amount \in [Refs -> Nat]
    /\ Opening \in [Users -> Int]
    /\ Terminal \in [Users -> Int]
    /\ Verified \subseteq Users
    /\ Reconcilers \subseteq Workers
    /\ Editors \subseteq Workers
    /\ Deposits \intersect Withdrawals = {}
    /\ NoRef \notin Refs
    /\ NoWorker \notin Workers

VARIABLES
    tx,       \* status of each Transaction row, "ABSENT" before it is committed
    balance,  \* accounts.User.balance
    gw,       \* the gateway's own record of each payment (external)
    lock,     \* worker that holds the row lock of a Transaction
    job,      \* what each worker has read and where it stands
    posted    \* history: how many times a deposit was added to a balance

vars == <<tx, balance, gw, lock, job, posted>>

Statuses == {"ABSENT", "PENDING", "PROCESSING", "COMPLETED", "FAILED"}
Verdicts == {"none", "open", "success", "failed"}
Ops      == {"idle", "init", "inited", "verify", "verified", "withdraw",
             "pass", "asked", "saved", "edit"}
Answers  == {"none", "ok", "error", "success", "failed", "pending"}

\* What a request works on is a payment of its kind.
Fits(op, r) ==
    /\ op \in {"init", "inited", "verify", "verified", "asked", "saved"} => r \in Deposits
    /\ op = "withdraw" => r \in Withdrawals

Jobs == {j \in [op: Ops, ref: Refs \union {NoRef}, ans: Answers, have: [Users -> Int],
                todo: SUBSET Deposits] : Fits(j.op, j.ref)}

\* A worker with nothing in flight, and one that has just begun op on r.
Fresh(op, r) == [op |-> op, ref |-> r, ans |-> "none", have |-> Opening, todo |-> {}]
Idle == Fresh("idle", NoRef)

Become(w, j) == job' = [job EXCEPT ![w] = j]
Is(w, op)    == job[w].op = op
Ref(w)       == job[w].ref
\* Variant: rows read without select_for_update.
FreeUnlocked(r) == TRUE

Free(r)      == lock[r] = NoWorker
Unused(r)    == tx[r] = "ABSENT" /\ gw[r] = "none" /\ \A w \in Workers : Ref(w) # r

Init ==
    /\ tx = [r \in Refs |-> "ABSENT"]
    /\ balance = Opening
    /\ gw = [r \in Refs |-> "none"]
    /\ lock = [r \in Refs |-> NoWorker]
    /\ job = [w \in Workers |-> Idle]
    /\ posted = [d \in Deposits |-> 0]

\* The row d becomes COMPLETED and its net amount reaches the balance: one commit.
Post(d) ==
    /\ balance' = [balance EXCEPT ![Owner[d]] = @ + Amount[d]]
    /\ posted' = [posted EXCEPT ![d] = @ + 1]

-----------------------------------------------------------------------------
(* create_deposit *)

CreateDeposit(w, d) ==
    /\ Is(w, "idle")
    /\ Unused(d)
    /\ Become(w, Fresh("init", d))
    /\ UNCHANGED <<tx, balance, gw, lock, posted>>

\* korapay.initialize_transaction: the answer may be lost after the gateway
\* registered the payment (three attempts, then status False).
CallInitialize(w) ==
    /\ Is(w, "init")
    /\ \E ans \in {"ok", "error"}, g \in {"none", "open"} :
         /\ ans = "ok" => g = "open"
         /\ gw' = [gw EXCEPT ![Ref(w)] = g]
         /\ Become(w, [job[w] EXCEPT !.op = "inited", !.ans = ans])
    /\ UNCHANGED <<tx, balance, lock, posted>>

CommitDeposit(w) ==
    /\ Is(w, "inited")
    /\ tx' = [tx EXCEPT ![Ref(w)] = IF job[w].ans = "ok" THEN "PROCESSING" ELSE "FAILED"]
    /\ Become(w, Idle)
    /\ UNCHANGED <<balance, gw, lock, posted>>

-----------------------------------------------------------------------------
(* verify_deposit: the view a client calls, and the gateway's redirect *)

LockForVerify(w, d) ==
    /\ Is(w, "idle")
    /\ tx[d] \notin {"ABSENT", "COMPLETED"}
    /\ Free(d)
    /\ lock' = [lock EXCEPT ![d] = w]
    /\ Become(w, Fresh("verify", d))
    /\ UNCHANGED <<tx, balance, gw, posted>>

\* Variant: the envelope's status is read as the payment's status.
AnswerForEnvelope(r) == IF gw[r] = "none" THEN {"pending"} ELSE {"success"}

\* What verify_transaction can answer: the gateway's verdict, or "pending"
\* while it has none and when the gateway cannot be reached.
AnswerFor(r) == {"pending"} \union ({gw[r]} \intersect {"success", "failed"})

AskVerify(w) ==
    /\ Is(w, "verify")
    /\ \E ans \in AnswerFor(Ref(w)) :
         Become(w, [job[w] EXCEPT !.op = "verified", !.ans = ans])
    /\ UNCHANGED <<tx, balance, gw, lock, posted>>

CommitVerify(w) ==
    /\ Is(w, "verified")
    /\ \/ /\ job[w].ans = "success"
          /\ tx' = [tx EXCEPT ![Ref(w)] = "COMPLETED"]
          /\ Post(Ref(w))
       \/ /\ job[w].ans = "failed"
          /\ tx' = [tx EXCEPT ![Ref(w)] = "FAILED"]
          /\ UNCHANGED <<balance, posted>>
       \/ /\ job[w].ans = "pending"
          /\ tx' = [tx EXCEPT ![Ref(w)] = "PROCESSING"]
          /\ UNCHANGED <<balance, posted>>
    /\ lock' = [lock EXCEPT ![Ref(w)] = NoWorker]
    /\ Become(w, Idle)
    /\ UNCHANGED gw

-----------------------------------------------------------------------------
(* create_withdrawal: request.user was loaded when the request was         *)
(* authenticated; the balance it holds is the one the check reads.         *)

LoadForWithdrawal(w, x) ==
    /\ Is(w, "idle")
    /\ Unused(x)
    /\ Become(w, [Fresh("withdraw", x) EXCEPT !.have = balance])
    /\ UNCHANGED <<tx, balance, gw, lock, posted>>

MayWithdraw(w) ==
    /\ Owner[Ref(w)] \in Verified
    /\ job[w].have[Owner[Ref(w)]] >= Amount[Ref(w)]

\* Variant: user.balance -= amount; user.save() instead of an F() update.
CommitWithdrawalStale(w) ==
    /\ Is(w, "withdraw")
    /\ MayWithdraw(w)
    /\ tx' = [tx EXCEPT ![Ref(w)] = "PENDING"]
    /\ balance' = [balance EXCEPT ![Owner[Ref(w)]] = job[w].have[Owner[Ref(w)]] - Amount[Ref(w)]]
    /\ Become(w, Idle)
    /\ UNCHANGED <<gw, lock, posted>>

CommitWithdrawal(w) ==
    /\ Is(w, "withdraw")
    /\ \/ /\ MayWithdraw(w)
          /\ tx' = [tx EXCEPT ![Ref(w)] = "PENDING"]
          /\ balance' = [balance EXCEPT ![Owner[Ref(w)]] = @ - Amount[Ref(w)]]
       \/ /\ ~MayWithdraw(w)
          /\ UNCHANGED <<tx, balance>>
    /\ Become(w, Idle)
    /\ UNCHANGED <<gw, lock, posted>>

-----------------------------------------------------------------------------
(* handle_webhook: one transaction under the row lock, no outside call.    *)
(* The gateway may deliver an event any number of times, at any time after *)
(* it happened, in any order.                                              *)

Emitted(r, ev) ==
    \/ ev = "payment.pending" /\ gw[r] # "none"
    \/ ev = "payment.success" /\ gw[r] = "success"
    \/ ev = "payment.failed"  /\ gw[r] = "failed"

WebhookUnknown(r, ev) ==
    /\ Emitted(r, ev)
    /\ tx[r] = "ABSENT"
    /\ UNCHANGED <<tx, balance, gw, lock, job, posted>>

\* Variants: the "Already processed" return is dropped; only a PROCESSING row completes.
WebhookSuccessRepeated(r) ==
    /\ Emitted(r, "payment.success") /\ Free(r)
    /\ tx[r] # "ABSENT"
    /\ tx' = [tx EXCEPT ![r] = "COMPLETED"]
    /\ r \in Deposits /\ Post(r)
    /\ UNCHANGED <<gw, lock, job>>

WebhookSuccessProcessing(r) ==
    /\ Emitted(r, "payment.success") /\ Free(r)
    /\ tx[r] = "PROCESSING"
    /\ tx' = [tx EXCEPT ![r] = "COMPLETED"]
    /\ r \in Deposits /\ Post(r)
    /\ UNCHANGED <<gw, lock, job>>

WebhookSuccess(r) ==
    /\ Emitted(r, "payment.success")
    /\ Free(r)
    /\ tx[r] \notin {"ABSENT", "COMPLETED"}
    /\ tx' = [tx EXCEPT ![r] = "COMPLETED"]
    /\ \/ r \in Deposits /\ Post(r)
       \/ r \in Withdrawals /\ UNCHANGED <<balance, posted>>
    /\ UNCHANGED <<gw, lock, job>>

WebhookFailed(r) ==
    /\ Emitted(r, "payment.failed")
    /\ Free(r)
    /\ tx[r] \notin {"ABSENT", "COMPLETED"}
    /\ tx' = [tx EXCEPT ![r] = "FAILED"]
    /\ UNCHANGED <<balance, gw, lock, job, posted>>

\* Variant: the event's own status is stored in the row.
WebhookPendingVerbatim(r) ==
    /\ Emitted(r, "payment.pending") /\ Free(r)
    /\ tx[r] \notin {"ABSENT", "COMPLETED"}
    /\ tx' = [tx EXCEPT ![r] = gw[r]]
    /\ UNCHANGED <<balance, gw, lock, job, posted>>

WebhookPending(r) ==
    /\ Emitted(r, "payment.pending")
    /\ Free(r)
    /\ tx[r] \notin {"ABSENT", "COMPLETED"}
    /\ tx' = [tx EXCEPT ![r] = "PROCESSING"]
    /\ UNCHANGED <<balance, gw, lock, job, posted>>

Webhook(r) ==
    \/ \E ev \in {"payment.pending", "payment.success", "payment.failed"} : WebhookUnknown(r, ev)
    \/ WebhookSuccess(r)
    \/ WebhookFailed(r)
    \/ WebhookPending(r)

-----------------------------------------------------------------------------
(* reconcile_transactions: no transaction, no row lock of its own *)

ListPending(w) ==
    /\ w \in Reconcilers
    /\ Is(w, "idle")
    /\ LET due == {d \in Deposits : tx[d] = "PROCESSING"} IN
         /\ due # {}
         /\ Become(w, [Fresh("pass", NoRef) EXCEPT !.todo = due])
    /\ UNCHANGED <<tx, balance, gw, lock, posted>>

AskReconcile(w, d) ==
    /\ Is(w, "pass")
    /\ d \in job[w].todo
    /\ \E ans \in AnswerFor(d) :
         Become(w, [job[w] EXCEPT !.op = "asked", !.ref = d, !.ans = ans, !.todo = @ \ {d}])
    /\ UNCHANGED <<tx, balance, gw, lock, posted>>

\* tx.save() of the row as the pass read it; the UPDATE waits for a row lock.
SaveReconcile(w) ==
    /\ Is(w, "asked")
    /\ \/ /\ job[w].ans = "success"
          /\ Free(Ref(w))
          /\ tx' = [tx EXCEPT ![Ref(w)] = "COMPLETED"]
          /\ Become(w, [job[w] EXCEPT !.op = "saved"])
       \/ /\ job[w].ans = "failed"
          /\ Free(Ref(w))
          /\ tx' = [tx EXCEPT ![Ref(w)] = "FAILED"]
          /\ Become(w, [job[w] EXCEPT !.op = "pass"])
       \/ /\ job[w].ans = "pending"
          /\ Become(w, [job[w] EXCEPT !.op = "pass"])
          /\ UNCHANGED tx
    /\ UNCHANGED <<balance, gw, lock, posted>>

CreditReconcile(w) ==
    /\ Is(w, "saved")
    /\ Post(Ref(w))
    /\ Become(w, [job[w] EXCEPT !.op = "pass"])
    /\ UNCHANGED <<tx, gw, lock>>

EndPass(w) ==
    /\ Is(w, "pass")
    /\ job[w].todo = {}
    /\ Become(w, Idle)
    /\ UNCHANGED <<tx, balance, gw, lock, posted>>

-----------------------------------------------------------------------------
(* A handler that loads a User, changes another column and saves the row *)

LoadUser(w) ==
    /\ w \in Editors
    /\ Is(w, "idle")
    /\ Become(w, [Fresh("edit", NoRef) EXCEPT !.have = balance])
    /\ UNCHANGED <<tx, balance, gw, lock, posted>>

\* sync_mt5_data takes the balance from the broker when it answers with one.
SaveUser(w, u) ==
    /\ Is(w, "edit")
    /\ \E b \in {job[w].have[u], Terminal[u]} : balance' = [balance EXCEPT ![u] = b]
    /\ Become(w, Idle)
    /\ UNCHANGED <<tx, gw, lock, posted>>

-----------------------------------------------------------------------------
(* A worker dies; the gateway settles a payment *)

Crash(w) ==
    /\ ~Is(w, "idle")
    /\ lock' = [r \in Refs |-> IF lock[r] = w THEN NoWorker ELSE lock[r]]
    /\ Become(w, Idle)
    /\ UNCHANGED <<tx, balance, gw, posted>>

\* A withdrawal is paid out by hand through the gateway once its row exists.
StartPayout(x) ==
    /\ tx[x] = "PENDING"
    /\ gw[x] = "none"
    /\ gw' = [gw EXCEPT ![x] = "open"]
    /\ UNCHANGED <<tx, balance, lock, job, posted>>

Settle(r) ==
    /\ gw[r] = "open"
    /\ \E v \in {"success", "failed"} : gw' = [gw EXCEPT ![r] = v]
    /\ UNCHANGED <<tx, balance, lock, job, posted>>

-----------------------------------------------------------------------------

\* A step of a request that is already under way.
Continue(w) ==
    \/ CallInitialize(w) \/ CommitDeposit(w)
    \/ AskVerify(w) \/ CommitVerify(w)
    \/ CommitWithdrawal(w)
    \/ \E d \in Deposits : AskReconcile(w, d)
    \/ SaveReconcile(w) \/ CreditReconcile(w) \/ EndPass(w)
    \/ \E u \in Users : SaveUser(w, u)

Begin(w) ==
    \/ \E d \in Deposits : CreateDeposit(w, d) \/ LockForVerify(w, d)
    \/ \E x \in Withdrawals : LoadForWithdrawal(w, x)
    \/ ListPending(w)
    \/ LoadUser(w)

Next ==
    \/ \E w \in Workers : Begin(w) \/ Continue(w) \/ Crash(w)
    \/ \E r \in Refs : Webhook(r) \/ Settle(r)
    \/ \E x \in Withdrawals : StartPayout(x)

Spec == Init /\ [][Next]_vars

\* A request under way goes on: the gateway call times out after 30 seconds and
\* three attempts.  The gateway repeats a success event until it is answered.
Fairness ==
    /\ \A w \in Workers : WF_vars(Continue(w))
    /\ \A r \in Refs : SF_vars(WebhookSuccess(r))

FairSpec == Spec /\ Fairness

-----------------------------------------------------------------------------

TypeOK ==
    /\ tx \in [Refs -> Statuses]
    /\ balance \in [Users -> Int]
    /\ gw \in [Refs -> Verdicts]
    /\ lock \in [Refs -> Workers \union {NoWorker}]
    /\ job \in [Workers -> Jobs]
    /\ posted \in [Deposits -> Nat]

\* A row is COMPLETED only for a payment the gateway itself counts as paid,
\* whichever handler, pass or event completed it (services.py:108, 197, 240).
CompletedIsPaid == \A r \in Refs : tx[r] = "COMPLETED" => gw[r] = "success"

\* No handler, late event or stale save takes a row out of COMPLETED: the
\* early returns of services.py:101 and 194 and the row lock are what keeps a
\* pending verdict read before the payment settled from undoing it.
CompletedIsFinal ==
    [][\A r \in Refs : tx[r] = "COMPLETED" => tx'[r] = "COMPLETED"]_vars

\* A deposit has been added to a balance once if its row is COMPLETED and never
\* otherwise (services.py:108-117, 197-209, 240-248).
PostedOnce ==
    \A d \in Deposits : posted[d] = IF tx[d] = "COMPLETED" THEN 1 ELSE 0

\* No deposit is added to a balance twice, whoever asks the gateway about it: a webhook for
\* a completed row answers "Already processed" (services.py:195), and a completed deposit is
\* not verified again (test_verify_deposit_already_completed, tests.py:329-346).  A
\* reconciliation pass credits each row it read as PROCESSING without looking at the row
\* again (services.py:237-248).
CreditedAtMostOnce == \A d \in Deposits : posted[d] <= 1

SumOf(S) == MapThenSumSet(LAMBDA r : Amount[r], S)

\* The balance is what the rows say: opening balance, plus the completed
\* deposits, less the withdrawals created (services.py:115, 176, 207, 246).
BalanceMatchesRows ==
    \A u \in Users :
        balance[u] =
            Opening[u]
              + SumOf({d \in Deposits : Owner[d] = u /\ tx[d] = "COMPLETED"})
              - SumOf({x \in Withdrawals : Owner[x] = u /\ tx[x] # "ABSENT"})

\* The check "Insufficient balance" (services.py:154) keeps an account from
\* going below zero.
NoOverdraft == \A u \in Users : balance[u] >= 0

\* A payment the gateway took for a deposit whose row exists ends COMPLETED,
\* even when the row had been marked FAILED after a lost answer.
PaidIsCompleted ==
    \A d \in Deposits : (gw[d] = "success" /\ tx[d] # "ABSENT") ~> (tx[d] = "COMPLETED")

\* The rows and the balance, seen as a LedgerBook.
Book == INSTANCE LedgerBook WITH
    credited <- {d \in Deposits : tx[d] = "COMPLETED"},
    debited  <- {x \in Withdrawals : tx[x] # "ABSENT"}

\* The locked handlers implement the book: each deposit is credited in the step
\* that completes it, each withdrawal debited in the step that creates it.
ImplementsBook == Book!Spec
=============================================================================
