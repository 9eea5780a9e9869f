------------------------ MODULE PaymentLedgerProofs ------------------------
(***************************************************************************)
(* Proofs about PaymentLedger for any set of users, payments and workers.  *)
(***************************************************************************)
EXTENDS PaymentLedger, SumLemmas

\* What a begun request looks like is a job.
LEMMA FreshIsJob ==
    ASSUME NEW op \in Ops, NEW r \in Refs \union {NoRef}, Fits(op, r)
    PROVE  Fresh(op, r) \in Jobs
  BY PaymentAssumption DEF Fresh, Jobs, Answers

\* Changing one worker's job to another job keeps the table of jobs typed.
LEMMA BecomeTyped ==
    ASSUME job \in [Workers -> Jobs], NEW w \in Workers, NEW j \in Jobs, Become(w, j)
    PROVE  job' \in [Workers -> Jobs]
  BY DEF Become

\* Adding a deposit to its owner's balance keeps balances and counts typed.
LEMMA PostTyped ==
    ASSUME TypeOK, NEW d \in Deposits, Post(d)
    PROVE  balance' \in [Users -> Int] /\ posted' \in [Deposits -> Nat]
<1>1. Owner[d] \in Users /\ Amount[d] \in Int
  BY PaymentAssumption DEF Refs
<1>2. balance[Owner[d]] + Amount[d] \in Int
  BY <1>1 DEF TypeOK
<1>3. posted[d] + 1 \in Nat
  BY DEF TypeOK
<1>4. QED
  BY <1>1, <1>2, <1>3 DEF TypeOK, Post

\* Every step is a step of a worker on a payment, of an event, or of the gateway.
LEMMA TypeStep == TypeOK /\ [Next]_vars => TypeOK'
<1> SUFFICES ASSUME TypeOK, [Next]_vars PROVE TypeOK'
  OBVIOUS
<1> USE PaymentAssumption
<1> Idle \in Jobs
  BY FreshIsJob DEF Idle, Ops, Fits
<1>1. ASSUME NEW w \in Workers, Begin(w) PROVE TypeOK'
  <2>1. ASSUME NEW d \in Deposits, CreateDeposit(w, d) PROVE TypeOK'
    BY <2>1, FreshIsJob, BecomeTyped DEF TypeOK, CreateDeposit, Ops, Fits, Refs
  <2>2. ASSUME NEW d \in Deposits, LockForVerify(w, d) PROVE TypeOK'
    <3>1. job' \in [Workers -> Jobs]
      BY <2>2, FreshIsJob, BecomeTyped DEF TypeOK, LockForVerify, Ops, Fits, Refs
    <3>2. QED
      BY <2>2, <3>1 DEF TypeOK, LockForVerify, Refs
  <2>3. ASSUME NEW x \in Withdrawals, LoadForWithdrawal(w, x) PROVE TypeOK'
    <3>1. [Fresh("withdraw", x) EXCEPT !.have = balance] \in Jobs
      BY FreshIsJob DEF TypeOK, Fresh, Jobs, Fits, Ops, Refs, Answers
    <3>2. QED
      BY <2>3, <3>1, BecomeTyped DEF TypeOK, LoadForWithdrawal
  <2>4. CASE ListPending(w)
    <3> DEFINE due == {d \in Deposits : tx[d] = "PROCESSING"}
    <3>1. [Fresh("pass", NoRef) EXCEPT !.todo = due] \in Jobs
      BY FreshIsJob DEF Fresh, Jobs, Fits, Ops, Answers
    <3>2. QED
      BY <2>4, <3>1, BecomeTyped DEF TypeOK, ListPending
  <2>5. CASE LoadUser(w)
    <3>1. [Fresh("edit", NoRef) EXCEPT !.have = balance] \in Jobs
      BY FreshIsJob DEF TypeOK, Fresh, Jobs, Fits, Ops, Answers
    <3>2. QED
      BY <2>5, <3>1, BecomeTyped DEF TypeOK, LoadUser
  <2>6. QED
    BY <1>1, <2>1, <2>2, <2>3, <2>4, <2>5 DEF Begin
<1>2. ASSUME NEW w \in Workers, Continue(w) PROVE TypeOK'
  <2> job[w] \in Jobs
    BY DEF TypeOK
  <2>1. CASE CallInitialize(w)
    <3> PICK ans \in {"ok", "error"}, g \in {"none", "open"} :
          /\ gw' = [gw EXCEPT ![Ref(w)] = g]
          /\ Become(w, [job[w] EXCEPT !.op = "inited", !.ans = ans])
      BY <2>1 DEF CallInitialize
    <3>1. [job[w] EXCEPT !.op = "inited", !.ans = ans] \in Jobs
      BY <2>1 DEF CallInitialize, Is, Jobs, Fits, Ops, Answers
    <3>2. job' \in [Workers -> Jobs]
      BY <3>1, BecomeTyped DEF TypeOK
    <3>3. QED
      BY <2>1, <3>2 DEF TypeOK, CallInitialize, Verdicts
  <2>2. CASE CommitDeposit(w)
    <3>1. job' \in [Workers -> Jobs]
      BY <2>2, BecomeTyped DEF TypeOK, CommitDeposit
    <3>2. QED
      BY <2>2, <3>1 DEF TypeOK, CommitDeposit, Statuses
  <2>3. CASE AskVerify(w)
    <3> PICK ans \in AnswerFor(Ref(w)) :
          Become(w, [job[w] EXCEPT !.op = "verified", !.ans = ans])
      BY <2>3 DEF AskVerify
    <3>1. [job[w] EXCEPT !.op = "verified", !.ans = ans] \in Jobs
      BY <2>3 DEF AskVerify, Is, Jobs, Fits, Ops, Answers, AnswerFor
    <3>2. job' \in [Workers -> Jobs]
      BY <3>1, BecomeTyped DEF TypeOK
    <3>3. QED
      BY <2>3, <3>2 DEF TypeOK, AskVerify
  <2>4. CASE CommitVerify(w)
    <3> Ref(w) \in Deposits
      BY <2>4 DEF CommitVerify, Is, Ref, Jobs, Fits
    <3>1. job' \in [Workers -> Jobs]
      BY <2>4, BecomeTyped DEF TypeOK, CommitVerify
    <3>2. tx' \in [Refs -> Statuses] /\ lock' \in [Refs -> Workers \union {NoWorker}]
      BY <2>4 DEF TypeOK, CommitVerify, Statuses
    <3>3. balance' \in [Users -> Int] /\ posted' \in [Deposits -> Nat]
      BY <2>4, PostTyped DEF TypeOK, CommitVerify
    <3>4. QED
      BY <2>4, <3>1, <3>2, <3>3 DEF TypeOK, CommitVerify
  <2>5. CASE CommitWithdrawal(w)
    <3> Ref(w) \in Withdrawals
      BY <2>5 DEF CommitWithdrawal, Is, Ref, Jobs, Fits
    <3>1. job' \in [Workers -> Jobs]
      BY <2>5, BecomeTyped DEF TypeOK, CommitWithdrawal
    <3>2. tx' \in [Refs -> Statuses]
      BY <2>5 DEF TypeOK, CommitWithdrawal, Statuses
    <3>3. Owner[Ref(w)] \in Users /\ Amount[Ref(w)] \in Int
      BY DEF Refs
    <3>4. balance[Owner[Ref(w)]] - Amount[Ref(w)] \in Int
      BY <3>3 DEF TypeOK
    <3>5. balance' \in [Users -> Int]
      BY <2>5, <3>4 DEF TypeOK, CommitWithdrawal
    <3>6. QED
      BY <2>5, <3>1, <3>2, <3>5 DEF TypeOK, CommitWithdrawal
  <2>6. ASSUME NEW d \in Deposits, AskReconcile(w, d) PROVE TypeOK'
    <3> PICK ans \in AnswerFor(d) :
          Become(w, [job[w] EXCEPT !.op = "asked", !.ref = d, !.ans = ans, !.todo = @ \ {d}])
      BY <2>6 DEF AskReconcile
    <3>1. [job[w] EXCEPT !.op = "asked", !.ref = d, !.ans = ans, !.todo = @ \ {d}] \in Jobs
      BY DEF Jobs, Fits, Ops, Answers, AnswerFor, Refs
    <3>2. job' \in [Workers -> Jobs]
      BY <3>1, BecomeTyped DEF TypeOK
    <3>3. QED
      BY <2>6, <3>2 DEF TypeOK, AskReconcile
  <2>7. CASE SaveReconcile(w)
    <3>1. /\ [job[w] EXCEPT !.op = "saved"] \in Jobs
          /\ [job[w] EXCEPT !.op = "pass"] \in Jobs
      BY <2>7 DEF SaveReconcile, Is, Jobs, Fits, Ops
    <3>2. job' \in [Workers -> Jobs]
      BY <2>7, <3>1, BecomeTyped DEF TypeOK, SaveReconcile
    <3>3. QED
      BY <2>7, <3>2 DEF TypeOK, SaveReconcile, Statuses
  <2>8. CASE CreditReconcile(w)
    <3> Ref(w) \in Deposits
      BY <2>8 DEF CreditReconcile, Is, Ref, Jobs, Fits
    <3>1. [job[w] EXCEPT !.op = "pass"] \in Jobs
      BY DEF Jobs, Fits, Ops
    <3>2. job' \in [Workers -> Jobs]
      BY <2>8, <3>1, BecomeTyped DEF TypeOK, CreditReconcile
    <3>3. balance' \in [Users -> Int] /\ posted' \in [Deposits -> Nat]
      BY <2>8, PostTyped DEF CreditReconcile
    <3>4. QED
      BY <2>8, <3>2, <3>3 DEF TypeOK, CreditReconcile
  <2>9. CASE EndPass(w)
    BY <2>9, BecomeTyped DEF TypeOK, EndPass
  <2>10. ASSUME NEW u \in Users, SaveUser(w, u) PROVE TypeOK'
    <3>1. job' \in [Workers -> Jobs]
      BY <2>10, BecomeTyped DEF TypeOK, SaveUser
    <3>2. job[w].have[u] \in Int /\ Terminal[u] \in Int
      BY PaymentAssumption DEF Jobs
    <3>3. QED
      BY <2>10, <3>1, <3>2 DEF TypeOK, SaveUser
  <2>11. QED
    BY <1>2, <2>1, <2>2, <2>3, <2>4, <2>5, <2>6, <2>7, <2>8, <2>9, <2>10 DEF Continue
<1>3. ASSUME NEW w \in Workers, Crash(w) PROVE TypeOK'
  <2>1. job' \in [Workers -> Jobs]
    BY <1>3, BecomeTyped DEF TypeOK, Crash
  <2>2. QED
    BY <1>3, <2>1 DEF TypeOK, Crash
<1>4. ASSUME NEW r \in Refs, Webhook(r) PROVE TypeOK'
  <2>1. ASSUME NEW ev, WebhookUnknown(r, ev) PROVE TypeOK'
    BY <2>1 DEF TypeOK, WebhookUnknown
  <2>2. CASE WebhookSuccess(r)
    <3>1. balance' \in [Users -> Int] /\ posted' \in [Deposits -> Nat]
      BY <2>2, PostTyped DEF TypeOK, WebhookSuccess
    <3>2. QED
      BY <2>2, <3>1 DEF TypeOK, WebhookSuccess, Statuses
  <2>3. CASE WebhookFailed(r)
    BY <2>3 DEF TypeOK, WebhookFailed, Statuses
  <2>4. CASE WebhookPending(r)
    BY <2>4 DEF TypeOK, WebhookPending, Statuses
  <2>5. QED
    BY <1>4, <2>1, <2>2, <2>3, <2>4 DEF Webhook
<1>5. ASSUME NEW r \in Refs, Settle(r) PROVE TypeOK'
  BY <1>5 DEF TypeOK, Settle, Verdicts
<1>6. ASSUME NEW x \in Withdrawals, StartPayout(x) PROVE TypeOK'
  BY <1>6 DEF TypeOK, StartPayout, Verdicts
<1>7. CASE UNCHANGED vars
  BY <1>7 DEF TypeOK, vars
<1>8. QED
  BY <1>1, <1>2, <1>3, <1>4, <1>5, <1>6, <1>7 DEF Next

LEMMA TypeInit == Init => TypeOK
<1> SUFFICES ASSUME Init PROVE TypeOK
  OBVIOUS
<1>1. Idle \in Jobs
  BY FreshIsJob DEF Idle, Ops, Fits
<1>2. job \in [Workers -> Jobs]
  BY <1>1 DEF Init
<1>3. balance \in [Users -> Int]
  BY PaymentAssumption DEF Init
<1>4. QED
  BY <1>2, <1>3 DEF Init, TypeOK, Statuses, Verdicts

\* Every variable keeps its type (the rows, the balances, the row locks and what
\* each worker has read).
THEOREM TypeCorrect == Spec => []TypeOK
  BY TypeInit, TypeStep, PTL DEF Spec
-----------------------------------------------------------------------------
(* The inductive invariant: what a request in flight knows is still true.   *)

Creating(w) == job[w].op \in {"init", "inited", "withdraw"}
Holding(w)  == job[w].op \in {"verify", "verified"}
Answered(w) == job[w].op \in {"verified", "asked"}

\* A verification holds its row's lock, and the row cannot complete meanwhile.
LockHeld ==
    \A w \in Workers : Holding(w) =>
        lock[Ref(w)] = w /\ tx[Ref(w)] \notin {"ABSENT", "COMPLETED"}

\* A row being created is not there yet, and has one creator.
NewRows ==
    \A w \in Workers : Creating(w) =>
        /\ tx[Ref(w)] = "ABSENT"
        /\ Is(w, "init") => gw[Ref(w)] = "none"
        /\ \A v \in Workers : Creating(v) /\ Ref(v) = Ref(w) => v = w

\* A pass works on rows that exist.
RowsExist ==
    \A w \in Workers :
        /\ job[w].op \in {"asked", "saved"} => tx[Ref(w)] # "ABSENT"
        /\ \A d \in job[w].todo : tx[d] # "ABSENT"

\* A verdict that was read stays true: the gateway settles once.
AnswersTrue ==
    \A w \in Workers : Answered(w) =>
        /\ job[w].ans \in {"success", "failed", "pending"}
        /\ job[w].ans = "success" => gw[Ref(w)] = "success"
        /\ job[w].ans = "failed" => gw[Ref(w)] = "failed"

InFlight ==
    /\ LockHeld
    /\ NewRows
    /\ RowsExist
    /\ AnswersTrue
    /\ CompletedIsPaid

IInv == TypeOK /\ InFlight

LEMMA IInvInit == Init => IInv
  BY TypeInit DEF Init, IInv, InFlight, LockHeld, NewRows, RowsExist, AnswersTrue, CompletedIsPaid,
     Creating, Holding, Answered, Idle, Fresh, Is, Ref

LEMMA IInvStep == IInv /\ [Next]_vars => IInv'
<1> SUFFICES ASSUME IInv, [Next]_vars PROVE IInv'
  OBVIOUS
<1>t. TypeOK'
  BY TypeStep DEF IInv
<1> USE PaymentAssumption DEF Creating, Holding, Answered, Is, Ref
<1>1. ASSUME NEW w \in Workers, Begin(w) PROVE InFlight'
  <2> USE DEF InFlight, LockHeld, NewRows, RowsExist, AnswersTrue, CompletedIsPaid
  <2>1. ASSUME NEW d \in Deposits, CreateDeposit(w, d) PROVE InFlight'
    BY <2>1, <1>t DEF IInv, TypeOK, Jobs, Fits, CreateDeposit, Become, Fresh, Unused, Refs
  <2>2. ASSUME NEW d \in Deposits, LockForVerify(w, d) PROVE InFlight'
    BY <2>2, <1>t DEF IInv, TypeOK, Jobs, Fits, LockForVerify, Become, Fresh, Refs, Free
  <2>3. ASSUME NEW x \in Withdrawals, LoadForWithdrawal(w, x) PROVE InFlight'
    BY <2>3, <1>t DEF IInv, TypeOK, Jobs, Fits, LoadForWithdrawal, Become, Fresh, Unused, Refs
  <2>4. CASE ListPending(w)
    BY <2>4, <1>t DEF IInv, TypeOK, Jobs, Fits, ListPending, Become, Fresh, Refs
  <2>5. CASE LoadUser(w)
    BY <2>5, <1>t DEF IInv, TypeOK, Jobs, Fits, LoadUser, Become, Fresh, Refs
  <2>6. QED
    BY <1>1, <2>1, <2>2, <2>3, <2>4, <2>5 DEF Begin
<1>2. ASSUME NEW w \in Workers, Continue(w) PROVE InFlight'
  <2> USE DEF InFlight, LockHeld, NewRows, RowsExist, AnswersTrue, CompletedIsPaid
  <2>1. CASE CallInitialize(w)
    BY <2>1, <1>t DEF IInv, TypeOK, Jobs, Fits, CallInitialize, Become, Refs
  <2>2. CASE CommitDeposit(w)
    BY <2>2, <1>t DEF IInv, TypeOK, Jobs, Fits, CommitDeposit, Become, Idle, Fresh, Refs
  <2>3. CASE AskVerify(w)
    BY <2>3, <1>t DEF IInv, TypeOK, Jobs, Fits, AskVerify, Become, AnswerFor, Refs
  <2>4. CASE CommitVerify(w)
    BY <2>4, <1>t DEF IInv, TypeOK, Jobs, Fits, CommitVerify, Become, Idle, Fresh, Refs
  <2>5. CASE CommitWithdrawal(w)
    BY <2>5, <1>t DEF IInv, TypeOK, Jobs, Fits, CommitWithdrawal, Become, Idle, Fresh, Refs
  <2>6. ASSUME NEW d \in Deposits, AskReconcile(w, d) PROVE InFlight'
    BY <2>6, <1>t DEF IInv, TypeOK, Jobs, Fits, AskReconcile, Become, AnswerFor, Refs
  <2>7. CASE SaveReconcile(w)
    <3> USE <2>7, <1>t DEF IInv, TypeOK, Jobs, Fits, SaveReconcile, Become, Refs
    <3>1. \/ tx' = tx
          \/ /\ Free(Ref(w)) /\ tx[Ref(w)] # "ABSENT"
             /\ \/ tx' = [tx EXCEPT ![Ref(w)] = "COMPLETED"] /\ gw[Ref(w)] = "success"
                \/ tx' = [tx EXCEPT ![Ref(w)] = "FAILED"]
      OBVIOUS
    <3>2. job' = [job EXCEPT ![w] = [job[w] EXCEPT !.op = "saved"]]
          \/ job' = [job EXCEPT ![w] = [job[w] EXCEPT !.op = "pass"]]
      OBVIOUS
    <3>3. LockHeld'
      <4>1. \A v \in Workers : Holding(v)' => Holding(v) /\ Ref(v)' = Ref(v)
        BY <3>2, SMTT(30)
      <4>2. \A v \in Workers : Holding(v) =>
              /\ lock[Ref(v)] = v /\ v # NoWorker
              /\ tx[Ref(v)] \notin {"ABSENT", "COMPLETED"}
        OBVIOUS
      <4>3. \A v \in Workers : Holding(v) => tx'[Ref(v)] = tx[Ref(v)]
        BY <3>1, <4>2 DEF Free
      <4>4. lock' = lock
        OBVIOUS
      <4>5. QED
        BY <4>1, <4>2, <4>3, <4>4
    <3>e. \A r \in Refs : tx[r] # "ABSENT" => tx'[r] # "ABSENT"
      BY <3>1
    <3>4. NewRows'
      <4>1. \A v \in Workers : Creating(v)' => Creating(v) /\ v # w /\ Ref(v)' = Ref(v)
        BY <3>2
      <4>2. \A v \in Workers : Creating(v) => tx[Ref(v)] = "ABSENT" /\ Ref(v) \in Refs
        OBVIOUS
      <4>3. \A v \in Workers : Creating(v) => tx'[Ref(v)] = "ABSENT"
        BY <3>1, <4>2
      <4>4. QED
        BY <4>1, <4>3
    <3>5. RowsExist'
      <4>1. \A v \in Workers : job'[v].todo = job[v].todo /\ job'[v].ref = job[v].ref
        BY <3>2
      <4>2. \A v \in Workers : \A d \in job[v].todo : d \in Refs /\ tx[d] # "ABSENT"
        OBVIOUS
      <4>3. \A v \in Workers : \A d \in job[v].todo : tx'[d] # "ABSENT"
        BY <4>2, <3>e
      <4>4. ASSUME NEW v \in Workers, job'[v].op \in {"asked", "saved"}
            PROVE  tx'[Ref(v)] # "ABSENT"
        <5>1. job[v].op \in {"asked", "saved"}
          BY <3>2, <4>4
        <5>2. tx[Ref(v)] # "ABSENT" /\ Ref(v) \in Refs
          BY <5>1
        <5>3. QED
          BY <5>2, <3>e
      <4>5. QED
        BY <4>1, <4>3, <4>4
    <3>6. AnswersTrue'
      <4>1. \A v \in Workers : Answered(v)' => Answered(v) /\ job'[v] = job[v]
        BY <3>2
      <4>2. gw' = gw
        OBVIOUS
      <4>3. QED
        BY ONLY IInv, <4>1, <4>2 DEF IInv, InFlight, AnswersTrue, Answered, Ref
    <3>7. CompletedIsPaid'
      BY <3>1
    <3>8. QED
      BY <3>3, <3>4, <3>5, <3>6, <3>7
  <2>8. CASE CreditReconcile(w)
    BY <2>8, <1>t DEF IInv, TypeOK, Jobs, Fits, CreditReconcile, Become, Refs
  <2>9. CASE EndPass(w)
    BY <2>9, <1>t DEF IInv, TypeOK, Jobs, Fits, EndPass, Become, Idle, Fresh, Refs
  <2>10. ASSUME NEW u \in Users, SaveUser(w, u) PROVE InFlight'
    BY <2>10, <1>t DEF IInv, TypeOK, Jobs, Fits, SaveUser, Become, Idle, Fresh, Refs
  <2>11. QED
    BY <1>2, <2>1, <2>2, <2>3, <2>4, <2>5, <2>6, <2>7, <2>8, <2>9, <2>10 DEF Continue
<1>3. ASSUME NEW w \in Workers, Crash(w) PROVE InFlight'
  BY <1>3, <1>t DEF IInv, InFlight, LockHeld, NewRows, RowsExist, AnswersTrue, CompletedIsPaid, TypeOK, Jobs, Fits, Crash, Become, Idle, Fresh, Refs
<1>4. ASSUME NEW r \in Refs, Webhook(r) PROVE InFlight'
  <2> USE DEF InFlight, LockHeld, NewRows, RowsExist, AnswersTrue, CompletedIsPaid
  <2>1. ASSUME NEW ev, WebhookUnknown(r, ev) PROVE InFlight'
    BY <2>1, <1>t DEF IInv, WebhookUnknown
  <2>2. CASE WebhookSuccess(r)
    BY <2>2, <1>t DEF IInv, TypeOK, Jobs, Fits, WebhookSuccess, Refs, Free, Emitted
  <2>3. CASE WebhookFailed(r)
    BY <2>3, <1>t DEF IInv, TypeOK, Jobs, Fits, WebhookFailed, Refs, Free, Emitted
  <2>4. CASE WebhookPending(r)
    BY <2>4, <1>t DEF IInv, TypeOK, Jobs, Fits, WebhookPending, Refs, Free
  <2>5. QED
    BY <1>4, <2>1, <2>2, <2>3, <2>4 DEF Webhook
<1>5. ASSUME NEW r \in Refs, Settle(r) PROVE InFlight'
  BY <1>5, <1>t DEF IInv, InFlight, LockHeld, NewRows, RowsExist, AnswersTrue, CompletedIsPaid, TypeOK, Jobs, Fits, Settle, Refs
<1>6. ASSUME NEW x \in Withdrawals, StartPayout(x) PROVE InFlight'
  BY <1>6, <1>t DEF IInv, InFlight, LockHeld, NewRows, RowsExist, AnswersTrue, CompletedIsPaid, TypeOK, Jobs, Fits, StartPayout, Refs
<1>7. ASSUME UNCHANGED vars PROVE InFlight'
  BY <1>7, <1>t DEF IInv, InFlight, LockHeld, NewRows, RowsExist, AnswersTrue, CompletedIsPaid, TypeOK, vars
<1>8. InFlight'
  BY <1>1, <1>2, <1>3, <1>4, <1>5, <1>6, <1>7 DEF Next
<1>9. QED
  BY <1>8, <1>t DEF IInv

THEOREM InvariantHolds == Spec => []IInv
  BY IInvInit, IInvStep, PTL DEF Spec

\* Whatever races the handlers, passes and saves run, a COMPLETED row belongs to a
\* payment the gateway counts as paid (services.py:108, 197, 240).
THEOREM PaidOnly == Spec => []CompletedIsPaid
<1>1. IInv => CompletedIsPaid
  BY DEF IInv, InFlight
<1>2. QED
  BY <1>1, InvariantHolds, PTL

\* No step takes a row out of COMPLETED: verifications hold the row lock from their
\* status check to their write, and a pass writes FAILED only on a true verdict.
THEOREM CompletedStays == Spec => CompletedIsFinal
<1> DEFINE Kept == \A r \in Refs : tx[r] = "COMPLETED" => tx'[r] = "COMPLETED"
<1>1. ASSUME IInv, Next PROVE Kept
  <2> USE <1>1, PaymentAssumption DEF IInv, InFlight, TypeOK
  <2>1. ASSUME NEW w \in Workers, Begin(w) \/ Crash(w) PROVE Kept
    BY <2>1 DEF Begin, CreateDeposit, LockForVerify, LoadForWithdrawal, ListPending,
       LoadUser, Crash
  <2>2. ASSUME NEW w \in Workers, Continue(w) PROVE Kept
    <3> USE DEF Creating, Holding, Answered, Is, Ref
    <3>1. CASE CommitDeposit(w)
      BY <3>1 DEF CommitDeposit, NewRows
    <3>2. CASE CommitVerify(w)
      BY <3>2 DEF CommitVerify, LockHeld
    <3>3. CASE CommitWithdrawal(w)
      BY <3>3 DEF CommitWithdrawal, NewRows
    <3>4. CASE SaveReconcile(w)
      BY <3>4 DEF SaveReconcile, AnswersTrue, CompletedIsPaid
    <3>5. CASE UNCHANGED tx
      BY <3>5
    <3>6. QED
      BY <2>2, <3>1, <3>2, <3>3, <3>4, <3>5 DEF Continue, CallInitialize, AskVerify,
         AskReconcile, CreditReconcile, EndPass, SaveUser
  <2>3. ASSUME NEW r \in Refs, Webhook(r) \/ Settle(r) PROVE Kept
    BY <2>3 DEF Webhook, WebhookUnknown, WebhookSuccess, WebhookFailed, WebhookPending, Settle
  <2>4. ASSUME NEW x \in Withdrawals, StartPayout(x) PROVE Kept
    BY <2>4 DEF StartPayout
  <2>5. QED
    BY <2>1, <2>2, <2>3, <2>4 DEF Next
<1>2. IInv /\ [Next]_vars => [Kept]_vars
  BY <1>1
<1>3. QED
  BY <1>2, InvariantHolds, PTL DEF Spec, CompletedIsFinal

-----------------------------------------------------------------------------
(* Without reconciliation passes the locked handlers post a deposit once.   *)

NoPass == \A w \in Workers : job[w].op \notin {"pass", "asked", "saved"}
Once   == NoPass /\ PostedOnce

LEMMA OnceStep ==
    ASSUME Reconcilers = {}, IInv, Once, [Next]_vars
    PROVE  Once'
<1> USE PaymentAssumption DEF IInv, InFlight, TypeOK, Once, NoPass, PostedOnce, Become, Is, Ref
<1>1. ASSUME NEW w \in Workers, Begin(w) \/ Crash(w) PROVE Once'
  <2> USE DEF Fresh, Idle
  <2>1. ASSUME NEW d \in Deposits, CreateDeposit(w, d) \/ LockForVerify(w, d) PROVE Once'
    BY <2>1 DEF CreateDeposit, LockForVerify
  <2>2. ASSUME NEW x \in Withdrawals, LoadForWithdrawal(w, x) PROVE Once'
    BY <2>2 DEF LoadForWithdrawal
  <2>3. CASE ListPending(w) \/ LoadUser(w)
    BY <2>3 DEF ListPending, LoadUser
  <2>4. CASE Crash(w)
    BY <2>4 DEF Crash
  <2>5. QED
    BY <1>1, <2>1, <2>2, <2>3, <2>4 DEF Begin
<1>2. ASSUME NEW w \in Workers, Continue(w) PROVE Once'
  <2> USE DEF Idle, Fresh
  <2>1. CASE CallInitialize(w)
    BY <2>1 DEF CallInitialize
  <2>2. CASE CommitDeposit(w)
    BY <2>2 DEF CommitDeposit, NewRows, Creating
  <2>3. CASE AskVerify(w)
    BY <2>3 DEF AskVerify
  <2>4. CASE CommitVerify(w)
    <3>1. Ref(w) \in Deposits /\ Ref(w) \in Refs /\ tx[Ref(w)] # "COMPLETED"
      BY <2>4 DEF CommitVerify, LockHeld, Holding, Jobs, Fits, Refs
    <3>2. NoPass'
      BY <2>4 DEF CommitVerify
    <3>3. PostedOnce'
      BY <2>4, <3>1 DEF CommitVerify, Post, Refs
    <3>4. QED
      BY <3>2, <3>3
  <2>5. CASE CommitWithdrawal(w)
    <3>1. Ref(w) \in Withdrawals
      BY <2>5 DEF CommitWithdrawal, Jobs, Fits
    <3>2. QED
      BY <2>5, <3>1 DEF CommitWithdrawal, Refs
  <2>6. CASE EndPass(w) \/ SaveReconcile(w) \/ CreditReconcile(w)
             \/ \E d \in Deposits : AskReconcile(w, d)
    BY <2>6 DEF EndPass, SaveReconcile, CreditReconcile, AskReconcile
  <2>7. CASE \E u \in Users : SaveUser(w, u)
    BY <2>7 DEF SaveUser
  <2>8. QED
    BY <1>2, <2>1, <2>2, <2>3, <2>4, <2>5, <2>6, <2>7 DEF Continue
<1>3. ASSUME NEW r \in Refs, Webhook(r) PROVE Once'
  <2>1. CASE WebhookSuccess(r)
    BY <2>1 DEF WebhookSuccess, Post, Refs
  <2>2. CASE ~WebhookSuccess(r)
    BY <1>3, <2>2 DEF Webhook, WebhookUnknown, WebhookFailed, WebhookPending, Refs
  <2>3. QED
    BY <2>1, <2>2
<1>4. ASSUME NEW r \in Refs, Settle(r) PROVE Once'
  BY <1>4 DEF Settle
<1>5. ASSUME NEW x \in Withdrawals, StartPayout(x) PROVE Once'
  BY <1>5 DEF StartPayout
<1>6. CASE UNCHANGED vars
  BY <1>6 DEF vars
<1>7. QED
  BY <1>1, <1>2, <1>3, <1>4, <1>5, <1>6 DEF Next

\* When no reconciliation pass runs, a deposit has been added to a balance once if its
\* row is COMPLETED and never otherwise, for any number of workers, repeated events
\* and crashes (services.py:92-126 and 181-222).
THEOREM CreditedOnce ==
    ASSUME Reconcilers = {}
    PROVE  Spec => []PostedOnce
<1>1. Init => Once
  BY DEF Init, Once, NoPass, PostedOnce, Idle, Fresh, Refs
<1>2. IInv /\ Once /\ [Next]_vars => Once'
  BY OnceStep
<1>3. Once => PostedOnce
  BY DEF Once
<1>4. QED
  BY <1>1, <1>2, <1>3, InvariantHolds, PTL DEF Spec

-----------------------------------------------------------------------------
(* The locked handlers implement LedgerBook.                                *)

Quiet == \A w \in Workers : job[w].op \notin {"pass", "asked", "saved", "edit"}

LEMMA QuietStep ==
    ASSUME Reconcilers = {}, Editors = {}, IInv, Quiet, [Next]_vars
    PROVE  Quiet'
<1> USE DEF IInv, TypeOK, Quiet, Become, Is, Ref, Fresh, Idle
<1>1. ASSUME NEW w \in Workers, Begin(w) \/ Continue(w) \/ Crash(w) PROVE Quiet'
  <2>1. ASSUME NEW d \in Deposits, CreateDeposit(w, d) \/ LockForVerify(w, d) PROVE Quiet'
    BY <2>1 DEF CreateDeposit, LockForVerify
  <2>2. ASSUME NEW x \in Withdrawals, LoadForWithdrawal(w, x) PROVE Quiet'
    BY <2>2 DEF LoadForWithdrawal
  <2>3. CASE ListPending(w) \/ LoadUser(w)
    BY <2>3, PaymentAssumption DEF ListPending, LoadUser
  <2>4. CASE CallInitialize(w)
    BY <2>4 DEF CallInitialize
  <2>7. CASE AskVerify(w)
    BY <2>7 DEF AskVerify
  <2>5. CASE CommitDeposit(w) \/ CommitVerify(w) \/ CommitWithdrawal(w)
             \/ Crash(w) \/ EndPass(w) \/ \E u \in Users : SaveUser(w, u)
    <3>1. Become(w, Idle)
      BY ONLY <2>5 DEF CommitDeposit, CommitVerify, CommitWithdrawal, Crash, EndPass, SaveUser
    <3>2. QED
      BY <3>1
  <2>6. CASE SaveReconcile(w) \/ CreditReconcile(w) \/ \E d \in Deposits : AskReconcile(w, d)
    BY <2>6 DEF SaveReconcile, CreditReconcile, AskReconcile
  <2>8. QED
    BY <1>1, <2>1, <2>2, <2>3, <2>4, <2>7, <2>5, <2>6 DEF Begin, Continue
<1>2. CASE UNCHANGED job
  BY <1>2
<1>3. QED
  BY <1>1, <1>2 DEF Next, vars, Webhook, WebhookUnknown, WebhookSuccess, WebhookFailed,
     WebhookPending, Settle, StartPayout

LEMMA BookStep ==
    ASSUME IInv, Quiet, [Next]_vars
    PROVE  [Book!Next]_(Book!vars)
<1> USE PaymentAssumption DEF IInv, InFlight, TypeOK, Quiet, Is, Ref, Book!vars
<1> DEFINE credited == {d \in Deposits : tx[d] = "COMPLETED"}
           debited  == {x \in Withdrawals : tx[x] # "ABSENT"}
           Same     == UNCHANGED <<credited, debited, balance>>
<1>1. ASSUME NEW w \in Workers, Begin(w) \/ Crash(w) PROVE Same
  <2>1. CASE Begin(w)
    <3>1. UNCHANGED <<tx, balance>>
      BY ONLY <2>1 DEF Begin, CreateDeposit, LockForVerify, LoadForWithdrawal, ListPending,
         LoadUser
    <3>2. QED
      BY <3>1
  <2>2. CASE Crash(w)
    BY <2>2 DEF Crash
  <2>3. QED
    BY <1>1, <2>1, <2>2
<1>2. ASSUME NEW w \in Workers, Continue(w) PROVE Book!Next \/ Same
  <2>1. CASE CommitDeposit(w)
    <3>1. Ref(w) \in Deposits /\ Ref(w) \in Refs /\ tx[Ref(w)] = "ABSENT"
      BY <2>1 DEF CommitDeposit, NewRows, Creating, Jobs, Fits, Refs
    <3>2. QED
      BY <2>1, <3>1 DEF CommitDeposit, Refs
  <2>2. CASE CommitVerify(w)
    <3>1. /\ Ref(w) \in Deposits /\ Ref(w) \in Refs
          /\ tx[Ref(w)] \notin {"ABSENT", "COMPLETED"}
      BY <2>2 DEF CommitVerify, LockHeld, Holding, Jobs, Fits, Refs
    <3>2. CASE job[w].ans = "success"
      <4> PICK d \in Deposits : d = Ref(w)
        BY <3>1
      <4>1. Book!Credit(d)
        BY <2>2, <3>1, <3>2 DEF CommitVerify, Post, Book!Credit, Refs
      <4>2. QED
        BY <4>1 DEF Book!Next
    <3>3. CASE job[w].ans # "success"
      BY <2>2, <3>1, <3>3 DEF CommitVerify, Refs
    <3>4. QED
      BY <3>2, <3>3
  <2>3. CASE CommitWithdrawal(w)
    <3>1. /\ Ref(w) \in Withdrawals /\ Ref(w) \in Refs /\ Ref(w) \notin Deposits
          /\ tx[Ref(w)] = "ABSENT"
      BY <2>3 DEF CommitWithdrawal, NewRows, Creating, Jobs, Fits, Refs
    <3>2. CASE MayWithdraw(w)
      <4> PICK x \in Withdrawals : x = Ref(w)
        BY <3>1
      <4>1. Book!Debit(x)
        BY <2>3, <3>1, <3>2 DEF CommitWithdrawal, Book!Debit, Refs
      <4>2. QED
        BY <4>1 DEF Book!Next
    <3>3. CASE ~MayWithdraw(w)
      BY <2>3, <3>3 DEF CommitWithdrawal
    <3>4. QED
      BY <3>2, <3>3
  <2>4. CASE UNCHANGED <<tx, balance>>
    BY <2>4
  <2>5. QED
    BY <1>2, <2>1, <2>2, <2>3, <2>4 DEF Continue, CallInitialize, AskVerify, AskReconcile,
       SaveReconcile, CreditReconcile, EndPass, SaveUser
<1>3. ASSUME NEW r \in Refs, Webhook(r) PROVE Book!Next \/ Same
  <2>1. CASE WebhookSuccess(r) /\ r \in Deposits
    <3>1. Book!Credit(r)
      BY <2>1 DEF WebhookSuccess, Post, Book!Credit, Refs
    <3>2. QED
      BY <2>1, <3>1 DEF Book!Next
  <2>2. CASE WebhookSuccess(r) /\ r \in Withdrawals
    BY <2>2 DEF WebhookSuccess, Refs
  <2>3. CASE ~WebhookSuccess(r)
    BY <1>3, <2>3 DEF Webhook, WebhookUnknown, WebhookFailed, WebhookPending, Refs
  <2>4. QED
    BY <2>1, <2>2, <2>3 DEF Refs
<1>4. ASSUME NEW r \in Refs, Settle(r) PROVE Same
  BY <1>4 DEF Settle
<1>5. ASSUME NEW x \in Withdrawals, StartPayout(x) PROVE Same
  BY <1>5 DEF StartPayout
<1>6. ASSUME UNCHANGED vars PROVE Same
  BY <1>6 DEF vars
<1>7. QED
  BY <1>1, <1>2, <1>3, <1>4, <1>5, <1>6 DEF Next

\* Every step of the locked handlers is a Credit, a Debit or no step of LedgerBook:
\* the balance moves with the row, in one commit, once for each payment.
THEOREM LockedHandlersImplementBook ==
    ASSUME Reconcilers = {}, Editors = {}
    PROVE  Spec => ImplementsBook
<1>1. Init => Quiet /\ Book!Init
  BY DEF Init, Quiet, Idle, Fresh, Book!Init, Refs
<1>2. IInv /\ Quiet /\ [Next]_vars => Quiet'
  BY QuietStep
<1>3. IInv /\ Quiet /\ [Next]_vars => [Book!Next]_(Book!vars)
  BY BookStep
<1>4. QED
  BY <1>1, <1>2, <1>3, InvariantHolds, PTL DEF Spec, ImplementsBook, Book!Spec

-----------------------------------------------------------------------------
(* The balance adds up: each step of the book moves it with one payment.    *)

Credited == {d \in Deposits : tx[d] = "COMPLETED"}
Debited  == {x \in Withdrawals : tx[x] # "ABSENT"}
By(S, u) == {r \in S : Owner[r] = u}

\* The rows of a user are finitely many, for each came in a step of its own.
AddsUp ==
    /\ IsFiniteSet(Credited) /\ IsFiniteSet(Debited)
    /\ \A u \in Users :
         balance[u] = Opening[u] + SumOver(Amount, By(Credited, u))
                                 - SumOver(Amount, By(Debited, u))

\* A payment more in S adds its amount to its owner's sum and to no other.
LEMMA SumByOwner ==
    ASSUME NEW S \in SUBSET Refs, IsFiniteSet(S), NEW r \in Refs, r \notin S, NEW u \in Users
    PROVE  /\ SumOver(Amount, By(S, u)) \in Int
           /\ SumOver(Amount, By(S \union {r}, u)) =
                SumOver(Amount, By(S, u)) + (IF Owner[r] = u THEN Amount[r] ELSE 0)
<1>1. \A x \in Refs : Amount[x] \in Int
  BY PaymentAssumption
<1>2. IsFiniteSet(By(S, u)) /\ By(S, u) \subseteq Refs /\ r \notin By(S, u)
  BY FS_Subset DEF By
<1>3. SumOver(Amount, By(S, u)) \in Int
  BY <1>1, <1>2, SumType
<1>4. CASE Owner[r] = u
  <2>1. By(S \union {r}, u) = By(S, u) \union {r}
    BY <1>4 DEF By
  <2>2. SumOver(Amount, By(S, u) \union {r}) = Amount[r] + SumOver(Amount, By(S, u))
    BY <1>1, <1>2, SumAdd
  <2>3. Amount[r] \in Int
    BY <1>1
  <2>4. Amount[r] + SumOver(Amount, By(S, u)) = SumOver(Amount, By(S, u)) + Amount[r]
    BY <1>3, <2>3
  <2>5. QED
    BY <1>3, <1>4, <2>1, <2>2, <2>4
<1>5. CASE Owner[r] # u
  <2>1. By(S \union {r}, u) = By(S, u)
    BY <1>5 DEF By
  <2>2. QED
    BY <1>3, <1>5, <2>1
<1>6. QED
  BY <1>4, <1>5

\* A step of the book keeps the sums and the balances together.
LEMMA AddsUpStep ==
    ASSUME TypeOK, AddsUp, [Book!Next]_(Book!vars)
    PROVE  AddsUp'
<1> USE PaymentAssumption DEF TypeOK, AddsUp
<1>0. Credited \subseteq Refs /\ Debited \subseteq Refs
  BY DEF Credited, Debited, Refs
<1>1. ASSUME NEW d \in Deposits, Book!Credit(d) PROVE AddsUp'
  <2>1. d \in Refs /\ d \notin Credited /\ Credited' = Credited \union {d} /\ Debited' = Debited
    BY <1>1 DEF Book!Credit, Credited, Debited, Refs
  <2>2. IsFiniteSet(Credited') /\ IsFiniteSet(Debited')
    BY <2>1, FS_AddElement
  <2>3. ASSUME NEW u \in Users
        PROVE  balance'[u] = Opening[u] + SumOver(Amount, By(Credited', u))
                                        - SumOver(Amount, By(Debited', u))
    <3>1. balance'[u] = balance[u] + (IF Owner[d] = u THEN Amount[d] ELSE 0)
      BY <1>1 DEF Book!Credit, Refs
    <3>2. /\ SumOver(Amount, By(Credited, u)) \in Int
          /\ SumOver(Amount, By(Credited', u)) =
               SumOver(Amount, By(Credited, u)) + (IF Owner[d] = u THEN Amount[d] ELSE 0)
      BY <2>1, <1>0, SumByOwner
    <3>3. SumOver(Amount, By(Debited, u)) \in Int
      <4>1. IsFiniteSet(By(Debited, u)) /\ \A x \in By(Debited, u) : Amount[x] \in Int
        BY <1>0, FS_Subset DEF By
      <4>2. QED
        BY <4>1, SumType
    <3>4. Opening[u] \in Int /\ Amount[d] \in Int
      BY <2>1
    <3>5. QED
      BY <2>1, <3>1, <3>2, <3>3, <3>4
  <2>4. QED
    BY <2>2, <2>3
<1>2. ASSUME NEW x \in Withdrawals, Book!Debit(x) PROVE AddsUp'
  <2>1. x \in Refs /\ x \notin Debited /\ Debited' = Debited \union {x} /\ Credited' = Credited
    BY <1>2 DEF Book!Debit, Credited, Debited, Refs
  <2>2. IsFiniteSet(Credited') /\ IsFiniteSet(Debited')
    BY <2>1, FS_AddElement
  <2>3. ASSUME NEW u \in Users
        PROVE  balance'[u] = Opening[u] + SumOver(Amount, By(Credited', u))
                                        - SumOver(Amount, By(Debited', u))
    <3>1. balance'[u] = balance[u] - (IF Owner[x] = u THEN Amount[x] ELSE 0)
      BY <1>2 DEF Book!Debit, Refs
    <3>2. /\ SumOver(Amount, By(Debited, u)) \in Int
          /\ SumOver(Amount, By(Debited', u)) =
               SumOver(Amount, By(Debited, u)) + (IF Owner[x] = u THEN Amount[x] ELSE 0)
      BY <2>1, <1>0, SumByOwner
    <3>3. SumOver(Amount, By(Credited, u)) \in Int
      <4>1. IsFiniteSet(By(Credited, u)) /\ \A r \in By(Credited, u) : Amount[r] \in Int
        BY <1>0, FS_Subset DEF By
      <4>2. QED
        BY <4>1, SumType
    <3>4. Opening[u] \in Int /\ Amount[x] \in Int
      BY <2>1
    <3>5. QED
      BY <2>1, <3>1, <3>2, <3>3, <3>4
  <2>4. QED
    BY <2>2, <2>3
<1>3. CASE UNCHANGED Book!vars
  BY <1>3 DEF Book!vars, Credited, Debited
<1>4. QED
  BY <1>1, <1>2, <1>3 DEF Book!Next

\* The balance is what the rows say, for any number of users, payments, workers and
\* repeated events: the opening balance, plus the deposits of the user that are
\* COMPLETED, less the withdrawals created (services.py:115, 176, 207).
THEOREM BalanceIsTheRows ==
    ASSUME Reconcilers = {}, Editors = {}
    PROVE  Spec => []BalanceMatchesRows
<1>1. Init => Quiet /\ AddsUp
  <2> SUFFICES ASSUME Init PROVE Quiet /\ AddsUp
    OBVIOUS
  <2>1. Credited = {} /\ Debited = {}
    BY DEF Init, Credited, Debited, Refs
  <2>2. \A u \in Users : By({}, u) = {} /\ Opening[u] \in Int /\ balance[u] = Opening[u]
    BY PaymentAssumption DEF By, Init
  <2>3. AddsUp
    BY <2>1, <2>2, SumEmpty, FS_EmptySet DEF AddsUp
  <2>4. Quiet
    BY DEF Init, Quiet, Idle, Fresh
  <2>5. QED
    BY <2>3, <2>4
<1>2. IInv /\ Quiet /\ [Next]_vars => Quiet'
  BY QuietStep
<1>3. IInv /\ Quiet /\ AddsUp /\ [Next]_vars => AddsUp'
  BY BookStep, AddsUpStep DEF IInv
<1>4. AddsUp => BalanceMatchesRows
  <2> SUFFICES ASSUME AddsUp, NEW u \in Users
      PROVE  balance[u] = Opening[u]
               + SumOf({d \in Deposits : Owner[d] = u /\ tx[d] = "COMPLETED"})
               - SumOf({x \in Withdrawals : Owner[x] = u /\ tx[x] # "ABSENT"})
    BY DEF BalanceMatchesRows
  <2>1. /\ By(Credited, u) = {d \in Deposits : Owner[d] = u /\ tx[d] = "COMPLETED"}
        /\ By(Debited, u) = {x \in Withdrawals : Owner[x] = u /\ tx[x] # "ABSENT"}
    BY DEF By, Credited, Debited
  <2>2. \A S : SumOf(S) = SumOver(Amount, S)
    BY DEF SumOf, SumOver
  <2>3. QED
    BY <2>1, <2>2 DEF AddsUp
<1>5. QED
  BY <1>1, <1>2, <1>3, <1>4, InvariantHolds, PTL DEF Spec
=============================================================================
