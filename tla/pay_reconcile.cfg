SPECIFICATION Spec
CONSTANTS
    u1 = u1  d1 = d1  d2 = d2  x1 = x1  x2 = x2  w1 = w1  w2 = w2
    NoRef = NoRef  NoWorker = NoWorker
    Users <- OneUser
    Deposits = {d1}
    Withdrawals <- Nothing
    Owner <- AllToU1
    Amount <- Amounts
    Opening <- OpenAt2
    Verified <- OneUser
    Terminal <- OpenAt5
    Workers = {w1, w2}
    Reconcilers = {w1}
    Editors <- Nothing
INVARIANT CreditedAtMostOnce
CHECK_DEADLOCK FALSE
