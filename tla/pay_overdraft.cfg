SPECIFICATION Spec
CONSTANTS
    u1 = u1  d1 = d1  d2 = d2  x1 = x1  x2 = x2  w1 = w1  w2 = w2
    NoRef = NoRef  NoWorker = NoWorker
    Users <- OneUser
    Deposits <- Nothing
    Withdrawals = {x1, x2}
    Owner <- AllToU1
    Amount <- Amounts
    Opening <- OpenAt5
    Verified <- OneUser
    Terminal <- OpenAt5
    Workers = {w1, w2}
    Reconcilers <- Nothing
    Editors <- Nothing
INVARIANT NoOverdraft
CHECK_DEADLOCK FALSE
