SPECIFICATION Spec
CONSTANTS
    NoTicket = NoTicket
    Tickets = {s1, o1, o2}
    Seeded = {s1}
    Buys = {s1, o2}
    Workers = {w1, w2}
    Enforcers = {w2}
    Levels = {"gain"}
    MaxUnits = 3
    MaxDailyTrades = 2
    Lossy = FALSE
INVARIANT OpenIsBooked
