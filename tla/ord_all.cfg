SPECIFICATION FairSpec
CONSTANTS
    NoTicket = NoTicket
    Tickets = {s1, o1}
    Seeded = {s1}
    Buys = {s1}
    Workers = {w1, w2}
    Enforcers = {w2}
    Levels = {"gain"}
    MaxUnits = 3
    MaxDailyTrades = 2
    Lossy = TRUE
INVARIANTS TypeOK FilledIsBooked PositionsAreOpen
PROPERTIES DrawdownSticky DrawdownHalts
