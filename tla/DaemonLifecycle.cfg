SPECIFICATION RunningSpec
CONSTANTS
    d1 = d1  d2 = d2  d3 = d3  a = a  b = b
    Processes = {d1, d2}
    Clients = {a, b}
    Asking = {a}
    Launchd = TRUE
    Tries = 2
    Polls = 1
    Troubles = 1
    None = None
INVARIANTS
    ServingIsReachable
    AskedAtMostOnce
PROPERTIES
    DrainEnds
    CallEnds
CHECK_DEADLOCK FALSE
