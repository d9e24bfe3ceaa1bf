SPECIFICATION PolledSpec
CONSTANTS
    c1 = c1  c2 = c2
    Callers = {c1, c2}
    Served = {TRUE, FALSE}
    None = None
INVARIANTS
    WaitersCounted
    ReplayIsAnAnswer

    
CHECK_DEADLOCK FALSE
