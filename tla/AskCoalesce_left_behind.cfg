SPECIFICATION Spec
CONSTANTS
    c1 = c1  c2 = c2
    Callers = {c1, c2}
    Served = {FALSE}
    None = None
INVARIANTS
    NoFollowerLeftBehind
CHECK_DEADLOCK FALSE
