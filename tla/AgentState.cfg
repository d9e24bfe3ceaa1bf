SPECIFICATION Spec
CONSTANTS
    a1 = a1  h1 = h1  h2 = h2  m1 = m1  m2 = m2  im = im
    s1 = s1  s2 = s2  p1 = p1
    sess = sess  everyone = everyone  fileA = fileA  aDisk = aDisk  aTool = aTool
    fa = fa  fb = fb  tool = tool  relaxed = relaxed  yolo = yolo  t1 = t1  t2 = t2
    Agents = {a1}
    Hooks = {h1, h2}
    AgentOf <- HooksOf
    Messages = {m1, m2}
    Channels = {im}
    MaxWindows = 1
    MaxCrashes = 1
    None = None
    Sessions = {s1, s2}
    Pids = {p1}
    Callers = {s1}
    MaxEnded = 2
    TtlSecs = 0
    BackstopSecs = 0
    MaxNow = 2
    MaxRestarts = 1
    Nobody = Nobody
    Threads = {t1, t2}
    Owners = {sess}
    Global = everyone
    Keys = {fileA, aDisk, aTool}
    Disk = aDisk
    Covers <- CoversOf
    Things = {fa, fb, tool}
    Tools = {tool}
    Relaxed = relaxed
    Yolo = yolo
    Jobs <- JobsOf
    SessionCap = 2
    StoreCap = 2
    RuleTtl = 1
    MaxTime = 3
INVARIANTS
    
    DeliveredOnce
    ReceiptsAreOwed
    HeldByAWindow
    WorkingIsTimed
    
    
    
    
PROPERTIES
    EndedSessionIsEmptied
    
    
CHECK_DEADLOCK FALSE
