SPECIFICATION Spec
CONSTANTS
    q1 = q1  q2 = q2  n1 = n1
    alice = alice  bob = bob
    ca = ca  cb = cb  cc = cc
    ka = ka  kb = kb
    None = None
    Confirms = {q1}  Notices = {n1}
    Peers = {alice, bob}
    Chats = {ca, cb, cc}  PeerOf <- ThreeChats
    Tokens = {ka}  TokenOf <- OneToken
    Known = {}  Configured <- Unset
    Losses = {FALSE}
    MaxRows = 3  HistoryLimit = 3  ScanBudget = 1
    MaxRestarts = 1  MaxEdits = 1
INVARIANTS
    AnsweredByThePersonAsked
    NeverResent
    WatchesAreReaped

    
CHECK_DEADLOCK FALSE
