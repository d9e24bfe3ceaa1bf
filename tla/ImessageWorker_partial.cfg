SPECIFICATION Spec
CONSTANTS
    q1 = q1  q2 = q2  n1 = n1
    alice = alice  bob = bob
    ca = ca  cb = cb  cc = cc
    ka = ka  kb = kb
    None = None
    Confirms = {q1, q2}  Notices = {}
    Peers = {alice}
    Chats = {ca}  PeerOf <- OneChat
    Tokens = {ka, kb}  TokenOf <- TwoTokens
    Known = {}  Configured <- Unset
    Losses = {FALSE}
    MaxRows = 2  HistoryLimit = 2  ScanBudget = 1
    MaxRestarts = 0  MaxEdits = 0
INVARIANTS
    NeverPartiallySends
CHECK_DEADLOCK FALSE
