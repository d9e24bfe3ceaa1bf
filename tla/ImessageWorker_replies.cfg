SPECIFICATION PolledSpec
CONSTANTS
    q1 = q1  q2 = q2  n1 = n1
    alice = alice  bob = bob
    ca = ca  cb = cb  cc = cc
    ka = ka  kb = kb
    None = None
    Confirms = {q1}  Notices = {n1}
    Peers = {alice}
    Chats = {ca}  PeerOf <- OneChat
    Tokens = {ka}  TokenOf <- OneToken
    Known = {ca}  Configured <- Stored
    Losses = {FALSE, TRUE}
    MaxRows = 3  HistoryLimit = 3  ScanBudget = 1
    MaxRestarts = 1  MaxEdits = 0
INVARIANTS
    EarliestReplyWins
PROPERTIES
    HangUpEnds
    ReplyIsHeard
    ReplyIsRecovered
CHECK_DEADLOCK FALSE
