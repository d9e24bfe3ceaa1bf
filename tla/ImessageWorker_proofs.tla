------------------------- MODULE ImessageWorker_proofs -------------------------
(***************************************************************************)
(* For any number of confirmations, notifications, peers, chats and rows,  *)
(* whatever fails, hangs up or restarts: an answer is the asked person's   *)
(* answer to this question, a question is sent once, a watch does not      *)
(* outlive its handler, and what is stored is the recipient's chat.        *)
(*                                                                         *)
(* The first follows a request along the chain: who is asked (AskedOfIt),  *)
(* the chat that is expected (ReadyIsAsked), the row that was sent         *)
(* (SentIsItsRow), the chat it was found in (ChatIsAsked), and the row that *)
(* was taken as the answer (TakenIsEligible).  That the answer is the first *)
(* reply needs that neither reader passed one (ReadsInOrder).  A refused   *)
(* question was not sent where a chat is stored from the start.            *)
(***************************************************************************)
EXTENDS ImessageWorker, FiniteSetTheorems, TLAPS

WRow == [chat : Chats, by : {"bot", "peer"}, about : Requests \cup {None},
         token : Tokens \cup {None}, valid : BOOLEAN, re : Nat]

\* The stages in which a handler runs, and those in which the question was sent.
Running == {"preparing", "prepared", "sending", "sent", "spawned", "watching", "reaping"}
Unsent == {"new", "preparing", "prepared"}
Watching == {"spawned", "watching", "reaping"}

WorkerType ==
    /\ rows \in Seq(WRow)
    /\ known \subseteq Chats
    /\ disk \in Configs /\ cached \in Configs
    /\ up \in BOOLEAN
    /\ pc \in [Requests -> {"new", "done"} \cup Running]
    /\ asked \in [Requests -> Peers \cup {None}]
    /\ outcome \in [Requests -> {None, "refused", "error", "sent", "gone", "answered"}]
    /\ ready \in [Requests -> Chats \cup {None}]
    /\ sent \in [Requests -> Nat]
    /\ chat \in [Requests -> Chats \cup {None}]
    /\ child \in [Requests -> BOOLEAN]
    /\ accepted \in [Requests -> Nat]

\* A handler runs in a worker that knows the recipient it was asked for.
AskedOfIt == \A r \in Requests : pc[r] \in Running => up = TRUE /\ asked[r] = cached.recipient

ReadyIsAsked ==
    \A r \in Requests :
        /\ pc[r] \in {"new", "preparing"} => ready[r] = None
        /\ ready[r] # None => PeerOf[ready[r]] = asked[r]

\* A row about a request is its own, and there is one.
UnsentHasNoRow ==
    \A r \in Requests : pc[r] \in Unsent => \A i \in DOMAIN rows : rows[i].about # r
OneRow ==
    \A r \in Requests : \A i, j \in DOMAIN rows :
        rows[i].about = r /\ rows[j].about = r => i = j
ItsRow(r) == sent[r] \in DOMAIN rows /\ rows[sent[r]].about = r
SentIsItsRow == \A r \in Requests : pc[r] \in Running \ Unsent => ItsRow(r)

ChatIsAsked ==
    \A r \in Requests : pc[r] \in Watching => chat[r] \in Chats /\ PeerOf[chat[r]] = asked[r]

\* An answer was taken by the watch of the request, and stays what it was.
TakenIsEligible ==
    \A r \in Requests : outcome[r] = "answered" =>
        /\ pc[r] \in {"reaping", "done"} /\ ItsRow(r)
        /\ accepted[r] \in DOMAIN rows /\ Eligible(r, accepted[r])
        /\ PeerOf[chat[r]] = asked[r]

WatchesRun == \A r \in Requests : child[r] = TRUE => up = TRUE /\ pc[r] \in Watching

WInv ==
    /\ WorkerType /\ AskedOfIt /\ ReadyIsAsked /\ UnsentHasNoRow /\ OneRow /\ SentIsItsRow
    /\ ChatIsAsked /\ TakenIsEligible /\ WatchesRun

\* A row is added at the end and the others stay.
LEMMA Grows ==
    ASSUME WInv, NEW x \in WRow, rows' = Append(rows, x)
    PROVE  /\ rows' \in Seq(WRow)
           /\ Len(rows) \in Nat /\ Len(rows') = Len(rows) + 1
           /\ DOMAIN rows = 1..Len(rows) /\ DOMAIN rows' = 1..(Len(rows) + 1)
           /\ \A i \in DOMAIN rows : i \in DOMAIN rows' /\ rows'[i] = rows[i]
           /\ \A i \in DOMAIN rows' : i \in DOMAIN rows \/ i = Len(rows) + 1
           /\ rows'[Len(rows) + 1] = x
  <1>1. rows \in Seq(WRow)
    BY DEF WInv, WorkerType
  <1>2. QED
    BY <1>1

-----------------------------------------------------------------------------
\* The start.
LEMMA InitWInv == Init => WInv
  <1> SUFFICES ASSUME Init PROVE WInv
    OBVIOUS
  <1>1. WorkerType
    BY WorkerAssumption DEF Init, WorkerType, Running
  <1>2. QED
    BY <1>1, WorkerAssumption DEF Init, WInv, AskedOfIt, Running, ReadyIsAsked, UnsentHasNoRow,
       Unsent, OneRow, SentIsItsRow, ChatIsAsked, Watching, TakenIsEligible, WatchesRun

\* Rows, the files and the process are untouched by most steps of a handler.
Quiet(r) ==
    /\ UNCHANGED <<rows, cached, up, asked, sent>>
    /\ known' = known
    /\ \A q \in Requests \ {r} :
        /\ pc'[q] = pc[q] /\ outcome'[q] = outcome[q] /\ ready'[q] = ready[q]
        /\ chat'[q] = chat[q] /\ child'[q] = child[q] /\ accepted'[q] = accepted[q]

\* Such a step keeps what is known of the other requests.
LEMMA QuietStep ==
    ASSUME WInv, NEW r \in Requests, Quiet(r), WorkerType',
           pc'[r] \in Running => pc[r] \in Running,
           pc'[r] \in Unsent => pc[r] \in Unsent,
           pc'[r] \in {"new", "preparing"} => ready'[r] = None,
           ready'[r] # None => PeerOf[ready'[r]] = asked[r],
           pc'[r] \in Running \ Unsent => pc[r] \in Running \ Unsent,
           pc'[r] \in Watching => chat'[r] \in Chats /\ PeerOf[chat'[r]] = asked[r],
           outcome'[r] = "answered" =>
               /\ pc'[r] \in {"reaping", "done"} /\ ItsRow(r)
               /\ accepted'[r] \in DOMAIN rows /\ Eligible(r, accepted'[r])
               /\ PeerOf[chat[r]] = asked[r] /\ chat'[r] = chat[r],
           child'[r] = TRUE => up = TRUE /\ pc'[r] \in Watching
    PROVE  WInv'
  <1> USE DEF Quiet
  <1>1. AskedOfIt'
    BY DEF WInv, AskedOfIt
  <1>2. ReadyIsAsked'
    BY DEF WInv, ReadyIsAsked
  <1>3. UnsentHasNoRow' /\ OneRow'
    BY DEF WInv, UnsentHasNoRow, OneRow
  <1>4. SentIsItsRow'
    BY DEF WInv, SentIsItsRow, ItsRow
  <1>5. ChatIsAsked'
    BY DEF WInv, ChatIsAsked
  <1>6. TakenIsEligible'
    BY DEF WInv, TakenIsEligible, ItsRow, Eligible
  <1>7. WatchesRun'
    BY DEF WInv, WatchesRun
  <1>8. QED
    BY <1>1, <1>2, <1>3, <1>4, <1>5, <1>6, <1>7 DEF WInv

\* Readiness names a chat of the cached recipient, who is the one asked.
LEMMA ReadyStep ==
    ASSUME WInv, NEW r \in Requests, Ready(r)
    PROVE  WInv'
  <1> USE WorkerAssumption DEF Running, Unsent, Watching, Ready, Goto, Finish, external, files,
      process, connection, request, watch
  <1>0. PICK c \in Chats \cup {None} :
           ready' = [ready EXCEPT ![r] = c] /\ (c # None => PeerOf[c] = cached.recipient)
    <2>1. CASE cached.chat \in Matching /\ ready' = [ready EXCEPT ![r] = cached.chat]
      BY <2>1 DEF Matching, WInv, WorkerType
    <2>2. CASE UNCHANGED ready
      <3>1. ready[r] = None /\ ready \in [Requests -> Chats \cup {None}]
        BY DEF WInv, WorkerType, ReadyIsAsked
      <3>2. ready' = [ready EXCEPT ![r] = None]
        BY <2>2, <3>1
      <3>3. QED
        BY <3>2
    <2>3. CASE \E c \in Chats : Matching = {c} /\ ready' = [ready EXCEPT ![r] = c]
      <3>1. PICK c \in Chats : Matching = {c} /\ ready' = [ready EXCEPT ![r] = c]
        BY <2>3
      <3>2. PeerOf[c] = cached.recipient
        BY <3>1 DEF Matching
      <3>3. QED
        BY <3>1, <3>2
    <2>4. QED
      BY <2>1, <2>2, <2>3
  <1>1. WorkerType'
    BY <1>0 DEF WInv, WorkerType
  <1>2. Quiet(r)
    BY <1>0 DEF WInv, WorkerType, Quiet
  <1>3. /\ pc'[r] \in Running => pc[r] \in Running
        /\ pc'[r] \in Unsent => pc[r] \in Unsent
        /\ pc'[r] \in Running \ Unsent => pc[r] \in Running \ Unsent
    BY <1>0 DEF WInv, WorkerType
  <1>4. /\ pc'[r] \in {"new", "preparing"} => ready'[r] = None
        /\ ready'[r] # None => PeerOf[ready'[r]] = asked[r]
    BY <1>0 DEF WInv, WorkerType, AskedOfIt, ReadyIsAsked
  <1>5. pc'[r] \in Watching => chat'[r] \in Chats /\ PeerOf[chat'[r]] = asked[r]
    BY <1>0 DEF WInv, WorkerType, ChatIsAsked
  <1>6. outcome'[r] = "answered" =>
            /\ pc'[r] \in {"reaping", "done"} /\ ItsRow(r)
            /\ accepted'[r] \in DOMAIN rows /\ Eligible(r, accepted'[r])
            /\ PeerOf[chat[r]] = asked[r] /\ chat'[r] = chat[r]
    BY <1>0 DEF WInv, WorkerType, TakenIsEligible, SentIsItsRow, ChatIsAsked
  <1>7. child'[r] = TRUE => up = TRUE /\ pc'[r] \in Watching
    BY <1>0 DEF WInv, WorkerType, WatchesRun, AskedOfIt
  <1>8. QED
    BY <1>1, <1>2, <1>3, <1>4, <1>5, <1>6, <1>7, QuietStep

\* A refusal before the send.
LEMMA NotReadyStep ==
    ASSUME WInv, NEW r \in Requests, NotReady(r)
    PROVE  WInv'
  <1> USE WorkerAssumption DEF Running, Unsent, Watching, NotReady, Goto, Finish, external,
      files, process, connection, request, watch
  <1>1. WorkerType'
    BY DEF WInv, WorkerType
  <1>2. Quiet(r)
    BY DEF WInv, WorkerType, Quiet
  <1>3. /\ pc'[r] \in Running => pc[r] \in Running
        /\ pc'[r] \in Unsent => pc[r] \in Unsent
        /\ pc'[r] \in Running \ Unsent => pc[r] \in Running \ Unsent
    BY DEF WInv, WorkerType
  <1>4. /\ pc'[r] \in {"new", "preparing"} => ready'[r] = None
        /\ ready'[r] # None => PeerOf[ready'[r]] = asked[r]
    BY DEF WInv, WorkerType, AskedOfIt, ReadyIsAsked
  <1>5. pc'[r] \in Watching => chat'[r] \in Chats /\ PeerOf[chat'[r]] = asked[r]
    BY DEF WInv, WorkerType, ChatIsAsked
  <1>6. outcome'[r] = "answered" =>
            /\ pc'[r] \in {"reaping", "done"} /\ ItsRow(r)
            /\ accepted'[r] \in DOMAIN rows /\ Eligible(r, accepted'[r])
            /\ PeerOf[chat[r]] = asked[r] /\ chat'[r] = chat[r]
    BY DEF WInv, WorkerType, TakenIsEligible, SentIsItsRow, ChatIsAsked
  <1>7. child'[r] = TRUE => up = TRUE /\ pc'[r] \in Watching
    BY DEF WInv, WorkerType, WatchesRun, AskedOfIt
  <1>8. QED
    BY <1>1, <1>2, <1>3, <1>4, <1>5, <1>6, <1>7, QuietStep

\* The receipt arrives.
LEMMA ReceiptStep ==
    ASSUME WInv, NEW r \in Requests, Receipt(r)
    PROVE  WInv'
  <1> USE WorkerAssumption DEF Running, Unsent, Watching, Receipt, Goto, Finish, external,
      files, process, connection, request, watch
  <1>1. WorkerType'
    BY DEF WInv, WorkerType
  <1>2. Quiet(r)
    BY DEF WInv, WorkerType, Quiet
  <1>3. /\ pc'[r] \in Running => pc[r] \in Running
        /\ pc'[r] \in Unsent => pc[r] \in Unsent
        /\ pc'[r] \in Running \ Unsent => pc[r] \in Running \ Unsent
    BY DEF WInv, WorkerType
  <1>4. /\ pc'[r] \in {"new", "preparing"} => ready'[r] = None
        /\ ready'[r] # None => PeerOf[ready'[r]] = asked[r]
    BY DEF WInv, WorkerType, AskedOfIt, ReadyIsAsked
  <1>5. pc'[r] \in Watching => chat'[r] \in Chats /\ PeerOf[chat'[r]] = asked[r]
    BY DEF WInv, WorkerType, ChatIsAsked
  <1>6. outcome'[r] = "answered" =>
            /\ pc'[r] \in {"reaping", "done"} /\ ItsRow(r)
            /\ accepted'[r] \in DOMAIN rows /\ Eligible(r, accepted'[r])
            /\ PeerOf[chat[r]] = asked[r] /\ chat'[r] = chat[r]
    BY DEF WInv, WorkerType, TakenIsEligible, SentIsItsRow, ChatIsAsked
  <1>7. child'[r] = TRUE => up = TRUE /\ pc'[r] \in Watching
    BY DEF WInv, WorkerType, WatchesRun, AskedOfIt
  <1>8. QED
    BY <1>1, <1>2, <1>3, <1>4, <1>5, <1>6, <1>7, QuietStep

\* An error before the watch.
LEMMA FailStep ==
    ASSUME WInv, NEW r \in Requests, Fail(r)
    PROVE  WInv'
  <1> USE WorkerAssumption DEF Running, Unsent, Watching, Preparing, Fail, Goto, Finish,
      external, files, process, connection, request, watch
  <1>1. WorkerType'
    BY DEF WInv, WorkerType
  <1>2. Quiet(r)
    BY DEF WInv, WorkerType, Quiet
  <1>3. /\ pc'[r] \in Running => pc[r] \in Running
        /\ pc'[r] \in Unsent => pc[r] \in Unsent
        /\ pc'[r] \in Running \ Unsent => pc[r] \in Running \ Unsent
    BY DEF WInv, WorkerType
  <1>4. /\ pc'[r] \in {"new", "preparing"} => ready'[r] = None
        /\ ready'[r] # None => PeerOf[ready'[r]] = asked[r]
    BY DEF WInv, WorkerType, AskedOfIt, ReadyIsAsked
  <1>5. pc'[r] \in Watching => chat'[r] \in Chats /\ PeerOf[chat'[r]] = asked[r]
    BY DEF WInv, WorkerType, ChatIsAsked
  <1>6. outcome'[r] = "answered" =>
            /\ pc'[r] \in {"reaping", "done"} /\ ItsRow(r)
            /\ accepted'[r] \in DOMAIN rows /\ Eligible(r, accepted'[r])
            /\ PeerOf[chat[r]] = asked[r] /\ chat'[r] = chat[r]
    BY DEF WInv, WorkerType, TakenIsEligible, SentIsItsRow, ChatIsAsked
  <1>7. child'[r] = TRUE => up = TRUE /\ pc'[r] \in Watching
    BY DEF WInv, WorkerType, WatchesRun, AskedOfIt
  <1>8. QED
    BY <1>1, <1>2, <1>3, <1>4, <1>5, <1>6, <1>7, QuietStep

\* The daemon is told that the question is out, or is gone.
LEMMA WriteReadyStep ==
    ASSUME WInv, NEW r \in Requests, WriteReady(r)
    PROVE  WInv'
  <1> USE WorkerAssumption DEF Running, Unsent, Watching, WriteReady, Goto, Finish, external,
      files, process, connection, request, watch
  <1>1. WorkerType'
    BY DEF WInv, WorkerType
  <1>2. Quiet(r)
    BY DEF WInv, WorkerType, Quiet
  <1>3. /\ pc'[r] \in Running => pc[r] \in Running
        /\ pc'[r] \in Unsent => pc[r] \in Unsent
        /\ pc'[r] \in Running \ Unsent => pc[r] \in Running \ Unsent
    BY DEF WInv, WorkerType
  <1>4. /\ pc'[r] \in {"new", "preparing"} => ready'[r] = None
        /\ ready'[r] # None => PeerOf[ready'[r]] = asked[r]
    BY DEF WInv, WorkerType, AskedOfIt, ReadyIsAsked
  <1>5. pc'[r] \in Watching => chat'[r] \in Chats /\ PeerOf[chat'[r]] = asked[r]
    BY DEF WInv, WorkerType, ChatIsAsked
  <1>6. outcome'[r] = "answered" =>
            /\ pc'[r] \in {"reaping", "done"} /\ ItsRow(r)
            /\ accepted'[r] \in DOMAIN rows /\ Eligible(r, accepted'[r])
            /\ PeerOf[chat[r]] = asked[r] /\ chat'[r] = chat[r]
    BY DEF WInv, WorkerType, TakenIsEligible, SentIsItsRow, ChatIsAsked
  <1>7. child'[r] = TRUE => up = TRUE /\ pc'[r] \in Watching
    BY DEF WInv, WorkerType, WatchesRun, AskedOfIt
  <1>8. QED
    BY <1>1, <1>2, <1>3, <1>4, <1>5, <1>6, <1>7, QuietStep

\* The wait ends without an answer.
LEMMA StopStep ==
    ASSUME WInv, NEW r \in Requests, StopWatching(r)
    PROVE  WInv'
  <1> USE WorkerAssumption DEF Running, Unsent, Watching, StopWatching, Goto, Finish, external,
      files, process, connection, request, watch
  <1>1. WorkerType'
    BY DEF WInv, WorkerType
  <1>2. Quiet(r)
    BY DEF WInv, WorkerType, Quiet
  <1>3. /\ pc'[r] \in Running => pc[r] \in Running
        /\ pc'[r] \in Unsent => pc[r] \in Unsent
        /\ pc'[r] \in Running \ Unsent => pc[r] \in Running \ Unsent
    BY DEF WInv, WorkerType
  <1>4. /\ pc'[r] \in {"new", "preparing"} => ready'[r] = None
        /\ ready'[r] # None => PeerOf[ready'[r]] = asked[r]
    BY DEF WInv, WorkerType, AskedOfIt, ReadyIsAsked
  <1>5. pc'[r] \in Watching => chat'[r] \in Chats /\ PeerOf[chat'[r]] = asked[r]
    BY DEF WInv, WorkerType, ChatIsAsked
  <1>6. outcome'[r] = "answered" =>
            /\ pc'[r] \in {"reaping", "done"} /\ ItsRow(r)
            /\ accepted'[r] \in DOMAIN rows /\ Eligible(r, accepted'[r])
            /\ PeerOf[chat[r]] = asked[r] /\ chat'[r] = chat[r]
    BY DEF WInv, WorkerType, TakenIsEligible, SentIsItsRow, ChatIsAsked
  <1>7. child'[r] = TRUE => up = TRUE /\ pc'[r] \in Watching
    BY DEF WInv, WorkerType, WatchesRun, AskedOfIt
  <1>8. QED
    BY <1>1, <1>2, <1>3, <1>4, <1>5, <1>6, <1>7, QuietStep

\* The daemon is gone.
LEMMA DropStep ==
    ASSUME WInv, NEW r \in Requests, Drop(r)
    PROVE  WInv'
  <1> USE WorkerAssumption DEF Running, Unsent, Watching, Preparing, Drop, Goto, Finish,
      external, files, process, connection, request, watch
  <1>1. WorkerType'
    BY DEF WInv, WorkerType
  <1>2. Quiet(r)
    BY DEF WInv, WorkerType, Quiet
  <1>3. /\ pc'[r] \in Running => pc[r] \in Running
        /\ pc'[r] \in Unsent => pc[r] \in Unsent
        /\ pc'[r] \in Running \ Unsent => pc[r] \in Running \ Unsent
    BY DEF WInv, WorkerType
  <1>4. /\ pc'[r] \in {"new", "preparing"} => ready'[r] = None
        /\ ready'[r] # None => PeerOf[ready'[r]] = asked[r]
    BY DEF WInv, WorkerType, AskedOfIt, ReadyIsAsked
  <1>5. pc'[r] \in Watching => chat'[r] \in Chats /\ PeerOf[chat'[r]] = asked[r]
    BY DEF WInv, WorkerType, ChatIsAsked
  <1>6. outcome'[r] = "answered" =>
            /\ pc'[r] \in {"reaping", "done"} /\ ItsRow(r)
            /\ accepted'[r] \in DOMAIN rows /\ Eligible(r, accepted'[r])
            /\ PeerOf[chat[r]] = asked[r] /\ chat'[r] = chat[r]
    BY DEF WInv, WorkerType, TakenIsEligible, SentIsItsRow, ChatIsAsked
  <1>7. child'[r] = TRUE => up = TRUE /\ pc'[r] \in Watching
    BY DEF WInv, WorkerType, WatchesRun, AskedOfIt
  <1>8. QED
    BY <1>1, <1>2, <1>3, <1>4, <1>5, <1>6, <1>7, QuietStep

\* The watch is reaped.
LEMMA ReapStep ==
    ASSUME WInv, NEW r \in Requests, Reap(r)
    PROVE  WInv'
  <1> USE WorkerAssumption DEF Running, Unsent, Watching, Reap, Goto, Finish, external, files,
      process, connection, request, watch
  <1>1. WorkerType'
    BY DEF WInv, WorkerType
  <1>2. Quiet(r)
    BY DEF WInv, WorkerType, Quiet
  <1>3. /\ pc'[r] \in Running => pc[r] \in Running
        /\ pc'[r] \in Unsent => pc[r] \in Unsent
        /\ pc'[r] \in Running \ Unsent => pc[r] \in Running \ Unsent
    BY DEF WInv, WorkerType
  <1>4. /\ pc'[r] \in {"new", "preparing"} => ready'[r] = None
        /\ ready'[r] # None => PeerOf[ready'[r]] = asked[r]
    BY DEF WInv, WorkerType, AskedOfIt, ReadyIsAsked
  <1>5. pc'[r] \in Watching => chat'[r] \in Chats /\ PeerOf[chat'[r]] = asked[r]
    BY DEF WInv, WorkerType, ChatIsAsked
  <1>6. outcome'[r] = "answered" =>
            /\ pc'[r] \in {"reaping", "done"} /\ ItsRow(r)
            /\ accepted'[r] \in DOMAIN rows /\ Eligible(r, accepted'[r])
            /\ PeerOf[chat[r]] = asked[r] /\ chat'[r] = chat[r]
    BY DEF WInv, WorkerType, TakenIsEligible, SentIsItsRow, ChatIsAsked
  <1>7. child'[r] = TRUE => up = TRUE /\ pc'[r] \in Watching
    BY DEF WInv, WorkerType, WatchesRun, AskedOfIt
  <1>8. QED
    BY <1>1, <1>2, <1>3, <1>4, <1>5, <1>6, <1>7, QuietStep

\* The chat of the row that was sent is the recipient's.
LEMMA ResolveFinds ==
    ASSUME WInv, NEW r \in Requests, Resolve(r)
    PROVE  /\ pc[r] = "sent" /\ asked[r] = cached.recipient
           /\ \E c \in Chats : chat' = [chat EXCEPT ![r] = c] /\ PeerOf[c] = asked[r]
  <1> DEFINE c == rows[sent[r]].chat
  <1>1. pc[r] = "sent" /\ (c = ready[r] \/ PeerOf[c] = cached.recipient)
        /\ chat' = [chat EXCEPT ![r] = c]
    BY DEF Resolve
  <1>2. rows \in Seq(WRow) /\ sent[r] \in DOMAIN rows
    BY <1>1 DEF WInv, WorkerType, SentIsItsRow, ItsRow, Running, Unsent
  <1>3. rows[sent[r]] \in WRow
    BY <1>2
  <1>4. c \in Chats
    BY <1>3 DEF WRow
  <1>5. asked[r] = cached.recipient
    BY <1>1 DEF WInv, AskedOfIt, Running
  <1>6. c = ready[r] => PeerOf[c] = asked[r]
    BY <1>4, WorkerAssumption DEF WInv, ReadyIsAsked
  <1>7. QED
    BY <1>1, <1>4, <1>5, <1>6

\* The chat is found, and cannot be stored.
LEMMA RefusePersistStep ==
    ASSUME WInv, NEW r \in Requests, RefusePersist(r)
    PROVE  WInv'
  <1> USE WorkerAssumption DEF Running, Unsent, Watching, RefusePersist, Goto, Finish,
      external, files, process, connection, request, watch
  <1>r. /\ pc[r] = "sent" /\ asked[r] = cached.recipient
        /\ \E c \in Chats : chat' = [chat EXCEPT ![r] = c] /\ PeerOf[c] = asked[r]
    BY ResolveFinds
  <1>c. PICK c \in Chats : chat' = [chat EXCEPT ![r] = c] /\ PeerOf[c] = asked[r]
    BY <1>r
  <1>1. WorkerType'
    BY <1>r, <1>c DEF WInv, WorkerType
  <1>2. Quiet(r)
    BY <1>r, <1>c DEF WInv, WorkerType, Quiet
  <1>3. /\ pc'[r] \in Running => pc[r] \in Running
        /\ pc'[r] \in Unsent => pc[r] \in Unsent
        /\ pc'[r] \in Running \ Unsent => pc[r] \in Running \ Unsent
    BY <1>r, <1>c DEF WInv, WorkerType
  <1>4. /\ pc'[r] \in {"new", "preparing"} => ready'[r] = None
        /\ ready'[r] # None => PeerOf[ready'[r]] = asked[r]
    BY <1>r, <1>c DEF WInv, WorkerType, AskedOfIt, ReadyIsAsked
  <1>5. pc'[r] \in Watching => chat'[r] \in Chats /\ PeerOf[chat'[r]] = asked[r]
    BY <1>r, <1>c DEF WInv, WorkerType, ChatIsAsked
  <1>6. outcome'[r] = "answered" =>
            /\ pc'[r] \in {"reaping", "done"} /\ ItsRow(r)
            /\ accepted'[r] \in DOMAIN rows /\ Eligible(r, accepted'[r])
            /\ PeerOf[chat[r]] = asked[r] /\ chat'[r] = chat[r]
    BY <1>r, <1>c DEF WInv, WorkerType, TakenIsEligible, SentIsItsRow, ChatIsAsked
  <1>7. child'[r] = TRUE => up = TRUE /\ pc'[r] \in Watching
    BY <1>r, <1>c DEF WInv, WorkerType, WatchesRun, AskedOfIt
  <1>8. QED
    BY <1>1, <1>2, <1>3, <1>4, <1>5, <1>6, <1>7, QuietStep

\* A notification is out, and its chat stored.
LEMMA NotifiedStep ==
    ASSUME WInv, NEW r \in Requests, Notified(r)
    PROVE  WInv'
  <1> USE WorkerAssumption DEF Running, Unsent, Watching, Notified, Goto, Finish, external,
      files, process, connection, request, watch
  <1>r. /\ pc[r] = "sent" /\ asked[r] = cached.recipient
        /\ \E c \in Chats : chat' = [chat EXCEPT ![r] = c] /\ PeerOf[c] = asked[r]
    BY ResolveFinds
  <1>c. PICK c \in Chats : chat' = [chat EXCEPT ![r] = c] /\ PeerOf[c] = asked[r]
    BY <1>r
  <1>p. disk' \in Configs
    <2>1. disk \in Configs
      BY DEF WInv, WorkerType
    <2>2. chat'[r] = c
      BY <1>r, <1>c DEF WInv, WorkerType
    <2>3. CASE disk' = [disk EXCEPT !.chat = c]
      BY <2>1, <2>3 DEF Configs
    <2>4. QED
      BY <2>1, <2>2, <2>3 DEF Persist
  <1>1. WorkerType'
    BY <1>r, <1>c, <1>p DEF WInv, WorkerType
  <1>2. Quiet(r)
    BY <1>r, <1>c, <1>p DEF WInv, WorkerType, Quiet
  <1>3. /\ pc'[r] \in Running => pc[r] \in Running
        /\ pc'[r] \in Unsent => pc[r] \in Unsent
        /\ pc'[r] \in Running \ Unsent => pc[r] \in Running \ Unsent
    BY <1>r, <1>c, <1>p DEF WInv, WorkerType
  <1>4. /\ pc'[r] \in {"new", "preparing"} => ready'[r] = None
        /\ ready'[r] # None => PeerOf[ready'[r]] = asked[r]
    BY <1>r, <1>c, <1>p DEF WInv, WorkerType, AskedOfIt, ReadyIsAsked
  <1>5. pc'[r] \in Watching => chat'[r] \in Chats /\ PeerOf[chat'[r]] = asked[r]
    BY <1>r, <1>c, <1>p DEF WInv, WorkerType, ChatIsAsked
  <1>6. outcome'[r] = "answered" =>
            /\ pc'[r] \in {"reaping", "done"} /\ ItsRow(r)
            /\ accepted'[r] \in DOMAIN rows /\ Eligible(r, accepted'[r])
            /\ PeerOf[chat[r]] = asked[r] /\ chat'[r] = chat[r]
    BY <1>r, <1>c, <1>p DEF WInv, WorkerType, TakenIsEligible, SentIsItsRow, ChatIsAsked
  <1>7. child'[r] = TRUE => up = TRUE /\ pc'[r] \in Watching
    BY <1>r, <1>c, <1>p DEF WInv, WorkerType, WatchesRun, AskedOfIt
  <1>8. QED
    BY <1>1, <1>2, <1>3, <1>4, <1>5, <1>6, <1>7, QuietStep

\* The chat of a question is stored, and its watch started.
LEMMA SpawnWatchStep ==
    ASSUME WInv, NEW r \in Requests, SpawnWatch(r)
    PROVE  WInv'
  <1> USE WorkerAssumption DEF Running, Unsent, Watching, SpawnWatch, Goto, Finish, external,
      files, process, connection, request, watch
  <1>r. /\ pc[r] = "sent" /\ asked[r] = cached.recipient
        /\ \E c \in Chats : chat' = [chat EXCEPT ![r] = c] /\ PeerOf[c] = asked[r]
    BY ResolveFinds
  <1>c. PICK c \in Chats : chat' = [chat EXCEPT ![r] = c] /\ PeerOf[c] = asked[r]
    BY <1>r
  <1>p. disk' \in Configs
    <2>1. disk \in Configs
      BY DEF WInv, WorkerType
    <2>2. chat'[r] = c
      BY <1>r, <1>c DEF WInv, WorkerType
    <2>3. CASE disk' = [disk EXCEPT !.chat = c]
      BY <2>1, <2>3 DEF Configs
    <2>4. QED
      BY <2>1, <2>2, <2>3 DEF Persist
  <1>1. WorkerType'
    BY <1>r, <1>c, <1>p DEF WInv, WorkerType
  <1>2. Quiet(r)
    BY <1>r, <1>c, <1>p DEF WInv, WorkerType, Quiet
  <1>3. /\ pc'[r] \in Running => pc[r] \in Running
        /\ pc'[r] \in Unsent => pc[r] \in Unsent
        /\ pc'[r] \in Running \ Unsent => pc[r] \in Running \ Unsent
    BY <1>r, <1>c, <1>p DEF WInv, WorkerType
  <1>4. /\ pc'[r] \in {"new", "preparing"} => ready'[r] = None
        /\ ready'[r] # None => PeerOf[ready'[r]] = asked[r]
    BY <1>r, <1>c, <1>p DEF WInv, WorkerType, AskedOfIt, ReadyIsAsked
  <1>5. pc'[r] \in Watching => chat'[r] \in Chats /\ PeerOf[chat'[r]] = asked[r]
    BY <1>r, <1>c, <1>p DEF WInv, WorkerType, ChatIsAsked
  <1>6. outcome'[r] = "answered" =>
            /\ pc'[r] \in {"reaping", "done"} /\ ItsRow(r)
            /\ accepted'[r] \in DOMAIN rows /\ Eligible(r, accepted'[r])
            /\ PeerOf[chat[r]] = asked[r] /\ chat'[r] = chat[r]
    BY <1>r, <1>c, <1>p DEF WInv, WorkerType, TakenIsEligible, SentIsItsRow, ChatIsAsked
  <1>7. child'[r] = TRUE => up = TRUE /\ pc'[r] \in Watching
    BY <1>r, <1>c, <1>p DEF WInv, WorkerType, WatchesRun, AskedOfIt
  <1>8. QED
    BY <1>1, <1>2, <1>3, <1>4, <1>5, <1>6, <1>7, QuietStep

\* What a step that reads replies may do to its request: nothing, or take an eligible row.
Reads(r) ==
    /\ pc[r] = "watching"
    /\ UNCHANGED <<external, files, process, connection, request, child>>
    /\ \/ UNCHANGED <<pc, accepted, outcome>>
       \/ \E i \in DOMAIN rows : Eligible(r, i) /\ Accept(r, i)

\* A line of the watch, or a scan, reads replies.
LEMMA BothRead == ASSUME NEW r \in Requests, Line(r) \/ Scan(r) PROVE Reads(r)
  <1>1. CASE Line(r)
    BY <1>1 DEF Line, Reads, Unprinted, InChat
  <1>2. CASE Scan(r)
    BY <1>2 DEF Scan, Reads, Recent, InChat
  <1>3. QED
    BY <1>1, <1>2

\* An answer is taken only while the handler watches.
LEMMA ReadsStep ==
    ASSUME WInv, NEW r \in Requests, Reads(r)
    PROVE  WInv'
  <1> USE DEF Reads, Running, Unsent, Watching, external, files, process, connection, request
  <1>1. CASE UNCHANGED <<pc, accepted, outcome>>
    <2>1. WorkerType'
      BY <1>1 DEF WInv, WorkerType
    <2>2. QED
      BY <1>1, <2>1 DEF WInv, AskedOfIt, ReadyIsAsked, UnsentHasNoRow, OneRow, SentIsItsRow,
         ItsRow, ChatIsAsked, TakenIsEligible, Eligible, WatchesRun
  <1>2. CASE \E i \in DOMAIN rows : Eligible(r, i) /\ Accept(r, i)
    <2>0. PICK i \in DOMAIN rows : Eligible(r, i) /\ Accept(r, i)
      BY <1>2
    <2> USE DEF Accept, Goto
    <2>1. rows \in Seq(WRow) /\ i \in Nat
      BY DEF WInv, WorkerType
    <2>2. WorkerType'
      BY <2>0, <2>1 DEF WInv, WorkerType
    <2>3. Quiet(r)
      BY <2>0 DEF WInv, WorkerType, Quiet
    <2>4. pc'[r] = "reaping" /\ accepted'[r] = i /\ outcome'[r] = "answered"
      BY <2>0 DEF WInv, WorkerType
    <2>5. ItsRow(r) /\ PeerOf[chat[r]] = asked[r] /\ chat[r] \in Chats /\ up = TRUE
      BY <2>0 DEF WInv, SentIsItsRow, ChatIsAsked, AskedOfIt
    <2>6. ready[r] # None => PeerOf[ready[r]] = asked[r]
      BY DEF WInv, ReadyIsAsked
    <2>7. QED
      BY <2>0, <2>2, <2>3, <2>4, <2>5, <2>6, QuietStep
  <1>3. QED
    BY <1>1, <1>2

\* The daemon asks for the recipient the worker knows, or is refused.
LEMMA ConnectStep ==
    ASSUME WInv, NEW r \in Requests, Connect(r)
    PROVE  WInv'
  <1> USE DEF Running, Unsent, Watching, external, files, process, request, watch, Goto, Finish
  <1>0. /\ up /\ pc[r] = "new"
        /\ UNCHANGED <<external, files, process, request, watch>>
        /\ \E p \in Peers : /\ asked' = [asked EXCEPT ![r] = p]
                             /\ \/ /\ p = cached.recipient
                                   /\ pc' = [pc EXCEPT ![r] = "preparing"] /\ outcome' = outcome
                                \/ /\ pc' = [pc EXCEPT ![r] = "done"]
                                   /\ outcome' = [outcome EXCEPT ![r] = "refused"]
    BY DEF Connect
  <1>1. PICK p \in Peers :
           /\ asked' = [asked EXCEPT ![r] = p]
           /\ \/ /\ p = cached.recipient
                 /\ pc' = [pc EXCEPT ![r] = "preparing"] /\ outcome' = outcome
              \/ /\ pc' = [pc EXCEPT ![r] = "done"]
                 /\ outcome' = [outcome EXCEPT ![r] = "refused"]
    BY <1>0
  <1>t. WorkerType
    BY DEF WInv
  <1>2. WorkerType'
    BY <1>0, <1>1, <1>t DEF WorkerType
  <1>3. up = TRUE /\ ready[r] = None
    BY <1>0, <1>t DEF WInv, ReadyIsAsked, WorkerType
  <1>4. AskedOfIt'
    BY <1>0, <1>1, <1>3, <1>t DEF WInv, AskedOfIt, WorkerType
  <1>5. ReadyIsAsked'
    BY <1>0, <1>1, <1>3, <1>t DEF WInv, ReadyIsAsked, WorkerType
  <1>6. UnsentHasNoRow' /\ OneRow'
    BY <1>0, <1>1, <1>t DEF WInv, UnsentHasNoRow, OneRow, WorkerType
  <1>o. /\ UNCHANGED <<rows, sent, chat, accepted>>
        /\ pc'[r] \in {"preparing", "done"} /\ outcome'[r] # "answered"
        /\ \A q \in Requests \ {r} :
               pc'[q] = pc[q] /\ outcome'[q] = outcome[q] /\ asked'[q] = asked[q]
    BY <1>0, <1>1, <1>t DEF WInv, TakenIsEligible, WorkerType
  <1>7. SentIsItsRow'
    BY <1>o DEF WInv, SentIsItsRow, ItsRow
  <1>8. ChatIsAsked'
    BY <1>0, <1>1, <1>t DEF WInv, ChatIsAsked, WorkerType
  <1>9. TakenIsEligible'
    BY <1>o DEF WInv, TakenIsEligible, ItsRow, Eligible
  <1>10. WatchesRun'
    BY <1>0, <1>1, <1>t DEF WInv, WatchesRun, WorkerType
  <1>11. QED
    BY <1>2, <1>4, <1>5, <1>6, <1>7, <1>8, <1>9, <1>10 DEF WInv

\* The question is sent: its row is the new one.
LEMMA SendStep ==
    ASSUME WInv, NEW r \in Requests, Send(r)
    PROVE  WInv'
  <1> USE DEF Running, Unsent, Watching, files, process, connection, watch, Goto
  <1> DEFINE n == Len(rows) + 1
  <1>0. PICK c \in Chats :
           /\ known' = known \cup {c}
           /\ rows' = Append(rows, [chat |-> c, by |-> "bot", about |-> r, token |-> None,
                                    valid |-> FALSE, re |-> 0])
    BY DEF Send, Targets, Matching, WInv, WorkerType
  <1>1. /\ pc[r] = "prepared" /\ pc' = [pc EXCEPT ![r] = "sending"]
        /\ sent' = [sent EXCEPT ![r] = Len(rows')]
        /\ UNCHANGED <<files, process, connection, ready, chat, watch, outcome>>
    BY DEF Send
  <1>2. [chat |-> c, by |-> "bot", about |-> r, token |-> None, valid |-> FALSE, re |-> 0] \in WRow
    BY DEF WRow
  <1>3. /\ rows' \in Seq(WRow)
        /\ Len(rows) \in Nat /\ Len(rows') = n
        /\ DOMAIN rows = 1..Len(rows) /\ DOMAIN rows' = 1..n
        /\ \A i \in DOMAIN rows : i \in DOMAIN rows' /\ rows'[i] = rows[i]
        /\ \A i \in DOMAIN rows' : i \in DOMAIN rows \/ i = n
        /\ rows'[n] = [chat |-> c, by |-> "bot", about |-> r, token |-> None, valid |-> FALSE,
                       re |-> 0]
    BY <1>0, <1>2, Grows
  <1>4. rows'[n].about = r /\ n \in DOMAIN rows' /\ n \notin DOMAIN rows /\ n \in Nat
    BY <1>3
  <1> HIDE DEF n
  <1>t. WorkerType
    BY DEF WInv
  <1>5. WorkerType'
    BY <1>0, <1>1, <1>3, <1>4, <1>t DEF WorkerType
  <1>6. AskedOfIt'
    BY <1>1, <1>t DEF WInv, AskedOfIt, WorkerType
  <1>7. ReadyIsAsked'
    BY <1>1, <1>t DEF WInv, ReadyIsAsked, WorkerType
  <1>8. UnsentHasNoRow'
    <2>1. pc'[r] = "sending" /\ \A q \in Requests \ {r} : pc'[q] = pc[q]
      BY <1>1, <1>t DEF WorkerType
    <2>2. \A q \in Requests \ {r} : rows'[n].about # q
      BY <1>4
    <2>3. QED
      BY <2>1, <2>2, <1>3 DEF WInv, UnsentHasNoRow
  <1>9. OneRow'
    <2>1. \A i \in DOMAIN rows : rows[i].about # r
      BY <1>1 DEF WInv, UnsentHasNoRow
    <2>2. QED
      BY <2>1, <1>3, <1>4 DEF WInv, OneRow
  <1>10. SentIsItsRow'
    BY <1>1, <1>3, <1>4, <1>t DEF WInv, SentIsItsRow, ItsRow, WorkerType
  <1>11. ChatIsAsked'
    BY <1>1, <1>t DEF WInv, ChatIsAsked, WorkerType
  <1>12. TakenIsEligible'
    BY <1>1, <1>3, <1>4, <1>t DEF WInv, TakenIsEligible, ItsRow, Eligible, WorkerType
  <1>13. WatchesRun'
    BY <1>1, <1>t DEF WInv, WatchesRun, WorkerType
  <1>14. QED
    BY <1>5, <1>6, <1>7, <1>8, <1>9, <1>10, <1>11, <1>12, <1>13 DEF WInv

\* Rows typed by people are about no request.
LEMMA WriteStep ==
    ASSUME WInv, NEW d \in Chats, Write(d)
    PROVE  WInv'
  <1> USE DEF Running, Unsent, Watching, files, process, connection, request, watch
  <1>0. \E x \in WRow : x.about = None /\ rows' = Append(rows, x)
    <2>1. rows \in Seq(WRow) /\ DOMAIN rows \subseteq Nat
      BY DEF WInv, WorkerType
    <2>2. PICK by \in {"bot", "peer"}, k \in Tokens \cup {None}, ok \in BOOLEAN,
               re \in {0} \cup {i \in DOMAIN rows : rows[i].chat = d /\ rows[i].about # None} :
             rows' = Append(rows, [chat |-> d, by |-> by, about |-> None, token |-> k,
                                   valid |-> ok, re |-> re])
      BY DEF Write
    <2>3. [chat |-> d, by |-> by, about |-> None, token |-> k, valid |-> ok, re |-> re] \in WRow
      BY <2>1 DEF WRow
    <2>4. QED
      BY <2>2, <2>3
  <1>1. PICK x \in WRow : x.about = None /\ rows' = Append(rows, x)
    BY <1>0
  <1>2. UNCHANGED <<known, files, process, connection, request, watch, pc, outcome>>
    BY DEF Write
  <1>3. /\ rows' \in Seq(WRow)
        /\ \A i \in DOMAIN rows : i \in DOMAIN rows' /\ rows'[i] = rows[i]
        /\ \A i \in DOMAIN rows' : i \in DOMAIN rows \/ rows'[i].about = None
    BY <1>1, Grows
  <1>4. WorkerType'
    BY <1>2, <1>3 DEF WInv, WorkerType
  <1>5. UnsentHasNoRow' /\ OneRow'
    BY <1>2, <1>3, WorkerAssumption DEF WInv, UnsentHasNoRow, OneRow
  <1>6. SentIsItsRow'
    BY <1>2, <1>3 DEF WInv, SentIsItsRow, ItsRow
  <1>7. TakenIsEligible'
    BY <1>2, <1>3 DEF WInv, TakenIsEligible, ItsRow, Eligible
  <1>8. QED
    BY <1>2, <1>4, <1>5, <1>6, <1>7 DEF WInv, AskedOfIt, ReadyIsAsked, ChatIsAsked, WatchesRun

\* The daemon hangs up, or the operator names another recipient.
LEMMA AroundStep ==
    ASSUME WInv, Edit \/ (\E r \in Requests : HangUp(r))
    PROVE  WInv'
  <1> USE DEF external, process, connection, request, watch
  <1>1. /\ UNCHANGED <<rows, known, cached, up, pc, asked, outcome, ready, sent, chat, child,
                       accepted>>
        /\ disk' = disk \/ \E p \in Peers : disk' = [disk EXCEPT !.recipient = p]
    BY DEF Edit, HangUp, files
  <1>2. disk' \in Configs
    BY <1>1 DEF WInv, WorkerType, Configs
  <1>3. WorkerType'
    BY <1>1, <1>2 DEF WInv, WorkerType
  <1>4. QED
    BY <1>1, <1>3 DEF WInv, AskedOfIt, ReadyIsAsked, UnsentHasNoRow, OneRow, SentIsItsRow, ItsRow,
       ChatIsAsked, TakenIsEligible, Eligible, WatchesRun

\* The worker ends, and no handler of it runs on.
LEMMA ExitStep == ASSUME WInv, Exit PROVE WInv'
  <1> USE DEF Running, Unsent, Watching, external, files, connection, request
  <1>1. /\ pc' = [r \in Requests |-> IF pc[r] = "new" THEN "new" ELSE "done"]
        /\ outcome' = [r \in Requests |->
                         IF pc[r] = "new" \/ outcome[r] # None THEN outcome[r] ELSE "gone"]
        /\ child' = [r \in Requests |-> FALSE] /\ up' = FALSE
        /\ UNCHANGED <<external, files, cached, connection, request, accepted>>
    BY DEF Exit
  <1>2. WorkerType'
    BY <1>1 DEF WInv, WorkerType
  <1>3. AskedOfIt' /\ SentIsItsRow' /\ ChatIsAsked' /\ WatchesRun'
    BY <1>1 DEF AskedOfIt, SentIsItsRow, ChatIsAsked, WatchesRun
  <1>4. ReadyIsAsked'
    BY <1>1 DEF WInv, ReadyIsAsked
  <1>5. UnsentHasNoRow' /\ OneRow'
    BY <1>1 DEF WInv, UnsentHasNoRow, OneRow
  <1>6. TakenIsEligible'
    BY <1>1 DEF WInv, TakenIsEligible, ItsRow, Eligible
  <1>7. QED
    BY <1>2, <1>3, <1>4, <1>5, <1>6 DEF WInv

\* A new worker reads the file, and has no handler yet.
LEMMA StartStep == ASSUME WInv, Start PROVE WInv'
  <1> USE DEF external, files, connection, request, watch
  <1>1. /\ up = FALSE /\ up' = TRUE /\ cached' = disk
        /\ UNCHANGED <<external, files, connection, request, watch, pc, outcome>>
    BY DEF Start, WInv, WorkerType
  <1>2. WorkerType'
    BY <1>1 DEF WInv, WorkerType
  <1>3. AskedOfIt' /\ WatchesRun'
    BY <1>1 DEF WInv, AskedOfIt, WatchesRun
  <1>4. QED
    BY <1>1, <1>2, <1>3 DEF WInv, ReadyIsAsked, UnsentHasNoRow, OneRow, SentIsItsRow, ItsRow,
       ChatIsAsked, TakenIsEligible, Eligible

\* Every step keeps the invariant.
LEMMA NextWInv == ASSUME WInv, [Next]_vars PROVE WInv'
  <1>1. ASSUME NEW r \in Requests, Serve(r) PROVE WInv'
    BY <1>1, ConnectStep, ReadyStep, NotReadyStep, SendStep, ReceiptStep, FailStep,
       RefusePersistStep, NotifiedStep, SpawnWatchStep, WriteReadyStep, BothRead, ReadsStep,
       StopStep, DropStep, ReapStep, AroundStep DEF Serve
  <1>2. CASE UNCHANGED vars
    BY <1>2 DEF vars, external, files, process, connection, request, watch, WInv, WorkerType,
       AskedOfIt, ReadyIsAsked, UnsentHasNoRow, OneRow, SentIsItsRow, ItsRow, ChatIsAsked,
       TakenIsEligible, Eligible, WatchesRun
  <1>3. QED
    BY <1>1, <1>2, WriteStep, AroundStep, ExitStep, StartStep DEF Next

-----------------------------------------------------------------------------
\* The chain from the daemon's recipient to the accepted row, and what else is invariant.
THEOREM WorkerInvariance == Spec => []WInv
  <1>1. QED
    BY InitWInv, NextWInv, PTL DEF Spec

\* The answer of a request was written by the person the daemon asked, after the
\* question reached the chat, and not as an inline reply to another question.
THEOREM AskedPersonAnswers == Spec => []AnsweredByThePersonAsked
  <1>1. ASSUME WInv PROVE AnsweredByThePersonAsked
    <2> SUFFICES ASSUME NEW r \in Confirms, outcome[r] = "answered"
                 PROVE  /\ PeerOf[rows[accepted[r]].chat] = asked[r]
                        /\ rows[accepted[r]].by = "peer"
                        /\ rows[accepted[r]].re # 0 => rows[rows[accepted[r]].re].about = r
                        /\ \E i \in 1..(accepted[r] - 1) : rows[i].about = r
      BY DEF AnsweredByThePersonAsked
    <2>1. /\ ItsRow(r) /\ accepted[r] \in DOMAIN rows /\ Eligible(r, accepted[r])
          /\ PeerOf[chat[r]] = asked[r]
      BY <1>1 DEF WInv, TakenIsEligible, Requests
    <2>2. DOMAIN rows = 1..Len(rows) /\ Len(rows) \in Nat
      BY <1>1 DEF WInv, WorkerType
    <2>3. sent[r] \in 1..(accepted[r] - 1) /\ rows[sent[r]].about = r
      BY <2>1, <2>2 DEF ItsRow, Eligible
    <2>4. QED
      BY <2>1, <2>3 DEF Eligible
  <1>2. QED
    BY <1>1, WorkerInvariance, PTL

\* A question is in the database at most once, whatever fails.
THEOREM SentOnce == Spec => []NeverResent
  <1>1. ASSUME WInv PROVE NeverResent
    <2> SUFFICES ASSUME NEW r \in Requests
                 PROVE  Cardinality({i \in DOMAIN rows : rows[i].about = r}) <= 1
      BY DEF NeverResent
    <2> DEFINE S == {i \in DOMAIN rows : rows[i].about = r}
    <2>1. \A i, j \in S : i = j
      BY <1>1 DEF WInv, OneRow
    <2>2. CASE S = {}
      BY <2>2, FS_EmptySet
    <2>3. CASE S # {}
      <3>1. PICK i : S = {i}
        BY <2>1, <2>3
      <3>2. QED
        BY <3>1, FS_Singleton
    <2>4. QED
      BY <2>2, <2>3
  <1>2. QED
    BY <1>1, WorkerInvariance, PTL

\* No imsg watch outlives its connection's handler or the worker.
THEOREM WatchesEnd == Spec => []WatchesAreReaped
  <1>1. ASSUME WInv PROVE WatchesAreReaped
    BY <1>1 DEF WInv, WorkerType, WatchesRun, Watching, WatchesAreReaped
  <1>2. QED
    BY <1>1, WorkerInvariance, PTL

\* The worker stores a chat only where none is stored, and only a chat of the
\* recipient the file names at that moment.
THEOREM StoredIsTheRecipients == Spec => StoresOnlyRecipientsChat
  <1> DEFINE P == disk'.chat # disk.chat => disk.chat = None /\ PeerOf[disk'.chat] = disk'.recipient
  <1>1. ASSUME WInv, [Next]_vars PROVE [P]_vars
    <2>1. ASSUME NEW r \in Requests, Resolve(r), Persist(chat'[r])
          PROVE  P
      <3>1. PICK k \in Chats : chat' = [chat EXCEPT ![r] = k] /\ PeerOf[k] = cached.recipient
        BY <1>1, <2>1, ResolveFinds
      <3>2. chat'[r] = k
        BY <1>1, <3>1 DEF WInv, WorkerType
      <3>3. disk \in Configs
        BY <1>1 DEF WInv, WorkerType
      <3>4. CASE UNCHANGED disk
        BY <3>4
      <3>5. CASE disk.recipient = cached.recipient /\ disk.chat = None
                 /\ disk' = [disk EXCEPT !.chat = k]
        BY <3>1, <3>3, <3>5 DEF Configs
      <3>6. QED
        BY <2>1, <3>2, <3>4, <3>5 DEF Persist
    <2>2. CASE Edit
      BY <1>1, <2>2 DEF Edit, WInv, WorkerType, Configs
    <2>3. CASE UNCHANGED disk
      BY <2>3
    <2>4. ASSUME NEW r \in Requests, Serve(r)
          PROVE  UNCHANGED disk \/ (Resolve(r) /\ Persist(chat'[r]))
      <3>1. CASE Notified(r) \/ SpawnWatch(r)
        BY <3>1 DEF Notified, SpawnWatch
      <3>2. CASE ~(Notified(r) \/ SpawnWatch(r))
        BY <2>4, <3>2 DEF Serve, Connect, Ready, NotReady, Send, Receipt, Fail, RefusePersist,
           WriteReady, Line, Scan, StopWatching, Drop, Reap, HangUp, files
      <3>3. QED
        BY <3>1, <3>2
    <2>5. ASSUME NEW r \in Requests, Serve(r) PROVE P
      <3>1. CASE Resolve(r) /\ Persist(chat'[r])
        BY <2>1, <3>1
      <3>2. QED
        BY <2>3, <2>4, <2>5, <3>1
    <2>6. CASE (\E d \in Chats : Write(d)) \/ Exit \/ Start
      BY <2>3, <2>6 DEF Write, Exit, Start, files
    <2>7. QED
      BY <1>1, <2>2, <2>5, <2>6 DEF Next
  <1>2. QED
    BY <1>1, WorkerInvariance, PTL DEF Spec, StoresOnlyRecipientsChat
-----------------------------------------------------------------------------
(***************************************************************************)
(* The first acceptable reply                                              *)
(***************************************************************************)

\* What a watch has still to print fits into one call of imsg history.
FitsHistory ==
    \A r \in Confirms : pc[r] = "watching" => Cardinality(Unprinted(r)) <= HistoryLimit

Waiting == {"spawned", "watching"}

\* A watch that misses nothing has passed no reply it could have taken.
PassedNone(r) ==
    pc[r] \in Waiting /\ ~lossy => \A i \in DOMAIN rows : Eligible(r, i) => i > cursor[r]
TookFirst(r) ==
    outcome[r] = "answered" /\ ~lossy =>
        \A i \in DOMAIN rows : Eligible(r, i) => i >= accepted[r]

ReadsInOrder ==
    /\ cursor \in [Requests -> Nat]
    /\ \A r \in Confirms : cursor[r] <= Len(rows) /\ PassedNone(r) /\ TookFirst(r)

\* Rows are only added, and a watch cannot start to miss rows.
RowsStay ==
    /\ Len(rows) \in Nat /\ Len(rows') \in Nat /\ Len(rows) <= Len(rows')
    /\ DOMAIN rows = 1..Len(rows) /\ DOMAIN rows' = 1..Len(rows')
    /\ \A i \in DOMAIN rows : rows'[i] = rows[i]
    /\ lossy' = lossy

\* A step adds a row or none.
LEMMA RowsOnlyGrow == ASSUME WInv, [Next]_vars PROVE RowsStay
  <1> DEFINE n == Len(rows)
  <1>1. rows \in Seq(WRow) /\ n \in Nat /\ DOMAIN rows = 1..n
    BY DEF WInv, WorkerType
  <1>2. CASE UNCHANGED <<rows, lossy>>
    BY <1>1, <1>2 DEF RowsStay
  <1>3. ASSUME NEW x \in WRow, rows' = Append(rows, x), UNCHANGED lossy PROVE RowsStay
    BY <1>1, <1>3, Grows DEF RowsStay
  <1>4. ASSUME NEW r \in Requests, Send(r) PROVE RowsStay
    <2>1. PICK c \in Chats :
             rows' = Append(rows, [chat |-> c, by |-> "bot", about |-> r, token |-> None,
                                   valid |-> FALSE, re |-> 0])
      BY <1>4 DEF Send, Targets, Matching, WInv, WorkerType
    <2>2. [chat |-> c, by |-> "bot", about |-> r, token |-> None, valid |-> FALSE, re |-> 0]
             \in WRow
      BY DEF WRow
    <2>3. UNCHANGED lossy
      BY <1>4 DEF Send
    <2>4. QED
      BY <1>3, <2>1, <2>2, <2>3
  <1>5. ASSUME NEW d \in Chats, Write(d) PROVE RowsStay
    <2>1. PICK by \in {"bot", "peer"}, k \in Tokens \cup {None}, ok \in BOOLEAN,
               re \in {0} \cup {i \in DOMAIN rows : rows[i].chat = d /\ rows[i].about # None} :
             rows' = Append(rows, [chat |-> d, by |-> by, about |-> None, token |-> k,
                                   valid |-> ok, re |-> re])
      BY <1>5 DEF Write
    <2>2. [chat |-> d, by |-> by, about |-> None, token |-> k, valid |-> ok, re |-> re] \in WRow
      BY <1>1 DEF WRow
    <2>3. UNCHANGED lossy
      BY <1>5 DEF Write
    <2>4. QED
      BY <1>3, <2>1, <2>2, <2>3
  <1>6. ASSUME NEW r \in Requests, Serve(r), ~Send(r) PROVE UNCHANGED <<rows, lossy>>
    BY <1>6 DEF Serve, Connect, Ready, NotReady, Receipt, Fail, RefusePersist, Notified,
       SpawnWatch, WriteReady, Line, Scan, StopWatching, Drop, Reap, HangUp, external
  <1>7. CASE Edit \/ Exit \/ Start \/ UNCHANGED vars
    BY <1>2, <1>7 DEF Edit, Exit, Start, vars, external
  <1>8. QED
    BY <1>2, <1>4, <1>5, <1>6, <1>7 DEF Next

\* A request that neither starts its watch nor reads a row.
Still(r) ==
    /\ cursor'[r] = cursor[r]
    /\ pc'[r] \in Waiting => pc[r] \in Waiting /\ sent'[r] = sent[r] /\ chat'[r] = chat[r]
    /\ outcome'[r] = "answered" =>
          /\ outcome[r] = "answered" /\ accepted'[r] = accepted[r]
          /\ sent'[r] = sent[r] /\ chat'[r] = chat[r]

\* A new row comes after everything the watch printed and after the answer.
LEMMA StillStep ==
    ASSUME WInv, ReadsInOrder, RowsStay, NEW r \in Confirms, Still(r)
    PROVE  cursor'[r] <= Len(rows') /\ PassedNone(r)' /\ TookFirst(r)'
  <1>1. cursor[r] \in Nat /\ cursor[r] <= Len(rows) /\ r \in Requests
    BY DEF ReadsInOrder, Requests
  <1>2. cursor'[r] <= Len(rows')
    BY <1>1 DEF Still, RowsStay
  <1>3. PassedNone(r)'
    <2> SUFFICES ASSUME pc'[r] \in Waiting, ~lossy', NEW i \in DOMAIN rows', Eligible(r, i)'
                 PROVE  i > cursor'[r]
      BY DEF PassedNone
    <2>1. CASE i \in DOMAIN rows
      <3>1. Eligible(r, i)
        BY <2>1 DEF Eligible, Still, RowsStay
      <3>2. QED
        BY <2>1, <3>1 DEF ReadsInOrder, PassedNone, Still, RowsStay
    <2>2. CASE i \notin DOMAIN rows
      BY <1>1, <2>2 DEF Still, RowsStay
    <2>3. QED
      BY <2>1, <2>2
  <1>4. TookFirst(r)'
    <2> SUFFICES ASSUME outcome'[r] = "answered", ~lossy', NEW i \in DOMAIN rows',
                        Eligible(r, i)'
                 PROVE  i >= accepted'[r]
      BY DEF TookFirst
    <2>0. accepted'[r] = accepted[r] /\ accepted[r] \in DOMAIN rows
      BY <1>1 DEF Still, WInv, TakenIsEligible
    <2>1. CASE i \in DOMAIN rows
      <3>1. Eligible(r, i)
        BY <2>1 DEF Eligible, Still, RowsStay
      <3>2. QED
        BY <2>0, <2>1, <3>1 DEF ReadsInOrder, TookFirst, Still, RowsStay
    <2>2. CASE i \notin DOMAIN rows
      BY <2>0, <2>2 DEF RowsStay
    <2>3. QED
      BY <2>1, <2>2
  <1>5. QED
    BY <1>2, <1>3, <1>4

\* Every unprinted row of a chat is among the recent ones when they fit.
LEMMA UnprintedIsRecent ==
    ASSUME WInv, ReadsInOrder, FitsHistory, NEW r \in Confirms, pc[r] = "watching",
           NEW i \in Unprinted(r)
    PROVE  i \in Recent(r)
  <1> DEFINE later == {j \in InChat(r) : j >= i}
  <1>1. DOMAIN rows = 1..Len(rows) /\ Len(rows) \in Nat /\ cursor[r] \in Nat
    BY DEF WInv, WorkerType, ReadsInOrder, Requests
  <1>2. i \in InChat(r) /\ i > cursor[r] /\ i \in Nat
    BY <1>1 DEF Unprinted, InChat
  <1>3. IsFiniteSet(Unprinted(r))
    <2>1. IsFiniteSet(1..Len(rows)) /\ Unprinted(r) \subseteq 1..Len(rows)
      BY <1>1, FS_Interval DEF Unprinted, InChat
    <2>2. QED
      BY <2>1, FS_Subset
  <1>4. later \subseteq Unprinted(r)
    BY <1>1, <1>2 DEF Unprinted, InChat
  <1>5. /\ Cardinality(later) <= Cardinality(Unprinted(r))
        /\ Cardinality(later) \in Nat /\ Cardinality(Unprinted(r)) \in Nat
    BY <1>3, <1>4, FS_Subset, FS_CardinalityType
  <1>6. Cardinality(Unprinted(r)) <= HistoryLimit /\ HistoryLimit \in Nat
    BY WorkerAssumption DEF FitsHistory
  <1>7. Cardinality(later) <= HistoryLimit
    BY <1>5, <1>6
  <1>8. QED
    BY <1>2, <1>7 DEF Recent

\* A line of the watch takes the first reply, or passes a row that is none.
LEMMA LineInOrder ==
    ASSUME WInv, ReadsInOrder, NEW r \in Confirms, Line(r)
    PROVE  cursor'[r] \in DOMAIN rows /\ PassedNone(r)' /\ TookFirst(r)'
  <1>1. /\ DOMAIN rows = 1..Len(rows) /\ Len(rows) \in Nat /\ cursor[r] \in Nat
        /\ r \in Requests /\ cursor \in [Requests -> Nat] /\ pc[r] = "watching"
        /\ pc \in [Requests -> {"new", "done"} \cup Running]
        /\ accepted \in [Requests -> Nat]
        /\ outcome \in [Requests -> {None, "refused", "error", "sent", "gone", "answered"}]
    BY DEF WInv, WorkerType, ReadsInOrder, Requests, Line
  <1>o. outcome[r] # "answered"
    BY <1>1 DEF WInv, TakenIsEligible
  <1>2. PICK i \in Unprinted(r) :
           /\ lossy \/ \A j \in Unprinted(r) : i <= j
           /\ cursor' = [cursor EXCEPT ![r] = i]
           /\ \/ Eligible(r, i) /\ Accept(r, i)
              \/ ~Eligible(r, i) /\ UNCHANGED <<pc, accepted, outcome>>
    BY DEF Line
  <1>3. UNCHANGED <<rows, lossy, sent, chat>>
    BY DEF Line, external, request
  <1>4. i \in DOMAIN rows /\ i \in Nat /\ cursor'[r] = i
    BY <1>1, <1>2 DEF Unprinted, InChat
  <1>5. ASSUME ~lossy, NEW j \in DOMAIN rows, Eligible(r, j) PROVE i <= j
    <2>1. j > cursor[r]
      BY <1>1, <1>5 DEF ReadsInOrder, PassedNone, Waiting
    <2>2. j \in Unprinted(r)
      BY <1>5, <2>1 DEF Unprinted, InChat, Eligible
    <2>3. QED
      BY <1>2, <1>5, <2>2
  <1>6. \A j \in DOMAIN rows : Eligible(r, j)' <=> Eligible(r, j)
    BY <1>3 DEF Eligible
  <1>7. CASE Eligible(r, i) /\ Accept(r, i)
    <2>1. pc'[r] = "reaping" /\ accepted'[r] = i
      BY <1>1, <1>7 DEF Accept, Goto
    <2>2. PassedNone(r)'
      BY <2>1 DEF PassedNone, Waiting
    <2>3. TookFirst(r)'
      BY <1>1, <1>3, <1>4, <1>5, <1>6, <2>1 DEF TookFirst
    <2>4. QED
      BY <1>4, <2>2, <2>3
  <1>8. CASE ~Eligible(r, i) /\ UNCHANGED <<pc, accepted, outcome>>
    <2>1. TookFirst(r)'
      BY <1>1, <1>o, <1>8 DEF TookFirst
    <2>2. ASSUME ~lossy, NEW j \in DOMAIN rows, Eligible(r, j) PROVE j > i
      BY <1>1, <1>4, <1>5, <1>8, <2>2
    <2>3. PassedNone(r)'
      BY <1>3, <1>4, <1>6, <2>2 DEF PassedNone
    <2>4. QED
      BY <1>4, <2>1, <2>3
  <1>9. QED
    BY <1>2, <1>7, <1>8

\* A scan takes the first reply of all, since none was passed and the rest fit.
LEMMA ScanInOrder ==
    ASSUME WInv, ReadsInOrder, FitsHistory, NEW r \in Confirms, Scan(r)
    PROVE  cursor' = cursor /\ PassedNone(r)' /\ TookFirst(r)'
  <1>1. /\ DOMAIN rows = 1..Len(rows) /\ Len(rows) \in Nat /\ r \in Requests
        /\ pc[r] = "watching" /\ pc \in [Requests -> {"new", "done"} \cup Running]
        /\ accepted \in [Requests -> Nat]
    BY DEF WInv, WorkerType, Requests, Scan, Goto
  <1>o. outcome[r] # "answered"
    BY <1>1 DEF WInv, TakenIsEligible
  <1>2. UNCHANGED <<rows, lossy, sent, chat, cursor>>
    BY DEF Scan, external, request
  <1>3. \A j \in DOMAIN rows : Eligible(r, j)' <=> Eligible(r, j)
    BY <1>2 DEF Eligible
  <1>4. CASE UNCHANGED <<pc, accepted, outcome>>
    BY <1>1, <1>o, <1>2, <1>3, <1>4 DEF ReadsInOrder, PassedNone, TookFirst
  <1>5. ASSUME NEW i \in Recent(r), Eligible(r, i), Accept(r, i),
               \A j \in Recent(r) : Eligible(r, j) => i <= j
        PROVE  PassedNone(r)' /\ TookFirst(r)'
    <2>1. pc'[r] = "reaping" /\ accepted'[r] = i
      BY <1>1, <1>5 DEF Accept, Goto
    <2>2. PassedNone(r)'
      BY <2>1 DEF PassedNone, Waiting
    <2>3. ASSUME ~lossy, NEW j \in DOMAIN rows, Eligible(r, j) PROVE i <= j
      <3>1. j > cursor[r]
        BY <1>1, <2>3 DEF ReadsInOrder, PassedNone, Waiting
      <3>2. j \in Unprinted(r)
        BY <2>3, <3>1 DEF Unprinted, InChat, Eligible
      <3>3. QED
        BY <1>1, <1>5, <2>3, <3>2, UnprintedIsRecent
    <2>4. i \in DOMAIN rows
      BY DEF Recent, InChat
    <2>5. TookFirst(r)'
      BY <1>1, <1>2, <1>3, <2>1, <2>3, <2>4 DEF TookFirst
    <2>6. QED
      BY <2>2, <2>5
  <1>6. \/ UNCHANGED <<pc, accepted, outcome>>
        \/ \E i \in Recent(r) : /\ Eligible(r, i) /\ Accept(r, i)
                                /\ \A j \in Recent(r) : Eligible(r, j) => i <= j
    BY DEF Scan
  <1>7. QED
    BY <1>2, <1>4, <1>5, <1>6

\* A watch starts at the question: no reply to it comes before.
LEMMA SpawnInOrder ==
    ASSUME WInv, ReadsInOrder, NEW r \in Confirms, SpawnWatch(r)
    PROVE  /\ cursor' \in [Requests -> Nat] /\ cursor'[r] <= Len(rows)
           /\ \A q \in Requests \ {r} : cursor'[q] = cursor[q]
           /\ PassedNone(r)' /\ TookFirst(r)'
  <1>1. /\ r \in Requests /\ DOMAIN rows = 1..Len(rows) /\ Len(rows) \in Nat
        /\ cursor \in [Requests -> Nat] /\ cursor[r] <= Len(rows)
        /\ pc \in [Requests -> {"new", "done"} \cup Running]
        /\ outcome \in [Requests -> {None, "refused", "error", "sent", "gone", "answered"}]
    BY DEF WInv, WorkerType, ReadsInOrder, Requests
  <1>2. pc[r] = "sent" /\ sent[r] \in DOMAIN rows /\ outcome[r] # "answered"
    <2>1. pc[r] = "sent"
      BY DEF SpawnWatch, Resolve
    <2>2. QED
      BY <1>1, <2>1 DEF WInv, SentIsItsRow, ItsRow, Running, Unsent, TakenIsEligible
  <1>3. UNCHANGED <<rows, lossy, sent>>
    BY DEF SpawnWatch, external
  <1>4. \/ /\ pc' = [pc EXCEPT ![r] = "spawned"] /\ UNCHANGED outcome
           /\ cursor' = [cursor EXCEPT ![r] = sent[r]]
        \/ /\ pc' = [pc EXCEPT ![r] = "done"] /\ outcome' = [outcome EXCEPT ![r] = "error"]
           /\ UNCHANGED cursor
    BY DEF SpawnWatch, Goto, Finish
  <1>5. outcome'[r] # "answered"
    BY <1>1, <1>2, <1>4
  <1>6. TookFirst(r)'
    BY <1>5 DEF TookFirst
  <1>7. CASE pc' = [pc EXCEPT ![r] = "spawned"] /\ cursor' = [cursor EXCEPT ![r] = sent[r]]
    <2>1. cursor'[r] = sent'[r] /\ sent[r] \in Nat
      BY <1>1, <1>2, <1>3, <1>7
    <2>2. PassedNone(r)'
      BY <2>1 DEF PassedNone, Eligible
    <2>3. QED
      BY <1>1, <1>2, <1>6, <1>7, <2>1, <2>2
  <1>8. CASE pc' = [pc EXCEPT ![r] = "done"] /\ UNCHANGED cursor
    <2>1. pc'[r] = "done"
      BY <1>1, <1>8
    <2>2. PassedNone(r)'
      BY <2>1 DEF PassedNone, Waiting
    <2>3. QED
      BY <1>1, <1>6, <1>8, <2>2
  <1>9. QED
    BY <1>4, <1>7, <1>8

\* Every other step of a handler leaves its own request still.
LEMMA OthersAreStill ==
    ASSUME WInv, NEW r \in Requests, Serve(r), ~SpawnWatch(r), ~Line(r), ~Scan(r)
    PROVE  cursor' = cursor /\ Still(r)
  <1> USE DEF Goto, Finish, Waiting, Preparing, external, process, connection, request, watch
  <1>t. /\ pc \in [Requests -> {"new", "done"} \cup Running]
        /\ outcome \in [Requests -> {None, "refused", "error", "sent", "gone", "answered"}]
        /\ sent \in [Requests -> Nat] /\ chat \in [Requests -> Chats \cup {None}]
        /\ outcome[r] = "answered" => pc[r] \in {"reaping", "done"}
    BY DEF WInv, WorkerType, TakenIsEligible
  <1>1. CASE Connect(r)
    BY <1>1, <1>t DEF Connect, Still
  <1>2. CASE Ready(r)
    BY <1>2, <1>t DEF Ready, Still
  <1>3. CASE NotReady(r)
    BY <1>3, <1>t DEF NotReady, Still
  <1>4. CASE Send(r)
    BY <1>4, <1>t DEF Send, Still
  <1>5. CASE Receipt(r)
    BY <1>5, <1>t DEF Receipt, Still
  <1>6. CASE Fail(r)
    BY <1>6, <1>t DEF Fail, Still
  <1>7. CASE RefusePersist(r)
    BY <1>7, <1>t DEF RefusePersist, Still
  <1>8. CASE Notified(r)
    BY <1>8, <1>t DEF Notified, Still
  <1>9. CASE WriteReady(r)
    BY <1>9, <1>t DEF WriteReady, Still
  <1>10. CASE StopWatching(r)
    BY <1>10, <1>t DEF StopWatching, Still
  <1>11. CASE Drop(r)
    BY <1>11, <1>t DEF Drop, Still
  <1>12. CASE Reap(r)
    BY <1>12, <1>t DEF Reap, Still
  <1>13. CASE HangUp(r)
    BY <1>13, <1>t DEF HangUp, Still
  <1>14. QED
    BY <1>1, <1>2, <1>3, <1>4, <1>5, <1>6, <1>7, <1>8, <1>9, <1>10, <1>11, <1>12, <1>13 DEF Serve

\* A step of one handler leaves the other requests still.
LEMMA NeighboursAreStill ==
    ASSUME WInv, NEW r \in Requests, Serve(r), NEW q \in Requests, q # r,
           cursor'[q] = cursor[q]
    PROVE  Still(q)
  <1> USE DEF Goto, Finish, Resolve, Accept, external, process, connection, request, watch
  <1>t. /\ pc \in [Requests -> {"new", "done"} \cup Running]
        /\ outcome \in [Requests -> {None, "refused", "error", "sent", "gone", "answered"}]
        /\ sent \in [Requests -> Nat] /\ chat \in [Requests -> Chats \cup {None}]
        /\ accepted \in [Requests -> Nat]
    BY DEF WInv, WorkerType
  <1>1. /\ pc'[q] = pc[q] /\ outcome'[q] = outcome[q] /\ sent'[q] = sent[q]
        /\ chat'[q] = chat[q] /\ accepted'[q] = accepted[q]
    <2>1. CASE Connect(r)
      BY <2>1, <1>t DEF Connect
    <2>2. CASE Ready(r) \/ NotReady(r) \/ Receipt(r) \/ Fail(r)
      BY <2>2, <1>t DEF Ready, NotReady, Receipt, Fail
    <2>3. CASE Send(r)
      BY <2>3, <1>t DEF Send
    <2>4. CASE RefusePersist(r)
      BY <2>4, <1>t DEF RefusePersist
    <2>5. CASE Notified(r)
      BY <2>5, <1>t DEF Notified
    <2>6. CASE SpawnWatch(r)
      BY <2>6, <1>t DEF SpawnWatch
    <2>7. CASE WriteReady(r) \/ StopWatching(r) \/ Drop(r) \/ Reap(r) \/ HangUp(r)
      BY <2>7, <1>t DEF WriteReady, StopWatching, Drop, Reap, HangUp
    <2>8. CASE Line(r) \/ Scan(r)
      BY <2>8, <1>t, BothRead DEF Reads
    <2>9. QED
      BY <2>1, <2>2, <2>3, <2>4, <2>5, <2>6, <2>7, <2>8 DEF Serve
  <1>2. QED
    BY <1>1 DEF Still

\* The order is kept while what is unprinted fits.
LEMMA NextReadsInOrder ==
    ASSUME WInv, ReadsInOrder, FitsHistory, [Next]_vars
    PROVE  ReadsInOrder'
  <1>1. RowsStay
    BY RowsOnlyGrow
  <1>t. cursor \in [Requests -> Nat] /\ Confirms \subseteq Requests
    BY DEF ReadsInOrder, Requests
  <1>2. ASSUME cursor' = cursor, \A q \in Confirms : Still(q) PROVE ReadsInOrder'
    BY <1>1, <1>2, <1>t, StillStep DEF ReadsInOrder
  <1>3. ASSUME NEW r \in Requests, Serve(r) PROVE ReadsInOrder'
    <2>1. CASE Line(r) \/ Scan(r) \/ SpawnWatch(r)
      <3>2. UNCHANGED rows
        BY <2>1 DEF Line, Scan, SpawnWatch, external
      <3>0. DOMAIN rows = 1..Len(rows) /\ Len(rows) \in Nat
        BY <1>1 DEF RowsStay
      <3>1. /\ cursor' \in [Requests -> Nat]
            /\ \A q \in Requests \ {r} : cursor'[q] = cursor[q]
        <4>1. CASE Line(r)
          <5>1. PICK i \in Unprinted(r) : cursor' = [cursor EXCEPT ![r] = i]
            BY <4>1 DEF Line
          <5>2. i \in Nat
            BY <3>0 DEF Unprinted, InChat
          <5>3. QED
            BY <1>t, <5>1, <5>2
        <4>2. CASE Scan(r)
          BY <1>t, <4>2 DEF Scan
        <4>3. CASE SpawnWatch(r)
          BY <4>3, SpawnInOrder DEF SpawnWatch
        <4>4. QED
          BY <2>1, <4>1, <4>2, <4>3
      <3>3. r \in Confirms => cursor'[r] <= Len(rows) /\ PassedNone(r)' /\ TookFirst(r)'
        <4>1. ASSUME r \in Confirms, Line(r)
              PROVE  cursor'[r] <= Len(rows) /\ PassedNone(r)' /\ TookFirst(r)'
          BY <3>0, <4>1, LineInOrder
        <4>2. ASSUME r \in Confirms, Scan(r)
              PROVE  cursor'[r] <= Len(rows) /\ PassedNone(r)' /\ TookFirst(r)'
          BY <4>2, ScanInOrder DEF ReadsInOrder
        <4>3. ASSUME r \in Confirms, SpawnWatch(r)
              PROVE  cursor'[r] <= Len(rows) /\ PassedNone(r)' /\ TookFirst(r)'
          BY <4>3, SpawnInOrder
        <4>4. QED
          BY <2>1, <4>1, <4>2, <4>3
      <3>4. ASSUME NEW q \in Confirms, q # r
            PROVE  cursor'[q] <= Len(rows') /\ PassedNone(q)' /\ TookFirst(q)'
        BY <1>1, <1>3, <1>t, <3>1, <3>4, NeighboursAreStill, StillStep
      <3>5. QED
        BY <3>1, <3>2, <3>3, <3>4 DEF ReadsInOrder
    <2>2. CASE ~(Line(r) \/ Scan(r) \/ SpawnWatch(r))
      <3>1. cursor' = cursor /\ Still(r)
        BY <1>3, <2>2, OthersAreStill
      <3>2. \A q \in Confirms : Still(q)
        BY <1>3, <1>t, <3>1, NeighboursAreStill
      <3>3. QED
        BY <1>2, <3>1, <3>2
    <2>3. QED
      BY <2>1, <2>2
  <1>4. CASE (\E d \in Chats : Write(d)) \/ Edit \/ Start \/ UNCHANGED vars
    <2>1. UNCHANGED <<cursor, pc, outcome, sent, chat, accepted>>
      BY <1>4 DEF Write, Edit, Start, vars, external, files, process, connection, request, watch
    <2>2. \A q \in Confirms : Still(q)
      BY <2>1 DEF Still
    <2>3. QED
      BY <1>2, <2>1, <2>2
  <1>5. CASE Exit
    <2>1. /\ UNCHANGED <<cursor, sent, chat, accepted>>
          /\ \A q \in Requests :
                 /\ pc'[q] \in {"new", "done"}
                 /\ outcome'[q] = "answered" => outcome[q] = "answered"
      BY <1>5 DEF Exit, request
    <2>2. \A q \in Confirms : Still(q)
      BY <1>t, <2>1 DEF Still, Waiting
    <2>3. QED
      BY <1>2, <2>1, <2>2
  <1>6. QED
    BY <1>3, <1>4, <1>5 DEF Next

\* With a watch that misses nothing, the answer is the first acceptable reply, whichever of
\* the watch and the catch-up scan comes to it first, as long as the rows the watch has still
\* to print fit into the one history call a scan makes (with more, a scan sees only the
\* newest of them and may take a later reply first).
THEOREM FirstReplyWins == Spec /\ []FitsHistory => []EarliestReplyWins
  <1>1. Init => ReadsInOrder
    BY WorkerAssumption DEF Init, ReadsInOrder, PassedNone, TookFirst, Requests, Waiting
  <1>2. WInv /\ ReadsInOrder /\ FitsHistory /\ [Next]_vars => ReadsInOrder'
    BY NextReadsInOrder
  <1>3. ASSUME WInv, ReadsInOrder PROVE EarliestReplyWins
    <2> SUFFICES ASSUME NEW r \in Confirms, outcome[r] = "answered", ~lossy,
                        NEW i \in 1..(accepted[r] - 1), Eligible(r, i)
                 PROVE  FALSE
      BY DEF EarliestReplyWins
    <2>1. /\ accepted[r] \in DOMAIN rows /\ DOMAIN rows = 1..Len(rows) /\ Len(rows) \in Nat
      BY <1>3 DEF WInv, WorkerType, TakenIsEligible, Requests
    <2>2. i \in DOMAIN rows /\ i < accepted[r]
      BY <2>1
    <2>3. QED
      BY <1>3, <2>1, <2>2 DEF ReadsInOrder, TookFirst
  <1>4. QED
    BY <1>1, <1>2, <1>3, WorkerInvariance, PTL DEF Spec

-----------------------------------------------------------------------------
(***************************************************************************)
(* A refused question was not sent, when a chat is stored                  *)
(***************************************************************************)

\* The stored chat is never taken away, and readiness expects it.
ChatIsStored ==
    /\ disk.chat # None /\ cached.chat # None
    /\ \A r \in Requests : pc[r] \in {"prepared", "sending", "sent"} => ready[r] = cached.chat

\* The refusals come before the send.
RefusedUnsent ==
    \A r \in Requests : outcome[r] = "refused" =>
        pc[r] = "done" /\ \A i \in DOMAIN rows : rows[i].about # r

\* The row of the receipt is found in the stored chat, or nowhere.
LEMMA NeverRefusesAfterSend ==
    ASSUME WInv, ChatIsStored, NEW r \in Requests
    PROVE  ~RefusePersist(r)
  <1> SUFFICES ASSUME RefusePersist(r) PROVE FALSE
    OBVIOUS
  <1>1. pc[r] = "sent" /\ cached.chat # chat'[r]
    BY DEF RefusePersist, Resolve
  <1>2. ready[r] = cached.chat /\ ready[r] # None
    BY <1>1 DEF ChatIsStored
  <1>3. chat' = [chat EXCEPT ![r] = ready[r]]
    BY <1>2 DEF RefusePersist, Resolve
  <1>4. chat'[r] = ready[r]
    BY <1>3 DEF WInv, WorkerType
  <1>5. QED
    BY <1>1, <1>2, <1>4

\* What a step of a handler does to what is stored, expected and refused.
LEMMA ServeStored ==
    ASSUME WInv, ChatIsStored, RefusedUnsent, NEW r \in Requests, Serve(r)
    PROVE  ChatIsStored' /\ RefusedUnsent'
  <1> USE DEF Goto, Finish, external, files, process, connection, request, watch
  <1>t. /\ pc \in [Requests -> {"new", "done"} \cup Running]
        /\ outcome \in [Requests -> {None, "refused", "error", "sent", "gone", "answered"}]
        /\ ready \in [Requests -> Chats \cup {None}] /\ disk \in Configs
        /\ rows \in Seq(WRow) /\ ~RefusePersist(r)
    BY NeverRefusesAfterSend DEF WInv, WorkerType
  <1>1. CASE Ready(r)
    <2>1. pc' = [pc EXCEPT ![r] = "prepared"] /\ UNCHANGED <<rows, outcome, disk, cached>>
          /\ pc[r] = "preparing"
      BY <1>1 DEF Ready
    <2>2. ready' = [ready EXCEPT ![r] = cached.chat]
      BY <1>1 DEF Ready, ChatIsStored
    <2>3. ready'[r] = cached.chat /\ \A q \in Requests \ {r} : ready'[q] = ready[q]
      BY <1>t, <2>2
    <2>4. QED
      BY <1>t, <2>1, <2>3 DEF ChatIsStored, RefusedUnsent
  <1>2. CASE Connect(r) \/ NotReady(r)
    <2>1. /\ UNCHANGED <<rows, disk, cached, ready>> /\ pc[r] \in Unsent
          /\ \/ pc' = [pc EXCEPT ![r] = "done"] /\ outcome' = [outcome EXCEPT ![r] = "refused"]
             \/ pc' = [pc EXCEPT ![r] = "preparing"] /\ outcome' = outcome /\ pc[r] = "new"
      BY <1>2 DEF Connect, NotReady, Unsent
    <2>2. \A i \in DOMAIN rows : rows[i].about # r
      BY <2>1 DEF WInv, UnsentHasNoRow
    <2>3. QED
      BY <1>t, <2>1, <2>2 DEF ChatIsStored, RefusedUnsent
  <1>3. CASE Send(r)
    <2>1. PICK c \in Chats :
             rows' = Append(rows, [chat |-> c, by |-> "bot", about |-> r, token |-> None,
                                   valid |-> FALSE, re |-> 0])
      BY <1>3 DEF Send, Targets, Matching, WInv, WorkerType
    <2>2. [chat |-> c, by |-> "bot", about |-> r, token |-> None, valid |-> FALSE, re |-> 0]
             \in WRow
      BY DEF WRow
    <2>3. /\ \A i \in DOMAIN rows' : i \in DOMAIN rows \/ i = Len(rows) + 1
          /\ \A i \in DOMAIN rows : rows'[i] = rows[i]
          /\ rows'[Len(rows) + 1].about = r
      BY <2>1, <2>2, Grows
    <2>4. pc' = [pc EXCEPT ![r] = "sending"] /\ UNCHANGED <<outcome, disk, cached, ready>>
          /\ pc[r] = "prepared"
      BY <1>3 DEF Send
    <2>5. ChatIsStored'
      BY <1>t, <2>4 DEF ChatIsStored
    <2>6. ASSUME NEW q \in Requests, outcome'[q] = "refused"
          PROVE  pc'[q] = "done" /\ \A i \in DOMAIN rows' : rows'[i].about # q
      <3>1. q # r /\ pc[q] = "done" /\ \A i \in DOMAIN rows : rows[i].about # q
        BY <2>4, <2>6 DEF RefusedUnsent
      <3>2. pc'[q] = "done"
        BY <1>t, <2>4, <3>1
      <3>3. QED
        BY <2>3, <3>1, <3>2
    <2>7. QED
      BY <2>5, <2>6 DEF RefusedUnsent
  <1>4. CASE Notified(r) \/ SpawnWatch(r)
    <2>1. /\ UNCHANGED <<rows, cached, ready>> /\ pc[r] = "sent"
          /\ \/ /\ pc' = [pc EXCEPT ![r] = "done"]
                /\ \/ outcome' = [outcome EXCEPT ![r] = "sent"]
                   \/ outcome' = [outcome EXCEPT ![r] = "error"]
             \/ pc' = [pc EXCEPT ![r] = "spawned"] /\ outcome' = outcome
      BY <1>4 DEF Notified, SpawnWatch, Resolve
    <2>2. disk' = disk
      BY <1>4 DEF Notified, SpawnWatch, Persist, ChatIsStored
    <2>3. QED
      BY <1>t, <2>1, <2>2 DEF ChatIsStored, RefusedUnsent
  <1>5. CASE Receipt(r) \/ Fail(r) \/ WriteReady(r) \/ Line(r) \/ Scan(r) \/ StopWatching(r)
             \/ Drop(r) \/ Reap(r) \/ HangUp(r)
    <2>1. UNCHANGED <<rows, disk, cached, ready>>
      BY <1>5 DEF Receipt, Fail, WriteReady, Line, Scan, StopWatching, Drop, Reap, HangUp
    <2>2. \/ UNCHANGED <<pc, outcome>>
          \/ /\ pc[r] # "done"
             /\ \/ outcome' = outcome
                \/ \E how \in {"error", "gone", "answered"} : outcome' = [outcome EXCEPT ![r] = how]
             /\ \/ \E to \in {"watching", "reaping", "done"} : pc' = [pc EXCEPT ![r] = to]
                \/ pc' = [pc EXCEPT ![r] = "sent"] /\ pc[r] = "sending"
      BY <1>5 DEF Receipt, Fail, WriteReady, Line, Scan, StopWatching, Drop, Reap, HangUp, Accept,
         Preparing
    <2>3. QED
      BY <1>t, <2>1, <2>2 DEF ChatIsStored, RefusedUnsent
  <1>6. QED
    BY <1>t, <1>1, <1>2, <1>3, <1>4, <1>5 DEF Serve

\* So do the steps around the handlers.
LEMMA NextStored ==
    ASSUME WInv, ChatIsStored, RefusedUnsent, [Next]_vars
    PROVE  ChatIsStored' /\ RefusedUnsent'
  <1> USE DEF external, files, process, connection, request, watch
  <1>1. ASSUME NEW d \in Chats, Write(d) PROVE ChatIsStored' /\ RefusedUnsent'
    <2>1. rows \in Seq(WRow) /\ DOMAIN rows \subseteq Nat
      BY DEF WInv, WorkerType
    <2>2. PICK by \in {"bot", "peer"}, k \in Tokens \cup {None}, ok \in BOOLEAN,
               re \in {0} \cup {i \in DOMAIN rows : rows[i].chat = d /\ rows[i].about # None} :
             rows' = Append(rows, [chat |-> d, by |-> by, about |-> None, token |-> k,
                                   valid |-> ok, re |-> re])
      BY <1>1 DEF Write
    <2>3. [chat |-> d, by |-> by, about |-> None, token |-> k, valid |-> ok, re |-> re] \in WRow
      BY <2>1 DEF WRow
    <2>4. \A i \in DOMAIN rows' : (i \in DOMAIN rows /\ rows'[i] = rows[i]) \/ rows'[i].about = None
      BY <2>2, <2>3, Grows
    <2>5. UNCHANGED <<pc, outcome, disk, cached, ready>>
      BY <1>1 DEF Write
    <2>6. None \notin Requests
      BY WorkerAssumption
    <2>7. QED
      BY <2>4, <2>5, <2>6 DEF ChatIsStored, RefusedUnsent
  <1>2. CASE Edit
    <2>1. disk \in Configs /\ \E p \in Peers : disk' = [disk EXCEPT !.recipient = p]
      BY <1>2 DEF WInv, WorkerType, Edit
    <2>2. disk'.chat = disk.chat
      BY <2>1 DEF Configs
    <2>3. QED
      BY <1>2, <2>2 DEF Edit, ChatIsStored, RefusedUnsent
  <1>3. CASE Exit
    BY <1>3 DEF Exit, ChatIsStored, RefusedUnsent, WInv, WorkerType
  <1>4. CASE Start
    <2>1. \A r \in Requests : pc[r] \notin {"prepared", "sending", "sent"}
      BY <1>4 DEF Start, WInv, WorkerType, AskedOfIt, Running
    <2>2. QED
      BY <1>4, <2>1 DEF Start, ChatIsStored, RefusedUnsent
  <1>5. CASE UNCHANGED vars
    BY <1>5 DEF vars, ChatIsStored, RefusedUnsent
  <1>6. QED
    BY <1>1, <1>2, <1>3, <1>4, <1>5, ServeStored DEF Next

\* design/02_channel_coordination.md says of a request that is not supported or not ready
\* that nothing is sent.  It is so, whatever is restarted and edited, when the configuration
\* names a chat from the start; what the text overlooks is the chat found by the first send.
THEOREM NothingSentBeforeRefusal ==
    Configured.chat # None => (Spec => []NeverPartiallySends)
  <1> SUFFICES ASSUME Configured.chat # None PROVE Spec => []NeverPartiallySends
    OBVIOUS
  <1>1. Init => ChatIsStored /\ RefusedUnsent
    BY WorkerAssumption DEF Init, ChatIsStored, RefusedUnsent
  <1>2. WInv /\ (ChatIsStored /\ RefusedUnsent) /\ [Next]_vars
            => (ChatIsStored /\ RefusedUnsent)'
    BY NextStored
  <1>3. RefusedUnsent => NeverPartiallySends
    BY DEF RefusedUnsent, NeverPartiallySends
  <1>4. QED
    BY <1>1, <1>2, <1>3, WorkerInvariance, PTL DEF Spec
=============================================================================
