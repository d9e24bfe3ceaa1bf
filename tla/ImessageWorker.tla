---------------------------- MODULE ImessageWorker ----------------------------
(***************************************************************************)
(* The bot's worker (channels/imessage_worker.rs) and what it does with    *)
(* imsg (channels/imessage.rs): one connection per confirmation or         *)
(* notification, its single send, the resolution of the row the send left  *)
(* in the Messages database, the persisted chat, and the watch that looks  *)
(* for the human's answer with the catch-up scan beside it.                *)
(*                                                                         *)
(* The Messages database and the imsg processes are external: rows only    *)
(* grow, a send may report an error after it sent, the live watch may miss *)
(* rows.  Row ids are positions in the sequence, so the pre-send boundary  *)
(* never refuses a receipt and is not a variable.                          *)
(* The worker's runtime has one thread: code between two awaits is a step. *)
(***************************************************************************)
EXTENDS Naturals, Sequences, FiniteSets

CONSTANTS Confirms,      \* connections that ask a question
          Notices,       \* connections that send a notification
          Peers,         \* iMessage handles
          Chats,         \* direct iMessage chats of the bot's account
          PeerOf,        \* the peer of a chat
          Tokens, TokenOf,
          Known,         \* the chats that exist when the worker starts
          Configured,    \* the configuration file when the worker starts
          Losses,        \* whether the live watch may miss rows: FALSE, TRUE or either
          MaxRows,       \* bound: rows of the Messages database
          HistoryLimit,  \* rows a history call returns
          ScanBudget,    \* catch-up scans of one watch
          MaxRestarts,   \* bound: restarts of the worker
          MaxEdits,      \* bound: edits of the configuration
          None

Requests == Confirms \cup Notices

Configs == [recipient : Peers, chat : Chats \cup {None}]

ASSUME WorkerAssumption ==
    /\ Confirms \cap Notices = {}
    /\ PeerOf \in [Chats -> Peers]
    /\ TokenOf \in [Confirms -> Tokens]
    /\ Known \subseteq Chats
    /\ Configured \in Configs
    /\ Losses \subseteq BOOLEAN /\ Losses # {}
    /\ {MaxRows, HistoryLimit, ScanBudget, MaxRestarts, MaxEdits} \subseteq Nat
    /\ None \notin Requests \cup Peers \cup Chats \cup Tokens \cup {"answered", "refused"}

VARIABLES
    rows,      \* the bot's Messages database
    known,     \* the chats it has
    lossy,     \* the live watch may miss rows
    disk,      \* the channel's configuration file
    cached,    \* the configuration serve() read when the worker started
    up,        \* the worker runs
    restarts, edits,
    pc,        \* where a connection's handler is
    asked,     \* the recipient the daemon named
    link,      \* the daemon still holds its end
    outcome,   \* how the handler ended
    ready,     \* Readiness: the chat of Ready, None for BootstrapRequired
    sent,      \* the row of the receipt
    chat,      \* the resolved chat
    child,     \* the connection's imsg watch runs
    cursor,    \* the last row the watch has printed
    scans,     \* catch-up scans made
    accepted   \* the row taken as the answer

external == <<rows, known, lossy>>
files == <<disk, edits>>
process == <<cached, up, restarts>>
connection == <<asked, link>>
request == <<ready, sent, chat>>
watch == <<child, cursor, scans, accepted>>
vars == <<external, files, process, connection, request, watch, pc, outcome>>

Row == [chat : Chats, by : {"bot", "peer"}, about : Requests \cup {None},
        token : Tokens \cup {None}, valid : BOOLEAN, re : 0..MaxRows]

Preparing == {"preparing", "prepared", "sending", "sent"}

Init ==
    /\ rows = <<>>
    /\ known = Known
    /\ lossy \in Losses
    /\ disk = Configured
    /\ cached = Configured
    /\ up = TRUE
    /\ restarts = 0
    /\ edits = 0
    /\ pc = [r \in Requests |-> "new"]
    /\ asked = [r \in Requests |-> None]
    /\ link = [r \in Requests |-> FALSE]
    /\ outcome = [r \in Requests |-> None]
    /\ ready = [r \in Requests |-> None]
    /\ sent = [r \in Requests |-> 0]
    /\ chat = [r \in Requests |-> None]
    /\ child = [r \in Requests |-> FALSE]
    /\ cursor = [r \in Requests |-> 0]
    /\ scans = [r \in Requests |-> 0]
    /\ accepted = [r \in Requests |-> 0]

Goto(r, from, to) == pc[r] = from /\ pc' = [pc EXCEPT ![r] = to]
Finish(r, how) ==
    /\ pc' = [pc EXCEPT ![r] = "done"]
    /\ outcome' = [outcome EXCEPT ![r] = how]
-----------------------------------------------------------------------------
(***************************************************************************)
(* A connection up to its send                                             *)
(***************************************************************************)

\* The daemon connects and names the recipient of its own configuration;
\* validate_request compares it with the cached one.
Connect(r) ==
    /\ up
    /\ pc[r] = "new"
    /\ link' = [link EXCEPT ![r] = TRUE]
    /\ \E p \in Peers :
        /\ asked' = [asked EXCEPT ![r] = p]
        /\ \/ p = cached.recipient /\ Goto(r, "new", "preparing") /\ UNCHANGED outcome
           \/ p # cached.recipient /\ Finish(r, "refused")
    /\ UNCHANGED <<external, files, process, request, watch>>

\* prepare: matches_recipient over the chats that exist.
Matching == {c \in known : PeerOf[c] = cached.recipient}

\* readiness_from_chats.  A stored chat must still be the recipient's.
Ready(r) ==
    /\ \/ cached.chat \in Matching /\ ready' = [ready EXCEPT ![r] = cached.chat]
       \/ cached.chat = None /\ Matching = {} /\ UNCHANGED ready
       \/ /\ cached.chat = None
          /\ \E c \in Chats : Matching = {c} /\ ready' = [ready EXCEPT ![r] = c]
    /\ Goto(r, "preparing", "prepared")
    /\ UNCHANGED <<external, files, process, connection, sent, chat, watch, outcome>>

NotReady(r) ==
    /\ pc[r] = "preparing"
    /\ \/ cached.chat # None /\ cached.chat \notin Matching
       \/ cached.chat = None /\ Cardinality(Matching) > 1
    /\ Finish(r, "refused")
    /\ UNCHANGED <<external, files, process, connection, request, watch>>

\* imsg send --to: Messages picks the chat of the recipient, or creates one.
Targets == IF Matching # {} THEN Matching ELSE {c \in Chats : PeerOf[c] = cached.recipient}

\* Mutant: a send whose outcome is uncertain is made once more.
MutSend(r) ==
    /\ pc[r] \in {"prepared", "sending"}
    /\ Len(rows) < MaxRows
    /\ \E c \in Targets :
        /\ known' = known \cup {c}
        /\ rows' = Append(rows, [chat |-> c, by |-> "bot", about |-> r, token |-> None,
                                 valid |-> FALSE, re |-> 0])
    /\ pc' = [pc EXCEPT ![r] = "sending"]
    /\ sent' = [sent EXCEPT ![r] = Len(rows')]
    /\ UNCHANGED <<lossy, files, process, connection, ready, chat, watch, outcome>>

\* The mutation takes effect; its receipt may still be lost (Fail).
Send(r) ==
    /\ Len(rows) < MaxRows
    /\ Goto(r, "prepared", "sending")
    /\ \E c \in Targets :
        /\ known' = known \cup {c}
        /\ rows' = Append(rows, [chat |-> c, by |-> "bot", about |-> r, token |-> None,
                                 valid |-> FALSE, re |-> 0])
    /\ sent' = [sent EXCEPT ![r] = Len(rows')]
    /\ UNCHANGED <<lossy, files, process, connection, ready, chat, watch, outcome>>

Receipt(r) ==
    /\ Goto(r, "sending", "sent")
    /\ UNCHANGED <<external, files, process, connection, request, watch, outcome>>

\* imsg fails, times out, or shows no row in time: every error up to the watch.
Fail(r) ==
    /\ pc[r] \in Preparing
    /\ Finish(r, "error")
    /\ UNCHANGED <<external, files, process, connection, request, watch>>
-----------------------------------------------------------------------------
(***************************************************************************)
(* The sent row is found, its chat is persisted, and the watch is started,  *)
(* without an await in between                                             *)
(***************************************************************************)

\* resolve_after_send: the row of the receipt is in the chat readiness expects, or,
\* after a bootstrap, in a chat of the recipient.
Resolve(r) ==
    LET c == rows[sent[r]].chat IN
    /\ pc[r] = "sent"
    /\ c = ready[r] \/ (ready[r] = None /\ PeerOf[c] = cached.recipient)
    /\ chat' = [chat EXCEPT ![r] = c]

\* Mutant: the file is not compared with the configuration the send used.
MutPersist(c) ==
    \/ cached.chat = c /\ UNCHANGED disk
    \/ cached.chat # c /\ disk.chat = None /\ disk' = [disk EXCEPT !.chat = c]

\* persist_resolved_chat: the cached configuration names the chat, or the file
\* still has the recipient and no chat.
Persist(c) ==
    \/ cached.chat = c /\ UNCHANGED disk
    \/ /\ cached.chat # c
       /\ disk.recipient = cached.recipient /\ disk.chat = None
       /\ disk' = [disk EXCEPT !.chat = c]

RefusePersist(r) ==
    /\ Resolve(r)
    /\ cached.chat # chat'[r]
    /\ disk.recipient # cached.recipient \/ disk.chat # None
    /\ Finish(r, "refused")
    /\ UNCHANGED <<external, files, process, connection, ready, sent, watch>>

\* A notification has no answer to wait for.
Notified(r) ==
    /\ r \in Notices
    /\ Resolve(r) /\ Persist(chat'[r])
    /\ Finish(r, "sent")
    /\ UNCHANGED <<external, edits, process, connection, ready, sent, watch>>

\* Mutant: the watch starts at the newest row instead of the sent one.
MutSpawnWatch(r) ==
    /\ r \in Confirms
    /\ Resolve(r) /\ Persist(chat'[r])
    /\ Goto(r, "sent", "spawned")
    /\ child' = [child EXCEPT ![r] = TRUE]
    /\ cursor' = [cursor EXCEPT ![r] = Len(rows)]
    /\ UNCHANGED <<external, edits, process, connection, ready, sent, scans, accepted, outcome>>

\* The watch of a question prints what follows the sent row; imsg may not start.
SpawnWatch(r) ==
    /\ r \in Confirms
    /\ Resolve(r) /\ Persist(chat'[r])
    /\ \/ /\ Goto(r, "sent", "spawned")
          /\ child' = [child EXCEPT ![r] = TRUE]
          /\ cursor' = [cursor EXCEPT ![r] = sent[r]]
          /\ UNCHANGED outcome
       \/ Finish(r, "error") /\ UNCHANGED <<child, cursor>>
    /\ UNCHANGED <<external, edits, process, connection, ready, sent, scans, accepted>>
-----------------------------------------------------------------------------
(***************************************************************************)
(* Waiting for the answer                                                  *)
(***************************************************************************)

\* The Ready frame and pending.register.
WriteReady(r) ==
    /\ pc[r] = "spawned"
    /\ \/ link[r] /\ Goto(r, "spawned", "watching") /\ UNCHANGED outcome
       \/ /\ ~link[r]
          /\ Goto(r, "spawned", "reaping")
          /\ outcome' = [outcome EXCEPT ![r] = "gone"]
    /\ UNCHANGED <<external, files, process, connection, request, watch>>

\* Mutant: a row the bot's own account wrote is taken.
MutOwnRow(r, i) ==
    /\ rows[i].token = TokenOf[r]
    /\ rows[i].chat = chat[r]
    /\ i > sent[r]
    /\ rows[i].re \in {0, sent[r]}
    /\ rows[i].valid

\* PendingReplies.resolve on the one entry of this connection's ledger.
Eligible(r, i) ==
    /\ rows[i].token = TokenOf[r]
    /\ rows[i].chat = chat[r]
    /\ i > sent[r]
    /\ rows[i].by = "peer"
    /\ rows[i].re \in {0, sent[r]}
    /\ rows[i].valid

\* The rows a watch scoped to the chat has still to print, and what history
\* returns.
InChat(r) == {i \in DOMAIN rows : rows[i].chat = chat[r]}
Unprinted(r) == {i \in InChat(r) : i > cursor[r]}
Recent(r) ==
    {i \in InChat(r) : Cardinality({j \in InChat(r) : j >= i}) <= HistoryLimit}

Accept(r, i) ==
    /\ Goto(r, "watching", "reaping")
    /\ accepted' = [accepted EXCEPT ![r] = i]
    /\ outcome' = [outcome EXCEPT ![r] = "answered"]

\* One line of the live watch.
Line(r) ==
    /\ pc[r] = "watching"
    /\ \E i \in Unprinted(r) :
        /\ lossy \/ \A j \in Unprinted(r) : i <= j
        /\ cursor' = [cursor EXCEPT ![r] = i]
        /\ \/ Eligible(r, i) /\ Accept(r, i)
           \/ ~Eligible(r, i) /\ UNCHANGED <<pc, accepted, outcome>>
    /\ UNCHANGED <<external, files, process, connection, request, child, scans>>

\* Mutant: the scan looks only at what the watch has not printed.
MutScan(r) ==
    /\ pc[r] = "watching"
    /\ scans[r] < ScanBudget
    /\ scans' = [scans EXCEPT ![r] = @ + 1]
    /\ LET found == {i \in Recent(r) : Eligible(r, i) /\ i > cursor[r]} IN
        \/ found = {} /\ UNCHANGED <<pc, accepted, outcome>>
        \/ \E i \in found : (\A j \in found : i <= j) /\ Accept(r, i)
    /\ UNCHANGED <<external, files, process, connection, request, child, cursor>>

\* Mutant: the rows are resolved in the order imsg prints them, newest first.
MutNewestFirst(r) ==
    /\ pc[r] = "watching"
    /\ scans[r] < ScanBudget
    /\ scans' = [scans EXCEPT ![r] = @ + 1]
    /\ LET found == {i \in Recent(r) : Eligible(r, i)} IN
        \/ found = {} /\ UNCHANGED <<pc, accepted, outcome>>
        \/ \E i \in found : (\A j \in found : i >= j) /\ Accept(r, i)
    /\ UNCHANGED <<external, files, process, connection, request, child, cursor>>

\* A tick of the catch-up: history, in the order of row ids.
Scan(r) ==
    /\ pc[r] = "watching"
    /\ scans[r] < ScanBudget
    /\ scans' = [scans EXCEPT ![r] = @ + 1]
    /\ LET found == {i \in Recent(r) : Eligible(r, i)} IN
        \/ found = {} /\ UNCHANGED <<pc, accepted, outcome>>
        \/ \E i \in found : (\A j \in found : i <= j) /\ Accept(r, i)
    /\ UNCHANGED <<external, files, process, connection, request, child, cursor>>

\* The request expires, the watch ends or prints nonsense, or history fails.
StopWatching(r) ==
    /\ Goto(r, "watching", "reaping")
    /\ outcome' = [outcome EXCEPT ![r] = "error"]
    /\ UNCHANGED <<external, files, process, connection, request, watch>>

\* Mutant: the handler of a connection that closed leaves its watch behind.
MutDrop(r) ==
    /\ pc[r] \in Preparing \cup {"watching"}
    /\ ~link[r]
    /\ Finish(r, "gone")
    /\ UNCHANGED <<external, files, process, connection, request, watch>>

\* connection_closed wins the select around prepare or around the wait.
Drop(r) ==
    /\ ~link[r]
    /\ \/ pc[r] \in Preparing /\ Finish(r, "gone")
       \/ Goto(r, "watching", "reaping") /\ outcome' = [outcome EXCEPT ![r] = "gone"]
    /\ UNCHANGED <<external, files, process, connection, request, watch>>

\* child.kill, child.wait, and the error frame.
Reap(r) ==
    /\ Goto(r, "reaping", "done")
    /\ child' = [child EXCEPT ![r] = FALSE]
    /\ UNCHANGED <<external, files, process, connection, request, cursor, scans, accepted,
                   outcome>>
-----------------------------------------------------------------------------
(***************************************************************************)
(* What happens around the connections                                     *)
(***************************************************************************)

\* The daemon gives up on a request.
HangUp(r) ==
    /\ link[r]
    /\ pc[r] # "done"
    /\ link' = [link EXCEPT ![r] = FALSE]
    /\ UNCHANGED <<external, files, process, asked, request, watch, pc, outcome>>

\* Room is kept for the rows of the sends to come.
ToSend == {r \in Requests : pc[r] \in {"new", "preparing", "prepared"}}

\* A row typed on either end of a chat: with a token or without, for a valid option
\* or not, inline to a prompt or not.
Write(c) ==
    /\ c \in known
    /\ Len(rows) + Cardinality(ToSend) < MaxRows
    /\ \E by \in {"bot", "peer"}, k \in Tokens \cup {None}, ok \in BOOLEAN,
          re \in {0} \cup {i \in DOMAIN rows : rows[i].chat = c /\ rows[i].about # None} :
        /\ k = None => ~ok /\ re = 0
        /\ rows' = Append(rows, [chat |-> c, by |-> by, about |-> None, token |-> k,
                                 valid |-> ok, re |-> re])
    /\ UNCHANGED <<known, lossy, files, process, connection, request, watch, pc, outcome>>

\* human-in-loop channel set imessage --recipient: the stored chat stays.
Edit ==
    /\ edits < MaxEdits
    /\ edits' = edits + 1
    /\ \E p \in Peers : disk' = [disk EXCEPT !.recipient = p]
    /\ UNCHANGED <<external, process, connection, request, watch, pc, outcome>>

\* A Restart request's exit(0), or a crash: launchd ends the process group, the
\* watches with it.
Exit ==
    /\ up
    /\ restarts < MaxRestarts
    /\ up' = FALSE
    /\ restarts' = restarts + 1
    /\ pc' = [r \in Requests |-> IF pc[r] = "new" THEN "new" ELSE "done"]
    /\ outcome' = [r \in Requests |->
                     IF pc[r] = "new" \/ outcome[r] # None THEN outcome[r] ELSE "gone"]
    /\ child' = [r \in Requests |-> FALSE]
    /\ UNCHANGED <<external, files, cached, connection, request, cursor, scans, accepted>>

\* launchd starts it again; serve() reads the configuration once.
Start ==
    /\ ~up
    /\ up' = TRUE
    /\ cached' = disk
    /\ UNCHANGED <<external, files, restarts, connection, request, watch, pc, outcome>>

Serve(r) ==
    \/ Connect(r) \/ Ready(r) \/ NotReady(r) \/ Send(r) \/ Receipt(r) \/ Fail(r)
    \/ RefusePersist(r) \/ Notified(r) \/ SpawnWatch(r) \/ WriteReady(r)
    \/ Line(r) \/ Scan(r) \/ StopWatching(r) \/ Drop(r) \/ Reap(r) \/ HangUp(r)

Next ==
    \/ \E r \in Requests : Serve(r)
    \/ \E c \in Chats : Write(c)
    \/ Edit \/ Exit \/ Start

Spec == Init /\ [][Next]_vars

\* The handlers are polled when they can go on.  A live watch that misses nothing prints
\* what is there, and then nothing is assumed of the catch-up timer; of a lossy watch
\* nothing is assumed, but the timer ticks: each way alone is enough.
PolledSpec ==
    /\ Spec
    /\ \A r \in Requests : WF_vars(Drop(r)) /\ WF_vars(WriteReady(r)) /\ WF_vars(Reap(r))
    /\ \A r \in Confirms : WF_vars(lossy /\ Scan(r)) /\ WF_vars(~lossy /\ Line(r))
-----------------------------------------------------------------------------
(***************************************************************************)
(* Properties                                                              *)
(***************************************************************************)

\* The answer of a request was written by the person the daemon asked, after the
\* question reached the chat, and not as an inline reply to another question: the
\* chain from the daemon's recipient over readiness and resolution to the ledger.
AnsweredByThePersonAsked ==
    \A r \in Confirms : outcome[r] = "answered" =>
        LET row == rows[accepted[r]] IN
        /\ PeerOf[row.chat] = asked[r] /\ row.by = "peer"
        /\ row.re # 0 => rows[row.re].about = r
        /\ \E i \in 1..(accepted[r] - 1) : rows[i].about = r

\* With a watch that misses nothing, the answer is the first acceptable reply,
\* whichever of the watch and the catch-up scan comes to it first.
EarliestReplyWins ==
    \A r \in Confirms : outcome[r] = "answered" /\ ~lossy =>
        ~\E i \in 1..(accepted[r] - 1) : Eligible(r, i)

\* The question of a request is in the database at most once, whatever fails.
NeverResent ==
    \A r \in Requests : Cardinality({i \in DOMAIN rows : rows[i].about = r}) <= 1

\* No imsg watch outlives its connection's handler or the worker.
WatchesAreReaped ==
    \A r \in Requests : child[r] => up /\ pc[r] \in {"spawned", "watching", "reaping"}

\* The worker stores a chat only where none is stored, and only a chat of the
\* recipient the file names at that moment, operator edits in between included.
StoresOnlyRecipientsChat ==
    [][disk'.chat # disk.chat => disk.chat = None /\ PeerOf[disk'.chat] = disk'.recipient]_vars

\* design/02_channel_coordination.md: "unsupported or non-ready iMessage requests never
\* partially send".
NeverPartiallySends ==
    \A r \in Requests : outcome[r] = "refused" => ~\E i \in DOMAIN rows : rows[i].about = r

\* The human has answered and the handler still waits.
Answerable(r) == pc[r] = "watching" /\ \E i \in DOMAIN rows : Eligible(r, i)

\* A reply the live watch prints ends the wait, one that came before the watch
\* was started included.
ReplyIsHeard == \A r \in Confirms : (Answerable(r) /\ ~lossy) ~> pc[r] # "watching"

\* A reply the watch missed ends the wait while the catch-up has a scan left.
ReplyIsRecovered ==
    \A r \in Confirms : (Answerable(r) /\ scans[r] < ScanBudget) ~> pc[r] # "watching"

\* When the daemon hangs up, the handler ends and its watch with it.
HangUpEnds == \A r \in Requests : (pc[r] = "watching" /\ ~link[r]) ~> (pc[r] = "done" /\ ~child[r])
=============================================================================
