------------------------------ MODULE Interject ------------------------------
(***************************************************************************)
(* Interjections: messages a person queues for a running agent, and the    *)
(* agent's PreToolUse hooks that fetch them (agents/interject.rs, with its *)
(* callers in daemon/runtime/mod.rs, subs.rs and inbound.rs).              *)
(*                                                                         *)
(* A hook polls once: it gets the queue, is held while a composer window   *)
(* is open, or goes on.  A person submits (replaces the queue), appends    *)
(* from an IM channel or clears.  The store's operations hold its mutex;   *)
(* the handlers around them run on several threads, and a handler that     *)
(* writes to its hook awaits between two of them.                          *)
(***************************************************************************)
EXTENDS Naturals, Sequences, FiniteSets

CONSTANTS Agents,        \* agent sessions
          Hooks,         \* hook processes
          AgentOf,       \* the session a hook belongs to
          Messages,
          Channels,      \* IM channels a message may come from
          MaxWindows,    \* bound: composer windows of one session
          MaxCrashes,    \* bound: restarts of the daemon
          None

ASSUME InterjectAssumption ==
    /\ AgentOf \in [Hooks -> Agents]
    /\ None \notin Channels
    /\ MaxWindows \in Nat /\ MaxCrashes \in Nat

VARIABLES
    queue,      \* Entry.entries
    receipts,   \* Entry.receipt_channels
    windows,    \* Entry.composers
    waiters,    \* Entry.waiters: the hooks whose senders are in it, in any order
    stored,     \* interject.json
    hook,       \* where a hook's connection is
    gone,       \* the hook closed its end: timed out, or killed
    carried,    \* the delivery the connection holds
    owed,       \* the receipt channels taken with it
    live,       \* the registry's active sessions
    ending,     \* session-end events between apply_event and remove_session
    keep,       \* the list the liveness tick read, None between ticks
    origin,     \* history: where a message came from
    fate,       \* history: what became of a message
    crashes

entry == <<queue, receipts, windows, waiters>>
connection == <<hook, gone, carried, owed>>
sessions == <<live, ending, keep>>
history == <<origin, fate>>
interjectVars == <<entry, stored, connection, sessions, history, crashes>>

States == {"idle", "polling", "answering", "held", "told", "left", "done"}
Fates == {"new", "sent", "read", "withdrawn", "cut"}

InterjectInit ==
    /\ queue = [a \in Agents |-> <<>>]
    /\ receipts = [a \in Agents |-> {}]
    /\ windows = [a \in Agents |-> 0]
    /\ waiters = [a \in Agents |-> {}]
    /\ stored = [queue |-> queue, receipts |-> receipts]
    /\ hook = [h \in Hooks |-> "idle"]
    /\ gone = [h \in Hooks |-> FALSE]
    /\ carried = [h \in Hooks |-> <<>>]
    /\ owed = [h \in Hooks |-> {}]
    /\ live = Agents
    /\ ending = {}
    /\ keep = None
    /\ origin = [m \in Messages |-> None]
    /\ fate = [m \in Messages |-> "new"]
    /\ crashes = 0

Elements(q) == {q[i] : i \in DOMAIN q}
Fated(ms, f) == [m \in Messages |-> IF m \in ms THEN f ELSE fate[m]]

\* persist: the queues and receipts of every session.
Persist == stored' = [queue |-> queue', receipts |-> receipts']
-----------------------------------------------------------------------------
(***************************************************************************)
(* Handing the queue to a held hook                                        *)
(***************************************************************************)

\* A sender whose receiver was dropped reports it.
Open(a) == {h \in waiters[a] : hook[h] = "held"}

\* Every waiter is told to go on; the one in "to" takes the queue q with it.
Tell(a, to, q) ==
    /\ waiters' = [waiters EXCEPT ![a] = {}]
    /\ hook' = [h \in Hooks |-> IF h \in Open(a) THEN "told" ELSE hook[h]]
    /\ carried' = [h \in Hooks |-> IF h \in to THEN q ELSE carried[h]]

\* Mutant: the queue is emptied although nobody took it.
MutTryDeliver(a, q, channels) ==
    /\ \/ /\ q # <<>> /\ waiters[a] # {}
          /\ \E h \in waiters[a] : Tell(a, {h} \cap Open(a), q)
          /\ queue' = [queue EXCEPT ![a] = <<>>]
          /\ receipts' = [receipts EXCEPT ![a] = {}]
       \/ /\ q = <<>> \/ waiters[a] = {}
          /\ waiters' = [waiters EXCEPT ![a] = Open(a)]
          /\ queue' = [queue EXCEPT ![a] = q]
          /\ receipts' = [receipts EXCEPT ![a] = channels]
          /\ UNCHANGED <<hook, carried>>
    /\ UNCHANGED <<windows, gone, owed>>

\* try_deliver on the new queue q and its receipt channels.
TryDeliver(a, q, channels) ==
    /\ \/ /\ q # <<>>
          /\ \E h \in Open(a) : Tell(a, {h}, q)
          /\ queue' = [queue EXCEPT ![a] = <<>>]
          /\ receipts' = [receipts EXCEPT ![a] = {}]
       \/ /\ q = <<>> \/ Open(a) = {}
          /\ waiters' = [waiters EXCEPT ![a] = Open(a)]
          /\ queue' = [queue EXCEPT ![a] = q]
          /\ receipts' = [receipts EXCEPT ![a] = channels]
          /\ UNCHANGED <<hook, carried>>
    /\ UNCHANGED <<windows, gone, owed>>
-----------------------------------------------------------------------------
(***************************************************************************)
(* What a person does                                                      *)
(***************************************************************************)

\* interject_submit: the queue is replaced.
Submit(a, m) ==
    /\ fate[m] = "new"
    /\ fate' = [Fated(Elements(queue[a]), "withdrawn") EXCEPT ![m] = "sent"]
    /\ TryDeliver(a, <<m>>, {})
    /\ Persist
    /\ UNCHANGED <<sessions, origin, crashes>>

\* interject_append (no channel) and deliver_msg: the channel is owed a receipt only
\* when the message had to queue.
AppendFrom(a, m, c) ==
    /\ fate[m] = "new"
    /\ fate' = [fate EXCEPT ![m] = "sent"]
    /\ origin' = [origin EXCEPT ![m] = c]
    /\ TryDeliver(a, Append(queue[a], m), receipts[a] \cup ({c} \ {None}))
    /\ Persist
    /\ UNCHANGED <<sessions, crashes>>

\* Mutant: the receipts stay.
MutClear(a) ==
    /\ queue[a] # <<>>
    /\ queue' = [queue EXCEPT ![a] = <<>>]
    /\ UNCHANGED receipts
    /\ fate' = Fated(Elements(queue[a]), "withdrawn")
    /\ Persist
    /\ UNCHANGED <<windows, waiters, connection, sessions, origin, crashes>>

\* InterjectClear, /msg-clear, or a submission with nothing in it.
Clear(a) ==
    /\ queue[a] # <<>>
    /\ queue' = [queue EXCEPT ![a] = <<>>]
    /\ receipts' = [receipts EXCEPT ![a] = {}]
    /\ fate' = Fated(Elements(queue[a]), "withdrawn")
    /\ Persist
    /\ UNCHANGED <<windows, waiters, connection, sessions, origin, crashes>>

OpenWindow(a) ==
    /\ windows[a] < MaxWindows
    /\ windows' = [windows EXCEPT ![a] = @ + 1]
    /\ UNCHANGED <<queue, receipts, waiters, stored, connection, sessions, history, crashes>>

\* Mutant: the held hooks are left waiting.
MutCloseWindow(a) ==
    /\ windows[a] > 0
    /\ windows' = [windows EXCEPT ![a] = @ - 1]
    /\ UNCHANGED <<queue, receipts, waiters, stored, connection, sessions, history, crashes>>

\* composer_closed: with the last window every held hook may go on.
CloseWindow(a) ==
    /\ windows[a] > 0
    /\ windows' = [windows EXCEPT ![a] = @ - 1]
    /\ \/ windows[a] = 1 /\ Tell(a, {}, <<>>)
       \/ windows[a] > 1 /\ UNCHANGED <<waiters, hook, carried>>
    /\ UNCHANGED <<queue, receipts, stored, gone, owed, sessions, history, crashes>>
-----------------------------------------------------------------------------
(***************************************************************************)
(* A hook                                                                  *)
(***************************************************************************)

\* report_agent_event_with_poll: the event is on its way.
Report(h) ==
    /\ hook[h] = "idle"
    /\ hook' = [hook EXCEPT ![h] = "polling"]
    /\ UNCHANGED <<entry, stored, gone, carried, owed, sessions, history, crashes>>

\* The first frame took 300 ms, or the hook was killed.
GiveUp(h) ==
    /\ hook[h] \in {"polling", "answering", "held", "told"}
    /\ ~gone[h]
    /\ gone' = [gone EXCEPT ![h] = TRUE]
    /\ UNCHANGED <<entry, stored, hook, carried, owed, sessions, history, crashes>>

\* poll, a message: the queue is the connection's.
PollMessage(h) ==
    LET a == AgentOf[h] IN
    /\ hook[h] = "polling"
    /\ queue[a] # <<>>
    /\ hook' = [hook EXCEPT ![h] = "answering"]
    /\ carried' = [carried EXCEPT ![h] = queue[a]]
    /\ owed' = [owed EXCEPT ![h] = receipts[a]]
    /\ queue' = [queue EXCEPT ![a] = <<>>]
    /\ receipts' = [receipts EXCEPT ![a] = {}]
    /\ UNCHANGED <<windows, waiters, stored, gone, sessions, history, crashes>>

\* poll, a window is open: the Hold frame is written whether or not it arrives, and
\* the event is not applied.
PollHold(h) ==
    LET a == AgentOf[h] IN
    /\ hook[h] = "polling"
    /\ queue[a] = <<>> /\ windows[a] > 0
    /\ hook' = [hook EXCEPT ![h] = "held"]
    /\ waiters' = [waiters EXCEPT ![a] = Open(a) \cup {h}]
    /\ UNCHANGED <<queue, receipts, windows, stored, gone, carried, owed, sessions, history,
                   crashes>>

\* poll, nothing: the hook goes on and apply_event registers the session.
PollNone(h) ==
    LET a == AgentOf[h] IN
    /\ hook[h] = "polling"
    /\ queue[a] = <<>> /\ windows[a] = 0
    /\ hook' = [hook EXCEPT ![h] = "done"]
    /\ live' = live \cup {a}
    /\ UNCHANGED <<entry, stored, gone, carried, owed, ending, keep, history, crashes>>

\* requeue_front and its persist.
Requeue(a, q, channels) ==
    /\ queue' = [queue EXCEPT ![a] = q \o @]
    /\ receipts' = [receipts EXCEPT ![a] = @ \cup (IF q = <<>> THEN {} ELSE channels)]
    /\ IF q = <<>> THEN UNCHANGED stored ELSE Persist

\* A frame that was written is read unless the hook is gone: a socket may take it all
\* the same.
Readers(h) == IF gone[h] THEN {} ELSE Elements(carried[h])

\* Mutant: the delivery goes back to the queue although it was written.
MutAnswered(h) ==
    LET a == AgentOf[h] IN
    /\ hook[h] = "answering"
    /\ hook' = [hook EXCEPT ![h] = "done"]
    /\ carried' = [carried EXCEPT ![h] = IF gone[h] THEN @ ELSE <<>>]
    /\ fate' = Fated(Readers(h), "read")
    /\ live' = live \cup {a}
    /\ Requeue(a, carried[h], owed[h])
    /\ UNCHANGED <<windows, waiters, gone, owed, ending, keep, origin, crashes>>

\* The write succeeded: persist, receipts, apply_event.
Answered(h) ==
    LET a == AgentOf[h] IN
    /\ hook[h] = "answering"
    /\ hook' = [hook EXCEPT ![h] = "done"]
    /\ carried' = [carried EXCEPT ![h] = IF gone[h] THEN @ ELSE <<>>]
    /\ fate' = Fated(Readers(h), "read")
    /\ live' = live \cup {a}
    /\ UNCHANGED <<queue, receipts>> /\ Persist
    /\ UNCHANGED <<windows, waiters, gone, owed, ending, keep, origin, crashes>>

\* The write failed: the delivery goes back, the event is not applied.
AnswerLost(h) ==
    /\ hook[h] = "answering" /\ gone[h]
    /\ hook' = [hook EXCEPT ![h] = "done"]
    /\ carried' = [carried EXCEPT ![h] = <<>>]
    /\ Requeue(AgentOf[h], carried[h], owed[h])
    /\ UNCHANGED <<windows, waiters, gone, owed, sessions, history, crashes>>

\* handle_interject_hold, the outcome's branch: written, or taken back without the
\* receipts.
HandleHold(h) ==
    /\ hook[h] = "told"
    /\ hook' = [hook EXCEPT ![h] = "done"]
    /\ \/ /\ carried' = [carried EXCEPT ![h] = IF gone[h] THEN @ ELSE <<>>]
          /\ fate' = Fated(Readers(h), "read")
          /\ UNCHANGED <<queue, receipts, stored>>
       \/ /\ gone[h]
          /\ carried' = [carried EXCEPT ![h] = <<>>]
          /\ Requeue(AgentOf[h], carried[h], {})
          /\ UNCHANGED fate
    /\ UNCHANGED <<windows, waiters, gone, owed, sessions, origin, crashes>>

\* handle_interject_hold, the branch of the hook's end of file, which select may take
\* when the outcome is there as well.
Leave(h) ==
    /\ hook[h] \in {"held", "told"} /\ gone[h]
    /\ hook' = [hook EXCEPT ![h] = "left"]
    /\ UNCHANGED <<entry, stored, gone, carried, owed, sessions, history, crashes>>
-----------------------------------------------------------------------------
(***************************************************************************)
(* Sessions that begin and end                                             *)
(***************************************************************************)

\* Any other event of the session registers it.
Begin(a) ==
    /\ a \notin live
    /\ live' = live \cup {a}
    /\ UNCHANGED <<entry, stored, connection, ending, keep, history, crashes>>

\* A session-end event, or an end no event tells: the process died.
EndSession(a) ==
    /\ a \in live
    /\ live' = live \ {a}
    /\ ending' \in {ending, ending \cup {a}}
    /\ UNCHANGED <<entry, stored, connection, keep, history, crashes>>

\* remove_session of every session in gs, with its persist.
RemoveSessions(gs) ==
    LET dropped == UNION {Elements(queue[a]) : a \in gs} IN
    /\ queue' = [a \in Agents |-> IF a \in gs THEN <<>> ELSE queue[a]]
    /\ receipts' = [a \in Agents |-> IF a \in gs THEN {} ELSE receipts[a]]
    /\ waiters' = [a \in Agents |-> IF a \in gs THEN {} ELSE waiters[a]]
    /\ hook' = [h \in Hooks |-> IF \E a \in gs : h \in Open(a) THEN "told" ELSE hook[h]]
    /\ fate' = Fated(dropped, "withdrawn")
    /\ IF dropped = {} THEN UNCHANGED stored ELSE Persist
    /\ UNCHANGED <<windows, gone, carried, owed, origin, crashes>>

\* The rest of the session-end handler.
Forget(a) ==
    /\ a \in ending
    /\ ending' = ending \ {a}
    /\ RemoveSessions({a})
    /\ UNCHANGED <<live, keep>>

\* The tick reads the registry's active sessions,
Tick ==
    /\ keep = None
    /\ keep' = live
    /\ UNCHANGED <<entry, stored, connection, live, ending, history, crashes>>

\* Mutant: sessions that ended are kept too.
MutRetain ==
    /\ keep # None
    /\ keep' = None
    /\ RemoveSessions({})
    /\ UNCHANGED <<live, ending>>

\* and retain_sessions drops what belongs to no other.
Retain ==
    /\ keep # None
    /\ keep' = None
    /\ RemoveSessions(Agents \ keep)
    /\ UNCHANGED <<live, ending>>

\* The daemon dies and another loads interject.json; hooks and windows lose their
\* connections.
Crash ==
    /\ crashes < MaxCrashes
    /\ crashes' = crashes + 1
    /\ queue' = stored.queue /\ receipts' = stored.receipts
    /\ windows' = [a \in Agents |-> 0]
    /\ waiters' = [a \in Agents |-> {}]
    /\ hook' = [h \in Hooks |-> IF hook[h] = "idle" THEN "idle" ELSE "done"]
    /\ ending' = {} /\ keep' = None
    /\ fate' = Fated({m \in Messages : fate[m] = "sent"
                        /\ \A a \in Agents : m \notin Elements(stored.queue[a])}, "cut")
    /\ UNCHANGED <<stored, gone, carried, owed, live, origin>>

InterjectNext ==
    \/ \E a \in Agents, m \in Messages :
        Submit(a, m) \/ \E c \in Channels \cup {None} : AppendFrom(a, m, c)
    \/ \E a \in Agents :
        Clear(a) \/ OpenWindow(a) \/ CloseWindow(a) \/ Begin(a) \/ EndSession(a) \/ Forget(a)
    \/ \E h \in Hooks :
        \/ Report(h) \/ GiveUp(h) \/ PollMessage(h) \/ PollHold(h) \/ PollNone(h)
        \/ Answered(h) \/ AnswerLost(h) \/ HandleHold(h) \/ Leave(h)
    \/ Tick \/ Retain \/ Crash

InterjectSpec == InterjectInit /\ [][InterjectNext]_interjectVars
-----------------------------------------------------------------------------
(***************************************************************************)
(* Properties                                                              *)
(***************************************************************************)

\* The deliveries that may still be written or taken back.
Underway(h) == IF hook[h] \in {"answering", "told"} THEN Elements(carried[h]) ELSE {}
Queued == UNION {Elements(queue[a]) : a \in Agents}

\* A message nobody withdrew is in the queue or on its way to a hook; it may be lost
\* only with a hook that hung up on it, never in between.
MessageIsAccountedFor ==
    \A m \in Messages : fate[m] = "sent" =>
        \/ m \in Queued
        \/ \E h \in Hooks : m \in Underway(h) \/ (gone[h] /\ m \in Elements(carried[h]))

\* While the daemon lives, a message an agent has read or a person has withdrawn does
\* not come back, and no two hooks carry the same one.
DeliveredOnce ==
    crashes = 0 =>
        /\ \A m \in Messages : fate[m] \in {"read", "withdrawn"} =>
              m \notin Queued
        /\ \A h \in Hooks : Underway(h) \cap Queued = {}
        /\ \A h, g \in Hooks : h # g => Underway(h) \cap Underway(g) = {}

\* A channel is owed a read receipt only for a message of its own that still waits.
ReceiptsAreOwed ==
    \A a \in Agents : \A c \in receipts[a] : \E m \in Elements(queue[a]) : origin[m] = c

\* A hook is held only while a window of its session is open, and the window's close
\* will find it.
HeldByAWindow ==
    \A h \in Hooks : hook[h] = "held" =>
        windows[AgentOf[h]] > 0 /\ h \in waiters[AgentOf[h]]

\* What is queued for a session that ended is dropped, whether or not an event told
\* of the end.
EndedSessionIsEmptied ==
    \A a \in Agents : (a \notin live /\ queue[a] # <<>>) ~> (queue[a] = <<>> \/ a \in live)

\* subs.rs, of the end-of-file branch: the sender skips this waiter, "the message is not
\* lost".
HangUpLosesNothing == \A h \in Hooks : hook[h] = "left" => carried[h] = <<>>
=============================================================================
