------------------------------ MODULE AskCoalesce ------------------------------
(***************************************************************************)
(* Duplicate questions (handle_submit, handle_coalesced): callers of one   *)
(* session that submit the same question are attached to the request in    *)
(* flight, given the answer again if it was answered just now, or make a   *)
(* request of their own.  A request is named by the caller that made it.   *)
(*                                                                         *)
(* Served says whether a request may get a channel, and whether it may get *)
(* none.  In this build popup_should_dispatch and available_im_channels    *)
(* refuse every one for free-form questions, so Served is {FALSE}; the     *)
(* handler has both paths.                                                 *)
(*                                                                         *)
(* The daemon's runtime has many threads: a step is what one task does     *)
(* under one lock, on one atomic or on the Notify.                         *)
(***************************************************************************)
EXTENDS Naturals, FiniteSets

CONSTANTS Callers,  \* connections with the same session key and fingerprint
          Served,   \* whether channels are found for a request
          None

ASSUME CoalesceAssumption == Served \subseteq BOOLEAN /\ None \notin Callers

VARIABLES
    pc,          \* where the caller's handler is
    eof,         \* the caller closed its connection
    left,        \* caller_gone of the submitting handler
    armed,       \* the Notified of the submitting handler's select was woken
    entry,       \* the request a follower is attached to
    inbox,       \* the follower's channel holds the outcome
    registered,  \* by_id
    locked,      \* the handler that holds the registry's lock across steps
    waiters, followers,
    gate,        \* the coordinator's terminal value
    outcome,     \* how far submit and finish are; the last is the handler's recv
    replay       \* the session's entry of the replay cache

handler == <<pc, eof, left>>
follower == <<entry, inbox>>
registry == <<registered, locked>>
request == <<waiters, followers>>
coordinator == <<gate, outcome>>
vars == <<handler, armed, follower, registry, request, coordinator, replay>>

Init ==
    /\ pc = [c \in Callers |-> "new"]
    /\ eof = [c \in Callers |-> FALSE]
    /\ left = [c \in Callers |-> FALSE]
    /\ armed = [c \in Callers |-> FALSE]
    /\ entry = [c \in Callers |-> None]
    /\ inbox = [c \in Callers |-> FALSE]
    /\ registered = {}
    /\ locked = None
    /\ waiters = [c \in Callers |-> 0]
    /\ followers = [c \in Callers |-> {}]
    /\ gate = [c \in Callers |-> "undecided"]
    /\ outcome = [c \in Callers |-> "none"]
    /\ replay = None

Goto(c, from, to) == pc[c] = from /\ pc' = [pc EXCEPT ![c] = to]

\* fetch_update with saturating_sub.
CountDown(e) == waiters' = [waiters EXCEPT ![e] = IF @ = 0 THEN 0 ELSE @ - 1]
-----------------------------------------------------------------------------
(***************************************************************************)
(* A submission arrives: try_attach, get_fresh, create                     *)
(***************************************************************************)

\* submit sets the gate first and finalizing later; cancel_request never sets it.
IsFinalizing(e) == outcome[e] # "none"
InFlight == {e \in registered : ~IsFinalizing(e)}

\* try_attach takes the registry's lock and finds a request that is not finalizing.
Find(c) ==
    /\ locked = None
    /\ \/ /\ \E e \in InFlight : entry' = [entry EXCEPT ![c] = e]
          /\ Goto(c, "new", "found")
          /\ locked' = c
       \/ InFlight = {} /\ Goto(c, "new", "missed") /\ UNCHANGED <<entry, locked>>
    /\ UNCHANGED <<eof, left, armed, inbox, registered, request, coordinator, replay>>

\* The follower is pushed under a lock of its own ...
Push(c) ==
    /\ Goto(c, "found", "pushed")
    /\ followers' = [followers EXCEPT ![entry[c]] = @ \cup {c}]
    /\ UNCHANGED <<eof, left, armed, follower, registry, waiters, coordinator, replay>>

\* ... and counted.
Count(c) ==
    /\ Goto(c, "pushed", "attached")
    /\ waiters' = [waiters EXCEPT ![entry[c]] = @ + 1]
    /\ locked' = None
    /\ UNCHANGED <<eof, left, armed, follower, registered, followers, coordinator, replay>>

\* get_fresh: the question was answered within the replay window.
Replay(c) ==
    /\ Goto(c, "missed", IF replay = None THEN "fresh" ELSE "done")
    /\ UNCHANGED <<eof, left, armed, follower, registry, request, coordinator, replay>>

\* RequestRegistry.create.
Create(c) ==
    /\ locked = None
    /\ Goto(c, "fresh", "created")
    /\ registered' = registered \cup {c}
    /\ waiters' = [waiters EXCEPT ![c] = 1]
    /\ UNCHANGED <<eof, left, armed, follower, locked, followers, coordinator, replay>>

\* The window passes, or the cache evicts the session.
Forget ==
    /\ replay # None
    /\ replay' = None
    /\ UNCHANGED <<handler, armed, follower, registry, request, coordinator>>
-----------------------------------------------------------------------------
(***************************************************************************)
(* The submitting handler                                                  *)
(***************************************************************************)

\* The Accepted frame, then the channels of the configuration; without one the error
\* frame is written.
Accept(c) ==
    /\ \/ eof[c] /\ Goto(c, "created", "leaving")
       \/ \E ok \in Served : Goto(c, "created", IF ok THEN "loop" ELSE "leaving")
    /\ UNCHANGED <<eof, left, armed, follower, registry, request, coordinator, replay>>

\* registry.remove, the last step of every end of the handler.
Remove(c) ==
    /\ locked = None
    /\ Goto(c, "leaving", "done")
    /\ registered' = registered \ {c}
    /\ UNCHANGED <<eof, left, armed, follower, locked, request, coordinator, replay>>

\* The top of the loop reads waiter_count.
Loop(c) ==
    /\ Goto(c, "loop", IF left[c] /\ waiters[c] = 0 THEN "withdraw" ELSE "waited")
    /\ UNCHANGED <<eof, left, armed, follower, registry, request, coordinator, replay>>

\* waiters_gone.notified() is made: a notice from here on is heard, an earlier one is not.
Select(c) ==
    /\ Goto(c, "waited", "select")
    /\ armed' = [armed EXCEPT ![c] = FALSE]
    /\ UNCHANGED <<eof, left, follower, registry, request, coordinator, replay>>

\* cancel_request, which does nothing to a request that is decided.
Withdraw(c) ==
    /\ Goto(c, "withdraw", "leaving")
    /\ gate' = [gate EXCEPT ![c] = IF @ = "undecided" THEN "cancelled" ELSE @]
    /\ UNCHANGED <<eof, left, armed, follower, registry, request, outcome, replay>>

\* The branch that waits for the last follower.
WaitersGone(c) ==
    /\ left[c] /\ armed[c]
    /\ Goto(c, "select", "loop")
    /\ UNCHANGED <<eof, left, armed, follower, registry, request, coordinator, replay>>

\* Mutant: the caller that leaves is not counted out.
MutCallerGone(c) ==
    /\ eof[c] /\ ~left[c]
    /\ Goto(c, "select", "loop")
    /\ left' = [left EXCEPT ![c] = TRUE]
    /\ UNCHANGED <<eof, armed, follower, registry, request, coordinator, replay>>

\* wait_cli_eof: the submitting caller is one waiter less.
CallerGone(c) ==
    /\ eof[c] /\ ~left[c]
    /\ Goto(c, "select", "loop")
    /\ left' = [left EXCEPT ![c] = TRUE]
    /\ CountDown(c)
    /\ UNCHANGED <<eof, armed, follower, registry, followers, coordinator, replay>>

\* final_rx: broadcast_outcome drains the followers.
Receive(c) ==
    /\ outcome[c] = "sent"
    /\ Goto(c, "select", "told")
    /\ outcome' = [outcome EXCEPT ![c] = "taken"]
    /\ inbox' = [f \in Callers |-> inbox[f] \/ f \in followers[c]]
    /\ followers' = [followers EXCEPT ![c] = {}]
    /\ UNCHANGED <<eof, left, armed, entry, registry, waiters, gate, replay>>

\* Mutant: a dismissal is remembered like an answer.
MutRemember(c) ==
    /\ Goto(c, "told", "final")
    /\ replay' = c
    /\ UNCHANGED <<eof, left, armed, follower, registry, request, coordinator>>

\* An answer, and only that, goes into the replay cache.
Remember(c) ==
    /\ Goto(c, "told", "final")
    /\ replay' = IF gate[c] = "answered" THEN c ELSE replay
    /\ UNCHANGED <<eof, left, armed, follower, registry, request, coordinator>>

\* The Final frame, unless the caller was seen to be gone; finish_request_bookkeeping
\* is left with the removal.
Final(c) ==
    /\ Goto(c, "final", "leaving")
    /\ UNCHANGED <<eof, left, armed, follower, registry, request, coordinator, replay>>
-----------------------------------------------------------------------------
(***************************************************************************)
(* A follower, the human and the callers                                   *)
(***************************************************************************)

\* release_waiter of a follower that leaves or was told: the count ...
Leave(c) ==
    /\ pc[c] = "attached" /\ (eof[c] \/ inbox[c])
    /\ CountDown(entry[c])
    /\ pc' = [pc EXCEPT ![c] = IF waiters[entry[c]] <= 1 THEN "last" ELSE "done"]
    /\ UNCHANGED <<eof, left, armed, follower, registry, followers, coordinator, replay>>

\* ... and notify_waiters, which leaves no permit.
WakeSubmitter(c) ==
    /\ Goto(c, "last", "done")
    /\ armed' = [armed EXCEPT ![entry[c]] = @ \/ pc[entry[c]] = "select"]
    /\ UNCHANGED <<eof, left, follower, registry, request, coordinator, replay>>

\* The human answers or dismisses the card: submit takes the gate.
Submit(e) ==
    /\ pc[e] \in {"loop", "waited", "select", "withdraw"}
    /\ gate[e] = "undecided"
    /\ \E v \in {"answered", "dismissed"} : gate' = [gate EXCEPT ![e] = v]
    /\ UNCHANGED <<handler, armed, follower, registry, request, outcome, replay>>

\* submit goes on: the finalizing phase.
Finalize(e) ==
    /\ gate[e] \in {"answered", "dismissed"} /\ outcome[e] = "none"
    /\ outcome' = [outcome EXCEPT ![e] = "finalizing"]
    /\ UNCHANGED <<handler, armed, follower, registry, request, gate, replay>>

\* Mutant: the outcome of a request that somebody joined is kept back.
MutFinish(e) ==
    /\ outcome[e] = "finalizing"
    /\ followers[e] = {}
    /\ outcome' = [outcome EXCEPT ![e] = "sent"]
    /\ UNCHANGED <<handler, armed, follower, registry, request, gate, replay>>

\* finish sends the outcome when the losing cards are settled.
Finish(e) ==
    /\ outcome[e] = "finalizing"
    /\ outcome' = [outcome EXCEPT ![e] = "sent"]
    /\ UNCHANGED <<handler, armed, follower, registry, request, gate, replay>>

HangUp(c) ==
    /\ pc[c] \notin {"new", "done"} /\ ~eof[c]
    /\ eof' = [eof EXCEPT ![c] = TRUE]
    /\ UNCHANGED <<pc, left, armed, follower, registry, request, coordinator, replay>>

Handle(c) ==
    \/ Find(c) \/ Push(c) \/ Count(c) \/ Replay(c) \/ Create(c)
    \/ Accept(c) \/ Loop(c) \/ Select(c) \/ WaitersGone(c) \/ CallerGone(c) \/ Withdraw(c)
    \/ Receive(c) \/ Remember(c) \/ Final(c) \/ Remove(c)
    \/ Leave(c) \/ WakeSubmitter(c)
Coordinate(e) == Finalize(e) \/ Finish(e)

Next ==
    \/ \E c \in Callers : Handle(c) \/ Submit(c) \/ Coordinate(c) \/ HangUp(c)
    \/ Forget

Spec == Init /\ [][Next]_vars

\* Tasks that can go on are polled; the human and the callers owe nothing.
PolledSpec ==
    Spec /\ \A c \in Callers : WF_vars(Handle(c)) /\ WF_vars(Coordinate(c))
-----------------------------------------------------------------------------
(***************************************************************************)
(* Properties                                                              *)
(***************************************************************************)

Attached(e) == {c \in Callers : entry[c] = e /\ pc[c] = "attached"}
Submitting(e) ==
    pc[e] \in {"created", "loop", "waited", "select", "withdraw", "told", "final", "leaving"}

\* The count a handler decides on is the number of connections that still wait for
\* the request: its own caller until it is seen to be gone, and the followers.  The
\* saturating subtraction never hides one too many.
WaitersCounted ==
    \A e \in Callers : Submitting(e) =>
        waiters[e] = Cardinality(Attached(e)) + (IF left[e] THEN 0 ELSE 1)

\* Only an answer is ever replayed; a dismissed or cancelled question is asked again.
ReplayIsAnAnswer == replay # None => gate[replay] = "answered"

\* A caller that stays is not withdrawn by those that joined it and left, and an
\* answer given to its card reaches it, whoever joins or leaves meanwhile.
AnswerReachesCaller ==
    \A e \in Callers :
        (gate[e] # "undecided" /\ ~eof[e]) ~> (pc[e] \in {"final", "leaving", "done"} \/ eof[e])

\* A question that is decided is not waited for by anybody who cannot be told of it.
\* daemon/request.rs, try_attach: a finished request is not in flight, "or the
\* follower would hang on a request that never delivers again".
NoFollowerLeftBehind ==
    \A c \in Callers : (pc[c] = "attached" /\ pc[entry[c]] = "done") => inbox[c]
=============================================================================
