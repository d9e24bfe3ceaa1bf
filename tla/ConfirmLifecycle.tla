--------------------------- MODULE ConfirmLifecycle ---------------------------
(***************************************************************************)
(* The daemon's life of structured confirmations: connection handlers      *)
(* (handle_submit_confirm), the registry, the iMessage tasks they spawn    *)
(* (start_imessage), the backfill of requests in flight when a winner      *)
(* switches the active channel, and the daemon's ways to stop.             *)
(*                                                                         *)
(* An attempt is one SubmitConfirm connection; a caller that retries uses  *)
(* its request id again.  The coordinator is used through its contract,    *)
(* FirstTerminal.  The popup is never dispatched by this build             *)
(* (popup_should_dispatch), so imessage is the one candidate.              *)
(*                                                                         *)
(* The daemon's runtime has many threads: a step is what one task does     *)
(* under one lock, on one atomic or on the Notify, and any two tasks       *)
(* interleave between their steps.                                         *)
(***************************************************************************)
EXTENDS Naturals

CONSTANTS Attempts,        \* SubmitConfirm connections
          Ids,             \* request ids
          Id,              \* the id an attempt asks for
          Tokens,          \* reply tokens
          Preferred,       \* the token an id hashes to first
          AutoActivation,  \* config.channels.auto_activation
          None

ASSUME LifecycleAssumption ==
    /\ Id \in [Attempts -> Ids]
    /\ Preferred \in [Ids -> Tokens]
    /\ AutoActivation \in BOOLEAN
    /\ None \notin Attempts \cup Ids \cup Tokens

\* <<a, b>> is the task that b's handler spawned for the request of a: its own when
\* a = b, otherwise a backfill.
Tasks == Attempts \X Attempts
TasksOf(a) == {a} \X Attempts
IdOf(t) == Id[t[1]]

VARIABLES
    pc,        \* where the attempt's handler is
    todo,      \* the requests a handler's backfill has still to look at
    picked,    \* the one it is about to serve
    registry,  \* confirm_by_id: the attempt that owns an id
    gate,      \* the coordinator's terminal value
    delivery,  \* ConfirmDeliveryState of the imessage surface
    active,    \* the imessage channel holds the active slot
    task,      \* where a task is
    woken,     \* its Notified was enabled when the entry's Notify fired
    token,     \* the task's reply token
    owner,     \* TokenRegistry: the id that owns a token
    phase,     \* of the daemon
    sweep      \* the entries cancel_all_requests has still to visit

handler == <<pc, todo, picked>>
entry == <<registry, gate, delivery>>
tokens == <<token, owner>>
surface == <<task, woken, tokens>>
daemon == <<active, phase, sweep>>
vars == <<handler, entry, surface, daemon>>

\* What is sent on final_rx, a decision or one of the fallbacks; the cancellation is not.
Loud == {"final", "fallback"}
Gates == Loud \cup {"undecided", "cancelled"}
Deliveries == {"absent", "starting", "ready", "failed", "terminal"}

\* The select loop; a "stalled" handler waits on final_rx past its deadline; the last
\* steps of a handler.
Waiting == {"setup", "await"}
Ending == {"gone", "notified"}
InService == Waiting \cup Ending \cup {"created", "stalled", "reply", "backfill", "close"}
States == {"new", "admitted", "done", "lost"} \cup InService

\* A task in its select, one that goes to its end by itself, one whose Notified is
\* enabled and still matters, one that has a token.
Selecting == {"prepare", "sent", "ready"}
Falling == {"failing", "releasing"}
Hearing == Selecting \cup {"enabled", "checked"}
Holding == Selecting \cup Falling
TaskStates == {"none", "spawned", "enabled", "checked", "done"} \cup Holding

Init ==
    /\ pc = [a \in Attempts |-> "new"]
    /\ todo = [a \in Attempts |-> {}]
    /\ picked = [a \in Attempts |-> None]
    /\ registry = [i \in Ids |-> None]
    /\ gate = [a \in Attempts |-> "undecided"]
    /\ delivery = [a \in Attempts |-> "absent"]
    /\ active = FALSE
    /\ task = [t \in Tasks |-> "none"]
    /\ woken = [t \in Tasks |-> FALSE]
    /\ token = [t \in Tasks |-> None]
    /\ owner = [k \in Tokens |-> None]
    /\ phase = "serving"
    /\ sweep = {}

Goto(a, from, to) == pc[a] = from /\ pc' = [pc EXCEPT ![a] = to]
TaskGoto(t, from, to) == task[t] = from /\ task' = [task EXCEPT ![t] = to]

\* The coordinator's contract: a terminal value is chosen once.
Decide(a, v) == gate' = [gate EXCEPT ![a] = IF @ = "undecided" THEN v ELSE @]

\* notify_waiters reaches the Notifieds that are enabled and leaves no permit behind.
NotifyWaiters(a) ==
    woken' = [t \in Tasks |-> woken[t] \/ (t[1] = a /\ task[t] \in Hearing)]

\* A task past its select hears no more.
Unlisten(t) == woken' = [woken EXCEPT ![t] = FALSE]

\* cancel_all_requests holds the registry's lock.
RegistryFree == sweep = {}
-----------------------------------------------------------------------------
(***************************************************************************)
(* The connection handler: handle_submit_confirm                           *)
(***************************************************************************)

\* The draining check and the permission memory: a drain may be under way, a daemon
\* that stops is draining, and a stored rule answers for the human.
Admit(a) ==
    /\ phase # "exited"
    /\ \/ phase = "serving" /\ Goto(a, "new", "admitted")
       \/ Goto(a, "new", "done")
    /\ UNCHANGED <<todo, picked, entry, surface, daemon>>

\* create_confirm.
Create(a) ==
    /\ RegistryFree
    /\ \/ /\ registry[Id[a]] = None
          /\ Goto(a, "admitted", "created")
          /\ registry' = [registry EXCEPT ![Id[a]] = a]
       \/ /\ registry[Id[a]] # None
          /\ Goto(a, "admitted", "done")
          /\ UNCHANGED registry
    /\ UNCHANGED <<todo, picked, gate, delivery, surface, daemon>>

\* ConfirmAccepted is written.  confirm_im_candidates: without a popup an enabled
\* imessage is a candidate whatever the active slot is, a disabled one leaves no
\* channel at all.  start_delivery keeps a state that is there already.
Accept(a) ==
    /\ \/ /\ Goto(a, "created", "setup")
          /\ delivery' = [delivery EXCEPT ![a] = IF @ = "absent" THEN "starting" ELSE @]
          /\ UNCHANGED gate
       \/ Goto(a, "created", "await") /\ Decide(a, "fallback") /\ UNCHANGED delivery
    /\ UNCHANGED <<todo, picked, registry, surface, daemon>>

\* The last branch of the biased select: the setup future spawns the task.
Dispatch(a) ==
    /\ Goto(a, "setup", "await")
    /\ task' = [task EXCEPT ![<<a, a>>] = "spawned"]
    /\ UNCHANGED <<todo, picked, entry, woken, tokens, daemon>>

\* The caller closes its connection: the write of ConfirmAccepted fails, or the first
\* branch of the select.
Disconnected(a) ==
    /\ pc[a] \in Waiting \cup {"created"}
    /\ pc' = [pc EXCEPT ![a] = "gone"]
    /\ Decide(a, "cancelled")
    /\ UNCHANGED <<todo, picked, registry, delivery, surface, daemon>>

\* The second branch: an outcome on final_rx.
Receive(a) ==
    /\ pc[a] \in Waiting /\ gate[a] \in Loud
    /\ pc' = [pc EXCEPT ![a] = "reply"]
    /\ UNCHANGED <<todo, picked, entry, surface, daemon>>

\* Mutant: the deadline passes without a fallback.
MutExpire(a) ==
    /\ pc[a] \in Waiting
    /\ pc' = [pc EXCEPT ![a] = IF gate[a] \in Loud THEN "reply" ELSE "stalled"]
    /\ UNCHANGED <<todo, picked, entry, surface, daemon>>

\* The third branch, the 24 hour deadline: fallback, then final_rx.recv(), on which a
\* request that was cancelled sends nothing.
Expire(a) ==
    /\ pc[a] \in Waiting
    /\ Decide(a, "fallback")
    /\ pc' = [pc EXCEPT ![a] = IF gate[a] = "cancelled" THEN "stalled" ELSE "reply"]
    /\ UNCHANGED <<todo, picked, registry, delivery, surface, daemon>>

\* The outcome is written, unless the caller is gone.  The winner takes the active slot
\* (set_active_channel) and backfill_inflight copies the requests in flight.
Reply(a) ==
    /\ \/ /\ AutoActivation /\ gate[a] = "final" /\ ~active
          /\ RegistryFree
          /\ Goto(a, "reply", "backfill")
          /\ active' = TRUE
          /\ todo' = [todo EXCEPT ![a] = {b \in Attempts : registry[Id[b]] = b}]
       \/ /\ ~(AutoActivation /\ gate[a] = "final" /\ ~active)
          /\ Goto(a, "reply", "close")
          /\ UNCHANGED <<active, todo>>
    /\ UNCHANGED <<picked, entry, surface, phase, sweep>>

\* backfill_inflight looks at one of its copies: a request that is decided or has the
\* delivery is skipped, and so is every one if imessage was disabled meanwhile.
Consider(a) ==
    /\ pc[a] = "backfill" /\ picked[a] = None
    /\ \E b \in todo[a] :
        /\ todo' = [todo EXCEPT ![a] = @ \ {b}]
        /\ \/ UNCHANGED picked
           \/ /\ gate[b] = "undecided" /\ delivery[b] = "absent"
              /\ picked' = [picked EXCEPT ![a] = b]
    /\ UNCHANGED <<pc, entry, surface, daemon>>

\* start_delivery, and attach_confirm_im_channels spawns a task.
Backfill(a) ==
    /\ picked[a] # None
    /\ picked' = [picked EXCEPT ![a] = None]
    /\ delivery' = [delivery EXCEPT ![picked[a]] = IF @ = "absent" THEN "starting" ELSE @]
    /\ task' = [task EXCEPT ![<<picked[a], a>>] = "spawned"]
    /\ UNCHANGED <<pc, todo, registry, gate, woken, tokens, daemon>>

Backfilled(a) ==
    /\ todo[a] = {} /\ picked[a] = None
    /\ Goto(a, "backfill", "close")
    /\ UNCHANGED <<todo, picked, entry, surface, daemon>>

\* mark_deliveries_terminal.
Close(a) ==
    /\ Goto(a, "close", "gone")
    /\ delivery' = [delivery EXCEPT ![a] = IF @ = "absent" THEN @ ELSE "terminal"]
    /\ UNCHANGED <<todo, picked, registry, gate, surface, daemon>>

\* entry.cancel.notify_waiters().
Notify(a) ==
    /\ Goto(a, "gone", "notified")
    /\ NotifyWaiters(a)
    /\ UNCHANGED <<todo, picked, entry, task, tokens, daemon>>

\* Mutant: the entry is forgotten in the registry.
MutRemove(a) ==
    /\ RegistryFree
    /\ Goto(a, "notified", "done")
    /\ UNCHANGED <<todo, picked, entry, surface, daemon>>

\* remove_confirm.
Remove(a) ==
    /\ RegistryFree
    /\ Goto(a, "notified", "done")
    /\ registry' = [registry EXCEPT ![Id[a]] = None]
    /\ UNCHANGED <<todo, picked, gate, delivery, surface, daemon>>

\* What the handler does by itself.
Handle(a) ==
    \/ Create(a) \/ Accept(a) \/ Dispatch(a)
    \/ Receive(a)
    \/ Reply(a) \/ Consider(a) \/ Backfill(a) \/ Backfilled(a)
    \/ Close(a) \/ Notify(a) \/ Remove(a)
-----------------------------------------------------------------------------
(***************************************************************************)
(* The iMessage task: start_imessage and run_imessage                      *)
(***************************************************************************)

\* The Notified is enabled.
Enable(t) ==
    /\ TaskGoto(t, "spawned", "enabled")
    /\ UNCHANGED <<handler, entry, woken, tokens, daemon>>

\* Mutant: the terminal state is not checked again.
MutCheck(t) ==
    /\ TaskGoto(t, "enabled", "checked")
    /\ UNCHANGED <<handler, entry, woken, tokens, daemon>>

\* A request that ended since the task was spawned ends the task.
Check(t) ==
    /\ \/ gate[t[1]] = "undecided" /\ TaskGoto(t, "enabled", "checked") /\ UNCHANGED woken
       \/ gate[t[1]] # "undecided" /\ TaskGoto(t, "enabled", "done") /\ Unlisten(t)
    /\ UNCHANGED <<handler, entry, tokens, daemon>>

\* Mutant: a token is taken without a look at who has it.
MutChoices(i) == {Preferred[i]}

\* TokenRegistry::allocate: the token the id has already, else the one it hashes to
\* first, else one that is free, with another salt or more digits (an id has one token
\* at most, so as many tokens as ids are enough).
Choices(i) ==
    LET has == {k \in Tokens : owner[k] = i}
        free == {k \in Tokens : owner[k] = None}
    IN IF has # {} THEN has
       ELSE IF Preferred[i] \in free THEN {Preferred[i]} ELSE free

Allocate(t) ==
    /\ TaskGoto(t, "checked", "prepare")
    /\ \E k \in Choices(IdOf(t)) :
        /\ token' = [token EXCEPT ![t] = k]
        /\ owner' = [owner EXCEPT ![k] = IdOf(t)]
    /\ UNCHANGED <<handler, entry, woken, daemon>>

\* The worker is asked, and the mutation happens: once started it is not retried, and
\* whether it arrived may stay unknown.  A poll under way when the notice comes is not
\* interrupted, here and in the next steps.
SendOnce(t) ==
    /\ TaskGoto(t, "prepare", "sent")
    /\ UNCHANGED <<handler, entry, woken, tokens, daemon>>

\* mark_ready succeeds only for a surface that is still starting.
MarkReady(t) ==
    LET a == t[1] IN
    /\ \/ /\ delivery[a] = "starting"
          /\ delivery' = [delivery EXCEPT ![a] = "ready"]
          /\ TaskGoto(t, "sent", "ready")
          /\ UNCHANGED woken
       \/ /\ delivery[a] # "starting"
          /\ TaskGoto(t, "sent", "releasing")
          /\ Unlisten(t)
          /\ UNCHANGED delivery
    /\ UNCHANGED <<handler, registry, gate, tokens, daemon>>

\* A correlated reply: submit_wire.
Answer(t) ==
    /\ TaskGoto(t, "ready", "releasing")
    /\ Decide(t[1], "final")
    /\ Unlisten(t)
    /\ UNCHANGED <<handler, registry, delivery, tokens, daemon>>

\* The worker is lost after the request was decided: no failure.
WatchLost(t) ==
    /\ gate[t[1]] # "undecided"
    /\ TaskGoto(t, "ready", "releasing")
    /\ Unlisten(t)
    /\ UNCHANGED <<handler, entry, tokens, daemon>>

\* Any stage fails, the watch included: mark_failed, which reports that the only
\* surface has failed unless the handler closed it.
Fail(t) ==
    LET closed == delivery[t[1]] = "terminal" IN
    /\ task[t] \in Selecting
    /\ task' = [task EXCEPT ![t] = IF closed THEN "releasing" ELSE "failing"]
    /\ delivery' = [delivery EXCEPT ![t[1]] = IF closed THEN @ ELSE "failed"]
    /\ Unlisten(t)
    /\ UNCHANGED <<handler, registry, gate, tokens, daemon>>

\* Mutant: the failure of the last surface is not reported to the coordinator.
MutFallBack(t) ==
    /\ TaskGoto(t, "failing", "releasing")
    /\ NotifyWaiters(t[1])
    /\ UNCHANGED <<handler, entry, tokens, daemon>>

\* fallback_no_available_channel, and the other tasks of the request are told; no task
\* can tell the two steps apart, for one that enables its Notified between them finds
\* the gate closed.
FallBack(t) ==
    /\ TaskGoto(t, "failing", "releasing")
    /\ Decide(t[1], "fallback")
    /\ NotifyWaiters(t[1])
    /\ UNCHANGED <<handler, registry, delivery, tokens, daemon>>

\* Mutant: the cancelled branch returns without the release.
MutInterrupted(t) ==
    /\ woken[t] /\ task[t] \in Selecting
    /\ task' = [task EXCEPT ![t] = "done"]
    /\ Unlisten(t)
    /\ UNCHANGED <<handler, entry, tokens, daemon>>

\* The biased select takes the cancelled branch and drops run_imessage.
Interrupted(t) ==
    /\ woken[t] /\ task[t] \in Selecting
    /\ task' = [task EXCEPT ![t] = "releasing"]
    /\ Unlisten(t)
    /\ UNCHANGED <<handler, entry, tokens, daemon>>

\* TokenRegistry::release compares the owning id, nothing else.
Release(t) ==
    /\ TaskGoto(t, "releasing", "done")
    /\ owner' = [owner EXCEPT ![token[t]] = IF @ = IdOf(t) THEN None ELSE @]
    /\ token' = [token EXCEPT ![t] = None]
    /\ UNCHANGED <<handler, entry, woken, daemon>>

\* What a task does without imsg or the human, and what these do to it.
RunTask(t) ==
    Enable(t) \/ Check(t) \/ Allocate(t) \/ FallBack(t) \/ Interrupted(t) \/ Release(t)
Channel(t) == SendOnce(t) \/ MarkReady(t) \/ Answer(t) \/ WatchLost(t) \/ Fail(t)
-----------------------------------------------------------------------------
(***************************************************************************)
(* The daemon stops                                                        *)
(***************************************************************************)

\* However the daemon was told to stop (begin_drain's count of the requests in flight
\* is a step of its own: a request registered after it is no different from those a
\* stop --force finds): the accept loop ends, open connections submit no more, and
\* cancel_all_requests takes the registry's lock.
Shutdown ==
    /\ phase = "serving"
    /\ phase' = "stopping"
    /\ sweep' = {a \in Attempts : registry[Id[a]] = a}
    /\ UNCHANGED <<handler, entry, surface, active>>

\* Its loop: cancel and notify_waiters, one step as in FallBack.
Sweep(a) ==
    /\ a \in sweep
    /\ sweep' = sweep \ {a}
    /\ Decide(a, "cancelled")
    /\ NotifyWaiters(a)
    /\ UNCHANGED <<handler, registry, delivery, task, tokens, active, phase>>

\* The process ends, and with it every handler, every task and what they share.
Exit ==
    /\ phase = "stopping" /\ sweep = {}
    /\ phase' = "exited"
    /\ pc' = [a \in Attempts |-> IF pc[a] \in InService \cup {"admitted"} THEN "lost" ELSE pc[a]]
    /\ todo' = [a \in Attempts |-> {}]
    /\ picked' = [a \in Attempts |-> None]
    /\ task' = [t \in Tasks |-> IF task[t] = "none" THEN "none" ELSE "done"]
    /\ woken' = [t \in Tasks |-> FALSE]
    /\ token' = [t \in Tasks |-> None]
    /\ owner' = [k \in Tokens |-> None]
    /\ registry' = [i \in Ids |-> None]
    /\ UNCHANGED <<gate, delivery, active, sweep>>

Stop == (\E a \in Attempts : Sweep(a)) \/ Exit

\* What the runtime does: it polls what is runnable, and its timers fire.
Runtime ==
    \/ \E a \in Attempts : Handle(a) \/ Expire(a)
    \/ \E t \in Tasks : RunTask(t)
    \/ Stop

Next ==
    \/ Runtime
    \/ \E a \in Attempts : Admit(a) \/ Disconnected(a)
    \/ \E t \in Tasks : Channel(t)
    \/ Shutdown

\* The runtime does something as long as there is something for it to do, and each of
\* its steps brings a handler or a task nearer to its end, so more need not be assumed:
\* nothing of imsg, of the human, of the caller or of whoever stops the daemon.
Fairness == WF_vars(Runtime)

Safe == Init /\ [][Next]_vars
Spec == Safe /\ Fairness
-----------------------------------------------------------------------------
(***************************************************************************)
(* Properties                                                              *)
(***************************************************************************)

\* Every variable has its type.
TypeOK ==
    /\ pc \in [Attempts -> States]
    /\ todo \in [Attempts -> SUBSET Attempts]
    /\ picked \in [Attempts -> Attempts \cup {None}]
    /\ registry \in [Ids -> Attempts \cup {None}]
    /\ gate \in [Attempts -> Gates]
    /\ delivery \in [Attempts -> Deliveries]
    /\ active \in BOOLEAN
    /\ task \in [Tasks -> TaskStates]
    /\ woken \in [Tasks -> BOOLEAN]
    /\ token \in [Tasks -> Tokens \cup {None}]
    /\ owner \in [Tokens -> Ids \cup {None}]
    /\ phase \in {"serving", "stopping", "exited"}
    /\ sweep \in SUBSET Attempts

\* confirm_by_id holds exactly the requests in service, so a request id in service is
\* in service once and a retry is refused until the last step of the first attempt.
RegistryTracksService ==
    \A a \in Attempts : pc[a] \in InService <=> registry[Id[a]] = a

\* A task that outlives its request has been told: whether it was spawned before or
\* after the end of its request, and whichever of its first steps the notice falls
\* between, no watch is left that hears nothing of that end.
NoDeafTask ==
    \A t \in Tasks : pc[t[1]] = "done" /\ task[t] \in Selecting => woken[t]

\* No other task of this request id was spawned: no retry, no second delivery.
OnlyTask(t) == \A u \in Tasks : IdOf(u) = IdOf(t) /\ u # t => task[u] = "none"

\* The one task of a request id owns its token from the allocation to the release, so
\* no other question can take it: whatever the others do, in whatever order, with
\* whatever end.
OnlyTaskOwnsToken ==
    \A t \in Tasks : task[t] \in Holding /\ OnlyTask(t) => owner[token[t]] = IdOf(t)

\* A token that is taken belongs to a task that will give it back, retries and second
\* deliveries included: the short namespace of tokens is not used up.
TokensAreReturned ==
    \A k \in Tokens : owner[k] # None =>
        \E t \in Tasks : task[t] \in Holding /\ token[t] = k /\ IdOf(t) = owner[k]

\* One canonical request causes at most one application send; a task that waits for
\* the worker's receipt or for an answer has sent.
AtMostOneSend ==
    \A t, u \in Tasks :
        t[1] = u[1] /\ task[t] \in {"sent", "ready"} /\ task[u] \in {"sent", "ready"} => t = u

\* A request that waits for its surfaces has one, or its end is decided: the caller of
\* a request whose surfaces are gone does not wait for the deadline, but is given back
\* its own approval dialog at once.
WaitsForSurface ==
    \A a \in Attempts :
        pc[a] = "await" /\ (\A t \in TasksOf(a) : task[t] \in {"none", "done"})
        => gate[a] # "undecided"

\* Every admitted request comes to its end, with its deadline or before, with the
\* daemon at the latest, and its tasks with it: none waits for imsg after that.
EveryRequestEnds ==
    \A a \in Attempts :
        pc[a] = "admitted"
        ~> pc[a] \in {"done", "lost"} /\ \A t \in TasksOf(a) : task[t] \in {"none", "done"}
=============================================================================
