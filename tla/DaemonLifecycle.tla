---------------------------- MODULE DaemonLifecycle ----------------------------
(***************************************************************************)
(* The daemon's processes and the clients that start, replace and use it:  *)
(* daemon/runtime/mod.rs (run_cmd, serve, control_loop, begin_drain),      *)
(* daemon/spawn.rs, daemon/lifecycle.rs and client/mod.rs (ensure_running, *)
(* run_ask, run_confirm, wait_for_drain).                                  *)
(*                                                                         *)
(* A process is a slot that is used again when it has exited.  A client    *)
(* has one connection at a time; its handler in the daemon is task, and    *)
(* frame is what the daemon has written and the client has not read.       *)
(* Deadlines may pass at any time.                                         *)
(***************************************************************************)
EXTENDS Naturals, FiniteSets

CONSTANTS
    Processes,  \* slots for daemon processes
    Clients,    \* calls of the command line or of the MCP server
    Asking,     \* those that run run_ask; the others run run_confirm
    Launchd,    \* spawn_detached goes through the GUI domain of launchd (macOS)
    Tries,      \* the attempts of run_ask before it gives up
    Polls,      \* bound: answered probes of ensure_running within its five seconds
    Troubles,   \* bound: updates of the binary, stops and exits for idleness, crashes
    None

ASSUME DaemonAssumption ==
    /\ Asking \subseteq Clients /\ Launchd \in BOOLEAN
    /\ Tries \in Nat \ {0} /\ {Polls, Troubles} \subseteq Nat
    /\ None \notin Processes

VARIABLES
    stage,     \* how far a process is
    lock,      \* the process that holds daemon.lock
    sock,      \* the process whose listener daemon.sock leads to
    job,       \* the process that launchd runs under the daemon's label
    fp,        \* startup_fp
    draining, permit, watchdog,
    told,      \* what handlers have announced to their clients and not yet done
    disk,      \* the binary on disk
    pc,        \* where a client is
    tries,     \* attempts left to it
    polls,     \* probes left to it
    conn, task, frame,
    cards,     \* the requests that daemons have registered for a client
    troubles

process == <<stage, lock, sock, job, fp>>
exit == <<draining, permit, watchdog, told>>
client == <<pc, tries, polls>>
channel == <<conn, task, frame>>
environment == <<disk, troubles>>
vars == <<process, exit, client, channel, cards, environment>>

Init ==
    /\ stage = [d \in Processes |-> "none"]
    /\ lock = None /\ sock = None /\ job = None
    /\ fp = [d \in Processes |-> 0]
    /\ draining = [d \in Processes |-> FALSE]
    /\ permit = [d \in Processes |-> FALSE]
    /\ watchdog = [d \in Processes |-> FALSE]
    /\ told = [d \in Processes |-> {}]
    /\ pc = [c \in Clients |-> "idle"]
    /\ tries = [c \in Clients |-> Tries]
    /\ polls = [c \in Clients |-> 0]
    /\ conn = [c \in Clients |-> None]
    /\ task = [c \in Clients |-> "none"]
    /\ frame = [c \in Clients |-> "none"]
    /\ cards = [c \in Clients |-> 0]
    /\ disk = 0 /\ troubles = 0

\* registry.active_count: the requests a process has registered.
Pending(d) == {c \in Clients : conn[c] = d /\ task[c] = "registered"}

\* The slots for a new process.
Free == {d \in Processes : stage[d] = "none"}

Goto(c, to) == pc' = [pc EXCEPT ![c] = to]

\* The end of a process, in order or not: the system closes its connections and its lock.
End(d) ==
    /\ stage' = [stage EXCEPT ![d] = "none"]
    /\ lock' = IF lock = d THEN None ELSE lock
    /\ sock' = IF sock = d THEN None ELSE sock
    /\ job' = IF job = d THEN None ELSE job
    /\ draining' = [draining EXCEPT ![d] = FALSE]
    /\ permit' = [permit EXCEPT ![d] = FALSE]
    /\ watchdog' = [watchdog EXCEPT ![d] = FALSE]
    /\ told' = [told EXCEPT ![d] = {}]
    /\ task' = [c \in Clients |-> IF conn[c] = d THEN "closed" ELSE task[c]]
    /\ fp' = [fp EXCEPT ![d] = 0]
    /\ UNCHANGED <<conn, frame>>
-----------------------------------------------------------------------------
(***************************************************************************)
(* A daemon process                                                        *)
(***************************************************************************)

\* run_cmd: the process that gets the lock serves, another exits.
Lock(d) ==
    /\ stage[d] = "started"
    /\ \/ lock = None /\ lock' = d
          /\ stage' = [stage EXCEPT ![d] = "locked"]
          /\ UNCHANGED <<sock, job, fp, exit, channel>>
       \/ lock # None /\ End(d)
    /\ UNCHANGED <<client, cards, environment>>

\* serve binds, in the place of any socket that is left, and takes its fingerprint.
Bind(d) ==
    /\ stage[d] = "locked"
    /\ stage' = [stage EXCEPT ![d] = "serving"]
    /\ sock' = d
    /\ fp' = [fp EXCEPT ![d] = disk]
    /\ UNCHANGED <<lock, job, exit, client, channel, cards, environment>>

\* The loop ends; the listener stays and clients that connect from now on are not accepted.
Close(d) ==
    /\ stage[d] = "serving" /\ permit[d]
    /\ stage' = [stage EXCEPT ![d] = "closing"]
    /\ permit' = [permit EXCEPT ![d] = FALSE]
    /\ draining' = [draining EXCEPT ![d] = TRUE]
    /\ UNCHANGED <<lock, sock, job, fp, watchdog, told, client, channel, cards, environment>>

\* Mutant: the lock is given back before the socket is removed.
MutCancel(d) ==
    /\ stage[d] = "closing"
    /\ stage' = [stage EXCEPT ![d] = "cancelled"]
    /\ lock' = None
    /\ UNCHANGED <<sock, job, fp, exit, client, channel, cards, environment>>

\* cancel_all_requests, after which no card can answer.
Cancel(d) ==
    /\ stage[d] = "closing"
    /\ stage' = [stage EXCEPT ![d] = "cancelled"]
    /\ UNCHANGED <<lock, sock, job, fp, exit, client, channel, cards, environment>>

\* cleanup removes the socket, the lock still held.
Cleanup(d) ==
    /\ stage[d] = "cancelled"
    /\ stage' = [stage EXCEPT ![d] = "cleaned"]
    /\ sock' = None
    /\ UNCHANGED <<lock, job, fp, exit, client, channel, cards, environment>>

Exit(d) ==
    /\ stage[d] = "cleaned"
    /\ End(d)
    /\ UNCHANGED <<client, cards, environment>>

\* begin_drain's watchdog finds nothing registered.
Watch(d) ==
    /\ watchdog[d] /\ Pending(d) = {}
    /\ watchdog' = [watchdog EXCEPT ![d] = FALSE]
    /\ permit' = [permit EXCEPT ![d] = TRUE]
    /\ UNCHANGED <<process, draining, told, client, channel, cards, environment>>

\* Mutant: the flag is raised and nobody watches for the last request.
MutDrain(d) ==
    /\ draining' = [draining EXCEPT ![d] = TRUE]
    /\ UNCHANGED <<watchdog, permit>>

\* begin_drain.
Drain(d) ==
    /\ draining' = [draining EXCEPT ![d] = TRUE]
    /\ watchdog' = [watchdog EXCEPT ![d] = @ \/ ~draining[d]]
    /\ UNCHANGED permit

\* shutdown.notify_one leaves a permit.
Notify(d) ==
    /\ permit' = [permit EXCEPT ![d] = TRUE]
    /\ UNCHANGED <<draining, watchdog>>

Stale(d) == fp[d] # disk

\* check_pending_update.
Noticed(d) ==
    /\ stage[d] = "serving" /\ Stale(d) /\ ~draining[d]
    /\ Drain(d)
    /\ UNCHANGED <<process, told, client, channel, cards, environment>>

\* The handler of a stale Hello goes on to begin_drain, or to shutdown.notify_one.
Announced(d) ==
    /\ \/ "drain" \in told[d] /\ Drain(d) /\ told' = [told EXCEPT ![d] = @ \ {"drain"}]
       \/ "stop" \in told[d] /\ Notify(d) /\ told' = [told EXCEPT ![d] = @ \ {"stop"}]
    /\ UNCHANGED <<process, client, channel, cards, environment>>
-----------------------------------------------------------------------------
(***************************************************************************)
(* A connection in the daemon (handle_conn, control_loop, handle_submit)   *)
(***************************************************************************)

\* The handler goes on, and may write a frame.
Handle(c, from, to, f) ==
    /\ task[c] = from
    /\ task' = [task EXCEPT ![c] = to]
    /\ frame' = [frame EXCEPT ![c] = f]
    /\ UNCHANGED <<process, client, conn, environment>>

Accept(c) ==
    /\ conn[c] # None /\ stage[conn[c]] = "serving"
    /\ Handle(c, "queued", "hello", "none")
    /\ UNCHANGED <<exit, cards>>

\* The statuses Hello may write, and what the handler does after it.
Status(d) ==
    IF draining[d] THEN [frame |-> "draining", then |-> {}]
    ELSE IF ~Stale(d) THEN [frame |-> "ok", then |-> {}]
    ELSE IF Pending(d) # {} THEN [frame |-> "draining", then |-> {"drain"}]
    ELSE [frame |-> "restarting", then |-> {"stop"}]

\* Hello: the status is written first, and what it announces is done later.
Hello(c) ==
    /\ task[c] = "hello"
    /\ LET d == conn[c]  status == Status(d)
       IN  /\ Handle(c, "hello", IF status.frame = "restarting" THEN "closed" ELSE "open",
                     status.frame)
           /\ told' = [told EXCEPT ![d] = @ \cup status.then]
    /\ UNCHANGED <<draining, permit, watchdog, cards>>

\* Submit is refused by a daemon that drains ...
Gate(c) ==
    /\ task[c] = "submit"
    /\ IF draining[conn[c]]
       THEN Handle(c, "submit", "closed", "draining")
       ELSE Handle(c, "submit", "gated", "none")
    /\ UNCHANGED <<exit, cards>>

\* ... and registered by another.
Register(c) ==
    /\ Handle(c, "gated", "registered", "none")
    /\ cards' = [cards EXCEPT ![c] = @ + 1]
    /\ UNCHANGED exit

\* The person answers, or the request's deadline passes.
Answer(c) ==
    /\ conn[c] # None /\ stage[conn[c]] \in {"serving", "closing"}
    /\ Handle(c, "registered", "closed", "final")
    /\ UNCHANGED <<exit, cards>>
-----------------------------------------------------------------------------
(***************************************************************************)
(* A client                                                                *)
(***************************************************************************)

\* The client opens a connection and writes Hello.
Connect(c, to) ==
    /\ sock # None
    /\ Goto(c, to)
    /\ conn' = [conn EXCEPT ![c] = sock]
    /\ task' = [task EXCEPT ![c] = "queued"]
    /\ frame' = [frame EXCEPT ![c] = "none"]

\* The client has read what it waited for, and drops the connection.
Drop(c, to) ==
    /\ Goto(c, to)
    /\ conn' = [conn EXCEPT ![c] = None]
    /\ task' = [task EXCEPT ![c] = "none"]
    /\ frame' = [frame EXCEPT ![c] = "none"]

Lost(c) == frame[c] = "none" /\ task[c] = "closed"

\* A daemon that drains: run_ask waits, ensure_running and run_confirm fail.
Refused(c) == IF c \in Asking THEN "drain" ELSE "failed"

Arrive(c) ==
    /\ pc[c] = "idle" /\ Goto(c, "ensure")
    /\ UNCHANGED <<process, exit, tries, polls, channel, cards, environment>>

\* ensure_running: hello_status ...
Ensure(c) ==
    /\ pc[c] = "ensure"
    /\ Connect(c, "probe") \/ (sock = None /\ Goto(c, "spawn") /\ UNCHANGED channel)
    /\ UNCHANGED <<process, exit, tries, polls, cards, environment>>

\* ... and what it makes of the status.
Probed(c) ==
    /\ pc[c] = "probe"
    /\ \/ frame[c] = "ok" /\ Drop(c, "connect")
       \/ frame[c] = "restarting" /\ Drop(c, "down")
       \/ frame[c] = "draining" /\ Drop(c, Refused(c))
       \/ Lost(c) /\ Drop(c, "spawn")
    /\ UNCHANGED <<process, exit, tries, polls, cards, environment>>

\* wait_until_down is over, be the daemon down or not.
WaitedDown(c) ==
    /\ pc[c] = "down" /\ Goto(c, "spawn")
    /\ UNCHANGED <<process, exit, tries, polls, channel, cards, environment>>

\* spawn_via_gui_launchd: bootout ends the job that has the label ...
Bootout(c) ==
    /\ Launchd
    /\ pc[c] = "spawn" /\ Goto(c, "boot")
    /\ IF job # None THEN End(job) ELSE UNCHANGED <<process, exit, channel>>
    /\ UNCHANGED <<tries, polls, cards, environment>>

\* ... and bootstrap starts the daemon; when there is a job again, or no launchd, the
\* daemon is a process of its own.
Spawn(c) ==
    /\ pc[c] = (IF Launchd THEN "boot" ELSE "spawn") /\ Goto(c, "poll")
    /\ Free # {}
    /\ LET d == CHOOSE d \in Free : TRUE
       IN  /\ stage' = [stage EXCEPT ![d] = "started"]
           /\ job' = IF Launchd /\ job = None THEN d ELSE job
    /\ polls' = [polls EXCEPT ![c] = Polls]
    /\ UNCHANGED <<lock, sock, fp, exit, tries, channel, cards, environment>>

Poll(c) ==
    /\ pc[c] = "poll" /\ polls[c] > 0
    /\ Connect(c, "polling")
    /\ polls' = [polls EXCEPT ![c] = @ - 1]
    /\ UNCHANGED <<process, exit, tries, cards, environment>>

Polled(c) ==
    /\ pc[c] = "polling"
    /\ \/ frame[c] = "ok" /\ Drop(c, "connect") /\ polls' = [polls EXCEPT ![c] = 0]
       \/ (frame[c] \in {"restarting", "draining"} \/ Lost(c)) /\ Drop(c, "poll")
          /\ UNCHANGED polls
    /\ UNCHANGED <<process, exit, tries, cards, environment>>

\* Mutant: ensure_running counts the answers it gets, and has no deadline.
MutGiveUp(c) ==
    /\ pc[c] = "poll" /\ polls[c] = 0 /\ Goto(c, "failed")
    /\ UNCHANGED <<process, exit, tries, polls, channel, cards, environment>>

\* The five seconds have passed.
GiveUp(c) ==
    /\ pc[c] = "poll" /\ Goto(c, "failed")
    /\ polls' = [polls EXCEPT ![c] = 0]
    /\ UNCHANGED <<process, exit, tries, channel, cards, environment>>

\* The connection of the request.
Open(c) ==
    /\ pc[c] = "connect"
    /\ Connect(c, "greet") \/ (sock = None /\ Goto(c, "retry") /\ UNCHANGED channel)
    /\ UNCHANGED <<process, exit, tries, polls, cards, environment>>

Greeted(c) ==
    /\ pc[c] = "greet"
    /\ \/ /\ frame[c] = "ok" /\ task[c] = "open"
          /\ Goto(c, "submitted")
          /\ task' = [task EXCEPT ![c] = "submit"]
          /\ frame' = [frame EXCEPT ![c] = "none"]
          /\ UNCHANGED conn
       \/ frame[c] = "ok" /\ task[c] = "closed" /\ Drop(c, "retry")
       \/ frame[c] = "restarting" /\ Drop(c, "retry")
       \/ frame[c] = "draining" /\ Drop(c, Refused(c))
       \/ Lost(c) /\ Drop(c, "retry")
    /\ UNCHANGED <<process, exit, tries, polls, cards, environment>>

\* run_ask tries again; run_confirm does not.
Retry(c) ==
    /\ pc[c] = "retry"
    /\ Goto(c, IF c \in Asking /\ tries[c] > 1 THEN "ensure" ELSE "failed")
    /\ tries' = [tries EXCEPT ![c] = @ - 1]
    /\ UNCHANGED <<process, exit, polls, channel, cards, environment>>

\* Mutant: a lost connection is a reason to submit the question again.
MutRead(c) ==
    /\ pc[c] = "submitted"
    /\ \/ frame[c] = "final" /\ Drop(c, "done")
       \/ frame[c] = "draining" /\ Drop(c, Refused(c))
       \/ Lost(c) /\ Drop(c, "retry")
    /\ UNCHANGED <<process, exit, tries, polls, cards, environment>>

\* The frames of the request; once it may have been accepted it is not submitted again.
Read(c) ==
    /\ pc[c] = "submitted"
    /\ \/ frame[c] = "final" /\ Drop(c, "done")
       \/ frame[c] = "draining" /\ Drop(c, Refused(c))
       \/ Lost(c) /\ Drop(c, "failed")
    /\ UNCHANGED <<process, exit, tries, polls, cards, environment>>

\* wait_for_drain is over when nothing listens.
Drained(c) ==
    /\ pc[c] = "drain" /\ sock = None
    /\ Goto(c, "ensure")
    /\ tries' = [tries EXCEPT ![c] = Tries]
    /\ UNCHANGED <<process, exit, polls, channel, cards, environment>>
-----------------------------------------------------------------------------
(***************************************************************************)
(* What happens to them                                                    *)
(***************************************************************************)

Trouble == troubles < Troubles /\ troubles' = troubles + 1

\* The binary on disk is replaced.
Update ==
    /\ Trouble
    /\ disk' = disk + 1
    /\ UNCHANGED <<process, exit, client, channel, cards>>

\* "daemon stop", forced or with nothing to wait for, or the daemon has been idle.
Stop(d) ==
    /\ stage[d] = "serving" /\ Trouble
    /\ Notify(d)
    /\ UNCHANGED <<process, told, client, channel, cards, disk>>

\* "daemon stop" of a daemon that has requests.
StopGracefully(d) ==
    /\ stage[d] = "serving" /\ Trouble
    /\ Pending(d) # {} /\ Drain(d)
    /\ UNCHANGED <<process, told, client, channel, cards, disk>>

Crash(d) ==
    /\ stage[d] # "none" /\ Trouble
    /\ End(d)
    /\ UNCHANGED <<client, cards, disk>>

Serve(d) ==
    \/ Lock(d) \/ Bind(d) \/ Close(d) \/ Cancel(d) \/ Cleanup(d) \/ Exit(d)
    \/ Watch(d) \/ Noticed(d) \/ Announced(d)
Connection(c) ==
    \/ Accept(c) \/ Hello(c) \/ Gate(c) \/ Register(c) \/ Answer(c)
Call(c) ==
    \/ Ensure(c) \/ Probed(c) \/ WaitedDown(c) \/ Bootout(c) \/ Spawn(c) \/ Poll(c) \/ Polled(c)
    \/ GiveUp(c) \/ Open(c) \/ Greeted(c) \/ Retry(c) \/ Read(c) \/ Drained(c)

Next ==
    \/ \E d \in Processes : Serve(d) \/ Stop(d) \/ StopGracefully(d) \/ Crash(d)
    \/ \E c \in Clients : Connection(c) \/ Call(c) \/ Arrive(c)
    \/ Update

Spec == Init /\ [][Next]_vars

\* Every process and every client goes on, and every request is answered or times out.
RunningSpec ==
    /\ Spec
    /\ \A d \in Processes : WF_vars(Serve(d))
    /\ \A c \in Clients : WF_vars(Connection(c)) /\ WF_vars(Call(c))
-----------------------------------------------------------------------------
(***************************************************************************)
(* Properties                                                              *)
(***************************************************************************)

\* A daemon that serves can be reached and is the only one: a predecessor that is
\* slow to leave never takes the socket away from it.
ServingIsReachable == \A d \in Processes : stage[d] = "serving" => sock = d /\ lock = d

\* A question is in front of the person at most once, however its client retries
\* ("no retry once the submission is accepted", client/mod.rs run_ask_final_async).
AskedAtMostOnce == \A c \in Clients : cards[c] <= 1

\* A daemon that is told to drain leaves when its requests are over.
DrainEnds == \A d \in Processes : draining[d] ~> stage[d] = "none"

\* A call that does not wait for a drain comes to an end, whatever happens to the daemons.
CallEnds == \A c \in Clients \ Asking : pc[c] = "ensure" ~> pc[c] \in {"done", "failed"}

\* A client that waits for a draining daemon to go starts over when it has gone.
\* client/mod.rs, wait_for_drain: it waits for the old daemon to be offline, then a
\* new one can be started.
WaiterMovesOn == \A c \in Clients : pc[c] = "drain" ~> pc[c] # "drain"
=============================================================================
