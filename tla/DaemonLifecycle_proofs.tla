------------------------ MODULE DaemonLifecycle_proofs ------------------------
(***************************************************************************)
(* For any number of daemon processes, clients, updates and crashes: who   *)
(* serves is reachable and alone, and no question is put twice.            *)
(*                                                                         *)
(* The first follows from HeldToTheEnd: a process holds the lock from      *)
(* before it binds until after it has removed the socket, so that nobody   *)
(* else touches the socket while it serves.  The second follows from       *)
(* PutOnce: a request is registered by the handler of a client that has    *)
(* just submitted, and a client that has submitted reads to the end.       *)
(***************************************************************************)
EXTENDS DaemonLifecycle, TLAPS

ProcessType ==
    /\ stage \in [Processes -> {"none", "started", "locked", "serving", "closing", "cancelled",
                                "cleaned"}]
    /\ lock \in Processes \cup {None}

\* Who is past the lock and has not exited holds it.
HeldToTheEnd ==
    \A d \in Processes :
        stage[d] \in {"locked", "serving", "closing", "cancelled", "cleaned"} => lock = d

ServingInv == ProcessType /\ HeldToTheEnd /\ ServingIsReachable

ClientType ==
    /\ pc \in [Clients -> {"idle", "ensure", "probe", "down", "spawn", "boot", "poll", "polling",
                            "connect", "greet", "submitted", "retry", "drain", "done", "failed"}]
    /\ task \in [Clients -> {"none", "queued", "hello", "open", "submit", "gated", "registered",
                              "closed"}]
    /\ frame \in [Clients -> {"none", "ok", "draining", "restarting", "final"}]
    /\ cards \in [Clients -> Nat]

\* Only the handler of a client that has submitted is past the submission; and while a
\* request is registered its client waits for the outcome, or has ended.
PutOnce ==
    \A c \in Clients :
        /\ task[c] \in {"submit", "gated", "registered"} => pc[c] = "submitted"
        /\ \/ cards[c] = 0
           \/ cards[c] = 1 /\ pc[c] \in {"done", "failed"}
           \/ /\ cards[c] = 1 /\ pc[c] = "submitted"
              /\ task[c] \in {"registered", "closed"} /\ frame[c] \in {"none", "final"}

AskingInv == ClientType /\ PutOnce
-----------------------------------------------------------------------------
\* A process that ends, in order or not, takes nothing from one that serves.
LEMMA EndKeepsServing ==
    ASSUME ServingInv, NEW d, End(d) PROVE ServingInv'
  BY DaemonAssumption DEF ServingInv, ProcessType, HeldToTheEnd, ServingIsReachable, End

\* The steps of a process.
LEMMA ServeKeepsServing ==
    ASSUME ServingInv, NEW d \in Processes, Serve(d) PROVE ServingInv'
  <1> USE DEF ServingInv, ProcessType, HeldToTheEnd, ServingIsReachable
  <1>1. CASE Lock(d)
    <2>1. CASE lock # None /\ End(d)
      BY <2>1, EndKeepsServing
    <2>2. CASE ~End(d)
      BY <1>1, <2>2, DaemonAssumption DEF Lock
    <2>3. QED
      BY <1>1, <2>1, <2>2, DaemonAssumption DEF Lock
  <1>2. CASE Bind(d)
    BY <1>2, DaemonAssumption DEF Bind
  <1>3. CASE Close(d)
    BY <1>3, DaemonAssumption DEF Close
  <1>4. CASE Cancel(d)
    BY <1>4, DaemonAssumption DEF Cancel
  <1>5. CASE Cleanup(d)
    BY <1>5, DaemonAssumption DEF Cleanup
  <1>6. CASE Exit(d)
    BY <1>6, EndKeepsServing DEF Exit
  <1>7. CASE Watch(d) \/ Noticed(d) \/ Announced(d)
    BY <1>7 DEF Watch, Noticed, Announced, process
  <1>8. QED
    BY <1>1, <1>2, <1>3, <1>4, <1>5, <1>6, <1>7 DEF Serve

\* Clients start processes and, through launchd, end them.
LEMMA CallKeepsServing ==
    ASSUME ServingInv, NEW c \in Clients, Call(c) PROVE ServingInv'
  <1> USE DEF ServingInv, ProcessType, HeldToTheEnd, ServingIsReachable
  <1>1. CASE Bootout(c)
    <2>1. CASE job # None
      BY <1>1, <2>1, EndKeepsServing DEF Bootout
    <2>2. CASE job = None
      BY <1>1, <2>2 DEF Bootout, process
    <2>3. QED
      BY <2>1, <2>2
  <1>2. CASE Spawn(c)
    <2>1. PICK d \in Processes : stage[d] = "none" /\ stage' = [stage EXCEPT ![d] = "started"]
      BY <1>2 DEF Spawn, Free
    <2>2. QED
      BY <1>2, <2>1 DEF Spawn
  <1>3. CASE UNCHANGED process
    BY <1>3 DEF process
  <1>4. QED
    BY <1>1, <1>2, <1>3 DEF Call, Ensure, Probed, WaitedDown, Poll, Polled, GiveUp, Open, Greeted,
                            Retry, Read, Drained

\* Every step.
LEMMA StepKeepsServing == ServingInv /\ [Next]_vars => ServingInv'
  <1> SUFFICES ASSUME ServingInv, [Next]_vars PROVE ServingInv'
    OBVIOUS
  <1>1. CASE \E d \in Processes : Serve(d)
    BY <1>1, ServeKeepsServing
  <1>2. CASE \E d \in Processes : Crash(d)
    BY <1>2, EndKeepsServing DEF Crash
  <1>3. CASE \E c \in Clients : Call(c)
    BY <1>3, CallKeepsServing
  <1>4. CASE UNCHANGED process
    BY <1>4 DEF process, ServingInv, ProcessType, HeldToTheEnd, ServingIsReachable
  <1>5. QED
    BY <1>1, <1>2, <1>3, <1>4 DEF Next, vars, Stop, StopGracefully, Connection, Arrive, Update,
         Accept, Hello, Gate, Register, Answer, Handle

\* run_cmd, serve and cleanup: a daemon that serves can be reached and is the only one,
\* for any number of processes that start, stop, crash or are slow to leave.
THEOREM Reachable == Spec => []ServingIsReachable
  <1>1. Init => ServingInv
    BY DEF Init, ServingInv, ProcessType, HeldToTheEnd, ServingIsReachable
  <1>2. ServingInv => ServingIsReachable
    BY DEF ServingInv
  <1>3. QED
    BY <1>1, <1>2, StepKeepsServing, PTL DEF Spec
-----------------------------------------------------------------------------
\* When a process ends, its handlers are closed.
LEMMA EndKeepsAsking ==
    ASSUME AskingInv, NEW d, End(d), UNCHANGED <<pc, cards>> PROVE AskingInv'
  BY DEF AskingInv, ClientType, PutOnce, End

\* The steps of a connection's handler.
LEMMA ConnectionKeepsAsking ==
    ASSUME AskingInv, NEW c \in Clients, Connection(c) PROVE AskingInv'
  <1> USE DEF AskingInv, ClientType, PutOnce
  <1>1. CASE Accept(c)
    BY <1>1 DEF Accept, Handle, client
  <1>2. CASE Hello(c)
    BY <1>2 DEF Hello, Handle, Status, client
  <1>3. CASE Gate(c)
    BY <1>3 DEF Gate, Handle, client
  <1>4. CASE Register(c)
    BY <1>4 DEF Register, Handle, client
  <1>5. CASE Answer(c)
    BY <1>5 DEF Answer, Handle, client
  <1>6. QED
    BY <1>1, <1>2, <1>3, <1>4, <1>5 DEF Connection

\* The steps of a client.
LEMMA CallKeepsAsking ==
    ASSUME AskingInv, NEW c \in Clients, Call(c) PROVE AskingInv'
  <1> USE DEF AskingInv, ClientType, PutOnce
  <1>1. CASE Ensure(c) \/ Open(c)
    BY <1>1 DEF Ensure, Open, Connect, Goto, channel
  <1>2. CASE Probed(c) \/ Polled(c)
    BY <1>2 DEF Probed, Polled, Drop, Goto, Refused
  <1>3. CASE WaitedDown(c) \/ GiveUp(c) \/ Retry(c) \/ Drained(c)
    BY <1>3 DEF WaitedDown, GiveUp, Retry, Drained, Goto, channel
  <1>4. CASE Bootout(c)
    BY <1>4 DEF Bootout, End, Goto, channel
  <1>5. CASE Spawn(c)
    BY <1>5 DEF Spawn, Goto, channel
  <1>6. CASE Poll(c)
    BY <1>6 DEF Poll, Connect, Goto
  <1>7. CASE Greeted(c)
    BY <1>7 DEF Greeted, Drop, Goto, Refused
  <1>8. CASE Read(c)
    BY <1>8 DEF Read, Drop, Goto, Refused, Lost
  <1>9. QED
    BY <1>1, <1>2, <1>3, <1>4, <1>5, <1>6, <1>7, <1>8 DEF Call

\* Every step.
LEMMA StepKeepsAsking == AskingInv /\ [Next]_vars => AskingInv'
  <1> SUFFICES ASSUME AskingInv, [Next]_vars PROVE AskingInv'
    OBVIOUS
  <1>1. CASE \E c \in Clients : Connection(c)
    BY <1>1, ConnectionKeepsAsking
  <1>2. CASE \E c \in Clients : Call(c)
    BY <1>2, CallKeepsAsking
  <1>3. CASE \E c \in Clients : Arrive(c)
    BY <1>3 DEF Arrive, Goto, channel, AskingInv, ClientType, PutOnce
  <1>4. CASE \E d \in Processes : Crash(d) \/ Exit(d) \/ (Lock(d) /\ End(d))
    BY <1>4, EndKeepsAsking DEF Crash, Exit, Lock, client
  <1>5. CASE UNCHANGED <<pc, task, frame, cards>>
    BY <1>5 DEF AskingInv, ClientType, PutOnce
  <1>6. QED
    BY <1>1, <1>2, <1>3, <1>4, <1>5 DEF Next, vars, Serve, Lock, Bind, Close, Cancel, Cleanup, Watch,
         Noticed, Announced, Stop, StopGracefully, Update, client, channel

\* run_ask_final_async: whatever a client retries and however daemons come and go, its
\* question is registered once.
THEOREM AskedOnce == Spec => []AskedAtMostOnce
  <1>1. Init => AskingInv
    BY DEF Init, AskingInv, ClientType, PutOnce
  <1>2. AskingInv => AskedAtMostOnce
    BY DEF AskingInv, ClientType, PutOnce, AskedAtMostOnce
  <1>3. QED
    BY <1>1, <1>2, StepKeepsAsking, PTL DEF Spec
=============================================================================
