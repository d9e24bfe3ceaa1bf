------------------------ MODULE ConfirmLifecycle_proofs ------------------------
(***************************************************************************)
(* For any number of connections, any assignment of request ids and any    *)
(* number of tokens, whatever the tasks of the runtime do between two      *)
(* steps of each other: the registry holds exactly the requests in         *)
(* service, no iMessage task outlives its request without having been told *)
(* of its end, every token that is taken will be given back, and a request *)
(* whose surfaces are gone has its end decided.  That a request is sent    *)
(* once is a theorem where winners do not switch the channel.              *)
(*                                                                         *)
(* None of these is inductive.  LInv adds what a request and its tasks are *)
(* in each stage of the handler; one lemma an action shows that it stays.  *)
(***************************************************************************)
EXTENDS ConfirmLifecycle, TLAPS

\* The stages before create_confirm, before the handler's own task is spawned, and
\* after the outcome is known.
Before == {"new", "admitted"}
Unspawned == Before \cup {"created", "setup"}
Decided == {"reply", "backfill", "close", "gone", "notified"}

\* Nobody has delivered the request, and no backfill is about to.
Untouched(a) ==
    /\ delivery[a] = "absent"
    /\ \A t \in Tasks : t[1] = a => task[t] = "none"
    /\ \A b \in Attempts : a \notin todo[b] /\ picked[b] # a

\* So it is before the request is registered, and for ever when it is refused: a
\* registered one ends decided.
UntouchedBefore ==
    \A a \in Attempts :
        pc[a] \in Before \/ (pc[a] = "done" /\ gate[a] = "undecided") => Untouched(a)
EndsDecided == \A a \in Attempts : pc[a] \in Decided => gate[a] # "undecided"

\* A task that may still be spawned was not: a handler spawns its own once, and its
\* backfill looks at a request once, never at its own.
ToCome(t) ==
    IF t[1] = t[2] THEN pc[t[1]] \in Unspawned
    ELSE \/ pc[t[2]] \in Unspawned \cup {"await", "stalled", "reply"}
         \/ picked[t[2]] = t[1]
         \/ t[1] \in todo[t[2]]
SpawnedOnce == \A t \in Tasks : ToCome(t) => task[t] = "none"
BackfillsOthers ==
    \A a \in Attempts : picked[a] # None =>
        pc[a] = "backfill" /\ picked[a] # a /\ picked[a] \notin todo[a]

\* What a task knows of the end of its request, and what it does not believe too early.
Told ==
    \A t \in Tasks :
        pc[t[1]] \in {"notified", "done"} /\ task[t] \in Selecting \cup {"checked"} => woken[t]
WokenIsDecided == \A t \in Tasks : woken[t] => gate[t[1]] # "undecided"

HoldsToken == \A t \in Tasks : task[t] \in Holding => token[t] \in Tokens

\* While a request is undecided, the state of its delivery is that of a task, so that
\* the last task does not end without a decision.
Carried ==
    \A a \in Attempts :
        gate[a] = "undecided" /\ pc[a] # "lost" =>
            /\ delivery[a] = "absent" => \A t \in Tasks : t[1] = a => task[t] = "none"
            /\ delivery[a] = "starting" =>
                   \A t \in Tasks : t[1] = a =>
                      task[t] \in {"none", "spawned", "enabled", "checked", "prepare", "sent"}
            /\ delivery[a] = "ready" => \E t \in Tasks : t[1] = a /\ task[t] = "ready"
            /\ delivery[a] = "failed" => \E t \in Tasks : t[1] = a /\ task[t] = "failing"
            /\ delivery[a] # "terminal"
Served == \A a \in Attempts : pc[a] = "setup" => delivery[a] # "absent"
Dispatched ==
    \A t \in Tasks :
        t[1] = t[2] /\ pc[t[1]] = "await" /\ gate[t[1]] = "undecided" => task[t] # "none"

LInv ==
    /\ TypeOK /\ RegistryTracksService
    /\ UntouchedBefore /\ EndsDecided /\ SpawnedOnce /\ BackfillsOthers
    /\ Told /\ WokenIsDecided
    /\ HoldsToken /\ TokensAreReturned /\ OnlyTaskOwnsToken
    /\ Carried /\ Served /\ Dispatched

\* A task is the pair of the request and the handler that spawned it.
LEMMA TaskIsPair ==
    /\ \A t \in Tasks : t[1] \in Attempts /\ t[2] \in Attempts /\ t = <<t[1], t[2]>>
    /\ \A a, b \in Attempts : <<a, b>> \in Tasks /\ <<a, b>>[1] = a /\ <<a, b>>[2] = b
    /\ \A t, u \in Tasks : t[1] = u[1] /\ t[2] = u[2] => t = u
  BY DEF Tasks

\* It holds at the start: no request, no task.
LEMMA InitLInv == Init => LInv
  <1> SUFFICES ASSUME Init PROVE LInv
    OBVIOUS
  <1>1. TypeOK
    BY DEF Init, TypeOK, States, Gates, Loud, Deliveries, TaskStates
  <1>2. RegistryTracksService
    BY LifecycleAssumption DEF Init, RegistryTracksService, InService, Waiting, Ending
  <1>3. UntouchedBefore /\ EndsDecided /\ SpawnedOnce /\ BackfillsOthers
    BY TaskIsPair, LifecycleAssumption
       DEF Init, UntouchedBefore, Untouched, EndsDecided, Decided, SpawnedOnce, BackfillsOthers
  <1>4. Told /\ WokenIsDecided /\ HoldsToken
    BY DEF Init, Told, WokenIsDecided, HoldsToken, Holding, Selecting, Falling
  <1>5. TokensAreReturned /\ OnlyTaskOwnsToken
    BY DEF Init, TokensAreReturned, OnlyTaskOwnsToken, Holding, Selecting, Falling
  <1>6. Carried /\ Served /\ Dispatched
    BY TaskIsPair DEF Init, Carried, Served, Dispatched
  <1>7. QED
    BY <1>1, <1>2, <1>3, <1>4, <1>5, <1>6 DEF LInv

-----------------------------------------------------------------------------
(***************************************************************************)
(* The connection handler                                                  *)
(***************************************************************************)

\* The handler lets a request in or sends it back.
LEMMA AdmitStep ==
    ASSUME LInv, NEW a \in Attempts, Admit(a) PROVE LInv'
  <1>1. TypeOK'
    <2>1. pc' \in [Attempts -> States]
      BY DEF LInv, TypeOK, States, Admit, Goto
    <2>2. QED
      BY <2>1 DEF LInv, TypeOK, Admit, entry, tokens, surface, daemon
  <1>2. RegistryTracksService'
    BY DEF LInv, RegistryTracksService, TypeOK, InService, Waiting, Ending, Admit,
         Goto, handler, entry, tokens
  <1>3. UntouchedBefore'
    BY TaskIsPair DEF LInv, UntouchedBefore, Untouched, TypeOK, EndsDecided,
         SpawnedOnce, BackfillsOthers, Before, Loud, Admit, Goto, handler, entry,
         tokens, surface, daemon
  <1>4. EndsDecided'
    BY DEF LInv, EndsDecided, Decided, TypeOK, InService, Loud, Admit, Goto, handler,
         entry, tokens
  <1>5. SpawnedOnce'
    BY TaskIsPair, LifecycleAssumption DEF LInv, SpawnedOnce, ToCome, Unspawned,
         Before, BackfillsOthers, Untouched, TypeOK, States, Admit, Goto, handler,
         entry, tokens, surface, daemon
  <1>6. BackfillsOthers'
    BY DEF LInv, BackfillsOthers, TypeOK, InService, Waiting, Admit, Goto
  <1>7. Told'
    BY TaskIsPair, LifecycleAssumption DEF LInv, Told, UntouchedBefore, Untouched,
         Decided, Selecting, Falling, TypeOK, Before, States, InService, Gates, Loud,
         Admit, Goto, handler, entry, tokens, surface, daemon
  <1>8. Carried'
    BY TaskIsPair DEF LInv, Carried, TypeOK, Before, Ending, Admit, Goto, handler,
         entry, tokens, surface, daemon
  <1>9. Served'
    BY DEF LInv, Served, TypeOK, InService, Ending, Admit, Goto, handler, entry, tokens
  <1>10. Dispatched'
    BY TaskIsPair DEF LInv, Dispatched, TypeOK, Loud, Selecting, Admit, Goto, handler,
         entry, tokens, surface, daemon
  <1>11. (WokenIsDecided /\ HoldsToken /\ TokensAreReturned /\ OnlyTaskOwnsToken)'
    BY DEF LInv, WokenIsDecided, HoldsToken, TokensAreReturned, OnlyTask,
         OnlyTaskOwnsToken, Admit, handler, entry, tokens, surface
  <1>12. QED
    BY <1>1, <1>2, <1>3, <1>4, <1>5, <1>6, <1>7, <1>8, <1>9, <1>10, <1>11 DEF LInv

\* A request is registered unless its id is in service.
LEMMA CreateStep ==
    ASSUME LInv, NEW a \in Attempts, Create(a) PROVE LInv'
  <1>1. TypeOK'
    <2>1. pc' \in [Attempts -> States]
      BY DEF LInv, TypeOK, States, InService, Ending, Create, Goto, RegistryFree
    <2>2. registry' \in [Ids -> Attempts \cup {None}]
      BY DEF LInv, TypeOK, Create
    <2>3. QED
      BY <2>1 DEF LInv, TypeOK, Create, tokens, surface, daemon
  <1>2. RegistryTracksService'
    BY TaskIsPair, LifecycleAssumption DEF LInv, RegistryTracksService, TypeOK,
         InService, Waiting, Ending, Create, Goto
  <1>3. UntouchedBefore'
    BY DEF LInv, UntouchedBefore, Untouched, TypeOK, EndsDecided, SpawnedOnce,
         BackfillsOthers, Before, Loud, Create, Goto, tokens, surface, daemon
  <1>4. EndsDecided'
    BY DEF LInv, EndsDecided, Decided, TypeOK, InService, Loud, Create, Goto
  <1>5. SpawnedOnce'
    BY TaskIsPair DEF LInv, SpawnedOnce, ToCome, Unspawned, Before, BackfillsOthers,
         Untouched, TypeOK, States, Create, Goto, RegistryFree, surface, daemon
  <1>6. BackfillsOthers'
    BY DEF LInv, BackfillsOthers, TypeOK, InService, Waiting, Create, Goto
  <1>7. Told'
    BY TaskIsPair, LifecycleAssumption DEF LInv, Told, UntouchedBefore, Untouched,
         Decided, Selecting, Falling, TypeOK, Before, States, InService, Gates, Loud,
         Create, Goto, RegistryFree, handler, entry, tokens, surface, daemon
  <1>8. Carried'
    BY DEF LInv, Carried, TypeOK, Before, Ending, Create, Goto, tokens, surface, daemon
  <1>9. Served'
    BY DEF LInv, Served, TypeOK, InService, Ending, Create, Goto
  <1>10. Dispatched'
    BY TaskIsPair, LifecycleAssumption DEF LInv, Dispatched, TypeOK, Loud, Selecting,
         Create, Goto, tokens, surface, daemon
  <1>11. (WokenIsDecided /\ HoldsToken /\ TokensAreReturned /\ OnlyTaskOwnsToken)'
    BY DEF LInv, WokenIsDecided, HoldsToken, TokensAreReturned, OnlyTask,
         OnlyTaskOwnsToken, Create, handler, entry, tokens, surface
  <1>12. QED
    BY <1>1, <1>2, <1>3, <1>4, <1>5, <1>6, <1>7, <1>8, <1>9, <1>10, <1>11 DEF LInv

\* The delivery begins, or no channel is left.
LEMMA AcceptStep ==
    ASSUME LInv, NEW a \in Attempts, Accept(a) PROVE LInv'
  <1>1. TypeOK'
    <2>1. pc' \in [Attempts -> States]
      BY DEF LInv, TypeOK, States, InService, Waiting, Ending, Accept, Goto, Decide
    <2>2. delivery' \in [Attempts -> Deliveries]
      BY DEF LInv, TypeOK, Deliveries, Accept, Decide
    <2>3. gate' \in [Attempts -> Gates]
      BY TaskIsPair DEF LInv, TypeOK, Gates, Loud, Accept, Goto, Decide
    <2>4. QED
      BY <2>1, <2>2, <2>3 DEF LInv, TypeOK, Accept, tokens, surface, daemon
  <1>2. RegistryTracksService'
    BY DEF LInv, RegistryTracksService, TypeOK, InService, Waiting, Ending, Accept,
         Goto
  <1>3. UntouchedBefore'
    BY DEF LInv, UntouchedBefore, Untouched, TypeOK, EndsDecided, SpawnedOnce,
         BackfillsOthers, Before, Loud, Accept, Goto, Decide, handler, entry, tokens,
         surface, daemon
  <1>4. EndsDecided'
    BY DEF LInv, EndsDecided, Decided, TypeOK, InService, Loud, Accept, Goto, Decide,
         handler, entry
  <1>5. SpawnedOnce'
    BY TaskIsPair DEF LInv, SpawnedOnce, ToCome, Unspawned, BackfillsOthers, Untouched,
         TypeOK, States, Accept, Goto, Decide, surface, daemon
  <1>6. BackfillsOthers'
    BY DEF LInv, BackfillsOthers, TypeOK, InService, Waiting, Accept, Goto
  <1>7. Told'
    BY TaskIsPair, LifecycleAssumption DEF LInv, Told, TypeOK, Gates, Loud, Accept,
         Goto, Decide, handler, entry, tokens, surface, daemon
  <1>8. WokenIsDecided'
    BY TaskIsPair, LifecycleAssumption DEF LInv, WokenIsDecided, TypeOK, Gates, Loud,
         Accept, Goto, Decide, handler, entry, tokens, surface, daemon
  <1>9. Carried'
    BY DEF LInv, Carried, TypeOK, Before, Ending, Accept, Goto, Decide, handler, entry,
         tokens, surface, daemon
  <1>10. Served'
    BY DEF LInv, Served, TypeOK, InService, Ending, Accept, Goto
  <1>11. Dispatched'
    BY TaskIsPair, LifecycleAssumption DEF LInv, Dispatched, TypeOK, Loud, Selecting,
         Accept, Goto, Decide, handler, entry, tokens, surface, daemon
  <1>12. (HoldsToken /\ TokensAreReturned /\ OnlyTaskOwnsToken)'
    BY DEF LInv, HoldsToken, TokensAreReturned, OnlyTask, OnlyTaskOwnsToken, Accept,
         handler, entry, tokens, surface, daemon
  <1>13. QED
    BY <1>1, <1>2, <1>3, <1>4, <1>5, <1>6, <1>7, <1>8, <1>9, <1>10, <1>11, <1>12 DEF LInv

\* The handler's own task is spawned: it was not before.
LEMMA DispatchStep ==
    ASSUME LInv, NEW a \in Attempts, Dispatch(a) PROVE LInv'
  <1>1. TypeOK'
    <2>1. pc' \in [Attempts -> States]
      BY DEF LInv, TypeOK, States, InService, Waiting, Ending, Dispatch, Goto
    <2>2. task' \in [Tasks -> TaskStates]
      BY DEF LInv, TypeOK, TaskStates, Holding, Selecting, Falling, Dispatch, Goto
    <2>3. QED
      BY <2>1, <2>2 DEF LInv, TypeOK, Dispatch, entry, tokens, surface, daemon
  <1>2. RegistryTracksService'
    BY DEF LInv, RegistryTracksService, InService, Waiting, Ending, Dispatch, Goto,
         handler, entry, tokens
  <1>3. UntouchedBefore'
    BY DEF LInv, UntouchedBefore, Untouched, EndsDecided, Before, Unspawned, Decided,
         Holding, Dispatch, Goto, handler, entry, tokens
  <1>4. EndsDecided'
    BY DEF LInv, EndsDecided, Decided, Dispatch, Goto, handler, entry, tokens
  <1>5. SpawnedOnce'
    BY DEF LInv, TypeOK, SpawnedOnce, ToCome, BackfillsOthers, Before, Unspawned,
         Decided, Holding, Dispatch, Goto
  <1>6. BackfillsOthers'
    BY DEF LInv, BackfillsOthers, Dispatch, Goto
  <1>7. Told'
    BY DEF LInv, Told, HoldsToken, Holding, Dispatch, Goto
  <1>8. HoldsToken'
    BY DEF LInv, HoldsToken, Holding, Selecting, Falling, TypeOK, TaskStates, Dispatch,
         Goto, handler, entry, tokens, surface
  <1>9. TokensAreReturned'
    BY DEF LInv, SpawnedOnce, ToCome, BackfillsOthers, Told, WokenIsDecided,
         HoldsToken, TokensAreReturned, OnlyTaskOwnsToken, OnlyTask, Before, Unspawned,
         Decided, IdOf, Loud, Gates, Selecting, Falling, Hearing, Holding, Dispatch,
         Goto, handler, entry, tokens
  <1>10. OnlyTaskOwnsToken'
    BY DEF LInv, OnlyTaskOwnsToken, OnlyTask, Holding, Selecting, Falling, TypeOK,
         Dispatch, tokens, surface, daemon
  <1>11. Carried'
    BY DEF LInv, SpawnedOnce, ToCome, BackfillsOthers, TokensAreReturned,
         OnlyTaskOwnsToken, OnlyTask, Carried, Served, Dispatched, Before, Unspawned,
         Decided, Holding, Dispatch, Goto, handler, entry, tokens
  <1>12. Served'
    BY DEF LInv, Served, Dispatch, Goto, handler, entry, tokens
  <1>13. Dispatched'
    BY TaskIsPair DEF LInv, Dispatched, TypeOK, Loud, Selecting, Dispatch, Goto,
         handler, entry, tokens, surface, daemon
  <1>14. WokenIsDecided'
    BY DEF LInv, WokenIsDecided, Dispatch, entry, tokens
  <1>15. QED
    BY <1>1, <1>2, <1>3, <1>4, <1>5, <1>6, <1>7, <1>8, <1>9, <1>10, <1>11, <1>12, <1>13, <1>14 DEF LInv

\* The caller leaves.
LEMMA DisconnectedStep ==
    ASSUME LInv, NEW a \in Attempts, Disconnected(a) PROVE LInv'
  <1>1. TypeOK'
    <2>1. pc' \in [Attempts -> States]
      BY DEF LInv, TypeOK, States, InService, Ending, Disconnected, Decide
    <2>2. gate' \in [Attempts -> Gates]
      BY DEF LInv, TypeOK, Gates, Disconnected, Decide
    <2>3. QED
      BY <2>1, <2>2 DEF LInv, TypeOK, Disconnected, tokens, surface, daemon
  <1>2. RegistryTracksService'
    BY DEF LInv, RegistryTracksService, Ending, InService, Holding, Disconnected,
         Decide
  <1>3. UntouchedBefore'
    BY TaskIsPair DEF LInv, UntouchedBefore, Untouched, EndsDecided, Before, Unspawned,
         Decided, Holding, Disconnected, Decide, surface, daemon
  <1>4. EndsDecided'
    BY DEF LInv, EndsDecided, TypeOK, InService, Loud, Disconnected, Decide
  <1>5. SpawnedOnce'
    BY TaskIsPair DEF LInv, SpawnedOnce, ToCome, BackfillsOthers, Before, Unspawned,
         Decided, Holding, Disconnected, Decide, surface, daemon
  <1>6. BackfillsOthers'
    BY DEF LInv, BackfillsOthers, Waiting, Disconnected, Decide
  <1>7. Told'
    BY DEF LInv, Told, Disconnected, tokens, surface, daemon
  <1>8. WokenIsDecided'
    BY TaskIsPair DEF LInv, WokenIsDecided, Disconnected, Decide, surface, daemon
  <1>9. Carried'
    BY TaskIsPair DEF LInv, Carried, Waiting, Ending, Disconnected, Decide, surface,
         daemon
  <1>10. Served'
    BY DEF LInv, Served, Disconnected, Decide
  <1>11. Dispatched'
    BY TaskIsPair DEF LInv, Dispatched, Disconnected, Decide, surface, daemon
  <1>12. (HoldsToken /\ TokensAreReturned /\ OnlyTaskOwnsToken)'
    BY DEF LInv, HoldsToken, TokensAreReturned, OnlyTask, OnlyTaskOwnsToken,
         Disconnected, handler, entry, tokens, surface, daemon
  <1>13. QED
    BY <1>1, <1>2, <1>3, <1>4, <1>5, <1>6, <1>7, <1>8, <1>9, <1>10, <1>11, <1>12 DEF LInv

\* An outcome arrives.
LEMMA ReceiveStep ==
    ASSUME LInv, NEW a \in Attempts, Receive(a) PROVE LInv'
  <1>1. TypeOK'
    <2>1. pc' \in [Attempts -> States]
      BY DEF LInv, TypeOK, States, InService, Ending, Receive
    <2>2. QED
      BY <2>1 DEF LInv, TypeOK, Receive, entry, tokens, surface, daemon
  <1>2. RegistryTracksService'
    BY DEF LInv, RegistryTracksService, InService, Waiting, Ending, Receive, handler,
         entry, tokens, surface
  <1>3. UntouchedBefore'
    BY DEF LInv, UntouchedBefore, Untouched, Before, Loud, Receive, handler, entry,
         tokens, surface
  <1>4. EndsDecided'
    BY DEF LInv, EndsDecided, Loud, Receive, handler, entry, tokens, surface
  <1>5. SpawnedOnce'
    BY DEF LInv, SpawnedOnce, ToCome, Unspawned, Before, BackfillsOthers, InService,
         Waiting, Ending, Receive, handler, entry, tokens, surface, daemon
  <1>6. BackfillsOthers'
    BY DEF LInv, BackfillsOthers, Waiting, Receive, handler
  <1>7. Told'
    BY TaskIsPair DEF LInv, Told, Receive, surface, daemon
  <1>8. Carried'
    BY DEF LInv, Carried, Waiting, Ending, Receive, handler, entry, tokens, surface
  <1>9. Served'
    BY DEF LInv, Served, Receive, handler, entry, tokens, surface
  <1>10. Dispatched'
    BY DEF LInv, Dispatched, Receive, handler, entry, tokens, surface
  <1>11. (WokenIsDecided /\ HoldsToken /\ TokensAreReturned /\ OnlyTaskOwnsToken)'
    BY DEF LInv, WokenIsDecided, HoldsToken, TokensAreReturned, OnlyTask,
         OnlyTaskOwnsToken, Receive, handler, entry, tokens, surface
  <1>12. QED
    BY <1>1, <1>2, <1>3, <1>4, <1>5, <1>6, <1>7, <1>8, <1>9, <1>10, <1>11 DEF LInv

\* The deadline passes.
LEMMA ExpireStep ==
    ASSUME LInv, NEW a \in Attempts, Expire(a) PROVE LInv'
  <1>1. TypeOK'
    <2>1. pc' \in [Attempts -> States]
      BY DEF LInv, TypeOK, States, InService, Ending, Expire, Decide
    <2>2. gate' \in [Attempts -> Gates]
      BY DEF LInv, TypeOK, Gates, Loud, Expire, Decide
    <2>3. QED
      BY <2>1, <2>2 DEF LInv, TypeOK, Expire, tokens, surface, daemon
  <1>2. RegistryTracksService'
    BY DEF LInv, RegistryTracksService, InService, Waiting, Ending, Expire, Decide
  <1>3. UntouchedBefore'
    BY TaskIsPair DEF LInv, UntouchedBefore, Untouched, Before, Loud, Expire, Decide,
         surface, daemon
  <1>4. EndsDecided'
    BY DEF LInv, EndsDecided, TypeOK, InService, Loud, Expire, Decide
  <1>5. SpawnedOnce'
    BY DEF LInv, SpawnedOnce, ToCome, Unspawned, Before, BackfillsOthers, InService,
         Waiting, Ending, Expire, Decide, handler, entry, tokens, surface
  <1>6. BackfillsOthers'
    BY DEF LInv, BackfillsOthers, Waiting, Expire, Decide
  <1>7. Told'
    BY DEF LInv, Told, Expire, tokens, surface, daemon
  <1>8. WokenIsDecided'
    BY TaskIsPair DEF LInv, WokenIsDecided, Expire, Decide, surface, daemon
  <1>9. Carried'
    BY TaskIsPair DEF LInv, Carried, Waiting, Ending, Expire, Decide, surface, daemon
  <1>10. Served'
    BY DEF LInv, Served, Expire, Decide
  <1>11. Dispatched'
    BY TaskIsPair DEF LInv, Dispatched, Expire, Decide, surface, daemon
  <1>12. (HoldsToken /\ TokensAreReturned /\ OnlyTaskOwnsToken)'
    BY DEF LInv, HoldsToken, TokensAreReturned, OnlyTask, OnlyTaskOwnsToken, Expire,
         handler, entry, tokens, surface, daemon
  <1>13. QED
    BY <1>1, <1>2, <1>3, <1>4, <1>5, <1>6, <1>7, <1>8, <1>9, <1>10, <1>11, <1>12 DEF LInv

\* The copies a backfill starts with are of other requests: its own is decided.
LEMMA ReplyStep ==
    ASSUME LInv, NEW a \in Attempts, Reply(a) PROVE LInv'
  <1>1. TypeOK'
    <2>1. pc' \in [Attempts -> States]
      BY DEF LInv, TypeOK, States, InService, Ending, Reply, Goto, RegistryFree
    <2>2. active' \in BOOLEAN
      BY DEF LInv, TypeOK, Reply, Goto, RegistryFree
    <2>3. todo' \in [Attempts -> SUBSET Attempts]
      BY DEF LInv, TypeOK, Reply
    <2>4. QED
      BY <2>1, <2>2, <2>3 DEF LInv, TypeOK, Reply, entry, tokens, surface, daemon
  <1>2. RegistryTracksService'
    BY DEF LInv, RegistryTracksService, TypeOK, InService, Waiting, Ending, Reply,
         Goto, RegistryFree, handler, entry
  <1>3. UntouchedBefore'
    BY DEF LInv, UntouchedBefore, Untouched, TypeOK, RegistryTracksService,
         EndsDecided, SpawnedOnce, BackfillsOthers, Before, Decided, States, InService,
         Waiting, Ending, Gates, Loud, Reply, Goto, RegistryFree, handler, entry,
         tokens, surface, daemon
  <1>4. EndsDecided'
    BY DEF LInv, EndsDecided, Decided, TypeOK, InService, Loud, Reply, Goto,
         RegistryFree, handler, entry
  <1>5. SpawnedOnce'
    BY TaskIsPair DEF LInv, SpawnedOnce, ToCome, Unspawned, Before, BackfillsOthers,
         Untouched, TypeOK, States, Reply, Goto, RegistryFree, surface, daemon
  <1>6. BackfillsOthers'
    BY DEF LInv, BackfillsOthers, TypeOK, InService, Waiting, Reply, Goto
  <1>7. Told'
    BY TaskIsPair, LifecycleAssumption DEF LInv, Told, TypeOK, Gates, Loud, Reply,
         Goto, RegistryFree, handler, entry, tokens, surface, daemon
  <1>8. Carried'
    BY DEF LInv, Carried, TypeOK, Before, Ending, Reply, Goto, RegistryFree, handler,
         entry, tokens, surface, daemon
  <1>9. Served'
    BY DEF LInv, Served, TypeOK, InService, Ending, Reply, Goto, RegistryFree, handler,
         entry
  <1>10. Dispatched'
    BY TaskIsPair, LifecycleAssumption DEF LInv, Dispatched, TypeOK, Loud, Selecting,
         Reply, Goto, RegistryFree, handler, entry, tokens, surface, daemon
  <1>11. (WokenIsDecided /\ HoldsToken /\ TokensAreReturned /\ OnlyTaskOwnsToken)'
    BY DEF LInv, WokenIsDecided, HoldsToken, TokensAreReturned, OnlyTask,
         OnlyTaskOwnsToken, Reply, handler, entry, tokens, surface
  <1>12. QED
    BY <1>1, <1>2, <1>3, <1>4, <1>5, <1>6, <1>7, <1>8, <1>9, <1>10, <1>11 DEF LInv

\* A backfill takes one of its copies up.
LEMMA ConsiderStep ==
    ASSUME LInv, NEW a \in Attempts, Consider(a) PROVE LInv'
  <1>1. TypeOK'
    <2>1. todo' \in [Attempts -> SUBSET Attempts]
      BY DEF LInv, TypeOK, Consider
    <2>2. picked' \in [Attempts -> Attempts \cup {None}]
      BY DEF LInv, TypeOK, Consider
    <2>3. QED
      BY <2>1 DEF LInv, TypeOK, Consider, entry, tokens, surface, daemon
  <1>2. UntouchedBefore'
    BY DEF LInv, UntouchedBefore, Untouched, TypeOK, EndsDecided, Loud, Consider,
         handler, entry, tokens, surface
  <1>3. SpawnedOnce'
    BY TaskIsPair, LifecycleAssumption DEF LInv, SpawnedOnce, ToCome, TypeOK, States,
         Consider, handler, entry, tokens, surface, daemon
  <1>4. BackfillsOthers'
    BY DEF LInv, BackfillsOthers, EndsDecided, Decided, ToCome, TypeOK, States,
         InService, Waiting, Consider, handler
  <1>5. (RegistryTracksService /\ EndsDecided /\ Told /\ WokenIsDecided /\ HoldsToken
         /\ TokensAreReturned /\ OnlyTaskOwnsToken /\ Carried /\ Served /\ Dispatched)'
    BY DEF LInv, RegistryTracksService, EndsDecided, Told, WokenIsDecided, HoldsToken,
         IdOf, TokensAreReturned, OnlyTask, OnlyTaskOwnsToken, Carried, Served,
         Dispatched, Consider, handler, entry, tokens, surface
  <1>6. QED
    BY <1>1, <1>2, <1>3, <1>4, <1>5 DEF LInv

\* A backfill spawns a task: it was not spawned before, and the request may have
\* been decided meanwhile.
LEMMA BackfillStep ==
    ASSUME LInv, NEW a \in Attempts, Backfill(a) PROVE LInv'
  <1>1. TypeOK'
    <2>1. picked' \in [Attempts -> Attempts \cup {None}]
      BY DEF LInv, TypeOK, Backfill
    <2>2. delivery' \in [Attempts -> Deliveries]
      BY DEF LInv, TypeOK, Deliveries, Backfill
    <2>3. task' \in [Tasks -> TaskStates]
      BY DEF LInv, TypeOK, TaskStates, Holding, Selecting, Falling, Backfill
    <2>4. QED
      BY <2>1, <2>2, <2>3 DEF LInv, TypeOK, Backfill, tokens, surface, daemon
  <1>2. UntouchedBefore'
    BY TaskIsPair, LifecycleAssumption DEF LInv, UntouchedBefore, Untouched, Backfill,
         handler, daemon
  <1>3. SpawnedOnce'
    BY TaskIsPair, LifecycleAssumption DEF LInv, SpawnedOnce, ToCome, Unspawned,
         Before, BackfillsOthers, Untouched, TypeOK, States, Backfill, handler, entry
  <1>4. BackfillsOthers'
    BY DEF LInv, BackfillsOthers, Backfill, handler
  <1>5. Told'
    BY DEF LInv, Told, Selecting, TypeOK, Gates, Loud, Backfill
  <1>6. HoldsToken'
    BY DEF LInv, HoldsToken, Holding, Selecting, Falling, TypeOK, TaskStates, Backfill,
         handler, entry, tokens, surface, daemon
  <1>7. TokensAreReturned'
    BY DEF LInv, EndsDecided, SpawnedOnce, ToCome, BackfillsOthers, Told,
         WokenIsDecided, HoldsToken, TokensAreReturned, OnlyTaskOwnsToken, OnlyTask,
         Carried, Served, Dispatched, Waiting, Ending, InService, Selecting, Falling,
         Hearing, Holding, Backfill, handler, entry, tokens, surface
  <1>8. OnlyTaskOwnsToken'
    BY DEF LInv, OnlyTaskOwnsToken, OnlyTask, Holding, Selecting, Falling, TypeOK,
         Backfill, handler, entry, tokens
  <1>9. Carried'
    BY DEF LInv, TypeOK, SpawnedOnce, ToCome, BackfillsOthers, Carried, Served,
         Dispatched, Holding, Backfill, handler
  <1>10. Served'
    BY DEF LInv, Served, Backfill, handler
  <1>11. Dispatched'
    BY DEF LInv, Dispatched, Backfill, handler
  <1>12. (RegistryTracksService /\ EndsDecided /\ WokenIsDecided)'
    BY DEF LInv, RegistryTracksService, EndsDecided, WokenIsDecided, Backfill, handler
  <1>13. QED
    BY <1>1, <1>2, <1>3, <1>4, <1>5, <1>6, <1>7, <1>8, <1>9, <1>10, <1>11, <1>12 DEF LInv

\* A backfill is through.
LEMMA BackfilledStep ==
    ASSUME LInv, NEW a \in Attempts, Backfilled(a) PROVE LInv'
  <1>1. TypeOK'
    <2>1. pc' \in [Attempts -> States]
      BY DEF LInv, TypeOK, States, InService, Ending, Backfilled, Goto
    <2>2. QED
      BY <2>1 DEF LInv, TypeOK, Backfilled, entry, tokens, surface, daemon
  <1>2. RegistryTracksService'
    BY DEF LInv, RegistryTracksService, InService, Waiting, Ending, Backfilled, Goto,
         handler, entry, tokens
  <1>3. UntouchedBefore'
    BY TaskIsPair DEF LInv, UntouchedBefore, Untouched, Before, Loud, Backfilled, Goto,
         handler, entry, tokens, surface, daemon
  <1>4. EndsDecided'
    BY DEF LInv, EndsDecided, Decided, Backfilled, Goto, handler, entry, tokens
  <1>5. SpawnedOnce'
    BY DEF LInv, SpawnedOnce, ToCome, Unspawned, Before, BackfillsOthers, Backfilled,
         Goto, handler, entry, tokens, surface
  <1>6. BackfillsOthers'
    BY DEF LInv, BackfillsOthers, Backfilled, Goto
  <1>7. Told'
    BY DEF LInv, Told, Backfilled, Goto, handler, entry, tokens, surface, daemon
  <1>8. Carried'
    BY TaskIsPair DEF LInv, Carried, Backfilled, Goto, handler, entry, tokens, surface,
         daemon
  <1>9. Served'
    BY DEF LInv, Served, Backfilled, Goto, handler, entry, tokens
  <1>10. Dispatched'
    BY TaskIsPair DEF LInv, Dispatched, Backfilled, Goto, handler, entry, tokens,
         surface, daemon
  <1>11. (WokenIsDecided /\ HoldsToken /\ TokensAreReturned /\ OnlyTaskOwnsToken)'
    BY DEF LInv, WokenIsDecided, HoldsToken, TokensAreReturned, OnlyTask,
         OnlyTaskOwnsToken, Backfilled, handler, entry, tokens, surface
  <1>12. QED
    BY <1>1, <1>2, <1>3, <1>4, <1>5, <1>6, <1>7, <1>8, <1>9, <1>10, <1>11 DEF LInv

\* The delivery is closed; the request is decided.
LEMMA CloseStep ==
    ASSUME LInv, NEW a \in Attempts, Close(a) PROVE LInv'
  <1>1. TypeOK'
    <2>1. pc' \in [Attempts -> States]
      BY DEF LInv, TypeOK, States, InService, Ending, Close, Goto
    <2>2. delivery' \in [Attempts -> Deliveries]
      BY TaskIsPair DEF LInv, TypeOK, Deliveries, Close
    <2>3. QED
      BY <2>1, <2>2 DEF LInv, TypeOK, Close, tokens, surface, daemon
  <1>2. RegistryTracksService'
    BY DEF LInv, RegistryTracksService, InService, Waiting, Ending, Close, Goto
  <1>3. UntouchedBefore'
    BY TaskIsPair DEF LInv, UntouchedBefore, Untouched, Before, Loud, Close, Goto,
         surface, daemon
  <1>4. EndsDecided'
    BY DEF LInv, EndsDecided, Decided, Close, Goto
  <1>5. SpawnedOnce'
    BY DEF LInv, SpawnedOnce, ToCome, Unspawned, Before, BackfillsOthers, Close, Goto,
         handler, entry, tokens, surface
  <1>6. BackfillsOthers'
    BY DEF LInv, BackfillsOthers, Close, Goto
  <1>7. Told'
    BY DEF LInv, Told, Close, Goto, handler, entry, tokens, surface, daemon
  <1>8. Carried'
    BY TaskIsPair DEF LInv, Carried, EndsDecided, Decided, TypeOK, Before, Ending,
         Close, Goto, surface, daemon
  <1>9. Served'
    BY DEF LInv, Served, Close, Goto
  <1>10. Dispatched'
    BY TaskIsPair DEF LInv, Dispatched, Close, Goto, surface, daemon
  <1>11. (WokenIsDecided /\ HoldsToken /\ TokensAreReturned /\ OnlyTaskOwnsToken)'
    BY DEF LInv, WokenIsDecided, HoldsToken, TokensAreReturned, OnlyTask,
         OnlyTaskOwnsToken, Close, handler, entry, tokens, surface
  <1>12. QED
    BY <1>1, <1>2, <1>3, <1>4, <1>5, <1>6, <1>7, <1>8, <1>9, <1>10, <1>11 DEF LInv

\* Every task that listens is told.
LEMMA NotifyStep ==
    ASSUME LInv, NEW a \in Attempts, Notify(a) PROVE LInv'
  <1>1. TypeOK'
    <2>1. pc' \in [Attempts -> States]
      BY DEF LInv, TypeOK, States, InService, Ending, Notify, Goto, NotifyWaiters
    <2>2. woken' \in [Tasks -> BOOLEAN]
      BY DEF Notify, NotifyWaiters
    <2>3. QED
      BY <2>1, <2>2 DEF LInv, TypeOK, Notify, entry, tokens, surface, daemon
  <1>2. RegistryTracksService'
    BY DEF LInv, RegistryTracksService, InService, Waiting, Ending, Notify, Goto,
         NotifyWaiters, handler, entry
  <1>3. UntouchedBefore'
    BY DEF LInv, UntouchedBefore, Untouched, Before, Loud, Notify, Goto, NotifyWaiters,
         handler, entry
  <1>4. EndsDecided'
    BY DEF LInv, EndsDecided, Decided, Notify, Goto, NotifyWaiters, handler, entry
  <1>5. SpawnedOnce'
    BY DEF LInv, SpawnedOnce, ToCome, Unspawned, Before, BackfillsOthers, Notify, Goto,
         NotifyWaiters
  <1>6. BackfillsOthers'
    BY DEF LInv, BackfillsOthers, Notify, Goto
  <1>7. Told'
    <2>1. \A t \in Tasks : t[1] = a /\ task[t] \in Hearing => woken'[t]
      BY DEF Notify, NotifyWaiters
    <2>2. \A t \in Tasks : woken[t] => woken'[t]
      BY DEF Notify, NotifyWaiters
    <2>3. \A t \in Tasks : t[1] # a => pc'[t[1]] = pc[t[1]]
      BY DEF Notify, Goto
    <2>4. QED
      BY <2>1, <2>2, <2>3, TaskIsPair DEF LInv, Told, Hearing, Notify
  <1>8. WokenIsDecided'
    BY DEF LInv, WokenIsDecided, EndsDecided, Decided, TypeOK, Gates, Loud, Notify,
         Goto, NotifyWaiters, handler, entry
  <1>9. Carried'
    BY DEF LInv, Carried, Notify, Goto, NotifyWaiters, handler, entry
  <1>10. Served'
    BY DEF LInv, Served, Notify, Goto, NotifyWaiters, handler, entry
  <1>11. Dispatched'
    BY DEF LInv, Dispatched, Notify, Goto, NotifyWaiters, handler, entry
  <1>12. (HoldsToken /\ TokensAreReturned /\ OnlyTaskOwnsToken)'
    BY DEF LInv, HoldsToken, TokensAreReturned, OnlyTask, OnlyTaskOwnsToken, Notify,
         handler, entry, tokens, surface, daemon
  <1>13. QED
    BY <1>1, <1>2, <1>3, <1>4, <1>5, <1>6, <1>7, <1>8, <1>9, <1>10, <1>11, <1>12 DEF LInv

\* The id is free again.
LEMMA RemoveStep ==
    ASSUME LInv, NEW a \in Attempts, Remove(a) PROVE LInv'
  <1>1. TypeOK'
    <2>1. pc' \in [Attempts -> States]
      BY DEF LInv, TypeOK, States, Remove, Goto, RegistryFree
    <2>2. registry' \in [Ids -> Attempts \cup {None}]
      BY LifecycleAssumption DEF LInv, TypeOK, Remove
    <2>3. QED
      BY <2>1, <2>2 DEF LInv, TypeOK, Remove, tokens, surface, daemon
  <1>2. RegistryTracksService'
    <2>1. pc[a] = "notified" /\ registry[Id[a]] = a /\ pc' = [pc EXCEPT ![a] = "done"]
      BY DEF LInv, RegistryTracksService, Remove, Goto, InService, Ending
    <2>2. "done" \notin InService
      BY DEF InService, Waiting, Ending
    <2>3. registry' = [registry EXCEPT ![Id[a]] = None]
      BY DEF Remove
    <2>4. QED
      BY <2>1, <2>2, <2>3, LifecycleAssumption DEF LInv, TypeOK, RegistryTracksService
  <1>3. UntouchedBefore'
    BY DEF LInv, UntouchedBefore, Untouched, EndsDecided, SpawnedOnce, BackfillsOthers,
         Before, Decided, States, InService, Loud, Remove, Goto, tokens, surface,
         daemon
  <1>4. EndsDecided'
    BY DEF LInv, EndsDecided, Decided, Remove, Goto
  <1>5. SpawnedOnce'
    BY TaskIsPair DEF LInv, SpawnedOnce, ToCome, Unspawned, Before, BackfillsOthers,
         Remove, Goto, RegistryFree, surface, daemon
  <1>6. BackfillsOthers'
    BY DEF LInv, BackfillsOthers, Remove, Goto
  <1>7. Told'
    BY DEF LInv, Told, Remove, Goto, RegistryFree, handler, entry, tokens, surface
  <1>8. Carried'
    BY DEF LInv, Carried, Remove, Goto, tokens, surface, daemon
  <1>9. Served'
    BY DEF LInv, Served, Remove, Goto
  <1>10. Dispatched'
    BY DEF LInv, Dispatched, Remove, Goto, tokens, surface, daemon
  <1>11. (WokenIsDecided /\ HoldsToken /\ TokensAreReturned /\ OnlyTaskOwnsToken)'
    BY DEF LInv, WokenIsDecided, HoldsToken, TokensAreReturned, OnlyTask,
         OnlyTaskOwnsToken, Remove, handler, entry, tokens, surface
  <1>12. QED
    BY <1>1, <1>2, <1>3, <1>4, <1>5, <1>6, <1>7, <1>8, <1>9, <1>10, <1>11 DEF LInv

\* cancel_all_requests visits an entry.
LEMMA SweepStep ==
    ASSUME LInv, NEW a \in Attempts, Sweep(a) PROVE LInv'
  <1>1. TypeOK'
    <2>1. sweep' \in SUBSET Attempts
      BY DEF LInv, TypeOK, Sweep
    <2>2. gate' \in [Attempts -> Gates]
      BY DEF LInv, TypeOK, Gates, Sweep, Decide
    <2>3. woken' \in [Tasks -> BOOLEAN]
      BY DEF Sweep, NotifyWaiters
    <2>4. QED
      BY <2>2, <2>3 DEF LInv, TypeOK, Sweep, handler, tokens
  <1>2. UntouchedBefore'
    BY DEF LInv, UntouchedBefore, Untouched, Sweep, Decide, NotifyWaiters, handler,
         entry
  <1>3. EndsDecided'
    BY DEF LInv, EndsDecided, Sweep, Decide, NotifyWaiters, handler, entry
  <1>4. Told'
    BY DEF LInv, Told, TypeOK, Gates, Loud, Sweep, Decide, NotifyWaiters, handler
  <1>5. WokenIsDecided'
    BY DEF LInv, WokenIsDecided, TypeOK, Gates, Loud, Sweep, Decide, NotifyWaiters,
         handler, entry
  <1>6. Carried'
    BY DEF LInv, Carried, Sweep, Decide, NotifyWaiters, handler, entry
  <1>7. Dispatched'
    BY DEF LInv, Dispatched, Sweep, Decide, NotifyWaiters, handler, entry
  <1>8. (RegistryTracksService /\ SpawnedOnce /\ BackfillsOthers /\ HoldsToken
         /\ TokensAreReturned /\ OnlyTaskOwnsToken /\ Served)'
    BY DEF LInv, RegistryTracksService, ToCome, SpawnedOnce, BackfillsOthers,
         HoldsToken, IdOf, TokensAreReturned, OnlyTask, OnlyTaskOwnsToken, Served,
         Sweep, handler, entry, tokens
  <1>9. QED
    BY <1>1, <1>2, <1>3, <1>4, <1>5, <1>6, <1>7, <1>8 DEF LInv

-----------------------------------------------------------------------------
(***************************************************************************)
(* The iMessage task                                                       *)
(***************************************************************************)

\* A task starts to listen.
LEMMA EnableStep ==
    ASSUME LInv, NEW t \in Tasks, Enable(t) PROVE LInv'
  <1>1. TypeOK'
    <2>1. task' \in [Tasks -> TaskStates]
      BY DEF LInv, TypeOK, TaskStates, Enable, TaskGoto
    <2>2. QED
      BY <2>1 DEF LInv, TypeOK, Enable, handler, entry, tokens, surface, daemon
  <1>2. UntouchedBefore'
    BY DEF LInv, UntouchedBefore, Untouched, Enable, TaskGoto, handler, entry, tokens
  <1>3. SpawnedOnce'
    BY DEF LInv, SpawnedOnce, ToCome, Enable, TaskGoto, handler
  <1>4. Told'
    BY DEF LInv, Told, Selecting, TypeOK, Gates, Loud, Enable, TaskGoto, handler, entry
  <1>5. HoldsToken'
    BY DEF LInv, HoldsToken, Holding, Selecting, Falling, TypeOK, TaskStates, Enable,
         TaskGoto, handler, entry, tokens, surface
  <1>6. TokensAreReturned'
    BY DEF LInv, TokensAreReturned, Holding, Selecting, Falling, TypeOK, Enable,
         TaskGoto, handler, entry, tokens
  <1>7. OnlyTaskOwnsToken'
    BY DEF LInv, OnlyTaskOwnsToken, OnlyTask, Holding, Selecting, Falling, TypeOK,
         Enable, TaskGoto, handler, entry, tokens, surface, daemon
  <1>8. Carried'
    BY DEF LInv, Carried, Enable, TaskGoto, handler, entry, tokens
  <1>9. Dispatched'
    BY DEF LInv, Dispatched, Enable, TaskGoto, handler, entry, tokens
  <1>10. (RegistryTracksService /\ EndsDecided /\ BackfillsOthers /\ WokenIsDecided /\ Served)'
    BY DEF LInv, RegistryTracksService, EndsDecided, BackfillsOthers, WokenIsDecided,
         Served, Enable, handler, entry
  <1>11. QED
    BY <1>1, <1>2, <1>3, <1>4, <1>5, <1>6, <1>7, <1>8, <1>9, <1>10 DEF LInv

\* It looks at the gate after it listens, so that one of both tells it.
LEMMA CheckStep ==
    ASSUME LInv, NEW t \in Tasks, Check(t) PROVE LInv'
  <1>1. TypeOK'
    <2>1. task' \in [Tasks -> TaskStates]
      BY DEF LInv, TypeOK, TaskStates, Check, TaskGoto, Unlisten
    <2>2. woken' \in [Tasks -> BOOLEAN]
      BY DEF LInv, TypeOK, Check, TaskGoto, Unlisten
    <2>3. QED
      BY <2>1, <2>2 DEF LInv, TypeOK, Check, handler, entry, tokens, surface, daemon
  <1>2. UntouchedBefore'
    BY DEF LInv, UntouchedBefore, Untouched, TypeOK, EndsDecided, Loud, Check,
         TaskGoto, Unlisten, handler, entry
  <1>3. SpawnedOnce'
    BY DEF LInv, SpawnedOnce, ToCome, TypeOK, States, Check, TaskGoto, Unlisten,
         handler, entry, tokens
  <1>4. Told'
    BY TaskIsPair, LifecycleAssumption DEF LInv, Told, UntouchedBefore, Untouched,
         EndsDecided, Decided, Selecting, Falling, TypeOK, Gates, Loud, Check,
         TaskGoto, Unlisten, handler, daemon
  <1>5. WokenIsDecided'
    BY DEF LInv, TypeOK, WokenIsDecided, HoldsToken, Holding, Check, TaskGoto,
         Unlisten, handler, entry
  <1>6. HoldsToken'
    BY DEF LInv, HoldsToken, Holding, Selecting, Falling, TypeOK, TaskStates, Check,
         TaskGoto, Unlisten, handler, entry, tokens
  <1>7. TokensAreReturned'
    <2>1. \A u \in Tasks : task[u] \in Holding <=> task'[u] \in Holding
      BY DEF LInv, TypeOK, Check, TaskGoto, Holding, Selecting, Falling
    <2>2. QED
      BY <2>1 DEF LInv, TokensAreReturned, Check, tokens
  <1>8. OnlyTaskOwnsToken'
    BY DEF LInv, OnlyTaskOwnsToken, OnlyTask, Holding, Selecting, Falling, TypeOK,
         Check, TaskGoto, Unlisten, handler, entry, tokens, surface
  <1>9. Carried'
    BY DEF LInv, Carried, TypeOK, Before, Ending, Check, TaskGoto, Unlisten, handler,
         entry
  <1>10. Dispatched'
    BY DEF LInv, Dispatched, TypeOK, Loud, Selecting, Check, TaskGoto, Unlisten,
         handler, entry
  <1>11. (RegistryTracksService /\ EndsDecided /\ BackfillsOthers /\ Served)'
    BY DEF LInv, RegistryTracksService, EndsDecided, BackfillsOthers, Served, Check,
         handler, entry, tokens
  <1>12. QED
    BY <1>1, <1>2, <1>3, <1>4, <1>5, <1>6, <1>7, <1>8, <1>9, <1>10, <1>11 DEF LInv

\* A token is taken that is free, or the id's already.
LEMMA AllocateStep ==
    ASSUME LInv, NEW t \in Tasks, Allocate(t) PROVE LInv'
  <1>1. TypeOK'
    <2>1. task' \in [Tasks -> TaskStates]
      BY DEF LInv, TypeOK, TaskStates, Holding, Selecting, Falling, Allocate, TaskGoto,
           Choices
    <2>2. token' \in [Tasks -> Tokens \cup {None}]
      BY DEF LInv, TypeOK, Allocate, Choices
    <2>3. owner' \in [Tokens -> Ids \cup {None}]
      BY TaskIsPair, LifecycleAssumption DEF LInv, TypeOK, IdOf, Falling, Allocate,
           TaskGoto, Choices
    <2>4. QED
      BY <2>1, <2>2, <2>3 DEF LInv, TypeOK, Allocate, handler, entry, tokens, surface,
           daemon
  <1>2. UntouchedBefore'
    BY DEF LInv, UntouchedBefore, Untouched, Allocate, TaskGoto, Choices, handler,
         entry
  <1>3. SpawnedOnce'
    BY DEF LInv, SpawnedOnce, ToCome, Allocate, TaskGoto, Choices, handler, entry,
         tokens
  <1>4. Told'
    BY DEF LInv, Told, Allocate, TaskGoto, Choices, handler
  <1>5. HoldsToken'
    BY DEF LInv, HoldsToken, TypeOK, TaskStates, Allocate, TaskGoto, Choices
  <1>6. TokensAreReturned'
    <2>1. PICK k \in Choices(IdOf(t)) :
            token' = [token EXCEPT ![t] = k] /\ owner' = [owner EXCEPT ![k] = IdOf(t)]
      BY DEF Allocate
    <2>2. k \in Tokens
      BY DEF Choices
    <2>3. task[t] \notin Holding /\ task' = [task EXCEPT ![t] = "prepare"]
      BY DEF Allocate, TaskGoto, Holding, Selecting, Falling
    <2>4. ASSUME NEW l \in Tokens, owner'[l] # None
          PROVE  \E u \in Tasks : task'[u] \in Holding /\ token'[u] = l /\ IdOf(u) = owner'[l]
      <3>1. CASE l = k
        BY <2>1, <2>2, <2>3, <3>1 DEF LInv, TypeOK, Holding, Selecting
      <3>2. CASE l # k
        <4>1. PICK u \in Tasks : task[u] \in Holding /\ token[u] = l /\ IdOf(u) = owner[l]
          BY <2>1, <2>4, <3>2 DEF LInv, TokensAreReturned
        <4>2. QED
          BY <2>1, <2>3, <3>2, <4>1
      <3>3. QED
        BY <3>1, <3>2
    <2>5. QED
      BY <2>4 DEF TokensAreReturned
  <1>7. OnlyTaskOwnsToken'
    BY TaskIsPair, LifecycleAssumption DEF LInv, OnlyTaskOwnsToken, OnlyTask,
         SpawnedOnce, ToCome, IdOf, Holding, Selecting, Falling, TypeOK, Allocate,
         TaskGoto, Choices, handler, entry, tokens, surface, daemon
  <1>8. Carried'
    BY DEF LInv, Carried, Allocate, TaskGoto, Choices, handler, entry
  <1>9. Dispatched'
    BY DEF LInv, Dispatched, Allocate, TaskGoto, Choices, handler, entry
  <1>10. (RegistryTracksService /\ EndsDecided /\ BackfillsOthers /\ WokenIsDecided /\ Served)'
    BY DEF LInv, RegistryTracksService, EndsDecided, BackfillsOthers, WokenIsDecided,
         Served, Allocate, handler, entry
  <1>11. QED
    BY <1>1, <1>2, <1>3, <1>4, <1>5, <1>6, <1>7, <1>8, <1>9, <1>10 DEF LInv

\* The question is sent.
LEMMA SendOnceStep ==
    ASSUME LInv, NEW t \in Tasks, SendOnce(t) PROVE LInv'
  <1>1. TypeOK'
    <2>1. task' \in [Tasks -> TaskStates]
      BY DEF LInv, TypeOK, TaskStates, Holding, Selecting, Falling, SendOnce, TaskGoto
    <2>2. QED
      BY <2>1 DEF LInv, TypeOK, SendOnce, handler, entry, tokens, surface, daemon
  <1>2. UntouchedBefore'
    BY DEF LInv, UntouchedBefore, Untouched, SendOnce, TaskGoto, handler, entry, tokens
  <1>3. SpawnedOnce'
    BY DEF LInv, SpawnedOnce, ToCome, SendOnce, TaskGoto, handler
  <1>4. Told'
    BY DEF LInv, Told, Selecting, TypeOK, Gates, Loud, SendOnce, TaskGoto, handler,
         entry
  <1>5. HoldsToken'
    BY DEF LInv, HoldsToken, TypeOK, TaskStates, SendOnce, TaskGoto, handler, entry,
         tokens, surface
  <1>6. TokensAreReturned'
    BY DEF LInv, TokensAreReturned, Holding, Selecting, Falling, TypeOK, SendOnce,
         TaskGoto, handler, entry, tokens
  <1>7. OnlyTaskOwnsToken'
    BY DEF LInv, OnlyTaskOwnsToken, OnlyTask, Holding, Selecting, Falling, TypeOK,
         SendOnce, TaskGoto, handler, entry, tokens, surface, daemon
  <1>8. Carried'
    BY DEF LInv, Carried, SendOnce, TaskGoto, handler, entry, tokens
  <1>9. Dispatched'
    BY DEF LInv, Dispatched, SendOnce, TaskGoto, handler, entry, tokens
  <1>10. (RegistryTracksService /\ EndsDecided /\ BackfillsOthers /\ WokenIsDecided /\ Served)'
    BY DEF LInv, RegistryTracksService, EndsDecided, BackfillsOthers, WokenIsDecided,
         Served, SendOnce, handler, entry
  <1>11. QED
    BY <1>1, <1>2, <1>3, <1>4, <1>5, <1>6, <1>7, <1>8, <1>9, <1>10 DEF LInv

\* Only a surface that is starting becomes ready.
LEMMA MarkReadyStep ==
    ASSUME LInv, NEW t \in Tasks, MarkReady(t) PROVE LInv'
  <1>1. TypeOK'
    <2>1. task' \in [Tasks -> TaskStates]
      BY DEF LInv, TypeOK, TaskStates, Holding, Selecting, Falling, MarkReady,
           TaskGoto, Unlisten
    <2>2. woken' \in [Tasks -> BOOLEAN]
      BY DEF LInv, TypeOK, MarkReady, TaskGoto, Unlisten
    <2>3. delivery' \in [Attempts -> Deliveries]
      BY DEF LInv, TypeOK, Deliveries, MarkReady, Unlisten
    <2>4. QED
      BY <2>1, <2>2, <2>3 DEF LInv, TypeOK, MarkReady, handler, tokens, surface, daemon
  <1>2. UntouchedBefore'
    BY DEF LInv, UntouchedBefore, Untouched, TypeOK, EndsDecided, Loud, MarkReady,
         TaskGoto, Unlisten, handler, entry
  <1>3. SpawnedOnce'
    BY DEF LInv, SpawnedOnce, ToCome, TypeOK, States, MarkReady, TaskGoto, Unlisten,
         handler, entry, tokens
  <1>4. Told'
    BY DEF LInv, Told, Selecting, TypeOK, Gates, Loud, MarkReady, TaskGoto, Unlisten,
         handler
  <1>5. WokenIsDecided'
    BY DEF LInv, WokenIsDecided, TypeOK, Gates, Loud, MarkReady, TaskGoto, Unlisten,
         handler, entry
  <1>6. HoldsToken'
    BY DEF LInv, HoldsToken, TypeOK, TaskStates, MarkReady, TaskGoto, Unlisten,
         handler, entry, tokens
  <1>7. TokensAreReturned'
    BY DEF LInv, TokensAreReturned, Holding, Selecting, Falling, TypeOK, MarkReady,
         TaskGoto, tokens, surface, daemon
  <1>8. OnlyTaskOwnsToken'
    BY DEF LInv, OnlyTaskOwnsToken, OnlyTask, Holding, Selecting, Falling, TypeOK,
         MarkReady, TaskGoto, Unlisten, handler, entry, tokens, surface
  <1>9. Carried'
    BY DEF LInv, Carried, TypeOK, Before, Ending, MarkReady, TaskGoto, Unlisten,
         handler, entry
  <1>10. Served'
    BY DEF LInv, Served, TypeOK, InService, Ending, MarkReady, TaskGoto, Unlisten,
         handler, entry
  <1>11. Dispatched'
    BY DEF LInv, Dispatched, TypeOK, Loud, Selecting, MarkReady, TaskGoto, Unlisten,
         handler, entry
  <1>12. (RegistryTracksService /\ EndsDecided /\ BackfillsOthers)'
    BY DEF LInv, RegistryTracksService, EndsDecided, BackfillsOthers, MarkReady,
         handler
  <1>13. QED
    BY <1>1, <1>2, <1>3, <1>4, <1>5, <1>6, <1>7, <1>8, <1>9, <1>10, <1>11, <1>12 DEF LInv

\* A person answers.
LEMMA AnswerStep ==
    ASSUME LInv, NEW t \in Tasks, Answer(t) PROVE LInv'
  <1>1. TypeOK'
    <2>1. task' \in [Tasks -> TaskStates]
      BY DEF LInv, TypeOK, TaskStates, Holding, Falling, Answer, TaskGoto, Decide
    <2>2. gate' \in [Attempts -> Gates]
      BY TaskIsPair DEF LInv, TypeOK, Gates, Loud, Answer, TaskGoto, Decide, Unlisten
    <2>3. woken' \in [Tasks -> BOOLEAN]
      BY DEF LInv, TypeOK, Answer, Unlisten
    <2>4. QED
      BY <2>1, <2>2, <2>3 DEF LInv, TypeOK, Answer, handler, tokens, surface, daemon
  <1>2. UntouchedBefore'
    BY DEF LInv, UntouchedBefore, Untouched, Answer, TaskGoto, Decide, Unlisten,
         handler
  <1>3. EndsDecided'
    BY DEF LInv, EndsDecided, Answer, TaskGoto, Decide, Unlisten, handler
  <1>4. SpawnedOnce'
    BY DEF LInv, SpawnedOnce, ToCome, Answer, TaskGoto, Decide, Unlisten, handler,
         entry
  <1>5. Told'
    BY DEF LInv, Told, Selecting, TypeOK, Gates, Loud, Answer, TaskGoto, Decide,
         Unlisten, handler, entry, tokens
  <1>6. WokenIsDecided'
    BY DEF LInv, WokenIsDecided, Answer, TaskGoto, Decide, Unlisten, handler
  <1>7. HoldsToken'
    BY DEF LInv, HoldsToken, TypeOK, TaskStates, Answer, TaskGoto, Decide, tokens,
         surface, daemon
  <1>8. TokensAreReturned'
    BY DEF LInv, TokensAreReturned, Holding, Falling, TypeOK, Answer, TaskGoto, entry,
         tokens, surface
  <1>9. OnlyTaskOwnsToken'
    BY DEF LInv, OnlyTaskOwnsToken, OnlyTask, Holding, Selecting, Falling, TypeOK,
         Answer, TaskGoto, Decide, Unlisten, handler, entry, tokens
  <1>10. Carried'
    BY DEF LInv, Carried, TypeOK, Before, Ending, Answer, TaskGoto, Decide, Unlisten,
         handler
  <1>11. Dispatched'
    BY DEF LInv, Dispatched, Answer, TaskGoto, Decide, Unlisten, handler
  <1>12. (RegistryTracksService /\ BackfillsOthers /\ Served)'
    BY DEF LInv, RegistryTracksService, BackfillsOthers, Served, Answer, handler
  <1>13. QED
    BY <1>1, <1>2, <1>3, <1>4, <1>5, <1>6, <1>7, <1>8, <1>9, <1>10, <1>11, <1>12 DEF LInv

\* The watch ends after the decision.
LEMMA WatchLostStep ==
    ASSUME LInv, NEW t \in Tasks, WatchLost(t) PROVE LInv'
  <1>1. TypeOK'
    <2>1. task' \in [Tasks -> TaskStates]
      BY DEF LInv, TypeOK, TaskStates, Holding, Falling, WatchLost, TaskGoto, Unlisten
    <2>2. woken' \in [Tasks -> BOOLEAN]
      BY DEF LInv, TypeOK, WatchLost, Unlisten
    <2>3. QED
      BY <2>1, <2>2 DEF LInv, TypeOK, WatchLost, handler, entry, tokens, surface,
           daemon
  <1>2. UntouchedBefore'
    BY DEF LInv, UntouchedBefore, Untouched, WatchLost, TaskGoto, Unlisten, handler,
         entry
  <1>3. SpawnedOnce'
    BY DEF LInv, SpawnedOnce, ToCome, WatchLost, TaskGoto, Unlisten, handler, entry,
         tokens
  <1>4. Told'
    BY DEF LInv, Told, Selecting, TypeOK, Gates, Loud, WatchLost, TaskGoto, Unlisten,
         handler
  <1>5. WokenIsDecided'
    BY DEF LInv, WokenIsDecided, WatchLost, TaskGoto, Unlisten, handler, entry
  <1>6. HoldsToken'
    BY DEF LInv, HoldsToken, TypeOK, TaskStates, WatchLost, TaskGoto, Unlisten,
         handler, entry, tokens
  <1>7. TokensAreReturned'
    BY DEF LInv, TokensAreReturned, Holding, Falling, TypeOK, WatchLost, TaskGoto,
         tokens, surface, daemon
  <1>8. OnlyTaskOwnsToken'
    BY DEF LInv, OnlyTaskOwnsToken, OnlyTask, Holding, Selecting, Falling, TypeOK,
         WatchLost, TaskGoto, Unlisten, handler, entry, tokens, surface
  <1>9. Carried'
    BY DEF LInv, Carried, WatchLost, TaskGoto, Unlisten, handler, entry
  <1>10. Dispatched'
    BY DEF LInv, Dispatched, WatchLost, TaskGoto, Unlisten, handler, entry
  <1>11. (RegistryTracksService /\ EndsDecided /\ BackfillsOthers /\ Served)'
    BY DEF LInv, RegistryTracksService, EndsDecided, BackfillsOthers, Served,
         WatchLost, handler, entry, tokens
  <1>12. QED
    BY <1>1, <1>2, <1>3, <1>4, <1>5, <1>6, <1>7, <1>8, <1>9, <1>10, <1>11 DEF LInv

\* A surface fails: a task is about to say so.
LEMMA FailStep ==
    ASSUME LInv, NEW t \in Tasks, Fail(t) PROVE LInv'
  <1>1. TypeOK'
    <2>1. task' \in [Tasks -> TaskStates]
      BY DEF LInv, TypeOK, TaskStates, Holding, Falling, Fail, Unlisten
    <2>2. woken' \in [Tasks -> BOOLEAN]
      BY DEF LInv, TypeOK, Fail, Unlisten
    <2>3. delivery' \in [Attempts -> Deliveries]
      BY TaskIsPair DEF LInv, TypeOK, Deliveries, Fail
    <2>4. QED
      BY <2>1, <2>2, <2>3 DEF LInv, TypeOK, Fail, handler, tokens, surface, daemon
  <1>2. UntouchedBefore'
    BY DEF LInv, UntouchedBefore, Untouched, EndsDecided, Selecting, Falling, Hearing,
         Holding, Fail, Unlisten, handler, entry, tokens
  <1>3. SpawnedOnce'
    BY DEF LInv, SpawnedOnce, ToCome, BackfillsOthers, Selecting, Falling, Hearing,
         Holding, Fail, Unlisten, handler, entry, tokens
  <1>4. Told'
    BY DEF LInv, Told, Selecting, TypeOK, Gates, Loud, Fail, Unlisten, handler, entry
  <1>5. WokenIsDecided'
    BY DEF LInv, WokenIsDecided, Fail, Unlisten
  <1>6. HoldsToken'
    BY DEF LInv, HoldsToken, Holding, Selecting, Fail, Unlisten, handler, entry,
         tokens, surface
  <1>7. TokensAreReturned'
    BY DEF LInv, TokensAreReturned, Holding, Falling, TypeOK, Fail, Unlisten, handler,
         entry, tokens
  <1>8. OnlyTaskOwnsToken'
    BY DEF LInv, OnlyTaskOwnsToken, OnlyTask, Holding, Selecting, Falling, TypeOK,
         Fail, tokens, surface, daemon
  <1>9. Carried'
    BY DEF LInv, Carried, TypeOK, Before, Ending, Fail, Unlisten, handler, entry,
         tokens
  <1>10. Served'
    BY DEF LInv, Served, Fail, Unlisten, handler, entry, tokens
  <1>11. Dispatched'
    BY DEF LInv, Dispatched, Fail, Unlisten, handler, entry, tokens
  <1>12. (RegistryTracksService /\ EndsDecided /\ BackfillsOthers)'
    BY DEF LInv, RegistryTracksService, EndsDecided, BackfillsOthers, Fail, handler
  <1>13. QED
    BY <1>1, <1>2, <1>3, <1>4, <1>5, <1>6, <1>7, <1>8, <1>9, <1>10, <1>11, <1>12 DEF LInv

\* It says so.
LEMMA FallBackStep ==
    ASSUME LInv, NEW t \in Tasks, FallBack(t) PROVE LInv'
  <1>1. TypeOK'
    <2>1. task' \in [Tasks -> TaskStates]
      BY DEF LInv, TypeOK, TaskStates, Holding, Falling, FallBack, TaskGoto, Decide
    <2>2. gate' \in [Attempts -> Gates]
      BY TaskIsPair DEF LInv, TypeOK, Gates, Loud, FallBack, TaskGoto, Decide,
           NotifyWaiters
    <2>3. woken' \in [Tasks -> BOOLEAN]
      BY DEF FallBack, NotifyWaiters
    <2>4. QED
      BY <2>1, <2>2, <2>3 DEF LInv, TypeOK, FallBack, handler, tokens, surface, daemon
  <1>2. UntouchedBefore'
    BY DEF LInv, UntouchedBefore, Untouched, FallBack, TaskGoto, Decide, NotifyWaiters,
         handler
  <1>3. EndsDecided'
    BY DEF LInv, EndsDecided, FallBack, TaskGoto, Decide, NotifyWaiters, handler
  <1>4. SpawnedOnce'
    BY DEF LInv, SpawnedOnce, ToCome, FallBack, TaskGoto, Decide, NotifyWaiters,
         handler, entry
  <1>5. Told'
    BY DEF LInv, Told, Selecting, TypeOK, Gates, Loud, FallBack, TaskGoto, Decide,
         NotifyWaiters, handler, entry, tokens
  <1>6. WokenIsDecided'
    BY TaskIsPair, LifecycleAssumption DEF LInv, WokenIsDecided, TypeOK, Gates, Loud,
         FallBack, TaskGoto, Decide, NotifyWaiters, handler, daemon
  <1>7. HoldsToken'
    BY DEF LInv, HoldsToken, TypeOK, TaskStates, FallBack, TaskGoto, Decide, tokens,
         surface, daemon
  <1>8. TokensAreReturned'
    BY DEF LInv, TokensAreReturned, Holding, Falling, TypeOK, FallBack, TaskGoto,
         entry, tokens, surface
  <1>9. OnlyTaskOwnsToken'
    BY DEF LInv, OnlyTaskOwnsToken, OnlyTask, Holding, Selecting, Falling, TypeOK,
         FallBack, TaskGoto, Decide, NotifyWaiters, handler, entry, tokens
  <1>10. Carried'
    BY DEF LInv, Carried, TypeOK, Before, Ending, FallBack, TaskGoto, Decide,
         NotifyWaiters, handler
  <1>11. Dispatched'
    BY DEF LInv, Dispatched, FallBack, TaskGoto, Decide, NotifyWaiters, handler
  <1>12. (RegistryTracksService /\ BackfillsOthers /\ Served)'
    BY DEF LInv, RegistryTracksService, BackfillsOthers, Served, FallBack, handler
  <1>13. QED
    BY <1>1, <1>2, <1>3, <1>4, <1>5, <1>6, <1>7, <1>8, <1>9, <1>10, <1>11, <1>12 DEF LInv

\* A task that was told goes to its end.
LEMMA InterruptedStep ==
    ASSUME LInv, NEW t \in Tasks, Interrupted(t) PROVE LInv'
  <1>1. TypeOK'
    <2>1. task' \in [Tasks -> TaskStates]
      BY DEF LInv, TypeOK, TaskStates, Holding, Falling, Interrupted, Unlisten
    <2>2. woken' \in [Tasks -> BOOLEAN]
      BY DEF LInv, TypeOK, Interrupted, Unlisten
    <2>3. QED
      BY <2>1, <2>2 DEF LInv, TypeOK, Interrupted, handler, entry, tokens, surface,
           daemon
  <1>2. UntouchedBefore'
    BY DEF LInv, UntouchedBefore, Untouched, EndsDecided, Selecting, Falling, Hearing,
         Holding, Interrupted, Unlisten, handler, entry, tokens
  <1>3. SpawnedOnce'
    BY DEF LInv, SpawnedOnce, ToCome, BackfillsOthers, Selecting, Falling, Hearing,
         Holding, Interrupted, Unlisten, handler, entry, tokens
  <1>4. Told'
    BY DEF LInv, Told, Selecting, TypeOK, Gates, Loud, Interrupted, Unlisten, handler,
         entry
  <1>5. WokenIsDecided'
    BY DEF LInv, WokenIsDecided, Interrupted, Unlisten, handler, entry, tokens
  <1>6. HoldsToken'
    BY DEF LInv, HoldsToken, Holding, Selecting, Interrupted, Unlisten, handler, entry,
         tokens, surface
  <1>7. TokensAreReturned'
    BY DEF LInv, TokensAreReturned, Holding, Falling, TypeOK, Interrupted, Unlisten,
         handler, entry, tokens
  <1>8. OnlyTaskOwnsToken'
    BY DEF LInv, OnlyTaskOwnsToken, OnlyTask, Holding, Selecting, Falling, TypeOK,
         Interrupted, tokens, surface, daemon
  <1>9. Carried'
    BY DEF LInv, Carried, WokenIsDecided, EndsDecided, Ending, Interrupted, Unlisten,
         handler, entry, tokens
  <1>10. Dispatched'
    BY DEF LInv, Dispatched, Interrupted, Unlisten, handler, entry, tokens
  <1>11. (RegistryTracksService /\ EndsDecided /\ BackfillsOthers /\ Served)'
    BY DEF LInv, RegistryTracksService, EndsDecided, BackfillsOthers, Served,
         Interrupted, handler, entry, tokens
  <1>12. QED
    BY <1>1, <1>2, <1>3, <1>4, <1>5, <1>6, <1>7, <1>8, <1>9, <1>10, <1>11 DEF LInv

\* A task gives its token back.
LEMMA ReleaseStep ==
    ASSUME LInv, NEW t \in Tasks, Release(t) PROVE LInv'
  <1>1. TypeOK'
    <2>1. task' \in [Tasks -> TaskStates]
      BY DEF LInv, TypeOK, TaskStates, Release, TaskGoto
    <2>2. token' \in [Tasks -> Tokens \cup {None}]
      BY DEF LInv, TypeOK, Release
    <2>3. owner' \in [Tokens -> Ids \cup {None}]
      BY TaskIsPair DEF LInv, TypeOK, HoldsToken, Holding, Falling, Release, TaskGoto
    <2>4. QED
      BY <2>1, <2>2, <2>3 DEF LInv, TypeOK, Release, handler, entry, tokens, surface,
           daemon
  <1>2. UntouchedBefore'
    BY DEF LInv, UntouchedBefore, Untouched, Release, TaskGoto, handler, entry, tokens
  <1>3. SpawnedOnce'
    BY DEF LInv, SpawnedOnce, ToCome, Release, TaskGoto, handler
  <1>4. Told'
    BY DEF LInv, Told, Selecting, TypeOK, Gates, Loud, Release, TaskGoto, handler,
         entry
  <1>5. HoldsToken'
    BY DEF LInv, HoldsToken, Holding, Selecting, Falling, TypeOK, TaskStates, Release,
         TaskGoto, handler
  <1>6. TokensAreReturned'
    BY DEF LInv, TokensAreReturned, TypeOK, Release, TaskGoto
  <1>7. OnlyTaskOwnsToken'
    BY DEF LInv, OnlyTaskOwnsToken, OnlyTask, Holding, Selecting, Falling, TypeOK,
         Release, TaskGoto, handler, entry
  <1>8. Carried'
    BY DEF LInv, Carried, Release, TaskGoto, handler, entry, tokens
  <1>9. Dispatched'
    BY DEF LInv, Dispatched, Release, TaskGoto, handler, entry, tokens
  <1>10. (RegistryTracksService /\ EndsDecided /\ BackfillsOthers /\ WokenIsDecided /\ Served)'
    BY DEF LInv, RegistryTracksService, EndsDecided, BackfillsOthers, WokenIsDecided,
         Served, Release, handler, entry
  <1>11. QED
    BY <1>1, <1>2, <1>3, <1>4, <1>5, <1>6, <1>7, <1>8, <1>9, <1>10 DEF LInv

\* The daemon begins to stop.
LEMMA ShutdownStep ==
    ASSUME LInv, Shutdown PROVE LInv'
  <1>1. TypeOK'
    <2>1. phase' \in {"serving", "stopping", "exited"}
      BY DEF Shutdown
    <2>2. sweep' \in SUBSET Attempts
      BY DEF Shutdown
    <2>3. QED
      BY <2>1 DEF LInv, TypeOK, Shutdown, handler, entry, tokens, surface, daemon
  <1>2. (RegistryTracksService /\ UntouchedBefore /\ EndsDecided /\ SpawnedOnce
         /\ BackfillsOthers /\ Told /\ WokenIsDecided /\ HoldsToken /\ TokensAreReturned
         /\ OnlyTaskOwnsToken /\ Carried /\ Served /\ Dispatched)'
    BY DEF LInv, RegistryTracksService, Untouched, UntouchedBefore, EndsDecided,
         ToCome, SpawnedOnce, BackfillsOthers, Told, WokenIsDecided, HoldsToken, IdOf,
         TokensAreReturned, OnlyTask, OnlyTaskOwnsToken, Carried, Served, Dispatched,
         Shutdown, handler, entry, tokens, surface, daemon
  <1>3. QED
    BY <1>1, <1>2 DEF LInv

\* The process ends and nothing is left.
LEMMA ExitStep ==
    ASSUME LInv, Exit PROVE LInv'
  <1>1. TypeOK'
    <2>1. phase' \in {"serving", "stopping", "exited"}
      BY DEF Exit
    <2>2. pc' \in [Attempts -> States]
      BY DEF LInv, TypeOK, States, Exit
    <2>3. todo' \in [Attempts -> SUBSET Attempts]
      BY DEF Exit
    <2>4. picked' \in [Attempts -> Attempts \cup {None}]
      BY DEF Exit
    <2>5. task' \in [Tasks -> TaskStates]
      BY DEF TaskStates, Exit
    <2>6. woken' \in [Tasks -> BOOLEAN]
      BY DEF Exit
    <2>7. token' \in [Tasks -> Tokens \cup {None}]
      BY DEF Exit
    <2>8. owner' \in [Tokens -> Ids \cup {None}]
      BY DEF Exit
    <2>9. registry' \in [Ids -> Attempts \cup {None}]
      BY DEF Exit
    <2>10. QED
      BY <2>2, <2>4, <2>5, <2>6, <2>7 DEF LInv, TypeOK, Exit
  <1>2. RegistryTracksService'
    BY TaskIsPair, LifecycleAssumption DEF RegistryTracksService, InService, Waiting,
         Ending, Exit, handler, daemon
  <1>3. UntouchedBefore'
    BY DEF LInv, UntouchedBefore, Untouched, BackfillsOthers, Before, Loud, Exit,
         handler
  <1>4. EndsDecided'
    BY DEF LInv, EndsDecided, Decided, Exit, handler
  <1>5. SpawnedOnce'
    BY TaskIsPair, LifecycleAssumption DEF LInv, SpawnedOnce, ToCome, Unspawned,
         Before, BackfillsOthers, Exit, handler, entry
  <1>6. BackfillsOthers'
    BY DEF BackfillsOthers, Exit, handler
  <1>7. Told'
    BY DEF Told, Selecting, TypeOK, Gates, Loud, Exit
  <1>8. WokenIsDecided'
    BY DEF WokenIsDecided, Exit, handler
  <1>9. HoldsToken'
    BY DEF HoldsToken, Holding, Selecting, Falling, TypeOK, TaskStates, Exit, handler,
         entry
  <1>10. TokensAreReturned'
    BY DEF TokensAreReturned, Exit, handler
  <1>11. OnlyTaskOwnsToken'
    BY DEF OnlyTaskOwnsToken, Holding, Selecting, Falling, TypeOK, Exit
  <1>12. Carried'
    BY DEF LInv, Carried, UntouchedBefore, Untouched, ToCome, Decided, TypeOK, Before,
         States, InService, Waiting, Ending, Exit, handler
  <1>13. Served'
    BY DEF LInv, Served, Exit, handler
  <1>14. Dispatched'
    BY TaskIsPair, LifecycleAssumption DEF LInv, Dispatched, Exit, handler, daemon
  <1>15. QED
    BY <1>1, <1>2, <1>3, <1>4, <1>5, <1>6, <1>7, <1>8, <1>9, <1>10, <1>11, <1>12, <1>13, <1>14 DEF LInv

-----------------------------------------------------------------------------
\* Every step of the daemon, its callers and imsg keeps the invariant.
LEMMA StepLInv == LInv /\ [Next]_vars => LInv'
  <1> SUFFICES ASSUME LInv, [Next]_vars PROVE LInv'
    OBVIOUS
  <1>1. ASSUME NEW a \in Attempts, Admit(a) \/ Disconnected(a) \/ Handle(a) \/ Expire(a)
        PROVE  LInv'
    BY <1>1, AdmitStep, CreateStep, AcceptStep, DispatchStep, DisconnectedStep, ReceiveStep,
       ExpireStep, ReplyStep, ConsiderStep, BackfillStep, BackfilledStep, CloseStep,
       NotifyStep, RemoveStep
       DEF Handle
  <1>2. ASSUME NEW t \in Tasks, RunTask(t) \/ Channel(t) PROVE LInv'
    BY <1>2, EnableStep, CheckStep, AllocateStep, SendOnceStep, MarkReadyStep, AnswerStep,
       WatchLostStep, FailStep, FallBackStep, InterruptedStep, ReleaseStep
       DEF RunTask, Channel
  <1>3. CASE Shutdown \/ Stop
    BY <1>3, ShutdownStep, SweepStep, ExitStep DEF Stop
  <1>4. CASE UNCHANGED vars
    BY <1>4 DEF LInv, TypeOK, RegistryTracksService, UntouchedBefore, Untouched, EndsDecided,
         SpawnedOnce, ToCome, BackfillsOthers, Told, WokenIsDecided, HoldsToken,
         TokensAreReturned, OnlyTaskOwnsToken, OnlyTask, Carried, Served, Dispatched, vars,
         handler, entry, surface, tokens, daemon
  <1>5. QED
    BY <1>1, <1>2, <1>3, <1>4 DEF Next, Runtime

\* The inductive invariant holds in every run of the daemon, whatever is fair.
THEOREM LifecycleInvariance == Safe => []LInv
  BY InitLInv, StepLInv, PTL DEF Safe

\* Every variable keeps its type.
THEOREM TypeCorrect == Safe => []TypeOK
  BY LifecycleInvariance, PTL DEF LInv

\* create_confirm and remove_confirm: the registry holds exactly the requests in
\* service, for any number of connections and retries.
THEOREM RegistryTracked == Safe => []RegistryTracksService
  BY LifecycleInvariance, PTL DEF LInv

\* notify_waiters leaves no permit, and yet no iMessage task misses the end of its
\* request: it listens before it looks at the terminal state, and every end of a
\* request decides first and notifies then.
THEOREM NobodyDeaf == Safe => []NoDeafTask
  <1>1. LInv => NoDeafTask
    BY DEF LInv, Told, NoDeafTask
  <1>2. QED
    BY <1>1, LifecycleInvariance, PTL

\* start_imessage releases on each of its ways out: a token that is taken belongs to a
\* task that will give it back.
THEOREM TokensReturned == Safe => []TokensAreReturned
  BY LifecycleInvariance, PTL DEF LInv

\* TokenRegistry::release compares the owner, so the only task of a request keeps its
\* token to its end, whatever the tasks of other requests do.
THEOREM TokenOwned == Safe => []OnlyTaskOwnsToken
  BY LifecycleInvariance, PTL DEF LInv

\* mark_failed and fallback_no_available_channel: a request whose tasks are gone is
\* decided, and its caller does not wait for the deadline.
THEOREM SurfaceAwaited == Safe => []WaitsForSurface
  <1>1. ASSUME LInv, NEW a \in Attempts, pc[a] = "await",
               \A t \in TasksOf(a) : task[t] \in {"none", "done"}
        PROVE  gate[a] # "undecided"
    <2>1. SUFFICES ASSUME gate[a] = "undecided" PROVE FALSE
      OBVIOUS
    <2>2. \A t \in Tasks : t[1] = a => task[t] \in {"none", "done"}
      BY <1>1, TaskIsPair DEF TasksOf, Tasks
    <2>3. <<a, a>> \in Tasks /\ task[<<a, a>>] # "none"
      BY <1>1, <2>1, TaskIsPair DEF LInv, Dispatched
    <2>4. delivery[a] \in {"absent", "starting", "ready", "failed", "terminal"}
      BY <1>1 DEF LInv, TypeOK, Deliveries
    <2>5. QED
      BY <1>1, <2>1, <2>2, <2>3, <2>4, TaskIsPair DEF LInv, Carried
  <1>2. LInv => WaitsForSurface
    BY <1>1 DEF WaitsForSurface
  <1>3. QED
    BY <1>2, LifecycleInvariance, PTL

-----------------------------------------------------------------------------
(***************************************************************************)
(* One send for a question, when no winner switches the channel            *)
(***************************************************************************)

\* No handler backfills, so a request has the task of its own handler alone.
OwnTasksOnly ==
    /\ \A a \in Attempts : pc[a] # "backfill" /\ picked[a] = None
    /\ \A t \in Tasks : t[1] # t[2] => task[t] = "none"

\* Without auto activation no step leads to a backfill.
LEMMA OwnTasksStep ==
    ASSUME LInv, ~AutoActivation, OwnTasksOnly, [Next]_vars
    PROVE  OwnTasksOnly'
  <1> USE DEF handler, entry, surface, tokens, daemon, Goto, TaskGoto
  <1>t. /\ pc \in [Attempts -> States] /\ picked \in [Attempts -> Attempts \cup {None}]
        /\ task \in [Tasks -> TaskStates]
    BY DEF LInv, TypeOK
  <1>1. ASSUME NEW a \in Attempts, Dispatch(a) PROVE OwnTasksOnly'
    <2>1. /\ pc' = [pc EXCEPT ![a] = "await"] /\ UNCHANGED picked
          /\ task' = [task EXCEPT ![<<a, a>>] = "spawned"]
      BY <1>1 DEF Dispatch
    <2>2. \A t \in Tasks : t[1] # t[2] => t # <<a, a>>
      BY TaskIsPair
    <2>3. QED
      BY <1>t, <2>1, <2>2 DEF OwnTasksOnly
  <1>2. ASSUME NEW a \in Attempts, Admit(a) \/ Disconnected(a) \/ Expire(a) \/ Handle(a),
               ~Dispatch(a)
        PROVE  OwnTasksOnly'
    <2>1. ~Consider(a) /\ ~Backfill(a) /\ ~Backfilled(a)
      BY DEF OwnTasksOnly, Consider, Backfill, Backfilled
    <2>2. UNCHANGED <<picked, task>>
      BY <1>2, <2>1 DEF Admit, Disconnected, Expire, Handle, Create, Accept, Receive, Reply,
         Close, Notify, Remove
    <2>3. \E to \in States \ {"backfill"} : pc' = [pc EXCEPT ![a] = to]
      BY <1>2, <2>1 DEF Admit, Disconnected, Expire, Handle, Create, Accept, Receive, Reply,
         Close, Notify, Remove, States, InService, Waiting, Ending
    <2>4. QED
      BY <1>t, <2>2, <2>3 DEF OwnTasksOnly
  <1>3. ASSUME NEW t \in Tasks, RunTask(t) \/ Channel(t) PROVE OwnTasksOnly'
    <2>1. UNCHANGED <<pc, picked>> /\ task[t] # "none"
      BY <1>3 DEF RunTask, Channel, Enable, Check, Allocate, FallBack, Interrupted, Release,
         SendOnce, MarkReady, Answer, WatchLost, Fail, Selecting
    <2>2. \E to \in TaskStates : task' = [task EXCEPT ![t] = to]
      BY <1>3 DEF RunTask, Channel, Enable, Check, Allocate, FallBack, Interrupted, Release,
         SendOnce, MarkReady, Answer, WatchLost, Fail, TaskStates, Holding, Selecting, Falling
    <2>3. QED
      BY <1>t, <2>1, <2>2 DEF OwnTasksOnly
  <1>4. CASE Shutdown \/ (\E a \in Attempts : Sweep(a)) \/ UNCHANGED vars
    <2>1. UNCHANGED <<pc, picked, task>>
      BY <1>4 DEF Shutdown, Sweep, vars
    <2>2. QED
      BY <2>1 DEF OwnTasksOnly
  <1>5. CASE Exit
    <2>1. /\ pc' = [a \in Attempts |->
                      IF pc[a] \in InService \cup {"admitted"} THEN "lost" ELSE pc[a]]
          /\ picked' = [a \in Attempts |-> None]
          /\ task' = [t \in Tasks |-> IF task[t] = "none" THEN "none" ELSE "done"]
      BY <1>5 DEF Exit
    <2>2. QED
      BY <2>1 DEF OwnTasksOnly
  <1>6. QED
    BY <1>1, <1>2, <1>3, <1>4, <1>5 DEF Next, Runtime, Stop

\* config.channels.auto_activation: when it is off, one task at most has sent a request, for
\* any number of connections, ids and failures (a retry that comes after the first attempt is
\* over is a request of its own).  What sends a request twice is the backfill alone.
THEOREM SentOnceWithoutBackfill == ~AutoActivation => (Safe => []AtMostOneSend)
  <1> SUFFICES ASSUME ~AutoActivation PROVE Safe => []AtMostOneSend
    OBVIOUS
  <1>1. Init => OwnTasksOnly
    BY DEF Init, OwnTasksOnly
  <1>2. LInv /\ OwnTasksOnly /\ [Next]_vars => OwnTasksOnly'
    BY OwnTasksStep
  <1>3. OwnTasksOnly => AtMostOneSend
    BY TaskIsPair DEF OwnTasksOnly, AtMostOneSend
  <1>4. QED
    BY <1>1, <1>2, <1>3, LifecycleInvariance, PTL DEF Safe
=============================================================================
