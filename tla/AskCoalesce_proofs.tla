-------------------------- MODULE AskCoalesce_proofs --------------------------
(***************************************************************************)
(* For any number of callers of one question, whatever their handlers do   *)
(* between two steps of each other: the count a handler decides on is the  *)
(* number of connections that wait for its request, and only an answer is  *)
(* replayed.                                                               *)
(*                                                                         *)
(* WaitersCounted is not inductive: it also takes that a registered        *)
(* request is one whose handler runs, that nobody is attached to a request *)
(* before it is made, and that a handler counts its caller out once.       *)
(***************************************************************************)
EXTENDS AskCoalesce, FiniteSetTheorems, TLAPS

\* The stages of a handler that has made a request of its own, and of one that has not.
Own == {"created", "loop", "waited", "select", "withdraw", "told", "final", "leaving"}
Other == {"new", "missed", "fresh", "found", "pushed", "attached", "last"}

CoalesceType ==
    /\ pc \in [Callers -> Own \cup Other \cup {"done"}]
    /\ left \in [Callers -> BOOLEAN]
    /\ entry \in [Callers -> Callers \cup {None}]
    /\ waiters \in [Callers -> Nat]
    /\ gate \in [Callers -> {"undecided", "answered", "dismissed", "cancelled"}]
    /\ outcome \in [Callers -> {"none", "finalizing", "sent", "taken"}]
    /\ replay \in Callers \cup {None}
    /\ registered \subseteq Callers

RegisteredRuns == \A e \in registered : pc[e] \in Own
AttachedToMade == \A c \in Callers : entry[c] # None => pc[entry[c]] \in Own \cup {"done"}
HasEntry == \A c \in Callers : pc[c] \in {"found", "pushed", "attached"} => entry[c] # None
LeftIsOwn == \A e \in Callers : left[e] => pc[e] \in Own \cup {"done"}
AttachedFinite == \A e \in Callers : IsFiniteSet(Attached(e))

CInv ==
    /\ CoalesceType /\ RegisteredRuns /\ AttachedToMade /\ HasEntry /\ LeftIsOwn
    /\ AttachedFinite /\ WaitersCounted

\* It holds at the start: nobody is attached.
LEMMA InitCInv == Init => CInv
  <1> SUFFICES ASSUME Init PROVE CInv
    OBVIOUS
  <1>1. \A e \in Callers : Attached(e) = {}
    BY DEF Init, Attached
  <1>2. AttachedFinite
    BY <1>1, FS_EmptySet DEF AttachedFinite
  <1>3. WaitersCounted
    BY DEF Init, WaitersCounted, Submitting
  <1>4. QED
    BY <1>2, <1>3 DEF Init, CInv, CoalesceType, RegisteredRuns, AttachedToMade, HasEntry, LeftIsOwn,
                      Own, Other

\* A step that attaches and detaches nobody, and leaves the counts alone.
LEMMA QuietStep ==
    ASSUME CInv, CoalesceType', UNCHANGED <<left, waiters>>,
           \A e \in Callers : Attached(e)' = Attached(e),
           \A e \in Callers : pc'[e] \in Own => pc[e] \in Own
    PROVE  AttachedFinite' /\ WaitersCounted'
  BY DEF CInv, AttachedFinite, WaitersCounted, Submitting, Own
-----------------------------------------------------------------------------
(***************************************************************************)
(* Steps of a handler                                                      *)
(***************************************************************************)

\* The steps in which a handler goes from one stage to the next and nothing is counted.
Quiet(c) ==
    \/ Find(c) \/ Push(c) \/ Replay(c) \/ Accept(c) \/ Loop(c) \/ Select(c) \/ WaitersGone(c)
    \/ Withdraw(c) \/ Receive(c) \/ Remember(c) \/ Final(c) \/ Remove(c) \/ WakeSubmitter(c)

\* They attach nobody and count nobody.
LEMMA QuietKeeps ==
    ASSUME CInv, NEW c \in Callers, Quiet(c) PROVE CInv'
  <1> USE DEF CInv, CoalesceType, Own, Other
  <1>1. CASE Find(c)
    <2>1. CoalesceType'
      BY <1>1 DEF Find, Goto, InFlight, request, coordinator
    <2>2. (RegisteredRuns /\ HasEntry /\ LeftIsOwn)'
      BY <1>1, CoalesceAssumption DEF Find, Goto, InFlight, RegisteredRuns, HasEntry, LeftIsOwn
    <2>3. AttachedToMade'
      BY <1>1, CoalesceAssumption DEF Find, Goto, InFlight, RegisteredRuns, AttachedToMade
    <2>4. \A e \in Callers : Attached(e)' = Attached(e)
      BY <1>1 DEF Find, Goto, Attached
    <2>5. QED
      BY <1>1, <2>1, <2>2, <2>3, <2>4, QuietStep DEF Find, Goto, request
  <1>2. CASE ~Find(c)
    <2>0. /\ UNCHANGED <<left, waiters, entry>>
          /\ registered' \subseteq registered
      BY <1>2 DEF Quiet, Push, Replay, Accept, Loop, Select, WaitersGone, Withdraw, Receive,
            Remember, Final, Remove, WakeSubmitter, request, follower, registry
    <2>1. CoalesceType'
      BY <1>2, <2>0 DEF Quiet, Push, Replay, Accept, Loop, Select, WaitersGone, Withdraw, Receive,
            Remember, Final, Remove, WakeSubmitter, Goto, request, follower, registry, coordinator
    <2>2. /\ \A e \in Callers \ {c} : pc'[e] = pc[e]
          /\ pc[c] \in Own => pc'[c] \in Own \cup {"done"}
          /\ pc'[c] \in Own => pc[c] \in Own
          /\ pc[c] \notin {"attached", "done"} /\ pc'[c] # "attached"
          /\ pc'[c] \in {"found", "pushed"} => pc[c] = "found"
      BY <1>2 DEF Quiet, Push, Replay, Accept, Loop, Select, WaitersGone, Withdraw, Receive,
            Remember, Final, Remove, WakeSubmitter, Goto
    <2>3. pc[c] \in Own /\ pc'[c] = "done" => registered' = registered \ {c}
      BY <1>2 DEF Quiet, Push, Replay, Accept, Loop, Select, WaitersGone, Withdraw, Receive,
            Remember, Final, Remove, WakeSubmitter, Goto
    <2>4. RegisteredRuns' /\ HasEntry' /\ LeftIsOwn'
      <3>1. RegisteredRuns'
        BY <2>0, <2>2, <2>3 DEF RegisteredRuns
      <3>2. HasEntry'
        BY <2>0, <2>2 DEF HasEntry
      <3>3. LeftIsOwn'
        BY <2>0, <2>2 DEF LeftIsOwn
      <3>4. QED
        BY <3>1, <3>2, <3>3
    <2>5. AttachedToMade'
      BY <2>0, <2>2, CoalesceAssumption DEF AttachedToMade
    <2>6. \A e \in Callers : Attached(e)' = Attached(e)
      BY <2>0, <2>2 DEF Attached
    <2>7. QED
      BY <2>0, <2>1, <2>2, <2>4, <2>5, <2>6, QuietStep
  <1>3. QED
    BY <1>1, <1>2

\* A follower is counted.
LEMMA CountKeeps ==
    ASSUME CInv, NEW c \in Callers, Count(c) PROVE CInv'
  <1> USE DEF CInv, CoalesceType, Own, Other
  <1>1. PICK e \in Callers : e = entry[c] /\ pc[c] = "pushed"
    BY DEF Count, Goto, HasEntry
  <1>2. CoalesceType'
    BY <1>1 DEF Count, Goto, follower, coordinator
  <1>3. (RegisteredRuns /\ HasEntry /\ LeftIsOwn /\ AttachedToMade)'
    BY <1>1, CoalesceAssumption
       DEF Count, Goto, follower, RegisteredRuns, HasEntry, LeftIsOwn, AttachedToMade
  <1>4. Attached(e)' = Attached(e) \cup {c} /\ c \notin Attached(e)
    BY <1>1 DEF Count, Goto, follower, Attached
  <1>5. \A f \in Callers \ {e} : Attached(f)' = Attached(f)
    BY <1>1 DEF Count, Goto, follower, Attached
  <1>6. /\ IsFiniteSet(Attached(e)')
        /\ Cardinality(Attached(e)') = Cardinality(Attached(e)) + 1
        /\ Cardinality(Attached(e)) \in Nat
    <2>1. IsFiniteSet(Attached(e))
      BY <1>1 DEF AttachedFinite
    <2>2. QED
      BY <1>4, <2>1, FS_AddElement, FS_CardinalityType
  <1>7. AttachedFinite'
    BY <1>5, <1>6 DEF AttachedFinite
  <1>8. WaitersCounted'
    <2>1. \A f \in Callers : pc'[f] \in Own => pc[f] \in Own /\ f # c
      BY <1>1 DEF Count, Goto
    <2>2. ASSUME NEW f \in Callers, Submitting(f)'
          PROVE  waiters'[f] = Cardinality(Attached(f)') + (IF left'[f] THEN 0 ELSE 1)
      <3>1. waiters[f] = Cardinality(Attached(f)) + (IF left[f] THEN 0 ELSE 1)
        BY <2>1, <2>2 DEF Submitting, WaitersCounted
      <3>2. left' = left /\ waiters' = [waiters EXCEPT ![e] = @ + 1]
        BY <1>1 DEF Count
      <3>3. CASE f = e
        BY <1>1, <1>6, <3>1, <3>2, <3>3
      <3>4. CASE f # e
        BY <1>1, <1>5, <3>1, <3>2, <3>4
      <3>5. QED
        BY <3>3, <3>4
    <2>3. QED
      BY <2>2 DEF WaitersCounted
  <1>9. QED
    BY <1>2, <1>3, <1>7, <1>8

\* A follower is counted out.  The subtraction does not saturate while the request runs.
LEMMA LeaveKeeps ==
    ASSUME CInv, NEW c \in Callers, Leave(c) PROVE CInv'
  <1> USE DEF CInv, CoalesceType, Own, Other
  <1>1. PICK e \in Callers : e = entry[c] /\ pc[c] = "attached" /\ pc'[c] \in {"last", "done"}
    BY DEF Leave, HasEntry
  <1>2. CoalesceType'
    BY <1>1 DEF Leave, CountDown, follower, registry, coordinator
  <1>3. (RegisteredRuns /\ HasEntry /\ LeftIsOwn /\ AttachedToMade)'
    BY <1>1, CoalesceAssumption
       DEF Leave, follower, registry, RegisteredRuns, HasEntry, LeftIsOwn, AttachedToMade
  <1>4. Attached(e)' = Attached(e) \ {c} /\ c \in Attached(e)
    BY <1>1 DEF Leave, follower, Attached
  <1>5. \A f \in Callers \ {e} : Attached(f)' = Attached(f)
    BY <1>1 DEF Leave, follower, Attached
  <1>6. /\ IsFiniteSet(Attached(e)')
        /\ Cardinality(Attached(e)') = Cardinality(Attached(e)) - 1
        /\ Cardinality(Attached(e)) \in Nat /\ Cardinality(Attached(e)') \in Nat
    BY <1>1, <1>4, FS_RemoveElement, FS_CardinalityType DEF AttachedFinite
  <1>7. AttachedFinite'
    BY <1>5, <1>6 DEF AttachedFinite
  <1>8. WaitersCounted'
    <2>1. \A f \in Callers : pc'[f] \in Own => pc[f] \in Own
      BY <1>1 DEF Leave
    <2>2. ASSUME NEW f \in Callers, Submitting(f)'
          PROVE  waiters'[f] = Cardinality(Attached(f)') + (IF left'[f] THEN 0 ELSE 1)
      <3>1. waiters[f] = Cardinality(Attached(f)) + (IF left[f] THEN 0 ELSE 1)
        BY <2>1, <2>2 DEF Submitting, WaitersCounted
      <3>2. left' = left /\ waiters' = [waiters EXCEPT ![e] = IF @ = 0 THEN 0 ELSE @ - 1]
        BY <1>1 DEF Leave, CountDown
      <3>3. CASE f = e
        BY <1>1, <1>6, <3>1, <3>2, <3>3
      <3>4. CASE f # e
        BY <1>1, <1>5, <3>1, <3>2, <3>4
      <3>5. QED
        BY <3>3, <3>4
    <2>3. QED
      BY <2>2 DEF WaitersCounted
  <1>9. QED
    BY <1>2, <1>3, <1>7, <1>8

\* A request is made; nobody can be attached to it.
LEMMA CreateKeeps ==
    ASSUME CInv, NEW c \in Callers, Create(c) PROVE CInv'
  <1> USE DEF CInv, CoalesceType, Own, Other
  <1>1. pc[c] = "fresh" /\ pc' = [pc EXCEPT ![c] = "created"]
    BY DEF Create, Goto
  <1>2. CoalesceType'
    BY <1>1 DEF Create, follower, coordinator
  <1>3. (RegisteredRuns /\ HasEntry /\ LeftIsOwn /\ AttachedToMade)'
    BY <1>1, CoalesceAssumption
       DEF Create, follower, RegisteredRuns, HasEntry, LeftIsOwn, AttachedToMade
  <1>4. \A e \in Callers : Attached(e)' = Attached(e)
    BY <1>1 DEF Create, follower, Attached
  <1>5. Attached(c) = {}
    BY <1>1, CoalesceAssumption DEF AttachedToMade, Attached
  <1>6. AttachedFinite'
    BY <1>4 DEF AttachedFinite
  <1>7. WaitersCounted'
    <2>1. ASSUME NEW f \in Callers, Submitting(f)'
          PROVE  waiters'[f] = Cardinality(Attached(f)') + (IF left'[f] THEN 0 ELSE 1)
      <3>1. left' = left /\ waiters' = [waiters EXCEPT ![c] = 1]
        BY DEF Create
      <3>2. CASE f = c
        <4>1. Cardinality(Attached(c)') = 0
          BY <1>4, <1>5, FS_EmptySet
        <4>2. ~left'[c] /\ waiters'[c] = 1
          BY <1>1, <3>1 DEF LeftIsOwn
        <4>3. QED
          BY <3>2, <4>1, <4>2
      <3>3. CASE f # c
        BY <1>1, <1>4, <2>1, <3>1, <3>3 DEF Submitting, WaitersCounted
      <3>4. QED
        BY <3>2, <3>3
    <2>2. QED
      BY <2>1 DEF WaitersCounted
  <1>8. QED
    BY <1>2, <1>3, <1>6, <1>7

\* The submitting caller is counted out, once.
LEMMA CallerGoneKeeps ==
    ASSUME CInv, NEW c \in Callers, CallerGone(c) PROVE CInv'
  <1> USE DEF CInv, CoalesceType, Own, Other
  <1>1. /\ pc[c] = "select" /\ pc' = [pc EXCEPT ![c] = "loop"]
        /\ ~left[c] /\ left' = [left EXCEPT ![c] = TRUE]
    BY DEF CallerGone, Goto
  <1>2. CoalesceType'
    BY <1>1 DEF CallerGone, CountDown, follower, registry, coordinator
  <1>3. (RegisteredRuns /\ HasEntry /\ LeftIsOwn /\ AttachedToMade)'
    BY <1>1, CoalesceAssumption
       DEF CallerGone, follower, registry, RegisteredRuns, HasEntry, LeftIsOwn, AttachedToMade
  <1>4. \A e \in Callers : Attached(e)' = Attached(e)
    BY <1>1 DEF CallerGone, follower, Attached
  <1>5. AttachedFinite'
    BY <1>4 DEF AttachedFinite
  <1>6. WaitersCounted'
    <2>1. ASSUME NEW f \in Callers, Submitting(f)'
          PROVE  waiters'[f] = Cardinality(Attached(f)') + (IF left'[f] THEN 0 ELSE 1)
      <3>1. waiters[f] = Cardinality(Attached(f)) + (IF left[f] THEN 0 ELSE 1)
        BY <1>1, <2>1 DEF Submitting, WaitersCounted
      <3>2. waiters' = [waiters EXCEPT ![c] = IF @ = 0 THEN 0 ELSE @ - 1]
        BY DEF CallerGone, CountDown
      <3>3. Cardinality(Attached(f)) \in Nat
        BY FS_CardinalityType DEF AttachedFinite
      <3>4. CASE f = c
        BY <1>1, <1>4, <3>1, <3>2, <3>3, <3>4
      <3>5. CASE f # c
        BY <1>1, <1>4, <3>1, <3>2, <3>5
      <3>6. QED
        BY <3>4, <3>5
    <2>2. QED
      BY <2>1 DEF WaitersCounted
  <1>7. QED
    BY <1>2, <1>3, <1>5, <1>6
-----------------------------------------------------------------------------
\* Every step.
LEMMA StepCInv == CInv /\ [Next]_vars => CInv'
  <1> SUFFICES ASSUME CInv, [Next]_vars PROVE CInv'
    OBVIOUS
  <1>1. CASE \E c \in Callers : Handle(c)
    BY <1>1, QuietKeeps, CountKeeps, LeaveKeeps, CreateKeeps, CallerGoneKeeps DEF Handle, Quiet
  <1>2. CASE ~(\E c \in Callers : Handle(c))
    <2>1. UNCHANGED <<pc, left, entry, registered, waiters>>
      BY <1>2 DEF Next, vars, Coordinate, Submit, Finalize, Finish, HangUp, Forget, handler,
              follower, registry, request
    <2>2. CoalesceType'
      BY <1>2, <2>1 DEF Next, vars, Coordinate, Submit, Finalize, Finish, HangUp, Forget,
              coordinator, CInv, CoalesceType
    <2>3. \A e \in Callers : Attached(e)' = Attached(e)
      BY <2>1 DEF Attached
    <2>4. QED
      BY <2>1, <2>2, <2>3, QuietStep DEF CInv, RegisteredRuns, AttachedToMade, HasEntry, LeftIsOwn
  <1>3. QED
    BY <1>1, <1>2

\* The inductive invariant.
THEOREM CoalesceInvariance == Spec => []CInv
  BY InitCInv, StepCInv, PTL DEF Spec

\* waiter_count, which the handler reads to withdraw the card, is the number of
\* connections that wait for the request, for any number of callers that come and go.
THEOREM CountIsRight == Spec => []WaitersCounted
  BY CoalesceInvariance, PTL DEF CInv
-----------------------------------------------------------------------------
\* A gate that is decided stays as it is, and only an answered one is remembered.
LEMMA StepReplay == CInv /\ ReplayIsAnAnswer /\ [Next]_vars => ReplayIsAnAnswer'
  <1> SUFFICES ASSUME CInv, ReplayIsAnAnswer, [Next]_vars PROVE ReplayIsAnAnswer'
    OBVIOUS
  <1>1. \A e \in Callers : gate[e] = "answered" => gate'[e] = "answered"
    BY DEF CInv, CoalesceType, Next, vars, Handle, Find, Push, Count, Replay, Create, Accept, Loop,
         Select, WaitersGone, CallerGone, Withdraw, Receive, Remember, Final, Remove, Leave,
         WakeSubmitter, Coordinate, Submit, Finalize, Finish, HangUp, Forget, coordinator
  <1>2. \/ replay' \in {replay, None}
        \/ \E c \in Callers : replay' = c /\ gate[c] = "answered"
    BY DEF Next, vars, Handle, Find, Push, Count, Replay, Create, Accept, Loop,
         Select, WaitersGone, CallerGone, Withdraw, Receive, Remember, Final, Remove, Leave,
         WakeSubmitter, Coordinate, Submit, Finalize, Finish, HangUp, Forget, coordinator
  <1>3. replay \in Callers \cup {None}
    BY DEF CInv, CoalesceType
  <1>4. QED
    BY <1>1, <1>2, <1>3 DEF ReplayIsAnAnswer

\* A question that was dismissed or cancelled is never answered from the cache.
THEOREM ReplayAnswers == Spec => []ReplayIsAnAnswer
  <1>1. Init => ReplayIsAnAnswer
    BY DEF Init, ReplayIsAnAnswer
  <1>2. QED
    BY <1>1, StepReplay, CoalesceInvariance, PTL DEF Spec
=============================================================================
