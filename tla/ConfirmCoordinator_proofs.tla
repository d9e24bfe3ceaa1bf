----------------------- MODULE ConfirmCoordinator_proofs -----------------------
(***************************************************************************)
(* For any set of surfaces, choices and fallback reasons: the coordinator  *)
(* keeps its inductive invariant, from which its safety properties follow, *)
(* and it implements FirstTerminal.                                        *)
(***************************************************************************)
EXTENDS ConfirmCoordinator, TLAPS

\* The three kinds of terminal value and the undecided one are told apart by kind.
LEMMA KindsDiffer ==
    /\ \A c \in Choices, s \in Surfaces : /\ Final(c, s) \in Decisions
                                          /\ Final(c, s) # Undecided
    /\ \A r \in Reasons : Fallback(r) \in Fallbacks /\ Fallback(r) # Undecided
    /\ \A r \in Reasons : Fallback(r) \notin Decisions
    /\ Cancelled # Undecided
    /\ Cancelled \notin Decisions \cup Fallbacks
    /\ Undecided \notin Terminals
  <1>1. \A v \in Decisions : v.kind = "final"
    BY DEF Decisions, Final
  <1>2. \A v \in Fallbacks : v.kind = "fallback"
    BY DEF Fallbacks, Fallback
  <1>3. Undecided.kind = "undecided" /\ Cancelled.kind = "cancelled"
    BY DEF Undecided, Cancelled
  <1>4. \A c \in Choices, s \in Surfaces : Final(c, s) \in Decisions
    BY DEF Decisions
  <1>5. \A r \in Reasons : Fallback(r) \in Fallbacks
    BY DEF Fallbacks
  <1>6. "final" # "fallback" /\ "final" # "cancelled" /\ "final" # "undecided"
        /\ "fallback" # "cancelled" /\ "fallback" # "undecided" /\ "cancelled" # "undecided"
    OBVIOUS
  <1>7. QED
    BY <1>1, <1>2, <1>3, <1>4, <1>5, <1>6 DEF Terminals

\* One message sent on an empty channel is the whole of it.
LEMMA FirstSend ==
    ASSUME NEW v, outbox = <<>>
    PROVE  Append(outbox, v) = <<v>>
  OBVIOUS

\* The invariant holds before any call.
LEMMA InitIInv == Init => IInv
  <1> SUFFICES ASSUME Init PROVE IInv
    OBVIOUS
  <1> USE CoordinatorAssumption DEF Init
  <1>1. TypeOK
    BY DEF TypeOK
  <1>2. LockIsHeld
    BY DEF LockIsHeld, Locked
  <1>3. SenderWon /\ FinalizerInTurn /\ CommitIsBacked
    BY DEF SenderWon, FinalizerInTurn, CommitIsBacked
  <1>4. OutcomeIsTheWinner /\ VisibleGrantIsPersisted
    BY KindsDiffer DEF OutcomeIsTheWinner, VisibleGrantIsPersisted, Terminals
  <1>5. QED
    BY <1>1, <1>2, <1>3, <1>4 DEF IInv

\* Every step keeps the invariant.
LEMMA StepIInv == IInv /\ [Next]_vars => IInv'
  <1> SUFFICES ASSUME IInv, [Next]_vars PROVE IInv'
    OBVIOUS
  <1> USE CoordinatorAssumption DEF IInv, Locked
  <1>1. ASSUME NEW s \in Surfaces, NEW c \in Choices, Submit(s, c) PROVE IInv'
    <2> USE <1>1 DEF Submit, Goto
    <2>1. TypeOK'
      BY DEF TypeOK
    <2>2. LockIsHeld'
      BY DEF TypeOK, LockIsHeld
    <2>3. SenderWon' /\ CommitIsBacked'
      BY DEF TypeOK, SenderWon, CommitIsBacked
    <2>4. FinalizerInTurn'
      BY DEF TypeOK, FinalizerInTurn
    <2>5. OutcomeIsTheWinner' /\ VisibleGrantIsPersisted'
      BY DEF OutcomeIsTheWinner, VisibleGrantIsPersisted
    <2>6. QED
      BY <2>1, <2>2, <2>3, <2>4, <2>5
  <1>2. ASSUME NEW s \in Surfaces, Acquire(s) PROVE IInv'
    <2> USE <1>2 DEF Acquire, Goto
    <2>1. TypeOK'
      BY DEF TypeOK
    <2>2. LockIsHeld'
      BY DEF TypeOK, LockIsHeld
    <2>3. SenderWon' /\ CommitIsBacked'
      BY DEF TypeOK, SenderWon, CommitIsBacked
    <2>4. FinalizerInTurn'
      BY DEF TypeOK, FinalizerInTurn
    <2>5. OutcomeIsTheWinner' /\ VisibleGrantIsPersisted'
      BY DEF OutcomeIsTheWinner, VisibleGrantIsPersisted
    <2>6. QED
      BY <2>1, <2>2, <2>3, <2>4, <2>5
  <1>3. ASSUME NEW s \in Surfaces, CheckTerminal(s) PROVE IInv'
    <2> USE <1>3 DEF CheckTerminal, Goto, Return
    <2>1. TypeOK'
      BY DEF TypeOK
    <2>2. LockIsHeld'
      BY DEF TypeOK, LockIsHeld
    <2>3. SenderWon' /\ CommitIsBacked'
      BY DEF TypeOK, SenderWon, CommitIsBacked
    <2>4. FinalizerInTurn'
      BY DEF TypeOK, FinalizerInTurn, LockIsHeld
    <2>5. OutcomeIsTheWinner' /\ VisibleGrantIsPersisted'
      BY DEF OutcomeIsTheWinner, VisibleGrantIsPersisted
    <2>6. QED
      BY <2>1, <2>2, <2>3, <2>4, <2>5
  <1>4. ASSUME NEW s \in Surfaces, Finalize(s) PROVE IInv'
    <2> USE <1>4 DEF Finalize, Goto
    <2>1. TypeOK'
      BY DEF TypeOK
    <2>2. LockIsHeld'
      BY DEF TypeOK, LockIsHeld
    <2>3. SenderWon'
      BY DEF TypeOK, SenderWon
    <2>4. CommitIsBacked'
      BY DEF TypeOK, CommitIsBacked
    <2>5. FinalizerInTurn'
      BY DEF TypeOK, FinalizerInTurn, LockIsHeld
    <2>6. OutcomeIsTheWinner' /\ VisibleGrantIsPersisted'
      BY DEF TypeOK, OutcomeIsTheWinner, VisibleGrantIsPersisted
    <2>7. QED
      BY <2>1, <2>2, <2>3, <2>4, <2>5, <2>6
  <1>5. ASSUME NEW s \in Surfaces, Commit(s) PROVE IInv'
    <2>1. CASE gate = Undecided
      <3> USE <1>5, <2>1, KindsDiffer DEF Commit, TrySet, Goto
      <3>1. result[s] \in Choices /\ gate' = Final(result[s], s) /\ pc' = [pc EXCEPT ![s] = "send"]
            /\ pc[s] = "commit" /\ UNCHANGED <<outbox, lock, result, closing, grants, finalized>>
        BY DEF TypeOK
      <3>2. TypeOK'
        BY <3>1 DEF TypeOK, Terminals
      <3>3. LockIsHeld'
        BY <3>1 DEF TypeOK, LockIsHeld
      <3>4. SenderWon'
        BY <3>1 DEF TypeOK, SenderWon, LockIsHeld
      <3>5. CommitIsBacked' /\ FinalizerInTurn'
        BY <3>1 DEF TypeOK, CommitIsBacked, FinalizerInTurn
      <3>6. OutcomeIsTheWinner'
        BY <3>1 DEF OutcomeIsTheWinner, SenderWon
      <3>7. VisibleGrantIsPersisted'
        BY <3>1 DEF VisibleGrantIsPersisted, CommitIsBacked, Final
      <3>8. QED
        BY <3>2, <3>3, <3>4, <3>5, <3>6, <3>7
    <2>2. CASE gate # Undecided
      <3> USE <1>5, <2>2 DEF Commit, TrySet, Return
      <3>1. TypeOK' /\ LockIsHeld'
        BY DEF TypeOK, LockIsHeld
      <3>2. SenderWon' /\ CommitIsBacked' /\ FinalizerInTurn'
        BY DEF TypeOK, SenderWon, CommitIsBacked, FinalizerInTurn
      <3>3. OutcomeIsTheWinner' /\ VisibleGrantIsPersisted'
        BY DEF OutcomeIsTheWinner, VisibleGrantIsPersisted
      <3>4. QED
        BY <3>1, <3>2, <3>3
    <2>3. QED
      BY <2>1, <2>2
  <1>6. ASSUME NEW s \in Surfaces, SendDecision(s) PROVE IInv'
    <2> USE <1>6, KindsDiffer DEF SendDecision, Return
    <2>1. gate = Final(result[s], s) /\ outbox = <<>> /\ gate \in Decisions /\ gate # Undecided
      BY DEF SenderWon, TypeOK
    <2>2. outbox' = <<gate>> /\ gate' = gate
      BY <2>1, FirstSend
    <2>3. TypeOK'
      BY <2>1, <2>2 DEF TypeOK
    <2>4. LockIsHeld'
      BY DEF TypeOK, LockIsHeld
    <2>5. SenderWon'
      <3>1. \A t \in Surfaces : pc'[t] # "send"
        BY DEF TypeOK, LockIsHeld
      <3>2. closing' = {}
        <4>1. \A r \in Reasons : gate # Fallback(r)
          BY <2>1
        <4>2. QED
          BY <4>1 DEF SenderWon, TypeOK
      <3>3. QED
        BY <2>1, <2>2, <3>1, <3>2 DEF SenderWon
    <2>6. CommitIsBacked' /\ FinalizerInTurn'
      BY <2>1 DEF TypeOK, CommitIsBacked, FinalizerInTurn
    <2>7. OutcomeIsTheWinner' /\ VisibleGrantIsPersisted'
      BY <2>2 DEF OutcomeIsTheWinner, VisibleGrantIsPersisted
    <2>8. QED
      BY <2>3, <2>4, <2>5, <2>6, <2>7
  <1>7. ASSUME NEW r \in Reasons, FallBack(r) PROVE IInv'
    <2> USE <1>7, KindsDiffer DEF FallBack, TrySet
    <2>1. TypeOK'
      BY DEF TypeOK, Terminals
    <2>2. LockIsHeld' /\ CommitIsBacked' /\ FinalizerInTurn'
      BY DEF LockIsHeld, CommitIsBacked, FinalizerInTurn
    <2>3. SenderWon'
      BY DEF SenderWon, TypeOK
    <2>4. OutcomeIsTheWinner' /\ VisibleGrantIsPersisted'
      BY DEF OutcomeIsTheWinner, VisibleGrantIsPersisted, SenderWon
    <2>5. QED
      BY <2>1, <2>2, <2>3, <2>4
  <1>8. ASSUME NEW r \in Reasons, SendFallback(r) PROVE IInv'
    <2> USE <1>8, KindsDiffer DEF SendFallback
    <2>1. gate = Fallback(r) /\ outbox = <<>> /\ gate \in Fallbacks
      BY DEF SenderWon
    <2>2. outbox' = <<gate>> /\ gate' = gate
      BY <2>1, FirstSend
    <2>3. TypeOK'
      BY <2>1, <2>2 DEF TypeOK
    <2>4. LockIsHeld' /\ CommitIsBacked' /\ FinalizerInTurn'
      BY DEF LockIsHeld, CommitIsBacked, FinalizerInTurn
    <2>5. \A q \in closing' : q = r => FALSE
      OBVIOUS
    <2>6. \A q \in closing : q = r
      BY <2>1 DEF SenderWon, Fallback
    <2>7. \A s \in Surfaces : pc[s] # "send"
      BY <2>1 DEF SenderWon, TypeOK
    <2>8. SenderWon'
      BY <2>1, <2>2, <2>5, <2>6, <2>7 DEF SenderWon
    <2>9. OutcomeIsTheWinner' /\ VisibleGrantIsPersisted'
      BY <2>2 DEF OutcomeIsTheWinner, VisibleGrantIsPersisted
    <2>10. QED
      BY <2>3, <2>4, <2>8, <2>9
  <1>9. CASE Cancel
    <2> USE <1>9, KindsDiffer DEF Cancel, TrySet
    <2>1. TypeOK'
      BY DEF TypeOK, Terminals
    <2>2. LockIsHeld' /\ CommitIsBacked' /\ FinalizerInTurn'
      BY DEF LockIsHeld, CommitIsBacked, FinalizerInTurn
    <2>3. SenderWon'
      BY DEF SenderWon, TypeOK
    <2>4. OutcomeIsTheWinner' /\ VisibleGrantIsPersisted'
      BY DEF OutcomeIsTheWinner, VisibleGrantIsPersisted, SenderWon
    <2>5. QED
      BY <2>1, <2>2, <2>3, <2>4
  <1>10. CASE UNCHANGED vars
    BY <1>10 DEF vars, TypeOK, LockIsHeld, SenderWon, FinalizerInTurn, CommitIsBacked,
                 OutcomeIsTheWinner, VisibleGrantIsPersisted
  <1>11. QED
    BY <1>1, <1>2, <1>3, <1>4, <1>5, <1>6, <1>7, <1>8, <1>9, <1>10 DEF Next, Step

\* Every reachable state satisfies the inductive invariant.
THEOREM Invariance == Spec => []IInv
  BY InitIInv, StepIInv, PTL DEF Spec, Safe

\* Type correctness of the coordinator, for any callers.
THEOREM TypeCorrect == Spec => []TypeOK
  BY Invariance, PTL DEF IInv

\* The caller of a request is told at most one outcome, the one that won the gate.
THEOREM OneOutcome == Spec => []OutcomeIsTheWinner
  BY Invariance, PTL DEF IInv

\* submit_lock makes the finalizer run at most once, whoever submits.
THEOREM OneFinalizer == Spec => []FinalizerAtMostOnce
  <1>1. IInv => FinalizerAtMostOnce
    BY DEF IInv, FinalizerInTurn, FinalizerAtMostOnce
  <1>2. QED
    BY <1>1, Invariance, PTL

\* A remember choice that a surface can render as decided was persisted first.
THEOREM GrantBeforeFinal == Spec => []VisibleGrantIsPersisted
  BY Invariance, PTL DEF IInv

\* Every step of the coordinator decides, delivers, or is invisible to its caller.
THEOREM Refinement == Spec => Abstract!Safe
  <1>1. Init => Abstract!Init
    BY DEF Init, Abstract!Init
  <1>2. IInv /\ [Next]_vars => [Abstract!Next]_(Abstract!vars)
    <2> SUFFICES ASSUME IInv, [Next]_vars PROVE [Abstract!Next]_(Abstract!vars)
      OBVIOUS
    <2> USE KindsDiffer DEF Abstract!Next, Abstract!Decide, Abstract!Deliver, Abstract!vars
    <2>1. ASSUME NEW s \in Surfaces, Commit(s) PROVE [Abstract!Next]_(Abstract!vars)
      BY <2>1 DEF Commit, TrySet, IInv, TypeOK
    <2>2. ASSUME NEW s \in Surfaces, SendDecision(s) PROVE [Abstract!Next]_(Abstract!vars)
      <3>1. gate = Final(result[s], s) /\ outbox = <<>> /\ gate \in Decisions
        BY <2>2 DEF SendDecision, IInv, SenderWon, TypeOK
      <3>2. outbox' = <<gate>> /\ gate' = gate
        BY <2>2, <3>1, FirstSend DEF SendDecision
      <3>3. QED
        BY <3>1, <3>2
    <2>3. ASSUME NEW r \in Reasons, FallBack(r) PROVE [Abstract!Next]_(Abstract!vars)
      BY <2>3 DEF FallBack, TrySet
    <2>4. ASSUME NEW r \in Reasons, SendFallback(r) PROVE [Abstract!Next]_(Abstract!vars)
      <3>1. gate = Fallback(r) /\ outbox = <<>> /\ gate \in Fallbacks
        BY <2>4 DEF SendFallback, IInv, SenderWon
      <3>2. outbox' = <<gate>> /\ gate' = gate
        BY <2>4, <3>1, FirstSend DEF SendFallback
      <3>3. QED
        BY <3>1, <3>2
    <2>5. CASE Cancel
      BY <2>5 DEF Cancel, TrySet
    <2>6. ASSUME NEW s \in Surfaces,
                 Acquire(s) \/ CheckTerminal(s) \/ Finalize(s) \/ \E c \in Choices : Submit(s, c)
          PROVE UNCHANGED <<gate, outbox>>
      BY <2>6 DEF Acquire, CheckTerminal, Finalize, Submit
    <2>7. CASE UNCHANGED vars
      BY <2>7 DEF vars
    <2>8. QED
      BY <2>1, <2>2, <2>3, <2>4, <2>5, <2>6, <2>7 DEF Next, Step
  <1>3. QED
    BY <1>1, <1>2, Invariance, PTL DEF Spec, Safe, Abstract!Safe
=============================================================================
