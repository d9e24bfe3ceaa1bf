-------------------------- MODULE ConfirmCoordinator --------------------------
(***************************************************************************)
(* app/confirm_coordinator.rs over app/terminal_gate.rs: the coordinator   *)
(* of one structured confirmation, as the shared object it is written to   *)
(* be (Arc, mutexes, Send + Sync): its callers may be on several threads.  *)
(* The daemon of this build calls it from one, which is one of the         *)
(* behaviours below: every call runs to its end before the next begins.    *)
(*                                                                         *)
(*   - every surface may submit_wire a choice, and submit again when its   *)
(*     earlier call lost or was refused;                                   *)
(*   - the connection handler and the channel tasks may fall back, each    *)
(*     for its own reason;                                                 *)
(*   - the connection handler and the shutdown path may cancel.            *)
(*                                                                         *)
(* submit_wire holds submit_lock from the check of the gate to the send;   *)
(* fallback and cancel touch only the gate.  The gate's mutex makes each   *)
(* try_set and is_set one step.  The finalizer is the one request.rs       *)
(* installs for a permission task (memory_finalizer): it persists the      *)
(* grant of a remember choice, or degrades the choice to approve_once.     *)
(***************************************************************************)
EXTENDS Integers, Sequences

CONSTANTS Surfaces,     \* callers of submit_wire
          Choices,      \* valid choices; an invalid one is an Err and no step
          Remember,     \* the choices whose grant the finalizer persists
          ApproveOnce,  \* what a remember choice degrades to
          Reasons,      \* fallback reasons, one calling thread for each
          None

ASSUME CoordinatorAssumption ==
    /\ Remember \subseteq Choices
    /\ ApproveOnce \in Choices \ Remember
    /\ None \notin Surfaces

VARIABLES
    gate,      \* FirstTerminalGate<Terminal>
    outbox,    \* what was sent on tx, in order
    lock,      \* holder of submit_lock
    pc,        \* where each surface is in submit_wire
    result,    \* the surface's ConfirmResult, rewritten by the finalizer
    closing,   \* reasons whose fallback won the gate and has not sent yet
    grants,    \* choices whose grant was persisted by a finalizer
    finalized  \* how many times the finalizer ran

vars == <<gate, outbox, lock, pc, result, closing, grants, finalized>>

Undecided == [kind |-> "undecided"]
Final(c, s) == [kind |-> "final", choice |-> c, by |-> s]
Fallback(r) == [kind |-> "fallback", reason |-> r]
Cancelled == [kind |-> "cancelled"]

Decisions == {Final(c, s) : c \in Choices, s \in Surfaces}
Fallbacks == {Fallback(r) : r \in Reasons}
Terminals == Decisions \cup Fallbacks \cup {Cancelled}

\* The part of submit_wire that runs under submit_lock.
Locked == {"check", "finalize", "commit", "send"}

Init ==
    /\ gate = Undecided
    /\ outbox = <<>>
    /\ lock = None
    /\ pc = [s \in Surfaces |-> "idle"]
    /\ result = [s \in Surfaces |-> ApproveOnce]
    /\ closing = {}
    /\ grants = {}
    /\ finalized = 0

\* Mutant: the gate is overwritten.
MutTrySet(v) == gate' = v

\* try_set of the gate: the first terminal value stays.
TrySet(v) == gate = Undecided /\ gate' = v

Goto(s, from, to) == pc[s] = from /\ pc' = [pc EXCEPT ![s] = to]

\* submit_wire returns: the guard of submit_lock is dropped.
Return(s) == /\ pc' = [pc EXCEPT ![s] = "idle"]
             /\ lock' = None

(***************************************************************************)
(* submit_wire                                                             *)
(***************************************************************************)

\* resolve_submission accepted the choice; the call now waits for the lock.
Submit(s, c) ==
    /\ Goto(s, "idle", "wait")
    /\ result' = [result EXCEPT ![s] = c]
    /\ UNCHANGED <<gate, outbox, lock, closing, grants, finalized>>

\* Mutant: submissions are not serialized.
MutAcquire(s) ==
    /\ Goto(s, "wait", "check")
    /\ lock' = s
    /\ UNCHANGED <<gate, outbox, result, closing, grants, finalized>>

Acquire(s) ==
    /\ lock = None
    /\ Goto(s, "wait", "check")
    /\ lock' = s
    /\ UNCHANGED <<gate, outbox, result, closing, grants, finalized>>

\* terminal.is_set(): a decided request answers Ok(false).
CheckTerminal(s) ==
    /\ pc[s] = "check"
    /\ \/ gate # Undecided /\ Return(s)
       \/ gate = Undecided /\ Goto(s, "check", "finalize") /\ UNCHANGED lock
    /\ UNCHANGED <<gate, outbox, result, closing, grants, finalized>>

\* Mutants: a choice that failed to persist is not degraded; it is dropped by an
\* early return; every choice is handed to the store.
MutFinalizeKeep(s) ==
    /\ Goto(s, "finalize", "commit")
    /\ finalized' = finalized + 1
    /\ \/ UNCHANGED grants
       \/ result[s] \in Remember /\ grants' = grants \cup {result[s]}
    /\ UNCHANGED <<gate, outbox, lock, result, closing>>

MutFinalizeDrop(s) ==
    /\ pc[s] = "finalize"
    /\ finalized' = finalized + 1
    /\ \/ result[s] \notin Remember /\ Goto(s, "finalize", "commit") /\ UNCHANGED lock
       \/ result[s] \in Remember /\ Return(s)
    /\ UNCHANGED <<gate, outbox, result, closing, grants>>

MutFinalizeAll(s) ==
    /\ Goto(s, "finalize", "commit")
    /\ finalized' = finalized + 1
    /\ grants' = grants \cup {result[s]}
    /\ UNCHANGED <<gate, outbox, lock, result, closing>>

\* The two-phase hook: a remember choice is persisted, or degraded when the
\* store (or the native config write) fails.
Finalize(s) ==
    /\ Goto(s, "finalize", "commit")
    /\ finalized' = finalized + 1
    /\ \/ result[s] \notin Remember /\ UNCHANGED <<result, grants>>
       \/ result[s] \in Remember /\ grants' = grants \cup {result[s]} /\ UNCHANGED result
       \/ /\ result[s] \in Remember
          /\ result' = [result EXCEPT ![s] = ApproveOnce]
          /\ UNCHANGED grants
    /\ UNCHANGED <<gate, outbox, lock, closing>>

\* Mutant: the result of try_set is ignored.
MutCommit(s) ==
    /\ Goto(s, "commit", "send")
    /\ gate' = IF gate = Undecided THEN Final(result[s], s) ELSE gate
    /\ UNCHANGED <<outbox, lock, result, closing, grants, finalized>>

\* terminal.try_set(Final): a fallback or a cancel may have come in between.
Commit(s) ==
    /\ pc[s] = "commit"
    /\ \/ TrySet(Final(result[s], s)) /\ Goto(s, "commit", "send") /\ UNCHANGED lock
       \/ gate # Undecided /\ Return(s) /\ UNCHANGED gate
    /\ UNCHANGED <<outbox, result, closing, grants, finalized>>

SendDecision(s) ==
    /\ pc[s] = "send"
    /\ outbox' = Append(outbox, Final(result[s], s))
    /\ Return(s)
    /\ UNCHANGED <<gate, result, closing, grants, finalized>>

(***************************************************************************)
(* fallback and cancel; a call that loses the gate changes nothing.        *)
(***************************************************************************)

FallBack(r) ==
    /\ TrySet(Fallback(r))
    /\ closing' = closing \cup {r}
    /\ UNCHANGED <<outbox, lock, pc, result, grants, finalized>>

SendFallback(r) ==
    /\ r \in closing
    /\ closing' = closing \ {r}
    /\ outbox' = Append(outbox, Fallback(r))
    /\ UNCHANGED <<gate, lock, pc, result, grants, finalized>>

Cancel ==
    /\ TrySet(Cancelled)
    /\ UNCHANGED <<outbox, lock, pc, result, closing, grants, finalized>>

Step(s) == Acquire(s) \/ CheckTerminal(s) \/ Finalize(s) \/ Commit(s) \/ SendDecision(s)

Next ==
    \/ \E s \in Surfaces : Step(s) \/ \E c \in Choices : Submit(s, c)
    \/ \E r \in Reasons : FallBack(r) \/ SendFallback(r)
    \/ Cancel

\* A thread inside a call keeps running, the one that holds submit_lock too.
\* Nobody is obliged to submit, to fall back or to cancel.
Fairness ==
    /\ \A s \in Surfaces : WF_vars(Step(s))
    /\ \A r \in Reasons : WF_vars(SendFallback(r))

Safe == Init /\ [][Next]_vars
Spec == Safe /\ Fairness
-----------------------------------------------------------------------------
(***************************************************************************)
(* Properties                                                              *)
(***************************************************************************)

\* Every variable has its type.
TypeOK ==
    /\ gate \in Terminals \cup {Undecided}
    /\ outbox \in Seq(Decisions \cup Fallbacks)
    /\ lock \in Surfaces \cup {None}
    /\ pc \in [Surfaces -> {"idle", "wait"} \cup Locked]
    /\ result \in [Surfaces -> Choices]
    /\ closing \subseteq Reasons
    /\ grants \subseteq Remember
    /\ finalized \in Nat

\* A surface is between the lock and the return exactly while it holds the lock.
LockIsHeld == \A s \in Surfaces : pc[s] \in Locked <=> lock = s

\* What the gate says of the threads that have not sent yet: they won it, and
\* nothing was sent before them.
SenderWon ==
    /\ \A s \in Surfaces : pc[s] = "send" => gate = Final(result[s], s) /\ outbox = <<>>
    /\ \A r \in closing : gate = Fallback(r) /\ outbox = <<>>
    /\ gate = Undecided => outbox = <<>>

\* When a finalizer may still run none has run, or the gate is decided; the one
\* that ran belongs to a surface about to commit, or the gate is decided.
FinalizerInTurn ==
    /\ \A s \in Surfaces : pc[s] = "finalize" => finalized = 0
    /\ finalized \in {0, 1}
    /\ finalized = 1 => gate # Undecided \/ \E s \in Surfaces : pc[s] = "commit"

\* A result that passed the finalizer carries no promise the store does not keep.
CommitIsBacked ==
    \A s \in Surfaces :
        pc[s] \in {"commit", "send"} /\ result[s] \in Remember => result[s] \in grants

\* The receiver of the request gets at most one outcome, and it is the one the
\* gate holds: the handler that reads final_rx once cannot report a loser.
OutcomeIsTheWinner == outbox = <<>> \/ outbox = <<gate>>

\* submit_lock: "the finalizer runs at most once".
FinalizerAtMostOnce == finalized <= 1

\* A decision that becomes visible on a surface is backed by what it promises:
\* a remember choice in the gate has its grant in the store (D25).
VisibleGrantIsPersisted ==
    gate \in Decisions /\ gate.choice \in Remember => gate.choice \in grants

\* The inductive invariant of the proofs: it implies the
\* properties above.
IInv ==
    /\ TypeOK
    /\ LockIsHeld
    /\ SenderWon
    /\ FinalizerInTurn
    /\ CommitIsBacked
    /\ OutcomeIsTheWinner
    /\ VisibleGrantIsPersisted

\* Every submission brings the request to an end: its own, or an earlier one.
SubmissionDecides == \A s \in Surfaces : pc[s] = "wait" ~> gate # Undecided

\* The coordinator implements the abstract first-terminal request: the gate is
\* decided once, and a decision or fallback is delivered once; a cancel never.
Abstract == INSTANCE FirstTerminal WITH
    Loud <- Decisions \cup Fallbacks, Silent <- {Cancelled}, Undecided <- Undecided,
    decided <- gate, delivered <- outbox

ImplementsFirstTerminal == Abstract!Spec
=============================================================================
