---------------------------- MODULE FirstTerminal ----------------------------
(***************************************************************************)
(* What every coordinator of the daemon promises about one request: a      *)
(* terminal value is chosen once and for all, and a value that has a       *)
(* receiver is delivered exactly once, after it was chosen.  Silent values *)
(* (a cancelled request: nobody is left to be told) are never delivered.   *)
(***************************************************************************)
EXTENDS Sequences

CONSTANTS Loud,       \* terminal values the caller must be told
          Silent,     \* terminal values nobody is told
          Undecided   \* no terminal value yet

VARIABLES decided, delivered
vars == <<decided, delivered>>

Init == decided = Undecided /\ delivered = <<>>

Decide == /\ decided = Undecided
          /\ decided' \in Loud \cup Silent
          /\ UNCHANGED delivered

Deliver == /\ decided \in Loud
           /\ delivered = <<>>
           /\ delivered' = <<decided>>
           /\ UNCHANGED decided

Next == Decide \/ Deliver

Safe == Init /\ [][Next]_vars
Spec == Safe /\ WF_vars(Deliver)
=============================================================================
