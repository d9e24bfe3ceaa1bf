-------------------------- MODULE MC_ImessageWorker --------------------------
(* Instances: two questions, or a question and a notification.             *)
EXTENDS ImessageWorker, TLC

CONSTANTS q1, q2, n1, alice, bob, ca, cb, cc, ka, kb

OneToken == q1 :> ka
TwoTokens == (q1 :> ka) @@ (q2 :> kb)

\* One chat; two chats of one person and one of another.
OneChat == ca :> alice
ThreeChats == (ca :> alice) @@ (cc :> alice) @@ (cb :> bob)

Unset == [recipient |-> alice, chat |-> None]
Stored == [recipient |-> alice, chat |-> ca]
=============================================================================
