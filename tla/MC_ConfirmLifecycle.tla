------------------------- MODULE MC_ConfirmLifecycle -------------------------
(* Instances: two or three connections, ids that hash to the same token.    *)
EXTENDS ConfirmLifecycle, TLC

CONSTANTS a1, a2, a3, x, y, k1, k2

\* Two requests of their own.
TwoIds == (a1 :> x) @@ (a2 :> y)
\* A request, its retry and another request.
RetryAndOther == (a1 :> x) @@ (a2 :> x) @@ (a3 :> y)
\* Both ids prefer the same token.
Colliding == (x :> k1) @@ (y :> k1)
=============================================================================
