-------------------------- MODULE MCSendController --------------------------
(* A first transfer and, once it is unresolved, a second one under a       *)
(* duplicate-risk grant; a route of two candidates; two sessions of one    *)
(* process (a crash starts the count again).                               *)
EXTENDS SendController, TLC

CONSTANTS r1, r2

MCCreatedAt == r1 :> 1 @@ r2 :> 2
=============================================================================
