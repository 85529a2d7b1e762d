----------------------------- MODULE MCTransfers -----------------------------
(* A transfer from the request to its resolution, and the history walk a   *)
(* duplicate-risk review waits for, as two parts TLC explores side by      *)
(* side: a behaviour is one of a single part, the variables of the other   *)
(* keep their initial values.  The walk is that of one unresolved transfer *)
(* and of an endpoint that indexes in order and does not fail; it reaches  *)
(* a third row only while the first subscription lasts (bound).            *)
EXTENDS SendController, HistoryScan, TLC

CONSTANTS r1, r2

MCCreatedAt == r1 :> 1 @@ r2 :> 2

VARIABLE part

allVars == <<part, vars, historyVars>>

MCInit == part \in {"send", "review"} /\ Init /\ HistoryInit

MCNext ==
    \/ part = "send" /\ Next /\ UNCHANGED <<part, historyVars>>
    \/ /\ part = "review" /\ HistoryNext /\ UNCHANGED <<part, vars>>
       /\ app'.gen = 0 \/ head' <= 2

MCSpec == MCInit /\ [][MCNext]_allVars
=============================================================================
