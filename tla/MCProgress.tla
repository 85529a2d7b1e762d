----------------------------- MODULE MCProgress -----------------------------
(* What must happen in the end, in three parts that TLC explores side by   *)
(* side: a send ends, an announced row reaches the list, a copied secret   *)
(* is wiped.  A behaviour is one of a single part; the variables of the    *)
(* others keep their initial values, in which none of their fair actions   *)
(* is enabled.                                                             *)
EXTENDS SendController, HistoryScan, SeedCustody, TLC

CONSTANTS r1, r2

MCCreatedAt == r1 :> 1 @@ r2 :> 2
TwoPhrases == {<<"a", "b">>, <<"c", "d">>}
OneRecord == {<<"r">>}
\* One word of a phrase, and words of two phrases in a row.
UserTexts == {<<"a">>, <<"b", "c">>}

VARIABLE part

allVars == <<part, vars, historyVars, custodyVars>>

MCInit ==
    /\ part \in {"send", "history", "custody"}
    /\ Init /\ HistoryInit /\ CustodyInit

MCNext ==
    \/ part = "send" /\ Next /\ UNCHANGED <<part, historyVars, custodyVars>>
    \/ part = "history" /\ HistoryNext /\ UNCHANGED <<part, vars, custodyVars>>
    \/ part = "custody" /\ CustodyNext /\ UNCHANGED <<part, vars, historyVars>>

MCFairSpec ==
    /\ MCInit /\ [][MCNext]_allVars
    /\ \A r \in Records : WF_vars(TaskEnds(r))
    /\ HistoryFairness
    /\ CustodyFairness
=============================================================================
