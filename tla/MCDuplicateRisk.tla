-------------------------- MODULE MCDuplicateRisk --------------------------
(* The rules of the send journal, and the stored event stream that must    *)
(* implement them, as two parts TLC explores side by side: two records,    *)
(* two nonces, two attempts, eight events (a record left unresolved, a     *)
(* grant that goes stale when the evidence moves on, a second grant, its   *)
(* use, and the resolution of both).  A behaviour is one of a single part; *)
(* the variables of the other keep their initial values.  Records and      *)
(* nonces are interchangeable in every definition.                         *)
EXTENDS SendLedger, JournalEnvelope, TLC

VARIABLE part

streamVars == <<envelope>>
ledgerVars == <<journal>>
allVars == <<part, ledgerVars, streamVars>>

Interchangeable == Permutations(Records) \cup Permutations(Nonces)

MCInit == part \in {"ledger", "stream"} /\ Init /\ StreamInit

MCNext ==
    \/ part = "ledger" /\ Next /\ UNCHANGED <<part, streamVars>>
    \/ part = "stream" /\ StreamNext /\ UNCHANGED <<part, ledgerVars>>

MCSpec == MCInit /\ [][MCNext]_allVars
=============================================================================
