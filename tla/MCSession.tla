----------------------------- MODULE MCSession -----------------------------
(* The session, and the secrets on the clipboard, as two parts TLC         *)
(* explores side by side: a behaviour is one of a single part, the         *)
(* variables of the other keep their initial values.                       *)
EXTENDS Session, SeedCustody, TLC

VARIABLE part

TwoPhrases == {<<"a", "b">>, <<"c", "d">>}
OneRecord == {<<"r">>}
\* One word of a phrase, and words of two phrases in a row.
UserTexts == {<<"a">>, <<"b", "c">>}

allVars == <<part, vars, custodyVars>>

\* The two wallets are interchangeable in every definition.
WalletSymmetry == Permutations(Wallets)

MCInit ==
    /\ part \in {"session", "custody"} /\ Init /\ CustodyInit
    /\ part = "custody" => files = {}

MCNext ==
    \/ part = "session" /\ Next /\ UNCHANGED <<part, custodyVars>>
    \/ part = "custody" /\ CustodyNext /\ UNCHANGED <<part, vars>>

MCSpec == MCInit /\ [][MCNext]_allVars
=============================================================================
