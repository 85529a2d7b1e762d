------------------------------ MODULE MCFolder ------------------------------
(* The wallet's folder, in two parts that TLC explores side by side: the   *)
(* lock file and the saves under it, and the format of the wallet files.   *)
(* A behaviour is one of a single part; the variables of the other keep    *)
(* their initial values.                                                   *)
EXTENDS InstanceLock, VaultContainer

VARIABLE part

allVars == <<part, vars, containerVars>>

Wallet == <<"wallet", 1>>
Journal == <<"journal", 0>>
\* With and without an activity section; a list without a journal is refused.
Lists == {<<Wallet, Journal>>, <<Wallet, Journal, <<"activity", 1>>>>, <<Wallet>>}

MCInit == part \in {"lock", "container"} /\ Init /\ ContainerInit

\* Passwords and names are interchangeable: the first wallet has these.
FirstWallet ==
    vaults = <<>> /\ vaults' # <<>> =>
        vaults'[1] = [pw |-> CHOOSE p \in Password : TRUE, name |-> CHOOSE n \in Name : TRUE]

MCNext ==
    \/ part = "lock" /\ Next /\ UNCHANGED <<part, containerVars>>
    \/ part = "container" /\ ContainerNext /\ FirstWallet /\ UNCHANGED <<part, vars>>

MCSpec == MCInit /\ [][MCNext]_allVars
=============================================================================
