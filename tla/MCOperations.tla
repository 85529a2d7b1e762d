---------------------------- MODULE MCOperations ----------------------------
(* Operations around the transfer path, in parts that TLC explores side by *)
(* side: the check that balances carry a transfer, the swap, the record    *)
(* storage (the list of one identity at length, two identities and a lock  *)
(* briefly).  A behaviour is one of a single part; the variables of the    *)
(* others keep one of their initial values.                                *)
EXTENDS Affordability, SwapFlow, RecordStorage, FiniteSetsExt

VARIABLE part

allVars == <<part, affordVars, swapVars, storeVars>>

TwoPools == {[reserves |-> [coin |-> 5, one |-> 4, two |-> 0], fee |-> 1, paused |-> FALSE],
             [reserves |-> [coin |-> 3, one |-> 6, two |-> 2], fee |-> 1, paused |-> FALSE]}
NoContract == [exists |-> FALSE, cells |-> [i \in Ids |-> Nothing]]
Kept(n, content) == [exists |-> TRUE, cells |-> [i \in Ids |-> IF i = n THEN content ELSE Nothing]]
\* No contract yet, a record from an earlier session, one that cannot be read.
StoredLists == {NoContract, Kept(1, Old), Kept(2, Junk)}

MCInit ==
    /\ part \in {"afford", "swap", "records", "identities"}
    /\ SwapInit /\ StoreInit
    /\ me = CHOOSE o \in Owners : TRUE
    /\ part # "identities" => \A o \in Owners \ {me} : chain[o].list = NoContract
    /\ part \notin {"records", "identities"} => chain[me].list = NoContract
    /\ AffordInit
    /\ part # "afford" => input = [balance |-> [a \in Assets |-> 0], rows |-> <<>>,
                                   overlap |-> <<>>, asset |-> Native,
                                   amount |-> Min(Amounts), exact |-> Min(Fees)]

MCNext ==
    \/ part = "afford" /\ AffordNext /\ UNCHANGED <<part, swapVars, storeVars>>
    \/ part = "swap" /\ SwapNext /\ UNCHANGED <<part, affordVars, storeVars>>
    \/ /\ part = "records" /\ StoreNext /\ me' = me /\ session' = session
       /\ UNCHANGED <<part, affordVars, swapVars>>
    \/ /\ part = "identities" /\ StoreNext /\ opCount' <= 1 /\ seq' <= 2
       /\ UNCHANGED <<part, affordVars, swapVars>>

MCSpec == MCInit /\ [][MCNext]_allVars
=============================================================================
