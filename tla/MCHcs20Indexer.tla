--------------------------- MODULE MCHcs20Indexer ---------------------------
(* Inputs for the runs of Hcs20Indexer, over one tick and two accounts.    *)
EXTENDS Hcs20Indexer

CONSTANTS tick, pub, priv, w1, w2

MCMessages ==
  {[op |-> "deploy", tick |-> tick, max |-> 2, limit |-> NoLimit, payer |-> 1],
   [op |-> "mint", tick |-> tick, amount |-> 1, to |-> 1, payer |-> 1]}

MCRegistrations == {[topic |-> priv, private |-> b] : b \in BOOLEAN}

(* On the public topic only: a transfer to oneself, and one to another.    *)
RacingMessages ==
  {[op |-> "deploy", tick |-> tick, max |-> 2, limit |-> NoLimit, payer |-> 1],
   [op |-> "mint", tick |-> tick, amount |-> 1, to |-> 1, payer |-> 1]}
  \cup {[op |-> "transfer", tick |-> tick, amount |-> 1, from |-> 1, to |-> a, payer |-> 1] :
          a \in Accounts}

(* The zero value of IndexOptions: the public topic and the registry.      *)
DefaultIndexOptions == [public |-> FALSE, registry |-> FALSE, private |-> << >>]

OneDefaultWorker == [w \in Workers |-> DefaultIndexOptions]
PublicOnly == [public |-> TRUE, registry |-> FALSE, private |-> << >>]
TwoPublicWorkers == [w \in Workers |-> PublicOnly]
=============================================================================
