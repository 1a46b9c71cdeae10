------------------------ MODULE MCHcs20PolledIndexer ------------------------
(* The public topic and one of the caller's, polled by up to MaxLoops      *)
(* loops.                                                                  *)
EXTENDS Hcs20PolledIndexer

CONSTANTS tick, pub, priv, c1, c2

MCMessages ==
  {[op |-> "deploy", tick |-> tick, max |-> 2, limit |-> NoLimit, payer |-> 1],
   [op |-> "mint", tick |-> tick, amount |-> 1, to |-> 1, payer |-> 1]}

PublicOnly == [w \in Workers |-> [public |-> TRUE, registry |-> FALSE, private |-> << >>]]

PrivateTwice ==
  [w \in Workers |-> [public |-> FALSE, registry |-> FALSE, private |-> <<priv, priv>>]]
=============================================================================
