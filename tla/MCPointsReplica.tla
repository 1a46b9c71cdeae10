--------------------------- MODULE MCPointsReplica ---------------------------
(***************************************************************************)
(* Inputs for the run of PointsReplica, over one tick, and beside it the   *)
(* clients that write to topics: of points operations, and of the entries  *)
(* of an HCS-2 registry.  A behaviour is of the side that "side" names,    *)
(* since the ledger takes whatever messages there are, and the two clients *)
(* share no state.                                                         *)
(***************************************************************************)
EXTENDS PointsReplica, PointsClient, TopicRegistry

CONSTANTS tick, pub, priv

VARIABLE side

Deploy(max, limit) ==
  [op |-> "deploy", tick |-> tick, max |-> max, limit |-> limit, payer |-> 1]
Mint(n, a) ==
  [op |-> "mint", tick |-> tick, amount |-> n, to |-> a, payer |-> 2]
Transfer(n, a, b, p) ==
  [op |-> "transfer", tick |-> tick, amount |-> n, from |-> a, to |-> b, payer |-> p]
Burn(n, a, p) ==
  [op |-> "burn", tick |-> tick, amount |-> n, from |-> a, payer |-> p]

(* Every kind of message that can meet every kind of refusal: a second     *)
(* deploy, a mint above the limit or the supply, a transfer of 0, to       *)
(* oneself, of more than there is, or without the payer's consent.         *)
LedgerMessages ==
  {Deploy(3, NoLimit), Deploy(3, 1)}
  \cup {Mint(1, 1), Mint(2, 1), Mint(2, 2)}
  \cup {Transfer(0, 1, 2, 1), Transfer(1, 1, 1, 1), Transfer(1, 1, 2, 1), Transfer(1, 2, 1, 1)}
  \cup {Burn(1, 1, 1), Burn(2, 1, 1), Burn(1, 1, 2)}
  \cup {[op |-> "register", topic |-> priv, private |-> TRUE]}

(* A registry that may contradict itself.                                  *)
Contradictions == {[topic |-> priv, private |-> b] : b \in BOOLEAN}

\* The callers of the registry are interchangeable.
AnyCaller == Permutations(RegistryCallers)

PointsSystemInit ==
  side \in {"replica", "client", "registry"} /\ Init /\ PointsInit /\ RegistryInit

PointsSystemNext ==
  \/ side = "replica" /\ Next /\ UNCHANGED <<side, pointsVars, registryVars>>
  \/ side = "client" /\ PointsNext /\ UNCHANGED <<side, vars, registryVars>>
  \/ side = "registry" /\ RegistryNext /\ UNCHANGED <<side, vars, pointsVars>>

PointsSpec ==
  PointsSystemInit /\ [][PointsSystemNext]_<<side, vars, pointsVars, registryVars>>
=============================================================================
