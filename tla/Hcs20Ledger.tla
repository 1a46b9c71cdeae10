----------------------------- MODULE Hcs20Ledger -----------------------------
(***************************************************************************)
(* The points ledger of pkg/hcs20: the PointsState a PointsIndexer derives *)
(* from HCS-20 messages, and what one message does to it.  Every Process*  *)
(* operator is one handler of indexer.go and runs entirely under the       *)
(* indexer's mutex, so it is a function from a ledger to a ledger.         *)
(*                                                                         *)
(* Amounts are big.Int in the code and naturals here: they do not overflow *)
(* (ValidateNumberString admits digits only, so they are never negative).  *)
(* Names, metadata, memos and timestamps are left out.                     *)
(*                                                                         *)
(* A definition named after a slip (MintAcceptedWithoutMax, MoveStale...)  *)
(* is a wrong variant of the definition below it, for mutation runs.       *)
(***************************************************************************)
EXTENDS Integers, Sequences

CONSTANTS
  Ticks,        \* normalized tick symbols
  NumAccounts,  \* accounts are 1..NumAccounts (normalized account ids)
  Topics,       \* normalized topic ids that may carry points messages
  NoPoints,     \* "tick not in DeployedPoints"
  NoLimit       \* "LimitPerMint is the empty string"

ASSUME AccountsAssumption == NumAccounts \in Nat \ {0}
ASSUME NoLimitAssumption  == NoLimit \notin Nat
ASSUME NoPointsAssumption ==
  NoPoints \notin [max: Nat, limit: Nat \cup {NoLimit}, topic: Topics,
                   deployer: 1..NumAccounts, private: BOOLEAN]

Accounts == 1..NumAccounts

PointsInfo ==
  [max: Nat, limit: Nat \cup {NoLimit}, topic: Topics, deployer: Accounts,
   private: BOOLEAN]

(***************************************************************************)
(* A parsed message, together with the payer the mirror node reports.      *)
(***************************************************************************)
DeployMessage ==
  [op: {"deploy"}, tick: Ticks, max: Nat, limit: Nat \cup {NoLimit}, payer: Accounts]
MintMessage ==
  [op: {"mint"}, tick: Ticks, amount: Nat, to: Accounts, payer: Accounts]
TransferMessage ==
  [op: {"transfer"}, tick: Ticks, amount: Nat, from: Accounts, to: Accounts,
   payer: Accounts]
BurnMessage ==
  [op: {"burn"}, tick: Ticks, amount: Nat, from: Accounts, payer: Accounts]
RegisterMessage ==
  [op: {"register"}, topic: Topics, private: BOOLEAN]

Message ==
  DeployMessage \cup MintMessage \cup TransferMessage \cup BurnMessage
    \cup RegisterMessage

(***************************************************************************)
(* PointsTransaction, without its texts.  "from" and "to" are 0 where the  *)
(* handler leaves the field empty.                                         *)
(***************************************************************************)
Transaction ==
  [op: {"mint", "transfer", "burn"}, tick: Ticks, amount: Nat,
   from: 0..NumAccounts, to: 0..NumAccounts, topic: Topics, seq: Nat]

(***************************************************************************)
(* The ledger.  supply is PointsInfo.CurrentSupply; holders[t] is the key  *)
(* set of Balances[t], and Balances has the key t exactly when holders[t]  *)
(* is not empty, because the map is created just before its first entry.   *)
(* balance is 0, what GetBalance reports, for an account without an entry. *)
(***************************************************************************)
Ledger ==
  [points:       [Ticks -> PointsInfo \cup {NoPoints}],
   supply:       [Ticks -> Nat],
   holders:      [Ticks -> SUBSET Accounts],
   balance:      [Ticks -> [Accounts -> Nat]],
   transactions: Seq(Transaction),
   processed:    Nat]

EmptyLedger ==
  [points       |-> [t \in Ticks |-> NoPoints],
   supply       |-> [t \in Ticks |-> 0],
   holders      |-> [t \in Ticks |-> {}],
   balance      |-> [t \in Ticks |-> [a \in Accounts |-> 0]],
   transactions |-> << >>,
   processed    |-> 0]

Deployed(l, t) == l.points[t] # NoPoints

(***************************************************************************)
(* What is appended to Transactions for message m at sequence number n of  *)
(* topic.                                                                  *)
(***************************************************************************)
RecordSwapped(m, from, to, topic, n) ==
  [op |-> m.op, tick |-> m.tick, amount |-> m.amount, from |-> to, to |-> from,
   topic |-> topic, seq |-> n]

Record(m, from, to, topic, n) ==
  [op |-> m.op, tick |-> m.tick, amount |-> m.amount, from |-> from, to |-> to,
   topic |-> topic, seq |-> n]

Credit(bal, a, amount) == [bal EXCEPT ![a] = @ + amount]
Debit(bal, a, amount)  == [bal EXCEPT ![a] = @ - amount]

(***************************************************************************)
(* The sender is debited and written back before the receiver is read, so  *)
(* a transfer to oneself leaves the balance as it was.                     *)
(***************************************************************************)
MoveStale(bal, from, to, amount) ==
  [Debit(bal, from, amount) EXCEPT ![to] = bal[to] + amount]

Move(bal, from, to, amount) == Credit(Debit(bal, from, amount), to, amount)

-----------------------------------------------------------------------------
(***************************************************************************)
(* The first deploy of a tick wins; a later one is ignored.                *)
(***************************************************************************)
ProcessDeploy(l, m, private, topic) ==
  IF Deployed(l, m.tick)
  THEN l
  ELSE [l EXCEPT
          !.points[m.tick] = [max |-> m.max, limit |-> m.limit, topic |-> topic,
                              deployer |-> m.payer, private |-> private],
          !.supply[m.tick] = 0,
          !.processed = @ + 1]

(***************************************************************************)
(* A mint needs a deployed tick, room below the maximum supply and, when   *)
(* the deploy set one, an amount within the limit.  Nobody checks the      *)
(* payer.                                                                  *)
(***************************************************************************)
WithinNoLimit(amount, limit) == TRUE
WithinLimit(amount, limit) == limit = NoLimit \/ amount <= limit

MintAcceptedWithoutMax(l, m) ==
  Deployed(l, m.tick) /\ WithinLimit(m.amount, l.points[m.tick].limit)

MintAccepted(l, m) ==
  /\ Deployed(l, m.tick)
  /\ l.supply[m.tick] + m.amount <= l.points[m.tick].max
  /\ WithinLimit(m.amount, l.points[m.tick].limit)

ProcessMint(l, m, topic, n) ==
  IF ~MintAccepted(l, m)
  THEN l
  ELSE [l EXCEPT
          !.supply[m.tick]  = @ + m.amount,
          !.balance[m.tick] = Credit(@, m.to, m.amount),
          !.holders[m.tick] = @ \cup {m.to},
          !.transactions    = Append(@, Record(m, 0, m.to, topic, n)),
          !.processed       = @ + 1]

(***************************************************************************)
(* Outside private topics the payer of a transfer or a burn is the account *)
(* it takes points from.                                                   *)
(***************************************************************************)
AnyPayer(m, private) == TRUE
Authorized(m, private) == private \/ m.payer = m.from

(***************************************************************************)
(* The sender must already have an entry, even to transfer 0.              *)
(***************************************************************************)
TransferAccepted(l, m, private) ==
  /\ Authorized(m, private)
  /\ m.from \in l.holders[m.tick]
  /\ l.balance[m.tick][m.from] >= m.amount

ProcessTransfer(l, m, private, topic, n) ==
  IF ~TransferAccepted(l, m, private)
  THEN l
  ELSE [l EXCEPT
          !.balance[m.tick] = Move(@, m.from, m.to, m.amount),
          !.holders[m.tick] = @ \cup {m.to},
          !.transactions    = Append(@, Record(m, m.from, m.to, topic, n)),
          !.processed       = @ + 1]

BurnAccepted(l, m, private) ==
  /\ Deployed(l, m.tick)
  /\ Authorized(m, private)
  /\ m.from \in l.holders[m.tick]
  /\ l.balance[m.tick][m.from] >= m.amount

ProcessBurn(l, m, private, topic, n) ==
  IF ~BurnAccepted(l, m, private)
  THEN l
  ELSE [l EXCEPT
          !.supply[m.tick]  = @ - m.amount,
          !.balance[m.tick] = Debit(@, m.from, m.amount),
          !.transactions    = Append(@, Record(m, m.from, 0, topic, n)),
          !.processed       = @ + 1]

(***************************************************************************)
(* The dispatch on the operation; a register message found on a points     *)
(* topic is parsed and then ignored.                                       *)
(***************************************************************************)
ProcessMessage(l, m, private, topic, n) ==
  CASE m.op = "deploy"   -> ProcessDeploy(l, m, private, topic)
    [] m.op = "mint"     -> ProcessMint(l, m, topic, n)
    [] m.op = "transfer" -> ProcessTransfer(l, m, private, topic, n)
    [] m.op = "burn"     -> ProcessBurn(l, m, private, topic, n)
    [] OTHER             -> l

(***************************************************************************)
(* What GetBalance reports.                                                *)
(***************************************************************************)
GetBalance(l, t, a) == IF a \in l.holders[t] THEN l.balance[t][a] ELSE 0

-----------------------------------------------------------------------------
(***************************************************************************)
(* Sums, as recursive functions over prefixes.                             *)
(***************************************************************************)
RunningTotal(bal) ==
  LET sum[a \in 0..NumAccounts] == IF a = 0 THEN 0 ELSE sum[a - 1] + bal[a]
  IN  sum

Total(bal) == RunningTotal(bal)[NumAccounts]

(***************************************************************************)
(* What a transaction adds to account a's balance of tick t, and what the  *)
(* first n transactions of txs add up to.                                  *)
(***************************************************************************)
Delta(tx, t, a) ==
  IF tx.tick # t THEN 0
  ELSE (IF tx.to = a THEN tx.amount ELSE 0) - (IF tx.from = a THEN tx.amount ELSE 0)

Replayed(txs, t, a) ==
  LET upto[n \in 0..Len(txs)] == IF n = 0 THEN 0 ELSE upto[n - 1] + Delta(txs[n], t, a)
  IN  upto[Len(txs)]

-----------------------------------------------------------------------------
(***************************************************************************)
(* What makes a ledger sound.                                              *)
(***************************************************************************)
Conserves(l) == \A t \in Ticks : Total(l.balance[t]) = l.supply[t]

WithinMax(l) ==
  \A t \in Ticks :
    IF Deployed(l, t)
    THEN l.supply[t] <= l.points[t].max
    ELSE l.supply[t] = 0 /\ l.holders[t] = {}

Audited(l) ==
  \A t \in Ticks, a \in Accounts : GetBalance(l, t, a) = Replayed(l.transactions, t, a)

LimitsKept(l) ==
  \A i \in DOMAIN l.transactions :
    LET tx == l.transactions[i] IN
    tx.op = "mint" =>
      /\ Deployed(l, tx.tick)
      /\ \/ l.points[tx.tick].limit = NoLimit
         \/ tx.amount <= l.points[tx.tick].limit

(***************************************************************************)
(* The part of it that every handler preserves: the ledger is well formed, *)
(* only key holders have points, the supply is the sum of the balances and *)
(* within the maximum, and the limits were kept.                           *)
(***************************************************************************)
HoldersOnly(l) ==
  \A t \in Ticks, a \in Accounts : a \notin l.holders[t] => l.balance[t][a] = 0

LedgerInv(l) ==
  /\ l \in Ledger
  /\ HoldersOnly(l)
  /\ Conserves(l)
  /\ WithinMax(l)
  /\ LimitsKept(l)

=============================================================================
