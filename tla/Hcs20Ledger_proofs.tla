-------------------------- MODULE Hcs20Ledger_proofs --------------------------
(***************************************************************************)
(* What the handlers of the points ledger preserve, for every set of ticks *)
(* and every number of accounts.                                           *)
(***************************************************************************)
EXTENDS Hcs20Ledger, WellFoundedInduction, TLAPS

(***************************************************************************)
(* Every non-empty set of naturals has a least element.                    *)
(***************************************************************************)
LEMMA LeastElement ==
  ASSUME NEW S \in SUBSET Nat, S # {}
  PROVE  \E m \in S : \A k \in S : m <= k
<1>1. \E m \in S : \A k \in S : ~ (<<k, m>> \in OpToRel(<, Nat))
  BY NatLessThanWellFounded, WFMin
<1>2. PICK m \in S : \A k \in S : ~ (<<k, m>> \in OpToRel(<, Nat))
  BY <1>1
<1>3. ASSUME NEW k \in S, ~ (m <= k) PROVE FALSE
  <2>1. k \in Nat /\ m \in Nat /\ k < m
    BY <1>3
  <2>2. <<k, m>> \in OpToRel(<, Nat)
    BY <2>1 DEF OpToRel
  <2> QED BY <2>2, <1>2
<1> QED BY <1>3

(***************************************************************************)
(* A sum over 1..n that is defined by recursion exists and is unique: the  *)
(* partial sums of d.                                                      *)
(***************************************************************************)
PartialSums(f, d, n) ==
  /\ f \in [0..n -> Int]
  /\ f[0] = 0
  /\ \A a \in 1..n : f[a] = f[a - 1] + d[a]

LEMMA PartialSumsExist ==
  ASSUME NEW N \in Nat, NEW d \in [1..N -> Int]
  PROVE  \E f : PartialSums(f, d, N)
<1> DEFINE Bad == {n \in 0..N : ~ \E f : PartialSums(f, d, n)}
<1>0. N \in 0..N
  OBVIOUS
<1>1. SUFFICES ASSUME Bad # {} PROVE FALSE
  BY <1>0
<1>2. Bad \in SUBSET Nat
  OBVIOUS
<1> HIDE DEF Bad
<1>3. PICK m \in Bad : \A k \in Bad : m <= k
  BY <1>1, <1>2, LeastElement
<1>4. m \in 0..N /\ ~ \E f : PartialSums(f, d, m)
  BY <1>3 DEF Bad
<1>5. m # 0
  <2>1. PartialSums([a \in 0..0 |-> 0], d, 0)
    BY DEF PartialSums
  <2> QED BY <2>1, <1>4
<1>6. m - 1 \in 0..N /\ m - 1 \notin Bad
  BY <1>3, <1>4, <1>5
<1>7. PICK f : PartialSums(f, d, m - 1)
  BY <1>6 DEF Bad
<1> DEFINE g == [a \in 0..m |-> IF a = m THEN f[m - 1] + d[m] ELSE f[a]]
<1>8. d[m] \in Int
  BY <1>4, <1>5
<1>9. PartialSums(g, d, m)
  <2>1. g \in [0..m -> Int]
    BY <1>4, <1>5, <1>7, <1>8 DEF PartialSums
  <2>2. g[0] = 0
    BY <1>4, <1>5, <1>7 DEF PartialSums
  <2>3. ASSUME NEW a \in 1..m PROVE g[a] = g[a - 1] + d[a]
    <3>1. CASE a = m
      BY <3>1, <1>4, <1>5
    <3>2. CASE a # m
      <4>1. a \in 1..(m - 1) BY <3>2, <1>4
      <4>2. f[a] = f[a - 1] + d[a] BY <4>1, <1>7 DEF PartialSums
      <4> QED BY <4>1, <4>2, <1>4
    <3> QED BY <3>1, <3>2
  <2> QED BY <2>1, <2>2, <2>3 DEF PartialSums
<1> QED BY <1>9, <1>4

LEMMA PartialSumsUnique ==
  ASSUME NEW N \in Nat, NEW d \in [1..N -> Int],
         NEW f, PartialSums(f, d, N), NEW g, PartialSums(g, d, N)
  PROVE  f = g
<1> DEFINE Bad == {n \in 0..N : f[n] # g[n]}
<1>1. Bad = {}
  <2> SUFFICES ASSUME Bad # {} PROVE FALSE
    OBVIOUS
  <2>1. Bad \in SUBSET Nat
    OBVIOUS
  <2>2. PICK m \in Bad : \A k \in Bad : m <= k
    BY <2>1, LeastElement
  <2>3. m \in 1..N
    BY <2>2 DEF PartialSums
  <2>4. m - 1 \in 0..N /\ m - 1 \notin Bad
    BY <2>2, <2>3
  <2>5. f[m] = f[m - 1] + d[m] /\ g[m] = g[m - 1] + d[m]
    BY <2>3 DEF PartialSums
  <2> QED BY <2>2, <2>4, <2>5
<1>2. \A n \in 0..N : f[n] = g[n]
  BY <1>1
<1>3. f \in [0..N -> Int] /\ g \in [0..N -> Int]
  BY DEF PartialSums
<1> QED BY <1>2, <1>3

LEMMA RunningTotalDef ==
  ASSUME NEW bal \in [Accounts -> Nat]
  PROVE  RunningTotal(bal) =
           [a \in 0..NumAccounts |->
              IF a = 0 THEN 0 ELSE RunningTotal(bal)[a - 1] + bal[a]]
<1> DEFINE Eq(f) == f = [a \in 0..NumAccounts |-> IF a = 0 THEN 0 ELSE f[a - 1] + bal[a]]
<1>0. NumAccounts \in Nat /\ bal \in [1..NumAccounts -> Int]
  BY AccountsAssumption DEF Accounts
<1>1. PICK f : PartialSums(f, bal, NumAccounts)
  BY <1>0, PartialSumsExist
<1>2. Eq(f)
  BY <1>1, <1>0 DEF PartialSums
<1>3. RunningTotal(bal) = CHOOSE h : Eq(h)
  BY DEF RunningTotal
<1> HIDE DEF Eq
<1>4. Eq(CHOOSE h : Eq(h))
  BY <1>2
<1> QED BY <1>3, <1>4 DEF Eq

LEMMA RunningTotalType ==
  ASSUME NEW bal \in [Accounts -> Nat]
  PROVE  RunningTotal(bal) \in [0..NumAccounts -> Nat]
<1> DEFINE rt == RunningTotal(bal)
           Bad == {n \in 0..NumAccounts : rt[n] \notin Nat}
<1>0. NumAccounts \in Nat BY AccountsAssumption
<1>1. rt = [a \in 0..NumAccounts |-> IF a = 0 THEN 0 ELSE rt[a - 1] + bal[a]]
  BY RunningTotalDef
<1> HIDE DEF rt
<1>2. Bad = {}
  <2> SUFFICES ASSUME Bad # {} PROVE FALSE
    OBVIOUS
  <2>1. Bad \in SUBSET Nat
    BY <1>0
  <2>2. PICK m \in Bad : \A k \in Bad : m <= k
    BY <2>1, LeastElement
  <2>3. m # 0
    BY <1>0, <1>1, <2>2
  <2>4. m - 1 \in 0..NumAccounts /\ m - 1 \notin Bad
    BY <1>0, <2>2, <2>3
  <2>5. rt[m] = rt[m - 1] + bal[m]
    BY <1>1, <2>2, <2>3
  <2>6. bal[m] \in Nat
    BY <1>0, <2>2, <2>3 DEF Accounts
  <2> QED BY <2>2, <2>4, <2>5, <2>6
<1>3. \A n \in 0..NumAccounts : rt[n] \in Nat
  BY <1>2
<1> QED BY <1>1, <1>3 DEF rt

(***************************************************************************)
(* Changing the balance of one account changes the total by as much.       *)
(***************************************************************************)
LEMMA TotalOfUpdate ==
  ASSUME NEW bal \in [Accounts -> Nat], NEW a \in Accounts, NEW v \in Nat
  PROVE  Total([bal EXCEPT ![a] = v]) = Total(bal) + (v - bal[a])
<1> DEFINE new == [bal EXCEPT ![a] = v]
           old == RunningTotal(bal)
           upd == RunningTotal(new)
           Bad == {n \in 0..NumAccounts :
                     upd[n] # old[n] + (IF n >= a THEN v - bal[a] ELSE 0)}
<1>0. NumAccounts \in Nat /\ a \in 1..NumAccounts /\ bal[a] \in Nat
  BY AccountsAssumption DEF Accounts
<1>1. new \in [Accounts -> Nat]
  OBVIOUS
<1>2. old = [n \in 0..NumAccounts |-> IF n = 0 THEN 0 ELSE old[n - 1] + bal[n]]
  BY RunningTotalDef
<1>3. upd = [n \in 0..NumAccounts |-> IF n = 0 THEN 0 ELSE upd[n - 1] + new[n]]
  BY <1>1, RunningTotalDef
<1>4. old \in [0..NumAccounts -> Nat] /\ upd \in [0..NumAccounts -> Nat]
  BY <1>1, RunningTotalType
<1>5. \A n \in 1..NumAccounts : new[n] = IF n = a THEN v ELSE bal[n]
  BY DEF Accounts
<1>6. \A n \in 1..NumAccounts : bal[n] \in Nat
  BY DEF Accounts
<1> HIDE DEF new, old, upd
<1>7. Bad = {}
  <2> SUFFICES ASSUME Bad # {} PROVE FALSE
    OBVIOUS
  <2>1. Bad \in SUBSET Nat
    BY <1>0
  <2>2. PICK m \in Bad : \A k \in Bad : m <= k
    BY <2>1, LeastElement
  <2>3. m # 0
    BY <1>0, <1>2, <1>3, <2>2
  <2>4. m \in 1..NumAccounts /\ m - 1 \in 0..NumAccounts /\ m - 1 \notin Bad
    BY <1>0, <2>2, <2>3
  <2>5. upd[m - 1] = old[m - 1] + (IF m - 1 >= a THEN v - bal[a] ELSE 0)
    BY <2>4
  <2>6. upd[m] = upd[m - 1] + new[m] /\ old[m] = old[m - 1] + bal[m]
    BY <1>2, <1>3, <2>3, <2>4
  <2>7. upd[m] = old[m] + (IF m >= a THEN v - bal[a] ELSE 0)
    <3>1. old[m - 1] \in Nat /\ upd[m - 1] \in Nat /\ bal[m] \in Nat
      BY <1>4, <1>6, <2>4
    <3>2. new[m] = IF m = a THEN v ELSE bal[m]
      BY <1>5, <2>4
    <3> QED BY <1>0, <2>4, <2>5, <2>6, <3>1, <3>2
  <2> QED BY <2>2, <2>7
<1>8. upd[NumAccounts] = old[NumAccounts] + (v - bal[a])
  BY <1>0, <1>7
<1> QED BY <1>8 DEF Total, old, upd, new

LEMMA TotalOfZero == Total([a \in Accounts |-> 0]) = 0
<1> DEFINE zero == [a \in Accounts |-> 0]
           rt == RunningTotal(zero)
           Bad == {n \in 0..NumAccounts : rt[n] # 0}
<1>0. NumAccounts \in Nat BY AccountsAssumption
<1>1. rt = [n \in 0..NumAccounts |-> IF n = 0 THEN 0 ELSE rt[n - 1] + zero[n]]
  BY RunningTotalDef
<1>2. \A n \in 1..NumAccounts : zero[n] = 0
  BY DEF Accounts
<1> HIDE DEF rt, zero
<1>3. Bad = {}
  <2> SUFFICES ASSUME Bad # {} PROVE FALSE
    OBVIOUS
  <2>1. Bad \in SUBSET Nat
    BY <1>0
  <2>2. PICK m \in Bad : \A k \in Bad : m <= k
    BY <2>1, LeastElement
  <2>3. m # 0
    BY <1>0, <1>1, <2>2
  <2>4. m \in 1..NumAccounts /\ m - 1 \in 0..NumAccounts /\ m - 1 \notin Bad
    BY <1>0, <2>2, <2>3
  <2> QED BY <1>1, <1>2, <2>2, <2>3, <2>4
<1> QED BY <1>0, <1>3 DEF Total, rt, zero

-----------------------------------------------------------------------------
(***************************************************************************)
(* What a balance sheet looks like after a credit, a debit and a move.     *)
(***************************************************************************)
LEMMA CreditTotal ==
  ASSUME NEW bal \in [Accounts -> Nat], NEW a \in Accounts, NEW n \in Nat
  PROVE  /\ Credit(bal, a, n) \in [Accounts -> Nat]
         /\ Total(Credit(bal, a, n)) = Total(bal) + n
<1>1. Credit(bal, a, n) = [bal EXCEPT ![a] = bal[a] + n]
  BY DEF Credit
<1>2. bal[a] \in Nat /\ bal[a] + n \in Nat
  OBVIOUS
<1>3. Total(bal) \in Nat
  BY RunningTotalType, AccountsAssumption DEF Total
<1>4. Total([bal EXCEPT ![a] = bal[a] + n]) = Total(bal) + ((bal[a] + n) - bal[a])
  BY <1>2, TotalOfUpdate
<1>5. Total(Credit(bal, a, n)) = Total(bal) + n
  BY <1>1, <1>2, <1>3, <1>4
<1>6. Credit(bal, a, n) \in [Accounts -> Nat]
  BY <1>1, <1>2
<1> QED BY <1>5, <1>6

LEMMA DebitTotal ==
  ASSUME NEW bal \in [Accounts -> Nat], NEW a \in Accounts, NEW n \in Nat, n <= bal[a]
  PROVE  /\ Debit(bal, a, n) \in [Accounts -> Nat]
         /\ Total(Debit(bal, a, n)) = Total(bal) - n
<1>1. Debit(bal, a, n) = [bal EXCEPT ![a] = bal[a] - n]
  BY DEF Debit
<1>2. bal[a] \in Nat /\ bal[a] - n \in Nat
  OBVIOUS
<1>3. Total(bal) \in Nat
  BY RunningTotalType, AccountsAssumption DEF Total
<1>4. Total([bal EXCEPT ![a] = bal[a] - n]) = Total(bal) + ((bal[a] - n) - bal[a])
  BY <1>2, TotalOfUpdate
<1>5. Total(Debit(bal, a, n)) = Total(bal) - n
  BY <1>1, <1>2, <1>3, <1>4
<1>6. Debit(bal, a, n) \in [Accounts -> Nat]
  BY <1>1, <1>2
<1> QED BY <1>5, <1>6

LEMMA MoveTotal ==
  ASSUME NEW bal \in [Accounts -> Nat], NEW from \in Accounts, NEW to \in Accounts,
         NEW n \in Nat, n <= bal[from]
  PROVE  /\ Move(bal, from, to, n) \in [Accounts -> Nat]
         /\ Total(Move(bal, from, to, n)) = Total(bal)
<1>1. Total(bal) \in Nat
  BY RunningTotalType, AccountsAssumption DEF Total
<1>2. /\ Debit(bal, from, n) \in [Accounts -> Nat]
      /\ Total(Debit(bal, from, n)) = Total(bal) - n
  BY DebitTotal
<1>3. /\ Move(bal, from, to, n) \in [Accounts -> Nat]
      /\ Total(Move(bal, from, to, n)) = Total(Debit(bal, from, n)) + n
  BY <1>2, CreditTotal DEF Move
<1>4. Total(Move(bal, from, to, n)) = (Total(bal) - n) + n
  BY <1>2, <1>3
<1> QED BY <1>1, <1>3, <1>4

(***************************************************************************)
(* An invariant of ledgers, handler by handler.                            *)
(***************************************************************************)
LEMMA EmptyLedgerSound == LedgerInv(EmptyLedger)
<1>1. EmptyLedger \in Ledger
  BY DEF EmptyLedger, Ledger
<1>2. Conserves(EmptyLedger)
  BY TotalOfZero DEF Conserves, EmptyLedger
<1>3. HoldersOnly(EmptyLedger) /\ WithinMax(EmptyLedger) /\ LimitsKept(EmptyLedger)
  BY DEF HoldersOnly, WithinMax, LimitsKept, Deployed, EmptyLedger
<1> QED BY <1>1, <1>2, <1>3 DEF LedgerInv

LEMMA DeploySound ==
  ASSUME NEW l, LedgerInv(l), NEW m \in DeployMessage, NEW private \in BOOLEAN,
         NEW topic \in Topics
  PROVE  LedgerInv(ProcessDeploy(l, m, private, topic))
<1> DEFINE info == [max |-> m.max, limit |-> m.limit, topic |-> topic,
                    deployer |-> m.payer, private |-> private]
           r == ProcessDeploy(l, m, private, topic)
<1>1. CASE Deployed(l, m.tick)
  BY <1>1 DEF ProcessDeploy
<1>2. CASE ~Deployed(l, m.tick)
  <2>1. l \in Ledger /\ m.tick \in Ticks /\ info \in PointsInfo
    BY DEF LedgerInv, DeployMessage, PointsInfo, Accounts
  <2>2. r = [points |-> [l.points EXCEPT ![m.tick] = info],
             supply |-> [l.supply EXCEPT ![m.tick] = 0],
             holders |-> l.holders, balance |-> l.balance,
             transactions |-> l.transactions, processed |-> l.processed + 1]
    BY <1>2, <2>1 DEF ProcessDeploy, Ledger
  <2>3. l.supply[m.tick] = 0
    BY <1>2, <2>1 DEF LedgerInv, WithinMax
  <2>4. r.supply = l.supply
    BY <2>1, <2>2, <2>3 DEF Ledger
  <2>5. info # NoPoints
    BY <2>1, NoPointsAssumption DEF PointsInfo, Accounts
  <2>6. r \in Ledger
    BY <2>1, <2>2 DEF Ledger
  <2>7. HoldersOnly(r) /\ Conserves(r)
    BY <2>2, <2>4 DEF LedgerInv, HoldersOnly, Conserves
  <2>8. WithinMax(r)
    <3>1. SUFFICES ASSUME NEW t \in Ticks
                   PROVE  IF Deployed(r, t) THEN r.supply[t] <= r.points[t].max
                          ELSE r.supply[t] = 0 /\ r.holders[t] = {}
      BY DEF WithinMax
    <3>2. CASE t = m.tick
      BY <2>1, <2>2, <2>3, <2>4, <2>5, <3>2 DEF Ledger, Deployed, PointsInfo
    <3>3. CASE t # m.tick
      BY <2>1, <2>2, <2>4, <3>3 DEF LedgerInv, Ledger, Deployed, WithinMax
    <3> QED BY <3>2, <3>3
  <2>9. LimitsKept(r)
    BY <1>2, <2>1, <2>2 DEF LedgerInv, Ledger, LimitsKept, Deployed
  <2> QED BY <2>6, <2>7, <2>8, <2>9 DEF LedgerInv
<1> QED BY <1>1, <1>2

(***************************************************************************)
(* Appending a record of a mint within the limit, or of another operation, *)
(* keeps the limits kept when the points are left as they were.            *)
(***************************************************************************)
LEMMA LimitsAfterAppend ==
  ASSUME NEW l \in Ledger, NEW r \in Ledger, LimitsKept(l), NEW tx,
         r.points = l.points, r.transactions = Append(l.transactions, tx),
         tx.op = "mint" => /\ Deployed(l, tx.tick)
                           /\ WithinLimit(tx.amount, l.points[tx.tick].limit)
  PROVE  LimitsKept(r)
<1>1. l.transactions \in Seq(Transaction)
  BY DEF Ledger
<1>2. SUFFICES ASSUME NEW i \in DOMAIN r.transactions, r.transactions[i].op = "mint"
               PROVE  /\ Deployed(r, r.transactions[i].tick)
                      /\ \/ r.points[r.transactions[i].tick].limit = NoLimit
                         \/ r.transactions[i].amount
                              <= r.points[r.transactions[i].tick].limit
  BY DEF LimitsKept
<1>3. CASE i \in DOMAIN l.transactions
  <2>1. r.transactions[i] = l.transactions[i]
    BY <1>1, <1>3
  <2> QED BY <1>2, <1>3, <2>1 DEF LimitsKept, Deployed
<1>4. CASE i \notin DOMAIN l.transactions
  <2>1. r.transactions[i] = tx
    BY <1>1, <1>2, <1>4
  <2> QED BY <1>2, <2>1 DEF WithinLimit, Deployed
<1> QED BY <1>3, <1>4

LEMMA MintSound ==
  ASSUME NEW l, LedgerInv(l), NEW m \in MintMessage, NEW topic \in Topics, NEW n \in Nat
  PROVE  LedgerInv(ProcessMint(l, m, topic, n))
<1> DEFINE tx == Record(m, 0, m.to, topic, n)
           r == ProcessMint(l, m, topic, n)
           bal == l.balance[m.tick]
<1>1. CASE ~MintAccepted(l, m)
  BY <1>1 DEF ProcessMint
<1>2. CASE MintAccepted(l, m)
  <2>1. l \in Ledger /\ m.op = "mint" /\ m.tick \in Ticks /\ m.to \in Accounts /\ m.amount \in Nat
    BY DEF LedgerInv, MintMessage
  <2>2. r = [points |-> l.points,
             supply |-> [l.supply EXCEPT ![m.tick] = @ + m.amount],
             holders |-> [l.holders EXCEPT ![m.tick] = @ \cup {m.to}],
             balance |-> [l.balance EXCEPT ![m.tick] = Credit(@, m.to, m.amount)],
             transactions |-> Append(l.transactions, tx),
             processed |-> l.processed + 1]
    BY <1>2, <2>1 DEF ProcessMint, Ledger
  <2>3. bal \in [Accounts -> Nat] /\ l.supply[m.tick] \in Nat /\ Total(bal) = l.supply[m.tick]
    BY <2>1 DEF LedgerInv, Ledger, Conserves
  <2>4. /\ Credit(bal, m.to, m.amount) \in [Accounts -> Nat]
        /\ Total(Credit(bal, m.to, m.amount)) = Total(bal) + m.amount
    BY <2>1, <2>3, CreditTotal
  <2>5. tx \in Transaction
    BY <2>1, AccountsAssumption DEF Record, Transaction, Accounts
  <2>6. r \in Ledger
    <3>1. r.balance \in [Ticks -> [Accounts -> Nat]] /\ r.supply \in [Ticks -> Nat]
      BY <2>1, <2>2, <2>3, <2>4, SMTT(40) DEF Ledger
    <3>2. r.holders \in [Ticks -> SUBSET Accounts]
      BY <2>1, <2>2 DEF Ledger
    <3>3. r.transactions \in Seq(Transaction) /\ r.processed \in Nat
      BY <2>1, <2>2, <2>5 DEF Ledger
    <3> QED BY <2>1, <2>2, <3>1, <3>2, <3>3, SMTT(40) DEF Ledger
  <2>7. HoldersOnly(r)
    BY <2>1, <2>2, <2>3 DEF LedgerInv, Ledger, HoldersOnly, Credit
  <2>8. Conserves(r)
    <3>1. SUFFICES ASSUME NEW t \in Ticks PROVE Total(r.balance[t]) = r.supply[t]
      BY DEF Conserves
    <3>2. CASE t = m.tick
      <4>1. r.balance[t] = Credit(bal, m.to, m.amount) /\ r.supply[t] = l.supply[m.tick] + m.amount
        BY <2>1, <2>2, <3>2 DEF Ledger
      <4> QED BY <2>3, <2>4, <4>1
    <3>3. CASE t # m.tick
      <4>1. r.balance[t] = l.balance[t] /\ r.supply[t] = l.supply[t]
        BY <2>1, <2>2, <3>3 DEF Ledger
      <4> QED BY <4>1 DEF LedgerInv, Conserves
    <3> QED BY <3>2, <3>3
  <2>9. WithinMax(r)
    <3>1. SUFFICES ASSUME NEW t \in Ticks
                   PROVE  IF Deployed(r, t) THEN r.supply[t] <= r.points[t].max
                          ELSE r.supply[t] = 0 /\ r.holders[t] = {}
      BY DEF WithinMax
    <3>2. r.points = l.points
      BY <2>2
    <3>3. CASE t = m.tick
      <4>1. r.supply[t] = l.supply[m.tick] + m.amount
        BY <2>1, <2>2, <3>3 DEF Ledger
      <4> QED BY <1>2, <3>2, <3>3, <4>1 DEF MintAccepted, Deployed
    <3>4. CASE t # m.tick
      <4>1. r.holders[t] = l.holders[t] /\ r.supply[t] = l.supply[t]
        BY <2>1, <2>2, <3>4 DEF Ledger
      <4> QED BY <3>2, <4>1 DEF LedgerInv, WithinMax, Deployed
    <3> QED BY <3>3, <3>4
  <2>10. LimitsKept(r)
    <3>1. tx.op = "mint" /\ tx.tick = m.tick /\ tx.amount = m.amount
      BY <2>1 DEF Record
    <3>2. Deployed(l, tx.tick) /\ WithinLimit(tx.amount, l.points[tx.tick].limit)
      BY <1>2, <3>1 DEF MintAccepted
    <3>3. r.points = l.points /\ r.transactions = Append(l.transactions, tx)
      BY <2>2
    <3>4. LimitsKept(l)
      BY DEF LedgerInv
    <3> HIDE DEF r, tx
    <3> QED BY <2>1, <2>6, <3>2, <3>3, <3>4, LimitsAfterAppend
  <2> QED BY <2>6, <2>7, <2>8, <2>9, <2>10 DEF LedgerInv
<1> QED BY <1>1, <1>2

LEMMA TransferSound ==
  ASSUME NEW l, LedgerInv(l), NEW m \in TransferMessage, NEW private \in BOOLEAN,
         NEW topic \in Topics, NEW n \in Nat
  PROVE  LedgerInv(ProcessTransfer(l, m, private, topic, n))
<1> DEFINE tx == Record(m, m.from, m.to, topic, n)
           r == ProcessTransfer(l, m, private, topic, n)
           bal == l.balance[m.tick]
<1>1. CASE ~TransferAccepted(l, m, private)
  BY <1>1 DEF ProcessTransfer
<1>2. CASE TransferAccepted(l, m, private)
  <2>1. /\ l \in Ledger /\ m.op = "transfer" /\ m.tick \in Ticks /\ m.amount \in Nat
        /\ m.from \in Accounts /\ m.to \in Accounts
    BY DEF LedgerInv, TransferMessage
  <2>2. r = [points |-> l.points,
             supply |-> l.supply,
             holders |-> [l.holders EXCEPT ![m.tick] = @ \cup {m.to}],
             balance |-> [l.balance EXCEPT ![m.tick] = Move(@, m.from, m.to, m.amount)],
             transactions |-> Append(l.transactions, tx),
             processed |-> l.processed + 1]
    BY <1>2, <2>1 DEF ProcessTransfer, Ledger
  <2>3. bal \in [Accounts -> Nat] /\ m.amount <= bal[m.from]
    BY <1>2, <2>1 DEF Ledger, TransferAccepted
  <2>4. /\ Move(bal, m.from, m.to, m.amount) \in [Accounts -> Nat]
        /\ Total(Move(bal, m.from, m.to, m.amount)) = Total(bal)
    BY <2>1, <2>3, MoveTotal, ZenonT(60)
  <2>5. tx \in Transaction
    BY <2>1, AccountsAssumption DEF Record, Transaction, Accounts
  <2>6. r \in Ledger
    <3>1. r.balance \in [Ticks -> [Accounts -> Nat]]
      BY <2>1, <2>2, <2>3, <2>4 DEF Ledger
    <3>2. r.holders \in [Ticks -> SUBSET Accounts]
      BY <2>1, <2>2 DEF Ledger
    <3>3. r.transactions \in Seq(Transaction) /\ r.processed \in Nat
      BY <2>1, <2>2, <2>5 DEF Ledger
    <3> QED BY <2>1, <2>2, <3>1, <3>2, <3>3 DEF Ledger
  <2>7. HoldersOnly(r)
    BY <1>2, <2>1, <2>2, <2>3, SMTT(40)
      DEF LedgerInv, Ledger, HoldersOnly, TransferAccepted, Move, Credit, Debit
  <2>8. Conserves(r)
    <3>1. SUFFICES ASSUME NEW t \in Ticks PROVE Total(r.balance[t]) = r.supply[t]
      BY DEF Conserves
    <3>2. r.supply[t] = l.supply[t] /\ Total(l.balance[t]) = l.supply[t]
      BY <2>2 DEF LedgerInv, Conserves
    <3>3. CASE t = m.tick
      <4>1. r.balance[t] = Move(bal, m.from, m.to, m.amount)
        BY <2>1, <2>2, <3>3 DEF Ledger
      <4> QED BY <2>4, <3>2, <3>3, <4>1
    <3>4. CASE t # m.tick
      <4>1. r.balance[t] = l.balance[t]
        BY <2>1, <2>2, <3>4 DEF Ledger
      <4> QED BY <3>2, <4>1
    <3> QED BY <3>3, <3>4
  <2>9. WithinMax(r)
    <3>1. SUFFICES ASSUME NEW t \in Ticks
                   PROVE  IF Deployed(r, t) THEN r.supply[t] <= r.points[t].max
                          ELSE r.supply[t] = 0 /\ r.holders[t] = {}
      BY DEF WithinMax
    <3>2. r.points = l.points /\ r.supply = l.supply
      BY <2>2
    <3>3. CASE t = m.tick
      <4>1. Deployed(l, t)
        BY <1>2, <3>3 DEF LedgerInv, WithinMax, TransferAccepted
      <4> QED BY <3>2, <4>1 DEF LedgerInv, WithinMax, Deployed
    <3>4. CASE t # m.tick
      <4>1. r.holders[t] = l.holders[t]
        BY <2>1, <2>2, <3>4 DEF Ledger
      <4> QED BY <3>2, <4>1 DEF LedgerInv, WithinMax, Deployed
    <3> QED BY <3>3, <3>4
  <2>10. LimitsKept(r)
    <3>1. tx.op # "mint"
      BY <2>1 DEF Record
    <3>2. r.points = l.points /\ r.transactions = Append(l.transactions, tx)
      BY <2>2
    <3>3. LimitsKept(l)
      BY DEF LedgerInv
    <3> HIDE DEF r, tx
    <3> QED BY <2>1, <2>6, <3>1, <3>2, <3>3, LimitsAfterAppend
  <2> QED BY <2>6, <2>7, <2>8, <2>9, <2>10 DEF LedgerInv
<1> QED BY <1>1, <1>2

LEMMA BurnSound ==
  ASSUME NEW l, LedgerInv(l), NEW m \in BurnMessage, NEW private \in BOOLEAN,
         NEW topic \in Topics, NEW n \in Nat
  PROVE  LedgerInv(ProcessBurn(l, m, private, topic, n))
<1> DEFINE tx == Record(m, m.from, 0, topic, n)
           r == ProcessBurn(l, m, private, topic, n)
           bal == l.balance[m.tick]
<1>1. CASE ~BurnAccepted(l, m, private)
  BY <1>1 DEF ProcessBurn
<1>2. CASE BurnAccepted(l, m, private)
  <2>1. /\ l \in Ledger /\ m.op = "burn" /\ m.tick \in Ticks /\ m.amount \in Nat
        /\ m.from \in Accounts
    BY DEF LedgerInv, BurnMessage
  <2>2. r = [points |-> l.points,
             supply |-> [l.supply EXCEPT ![m.tick] = @ - m.amount],
             holders |-> l.holders,
             balance |-> [l.balance EXCEPT ![m.tick] = Debit(@, m.from, m.amount)],
             transactions |-> Append(l.transactions, tx),
             processed |-> l.processed + 1]
    BY <1>2, <2>1 DEF ProcessBurn, Ledger
  <2>3. /\ bal \in [Accounts -> Nat] /\ m.amount <= bal[m.from]
        /\ l.supply[m.tick] \in Nat /\ Total(bal) = l.supply[m.tick]
    BY <1>2, <2>1 DEF LedgerInv, Ledger, Conserves, BurnAccepted
  <2>4. /\ Debit(bal, m.from, m.amount) \in [Accounts -> Nat]
        /\ Total(Debit(bal, m.from, m.amount)) = Total(bal) - m.amount
    BY <2>1, <2>3, DebitTotal
  <2>5. l.supply[m.tick] - m.amount \in Nat
    <3>1. Total(Debit(bal, m.from, m.amount)) \in Nat
      BY <2>4, RunningTotalType, AccountsAssumption DEF Total
    <3> QED BY <2>3, <2>4, <3>1
  <2>6. tx \in Transaction
    BY <2>1, AccountsAssumption DEF Record, Transaction, Accounts
  <2>7. r \in Ledger
    <3>1. r.balance \in [Ticks -> [Accounts -> Nat]] /\ r.supply \in [Ticks -> Nat]
      BY <2>1, <2>2, <2>3, <2>4, <2>5 DEF Ledger
    <3>2. r.transactions \in Seq(Transaction) /\ r.processed \in Nat
      BY <2>1, <2>2, <2>6 DEF Ledger
    <3> QED BY <2>1, <2>2, <3>1, <3>2, SMTT(40) DEF Ledger
  <2>8. HoldersOnly(r)
    BY <1>2, <2>1, <2>2, <2>3 DEF LedgerInv, Ledger, HoldersOnly, BurnAccepted, Debit
  <2>9. Conserves(r)
    <3>1. SUFFICES ASSUME NEW t \in Ticks PROVE Total(r.balance[t]) = r.supply[t]
      BY DEF Conserves
    <3>2. CASE t = m.tick
      <4>1. /\ r.balance[t] = Debit(bal, m.from, m.amount)
            /\ r.supply[t] = l.supply[m.tick] - m.amount
        BY <2>1, <2>2, <3>2 DEF Ledger
      <4> QED BY <2>3, <2>4, <4>1
    <3>3. CASE t # m.tick
      <4>1. r.balance[t] = l.balance[t] /\ r.supply[t] = l.supply[t]
        BY <2>1, <2>2, <3>3 DEF Ledger
      <4> QED BY <4>1 DEF LedgerInv, Conserves
    <3> QED BY <3>2, <3>3
  <2>10. WithinMax(r)
    <3>1. SUFFICES ASSUME NEW t \in Ticks
                   PROVE  IF Deployed(r, t) THEN r.supply[t] <= r.points[t].max
                          ELSE r.supply[t] = 0 /\ r.holders[t] = {}
      BY DEF WithinMax
    <3>2. r.points = l.points /\ r.holders = l.holders
      BY <2>2
    <3>3. CASE t = m.tick
      <4>1. r.supply[t] = l.supply[m.tick] - m.amount
        BY <2>1, <2>2, <3>3 DEF Ledger
      <4>2. Deployed(l, t) /\ l.points[t].max \in Nat /\ l.supply[t] <= l.points[t].max
        BY <1>2, <2>1, <3>3 DEF LedgerInv, Ledger, PointsInfo, WithinMax, BurnAccepted, Deployed
      <4> QED BY <2>1, <2>3, <3>2, <3>3, <4>1, <4>2 DEF Deployed
    <3>4. CASE t # m.tick
      <4>1. r.supply[t] = l.supply[t]
        BY <2>1, <2>2, <3>4 DEF Ledger
      <4> QED BY <3>2, <4>1 DEF LedgerInv, WithinMax, Deployed
    <3> QED BY <3>3, <3>4
  <2>11. LimitsKept(r)
    <3>1. tx.op # "mint"
      BY <2>1 DEF Record
    <3>2. r.points = l.points /\ r.transactions = Append(l.transactions, tx)
      BY <2>2
    <3>3. LimitsKept(l)
      BY DEF LedgerInv
    <3> HIDE DEF r, tx
    <3> QED BY <2>1, <2>7, <3>1, <3>2, <3>3, LimitsAfterAppend
  <2> QED BY <2>7, <2>8, <2>9, <2>10, <2>11 DEF LedgerInv
<1> QED BY <1>1, <1>2

(***************************************************************************)
(* No message makes a sound ledger unsound, wherever it came from.         *)
(***************************************************************************)
THEOREM ProcessMessageSound ==
  ASSUME NEW l, LedgerInv(l), NEW m \in Message, NEW private \in BOOLEAN,
         NEW topic \in Topics, NEW n \in Nat
  PROVE  LedgerInv(ProcessMessage(l, m, private, topic, n))
<1>1. CASE m \in DeployMessage
  BY <1>1, DeploySound DEF ProcessMessage, DeployMessage
<1>2. CASE m \in MintMessage
  BY <1>2, MintSound DEF ProcessMessage, MintMessage
<1>3. CASE m \in TransferMessage
  BY <1>3, TransferSound DEF ProcessMessage, TransferMessage
<1>4. CASE m \in BurnMessage
  BY <1>4, BurnSound DEF ProcessMessage, BurnMessage
<1>5. CASE m \in RegisterMessage
  BY <1>5 DEF ProcessMessage, RegisterMessage
<1> QED BY <1>1, <1>2, <1>3, <1>4, <1>5 DEF Message

-----------------------------------------------------------------------------
(***************************************************************************)
(* A handler records at most one transaction, under the topic and sequence *)
(* number it was given; points leave an account only with the payer's      *)
(* consent or under a private ruling.                                      *)
(***************************************************************************)
Recorded(l, r, m, private, t, n) ==
  \/ r.transactions = l.transactions
  \/ \E tx \in Transaction :
       /\ tx.topic = t /\ tx.seq = n
       /\ tx.op = "mint" \/ private \/ m.payer = tx.from
       /\ r.transactions = Append(l.transactions, tx)

LEMMA RecordsOnce ==
  ASSUME NEW l \in Ledger, NEW m \in Message, NEW private \in BOOLEAN,
         NEW t \in Topics, NEW n \in Nat
  PROVE  Recorded(l, ProcessMessage(l, m, private, t, n), m, private, t, n)
<1>0. NumAccounts \in Nat
  BY AccountsAssumption
<1>1. CASE m \in DeployMessage
  BY <1>1 DEF DeployMessage, ProcessMessage, ProcessDeploy, Recorded, Ledger
<1>2. CASE m \in MintMessage
  <2>1. Record(m, 0, m.to, t, n) \in Transaction
    BY <1>0, <1>2 DEF MintMessage, Record, Transaction, Accounts
  <2>2. /\ Record(m, 0, m.to, t, n).topic = t /\ Record(m, 0, m.to, t, n).seq = n
        /\ Record(m, 0, m.to, t, n).op = "mint"
    BY <1>2 DEF Record, MintMessage
  <2> QED BY <1>2, <2>1, <2>2 DEF MintMessage, ProcessMessage, ProcessMint, Recorded, Ledger
<1>3. CASE m \in TransferMessage
  <2> DEFINE tx == Record(m, m.from, m.to, t, n)
             r  == ProcessMessage(l, m, private, t, n)
  <2>1. tx \in Transaction
    BY <1>0, <1>3 DEF TransferMessage, Record, Transaction, Accounts
  <2>2. tx.topic = t /\ tx.seq = n /\ tx.from = m.from
    BY DEF Record
  <2>3. r = ProcessTransfer(l, m, private, t, n)
    BY <1>3 DEF TransferMessage, ProcessMessage
  <2>4. CASE ~TransferAccepted(l, m, private)
    BY <2>3, <2>4 DEF ProcessTransfer, Recorded
  <2>5. CASE TransferAccepted(l, m, private)
    <3>1. private \/ m.payer = tx.from
      BY <2>2, <2>5 DEF TransferAccepted, Authorized
    <3>2. r.transactions = Append(l.transactions, tx)
      BY <2>3, <2>5 DEF ProcessTransfer, Ledger
    <3> HIDE DEF tx, r
    <3>3. Recorded(l, r, m, private, t, n)
      BY <2>1, <2>2, <3>1, <3>2 DEF Recorded
    <3> QED BY <3>3 DEF r
  <2> QED BY <2>4, <2>5
<1>4. CASE m \in BurnMessage
  <2> DEFINE tx == Record(m, m.from, 0, t, n)
             r  == ProcessMessage(l, m, private, t, n)
  <2>1. tx \in Transaction
    BY <1>0, <1>4 DEF BurnMessage, Record, Transaction, Accounts
  <2>2. tx.topic = t /\ tx.seq = n /\ tx.from = m.from
    BY DEF Record
  <2>3. r = ProcessBurn(l, m, private, t, n)
    BY <1>4 DEF BurnMessage, ProcessMessage
  <2>4. CASE ~BurnAccepted(l, m, private)
    BY <2>3, <2>4 DEF ProcessBurn, Recorded
  <2>5. CASE BurnAccepted(l, m, private)
    <3>1. private \/ m.payer = tx.from
      BY <2>2, <2>5 DEF BurnAccepted, Authorized
    <3>2. r.transactions = Append(l.transactions, tx)
      BY <2>3, <2>5 DEF ProcessBurn, Ledger
    <3> HIDE DEF tx, r
    <3>3. Recorded(l, r, m, private, t, n)
      BY <2>1, <2>2, <3>1, <3>2 DEF Recorded
    <3> QED BY <3>3 DEF r
  <2> QED BY <2>4, <2>5
<1>5. CASE m \in RegisterMessage
  BY <1>5 DEF RegisterMessage, ProcessMessage, Recorded
<1> QED BY <1>1, <1>2, <1>3, <1>4, <1>5 DEF Message

-----------------------------------------------------------------------------
(***************************************************************************)
(* The audit: what the recorded transactions add up to.                    *)
(***************************************************************************)
Deltas(txs, t, a) == [n \in 1..Len(txs) |-> Delta(txs[n], t, a)]

LEMMA DeltaType ==
  ASSUME NEW tx \in Transaction, NEW t \in Ticks, NEW a \in Accounts
  PROVE  Delta(tx, t, a) \in Int
BY DEF Delta, Transaction

LEMMA DeltasType ==
  ASSUME NEW txs \in Seq(Transaction), NEW t \in Ticks, NEW a \in Accounts
  PROVE  Len(txs) \in Nat /\ Deltas(txs, t, a) \in [1..Len(txs) -> Int]
<1>1. \A n \in 1..Len(txs) : txs[n] \in Transaction
  OBVIOUS
<1> QED BY <1>1, DeltaType DEF Deltas

LEMMA ReplayedIsSum ==
  ASSUME NEW txs \in Seq(Transaction), NEW t \in Ticks, NEW a \in Accounts,
         NEW f, PartialSums(f, Deltas(txs, t, a), Len(txs))
  PROVE  Replayed(txs, t, a) = f[Len(txs)]
<1> DEFINE Eq(h) == h = [n \in 0..Len(txs) |->
                           IF n = 0 THEN 0 ELSE h[n - 1] + Delta(txs[n], t, a)]
           upto  == CHOOSE h : Eq(h)
<1>1. Replayed(txs, t, a) = upto[Len(txs)]
  BY DEF Replayed
<1>2. Len(txs) \in Nat /\ Deltas(txs, t, a) \in [1..Len(txs) -> Int]
  BY DeltasType
<1>3. \A n \in 1..Len(txs) : Deltas(txs, t, a)[n] = Delta(txs[n], t, a)
  BY DEF Deltas
<1>4. Eq(f)
  BY <1>2, <1>3 DEF PartialSums
<1> HIDE DEF Eq
<1>5. Eq(upto)
  BY <1>4
<1> HIDE DEF upto
<1>6. upto = [n \in 0..Len(txs) |-> IF n = 0 THEN 0 ELSE upto[n - 1] + Delta(txs[n], t, a)]
  BY <1>5 DEF Eq
<1>7. PartialSums(upto, Deltas(txs, t, a), Len(txs))
  <2> DEFINE Bad == {n \in 0..Len(txs) : upto[n] \notin Int}
  <2>1. Bad = {}
    <3> SUFFICES ASSUME Bad # {} PROVE FALSE
      OBVIOUS
    <3>1. Bad \in SUBSET Nat
      BY <1>2
    <3>2. PICK m \in Bad : \A k \in Bad : m <= k
      BY <3>1, LeastElement
    <3>3. m \in 1..Len(txs)
      BY <1>2, <1>6, <3>2
    <3>4. m - 1 \in 0..Len(txs) /\ m - 1 \notin Bad
      <4>1. PICK N \in Nat : N = Len(txs)
        BY <1>2
      <4>2. m \in 1..N
        BY <3>3, <4>1
      <4>3. m - 1 \in 0..N /\ ~(m <= m - 1)
        BY <4>1, <4>2
      <4> HIDE DEF Bad
      <4> QED BY <3>2, <4>1, <4>3
    <3>5. upto[m] = upto[m - 1] + Deltas(txs, t, a)[m] /\ Deltas(txs, t, a)[m] \in Int
      <4>1. m \in 0..Len(txs) /\ m # 0
        BY <1>2, <3>3
      <4>2. upto[m] = upto[m - 1] + Delta(txs[m], t, a)
        BY <1>6, <4>1
      <4> QED BY <1>2, <1>3, <3>3, <4>2
    <3> QED BY <3>2, <3>4, <3>5
  <2>2. \A n \in 0..Len(txs) : upto[n] \in Int
    BY <2>1
  <2>3. upto[0] = 0 /\ \A n \in 1..Len(txs) : upto[n] = upto[n - 1] + Delta(txs[n], t, a)
    BY <1>2, <1>6
  <2> QED BY <1>2, <1>3, <1>6, <2>2, <2>3 DEF PartialSums
<1> QED BY <1>1, <1>2, <1>7, PartialSumsUnique

LEMMA ReplayedEmpty ==
  ASSUME NEW t \in Ticks, NEW a \in Accounts
  PROVE  Replayed(<< >>, t, a) = 0
<1>1. PartialSums([n \in 0..0 |-> 0], Deltas(<< >>, t, a), Len(<< >>))
  BY DEF PartialSums
<1>2. << >> \in Seq(Transaction) /\ Len(<< >>) = 0
  OBVIOUS
<1>3. Replayed(<< >>, t, a) = [n \in 0..0 |-> 0][0]
  BY <1>1, <1>2, ReplayedIsSum
<1> QED BY <1>3

LEMMA ReplayedAppend ==
  ASSUME NEW txs \in Seq(Transaction), NEW tx \in Transaction,
         NEW t \in Ticks, NEW a \in Accounts
  PROVE  /\ Replayed(txs, t, a) \in Int
         /\ Replayed(Append(txs, tx), t, a) = Replayed(txs, t, a) + Delta(tx, t, a)
<1> DEFINE n == Len(txs)
           d == Deltas(txs, t, a)
           e == Deltas(Append(txs, tx), t, a)
<1>1. n \in Nat /\ d \in [1..n -> Int] /\ Delta(tx, t, a) \in Int
  BY DeltasType, DeltaType
<1>2. Append(txs, tx) \in Seq(Transaction) /\ Len(Append(txs, tx)) = n + 1
  OBVIOUS
<1>3. e[n + 1] = Delta(tx, t, a) /\ \A i \in 1..n : e[i] = d[i]
  <2>1. Append(txs, tx)[n + 1] = tx /\ \A i \in 1..n : Append(txs, tx)[i] = txs[i]
    OBVIOUS
  <2> QED BY <1>1, <1>2, <2>1 DEF Deltas
<1> HIDE DEF d, e
<1>4. PICK f : PartialSums(f, d, n)
  BY <1>1, PartialSumsExist
<1> DEFINE g == [i \in 0..(n + 1) |-> IF i = n + 1 THEN f[n] + Delta(tx, t, a) ELSE f[i]]
<1>5. PartialSums(g, e, n + 1)
  <2>1. f \in [0..n -> Int] /\ f[0] = 0 /\ \A i \in 1..n : f[i] = f[i - 1] + d[i]
    BY <1>4 DEF PartialSums
  <2>2. g \in [0..(n + 1) -> Int] /\ g[0] = 0
    BY <1>1, <2>1
  <2>3. ASSUME NEW i \in 1..(n + 1) PROVE g[i] = g[i - 1] + e[i]
    <3>1. CASE i = n + 1
      BY <1>1, <1>3, <3>1
    <3>2. CASE i # n + 1
      <4>1. /\ i \in 1..n /\ i \in 0..(n + 1) /\ i - 1 \in 0..(n + 1)
            /\ i # n + 1 /\ i - 1 # n + 1
        <5> HIDE DEF n
        <5> QED BY <1>1, <3>2
      <4>2. g[i] = f[i] /\ g[i - 1] = f[i - 1]
        <5> HIDE DEF n
        <5> QED BY <4>1
      <4>3. e[i] = d[i] /\ f[i] = f[i - 1] + d[i]
        BY <1>3, <2>1, <4>1
      <4> HIDE DEF g
      <4> QED BY <4>2, <4>3
    <3> QED BY <3>1, <3>2
  <2> QED BY <2>2, <2>3 DEF PartialSums
<1>6. Replayed(txs, t, a) = f[n]
  BY <1>4, ReplayedIsSum DEF d
<1>7. Replayed(Append(txs, tx), t, a) = g[n + 1]
  BY <1>2, <1>5, ReplayedIsSum DEF e
<1>8. f[n] \in Int /\ g[n + 1] = f[n] + Delta(tx, t, a)
  BY <1>1, <1>4 DEF PartialSums
<1> QED BY <1>6, <1>7, <1>8

(***************************************************************************)
(* A handler that records tx and changes the balances by what tx says      *)
(* keeps the books; one that records nothing must not change a balance.    *)
(***************************************************************************)
LEMMA BalanceReported ==
  ASSUME NEW l, LedgerInv(l), NEW t \in Ticks, NEW a \in Accounts
  PROVE  GetBalance(l, t, a) = l.balance[t][a]
BY DEF LedgerInv, HoldersOnly, GetBalance

LEMMA AuditAfterAppend ==
  ASSUME NEW l, LedgerInv(l), Audited(l), NEW r, LedgerInv(r), NEW tx \in Transaction,
         r.transactions = Append(l.transactions, tx),
         \A t \in Ticks, a \in Accounts :
            r.balance[t][a] = l.balance[t][a] + Delta(tx, t, a)
  PROVE  Audited(r)
<1> SUFFICES ASSUME NEW t \in Ticks, NEW a \in Accounts
             PROVE  GetBalance(r, t, a) = Replayed(r.transactions, t, a)
  BY DEF Audited
<1>1. GetBalance(r, t, a) = r.balance[t][a] /\ GetBalance(l, t, a) = l.balance[t][a]
  BY BalanceReported
<1>2. l.transactions \in Seq(Transaction)
  BY DEF LedgerInv, Ledger
<1>3. Replayed(r.transactions, t, a) = Replayed(l.transactions, t, a) + Delta(tx, t, a)
  BY <1>2, ReplayedAppend
<1>4. GetBalance(l, t, a) = Replayed(l.transactions, t, a)
  BY DEF Audited
<1> QED BY <1>1, <1>3, <1>4

LEMMA AuditUnchanged ==
  ASSUME NEW l, LedgerInv(l), Audited(l), NEW r, LedgerInv(r),
         r.transactions = l.transactions, r.balance = l.balance
  PROVE  Audited(r)
BY BalanceReported DEF Audited

LEMMA EmptyLedgerAudited == Audited(EmptyLedger)
<1>1. \A t \in Ticks, a \in Accounts : GetBalance(EmptyLedger, t, a) = 0
  BY DEF GetBalance, EmptyLedger
<1>2. EmptyLedger.transactions = << >>
  BY DEF EmptyLedger
<1> QED BY <1>1, <1>2, ReplayedEmpty DEF Audited

LEMMA MintAudited ==
  ASSUME NEW l, LedgerInv(l), Audited(l), NEW m \in MintMessage,
         NEW topic \in Topics, NEW n \in Nat
  PROVE  Audited(ProcessMint(l, m, topic, n))
<1> DEFINE tx == Record(m, 0, m.to, topic, n)
           r  == ProcessMint(l, m, topic, n)
<1>1. CASE ~MintAccepted(l, m)
  BY <1>1 DEF ProcessMint
<1>2. CASE MintAccepted(l, m)
  <2>1. l \in Ledger /\ m.op = "mint" /\ m.tick \in Ticks /\ m.to \in Accounts /\ m.amount \in Nat
    BY DEF LedgerInv, MintMessage
  <2>2. /\ r.transactions = Append(l.transactions, tx)
        /\ r.balance = [l.balance EXCEPT ![m.tick] = Credit(@, m.to, m.amount)]
    BY <1>2, <2>1 DEF ProcessMint, Ledger
  <2>3. tx \in Transaction /\ tx.tick = m.tick /\ tx.to = m.to /\ tx.from = 0 /\ tx.amount = m.amount
    BY <2>1, AccountsAssumption DEF Record, Transaction, Accounts
  <2>4. ASSUME NEW t \in Ticks, NEW a \in Accounts
        PROVE  r.balance[t][a] = l.balance[t][a] + Delta(tx, t, a)
    <3>1. l.balance \in [Ticks -> [Accounts -> Nat]] /\ l.balance[t][a] \in Nat
      BY <2>1 DEF Ledger
    <3>2. a # 0
      BY AccountsAssumption DEF Accounts
    <3>3. CASE t = m.tick
      <4>1. r.balance[t] = Credit(l.balance[t], m.to, m.amount)
        BY <2>1, <2>2, <3>1, <3>3
      <4>2. Delta(tx, t, a) = IF m.to = a THEN m.amount ELSE 0
        BY <2>1, <2>3, <3>2, <3>3 DEF Delta
      <4> QED BY <2>1, <3>1, <4>1, <4>2 DEF Credit
    <3>4. CASE t # m.tick
      BY <2>1, <2>2, <2>3, <3>1, <3>4 DEF Delta
    <3> QED BY <3>3, <3>4
  <2>5. LedgerInv(r)
    BY MintSound
  <2> HIDE DEF tx, r
  <2>6. tx \in Transaction /\ r.transactions = Append(l.transactions, tx)
    BY <2>2, <2>3
  <2>7. \A t \in Ticks, a \in Accounts : r.balance[t][a] = l.balance[t][a] + Delta(tx, t, a)
    BY <2>4
  <2>8. Audited(r)
    BY <2>5, <2>6, <2>7, AuditAfterAppend
  <2> QED BY <2>8 DEF r
<1> QED BY <1>1, <1>2

LEMMA TransferAudited ==
  ASSUME NEW l, LedgerInv(l), Audited(l), NEW m \in TransferMessage, NEW private \in BOOLEAN,
         NEW topic \in Topics, NEW n \in Nat
  PROVE  Audited(ProcessTransfer(l, m, private, topic, n))
<1> DEFINE tx == Record(m, m.from, m.to, topic, n)
           r  == ProcessTransfer(l, m, private, topic, n)
<1>1. CASE ~TransferAccepted(l, m, private)
  BY <1>1 DEF ProcessTransfer
<1>2. CASE TransferAccepted(l, m, private)
  <2>1. /\ l \in Ledger /\ m.op = "transfer" /\ m.tick \in Ticks /\ m.amount \in Nat
        /\ m.from \in Accounts /\ m.to \in Accounts
    BY DEF LedgerInv, TransferMessage
  <2>2. /\ r.transactions = Append(l.transactions, tx)
        /\ r.balance = [l.balance EXCEPT ![m.tick] = Move(@, m.from, m.to, m.amount)]
    BY <1>2, <2>1 DEF ProcessTransfer, Ledger
  <2>3. /\ tx \in Transaction /\ tx.tick = m.tick /\ tx.to = m.to /\ tx.from = m.from
        /\ tx.amount = m.amount
    BY <2>1, AccountsAssumption DEF Record, Transaction, Accounts
  <2>4. ASSUME NEW t \in Ticks, NEW a \in Accounts
        PROVE  r.balance[t][a] = l.balance[t][a] + Delta(tx, t, a)
    <3>1. l.balance \in [Ticks -> [Accounts -> Nat]] /\ l.balance[t][a] \in Nat
      BY <2>1 DEF Ledger
    <3>2. CASE t = m.tick
      <4> DEFINE bal == l.balance[t]
      <4>1. r.balance[t] = Move(bal, m.from, m.to, m.amount) /\ bal \in [Accounts -> Nat]
        BY <2>1, <2>2, <3>1, <3>2
      <4>2. Delta(tx, t, a) = (IF m.to = a THEN m.amount ELSE 0)
                               - (IF m.from = a THEN m.amount ELSE 0)
        BY <2>1, <2>3, <3>2 DEF Delta
      <4> HIDE DEF bal
      <4>3. /\ DOMAIN Debit(bal, m.from, m.amount) = Accounts
            /\ \A b \in Accounts : Debit(bal, m.from, m.amount)[b]
                                    = bal[b] - (IF m.from = b THEN m.amount ELSE 0)
        BY <2>1, <4>1 DEF Debit
      <4>4. Move(bal, m.from, m.to, m.amount)[a]
              = bal[a] - (IF m.from = a THEN m.amount ELSE 0) + (IF m.to = a THEN m.amount ELSE 0)
        BY <2>1, <4>1, <4>3 DEF Move, Credit
      <4> QED BY <2>1, <4>1, <4>2, <4>4 DEF bal
    <3>3. CASE t # m.tick
      BY <2>1, <2>2, <2>3, <3>1, <3>3 DEF Delta
    <3> QED BY <3>2, <3>3
  <2>5. LedgerInv(r)
    BY TransferSound
  <2> HIDE DEF tx, r
  <2>6. tx \in Transaction /\ r.transactions = Append(l.transactions, tx)
    BY <2>2, <2>3
  <2>7. \A t \in Ticks, a \in Accounts : r.balance[t][a] = l.balance[t][a] + Delta(tx, t, a)
    BY <2>4
  <2>8. Audited(r)
    BY <2>5, <2>6, <2>7, AuditAfterAppend
  <2> QED BY <2>8 DEF r
<1> QED BY <1>1, <1>2

LEMMA BurnAudited ==
  ASSUME NEW l, LedgerInv(l), Audited(l), NEW m \in BurnMessage, NEW private \in BOOLEAN,
         NEW topic \in Topics, NEW n \in Nat
  PROVE  Audited(ProcessBurn(l, m, private, topic, n))
<1> DEFINE tx == Record(m, m.from, 0, topic, n)
           r  == ProcessBurn(l, m, private, topic, n)
<1>1. CASE ~BurnAccepted(l, m, private)
  BY <1>1 DEF ProcessBurn
<1>2. CASE BurnAccepted(l, m, private)
  <2>1. /\ l \in Ledger /\ m.op = "burn" /\ m.tick \in Ticks /\ m.amount \in Nat
        /\ m.from \in Accounts
    BY DEF LedgerInv, BurnMessage
  <2>2. /\ r.transactions = Append(l.transactions, tx)
        /\ r.balance = [l.balance EXCEPT ![m.tick] = Debit(@, m.from, m.amount)]
    BY <1>2, <2>1 DEF ProcessBurn, Ledger
  <2>3. /\ tx \in Transaction /\ tx.tick = m.tick /\ tx.to = 0 /\ tx.from = m.from
        /\ tx.amount = m.amount
    BY <2>1, AccountsAssumption DEF Record, Transaction, Accounts
  <2>4. ASSUME NEW t \in Ticks, NEW a \in Accounts
        PROVE  r.balance[t][a] = l.balance[t][a] + Delta(tx, t, a)
    <3>1. l.balance \in [Ticks -> [Accounts -> Nat]] /\ l.balance[t][a] \in Nat
      BY <2>1 DEF Ledger
    <3>2. a # 0
      BY AccountsAssumption DEF Accounts
    <3>3. CASE t = m.tick
      <4>1. r.balance[t] = Debit(l.balance[t], m.from, m.amount)
        BY <2>1, <2>2, <3>1, <3>3
      <4>2. Delta(tx, t, a) = 0 - (IF m.from = a THEN m.amount ELSE 0)
        BY <2>1, <2>3, <3>2, <3>3 DEF Delta
      <4> QED BY <2>1, <3>1, <4>1, <4>2 DEF Debit
    <3>4. CASE t # m.tick
      BY <2>1, <2>2, <2>3, <3>1, <3>4 DEF Delta
    <3> QED BY <3>3, <3>4
  <2>5. LedgerInv(r)
    BY BurnSound
  <2> HIDE DEF tx, r
  <2>6. tx \in Transaction /\ r.transactions = Append(l.transactions, tx)
    BY <2>2, <2>3
  <2>7. \A t \in Ticks, a \in Accounts : r.balance[t][a] = l.balance[t][a] + Delta(tx, t, a)
    BY <2>4
  <2>8. Audited(r)
    BY <2>5, <2>6, <2>7, AuditAfterAppend
  <2> QED BY <2>8 DEF r
<1> QED BY <1>1, <1>2

(***************************************************************************)
(* Handling any message keeps the books: every balance stays what the      *)
(* recorded transactions of its tick add up to.                            *)
(***************************************************************************)
THEOREM ProcessMessageAudited ==
  ASSUME NEW l, LedgerInv(l), Audited(l), NEW m \in Message, NEW private \in BOOLEAN,
         NEW topic \in Topics, NEW n \in Nat
  PROVE  Audited(ProcessMessage(l, m, private, topic, n))
<1>1. CASE m \in DeployMessage
  <2> DEFINE r == ProcessDeploy(l, m, private, topic)
  <2>1. ProcessMessage(l, m, private, topic, n) = r
    BY <1>1 DEF ProcessMessage, DeployMessage
  <2>2. LedgerInv(r)
    BY <1>1, DeploySound
  <2>3. r.transactions = l.transactions /\ r.balance = l.balance
    BY DEF ProcessDeploy, LedgerInv, Ledger
  <2> HIDE DEF r
  <2> QED BY <2>1, <2>2, <2>3, AuditUnchanged
<1>2. CASE m \in MintMessage
  BY <1>2, MintAudited DEF ProcessMessage, MintMessage
<1>3. CASE m \in TransferMessage
  BY <1>3, TransferAudited DEF ProcessMessage, TransferMessage
<1>4. CASE m \in BurnMessage
  BY <1>4, BurnAudited DEF ProcessMessage, BurnMessage
<1>5. CASE m \in RegisterMessage
  BY <1>5 DEF ProcessMessage, RegisterMessage
<1> QED BY <1>1, <1>2, <1>3, <1>4, <1>5 DEF Message

=============================================================================
