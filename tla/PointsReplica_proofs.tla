------------------------ MODULE PointsReplica_proofs ------------------------
(***************************************************************************)
(* What a replayed ledger guarantees, for any topics, messages and         *)
(* registrations and without the bounds of the run.                        *)
(***************************************************************************)
EXTENDS PointsReplica, Hcs20Ledger_proofs, SequenceTheorems

Recording(i) ==
  /\ ledger.transactions[i].seq \in DOMAIN topicLog[ledger.transactions[i].topic]
  /\ Consented(ledger.transactions[i])

LEMMA ReplicaInitInv == Init => ReplicaInv
<1> SUFFICES ASSUME Init PROVE ReplicaInv
  OBVIOUS
<1>1. ReplicaTypeOK
  BY DEF Init, ReplicaTypeOK
<1>2. LedgerInv(ledger) /\ Audited(ledger)
  BY EmptyLedgerSound, EmptyLedgerAudited DEF Init
<1>3. DOMAIN ledger.transactions = {}
  BY DEF Init, EmptyLedger
<1> QED BY <1>1, <1>2, <1>3 DEF ReplicaInv

LEMMA TransactionType ==
  ASSUME LedgerInv(ledger), NEW i \in DOMAIN ledger.transactions
  PROVE  ledger.transactions[i].topic \in Topics
<1>1. ledger.transactions \in Seq(Transaction)
  BY DEF LedgerInv, Ledger
<1>2. ledger.transactions[i] \in Transaction
  BY <1>1
<1> QED BY <1>2 DEF Transaction

(***************************************************************************)
(* A ruling once given stands: later registrations may add one (for a      *)
(* topic only the caller named), never take one away.                      *)
(***************************************************************************)
LEMMA RulingsAccumulate ==
  ASSUME ReplicaTypeOK, Register, NEW t
  PROVE  Ruling(t) \subseteq Ruling(t)'
<1>1. PICK r \in Registrations \cup {Garbage} : registryLog' = Append(registryLog, r)
  BY DEF Register
<1>2. registryLog \in Seq(Registrations \cup {Garbage})
  BY DEF ReplicaTypeOK
<1>3. \A i \in DOMAIN registryLog :
         /\ i \in DOMAIN registryLog' /\ registryLog'[i] = registryLog[i]
         /\ \A k \in 1..(i - 1) : k \in DOMAIN registryLog /\ registryLog'[k] = registryLog[k]
  BY <1>1, <1>2
<1>4. \A i \in DOMAIN registryLog :
         (Registers(i, t) /\ \A k \in 1..(i - 1) : ~Registers(k, t))
           => (Registers(i, t)' /\ \A k \in 1..(i - 1) : ~Registers(k, t)')
  BY <1>3 DEF Registers
<1> QED BY <1>3, <1>4 DEF Ruling

LEMMA ReplicaPublishInv ==
  ASSUME ReplicaInv, NEW t \in Topics, Publish(t)
  PROVE  ReplicaInv'
<1>1. PICK m \in Messages \cup {Garbage} : topicLog' = [topicLog EXCEPT ![t] = Append(@, m)]
  BY DEF Publish
<1>2. topicLog \in [Topics -> Seq(Messages \cup {Garbage})] /\ ReplicaTypeOK
  BY DEF ReplicaInv, ReplicaTypeOK
<1>3. topicLog' \in [Topics -> Seq(Messages \cup {Garbage})]
  BY <1>1, <1>2
<1>4. ReplicaTypeOK'
  BY <1>2, <1>3 DEF Publish, ReplicaTypeOK
<1>5. \A u \in Topics : \A n \in DOMAIN topicLog[u] :
         n \in DOMAIN topicLog'[u] /\ topicLog'[u][n] = topicLog[u][n]
  BY <1>1, <1>2
<1>6. \A u : Ruling(u)' = Ruling(u)
  BY DEF Publish, Ruling, Registers
<1>7. ASSUME NEW i \in DOMAIN ledger.transactions PROVE Recording(i)'
  <2>1. Recording(i) /\ ledger.transactions[i].topic \in Topics
    BY TransactionType DEF ReplicaInv, Recording
  <2> QED BY <1>5, <1>6, <2>1 DEF Recording, Consented, Publish
<1> QED BY <1>4, <1>7 DEF ReplicaInv, Recording, Publish

LEMMA ReplicaRegisterInv ==
  ASSUME ReplicaInv, Register
  PROVE  ReplicaInv'
<1>1. ReplicaTypeOK
  BY DEF ReplicaInv
<1>2. ReplicaTypeOK'
  BY <1>1 DEF Register, ReplicaTypeOK
<1>3. ASSUME NEW i \in DOMAIN ledger.transactions PROVE Recording(i)'
  <2>1. PICK u \in Topics : u = ledger.transactions[i].topic
    BY TransactionType DEF ReplicaInv
  <2>2. Ruling(u) \subseteq Ruling(u)'
    BY <1>1, RulingsAccumulate
  <2>3. UNCHANGED <<ledger, topicLog>>
    BY DEF Register
  <2>4. Recording(i)
    BY DEF ReplicaInv, Recording
  <2>5. (TRUE \in Ruling(ledger.transactions[i].topic))
           => (TRUE \in Ruling(ledger.transactions[i].topic))'
    BY <2>1, <2>2, <2>3
  <2> QED BY <2>3, <2>4, <2>5 DEF Recording, Consented
<1> QED BY <1>2, <1>3 DEF ReplicaInv, Recording, Register

(***************************************************************************)
(* A message is applied under a ruling of its topic, so what it records    *)
(* has the payer's consent unless the topic may be private.                *)
(***************************************************************************)
LEMMA ReplicaApplyInv ==
  ASSUME ReplicaInv, NEW t \in Topics, Apply(t)
  PROVE  ReplicaInv'
<1>1. /\ topicLog[t] \in Seq(Messages \cup {Garbage})
      /\ ledger \in Ledger /\ ledger.transactions \in Seq(Transaction)
      /\ done \in [Topics -> Nat]
      /\ registryLog \in Seq(Registrations \cup {Garbage})
  BY DEF ReplicaInv, ReplicaTypeOK, LedgerInv, Ledger
<1>2. UNCHANGED <<topicLog, registryLog>>
  BY DEF Apply
<1>3. PICK n \in DOMAIN topicLog[t], private \in Ruling(t) :
         /\ IsNext(t, n)
         /\ ledger' = ProcessMessage(ledger, topicLog[t][n], private, t, n)
         /\ done' = [done EXCEPT ![t] = n]
  BY DEF Apply
<1>4. n \in Nat /\ topicLog[t][n] \in Message
  BY <1>1, <1>3, ReplicaMessagesAssumption DEF IsNext
<1>5. private \in BOOLEAN
  <2>1. \A i \in DOMAIN registryLog : Registers(i, t) => registryLog[i].private \in BOOLEAN
    BY <1>1, ReplicaRegistrationsAssumption DEF Registers
  <2> QED BY <2>1 DEF Ruling
<1>6. LedgerInv(ledger') /\ Audited(ledger')
  BY <1>3, <1>4, <1>5, ProcessMessageSound, ProcessMessageAudited DEF ReplicaInv
<1>7. Recorded(ledger, ledger', topicLog[t][n], private, t, n)
  BY <1>1, <1>3, <1>4, <1>5, RecordsOnce
<1>8. \A u : Ruling(u)' = Ruling(u)
  BY <1>2 DEF Ruling, Registers
<1>9. \A tx : Consented(tx)' = Consented(tx)
  BY <1>2, <1>8 DEF Consented
<1>10. \A i \in DOMAIN ledger.transactions : Recording(i)
  BY DEF ReplicaInv, Recording
<1>11. ASSUME NEW i \in DOMAIN ledger'.transactions PROVE Recording(i)'
  <2>1. CASE ledger'.transactions = ledger.transactions
    BY <1>2, <1>9, <1>10, <2>1 DEF Recording
  <2>2. ASSUME NEW tx \in Transaction, tx.topic = t, tx.seq = n,
               tx.op = "mint" \/ private \/ topicLog[t][n].payer = tx.from,
               ledger'.transactions = Append(ledger.transactions, tx)
        PROVE  Recording(i)'
    <3>1. Consented(tx)
      BY <1>3, <1>5, <2>2 DEF Consented
    <3>2. CASE i \in DOMAIN ledger.transactions
      <4>1. ledger'.transactions[i] = ledger.transactions[i]
        BY <1>1, <2>2, <3>2
      <4> QED BY <1>2, <1>9, <1>10, <3>2, <4>1 DEF Recording
    <3>3. CASE i \notin DOMAIN ledger.transactions
      <4>1. ledger'.transactions[i] = tx
        BY <1>1, <2>2, <3>3
      <4> QED BY <1>2, <1>3, <1>9, <2>2, <3>1, <4>1 DEF Recording
    <3> QED BY <3>2, <3>3
  <2> QED BY <1>7, <2>1, <2>2 DEF Recorded
<1>12. ReplicaTypeOK'
  BY <1>1, <1>2, <1>3, <1>4 DEF ReplicaInv, ReplicaTypeOK
<1> QED BY <1>6, <1>11, <1>12 DEF ReplicaInv, Recording

(***************************************************************************)
(* The inductive invariant of the replica.                                 *)
(***************************************************************************)
THEOREM ReplicaInvariant == Spec => []ReplicaInv
<1>1. Init => ReplicaInv
  BY ReplicaInitInv
<1>2. ReplicaInv /\ [Next]_vars => ReplicaInv'
  <2> SUFFICES ASSUME ReplicaInv, [Next]_vars PROVE ReplicaInv'
    OBVIOUS
  <2>1. CASE UNCHANGED vars
    <3>1. UNCHANGED <<topicLog, registryLog, done, ledger>>
      BY <2>1 DEF vars
    <3>2. ReplicaTypeOK'
      BY <3>1 DEF ReplicaInv, ReplicaTypeOK
    <3>3. ASSUME NEW i \in DOMAIN ledger.transactions PROVE Recording(i)'
      <4>1. Recording(i)
        BY DEF ReplicaInv, Recording
      <4>2. Ruling(ledger.transactions[i].topic)' = Ruling(ledger.transactions[i].topic)
        BY <3>1 DEF Ruling, Registers
      <4> QED BY <3>1, <4>1, <4>2 DEF Recording, Consented
    <3> QED BY <3>1, <3>2, <3>3 DEF ReplicaInv, Recording
  <2> QED BY <2>1, ReplicaPublishInv, ReplicaRegisterInv, ReplicaApplyInv DEF Next
<1> QED BY <1>1, <1>2, PTL DEF Spec

(***************************************************************************)
(* The balances of every tick add up to its supply.                        *)
(***************************************************************************)
THEOREM ReplicaConserves == Spec => []Conservation
<1>1. ReplicaInv => Conservation
  BY DEF ReplicaInv, LedgerInv, Conservation
<1> QED BY <1>1, ReplicaInvariant, PTL

(***************************************************************************)
(* No tick exceeds the maximum of its deploy message.                      *)
(***************************************************************************)
THEOREM ReplicaSupplyBounded == Spec => []SupplyBound
<1>1. ReplicaInv => SupplyBound
  BY DEF ReplicaInv, LedgerInv, SupplyBound
<1> QED BY <1>1, ReplicaInvariant, PTL

(***************************************************************************)
(* Every recorded mint kept the limit of the first deploy message.         *)
(***************************************************************************)
THEOREM ReplicaKeepsLimits == Spec => []MintsWithinLimit
<1>1. ReplicaInv => MintsWithinLimit
  BY DEF ReplicaInv, LedgerInv, MintsWithinLimit
<1> QED BY <1>1, ReplicaInvariant, PTL

(***************************************************************************)
(* Every balance can be recomputed from the recorded transactions.         *)
(***************************************************************************)
THEOREM BooksAudited == Spec => []Audit
<1>1. ReplicaInv => Audit
  BY DEF ReplicaInv, Audit
<1> QED BY <1>1, ReplicaInvariant, PTL

(***************************************************************************)
(* On a topic that is private neither by its first registration nor by the *)
(* caller's list, points leave an account only with its owner as payer,    *)
(* whatever the registry says later.                                       *)
(***************************************************************************)
THEOREM ConsentKept == Spec => []ConsentOutsidePrivateTopics
<1>1. ReplicaInv => ConsentOutsidePrivateTopics
  BY DEF ReplicaInv, Consented, ConsentOutsidePrivateTopics
<1> QED BY <1>1, ReplicaInvariant, PTL

=============================================================================
