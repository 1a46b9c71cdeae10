---------------------------- MODULE PointsReplica ----------------------------
(***************************************************************************)
(* What the HCS-20 indexer promises: a ledger that replays the parseable   *)
(* messages of every topic in sequence number order, each exactly once.    *)
(* Topics advance independently of each other.  Hcs20Indexer run by one    *)
(* goroutine implements this specification.                                *)
(***************************************************************************)
EXTENDS Hcs20Ledger, FiniteSets

CONSTANTS
  PublicTopic,    \* the topic whose messages are never private
  CallerTopics,   \* topics the callers name as private
  Garbage,        \* a message that does not parse
  Messages,       \* what may be published on a points topic
  Registrations,  \* what may be published on the registry topic
  MaxLog,         \* bound on the messages of one topic
  MaxRegistry     \* bound on the messages of the registry topic

ASSUME ReplicaMessagesAssumption == Messages \subseteq Message
ASSUME ReplicaRegistrationsAssumption ==
  Registrations \subseteq [topic: Topics, private: BOOLEAN]

VARIABLES
  topicLog,     \* the messages of each topic
  registryLog,  \* the messages of the registry topic
  ledger,       \* the ledger derived so far
  done          \* the last sequence number applied, for each topic

vars == <<topicLog, registryLog, ledger, done>>

Init ==
  /\ topicLog = [t \in Topics |-> << >>]
  /\ registryLog = << >>
  /\ ledger = EmptyLedger
  /\ done = [t \in Topics |-> 0]

Publish(t) ==
  /\ Len(topicLog[t]) < MaxLog
  /\ \E m \in Messages \cup {Garbage} :
        topicLog' = [topicLog EXCEPT ![t] = Append(@, m)]
  /\ UNCHANGED <<registryLog, ledger, done>>

Register ==
  /\ Len(registryLog) < MaxRegistry
  /\ \E r \in Registrations \cup {Garbage} : registryLog' = Append(registryLog, r)
  /\ UNCHANGED <<topicLog, ledger, done>>

(***************************************************************************)
(* The first register message of a topic settles whether it is private; a  *)
(* caller's own list of private topics counts for the topics the registry  *)
(* did not know of when the indexer asked.                                 *)
(***************************************************************************)
Registers(i, t) == registryLog[i] # Garbage /\ registryLog[i].topic = t

Ruling(t) ==
  IF t = PublicTopic THEN {FALSE}
  ELSE {registryLog[i].private : i \in {j \in DOMAIN registryLog :
          Registers(j, t) /\ \A k \in 1..(j - 1) : ~Registers(k, t)}}
       \cup {TRUE : c \in CallerTopics \cap {t}}

(***************************************************************************)
(* The next message of topic t that parses is applied under a ruling for   *)
(* that topic.                                                             *)
(***************************************************************************)
IsNext(t, n) ==
  /\ n \in (done[t] + 1)..Len(topicLog[t])
  /\ topicLog[t][n] # Garbage
  /\ \A k \in (done[t] + 1)..(n - 1) : topicLog[t][k] = Garbage

Apply(t) ==
  /\ \E n \in DOMAIN topicLog[t] : \E private \in Ruling(t) :
        /\ IsNext(t, n)
        /\ ledger' = ProcessMessage(ledger, topicLog[t][n], private, t, n)
        /\ done' = [done EXCEPT ![t] = n]
  /\ UNCHANGED <<topicLog, registryLog>>

Next ==
  \/ \E t \in Topics : Publish(t)
  \/ Register
  \/ \E t \in Topics : Apply(t)

Spec == Init /\ [][Next]_vars

-----------------------------------------------------------------------------
(* Points are conserved: the balances of a tick add up to the supply its   *)
(* PointsInfo reports, whatever mints, transfers and burns were applied or *)
(* turned down.                                                            *)
Conservation == Conserves(ledger)

(* The supply of a deployed tick never exceeds the maximum of its deploy   *)
(* message, and a tick that was not deployed has no points at all.         *)
SupplyBound == WithinMax(ledger)

(* The books can be audited: every balance is what the recorded            *)
(* transactions of the tick add up to for that account.                    *)
Audit == Audited(ledger)

(* Every recorded mint was within the limit of the deploy message that     *)
(* counts, also when further deploy messages for the tick came later.      *)
MintsWithinLimit == LimitsKept(ledger)

(* Without the payer's consent points move only on a topic that is private *)
(* by its first registration or by the caller's own list.                  *)
ConsentOutsidePrivateTopics ==
  \A i \in DOMAIN ledger.transactions :
    LET tx == ledger.transactions[i] IN
    (tx.op # "mint" /\ Ruling(tx.topic) = {FALSE}) =>
        topicLog[tx.topic][tx.seq].payer = tx.from

(* Its inductive strengthening: rulings only accumulate, so a topic that   *)
(* may not be private by now was not private when the transaction was      *)
(* recorded; and the ledger is sound and was derived from messages that    *)
(* are on their topics.                                                    *)
ReplicaTypeOK ==
  /\ topicLog \in [Topics -> Seq(Messages \cup {Garbage})]
  /\ registryLog \in Seq(Registrations \cup {Garbage})
  /\ done \in [Topics -> Nat]

Consented(tx) ==
  \/ tx.op = "mint"
  \/ TRUE \in Ruling(tx.topic)
  \/ topicLog[tx.topic][tx.seq].payer = tx.from

ReplicaInv ==
  /\ ReplicaTypeOK
  /\ LedgerInv(ledger)
  /\ Audited(ledger)
  /\ \A i \in DOMAIN ledger.transactions :
        /\ ledger.transactions[i].seq \in DOMAIN topicLog[ledger.transactions[i].topic]
        /\ Consented(ledger.transactions[i])
=============================================================================
