------------------------- MODULE Hcs20Indexer_proofs -------------------------
(***************************************************************************)
(* The invariants of Hcs20Indexer, for any number of goroutines, topics,   *)
(* ticks and accounts, and without the bounds of the runs.  IndexerInv is  *)
(* inductive; what the runs check follows from it.                         *)
(***************************************************************************)
EXTENDS Hcs20Indexer, Hcs20Ledger_proofs, SequenceTheorems

LEMMA TaskType ==
  ASSUME NEW t \in Topics, NEW b \in BOOLEAN
  PROVE  Task(t, b) \in Registration /\ Task(t, b).topic = t
BY DEF Task, Registration

LEMMA PrivateTopicsType ==
  ASSUME NEW w \in Workers
  PROVE  PrivateTopics(w) \in Seq(Registration \cup {Garbage})
<1> DEFINE named == Options[w].private
<1>1. named \in Seq(Topics)
  BY OptionsAssumption DEF IndexOptions
<1> HIDE DEF named
<1>2. Len(named) \in Nat /\ \A i \in 1..Len(named) : named[i] \in Topics
  BY <1>1
<1>3. \A i \in 1..Len(named) : Task(named[i], TRUE) \in Registration \cup {Garbage}
  BY <1>2 DEF Task, Registration
<1>4. PrivateTopics(w) = [i \in 1..Len(named) |-> Task(named[i], TRUE)]
  BY DEF PrivateTopics, named
<1>5. [i \in 1..Len(named) |-> Task(named[i], TRUE)]
         \in [1..Len(named) -> Registration \cup {Garbage}]
  BY <1>3
<1>6. \E n \in Nat : PrivateTopics(w) \in [1..n -> Registration \cup {Garbage}]
  BY <1>2, <1>4, <1>5
<1> QED BY <1>6, SeqDef

(***************************************************************************)
(* A topic that has been covered up to some message stays so: topics and   *)
(* the record of what was applied only grow.                               *)
(***************************************************************************)
LEMMA CoveredStable ==
  ASSUME NEW t \in Topics, NEW k \in Int, Covered(t, k),
         topicLog[t] \in Seq(Entry), topicLog'[t] \in Seq(Entry),
         Len(topicLog[t]) <= Len(topicLog'[t]),
         \A n \in 1..Len(topicLog[t]) : topicLog'[t][n] = topicLog[t][n],
         applied \subseteq applied'
  PROVE  Covered(t, k)'
BY DEF Covered, Parseable

(***************************************************************************)
(* The part of the state InFlight looks at, and what leaves it valid.      *)
(***************************************************************************)
LEMMA InFlightStable ==
  ASSUME TypeOK, NEW w \in Workers, InFlight(w),
         topicLog' = topicLog, applied \subseteq applied',
         UNCHANGED <<task[w], last[w], next[w], upto[w], maxSeq[w]>>,
         pc'[w] = pc[w]
  PROVE  InFlight(w)'
<1>1. task[w].topic \in Topics /\ last[w] \in Int /\ next[w] - 1 \in Int
  BY DEF TypeOK, Registration
<1>2. ASSUME NEW k \in Int, Covered(task[w].topic, k)
      PROVE  Covered(task[w].topic, k)'
  BY <1>1, <1>2 DEF Covered, Parseable
<1> QED BY <1>1, <1>2 DEF InFlight

LEMMA InitInv == Init => IndexerInv
<1> SUFFICES ASSUME Init PROVE IndexerInv
  OBVIOUS
<1>1. Task(PublicTopic, FALSE) \in Registration
  BY PublicTopicAssumption, TaskType
<1>2. LedgerInv(ledger)
  BY EmptyLedgerSound DEF Init
<1>3. TypeOK
  <2>1. /\ topicLog \in [Topics -> Seq(Entry)]
        /\ registryLog \in Seq(Registrations \cup {Garbage})
        /\ queue \in [Workers -> Seq(Registration \cup {Garbage})]
    BY DEF Init
  <2>2. ledger \in Ledger
    BY <1>2 DEF LedgerInv
  <2>3. task \in [Workers -> Registration]
    BY <1>1 DEF Init
  <2>4. /\ cursor \in [Topics -> Nat]
        /\ applied \subseteq Topics \X Nat
        /\ pc \in [Workers -> PCs]
        /\ seen \in [Workers -> SUBSET Topics]
        /\ last \in [Workers -> Nat]
        /\ next \in [Workers -> Nat]
        /\ upto \in [Workers -> Nat]
        /\ maxSeq \in [Workers -> Nat]
    BY DEF Init, PCs
  <2> QED BY <2>1, <2>2, <2>3, <2>4 DEF TypeOK
<1>4. NothingSkipped
  BY DEF Init, NothingSkipped, Covered
<1>5. \A w \in Workers : InFlight(w)
  BY DEF Init, InFlight
<1> QED BY <1>2, <1>3, <1>4, <1>5 DEF IndexerInv

-----------------------------------------------------------------------------
LEMMA PublishInv ==
  ASSUME IndexerInv, NEW t \in Topics, Publish(t)
  PROVE  IndexerInv'
<1>1. PICK m \in Entry : topicLog' = [topicLog EXCEPT ![t] = Append(@, m)]
  BY DEF Publish, Entry
<1>2. TypeOK /\ topicLog \in [Topics -> Seq(Entry)]
  BY DEF IndexerInv, TypeOK
<1>3. topicLog' \in [Topics -> Seq(Entry)]
  BY <1>1, <1>2
<1>4. TypeOK'
  BY <1>2, <1>3 DEF Publish, TypeOK, batch
<1>5. ASSUME NEW u \in Topics
      PROVE  /\ Len(topicLog[u]) <= Len(topicLog'[u])
             /\ \A n \in 1..Len(topicLog[u]) : topicLog'[u][n] = topicLog[u][n]
  BY <1>1, <1>2
<1>6. ASSUME NEW u \in Topics, NEW k \in Int, Covered(u, k)
      PROVE  Covered(u, k)'
  BY <1>2, <1>3, <1>5, <1>6, CoveredStable DEF Publish
<1>7. NothingSkipped'
  BY <1>2, <1>6 DEF IndexerInv, NothingSkipped, Publish, TypeOK
<1>8. \A w \in Workers : InFlight(w)'
  <2> SUFFICES ASSUME NEW w \in Workers PROVE InFlight(w)'
    OBVIOUS
  <2>1. task[w].topic \in Topics /\ last[w] \in Int /\ next[w] - 1 \in Int /\ upto[w] \in Int
    BY <1>2 DEF TypeOK, Registration
  <2>2. InFlight(w)
    BY DEF IndexerInv
  <2>3. Len(topicLog[task[w].topic]) \in Nat /\ Len(topicLog'[task[w].topic]) \in Nat
    BY <2>1, <1>2, <1>3
  <2> QED BY <1>5, <1>6, <2>1, <2>2, <2>3 DEF InFlight, Publish, batch
<1> QED BY <1>4, <1>7, <1>8 DEF IndexerInv, Publish

LEMMA RegisterInv ==
  ASSUME IndexerInv, Register
  PROVE  IndexerInv'
<1>1. TypeOK'
  BY DEF IndexerInv, Register, TypeOK, batch
<1>2. NothingSkipped'
  BY DEF IndexerInv, Register, NothingSkipped, Covered, Parseable
<1>3. \A w \in Workers : InFlight(w)'
  BY DEF IndexerInv, Register, InFlight, Covered, Parseable, batch
<1> QED BY <1>1, <1>2, <1>3 DEF IndexerInv, Register

(***************************************************************************)
(* The steps of a worker that only move it through its list of topics.     *)
(***************************************************************************)
LEMMA RoutingInv ==
  ASSUME IndexerInv, NEW w \in Workers,
         \/ BeginCycle(w)
         \/ ListTopics(w)
         \/ SkipTopic(w)
         \/ TakeTopic(w)
         \/ EndCycle(w)
         \/ QueryFails(w)
  PROVE  IndexerInv'
<1>0. TypeOK /\ LedgerInv(ledger) /\ NothingSkipped /\ \A v \in Workers : InFlight(v)
  BY DEF IndexerInv
<1>1. /\ queue[w] \in Seq(Registration \cup {Garbage})
      /\ pc \in [Workers -> PCs]
      /\ task \in [Workers -> Registration]
  BY <1>0 DEF TypeOK
<1>2. /\ UNCHANGED <<topicLog, ledger, cursor, applied, next, upto, maxSeq>>
      /\ pc'[w] \notin {"fetch", "apply"} /\ pc'[w] \in PCs
      /\ \A v \in Workers \ {w} :
            pc'[v] = pc[v] /\ task'[v] = task[v] /\ last'[v] = last[v]
  BY <1>0, <1>1 DEF TypeOK, PCs, BeginCycle, ListTopics, SkipTopic, TakeTopic, EndCycle, QueryFails, batch, mirror
<1>3. TypeOK'
  <2>1. CASE BeginCycle(w)
    BY <1>0, <2>1, TaskType, PublicTopicAssumption DEF BeginCycle, TypeOK, PCs, batch, mirror
  <2>2. CASE ListTopics(w)
    <3>1. registryLog \in Seq(Registration \cup {Garbage})
      BY <1>0, RegistrationsAssumption DEF TypeOK
    <3>2. (IF IncludeRegistry(w) THEN registryLog ELSE << >>) \o PrivateTopics(w)
             \in Seq(Registration \cup {Garbage})
      BY <3>1, PrivateTopicsType
    <3> QED BY <1>0, <2>2, <3>2 DEF ListTopics, TypeOK, PCs, batch, mirror
  <2>3. CASE SkipTopic(w)
    <3>1. Tail(queue[w]) \in Seq(Registration \cup {Garbage})
      BY <1>1, <2>3 DEF SkipTopic
    <3>2. queue' \in [Workers -> Seq(Registration \cup {Garbage})]
      BY <1>0, <2>3, <3>1 DEF SkipTopic, TypeOK
    <3>3. UNCHANGED <<topicLog, registryLog, ledger, cursor, applied, pc, seen, task,
                      last, next, upto, maxSeq>>
      BY <2>3 DEF SkipTopic, batch, mirror
    <3> QED BY <1>0, <3>2, <3>3 DEF TypeOK
  <2>4. CASE TakeTopic(w)
    <3>1. Head(queue[w]) \in Registration
      BY <1>1, <2>4 DEF TakeTopic, Skipped
    <3>2. /\ Head(queue[w]).topic \in Topics
          /\ Task(Head(queue[w]).topic, Head(queue[w]).private) \in Registration
          /\ Tail(queue[w]) \in Seq(Registration \cup {Garbage})
      BY <1>1, <2>4, <3>1 DEF TakeTopic, Task, Registration
    <3> QED BY <1>0, <2>4, <3>2 DEF TakeTopic, TypeOK, PCs, batch, mirror
  <2>5. CASE EndCycle(w)
    BY <1>0, <2>5 DEF EndCycle, TypeOK, PCs, batch, mirror
  <2>6. CASE QueryFails(w)
    BY <1>0, <2>6, SMTT(40) DEF QueryFails, TypeOK, PCs, batch, mirror
  <2> QED BY <2>1, <2>2, <2>3, <2>4, <2>5, <2>6
<1>4. NothingSkipped'
  BY <1>0, <1>2 DEF NothingSkipped, Covered, Parseable
<1>5. \A v \in Workers : InFlight(v)'
  <2>1. InFlight(w)'
    BY <1>2 DEF InFlight
  <2>2. ASSUME NEW v \in Workers \ {w} PROVE InFlight(v)'
    BY <1>0, <1>2, InFlightStable
  <2> QED BY <2>1, <2>2
<1> QED BY <1>0, <1>2, <1>3, <1>4, <1>5 DEF IndexerInv

-----------------------------------------------------------------------------
(***************************************************************************)
(* The snapshot of a cursor is covered when it is taken, and the batch     *)
(* starts right behind it.                                                 *)
(***************************************************************************)
LEMMA ReadCursorInv ==
  ASSUME IndexerInv, NEW w \in Workers, ReadCursor(w)
  PROVE  IndexerInv'
<1>0. TypeOK /\ LedgerInv(ledger) /\ NothingSkipped /\ \A v \in Workers : InFlight(v)
  BY DEF IndexerInv
<1>1. task[w].topic \in Topics
  BY <1>0 DEF TypeOK, Registration
<1>2. TypeOK'
  BY <1>0, <1>1 DEF ReadCursor, TypeOK, PCs, mirror
<1>3. NothingSkipped'
  BY <1>0 DEF ReadCursor, mirror, NothingSkipped, Covered, Parseable
<1>4. InFlight(w)'
  <2>1. pc'[w] = "fetch" /\ last'[w] = cursor[task[w].topic] /\ task' = task
    BY <1>0 DEF ReadCursor, TypeOK
  <2>2. Covered(task[w].topic, cursor[task[w].topic])
    BY <1>0, <1>1 DEF NothingSkipped
  <2> QED BY <2>1, <2>2 DEF InFlight, ReadCursor, mirror, Covered, Parseable
<1>5. ASSUME NEW v \in Workers \ {w} PROVE InFlight(v)'
  BY <1>0, InFlightStable DEF ReadCursor, mirror, TypeOK
<1> QED BY <1>0, <1>2, <1>3, <1>4, <1>5 DEF IndexerInv, ReadCursor

LEMMA FetchInv ==
  ASSUME IndexerInv, NEW w \in Workers, Fetch(w)
  PROVE  IndexerInv'
<1>0. TypeOK /\ LedgerInv(ledger) /\ NothingSkipped /\ \A v \in Workers : InFlight(v)
  BY DEF IndexerInv
<1>1. task[w].topic \in Topics /\ last[w] \in Nat
  BY <1>0 DEF TypeOK, Registration
<1>2. Len(topicLog[task[w].topic]) \in Nat
  BY <1>0, <1>1 DEF TypeOK
<1>3. TypeOK'
  <2>1. /\ next' \in [Workers -> Nat]
        /\ upto' \in [Workers -> Nat]
        /\ maxSeq' \in [Workers -> Nat]
    BY <1>0, <1>1, <1>2 DEF Fetch, FirstAfter, TypeOK
  <2>2. pc' \in [Workers -> PCs]
    BY <1>0 DEF Fetch, TypeOK, PCs
  <2>3. UNCHANGED <<topicLog, registryLog, ledger, cursor, applied, queue, seen, task, last>>
    BY DEF Fetch, mirror
  <2> QED BY <1>0, <2>1, <2>2, <2>3 DEF TypeOK
<1>4. NothingSkipped'
  BY <1>0 DEF Fetch, mirror, NothingSkipped, Covered, Parseable
<1>5. InFlight(w)'
  <2>1. /\ pc'[w] = "apply" /\ task' = task /\ topicLog' = topicLog /\ applied' = applied
        /\ maxSeq'[w] = last[w] /\ next'[w] = last[w] + 1
        /\ upto'[w] = Len(topicLog[task[w].topic])
    BY <1>0 DEF Fetch, FirstAfter, TypeOK, mirror
  <2>2. Covered(task[w].topic, last[w])
    BY <1>0 DEF InFlight, Fetch
  <2>3. next'[w] - 1 = last[w] /\ maxSeq'[w] < next'[w]
    BY <2>1, <1>1
  <2> QED BY <1>2, <2>1, <2>2, <2>3 DEF InFlight, Covered, Parseable
<1>6. ASSUME NEW v \in Workers \ {w} PROVE InFlight(v)'
  BY <1>0, InFlightStable DEF Fetch, mirror, TypeOK
<1> QED BY <1>0, <1>3, <1>4, <1>5, <1>6 DEF IndexerInv, Fetch

(***************************************************************************)
(* Handling a message, or passing over one that does not parse, extends    *)
(* the covered part by one.                                                *)
(***************************************************************************)
LEMMA CoveredNext ==
  ASSUME NEW t \in Topics, NEW n \in Nat, topicLog[t] \in Seq(Entry),
         Covered(t, n - 1), n <= Len(topicLog[t]),
         topicLog' = topicLog, applied \subseteq applied',
         Parseable(t, n) => <<t, n>> \in applied'
  PROVE  Covered(t, n)'
BY DEF Covered, Parseable

LEMMA ApplyMessageInv ==
  ASSUME IndexerInv, NEW w \in Workers, ApplyMessage(w)
  PROVE  IndexerInv'
<1>0. TypeOK /\ LedgerInv(ledger) /\ NothingSkipped /\ \A v \in Workers : InFlight(v)
  BY DEF IndexerInv
<1>a. PICK t \in Topics, n \in Nat : t = task[w].topic /\ n = next[w]
  BY <1>0 DEF TypeOK, Registration
<1>1. /\ t \in Topics /\ task[w].private \in BOOLEAN /\ n \in Nat
      /\ upto[w] \in Nat /\ maxSeq[w] \in Nat /\ topicLog[t] \in Seq(Entry)
  BY <1>0, <1>a DEF TypeOK, Registration
<1>2. /\ maxSeq[w] < n /\ Covered(t, n - 1) /\ upto[w] <= Len(topicLog[t])
      /\ n <= upto[w] /\ Parseable(t, n)
  BY <1>0, <1>a DEF InFlight, ApplyMessage
<1> DEFINE m == topicLog[t][n]
<1>b. n \in 1..Len(topicLog[t])
  BY <1>1, <1>2
<1>3. m \in Message
  <2>1. m \in Entry
    BY <1>1, <1>b
  <2> QED BY <1>2, <2>1, MessagesAssumption DEF Parseable, Entry
<1>4. /\ topicLog' = topicLog /\ applied' = applied \cup {<<t, n>>}
      /\ maxSeq' = [maxSeq EXCEPT ![w] = n] /\ next' = [next EXCEPT ![w] = n + 1]
      /\ UNCHANGED <<registryLog, cursor, pc, queue, seen, task, last, upto>>
      /\ pc[w] = "apply"
  BY <1>a DEF ApplyMessage, mirror
<1>5. LedgerInv(ledger')
  BY <1>0, <1>a, <1>1, <1>3, ProcessMessageSound DEF ApplyMessage
<1>6. TypeOK'
  <2>1. ledger' \in Ledger
    BY <1>5 DEF LedgerInv
  <2>2. /\ applied' \subseteq Topics \X Nat
        /\ maxSeq' \in [Workers -> Nat]
        /\ next' \in [Workers -> Nat]
    BY <1>0, <1>1, <1>4 DEF TypeOK
  <2> QED BY <1>0, <1>4, <2>1, <2>2 DEF TypeOK
<1>7. NothingSkipped'
  <2> SUFFICES ASSUME NEW u \in Topics PROVE Covered(u, cursor[u])'
    BY <1>4 DEF NothingSkipped
  <2> QED BY <1>0, <1>4 DEF NothingSkipped, Covered, Parseable
<1>8. InFlight(w)'
  <2>1. Covered(t, n)'
    <3>1. n <= Len(topicLog[t]) /\ applied \subseteq applied' /\ <<t, n>> \in applied'
      BY <1>b, <1>4
    <3> QED BY <1>1, <1>2, <1>4, <3>1, CoveredNext
  <2>2. maxSeq'[w] = n /\ next'[w] = n + 1
    BY <1>0, <1>4 DEF TypeOK
  <2>3. /\ task'[w].topic = t /\ next'[w] - 1 = n /\ maxSeq'[w] < next'[w]
        /\ upto'[w] <= Len(topicLog'[task'[w].topic])
    BY <1>a, <1>1, <1>2, <1>4, <2>2
  <2> QED BY <1>4, <2>1, <2>3 DEF InFlight
<1>9. ASSUME NEW v \in Workers \ {w} PROVE InFlight(v)'
  BY <1>0, <1>4, InFlightStable DEF TypeOK
<1> QED BY <1>5, <1>6, <1>7, <1>8, <1>9 DEF IndexerInv

LEMMA SkipMessageInv ==
  ASSUME IndexerInv, NEW w \in Workers, SkipMessage(w)
  PROVE  IndexerInv'
<1>0. TypeOK /\ LedgerInv(ledger) /\ NothingSkipped /\ \A v \in Workers : InFlight(v)
  BY DEF IndexerInv
<1>a. PICK t \in Topics, n \in Nat : t = task[w].topic /\ n = next[w]
  BY <1>0 DEF TypeOK, Registration
<1>1. /\ t \in Topics /\ n \in Nat /\ upto[w] \in Nat /\ maxSeq[w] \in Nat
      /\ topicLog[t] \in Seq(Entry)
  BY <1>0, <1>a DEF TypeOK, Registration
<1>2. /\ maxSeq[w] < n /\ Covered(t, n - 1) /\ upto[w] <= Len(topicLog[t])
      /\ n <= upto[w] /\ ~Parseable(t, n)
  BY <1>0, <1>a DEF InFlight, SkipMessage
<1>3. /\ next' = [next EXCEPT ![w] = n + 1]
      /\ UNCHANGED <<topicLog, registryLog, ledger, cursor, applied, pc, queue, seen,
                     task, last, upto, maxSeq>>
      /\ pc[w] = "apply"
  BY <1>a DEF SkipMessage, mirror
<1>4. TypeOK'
  BY <1>0, <1>1, <1>3, SMTT(40) DEF TypeOK
<1>5. NothingSkipped'
  BY <1>0, <1>3 DEF NothingSkipped, Covered, Parseable
<1>6. InFlight(w)'
  <2>1. Covered(t, n)'
    <3>1. n <= Len(topicLog[t])
      BY <1>1, <1>2
    <3> QED BY <1>1, <1>2, <1>3, <3>1, CoveredNext
  <2>2. next'[w] = n + 1
    BY <1>0, <1>3 DEF TypeOK
  <2>3. /\ task'[w].topic = t /\ next'[w] - 1 = n /\ maxSeq'[w] < next'[w]
        /\ upto'[w] <= Len(topicLog'[task'[w].topic])
    BY <1>a, <1>1, <1>2, <1>3, <2>2
  <2> QED BY <1>3, <2>1, <2>3 DEF InFlight
<1>7. ASSUME NEW v \in Workers \ {w} PROVE InFlight(v)'
  BY <1>0, <1>3, InFlightStable DEF TypeOK
<1> QED BY <1>0, <1>3, <1>4, <1>5, <1>6, <1>7 DEF IndexerInv

(***************************************************************************)
(* A call may write a cursor another call has already moved past.  What it *)
(* writes is covered all the same, because its own batch was.              *)
(***************************************************************************)
LEMMA CommitCursorInv ==
  ASSUME IndexerInv, NEW w \in Workers, CommitCursor(w)
  PROVE  IndexerInv'
<1> DEFINE t == task[w].topic
<1>0. TypeOK /\ LedgerInv(ledger) /\ NothingSkipped /\ \A v \in Workers : InFlight(v)
  BY DEF IndexerInv
<1>1. /\ t \in Topics /\ next[w] \in Nat /\ maxSeq[w] \in Nat /\ cursor[t] \in Nat
      /\ cursor \in [Topics -> Nat]
  BY <1>0 DEF TypeOK, Registration
<1>2. maxSeq[w] < next[w] /\ Covered(t, next[w] - 1)
  BY <1>0 DEF InFlight, CommitCursor
<1>3. /\ cursor' = [cursor EXCEPT ![t] = NewCursor(w)]
      /\ UNCHANGED <<topicLog, registryLog, ledger, applied, queue, seen, task>>
      /\ pc'[w] \in {"registry", "topics"}
  BY <1>0 DEF CommitCursor, mirror, TypeOK
<1>4. NewCursor(w) \in Nat /\ Covered(t, NewCursor(w))
  <2>1. CASE maxSeq[w] > last[w]
    BY <1>1, <1>2, <2>1 DEF NewCursor, Covered
  <2>2. CASE ~(maxSeq[w] > last[w])
    BY <1>0, <1>1, <2>2 DEF NewCursor, NothingSkipped
  <2> QED BY <2>1, <2>2
<1>5. TypeOK'
  <2>1. cursor' \in [Topics -> Nat]
    BY <1>1, <1>3, <1>4
  <2>2. pc' \in [Workers -> PCs]
    BY <1>0 DEF CommitCursor, TypeOK, PCs
  <2>3. /\ last' \in [Workers -> Nat]
        /\ next' \in [Workers -> Nat]
        /\ upto' \in [Workers -> Nat]
        /\ maxSeq' \in [Workers -> Nat]
    BY <1>0 DEF CommitCursor, TypeOK
  <2> QED BY <1>0, <1>3, <2>1, <2>2, <2>3 DEF TypeOK
<1>6. NothingSkipped'
  <2> SUFFICES ASSUME NEW u \in Topics PROVE Covered(u, cursor[u])'
    BY DEF NothingSkipped
  <2>1. Covered(u, cursor'[u])
    BY <1>0, <1>1, <1>3, <1>4 DEF NothingSkipped
  <2> QED BY <1>3, <2>1 DEF Covered, Parseable
<1>7. InFlight(w)'
  BY <1>3 DEF InFlight
<1>8. ASSUME NEW v \in Workers \ {w} PROVE InFlight(v)'
  BY <1>0, <1>3, InFlightStable DEF CommitCursor, TypeOK
<1> QED BY <1>0, <1>3, <1>5, <1>6, <1>7, <1>8 DEF IndexerInv

-----------------------------------------------------------------------------
LEMMA StutterInv == IndexerInv /\ UNCHANGED vars => IndexerInv'
BY DEF vars, IndexerInv, TypeOK, NothingSkipped, InFlight, Covered, Parseable

LEMMA StepInv == IndexerInv /\ [Next]_vars => IndexerInv'
<1> SUFFICES ASSUME IndexerInv, [Next]_vars PROVE IndexerInv'
  OBVIOUS
<1>1. CASE \E t \in Topics : Publish(t)
  BY <1>1, PublishInv
<1>2. CASE Register
  BY <1>2, RegisterInv
<1>3. CASE \E w \in Workers : WorkerStep(w)
  <2>1. PICK w \in Workers : WorkerStep(w)
    BY <1>3
  <2>2. \/ BeginCycle(w) \/ ListTopics(w) \/ SkipTopic(w) \/ TakeTopic(w)
        \/ EndCycle(w) \/ QueryFails(w)
        \/ ReadCursor(w) \/ Fetch(w) \/ ApplyMessage(w) \/ SkipMessage(w) \/ CommitCursor(w)
    BY <2>1 DEF WorkerStep, LocalStep
  <2> QED
    BY <2>2, RoutingInv, ReadCursorInv, FetchInv, ApplyMessageInv, SkipMessageInv,
       CommitCursorInv
<1>4. CASE UNCHANGED vars
  BY <1>4, StutterInv
<1> QED BY <1>1, <1>2, <1>3, <1>4 DEF Next

(***************************************************************************)
(* IndexerInv is inductive: however many calls of IndexOnce interleave,    *)
(* with messages still arriving and queries failing.                       *)
(***************************************************************************)
THEOREM IndexerInvariant == Spec => []IndexerInv
<1>1. Init => IndexerInv
  BY InitInv
<1>2. IndexerInv /\ [Next]_vars => IndexerInv'
  BY StepInv
<1> QED BY <1>1, <1>2, PTL DEF Spec

(***************************************************************************)
(* The indexer's variables keep their types; the ledger, in particular,    *)
(* never holds a negative balance or supply.                               *)
(***************************************************************************)
THEOREM TypesHold == Spec => []TypeOK
<1>1. IndexerInv => TypeOK
  BY DEF IndexerInv
<1> QED BY <1>1, IndexerInvariant, PTL

(***************************************************************************)
(* CurrentSupply is the sum of the balances of a tick, also when messages  *)
(* are applied twice because calls of IndexOnce overlap.                   *)
(***************************************************************************)
THEOREM PointsConserved == Spec => []Conservation
<1>1. IndexerInv => Conservation
  BY DEF IndexerInv, LedgerInv, Conservation
<1> QED BY <1>1, IndexerInvariant, PTL

(***************************************************************************)
(* CurrentSupply stays within the maximum of the deploy message.           *)
(***************************************************************************)
THEOREM SupplyBounded == Spec => []SupplyBound
<1>1. IndexerInv => SupplyBound
  BY DEF IndexerInv, LedgerInv, SupplyBound
<1> QED BY <1>1, IndexerInvariant, PTL

(***************************************************************************)
(* No cursor passes a message that parses and was not applied, although    *)
(* overlapping calls overwrite each other's cursors.                       *)
(***************************************************************************)
THEOREM NoMessageSkipped == Spec => []NothingSkipped
<1>1. IndexerInv => NothingSkipped
  BY DEF IndexerInv
<1> QED BY <1>1, IndexerInvariant, PTL

(***************************************************************************)
(* Only handling a message changes the ledger.                             *)
(***************************************************************************)
LEMMA LedgerStep ==
  ASSUME IndexerInv, [Next]_vars
  PROVE  \/ ledger' = ledger
         \/ \E w \in Workers : ApplyMessage(w)
BY DEF Next, WorkerStep, LocalStep, Publish, Register, BeginCycle, ListTopics, SkipTopic, TakeTopic,
   EndCycle, QueryFails, ReadCursor, Fetch, SkipMessage, CommitCursor, vars

LEMMA AppliedMessage ==
  ASSUME IndexerInv, NEW w \in Workers, ApplyMessage(w)
  PROVE  \E t \in Topics, n \in Nat, m \in Message, private \in BOOLEAN :
            ledger' = ProcessMessage(ledger, m, private, t, n)
<1>1. PICK t \in Topics, n \in Nat : t = task[w].topic /\ n = next[w]
  BY DEF IndexerInv, TypeOK, Registration
<1>2. /\ task[w].private \in BOOLEAN /\ upto[w] \in Nat /\ topicLog[t] \in Seq(Entry)
      /\ maxSeq[w] \in Nat /\ maxSeq[w] < n /\ upto[w] <= Len(topicLog[t])
      /\ n <= upto[w] /\ topicLog[t][n] # Garbage
  BY <1>1 DEF IndexerInv, TypeOK, Registration, InFlight, ApplyMessage, Parseable
<1>3. n \in DOMAIN topicLog[t]
  BY <1>2
<1>4. topicLog[t][n] \in Message
  BY <1>2, <1>3, MessagesAssumption DEF Entry
<1> QED BY <1>1, <1>2, <1>4 DEF ApplyMessage

(***************************************************************************)
(* The books can be audited: every balance is what the recorded            *)
(* transactions add up to, also when overlapping calls applied a message   *)
(* twice.                                                                  *)
(***************************************************************************)
THEOREM BooksKept == Spec => []Audited(ledger)
<1>1. Init => Audited(ledger)
  BY EmptyLedgerAudited DEF Init
<1>2. IndexerInv /\ Audited(ledger) /\ [Next]_vars => Audited(ledger)'
  <2> SUFFICES ASSUME IndexerInv, Audited(ledger), [Next]_vars PROVE Audited(ledger')
    OBVIOUS
  <2>1. ASSUME NEW w \in Workers, ApplyMessage(w) PROVE Audited(ledger')
    <3>1. LedgerInv(ledger)
      BY DEF IndexerInv
    <3> QED BY <2>1, <3>1, AppliedMessage, ProcessMessageAudited
  <2> QED BY <2>1, LedgerStep
<1> QED BY <1>1, <1>2, IndexerInvariant, PTL DEF Spec

-----------------------------------------------------------------------------
LEMMA OnceInit == Init => OnceInv
BY DEF Init, EmptyLedger, OnceInv, ExactlyOnceInOrder, Fresh, Frontier

(***************************************************************************)
(* Steps that change neither ledger nor cursors, and that leave a worker   *)
(* that is fetching or applying where it is, are harmless.                 *)
(***************************************************************************)
LEMMA OnceStable ==
  ASSUME OnceInv, UNCHANGED <<ledger, cursor>>,
         \A v \in Workers :
           \/ UNCHANGED <<pc[v], task[v], last[v], maxSeq[v]>>
           \/ pc[v] # "apply" /\ pc'[v] \notin {"fetch", "apply"}
  PROVE  OnceInv'
<1>1. ExactlyOnceInOrder'
  BY DEF OnceInv, ExactlyOnceInOrder
<1>2. ASSUME NEW v \in Workers PROVE Fresh(v)'
  BY DEF OnceInv, Fresh, Frontier
<1>3. ASSUME NEW t \in Topics
      PROVE  \/ Frontier(t, cursor[t])'
             \/ \E v \in Workers : pc'[v] = "apply" /\ task'[v].topic = t
  BY DEF OnceInv, Frontier
<1> QED BY <1>1, <1>2, <1>3 DEF OnceInv

(***************************************************************************)
(* The other workers are not in a call while w is.                         *)
(***************************************************************************)
Solo(w) == \A v \in Workers \ {w} : pc[v] = "idle"

LEMMA OnceEnvironment ==
  ASSUME OnceInv, Register \/ \E t \in Topics : Publish(t)
  PROVE  OnceInv'
<1>1. UNCHANGED <<ledger, cursor, pc, task, last, maxSeq>>
  BY DEF Register, Publish, batch
<1> QED BY <1>1, OnceStable

LEMMA OnceRouting ==
  ASSUME IndexerInv, OnceInv, NEW w \in Workers,
         \/ BeginCycle(w) \/ ListTopics(w) \/ SkipTopic(w) \/ TakeTopic(w)
         \/ EndCycle(w) \/ QueryFails(w)
  PROVE  OnceInv'
<1>1. pc \in [Workers -> PCs] /\ task \in [Workers -> Registration] /\ last \in [Workers -> Nat]
  BY DEF IndexerInv, TypeOK
<1>2. /\ UNCHANGED <<ledger, cursor, maxSeq>>
      /\ pc[w] # "apply" /\ pc'[w] \notin {"fetch", "apply"}
      /\ \A v \in Workers \ {w} :
            pc'[v] = pc[v] /\ task'[v] = task[v] /\ last'[v] = last[v]
  BY <1>1 DEF PCs, BeginCycle, ListTopics, SkipTopic, TakeTopic, EndCycle, QueryFails, batch
<1> QED BY <1>2, OnceStable

LEMMA OnceReadCursor ==
  ASSUME IndexerInv, OnceInv, NEW w \in Workers, Solo(w), ReadCursor(w)
  PROVE  OnceInv'
<1>1. pc \in [Workers -> PCs] /\ last \in [Workers -> Nat]
  BY DEF IndexerInv, TypeOK
<1>2. /\ UNCHANGED <<ledger, cursor, task>>
      /\ pc[w] = "cursor" /\ pc'[w] = "fetch" /\ last'[w] = cursor[task[w].topic]
      /\ \A v \in Workers \ {w} : pc[v] = "idle" /\ pc'[v] = "idle"
  BY <1>1 DEF ReadCursor, Solo
<1>3. \A v \in Workers : Fresh(v)'
  BY <1>2 DEF Fresh
<1>4. \A t \in Topics : Frontier(t, cursor[t])
  BY <1>2 DEF OnceInv
<1> QED BY <1>2, <1>3, <1>4 DEF OnceInv, ExactlyOnceInOrder, Frontier

LEMMA OnceFetch ==
  ASSUME IndexerInv, OnceInv, NEW w \in Workers, Solo(w), Fetch(w)
  PROVE  OnceInv'
<1>1. /\ pc \in [Workers -> PCs] /\ maxSeq \in [Workers -> Nat] /\ last \in [Workers -> Nat]
      /\ task[w].topic \in Topics
  BY DEF IndexerInv, TypeOK, Registration
<1>2. /\ UNCHANGED <<ledger, cursor, task, last>>
      /\ pc[w] = "fetch" /\ pc'[w] = "apply" /\ maxSeq'[w] = last[w]
      /\ \A v \in Workers \ {w} : pc[v] = "idle" /\ pc'[v] = "idle"
  BY <1>1 DEF Fetch, Solo
<1>3. \A t \in Topics : Frontier(t, cursor[t])
  BY <1>2 DEF OnceInv
<1>4. last[w] = cursor[task[w].topic] /\ last[w] \in Nat
  BY <1>1, <1>2 DEF OnceInv, Fresh
<1>5. Fresh(w)'
  BY <1>1, <1>2, <1>3, <1>4 DEF Fresh, Frontier
<1>6. \A v \in Workers : Fresh(v)'
  BY <1>2, <1>5 DEF Fresh
<1> QED BY <1>2, <1>3, <1>6 DEF OnceInv, ExactlyOnceInOrder, Frontier

(***************************************************************************)
(* The one step that records: its sequence number is beyond maxSequence,   *)
(* and everything recorded of the topic so far is not.                     *)
(***************************************************************************)
LEMMA OnceApply ==
  ASSUME IndexerInv, OnceInv, NEW w \in Workers, Solo(w), ApplyMessage(w)
  PROVE  OnceInv'
<1>a. PICK t \in Topics, n \in Nat : t = task[w].topic /\ n = next[w]
  BY DEF IndexerInv, TypeOK, Registration
<1>1. /\ pc \in [Workers -> PCs] /\ maxSeq \in [Workers -> Nat] /\ last \in [Workers -> Nat]
      /\ upto[w] \in Nat /\ task[w].private \in BOOLEAN /\ topicLog[t] \in Seq(Entry)
      /\ ledger \in Ledger /\ ledger.transactions \in Seq(Transaction)
  BY <1>a DEF IndexerInv, TypeOK, Registration, Ledger
<1>2. /\ UNCHANGED <<topicLog, cursor, pc, task, last>>
      /\ maxSeq' = [maxSeq EXCEPT ![w] = n]
      /\ pc[w] = "apply" /\ n <= upto[w] /\ Parseable(t, n)
      /\ ledger' = ProcessMessage(ledger, topicLog[t][n], task[w].private, t, n)
  BY <1>a DEF ApplyMessage, mirror
<1>3. /\ maxSeq[w] < n /\ upto[w] <= Len(topicLog[t])
      /\ last[w] = cursor[t] /\ last[w] <= maxSeq[w] /\ Frontier(t, maxSeq[w])
  BY <1>a, <1>2 DEF IndexerInv, InFlight, OnceInv, Fresh
<1>4. topicLog[t][n] \in Message
  <2>1. n \in 1..Len(topicLog[t])
    BY <1>1, <1>2, <1>3
  <2>2. topicLog[t][n] \in Entry
    BY <1>1, <2>1
  <2> QED BY <1>2, <2>2, MessagesAssumption DEF Parseable, Entry
<1>5. Recorded(ledger, ledger', topicLog[t][n], task[w].private, t, n)
  BY <1>1, <1>2, <1>4, RecordsOnce
<1>6. \A i \in DOMAIN ledger'.transactions :
         \/ /\ i \in DOMAIN ledger.transactions
            /\ ledger'.transactions[i] = ledger.transactions[i]
         \/ /\ i = Len(ledger.transactions) + 1
            /\ ledger'.transactions[i].topic = t /\ ledger'.transactions[i].seq = n
  <2>1. CASE ledger'.transactions = ledger.transactions
    BY <2>1
  <2>2. ASSUME NEW tx \in Transaction, tx.topic = t, tx.seq = n,
               ledger'.transactions = Append(ledger.transactions, tx),
               NEW i \in DOMAIN ledger'.transactions
        PROVE  \/ /\ i \in DOMAIN ledger.transactions
                  /\ ledger'.transactions[i] = ledger.transactions[i]
               \/ /\ i = Len(ledger.transactions) + 1
                  /\ ledger'.transactions[i] = tx
    BY <1>1, <2>2
  <2> QED BY <1>5, <2>1, <2>2 DEF Recorded
<1>7. \A i \in DOMAIN ledger.transactions :
         /\ ledger.transactions[i].seq \in Nat
         /\ ledger.transactions[i].topic = t => ledger.transactions[i].seq < n
         /\ i \in Nat /\ i < Len(ledger.transactions) + 1
  <2> SUFFICES ASSUME NEW i \in DOMAIN ledger.transactions
               PROVE  /\ ledger.transactions[i].seq \in Nat
                      /\ ledger.transactions[i].topic = t => ledger.transactions[i].seq < n
                      /\ i \in Nat /\ i < Len(ledger.transactions) + 1
    OBVIOUS
  <2>1. ledger.transactions[i] \in Transaction /\ i \in Nat /\ i < Len(ledger.transactions) + 1
    BY <1>1
  <2>2. ledger.transactions[i].seq \in Nat
    BY <2>1 DEF Transaction
  <2>3. ledger.transactions[i].topic = t => ledger.transactions[i].seq <= maxSeq[w]
    BY <1>3 DEF Frontier
  <2>4. maxSeq[w] \in Nat
    BY <1>1
  <2> QED BY <1>3, <2>1, <2>2, <2>3, <2>4
<1>8. ExactlyOnceInOrder'
  <2> SUFFICES ASSUME NEW i \in DOMAIN ledger'.transactions,
                      NEW j \in DOMAIN ledger'.transactions, i < j,
                      ledger'.transactions[i].topic = ledger'.transactions[j].topic
               PROVE  ledger'.transactions[i].seq < ledger'.transactions[j].seq
    BY DEF ExactlyOnceInOrder
  <2>1. i \in DOMAIN ledger.transactions /\ ledger'.transactions[i] = ledger.transactions[i]
    <3>0. Len(ledger.transactions) \in Nat
      BY <1>1
    <3>1. i \in Nat /\ j \in Nat
      BY <3>0, <1>6, <1>7
    <3>2. i # Len(ledger.transactions) + 1
      BY <1>6, <1>7, <3>0, <3>1
    <3> QED BY <1>6, <3>2
  <2>2. CASE j \in DOMAIN ledger.transactions /\ ledger'.transactions[j] = ledger.transactions[j]
    BY <2>1, <2>2 DEF OnceInv, ExactlyOnceInOrder
  <2>3. CASE ledger'.transactions[j].topic = t /\ ledger'.transactions[j].seq = n
    BY <1>7, <2>1, <2>3
  <2> QED BY <1>6, <2>2, <2>3
<1>9. Frontier(t, n)'
  BY <1>6, <1>7 DEF Frontier
<1>10. Fresh(w)'
  <2>1. last'[w] = cursor'[task'[w].topic] /\ maxSeq'[w] = n /\ last'[w] <= n
    BY <1>a, <1>1, <1>2, <1>3
  <2> QED BY <1>a, <1>2, <1>9, <2>1 DEF Fresh
<1>11. \A v \in Workers : Fresh(v)'
  BY <1>2, <1>10 DEF Fresh, Solo
<1>12. ASSUME NEW u \in Topics
       PROVE  \/ Frontier(u, cursor[u])'
              \/ \E v \in Workers : pc'[v] = "apply" /\ task'[v].topic = u
  <2>1. CASE u = t
    BY <1>a, <1>2, <2>1
  <2>2. CASE u # t
    <3>1. Frontier(u, cursor[u])
      BY <1>a, <1>2, <2>2 DEF OnceInv, Solo
    <3> QED BY <1>2, <1>6, <2>2, <3>1 DEF Frontier
  <2> QED BY <2>1, <2>2
<1> QED BY <1>8, <1>11, <1>12 DEF OnceInv

LEMMA OnceSkip ==
  ASSUME IndexerInv, OnceInv, NEW w \in Workers, SkipMessage(w)
  PROVE  OnceInv'
<1>1. UNCHANGED <<ledger, cursor, pc, task, last, maxSeq>>
  BY DEF SkipMessage
<1> QED BY <1>1, OnceStable

LEMMA OnceCommit ==
  ASSUME IndexerInv, OnceInv, NEW w \in Workers, Solo(w), CommitCursor(w)
  PROVE  OnceInv'
<1>a. PICK t \in Topics : t = task[w].topic
  BY DEF IndexerInv, TypeOK, Registration
<1>1. /\ pc \in [Workers -> PCs] /\ cursor \in [Topics -> Nat]
      /\ maxSeq[w] \in Nat /\ last[w] \in Nat
  BY DEF IndexerInv, TypeOK
<1>2. /\ UNCHANGED <<ledger, task>>
      /\ cursor' = [cursor EXCEPT ![t] = NewCursor(w)]
      /\ pc[w] = "apply" /\ pc'[w] \in {"registry", "topics"}
      /\ \A v \in Workers \ {w} : pc'[v] = "idle"
  BY <1>a, <1>1 DEF CommitCursor, Solo
<1>3. last[w] = cursor[t] /\ last[w] <= maxSeq[w] /\ Frontier(t, maxSeq[w])
  BY <1>a, <1>2 DEF OnceInv, Fresh
<1>4. NewCursor(w) = maxSeq[w]
  BY <1>a, <1>1, <1>3 DEF NewCursor
<1>5. ASSUME NEW u \in Topics PROVE Frontier(u, cursor[u])'
  <2>1. CASE u = t
    BY <1>1, <1>2, <1>3, <1>4, <2>1 DEF Frontier
  <2>2. CASE u # t
    <3>1. Frontier(u, cursor[u])
      BY <1>a, <1>2, <2>2 DEF OnceInv, Solo
    <3> QED BY <1>1, <1>2, <2>2, <3>1 DEF Frontier
  <2> QED BY <2>1, <2>2
<1>6. \A v \in Workers : Fresh(v)'
  BY <1>2 DEF Fresh
<1>7. ExactlyOnceInOrder'
  BY <1>2 DEF OnceInv, ExactlyOnceInOrder
<1> QED BY <1>5, <1>6, <1>7 DEF OnceInv

LEMMA OnceStep ==
  ASSUME IndexerInv, OnceInv, NEW w \in Workers, Solo(w), WorkerStep(w)
  PROVE  OnceInv'
BY OnceRouting, OnceReadCursor, OnceFetch, OnceApply, OnceSkip, OnceCommit
   DEF WorkerStep, LocalStep

LEMMA OneWorkerOnceInv ==
  ASSUME \A v, w \in Workers : v = w
  PROVE  Spec => []OnceInv
<1>1. Init => OnceInv
  BY OnceInit
<1>2. IndexerInv /\ OnceInv /\ [Next]_vars => OnceInv'
  <2> SUFFICES ASSUME IndexerInv, OnceInv, [Next]_vars PROVE OnceInv'
    OBVIOUS
  <2>1. ASSUME NEW w \in Workers, WorkerStep(w) PROVE OnceInv'
    BY <2>1, OnceStep DEF Solo
  <2>2. CASE UNCHANGED vars
    <3>1. UNCHANGED <<ledger, cursor, pc, task, last, maxSeq>>
      BY <2>2 DEF vars
    <3> QED BY <3>1, OnceStable
  <2> QED BY <2>1, <2>2, OnceEnvironment DEF Next
<1> QED BY <1>1, <1>2, IndexerInvariant, PTL DEF Spec

(***************************************************************************)
(* With one goroutine calling IndexOnce, each message of each topic takes  *)
(* effect at most once and in sequence number order.                       *)
(***************************************************************************)
THEOREM OneWorkerExactlyOnce ==
  ASSUME \A v, w \in Workers : v = w
  PROVE  Spec => []ExactlyOnceInOrder
<1>1. OnceInv => ExactlyOnceInOrder
  BY DEF OnceInv
<1> QED BY <1>1, OneWorkerOnceInv, PTL

-----------------------------------------------------------------------------
(***************************************************************************)
(* The refinement.  Rulings accumulate: the registry only grows, and the   *)
(* first registration of a topic stays the first.                          *)
(***************************************************************************)
LEMMA RegistrationRules ==
  ASSUME NEW t, NEW i \in DOMAIN registryLog, Replica!Registers(i, t), t # PublicTopic,
         \A k \in 1..(i - 1) : ~Replica!Registers(k, t)
  PROVE  registryLog[i].private \in Replica!Ruling(t)
BY DEF Replica!Ruling

LEMMA RulingKept ==
  ASSUME TypeOK, Register, NEW t, NEW b, b \in Replica!Ruling(t)
  PROVE  (b \in Replica!Ruling(t))'
<1>1. PICK r \in Registrations \cup {Garbage} : registryLog' = Append(registryLog, r)
  BY DEF Register
<1>2. registryLog \in Seq(Registrations \cup {Garbage})
  BY DEF TypeOK
<1>3. \A i \in DOMAIN registryLog :
         /\ i \in DOMAIN registryLog' /\ registryLog'[i] = registryLog[i]
         /\ \A k \in 1..(i - 1) : k \in DOMAIN registryLog /\ registryLog'[k] = registryLog[k]
  BY <1>1, <1>2
<1>4. \A i \in DOMAIN registryLog :
         (Replica!Registers(i, t))' <=> Replica!Registers(i, t)
  BY <1>3 DEF Replica!Registers
<1>5. CASE t = PublicTopic /\ b = FALSE
  BY <1>5 DEF Replica!Ruling
<1>6. CASE /\ t # PublicTopic /\ b = TRUE
           /\ t \in UNION {{Options[w].private[i] : i \in DOMAIN Options[w].private} :
                            w \in Workers}
  BY <1>6 DEF Replica!Ruling
<1>7. ASSUME NEW i \in DOMAIN registryLog, Replica!Registers(i, t), t # PublicTopic,
             \A k \in 1..(i - 1) : ~Replica!Registers(k, t),
             b = registryLog[i].private
      PROVE  (b \in Replica!Ruling(t))'
  BY <1>3, <1>4, <1>7 DEF Replica!Ruling
<1> QED BY <1>5, <1>6, <1>7 DEF Replica!Ruling

LEMMA RulingUnchanged ==
  ASSUME registryLog' = registryLog, NEW t, NEW b
  PROVE  (b \in Replica!Ruling(t))' <=> b \in Replica!Ruling(t)
BY DEF Replica!Ruling, Replica!Registers

LEMMA PublicRuling == FALSE \in Replica!Ruling(PublicTopic)
BY DEF Replica!Ruling

LEMMA CallerRuling ==
  ASSUME NEW w \in Workers, NEW i \in DOMAIN Options[w].private,
         Options[w].private[i] # PublicTopic
  PROVE  TRUE \in Replica!Ruling(Options[w].private[i])
<1> DEFINE named(v) == {Options[v].private[j] : j \in DOMAIN Options[v].private}
           c == Options[w].private[i]
<1>1. c \in named(w) /\ named(w) \in {named(v) : v \in Workers}
  OBVIOUS
<1>2. c \in UNION {named(v) : v \in Workers}
  BY <1>1
<1>3. c \in (UNION {named(v) : v \in Workers}) \cap {c} /\ c # PublicTopic
  BY <1>2
<1> HIDE DEF c
<1>4. TRUE \in Replica!Ruling(c)
  BY <1>3 DEF Replica!Ruling
<1> QED BY <1>4 DEF c

LEMMA RuledKept ==
  ASSUME TypeOK, NEW w \in Workers, NEW list, Ruled(w, list),
         registryLog' = registryLog \/ Register, seen[w] \subseteq seen'[w]
  PROVE  Ruled(w, list)'
<1> SUFFICES ASSUME NEW i \in DOMAIN list
             PROVE  \/ Skipped(w, list[i])'
                    \/ (list[i].private \in Replica!Ruling(list[i].topic))'
                    \/ \E j \in 1..(i - 1) : list[j] # Garbage /\ list[j].topic = list[i].topic
  BY DEF Ruled
<1>1. CASE Skipped(w, list[i])
  BY <1>1 DEF Skipped
<1>2. CASE list[i].private \in Replica!Ruling(list[i].topic)
  BY <1>2, RulingKept, RulingUnchanged
<1> QED BY <1>1, <1>2 DEF Ruled

(***************************************************************************)
(* The list a call builds is ruled: a registration is the first of its     *)
(* topic or comes after it in the list, and the topics named by the caller *)
(* are private.                                                            *)
(***************************************************************************)
LEMMA PrivateTopicsAre ==
  ASSUME NEW w \in Workers
  PROVE  /\ Len(PrivateTopics(w)) \in Nat
         /\ \A j \in 1..Len(PrivateTopics(w)) :
               /\ j \in DOMAIN Options[w].private
               /\ PrivateTopics(w)[j] = Task(Options[w].private[j], TRUE)
<1> DEFINE named == Options[w].private
<1>1. named \in Seq(Topics)
  BY OptionsAssumption DEF IndexOptions
<1>2. Len(named) \in Nat /\ DOMAIN named = 1..Len(named)
  BY <1>1
<1>3. PrivateTopics(w) = [j \in 1..Len(named) |-> Task(named[j], TRUE)]
  BY DEF PrivateTopics
<1> HIDE DEF named
<1>4. DOMAIN PrivateTopics(w) = 1..Len(named)
  BY <1>3
<1>5. Len(PrivateTopics(w)) = Len(named)
  <2>1. PrivateTopics(w) \in Seq(Registration \cup {Garbage})
    BY PrivateTopicsType
  <2>2. DOMAIN PrivateTopics(w) = 1..Len(PrivateTopics(w)) /\ Len(PrivateTopics(w)) \in Nat
    BY <2>1
  <2> QED BY <1>2, <1>4, <2>2
<1> QED BY <1>2, <1>3, <1>5 DEF named

LEMMA ListRuled ==
  ASSUME TypeOK, NEW w \in Workers, NEW head, head \in {registryLog, << >>}
  PROVE  Ruled(w, head \o PrivateTopics(w))
<1>1. head \in Seq(Registration \cup {Garbage}) /\ Len(head) \in Nat
  <2>1. registryLog \in Seq(Registration \cup {Garbage})
    BY RegistrationsAssumption DEF TypeOK
  <2>2. << >> \in Seq(Registration \cup {Garbage})
    OBVIOUS
  <2>3. head \in Seq(Registration \cup {Garbage})
    BY <2>1, <2>2
  <2> QED BY <2>3
<1>2. PrivateTopics(w) \in Seq(Registration \cup {Garbage}) /\ Len(PrivateTopics(w)) \in Nat
  BY PrivateTopicsType
<1> DEFINE q == head \o PrivateTopics(w)
<1>3. /\ DOMAIN q = 1..(Len(head) + Len(PrivateTopics(w)))
      /\ \A i \in 1..Len(head) : q[i] = head[i]
      /\ \A i \in (Len(head) + 1)..(Len(head) + Len(PrivateTopics(w))) :
            q[i] = PrivateTopics(w)[i - Len(head)]
  BY <1>1, <1>2
<1> HIDE DEF q
<1>4. SUFFICES ASSUME NEW i \in DOMAIN q, NEW e, e = q[i]
               PROVE  \/ Skipped(w, e)
                      \/ e.private \in Replica!Ruling(e.topic)
                      \/ \E j \in 1..(i - 1) : q[j] # Garbage /\ q[j].topic = e.topic
  BY DEF Ruled, q
<1>5. CASE i \in 1..Len(head)
  <2>1. head = registryLog /\ \A j \in 1..i : q[j] = registryLog[j]
    BY <1>1, <1>3, <1>5
  <2>2. e = registryLog[i] /\ i \in DOMAIN registryLog
    BY <1>1, <1>4, <1>5, <2>1
  <2>3. CASE e = Garbage \/ e.topic = PublicTopic
    BY <2>3 DEF Skipped
  <2>4. CASE e # Garbage /\ e.topic # PublicTopic
    <3>1. CASE \A k \in 1..(i - 1) : ~Replica!Registers(k, e.topic)
      BY <2>2, <2>4, <3>1, RegistrationRules DEF Replica!Registers
    <3>2. CASE \E k \in 1..(i - 1) : Replica!Registers(k, e.topic)
      BY <1>1, <1>5, <2>1, <3>2 DEF Replica!Registers
    <3> QED BY <3>1, <3>2
  <2> QED BY <2>3, <2>4
<1>6. CASE i \notin 1..Len(head)
  <2>1. i - Len(head) \in 1..Len(PrivateTopics(w)) /\ e = PrivateTopics(w)[i - Len(head)]
    BY <1>1, <1>2, <1>3, <1>4, <1>6
  <2>2. PICK j \in DOMAIN Options[w].private : e = Task(Options[w].private[j], TRUE)
    BY <2>1, PrivateTopicsAre
  <2>3. e.topic = Options[w].private[j] /\ e.private = TRUE
    BY <2>2 DEF Task
  <2> QED BY <2>3, CallerRuling DEF Skipped
<1> QED BY <1>5, <1>6

(***************************************************************************)
(* Dropping the first entry keeps the rest ruled, if that entry is to be   *)
(* skipped or its topic counts as seen from now on.                        *)
(***************************************************************************)
LEMMA TailRuled ==
  ASSUME TypeOK, NEW w \in Workers, NEW q \in Seq(Registration \cup {Garbage}), q # << >>,
         Ruled(w, q), registryLog' = registryLog, seen[w] \subseteq seen'[w],
         Skipped(w, Head(q)) \/ Head(q).topic \in seen'[w]
  PROVE  Ruled(w, Tail(q))'
<1>1. Ruled(w, q)'
  BY RuledKept
<1>2. SUFFICES ASSUME NEW i \in DOMAIN Tail(q), NEW e, e = Tail(q)[i]
               PROVE  \/ Skipped(w, e)'
                      \/ (e.private \in Replica!Ruling(e.topic))'
                      \/ \E j \in 1..(i - 1) : Tail(q)[j] # Garbage /\ Tail(q)[j].topic = e.topic
  BY DEF Ruled
<1>3. /\ i \in Nat /\ i + 1 \in DOMAIN q /\ e = q[i + 1]
      /\ \A j \in 1..(i - 1) : Tail(q)[j] = q[j + 1]
      /\ Head(q) = q[1]
  BY <1>2
<1>4. ASSUME NEW j \in 1..((i + 1) - 1), q[j] # Garbage, q[j].topic = e.topic
      PROVE  \/ Skipped(w, e)'
             \/ \E k \in 1..(i - 1) : Tail(q)[k] # Garbage /\ Tail(q)[k].topic = e.topic
  <2>1. CASE j = 1
    <3>1. e.topic \in {PublicTopic} \cup seen'[w]
      BY <1>3, <1>4, <2>1 DEF Skipped
    <3> QED BY <3>1 DEF Skipped
  <2>2. CASE j # 1
    <3>1. j - 1 \in 1..(i - 1) /\ Tail(q)[j - 1] = q[j]
      BY <1>3, <1>4, <2>2
    <3> QED BY <1>4, <3>1
  <2> QED BY <2>1, <2>2
<1> QED BY <1>1, <1>3, <1>4 DEF Ruled

-----------------------------------------------------------------------------
(***************************************************************************)
(* The invariant about rulings, for any number of workers.                 *)
(***************************************************************************)
Carried(w) == Ruled(w, queue[w]) /\ TaskRuled(w) /\ BatchTight(w)

LEMMA RulingsInit == Init => RulingsInv
BY DEF Init, RulingsInv, Ruled, TaskRuled, BatchTight

LEMMA CarriedStable ==
  ASSUME TypeOK, NEW v \in Workers, Carried(v), topicLog' = topicLog,
         registryLog' = registryLog \/ Register,
         UNCHANGED <<pc[v], task[v], queue[v], seen[v], next[v], maxSeq[v]>>
  PROVE  Carried(v)'
<1>1. Ruled(v, queue[v])'
  <2>1. PICK list : list = queue[v]
    OBVIOUS
  <2>2. Ruled(v, list)'
    BY <2>1, RuledKept DEF Carried
  <2> QED BY <2>1, <2>2
<1>2. TaskRuled(v)'
  <2>1. \A t, b : b \in Replica!Ruling(t) => (b \in Replica!Ruling(t))'
    BY RulingKept, RulingUnchanged
  <2> QED BY <2>1 DEF Carried, TaskRuled
<1>3. BatchTight(v)'
  BY DEF Carried, BatchTight, Parseable
<1> QED BY <1>1, <1>2, <1>3 DEF Carried

LEMMA CarriedEnvironment ==
  ASSUME IndexerInv, RulingsInv, Register \/ \E t \in Topics : Publish(t)
  PROVE  RulingsInv'
<1> SUFFICES ASSUME NEW v \in Workers PROVE Carried(v)'
  BY DEF RulingsInv, Carried
<1>0. TypeOK /\ Carried(v)
  BY DEF IndexerInv, RulingsInv, Carried
<1>1. CASE Register
  BY <1>0, <1>1, CarriedStable DEF Register, batch
<1>2. ASSUME NEW t \in Topics, Publish(t) PROVE Carried(v)'
  <2>1. UNCHANGED <<registryLog, pc, task, queue, seen, next, maxSeq>>
    BY <1>2 DEF Publish, batch
  <2>2. Ruled(v, queue[v])'
    <3>1. PICK list : list = queue[v]
      OBVIOUS
    <3>2. Ruled(v, list)'
      BY <1>0, <2>1, <3>1, RuledKept DEF Carried
    <3> QED BY <2>1, <3>1, <3>2
  <2>3. TaskRuled(v)'
    <3>1. \A u, b : b \in Replica!Ruling(u) => (b \in Replica!Ruling(u))'
      BY <2>1, RulingUnchanged
    <3> QED BY <1>0, <2>1, <3>1 DEF Carried, TaskRuled
  <2>4. BatchTight(v)'
    <3> SUFFICES ASSUME pc[v] = "apply", NEW k \in (maxSeq[v] + 1)..(next[v] - 1)
                 PROVE  ~Parseable(task[v].topic, k)'
      BY <2>1 DEF BatchTight
    <3>1. /\ task[v].topic \in Topics /\ maxSeq[v] \in Nat /\ next[v] \in Nat
          /\ Covered(task[v].topic, next[v] - 1)
          /\ topicLog \in [Topics -> Seq(Entry)]
      BY DEF IndexerInv, InFlight, TypeOK, Registration
    <3>2. k \in DOMAIN topicLog[task[v].topic]
      <4>1. k \in 1..(next[v] - 1)
        BY <3>1
      <4> QED BY <3>1, <4>1 DEF Covered
    <3>3. PICK m \in Entry : topicLog' = [topicLog EXCEPT ![t] = Append(@, m)]
      BY <1>2 DEF Publish, Entry
    <3>4. topicLog'[task[v].topic][k] = topicLog[task[v].topic][k]
      BY <3>1, <3>2, <3>3
    <3>5. ~Parseable(task[v].topic, k)
      BY <1>0 DEF Carried, BatchTight
    <3> QED BY <2>1, <3>4, <3>5 DEF Parseable
  <2> QED BY <2>2, <2>3, <2>4 DEF Carried
<1> QED BY <1>1, <1>2

(***************************************************************************)
(* The steps of a worker, seen from that worker.                           *)
(***************************************************************************)
LEMMA CarriedRouting ==
  ASSUME IndexerInv, NEW w \in Workers, Carried(w),
         \/ BeginCycle(w) \/ ListTopics(w) \/ SkipTopic(w) \/ TakeTopic(w)
         \/ EndCycle(w) \/ QueryFails(w)
  PROVE  Carried(w)'
<1>0. /\ TypeOK /\ queue[w] \in Seq(Registration \cup {Garbage})
      /\ pc \in [Workers -> PCs] /\ task \in [Workers -> Registration]
      /\ queue \in [Workers -> Seq(Registration \cup {Garbage})]
      /\ seen \in [Workers -> SUBSET Topics]
  BY DEF IndexerInv, TypeOK
<1>1. registryLog' = registryLog /\ pc'[w] # "apply"
  BY <1>0 DEF BeginCycle, ListTopics, SkipTopic, TakeTopic, EndCycle, QueryFails, mirror
<1>2. BatchTight(w)'
  BY <1>1 DEF BatchTight
<1>3. PICK list : list = queue[w]
  OBVIOUS
<1>4. \A t, b : b \in Replica!Ruling(t) => (b \in Replica!Ruling(t))'
  BY <1>1, RulingUnchanged
<1>5. CASE BeginCycle(w)
  <2>1. queue' = queue /\ seen' = seen /\ task'[w] = Task(PublicTopic, FALSE)
    BY <1>0, <1>5 DEF BeginCycle
  <2>2. Ruled(w, list)'
    BY <1>0, <1>1, <1>3, <2>1, RuledKept DEF Carried
  <2>3. TaskRuled(w)'
    <3>1. task'[w].private = FALSE /\ task'[w].topic = PublicTopic
      BY <2>1 DEF Task
    <3>2. (FALSE \in Replica!Ruling(PublicTopic))'
      BY <1>4, PublicRuling
    <3> QED BY <3>1, <3>2, Zenon DEF TaskRuled
  <2> QED BY <1>2, <1>3, <2>1, <2>2, <2>3 DEF Carried
<1>6. CASE ListTopics(w)
  <2>1. PICK head : head = IF IncludeRegistry(w) THEN registryLog ELSE << >>
    OBVIOUS
  <2>2. head \in {registryLog, << >>}
    BY <2>1
  <2>3. queue'[w] = head \o PrivateTopics(w) /\ seen' = seen /\ pc'[w] = "topics"
    BY <1>0, <1>6, <2>1 DEF ListTopics
  <2>4. PICK new : new = head \o PrivateTopics(w)
    OBVIOUS
  <2>5. Ruled(w, new)
    BY <1>0, <2>2, <2>4, ListRuled
  <2>6. Ruled(w, new)'
    BY <1>0, <1>1, <2>3, <2>5, RuledKept
  <2>7. TaskRuled(w)'
    BY <2>3 DEF TaskRuled
  <2> QED BY <1>2, <2>3, <2>4, <2>6, <2>7 DEF Carried
<1>7. CASE SkipTopic(w)
  <2>1. /\ queue'[w] = Tail(list) /\ seen' = seen /\ UNCHANGED <<pc, task>>
        /\ list # << >> /\ Skipped(w, Head(list)) /\ pc[w] = "topics"
    BY <1>0, <1>3, <1>7 DEF SkipTopic
  <2>2. Ruled(w, Tail(list))'
    BY <1>0, <1>1, <1>3, <2>1, TailRuled DEF Carried
  <2>3. TaskRuled(w)'
    BY <2>1 DEF TaskRuled
  <2> QED BY <1>2, <2>1, <2>2, <2>3 DEF Carried
<1>8. CASE TakeTopic(w)
  <2>1. /\ queue'[w] = Tail(list) /\ list # << >> /\ ~Skipped(w, Head(list))
        /\ seen'[w] = seen[w] \cup {Head(list).topic}
        /\ task'[w] = Task(Head(list).topic, Head(list).private)
    BY <1>0, <1>3, <1>8 DEF TakeTopic
  <2>2. Ruled(w, Tail(list))'
    BY <1>0, <1>1, <1>3, <2>1, TailRuled DEF Carried
  <2>3. Head(list).private \in Replica!Ruling(Head(list).topic)
    <3>1. 1 \in DOMAIN list /\ Head(list) = list[1] /\ 1..(1 - 1) = {}
      BY <1>0, <1>3, <2>1
    <3> QED BY <1>3, <2>1, <3>1 DEF Carried, Ruled
  <2>4. TaskRuled(w)'
    BY <1>4, <2>1, <2>3 DEF TaskRuled, Task
  <2> QED BY <1>2, <2>1, <2>2, <2>4 DEF Carried
<1>9. CASE EndCycle(w) \/ QueryFails(w)
  <2>1. queue'[w] = << >> /\ pc'[w] = "idle"
    BY <1>0, <1>9 DEF EndCycle, QueryFails
  <2> QED BY <1>2, <2>1 DEF Carried, Ruled, TaskRuled
<1> QED BY <1>5, <1>6, <1>7, <1>8, <1>9

LEMMA CarriedIndexing ==
  ASSUME IndexerInv, NEW w \in Workers, Carried(w),
         \/ ReadCursor(w) \/ Fetch(w) \/ ApplyMessage(w) \/ SkipMessage(w) \/ CommitCursor(w)
  PROVE  Carried(w)'
<1>0. /\ TypeOK /\ pc \in [Workers -> PCs]
      /\ last[w] \in Nat /\ next \in [Workers -> Nat] /\ maxSeq \in [Workers -> Nat]
      /\ pc[w] = "apply" => maxSeq[w] < next[w]
  BY DEF IndexerInv, TypeOK, InFlight
<1>1. UNCHANGED <<topicLog, registryLog, task, queue, seen>>
  BY DEF ReadCursor, Fetch, ApplyMessage, SkipMessage, CommitCursor, mirror
<1>2. Ruled(w, queue[w])'
  <2>1. PICK list : list = queue[w]
    OBVIOUS
  <2>2. Ruled(w, list)'
    BY <1>0, <1>1, <2>1, RuledKept DEF Carried
  <2> QED BY <1>1, <2>1, <2>2
<1>3. TaskRuled(w)'
  <2>1. \A t, b : b \in Replica!Ruling(t) => (b \in Replica!Ruling(t))'
    BY <1>1, RulingUnchanged
  <2>2. pc'[w] \in {"fetch", "apply"} => pc[w] \in {"cursor", "fetch", "apply"}
    BY DEF ReadCursor, Fetch, ApplyMessage, SkipMessage, CommitCursor
  <2>3. pc'[w] # "cursor"
    BY <1>0 DEF ReadCursor, Fetch, ApplyMessage, SkipMessage, CommitCursor
  <2> QED BY <1>1, <2>1, <2>2, <2>3 DEF Carried, TaskRuled
<1>4. BatchTight(w)'
  <2>1. CASE ReadCursor(w) \/ CommitCursor(w)
    BY <1>0, <2>1 DEF ReadCursor, CommitCursor, BatchTight
  <2>2. CASE Fetch(w)
    <3>1. maxSeq'[w] = last[w] /\ next'[w] = last[w] + 1
      BY <1>0, <2>2 DEF Fetch, FirstAfter
    <3> QED BY <1>0, <3>1 DEF BatchTight
  <2>3. CASE ApplyMessage(w)
    <3>1. maxSeq'[w] = next[w] /\ next'[w] = next[w] + 1
      BY <1>0, <2>3 DEF ApplyMessage
    <3> QED BY <1>0, <3>1 DEF BatchTight
  <2>4. CASE SkipMessage(w)
    <3>1. /\ maxSeq' = maxSeq /\ next'[w] = next[w] + 1 /\ pc[w] = "apply"
          /\ ~Parseable(task[w].topic, next[w])
      BY <1>0, <2>4 DEF SkipMessage
    <3>2. \A k \in (maxSeq[w] + 1)..next[w] : ~Parseable(task[w].topic, k)
      BY <1>0, <3>1 DEF Carried, BatchTight
    <3> QED BY <1>0, <1>1, <3>1, <3>2 DEF BatchTight, Parseable
  <2> QED BY <2>1, <2>2, <2>3, <2>4
<1> QED BY <1>2, <1>3, <1>4 DEF Carried

(***************************************************************************)
(* Every call, however the calls overlap, indexes a topic under a ruling   *)
(* that the registry or a caller's list gives that topic.                  *)
(***************************************************************************)
THEOREM TopicsRuled == Spec => []RulingsInv
<1>1. IndexerInv /\ RulingsInv /\ [Next]_vars => RulingsInv'
  <2> SUFFICES ASSUME IndexerInv, RulingsInv, [Next]_vars PROVE RulingsInv'
    OBVIOUS
  <2>0. TypeOK /\ \A v \in Workers : Carried(v)
    BY DEF IndexerInv, RulingsInv, Carried
  <2>1. ASSUME NEW w \in Workers, WorkerStep(w) PROVE RulingsInv'
    <3>1. Carried(w)'
      BY <2>0, <2>1, CarriedRouting, CarriedIndexing DEF WorkerStep, LocalStep
    <3>2. ASSUME NEW v \in Workers \ {w} PROVE Carried(v)'
      <4>1. /\ UNCHANGED <<topicLog, registryLog>>
            /\ UNCHANGED <<pc[v], task[v], queue[v], seen[v], next[v], maxSeq[v]>>
        BY <2>0, <2>1, <3>2 DEF TypeOK, WorkerStep, LocalStep, BeginCycle, ListTopics, SkipTopic,
           TakeTopic, EndCycle, QueryFails, ReadCursor, Fetch, ApplyMessage, SkipMessage,
           CommitCursor, batch, mirror
      <4> QED BY <2>0, <4>1, CarriedStable
    <3> QED BY <3>1, <3>2 DEF RulingsInv, Carried
  <2>2. CASE UNCHANGED vars
    <3>1. UNCHANGED <<topicLog, registryLog, pc, task, queue, seen, next, maxSeq>>
      BY <2>2 DEF vars
    <3>2. \A v \in Workers : Carried(v)'
      BY <2>0, <3>1, CarriedStable
    <3> QED BY <3>2 DEF RulingsInv, Carried
  <2> QED BY <2>1, <2>2, CarriedEnvironment DEF Next
<1> QED BY <1>1, RulingsInit, IndexerInvariant, PTL DEF Spec

-----------------------------------------------------------------------------
(***************************************************************************)
(* The replica's view of a call that is alone: its topic has been replayed *)
(* up to maxSequence while a batch is applied, and every other up to its   *)
(* cursor.                                                                 *)
(***************************************************************************)
LEMMA DoneIs ==
  ASSUME NEW w \in Workers, \A v \in Workers \ {w} : pc[v] # "apply" /\ pc'[v] # "apply",
         NEW t
  PROVE  /\ Done(t) = IF pc[w] = "apply" /\ task[w].topic = t THEN maxSeq[w] ELSE cursor[t]
         /\ Done(t)' = IF pc'[w] = "apply" /\ task'[w].topic = t THEN maxSeq'[w] ELSE cursor'[t]
<1>1. CASE pc[w] = "apply" /\ task[w].topic = t
  <2>1. w = CHOOSE v \in Workers : pc[v] = "apply" /\ task[v].topic = t
    BY <1>1
  <2> QED BY <1>1, <2>1 DEF Done
<1>2. CASE ~(pc[w] = "apply" /\ task[w].topic = t)
  BY <1>2 DEF Done
<1>3. CASE pc'[w] = "apply" /\ task'[w].topic = t
  <2>1. w = CHOOSE v \in Workers : pc'[v] = "apply" /\ task'[v].topic = t
    BY <1>3
  <2> QED BY <1>1, <1>2, <1>3, <2>1 DEF Done
<1>4. CASE ~(pc'[w] = "apply" /\ task'[w].topic = t)
  BY <1>1, <1>2, <1>4 DEF Done
<1> QED BY <1>3, <1>4

(***************************************************************************)
(* The steps that are not the replica's: moving through the list of topics *)
(* and reading cursors, fetching a batch, passing over what does not       *)
(* parse, and writing the cursor of a batch that is done.                  *)
(***************************************************************************)
LEMMA RoutingStutters ==
  ASSUME IndexerInv, NEW w \in Workers, Solo(w),
         \/ BeginCycle(w) \/ ListTopics(w) \/ SkipTopic(w) \/ TakeTopic(w)
         \/ EndCycle(w) \/ QueryFails(w) \/ ReadCursor(w) \/ SkipMessage(w)
  PROVE  UNCHANGED Replica!vars
<1>0. pc \in [Workers -> PCs]
  BY DEF IndexerInv, TypeOK
<1>1. /\ UNCHANGED <<topicLog, registryLog, ledger, cursor, maxSeq>>
      /\ \A v \in Workers \ {w} : pc[v] # "apply" /\ pc'[v] # "apply"
      /\ \/ pc[w] # "apply" /\ pc'[w] # "apply"
         \/ UNCHANGED <<pc, task>>
  BY <1>0 DEF BeginCycle, ListTopics, SkipTopic, TakeTopic, EndCycle, QueryFails, ReadCursor,
     SkipMessage, Solo, batch, mirror
<1>2. \A t \in Topics : Done(t)' = Done(t)
  BY <1>1, DoneIs
<1>3. [t \in Topics |-> Done(t)]' = [t \in Topics |-> Done(t)]
  BY <1>2
<1> QED BY <1>1, <1>3 DEF Replica!vars

LEMMA FetchStutters ==
  ASSUME IndexerInv, OnceInv, NEW w \in Workers, Solo(w), Fetch(w)
  PROVE  UNCHANGED Replica!vars
<1>0. pc \in [Workers -> PCs] /\ maxSeq \in [Workers -> Nat]
  BY DEF IndexerInv, TypeOK
<1>1. /\ UNCHANGED <<topicLog, registryLog, ledger, cursor, task>>
      /\ \A v \in Workers \ {w} : pc[v] # "apply" /\ pc'[v] # "apply"
      /\ pc[w] = "fetch" /\ pc'[w] = "apply" /\ maxSeq'[w] = last[w]
  BY <1>0 DEF Fetch, Solo, mirror
<1>2. last[w] = cursor[task[w].topic]
  BY <1>1 DEF OnceInv, Fresh
<1>3. \A t \in Topics : Done(t)' = Done(t)
  BY <1>1, <1>2, DoneIs
<1>4. [t \in Topics |-> Done(t)]' = [t \in Topics |-> Done(t)]
  BY <1>3
<1> QED BY <1>1, <1>4 DEF Replica!vars

LEMMA CommitStutters ==
  ASSUME IndexerInv, OnceInv, NEW w \in Workers, Solo(w), CommitCursor(w)
  PROVE  UNCHANGED Replica!vars
<1>0. /\ pc \in [Workers -> PCs] /\ cursor \in [Topics -> Nat]
      /\ maxSeq[w] \in Nat /\ last[w] \in Nat /\ task[w].topic \in Topics
  BY DEF IndexerInv, TypeOK, Registration
<1>1. /\ UNCHANGED <<topicLog, registryLog, ledger, task>>
      /\ cursor' = [cursor EXCEPT ![task[w].topic] = NewCursor(w)]
      /\ \A v \in Workers \ {w} : pc[v] # "apply" /\ pc'[v] # "apply"
      /\ pc[w] = "apply" /\ pc'[w] # "apply"
  BY <1>0 DEF CommitCursor, Solo, mirror
<1>2. last[w] = cursor[task[w].topic] /\ last[w] <= maxSeq[w]
  BY <1>1 DEF OnceInv, Fresh
<1>3. NewCursor(w) = maxSeq[w]
  BY <1>0, <1>2 DEF NewCursor
<1>4. \A t \in Topics : Done(t)' = Done(t)
  BY <1>0, <1>1, <1>3, DoneIs
<1>5. [t \in Topics |-> Done(t)]' = [t \in Topics |-> Done(t)]
  BY <1>4
<1> QED BY <1>1, <1>5 DEF Replica!vars

(***************************************************************************)
(* Both specifications derive the ledger with the same handlers.           *)
(***************************************************************************)
LEMMA SameHandlers ==
  /\ Replica!EmptyLedger = EmptyLedger
  /\ \A l, m, private, t, n :
        Replica!ProcessMessage(l, m, private, t, n) = ProcessMessage(l, m, private, t, n)
<1>1. Replica!EmptyLedger = EmptyLedger
  BY DEF EmptyLedger, Accounts, Replica!EmptyLedger, Replica!Accounts
<1>2. ASSUME NEW l, NEW m, NEW private, NEW t, NEW n
      PROVE  Replica!ProcessMessage(l, m, private, t, n) = ProcessMessage(l, m, private, t, n)
  <2>1. Replica!ProcessDeploy(l, m, private, t) = ProcessDeploy(l, m, private, t)
    BY DEF ProcessDeploy, Deployed, Replica!ProcessDeploy, Replica!Deployed
  <2>2. Replica!ProcessMint(l, m, t, n) = ProcessMint(l, m, t, n)
    BY DEF ProcessMint, MintAccepted, WithinLimit, Deployed, Credit, Record, Replica!ProcessMint,
       Replica!MintAccepted, Replica!WithinLimit, Replica!Deployed, Replica!Credit, Replica!Record
  <2>3. Replica!ProcessTransfer(l, m, private, t, n) = ProcessTransfer(l, m, private, t, n)
    BY DEF ProcessTransfer, TransferAccepted, Authorized, Move, Credit, Debit, Record,
       Replica!ProcessTransfer, Replica!TransferAccepted, Replica!Authorized, Replica!Move,
       Replica!Credit, Replica!Debit, Replica!Record
  <2>4. Replica!ProcessBurn(l, m, private, t, n) = ProcessBurn(l, m, private, t, n)
    BY DEF ProcessBurn, BurnAccepted, Authorized, Deployed, Debit, Record, Replica!ProcessBurn,
       Replica!BurnAccepted, Replica!Authorized, Replica!Deployed, Replica!Debit, Replica!Record
  <2> QED BY <2>1, <2>2, <2>3, <2>4 DEF ProcessMessage, Replica!ProcessMessage
<1> QED BY <1>1, <1>2

(***************************************************************************)
(* Handling a message is the replica's Apply: the message is the next one  *)
(* of its topic that parses, and the call's isPrivate is a ruling.         *)
(***************************************************************************)
LEMMA ApplyIsReplicaApply ==
  ASSUME IndexerInv, RulingsInv, NEW w \in Workers, Solo(w), ApplyMessage(w)
  PROVE  Replica!Next
<1>a. PICK t \in Topics, n \in Nat : t = task[w].topic /\ n = next[w]
  BY DEF IndexerInv, TypeOK, Registration
<1>0. /\ maxSeq \in [Workers -> Nat] /\ cursor \in [Topics -> Nat] /\ upto[w] \in Nat
      /\ topicLog[t] \in Seq(Entry)
  BY <1>a DEF IndexerInv, TypeOK
<1>1. /\ UNCHANGED <<topicLog, registryLog, cursor, pc, task>>
      /\ maxSeq' = [maxSeq EXCEPT ![w] = n]
      /\ pc[w] = "apply" /\ n <= upto[w] /\ Parseable(t, n)
      /\ ledger' = ProcessMessage(ledger, topicLog[t][n], task[w].private, t, n)
      /\ \A v \in Workers \ {w} : pc[v] # "apply" /\ pc'[v] # "apply"
  BY <1>a DEF ApplyMessage, Solo, mirror
<1>2. maxSeq[w] < n /\ upto[w] <= Len(topicLog[t])
  BY <1>a, <1>1 DEF IndexerInv, InFlight
<1>3. \A u \in Topics : /\ Done(u) = IF u = t THEN maxSeq[w] ELSE cursor[u]
                       /\ Done(u)' = IF u = t THEN n ELSE cursor[u]
  BY <1>a, <1>0, <1>1, DoneIs
<1> DEFINE done == [u \in Topics |-> Done(u)]
<1>4. done' = [done EXCEPT ![t] = n]
  BY <1>3
<1>5. done[t] = maxSeq[w]
  BY <1>3
<1>6. Replica!IsNext(t, n)
  <2>1. n \in (maxSeq[w] + 1)..Len(topicLog[t]) /\ topicLog[t][n] # Garbage
    BY <1>0, <1>1, <1>2 DEF Parseable
  <2>2. \A k \in (maxSeq[w] + 1)..(n - 1) : topicLog[t][k] = Garbage
    BY <1>a, <1>1 DEF RulingsInv, BatchTight, Parseable
  <2> QED BY <1>5, <2>1, <2>2 DEF Replica!IsNext
<1>7. task[w].private \in Replica!Ruling(t)
  BY <1>a, <1>1 DEF RulingsInv, TaskRuled
<1>8. n \in DOMAIN topicLog[t]
  BY <1>0, <1>1, <1>2
<1>9. ledger' = Replica!ProcessMessage(ledger, topicLog[t][n], task[w].private, t, n)
  BY <1>1, SameHandlers
<1>10. Replica!Apply(t)
  BY <1>1, <1>4, <1>6, <1>7, <1>8, <1>9 DEF Replica!Apply
<1> QED BY <1>10 DEF Replica!Next

LEMMA EnvironmentIsReplicas ==
  ASSUME Register \/ \E t \in Topics : Publish(t)
  PROVE  Replica!Next
<1>1. UNCHANGED <<ledger, cursor, pc, task, maxSeq>>
  BY DEF Register, Publish, batch
<1>2. [t \in Topics |-> Done(t)]' = [t \in Topics |-> Done(t)]
  BY <1>1 DEF Done
<1>3. CASE Register
  BY <1>2, <1>3 DEF Register, Replica!Register, Replica!Next
<1>4. ASSUME NEW t \in Topics, Publish(t) PROVE Replica!Next
  BY <1>2, <1>4 DEF Publish, Replica!Publish, Replica!Next
<1> QED BY <1>3, <1>4

LEMMA StepIsReplicas ==
  ASSUME IndexerInv, OnceInv, RulingsInv, NEW w \in Workers, Solo(w), WorkerStep(w)
  PROVE  [Replica!Next]_Replica!vars
BY RoutingStutters, FetchStutters, CommitStutters, ApplyIsReplicaApply DEF WorkerStep, LocalStep

LEMMA StartIsReplicas == Init => Replica!Init
<1> SUFFICES ASSUME Init PROVE Replica!Init
  OBVIOUS
<1>1. \A t \in Topics : Done(t) = 0
  BY DEF Init, Done
<1>2. [t \in Topics |-> Done(t)] = [t \in Topics |-> 0]
  BY <1>1
<1> QED BY <1>2, SameHandlers DEF Init, Replica!Init

LEMMA StutterIsReplicas ==
  ASSUME UNCHANGED vars
  PROVE  UNCHANGED Replica!vars
<1>1. UNCHANGED <<topicLog, registryLog, ledger, cursor, pc, task, maxSeq>>
  BY DEF vars
<1>2. [t \in Topics |-> Done(t)]' = [t \in Topics |-> Done(t)]
  BY <1>1 DEF Done
<1> QED BY <1>1, <1>2 DEF Replica!vars

(***************************************************************************)
(* One goroutine calling IndexOnce implements the replica: the ledger      *)
(* replays the messages of every topic in sequence number order, each      *)
(* once, and each under a ruling on its topic.                             *)
(***************************************************************************)
THEOREM OneWorkerImplementsReplica ==
  ASSUME \A v, w \in Workers : v = w
  PROVE  Spec => ImplementsReplica
<1>1. Init => Replica!Init
  BY StartIsReplicas
<1>2. IndexerInv /\ OnceInv /\ RulingsInv /\ [Next]_vars => [Replica!Next]_Replica!vars
  <2> SUFFICES ASSUME IndexerInv, OnceInv, RulingsInv, [Next]_vars
               PROVE  [Replica!Next]_Replica!vars
    OBVIOUS
  <2>1. ASSUME NEW w \in Workers, WorkerStep(w) PROVE [Replica!Next]_Replica!vars
    BY <2>1, StepIsReplicas DEF Solo
  <2>2. CASE UNCHANGED vars
    BY <2>2, StutterIsReplicas
  <2> QED BY <2>1, <2>2, EnvironmentIsReplicas DEF Next
<1>3. Spec => []OnceInv
  BY OneWorkerOnceInv
<1> QED BY <1>1, <1>2, <1>3, IndexerInvariant, TopicsRuled, PTL
        DEF Spec, ImplementsReplica, Replica!Spec

=============================================================================
