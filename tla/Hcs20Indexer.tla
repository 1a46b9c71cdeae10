---------------------------- MODULE Hcs20Indexer ----------------------------
(***************************************************************************)
(* PointsIndexer.IndexOnce of pkg/hcs20/indexer.go, run by one or several  *)
(* goroutines over one indexer.                                            *)
(*                                                                         *)
(* The indexer's mutex is held for reading a cursor, for handling one      *)
(* message and for writing a cursor, and for nothing longer: between those *)
(* steps, and across every mirror query, the other goroutines run.  Each   *)
(* of those critical sections is one action.  The variables of one         *)
(* IndexOnce call live in functions over Workers and are reset when they   *)
(* go out of scope.                                                        *)
(*                                                                         *)
(* The mirror node is outside the indexer: topics only grow, a query       *)
(* returns every message after the cursor or an error (the client follows  *)
(* the page links to the end, and gives up on the first failing page).     *)
(*                                                                         *)
(* A definition named after a slip (SkippedWithoutSeen) is a wrong variant *)
(* of the definition below it, for mutation runs.                          *)
(***************************************************************************)
EXTENDS Hcs20Ledger

CONSTANTS
  Workers,        \* goroutines that call IndexOnce
  PublicTopic,    \* PublicTopicID
  Options,        \* the IndexOptions each worker passes
  Garbage,        \* a message that does not decode, parse or validate
  Messages,       \* what may be published on a points topic
  Registrations,  \* what may be published on the registry topic
  MaxLog,         \* bound on the messages of one topic
  MaxRegistry     \* bound on the messages of the registry topic

Registration == [topic: Topics, private: BOOLEAN]

IndexOptions == [public: BOOLEAN, registry: BOOLEAN, private: Seq(Topics)]

ASSUME MessagesAssumption      == Messages \subseteq Message
ASSUME RegistrationsAssumption == Registrations \subseteq Registration
ASSUME PublicTopicAssumption   == PublicTopic \in Topics
ASSUME OptionsAssumption       == Options \in [Workers -> IndexOptions]
ASSUME GarbageAssumption       == Garbage \notin Message /\ Garbage \notin Registration

VARIABLES
  topicLog,     \* the messages of each topic, in sequence number order
  registryLog,  \* the messages of the registry topic
  ledger,       \* indexer.state
  cursor,       \* indexer.lastIndexedSequence
  applied,      \* history: the <<topic, sequence number>> pairs processed
  pc,           \* where each IndexOnce call is
  queue,        \* the registeredTopics a call has still to look at
  seen,         \* seenTopics
  task,         \* the topic being indexed and its isPrivate
  last,         \* lastSequence of indexTopic
  next, upto,   \* the next and the last message of the fetched batch
  maxSeq        \* maxSequence

mirror == <<topicLog, registryLog>>
batch  == <<last, next, upto, maxSeq>>
vars   == <<topicLog, registryLog, ledger, cursor, applied,
            pc, queue, seen, task, last, next, upto, maxSeq>>

-----------------------------------------------------------------------------
(***************************************************************************)
(* With no option set, IndexOnce reads the public and the registry topic.  *)
(***************************************************************************)
DefaultOptions(o)  == ~o.public /\ ~o.registry /\ o.private = << >>
IncludePublic(w)   == Options[w].public \/ DefaultOptions(Options[w])
IncludeRegistry(w) == Options[w].registry \/ DefaultOptions(Options[w])

Task(t, private) == [topic |-> t, private |-> private]

PrivateTopics(w) ==
  [i \in 1..Len(Options[w].private) |-> Task(Options[w].private[i], TRUE)]

Parseable(t, n) == topicLog[t][n] # Garbage

Init ==
  /\ topicLog = [t \in Topics |-> << >>]
  /\ registryLog = << >>
  /\ ledger = EmptyLedger
  /\ cursor = [t \in Topics |-> 0]
  /\ applied = {}
  /\ pc = [w \in Workers |-> "idle"]
  /\ queue = [w \in Workers |-> << >>]
  /\ seen = [w \in Workers |-> {}]
  /\ task = [w \in Workers |-> Task(PublicTopic, FALSE)]
  /\ last = [w \in Workers |-> 0]
  /\ next = [w \in Workers |-> 0]
  /\ upto = [w \in Workers |-> 0]
  /\ maxSeq = [w \in Workers |-> 0]

-----------------------------------------------------------------------------
(***************************************************************************)
(* The mirror node: messages reach consensus.                              *)
(***************************************************************************)
Publish(t) ==
  /\ Len(topicLog[t]) < MaxLog
  /\ \E m \in Messages \cup {Garbage} :
        topicLog' = [topicLog EXCEPT ![t] = Append(@, m)]
  /\ UNCHANGED <<registryLog, ledger, cursor, applied, pc, queue, seen, task, batch>>

Register ==
  /\ Len(registryLog) < MaxRegistry
  /\ \E r \in Registrations \cup {Garbage} : registryLog' = Append(registryLog, r)
  /\ UNCHANGED <<topicLog, ledger, cursor, applied, pc, queue, seen, task, batch>>

(***************************************************************************)
(* IndexOnce, lines 123-156: the public topic comes first, when included.  *)
(***************************************************************************)
BeginCycle(w) ==
  /\ pc[w] = "idle"
  /\ pc' = [pc EXCEPT ![w] = IF IncludePublic(w) THEN "cursor" ELSE "registry"]
  /\ task' = [task EXCEPT ![w] = Task(PublicTopic, FALSE)]
  /\ UNCHANGED <<mirror, ledger, cursor, applied, queue, seen, batch>>

(***************************************************************************)
(* Lines 158-177: the registered topics, when included, and after them the *)
(* caller's private topics, as private.                                    *)
(***************************************************************************)
ListTopics(w) ==
  /\ pc[w] = "registry"
  /\ queue' = [queue EXCEPT ![w] =
                 (IF IncludeRegistry(w) THEN registryLog ELSE << >>) \o PrivateTopics(w)]
  /\ pc' = [pc EXCEPT ![w] = "topics"]
  /\ UNCHANGED <<mirror, ledger, cursor, applied, seen, task, batch>>

(***************************************************************************)
(* Lines 179-189, one iteration.  A registry entry that is not a register  *)
(* message was left out by fetchRegisteredTopics; the public topic and a   *)
(* topic already seen in this call are skipped, so the first entry of a    *)
(* topic decides whether it is private.                                    *)
(***************************************************************************)
SkippedWithoutSeen(w, e) == e # Garbage => e.topic = PublicTopic
Skipped(w, e) == e # Garbage => e.topic \in {PublicTopic} \cup seen[w]

SkipTopic(w) ==
  /\ pc[w] = "topics"
  /\ queue[w] # << >>
  /\ Skipped(w, Head(queue[w]))
  /\ queue' = [queue EXCEPT ![w] = Tail(@)]
  /\ UNCHANGED <<mirror, ledger, cursor, applied, pc, seen, task, batch>>

TakeTopic(w) ==
  /\ pc[w] = "topics"
  /\ queue[w] # << >>
  /\ ~Skipped(w, Head(queue[w]))
  /\ task' = [task EXCEPT ![w] = Task(Head(queue[w]).topic, Head(queue[w]).private)]
  /\ seen' = [seen EXCEPT ![w] = @ \cup {Head(queue[w]).topic}]
  /\ queue' = [queue EXCEPT ![w] = Tail(@)]
  /\ pc' = [pc EXCEPT ![w] = "cursor"]
  /\ UNCHANGED <<mirror, ledger, cursor, applied, batch>>

EndCycle(w) ==
  /\ pc[w] = "topics"
  /\ queue[w] = << >>
  /\ pc' = [pc EXCEPT ![w] = "idle"]
  /\ seen' = [seen EXCEPT ![w] = {}]
  /\ UNCHANGED <<mirror, ledger, cursor, applied, queue, task, batch>>

-----------------------------------------------------------------------------
(***************************************************************************)
(* indexTopic: the cursor is read under the read lock ...                  *)
(***************************************************************************)
ReadCursor(w) ==
  /\ pc[w] = "cursor"
  /\ last' = [last EXCEPT ![w] = cursor[task[w].topic]]
  /\ pc' = [pc EXCEPT ![w] = "fetch"]
  /\ UNCHANGED <<mirror, ledger, cursor, applied, queue, seen, task, next, upto, maxSeq>>

(***************************************************************************)
(* ... the messages after it are fetched without the lock, or an error     *)
(* ends the whole IndexOnce call, topics not yet visited included ...      *)
(***************************************************************************)
AfterNext(c) == c + 2
FirstAfter(c) == c + 1

Fetch(w) ==
  /\ pc[w] = "fetch"
  /\ next' = [next EXCEPT ![w] = FirstAfter(last[w])]
  /\ upto' = [upto EXCEPT ![w] = Len(topicLog[task[w].topic])]
  /\ maxSeq' = [maxSeq EXCEPT ![w] = last[w]]
  /\ pc' = [pc EXCEPT ![w] = "apply"]
  /\ UNCHANGED <<mirror, ledger, cursor, applied, queue, seen, task, last>>

QueryFails(w) ==
  /\ \/ pc[w] = "fetch"
     \/ pc[w] = "registry" /\ IncludeRegistry(w)
  /\ pc' = [pc EXCEPT ![w] = "idle"]
  /\ queue' = [queue EXCEPT ![w] = << >>]
  /\ seen' = [seen EXCEPT ![w] = {}]
  /\ last' = [last EXCEPT ![w] = 0]
  /\ UNCHANGED <<mirror, ledger, cursor, applied, task, next, upto, maxSeq>>

(***************************************************************************)
(* ... each message is handled under the lock; one that does not parse is  *)
(* skipped and does not raise maxSequence ...                              *)
(***************************************************************************)
ApplyMessage(w) ==
  LET t == task[w].topic
      n == next[w]
  IN  /\ pc[w] = "apply"
      /\ n <= upto[w]
      /\ Parseable(t, n)
      /\ ledger' = ProcessMessage(ledger, topicLog[t][n], task[w].private, t, n)
      /\ applied' = applied \cup {<<t, n>>}
      /\ maxSeq' = [maxSeq EXCEPT ![w] = n]
      /\ next' = [next EXCEPT ![w] = n + 1]
      /\ UNCHANGED <<mirror, cursor, pc, queue, seen, task, last, upto>>

SkipMessage(w) ==
  /\ pc[w] = "apply"
  /\ next[w] <= upto[w]
  /\ ~Parseable(task[w].topic, next[w])
  /\ next' = [next EXCEPT ![w] = @ + 1]
  /\ UNCHANGED <<mirror, ledger, cursor, applied, pc, queue, seen, task, last, upto, maxSeq>>

(***************************************************************************)
(* ... and the cursor is overwritten when this call got past the value it  *)
(* read, whatever the cursor holds by now.                                 *)
(***************************************************************************)
NewCursor(w) == IF maxSeq[w] > last[w] THEN maxSeq[w] ELSE cursor[task[w].topic]

CommitCursor(w) ==
  /\ pc[w] = "apply"
  /\ next[w] > upto[w]
  /\ cursor' = [cursor EXCEPT ![task[w].topic] = NewCursor(w)]
  /\ pc' = [pc EXCEPT ![w] = IF task[w].topic = PublicTopic THEN "registry" ELSE "topics"]
  /\ last' = [last EXCEPT ![w] = 0]
  /\ next' = [next EXCEPT ![w] = 0]
  /\ upto' = [upto EXCEPT ![w] = 0]
  /\ maxSeq' = [maxSeq EXCEPT ![w] = 0]
  /\ UNCHANGED <<mirror, ledger, applied, queue, seen, task>>

-----------------------------------------------------------------------------
(***************************************************************************)
(* A step of w that waits for nothing outside the process.                 *)
(***************************************************************************)
LocalStep(w) ==
  \/ BeginCycle(w)
  \/ SkipTopic(w)
  \/ TakeTopic(w)
  \/ EndCycle(w)
  \/ ReadCursor(w)
  \/ ApplyMessage(w)
  \/ SkipMessage(w)
  \/ CommitCursor(w)

WorkerStep(w) ==
  \/ LocalStep(w)
  \/ ListTopics(w)
  \/ Fetch(w)
  \/ QueryFails(w)

Next ==
  \/ \E t \in Topics : Publish(t)
  \/ Register
  \/ \E w \in Workers : WorkerStep(w)

Spec == Init /\ [][Next]_vars

(***************************************************************************)
(* The scheduler runs every goroutine, the polling loop keeps calling      *)
(* IndexOnce, and a query repeated forever succeeds now and then for every *)
(* topic.                                                                  *)
(***************************************************************************)
Fairness ==
  \A w \in Workers :
    /\ WF_vars(LocalStep(w))
    /\ SF_vars(ListTopics(w))
    /\ \A t \in Topics : SF_vars(Fetch(w) /\ task[w].topic = t)

FairSpec == Spec /\ Fairness

-----------------------------------------------------------------------------
(* The type invariant.                                                     *)
Entry == Messages \cup {Garbage}

PCs == {"idle", "cursor", "fetch", "apply", "registry", "topics"}

TypeOK ==
  /\ topicLog \in [Topics -> Seq(Entry)]
  /\ registryLog \in Seq(Registrations \cup {Garbage})
  /\ ledger \in Ledger
  /\ cursor \in [Topics -> Nat]
  /\ applied \subseteq Topics \X Nat
  /\ pc \in [Workers -> PCs]
  /\ queue \in [Workers -> Seq(Registration \cup {Garbage})]
  /\ seen \in [Workers -> SUBSET Topics]
  /\ task \in [Workers -> Registration]
  /\ last \in [Workers -> Nat]
  /\ next \in [Workers -> Nat]
  /\ upto \in [Workers -> Nat]
  /\ maxSeq \in [Workers -> Nat]

(* Points are conserved however the calls interleave, messages applied     *)
(* twice included: for every tick the balances add up to CurrentSupply.    *)
Conservation == Conserves(ledger)

(* CurrentSupply never passes the deployed maximum, under the same         *)
(* interleavings.                                                          *)
SupplyBound == WithinMax(ledger)

(* No message is lost behind a cursor: every message up to a topic's       *)
(* cursor that parses has been handed to its handler, even while several   *)
(* calls read, fetch and overwrite that cursor.                            *)
Covered(t, k) ==
  \A n \in 1..k :
    n \in DOMAIN topicLog[t] /\ (Parseable(t, n) => <<t, n>> \in applied)

NothingSkipped == \A t \in Topics : Covered(t, cursor[t])

(* The inductive strengthening of the invariants above: the ledger is      *)
(* sound, and a call's own snapshot of the cursor and the part of its      *)
(* batch that is behind it are covered as well, however stale they are.    *)
InFlight(w) ==
  /\ pc[w] = "fetch" => Covered(task[w].topic, last[w])
  /\ pc[w] = "apply" => /\ maxSeq[w] < next[w]
                        /\ Covered(task[w].topic, next[w] - 1)
                        /\ upto[w] <= Len(topicLog[task[w].topic])

IndexerInv ==
  /\ TypeOK
  /\ LedgerInv(ledger)
  /\ NothingSkipped
  /\ \A w \in Workers : InFlight(w)

(* Each message takes effect once, and those of one topic in sequence      *)
(* number order.  Several workers break it; one does not.                  *)
ExactlyOnceInOrder ==
  \A i, j \in DOMAIN ledger.transactions :
    (i < j /\ ledger.transactions[i].topic = ledger.transactions[j].topic)
      => ledger.transactions[i].seq < ledger.transactions[j].seq

(* Its inductive strengthening, for workers that take turns: what was      *)
(* recorded of a topic is not newer than its cursor, except for the one    *)
(* call that is applying a batch of it, which has the cursor's value still *)
(* in hand.                                                                *)
Frontier(t, k) ==
  \A i \in DOMAIN ledger.transactions :
    ledger.transactions[i].topic = t => ledger.transactions[i].seq <= k

Fresh(w) ==
  /\ pc[w] \in {"fetch", "apply"} => last[w] = cursor[task[w].topic]
  /\ pc[w] = "apply" => /\ last[w] <= maxSeq[w]
                        /\ Frontier(task[w].topic, maxSeq[w])

OnceInv ==
  /\ ExactlyOnceInOrder
  /\ \A w \in Workers : Fresh(w)
  /\ \A t \in Topics :
       \/ Frontier(t, cursor[t])
       \/ \E w \in Workers : pc[w] = "apply" /\ task[w].topic = t

(***************************************************************************)
(* One worker implements the replica: a topic has been replayed up to the  *)
(* message the call that indexes it applied last, or up to the cursor.     *)
(***************************************************************************)
Done(t) ==
  IF \E w \in Workers : pc[w] = "apply" /\ task[w].topic = t
  THEN maxSeq[CHOOSE w \in Workers : pc[w] = "apply" /\ task[w].topic = t]
  ELSE cursor[t]

Replica == INSTANCE PointsReplica WITH
  done         <- [t \in Topics |-> Done(t)],
  CallerTopics <- UNION {{Options[w].private[i] : i \in DOMAIN Options[w].private} :
                           w \in Workers}

(* Hcs20Indexer with one worker implements PointsReplica.                  *)
ImplementsReplica == Replica!Spec

(* What a call carries from query to query, for that proof.  A topic is    *)
(* indexed under one of its rulings, since what is still in the queue is   *)
(* ruled or will be skipped for an earlier entry of its topic; and between *)
(* maxSequence and the message looked at next nothing parses.              *)
Ruled(w, list) ==
  \A i \in DOMAIN list :
    \/ Skipped(w, list[i])
    \/ list[i].private \in Replica!Ruling(list[i].topic)
    \/ \E j \in 1..(i - 1) : list[j] # Garbage /\ list[j].topic = list[i].topic

TaskRuled(w) ==
  pc[w] \in {"cursor", "fetch", "apply"} => task[w].private \in Replica!Ruling(task[w].topic)

BatchTight(w) ==
  pc[w] = "apply" =>
    \A k \in (maxSeq[w] + 1)..(next[w] - 1) : ~Parseable(task[w].topic, k)

RulingsInv == \A w \in Workers : Ruled(w, queue[w]) /\ TaskRuled(w) /\ BatchTight(w)

(***************************************************************************)
(* A topic is followed when some worker indexes it in every cycle.         *)
(***************************************************************************)
Listed(w, t) ==
  \/ \E i \in DOMAIN Options[w].private : Options[w].private[i] = t
  \/ IncludeRegistry(w) /\ \E i \in DOMAIN registryLog :
        registryLog[i] # Garbage /\ registryLog[i].topic = t

Followed(t) ==
  \E w \in Workers : IF t = PublicTopic THEN IncludePublic(w) ELSE Listed(w, t)

(* Every message that parses, on a topic that is followed, is eventually   *)
(* applied, however often queries fail.                                    *)
EveryMessageIndexed ==
  \A t \in Topics : \A n \in 1..MaxLog :
    (Followed(t) /\ n \in DOMAIN topicLog[t] /\ Parseable(t, n)) ~> (<<t, n>> \in applied)

=============================================================================
