---------------------- MODULE Hcs20PolledIndexer_proofs ----------------------
(***************************************************************************)
(* The safety of StartPolling and StopPolling, for any number of callers   *)
(* and of loops; and the composition of polling and indexing, which        *)
(* implements both components and, with one caller, applies each message   *)
(* once.                                                                   *)
(***************************************************************************)
EXTENDS Hcs20PolledIndexer, Hcs20Indexer_proofs

LEMMA PollingInitInv == PollingInit => PollingInv
<1> SUFFICES ASSUME PollingInit PROVE PollingInv
  OBVIOUS
<1>1. PollingTypeOK
  BY MaxLoopsAssumption DEF PollingInit, PollingTypeOK, Loops
<1>2. ClosedOnce /\ NoOrphanLoop
  BY DEF PollingInit, ClosedOnce, NoOrphanLoop, Running
<1> QED BY <1>1, <1>2 DEF PollingInit, PollingInv

LEMMA Bounds ==
  ASSUME PollingInv
  PROVE  /\ MaxLoops \in Nat /\ started \in Nat /\ started <= MaxLoops
         /\ \A i \in Loops : i \in Nat /\ 1 <= i /\ i <= MaxLoops
         /\ \A i \in Nat : (1 <= i /\ i <= MaxLoops) => i \in Loops
         /\ \A i \in stopClosed : i \in Nat /\ 1 <= i /\ i <= started
         /\ current \in Nat /\ current <= started
         /\ \A c \in Callers : target[c] \in Nat /\ target[c] <= started
<1>1. MaxLoops \in Nat
  BY MaxLoopsAssumption
<1>2. started \in 0..MaxLoops
  BY DEF PollingInv, PollingTypeOK
<1>3. stopClosed \subseteq 1..started /\ current \in 0..started
  BY DEF PollingInv
<1>4. \A c \in Callers : target[c] \in 0..started
  BY DEF PollingInv
<1> QED BY <1>1, <1>2, <1>3, <1>4 DEF Loops

(***************************************************************************)
(* A new loop has a number no caller and no closed channel refers to.      *)
(***************************************************************************)
LEMMA StartPollingInv ==
  ASSUME PollingInv, NEW c \in Callers, StartPolling(c)
  PROVE  PollingInv'
<1>1. /\ started' = started + 1
      /\ current' = started + 1
      /\ loop' = [loop EXCEPT ![started + 1] = "indexing"]
      /\ answer' = [answer EXCEPT ![c] = "started"]
      /\ UNCHANGED <<cancelled, stopClosed, ticked, caller, target>>
      /\ current = 0 /\ started < MaxLoops
  BY DEF StartPolling, StartAllowed
<1>2. PollingTypeOK /\ ClosedOnce /\ NoOrphanLoop
  BY DEF PollingInv
<1>3. /\ started + 1 \in Loops /\ started + 1 \in 0..MaxLoops
      /\ started + 1 \notin stopClosed
  BY <1>1, Bounds
<1>4. PollingTypeOK'
  BY <1>1, <1>2, <1>3 DEF PollingTypeOK
<1>5. ClosedOnce'
  BY <1>1, <1>2 DEF ClosedOnce
<1>6. NoOrphanLoop'
  <2> SUFFICES ASSUME NEW i \in Loops, Running(i)', i # started + 1
               PROVE  \/ i \in stopClosed
                      \/ \E d \in Callers : caller[d] = "close" /\ target[d] = i
    BY <1>1 DEF NoOrphanLoop
  <2>1. Running(i)
    BY <1>1, <1>2 DEF Running, PollingTypeOK
  <2>2. i # current
    BY <1>1, Bounds
  <2> QED BY <1>2, <2>1, <2>2 DEF NoOrphanLoop
<1>7. stopClosed' \subseteq 1..started' /\ current' \in 0..started' /\ current' \notin stopClosed'
  BY <1>1, <1>3, Bounds
<1>8. \A i \in Loops : i > started' => loop'[i] = "none"
  <2> SUFFICES ASSUME NEW i \in Loops, i > started + 1 PROVE loop'[i] = "none"
    BY <1>1
  <2>1. i > started /\ i # started + 1
    BY Bounds
  <2>2. loop[i] = "none"
    BY <2>1 DEF PollingInv
  <2>3. loop'[i] = loop[i]
    BY <1>1, <1>2, <2>1 DEF PollingTypeOK
  <2> QED BY <2>2, <2>3
<1>9. \A d \in Callers : target'[d] \in 0..started' /\ target'[d] # current'
  BY <1>1, Bounds
<1> QED BY <1>4, <1>5, <1>6, <1>7, <1>8, <1>9 DEF PollingInv

(***************************************************************************)
(* Taking the channels out of the fields gives them to one caller only.    *)
(***************************************************************************)
LEMMA StopPollingInv ==
  ASSUME PollingInv, NEW c \in Callers, StopPolling(c)
  PROVE  PollingInv'
<1>1. /\ current' = 0
      /\ target' = [target EXCEPT ![c] = current]
      /\ caller' = [caller EXCEPT ![c] = IF current = 0 THEN "idle" ELSE "close"]
      /\ UNCHANGED <<started, loop, cancelled, stopClosed, ticked, answer>>
      /\ caller[c] = "idle"
  BY DEF StopPolling, CurrentAfterStop
<1>2. /\ PollingTypeOK /\ ClosedOnce /\ NoOrphanLoop
      /\ current \notin stopClosed
      /\ \A d \in Callers : caller[d] = "close" => target[d] # current
  BY DEF PollingInv
<1>3. /\ caller \in [Callers -> {"idle", "close", "wait"}]
      /\ target \in [Callers -> 0..MaxLoops]
  BY <1>2 DEF PollingTypeOK
<1>4. 0 \in 0..MaxLoops /\ 0 \in 0..started /\ 0 \notin stopClosed /\ 0 \notin Loops
  BY Bounds
<1>5. current \in 0..MaxLoops /\ current \in 0..started /\ (current # 0 => current \in Loops)
  BY Bounds
<1>6. PollingTypeOK'
  BY <1>1, <1>2, <1>4, <1>5 DEF PollingTypeOK
<1>7. ClosedOnce'
  <2>1. ASSUME NEW d \in Callers, caller'[d] = "close"
        PROVE  \/ d = c /\ target'[d] = current /\ current # 0
               \/ d # c /\ target'[d] = target[d] /\ caller[d] = "close"
    <3>1. CASE d = c
      <4>1. caller'[c] = IF current = 0 THEN "idle" ELSE "close"
        BY <1>1, <1>3
      <4>2. target'[c] = current
        BY <1>1, <1>3
      <4> QED BY <2>1, <3>1, <4>1, <4>2
    <3>2. CASE d # c
      BY <1>1, <1>3, <2>1, <3>2
    <3> QED BY <3>1, <3>2
  <2> QED BY <1>1, <1>2, <1>5, <2>1 DEF ClosedOnce
<1>8. NoOrphanLoop'
  <2> SUFFICES ASSUME NEW i \in Loops, Running(i)
               PROVE  \/ i \in stopClosed
                      \/ \E d \in Callers : caller'[d] = "close" /\ target'[d] = i
    BY <1>1 DEF NoOrphanLoop, Running
  <2>1. CASE current = i
    BY <1>1, <1>3, <1>4, <2>1
  <2>2. ASSUME NEW d \in Callers, caller[d] = "close", target[d] = i
        PROVE  caller'[d] = "close" /\ target'[d] = i
    BY <1>1, <1>3, <2>2
  <2> QED BY <1>2, <2>1, <2>2 DEF NoOrphanLoop
<1>9. \A d \in Callers : /\ target'[d] \in 0..started'
                         /\ caller'[d] = "close" => target'[d] # current'
  <2>1. \A d \in Callers : caller[d] = "close" => target[d] # 0
    BY <1>2, <1>4 DEF ClosedOnce
  <2>2. \A d \in Callers : target'[d] \in 0..started
    BY <1>1, <1>3, <1>5 DEF PollingInv
  <2> QED BY <1>1, <1>3, <2>1, <2>2
<1> QED BY <1>1, <1>2, <1>4, <1>6, <1>7, <1>8, <1>9 DEF PollingInv

LEMMA CloseStopChannelInv ==
  ASSUME PollingInv, NEW c \in Callers, CloseStopChannel(c)
  PROVE  PollingInv'
<1>1. /\ stopClosed' = stopClosed \cup {target[c]}
      /\ caller' = [caller EXCEPT ![c] = "wait"]
      /\ UNCHANGED <<started, current, loop, cancelled, ticked, target, answer>>
      /\ caller[c] = "close"
  BY DEF CloseStopChannel, ChannelToClose
<1>2. PollingTypeOK /\ ClosedOnce /\ NoOrphanLoop
  BY DEF PollingInv
<1>3. caller \in [Callers -> {"idle", "close", "wait"}]
  BY <1>2 DEF PollingTypeOK
<1>4. target[c] \in Loops \ stopClosed /\ target[c] # current
  BY <1>1, <1>2 DEF PollingInv, ClosedOnce
<1>5. \A d \in Callers : caller'[d] = "close" => d # c /\ caller[d] = "close"
  BY <1>1, <1>3
<1>6. PollingTypeOK'
  BY <1>1, <1>2, <1>4 DEF PollingTypeOK
<1>7. ClosedOnce'
  BY <1>1, <1>2, <1>5 DEF ClosedOnce
<1>8. NoOrphanLoop'
  <2>1. \A d \in Callers : caller[d] = "close" =>
           target[d] \in stopClosed' \/ caller'[d] = "close"
    BY <1>1, <1>3
  <2> QED BY <1>1, <1>2, <2>1 DEF NoOrphanLoop, Running
<1>9. stopClosed' \subseteq 1..started' /\ current' \notin stopClosed'
  <2>1. target[c] \in 1..started
    BY <1>4, Bounds
  <2> QED BY <1>1, <1>4, <2>1 DEF PollingInv
<1>10. \A d \in Callers : caller'[d] = "close" => target'[d] # current'
  BY <1>1, <1>5 DEF PollingInv
<1> QED BY <1>1, <1>6, <1>7, <1>8, <1>9, <1>10 DEF PollingInv

LEMMA StopPollingReturnsInv ==
  ASSUME PollingInv, NEW c \in Callers, StopPollingReturns(c)
  PROVE  PollingInv'
<1>1. /\ caller' = [caller EXCEPT ![c] = "idle"]
      /\ target' = [target EXCEPT ![c] = 0]
      /\ UNCHANGED <<started, current, loop, cancelled, stopClosed, ticked, answer>>
      /\ caller[c] = "wait"
  BY DEF StopPollingReturns
<1>2. PollingTypeOK /\ ClosedOnce /\ NoOrphanLoop
  BY DEF PollingInv
<1>3. /\ caller \in [Callers -> {"idle", "close", "wait"}]
      /\ target \in [Callers -> 0..MaxLoops]
  BY <1>2 DEF PollingTypeOK
<1>4. 0 \in 0..MaxLoops /\ 0 \in 0..started
  BY Bounds
<1>5. /\ \A d \in Callers : caller[d] = "close" => caller'[d] = "close" /\ target'[d] = target[d]
      /\ \A d \in Callers : caller'[d] = "close" => caller[d] = "close"
  BY <1>1, <1>3
<1>6. PollingTypeOK'
  BY <1>1, <1>2, <1>4 DEF PollingTypeOK
<1>7. ClosedOnce'
  BY <1>1, <1>2, <1>5 DEF ClosedOnce
<1>8. NoOrphanLoop'
  BY <1>1, <1>2, <1>5 DEF NoOrphanLoop, Running
<1>9. \A d \in Callers : target'[d] \in 0..started
  BY <1>1, <1>3, <1>4 DEF PollingInv
<1>10. \A d \in Callers : caller'[d] = "close" => target'[d] # current
  BY <1>5 DEF PollingInv
<1> QED BY <1>1, <1>6, <1>7, <1>8, <1>9, <1>10 DEF PollingInv

(***************************************************************************)
(* A loop touches neither the fields nor the callers, and it never starts  *)
(* to run again once it has exited.                                        *)
(***************************************************************************)
LEMMA LoopStepInv ==
  ASSUME PollingInv, NEW i \in Loops, LoopStep(i)
  PROVE  PollingInv'
<1>1. /\ UNCHANGED <<started, current, stopClosed, caller, target, answer>>
      /\ \A j \in Loops : Running(j)' => Running(j)
      /\ \A j \in Loops : loop[j] = "none" => loop'[j] = "none"
  BY DEF PollingInv, PollingTypeOK, LoopStep, CancelContext, TickerFires, IndexOnceReturns,
         LoopExits, LoopTicks, Running
<1>2. PollingTypeOK'
  <2>1. cancelled' \subseteq Loops /\ ticked' \subseteq Loops
    BY DEF PollingInv, PollingTypeOK, LoopStep, CancelContext, TickerFires,
           IndexOnceReturns, LoopExits, LoopTicks
  <2>2. loop' \in [Loops -> {"none", "indexing", "select", "exited"}]
    BY DEF PollingInv, PollingTypeOK, LoopStep, CancelContext, TickerFires,
           IndexOnceReturns, LoopExits, LoopTicks
  <2> QED BY <1>1, <2>1, <2>2 DEF PollingInv, PollingTypeOK
<1>3. ClosedOnce'
  BY <1>1 DEF PollingInv, ClosedOnce
<1>4. NoOrphanLoop'
  BY <1>1 DEF PollingInv, NoOrphanLoop
<1> QED BY <1>1, <1>2, <1>3, <1>4 DEF PollingInv

(***************************************************************************)
(* What a step does to the answers alone does not matter.                  *)
(***************************************************************************)
LEMMA AnswerStepInv ==
  ASSUME PollingInv,
         UNCHANGED <<started, current, loop, cancelled, stopClosed, ticked, caller, target>>,
         answer' \in [Callers -> {"none", "started", "already running"}]
  PROVE  PollingInv'
<1>1. PollingTypeOK'
  BY DEF PollingInv, PollingTypeOK
<1>2. ClosedOnce'
  BY DEF PollingInv, ClosedOnce
<1>3. NoOrphanLoop'
  BY DEF PollingInv, NoOrphanLoop, Running
<1> QED BY <1>1, <1>2, <1>3 DEF PollingInv

LEMMA PollingStepInv == PollingInv /\ [PollingNext]_pollingVars => PollingInv'
<1> SUFFICES ASSUME PollingInv, [PollingNext]_pollingVars PROVE PollingInv'
  OBVIOUS
<1>1. ASSUME NEW c \in Callers, CallerStep(c) PROVE PollingInv'
  <2>1. CASE StartPollingRefused(c)
    <3>1. answer' \in [Callers -> {"none", "started", "already running"}]
      BY <2>1 DEF StartPollingRefused, PollingInv, PollingTypeOK
    <3> QED BY <2>1, <3>1, AnswerStepInv DEF StartPollingRefused
  <2> QED
    BY <1>1, <2>1, StartPollingInv, StopPollingInv, CloseStopChannelInv,
       StopPollingReturnsInv DEF CallerStep
<1>2. CASE UNCHANGED pollingVars
  BY <1>2, AnswerStepInv DEF pollingVars, PollingInv, PollingTypeOK
<1> QED BY <1>1, <1>2, LoopStepInv DEF PollingNext

(***************************************************************************)
(* However the calls of StartPolling and StopPolling interleave: types     *)
(* hold, no stop channel is closed twice, and no loop is orphaned.         *)
(***************************************************************************)
THEOREM PollingInvariant == PollingSpec => []PollingInv
BY PollingInitInv, PollingStepInv, PTL DEF PollingSpec

(***************************************************************************)
(* The type invariant of the polling state.                                *)
(***************************************************************************)
THEOREM PollingTypesHold == PollingSpec => []PollingTypeOK
<1>1. PollingInv => PollingTypeOK
  BY DEF PollingInv
<1> QED BY <1>1, PollingInvariant, PTL

(***************************************************************************)
(* StopPolling never panics on a closed channel.                           *)
(***************************************************************************)
THEOREM NoDoubleClose == PollingSpec => []ClosedOnce
<1>1. PollingInv => ClosedOnce
  BY DEF PollingInv
<1> QED BY <1>1, PollingInvariant, PTL

(***************************************************************************)
(* Every running loop can be, or already has been, told to stop.           *)
(***************************************************************************)
THEOREM NoOrphans == PollingSpec => []NoOrphanLoop
<1>1. PollingInv => NoOrphanLoop
  BY DEF PollingInv
<1> QED BY <1>1, PollingInvariant, PTL

-----------------------------------------------------------------------------
LEMMA OneLoopStep ==
  ASSUME \A c, d \in Callers : c = d,
         PollingInv, OneLoopInv, [PollingNext]_pollingVars
  PROVE  OneLoopInv'
<1>1. ASSUME NEW c \in Callers, StartPolling(c) PROVE OneLoopInv'
  <2>1. caller[c] = "idle" /\ current = 0 /\ \A i \in Loops : ~Running(i)
    BY <1>1 DEF OneLoopInv, StartPolling, StartAllowed, Loops
  <2>2. \A i \in Loops : Running(i)' => i = started + 1
    BY <1>1, <2>1 DEF StartPolling, Running, PollingInv, PollingTypeOK
  <2> QED BY <1>1, <2>1, <2>2 DEF OneLoopInv, StartPolling
<1>2. ASSUME NEW c \in Callers, StartPollingRefused(c) PROVE OneLoopInv'
  BY <1>2 DEF OneLoopInv, StartPollingRefused, Running
<1>3. ASSUME NEW c \in Callers, StopPolling(c) PROVE OneLoopInv'
  <2>1. /\ current' = 0 /\ target'[c] = current
        /\ caller'[c] = IF current = 0 THEN "idle" ELSE "close"
        /\ loop' = loop
    BY <1>3 DEF StopPolling, CurrentAfterStop, PollingInv, PollingTypeOK
  <2>2. \A i \in Loops : Running(i) => current = i
    BY <1>3 DEF StopPolling, OneLoopInv
  <2> QED BY <2>1, <2>2 DEF OneLoopInv, Running, Loops
<1>4. ASSUME NEW c \in Callers, CloseStopChannel(c) PROVE OneLoopInv'
  <2>1. caller'[c] = "wait" /\ caller[c] = "close" /\ UNCHANGED <<target, current, loop>>
    BY <1>4 DEF CloseStopChannel, PollingInv, PollingTypeOK
  <2> QED BY <2>1 DEF OneLoopInv, Running
<1>5. ASSUME NEW c \in Callers, StopPollingReturns(c) PROVE OneLoopInv'
  <2>1. /\ caller'[c] = "idle" /\ caller[c] = "wait" /\ UNCHANGED <<current, loop>>
        /\ loop[target[c]] = "exited"
    BY <1>5 DEF StopPollingReturns, DoneClosed, PollingInv, PollingTypeOK
  <2>2. \A i \in Loops : ~Running(i)
    BY <2>1 DEF OneLoopInv, Running, Loops
  <2> QED BY <2>1, <2>2 DEF OneLoopInv, Running
<1>6. ASSUME NEW i \in Loops, LoopStep(i) PROVE OneLoopInv'
  <2>1. /\ UNCHANGED <<current, caller, target>>
        /\ \A j \in Loops : Running(j)' => Running(j)
    BY <1>6 DEF PollingInv, PollingTypeOK, LoopStep, CancelContext, TickerFires,
           IndexOnceReturns, LoopExits, LoopTicks, Running
  <2> QED BY <2>1 DEF OneLoopInv
<1>7. CASE UNCHANGED pollingVars
  BY <1>7 DEF pollingVars, OneLoopInv, Running
<1> QED BY <1>1, <1>2, <1>3, <1>4, <1>5, <1>6, <1>7 DEF PollingNext, CallerStep

(***************************************************************************)
(* When only one goroutine starts and stops polling, at most one loop      *)
(* runs: a second one starts after the first has closed its done channel.  *)
(***************************************************************************)
THEOREM OneCallerOneLoop ==
  ASSUME \A c, d \in Callers : c = d
  PROVE  PollingSpec => []OneLoop
<1>1. PollingInit => OneLoopInv
  BY DEF PollingInit, OneLoopInv, Running
<1>2. PollingInv /\ OneLoopInv /\ [PollingNext]_pollingVars => OneLoopInv'
  BY OneLoopStep
<1>3. OneLoopInv => OneLoop
  BY DEF OneLoopInv, OneLoop, Loops
<1> QED BY <1>1, <1>2, <1>3, PollingInvariant, PTL DEF PollingSpec

-----------------------------------------------------------------------------
(***************************************************************************)
(* A step of the composition is a step, or a stutter, of each component.   *)
(***************************************************************************)
LEMMA SystemStep ==
  ASSUME [SystemNext]_systemVars, PollingInv
  PROVE  [Next]_vars /\ [PollingNext]_pollingVars
<1>1. ASSUME NEW c \in Callers, StartLoop(c) PROVE Next /\ PollingNext
  <2>1. started + 1 \in Workers
    BY <1>1, Bounds, LoopsAssumption DEF StartLoop, StartPolling, Loops
  <2> QED BY <1>1, <2>1 DEF StartLoop, Next, WorkerStep, LocalStep, PollingNext, CallerStep
<1>2. ASSUME NEW i \in Workers, TickLoop(i) \/ FinishCycle(i) PROVE Next /\ PollingNext
  BY <1>2, LoopsAssumption
     DEF TickLoop, FinishCycle, Next, WorkerStep, LocalStep, PollingNext, LoopStep
<1>3. ASSUME NEW i \in Workers, IndexingStep(i) PROVE Next
  BY <1>3 DEF IndexingStep, Next, WorkerStep, LocalStep
<1>4. ASSUME ControlStep PROVE PollingNext
  BY <1>4, LoopsAssumption DEF ControlStep, PollingNext, CallerStep, LoopStep
<1>5. CASE UNCHANGED systemVars
  BY <1>5 DEF systemVars
<1>6. CASE ControlStep /\ UNCHANGED vars
  BY <1>4, <1>6
<1>7. CASE \E i \in Workers : IndexingStep(i) /\ UNCHANGED pollingVars
  BY <1>3, <1>7
<1>8. CASE (\E t \in Topics : Publish(t)) /\ UNCHANGED pollingVars
  BY <1>8 DEF Next
<1> QED BY <1>1, <1>2, <1>5, <1>6, <1>7, <1>8 DEF SystemNext

(***************************************************************************)
(* The polled indexer is an indexer whose workers are the loops, and it is *)
(* a polling component: what holds of either alone holds of it.            *)
(***************************************************************************)
THEOREM SystemImplementsParts == SystemSpec => Spec /\ PollingSpec
<1>1. SystemInit => Init /\ PollingInit
  BY DEF SystemInit
<1>2. PollingInv /\ [SystemNext]_systemVars => [Next]_vars /\ [PollingNext]_pollingVars
  BY SystemStep
<1>3. PollingInit => PollingInv
  BY PollingInitInv
<1>4. PollingInv /\ [PollingNext]_pollingVars => PollingInv'
  BY PollingStepInv
<1> QED BY <1>1, <1>2, <1>3, <1>4, PTL DEF SystemSpec, Spec, PollingSpec

(***************************************************************************)
(* Only a loop that is indexing is inside IndexOnce.                       *)
(***************************************************************************)
LEMMA CoupledStep ==
  ASSUME IndexerInv, PollingInv, Coupled, [SystemNext]_systemVars
  PROVE  Coupled'
<1>0. /\ pc \in [Workers -> PCs] /\ loop \in [Workers -> {"none", "indexing", "select", "exited"}]
  BY LoopsAssumption DEF IndexerInv, TypeOK, PollingInv, PollingTypeOK
<1>1. ASSUME NEW c \in Callers, StartLoop(c) PROVE Coupled'
  BY <1>0, <1>1 DEF StartLoop, StartPolling, BeginCycle, Coupled
<1>2. ASSUME NEW i \in Workers, TickLoop(i) PROVE Coupled'
  BY <1>0, <1>2 DEF TickLoop, LoopTicks, BeginCycle, Coupled
<1>3. ASSUME NEW i \in Workers, FinishCycle(i) PROVE Coupled'
  BY <1>0, <1>3 DEF FinishCycle, IndexOnceReturns, EndCycle, QueryFails, Coupled
<1>4. ASSUME NEW i \in Workers, IndexingStep(i), UNCHANGED pollingVars PROVE Coupled'
  <2>1. /\ pc[i] # "idle"
        /\ \A j \in Workers \ {i} : pc'[j] = pc[j]
        /\ loop' = loop
    BY <1>0, <1>4 DEF pollingVars, IndexingStep, ListTopics, SkipTopic, TakeTopic, ReadCursor,
       Fetch, ApplyMessage, SkipMessage, CommitCursor
  <2> QED BY <2>1 DEF Coupled
<1>5. ASSUME NEW t \in Topics, Publish(t), UNCHANGED pollingVars PROVE Coupled'
  BY <1>5 DEF Publish, pollingVars, Coupled
<1>6. CASE ControlStep /\ UNCHANGED vars
  <2>1. pc' = pc
    BY <1>6 DEF vars
  <2>2. \A j \in Workers : loop[j] = "indexing" => loop'[j] = "indexing"
    BY <1>0, <1>6, LoopsAssumption DEF ControlStep, StartPollingRefused, StopPolling, CloseStopChannel,
       StopPollingReturns, CancelContext, TickerFires, LoopExits
  <2> QED BY <2>1, <2>2 DEF Coupled
<1>7. CASE UNCHANGED systemVars
  BY <1>7 DEF systemVars, vars, pollingVars, Coupled
<1> QED BY <1>1, <1>2, <1>3, <1>4, <1>5, <1>6, <1>7 DEF SystemNext

(***************************************************************************)
(* While one loop runs, a worker in the middle of a call is alone.         *)
(***************************************************************************)
LEMMA SystemSolo ==
  ASSUME Coupled, OneLoop, NEW w \in Workers, pc[w] # "idle"
  PROVE  Solo(w)
BY LoopsAssumption DEF Coupled, OneLoop, Running, Solo

LEMMA SystemOnceStep ==
  ASSUME IndexerInv, PollingInv, OneLoop, Coupled, OnceInv, [SystemNext]_systemVars
  PROVE  OnceInv'
<1>1. [Next]_vars
  BY SystemStep
<1>2. ASSUME NEW w \in Workers, WorkerStep(w) PROVE OnceInv'
  <2>1. CASE pc[w] = "idle"
    <3>1. BeginCycle(w)
      BY <1>2, <2>1 DEF WorkerStep, LocalStep, ListTopics, SkipTopic, TakeTopic, EndCycle,
         ReadCursor, Fetch, QueryFails, ApplyMessage, SkipMessage, CommitCursor
    <3> QED BY <3>1, OnceRouting
  <2>2. CASE pc[w] # "idle"
    BY <1>2, <2>2, SystemSolo, OnceStep
  <2> QED BY <2>1, <2>2
<1>3. CASE UNCHANGED vars
  <2>1. UNCHANGED <<ledger, cursor, pc, task, last, maxSeq>>
    BY <1>3 DEF vars
  <2> QED BY <2>1, OnceStable
<1> QED BY <1>1, <1>2, <1>3, OnceEnvironment DEF Next

LEMMA OneCallerOnceInv ==
  ASSUME \A c, d \in Callers : c = d
  PROVE  SystemSpec => []Coupled /\ []OnceInv
<1>1. SystemSpec => []IndexerInv /\ []PollingInv /\ []OneLoop
  BY SystemImplementsParts, IndexerInvariant, PollingInvariant, OneCallerOneLoop, PTL
<1>2. SystemInit => Coupled /\ OnceInv
  BY OnceInit DEF SystemInit, Init, Coupled
<1>3. IndexerInv /\ PollingInv /\ Coupled /\ [SystemNext]_systemVars => Coupled'
  BY CoupledStep
<1>4. IndexerInv /\ PollingInv /\ OneLoop /\ Coupled /\ OnceInv /\ [SystemNext]_systemVars
        => OnceInv'
  BY SystemOnceStep
<1> QED BY <1>1, <1>2, <1>3, <1>4, PTL DEF SystemSpec

(***************************************************************************)
(* Polling may be stopped and started again, cancelled, and refused: as    *)
(* long as one goroutine makes those calls, no message is applied twice.   *)
(***************************************************************************)
THEOREM OneCallerExactlyOnce ==
  ASSUME \A c, d \in Callers : c = d
  PROVE  SystemSpec => []ExactlyOnceInOrder
<1>1. OnceInv => ExactlyOnceInOrder
  BY DEF OnceInv
<1> QED BY <1>1, OneCallerOnceInv, PTL

LEMMA SystemReplicaStep ==
  ASSUME IndexerInv, PollingInv, OneLoop, Coupled, OnceInv, RulingsInv, [SystemNext]_systemVars
  PROVE  [Replica!Next]_Replica!vars
<1>1. [Next]_vars
  BY SystemStep
<1>2. ASSUME NEW w \in Workers, WorkerStep(w) PROVE [Replica!Next]_Replica!vars
  <2>1. CASE pc[w] = "idle"
    <3>1. BeginCycle(w)
      BY <1>2, <2>1 DEF WorkerStep, LocalStep, ListTopics, SkipTopic, TakeTopic, EndCycle,
         ReadCursor, Fetch, QueryFails, ApplyMessage, SkipMessage, CommitCursor
    <3>2. UNCHANGED <<topicLog, registryLog, ledger, cursor, maxSeq>>
      BY <3>1 DEF BeginCycle, batch, mirror
    <3>3. pc \in [Workers -> PCs] /\ task \in [Workers -> Registration]
      BY DEF IndexerInv, TypeOK
    <3>4. /\ pc'[w] # "apply"
          /\ \A v \in Workers \ {w} : pc'[v] = pc[v] /\ task'[v] = task[v]
      BY <3>1, <3>3 DEF BeginCycle
    <3>5. \A t \in Topics, v \in Workers :
            (pc'[v] = "apply" /\ task'[v].topic = t) <=> (pc[v] = "apply" /\ task[v].topic = t)
      BY <2>1, <3>4
    <3>6. \A t \in Topics : Done(t)' = Done(t)
      BY <3>2, <3>5 DEF Done
    <3>7. [t \in Topics |-> Done(t)]' = [t \in Topics |-> Done(t)]
      BY <3>6
    <3> QED BY <3>2, <3>7 DEF Replica!vars
  <2>2. CASE pc[w] # "idle"
    BY <1>2, <2>2, SystemSolo, StepIsReplicas
  <2> QED BY <2>1, <2>2
<1>3. CASE UNCHANGED vars
  BY <1>3, StutterIsReplicas
<1> QED BY <1>1, <1>2, <1>3, EnvironmentIsReplicas DEF Next

(***************************************************************************)
(* The ledger of a polled indexer is the replica's, when one goroutine     *)
(* starts and stops the polling.                                           *)
(***************************************************************************)
THEOREM OneCallerImplementsReplica ==
  ASSUME \A c, d \in Callers : c = d
  PROVE  SystemSpec => ImplementsReplica
<1>1. SystemSpec => []IndexerInv /\ []PollingInv /\ []OneLoop /\ []RulingsInv
  BY SystemImplementsParts, IndexerInvariant, TopicsRuled, PollingInvariant, OneCallerOneLoop, PTL
<1>2. SystemSpec => []Coupled /\ []OnceInv
  BY OneCallerOnceInv
<1>3. SystemInit => Replica!Init
  BY StartIsReplicas DEF SystemInit
<1>4. IndexerInv /\ PollingInv /\ OneLoop /\ Coupled /\ OnceInv /\ RulingsInv
        /\ [SystemNext]_systemVars => [Replica!Next]_Replica!vars
  BY SystemReplicaStep
<1> QED BY <1>1, <1>2, <1>3, <1>4, PTL DEF SystemSpec, ImplementsReplica, Replica!Spec

=============================================================================
