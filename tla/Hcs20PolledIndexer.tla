------------------------- MODULE Hcs20PolledIndexer -------------------------
(***************************************************************************)
(* The indexer as a program uses it: callers start and stop polling loops, *)
(* and each loop calls IndexOnce on the one indexer they share.  The       *)
(* composition of Hcs20Polling and Hcs20Indexer: a loop enters "indexing"  *)
(* together with the first step of its IndexOnce call and leaves it        *)
(* together with the last.                                                 *)
(*                                                                         *)
(* Loop i is worker i, and the messages a loop has applied stay applied    *)
(* when it ends: ledger and cursors belong to the indexer.                 *)
(***************************************************************************)
EXTENDS Hcs20Indexer, Hcs20Polling

ASSUME LoopsAssumption == Workers = Loops

systemVars == <<vars, pollingVars>>

SystemInit == Init /\ PollingInit

(***************************************************************************)
(* StartPolling's goroutine and a tick begin an IndexOnce call.            *)
(***************************************************************************)
StartLoop(c) == StartPolling(c) /\ BeginCycle(started + 1)

TickLoop(i) == LoopTicks(i) /\ BeginCycle(i)

(***************************************************************************)
(* An IndexOnce call ends after its last topic, or with an error, which    *)
(* the loop ignores.                                                       *)
(***************************************************************************)
FinishCycle(i) == IndexOnceReturns(i) /\ (EndCycle(i) \/ QueryFails(i))

(***************************************************************************)
(* The steps of one component alone.                                       *)
(***************************************************************************)
IndexingStep(i) ==
  \/ ListTopics(i)
  \/ SkipTopic(i)
  \/ TakeTopic(i)
  \/ ReadCursor(i)
  \/ Fetch(i)
  \/ ApplyMessage(i)
  \/ SkipMessage(i)
  \/ CommitCursor(i)

ControlStep ==
  \/ \E c \in Callers :
       \/ StartPollingRefused(c)
       \/ StopPolling(c)
       \/ CloseStopChannel(c)
       \/ StopPollingReturns(c)
  \/ \E i \in Workers :
       \/ CancelContext(i)
       \/ TickerFires(i)
       \/ LoopExits(i)

SystemNext ==
  \/ \E c \in Callers : StartLoop(c)
  \/ \E i \in Workers : TickLoop(i) \/ FinishCycle(i)
  \/ \E i \in Workers : IndexingStep(i) /\ UNCHANGED pollingVars
  \/ (\E t \in Topics : Publish(t)) /\ UNCHANGED pollingVars
  \/ ControlStep /\ UNCHANGED vars

SystemSpec == SystemInit /\ [][SystemNext]_systemVars

(***************************************************************************)
(* A loop that is not in "indexing" has no IndexOnce call of its own going *)
(* on.                                                                     *)
(***************************************************************************)
Coupled == \A i \in Workers : pc[i] # "idle" => loop[i] = "indexing"

(***************************************************************************)
(* The runs check ImplementsReplica and ExactlyOnceInOrder of Hcs20Indexer *)
(* here: with one caller, polls that stop and start again replay every     *)
(* topic once and in order, because a new loop reads the cursors only      *)
(* after the old one has written them.  With two callers they do not.      *)
(***************************************************************************)
=============================================================================
