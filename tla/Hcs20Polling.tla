---------------------------- MODULE Hcs20Polling ----------------------------
(***************************************************************************)
(* StartPolling and StopPolling of pkg/hcs20/indexer.go: callers that      *)
(* start and stop a background loop, the loop's select over its context,   *)
(* its stop channel and its ticker, and the done channel StopPolling waits *)
(* for.  IndexOnce is a loop that is "indexing"; Hcs20PolledIndexer puts   *)
(* the real one in its place.                                              *)
(*                                                                         *)
(* A definition named after a slip (StartAlwaysAllowed, FieldReadAgain...) *)
(* is a wrong variant of the definition below it, for mutation runs.       *)
(***************************************************************************)
EXTENDS Integers

CONSTANTS
  Callers,   \* goroutines that call StartPolling and StopPolling
  MaxLoops   \* bound on the calls of StartPolling that start a loop

ASSUME MaxLoopsAssumption == MaxLoops \in Nat \ {0}

Loops == 1..MaxLoops

VARIABLES
  started,     \* how many loops were started
  current,     \* pollStopChannel and pollDoneChannel: the loop's number, 0 for nil
  loop,        \* where each loop is
  cancelled,   \* the loops whose context is done
  stopClosed,  \* the loops whose stop channel is closed
  ticked,      \* the loops whose ticker channel holds a tick
  caller,      \* where each caller is
  target,      \* the loop a StopPolling call took the channels of
  answer       \* what the last StartPolling of a caller returned

pollingVars == <<started, current, loop, cancelled, stopClosed, ticked,
                 caller, target, answer>>

PollingInit ==
  /\ started = 0
  /\ current = 0
  /\ loop = [i \in Loops |-> "none"]
  /\ cancelled = {}
  /\ stopClosed = {}
  /\ ticked = {}
  /\ caller = [c \in Callers |-> "idle"]
  /\ target = [c \in Callers |-> 0]
  /\ answer = [c \in Callers |-> "none"]

Running(i) == loop[i] \in {"indexing", "select"}

-----------------------------------------------------------------------------
(***************************************************************************)
(* StartPolling refuses when the channels are set.  Otherwise it sets new  *)
(* ones under the mutex and starts the goroutine, which first indexes.     *)
(***************************************************************************)
StartAlwaysAllowed == TRUE
StartAllowed == current = 0

StartPolling(c) ==
  /\ caller[c] = "idle"
  /\ StartAllowed
  /\ started < MaxLoops
  /\ started' = started + 1
  /\ current' = started + 1
  /\ loop' = [loop EXCEPT ![started + 1] = "indexing"]
  /\ answer' = [answer EXCEPT ![c] = "started"]
  /\ UNCHANGED <<cancelled, stopClosed, ticked, caller, target>>

StartPollingRefused(c) ==
  /\ caller[c] = "idle"
  /\ ~StartAllowed
  /\ answer' = [answer EXCEPT ![c] = "already running"]
  /\ UNCHANGED <<started, current, loop, cancelled, stopClosed, ticked, caller, target>>

(***************************************************************************)
(* StopPolling takes both channels under the mutex, which leaves nil for   *)
(* the next caller ...                                                     *)
(***************************************************************************)
CurrentKeptAfterStop == current
CurrentAfterStop == 0

StopPolling(c) ==
  /\ caller[c] = "idle"
  /\ current' = CurrentAfterStop
  /\ target' = [target EXCEPT ![c] = current]
  /\ caller' = [caller EXCEPT ![c] = IF current = 0 THEN "idle" ELSE "close"]
  /\ UNCHANGED <<started, loop, cancelled, stopClosed, ticked, answer>>

(***************************************************************************)
(* ... closes the stop channel after unlocking ...                         *)
(***************************************************************************)
FieldReadAgain(c) == current
ChannelToClose(c) == target[c]

CloseStopChannel(c) ==
  /\ caller[c] = "close"
  /\ stopClosed' = stopClosed \cup {ChannelToClose(c)}
  /\ caller' = [caller EXCEPT ![c] = "wait"]
  /\ UNCHANGED <<started, current, loop, cancelled, ticked, target, answer>>

(***************************************************************************)
(* ... and waits until the loop has closed the done channel.               *)
(***************************************************************************)
DoneNotAwaited(i) == TRUE
DoneClosed(i) == loop[i] = "exited"

StopPollingReturns(c) ==
  /\ caller[c] = "wait"
  /\ DoneClosed(target[c])
  /\ caller' = [caller EXCEPT ![c] = "idle"]
  /\ target' = [target EXCEPT ![c] = 0]
  /\ UNCHANGED <<started, current, loop, cancelled, stopClosed, ticked, answer>>

-----------------------------------------------------------------------------
(***************************************************************************)
(* The environment of a loop: its context is cancelled, its ticker fires   *)
(* (the ticker's channel holds one tick and drops the others).             *)
(***************************************************************************)
CancelContext(i) ==
  /\ loop[i] # "none"
  /\ i \notin cancelled
  /\ cancelled' = cancelled \cup {i}
  /\ UNCHANGED <<started, current, loop, stopClosed, ticked, caller, target, answer>>

TickerFires(i) ==
  /\ Running(i)
  /\ i \notin ticked
  /\ ticked' = ticked \cup {i}
  /\ UNCHANGED <<started, current, loop, cancelled, stopClosed, caller, target, answer>>

(***************************************************************************)
(* The loop: IndexOnce returns, with or without an error, and the select   *)
(* picks any case that is ready.  Returning closes the done channel; it    *)
(* does not touch the indexer's channel fields.                            *)
(***************************************************************************)
IndexOnceReturns(i) ==
  /\ loop[i] = "indexing"
  /\ loop' = [loop EXCEPT ![i] = "select"]
  /\ UNCHANGED <<started, current, cancelled, stopClosed, ticked, caller, target, answer>>

ExitOnCancelOnly(i) == i \in cancelled
ExitOnStopOnly(i) == i \in stopClosed
ExitAfterFirstCycle(i) == TRUE
ExitReady(i) == i \in cancelled \/ i \in stopClosed

LoopExits(i) ==
  /\ loop[i] = "select"
  /\ ExitReady(i)
  /\ loop' = [loop EXCEPT ![i] = "exited"]
  /\ UNCHANGED <<started, current, cancelled, stopClosed, ticked, caller, target, answer>>

LoopTicks(i) ==
  /\ loop[i] = "select"
  /\ i \in ticked
  /\ ticked' = ticked \ {i}
  /\ loop' = [loop EXCEPT ![i] = "indexing"]
  /\ UNCHANGED <<started, current, cancelled, stopClosed, caller, target, answer>>

-----------------------------------------------------------------------------
CallerStep(c) ==
  \/ StartPolling(c)
  \/ StartPollingRefused(c)
  \/ StopPolling(c)
  \/ CloseStopChannel(c)
  \/ StopPollingReturns(c)

LoopStep(i) ==
  \/ CancelContext(i)
  \/ TickerFires(i)
  \/ IndexOnceReturns(i)
  \/ LoopExits(i)
  \/ LoopTicks(i)

PollingNext ==
  \/ \E c \in Callers : CallerStep(c)
  \/ \E i \in Loops : LoopStep(i)

PollingSpec == PollingInit /\ [][PollingNext]_pollingVars

(***************************************************************************)
(* A goroutine that can run does, IndexOnce returns, the ticker keeps      *)
(* firing.  A select with several ready cases picks one at random, so a    *)
(* case that is ready again and again is picked: strong fairness.          *)
(***************************************************************************)
PollingFairness ==
  /\ \A c \in Callers :
       /\ WF_pollingVars(CloseStopChannel(c))
       /\ WF_pollingVars(StopPollingReturns(c))
  /\ \A i \in Loops :
       /\ WF_pollingVars(TickerFires(i))
       /\ WF_pollingVars(IndexOnceReturns(i))
       /\ SF_pollingVars(LoopExits(i))
       /\ SF_pollingVars(LoopTicks(i))

FairPollingSpec == PollingSpec /\ PollingFairness

-----------------------------------------------------------------------------
(* The type invariant.                                                     *)
PollingTypeOK ==
  /\ started \in 0..MaxLoops
  /\ current \in 0..MaxLoops
  /\ loop \in [Loops -> {"none", "indexing", "select", "exited"}]
  /\ cancelled \subseteq Loops
  /\ stopClosed \subseteq Loops
  /\ ticked \subseteq Loops
  /\ caller \in [Callers -> {"idle", "close", "wait"}]
  /\ target \in [Callers -> 0..MaxLoops]
  /\ answer \in [Callers -> {"none", "started", "already running"}]

(* No stop channel is closed twice, which would panic: StopPolling calls   *)
(* that overlap never hold the same channels.                              *)
ClosedOnce ==
  /\ \A c \in Callers : caller[c] = "close" => target[c] \in Loops \ stopClosed
  /\ \A c, d \in Callers :
        (c # d /\ caller[c] = "close" /\ caller[d] = "close") => target[c] # target[d]

(* No loop is orphaned: one that runs is the one StopPolling would stop,   *)
(* or a StopPolling call is on its way to closing its stop channel, or has *)
(* closed it.                                                              *)
NoOrphanLoop ==
  \A i \in Loops : Running(i) =>
    \/ current = i
    \/ i \in stopClosed
    \/ \E c \in Callers : caller[c] = "close" /\ target[c] = i

(* The inductive strengthening of the three above: the channels in the     *)
(* indexer's fields are fresh, and the calls that still have to close a    *)
(* stop channel hold channels no longer in the fields.                     *)
PollingInv ==
  /\ PollingTypeOK
  /\ ClosedOnce
  /\ NoOrphanLoop
  /\ stopClosed \subseteq 1..started
  /\ current \in 0..started /\ current \notin stopClosed
  /\ \A i \in Loops : i > started => loop[i] = "none"
  /\ \A c \in Callers : target[c] \in 0..started
  /\ \A c \in Callers : caller[c] = "close" => target[c] # current

(* At most one loop runs.  This is what keeps Hcs20Indexer to one worker.  *)
(* It holds for one caller and fails for several.                          *)
OneLoop == \A i, j \in Loops : (Running(i) /\ Running(j)) => i = j

(* Its strengthening for a single caller: a running loop is the current    *)
(* one or the one the caller is waiting for, never one of each.            *)
OneLoopInv ==
  /\ \A c \in Callers : caller[c] # "idle" => current = 0
  /\ \A i \in Loops : Running(i) =>
        \/ current = i
        \/ \E c \in Callers : caller[c] # "idle" /\ target[c] = i

(* When StartPolling answers "indexer polling already running", a loop is  *)
(* running.                                                                *)
RefusedOnlyWhileRunning ==
  [][\A c \in Callers :
       (answer'[c] = "already running" /\ answer[c] # "already running")
         => \E i \in Loops : Running(i)]_pollingVars

(* StopPolling returns.                                                    *)
StopReturns == \A c \in Callers : (caller[c] # "idle") ~> (caller[c] = "idle")

(* A loop whose context is cancelled ends, also while ticks keep arriving. *)
CancelledLoopEnds == \A i \in Loops : (i \in cancelled) ~> (loop[i] = "exited")

(* A loop that nobody stops indexes again and again.                       *)
KeepsIndexing ==
  \A i \in Loops :
    (loop[i] = "select") ~> (loop[i] = "indexing" \/ i \in cancelled \cup stopClosed)

=============================================================================
