------------------------------ MODULE Inscriber ------------------------------
(***************************************************************************)
(* One inscription through pkg/inscriber: Inscribe, GenerateQuote and      *)
(* InscribeAndExecute (high_level.go, client.go), which start a job at the *)
(* inscription service, pay for it with ExecuteTransaction and wait for it *)
(* over a websocket or by polling, and InscribeViaRegistryBroker           *)
(* (registry_broker.go), which leaves all that to the registry broker.     *)
(*                                                                         *)
(* The service is outside: it inscribes a job once the network has its     *)
(* payment, and tells what happens to this job and to those of other calls *)
(* with the same key on the websocket, to whoever is connected then.       *)
(***************************************************************************)
EXTENDS TransactionExecution

CONSTANTS
  Requests,         \* the calls: input and options
  MaxAttempts,      \* WaitMaxAttempts; bound on the polls before a deadline
  InactivityTicks,  \* the inactivity timeout, in ticks of its timer
  MaxForeign        \* bound on the events of other jobs

Request ==
  [api: {"Inscribe", "GenerateQuote", "InscribeAndExecute", "broker"},
   input: {"url", "file", "buffer", "blank", "unreadable"},
   holder: BOOLEAN,
   mode: {"", "file", "hashinal"},
   metadata: BOOLEAN,                  \* name, creator, description and type are there
   webSocket: {"unset", "true", "false"},
   connection: {"", "http", "websocket", "auto"},
   existingClient: BOOLEAN, apiKey: BOOLEAN,
   quoteOnly: BOOLEAN, wait: {"unset", "true", "false"}]

ASSUME RequestsAssumption == Requests \subseteq Request
ASSUME AttemptsAssumption == MaxAttempts \in Nat \ {0} /\ InactivityTicks \in Nat \ {0}

VARIABLES
  request,    \* what the caller asked for
  inPc,       \* where the call is
  job,        \* the service's record of the job
  created,    \* history: jobs created by this call
  outbox,     \* events on their way over the websocket
  channels,   \* progressChannel, completeChannel and errorChannel
  timer,      \* ticks since the inactivity timer was set
  foreign,    \* events of other jobs so far
  attempts,   \* polls so far
  cancelled,  \* the caller's context is done
  response    \* what the call returned

serviceVars == <<job, created>>
socketVars  == <<outbox, channels, timer, foreign>>
callVars    == <<request, attempts, cancelled>>
inVars == <<request, inPc, job, created, outbox, channels, timer, foreign,
            attempts, cancelled, response>>

NoResponse == [kind |-> "none", confirmed |-> FALSE, paidWith |-> 0]
Kinds      == {"progress", "complete", "errors"}
NoEvents   == [kind \in Kinds |-> << >>]
Capacity   == [progress |-> 4, complete |-> 2, errors |-> 2]

-----------------------------------------------------------------------------
(***************************************************************************)
(* normalizeInscriptionOptions: websocket unless something else is said.   *)
(***************************************************************************)
Mode(r) == IF r.mode = "" THEN "file" ELSE r.mode
Connection(r) ==
  IF r.connection # "" THEN r.connection
  ELSE IF r.webSocket = "false" THEN "http" ELSE "websocket"
Quotes(r) == r.api = "GenerateQuote" \/ (r.api = "Inscribe" /\ r.quoteOnly)
Waits(r)  == r.wait # "false"

(***************************************************************************)
(* buildStartInscriptionRequest and buildBrokerQuoteRequest: the input     *)
(* must be there; the service wants a holder, and metadata for a hashinal. *)
(***************************************************************************)
InputConverts(r) == r.input \in {"url", "file", "buffer"}
BuildsRequest(r) ==
  /\ InputConverts(r)
  /\ r.api # "broker" => r.holder /\ (Mode(r) = "hashinal" => r.metadata)

InInit ==
  /\ request \in Requests
  /\ inPc = "idle"
  /\ job = "none"
  /\ created = 0
  /\ outbox = << >>
  /\ channels = NoEvents
  /\ timer = 0
  /\ foreign = 0
  /\ attempts = 0
  /\ cancelled = FALSE
  /\ response = NoResponse

Respond(kind, confirmed, id) ==
  /\ inPc' = "done"
  /\ response' = [kind |-> kind, confirmed |-> confirmed, paidWith |-> id]
Refuse == Respond("error", FALSE, 0)

Begin ==
  /\ inPc = "idle"
  /\ \/ /\ request.api = "broker"
        /\ IF InputConverts(request) /\ request.apiKey
             THEN inPc' = "createJob" /\ UNCHANGED response
             ELSE Refuse
     \/ /\ request.api # "broker"
        /\ inPc' = IF request.api = "InscribeAndExecute" \/ request.existingClient \/ request.apiKey
                     THEN "start" ELSE "authenticate"
        /\ UNCHANGED response
  /\ UNCHANGED <<callVars, serviceVars, socketVars, txVars>>

(***************************************************************************)
(* AuthClient.Authenticate: a challenge, a string or an object, is signed  *)
(* and answered with a session token and an API key.                       *)
(***************************************************************************)
Challenges == {"string", "object", "blank", "error"}
AuthReplies == {"key", "noKey", "noSession", "error"}

Authenticate ==
  /\ inPc = "authenticate"
  /\ \E challenge \in Challenges, reply \in AuthReplies :
       IF challenge \in {"string", "object"} /\ reply = "key"
         THEN inPc' = "start" /\ UNCHANGED response
         ELSE Refuse
  /\ UNCHANGED <<callVars, serviceVars, socketVars, txVars>>

(***************************************************************************)
(* StartInscription: the request is posted, and the reply, which may be    *)
(* lost after the job was created, carries the bytes of the transaction    *)
(* that pays for it.  A quote ends here; without bytes nothing is paid.    *)
(***************************************************************************)
TransactionBytes == {"text", "buffer", "missing", "unsupported"}
NormalizesBytes(b) == b \in {"text", "buffer"}

Start ==
  /\ inPc = "start"
  /\ IF ~BuildsRequest(request)
       THEN Refuse /\ UNCHANGED <<serviceVars, txPc>>
       ELSE \/ Refuse /\ UNCHANGED <<serviceVars, txPc>>
            \/ /\ job' = "created"
               /\ created' = created + 1
               /\ \/ Refuse /\ UNCHANGED txPc
                  \/ \E b \in TransactionBytes :
                       CASE b = "unsupported" -> Refuse /\ UNCHANGED txPc
                         [] b # "unsupported" /\ Quotes(request) ->
                              Respond("quote", FALSE, 0) /\ UNCHANGED txPc
                         [] b = "missing" /\ ~Quotes(request) -> Refuse /\ UNCHANGED txPc
                         [] NormalizesBytes(b) /\ ~Quotes(request) ->
                              inPc' = "execute" /\ txPc' = "prepare" /\ UNCHANGED response
  /\ UNCHANGED <<callVars, socketVars, txInput, txEntries, txIndex, txSubmitted, txResult, network>>

(***************************************************************************)
(* ExecuteTransaction has returned.  A failure ends the call, although the *)
(* payment may have been made.  Inscribe waits as the options say;         *)
(* InscribeAndExecute only polls.                                          *)
(***************************************************************************)
Executed ==
  /\ inPc = "execute"
  /\ txPc = "done"
  /\ CASE ~txResult.ok -> Refuse
       [] txResult.ok /\ ~Waits(request) -> Respond("pending", FALSE, txResult.id)
       [] txResult.ok /\ Waits(request) ->
            /\ inPc' = IF request.api = "Inscribe" /\ Connection(request) # "http"
                         THEN "connect" ELSE "poll"
            /\ UNCHANGED response
  /\ UNCHANGED <<callVars, serviceVars, socketVars, txVars>>

-----------------------------------------------------------------------------
(***************************************************************************)
(* The service: a paid job is inscribed or fails; what happens is told to  *)
(* who is connected.  Events of other jobs come at any time.               *)
(***************************************************************************)
Event(kind, ours, final) == [kind |-> kind, ours |-> ours, final |-> final]
Tell(events) == IF inPc = "listen" THEN outbox \o events ELSE outbox

Inscribing ==
  /\ job = "created"
  /\ 1 \in Paid \/ request.api = "broker"
  /\ job' = "processing"
  /\ outbox' = Tell(<<Event("progress", TRUE, FALSE)>>)
  /\ UNCHANGED <<callVars, inPc, created, channels, timer, foreign, response, txVars>>

JobEnds ==
  /\ job = "processing"
  /\ \/ /\ job' = "completed"
        /\ \E e \in {Event("progress", TRUE, TRUE), Event("complete", TRUE, TRUE)} :
              outbox' = Tell(<<e>>)
     \/ /\ job' = "failed"
        /\ outbox' = Tell(<<Event("errors", TRUE, TRUE)>>)
  /\ UNCHANGED <<callVars, inPc, created, channels, timer, foreign, response, txVars>>

ForeignEvent ==
  /\ inPc = "listen"
  /\ foreign < MaxForeign
  /\ foreign' = foreign + 1
  /\ \E kind \in Kinds, final \in BOOLEAN :
        outbox' = Append(outbox, Event(kind, FALSE, final))
  /\ UNCHANGED <<callVars, inPc, serviceVars, channels, timer, response, txVars>>

(***************************************************************************)
(* The socket's handlers put an event into its channel and block while the *)
(* channel is full.                                                        *)
(***************************************************************************)
Deliver ==
  /\ inPc = "listen"
  /\ outbox # << >>
  /\ LET e == Head(outbox) IN
       /\ Len(channels[e.kind]) < Capacity[e.kind]
       /\ channels' = [channels EXCEPT ![e.kind] = Append(@, e)]
  /\ outbox' = Tail(outbox)
  /\ UNCHANGED <<callVars, inPc, serviceVars, timer, foreign, response, txVars>>

-----------------------------------------------------------------------------
(***************************************************************************)
(* waitForInscriptionWebSocket: resolveWebSocketBaseURL takes a configured *)
(* URL, the recommended server, an active one or any; without one, or when *)
(* the connection fails, the call polls.                                   *)
(***************************************************************************)
Connect ==
  /\ inPc = "connect"
  /\ inPc' \in {"listen", "poll"}
  /\ timer' = 0
  /\ UNCHANGED <<callVars, serviceVars, outbox, channels, foreign, response, txVars>>

MatchesAny(e) == TRUE
Matches(e) == e.ours

(***************************************************************************)
(* The select takes whichever is ready.  An event restarts the timer       *)
(* before it is looked at, so events of other jobs keep the call waiting;  *)
(* an error ends the wait, whosever it is.                                 *)
(***************************************************************************)
Listen(kind) ==
  /\ inPc = "listen"
  /\ kind \in {"progress", "complete"}
  /\ channels[kind] # << >>
  /\ LET e == Head(channels[kind]) IN
       IF Matches(e) /\ (e.kind = "complete" \/ e.final)
         THEN Respond("inscription", TRUE, txResult.id)
         ELSE UNCHANGED <<inPc, response>>
  /\ channels' = [channels EXCEPT ![kind] = Tail(@)]
  /\ timer' = 0
  /\ UNCHANGED <<callVars, serviceVars, outbox, foreign, txVars>>

NeverInactive == FALSE
Inactive == timer = InactivityTicks

StopListening ==
  /\ inPc = "listen"
  /\ \/ channels["errors"] # << >>
     \/ Inactive
     \/ cancelled
  /\ inPc' = "poll"
  /\ outbox' = << >>
  /\ channels' = NoEvents
  /\ UNCHANGED <<callVars, serviceVars, timer, foreign, response, txVars>>

Tick ==
  /\ inPc = "listen"
  /\ timer < InactivityTicks
  /\ timer' = timer + 1
  /\ UNCHANGED <<callVars, inPc, serviceVars, outbox, channels, foreign, response, txVars>>

(***************************************************************************)
(* WaitForInscription: retrieve until the job is completed or failed.  A   *)
(* retryable error costs an attempt, the last one and every other error    *)
(* ends the call.  Between polls the context is looked at.                 *)
(***************************************************************************)
PollReplies == {"job", "retryable", "error"}
JobCompleted == job = "completed"
LastAttempt == attempts + 1 >= MaxAttempts

Poll ==
  /\ inPc = "poll"
  /\ attempts' = attempts + 1
  /\ \E reply \in IF cancelled THEN {"error"} ELSE PollReplies :
       CASE reply = "job" /\ JobCompleted -> Respond("inscription", TRUE, txResult.id)
         [] reply = "job" /\ job = "failed" -> Refuse
         [] reply = "job" /\ ~JobCompleted /\ job # "failed" ->
              inPc' = "sleep" /\ UNCHANGED response
         [] reply = "retryable" /\ ~LastAttempt ->
              inPc' = "sleep" /\ UNCHANGED response
         [] reply = "error" \/ (reply = "retryable" /\ LastAttempt) -> Refuse
  /\ UNCHANGED <<request, cancelled, serviceVars, socketVars, txVars>>

Sleep ==
  /\ inPc = "sleep"
  /\ \/ attempts < MaxAttempts /\ inPc' = "poll" /\ UNCHANGED response
     \/ (attempts >= MaxAttempts \/ cancelled) /\ Refuse
  /\ UNCHANGED <<callVars, serviceVars, socketVars, txVars>>

(***************************************************************************)
(* The registry broker: CreateJob, whose reply must name the job, and then *)
(* GetJob until the job ends or the deadline passes; any error ends it.    *)
(***************************************************************************)
CreateJob ==
  /\ inPc = "createJob"
  /\ \/ Refuse /\ UNCHANGED serviceVars
     \/ /\ job' = "created"
        /\ created' = created + 1
        /\ \E reply \in {"job", "noId", "lost"} :
             CASE reply = "lost" \/ (reply = "noId" /\ Waits(request)) -> Refuse
               [] reply # "lost" /\ ~Waits(request) -> Respond("pending", FALSE, 0)
               [] reply = "job" /\ Waits(request) -> inPc' = "waitForJob" /\ UNCHANGED response
  /\ UNCHANGED <<callVars, socketVars, txVars>>

WaitForJob ==
  /\ inPc = "waitForJob"
  /\ attempts' = attempts + 1
  /\ CASE attempts < MaxAttempts /\ ~cancelled ->
            \/ Refuse
            \/ JobCompleted /\ Respond("inscription", TRUE, 0)
            \/ job = "failed" /\ Refuse
            \/ ~JobCompleted /\ job # "failed" /\ UNCHANGED <<inPc, response>>
       [] OTHER -> Refuse
  /\ UNCHANGED <<request, cancelled, serviceVars, socketVars, txVars>>

Cancel ==
  /\ inPc # "done"
  /\ ~cancelled
  /\ cancelled' = TRUE
  /\ UNCHANGED <<request, inPc, serviceVars, socketVars, attempts, response, txVars>>

Execute == TxStep /\ UNCHANGED inVars
HandleTransaction == NetworkStep /\ UNCHANGED inVars

CallStep == \/ Begin \/ Authenticate \/ Start \/ Execute \/ Executed \/ Connect
            \/ \E kind \in {"progress", "complete"} : Listen(kind)
            \/ StopListening \/ Poll \/ Sleep \/ CreateJob \/ WaitForJob

InscriberInit == InInit /\ TxInit
InscriberNext == \/ CallStep \/ Tick \/ Deliver
                 \/ Inscribing \/ JobEnds \/ ForeignEvent \/ Cancel \/ HandleTransaction

allInscriberVars == <<inVars, txVars>>

(***************************************************************************)
(* The call's goroutine, its timer and the socket's reader run; nothing is *)
(* assumed of the network, the service or the caller's context.            *)
(***************************************************************************)
InscriberSpec ==
  /\ InscriberInit /\ [][InscriberNext]_allInscriberVars
  /\ WF_allInscriberVars(CallStep) /\ WF_allInscriberVars(Tick) /\ WF_allInscriberVars(Deliver)

-----------------------------------------------------------------------------
(***************************************************************************)
(* A call that says "confirmed" is about a job the service has inscribed   *)
(* and a transaction that paid for it: an event of another job, a late     *)
(* event or a status on the way must not confirm it.  And nothing else is  *)
(* paid for: a call pays for the one job it has created, a quote and a     *)
(* broker inscription never do.                                            *)
(***************************************************************************)
ConfirmedMeansInscribed ==
  response.confirmed =>
    /\ job = "completed"
    /\ request.api # "broker" => response.paidWith \in Paid

PaysForItsJob ==
  /\ created <= 1
  /\ Paid # {} => /\ created = 1
                  /\ request.api \in {"Inscribe", "InscribeAndExecute"}
                  /\ request.api = "Inscribe" => ~request.quoteOnly

InscribesWhatItPays == ConfirmedMeansInscribed /\ PaysForItsJob

(***************************************************************************)
(* Every call returns, although the service may never inscribe the job,    *)
(* never send an event, or send those of other jobs only - as long as      *)
(* these stop, since each of them restarts the inactivity timer.           *)
(***************************************************************************)
InscribeReturns == <>(inPc = "done")
=============================================================================
