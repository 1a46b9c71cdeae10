---------------------------- MODULE Agents_proofs ----------------------------
(***************************************************************************)
(* What agents do, in any number: registrations with the registry broker   *)
(* for any cost and any balance, logins beside requests for any keys,      *)
(* HCS-11 profiles, HCS-18 floras, the universal agent ids of HCS-14 and   *)
(* the state hashes of HCS-17.                                             *)
(***************************************************************************)
EXTENDS BrokerRegistration, BrokerRequests, AccountProfiles, Floras, UaidResolution,
        StateHashes, SequenceTheorems, FiniteSetTheorems, WellFoundedInduction, TLAPS

-----------------------------------------------------------------------------
(***************************************************************************)
(* A set of numbers has a least element.                                   *)
(***************************************************************************)
LEMMA LeastElement ==
  ASSUME NEW S \in SUBSET Nat, S # {}
  PROVE  \E m \in S : \A k \in S : m <= k
<1>1. \E m \in S : \A k \in S : ~ (<<k, m>> \in OpToRel(<, Nat))
  BY NatLessThanWellFounded, WFMin
<1>2. PICK m \in S : \A k \in S : ~ (<<k, m>> \in OpToRel(<, Nat))
  BY <1>1
<1>3. ASSUME NEW k \in S, ~ (m <= k) PROVE FALSE
  <2>1. k \in Nat /\ m \in Nat /\ k < m
    BY <1>3
  <2>2. <<k, m>> \in OpToRel(<, Nat)
    BY <2>1 DEF OpToRel
  <2> QED BY <2>2, <1>2
<1> QED BY <1>3

(***************************************************************************)
(* A bounded set of numbers has a greatest element.                        *)
(***************************************************************************)
LEMMA GreatestElement ==
  ASSUME NEW n \in Nat, NEW S \in SUBSET (0..n), S # {}
  PROVE  \E m \in S : \A k \in S : k <= m
<1> DEFINE Below == {n - k : k \in S}
<1>1. Below \in SUBSET Nat /\ Below # {}
  <2>1. \A k \in S : n - k \in Nat
    OBVIOUS
  <2> QED BY <2>1
<1> HIDE DEF Below
<1>2. PICK m \in Below : \A k \in Below : m <= k
  BY <1>1, LeastElement
<1>3. PICK x \in S : m = n - x
  BY <1>2 DEF Below
<1>4. ASSUME NEW y \in S PROVE x >= y
  <2>1. n - y \in Below
    BY DEF Below
  <2> QED BY <2>1, <1>2, <1>3
<1> QED BY <1>3, <1>4

-----------------------------------------------------------------------------
(***************************************************************************)
(* Registrations and requests of the registry broker client.               *)
(***************************************************************************)
Steps == {"idle", "quote", "buy", "post", "pending", "failed", "completed", "returned"}
Enrolments == [step : Steps, tops : BOOLEAN, attempt : Int, retried : BOOLEAN, shortfall : Int]
Statuses == {"none", "pending", "completed", "partial", "failed"}

(***************************************************************************)
(* Until its registration was answered a call has registered nothing, and  *)
(* it reports as completed only what the broker has completed.             *)
(***************************************************************************)
EnrolmentTypeOK ==
  /\ balance \in Int
  /\ registered \in [Registrants -> Nat]
  /\ progress \in [Registrants -> Statuses]
  /\ enrolment \in [Registrants -> Enrolments]

Enrols(r) ==
  /\ registered[r] \in {0, 1}
  /\ Step(r) \in {"idle", "quote", "buy", "post"} => registered[r] = 0 /\ progress[r] = "none"
  /\ Step(r) \in {"pending", "completed", "returned"} => registered[r] = 1
  /\ Step(r) = "completed" => progress[r] = "completed"

EnrolmentInv == EnrolmentTypeOK /\ \A r \in Registrants : Enrols(r)

LEMMA EnrolmentInitInv == EnrolmentInit => EnrolmentInv
BY DEF EnrolmentInit, EnrolmentInv, EnrolmentTypeOK, Enrols, Enrolments, Statuses, Steps, Step

(***************************************************************************)
(* One call moves to a step.                                               *)
(***************************************************************************)
Moves(r, step) ==
  /\ enrolment' \in [Registrants -> Enrolments]
  /\ Step(r)' = step
  /\ \A q \in Registrants \ {r} : enrolment'[q] = enrolment[q]

LEMMA GoesToMoves ==
  ASSUME EnrolmentInv, NEW r \in Registrants, NEW step \in Steps, GoesTo(r, step)
  PROVE  Moves(r, step)
BY DEF EnrolmentInv, EnrolmentTypeOK, Enrolments, GoesTo, Moves, Step

LEMMA CallStepInv ==
  ASSUME EnrolmentInv, NEW r \in Registrants, NEW step, Moves(r, step),
         balance' \in Int, UNCHANGED <<registered, progress>>,
         \/ step = "failed"
         \/ step \in {"quote", "buy", "post"} /\ Step(r) \in {"idle", "quote", "buy", "post"}
         \/ step \in {"completed", "returned"} /\ Step(r) = "pending"
            /\ (step = "completed" => progress[r] = "completed")
  PROVE  EnrolmentInv'
<1>1. EnrolmentTypeOK'
  BY DEF EnrolmentInv, EnrolmentTypeOK, Moves
<1>2. ASSUME NEW q \in Registrants PROVE Enrols(q)'
  BY DEF EnrolmentInv, EnrolmentTypeOK, Enrols, Step, Moves
<1> QED BY <1>1, <1>2 DEF EnrolmentInv

(***************************************************************************)
(* The registration itself, which is done once at most: after a lost       *)
(* answer the call fails and does not try again.                           *)
(***************************************************************************)
LEMMA RegisteredInv ==
  ASSUME EnrolmentInv, NEW r \in Registrants, NEW step \in {"pending", "failed"},
         Step(r) = "post", GoesTo(r, step),
         balance' = balance - RegistrationCost,
         registered' = [registered EXCEPT ![r] = @ + 1],
         progress' = [progress EXCEPT ![r] = "pending"]
  PROVE  EnrolmentInv'
<1>1. balance' \in Int
  BY BrokerRegistrationAssumption DEF EnrolmentInv, EnrolmentTypeOK
<1>2. Moves(r, step)
  BY GoesToMoves DEF Steps
<1>3. EnrolmentTypeOK'
  <2>1. registered' \in [Registrants -> Nat]
    BY DEF EnrolmentInv, EnrolmentTypeOK
  <2>2. progress' \in [Registrants -> Statuses]
    BY DEF EnrolmentInv, EnrolmentTypeOK, Statuses
  <2> QED BY <1>1, <1>2, <2>1, <2>2 DEF EnrolmentTypeOK, Moves
<1>4. registered'[r] = 1 /\ \A q \in Registrants \ {r} :
        registered'[q] = registered[q] /\ progress'[q] = progress[q]
  BY DEF EnrolmentInv, EnrolmentTypeOK, Enrols
<1>5. ASSUME NEW q \in Registrants PROVE Enrols(q)'
  BY <1>2, <1>4 DEF EnrolmentInv, Enrols, Step, Moves
<1> QED BY <1>3, <1>5 DEF EnrolmentInv

LEMMA RetryMoves ==
  ASSUME EnrolmentInv, NEW r \in Registrants,
         NEW step \in Steps, NEW attempt \in Int, NEW retried \in BOOLEAN,
         enrolment' = [enrolment EXCEPT ![r].step = step, ![r].attempt = attempt,
                                        ![r].retried = retried]
  PROVE  Moves(r, step)
<1> DEFINE e == [enrolment[r] EXCEPT !.step = step, !.attempt = attempt, !.retried = retried]
<1>1. enrolment \in [Registrants -> Enrolments] /\ enrolment[r] \in Enrolments
  BY DEF EnrolmentInv, EnrolmentTypeOK
<1>2. \A x \in Enrolments :
        [x EXCEPT !.step = step, !.attempt = attempt, !.retried = retried] \in Enrolments
  BY DEF Enrolments
<1>3. e.step = step
  BY <1>1 DEF Enrolments
<1>4. enrolment' = [enrolment EXCEPT ![r] = e]
  BY <1>1, Zenon
<1>5. e \in Enrolments
  BY <1>1, <1>2, Zenon
<1> HIDE DEF e
<1>6. enrolment' \in [Registrants -> Enrolments]
  BY <1>1, <1>4, <1>5
<1>7. enrolment'[r] = e /\ \A q \in Registrants \ {r} : enrolment'[q] = enrolment[q]
  BY <1>1, <1>4
<1> QED BY <1>3, <1>6, <1>7 DEF Step, Moves

LEMMA AfterErrorInv ==
  ASSUME EnrolmentInv, NEW r \in Registrants, NEW refused \in BOOLEAN,
         Step(r) = "post", AfterError(r, refused), BrokerKeeps
  PROVE  EnrolmentInv'
<1>1. \E step \in {"failed", "quote"} : Moves(r, step)
  <2>1. CASE GoesTo(r, "failed")
    BY <2>1, GoesToMoves DEF Steps
  <2>2. CASE enrolment' = [enrolment EXCEPT ![r].step = "quote", ![r].attempt = 0,
                                            ![r].retried = TRUE]
    <3>1. "quote" \in Steps /\ 0 \in Int /\ TRUE \in BOOLEAN
      BY DEF Steps
    <3>2. Moves(r, "quote")
      BY <2>2, <3>1, RetryMoves, Zenon
    <3> QED BY <3>2
  <2> QED BY <2>1, <2>2 DEF AfterError
<1> QED BY <1>1, CallStepInv DEF BrokerKeeps, EnrolmentInv, EnrolmentTypeOK

LEMMA EnrolmentStepInv ==
  ASSUME EnrolmentInv, EnrolmentNext
  PROVE  EnrolmentInv'
<1>0. balance \in Int /\ RegistrationCost \in Nat /\ Shortfall \in Int
  BY BrokerRegistrationAssumption DEF EnrolmentInv, EnrolmentTypeOK, Shortfall
<1>1. ASSUME NEW r \in Registrants, RegisterAgent(r) PROVE EnrolmentInv'
  <2>1. \E step \in {"quote", "post"} : Moves(r, step)
    BY <1>1 DEF RegisterAgent, EnrolmentInv, EnrolmentTypeOK, Enrolments, Steps, Step, Moves
  <2> QED BY <1>0, <1>1, <2>1, CallStepInv DEF RegisterAgent, BrokerKeeps
<1>2. ASSUME NEW r \in Registrants, GetRegistrationQuote(r) PROVE EnrolmentInv'
  <2>1. \E step \in {"post", "buy", "failed"} : Moves(r, step)
    BY <1>0, <1>2
       DEF GetRegistrationQuote, EnrolmentInv, EnrolmentTypeOK, Enrolments, Steps, Step, Moves
  <2> QED BY <1>0, <1>2, <2>1, CallStepInv DEF GetRegistrationQuote, BrokerKeeps
<1>3. ASSUME NEW r \in Registrants, PurchaseCreditsWithHbar(r) PROVE EnrolmentInv'
  <2>1. enrolment[r].shortfall \in Int
    BY DEF EnrolmentInv, EnrolmentTypeOK, Enrolments
  <2>2. balance' \in Int /\ UNCHANGED <<registered, progress>> /\ Step(r) = "buy"
    BY <1>0, <1>3, <2>1 DEF PurchaseCreditsWithHbar, CreditsToPurchase
  <2>3. \E step \in {"quote", "failed"} : Moves(r, step)
    <3>1. CASE GoesTo(r, "failed")
      BY <3>1, GoesToMoves DEF Steps
    <3>2. CASE enrolment' = [enrolment EXCEPT ![r].step = "quote", ![r].attempt = @ + 1,
                                              ![r].shortfall = 0]
      BY <3>2 DEF EnrolmentInv, EnrolmentTypeOK, Enrolments, Steps, Step, Moves
    <3> QED BY <1>3, <3>1, <3>2 DEF PurchaseCreditsWithHbar
  <2> QED BY <2>2, <2>3, CallStepInv
<1>4. ASSUME NEW r \in Registrants, PerformRegisterAgent(r) PROVE EnrolmentInv'
  BY <1>4, RegisteredInv DEF PerformRegisterAgent
<1>5. ASSUME NEW r \in Registrants, RegistrationRefused(r) PROVE EnrolmentInv'
  BY <1>5, AfterErrorInv DEF RegistrationRefused
<1>6. ASSUME NEW r \in Registrants, AnswerLost(r) PROVE EnrolmentInv'
  <2>1. GoesTo(r, "failed")
    BY <1>6 DEF AnswerLost, AfterError, Retries
  <2> QED BY <1>6, <2>1, RegisteredInv DEF AnswerLost
<1>7. ASSUME NEW r \in Registrants, RequestFails(r) PROVE EnrolmentInv'
  <2>1. CASE Step(r) = "post"
    BY <1>7, <2>1, AfterErrorInv DEF RequestFails
  <2>2. CASE Step(r) # "post"
    <3>1. Moves(r, "failed")
      BY <1>7, <2>2, GoesToMoves DEF RequestFails, Steps
    <3> QED BY <1>0, <1>7, <3>1, CallStepInv DEF RequestFails, BrokerKeeps
  <2> QED BY <2>1, <2>2
<1>8. ASSUME NEW r \in Registrants, PollProgress(r) PROVE EnrolmentInv'
  <2>1. \E step \in {"completed", "failed", "returned"} :
          Moves(r, step) /\ (step = "completed" => progress[r] = "completed")
    BY <1>8, GoesToMoves DEF PollProgress, IsCompletion, Steps
  <2> QED BY <1>0, <1>8, <2>1, CallStepInv DEF PollProgress, BrokerKeeps
<1>9. ASSUME NEW r \in Registrants, JobEnds(r) PROVE EnrolmentInv'
  <2>1. EnrolmentTypeOK'
    BY <1>9 DEF JobEnds, EnrolmentInv, EnrolmentTypeOK, Statuses
  <2>2. ASSUME NEW q \in Registrants PROVE Enrols(q)'
    BY <1>9 DEF JobEnds, EnrolmentInv, EnrolmentTypeOK, Enrols, Step
  <2> QED BY <2>1, <2>2 DEF EnrolmentInv
<1>10. CASE OthersSpend
  BY <1>0, <1>10 DEF OthersSpend, EnrolmentInv, EnrolmentTypeOK, Enrols, Step
<1> QED
  BY <1>1, <1>2, <1>3, <1>4, <1>5, <1>6, <1>7, <1>8, <1>9, <1>10 DEF EnrolmentNext

(***************************************************************************)
(* However often credits run out and whichever answers are lost, a call    *)
(* registers and pays for its agent at most once.                          *)
(***************************************************************************)
THEOREM RegistersAtMostOnce == EnrolmentSpec => []RegistersOnce
<1>1. EnrolmentInv /\ [EnrolmentNext]_enrolmentVars => EnrolmentInv'
  <2> SUFFICES ASSUME EnrolmentInv, UNCHANGED enrolmentVars PROVE EnrolmentInv'
    BY EnrolmentStepInv
  <2> QED BY DEF enrolmentVars, EnrolmentInv, EnrolmentTypeOK, Enrols, Step
<1>2. EnrolmentInv => RegistersOnce
  <2> SUFFICES ASSUME EnrolmentInv, NEW r \in Registrants
               PROVE  /\ registered[r] <= 1
                      /\ Step(r) = "completed" => registered[r] = 1 /\ progress[r] = "completed"
    BY DEF RegistersOnce
  <2>1. Enrols(r) /\ registered[r] \in {0, 1}
    BY DEF EnrolmentInv, Enrols
  <2>2. registered[r] <= 1
    BY <2>1
  <2>3. Step(r) = "completed" => registered[r] = 1 /\ progress[r] = "completed"
    BY <2>1 DEF Enrols
  <2> QED BY <2>2, <2>3
<1> QED BY EnrolmentInitInv, <1>1, <1>2, PTL DEF EnrolmentSpec
-----------------------------------------------------------------------------
Values == Keys \cup {NoValue}
LoginSteps == {"none", "idle", "challenged", "verified", "keyed", "account", "loggedIn"}

(***************************************************************************)
(* A login that has passed a critical section finds the header of that     *)
(* section among those written since, and the map never holds the token of *)
(* a call.                                                                 *)
(***************************************************************************)
RequestsTypeOK ==
  /\ defaultHeaders \in [Headers -> Values]
  /\ login \in [Goroutines -> [step : LoginSteps, key : Values]]
  /\ fresh \in [Goroutines -> SUBSET Headers]

CarriesItsToken == carried.headers["authorization"] = Bearer => carried.token = Bearer

Wrote(g) ==
  /\ login[g].step \in {"keyed", "account", "loggedIn"} => "x-api-key" \in fresh[g]
  /\ login[g].step \in {"account", "loggedIn"} => "x-ledger-api-key" \in fresh[g]

RequestsInv == RequestsTypeOK /\ CarriesItsToken /\ \A g \in Goroutines : Wrote(g)

LEMMA RequestsInitInv == RequestsInit => RequestsInv
<1> SUFFICES ASSUME RequestsInit PROVE RequestsInv
  OBVIOUS
<1>1. RequestsTypeOK
  BY DEF RequestsInit, RequestsTypeOK, Unset, Values, LoginSteps
<1>2. CarriesItsToken
  BY BrokerRequestsAssumption DEF RequestsInit, CarriesItsToken, Unset, Headers
<1>3. ASSUME NEW g \in Goroutines PROVE Wrote(g)
  BY DEF RequestsInit, Wrote
<1> QED BY <1>1, <1>2, <1>3 DEF RequestsInv

(***************************************************************************)
(* What a request and a setter leave behind, whatever their caller does    *)
(* next.                                                                   *)
(***************************************************************************)
LEMMA RequestCarries ==
  ASSUME RequestsInv, Upload \/ Plain
  PROVE  UNCHANGED <<defaultHeaders, fresh>> /\ CarriesItsToken'
<1>1. CASE Upload
  BY <1>1 DEF Upload, Request, CopiesTheMap, CarriesItsToken
<1>2. CASE Plain
  <2>1. defaultHeaders["authorization"] # Bearer
    BY BrokerRequestsAssumption DEF RequestsInv, RequestsTypeOK, Headers, Values
  <2>2. carried'.headers = defaultHeaders
    BY <1>2 DEF Plain, Request, Merged
  <2> QED BY <1>2, <2>1, <2>2 DEF Plain, Request, CopiesTheMap, CarriesItsToken
<1> QED BY <1>1, <1>2

LEMMA SetsWrites ==
  ASSUME RequestsInv, NEW name \in Headers, NEW value \in Values, Sets(name, value)
  PROVE  /\ defaultHeaders' \in [Headers -> Values]
         /\ fresh' \in [Goroutines -> SUBSET Headers]
         /\ \A g \in Goroutines :
              /\ fresh[g] \subseteq fresh'[g]
              /\ login[g].step \in {"keyed", "account", "loggedIn"} => name \in fresh'[g]
         /\ CarriesItsToken'
<1>1. defaultHeaders' \in [Headers -> Values]
  BY DEF RequestsInv, RequestsTypeOK, Sets
<1>2. fresh' \in [Goroutines -> SUBSET Headers]
  BY DEF RequestsInv, RequestsTypeOK, Sets
<1>3. ASSUME NEW g \in Goroutines
      PROVE  /\ fresh[g] \subseteq fresh'[g]
             /\ login[g].step \in {"keyed", "account", "loggedIn"} => name \in fresh'[g]
  BY DEF Sets
<1>4. CarriesItsToken'
  BY DEF RequestsInv, CarriesItsToken, Sets
<1> QED BY <1>1, <1>2, <1>3, <1>4

LEMMA LoginStepInv ==
  ASSUME RequestsInv, NEW g \in Goroutines, NEW step \in LoginSteps, NEW key \in Values,
         Goes(g, step, key),
         defaultHeaders' \in [Headers -> Values], fresh' \in [Goroutines -> SUBSET Headers],
         \A h \in Goroutines : fresh[h] \subseteq fresh'[h],
         step \in {"keyed", "account", "loggedIn"} => "x-api-key" \in fresh'[g],
         step \in {"account", "loggedIn"} => "x-ledger-api-key" \in fresh'[g],
         CarriesItsToken'
  PROVE  RequestsInv'
<1>1. login' \in [Goroutines -> [step : LoginSteps, key : Values]]
  BY DEF RequestsInv, RequestsTypeOK, Goes
<1>2. login'[g].step = step /\ \A h \in Goroutines \ {g} : login'[h] = login[h]
  BY DEF RequestsInv, RequestsTypeOK, Goes
<1>3. ASSUME NEW h \in Goroutines PROVE Wrote(h)'
  <2>1. CASE h = g
    BY <1>2, <2>1 DEF Wrote
  <2>2. CASE h # g
    BY <1>2, <2>2 DEF RequestsInv, Wrote
  <2> QED BY <2>1, <2>2
<1> QED BY <1>1, <1>3 DEF RequestsInv, RequestsTypeOK

LEMMA RequestsStepInv ==
  ASSUME RequestsInv, RequestsNext
  PROVE  RequestsInv'
<1>0. NoValue \in Values /\ Keys \subseteq Values
  BY DEF Values
<1>1. CASE NewRegistryBrokerClient
  <2>1. PICK given \in [Headers -> Values], api \in Values, ledger \in Values :
          defaultHeaders' = [given EXCEPT !["x-api-key"] =
            IF api # NoValue THEN api ELSE IF @ # NoValue THEN @ ELSE ledger]
    BY <1>1 DEF NewRegistryBrokerClient, Values
  <2>2. defaultHeaders' \in [Headers -> Values]
    BY <2>1 DEF Headers
  <2>3. /\ login' \in [Goroutines -> [step : LoginSteps, key : Values]]
        /\ \A g \in Goroutines : login'[g].step = "idle"
    BY <1>0, <1>1 DEF NewRegistryBrokerClient, LoginSteps
  <2>4. UNCHANGED <<carried, fresh>>
    BY <1>1 DEF NewRegistryBrokerClient
  <2> QED BY <2>2, <2>3, <2>4 DEF RequestsInv, RequestsTypeOK, CarriesItsToken, Wrote
<1>2. ASSUME NEW h \in Headers, NEW v \in Values, SetDefaultHeader(h, v) PROVE RequestsInv'
  <2>1. Sets(h, v) /\ UNCHANGED login
    BY <1>2 DEF SetDefaultHeader
  <2> QED BY <2>1, SetsWrites DEF RequestsInv, RequestsTypeOK, Wrote
<1>3. ASSUME NEW g \in Goroutines, Call(g) PROVE RequestsInv'
  <2>1. UNCHANGED <<defaultHeaders, fresh, login>> /\ CarriesItsToken'
    BY <1>3, RequestCarries DEF Call
  <2> QED BY <2>1 DEF RequestsInv, RequestsTypeOK, Wrote
<1>4. ASSUME NEW g \in Goroutines, CreateLedgerChallenge(g) PROVE RequestsInv'
  <2>1. UNCHANGED <<defaultHeaders, fresh>> /\ CarriesItsToken'
    BY <1>4, RequestCarries DEF CreateLedgerChallenge
  <2> QED BY <1>0, <1>4, <2>1, LoginStepInv
      DEF CreateLedgerChallenge, LoginSteps, RequestsInv, RequestsTypeOK
<1>5. ASSUME NEW g \in Goroutines, VerifyLedgerChallenge(g) PROVE RequestsInv'
  <2>1. UNCHANGED <<defaultHeaders, fresh>> /\ CarriesItsToken'
    BY <1>5, RequestCarries DEF VerifyLedgerChallenge
  <2>2. PICK step \in {"idle", "verified"}, key \in Values : Goes(g, step, key)
    BY <1>0, <1>5 DEF VerifyLedgerChallenge
  <2> QED BY <2>1, <2>2, LoginStepInv DEF LoginSteps, RequestsInv, RequestsTypeOK
<1>6. ASSUME NEW g \in Goroutines, SetLedgerAPIKey(g) PROVE RequestsInv'
  <2>1. login[g].key \in Values
    BY DEF RequestsInv, RequestsTypeOK
  <2>2. defaultHeaders' \in [Headers -> Values]
    BY <1>6, <2>1 DEF SetLedgerAPIKey, RequestsInv, RequestsTypeOK, Headers
  <2>3. fresh' \in [Goroutines -> SUBSET Headers]
    BY <1>6 DEF SetLedgerAPIKey, RequestsInv, RequestsTypeOK, Headers
  <2>4. "x-api-key" \in fresh'[g] /\ \A h \in Goroutines : fresh[h] \subseteq fresh'[h]
    BY <1>6 DEF SetLedgerAPIKey
  <2>5. CarriesItsToken' /\ Goes(g, "keyed", NoValue) /\ "keyed" \in LoginSteps
    BY <1>6 DEF SetLedgerAPIKey, RequestsInv, CarriesItsToken, LoginSteps
  <2> QED BY <1>0, <2>2, <2>3, <2>4, <2>5, LoginStepInv
<1>7. ASSUME NEW g \in Goroutines, DropLedgerKey(g) PROVE RequestsInv'
  <2>1. Sets("x-ledger-api-key", NoValue) /\ login[g].step = "keyed"
    BY <1>7 DEF DropLedgerKey, DropsFormerKey
  <2>2. PICK step \in {"loggedIn", "account"} : Goes(g, step, NoValue)
    BY <1>7 DEF DropLedgerKey
  <2>3. "x-api-key" \in fresh[g]
    BY <2>1 DEF RequestsInv, Wrote
  <2> QED BY <1>0, <2>1, <2>2, <2>3, SetsWrites, LoginStepInv DEF LoginSteps, Headers
<1>8. ASSUME NEW g \in Goroutines, SetAccountHeader(g) PROVE RequestsInv'
  <2>1. PICK account \in Keys : Sets("x-account-id", account)
    BY <1>8 DEF SetAccountHeader
  <2>2. login[g].step = "account" /\ Goes(g, "loggedIn", NoValue)
    BY <1>8 DEF SetAccountHeader
  <2>3. "x-api-key" \in fresh[g] /\ "x-ledger-api-key" \in fresh[g]
    BY <2>2 DEF RequestsInv, Wrote
  <2> QED BY <1>0, <2>1, <2>2, <2>3, SetsWrites, LoginStepInv DEF LoginSteps, Headers
<1> QED
  BY <1>1, <1>2, <1>3, <1>4, <1>5, <1>6, <1>7, <1>8 DEF RequestsNext, Values

(***************************************************************************)
(* However goroutines interleave, no request carries the token of another  *)
(* one's upload, and a login that returned has written both keys or been   *)
(* overwritten since.                                                      *)
(***************************************************************************)
THEOREM CarriesItsOwnHeaders == RequestsSpec => []HeadersAreTheCallers
<1>1. RequestsInv /\ [RequestsNext]_requestVars => RequestsInv'
  <2> SUFFICES ASSUME RequestsInv, UNCHANGED requestVars PROVE RequestsInv'
    BY RequestsStepInv
  <2> QED BY DEF requestVars, RequestsInv, RequestsTypeOK, CarriesItsToken, Wrote
<1>2. RequestsInv => HeadersAreTheCallers
  BY DEF RequestsInv, CarriesItsToken, Wrote, HeadersAreTheCallers
<1> QED BY RequestsInitInv, <1>1, <1>2, PTL DEF RequestsSpec

-----------------------------------------------------------------------------
(***************************************************************************)
(* HCS-11 profiles: inscriptions, and the memos that name them.            *)
(***************************************************************************)
Inscriptions == [kind : {"profile", "image"}, status : {"started", "paid", "completed", "failed"},
                 served : BOOLEAN]
ProfileCalls == [pc : {"idle", "start", "pay", "wait", "update", "done"},
                 kind : {"none", "profile", "image"}, update : BOOLEAN, topic : Nat]

ProfilesTypeOK ==
  /\ inscribed \in Seq(Inscriptions)
  /\ memoLog \in Seq(Int) /\ memoShown \in 1..Len(memoLog)
  /\ profileCall \in [ProfileCallers -> ProfileCalls]
  /\ fetch11 \in [pc : {"idle", "content", "none", "fetched"}, topic : Int]

Inscribes(t, kind) == t \in DOMAIN inscribed /\ inscribed[t].kind = kind
Complete(t) == t \in DOMAIN inscribed /\ inscribed[t].status = "completed"

(***************************************************************************)
(* An inscription that is awaited, used or paid is of what the call wants, *)
(* and only the call that started it pays for it.                          *)
(***************************************************************************)
CallInscribes(c) ==
  /\ ~At(c, "idle") => profileCall[c].kind # "none"
  /\ profileCall[c].update => profileCall[c].kind = "profile"
  /\ profileCall[c].pc \in {"pay", "wait", "update", "done"} =>
       Inscribes(profileCall[c].topic, profileCall[c].kind)
  /\ At(c, "pay") => inscribed[profileCall[c].topic].status = "started"
  /\ profileCall[c].pc = "update" => profileCall[c].update
  /\ profileCall[c].pc \in {"update", "done"} => Complete(profileCall[c].topic)
  /\ At(c, "done") /\ profileCall[c].update =>
       \E n \in DOMAIN memoLog : memoLog[n] = profileCall[c].topic

PaysItsOwn ==
  \A c, d \in ProfileCallers :
    c # d /\ At(c, "pay") /\ At(d, "pay") => profileCall[c].topic # profileCall[d].topic

MemosInscribed ==
  \A n \in DOMAIN memoLog :
    memoLog[n] \notin {0, -1} => Complete(memoLog[n]) /\ Inscribes(memoLog[n], "profile")

FetchesInscribed ==
  fetch11.pc \in {"content", "fetched"} => fetch11.topic = -1 \/ Complete(fetch11.topic)

ProfilesInv ==
  /\ ProfilesTypeOK
  /\ \A c \in ProfileCallers : CallInscribes(c)
  /\ PaysItsOwn
  /\ MemosInscribed
  /\ FetchesInscribed

LEMMA ProfilesInitInv == ProfilesInit => ProfilesInv
<1> SUFFICES ASSUME ProfilesInit PROVE ProfilesInv
  OBVIOUS
<1>1. memoLog \in Seq(Int) /\ Len(memoLog) = 1 /\ memoLog[1] = 0 /\ DOMAIN memoLog = 1..1
  BY DEF ProfilesInit
<1>2. inscribed \in Seq(Inscriptions)
  BY DEF ProfilesInit
<1>3. ProfilesTypeOK
  BY <1>1, <1>2 DEF ProfilesInit, ProfilesTypeOK, ProfileCalls, Resting11, Unfetched
<1>4. \A c \in ProfileCallers : CallInscribes(c)
  BY DEF ProfilesInit, CallInscribes, Resting11, At
<1> QED BY <1>1, <1>3, <1>4 DEF ProfilesInit, ProfilesInv, PaysItsOwn, MemosInscribed, FetchesInscribed,
     Resting11, Unfetched, At

(***************************************************************************)
(* Inscriptions keep their kind and stay completed, and memos stay.        *)
(***************************************************************************)
InscribedKept ==
  \A i \in DOMAIN inscribed :
    /\ i \in DOMAIN inscribed' /\ inscribed'[i].kind = inscribed[i].kind
    /\ inscribed[i].status = "completed" => inscribed'[i].status = "completed"
MemosKept == \A n \in DOMAIN memoLog : n \in DOMAIN memoLog' /\ memoLog'[n] = memoLog[n]
PaymentKept(c) ==
  At(c, "pay") => inscribed'[profileCall[c].topic].status = inscribed[profileCall[c].topic].status

LEMMA CallKept ==
  ASSUME NEW c \in ProfileCallers, CallInscribes(c), profileCall'[c] = profileCall[c],
         InscribedKept, MemosKept, PaymentKept(c)
  PROVE  CallInscribes(c)'
BY DEF CallInscribes, InscribedKept, MemosKept, PaymentKept, Inscribes, Complete, At

LEMMA MemosStayInscribed ==
  ASSUME MemosInscribed, InscribedKept, memoLog' = memoLog
  PROVE  MemosInscribed'
BY DEF MemosInscribed, InscribedKept, Inscribes, Complete

LEMMA FetchKept ==
  ASSUME FetchesInscribed, InscribedKept, fetch11' = fetch11
  PROVE  FetchesInscribed'
BY DEF FetchesInscribed, InscribedKept, Complete

(***************************************************************************)
(* One call moves, and the others go on where they were.                   *)
(***************************************************************************)
ProfileGoes(c, call) ==
  /\ profileCall' \in [ProfileCallers -> ProfileCalls]
  /\ profileCall'[c] = call
  /\ \A d \in ProfileCallers \ {c} : profileCall'[d] = profileCall[d]

LEMMA Going ==
  ASSUME ProfilesTypeOK, NEW c \in ProfileCallers, NEW call \in ProfileCalls, Becomes11(c, call)
  PROVE  ProfileGoes(c, call)
BY DEF ProfilesTypeOK, Becomes11, ProfileGoes

(* A call that is not about to pay moves, without a change to the others. *)
LEMMA OneCallMoves ==
  ASSUME ProfilesInv, NEW c \in ProfileCallers, NEW call \in ProfileCalls, ProfileGoes(c, call),
         call.pc # "pay", CallInscribes(c)', InscribedKept, MemosKept,
         \A d \in ProfileCallers \ {c} : PaymentKept(d)
  PROVE  /\ \A d \in ProfileCallers : CallInscribes(d)'
         /\ PaysItsOwn'
<1>1. ASSUME NEW d \in ProfileCallers \ {c} PROVE CallInscribes(d)'
  BY <1>1, CallKept DEF ProfileGoes, ProfilesInv
<1> QED BY <1>1 DEF ProfileGoes, ProfilesInv, PaysItsOwn, At

LEMMA ProfilesStep == ProfilesInv /\ [ProfilesNext]_profileVars => ProfilesInv'
<1> SUFFICES ASSUME ProfilesInv, [ProfilesNext]_profileVars PROVE ProfilesInv'
  OBVIOUS
<1> USE DEF ProfilesInv
<1> DEFINE Same == inscribed' = inscribed /\ memoLog' = memoLog /\ memoShown' = memoShown /\ fetch11' = fetch11
<1>s. inscribed' = inscribed => InscribedKept /\ \A c \in ProfileCallers : PaymentKept(c)
  BY DEF InscribedKept, PaymentKept
<1>m. memoLog' = memoLog => MemosKept
  BY DEF MemosKept
<1>r. Resting11 \in ProfileCalls
  BY DEF Resting11, ProfileCalls
<1>t. ASSUME NEW c \in ProfileCallers, NEW call \in ProfileCalls, ProfileGoes(c, call), Same,
             CallInscribes(c)', call.pc # "pay"
      PROVE  ProfilesInv'
  <2>1. ProfilesTypeOK'
    BY <1>t DEF ProfilesTypeOK, ProfileGoes
  <2> QED BY <1>t, <1>s, <1>m, <2>1, OneCallMoves, MemosStayInscribed, FetchKept
<1>u. ASSUME NEW c \in ProfileCallers, Becomes11(c, Resting11) PROVE CallInscribes(c)' /\ ProfileGoes(c, Resting11)
  <2>1. ProfileGoes(c, Resting11)
    BY <1>u, <1>r, Going
  <2> QED BY <2>1 DEF ProfileGoes, CallInscribes, Resting11, At
<1>1. ASSUME NEW c \in ProfileCallers, InscribeProfile(c) \/ InscribeImage(c) PROVE ProfilesInv'
  <2>1. PICK kind \in {"profile", "image"}, update \in BOOLEAN :
          BeginsInscription(c, kind, update) /\ (update => kind = "profile")
    BY <1>1 DEF InscribeProfile, InscribeImage
  <2> DEFINE call == [pc |-> "start", kind |-> kind, update |-> update, topic |-> 0]
  <2>2. call \in ProfileCalls /\ call.pc = "start" /\ call.kind = kind /\ call.update = update
    BY DEF ProfileCalls
  <2>3. Becomes11(c, call) /\ Same
    BY <2>1 DEF BeginsInscription
  <2> HIDE DEF call
  <2>4. ProfileGoes(c, call)
    BY <2>2, <2>3, Going
  <2>5. CallInscribes(c)'
    BY <2>1, <2>2, <2>4 DEF ProfileGoes, CallInscribes, At
  <2> QED BY <2>2, <2>3, <2>4, <2>5, <1>t
<1>2. ASSUME NEW c \in ProfileCallers, StartInscription(c) PROVE ProfilesInv'
  <2> DEFINE n == Len(inscribed)
             new == [kind |-> profileCall[c].kind, status |-> "started", served |-> FALSE]
             call == [profileCall[c] EXCEPT !.pc = "pay", !.topic = n + 1]
  <2>0. profileCall[c] \in ProfileCalls /\ profileCall[c].pc = "start"
    BY <1>2 DEF ProfilesTypeOK, StartInscription, At
  <2>1. n \in Nat /\ DOMAIN inscribed = 1..n /\ inscribed \in Seq(Inscriptions)
    BY DEF ProfilesTypeOK
  <2>2. new \in Inscriptions /\ new.kind = profileCall[c].kind /\ new.status = "started"
    BY <2>0 DEF Inscriptions, ProfileCalls, CallInscribes, At
  <2>h. Becomes11(c, call) /\ inscribed' = Append(inscribed, new)
    BY <1>2 DEF StartInscription
  <2> HIDE DEF n
  <2>3. /\ call \in ProfileCalls /\ call.pc = "pay" /\ call.topic = n + 1
        /\ call.kind = profileCall[c].kind /\ (call.update <=> profileCall[c].update)
    <3>1. n + 1 \in Nat
      BY <2>1
    <3>2. call \in ProfileCalls
      BY <2>0, <3>1 DEF ProfileCalls
    <3>3. call.pc = "pay" /\ call.topic = n + 1 /\ call.kind = profileCall[c].kind
      BY <2>0 DEF ProfileCalls
    <3>4. call.update <=> profileCall[c].update
      BY <2>0 DEF ProfileCalls
    <3> QED BY <3>2, <3>3, <3>4
  <2>4. /\ inscribed' = Append(inscribed, new) /\ Becomes11(c, call)
        /\ memoLog' = memoLog /\ memoShown' = memoShown /\ fetch11' = fetch11
    BY <1>2, <2>h DEF StartInscription
  <2> HIDE DEF new, call
  <2>5. /\ inscribed' \in Seq(Inscriptions) /\ DOMAIN inscribed' = 1..(n+1)
        /\ inscribed'[n+1] = new /\ \A k \in 1..n : inscribed'[k] = inscribed[k]
    BY <2>1, <2>2, <2>4, AppendProperties DEF n
  <2>6. ProfileGoes(c, call)
    BY <2>3, <2>4, Going
  <2>7. InscribedKept /\ \A d \in ProfileCallers : PaymentKept(d)
    BY <2>1, <2>5 DEF InscribedKept, PaymentKept, CallInscribes, Inscribes, At
  <2>8. CallInscribes(c)'
    <3>1. profileCall'[c] = call /\ n + 1 \in DOMAIN inscribed'
      BY <2>1, <2>5, <2>6 DEF ProfileGoes
    <3>2. profileCall[c].kind # "none" /\ (profileCall[c].update => profileCall[c].kind = "profile")
      BY <2>0 DEF CallInscribes, At
    <3> QED BY <3>1, <3>2, <2>2, <2>3, <2>5 DEF CallInscribes, Inscribes, At
  <2>9. \A d \in ProfileCallers : CallInscribes(d)'
    BY <2>4, <2>6, <2>7, <2>8, <1>m, CallKept DEF ProfileGoes
  <2>10. PaysItsOwn'
    <3>1. ASSUME NEW d \in ProfileCallers \ {c}, profileCall[d].pc = "pay"
          PROVE  profileCall[d].topic # n + 1
      BY <3>1, <2>1 DEF CallInscribes, Inscribes
    <3> QED BY <3>1, <2>3, <2>6 DEF ProfileGoes, PaysItsOwn, At
  <2>11. ProfilesTypeOK'
    BY <2>4, <2>5, <2>6 DEF ProfilesTypeOK, ProfileGoes
  <2> QED BY <2>4, <2>7, <2>9, <2>10, <2>11, MemosStayInscribed, FetchKept
<1>3. ASSUME NEW c \in ProfileCallers, ExecutePayment(c) PROVE ProfilesInv'
  <2> DEFINE t == profileCall[c].topic
  <2>0. profileCall[c] \in ProfileCalls /\ profileCall[c].pc = "pay" /\ t \in DOMAIN inscribed
        /\ inscribed[t].status = "started" /\ inscribed[t].kind = profileCall[c].kind
    BY <1>3 DEF ProfilesTypeOK, ExecutePayment, At, CallInscribes, Inscribes
  <2>1. PICK paid \in BOOLEAN, answered \in BOOLEAN :
          /\ inscribed' = [inscribed EXCEPT ![t].status = IF paid THEN "paid" ELSE @]
          /\ Becomes11(c, IF paid /\ answered THEN [profileCall[c] EXCEPT !.pc = "wait"] ELSE Resting11)
    BY <1>3 DEF ExecutePayment
  <2>2. memoLog' = memoLog /\ memoShown' = memoShown /\ fetch11' = fetch11
    BY <1>3 DEF ExecutePayment
  <2> DEFINE i == [inscribed[t] EXCEPT !.status = IF paid THEN "paid" ELSE @]
             call == IF paid /\ answered THEN [profileCall[c] EXCEPT !.pc = "wait"] ELSE Resting11
  <2>3. inscribed \in Seq(Inscriptions) /\ inscribed[t] \in Inscriptions
    BY <2>0 DEF ProfilesTypeOK
  <2>4. i \in Inscriptions /\ i.kind = inscribed[t].kind
    BY <2>3 DEF Inscriptions
  <2>5. /\ call \in ProfileCalls /\ call.pc \in {"idle", "wait"}
        /\ call.pc = "wait" => call.topic = t /\ call.kind = profileCall[c].kind
        /\ call.update => call.pc = "wait" /\ profileCall[c].update
    <3>1. CASE paid /\ answered
      BY <3>1, <2>0 DEF ProfileCalls
    <3>2. CASE ~(paid /\ answered)
      BY <3>2, <1>r DEF Resting11
    <3> QED BY <3>1, <3>2
  <2>6. inscribed' = [inscribed EXCEPT ![t] = i] /\ Becomes11(c, call)
    BY <2>1
  <2> HIDE DEF i, call
  <2>7. /\ inscribed' \in Seq(Inscriptions) /\ DOMAIN inscribed' = DOMAIN inscribed
        /\ inscribed'[t] = i /\ \A k \in DOMAIN inscribed \ {t} : inscribed'[k] = inscribed[k]
    BY <2>0, <2>3, <2>4, <2>6, ExceptSeq
  <2>8. ProfileGoes(c, call)
    BY <2>5, <2>6, Going
  <2>9. InscribedKept
    BY <2>0, <2>4, <2>7 DEF InscribedKept
  <2>10. \A d \in ProfileCallers \ {c} : PaymentKept(d)
    BY <2>0, <2>7 DEF PaymentKept, PaysItsOwn, At, CallInscribes, Inscribes
  <2>11. CallInscribes(c)'
    BY <2>0, <2>4, <2>5, <2>7, <2>8 DEF ProfileGoes, CallInscribes, Inscribes, At
  <2>12. ProfilesTypeOK'
    BY <2>2, <2>7, <2>8 DEF ProfilesTypeOK, ProfileGoes
  <2> QED BY <2>2, <2>5, <2>8, <2>9, <2>10, <2>11, <2>12, <1>m, OneCallMoves, MemosStayInscribed, FetchKept
<1>4. ASSUME NEW c \in ProfileCallers, AwaitInscription(c) PROVE ProfilesInv'
  <2> DEFINE call == [profileCall[c] EXCEPT !.pc = IF profileCall[c].update THEN "update" ELSE "done"]
  <2>0. profileCall[c] \in ProfileCalls /\ profileCall[c].pc = "wait"
    BY <1>4 DEF ProfilesTypeOK, AwaitInscription, At
  <2>1. /\ call \in ProfileCalls /\ call.pc \in {"update", "done"}
        /\ call.topic = profileCall[c].topic /\ call.kind = profileCall[c].kind
        /\ call.update = profileCall[c].update /\ (call.pc = "update" <=> call.update)
    BY <2>0 DEF ProfileCalls
  <2>2. Becomes11(c, call) /\ Same /\ inscribed[profileCall[c].topic].status = "completed"
    BY <1>4 DEF AwaitInscription, Confirmed
  <2> HIDE DEF call
  <2>3. ProfileGoes(c, call)
    BY <2>1, <2>2, Going
  <2>4. CallInscribes(c)'
    BY <2>0, <2>1, <2>2, <2>3 DEF ProfileGoes, CallInscribes, Inscribes, Complete, At
  <2> QED BY <2>1, <2>2, <2>3, <2>4, <1>t
<1>5. ASSUME NEW c \in ProfileCallers, UpdateAccountMemo(c) PROVE ProfilesInv'
  <2> DEFINE t == profileCall[c].topic
             n == Len(memoLog)
  <2>0. profileCall[c] \in ProfileCalls /\ profileCall[c].pc \in {"update", "done"} /\ t \in Nat
        /\ profileCall[c].kind = "profile"
    BY <1>5 DEF ProfilesTypeOK, UpdateAccountMemo, At, ProfileCalls, CallInscribes
  <2>1. inscribed' = inscribed /\ memoShown' = memoShown /\ fetch11' = fetch11
    BY <1>5 DEF UpdateAccountMemo
  <2>2. CASE memoLog' = memoLog /\ Becomes11(c, Resting11)
    BY <2>1, <2>2, <1>r, <1>t, <1>u DEF Resting11
  <2>3. ASSUME NEW call \in {[profileCall[c] EXCEPT !.pc = "done"], Resting11},
               memoLog' = Append(memoLog, t), Becomes11(c, call)
        PROVE  ProfilesInv'
    <3>1. memoLog \in Seq(Int) /\ n \in Nat /\ DOMAIN memoLog = 1..n /\ memoShown \in 1..n /\ t \in Int
      BY <2>0 DEF ProfilesTypeOK
    <3>2. /\ memoLog' \in Seq(Int) /\ DOMAIN memoLog' = 1..(n+1) /\ Len(memoLog') = n + 1
          /\ memoLog'[n+1] = t /\ \A k \in 1..n : memoLog'[k] = memoLog[k]
      BY <2>3, <3>1, AppendProperties
    <3> HIDE DEF n
    <3>3. MemosKept
      BY <3>1, <3>2 DEF MemosKept
    <3>4. call \in ProfileCalls /\ call.pc # "pay"
      BY <2>0, <1>r DEF ProfileCalls, Resting11
    <3>5. ProfileGoes(c, call)
      BY <3>4, <2>3, Going
    <3>6. Complete(t) /\ Inscribes(t, "profile")
      BY <2>0 DEF CallInscribes
    <3>7. CallInscribes(c)'
      <4>1. CASE call = Resting11
        BY <4>1, <2>3, <1>u
      <4>2. CASE call = [profileCall[c] EXCEPT !.pc = "done"]
        <5>1. profileCall'[c].pc = "done" /\ profileCall'[c].topic = t /\ profileCall'[c].kind = "profile"
          BY <2>0, <4>2, <3>5 DEF ProfileGoes, ProfileCalls
        <5>2. n + 1 \in DOMAIN memoLog' /\ memoLog'[n+1] = profileCall'[c].topic
          BY <3>1, <3>2, <5>1
        <5> QED BY <5>1, <5>2, <2>1, <3>6 DEF CallInscribes, Inscribes, Complete, At
      <4> QED BY <4>1, <4>2
    <3>8. MemosInscribed'
      BY SMTT(30), <3>1, <3>2, <3>6, <2>1 DEF MemosInscribed, Complete, Inscribes
    <3>9. ProfilesTypeOK'
      BY <2>1, <3>1, <3>2, <3>5 DEF ProfilesTypeOK, ProfileGoes
    <3> QED BY <2>1, <3>3, <3>4, <3>5, <3>7, <3>8, <3>9, <1>s, OneCallMoves, FetchKept
  <2> QED BY <1>5, <2>2, <2>3 DEF UpdateAccountMemo
<1>6. ASSUME NEW c \in ProfileCallers, InscriptionFails(c) \/ AnotherInscription(c) PROVE ProfilesInv'
  <2>1. Becomes11(c, Resting11) /\ Same
    BY <1>6 DEF InscriptionFails, AnotherInscription
  <2> QED BY <2>1, <1>r, <1>t, <1>u DEF Resting11
<1>7. ASSUME NEW i \in DOMAIN inscribed, InscriptionEnds(i) \/ Served(i) PROVE ProfilesInv'
  <2>1. inscribed \in Seq(Inscriptions) /\ inscribed[i] \in Inscriptions
    BY DEF ProfilesTypeOK
  <2>2. PICK new \in Inscriptions :
          /\ inscribed' = [inscribed EXCEPT ![i] = new]
          /\ new.kind = inscribed[i].kind /\ inscribed[i].status # "started"
          /\ inscribed[i].status = "completed" => new.status = "completed"
    <3>1. CASE InscriptionEnds(i)
      <4>1. PICK status \in {"completed", "failed"} : inscribed' = [inscribed EXCEPT ![i].status = status]
        BY <3>1 DEF InscriptionEnds
      <4>2. [inscribed[i] EXCEPT !.status = status] \in Inscriptions
        BY <2>1 DEF Inscriptions
      <4>3. inscribed[i].status = "paid"
        BY <3>1 DEF InscriptionEnds
      <4>4. [inscribed[i] EXCEPT !.status = status].kind = inscribed[i].kind
        BY <2>1 DEF Inscriptions
      <4> QED BY <4>1, <4>2, <4>3, <4>4
    <3>2. CASE Served(i)
      <4>1. inscribed' = [inscribed EXCEPT ![i].served = TRUE] /\ inscribed[i].status = "completed"
        BY <3>2 DEF Served
      <4>2. [inscribed[i] EXCEPT !.served = TRUE] \in Inscriptions
        BY <2>1 DEF Inscriptions
      <4>4. [inscribed[i] EXCEPT !.served = TRUE].kind = inscribed[i].kind
            /\ [inscribed[i] EXCEPT !.served = TRUE].status = inscribed[i].status
        BY <2>1 DEF Inscriptions
      <4> QED BY <4>1, <4>2, <4>4
    <3> QED BY <3>1, <3>2, <1>7
  <2>3. memoLog' = memoLog /\ memoShown' = memoShown /\ fetch11' = fetch11 /\ profileCall' = profileCall
    BY <1>7 DEF InscriptionEnds, Served
  <2>4. /\ inscribed' \in Seq(Inscriptions) /\ DOMAIN inscribed' = DOMAIN inscribed
        /\ inscribed'[i] = new /\ \A k \in DOMAIN inscribed \ {i} : inscribed'[k] = inscribed[k]
    BY <2>1, <2>2, ExceptSeq
  <2>5. InscribedKept
    BY <2>2, <2>4 DEF InscribedKept
  <2>6. \A d \in ProfileCallers : PaymentKept(d)
    BY <2>2, <2>4 DEF PaymentKept, CallInscribes, Inscribes, At
  <2>7. ProfilesTypeOK'
    BY <2>3, <2>4 DEF ProfilesTypeOK
  <2>8. PaysItsOwn'
    BY <2>3 DEF PaysItsOwn, At
  <2> QED BY <2>3, <2>5, <2>6, <2>7, <2>8, <1>m, CallKept, MemosStayInscribed, FetchKept
<1>a. ASSUME inscribed' = inscribed, profileCall' = profileCall, MemosKept
      PROVE  (\A d \in ProfileCallers : CallInscribes(d)') /\ PaysItsOwn'
  <2>1. \A d \in ProfileCallers : CallInscribes(d)'
    BY <1>a, <1>s, CallKept
  <2> QED BY <1>a, <2>1 DEF PaysItsOwn, At
<1>8. ASSUME OthersSetMemo PROVE ProfilesInv'
  <2>1. PICK m \in {0, -1} : memoLog' = Append(memoLog, m)
    BY <1>8 DEF OthersSetMemo
  <2>2. inscribed' = inscribed /\ memoShown' = memoShown /\ fetch11' = fetch11 /\ profileCall' = profileCall
    BY <1>8 DEF OthersSetMemo
  <2> DEFINE n == Len(memoLog)
  <2>3. memoLog \in Seq(Int) /\ n \in Nat /\ DOMAIN memoLog = 1..n /\ memoShown \in 1..n
    BY DEF ProfilesTypeOK
  <2> HIDE DEF n
  <2>4. /\ memoLog' \in Seq(Int) /\ DOMAIN memoLog' = 1..(n+1) /\ Len(memoLog') = n + 1
        /\ memoLog'[n+1] = m /\ \A k \in 1..n : memoLog'[k] = memoLog[k]
    BY <2>1, <2>3, AppendProperties DEF n
  <2>5. MemosKept
    BY <2>3, <2>4 DEF MemosKept
  <2>6. MemosInscribed'
    BY <2>2, <2>3, <2>4 DEF MemosInscribed, Complete, Inscribes
  <2>7. ProfilesTypeOK'
    BY <2>2, <2>3, <2>4 DEF ProfilesTypeOK
  <2> QED BY <2>2, <2>5, <2>6, <2>7, <1>a, <1>s, FetchKept
<1>b. ASSUME inscribed' = inscribed, profileCall' = profileCall, memoLog' = memoLog,
             ProfilesTypeOK', FetchesInscribed'
      PROVE  ProfilesInv'
  BY <1>b, <1>a, <1>m, <1>s, MemosStayInscribed
<1>9. ASSUME MemoArrives PROVE ProfilesInv'
  <2>1. ProfilesTypeOK'
    BY <1>9 DEF ProfilesTypeOK, MemoArrives
  <2> QED BY <1>9, <2>1, <1>b, <1>s, FetchKept DEF MemoArrives
<1>10. ASSUME FetchMemo PROVE ProfilesInv'
  <2> DEFINE memo == memoLog[memoShown]
  <2>1. memo \in Int /\ (memo \notin {0, -1} => Complete(memo))
    BY DEF ProfilesTypeOK, MemosInscribed
  <2>2. fetch11' = [pc |-> IF memo = 0 THEN "none" ELSE "content", topic |-> memo]
        /\ inscribed' = inscribed /\ memoLog' = memoLog /\ memoShown' = memoShown /\ profileCall' = profileCall
    BY <1>10 DEF FetchMemo
  <2> HIDE DEF memo
  <2>3. ProfilesTypeOK' /\ FetchesInscribed'
    BY <2>1, <2>2 DEF ProfilesTypeOK, FetchesInscribed, Complete
  <2> QED BY <2>2, <2>3, <1>b
<1>11. ASSUME FetchContent \/ FetchFails \/ FetchAgain PROVE ProfilesInv'
  <2>0. inscribed' = inscribed /\ memoLog' = memoLog /\ memoShown' = memoShown /\ profileCall' = profileCall
    BY <1>11 DEF FetchContent, FetchFails, FetchAgain
  <2>1. /\ fetch11' \in [pc : {"idle", "content", "none", "fetched"}, topic : Int]
        /\ fetch11'.pc \in {"content", "fetched"} => fetch11.pc = "content" /\ fetch11'.topic = fetch11.topic
    BY <1>11 DEF FetchContent, FetchFails, FetchAgain, ProfilesTypeOK, Unfetched
  <2>2. ProfilesTypeOK' /\ FetchesInscribed'
    BY <2>0, <2>1 DEF ProfilesTypeOK, FetchesInscribed, Complete
  <2> QED BY <2>0, <2>2, <1>b
<1>12. ASSUME UNCHANGED profileVars PROVE ProfilesInv'
  <2>1. ProfilesTypeOK'
    BY <1>12 DEF ProfilesTypeOK, profileVars
  <2> QED BY <1>12, <2>1, <1>b, <1>s, FetchKept DEF profileVars
<1> QED BY <1>1, <1>2, <1>3, <1>4, <1>5, <1>6, <1>7, <1>8, <1>9, <1>10, <1>11, <1>12 DEF ProfilesNext

(***************************************************************************)
(* The account never names a profile that is not inscribed, for any number *)
(* of programs, inscriptions and memos, and whatever fails on the way.     *)
(***************************************************************************)
THEOREM MemoNamesProfiles == ProfilesSpec => []ProfileIsInscribed
<1>1. ProfilesInv => ProfileIsInscribed
  <2> SUFFICES ASSUME ProfilesInv PROVE ProfileIsInscribed
    OBVIOUS
  <2>1. ToSet(memoLog) = {memoLog[n] : n \in DOMAIN memoLog}
    BY DEF ToSet
  <2> QED BY <2>1 DEF ProfilesInv, ProfileIsInscribed, MemosInscribed, FetchesInscribed, CallInscribes,
       Complete, Inscribes, ProfilesTypeOK
<1> QED BY <1>1, ProfilesInitInv, ProfilesStep, PTL DEF ProfilesSpec

-----------------------------------------------------------------------------
(***************************************************************************)
(* HCS-18 floras: what is announced when every member accepted.            *)
(***************************************************************************)
FloraTopics == [TopicTypes -> Nat]
FormingSteps == {"idle", "account", "announce", "complete", "done"} \cup TopicTypes

Extras == {"none", "accept", "reject"} \cup [flora : Nat, topics : FloraTopics]
Messages18 == [op : {"announce", "propose", "respond", "withdraw", "complete", "noise"},
               by : FloraMembers, ref : Nat, extra : Extras]

FlorasTypeOK ==
  /\ discovery \in Seq(Messages18)
  /\ floraTopics \in Seq([flora : Nat, type : TopicTypes])
  /\ floras \in Nat
  /\ forming \in [step : FormingSteps, proposal : Nat, flora : Nat, topics : FloraTopics]

Carries(topic, flora, type) ==
  topic \in DOMAIN floraTopics /\ floraTopics[topic] = [flora |-> flora, type |-> type]
WholeFlora(flora, topics) == \A type \in TopicTypes : Carries(topics[type], flora, type)

Announcement(flora, topics) == [on |-> topics["communication"], flora |-> flora, topics |-> topics]
AnnouncedOn(topic) == {a \in announced : a.on = topic}

AcceptedByAll(i, before) == \A m \in Others : Accepted(m, i, before)

Created(step) ==
  IF step \in {"announce", "complete", "done"} THEN TopicTypes
  ELSE IF step = "state" THEN {"communication", "transaction"}
  ELSE IF step = "transaction" THEN {"communication"} ELSE {}

FormingInv ==
  /\ forming.step # "idle" => AcceptedByAll(forming.proposal, Len(discovery) + 1)
  /\ \A type \in Created(forming.step) : Carries(forming.topics[type], forming.flora, type)
  /\ forming.step \in {"transaction", "state", "announce"} =>
       AnnouncedOn(forming.topics["communication"]) = {}
  /\ forming.step \in {"complete", "done"} =>
       AnnouncedOn(forming.topics["communication"]) = {Announcement(forming.flora, forming.topics)}

AnnouncedExist == \A a \in announced : a.on \in DOMAIN floraTopics

Completes(k) ==
  LET made == discovery[k].extra IN
  /\ AcceptedByAll(discovery[k].ref, k)
  /\ WholeFlora(made.flora, made.topics)
  /\ AnnouncedOn(made.topics["communication"]) = {Announcement(made.flora, made.topics)}

FlorasInv ==
  /\ FlorasTypeOK
  /\ FormingInv
  /\ AnnouncedExist
  /\ \A k \in DOMAIN discovery : discovery[k].op = "complete" => Completes(k)

LEMMA MaxIsMember ==
  ASSUME NEW n \in Nat, NEW S \in SUBSET (1..n), S # {}
  PROVE  Max(S) \in S
<1>1. S \in SUBSET (0..n)
  OBVIOUS
<1>2. \E m \in S : \A k \in S : k <= m
  BY <1>1, GreatestElement
<1>3. PICK m \in S : \A k \in S : m >= k
  BY <1>2
<1> QED BY <1>3 DEF Max

(***************************************************************************)
(* A proposal that is ready was accepted by every member but its proposer: *)
(* only their responses are tracked, and there is one fewer of them.       *)
(***************************************************************************)
LEMMA ReadyMeansAccepted ==
  ASSUME FlorasTypeOK, NEW i \in Proposals, IsProposalReady(Tracked(i))
  PROVE  AcceptedByAll(i, Len(discovery) + 1)
<1> DEFINE R == Tracked(i)
           S == {m \in DOMAIN R : R[m] = "accept"}
<1>1. IsFiniteSet(FloraMembers) /\ Proposer \in FloraMembers
  BY FlorasAssumption
<1>2. /\ IsFiniteSet(Others) /\ Cardinality(Others) = Cardinality(FloraMembers) - 1
      /\ Cardinality(FloraMembers) \in Nat
  BY <1>1, FS_RemoveElement, FS_CardinalityType DEF Others
<1>3. DOMAIN R = {n \in Others : ResponsesTo(i, n) # {}}
      /\ \A m \in DOMAIN R : R[m] = discovery[Max(ResponsesTo(i, m))].extra
  BY DEF Tracked
<1> HIDE DEF R
<1>4. S \subseteq Others
  BY <1>3
<1>5. Cardinality(S) >= Cardinality(FloraMembers) - 1
  BY DEF IsProposalReady, R
<1>6. S = Others
  <2>1. IsFiniteSet(S) /\ Cardinality(S) \in Nat /\ Cardinality(S) <= Cardinality(Others)
        /\ (Cardinality(S) = Cardinality(Others) => S = Others)
    BY <1>2, <1>4, FS_Subset, FS_CardinalityType
  <2> HIDE DEF S
  <2> QED BY <2>1, <1>2, <1>5
<1>7. ASSUME NEW m \in Others PROVE Accepted(m, i, Len(discovery) + 1)
  <2> DEFINE K == ResponsesTo(i, m)
  <2>1. m \in DOMAIN R /\ R[m] = "accept"
    BY <1>6
  <2>2. K # {} /\ discovery[Max(K)].extra = "accept"
    BY <2>1, <1>3
  <2>3. Len(discovery) \in Nat /\ DOMAIN discovery = 1..Len(discovery)
    BY DEF FlorasTypeOK
  <2>4. K \subseteq 1..Len(discovery)
    BY <2>3 DEF ResponsesTo, GetDiscoveryMessages
  <2>5. Max(K) \in K
    BY <2>2, <2>3, <2>4, MaxIsMember
  <2>6. discovery[Max(K)].op = "respond" /\ discovery[Max(K)].ref = i /\ discovery[Max(K)].by = m
    BY <2>5 DEF ResponsesTo
  <2> HIDE DEF K
  <2>7. Max(K) \in 1..((Len(discovery) + 1) - 1)
    <3>1. Max(K) \in 1..Len(discovery)
      BY <2>4, <2>5
    <3>2. (Len(discovery) + 1) - 1 = Len(discovery)
      BY <2>3
    <3> QED BY <3>1, <3>2
  <2> QED BY <2>2, <2>6, <2>7 DEF Accepted
<1> QED BY <1>7 DEF AcceptedByAll

(***************************************************************************)
(* The discovery topic grows, and what was accepted stays accepted.        *)
(***************************************************************************)
TopicGrows ==
  /\ Len(discovery') \in Nat /\ Len(discovery') >= Len(discovery)
  /\ DOMAIN discovery' = 1..Len(discovery')
  /\ \A k \in 1..Len(discovery) : discovery'[k] = discovery[k]
Posted(message) ==
  /\ discovery' \in Seq(Messages18) /\ TopicGrows
  /\ Len(discovery') = Len(discovery) + 1 /\ discovery'[Len(discovery) + 1] = message

LEMMA Posting ==
  ASSUME FlorasTypeOK, NEW message \in Messages18, SubmitMessage(message)
  PROVE  Posted(message)
BY AppendProperties DEF FlorasTypeOK, SubmitMessage, Posted, TopicGrows

LEMMA TopicStays ==
  ASSUME FlorasTypeOK, discovery' = discovery
  PROVE  TopicGrows
BY DEF FlorasTypeOK, TopicGrows

LEMMA AcceptedStays ==
  ASSUME FlorasTypeOK, TopicGrows, NEW i, NEW n \in Nat, n <= Len(discovery) + 1,
         AcceptedByAll(i, n), NEW p \in Nat, n <= p
  PROVE  AcceptedByAll(i, p)'
<1> SUFFICES ASSUME NEW m \in Others PROVE Accepted(m, i, p)'
  BY DEF AcceptedByAll
<1>1. Len(discovery) \in Nat
  BY DEF FlorasTypeOK
<1>2. PICK k \in 1..(n - 1) : /\ discovery[k].op = "respond" /\ discovery[k].by = m
                              /\ discovery[k].ref = i /\ discovery[k].extra = "accept"
  BY DEF AcceptedByAll, Accepted
<1>3. k \in 1..Len(discovery) /\ k \in 1..(p - 1)
  BY <1>1
<1> QED BY <1>2, <1>3 DEF Accepted, TopicGrows

(***************************************************************************)
(* What was completed stays whole: its topics exist, and nobody announces  *)
(* on its communication topic again.                                       *)
(***************************************************************************)
TopicsStay == \A t \in DOMAIN floraTopics : t \in DOMAIN floraTopics' /\ floraTopics'[t] = floraTopics[t]
AnnouncedStays(topic) == AnnouncedOn(topic)' = AnnouncedOn(topic)

LEMMA CompletedStays ==
  ASSUME FlorasInv, TopicGrows, TopicsStay,
         NEW k \in DOMAIN discovery, discovery[k].op = "complete",
         \A t : AnnouncedOn(t) # {} => AnnouncedStays(t)
  PROVE  Completes(k)'
<1>1. Completes(k) /\ k \in 1..Len(discovery) /\ Len(discovery) \in Nat
  BY DEF FlorasInv, FlorasTypeOK
<1>2. discovery'[k] = discovery[k]
  BY <1>1 DEF TopicGrows
<1> DEFINE made == discovery[k].extra
<1>3. AcceptedByAll(discovery[k].ref, k)'
  <2>1. PICK i : i = discovery[k].ref
    OBVIOUS
  <2>2. AcceptedByAll(i, k)
    BY <1>1, <2>1 DEF Completes
  <2>3. AcceptedByAll(i, k)'
    BY <1>1, <2>2, AcceptedStays DEF FlorasInv
  <2>4. discovery'[k].ref = i
    BY <1>2, <2>1
  <2> QED BY <2>3, <2>4
<1>4. WholeFlora(made.flora, made.topics) /\ AnnouncedOn(made.topics["communication"]) = {Announcement(made.flora, made.topics)}
  BY <1>1 DEF Completes
<1>5. PICK m : m = made
  OBVIOUS
<1>6. WholeFlora(m.flora, m.topics)'
  BY <1>4, <1>5 DEF WholeFlora, Carries, TopicsStay
<1>7. AnnouncedOn(m.topics["communication"])' = {Announcement(m.flora, m.topics)}
  BY <1>4, <1>5 DEF AnnouncedStays
<1>8. discovery'[k].extra = m
  BY <1>2, <1>5
<1> QED BY <1>3, <1>6, <1>7, <1>8 DEF Completes

(* What a step must show, when the completed floras stay whole. *)
LEMMA WholeStays ==
  ASSUME FlorasInv, FlorasTypeOK', FormingInv', AnnouncedExist', TopicGrows, TopicsStay,
         \A t : AnnouncedOn(t) # {} => AnnouncedStays(t),
         \A k \in DOMAIN discovery' \ DOMAIN discovery :
           discovery'[k].op = "complete" => Completes(k)'
  PROVE  FlorasInv'
<1>1. ASSUME NEW k \in DOMAIN discovery, discovery'[k].op = "complete" PROVE Completes(k)'
  <2>1. discovery[k].op = "complete"
    <3>1. DOMAIN discovery = 1..Len(discovery)
      BY DEF FlorasInv, FlorasTypeOK
    <3> QED BY <1>1, <3>1 DEF TopicGrows
  <2> QED BY <2>1, CompletedStays
<1> QED BY <1>1 DEF FlorasInv

LEMMA FlorasInitInv == FlorasInit => FlorasInv
<1> SUFFICES ASSUME FlorasInit PROVE FlorasInv
  OBVIOUS
<1>1. FlorasTypeOK
  BY DEF FlorasInit, FlorasTypeOK, FormingSteps, FloraTopics, Resting, NoTopics
<1>2. FormingInv
  BY DEF FlorasInit, FormingInv, Resting, Created
<1>3. DOMAIN discovery = {} /\ announced = {}
  BY DEF FlorasInit
<1> QED BY <1>1, <1>2, <1>3 DEF FlorasInv, AnnouncedExist

LEMMA FlorasStep == FlorasInv /\ [FlorasNext]_floraVars => FlorasInv'
<1> SUFFICES ASSUME FlorasInv, [FlorasNext]_floraVars PROVE FlorasInv'
  OBVIOUS
<1> USE DEF FlorasInv
<1>0. Len(discovery) \in Nat /\ DOMAIN discovery = 1..Len(discovery)
  BY DEF FlorasTypeOK
<1>a. announced' = announced => (\A t : AnnouncedStays(t)) 
  BY DEF AnnouncedStays, AnnouncedOn
<1>t. floraTopics' = floraTopics => TopicsStay
  BY DEF TopicsStay
<1>e. announced' = announced /\ TopicsStay => AnnouncedExist'
  BY DEF AnnouncedExist, TopicsStay
<1>f. ASSUME forming' = forming, announced' = announced, TopicsStay, TopicGrows PROVE FormingInv'
  <2>1. ASSUME forming.step # "idle" PROVE AcceptedByAll(forming.proposal, Len(discovery) + 1)'
    <3>1. PICK i : i = forming.proposal
      OBVIOUS
    <3>2. PICK p : p = Len(discovery')
      OBVIOUS
    <3>3. AcceptedByAll(i, Len(discovery) + 1) /\ p \in Nat /\ p >= Len(discovery)
      BY <1>f, <2>1, <3>1, <3>2 DEF FormingInv, TopicGrows
    <3>4. AcceptedByAll(i, p + 1)'
      <4>1. Len(discovery) + 1 <= p + 1 /\ p + 1 \in Nat /\ Len(discovery) + 1 \in Nat
        BY <1>0, <3>3
      <4> QED BY <1>0, <1>f, <3>3, <4>1, AcceptedStays
    <3> QED BY <3>1, <3>2, <3>4, <1>f
  <2>2. \A type \in Created(forming.step) : Carries(forming.topics[type], forming.flora, type)'
    BY <1>f DEF FormingInv, Carries, TopicsStay
  <2>3. \A t : AnnouncedOn(t)' = AnnouncedOn(t)
    BY <1>f, <1>a DEF AnnouncedStays
  <2> QED BY <1>f, <2>1, <2>2, <2>3 DEF FormingInv, Created, Announcement
<1>r. ASSUME forming' = Resting PROVE FormingInv'
  BY <1>r DEF FormingInv, Resting, Created
<1>1. ASSUME NEW message \in Messages18, message.op # "complete", SubmitMessage(message),
             UNCHANGED <<floraTopics, floras, announced, forming>>
      PROVE  FlorasInv'
  <2>1. Posted(message)
    BY <1>1, Posting
  <2>2. FlorasTypeOK'
    BY <1>1, <2>1 DEF FlorasTypeOK, Posted
  <2>3. FormingInv' /\ AnnouncedExist' /\ TopicGrows /\ TopicsStay
    BY <1>1, <2>1, <1>f, <1>t, <1>e DEF Posted
  <2>4. \A k \in DOMAIN discovery' \ DOMAIN discovery : discovery'[k] = message
    BY <1>0, <2>1 DEF Posted, TopicGrows
  <2> QED BY <1>1, <1>a, <2>2, <2>3, <2>4, WholeStays
<1>2. ASSUME Talk PROVE FlorasInv'
  <2>1. PICK m \in Others : Announce(m) \/ Withdraw(m) \/ \E d \in {"accept", "reject"} : Respond(m, d)
    BY <1>2 DEF Talk
  <2>2. PICK op \in {"announce", "withdraw", "respond"}, ref \in Nat, extra \in {"none", "accept", "reject"} :
          SubmitMessage(Note(op, m, ref, extra))
    <3>1. CASE Announce(m)
      BY <3>1 DEF Announce
    <3>2. CASE Withdraw(m)
      BY <3>2, <1>0 DEF Withdraw
    <3>3. ASSUME NEW d \in {"accept", "reject"}, Respond(m, d) PROVE \E i \in Nat : SubmitMessage(Note("respond", m, i, d))
      BY <3>3, <1>0 DEF Respond, Proposals
    <3> QED BY <2>1, <3>1, <3>2, <3>3
  <2>3. Note(op, m, ref, extra) \in Messages18 /\ Note(op, m, ref, extra).op # "complete"
    BY DEF Note, Messages18, Extras, Others
  <2> QED BY <1>2, <2>2, <2>3, <1>1 DEF Talk
<1>3. ASSUME Interfere \/ Propose PROVE FlorasInv'
  <2>1. PICK op \in {"noise", "propose"} : SubmitMessage(Note(op, Proposer, 0, "none"))
    BY <1>3 DEF Interfere, Noise, Propose
  <2>2. Note(op, Proposer, 0, "none") \in Messages18 /\ Note(op, Proposer, 0, "none").op # "complete"
    BY FlorasAssumption DEF Note, Messages18, Extras
  <2> QED BY <1>3, <2>1, <2>2, <1>1 DEF Interfere, Propose
<1>q. ASSUME discovery' = discovery, FlorasTypeOK', FormingInv', AnnouncedExist', TopicsStay,
             \A t : AnnouncedOn(t) # {} => AnnouncedStays(t)
      PROVE  FlorasInv'
  BY <1>q, TopicStays, WholeStays
<1>4. ASSUME BeginForming PROVE FlorasInv'
  <2>1. PICK i \in Proposals : IsProposalReady(Tracked(i)) /\ forming' = [forming EXCEPT !.step = "account", !.proposal = i]
    BY <1>4 DEF BeginForming
  <2>2. UNCHANGED <<discovery, floraTopics, floras, announced>>
    BY <1>4 DEF BeginForming
  <2>3. i \in Nat
    BY <1>0 DEF Proposals
  <2>4. forming' \in [step : FormingSteps, proposal : Nat, flora : Nat, topics : FloraTopics]
        /\ forming'.step = "account" /\ forming'.proposal = i
    BY <2>1, <2>3 DEF FlorasTypeOK, FormingSteps
  <2>5. FlorasTypeOK'
    BY <2>2, <2>4 DEF FlorasTypeOK
  <2>6. AcceptedByAll(i, Len(discovery) + 1)
    BY <2>1, ReadyMeansAccepted
  <2>7. FormingInv'
    BY <2>2, <2>4, <2>6 DEF FormingInv, Created, AcceptedByAll, Accepted
  <2> QED BY <2>2, <2>5, <2>7, <1>a, <1>e, <1>q, <1>t
<1>5. ASSUME FormingFails PROVE FlorasInv'
  <2>1. UNCHANGED <<discovery, floraTopics, floras, announced>> /\ forming' = Resting
    BY <1>5 DEF FormingFails
  <2>2. FlorasTypeOK'
    BY <2>1 DEF FlorasTypeOK, FormingSteps, FloraTopics, Resting, NoTopics
  <2> QED BY <2>1, <2>2, <1>a, <1>e, <1>q, <1>r, <1>t
<1>6. ASSUME CreateFloraAccount PROVE FlorasInv'
  <2>1. /\ forming.step = "account" /\ floras' = floras + 1
        /\ forming' \in {[forming EXCEPT !.step = "communication", !.flora = floras'], Resting}
        /\ UNCHANGED <<discovery, floraTopics, announced>>
    BY <1>6 DEF CreateFloraAccount
  <2>2. floras' \in Nat
    BY <2>1 DEF FlorasTypeOK
  <2>3. CASE forming' = Resting
    <3>1. FlorasTypeOK'
      BY <2>1, <2>2, <2>3 DEF FlorasTypeOK, FormingSteps, FloraTopics, Resting, NoTopics
    <3> QED BY <2>1, <2>3, <3>1, <1>a, <1>e, <1>q, <1>r, <1>t
  <2>4. CASE forming' = [forming EXCEPT !.step = "communication", !.flora = floras']
    <3>1. forming' \in [step : FormingSteps, proposal : Nat, flora : Nat, topics : FloraTopics]
          /\ forming'.step = "communication" /\ forming'.proposal = forming.proposal
      BY <2>2, <2>4 DEF FlorasTypeOK, FormingSteps, TopicTypes
    <3>2. FlorasTypeOK'
      BY <2>1, <2>2, <3>1 DEF FlorasTypeOK
    <3>3. AcceptedByAll(forming.proposal, Len(discovery) + 1)
      BY <2>1 DEF FormingInv
    <3>4. FormingInv'
      BY <2>1, <3>1, <3>3 DEF FormingInv, Created, AcceptedByAll, Accepted
    <3> QED BY <2>1, <3>2, <3>4, <1>a, <1>e, <1>q, <1>t
  <2> QED BY <2>1, <2>3, <2>4
<1>7. ASSUME CreateFloraTopic PROVE FlorasInv'
  <2> DEFINE n == Len(floraTopics)
             step == forming.step
             new == [flora |-> forming.flora, type |-> step]
  <2>1. /\ step \in TopicTypes /\ floraTopics' = Append(floraTopics, new)
        /\ forming' \in {[forming EXCEPT !.topics[step] = Len(floraTopics'), !.step = After(@)], Resting}
        /\ UNCHANGED <<discovery, floras, announced>>
    BY <1>7 DEF CreateFloraTopic, MemoType
  <2>2. new \in [flora : Nat, type : TopicTypes] /\ n \in Nat /\ DOMAIN floraTopics = 1..n
    BY <2>1 DEF FlorasTypeOK
  <2> HIDE DEF n, new
  <2>3. /\ floraTopics' \in Seq([flora : Nat, type : TopicTypes]) /\ Len(floraTopics') = n + 1
        /\ DOMAIN floraTopics' = 1..(n + 1) /\ floraTopics'[n + 1] = new
        /\ \A k \in 1..n : floraTopics'[k] = floraTopics[k]
    BY <2>1, <2>2, AppendProperties DEF n, FlorasTypeOK
  <2>4. TopicsStay
    BY <2>2, <2>3 DEF TopicsStay
  <2>5. CASE forming' = Resting
    <3>1. FlorasTypeOK'
      BY <2>1, <2>3, <2>5 DEF FlorasTypeOK, FormingSteps, FloraTopics, Resting, NoTopics
    <3> QED BY <2>1, <2>4, <2>5, <3>1, <1>a, <1>e, <1>q, <1>r
  <2>6. CASE forming' = [forming EXCEPT !.topics[step] = Len(floraTopics'), !.step = After(@)]
    <3>1. After(step) \in FormingSteps \ {"idle"} /\ n + 1 \in Nat
      BY <2>1, <2>2 DEF After, TopicTypes, FormingSteps
    <3>2. forming.topics \in FloraTopics
      BY DEF FlorasTypeOK
    <3>3. /\ forming' \in [step : FormingSteps, proposal : Nat, flora : Nat, topics : FloraTopics]
          /\ forming'.step = After(step) /\ forming'.proposal = forming.proposal
          /\ forming'.flora = forming.flora
          /\ forming'.topics = [forming.topics EXCEPT ![step] = n + 1]
      BY <2>1, <2>3, <2>6, <3>1, <3>2 DEF FlorasTypeOK, FloraTopics
    <3>4. FlorasTypeOK'
      BY <2>1, <2>3, <3>3 DEF FlorasTypeOK
    <3>5. AcceptedByAll(forming.proposal, Len(discovery) + 1)'
      <4>1. AcceptedByAll(forming.proposal, Len(discovery) + 1)
        BY <2>1 DEF FormingInv, TopicTypes
      <4> QED BY <2>1, <3>3, <4>1 DEF AcceptedByAll, Accepted
    <3>6. Created(After(step)) = Created(step) \cup {step}
      BY <2>1 DEF Created, After, TopicTypes
    <3>7. ASSUME NEW type \in Created(step) \cup {step} PROVE Carries(forming.topics[type], forming.flora, type)'
      <4>1. CASE type = step
        <5>1. forming'.topics[type] = n + 1 /\ forming'.flora = forming.flora
          BY <2>1, <3>2, <3>3, <4>1 DEF FloraTopics
        <5>2. n + 1 \in DOMAIN floraTopics' /\ floraTopics'[n + 1] = [flora |-> forming.flora, type |-> type]
          BY <2>2, <2>3, <4>1 DEF new
        <5> QED BY <5>1, <5>2 DEF Carries
      <4>2. CASE type # step
        <5>0. type \in TopicTypes
          BY <3>7, <2>1 DEF Created, TopicTypes
        <5>1. forming'.topics[type] = forming.topics[type] /\ forming'.flora = forming.flora
          BY <2>1, <3>2, <3>3, <4>2, <5>0 DEF FloraTopics
        <5>2. Carries(forming.topics[type], forming.flora, type)
          BY <3>7, <4>2 DEF FormingInv
        <5> QED BY <5>1, <5>2, <2>4 DEF Carries, TopicsStay
      <4> QED BY <4>1, <4>2
    <3>8. AnnouncedOn(forming.topics["communication"])' = {}
      <4>1. CASE step = "communication"
        <5>1. forming'.topics["communication"] = n + 1
          BY <3>2, <3>3, <4>1 DEF FloraTopics, TopicTypes
        <5>2. n + 1 \notin DOMAIN floraTopics
          BY <2>2
        <5> QED BY <5>1, <5>2, <2>1 DEF AnnouncedOn, AnnouncedExist
      <4>2. CASE step # "communication"
        <5>1. forming'.topics["communication"] = forming.topics["communication"]
          BY <3>2, <3>3, <4>2 DEF FloraTopics, TopicTypes
        <5>2. AnnouncedOn(forming.topics["communication"]) = {}
          BY <2>1, <4>2 DEF FormingInv, TopicTypes
        <5> QED BY <5>1, <5>2, <2>1 DEF AnnouncedOn
      <4> QED BY <4>1, <4>2
    <3>9. After(step) \notin {"idle", "complete", "done"}
      BY <2>1 DEF After, TopicTypes
    <3>10. FormingInv'
      BY <3>3, <3>5, <3>6, <3>7, <3>8, <3>9 DEF FormingInv
    <3> QED BY <2>1, <2>4, <3>4, <3>10, <1>a, <1>e, <1>q
  <2> QED BY <2>1, <2>5, <2>6
<1>8. ASSUME SendFloraCreated PROVE FlorasInv'
  <2> DEFINE comm == forming.topics["communication"]
  <2>1. /\ forming.step = "announce"
        /\ announced' = announced \cup {Announcement(forming.flora, forming.topics)}
        /\ forming' \in {[forming EXCEPT !.step = "complete"], Resting}
        /\ UNCHANGED <<discovery, floraTopics, floras>>
    BY <1>8 DEF SendFloraCreated, Announcement
  <2>2. Announcement(forming.flora, forming.topics).on = comm
    BY DEF Announcement
  <2>3. AnnouncedOn(comm) = {} /\ comm \in DOMAIN floraTopics
    BY <2>1 DEF FormingInv, Created, Carries, TopicTypes
  <2>4. AnnouncedExist'
    BY <2>1, <2>2, <2>3 DEF AnnouncedExist
  <2>5. ASSUME NEW t, AnnouncedOn(t) # {} PROVE AnnouncedStays(t)
    <3>1. t # comm
      BY <2>3, <2>5
    <3> QED BY <2>1, <2>2, <3>1 DEF AnnouncedStays, AnnouncedOn
  <2>6. CASE forming' = Resting
    <3>1. FlorasTypeOK'
      BY <2>1, <2>6 DEF FlorasTypeOK, FormingSteps, FloraTopics, Resting, NoTopics
    <3> QED BY <2>1, <2>4, <2>5, <2>6, <3>1, <1>q, <1>r, <1>t
  <2>7. CASE forming' = [forming EXCEPT !.step = "complete"]
    <3>1. /\ forming' \in [step : FormingSteps, proposal : Nat, flora : Nat, topics : FloraTopics]
          /\ forming'.step = "complete" /\ forming'.proposal = forming.proposal
          /\ forming'.flora = forming.flora /\ forming'.topics = forming.topics
      BY <2>7 DEF FlorasTypeOK, FormingSteps
    <3>2. FlorasTypeOK'
      BY <2>1, <3>1 DEF FlorasTypeOK
    <3>3. AcceptedByAll(forming.proposal, Len(discovery) + 1)'
      <4>1. AcceptedByAll(forming.proposal, Len(discovery) + 1)
        BY <2>1 DEF FormingInv
      <4> QED BY <2>1, <3>1, <4>1 DEF AcceptedByAll, Accepted
    <3>4. \A type \in TopicTypes : Carries(forming.topics[type], forming.flora, type)'
      BY <2>1, <3>1 DEF FormingInv, Created, Carries
    <3>5. AnnouncedOn(forming.topics["communication"])' = {Announcement(forming.flora, forming.topics)}'
      BY <2>1, <2>2, <2>3, <3>1 DEF AnnouncedOn, Announcement
    <3>6. FormingInv'
      BY <3>1, <3>3, <3>4, <3>5 DEF FormingInv, Created
    <3> QED BY <2>1, <2>4, <2>5, <3>2, <3>6, <1>q, <1>t
  <2> QED BY <2>1, <2>6, <2>7
<1>9. ASSUME CompleteFlora PROVE FlorasInv'
  <2> DEFINE made == [flora |-> forming.flora, topics |-> forming.topics]
             message == Note("complete", Proposer, forming.proposal, made)
             n == Len(discovery)
  <2>1. /\ forming.step = "complete" /\ SubmitMessage(message)
        /\ forming' \in {[forming EXCEPT !.step = "done"], Resting}
        /\ UNCHANGED <<floraTopics, floras, announced>>
    BY <1>9 DEF CompleteFlora
  <2>2. made \in [flora : Nat, topics : FloraTopics] /\ made.flora = forming.flora /\ made.topics = forming.topics
    BY DEF FlorasTypeOK
  <2>3. message \in Messages18 /\ message.ref = forming.proposal /\ message.extra = made
    BY <2>2, FlorasAssumption DEF Note, Messages18, Extras, FlorasTypeOK
  <2> HIDE DEF message, made
  <2>4. Posted(message)
    BY <2>1, <2>3, Posting
  <2>5. TopicGrows /\ TopicsStay /\ AnnouncedExist' /\ \A t : AnnouncedStays(t)
    BY <2>1, <2>4, <1>a, <1>e, <1>t DEF Posted
  <2>6. DOMAIN discovery' = 1..(n + 1) /\ discovery'[n + 1] = message /\ Len(discovery') = n + 1
    BY <2>4 DEF Posted, TopicGrows
  <2>7. AcceptedByAll(forming.proposal, n + 1)
    BY <2>1 DEF FormingInv
  <2>8. /\ \A type \in TopicTypes : Carries(forming.topics[type], forming.flora, type)
        /\ AnnouncedOn(forming.topics["communication"]) = {Announcement(forming.flora, forming.topics)}
    BY <2>1 DEF FormingInv, Created
  <2>9. ASSUME NEW k \in DOMAIN discovery' \ DOMAIN discovery PROVE Completes(k)'
    <3>0. k = n + 1 /\ k \in Nat
      BY <1>0, <2>6
    <3>1. PICK p : p = forming.proposal
      OBVIOUS
    <3>2. PICK m : m = made
      OBVIOUS
    <3>3. AcceptedByAll(p, k)'
      <4>1. k \in Nat /\ k <= Len(discovery) + 1 /\ k <= k
        BY <3>0, <1>0
      <4>2. AcceptedByAll(p, k)
        BY <2>7, <3>0, <3>1
      <4> QED BY <4>1, <4>2, <2>5, AcceptedStays
    <3>4. WholeFlora(m.flora, m.topics)'
      BY <2>1, <2>2, <2>8, <3>2 DEF WholeFlora, Carries
    <3>5. AnnouncedOn(m.topics["communication"])' = {Announcement(m.flora, m.topics)}
      BY <2>2, <2>5, <2>8, <3>2 DEF AnnouncedStays
    <3>6. discovery'[k].ref = p /\ discovery'[k].extra = m
      BY <2>3, <2>6, <3>0, <3>1, <3>2
    <3> QED BY <3>3, <3>4, <3>5, <3>6 DEF Completes
  <2>10. CASE forming' = Resting
    <3>1. FlorasTypeOK'
      BY <2>1, <2>4, <2>10 DEF FlorasTypeOK, FormingSteps, FloraTopics, Resting, NoTopics, Posted
    <3> QED BY <2>5, <2>9, <2>10, <3>1, <1>r, WholeStays
  <2>11. CASE forming' = [forming EXCEPT !.step = "done"]
    <3>1. /\ forming' \in [step : FormingSteps, proposal : Nat, flora : Nat, topics : FloraTopics]
          /\ forming'.step = "done" /\ forming'.proposal = forming.proposal
          /\ forming'.flora = forming.flora /\ forming'.topics = forming.topics
      BY <2>11 DEF FlorasTypeOK, FormingSteps
    <3>2. FlorasTypeOK'
      BY <2>1, <2>4, <3>1 DEF FlorasTypeOK, Posted
    <3>3. AcceptedByAll(forming.proposal, Len(discovery) + 1)'
      <4>1. PICK p : p = forming.proposal
        OBVIOUS
      <4>2. PICK q : q = n + 2
        OBVIOUS
      <4>3. AcceptedByAll(p, q)'
        <5>1. n + 1 \in Nat /\ q \in Nat /\ n + 1 <= q /\ n + 1 <= Len(discovery) + 1
          BY <4>2, <1>0
        <5>2. AcceptedByAll(p, n + 1)
          BY <2>7, <4>1
        <5> QED BY <5>1, <5>2, <2>5, AcceptedStays
      <4>4. Len(discovery') + 1 = q /\ forming'.proposal = p
        BY <1>0, <2>6, <3>1, <4>1, <4>2
      <4> QED BY <4>3, <4>4
    <3>4. \A type \in TopicTypes : Carries(forming.topics[type], forming.flora, type)'
      BY <2>1, <2>8, <3>1 DEF Carries
    <3>5. AnnouncedOn(forming.topics["communication"])' = {Announcement(forming.flora, forming.topics)}'
      BY <2>5, <2>8, <3>1 DEF AnnouncedOn, AnnouncedStays, Announcement
    <3>6. FormingInv'
      BY <3>1, <3>3, <3>4, <3>5 DEF FormingInv, Created
    <3> QED BY <2>5, <2>9, <3>2, <3>6, WholeStays
  <2> QED BY <2>1, <2>10, <2>11
<1>10. ASSUME UNCHANGED floraVars PROVE FlorasInv'
  <2>1. UNCHANGED <<discovery, floraTopics, floras, announced, forming>>
    BY <1>10 DEF floraVars
  <2>2. FlorasTypeOK'
    BY <2>1 DEF FlorasTypeOK
  <2> QED BY <2>1, <2>2, <1>a, <1>e, <1>f, <1>q, <1>t, TopicStays
<1> QED BY <1>2, <1>3, <1>4, <1>5, <1>6, <1>7, <1>8, <1>9, <1>10 DEF FlorasNext

(***************************************************************************)
(* A completed proposal was accepted by every other member, and names a    *)
(* flora that is whole, for any members, any number of floras begun and    *)
(* given up, and any traffic on the discovery topic.                       *)
(***************************************************************************)
THEOREM FlorasAreWhole == FlorasSpec => []CompletedFloraIsWhole
<1>1. FlorasInv => CompletedFloraIsWhole
  BY DEF FlorasInv, Completes, CompletedFloraIsWhole, AcceptedByAll, WholeFlora, Carries, AnnouncedOn,
     Announcement
<1> QED BY <1>1, FlorasInitInv, FlorasStep, PTL DEF FlorasSpec

-----------------------------------------------------------------------------
(***************************************************************************)
(* HCS-14: what resolves was confirmed during the call.                    *)
(***************************************************************************)
Names14 == {"uaid", "ans", "aid", "did"}
Documents14 == {"none", "own", "others", "blank"}
Steps14 == {"idle", "document", "ask", "follow", "card", "base", "fallback", "done"}
Answers14 == [kind : {"none", "resolved", "unresolved", "error"},
              profile : Names14 \cup {"none"}, selected : Names14 \cup {"none"},
              did : Dids \cup {"none", "record"}]
UaidCalls == [pc : Steps14, uaid : Uaids,
              wanted : {"none", "any", "uaid", "ans", "aid", "did", "direct"}, full : BOOLEAN,
              follows : BOOLEAN, todo : SUBSET Names14, nested : Names14 \cup {"none"},
              follow : SUBSET Names14, failed : BOOLEAN, lost : BOOLEAN,
              outer : Documents14, inner : Documents14, record : 0..2,
              seen : SUBSET Zones, answer : Answers14]

(***************************************************************************)
(* The profile a call is asking: the one it follows up on, or the first of *)
(* those still to be tried.  A call is steady when nothing changed and     *)
(* nothing was lost: what it was told is then what there is.               *)
(***************************************************************************)
Asked14(r) == IF r.nested # "none" THEN r.nested ELSE First14(r.todo)
Steady(r, n) == n = 0 /\ ~r.lost

FollowingUp(r, z, n) ==
  /\ r.todo # {} /\ First14(r.todo) = "uaid" /\ r.uaid.native = "fqdn"
  /\ \E y \in r.seen : "match" \in y.uaid
  /\ r.nested # "none" => r.nested \in FollowupProfiles(r.uaid)
  /\ r.follow \subseteq FollowupProfiles(r.uaid)
  /\ ~r.follows => r.nested = "none" /\ ~r.failed /\ r.follow = {}
  /\ r.follows /\ ~r.failed => FollowupProfiles(r.uaid) \subseteq r.follow \cup {r.nested}
  /\ Steady(r, n) => \A p \in FollowupProfiles(r.uaid) \ (r.follow \cup {r.nested}) :
                       r.follows => ~ConfirmsAlone(p, r.uaid, z)

(***************************************************************************)
(* Who no longer is to be tried has been refuted, and the documents at     *)
(* hand were there at some time during the call.                           *)
(***************************************************************************)
Seen14(r, z, n) == r \in UaidCalls /\ z \in r.seen /\ (n = 0 => r.seen = {z})
Asks14(r) ==
  /\ r.answer = NoAnswer /\ r.wanted # "none"
  /\ r.todo \subseteq Candidates(r.uaid, r.wanted)
  /\ r.wanted # "any" => r.todo = Candidates(r.uaid, r.wanted)
  /\ r.wanted = "direct" => ~r.follows
  /\ r.wanted = "direct" \/ r.follows \/ r.full
Refuted(r, z, n) ==
  Steady(r, n) => \A p \in Candidates(r.uaid, r.wanted) \ r.todo : ~Confirms(p, r, z)
WasThere(document, r) ==
  document # "none" => \E y \in r.seen : y.document = document /\ DeriveDID(r.uaid) \in Dids

UnderWay(r, z, n) ==
  /\ Seen14(r, z, n) /\ Asks14(r) /\ Refuted(r, z, n)
  /\ WasThere(r.outer, r) /\ WasThere(r.inner, r)
  /\ r.nested # "none" => FollowingUp(r, z, n)

RecordFound(r) ==
  /\ Asked14(r) = "ans" /\ AnsApplies(r.uaid)
  /\ \E y \in r.seen : /\ AnsMatches(y.ans, r.uaid) # {}
                       /\ r.record = FirstUrl(AnsMatches(y.ans, r.uaid)).url

Confirmed14(r, z, n) ==
  LET a == r.answer
      confirming == {p \in Candidates(r.uaid, r.wanted) : Confirms(p, r, z)}
  IN  /\ a.kind = "resolved" => \E y \in Mixed(r.seen) : Confirms(a.profile, r, y)
      /\ a.kind \in {"resolved", "unresolved"} /\ Steady(r, n) =>
           a.profile = IF confirming = {} THEN "none" ELSE First14(confirming)
      /\ a.kind = "resolved" /\ r.wanted # "direct" /\ r.uaid.of \in {"bare", "suffixed"} =>
           a.did = r.uaid.of

ResolutionOK(r, z, n) ==
  /\ r \in UaidCalls /\ n \in Nat /\ z \in Zones
  /\ r.pc = "idle" => /\ r.nested = "none" /\ r.follow = {} /\ ~r.failed /\ ~r.lost
                      /\ r.outer = "none" /\ r.inner = "none" /\ r.answer = NoAnswer
  /\ r.pc \notin {"idle", "done"} =>
       /\ UnderWay(r, z, n)
       /\ r.pc = "fallback" => r.todo = {} /\ r.wanted = "any"
       /\ r.pc \in {"ask", "follow", "card", "base"} => r.todo # {}
       /\ r.pc = "follow" => FollowingUp(r, z, n) /\ r.nested = "none"
       /\ r.nested = "none" /\ r.pc # "follow" => ~r.failed
       /\ r.pc = "card" => RecordFound(r)
       /\ r.pc = "base" => /\ Asked14(r) = "did" /\ r.uaid.target = "did"
                           /\ BaseDID(r.uaid) # "none"
  /\ r.pc = "done" => Confirmed14(r, z, n)

ResolutionInv == ResolutionOK(resolution, zone, zoneChanges)

-----------------------------------------------------------------------------
(***************************************************************************)
(* The order in which profiles are tried.                                  *)
(***************************************************************************)
Rank14(S) == {i \in 1..4 : Profiles14[i] \in S}

LEMMA FirstAtRank ==
  ASSUME NEW S \in SUBSET Names14, S # {}
  PROVE  \E i \in Rank14(S) : First14(S) = Profiles14[i] /\ \A j \in Rank14(S) : i <= j
<1>1. DOMAIN Profiles14 = 1..4
  BY DEF Profiles14
<1>2. First14(S) = Profiles14[Min(Rank14(S))]
  BY <1>1 DEF First14, Rank14
<1>3. Rank14(S) \in SUBSET Nat
  BY DEF Rank14
<1>4. Rank14(S) # {}
  <2>1. Profiles14[1] = "uaid" /\ Profiles14[2] = "ans" /\ Profiles14[3] = "aid" /\ Profiles14[4] = "did"
    BY DEF Profiles14
  <2>2. PICK p \in S : p \in Names14
    OBVIOUS
  <2>3. \E i \in 1..4 : Profiles14[i] = p
    BY <2>1, <2>2 DEF Names14
  <2> QED BY <2>2, <2>3 DEF Rank14
<1>5. PICK m \in Rank14(S) : \A k \in Rank14(S) : m <= k
  BY <1>3, <1>4, LeastElement
<1>6. Min(Rank14(S)) \in Rank14(S) /\ \A k \in Rank14(S) : Min(Rank14(S)) <= k
  BY <1>5 DEF Min
<1> QED BY <1>2, <1>6

LEMMA FirstIsMember ==
  ASSUME NEW S \in SUBSET Names14, S # {}
  PROVE  First14(S) \in S
BY FirstAtRank DEF Rank14

LEMMA FirstOfFewer ==
  ASSUME NEW S \in SUBSET Names14, NEW T \in SUBSET S, First14(S) \in T
  PROVE  First14(T) = First14(S)
<1>1. S # {} /\ T # {} /\ T \in SUBSET Names14
  OBVIOUS
<1>2. PICK i \in Rank14(S) : First14(S) = Profiles14[i] /\ \A j \in Rank14(S) : i <= j
  BY <1>1, FirstAtRank
<1>3. PICK k \in Rank14(T) : First14(T) = Profiles14[k] /\ \A j \in Rank14(T) : k <= j
  BY <1>1, FirstAtRank
<1>4. i \in Rank14(T) /\ k \in Rank14(S)
  BY <1>2, <1>3 DEF Rank14
<1>5. i <= k /\ k <= i /\ i \in Nat /\ k \in Nat
  BY <1>2, <1>3, <1>4 DEF Rank14
<1> QED BY <1>2, <1>3, <1>5

(***************************************************************************)
(* An id made from a Hedera DID has that DID or none for its base.         *)
(***************************************************************************)
LEMMA BaseIsOwn ==
  ASSUME NEW u \in Uaids, u.of \in {"bare", "suffixed"}
  PROVE  u.target = "did" /\ (BaseDID(u) # "none" => BaseDID(u) = u.of)
<1>1. CASE \E did \in {"bare", "suffixed", "foreign"}, native \in {"fqdn", "hedera"} :
        u = CreateUAIDFromDID(did, native)
  BY <1>1 DEF CreateUAIDFromDID, BaseDID, DeriveDID, Dids
<1>2. CASE \E native, registry, uid, version : u = Aid(native, registry, uid, version)
  BY <1>2 DEF Aid
<1>3. CASE u = [CreateUAIDFromDID("bare", "hedera") EXCEPT !.src = "text", !.of = "none"]
  BY <1>3 DEF CreateUAIDFromDID
<1>4. CASE u = [CreateUAIDFromDID("bare", "hedera") EXCEPT !.src = "garbled"]
  <2>1. u.target = "did" /\ u.of = "bare" /\ u.native = "hedera" /\ u.src = "garbled"
    BY <1>4 DEF CreateUAIDFromDID
  <2> QED BY <2>1 DEF BaseDID, DeriveDID, Dids
<1> QED BY <1>1, <1>2, <1>3, <1>4 DEF Uaids

LEMMA UaidFields ==
  ASSUME NEW u \in Uaids
  PROVE  /\ u.target \in {"did", "aid"} /\ (u.target = "aid" => u.of = "none")
         /\ u.registry \in {"none", "ans", "ANS"}
         /\ DeriveDID(u) \in Dids \cup {"none"}
<1>1. CASE \E did \in {"bare", "suffixed", "foreign"}, native \in {"fqdn", "hedera"} :
        u = CreateUAIDFromDID(did, native)
  BY <1>1 DEF CreateUAIDFromDID, BaseDID, DeriveDID, Dids
<1>2. CASE \E native, registry, uid, version : u = Aid(native, registry, uid, version) /\ registry \in {"none", "ans", "ANS"}
  BY <1>2 DEF Aid, BaseDID, DeriveDID, Dids
<1>3. CASE u = [CreateUAIDFromDID("bare", "hedera") EXCEPT !.src = "text", !.of = "none"]
  <2>1. u.target = "did" /\ u.registry = "none" /\ u.native = "hedera" /\ u.src = "text" /\ u.of = "none"
    BY <1>3 DEF CreateUAIDFromDID
  <2> QED BY <2>1 DEF BaseDID, DeriveDID, Dids
<1>4. CASE u = [CreateUAIDFromDID("bare", "hedera") EXCEPT !.src = "garbled"]
  <2>1. u.target = "did" /\ u.registry = "none" /\ u.native = "hedera" /\ u.src = "garbled" /\ u.of = "bare"
    BY <1>4 DEF CreateUAIDFromDID
  <2> QED BY <2>1 DEF BaseDID, DeriveDID, Dids
<1> QED BY <1>1, <1>2, <1>3, <1>4 DEF Uaids

LEMMA FollowupsAreNamed ==
  ASSUME NEW u \in Uaids
  PROVE  /\ FollowupProfiles(u) \in SUBSET (Names14 \ {"uaid"}) /\ FollowupProfiles(u) # {}
BY UaidFields DEF FollowupProfiles, Names14

LEMMA CandidatesAreNamed ==
  ASSUME NEW u, NEW asked \in {"any", "uaid", "ans", "aid", "did", "direct"}
  PROVE  /\ Candidates(u, asked) \in SUBSET Names14
         /\ asked # "any" => \E p \in Names14 : Candidates(u, asked) = {p}
<1>1. CASE asked = "any"
  BY <1>1 DEF Candidates, Names14
<1>2. CASE asked = "direct"
  BY <1>2 DEF Candidates, Names14
<1>3. CASE asked \in {"uaid", "ans", "aid", "did"}
  BY <1>3 DEF Candidates, Names14
<1> QED BY <1>1, <1>2, <1>3

LEMMA AgentsByRank ==
  ASSUME NEW z \in Zones, z.agent # {}
  PROVE  Verified(Min(z.agent)) <=> 1 \notin z.agent
<1>1. z.agent \in {{2}, {1, 2}}
  BY DEF Zones
<1>2. CASE z.agent = {2}
  BY <1>2 DEF Min, Verified
<1>3. CASE z.agent = {1, 2}
  <2>1. Min({1, 2}) \in {1, 2} /\ Min({1, 2}) <= 1
    <3>1. 1 \in {1, 2} /\ \A y \in {1, 2} : 1 <= y
      OBVIOUS
    <3>2. Min({1, 2}) \in {1, 2} /\ \A y \in {1, 2} : Min({1, 2}) <= y
      BY <3>1 DEF Min
    <3> QED BY <3>2
  <2> QED BY <1>3, <2>1 DEF Verified
<1> QED BY <1>1, <1>2, <1>3

-----------------------------------------------------------------------------
(***************************************************************************)
(* Two records of one call that differ in where the call stands.           *)
(***************************************************************************)
SameCall14(r, s) ==
  /\ s.uaid = r.uaid /\ s.wanted = r.wanted /\ s.seen = r.seen
  /\ (s.full <=> r.full) /\ (s.follows <=> r.follows)

LEMMA SameConfirms ==
  ASSUME NEW r, NEW s, NEW z, NEW p, SameCall14(r, s)
  PROVE  Confirms(p, s, z) <=> Confirms(p, r, z)
BY DEF SameCall14, Confirms

LEMMA SameWasThere ==
  ASSUME NEW r, NEW s, NEW document, SameCall14(r, s), WasThere(document, r)
  PROVE  WasThere(document, s)
BY DEF SameCall14, WasThere

LEMMA SameRefuted ==
  ASSUME NEW r, NEW s, NEW z, NEW n, SameCall14(r, s), Refuted(r, z, n), s.todo = r.todo,
         r.lost => s.lost
  PROVE  Refuted(s, z, n)
<1> SUFFICES ASSUME Steady(s, n), NEW p \in Candidates(s.uaid, s.wanted) \ s.todo
             PROVE  ~Confirms(p, s, z)
  BY DEF Refuted
<1>1. Steady(r, n) /\ p \in Candidates(r.uaid, r.wanted) \ r.todo
  BY DEF Steady, SameCall14
<1>2. ~Confirms(p, r, z)
  BY <1>1 DEF Refuted
<1> QED BY <1>2, SameConfirms

LEMMA SameAsks ==
  ASSUME NEW r, NEW s, SameCall14(r, s), Asks14(r), s.todo = r.todo, s.answer = r.answer
  PROVE  Asks14(s)
BY DEF Asks14, SameCall14

LEMMA SameFollowing ==
  ASSUME NEW r, NEW s, NEW z, NEW n, SameCall14(r, s), FollowingUp(r, z, n), s.todo = r.todo,
         s.nested = r.nested, s.follow = r.follow, s.failed <=> r.failed, r.lost => s.lost
  PROVE  FollowingUp(s, z, n)
BY DEF FollowingUp, SameCall14, Steady

LEMMA SameUnderWay ==
  ASSUME NEW r, NEW s \in UaidCalls, NEW z, NEW n, SameCall14(r, s), UnderWay(r, z, n),
         s.todo = r.todo, s.answer = r.answer, r.lost => s.lost,
         WasThere(s.outer, s), WasThere(s.inner, s),
         s.nested # "none" => FollowingUp(s, z, n)
  PROVE  UnderWay(s, z, n)
<1>1. Seen14(s, z, n)
  BY DEF UnderWay, Seen14, SameCall14
<1>2. Asks14(s) /\ Refuted(s, z, n)
  BY SameAsks, SameRefuted DEF UnderWay
<1> QED BY <1>1, <1>2 DEF UnderWay

(***************************************************************************)
(* An answer.                                                              *)
(***************************************************************************)
LEMMA AnswersFields ==
  ASSUME NEW r \in UaidCalls, NEW a \in Answers14
  PROVE  /\ Answers(r, a) \in UaidCalls /\ Answers(r, a).pc = "done"
         /\ Answers(r, a).answer = a /\ SameCall14(r, Answers(r, a))
         /\ (Answers(r, a).lost <=> r.lost)
BY DEF Answers, UaidCalls, Steps14, SameCall14

LEMMA UnresolvedOK ==
  ASSUME NEW r, NEW z \in Zones, NEW n \in Nat, UnderWay(r, z, n), NEW a \in Answers14,
         a.kind # "resolved",
         a.kind = "unresolved" =>
           /\ a.profile = "none"
           /\ Steady(r, n) => \A p \in Candidates(r.uaid, r.wanted) : ~Confirms(p, r, z)
  PROVE  ResolutionOK(Answers(r, a), z, n)
<1> DEFINE s == Answers(r, a)
<1>1. r \in UaidCalls
  BY DEF UnderWay, Seen14
<1>2. /\ s \in UaidCalls /\ s.pc = "done" /\ s.answer = a /\ SameCall14(r, s)
      /\ (s.lost <=> r.lost)
  BY <1>1, AnswersFields
<1> HIDE DEF s
<1>3. ASSUME a.kind = "unresolved", Steady(s, n)
      PROVE  {p \in Candidates(s.uaid, s.wanted) : Confirms(p, s, z)} = {}
  <2>1. Steady(r, n) /\ Candidates(s.uaid, s.wanted) = Candidates(r.uaid, r.wanted)
    BY <1>2, <1>3 DEF Steady, SameCall14
  <2>2. ASSUME NEW p \in Candidates(s.uaid, s.wanted) PROVE ~Confirms(p, s, z)
    BY <2>1, <1>2, <1>3, SameConfirms
  <2> QED BY <2>2
<1>4. Confirmed14(s, z, n)
  BY <1>2, <1>3 DEF Confirmed14
<1>5. ResolutionOK(s, z, n)
  BY <1>2, <1>4 DEF ResolutionOK
<1> QED BY <1>5 DEF s

LEMMA SteadyMixture ==
  ASSUME NEW z \in Zones, NEW y \in Mixed({z})
  PROVE  y = z
BY DEF Mixed, Zones

LEMMA ResolvedOK ==
  ASSUME NEW r, NEW z \in Zones, NEW n \in Nat, UnderWay(r, z, n), r.todo # {},
         NEW a \in Answers14, a.kind = "resolved", a.profile = First14(r.todo),
         \E y \in Mixed(r.seen) : Confirms(a.profile, r, y),
         r.wanted # "direct" /\ r.uaid.of \in {"bare", "suffixed"} => a.did = r.uaid.of
  PROVE  ResolutionOK(Answers(r, a), z, n)
<1> DEFINE s == Answers(r, a)
           confirming == {p \in Candidates(s.uaid, s.wanted) : Confirms(p, s, z)}
<1>1. r \in UaidCalls
  BY DEF UnderWay, Seen14
<1>2. /\ s \in UaidCalls /\ s.pc = "done" /\ s.answer = a /\ SameCall14(r, s)
      /\ (s.lost <=> r.lost)
  BY <1>1, AnswersFields
<1> HIDE DEF s
<1>3. ASSUME Steady(s, n)
      PROVE  a.profile = IF confirming = {} THEN "none" ELSE First14(confirming)
  <2>1. Steady(r, n) /\ r.seen = {z} /\ Candidates(s.uaid, s.wanted) = Candidates(r.uaid, r.wanted)
    BY <1>2, <1>3 DEF Steady, SameCall14, UnderWay, Seen14
  <2>2. Confirms(a.profile, s, z)
    <3>1. PICK y \in Mixed(r.seen) : Confirms(a.profile, r, y)
      OBVIOUS
    <3>2. y = z
      BY <2>1, SteadyMixture
    <3> QED BY <3>1, <3>2, <1>2, SameConfirms
  <2>3. r.todo \subseteq Candidates(r.uaid, r.wanted) /\ r.todo \in SUBSET Names14
    BY <1>1 DEF UnderWay, Asks14, UaidCalls
  <2>4. First14(r.todo) \in r.todo
    BY <2>3, FirstIsMember
  <2>5. confirming \in SUBSET r.todo
    <3> SUFFICES ASSUME NEW p \in Candidates(r.uaid, r.wanted), p \notin r.todo
                 PROVE  ~Confirms(p, s, z)
      BY <2>1
    <3>1. ~Confirms(p, r, z)
      BY <2>1 DEF UnderWay, Refuted
    <3> QED BY <3>1, <1>2, SameConfirms
  <2>6. First14(r.todo) \in confirming
    BY <2>1, <2>2, <2>3, <2>4
  <2> HIDE DEF confirming
  <2>7. First14(confirming) = First14(r.todo)
    BY <2>3, <2>5, <2>6, FirstOfFewer
  <2> QED BY <2>6, <2>7
<1>4. \E y \in Mixed(s.seen) : Confirms(a.profile, s, y)
  BY <1>2, SameConfirms DEF SameCall14
<1>5. s.wanted = r.wanted /\ s.uaid = r.uaid
  BY <1>2 DEF SameCall14
<1>6. Confirmed14(s, z, n)
  BY <1>2, <1>3, <1>4, <1>5 DEF Confirmed14
<1>7. ResolutionOK(s, z, n)
  BY <1>2, <1>6 DEF ResolutionOK
<1> QED BY <1>7 DEF s

(***************************************************************************)
(* The profile being asked fails.                                          *)
(***************************************************************************)
LEMMA FollowupFails ==
  ASSUME NEW r, NEW z \in Zones, NEW n \in Nat, UnderWay(r, z, n), r.nested # "none",
         Steady(r, n) => ~Confirms(r.nested, r, z)
  PROVE  ResolutionOK([r EXCEPT !.nested = "none", !.failed = TRUE, !.pc = "follow"], z, n)
<1> DEFINE s == [r EXCEPT !.nested = "none", !.failed = TRUE, !.pc = "follow"]
<1>1. r \in UaidCalls /\ FollowingUp(r, z, n)
  BY DEF UnderWay, Seen14
<1>2. s \in UaidCalls /\ SameCall14(r, s) /\ s.pc = "follow" /\ s.nested = "none" /\ s.failed
  BY <1>1 DEF UaidCalls, Steps14, SameCall14
<1>3. /\ s.todo = r.todo /\ s.answer = r.answer /\ s.follow = r.follow
      /\ s.outer = r.outer /\ s.inner = r.inner
  BY <1>1 DEF UaidCalls
<1>4. s.lost <=> r.lost
  BY <1>1 DEF UaidCalls
<1> HIDE DEF s
<1>5. UnderWay(s, z, n)
  <2>1. Seen14(s, z, n)
    BY <1>2 DEF UnderWay, Seen14, SameCall14
  <2>2. Asks14(s) /\ Refuted(s, z, n)
    BY <1>2, <1>3, <1>4, SameAsks, SameRefuted DEF UnderWay
  <2>3. WasThere(s.outer, s) /\ WasThere(s.inner, s)
    BY <1>2, <1>3, SameWasThere DEF UnderWay
  <2> QED BY <2>1, <2>2, <2>3, <1>2 DEF UnderWay
<1>6. FollowingUp(s, z, n)
  <2>1. ASSUME Steady(s, n), NEW p \in FollowupProfiles(s.uaid) \ (s.follow \cup {s.nested})
        PROVE  s.follows => ~ConfirmsAlone(p, s.uaid, z)
    <3>1. Steady(r, n) /\ p \in FollowupProfiles(r.uaid) \ r.follow /\ s.uaid = r.uaid
      BY <1>2, <1>3, <1>4, <2>1 DEF Steady, SameCall14
    <3>2. CASE p = r.nested
      <4>1. p # "uaid"
        <5>1. r.uaid \in Uaids
          BY <1>1 DEF UaidCalls
        <5> QED BY <3>1, <5>1, FollowupsAreNamed
      <4> QED BY <3>1, <3>2, <4>1 DEF Confirms
    <3>3. CASE p # r.nested
      BY <1>1, <1>2, <3>1, <3>3 DEF FollowingUp, SameCall14
    <3> QED BY <3>2, <3>3
  <2>2. r.follows
    BY <1>1 DEF FollowingUp
  <2> QED BY <2>1, <2>2, <1>1, <1>2, <1>3 DEF FollowingUp, SameCall14
<1>7. s.todo # {}
  BY <1>6 DEF FollowingUp
<1>8. ResolutionOK(s, z, n)
  BY <1>2, <1>5, <1>6, <1>7 DEF ResolutionOK
<1> QED BY <1>8 DEF s

LEMMA NextIsTried ==
  ASSUME NEW r, NEW z \in Zones, NEW n \in Nat, UnderWay(r, z, n), r.nested = "none",
         r.todo # {}, r.wanted = "any",
         Steady(r, n) => ~Confirms(First14(r.todo), r, z),
         NEW rest, rest = r.todo \ {First14(r.todo)},
         NEW pc, pc = IF rest = {} THEN "fallback" ELSE "ask"
  PROVE  ResolutionOK([r EXCEPT !.todo = rest, !.failed = FALSE, !.pc = pc], z, n)
<1> DEFINE s == [r EXCEPT !.todo = rest, !.failed = FALSE, !.pc = pc]
<1>1. r \in UaidCalls
  BY DEF UnderWay, Seen14
<1>2. rest \in SUBSET Names14 /\ pc \in {"fallback", "ask"}
  BY <1>1 DEF UaidCalls
<1>3. s \in UaidCalls /\ SameCall14(r, s) /\ s.pc = pc /\ s.nested = "none" /\ ~s.failed
  BY <1>1, <1>2 DEF UaidCalls, Steps14, SameCall14
<1>4. /\ s.todo = rest /\ s.answer = r.answer /\ s.follow = r.follow
      /\ s.outer = r.outer /\ s.inner = r.inner /\ (s.lost <=> r.lost)
  <2>1. s.lost <=> r.lost
    BY <1>1 DEF UaidCalls
  <2>2. /\ s.todo = rest /\ s.answer = r.answer /\ s.follow = r.follow
        /\ s.outer = r.outer /\ s.inner = r.inner
    BY <1>1 DEF UaidCalls
  <2> QED BY <2>1, <2>2
<1> HIDE DEF s
<1>5. Seen14(s, z, n)
  BY <1>3 DEF UnderWay, Seen14, SameCall14
<1>6. Asks14(s)
  BY <1>3, <1>4 DEF UnderWay, Asks14, SameCall14
<1>7. Refuted(s, z, n)
  <2> SUFFICES ASSUME Steady(s, n), NEW p \in Candidates(s.uaid, s.wanted) \ s.todo
               PROVE  ~Confirms(p, s, z)
    BY DEF Refuted
  <2>1. Steady(r, n) /\ p \in Candidates(r.uaid, r.wanted) \ rest
    BY <1>3, <1>4 DEF Steady, SameCall14
  <2>2. ~Confirms(p, r, z)
    BY <2>1 DEF UnderWay, Refuted
  <2> QED BY <2>2, <1>3, SameConfirms
<1>8. WasThere(s.outer, s) /\ WasThere(s.inner, s)
  BY <1>3, <1>4, SameWasThere DEF UnderWay
<1>9. UnderWay(s, z, n)
  BY <1>3, <1>5, <1>6, <1>7, <1>8 DEF UnderWay
<1>10. s.wanted = "any"
  BY <1>3 DEF SameCall14
<1>11. ResolutionOK(s, z, n)
  BY <1>3, <1>4, <1>9, <1>10 DEF ResolutionOK
<1> QED BY <1>11 DEF s

LEMMA FailsOK ==
  ASSUME NEW r, NEW z \in Zones, NEW n \in Nat, UnderWay(r, z, n), r.todo # {},
         Steady(r, n) => ~Confirms(Asked14(r), r, z)
  PROVE  ResolutionOK(Fails(r), z, n)
<1>1. CASE r.nested # "none"
  <2>1. Fails(r) = [r EXCEPT !.nested = "none", !.failed = TRUE, !.pc = "follow"]
    BY <1>1 DEF Fails
  <2>2. Steady(r, n) => ~Confirms(r.nested, r, z)
    BY <1>1 DEF Asked14
  <2>3. ResolutionOK([r EXCEPT !.nested = "none", !.failed = TRUE, !.pc = "follow"], z, n)
    BY <1>1, <2>2, FollowupFails
  <2> QED BY <2>1, <2>3
<1>2. CASE r.nested = "none" /\ r.wanted # "any"
  <2> DEFINE a == [NoAnswer EXCEPT !.kind = "unresolved"]
  <2>1. Fails(r) = Answers(r, a)
    BY <1>2 DEF Fails
  <2>2. a \in Answers14 /\ a.kind = "unresolved" /\ a.profile = "none"
    BY DEF NoAnswer, Answers14
  <2> HIDE DEF a
  <2>3. r \in UaidCalls /\ r.wanted # "none" /\ r.todo = Candidates(r.uaid, r.wanted)
    BY <1>2 DEF UnderWay, Seen14, Asks14
  <2>4. r.wanted \in {"any", "uaid", "ans", "aid", "did", "direct"}
    BY <2>3 DEF UaidCalls
  <2>5. PICK q \in Names14 : Candidates(r.uaid, r.wanted) = {q}
    BY <1>2, <2>4, CandidatesAreNamed
  <2>6. First14({q}) = q
    <3>1. {q} \in SUBSET Names14 /\ {q} # {}
      OBVIOUS
    <3>2. First14({q}) \in {q}
      BY <3>1, FirstIsMember
    <3> QED BY <3>2
  <2>7. Asked14(r) = q
    BY <1>2, <2>3, <2>5, <2>6 DEF Asked14
  <2>8. Steady(r, n) => \A p \in Candidates(r.uaid, r.wanted) : ~Confirms(p, r, z)
    BY <2>5, <2>7
  <2> QED BY <2>1, <2>2, <2>8, UnresolvedOK
<1>3. CASE r.nested = "none" /\ r.wanted = "any"
  <2> DEFINE rest == r.todo \ {First14(r.todo)}
             pc == IF rest = {} THEN "fallback" ELSE "ask"
  <2>1. Fails(r) = [r EXCEPT !.todo = rest, !.failed = FALSE, !.pc = pc]
    BY <1>3 DEF Fails
  <2>2. Asked14(r) = First14(r.todo)
    BY <1>3 DEF Asked14
  <2>3. rest = r.todo \ {First14(r.todo)} /\ pc = IF rest = {} THEN "fallback" ELSE "ask"
    OBVIOUS
  <2> HIDE DEF rest, pc
  <2>4. Steady(r, n) => ~Confirms(First14(r.todo), r, z)
    BY <2>2
  <2>5. ResolutionOK([r EXCEPT !.todo = rest, !.failed = FALSE, !.pc = pc], z, n)
    BY <1>3, <2>3, <2>4, NextIsTried
  <2> QED BY <2>1, <2>5
<1> QED BY <1>1, <1>2, <1>3

(***************************************************************************)
(* The profile being asked succeeds.                                       *)
(***************************************************************************)
LEMMA SucceedsOK ==
  ASSUME NEW r, NEW z \in Zones, NEW n \in Nat, UnderWay(r, z, n), r.todo # {},
         NEW p \in {"ans", "aid", "did"}, p = Asked14(r),
         NEW did \in Dids \cup {"none"},
         \E y \in Mixed(r.seen) : ConfirmsAlone(p, r.uaid, y),
         r.uaid.of \in {"bare", "suffixed"} => did = r.uaid.of
  PROVE  ResolutionOK(Succeeds(r, p, did), z, n)
<1> DEFINE a == [kind |-> "resolved", selected |-> r.nested, did |-> did,
                 profile |-> IF r.nested # "none" THEN "uaid" ELSE p]
<1>1. Succeeds(r, p, did) = Answers(r, a)
  BY DEF Succeeds
<1>2. a \in Answers14 /\ a.kind = "resolved" /\ a.did = did
      /\ a.profile = IF r.nested # "none" THEN "uaid" ELSE p
  BY DEF UnderWay, Seen14, UaidCalls, Answers14, Names14
<1> HIDE DEF a
<1> PICK y \in Mixed(r.seen) : ConfirmsAlone(p, r.uaid, y)
  OBVIOUS
<1>3. CASE r.nested = "none"
  <2>1. a.profile = First14(r.todo) /\ Confirms(a.profile, r, y)
    BY <1>2, <1>3 DEF Asked14, Confirms
  <2>8. a.profile = First14(r.todo)
    BY <2>1
  <2>9. \E x \in Mixed(r.seen) : Confirms(a.profile, r, x)
    BY <2>1
  <2>10. a \in Answers14 /\ a.kind = "resolved"
    BY <1>2
  <2>11. r.wanted # "direct" /\ r.uaid.of \in {"bare", "suffixed"} => a.did = r.uaid.of
    BY <1>2
  <2>12. ResolutionOK(Answers(r, a), z, n)
    BY <2>8, <2>9, <2>10, <2>11, ResolvedOK
  <2> QED BY <1>1, <2>12
<1>4. CASE r.nested # "none"
  <2>1. FollowingUp(r, z, n)
    BY <1>4 DEF UnderWay
  <2>2. PICK m \in r.seen : "match" \in m.uaid
    BY <2>1 DEF FollowingUp
  <2> DEFINE w == [uaid |-> m.uaid, ans |-> y.ans, card |-> y.card, document |-> y.document,
                   agent |-> y.agent]
  <2>3. w \in Mixed(r.seen) /\ w.uaid = m.uaid
    BY DEF Mixed
  <2>4. ConfirmsAlone(p, r.uaid, w)
    BY DEF ConfirmsAlone
  <2> HIDE DEF w
  <2>5. p \in FollowupProfiles(r.uaid) /\ r.follows /\ r.uaid.native = "fqdn"
        /\ First14(r.todo) = "uaid"
    BY <1>4, <2>1 DEF FollowingUp, Asked14
  <2>6. Confirms("uaid", r, w)
    BY <2>2, <2>3, <2>4, <2>5 DEF Confirms
  <2>7. a.profile = First14(r.todo) /\ Confirms(a.profile, r, w)
    BY <1>2, <1>4, <2>5, <2>6
  <2>8. a.profile = First14(r.todo)
    BY <2>7
  <2>9. \E x \in Mixed(r.seen) : Confirms(a.profile, r, x)
    BY <2>7, <2>3
  <2>10. a \in Answers14 /\ a.kind = "resolved"
    BY <1>2
  <2>11. r.wanted # "direct" /\ r.uaid.of \in {"bare", "suffixed"} => a.did = r.uaid.of
    BY <1>2
  <2>12. ResolutionOK(Answers(r, a), z, n)
    BY <2>8, <2>9, <2>10, <2>11, ResolvedOK
  <2> QED BY <1>1, <2>12
<1> QED BY <1>3, <1>4

-----------------------------------------------------------------------------
(***************************************************************************)
(* The steps of a call.                                                    *)
(***************************************************************************)
LEMMA SeenIsMixed ==
  ASSUME NEW seen \in SUBSET Zones, NEW y \in seen
  PROVE  y \in Mixed(seen)
BY DEF Mixed, Zones

LEMMA ResolutionInitInv == UaidInit => ResolutionInv
<1> SUFFICES ASSUME UaidInit PROVE ResolutionInv
  OBVIOUS
<1>1. Aid("fqdn", "none", "zero", "none") \in Uaids
  BY DEF Uaids
<1>2. NoAnswer \in Answers14
  BY DEF NoAnswer, Answers14
<1>3. zone \in Zones /\ zoneChanges \in Nat
  BY DEF UaidInit, NoZone, Zones
<1>4. resolution \in UaidCalls
  BY <1>1, <1>2 DEF UaidInit, UaidCalls, Steps14, Documents14
<1>5. /\ resolution.pc = "idle" /\ resolution.nested = "none" /\ resolution.follow = {}
      /\ resolution.outer = "none" /\ resolution.inner = "none" /\ resolution.answer = NoAnswer
  BY DEF UaidInit
<1>6. ~resolution.failed /\ ~resolution.lost
  BY DEF UaidInit
<1> QED BY <1>3, <1>4, <1>5, <1>6 DEF ResolutionInv, ResolutionOK

LEMMA ResolveStep ==
  ASSUME ResolutionInv, NEW u \in Uaids,
         NEW asked \in {"any", "uaid", "ans", "aid", "did", "direct"}, NEW full \in BOOLEAN,
         NEW asksFollowup \in BOOLEAN, Resolve14(u, asked, full, asksFollowup)
  PROVE  ResolutionInv'
<1> DEFINE todo == Candidates(u, asked)
           pc == IF asked = "direct" THEN "ask" ELSE "document"
           follows == asked # "direct" /\ (asksFollowup \/ ~full)
<1> PICK r, z, n, s : r = resolution /\ z = zone' /\ n = zoneChanges /\ s = resolution'
  OBVIOUS
<1>1. /\ r.pc = "idle" /\ z \in Zones /\ zoneChanges' = n
      /\ s = [r EXCEPT !.pc = pc, !.uaid = u, !.seen = {z}, !.wanted = asked, !.full = full,
                       !.todo = todo, !.follows = follows]
  BY DEF Resolve14
<1>2. /\ r \in UaidCalls /\ n \in Nat /\ r.nested = "none" /\ ~r.failed
      /\ r.outer = "none" /\ r.inner = "none" /\ r.answer = NoAnswer
  BY <1>1 DEF ResolutionInv, ResolutionOK
<1>3. todo \in SUBSET Names14 /\ (asked = "direct" => todo # {})
  BY CandidatesAreNamed
<1>4. pc \in {"ask", "document"} /\ (pc = "ask" => asked = "direct")
  OBVIOUS
<1>5. /\ follows \in BOOLEAN /\ (asked = "direct" => ~follows)
      /\ asked = "direct" \/ follows \/ full
  OBVIOUS
<1> HIDE DEF pc, follows, todo
<1>6. s \in UaidCalls
  <2>1. PICK f \in BOOLEAN : f = follows
    BY <1>5
  <2>2. s = [r EXCEPT !.pc = pc, !.uaid = u, !.seen = {z}, !.wanted = asked, !.full = full,
                      !.todo = todo, !.follows = f]
    BY <1>1, <2>1
  <2>3. {z} \in SUBSET Zones
    BY <1>1
  <2> DEFINE begun == [r EXCEPT !.pc = pc, !.uaid = u, !.seen = {z}, !.wanted = asked]
  <2>4. begun \in UaidCalls
    <3>1. pc \in Steps14 /\ asked \in {"none", "any", "uaid", "ans", "aid", "did", "direct"}
      BY <1>4 DEF Steps14
    <3>2. PICK told \in SUBSET Zones : told = {z}
      BY <2>3
    <3>3. r \in UaidCalls
      BY <1>2
    <3>4. [r EXCEPT !.pc = pc, !.uaid = u, !.seen = told, !.wanted = asked] \in UaidCalls
      BY <3>1, <3>3 DEF UaidCalls
    <3> QED BY <3>2, <3>4
  <2>5. s = [begun EXCEPT !.full = full, !.todo = todo, !.follows = f]
    BY <2>2
  <2> HIDE DEF begun
  <2> QED BY <1>3, <2>4, <2>5 DEF UaidCalls
<1>7. /\ s.pc = pc /\ s.uaid = u /\ s.seen = {z} /\ s.wanted = asked /\ s.todo = todo
      /\ s.nested = "none" /\ s.outer = "none" /\ s.inner = "none" /\ s.answer = NoAnswer
  BY <1>1, <1>2 DEF UaidCalls
<1>8. (s.full <=> full) /\ (s.follows <=> follows) /\ ~s.failed
  BY <1>1, <1>2 DEF UaidCalls
<1>9. Asks14(s)
  BY <1>5, <1>7, <1>8 DEF Asks14, todo
<1>10. Refuted(s, z, n)
  BY <1>7 DEF Refuted, todo
<1>11. UnderWay(s, z, n)
  BY <1>6, <1>7, <1>9, <1>10 DEF UnderWay, Seen14, WasThere
<1>12. ResolutionOK(s, z, n)
  BY <1>1, <1>2, <1>3, <1>4, <1>6, <1>7, <1>8, <1>11 DEF ResolutionOK
<1> QED BY <1>1, <1>12 DEF ResolutionInv

(***************************************************************************)
(* What the steps below share: the call is under way.                      *)
(***************************************************************************)
LEMMA StepsOn ==
  ASSUME NEW r, NEW z, NEW n, ResolutionOK(r, z, n), r.pc \notin {"idle", "done"}
  PROVE  /\ r \in UaidCalls /\ z \in Zones /\ n \in Nat /\ UnderWay(r, z, n)
         /\ z \in Mixed(r.seen) /\ r.uaid \in Uaids
         /\ r.pc = "ask" => r.todo # {} /\ (r.nested = "none" => ~r.failed)
BY SeenIsMixed DEF ResolutionOK, UnderWay, Seen14, UaidCalls

LEMMA DocumentStep ==
  ASSUME ResolutionInv, ResolveDocument
  PROVE  ResolutionInv'
<1> PICK r, z, n, s : r = resolution /\ z = zone /\ n = zoneChanges /\ s = resolution'
  OBVIOUS
<1> DEFINE document == IF DeriveDID(r.uaid) \in Dids THEN z.document ELSE "none"
           pc == IF r.todo = {} THEN "fallback" ELSE "ask"
<1>1. /\ r.pc = "document" /\ zone' = z /\ zoneChanges' = n
      /\ s = IF r.nested = "none" THEN [r EXCEPT !.outer = document, !.pc = pc]
             ELSE [r EXCEPT !.inner = document, !.pc = "ask"]
  BY DEF ResolveDocument, Goes14, ResolveDID
<1>2. ResolutionOK(r, z, n)
  BY DEF ResolutionInv
<1>3. /\ r \in UaidCalls /\ z \in Zones /\ n \in Nat /\ UnderWay(r, z, n) /\ r.uaid \in Uaids
      /\ (r.nested = "none" => ~r.failed)
  BY <1>1, <1>2, StepsOn DEF ResolutionOK
<1>4. document \in Documents14 /\ WasThere(document, r)
  BY <1>3 DEF Documents14, Zones, WasThere, UnderWay, Seen14
<1>5. pc \in {"ask", "fallback"}
  OBVIOUS
<1> HIDE DEF document
<1>6. CASE r.nested = "none"
  <2>1. s = [r EXCEPT !.outer = document, !.pc = pc]
    BY <1>1, <1>6
  <2>2. pc = "fallback" => r.todo = {} /\ r.wanted = "any"
    <3> SUFFICES ASSUME r.todo = {} PROVE r.wanted = "any"
      OBVIOUS
    <3>1. r.wanted # "none" /\ (r.wanted # "any" => r.todo = Candidates(r.uaid, r.wanted))
      BY <1>3 DEF UnderWay, Asks14
    <3>2. r.wanted \in {"none", "any", "uaid", "ans", "aid", "did", "direct"}
      BY <1>3 DEF UaidCalls
    <3> QED BY <3>1, <3>2, CandidatesAreNamed
  <2>3. pc = "ask" => r.todo # {}
    OBVIOUS
  <2> HIDE DEF pc
  <2>4. s \in UaidCalls
    BY ZenonT(30), <1>3, <1>4, <1>5, <2>1 DEF UaidCalls, Steps14
  <2>5. /\ SameCall14(r, s) /\ s.pc = pc /\ s.todo = r.todo /\ s.answer = r.answer
        /\ s.nested = "none" /\ s.outer = document /\ s.inner = r.inner
    BY <1>3, <1>6, <2>1 DEF UaidCalls, SameCall14
  <2>6. (s.lost <=> r.lost) /\ (s.failed <=> r.failed)
    BY <1>3, <2>1 DEF UaidCalls
  <2>7. WasThere(s.outer, s) /\ WasThere(s.inner, s)
    BY <1>3, <1>4, <2>5, SameWasThere DEF UnderWay
  <2>8. UnderWay(s, z, n)
    BY <1>3, <2>4, <2>5, <2>6, <2>7, SameUnderWay
  <2>9. s.wanted = r.wanted
    BY <2>5 DEF SameCall14
  <2>10. ResolutionOK(s, z, n)
    BY <1>3, <1>5, <1>6, <2>2, <2>3, <2>4, <2>5, <2>6, <2>8, <2>9 DEF ResolutionOK
  <2> QED BY <1>1, <2>10 DEF ResolutionInv
<1>7. CASE r.nested # "none"
  <2>1. s = [r EXCEPT !.inner = document, !.pc = "ask"]
    BY <1>1, <1>7
  <2>2. s \in UaidCalls
    BY <1>3, <1>4, <2>1 DEF UaidCalls, Steps14
  <2>3. /\ SameCall14(r, s) /\ s.pc = "ask" /\ s.todo = r.todo /\ s.answer = r.answer
        /\ s.nested = r.nested /\ s.outer = r.outer /\ s.inner = document /\ s.follow = r.follow
    BY <1>3, <2>1 DEF UaidCalls, SameCall14
  <2>4. (s.lost <=> r.lost) /\ (s.failed <=> r.failed)
    BY <1>3, <2>1 DEF UaidCalls
  <2>5. WasThere(s.outer, s) /\ WasThere(s.inner, s)
    BY <1>3, <1>4, <2>3, SameWasThere DEF UnderWay
  <2>6. FollowingUp(r, z, n)
    BY <1>3, <1>7 DEF UnderWay
  <2>7. FollowingUp(s, z, n)
    BY <2>3, <2>4, <2>6, SameFollowing
  <2>8. UnderWay(s, z, n) /\ s.todo # {}
    BY <1>3, <2>2, <2>3, <2>4, <2>5, <2>6, <2>7, SameUnderWay DEF FollowingUp
  <2>9. ResolutionOK(s, z, n)
    BY <1>3, <1>7, <2>2, <2>3, <2>8 DEF ResolutionOK
  <2> QED BY <1>1, <2>9 DEF ResolutionInv
<1> QED BY <1>6, <1>7

LEMMA AskUaidStep ==
  ASSUME ResolutionInv, AskUaid
  PROVE  ResolutionInv'
<1> PICK r, z, n, s : r = resolution /\ z = zone /\ n = zoneChanges /\ s = resolution'
  OBVIOUS
<1> DEFINE matches == r.uaid.native = "fqdn" /\ MatchingRecords(z.uaid) # {}
           follow == IF r.follows THEN FollowupProfiles(r.uaid) ELSE {}
<1>1. /\ r.pc = "ask" /\ Asked14(r) = "uaid" /\ zone' = z /\ zoneChanges' = n
      /\ s = IF matches THEN [r EXCEPT !.pc = "follow", !.follow = follow] ELSE Fails(r)
  BY DEF AskUaid, Asking, Asked14, Goes14
<1>2. ResolutionOK(r, z, n)
  BY DEF ResolutionInv
<1>3. /\ r \in UaidCalls /\ z \in Zones /\ n \in Nat /\ UnderWay(r, z, n) /\ r.uaid \in Uaids
      /\ r.todo # {} /\ (r.nested = "none" => ~r.failed)
  BY <1>1, <1>2, StepsOn
<1>4. matches <=> r.uaid.native = "fqdn" /\ "match" \in z.uaid
  BY DEF MatchingRecords
<1>5. r.nested = "none" /\ First14(r.todo) = "uaid"
  <2>1. ASSUME r.nested # "none" PROVE FALSE
    <3>1. r.nested \in FollowupProfiles(r.uaid)
      BY <1>3, <2>1 DEF UnderWay, FollowingUp
    <3>2. r.nested = "uaid"
      BY <1>1, <2>1 DEF Asked14
    <3> QED BY <1>3, <3>1, <3>2, FollowupsAreNamed
  <2> QED BY <2>1, <1>1 DEF Asked14
<1>6. CASE matches
  <2>1. s = [r EXCEPT !.pc = "follow", !.follow = follow]
    BY <1>1, <1>6
  <2>2. follow \in SUBSET Names14
    BY <1>3, FollowupsAreNamed
  <2>3. /\ follow \subseteq FollowupProfiles(r.uaid)
        /\ (r.follows => follow = FollowupProfiles(r.uaid)) /\ (~r.follows => follow = {})
    OBVIOUS
  <2> HIDE DEF follow, matches
  <2>4. s \in UaidCalls
    BY <1>3, <2>1, <2>2 DEF UaidCalls, Steps14
  <2>5. /\ SameCall14(r, s) /\ s.pc = "follow" /\ s.todo = r.todo /\ s.answer = r.answer
        /\ s.nested = "none" /\ s.outer = r.outer /\ s.inner = r.inner /\ s.follow = follow
    BY <1>3, <1>5, <2>1 DEF UaidCalls, SameCall14
  <2>6. (s.lost <=> r.lost) /\ ~s.failed
    BY <1>3, <1>5, <2>1 DEF UaidCalls
  <2>7. WasThere(s.outer, s) /\ WasThere(s.inner, s)
    BY <1>3, <2>5, SameWasThere DEF UnderWay
  <2>8. UnderWay(s, z, n)
    BY <1>3, <2>4, <2>5, <2>6, <2>7, SameUnderWay
  <2>9. z \in s.seen /\ "match" \in z.uaid
    BY <1>3, <1>4, <1>6, <2>5 DEF UnderWay, Seen14, SameCall14
  <2>10. FollowingUp(s, z, n)
    BY <1>3, <1>4, <1>5, <1>6, <2>3, <2>5, <2>6, <2>9 DEF FollowingUp, SameCall14
  <2>11. ResolutionOK(s, z, n)
    BY <1>3, <2>4, <2>5, <2>6, <2>8, <2>10 DEF ResolutionOK
  <2> QED BY <1>1, <2>11 DEF ResolutionInv
<1>7. CASE ~matches
  <2>1. ~Confirms(Asked14(r), r, z)
    BY <1>1, <1>4, <1>7 DEF Confirms
  <2>2. ResolutionOK(Fails(r), z, n)
    BY <1>3, <2>1, FailsOK
  <2> QED BY <1>1, <1>7, <2>2 DEF ResolutionInv
<1> QED BY <1>6, <1>7

LEMMA FollowUpStep ==
  ASSUME ResolutionInv, FollowUp
  PROVE  ResolutionInv'
<1> PICK r, z, n, s : r = resolution /\ z = zone /\ n = zoneChanges /\ s = resolution'
  OBVIOUS
<1> DEFINE next == First14(r.follow)
<1>1. /\ r.pc = "follow" /\ zone' = z /\ zoneChanges' = n
      /\ s = IF r.follow # {} THEN [r EXCEPT !.pc = "document", !.nested = next,
                                             !.follow = r.follow \ {next}]
             ELSE IF r.failed \/ r.full THEN Fails(r)
             ELSE Succeeds(r, "uaid", "record")
  BY DEF FollowUp, Goes14
<1>2. ResolutionOK(r, z, n)
  BY DEF ResolutionInv
<1>3. /\ r \in UaidCalls /\ z \in Zones /\ n \in Nat /\ UnderWay(r, z, n) /\ r.uaid \in Uaids
  BY <1>1, <1>2, StepsOn
<1>4. FollowingUp(r, z, n) /\ r.nested = "none"
  BY <1>1, <1>2 DEF ResolutionOK
<1>5. CASE r.follow # {}
  <2>1. s = [r EXCEPT !.pc = "document", !.nested = next, !.follow = r.follow \ {next}]
    BY <1>1, <1>5
  <2>2. r.follow \in SUBSET Names14
    BY <1>3 DEF UaidCalls
  <2>3. next \in r.follow
    BY <1>5, <2>2, FirstIsMember
  <2>4. next \in Names14 /\ next # "none"
    BY <2>2, <2>3 DEF Names14
  <2> HIDE DEF next
  <2>5. s \in UaidCalls
    <3>1. PICK rest \in SUBSET Names14 : rest = r.follow \ {next}
      BY <2>2
    <3>2. s = [r EXCEPT !.pc = "document", !.nested = next, !.follow = rest]
      BY <2>1, <3>1
    <3> QED BY ZenonT(30), <1>3, <2>4, <3>2 DEF UaidCalls, Steps14
  <2>6. /\ SameCall14(r, s) /\ s.pc = "document" /\ s.todo = r.todo /\ s.answer = r.answer
        /\ s.nested = next /\ s.outer = r.outer /\ s.inner = r.inner /\ s.follow = r.follow \ {next}
    BY <1>3, <2>1 DEF UaidCalls, SameCall14
  <2>7. (s.lost <=> r.lost) /\ (s.failed <=> r.failed)
    BY <1>3, <2>1 DEF UaidCalls
  <2>8. WasThere(s.outer, s) /\ WasThere(s.inner, s)
    BY <1>3, <2>6, SameWasThere DEF UnderWay
  <2>10. FollowingUp(s, z, n)
    <3>1. r.follows
      BY <1>4, <1>5 DEF FollowingUp
    <3>2. s.nested \in FollowupProfiles(s.uaid) /\ s.follow \subseteq FollowupProfiles(s.uaid)
      BY <1>4, <2>3, <2>6 DEF FollowingUp, SameCall14
    <3>3. ~s.failed => FollowupProfiles(s.uaid) \subseteq s.follow \cup {s.nested}
      <4>1. "none" \notin FollowupProfiles(r.uaid)
        BY <1>3, FollowupsAreNamed DEF Names14
      <4> QED BY <1>4, <2>3, <2>6, <2>7, <3>1, <4>1 DEF FollowingUp, SameCall14
    <3>4. ASSUME Steady(s, n), NEW p \in FollowupProfiles(s.uaid) \ (s.follow \cup {s.nested})
          PROVE  ~ConfirmsAlone(p, s.uaid, z)
      <4>1. "none" \notin FollowupProfiles(r.uaid)
        BY <1>3, FollowupsAreNamed DEF Names14
      <4>2. Steady(r, n) /\ p \in FollowupProfiles(r.uaid) \ (r.follow \cup {r.nested})
        BY <1>4, <2>3, <2>6, <2>7, <3>4, <4>1 DEF Steady, SameCall14
      <4> QED BY <1>4, <2>6, <3>1, <4>2 DEF FollowingUp, SameCall14
    <3>5. /\ s.todo # {} /\ First14(s.todo) = "uaid" /\ s.uaid.native = "fqdn" /\ s.follows
          /\ \E y \in s.seen : "match" \in y.uaid
      BY <1>4, <2>6, <3>1 DEF FollowingUp, SameCall14
    <3> QED BY <3>2, <3>3, <3>4, <3>5 DEF FollowingUp
  <2>11. UnderWay(s, z, n)
    BY <1>3, <2>5, <2>6, <2>7, <2>8, <2>10, SameUnderWay
  <2>12. ResolutionOK(s, z, n)
    BY <1>3, <2>4, <2>5, <2>6, <2>11 DEF ResolutionOK
  <2> QED BY <1>1, <2>12 DEF ResolutionInv
<1>6. CASE r.follow = {} /\ (r.failed \/ r.full)
  <2>1. s = Fails(r) /\ r.todo # {} /\ Asked14(r) = "uaid"
    BY <1>1, <1>4, <1>6 DEF FollowingUp, Asked14
  <2>2. Steady(r, n) => ~Confirms("uaid", r, z)
    <3> SUFFICES ASSUME Steady(r, n) PROVE ~Confirms("uaid", r, z)
      OBVIOUS
    <3>1. CASE r.follows
      <4>1. "none" \notin FollowupProfiles(r.uaid)
        BY <1>3, FollowupsAreNamed DEF Names14
      <4>2. \A p \in FollowupProfiles(r.uaid) : ~ConfirmsAlone(p, r.uaid, z)
        BY <1>4, <1>6, <3>1, <4>1 DEF FollowingUp
      <4> QED BY <3>1, <4>2 DEF Confirms
    <3>2. CASE ~r.follows
      BY <1>4, <1>6, <3>2 DEF FollowingUp, Confirms
    <3> QED BY <3>1, <3>2
  <2>3. ResolutionOK(Fails(r), z, n)
    BY <1>3, <2>1, <2>2, FailsOK
  <2> QED BY <1>1, <2>1, <2>3 DEF ResolutionInv
<1>7. CASE r.follow = {} /\ ~r.failed /\ ~r.full
  <2> DEFINE a == [kind |-> "resolved", selected |-> "none", did |-> "record", profile |-> "uaid"]
  <2>1. s = Answers(r, a)
    BY <1>1, <1>4, <1>7 DEF Succeeds
  <2>2. a \in Answers14 /\ a.kind = "resolved" /\ a.profile = "uaid"
    BY DEF Answers14, Names14
  <2> HIDE DEF a
  <2>3. ~r.follows
    <3> SUFFICES ASSUME r.follows PROVE FALSE
      OBVIOUS
    <3>1. FollowupProfiles(r.uaid) \subseteq {"none"}
      BY <1>4, <1>7 DEF FollowingUp
    <3> QED BY <1>3, <3>1, FollowupsAreNamed DEF Names14
  <2>4. r.wanted = "direct"
    BY <1>3, <1>7, <2>3 DEF UnderWay, Asks14
  <2>5. a.profile = First14(r.todo) /\ r.todo # {}
    BY <1>4, <2>2 DEF FollowingUp
  <2>6. \E y \in Mixed(r.seen) : Confirms(a.profile, r, y)
    <3>1. PICK m \in r.seen : "match" \in m.uaid
      BY <1>4 DEF FollowingUp
    <3>2. m \in Mixed(r.seen)
      BY <1>3, SeenIsMixed DEF UaidCalls
    <3>3. Confirms("uaid", r, m)
      BY <1>4, <1>7, <2>3, <3>1 DEF FollowingUp, Confirms
    <3> QED BY <2>2, <3>2, <3>3
  <2>7. ResolutionOK(Answers(r, a), z, n)
    BY <1>3, <2>2, <2>4, <2>5, <2>6, ResolvedOK
  <2> QED BY <1>1, <2>1, <2>7 DEF ResolutionInv
<1> QED BY <1>5, <1>6, <1>7

(***************************************************************************)
(* The record that is chosen is one of those found.                        *)
(***************************************************************************)
LEMMA FirstUrlIsFound ==
  ASSUME NEW found \in SUBSET AnsRecords, found # {}
  PROVE  FirstUrl(found) \in found /\ FirstUrl(found).url \in 1..2
<1> DEFINE First == [url |-> 1, version |-> "none"]
           Second == [url |-> 2, version |-> "1"]
<1>1. AnsRecords = {First, Second}
  BY DEF AnsRecords
<1>2. First.url = 1 /\ Second.url = 2
  OBVIOUS
<1> HIDE DEF First, Second
<1>3. \E a \in found : \A b \in found : a.url <= b.url
  <2>1. CASE First \in found
    BY <1>1, <1>2, <2>1
  <2>2. CASE First \notin found
    BY <1>1, <1>2, <2>2
  <2> QED BY <2>1, <2>2
<1>4. FirstUrl(found) \in found
  BY <1>3 DEF FirstUrl
<1> QED BY <1>1, <1>2, <1>4

LEMMA RecordOfUrl ==
  ASSUME NEW a \in AnsRecords
  PROVE  (CHOOSE b \in AnsRecords : b.url = a.url) = a
BY DEF AnsRecords

LEMMA FoundAreRecords ==
  ASSUME NEW z \in Zones, NEW u
  PROVE  AnsMatches(z.ans, u) \in SUBSET AnsRecords
BY DEF Zones, AnsMatches

LEMMA AskAnsStep ==
  ASSUME ResolutionInv, AskAns
  PROVE  ResolutionInv'
<1> PICK r, z, n, s : r = resolution /\ z = zone /\ n = zoneChanges /\ s = resolution'
  OBVIOUS
<1> PICK found : found = AnsMatches(z.ans, r.uaid)
  OBVIOUS
<1>1. /\ r.pc = "ask" /\ Asked14(r) = "ans" /\ zone' = z /\ zoneChanges' = n
      /\ s = IF AnsApplies(r.uaid) /\ found # {}
               THEN [r EXCEPT !.pc = "card", !.record = FirstUrl(found).url] ELSE Fails(r)
  BY DEF AskAns, Asking, Asked14, Goes14
<1>2. ResolutionOK(r, z, n)
  BY DEF ResolutionInv
<1>3. /\ r \in UaidCalls /\ z \in Zones /\ n \in Nat /\ UnderWay(r, z, n) /\ r.uaid \in Uaids
      /\ r.todo # {} /\ (r.nested = "none" => ~r.failed)
  BY <1>1, <1>2, StepsOn
<1>4. CASE AnsApplies(r.uaid) /\ found # {}
  <2>1. PICK url : url = FirstUrl(found).url
    OBVIOUS
  <2>2. s = [r EXCEPT !.pc = "card", !.record = url]
    BY <1>1, <1>4, <2>1
  <2>3. url \in 0..2
    BY <1>3, <1>4, <2>1, FoundAreRecords, FirstUrlIsFound
  <2>4. s \in UaidCalls
    BY <1>3, <2>2, <2>3 DEF UaidCalls, Steps14
  <2>5. /\ SameCall14(r, s) /\ s.pc = "card" /\ s.todo = r.todo /\ s.answer = r.answer
        /\ s.nested = r.nested /\ s.outer = r.outer /\ s.inner = r.inner /\ s.follow = r.follow
        /\ s.record = url
    BY <1>3, <2>2 DEF UaidCalls, SameCall14
  <2>6. (s.lost <=> r.lost) /\ (s.failed <=> r.failed)
    BY <1>3, <2>2 DEF UaidCalls
  <2>7. WasThere(s.outer, s) /\ WasThere(s.inner, s)
    BY <1>3, <2>5, SameWasThere DEF UnderWay
  <2>8. s.nested # "none" => FollowingUp(s, z, n)
    BY <1>3, <2>5, <2>6, SameFollowing DEF UnderWay
  <2>9. UnderWay(s, z, n)
    BY <1>3, <2>4, <2>5, <2>6, <2>7, <2>8, SameUnderWay
  <2>10. RecordFound(s)
    <3>1. Asked14(s) = "ans" /\ s.uaid = r.uaid
      BY <1>1, <2>5 DEF Asked14, SameCall14
    <3>2. z \in s.seen
      BY <2>9 DEF UnderWay, Seen14
    <3> QED BY <1>4, <2>1, <2>5, <3>1, <3>2 DEF RecordFound
  <2>11. ResolutionOK(s, z, n)
    BY <1>3, <2>4, <2>5, <2>6, <2>9, <2>10 DEF ResolutionOK
  <2> QED BY <1>1, <2>11 DEF ResolutionInv
<1>5. CASE ~(AnsApplies(r.uaid) /\ found # {})
  <2>1. ~Confirms(Asked14(r), r, z)
    BY <1>1, <1>5 DEF Confirms, ConfirmsAlone
  <2>2. ResolutionOK(Fails(r), z, n)
    BY <1>3, <2>1, FailsOK
  <2> QED BY <1>1, <1>5, <2>2 DEF ResolutionInv
<1> QED BY <1>4, <1>5

(***************************************************************************)
(* The record is put away, and the answer may have been lost.              *)
(***************************************************************************)
LEMMA CardPutAway ==
  ASSUME NEW r, NEW z, NEW n, NEW s \in UaidCalls, ResolutionOK(r, z, n), r.pc = "card",
         SameCall14(r, s), s.todo = r.todo, s.answer = r.answer, s.nested = r.nested,
         s.follow = r.follow, s.outer = r.outer, s.inner = r.inner, s.failed <=> r.failed,
         r.lost => s.lost
  PROVE  /\ UnderWay(s, z, n) /\ s.todo # {} /\ Asked14(s) = "ans"
         /\ AnsApplies(s.uaid)
         /\ \E y \in s.seen : /\ AnsMatches(y.ans, s.uaid) # {}
                              /\ r.record = FirstUrl(AnsMatches(y.ans, s.uaid)).url
<1>1. UnderWay(r, z, n) /\ r.todo # {} /\ RecordFound(r)
  BY DEF ResolutionOK
<1>2. WasThere(s.outer, s) /\ WasThere(s.inner, s)
  BY <1>1, SameWasThere DEF UnderWay
<1>3. s.nested # "none" => FollowingUp(s, z, n)
  BY <1>1, SameFollowing DEF UnderWay
<1>4. UnderWay(s, z, n)
  BY <1>1, <1>2, <1>3, SameUnderWay
<1>5. Asked14(s) = "ans"
  BY <1>1 DEF RecordFound, Asked14
<1> QED BY <1>1, <1>4, <1>5 DEF RecordFound, SameCall14

LEMMA CardStep ==
  ASSUME ResolutionInv, FetchCard \/ CardLost
  PROVE  ResolutionInv'
<1> PICK r, z, n, s : r = resolution /\ z = zone /\ n = zoneChanges /\ s = resolution'
  OBVIOUS
<1> DEFINE record == CHOOSE a \in AnsRecords : a.url = r.record
           kept == [r EXCEPT !.record = 0]
           lost == [r EXCEPT !.record = 0, !.lost = TRUE]
<1>1. /\ r.pc = "card" /\ zone' = z /\ zoneChanges' = n
      /\ \/ s = IF CardHolds(z.card, record, kept.uaid) THEN Succeeds(kept, "ans", "none")
                ELSE Fails(kept)
         \/ s = Fails(lost)
  BY DEF FetchCard, CardLost, Goes14
<1>2. ResolutionOK(r, z, n)
  BY DEF ResolutionInv
<1>3. /\ r \in UaidCalls /\ z \in Zones /\ n \in Nat /\ r.uaid \in Uaids
  BY <1>1, <1>2, StepsOn
<1>4. /\ kept \in UaidCalls /\ SameCall14(r, kept) /\ kept.todo = r.todo
      /\ kept.answer = r.answer /\ kept.nested = r.nested /\ kept.follow = r.follow
      /\ kept.outer = r.outer /\ kept.inner = r.inner
  BY <1>3 DEF UaidCalls, SameCall14
<1>5. (kept.failed <=> r.failed) /\ (kept.lost <=> r.lost)
  BY <1>3 DEF UaidCalls
<1>6. /\ lost \in UaidCalls /\ SameCall14(r, lost) /\ lost.todo = r.todo
      /\ lost.answer = r.answer /\ lost.nested = r.nested /\ lost.follow = r.follow
      /\ lost.outer = r.outer /\ lost.inner = r.inner
  <2>1. lost \in UaidCalls
    <3>1. PICK t \in BOOLEAN : t = TRUE
      OBVIOUS
    <3>2. lost = [kept EXCEPT !.lost = t]
      BY <3>1
    <3> HIDE DEF kept, lost
    <3>3. [kept EXCEPT !.lost = t] \in UaidCalls
      BY <1>4 DEF UaidCalls
    <3> QED BY <3>2, <3>3
  <2>2. SameCall14(r, lost)
    BY <1>3 DEF UaidCalls, SameCall14
  <2> QED BY <1>3, <2>1, <2>2 DEF UaidCalls
<1>7. (lost.failed <=> r.failed) /\ lost.lost
  BY <1>3 DEF UaidCalls
<1> HIDE DEF kept, lost
<1>8. UnderWay(kept, z, n) /\ kept.todo # {} /\ Asked14(kept) = "ans" /\ AnsApplies(kept.uaid)
  BY <1>1, <1>2, <1>4, <1>5, CardPutAway
<1>9. PICK y \in kept.seen : /\ AnsMatches(y.ans, kept.uaid) # {}
                             /\ r.record = FirstUrl(AnsMatches(y.ans, kept.uaid)).url
  BY <1>1, <1>2, <1>4, <1>5, CardPutAway
<1>10. record = FirstUrl(AnsMatches(y.ans, kept.uaid))
  <2>1. y \in Zones
    BY <1>4 DEF UaidCalls
  <2>2. FirstUrl(AnsMatches(y.ans, kept.uaid)) \in AnsRecords
    BY <1>9, <2>1, FoundAreRecords, FirstUrlIsFound
  <2> QED BY <1>9, <2>2, RecordOfUrl
<1> HIDE DEF record
<1>11. CASE CardHolds(z.card, record, kept.uaid) /\ s = Succeeds(kept, "ans", "none")
  <2> DEFINE w == [uaid |-> z.uaid, ans |-> y.ans, card |-> z.card, agent |-> z.agent,
                   document |-> z.document]
  <2>1. z \in kept.seen
    BY <1>8 DEF UnderWay, Seen14
  <2>2. w \in Mixed(kept.seen)
    BY <2>1 DEF Mixed
  <2>3. ConfirmsAlone("ans", kept.uaid, w)
    BY <1>8, <1>9, <1>10, <1>11 DEF ConfirmsAlone
  <2> HIDE DEF w
  <2>4. kept.uaid.of \notin {"bare", "suffixed"}
    <3>1. kept.uaid.target = "aid" /\ kept.uaid \in Uaids
      BY <1>3, <1>4, <1>8 DEF AnsApplies, SameCall14
    <3> QED BY <3>1, BaseIsOwn
  <2>5. \E x \in Mixed(kept.seen) : ConfirmsAlone("ans", kept.uaid, x)
    BY <2>2, <2>3
  <2>6. ResolutionOK(Succeeds(kept, "ans", "none"), z, n)
    BY <1>3, <1>8, <2>4, <2>5, SucceedsOK
  <2> QED BY <1>1, <1>11, <2>6 DEF ResolutionInv
<1>12. CASE ~CardHolds(z.card, record, kept.uaid) /\ s = Fails(kept)
  <2>1. Steady(kept, n) => ~Confirms(Asked14(kept), kept, z)
    <3> SUFFICES ASSUME Steady(kept, n) PROVE ~Confirms("ans", kept, z)
      BY <1>8
    <3>1. y = z
      BY <1>8 DEF Steady, UnderWay, Seen14
    <3> QED BY <1>10, <1>12, <3>1 DEF Confirms, ConfirmsAlone
  <2>2. ResolutionOK(Fails(kept), z, n)
    BY <1>3, <1>8, <2>1, FailsOK
  <2> QED BY <1>1, <1>12, <2>2 DEF ResolutionInv
<1>13. CASE s = Fails(lost)
  <2>1. UnderWay(lost, z, n) /\ lost.todo # {}
    BY <1>1, <1>2, <1>6, <1>7, CardPutAway
  <2>2. ResolutionOK(Fails(lost), z, n)
    BY <1>3, <1>7, <2>1, FailsOK DEF Steady
  <2> QED BY <1>1, <1>13, <2>2 DEF ResolutionInv
<1> QED BY <1>1, <1>11, <1>12, <1>13

LEMMA AskAidStep ==
  ASSUME ResolutionInv, AskAid
  PROVE  ResolutionInv'
<1> PICK r, z, n, s : r = resolution /\ z = zone /\ n = zoneChanges /\ s = resolution'
  OBVIOUS
<1> DEFINE holds == /\ r.uaid.target = "aid" /\ r.uaid.native = "fqdn"
                    /\ z.agent # {} /\ Verified(Min(z.agent))
<1>1. /\ r.pc = "ask" /\ Asked14(r) = "aid" /\ zone' = z /\ zoneChanges' = n
      /\ s = IF holds THEN Succeeds(r, "aid", DeriveDID(r.uaid)) ELSE Fails(r)
  BY DEF AskAid, Asking, Asked14, Goes14
<1>2. ResolutionOK(r, z, n)
  BY DEF ResolutionInv
<1>3. /\ r \in UaidCalls /\ z \in Zones /\ n \in Nat /\ UnderWay(r, z, n) /\ r.uaid \in Uaids
      /\ r.todo # {} /\ z \in Mixed(r.seen)
  BY <1>1, <1>2, StepsOn
<1>4. holds <=> ConfirmsAlone("aid", r.uaid, z)
  BY <1>3, AgentsByRank DEF ConfirmsAlone
<1> HIDE DEF holds
<1>5. CASE holds
  <2>1. r.uaid.of \notin {"bare", "suffixed"}
    <3>1. r.uaid.target = "aid"
      BY <1>5 DEF holds
    <3> QED BY <1>3, <3>1, BaseIsOwn
  <2>2. DeriveDID(r.uaid) \in Dids \cup {"none"}
    BY <1>3, UaidFields
  <2>3. \E x \in Mixed(r.seen) : ConfirmsAlone("aid", r.uaid, x)
    BY <1>3, <1>4, <1>5
  <2>4. ResolutionOK(Succeeds(r, "aid", DeriveDID(r.uaid)), z, n)
    BY <1>1, <1>3, <2>1, <2>2, <2>3, SucceedsOK
  <2> QED BY <1>1, <1>5, <2>4 DEF ResolutionInv
<1>6. CASE ~holds
  <2>1. ~Confirms(Asked14(r), r, z)
    BY <1>1, <1>4, <1>6 DEF Confirms
  <2>2. ResolutionOK(Fails(r), z, n)
    BY <1>3, <2>1, FailsOK
  <2> QED BY <1>1, <1>6, <2>2 DEF ResolutionInv
<1> QED BY <1>5, <1>6

LEMMA AskDidStep ==
  ASSUME ResolutionInv, AskDid
  PROVE  ResolutionInv'
<1> PICK r, z, n, s : r = resolution /\ z = zone /\ n = zoneChanges /\ s = resolution'
  OBVIOUS
<1> PICK base, document : /\ base = BaseDID(r.uaid)
                          /\ document = IF r.nested # "none" THEN r.inner ELSE r.outer
  OBVIOUS
<1>1. /\ r.pc = "ask" /\ Asked14(r) = "did" /\ zone' = z /\ zoneChanges' = n
      /\ s = IF r.uaid.target # "did" \/ base = "none" THEN Fails(r)
             ELSE IF document = "own" /\ base = DeriveDID(r.uaid) THEN Succeeds(r, "did", base)
             ELSE [r EXCEPT !.pc = "base"]
  BY DEF AskDid, Asking, Asked14, Goes14
<1>2. ResolutionOK(r, z, n)
  BY DEF ResolutionInv
<1>3. /\ r \in UaidCalls /\ z \in Zones /\ n \in Nat /\ UnderWay(r, z, n) /\ r.uaid \in Uaids
      /\ r.todo # {} /\ (r.nested = "none" => ~r.failed)
  BY <1>1, <1>2, StepsOn
<1>4. CASE r.uaid.target # "did" \/ base = "none"
  <2>1. ~Confirms(Asked14(r), r, z)
    BY <1>1, <1>4 DEF Confirms, ConfirmsAlone, Dids
  <2>2. ResolutionOK(Fails(r), z, n)
    BY <1>3, <2>1, FailsOK
  <2> QED BY <1>1, <1>4, <2>2 DEF ResolutionInv
<1>5. CASE r.uaid.target = "did" /\ base # "none" /\ document = "own" /\ base = DeriveDID(r.uaid)
  <2>1. s = Succeeds(r, "did", base)
    BY <1>1, <1>5
  <2>2. base \in Dids
    BY <1>3, <1>5, UaidFields
  <2>3. WasThere(document, r)
    BY <1>3 DEF UnderWay
  <2>4. PICK y \in r.seen : y.document = "own"
    BY <1>5, <2>3 DEF WasThere
  <2>5. y \in Mixed(r.seen)
    BY <1>3, SeenIsMixed DEF UaidCalls
  <2>6. ConfirmsAlone("did", r.uaid, y)
    BY <1>5, <2>2, <2>4 DEF ConfirmsAlone
  <2>7. r.uaid.of \in {"bare", "suffixed"} => base = r.uaid.of
    BY <1>3, <1>5, BaseIsOwn
  <2>8. ResolutionOK(Succeeds(r, "did", base), z, n)
    BY <1>1, <1>3, <2>2, <2>5, <2>6, <2>7, SucceedsOK
  <2> QED BY <1>1, <2>1, <2>8 DEF ResolutionInv
<1>6. CASE /\ r.uaid.target = "did" /\ base # "none"
           /\ ~(document = "own" /\ base = DeriveDID(r.uaid))
  <2>1. s = [r EXCEPT !.pc = "base"]
    BY <1>1, <1>6
  <2>2. s \in UaidCalls
    BY <1>3, <2>1 DEF UaidCalls, Steps14
  <2>3. /\ SameCall14(r, s) /\ s.pc = "base" /\ s.todo = r.todo /\ s.answer = r.answer
        /\ s.nested = r.nested /\ s.outer = r.outer /\ s.inner = r.inner /\ s.follow = r.follow
    BY <1>3, <2>1 DEF UaidCalls, SameCall14
  <2>4. (s.lost <=> r.lost) /\ (s.failed <=> r.failed)
    BY <1>3, <2>1 DEF UaidCalls
  <2>5. WasThere(s.outer, s) /\ WasThere(s.inner, s)
    BY <1>3, <2>3, SameWasThere DEF UnderWay
  <2>6. s.nested # "none" => FollowingUp(s, z, n)
    BY <1>3, <2>3, <2>4, SameFollowing DEF UnderWay
  <2>7. UnderWay(s, z, n)
    BY <1>3, <2>2, <2>3, <2>4, <2>5, <2>6, SameUnderWay
  <2>8. Asked14(s) = "did" /\ s.uaid.target = "did" /\ BaseDID(s.uaid) # "none"
    BY <1>1, <1>6, <2>3 DEF Asked14, SameCall14
  <2>9. ResolutionOK(s, z, n)
    BY <1>3, <2>2, <2>3, <2>4, <2>7, <2>8 DEF ResolutionOK
  <2> QED BY <1>1, <2>9 DEF ResolutionInv
<1> QED BY <1>4, <1>5, <1>6

LEMMA BaseStep ==
  ASSUME ResolutionInv, ResolveBase
  PROVE  ResolutionInv'
<1> PICK r, z, n, s : r = resolution /\ z = zone /\ n = zoneChanges /\ s = resolution'
  OBVIOUS
<1> PICK base : base = BaseDID(r.uaid)
  OBVIOUS
<1> DEFINE document == IF base \in Dids THEN z.document ELSE "none"
<1>1. /\ r.pc = "base" /\ zone' = z /\ zoneChanges' = n
      /\ s = IF document \in {"own", "others"} THEN Succeeds(r, "did", base) ELSE Fails(r)
  BY DEF ResolveBase, Goes14, ResolveDID
<1>2. ResolutionOK(r, z, n)
  BY DEF ResolutionInv
<1>3. /\ r \in UaidCalls /\ z \in Zones /\ n \in Nat /\ UnderWay(r, z, n) /\ r.uaid \in Uaids
      /\ z \in Mixed(r.seen)
  BY <1>1, <1>2, StepsOn
<1>4. r.todo # {} /\ Asked14(r) = "did" /\ r.uaid.target = "did" /\ base # "none"
  BY <1>1, <1>2 DEF ResolutionOK
<1>5. document \in {"own", "others"} <=> ConfirmsAlone("did", r.uaid, z)
  BY <1>4 DEF ConfirmsAlone
<1>6. document \in {"own", "others"} => base \in Dids
  OBVIOUS
<1> HIDE DEF document
<1>7. CASE document \in {"own", "others"}
  <2>1. r.uaid.of \in {"bare", "suffixed"} => base = r.uaid.of
    BY <1>3, <1>4, BaseIsOwn
  <2>2. \E x \in Mixed(r.seen) : ConfirmsAlone("did", r.uaid, x)
    BY <1>3, <1>5, <1>7
  <2>3. ResolutionOK(Succeeds(r, "did", base), z, n)
    BY <1>3, <1>4, <1>6, <1>7, <2>1, <2>2, SucceedsOK
  <2> QED BY <1>1, <1>7, <2>3 DEF ResolutionInv
<1>8. CASE document \notin {"own", "others"}
  <2>1. ~Confirms(Asked14(r), r, z)
    BY <1>4, <1>5, <1>8 DEF Confirms
  <2>2. ResolutionOK(Fails(r), z, n)
    BY <1>3, <1>4, <2>1, FailsOK
  <2> QED BY <1>1, <1>8, <2>2 DEF ResolutionInv
<1> QED BY <1>7, <1>8

(* The fallback finds every profile refuted; a lookup that fails says nothing. *)
LEMMA EndStep ==
  ASSUME ResolutionInv, Fallback14 \/ LookupFails14
  PROVE  ResolutionInv'
<1> PICK r, z, n, s : r = resolution /\ z = zone /\ n = zoneChanges /\ s = resolution'
  OBVIOUS
<1> DEFINE a == [NoAnswer EXCEPT !.kind = "unresolved", !.did = DeriveDID(r.uaid)]
           e == [NoAnswer EXCEPT !.kind = "error"]
<1>1. /\ r.pc \notin {"idle", "done"} /\ zone' = z /\ zoneChanges' = n
      /\ (r.pc = "fallback" /\ s = Answers(r, a)) \/ s = Answers(r, e)
  BY DEF Fallback14, LookupFails14, Asks, Asking, Goes14
<1>2. ResolutionOK(r, z, n)
  BY DEF ResolutionInv
<1>3. /\ r \in UaidCalls /\ z \in Zones /\ n \in Nat /\ UnderWay(r, z, n) /\ r.uaid \in Uaids
  BY <1>1, <1>2, StepsOn
<1>4. a \in Answers14 /\ a.kind = "unresolved" /\ a.profile = "none"
  BY <1>3, UaidFields DEF NoAnswer, Answers14
<1>5. e \in Answers14 /\ e.kind = "error"
  BY DEF NoAnswer, Answers14
<1> HIDE DEF a, e
<1>6. CASE r.pc = "fallback" /\ s = Answers(r, a)
  <2>1. r.todo = {}
    BY <1>2, <1>6 DEF ResolutionOK
  <2>2. Steady(r, n) => \A p \in Candidates(r.uaid, r.wanted) : ~Confirms(p, r, z)
    BY <1>3, <2>1 DEF UnderWay, Refuted
  <2>3. ResolutionOK(Answers(r, a), z, n)
    BY <1>3, <1>4, <2>2, UnresolvedOK
  <2> QED BY <1>1, <1>6, <2>3 DEF ResolutionInv
<1>7. CASE s = Answers(r, e)
  <2>1. ResolutionOK(Answers(r, e), z, n)
    BY <1>3, <1>5, UnresolvedOK
  <2> QED BY <1>1, <1>7, <2>1 DEF ResolutionInv
<1> QED BY <1>1, <1>6, <1>7

LEMMA ZoneStep ==
  ASSUME ResolutionInv, ZoneChanges
  PROVE  ResolutionInv'
<1> PICK r, z, n, s, y : /\ r = resolution /\ z = zone /\ n = zoneChanges /\ s = resolution'
                         /\ y = zone'
  OBVIOUS
<1>1. /\ r.pc \notin {"idle", "done"} /\ y \in Zones /\ zoneChanges' = n + 1
      /\ s = [r EXCEPT !.seen = r.seen \cup {y}]
  BY DEF ZoneChanges
<1>2. ResolutionOK(r, z, n)
  BY DEF ResolutionInv
<1>3. r \in UaidCalls /\ n \in Nat /\ UnderWay(r, z, n)
  BY <1>1, <1>2, StepsOn
<1>4. PICK told \in SUBSET Zones : told = r.seen \cup {y}
  BY <1>1, <1>3 DEF UaidCalls
<1>5. s \in UaidCalls
  BY <1>1, <1>3, <1>4 DEF UaidCalls
<1>6. /\ s.pc = r.pc /\ s.uaid = r.uaid /\ s.wanted = r.wanted /\ s.todo = r.todo
      /\ s.answer = r.answer /\ s.nested = r.nested /\ s.outer = r.outer /\ s.inner = r.inner
      /\ s.follow = r.follow /\ s.record = r.record /\ s.seen = r.seen \cup {y}
  BY <1>1, <1>3 DEF UaidCalls
<1>7. /\ (s.full <=> r.full) /\ (s.follows <=> r.follows)
      /\ (s.failed <=> r.failed) /\ (s.lost <=> r.lost)
  BY <1>1, <1>3 DEF UaidCalls
<1>8. n + 1 # 0 /\ n + 1 \in Nat
  BY <1>3
<1>9. ~Steady(s, n + 1)
  BY <1>8 DEF Steady
<1>10. Seen14(s, y, n + 1) /\ Asks14(s) /\ Refuted(s, y, n + 1)
  BY <1>3, <1>5, <1>6, <1>7, <1>8, <1>9 DEF UnderWay, Seen14, Asks14, Refuted
<1>11. WasThere(s.outer, s) /\ WasThere(s.inner, s)
  BY <1>3, <1>6 DEF UnderWay, WasThere
<1>12. FollowingUp(r, z, n) => FollowingUp(s, y, n + 1)
  BY <1>6, <1>7, <1>9 DEF FollowingUp
<1>13. UnderWay(s, y, n + 1)
  BY <1>3, <1>6, <1>10, <1>11, <1>12 DEF UnderWay
<1>14. RecordFound(r) => RecordFound(s)
  BY <1>6 DEF RecordFound, Asked14
<1>15. Asked14(s) = Asked14(r)
  BY <1>6 DEF Asked14
<1>16. ResolutionOK(s, y, n + 1)
  BY <1>1, <1>2, <1>5, <1>6, <1>7, <1>8, <1>12, <1>13, <1>14, <1>15 DEF ResolutionOK
<1> QED BY <1>1, <1>16 DEF ResolutionInv

LEMMA ResolutionNextInv == ResolutionInv /\ [UaidNext]_uaidVars => ResolutionInv'
<1> SUFFICES ASSUME ResolutionInv, [UaidNext]_uaidVars PROVE ResolutionInv'
  OBVIOUS
<1>1. CASE \E u \in Uaids : \E asked \in {"any", "uaid", "ans", "aid", "did", "direct"} :
             \E full, asksFollowup \in BOOLEAN : Resolve14(u, asked, full, asksFollowup)
  BY <1>1, ResolveStep
<1>2. CASE UNCHANGED uaidVars
  BY <1>2 DEF uaidVars, ResolutionInv
<1>3. CASE ResolveDocument \/ AskUaid \/ FollowUp \/ AskAns
  BY <1>3, DocumentStep, AskUaidStep, FollowUpStep, AskAnsStep
<1>4. CASE FetchCard \/ CardLost \/ AskAid \/ AskDid
  BY <1>4, CardStep, AskAidStep, AskDidStep
<1>5. CASE ResolveBase \/ Fallback14 \/ LookupFails14 \/ ZoneChanges
  BY <1>5, BaseStep, EndStep, ZoneStep
<1> QED BY <1>1, <1>2, <1>3, <1>4, <1>5 DEF UaidNext

(***************************************************************************)
(* Whatever changes while a call is under way, and however often: an id is *)
(* resolved only by a profile whose every part was true at some time       *)
(* during the call, and if nothing changed or was lost by the first that   *)
(* confirms it, and an id made from a Hedera DID resolves to that DID.     *)
(***************************************************************************)
THEOREM ResolutionsAreConfirmed == UaidSpec => []ResolvedIsConfirmed
<1>1. ResolutionInv => ResolvedIsConfirmed
  <2> SUFFICES ASSUME ResolutionInv PROVE ResolvedIsConfirmed
    OBVIOUS
  <2> PICK r, z, n : r = resolution /\ z = zone /\ n = zoneChanges
    OBVIOUS
  <2>1. ResolutionOK(r, z, n)
    BY DEF ResolutionInv
  <2>2. CASE r.pc = "done"
    <3>1. Confirmed14(r, z, n)
      BY <2>1, <2>2 DEF ResolutionOK
    <3> QED BY <3>1 DEF Confirmed14, ResolvedIsConfirmed, Steady
  <2>3. CASE r.pc # "done"
    <3>1. r.answer.kind = "none"
      BY <2>1, <2>3 DEF ResolutionOK, UnderWay, Asks14, NoAnswer
    <3> QED BY <3>1 DEF ResolvedIsConfirmed
  <2> QED BY <2>2, <2>3
<1> QED BY <1>1, ResolutionInitInv, ResolutionNextInv, PTL DEF UaidSpec
-----------------------------------------------------------------------------
(***************************************************************************)
(* HCS-17.  The ids of the sources are ordered, members before topics, and *)
(* the readings of different sources by them.                              *)
(***************************************************************************)
Readings17 == Seq(Sources \X Nat)
Distinct17(r) == \A i, j \in 1..Len(r) : r[i][1] = r[j][1] => i = j
Ascends17(h) == \A i, j \in 1..Len(h) : i < j => Precedes17(h[i], h[j])
Orders17(p, r) ==
  \A i, j \in 1..Len(r) : i < j => ~Precedes17(r[p[j]], r[p[i]])

LEMMA SourcesTyped == Sources \subseteq Nat /\ IsFiniteSet(Sources)
BY StateHashesAssumption DEF Sources

LEMMA PrecedesOrder ==
  ASSUME NEW a \in Sources \X Nat, NEW b \in Sources \X Nat, NEW c \in Sources \X Nat
  PROVE  /\ ~Precedes17(a, a)
         /\ Precedes17(a, b) => ~Precedes17(b, a)
         /\ Precedes17(a, b) /\ Precedes17(b, c) => Precedes17(a, c)
         /\ a[1] = b[1] \/ Precedes17(a, b) \/ Precedes17(b, a)
<1> PICK x, y, z : x = a[1] /\ y = b[1] /\ z = c[1]
  OBVIOUS
<1>1. x \in Sources /\ y \in Sources /\ z \in Sources
  OBVIOUS
<1>2. x \in Nat /\ y \in Nat /\ z \in Nat
  BY <1>1, SourcesTyped
<1>3. x \in StateMembers \/ x \in StateTopics
  BY <1>1 DEF Sources
<1>4. y \in StateMembers \/ y \in StateTopics
  BY <1>1 DEF Sources
<1>5. z \in StateMembers \/ z \in StateTopics
  BY <1>1 DEF Sources
<1>6. \A s : ~(s \in StateMembers /\ s \in StateTopics)
  BY StateHashesAssumption
<1> QED BY <1>2, <1>3, <1>4, <1>5, <1>6 DEF Precedes17

(***************************************************************************)
(* Readings of different sources can be sorted: each goes to the place     *)
(* after those of the readings that precede it.                            *)
(***************************************************************************)
LEMMA SortExists ==
  ASSUME NEW r \in Readings17, Distinct17(r)
  PROVE  \E p \in Bijection(1..Len(r), 1..Len(r)) : Orders17(p, r)
<1> DEFINE n == Len(r)
           Before(i) == {j \in 1..n : Precedes17(r[j], r[i])}
           rank == [i \in 1..n |-> 1 + Cardinality(Before(i))]
<1>1. n \in Nat /\ \A i \in 1..n : r[i] \in Sources \X Nat
  BY DEF Readings17
<1>2. IsFiniteSet(1..n) /\ Cardinality(1..n) = n
  BY <1>1, FS_Interval
<1> HIDE DEF n
<1>3. ASSUME NEW i \in 1..n
      PROVE  /\ IsFiniteSet(Before(i)) /\ Cardinality(Before(i)) \in Nat
             /\ Cardinality(Before(i)) < n
  <2>1. PICK B : B = Before(i)
    OBVIOUS
  <2>2. B \in SUBSET ((1..n) \ {i})
    BY <1>1, <2>1, PrecedesOrder
  <2>3. IsFiniteSet((1..n) \ {i}) /\ Cardinality((1..n) \ {i}) = n - 1
    BY <1>2, FS_RemoveElement
  <2>4. IsFiniteSet(B) /\ Cardinality(B) <= n - 1
    <3>1. IsFiniteSet(B)
      BY <2>2, <2>3, FS_Subset
    <3>2. Cardinality(B) <= Cardinality((1..n) \ {i})
      BY <2>2, <2>3, FS_Subset
    <3> QED BY <3>1, <3>2, <2>3
  <2>5. Cardinality(B) \in Nat
    BY <2>4, FS_CardinalityType
  <2> QED BY <2>1, <2>4, <2>5, <1>1
<1>4. ASSUME NEW i \in 1..n, NEW j \in 1..n, Precedes17(r[i], r[j])
      PROVE  Cardinality(Before(i)) < Cardinality(Before(j))
  <2>1. PICK A, B : A = Before(i) /\ B = Before(j)
    OBVIOUS
  <2>2. A \in SUBSET B
    BY <1>1, <1>4, <2>1, PrecedesOrder
  <2>3. i \in B /\ i \notin A
    BY <1>1, <1>4, <2>1, PrecedesOrder
  <2>4. IsFiniteSet(B) /\ Cardinality(A) \in Nat /\ Cardinality(B) \in Nat
    BY <1>3, <2>1
  <2>5. Cardinality(A) <= Cardinality(B)
    BY <2>2, <2>4, FS_Subset
  <2>6. Cardinality(A) # Cardinality(B)
    BY <2>2, <2>3, <2>4, FS_Subset
  <2> QED BY <2>1, <2>4, <2>5, <2>6
<1> HIDE DEF Before
<1>5. rank \in [1..n -> 1..n]
  <2>1. \A i \in 1..n : 1 + Cardinality(Before(i)) \in 1..n
    BY <1>1, <1>3
  <2> QED BY <2>1
<1>6. ASSUME NEW i \in 1..n, NEW j \in 1..n, i # j
      PROVE  /\ rank[i] # rank[j]
             /\ rank[i] < rank[j] => ~Precedes17(r[j], r[i])
  <2>1. r[i][1] # r[j][1]
    BY <1>6 DEF Distinct17, n
  <2>2. Precedes17(r[i], r[j]) \/ Precedes17(r[j], r[i])
    BY <1>1, <2>1, PrecedesOrder
  <2>3. Precedes17(r[i], r[j]) => Cardinality(Before(i)) < Cardinality(Before(j))
    BY <1>4
  <2>4. Precedes17(r[j], r[i]) => Cardinality(Before(j)) < Cardinality(Before(i))
    BY <1>4
  <2>5. /\ Cardinality(Before(i)) \in Nat /\ Cardinality(Before(j)) \in Nat
        /\ rank[i] = 1 + Cardinality(Before(i)) /\ rank[j] = 1 + Cardinality(Before(j))
    BY <1>3
  <2> QED BY <2>2, <2>3, <2>4, <2>5
<1> HIDE DEF rank
<1>7. rank \in Injection(1..n, 1..n)
  BY <1>5, <1>6 DEF Injection, IsInjective
<1>8. rank \in Surjection(1..n, 1..n)
  BY <1>2, <1>7, FS_Injection
<1> DEFINE p == [k \in 1..n |-> CHOOSE i \in 1..n : rank[i] = k]
<1>9. ASSUME NEW k \in 1..n PROVE p[k] \in 1..n /\ rank[p[k]] = k
  <2>1. \E i \in 1..n : rank[i] = k
    BY <1>8 DEF Surjection
  <2> QED BY <2>1
<1>10. p \in [1..n -> 1..n]
  BY <1>9
<1> HIDE DEF p
<1>11. p \in Injection(1..n, 1..n)
  BY <1>9, <1>10 DEF Injection, IsInjective
<1>12. p \in Bijection(1..n, 1..n)
  <2>1. p \in Surjection(1..n, 1..n)
    BY <1>2, <1>11, FS_Injection
  <2> QED BY <2>1, <1>11 DEF Bijection
<1>13. ASSUME NEW i \in 1..n, NEW j \in 1..n, i < j
       PROVE  ~Precedes17(r[p[j]], r[p[i]])
  <2>1. p[i] \in 1..n /\ p[j] \in 1..n /\ rank[p[i]] = i /\ rank[p[j]] = j
    BY <1>9
  <2>2. p[i] # p[j]
    BY <2>1, <1>13
  <2> QED BY <2>1, <2>2, <1>6, <1>13
<1>14. Orders17(p, r)
  BY <1>13 DEF Orders17, n
<1> QED BY <1>12, <1>14 DEF n

(***************************************************************************)
(* What is hashed are the readings, in ascending order.                    *)
(***************************************************************************)
LEMMA HashSorts ==
  ASSUME NEW r \in Readings17, Distinct17(r)
  PROVE  /\ StateHash(r) \in Readings17 /\ Len(StateHash(r)) = Len(r)
         /\ Ascends17(StateHash(r))
         /\ ToSet(StateHash(r)) = ToSet(r)
<1> DEFINE n == Len(r)
           order == CHOOSE p \in Bijection(1..n, 1..n) : Orders17(p, r)
<1>1. n \in Nat /\ DOMAIN r = 1..n /\ \A i \in 1..n : r[i] \in Sources \X Nat
  BY DEF Readings17
<1>2. order \in Bijection(1..n, 1..n) /\ Orders17(order, r)
  BY SortExists
<1>3. StateHash(r) = [i \in 1..n |-> r[order[i]]]
  BY DEF StateHash, Orders17
<1> HIDE DEF order
<1>4. PICK p : p = order
  OBVIOUS
<1>5. /\ p \in [1..n -> 1..n]
      /\ \A i, j \in 1..n : p[i] = p[j] => i = j
      /\ \A k \in 1..n : \E i \in 1..n : p[i] = k
  BY <1>2, <1>4 DEF Bijection, Injection, IsInjective, Surjection
<1>6. PICK h : h = StateHash(r)
  OBVIOUS
<1> HIDE DEF n
<1>7. h = [i \in 1..n |-> r[p[i]]]
  BY <1>3, <1>4, <1>6
<1>8. \A i \in 1..n : p[i] \in 1..n /\ h[i] = r[p[i]] /\ h[i] \in Sources \X Nat
  BY <1>1, <1>5, <1>7
<1>9. h \in Readings17 /\ Len(h) = n /\ DOMAIN h = 1..n
  <2>1. h \in [1..n -> Sources \X Nat]
    BY <1>7, <1>8
  <2>2. h \in Seq(Sources \X Nat)
    BY <2>1, <1>1, SeqDef
  <2>3. DOMAIN h = 1..n
    BY <2>1
  <2>4. Len(h) = n
    BY <2>2, <2>3, <1>1, LenProperties
  <2> QED BY <2>2, <2>3, <2>4 DEF Readings17
<1>10. Ascends17(h)
  <2>1. SUFFICES ASSUME NEW i \in 1..n, NEW j \in 1..n, i < j
                 PROVE  Precedes17(h[i], h[j])
    BY <1>9 DEF Ascends17
  <2>2. ~Precedes17(h[j], h[i])
    BY <1>2, <1>4, <1>8, <2>1 DEF Orders17, n
  <2>3. p[i] # p[j]
    BY <1>1, <1>5, <2>1
  <2>4. h[i][1] # h[j][1]
    <3>1. \A k, l \in 1..n : r[k][1] = r[l][1] => k = l
      BY DEF Distinct17, n
    <3>2. p[i] \in 1..n /\ p[j] \in 1..n /\ h[i] = r[p[i]] /\ h[j] = r[p[j]]
      BY <1>8
    <3> QED BY <2>3, <3>1, <3>2
  <2>5. PICK a \in Sources \X Nat, b \in Sources \X Nat : a = h[i] /\ b = h[j]
    BY <1>8
  <2>6. a[1] = b[1] \/ Precedes17(a, b) \/ Precedes17(b, a)
    BY PrecedesOrder
  <2> QED BY <2>2, <2>4, <2>5, <2>6
<1>11. ToSet(h) = ToSet(r)
  <2>1. ASSUME NEW x \in ToSet(h) PROVE x \in ToSet(r)
    <3>1. PICK i \in 1..n : x = h[i]
      BY <1>9, <2>1 DEF ToSet
    <3> QED BY <3>1, <1>1, <1>8 DEF ToSet
  <2>2. ASSUME NEW x \in ToSet(r) PROVE x \in ToSet(h)
    <3>1. PICK k \in 1..n : x = r[k]
      BY <1>1, <2>2 DEF ToSet
    <3>2. PICK i \in 1..n : p[i] = k
      BY <1>5
    <3>3. x = h[i]
      BY <3>1, <3>2, <1>8
    <3> QED BY <3>3, <1>9 DEF ToSet
  <2> QED BY <2>1, <2>2
<1> QED BY <1>6, <1>9, <1>10, <1>11 DEF n

(***************************************************************************)
(* There is one way to list a set of readings in ascending order.          *)
(***************************************************************************)
LEMMA AscendingUnique ==
  ASSUME NEW g \in Readings17, NEW h \in Readings17, Len(g) = Len(h),
         Ascends17(g), Ascends17(h), ToSet(g) = ToSet(h)
  PROVE  g = h
<1> DEFINE n == Len(g)
           Differ == {i \in 1..n : g[i] # h[i]}
<1>1. /\ n \in Nat /\ n = Len(h) /\ DOMAIN g = 1..n /\ DOMAIN h = 1..n
      /\ \A i \in 1..n : g[i] \in Sources \X Nat /\ h[i] \in Sources \X Nat
  BY DEF Readings17
<1>2. CASE Differ # {}
  <2>1. Differ \in SUBSET Nat
    BY <1>1
  <2>2. PICK m \in Differ : \A k \in Differ : m <= k
    BY <1>2, <2>1, LeastElement
  <2>3. m \in 1..n /\ g[m] # h[m] /\ \A k \in 1..n : k < m => g[k] = h[k]
    <3>1. m \in 1..n /\ g[m] # h[m]
      OBVIOUS
    <3>2. ASSUME NEW k \in 1..n, k < m PROVE g[k] = h[k]
      <4>1. k \in Differ => m <= k
        BY <2>2
      <4>2. k \notin Differ
        BY <4>1, <3>1, <3>2, <1>1
      <4> QED BY <4>2
    <3> QED BY <3>1, <3>2
  <2> HIDE DEF Differ, n
  <2>4. PICK k \in 1..n : g[m] = h[k]
    <3>1. g[m] \in ToSet(h)
      BY <1>1, <2>3 DEF ToSet
    <3> QED BY <3>1, <1>1 DEF ToSet
  <2>5. PICK l \in 1..n : h[m] = g[l]
    <3>1. h[m] \in ToSet(g)
      BY <1>1, <2>3 DEF ToSet
    <3> QED BY <3>1, <1>1 DEF ToSet
  <2>6. /\ \A i, j \in 1..n : i < j => Precedes17(g[i], g[j])
        /\ \A i, j \in 1..n : i < j => Precedes17(h[i], h[j])
    BY <1>1 DEF Ascends17, n
  <2>7. m < k
    <3>1. k # m
      BY <2>3, <2>4
    <3>2. ~(k < m)
      <4>1. SUFFICES ASSUME k < m PROVE FALSE
        OBVIOUS
      <4>2. g[k] = h[k] /\ Precedes17(g[k], g[m])
        BY <2>3, <2>6, <4>1
      <4>3. Precedes17(g[m], g[m])
        BY <4>2, <2>4
      <4> QED BY <4>3, <1>1, <2>3, PrecedesOrder
    <3> QED BY <3>1, <3>2, <1>1, <2>3
  <2>8. m < l
    <3>1. l # m
      BY <2>3, <2>5
    <3>2. ~(l < m)
      <4>1. SUFFICES ASSUME l < m PROVE FALSE
        OBVIOUS
      <4>2. g[l] = h[l] /\ Precedes17(h[l], h[m])
        BY <2>3, <2>6, <4>1
      <4>3. Precedes17(h[m], h[m])
        BY <4>2, <2>5
      <4> QED BY <4>3, <1>1, <2>3, PrecedesOrder
    <3> QED BY <3>1, <3>2, <1>1, <2>3
  <2>9. Precedes17(h[m], g[m])
    BY <2>3, <2>4, <2>6, <2>7
  <2>10. Precedes17(g[m], h[m])
    BY <2>3, <2>5, <2>6, <2>8
  <2> QED BY <2>9, <2>10, <1>1, <2>3, PrecedesOrder
<1>3. CASE Differ = {}
  <2>1. \A i \in 1..n : g[i] = h[i]
    BY <1>3
  <2> HIDE DEF n, Differ
  <2>2. g = [i \in 1..n |-> g[i]] /\ h = [i \in 1..n |-> h[i]]
    BY <1>1 DEF Readings17
  <2> QED BY <2>1, <2>2
<1> QED BY <1>2, <1>3

(***************************************************************************)
(* Two lists of readings of all sources have one hash exactly when they    *)
(* hold the same readings.                                                 *)
(***************************************************************************)
LEMMA HashIsSet ==
  ASSUME NEW r \in Readings17, NEW s \in Readings17, Len(r) = Len(s),
         Distinct17(r), Distinct17(s)
  PROVE  StateHash(r) = StateHash(s) <=> ToSet(r) = ToSet(s)
<1>1. /\ StateHash(r) \in Readings17 /\ Len(StateHash(r)) = Len(r)
      /\ Ascends17(StateHash(r)) /\ ToSet(StateHash(r)) = ToSet(r)
  BY HashSorts
<1>2. /\ StateHash(s) \in Readings17 /\ Len(StateHash(s)) = Len(s)
      /\ Ascends17(StateHash(s)) /\ ToSet(StateHash(s)) = ToSet(s)
  BY HashSorts
<1>3. PICK g, h : g = StateHash(r) /\ h = StateHash(s)
  OBVIOUS
<1>4. ToSet(r) = ToSet(s) => g = h
  BY <1>1, <1>2, <1>3, AscendingUnique
<1> QED BY <1>1, <1>2, <1>3, <1>4

(***************************************************************************)
(* The invariant: a party that reads has every source either behind or     *)
(* before it, so that what it hashes holds every source once; what is      *)
(* anchored, what the verifier took from there and what it compares are    *)
(* hashes of such lists.                                                   *)
(***************************************************************************)
Parties17 ==
  [step : {"idle", "read", "valid", "invalid"}, todo : Seq(Sources),
   read : Readings17, hash : Readings17, last : Readings17]
Anchors17 == [hash : Readings17, read : Readings17]

ReadsAll17(read, todo) ==
  /\ Len(read) + Len(todo) = Cardinality(Sources)
  /\ \A s \in Sources : \/ \E i \in 1..Len(read) : read[i][1] = s
                        \/ \E i \in 1..Len(todo) : todo[i] = s

Complete17(r) ==
  /\ r \in Readings17 /\ Len(r) = Cardinality(Sources)
  /\ \A s \in Sources : \E i \in 1..Len(r) : r[i][1] = s

HashOf17(h, r) == Complete17(r) /\ h = StateHash(r)

PartyOK(p) ==
  /\ p \in Parties17
  /\ p.step = "idle" => p.read = << >>
  /\ p.step = "read" => ReadsAll17(p.read, p.todo)

VerifierOK(v) ==
  /\ v.step # "idle" => HashOf17(v.hash, v.last)
  /\ v.step \in {"valid", "invalid"} =>
       Complete17(v.read) /\ (v.step = "valid" <=> StateHash(v.read) = v.hash)

AnchoredOK(a) ==
  /\ a \in Seq(Anchors17)
  /\ \A i \in 1..Len(a) : HashOf17(a[i].hash, a[i].read)

HashesInv ==
  /\ running \in [Sources -> Nat]
  /\ PartyOK(publisher) /\ PartyOK(verifier)
  /\ VerifierOK(verifier)
  /\ AnchoredOK(anchored)

LEMMA SourcesCounted == Cardinality(Sources) \in Nat
BY SourcesTyped, FS_CardinalityType

LEMMA CompleteDistinct ==
  ASSUME NEW r, Complete17(r)
  PROVE  Distinct17(r)
<1> DEFINE ids == [i \in 1..Len(r) |-> r[i][1]]
<1>1. Len(r) \in Nat /\ \A i \in 1..Len(r) : r[i] \in Sources \X Nat
  BY DEF Complete17, Readings17
<1>2. IsFiniteSet(1..Len(r)) /\ Cardinality(1..Len(r)) = Len(r)
  BY <1>1, FS_Interval
<1>3. ids \in [1..Len(r) -> Sources] /\ \A i \in 1..Len(r) : ids[i] = r[i][1]
  BY <1>1
<1> HIDE DEF ids
<1>4. ids \in Surjection(1..Len(r), Sources)
  BY <1>3 DEF Surjection, Complete17
<1>5. Cardinality(1..Len(r)) = Cardinality(Sources)
  BY <1>2 DEF Complete17
<1>6. ids \in Injection(1..Len(r), Sources)
  BY <1>2, <1>4, <1>5, FS_SurjSameCardinalityImpliesInj
<1> QED BY <1>3, <1>6 DEF Injection, IsInjective, Distinct17

LEMMA HashOfComplete ==
  ASSUME NEW r, Complete17(r)
  PROVE  r \in Readings17 /\ StateHash(r) \in Readings17 /\ HashOf17(StateHash(r), r)
<1>1. r \in Readings17 /\ Distinct17(r)
  BY CompleteDistinct DEF Complete17
<1> QED BY <1>1, HashSorts DEF HashOf17

(***************************************************************************)
(* A listing names every source, and a party that begins to read one has   *)
(* all of it before it.                                                    *)
(***************************************************************************)
LEMMA ListingReads ==
  ASSUME NEW todo \in Listings
  PROVE  todo \in Seq(Sources) /\ ReadsAll17(<< >>, todo)
<1>1. Cardinality(Sources) \in Nat
  BY SourcesCounted
<1>2. todo \in [1..Cardinality(Sources) -> Sources] /\ ToSet(todo) = Sources
  BY DEF Listings
<1>3. todo \in Seq(Sources)
  BY <1>1, <1>2, SeqDef
<1>4. Len(todo) = Cardinality(Sources) /\ DOMAIN todo = 1..Len(todo)
  BY <1>1, <1>2, <1>3, LenProperties
<1>5. \A s \in Sources : \E i \in 1..Len(todo) : todo[i] = s
  BY <1>2, <1>4 DEF ToSet
<1>6. Len(<< >>) + Len(todo) = Cardinality(Sources)
  BY <1>1, <1>4
<1> QED BY <1>3, <1>5, <1>6 DEF ReadsAll17

(***************************************************************************)
(* Reading the next source moves it from what is left to what was read.    *)
(***************************************************************************)
LEMMA ReadingMovesOn ==
  ASSUME NEW todo \in Seq(Sources), NEW read \in Readings17, NEW k \in Nat,
         todo # << >>, ReadsAll17(read, todo)
  PROVE  /\ Tail(todo) \in Seq(Sources)
         /\ Append(read, <<Head(todo), k>>) \in Readings17
         /\ ReadsAll17(Append(read, <<Head(todo), k>>), Tail(todo))
<1>1. Head(todo) \in Sources /\ Head(todo) = todo[1] /\ Len(todo) \in Nat \ {0}
  OBVIOUS
<1>2. PICK x : x = <<Head(todo), k>>
  OBVIOUS
<1>3. x \in Sources \X Nat /\ x[1] = todo[1]
  BY <1>1, <1>2
<1>4. PICK t : t = Tail(todo)
  OBVIOUS
<1>5. /\ t \in Seq(Sources) /\ Len(t) = Len(todo) - 1
      /\ \A i \in 1..Len(t) : t[i] = todo[i + 1]
  BY <1>4, HeadTailProperties
<1>6. PICK r : r = Append(read, x)
  OBVIOUS
<1>7. /\ r \in Seq(Sources \X Nat) /\ Len(r) = Len(read) + 1
      /\ \A i \in 1..Len(read) : r[i] = read[i]
      /\ r[Len(read) + 1] = x
  <2>1. read \in Seq(Sources \X Nat)
    BY DEF Readings17
  <2> QED BY <2>1, <1>3, <1>6, AppendProperties
<1>8. Len(read) \in Nat
  BY DEF Readings17
<1>9. Len(r) + Len(t) = Cardinality(Sources)
  BY <1>1, <1>5, <1>7, <1>8 DEF ReadsAll17
<1>10. ASSUME NEW s \in Sources
       PROVE  \/ \E i \in 1..Len(r) : r[i][1] = s
              \/ \E i \in 1..Len(t) : t[i] = s
  <2>1. CASE \E i \in 1..Len(read) : read[i][1] = s
    <3>1. PICK i \in 1..Len(read) : read[i][1] = s
      BY <2>1
    <3>2. i \in 1..Len(r) /\ r[i][1] = s
      BY <3>1, <1>7, <1>8
    <3> QED BY <3>2
  <2>2. CASE \E i \in 1..Len(todo) : todo[i] = s
    <3>1. PICK i \in 1..Len(todo) : todo[i] = s
      BY <2>2
    <3>2. CASE i = 1
      <4>1. Len(read) + 1 \in 1..Len(r) /\ r[Len(read) + 1][1] = s
        BY <3>1, <3>2, <1>3, <1>7, <1>8
      <4> QED BY <4>1
    <3>3. CASE i # 1
      <4>1. i - 1 \in 1..Len(t)
        BY <3>1, <3>3, <1>1, <1>5
      <4>2. t[i - 1] = todo[i]
        BY <4>1, <1>5
      <4> QED BY <4>1, <4>2, <3>1
    <3> QED BY <3>2, <3>3
  <2> QED BY <2>1, <2>2 DEF ReadsAll17
<1>11. ReadsAll17(r, t)
  BY <1>9, <1>10 DEF ReadsAll17
<1> QED BY <1>2, <1>4, <1>5, <1>6, <1>7, <1>11 DEF Readings17

LEMMA AllWasRead ==
  ASSUME NEW read \in Readings17, ReadsAll17(read, << >>)
  PROVE  Complete17(read)
<1>1. Len(read) \in Nat /\ Len(<< >>) = 0
  BY DEF Readings17
<1> QED BY <1>1 DEF ReadsAll17, Complete17

-----------------------------------------------------------------------------
LEMMA PartyReads ==
  ASSUME NEW p, PartyOK(p), p.step = "read", p.todo # << >>,
         NEW k \in Nat, NEW q,
         q = [p EXCEPT !.todo = Tail(@), !.read = Append(@, <<Head(p.todo), k>>)]
  PROVE  PartyOK(q)
<1>1. /\ p \in Parties17 /\ p.todo \in Seq(Sources) /\ p.read \in Readings17
      /\ ReadsAll17(p.read, p.todo)
  BY DEF PartyOK, Parties17
<1>2. PICK t, r : t = Tail(p.todo) /\ r = Append(p.read, <<Head(p.todo), k>>)
  OBVIOUS
<1>3. t \in Seq(Sources) /\ r \in Readings17 /\ ReadsAll17(r, t)
  BY <1>1, <1>2, ReadingMovesOn
<1>4. q = [p EXCEPT !.todo = t, !.read = r]
  BY <1>1, <1>2 DEF Parties17
<1>5. q \in Parties17
  BY <1>1, <1>3, <1>4 DEF Parties17
<1>6. q.step = "read" /\ q.todo = t /\ q.read = r
  BY <1>1, <1>4 DEF Parties17
<1> QED BY <1>3, <1>5, <1>6 DEF PartyOK

LEMMA NobodyOK == PartyOK(Nobody17) /\ VerifierOK(Nobody17)
<1>1. << >> \in Seq(Sources) /\ << >> \in Readings17
  BY DEF Readings17
<1>2. Nobody17 \in Parties17 /\ Nobody17.step = "idle" /\ Nobody17.read = << >>
  BY <1>1 DEF Nobody17, Parties17
<1> QED BY <1>2 DEF PartyOK, VerifierOK

LEMMA HashesInitInv == HashesInit => HashesInv
<1> SUFFICES ASSUME HashesInit PROVE HashesInv
  OBVIOUS
<1>1. running \in [Sources -> Nat]
  BY DEF HashesInit
<1>2. AnchoredOK(anchored)
  <2>1. anchored = << >>
    BY DEF HashesInit
  <2>2. << >> \in Seq(Anchors17) /\ Len(<< >>) = 0
    OBVIOUS
  <2> QED BY <2>1, <2>2 DEF AnchoredOK
<1> QED BY <1>1, <1>2, NobodyOK DEF HashesInit, HashesInv

LEMMA GrowsTyped ==
  running \in [Sources -> Nat] /\ (\E s \in Sources : Grows(s)) => running' \in [Sources -> Nat]
<1> SUFFICES ASSUME running \in [Sources -> Nat], NEW s \in Sources, Grows(s)
             PROVE  running' \in [Sources -> Nat]
  OBVIOUS
<1>1. running' = [running EXCEPT ![s] = @ + 1]
  BY DEF Grows
<1> QED BY <1>1

LEMMA GrowsStep ==
  ASSUME HashesInv, NEW s \in Sources, SourceGrows(s)
  PROVE  HashesInv'
<1>1. running' \in [Sources -> Nat]
  BY GrowsTyped DEF SourceGrows, HashesInv
<1> QED BY <1>1 DEF SourceGrows, HashesInv

LEMMA ComputeStep == HashesInv /\ ComputeAndPublish => HashesInv'
<1> SUFFICES ASSUME HashesInv, ComputeAndPublish PROVE HashesInv'
  OBVIOUS
<1>1. PICK listing \in Listings :
        publisher' = [publisher EXCEPT !.step = "read", !.todo = listing]
  BY DEF ComputeAndPublish
<1> PICK p, q : p = publisher /\ q = [p EXCEPT !.step = "read", !.todo = listing]
  OBVIOUS
<1>2. p \in Parties17 /\ p.read = << >>
  BY DEF HashesInv, PartyOK, ComputeAndPublish
<1>3. listing \in Seq(Sources) /\ ReadsAll17(<< >>, listing)
  BY ListingReads
<1>4. q \in Parties17
  BY <1>2, <1>3 DEF Parties17
<1>5. q.step = "read" /\ q.todo = listing /\ q.read = << >>
  BY <1>2 DEF Parties17
<1>6. PartyOK(q)
  BY <1>3, <1>4, <1>5 DEF PartyOK
<1>7. publisher' = q
  BY <1>1
<1>8. PartyOK(publisher')
  BY <1>6, <1>7
<1> QED BY <1>8 DEF HashesInv, ComputeAndPublish

LEMMA ReadStep == HashesInv /\ ReadState => HashesInv'
<1> SUFFICES ASSUME HashesInv, ReadState PROVE HashesInv'
  OBVIOUS
<1> PICK p, k : p = publisher /\ k = running[Head(publisher.todo)]
  OBVIOUS
<1>1. PartyOK(p) /\ p.step = "read" /\ p.todo # << >>
  BY DEF HashesInv, ReadState
<1>2. k \in Nat
  <2>1. p.todo \in Seq(Sources)
    BY <1>1 DEF PartyOK, Parties17
  <2>2. Head(p.todo) \in Sources
    BY <2>1, <1>1
  <2> QED BY <2>2 DEF HashesInv
<1>3. PICK q : q = [p EXCEPT !.todo = Tail(@), !.read = Append(@, <<Head(p.todo), k>>)]
  OBVIOUS
<1>4. PartyOK(q)
  BY <1>1, <1>2, <1>3, PartyReads
<1>5. publisher' = q
  BY <1>3 DEF ReadState, ReadsNext
<1>6. PartyOK(publisher')
  BY <1>4, <1>5
<1> QED BY <1>6 DEF HashesInv, ReadState

LEMMA SubmitHashStep == HashesInv /\ SubmitStateHash => HashesInv'
<1> SUFFICES ASSUME HashesInv, SubmitStateHash PROVE HashesInv'
  OBVIOUS
<1> PICK r, a, b : /\ r = publisher.read /\ a = anchored
                   /\ b = Append(a, [hash |-> StateHash(r), read |-> r])
  OBVIOUS
<1>1. r \in Readings17 /\ ReadsAll17(r, << >>)
  BY DEF HashesInv, SubmitStateHash, PartyOK, Parties17
<1>2. Complete17(r)
  BY <1>1, AllWasRead
<1>3. StateHash(r) \in Readings17 /\ HashOf17(StateHash(r), r)
  BY <1>2, HashOfComplete
<1>4. PICK m : m = [hash |-> StateHash(r), read |-> r]
  OBVIOUS
<1>5. m \in Anchors17 /\ HashOf17(m.hash, m.read)
  <2>1. m.hash = StateHash(r) /\ m.read = r
    BY <1>4
  <2>2. m \in Anchors17
    BY <1>1, <1>3, <1>4 DEF Anchors17
  <2> QED BY <2>1, <2>2, <1>3
<1>6. a \in Seq(Anchors17) /\ \A i \in 1..Len(a) : HashOf17(a[i].hash, a[i].read)
  BY DEF HashesInv, AnchoredOK
<1>7. /\ b \in Seq(Anchors17) /\ Len(b) = Len(a) + 1
      /\ \A i \in 1..Len(a) : b[i] = a[i]
      /\ b[Len(a) + 1] = m
  BY <1>4, <1>5, <1>6, AppendProperties
<1>8. ASSUME NEW i \in 1..Len(b) PROVE HashOf17(b[i].hash, b[i].read)
  <2>1. Len(a) \in Nat /\ Len(b) = Len(a) + 1
    BY <1>6, <1>7
  <2>2. i \in 1..Len(a) \/ i = Len(a) + 1
    BY <2>1
  <2> QED BY <2>2, <1>5, <1>6, <1>7
<1>9. AnchoredOK(b)
  BY <1>7, <1>8 DEF AnchoredOK
<1>10. anchored' = b
  BY DEF SubmitStateHash
<1>11. AnchoredOK(anchored')
  BY <1>9, <1>10
<1>12. PartyOK(publisher')
  <2>1. publisher' = Nobody17
    BY DEF SubmitStateHash
  <2>2. PartyOK(Nobody17)
    BY NobodyOK
  <2> QED BY <2>1, <2>2
<1>13. running' \in [Sources -> Nat]
  <2>1. CASE PublishTopic \in Sources /\ running[PublishTopic] < MaxChanges17
    <3>1. PublishTopic \in Sources /\ Grows(PublishTopic)
      BY <2>1 DEF SubmitStateHash
    <3> QED BY <3>1, GrowsTyped DEF HashesInv
  <2>2. CASE ~(PublishTopic \in Sources /\ running[PublishTopic] < MaxChanges17)
    BY <2>2 DEF SubmitStateHash, HashesInv
  <2> QED BY <2>1, <2>2
<1> QED BY <1>11, <1>12, <1>13 DEF HashesInv, SubmitStateHash

LEMMA PublishFailsStep == HashesInv /\ PublishingFails => HashesInv'
<1> SUFFICES ASSUME HashesInv, PublishingFails PROVE HashesInv'
  OBVIOUS
<1>1. PartyOK(publisher')
  <2>1. publisher' = Nobody17
    BY DEF PublishingFails
  <2>2. PartyOK(Nobody17)
    BY NobodyOK
  <2> QED BY <2>1, <2>2
<1> QED BY <1>1 DEF HashesInv, PublishingFails

LEMMA LatestStep == HashesInv /\ GetLatestStateHash => HashesInv'
<1> SUFFICES ASSUME HashesInv, GetLatestStateHash PROVE HashesInv'
  OBVIOUS
<1>1. PICK listing \in Listings :
        verifier' = [verifier EXCEPT !.step = "read", !.todo = listing,
                                     !.hash = Last(anchored).hash,
                                     !.last = Last(anchored).read]
  BY DEF GetLatestStateHash
<1> PICK v, a, h, r, w :
      /\ v = verifier /\ a = anchored /\ h = Last(a).hash /\ r = Last(a).read
      /\ w = [v EXCEPT !.step = "read", !.todo = listing, !.hash = h, !.last = r]
  OBVIOUS
<1>2. v \in Parties17 /\ v.read = << >>
  BY DEF HashesInv, PartyOK, GetLatestStateHash
<1>3. listing \in Seq(Sources) /\ ReadsAll17(<< >>, listing)
  BY ListingReads
<1>4. h \in Readings17 /\ r \in Readings17 /\ HashOf17(h, r)
  <2>1. /\ a \in Seq(Anchors17) /\ a # << >>
        /\ \A i \in 1..Len(a) : HashOf17(a[i].hash, a[i].read)
    BY DEF HashesInv, AnchoredOK, GetLatestStateHash
  <2>2. Len(a) \in 1..Len(a) /\ a[Len(a)] \in Anchors17
    BY <2>1
  <2>3. h = a[Len(a)].hash /\ r = a[Len(a)].read
    BY DEF Last
  <2>4. h \in Readings17 /\ r \in Readings17
    BY <2>2, <2>3 DEF Anchors17
  <2> QED BY <2>1, <2>2, <2>3, <2>4
<1>5. w \in Parties17
  BY <1>2, <1>3, <1>4 DEF Parties17
<1>6. /\ w.step = "read" /\ w.todo = listing /\ w.read = << >>
      /\ w.hash = h /\ w.last = r
  BY <1>2 DEF Parties17
<1>7. PartyOK(w)
  BY <1>3, <1>5, <1>6 DEF PartyOK
<1>8. VerifierOK(w)
  BY <1>4, <1>6 DEF VerifierOK
<1>9. verifier' = w
  BY <1>1
<1>10. PartyOK(verifier') /\ VerifierOK(verifier')
  BY <1>7, <1>8, <1>9
<1> QED BY <1>10 DEF HashesInv, GetLatestStateHash

LEMMA RereadStep == HashesInv /\ RereadState => HashesInv'
<1> SUFFICES ASSUME HashesInv, RereadState PROVE HashesInv'
  OBVIOUS
<1> PICK p, k : p = verifier /\ k = running[Head(verifier.todo)]
  OBVIOUS
<1>1. PartyOK(p) /\ VerifierOK(p) /\ p.step = "read" /\ p.todo # << >>
  BY DEF HashesInv, RereadState
<1>2. k \in Nat
  <2>1. p.todo \in Seq(Sources)
    BY <1>1 DEF PartyOK, Parties17
  <2>2. Head(p.todo) \in Sources
    BY <2>1, <1>1
  <2> QED BY <2>2 DEF HashesInv
<1>3. PICK q : q = [p EXCEPT !.todo = Tail(@), !.read = Append(@, <<Head(p.todo), k>>)]
  OBVIOUS
<1>4. PartyOK(q) /\ q.step = "read" /\ q.hash = p.hash /\ q.last = p.last
  <2>1. PartyOK(p)
    BY <1>1
  <2>2. p.step = "read" /\ p.todo # << >>
    BY <1>1
  <2>3. PartyOK(q)
    BY <1>2, <1>3, <2>1, <2>2, PartyReads
  <2>4. p \in Parties17
    BY <2>1 DEF PartyOK
  <2>5. q.step = "read" /\ q.hash = p.hash /\ q.last = p.last
    BY <1>3, <2>2, <2>4 DEF Parties17
  <2> QED BY <2>3, <2>5
<1>5. VerifierOK(q)
  BY <1>1, <1>4 DEF VerifierOK
<1>6. verifier' = q
  BY <1>3 DEF RereadState, ReadsNext
<1>7. PartyOK(verifier') /\ VerifierOK(verifier')
  BY <1>4, <1>5, <1>6
<1> QED BY <1>7 DEF HashesInv, RereadState

LEMMA VerifyStep == HashesInv /\ VerifyStateHash => HashesInv'
<1> SUFFICES ASSUME HashesInv, VerifyStateHash PROVE HashesInv'
  OBVIOUS
<1> PICK v, x : /\ v = verifier
                /\ x = IF StateHash(v.read) = v.hash THEN "valid" ELSE "invalid"
  OBVIOUS
<1>1. /\ v \in Parties17 /\ v.step = "read" /\ HashOf17(v.hash, v.last)
      /\ ReadsAll17(v.read, << >>)
  BY DEF HashesInv, VerifyStateHash, PartyOK, VerifierOK
<1>2. v.read \in Readings17
  BY <1>1 DEF Parties17
<1>3. Complete17(v.read)
  BY <1>1, <1>2, AllWasRead
<1>4. x \in {"valid", "invalid"} /\ (x = "valid" <=> StateHash(v.read) = v.hash)
  OBVIOUS
<1>5. PICK w : w = [v EXCEPT !.step = x]
  OBVIOUS
<1>6. w \in Parties17
  BY <1>1, <1>4, <1>5 DEF Parties17
<1>7. w.step = x /\ w.read = v.read /\ w.hash = v.hash /\ w.last = v.last
  BY <1>1, <1>5 DEF Parties17
<1>8. PartyOK(w)
  BY <1>4, <1>6, <1>7 DEF PartyOK
<1>9. VerifierOK(w)
  BY <1>1, <1>3, <1>4, <1>7 DEF VerifierOK
<1>10. verifier' = w
  BY <1>5 DEF VerifyStateHash
<1>11. PartyOK(verifier') /\ VerifierOK(verifier')
  BY <1>8, <1>9, <1>10
<1> QED BY <1>11 DEF HashesInv, VerifyStateHash

LEMMA HashesNextInv == HashesInv /\ [HashesNext]_hashVars => HashesInv'
<1> SUFFICES ASSUME HashesInv, [HashesNext]_hashVars PROVE HashesInv'
  OBVIOUS
<1>1. CASE UNCHANGED hashVars
  BY <1>1 DEF hashVars, HashesInv
<1>2. CASE \E s \in Sources : SourceGrows(s)
  BY <1>2, GrowsStep
<1>3. CASE ComputeAndPublish \/ ReadState \/ SubmitStateHash \/ PublishingFails
  BY <1>3, ComputeStep, ReadStep, SubmitHashStep, PublishFailsStep
<1>4. CASE GetLatestStateHash \/ RereadState \/ VerifyStateHash
  BY <1>4, LatestStep, RereadStep, VerifyStep
<1> QED BY <1>1, <1>2, <1>3, <1>4 DEF HashesNext

(***************************************************************************)
(* For any finite number of topics and members, however many messages      *)
(* arrive while they are read and in whatever order the two list them, a   *)
(* state hash verifies exactly when every source read as it did for its    *)
(* publisher.                                                              *)
(***************************************************************************)
THEOREM HashesMeanStates == HashesSpec => []HashMeansState
<1>1. HashesInv => HashMeansState
  <2> SUFFICES ASSUME HashesInv, verifier.step \in {"valid", "invalid"}
               PROVE  verifier.step = "valid" <=> ToSet(verifier.read) = ToSet(verifier.last)
    BY DEF HashMeansState
  <2> PICK v : v = verifier
    OBVIOUS
  <2>1. /\ Complete17(v.read) /\ (v.step = "valid" <=> StateHash(v.read) = v.hash)
        /\ HashOf17(v.hash, v.last)
    BY DEF HashesInv, VerifierOK
  <2>2. PICK r, s : r = v.read /\ s = v.last
    OBVIOUS
  <2>3. Complete17(r) /\ Complete17(s) /\ v.hash = StateHash(s)
    BY <2>1, <2>2 DEF HashOf17
  <2>4. Distinct17(r) /\ Distinct17(s)
    BY <2>3, CompleteDistinct
  <2>5. r \in Readings17 /\ s \in Readings17 /\ Len(r) = Len(s)
    BY <2>3 DEF Complete17
  <2>6. StateHash(r) = StateHash(s) <=> ToSet(r) = ToSet(s)
    BY <2>4, <2>5, HashIsSet
  <2> QED BY <2>1, <2>2, <2>3, <2>6
<1> QED BY <1>1, HashesInitInv, HashesNextInv, PTL DEF HashesSpec
=============================================================================
