---------------------------- MODULE BrokerRequests ----------------------------
(***************************************************************************)
(* The default headers of a RegistryBrokerClient and the requests that     *)
(* carry them (client.go), with the ledger login of ledger_auth.go, for    *)
(* goroutines that share one client.                                       *)
(*                                                                         *)
(* The mutex guards each access to the map and no more: SetLedgerAPIKey is *)
(* two critical sections, a login that also sets the account id three.     *)
(* Only the bearer token of an OIDC upload (skills_status.go) is kept of   *)
(* the headers a call passes itself; the other calls send one request with *)
(* the default headers.  SharesTheMap and KeepsFormerKey are wrong         *)
(* variants.                                                               *)
(***************************************************************************)
CONSTANTS
  Goroutines,   \* that share the client
  Keys,         \* values a default header is given
  Bearer,       \* the token of a call
  NoValue       \* the header is not in the map

ASSUME BrokerRequestsAssumption == Keys \cap {Bearer, NoValue} = {} /\ Bearer # NoValue

Headers == {"x-api-key", "x-ledger-api-key", "x-account-id", "authorization"}

VARIABLES
  defaultHeaders,  \* client.defaultHeaders
  login,           \* what each goroutine is doing, and the key its login was given
  carried,         \* the headers of the request sent last, and what its call passed
  fresh            \* history: the headers set or deleted since each login got its key

requestVars == <<defaultHeaders, login, carried, fresh>>

Unset == [h \in Headers |-> NoValue]

RequestsInit ==
  /\ defaultHeaders = Unset
  /\ login = [g \in Goroutines |-> [step |-> "none", key |-> NoValue]]
  /\ carried = [headers |-> Unset, token |-> NoValue]
  /\ fresh = [g \in Goroutines |-> {}]

Goes(g, step, key) == login' = [login EXCEPT ![g] = [step |-> step, key |-> key]]

-----------------------------------------------------------------------------
(***************************************************************************)
(* NewRegistryBrokerClient: the default headers of the options, over which *)
(* an API key goes; a ledger key only fills an empty x-api-key.            *)
(***************************************************************************)
NewRegistryBrokerClient ==
  /\ \A g \in Goroutines : login[g].step = "none"
  /\ \E given \in [Headers -> Keys \cup {NoValue}], api, ledger \in Keys \cup {NoValue} :
       defaultHeaders' = [given EXCEPT !["x-api-key"] =
         IF api # NoValue THEN api ELSE IF @ # NoValue THEN @ ELSE ledger]
  /\ login' = [g \in Goroutines |-> [step |-> "idle", key |-> NoValue]]
  /\ UNCHANGED <<carried, fresh>>

(***************************************************************************)
(* One critical section: a header gets a value or is deleted.              *)
(***************************************************************************)
Sets(name, value) ==
  /\ defaultHeaders' = [defaultHeaders EXCEPT ![name] = value]
  /\ fresh' = [g \in Goroutines |->
       IF login[g].step \in {"keyed", "account", "loggedIn"} THEN fresh[g] \cup {name}
       ELSE fresh[g]]
  /\ UNCHANGED carried

SetDefaultHeader(name, value) == Sets(name, value) /\ UNCHANGED login

(***************************************************************************)
(* request: a copy of the default headers, overlaid with those of the call.*)
(***************************************************************************)
Merged(token) ==
  IF token = NoValue THEN defaultHeaders
  ELSE [defaultHeaders EXCEPT !["authorization"] = token]

SharesTheMap(token) == defaultHeaders' = Merged(token)
CopiesTheMap(token) == defaultHeaders' = defaultHeaders

Request(token) ==
  /\ carried' = [headers |-> Merged(token), token |-> token]
  /\ CopiesTheMap(token)
  /\ UNCHANGED fresh

Upload == Request(Bearer)
Plain  == Request(NoValue)

Call(g) ==
  /\ login[g].step \in {"idle", "loggedIn"}
  /\ Upload \/ Plain
  /\ UNCHANGED login

-----------------------------------------------------------------------------
(***************************************************************************)
(* A login: the challenge and its signed answer are requests like others,  *)
(* after which the broker's key replaces the API key ...                   *)
(***************************************************************************)
CreateLedgerChallenge(g) ==
  /\ login[g].step = "idle"
  /\ Plain
  /\ Goes(g, "challenged", NoValue)

VerifyLedgerChallenge(g) ==
  /\ login[g].step = "challenged"
  /\ Plain
  /\ Goes(g, "idle", NoValue) \/ \E key \in Keys : Goes(g, "verified", key)

SetLedgerAPIKey(g) ==
  /\ login[g].step = "verified"
  /\ defaultHeaders' = [defaultHeaders EXCEPT !["x-api-key"] = login[g].key]
  /\ fresh' = [h \in Goroutines |->
       IF h = g \/ login[h].step \in {"keyed", "account", "loggedIn"}
       THEN fresh[h] \cup {"x-api-key"} ELSE fresh[h]]
  /\ Goes(g, "keyed", NoValue)
  /\ UNCHANGED carried

(***************************************************************************)
(* ... and, in a critical section of its own, a former ledger key goes,    *)
(* whoever set it; the account id may follow in a third one.               *)
(***************************************************************************)
KeepsFormerKey(g) == UNCHANGED <<defaultHeaders, carried, fresh>>
DropsFormerKey(g) == Sets("x-ledger-api-key", NoValue)

DropLedgerKey(g) ==
  /\ login[g].step = "keyed"
  /\ DropsFormerKey(g)
  /\ Goes(g, "loggedIn", NoValue) \/ Goes(g, "account", NoValue)

SetAccountHeader(g) ==
  /\ login[g].step = "account"
  /\ \E account \in Keys : Sets("x-account-id", account)
  /\ Goes(g, "loggedIn", NoValue)

RequestsNext ==
  \/ NewRegistryBrokerClient
  \/ /\ \E g \in Goroutines : login[g].step # "none"
     /\ \E h \in Headers, v \in Keys \cup {NoValue} : SetDefaultHeader(h, v)
  \/ \E g \in Goroutines :
       \/ Call(g)
       \/ CreateLedgerChallenge(g)
       \/ VerifyLedgerChallenge(g)
       \/ SetLedgerAPIKey(g)
       \/ DropLedgerKey(g)
       \/ SetAccountHeader(g)

RequestsSpec == RequestsInit /\ [][RequestsNext]_requestVars

-----------------------------------------------------------------------------
(***************************************************************************)
(* What a call passes goes out with that call alone: no request carries    *)
(* the bearer token of another goroutine's upload.  And once a login has   *)
(* returned, both keys that the client sends were set by it or later, also *)
(* when other logins and setters ran between its critical sections.        *)
(***************************************************************************)
HeadersAreTheCallers ==
  /\ carried.headers["authorization"] = Bearer => carried.token = Bearer
  /\ \A g \in Goroutines : login[g].step \in {"account", "loggedIn"} =>
       {"x-api-key", "x-ledger-api-key"} \subseteq fresh[g]
=============================================================================
