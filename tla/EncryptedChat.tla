---------------------------- MODULE EncryptedChat ----------------------------
(***************************************************************************)
(* The conversations of the Registry Broker client                         *)
(* (registrybroker/chat.go, encrypted_chat.go): StartConversation on one   *)
(* side, AcceptConversation on the other, for one chat session.            *)
(*                                                                         *)
(* A party that wants encryption posts an ephemeral public key under its   *)
(* role and polls the session until the broker has the keys of both roles. *)
(* It falls back to plaintext only if the broker says that the session is  *)
(* not encrypted.  A call can fail at every request, and each of its waits *)
(* has a deadline, which is looked at after a status that was not good.    *)
(*                                                                         *)
(* There is one StartConversation call, because it creates the session,    *)
(* and any number of AcceptConversation calls for it.  A call generates    *)
(* one key pair, so a key is named by the call it belongs to.              *)
(***************************************************************************)
EXTENDS Integers

CONSTANTS
  Requester,    \* the StartConversation call
  Responders,   \* the AcceptConversation calls
  NoCall,
  Preferences   \* the preferences callers state

ASSUME CallsAssumption ==
  /\ Requester \notin Responders
  /\ NoCall \notin Responders \cup {Requester}
  /\ Preferences \subseteq {"disabled", "preferred", "required"}

VARIABLES
  session,     \* the broker's session: none, plain, open (not yet encrypted), enabled
  posted,      \* the key the broker holds for each role
  preference,  \* options.Encryption.Preference of each call
  phase,       \* where each call is
  expired,     \* the deadline of the wait a call is in has passed
  peer,        \* the peer's key a call has received
  handle,      \* what a call has returned
  secret,      \* sharedSecret of the handle it returned
  mayTopUp,    \* the requester's client buys credits when history needs them
  topUps       \* how often it did

chatVars == <<session, posted, preference, phase, expired, peer, handle, secret,
              mayTopUp, topUps>>
broker  == <<session, posted>>
credits == <<mayTopUp, topUps>>

Calls == {Requester} \cup Responders
Roles == {"requester", "responder"}
Role(c) == IF c = Requester THEN "requester" ELSE "responder"
OtherRole(c) == IF c = Requester THEN "responder" ELSE "requester"

Polling == {"poll", "check", "summary", "unready"}
Phases == {"idle", "create", "post", "derived", "returned"} \cup Polling

(***************************************************************************)
(* The secret both ends of a key exchange derive: it depends on the two    *)
(* key pairs and not on who derives it.                                    *)
(***************************************************************************)
SharedSecret(own, other) == {own, other}
NoSecret == {}

ChatInit ==
  /\ session = "none"
  /\ posted = [r \in Roles |-> NoCall]
  /\ preference \in [Calls -> Preferences]
  /\ phase = [c \in Calls |-> "idle"]
  /\ expired = [c \in Calls |-> FALSE]
  /\ peer = [c \in Calls |-> NoCall]
  /\ handle = [c \in Calls |-> "none"]
  /\ secret = [c \in Calls |-> NoSecret]
  /\ mayTopUp \in BOOLEAN
  /\ topUps = 0

-----------------------------------------------------------------------------
Move(c, to) == phase' = [phase EXCEPT ![c] = to]

Return(c, what) ==
  /\ handle' = [handle EXCEPT ![c] = what]
  /\ Move(c, "returned")

(***************************************************************************)
(* What a call makes of an EncryptionUnavailableError.                     *)
(***************************************************************************)
Fallback(c) == IF preference[c] = "required" THEN "error" ELSE "plaintext"

(***************************************************************************)
(* The test of a wait's deadline.                                          *)
(***************************************************************************)
NeverTimedOut(c) == FALSE
TimedOut(c) == expired[c]

(***************************************************************************)
(* Requests that fail, a context that is cancelled, a peer key that is     *)
(* missing or malformed: whatever the preference, the call returns the     *)
(* error.                                                                  *)
(***************************************************************************)
CallFails(c) ==
  /\ phase[c] \notin {"idle", "returned"}
  /\ phase[c] \in {"check", "unready"} => ~TimedOut(c)
  /\ Return(c, "error")
  /\ UNCHANGED <<broker, preference, expired, peer, secret, credits>>

StartConversation(c) ==
  /\ c = Requester
  /\ phase[c] = "idle"
  /\ Move(c, "create")
  /\ UNCHANGED <<broker, preference, expired, peer, handle, secret, credits>>

(***************************************************************************)
(* The broker wants credits before it keeps history.  They are bought      *)
(* once, and the session is asked for once more.                           *)
(***************************************************************************)
TopUpHistoryEveryTime(c) ==
  /\ phase[c] = "create"
  /\ mayTopUp
  /\ topUps' = topUps + 1
  /\ UNCHANGED <<broker, preference, phase, expired, peer, handle, secret, mayTopUp>>

TopUpHistory(c) ==
  /\ phase[c] = "create"
  /\ mayTopUp
  /\ topUps' = topUps + 1
  /\ mayTopUp' = FALSE
  /\ UNCHANGED <<broker, preference, phase, expired, peer, handle, secret>>

CreatePlainSession(c) ==
  /\ phase[c] = "create"
  /\ preference[c] = "disabled"
  /\ session' = "plain"
  /\ Return(c, "plaintext")
  /\ UNCHANGED <<posted, preference, expired, peer, secret, credits>>

CreateUnencryptedSession(c) ==
  /\ phase[c] = "create"
  /\ preference[c] # "disabled"
  /\ session' = "open"
  /\ Return(c, Fallback(c))
  /\ UNCHANGED <<posted, preference, expired, peer, secret, credits>>

CreateEncryptedSession(c) ==
  /\ phase[c] = "create"
  /\ preference[c] # "disabled"
  /\ session' = "enabled"
  /\ Move(c, "post")
  /\ UNCHANGED <<posted, preference, expired, peer, handle, secret, credits>>

-----------------------------------------------------------------------------
(***************************************************************************)
(* The session id has reached the other side.  AcceptConversation waits    *)
(* for the session to become encrypted; the wait for the peer's key that   *)
(* follows has a deadline of its own.                                      *)
(***************************************************************************)
AcceptPlainConversation(c) ==
  /\ c \in Responders
  /\ phase[c] = "idle"
  /\ session # "none"
  /\ preference[c] = "disabled"
  /\ Return(c, "plaintext")
  /\ UNCHANGED <<broker, preference, expired, peer, secret, credits>>

AcceptConversation(c) ==
  /\ c \in Responders
  /\ phase[c] = "idle"
  /\ session # "none"
  /\ preference[c] # "disabled"
  /\ Move(c, "summary")
  /\ UNCHANGED <<broker, preference, expired, peer, handle, secret, credits>>

FetchSummary(c) ==
  /\ phase[c] = "summary"
  /\ Move(c, IF session = "enabled" THEN "post" ELSE "unready")
  /\ UNCHANGED <<broker, preference, expired, peer, handle, secret, credits>>

SummaryTimesOut(c) ==
  /\ phase[c] = "unready"
  /\ TimedOut(c)
  /\ Return(c, Fallback(c))
  /\ UNCHANGED <<broker, preference, expired, peer, secret, credits>>

FetchSummaryAgain(c) ==
  /\ phase[c] = "unready"
  /\ ~TimedOut(c)
  /\ Move(c, "summary")
  /\ UNCHANGED <<broker, preference, expired, peer, handle, secret, credits>>

-----------------------------------------------------------------------------
(***************************************************************************)
(* PostEncryptionHandshake.  A second key for a role replaces the first    *)
(* one or is ignored: that is the broker's choice.  The request can fail   *)
(* although the broker has the key.                                        *)
(***************************************************************************)
BrokerTakes(c) ==
  \/ posted' = [posted EXCEPT ![Role(c)] = c]
  \/ posted[Role(c)] # NoCall /\ posted' = posted

PostHandshake(c) ==
  /\ phase[c] = "post"
  /\ BrokerTakes(c)
  /\ Move(c, "poll")
  /\ expired' = [expired EXCEPT ![c] = FALSE]
  /\ UNCHANGED <<session, preference, peer, handle, secret, credits>>

PostHandshakeFails(c) ==
  /\ phase[c] = "post"
  /\ BrokerTakes(c)
  /\ Return(c, "error")
  /\ UNCHANGED <<session, preference, expired, peer, secret, credits>>

Complete == \A r \in Roles : posted[r] # NoCall

OwnKey(c) == posted[Role(c)]
PeerKey(c) == posted[OtherRole(c)]

FetchStatus(c) ==
  /\ phase[c] = "poll"
  /\ IF Complete
     THEN Move(c, "derived") /\ peer' = [peer EXCEPT ![c] = PeerKey(c)]
     ELSE Move(c, "check") /\ peer' = peer
  /\ UNCHANGED <<broker, preference, expired, handle, secret, credits>>

TimeoutUnavailable(c) == Fallback(c)
TimeoutError(c) == "error"

HandshakeTimesOut(c) ==
  /\ phase[c] = "check"
  /\ TimedOut(c)
  /\ Return(c, TimeoutError(c))
  /\ UNCHANGED <<broker, preference, expired, peer, secret, credits>>

FetchStatusAgain(c) ==
  /\ phase[c] = "check"
  /\ ~TimedOut(c)
  /\ Move(c, "poll")
  /\ UNCHANGED <<broker, preference, expired, peer, handle, secret, credits>>

(***************************************************************************)
(* createEncryptedConversationHandle.                                      *)
(***************************************************************************)
CreateHandle(c) ==
  /\ phase[c] = "derived"
  /\ secret' = [secret EXCEPT ![c] = SharedSecret(c, peer[c])]
  /\ Return(c, "encrypted")
  /\ UNCHANGED <<broker, preference, expired, peer, credits>>

(***************************************************************************)
(* The environment: time, and a broker that turns on the encryption it was *)
(* asked for after it has answered.                                        *)
(***************************************************************************)
DeadlinePasses(c) ==
  /\ phase[c] \in Polling
  /\ ~expired[c]
  /\ expired' = [expired EXCEPT ![c] = TRUE]
  /\ UNCHANGED <<broker, preference, phase, peer, handle, secret, credits>>

EnableEncryption ==
  /\ session = "open"
  /\ session' = "enabled"
  /\ UNCHANGED <<posted, preference, phase, expired, peer, handle, secret, credits>>

-----------------------------------------------------------------------------
(***************************************************************************)
(* A step of a call that nothing outside it can hold up.                   *)
(***************************************************************************)
Progress(c) ==
  \/ CreatePlainSession(c)
  \/ CreateUnencryptedSession(c)
  \/ CreateEncryptedSession(c)
  \/ FetchSummary(c)
  \/ SummaryTimesOut(c)
  \/ FetchSummaryAgain(c)
  \/ PostHandshake(c)
  \/ FetchStatus(c)
  \/ HandshakeTimesOut(c)
  \/ FetchStatusAgain(c)

CallBegins(c) ==
  \/ StartConversation(c)
  \/ AcceptPlainConversation(c)
  \/ AcceptConversation(c)

CallStep(c) ==
  \/ CallBegins(c)
  \/ TopUpHistory(c)
  \/ Progress(c)
  \/ PostHandshakeFails(c)
  \/ CallFails(c)
  \/ DeadlinePasses(c)

ChatNext ==
  \/ \E c \in Calls : CallStep(c) \/ CreateHandle(c)
  \/ EnableEncryption

ChatSpec == ChatInit /\ [][ChatNext]_chatVars

-----------------------------------------------------------------------------
(***************************************************************************)
(* Types.  CreateSession buys history credits at most once, however often  *)
(* the broker asks for them.                                               *)
(***************************************************************************)
ChatTypeOK ==
  /\ session \in {"none", "plain", "open", "enabled"}
  /\ posted \in [Roles -> Calls \cup {NoCall}]
  /\ preference \in [Calls -> Preferences]
  /\ phase \in [Calls -> Phases]
  /\ expired \in [Calls -> BOOLEAN]
  /\ peer \in [Calls -> Calls \cup {NoCall}]
  /\ handle \in [Calls -> {"none", "plaintext", "encrypted", "error"}]
  /\ secret \in [Calls -> SUBSET Calls]
  /\ mayTopUp \in BOOLEAN
  /\ topUps \in {0, 1}

(***************************************************************************)
(* If one side of the session has an encrypted handle, not all of the      *)
(* other side writes in clear: the fallback happens only before a key is   *)
(* posted, and a timeout is an error and not a fallback.                   *)
(***************************************************************************)
NoMixedModes ==
  /\ (\E r \in Responders : handle[r] = "encrypted") => handle[Requester] # "plaintext"
  /\ handle[Requester] = "encrypted" => \E r \in Responders : handle[r] # "plaintext"

(***************************************************************************)
(* The two ends of a conversation hold one secret: an AcceptConversation   *)
(* handle agrees with the handle of StartConversation, unless the key      *)
(* exchange of StartConversation was with another AcceptConversation call. *)
(***************************************************************************)
SecretsAgree ==
  \A r \in Responders :
    (handle[Requester] = "encrypted" /\ handle[r] = "encrypted") =>
      \/ secret[r] = secret[Requester]
      \/ peer[Requester] \in Responders \ {r}

(***************************************************************************)
(* Why NoMixedModes and SecretsAgree hold.  The broker has keys only from  *)
(* calls that can no longer fall back, each under the role of its call;    *)
(* and a call goes on to derive a secret only with such a key of the other *)
(* role, when the broker has both.                                         *)
(***************************************************************************)
Posters(role) == IF role = "requester" THEN {Requester} ELSE Responders

KeysInRole == \A role \in Roles : posted[role] \in Posters(role) \cup {NoCall}

Committed(c) ==
  phase[c] \in {"poll", "check", "derived", "returned"} /\ handle[c] # "plaintext"

PostedMeansCommitted ==
  \A role \in Roles : posted[role] # NoCall => Committed(posted[role])

SecretsDerived ==
  \A c \in Calls :
    /\ (phase[c] = "derived" \/ handle[c] = "encrypted") =>
          peer[c] \in Posters(OtherRole(c)) /\ Committed(peer[c])
    /\ secret[c] = IF handle[c] = "encrypted" THEN SharedSecret(c, peer[c]) ELSE NoSecret

ChatInv ==
  /\ ChatTypeOK
  /\ KeysInRole
  /\ PostedMeansCommitted
  /\ SecretsDerived
  /\ mayTopUp => topUps = 0
  /\ \A c \in Calls : handle[c] = "none" <=> phase[c] # "returned"

(***************************************************************************)
(* Every call that has begun returns: its waits have deadlines.            *)
(***************************************************************************)
CallsReturn ==
  \A c \in Calls : phase[c] # "idle" ~> phase[c] = "returned"
=============================================================================
