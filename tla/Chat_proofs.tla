---------------------------- MODULE Chat_proofs ----------------------------
(***************************************************************************)
(* The registry broker chat.  ChatHistory implements EncryptedChat, so     *)
(* that what is proved of the handshake holds of the composition; in a     *)
(* conversation of two calls every message fetched opens, for any number   *)
(* of readers, identities and messages; and the contexts of a session are  *)
(* current for any number of identities that have nothing in common.       *)
(***************************************************************************)
EXTENDS ChatHistory, SharedContexts, SequenceTheorems, TLAPS

(***************************************************************************)
(* The handshake, for any number of AcceptConversation calls.              *)
(***************************************************************************)
LEMMA RolesOfCalls ==
  ASSUME NEW c \in Calls
  PROVE  /\ Role(c) \in Roles /\ OtherRole(c) \in Roles
         /\ c \in Posters(Role(c)) /\ Posters(OtherRole(c)) \subseteq Calls
         /\ Requester \in Calls /\ NoCall \notin Calls
BY CallsAssumption DEF Calls, Roles, Role, OtherRole, Posters

LEMMA ChatInitInv == ChatInit => ChatInv
<1> SUFFICES ASSUME ChatInit PROVE ChatInv
  OBVIOUS
<1>1. ChatTypeOK
  BY DEF ChatInit, ChatTypeOK, NoSecret, Phases
<1>2. KeysInRole /\ PostedMeansCommitted
  BY DEF ChatInit, KeysInRole, PostedMeansCommitted, Roles
<1>3. SecretsDerived
  BY DEF ChatInit, SecretsDerived
<1>4. /\ mayTopUp => topUps = 0
      /\ \A c \in Calls : handle[c] = "none" <=> phase[c] # "returned"
  BY DEF ChatInit
<1> QED BY <1>1, <1>2, <1>3, <1>4 DEF ChatInv

(***************************************************************************)
(* A step of one call that posts no key and derives nothing.               *)
(***************************************************************************)
Quiet(c) ==
  /\ handle[c] = "none"
  /\ session' \in {"none", "plain", "open", "enabled"}
  /\ expired' \in [Calls -> BOOLEAN]
  /\ phase' \in [Calls -> Phases]
  /\ handle' \in [Calls -> {"none", "plaintext", "encrypted", "error"}]
  /\ mayTopUp' \in BOOLEAN /\ topUps' \in {0, 1} /\ (mayTopUp' => topUps' = 0)
  /\ UNCHANGED <<posted, preference, peer, secret>>
  /\ \A d \in Calls \ {c} : phase'[d] = phase[d] /\ handle'[d] = handle[d]
  /\ phase'[c] # "derived" /\ handle'[c] # "encrypted"
  /\ handle'[c] = "none" <=> phase'[c] # "returned"
  /\ Committed(c) => Committed(c)'

LEMMA QuietStepInv ==
  ASSUME ChatInv, NEW c \in Calls, Quiet(c)
  PROVE  ChatInv'
<1>1. ChatTypeOK'
  BY DEF ChatInv, ChatTypeOK, Quiet
<1>2. KeysInRole'
  BY DEF ChatInv, KeysInRole, Quiet
<1>3. \A d \in Calls : Committed(d) => Committed(d)'
  BY DEF Quiet, Committed
<1>4. PostedMeansCommitted'
  BY <1>3, RolesOfCalls DEF ChatInv, ChatTypeOK, PostedMeansCommitted, Quiet
<1>5. SecretsDerived'
  BY <1>3, RolesOfCalls DEF ChatInv, SecretsDerived, Quiet, Posters, OtherRole
<1>6. ASSUME NEW d \in Calls PROVE (handle[d] = "none" <=> phase[d] # "returned")'
  BY DEF ChatInv, Quiet
<1> QED BY <1>1, <1>2, <1>4, <1>5, <1>6 DEF ChatInv, Quiet

(***************************************************************************)
(* The two shapes of such a step: the call moves on, or it returns without *)
(* an encrypted handle.                                                    *)
(***************************************************************************)
LEMMA MoveQuiet ==
  ASSUME ChatInv, NEW c \in Calls, phase[c] # "returned",
         NEW to \in Phases \ {"derived", "returned"}, Move(c, to),
         Committed(c) => to \in {"poll", "check"},
         session' \in {"none", "plain", "open", "enabled"},
         UNCHANGED <<posted, preference, expired, peer, handle, secret, mayTopUp, topUps>>
  PROVE  Quiet(c)
<1>1. handle[c] = "none" /\ phase \in [Calls -> Phases]
  BY DEF ChatInv, ChatTypeOK
<1>2. phase' \in [Calls -> Phases] /\ phase'[c] = to
  BY <1>1 DEF Move
<1>3. \A d \in Calls \ {c} : phase'[d] = phase[d] /\ handle'[d] = handle[d]
  BY <1>1 DEF Move
<1> QED BY <1>1, <1>2, <1>3 DEF Quiet, Committed, ChatInv, ChatTypeOK

LEMMA ReturnQuiet ==
  ASSUME ChatInv, NEW c \in Calls, phase[c] # "returned",
         NEW what \in {"plaintext", "error"}, Return(c, what),
         Committed(c) => what # "plaintext",
         session' \in {"none", "plain", "open", "enabled"},
         UNCHANGED <<posted, preference, expired, peer, secret, mayTopUp, topUps>>
  PROVE  Quiet(c)
<1>1. /\ phase \in [Calls -> Phases]
      /\ handle \in [Calls -> {"none", "plaintext", "encrypted", "error"}]
  BY DEF ChatInv, ChatTypeOK
<1>2. /\ phase' \in [Calls -> Phases] /\ phase'[c] = "returned"
      /\ handle' \in [Calls -> {"none", "plaintext", "encrypted", "error"}]
      /\ handle'[c] = what
  BY <1>1 DEF Return, Move, Phases
<1>3. \A d \in Calls \ {c} : phase'[d] = phase[d] /\ handle'[d] = handle[d]
  BY <1>1 DEF Return, Move
<1>4. handle[c] = "none"
  BY DEF ChatInv
<1> QED BY <1>2, <1>3, <1>4 DEF Quiet, Committed, ChatInv, ChatTypeOK

LEMMA QuietCallInv ==
  ASSUME ChatInv, NEW c \in Calls,
         \/ CallBegins(c) \/ CreatePlainSession(c)
         \/ CreateUnencryptedSession(c) \/ CreateEncryptedSession(c)
         \/ FetchSummary(c) \/ SummaryTimesOut(c) \/ FetchSummaryAgain(c)
         \/ HandshakeTimesOut(c) \/ FetchStatusAgain(c) \/ CallFails(c)
  PROVE  ChatInv'
<1>1. /\ session \in {"none", "plain", "open", "enabled"}
      /\ Fallback(c) \in {"plaintext", "error"}
  BY DEF ChatInv, ChatTypeOK, Fallback
<1>2. Committed(c) => phase[c] \in {"poll", "check", "derived", "returned"}
  BY DEF Committed
<1>3. CASE StartConversation(c)
  BY <1>1, <1>2, <1>3, MoveQuiet, QuietStepInv DEF StartConversation, broker, credits, Phases, Polling
<1>4. CASE AcceptPlainConversation(c)
  BY <1>1, <1>2, <1>4, ReturnQuiet, QuietStepInv DEF AcceptPlainConversation, broker, credits
<1>5. CASE AcceptConversation(c)
  BY <1>1, <1>2, <1>5, MoveQuiet, QuietStepInv DEF AcceptConversation, broker, credits, Phases, Polling
<1>6. CASE CreatePlainSession(c)
  BY <1>2, <1>6, ReturnQuiet, QuietStepInv DEF CreatePlainSession, credits
<1>7. CASE CreateUnencryptedSession(c)
  BY <1>1, <1>2, <1>7, ReturnQuiet, QuietStepInv DEF CreateUnencryptedSession, credits
<1>8. CASE CreateEncryptedSession(c)
  BY <1>2, <1>8, MoveQuiet, QuietStepInv DEF CreateEncryptedSession, credits, Phases
<1>9. CASE FetchSummary(c)
  <2>1. CASE session = "enabled"
    BY <1>1, <1>2, <1>9, <2>1, MoveQuiet, QuietStepInv DEF FetchSummary, broker, credits, Phases
  <2>2. CASE session # "enabled"
    BY <1>1, <1>2, <1>9, <2>2, MoveQuiet, QuietStepInv DEF FetchSummary, broker, credits, Phases, Polling
  <2> QED BY <2>1, <2>2
<1>10. CASE SummaryTimesOut(c)
  BY <1>1, <1>2, <1>10, ReturnQuiet, QuietStepInv DEF SummaryTimesOut, broker, credits
<1>11. CASE FetchSummaryAgain(c)
  BY <1>1, <1>2, <1>11, MoveQuiet, QuietStepInv DEF FetchSummaryAgain, broker, credits, Phases, Polling
<1>12. CASE HandshakeTimesOut(c)
  BY <1>1, <1>2, <1>12, ReturnQuiet, QuietStepInv DEF HandshakeTimesOut, TimeoutError, broker, credits
<1>13. CASE FetchStatusAgain(c)
  BY <1>1, <1>2, <1>13, MoveQuiet, QuietStepInv DEF FetchStatusAgain, broker, credits, Phases, Polling
<1>14. CASE CallFails(c)
  BY <1>1, <1>2, <1>14, ReturnQuiet, QuietStepInv DEF CallFails, broker, credits
<1> QED BY <1>3, <1>4, <1>5, <1>6, <1>7, <1>8, <1>9, <1>10, <1>11, <1>12, <1>13, <1>14 DEF CallBegins

(***************************************************************************)
(* Steps that change nothing but the session, a deadline or the credits.   *)
(***************************************************************************)
LEMMA SettingInv ==
  ASSUME ChatInv,
         UNCHANGED <<posted, preference, phase, peer, handle, secret>>,
         session' \in {"none", "plain", "open", "enabled"},
         expired' \in [Calls -> BOOLEAN],
         mayTopUp' \in BOOLEAN, topUps' \in {0, 1}, mayTopUp' => topUps' = 0
  PROVE  ChatInv'
<1>1. ChatTypeOK'
  BY DEF ChatInv, ChatTypeOK
<1>2. KeysInRole' /\ PostedMeansCommitted'
  BY DEF ChatInv, KeysInRole, PostedMeansCommitted, Committed
<1>3. SecretsDerived'
  BY DEF ChatInv, SecretsDerived, Committed
<1>4. \A d \in Calls : (handle[d] = "none" <=> phase[d] # "returned")'
  BY DEF ChatInv
<1> QED BY <1>1, <1>2, <1>3, <1>4 DEF ChatInv

LEMMA EnvironmentInv ==
  ASSUME ChatInv,
         \/ \E c \in Calls : TopUpHistory(c) \/ DeadlinePasses(c)
         \/ EnableEncryption
         \/ UNCHANGED chatVars
  PROVE  ChatInv'
<1>1. /\ ChatTypeOK /\ (mayTopUp => topUps = 0)
      /\ session \in {"none", "plain", "open", "enabled"}
      /\ expired \in [Calls -> BOOLEAN] /\ mayTopUp \in BOOLEAN /\ topUps \in {0, 1}
  BY DEF ChatInv, ChatTypeOK
<1>2. ASSUME NEW c \in Calls, TopUpHistory(c) PROVE ChatInv'
  <2>1. topUps' \in {0, 1} /\ mayTopUp' = FALSE
    BY <1>1, <1>2 DEF TopUpHistory
  <2> QED BY <1>1, <1>2, <2>1, SettingInv DEF TopUpHistory, broker
<1>3. ASSUME NEW c \in Calls, DeadlinePasses(c) PROVE ChatInv'
  <2>1. expired' \in [Calls -> BOOLEAN]
    BY <1>1, <1>3 DEF DeadlinePasses
  <2> QED BY <1>1, <1>3, <2>1, SettingInv DEF DeadlinePasses, broker, credits
<1>4. CASE EnableEncryption
  BY <1>1, <1>4, SettingInv DEF EnableEncryption, credits
<1>5. CASE UNCHANGED chatVars
  BY <1>1, <1>5, SettingInv DEF chatVars
<1> QED BY <1>2, <1>3, <1>4, <1>5

-----------------------------------------------------------------------------
LEMMA PostInv ==
  ASSUME ChatInv, NEW c \in Calls, PostHandshake(c) \/ PostHandshakeFails(c)
  PROVE  ChatInv'
<1>1. /\ ChatTypeOK /\ KeysInRole /\ PostedMeansCommitted /\ SecretsDerived
      /\ handle[c] = "none" /\ phase[c] = "post" /\ (mayTopUp => topUps = 0)
  BY DEF ChatInv, PostHandshake, PostHandshakeFails
<1>2. /\ posted' \in [Roles -> Calls \cup {NoCall}] /\ KeysInRole'
      /\ \A role \in Roles : posted'[role] \in {posted[role], c}
  BY <1>1, RolesOfCalls
     DEF PostHandshake, PostHandshakeFails, BrokerTakes, KeysInRole, ChatTypeOK, Roles, Role
<1>3. /\ UNCHANGED <<session, preference, peer, secret, mayTopUp, topUps>>
      /\ phase' \in [Calls -> Phases] /\ phase'[c] \in {"poll", "returned"}
      /\ handle' \in [Calls -> {"none", "plaintext", "encrypted", "error"}]
      /\ handle'[c] \in {"none", "error"}
      /\ handle'[c] = "none" <=> phase'[c] # "returned"
      /\ expired' \in [Calls -> BOOLEAN]
      /\ \A d \in Calls \ {c} : phase'[d] = phase[d] /\ handle'[d] = handle[d]
  <2>1. CASE PostHandshake(c)
    BY <1>1, <2>1 DEF PostHandshake, Move, ChatTypeOK, credits, Phases, Polling
  <2>2. CASE PostHandshakeFails(c)
    BY <1>1, <2>2 DEF PostHandshakeFails, Return, Move, ChatTypeOK, credits, Phases, Polling
  <2> QED BY <2>1, <2>2
<1>4. ChatTypeOK'
  BY <1>1, <1>2, <1>3 DEF ChatTypeOK
<1>5. Committed(c)' /\ \A d \in Calls : Committed(d) => Committed(d)'
  BY <1>3 DEF Committed
<1>6. PostedMeansCommitted'
  BY <1>1, <1>2, <1>5 DEF PostedMeansCommitted, ChatTypeOK
<1>7. SecretsDerived'
  BY <1>1, <1>3, <1>5, RolesOfCalls DEF SecretsDerived
<1>8. ASSUME NEW d \in Calls PROVE (handle[d] = "none" <=> phase[d] # "returned")'
  BY <1>3 DEF ChatInv
<1> QED BY <1>1, <1>2, <1>3, <1>4, <1>6, <1>7, <1>8 DEF ChatInv

(***************************************************************************)
(* A call takes a key of the other role out of a complete handshake.       *)
(***************************************************************************)
LEMMA FetchStatusInv ==
  ASSUME ChatInv, NEW c \in Calls, FetchStatus(c)
  PROVE  ChatInv'
<1>1. /\ ChatTypeOK /\ KeysInRole /\ PostedMeansCommitted /\ SecretsDerived
      /\ handle[c] = "none" /\ phase[c] = "poll" /\ (mayTopUp => topUps = 0)
  BY DEF ChatInv, FetchStatus
<1>2. CASE ~Complete
  BY <1>1, <1>2, MoveQuiet, QuietStepInv
     DEF FetchStatus, broker, credits, Phases, Polling, ChatTypeOK
<1>3. CASE Complete
  <2>1. /\ UNCHANGED <<session, posted, preference, expired, handle, secret, mayTopUp, topUps>>
        /\ phase' = [phase EXCEPT ![c] = "derived"]
        /\ peer' = [peer EXCEPT ![c] = PeerKey(c)]
    BY <1>3 DEF FetchStatus, Move, broker, credits
  <2>2. PeerKey(c) \in Posters(OtherRole(c)) /\ Committed(PeerKey(c))
    BY <1>1, <1>3, RolesOfCalls DEF PeerKey, KeysInRole, PostedMeansCommitted, Complete, Roles
  <2>3. PeerKey(c) \in Calls
    BY <2>2, RolesOfCalls
  <2>4. ChatTypeOK'
    BY <1>1, <2>1, <2>3 DEF ChatTypeOK, Phases
  <2>5. KeysInRole'
    BY <1>1, <2>1 DEF KeysInRole
  <2>6. \A d \in Calls : Committed(d) => Committed(d)'
    BY <1>1, <2>1 DEF Committed, ChatTypeOK
  <2>7. PostedMeansCommitted'
    BY <1>1, <2>1, <2>6 DEF PostedMeansCommitted, ChatTypeOK
  <2>8. SecretsDerived'
    BY <1>1, <2>1, <2>2, <2>3, <2>6, RolesOfCalls DEF SecretsDerived, ChatTypeOK
  <2>9. ASSUME NEW d \in Calls PROVE (handle[d] = "none" <=> phase[d] # "returned")'
    BY <1>1, <2>1 DEF ChatInv, ChatTypeOK
  <2> QED BY <1>1, <2>1, <2>4, <2>5, <2>7, <2>8, <2>9 DEF ChatInv
<1> QED BY <1>2, <1>3

LEMMA CreateHandleInv ==
  ASSUME ChatInv, NEW c \in Calls, CreateHandle(c)
  PROVE  ChatInv'
<1>1. /\ ChatTypeOK /\ KeysInRole /\ PostedMeansCommitted /\ SecretsDerived
      /\ phase[c] = "derived" /\ (mayTopUp => topUps = 0)
  BY DEF ChatInv, CreateHandle
<1>2. /\ UNCHANGED <<session, posted, preference, expired, peer, mayTopUp, topUps>>
      /\ phase' = [phase EXCEPT ![c] = "returned"]
      /\ handle' = [handle EXCEPT ![c] = "encrypted"]
      /\ secret' = [secret EXCEPT ![c] = SharedSecret(c, peer[c])]
  BY DEF CreateHandle, Return, Move, broker, credits
<1>3. peer[c] \in Posters(OtherRole(c))
  BY <1>1 DEF SecretsDerived
<1>4. SharedSecret(c, peer[c]) \in SUBSET Calls
  BY <1>3, RolesOfCalls DEF SharedSecret
<1>5. ChatTypeOK'
  BY <1>1, <1>2, <1>4 DEF ChatTypeOK, Phases
<1>6. KeysInRole'
  BY <1>1, <1>2 DEF KeysInRole
<1>7. \A d \in Calls : Committed(d) => Committed(d)'
  BY <1>1, <1>2 DEF Committed, ChatTypeOK
<1>8. PostedMeansCommitted'
  BY <1>1, <1>2, <1>7 DEF PostedMeansCommitted, ChatTypeOK
<1>9. SecretsDerived'
  BY <1>1, <1>2, <1>3, <1>7, RolesOfCalls DEF SecretsDerived, ChatTypeOK
<1>10. ASSUME NEW d \in Calls PROVE (handle[d] = "none" <=> phase[d] # "returned")'
  BY <1>1, <1>2 DEF ChatInv, ChatTypeOK
<1> QED BY <1>1, <1>2, <1>5, <1>6, <1>8, <1>9, <1>10 DEF ChatInv

LEMMA ChatStepInv == ChatInv /\ [ChatNext]_chatVars => ChatInv'
<1> SUFFICES ASSUME ChatInv, [ChatNext]_chatVars PROVE ChatInv'
  OBVIOUS
<1>1. CASE EnableEncryption \/ UNCHANGED chatVars
  BY <1>1, EnvironmentInv
<1>2. ASSUME NEW c \in Calls, CallStep(c) \/ CreateHandle(c) PROVE ChatInv'
  BY <1>2, QuietCallInv, EnvironmentInv, PostInv, FetchStatusInv, CreateHandleInv
     DEF CallStep, Progress
<1> QED BY <1>1, <1>2 DEF ChatNext

-----------------------------------------------------------------------------
(***************************************************************************)
(* However the calls, the broker and the deadlines interleave, a key is    *)
(* posted only by a call that can no longer fall back, and a secret is     *)
(* derived only from a key of the other role.                              *)
(***************************************************************************)
THEOREM ChatInvariant == ChatSpec => []ChatInv
<1>1. ChatInit => ChatInv
  BY ChatInitInv
<1>2. ChatInv /\ [ChatNext]_chatVars => ChatInv'
  BY ChatStepInv
<1> QED BY <1>1, <1>2, PTL DEF ChatSpec

(***************************************************************************)
(* No encrypted handle faces a side that writes in clear.                  *)
(***************************************************************************)
THEOREM ModesNeverMix == ChatSpec => []NoMixedModes
<1>1. ASSUME ChatInv, NEW c \in Calls, handle[c] = "encrypted"
      PROVE  peer[c] \in Posters(OtherRole(c)) /\ handle[peer[c]] # "plaintext"
  BY <1>1 DEF ChatInv, SecretsDerived, Committed
<1>2. ChatInv => NoMixedModes
  BY <1>1, CallsAssumption DEF NoMixedModes, Posters, OtherRole, Calls
<1> QED BY <1>2, ChatInvariant, PTL

(***************************************************************************)
(* The ends of a key exchange hold one secret.                             *)
(***************************************************************************)
THEOREM EndsAgree == ChatSpec => []SecretsAgree
<1>1. ASSUME ChatInv, NEW r \in Responders,
             handle[Requester] = "encrypted", handle[r] = "encrypted"
      PROVE  secret[r] = secret[Requester] \/ peer[Requester] \in Responders \ {r}
  <2>1. r # Requester /\ r \in Calls /\ Requester \in Calls
    BY CallsAssumption DEF Calls
  <2>2. /\ peer[r] = Requester /\ peer[Requester] \in Responders
        /\ secret[r] = {r, peer[r]} /\ secret[Requester] = {Requester, peer[Requester]}
    BY <1>1, <2>1 DEF ChatInv, SecretsDerived, Posters, OtherRole, SharedSecret
  <2> QED BY <2>2
<1>2. ChatInv => SecretsAgree
  BY <1>1 DEF SecretsAgree
<1> QED BY <1>2, ChatInvariant, PTL

-----------------------------------------------------------------------------

(***************************************************************************)
(* Every step of the composition is a step of the handshake or changes     *)
(* nothing of it.                                                          *)
(***************************************************************************)
THEOREM HistoryImplementsChat == HistorySpec => ChatSpec
<1>1. HistoryInit => ChatInit
  BY DEF HistoryInit
<1>2. [HistoryNext]_allVars => [ChatNext]_chatVars
  <2> SUFFICES ASSUME [HistoryNext]_allVars PROVE ChatNext \/ UNCHANGED chatVars
    OBVIOUS
  <2>1. ASSUME NEW c \in Calls, ConversationStep(c) PROVE ChatNext \/ UNCHANGED chatVars
    BY <2>1 DEF ConversationStep, FinishHandle, Send, ChatNext
  <2>2. ASSUME NEW r \in Readers, ReaderStep(r) PROVE UNCHANGED chatVars
    BY <2>2 DEF ReaderStep, FetchHistorySnapshot, ResolveAnyContext, UseSecretOfHandle,
                AttachDecryptedHistory
  <2>3. CASE UNCHANGED allVars
    BY <2>3 DEF allVars
  <2> QED BY <2>1, <2>2, <2>3 DEF HistoryNext, ChatNext
<1> QED BY <1>1, <1>2, PTL DEF HistorySpec, ChatSpec

-----------------------------------------------------------------------------
(***************************************************************************)
(* The backing arrays.  A slice a reader has copied keeps its elements but *)
(* for those that are overwritten with the secret of the pair.             *)
(***************************************************************************)
StoreType ==
  /\ arrays \in Seq(Seq(Element))
  /\ contexts \in [array : Nat, len : Nat]

ArraysKept ==
  /\ arrays' \in Seq(Seq(Element))
  /\ Len(arrays) <= Len(arrays')
  /\ \A a \in 1..Len(arrays) :
       /\ Len(arrays'[a]) = Len(arrays[a])
       /\ \A i \in 1..Len(arrays[a]) :
            arrays'[a][i] = arrays[a][i] \/ arrays'[a][i].secret = PairSecret

LEMMA SliceKept ==
  ASSUME ArraysKept, arrays \in Seq(Seq(Element)),
         NEW s \in [array : Nat, len : Nat], SliceOpens(s)
  PROVE  SliceOpens(s)'
<1>1. /\ s.array \in 1..Len(arrays) /\ s.array \in 1..Len(arrays')
      /\ s.len \in 0..Len(arrays[s.array])
      /\ Len(arrays'[s.array]) = Len(arrays[s.array])
  BY DEF SliceOpens, ArraysKept
<1>2. ASSUME NEW i \in 1..s.len PROVE arrays'[s.array][i].secret = PairSecret
  <2>1. arrays[s.array] \in Seq(Element)
    BY <1>1, ElementOfSeq
  <2>2. i \in 1..Len(arrays[s.array])
    BY <1>1, <2>1
  <2> QED BY <1>1, <2>2 DEF SliceOpens, ArraysKept
<1> QED BY <1>1, <1>2 DEF SliceOpens, PairSecret, Calls

LEMMA ElementWritten ==
  ASSUME arrays \in Seq(Seq(Element)), NEW a \in 1..Len(arrays), NEW k,
         NEW e \in Element, e.secret = PairSecret,
         arrays' = [arrays EXCEPT ![a][k] = e]
  PROVE  ArraysKept
<1> DEFINE new == [arrays[a] EXCEPT ![k] = e]
<1>1. arrays[a] \in Seq(Element)
  BY ElementOfSeq
<1>2. /\ new \in Seq(Element) /\ Len(new) = Len(arrays[a])
      /\ \A i \in 1..Len(arrays[a]) : new[i] = arrays[a][i] \/ new[i] = e
  <2>1. CASE k \in 1..Len(arrays[a])
    BY <1>1, <2>1, ExceptSeq
  <2>2. CASE k \notin 1..Len(arrays[a])
    <3>1. DOMAIN arrays[a] = 1..Len(arrays[a])
      BY <1>1
    <3>2. new = arrays[a]
      BY <1>1, <3>1, <2>2
    <3> QED BY <1>1, <3>2
  <2> QED BY <2>1, <2>2
<1>3. arrays' = [arrays EXCEPT ![a] = new]
  OBVIOUS
<1> HIDE DEF new
<1>4. /\ arrays' \in Seq(Seq(Element)) /\ Len(arrays') = Len(arrays)
      /\ \A b \in 1..Len(arrays) : arrays'[b] = IF b = a THEN new ELSE arrays[b]
  <2> DEFINE T == Seq(Element)
  <2>1. arrays \in Seq(T) /\ new \in T
    BY <1>2
  <2> HIDE DEF T
  <2>2. /\ [arrays EXCEPT ![a] = new] \in Seq(T)
        /\ Len([arrays EXCEPT ![a] = new]) = Len(arrays)
        /\ \A b \in 1..Len(arrays) :
             [arrays EXCEPT ![a] = new][b] = IF b = a THEN new ELSE arrays[b]
    BY <2>1, ExceptSeq
  <2> QED BY <1>3, <2>2 DEF T
<1> QED BY <1>2, <1>4 DEF ArraysKept

LEMMA ArrayAdded ==
  ASSUME arrays \in Seq(Seq(Element)), NEW es \in Seq(Element),
         arrays' = Append(arrays, es)
  PROVE  ArraysKept /\ Len(arrays') = Len(arrays) + 1 /\ arrays'[Len(arrays) + 1] = es
BY AppendProperties DEF ArraysKept

(***************************************************************************)
(* However append and replacement treat the arrays, a registration of the  *)
(* pair's secret leaves every slice with this one secret.                  *)
(***************************************************************************)
LEMMA RegisterKeeps ==
  ASSUME StoreType, SliceOpens(contexts), NEW id \in Identities,
         PairSecret \in Secrets, RegisterContext(id, PairSecret)
  PROVE  /\ ArraysKept
         /\ StoreType' /\ SliceOpens(contexts)' /\ Registered'
<1> DEFINE e == [identity |-> id, secret |-> PairSecret]
<1>1. e \in Element /\ e.secret = PairSecret /\ e.identity = id
  BY DEF Element
<1>2. /\ contexts.array \in 1..Len(arrays) /\ contexts.len \in Nat
      /\ contexts.len <= Len(arrays[contexts.array])
      /\ arrays[contexts.array] \in Seq(Element)
      /\ arrays \in Seq(Seq(Element))
      /\ contexts \in [array : Nat, len : Nat]
  BY ElementOfSeq DEF StoreType, SliceOpens
<1>3. Replace(e) \/ AppendInPlace(e) \/ AppendToCopy(e)
  BY DEF RegisterContext
<1> HIDE DEF e
<1>4. CASE Replace(e)
  <2>1. \E k : arrays' = [arrays EXCEPT ![contexts.array][k] = e]
    BY <1>4 DEF Replace
  <2>2. ArraysKept
    BY <1>1, <1>2, <2>1, ElementWritten
  <2>3. contexts.len > 0
    <3>1. Matching(Elements, e.identity) # {}
      BY <1>4 DEF Replace
    <3>2. Len(Elements) = contexts.len
      BY <1>2 DEF Elements
    <3> QED BY <1>2, <3>1, <3>2 DEF Matching
  <2>4. contexts' = contexts
    BY <1>4 DEF Replace
  <2> QED BY <1>2, <2>2, <2>3, <2>4, SliceKept DEF StoreType, ArraysKept, Registered, SliceOpens
<1>5. CASE AppendInPlace(e)
  <2> DEFINE k == contexts.len + 1
  <2>1. /\ arrays' = [arrays EXCEPT ![contexts.array][k] = e]
        /\ contexts' = [contexts EXCEPT !.len = k]
        /\ k \in 1..Len(arrays[contexts.array])
    BY <1>2, <1>5 DEF AppendInPlace
  <2>2. ArraysKept
    BY <1>1, <1>2, <2>1, ElementWritten
  <2>4. contexts'.array = contexts.array /\ contexts'.len = k
    BY <1>2, <2>1
  <2>5. /\ contexts.array \in 1..Len(arrays')
        /\ k \in 0..Len(arrays'[contexts.array])
    BY <1>2, <2>1, <2>2 DEF ArraysKept
  <2>6. ASSUME NEW i \in 1..k PROVE arrays'[contexts.array][i].secret = PairSecret
    <3>1. CASE i = k
      <4>1. DOMAIN arrays[contexts.array] = 1..Len(arrays[contexts.array])
        BY <1>2
      <4>2. DOMAIN arrays = 1..Len(arrays)
        BY <1>2
      <4>3. arrays'[contexts.array][k] = e
        BY <1>2, <2>1, <4>1, <4>2
      <4> QED BY <1>1, <3>1, <4>3
    <3>2. CASE i # k
      <4>1. i \in 1..contexts.len /\ i \in 1..Len(arrays[contexts.array])
        BY <1>2, <2>1, <3>2
      <4>2. arrays[contexts.array][i].secret = PairSecret
        BY <4>1 DEF SliceOpens
      <4> QED BY <1>2, <2>2, <4>1, <4>2 DEF ArraysKept
    <3> QED BY <3>1, <3>2
  <2>7. SliceOpens(contexts)'
    BY <2>4, <2>5, <2>6 DEF SliceOpens, PairSecret, Calls
  <2>8. StoreType' /\ Registered'
    <3>1. k \in Nat /\ k > 0
      BY <1>2
    <3> HIDE DEF k
    <3>2. contexts' \in [array : Nat, len : Nat] /\ contexts'.len > 0
      BY <1>2, <2>1, <2>4, <3>1
    <3> QED BY <2>2, <3>2 DEF StoreType, ArraysKept, Registered
  <2> QED BY <2>2, <2>7, <2>8
<1>6. CASE AppendToCopy(e)
  <2> DEFINE es == Grown(Elements, e)
  <2>1. /\ arrays' = Append(arrays, es)
        /\ contexts' = [array |-> Len(arrays) + 1, len |-> contexts.len + 1]
    BY <1>6 DEF AppendToCopy
  <2>2. /\ Len(Elements) = contexts.len
        /\ \A i \in 1..contexts.len :
             Elements[i] \in Element /\ Elements[i].secret = PairSecret
    BY <1>2, ElementOfSeq DEF Elements, SliceOpens
  <2>3. Capacity(contexts.len) \in Nat /\ contexts.len + 1 <= Capacity(contexts.len)
    BY <1>2 DEF Capacity
  <2>4. Blank \in Element
    BY ContextsAssumption DEF Blank, Element
  <2>5. es \in [1..Capacity(contexts.len) -> Element]
    BY <1>1, <2>2, <2>4 DEF Grown
  <2>6. es \in Seq(Element) /\ Len(es) = Capacity(contexts.len)
    BY <2>3, <2>5
  <2>7. \A i \in 1..contexts.len + 1 : es[i].secret = PairSecret
    <3>1. ASSUME NEW i \in 1..contexts.len + 1
          PROVE  es[i] = IF i <= contexts.len THEN Elements[i] ELSE e
      BY <1>2, <2>2, <2>3 DEF Grown
    <3>2. ASSUME NEW i \in 1..contexts.len + 1, ~(i <= contexts.len)
          PROVE  es[i].secret = PairSecret
      BY <1>1, <3>1, <3>2
    <3>3. ASSUME NEW i \in 1..contexts.len + 1, i <= contexts.len
          PROVE  es[i].secret = PairSecret
      <4>1. i \in 1..contexts.len
        BY <1>2, <3>3
      <4> QED BY <2>2, <3>1, <3>3, <4>1
    <3> QED BY <3>2, <3>3
  <2> HIDE DEF es
  <2>8. ArraysKept /\ Len(arrays') = Len(arrays) + 1 /\ arrays'[Len(arrays) + 1] = es
    BY <1>2, <2>1, <2>6, ArrayAdded
  <2>9. SliceOpens(contexts)'
    BY <1>2, <2>1, <2>3, <2>6, <2>7, <2>8 DEF SliceOpens, PairSecret, Calls
  <2> QED BY <1>2, <2>1, <2>8, <2>9 DEF StoreType, ArraysKept, Registered
<1> QED BY <1>3, <1>4, <1>5, <1>6

-----------------------------------------------------------------------------
(***************************************************************************)
(* A conversation of two calls: one AcceptConversation for the session.    *)
(***************************************************************************)
TwoCalls == \E r : Responders = {r}

LEMMA PairOfCalls ==
  ASSUME TwoCalls, ChatInv, NEW c \in Calls,
         phase[c] = "derived" \/ handle[c] = "encrypted"
  PROVE  SharedSecret(c, peer[c]) = PairSecret
<1>1. peer[c] \in Posters(OtherRole(c))
  BY DEF ChatInv, SecretsDerived
<1>2. PICK r : Responders = {r}
  BY DEF TwoCalls
<1>3. CASE c = Requester
  BY <1>1, <1>2, <1>3, CallsAssumption
     DEF Posters, OtherRole, SharedSecret, PairSecret, Calls
<1>4. CASE c # Requester
  BY <1>1, <1>2, <1>4, CallsAssumption
     DEF Posters, OtherRole, SharedSecret, PairSecret, Calls
<1> QED BY <1>3, <1>4

(***************************************************************************)
(* A reader a step does not touch: it has what it had, and the slices and  *)
(* the messages stay good.                                                 *)
(***************************************************************************)
ReaderKept(r) ==
  UNCHANGED <<reader[r], view[r], index[r], copy[r], unread[r], resolved[r], snapshot[r]>>

LEMMA MessagesStayOpen ==
  ASSUME NEW ms, MessagesOpen(ms), Registered => Registered'
  PROVE  MessagesOpen(ms)'
BY DEF MessagesOpen, PairSecret, Calls

LEMMA ReaderStaysOpen ==
  ASSUME HistoryInv, NEW r \in Readers, ReaderKept(r),
         ArraysKept, Registered => Registered'
  PROVE  ReaderOpens(r)'
<1>1. /\ ReaderOpens(r) /\ arrays \in Seq(Seq(Element))
      /\ view[r] \in [array : Nat, len : Nat]
  BY DEF HistoryInv, HistoryTypeOK
<1>2. SliceOpens(view[r])'
  BY <1>1, SliceKept DEF ReaderOpens, ReaderKept
<1>3. MessagesOpen(snapshot[r])'
  BY <1>1, MessagesStayOpen DEF ReaderOpens, ReaderKept
<1> QED BY <1>1, <1>2, <1>3 DEF ReaderOpens, ReaderKept, PairSecret, Calls

(***************************************************************************)
(* Steps of the handshake that return no encrypted handle.                 *)
(***************************************************************************)
LEMMA NoEncryptedHandle ==
  ASSUME ChatInv, NEW c \in Calls, CallStep(c), NEW d \in Calls, handle'[d] = "encrypted"
  PROVE  handle[d] = "encrypted"
<1>1. handle \in [Calls -> {"none", "plaintext", "encrypted", "error"}]
  BY DEF ChatInv, ChatTypeOK
<1>2. ASSUME NEW what, what # "encrypted", Return(c, what) PROVE handle[d] = "encrypted"
  BY <1>1, <1>2 DEF Return
<1>3. Fallback(c) # "encrypted" /\ TimeoutError(c) # "encrypted"
  BY DEF Fallback, TimeoutError
<1>4. CASE CallBegins(c)
  BY <1>2, <1>4 DEF CallBegins, StartConversation, AcceptPlainConversation, AcceptConversation
<1>5. CASE TopUpHistory(c) \/ DeadlinePasses(c)
  BY <1>5 DEF TopUpHistory, DeadlinePasses
<1>6. CASE PostHandshakeFails(c) \/ CallFails(c)
  BY <1>2, <1>6 DEF PostHandshakeFails, CallFails
<1>7. CASE CreatePlainSession(c) \/ CreateUnencryptedSession(c) \/ CreateEncryptedSession(c)
  BY <1>2, <1>3, <1>7
     DEF CreatePlainSession, CreateUnencryptedSession, CreateEncryptedSession
<1>8. CASE FetchSummary(c) \/ SummaryTimesOut(c) \/ FetchSummaryAgain(c)
  BY <1>2, <1>3, <1>8 DEF FetchSummary, SummaryTimesOut, FetchSummaryAgain
<1>9. CASE PostHandshake(c) \/ FetchStatus(c) \/ HandshakeTimesOut(c) \/ FetchStatusAgain(c)
  BY <1>2, <1>3, <1>9 DEF PostHandshake, FetchStatus, HandshakeTimesOut, FetchStatusAgain
<1> QED BY <1>4, <1>5, <1>6, <1>7, <1>8, <1>9 DEF CallStep, Progress

LEMMA SameMessagesInv ==
  ASSUME HistoryInv, UNCHANGED <<contextVars, historyVars>>,
         \A d \in Calls : handle'[d] = "encrypted" => handle[d] = "encrypted"
  PROVE  HistoryInv'
<1>1. HistoryTypeOK'
  BY DEF HistoryInv, HistoryTypeOK, contextVars, historyVars, Calls, Message
<1>2. Registered => Registered'
  BY DEF contextVars, Registered
<1>3. ArraysKept /\ arrays \in Seq(Seq(Element)) /\ contexts \in [array : Nat, len : Nat]
  BY DEF HistoryInv, HistoryTypeOK, ArraysKept, contextVars
<1>4. SliceOpens(contexts)'
  BY <1>3, SliceKept DEF HistoryInv, contextVars
<1>5. MessagesOpen(history)'
  BY <1>2, MessagesStayOpen DEF HistoryInv, historyVars
<1>6. ASSUME NEW r \in Readers PROVE ReaderOpens(r)'
  BY <1>2, <1>3, ReaderStaysOpen DEF ReaderKept, contextVars, historyVars
<1>7. EverythingOpens'
  BY DEF HistoryInv, EverythingOpens, contextVars, historyVars
<1> QED BY <1>1, <1>2, <1>4, <1>5, <1>6, <1>7 DEF HistoryInv

(***************************************************************************)
(* An encrypted handle: its secret is the pair's and is registered.        *)
(***************************************************************************)
LEMMA FinishHandleInv ==
  ASSUME TwoCalls, ChatInv, HistoryInv, NEW c \in Calls, FinishHandle(c)
  PROVE  HistoryInv'
<1>1. /\ HistoryTypeOK /\ SliceOpens(contexts) /\ MessagesOpen(history)
      /\ StoreType
  BY DEF HistoryInv, HistoryTypeOK, StoreType
<1>2. /\ RegisterContext(IdentityOf[Role(c)], PairSecret)
      /\ IdentityOf[Role(c)] \in Identities /\ PairSecret \in Secrets
  <2>1. SharedSecret(c, peer[c]) = PairSecret
    BY PairOfCalls DEF FinishHandle, CreateHandle
  <2>2. IdentityOf[Role(c)] \in Identities
    BY RolesOfCalls, IdentityAssumption
  <2> QED BY <2>1, <2>2, IdentityAssumption DEF FinishHandle, PairSecret
<1>3. ArraysKept /\ StoreType' /\ SliceOpens(contexts)' /\ Registered'
  BY <1>1, <1>2, RegisterKeeps
<1>4. UNCHANGED <<reader, view, index, copy, unread, resolved, history, snapshot, sealed>>
  BY DEF FinishHandle, RegisterContext, historyVars
<1>5. HistoryTypeOK'
  BY <1>1, <1>3, <1>4 DEF HistoryTypeOK, StoreType, Message, Calls
<1>6. MessagesOpen(history)'
  BY <1>1, <1>3, <1>4, MessagesStayOpen
<1>7. ASSUME NEW r \in Readers PROVE ReaderOpens(r)'
  BY <1>3, <1>4, ReaderStaysOpen DEF ReaderKept
<1>8. EverythingOpens'
  BY <1>4 DEF HistoryInv, EverythingOpens
<1> QED BY <1>3, <1>5, <1>6, <1>7, <1>8 DEF HistoryInv

LEMMA SendInv ==
  ASSUME TwoCalls, ChatInv, HistoryInv, NEW c \in Calls, Send(c)
  PROVE  HistoryInv'
<1> DEFINE m == [by |-> c, under |-> SealedUnder(c)]
<1>1. /\ history' = history \cup {m}
      /\ UNCHANGED <<handle, contextVars, snapshot, sealed>>
      /\ handle[c] \in {"plaintext", "encrypted"}
  BY DEF Send, chatVars
<1>2. m.under = NoSecret \/ (m.under = PairSecret /\ Registered)
  <2>1. CASE handle[c] = "encrypted"
    BY <2>1, PairOfCalls DEF SealedUnder, ChatInv, SecretsDerived, HistoryInv
  <2>2. CASE handle[c] = "plaintext"
    BY <2>2 DEF SealedUnder, ChatInv, SecretsDerived
  <2> QED BY <1>1, <2>1, <2>2
<1>3. m \in Message
  BY DEF ChatInv, ChatTypeOK, SealedUnder, Message
<1> HIDE DEF m
<1>4. MessagesOpen(history)'
  BY <1>1, <1>2 DEF HistoryInv, MessagesOpen, contextVars, Registered, PairSecret, Calls
<1>5. HistoryTypeOK'
  BY <1>1, <1>3 DEF HistoryInv, HistoryTypeOK, contextVars, Message, Calls
<1>6. Registered => Registered'
  BY <1>1 DEF contextVars, Registered
<1>7. ArraysKept /\ arrays \in Seq(Seq(Element)) /\ contexts \in [array : Nat, len : Nat]
  BY <1>1 DEF HistoryInv, HistoryTypeOK, ArraysKept, contextVars
<1>8. SliceOpens(contexts)'
  BY <1>1, <1>7, SliceKept DEF HistoryInv, contextVars
<1>9. ASSUME NEW r \in Readers PROVE ReaderOpens(r)'
  BY <1>1, <1>6, <1>7, ReaderStaysOpen DEF ReaderKept, contextVars
<1>10. EverythingOpens'
  BY <1>1 DEF HistoryInv, EverythingOpens, contextVars
<1> QED BY <1>1, <1>4, <1>5, <1>6, <1>8, <1>9, <1>10 DEF HistoryInv

-----------------------------------------------------------------------------
(***************************************************************************)
(* A step of one reader: the store, the calls and the messages are left    *)
(* alone, and so are the other readers.                                    *)
(***************************************************************************)
OnlyReader(r) ==
  /\ UNCHANGED <<store, handle, history>>
  /\ \A o \in Readers \ {r} : ReaderKept(o) /\ sealed'[o] = sealed[o]

LEMMA OneReaderInv ==
  ASSUME HistoryInv, NEW r \in Readers, OnlyReader(r), HistoryTypeOK',
         reader'[r] \in {"scan", "first"} => view'[r].len > 0,
         reader'[r] = "scan" =>
           /\ index'[r] \in 1..view'[r].len
           /\ "secret" \notin unread'[r] => copy'[r].secret = PairSecret,
         reader'[r] = "resolved" => \A m \in snapshot'[r] : Opens(m, resolved'[r]),
         SliceOpens(view'[r]), MessagesOpen(snapshot'[r]),
         reader'[r] = "read" => sealed'[r] = {}
  PROVE  HistoryInv'
<1>1. UNCHANGED <<arrays, contexts, handle, history>>
  BY DEF OnlyReader, store
<1>2. /\ Registered => Registered'
      /\ ArraysKept /\ arrays \in Seq(Seq(Element)) /\ contexts \in [array : Nat, len : Nat]
  BY <1>1 DEF Registered, HistoryInv, HistoryTypeOK, ArraysKept
<1>3. SliceOpens(contexts)' /\ MessagesOpen(history)'
  BY <1>1, <1>2, SliceKept, MessagesStayOpen DEF HistoryInv
<1>4. ASSUME NEW o \in Readers PROVE ReaderOpens(o)'
  <2>1. CASE o # r
    BY <1>2, <2>1, ReaderStaysOpen DEF OnlyReader
  <2>2. CASE o = r
    <3>1. SliceOpens(view[r])' /\ MessagesOpen(snapshot[r])'
      BY <1>1 DEF SliceOpens, MessagesOpen, Registered, PairSecret, Calls
    <3> QED BY <2>2, <3>1 DEF ReaderOpens, Opens, PairSecret, Calls
  <2> QED BY <2>1, <2>2
<1>5. ASSUME NEW o \in Readers, reader'[o] = "read" PROVE sealed'[o] = {}
  BY <1>5 DEF HistoryInv, EverythingOpens, OnlyReader, ReaderKept
<1> QED BY <1>1, <1>2, <1>3, <1>4, <1>5 DEF HistoryInv, EverythingOpens

LEMMA FetchInv ==
  ASSUME HistoryInv, NEW r \in Readers, FetchHistorySnapshot(r)
  PROVE  HistoryInv'
<1>1. HistoryTypeOK /\ ReaderOpens(r) /\ MessagesOpen(history)
  BY DEF HistoryInv
<1>2. HistoryTypeOK'
  BY <1>1 DEF FetchHistorySnapshot, HistoryTypeOK, store, Message, Calls
<1>3. reader'[r] = "fetched" /\ snapshot'[r] = history /\ view' = view
  BY <1>1 DEF FetchHistorySnapshot, HistoryTypeOK
<1>4. OnlyReader(r)
  BY <1>1 DEF FetchHistorySnapshot, OnlyReader, ReaderKept, HistoryTypeOK, chatVars
<1>5. SliceOpens(view'[r])
  BY <1>1, <1>3 DEF ReaderOpens
<1> QED BY <1>1, <1>2, <1>3, <1>4, <1>5, OneReaderInv

LEMMA ResolveInv ==
  ASSUME HistoryInv, NEW r \in Readers, ResolveAnyContext(r)
  PROVE  HistoryInv'
<1>1. /\ HistoryTypeOK /\ ReaderOpens(r) /\ SliceOpens(contexts)
      /\ contexts.len \in Nat
  BY DEF HistoryInv, HistoryTypeOK
<1>2. PICK id \in Identities : ResolveContext(r, id)
  BY DEF ResolveAnyContext
<1>3. UNCHANGED <<store, copy, handle, history, snapshot, sealed>>
  BY <1>2 DEF ResolveContext, ResolveAnyContext, chatVars, historyVars
<1>4. /\ view' = [view EXCEPT ![r] = contexts]
      /\ index' = [index EXCEPT ![r] = 1]
      /\ unread' = [unread EXCEPT ![r] = Words]
  BY <1>2 DEF ResolveContext
<1>5. CASE contexts.len = 0
  <2>1. /\ resolved' = [resolved EXCEPT ![r] = NoContext]
        /\ reader' = [reader EXCEPT ![r] = "resolved"]
    BY <1>2, <1>5 DEF ResolveContext, Resolved
  <2>2. HistoryTypeOK'
    BY <1>1, <1>3, <1>4, <2>1 DEF HistoryTypeOK, store, Message, Calls
  <2>3. OnlyReader(r)
    BY <1>1, <1>3, <1>4, <2>1 DEF OnlyReader, ReaderKept, HistoryTypeOK
  <2>4. /\ reader'[r] = "resolved" /\ view'[r] = contexts /\ snapshot'[r] = snapshot[r]
    BY <1>1, <1>3, <1>4, <2>1 DEF HistoryTypeOK
  <2>5. \A m \in snapshot[r] : m.under = NoSecret
    BY <1>1, <1>5 DEF ReaderOpens, MessagesOpen, Registered
  <2> QED BY <1>1, <2>2, <2>3, <2>4, <2>5, OneReaderInv DEF Opens, ReaderOpens
<1>6. CASE contexts.len # 0
  <2> DEFINE to == IF id = {} THEN "first" ELSE "scan"
  <2>1. resolved' = resolved /\ reader' = [reader EXCEPT ![r] = to]
    BY <1>2, <1>6 DEF ResolveContext
  <2>2. to \in {"first", "scan"}
    OBVIOUS
  <2> HIDE DEF to
  <2>3. HistoryTypeOK'
    BY <1>1, <1>3, <1>4, <2>1, <2>2 DEF HistoryTypeOK, store, Message, Calls
  <2>4. OnlyReader(r)
    BY <1>1, <1>3, <1>4, <2>1 DEF OnlyReader, ReaderKept, HistoryTypeOK
  <2>5. /\ reader'[r] = to /\ view'[r] = contexts /\ snapshot'[r] = snapshot[r]
        /\ index'[r] = 1 /\ "secret" \in unread'[r]
    BY <1>1, <1>3, <1>4, <2>1 DEF HistoryTypeOK, Words
  <2>6. contexts.len > 0 /\ 1 \in 1..contexts.len
    BY <1>1, <1>6
  <2> QED BY <1>1, <2>2, <2>3, <2>4, <2>5, <2>6, OneReaderInv DEF ReaderOpens
<1> QED BY <1>5, <1>6

LEMMA UseSecretInv ==
  ASSUME TwoCalls, ChatInv, HistoryInv, NEW r \in Readers, UseSecretOfHandle(r)
  PROVE  HistoryInv'
<1>1. HistoryTypeOK /\ ReaderOpens(r)
  BY DEF HistoryInv
<1>2. PICK c \in Calls : handle[c] = "encrypted" /\ Resolved(r, secret[c])
  BY DEF UseSecretOfHandle
<1>3. secret[c] = PairSecret /\ secret[c] \in Secrets
  BY <1>2, PairOfCalls, IdentityAssumption DEF ChatInv, SecretsDerived, PairSecret
<1>4. /\ UNCHANGED <<store, view, index, copy, unread, handle, history, snapshot, sealed>>
      /\ resolved' = [resolved EXCEPT ![r] = secret[c]]
      /\ reader' = [reader EXCEPT ![r] = "resolved"]
  BY <1>2 DEF UseSecretOfHandle, Resolved, chatVars, historyVars
<1>5. HistoryTypeOK'
  BY <1>1, <1>3, <1>4 DEF HistoryTypeOK, store, Message, Calls
<1>6. OnlyReader(r)
  BY <1>1, <1>4 DEF OnlyReader, ReaderKept, HistoryTypeOK
<1>7. /\ reader'[r] = "resolved" /\ resolved'[r] = PairSecret
      /\ view'[r] = view[r] /\ snapshot'[r] = snapshot[r]
  BY <1>1, <1>3, <1>4 DEF HistoryTypeOK
<1>8. \A m \in snapshot[r] : Opens(m, PairSecret)
  BY <1>1 DEF ReaderOpens, MessagesOpen, Opens
<1> QED BY <1>1, <1>5, <1>6, <1>7, <1>8, OneReaderInv DEF ReaderOpens

(***************************************************************************)
(* The elements a reader sees, one word at a time, after the unlock.       *)
(***************************************************************************)
LEMMA ReadOfSlice ==
  ASSUME HistoryInv, NEW r \in Readers, NEW i \in 1..view[r].len
  PROVE  Read(r, i) \in Element /\ Read(r, i).secret = PairSecret
<1>1. SliceOpens(view[r]) /\ arrays \in Seq(Seq(Element))
  BY DEF HistoryInv, ReaderOpens, HistoryTypeOK
<1>2. arrays[view[r].array] \in Seq(Element)
  BY <1>1, ElementOfSeq DEF SliceOpens
<1>3. i \in 1..Len(arrays[view[r].array])
  BY <1>1, <1>2 DEF SliceOpens
<1> QED BY <1>1, <1>2, <1>3, ElementOfSeq DEF Read, SliceOpens

LEMMA CopyWordInv ==
  ASSUME HistoryInv, NEW r \in Readers, CopyWord(r), UNCHANGED <<chatVars, historyVars>>
  PROVE  HistoryInv'
<1>1. /\ HistoryTypeOK /\ ReaderOpens(r) /\ reader[r] = "scan"
      /\ copy \in [Readers -> Element] /\ unread \in [Readers -> SUBSET Words]
  BY DEF HistoryInv, HistoryTypeOK, CopyWord
<1>2. PICK word \in unread[r] :
        /\ copy' = [copy EXCEPT ![r][word] = Read(r, index[r])[word]]
        /\ unread' = [unread EXCEPT ![r] = @ \ {word}]
  BY DEF CopyWord
<1>3. UNCHANGED <<store, reader, view, index, resolved, handle, history, snapshot, sealed>>
  BY DEF CopyWord, chatVars, historyVars
<1>4. Read(r, index[r]) \in Element /\ Read(r, index[r]).secret = PairSecret
  BY <1>1, ReadOfSlice DEF ReaderOpens
<1>5. word \in Words
  BY <1>1, <1>2
<1>6. /\ copy' \in [Readers -> Element] /\ unread' \in [Readers -> SUBSET Words]
      /\ "secret" \notin unread'[r] => copy'[r].secret = PairSecret
      /\ \A o \in Readers \ {r} : copy'[o] = copy[o] /\ unread'[o] = unread[o]
  <2>1. CASE word = "secret"
    BY <1>1, <1>2, <1>4, <2>1 DEF Element
  <2>2. CASE word = "identity"
    BY <1>1, <1>2, <1>4, <2>2 DEF Element, ReaderOpens
  <2> QED BY <1>5, <2>1, <2>2 DEF Words
<1>7. HistoryTypeOK'
  BY <1>1, <1>3, <1>6 DEF HistoryTypeOK, store, Message, Calls
<1>8. OnlyReader(r)
  BY <1>3, <1>6 DEF OnlyReader, ReaderKept
<1> QED BY <1>1, <1>3, <1>6, <1>7, <1>8, OneReaderInv DEF ReaderOpens

LEMMA TakeInv ==
  ASSUME HistoryInv, NEW r \in Readers, TakeMatch(r) \/ TakeFirst(r),
         UNCHANGED <<chatVars, historyVars>>
  PROVE  HistoryInv'
<1>1. HistoryTypeOK /\ ReaderOpens(r)
  BY DEF HistoryInv
<1>2. Resolved(r, PairSecret)
  <2>1. CASE TakeMatch(r)
    BY <1>1, <2>1 DEF TakeMatch, ReaderOpens
  <2>2. CASE TakeFirst(r)
    <3>1. 1 \in 1..view[r].len
      BY <1>1, <2>2 DEF TakeFirst, ReaderOpens, HistoryTypeOK
    <3> QED BY <2>2, <3>1, ReadOfSlice DEF TakeFirst
  <2> QED BY <2>1, <2>2
<1>3. /\ UNCHANGED <<store, view, index, copy, unread, handle, history, snapshot, sealed>>
      /\ resolved' = [resolved EXCEPT ![r] = PairSecret]
      /\ reader' = [reader EXCEPT ![r] = "resolved"]
  BY <1>2 DEF TakeMatch, TakeFirst, Resolved, chatVars, historyVars
<1>4. PairSecret \in Secrets
  BY IdentityAssumption DEF PairSecret
<1>5. HistoryTypeOK'
  BY <1>1, <1>3, <1>4 DEF HistoryTypeOK, store, Message, Calls
<1>6. OnlyReader(r)
  BY <1>1, <1>3 DEF OnlyReader, ReaderKept, HistoryTypeOK
<1>7. /\ reader'[r] = "resolved" /\ resolved'[r] = PairSecret
      /\ view'[r] = view[r] /\ snapshot'[r] = snapshot[r]
  BY <1>1, <1>3 DEF HistoryTypeOK
<1>8. \A m \in snapshot[r] : Opens(m, PairSecret)
  BY <1>1 DEF ReaderOpens, MessagesOpen, Opens
<1> QED BY <1>1, <1>5, <1>6, <1>7, <1>8, OneReaderInv DEF ReaderOpens

LEMMA NextElementInv ==
  ASSUME HistoryInv, NEW r \in Readers, NextElement(r), UNCHANGED <<chatVars, historyVars>>
  PROVE  HistoryInv'
<1>1. /\ HistoryTypeOK /\ ReaderOpens(r) /\ reader[r] = "scan"
      /\ view[r].len \in Nat /\ index[r] \in 1..view[r].len
  BY DEF HistoryInv, HistoryTypeOK, NextElement, ReaderOpens
<1>2. UNCHANGED <<store, view, copy, resolved, handle, history, snapshot, sealed>>
  BY DEF NextElement, chatVars, historyVars
<1>3. CASE index[r] < view[r].len
  <2>1. /\ index' = [index EXCEPT ![r] = @ + 1]
        /\ unread' = [unread EXCEPT ![r] = Words]
        /\ reader' = reader
    BY <1>3 DEF NextElement
  <2>2. HistoryTypeOK'
    BY <1>1, <1>2, <2>1 DEF HistoryTypeOK, store, Message, Calls
  <2>3. OnlyReader(r)
    BY <1>1, <1>2, <2>1 DEF OnlyReader, ReaderKept, HistoryTypeOK
  <2>4. index'[r] = index[r] + 1 /\ "secret" \in unread'[r]
    BY <1>1, <2>1 DEF HistoryTypeOK, Words
  <2>5. index'[r] \in 1..view'[r].len
    BY <1>1, <1>2, <1>3, <2>4
  <2> QED BY <1>1, <1>2, <2>1, <2>2, <2>3, <2>4, <2>5, OneReaderInv DEF ReaderOpens
<1>4. CASE ~(index[r] < view[r].len)
  <2>1. reader' = [reader EXCEPT ![r] = "first"] /\ UNCHANGED <<index, unread>>
    BY <1>4 DEF NextElement
  <2>2. HistoryTypeOK'
    BY <1>1, <1>2, <2>1 DEF HistoryTypeOK, store, Message, Calls
  <2>3. OnlyReader(r)
    BY <1>1, <1>2, <2>1 DEF OnlyReader, ReaderKept, HistoryTypeOK
  <2>4. reader'[r] = "first"
    BY <1>1, <2>1 DEF HistoryTypeOK
  <2> QED BY <1>1, <1>2, <2>2, <2>3, <2>4, OneReaderInv DEF ReaderOpens
<1> QED BY <1>3, <1>4

LEMMA AttachInv ==
  ASSUME HistoryInv, NEW r \in Readers, AttachDecryptedHistory(r)
  PROVE  HistoryInv'
<1>1. HistoryTypeOK /\ ReaderOpens(r) /\ reader[r] = "resolved"
  BY DEF HistoryInv, AttachDecryptedHistory
<1>2. {m \in HistoryFetchedFirst(r) : ~Opens(m, resolved[r])} = {}
  BY <1>1 DEF HistoryFetchedFirst, ReaderOpens
<1>3. /\ UNCHANGED <<store, view, index, copy, unread, resolved, handle, history, snapshot>>
      /\ sealed' = [sealed EXCEPT ![r] = {}]
      /\ reader' = [reader EXCEPT ![r] = "read"]
  BY <1>2 DEF AttachDecryptedHistory, chatVars
<1>4. HistoryTypeOK'
  BY <1>1, <1>3 DEF HistoryTypeOK, store, Message, Calls
<1>5. OnlyReader(r)
  BY <1>1, <1>3 DEF OnlyReader, ReaderKept, HistoryTypeOK
<1>6. reader'[r] = "read" /\ sealed'[r] = {}
  BY <1>1, <1>3 DEF HistoryTypeOK
<1> QED BY <1>1, <1>3, <1>4, <1>5, <1>6, OneReaderInv DEF ReaderOpens

-----------------------------------------------------------------------------
LEMMA HistoryInitInv == HistoryInit => HistoryInv
<1> SUFFICES ASSUME HistoryInit PROVE HistoryInv
  OBVIOUS
<1>1. HistoryInit /\ ContextsInit /\ ChatInit
  BY DEF HistoryInit
<1>2. arrays = << << >> >> /\ contexts = [array |-> 1, len |-> 0]
  BY <1>1 DEF ContextsInit
<1>3. /\ arrays \in Seq(Seq(Element)) /\ Len(arrays) = 1 /\ Len(arrays[1]) = 0
      /\ contexts \in [array : Nat, len : Nat]
      /\ contexts.array = 1 /\ contexts.len = 0
  BY <1>2
<1>4. SliceOpens(contexts)
  BY <1>3 DEF SliceOpens
<1>5. Blank \in Element
  BY ContextsAssumption DEF Blank, Element
<1>6. HistoryTypeOK
  BY <1>1, <1>3, <1>5 DEF HistoryInit, ContextsInit, HistoryTypeOK
<1>7. ASSUME NEW r \in Readers PROVE ReaderOpens(r)
  <2>1. view[r] = contexts /\ snapshot[r] = {} /\ reader[r] = "idle"
    BY <1>1 DEF HistoryInit, ContextsInit
  <2>2. SliceOpens(view[r])
    BY <1>4, <2>1
  <2> QED BY <2>1, <2>2 DEF ReaderOpens, MessagesOpen
<1>8. MessagesOpen(history) /\ \A c \in Calls : handle[c] # "encrypted"
  BY <1>1 DEF HistoryInit, ChatInit, MessagesOpen
<1>9. EverythingOpens
  BY <1>1 DEF ContextsInit, EverythingOpens
<1> QED BY <1>4, <1>6, <1>7, <1>8, <1>9 DEF HistoryInv

LEMMA HistoryStepInv ==
  ASSUME TwoCalls, ChatInv, HistoryInv, [HistoryNext]_allVars
  PROVE  HistoryInv'
<1>1. ASSUME NEW c \in Calls, ConversationStep(c) PROVE HistoryInv'
  BY <1>1, NoEncryptedHandle, SameMessagesInv, FinishHandleInv, SendInv DEF ConversationStep
<1>2. CASE EnableEncryption /\ UNCHANGED <<contextVars, historyVars>>
  BY <1>2, SameMessagesInv DEF EnableEncryption
<1>3. ASSUME NEW r \in Readers, ReaderStep(r) PROVE HistoryInv'
  BY <1>3, FetchInv, ResolveInv, UseSecretInv, CopyWordInv, TakeInv, NextElementInv, AttachInv
     DEF ReaderStep, ResolveStep
<1>4. CASE UNCHANGED allVars
  BY <1>4, SameMessagesInv DEF allVars, chatVars
<1> QED BY <1>1, <1>2, <1>3, <1>4 DEF HistoryNext

(***************************************************************************)
(* In a conversation of two calls, all slices hold one secret, and a       *)
(* message is sealed under it only once it is registered.                  *)
(***************************************************************************)
THEOREM HistoryInvariant == ASSUME TwoCalls PROVE HistorySpec => []HistoryInv
<1>1. HistoryInit => HistoryInv
  BY HistoryInitInv
<1>2. ChatInv /\ HistoryInv /\ [HistoryNext]_allVars => HistoryInv'
  BY HistoryStepInv
<1> QED BY <1>1, <1>2, HistoryImplementsChat, ChatInvariant, PTL DEF HistorySpec

(***************************************************************************)
(* A reader opens every message of the history it has fetched, although it *)
(* reads the contexts without a lock.                                      *)
(***************************************************************************)
THEOREM HistoryOpens == ASSUME TwoCalls PROVE HistorySpec => []EverythingOpens
<1>1. HistoryInv => EverythingOpens
  BY DEF HistoryInv
<1> QED BY <1>1, HistoryInvariant, PTL
-----------------------------------------------------------------------------
(***************************************************************************)
(* A handle is final, and a call gets a plaintext one only if its          *)
(* preference does not require encryption.                                 *)
(***************************************************************************)
HandlesFinal ==
  /\ preference' = preference
  /\ \A d \in Calls :
       \/ handle'[d] = handle[d]
       \/ handle[d] = "none" /\ (handle'[d] = "plaintext" => preference[d] # "required")

LEMMA ReturnFinal ==
  ASSUME ChatInv, NEW c \in Calls, phase[c] # "returned", NEW what, Return(c, what),
         what = "plaintext" => preference[c] # "required",
         UNCHANGED preference
  PROVE  HandlesFinal
<1>1. handle[c] = "none" /\ handle \in [Calls -> {"none", "plaintext", "encrypted", "error"}]
  BY DEF ChatInv, ChatTypeOK
<1>2. \A d \in Calls : handle'[d] = IF d = c THEN what ELSE handle[d]
  BY <1>1 DEF Return
<1> QED BY <1>1, <1>2 DEF HandlesFinal

LEMMA CallsFinal ==
  ASSUME ChatInv, NEW c \in Calls, CallStep(c) \/ CreateHandle(c)
  PROVE  HandlesFinal
<1>1. Fallback(c) = "plaintext" => preference[c] # "required"
  BY DEF Fallback
<1>2. CASE UNCHANGED <<preference, handle>>
  BY <1>2 DEF HandlesFinal
<1>3. CASE CallBegins(c) \/ TopUpHistory(c) \/ DeadlinePasses(c)
  <2>1. CASE AcceptPlainConversation(c)
    BY <2>1, ReturnFinal DEF AcceptPlainConversation
  <2> QED BY <1>2, <1>3, <2>1
      DEF CallBegins, StartConversation, AcceptConversation, TopUpHistory, DeadlinePasses
<1>4. CASE CreatePlainSession(c) \/ CreateUnencryptedSession(c) \/ CreateEncryptedSession(c)
  <2>1. CASE CreatePlainSession(c)
    BY <2>1, ReturnFinal DEF CreatePlainSession
  <2>2. CASE CreateUnencryptedSession(c)
    BY <1>1, <2>2, ReturnFinal DEF CreateUnencryptedSession
  <2> QED BY <1>2, <1>4, <2>1, <2>2 DEF CreateEncryptedSession
<1>5. CASE SummaryTimesOut(c)
  BY <1>1, <1>5, ReturnFinal DEF SummaryTimesOut
<1>6. CASE HandshakeTimesOut(c)
  BY <1>6, ReturnFinal DEF HandshakeTimesOut, TimeoutError
<1>7. CASE PostHandshakeFails(c)
  BY <1>7, ReturnFinal DEF PostHandshakeFails
<1>8. CASE CallFails(c)
  BY <1>8, ReturnFinal DEF CallFails
<1>9. CASE CreateHandle(c)
  BY <1>9, ReturnFinal DEF CreateHandle
<1>10. CASE \/ FetchSummary(c) \/ FetchSummaryAgain(c) \/ PostHandshake(c)
            \/ FetchStatus(c) \/ FetchStatusAgain(c)
  BY <1>2, <1>10 DEF FetchSummary, FetchSummaryAgain, PostHandshake, FetchStatus, FetchStatusAgain
<1> QED BY <1>3, <1>4, <1>5, <1>6, <1>7, <1>8, <1>9, <1>10 DEF CallStep, Progress

(***************************************************************************)
(* A message in clear stands for a handle that was allowed to be plaintext *)
(* and still is.                                                           *)
(***************************************************************************)
ClearInv ==
  /\ history \subseteq Message
  /\ \A c \in Calls : handle[c] = "plaintext" => preference[c] # "required"
  /\ NoMessageInClear

LEMMA ClearKept ==
  ASSUME ClearInv, HandlesFinal, history' = history
  PROVE  ClearInv'
<1>1. history' \subseteq Message
  BY DEF ClearInv
<1>2. \A c \in Calls : handle'[c] = "plaintext" => preference'[c] # "required"
  BY DEF ClearInv, HandlesFinal
<1>3. NoMessageInClear'
  BY DEF ClearInv, HandlesFinal, NoMessageInClear, Message
<1> QED BY <1>1, <1>2, <1>3 DEF ClearInv, Message, Calls

LEMMA SendClear ==
  ASSUME ChatInv, ClearInv, NEW c \in Calls, Send(c)
  PROVE  ClearInv'
<1> DEFINE m == [by |-> c, under |-> secret[c]]
<1>1. /\ history' = history \cup {m} /\ UNCHANGED <<handle, preference>>
      /\ handle[c] \in {"plaintext", "encrypted"}
  BY DEF Send, SealedUnder, chatVars
<1>2. m \in Message
  BY DEF ChatInv, ChatTypeOK, Message
<1>3. secret[c] = NoSecret => handle[c] = "plaintext"
  BY <1>1 DEF ChatInv, SecretsDerived, SharedSecret, NoSecret
<1>4. m.by = c /\ m.under = secret[c]
  OBVIOUS
<1> HIDE DEF m
<1>5. NoMessageInClear'
  BY <1>1, <1>3, <1>4 DEF ClearInv, NoMessageInClear
<1> QED BY <1>1, <1>2, <1>5 DEF ClearInv, Message, Calls

(***************************************************************************)
(* No message in clear by a caller that requires encryption or by a handle *)
(* that is encrypted, for any calls, readers, identities and messages.     *)
(***************************************************************************)
THEOREM ClearOnlyByChoice == HistorySpec => []NoMessageInClear
<1>1. HistorySpec => []ChatInv
  BY HistoryImplementsChat, ChatInvariant, PTL
<1>2. HistoryInit => ClearInv
  BY DEF HistoryInit, ChatInit, ClearInv, NoMessageInClear
<1>3. ChatInv /\ ClearInv /\ [HistoryNext]_allVars => ClearInv'
  <2> SUFFICES ASSUME ChatInv, ClearInv, [HistoryNext]_allVars PROVE ClearInv'
    OBVIOUS
  <2>1. CASE UNCHANGED <<preference, handle, history>>
    BY <2>1, ClearKept DEF HandlesFinal
  <2>2. ASSUME NEW c \in Calls, ConversationStep(c) PROVE ClearInv'
    BY <2>2, CallsFinal, ClearKept, SendClear DEF ConversationStep, FinishHandle, historyVars
  <2>3. ASSUME NEW r \in Readers, ReaderStep(r) PROVE UNCHANGED <<preference, handle, history>>
    BY <2>3 DEF ReaderStep, FetchHistorySnapshot, ResolveAnyContext, UseSecretOfHandle,
                AttachDecryptedHistory, chatVars, historyVars
  <2> QED BY <2>1, <2>2, <2>3
      DEF HistoryNext, EnableEncryption, historyVars, allVars, chatVars
<1>4. ClearInv => NoMessageInClear
  BY DEF ClearInv
<1> QED BY <1>1, <1>2, <1>3, <1>4, PTL DEF HistorySpec

-----------------------------------------------------------------------------
(***************************************************************************)
(* Contexts shared by registrations and readers, for identities that have  *)
(* nothing in common: two identities match if they are the same.           *)
(***************************************************************************)
LEMMA MatchIsEquality ==
  ASSUME Apart, NEW a \in Identities, NEW b \in Identities
  PROVE  IdentitiesMatch(a, b) <=> a = b
BY DEF Apart, IdentitiesMatch

(***************************************************************************)
(* What an indivisible call returns when each identity has one element.    *)
(***************************************************************************)
LEMMA ResolutionIs ==
  ASSUME Apart, NEW n \in Nat, NEW es \in [1..n -> Element], NEW id \in Identities,
         \A i, j \in 1..n : es[i].identity = es[j].identity => i = j
  PROVE  /\ \A k \in 1..n : id # {} /\ es[k].identity = id => Resolution(es, id) = es[k].secret
         /\ n > 0 /\ (\A k \in 1..n : ~(id # {} /\ es[k].identity = id)) =>
              Resolution(es, id) = es[1].secret
         /\ n > 0 => Resolution(es, id) \in Secrets \cup {NoContext}
<1>1. Len(es) = n /\ (n > 0 => es # << >>) /\ \A k \in 1..n : es[k].identity \in Identities
  BY DEF Element
<1>2. Matching(es, id) = {i \in 1..n : es[i].identity = id}
  BY <1>1, MatchIsEquality DEF Matching
<1>3. ASSUME NEW k \in 1..n, id # {}, es[k].identity = id
      PROVE  Resolution(es, id) = es[k].secret
  <2>1. Matching(es, id) = {k}
    BY <1>2, <1>3
  <2>2. Min({k}) = k
    BY DEF Min
  <2> QED BY <1>1, <1>3, <2>1, <2>2 DEF Resolution
<1>4. ASSUME n > 0, \A k \in 1..n : ~(id # {} /\ es[k].identity = id)
      PROVE  Resolution(es, id) = es[1].secret
  BY <1>1, <1>2, <1>4 DEF Resolution
<1>5. \A k \in 1..n : es[k].secret \in Secrets \cup {NoContext}
  BY DEF Element
<1> QED BY <1>3, <1>4, <1>5

LEMMA CurrentElements ==
  ASSUME SharedTypeOK, NewestArray
  PROVE  /\ contexts.len \in Nat /\ contexts.array \in 1..Len(arrays)
         /\ arrays[contexts.array] \in Seq(Element)
         /\ 1..contexts.len \subseteq 1..Len(arrays[contexts.array])
         /\ Elements \in [1..contexts.len -> Element]
         /\ Len(Elements) = contexts.len
         /\ \A i \in 1..contexts.len : Elements[i] = arrays[contexts.array][i]
<1>1. contexts.len \in Nat /\ contexts.array \in 1..Len(arrays)
  BY DEF SharedTypeOK, NewestArray
<1>2. arrays[contexts.array] \in Seq(Element)
  BY <1>1, ElementOfSeq DEF SharedTypeOK
<1>3. 1..contexts.len \subseteq 1..Len(arrays[contexts.array])
  BY <1>1, <1>2 DEF NewestArray
<1>4. \A i \in 1..contexts.len : arrays[contexts.array][i] \in Element
  BY <1>2, <1>3, ElementOfSeq
<1> QED BY <1>1, <1>2, <1>3, <1>4 DEF Elements

-----------------------------------------------------------------------------
(***************************************************************************)
(* What a registration does to the arrays: it replaces the element of its  *)
(* identity, or it adds one, where no slice in use can see it or in a new  *)
(* array.                                                                  *)
(***************************************************************************)
ArraysGrow ==
  /\ arrays' \in Seq(Seq(Element))
  /\ Len(arrays) <= Len(arrays')
  /\ \A a \in 1..Len(arrays) : Len(arrays'[a]) = Len(arrays[a])

Replaces(e, k) ==
  /\ k \in 1..contexts.len
  /\ Elements[k].identity = e.identity
  /\ contexts' = contexts
  /\ arrays'[contexts.array][k] = e
  /\ \A a \in 1..Len(arrays) : \A i \in 1..Len(arrays[a]) :
       a # contexts.array \/ i # k => arrays'[a][i] = arrays[a][i]

Adds(e) ==
  /\ \A i \in 1..contexts.len : Elements[i].identity # e.identity
  /\ contexts'.len = contexts.len + 1
  /\ contexts'.array \in {contexts.array, Len(arrays) + 1}
  /\ contexts'.array = contexts.array => contexts.len > 2
  /\ arrays'[contexts'.array][contexts.len + 1] = e
  /\ \A i \in 1..contexts.len : arrays'[contexts'.array][i] = arrays[contexts.array][i]
  /\ \A a \in 1..Len(arrays) : \A i \in 1..Len(arrays[a]) :
       (a = contexts.array => i <= contexts.len) => arrays'[a][i] = arrays[a][i]

Writes(a, k, e) == arrays' = [arrays EXCEPT ![a][k] = e]

LEMMA SlotWritten ==
  ASSUME arrays \in Seq(Seq(Element)), NEW a \in 1..Len(arrays),
         NEW k \in 1..Len(arrays[a]), NEW e \in Element,
         Writes(a, k, e)
  PROVE  /\ ArraysGrow /\ Len(arrays') = Len(arrays)
         /\ arrays'[a][k] = e
         /\ \A b \in 1..Len(arrays) : \A i \in 1..Len(arrays[b]) :
              b # a \/ i # k => arrays'[b][i] = arrays[b][i]
<1> DEFINE new == [arrays[a] EXCEPT ![k] = e]
           T == Seq(Element)
<1>1. arrays[a] \in T
  BY ElementOfSeq
<1>2. /\ new \in T /\ Len(new) = Len(arrays[a]) /\ new[k] = e
      /\ \A i \in 1..Len(arrays[a]) : i # k => new[i] = arrays[a][i]
  BY <1>1, ExceptSeq
<1>3. arrays' = [arrays EXCEPT ![a] = new] /\ arrays \in Seq(T)
  BY DEF Writes
<1> HIDE DEF new, T
<1>4. /\ arrays' \in Seq(T) /\ Len(arrays') = Len(arrays)
      /\ \A b \in 1..Len(arrays) : arrays'[b] = IF b = a THEN new ELSE arrays[b]
  <2>1. /\ [arrays EXCEPT ![a] = new] \in Seq(T)
        /\ Len([arrays EXCEPT ![a] = new]) = Len(arrays)
        /\ \A b \in 1..Len(arrays) :
             [arrays EXCEPT ![a] = new][b] = IF b = a THEN new ELSE arrays[b]
    BY <1>2, <1>3, ExceptSeq
  <2> QED BY <1>3, <2>1
<1>5. /\ arrays'[a] = new
      /\ \A b \in 1..Len(arrays) : b # a => arrays'[b] = arrays[b]
  BY <1>4
<1>6. \A b \in 1..Len(arrays) : Len(arrays'[b]) = Len(arrays[b])
  BY <1>2, <1>5
<1>7. arrays' \in Seq(Seq(Element)) /\ Len(arrays) \in Nat
  BY <1>4 DEF T
<1>8. ArraysGrow
  BY <1>4, <1>6, <1>7 DEF ArraysGrow
<1>9. \A b \in 1..Len(arrays) : \A i \in 1..Len(arrays[b]) :
        b # a \/ i # k => arrays'[b][i] = arrays[b][i]
  BY <1>2, <1>5
<1> QED BY <1>2, <1>4, <1>5, <1>8, <1>9

LEMMA RegistrationEffect ==
  ASSUME Apart, SharedTypeOK, NewestArray, OneEach,
         NEW id \in Identities, NEW fresh \in Secrets,
         RegisterContext(id, fresh)
  PROVE  /\ ArraysGrow /\ contexts' \in [array : Nat, len : Nat] /\ NewestArray'
         /\ \E e \in Element :
              /\ e.identity = id /\ e.secret = fresh
              /\ Adds(e) \/ \E k \in 1..contexts.len : Replaces(e, k)
<1> DEFINE e == [identity |-> id, secret |-> fresh]
<1>1. e \in Element /\ e.identity = id /\ e.secret = fresh
  BY DEF Element
<1>2. Replace(e) \/ AppendInPlace(e) \/ AppendToCopy(e)
  BY DEF RegisterContext
<1> HIDE DEF e
<1>3. /\ contexts.len \in Nat /\ contexts.array \in 1..Len(arrays)
      /\ contexts.array = Len(arrays) /\ contexts.len <= Len(arrays[contexts.array])
      /\ arrays \in Seq(Seq(Element)) /\ arrays[contexts.array] \in Seq(Element)
      /\ contexts \in [array : Nat, len : Nat]
  BY CurrentElements DEF SharedTypeOK, NewestArray
<1>4. /\ Elements \in [1..contexts.len -> Element] /\ Len(Elements) = contexts.len
      /\ \A i \in 1..contexts.len : Elements[i] = arrays[contexts.array][i]
  BY CurrentElements
<1>5. Matching(Elements, e.identity) = {i \in 1..contexts.len : Elements[i].identity = id}
  <2>1. \A i \in 1..contexts.len : Elements[i].identity \in Identities
    BY <1>4 DEF Element
  <2> QED BY <1>1, <1>4, <2>1, MatchIsEquality DEF Matching
<1>6. CASE Replace(e)
  <2> DEFINE k == Min(Matching(Elements, e.identity))
  <2>1. Matching(Elements, e.identity) # {} /\ contexts' = contexts
        /\ arrays' = [arrays EXCEPT ![contexts.array][k] = e]
    BY <1>6 DEF Replace
  <2>2. k \in Matching(Elements, e.identity)
    <3>1. PICK j \in 1..contexts.len : Elements[j].identity = id
      BY <1>5, <2>1
    <3>2. Matching(Elements, e.identity) = {j}
      BY <1>5, <3>1 DEF OneEach
    <3>3. Min({j}) = j
      BY DEF Min
    <3> QED BY <3>2, <3>3
  <2>3. k \in 1..contexts.len /\ Elements[k].identity = e.identity
    BY <1>1, <1>5, <2>2
  <2>4. k \in 1..Len(arrays[contexts.array])
    BY <1>3, <2>3
  <2>5. PICK a \in 1..Len(arrays) : a = contexts.array
    BY <1>3
  <2> HIDE DEF k
  <2>6. PICK j : j = k
    OBVIOUS
  <2>7. /\ ArraysGrow /\ Len(arrays') = Len(arrays)
        /\ arrays'[a][j] = e
        /\ \A b \in 1..Len(arrays) : \A i \in 1..Len(arrays[b]) :
              b # a \/ i # j => arrays'[b][i] = arrays[b][i]
    <3>1. Writes(a, j, e) /\ j \in 1..Len(arrays[a])
      BY <2>1, <2>4, <2>5, <2>6 DEF Writes
    <3> QED BY <1>1, <1>3, <3>1, SlotWritten
  <2>8. Replaces(e, j)
    BY <2>1, <2>3, <2>5, <2>6, <2>7 DEF Replaces
  <2>9. NewestArray'
    BY <1>3, <2>1, <2>7 DEF NewestArray, ArraysGrow
  <2> QED BY <1>1, <1>3, <2>1, <2>3, <2>6, <2>7, <2>8, <2>9
<1>7. CASE AppendInPlace(e)
  <2>1. /\ Matching(Elements, e.identity) = {} /\ contexts.len < Len(arrays[contexts.array])
        /\ arrays' = [arrays EXCEPT ![contexts.array][contexts.len + 1] = e]
        /\ contexts' = [contexts EXCEPT !.len = contexts.len + 1]
    BY <1>7 DEF AppendInPlace
  <2>2. PICK a \in 1..Len(arrays) : a = contexts.array
    BY <1>3
  <2>3. PICK j \in 1..Len(arrays[a]) : j = contexts.len + 1
    BY <1>3, <2>1, <2>2
  <2>4. /\ ArraysGrow /\ Len(arrays') = Len(arrays)
        /\ arrays'[a][j] = e
        /\ \A b \in 1..Len(arrays) : \A i \in 1..Len(arrays[b]) :
              b # a \/ i # j => arrays'[b][i] = arrays[b][i]
    <3>1. Writes(a, j, e)
      BY <2>1, <2>2, <2>3 DEF Writes
    <3> QED BY <1>1, <1>3, <3>1, SlotWritten
  <2>5. /\ contexts'.array = contexts.array /\ contexts'.len = contexts.len + 1
        /\ contexts' \in [array : Nat, len : Nat] /\ contexts.len > 2
    BY <1>3, <2>1 DEF NewestArray
  <2>6. \A i \in 1..contexts.len : i \in 1..Len(arrays[a]) /\ i # j
    BY <1>3, <2>2, <2>3
  <2>7. Adds(e)
    BY <1>1, <1>3, <1>5, <2>1, <2>2, <2>3, <2>4, <2>5, <2>6 DEF Adds
  <2>8. NewestArray'
    BY <1>3, <2>1, <2>2, <2>4, <2>5 DEF NewestArray, ArraysGrow
  <2> QED BY <1>1, <2>4, <2>5, <2>7, <2>8
<1>8. CASE AppendToCopy(e)
  <2> DEFINE es == Grown(Elements, e)
             n == contexts.len
  <2>1. /\ arrays' = Append(arrays, es) /\ n = Len(arrays[contexts.array])
        /\ contexts' = [array |-> Len(arrays) + 1, len |-> n + 1]
        /\ Matching(Elements, e.identity) = {}
    BY <1>8 DEF AppendToCopy
  <2>2. /\ Capacity(n) \in Nat /\ n + 1 <= Capacity(n)
        /\ n + 1 <= 2 => Capacity(n) = n + 1
    BY <1>3 DEF Capacity
  <2>3. Blank \in Element
    BY ContextsAssumption DEF Blank, Element
  <2>4. es = [i \in 1..Capacity(n) |->
                IF i <= n THEN Elements[i] ELSE IF i = n + 1 THEN e ELSE Blank]
    BY <1>4 DEF Grown
  <2> HIDE DEF es
  <2>5. es \in [1..Capacity(n) -> Element]
    BY <1>1, <1>3, <1>4, <2>2, <2>3, <2>4
  <2>6. es[n + 1] = e /\ \A i \in 1..n : es[i] = Elements[i]
    BY <1>3, <2>2, <2>4
  <2>7. es \in Seq(Element) /\ Len(es) = Capacity(n)
    BY <2>2, <2>5
  <2>8. /\ Len(arrays') = Len(arrays) + 1 /\ arrays'[Len(arrays) + 1] = es
        /\ arrays' \in Seq(Seq(Element))
        /\ \A b \in 1..Len(arrays) : arrays'[b] = arrays[b]
    BY <1>3, <2>1, <2>7, AppendProperties
  <2>9. /\ contexts'.array = Len(arrays) + 1 /\ contexts'.len = n + 1
        /\ contexts' \in [array : Nat, len : Nat]
    BY <1>3, <2>1
  <2>10. ArraysGrow
    BY <1>3, <2>8 DEF ArraysGrow
  <2>11. Adds(e)
    <3>1. \A i \in 1..n : Elements[i].identity # e.identity
      BY <1>1, <1>5, <2>1
    <3>2. contexts'.array # contexts.array
      BY <1>3, <2>9
    <3> QED BY <1>4, <2>6, <2>8, <2>9, <3>1, <3>2 DEF Adds
  <2>12. NewestArray'
    BY <1>3, <2>2, <2>7, <2>8, <2>9 DEF NewestArray
  <2> QED BY <1>1, <2>9, <2>10, <2>11, <2>12
<1> QED BY <1>2, <1>6, <1>7, <1>8

-----------------------------------------------------------------------------
(***************************************************************************)
(* Each identity keeps one element, which holds its newest secret.         *)
(***************************************************************************)
LEMMA RegistrationKeepsOneEach ==
  ASSUME SharedTypeOK, NewestArray, contexts' \in [array : Nat, len : Nat],
         NewestArray', OneEach, ArraysGrow,
         NEW e \in Element, Adds(e) \/ \E k \in 1..contexts.len : Replaces(e, k),
         latest' = [latest EXCEPT ![e.identity] = e.secret]
  PROVE  OneEach'
<1>1. /\ e.identity \in Identities /\ e.secret \in Secrets \cup {NoContext}
      /\ contexts.len \in Nat /\ contexts'.len \in Nat
      /\ \A i \in 1..contexts.len : Elements[i].identity \in Identities
      /\ \A i \in 1..contexts.len : Elements[i] = arrays[contexts.array][i]
  <2>1. contexts'.len \in Nat
    OBVIOUS
  <2>2. e.identity \in Identities /\ e.secret \in Secrets \cup {NoContext}
    BY DEF Element
  <2> QED BY <2>1, <2>2, CurrentElements DEF Element
<1>2. \A i \in 1..contexts'.len : Elements'[i] = arrays'[contexts'.array][i]
  BY DEF Elements
<1>3. latest'[e.identity] = e.secret /\
      \A id \in Identities : id # e.identity => latest'[id] = latest[id]
  BY <1>1 DEF SharedTypeOK
<1>4. ASSUME NEW k \in 1..contexts.len, Replaces(e, k) PROVE OneEach'
  <2>1. /\ contexts'.len = contexts.len /\ Elements'[k] = e
        /\ Elements[k].identity = e.identity
        /\ \A i \in 1..contexts.len : i # k => Elements'[i] = Elements[i]
    <3>1. contexts' = contexts /\ arrays'[contexts.array][k] = e
      BY <1>4 DEF Replaces
    <3>2. contexts.array \in 1..Len(arrays) /\
          1..contexts.len \subseteq 1..Len(arrays[contexts.array])
      BY CurrentElements
    <3>3. \A i \in 1..contexts.len : i # k => arrays'[contexts.array][i] = arrays[contexts.array][i]
      BY <1>4, <3>2 DEF Replaces
    <3>4. Elements[k].identity = e.identity /\ k \in 1..contexts.len
      BY <1>4 DEF Replaces
    <3> QED BY <1>1, <1>2, <3>1, <3>3, <3>4
  <2>2. \A i \in 1..contexts.len : Elements'[i].identity = Elements[i].identity
    BY <2>1
  <2>3. \A i, j \in 1..contexts'.len : Elements'[i].identity = Elements'[j].identity => i = j
    BY <2>1, <2>2 DEF OneEach
  <2>4. ASSUME NEW i \in 1..contexts'.len
        PROVE  latest'[Elements'[i].identity] = Elements'[i].secret
    <3>1. CASE i = k
      BY <1>3, <2>1, <3>1
    <3>2. CASE i # k
      <4>1. Elements[i].identity # e.identity
        BY <2>1, <3>2 DEF OneEach
      <4> QED BY <1>1, <1>3, <2>1, <3>2, <4>1 DEF OneEach
    <3> QED BY <3>1, <3>2
  <2>5. ASSUME NEW id \in Identities, latest'[id] # NoContext
        PROVE  \E i \in 1..contexts'.len : Elements'[i].identity = id
    <3>1. CASE id = e.identity
      BY <2>1, <3>1
    <3>2. CASE id # e.identity
      BY <1>3, <2>1, <2>2, <2>5, <3>2 DEF OneEach
    <3> QED BY <3>1, <3>2
  <2> QED BY <2>3, <2>4, <2>5 DEF OneEach
<1>5. CASE Adds(e)
  <2> DEFINE n == contexts.len
  <2>1. /\ contexts'.len = n + 1 /\ Elements'[n + 1] = e
        /\ \A i \in 1..n : Elements'[i] = Elements[i]
        /\ \A i \in 1..n : Elements[i].identity # e.identity
    BY <1>1, <1>2, <1>5 DEF Adds
  <2>2. \A i \in 1..(n + 1) : i \in 1..n \/ i = n + 1
    BY <1>1
  <2>3. 1..n \subseteq 1..(n + 1) /\ n + 1 \in 1..(n + 1)
    BY <1>1
  <2> HIDE DEF n
  <2>4. \A i, j \in 1..contexts'.len : Elements'[i].identity = Elements'[j].identity => i = j
    BY <2>1, <2>2 DEF OneEach, n
  <2>5. ASSUME NEW i \in 1..contexts'.len
        PROVE  latest'[Elements'[i].identity] = Elements'[i].secret
    BY <1>1, <1>3, <2>1, <2>2 DEF OneEach, n
  <2>6. ASSUME NEW id \in Identities, latest'[id] # NoContext
        PROVE  \E i \in 1..contexts'.len : Elements'[i].identity = id
    <3>1. CASE id = e.identity
      BY <2>1, <2>3, <3>1
    <3>2. CASE id # e.identity
      <4>1. PICK i \in 1..n : Elements[i].identity = id
        BY <1>3, <2>6, <3>2 DEF OneEach, n
      <4> QED BY <2>1, <2>3, <4>1
    <3> QED BY <3>1, <3>2
  <2> QED BY <2>4, <2>5, <2>6 DEF OneEach
<1> QED BY <1>4, <1>5

(***************************************************************************)
(* What a reader in a call sees of a registration: identities stay where   *)
(* they are, and an element that changes is the newest of its identity.    *)
(***************************************************************************)
LEMMA ViewAfterRegistration ==
  ASSUME SharedTypeOK, NewestArray, contexts' \in [array : Nat, len : Nat],
         NewestArray', ArraysGrow,
         NEW e \in Element, Adds(e) \/ \E k \in 1..contexts.len : Replaces(e, k),
         NEW r \in Readers, ViewCurrent(r), view' = view
  PROVE  /\ view[r].array \in 1..Len(arrays') /\ view[r].len \in 1..Len(arrays'[view[r].array])
         /\ contexts.len <= contexts'.len
         /\ view[r].array = contexts'.array =>
              /\ view[r].len <= contexts'.len
              /\ contexts'.len <= 3 => view[r].len = contexts'.len
         /\ \A i \in 1..view[r].len :
              /\ Read(r, i)'.identity = Read(r, i).identity
              /\ \/ Read(r, i)' = Read(r, i)
                 \/ view[r].array = contexts'.array /\ Read(r, i)' = Elements'[i]
<1>1. /\ view[r].array \in 1..Len(arrays) /\ view[r].len \in 1..Len(arrays[view[r].array])
      /\ contexts.len \in Nat /\ contexts'.len \in Nat /\ view[r].len \in Nat
      /\ contexts.array = Len(arrays) /\ Len(arrays) \in Nat /\ Len(arrays') \in Nat
      /\ contexts.array \in 1..Len(arrays)
      /\ \A i \in 1..contexts.len : Elements[i] = arrays[contexts.array][i]
  <2>1. view[r].array \in 1..Len(arrays) /\ view[r].len \in 1..Len(arrays[view[r].array])
    BY DEF ViewCurrent
  <2>2. contexts.array = Len(arrays) /\ view[r].len \in Nat
    BY DEF NewestArray, SharedTypeOK
  <2>3. contexts'.len \in Nat /\ Len(arrays) \in Nat /\ Len(arrays') \in Nat
    BY DEF SharedTypeOK, ArraysGrow
  <2> QED BY <2>1, <2>2, <2>3, CurrentElements
<1>2. arrays[view[r].array] \in Seq(Element)
  BY <1>1, ElementOfSeq DEF SharedTypeOK
<1>3. /\ view[r].array \in 1..Len(arrays')
      /\ Len(arrays'[view[r].array]) = Len(arrays[view[r].array])
      /\ 1..view[r].len \subseteq 1..Len(arrays[view[r].array])
  <2>1. /\ view[r].array \in 1..Len(arrays')
        /\ Len(arrays'[view[r].array]) = Len(arrays[view[r].array])
    <3>1. PICK a \in 1..Len(arrays) : a = view[r].array
      BY <1>1
    <3>2. Len(arrays'[a]) = Len(arrays[a]) /\ a \in 1..Len(arrays')
      <4>1. Len(arrays'[a]) = Len(arrays[a]) /\ Len(arrays) <= Len(arrays')
        BY DEF ArraysGrow
      <4> QED BY <1>1, <4>1
    <3> QED BY <3>1, <3>2
  <2>2. 1..view[r].len \subseteq 1..Len(arrays[view[r].array])
    BY <1>1, <1>2
  <2> QED BY <2>1, <2>2
<1>4. \A i : Read(r, i) = arrays[view[r].array][i] /\ Read(r, i)' = arrays'[view[r].array][i]
  BY DEF Read
<1>5. \A i \in 1..contexts'.len : Elements'[i] = arrays'[contexts'.array][i]
  BY DEF Elements
<1>6. ASSUME NEW k \in 1..contexts.len, Replaces(e, k),
             NEW i \in 1..view[r].len
      PROVE  /\ Read(r, i)'.identity = Read(r, i).identity
             /\ \/ Read(r, i)' = Read(r, i)
                \/ view[r].array = contexts'.array /\ Read(r, i)' = Elements'[i]
  <2>1. contexts' = contexts /\ Elements[k].identity = e.identity
        /\ arrays'[contexts.array][k] = e
    BY <1>6 DEF Replaces
  <2>2. CASE view[r].array = contexts.array /\ i = k
    BY <1>1, <1>4, <1>5, <2>1, <2>2
  <2>3. CASE view[r].array # contexts.array \/ i # k
    <3>1. arrays'[view[r].array][i] = arrays[view[r].array][i]
      BY <1>1, <1>3, <1>6, <2>3 DEF Replaces
    <3> QED BY <1>4, <3>1
  <2> QED BY <2>2, <2>3
<1>7. ASSUME Adds(e), NEW i \in 1..view[r].len PROVE Read(r, i)' = Read(r, i)
  <2>1. view[r].array = contexts.array => i <= contexts.len
    BY <1>1 DEF ViewCurrent
  <2>2. arrays'[view[r].array][i] = arrays[view[r].array][i]
    BY <1>1, <1>3, <1>7, <2>1 DEF Adds
  <2> QED BY <1>4, <2>2
<1>8. /\ contexts.len <= contexts'.len
      /\ view[r].array = contexts'.array =>
           /\ view[r].len <= contexts'.len
           /\ contexts'.len <= 3 => view[r].len = contexts'.len
  <2>1. ASSUME NEW k \in 1..contexts.len, Replaces(e, k) PROVE contexts' = contexts
    BY <2>1 DEF Replaces
  <2>2. CASE contexts' = contexts
    BY <1>1, <2>2 DEF ViewCurrent
  <2>3. CASE Adds(e)
    <3>1. /\ contexts'.len = contexts.len + 1
          /\ view[r].array = contexts'.array => contexts'.array = contexts.array
      BY <1>1, <2>3 DEF Adds
    <3>2. contexts'.array = contexts.array => contexts.len > 2
      BY <2>3 DEF Adds
    <3> QED BY <1>1, <3>1, <3>2 DEF ViewCurrent
  <2> QED BY <2>1, <2>2, <2>3
<1> QED BY <1>1, <1>3, <1>6, <1>7, <1>8

-----------------------------------------------------------------------------
LEMMA RegisterShared ==
  ASSUME Apart, SharedInv, NEW id \in Identities, NEW fresh \in Secrets,
         Register(id, fresh)
  PROVE  SharedInv'
<1>1. /\ SharedTypeOK /\ NewestArray /\ OneEach
      /\ \A r \in Readers :
           /\ InCall(r) => ViewCurrent(r)
           /\ reader[r] = "scan" => Scanning(r)
           /\ reader[r] = "first" => \A i \in 1..view[r].len : ~Wants(r, i)
      /\ ResolutionCurrent
  BY DEF SharedInv
<1>2. /\ RegisterContext(id, fresh)
      /\ UNCHANGED <<reader, wanted, view, index, copy, unread, resolved>>
      /\ latest' = [latest EXCEPT ![id] = fresh]
  BY DEF Register, RegisterContext
<1>3. PICK e \in Element :
        /\ e.identity = id /\ e.secret = fresh
        /\ Adds(e) \/ \E k \in 1..contexts.len : Replaces(e, k)
  BY <1>1, <1>2, RegistrationEffect
<1>4. ArraysGrow /\ contexts' \in [array : Nat, len : Nat] /\ NewestArray'
  BY <1>1, <1>2, RegistrationEffect
<1>5. contexts'.len \in Nat /\ contexts'.len > 0
  <2>1. ASSUME NEW k \in 1..contexts.len, Replaces(e, k) PROVE contexts'.len > 0
    BY <1>4, <2>1 DEF Replaces
  <2>2. ASSUME Adds(e) PROVE contexts'.len > 0
    BY <1>1, <2>2, CurrentElements DEF Adds
  <2> QED BY <1>3, <1>4, <2>1, <2>2
<1>6. \A i \in 1..contexts'.len : Elements'[i] \in Element
  <2>1. arrays' \in Seq(Seq(Element)) /\ contexts'.array \in 1..Len(arrays')
    BY <1>4 DEF ArraysGrow, NewestArray
  <2>2. arrays'[contexts'.array] \in Seq(Element)
    BY <2>1, ElementOfSeq
  <2>3. \A i \in 1..contexts'.len : i \in 1..Len(arrays'[contexts'.array])
    BY <1>4, <1>5, <2>2 DEF NewestArray
  <2>4. \A i \in 1..contexts'.len : arrays'[contexts'.array][i] \in Element
    BY <2>2, <2>3, ElementOfSeq
  <2> QED BY <2>4 DEF Elements
<1>7. Elements' \in [1..contexts'.len -> Element]
  BY <1>6 DEF Elements
<1>8. OneEach'
  BY <1>1, <1>2, <1>3, <1>4, RegistrationKeepsOneEach
<1>9. \A r \in Readers :
        LET rs == Resolution(Elements', wanted[r]) IN
        /\ \A i \in 1..contexts'.len :
             wanted[r] # {} /\ Elements'[i].identity = wanted[r] => rs = Elements'[i].secret
        /\ (\A i \in 1..contexts'.len : ~(wanted[r] # {} /\ Elements'[i].identity = wanted[r]))
             => rs = Elements'[1].secret
        /\ rs \in Secrets \cup {NoContext}
  <2>1. \A r \in Readers : wanted[r] \in Identities
    BY <1>1 DEF SharedTypeOK
  <2>2. \A i, j \in 1..contexts'.len : Elements'[i].identity = Elements'[j].identity => i = j
    BY <1>8 DEF OneEach
  <2> QED BY <1>5, <1>7, <2>1, <2>2, ResolutionIs
<1>10. Elements'[1].secret \in Secrets \cup {NoContext}
  BY <1>5, <1>6 DEF Element
<1>11. \A r \in Readers :
         /\ possible[r] \subseteq possible'[r] /\ firsts[r] \subseteq firsts'[r]
         /\ InCall(r) => /\ Resolution(Elements', wanted[r]) \in possible'[r]
                         /\ Elements'[1].secret \in firsts'[r]
         /\ ~InCall(r) => possible'[r] = possible[r] /\ firsts'[r] = firsts[r]
  BY DEF Register
<1>12. /\ possible' \in [Readers -> SUBSET (Secrets \cup {NoContext})]
       /\ firsts' \in [Readers -> SUBSET (Secrets \cup {NoContext})]
  <2>1. /\ possible \in [Readers -> SUBSET (Secrets \cup {NoContext})]
        /\ firsts \in [Readers -> SUBSET (Secrets \cup {NoContext})]
    BY <1>1 DEF SharedTypeOK
  <2> QED BY <1>9, <1>10, <2>1 DEF Register
<1>13. SharedTypeOK'
  <2>1. latest' \in [Identities -> Secrets \cup {NoContext}]
    BY <1>1, <1>2 DEF SharedTypeOK
  <2> QED BY <1>1, <1>2, <1>4, <1>12, <2>1 DEF SharedTypeOK, ArraysGrow, Element
<1>14. ASSUME NEW r \in Readers, InCall(r)
       PROVE  /\ ViewCurrent(r)'
              /\ \A i \in 1..view[r].len : Wants(r, i)' <=> Wants(r, i)
              /\ \A i \in 1..view[r].len : Read(r, i)'.identity = Read(r, i).identity
  <2>1. ViewCurrent(r) /\ view' = view /\ wanted' = wanted
    BY <1>1, <1>2, <1>14
  <2>2. /\ view[r].array \in 1..Len(arrays') /\ view[r].len \in 1..Len(arrays'[view[r].array])
        /\ contexts.len <= contexts'.len
        /\ view[r].array = contexts'.array =>
             /\ view[r].len <= contexts'.len
             /\ contexts'.len <= 3 => view[r].len = contexts'.len
        /\ \A i \in 1..view[r].len :
             /\ Read(r, i)'.identity = Read(r, i).identity
             /\ \/ Read(r, i)' = Read(r, i)
                \/ view[r].array = contexts'.array /\ Read(r, i)' = Elements'[i]
    BY <1>1, <1>3, <1>4, <2>1, ViewAfterRegistration
  <2>3. view[r].len \in Nat /\ 1 \in 1..view[r].len
    BY <1>1, <2>1 DEF SharedTypeOK, ViewCurrent
  <2>4. \A i \in 1..view[r].len : Wants(r, i)' <=> Wants(r, i)
    BY <2>1, <2>2 DEF Wants
  <2>5. ASSUME NEW i \in 1..view[r].len, Wants(r, i)' PROVE Read(r, i)'.secret \in possible'[r]
    <3>1. CASE Read(r, i)' = Read(r, i)
      BY <1>11, <2>1, <2>4, <2>5, <3>1 DEF ViewCurrent
    <3>2. CASE view[r].array = contexts'.array /\ Read(r, i)' = Elements'[i]
      <4>1. i \in 1..contexts'.len
        BY <1>5, <2>2, <2>3, <3>2
      <4>2. wanted[r] # {} /\ Elements'[i].identity = wanted[r]
        BY <2>1, <2>5, <3>2 DEF Wants
      <4> QED BY <1>9, <1>11, <1>14, <3>2, <4>1, <4>2
    <3> QED BY <2>2, <3>1, <3>2
  <2>6. Read(r, 1)'.secret \in firsts'[r]
    BY <1>11, <1>14, <2>1, <2>2, <2>3 DEF ViewCurrent
  <2>7. ASSUME contexts'.len <= 3, \A i \in 1..view[r].len : ~Wants(r, i)'
        PROVE  Read(r, 1)'.secret \in possible'[r]
    <3>1. CASE Read(r, 1)' = Read(r, 1)
      <4>1. contexts.len <= 3
        BY <1>1, <1>5, <2>2, <2>7, CurrentElements
      <4> QED BY <1>11, <2>1, <2>4, <2>7, <3>1, <4>1 DEF ViewCurrent
    <3>2. CASE view[r].array = contexts'.array /\ Read(r, 1)' # Read(r, 1)
      <4>1. view[r].len = contexts'.len
        BY <2>2, <2>7, <3>2
      <4>2. ASSUME NEW i \in 1..contexts'.len, wanted[r] # {}, Elements'[i].identity = wanted[r]
            PROVE  FALSE
        <5>1. Read(r, i)' = Elements'[i]
          BY <2>1, <3>2 DEF Read, Elements
        <5> QED BY <2>1, <2>7, <4>1, <4>2, <5>1 DEF Wants
      <4>3. Read(r, 1)' = Elements'[1]
        BY <2>2, <2>3, <3>2
      <4> QED BY <1>9, <1>11, <1>14, <4>2, <4>3
    <3> QED BY <2>2, <2>3, <3>1, <3>2
  <2> QED BY <2>1, <2>2, <2>4, <2>5, <2>6, <2>7 DEF ViewCurrent
<1>15. ASSUME NEW r \in Readers, reader[r] = "scan" PROVE Scanning(r)'
  <2>1. Scanning(r) /\ InCall(r)
    BY <1>1, <1>15 DEF InCall
  <2>2. index[r] \in 1..view[r].len /\ view[r].len \in Nat /\ 1..(index[r] - 1) \subseteq 1..view[r].len
    BY <1>1, <2>1 DEF Scanning, SharedTypeOK
  <2> QED BY <1>2, <1>11, <1>14, <2>1, <2>2 DEF Scanning
<1>16. ASSUME NEW r \in Readers, reader[r] = "first"
       PROVE  \A i \in 1..view[r].len : ~Wants(r, i)'
  BY <1>1, <1>14, <1>16 DEF InCall
<1>17. ResolutionCurrent'
  <2>1. contexts.len > 3 => contexts'.len > 3
    <3>1. contexts.len \in Nat /\ contexts'.len >= contexts.len
      <4>1. ASSUME NEW k \in 1..contexts.len, Replaces(e, k) PROVE contexts'.len = contexts.len
        BY <4>1 DEF Replaces
      <4>2. ASSUME Adds(e) PROVE contexts'.len = contexts.len + 1
        BY <4>2 DEF Adds
      <4> QED BY <1>1, <1>3, <4>1, <4>2, CurrentElements
    <3> QED BY <1>5, <3>1
  <2> QED BY <1>1, <1>2, <1>11, <2>1 DEF ResolutionCurrent
<1> QED BY <1>2, <1>4, <1>8, <1>13, <1>14, <1>15, <1>16, <1>17 DEF SharedInv, InCall

-----------------------------------------------------------------------------
(***************************************************************************)
(* A step of one reader: the store, the registrations and the other        *)
(* readers are left alone.                                                 *)
(***************************************************************************)
OneReader(r) ==
  /\ UNCHANGED <<arrays, contexts, latest>>
  /\ \A q \in Readers \ {r} :
       /\ reader'[q] = reader[q] /\ wanted'[q] = wanted[q] /\ view'[q] = view[q]
       /\ index'[q] = index[q] /\ copy'[q] = copy[q] /\ unread'[q] = unread[q]
       /\ resolved'[q] = resolved[q]
       /\ possible'[q] = possible[q] /\ firsts'[q] = firsts[q]

ReaderOK(r) ==
  /\ InCall(r) => ViewCurrent(r)
  /\ reader[r] = "scan" => Scanning(r)
  /\ reader[r] = "first" => \A i \in 1..view[r].len : ~Wants(r, i)
  /\ reader[r] = "resolved" =>
       \/ resolved[r] \in possible[r]
       \/ contexts.len > 3 /\ resolved[r] \in firsts[r]

LEMMA OneReaderShared ==
  ASSUME SharedInv, NEW r \in Readers, OneReader(r), SharedTypeOK', ReaderOK(r)'
  PROVE  SharedInv'
<1>1. NewestArray' /\ OneEach'
  <2>1. UNCHANGED <<arrays, contexts, latest>> /\ Elements' = Elements
    BY DEF OneReader, Elements
  <2> QED BY <2>1 DEF SharedInv, NewestArray, OneEach
<1>2. ASSUME NEW q \in Readers, q # r PROVE ReaderOK(q)'
  <2>1. \A i : Read(q, i)' = Read(q, i) /\ (Wants(q, i)' <=> Wants(q, i))
    BY <1>2 DEF OneReader, Read, Wants
  <2>2. ViewCurrent(q)' <=> ViewCurrent(q)
    BY <1>2, <2>1 DEF OneReader, ViewCurrent
  <2>3. Scanning(q)' <=> Scanning(q)
    BY <1>2, <2>1 DEF OneReader, Scanning
  <2>4. ReaderOK(q)
    BY DEF SharedInv, ReaderOK, ResolutionCurrent
  <2> QED BY <1>2, <2>1, <2>2, <2>3, <2>4 DEF OneReader, ReaderOK, InCall
<1>3. \A q \in Readers : ReaderOK(q)'
  BY <1>2
<1> QED BY <1>1, <1>3 DEF SharedInv, ReaderOK, ResolutionCurrent

LEMMA ResolutionNow ==
  ASSUME Apart, SharedTypeOK, NewestArray, OneEach, NEW id \in Identities
  PROVE  /\ \A k \in 1..contexts.len :
              id # {} /\ Elements[k].identity = id => Resolution(Elements, id) = Elements[k].secret
         /\ contexts.len > 0 =>
              /\ (\A k \in 1..contexts.len : ~(id # {} /\ Elements[k].identity = id)) =>
                   Resolution(Elements, id) = Elements[1].secret
              /\ Resolution(Elements, id) \in Secrets \cup {NoContext}
<1>1. contexts.len \in Nat /\ Elements \in [1..contexts.len -> Element]
  BY CurrentElements
<1>2. PICK n \in Nat : n = contexts.len
  BY <1>1
<1>3. PICK es \in [1..n -> Element] : es = Elements
  BY <1>1, <1>2
<1>4. \A i, j \in 1..n : es[i].identity = es[j].identity => i = j
  BY <1>2, <1>3 DEF OneEach
<1>5. /\ \A k \in 1..n : id # {} /\ es[k].identity = id => Resolution(es, id) = es[k].secret
      /\ n > 0 /\ (\A k \in 1..n : ~(id # {} /\ es[k].identity = id)) =>
           Resolution(es, id) = es[1].secret
      /\ n > 0 => Resolution(es, id) \in Secrets \cup {NoContext}
  BY <1>4, ResolutionIs
<1> QED BY <1>2, <1>3, <1>5

LEMMA ResolveShared ==
  ASSUME Apart, SharedInv, NEW r \in Readers, NEW id \in Identities, Resolve(r, id)
  PROVE  SharedInv'
<1>1. /\ SharedTypeOK /\ NewestArray /\ OneEach
  BY DEF SharedInv
<1>2. /\ contexts.len \in Nat /\ contexts.array \in 1..Len(arrays)
      /\ Elements \in [1..contexts.len -> Element] /\ Len(Elements) = contexts.len
      /\ \A i \in 1..contexts.len : Elements[i] = arrays[contexts.array][i]
  BY <1>1, CurrentElements
<1>3. /\ wanted' = [wanted EXCEPT ![r] = id] /\ view' = [view EXCEPT ![r] = contexts]
      /\ index' = [index EXCEPT ![r] = 1] /\ unread' = [unread EXCEPT ![r] = Words]
      /\ possible' = [possible EXCEPT ![r] = {Resolution(Elements, id)}]
      /\ firsts' = [firsts EXCEPT ![r] = {Resolution(Elements, {})}]
      /\ UNCHANGED <<arrays, contexts, copy, latest>>
  BY DEF Resolve, ResolveContext, store
<1>4. \/ /\ contexts.len = 0
         /\ resolved' = [resolved EXCEPT ![r] = NoContext]
         /\ reader' = [reader EXCEPT ![r] = "resolved"]
      \/ /\ contexts.len # 0 /\ resolved' = resolved
         /\ id = {} /\ reader' = [reader EXCEPT ![r] = "first"]
      \/ /\ contexts.len # 0 /\ resolved' = resolved
         /\ id # {} /\ reader' = [reader EXCEPT ![r] = "scan"]
  BY DEF Resolve, ResolveContext, Resolved
<1>5. ASSUME NEW i \in Identities
      PROVE  /\ \A k \in 1..contexts.len :
                  i # {} /\ Elements[k].identity = i => Resolution(Elements, i) = Elements[k].secret
             /\ contexts.len > 0 /\ (\A k \in 1..contexts.len : ~(i # {} /\ Elements[k].identity = i))
                  => Resolution(Elements, i) = Elements[1].secret
             /\ contexts.len = 0 => Resolution(Elements, i) = NoContext
             /\ Resolution(Elements, i) \in Secrets \cup {NoContext}
  <2>1. contexts.len = 0 => Resolution(Elements, i) = NoContext
    BY <1>2 DEF Resolution
  <2>3. contexts.len = 0 \/ contexts.len > 0
    BY <1>2
  <2> QED BY <1>1, <1>2, <2>1, <2>3, ResolutionNow
<1>6. {} \in Identities
  BY ContextsAssumption
<1>7. SharedTypeOK'
  <2>1. /\ possible' \in [Readers -> SUBSET (Secrets \cup {NoContext})]
        /\ firsts' \in [Readers -> SUBSET (Secrets \cup {NoContext})]
    BY <1>1, <1>3, <1>5, <1>6 DEF SharedTypeOK
  <2>2. /\ wanted' \in [Readers -> Identities] /\ index' \in [Readers -> Nat]
        /\ view' \in [Readers -> [array : Nat, len : Nat]]
        /\ unread' \in [Readers -> SUBSET Words]
    BY <1>1, <1>3 DEF SharedTypeOK
  <2>3. /\ reader' \in [Readers -> {"idle", "scan", "first", "resolved"}]
        /\ resolved' \in [Readers -> Secrets \cup {NoContext}]
    BY <1>1, <1>4 DEF SharedTypeOK
  <2> QED BY <1>1, <1>3, <2>1, <2>2, <2>3 DEF SharedTypeOK, Element
<1>8. OneReader(r)
  BY <1>1, <1>3, <1>4 DEF OneReader, SharedTypeOK
<1>9. /\ wanted'[r] = id /\ view'[r] = contexts /\ index'[r] = 1 /\ unread'[r] = Words
      /\ possible'[r] = {Resolution(Elements, id)}
      /\ firsts'[r] = {Resolution(Elements, {})}
  BY <1>1, <1>3 DEF SharedTypeOK
<1>10. \A i \in 1..contexts.len :
         Read(r, i)' = Elements[i] /\ (Wants(r, i)' <=> (id # {} /\ Elements[i].identity = id))
  <2>1. \A i \in 1..contexts.len : Read(r, i)' = Elements[i]
    BY <1>2, <1>3, <1>9 DEF Read
  <2> QED BY <1>9, <2>1 DEF Wants
<1>11. CASE contexts.len = 0
  <2>1. reader'[r] = "resolved" /\ resolved'[r] = NoContext
    BY <1>1, <1>4, <1>11 DEF SharedTypeOK
  <2>2. ReaderOK(r)'
    BY <1>5, <1>9, <1>11, <2>1 DEF ReaderOK, InCall
  <2> QED BY <1>7, <1>8, <2>2, OneReaderShared
<1>12. CASE contexts.len # 0
  <2>1. 1 \in 1..contexts.len /\ 1..contexts.len \subseteq 1..Len(arrays[contexts.array])
    BY <1>1, <1>2, <1>12, CurrentElements
  <2>2. contexts.len \in 1..Len(arrays[contexts.array])
    BY <1>2, <1>12, <2>1
  <2>3. /\ \A i \in 1..contexts.len : Wants(r, i)' => Read(r, i)'.secret \in possible'[r]
        /\ Read(r, 1)'.secret \in firsts'[r]
        /\ (\A i \in 1..contexts.len : ~Wants(r, i)') => Read(r, 1)'.secret \in possible'[r]
    BY <1>2, <1>5, <1>6, <1>9, <1>10, <1>12, <2>1
  <2>4. ViewCurrent(r)'
    BY <1>2, <1>3, <1>9, <2>2, <2>3 DEF ViewCurrent
  <2>5. Scanning(r)' \/ id = {}
    BY <1>2, <1>9, <2>1 DEF Scanning, Words
  <2>6. reader'[r] = IF id = {} THEN "first" ELSE "scan"
    BY <1>1, <1>4, <1>12 DEF SharedTypeOK
  <2>7. \A i \in 1..contexts.len : id = {} => ~Wants(r, i)'
    BY <1>10
  <2>8. ReaderOK(r)'
    BY <1>9, <2>4, <2>5, <2>6, <2>7 DEF ReaderOK, InCall
  <2> QED BY <1>7, <1>8, <2>8, OneReaderShared
<1> QED BY <1>11, <1>12

LEMMA ResolveStepShared ==
  ASSUME Apart, SharedInv, NEW r \in Readers, ResolveStep(r),
         UNCHANGED <<latest, possible, firsts>>
  PROVE  SharedInv'
<1>1. /\ SharedTypeOK
      /\ UNCHANGED <<arrays, contexts, wanted, view, latest, possible, firsts>>
      /\ reader[r] \in {"scan", "first"} /\ ViewCurrent(r)
      /\ reader[r] = "scan" => Scanning(r)
      /\ reader[r] = "first" => \A i \in 1..view[r].len : ~Wants(r, i)
  BY DEF SharedInv, ResolveStep, CopyWord, TakeMatch, NextElement, TakeFirst, InCall, store
<1>2. /\ \A i : Read(r, i)' = Read(r, i) /\ (Wants(r, i)' <=> Wants(r, i))
      /\ ViewCurrent(r)'
  <2>1. \A i : Read(r, i)' = Read(r, i) /\ (Wants(r, i)' <=> Wants(r, i))
    BY <1>1 DEF Read, Wants
  <2> QED BY <1>1, <2>1 DEF ViewCurrent
<1>3. /\ view[r].len \in Nat /\ 1 \in 1..view[r].len
      /\ \A i \in 1..view[r].len : Read(r, i) \in Element
  <2>1. arrays[view[r].array] \in Seq(Element)
    BY <1>1, ElementOfSeq DEF ViewCurrent, SharedTypeOK
  <2>2. view[r].len \in 1..Len(arrays[view[r].array])
    BY <1>1 DEF ViewCurrent
  <2>3. 1..view[r].len \subseteq 1..Len(arrays[view[r].array]) /\ 1 \in 1..view[r].len
    BY <2>1, <2>2
  <2>4. \A i \in 1..Len(arrays[view[r].array]) : arrays[view[r].array][i] \in Element
    BY <2>1, ElementOfSeq
  <2> QED BY <2>2, <2>3, <2>4 DEF Read
<1>4. CASE CopyWord(r)
  <2>1. PICK word \in unread[r] :
          /\ copy' = [copy EXCEPT ![r][word] = Read(r, index[r])[word]]
          /\ unread' = [unread EXCEPT ![r] = unread[r] \ {word}]
    BY <1>4 DEF CopyWord
  <2>2. /\ UNCHANGED <<reader, index, resolved>> /\ reader[r] = "scan"
        /\ word \in {"identity", "secret"} /\ index[r] \in 1..view[r].len /\ Scanning(r)
    BY <1>1, <1>4, <2>1 DEF CopyWord, Scanning, SharedTypeOK, Words
  <2>3. /\ Read(r, index[r]) \in Element /\ copy[r] \in Element
        /\ Element = [identity : Identities, secret : Secrets \cup {NoContext}]
    BY <1>1, <1>3, <2>2 DEF SharedTypeOK, Element
  <2> DEFINE new == [copy[r] EXCEPT ![word] = Read(r, index[r])[word]]
  <2>4. /\ new \in Element
        /\ word = "identity" => new.identity = Read(r, index[r]).identity
                                /\ new.secret = copy[r].secret
        /\ word = "secret" => new.secret = Read(r, index[r]).secret
                              /\ new.identity = copy[r].identity
    BY <2>2, <2>3
  <2>5. copy' = [copy EXCEPT ![r] = new]
    BY <2>1
  <2> HIDE DEF new
  <2>6. copy' \in [Readers -> Element] /\ copy'[r] = new
    BY <1>1, <2>4, <2>5 DEF SharedTypeOK
  <2>7. unread' \in [Readers -> SUBSET Words] /\ unread'[r] = unread[r] \ {word}
    BY <1>1, <2>1 DEF SharedTypeOK
  <2>8. SharedTypeOK'
    BY <1>1, <2>2, <2>6, <2>7 DEF SharedTypeOK, Element
  <2>9. OneReader(r)
    BY <1>1, <2>1, <2>2, <2>5 DEF OneReader, SharedTypeOK
  <2>10. "identity" \notin unread'[r] => new.identity = Read(r, index[r]).identity
    BY <2>2, <2>4, <2>7 DEF Scanning
  <2>11. "secret" \notin unread'[r] /\ Wants(r, index[r]) => new.secret \in possible[r]
    BY <1>1, <2>2, <2>4, <2>7 DEF Scanning, ViewCurrent
  <2>12. Scanning(r)'
    BY <1>1, <1>2, <2>2, <2>6, <2>10, <2>11 DEF Scanning
  <2>13. ReaderOK(r)'
    BY <1>2, <2>2, <2>12 DEF ReaderOK
  <2> QED BY <2>8, <2>9, <2>13, OneReaderShared
<1>5. CASE TakeMatch(r)
  <2>1. /\ resolved' = [resolved EXCEPT ![r] = copy[r].secret]
        /\ reader' = [reader EXCEPT ![r] = "resolved"]
        /\ UNCHANGED <<index, copy, unread>>
        /\ Scanning(r) /\ unread[r] = {} /\ IdentitiesMatch(copy[r].identity, wanted[r])
    BY <1>1, <1>5 DEF TakeMatch, Resolved
  <2>2. copy[r] \in Element /\ wanted[r] \in Identities
    BY <1>1 DEF SharedTypeOK
  <2>3. copy[r].identity = wanted[r] /\ copy[r].secret \in Secrets \cup {NoContext}
    BY <2>1, <2>2, MatchIsEquality DEF Element
  <2>4. copy[r].secret \in possible[r]
    BY <2>1, <2>3 DEF Scanning, Wants
  <2>5. SharedTypeOK' /\ reader'[r] = "resolved" /\ resolved'[r] = copy[r].secret
    BY <1>1, <2>1, <2>3 DEF SharedTypeOK, Element
  <2>6. OneReader(r)
    BY <1>1, <2>1 DEF OneReader, SharedTypeOK
  <2>7. ReaderOK(r)'
    BY <1>1, <2>4, <2>5 DEF ReaderOK, InCall
  <2> QED BY <2>5, <2>6, <2>7, OneReaderShared
<1>6. CASE NextElement(r)
  <2>1. /\ UNCHANGED <<copy, resolved>> /\ reader[r] = "scan" /\ Scanning(r)
        /\ unread[r] = {} /\ ~IdentitiesMatch(copy[r].identity, wanted[r])
    BY <1>1, <1>6 DEF NextElement
  <2>2. copy[r] \in Element /\ wanted[r] \in Identities /\ index[r] \in 1..view[r].len
    BY <1>1, <2>1 DEF SharedTypeOK, Scanning
  <2>3. ~Wants(r, index[r])
    BY <2>1, <2>2, MatchIsEquality DEF Scanning, Wants, Element
  <2>4. \A i \in 1..index[r] : ~Wants(r, i)
    <3>1. \A i \in 1..index[r] : i \in 1..(index[r] - 1) \/ i = index[r]
      BY <2>2
    <3> QED BY <2>1, <2>3, <3>1 DEF Scanning
  <2>5. CASE index[r] < view[r].len
    <3>1. /\ index' = [index EXCEPT ![r] = index[r] + 1]
          /\ unread' = [unread EXCEPT ![r] = Words]
          /\ reader' = reader
      BY <1>6, <2>5 DEF NextElement
    <3>2. /\ index'[r] = index[r] + 1 /\ unread'[r] = Words /\ index' \in [Readers -> Nat]
          /\ unread' \in [Readers -> SUBSET Words]
      BY <1>1, <3>1 DEF SharedTypeOK
    <3>3. SharedTypeOK'
      BY <1>1, <2>1, <3>1, <3>2 DEF SharedTypeOK, Element
    <3>4. OneReader(r)
      BY <1>1, <2>1, <3>1 DEF OneReader, SharedTypeOK
    <3>5. index'[r] \in 1..view[r].len /\ (index'[r] - 1) = index[r]
      BY <1>3, <2>2, <2>5, <3>2
    <3>6. Scanning(r)'
      BY <1>1, <1>2, <2>1, <2>4, <3>2, <3>5 DEF Scanning, Words
    <3>7. ReaderOK(r)'
      BY <1>2, <2>1, <3>1, <3>6 DEF ReaderOK
    <3> QED BY <3>3, <3>4, <3>7, OneReaderShared
  <2>6. CASE ~(index[r] < view[r].len)
    <3>1. reader' = [reader EXCEPT ![r] = "first"] /\ UNCHANGED <<index, unread>>
      BY <1>6, <2>6 DEF NextElement
    <3>2. SharedTypeOK' /\ reader'[r] = "first"
      BY <1>1, <2>1, <3>1 DEF SharedTypeOK, Element
    <3>3. OneReader(r)
      BY <1>1, <2>1, <3>1 DEF OneReader, SharedTypeOK
    <3>4. index[r] = view[r].len
      BY <1>3, <2>2, <2>6
    <3>5. ReaderOK(r)'
      BY <1>1, <1>2, <2>4, <3>2, <3>4 DEF ReaderOK
    <3> QED BY <3>2, <3>3, <3>5, OneReaderShared
  <2> QED BY <2>5, <2>6
<1>7. CASE TakeFirst(r)
  <2>1. /\ resolved' = [resolved EXCEPT ![r] = Read(r, 1).secret]
        /\ reader' = [reader EXCEPT ![r] = "resolved"]
        /\ UNCHANGED <<index, copy, unread>> /\ reader[r] = "first"
    BY <1>7 DEF TakeFirst, Resolved
  <2>2. Read(r, 1).secret \in Secrets \cup {NoContext}
    BY <1>3 DEF Element
  <2>3. SharedTypeOK' /\ reader'[r] = "resolved" /\ resolved'[r] = Read(r, 1).secret
    BY <1>1, <2>1, <2>2 DEF SharedTypeOK, Element
  <2>4. OneReader(r)
    BY <1>1, <2>1 DEF OneReader, SharedTypeOK
  <2>5. contexts.len \in Nat /\ Read(r, 1).secret \in firsts[r]
        /\ (contexts.len <= 3 => Read(r, 1).secret \in possible[r])
    BY <1>1, <2>1 DEF ViewCurrent, SharedTypeOK
  <2>6. contexts.len <= 3 \/ contexts.len > 3
    BY <2>5
  <2>7. ReaderOK(r)'
    BY <1>1, <2>3, <2>5, <2>6 DEF ReaderOK, InCall
  <2> QED BY <2>3, <2>4, <2>7, OneReaderShared
<1> QED BY <1>4, <1>5, <1>6, <1>7 DEF ResolveStep

LEMMA SharedInitInv == SharedInit => SharedInv
<1> SUFFICES ASSUME SharedInit PROVE SharedInv
  OBVIOUS
<1>1. /\ arrays = << << >> >> /\ contexts = [array |-> 1, len |-> 0]
      /\ reader = [r \in Readers |-> "idle"]
      /\ latest = [id \in Identities |-> NoContext]
  BY DEF SharedInit, ContextsInit
<1>2. SharedTypeOK
  <2>1. arrays \in Seq(Seq(Element)) /\ contexts \in [array : Nat, len : Nat]
    BY <1>1
  <2>2. Blank \in Element /\ {} \in Identities
    BY ContextsAssumption DEF Blank, Element
  <2> QED BY <1>1, <2>1, <2>2 DEF SharedTypeOK, SharedInit, ContextsInit
<1>3. NewestArray
  BY <1>1 DEF NewestArray
<1>4. OneEach
  BY <1>1 DEF OneEach
<1> QED BY <1>1, <1>2, <1>3, <1>4 DEF SharedInv, InCall, ResolutionCurrent

(***************************************************************************)
(* The inductive invariant of the shared contexts.                         *)
(***************************************************************************)
THEOREM SharedInvariant == ASSUME Apart PROVE SharedSpec => []SharedInv
<1>1. SharedInit => SharedInv
  BY SharedInitInv
<1>2. SharedInv /\ [SharedNext]_sharedVars => SharedInv'
  <2> SUFFICES ASSUME SharedInv, [SharedNext]_sharedVars PROVE SharedInv'
    OBVIOUS
  <2>1. ASSUME NEW r \in Readers, UNCHANGED sharedVars PROVE ReaderOK(r)'
    <3>1. UNCHANGED <<arrays, contexts, reader, wanted, view, index, copy, unread, resolved,
                      latest, possible, firsts>>
      BY <2>1 DEF sharedVars, contextVars
    <3>2. ReaderOK(r)
      BY DEF SharedInv, ReaderOK, ResolutionCurrent
    <3> QED BY <3>1, <3>2 DEF ReaderOK, InCall, ViewCurrent, Scanning, Wants, Read
  <2>2. CASE UNCHANGED sharedVars
    <3>1. UNCHANGED <<arrays, contexts, reader, wanted, view, index, copy, unread, resolved,
                      latest, possible, firsts>>
      BY <2>2 DEF sharedVars, contextVars
    <3>2. SharedTypeOK' /\ NewestArray' /\ OneEach'
      BY <3>1 DEF SharedInv, SharedTypeOK, Element, NewestArray, OneEach, Elements
    <3> QED BY <2>1, <2>2, <3>2 DEF SharedInv, ReaderOK, ResolutionCurrent
  <2> QED BY <2>2, RegisterShared, ResolveShared, ResolveStepShared DEF SharedNext
<1> QED BY <1>1, <1>2, PTL DEF SharedSpec

(***************************************************************************)
(* For any number of agents, registrations and readers: an identity        *)
(* resolves to its newest secret.                                          *)
(***************************************************************************)
THEOREM ResolvesToNewest == ASSUME Apart PROVE SharedSpec => []NewestWins
<1>1. SharedInv => NewestWins
  <2> SUFFICES ASSUME SharedInv, NEW id \in Identities \ {{}}, latest[id] # NoContext
               PROVE  Resolution(Elements, id) = latest[id]
    BY DEF NewestWins
  <2>2. PICK k \in 1..contexts.len :
          Elements[k].identity = id /\ latest[Elements[k].identity] = Elements[k].secret
    BY DEF SharedInv, OneEach
  <2>4. Resolution(Elements, id) = Elements[k].secret
    BY <2>2, ResolutionNow DEF SharedInv
  <2> QED BY <2>2, <2>4
<1> QED BY <1>1, SharedInvariant, PTL

(***************************************************************************)
(* And a reader, which works on its slice without the lock, returns what   *)
(* it could have returned with it, or since the fourth identity a newer    *)
(* first context.                                                          *)
(***************************************************************************)
THEOREM ReadersStayCurrent == ASSUME Apart PROVE SharedSpec => []ResolutionCurrent
<1>1. SharedInv => ResolutionCurrent
  BY DEF SharedInv
<1> QED BY <1>1, SharedInvariant, PTL
=============================================================================
