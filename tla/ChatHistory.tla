----------------------------- MODULE ChatHistory -----------------------------
(***************************************************************************)
(* The messages of a chat session: EncryptedChat composed with the         *)
(* ConversationContexts of the client that made the calls.  A call         *)
(* registers the secret of its handle before it returns; Send seals a      *)
(* message under the secret of the handle (chat_handle.go); and            *)
(* FetchHistorySnapshot fetches the session's messages first and resolves  *)
(* the context to open them with afterwards.                               *)
(*                                                                         *)
(* All calls share one client, so that the contexts of both sides meet.    *)
(***************************************************************************)
EXTENDS EncryptedChat, ConversationContexts, FiniteSets

CONSTANTS
  IdentityOf,   \* the peers named in the session's encryption summary
  MaxMessages   \* a bound on the messages told apart

ASSUME IdentityAssumption ==
  /\ IdentityOf \in [Roles -> Identities]
  /\ Secrets = SUBSET Calls
  /\ MaxMessages \in Nat

VARIABLES
  history,     \* the messages the broker holds for the session
  snapshot,    \* the messages a reader has fetched
  sealed       \* those a reader was not able to open

historyVars == <<history, snapshot, sealed>>
allVars == <<chatVars, contextVars, historyVars>>

(***************************************************************************)
(* A message is told apart by the handle that sent it and by the secret it *)
(* is sealed under, NoSecret if it is not.                                 *)
(***************************************************************************)
Message == [by : Calls, under : SUBSET Calls]

HistoryInit ==
  /\ ChatInit
  /\ ContextsInit
  /\ history = {}
  /\ snapshot = [r \in Readers |-> {}]
  /\ sealed = [r \in Readers |-> {}]

-----------------------------------------------------------------------------
(***************************************************************************)
(* createEncryptedConversationHandle: the context is registered under the  *)
(* identity of the call's own role before the handle is returned.          *)
(***************************************************************************)
FinishHandle(c) ==
  /\ CreateHandle(c)
  /\ RegisterContext(IdentityOf[Role(c)], SharedSecret(c, peer[c]))
  /\ UNCHANGED historyVars

Recipients == {IdentityOf[r] : r \in Roles} \ {{}}

SendAlwaysPlain(c) == NoSecret
SealedUnder(c) == secret[c]

Send(c) ==
  /\ handle[c] \in {"plaintext", "encrypted"}
  /\ handle[c] = "encrypted" => Recipients # {}
  /\ Cardinality(history) < MaxMessages
  /\ history' = history \cup {[by |-> c, under |-> SealedUnder(c)]}
  /\ UNCHANGED <<chatVars, contextVars, snapshot, sealed>>

-----------------------------------------------------------------------------
FetchHistorySnapshot(r) ==
  /\ reader[r] = "idle"
  /\ session # "none"
  /\ snapshot' = [snapshot EXCEPT ![r] = history]
  /\ reader' = [reader EXCEPT ![r] = "fetched"]
  /\ UNCHANGED <<chatVars, store, wanted, view, index, copy, unread, resolved, history, sealed>>

(***************************************************************************)
(* AttachDecryptedHistory: with the context of an identity, or with the    *)
(* secret ChatConversationHandle.FetchHistory passes.  The code spares a   *)
(* history without messages the lookup, which would have no effect; a      *)
(* reader may also be a caller of ResolveDecryptionContext.                *)
(***************************************************************************)
ResolveAnyContext(r) ==
  /\ reader[r] = "fetched"
  /\ \E id \in Identities : ResolveContext(r, id)
  /\ UNCHANGED <<chatVars, historyVars>>

UseSecretOfHandle(r) ==
  /\ reader[r] = "fetched"
  /\ \E c \in Calls :
       /\ handle[c] = "encrypted"
       /\ Resolved(r, secret[c])
  /\ UNCHANGED <<chatVars, store, wanted, view, index, copy, unread, historyVars>>

(***************************************************************************)
(* Each message fetched is opened with the context; one that is not sealed *)
(* needs none.                                                             *)
(***************************************************************************)
Opens(m, s) == m.under \in {NoSecret, s}

HistoryFetchedLast(r) == history
HistoryFetchedFirst(r) == snapshot[r]

AttachDecryptedHistory(r) ==
  /\ reader[r] = "resolved"
  /\ sealed' = [sealed EXCEPT ![r] =
                  {m \in HistoryFetchedFirst(r) : ~Opens(m, resolved[r])}]
  /\ reader' = [reader EXCEPT ![r] = "read"]
  /\ UNCHANGED <<chatVars, store, wanted, view, index, copy, unread, resolved, history, snapshot>>

ReaderStep(r) ==
  \/ FetchHistorySnapshot(r)
  \/ ResolveAnyContext(r)
  \/ UseSecretOfHandle(r)
  \/ ResolveStep(r) /\ UNCHANGED <<chatVars, historyVars>>
  \/ AttachDecryptedHistory(r)

ConversationStep(c) ==
  \/ CallStep(c) /\ UNCHANGED <<contextVars, historyVars>>
  \/ FinishHandle(c)
  \/ Send(c)

HistoryNext ==
  \/ \E c \in Calls : ConversationStep(c)
  \/ EnableEncryption /\ UNCHANGED <<contextVars, historyVars>>
  \/ \E r \in Readers : ReaderStep(r)

HistorySpec == HistoryInit /\ [][HistoryNext]_allVars

(***************************************************************************)
(* Go runs a call that has begun, requests return, and time passes.        *)
(***************************************************************************)
CallProgress(c) ==
  \/ Progress(c) /\ UNCHANGED <<contextVars, historyVars>>
  \/ FinishHandle(c)

FairHistorySpec ==
  /\ HistorySpec
  /\ \A c \in Calls :
       /\ WF_allVars(CallProgress(c))
       /\ WF_allVars(DeadlinePasses(c) /\ UNCHANGED <<contextVars, historyVars>>)

-----------------------------------------------------------------------------
(***************************************************************************)
(* A caller that requires encryption has no message in clear in the        *)
(* history, and an encrypted handle sends none.                            *)
(***************************************************************************)
NoMessageInClear ==
  \A m \in history :
    m.under = NoSecret => preference[m.by] # "required" /\ handle[m.by] = "plaintext"

(***************************************************************************)
(* In a conversation of two calls, every message of the history a reader   *)
(* has fetched opens, whatever identity it reads as: the secret a message  *)
(* is sealed under is registered before the message can be sent, and the   *)
(* context is resolved after the messages were fetched.                    *)
(***************************************************************************)
EverythingOpens == \A r \in Readers : reader[r] = "read" => sealed[r] = {}

(***************************************************************************)
(* Why: all slices a reader can be looking at hold the one secret of the   *)
(* two calls and nothing else; and once a message is sealed, the slice is  *)
(* not empty.                                                              *)
(***************************************************************************)
PairSecret == Calls

SliceOpens(s) ==
  /\ s.array \in 1..Len(arrays)
  /\ s.len \in 0..Len(arrays[s.array])
  /\ \A i \in 1..s.len : arrays[s.array][i].secret = PairSecret

Registered == contexts.len > 0

MessagesOpen(ms) ==
  \A m \in ms : m.under = NoSecret \/ (m.under = PairSecret /\ Registered)

ReaderOpens(r) ==
  /\ SliceOpens(view[r])
  /\ MessagesOpen(snapshot[r])
  /\ reader[r] \in {"scan", "first"} => view[r].len > 0
  /\ reader[r] = "scan" =>
       /\ index[r] \in 1..view[r].len
       /\ "secret" \notin unread[r] => copy[r].secret = PairSecret
  /\ reader[r] = "resolved" => \A m \in snapshot[r] : Opens(m, resolved[r])

HistoryTypeOK ==
  /\ arrays \in Seq(Seq(Element))
  /\ contexts \in [array : Nat, len : Nat]
  /\ reader \in [Readers -> {"idle", "fetched", "scan", "first", "resolved", "read"}]
  /\ view \in [Readers -> [array : Nat, len : Nat]]
  /\ index \in [Readers -> Nat]
  /\ copy \in [Readers -> Element]
  /\ unread \in [Readers -> SUBSET Words]
  /\ resolved \in [Readers -> Secrets \cup {NoContext}]
  /\ history \subseteq Message
  /\ snapshot \in [Readers -> SUBSET Message]
  /\ sealed \in [Readers -> SUBSET Message]

HistoryInv ==
  /\ HistoryTypeOK
  /\ SliceOpens(contexts)
  /\ MessagesOpen(history)
  /\ \A c \in Calls : handle[c] = "encrypted" => Registered
  /\ \A r \in Readers : ReaderOpens(r)
  /\ EverythingOpens
=============================================================================
