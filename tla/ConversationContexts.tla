------------------------ MODULE ConversationContexts ------------------------
(***************************************************************************)
(* The conversation contexts of a Registry Broker client                   *)
(* (registrybroker/chat.go): for a session, a Go slice of secrets, one for *)
(* each identity this client speaks for.                                   *)
(*                                                                         *)
(* RegisterConversationContextForEncryption holds the lock throughout.     *)
(* ResolveDecryptionContext holds it only to copy the slice, and reads the *)
(* elements after the unlock: words of the backing array, which an append  *)
(* may have left behind and a replacement overwrites in place.             *)
(***************************************************************************)
EXTENDS Integers, Sequences, FiniteSetsExt

CONSTANTS
  Identities,   \* the identities used: sets of names, {} for nil
  Secrets,
  NoContext,    \* what a session without a context resolves to
  Readers       \* the calls of ResolveDecryptionContext

ASSUME ContextsAssumption == NoContext \notin Secrets /\ {} \in Identities

VARIABLES
  arrays,     \* the backing arrays allocated for the session's slice
  contexts,   \* conversationContexts[sessionID]: an array and a length
  reader,     \* where each reader is
  wanted,     \* options.Identity of each reader
  view,       \* the slice a reader has copied
  index,      \* the element it is at
  copy,       \* its copy of that element, while it is being made
  unread,     \* the words of the element still to be copied
  resolved    \* the secret it has returned

contextVars == <<arrays, contexts, reader, wanted, view, index, copy, unread, resolved>>
store == <<arrays, contexts>>

(***************************************************************************)
(* identitiesMatch: nil matches nil, and otherwise one name in common will *)
(* do.                                                                     *)
(***************************************************************************)
IdentitiesMatchAsPointers(a, b) == FALSE
IdentitiesMatch(a, b) == (a = {} /\ b = {}) \/ a \cap b # {}

Element == [identity : Identities, secret : Secrets \cup {NoContext}]
Blank == [identity |-> {}, secret |-> NoContext]
Words == {"identity", "secret"}

ContextsInit ==
  /\ arrays = << << >> >>
  /\ contexts = [array |-> 1, len |-> 0]
  /\ reader = [r \in Readers |-> "idle"]
  /\ wanted = [r \in Readers |-> {}]
  /\ view = [r \in Readers |-> contexts]
  /\ index = [r \in Readers |-> 1]
  /\ copy = [r \in Readers |-> Blank]
  /\ unread = [r \in Readers |-> {}]
  /\ resolved = [r \in Readers |-> NoContext]

Elements == [i \in 1..contexts.len |-> arrays[contexts.array][i]]

Matching(es, id) == {i \in 1..Len(es) : IdentitiesMatch(es[i].identity, id)}

-----------------------------------------------------------------------------
(***************************************************************************)
(* append: a full array is replaced by a copy of twice its size.           *)
(***************************************************************************)
CapacityReserved(n) == 4
Capacity(n) == IF n = 0 THEN 1 ELSE 2 * n

Grown(es, e) ==
  [i \in 1..Capacity(Len(es)) |->
     IF i <= Len(es) THEN es[i] ELSE IF i = Len(es) + 1 THEN e ELSE Blank]

KeepRegistered(e) ==
  /\ Matching(Elements, e.identity) # {}
  /\ UNCHANGED store

Replace(e) ==
  LET found == Matching(Elements, e.identity) IN
  /\ found # {}
  /\ arrays' = [arrays EXCEPT ![contexts.array][Min(found)] = e]
  /\ contexts' = contexts

AppendInPlace(e) ==
  /\ Matching(Elements, e.identity) = {}
  /\ contexts.len < Len(arrays[contexts.array])
  /\ arrays' = [arrays EXCEPT ![contexts.array][contexts.len + 1] = e]
  /\ contexts' = [contexts EXCEPT !.len = @ + 1]

AppendToCopy(e) ==
  /\ Matching(Elements, e.identity) = {}
  /\ contexts.len = Len(arrays[contexts.array])
  /\ arrays' = Append(arrays, Grown(Elements, e))
  /\ contexts' = [array |-> Len(arrays) + 1, len |-> contexts.len + 1]

RegisterContext(id, secret) ==
  LET e == [identity |-> id, secret |-> secret] IN
  /\ Replace(e) \/ AppendInPlace(e) \/ AppendToCopy(e)
  /\ UNCHANGED <<reader, wanted, view, index, copy, unread, resolved>>

-----------------------------------------------------------------------------
(***************************************************************************)
(* ResolveDecryptionContext copies the slice, compares the identities of   *)
(* its elements in order, and falls back to the first element.             *)
(***************************************************************************)
Resolved(r, s) ==
  /\ resolved' = [resolved EXCEPT ![r] = s]
  /\ reader' = [reader EXCEPT ![r] = "resolved"]

ResolveContext(r, id) ==
  /\ wanted' = [wanted EXCEPT ![r] = id]
  /\ view' = [view EXCEPT ![r] = contexts]
  /\ index' = [index EXCEPT ![r] = 1]
  /\ unread' = [unread EXCEPT ![r] = Words]
  /\ IF contexts.len = 0
     THEN Resolved(r, NoContext)
     ELSE /\ reader' = [reader EXCEPT ![r] = IF id = {} THEN "first" ELSE "scan"]
          /\ resolved' = resolved
  /\ UNCHANGED <<store, copy>>

Read(r, i) == arrays[view[r].array][i]

(***************************************************************************)
(* The copy of an element is not indivisible: the words of its identity    *)
(* and of its secret are read one after the other, in either order.        *)
(***************************************************************************)
CopyWord(r) ==
  /\ reader[r] = "scan"
  /\ \E word \in unread[r] :
       /\ copy' = [copy EXCEPT ![r][word] = Read(r, index[r])[word]]
       /\ unread' = [unread EXCEPT ![r] = @ \ {word}]
  /\ UNCHANGED <<store, reader, wanted, view, index, resolved>>

TakeMatch(r) ==
  /\ reader[r] = "scan"
  /\ unread[r] = {}
  /\ IdentitiesMatch(copy[r].identity, wanted[r])
  /\ Resolved(r, copy[r].secret)
  /\ UNCHANGED <<store, wanted, view, index, copy, unread>>

NextElement(r) ==
  /\ reader[r] = "scan"
  /\ unread[r] = {}
  /\ ~IdentitiesMatch(copy[r].identity, wanted[r])
  /\ IF index[r] < view[r].len
     THEN /\ index' = [index EXCEPT ![r] = @ + 1]
          /\ unread' = [unread EXCEPT ![r] = Words]
          /\ reader' = reader
     ELSE reader' = [reader EXCEPT ![r] = "first"] /\ UNCHANGED <<index, unread>>
  /\ UNCHANGED <<store, wanted, view, copy, resolved>>

TakeFirst(r) ==
  /\ reader[r] = "first"
  /\ Resolved(r, Read(r, 1).secret)
  /\ UNCHANGED <<store, wanted, view, index, copy, unread>>

ResolveStep(r) == CopyWord(r) \/ TakeMatch(r) \/ NextElement(r) \/ TakeFirst(r)
=============================================================================
