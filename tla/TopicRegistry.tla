---------------------------- MODULE TopicRegistry ----------------------------
(***************************************************************************)
(* HCS-2 registries (pkg/hcs2/client.go): goroutines that share one Client *)
(* create registries and register, update, delete and migrate entries; the *)
(* client keeps the type of each registry it has met.  SubmitMessage posts *)
(* whatever it is given.  A reader calls GetRegistry.                      *)
(*                                                                         *)
(* An entry of more than 1024 bytes is inscribed and its metadata replaced *)
(* by the reference to the inscription.                                    *)
(***************************************************************************)
EXTENDS Integers, Sequences, FiniteSets, SequencesExt

CONSTANTS
  RegistryTopics,   \* topic ids
  RegistryCallers,  \* goroutines that use the client
  MaxEntries        \* bound on the messages of all topics

Operations == {"register", "update", "delete", "migrate"}

VARIABLES
  memos,         \* each topic's memo as the mirror node has it
  posted,        \* the messages of each topic
  registryType,  \* registryTypeMap
  call2,         \* each goroutine's call
  read2          \* the reader's call and what it returned

registryVars == <<memos, posted, registryType, call2, read2>>

IdleCall == [pc |-> "idle"]
NoRead == [pc |-> "idle"]
Total2 == LET Sum[S \in SUBSET RegistryTopics] ==
                IF S = {} THEN 0
                ELSE LET t == CHOOSE x \in S : TRUE IN Len(posted[t]) + Sum[S \ {t}]
          IN  Sum[RegistryTopics]

-----------------------------------------------------------------------------
(***************************************************************************)
(* ValidateMessage: a known operation, and a uid for an update and a       *)
(* delete; its checks of t_id, protocol, memo and ttl are left out.  The   *)
(* metadata is plain, a reference the caller has given, or more than fits, *)
(* and then what the inscription has stored.  "via" is history: the        *)
(* message was "checked" against the type of the registry, its caller      *)
(* named the type ("override") or used SubmitMessage ("message"), or it is *)
(* of "others".                                                            *)
(***************************************************************************)
ValidateMessage2(m) ==
  /\ m.op \in Operations
  /\ m.op \in {"update", "delete"} => m.uid

ParseTopicMemo2(m) == m \in {"indexed", "nonIndexed"}

RegistryInit ==
  /\ memos = [t \in RegistryTopics |-> "none"]
  /\ posted = [t \in RegistryTopics |-> << >>]
  /\ registryType = [t \in RegistryTopics |-> "unknown"]
  /\ call2 = [c \in RegistryCallers |-> IdleCall]
  /\ read2 = NoRead

(***************************************************************************)
(* CreateRegistry: anything but the two types means indexed.  Without the  *)
(* receipt the topic exists, and the client does not know of it.           *)
(***************************************************************************)
CreateRegistry(t) ==
  /\ memos[t] = "none"
  /\ \E type \in {"indexed", "nonIndexed", "other"}, answered \in BOOLEAN :
       LET effective == IF type = "other" THEN "indexed" ELSE type IN
       /\ memos' = [memos EXCEPT ![t] = effective]
       /\ registryType' = IF answered THEN [registryType EXCEPT ![t] = effective]
                                      ELSE registryType
  /\ UNCHANGED <<posted, call2, read2>>

(***************************************************************************)
(* A topic somebody else made, a registry or not.                          *)
(***************************************************************************)
CreatedElsewhere(t) ==
  /\ memos[t] = "none"
  /\ \E m \in {"nonIndexed", "foreign"} : memos' = [memos EXCEPT ![t] = m]
  /\ UNCHANGED <<posted, registryType, call2, read2>>

(***************************************************************************)
(* submitMessage looks at the size; with the type known, the operations    *)
(* validate the message before.                                            *)
(***************************************************************************)
AllowedFor(op, type) == op \in {"update", "delete"} => type = "indexed"

Sized(call) ==
  [call EXCEPT !.pc = IF call.message.metadata = "long" THEN "inscribe" ELSE "submit"]

Checked(call, type) ==
  IF AllowedFor(call.message.op, type) /\ ValidateMessage2(call.message)
    THEN Sized(call) ELSE IdleCall

EntryCall(op, t, override, uid, metadata) ==
  [pc |-> "fetchType", topic |-> t,
   message |-> [op |-> op, uid |-> uid, metadata |-> metadata,
                via |-> IF override = "none" THEN "checked" ELSE "override"]]

KnownType(t, override) == IF override # "none" THEN override ELSE registryType[t]

(***************************************************************************)
(* RegisterEntry and MigrateRegistry take any type; UpdateEntry and        *)
(* DeleteEntry want an indexed registry.  The type is the caller's, or the *)
(* one in the map, or the memo's, which is fetched without the lock.       *)
(***************************************************************************)
BeginEntry(c, op, t) ==
  /\ call2[c].pc = "idle"
  /\ Total2 < MaxEntries
  /\ \E override \in {"none", "indexed"}, uid \in BOOLEAN, metadata \in {"plain", "hrl", "long"} :
       /\ op \notin {"update", "delete"} => ~uid /\ override = "none"
       /\ op # "register" => metadata = "plain"     \* keeps the messages few
       /\ LET call == EntryCall(op, t, override, uid, metadata)
              type == KnownType(t, override)
          IN  call2' = [call2 EXCEPT ![c] = IF type = "unknown" THEN call ELSE Checked(call, type)]
  /\ UNCHANGED <<memos, posted, registryType, read2>>

(***************************************************************************)
(* SubmitMessage neither looks at the type nor validates the message,      *)
(* here an update, a delete without a uid, one of no operation, or an      *)
(* entry that does not fit.                                                *)
(***************************************************************************)
SubmitMessage(c, t) ==
  /\ call2[c].pc = "idle"
  /\ Total2 < MaxEntries
  /\ \E op \in Operations \cup {"other"} :
       LET m == [op |-> op, uid |-> op = "update", via |-> "message",
                 metadata |-> IF op = "register" THEN "long" ELSE "plain"]
       IN  call2' = [call2 EXCEPT ![c] = Sized([pc |-> "fetchType", topic |-> t, message |-> m])]
  /\ UNCHANGED <<memos, posted, registryType, read2>>

TypeAssumed(t) == IF ParseTopicMemo2(memos[t]) THEN memos[t] ELSE "indexed"
TypeAfterFetch(t) == IF ParseTopicMemo2(memos[t]) THEN memos[t] ELSE "error"
FailedFetch == "error"

FetchType(c) ==
  /\ call2[c].pc = "fetchType"
  /\ \E type \in {TypeAfterFetch(call2[c].topic), FailedFetch} :
       IF type = "error"
         THEN /\ call2' = [call2 EXCEPT ![c] = IdleCall]
              /\ UNCHANGED registryType
         ELSE /\ call2' = [call2 EXCEPT ![c] = Checked(@, type)]
              /\ registryType' = [registryType EXCEPT ![call2[c].topic] = type]
  /\ UNCHANGED <<memos, posted, read2>>

(***************************************************************************)
(* inscribeOverflow: authenticate, start, pay and wait; a failure ends the *)
(* call.  The service stores the bytes as they are, or wrapped.            *)
(***************************************************************************)
InscribeOverflow(c) ==
  /\ call2[c].pc = "inscribe"
  /\ \/ call2' = [call2 EXCEPT ![c] = IdleCall]
     \/ \E stored \in {"raw", "wrapped"} :
          call2' = [call2 EXCEPT ![c].pc = "submit", ![c].message.metadata = stored]
  /\ UNCHANGED <<memos, posted, registryType, read2>>

SubmitEntry2(c) ==
  /\ call2[c].pc = "submit"
  /\ LET call == call2[c] IN
       \/ /\ memos[call.topic] # "none"
          /\ Total2 < MaxEntries
          /\ posted' = [posted EXCEPT ![call.topic] = Append(@, call.message)]
       \/ UNCHANGED posted
  /\ call2' = [call2 EXCEPT ![c] = IdleCall]
  /\ UNCHANGED <<memos, registryType, read2>>

(***************************************************************************)
(* Another client writes a message that is not one of the protocol's, or   *)
(* an update that nobody checked.                                          *)
(***************************************************************************)
Noise2(t) ==
  /\ memos[t] # "none"
  /\ Total2 < MaxEntries
  /\ \E op \in {"other", "update"} :
       posted' = [posted EXCEPT ![t] =
         Append(@, [op |-> op, uid |-> TRUE, metadata |-> "plain", via |-> "others"])]
  /\ UNCHANGED <<memos, registryType, call2, read2>>

-----------------------------------------------------------------------------
(***************************************************************************)
(* decodeRegistryMessage: with ResolveOverflow, metadata that looks like a *)
(* reference is resolved, the caller's own too, and what it resolves to is *)
(* taken for the message; if it is none, the entry is left out.            *)
(***************************************************************************)
IsReference(m) == m.metadata # "plain"
Decoded(m, resolve, available) ==
  resolve /\ IsReference(m) => available /\ m.metadata = "raw"

Readable(m, resolve, available) == Decoded(m, resolve, available) /\ ValidateMessage2(m)

(***************************************************************************)
(* GetRegistry: the memo, then the messages the mirror node has after      *)
(* Skip, in the order asked for.  A registry that is not indexed is its    *)
(* entry with the highest timestamp.                                       *)
(***************************************************************************)
GetRegistry(t) ==
  /\ read2.pc = "idle"
  /\ ParseTopicMemo2(memos[t])
  /\ \E resolve \in BOOLEAN, order \in {"asc", "desc"}, skip \in {0, 1},
        seen \in 0..Len(posted[t]) :
       LET found == [i \in 1..(IF skip < seen THEN seen - skip ELSE 0) |-> skip + i]
       IN  read2' = [pc |-> "decode", topic |-> t, resolve |-> resolve, type |-> memos[t],
                     fetched |-> IF order = "asc" THEN found ELSE Reverse(found),
                     at |-> 1, list |-> << >>, newest |-> 0, missed |-> {}]
  /\ UNCHANGED <<memos, posted, registryType, call2>>

LastRead(seq, newest) == seq
Newer(seq, newest) == IF seq > newest THEN seq ELSE newest

DecodeNext ==
  /\ read2.pc = "decode"
  /\ read2.at \in DOMAIN read2.fetched
  /\ LET seq == read2.fetched[read2.at]
         m == posted[read2.topic][seq]
     IN  \E available \in BOOLEAN :
           read2' = IF Readable(m, read2.resolve, available)
                      THEN [read2 EXCEPT !.at = @ + 1, !.list = Append(@, seq),
                                         !.newest = Newer(seq, @)]
                      ELSE [read2 EXCEPT !.at = @ + 1,
                              !.missed = IF Readable(m, read2.resolve, TRUE)
                                           THEN @ \cup {seq} ELSE @]
  /\ UNCHANGED <<memos, posted, registryType, call2>>

ReturnRegistry ==
  /\ read2.pc = "decode"
  /\ read2.at \notin DOMAIN read2.fetched
  /\ read2' = [read2 EXCEPT !.pc = "done",
       !.list = IF read2.type = "nonIndexed"
                  THEN IF read2.newest = 0 THEN << >> ELSE <<read2.newest>>
                  ELSE @]
  /\ registryType' = [registryType EXCEPT ![read2.topic] = read2.type]
  /\ UNCHANGED <<memos, posted, call2>>

RegistryNext ==
  \/ \E t \in RegistryTopics : CreateRegistry(t) \/ CreatedElsewhere(t) \/ Noise2(t) \/ GetRegistry(t)
  \/ \E c \in RegistryCallers :
       \/ \E op \in Operations, t \in RegistryTopics : BeginEntry(c, op, t)
       \/ \E t \in RegistryTopics : SubmitMessage(c, t)
       \/ FetchType(c) \/ InscribeOverflow(c) \/ SubmitEntry2(c)
  \/ DecodeNext \/ ReturnRegistry

RegistrySpec == RegistryInit /\ [][RegistryNext]_registryVars

-----------------------------------------------------------------------------
(***************************************************************************)
(* UpdateEntry and DeleteEntry change no registry that is not indexed,     *)
(* whichever goroutines filled the map meanwhile and whichever lookups     *)
(* failed, unless the caller said that it is indexed.                      *)
(***************************************************************************)
OnlyIndexedChange ==
  \A t \in RegistryTopics : \A i \in DOMAIN posted[t] :
    posted[t][i].op \in {"update", "delete"} /\ posted[t][i].via = "checked"
      => memos[t] = "indexed"

InOrderOf(list, fetched) ==
  \A i, j \in DOMAIN list : i < j =>
    \E p, q \in DOMAIN fetched : p < q /\ fetched[p] = list[i] /\ fetched[q] = list[j]

(***************************************************************************)
(* A reader is given every valid entry it fetched except those whose       *)
(* inscription could not be read, each once and in the order asked for;    *)
(* of a registry that is not indexed the newest of these, in either order. *)
(***************************************************************************)
RegistryReadFaithful ==
  read2.pc = "done" =>
    LET fetched == {read2.fetched[i] : i \in DOMAIN read2.fetched}
        due == {i \in fetched : /\ Readable(posted[read2.topic][i], read2.resolve, TRUE)
                                /\ i \notin read2.missed}
    IN  IF memos[read2.topic] = "indexed"
          THEN ToSet(read2.list) = due /\ InOrderOf(read2.list, read2.fetched)
          ELSE IF due = {} THEN read2.list = << >>
               ELSE read2.list = <<CHOOSE i \in due : \A j \in due : j <= i>>

(***************************************************************************)
(* What UpdateEntry and DeleteEntry write to a registry fits its type, and *)
(* what GetRegistry reads from it is what was written, by whomever.        *)
(***************************************************************************)
RegistryIsSound == OnlyIndexedChange /\ RegistryReadFaithful
=============================================================================
