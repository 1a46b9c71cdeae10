----------------------------- MODULE PointsClient -----------------------------
(***************************************************************************)
(* The HCS-20 client (pkg/hcs20/client.go) used by several goroutines of   *)
(* an application, the mirror node that learns of their messages later,    *)
(* and a reader that pages through a topic that keeps growing, as the      *)
(* indexer does (GetTopicMessages of pkg/mirror/client.go).                *)
(*                                                                         *)
(* Topics are numbers in the order of their creation; 1 and 2 are the      *)
(* default public and registry topic.  The client has no lock: its two     *)
(* topic ids are read and written by any goroutine, and a transfer or burn *)
(* reads the public topic id twice.                                        *)
(*                                                                         *)
(* Hedera and the mirror node are outside.  Consensus appends to a topic;  *)
(* the mirror shows a growing prefix of it; an answer may be lost after    *)
(* the effect.  FoundOnReply and RestartsAfterNext are wrong variants.     *)
(***************************************************************************)
EXTENDS Integers, Sequences, SequencesExt

CONSTANTS
  PointsCallers,   \* goroutines, each making one call
  MaxPointsTopics, \* bound on the topics
  MaxPointsLog,    \* bound on the messages of a topic
  PageSize         \* messages of one page of the mirror node

ASSUME PointsClientAssumption ==
  PageSize \in Nat \ {0} /\ MaxPointsTopics \in Nat \ {0, 1}

VARIABLES
  sent,        \* the callers whose messages reached each topic, in order
  ingested,    \* how many of them the mirror node shows
  publicId,    \* client.publicTopicID
  registryId,  \* client.registryTopicID
  pointsCall,  \* the call of each goroutine
  paging       \* the reader's GetTopicMessages

pointsVars == <<sent, ingested, publicId, registryId, pointsCall, paging>>

PointsTopics == DOMAIN sent

NoCall == [step |-> "idle", topic |-> 0, own |-> TRUE, waits |-> FALSE, seq |-> 0]
NoPage == [step |-> "idle", topic |-> 0, next |-> 0, got |-> << >>, promised |-> {}]

PointsInit ==
  /\ sent = << << >>, << >> >>
  /\ ingested = <<0, 0>>
  /\ publicId = 1
  /\ registryId = 2
  /\ pointsCall = [c \in PointsCallers |-> NoCall]
  /\ paging = NoPage

Becomes(c, call) ==
  /\ pointsCall' = [pointsCall EXCEPT ![c] = call]
  /\ paging' = paging

GivesUp(c) == Becomes(c, [pointsCall[c] EXCEPT !.step = "failed"])

Keeps == UNCHANGED <<sent, ingested, publicId, registryId>>

-----------------------------------------------------------------------------
(***************************************************************************)
(* createTopic: the new topic is usable only when the receipt arrives.     *)
(***************************************************************************)
CreateTopic ==
  /\ Len(sent) < MaxPointsTopics
  /\ sent' = Append(sent, << >>)
  /\ ingested' = Append(ingested, 0)

SetsPublicId(t) == publicId' = t /\ registryId' = registryId
SetsRegistryId(t) == registryId' = t /\ publicId' = publicId

CreatePublicTopic ==
  /\ CreateTopic
  /\ SetsPublicId(Len(sent')) \/ UNCHANGED <<publicId, registryId>>
  /\ UNCHANGED <<pointsCall, paging>>

CreateRegistryTopic ==
  /\ CreateTopic
  /\ SetsRegistryId(Len(sent')) \/ UNCHANGED <<publicId, registryId>>
  /\ UNCHANGED <<pointsCall, paging>>

SetTopicID(t) ==
  /\ SetsPublicId(t) \/ SetsRegistryId(t)
  /\ UNCHANGED <<sent, ingested, pointsCall, paging>>

-----------------------------------------------------------------------------
(***************************************************************************)
(* The target is read when a call begins: the id the caller gave, or the   *)
(* client's (resolveTopicID).  A transfer or burn of somebody else's       *)
(* points has to pass the payer check, which reads the public id again.    *)
(***************************************************************************)
Starts(c, step, t) ==
  /\ \E waits \in BOOLEAN :
       Becomes(c, [pointsCall[c] EXCEPT !.step = step, !.topic = t, !.waits = waits])
  /\ Keeps

DeployPoints(c) == Starts(c, "create", 0) \/ Starts(c, "submit", publicId)

MintPoints(c, t) == Starts(c, "submit", t)

SpendPoints(c, t) ==
  /\ \E own, waits \in BOOLEAN :
       Becomes(c, [pointsCall[c] EXCEPT !.step = "payer", !.topic = t,
                                        !.own = own, !.waits = waits])
  /\ Keeps

TransferPoints(c, t) == SpendPoints(c, t)
BurnPoints(c, t) == SpendPoints(c, t)

RegisterTopic(c) == Starts(c, "submit", registryId)

CreatePrivateTopic(c) ==
  /\ pointsCall[c].step = "create"
  /\ CreateTopic
  /\ \/ Becomes(c, [pointsCall[c] EXCEPT !.step = "submit", !.topic = Len(sent')])
     \/ GivesUp(c)
  /\ UNCHANGED <<publicId, registryId>>

PayerCheck(c) ==
  LET refused == pointsCall[c].topic = publicId /\ ~pointsCall[c].own IN
  /\ pointsCall[c].step = "payer"
  /\ Becomes(c, [pointsCall[c] EXCEPT !.step = IF refused THEN "failed" ELSE "submit",
                                      !.own = TRUE])
  /\ Keeps

(***************************************************************************)
(* submitTransaction: the message reaches its topic and the receipt names  *)
(* its sequence number, or an answer is lost on the way and the call fails *)
(* although the message is there.                                          *)
(***************************************************************************)
SubmitTransaction(c) ==
  LET t == pointsCall[c].topic IN
  /\ pointsCall[c].step = "submit"
  /\ Len(sent[t]) < MaxPointsLog
  /\ sent' = [sent EXCEPT ![t] = Append(@, c)]
  /\ \/ Becomes(c, [pointsCall[c] EXCEPT !.step = IF pointsCall[c].waits THEN "wait" ELSE "done",
                                         !.seq = Len(sent'[t])])
     \/ GivesUp(c)
  /\ UNCHANGED <<ingested, publicId, registryId>>

(***************************************************************************)
(* An invalid message is refused by BuildMessagePayload, a transaction may *)
(* fail before it has an effect, and waitForMirrorSequence gives up after  *)
(* its retries or when the context ends.                                   *)
(***************************************************************************)
CallFails(c) ==
  /\ pointsCall[c].step \in {"create", "submit", "wait"}
  /\ GivesUp(c)
  /\ Keeps

(***************************************************************************)
(* One lookup of the message by its sequence number: the answer has to be  *)
(* without an error and to hold a message.                                 *)
(***************************************************************************)
FoundOnReply(t, n) == TRUE
Found(t, n) == n <= ingested[t]

WaitForMirror(c) ==
  /\ pointsCall[c].step = "wait"
  /\ Found(pointsCall[c].topic, pointsCall[c].seq)
  /\ Becomes(c, [pointsCall[c] EXCEPT !.step = "done"])
  /\ Keeps

-----------------------------------------------------------------------------
Ingest(t) ==
  /\ ingested[t] < Len(sent[t])
  /\ ingested' = [ingested EXCEPT ![t] = @ + 1]
  /\ UNCHANGED <<sent, publicId, registryId, pointsCall, paging>>

(***************************************************************************)
(* GetTopicMessages from a cursor.  promised is what the calls that are    *)
(* done and had waited for the mirror put behind the cursor.  A full page  *)
(* comes with a link to the messages after it; the loop ends at the first  *)
(* page without one, and any failing page fails the query.                 *)
(***************************************************************************)
Promised(t) ==
  {pointsCall[c].seq : c \in {d \in PointsCallers :
     pointsCall[d].step = "done" /\ pointsCall[d].waits /\ pointsCall[d].topic = t}}

GetTopicMessages(t, cursor) ==
  /\ paging' = [step |-> "page", topic |-> t, next |-> cursor + 1, got |-> << >>,
                promised |-> {n \in Promised(t) : n > cursor}]
  /\ Keeps /\ UNCHANGED pointsCall

Page == [i \in 1..Min({PageSize, Max({0, ingested[paging.topic] + 1 - paging.next})}) |->
           paging.next + i - 1]

RestartsAfterNext(page) == page[Len(page)] + 2
LinkAfter(page) == page[Len(page)] + 1

FetchPage ==
  /\ paging.step = "page"
  /\ paging' = [paging EXCEPT
       !.got = @ \o Page,
       !.next = IF Len(Page) = PageSize THEN LinkAfter(Page) ELSE @,
       !.step = IF Len(Page) = PageSize THEN "page" ELSE "read"]
  /\ Keeps /\ UNCHANGED pointsCall

EndRead ==
  /\ paging.step # "idle"
  /\ paging' = NoPage
  /\ Keeps /\ UNCHANGED pointsCall

-----------------------------------------------------------------------------
PointsNext ==
  \/ CreatePublicTopic
  \/ CreateRegistryTopic
  \/ \E t \in PointsTopics : SetTopicID(t) \/ Ingest(t)
  \/ \E c \in PointsCallers :
       \/ /\ pointsCall[c].step = "idle"
          /\ \/ DeployPoints(c)
             \/ RegisterTopic(c)
             \/ \E t \in PointsTopics :
                  MintPoints(c, t) \/ TransferPoints(c, t) \/ BurnPoints(c, t)
       \/ CreatePrivateTopic(c)
       \/ PayerCheck(c)
       \/ SubmitTransaction(c)
       \/ CallFails(c)
       \/ WaitForMirror(c)
  \/ /\ paging.step = "idle"
     /\ \E t \in PointsTopics : \E cursor \in 0..ingested[t] : GetTopicMessages(t, cursor)
  \/ FetchPage
  \/ EndRead

PointsClientSpec == PointsInit /\ [][PointsNext]_pointsVars

-----------------------------------------------------------------------------
(***************************************************************************)
(* A deploy, mint, transfer, burn or registration that returned without an *)
(* error after its mirror check is in every read of the topic that begins  *)
(* later, and such a read has no gaps, although the topic grows between    *)
(* its pages and other calls are under way.                                *)
(***************************************************************************)
SuccessIsReadable ==
  paging.step = "read" =>
    /\ paging.promised \subseteq ToSet(paging.got)
    /\ \A i \in 1..(Len(paging.got) - 1) : paging.got[i + 1] = paging.got[i] + 1
    /\ \A n \in paging.promised : pointsCall[sent[paging.topic][n]].seq = n
=============================================================================
