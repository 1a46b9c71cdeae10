----------------------------- MODULE Checkpoints -----------------------------
(***************************************************************************)
(* HCS-27 checkpoints (pkg/hcs27): PublishCheckpoint, which inscribes      *)
(* metadata that is too long for a message and publishes a reference to    *)
(* it, and a reader's GetCheckpoints and ValidateCheckpointChain.          *)
(*                                                                         *)
(* A publisher who got no answer looks at the topic before the next        *)
(* checkpoint.  Chunks of an inscription reach the mirror node one by one, *)
(* and others may write to its topic once the first one is there.          *)
(***************************************************************************)
EXTENDS Integers, Sequences, FiniteSets

CONSTANTS
  Streams,          \* the (registry, log) pairs with checkpoints on the topic
  MaxCheckpoints,   \* bound on the messages of the topic
  MaxFiles          \* bound on the inscriptions

VARIABLES
  ckTopic,      \* the messages of the checkpoint topic, in consensus order
  ckFiles,      \* HCS-1 topics: the metadata inscribed and the chunks the mirror has
  ckPc,         \* where PublishCheckpoint is
  ckMessage,    \* its message
  ckPublished,  \* history: the metadata behind each result PublishCheckpoint returned
  ckReader,     \* where the reader is, what it fetched, its records and its verdict
  ckNoise       \* messages of others so far

publishVars == <<ckTopic, ckFiles, ckPc, ckMessage, ckPublished>>
ckVars == <<publishVars, ckReader, ckNoise>>

NoPrev == [size |-> 0, root |-> 0]
NoMessage == [form |-> "none"]
Idle27 == [pc |-> "idle", fetched |-> 0, at |-> 0, records |-> << >>, verdict |-> "none"]

-----------------------------------------------------------------------------
(***************************************************************************)
(* validateMetadata: every field is there, and prev is not larger.         *)
(***************************************************************************)
ValidMetadata(m) == m.form = "valid" /\ m.prev.size <= m.root.size

(***************************************************************************)
(* decodeHCS1PayloadFromMessage: one message, or as many chunks as the     *)
(* first one announces, all of its upload, by number.                      *)
(***************************************************************************)
AnyUpload(chunk, first) == chunk.total = first.total
SameUpload(chunk, first) == chunk.total = first.total /\ chunk.upload = first.upload

ResolvedFile(file) ==
  IF file.chunks = << >> THEN [ok |-> FALSE]
  ELSE LET first  == file.chunks[1]
           ours   == {i \in DOMAIN file.chunks : SameUpload(file.chunks[i], first)}
           newest(n) == {i \in ours : file.chunks[i].number = n /\
                           \A j \in ours : file.chunks[j].number = n => j <= i}
           numbers == {file.chunks[i].number : i \in ours}
       IN  IF first.total > 1 /\ numbers # 1..first.total THEN [ok |-> FALSE]
           ELSE [ok |-> TRUE,
                 content |-> [n \in 1..first.total |->
                    LET i == IF first.total = 1 THEN 1 ELSE CHOOSE k \in newest(n) : TRUE
                    IN  <<file.chunks[i].upload, n>>]]

Payload(file) == [n \in 1..file.total |-> <<"publisher", n>>]

FromMirror(f) == ResolvedFile(ckFiles[f])

(***************************************************************************)
(* ValidateCheckpointMessage: the metadata, from the message or from the   *)
(* reference, must be valid, and a digest must be that of what the         *)
(* reference resolves to.                                                  *)
(***************************************************************************)
ReadMessage(m) ==
  CASE m.form = "garbled" -> [ok |-> FALSE]
    [] m.form = "inline"  -> [ok |-> ValidMetadata(m.metadata), metadata |-> m.metadata]
    [] m.form = "reference" ->
         LET r == FromMirror(m.file) IN
           IF r.ok /\ r.content = Payload(ckFiles[m.file]) /\ ValidMetadata(m.metadata)
             THEN [ok |-> TRUE, metadata |-> m.metadata]
             ELSE [ok |-> FALSE]

-----------------------------------------------------------------------------
CkInit ==
  /\ ckTopic = << >>
  /\ ckFiles = << >>
  /\ ckPc = "idle"
  /\ ckMessage = NoMessage
  /\ ckPublished = << >>
  /\ ckReader = Idle27
  /\ ckNoise = 0

Checkpointed(s) == {i \in DOMAIN ckTopic : /\ ckTopic[i].form # "garbled"
                                           /\ ckTopic[i].metadata.stream = s}
Head27(s) ==
  IF Checkpointed(s) = {} THEN NoPrev
  ELSE LET last == CHOOSE i \in Checkpointed(s) : \A j \in Checkpointed(s) : j <= i
       IN  ckTopic[last].metadata.root

(***************************************************************************)
(* PublishCheckpoint: the metadata is validated and put into the message;  *)
(* above 1024 bytes publishMetadata is called first.                       *)
(***************************************************************************)
PublishCheckpoint ==
  /\ ckPc = "idle"
  /\ Len(ckTopic) < MaxCheckpoints
  /\ \E s \in Streams, grow \in {0, 1}, form \in {"valid", "malformed"}, long \in BOOLEAN :
       LET root == [size |-> Head27(s).size + grow, root |-> Head27(s).root + grow]
           metadata == [form |-> form, stream |-> s, root |-> root, prev |-> Head27(s)]
       IN  /\ root.size > 0
           /\ IF ~ValidMetadata(metadata)
                THEN UNCHANGED <<ckPc, ckMessage>>
                ELSE /\ ckPc' = IF long THEN "publishMetadata" ELSE "submit"
                     /\ ckMessage' = [form |-> "inline", metadata |-> metadata]
  /\ UNCHANGED <<ckTopic, ckFiles, ckPublished, ckReader, ckNoise>>

(***************************************************************************)
(* publishMetadataHCS1: Inscribe, which may fail after the payment, must   *)
(* confirm and name the topic.  A reference that makes the message too     *)
(* long again is an error, and so is a message that does not validate;     *)
(* the inscription nobody refers to is not recorded.                       *)
(***************************************************************************)
PublishMetadata ==
  /\ ckPc = "publishMetadata"
  /\ \/ ckPc' = "idle" /\ ckMessage' = NoMessage /\ UNCHANGED ckFiles
     \/ /\ Len(ckFiles) < MaxFiles
        /\ \E total \in {1, 2} :
             ckFiles' = Append(ckFiles, [total |-> total, chunks |-> << >>])
        /\ ckPc' = "submit"
        /\ ckMessage' = [form |-> "reference", metadata |-> ckMessage.metadata,
                         file |-> Len(ckFiles) + 1]
  /\ UNCHANGED <<ckTopic, ckPublished, ckReader, ckNoise>>

(***************************************************************************)
(* The submission may be refused, or accepted with its answer or its       *)
(* receipt lost.                                                           *)
(***************************************************************************)
SubmitCheckpoint ==
  /\ ckPc = "submit"
  /\ \E accepted, answered \in BOOLEAN :
       /\ ckTopic' = IF accepted THEN Append(ckTopic, ckMessage) ELSE ckTopic
       /\ ckPublished' = IF accepted /\ answered
                           THEN Append(ckPublished, [seq |-> Len(ckTopic) + 1,
                                                     metadata |-> ckMessage.metadata])
                           ELSE ckPublished
  /\ ckPc' = "idle"
  /\ ckMessage' = NoMessage
  /\ UNCHANGED <<ckFiles, ckReader, ckNoise>>

(***************************************************************************)
(* Others: messages that are no checkpoints, and chunks of other uploads.  *)
(***************************************************************************)
Garbage ==
  /\ Len(ckTopic) < MaxCheckpoints
  /\ ckNoise = 0
  /\ ckNoise' = 1
  /\ ckTopic' = Append(ckTopic, [form |-> "garbled"])
  /\ UNCHANGED <<ckFiles, ckPc, ckMessage, ckPublished, ckReader>>

Ours27(file) == Cardinality({i \in DOMAIN file.chunks : file.chunks[i].upload = "publisher"})

ChunkArrives(f) ==
  /\ Ours27(ckFiles[f]) < ckFiles[f].total
  /\ ckFiles' = [ckFiles EXCEPT ![f].chunks =
       Append(@, [upload |-> "publisher", total |-> ckFiles[f].total,
                  number |-> Ours27(ckFiles[f]) + 1])]
  /\ UNCHANGED <<ckTopic, ckPc, ckMessage, ckPublished, ckReader, ckNoise>>

ForeignChunk(f) ==
  /\ ckNoise = 0
  /\ ckFiles[f].chunks # << >>
  /\ ckNoise' = 1
  /\ \E n \in 1..ckFiles[f].total :
       ckFiles' = [ckFiles EXCEPT ![f].chunks =
         Append(@, [upload |-> "other", total |-> ckFiles[f].total, number |-> n])]
  /\ UNCHANGED <<ckTopic, ckPc, ckMessage, ckPublished, ckReader>>

-----------------------------------------------------------------------------
(***************************************************************************)
(* GetCheckpoints: the messages the mirror node has; each is resolved      *)
(* afterwards, and one that cannot be resolved or validated is left out.   *)
(***************************************************************************)
GetCheckpoints ==
  /\ ckReader.pc = "idle"
  /\ \E n \in 1..Len(ckTopic) : ckReader' = [Idle27 EXCEPT !.pc = "read", !.fetched = n, !.at = 1]
  /\ UNCHANGED <<publishVars, ckNoise>>

ReadNext ==
  /\ ckReader.pc = "read"
  /\ ckReader.at <= ckReader.fetched
  /\ LET m == ckTopic[ckReader.at] IN
       \/ /\ ReadMessage(m).ok
          /\ ckReader' = [ckReader EXCEPT !.at = @ + 1, !.records = Append(@, ckReader.at)]
       \/ /\ m.form = "reference" \/ ~ReadMessage(m).ok
          /\ ckReader' = [ckReader EXCEPT !.at = @ + 1]
  /\ UNCHANGED <<publishVars, ckNoise>>

(***************************************************************************)
(* ValidateCheckpointChain: in each stream the size never decreases and    *)
(* prev names the record before.                                           *)
(***************************************************************************)
Unlinked(current, previous) == current.root.size >= previous.root.size
Linked(current, previous) ==
  /\ current.root.size >= previous.root.size
  /\ current.prev = previous.root

ValidChain(records) ==
  \A j \in DOMAIN records :
    LET m == ckTopic[records[j]].metadata
        before == {i \in 1..(j - 1) : ckTopic[records[i]].metadata.stream = m.stream}
    IN  before # {} =>
          LET i == CHOOSE k \in before : \A l \in before : l <= k
          IN  Linked(m, ckTopic[records[i]].metadata)

ValidateCheckpointChain ==
  /\ ckReader.pc = "read"
  /\ ckReader.at > ckReader.fetched
  /\ ckReader' = [ckReader EXCEPT !.pc = "done",
       !.verdict = IF ValidChain(ckReader.records) THEN "accepted" ELSE "refused"]
  /\ UNCHANGED <<publishVars, ckNoise>>

CkNext ==
  \/ PublishCheckpoint \/ PublishMetadata \/ SubmitCheckpoint \/ Garbage
  \/ \E f \in DOMAIN ckFiles : ChunkArrives(f) \/ ForeignChunk(f)
  \/ GetCheckpoints \/ ReadNext \/ ValidateCheckpointChain

CkSpec == CkInit /\ [][CkNext]_ckVars

-----------------------------------------------------------------------------
(***************************************************************************)
(* GetCheckpoints leaves out in silence what the mirror node could not     *)
(* resolve at that moment.  A chain ValidateCheckpointChain accepts has    *)
(* nonetheless no gap: between two of its records no other tree of the     *)
(* same log was published that is missing.                                 *)
(***************************************************************************)
GapNoticed ==
  ckReader.verdict = "accepted" =>
    \A s \in Streams : \A i \in Checkpointed(s) :
      LET of == {r \in DOMAIN ckReader.records :
                   ckTopic[ckReader.records[r]].metadata.stream = s}
      IN  (\E a, b \in of : ckReader.records[a] < i /\ i < ckReader.records[b]) =>
            \E r \in of : ckTopic[ckReader.records[r]].metadata.root = ckTopic[i].metadata.root

(***************************************************************************)
(* What PublishCheckpoint said it published is on the topic under that     *)
(* number and, once its chunks are on the mirror node, reads as it was,    *)
(* whatever else was written to the topics; before that it does not read   *)
(* as anything.                                                            *)
(***************************************************************************)
PublishedIsReadable ==
  \A i \in DOMAIN ckPublished :
    LET m == ckTopic[ckPublished[i].seq]
        read == ReadMessage(m)
        arrived == m.form = "reference" => Ours27(ckFiles[m.file]) = ckFiles[m.file].total
    IN  /\ read.ok <=> arrived
        /\ read.ok => read.metadata = ckPublished[i].metadata

(***************************************************************************)
(* Of the checkpoints of a log an accepted chain has neither lost one in   *)
(* the middle nor changed one.                                             *)
(***************************************************************************)
CheckpointsAreWhole == GapNoticed /\ PublishedIsReadable
=============================================================================
