----------------------------- MODULE StateHashes -----------------------------
(***************************************************************************)
(* HCS-17 state hashes (pkg/hcs17/client.go): an account, or a composite   *)
(* account with its members, hashes the latest running hashes of its       *)
(* topics and publishes the result; somebody else reads the same sources   *)
(* later and verifies it.                                                  *)
(*                                                                         *)
(* The sources are read one request after the other while they grow, so    *)
(* what is hashed need not be a state the account ever had.  A running     *)
(* hash is as good as the number of messages it covers (0: no message and  *)
(* an empty string); SHA-384 is injective.  Sources are numbered in the    *)
(* order of their ids.  ListedOrder is a wrong variant.                    *)
(***************************************************************************)
EXTENDS Integers, Sequences, FiniteSetsExt, SequencesExt

CONSTANTS
  StateTopics,   \* numbers of topics
  StateMembers,  \* numbers of member accounts, hashed before the topics
  PublishTopic,  \* where the state hash goes; may be one of the topics
  MaxChanges17,  \* bound on the messages of a source
  MaxAnchored    \* bound on the state hashes published

ASSUME StateHashesAssumption ==
  /\ (StateTopics \cup StateMembers) \subseteq Nat
  /\ StateTopics \cap StateMembers = {}
  /\ IsFiniteSet(StateTopics \cup StateMembers)

Sources == StateTopics \cup StateMembers

VARIABLES
  running,     \* what the mirror node shows of each source
  publisher,   \* ComputeAndPublish: where it is, what is left to read, what it read
  anchored,    \* the state hash messages on the publish topic
  verifier     \* the reader that verifies the latest of them

hashVars == <<running, publisher, anchored, verifier>>

Nobody17 == [step |-> "idle", todo |-> << >>, read |-> << >>, hash |-> << >>, last |-> << >>]

HashesInit ==
  /\ running = [s \in Sources |-> 0]
  /\ publisher = Nobody17
  /\ anchored = << >>
  /\ verifier = Nobody17

Grows(s) ==
  /\ s \in Sources
  /\ running[s] < MaxChanges17
  /\ running' = [running EXCEPT ![s] = @ + 1]

SourceGrows(s) == Grows(s) /\ UNCHANGED <<publisher, anchored, verifier>>

-----------------------------------------------------------------------------
(***************************************************************************)
(* CalculateAccountStateHash and CalculateCompositeStateHash: whatever     *)
(* order the caller lists them in, the members and then the topics are     *)
(* hashed in the order of their ids.  A reading is an <<id, hash>> pair.   *)
(***************************************************************************)
ListedOrder(readings) == readings

Precedes17(a, b) ==
  \/ a[1] \in StateMembers /\ b[1] \in StateTopics
  \/ (a[1] \in StateMembers <=> b[1] \in StateMembers) /\ a[1] < b[1]

StateHash(readings) ==
  LET places == 1..Len(readings)
      order == CHOOSE p \in Bijection(places, places) :
                 \A i, j \in places : i < j => ~Precedes17(readings[p[j]], readings[p[i]])
  IN  [i \in places |-> readings[order[i]]]

(***************************************************************************)
(* One source of the list is read: the first message in descending order,  *)
(* or none.                                                                *)
(***************************************************************************)
ReadsNext(party) ==
  [party EXCEPT !.todo = Tail(@), !.read = Append(@, <<Head(party.todo), running[Head(party.todo)]>>)]

Listings == {p \in [1..Cardinality(Sources) -> Sources] : ToSet(p) = Sources}

-----------------------------------------------------------------------------
ComputeAndPublish ==
  /\ publisher.step = "idle"
  /\ Len(anchored) < MaxAnchored
  /\ \E listing \in Listings :
       publisher' = [publisher EXCEPT !.step = "read", !.todo = listing]
  /\ UNCHANGED <<running, anchored, verifier>>

ReadState ==
  /\ publisher.step = "read"
  /\ publisher.todo # << >>
  /\ publisher' = ReadsNext(publisher)
  /\ UNCHANGED <<running, anchored, verifier>>

(***************************************************************************)
(* The message goes out once all were read, whether its receipt arrives or *)
(* not.  On a topic of the account itself it is a further message there.   *)
(***************************************************************************)
SubmitStateHash ==
  /\ publisher.step = "read"
  /\ publisher.todo = << >>
  /\ anchored' = Append(anchored, [hash |-> StateHash(publisher.read), read |-> publisher.read])
  /\ publisher' = Nobody17
  /\ IF PublishTopic \in Sources /\ running[PublishTopic] < MaxChanges17
     THEN Grows(PublishTopic) ELSE UNCHANGED running
  /\ UNCHANGED verifier

PublishingFails ==
  /\ publisher.step = "read"
  /\ publisher' = Nobody17
  /\ UNCHANGED <<running, anchored, verifier>>

-----------------------------------------------------------------------------
(***************************************************************************)
(* GetRecentMessages leaves out what is no valid state hash and the        *)
(* verifier takes the newest of the rest, which is what GetLatestMessage   *)
(* returns if it is also the topic's last message.  The verifier lists the *)
(* sources in an order of its own.                                         *)
(***************************************************************************)
GetLatestStateHash ==
  /\ verifier.step = "idle"
  /\ anchored # << >>
  /\ \E listing \in Listings :
       verifier' = [verifier EXCEPT !.step = "read", !.todo = listing,
                                    !.hash = Last(anchored).hash,
                                    !.last = Last(anchored).read]
  /\ UNCHANGED <<running, publisher, anchored>>

RereadState ==
  /\ verifier.step = "read"
  /\ verifier.todo # << >>
  /\ verifier' = ReadsNext(verifier)
  /\ UNCHANGED <<running, publisher, anchored>>

VerifyStateHash ==
  /\ verifier.step = "read"
  /\ verifier.todo = << >>
  /\ verifier' = [verifier EXCEPT !.step =
       IF StateHash(verifier.read) = verifier.hash THEN "valid" ELSE "invalid"]
  /\ UNCHANGED <<running, publisher, anchored>>

HashesNext ==
  \/ \E s \in Sources : SourceGrows(s)
  \/ ComputeAndPublish
  \/ ReadState
  \/ SubmitStateHash
  \/ PublishingFails
  \/ GetLatestStateHash
  \/ RereadState
  \/ VerifyStateHash

HashesSpec == HashesInit /\ [][HashesNext]_hashVars

-----------------------------------------------------------------------------
(***************************************************************************)
(* A state hash verifies exactly when every source read as it did for its  *)
(* publisher, in whatever order the two listed them: it never fails for a  *)
(* quiet account, and a source that changed under it is always noticed.    *)
(***************************************************************************)
HashMeansState ==
  verifier.step \in {"valid", "invalid"} =>
    (verifier.step = "valid" <=> ToSet(verifier.read) = ToSet(verifier.last))
=============================================================================
