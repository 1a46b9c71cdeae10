------------------------------- MODULE Floras -------------------------------
(***************************************************************************)
(* A flora is formed: members find each other on an HCS-18 discovery topic *)
(* (pkg/hcs18), the proposer waits until its proposal is ready, creates    *)
(* the flora's account and its three topics (pkg/hcs16), announces them on *)
(* the communication topic and completes the proposal.                     *)
(*                                                                         *)
(* The order of the calls and the tracking of responses are an             *)
(* application's; the clients offer the single calls, of which each may    *)
(* take effect and still return an error.  The application of this model   *)
(* tracks responses of members only, as IsProposalReady counts whatever it *)
(* is given.  CountsResponses and SwappedTopics are wrong variants.        *)
(***************************************************************************)
EXTENDS Integers, Sequences, SequencesExt, FiniteSets

CONSTANTS
  FloraMembers,   \* members of the proposal
  Proposer,       \* the member that proposes
  MaxDiscovery,   \* bound on the discovery topic
  MaxFloras       \* bound on the accounts created

ASSUME FlorasAssumption == Proposer \in FloraMembers /\ IsFiniteSet(FloraMembers)

TopicTypes == {"communication", "transaction", "state"}

VARIABLES
  discovery,   \* the messages of the discovery topic
  floraTopics, \* the memos of the topics created: flora and type, by topic number
  floras,      \* number of flora accounts created
  announced,   \* the flora_created messages, by communication topic
  forming      \* the proposer: its step, the flora, and the topics it knows

floraVars == <<discovery, floraTopics, floras, announced, forming>>

Others == FloraMembers \ {Proposer}
NoTopics == [type \in TopicTypes |-> 0]
Resting == [step |-> "idle", proposal |-> 0, flora |-> 0, topics |-> NoTopics]

FlorasInit ==
  /\ discovery = << >>
  /\ floraTopics = << >>
  /\ floras = 0
  /\ announced = {}
  /\ forming = Resting

-----------------------------------------------------------------------------
(***************************************************************************)
(* Discovery messages.  SubmitMessage sends what ValidateMessage accepts;  *)
(* "noise" is what others put on the topic and readers leave out.          *)
(***************************************************************************)
Note(op, by, ref, extra) == [op |-> op, by |-> by, ref |-> ref, extra |-> extra]

SubmitMessage(message) ==
  /\ Len(discovery) < MaxDiscovery
  /\ discovery' = Append(discovery, message)

Proposals == {i \in DOMAIN discovery : discovery[i].op = "propose"}

Announce(m) == SubmitMessage(Note("announce", m, 0, "none"))
Respond(m, decision) == \E i \in Proposals : SubmitMessage(Note("respond", m, i, decision))
Withdraw(m) ==
  \E i \in DOMAIN discovery :
    /\ discovery[i].op = "announce" /\ discovery[i].by = m
    /\ SubmitMessage(Note("withdraw", m, i, "none"))
Noise == SubmitMessage(Note("noise", Proposer, 0, "none"))

Talk ==
  /\ \E m \in Others : Announce(m) \/ Withdraw(m) \/ \E d \in {"accept", "reject"} : Respond(m, d)
  /\ UNCHANGED <<floraTopics, floras, announced, forming>>

Interfere == Noise /\ UNCHANGED <<floraTopics, floras, announced, forming>>

Propose ==
  /\ Proposals = {}
  /\ SubmitMessage(Note("propose", Proposer, 0, "none"))
  /\ UNCHANGED <<floraTopics, floras, announced, forming>>

-----------------------------------------------------------------------------
(***************************************************************************)
(* GetDiscoveryMessages leaves out what does not decode or validate: the   *)
(* records it returns, by their sequence numbers.                          *)
(***************************************************************************)
IsValid18(message) == message.op # "noise"
GetDiscoveryMessages == {k \in DOMAIN discovery : IsValid18(discovery[k])}

(***************************************************************************)
(* The application's map of responses: the last decision of each member.   *)
(***************************************************************************)
ResponsesTo(i, m) ==
  {k \in GetDiscoveryMessages :
     discovery[k].op = "respond" /\ discovery[k].ref = i /\ discovery[k].by = m}

Tracked(i) ==
  [m \in {n \in Others : ResponsesTo(i, n) # {}} |-> discovery[Max(ResponsesTo(i, m))].extra]

CountsResponses(responses) == Cardinality(DOMAIN responses) >= Cardinality(FloraMembers) - 1
IsProposalReady(responses) ==
  Cardinality({m \in DOMAIN responses : responses[m] = "accept"}) >= Cardinality(FloraMembers) - 1

BeginForming ==
  /\ forming.step = "idle"
  /\ \E i \in Proposals :
       /\ IsProposalReady(Tracked(i))
       /\ forming' = [forming EXCEPT !.step = "account", !.proposal = i]
  /\ UNCHANGED <<discovery, floraTopics, floras, announced>>

-----------------------------------------------------------------------------
(***************************************************************************)
(* CreateFloraAccountWithTopics: the members' keys are fetched, the        *)
(* account is created and funded, then the topics one by one.  An error    *)
(* leaves what was created before it, and possibly what it was about.      *)
(***************************************************************************)
FormingFails ==
  /\ forming.step \notin {"idle", "done"}
  /\ forming' = Resting
  /\ UNCHANGED <<discovery, floraTopics, floras, announced>>

CreateFloraAccount ==
  /\ forming.step = "account"
  /\ floras < MaxFloras
  /\ floras' = floras + 1
  /\ forming' \in {[forming EXCEPT !.step = "communication", !.flora = floras'], Resting}
  /\ UNCHANGED <<discovery, floraTopics, announced>>

After(type) == CASE type = "communication" -> "transaction"
                 [] type = "transaction"   -> "state"
                 [] type = "state"         -> "announce"

SwappedTopics(type) == IF type = "transaction" THEN "state" ELSE "transaction"
MemoType(type) == type

CreateFloraTopic ==
  /\ forming.step \in TopicTypes
  /\ floraTopics' = Append(floraTopics, [flora |-> forming.flora, type |-> MemoType(forming.step)])
  /\ forming' \in {[forming EXCEPT !.topics[forming.step] = Len(floraTopics'),
                                   !.step = After(@)],
                   Resting}
  /\ UNCHANGED <<discovery, floras, announced>>

(***************************************************************************)
(* SendFloraCreated on the communication topic, then Complete on the       *)
(* discovery topic, with the topics the creation returned.                 *)
(***************************************************************************)
SendFloraCreated ==
  /\ forming.step = "announce"
  /\ announced' = announced \cup {[on |-> forming.topics["communication"],
                                   flora |-> forming.flora, topics |-> forming.topics]}
  /\ forming' \in {[forming EXCEPT !.step = "complete"], Resting}
  /\ UNCHANGED <<discovery, floraTopics, floras>>

CompleteFlora ==
  /\ forming.step = "complete"
  /\ SubmitMessage(Note("complete", Proposer, forming.proposal,
                        [flora |-> forming.flora, topics |-> forming.topics]))
  /\ forming' \in {[forming EXCEPT !.step = "done"], Resting}
  /\ UNCHANGED <<floraTopics, floras, announced>>

FlorasNext ==
  \/ Talk
  \/ Interfere
  \/ Propose
  \/ BeginForming
  \/ FormingFails
  \/ CreateFloraAccount
  \/ CreateFloraTopic
  \/ SendFloraCreated
  \/ CompleteFlora

FlorasSpec == FlorasInit /\ [][FlorasNext]_floraVars

-----------------------------------------------------------------------------
(***************************************************************************)
(* Whatever failed and was begun again: a completed proposal had been      *)
(* accepted by every member but its proposer, it names a flora whose three *)
(* topics exist and carry that flora and their type in their memo, and its *)
(* communication topic announces just these topics.                        *)
(***************************************************************************)
Accepted(m, i, before) ==
  \E k \in 1..(before - 1) :
    /\ discovery[k].op = "respond" /\ discovery[k].by = m /\ discovery[k].ref = i
    /\ discovery[k].extra = "accept"

CompletedFloraIsWhole ==
  \A k \in DOMAIN discovery : discovery[k].op = "complete" =>
    LET made == discovery[k].extra IN
    /\ \A m \in Others : Accepted(m, discovery[k].ref, k)
    /\ \A type \in TopicTypes :
         /\ made.topics[type] \in DOMAIN floraTopics
         /\ floraTopics[made.topics[type]] = [flora |-> made.flora, type |-> type]
    /\ {a \in announced : a.on = made.topics["communication"]} =
         {[on |-> made.topics["communication"], flora |-> made.flora, topics |-> made.topics]}
=============================================================================
