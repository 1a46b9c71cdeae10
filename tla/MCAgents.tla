------------------------------- MODULE MCAgents -------------------------------
(***************************************************************************)
(* What agents do with one registry broker client, in several goroutines   *)
(* (they converse, register and log in), and with each other (they form    *)
(* floras and hash the state of their accounts).  These share no state, so *)
(* a behaviour is of the one "use" names.                                  *)
(***************************************************************************)
EXTENDS MCChatHistory, BrokerRegistration, BrokerRequests, StateHashes, Floras

VARIABLE use

agentVars == <<use, allVars, enrolmentVars, requestVars, hashVars, floraVars>>

AgentsInit ==
  /\ use \in {"chat", "enrolment", "requests", "hashes", "floras"}
  /\ HistoryInit /\ EnrolmentInit /\ RequestsInit /\ HashesInit /\ FlorasInit
  /\ use # "chat" => ~mayTopUp /\ \A c \in Calls : preference[c] = "disabled"

AgentsNext ==
  \/ /\ use = "chat" /\ HistoryNext
     /\ UNCHANGED <<use, enrolmentVars, requestVars, hashVars, floraVars>>
  \/ /\ use = "enrolment" /\ EnrolmentNext
     /\ UNCHANGED <<use, allVars, requestVars, hashVars, floraVars>>
  \/ /\ use = "requests" /\ RequestsNext
     /\ UNCHANGED <<use, allVars, enrolmentVars, hashVars, floraVars>>
  \/ /\ use = "hashes" /\ HashesNext
     /\ UNCHANGED <<use, allVars, enrolmentVars, requestVars, floraVars>>
  \/ /\ use = "floras" /\ FlorasNext
     /\ UNCHANGED <<use, allVars, enrolmentVars, requestVars, hashVars>>

AgentsSpec == AgentsInit /\ [][AgentsNext]_agentVars
=============================================================================
