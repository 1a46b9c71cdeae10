------------------------------ MODULE MCClients ------------------------------
(***************************************************************************)
(* The clients of the SDK that share no state with each other, and the     *)
(* contexts of a chat session: a behaviour is one of the client "focus"    *)
(* names, beside which the others rest.                                    *)
(***************************************************************************)
EXTENDS SharedContexts, MerkleProofs, Checkpoints, SkillRegistry, UaidResolution,
        AccountProfiles

CONSTANT Names    \* numbers: of the agents with a conversation context

VARIABLE focus

Agents == {{n} : n \in Names} \cup {{}}

(***************************************************************************)
(* Agents are interchangeable: it is enough that they get their first      *)
(* contexts in the order of their names.  Registrations do not look at the *)
(* readers, so nothing new happens once these have returned.               *)
(***************************************************************************)
NamesInOrder ==
  \A n \in Names : n - 1 \in Names /\ latest[{n}] # NoContext => latest[{n - 1}] # NoContext

Reading == \E r \in Readers : reader[r] # "resolved"

ClientsInit ==
  /\ focus \in {"contexts", "merkle", "checkpoints", "skills", "uaids", "profiles"}
  /\ SharedInit /\ MerkleInit /\ CkInit /\ SkillInit /\ UaidInit /\ ProfilesInit

ClientsNext ==
  \/ /\ focus = "contexts" /\ Reading /\ SharedNext /\ NamesInOrder'
     /\ UNCHANGED <<focus, audit, ckVars, skillVars, uaidVars, profileVars>>
  \/ /\ focus = "merkle" /\ MerkleNext
     /\ UNCHANGED <<focus, sharedVars, ckVars, skillVars, uaidVars, profileVars>>
  \/ /\ focus = "checkpoints" /\ CkNext
     /\ UNCHANGED <<focus, sharedVars, audit, skillVars, uaidVars, profileVars>>
  \/ /\ focus = "skills" /\ SkillNext
     /\ UNCHANGED <<focus, sharedVars, audit, ckVars, uaidVars, profileVars>>
  \/ /\ focus = "uaids" /\ UaidNext
     /\ UNCHANGED <<focus, sharedVars, audit, ckVars, skillVars, profileVars>>
  \/ /\ focus = "profiles" /\ ProfilesNext
     /\ UNCHANGED <<focus, sharedVars, audit, ckVars, skillVars, uaidVars>>

clientVars == <<focus, sharedVars, audit, ckVars, skillVars, uaidVars, profileVars>>

ClientsSpec == ClientsInit /\ [][ClientsNext]_clientVars
=============================================================================
