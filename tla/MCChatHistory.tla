---------------------------- MODULE MCChatHistory ----------------------------
(***************************************************************************)
(* Instances of ChatHistory.                                               *)
(***************************************************************************)
EXTENDS ChatHistory, TLC

\* two agents with nothing in common, and callers that ask for either,
\* for both or for nobody
Strangers == [p \in Roles |-> {p}]
StrangersAndBoth == {{}, {"requester"}, {"responder"}, {"requester", "responder"}}

CallSecrets == SUBSET Calls
NoCallSecret == {NoCall}

Crowd == Permutations(Responders)
=============================================================================
