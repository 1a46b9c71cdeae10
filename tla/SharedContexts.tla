---------------------------- MODULE SharedContexts ----------------------------
(***************************************************************************)
(* The conversation contexts of one session, used by all goroutines of an  *)
(* application: registrations of any identity, by handshakes or by hand,   *)
(* while others resolve contexts without the lock.                         *)
(*                                                                         *)
(* What a reader returns is compared with what it could have returned, had *)
(* it been indivisible.                                                    *)
(***************************************************************************)
EXTENDS ConversationContexts

VARIABLES
  latest,     \* the secret registered last for each identity
  possible,   \* what an indivisible call of a reader could have returned so far
  firsts      \* what the first element has held since the call began

sharedVars == <<contextVars, latest, possible, firsts>>

(***************************************************************************)
(* ResolveDecryptionContext as it would be if it kept the lock.            *)
(***************************************************************************)
Resolution(es, id) ==
  IF es = << >> THEN NoContext
  ELSE IF id # {} /\ Matching(es, id) # {} THEN es[Min(Matching(es, id))].secret
  ELSE es[1].secret

SharedInit ==
  /\ ContextsInit
  /\ latest = [id \in Identities |-> NoContext]
  /\ possible = [r \in Readers |-> {}]
  /\ firsts = [r \in Readers |-> {}]

InCall(r) == reader[r] \in {"scan", "first"}

Register(id, secret) ==
  /\ RegisterContext(id, secret)
  /\ latest' = [latest EXCEPT ![id] = secret]
  /\ possible' = [r \in Readers |->
       IF InCall(r) THEN possible[r] \cup {Resolution(Elements', wanted[r])} ELSE possible[r]]
  /\ firsts' = [r \in Readers |->
       IF InCall(r) THEN firsts[r] \cup {Elements'[1].secret} ELSE firsts[r]]

Resolve(r, id) ==
  /\ reader[r] = "idle"
  /\ ResolveContext(r, id)
  /\ possible' = [possible EXCEPT ![r] = {Resolution(Elements, id)}]
  /\ firsts' = [firsts EXCEPT ![r] = {Resolution(Elements, {})}]
  /\ latest' = latest

SharedNext ==
  \/ \E id \in Identities, secret \in Secrets : Register(id, secret)
  \/ \E r \in Readers :
       \/ \E id \in Identities : Resolve(r, id)
       \/ ResolveStep(r) /\ UNCHANGED <<latest, possible, firsts>>

SharedSpec == SharedInit /\ [][SharedNext]_sharedVars

-----------------------------------------------------------------------------
(***************************************************************************)
(* For identities that have nothing in common: an identity resolves to the *)
(* secret registered last for it, whatever was registered in between, and  *)
(* whichever array the slice is in.                                        *)
(***************************************************************************)
NewestWins ==
  \A id \in Identities \ {{}} :
    latest[id] # NoContext => Resolution(Elements, id) = latest[id]

(***************************************************************************)
(* ResolveDecryptionContext, which reads the elements after the unlock,    *)
(* returns what it could have returned under the lock at some moment of    *)
(* the call.  From the fourth identity on this is not so, because append   *)
(* then writes to the array a reader is looking at: a reader whose         *)
(* identity has just got its context may be given a first context that is  *)
(* newer.  It never gets anything older than the call.                     *)
(***************************************************************************)
ResolutionCurrent ==
  \A r \in Readers : reader[r] = "resolved" =>
    \/ resolved[r] \in possible[r]
    \/ contexts.len > 3 /\ resolved[r] \in firsts[r]

(***************************************************************************)
(* Why, for such identities.  The array in use is the newest one, and with *)
(* up to two identities it has no room, so that a slice of it is either    *)
(* all of it or has been left behind.  In the part of an array that a      *)
(* reader looks at, identities stay where they are, and the secrets are    *)
(* the current ones until the array is left: what the reader may return    *)
(* of them it could have returned at that moment.                          *)
(***************************************************************************)
Apart == \A a, b \in Identities : a # b => a \cap b = {}

SharedTypeOK ==
  /\ arrays \in Seq(Seq(Element))
  /\ contexts \in [array : Nat, len : Nat]
  /\ reader \in [Readers -> {"idle", "scan", "first", "resolved"}]
  /\ wanted \in [Readers -> Identities]
  /\ view \in [Readers -> [array : Nat, len : Nat]]
  /\ index \in [Readers -> Nat]
  /\ copy \in [Readers -> Element]
  /\ unread \in [Readers -> SUBSET Words]
  /\ resolved \in [Readers -> Secrets \cup {NoContext}]
  /\ latest \in [Identities -> Secrets \cup {NoContext}]
  /\ possible \in [Readers -> SUBSET (Secrets \cup {NoContext})]
  /\ firsts \in [Readers -> SUBSET (Secrets \cup {NoContext})]

NewestArray ==
  /\ contexts.array = Len(arrays) /\ contexts.array > 0
  /\ contexts.len <= Len(arrays[contexts.array])
  /\ contexts.len <= 2 => Len(arrays[contexts.array]) = contexts.len

OneEach ==
  /\ \A i, j \in 1..contexts.len :
       Elements[i].identity = Elements[j].identity => i = j
  /\ \A i \in 1..contexts.len : latest[Elements[i].identity] = Elements[i].secret
  /\ \A id \in Identities : latest[id] # NoContext =>
       \E i \in 1..contexts.len : Elements[i].identity = id

Wants(r, i) == wanted[r] # {} /\ Read(r, i).identity = wanted[r]

ViewCurrent(r) ==
  /\ view[r].array \in 1..Len(arrays)
  /\ view[r].len \in 1..Len(arrays[view[r].array])
  /\ view[r].array = contexts.array =>
       /\ view[r].len <= contexts.len
       /\ contexts.len <= 3 => view[r].len = contexts.len
  /\ \A i \in 1..view[r].len : Wants(r, i) => Read(r, i).secret \in possible[r]
  /\ Read(r, 1).secret \in firsts[r]
  /\ contexts.len <= 3 /\ (\A i \in 1..view[r].len : ~Wants(r, i)) =>
       Read(r, 1).secret \in possible[r]

Scanning(r) ==
  /\ wanted[r] # {}
  /\ index[r] \in 1..view[r].len
  /\ \A i \in 1..(index[r] - 1) : ~Wants(r, i)
  /\ "identity" \notin unread[r] => copy[r].identity = Read(r, index[r]).identity
  /\ "secret" \notin unread[r] /\ Wants(r, index[r]) => copy[r].secret \in possible[r]

SharedInv ==
  /\ SharedTypeOK
  /\ NewestArray
  /\ OneEach
  /\ \A r \in Readers :
       /\ InCall(r) => ViewCurrent(r)
       /\ reader[r] = "scan" => Scanning(r)
       /\ reader[r] = "first" => \A i \in 1..view[r].len : ~Wants(r, i)
  /\ ResolutionCurrent
=============================================================================
