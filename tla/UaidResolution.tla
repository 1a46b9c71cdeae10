--------------------------- MODULE UaidResolution ---------------------------
(***************************************************************************)
(* HCS-14 universal agent ids (pkg/hcs14): an id made from a DID, and its  *)
(* resolution by the registry's four profiles.  Every profile asks DNS,    *)
(* the web or a DID resolver by itself, the profile "uaid" has another one *)
(* follow up on its own, and what they ask for changes meanwhile.          *)
(*                                                                         *)
(* A record is taken after parsing; how an id is spelled, and what a       *)
(* document holds besides its id, is left out.  A call shares nothing with *)
(* other calls.  ValidRecords is a wrong variant.                          *)
(***************************************************************************)
EXTENDS Integers, FiniteSetsExt

CONSTANT MaxZoneChanges   \* bound on the changes of what is asked during a call

VARIABLES
  zone,          \* what DNS, the web and the DID resolvers answer now
  zoneChanges,   \* how often that has changed
  resolution     \* the call

uaidVars == <<zone, zoneChanges, resolution>>

-----------------------------------------------------------------------------
(* Ids.  A DID is "bare", "suffixed" by a parameter, or "foreign" to Hedera. *)
Dids == {"bare", "suffixed", "foreign", "hybrid"}

(***************************************************************************)
(* CreateUAIDFromDID drops the method, the network and the suffix, and     *)
(* keeps the whole DID as "src" when there was a suffix.                   *)
(***************************************************************************)
CreateUAIDFromDID(did, native) ==
  [target |-> "did", of |-> did, src |-> IF did = "suffixed" THEN did ELSE "none",
   native |-> native, registry |-> "none", uid |-> "name", version |-> "none"]

Aid(native, registry, uid, version) ==
  [target |-> "aid", of |-> "none", src |-> "none",
   native |-> native, registry |-> registry, uid |-> uid, version |-> version]

Uaids == {CreateUAIDFromDID(did, native) : did \in {"bare", "suffixed", "foreign"},
                                           native \in {"fqdn", "hedera"}}
         \cup {[CreateUAIDFromDID("bare", "hedera") EXCEPT !.src = "text", !.of = "none"],
               [CreateUAIDFromDID("bare", "hedera") EXCEPT !.src = "garbled"],
               Aid("fqdn", "ans", "name", "none"), Aid("fqdn", "ans", "versioned", "1"),
               Aid("fqdn", "ANS", "name", "none"), Aid("fqdn", "none", "zero", "none"),
               Aid("hedera", "none", "name", "none")}

(* A native id of Hedera comes with the protocol hcs-10. *)
DeriveDID(u) ==
  CASE u.target = "did" /\ u.src \in Dids                           -> u.src
    [] u.native = "hedera" /\ (u.target = "aid" \/ u.of # "foreign") -> "bare"
    [] u.native = "hedera" /\ u.target = "did" /\ u.of = "foreign"  -> "hybrid"
    [] OTHER                                                        -> "none"

(* A src that does not decode ("garbled") is passed over; "text" decodes to no DID. *)
BaseDID(u) == IF u.src \in Dids \cup {"text"} THEN u.src ELSE DeriveDID(u)

-----------------------------------------------------------------------------
(* What is asked: records of the domain by rank, agent cards, the document. *)
AnsRecords == {[url |-> 1, version |-> "none"], [url |-> 2, version |-> "1"]}

Zones == [uaid     : {{}, {"other"}, {"match", "other"}},
          ans      : SUBSET AnsRecords,
          card     : {"named", "unnamed", "misnamed", "elsewhere"},
          agent    : {{}, {2}, {1, 2}},
          document : {"none", "own", "others", "blank"}]

(* What a call never asks for need not vary. *)
Concerns(z, u) ==
  /\ u.target = "aid" => z.document = "own"
  /\ u.target = "did" \/ u.native # "fqdn" => z.agent = {}
  /\ u.native # "fqdn" => z.uaid = {}
  /\ u.registry # "ans" => z.ans = {}
  /\ z.ans = {} => z.card = "named"

ResolveDID(did) == IF did \in Dids THEN zone.document ELSE "none"

ValidRecords(records) == records
MatchingRecords(records) == records \cap {"match"}

AnsApplies(u) ==
  /\ u.target = "aid" /\ u.native = "fqdn"
  /\ u.registry = "ans" /\ u.uid # "zero"
AnsMatches(records, u) == {a \in records : u.version \in {"none", a.version}}
FirstUrl(records) == CHOOSE a \in records : \A b \in records : a.url <= b.url
CardHolds(card, record, u) ==
  /\ card \in {"named", "unnamed"}
  /\ card = "unnamed" /\ record.version # "none" => u.uid = "versioned"

Verified(record) == record = 2     \* the verdict of the application's verifiers

Supports(profile, u) ==
  CASE profile = "uaid" -> u.native = "fqdn"
    [] profile = "ans"  -> u.target = "aid" /\ u.native = "fqdn" /\ u.registry = "ans"
    [] profile = "aid"  -> u.target = "aid" /\ u.native = "fqdn"
    [] profile = "did"  -> u.target = "did"

Profiles14 == <<"uaid", "ans", "aid", "did">>     \* in the order they are tried

First14(profiles) ==
  Profiles14[Min({i \in DOMAIN Profiles14 : Profiles14[i] \in profiles})]

FollowupProfiles(u) ==
  CASE u.target = "did"                                   -> {"did"}
    [] u.target = "aid" /\ u.registry \in {"ans", "ANS"}  -> {"ans", "aid"}
    [] u.target = "aid" /\ u.registry = "none"            -> {"aid"}

Candidates(u, asked) ==
  CASE asked = "any"    -> {p \in {"uaid", "ans", "aid", "did"} : Supports(p, u)}
    [] asked = "direct" -> {"uaid"}
    [] OTHER            -> {asked}

-----------------------------------------------------------------------------
NoAnswer == [kind |-> "none", profile |-> "none", selected |-> "none", did |-> "none"]

NoZone == [uaid |-> {}, ans |-> {}, card |-> "named", agent |-> {}, document |-> "none"]

UaidInit ==
  /\ zone = NoZone /\ zoneChanges = 0
  /\ resolution = [pc |-> "idle", uaid |-> Aid("fqdn", "none", "zero", "none"),
                   wanted |-> "none", full |-> FALSE,
                   follows |-> FALSE, todo |-> {}, nested |-> "none", follow |-> {},
                   failed |-> FALSE, lost |-> FALSE, outer |-> "none", inner |-> "none",
                   record |-> 0, seen |-> {}, answer |-> NoAnswer]

Goes14(r) == resolution' = r /\ UNCHANGED <<zone, zoneChanges>>
Answers(r, a) == [r EXCEPT !.pc = "done", !.answer = a]

(***************************************************************************)
(* Client.Resolve, Client.ResolveProfile, or the DNS resolver by itself.   *)
(* NewClient lets the profile "uaid" follow up unless the caller requires  *)
(* the full resolution and has not asked for it.                           *)
(***************************************************************************)
Resolve14(u, asked, full, asksFollowup) ==
  /\ resolution.pc = "idle"
  /\ zone' \in {z \in Zones : Concerns(z, u)}
  /\ LET todo == Candidates(u, asked) IN
     resolution' = [resolution EXCEPT !.pc = IF asked = "direct" THEN "ask" ELSE "document",
                      !.uaid = u, !.seen = {zone'}, !.wanted = asked, !.full = full, !.todo = todo,
                      !.follows = asked # "direct" /\ (asksFollowup \/ ~full)]
  /\ UNCHANGED zoneChanges

(* Both the call and a follow-up begin with the document of the derived DID. *)
ResolveDocument ==
  /\ resolution.pc = "document"
  /\ LET document == ResolveDID(DeriveDID(resolution.uaid)) IN
     Goes14(IF resolution.nested = "none"
              THEN [resolution EXCEPT !.outer = document,
                                      !.pc = IF resolution.todo = {} THEN "fallback" ELSE "ask"]
              ELSE [resolution EXCEPT !.inner = document, !.pc = "ask"])

(***************************************************************************)
(* A profile that fails ends a follow-up and a call that asked for it;     *)
(* otherwise the next one is tried, and in the end the fallback.           *)
(***************************************************************************)
Asking(profile) ==
  /\ resolution.pc = "ask"
  /\ profile = IF resolution.nested # "none" THEN resolution.nested ELSE First14(resolution.todo)

Fails(r) ==
  IF r.nested # "none" THEN [r EXCEPT !.nested = "none", !.failed = TRUE, !.pc = "follow"]
  ELSE IF r.wanted # "any" THEN Answers(r, [NoAnswer EXCEPT !.kind = "unresolved"])
  ELSE LET rest == r.todo \ {First14(r.todo)} IN
       [r EXCEPT !.todo = rest, !.failed = FALSE,
                 !.pc = IF rest = {} THEN "fallback" ELSE "ask"]

Succeeds(r, profile, did) ==
  Answers(r, [kind |-> "resolved", selected |-> r.nested, did |-> did,
              profile |-> IF r.nested # "none" THEN "uaid" ELSE profile])

AskUaid ==
  /\ Asking("uaid")
  /\ Goes14(IF resolution.uaid.native = "fqdn" /\ MatchingRecords(zone.uaid) # {}
              THEN [resolution EXCEPT !.pc = "follow",
                      !.follow = IF resolution.follows THEN FollowupProfiles(resolution.uaid)
                                 ELSE {}]
              ELSE Fails(resolution))

FollowUp ==
  /\ resolution.pc = "follow"
  /\ Goes14(IF resolution.follow # {}
              THEN LET next == First14(resolution.follow) IN
                   [resolution EXCEPT !.pc = "document", !.nested = next,
                                      !.follow = @ \ {next}]
            ELSE IF resolution.failed \/ resolution.full THEN Fails(resolution)
            ELSE Succeeds(resolution, "uaid", "record"))

AskAns ==
  /\ Asking("ans")
  /\ LET found == AnsMatches(zone.ans, resolution.uaid) IN
     Goes14(IF AnsApplies(resolution.uaid) /\ found # {}
              THEN [resolution EXCEPT !.pc = "card", !.record = FirstUrl(found).url]
              ELSE Fails(resolution))

FetchCard ==
  /\ resolution.pc = "card"
  /\ LET record == CHOOSE a \in AnsRecords : a.url = resolution.record
         r == [resolution EXCEPT !.record = 0]
     IN  Goes14(IF CardHolds(zone.card, record, r.uaid) THEN Succeeds(r, "ans", "none")
                ELSE Fails(r))

CardLost ==
  /\ resolution.pc = "card"
  /\ Goes14(Fails([resolution EXCEPT !.record = 0, !.lost = TRUE]))

AskAid ==
  /\ Asking("aid")
  /\ LET applies == resolution.uaid.target = "aid" /\ resolution.uaid.native = "fqdn" IN
     Goes14(IF applies /\ zone.agent # {} /\ Verified(Min(zone.agent))
              THEN Succeeds(resolution, "aid", DeriveDID(resolution.uaid))
              ELSE Fails(resolution))

(* The document at hand is used when it is of the base DID. *)
AskDid ==
  /\ Asking("did")
  /\ LET base == BaseDID(resolution.uaid)
         document == IF resolution.nested # "none" THEN resolution.inner ELSE resolution.outer
     IN  Goes14(IF resolution.uaid.target # "did" \/ base = "none" THEN Fails(resolution)
                ELSE IF document = "own" /\ base = DeriveDID(resolution.uaid)
                       THEN Succeeds(resolution, "did", base)
                ELSE [resolution EXCEPT !.pc = "base"])

ResolveBase ==
  /\ resolution.pc = "base"
  /\ LET base == BaseDID(resolution.uaid) IN
     Goes14(IF ResolveDID(base) \in {"own", "others"} THEN Succeeds(resolution, "did", base)
            ELSE Fails(resolution))

(* No profile resolved it: the document of the derived DID, marked as unresolved. *)
Fallback14 ==
  /\ resolution.pc = "fallback"
  /\ Goes14(Answers(resolution, [NoAnswer EXCEPT !.kind = "unresolved",
                                                 !.did = DeriveDID(resolution.uaid)]))

(* A DNS or DID resolver that fails, other than by "not found", ends the call. *)
Asks(r) ==
  \/ r.pc \in {"document", "fallback"} /\ DeriveDID(r.uaid) \in Dids
  \/ r.pc = "base" /\ BaseDID(r.uaid) \in Dids
  \/ Asking("uaid") /\ r.uaid.native = "fqdn"
  \/ Asking("ans") /\ AnsApplies(r.uaid)
  \/ Asking("aid") /\ r.uaid.target = "aid" /\ r.uaid.native = "fqdn"

LookupFails14 ==
  /\ Asks(resolution)
  /\ Goes14(Answers(resolution, [NoAnswer EXCEPT !.kind = "error"]))

ZoneChanges ==
  /\ resolution.pc \notin {"idle", "done"} /\ zoneChanges < MaxZoneChanges
  /\ zone' \in Zones /\ Concerns(zone', resolution.uaid)
  /\ \E part \in DOMAIN zone : zone' = [zone EXCEPT ![part] = zone'[part]] /\ zone' # zone
  /\ zoneChanges' = zoneChanges + 1
  /\ resolution' = [resolution EXCEPT !.seen = @ \cup {zone'}]

UaidNext ==
  \/ \E u \in Uaids :
       \/ \E asked \in {"any", "uaid", "ans", "aid", "did", "direct"} :
            Resolve14(u, asked, FALSE, FALSE)
       \/ \E asked \in {"any", "uaid", "direct"}, asksFollowup \in BOOLEAN :
            Resolve14(u, asked, TRUE, asksFollowup)
  \/ ResolveDocument \/ AskUaid \/ FollowUp
  \/ AskAns \/ FetchCard \/ CardLost
  \/ AskAid \/ AskDid \/ ResolveBase
  \/ Fallback14 \/ LookupFails14 \/ ZoneChanges

UaidSpec == UaidInit /\ [][UaidNext]_uaidVars

-----------------------------------------------------------------------------
(***************************************************************************)
(* What a profile takes for a proof, of a zone that stands still.          *)
(***************************************************************************)
ConfirmsAlone(profile, u, z) ==
  CASE profile = "ans" -> LET found == AnsMatches(z.ans, u) IN
                          AnsApplies(u) /\ found # {} /\ CardHolds(z.card, FirstUrl(found), u)
    [] profile = "aid" -> /\ u.target = "aid" /\ u.native = "fqdn"
                          /\ z.agent # {} /\ 1 \notin z.agent
    [] profile = "did" -> /\ u.target = "did" /\ BaseDID(u) \in Dids
                          /\ z.document \in {"own", "others"}

Confirms(profile, r, z) ==
  IF profile # "uaid" THEN ConfirmsAlone(profile, r.uaid, z)
  ELSE /\ r.uaid.native = "fqdn" /\ "match" \in z.uaid
       /\ IF r.follows THEN \E p \in FollowupProfiles(r.uaid) : ConfirmsAlone(p, r.uaid, z)
                       ELSE ~r.full

(* Zones of which each part was there at some time during the call. *)
Mixed(zones) ==
  [uaid  : {z.uaid : z \in zones},  ans      : {z.ans : z \in zones},
   card  : {z.card : z \in zones},  document : {z.document : z \in zones},
   agent : {z.agent : z \in zones}]

(***************************************************************************)
(* An id is resolved only by a profile whose every part was true at some   *)
(* time during the call.  If nothing changed and no answer was lost, it is *)
(* the first profile in the registry's order that confirms the id, and an  *)
(* id that one confirms is resolved.  And an id made from a Hedera DID     *)
(* resolves to that DID or not at all.                                     *)
(***************************************************************************)
ResolvedIsConfirmed ==
  LET r == resolution
      a == resolution.answer
      confirming == {p \in Candidates(r.uaid, r.wanted) : Confirms(p, r, zone)}
  IN  /\ a.kind = "resolved" => \E z \in Mixed(r.seen) : Confirms(a.profile, r, z)
      /\ a.kind \in {"resolved", "unresolved"} /\ zoneChanges = 0 /\ ~r.lost =>
           a.profile = IF confirming = {} THEN "none" ELSE First14(confirming)
      /\ a.kind = "resolved" /\ r.wanted # "direct" /\ r.uaid.of \in {"bare", "suffixed"} =>
           a.did = r.uaid.of
=============================================================================
