---------------------------- MODULE SkillRegistry ----------------------------
(***************************************************************************)
(* HCS-26 (pkg/hcs26/client.go): ResolveSkill puts a skill together from a *)
(* directory topic, its version registry and the manifest the latest       *)
(* version names, with one request after the other while publishers write  *)
(* to all of them.  The skill followed is the one registered by the first  *)
(* message of the directory, so its uid is 1.                              *)
(***************************************************************************)
EXTENDS Integers, Sequences, FiniteSets, SequencesExt

CONSTANT MaxChanges    \* bound on the messages publishers add

VARIABLES
  directory,   \* the discovery topic
  versions,    \* the skill's version registry
  manifests,   \* the messages of the manifest topic
  resolve26,   \* the call: where it is and what it has found
  changes      \* messages added so far

topics26 == <<directory, versions, manifests>>
skillVars == <<topics26, resolve26, changes>>

Uid == 1
NoSkill == [pc |-> "idle", result |-> "none"]

-----------------------------------------------------------------------------
(***************************************************************************)
(* Messages.  Registers come in the standard's form or in the older one;   *)
(* the older one names the manifest with an HRL.                           *)
(***************************************************************************)
DiscoveryRegister(metadata) ==
  [op |-> "register", uid |-> 0, metadata |-> metadata, account |-> "a1"]
DiscoveryChange == [op: {"update", "delete"}, uid: {1, 2},
                    metadata: {"none", "patched", "unreadable"}, account: {"none", "a2"}]

VersionRegister(major, minor, checksum, hrl) ==
  [op |-> "register", uid |-> 0, skill |-> Uid, version |-> <<major, minor>>,
   checksum |-> checksum, hrl |-> hrl, status |-> "active"]
VersionChange(op, uid, status) ==
  [op |-> op, uid |-> uid, skill |-> Uid, version |-> <<0, 0>>,
   checksum |-> "none", hrl |-> "none", status |-> status]

(***************************************************************************)
(* A manifest message is valid or not (validateManifest); its content      *)
(* stands for its SHA-256.                                                 *)
(***************************************************************************)
ValidateManifest(m) == m # "invalid"

SkillInit ==
  /\ directory = <<DiscoveryRegister("named")>>
  /\ versions = <<VersionRegister(1, 0, "h1", "topic")>>
  /\ manifests = <<"h1">>
  /\ resolve26 = NoSkill
  /\ changes = 0

Publish26 ==
  /\ changes < MaxChanges
  /\ changes' = changes + 1
  /\ \/ /\ \E m \in DiscoveryChange :
             /\ m.op = "update" \/ (m.metadata = "none" /\ m.account = "none")
             /\ directory' = Append(directory, m)
        /\ UNCHANGED <<versions, manifests>>
     \/ /\ \E m \in {VersionRegister(1, 1, "h1", "topic"), VersionRegister(0, 9, "none", "topic"),
                     VersionRegister(2, 0, "h2", "legacy"), VersionRegister(2, 0, "garbled", "topic"),
                     VersionRegister(1, 0, "none", "badHRL"),
                     [VersionRegister(3, 0, "h1", "topic") EXCEPT !.skill = 2],
                     [VersionRegister(3, 0, "h1", "topic") EXCEPT !.status = "deprecated"],
                     VersionChange("update", 1, "deprecated"), VersionChange("delete", 1, "none"),
                     VersionChange("delete", 2, "none")} :
             versions' = Append(versions, m)
        /\ UNCHANGED <<directory, manifests>>
     \/ /\ \E m \in {"h1", "h2", "invalid"} : manifests' = Append(manifests, m)
        /\ UNCHANGED <<directory, versions>>
  /\ UNCHANGED resolve26

-----------------------------------------------------------------------------
Fail26 == resolve26' = [resolve26 EXCEPT !.pc = "done", !.result = "error"]
Absent26 == resolve26' = [resolve26 EXCEPT !.pc = "done", !.result = "absent"]

(***************************************************************************)
(* getDiscoveryRegister: the message with that sequence number, its        *)
(* metadata in place or from an inscription that must be valid.            *)
(***************************************************************************)
GetDiscoveryRegister ==
  /\ resolve26.pc = "idle"
  /\ \/ resolve26' = [pc |-> "scan", result |-> "none", account |-> directory[Uid].account,
                      metadata |-> directory[Uid].metadata,
                      began |-> <<Len(directory), Len(versions), Len(manifests)>>,
                      version |-> << >>, at |-> 0, checksum |-> "none", manifest |-> "none"]
     \/ resolve26' = [pc |-> "done", result |-> "error"]
  /\ UNCHANGED <<topics26, changes>>

(***************************************************************************)
(* ResolveDiscoveryRecord: the later messages with the skill's uid, in     *)
(* order; a delete ends it, an update replaces the account and merges the  *)
(* metadata, which it may have to fetch.                                   *)
(***************************************************************************)
DeletesWhenLast(i) == directory[i].op = "delete" /\ directory[i].uid = Uid /\ i = Len(directory)
Deletes(i) == directory[i].op = "delete" /\ directory[i].uid = Uid
Updates(i) == directory[i].op = "update" /\ directory[i].uid = Uid

Later == (Uid + 1)..Len(directory)
LastOf(S, default, field(_)) ==
  IF S = {} THEN default ELSE field(CHOOSE i \in S : \A j \in S : j <= i)

ScanDirectory ==
  /\ resolve26.pc = "scan"
  /\ LET stop == {i \in Later : Deletes(i)}
         upto == IF stop = {} THEN Len(directory) ELSE CHOOSE i \in stop : \A j \in stop : i <= j
         patches == {i \in Later : i < upto + 1 /\ Updates(i) /\ directory[i].metadata # "none"}
         accounts == {i \in Later : Updates(i) /\ directory[i].account # "none"}
     IN  \/ patches # {} /\ Fail26
         \/ /\ \A i \in patches : directory[i].metadata # "unreadable"
            /\ IF stop # {} THEN Absent26
               ELSE resolve26' = [resolve26 EXCEPT !.pc = "versions",
                      !.account = LastOf(accounts, @, LAMBDA i : directory[i].account),
                      !.metadata = LastOf(patches, @, LAMBDA i : directory[i].metadata)]
         \/ Fail26
  /\ UNCHANGED <<topics26, changes>>

(***************************************************************************)
(* ListVersionRegisters: one pass in consensus order.  A status is kept    *)
(* for the registers that follow it, and only a register that has none, or *)
(* "active", is listed.                                                    *)
(***************************************************************************)
StatusByUID(i) ==
  LET before == {j \in 1..(i - 1) : versions[j].op # "register" /\ versions[j].uid = i}
  IN  LastOf(before, versions[i].status,
             LAMBDA j : IF versions[j].op = "delete" THEN "yanked" ELSE versions[j].status)

ListVersionRegisters ==
  {i \in DOMAIN versions : /\ versions[i].op = "register"
                           /\ versions[i].skill = Uid
                           /\ StatusByUID(i) = "active"}

(***************************************************************************)
(* GetLatestVersionRegister: a stable sort by version, and the last one.   *)
(***************************************************************************)
MajorOnly(v, w) == v[1] < w[1]
CompareSemver(v, w) == v[1] < w[1] \/ (v[1] = w[1] /\ v[2] < w[2])

LatestVersion(listed) ==
  CHOOSE i \in listed : \A j \in listed \ {i} :
    \/ CompareSemver(versions[j].version, versions[i].version)
    \/ ~CompareSemver(versions[i].version, versions[j].version) /\ j < i

GetLatestVersionRegister ==
  /\ resolve26.pc = "versions"
  /\ LET listed == ListVersionRegisters IN
       \/ Fail26
       \/ listed = {} /\ Absent26
       \/ /\ listed # {}
          /\ LET v == versions[LatestVersion(listed)] IN
               IF v.hrl = "badHRL" THEN Fail26       \* manifestTopicIDFromVersion
               ELSE resolve26' = [resolve26 EXCEPT !.pc = "manifest", !.version = v.version,
                                    !.at = LatestVersion(listed), !.checksum = v.checksum]
  /\ UNCHANGED <<topics26, changes>>

(***************************************************************************)
(* ResolveManifest: the newest message of the manifest topic, which must   *)
(* be valid; VerifyVersionRegisterMatchesManifest compares the checksum,   *)
(* if the register has one.                                                *)
(***************************************************************************)
MatchesAnyManifest(checksum, hash) == checksum # "garbled"
MatchesManifest(checksum, hash) == checksum \in {"none", hash}

ResolveManifest ==
  /\ resolve26.pc = "manifest"
  /\ LET m == manifests[Len(manifests)] IN
       \/ Fail26
       \/ /\ ValidateManifest(m)
          /\ MatchesManifest(resolve26.checksum, m)
          /\ resolve26' = [resolve26 EXCEPT !.pc = "done", !.result = "skill", !.manifest = m]
  /\ UNCHANGED <<topics26, changes>>

SkillNext == Publish26 \/ GetDiscoveryRegister \/ ScanDirectory
               \/ GetLatestVersionRegister \/ ResolveManifest
SkillSpec == SkillInit /\ [][SkillNext]_skillVars

-----------------------------------------------------------------------------
Untouched(i) ==
  \A j \in DOMAIN versions : ~(versions[j].op \in {"update", "delete"} /\ versions[j].uid = i)

(***************************************************************************)
(* A skill that is resolved while its topics change is not older than the  *)
(* call: it was not deleted before, its account is the one last set, its   *)
(* version is at least as high as every active one registered before that  *)
(* nobody has updated or deleted, and its manifest is the one the version  *)
(* was registered with.                                                    *)
(***************************************************************************)
ResolvesCurrentSkill ==
  resolve26.result = "skill" =>
    LET d == resolve26.began[1]
        active == {i \in 1..resolve26.began[2] : /\ versions[i].op = "register"
                                                 /\ versions[i].skill = Uid
                                                 /\ versions[i].status = "active"
                                                 /\ Untouched(i)}
        set == {i \in DOMAIN directory : i <= d /\ Updates(i) /\ directory[i].account # "none"}
    IN  /\ \A i \in 1..d : ~(directory[i].op = "delete" /\ directory[i].uid = Uid)
        /\ set # {} => resolve26.account = "a2"
        /\ \A i \in active : ~CompareSemver(resolve26.version, versions[i].version)
        /\ versions[resolve26.at].checksum # "none" =>
             resolve26.manifest = versions[resolve26.at].checksum

(***************************************************************************)
(* The package promises "resolver flows that reconstruct active skill      *)
(* state from directory and version topics": a version that was yanked or  *)
(* deprecated before the call is not resolved.                             *)
(***************************************************************************)
YankedNotResolved ==
  resolve26.result = "skill" =>
    \A j \in 1..resolve26.began[2] :
      ~(versions[j].op \in {"update", "delete"} /\ versions[j].uid = resolve26.at)
=============================================================================
