--------------------------- MODULE Clients_proofs ---------------------------
(***************************************************************************)
(* The clients of topics in the hands of any number of callers and for any *)
(* number of messages: HCS-2 registries, the HCS-20 client and the readers *)
(* of its topics, the skills of HCS-26 and the checkpoints of HCS-27; and  *)
(* the inscriber, on which they call.                                      *)
(***************************************************************************)
EXTENDS TopicRegistry, PointsClient, SkillRegistry, Checkpoints, Inscriber,
        SequenceTheorems, FiniteSetTheorems, WellFoundedInduction, TLAPS

-----------------------------------------------------------------------------
(***************************************************************************)
(* A set of numbers has a least element.                                   *)
(***************************************************************************)
LEMMA LeastElement ==
  ASSUME NEW S \in SUBSET Nat, S # {}
  PROVE  \E m \in S : \A k \in S : m <= k
<1>1. \E m \in S : \A k \in S : ~ (<<k, m>> \in OpToRel(<, Nat))
  BY NatLessThanWellFounded, WFMin
<1>2. PICK m \in S : \A k \in S : ~ (<<k, m>> \in OpToRel(<, Nat))
  BY <1>1
<1>3. ASSUME NEW k \in S, ~ (m <= k) PROVE FALSE
  <2>1. k \in Nat /\ m \in Nat /\ k < m
    BY <1>3
  <2>2. <<k, m>> \in OpToRel(<, Nat)
    BY <2>1 DEF OpToRel
  <2> QED BY <2>2, <1>2
<1> QED BY <1>3

(***************************************************************************)
(* A bounded set of numbers has a greatest element.                        *)
(***************************************************************************)
LEMMA GreatestElement ==
  ASSUME NEW n \in Nat, NEW S \in SUBSET (0..n), S # {}
  PROVE  \E m \in S : \A k \in S : k <= m
<1> DEFINE Below == {n - k : k \in S}
<1>1. Below \in SUBSET Nat /\ Below # {}
  <2>1. \A k \in S : n - k \in Nat
    OBVIOUS
  <2> QED BY <2>1
<1> HIDE DEF Below
<1>2. PICK m \in Below : \A k \in Below : m <= k
  BY <1>1, LeastElement
<1>3. PICK x \in S : m = n - x
  BY <1>2 DEF Below
<1>4. ASSUME NEW y \in S PROVE x >= y
  <2>1. n - y \in Below
    BY DEF Below
  <2> QED BY <2>1, <1>2, <1>3
<1> QED BY <1>3, <1>4

-----------------------------------------------------------------------------
(***************************************************************************)
(* HCS-2 registries: calls that write while one caller reads.              *)
(***************************************************************************)
Messages2 == [op : Operations \cup {"other"}, uid : BOOLEAN,
              metadata : {"plain", "hrl", "long", "raw", "wrapped"},
              via : {"checked", "override", "message", "others"}]
RegistryCalls == [pc : {"fetchType", "inscribe", "submit"}, topic : RegistryTopics,
                  message : Messages2]

RegistryTypeOK ==
  /\ memos \in [RegistryTopics -> {"none", "indexed", "nonIndexed", "foreign"}]
  /\ posted \in [RegistryTopics -> Seq(Messages2)]
  /\ registryType \in [RegistryTopics -> {"unknown", "indexed", "nonIndexed"}]
  /\ call2 \in [RegistryCallers -> RegistryCalls \cup {IdleCall}]

(***************************************************************************)
(* What the map says of a registry is true, and a change that was checked  *)
(* and is on its way to a registry is allowed there.                       *)
(***************************************************************************)
MapIsTrue == \A t \in RegistryTopics : registryType[t] # "unknown" => memos[t] = registryType[t]

MustBeIndexed(m) == m.op \in {"update", "delete"} /\ m.via = "checked"

CallAllowed(c) ==
  call2[c].pc \in {"inscribe", "submit"} /\ MustBeIndexed(call2[c].message)
    => memos[call2[c].topic] = "indexed"

(***************************************************************************)
(* A read under way: the entries fetched are of the topic and each is      *)
(* there once; of the part decoded so far, the list has the readable ones. *)
(***************************************************************************)
IsDue(seq) == Readable(posted[read2.topic][seq], read2.resolve, TRUE) /\ seq \notin read2.missed

Reads == [pc : {"decode", "done"}, topic : RegistryTopics, resolve : BOOLEAN,
          type : {"indexed", "nonIndexed"}, fetched : Seq(Nat), at : Nat, list : Seq(Nat),
          newest : Nat, missed : SUBSET Nat]

ReadOK ==
  /\ read2 \in Reads
  /\ memos[read2.topic] = read2.type
  /\ \A p \in DOMAIN read2.fetched : read2.fetched[p] \in 1..Len(posted[read2.topic])
  /\ \A p, q \in DOMAIN read2.fetched : read2.fetched[p] = read2.fetched[q] => p = q

SoFar(fetched, before) ==
  /\ \A seq \in read2.missed : \E p \in before : fetched[p] = seq
  /\ \A i \in DOMAIN read2.list : \E p \in before : fetched[p] = read2.list[i] /\ IsDue(fetched[p])
  /\ \A p \in before : IsDue(fetched[p]) => \E i \in DOMAIN read2.list : read2.list[i] = fetched[p]
  /\ \A i, j \in DOMAIN read2.list : i < j =>
       \E p, q \in before : p < q /\ fetched[p] = read2.list[i] /\ fetched[q] = read2.list[j]
  /\ \A p \in before : IsDue(fetched[p]) => fetched[p] <= read2.newest
  /\ read2.newest # 0 => \E p \in before : fetched[p] = read2.newest /\ IsDue(fetched[p])

ReadSoFar ==
  read2.at \in 1..(Len(read2.fetched) + 1) /\ SoFar(read2.fetched, 1..(read2.at - 1))

ReadDone ==
  LET due == {i \in {read2.fetched[p] : p \in DOMAIN read2.fetched} : IsDue(i)} IN
  IF read2.type = "indexed"
    THEN ToSet(read2.list) = due /\ InOrderOf(read2.list, read2.fetched)
    ELSE IF due = {} THEN read2.list = << >>
         ELSE \E i \in due : read2.list = <<i>> /\ \A j \in due : j <= i

RegistryInv ==
  /\ RegistryTypeOK
  /\ MapIsTrue
  /\ \A c \in RegistryCallers : CallAllowed(c)
  /\ OnlyIndexedChange
  /\ read2.pc \in {"idle", "decode", "done"}
  /\ read2.pc # "idle" => ReadOK
  /\ read2.pc = "decode" => ReadSoFar
  /\ read2.pc = "done" => ReadDone

LEMMA RegistryInitInv == RegistryInit => RegistryInv
<1> SUFFICES ASSUME RegistryInit PROVE RegistryInv
  OBVIOUS
<1>1. RegistryTypeOK
  BY DEF RegistryInit, RegistryTypeOK, IdleCall
<1>2. \A c \in RegistryCallers : CallAllowed(c)
  BY DEF RegistryInit, CallAllowed, IdleCall
<1>3. OnlyIndexedChange
  BY DEF RegistryInit, OnlyIndexedChange
<1>4. read2.pc = "idle"
  BY DEF RegistryInit, NoRead
<1> QED BY <1>1, <1>2, <1>3, <1>4 DEF RegistryInit, RegistryInv, MapIsTrue

(***************************************************************************)
(* Memos do not change once they are set, and topics only grow.            *)
(***************************************************************************)
MemosFixed == \A t \in RegistryTopics : memos[t] # "none" => memos'[t] = memos[t]
PostsKept ==
  \A t \in RegistryTopics :
    /\ Len(posted'[t]) >= Len(posted[t]) /\ Len(posted'[t]) \in Nat
    /\ \A i \in 1..Len(posted[t]) : posted'[t][i] = posted[t][i]

LEMMA PostsStay ==
  ASSUME RegistryTypeOK, posted' = posted
  PROVE  PostsKept
BY DEF RegistryTypeOK, PostsKept

(* A read under way is not disturbed by what goes on besides. *)
LEMMA ReadKept ==
  ASSUME RegistryInv, MemosFixed, PostsKept, read2' = read2
  PROVE  /\ read2'.pc \in {"idle", "decode", "done"}
         /\ read2'.pc # "idle" => ReadOK'
         /\ read2'.pc = "decode" => ReadSoFar'
         /\ read2'.pc = "done" => ReadDone'
<1>1. read2.pc # "idle" => ReadOK'
  <2> SUFFICES ASSUME read2.pc # "idle" PROVE ReadOK'
    OBVIOUS
  <2>1. ReadOK
    BY DEF RegistryInv
  <2>2. memos'[read2.topic] = memos[read2.topic]
    BY <2>1 DEF ReadOK, Reads, MemosFixed
  <2>3. Len(posted[read2.topic]) <= Len(posted'[read2.topic]) /\ Len(posted[read2.topic]) \in Nat
        /\ Len(posted'[read2.topic]) \in Nat
    BY <2>1 DEF ReadOK, Reads, PostsKept, RegistryInv, RegistryTypeOK
  <2>4. \A p \in DOMAIN read2.fetched : read2.fetched[p] \in 1..Len(posted'[read2.topic])
    BY <2>1, <2>3 DEF ReadOK
  <2> QED BY <2>1, <2>2, <2>4 DEF ReadOK
<1>2. ASSUME read2.pc # "idle", NEW p \in DOMAIN read2.fetched
      PROVE  IsDue(read2.fetched[p])' <=> IsDue(read2.fetched[p])
  <2>1. posted'[read2.topic][read2.fetched[p]] = posted[read2.topic][read2.fetched[p]]
    BY <1>2 DEF RegistryInv, ReadOK, Reads, PostsKept
  <2> QED BY <2>1 DEF IsDue
<1>3. ASSUME read2.pc = "decode" PROVE ReadSoFar'
  <2>1. ReadSoFar /\ ReadOK
    BY <1>3 DEF RegistryInv
  <2>2. 1..(read2.at - 1) \subseteq DOMAIN read2.fetched
    BY <2>1 DEF ReadSoFar, ReadOK, Reads
  <2>3. \A p \in 1..(read2.at - 1) : IsDue(read2.fetched[p])' <=> IsDue(read2.fetched[p])
    BY <1>2, <1>3, <2>2
  <2> QED BY <2>1, <2>3 DEF ReadSoFar, SoFar
<1>4. ASSUME read2.pc = "done" PROVE ReadDone'
  <2> DEFINE F == {read2.fetched[p] : p \in DOMAIN read2.fetched}
  <2>1. \A i \in F : IsDue(i)' <=> IsDue(i)
    <3> SUFFICES ASSUME NEW p \in DOMAIN read2.fetched, NEW i, i = read2.fetched[p] PROVE IsDue(i)' <=> IsDue(i)
      OBVIOUS
    <3>1. IsDue(read2.fetched[p])' <=> IsDue(read2.fetched[p])
      BY <1>2, <1>4
    <3> QED BY <3>1
  <2>2. {i \in F : IsDue(i)}' = {i \in F : IsDue(i)}
    BY <2>1
  <2>3. ReadDone
    BY <1>4 DEF RegistryInv
  <2> QED BY <2>2, <2>3 DEF ReadDone
<1> QED BY <1>1, <1>3, <1>4 DEF RegistryInv

LEMMA WriterStep ==
  ASSUME RegistryInv, MemosFixed, PostsKept, read2' = read2, RegistryTypeOK', MapIsTrue',
         \A c \in RegistryCallers : CallAllowed(c)', OnlyIndexedChange'
  PROVE  RegistryInv'
BY ReadKept DEF RegistryInv

LEMMA ChangesStay ==
  ASSUME OnlyIndexedChange, MemosFixed, posted' = posted
  PROVE  OnlyIndexedChange'
BY DEF OnlyIndexedChange, MemosFixed

LEMMA CallStays ==
  ASSUME RegistryTypeOK, MemosFixed, NEW c \in RegistryCallers, CallAllowed(c), call2'[c] = call2[c]
  PROVE  CallAllowed(c)'
<1>1. call2[c].pc \in {"inscribe", "submit"} => call2[c].topic \in RegistryTopics
  BY DEF RegistryTypeOK, RegistryCalls, IdleCall
<1> QED BY <1>1 DEF CallAllowed, MemosFixed

(***************************************************************************)
(* One call moves on.                                                      *)
(***************************************************************************)
Allowed2(call) ==
  call.pc \in {"inscribe", "submit"} /\ MustBeIndexed(call.message) => memos[call.topic] = "indexed"

LEMMA CallMoves ==
  ASSUME RegistryInv, memos' = memos, NEW c \in RegistryCallers,
         NEW call \in RegistryCalls \cup {IdleCall}, Allowed2(call),
         call2' = [call2 EXCEPT ![c] = call]
  PROVE  /\ call2' \in [RegistryCallers -> RegistryCalls \cup {IdleCall}]
         /\ \A d \in RegistryCallers : CallAllowed(d)'
<1>0. MemosFixed
  BY DEF MemosFixed
<1>1. call2'[c] = call /\ call2' \in [RegistryCallers -> RegistryCalls \cup {IdleCall}]
  BY DEF RegistryInv, RegistryTypeOK
<1>2. CallAllowed(c)'
  BY <1>1 DEF CallAllowed, Allowed2
<1>3. ASSUME NEW d \in RegistryCallers, d # c PROVE CallAllowed(d)'
  <2>1. call2'[d] = call2[d]
    BY <1>3 DEF RegistryInv, RegistryTypeOK
  <2> QED BY <1>0, <2>1, CallStays DEF RegistryInv
<1> QED BY <1>1, <1>2, <1>3

LEMMA IdleAllowed == IdleCall \in RegistryCalls \cup {IdleCall} /\ Allowed2(IdleCall)
BY DEF IdleCall, Allowed2

(* The size of a message does not change what it is. *)
LEMMA SizedCall ==
  ASSUME NEW call \in RegistryCalls
  PROVE  /\ Sized(call) \in RegistryCalls /\ Sized(call).message = call.message
         /\ Sized(call).topic = call.topic
<1>1. PICK pc \in {"inscribe", "submit"} : Sized(call) = [call EXCEPT !.pc = pc]
  BY DEF Sized
<1> QED BY <1>1 DEF RegistryCalls

(* A checked call goes on only if the type of the registry lets it. *)
LEMMA CheckedCall ==
  ASSUME NEW call \in RegistryCalls, NEW type \in {"indexed", "nonIndexed"},
         call.message.via = "checked" => memos[call.topic] = type
  PROVE  Checked(call, type) \in RegistryCalls \cup {IdleCall} /\ Allowed2(Checked(call, type))
<1>1. CASE AllowedFor(call.message.op, type) /\ ValidateMessage2(call.message)
  <2>1. Checked(call, type) = Sized(call)
    BY <1>1 DEF Checked
  <2>2. PICK new \in RegistryCalls : new = Sized(call) /\ new.message = call.message /\ new.topic = call.topic
    BY SizedCall
  <2>3. Allowed2(new)
    BY <1>1, <2>2 DEF Allowed2, AllowedFor, MustBeIndexed
  <2> QED BY <2>1, <2>2, <2>3
<1>2. CASE ~(AllowedFor(call.message.op, type) /\ ValidateMessage2(call.message))
  BY <1>2, IdleAllowed DEF Checked
<1> QED BY <1>1, <1>2

LEMMA WritersKeep ==
  ASSUME RegistryInv,
         \/ \E t \in RegistryTopics : CreateRegistry(t) \/ CreatedElsewhere(t) \/ Noise2(t)
         \/ \E c \in RegistryCallers :
              \/ \E op \in Operations, t \in RegistryTopics : BeginEntry(c, op, t)
              \/ \E t \in RegistryTopics : SubmitMessage(c, t)
              \/ FetchType(c) \/ InscribeOverflow(c) \/ SubmitEntry2(c)
  PROVE  RegistryInv'
<1> USE DEF RegistryInv
<1>m. memos' = memos => MemosFixed
  BY DEF MemosFixed
<1>1. ASSUME NEW t \in RegistryTopics, CreateRegistry(t) \/ CreatedElsewhere(t) PROVE RegistryInv'
  <2>1. PICK memo \in {"indexed", "nonIndexed", "foreign"}, told \in BOOLEAN :
          /\ memos[t] = "none" /\ memos' = [memos EXCEPT ![t] = memo]
          /\ registryType' = (IF told THEN [registryType EXCEPT ![t] = memo] ELSE registryType)
          /\ told => memo # "foreign"
    <3>1. CASE CreateRegistry(t)
      BY <3>1 DEF CreateRegistry
    <3>2. CASE CreatedElsewhere(t)
      <4>1. /\ \E m \in {"nonIndexed", "foreign"} : memos' = [memos EXCEPT ![t] = m]
            /\ memos[t] = "none" /\ registryType' = registryType
        BY <3>2 DEF CreatedElsewhere
      <4> QED BY <4>1
    <3> QED BY <1>1, <3>1, <3>2
  <2>2. UNCHANGED <<posted, call2, read2>>
    BY <1>1 DEF CreateRegistry, CreatedElsewhere
  <2>3. MemosFixed
    BY <2>1 DEF MemosFixed, RegistryTypeOK
  <2>4. RegistryTypeOK'
    BY <2>1, <2>2 DEF RegistryTypeOK
  <2>5. MapIsTrue'
    BY <2>1 DEF MapIsTrue, RegistryTypeOK
  <2> QED BY <2>2, <2>3, <2>4, <2>5, PostsStay, ChangesStay, CallStays, WriterStep
<1>p. ASSUME NEW t \in RegistryTopics, NEW m \in Messages2, posted' = [posted EXCEPT ![t] = Append(@, m)]
      PROVE  /\ posted' \in [RegistryTopics -> Seq(Messages2)] /\ PostsKept
             /\ \A u \in RegistryTopics \ {t} : posted'[u] = posted[u]
             /\ DOMAIN posted'[t] = 1..(Len(posted[t]) + 1) /\ DOMAIN posted[t] = 1..Len(posted[t])
             /\ \A i \in 1..Len(posted[t]) : posted'[t][i] = posted[t][i]
             /\ posted'[t][Len(posted[t]) + 1] = m /\ Len(posted[t]) \in Nat
  <2>1. posted[t] \in Seq(Messages2) /\ posted'[t] = Append(posted[t], m)
        /\ \A u \in RegistryTopics \ {t} : posted'[u] = posted[u]
    BY <1>p DEF RegistryTypeOK
  <2>2. /\ posted'[t] \in Seq(Messages2) /\ Len(posted'[t]) = Len(posted[t]) + 1
        /\ DOMAIN posted'[t] = 1..(Len(posted[t]) + 1) /\ DOMAIN posted[t] = 1..Len(posted[t])
        /\ \A i \in 1..Len(posted[t]) : posted'[t][i] = posted[t][i]
        /\ posted'[t][Len(posted[t]) + 1] = m /\ Len(posted[t]) \in Nat
    BY <2>1, AppendProperties
  <2>3. posted' \in [RegistryTopics -> Seq(Messages2)]
    BY <1>p, <2>1, <2>2 DEF RegistryTypeOK
  <2>4. \A u \in RegistryTopics : Len(posted[u]) \in Nat
    BY DEF RegistryTypeOK
  <2>5. PostsKept
    BY SMTT(30), <2>1, <2>2, <2>4 DEF PostsKept
  <2> QED BY <2>1, <2>2, <2>3, <2>5
<1>2. ASSUME NEW t \in RegistryTopics, Noise2(t) PROVE RegistryInv'
  <2>1. PICK op \in {"other", "update"} :
          posted' = [posted EXCEPT ![t] =
            Append(@, [op |-> op, uid |-> TRUE, metadata |-> "plain", via |-> "others"])]
    BY <1>2 DEF Noise2
  <2>2. PICK m \in Messages2 : posted' = [posted EXCEPT ![t] = Append(@, m)] /\ m.via = "others"
    <3> DEFINE m == [op |-> op, uid |-> TRUE, metadata |-> "plain", via |-> "others"]
    <3>1. m \in Messages2 /\ m.via = "others"
      BY DEF Messages2, Operations
    <3> QED BY <2>1, <3>1
  <2>u. UNCHANGED <<memos, registryType, call2, read2>>
    BY <1>2 DEF Noise2
  <2>3. /\ posted' \in [RegistryTopics -> Seq(Messages2)] /\ PostsKept
        /\ \A u \in RegistryTopics \ {t} : posted'[u] = posted[u]
        /\ DOMAIN posted'[t] = 1..(Len(posted[t]) + 1) /\ DOMAIN posted[t] = 1..Len(posted[t])
        /\ \A i \in 1..Len(posted[t]) : posted'[t][i] = posted[t][i]
        /\ posted'[t][Len(posted[t]) + 1] = m /\ Len(posted[t]) \in Nat
    BY <2>2, <1>p
  <2>4. OnlyIndexedChange'
    <3> SUFFICES ASSUME NEW u \in RegistryTopics, NEW i \in DOMAIN posted'[u], MustBeIndexed(posted'[u][i])
                 PROVE  memos[u] = "indexed"
      BY <2>u DEF OnlyIndexedChange, MustBeIndexed
    <3>1. ~(u = t /\ i = Len(posted[t]) + 1)
      BY <2>2, <2>3 DEF MustBeIndexed
    <3>2. i \in DOMAIN posted[u] /\ posted'[u][i] = posted[u][i]
      BY <2>3, <3>1
    <3> QED BY <3>2 DEF OnlyIndexedChange, MustBeIndexed
  <2>5. RegistryTypeOK' /\ MapIsTrue'
    BY <2>u, <2>3 DEF RegistryTypeOK, MapIsTrue
  <2> QED BY <2>u, <2>3, <2>4, <2>5, <1>m, CallStays, WriterStep
<1>3. ASSUME NEW c \in RegistryCallers, NEW op \in Operations, NEW t \in RegistryTopics, BeginEntry(c, op, t)
      PROVE  RegistryInv'
  <2>1. PICK override \in {"none", "indexed"}, uid \in BOOLEAN, metadata \in {"plain", "hrl", "long"} :
          LET call == EntryCall(op, t, override, uid, metadata)
              type == KnownType(t, override)
          IN  call2' = [call2 EXCEPT ![c] = IF type = "unknown" THEN call ELSE Checked(call, type)]
    BY ZenonT(30), <1>3 DEF BeginEntry
  <2> DEFINE call == EntryCall(op, t, override, uid, metadata)
             type == KnownType(t, override)
             new == IF type = "unknown" THEN call ELSE Checked(call, type)
  <2>2. UNCHANGED <<memos, posted, registryType, read2>> /\ call2' = [call2 EXCEPT ![c] = new]
    BY <1>3, <2>1 DEF BeginEntry
  <2>4. /\ call \in RegistryCalls /\ call.pc = "fetchType" /\ call.topic = t
        /\ call.message.via = "checked" => override = "none"
    BY DEF EntryCall, RegistryCalls, Messages2
  <2>6. type \in {"unknown", "indexed", "nonIndexed"} /\ (type # "unknown" => override # "none" \/ memos[t] = type)
    BY DEF KnownType, RegistryTypeOK, MapIsTrue
  <2> HIDE DEF type, call
  <2>7. new \in RegistryCalls \cup {IdleCall} /\ Allowed2(new)
    <3>1. CASE type = "unknown"
      BY <3>1, <2>4 DEF Allowed2
    <3>2. CASE type # "unknown"
      BY <3>2, <2>4, <2>6, CheckedCall
    <3> QED BY <3>1, <3>2
  <2> HIDE DEF new
  <2>8. /\ call2' \in [RegistryCallers -> RegistryCalls \cup {IdleCall}]
        /\ \A d \in RegistryCallers : CallAllowed(d)'
    BY <2>2, <2>7, CallMoves
  <2>9. RegistryTypeOK' /\ MapIsTrue'
    BY <2>2, <2>8 DEF RegistryTypeOK, MapIsTrue
  <2> QED BY <2>2, <2>8, <2>9, <1>m, PostsStay, ChangesStay, WriterStep
<1>4. ASSUME NEW c \in RegistryCallers, FetchType(c) PROVE RegistryInv'
  <2> DEFINE call == call2[c]
             t == call.topic
  <2>1. call \in RegistryCalls /\ call.pc = "fetchType" /\ t \in RegistryTopics
    BY <1>4 DEF FetchType, RegistryTypeOK, RegistryCalls, IdleCall
  <2>2. UNCHANGED <<memos, posted, read2>>
    BY <1>4 DEF FetchType
  <2>3. CASE call2' = [call2 EXCEPT ![c] = IdleCall] /\ registryType' = registryType
    <3>1. /\ call2' \in [RegistryCallers -> RegistryCalls \cup {IdleCall}]
          /\ \A d \in RegistryCallers : CallAllowed(d)'
      BY <2>2, <2>3, IdleAllowed, CallMoves
    <3>2. RegistryTypeOK' /\ MapIsTrue'
      BY <2>2, <2>3, <3>1 DEF RegistryTypeOK, MapIsTrue
    <3> QED BY <2>2, <3>1, <3>2, <1>m, PostsStay, ChangesStay, WriterStep
  <2>4. CASE /\ memos[t] \in {"indexed", "nonIndexed"}
             /\ call2' = [call2 EXCEPT ![c] = Checked(call, memos[t])]
             /\ registryType' = [registryType EXCEPT ![t] = memos[t]]
    <3>1. Checked(call, memos[t]) \in RegistryCalls \cup {IdleCall} /\ Allowed2(Checked(call, memos[t]))
      <4>1. PICK k : k = call
        OBVIOUS
      <4>2. PICK type : type = memos[t]
        OBVIOUS
      <4>3. k \in RegistryCalls /\ type \in {"indexed", "nonIndexed"} /\ memos[k.topic] = type
        BY <2>1, <2>4, <4>1, <4>2
      <4>4. Checked(k, type) \in RegistryCalls \cup {IdleCall} /\ Allowed2(Checked(k, type))
        BY <4>3, CheckedCall
      <4> QED BY <4>1, <4>2, <4>4
    <3>2. PICK new : new = Checked(call, memos[t])
      OBVIOUS
    <3>3. /\ call2' \in [RegistryCallers -> RegistryCalls \cup {IdleCall}]
          /\ \A d \in RegistryCallers : CallAllowed(d)'
      <4>1. call2' = [call2 EXCEPT ![c] = new] /\ new \in RegistryCalls \cup {IdleCall} /\ Allowed2(new)
        BY <2>4, <3>1, <3>2
      <4> QED BY <4>1, <2>2, CallMoves
    <3>4. RegistryTypeOK' /\ MapIsTrue'
      BY <2>1, <2>2, <2>4, <3>3 DEF RegistryTypeOK, MapIsTrue
    <3> QED BY <2>2, <3>3, <3>4, <1>m, PostsStay, ChangesStay, WriterStep
  <2> QED
    <3>1. PICK type \in {TypeAfterFetch(t), FailedFetch} :
            IF type = "error" THEN call2' = [call2 EXCEPT ![c] = IdleCall] /\ UNCHANGED registryType
            ELSE /\ call2' = [call2 EXCEPT ![c] = Checked(@, type)]
                 /\ registryType' = [registryType EXCEPT ![t] = type]
      BY <1>4 DEF FetchType
    <3>2. type # "error" => type = memos[t] /\ memos[t] \in {"indexed", "nonIndexed"}
      BY <3>1 DEF TypeAfterFetch, FailedFetch, ParseTopicMemo2
    <3>3. call2' = [call2 EXCEPT ![c] = Checked(@, type)] => call2' = [call2 EXCEPT ![c] = Checked(call, type)]
      OBVIOUS
    <3>4. CASE type = "error"
      BY <2>3, <3>1, <3>4
    <3>5. CASE type # "error"
      BY <2>4, <3>1, <3>2, <3>3, <3>5
    <3> QED BY <3>4, <3>5
<1>5. ASSUME NEW c \in RegistryCallers, InscribeOverflow(c) PROVE RegistryInv'
  <2> DEFINE call == call2[c]
  <2>1. call \in RegistryCalls /\ call.pc = "inscribe"
    BY <1>5 DEF InscribeOverflow, RegistryTypeOK, RegistryCalls, IdleCall
  <2>2. UNCHANGED <<memos, posted, registryType, read2>>
    BY <1>5 DEF InscribeOverflow
  <2>3. PICK new : new \in RegistryCalls \cup {IdleCall} /\ Allowed2(new) /\ call2' = [call2 EXCEPT ![c] = new]
    <3>1. CASE call2' = [call2 EXCEPT ![c] = IdleCall]
      BY <3>1, IdleAllowed
    <3>2. ASSUME NEW stored \in {"raw", "wrapped"},
                 call2' = [call2 EXCEPT ![c].pc = "submit", ![c].message.metadata = stored]
          PROVE  \E new : new \in RegistryCalls \cup {IdleCall} /\ Allowed2(new) /\ call2' = [call2 EXCEPT ![c] = new]
      <4> DEFINE msg == [call.message EXCEPT !.metadata = stored]
                 new == [[call EXCEPT !.pc = "submit"] EXCEPT !.message = msg]
      <4>1. call2' = [call2 EXCEPT ![c] = new]
        BY <2>1, <3>2 DEF RegistryTypeOK, RegistryCalls, Messages2
      <4>2. msg \in Messages2 /\ msg.op = call.message.op /\ msg.via = call.message.via
        BY <2>1 DEF RegistryCalls, Messages2
      <4> HIDE DEF msg
      <4>3. new \in RegistryCalls /\ new.message = msg /\ new.topic = call.topic
        BY <2>1, <4>2 DEF RegistryCalls
      <4> HIDE DEF new
      <4>5. Allowed2(new)
        BY <2>1, <4>2, <4>3 DEF Allowed2, CallAllowed, MustBeIndexed
      <4> QED BY <4>1, <4>3, <4>5
    <3> QED BY <1>5, <3>1, <3>2 DEF InscribeOverflow
  <2>4. /\ call2' \in [RegistryCallers -> RegistryCalls \cup {IdleCall}]
        /\ \A d \in RegistryCallers : CallAllowed(d)'
    BY <2>2, <2>3, CallMoves
  <2>5. RegistryTypeOK' /\ MapIsTrue'
    BY <2>2, <2>4 DEF RegistryTypeOK, MapIsTrue
  <2> QED BY <2>2, <2>4, <2>5, <1>m, PostsStay, ChangesStay, WriterStep
<1>6. ASSUME NEW c \in RegistryCallers, SubmitEntry2(c) PROVE RegistryInv'
  <2> DEFINE call == call2[c]
             t == call.topic
             m == call.message
  <2>1. call \in RegistryCalls /\ call.pc = "submit" /\ t \in RegistryTopics /\ m \in Messages2
    BY <1>6 DEF SubmitEntry2, RegistryTypeOK, RegistryCalls, IdleCall
  <2>2. UNCHANGED <<memos, registryType, read2>> /\ call2' = [call2 EXCEPT ![c] = IdleCall]
    BY <1>6 DEF SubmitEntry2
  <2>3. /\ call2' \in [RegistryCallers -> RegistryCalls \cup {IdleCall}]
        /\ \A d \in RegistryCallers : CallAllowed(d)'
    BY <2>2, IdleAllowed, CallMoves
  <2>4. CASE posted' = posted
    <3>1. RegistryTypeOK' /\ MapIsTrue'
      BY <2>2, <2>3, <2>4 DEF RegistryTypeOK, MapIsTrue
    <3> QED BY <2>2, <2>3, <2>4, <3>1, <1>m, PostsStay, ChangesStay, WriterStep
  <2>5. CASE posted' = [posted EXCEPT ![t] = Append(@, m)]
    <3>1. /\ posted' \in [RegistryTopics -> Seq(Messages2)] /\ PostsKept
          /\ \A u \in RegistryTopics \ {t} : posted'[u] = posted[u]
          /\ DOMAIN posted'[t] = 1..(Len(posted[t]) + 1) /\ DOMAIN posted[t] = 1..Len(posted[t])
          /\ \A i \in 1..Len(posted[t]) : posted'[t][i] = posted[t][i]
          /\ posted'[t][Len(posted[t]) + 1] = m /\ Len(posted[t]) \in Nat
      BY <2>1, <2>5, <1>p
    <3>2. OnlyIndexedChange'
      <4> SUFFICES ASSUME NEW u \in RegistryTopics, NEW i \in DOMAIN posted'[u], MustBeIndexed(posted'[u][i])
                   PROVE  memos[u] = "indexed"
        BY <2>2 DEF OnlyIndexedChange, MustBeIndexed
      <4>1. CASE u = t /\ i = Len(posted[t]) + 1
        BY <2>1, <3>1, <4>1 DEF CallAllowed
      <4>2. CASE ~(u = t /\ i = Len(posted[t]) + 1)
        <5>1. i \in DOMAIN posted[u] /\ posted'[u][i] = posted[u][i]
          BY <3>1, <4>2
        <5> QED BY <5>1 DEF OnlyIndexedChange, MustBeIndexed
      <4> QED BY <4>1, <4>2
    <3>3. RegistryTypeOK' /\ MapIsTrue'
      BY <2>2, <2>3, <3>1 DEF RegistryTypeOK, MapIsTrue
    <3> QED BY <2>2, <2>3, <3>1, <3>2, <3>3, <1>m, WriterStep
  <2> QED BY <1>6, <2>4, <2>5 DEF SubmitEntry2
<1>7. ASSUME NEW c \in RegistryCallers, NEW t \in RegistryTopics, SubmitMessage(c, t) PROVE RegistryInv'
  <2>1. PICK op \in Operations \cup {"other"} :
          call2' = [call2 EXCEPT ![c] = Sized([pc |-> "fetchType", topic |-> t,
            message |-> [op |-> op, uid |-> op = "update", via |-> "message",
                         metadata |-> IF op = "register" THEN "long" ELSE "plain"]])]
    BY <1>7 DEF SubmitMessage
  <2>2. UNCHANGED <<memos, posted, registryType, read2>>
    BY <1>7 DEF SubmitMessage
  <2>3. PICK m \in Messages2 : m.via = "message" /\ call2' =
          [call2 EXCEPT ![c] = Sized([pc |-> "fetchType", topic |-> t, message |-> m])]
    <3> DEFINE m == [op |-> op, uid |-> op = "update", via |-> "message",
                     metadata |-> IF op = "register" THEN "long" ELSE "plain"]
    <3>1. m \in Messages2 /\ m.via = "message"
      BY DEF Messages2
    <3> QED BY <2>1, <3>1
  <2>4. PICK call \in RegistryCalls : call = [pc |-> "fetchType", topic |-> t, message |-> m]
    BY DEF RegistryCalls
  <2>5. PICK new \in RegistryCalls : new = Sized(call) /\ new.message = m
    BY <2>4, SizedCall
  <2>6. Allowed2(new) /\ call2' = [call2 EXCEPT ![c] = new]
    BY <2>3, <2>4, <2>5 DEF Allowed2, MustBeIndexed
  <2>7. /\ call2' \in [RegistryCallers -> RegistryCalls \cup {IdleCall}]
        /\ \A d \in RegistryCallers : CallAllowed(d)'
    BY <2>2, <2>6, CallMoves
  <2>8. RegistryTypeOK' /\ MapIsTrue'
    BY <2>2, <2>7 DEF RegistryTypeOK, MapIsTrue
  <2> QED BY <2>2, <2>7, <2>8, <1>m, PostsStay, ChangesStay, WriterStep
<1> QED BY <1>1, <1>2, <1>3, <1>4, <1>5, <1>6, <1>7

(***************************************************************************)
(* The reader fetches messages of the topic, each once, in either order.   *)
(***************************************************************************)
FoundAfter(skip, seen) == [i \in 1..(IF skip < seen THEN seen - skip ELSE 0) |-> skip + i]

FetchedOnce(fetched, n) ==
  /\ fetched \in Seq(Nat)
  /\ \A p \in DOMAIN fetched : fetched[p] \in 1..n
  /\ \A p, q \in DOMAIN fetched : fetched[p] = fetched[q] => p = q

LEMMA Fetched ==
  ASSUME NEW n \in Nat, NEW skip \in {0, 1}, NEW seen \in 0..n,
         NEW fetched \in {FoundAfter(skip, seen), Reverse(FoundAfter(skip, seen))}
  PROVE  FetchedOnce(fetched, n)
<1> USE DEF FetchedOnce
<1> DEFINE found == FoundAfter(skip, seen)
<1>1. PICK k \in Nat : k = (IF skip < seen THEN seen - skip ELSE 0) /\ (k > 0 => skip + k = seen)
  <2>1. (IF skip < seen THEN seen - skip ELSE 0) \in Nat
    OBVIOUS
  <2>2. (IF skip < seen THEN seen - skip ELSE 0) > 0 => skip + (IF skip < seen THEN seen - skip ELSE 0) = seen
    OBVIOUS
  <2> QED BY <2>1, <2>2
<1>2. found = [i \in 1..k |-> skip + i] /\ Len(found) = k
  BY <1>1 DEF FoundAfter
<1>3. /\ DOMAIN found = 1..k /\ \A p \in 1..k : found[p] \in 1..n
      /\ \A p, q \in 1..k : found[p] = found[q] => p = q
  BY <1>1, <1>2
<1>s. ASSUME NEW f, f = [p \in 1..k |-> f[p]], \A p \in 1..k : f[p] \in 1..n PROVE f \in Seq(Nat)
  <2>1. \A p \in 1..k : f[p] \in Nat
    BY <1>s
  <2>2. f \in [1..k -> Nat]
    BY <1>s, <2>1
  <2> QED BY <2>2
<1>4. CASE fetched = found
  BY <1>2, <1>3, <1>4, <1>s
<1>5. CASE fetched = Reverse(found)
  <2>1. fetched = [i \in 1..k |-> found[(k - i) + 1]] /\ Len(fetched) = k
    BY <1>2, <1>5 DEF Reverse
  <2>2. \A p \in 1..k : (k - p) + 1 \in 1..k
    OBVIOUS
  <2>3. \A p \in 1..k : fetched[p] = found[(k - p) + 1]
    BY <2>1
  <2>4. ASSUME NEW p \in 1..k, NEW q \in 1..k, fetched[p] = fetched[q] PROVE p = q
    <3>1. (k - p) + 1 = (k - q) + 1
      BY <1>3, <2>2, <2>3, <2>4
    <3> QED BY <3>1
  <2>5. fetched \in Seq(Nat)
    BY <1>3, <1>s, <2>1, <2>2, <2>3
  <2> QED BY <1>3, <2>1, <2>2, <2>3, <2>4, <2>5
<1> QED BY <1>4, <1>5

LEMMA GetRegistryKeeps ==
  ASSUME RegistryInv, NEW t \in RegistryTopics, GetRegistry(t)
  PROVE  RegistryInv'
<1> USE DEF RegistryInv
<1>1. PICK resolve \in BOOLEAN, order \in {"asc", "desc"}, skip \in {0, 1}, seen \in 0..Len(posted[t]) :
        LET found == [i \in 1..(IF skip < seen THEN seen - skip ELSE 0) |-> skip + i]
        IN  read2' = [pc |-> "decode", topic |-> t, resolve |-> resolve, type |-> memos[t],
                      fetched |-> IF order = "asc" THEN found ELSE Reverse(found),
                      at |-> 1, list |-> << >>, newest |-> 0, missed |-> {}]
  BY DEF GetRegistry
<1>2. UNCHANGED <<memos, posted, registryType, call2>> /\ memos[t] \in {"indexed", "nonIndexed"}
  BY DEF GetRegistry, ParseTopicMemo2
<1>3. PICK found : found = FoundAfter(skip, seen)
  OBVIOUS
<1>4. PICK fetched : fetched = IF order = "asc" THEN found ELSE Reverse(found)
  OBVIOUS
<1>5. /\ read2'.pc = "decode" /\ read2'.topic = t /\ read2'.type = memos[t] /\ read2'.fetched = fetched
      /\ read2'.at = 1 /\ read2'.list = << >> /\ read2'.newest = 0 /\ read2'.missed = {}
  BY <1>1, <1>3, <1>4 DEF FoundAfter
<1>6. PICK n \in Nat : n = Len(posted[t])
  BY DEF RegistryTypeOK
<1>7. /\ fetched \in Seq(Nat)
      /\ \A p \in DOMAIN fetched : fetched[p] \in 1..n
      /\ \A p, q \in DOMAIN fetched : fetched[p] = fetched[q] => p = q
  <2>1. seen \in 0..n /\ fetched \in {found, Reverse(found)}
    BY <1>4, <1>6
  <2>2. fetched \in {FoundAfter(skip, seen), Reverse(FoundAfter(skip, seen))}
    BY <1>3, <2>1
  <2>3. FetchedOnce(fetched, n)
    BY <2>1, <2>2, Fetched
  <2> QED BY <2>3 DEF FetchedOnce
<1>r. read2' \in Reads
  <2>1. << >> \in Seq(Nat)
    OBVIOUS
  <2> QED BY <1>1, <1>2, <1>3, <1>4, <1>7, <2>1 DEF Reads, FoundAfter
<1>8. ReadOK'
  BY <1>2, <1>5, <1>6, <1>7, <1>r DEF ReadOK
<1>9. ReadSoFar'
  <2>1. read2'.list \in Seq(Nat) /\ DOMAIN read2'.list = {}
    BY <1>5
  <2>2. 1..(read2'.at - 1) = {}
    BY <1>5
  <2>3. read2'.at \in 1..(Len(read2'.fetched) + 1) /\ read2'.newest \in Nat
    BY <1>5, <1>7
  <2> QED BY <1>5, <2>1, <2>2, <2>3 DEF ReadSoFar, SoFar
<1>10. RegistryTypeOK' /\ MapIsTrue' /\ OnlyIndexedChange' /\ \A c \in RegistryCallers : CallAllowed(c)'
  BY <1>2 DEF RegistryTypeOK, MapIsTrue, OnlyIndexedChange, CallAllowed
<1> QED BY <1>5, <1>8, <1>9, <1>10

LEMMA ReadsTyped ==
  ASSUME NEW r \in Reads, NEW a \in Nat
  PROVE  /\ \A l \in Seq(Nat), w \in Nat : [r EXCEPT !.at = a, !.list = l, !.newest = w] \in Reads
         /\ \A s \in SUBSET Nat : [r EXCEPT !.at = a, !.missed = s] \in Reads
         /\ \A l \in Seq(Nat) : [r EXCEPT !.pc = "done", !.list = l] \in Reads
<1>1. ASSUME NEW l \in Seq(Nat), NEW w \in Nat PROVE [r EXCEPT !.at = a, !.list = l, !.newest = w] \in Reads
  BY DEF Reads
<1>2. ASSUME NEW s \in SUBSET Nat PROVE [r EXCEPT !.at = a, !.missed = s] \in Reads
  BY DEF Reads
<1>3. ASSUME NEW l \in Seq(Nat) PROVE [r EXCEPT !.pc = "done", !.list = l] \in Reads
  BY DEF Reads
<1> QED BY <1>1, <1>2, <1>3

LEMMA DecodeKeeps ==
  ASSUME RegistryInv, DecodeNext
  PROVE  RegistryInv'
<1> USE DEF RegistryInv
<1>1. read2.pc = "decode" /\ read2.at \in DOMAIN read2.fetched /\ UNCHANGED <<memos, posted, registryType, call2>>
  BY DEF DecodeNext
<1>2. ReadOK /\ ReadSoFar
  BY <1>1
<1>3. PICK at : at = read2.at
  OBVIOUS
<1>4. PICK fetched : fetched = read2.fetched
  OBVIOUS
<1>5. /\ DOMAIN fetched = 1..Len(fetched) /\ Len(fetched) \in Nat /\ at \in 1..Len(fetched)
      /\ \A p, q \in DOMAIN fetched : fetched[p] = fetched[q] => p = q
      /\ \A p \in DOMAIN fetched : fetched[p] \in Nat
  BY <1>1, <1>2, <1>3, <1>4 DEF ReadOK, Reads
<1> DEFINE seq == fetched[at]
           m == posted[read2.topic][seq]
           due == Readable(m, read2.resolve, TRUE)
<1>6. PICK available \in BOOLEAN :
        read2' = IF Readable(m, read2.resolve, available)
                   THEN [read2 EXCEPT !.at = @ + 1, !.list = Append(@, seq), !.newest = Newer(seq, @)]
                   ELSE [read2 EXCEPT !.at = @ + 1,
                           !.missed = IF due THEN @ \cup {seq} ELSE @]
  BY <1>3, <1>4 DEF DecodeNext
<1>7. seq \in Nat /\ read2 \in Reads
  BY <1>2, <1>5 DEF ReadOK
<1>8. ASSUME NEW av \in BOOLEAN, Readable(m, read2.resolve, av) PROVE due
  BY <1>8 DEF Readable, Decoded
<1> DEFINE same == /\ read2'.pc = "decode" /\ read2'.topic = read2.topic /\ read2'.type = read2.type
                   /\ read2'.fetched = fetched /\ read2'.at = at + 1 /\ (read2'.resolve <=> read2.resolve)
<1> HIDE DEF seq, m, due
<1>f. SoFar(fetched, 1..(at - 1))
  BY <1>2, <1>3, <1>4 DEF ReadSoFar
<1>o. ASSUME ReadOK', ReadSoFar', read2'.pc = "decode" PROVE RegistryInv'
  <2>1. RegistryTypeOK' /\ MapIsTrue' /\ OnlyIndexedChange' /\ \A c \in RegistryCallers : CallAllowed(c)'
    BY <1>1 DEF RegistryTypeOK, MapIsTrue, OnlyIndexedChange, CallAllowed
  <2> QED BY <1>o, <2>1
<1>p. /\ at \in Nat /\ at + 1 \in 1..(Len(fetched) + 1) /\ 1..((at + 1) - 1) = 1..(at - 1) \cup {at}
      /\ 1..(at - 1) \subseteq DOMAIN fetched /\ at \in DOMAIN fetched /\ at \notin 1..(at - 1)
  BY <1>5
<1>k. ASSUME NEW p \in 1..(at - 1), read2'.topic = read2.topic, read2'.resolve <=> read2.resolve,
             read2'.missed \in {read2.missed, read2.missed \cup {seq}}
      PROVE  IsDue(fetched[p])' <=> IsDue(fetched[p])
  <2>1. fetched[p] # seq
    BY <1>5, <1>p DEF seq
  <2>2. Readable(posted[read2.topic][fetched[p]], read2.resolve, TRUE)'
           <=> Readable(posted[read2.topic][fetched[p]], read2.resolve, TRUE)
    BY <1>1, <1>k DEF Readable, Decoded
  <2> QED BY <1>1, <1>k, <2>1, <2>2 DEF IsDue
<1>9. CASE read2' = [read2 EXCEPT !.at = @ + 1, !.list = Append(@, seq), !.newest = Newer(seq, @)] /\ due
  <2>1. /\ same /\ read2'.list = Append(read2.list, seq) /\ read2'.missed = read2.missed
        /\ read2'.newest = Newer(seq, read2.newest)
    BY <1>3, <1>4, <1>7, <1>9, <1>1 DEF Reads
  <2>2. Newer(seq, read2.newest) \in Nat /\ read2.list \in Seq(Nat) /\ at + 1 \in Nat
    BY <1>7, <1>p DEF Newer, Reads
  <2>3. read2' \in Reads
    <3>1. PICK r : r = read2
      OBVIOUS
    <3>2. PICK l \in Seq(Nat) : l = Append(r.list, seq)
      BY <1>7, <2>2, <3>1, AppendProperties
    <3>3. PICK w \in Nat : w = Newer(seq, r.newest)
      BY <2>2, <3>1
    <3>4. read2' = [r EXCEPT !.at = at + 1, !.list = l, !.newest = w] /\ r \in Reads
      BY <1>3, <1>7, <1>9, <3>1, <3>2, <3>3
    <3> QED BY <3>4, <2>2, ReadsTyped
  <2>4. ReadOK'
    BY <1>1, <1>2, <1>4, <2>1, <2>3 DEF ReadOK
  <2>5. IsDue(seq)'
    <3>1. seq \notin read2.missed
      <4> SUFFICES ASSUME seq \in read2.missed PROVE FALSE
        OBVIOUS
      <4>1. PICK p \in 1..(at - 1) : fetched[p] = seq
        BY <1>f DEF SoFar
      <4> QED BY <1>5, <1>p, <4>1 DEF seq
    <3>2. Readable(posted[read2.topic][seq], read2.resolve, TRUE)'
      BY <1>1, <1>9, <2>1 DEF due, m, Readable, Decoded
    <3> QED BY <2>1, <3>1, <3>2 DEF IsDue
  <2>6. \A p \in 1..(at - 1) : IsDue(fetched[p])' <=> IsDue(fetched[p])
    BY <1>k, <2>1
  <2>7. PICK list : list = read2.list
    OBVIOUS
  <2>8. PICK n \in Nat : n = Len(list)
    BY <1>7, <2>7 DEF Reads
  <2>9. /\ DOMAIN list = 1..n /\ DOMAIN read2'.list = 1..(n + 1) /\ read2'.list[n + 1] = seq
        /\ \A i \in 1..n : read2'.list[i] = list[i]
    BY <1>7, <2>1, <2>7, <2>8, AppendProperties DEF Reads
  <2>a. /\ \A i \in DOMAIN read2.list : \E p \in 1..(at - 1) : fetched[p] = read2.list[i] /\ IsDue(fetched[p])
        /\ \A p \in 1..(at - 1) : IsDue(fetched[p]) => \E i \in DOMAIN read2.list : read2.list[i] = fetched[p]
        /\ \A i, j \in DOMAIN read2.list : i < j =>
             \E p, q \in 1..(at - 1) : p < q /\ fetched[p] = read2.list[i] /\ fetched[q] = read2.list[j]
        /\ \A x \in read2.missed : \E p \in 1..(at - 1) : fetched[p] = x
        /\ \A p \in 1..(at - 1) : IsDue(fetched[p]) => fetched[p] <= read2.newest
    BY <1>f DEF SoFar
  <2>b. read2.list = list /\ DOMAIN read2.list = 1..n
    BY <2>7, <2>9
  <2>c. \A i \in 1..n : \E p \in 1..(at - 1) : fetched[p] = list[i] /\ IsDue(fetched[p])
    BY <2>a, <2>b
  <2>d. \A p \in 1..(at - 1) : IsDue(fetched[p]) => \E i \in 1..n : list[i] = fetched[p]
    BY <2>a, <2>b
  <2>e. \A i, j \in 1..n : i < j =>
          \E p, q \in 1..(at - 1) : p < q /\ fetched[p] = list[i] /\ fetched[q] = list[j]
    <3> SUFFICES ASSUME NEW i \in 1..n, NEW j \in 1..n, i < j
                 PROVE  \E p, q \in 1..(at - 1) : p < q /\ fetched[p] = list[i] /\ fetched[q] = list[j]
      OBVIOUS
    <3>1. i \in DOMAIN read2.list /\ j \in DOMAIN read2.list
      BY <2>b
    <3>2. \E p, q \in 1..(at - 1) : p < q /\ fetched[p] = read2.list[i] /\ fetched[q] = read2.list[j]
      BY <2>a, <3>1
    <3> QED BY <2>b, <3>2
  <2>10. /\ \A i \in 1..n : \E p \in 1..(at - 1) : fetched[p] = list[i] /\ IsDue(fetched[p])
         /\ \A p \in 1..(at - 1) : IsDue(fetched[p]) => \E i \in 1..n : list[i] = fetched[p]
         /\ \A i, j \in 1..n : i < j =>
              \E p, q \in 1..(at - 1) : p < q /\ fetched[p] = list[i] /\ fetched[q] = list[j]
         /\ \A x \in read2.missed : \E p \in 1..(at - 1) : fetched[p] = x
         /\ \A p \in 1..(at - 1) : IsDue(fetched[p]) => fetched[p] <= read2.newest
    BY <2>a, <2>c, <2>d, <2>e
  <2>11. \A i \in 1..(n + 1) : \E p \in 1..at : fetched[p] = read2'.list[i] /\ IsDue(fetched[p])'
    <3>1. ASSUME NEW i \in 1..n PROVE \E p \in 1..at : fetched[p] = read2'.list[i] /\ IsDue(fetched[p])'
      <4>1. PICK p \in 1..(at - 1) : fetched[p] = list[i] /\ IsDue(fetched[p])
        BY <2>10
      <4>2. p \in 1..at /\ fetched[p] = read2'.list[i] /\ IsDue(fetched[p])'
        BY <1>p, <2>6, <2>9, <4>1
      <4> QED BY <4>2
    <3>2. fetched[at] = read2'.list[n + 1] /\ IsDue(fetched[at])'
      BY <2>5, <2>9 DEF seq
    <3> QED BY <1>p, <3>1, <3>2
  <2>12. \A p \in 1..at : IsDue(fetched[p])' => \E i \in 1..(n + 1) : read2'.list[i] = fetched[p]
    <3>1. ASSUME NEW p \in 1..(at - 1), IsDue(fetched[p])' PROVE \E i \in 1..(n + 1) : read2'.list[i] = fetched[p]
      <4>1. PICK i \in 1..n : list[i] = fetched[p]
        BY <3>1, <2>6, <2>10
      <4>2. i \in 1..(n + 1) /\ read2'.list[i] = fetched[p]
        BY <2>9, <4>1
      <4> QED BY <4>2
    <3>2. read2'.list[n + 1] = fetched[at]
      BY <2>9 DEF seq
    <3> QED BY <1>p, <3>1, <3>2
  <2>13. \A i, j \in 1..(n + 1) : i < j =>
           \E p, q \in 1..at : p < q /\ fetched[p] = read2'.list[i] /\ fetched[q] = read2'.list[j]
    <3> SUFFICES ASSUME NEW i \in 1..(n + 1), NEW j \in 1..(n + 1), i < j
                 PROVE  \E p, q \in 1..at : p < q /\ fetched[p] = read2'.list[i] /\ fetched[q] = read2'.list[j]
      OBVIOUS
    <3>1. i \in 1..n
      OBVIOUS
    <3>2. CASE j \in 1..n
      <4>1. PICK p \in 1..(at - 1), q \in 1..(at - 1) : p < q /\ fetched[p] = list[i] /\ fetched[q] = list[j]
        BY <2>10, <3>1, <3>2
      <4>2. p \in 1..at /\ q \in 1..at /\ fetched[p] = read2'.list[i] /\ fetched[q] = read2'.list[j]
        BY <1>p, <2>9, <3>1, <3>2, <4>1
      <4> QED BY <4>1, <4>2
    <3>3. CASE j = n + 1
      <4>1. PICK p \in 1..(at - 1) : fetched[p] = list[i]
        BY <2>10, <3>1
      <4>2. p < at /\ p \in 1..at /\ at \in 1..at
        BY <1>p
      <4> QED BY <2>9, <3>1, <3>3, <4>1, <4>2 DEF seq
    <3> QED BY <3>2, <3>3
  <2>14. /\ \A p \in 1..at : IsDue(fetched[p])' => fetched[p] <= read2'.newest
         /\ read2'.newest # 0 => \E p \in 1..at : fetched[p] = read2'.newest /\ IsDue(fetched[p])'
    <3>1. read2.newest # 0 => \E p \in 1..(at - 1) : fetched[p] = read2.newest /\ IsDue(fetched[p])
      BY <1>f DEF SoFar
    <3>2. fetched[at] = seq /\ seq \in Nat /\ read2.newest \in Nat
      BY <1>7 DEF seq, Reads
    <3>3. CASE seq > read2.newest
      <4>1. read2'.newest = seq
        BY <2>1, <3>3 DEF Newer
      <4>2. ASSUME NEW p \in 1..(at - 1), IsDue(fetched[p])' PROVE fetched[p] <= seq
        <5>1. fetched[p] <= read2.newest /\ fetched[p] \in Nat
          BY <1>5, <1>p, <2>6, <2>10, <4>2
        <5> QED BY <3>2, <3>3, <5>1
      <4>3. seq <= seq
        BY <3>2
      <4> QED BY <1>p, <2>5, <3>2, <4>1, <4>2, <4>3
    <3>4. CASE ~(seq > read2.newest)
      <4>1. read2'.newest = read2.newest
        BY <2>1, <3>4 DEF Newer
      <4>2. seq <= read2.newest
        BY <3>2, <3>4
      <4>3. ASSUME NEW p \in 1..at, IsDue(fetched[p])' PROVE fetched[p] <= read2.newest
        <5>1. CASE p \in 1..(at - 1)
          BY <2>6, <2>10, <4>3, <5>1
        <5>2. CASE p = at
          BY <3>2, <4>2, <5>2
        <5> QED BY <1>p, <5>1, <5>2
      <4>4. ASSUME read2.newest # 0 PROVE \E p \in 1..at : fetched[p] = read2.newest /\ IsDue(fetched[p])'
        <5>1. PICK p \in 1..(at - 1) : fetched[p] = read2.newest /\ IsDue(fetched[p])
          BY <3>1, <4>4
        <5>2. p \in 1..at /\ IsDue(fetched[p])'
          BY <1>p, <2>6, <5>1
        <5> QED BY <5>1, <5>2
      <4> QED BY <4>1, <4>3, <4>4
    <3> QED BY <3>3, <3>4
  <2>15. \A x \in read2'.missed : \E p \in 1..at : fetched[p] = x
    BY <1>p, <2>1, <2>10
  <2>16. ReadSoFar'
    <3>1. read2'.at - 1 = at /\ read2'.at \in 1..(Len(fetched) + 1)
      BY <1>p, <2>1
    <3>2. \A i \in DOMAIN read2'.list : \E p \in 1..at : fetched[p] = read2'.list[i] /\ IsDue(fetched[p])'
      BY <2>9, <2>11
    <3>3. \A p \in 1..at : IsDue(fetched[p])' => \E i \in DOMAIN read2'.list : read2'.list[i] = fetched[p]
      BY <2>9, <2>12
    <3>4. \A i, j \in DOMAIN read2'.list : i < j =>
            \E p, q \in 1..at : p < q /\ fetched[p] = read2'.list[i] /\ fetched[q] = read2'.list[j]
      <4> SUFFICES ASSUME NEW i \in DOMAIN read2'.list, NEW j \in DOMAIN read2'.list, i < j
                   PROVE  \E p, q \in 1..at : p < q /\ fetched[p] = read2'.list[i] /\ fetched[q] = read2'.list[j]
        OBVIOUS
      <4>1. i \in 1..(n + 1) /\ j \in 1..(n + 1)
        BY <2>9
      <4> QED BY <2>13, <4>1
    <3>5. SoFar(fetched, 1..at)'
      BY <2>14, <2>15, <3>2, <3>3, <3>4 DEF SoFar
    <3> QED BY <2>1, <3>1, <3>5 DEF ReadSoFar
  <2> QED BY <1>o, <2>1, <2>4, <2>16
<1>10. CASE read2' = [read2 EXCEPT !.at = @ + 1, !.missed = IF due THEN @ \cup {seq} ELSE @]
  <2>1. /\ same /\ read2'.list = read2.list /\ read2'.missed = IF due THEN read2.missed \cup {seq} ELSE read2.missed
        /\ read2'.newest = read2.newest
    BY <1>3, <1>4, <1>7, <1>10, <1>1 DEF Reads
  <2>2. read2' \in Reads
    <3>1. PICK r : r = read2
      OBVIOUS
    <3>2. PICK s \in SUBSET Nat : s = IF due THEN r.missed \cup {seq} ELSE r.missed
      BY <1>7, <3>1 DEF Reads
    <3>3. read2' = [r EXCEPT !.at = at + 1, !.missed = s] /\ r \in Reads /\ at + 1 \in Nat
      BY <1>3, <1>7, <1>10, <1>p, <3>1, <3>2
    <3> QED BY <3>3, ReadsTyped
  <2>4. ReadOK'
    BY <1>1, <1>2, <1>4, <2>1, <2>2 DEF ReadOK
  <2>5. ~IsDue(seq)'
    BY <1>1, <2>1 DEF IsDue, due, m, Readable, Decoded
  <2>6. \A p \in 1..(at - 1) : IsDue(fetched[p])' <=> IsDue(fetched[p])
    BY <1>k, <2>1
  <2>7. /\ \A i \in DOMAIN read2.list : \E p \in 1..(at - 1) : fetched[p] = read2.list[i] /\ IsDue(fetched[p])
        /\ \A p \in 1..(at - 1) : IsDue(fetched[p]) => \E i \in DOMAIN read2.list : read2.list[i] = fetched[p]
        /\ \A i, j \in DOMAIN read2.list : i < j =>
             \E p, q \in 1..(at - 1) : p < q /\ fetched[p] = read2.list[i] /\ fetched[q] = read2.list[j]
        /\ \A x \in read2.missed : \E p \in 1..(at - 1) : fetched[p] = x
        /\ \A p \in 1..(at - 1) : IsDue(fetched[p]) => fetched[p] <= read2.newest
        /\ read2.newest # 0 => \E p \in 1..(at - 1) : fetched[p] = read2.newest /\ IsDue(fetched[p])
    BY <1>f DEF SoFar
  <2>8. ~IsDue(fetched[at])'
    BY <2>5 DEF seq
  <2>9. /\ \A i \in DOMAIN read2.list : \E p \in 1..at : fetched[p] = read2.list[i] /\ IsDue(fetched[p])'
        /\ \A p \in 1..at : IsDue(fetched[p])' => \E i \in DOMAIN read2.list : read2.list[i] = fetched[p]
        /\ \A i, j \in DOMAIN read2.list : i < j =>
             \E p, q \in 1..at : p < q /\ fetched[p] = read2.list[i] /\ fetched[q] = read2.list[j]
        /\ \A p \in 1..at : IsDue(fetched[p])' => fetched[p] <= read2.newest
        /\ read2.newest # 0 => \E p \in 1..at : fetched[p] = read2.newest /\ IsDue(fetched[p])'
    <3>1. \A p \in 1..at : IsDue(fetched[p])' => p \in 1..(at - 1) /\ IsDue(fetched[p])
      BY <1>p, <2>6, <2>8
    <3>2. \A p \in 1..(at - 1) : p \in 1..at /\ (IsDue(fetched[p]) => IsDue(fetched[p])')
      BY <1>p, <2>6
    <3>3. \A i \in DOMAIN read2.list : \E p \in 1..at : fetched[p] = read2.list[i] /\ IsDue(fetched[p])'
      BY <2>7, <3>2
    <3>4. \A p \in 1..at : IsDue(fetched[p])' => (\E i \in DOMAIN read2.list : read2.list[i] = fetched[p]) /\ fetched[p] <= read2.newest
      BY <2>7, <3>1
    <3>5. \A i, j \in DOMAIN read2.list : i < j =>
            \E p, q \in 1..at : p < q /\ fetched[p] = read2.list[i] /\ fetched[q] = read2.list[j]
      BY <2>7, <3>2
    <3>6. read2.newest # 0 => \E p \in 1..at : fetched[p] = read2.newest /\ IsDue(fetched[p])'
      BY <2>7, <3>2
    <3> QED BY <3>3, <3>4, <3>5, <3>6
  <2>10. \A x \in read2'.missed : \E p \in 1..at : fetched[p] = x
    <3>1. fetched[at] = seq /\ at \in 1..at
      BY <1>p DEF seq
    <3>2. \A p \in 1..(at - 1) : p \in 1..at
      BY <1>p
    <3>3. read2'.missed \subseteq read2.missed \cup {seq}
      BY <2>1
    <3> QED BY <2>7, <3>1, <3>2, <3>3
  <2>11. ReadSoFar'
    <3>1. read2'.at - 1 = at /\ read2'.at \in 1..(Len(fetched) + 1)
      BY <1>p, <2>1
    <3>2. SoFar(fetched, 1..at)'
      BY <2>1, <2>9, <2>10 DEF SoFar
    <3> QED BY <2>1, <3>1, <3>2 DEF ReadSoFar
  <2> QED BY <1>o, <2>1, <2>4, <2>11
<1> QED BY <1>6, <1>8, <1>9, <1>10

(***************************************************************************)
(* What is returned: the list as it is, or the newest entry of a registry  *)
(* that is not indexed.                                                    *)
(***************************************************************************)
LEMMA ReturnKeeps ==
  ASSUME RegistryInv, ReturnRegistry
  PROVE  RegistryInv'
<1> USE DEF RegistryInv
<1>1. /\ read2.pc = "decode" /\ read2.at \notin DOMAIN read2.fetched
      /\ UNCHANGED <<memos, posted, call2>>
      /\ registryType' = [registryType EXCEPT ![read2.topic] = read2.type]
  BY DEF ReturnRegistry
<1>2. ReadOK /\ ReadSoFar /\ read2 \in Reads
  BY <1>1 DEF ReadOK
<1>3. PICK list \in Seq(Nat) :
        /\ list = IF read2.type = "nonIndexed"
                    THEN IF read2.newest = 0 THEN << >> ELSE <<read2.newest>> ELSE read2.list
        /\ read2' = [read2 EXCEPT !.pc = "done", !.list = list]
  <2>1. << >> \in Seq(Nat) /\ <<read2.newest>> \in Seq(Nat) /\ read2.list \in Seq(Nat)
    BY <1>2 DEF Reads
  <2> QED BY <2>1 DEF ReturnRegistry
<1>4. /\ read2'.pc = "done" /\ read2'.list = list /\ read2'.topic = read2.topic /\ read2'.type = read2.type
      /\ read2'.fetched = read2.fetched /\ read2'.missed = read2.missed /\ (read2'.resolve <=> read2.resolve)
  BY <1>2, <1>3 DEF Reads
<1>5. read2' \in Reads
  <2>1. PICK r : r = read2
    OBVIOUS
  <2>2. r \in Reads /\ read2' = [r EXCEPT !.pc = "done", !.list = list]
    BY <1>2, <1>3, <2>1
  <2>3. 0 \in Nat
    OBVIOUS
  <2> QED BY <2>2, <2>3, ReadsTyped
<1>6. ReadOK'
  BY <1>1, <1>2, <1>4, <1>5 DEF ReadOK
<1>7. PICK fetched : fetched = read2.fetched
  OBVIOUS
<1>8. 1..(read2.at - 1) = DOMAIN fetched /\ \A p \in DOMAIN fetched : fetched[p] \in Nat \ {0}
  BY <1>1, <1>2, <1>7 DEF ReadOK, ReadSoFar, Reads, RegistryTypeOK
<1>9. ASSUME NEW x PROVE IsDue(x)' <=> IsDue(x)
  BY <1>1, <1>4 DEF IsDue, Readable, Decoded
<1> DEFINE due == {i \in {fetched[p] : p \in DOMAIN fetched} : IsDue(i)}
<1>10. due' = due
  BY <1>9
<1>11. /\ \A i \in DOMAIN read2.list : \E p \in DOMAIN fetched : fetched[p] = read2.list[i] /\ IsDue(fetched[p])
       /\ \A p \in DOMAIN fetched : IsDue(fetched[p]) => \E i \in DOMAIN read2.list : read2.list[i] = fetched[p]
       /\ \A i, j \in DOMAIN read2.list : i < j =>
            \E p, q \in DOMAIN fetched : p < q /\ fetched[p] = read2.list[i] /\ fetched[q] = read2.list[j]
       /\ \A p \in DOMAIN fetched : IsDue(fetched[p]) => fetched[p] <= read2.newest
       /\ read2.newest # 0 => \E p \in DOMAIN fetched : fetched[p] = read2.newest /\ IsDue(fetched[p])
  <2>1. SoFar(fetched, DOMAIN fetched)
    BY <1>2, <1>7, <1>8 DEF ReadSoFar
  <2> QED BY <2>1 DEF SoFar
<1>12. ReadDone'
  <2>1. CASE read2.type = "indexed"
    <3>1. list = read2.list
      BY <1>3, <2>1
    <3>2. ToSet(list) = due
      BY <1>11, <3>1 DEF ToSet
    <3>3. InOrderOf(list, fetched)
      BY <1>11, <3>1 DEF InOrderOf
    <3> QED BY <1>4, <1>7, <1>10, <2>1, <3>2, <3>3 DEF ReadDone
  <2>2. CASE read2.type = "nonIndexed"
    <3>1. list = IF read2.newest = 0 THEN << >> ELSE <<read2.newest>>
      BY <1>3, <2>2
    <3>2. CASE read2.newest = 0
      <4>1. due = {}
        <5> SUFFICES ASSUME NEW p \in DOMAIN fetched, IsDue(fetched[p]) PROVE FALSE
          OBVIOUS
        <5>1. fetched[p] <= 0 /\ fetched[p] \in Nat \ {0}
          BY <1>8, <1>11, <3>2
        <5> QED BY <5>1
      <4> QED BY <1>4, <1>7, <1>10, <2>2, <3>1, <3>2, <4>1 DEF ReadDone
    <3>3. CASE read2.newest # 0
      <4>1. read2.newest \in due /\ \A j \in due : j <= read2.newest
        BY <1>11, <3>3
      <4>2. PICK w : w = read2.newest
        OBVIOUS
      <4>3. w \in due' /\ (\A j \in due' : j <= w) /\ read2'.list = <<w>> /\ due' # {}
        BY <1>4, <1>10, <3>1, <3>3, <4>1, <4>2
      <4> QED BY <1>4, <1>7, <2>2, <4>3 DEF ReadDone
    <3> QED BY <3>2, <3>3
  <2> QED BY <1>2, <2>1, <2>2 DEF Reads
<1>13. RegistryTypeOK' /\ MapIsTrue'
  <2>1. read2.type \in {"indexed", "nonIndexed"} /\ read2.topic \in RegistryTopics
        /\ memos[read2.topic] = read2.type
    BY <1>2 DEF ReadOK, Reads
  <2> QED BY <1>1, <2>1 DEF RegistryTypeOK, MapIsTrue
<1>14. OnlyIndexedChange' /\ \A c \in RegistryCallers : CallAllowed(c)'
  BY <1>1 DEF OnlyIndexedChange, CallAllowed
<1> QED BY <1>4, <1>6, <1>12, <1>13, <1>14

(***************************************************************************)
(* What is written to a registry fits its type and what is read is what    *)
(* was written, for any topics, goroutines and messages.                   *)
(***************************************************************************)
THEOREM RegistriesAreSound == RegistrySpec => []RegistryIsSound
<1>1. RegistryInv /\ [RegistryNext]_registryVars => RegistryInv'
  <2> SUFFICES ASSUME RegistryInv, [RegistryNext]_registryVars PROVE RegistryInv'
    OBVIOUS
  <2>1. ASSUME UNCHANGED registryVars PROVE RegistryInv'
    <3>1. UNCHANGED <<memos, posted, registryType, call2, read2>>
      BY <2>1 DEF registryVars
    <3>2. RegistryTypeOK' /\ MapIsTrue' /\ OnlyIndexedChange' /\ \A c \in RegistryCallers : CallAllowed(c)'
      BY <3>1 DEF RegistryInv, RegistryTypeOK, MapIsTrue, OnlyIndexedChange, CallAllowed
    <3>3. MemosFixed /\ PostsKept
      BY <3>1, PostsStay DEF MemosFixed, RegistryInv
    <3> QED BY <3>1, <3>2, <3>3, WriterStep
  <2> QED BY <2>1, WritersKeep, GetRegistryKeeps, DecodeKeeps, ReturnKeeps DEF RegistryNext
<1>2. RegistryInv => RegistryIsSound
  <2> SUFFICES ASSUME RegistryInv, read2.pc = "done" PROVE RegistryReadFaithful
    BY DEF RegistryInv, RegistryIsSound, RegistryReadFaithful
  <2> DEFINE due == {i \in {read2.fetched[p] : p \in DOMAIN read2.fetched} : IsDue(i)}
  <2>1. ReadDone /\ ReadOK /\ read2.type = memos[read2.topic] /\ read2.type \in {"indexed", "nonIndexed"}
    BY DEF RegistryInv, ReadOK, Reads
  <2>2. due = {i \in {read2.fetched[p] : p \in DOMAIN read2.fetched} :
                 Readable(posted[read2.topic][i], read2.resolve, TRUE) /\ i \notin read2.missed}
    BY DEF IsDue
  <2>3. due \subseteq Nat
    BY <2>1 DEF ReadOK, Reads
  <2>4. ASSUME NEW i \in due, \A j \in due : j <= i PROVE i = CHOOSE k \in due : \A j \in due : j <= k
    <3>1. PICK k : k = CHOOSE x \in due : \A j \in due : j <= x
      OBVIOUS
    <3>2. k \in due /\ \A j \in due : j <= k
      BY <2>4, <3>1
    <3>3. i <= k /\ k <= i /\ i \in Nat /\ k \in Nat
      BY <2>3, <2>4, <3>2
    <3> QED BY <3>1, <3>3
  <2> HIDE DEF due
  <2>5. IF read2.type = "indexed" THEN ToSet(read2.list) = due /\ InOrderOf(read2.list, read2.fetched)
        ELSE IF due = {} THEN read2.list = << >>
             ELSE read2.list = <<CHOOSE i \in due : \A j \in due : j <= i>>
    BY <2>1, <2>4 DEF ReadDone, due
  <2> QED BY <2>1, <2>2, <2>5 DEF RegistryReadFaithful
<1> QED BY <1>1, <1>2, RegistryInitInv, PTL DEF RegistrySpec

-----------------------------------------------------------------------------
(***************************************************************************)
(* HCS-20: what a call reports as done has been read, in order.            *)
(***************************************************************************)
PointsSteps == {"idle", "create", "payer", "submit", "wait", "done", "failed"}
PointsCalls == [step : PointsSteps, topic : Nat, own : BOOLEAN, waits : BOOLEAN, seq : Nat]
Pagings == [step : {"idle", "page", "read"}, topic : Nat, next : Nat, got : Seq(Nat),
            promised : SUBSET Nat]

PointsTypeOK ==
  /\ sent \in Seq(Seq(PointsCallers)) /\ Len(sent) >= 2
  /\ ingested \in Seq(Nat) /\ Len(ingested) = Len(sent)
  /\ \A t \in DOMAIN sent : ingested[t] <= Len(sent[t])
  /\ publicId \in DOMAIN sent /\ registryId \in DOMAIN sent
  /\ pointsCall \in [PointsCallers -> PointsCalls]
  /\ paging \in Pagings

(***************************************************************************)
(* A call that has its receipt owns the message it names, and the mirror   *)
(* node shows it when the call has waited and succeeded.                   *)
(***************************************************************************)
CallSent(c) ==
  /\ pointsCall[c].step \in {"payer", "submit", "wait", "done"} => pointsCall[c].topic \in DOMAIN sent
  /\ pointsCall[c].step \in {"wait", "done"} =>
       /\ pointsCall[c].seq \in DOMAIN sent[pointsCall[c].topic]
       /\ sent[pointsCall[c].topic][pointsCall[c].seq] = c
  /\ pointsCall[c].step = "done" /\ pointsCall[c].waits =>
       pointsCall[c].seq <= ingested[pointsCall[c].topic]

(***************************************************************************)
(* A read under way has all before its next page without a gap, and all it *)
(* owes is there or still to come.                                         *)
(***************************************************************************)
OwedTo(topic, n) ==
  /\ n \in DOMAIN sent[topic] /\ n <= ingested[topic] /\ sent[topic][n] \in PointsCallers
  /\ pointsCall[sent[topic][n]].step = "done" /\ pointsCall[sent[topic][n]].seq = n

NoGap(got) == \A i \in 1..(Len(got) - 1) : got[i + 1] = got[i] + 1

ReadingOf(p) ==
  p.step # "idle" =>
    /\ p.topic \in DOMAIN sent /\ p.next # 0
    /\ NoGap(p.got)
    /\ \A n \in p.promised : OwedTo(p.topic, n)
    /\ p.step = "page" => /\ p.got # << >> => p.got[Len(p.got)] = p.next - 1
                          /\ \A n \in p.promised : n >= p.next \/ n \in ToSet(p.got)
    /\ p.step = "read" => \A n \in p.promised : n \in ToSet(p.got)

PointsInv == PointsTypeOK /\ (\A c \in PointsCallers : CallSent(c)) /\ ReadingOf(paging)

LEMMA PointsInitInv == PointsInit => PointsInv
<1> SUFFICES ASSUME PointsInit PROVE PointsInv
  OBVIOUS
<1>1. /\ sent \in Seq(Seq(PointsCallers)) /\ Len(sent) = 2 /\ DOMAIN sent = 1..2
      /\ ingested \in Seq(Nat) /\ Len(ingested) = 2 /\ \A t \in 1..2 : ingested[t] = 0 /\ Len(sent[t]) = 0
  BY DEF PointsInit
<1>2. pointsCall \in [PointsCallers -> PointsCalls] /\ \A c \in PointsCallers : pointsCall[c].step = "idle"
  BY DEF PointsInit, NoCall, PointsCalls, PointsSteps
<1>3. paging \in Pagings /\ paging.step = "idle"
  BY DEF PointsInit, NoPage, Pagings
<1>4. PointsTypeOK
  BY <1>1, <1>2, <1>3 DEF PointsInit, PointsTypeOK
<1> QED BY <1>2, <1>3, <1>4 DEF PointsInv, CallSent, ReadingOf

LEMMA TopicsTyped ==
  ASSUME PointsTypeOK
  PROVE  \E s \in Seq(Seq(PointsCallers)), g \in Seq(Nat), n \in Nat :
           /\ s = sent /\ g = ingested /\ n = Len(s) /\ n = Len(g) /\ n >= 2 /\ DOMAIN s = 1..n
           /\ \A j \in 1..n : /\ s[j] \in Seq(PointsCallers) /\ Len(s[j]) \in Nat
                              /\ g[j] \in Nat /\ g[j] <= Len(s[j])
<1>1. PICK s \in Seq(Seq(PointsCallers)), g \in Seq(Nat), n \in Nat :
        s = sent /\ g = ingested /\ n = Len(s) /\ n = Len(g) /\ n >= 2
  BY DEF PointsTypeOK
<1>2. DOMAIN s = 1..n /\ s \in [1..n -> Seq(PointsCallers)] /\ g \in [1..n -> Nat]
  <2>1. DOMAIN s = 1..n /\ s \in [1..n -> Seq(PointsCallers)]
    BY <1>1, LenProperties
  <2>2. g \in [1..n -> Nat]
    BY <1>1, LenProperties
  <2> QED BY <2>1, <2>2
<1>3. ASSUME NEW j \in 1..n PROVE s[j] \in Seq(PointsCallers) /\ Len(s[j]) \in Nat /\ g[j] \in Nat
  <2>1. s[j] \in Seq(PointsCallers) /\ g[j] \in Nat
    BY <1>2
  <2>2. Len(s[j]) \in Nat
    BY <2>1, LenProperties
  <2> QED BY <2>1, <2>2
<1>4. \A j \in 1..n : g[j] <= Len(s[j])
  BY <1>1, <1>2 DEF PointsTypeOK
<1> QED BY <1>1, <1>2, <1>3, <1>4

(***************************************************************************)
(* Topics only grow, and so does what the mirror node shows of them.       *)
(***************************************************************************)
SentKept ==
  \A t \in DOMAIN sent :
    /\ t \in DOMAIN sent' /\ ingested[t] <= ingested'[t]
    /\ \A n \in DOMAIN sent[t] : n \in DOMAIN sent'[t] /\ sent'[t][n] = sent[t][n]
DoneFixed == \A c \in PointsCallers : pointsCall[c].step = "done" => pointsCall'[c] = pointsCall[c]

LEMMA SentStays ==
  ASSUME PointsTypeOK, UNCHANGED <<sent, ingested>>
  PROVE  SentKept
<1>1. \A t \in DOMAIN sent : ingested[t] \in Nat
  BY SMTT(30) DEF PointsTypeOK
<1> QED BY <1>1 DEF SentKept

LEMMA GrowthTyped ==
  ASSUME PointsTypeOK, PointsTypeOK', SentKept
  PROVE  \A t \in DOMAIN sent : t \in DOMAIN sent' /\ ingested[t] \in Nat /\ ingested'[t] \in Nat
<1>1. \A t \in DOMAIN sent : ingested[t] \in Nat
  <2>1. PICK g \in Seq(Nat), s \in Seq(Seq(PointsCallers)) : g = ingested /\ s = sent /\ Len(g) = Len(s)
    BY DEF PointsTypeOK
  <2>2. \A t \in DOMAIN s : g[t] \in Nat
    BY <2>1
  <2> QED BY <2>1, <2>2
<1>2. \A t \in DOMAIN sent' : ingested'[t] \in Nat
  <2>1. PICK g \in Seq(Nat), s \in Seq(Seq(PointsCallers)) : g = ingested' /\ s = sent' /\ Len(g) = Len(s)
    BY DEF PointsTypeOK
  <2>2. \A t \in DOMAIN s : g[t] \in Nat
    BY <2>1
  <2> QED BY <2>1, <2>2
<1> QED BY <1>1, <1>2 DEF SentKept

LEMMA CallStaysSent ==
  ASSUME PointsTypeOK, PointsTypeOK', SentKept, NEW c \in PointsCallers, CallSent(c),
         pointsCall'[c] = pointsCall[c]
  PROVE  CallSent(c)'
<1>1. pointsCall[c].seq \in Nat
  BY DEF PointsTypeOK, PointsCalls
<1>2. PICK call : call = pointsCall[c]
  OBVIOUS
<1>3. ASSUME call.step \in {"payer", "submit", "wait", "done"} PROVE call.topic \in DOMAIN sent /\ call.topic \in DOMAIN sent'
  BY <1>2, <1>3 DEF CallSent, SentKept
<1>4. ASSUME call.step \in {"wait", "done"}
      PROVE  call.seq \in DOMAIN sent'[call.topic] /\ sent'[call.topic][call.seq] = c
  BY <1>2, <1>3, <1>4 DEF CallSent, SentKept
<1>5. ASSUME call.step = "done", call.waits PROVE call.seq <= ingested'[call.topic]
  <2>1. call.topic \in DOMAIN sent /\ call.topic \in DOMAIN sent' /\ call.seq <= ingested[call.topic]
    BY <1>2, <1>3, <1>5 DEF CallSent
  <2>2. ingested[call.topic] \in Nat /\ ingested'[call.topic] \in Nat
    BY <2>1, GrowthTyped DEF SentKept
  <2>3. ingested[call.topic] <= ingested'[call.topic]
    BY <2>1 DEF SentKept
  <2> QED BY <1>1, <1>2, <2>1, <2>2, <2>3
<1> QED BY <1>2, <1>3, <1>4, <1>5 DEF CallSent

LEMMA ReadStays ==
  ASSUME PointsTypeOK, PointsTypeOK', SentKept, DoneFixed, NEW p, ReadingOf(p), p \in Pagings
  PROVE  ReadingOf(p)'
<1>1. \A t \in DOMAIN sent : t \in DOMAIN sent' /\ ingested[t] \in Nat /\ ingested'[t] \in Nat
  BY GrowthTyped
<1>2. ASSUME NEW t \in DOMAIN sent, NEW n \in Nat, OwedTo(t, n) PROVE OwedTo(t, n)'
  <2>1. PICK c \in PointsCallers : c = sent[t][n] /\ n \in DOMAIN sent[t] /\ n <= ingested[t]
                                 /\ pointsCall[c].step = "done" /\ pointsCall[c].seq = n
    BY <1>2 DEF OwedTo
  <2>2. sent'[t][n] = c /\ n \in DOMAIN sent'[t]
    BY <2>1 DEF SentKept
  <2>3. n <= ingested'[t]
    BY <1>1, <2>1 DEF SentKept
  <2>4. pointsCall'[c] = pointsCall[c]
    BY <2>1 DEF DoneFixed
  <2> QED BY <2>1, <2>2, <2>3, <2>4 DEF OwedTo
<1>3. ASSUME p.step # "idle" PROVE p.topic \in DOMAIN sent' /\ \A n \in p.promised : OwedTo(p.topic, n)'
  <2>1. p.topic \in DOMAIN sent /\ p.promised \subseteq Nat
    BY <1>3 DEF ReadingOf, Pagings
  <2>2. \A n \in p.promised : OwedTo(p.topic, n)
    BY <1>3 DEF ReadingOf
  <2> QED BY <1>1, <1>2, <2>1, <2>2
<1> QED BY <1>3 DEF ReadingOf

LEMMA OneCallerMoves ==
  ASSUME PointsInv, PointsTypeOK', SentKept, NEW c \in PointsCallers, NEW call, Becomes(c, call),
         pointsCall[c].step # "done", CallSent(c)'
  PROVE  PointsInv'
<1>1. \A d \in PointsCallers \ {c} : pointsCall'[d] = pointsCall[d]
  BY DEF PointsInv, PointsTypeOK, Becomes
<1>2. DoneFixed
  BY <1>1 DEF DoneFixed
<1>3. PICK p : p = paging
  OBVIOUS
<1>4. ReadingOf(p)'
  BY <1>2, <1>3, ReadStays DEF PointsInv, PointsTypeOK
<1>5. paging' = p
  BY <1>3 DEF Becomes
<1>6. ReadingOf(paging)'
  BY <1>4, <1>5 DEF ReadingOf
<1> QED BY <1>1, <1>6, CallStaysSent DEF PointsInv

(***************************************************************************)
(* A caller whose call takes a step while the topics stand still.          *)
(***************************************************************************)
LEMMA CallerGoesOn ==
  ASSUME PointsInv, Keeps, NEW c \in PointsCallers, NEW call \in PointsCalls, Becomes(c, call),
         pointsCall[c].step # "done",
         call.step \in {"payer", "submit", "wait", "done"} => call.topic \in DOMAIN sent,
         call.step \in {"wait", "done"} =>
           call.seq \in DOMAIN sent[call.topic] /\ sent[call.topic][call.seq] = c,
         call.step = "done" /\ call.waits => call.seq <= ingested[call.topic]
  PROVE  PointsInv'
<1>1. PointsTypeOK'
  BY DEF PointsInv, PointsTypeOK, Becomes, Keeps
<1>2. SentKept
  BY SentStays DEF PointsInv, Keeps
<1>3. pointsCall'[c] = call
  BY DEF PointsInv, PointsTypeOK, Becomes
<1>4. CallSent(c)'
  BY <1>3 DEF CallSent, Keeps
<1> QED BY <1>1, <1>2, <1>4, OneCallerMoves

LEMMA CallsTyped ==
  ASSUME NEW call \in PointsCalls
  PROVE  /\ \A step \in PointsSteps : [call EXCEPT !.step = step] \in PointsCalls
         /\ \A step \in PointsSteps, t \in Nat, w \in BOOLEAN :
              [call EXCEPT !.step = step, !.topic = t, !.waits = w] \in PointsCalls
         /\ \A step \in PointsSteps, t \in Nat, o, w \in BOOLEAN :
              [call EXCEPT !.step = step, !.topic = t, !.own = o, !.waits = w] \in PointsCalls
         /\ \A step \in PointsSteps, t \in Nat : [call EXCEPT !.step = step, !.topic = t] \in PointsCalls
         /\ \A step \in PointsSteps, o \in BOOLEAN : [call EXCEPT !.step = step, !.own = o] \in PointsCalls
         /\ \A step \in PointsSteps, n \in Nat : [call EXCEPT !.step = step, !.seq = n] \in PointsCalls
BY DEF PointsCalls

LEMMA CallerGivesUp ==
  ASSUME PointsInv, NEW c \in PointsCallers, GivesUp(c), pointsCall[c].step # "done",
         PointsTypeOK', SentKept
  PROVE  PointsInv'
<1>1. pointsCall'[c] = [pointsCall[c] EXCEPT !.step = "failed"] /\ pointsCall[c] \in PointsCalls
  BY DEF PointsInv, PointsTypeOK, GivesUp, Becomes
<1>2. pointsCall'[c].step = "failed"
  BY <1>1 DEF PointsCalls
<1>3. CallSent(c)'
  BY <1>2 DEF CallSent
<1> QED BY <1>3, OneCallerMoves DEF GivesUp

LEMMA GivesUpTyped ==
  ASSUME PointsInv, NEW c \in PointsCallers, GivesUp(c)
  PROVE  pointsCall' \in [PointsCallers -> PointsCalls] /\ paging' = paging
<1>1. PICK call : call = pointsCall[c]
  OBVIOUS
<1>2. [call EXCEPT !.step = "failed"] \in PointsCalls
  BY <1>1, CallsTyped DEF PointsInv, PointsTypeOK, PointsSteps
<1> QED BY <1>1, <1>2 DEF PointsInv, PointsTypeOK, GivesUp, Becomes

LEMMA SentGrows ==
  ASSUME PointsTypeOK, CreateTopic
  PROVE  /\ sent' \in Seq(Seq(PointsCallers)) /\ Len(sent') >= 2 /\ Len(sent') \in Nat
         /\ ingested' \in Seq(Nat) /\ Len(ingested') = Len(sent')
         /\ \A t \in DOMAIN sent' : ingested'[t] <= Len(sent'[t])
         /\ DOMAIN sent \subseteq DOMAIN sent' /\ Len(sent') \in DOMAIN sent'
         /\ SentKept
<1>1. << >> \in Seq(PointsCallers) /\ Len(<< >>) = 0
  OBVIOUS
<1>2. PICK s \in Seq(Seq(PointsCallers)), g \in Seq(Nat), n \in Nat :
        s = sent /\ g = ingested /\ n = Len(s) /\ n = Len(g) /\ n >= 2
  BY TopicsTyped
<1>3. /\ Append(s, << >>) \in Seq(Seq(PointsCallers)) /\ Len(Append(s, << >>)) = n + 1
      /\ \A t \in 1..n : Append(s, << >>)[t] = s[t]
      /\ Append(s, << >>)[n + 1] = << >>
  <2>1. PICK e \in Seq(PointsCallers) : e = << >>
    BY <1>1
  <2>2. /\ Append(s, e) \in Seq(Seq(PointsCallers)) /\ Len(Append(s, e)) = Len(s) + 1
        /\ \A t \in 1..Len(s) : Append(s, e)[t] = s[t]
        /\ Append(s, e)[Len(s) + 1] = e
    BY <2>1, AppendProperties
  <2> QED BY <1>2, <2>1, <2>2
<1>4. /\ Append(g, 0) \in Seq(Nat) /\ Len(Append(g, 0)) = n + 1
      /\ \A t \in 1..n : Append(g, 0)[t] = g[t]
      /\ Append(g, 0)[n + 1] = 0
  <2>1. 0 \in Nat
    OBVIOUS
  <2> QED BY <1>2, <2>1, AppendProperties
<1>5. sent' = Append(s, << >>) /\ ingested' = Append(g, 0)
  BY <1>2 DEF CreateTopic
<1>6. DOMAIN sent = 1..n /\ DOMAIN sent' = 1..(n + 1)
  BY <1>2, <1>3, <1>5
<1>7. ASSUME NEW t \in 1..n PROVE sent'[t] = sent[t] /\ ingested'[t] = ingested[t] /\ ingested[t] \in Nat
  BY <1>2, <1>3, <1>4, <1>5
<1>8. sent'[n + 1] = << >> /\ ingested'[n + 1] = 0
  BY <1>3, <1>4, <1>5
<1>9. SentKept
  BY <1>6, <1>7 DEF SentKept
<1>10. \A t \in DOMAIN sent' : ingested'[t] <= Len(sent'[t])
  <2>1. \A t \in 1..n : ingested'[t] <= Len(sent'[t])
    BY <1>6, <1>7 DEF PointsTypeOK
  <2>2. ingested'[n + 1] <= Len(sent'[n + 1])
    BY <1>1, <1>8
  <2> QED BY <1>6, <2>1, <2>2
<1> QED BY <1>2, <1>3, <1>4, <1>5, <1>6, <1>9, <1>10

(***************************************************************************)
(* One page: the messages from next on that the mirror node shows.         *)
(***************************************************************************)
LEMMA MinOfTwo == ASSUME NEW a \in Int, NEW b \in Int PROVE Min({a, b}) = IF a <= b THEN a ELSE b
BY DEF Min
LEMMA MaxOfTwo == ASSUME NEW a \in Int, NEW b \in Int PROVE Max({a, b}) = IF a <= b THEN b ELSE a
BY DEF Max

LEMMA PageHolds ==
  ASSUME PointsInv, paging.step = "page"
  PROVE  \E k \in Nat :
           /\ Page = [i \in 1..k |-> paging.next + i - 1]
           /\ Page \in Seq(Nat) /\ Len(Page) = k /\ k <= PageSize
           /\ k < PageSize => \A n \in Nat : paging.next <= n /\ n <= ingested[paging.topic] => n < paging.next + k
<1>0. paging.next \in Nat \ {0} /\ paging.topic \in DOMAIN sent
  BY DEF PointsInv, PointsTypeOK, ReadingOf, Pagings
<1>1. paging.next \in Nat \ {0} /\ paging.topic \in DOMAIN sent /\ ingested[paging.topic] \in Nat
      /\ PageSize \in Nat \ {0}
  BY SMTT(30), <1>0, PointsClientAssumption DEF PointsInv, PointsTypeOK
<1>2. PICK next \in Nat \ {0}, shown \in Nat : next = paging.next /\ shown = ingested[paging.topic]
  BY <1>1
<1>3. PICK rest \in Nat : rest = Max({0, shown + 1 - next}) /\ (shown + 1 - next <= rest)
  BY MaxOfTwo
<1>4. PICK k \in Nat : k = Min({PageSize, rest}) /\ k <= PageSize /\ (k < PageSize => k = rest)
  BY <1>1, MinOfTwo
<1>5. Page = [i \in 1..k |-> next + i - 1]
  BY <1>2, <1>3, <1>4 DEF Page
<1>6. Page \in Seq(Nat) /\ Len(Page) = k
  <2>1. \A i \in 1..k : next + i - 1 \in Nat
    OBVIOUS
  <2> QED BY <1>5, <2>1
<1>7. k < PageSize => \A n \in Nat : next <= n /\ n <= shown => n < next + k
  BY <1>3, <1>4
<1> QED BY <1>2, <1>4, <1>5, <1>6, <1>7

LEMMA FetchKeeps ==
  ASSUME PointsInv, FetchPage
  PROVE  PointsInv'
<1>1. PICK k \in Nat :
        /\ Page = [i \in 1..k |-> paging.next + i - 1]
        /\ Page \in Seq(Nat) /\ Len(Page) = k /\ k <= PageSize
        /\ k < PageSize => \A n \in Nat : paging.next <= n /\ n <= ingested[paging.topic] => n < paging.next + k
  BY PageHolds DEF FetchPage
<1>2. PICK p \in Pagings : p = paging
  BY DEF PointsInv, PointsTypeOK
<1>3. /\ p.step = "page" /\ p.topic \in DOMAIN sent /\ p.next \in Nat \ {0} /\ p.got \in Seq(Nat)
      /\ p.topic \in Nat /\ p.promised \in SUBSET Nat /\ NoGap(p.got) /\ PageSize \in Nat \ {0}
      /\ p.got # << >> => p.got[Len(p.got)] = p.next - 1
      /\ \A n \in p.promised : OwedTo(p.topic, n) /\ (n >= p.next \/ n \in ToSet(p.got))
  BY <1>2, PointsClientAssumption DEF PointsInv, FetchPage, ReadingOf, Pagings
<1>4. PICK got \in Seq(Nat), m \in Nat :
        /\ got = p.got \o Page /\ m = Len(p.got) /\ Len(got) = m + k /\ DOMAIN got = 1..(m + k)
        /\ \A i \in 1..m : got[i] = p.got[i]
        /\ \A j \in (m + 1)..(m + k) : got[j] = p.next + (j - m) - 1
  <2>1. PICK m \in Nat : m = Len(p.got)
    BY <1>3
  <2>2. /\ p.got \o Page \in Seq(Nat) /\ Len(p.got \o Page) = m + k
        /\ \A i \in 1..(m + k) : (p.got \o Page)[i] = IF i <= m THEN p.got[i] ELSE Page[i - m]
    <3>1. PICK before \in Seq(Nat), page \in Seq(Nat) : before = p.got /\ page = Page
      BY <1>1, <1>3
    <3>2. /\ before \o page \in Seq(Nat)
          /\ Len(before \o page) = Len(before) + Len(page)
          /\ \A i \in 1..(Len(before) + Len(page)) : (before \o page)[i] =
               IF i <= Len(before) THEN before[i] ELSE page[i - Len(before)]
      BY ConcatProperties
    <3>3. m = Len(before) /\ k = Len(page)
      BY <1>1, <2>1, <3>1
    <3> QED BY <3>1, <3>2, <3>3
  <2>3. ASSUME NEW i \in 1..m PROVE (p.got \o Page)[i] = p.got[i]
    <3>1. i \in 1..(m + k) /\ i <= m
      OBVIOUS
    <3> QED BY <2>2, <3>1
  <2>4. ASSUME NEW j \in (m + 1)..(m + k) PROVE (p.got \o Page)[j] = p.next + (j - m) - 1
    <3>1. PICK i \in 1..k : i = j - m
      OBVIOUS
    <3>2. Page[i] = p.next + i - 1
      BY <1>1, <1>2
    <3>3. j \in 1..(m + k) /\ ~(j <= m)
      OBVIOUS
    <3>4. (p.got \o Page)[j] = IF j <= m THEN p.got[j] ELSE Page[j - m]
      BY <2>2, <3>3
    <3> QED BY <3>1, <3>2, <3>3, <3>4
  <2>5. PICK got \in Seq(Nat) : got = p.got \o Page
    BY <2>2
  <2>6. DOMAIN got = 1..(m + k) /\ Len(got) = m + k
    BY <2>2, <2>5
  <2> QED BY <2>1, <2>3, <2>4, <2>5, <2>6
<1>5. PICK next \in Nat \ {0}, step \in {"page", "read"} :
        /\ paging' = [p EXCEPT !.got = got, !.next = next, !.step = step]
        /\ step = "page" => k = PageSize /\ next = p.next + k
        /\ step = "read" => k < PageSize
  <2>1. Len(Page) = k /\ paging' = [p EXCEPT !.got = got,
           !.next = IF k = PageSize THEN LinkAfter(Page) ELSE p.next,
           !.step = IF k = PageSize THEN "page" ELSE "read"]
    BY <1>1, <1>2, <1>4 DEF FetchPage
  <2>2. CASE k = PageSize
    <3>1. LinkAfter(Page) = p.next + k
      <4>1. k \in 1..k
        BY <1>3, <2>2
      <4>2. Page[k] = p.next + k - 1
        BY <1>1, <1>2, <4>1
      <4>3. LinkAfter(Page) = Page[k] + 1
        BY <2>1 DEF LinkAfter
      <4>4. k \in Nat /\ p.next \in Nat
        BY <1>3
      <4> QED BY <4>2, <4>3, <4>4
    <3>2. paging' = [p EXCEPT !.got = got, !.next = p.next + k, !.step = "page"]
      BY <2>1, <2>2, <3>1
    <3>3. PICK next \in Nat \ {0} : next = p.next + k
      BY <1>3
    <3>4. "page" \in {"page", "read"}
      OBVIOUS
    <3> QED BY <2>2, <3>2, <3>3, <3>4
  <2>3. CASE k < PageSize
    <3>1. k # PageSize
      BY <1>3, <2>3
    <3>2. paging' = [p EXCEPT !.got = got, !.next = p.next, !.step = "read"]
      BY <2>1, <3>1
    <3>3. "read" \in {"page", "read"} /\ "read" # "page"
      OBVIOUS
    <3> QED BY <1>3, <2>3, <3>2, <3>3
  <2>4. k \in Nat /\ PageSize \in Nat /\ k <= PageSize
    BY <1>1, <1>3
  <2>5. k = PageSize \/ k < PageSize
    BY <2>4
  <2> QED BY <2>2, <2>3, <2>5
<1>6. /\ paging' \in Pagings /\ paging'.got = got /\ paging'.next = next /\ paging'.step = step
      /\ paging'.topic = p.topic /\ paging'.promised = p.promised
  BY <1>5 DEF Pagings
<1>7. NoGap(got)
  <2>0. Len(got) - 1 = m + k - 1
    BY <1>4
  <2> SUFFICES ASSUME NEW i \in 1..(m + k - 1) PROVE got[i + 1] = got[i] + 1
    BY <2>0 DEF NoGap
  <2>1. CASE i < m
    <3>1. i \in 1..m /\ i + 1 \in 1..m /\ i \in 1..(m - 1)
      BY <2>1
    <3> QED BY <1>3, <1>4, <3>1 DEF NoGap
  <2>2. CASE i = m
    <3>1. p.got # << >> /\ m \in 1..m /\ m + 1 \in (m + 1)..(m + k)
      BY <1>4, <2>2
    <3>2. got[m] = p.next - 1
      BY <1>3, <1>4, <3>1
    <3>3. got[m + 1] = p.next + ((m + 1) - m) - 1
      BY <1>4, <3>1
    <3> QED BY SMTT(30), <1>3, <2>2, <3>2, <3>3
  <2>3. CASE i > m
    <3>1. i \in (m + 1)..(m + k) /\ i + 1 \in (m + 1)..(m + k)
      BY <2>3
    <3>2. got[i] = p.next + (i - m) - 1 /\ got[i + 1] = p.next + ((i + 1) - m) - 1
      BY <1>4, <3>1
    <3> QED BY <1>3, <3>2
  <2> QED BY <2>1, <2>2, <2>3
<1>8. \A n \in Nat : n \in ToSet(p.got) => n \in ToSet(got)
  <2>1. ASSUME NEW n \in ToSet(p.got) PROVE n \in ToSet(got)
    <3>1. PICK i \in 1..m : n = p.got[i]
      BY <1>3, <1>4, <2>1 DEF ToSet
    <3>2. i \in DOMAIN got /\ got[i] = n
      BY <1>4, <3>1
    <3> QED BY <3>2 DEF ToSet
  <2> QED BY <2>1
<1>9. ASSUME NEW n \in Nat, n >= p.next, n < p.next + k PROVE n \in ToSet(got)
  <2>1. PICK j \in (m + 1)..(m + k) : n = p.next + (j - m) - 1
    <3>1. (n - p.next) + 1 + m \in (m + 1)..(m + k) /\ n = p.next + (((n - p.next) + 1 + m) - m) - 1
      BY SMTT(30), <1>3, <1>9
    <3> QED BY <3>1
  <2>2. j \in DOMAIN got /\ got[j] = n
    BY SMTT(30), <1>4, <2>1
  <2> QED BY <2>2 DEF ToSet
<1>10. ASSUME step = "page"
       PROVE  /\ got # << >> => got[Len(got)] = next - 1
              /\ \A n \in p.promised : n >= next \/ n \in ToSet(got)
  <2>1. k \in 1..k /\ next = p.next + k
    BY <1>3, <1>5, <1>10
  <2>2. got[Len(got)] = next - 1
    <3>1. m + k \in (m + 1)..(m + k) /\ Len(got) = m + k
      BY <1>4, <2>1
    <3>2. got[m + k] = p.next + ((m + k) - m) - 1
      BY <1>4, <3>1
    <3> QED BY SMTT(30), <1>3, <2>1, <3>1, <3>2
  <2>3. ASSUME NEW n \in p.promised PROVE n >= next \/ n \in ToSet(got)
    <3>1. n \in Nat /\ (n >= p.next \/ n \in ToSet(p.got))
      BY <1>3
    <3> QED BY <1>3, <1>8, <1>9, <2>1, <3>1
  <2> QED BY <2>2, <2>3
<1>11. ASSUME step = "read" PROVE \A n \in p.promised : n \in ToSet(got)
  <2> SUFFICES ASSUME NEW n \in p.promised PROVE n \in ToSet(got)
    OBVIOUS
  <2>1. n \in Nat /\ (n >= p.next \/ n \in ToSet(p.got)) /\ n <= ingested[p.topic]
    BY <1>3 DEF OwedTo
  <2>2. n >= p.next => n < p.next + k
    BY <1>1, <1>2, <1>3, <1>5, <1>11, <2>1
  <2> QED BY <1>8, <1>9, <2>1, <2>2
<1>12. UNCHANGED <<sent, ingested, publicId, registryId, pointsCall>>
  BY DEF FetchPage, Keeps
<1>13. \A n \in p.promised : OwedTo(p.topic, n)'
  BY <1>3, <1>12 DEF OwedTo
<1>14. ReadingOf(paging)'
  BY <1>3, <1>5, <1>6, <1>7, <1>10, <1>11, <1>12, <1>13 DEF ReadingOf
<1>15. PointsTypeOK'
  BY <1>6, <1>12 DEF PointsInv, PointsTypeOK
<1>16. \A c \in PointsCallers : CallSent(c)'
  BY <1>12 DEF PointsInv, CallSent
<1> QED BY <1>14, <1>15, <1>16 DEF PointsInv

(***************************************************************************)
(* Steps that leave the calls alone.                                       *)
(***************************************************************************)
LEMMA CallsStay ==
  ASSUME PointsInv, PointsTypeOK', SentKept, UNCHANGED <<pointsCall, paging>>
  PROVE  PointsInv'
<1>1. DoneFixed
  BY DEF DoneFixed
<1>2. PICK p : p = paging
  OBVIOUS
<1>3. ReadingOf(p)'
  BY <1>1, <1>2, ReadStays DEF PointsInv, PointsTypeOK
<1>4. ReadingOf(paging)'
  BY <1>2, <1>3 DEF ReadingOf
<1> QED BY <1>4, CallStaysSent DEF PointsInv

LEMMA ReaderMoves ==
  ASSUME PointsInv, Keeps, UNCHANGED pointsCall, paging' \in Pagings, ReadingOf(paging)'
  PROVE  PointsInv'
<1>1. PointsTypeOK'
  BY DEF PointsInv, PointsTypeOK, Keeps
<1>2. \A c \in PointsCallers : CallSent(c)'
  BY DEF PointsInv, CallSent, Keeps
<1> QED BY <1>1, <1>2 DEF PointsInv

LEMMA TopicActions ==
  ASSUME PointsInv, \/ CreatePublicTopic \/ CreateRegistryTopic
                    \/ \E t \in PointsTopics : SetTopicID(t) \/ Ingest(t)
  PROVE  PointsInv'
<1>0. PointsTypeOK
  BY DEF PointsInv
<1>1. CASE CreatePublicTopic \/ CreateRegistryTopic
  <2>1. CreateTopic /\ UNCHANGED <<pointsCall, paging>>
    BY <1>1 DEF CreatePublicTopic, CreateRegistryTopic
  <2>2. /\ sent' \in Seq(Seq(PointsCallers)) /\ Len(sent') >= 2 /\ Len(sent') \in Nat
        /\ ingested' \in Seq(Nat) /\ Len(ingested') = Len(sent')
        /\ \A t \in DOMAIN sent' : ingested'[t] <= Len(sent'[t])
        /\ DOMAIN sent \subseteq DOMAIN sent' /\ Len(sent') \in DOMAIN sent'
        /\ SentKept
    BY <1>0, <2>1, SentGrows
  <2>3. publicId' \in DOMAIN sent' /\ registryId' \in DOMAIN sent'
    BY <1>0, <1>1, <2>2
       DEF PointsTypeOK, CreatePublicTopic, CreateRegistryTopic, SetsPublicId, SetsRegistryId
  <2>4. pointsCall' \in [PointsCallers -> PointsCalls] /\ paging' \in Pagings
    BY <1>0, <2>1 DEF PointsTypeOK
  <2>5. PointsTypeOK'
    BY <2>2, <2>3, <2>4 DEF PointsTypeOK
  <2> QED BY <2>1, <2>2, <2>5, CallsStay
<1>2. ASSUME NEW t \in PointsTopics, SetTopicID(t) PROVE PointsInv'
  <2>1. PointsTypeOK' /\ UNCHANGED <<sent, ingested, pointsCall, paging>>
    BY <1>0, <1>2 DEF PointsTypeOK, SetTopicID, SetsPublicId, SetsRegistryId, PointsTopics
  <2>2. SentKept
    BY <1>0, <2>1, SentStays
  <2> QED BY <2>1, <2>2, CallsStay
<1>3. ASSUME NEW t \in PointsTopics, Ingest(t) PROVE PointsInv'
  <2>0. PICK s \in Seq(Seq(PointsCallers)), g \in Seq(Nat), len \in Nat :
           /\ s = sent /\ g = ingested /\ len = Len(s) /\ len = Len(g) /\ len >= 2 /\ DOMAIN s = 1..len
           /\ \A j \in 1..len : /\ s[j] \in Seq(PointsCallers) /\ Len(s[j]) \in Nat
                                /\ g[j] \in Nat /\ g[j] <= Len(s[j])
    BY <1>0, TopicsTyped
  <2>1. PICK n \in Nat : g = ingested /\ n = g[t] /\ t \in 1..Len(g) /\ n < Len(s[t])
    BY <1>3, <2>0 DEF PointsTopics, Ingest
  <2>2. ingested' = [g EXCEPT ![t] = n + 1] /\ UNCHANGED <<sent, publicId, registryId, pointsCall, paging>>
    BY <1>3, <2>1 DEF Ingest
  <2>3. n + 1 \in Nat
    OBVIOUS
  <2>4. /\ ingested' \in Seq(Nat) /\ Len(ingested') = Len(g)
        /\ \A j \in 1..Len(g) : ingested'[j] = IF j = t THEN n + 1 ELSE g[j]
    BY <2>1, <2>2, <2>3, ExceptSeq
  <2>5. DOMAIN sent = 1..Len(g)
    BY <2>0
  <2>6. ASSUME NEW j \in DOMAIN sent PROVE ingested'[j] <= Len(sent[j]) /\ g[j] <= ingested'[j]
    <3>1. j \in 1..Len(g) /\ g[j] \in Nat /\ g[j] <= Len(s[j]) /\ Len(s[j]) \in Nat
      BY <2>0, <2>5
    <3>2. CASE j = t
      <4>1. ingested'[j] = n + 1 /\ n < Len(s[j]) /\ n = g[j]
        BY <2>1, <2>4, <3>1, <3>2
      <4>2. n + 1 <= Len(s[j]) /\ g[j] <= n + 1
        BY <3>1, <4>1
      <4> QED BY <2>0, <4>1, <4>2
    <3>3. CASE j # t
      <4>1. ingested'[j] = g[j]
        BY <2>4, <3>1, <3>3
      <4> QED BY <2>0, <3>1, <4>1
    <3> QED BY <3>2, <3>3
  <2>7. SentKept
    BY <2>1, <2>2, <2>6 DEF SentKept
  <2>8. PointsTypeOK'
    BY <1>0, <2>1, <2>2, <2>4, <2>6 DEF PointsTypeOK
  <2> QED BY <2>2, <2>7, <2>8, CallsStay
<1> QED BY <1>1, <1>2, <1>3

(***************************************************************************)
(* A call begins, with the topic that was given or one of the client's.    *)
(***************************************************************************)
LEMMA StartsKeep ==
  ASSUME PointsInv, NEW c \in PointsCallers, pointsCall[c].step = "idle",
         NEW step \in {"create", "submit"}, NEW t \in Nat, Starts(c, step, t),
         step = "submit" => t \in DOMAIN sent
  PROVE  PointsInv'
<1>1. PICK call \in PointsCalls : call = pointsCall[c]
  BY DEF PointsInv, PointsTypeOK
<1>2. PICK waits \in BOOLEAN : Becomes(c, [call EXCEPT !.step = step, !.topic = t, !.waits = waits]) /\ Keeps
  BY <1>1 DEF Starts
<1>3. step \in PointsSteps
  BY DEF PointsSteps
<1>4. PICK next \in PointsCalls : next = [call EXCEPT !.step = step, !.topic = t, !.waits = waits]
  BY <1>3, CallsTyped
<1>5. next.step = step /\ next.topic = t /\ Becomes(c, next)
  BY <1>2, <1>4 DEF PointsCalls
<1>6. pointsCall[c].step # "done" /\ step \notin {"wait", "done"}
  OBVIOUS
<1> QED BY <1>2, <1>5, <1>6, CallerGoesOn

LEMMA CallsBegin ==
  ASSUME PointsInv, NEW c \in PointsCallers, pointsCall[c].step = "idle",
         \/ DeployPoints(c) \/ RegisterTopic(c)
         \/ \E t \in PointsTopics : MintPoints(c, t) \/ TransferPoints(c, t) \/ BurnPoints(c, t)
  PROVE  PointsInv'
<1>1. publicId \in DOMAIN sent /\ registryId \in DOMAIN sent /\ \A t \in DOMAIN sent : t \in Nat
  BY DEF PointsInv, PointsTypeOK
<1>2. CASE DeployPoints(c)
  <2>1. CASE Starts(c, "create", 0)
    BY <2>1, StartsKeep
  <2>2. CASE Starts(c, "submit", publicId)
    <3>1. PICK t \in DOMAIN sent : t = publicId
      BY <1>1
    <3>2. Starts(c, "submit", t)
      BY <2>2, <3>1
    <3> QED BY <1>1, <3>2, StartsKeep
  <2> QED BY <1>2, <2>1, <2>2 DEF DeployPoints
<1>3. CASE RegisterTopic(c)
  <2>1. PICK t \in DOMAIN sent : t = registryId
    BY <1>1
  <2>2. Starts(c, "submit", t)
    BY <1>3, <2>1 DEF RegisterTopic
  <2> QED BY <1>1, <2>2, StartsKeep
<1>4. ASSUME NEW t \in PointsTopics, MintPoints(c, t) PROVE PointsInv'
  BY <1>1, <1>4, StartsKeep DEF MintPoints, PointsTopics
<1>5. ASSUME NEW t \in PointsTopics, SpendPoints(c, t) PROVE PointsInv'
  <2>1. PICK call \in PointsCalls : call = pointsCall[c]
    BY DEF PointsInv, PointsTypeOK
  <2>2. PICK own \in BOOLEAN, waits \in BOOLEAN :
          Becomes(c, [call EXCEPT !.step = "payer", !.topic = t, !.own = own, !.waits = waits]) /\ Keeps
    BY <1>5, <2>1 DEF SpendPoints
  <2>3. "payer" \in PointsSteps /\ t \in Nat /\ t \in DOMAIN sent
    BY <1>1 DEF PointsSteps, PointsTopics
  <2>4. PICK next \in PointsCalls :
          next = [call EXCEPT !.step = "payer", !.topic = t, !.own = own, !.waits = waits]
    BY <2>3, CallsTyped
  <2>5. next.step = "payer" /\ next.topic = t /\ Becomes(c, next)
    BY <2>2, <2>4 DEF PointsCalls
  <2>6. pointsCall[c].step # "done"
    OBVIOUS
  <2> QED BY <2>2, <2>3, <2>5, <2>6, CallerGoesOn
<1> QED BY <1>2, <1>3, <1>4, <1>5 DEF TransferPoints, BurnPoints

(***************************************************************************)
(* The message reaches its topic; the receipt may be lost.                 *)
(***************************************************************************)
LEMMA SubmitKeeps ==
  ASSUME PointsInv, NEW c \in PointsCallers, SubmitTransaction(c)
  PROVE  PointsInv'
<1>1. PICK t \in DOMAIN sent : t = pointsCall[c].topic
  BY DEF PointsInv, CallSent, SubmitTransaction
<1>0. PICK s \in Seq(Seq(PointsCallers)), g \in Seq(Nat), n \in Nat :
        /\ s = sent /\ g = ingested /\ n = Len(s) /\ n = Len(g) /\ n >= 2 /\ DOMAIN s = 1..n
        /\ \A j \in 1..n : /\ s[j] \in Seq(PointsCallers) /\ Len(s[j]) \in Nat
                           /\ g[j] \in Nat /\ g[j] <= Len(s[j])
  BY TopicsTyped DEF PointsInv
<1>2. PICK l \in Seq(PointsCallers) : s = sent /\ l = s[t] /\ t \in 1..Len(s) /\ Len(s) >= 2
  BY <1>0, <1>1
<1>3. PICK longer \in Seq(PointsCallers) :
        /\ longer = Append(l, c) /\ Len(longer) = Len(l) + 1
        /\ \A i \in 1..Len(l) : longer[i] = l[i]
        /\ longer[Len(l) + 1] = c
  <2>1. /\ Append(l, c) \in Seq(PointsCallers) /\ Len(Append(l, c)) = Len(l) + 1
        /\ \A i \in 1..Len(l) : Append(l, c)[i] = l[i]
        /\ Append(l, c)[Len(l) + 1] = c
    BY <1>2, AppendProperties
  <2> QED BY <2>1
<1>4. sent' = [s EXCEPT ![t] = longer] /\ UNCHANGED <<ingested, publicId, registryId>>
  BY <1>1, <1>2, <1>3 DEF SubmitTransaction
<1>5. /\ sent' \in Seq(Seq(PointsCallers)) /\ Len(sent') = Len(s)
      /\ \A j \in 1..Len(s) : sent'[j] = IF j = t THEN longer ELSE s[j]
  BY <1>2, <1>3, <1>4, ExceptSeq
<1>6. DOMAIN sent' = DOMAIN s
  BY <1>2, <1>4
<1>7. g = ingested /\ Len(g) = Len(s) /\ \A j \in 1..Len(s) : g[j] \in Nat /\ g[j] <= Len(s[j])
  BY <1>0
<1>8. Len(l) \in Nat /\ DOMAIN l = 1..Len(l) /\ DOMAIN longer = 1..(Len(l) + 1) /\ Len(l) + 1 \in 1..(Len(l) + 1)
  BY <1>2, <1>3
<1>9. ASSUME NEW j \in 1..Len(s) PROVE g[j] \in Nat /\ g[j] <= Len(sent'[j])
                                     /\ \A i \in DOMAIN s[j] : i \in DOMAIN sent'[j] /\ sent'[j][i] = s[j][i]
  <2>1. g[j] \in Nat /\ g[j] <= Len(s[j])
    BY <1>7
  <2>2. CASE j = t
    <3>1. sent'[j] = longer /\ s[j] = l
      BY <1>2, <1>5, <2>2
    <3>2. g[j] <= Len(l) + 1
      BY <1>8, <2>1, <3>1
    <3>3. \A i \in DOMAIN l : i \in DOMAIN longer /\ longer[i] = l[i]
      BY <1>3, <1>8
    <3> QED BY <1>3, <2>1, <3>1, <3>2, <3>3
  <2>3. CASE j # t
    BY <1>5, <2>1, <2>3
  <2> QED BY <2>2, <2>3
<1>10. SentKept
  BY SMTT(30), <1>2, <1>4, <1>6, <1>7, <1>9 DEF SentKept
<1>11. PICK call \in PointsCalls : call = pointsCall[c] /\ call.step = "submit" /\ call.topic = t
  BY <1>1 DEF PointsInv, PointsTypeOK, SubmitTransaction
<1>12. Len(sent'[t]) = Len(l) + 1 /\ sent'[t] = longer
  BY <1>2, <1>3, <1>5
<1>13. PICK next \in PointsCalls :
         /\ Becomes(c, next)
         /\ \/ next.step = "failed"
            \/ /\ next.step = (IF call.waits THEN "wait" ELSE "done") /\ next.seq = Len(l) + 1
               /\ next.topic = t /\ (next.waits <=> call.waits)
  <2>1. "failed" \in PointsSteps /\ "wait" \in PointsSteps /\ "done" \in PointsSteps /\ Len(l) + 1 \in Nat
    BY <1>8 DEF PointsSteps
  <2>2. CASE GivesUp(c)
    <3>1. PICK next \in PointsCalls : next = [call EXCEPT !.step = "failed"]
      BY <2>1, CallsTyped
    <3>2. Becomes(c, next) /\ next.step = "failed"
      BY <1>11, <2>2, <3>1 DEF GivesUp, PointsCalls
    <3> QED BY <3>2
  <2>3. CASE Becomes(c, [call EXCEPT !.step = IF call.waits THEN "wait" ELSE "done", !.seq = Len(l) + 1])
    <3>1. PICK step \in PointsSteps : step = IF call.waits THEN "wait" ELSE "done"
      BY <2>1
    <3>2. PICK next \in PointsCalls : next = [call EXCEPT !.step = step, !.seq = Len(l) + 1]
      BY <2>1, CallsTyped
    <3>3. Becomes(c, next) /\ next.step = step /\ next.seq = Len(l) + 1 /\ next.topic = t
      BY <1>11, <2>3, <3>1, <3>2 DEF PointsCalls
    <3>4. next.waits <=> call.waits
      BY <3>2 DEF PointsCalls
    <3> QED BY <3>1, <3>3, <3>4
  <2> QED BY <1>1, <1>11, <1>12, <2>2, <2>3 DEF SubmitTransaction
<1>14. pointsCall'[c] = next /\ pointsCall' \in [PointsCallers -> PointsCalls] /\ paging' = paging
  BY <1>13 DEF PointsInv, PointsTypeOK, Becomes
<1>15. CallSent(c)'
  <2>1. CASE next.step = "failed"
    BY <1>14, <2>1 DEF CallSent
  <2>2. CASE next.step # "failed"
    <3>1. /\ next.step \in {"wait", "done"} /\ next.seq = Len(l) + 1 /\ next.topic = t
          /\ (next.step = "done" => ~next.waits)
      BY <1>13, <2>2
    <3>2. t \in DOMAIN sent' /\ next.seq \in DOMAIN sent'[t] /\ sent'[t][next.seq] = c
      BY <1>1, <1>2, <1>3, <1>6, <1>8, <1>12, <3>1
    <3> QED BY <1>14, <3>1, <3>2 DEF CallSent
  <2> QED BY <2>1, <2>2
<1>16. publicId' \in DOMAIN sent' /\ registryId' \in DOMAIN sent'
  BY <1>2, <1>4, <1>6 DEF PointsInv, PointsTypeOK
<1>17. ingested' \in Seq(Nat) /\ Len(ingested') = Len(sent') /\ Len(sent') >= 2
       /\ \A j \in DOMAIN sent' : ingested'[j] <= Len(sent'[j])
  BY <1>2, <1>4, <1>5, <1>6, <1>7, <1>9
<1>18. paging' \in Pagings
  BY <1>14 DEF PointsInv, PointsTypeOK
<1>19. PointsTypeOK'
  BY <1>5, <1>14, <1>16, <1>17, <1>18 DEF PointsTypeOK
<1>20. pointsCall[c].step # "done"
  BY <1>11
<1> QED BY <1>10, <1>13, <1>15, <1>19, <1>20, OneCallerMoves

LEMMA CallsGoOn ==
  ASSUME PointsInv, NEW c \in PointsCallers,
         CreatePrivateTopic(c) \/ PayerCheck(c) \/ CallFails(c) \/ WaitForMirror(c)
  PROVE  PointsInv'
<1>0. PointsTypeOK
  BY DEF PointsInv
<1>1. PICK call \in PointsCalls : call = pointsCall[c]
  BY <1>0 DEF PointsTypeOK
<1>s. "submit" \in PointsSteps /\ "failed" \in PointsSteps /\ "done" \in PointsSteps
  BY DEF PointsSteps
<1>2. CASE CreatePrivateTopic(c)
  <2>1. CreateTopic /\ UNCHANGED <<publicId, registryId>> /\ call.step = "create"
    BY <1>1, <1>2 DEF CreatePrivateTopic
  <2>2. /\ sent' \in Seq(Seq(PointsCallers)) /\ Len(sent') >= 2 /\ Len(sent') \in Nat
        /\ ingested' \in Seq(Nat) /\ Len(ingested') = Len(sent')
        /\ \A t \in DOMAIN sent' : ingested'[t] <= Len(sent'[t])
        /\ DOMAIN sent \subseteq DOMAIN sent' /\ Len(sent') \in DOMAIN sent'
        /\ SentKept
    BY <1>0, <2>1, SentGrows
  <2>3. PICK t \in Nat : t = Len(sent') /\ t \in DOMAIN sent'
    BY <2>2
  <2>4. PICK next \in PointsCalls : Becomes(c, next) /\ (next.step = "failed" \/ (next.step = "submit" /\ next.topic = t))
    <3>1. CASE GivesUp(c)
      <4>1. PICK next \in PointsCalls : next = [call EXCEPT !.step = "failed"]
        BY <1>s, CallsTyped
      <4>2. Becomes(c, next) /\ next.step = "failed"
        BY <1>1, <3>1, <4>1 DEF GivesUp, PointsCalls
      <4> QED BY <4>2
    <3>2. CASE Becomes(c, [call EXCEPT !.step = "submit", !.topic = t])
      <4>1. PICK next \in PointsCalls : next = [call EXCEPT !.step = "submit", !.topic = t]
        BY <1>s, CallsTyped
      <4>2. Becomes(c, next) /\ next.step = "submit" /\ next.topic = t
        BY <3>2, <4>1 DEF PointsCalls
      <4> QED BY <4>2
    <3> QED BY <1>1, <1>2, <2>3, <3>1, <3>2 DEF CreatePrivateTopic
  <2>5. pointsCall'[c] = next /\ pointsCall' \in [PointsCallers -> PointsCalls] /\ paging' = paging
    BY <1>0, <2>4 DEF PointsTypeOK, Becomes
  <2>6. CallSent(c)'
    BY <2>3, <2>4, <2>5 DEF CallSent
  <2>7. paging' \in Pagings /\ publicId' \in DOMAIN sent' /\ registryId' \in DOMAIN sent'
    BY <1>0, <2>1, <2>2, <2>5 DEF PointsTypeOK
  <2>8. PointsTypeOK'
    BY <2>2, <2>5, <2>7 DEF PointsTypeOK
  <2>9. pointsCall[c].step # "done"
    BY <1>1, <2>1
  <2> QED BY <2>2, <2>4, <2>6, <2>8, <2>9, OneCallerMoves
<1>3. CASE PayerCheck(c)
  <2>1. PICK step \in {"failed", "submit"} :
          Becomes(c, [call EXCEPT !.step = step, !.own = TRUE]) /\ Keeps /\ call.step = "payer"
    BY <1>1, <1>3 DEF PayerCheck
  <2>2. PICK next \in PointsCalls : next = [call EXCEPT !.step = step, !.own = TRUE]
    BY <1>s, CallsTyped
  <2>3. next.step = step /\ next.topic = call.topic /\ Becomes(c, next)
    BY <2>1, <2>2 DEF PointsCalls
  <2>4. call.topic \in DOMAIN sent /\ pointsCall[c].step # "done"
    BY <1>1, <2>1 DEF PointsInv, CallSent
  <2> QED BY <2>1, <2>3, <2>4, CallerGoesOn
<1>4. CASE CallFails(c)
  <2>1. PICK next \in PointsCalls : next = [call EXCEPT !.step = "failed"]
    BY <1>s, CallsTyped
  <2>2. Becomes(c, next) /\ next.step = "failed" /\ Keeps /\ pointsCall[c].step # "done"
    BY <1>1, <1>4, <2>1 DEF CallFails, GivesUp, PointsCalls
  <2> QED BY <2>2, CallerGoesOn
<1>5. CASE WaitForMirror(c)
  <2>1. PICK next \in PointsCalls : next = [call EXCEPT !.step = "done"]
    BY <1>s, CallsTyped
  <2>2. /\ Becomes(c, next) /\ next.step = "done" /\ next.topic = call.topic /\ next.seq = call.seq /\ Keeps
        /\ call.step = "wait" /\ call.seq <= ingested[call.topic]
    BY <1>1, <1>5, <2>1 DEF WaitForMirror, Found, PointsCalls
  <2>3. /\ call.topic \in DOMAIN sent /\ pointsCall[c].step # "done"
        /\ call.seq \in DOMAIN sent[call.topic] /\ sent[call.topic][call.seq] = c
    BY <1>1, <2>2 DEF PointsInv, CallSent
  <2> QED BY <2>2, <2>3, CallerGoesOn
<1> QED BY <1>2, <1>3, <1>4, <1>5

(***************************************************************************)
(* A read begins: what it owes has been sent and is on the mirror node.    *)
(***************************************************************************)
LEMMA ReadBegins ==
  ASSUME PointsInv, NEW t \in PointsTopics, NEW cursor \in 0..ingested[t], GetTopicMessages(t, cursor)
  PROVE  PointsInv'
<1>1. t \in Nat /\ t \in DOMAIN sent /\ cursor \in Nat
  BY DEF PointsInv, PointsTypeOK, PointsTopics
<1>2. ASSUME NEW n \in Promised(t) PROVE n \in Nat /\ OwedTo(t, n)
  <2>1. PICK c \in PointsCallers : /\ n = pointsCall[c].seq /\ pointsCall[c].step = "done"
                                   /\ pointsCall[c].waits /\ pointsCall[c].topic = t
    BY <1>2 DEF Promised
  <2>2. n \in DOMAIN sent[t] /\ sent[t][n] = c /\ n <= ingested[t]
    BY <2>1 DEF PointsInv, CallSent
  <2>3. n \in Nat
    BY <2>1 DEF PointsInv, PointsTypeOK, PointsCalls
  <2> QED BY <2>1, <2>2, <2>3 DEF OwedTo
<1>3. PICK owed \in SUBSET Nat : owed = {n \in Promised(t) : n > cursor}
  BY <1>2
<1>4. paging' = [step |-> "page", topic |-> t, next |-> cursor + 1, got |-> << >>, promised |-> owed]
  BY <1>3 DEF GetTopicMessages
<1>5. paging' \in Pagings
  BY <1>1, <1>4 DEF Pagings
<1>6. Keeps /\ UNCHANGED pointsCall
  BY DEF GetTopicMessages
<1>7. \A n \in owed : OwedTo(t, n)' /\ n >= cursor + 1
  <2>1. \A n \in owed : OwedTo(t, n) /\ n \in Nat /\ n > cursor
    BY <1>2, <1>3
  <2>2. \A n \in owed : OwedTo(t, n)'
    BY <1>6, <2>1 DEF OwedTo, Keeps
  <2> QED BY <1>1, <2>1, <2>2
<1>8. NoGap(<< >>)
  BY DEF NoGap
<1>9. t \in DOMAIN sent' /\ cursor + 1 # 0
  BY <1>1, <1>6 DEF Keeps
<1>10. /\ paging'.step = "page" /\ paging'.topic = t /\ paging'.next = cursor + 1 /\ paging'.got = << >>
       /\ paging'.promised = owed
  BY <1>4
<1>11. ReadingOf(paging)'
  BY <1>7, <1>8, <1>9, <1>10 DEF ReadingOf, NoGap
<1> QED BY <1>5, <1>6, <1>11, ReaderMoves

LEMMA PointsStep == PointsInv /\ [PointsNext]_pointsVars => PointsInv'
<1> SUFFICES ASSUME PointsInv, [PointsNext]_pointsVars PROVE PointsInv'
  OBVIOUS
<1>1. CASE UNCHANGED pointsVars
  <2>1. UNCHANGED <<sent, ingested, publicId, registryId, pointsCall, paging>>
    BY <1>1 DEF pointsVars
  <2>2. PointsTypeOK'
    BY <2>1 DEF PointsInv, PointsTypeOK
  <2>3. SentKept
    BY <2>1, SentStays DEF PointsInv
  <2> QED BY <2>1, <2>2, <2>3, CallsStay
<1>2. CASE EndRead
  <2>1. paging' \in Pagings /\ paging'.step = "idle" /\ Keeps /\ UNCHANGED pointsCall
    BY <1>2 DEF EndRead, NoPage, Pagings
  <2>2. ReadingOf(paging)'
    BY <2>1 DEF ReadingOf
  <2> QED BY <2>1, <2>2, ReaderMoves
<1> QED BY <1>1, <1>2, TopicActions, CallsBegin, CallsGoOn, SubmitKeeps, FetchKeeps, ReadBegins
     DEF PointsNext

(***************************************************************************)
(* For any callers, topics and page size, what a call has put on a topic   *)
(* and waited for is in every read that begins later, in its place and     *)
(* without a gap.                                                          *)
(***************************************************************************)
THEOREM SuccessfulCallsAreRead == PointsClientSpec => []SuccessIsReadable
<1>1. PointsInv => SuccessIsReadable
  BY DEF PointsInv, ReadingOf, NoGap, OwedTo, SuccessIsReadable
<1> QED BY <1>1, PointsInitInv, PointsStep, PTL DEF PointsClientSpec

-----------------------------------------------------------------------------
(***************************************************************************)
(* HCS-26: what resolves is the skill of a moment of the call.             *)
(***************************************************************************)
Records26 == [op : {"register", "update", "delete"}, uid : 0..2,
              metadata : {"named", "none", "patched", "unreadable"}, account : {"none", "a1", "a2"}]
Versions26 == [op : {"register", "update", "delete"}, uid : 0..2, skill : {1, 2},
               version : (0..3) \X (0..9), checksum : {"none", "h1", "h2", "garbled"},
               hrl : {"none", "topic", "legacy", "badHRL"},
               status : {"none", "active", "deprecated"}]
Manifests == {"h1", "h2", "invalid"}

TopicsOK ==
  /\ directory \in Seq(Records26) /\ directory # << >>
  /\ directory[1] = DiscoveryRegister("named")
  /\ \A i \in DOMAIN directory : directory[i].account \in {"none", "a2"} \/ i = 1
  /\ versions \in Seq(Versions26) /\ versions # << >>
  /\ manifests \in Seq(Manifests)

AnyVersion == ((0..3) \X (0..9)) \cup {<< >>}

Resolutions == [pc : {"scan", "versions", "manifest", "done"}, result : {"none", "error", "absent", "skill"},
                account : {"none", "a1", "a2"}, metadata : {"named", "none", "patched", "unreadable"},
                began : Nat \X Nat \X Nat, version : AnyVersion, at : Nat,
                checksum : {"none", "h1", "h2", "garbled"}, manifest : Manifests \cup {"none"}]

(***************************************************************************)
(* What has been found is not older than the call.                         *)
(***************************************************************************)
BeganBefore(d, v) == d \in 1..Len(directory) /\ v \in 1..Len(versions)

AccountSet(d) == \E i \in 1..d : Updates(i) /\ directory[i].account # "none"

DirectoryCurrent(d, account) ==
  /\ \A i \in 1..d : ~Deletes(i)
  /\ AccountSet(d) => account = "a2"

Active26(i) ==
  versions[i].op = "register" /\ versions[i].skill = Uid /\ versions[i].status = "active" /\ Untouched(i)

VersionCurrent(v, at, version, checksum) ==
  /\ at \in DOMAIN versions /\ checksum = versions[at].checksum
  /\ \A i \in 1..v : Active26(i) => ~CompareSemver(version, versions[i].version)

CallCurrent ==
  /\ resolve26.pc \in {"scan", "versions", "manifest"} =>
       resolve26 \in Resolutions /\ resolve26.result = "none"
  /\ resolve26.pc \in {"scan", "versions", "manifest"} \/ resolve26.result = "skill" =>
       BeganBefore(resolve26.began[1], resolve26.began[2])
  /\ resolve26.pc \in {"versions", "manifest"} \/ resolve26.result = "skill" =>
       DirectoryCurrent(resolve26.began[1], resolve26.account)
  /\ resolve26.pc = "manifest" =>
       VersionCurrent(resolve26.began[2], resolve26.at, resolve26.version, resolve26.checksum)
  /\ resolve26.result = "skill" =>
       \E checksum \in {"none", resolve26.manifest} :
         VersionCurrent(resolve26.began[2], resolve26.at, resolve26.version, checksum)

SkillInv == TopicsOK /\ CallCurrent

LEMMA SkillInitInv == SkillInit => SkillInv
<1> SUFFICES ASSUME SkillInit PROVE SkillInv
  OBVIOUS
<1>1. DiscoveryRegister("named") \in Records26 /\ VersionRegister(1, 0, "h1", "topic") \in Versions26
  BY DEF DiscoveryRegister, VersionRegister, Records26, Versions26, Uid
<1>2. directory = <<DiscoveryRegister("named")>> /\ versions = <<VersionRegister(1, 0, "h1", "topic")>>
  BY DEF SkillInit
<1>4. manifests \in Seq(Manifests)
  BY DEF SkillInit, Manifests
<1>5. /\ DOMAIN directory = {1} /\ DOMAIN versions = {1}
      /\ directory \in Seq(Records26) /\ versions \in Seq(Versions26)
      /\ directory # << >> /\ versions # << >>
  BY <1>1, <1>2
<1>6. TopicsOK
  BY <1>2, <1>4, <1>5 DEF TopicsOK
<1>7. resolve26.pc = "idle" /\ resolve26.result = "none"
  BY DEF SkillInit, NoSkill
<1>8. CallCurrent
  BY <1>7 DEF CallCurrent
<1> QED BY <1>6, <1>8 DEF SkillInv

(***************************************************************************)
(* What was found stays true while messages are added.                     *)
(***************************************************************************)
Grown ==
  /\ Len(directory') >= Len(directory) /\ Len(versions') >= Len(versions)
  /\ \A i \in DOMAIN directory : i \in DOMAIN directory' /\ directory'[i] = directory[i]
  /\ \A i \in DOMAIN versions : i \in DOMAIN versions' /\ versions'[i] = versions[i]

LEMMA CurrentStays ==
  ASSUME TopicsOK, TopicsOK', Grown, NEW d, NEW v, BeganBefore(d, v)
  PROVE  /\ BeganBefore(d, v)'
         /\ \A a : DirectoryCurrent(d, a) => DirectoryCurrent(d, a)'
         /\ \A at, version, checksum :
              VersionCurrent(v, at, version, checksum) => VersionCurrent(v, at, version, checksum)'
<1>1. /\ Len(directory) \in Nat /\ Len(versions) \in Nat /\ Len(directory') \in Nat /\ Len(versions') \in Nat
      /\ DOMAIN directory = 1..Len(directory) /\ DOMAIN versions = 1..Len(versions)
  BY DEF TopicsOK
<1>2. BeganBefore(d, v)'
  BY <1>1 DEF BeganBefore, Grown
<1>3. \A i \in 1..d : i \in DOMAIN directory /\ directory'[i] = directory[i]
  BY <1>1 DEF BeganBefore, Grown
<1>4. \A i \in 1..v : i \in DOMAIN versions /\ versions'[i] = versions[i]
  BY <1>1 DEF BeganBefore, Grown
<1>5. \A a : DirectoryCurrent(d, a) => DirectoryCurrent(d, a)'
  BY <1>3 DEF DirectoryCurrent, AccountSet, Deletes, Updates
<1>6. ASSUME NEW at, NEW version, NEW checksum, VersionCurrent(v, at, version, checksum)
      PROVE  VersionCurrent(v, at, version, checksum)'
  <2>1. at \in DOMAIN versions' /\ checksum = versions'[at].checksum
    BY <1>6 DEF VersionCurrent, Grown
  <2>2. \A i \in 1..v : Untouched(i)' => Untouched(i)
    BY DEF Grown, Untouched
  <2>3. \A i \in 1..v : Active26(i)' => ~CompareSemver(version, versions'[i].version)
    BY <1>4, <1>6, <2>2 DEF VersionCurrent, Active26
  <2> QED BY <2>1, <2>3 DEF VersionCurrent
<1> QED BY <1>2, <1>5, <1>6

LEMMA PublishKeeps ==
  ASSUME SkillInv, Publish26
  PROVE  SkillInv'
<1>0. TopicsOK
  BY DEF SkillInv
<1>1. PICK ds \in Seq(Records26), vs \in Seq(Versions26), ms \in Seq(Manifests) :
        ds = directory /\ vs = versions /\ ms = manifests /\ ds # << >> /\ vs # << >>
  BY <1>0 DEF TopicsOK
<1>2. /\ Len(ds) \in Nat \ {0} /\ Len(vs) \in Nat \ {0} /\ DOMAIN ds = 1..Len(ds) /\ DOMAIN vs = 1..Len(vs)
  BY <1>1
<1>3. TopicsOK' /\ Grown
  <2>1. ASSUME NEW m \in DiscoveryChange, directory' = Append(directory, m), UNCHANGED <<versions, manifests>>
        PROVE  TopicsOK' /\ Grown
    <3>1. m \in Records26 /\ m.account \in {"none", "a2"}
      BY DEF DiscoveryChange, Records26
    <3>2. /\ Append(ds, m) \in Seq(Records26) /\ Len(Append(ds, m)) = Len(ds) + 1
          /\ \A i \in 1..Len(ds) : Append(ds, m)[i] = ds[i]
          /\ Append(ds, m)[Len(ds) + 1] = m
      BY <3>1, AppendProperties
    <3>3. /\ directory' \in Seq(Records26) /\ Len(directory') = Len(ds) + 1
          /\ DOMAIN directory' = 1..(Len(ds) + 1)
          /\ \A i \in 1..Len(ds) : directory'[i] = ds[i]
          /\ directory'[Len(ds) + 1] = m
      BY <1>1, <2>1, <3>2
    <3>4. directory' # << >> /\ directory'[1] = DiscoveryRegister("named")
      BY <1>0, <1>1, <1>2, <3>3 DEF TopicsOK
    <3>5. \A i \in DOMAIN directory' : directory'[i].account \in {"none", "a2"} \/ i = 1
      BY <1>0, <1>1, <1>2, <3>1, <3>3 DEF TopicsOK
    <3>6. Len(directory') >= Len(directory) /\ \A i \in DOMAIN directory : i \in DOMAIN directory' /\ directory'[i] = directory[i]
      BY <1>1, <1>2, <3>3
    <3>7. Len(versions') >= Len(versions)
      BY <1>1, <1>2, <2>1
    <3> QED BY <1>0, <2>1, <3>3, <3>4, <3>5, <3>6, <3>7 DEF TopicsOK, Grown
  <2>2. ASSUME NEW m \in Versions26, versions' = Append(versions, m), UNCHANGED <<directory, manifests>>
        PROVE  TopicsOK' /\ Grown
    <3>2. /\ Append(vs, m) \in Seq(Versions26) /\ Len(Append(vs, m)) = Len(vs) + 1
          /\ \A i \in 1..Len(vs) : Append(vs, m)[i] = vs[i]
          /\ Append(vs, m)[Len(vs) + 1] = m
      BY AppendProperties
    <3>3. /\ versions' \in Seq(Versions26) /\ Len(versions') = Len(vs) + 1
          /\ DOMAIN versions' = 1..(Len(vs) + 1)
          /\ \A i \in 1..Len(vs) : versions'[i] = vs[i]
          /\ versions'[Len(vs) + 1] = m
      BY <1>1, <2>2, <3>2
    <3>4. versions' # << >>
      BY <1>2, <3>3
    <3>6. Len(versions') >= Len(versions) /\ \A i \in DOMAIN versions : i \in DOMAIN versions' /\ versions'[i] = versions[i]
      BY <1>1, <1>2, <3>3
    <3>7. Len(directory') >= Len(directory)
      BY <1>1, <1>2, <2>2
    <3> QED BY <1>0, <2>2, <3>3, <3>4, <3>6, <3>7 DEF TopicsOK, Grown
  <2>3. CASE UNCHANGED <<directory, versions>> /\ \E m \in Manifests : manifests' = Append(manifests, m)
    <3>1. PICK m \in Manifests : manifests' = Append(ms, m)
      BY <1>1, <2>3
    <3>2. manifests' \in Seq(Manifests)
      BY <3>1, AppendProperties
    <3>3. Len(directory') >= Len(directory) /\ Len(versions') >= Len(versions)
      BY <1>1, <1>2, <2>3
    <3> QED BY <1>0, <2>3, <3>2, <3>3 DEF TopicsOK, Grown
  <2>4. CASE UNCHANGED <<directory, manifests>>
             /\ \E m \in {VersionRegister(1, 1, "h1", "topic"), VersionRegister(0, 9, "none", "topic"),
                     VersionRegister(2, 0, "h2", "legacy"), VersionRegister(2, 0, "garbled", "topic"),
                     VersionRegister(1, 0, "none", "badHRL"),
                     [VersionRegister(3, 0, "h1", "topic") EXCEPT !.skill = 2],
                     [VersionRegister(3, 0, "h1", "topic") EXCEPT !.status = "deprecated"],
                     VersionChange("update", 1, "deprecated"), VersionChange("delete", 1, "none"),
                     VersionChange("delete", 2, "none")} :
                  versions' = Append(versions, m)
    <3>1. /\ VersionRegister(1, 1, "h1", "topic") \in Versions26
          /\ VersionRegister(0, 9, "none", "topic") \in Versions26
          /\ VersionRegister(2, 0, "h2", "legacy") \in Versions26
          /\ VersionRegister(2, 0, "garbled", "topic") \in Versions26
          /\ VersionRegister(1, 0, "none", "badHRL") \in Versions26
      BY DEF VersionRegister, Versions26, Uid
    <3>2. VersionRegister(3, 0, "h1", "topic") \in Versions26
      BY DEF VersionRegister, Versions26, Uid
    <3>3. PICK r \in Versions26 : r = VersionRegister(3, 0, "h1", "topic")
      BY <3>2
    <3>4. [r EXCEPT !.skill = 2] \in Versions26 /\ [r EXCEPT !.status = "deprecated"] \in Versions26
      BY DEF Versions26
    <3>5. /\ VersionChange("update", 1, "deprecated") \in Versions26
          /\ VersionChange("delete", 1, "none") \in Versions26
          /\ VersionChange("delete", 2, "none") \in Versions26
      BY DEF VersionChange, Versions26, Uid
    <3>6. PICK m \in Versions26 : versions' = Append(versions, m)
      <4>1. PICK m : /\ versions' = Append(versions, m)
                     /\ \/ m = VersionRegister(1, 1, "h1", "topic")
                        \/ m = VersionRegister(0, 9, "none", "topic")
                        \/ m = VersionRegister(2, 0, "h2", "legacy")
                        \/ m = VersionRegister(2, 0, "garbled", "topic")
                        \/ m = VersionRegister(1, 0, "none", "badHRL")
                        \/ m = [r EXCEPT !.skill = 2] \/ m = [r EXCEPT !.status = "deprecated"]
                        \/ m = VersionChange("update", 1, "deprecated")
                        \/ m = VersionChange("delete", 1, "none") \/ m = VersionChange("delete", 2, "none")
        BY <2>4, <3>3
      <4>2. m \in Versions26
        BY <3>1, <3>4, <3>5, <4>1
      <4> QED BY <4>1, <4>2
    <3> QED BY <2>2, <2>4, <3>6
  <2> QED BY <2>1, <2>3, <2>4 DEF Publish26, Manifests
<1>4. CallCurrent'
  <2>1. resolve26' = resolve26
    BY DEF Publish26
  <2>2. PICK r : r = resolve26
    OBVIOUS
  <2>3. PICK d, v : d = r.began[1] /\ v = r.began[2]
    OBVIOUS
  <2>4. ASSUME BeganBefore(d, v)
        PROVE  /\ BeganBefore(d, v)'
               /\ \A a : DirectoryCurrent(d, a) => DirectoryCurrent(d, a)'
               /\ \A at, version, checksum :
                    VersionCurrent(v, at, version, checksum) => VersionCurrent(v, at, version, checksum)'
    BY <1>0, <1>3, <2>4, CurrentStays
  <2>5. /\ r.pc \in {"scan", "versions", "manifest"} => r \in Resolutions /\ r.result = "none"
        /\ r.pc \in {"scan", "versions", "manifest"} \/ r.result = "skill" => BeganBefore(d, v)
        /\ r.pc \in {"versions", "manifest"} \/ r.result = "skill" => DirectoryCurrent(d, r.account)
        /\ r.pc = "manifest" => VersionCurrent(v, r.at, r.version, r.checksum)
        /\ r.result = "skill" =>
             \E checksum \in {"none", r.manifest} : VersionCurrent(v, r.at, r.version, checksum)
    BY <2>2, <2>3 DEF SkillInv, CallCurrent
  <2>6. /\ r.pc \in {"scan", "versions", "manifest"} \/ r.result = "skill" => BeganBefore(d, v)'
        /\ r.pc \in {"versions", "manifest"} \/ r.result = "skill" => DirectoryCurrent(d, r.account)'
        /\ r.pc = "manifest" => VersionCurrent(v, r.at, r.version, r.checksum)'
        /\ r.result = "skill" =>
             \E checksum \in {"none", r.manifest} : VersionCurrent(v, r.at, r.version, checksum)'
    BY <2>4, <2>5
  <2> QED BY <2>1, <2>2, <2>3, <2>5, <2>6 DEF CallCurrent
<1> QED BY <1>3, <1>4 DEF SkillInv

(***************************************************************************)
(* Semantic versions are ordered as the numbers 10 * major + minor are,    *)
(* and the latest of several is the last one of the highest number.        *)
(***************************************************************************)
Number26(v) == 10 * v[1] + v[2]

LEMMA VersionsOrdered ==
  ASSUME NEW v \in (0..3) \X (0..9), NEW w \in (0..3) \X (0..9)
  PROVE  /\ CompareSemver(v, w) <=> Number26(v) < Number26(w)
         /\ Number26(v) \in 0..39
<1>1. v[1] \in 0..3 /\ v[2] \in 0..9 /\ w[1] \in 0..3 /\ w[2] \in 0..9
  OBVIOUS
<1> QED BY <1>1 DEF CompareSemver, Number26

LEMMA LatestIsLatest ==
  ASSUME TopicsOK, NEW listed \in SUBSET DOMAIN versions, listed # {}
  PROVE  /\ LatestVersion(listed) \in listed
         /\ \A j \in listed : ~CompareSemver(versions[LatestVersion(listed)].version, versions[j].version)
<1>1. PICK n \in Nat : DOMAIN versions = 1..n
  BY DEF TopicsOK
<1>2. \A i \in DOMAIN versions : versions[i].version \in (0..3) \X (0..9)
  <2>1. ASSUME NEW i \in DOMAIN versions PROVE versions[i] \in Versions26
    <3>1. versions \in [1..Len(versions) -> Versions26]
      BY LenProperties DEF TopicsOK
    <3> QED BY <2>1, <3>1
  <2> QED BY <2>1 DEF Versions26
<1> DEFINE number(i) == Number26(versions[i].version)
<1>3. \A i \in listed : number(i) \in 0..39
  BY <1>2, VersionsOrdered
<1>4. \A i, j \in listed : CompareSemver(versions[i].version, versions[j].version) <=> number(i) < number(j)
  BY <1>2, VersionsOrdered
<1> HIDE DEF number
<1>5. PICK top \in {number(i) : i \in listed} : \A k \in {number(i) : i \in listed} : k <= top
  <2>1. {number(i) : i \in listed} \in SUBSET (0..39) /\ {number(i) : i \in listed} # {} /\ 39 \in Nat
    BY <1>3
  <2> QED BY <2>1, GreatestElement
<1> DEFINE highest == {i \in listed : number(i) = top}
<1>6. PICK last \in highest : \A k \in highest : k <= last
  <2>1. highest \in SUBSET (0..n) /\ highest # {}
    BY <1>1
  <2> QED BY <2>1, GreatestElement
<1>7. \A j \in listed : number(j) <= top /\ number(last) = top /\ number(j) \in 0..39 /\ j \in 1..n
  BY <1>1, <1>3, <1>5
<1>8. \A j \in listed \ {last} :
        \/ CompareSemver(versions[j].version, versions[last].version)
        \/ ~CompareSemver(versions[last].version, versions[j].version) /\ j < last
  <2> SUFFICES ASSUME NEW j \in listed \ {last}
               PROVE  number(j) < number(last) \/ (~(number(last) < number(j)) /\ j < last)
    BY <1>4
  <2>1. CASE number(j) = top
    <3>1. j <= last /\ j # last /\ j \in 1..n /\ last \in 1..n
      BY <1>6, <1>7, <2>1
    <3> QED BY <1>7, <2>1, <3>1
  <2>2. CASE number(j) # top
    BY <1>7, <2>2
  <2> QED BY <2>1, <2>2
<1>9. last \in listed
  OBVIOUS
<1>10. PICK i \in listed : /\ i = LatestVersion(listed)
                           /\ \A j \in listed \ {i} :
                                \/ CompareSemver(versions[j].version, versions[i].version)
                                \/ ~CompareSemver(versions[i].version, versions[j].version) /\ j < i
  BY <1>8, <1>9 DEF LatestVersion
<1>11. ASSUME NEW j \in listed PROVE ~CompareSemver(versions[i].version, versions[j].version)
  <2>1. CASE j = i
    BY <1>3, <1>4, <2>1
  <2>2. CASE j # i
    <3>1. number(i) \in 0..39 /\ number(j) \in 0..39
      BY <1>3
    <3> QED BY <1>4, <1>10, <2>2, <3>1
  <2> QED BY <2>1, <2>2
<1> QED BY <1>10, <1>11

LEMMA ListedAreActive ==
  ASSUME TopicsOK
  PROVE  /\ ListVersionRegisters \subseteq DOMAIN versions
         /\ \A i \in DOMAIN versions : Active26(i) => i \in ListVersionRegisters
<1>1. PICK n \in Nat : DOMAIN versions = 1..n
  BY DEF TopicsOK
<1>2. ASSUME NEW i \in DOMAIN versions, Untouched(i) PROVE StatusByUID(i) = versions[i].status
  <2>1. {j \in 1..(i - 1) : versions[j].op # "register" /\ versions[j].uid = i} = {}
    <3> SUFFICES ASSUME NEW j \in 1..(i - 1), versions[j].op # "register", versions[j].uid = i PROVE FALSE
      OBVIOUS
    <3>1. j \in DOMAIN versions
      BY <1>1
    <3>2. versions[j] \in Versions26
      BY <3>1 DEF TopicsOK
    <3>3. versions[j].op \in {"update", "delete"}
      BY <3>2 DEF Versions26
    <3> QED BY <1>2, <3>1, <3>3 DEF Untouched
  <2> QED BY <2>1 DEF StatusByUID, LastOf
<1> QED BY <1>2 DEF ListVersionRegisters, Active26

LEMMA CallEnds ==
  ASSUME SkillInv, UNCHANGED topics26, resolve26 \in Resolutions, Fail26 \/ Absent26
  PROVE  SkillInv'
<1>1. resolve26'.pc = "done" /\ resolve26'.result # "skill"
  BY DEF Resolutions, Fail26, Absent26
<1>2. CallCurrent'
  BY <1>1 DEF CallCurrent
<1> QED BY <1>2 DEF SkillInv, TopicsOK, topics26

(***************************************************************************)
(* A call goes on: what it has found so far is kept.                       *)
(***************************************************************************)
LEMMA CallGoesOn ==
  ASSUME SkillInv, UNCHANGED topics26, CallCurrent'
  PROVE  SkillInv'
BY DEF SkillInv, TopicsOK, topics26

LEMMA TopicsFixed ==
  ASSUME TopicsOK, UNCHANGED topics26, NEW d, NEW v
  PROVE  /\ BeganBefore(d, v) => BeganBefore(d, v)'
         /\ \A a : DirectoryCurrent(d, a) => DirectoryCurrent(d, a)'
         /\ \A at, version, checksum :
              VersionCurrent(v, at, version, checksum) => VersionCurrent(v, at, version, checksum)'
BY DEF topics26, BeganBefore, DirectoryCurrent, AccountSet, Deletes, Updates, VersionCurrent, Active26, Untouched

LEMMA DiscoveryBegins ==
  ASSUME SkillInv, GetDiscoveryRegister
  PROVE  SkillInv'
<1>0. TopicsOK /\ UNCHANGED topics26
  BY DEF SkillInv, GetDiscoveryRegister
<1>1. CASE resolve26' = [pc |-> "done", result |-> "error"]
  <2>1. CallCurrent'
    BY <1>1 DEF CallCurrent
  <2> QED BY <1>0, <2>1, CallGoesOn
<1>2. CASE resolve26' = [pc |-> "scan", result |-> "none", account |-> directory[Uid].account,
                      metadata |-> directory[Uid].metadata,
                      began |-> <<Len(directory), Len(versions), Len(manifests)>>,
                      version |-> << >>, at |-> 0, checksum |-> "none", manifest |-> "none"]
  <2>1. PICK d, v, m \in Nat : /\ d = Len(directory) /\ v = Len(versions) /\ m = Len(manifests)
                               /\ d \in 1..Len(directory) /\ v \in 1..Len(versions)
    BY <1>0 DEF TopicsOK
  <2>2. directory[Uid].account = "a1" /\ directory[Uid].metadata = "named"
    BY <1>0 DEF TopicsOK, DiscoveryRegister, Uid
  <2>3. resolve26' \in Resolutions /\ resolve26'.pc = "scan" /\ resolve26'.result = "none"
        /\ resolve26'.began[1] = d /\ resolve26'.began[2] = v
    BY <1>2, <2>1, <2>2 DEF Resolutions, AnyVersion
  <2>4. BeganBefore(d, v)'
    BY <1>0, <2>1 DEF BeganBefore, topics26
  <2>5. CallCurrent'
    BY <2>3, <2>4 DEF CallCurrent
  <2> QED BY <1>0, <2>5, CallGoesOn
<1> QED BY <1>1, <1>2 DEF GetDiscoveryRegister

(***************************************************************************)
(* The later messages of the directory: no deletion, and the last account. *)
(***************************************************************************)
LEMMA GreatestLater ==
  ASSUME TopicsOK, NEW S \in SUBSET Later, S # {}
  PROVE  (CHOOSE i \in S : \A j \in S : j <= i) \in S
<1>1. PICK n \in Nat : n = Len(directory) /\ S \in SUBSET (0..n)
  BY DEF TopicsOK, Later, Uid
<1>2. \E i \in S : \A j \in S : j <= i
  BY <1>1, GreatestElement
<1> QED BY <1>2

LEMMA LaterMessages ==
  ASSUME TopicsOK, NEW i \in Later
  PROVE  /\ directory[i].account \in {"none", "a2"} /\ i \in DOMAIN directory
         /\ directory[i].metadata \in {"named", "none", "patched", "unreadable"}
<1>1. i \in DOMAIN directory /\ i # 1 /\ directory \in [1..Len(directory) -> Records26]
      /\ DOMAIN directory = 1..Len(directory)
  <2>1. directory \in [1..Len(directory) -> Records26] /\ DOMAIN directory = 1..Len(directory)
    BY LenProperties DEF TopicsOK
  <2>2. Len(directory) \in Nat
    BY DEF TopicsOK
  <2> QED BY <2>1, <2>2 DEF Later, Uid
<1>2. directory[i] \in Records26
  BY <1>1
<1> QED BY <1>1, <1>2 DEF TopicsOK, Records26

LEMMA ScanKeeps ==
  ASSUME SkillInv, ScanDirectory
  PROVE  SkillInv'
<1> DEFINE stop == {i \in Later : Deletes(i)}
           upto == IF stop = {} THEN Len(directory) ELSE CHOOSE i \in stop : \A j \in stop : i <= j
           patches == {i \in Later : i < upto + 1 /\ Updates(i) /\ directory[i].metadata # "none"}
           accounts == {i \in Later : Updates(i) /\ directory[i].account # "none"}
<1>0. /\ TopicsOK /\ UNCHANGED topics26 /\ resolve26.pc = "scan"
      /\ resolve26 \in Resolutions /\ resolve26.result = "none"
      /\ BeganBefore(resolve26.began[1], resolve26.began[2])
  BY DEF SkillInv, ScanDirectory, CallCurrent
<1>1. CASE Fail26 \/ Absent26
  BY <1>0, <1>1, CallEnds
<1>2. CASE /\ stop = {}
           /\ resolve26' = [resolve26 EXCEPT !.pc = "versions",
                      !.account = LastOf(accounts, @, LAMBDA i : directory[i].account),
                      !.metadata = LastOf(patches, @, LAMBDA i : directory[i].metadata)]
  <2>1. PICK call \in Resolutions : call = resolve26
    BY <1>0
  <2>2. PICK d, v : d = call.began[1] /\ v = call.began[2] /\ BeganBefore(d, v)
    BY <1>0, <2>1
  <2>3. PICK account \in {"none", "a1", "a2"} :
          /\ account = LastOf(accounts, call.account, LAMBDA i : directory[i].account)
          /\ accounts # {} => account = "a2"
    <3>1. CASE accounts = {}
      BY <3>1 DEF LastOf, Resolutions
    <3>2. CASE accounts # {}
      <4>1. accounts \in SUBSET Later
        OBVIOUS
      <4>2. PICK i \in accounts : i = CHOOSE k \in accounts : \A j \in accounts : j <= k
        BY <1>0, <3>2, <4>1, GreatestLater
      <4>3. directory[i].account = "a2"
        BY <1>0, <4>2, LaterMessages
      <4>4. LastOf(accounts, call.account, LAMBDA k : directory[k].account) = directory[i].account
        BY <3>2, <4>2 DEF LastOf
      <4> QED BY <4>3, <4>4
    <3> QED BY <3>1, <3>2
  <2>4. PICK metadata \in {"named", "none", "patched", "unreadable"} :
          metadata = LastOf(patches, call.metadata, LAMBDA i : directory[i].metadata)
    <3>1. CASE patches = {}
      BY <3>1 DEF LastOf, Resolutions
    <3>2. CASE patches # {}
      <4>1. patches \in SUBSET Later
        OBVIOUS
      <4>2. PICK i \in patches : i = CHOOSE k \in patches : \A j \in patches : j <= k
        BY <1>0, <3>2, <4>1, GreatestLater
      <4>3. i \in Later
        BY <4>1, <4>2
      <4>4. directory[i].metadata \in {"named", "none", "patched", "unreadable"}
        BY <1>0, <4>3, LaterMessages
      <4>5. LastOf(patches, call.metadata, LAMBDA k : directory[k].metadata) = directory[i].metadata
        BY <3>2, <4>2 DEF LastOf
      <4> QED BY <4>4, <4>5
    <3> QED BY <3>1, <3>2
  <2> HIDE DEF patches
  <2>5. resolve26' = [call EXCEPT !.pc = "versions", !.account = account, !.metadata = metadata]
    BY <1>2, <2>1, <2>3, <2>4
  <2>6. /\ resolve26' \in Resolutions /\ resolve26'.pc = "versions" /\ resolve26'.result = "none"
        /\ resolve26'.account = account /\ resolve26'.began = call.began
    BY ZenonT(30), <1>0, <2>1, <2>5 DEF Resolutions
  <2>7. DirectoryCurrent(d, account)
    <3>1. directory[1].op = "register" /\ Len(directory) \in Nat
      BY <1>0 DEF TopicsOK, DiscoveryRegister
    <3>2. \A i \in 1..d : i = 1 \/ i \in Later
      BY <2>2, <3>1 DEF BeganBefore, Later, Uid
    <3>3. \A i \in 1..d : ~Deletes(i)
      BY <1>2, <3>1, <3>2 DEF Deletes
    <3>4. AccountSet(d) => accounts # {}
      BY <3>1, <3>2 DEF AccountSet, Updates
    <3> QED BY <2>3, <3>3, <3>4 DEF DirectoryCurrent
  <2>8. BeganBefore(d, v)' /\ DirectoryCurrent(d, account)'
    BY <1>0, <2>2, <2>7, TopicsFixed
  <2>9. CallCurrent'
    BY <2>2, <2>6, <2>8 DEF CallCurrent
  <2> QED BY <1>0, <2>9, CallGoesOn
<1> QED BY <1>1, <1>2 DEF ScanDirectory

(***************************************************************************)
(* The latest of the listed versions, which are all that are active.       *)
(***************************************************************************)
LEMMA LatestKeeps ==
  ASSUME SkillInv, GetLatestVersionRegister
  PROVE  SkillInv'
<1>0. /\ TopicsOK /\ UNCHANGED topics26 /\ resolve26.pc = "versions"
      /\ resolve26 \in Resolutions /\ resolve26.result = "none"
      /\ BeganBefore(resolve26.began[1], resolve26.began[2])
      /\ DirectoryCurrent(resolve26.began[1], resolve26.account)
  BY DEF SkillInv, GetLatestVersionRegister, CallCurrent
<1>1. CASE Fail26 \/ Absent26
  BY <1>0, <1>1, CallEnds
<1>2. CASE /\ ListVersionRegisters # {}
           /\ resolve26' = [resolve26 EXCEPT !.pc = "manifest",
                !.version = versions[LatestVersion(ListVersionRegisters)].version,
                !.at = LatestVersion(ListVersionRegisters),
                !.checksum = versions[LatestVersion(ListVersionRegisters)].checksum]
  <2>1. PICK call \in Resolutions : call = resolve26
    BY <1>0
  <2>2. PICK d, v : d = call.began[1] /\ v = call.began[2] /\ BeganBefore(d, v) /\ DirectoryCurrent(d, call.account)
    BY <1>0, <2>1
  <2>3. PICK at \in DOMAIN versions :
          /\ at = LatestVersion(ListVersionRegisters)
          /\ \A j \in ListVersionRegisters : ~CompareSemver(versions[at].version, versions[j].version)
    BY <1>0, <1>2, LatestIsLatest, ListedAreActive
  <2>4. versions \in [1..Len(versions) -> Versions26] /\ Len(versions) \in Nat /\ DOMAIN versions = 1..Len(versions)
    BY <1>0, LenProperties DEF TopicsOK
  <2>5. PICK version \in (0..3) \X (0..9), checksum \in {"none", "h1", "h2", "garbled"} :
          version = versions[at].version /\ checksum = versions[at].checksum
    BY <2>3, <2>4 DEF Versions26
  <2>6. resolve26' = [call EXCEPT !.pc = "manifest", !.version = version, !.at = at, !.checksum = checksum]
    BY <1>2, <2>1, <2>3, <2>5
  <2>7. /\ resolve26' \in Resolutions /\ resolve26'.pc = "manifest" /\ resolve26'.result = "none"
        /\ resolve26'.account = call.account /\ resolve26'.began = call.began
        /\ resolve26'.version = version /\ resolve26'.at = at /\ resolve26'.checksum = checksum
    <3>1. at \in Nat /\ version \in AnyVersion
      BY <2>4 DEF AnyVersion
    <3> QED BY <1>0, <2>1, <2>6, <3>1 DEF Resolutions
  <2>8. VersionCurrent(v, at, version, checksum)
    <3>1. \A i \in 1..v : i \in DOMAIN versions
      BY <2>2, <2>4 DEF BeganBefore
    <3>2. \A i \in 1..v : Active26(i) => i \in ListVersionRegisters
      BY <1>0, <3>1, ListedAreActive
    <3> QED BY <2>3, <2>5, <3>2 DEF VersionCurrent
  <2>9. BeganBefore(d, v)' /\ DirectoryCurrent(d, call.account)' /\ VersionCurrent(v, at, version, checksum)'
    BY <1>0, <2>2, <2>8, TopicsFixed
  <2>10. CallCurrent'
    BY <2>2, <2>7, <2>9 DEF CallCurrent
  <2> QED BY <1>0, <2>10, CallGoesOn
<1> QED BY <1>1, <1>2 DEF GetLatestVersionRegister

LEMMA ManifestKeeps ==
  ASSUME SkillInv, ResolveManifest
  PROVE  SkillInv'
<1>0. /\ TopicsOK /\ UNCHANGED topics26 /\ resolve26.pc = "manifest"
      /\ resolve26 \in Resolutions /\ resolve26.result = "none"
      /\ BeganBefore(resolve26.began[1], resolve26.began[2])
      /\ DirectoryCurrent(resolve26.began[1], resolve26.account)
      /\ VersionCurrent(resolve26.began[2], resolve26.at, resolve26.version, resolve26.checksum)
  BY DEF SkillInv, ResolveManifest, CallCurrent
<1>1. CASE Fail26
  BY <1>0, <1>1, CallEnds
<1>2. ASSUME NEW m, MatchesManifest(resolve26.checksum, m),
             resolve26' = [resolve26 EXCEPT !.pc = "done", !.result = "skill", !.manifest = m]
      PROVE  SkillInv'
  <2>1. PICK call \in Resolutions : call = resolve26
    BY <1>0
  <2>2. PICK d, v : /\ d = call.began[1] /\ v = call.began[2] /\ BeganBefore(d, v)
                    /\ DirectoryCurrent(d, call.account)
                    /\ VersionCurrent(v, call.at, call.version, call.checksum)
    BY <1>0, <2>1
  <2>3. /\ resolve26'.pc = "done" /\ resolve26'.result = "skill" /\ resolve26'.manifest = m
        /\ resolve26'.account = call.account /\ resolve26'.began = call.began
        /\ resolve26'.version = call.version /\ resolve26'.at = call.at
    BY <1>2, <2>1 DEF Resolutions
  <2>4. BeganBefore(d, v)' /\ DirectoryCurrent(d, call.account)'
        /\ VersionCurrent(v, call.at, call.version, call.checksum)'
    BY <1>0, <2>2, TopicsFixed
  <2>5. call.checksum \in {"none", m}
    BY <1>2, <2>1 DEF MatchesManifest
  <2>6. CallCurrent'
    BY <2>2, <2>3, <2>4, <2>5 DEF CallCurrent
  <2> QED BY <1>0, <2>6, CallGoesOn
<1> QED BY <1>1, <1>2 DEF ResolveManifest

LEMMA SkillStep == SkillInv /\ [SkillNext]_skillVars => SkillInv'
<1> SUFFICES ASSUME SkillInv, [SkillNext]_skillVars PROVE SkillInv'
  OBVIOUS
<1>1. CASE UNCHANGED skillVars
  <2>1. UNCHANGED topics26 /\ resolve26' = resolve26
    BY <1>1 DEF skillVars
  <2>2. PICK r : r = resolve26
    OBVIOUS
  <2>3. CallCurrent'
    BY <2>1 DEF SkillInv, CallCurrent, topics26, BeganBefore, DirectoryCurrent, AccountSet, Deletes,
                Updates, VersionCurrent, Active26, Untouched
  <2> QED BY <2>1, <2>3, CallGoesOn
<1> QED BY <1>1, PublishKeeps, DiscoveryBegins, ScanKeeps, LatestKeeps, ManifestKeeps DEF SkillNext

(***************************************************************************)
(* However many messages publishers add while a skill is resolved, the     *)
(* result is not older than the call, and its manifest is the version's.   *)
(***************************************************************************)
THEOREM SkillsAreCurrent == SkillSpec => []ResolvesCurrentSkill
<1>1. SkillInv => ResolvesCurrentSkill
  <2> SUFFICES ASSUME SkillInv, resolve26.result = "skill" PROVE ResolvesCurrentSkill
    BY DEF ResolvesCurrentSkill
  <2>1. PICK d, v : d = resolve26.began[1] /\ v = resolve26.began[2]
    OBVIOUS
  <2>2. BeganBefore(d, v) /\ DirectoryCurrent(d, resolve26.account)
    BY <2>1 DEF SkillInv, CallCurrent
  <2>3. PICK checksum \in {"none", resolve26.manifest} :
          VersionCurrent(v, resolve26.at, resolve26.version, checksum)
    BY <2>1 DEF SkillInv, CallCurrent
  <2>4. \A i \in 1..d : ~(directory[i].op = "delete" /\ directory[i].uid = Uid)
    BY <2>2 DEF DirectoryCurrent, Deletes
  <2>5. {i \in DOMAIN directory : i <= d /\ Updates(i) /\ directory[i].account # "none"} # {}
          => resolve26.account = "a2"
    <3>1. \A i \in DOMAIN directory : i <= d => i \in 1..d
      <4>1. DOMAIN directory = 1..Len(directory) /\ Len(directory) \in Nat
        BY DEF SkillInv, TopicsOK
      <4> QED BY <2>2, <4>1 DEF BeganBefore
    <3> QED BY <2>2, <3>1 DEF DirectoryCurrent, AccountSet
  <2>6. \A i \in {j \in 1..v : Active26(j)} : ~CompareSemver(resolve26.version, versions[i].version)
    BY <2>3 DEF VersionCurrent
  <2>7. versions[resolve26.at].checksum # "none" => resolve26.manifest = versions[resolve26.at].checksum
    BY <2>3 DEF VersionCurrent
  <2> QED BY <2>1, <2>4, <2>5, <2>6, <2>7 DEF ResolvesCurrentSkill, Active26
<1> QED BY <1>1, SkillInitInv, SkillStep, PTL DEF SkillSpec

-----------------------------------------------------------------------------
(***************************************************************************)
(* HCS-27: accepted chains and published checkpoints.                      *)
(***************************************************************************)
Roots == [size : Nat, root : Nat]
Metadata27 == [form : {"valid", "malformed"}, stream : Streams, root : Roots, prev : Roots]
Messages27 == [form : {"garbled"}] \cup [form : {"inline"}, metadata : Metadata27]
                \cup [form : {"reference"}, metadata : Metadata27, file : Nat]
Chunks == [upload : {"publisher", "other"}, total : {1, 2}, number : {1, 2}]
Files27 == [total : {1, 2}, chunks : Seq(Chunks)]
Readers27 == [pc : {"idle", "read", "done"}, fetched : Nat, at : Nat, records : Seq(Nat),
              verdict : {"none", "accepted", "refused"}]

(***************************************************************************)
(* A checkpoint is valid and names a file there is; its root is no smaller *)
(* than its prev, and its prev than any root before it.                    *)
(***************************************************************************)
IsCheckpoint(m) ==
  /\ m.form \in {"inline", "reference"}
  /\ m.metadata \in Metadata27 /\ ValidMetadata(m.metadata)
  /\ m.metadata.root.root = m.metadata.root.size
  /\ m.form = "reference" => m.file \in DOMAIN ckFiles

Follows(m, i) == ckTopic[i].metadata.stream = m.metadata.stream =>
                   ckTopic[i].metadata.root.size <= m.metadata.prev.size

TopicChained ==
  /\ ckTopic \in Seq(Messages27)
  /\ \A j \in DOMAIN ckTopic : ckTopic[j].form # "garbled" =>
       /\ IsCheckpoint(ckTopic[j])
       /\ \A i \in 1..(j - 1) : ckTopic[i].form # "garbled" => Follows(ckTopic[j], i)

(***************************************************************************)
(* Of each file the publisher's chunks are there up to some number, and    *)
(* the first chunk is one of them.                                         *)
(***************************************************************************)
OursIn(file) == {i \in DOMAIN file.chunks : file.chunks[i].upload = "publisher"}

FileOK(file) ==
  /\ file \in Files27
  /\ Ours27(file) \in 0..file.total
  /\ \A i \in DOMAIN file.chunks : file.chunks[i].total = file.total
  /\ file.chunks # << >> => file.chunks[1].upload = "publisher"
  /\ {file.chunks[i].number : i \in OursIn(file)} = 1..Ours27(file)

SoundFiles == {file \in Files27 : FileOK(file)}

FilesOK == ckFiles \in Seq(SoundFiles)

(***************************************************************************)
(* The checkpoint under way follows all that is on the topic.              *)
(***************************************************************************)
PublishOK ==
  /\ ckPc \in {"idle", "publishMetadata", "submit"}
  /\ ckPc # "idle" =>
       /\ ckMessage \in Messages27 /\ IsCheckpoint(ckMessage)
       /\ \A i \in DOMAIN ckTopic : ckTopic[i].form # "garbled" => Follows(ckMessage, i)

Published27 == [seq : Nat, metadata : Metadata27]

PublishedOK ==
  /\ ckPublished \in Seq(Published27)
  /\ \A i \in DOMAIN ckPublished :
       /\ ckPublished[i].seq \in DOMAIN ckTopic
       /\ ckTopic[ckPublished[i].seq].form # "garbled"
       /\ ckPublished[i].metadata = ckTopic[ckPublished[i].seq].metadata

(***************************************************************************)
(* Records are checkpoints, in the order of the topic, and a chain that is *)
(* accepted links each to the one before it in its stream.                 *)
(***************************************************************************)
ReaderOK ==
  /\ ckReader \in Readers27
  /\ ckReader.fetched <= Len(ckTopic)
  /\ ckReader.pc = "read" => ckReader.at >= 1
  /\ \A i \in DOMAIN ckReader.records :
       /\ ckReader.records[i] \in 1..ckReader.fetched /\ ckReader.records[i] < ckReader.at
       /\ ckTopic[ckReader.records[i]].form # "garbled"
       /\ \A j \in DOMAIN ckReader.records : i < j => ckReader.records[i] < ckReader.records[j]
  /\ ckReader.verdict = "accepted" => ckReader.pc = "done" /\ ValidChain(ckReader.records)

CkInv == TopicChained /\ FilesOK /\ PublishOK /\ PublishedOK /\ ReaderOK

LEMMA CkInitInv == CkInit => CkInv
<1> SUFFICES ASSUME CkInit PROVE CkInv
  OBVIOUS
<1>1. ckTopic = << >> /\ ckFiles = << >> /\ ckPc = "idle" /\ ckPublished = << >>
  BY DEF CkInit
<1>2. ckReader \in Readers27 /\ ckReader.fetched = 0 /\ ckReader.records = << >> /\ ckReader.verdict = "none" /\ ckReader.pc = "idle"
  BY DEF CkInit, Idle27, Readers27
<1>3. TopicChained /\ FilesOK /\ PublishOK /\ PublishedOK
  BY <1>1 DEF TopicChained, FilesOK, PublishOK, PublishedOK
<1>4. ReaderOK
  BY <1>1, <1>2 DEF ReaderOK
<1> QED BY <1>3, <1>4 DEF CkInv

(***************************************************************************)
(* What follows from the invariant: an accepted chain has no gap.          *)
(***************************************************************************)
LEMMA AcceptedHasNoGap == CkInv => GapNoticed
<1> SUFFICES ASSUME CkInv, ckReader.verdict = "accepted", NEW s \in Streams, NEW i \in Checkpointed(s),
                    NEW a \in DOMAIN ckReader.records, NEW b \in DOMAIN ckReader.records,
                    ckTopic[ckReader.records[a]].metadata.stream = s,
                    ckTopic[ckReader.records[b]].metadata.stream = s,
                    ckReader.records[a] < i, i < ckReader.records[b]
             PROVE  \E r \in DOMAIN ckReader.records :
                      /\ ckTopic[ckReader.records[r]].metadata.stream = s
                      /\ ckTopic[ckReader.records[r]].metadata.root = ckTopic[i].metadata.root
  BY DEF GapNoticed
<1>1. PICK rs \in Seq(Nat), n \in Nat : rs = ckReader.records /\ n = Len(rs) /\ DOMAIN rs = 1..n
  BY DEF CkInv, ReaderOK, Readers27
<1>2. PICK len \in Nat : DOMAIN ckTopic = 1..len /\ Len(ckTopic) = len
  BY DEF CkInv, TopicChained
<1> DEFINE M(x) == ckTopic[rs[x]].metadata
<1>3. \A x \in 1..n : /\ rs[x] \in 1..len /\ ckTopic[rs[x]].form # "garbled" /\ rs[x] \in Nat
                      /\ \A y \in 1..n : x < y => rs[x] < rs[y]
  <2>1. \A x \in 1..n : rs[x] \in 1..ckReader.fetched /\ ckTopic[rs[x]].form # "garbled"
    BY <1>1 DEF CkInv, ReaderOK
  <2>2. \A x \in 1..n : \A y \in 1..n : x < y => rs[x] < rs[y]
    BY <1>1 DEF CkInv, ReaderOK
  <2>3. ckReader.fetched <= len /\ ckReader.fetched \in Nat
    BY <1>2 DEF CkInv, ReaderOK, Readers27
  <2> QED BY <2>1, <2>2, <2>3
<1>4. i \in 1..len /\ ckTopic[i].form # "garbled" /\ ckTopic[i].metadata.stream = s
  BY <1>2 DEF Checkpointed
<1>5. PICK u \in 1..n : /\ M(u).stream = s /\ i < rs[u]
                        /\ \A v \in 1..n : M(v).stream = s /\ i < rs[v] => u <= v
  <2> DEFINE upper == {v \in 1..n : M(v).stream = s /\ i < rs[v]}
  <2>1. upper \in SUBSET Nat /\ upper # {}
    BY <1>1
  <2> QED BY <2>1, LeastElement
<1>6. a \in 1..n /\ a < u /\ M(a).stream = s
  <2>a. a \in 1..n /\ rs[a] < i /\ M(a).stream = s
    BY <1>1
  <2>b. rs[a] \in Nat /\ rs[u] \in Nat /\ i \in Nat
    BY <1>3, <1>4, <2>a
  <2>1. a \in 1..n /\ rs[a] < i /\ rs[a] < rs[u]
    BY <1>5, <2>a, <2>b
  <2>2. ~(u < a) /\ u # a
    BY <1>3, <1>4, <1>5, <2>1
  <2> QED BY <1>1, <2>1, <2>2
<1> DEFINE before == {k \in 1..(u - 1) : M(k).stream = M(u).stream}
<1>7. PICK k \in before : /\ k = (CHOOSE x \in before : \A l \in before : l <= x)
                          /\ \A l \in before : l <= k
  <2>1. before \in SUBSET (0..n) /\ before # {}
    BY <1>5, <1>6
  <2>2. \E x \in before : \A l \in before : l <= x
    BY <2>1, GreatestElement
  <2> QED BY <2>2
<1>8. Linked(M(u), M(k))
  <2>1. ValidChain(rs)
    BY <1>1 DEF CkInv, ReaderOK
  <2>2. before # {} /\ u \in DOMAIN rs
    BY <1>1, <1>7
  <2> QED BY <1>7, <2>1, <2>2 DEF ValidChain
<1>9. k \in 1..n /\ k < u /\ M(k).stream = s
  <2>1. k \in 1..(u - 1) /\ M(k).stream = M(u).stream
    OBVIOUS
  <2> HIDE DEF before
  <2>2. k \in 1..n /\ k < u
    BY <2>1
  <2> QED BY <1>5, <2>1, <2>2
<1> HIDE DEF before
<1>10. CASE rs[k] = i
  BY <1>1, <1>9, <1>10
<1>11. CASE rs[k] # i
  <2>1. rs[k] < i
    BY <1>3, <1>4, <1>5, <1>9, <1>11
  <2>2. /\ IsCheckpoint(ckTopic[i]) /\ IsCheckpoint(ckTopic[rs[k]])
        /\ Follows(ckTopic[i], rs[k]) /\ Follows(ckTopic[rs[u]], i)
    <3>1. rs[k] \in 1..len /\ rs[u] \in 1..len /\ rs[k] \in 1..(i - 1) /\ i \in 1..(rs[u] - 1)
      <4>1. PICK x \in 1..len, y \in 1..len : x = rs[k] /\ y = rs[u]
        BY <1>3, <1>9
      <4>2. i \in 1..len /\ x < i /\ i < y
        BY <1>4, <1>5, <2>1, <4>1
      <4>3. x \in 1..(i - 1) /\ i \in 1..(y - 1)
        BY <4>2
      <4> QED BY <4>1, <4>3
    <3>2. /\ ckTopic[i].form # "garbled" /\ ckTopic[rs[k]].form # "garbled"
          /\ ckTopic[rs[u]].form # "garbled"
      BY <1>3, <1>4, <1>5, <1>9
    <3>3. \A j \in 1..len : ckTopic[j].form # "garbled" =>
            /\ IsCheckpoint(ckTopic[j])
            /\ \A l \in 1..(j - 1) : ckTopic[l].form # "garbled" => Follows(ckTopic[j], l)
      BY <1>2 DEF CkInv, TopicChained
    <3> QED BY <1>4, <3>1, <3>2, <3>3
  <2>3. PICK mi \in Metadata27, mk \in Metadata27 :
          /\ mi = ckTopic[i].metadata /\ mk = M(k)
          /\ mi.root.root = mi.root.size /\ mk.root.root = mk.root.size
          /\ mi.prev.size <= mi.root.size
    BY <2>2 DEF IsCheckpoint, ValidMetadata
  <2>4. mk.root.size <= mi.prev.size /\ mi.root.size <= mk.root.size
    BY <1>4, <1>5, <1>8, <1>9, <2>2, <2>3 DEF Follows, Linked
  <2>5. PICK ri \in Roots, rk \in Roots, p \in Nat : ri = mi.root /\ rk = mk.root /\ p = mi.prev.size
    BY <2>3 DEF Metadata27, Roots
  <2>6. ri.size = rk.size /\ ri.root = rk.root
    <3>1. ri.size \in Nat /\ rk.size \in Nat /\ ri.root = ri.size /\ rk.root = rk.size
      BY <2>3, <2>5 DEF Roots
    <3>2. rk.size <= p /\ p <= ri.size /\ ri.size <= rk.size
      BY <2>3, <2>4, <2>5
    <3> QED BY <3>1, <3>2
  <2>7. ri = rk
    BY <2>6 DEF Roots
  <2> QED BY <1>1, <1>9, <2>3, <2>5, <2>7
<1> QED BY <1>10, <1>11

(***************************************************************************)
(* A file reads as the publisher's payload once all of its chunks are      *)
(* there, whatever others wrote to its topic, and before that as nothing.  *)
(***************************************************************************)
LEMMA FilesReadWhole ==
  ASSUME NEW file, FileOK(file)
  PROVE  /\ ResolvedFile(file).ok <=> Ours27(file) = file.total
         /\ ResolvedFile(file).ok => ResolvedFile(file).content = Payload(file)
<1>1. file.total \in {1, 2} /\ file.chunks \in Seq(Chunks)
  BY DEF FileOK, Files27
<1>2. PICK N \in Nat : DOMAIN file.chunks = 1..N
  BY <1>1
<1>3. \A i \in 1..N : file.chunks[i] \in Chunks /\ file.chunks[i].total = file.total
  BY <1>1, <1>2 DEF FileOK
<1>4. PICK mine \in Nat : mine = Ours27(file) /\ mine \in 0..file.total
  BY <1>1 DEF FileOK
<1>5. OursIn(file) \in SUBSET (1..N) /\ {file.chunks[i].number : i \in OursIn(file)} = 1..mine
  BY <1>2, <1>4 DEF FileOK, OursIn
<1>6. CASE file.chunks = << >>
  <2>1. OursIn(file) = {}
    BY <1>6 DEF OursIn
  <2>2. mine = 0
    BY <1>4, <2>1, FS_EmptySet DEF OursIn, Ours27
  <2>3. ResolvedFile(file) = [ok |-> FALSE]
    BY <1>6 DEF ResolvedFile
  <2> QED BY <1>1, <1>4, <2>2, <2>3
<1>7. CASE file.chunks # << >>
  <2> DEFINE first == file.chunks[1]
             ours == {i \in DOMAIN file.chunks : SameUpload(file.chunks[i], first)}
             newest(n) == {i \in ours : file.chunks[i].number = n /\
                             \A j \in ours : file.chunks[j].number = n => j <= i}
             numbers == {file.chunks[i].number : i \in ours}
             content == [n \in 1..first.total |->
                           LET i == IF first.total = 1 THEN 1 ELSE CHOOSE k \in newest(n) : TRUE
                           IN  <<file.chunks[i].upload, n>>]
  <2>1. ResolvedFile(file) = IF first.total > 1 /\ numbers # 1..first.total THEN [ok |-> FALSE]
                             ELSE [ok |-> TRUE, content |-> content]
    BY <1>7 DEF ResolvedFile
  <2>2. N >= 1 /\ 1 \in 1..N
    BY <1>1, <1>2, <1>7
  <2>3. first.upload = "publisher" /\ first.total = file.total
    BY <1>3, <1>7, <2>2 DEF FileOK
  <2>4. ours = OursIn(file)
    BY <1>2, <1>3, <2>3 DEF OursIn, SameUpload
  <2>5. numbers = 1..mine
    BY <1>5, <2>4
  <2>6. 1 \in OursIn(file)
    BY <1>2, <2>2, <2>3 DEF OursIn
  <2>7. mine >= 1
    <3>1. file.chunks[1].number \in 1..mine
      BY <1>5, <2>6
    <3> QED BY <1>4, <3>1
  <2>8. ResolvedFile(file).ok <=> mine = file.total
    <3> HIDE DEF numbers, content, first
    <3>1. CASE file.total = 1
      <4>1. mine = 1
        BY <1>4, <2>7, <3>1
      <4>2. ResolvedFile(file) = [ok |-> TRUE, content |-> content]
        BY <2>1, <2>3, <3>1
      <4> QED BY <3>1, <4>1, <4>2
    <3>2. CASE file.total = 2
      <4>1. 1..mine = 1..2 <=> mine = 2
        <5>1. mine = 1 \/ mine = 2
          BY <1>4, <2>7, <3>2
        <5>2. 2 \in 1..2 /\ 2 \notin 1..1
          OBVIOUS
        <5> QED BY <5>1, <5>2
      <4>2. CASE mine = 2
        <5>1. ResolvedFile(file) = [ok |-> TRUE, content |-> content]
          BY <2>1, <2>3, <2>5, <3>2, <4>2
        <5> QED BY <3>2, <4>2, <5>1
      <4>3. CASE mine # 2
        <5>1. ResolvedFile(file) = [ok |-> FALSE]
          BY <2>1, <2>3, <2>5, <3>2, <4>1, <4>3
        <5> QED BY <3>2, <4>3, <5>1
      <4> QED BY <4>2, <4>3
    <3> QED BY <1>1, <3>1, <3>2
  <2>9. ASSUME mine = file.total PROVE content = Payload(file)
    <3>1. ASSUME NEW n \in 1..file.total, file.total # 1
          PROVE  file.chunks[CHOOSE k \in newest(n) : TRUE].upload = "publisher"
      <4> DEFINE carriers == {i \in ours : file.chunks[i].number = n}
      <4>1. carriers # {}
        <5>1. n \in numbers
          BY <2>5, <2>9
        <5> QED BY <5>1
      <4>2. carriers \in SUBSET (0..N)
        BY <1>2
      <4>3. \E m \in carriers : \A k \in carriers : k <= m
        BY <4>1, <4>2, GreatestElement
      <4>4. newest(n) # {}
        BY <4>3
      <4>5. (CHOOSE k \in newest(n) : TRUE) \in newest(n)
        BY <4>4
      <4>6. \A k \in newest(n) : file.chunks[k].upload = "publisher"
        BY <2>4 DEF OursIn
      <4> HIDE DEF newest
      <4> QED BY <4>5, <4>6
    <3>2. \A n \in 1..file.total : content[n] = <<"publisher", n>>
      <4> SUFFICES ASSUME NEW n \in 1..file.total PROVE content[n] = <<"publisher", n>>
        OBVIOUS
      <4>1. CASE file.total = 1
        BY <2>3, <4>1
      <4>2. CASE file.total # 1
        <5> HIDE DEF newest
        <5>1. content[n] = <<file.chunks[CHOOSE k \in newest(n) : TRUE].upload, n>>
          BY <2>3, <4>2
        <5> QED BY <3>1, <4>2, <5>1
      <4> QED BY <4>1, <4>2
    <3>3. content = [n \in 1..file.total |-> content[n]]
      <4> HIDE DEF newest, first
      <4>1. content = [n \in 1..first.total |-> content[n]]
        BY SMTT(30)
      <4> HIDE DEF content
      <4> QED BY <2>3, <4>1
    <3> HIDE DEF content
    <3> QED BY <3>2, <3>3 DEF Payload
  <2>10. ResolvedFile(file).ok => ResolvedFile(file).content = content
    <3> HIDE DEF numbers, content
    <3> QED BY <2>1
  <2> HIDE DEF content
  <2> QED BY <1>4, <2>8, <2>9, <2>10
<1> QED BY <1>6, <1>7

(***************************************************************************)
(* What follows from the invariant: what was published reads as it was.    *)
(***************************************************************************)
LEMMA PublishedReads == CkInv => PublishedIsReadable
<1> SUFFICES ASSUME CkInv, NEW i \in DOMAIN ckPublished
             PROVE  LET m == ckTopic[ckPublished[i].seq]
                        read == ReadMessage(m)
                        arrived == m.form = "reference" => Ours27(ckFiles[m.file]) = ckFiles[m.file].total
                    IN  /\ read.ok <=> arrived
                        /\ read.ok => read.metadata = ckPublished[i].metadata
  BY DEF PublishedIsReadable
<1>1. PICK m : m = ckTopic[ckPublished[i].seq]
  OBVIOUS
<1>2. IsCheckpoint(m) /\ ckPublished[i].metadata = m.metadata
  BY <1>1 DEF CkInv, PublishedOK, TopicChained
<1>3. CASE m.form = "inline"
  <2>1. ReadMessage(m) = [ok |-> ValidMetadata(m.metadata), metadata |-> m.metadata]
    BY <1>3 DEF ReadMessage
  <2>2. ReadMessage(m).ok <=> ValidMetadata(m.metadata)
    BY <2>1
  <2>3. ReadMessage(m).metadata = m.metadata
    BY <2>1
  <2> QED BY <1>1, <1>2, <1>3, <2>2, <2>3 DEF IsCheckpoint
<1>4. CASE m.form = "reference"
  <2>1. PICK file : file = ckFiles[m.file]
    OBVIOUS
  <2>2. FileOK(file)
    <3>1. m.file \in DOMAIN ckFiles
      BY <1>2, <1>4 DEF IsCheckpoint
    <3>2. file \in SoundFiles
      BY <2>1, <3>1 DEF CkInv, FilesOK
    <3> QED BY <3>2 DEF SoundFiles
  <2>3. ReadMessage(m) = IF /\ ResolvedFile(file).ok /\ ResolvedFile(file).content = Payload(file)
                            /\ ValidMetadata(m.metadata)
                         THEN [ok |-> TRUE, metadata |-> m.metadata] ELSE [ok |-> FALSE]
    BY <1>4, <2>1 DEF ReadMessage, FromMirror
  <2>4. ValidMetadata(m.metadata)
    BY <1>2 DEF IsCheckpoint
  <2>5. CASE Ours27(file) = file.total
    <3>1. ReadMessage(m) = [ok |-> TRUE, metadata |-> m.metadata]
      BY <2>2, <2>3, <2>4, <2>5, FilesReadWhole
    <3>2. ReadMessage(m).ok /\ ReadMessage(m).metadata = m.metadata
      BY <3>1
    <3> QED BY <1>1, <1>2, <2>1, <2>5, <3>2
  <2>6. CASE Ours27(file) # file.total
    <3>1. ReadMessage(m) = [ok |-> FALSE]
      BY <2>2, <2>3, <2>6, FilesReadWhole
    <3>2. ~ReadMessage(m).ok
      BY <3>1
    <3> QED BY <1>1, <1>4, <2>1, <2>6, <3>2
  <2> QED BY <2>5, <2>6
<1> QED BY <1>2, <1>3, <1>4 DEF IsCheckpoint

(***************************************************************************)
(* The root a new checkpoint continues is not smaller than any on the      *)
(* topic.                                                                  *)
(***************************************************************************)
LEMMA HeadIsGreatest ==
  ASSUME CkInv, NEW s
  PROVE  /\ Head27(s) \in Roots /\ Head27(s).root = Head27(s).size
         /\ \A i \in Checkpointed(s) : ckTopic[i].metadata.root.size <= Head27(s).size
<1>1. CASE Checkpointed(s) = {}
  <2>1. Head27(s) = NoPrev
    BY <1>1 DEF Head27
  <2> QED BY <1>1, <2>1 DEF NoPrev, Roots
<1>2. CASE Checkpointed(s) # {}
  <2>1. PICK len \in Nat : DOMAIN ckTopic = 1..len
    BY DEF CkInv, TopicChained
  <2>2. Checkpointed(s) \in SUBSET (0..len)
    BY <2>1 DEF Checkpointed
  <2>3. \E l \in Checkpointed(s) : \A j \in Checkpointed(s) : j <= l
    BY <1>2, <2>2, GreatestElement
  <2> DEFINE last == CHOOSE l \in Checkpointed(s) : \A j \in Checkpointed(s) : j <= l
  <2>4. PICK l \in Checkpointed(s) : l = last /\ \A j \in Checkpointed(s) : j <= l
    BY <2>3
  <2>5. Head27(s) = ckTopic[l].metadata.root
    BY <1>2, <2>4 DEF Head27
  <2>6. IsCheckpoint(ckTopic[l])
    BY <2>4 DEF Checkpointed, CkInv, TopicChained
  <2>7. PICK ml \in Metadata27 : ml = ckTopic[l].metadata /\ ml.prev.size <= ml.root.size
                                   /\ ml.root.root = ml.root.size
    BY <2>6 DEF IsCheckpoint, ValidMetadata
  <2>8. ml.root \in Roots /\ ml.prev.size \in Nat /\ ml.root.size \in Nat
    BY DEF Metadata27, Roots
  <2>9. ASSUME NEW i \in Checkpointed(s) PROVE ckTopic[i].metadata.root.size <= ml.root.size
    <3>1. CASE i = l
      BY <2>7, <2>8, <3>1
    <3>2. CASE i # l
      <4>1. i \in 1..(l - 1) /\ l \in DOMAIN ckTopic
        <5>1. i \in DOMAIN ckTopic /\ l \in DOMAIN ckTopic
          BY <2>4 DEF Checkpointed
        <5>2. i \in 1..len /\ l \in 1..len /\ i <= l
          BY <2>1, <2>4, <5>1
        <5> QED BY <3>2, <5>1, <5>2
      <4>2. Follows(ckTopic[l], i)
        BY <2>4, <4>1 DEF Checkpointed, CkInv, TopicChained
      <4>3. ckTopic[i].metadata.stream = ckTopic[l].metadata.stream
        BY <2>4 DEF Checkpointed
      <4>4. ckTopic[i].metadata.root.size <= ml.prev.size
        BY <2>7, <4>2, <4>3 DEF Follows
      <4>5. IsCheckpoint(ckTopic[i])
        BY DEF Checkpointed, CkInv, TopicChained
      <4>6. PICK x \in Nat : x = ckTopic[i].metadata.root.size
        BY <4>5 DEF IsCheckpoint, Metadata27, Roots
      <4> QED BY <2>7, <2>8, <4>4, <4>6
    <3> QED BY <3>1, <3>2
  <2> QED BY <2>5, <2>7, <2>8, <2>9
<1> QED BY <1>1, <1>2

(***************************************************************************)
(* The topic only grows: what is read stays, and what is written next      *)
(* follows it.                                                             *)
(***************************************************************************)
TopicKept == /\ Len(ckTopic) <= Len(ckTopic)'
             /\ \A i \in DOMAIN ckTopic : i \in DOMAIN ckTopic' /\ ckTopic'[i] = ckTopic[i]

FilesKept == DOMAIN ckFiles \subseteq DOMAIN ckFiles'

LEMMA CheckpointStays ==
  ASSUME NEW m, IsCheckpoint(m), FilesKept
  PROVE  IsCheckpoint(m)'
BY DEF IsCheckpoint, FilesKept

LEMMA TopicStays27 ==
  ASSUME TopicChained, ckTopic' = ckTopic, FilesKept
  PROVE  TopicChained' /\ TopicKept
<1>1. PICK t : t = ckTopic
  OBVIOUS
<1>2. \A j \in DOMAIN t : t[j].form # "garbled" =>
         IsCheckpoint(t[j])' /\ \A i \in 1..(j - 1) : t[i].form # "garbled" => Follows(t[j], i)'
  <2> SUFFICES ASSUME NEW j \in DOMAIN t, t[j].form # "garbled"
               PROVE  /\ IsCheckpoint(t[j])'
                      /\ \A i \in 1..(j - 1) : t[i].form # "garbled" => Follows(t[j], i)'
    OBVIOUS
  <2>1. PICK m : m = t[j]
    OBVIOUS
  <2>2. IsCheckpoint(m) /\ \A i \in 1..(j - 1) : t[i].form # "garbled" => Follows(m, i)
    BY <1>1, <2>1 DEF TopicChained
  <2>3. IsCheckpoint(m)'
    BY <2>2, CheckpointStays
  <2>4. \A i \in 1..(j - 1) : t[i].form # "garbled" => Follows(m, i)'
    BY <2>2 DEF Follows
  <2> QED BY <2>1, <2>3, <2>4
<1>3. ckTopic \in Seq(Messages27)
  BY DEF TopicChained
<1>4. TopicChained'
  BY <1>1, <1>2, <1>3 DEF TopicChained, IsCheckpoint, Follows
<1> QED BY <1>3, <1>4 DEF TopicKept

LEMMA TopicGrows27 ==
  ASSUME TopicChained, ckFiles' = ckFiles, NEW m \in Messages27, ckTopic' = Append(ckTopic, m),
         m.form # "garbled" =>
           IsCheckpoint(m) /\ \A i \in DOMAIN ckTopic : ckTopic[i].form # "garbled" => Follows(m, i)
  PROVE  /\ TopicChained' /\ TopicKept
         /\ Len(ckTopic) + 1 \in DOMAIN ckTopic' /\ ckTopic'[Len(ckTopic) + 1] = m
         /\ \A i \in DOMAIN ckTopic' : i \in DOMAIN ckTopic \/ i = Len(ckTopic) + 1
<1>1. PICK n \in Nat : Len(ckTopic) = n /\ DOMAIN ckTopic = 1..n
  BY DEF TopicChained
<1>2. /\ ckTopic' \in Seq(Messages27) /\ Len(ckTopic') = n + 1 /\ DOMAIN ckTopic' = 1..(n + 1)
      /\ ckTopic'[n + 1] = m /\ \A i \in 1..n : ckTopic'[i] = ckTopic[i]
  BY <1>1, AppendProperties DEF TopicChained
<1>3. FilesKept
  BY DEF FilesKept
<1>4. ASSUME NEW j \in 1..(n + 1), NEW x, x = ckTopic'[j], x.form # "garbled"
      PROVE  /\ IsCheckpoint(x)'
             /\ \A i \in 1..(j - 1) : ckTopic'[i].form # "garbled" => Follows(x, i)'
  <2>1. IsCheckpoint(x) /\ \A i \in 1..(j - 1) : ckTopic[i].form # "garbled" => Follows(x, i)
    <3>1. CASE j = n + 1
      BY <1>1, <1>2, <1>4, <3>1
    <3>2. CASE j # n + 1
      <4>1. j \in 1..n /\ x = ckTopic[j]
        BY <1>2, <1>4, <3>2
      <4> QED BY <1>1, <1>4, <4>1 DEF TopicChained
    <3> QED BY <3>1, <3>2
  <2>2. IsCheckpoint(x)'
    BY <1>3, <2>1, CheckpointStays
  <2>3. \A i \in 1..(j - 1) : ckTopic'[i] = ckTopic[i]
    BY <1>2
  <2> QED BY <2>1, <2>2, <2>3 DEF Follows
<1>5. TopicChained'
  <2>1. ASSUME NEW j \in 1..(n + 1), ckTopic'[j].form # "garbled"
        PROVE  /\ IsCheckpoint(ckTopic[j])'
               /\ \A i \in 1..(j - 1) : ckTopic'[i].form # "garbled" => Follows(ckTopic[j], i)'
    <3>1. PICK x : x = ckTopic'[j]
      OBVIOUS
    <3>2. /\ IsCheckpoint(x)'
          /\ \A i \in 1..(j - 1) : ckTopic'[i].form # "garbled" => Follows(x, i)'
      BY <1>4, <2>1, <3>1
    <3> QED BY <3>1, <3>2 DEF IsCheckpoint, Follows
  <2> QED BY <1>2, <2>1 DEF TopicChained
<1> QED BY <1>1, <1>2, <1>5 DEF TopicKept

(***************************************************************************)
(* What a reader holds does not change with the topic.                     *)
(***************************************************************************)
LEMMA ChainStays ==
  ASSUME NEW rs \in Seq(Nat), TopicKept, \A i \in DOMAIN rs : rs[i] \in DOMAIN ckTopic, ValidChain(rs)
  PROVE  ValidChain(rs)'
<1>1. PICK n \in Nat : DOMAIN rs = 1..n
  OBVIOUS
<1>2. \A i \in 1..n : ckTopic'[rs[i]] = ckTopic[rs[i]]
  BY <1>1 DEF TopicKept
<1> SUFFICES ASSUME NEW j \in 1..n
             PROVE  LET m == ckTopic'[rs[j]].metadata
                        before == {i \in 1..(j - 1) : ckTopic'[rs[i]].metadata.stream = m.stream}
                    IN  before # {} =>
                          LET i == CHOOSE k \in before : \A l \in before : l <= k
                          IN  Linked(m, ckTopic'[rs[i]].metadata)
  BY <1>1 DEF ValidChain, Linked
<1> DEFINE before == {i \in 1..(j - 1) : ckTopic[rs[i]].metadata.stream = ckTopic[rs[j]].metadata.stream}
           later == {i \in 1..(j - 1) : ckTopic'[rs[i]].metadata.stream = ckTopic'[rs[j]].metadata.stream}
           pick == CHOOSE k \in before : \A l \in before : l <= k
<1>3. later = before
  <2>1. \A i \in 1..(j - 1) : i \in 1..n
    OBVIOUS
  <2> QED BY <1>2, <2>1
<1>4. ASSUME before # {}
      PROVE  Linked(ckTopic'[rs[j]].metadata, ckTopic'[rs[pick]].metadata)
  <2>1. Linked(ckTopic[rs[j]].metadata, ckTopic[rs[pick]].metadata)
    BY <1>1, <1>4 DEF ValidChain
  <2>2. pick \in before
    <3>1. before \in SUBSET (0..n)
      OBVIOUS
    <3>2. \E k \in before : \A l \in before : l <= k
      BY <1>4, <3>1, GreatestElement
    <3> QED BY <3>2
  <2>3. pick \in 1..n
    <3>1. pick \in 1..(j - 1)
      BY <2>2
    <3> HIDE DEF pick
    <3> QED BY <3>1
  <2> HIDE DEF pick
  <2> QED BY <1>2, <2>1, <2>3 DEF Linked
<1> QED BY <1>3, <1>4

LEMMA ReaderStays ==
  ASSUME TopicChained, ReaderOK, TopicKept, ckReader' = ckReader
  PROVE  ReaderOK'
<1>1. PICK r \in Readers27 : r = ckReader
  BY DEF ReaderOK
<1>2. PICK len \in Nat : DOMAIN ckTopic = 1..len /\ Len(ckTopic) = len
  BY DEF TopicChained
<1>3. r.fetched \in Nat /\ r.fetched <= len /\ r.records \in Seq(Nat)
  BY <1>1, <1>2 DEF ReaderOK, Readers27
<1>4. \A i \in DOMAIN r.records : r.records[i] \in 1..r.fetched /\ r.records[i] \in DOMAIN ckTopic
  BY <1>1, <1>2, <1>3 DEF ReaderOK
<1>5. r.verdict = "accepted" => ValidChain(r.records)'
  BY <1>1, <1>3, <1>4, ChainStays DEF ReaderOK
<1>6. r.fetched <= Len(ckTopic)'
  <2>1. ckTopic' \in Seq(Messages27) => Len(ckTopic)' \in Nat
    OBVIOUS
  <2> QED BY <1>2, <1>3, <2>1 DEF TopicKept
<1> QED BY <1>1, <1>4, <1>5, <1>6 DEF ReaderOK, TopicKept

LEMMA PublishedStays ==
  ASSUME PublishedOK, TopicKept, ckPublished' = ckPublished
  PROVE  PublishedOK'
BY DEF PublishedOK, TopicKept

LEMMA PublishKeeps27 == CkInv /\ PublishCheckpoint => CkInv'
<1> SUFFICES ASSUME CkInv, PublishCheckpoint PROVE CkInv'
  OBVIOUS
<1>1. /\ ckTopic' = ckTopic /\ ckFiles' = ckFiles /\ ckPublished' = ckPublished
      /\ ckReader' = ckReader /\ ckPc = "idle"
  BY DEF PublishCheckpoint
<1>2. TopicChained' /\ TopicKept
  BY <1>1, TopicStays27 DEF CkInv, FilesKept
<1>3. FilesOK' /\ PublishedOK' /\ ReaderOK'
  BY <1>1, <1>2, ReaderStays, PublishedStays DEF CkInv, FilesOK
<1>4. CASE UNCHANGED <<ckPc, ckMessage>>
  BY <1>1, <1>2, <1>3, <1>4 DEF CkInv, PublishOK
<1>5. CASE ~UNCHANGED <<ckPc, ckMessage>>
  <2>a. PICK s \in Streams, grow \in {0, 1}, form \in {"valid", "malformed"} :
          LET root == [size |-> Head27(s).size + grow, root |-> Head27(s).root + grow]
              metadata == [form |-> form, stream |-> s, root |-> root, prev |-> Head27(s)]
          IN  /\ ValidMetadata(metadata)
              /\ ckPc' \in {"publishMetadata", "submit"}
              /\ ckMessage' = [form |-> "inline", metadata |-> metadata]
    BY <1>5 DEF PublishCheckpoint
  <2>b. PICK root, metadata :
          /\ root = [size |-> Head27(s).size + grow, root |-> Head27(s).root + grow]
          /\ metadata = [form |-> form, stream |-> s, root |-> root, prev |-> Head27(s)]
    OBVIOUS
  <2>1. /\ ValidMetadata(metadata)
        /\ ckPc' \in {"publishMetadata", "submit"}
        /\ ckMessage' = [form |-> "inline", metadata |-> metadata]
    BY <2>a, <2>b
  <2>2. PICK head \in Roots : head = Head27(s) /\ head.root = head.size
    BY HeadIsGreatest
  <2>3. root \in Roots /\ root.root = root.size
    BY <2>b, <2>2 DEF Roots
  <2>4. metadata \in Metadata27
    BY <2>b, <2>2, <2>3 DEF Metadata27
  <2>5. PICK m : m = ckMessage'
    OBVIOUS
  <2>6. m \in Messages27 /\ m.form = "inline" /\ m.metadata = metadata
    BY <2>1, <2>4, <2>5 DEF Messages27
  <2>7. IsCheckpoint(m)
    BY <2>1, <2>b, <2>3, <2>4, <2>6 DEF IsCheckpoint
  <2>8. \A i \in DOMAIN ckTopic : ckTopic[i].form # "garbled" => Follows(m, i)
    BY <2>b, <2>2, <2>6, HeadIsGreatest DEF Follows, Checkpointed
  <2>9. PublishOK'
    BY <1>1, <2>1, <2>5, <2>6, <2>7, <2>8 DEF PublishOK, IsCheckpoint, Follows
  <2> QED BY <1>2, <1>3, <2>9 DEF CkInv
<1> QED BY <1>4, <1>5

(***************************************************************************)
(* Files: one that is new, and one that gets a chunk.                      *)
(***************************************************************************)
LEMMA NewFileOK ==
  ASSUME NEW total \in {1, 2}, NEW file, file = [total |-> total, chunks |-> << >>]
  PROVE  FileOK(file)
<1>1. file.total = total /\ file.chunks = << >> /\ file \in Files27
  BY DEF Files27
<1>2. OursIn(file) = {}
  BY <1>1 DEF OursIn
<1>3. Ours27(file) = 0
  BY <1>2, FS_EmptySet DEF OursIn, Ours27
<1>4. 1..0 = {}
  OBVIOUS
<1>5. Ours27(file) \in 0..file.total
  BY <1>1, <1>3
<1> QED BY <1>1, <1>2, <1>3, <1>4, <1>5 DEF FileOK

LEMMA ChunkKeepsFile ==
  ASSUME NEW file, FileOK(file), NEW chunk \in Chunks, chunk.total = file.total,
         file.chunks = << >> => chunk.upload = "publisher",
         chunk.upload = "publisher" =>
           Ours27(file) < file.total /\ chunk.number = Ours27(file) + 1,
         NEW more, more = [file EXCEPT !.chunks = Append(file.chunks, chunk)]
  PROVE  FileOK(more)
<1>1. file.chunks \in Seq(Chunks) /\ file.total \in {1, 2} /\ file \in Files27
  BY DEF FileOK, Files27
<1>2. PICK n \in Nat : Len(file.chunks) = n /\ DOMAIN file.chunks = 1..n
  BY <1>1
<1> DEFINE appended == Append(file.chunks, chunk)
<1>a. /\ appended \in Seq(Chunks) /\ Len(appended) = n + 1 /\ appended[n + 1] = chunk
      /\ \A i \in 1..n : appended[i] = file.chunks[i]
  BY <1>1, <1>2, AppendProperties
<1> HIDE DEF appended
<1>b. DOMAIN appended = 1..(n + 1)
  BY <1>2, <1>a
<1>3. PICK chunks \in Seq(Chunks) :
        /\ chunks = appended /\ DOMAIN chunks = 1..(n + 1)
        /\ chunks[n + 1] = chunk /\ \A i \in 1..n : chunks[i] = file.chunks[i]
  BY <1>a, <1>b
<1>4. more.chunks = chunks /\ more.total = file.total /\ more \in Files27
  BY <1>1, <1>3 DEF Files27, appended
<1>5. PICK mine \in Nat : mine = Ours27(file) /\ mine \in 0..file.total
  BY <1>1 DEF FileOK
<1>6. IsFiniteSet(OursIn(file)) /\ n + 1 \notin OursIn(file)
  <2>1. IsFiniteSet(1..n)
    BY FS_Interval
  <2>2. OursIn(file) \subseteq 1..n
    BY <1>2 DEF OursIn
  <2> QED BY <2>1, <2>2, FS_Subset
<1>7. {file.chunks[i].number : i \in OursIn(file)} = 1..mine
  BY <1>5 DEF FileOK
<1>8. OursIn(more) = {i \in 1..(n + 1) : chunks[i].upload = "publisher"}
  BY <1>3, <1>4 DEF OursIn
<1>9. /\ \A i \in DOMAIN more.chunks : more.chunks[i].total = more.total
      /\ more.chunks[1].upload = "publisher"
  <2>1. \A i \in 1..n : file.chunks[i].total = file.total
    BY <1>2 DEF FileOK
  <2>2. \A i \in 1..(n + 1) : chunks[i].total = file.total
    BY <1>3, <2>1
  <2>3. CASE n = 0
    <3>1. file.chunks = << >>
      BY <1>1, <1>2, <2>3
    <3> QED BY <1>3, <1>4, <2>2, <2>3, <3>1
  <2>4. CASE n # 0
    <3>1. file.chunks # << >> /\ 1 \in 1..n
      BY <1>2, <2>4
    <3>2. file.chunks[1].upload = "publisher"
      BY <3>1 DEF FileOK
    <3> QED BY <1>3, <1>4, <2>2, <3>1, <3>2
  <2> QED BY <2>3, <2>4
<1>10. CASE chunk.upload = "publisher"
  <2>1. OursIn(more) = OursIn(file) \cup {n + 1}
    BY <1>2, <1>3, <1>8, <1>10 DEF OursIn
  <2>2. Ours27(more) = mine + 1
    <3>1. Ours27(file) = Cardinality(OursIn(file)) /\ Ours27(more) = Cardinality(OursIn(more))
      BY DEF OursIn, Ours27
    <3>2. Cardinality(OursIn(file) \cup {n + 1}) = Cardinality(OursIn(file)) + 1
      BY <1>6, FS_AddElement
    <3> QED BY <1>5, <2>1, <3>1, <3>2
  <2>3. mine + 1 \in 0..file.total
    BY <1>1, <1>5, <1>10
  <2>4. {more.chunks[i].number : i \in OursIn(more)} = 1..(mine + 1)
    <3>1. {more.chunks[i].number : i \in OursIn(more)}
            = {chunks[i].number : i \in OursIn(file)} \cup {chunks[n + 1].number}
      BY <1>4, <2>1
    <3>2. \A i \in OursIn(file) : chunks[i] = file.chunks[i]
      BY <1>2, <1>3 DEF OursIn
    <3>3. {chunks[i].number : i \in OursIn(file)} = {file.chunks[i].number : i \in OursIn(file)}
      BY <3>2
    <3>4. chunks[n + 1].number = mine + 1
      BY <1>3, <1>5, <1>10
    <3>5. (1..mine) \cup {mine + 1} = 1..(mine + 1)
      OBVIOUS
    <3> QED BY <1>7, <3>1, <3>3, <3>4, <3>5
  <2> QED BY <1>4, <1>9, <2>2, <2>3, <2>4 DEF FileOK
<1>11. CASE chunk.upload # "publisher"
  <2>1. OursIn(more) = OursIn(file)
    BY <1>2, <1>3, <1>8, <1>11 DEF OursIn
  <2>2. Ours27(more) = mine
    BY <1>5, <2>1 DEF OursIn, Ours27
  <2>3. {more.chunks[i].number : i \in OursIn(more)} = 1..mine
    <3>1. \A i \in OursIn(file) : chunks[i] = file.chunks[i]
      BY <1>2, <1>3 DEF OursIn
    <3> QED BY <1>4, <1>7, <2>1, <3>1
  <2> QED BY <1>4, <1>5, <1>9, <2>2, <2>3 DEF FileOK
<1> QED BY <1>10, <1>11

LEMMA PublishStays ==
  ASSUME PublishOK, TopicKept, ckTopic' = ckTopic, FilesKept, UNCHANGED <<ckPc, ckMessage>>
  PROVE  PublishOK'
<1>1. PICK m : m = ckMessage
  OBVIOUS
<1>2. CASE ckPc = "idle"
  BY <1>2 DEF PublishOK
<1>3. CASE ckPc # "idle"
  <2>1. IsCheckpoint(m)'
    BY <1>1, <1>3, CheckpointStays DEF PublishOK
  <2> QED BY <1>1, <1>3, <2>1 DEF PublishOK, IsCheckpoint, Follows
<1> QED BY <1>2, <1>3

LEMMA OneFileGrows ==
  ASSUME CkInv, NEW f \in DOMAIN ckFiles, NEW chunk \in Chunks,
         ckFiles' = [ckFiles EXCEPT ![f].chunks = Append(@, chunk)],
         chunk.total = ckFiles[f].total,
         ckFiles[f].chunks = << >> => chunk.upload = "publisher",
         chunk.upload = "publisher" =>
           Ours27(ckFiles[f]) < ckFiles[f].total /\ chunk.number = Ours27(ckFiles[f]) + 1,
         UNCHANGED <<ckTopic, ckPc, ckMessage, ckPublished, ckReader>>
  PROVE  CkInv'
<1>1. f \in 1..Len(ckFiles) /\ DOMAIN ckFiles = 1..Len(ckFiles) /\ ckFiles[f] \in SoundFiles
  BY DEF CkInv, FilesOK
<1>2. PICK file, more : file = ckFiles[f] /\ more = [file EXCEPT !.chunks = Append(file.chunks, chunk)]
  OBVIOUS
<1>3. more \in SoundFiles
  <2>1. FileOK(file)
    BY <1>1, <1>2 DEF SoundFiles
  <2>2. FileOK(more)
    BY <1>2, <2>1, ChunkKeepsFile
  <2> QED BY <2>2 DEF SoundFiles, FileOK
<1>4. ckFiles' = [ckFiles EXCEPT ![f] = more]
  BY <1>2
<1>5. ckFiles' \in Seq(SoundFiles) /\ Len(ckFiles') = Len(ckFiles)
  <2>1. PICK fs \in Seq(SoundFiles) : fs = ckFiles
    BY DEF CkInv, FilesOK
  <2>2. [fs EXCEPT ![f] = more] \in Seq(SoundFiles) /\ Len([fs EXCEPT ![f] = more]) = Len(fs)
    BY <1>1, <1>3, <2>1, ExceptSeq
  <2> QED BY <1>4, <2>1, <2>2
<1>6. DOMAIN ckFiles' = DOMAIN ckFiles
  BY <1>1, <1>5
<1>7. FilesOK'
  BY <1>5 DEF FilesOK
<1>8. FilesKept
  BY <1>6 DEF FilesKept
<1>9. TopicChained' /\ TopicKept
  BY <1>8, TopicStays27 DEF CkInv
<1>10. PublishOK' /\ PublishedOK' /\ ReaderOK'
  BY <1>8, <1>9, PublishStays, PublishedStays, ReaderStays DEF CkInv
<1> QED BY <1>7, <1>9, <1>10 DEF CkInv

LEMMA ChunksKeep == CkInv /\ (\E f \in DOMAIN ckFiles : ChunkArrives(f) \/ ForeignChunk(f)) => CkInv'
<1> SUFFICES ASSUME CkInv, NEW f \in DOMAIN ckFiles, ChunkArrives(f) \/ ForeignChunk(f) PROVE CkInv'
  OBVIOUS
<1>1. PICK file : file = ckFiles[f] /\ FileOK(file)
  <2>1. ckFiles[f] \in SoundFiles
    BY DEF CkInv, FilesOK
  <2> QED BY <2>1 DEF SoundFiles
<1>2. file.total \in {1, 2} /\ Ours27(file) \in 0..file.total
  BY <1>1 DEF FileOK, Files27
<1>3. CASE ChunkArrives(f)
  <2>1. PICK chunk : chunk = [upload |-> "publisher", total |-> file.total, number |-> Ours27(file) + 1]
    OBVIOUS
  <2>2. Ours27(file) < file.total
    BY <1>1, <1>3 DEF ChunkArrives
  <2>3. Ours27(file) + 1 \in {1, 2}
    BY <1>2, <2>2
  <2>4. chunk \in Chunks /\ chunk.total = file.total /\ chunk.number = Ours27(file) + 1
        /\ chunk.upload = "publisher"
    BY <1>2, <2>1, <2>3 DEF Chunks
  <2>5. /\ ckFiles' = [ckFiles EXCEPT ![f].chunks = Append(@, chunk)]
        /\ UNCHANGED <<ckTopic, ckPc, ckMessage, ckPublished, ckReader>>
    BY <1>1, <1>3, <2>1 DEF ChunkArrives
  <2> QED BY <1>1, <2>2, <2>4, <2>5, OneFileGrows
<1>4. CASE ForeignChunk(f)
  <2>1. PICK n \in 1..file.total :
          ckFiles' = [ckFiles EXCEPT ![f].chunks =
            Append(@, [upload |-> "other", total |-> file.total, number |-> n])]
    BY <1>1, <1>4 DEF ForeignChunk
  <2>2. PICK chunk : chunk = [upload |-> "other", total |-> file.total, number |-> n]
    OBVIOUS
  <2>3. n \in {1, 2}
    BY <1>2, <2>1
  <2>4. chunk \in Chunks /\ chunk.total = file.total /\ chunk.upload = "other"
    BY <1>2, <2>2, <2>3 DEF Chunks
  <2>5. /\ ckFiles' = [ckFiles EXCEPT ![f].chunks = Append(@, chunk)]
        /\ UNCHANGED <<ckTopic, ckPc, ckMessage, ckPublished, ckReader>>
        /\ ckFiles[f].chunks # << >>
    BY <1>4, <2>1, <2>2 DEF ForeignChunk
  <2> QED BY <1>1, <2>4, <2>5, OneFileGrows
<1> QED BY <1>3, <1>4

LEMMA MetadataKeeps == CkInv /\ PublishMetadata => CkInv'
<1> SUFFICES ASSUME CkInv, PublishMetadata PROVE CkInv'
  OBVIOUS
<1>1. /\ ckTopic' = ckTopic /\ ckPublished' = ckPublished /\ ckReader' = ckReader
      /\ ckPc = "publishMetadata"
  BY DEF PublishMetadata
<1>2. PICK fs \in Seq(SoundFiles), len \in Nat : fs = ckFiles /\ Len(fs) = len /\ DOMAIN fs = 1..len
  BY DEF CkInv, FilesOK
<1>3. CASE ckPc' = "idle" /\ ckFiles' = ckFiles
  <2>1. TopicChained' /\ TopicKept
    BY <1>1, <1>3, TopicStays27 DEF CkInv, FilesKept
  <2>2. FilesOK' /\ PublishOK' /\ PublishedOK' /\ ReaderOK'
    BY <1>1, <1>3, <2>1, ReaderStays, PublishedStays DEF CkInv, FilesOK, PublishOK
  <2> QED BY <2>1, <2>2 DEF CkInv
<1>4. CASE ~(ckPc' = "idle" /\ ckFiles' = ckFiles)
  <2>1. PICK total \in {1, 2} : ckFiles' = Append(ckFiles, [total |-> total, chunks |-> << >>])
    BY <1>4 DEF PublishMetadata
  <2>2. /\ ckPc' = "submit"
        /\ ckMessage' = [form |-> "reference", metadata |-> ckMessage.metadata,
                          file |-> Len(ckFiles) + 1]
    BY <1>4 DEF PublishMetadata
  <2>3. PICK file \in SoundFiles : file = [total |-> total, chunks |-> << >>]
    <3>1. PICK file : file = [total |-> total, chunks |-> << >>]
      OBVIOUS
    <3>2. FileOK(file)
      BY <3>1, NewFileOK
    <3> QED BY <3>1, <3>2 DEF SoundFiles, FileOK
  <2>4. /\ ckFiles' \in Seq(SoundFiles) /\ Len(ckFiles') = len + 1
    <3>1. Append(fs, file) \in Seq(SoundFiles) /\ Len(Append(fs, file)) = len + 1
      BY <1>2, AppendProperties
    <3> QED BY <1>2, <2>1, <2>3, <3>1
  <2>5. DOMAIN ckFiles' = 1..(len + 1)
    BY <2>4
  <2>6. FilesOK' /\ FilesKept
    BY <1>2, <2>4, <2>5 DEF FilesOK, FilesKept
  <2>7. TopicChained' /\ TopicKept
    BY <1>1, <2>6, TopicStays27 DEF CkInv
  <2>8. PublishedOK' /\ ReaderOK'
    BY <1>1, <2>7, ReaderStays, PublishedStays DEF CkInv
  <2>9. PICK old, m : old = ckMessage /\ m = ckMessage'
    OBVIOUS
  <2>10. /\ IsCheckpoint(old)
         /\ \A i \in DOMAIN ckTopic : ckTopic[i].form # "garbled" => Follows(old, i)
    BY <1>1, <2>9 DEF CkInv, PublishOK
  <2>11. m.form = "reference" /\ m.metadata = old.metadata /\ m.file = len + 1
    BY <1>2, <2>2, <2>9
  <2>12. m \in Messages27
    <3>1. old.metadata \in Metadata27 /\ len + 1 \in Nat
      BY <2>10 DEF IsCheckpoint
    <3> QED BY <1>2, <2>2, <2>9, <3>1 DEF Messages27
  <2>13. IsCheckpoint(m)'
    BY <2>5, <2>10, <2>11 DEF IsCheckpoint
  <2>14. \A i \in DOMAIN ckTopic : ckTopic[i].form # "garbled" => Follows(m, i)
    BY <2>10, <2>11 DEF Follows
  <2>15. PublishOK'
    BY <1>1, <2>2, <2>9, <2>12, <2>13, <2>14 DEF PublishOK, IsCheckpoint, Follows
  <2> QED BY <2>6, <2>7, <2>8, <2>15 DEF CkInv
<1> QED BY <1>3, <1>4

LEMMA SubmitKeeps27 == CkInv /\ SubmitCheckpoint => CkInv'
<1> SUFFICES ASSUME CkInv, SubmitCheckpoint PROVE CkInv'
  OBVIOUS
<1>1. PICK accepted \in BOOLEAN, answered \in BOOLEAN :
        /\ ckTopic' = IF accepted THEN Append(ckTopic, ckMessage) ELSE ckTopic
        /\ ckPublished' = IF accepted /\ answered
                            THEN Append(ckPublished, [seq |-> Len(ckTopic) + 1,
                                                      metadata |-> ckMessage.metadata])
                            ELSE ckPublished
  BY DEF SubmitCheckpoint
<1>2. /\ ckPc = "submit" /\ ckPc' = "idle" /\ ckFiles' = ckFiles /\ ckReader' = ckReader
  BY DEF SubmitCheckpoint
<1>3. PublishOK' /\ FilesOK' /\ FilesKept
  BY <1>2 DEF CkInv, PublishOK, FilesOK, FilesKept
<1>4. CASE ~accepted
  <2>1. ckTopic' = ckTopic /\ ckPublished' = ckPublished
    BY <1>1, <1>4
  <2>2. TopicChained' /\ TopicKept
    BY <1>3, <2>1, TopicStays27 DEF CkInv
  <2> QED BY <1>2, <1>3, <2>1, <2>2, ReaderStays, PublishedStays DEF CkInv
<1>5. CASE accepted
  <2>1. PICK m \in Messages27 : m = ckMessage
    BY <1>2 DEF CkInv, PublishOK
  <2>2. /\ IsCheckpoint(m)
        /\ \A i \in DOMAIN ckTopic : ckTopic[i].form # "garbled" => Follows(m, i)
    BY <1>2, <2>1 DEF CkInv, PublishOK
  <2>3. ckTopic' = Append(ckTopic, m)
    BY <1>1, <1>5, <2>1
  <2>4. /\ TopicChained' /\ TopicKept
        /\ Len(ckTopic) + 1 \in DOMAIN ckTopic' /\ ckTopic'[Len(ckTopic) + 1] = m
    BY <1>2, <2>2, <2>3, TopicGrows27 DEF CkInv
  <2>5. ReaderOK'
    BY <1>2, <2>4, ReaderStays DEF CkInv
  <2>6. CASE ckPublished' = ckPublished
    BY <1>3, <2>4, <2>5, <2>6, PublishedStays DEF CkInv
  <2>7. CASE ckPublished' # ckPublished
    <3>1. PICK p \in Published27 : p = [seq |-> Len(ckTopic) + 1, metadata |-> m.metadata]
      <4>1. Len(ckTopic) + 1 \in Nat
        BY DEF CkInv, TopicChained
      <4> QED BY <2>2, <4>1 DEF Published27, IsCheckpoint
    <3>2. ckPublished' = Append(ckPublished, p)
      BY <1>1, <2>1, <2>7, <3>1
    <3>3. /\ ckPublished' \in Seq(Published27)
          /\ \A i \in DOMAIN ckPublished' :
                \/ ckPublished'[i] = p
                \/ i \in DOMAIN ckPublished /\ ckPublished'[i] = ckPublished[i]
      <4>1. PICK ps \in Seq(Published27) : ps = ckPublished
        BY DEF CkInv, PublishedOK
      <4>2. /\ Append(ps, p) \in Seq(Published27) /\ Len(Append(ps, p)) = Len(ps) + 1
            /\ \A i \in 1..Len(ps) : Append(ps, p)[i] = ps[i]
            /\ Append(ps, p)[Len(ps) + 1] = p
        BY AppendProperties
      <4>3. PICK k \in Nat : Len(ps) = k /\ DOMAIN ps = 1..k
        BY <4>1
      <4>4. DOMAIN ckPublished' = 1..(k + 1) /\ ckPublished' \in Seq(Published27)
        BY <3>2, <4>1, <4>2, <4>3
      <4>5. \A i \in 1..(k + 1) : i \in 1..k \/ i = k + 1
        OBVIOUS
      <4> QED BY <3>2, <4>1, <4>2, <4>3, <4>4, <4>5
    <3>4. m.form # "garbled"
      BY <2>2 DEF IsCheckpoint
    <3>5. p.seq = Len(ckTopic) + 1 /\ p.metadata = m.metadata
      BY <3>1
    <3>6. PublishedOK'
      BY <2>4, <3>3, <3>4, <3>5 DEF CkInv, PublishedOK, TopicKept
    <3> QED BY <1>3, <2>4, <2>5, <3>6 DEF CkInv
  <2> QED BY <2>6, <2>7
<1> QED BY <1>4, <1>5

LEMMA GarbageKeeps == CkInv /\ Garbage => CkInv'
<1> SUFFICES ASSUME CkInv, Garbage PROVE CkInv'
  OBVIOUS
<1>1. PICK m \in Messages27 : m.form = "garbled" /\ ckTopic' = Append(ckTopic, m)
  <2>1. [form |-> "garbled"] \in Messages27
    BY DEF Messages27
  <2> QED BY <2>1 DEF Garbage
<1>2. UNCHANGED <<ckFiles, ckPc, ckMessage, ckPublished, ckReader>>
  BY DEF Garbage
<1>3. /\ TopicChained' /\ TopicKept /\ ckTopic'[Len(ckTopic) + 1] = m
      /\ \A i \in DOMAIN ckTopic' : i \in DOMAIN ckTopic \/ i = Len(ckTopic) + 1
  BY <1>1, <1>2, TopicGrows27 DEF CkInv
<1>4. PublishOK'
  <2>1. PICK u : u = ckMessage
    OBVIOUS
  <2>2. ASSUME ckPc # "idle"
        PROVE  u \in Messages27 /\ IsCheckpoint(u)'
    <3>1. IsCheckpoint(u) /\ FilesKept
      BY <1>2, <2>1, <2>2 DEF CkInv, PublishOK, FilesKept
    <3> QED BY <2>1, <2>2, <3>1, CheckpointStays DEF CkInv, PublishOK
  <2>3. ckPc # "idle" => \A i \in DOMAIN ckTopic' : ckTopic'[i].form # "garbled" => Follows(u, i)'
    <3> SUFFICES ASSUME ckPc # "idle", NEW i \in DOMAIN ckTopic', ckTopic'[i].form # "garbled"
                 PROVE  Follows(u, i)'
      OBVIOUS
    <3>1. i \in DOMAIN ckTopic /\ ckTopic'[i] = ckTopic[i]
      BY <1>1, <1>3 DEF TopicKept
    <3>2. Follows(u, i)
      BY <2>1, <3>1 DEF CkInv, PublishOK
    <3> QED BY <3>1, <3>2 DEF Follows
  <2> QED BY <1>2, <2>1, <2>2, <2>3 DEF CkInv, PublishOK, IsCheckpoint, Follows
<1>5. FilesOK' /\ PublishedOK' /\ ReaderOK'
  BY <1>2, <1>3, PublishedStays, ReaderStays DEF CkInv, FilesOK
<1> QED BY <1>3, <1>4, <1>5 DEF CkInv

(***************************************************************************)
(* The reader changes nothing but what it holds.                           *)
(***************************************************************************)
LEMMA ReaderAlone ==
  ASSUME CkInv, UNCHANGED publishVars, ReaderOK'
  PROVE  CkInv'
<1>1. TopicChained' /\ TopicKept
  BY TopicStays27 DEF CkInv, FilesKept, publishVars
<1>2. FilesOK' /\ PublishOK' /\ PublishedOK'
  BY <1>1, PublishStays, PublishedStays DEF CkInv, FilesOK, FilesKept, publishVars
<1> QED BY <1>1, <1>2 DEF CkInv

LEMMA ReadingKeeps == CkInv /\ (GetCheckpoints \/ ReadNext) => CkInv'
<1> SUFFICES ASSUME CkInv, GetCheckpoints \/ ReadNext PROVE CkInv'
  OBVIOUS
<1>1. UNCHANGED publishVars
  BY DEF GetCheckpoints, ReadNext
<1>2. PICK len \in Nat : DOMAIN ckTopic = 1..len /\ Len(ckTopic) = len
  BY DEF CkInv, TopicChained
<1>3. ckTopic' = ckTopic
  BY <1>1 DEF publishVars
<1>4. CASE GetCheckpoints
  <2>1. PICK n \in 1..len : ckReader' = [Idle27 EXCEPT !.pc = "read", !.fetched = n, !.at = 1]
    BY <1>2, <1>4 DEF GetCheckpoints
  <2>2. PICK r : r = ckReader'
    OBVIOUS
  <2>3. r.pc = "read" /\ r.fetched = n /\ r.at = 1 /\ r.records = << >> /\ r.verdict = "none"
    BY <2>1, <2>2 DEF Idle27
  <2>4. r \in Readers27
    <3>1. n \in Nat /\ 1 \in Nat /\ << >> \in Seq(Nat)
      OBVIOUS
    <3>2. r = [pc |-> "read", fetched |-> n, at |-> 1, records |-> << >>, verdict |-> "none"]
      BY <2>1, <2>2 DEF Idle27
    <3> QED BY <3>1, <3>2 DEF Readers27
  <2>5. ReaderOK'
    BY <1>2, <1>3, <2>1, <2>2, <2>3, <2>4 DEF ReaderOK
  <2> QED BY <1>1, <2>5, ReaderAlone
<1>5. CASE ReadNext
  <2>1. PICK r \in Readers27, at \in Nat : r = ckReader /\ at = r.at /\ r.records \in Seq(Nat)
                                             /\ r.fetched \in Nat
    BY DEF CkInv, ReaderOK, Readers27
  <2>2. r.pc = "read" /\ at \in 1..r.fetched /\ at \in 1..len /\ r.fetched <= len
    BY <1>2, <1>5, <2>1 DEF ReadNext, CkInv, ReaderOK
  <2>3. PICK n \in Nat : Len(r.records) = n /\ DOMAIN r.records = 1..n
    BY <2>1
  <2>4. \A i \in 1..n : /\ r.records[i] \in 1..r.fetched /\ r.records[i] < at
                          /\ ckTopic[r.records[i]].form # "garbled"
                          /\ \A j \in 1..n : i < j => r.records[i] < r.records[j]
    BY <2>1, <2>3 DEF CkInv, ReaderOK
  <2>5. r.verdict # "accepted"
    BY <2>1, <2>2 DEF CkInv, ReaderOK
  <2>6. PICK s : s = ckReader'
    OBVIOUS
  <2>7. CASE s = [r EXCEPT !.at = at + 1]
    <3>1. s \in Readers27 /\ s.pc = "read" /\ s.fetched = r.fetched /\ s.at = at + 1
          /\ s.records = r.records /\ s.verdict = r.verdict
      BY <2>1, <2>2, <2>7 DEF Readers27
    <3>2. /\ DOMAIN s.records = 1..n /\ s.verdict # "accepted" /\ s.at >= 1 /\ s.fetched <= Len(ckTopic')
      BY <1>2, <1>3, <2>1, <2>2, <2>3, <2>5, <3>1
    <3>3. \A i \in DOMAIN s.records :
            /\ s.records[i] \in 1..s.fetched /\ s.records[i] < s.at
            /\ ckTopic'[s.records[i]].form # "garbled"
            /\ \A j \in DOMAIN s.records : i < j => s.records[i] < s.records[j]
      <4>1. \A i \in 1..n : r.records[i] < at + 1
        BY <2>1, <2>3, <2>4
      <4> QED BY <1>3, <2>4, <3>1, <3>2, <4>1
    <3>4. ReaderOK'
      BY <2>6, <3>1, <3>2, <3>3 DEF ReaderOK
    <3> QED BY <1>1, <3>4, ReaderAlone
  <2>8. CASE ckTopic[at].form # "garbled" /\ s = [r EXCEPT !.at = at + 1, !.records = Append(r.records, at)]
    <3>1. PICK more \in Seq(Nat) : more = Append(r.records, at)
      BY <2>1, AppendProperties
    <3>2. /\ DOMAIN more = 1..(n + 1) /\ more[n + 1] = at
          /\ \A i \in 1..n : more[i] = r.records[i]
      BY <2>1, <2>3, <3>1, AppendProperties
    <3>3. s \in Readers27 /\ s.pc = "read" /\ s.fetched = r.fetched /\ s.at = at + 1
          /\ s.records = more /\ s.verdict = r.verdict
      <4>1. at + 1 \in Nat
        BY <2>1
      <4>2. s = [r EXCEPT !.at = at + 1, !.records = more]
        BY <2>8, <3>1
      <4>3. s \in Readers27
        BY <4>1, <4>2 DEF Readers27
      <4>4. s.pc = r.pc /\ s.fetched = r.fetched /\ s.at = at + 1 /\ s.records = more
            /\ s.verdict = r.verdict
        BY <4>2 DEF Readers27
      <4> QED BY <2>2, <4>3, <4>4
    <3>4. \A i \in 1..(n + 1) : more[i] \in 1..r.fetched /\ more[i] < at + 1
                                  /\ ckTopic[more[i]].form # "garbled"
      <4>1. \A i \in 1..n : r.records[i] \in 1..r.fetched /\ r.records[i] < at + 1
        BY <2>1, <2>4
      <4> QED BY SMTT(30), <2>2, <2>4, <2>8, <3>2, <4>1
    <3>5. \A i \in 1..(n + 1) : \A j \in 1..(n + 1) : i < j => more[i] < more[j]
      <4> SUFFICES ASSUME NEW i \in 1..(n + 1), NEW j \in 1..(n + 1), i < j PROVE more[i] < more[j]
        OBVIOUS
      <4>1. i \in 1..n /\ (j \in 1..n \/ j = n + 1)
        OBVIOUS
      <4> QED BY <2>4, <3>2, <4>1
    <3>6. ReaderOK'
      BY <1>2, <1>3, <2>2, <2>5, <2>6, <3>2, <3>3, <3>4, <3>5 DEF ReaderOK
    <3> QED BY <1>1, <3>6, ReaderAlone
  <2>9. ReadMessage(ckTopic[at]).ok => ckTopic[at].form # "garbled"
    <3>1. [ok |-> FALSE].ok = FALSE
      OBVIOUS
    <3> QED BY <3>1 DEF ReadMessage
  <2> QED BY <1>5, <2>1, <2>6, <2>7, <2>8, <2>9 DEF ReadNext
<1> QED BY <1>4, <1>5

LEMMA ValidationKeeps == CkInv /\ ValidateCheckpointChain => CkInv'
<1> SUFFICES ASSUME CkInv, ValidateCheckpointChain PROVE CkInv'
  OBVIOUS
<1>1. UNCHANGED publishVars /\ ckTopic' = ckTopic
  BY DEF ValidateCheckpointChain, publishVars
<1>2. PICK r \in Readers27 : r = ckReader
  BY DEF CkInv, ReaderOK
<1>3. PICK verdict \in {"accepted", "refused"} :
        verdict = IF ValidChain(r.records) THEN "accepted" ELSE "refused"
  OBVIOUS
<1>4. ckReader' = [r EXCEPT !.pc = "done", !.verdict = verdict]
  BY <1>2, <1>3 DEF ValidateCheckpointChain
<1>5. PICK s : s = ckReader'
  OBVIOUS
<1>6. s \in Readers27 /\ s.pc = "done" /\ s.fetched = r.fetched /\ s.at = r.at
      /\ s.records = r.records /\ s.verdict = verdict
  BY <1>4, <1>5 DEF Readers27
<1>7. s.verdict = "accepted" => ValidChain(s.records)'
  <2>1. verdict = "accepted" => ValidChain(r.records)
    BY <1>3
  <2>2. PICK rs \in Seq(Nat) : rs = r.records
    BY DEF Readers27
  <2>3. \A i \in DOMAIN rs : rs[i] \in DOMAIN ckTopic
    <3>1. PICK len \in Nat : DOMAIN ckTopic = 1..len /\ Len(ckTopic) = len
      BY DEF CkInv, TopicChained
    <3>2. r.fetched \in Nat /\ r.fetched <= len
      BY <1>2, <3>1 DEF CkInv, ReaderOK, Readers27
    <3>3. \A i \in DOMAIN rs : rs[i] \in 1..r.fetched
      BY <1>2, <2>2 DEF CkInv, ReaderOK
    <3> QED BY <3>1, <3>2, <3>3
  <2>4. TopicKept
    BY <1>1, TopicStays27 DEF CkInv, FilesKept, publishVars
  <2>5. verdict = "accepted" => ValidChain(rs)'
    BY <2>1, <2>2, <2>3, <2>4, ChainStays
  <2> QED BY <1>6, <2>2, <2>5
<1>8. ReaderOK'
  BY <1>1, <1>2, <1>5, <1>6, <1>7 DEF CkInv, ReaderOK
<1> QED BY <1>1, <1>8, ReaderAlone

LEMMA CkStep == CkInv /\ [CkNext]_ckVars => CkInv'
<1> SUFFICES ASSUME CkInv, [CkNext]_ckVars PROVE CkInv'
  OBVIOUS
<1>1. CASE UNCHANGED ckVars
  <2>1. UNCHANGED publishVars /\ ckReader' = ckReader
    BY <1>1 DEF ckVars
  <2>2. TopicKept
    BY <2>1, TopicStays27 DEF CkInv, FilesKept, publishVars
  <2> QED BY <2>1, <2>2, ReaderStays, ReaderAlone DEF CkInv
<1> QED BY <1>1, PublishKeeps27, MetadataKeeps, SubmitKeeps27, GarbageKeeps, ChunksKeep,
           ReadingKeeps, ValidationKeeps DEF CkNext

(***************************************************************************)
(* For any logs, checkpoints and inscriptions, and whatever the mirror     *)
(* node has of each at a moment, an accepted chain has no gap and what was *)
(* published reads as it was.                                              *)
(***************************************************************************)
THEOREM CheckpointsKeptWhole == CkSpec => []CheckpointsAreWhole
<1>1. CkInv => CheckpointsAreWhole
  BY AcceptedHasNoGap, PublishedReads DEF CheckpointsAreWhole
<1> QED BY <1>1, CkInitInv, CkStep, PTL DEF CkSpec

-----------------------------------------------------------------------------
(***************************************************************************)
(* The inscriber.  One call pays once, for the job it has created, and     *)
(* confirms nothing that was not inscribed: for any transaction list, any  *)
(* request, any number of polls, ticks and events of other jobs.           *)
(***************************************************************************)
Records == {"none", "pending", "SUCCESS", "FAILED", "expired"}

(***************************************************************************)
(* Only the id the service chose is ever submitted, and only its success   *)
(* is reported.                                                            *)
(***************************************************************************)
PaymentInv ==
  /\ network \in [Ids -> Records]
  /\ txSubmitted \in {0, 1}
  /\ txResult.ok \in BOOLEAN
  /\ \A id \in Ids : network[id] # "none" => id = 1
  /\ txPc \in {"directReceipt", "receipt"} => txSubmitted = 1
  /\ txPc # "done" => ~txResult.ok
  /\ txResult.ok => txResult.id = 1 /\ network[1] = "SUCCESS"

(***************************************************************************)
(* ExecuteTransaction runs after the one job was created, and never for a  *)
(* quote or the broker; waiting comes after it succeeded.                  *)
(***************************************************************************)
CallInv ==
  /\ request \in Requests
  /\ created \in {0, 1}
  /\ inPc \in {"idle", "authenticate", "start", "createJob"} => created = 0 /\ job = "none"
  /\ inPc \in {"authenticate", "start", "execute", "connect", "listen", "poll", "sleep"} =>
       request.api # "broker"
  /\ inPc \in {"createJob", "waitForJob"} => request.api = "broker"
  /\ inPc \in {"connect", "listen", "poll", "sleep"} => txResult.ok
  /\ txPc = "idle" => network[1] = "none"
  /\ txPc # "idle" => /\ created = 1
                      /\ request.api \in {"Inscribe", "InscribeAndExecute"}
                      /\ request.api = "Inscribe" => ~request.quoteOnly

(***************************************************************************)
(* An event that says the call's job is inscribed is sent by nobody before *)
(* it is.                                                                  *)
(***************************************************************************)
Events == [kind : Kinds, ours : BOOLEAN, final : BOOLEAN]
Announces(e) == e.ours /\ e.kind # "errors" /\ (e.kind = "complete" \/ e.final)
TrueEvents(s) == \A i \in 1..Len(s) : Announces(s[i]) => job = "completed"

EventsInv ==
  /\ outbox \in Seq(Events) /\ TrueEvents(outbox)
  /\ channels \in [Kinds -> Seq(Events)]
  /\ \A k \in Kinds :
       /\ TrueEvents(channels[k])
       /\ \A i \in 1..Len(channels[k]) : channels[k][i].kind = k

ResponseInv ==
  /\ response.confirmed \in BOOLEAN
  /\ response.confirmed =>
       job = "completed" /\ (request.api # "broker" => txResult.ok /\ response.paidWith = 1)

InscriberInv == PaymentInv /\ CallInv /\ EventsInv /\ ResponseInv

-----------------------------------------------------------------------------
LEMMA FirstId == 1 \in Ids
BY MaxIdsAssumption DEF Ids

LEMMA InscriberInitInv == InscriberInit => InscriberInv
<1> SUFFICES ASSUME InscriberInit PROVE InscriberInv
  OBVIOUS
<1>1. PaymentInv
  BY FirstId DEF InscriberInit, TxInit, PaymentInv, NoTx, Records
<1>2. CallInv
  BY FirstId DEF InscriberInit, InInit, TxInit, CallInv
<1>3. ResponseInv
  BY DEF InscriberInit, InInit, ResponseInv, NoResponse
<1>4. EventsInv
  <2> USE DEF InscriberInit, InInit, NoEvents
  <2>1. outbox = << >> /\ \A k \in Kinds : channels[k] = << >>
    OBVIOUS
  <2>2. outbox \in Seq(Events)
    BY <2>1
  <2>3. channels \in [Kinds -> Seq(Events)]
    OBVIOUS
  <2> QED BY <2>1, <2>2, <2>3 DEF EventsInv, TrueEvents
<1> QED BY <1>1, <1>2, <1>3, <1>4 DEF InscriberInv

(***************************************************************************)
(* The network keeps to the one id, and never takes a success back.        *)
(***************************************************************************)
NetworkKeeps ==
  /\ network' \in [Ids -> Records]
  /\ \A id \in Ids : network'[id] # "none" => id = 1
  /\ network[1] = "SUCCESS" => network'[1] = "SUCCESS"

LEMMA ExecuteKeeps ==
  ASSUME PaymentInv, NEW reply, Submit(SubmissionId, reply)
  PROVE  NetworkKeeps
BY FirstId DEF PaymentInv, Submit, SubmissionId, NetworkKeeps, Records

LEMMA HandleKeeps ==
  ASSUME PaymentInv, NEW id \in Ids, Handle(id)
  PROVE  NetworkKeeps /\ (network[1] = "none" => network'[1] = "none")
BY FirstId DEF PaymentInv, Handle, NetworkKeeps, Records

LEMMA SameNetworkKeeps ==
  ASSUME PaymentInv, UNCHANGED network
  PROVE  NetworkKeeps
BY DEF PaymentInv, NetworkKeeps

(***************************************************************************)
(* A step of ExecuteTransaction.                                           *)
(***************************************************************************)
LEMMA ReturnedReceipt ==
  ASSUME PaymentInv, txPc \in {"directReceipt", "receipt"},
         NEW status \in Receipts, ReceiptAccepted(status)
  PROVE  txSubmitted = 1 /\ network[1] = "SUCCESS"
BY FirstId DEF PaymentInv, Receipts, ReceiptAccepted

LEMMA TxStepInv ==
  ASSUME PaymentInv, TxStep
  PROVE  PaymentInv' /\ NetworkKeeps /\ ~txResult.ok /\ txPc # "idle" /\ txPc' # "idle"
<1>1. CASE Prepare
  BY <1>1, SameNetworkKeeps DEF Prepare, PaymentInv, NetworkKeeps, Fail, Return, NoTx
<1>2. CASE ResolveAddressBook
  BY <1>2, SameNetworkKeeps DEF ResolveAddressBook, PaymentInv, NetworkKeeps
<1>3. CASE SkipEntry
  BY <1>3, SameNetworkKeeps DEF SkipEntry, PaymentInv, NetworkKeeps
<1>4. CASE SubmitEntry
  <2>1. NetworkKeeps
    BY <1>4, ExecuteKeeps DEF SubmitEntry
  <2>2. /\ txPc = "direct" /\ UNCHANGED txResult
        /\ txPc' \in {"direct", "directReceipt"} /\ txSubmitted' \in {txSubmitted, 1}
        /\ txPc' = "directReceipt" => txSubmitted' = 1
    BY <1>4 DEF SubmitEntry, SubmissionId
  <2> QED BY <2>1, <2>2 DEF PaymentInv, NetworkKeeps
<1>5. CASE DirectFails
  BY <1>5, SameNetworkKeeps DEF DirectFails, PaymentInv, NetworkKeeps
<1>6. CASE DirectReceipt
  <2>1. NetworkKeeps /\ UNCHANGED <<network, txSubmitted>> /\ txPc = "directReceipt"
    BY <1>6, SameNetworkKeeps DEF DirectReceipt
  <2>2. CASE \E status \in Receipts : ReceiptAccepted(status)
    <3>1. txSubmitted = 1 /\ network[1] = "SUCCESS"
      BY <1>6, <2>2, ReturnedReceipt DEF DirectReceipt
    <3>2. \/ txPc' = "done" /\ txResult'.ok = TRUE /\ txResult'.id = txSubmitted
          \/ txPc' = "passThrough" /\ UNCHANGED txResult
      BY <1>6 DEF DirectReceipt, Return
    <3> QED BY <2>1, <3>1, <3>2 DEF PaymentInv, NetworkKeeps
  <2>3. CASE ~ \E status \in Receipts : ReceiptAccepted(status)
    <3>1. txPc' = "passThrough" /\ UNCHANGED txResult
      BY <1>6, <2>3 DEF DirectReceipt
    <3> QED BY <2>1, <3>1 DEF PaymentInv, NetworkKeeps
  <2> QED BY <2>2, <2>3
<1>7. CASE PassThrough
  <2>1. NetworkKeeps
    BY <1>7, ExecuteKeeps, SameNetworkKeeps DEF PassThrough
  <2>2. CASE ~DecodesTransfer
    BY <1>7, <2>1, <2>2 DEF PassThrough, PaymentInv, NetworkKeeps, Fail, Return, NoTx
  <2>3. CASE DecodesTransfer
    <3>1. /\ UNCHANGED txResult /\ txPc = "passThrough"
          /\ \/ txPc' = "receipt" /\ txSubmitted' = 1
             \/ txPc' = "attempt" /\ UNCHANGED txSubmitted
      BY <1>7, <2>3 DEF PassThrough, SubmissionId
    <3> QED BY <2>1, <3>1 DEF PaymentInv, NetworkKeeps
  <2> QED BY <2>2, <2>3
<1>8. CASE AwaitReceipt
  <2>1. NetworkKeeps /\ UNCHANGED <<network, txSubmitted>> /\ txPc = "receipt"
    BY <1>8, SameNetworkKeeps DEF AwaitReceipt
  <2>2. /\ txPc' = "done"
        /\ \/ /\ \E status \in Receipts : ReceiptAccepted(status)
              /\ txResult'.ok = TRUE /\ txResult'.id = txSubmitted
           \/ txResult'.ok = FALSE
    BY <1>8 DEF AwaitReceipt, Return, Fail, NoTx
  <2>3. txResult'.ok => txSubmitted = 1 /\ network[1] = "SUCCESS" /\ txResult'.id = 1
    BY <2>1, <2>2, ReturnedReceipt
  <2> QED BY <2>1, <2>2, <2>3 DEF PaymentInv, NetworkKeeps
<1>9. CASE Attempt
  <2> PICK reply \in Replies : Submit(SubmissionId, reply)
                               /\ (Fail(reply) \/ UNCHANGED txResult)
    BY <1>9 DEF Attempt
  <2> NetworkKeeps
    BY ExecuteKeeps
  <2> QED BY <1>9 DEF Attempt, PaymentInv, NetworkKeeps, SubmissionId, Fail, Return, NoTx, Replies
<1>10. CASE Rebuild
  <2>1. NetworkKeeps
    BY <1>10, ExecuteKeeps, SameNetworkKeeps DEF Rebuild
  <2> QED BY <1>10, <2>1 DEF Rebuild, PaymentInv, NetworkKeeps, SubmissionId, Fail, Return, NoTx
<1> QED
  BY <1>1, <1>2, <1>3, <1>4, <1>5, <1>6, <1>7, <1>8, <1>9, <1>10 DEF TxStep

-----------------------------------------------------------------------------
(***************************************************************************)
(* What a step leaves true when it does not concern it.                    *)
(***************************************************************************)
JobKeeps == job = "completed" => job' = "completed"

LEMMA SamePayment ==
  ASSUME PaymentInv, UNCHANGED <<txPc, txSubmitted, txResult, network>>
  PROVE  PaymentInv'
BY DEF PaymentInv

LEMMA SameEvents ==
  ASSUME EventsInv, UNCHANGED <<outbox, channels>>, JobKeeps
  PROVE  EventsInv'
BY DEF EventsInv, JobKeeps, TrueEvents

LEMMA SameResponse ==
  ASSUME ResponseInv, UNCHANGED <<request, response, txResult>>, JobKeeps
  PROVE  ResponseInv'
BY DEF ResponseInv, JobKeeps

LEMMA Unconfirmed ==
  ASSUME NEW kind, NEW id, Respond(kind, FALSE, id)
  PROVE  ResponseInv' /\ inPc' = "done"
BY DEF Respond, ResponseInv

LEMMA Refused ==
  ASSUME Refuse
  PROVE  ResponseInv' /\ inPc' = "done"
BY Unconfirmed DEF Refuse

(***************************************************************************)
(* The steps before the transaction, and those that end the call.          *)
(***************************************************************************)
LEMMA BeginInv ==
  ASSUME InscriberInv, Begin \/ Authenticate
  PROVE  InscriberInv'
<1>1. /\ UNCHANGED <<callVars, serviceVars, socketVars, txVars>>
      /\ \/ Refuse
         \/ inPc' = "createJob" /\ UNCHANGED response /\ request.api = "broker"
         \/ /\ inPc' \in {"start", "authenticate"} /\ UNCHANGED response
            /\ request.api # "broker" /\ inPc \in {"idle", "authenticate"}
  BY DEF InscriberInv, CallInv, Begin, Authenticate
<1>2. inPc \in {"idle", "authenticate"}
  BY DEF Begin, Authenticate
<1> USE <1>1 DEF InscriberInv, callVars, serviceVars, socketVars, txVars
<1>3. PaymentInv'
  BY SamePayment
<1>4. EventsInv'
  BY SameEvents DEF JobKeeps
<1>5. ResponseInv'
  BY Refused, SameResponse DEF JobKeeps
<1>6. CallInv'
  BY Refused, <1>2 DEF CallInv
<1> QED BY <1>3, <1>4, <1>5, <1>6

LEMMA StartInv ==
  ASSUME InscriberInv, Start
  PROVE  InscriberInv'
<1>1. /\ UNCHANGED <<request, outbox, channels, txSubmitted, txResult, network>>
      /\ inPc = "start"
      /\ \/ UNCHANGED serviceVars
         \/ job' = "created" /\ created' = created + 1
  BY DEF Start, callVars, socketVars
<1>2. \/ /\ inPc' = "done" /\ ResponseInv' /\ UNCHANGED txPc
      \/ /\ inPc' = "execute" /\ txPc' = "prepare" /\ UNCHANGED response
         /\ created' = created + 1 /\ ~Quotes(request)
  <2>1. CASE ~BuildsRequest(request)
    BY <2>1, Refused DEF Start
  <2>2. CASE BuildsRequest(request)
    <3>1. ASSUME NEW b \in TransactionBytes,
                 CASE b = "unsupported" -> Refuse /\ UNCHANGED txPc
                   [] b # "unsupported" /\ Quotes(request) ->
                        Respond("quote", FALSE, 0) /\ UNCHANGED txPc
                   [] b = "missing" /\ ~Quotes(request) -> Refuse /\ UNCHANGED txPc
                   [] NormalizesBytes(b) /\ ~Quotes(request) ->
                        inPc' = "execute" /\ txPc' = "prepare" /\ UNCHANGED response
          PROVE  \/ (Refuse \/ Respond("quote", FALSE, 0)) /\ UNCHANGED txPc
                 \/ inPc' = "execute" /\ txPc' = "prepare" /\ UNCHANGED response /\ ~Quotes(request)
      BY <3>1 DEF TransactionBytes, NormalizesBytes
    <3>2. \/ Refuse /\ UNCHANGED txPc
          \/ /\ created' = created + 1
             /\ \/ (Refuse \/ Respond("quote", FALSE, 0)) /\ UNCHANGED txPc
                \/ inPc' = "execute" /\ txPc' = "prepare" /\ UNCHANGED response /\ ~Quotes(request)
      BY <2>2, <3>1 DEF Start
    <3> QED BY <3>2, Refused, Unconfirmed
  <2> QED BY <2>1, <2>2
<1>3. /\ created = 0 /\ job = "none" /\ txPc = "idle"
      /\ request.api # "broker" /\ request \in Request
  BY <1>1, RequestsAssumption DEF InscriberInv, CallInv
<1>4. JobKeeps
  BY <1>1, <1>3 DEF JobKeeps, serviceVars
<1>5. PaymentInv'
  BY <1>1, <1>2, <1>3 DEF InscriberInv, PaymentInv
<1>6. EventsInv'
  BY <1>1, <1>4, SameEvents DEF InscriberInv
<1>7. ResponseInv'
  BY <1>1, <1>2, <1>4, SameResponse DEF InscriberInv
<1>8. CallInv'
  <2>1. request.api \in {"Inscribe", "GenerateQuote", "InscribeAndExecute", "broker"}
    BY <1>3 DEF Request
  <2> QED BY <1>1, <1>2, <1>3, <2>1 DEF InscriberInv, CallInv, Quotes, serviceVars
<1> QED BY <1>5, <1>6, <1>7, <1>8 DEF InscriberInv

LEMMA CreateJobInv ==
  ASSUME InscriberInv, CreateJob
  PROVE  InscriberInv'
<1>1. /\ UNCHANGED <<request, outbox, channels, txVars>>
      /\ inPc = "createJob"
      /\ \/ UNCHANGED serviceVars
         \/ job' = "created" /\ created' = created + 1
  BY DEF CreateJob, callVars, socketVars
<1>2. \/ inPc' = "done" /\ ResponseInv'
      \/ inPc' = "waitForJob" /\ UNCHANGED response
  BY Refused, Unconfirmed DEF CreateJob
<1>3. created = 0 /\ job = "none" /\ txPc = "idle"
  BY <1>1 DEF InscriberInv, CallInv
<1>4. JobKeeps
  BY <1>1, <1>3 DEF JobKeeps, serviceVars
<1>5. PaymentInv' /\ EventsInv'
  BY <1>1, <1>4, SamePayment, SameEvents DEF InscriberInv, txVars
<1>6. ResponseInv'
  BY <1>1, <1>2, <1>4, SameResponse DEF InscriberInv, txVars
<1>7. CallInv'
  BY <1>1, <1>2, <1>3 DEF InscriberInv, CallInv, serviceVars, txVars
<1> QED BY <1>5, <1>6, <1>7 DEF InscriberInv

(***************************************************************************)
(* Steps of the call that leave the job, the events and the transaction    *)
(* alone.                                                                  *)
(***************************************************************************)
LEMMA QuietCallInv ==
  ASSUME InscriberInv,
         UNCHANGED <<request, job, created, outbox, channels, txVars>>,
         ResponseInv',
         \/ inPc' \in {inPc, "done"}
         \/ inPc \in {"execute", "connect", "listen", "poll", "sleep"} /\ txResult.ok
            /\ inPc' \in {"connect", "listen", "poll", "sleep"}
  PROVE  InscriberInv'
<1>1. PaymentInv' /\ EventsInv'
  BY SamePayment, SameEvents DEF InscriberInv, txVars, JobKeeps
<1>2. CallInv'
  BY DEF InscriberInv, CallInv, txVars
<1> QED BY <1>1, <1>2 DEF InscriberInv

LEMMA ConfirmedResponse ==
  ASSUME InscriberInv, job = "completed", UNCHANGED <<request, job, txResult>>,
         NEW id, Respond("inscription", TRUE, id),
         request.api # "broker" => txResult.ok /\ id = txResult.id
  PROVE  ResponseInv' /\ inPc' = "done"
BY DEF InscriberInv, PaymentInv, Respond, ResponseInv

LEMMA ExecutedInv ==
  ASSUME InscriberInv, Executed
  PROVE  InscriberInv'
<1>1. /\ UNCHANGED <<request, job, created, outbox, channels, txVars>>
      /\ inPc = "execute"
  BY DEF Executed, callVars, serviceVars, socketVars
<1>2. \/ inPc' = "done" /\ ResponseInv'
      \/ inPc' \in {"connect", "poll"} /\ txResult.ok /\ UNCHANGED response
  BY Refused, Unconfirmed DEF Executed
<1>3. ResponseInv'
  BY <1>1, <1>2, SameResponse DEF InscriberInv, JobKeeps, txVars
<1> QED BY <1>1, <1>2, <1>3, QuietCallInv

LEMMA ConnectInv ==
  ASSUME InscriberInv, Connect
  PROVE  InscriberInv'
<1>1. /\ UNCHANGED <<request, job, created, outbox, channels, response, txVars>>
      /\ inPc = "connect" /\ inPc' \in {"listen", "poll"} /\ txResult.ok
  BY DEF Connect, callVars, serviceVars, InscriberInv, CallInv
<1>2. ResponseInv'
  BY <1>1, SameResponse DEF InscriberInv, JobKeeps, txVars
<1> QED BY <1>1, <1>2, QuietCallInv

LEMMA PollInv ==
  ASSUME InscriberInv, Poll
  PROVE  InscriberInv'
<1>1. /\ UNCHANGED <<request, job, created, outbox, channels, txVars>>
      /\ inPc = "poll" /\ txResult.ok /\ request.api # "broker"
  BY DEF Poll, serviceVars, socketVars, InscriberInv, CallInv
<1>2. \/ JobCompleted /\ Respond("inscription", TRUE, txResult.id)
      \/ Refuse
      \/ inPc' = "sleep" /\ UNCHANGED response
  <2>1. PICK reply \in PollReplies :
          CASE reply = "job" /\ JobCompleted -> Respond("inscription", TRUE, txResult.id)
            [] reply = "job" /\ job = "failed" -> Refuse
            [] reply = "job" /\ ~JobCompleted /\ job # "failed" ->
                 inPc' = "sleep" /\ UNCHANGED response
            [] reply = "retryable" /\ ~LastAttempt ->
                 inPc' = "sleep" /\ UNCHANGED response
            [] reply = "error" \/ (reply = "retryable" /\ LastAttempt) -> Refuse
    BY DEF Poll, PollReplies
  <2> QED BY <2>1 DEF PollReplies, JobCompleted
<1>3. ResponseInv' /\ inPc' \in {"done", "sleep"}
  <2>1. CASE JobCompleted /\ Respond("inscription", TRUE, txResult.id)
    BY <1>1, <2>1, ConfirmedResponse DEF JobCompleted, txVars
  <2>2. CASE Refuse
    BY <2>2, Refused
  <2>3. CASE inPc' = "sleep" /\ UNCHANGED response
    BY <1>1, <2>3, SameResponse DEF InscriberInv, JobKeeps, txVars
  <2> QED BY <1>2, <2>1, <2>2, <2>3
<1> QED BY <1>1, <1>3, QuietCallInv

LEMMA SleepInv ==
  ASSUME InscriberInv, Sleep
  PROVE  InscriberInv'
<1>1. /\ UNCHANGED <<request, job, created, outbox, channels, txVars>>
      /\ inPc = "sleep" /\ txResult.ok
  BY DEF Sleep, callVars, serviceVars, socketVars, InscriberInv, CallInv
<1>2. ResponseInv' /\ inPc' \in {"done", "poll"}
  BY <1>1, Refused, SameResponse DEF Sleep, InscriberInv, JobKeeps, txVars
<1> QED BY <1>1, <1>2, QuietCallInv

LEMMA WaitForJobInv ==
  ASSUME InscriberInv, WaitForJob
  PROVE  InscriberInv'
<1>1. /\ UNCHANGED <<request, job, created, outbox, channels, txVars>>
      /\ inPc = "waitForJob"
  BY DEF WaitForJob, serviceVars, socketVars
<1>2. \/ JobCompleted /\ Respond("inscription", TRUE, 0)
      \/ Refuse
      \/ UNCHANGED <<inPc, response>>
  BY DEF WaitForJob
<1>3. request.api = "broker"
  BY <1>1 DEF InscriberInv, CallInv
<1>4. ResponseInv' /\ inPc' \in {inPc, "done"}
  <2>1. CASE JobCompleted /\ Respond("inscription", TRUE, 0)
    BY <1>1, <1>3, <2>1, ConfirmedResponse DEF JobCompleted, txVars
  <2>2. CASE Refuse
    BY <2>2, Refused
  <2>3. CASE UNCHANGED <<inPc, response>>
    BY <1>1, <2>3, SameResponse DEF InscriberInv, JobKeeps, txVars
  <2> QED BY <1>2, <2>1, <2>2, <2>3
<1> QED BY <1>1, <1>4, QuietCallInv

-----------------------------------------------------------------------------
(***************************************************************************)
(* Sequences of events that announce nothing false.                        *)
(***************************************************************************)
LEMMA TrueAppend ==
  ASSUME NEW s \in Seq(Events), NEW e \in Events, TrueEvents(s),
         Announces(e) => job = "completed"
  PROVE  Append(s, e) \in Seq(Events) /\ TrueEvents(Append(s, e))
BY DEF TrueEvents

LEMMA TrueTail ==
  ASSUME NEW s \in Seq(Events), s # << >>, TrueEvents(s)
  PROVE  /\ Head(s) \in Events /\ (Announces(Head(s)) => job = "completed")
         /\ Tail(s) \in Seq(Events) /\ TrueEvents(Tail(s))
<1>1. Len(s) \in Nat \ {0} /\ Head(s) = s[1]
  OBVIOUS
<1>2. \A i \in 1..Len(Tail(s)) : Tail(s)[i] = s[i + 1] /\ i + 1 \in 1..Len(s)
  BY <1>1
<1> QED BY <1>1, <1>2 DEF TrueEvents

(***************************************************************************)
(* What the service tells of the call's job is appended to the outbox.     *)
(***************************************************************************)
LEMMA ToldEvents ==
  ASSUME EventsInv, JobKeeps, UNCHANGED channels,
         NEW e \in Events, Announces(e) => job' = "completed",
         outbox' \in {outbox, outbox \o <<e>>}
  PROVE  EventsInv'
<1>1. outbox \o <<e>> = Append(outbox, e)
  BY DEF EventsInv
<1>2. \A i \in 1..Len(Append(outbox, e)) :
        Announces(Append(outbox, e)[i]) => job' = "completed"
  BY DEF EventsInv, TrueEvents, JobKeeps
<1>3. \A k \in Kinds : \A i \in 1..Len(channels[k]) :
        Announces(channels[k][i]) => job' = "completed"
  BY DEF EventsInv, TrueEvents, JobKeeps
<1>4. \A i \in 1..Len(outbox) : Announces(outbox[i]) => job' = "completed"
  BY DEF EventsInv, TrueEvents, JobKeeps
<1>5. outbox' \in Seq(Events) /\ \A i \in 1..Len(outbox') : Announces(outbox'[i]) => job' = "completed"
  <2>1. CASE outbox' = outbox
    BY <1>4, <2>1 DEF EventsInv
  <2>2. CASE outbox' = Append(outbox, e)
    <3>1. Append(outbox, e) \in Seq(Events)
      BY DEF EventsInv
    <3> QED BY <1>2, <2>2, <3>1, Zenon
  <2> QED BY <1>1, <2>1, <2>2
<1> QED BY <1>3, <1>5 DEF EventsInv, TrueEvents

LEMMA InscribingInv ==
  ASSUME InscriberInv, Inscribing
  PROVE  InscriberInv'
<1>1. /\ UNCHANGED <<request, inPc, created, channels, response, txVars>>
      /\ job = "created" /\ job' = "processing"
      /\ outbox' \in {outbox, outbox \o <<Event("progress", TRUE, FALSE)>>}
  BY DEF Inscribing, callVars, Tell
<1>2. Event("progress", TRUE, FALSE) \in Events /\ ~Announces(Event("progress", TRUE, FALSE))
  BY DEF Event, Events, Announces, Kinds
<1>3. JobKeeps
  BY <1>1 DEF JobKeeps
<1>4. PaymentInv' /\ EventsInv' /\ ResponseInv'
  BY <1>1, <1>2, <1>3, SamePayment, ToldEvents, SameResponse DEF InscriberInv, txVars
<1>5. CallInv'
  BY <1>1 DEF InscriberInv, CallInv, txVars
<1> QED BY <1>4, <1>5 DEF InscriberInv

LEMMA JobEndsInv ==
  ASSUME InscriberInv, JobEnds
  PROVE  InscriberInv'
<1>1. /\ UNCHANGED <<request, inPc, created, channels, response, txVars>>
      /\ job = "processing"
  BY DEF JobEnds, callVars
<1>2. JobKeeps
  BY <1>1 DEF JobKeeps
<1>3. EventsInv'
  <2>1. CASE job' = "completed"
             /\ \E e \in {Event("progress", TRUE, TRUE), Event("complete", TRUE, TRUE)} :
                   outbox' = Tell(<<e>>)
    <3> PICK e \in {Event("progress", TRUE, TRUE), Event("complete", TRUE, TRUE)} :
               outbox' = Tell(<<e>>)
      BY <2>1
    <3>1. Event("progress", TRUE, TRUE) \in Events /\ Event("complete", TRUE, TRUE) \in Events
      BY DEF Event, Events, Kinds
    <3>2. e \in Events
      BY <3>1
    <3>3. outbox' \in {outbox, outbox \o <<e>>}
      BY DEF Tell
    <3> QED BY <1>1, <1>2, <2>1, <3>2, <3>3, ToldEvents DEF InscriberInv
  <2>2. CASE outbox' = Tell(<<Event("errors", TRUE, TRUE)>>)
    <3>1. /\ Event("errors", TRUE, TRUE) \in Events /\ ~Announces(Event("errors", TRUE, TRUE))
          /\ outbox' \in {outbox, outbox \o <<Event("errors", TRUE, TRUE)>>}
      BY <2>2 DEF Event, Events, Announces, Kinds, Tell
    <3> QED BY <1>1, <1>2, <3>1, ToldEvents DEF InscriberInv
  <2> QED BY <2>1, <2>2 DEF JobEnds
<1>4. PaymentInv' /\ ResponseInv'
  BY <1>1, <1>2, SamePayment, SameResponse DEF InscriberInv, txVars
<1>5. CallInv'
  BY <1>1 DEF InscriberInv, CallInv, txVars
<1> QED BY <1>3, <1>4, <1>5 DEF InscriberInv

LEMMA ForeignEventInv ==
  ASSUME InscriberInv, ForeignEvent
  PROVE  InscriberInv'
<1>1. UNCHANGED <<request, inPc, job, created, channels, response, txVars>>
  BY DEF ForeignEvent, callVars, serviceVars
<1>2. JobKeeps
  BY <1>1 DEF JobKeeps
<1>3. EventsInv'
  <2> PICK kind \in Kinds, final \in BOOLEAN : outbox' = Append(outbox, Event(kind, FALSE, final))
    BY DEF ForeignEvent
  <2>1. Event(kind, FALSE, final) \in Events /\ ~Announces(Event(kind, FALSE, final))
    BY DEF Event, Events, Announces
  <2>2. outbox' = outbox \o <<Event(kind, FALSE, final)>>
    BY <2>1, AppendIsConcat DEF InscriberInv, EventsInv
  <2> QED BY <1>1, <1>2, <2>1, <2>2, ToldEvents DEF InscriberInv
<1>4. PaymentInv' /\ ResponseInv' /\ CallInv'
  BY <1>1, <1>2, SamePayment, SameResponse DEF InscriberInv, CallInv, txVars
<1> QED BY <1>3, <1>4 DEF InscriberInv

(***************************************************************************)
(* An event goes from the socket to its channel and from there to the      *)
(* call, which believes it only when it is about its own job.              *)
(***************************************************************************)
LEMMA DeliverInv ==
  ASSUME InscriberInv, Deliver
  PROVE  InscriberInv'
<1> DEFINE e == Head(outbox)
<1>1. /\ UNCHANGED <<request, inPc, job, created, response, txVars>>
      /\ outbox # << >> /\ outbox' = Tail(outbox)
      /\ channels' = [channels EXCEPT ![e.kind] = Append(channels[e.kind], e)]
  BY DEF Deliver, callVars, serviceVars
<1>2. /\ e \in Events /\ e.kind \in Kinds /\ (Announces(e) => job = "completed")
      /\ Tail(outbox) \in Seq(Events) /\ TrueEvents(Tail(outbox))
  BY <1>1, TrueTail DEF InscriberInv, EventsInv, Events
<1> HIDE DEF e
<1>3. /\ Append(channels[e.kind], e) \in Seq(Events)
      /\ TrueEvents(Append(channels[e.kind], e))
      /\ \A i \in 1..Len(Append(channels[e.kind], e)) : Append(channels[e.kind], e)[i].kind = e.kind
  BY <1>2, TrueAppend DEF InscriberInv, EventsInv
<1>4. EventsInv'
  <2>1. channels' \in [Kinds -> Seq(Events)]
    BY <1>1, <1>2, <1>3 DEF InscriberInv, EventsInv
  <2>2. ASSUME NEW k \in Kinds
        PROVE  /\ TrueEvents(channels'[k])
               /\ \A i \in 1..Len(channels'[k]) : channels'[k][i].kind = k
    BY <1>1, <1>2, <1>3 DEF InscriberInv, EventsInv
  <2> QED BY <1>1, <1>2, <2>1, <2>2 DEF EventsInv, TrueEvents
<1>5. PaymentInv' /\ ResponseInv' /\ CallInv'
  BY <1>1, SamePayment, SameResponse DEF InscriberInv, CallInv, JobKeeps, txVars
<1> QED BY <1>4, <1>5 DEF InscriberInv

LEMMA ListenInv ==
  ASSUME InscriberInv, NEW kind \in {"progress", "complete"}, Listen(kind)
  PROVE  InscriberInv'
<1> DEFINE e == Head(channels[kind])
<1>1. /\ UNCHANGED <<request, job, created, outbox, txVars>>
      /\ inPc = "listen" /\ channels[kind] # << >>
      /\ channels' = [channels EXCEPT ![kind] = Tail(channels[kind])]
      /\ \/ /\ Matches(e) /\ (e.kind = "complete" \/ e.final)
            /\ Respond("inscription", TRUE, txResult.id)
         \/ UNCHANGED <<inPc, response>>
  BY DEF Listen, callVars, serviceVars
<1>2. kind \in Kinds /\ channels[kind] \in Seq(Events) /\ TrueEvents(channels[kind])
      /\ \A i \in 1..Len(channels[kind]) : channels[kind][i].kind = kind
  BY DEF InscriberInv, EventsInv, Kinds
<1>3. /\ (Announces(e) => job = "completed") /\ e.kind = kind
      /\ Tail(channels[kind]) \in Seq(Events) /\ TrueEvents(Tail(channels[kind]))
      /\ \A i \in 1..Len(Tail(channels[kind])) : Tail(channels[kind])[i].kind = kind
  BY <1>1, <1>2, TrueTail
<1> HIDE DEF e
<1>4. EventsInv'
  BY <1>1, <1>2, <1>3 DEF InscriberInv, EventsInv, TrueEvents
<1>5. ResponseInv' /\ inPc' \in {inPc, "done"}
  <2>1. CASE /\ Matches(e) /\ (e.kind = "complete" \/ e.final)
             /\ Respond("inscription", TRUE, txResult.id)
    <3>1. job = "completed" /\ txResult.ok
      BY <1>1, <1>3, <2>1 DEF Announces, Matches, InscriberInv, CallInv
    <3> QED BY <1>1, <2>1, <3>1, ConfirmedResponse DEF txVars
  <2>2. CASE UNCHANGED <<inPc, response>>
    BY <1>1, <2>2, SameResponse DEF InscriberInv, JobKeeps, txVars
  <2> QED BY <1>1, <2>1, <2>2
<1>6. PaymentInv' /\ CallInv'
  BY <1>1, <1>5, SamePayment DEF InscriberInv, CallInv, txVars
<1> QED BY <1>4, <1>5, <1>6 DEF InscriberInv

LEMMA StopListeningInv ==
  ASSUME InscriberInv, StopListening
  PROVE  InscriberInv'
<1>1. /\ UNCHANGED <<request, job, created, response, txVars>>
      /\ inPc = "listen" /\ inPc' = "poll"
      /\ outbox' = << >> /\ channels' = [kind \in Kinds |-> << >>]
  BY DEF StopListening, callVars, serviceVars, NoEvents
<1>2. EventsInv'
  BY <1>1 DEF EventsInv, TrueEvents
<1>3. PaymentInv' /\ ResponseInv' /\ CallInv'
  BY <1>1, SamePayment, SameResponse DEF InscriberInv, CallInv, JobKeeps, txVars
<1> QED BY <1>2, <1>3 DEF InscriberInv

(***************************************************************************)
(* Steps of ExecuteTransaction, which run only while the call is in it,    *)
(* and of the network, which never take a payment back.                    *)
(***************************************************************************)
LEMMA PaymentStepInv ==
  ASSUME InscriberInv, UNCHANGED inVars, PaymentInv',
         txResult.ok => txResult'.ok,
         txPc = "idle" => txPc' = "idle" /\ (network[1] = "none" => network'[1] = "none"),
         txPc # "idle" => txPc' # "idle"
  PROVE  InscriberInv'
<1>1. EventsInv'
  BY SameEvents DEF InscriberInv, inVars, JobKeeps
<1>2. ResponseInv'
  BY DEF InscriberInv, ResponseInv, inVars
<1>3. CallInv'
  BY DEF InscriberInv, CallInv, inVars
<1> QED BY <1>1, <1>2, <1>3 DEF InscriberInv

LEMMA ExecuteInv ==
  ASSUME InscriberInv, Execute \/ HandleTransaction
  PROVE  InscriberInv'
<1>1. CASE Execute
  BY <1>1, TxStepInv, PaymentStepInv DEF Execute, InscriberInv
<1>2. CASE HandleTransaction
  <2>1. NetworkKeeps /\ (network[1] = "none" => network'[1] = "none")
    BY <1>2, HandleKeeps DEF HandleTransaction, NetworkStep, InscriberInv
  <2>2. UNCHANGED <<txPc, txSubmitted, txResult>> /\ UNCHANGED inVars
    BY <1>2 DEF HandleTransaction, NetworkStep, Handle
  <2>3. PaymentInv'
    BY <2>1, <2>2 DEF InscriberInv, PaymentInv, NetworkKeeps
  <2> QED BY <2>1, <2>2, <2>3, PaymentStepInv
<1> QED BY <1>1, <1>2

LEMMA InscriberStepInv ==
  ASSUME InscriberInv, [InscriberNext]_allInscriberVars
  PROVE  InscriberInv'
<1>1. ASSUME UNCHANGED <<request, inPc, job, created, outbox, channels, response, txVars>>
      PROVE  InscriberInv'
  BY <1>1, QuietCallInv, SameResponse DEF InscriberInv, JobKeeps, txVars
<1>2. CASE CallStep
  BY <1>2, BeginInv, StartInv, ExecuteInv, ExecutedInv, ConnectInv, ListenInv, StopListeningInv,
     PollInv, SleepInv, CreateJobInv, WaitForJobInv DEF CallStep
<1>3. CASE Tick \/ Cancel
  BY <1>1, <1>3 DEF Tick, Cancel, callVars, serviceVars, socketVars
<1>4. CASE Deliver \/ Inscribing \/ JobEnds \/ ForeignEvent \/ HandleTransaction
  BY <1>4, DeliverInv, InscribingInv, JobEndsInv, ForeignEventInv, ExecuteInv
<1>5. CASE UNCHANGED allInscriberVars
  BY <1>1, <1>5 DEF allInscriberVars, inVars
<1> QED BY <1>2, <1>3, <1>4, <1>5 DEF InscriberNext

(***************************************************************************)
(* The invariant holds of every call.                                      *)
(***************************************************************************)
THEOREM InscriberInvariant == InscriberSpec => []InscriberInv
<1>1. InscriberInv /\ [InscriberNext]_allInscriberVars => InscriberInv'
  BY InscriberStepInv
<1> QED BY InscriberInitInv, <1>1, PTL DEF InscriberSpec

(***************************************************************************)
(* Whichever strategies were tried and replies lost, a call pays at most   *)
(* once, and returns the id of a payment only when it took effect.         *)
(***************************************************************************)
THEOREM PaysOnce == InscriberSpec => []PaidOnce
<1>1. ASSUME InscriberInv PROVE PaidOnce
  <2>1. Paid \subseteq {1}
    BY <1>1 DEF InscriberInv, PaymentInv, Paid
  <2>2. PaidAtMostOnce
    <3>1. Paid = {} \/ Paid = {1}
      BY <2>1
    <3>2. Cardinality({}) = 0 /\ Cardinality({1}) = 1
      BY FS_EmptySet, FS_Singleton
    <3> QED BY <3>1, <3>2 DEF PaidAtMostOnce
  <2>3. SuccessMeansPaid
    BY <1>1 DEF InscriberInv, PaymentInv, SuccessMeansPaid
  <2> QED BY <2>2, <2>3 DEF PaidOnce
<1> QED BY InscriberInvariant, <1>1, PTL

(***************************************************************************)
(* A confirmed response is about a job that was inscribed and a payment    *)
(* that took effect; nothing is paid for but the one job of the call, and  *)
(* nothing at all for a quote or through the registry broker.              *)
(***************************************************************************)
THEOREM ConfirmsWhatItPays == InscriberSpec => []InscribesWhatItPays
<1>1. ASSUME InscriberInv PROVE InscribesWhatItPays
  <2>1. ConfirmedMeansInscribed
    BY <1>1, FirstId DEF InscriberInv, PaymentInv, ResponseInv, ConfirmedMeansInscribed, Paid
  <2>2. ASSUME Paid # {} PROVE txPc # "idle"
    BY <1>1, <2>2 DEF InscriberInv, PaymentInv, CallInv, Paid
  <2>3. PaysForItsJob
    BY <1>1, <2>2 DEF InscriberInv, CallInv, PaysForItsJob
  <2> QED BY <2>1, <2>3 DEF InscribesWhatItPays
<1> QED BY InscriberInvariant, <1>1, PTL
=============================================================================
