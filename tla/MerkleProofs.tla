----------------------------- MODULE MerkleProofs -----------------------------
(***************************************************************************)
(* The Merkle trees and proofs of pkg/hcs27/merkle.go: the root of a log,  *)
(* VerifyInclusionProof and VerifyConsistencyProof with their proof        *)
(* objects, and an auditor who verifies proofs, those of RFC 9162 and      *)
(* others, for logs with and without a common past.                        *)
(*                                                                         *)
(* SHA-256 is taken as collision free: a hash is the term it was made of.  *)
(***************************************************************************)
EXTENDS Integers, Sequences, SequencesExt

CONSTANT MaxTree    \* bound on the number of entries of a log

ASSUME MaxTreeAssumption == MaxTree \in Nat

VARIABLE audit      \* the last verification: its inputs and its verdict
NoAudit == [kind |-> "none"]

-----------------------------------------------------------------------------
(***************************************************************************)
(* A JSON object comes as its members in the order a Go map yields them;   *)
(* CanonicalizeJSON sorts them by key.                                     *)
(***************************************************************************)
CanonicalizeJSON(members) ==
  LET places == 1..Len(members)
      order == CHOOSE p \in Bijection(places, places) :
                 \A i, j \in places : i < j => ~(members[p[j]][1] < members[p[i]][1])
  IN  [i \in places |-> members[order[i]]]

EmptyRoot == <<"empty">>
HashLeaf(canonicalEntry) == <<"leaf", canonicalEntry>>
HashNode(left, right) == <<"node", left, right>>

LeastSignificantBit(value) == value % 2

LargestPowerOfTwoLessThan(value) ==
  LET result[r \in 1..value] == IF 2 * r < value THEN result[2 * r] ELSE r
  IN  IF value <= 1 THEN 0 ELSE result[1]

(***************************************************************************)
(* Both numbers are halved for as long as the first is one of more.        *)
(***************************************************************************)
HalvedWhile(more, fn, sn) ==
  LET halved[f \in 0..fn] == [s \in Nat |->
        IF f \in more THEN halved[f \div 2][s \div 2] ELSE <<f, s>>]
  IN  halved[fn][sn]
Odd  == {f \in Nat : LeastSignificantBit(f) = 1}
Even == {f \in Nat \ {0} : LeastSignificantBit(f) = 0}

IsExactPowerOfTwo(value) == HalvedWhile(Even, value, 0)[1] = 1

(***************************************************************************)
(* The root of every subtree over n leaf hashes, by its size and its first *)
(* leaf.  The code cuts slices where this counts.                          *)
(***************************************************************************)
NodeOver(root, hashes, size, first) ==
  LET split == LargestPowerOfTwoLessThan(size)
  IN  IF size = 1 THEN hashes[first]
      ELSE HashNode(root[split][first], root[size - split][first + split])

Subtrees(hashes, n) ==
  LET root[size \in 1..n] == [first \in Nat |-> NodeOver(root, hashes, size, first)]
  IN  root

TreeHash(hashes, n) == IF n = 0 THEN EmptyRoot ELSE Subtrees(hashes, n)[n][1]

MerkleRootFromCanonicalEntries(entries) ==
  TreeHash([i \in 1..Len(entries) |-> HashLeaf(entries[i])], Len(entries))

MerkleRootFromEntries(entries) ==
  MerkleRootFromCanonicalEntries([i \in 1..Len(entries) |-> CanonicalizeJSON(entries[i])])

LeafHash(entry) == HashLeaf(CanonicalizeJSON(entry))
LeafHashes(entries) == [i \in 1..Len(entries) |-> LeafHash(entries[i])]

-----------------------------------------------------------------------------
(***************************************************************************)
(* The walk both verifications share: fn and sn are halved at every node,  *)
(* and beyond a right edge until fn is odd or zero.                        *)
(***************************************************************************)
PastEdge(fn, sn) == HalvedWhile(Even, fn, sn)

Halved(w, atEdge) ==
  LET p == IF atEdge THEN PastEdge(w.fn, w.sn) ELSE <<w.fn, w.sn>>
  IN  <<p[1] \div 2, p[2] \div 2>>

Stopped == [stop |-> TRUE]

JoinsLeft(w) == LeastSignificantBit(w.fn) = 1 \/ w.fn = w.sn

InclusionAt(place, hash) ==
  [fn |-> place[1], sn |-> place[2], hash |-> hash, stop |-> FALSE]

InclusionStep(w, node) ==
  IF w.stop \/ w.sn = 0 THEN Stopped
  ELSE IF JoinsLeft(w) THEN InclusionAt(Halved(w, TRUE), HashNode(node, w.hash))
  ELSE InclusionAt(Halved(w, FALSE), HashNode(w.hash, node))

InclusionWalk(start, path) ==
  LET walk[i \in 0..Len(path)] == IF i = 0 THEN start ELSE InclusionStep(walk[i - 1], path[i])
  IN  walk[Len(path)]

VerifyInclusionProof(leafIndex, treeSize, leafHash, path, root) ==
  IF treeSize = 0 \/ leafIndex >= treeSize THEN "error"
  ELSE LET end == InclusionWalk(InclusionAt(<<leafIndex, treeSize - 1>>, leafHash), path)
       IN  IF ~end.stop /\ end.sn = 0 /\ root = [enc |-> "std", hash |-> end.hash]
             THEN "true" ELSE "false"

PastFullSubtree(fn, sn) == HalvedWhile(Odd, fn, sn)

ConsistencyAt(place, fr, sr) ==
  [fn |-> place[1], sn |-> place[2], fr |-> fr, sr |-> sr, stop |-> FALSE]

ConsistencyStep(w, node) ==
  IF w.stop \/ w.sn = 0 THEN Stopped
  ELSE IF JoinsLeft(w)
    THEN ConsistencyAt(Halved(w, TRUE), HashNode(node, w.fr), HashNode(node, w.sr))
  ELSE ConsistencyAt(Halved(w, FALSE), w.fr, HashNode(w.sr, node))

ConsistencyWalk(start, path) ==
  LET walk[i \in 0..Len(path)] == IF i = 0 THEN start ELSE ConsistencyStep(walk[i - 1], path[i])
  IN  walk[Len(path)]

RootsReachedNewOnly(w, oldRoot, newRoot) == newRoot = [enc |-> "std", hash |-> w.sr]
RootsReached(w, oldRoot, newRoot) ==
  oldRoot = [enc |-> "std", hash |-> w.fr] /\ newRoot = [enc |-> "std", hash |-> w.sr]

VerifyConsistencyProof(oldTreeSize, newTreeSize, oldRoot, newRoot, consistencyPath) ==
  IF oldTreeSize = 0 THEN "true"
  ELSE IF oldTreeSize = newTreeSize
    THEN IF oldRoot = newRoot /\ consistencyPath = << >> THEN "true" ELSE "false"
  ELSE IF oldTreeSize > newTreeSize \/ consistencyPath = << >> THEN "false"
  ELSE LET path == IF IsExactPowerOfTwo(oldTreeSize)
                     THEN <<oldRoot.hash>> \o consistencyPath ELSE consistencyPath
           edge == PastFullSubtree(oldTreeSize - 1, newTreeSize - 1)
           end  == ConsistencyWalk(ConsistencyAt(edge, path[1], path[1]), Tail(path))
       IN  IF ~end.stop /\ end.sn = 0 /\ RootsReached(end, oldRoot, newRoot)
             THEN "true" ELSE "false"

(***************************************************************************)
(* The proof objects: version 1, numbers in canonical form, and a root in  *)
(* base64 or in base64url, which is brought into base64.                   *)
(***************************************************************************)
ParseCanonicalUint64(number) == number.canonical
NormalizeProofRootHash(root) == [root EXCEPT !.enc = IF @ = "url" THEN "std" ELSE @]

VerifyInclusionProofObject(p) ==
  IF p.treeVersion # 1 \/ ~ParseCanonicalUint64(p.numbers) \/ p.root.enc = "garbled" THEN "error"
  ELSE VerifyInclusionProof(p.leafIndex, p.treeSize, p.leafHash, p.path,
                            NormalizeProofRootHash(p.root))

VerifyConsistencyProofObject(p) ==
  IF p.treeVersion # 1 \/ ~ParseCanonicalUint64(p.numbers) THEN "error"
  ELSE IF p.oldTreeSize = 0
    THEN VerifyConsistencyProof(0, p.newTreeSize, p.oldRoot, p.root, p.path)
  ELSE IF p.oldRoot.enc = "garbled" \/ p.root.enc = "garbled" THEN "error"
  ELSE VerifyConsistencyProof(p.oldTreeSize, p.newTreeSize,
         NormalizeProofRootHash(p.oldRoot), NormalizeProofRootHash(p.root), p.path)

-----------------------------------------------------------------------------
(***************************************************************************)
(* The reference: PATH and PROOF of RFC 9162, sections 2.1.3 and 2.1.4,    *)
(* by recursion over the tree.                                             *)
(***************************************************************************)
PathOver(path, sub, leaf, size, first) ==
  LET k == LargestPowerOfTwoLessThan(size)
  IN  IF size = 1 THEN << >>
      ELSE IF leaf < first + k THEN Append(path[k][first], sub[size - k][first + k])
      ELSE Append(path[size - k][first + k], sub[k][first])

Paths(hashes, n, leaf) ==
  LET sub == Subtrees(hashes, n)
      path[size \in 1..n] == [first \in Nat |-> PathOver(path, sub, leaf, size, first)]
  IN  path
InclusionPath(m, D) == Paths(LeafHashes(D), Len(D), m + 1)[Len(D)][1]

ProofOver(proof, sub, old, size, first) ==
  LET k == LargestPowerOfTwoLessThan(size)
  IN  IF size = 1 \/ first + size = old + 1
        THEN IF first = 1 THEN << >> ELSE <<sub[size][first]>>
      ELSE IF old < first + k THEN Append(proof[k][first], sub[size - k][first + k])
      ELSE Append(proof[size - k][first + k], sub[k][first])

SubProofs(hashes, n, old) ==
  LET sub == Subtrees(hashes, n)
      proof[size \in 1..n] == [first \in Nat |-> ProofOver(proof, sub, old, size, first)]
  IN  proof
ConsistencyPath(m, D) == SubProofs(LeafHashes(D), Len(D), m)[Len(D)][1]

(***************************************************************************)
(* The logs: entry i of a log is object i, but one entry may have been     *)
(* written over.  A verifier's copy of an object may list its members in   *)
(* another order than the prover's.                                        *)
(***************************************************************************)
Object(i) == <<<<1, i>>, <<2, 0>>>>
Copy(entry) == Reverse(entry)
LogsOf(n) == {[i \in 1..n |-> Object(IF i = k THEN 0 ELSE i)] : k \in 0..n}
Logs == UNION {LogsOf(n) : n \in 1..MaxTree}
RootOf(D, enc) == [enc |-> enc, hash |-> MerkleRootFromEntries(D)]
Numbers(canonical) == [canonical |-> canonical]

MerkleInit == audit = NoAudit

AuditInclusion ==
  /\ audit = NoAudit
  /\ \E D \in Logs : \E i, j \in 0..(Len(D) - 1) :
       \E source \in {D} \cup LogsOf(Len(D)), v \in {1, 2}, canonical \in BOOLEAN,
          enc \in {"std", "url", "garbled"} :
         /\ (v = 1 /\ canonical) \/ i = j   \* keeps the malformed objects few
         /\ LET entry == Copy(source[i + 1])
                p == [treeVersion |-> v, numbers |-> Numbers(canonical), leafIndex |-> i,
                      treeSize |-> Len(D), leafHash |-> LeafHash(entry),
                      path |-> InclusionPath(j, source), root |-> RootOf(D, enc)]
            IN  audit' = [kind |-> "inclusion", index |-> i, log |-> D,
                          entry |-> source[i + 1], honest |-> i = j /\ source = D,
                          wellFormed |-> v = 1 /\ canonical /\ enc # "garbled",
                          verdict |-> VerifyInclusionProofObject(p)]

AuditConsistency ==
  /\ audit = NoAudit
  /\ \E old \in Logs \cup {<< >>}, new \in Logs :
       \E source \in {new} \cup (IF Len(old) < Len(new) THEN LogsOf(Len(new)) ELSE {}),
          m \in 0..Len(new), enc \in {"std", "url"} :
         LET path == IF m = 0 THEN << >> ELSE ConsistencyPath(m, source)
             p == [treeVersion |-> 1, numbers |-> Numbers(TRUE), oldTreeSize |-> Len(old),
                   newTreeSize |-> Len(new), oldRoot |-> RootOf(old, "std"),
                   root |-> RootOf(new, enc), path |-> path]
         IN  /\ m \in {0, Len(old), Len(old) - 1}
             /\ audit' = [kind |-> "consistency", old |-> old, log |-> new,
                          honest |-> m = Len(old) /\ source = new /\ IsPrefix(old, new),
                          verdict |-> VerifyConsistencyProofObject(p)]

MerkleNext == AuditInclusion \/ AuditConsistency

MerkleSpec == MerkleInit /\ [][MerkleNext]_audit

-----------------------------------------------------------------------------
(***************************************************************************)
(* A consistency proof that verifies, whoever made it and from whichever   *)
(* log, means that the old log is a prefix of the new one: nothing was     *)
(* removed or written over.  An inclusion proof that verifies means that   *)
(* the log has that entry at that index.                                   *)
(***************************************************************************)
ProofMeansPrefix ==
  audit.kind # "none" /\ audit.verdict = "true" =>
    IF audit.kind = "consistency" THEN IsPrefix(audit.old, audit.log)
                                  ELSE audit.log[audit.index + 1] = audit.entry

(***************************************************************************)
(* The proofs of RFC 9162 verify for every size of tree and every index,   *)
(* with the root in either alphabet and the members of an entry in any     *)
(* order.                                                                  *)
(***************************************************************************)
HonestProofsVerify ==
  /\ audit.kind = "inclusion" /\ audit.honest /\ audit.wellFormed => audit.verdict = "true"
  /\ audit.kind = "consistency" /\ audit.honest => audit.verdict = "true"

(***************************************************************************)
(* A verified proof tells the truth, and every true one can be proved.     *)
(***************************************************************************)
ProofsAreRight == ProofMeansPrefix /\ HonestProofsVerify
=============================================================================
