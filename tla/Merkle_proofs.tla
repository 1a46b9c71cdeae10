---------------------------- MODULE Merkle_proofs ----------------------------
(***************************************************************************)
(* The Merkle proofs of HCS-27, for trees of every size.  Pairing the      *)
(* hashes of a level gives the level above, which has the same root; a     *)
(* step of either verification is a step to that level, so soundness and   *)
(* completeness are inductions over the levels of a tree.  Only a proof's  *)
(* start and its nodes' order need more: the reference splits at the       *)
(* greatest power of two, the walk starts at the leaves.                   *)
(***************************************************************************)
EXTENDS MerkleProofs, SequenceTheorems, WellFoundedInduction, TLAPS

-----------------------------------------------------------------------------
(***************************************************************************)
(* Induction over the naturals, for a set of them.                         *)
(***************************************************************************)
LEMMA StrongInduct ==
  ASSUME NEW S, \A n \in Nat : (\A k \in Nat : k < n => k \in S) => n \in S
  PROVE  \A n \in Nat : n \in S
<1> DEFINE Bad == Nat \ S
<1>1. SUFFICES ASSUME Bad # {} PROVE FALSE
  OBVIOUS
<1>2. \E m \in Bad : \A k \in Bad : ~ (<<k, m>> \in OpToRel(<, Nat))
  BY <1>1, NatLessThanWellFounded, WFMin
<1>3. PICK m \in Bad : \A k \in Bad : ~ (<<k, m>> \in OpToRel(<, Nat))
  BY <1>2
<1>4. ASSUME NEW k \in Nat, k < m PROVE k \in S
  <2>1. <<k, m>> \in OpToRel(<, Nat)
    BY <1>4 DEF OpToRel
  <2> QED BY <2>1, <1>3
<1> QED BY <1>3, <1>4

LEMMA Induct ==
  ASSUME NEW S, 0 \in S, \A n \in Nat : n \in S => n + 1 \in S
  PROVE  \A n \in Nat : n \in S
<1>1. ASSUME NEW n \in Nat, \A k \in Nat : k < n => k \in S
      PROVE  n \in S
  <2>1. CASE n = 0
    BY <2>1
  <2>2. CASE n # 0
    <3>1. n - 1 \in Nat /\ n - 1 < n /\ (n - 1) + 1 = n
      BY <2>2
    <3> QED BY <3>1, <1>1
  <2> QED BY <2>1, <2>2
<1> QED BY <1>1, StrongInduct

-----------------------------------------------------------------------------
(***************************************************************************)
(* The loop of largestPowerOfTwoLessThan.                                  *)
(***************************************************************************)
Doubles(f, low, value) ==
  f = [r \in low..value |-> IF 2 * r < value THEN f[2 * r] ELSE r]

LEMMA DoublesExist ==
  ASSUME NEW value \in Nat \ {0}
  PROVE  \E f : Doubles(f, 1, value)
<1> DEFINE Good == {k \in Nat : k < value => \E f : Doubles(f, value - k, value)}
<1>1. 0 \in Good
  <2>1. value..value = {value} /\ ~(2 * value < value)
    OBVIOUS
  <2>2. Doubles([r \in value..value |-> r], value, value)
    BY <2>1 DEF Doubles
  <2> QED BY <2>2
<1>2. ASSUME NEW k \in Nat, k \in Good PROVE k + 1 \in Good
  <2>1. SUFFICES ASSUME k + 1 < value PROVE \E f : Doubles(f, value - (k + 1), value)
    OBVIOUS
  <2>2. PICK low \in Nat : low = value - k /\ low - 1 = value - (k + 1) /\ low > 1 /\ low <= value
    BY <2>1
  <2>3. PICK f : Doubles(f, low, value)
    BY <1>2, <2>1, <2>2
  <2> DEFINE g == [r \in (low - 1)..value |->
                     IF r = low - 1 THEN IF 2 * r < value THEN f[2 * r] ELSE r ELSE f[r]]
  <2>4. ASSUME NEW r \in (low - 1)..value
        PROVE  g[r] = IF 2 * r < value THEN g[2 * r] ELSE r
    <3>1. 2 * r < value => 2 * r \in low..value
      BY <2>2
    <3>2. 2 * r < value => g[2 * r] = f[2 * r]
      BY <3>1, <2>2
    <3>3. CASE r = low - 1
      BY <3>2, <3>3
    <3>4. CASE r # low - 1
      <4>1. r \in low..value
        BY <3>4, <2>2
      <4>2. f[r] = IF 2 * r < value THEN f[2 * r] ELSE r
        BY <2>3, <4>1 DEF Doubles
      <4> QED BY <3>2, <3>4, <4>2
    <3> QED BY <3>3, <3>4
  <2>5. Doubles(g, low - 1, value)
    BY <2>4 DEF Doubles
  <2> HIDE DEF g
  <2> QED BY <2>2, <2>5
<1> HIDE DEF Good
<1>3. value - 1 \in Good
  BY <1>1, <1>2, Induct
<1> QED BY <1>3 DEF Good

LEMMA SplitIsLoop ==
  ASSUME NEW value \in Nat, value > 1
  PROVE  \E f : Doubles(f, 1, value) /\ LargestPowerOfTwoLessThan(value) = f[1]
<1> DEFINE Eq(f) == f = [r \in 1..value |-> IF 2 * r < value THEN f[2 * r] ELSE r]
<1>1. \E f : Eq(f)
  BY DoublesExist DEF Doubles
<1>2. LargestPowerOfTwoLessThan(value) = (CHOOSE h : Eq(h))[1]
  BY DEF LargestPowerOfTwoLessThan
<1> HIDE DEF Eq
<1>3. Eq(CHOOSE h : Eq(h))
  BY <1>1
<1> QED BY <1>2, <1>3 DEF Eq, Doubles

(***************************************************************************)
(* Half as many leaves are split at half the place.                        *)
(***************************************************************************)
LEMMA SplitHalves ==
  /\ LargestPowerOfTwoLessThan(2) = 1
  /\ \A n \in Nat : n > 2 =>
       LargestPowerOfTwoLessThan(n) = 2 * LargestPowerOfTwoLessThan((n + 1) \div 2)
<1>1. LargestPowerOfTwoLessThan(2) = 1
  <2>1. PICK f : Doubles(f, 1, 2) /\ LargestPowerOfTwoLessThan(2) = f[1]
    BY SplitIsLoop
  <2> QED BY <2>1 DEF Doubles
<1>2. ASSUME NEW n \in Nat, n > 2
      PROVE  LargestPowerOfTwoLessThan(n) = 2 * LargestPowerOfTwoLessThan((n + 1) \div 2)
  <2>1. PICK h \in Nat : h = (n + 1) \div 2
    BY <1>2
  <2>2. h > 1 /\ h < n /\ (n = 2 * h \/ n = 2 * h - 1)
    BY <2>1, <1>2
  <2>3. PICK f : Doubles(f, 1, n) /\ LargestPowerOfTwoLessThan(n) = f[1]
    BY <1>2, SplitIsLoop
  <2>4. PICK g : Doubles(g, 1, h) /\ LargestPowerOfTwoLessThan(h) = g[1]
    BY <2>2, SplitIsLoop
  <2>5. \A r \in 1..n : f[r] = IF 2 * r < n THEN f[2 * r] ELSE r
    BY <2>3 DEF Doubles
  <2>6. \A r \in 1..h : g[r] = IF 2 * r < h THEN g[2 * r] ELSE r
    BY <2>4 DEF Doubles
  <2> DEFINE Good == {k \in Nat : k < h => f[2 * (h - k)] = 2 * g[h - k] \/ h - k = h}
  <2>7. ASSUME NEW k \in Nat, \A i \in Nat : i < k => i \in Good PROVE k \in Good
    <3>1. SUFFICES ASSUME k < h, h - k # h PROVE f[2 * (h - k)] = 2 * g[h - k]
      OBVIOUS
    <3>2. PICK r \in 1..h : r = h - k /\ r < h
      BY <3>1
    <3>3. 2 * r \in 1..n
      BY <3>2, <2>2
    <3>4. CASE 2 * r < h
      <4>1. 2 * (2 * r) < n
        BY <3>4, <2>2
      <4>2. PICK i \in Nat : i = h - 2 * r /\ i < k /\ i < h /\ h - i = 2 * r /\ i # 0
        BY <3>2, <3>4
      <4>3. i \in Good
        BY <2>7, <4>2
      <4>4. f[2 * (2 * r)] = 2 * g[2 * r]
        BY <4>2, <4>3
      <4>5. f[2 * r] = f[2 * (2 * r)]
        BY <2>5, <3>3, <4>1
      <4>6. g[r] = g[2 * r]
        BY <2>6, <3>4
      <4> QED BY <3>2, <4>4, <4>5, <4>6
    <3>5. CASE ~(2 * r < h)
      <4>1. ~(2 * (2 * r) < n)
        BY <3>5, <2>2
      <4>2. f[2 * r] = 2 * r
        BY <2>5, <3>3, <4>1
      <4>3. g[r] = r
        BY <2>6, <3>5
      <4> QED BY <3>2, <4>2, <4>3
    <3> QED BY <3>4, <3>5
  <2> HIDE DEF Good
  <2>8. h - 1 \in Good
    BY <2>2, <2>7, StrongInduct
  <2>9. f[2] = 2 * g[1]
    <3>1. h - 1 \in Nat /\ h - 1 < h /\ h - (h - 1) = 1 /\ 1 # h
      BY <2>2
    <3> QED BY <2>8, <3>1 DEF Good
  <2>10. f[1] = f[2]
    BY <2>5, <1>2
  <2> QED BY <2>1, <2>3, <2>4, <2>9, <2>10
<1> QED BY <1>1, <1>2

LEMMA SplitBounds ==
  \A n \in Nat : n > 1 =>
    /\ LargestPowerOfTwoLessThan(n) \in 1..(n - 1)
    /\ n > 2 => LargestPowerOfTwoLessThan(n) % 2 = 0
<1> DEFINE LP(n) == LargestPowerOfTwoLessThan(n)
           Good == {n \in Nat : n > 1 => LP(n) \in 1..(n - 1) /\ (n > 2 => LP(n) % 2 = 0)}
<1>1. ASSUME NEW n \in Nat, \A k \in Nat : k < n => k \in Good PROVE n \in Good
  <2>1. CASE n > 2
    <3>1. PICK h \in Nat : h = (n + 1) \div 2 /\ h > 1 /\ h < n /\ 2 * h <= n + 1
      BY <2>1
    <3>2. LP(h) \in 1..(h - 1)
      BY <1>1, <3>1
    <3>3. LP(n) = 2 * LP(h)
      BY <2>1, <3>1, SplitHalves
    <3>4. PICK l \in 1..(h - 1) : l = LP(h)
      BY <3>2
    <3>5. LP(n) = 2 * l
      BY <3>3, <3>4
    <3>6. LP(n) \in 1..(n - 1) /\ LP(n) % 2 = 0
      BY <3>1, <3>5
    <3> QED BY <3>6
  <2>2. CASE n = 2
    BY <2>2, SplitHalves
  <2>3. CASE n < 2
    BY <2>3
  <2> QED BY <2>1, <2>2, <2>3
<1> HIDE DEF Good
<1>2. \A n \in Nat : n \in Good
  BY <1>1, StrongInduct
<1> QED BY <1>2 DEF Good

-----------------------------------------------------------------------------
(***************************************************************************)
(* The roots of subtrees.                                                  *)
(***************************************************************************)
RootTable(f, hashes, n) ==
  f = [size \in 1..n |-> [first \in Nat |-> NodeOver(f, hashes, size, first)]]

LEMMA NodeDependsBelow ==
  ASSUME NEW f, NEW g, NEW hashes, NEW size \in Nat \ {0}, NEW first \in Nat,
         \A s \in 1..(size - 1) : f[s] = g[s]
  PROVE  NodeOver(f, hashes, size, first) = NodeOver(g, hashes, size, first)
<1>1. CASE size = 1
  BY <1>1 DEF NodeOver
<1>2. CASE size # 1
  <2>1. PICK k \in 1..(size - 1) : k = LargestPowerOfTwoLessThan(size)
    BY <1>2, SplitBounds
  <2>2. f[k] = g[k] /\ f[size - k] = g[size - k]
    BY <2>1
  <2>3. NodeOver(f, hashes, size, first) = HashNode(f[k][first], f[size - k][first + k])
    BY <1>2, <2>1 DEF NodeOver
  <2>4. NodeOver(g, hashes, size, first) = HashNode(g[k][first], g[size - k][first + k])
    BY <1>2, <2>1 DEF NodeOver
  <2> QED BY <2>2, <2>3, <2>4
<1> QED BY <1>1, <1>2

LEMMA RootsExist ==
  ASSUME NEW hashes, NEW n \in Nat
  PROVE  \E f : RootTable(f, hashes, n)
<1> DEFINE Good == {k \in Nat : \E f : RootTable(f, hashes, k)}
<1>1. 0 \in Good
  <2>1. 1..0 = {}
    OBVIOUS
  <2>2. RootTable([size \in 1..0 |-> 0], hashes, 0)
    BY <2>1 DEF RootTable
  <2> QED BY <2>2
<1>2. ASSUME NEW k \in Nat, k \in Good PROVE k + 1 \in Good
  <2>1. PICK f : RootTable(f, hashes, k)
    BY <1>2
  <2> DEFINE Row(g, size) == [first \in Nat |-> NodeOver(g, hashes, size, first)]
             g == [size \in 1..(k + 1) |-> IF size = k + 1 THEN Row(f, size) ELSE f[size]]
  <2>2. \A size \in 1..k : g[size] = f[size]
    OBVIOUS
  <2>3. ASSUME NEW size \in 1..(k + 1) PROVE Row(g, size) = Row(f, size)
    <3> HIDE DEF g
    <3>1. size \in Nat \ {0} /\ \A s \in 1..(size - 1) : g[s] = f[s]
      BY <2>2
    <3>2. \A first \in Nat : NodeOver(g, hashes, size, first) = NodeOver(f, hashes, size, first)
      BY <3>1, NodeDependsBelow
    <3> QED BY <3>2
  <2>4. ASSUME NEW size \in 1..(k + 1) PROVE g[size] = Row(g, size)
    <3>1. CASE size = k + 1
      <4> HIDE DEF Row
      <4>1. g[size] = Row(f, size)
        BY <3>1
      <4> HIDE DEF g
      <4> QED BY <4>1, <2>3
    <3>2. CASE size # k + 1
      <4>1. size \in 1..k
        BY <3>2
      <4>2. f[size] = Row(f, size)
        BY <2>1, <4>1 DEF RootTable
      <4> HIDE DEF Row, g
      <4> QED BY <4>1, <4>2, <2>2, <2>3
    <3> QED BY <3>1, <3>2
  <2>5. g = [size \in 1..(k + 1) |-> g[size]]
    OBVIOUS
  <2> HIDE DEF g
  <2>6. g = [size \in 1..(k + 1) |-> Row(g, size)]
    <3> HIDE DEF Row
    <3> QED BY <2>4, <2>5
  <2> QED BY <2>6 DEF RootTable
<1> HIDE DEF Good
<1>3. n \in Good
  BY <1>1, <1>2, Induct
<1> QED BY <1>3 DEF Good

LEMMA SubtreesDef ==
  ASSUME NEW hashes, NEW n \in Nat
  PROVE  \A size \in 1..n, first \in Nat :
           Subtrees(hashes, n)[size][first] = NodeOver(Subtrees(hashes, n), hashes, size, first)
<1> DEFINE Eq(f) == f = [size \in 1..n |-> [first \in Nat |-> NodeOver(f, hashes, size, first)]]
<1>1. \E f : Eq(f)
  <2>1. PICK f : RootTable(f, hashes, n)
    BY RootsExist
  <2>2. Eq(f)
    BY <2>1 DEF RootTable
  <2> HIDE DEF Eq
  <2> QED BY <2>2
<1>2. Subtrees(hashes, n) = CHOOSE h : Eq(h)
  BY DEF Subtrees
<1>3. Eq(Subtrees(hashes, n))
  <2> HIDE DEF Eq
  <2> QED BY <1>1, <1>2
<1>4. PICK f : f = Subtrees(hashes, n)
  OBVIOUS
<1> DEFINE Row(size) == [first \in Nat |-> NodeOver(f, hashes, size, first)]
<1>5. f = [size \in 1..n |-> Row(size)]
  BY <1>3, <1>4
<1> HIDE DEF Eq
<1>6. \A size \in 1..n : f[size] = Row(size)
  <2> HIDE DEF Row
  <2> QED BY <1>5
<1>7. \A size \in 1..n, first \in Nat : Row(size)[first] = NodeOver(f, hashes, size, first)
  OBVIOUS
<1> HIDE DEF Row
<1>8. \A size \in 1..n, first \in Nat : f[size][first] = NodeOver(f, hashes, size, first)
  BY <1>6, <1>7
<1> QED BY <1>4, <1>8

(***************************************************************************)
(* The root of the size leaves from first on.                              *)
(***************************************************************************)
Root(H, size, first) == Subtrees(H, size)[size][first]

LEMMA NodeOverLeaf ==
  ASSUME NEW f, NEW H, NEW first \in Nat
  PROVE  NodeOver(f, H, 1, first) = H[first]
BY DEF NodeOver

LEMMA NodeOverSplit ==
  ASSUME NEW f, NEW H, NEW first \in Nat, NEW size \in Nat, size > 1, NEW k, NEW r, NEW t,
         k = LargestPowerOfTwoLessThan(size), r = size - k, t = first + k
  PROVE  NodeOver(f, H, size, first) = HashNode(f[k][first], f[r][t])
<1>1. size # 1
  OBVIOUS
<1> QED BY <1>1 DEF NodeOver

LEMMA SubtreesRoot ==
  ASSUME NEW H, NEW n \in Nat
  PROVE  \A size \in 1..n, first \in Nat : Subtrees(H, n)[size][first] = Root(H, size, first)
<1> DEFINE Good == {size \in Nat : \A m \in Nat, first \in Nat : size \in 1..m =>
                      Subtrees(H, m)[size][first] = Subtrees(H, size)[size][first]}
<1>1. ASSUME NEW size \in Nat, \A s \in Nat : s < size => s \in Good
      PROVE  size \in Good
  <2>1. SUFFICES ASSUME NEW m \in Nat, NEW first \in Nat, size \in 1..m
                 PROVE  Subtrees(H, m)[size][first] = Subtrees(H, size)[size][first]
    OBVIOUS
  <2>2. Subtrees(H, m)[size][first] = NodeOver(Subtrees(H, m), H, size, first)
    BY <2>1, SubtreesDef
  <2>3. Subtrees(H, size)[size][first] = NodeOver(Subtrees(H, size), H, size, first)
    <3>1. size \in 1..size
      BY <2>1
    <3> QED BY <3>1, SubtreesDef
  <2>4. CASE size = 1
    BY <2>2, <2>3, <2>4, NodeOverLeaf
  <2>5. CASE size # 1
    <3>1. PICK k \in 1..(size - 1) : k = LargestPowerOfTwoLessThan(size)
      BY <2>1, <2>5, SplitBounds
    <3>2. /\ Subtrees(H, m)[k][first] = Subtrees(H, k)[k][first]
          /\ Subtrees(H, size)[k][first] = Subtrees(H, k)[k][first]
      BY <1>1, <2>1, <3>1
    <3>3. PICK r \in 1..(size - 1), t \in Nat : r = size - k /\ t = first + k
      BY <3>1
    <3>4. /\ Subtrees(H, m)[r][t] = Subtrees(H, r)[r][t]
          /\ Subtrees(H, size)[r][t] = Subtrees(H, r)[r][t]
      BY <1>1, <2>1, <3>3
    <3>5. size > 1 /\ k \in Nat
      BY <2>1, <2>5, <3>1
    <3>6. NodeOver(Subtrees(H, m), H, size, first)
            = HashNode(Subtrees(H, m)[k][first], Subtrees(H, m)[r][t])
      BY <3>1, <3>3, <3>5, NodeOverSplit
    <3>7. NodeOver(Subtrees(H, size), H, size, first)
            = HashNode(Subtrees(H, size)[k][first], Subtrees(H, size)[r][t])
      BY <3>1, <3>3, <3>5, NodeOverSplit
    <3> QED BY <2>2, <2>3, <3>2, <3>4, <3>6, <3>7
  <2> QED BY <2>4, <2>5
<1> HIDE DEF Good
<1>2. \A size \in Nat : size \in Good
  BY <1>1, StrongInduct
<1>3. ASSUME NEW size \in 1..n, NEW first \in Nat
      PROVE  Subtrees(H, n)[size][first] = Root(H, size, first)
  BY <1>2 DEF Good, Root
<1> QED BY <1>3

LEMMA RootLeaf ==
  ASSUME NEW H, NEW first \in Nat
  PROVE  Root(H, 1, first) = H[first]
<1>1. 1 \in 1..1
  OBVIOUS
<1> QED BY <1>1, SubtreesDef, NodeOverLeaf DEF Root

LEMMA RootSplit ==
  ASSUME NEW H, NEW first \in Nat, NEW size \in Nat, size > 1, NEW k, NEW r, NEW t,
         k = LargestPowerOfTwoLessThan(size), r = size - k, t = first + k
  PROVE  Root(H, size, first) = HashNode(Root(H, k, first), Root(H, r, t))
<1>1. k \in 1..(size - 1)
  BY SplitBounds
<1>2. size \in 1..size /\ k \in 1..size /\ r \in 1..size /\ t \in Nat
  BY <1>1
<1>3. Root(H, size, first) = NodeOver(Subtrees(H, size), H, size, first)
  BY <1>2, SubtreesDef DEF Root
<1>4. NodeOver(Subtrees(H, size), H, size, first)
        = HashNode(Subtrees(H, size)[k][first], Subtrees(H, size)[r][t])
  BY NodeOverSplit
<1>5. Subtrees(H, size)[k][first] = Root(H, k, first)
  BY <1>2, SubtreesRoot
<1>6. Subtrees(H, size)[r][t] = Root(H, r, t)
  BY <1>2, SubtreesRoot
<1> QED BY <1>3, <1>4, <1>5, <1>6

(***************************************************************************)
(* A root is of the leaves under it.                                       *)
(***************************************************************************)
LEMMA RootAgrees ==
  ASSUME NEW G, NEW H
  PROVE  \A size \in Nat \ {0}, first \in Nat :
           (\A i \in first..(first + size - 1) : G[i] = H[i]) =>
             Root(G, size, first) = Root(H, size, first)
<1> DEFINE Good == {size \in Nat : size # 0 => \A first \in Nat :
                      (\A i \in first..(first + size - 1) : G[i] = H[i]) =>
                        Root(G, size, first) = Root(H, size, first)}
<1>1. ASSUME NEW size \in Nat, \A s \in Nat : s < size => s \in Good
      PROVE  size \in Good
  <2>1. SUFFICES ASSUME size # 0, NEW first \in Nat,
                        \A i \in first..(first + size - 1) : G[i] = H[i]
                 PROVE  Root(G, size, first) = Root(H, size, first)
    OBVIOUS
  <2>2. CASE size = 1
    <3>1. G[first] = H[first]
      BY <2>1, <2>2
    <3> QED BY <2>2, <3>1, RootLeaf
  <2>3. CASE size # 1
    <3>1. PICK k \in 1..(size - 1) : k = LargestPowerOfTwoLessThan(size)
      BY <2>1, <2>3, SplitBounds
    <3>2. PICK r \in 1..(size - 1), t \in Nat : r = size - k /\ t = first + k
      BY <3>1
    <3>3. Root(G, k, first) = Root(H, k, first)
      <4>1. \A i \in first..(first + k - 1) : G[i] = H[i]
        BY <2>1, <3>1
      <4> QED BY <1>1, <3>1, <4>1
    <3>4. Root(G, r, t) = Root(H, r, t)
      <4>1. \A i \in t..(t + r - 1) : G[i] = H[i]
        BY <2>1, <3>1, <3>2
      <4> QED BY <1>1, <3>2, <4>1
    <3>5. size > 1 /\ k \in Nat
      BY <2>1, <2>3, <3>1
    <3>6. Root(G, size, first) = HashNode(Root(G, k, first), Root(G, r, t))
      BY <3>1, <3>2, <3>5, RootSplit
    <3>7. Root(H, size, first) = HashNode(Root(H, k, first), Root(H, r, t))
      BY <3>1, <3>2, <3>5, RootSplit
    <3> QED BY <3>3, <3>4, <3>6, <3>7
  <2> QED BY <2>2, <2>3
<1> HIDE DEF Good
<1>2. \A size \in Nat : size \in Good
  BY <1>1, StrongInduct
<1> QED BY <1>2 DEF Good

(***************************************************************************)
(* The level above n leaves: their hashes in pairs, the last leaf alone    *)
(* when n is odd.  It has the same root.                                   *)
(***************************************************************************)
Pairs(H, n) ==
  [j \in 1..((n + 1) \div 2) |-> IF 2 * j <= n THEN HashNode(H[2 * j - 1], H[2 * j]) ELSE H[n]]

LEMMA PairsAre ==
  ASSUME NEW H, NEW n \in Nat, NEW j \in Nat \ {0}
  PROVE  /\ 2 * j <= n => Pairs(H, n)[j] = HashNode(H[2 * j - 1], H[2 * j])
         /\ 2 * j - 1 = n => Pairs(H, n)[j] = H[n]
<1>1. 2 * j - 1 <= n => j \in 1..((n + 1) \div 2)
  OBVIOUS
<1> QED BY <1>1 DEF Pairs

LEMMA Pairing ==
  ASSUME NEW H, NEW n \in Nat
  PROVE  \A h \in Nat \ {0}, p \in Nat \ {0}, size \in Nat :
           /\ size = 2 * h \/ (size = 2 * h - 1 /\ 2 * p + size = n + 2)
           /\ 2 * p + size <= n + 2
           => Root(H, size, 2 * p - 1) = Root(Pairs(H, n), h, p)
<1> DEFINE Q == Pairs(H, n)
           Half(h, p, size) == /\ size = 2 * h \/ (size = 2 * h - 1 /\ 2 * p + size = n + 2)
                               /\ 2 * p + size <= n + 2
           Good == {h \in Nat : h # 0 => \A p \in Nat \ {0}, size \in Nat :
                      Half(h, p, size) => Root(H, size, 2 * p - 1) = Root(Q, h, p)}
<1> HIDE DEF Q
<1>1. ASSUME NEW h \in Nat, \A k \in Nat : k < h => k \in Good
      PROVE  h \in Good
  <2>1. SUFFICES ASSUME h # 0, NEW p \in Nat \ {0}, NEW size \in Nat, Half(h, p, size)
                 PROVE  Root(H, size, 2 * p - 1) = Root(Q, h, p)
    OBVIOUS
  <2>2. PICK first \in Nat : first = 2 * p - 1
    OBVIOUS
  <2>3. CASE h = 1
    <3>1. Root(Q, 1, p) = Q[p]
      BY RootLeaf
    <3>2. CASE size = 2
      <4>1. Root(H, 2, first) = HashNode(Root(H, 1, first), Root(H, 1, first + 1))
        BY SplitHalves, RootSplit
      <4>2. Root(H, 1, first) = H[first] /\ Root(H, 1, first + 1) = H[first + 1]
        BY RootLeaf
      <4>3. Q[p] = HashNode(H[2 * p - 1], H[2 * p])
        <5>1. 2 * p <= n
          BY <2>1, <3>2
        <5> QED BY <5>1, PairsAre DEF Q
      <4>4. first + 1 = 2 * p
        BY <2>2
      <4> QED BY <2>2, <2>3, <3>1, <3>2, <4>1, <4>2, <4>3, <4>4
    <3>3. CASE size # 2
      <4>1. size = 1 /\ 2 * p - 1 = n
        BY <2>1, <2>3, <3>3
      <4>2. Q[p] = H[n]
        BY <4>1, PairsAre DEF Q
      <4>3. Root(H, 1, first) = H[first]
        BY RootLeaf
      <4> QED BY <2>2, <2>3, <3>1, <4>1, <4>2, <4>3
    <3> QED BY <3>2, <3>3
  <2>4. CASE h # 1
    <3>1. h > 1 /\ size > 2 /\ (size + 1) \div 2 = h
      BY <2>1, <2>4
    <3>2. PICK l \in 1..(h - 1) : l = LargestPowerOfTwoLessThan(h)
      BY <3>1, SplitBounds
    <3>3. LargestPowerOfTwoLessThan(size) = 2 * l
      BY <3>1, <3>2, SplitHalves
    <3>0. size >= 2 * h - 1 /\ 2 * l <= 2 * h - 2
      BY <2>1, <3>2
    <3>a. PICK rest \in Nat : rest = size - 2 * l
      BY <3>0
    <3>b. PICK r \in Nat : r = h - l
      BY <3>2
    <3>4. PICK k \in Nat, q \in Nat, t \in Nat :
            /\ k = 2 * l /\ rest = size - k /\ r = h - l /\ q = p + l
            /\ t = first + k
      BY <3>a, <3>b
    <3>5. Half(l, p, k) /\ Half(r, q, rest) /\ t = 2 * q - 1
      BY <2>1, <2>2, <3>2, <3>4
    <3> HIDE DEF Half
    <3>6. Root(H, k, first) = Root(Q, l, p)
      BY <1>1, <2>2, <3>2, <3>4, <3>5
    <3>7. Root(H, rest, t) = Root(Q, r, q)
      BY <1>1, <2>2, <3>2, <3>4, <3>5
    <3>8. Root(H, size, first) = HashNode(Root(H, k, first), Root(H, rest, t))
      BY <3>1, <3>3, <3>4, RootSplit
    <3>9. Root(Q, h, p) = HashNode(Root(Q, l, p), Root(Q, r, q))
      BY <3>1, <3>2, <3>4, RootSplit
    <3> QED BY <2>2, <3>6, <3>7, <3>8, <3>9
  <2> QED BY <2>3, <2>4
<1> HIDE DEF Good
<1>2. \A h \in Nat : h \in Good
  BY <1>1, StrongInduct
<1>3. ASSUME NEW h \in Nat \ {0}, NEW p \in Nat \ {0}, NEW size \in Nat, Half(h, p, size)
      PROVE  Root(H, size, 2 * p - 1) = Root(Q, h, p)
  BY <1>2, <1>3 DEF Good
<1> QED BY <1>3 DEF Q

(***************************************************************************)
(* The root over n leaves is the root over the level above them.           *)
(***************************************************************************)
LEMMA RootOfPairs ==
  ASSUME NEW H, NEW n \in Nat \ {0}, NEW h \in Nat, h = (n + 1) \div 2
  PROVE  Root(H, n, 1) = Root(Pairs(H, n), h, 1)
<1>1. /\ h \in Nat \ {0} /\ 1 \in Nat \ {0} /\ 2 * 1 - 1 = 1 /\ n \in Nat
      /\ 2 * 1 + n <= n + 2
  OBVIOUS
<1>2. n = 2 * h \/ (n = 2 * h - 1 /\ 2 * 1 + n = n + 2)
  OBVIOUS
<1> QED BY <1>1, <1>2, Pairing

-----------------------------------------------------------------------------
(***************************************************************************)
(* Halving two numbers while the first is one of more.                     *)
(***************************************************************************)
HalvedRow(h, more, f) ==
  [s \in Nat |-> IF f \in more THEN h[f \div 2][s \div 2] ELSE <<f, s>>]
HalvedTable(h, more, n) == h = [f \in 0..n |-> HalvedRow(h, more, f)]
HalvedBy(more, n) == CHOOSE h : HalvedTable(h, more, n)

LEMMA HalvedRowAt ==
  ASSUME NEW h, NEW more, NEW f, NEW s \in Nat
  PROVE  HalvedRow(h, more, f)[s] = IF f \in more THEN h[f \div 2][s \div 2] ELSE <<f, s>>
BY DEF HalvedRow

LEMMA HalvedRowDependsBelow ==
  ASSUME NEW h, NEW g, NEW more, NEW f \in Nat, 0 \notin more,
         \A i \in Nat : i < f => g[i] = h[i]
  PROVE  HalvedRow(g, more, f) = HalvedRow(h, more, f)
<1>1. CASE f \in more
  <2>1. f \div 2 \in Nat /\ f \div 2 < f
    BY <1>1
  <2>2. g[f \div 2] = h[f \div 2]
    BY <2>1
  <2>3. PICK a : a = g[f \div 2] /\ a = h[f \div 2]
    BY <2>2
  <2>4. HalvedRow(g, more, f) = [s \in Nat |-> a[s \div 2]]
    BY <1>1, <2>3 DEF HalvedRow
  <2>5. HalvedRow(h, more, f) = [s \in Nat |-> a[s \div 2]]
    BY <1>1, <2>3 DEF HalvedRow
  <2> QED BY <2>4, <2>5
<1>2. CASE f \notin more
  BY <1>2 DEF HalvedRow
<1> QED BY <1>1, <1>2

LEMMA HalvedTableExists ==
  ASSUME NEW more, 0 \notin more, NEW n \in Nat
  PROVE  \E h : HalvedTable(h, more, n)
<1> DEFINE Good == {k \in Nat : \E h : HalvedTable(h, more, k)}
<1>1. 0 \in Good
  <2> DEFINE h == [f \in 0..0 |-> HalvedRow(0, more, f)]
  <2>1. \A f \in 0..0 : f \in Nat /\ \A i \in Nat : i < f => h[i] = 0[i]
    OBVIOUS
  <2>2. \A f \in 0..0 : h[f] = HalvedRow(0, more, f)
    OBVIOUS
  <2>3. h = [f \in 0..0 |-> h[f]]
    OBVIOUS
  <2> HIDE DEF h
  <2>4. \A f \in 0..0 : HalvedRow(h, more, f) = HalvedRow(0, more, f)
    BY <2>1, HalvedRowDependsBelow
  <2>5. h = [f \in 0..0 |-> HalvedRow(h, more, f)]
    BY <2>2, <2>3, <2>4
  <2>6. HalvedTable(h, more, 0)
    BY <2>5 DEF HalvedTable
  <2> QED BY <2>6
<1>2. ASSUME NEW k \in Nat, k \in Good PROVE k + 1 \in Good
  <2>1. PICK h : HalvedTable(h, more, k)
    BY <1>2
  <2> DEFINE g == [f \in 0..(k + 1) |-> IF f = k + 1 THEN HalvedRow(h, more, f) ELSE h[f]]
  <2>2. \A f \in 0..k : g[f] = h[f]
    OBVIOUS
  <2>3. g[k + 1] = HalvedRow(h, more, k + 1)
    OBVIOUS
  <2>4. g = [f \in 0..(k + 1) |-> g[f]]
    OBVIOUS
  <2> HIDE DEF g
  <2>5. \A f \in 0..k : h[f] = HalvedRow(h, more, f)
    BY <2>1 DEF HalvedTable
  <2>6. \A f \in 0..(k + 1) : f \in Nat /\ \A i \in Nat : i < f => g[i] = h[i]
    BY <2>2
  <2>7. \A f \in 0..(k + 1) : HalvedRow(g, more, f) = HalvedRow(h, more, f)
    BY <2>6, HalvedRowDependsBelow
  <2>8. ASSUME NEW f \in 0..(k + 1) PROVE g[f] = HalvedRow(g, more, f)
    <3>1. CASE f = k + 1
      BY <3>1, <2>3, <2>7
    <3>2. CASE f # k + 1
      <4>1. f \in 0..k
        BY <3>2
      <4> QED BY <4>1, <2>2, <2>5, <2>7
    <3> QED BY <3>1, <3>2
  <2>9. g = [f \in 0..(k + 1) |-> HalvedRow(g, more, f)]
    BY <2>4, <2>8
  <2> QED BY <2>9 DEF HalvedTable
<1> HIDE DEF Good
<1>3. n \in Good
  BY <1>1, <1>2, Induct
<1> QED BY <1>3 DEF Good

LEMMA HalvedByDef ==
  ASSUME NEW more, 0 \notin more, NEW n \in Nat
  PROVE  \A f \in 0..n : HalvedBy(more, n)[f] = HalvedRow(HalvedBy(more, n), more, f)
<1>1. HalvedTable(HalvedBy(more, n), more, n)
  BY HalvedTableExists DEF HalvedBy
<1> QED BY <1>1 DEF HalvedTable

LEMMA HalvedWhileIs ==
  ASSUME NEW more, NEW n \in Nat, NEW s \in Nat
  PROVE  HalvedWhile(more, n, s) = HalvedBy(more, n)[n][s]
BY DEF HalvedWhile, HalvedBy, HalvedTable, HalvedRow

LEMMA HalvedByAgrees ==
  ASSUME NEW more, 0 \notin more
  PROVE  \A f \in Nat, n \in Nat : f <= n => HalvedBy(more, n)[f] = HalvedBy(more, f)[f]
<1> DEFINE Good == {f \in Nat : \A n \in Nat : f <= n =>
                                  HalvedBy(more, n)[f] = HalvedBy(more, f)[f]}
<1>1. ASSUME NEW f \in Nat, \A i \in Nat : i < f => i \in Good PROVE f \in Good
  <2>1. SUFFICES ASSUME NEW n \in Nat, f <= n
                 PROVE  HalvedBy(more, n)[f] = HalvedBy(more, f)[f]
    OBVIOUS
  <2>2. \A i \in Nat : i < f => HalvedBy(more, n)[i] = HalvedBy(more, f)[i]
    BY <1>1, <2>1
  <2>3. HalvedRow(HalvedBy(more, n), more, f) = HalvedRow(HalvedBy(more, f), more, f)
    BY <2>2, HalvedRowDependsBelow
  <2>4. HalvedBy(more, n)[f] = HalvedRow(HalvedBy(more, n), more, f)
    BY <2>1, HalvedByDef
  <2>5. HalvedBy(more, f)[f] = HalvedRow(HalvedBy(more, f), more, f)
    <3>1. f \in 0..f
      OBVIOUS
    <3> QED BY <3>1, HalvedByDef
  <2> QED BY <2>3, <2>4, <2>5
<1> HIDE DEF Good
<1>2. \A f \in Nat : f \in Good
  BY <1>1, StrongInduct
<1> QED BY <1>2 DEF Good

LEMMA HalvedWhileDef ==
  ASSUME NEW more, 0 \notin more, NEW f \in Nat, NEW s \in Nat
  PROVE  /\ f \notin more => HalvedWhile(more, f, s) = <<f, s>>
         /\ f \in more => HalvedWhile(more, f, s) = HalvedWhile(more, f \div 2, s \div 2)
<1>1. f \in 0..f
  OBVIOUS
<1>2. HalvedWhile(more, f, s) = HalvedRow(HalvedBy(more, f), more, f)[s]
  BY <1>1, HalvedByDef, HalvedWhileIs
<1>a. PICK g : g = HalvedBy(more, f)
  OBVIOUS
<1>b. HalvedRow(g, more, f)[s] = IF f \in more THEN g[f \div 2][s \div 2] ELSE <<f, s>>
  BY HalvedRowAt
<1>c. HalvedWhile(more, f, s) = IF f \in more THEN g[f \div 2][s \div 2] ELSE <<f, s>>
  BY <1>2, <1>a, <1>b
<1>3. CASE f \notin more
  BY <1>c, <1>3
<1>4. CASE f \in more
  <2>1. PICK h \in Nat, t \in Nat : h = f \div 2 /\ t = s \div 2
    OBVIOUS
  <2>2. h <= f
    BY <2>1
  <2>3. HalvedWhile(more, f, s) = g[h][t]
    BY <1>c, <1>4, <2>1
  <2>4. g[h] = HalvedBy(more, h)[h]
    BY <1>a, <2>2, HalvedByAgrees
  <2>5. HalvedWhile(more, h, t) = HalvedBy(more, h)[h][t]
    BY HalvedWhileIs
  <2> QED BY <1>4, <2>1, <2>3, <2>4, <2>5
<1> QED BY <1>3, <1>4

-----------------------------------------------------------------------------
(***************************************************************************)
(* The two ways the walks halve, and the powers of two.                    *)
(***************************************************************************)
LEMMA EvenOdd ==
  /\ 0 \notin Even /\ 0 \notin Odd
  /\ \A f \in Nat : f \in Odd <=> f % 2 = 1
  /\ \A f \in Nat : f \in Even <=> f # 0 /\ f % 2 = 0
BY DEF Even, Odd, LeastSignificantBit

LEMMA PastEdgeDef ==
  ASSUME NEW f \in Nat, NEW s \in Nat
  PROVE  /\ f % 2 = 1 => PastEdge(f, s) = <<f, s>>
         /\ f # 0 /\ f % 2 = 0 => PastEdge(f, s) = PastEdge(f \div 2, s \div 2)
BY EvenOdd, HalvedWhileDef DEF PastEdge

LEMMA PastFullDef ==
  ASSUME NEW f \in Nat, NEW s \in Nat
  PROVE  /\ f % 2 = 0 => PastFullSubtree(f, s) = <<f, s>>
         /\ f % 2 = 1 => PastFullSubtree(f, s) = PastFullSubtree(f \div 2, s \div 2)
<1>1. f \in Odd <=> f % 2 = 1
  BY EvenOdd
<1>2. f % 2 = 0 \/ f % 2 = 1
  OBVIOUS
<1> QED BY <1>1, <1>2, EvenOdd, HalvedWhileDef DEF PastFullSubtree

LEMMA ExactPowers ==
  ASSUME NEW m \in Nat \ {0}
  PROVE  /\ m % 2 = 1 => (IsExactPowerOfTwo(m) <=> m = 1)
         /\ m % 2 = 0 => (IsExactPowerOfTwo(m) <=> IsExactPowerOfTwo(m \div 2))
<1>1. CASE m % 2 = 1
  <2>1. m \notin Even
    BY <1>1, EvenOdd
  <2>2. HalvedWhile(Even, m, 0) = <<m, 0>>
    BY <2>1, EvenOdd, HalvedWhileDef
  <2> QED BY <1>1, <2>2 DEF IsExactPowerOfTwo
<1>2. CASE m % 2 = 0
  <2>1. m \in Even
    BY <1>2, EvenOdd
  <2>2. 0 \div 2 = 0
    OBVIOUS
  <2>3. HalvedWhile(Even, m, 0) = HalvedWhile(Even, m \div 2, 0 \div 2)
    BY <2>1, EvenOdd, HalvedWhileDef
  <2> QED BY <1>2, <2>2, <2>3 DEF IsExactPowerOfTwo
<1>3. m % 2 = 0 \/ m % 2 = 1
  OBVIOUS
<1> QED BY <1>1, <1>2, <1>3

(***************************************************************************)
(* One step of the walk of an inclusion proof.                             *)
(***************************************************************************)
At(f, s, h) == InclusionAt(<<f, s>>, h)

LEMMA InclusionSteps ==
  ASSUME NEW f \in Nat, NEW s \in Nat, s # 0, NEW h, NEW x
  PROVE  /\ f % 2 = 1 =>
              InclusionStep(At(f, s, h), x) = At(f \div 2, s \div 2, HashNode(x, h))
         /\ f % 2 = 0 /\ f # s =>
              InclusionStep(At(f, s, h), x) = At(f \div 2, s \div 2, HashNode(h, x))
         /\ f % 2 = 0 /\ f = s =>
              InclusionStep(At(f, s, h), x) = InclusionStep(At(f \div 2, s \div 2, h), x)
<1>a. PICK w : w = At(f, s, h)
  OBVIOUS
<1>1. w.fn = f /\ w.sn = s /\ w.hash = h /\ w.stop = FALSE
  BY <1>a DEF At, InclusionAt
<1>2. CASE f % 2 = 1
  <2>1. PastEdge(f, s) = <<f, s>>
    BY <1>2, PastEdgeDef
  <2>2. Halved(w, TRUE) = <<f \div 2, s \div 2>>
    BY <1>1, <2>1 DEF Halved
  <2>3. JoinsLeft(w)
    BY <1>1, <1>2 DEF JoinsLeft, LeastSignificantBit
  <2>4. InclusionStep(w, x) = At(f \div 2, s \div 2, HashNode(x, h))
    BY <1>1, <2>2, <2>3 DEF InclusionStep, At
  <2> QED BY <1>a, <1>2, <2>4
<1>3. CASE f % 2 = 0 /\ f # s
  <2>1. Halved(w, FALSE) = <<f \div 2, s \div 2>>
    BY <1>1 DEF Halved
  <2>2. JoinsLeft(w) = FALSE
    BY <1>1, <1>3 DEF JoinsLeft, LeastSignificantBit
  <2>3. InclusionStep(w, x) = At(f \div 2, s \div 2, HashNode(h, x))
    BY <1>1, <2>1, <2>2 DEF InclusionStep, At
  <2> QED BY <1>a, <1>3, <2>3
<1>4. CASE f % 2 = 0 /\ f = s
  <2>a. PICK v : v = At(f \div 2, s \div 2, h)
    OBVIOUS
  <2>1. v.fn = f \div 2 /\ v.sn = s \div 2 /\ v.hash = h /\ v.stop = FALSE
    BY <2>a DEF At, InclusionAt
  <2>2. JoinsLeft(w) = TRUE /\ JoinsLeft(v) = TRUE
    BY <1>1, <1>4, <2>1 DEF JoinsLeft
  <2>3. PastEdge(f, s) = PastEdge(f \div 2, s \div 2)
    BY <1>4, PastEdgeDef
  <2>4. Halved(w, TRUE) = Halved(v, TRUE)
    BY <1>1, <2>1, <2>3 DEF Halved
  <2>5. s \div 2 # 0
    BY <1>4
  <2>6. InclusionStep(w, x) = InclusionStep(v, x)
    BY <1>1, <2>1, <2>2, <2>4, <2>5 DEF InclusionStep
  <2> QED BY <1>a, <2>a, <1>4, <2>6
<1> QED BY <1>2, <1>3, <1>4

LEMMA InclusionStops ==
  ASSUME NEW w, NEW x
  PROVE  w.stop \/ w.sn = 0 => InclusionStep(w, x) = Stopped
BY DEF InclusionStep

(***************************************************************************)
(* The walk of an inclusion proof, node by node.                           *)
(***************************************************************************)
InclusionTable(walk, start, path, n) ==
  walk = [i \in 0..n |-> IF i = 0 THEN start ELSE InclusionStep(walk[i - 1], path[i])]

LEMMA InclusionTableExists ==
  ASSUME NEW start, NEW path, NEW n \in Nat
  PROVE  \E walk : InclusionTable(walk, start, path, n)
<1> DEFINE Good == {k \in Nat : \E walk : InclusionTable(walk, start, path, k)}
<1>1. 0 \in Good
  <2>1. InclusionTable([i \in 0..0 |-> start], start, path, 0)
    BY DEF InclusionTable
  <2> QED BY <2>1
<1>2. ASSUME NEW k \in Nat, k \in Good PROVE k + 1 \in Good
  <2>1. PICK walk : InclusionTable(walk, start, path, k)
    BY <1>2
  <2>2. PICK last : last = InclusionStep(walk[k], path[k + 1])
    OBVIOUS
  <2> DEFINE longer == [i \in 0..(k + 1) |-> IF i = k + 1 THEN last ELSE walk[i]]
  <2>3. /\ \A i \in 0..k : longer[i] = walk[i]
        /\ longer[k + 1] = last
        /\ longer = [i \in 0..(k + 1) |-> longer[i]]
    OBVIOUS
  <2> HIDE DEF longer
  <2>4. \A i \in 0..k : walk[i] = IF i = 0 THEN start ELSE InclusionStep(walk[i - 1], path[i])
    BY <2>1 DEF InclusionTable
  <2>5. ASSUME NEW i \in 0..(k + 1)
        PROVE  longer[i] = IF i = 0 THEN start ELSE InclusionStep(longer[i - 1], path[i])
    <3>1. CASE i = k + 1
      <4>1. i - 1 = k /\ i # 0 /\ k \in 0..k
        BY <3>1
      <4> QED BY <3>1, <4>1, <2>2, <2>3
    <3>2. CASE i # k + 1
      <4>1. i \in 0..k /\ (i # 0 => i - 1 \in 0..k)
        BY <3>2
      <4> QED BY <4>1, <2>3, <2>4
    <3> QED BY <3>1, <3>2
  <2>6. InclusionTable(longer, start, path, k + 1)
    BY <2>3, <2>5 DEF InclusionTable
  <2> QED BY <2>6
<1> HIDE DEF Good
<1>3. n \in Good
  BY <1>1, <1>2, Induct
<1> QED BY <1>3 DEF Good

LEMMA InclusionWalkIs ==
  ASSUME NEW start, NEW path, Len(path) \in Nat
  PROVE  \E walk : /\ walk[0] = start
                   /\ \A i \in 1..Len(path) : walk[i] = InclusionStep(walk[i - 1], path[i])
                   /\ InclusionWalk(start, path) = walk[Len(path)]
<1> DEFINE walk == CHOOSE w : InclusionTable(w, start, path, Len(path))
<1>1. InclusionWalk(start, path) = walk[Len(path)]
  BY DEF InclusionWalk, InclusionTable
<1>2. InclusionTable(walk, start, path, Len(path))
  BY InclusionTableExists
<1> HIDE DEF walk
<1>3. \A i \in 0..Len(path) :
        walk[i] = IF i = 0 THEN start ELSE InclusionStep(walk[i - 1], path[i])
  BY <1>2 DEF InclusionTable
<1>4. walk[0] = start
  <2>1. 0 \in 0..Len(path)
    OBVIOUS
  <2> QED BY <1>3, <2>1
<1>5. ASSUME NEW i \in 1..Len(path)
      PROVE  walk[i] = InclusionStep(walk[i - 1], path[i])
  <2>1. i \in 0..Len(path) /\ i # 0
    OBVIOUS
  <2> QED BY <1>3, <2>1
<1> QED BY <1>1, <1>4, <1>5

LEMMA InclusionWalkEmpty ==
  ASSUME NEW start, NEW path, Len(path) = 0
  PROVE  InclusionWalk(start, path) = start
<1>1. Len(path) \in Nat
  OBVIOUS
<1> QED BY <1>1, InclusionWalkIs

(***************************************************************************)
(* The walk of a path is its first step and then the walk of the rest.     *)
(***************************************************************************)
LEMMA InclusionWalkLonger ==
  ASSUME NEW start, NEW path, NEW rest, Len(rest) \in Nat, Len(path) = Len(rest) + 1,
         \A i \in 1..Len(rest) : path[i + 1] = rest[i]
  PROVE  InclusionWalk(start, path) = InclusionWalk(InclusionStep(start, path[1]), rest)
<1>1. PICK n \in Nat : n = Len(rest)
  OBVIOUS
<1>2. Len(path) = n + 1
  BY <1>1
<1>3. PICK walk : /\ walk[0] = start
                  /\ \A i \in 1..(n + 1) : walk[i] = InclusionStep(walk[i - 1], path[i])
                  /\ InclusionWalk(start, path) = walk[n + 1]
  <2>1. Len(path) \in Nat
    BY <1>2
  <2> QED BY <1>2, <2>1, InclusionWalkIs
<1>4. PICK w : /\ w[0] = InclusionStep(start, path[1])
               /\ \A i \in 1..n : w[i] = InclusionStep(w[i - 1], rest[i])
               /\ InclusionWalk(InclusionStep(start, path[1]), rest) = w[n]
  BY <1>1, InclusionWalkIs
<1> DEFINE Good == {i \in Nat : i <= n => w[i] = walk[i + 1]}
<1>5. 0 \in Good
  <2>1. 1 \in 1..(n + 1) /\ 1 - 1 = 0 /\ 0 + 1 = 1
    OBVIOUS
  <2>2. walk[1] = InclusionStep(start, path[1])
    BY <1>3, <2>1
  <2> QED BY <1>4, <2>1, <2>2
<1>6. ASSUME NEW k \in Nat, k \in Good PROVE k + 1 \in Good
  <2>1. SUFFICES ASSUME k + 1 <= n PROVE w[k + 1] = walk[(k + 1) + 1]
    OBVIOUS
  <2>2. PICK i \in 1..n, j \in 1..(n + 1) : i = k + 1 /\ i - 1 = k /\ j = i + 1 /\ j - 1 = i
    BY <2>1
  <2>3. w[k] = walk[i]
    BY <1>6, <2>1, <2>2
  <2>4. w[i] = InclusionStep(w[k], rest[i])
    BY <1>4, <2>2
  <2>5. walk[j] = InclusionStep(walk[i], path[j])
    BY <1>3, <2>2
  <2>6. path[j] = rest[i]
    BY <1>1, <2>2
  <2> QED BY <2>2, <2>3, <2>4, <2>5, <2>6
<1> HIDE DEF Good
<1>7. n \in Good
  BY <1>5, <1>6, Induct
<1>8. w[n] = walk[n + 1]
  BY <1>7 DEF Good
<1> QED BY <1>3, <1>4, <1>8

LEMMA InclusionWalkStops ==
  ASSUME NEW start, NEW path, Len(path) \in Nat,
         start.stop \/ (start.sn = 0 /\ Len(path) # 0)
  PROVE  InclusionWalk(start, path).stop
<1>1. PICK n \in Nat : n = Len(path)
  OBVIOUS
<1>2. PICK walk : /\ walk[0] = start
                  /\ \A i \in 1..n : walk[i] = InclusionStep(walk[i - 1], path[i])
                  /\ InclusionWalk(start, path) = walk[n]
  BY <1>1, InclusionWalkIs
<1> DEFINE Good == {i \in Nat : i <= n /\ (i # 0 \/ start.stop) => walk[i].stop}
<1>3. 0 \in Good
  BY <1>2
<1>4. ASSUME NEW k \in Nat, k \in Good PROVE k + 1 \in Good
  <2>1. SUFFICES ASSUME k + 1 <= n PROVE walk[k + 1].stop
    OBVIOUS
  <2>2. PICK i \in 1..n : i = k + 1 /\ i - 1 = k
    BY <2>1
  <2>3. walk[i] = InclusionStep(walk[k], path[i])
    BY <1>2, <2>2
  <2>4. walk[k].stop \/ walk[k].sn = 0
    <3>1. CASE k = 0
      BY <1>2, <3>1
    <3>2. CASE k # 0
      BY <1>4, <2>1, <3>2
    <3> QED BY <3>1, <3>2
  <2>5. walk[i] = Stopped
    BY <2>3, <2>4, InclusionStops
  <2> QED BY <2>2, <2>5 DEF Stopped
<1> HIDE DEF Good
<1>5. n \in Good
  BY <1>3, <1>4, Induct
<1>6. n # 0 \/ start.stop
  BY <1>1
<1> QED BY <1>2, <1>5, <1>6 DEF Good

-----------------------------------------------------------------------------
(***************************************************************************)
(* An inclusion proof is sound: a walk from a leaf hash that ends at the   *)
(* root over s + 1 leaves began at leaf f + 1 of them.  The level above    *)
(* has the same root and the walk goes on there, so that a counterexample  *)
(* would give a smaller one.                                               *)
(***************************************************************************)
IsPath(p) == \E T : p \in Seq(T)

Reaches(w, path, root) ==
  /\ ~InclusionWalk(w, path).stop
  /\ InclusionWalk(w, path).sn = 0
  /\ InclusionWalk(w, path).hash = root

LEMMA PathRest ==
  ASSUME NEW path, IsPath(path)
  PROVE  /\ Len(path) \in Nat
         /\ Len(path) # 0 => \E x, rest : /\ IsPath(rest) /\ x = path[1] /\ rest = Tail(path)
                                          /\ Len(rest) \in Nat /\ Len(path) = Len(rest) + 1
                                          /\ \A i \in 1..Len(rest) : path[i + 1] = rest[i]
<1>1. PICK T : path \in Seq(T)
  BY DEF IsPath
<1>2. Len(path) \in Nat
  BY <1>1
<1>3. ASSUME Len(path) # 0
      PROVE  /\ IsPath(Tail(path)) /\ Len(Tail(path)) \in Nat /\ Len(path) = Len(Tail(path)) + 1
             /\ \A i \in 1..Len(Tail(path)) : path[i + 1] = Tail(path)[i]
  <2>1. path # << >>
    BY <1>3
  <2>2. /\ Tail(path) \in Seq(T) /\ Len(Tail(path)) = Len(path) - 1
        /\ \A i \in 1..Len(Tail(path)) : Tail(path)[i] = path[i + 1]
    BY <1>1, <2>1, HeadTailProperties
  <2> QED BY <1>2, <1>3, <2>2 DEF IsPath
<1> QED BY <1>2, <1>3

LEMMA NodesDiffer ==
  ASSUME NEW a, NEW b, NEW c, NEW d, HashNode(a, b) = HashNode(c, d)
  PROVE  a = c /\ b = d
BY DEF HashNode

LEMMA InclusionSound ==
  ASSUME NEW n \in Nat \ {0}, NEW f \in 0..(n - 1), NEW H, NEW h, NEW path, IsPath(path),
         Reaches(At(f, n - 1, h), path, Root(H, n, 1))
  PROVE  H[f + 1] = h
<1> DEFINE Good == {s \in Nat : \A G, g, p : \A e \in 0..s :
                      IsPath(p) /\ Reaches(At(e, s, g), p, Root(G, s + 1, 1)) => G[e + 1] = g}
<1>1. ASSUME NEW s \in Nat, \A u \in Nat : u < s => u \in Good PROVE s \in Good
  <2>1. SUFFICES ASSUME NEW G, NEW g, NEW p, NEW e \in 0..s, IsPath(p),
                        Reaches(At(e, s, g), p, Root(G, s + 1, 1))
                 PROVE  G[e + 1] = g
    OBVIOUS
  <2>2. Len(p) \in Nat
    BY <2>1, PathRest
  <2>3. PICK w : w = At(e, s, g)
    OBVIOUS
  <2>4. w.sn = s /\ w.hash = g /\ Reaches(w, p, Root(G, s + 1, 1))
    BY <2>1, <2>3 DEF At, InclusionAt
  <2>5. CASE s = 0
    <3>1. Len(p) = 0
      <4>1. ASSUME Len(p) # 0 PROVE FALSE
        BY <2>2, <2>4, <2>5, <4>1, InclusionWalkStops DEF Reaches
      <4> QED BY <4>1
    <3>2. InclusionWalk(w, p) = w
      BY <3>1, InclusionWalkEmpty
    <3>3. g = Root(G, s + 1, 1)
      BY <2>4, <3>2 DEF Reaches
    <3>4. e + 1 = 1 /\ s + 1 = 1
      BY <2>5
    <3> QED BY <3>3, <3>4, RootLeaf
  <2>6. CASE s # 0
    <3>1. Len(p) # 0
      <4>1. ASSUME Len(p) = 0 PROVE FALSE
        <5>1. InclusionWalk(w, p) = w
          BY <4>1, InclusionWalkEmpty
        <5> QED BY <2>4, <2>6, <5>1 DEF Reaches
      <4> QED BY <4>1
    <3>2. PICK x, rest : /\ IsPath(rest) /\ x = p[1] /\ Len(rest) \in Nat
                         /\ Len(p) = Len(rest) + 1
                         /\ \A i \in 1..Len(rest) : p[i + 1] = rest[i]
      BY <2>1, <3>1, PathRest
    <3>3. \A v : InclusionWalk(v, p) = InclusionWalk(InclusionStep(v, x), rest)
      BY <3>2, InclusionWalkLonger
    <3>4. PICK m \in Nat \ {0}, u \in Nat, q \in Nat :
            m = s + 1 /\ u = s \div 2 /\ q = u + 1 /\ q = (m + 1) \div 2 /\ u < s
      BY <2>6
    <3>5. PICK Q : Q = Pairs(G, m)
      OBVIOUS
    <3>6. Root(G, m, 1) = Root(Q, q, 1)
      BY <3>4, <3>5, RootOfPairs
    <3>7. PICK d \in 0..u : d = e \div 2
      BY <3>4
    <3>8. d + 1 \in Nat \ {0} /\ u \in Good /\ q = u + 1
      BY <1>1, <3>4
    <3>9. \A k, r : IsPath(r) /\ Reaches(At(d, u, k), r, Root(Q, q, 1)) => Q[d + 1] = k
      BY <3>8
    <3> HIDE DEF Good
    <3>10. CASE e % 2 = 1
      <4>1. InclusionStep(w, x) = At(d, u, HashNode(x, g))
        BY <2>3, <2>6, <3>4, <3>7, <3>10, InclusionSteps
      <4>2. Reaches(At(d, u, HashNode(x, g)), rest, Root(Q, q, 1))
        BY <2>4, <3>3, <3>4, <3>6, <4>1 DEF Reaches
      <4>3. Q[d + 1] = HashNode(x, g)
        BY <3>2, <3>9, <4>2
      <4>4. 2 * (d + 1) <= m /\ 2 * (d + 1) = e + 1
        BY <3>4, <3>7, <3>10
      <4>5. Q[d + 1] = HashNode(G[2 * (d + 1) - 1], G[2 * (d + 1)])
        BY <3>5, <3>8, <4>4, PairsAre
      <4>a. PICK a, b : a = G[2 * (d + 1) - 1] /\ b = G[2 * (d + 1)]
        OBVIOUS
      <4>b. HashNode(x, g) = HashNode(a, b)
        BY <4>3, <4>5, <4>a
      <4>6. G[2 * (d + 1)] = g
        BY <4>a, <4>b, NodesDiffer
      <4> QED BY <4>4, <4>6
    <3>11. CASE e % 2 = 0 /\ e # s
      <4>1. InclusionStep(w, x) = At(d, u, HashNode(g, x))
        BY <2>3, <2>6, <3>4, <3>7, <3>11, InclusionSteps
      <4>2. Reaches(At(d, u, HashNode(g, x)), rest, Root(Q, q, 1))
        BY <2>4, <3>3, <3>4, <3>6, <4>1 DEF Reaches
      <4>3. Q[d + 1] = HashNode(g, x)
        BY <3>2, <3>9, <4>2
      <4>4. 2 * (d + 1) <= m /\ 2 * (d + 1) - 1 = e + 1
        BY <3>4, <3>7, <3>11
      <4>5. Q[d + 1] = HashNode(G[e + 1], G[2 * (d + 1)])
        BY <3>5, <3>8, <4>4, PairsAre
      <4> QED BY <4>3, <4>5, NodesDiffer
    <3>12. CASE e % 2 = 0 /\ e = s
      <4>1. InclusionStep(w, x) = InclusionStep(At(d, u, g), x)
        BY <2>3, <2>6, <3>4, <3>7, <3>12, InclusionSteps
      <4>2. InclusionWalk(w, p) = InclusionWalk(At(d, u, g), p)
        BY <3>3, <4>1
      <4>3. Reaches(At(d, u, g), p, Root(Q, q, 1))
        BY <2>4, <3>4, <3>6, <4>2 DEF Reaches
      <4>4. Q[d + 1] = g
        BY <2>1, <3>9, <4>3
      <4>5. 2 * (d + 1) - 1 = m /\ m = e + 1
        BY <3>4, <3>7, <3>12
      <4>6. Q[d + 1] = G[m]
        BY <3>5, <3>8, <4>5, PairsAre
      <4> QED BY <4>4, <4>5, <4>6
    <3> QED BY <3>10, <3>11, <3>12
  <2> QED BY <2>5, <2>6
<1> HIDE DEF Good
<1>2. n - 1 \in Good
  BY <1>1, StrongInduct
<1>3. f \in 0..(n - 1) /\ (n - 1) + 1 = n
  OBVIOUS
<1> QED BY <1>2, <1>3 DEF Good

(***************************************************************************)
(* One step of the walk of a consistency proof.                            *)
(***************************************************************************)
Both(f, s, fr, sr) == ConsistencyAt(<<f, s>>, fr, sr)

LEMMA ConsistencySteps ==
  ASSUME NEW f \in Nat, NEW s \in Nat, s # 0, NEW fr, NEW sr, NEW x
  PROVE  /\ f % 2 = 1 =>
              ConsistencyStep(Both(f, s, fr, sr), x)
                = Both(f \div 2, s \div 2, HashNode(x, fr), HashNode(x, sr))
         /\ f % 2 = 0 /\ f # s =>
              ConsistencyStep(Both(f, s, fr, sr), x) = Both(f \div 2, s \div 2, fr, HashNode(sr, x))
         /\ f % 2 = 0 /\ f = s =>
              ConsistencyStep(Both(f, s, fr, sr), x)
                = ConsistencyStep(Both(f \div 2, s \div 2, fr, sr), x)
<1>a. PICK w : w = Both(f, s, fr, sr)
  OBVIOUS
<1>1. w.fn = f /\ w.sn = s /\ w.fr = fr /\ w.sr = sr /\ w.stop = FALSE
  BY <1>a DEF Both, ConsistencyAt
<1>2. CASE f % 2 = 1
  <2>1. PastEdge(f, s) = <<f, s>>
    BY <1>2, PastEdgeDef
  <2>2. Halved(w, TRUE) = <<f \div 2, s \div 2>>
    BY <1>1, <2>1 DEF Halved
  <2>3. JoinsLeft(w)
    BY <1>1, <1>2 DEF JoinsLeft, LeastSignificantBit
  <2>4. ConsistencyStep(w, x) = Both(f \div 2, s \div 2, HashNode(x, fr), HashNode(x, sr))
    BY <1>1, <2>2, <2>3 DEF ConsistencyStep, Both, ConsistencyAt
  <2> QED BY <1>a, <1>2, <2>4
<1>3. CASE f % 2 = 0 /\ f # s
  <2>1. Halved(w, FALSE) = <<f \div 2, s \div 2>>
    BY <1>1 DEF Halved
  <2>2. JoinsLeft(w) = FALSE
    BY <1>1, <1>3 DEF JoinsLeft, LeastSignificantBit
  <2>3. ConsistencyStep(w, x) = Both(f \div 2, s \div 2, fr, HashNode(sr, x))
    BY <1>1, <2>1, <2>2 DEF ConsistencyStep, Both, ConsistencyAt
  <2> QED BY <1>a, <1>3, <2>3
<1>4. CASE f % 2 = 0 /\ f = s
  <2>a. PICK v : v = Both(f \div 2, s \div 2, fr, sr)
    OBVIOUS
  <2>1. v.fn = f \div 2 /\ v.sn = s \div 2 /\ v.fr = fr /\ v.sr = sr /\ v.stop = FALSE
    BY <2>a DEF Both, ConsistencyAt
  <2>2. JoinsLeft(w) = TRUE /\ JoinsLeft(v) = TRUE
    BY <1>1, <1>4, <2>1 DEF JoinsLeft
  <2>3. PastEdge(f, s) = PastEdge(f \div 2, s \div 2)
    BY <1>4, PastEdgeDef
  <2>4. Halved(w, TRUE) = Halved(v, TRUE)
    BY <1>1, <2>1, <2>3 DEF Halved
  <2>5. s \div 2 # 0
    BY <1>4
  <2>6. ConsistencyStep(w, x) = ConsistencyStep(v, x)
    BY <1>1, <2>1, <2>2, <2>4, <2>5 DEF ConsistencyStep
  <2> QED BY <1>a, <2>a, <1>4, <2>6
<1> QED BY <1>2, <1>3, <1>4

LEMMA ConsistencyStops ==
  ASSUME NEW w, NEW x
  PROVE  w.stop \/ w.sn = 0 => ConsistencyStep(w, x) = Stopped
BY DEF ConsistencyStep

(***************************************************************************)
(* The walk of a consistency proof, node by node.                          *)
(***************************************************************************)
ConsistencyTable(walk, start, path, n) ==
  walk = [i \in 0..n |-> IF i = 0 THEN start ELSE ConsistencyStep(walk[i - 1], path[i])]

LEMMA ConsistencyTableExists ==
  ASSUME NEW start, NEW path, NEW n \in Nat
  PROVE  \E walk : ConsistencyTable(walk, start, path, n)
<1> DEFINE Good == {k \in Nat : \E walk : ConsistencyTable(walk, start, path, k)}
<1>1. 0 \in Good
  <2>1. ConsistencyTable([i \in 0..0 |-> start], start, path, 0)
    BY DEF ConsistencyTable
  <2> QED BY <2>1
<1>2. ASSUME NEW k \in Nat, k \in Good PROVE k + 1 \in Good
  <2>1. PICK walk : ConsistencyTable(walk, start, path, k)
    BY <1>2
  <2>2. PICK last : last = ConsistencyStep(walk[k], path[k + 1])
    OBVIOUS
  <2> DEFINE longer == [i \in 0..(k + 1) |-> IF i = k + 1 THEN last ELSE walk[i]]
  <2>3. /\ \A i \in 0..k : longer[i] = walk[i]
        /\ longer[k + 1] = last
        /\ longer = [i \in 0..(k + 1) |-> longer[i]]
    OBVIOUS
  <2> HIDE DEF longer
  <2>4. \A i \in 0..k : walk[i] = IF i = 0 THEN start ELSE ConsistencyStep(walk[i - 1], path[i])
    BY <2>1 DEF ConsistencyTable
  <2>5. ASSUME NEW i \in 0..(k + 1)
        PROVE  longer[i] = IF i = 0 THEN start ELSE ConsistencyStep(longer[i - 1], path[i])
    <3>1. CASE i = k + 1
      <4>1. i - 1 = k /\ i # 0 /\ k \in 0..k
        BY <3>1
      <4> QED BY <3>1, <4>1, <2>2, <2>3
    <3>2. CASE i # k + 1
      <4>1. i \in 0..k /\ (i # 0 => i - 1 \in 0..k)
        BY <3>2
      <4> QED BY <4>1, <2>3, <2>4
    <3> QED BY <3>1, <3>2
  <2>6. ConsistencyTable(longer, start, path, k + 1)
    BY <2>3, <2>5 DEF ConsistencyTable
  <2> QED BY <2>6
<1> HIDE DEF Good
<1>3. n \in Good
  BY <1>1, <1>2, Induct
<1> QED BY <1>3 DEF Good

LEMMA ConsistencyWalkIs ==
  ASSUME NEW start, NEW path, Len(path) \in Nat
  PROVE  \E walk : /\ walk[0] = start
                   /\ \A i \in 1..Len(path) : walk[i] = ConsistencyStep(walk[i - 1], path[i])
                   /\ ConsistencyWalk(start, path) = walk[Len(path)]
<1> DEFINE walk == CHOOSE w : ConsistencyTable(w, start, path, Len(path))
<1>1. ConsistencyWalk(start, path) = walk[Len(path)]
  BY DEF ConsistencyWalk, ConsistencyTable
<1>2. ConsistencyTable(walk, start, path, Len(path))
  BY ConsistencyTableExists
<1> HIDE DEF walk
<1>3. \A i \in 0..Len(path) :
        walk[i] = IF i = 0 THEN start ELSE ConsistencyStep(walk[i - 1], path[i])
  BY <1>2 DEF ConsistencyTable
<1>4. walk[0] = start
  <2>1. 0 \in 0..Len(path)
    OBVIOUS
  <2> QED BY <1>3, <2>1
<1>5. ASSUME NEW i \in 1..Len(path)
      PROVE  walk[i] = ConsistencyStep(walk[i - 1], path[i])
  <2>1. i \in 0..Len(path) /\ i # 0
    OBVIOUS
  <2> QED BY <1>3, <2>1
<1> QED BY <1>1, <1>4, <1>5

LEMMA ConsistencyWalkEmpty ==
  ASSUME NEW start, NEW path, Len(path) = 0
  PROVE  ConsistencyWalk(start, path) = start
<1>1. Len(path) \in Nat
  OBVIOUS
<1> QED BY <1>1, ConsistencyWalkIs

(***************************************************************************)
(* The walk of a path is its first step and then the walk of the rest.     *)
(***************************************************************************)
LEMMA ConsistencyWalkLonger ==
  ASSUME NEW start, NEW path, NEW rest, Len(rest) \in Nat, Len(path) = Len(rest) + 1,
         \A i \in 1..Len(rest) : path[i + 1] = rest[i]
  PROVE  ConsistencyWalk(start, path) = ConsistencyWalk(ConsistencyStep(start, path[1]), rest)
<1>1. PICK n \in Nat : n = Len(rest)
  OBVIOUS
<1>2. Len(path) = n + 1
  BY <1>1
<1>3. PICK walk : /\ walk[0] = start
                  /\ \A i \in 1..(n + 1) : walk[i] = ConsistencyStep(walk[i - 1], path[i])
                  /\ ConsistencyWalk(start, path) = walk[n + 1]
  <2>1. Len(path) \in Nat
    BY <1>2
  <2> QED BY <1>2, <2>1, ConsistencyWalkIs
<1>4. PICK w : /\ w[0] = ConsistencyStep(start, path[1])
               /\ \A i \in 1..n : w[i] = ConsistencyStep(w[i - 1], rest[i])
               /\ ConsistencyWalk(ConsistencyStep(start, path[1]), rest) = w[n]
  BY <1>1, ConsistencyWalkIs
<1> DEFINE Good == {i \in Nat : i <= n => w[i] = walk[i + 1]}
<1>5. 0 \in Good
  <2>1. 1 \in 1..(n + 1) /\ 1 - 1 = 0 /\ 0 + 1 = 1
    OBVIOUS
  <2>2. walk[1] = ConsistencyStep(start, path[1])
    BY <1>3, <2>1
  <2> QED BY <1>4, <2>1, <2>2
<1>6. ASSUME NEW k \in Nat, k \in Good PROVE k + 1 \in Good
  <2>1. SUFFICES ASSUME k + 1 <= n PROVE w[k + 1] = walk[(k + 1) + 1]
    OBVIOUS
  <2>2. PICK i \in 1..n, j \in 1..(n + 1) : i = k + 1 /\ i - 1 = k /\ j = i + 1 /\ j - 1 = i
    BY <2>1
  <2>3. w[k] = walk[i]
    BY <1>6, <2>1, <2>2
  <2>4. w[i] = ConsistencyStep(w[k], rest[i])
    BY <1>4, <2>2
  <2>5. walk[j] = ConsistencyStep(walk[i], path[j])
    BY <1>3, <2>2
  <2>6. path[j] = rest[i]
    BY <1>1, <2>2
  <2> QED BY <2>2, <2>3, <2>4, <2>5, <2>6
<1> HIDE DEF Good
<1>7. n \in Good
  BY <1>5, <1>6, Induct
<1>8. w[n] = walk[n + 1]
  BY <1>7 DEF Good
<1> QED BY <1>3, <1>4, <1>8

LEMMA ConsistencyWalkStops ==
  ASSUME NEW start, NEW path, Len(path) \in Nat,
         start.stop \/ (start.sn = 0 /\ Len(path) # 0)
  PROVE  ConsistencyWalk(start, path).stop
<1>1. PICK n \in Nat : n = Len(path)
  OBVIOUS
<1>2. PICK walk : /\ walk[0] = start
                  /\ \A i \in 1..n : walk[i] = ConsistencyStep(walk[i - 1], path[i])
                  /\ ConsistencyWalk(start, path) = walk[n]
  BY <1>1, ConsistencyWalkIs
<1> DEFINE Good == {i \in Nat : i <= n /\ (i # 0 \/ start.stop) => walk[i].stop}
<1>3. 0 \in Good
  BY <1>2
<1>4. ASSUME NEW k \in Nat, k \in Good PROVE k + 1 \in Good
  <2>1. SUFFICES ASSUME k + 1 <= n PROVE walk[k + 1].stop
    OBVIOUS
  <2>2. PICK i \in 1..n : i = k + 1 /\ i - 1 = k
    BY <2>1
  <2>3. walk[i] = ConsistencyStep(walk[k], path[i])
    BY <1>2, <2>2
  <2>4. walk[k].stop \/ walk[k].sn = 0
    <3>1. CASE k = 0
      BY <1>2, <3>1
    <3>2. CASE k # 0
      BY <1>4, <2>1, <3>2
    <3> QED BY <3>1, <3>2
  <2>5. walk[i] = Stopped
    BY <2>3, <2>4, ConsistencyStops
  <2> QED BY <2>2, <2>5 DEF Stopped
<1> HIDE DEF Good
<1>5. n \in Good
  BY <1>3, <1>4, Induct
<1>6. n # 0 \/ start.stop
  BY <1>1
<1> QED BY <1>2, <1>5, <1>6 DEF Good

-----------------------------------------------------------------------------
(***************************************************************************)
(* A consistency proof is sound: a walk that ends at the roots over m and  *)
(* over n leaves passes only hashes both trees have, so that their first m *)
(* leaves are the same.                                                    *)
(***************************************************************************)
BothReach(w, path, old, new) ==
  /\ ~ConsistencyWalk(w, path).stop
  /\ ConsistencyWalk(w, path).sn = 0
  /\ ConsistencyWalk(w, path).fr = old
  /\ ConsistencyWalk(w, path).sr = new

LEMMA PairsEqual ==
  ASSUME NEW A, NEW B, NEW m \in Nat, NEW n \in Nat, NEW k \in Nat, 2 * k <= m, 2 * k <= n,
         \A j \in 1..k : Pairs(A, m)[j] = Pairs(B, n)[j]
  PROVE  \A i \in 1..(2 * k) : A[i] = B[i]
<1>1. SUFFICES ASSUME NEW i \in 1..(2 * k) PROVE A[i] = B[i]
  OBVIOUS
<1>2. PICK j \in 1..k : i = 2 * j \/ i = 2 * j - 1
  <2>1. (i + 1) \div 2 \in 1..k /\ (i = 2 * ((i + 1) \div 2) \/ i = 2 * ((i + 1) \div 2) - 1)
    OBVIOUS
  <2> QED BY <2>1
<1>3. PICK a, b, c, d : a = A[2 * j - 1] /\ b = A[2 * j] /\ c = B[2 * j - 1] /\ d = B[2 * j]
  OBVIOUS
<1>4. j \in Nat \ {0} /\ 2 * j <= m /\ 2 * j <= n
  OBVIOUS
<1>5. Pairs(A, m)[j] = HashNode(a, b)
  BY <1>3, <1>4, PairsAre
<1>6. Pairs(B, n)[j] = HashNode(c, d)
  BY <1>3, <1>4, PairsAre
<1>7. a = c /\ b = d
  <2>1. HashNode(a, b) = HashNode(c, d)
    BY <1>5, <1>6
  <2> QED BY <2>1, NodesDiffer
<1> QED BY <1>2, <1>3, <1>7

LEMMA RootInjective ==
  ASSUME NEW n \in Nat \ {0}, NEW A, NEW B, Root(A, n, 1) = Root(B, n, 1)
  PROVE  \A j \in 1..n : A[j] = B[j]
<1> DEFINE Good == {k \in Nat : k # 0 => \A G, H : Root(G, k, 1) = Root(H, k, 1) =>
                                                     \A j \in 1..k : G[j] = H[j]}
<1>1. ASSUME NEW k \in Nat, \A i \in Nat : i < k => i \in Good PROVE k \in Good
  <2>1. SUFFICES ASSUME k # 0, NEW G, NEW H, Root(G, k, 1) = Root(H, k, 1)
                 PROVE  \A j \in 1..k : G[j] = H[j]
    OBVIOUS
  <2>2. CASE k = 1
    <3>1. G[1] = H[1]
      BY <2>1, <2>2, RootLeaf
    <3> QED BY <2>2, <3>1
  <2>3. CASE k # 1
    <3>1. PICK h \in Nat : h = (k + 1) \div 2 /\ h < k /\ h # 0
      BY <2>1, <2>3
    <3>2. PICK P, Q : P = Pairs(G, k) /\ Q = Pairs(H, k)
      OBVIOUS
    <3>3. Root(P, h, 1) = Root(Q, h, 1)
      <4>1. Root(G, k, 1) = Root(P, h, 1)
        BY <2>1, <3>1, <3>2, RootOfPairs
      <4>2. Root(H, k, 1) = Root(Q, h, 1)
        BY <2>1, <3>1, <3>2, RootOfPairs
      <4> QED BY <2>1, <4>1, <4>2
    <3>4. \A j \in 1..h : P[j] = Q[j]
      BY <1>1, <3>1, <3>3
    <3>5. PICK l \in Nat : l = k \div 2 /\ 2 * l <= k /\ l <= h
      BY <3>1
    <3>6. \A j \in 1..l : Pairs(G, k)[j] = Pairs(H, k)[j]
      BY <3>2, <3>4, <3>5
    <3>7. \A i \in 1..(2 * l) : G[i] = H[i]
      BY <3>5, <3>6, PairsEqual
    <3>8. k # 2 * l => G[k] = H[k]
      <4>1. SUFFICES ASSUME k # 2 * l PROVE G[k] = H[k]
        OBVIOUS
      <4>2. 2 * h - 1 = k /\ h \in Nat \ {0} /\ h \in 1..h
        BY <3>1, <3>5, <4>1
      <4>3. P[h] = G[k] /\ Q[h] = H[k]
        BY <3>2, <4>2, PairsAre
      <4> QED BY <3>4, <4>2, <4>3
    <3>9. \A j \in 1..k : j \in 1..(2 * l) \/ (j = k /\ k # 2 * l)
      BY <3>5
    <3> QED BY <3>7, <3>8, <3>9
  <2> QED BY <2>2, <2>3
<1> HIDE DEF Good
<1>2. n \in Good
  BY <1>1, StrongInduct
<1> QED BY <1>2 DEF Good

LEMMA ConsistencyWalkSound ==
  ASSUME NEW s \in Nat, NEW f \in 0..s, NEW A, NEW B, NEW fr, NEW sr, NEW path, IsPath(path),
         BothReach(Both(f, s, fr, sr), path, Root(A, f + 1, 1), Root(B, s + 1, 1))
  PROVE  A[f + 1] = fr /\ B[f + 1] = sr /\ \A j \in 1..f : A[j] = B[j]
<1> DEFINE Alike(G, H, e, a, b) == G[e + 1] = a /\ H[e + 1] = b /\ \A j \in 1..e : G[j] = H[j]
           Good == {t \in Nat : \A G, H, a, b, p : \A e \in 0..t :
                      IsPath(p) /\ BothReach(Both(e, t, a, b), p, Root(G, e + 1, 1),
                                             Root(H, t + 1, 1)) => Alike(G, H, e, a, b)}
<1>1. ASSUME NEW t \in Nat, \A u \in Nat : u < t => u \in Good PROVE t \in Good
  <2>1. SUFFICES ASSUME NEW G, NEW H, NEW a, NEW b, NEW p, NEW e \in 0..t, IsPath(p),
                        BothReach(Both(e, t, a, b), p, Root(G, e + 1, 1), Root(H, t + 1, 1))
                 PROVE  Alike(G, H, e, a, b)
    OBVIOUS
  <2>2. Len(p) \in Nat
    BY <2>1, PathRest
  <2>3. PICK w : w = Both(e, t, a, b)
    OBVIOUS
  <2>4. /\ w.sn = t /\ w.fr = a /\ w.sr = b
        /\ BothReach(w, p, Root(G, e + 1, 1), Root(H, t + 1, 1))
    BY <2>1, <2>3 DEF Both, ConsistencyAt
  <2>5. CASE t = 0
    <3>1. Len(p) = 0
      <4>1. ASSUME Len(p) # 0 PROVE FALSE
        BY <2>2, <2>4, <2>5, <4>1, ConsistencyWalkStops DEF BothReach
      <4> QED BY <4>1
    <3>2. ConsistencyWalk(w, p) = w
      BY <3>1, ConsistencyWalkEmpty
    <3>3. a = Root(G, e + 1, 1) /\ b = Root(H, t + 1, 1)
      BY <2>4, <3>2 DEF BothReach
    <3>4. e + 1 = 1 /\ t + 1 = 1 /\ e = 0
      BY <2>5
    <3>5. G[1] = a /\ H[1] = b
      BY <3>3, <3>4, RootLeaf
    <3> QED BY <3>4, <3>5
  <2>6. CASE t # 0
    <3>1. Len(p) # 0
      <4>1. ASSUME Len(p) = 0 PROVE FALSE
        <5>1. ConsistencyWalk(w, p) = w
          BY <4>1, ConsistencyWalkEmpty
        <5> QED BY <2>4, <2>6, <5>1 DEF BothReach
      <4> QED BY <4>1
    <3>2. PICK x, rest : /\ IsPath(rest) /\ x = p[1] /\ Len(rest) \in Nat
                         /\ Len(p) = Len(rest) + 1
                         /\ \A i \in 1..Len(rest) : p[i + 1] = rest[i]
      BY <2>1, <3>1, PathRest
    <3>3. \A v : ConsistencyWalk(v, p) = ConsistencyWalk(ConsistencyStep(v, x), rest)
      BY <3>2, ConsistencyWalkLonger
    <3>4. PICK u \in Nat, d \in Nat : u = t \div 2 /\ u < t /\ d = e \div 2 /\ d \in 0..u
      BY <2>6
    <3>5. PICK k \in Nat \ {0}, n \in Nat \ {0}, q \in Nat, r \in Nat :
            /\ k = e + 1 /\ n = t + 1
            /\ q = d + 1 /\ r = u + 1 /\ q = (k + 1) \div 2 /\ r = (n + 1) \div 2
      BY <3>4
    <3>6. PICK P, Q : P = Pairs(G, k) /\ Q = Pairs(H, n)
      OBVIOUS
    <3>7. Root(G, k, 1) = Root(P, q, 1)
      BY <3>5, <3>6, RootOfPairs
    <3>8. Root(H, n, 1) = Root(Q, r, 1)
      BY <3>5, <3>6, RootOfPairs
    <3>9. \A v, z : BothReach(v, z, Root(P, q, 1), Root(Q, r, 1))
                      <=> BothReach(v, z, Root(G, e + 1, 1), Root(H, t + 1, 1))
      BY <3>5, <3>7, <3>8
    <3>10. \A c, g, z : IsPath(z) /\ BothReach(Both(d, u, c, g), z, Root(P, q, 1), Root(Q, r, 1))
                          => Alike(P, Q, d, c, g)
      <4>1. u \in Good
        BY <1>1, <3>4
      <4> QED BY <3>5, <4>1
    <3>11. ASSUME NEW c, NEW g, Alike(P, Q, d, c, g) PROVE \A i \in 1..(2 * d) : G[i] = H[i]
      <4>1. 2 * d <= k /\ 2 * d <= n /\ d \in Nat
        BY <3>4, <3>5
      <4>2. \A j \in 1..d : Pairs(G, k)[j] = Pairs(H, n)[j]
        BY <3>6, <3>11
      <4> QED BY <4>1, <4>2, PairsEqual
    <3> HIDE DEF Good
    <3>12. CASE e % 2 = 1
      <4>1. ConsistencyStep(w, x) = Both(d, u, HashNode(x, a), HashNode(x, b))
        BY <2>3, <2>6, <3>4, <3>12, ConsistencySteps
      <4>2. BothReach(Both(d, u, HashNode(x, a), HashNode(x, b)), rest,
                      Root(P, q, 1), Root(Q, r, 1))
        BY <2>4, <3>3, <3>9, <4>1 DEF BothReach
      <4>3. Alike(P, Q, d, HashNode(x, a), HashNode(x, b))
        BY <3>2, <3>10, <4>2
      <4>4. q \in Nat \ {0} /\ 2 * q = e + 1 /\ 2 * q - 1 = e /\ 2 * q <= k /\ 2 * q <= n
            /\ 2 * d = e - 1 /\ e # 0
        BY <3>4, <3>5, <3>12
      <4>5. PICK ge, gn, he, hn : ge = G[2 * q - 1] /\ gn = G[2 * q]
                                  /\ he = H[2 * q - 1] /\ hn = H[2 * q]
        OBVIOUS
      <4>6. P[q] = HashNode(ge, gn) /\ Q[q] = HashNode(he, hn)
        BY <3>6, <4>4, <4>5, PairsAre
      <4>7. P[q] = HashNode(x, a) /\ Q[q] = HashNode(x, b)
        BY <3>5, <4>3
      <4>8. ge = x /\ gn = a
        <5>1. HashNode(ge, gn) = HashNode(x, a)
          BY <4>6, <4>7
        <5> QED BY <5>1, NodesDiffer
      <4>9. he = x /\ hn = b
        <5>1. HashNode(he, hn) = HashNode(x, b)
          BY <4>6, <4>7
        <5> QED BY <5>1, NodesDiffer
      <4>10. \A i \in 1..(2 * d) : G[i] = H[i]
        BY <3>11, <4>3
      <4>11. G[e] = H[e] /\ G[e + 1] = a /\ H[e + 1] = b
        BY <4>4, <4>5, <4>8, <4>9
      <4>12. \A j \in 1..e : j \in 1..(2 * d) \/ j = e
        BY <4>4
      <4> QED BY <4>10, <4>11, <4>12
    <3>13. CASE e % 2 = 0 /\ e # t
      <4>1. ConsistencyStep(w, x) = Both(d, u, a, HashNode(b, x))
        BY <2>3, <2>6, <3>4, <3>13, ConsistencySteps
      <4>2. BothReach(Both(d, u, a, HashNode(b, x)), rest, Root(P, q, 1), Root(Q, r, 1))
        BY <2>4, <3>3, <3>9, <4>1 DEF BothReach
      <4>3. Alike(P, Q, d, a, HashNode(b, x))
        BY <3>2, <3>10, <4>2
      <4>4. q \in Nat \ {0} /\ 2 * q - 1 = e + 1 /\ 2 * q - 1 = k /\ 2 * q <= n /\ 2 * d = e
        BY <3>4, <3>5, <3>13
      <4>5. PICK he, hn : he = H[2 * q - 1] /\ hn = H[2 * q]
        OBVIOUS
      <4>6. P[q] = G[k] /\ Q[q] = HashNode(he, hn)
        BY <3>6, <4>4, <4>5, PairsAre
      <4>7. P[q] = a /\ Q[q] = HashNode(b, x)
        BY <3>5, <4>3
      <4>8. he = b
        <5>1. HashNode(he, hn) = HashNode(b, x)
          BY <4>6, <4>7
        <5> QED BY <5>1, NodesDiffer
      <4>9. \A i \in 1..(2 * d) : G[i] = H[i]
        BY <3>11, <4>3
      <4>10. G[e + 1] = a /\ H[e + 1] = b
        BY <4>4, <4>5, <4>6, <4>7, <4>8
      <4> QED BY <4>4, <4>9, <4>10
    <3>14. CASE e % 2 = 0 /\ e = t
      <4>1. ConsistencyStep(w, x) = ConsistencyStep(Both(d, u, a, b), x)
        BY <2>3, <2>6, <3>4, <3>14, ConsistencySteps
      <4>2. ConsistencyWalk(w, p) = ConsistencyWalk(Both(d, u, a, b), p)
        BY <3>3, <4>1
      <4>3. BothReach(Both(d, u, a, b), p, Root(P, q, 1), Root(Q, r, 1))
        BY <2>4, <3>9, <4>2 DEF BothReach
      <4>4. Alike(P, Q, d, a, b)
        BY <2>1, <3>10, <4>3
      <4>5. q \in Nat \ {0} /\ 2 * q - 1 = e + 1 /\ 2 * q - 1 = k /\ 2 * q - 1 = n /\ 2 * d = e
        BY <3>4, <3>5, <3>14
      <4>6. P[q] = G[k] /\ Q[q] = H[n]
        BY <3>6, <4>5, PairsAre
      <4>7. P[q] = a /\ Q[q] = b
        BY <3>5, <4>4
      <4>8. \A i \in 1..(2 * d) : G[i] = H[i]
        BY <3>11, <4>4
      <4>9. G[e + 1] = a /\ H[e + 1] = b
        BY <4>5, <4>6, <4>7
      <4> QED BY <4>5, <4>8, <4>9
    <3> QED BY <3>12, <3>13, <3>14
  <2> QED BY <2>5, <2>6
<1> HIDE DEF Good
<1>2. s \in Good
  BY <1>1, StrongInduct
<1> QED BY <1>2 DEF Good

(***************************************************************************)
(* The walk starts past the full subtree the last old leaf closes: two     *)
(* logs whose levels agree there agree on all old leaves.                  *)
(***************************************************************************)
PastFull(e, t, P, Q, i, r, G, H) ==
  /\ t \in Nat /\ e \in 0..t
  /\ PastFullSubtree(i, r) = <<e, t>>
  /\ Root(P, e + 1, 1) = Root(G, i + 1, 1)
  /\ Root(Q, t + 1, 1) = Root(H, r + 1, 1)
  /\ (\A j \in 1..(e + 1) : P[j] = Q[j]) => \A j \in 1..(i + 1) : G[j] = H[j]

LEMMA PastFullSound ==
  ASSUME NEW s \in Nat, NEW f \in 0..s, NEW A, NEW B
  PROVE  \E e, t, P, Q : PastFull(e, t, P, Q, f, s, A, B)
<1> DEFINE Good == {i \in Nat : \A G, H : \A r \in Nat : i <= r =>
                       \E e, t, P, Q : PastFull(e, t, P, Q, i, r, G, H)}
<1>1. ASSUME NEW i \in Nat, \A k \in Nat : k < i => k \in Good PROVE i \in Good
  <2>1. SUFFICES ASSUME NEW G, NEW H, NEW r \in Nat, i <= r
                 PROVE  \E e, t, P, Q : PastFull(e, t, P, Q, i, r, G, H)
    OBVIOUS
  <2>2. CASE i % 2 = 0
    <3>1. PastFullSubtree(i, r) = <<i, r>>
      BY <2>2, PastFullDef
    <3>2. PastFull(i, r, G, H, i, r, G, H)
      BY <2>1, <3>1 DEF PastFull
    <3> QED BY <3>2
  <2>3. CASE i % 2 = 1
    <3>1. PICK k \in Nat, u \in Nat :
            k = i \div 2 /\ u = r \div 2 /\ k < i /\ k <= u /\ 2 * (k + 1) = i + 1
      BY <2>1, <2>3
    <3>2. PICK m \in Nat \ {0}, n \in Nat \ {0}, q \in Nat, v \in Nat :
            /\ m = i + 1 /\ n = r + 1 /\ q = k + 1 /\ v = u + 1
            /\ q = (m + 1) \div 2 /\ v = (n + 1) \div 2 /\ 2 * q = m /\ 2 * q <= n
      BY <2>1, <2>3, <3>1
    <3>3. PICK P, Q : P = Pairs(G, m) /\ Q = Pairs(H, n)
      OBVIOUS
    <3>4. Root(G, m, 1) = Root(P, q, 1)
      BY <3>2, <3>3, RootOfPairs
    <3>5. Root(H, n, 1) = Root(Q, v, 1)
      BY <3>2, <3>3, RootOfPairs
    <3>6. k \in Good
      BY <1>1, <3>1
    <3>7. \E e, t, X, Y : PastFull(e, t, X, Y, k, u, P, Q)
      <4> QED BY <3>1, <3>6
    <3>8. PICK e, t, X, Y : PastFull(e, t, X, Y, k, u, P, Q)
      <4> QED BY <3>7
    <3>9. PastFullSubtree(i, r) = PastFullSubtree(k, u)
      BY <2>3, <3>1, PastFullDef
    <3>10. ASSUME \A j \in 1..(e + 1) : X[j] = Y[j] PROVE \A j \in 1..(i + 1) : G[j] = H[j]
      <4>1. \A j \in 1..q : P[j] = Q[j]
        BY <3>2, <3>8, <3>10 DEF PastFull
      <4>2. \A j \in 1..q : Pairs(G, m)[j] = Pairs(H, n)[j]
        BY <3>3, <4>1
      <4>3. 2 * q <= m /\ 2 * q <= n
        BY <3>2
      <4>4. \A j \in 1..(2 * q) : G[j] = H[j]
        BY <4>2, <4>3, PairsEqual
      <4> QED BY <3>2, <4>4
    <3>11. /\ t \in Nat /\ e \in 0..t /\ PastFullSubtree(k, u) = <<e, t>>
           /\ Root(X, e + 1, 1) = Root(P, k + 1, 1) /\ Root(Y, t + 1, 1) = Root(Q, u + 1, 1)
      BY <3>8 DEF PastFull
    <3>12. Root(X, e + 1, 1) = Root(G, i + 1, 1) /\ Root(Y, t + 1, 1) = Root(H, r + 1, 1)
      BY <3>2, <3>4, <3>5, <3>11
    <3>13. PastFull(e, t, X, Y, i, r, G, H)
      BY <3>9, <3>10, <3>11, <3>12 DEF PastFull
    <3> QED BY <3>13
  <2>4. i % 2 = 0 \/ i % 2 = 1
    OBVIOUS
  <2> QED BY <2>2, <2>3, <2>4
<1> HIDE DEF Good
<1>2. f \in Good
  BY <1>1, StrongInduct
<1>3. f \in Nat /\ f <= s
  OBVIOUS
<1> QED BY <1>2, <1>3 DEF Good

LEMMA ConsistencySound ==
  ASSUME NEW n \in Nat, NEW m \in 1..n, NEW A, NEW B, NEW first, NEW path, IsPath(path),
         BothReach(ConsistencyAt(PastFullSubtree(m - 1, n - 1), first, first), path,
                   Root(A, m, 1), Root(B, n, 1))
  PROVE  \A j \in 1..m : A[j] = B[j]
<1>1. PICK f \in Nat, s \in Nat : f = m - 1 /\ s = n - 1 /\ f + 1 = m /\ s + 1 = n /\ f \in 0..s
  OBVIOUS
<1>2. PICK e, t, P, Q : PastFull(e, t, P, Q, f, s, A, B)
  BY <1>1, PastFullSound
<1>3. BothReach(Both(e, t, first, first), path, Root(P, e + 1, 1), Root(Q, t + 1, 1))
  BY <1>1, <1>2 DEF Both, PastFull
<1>4. P[e + 1] = first /\ Q[e + 1] = first /\ \A j \in 1..e : P[j] = Q[j]
  BY <1>2, <1>3, ConsistencyWalkSound DEF PastFull
<1>5. \A j \in 1..(e + 1) : j \in 1..e \/ j = e + 1
  BY <1>2 DEF PastFull
<1> QED BY <1>1, <1>2, <1>4, <1>5 DEF PastFull

-----------------------------------------------------------------------------
(***************************************************************************)
(* The paths of RFC 9162, section 2.1.3.                                   *)
(***************************************************************************)
Then(path, node) == Append(path, node)

PathTable(f, sub, leaf, n) ==
  f = [size \in 1..n |-> [first \in Nat |-> PathOver(f, sub, leaf, size, first)]]

LEMMA PathOverLeaf ==
  ASSUME NEW f, NEW sub, NEW leaf \in Nat, NEW first
  PROVE  PathOver(f, sub, leaf, 1, first) = << >>
BY DEF PathOver

LEMMA PathDependsBelow ==
  ASSUME NEW f, NEW g, NEW sub, NEW leaf \in Nat, NEW size \in Nat \ {0}, NEW first \in Nat,
         \A s \in 1..(size - 1) : f[s] = g[s]
  PROVE  PathOver(f, sub, leaf, size, first) = PathOver(g, sub, leaf, size, first)
<1>1. CASE size = 1
  BY <1>1, PathOverLeaf
<1>2. CASE size # 1
  <2>1. PICK k \in 1..(size - 1) : k = LargestPowerOfTwoLessThan(size)
    BY <1>2, SplitBounds
  <2>2. PICK r \in 1..(size - 1), t \in Nat : r = size - k /\ t = first + k
    BY <2>1
  <2>3. f[k] = g[k] /\ f[r] = g[r]
    BY <2>1, <2>2
  <2>4. size # 1 /\ k = LargestPowerOfTwoLessThan(size) /\ r = size - k /\ t = first + k
    BY <1>2, <2>1, <2>2
  <2>5. CASE leaf < t
    <3>1. PathOver(f, sub, leaf, size, first) = Append(f[k][first], sub[r][t])
      BY <2>4, <2>5, ZenonT(30) DEF PathOver
    <3>2. PathOver(g, sub, leaf, size, first) = Append(g[k][first], sub[r][t])
      BY <2>4, <2>5, ZenonT(30) DEF PathOver
    <3> QED BY <2>3, <3>1, <3>2
  <2>6. CASE ~(leaf < t)
    <3>1. PathOver(f, sub, leaf, size, first) = Append(f[r][t], sub[k][first])
      BY <2>4, <2>6, ZenonT(30) DEF PathOver
    <3>2. PathOver(g, sub, leaf, size, first) = Append(g[r][t], sub[k][first])
      BY <2>4, <2>6, ZenonT(30) DEF PathOver
    <3> QED BY <2>3, <3>1, <3>2
  <2> QED BY <2>5, <2>6
<1> QED BY <1>1, <1>2

LEMMA PathsExist ==
  ASSUME NEW sub, NEW leaf \in Nat, NEW n \in Nat
  PROVE  \E f : PathTable(f, sub, leaf, n)
<1> DEFINE Good == {k \in Nat : \E f : PathTable(f, sub, leaf, k)}
<1>1. 0 \in Good
  <2>1. 1..0 = {}
    OBVIOUS
  <2>2. PathTable([size \in 1..0 |-> 0], sub, leaf, 0)
    BY <2>1 DEF PathTable
  <2> QED BY <2>2
<1>2. ASSUME NEW k \in Nat, k \in Good PROVE k + 1 \in Good
  <2>1. PICK f : PathTable(f, sub, leaf, k)
    BY <1>2
  <2> DEFINE Row(g, size) == [first \in Nat |-> PathOver(g, sub, leaf, size, first)]
             g == [size \in 1..(k + 1) |-> IF size = k + 1 THEN Row(f, size) ELSE f[size]]
  <2>2. \A size \in 1..k : g[size] = f[size]
    OBVIOUS
  <2>3. ASSUME NEW size \in 1..(k + 1) PROVE Row(g, size) = Row(f, size)
    <3> HIDE DEF g
    <3>1. size \in Nat \ {0} /\ \A s \in 1..(size - 1) : g[s] = f[s]
      BY <2>2
    <3>2. \A first \in Nat :
            PathOver(g, sub, leaf, size, first) = PathOver(f, sub, leaf, size, first)
      BY <3>1, PathDependsBelow
    <3> QED BY <3>2
  <2>4. ASSUME NEW size \in 1..(k + 1) PROVE g[size] = Row(g, size)
    <3>1. CASE size = k + 1
      <4> HIDE DEF Row
      <4>1. g[size] = Row(f, size)
        BY <3>1
      <4> HIDE DEF g
      <4> QED BY <4>1, <2>3
    <3>2. CASE size # k + 1
      <4>1. size \in 1..k
        BY <3>2
      <4>2. f[size] = Row(f, size)
        BY <2>1, <4>1 DEF PathTable
      <4> HIDE DEF Row, g
      <4> QED BY <4>1, <4>2, <2>2, <2>3
    <3> QED BY <3>1, <3>2
  <2>5. g = [size \in 1..(k + 1) |-> g[size]]
    OBVIOUS
  <2> HIDE DEF g
  <2>6. g = [size \in 1..(k + 1) |-> Row(g, size)]
    <3> HIDE DEF Row
    <3> QED BY <2>4, <2>5
  <2> QED BY <2>6 DEF PathTable
<1> HIDE DEF Good
<1>3. n \in Good
  BY <1>1, <1>2, Induct
<1> QED BY <1>3 DEF Good

LEMMA PathsDef ==
  ASSUME NEW hashes, NEW leaf \in Nat, NEW n \in Nat
  PROVE  \A size \in 1..n, first \in Nat :
           Paths(hashes, n, leaf)[size][first] =
             PathOver(Paths(hashes, n, leaf), Subtrees(hashes, n), leaf, size, first)
<1>a. PICK sub : sub = Subtrees(hashes, n)
  OBVIOUS
<1> DEFINE Eq(f) == f = [size \in 1..n |-> [first \in Nat |-> PathOver(f, sub, leaf, size, first)]]
<1>1. \E f : Eq(f)
  <2>1. PICK f : PathTable(f, sub, leaf, n)
    BY PathsExist
  <2>2. Eq(f)
    BY <2>1 DEF PathTable
  <2> HIDE DEF Eq
  <2> QED BY <2>2
<1>2. Paths(hashes, n, leaf) = CHOOSE h : Eq(h)
  BY <1>a DEF Paths
<1>3. Eq(Paths(hashes, n, leaf))
  <2> HIDE DEF Eq
  <2> QED BY <1>1, <1>2
<1>4. PICK f : f = Paths(hashes, n, leaf)
  OBVIOUS
<1> DEFINE Row(size) == [first \in Nat |-> PathOver(f, sub, leaf, size, first)]
<1>5. f = [size \in 1..n |-> Row(size)]
  BY <1>3, <1>4
<1> HIDE DEF Eq
<1>6. \A size \in 1..n : f[size] = Row(size)
  <2> HIDE DEF Row
  <2> QED BY <1>5
<1>7. \A size \in 1..n, first \in Nat : Row(size)[first] = PathOver(f, sub, leaf, size, first)
  OBVIOUS
<1> HIDE DEF Row
<1>8. \A size \in 1..n, first \in Nat : f[size][first] = PathOver(f, sub, leaf, size, first)
  BY <1>6, <1>7
<1> QED BY <1>a, <1>4, <1>8

(***************************************************************************)
(* The path to a leaf of the subtree of size leaves from first on.         *)
(***************************************************************************)
PathAt(H, leaf, size, first) == Paths(H, size, leaf)[size][first]

LEMMA PathsAt ==
  ASSUME NEW H, NEW leaf \in Nat, NEW n \in Nat
  PROVE  \A size \in 1..n, first \in Nat :
           Paths(H, n, leaf)[size][first] = PathAt(H, leaf, size, first)
<1> DEFINE Good == {size \in Nat : \A m \in Nat, first \in Nat : size \in 1..m =>
                      Paths(H, m, leaf)[size][first] = Paths(H, size, leaf)[size][first]}
<1>1. ASSUME NEW size \in Nat, \A s \in Nat : s < size => s \in Good
      PROVE  size \in Good
  <2>1. SUFFICES ASSUME NEW m \in Nat, NEW first \in Nat, size \in 1..m
                 PROVE  Paths(H, m, leaf)[size][first] = Paths(H, size, leaf)[size][first]
    OBVIOUS
  <2>2. PICK f, g, sub, sup : /\ f = Paths(H, m, leaf) /\ g = Paths(H, size, leaf)
                              /\ sub = Subtrees(H, m) /\ sup = Subtrees(H, size)
    OBVIOUS
  <2>3. f[size][first] = PathOver(f, sub, leaf, size, first)
    BY <2>1, <2>2, PathsDef
  <2>4. g[size][first] = PathOver(g, sup, leaf, size, first)
    <3>1. size \in 1..size
      BY <2>1
    <3> QED BY <2>2, <3>1, PathsDef
  <2>5. CASE size = 1
    BY <2>2, <2>3, <2>4, <2>5, PathOverLeaf
  <2>6. CASE size # 1
    <3>1. PICK k \in 1..(size - 1) : k = LargestPowerOfTwoLessThan(size)
      BY <2>1, <2>6, SplitBounds
    <3>2. PICK r \in 1..(size - 1), t \in Nat : r = size - k /\ t = first + k
      BY <3>1
    <3>3. f[k][first] = g[k][first] /\ f[r][t] = g[r][t]
      <4>1. f[k][first] = Paths(H, k, leaf)[k][first] /\ g[k][first] = Paths(H, k, leaf)[k][first]
        BY <1>1, <2>1, <2>2, <3>1
      <4>2. f[r][t] = Paths(H, r, leaf)[r][t] /\ g[r][t] = Paths(H, r, leaf)[r][t]
        BY <1>1, <2>1, <2>2, <3>2
      <4> QED BY <4>1, <4>2
    <3>4. sub[k][first] = sup[k][first] /\ sub[r][t] = sup[r][t]
      <4>1. k \in 1..m /\ r \in 1..m /\ k \in 1..size /\ r \in 1..size
        BY <2>1, <3>1, <3>2
      <4>2. sub[k][first] = Root(H, k, first) /\ sup[k][first] = Root(H, k, first)
        BY <2>2, <4>1, SubtreesRoot
      <4>3. sub[r][t] = Root(H, r, t) /\ sup[r][t] = Root(H, r, t)
        BY <2>2, <4>1, SubtreesRoot
      <4> QED BY <4>2, <4>3
    <3>5. size # 1 /\ k = LargestPowerOfTwoLessThan(size) /\ r = size - k /\ t = first + k
      BY <2>6, <3>1, <3>2
    <3>6. CASE leaf < t
      <4>1. PathOver(f, sub, leaf, size, first) = Append(f[k][first], sub[r][t])
        BY <3>5, <3>6, ZenonT(30) DEF PathOver
      <4>2. PathOver(g, sup, leaf, size, first) = Append(g[k][first], sup[r][t])
        BY <3>5, <3>6, ZenonT(30) DEF PathOver
      <4> QED BY <2>2, <2>3, <2>4, <3>3, <3>4, <4>1, <4>2
    <3>7. CASE ~(leaf < t)
      <4>1. PathOver(f, sub, leaf, size, first) = Append(f[r][t], sub[k][first])
        BY <3>5, <3>7, ZenonT(30) DEF PathOver
      <4>2. PathOver(g, sup, leaf, size, first) = Append(g[r][t], sup[k][first])
        BY <3>5, <3>7, ZenonT(30) DEF PathOver
      <4> QED BY <2>2, <2>3, <2>4, <3>3, <3>4, <4>1, <4>2
    <3> QED BY <3>6, <3>7
  <2> QED BY <2>5, <2>6
<1> HIDE DEF Good
<1>2. \A size \in Nat : size \in Good
  BY <1>1, StrongInduct
<1>3. ASSUME NEW size \in 1..n, NEW first \in Nat
      PROVE  Paths(H, n, leaf)[size][first] = PathAt(H, leaf, size, first)
  BY <1>2 DEF Good, PathAt
<1> QED BY <1>3

LEMMA PathAtLeaf ==
  ASSUME NEW H, NEW leaf \in Nat, NEW first \in Nat
  PROVE  PathAt(H, leaf, 1, first) = << >>
<1>1. 1 \in 1..1
  OBVIOUS
<1>2. Paths(H, 1, leaf)[1][first] =
        PathOver(Paths(H, 1, leaf), Subtrees(H, 1), leaf, 1, first)
  BY <1>1, PathsDef
<1> QED BY <1>2, PathOverLeaf DEF PathAt

LEMMA PathAtSplit ==
  ASSUME NEW H, NEW leaf \in Nat, NEW first \in Nat, NEW size \in Nat, size > 1,
         NEW k, NEW r, NEW t, k = LargestPowerOfTwoLessThan(size), r = size - k, t = first + k
  PROVE  /\ leaf < t =>
              PathAt(H, leaf, size, first) = Then(PathAt(H, leaf, k, first), Root(H, r, t))
         /\ ~(leaf < t) =>
              PathAt(H, leaf, size, first) = Then(PathAt(H, leaf, r, t), Root(H, k, first))
<1>1. k \in 1..(size - 1)
  BY SplitBounds
<1>2. size \in 1..size /\ k \in 1..size /\ r \in 1..size /\ t \in Nat
  BY <1>1
<1>3. PICK f, sub : f = Paths(H, size, leaf) /\ sub = Subtrees(H, size)
  OBVIOUS
<1>4. PathAt(H, leaf, size, first) = PathOver(f, sub, leaf, size, first)
  BY <1>2, <1>3, PathsDef DEF PathAt
<1>5. f[k][first] = PathAt(H, leaf, k, first) /\ f[r][t] = PathAt(H, leaf, r, t)
  BY <1>2, <1>3, PathsAt
<1>6. sub[k][first] = Root(H, k, first) /\ sub[r][t] = Root(H, r, t)
  BY <1>2, <1>3, SubtreesRoot
<1>7. size # 1
  OBVIOUS
<1>8. CASE leaf < t
  <2>1. PathOver(f, sub, leaf, size, first) = Then(f[k][first], sub[r][t])
    BY <1>7, <1>8, ZenonT(30) DEF PathOver, Then
  <2> QED BY <1>4, <1>5, <1>6, <1>8, <2>1
<1>9. CASE ~(leaf < t)
  <2>1. PathOver(f, sub, leaf, size, first) = Then(f[r][t], sub[k][first])
    BY <1>7, <1>9, ZenonT(30) DEF PathOver, Then
  <2> QED BY <1>4, <1>5, <1>6, <1>9, <2>1
<1> QED BY <1>8, <1>9

(***************************************************************************)
(* Paths at both ends.                                                     *)
(***************************************************************************)
First(node, path) == <<node>> \o path

LEMMA FirstIs ==
  ASSUME NEW p, IsPath(p), NEW x, NEW q, q = First(x, p)
  PROVE  /\ IsPath(q) /\ Len(p) \in Nat /\ Len(q) = Len(p) + 1 /\ q[1] = x
         /\ \A i \in 1..Len(p) : q[i + 1] = p[i]
<1>1. PICK T : p \in Seq(T)
  BY DEF IsPath
<1>2. PICK S : S = T \cup {x}
  OBVIOUS
<1>3. x \in S /\ T \subseteq S
  BY <1>2
<1>4. p \in Seq(S)
  BY <1>1, <1>3, SeqMonotonic
<1>5. /\ q \in Seq(S) /\ Len(q) = 1 + Len(p)
      /\ \A i \in 1..(1 + Len(p)) : q[i] = IF i <= 1 THEN <<x>>[i] ELSE p[i - 1]
  <2>0. <<x>> \in Seq(S)
    BY <1>3
  <2>1. PICK one \in Seq(S) : one = <<x>>
    BY <2>0
  <2>2. Len(one) = 1
    BY <2>1
  <2>3. q = one \o p
    BY <2>1 DEF First
  <2>4. /\ one \o p \in Seq(S) /\ Len(one \o p) = Len(one) + Len(p)
        /\ \A i \in 1..(Len(one) + Len(p)) :
             (one \o p)[i] = IF i <= Len(one) THEN one[i] ELSE p[i - Len(one)]
    BY <1>4, <2>1, ConcatProperties
  <2> QED BY <2>1, <2>2, <2>3, <2>4
<1>6. Len(p) \in Nat
  BY <1>4
<1>7. q[1] = x
  <2>1. 1 \in 1..(1 + Len(p)) /\ <<x>>[1] = x
    BY <1>6
  <2> QED BY <1>5, <2>1
<1>8. ASSUME NEW i \in 1..Len(p) PROVE q[i + 1] = p[i]
  <2>1. i + 1 \in 1..(1 + Len(p)) /\ ~(i + 1 <= 1) /\ (i + 1) - 1 = i
    BY <1>6
  <2> QED BY <1>5, <2>1
<1>9. IsPath(q) /\ Len(q) = Len(p) + 1
  BY <1>5, <1>6 DEF IsPath
<1> QED BY <1>6, <1>7, <1>8, <1>9

LEMMA PathsGrow ==
  ASSUME NEW p, IsPath(p), NEW x, NEW y
  PROVE  /\ IsPath(<< >>) /\ IsPath(<<x>>)
         /\ IsPath(Then(p, y)) /\ IsPath(First(x, p))
         /\ Then(First(x, p), y) = First(x, Then(p, y))
<1>1. PICK T : p \in Seq(T)
  BY DEF IsPath
<1>2. PICK S : S = T \cup {x, y}
  OBVIOUS
<1>3. x \in S /\ y \in S /\ T \subseteq S
  BY <1>2
<1>4. p \in Seq(S)
  BY <1>1, <1>3, SeqMonotonic
<1>5. <<x>> \in Seq(S) /\ <<y>> \in Seq(S) /\ << >> \in Seq(S)
  BY <1>3
<1>6. IsPath(<< >>) /\ IsPath(<<x>>)
  BY <1>5 DEF IsPath
<1>7. IsPath(Then(p, y)) /\ Then(p, y) = p \o <<y>>
  <2>1. Append(p, y) \in Seq(S)
    BY <1>3, <1>4, AppendProperties
  <2>2. Append(p, y) = p \o <<y>>
    BY <1>3, <1>4, AppendIsConcat
  <2> QED BY <2>1, <2>2 DEF IsPath, Then
<1>8. PICK q : q = First(x, p)
  OBVIOUS
<1>9. q \in Seq(S)
  <2>1. PICK one \in Seq(S) : one = <<x>>
    BY <1>5
  <2>2. one \o p \in Seq(S)
    BY <1>4, ConcatProperties
  <2> QED BY <1>8, <2>1, <2>2 DEF First
<1>10. Then(q, y) = q \o <<y>>
  BY <1>3, <1>9, AppendIsConcat DEF Then
<1>11. (<<x>> \o p) \o <<y>> = <<x>> \o (p \o <<y>>)
  BY <1>4, <1>5, ConcatAssociative
<1>12. Then(First(x, p), y) = First(x, Then(p, y))
  BY <1>7, <1>8, <1>10, <1>11 DEF First
<1>13. IsPath(q)
  BY <1>9 DEF IsPath
<1> QED BY <1>6, <1>7, <1>8, <1>12, <1>13

LEMMA FirstOfOne ==
  ASSUME NEW x
  PROVE  First(x, << >>) = <<x>> /\ Then(<< >>, x) = <<x>>
<1>1. First(x, << >>) = <<x>>
  <2>1. <<x>> \in Seq({x})
    OBVIOUS
  <2> QED BY <2>1, ConcatEmptySeq DEF First
<1>2. Then(<< >>, x) = <<x>>
  BY DEF Then
<1> QED BY <1>1, <1>2

LEMMA PathAtIsPath ==
  ASSUME NEW H, NEW leaf \in Nat
  PROVE  \A size \in Nat \ {0}, first \in Nat : IsPath(PathAt(H, leaf, size, first))
<1> DEFINE Good == {size \in Nat : size # 0 =>
                      \A first \in Nat : IsPath(PathAt(H, leaf, size, first))}
<1>1. ASSUME NEW size \in Nat, \A s \in Nat : s < size => s \in Good
      PROVE  size \in Good
  <2>1. SUFFICES ASSUME size # 0, NEW first \in Nat PROVE IsPath(PathAt(H, leaf, size, first))
    OBVIOUS
  <2>2. CASE size = 1
    <3>1. << >> \in Seq({})
      OBVIOUS
    <3> QED BY <2>2, <3>1, PathAtLeaf DEF IsPath
  <2>3. CASE size # 1
    <3>1. PICK k \in 1..(size - 1) : k = LargestPowerOfTwoLessThan(size)
      BY <2>1, <2>3, SplitBounds
    <3>2. PICK r \in 1..(size - 1), t \in Nat : r = size - k /\ t = first + k
      BY <3>1
    <3>3. IsPath(PathAt(H, leaf, k, first)) /\ IsPath(PathAt(H, leaf, r, t))
      BY <1>1, <3>1, <3>2
    <3>4. size > 1
      BY <2>1, <2>3
    <3>5. CASE leaf < t
      <4>1. PathAt(H, leaf, size, first) = Then(PathAt(H, leaf, k, first), Root(H, r, t))
        BY <3>1, <3>2, <3>4, <3>5, PathAtSplit
      <4> QED BY <3>3, <4>1, PathsGrow
    <3>6. CASE ~(leaf < t)
      <4>1. PathAt(H, leaf, size, first) = Then(PathAt(H, leaf, r, t), Root(H, k, first))
        BY <3>1, <3>2, <3>4, <3>6, PathAtSplit
      <4> QED BY <3>3, <4>1, PathsGrow
    <3> QED BY <3>5, <3>6
  <2> QED BY <2>2, <2>3
<1> HIDE DEF Good
<1>2. \A size \in Nat : size \in Good
  BY <1>1, StrongInduct
<1> QED BY <1>2 DEF Good

(***************************************************************************)
(* The path to a leaf is its sibling, unless it is the last leaf of an odd *)
(* number of them, and then its path in the level above.                   *)
(***************************************************************************)
Up(H, n, leaf, path) ==
  IF leaf % 2 = 0 THEN First(H[leaf - 1], path)
  ELSE IF leaf = n THEN path
  ELSE First(H[leaf + 1], path)

LEMMA UpThen ==
  ASSUME NEW H, NEW n \in Nat, NEW leaf \in Nat, NEW p, IsPath(p), NEW y
  PROVE  Then(Up(H, n, leaf, p), y) = Up(H, n, leaf, Then(p, y))
<1>1. CASE leaf % 2 = 0
  <2>1. Then(First(H[leaf - 1], p), y) = First(H[leaf - 1], Then(p, y))
    BY PathsGrow
  <2> QED BY <1>1, <2>1 DEF Up
<1>2. CASE leaf % 2 # 0 /\ leaf = n
  BY <1>2 DEF Up
<1>3. CASE leaf % 2 # 0 /\ leaf # n
  <2>1. Then(First(H[leaf + 1], p), y) = First(H[leaf + 1], Then(p, y))
    BY PathsGrow
  <2> QED BY <1>3, <2>1 DEF Up
<1> QED BY <1>1, <1>2, <1>3

LEMMA PathLevels ==
  ASSUME NEW H, NEW n \in Nat, NEW leaf \in 1..n, NEW l \in Nat, l = (leaf + 1) \div 2
  PROVE  \A h \in Nat \ {0}, p \in Nat \ {0}, size \in Nat :
           /\ size = 2 * h \/ (size = 2 * h - 1 /\ 2 * p + size = n + 2)
           /\ 2 * p + size <= n + 2
           /\ 2 * p - 1 <= leaf /\ leaf <= 2 * p + size - 2
           => PathAt(H, leaf, size, 2 * p - 1) = Up(H, n, leaf, PathAt(Pairs(H, n), l, h, p))
<1> DEFINE Q == Pairs(H, n)
           Half(h, p, size) == /\ size = 2 * h \/ (size = 2 * h - 1 /\ 2 * p + size = n + 2)
                               /\ 2 * p + size <= n + 2
           In(p, size) == 2 * p - 1 <= leaf /\ leaf <= 2 * p + size - 2
           Good == {h \in Nat : h # 0 => \A p \in Nat \ {0}, size \in Nat :
                      Half(h, p, size) /\ In(p, size) =>
                        PathAt(H, leaf, size, 2 * p - 1) = Up(H, n, leaf, PathAt(Q, l, h, p))}
<1> HIDE DEF Q
<1>1. ASSUME NEW h \in Nat, \A k \in Nat : k < h => k \in Good
      PROVE  h \in Good
  <2>1. SUFFICES ASSUME h # 0, NEW p \in Nat \ {0}, NEW size \in Nat,
                        Half(h, p, size), In(p, size)
                 PROVE  PathAt(H, leaf, size, 2 * p - 1) = Up(H, n, leaf, PathAt(Q, l, h, p))
    OBVIOUS
  <2>2. PICK first \in Nat : first = 2 * p - 1
    OBVIOUS
  <2>3. CASE h = 1
    <3>1. PathAt(Q, l, 1, p) = << >>
      BY PathAtLeaf
    <3>2. CASE size = 2
      <4>1. PICK t \in Nat : t = 2 * p /\ t = first + 1
        BY <2>2
      <4>2. LargestPowerOfTwoLessThan(2) = 1 /\ 2 > 1 /\ 1 = 2 - 1 /\ 2 \in Nat
        BY SplitHalves
      <4>3. PathAt(H, leaf, 1, first) = << >> /\ PathAt(H, leaf, 1, t) = << >>
        BY PathAtLeaf
      <4>4. Root(H, 1, first) = H[first] /\ Root(H, 1, t) = H[t]
        BY RootLeaf
      <4>5. CASE leaf = first
        <5>1. leaf < t /\ leaf % 2 = 1 /\ leaf # n /\ leaf + 1 = t
          BY <2>1, <2>2, <3>2, <4>1, <4>5
        <5>2. PathAt(H, leaf, 2, first) = Then(PathAt(H, leaf, 1, first), Root(H, 1, t))
          BY <4>1, <4>2, <5>1, PathAtSplit
        <5>3. PathAt(H, leaf, 2, first) = <<H[t]>>
          BY <4>3, <4>4, <5>2, FirstOfOne
        <5>4. Up(H, n, leaf, << >>) = First(H[t], << >>)
          BY <5>1 DEF Up
        <5> QED BY <2>2, <2>3, <3>1, <3>2, <5>3, <5>4, FirstOfOne
      <4>6. CASE leaf # first
        <5>1. ~(leaf < t) /\ leaf % 2 = 0 /\ leaf - 1 = first
          BY <2>1, <2>2, <3>2, <4>1, <4>6
        <5>a. ~(leaf < t)
          BY <5>1
        <5>b. t = first + 1
          BY <4>1
        <5>c. 1 = LargestPowerOfTwoLessThan(2) /\ leaf \in Nat
          BY <4>2
        <5>2. PathAt(H, leaf, 2, first) = Then(PathAt(H, leaf, 1, t), Root(H, 1, first))
          BY <4>2, <5>a, <5>b, <5>c, PathAtSplit
        <5>3. PathAt(H, leaf, 2, first) = <<H[first]>>
          BY <4>3, <4>4, <5>2, FirstOfOne
        <5>4. Up(H, n, leaf, << >>) = First(H[first], << >>)
          BY <5>1 DEF Up
        <5> QED BY <2>2, <2>3, <3>1, <3>2, <5>3, <5>4, FirstOfOne
      <4> QED BY <4>5, <4>6
    <3>3. CASE size # 2
      <4>1. size = 1 /\ leaf = n /\ leaf % 2 = 1
        BY <2>1, <2>3, <3>3
      <4>2. Up(H, n, leaf, << >>) = << >>
        BY <4>1 DEF Up
      <4>3. PathAt(H, leaf, 1, first) = << >>
        BY PathAtLeaf
      <4> QED BY <2>2, <2>3, <3>1, <4>1, <4>2, <4>3
    <3> QED BY <3>2, <3>3
  <2>4. CASE h # 1
    <3>1. h > 1 /\ size > 2 /\ (size + 1) \div 2 = h
      BY <2>1, <2>4
    <3>2. PICK s \in 1..(h - 1) : s = LargestPowerOfTwoLessThan(h)
      BY <3>1, SplitBounds
    <3>3. LargestPowerOfTwoLessThan(size) = 2 * s
      BY <3>1, <3>2, SplitHalves
    <3>0. size >= 2 * h - 1 /\ 2 * s <= 2 * h - 2
      BY <2>1, <3>2
    <3>a. PICK rest \in Nat : rest = size - 2 * s
      BY <3>0
    <3>b. PICK r \in Nat : r = h - s
      BY <3>2
    <3>4. PICK k \in Nat, q \in Nat, t \in Nat :
            /\ k = 2 * s /\ rest = size - k /\ r = h - s /\ q = p + s
            /\ t = first + k
      BY <3>a, <3>b
    <3>5. Half(s, p, k) /\ Half(r, q, rest) /\ t = 2 * q - 1
      BY <2>1, <2>2, <3>2, <3>4
    <3>6. s < h /\ r < h /\ s # 0 /\ r # 0 /\ q \in Nat \ {0} /\ s \in Nat
      BY <3>2, <3>4
    <3>7. Root(H, k, first) = Root(Q, s, p)
      BY <2>2, <3>5, <3>6, Pairing DEF Q
    <3>8. Root(H, rest, t) = Root(Q, r, q)
      BY <3>5, <3>6, Pairing DEF Q
    <3>9. CASE leaf < t
      <4>1. l < q
        BY <3>5, <3>9
      <4>2. In(p, k)
        BY <2>1, <2>2, <3>4, <3>9
      <4>3. PathAt(H, leaf, k, first) = Up(H, n, leaf, PathAt(Q, l, s, p))
        <5> HIDE DEF Half, In
        <5> QED BY <1>1, <2>2, <3>5, <3>6, <4>2
      <4>4. PathAt(H, leaf, size, first) = Then(PathAt(H, leaf, k, first), Root(H, rest, t))
        BY <3>1, <3>3, <3>4, <3>9, PathAtSplit
      <4>5. PathAt(Q, l, h, p) = Then(PathAt(Q, l, s, p), Root(Q, r, q))
        BY <3>1, <3>2, <3>4, <4>1, PathAtSplit
      <4>6. IsPath(PathAt(Q, l, s, p))
        BY <3>6, PathAtIsPath
      <4>7. Then(Up(H, n, leaf, PathAt(Q, l, s, p)), Root(Q, r, q))
              = Up(H, n, leaf, Then(PathAt(Q, l, s, p), Root(Q, r, q)))
        BY <4>6, UpThen
      <4> QED BY <2>2, <3>8, <4>3, <4>4, <4>5, <4>7
    <3>10. CASE ~(leaf < t)
      <4>1. ~(l < q)
        BY <3>5, <3>10
      <4>2. In(q, rest)
        BY <2>1, <2>2, <3>4, <3>5, <3>10
      <4>3. PathAt(H, leaf, rest, t) = Up(H, n, leaf, PathAt(Q, l, r, q))
        <5> HIDE DEF Half, In
        <5> QED BY <1>1, <3>5, <3>6, <4>2
      <4>4. PathAt(H, leaf, size, first) = Then(PathAt(H, leaf, rest, t), Root(H, k, first))
        BY <3>1, <3>3, <3>4, <3>10, PathAtSplit
      <4>5. PathAt(Q, l, h, p) = Then(PathAt(Q, l, r, q), Root(Q, s, p))
        BY <3>1, <3>2, <3>4, <4>1, PathAtSplit
      <4>6. IsPath(PathAt(Q, l, r, q))
        BY <3>6, PathAtIsPath
      <4>7. Then(Up(H, n, leaf, PathAt(Q, l, r, q)), Root(Q, s, p))
              = Up(H, n, leaf, Then(PathAt(Q, l, r, q), Root(Q, s, p)))
        BY <4>6, UpThen
      <4> QED BY <2>2, <3>7, <4>3, <4>4, <4>5, <4>7
    <3> QED BY <3>9, <3>10
  <2> QED BY <2>3, <2>4
<1> HIDE DEF Good
<1>2. \A h \in Nat : h \in Good
  BY <1>1, StrongInduct
<1>3. ASSUME NEW h \in Nat \ {0}, NEW p \in Nat \ {0}, NEW size \in Nat,
             Half(h, p, size), In(p, size)
      PROVE  PathAt(H, leaf, size, 2 * p - 1) = Up(H, n, leaf, PathAt(Q, l, h, p))
  BY <1>2, <1>3 DEF Good
<1> QED BY <1>3 DEF Q

LEMMA PathOfPairs ==
  ASSUME NEW H, NEW n \in Nat \ {0}, NEW h \in Nat, h = (n + 1) \div 2,
         NEW leaf \in 1..n, NEW l \in Nat, l = (leaf + 1) \div 2
  PROVE  PathAt(H, leaf, n, 1) = Up(H, n, leaf, PathAt(Pairs(H, n), l, h, 1))
<1>1. /\ h \in Nat \ {0} /\ 1 \in Nat \ {0} /\ 2 * 1 - 1 = 1 /\ n \in Nat
      /\ 2 * 1 + n <= n + 2 /\ 2 * 1 - 1 <= leaf /\ leaf <= 2 * 1 + n - 2
  OBVIOUS
<1>2. n = 2 * h \/ (n = 2 * h - 1 /\ 2 * 1 + n = n + 2)
  OBVIOUS
<1> QED BY <1>1, <1>2, PathLevels

(***************************************************************************)
(* An inclusion proof is complete: the walk of the path to a leaf ends at  *)
(* the root, with nothing left of the tree.                                *)
(***************************************************************************)
LEMMA InclusionFirst ==
  ASSUME NEW w, NEW x, NEW p, IsPath(p)
  PROVE  InclusionWalk(w, First(x, p)) = InclusionWalk(InclusionStep(w, x), p)
<1>1. PICK q : q = First(x, p)
  OBVIOUS
<1>2. /\ Len(p) \in Nat /\ Len(q) = Len(p) + 1 /\ q[1] = x
      /\ \A i \in 1..Len(p) : q[i + 1] = p[i]
  BY <1>1, FirstIs
<1>3. InclusionWalk(w, q) = InclusionWalk(InclusionStep(w, q[1]), p)
  BY <1>2, InclusionWalkLonger
<1> QED BY <1>1, <1>2, <1>3

LEMMA InclusionComplete ==
  ASSUME NEW n \in Nat \ {0}, NEW H, NEW leaf \in 1..n
  PROVE  InclusionWalk(At(leaf - 1, n - 1, H[leaf]), PathAt(H, leaf, n, 1))
           = At(0, 0, Root(H, n, 1))
<1> DEFINE Good == {m \in Nat : m # 0 => \A G : \A i \in 1..m :
                      InclusionWalk(At(i - 1, m - 1, G[i]), PathAt(G, i, m, 1))
                        = At(0, 0, Root(G, m, 1))}
<1>1. ASSUME NEW m \in Nat, \A k \in Nat : k < m => k \in Good PROVE m \in Good
  <2>1. SUFFICES ASSUME m # 0, NEW G, NEW i \in 1..m
                 PROVE  InclusionWalk(At(i - 1, m - 1, G[i]), PathAt(G, i, m, 1))
                          = At(0, 0, Root(G, m, 1))
    OBVIOUS
  <2>2. CASE m = 1
    <3>1. i = 1 /\ i - 1 = 0 /\ m - 1 = 0
      BY <2>2
    <3>2. PathAt(G, i, 1, 1) = << >>
      BY PathAtLeaf
    <3>3. Root(G, 1, 1) = G[1]
      BY RootLeaf
    <3>4. Len(<< >>) = 0
      OBVIOUS
    <3>5. InclusionWalk(At(0, 0, G[1]), << >>) = At(0, 0, G[1])
      BY <3>4, InclusionWalkEmpty
    <3> QED BY <2>2, <3>1, <3>2, <3>3, <3>5
  <2>3. CASE m # 1
    <3>1. PICK h \in Nat, l \in Nat, e \in Nat, s \in Nat :
            /\ h = (m + 1) \div 2 /\ l = (i + 1) \div 2 /\ e = i - 1 /\ s = m - 1
      BY <2>1
    <3>2. /\ h < m /\ h # 0 /\ l \in 1..h /\ l \in Nat \ {0} /\ s # 0 /\ m \in Nat \ {0}
          /\ e \div 2 = l - 1 /\ s \div 2 = h - 1
      BY <2>1, <2>3, <3>1
    <3>3. PICK Q : Q = Pairs(G, m)
      OBVIOUS
    <3>4. PICK P : P = PathAt(Q, l, h, 1)
      OBVIOUS
    <3>5. IsPath(P)
      <4>1. h \in Nat \ {0} /\ 1 \in Nat
        BY <3>2
      <4> QED BY <3>4, <4>1, PathAtIsPath
    <3>6. InclusionWalk(At(l - 1, h - 1, Q[l]), P) = At(0, 0, Root(Q, h, 1))
      BY <1>1, <3>2, <3>4
    <3>7. Root(G, m, 1) = Root(Q, h, 1)
      BY <3>1, <3>2, <3>3, RootOfPairs
    <3>8. PathAt(G, i, m, 1) = Up(G, m, i, P)
      BY <3>1, <3>2, <3>3, <3>4, PathOfPairs
    <3> HIDE DEF Good
    <3>9. CASE i % 2 = 0
      <4>1. e % 2 = 1 /\ 2 * l - 1 = i - 1 /\ 2 * l = i /\ 2 * l <= m
        BY <3>1, <3>9
      <4>2. PathAt(G, i, m, 1) = First(G[i - 1], P)
        BY <3>8, <3>9 DEF Up
      <4>3. InclusionStep(At(e, s, G[i]), G[i - 1])
              = At(e \div 2, s \div 2, HashNode(G[i - 1], G[i]))
        BY <3>2, <4>1, InclusionSteps
      <4>4. Q[l] = HashNode(G[2 * l - 1], G[2 * l])
        BY <3>2, <3>3, <4>1, PairsAre
      <4>5. InclusionStep(At(e, s, G[i]), G[i - 1]) = At(l - 1, h - 1, Q[l])
        BY <3>2, <4>1, <4>3, <4>4
      <4>6. InclusionWalk(At(e, s, G[i]), First(G[i - 1], P))
              = InclusionWalk(InclusionStep(At(e, s, G[i]), G[i - 1]), P)
        BY <3>5, InclusionFirst
      <4> QED BY <3>1, <3>6, <3>7, <4>2, <4>5, <4>6
    <3>10. CASE i % 2 # 0 /\ i # m
      <4>1. e % 2 = 0 /\ e # s /\ 2 * l - 1 = i /\ 2 * l = i + 1 /\ 2 * l <= m
        BY <3>1, <3>10
      <4>2. PathAt(G, i, m, 1) = First(G[i + 1], P)
        BY <3>8, <3>10 DEF Up
      <4>3. InclusionStep(At(e, s, G[i]), G[i + 1])
              = At(e \div 2, s \div 2, HashNode(G[i], G[i + 1]))
        BY <3>2, <4>1, InclusionSteps
      <4>4. Q[l] = HashNode(G[2 * l - 1], G[2 * l])
        BY <3>2, <3>3, <4>1, PairsAre
      <4>5. InclusionStep(At(e, s, G[i]), G[i + 1]) = At(l - 1, h - 1, Q[l])
        BY <3>2, <4>1, <4>3, <4>4
      <4>6. InclusionWalk(At(e, s, G[i]), First(G[i + 1], P))
              = InclusionWalk(InclusionStep(At(e, s, G[i]), G[i + 1]), P)
        BY <3>5, InclusionFirst
      <4> QED BY <3>1, <3>6, <3>7, <4>2, <4>5, <4>6
    <3>11. CASE i % 2 # 0 /\ i = m
      <4>1. e % 2 = 0 /\ e = s /\ 2 * l - 1 = m /\ h > 1
        BY <2>3, <3>1, <3>11
      <4>2. PathAt(G, i, m, 1) = P
        BY <3>8, <3>11 DEF Up
      <4>3. Q[l] = G[i]
        <5>1. m \in Nat /\ l \in Nat \ {0}
          BY <3>2
        <5>2. Pairs(G, m)[l] = G[m]
          BY <4>1, <5>1, PairsAre
        <5> QED BY <3>3, <3>11, <5>2
      <4>4. PICK v, w : v = At(e, s, G[i]) /\ w = At(l - 1, h - 1, Q[l])
        OBVIOUS
      <4>5. \A x : InclusionStep(v, x) = InclusionStep(w, x)
        BY <3>2, <4>1, <4>3, <4>4, InclusionSteps
      <4>6. Len(P) # 0
        <5>1. ASSUME Len(P) = 0 PROVE FALSE
          <6>1. InclusionWalk(w, P) = w
            BY <5>1, InclusionWalkEmpty
          <6>2. w = At(0, 0, Root(Q, h, 1))
            BY <3>6, <4>4, <6>1
          <6>3. w.sn = h - 1
            BY <4>4 DEF At, InclusionAt
          <6>4. w.sn = 0
            BY <6>2 DEF At, InclusionAt
          <6> QED BY <4>1, <6>3, <6>4
        <5> QED BY <5>1
      <4>7. PICK x, rest : /\ x = P[1] /\ Len(rest) \in Nat /\ Len(P) = Len(rest) + 1
                           /\ \A j \in 1..Len(rest) : P[j + 1] = rest[j]
        BY <3>5, <4>6, PathRest
      <4>8. InclusionWalk(v, P) = InclusionWalk(InclusionStep(v, x), rest)
        BY <4>7, InclusionWalkLonger
      <4>9. InclusionWalk(w, P) = InclusionWalk(InclusionStep(w, x), rest)
        BY <4>7, InclusionWalkLonger
      <4>10. InclusionWalk(v, P) = InclusionWalk(w, P)
        BY <4>5, <4>8, <4>9
      <4> QED BY <3>1, <3>6, <3>7, <4>2, <4>4, <4>10
    <3> QED BY <3>9, <3>10, <3>11
  <2> QED BY <2>2, <2>3
<1> HIDE DEF Good
<1>2. n \in Good
  BY <1>1, StrongInduct
<1> QED BY <1>2 DEF Good

-----------------------------------------------------------------------------
(***************************************************************************)
(* A consistency walk along the path of leaf m: the old tree has the same  *)
(* leaves before m, and its own leaf m.                                    *)
(***************************************************************************)
LEMMA ConsistencyFirst ==
  ASSUME NEW w, NEW x, NEW p, IsPath(p)
  PROVE  ConsistencyWalk(w, First(x, p)) = ConsistencyWalk(ConsistencyStep(w, x), p)
<1>1. PICK q : q = First(x, p)
  OBVIOUS
<1>2. /\ Len(p) \in Nat /\ Len(q) = Len(p) + 1 /\ q[1] = x
      /\ \A i \in 1..Len(p) : q[i + 1] = p[i]
  BY <1>1, FirstIs
<1>3. ConsistencyWalk(w, q) = ConsistencyWalk(ConsistencyStep(w, q[1]), p)
  BY <1>2, ConsistencyWalkLonger
<1> QED BY <1>1, <1>2, <1>3

LEMMA ConsistencyAlongPath ==
  ASSUME NEW n \in Nat \ {0}, NEW H, NEW m \in 1..n, NEW A, \A j \in 1..(m - 1) : A[j] = H[j]
  PROVE  ConsistencyWalk(Both(m - 1, n - 1, A[m], H[m]), PathAt(H, m, n, 1))
           = Both(0, 0, Root(A, m, 1), Root(H, n, 1))
<1> DEFINE Good == {k \in Nat : k # 0 => \A G, B : \A i \in 1..k :
                      (\A j \in 1..(i - 1) : B[j] = G[j]) =>
                        ConsistencyWalk(Both(i - 1, k - 1, B[i], G[i]), PathAt(G, i, k, 1))
                          = Both(0, 0, Root(B, i, 1), Root(G, k, 1))}
<1>1. ASSUME NEW k \in Nat, \A j \in Nat : j < k => j \in Good PROVE k \in Good
  <2>1. SUFFICES ASSUME k # 0, NEW G, NEW B, NEW i \in 1..k,
                        \A j \in 1..(i - 1) : B[j] = G[j]
                 PROVE  ConsistencyWalk(Both(i - 1, k - 1, B[i], G[i]), PathAt(G, i, k, 1))
                          = Both(0, 0, Root(B, i, 1), Root(G, k, 1))
    OBVIOUS
  <2>2. CASE k = 1
    <3>1. i = 1 /\ i - 1 = 0 /\ k - 1 = 0
      BY <2>2
    <3>2. PathAt(G, i, 1, 1) = << >>
      BY PathAtLeaf
    <3>3. Root(G, 1, 1) = G[1] /\ Root(B, 1, 1) = B[1]
      BY RootLeaf
    <3>4. Len(<< >>) = 0
      OBVIOUS
    <3>5. ConsistencyWalk(Both(0, 0, B[1], G[1]), << >>) = Both(0, 0, B[1], G[1])
      BY <3>4, ConsistencyWalkEmpty
    <3> QED BY <2>2, <3>1, <3>2, <3>3, <3>5
  <2>3. CASE k # 1
    <3>1. PICK h \in Nat, l \in Nat, e \in Nat, s \in Nat :
            /\ h = (k + 1) \div 2 /\ l = (i + 1) \div 2 /\ e = i - 1 /\ s = k - 1
      BY <2>1
    <3>2. /\ h < k /\ h # 0 /\ l \in 1..h /\ l \in Nat \ {0} /\ s # 0 /\ k \in Nat \ {0}
          /\ i \in Nat \ {0} /\ e \div 2 = l - 1 /\ s \div 2 = h - 1
      BY <2>1, <2>3, <3>1
    <3>3. PICK Q, C : Q = Pairs(G, k) /\ C = Pairs(B, i)
      OBVIOUS
    <3>4. PICK P : P = PathAt(Q, l, h, 1)
      OBVIOUS
    <3>5. IsPath(P)
      <4>1. h \in Nat \ {0} /\ 1 \in Nat
        BY <3>2
      <4> QED BY <3>4, <4>1, PathAtIsPath
    <3>a. ASSUME NEW j \in 1..(l - 1) PROVE C[j] = Q[j]
      <4>1. j \in Nat \ {0} /\ 2 * j <= k /\ 2 * j <= i
            /\ 2 * j - 1 \in 1..(i - 1) /\ 2 * j \in 1..(i - 1)
        BY <2>1, <3>1
      <4>2. C[j] = HashNode(B[2 * j - 1], B[2 * j])
        BY <3>3, <4>1, PairsAre
      <4>3. Q[j] = HashNode(G[2 * j - 1], G[2 * j])
        BY <3>3, <4>1, PairsAre
      <4>4. B[2 * j - 1] = G[2 * j - 1] /\ B[2 * j] = G[2 * j]
        BY <2>1, <4>1
      <4> QED BY <4>2, <4>3, <4>4
    <3>6. ConsistencyWalk(Both(l - 1, h - 1, C[l], Q[l]), P)
            = Both(0, 0, Root(C, l, 1), Root(Q, h, 1))
      BY <1>1, <3>2, <3>4, <3>a
    <3>7. Root(G, k, 1) = Root(Q, h, 1)
      BY <3>1, <3>2, <3>3, RootOfPairs
    <3>b. Root(B, i, 1) = Root(C, l, 1)
      BY <3>1, <3>2, <3>3, RootOfPairs
    <3>8. PathAt(G, i, k, 1) = Up(G, k, i, P)
      BY <3>1, <3>2, <3>3, <3>4, PathOfPairs
    <3> HIDE DEF Good
    <3>9. CASE i % 2 = 0
      <4>1. /\ e % 2 = 1 /\ 2 * l - 1 = i - 1 /\ 2 * l = i /\ 2 * l <= k /\ 2 * l <= i
            /\ i - 1 \in 1..(i - 1)
        BY <3>1, <3>2, <3>9
      <4>2. PathAt(G, i, k, 1) = First(G[i - 1], P)
        BY <3>8, <3>9 DEF Up
      <4>3. ConsistencyStep(Both(e, s, B[i], G[i]), G[i - 1])
              = Both(e \div 2, s \div 2, HashNode(G[i - 1], B[i]), HashNode(G[i - 1], G[i]))
        BY <3>2, <4>1, ConsistencySteps
      <4>4. Q[l] = HashNode(G[2 * l - 1], G[2 * l])
        BY <3>2, <3>3, <4>1, PairsAre
      <4>a. C[l] = HashNode(B[2 * l - 1], B[2 * l])
        BY <3>2, <3>3, <4>1, PairsAre
      <4>b. B[i - 1] = G[i - 1]
        BY <2>1, <4>1
      <4>5. ConsistencyStep(Both(e, s, B[i], G[i]), G[i - 1]) = Both(l - 1, h - 1, C[l], Q[l])
        BY <3>2, <4>1, <4>3, <4>4, <4>a, <4>b
      <4>6. ConsistencyWalk(Both(e, s, B[i], G[i]), First(G[i - 1], P))
              = ConsistencyWalk(ConsistencyStep(Both(e, s, B[i], G[i]), G[i - 1]), P)
        BY <3>5, ConsistencyFirst
      <4> QED BY <3>1, <3>6, <3>7, <3>b, <4>2, <4>5, <4>6
    <3>10. CASE i % 2 # 0 /\ i # k
      <4>1. e % 2 = 0 /\ e # s /\ 2 * l - 1 = i /\ 2 * l = i + 1 /\ 2 * l <= k
        BY <3>1, <3>10
      <4>2. PathAt(G, i, k, 1) = First(G[i + 1], P)
        BY <3>8, <3>10 DEF Up
      <4>3. ConsistencyStep(Both(e, s, B[i], G[i]), G[i + 1])
              = Both(e \div 2, s \div 2, B[i], HashNode(G[i], G[i + 1]))
        BY <3>2, <4>1, ConsistencySteps
      <4>0. l \in Nat \ {0} /\ k \in Nat /\ 2 * l <= k
        BY <3>2, <4>1
      <4>4. Q[l] = HashNode(G[2 * l - 1], G[2 * l])
        BY <3>3, <4>0, PairsAre
      <4>a. C[l] = B[i]
        BY <3>2, <3>3, <4>1, PairsAre
      <4>5. ConsistencyStep(Both(e, s, B[i], G[i]), G[i + 1]) = Both(l - 1, h - 1, C[l], Q[l])
        BY <3>2, <4>1, <4>3, <4>4, <4>a
      <4>6. ConsistencyWalk(Both(e, s, B[i], G[i]), First(G[i + 1], P))
              = ConsistencyWalk(ConsistencyStep(Both(e, s, B[i], G[i]), G[i + 1]), P)
        BY <3>5, ConsistencyFirst
      <4> QED BY <3>1, <3>6, <3>7, <3>b, <4>2, <4>5, <4>6
    <3>11. CASE i % 2 # 0 /\ i = k
      <4>1. e % 2 = 0 /\ e = s /\ 2 * l - 1 = k /\ 2 * l - 1 = i /\ h > 1
        BY <2>3, <3>1, <3>11
      <4>2. PathAt(G, i, k, 1) = P
        BY <3>8, <3>11 DEF Up
      <4>3. Q[l] = G[i] /\ C[l] = B[i]
        BY <3>2, <3>3, <3>11, <4>1, PairsAre
      <4>4. PICK v, w : v = Both(e, s, B[i], G[i]) /\ w = Both(l - 1, h - 1, C[l], Q[l])
        OBVIOUS
      <4>5. \A x : ConsistencyStep(v, x) = ConsistencyStep(w, x)
        BY <3>2, <4>1, <4>3, <4>4, ConsistencySteps
      <4>6. Len(P) # 0
        <5>1. ASSUME Len(P) = 0 PROVE FALSE
          <6>1. ConsistencyWalk(w, P) = w
            BY <5>1, ConsistencyWalkEmpty
          <6>2. w = Both(0, 0, Root(C, l, 1), Root(Q, h, 1))
            BY <3>6, <4>4, <6>1
          <6>3. w.sn = h - 1
            BY <4>4 DEF Both, ConsistencyAt
          <6>4. w.sn = 0
            BY <6>2 DEF Both, ConsistencyAt
          <6> QED BY <4>1, <6>3, <6>4
        <5> QED BY <5>1
      <4>7. PICK x, rest : /\ x = P[1] /\ Len(rest) \in Nat /\ Len(P) = Len(rest) + 1
                           /\ \A j \in 1..Len(rest) : P[j + 1] = rest[j]
        BY <3>5, <4>6, PathRest
      <4>8. ConsistencyWalk(v, P) = ConsistencyWalk(ConsistencyStep(v, x), rest)
        BY <4>7, ConsistencyWalkLonger
      <4>9. ConsistencyWalk(w, P) = ConsistencyWalk(ConsistencyStep(w, x), rest)
        BY <4>7, ConsistencyWalkLonger
      <4>10. ConsistencyWalk(v, P) = ConsistencyWalk(w, P)
        BY <4>5, <4>8, <4>9
      <4> QED BY <3>1, <3>6, <3>7, <3>b, <4>2, <4>4, <4>10
    <3> QED BY <3>9, <3>10, <3>11
  <2> QED BY <2>2, <2>3
<1> HIDE DEF Good
<1>2. n \in Good
  BY <1>1, StrongInduct
<1> QED BY <1>2 DEF Good

-----------------------------------------------------------------------------
(***************************************************************************)
(* The proofs of RFC 9162, section 2.1.4.                                  *)
(***************************************************************************)
ProofTable(f, sub, old, n) ==
  f = [size \in 1..n |-> [first \in Nat |-> ProofOver(f, sub, old, size, first)]]

LEMMA ProofOverWhole ==
  ASSUME NEW f, NEW sub, NEW old \in Nat, NEW size \in Nat, NEW first \in Nat,
         size = 1 \/ first + size = old + 1
  PROVE  ProofOver(f, sub, old, size, first) = IF first = 1 THEN << >> ELSE <<sub[size][first]>>
BY DEF ProofOver

LEMMA ProofDependsBelow ==
  ASSUME NEW f, NEW g, NEW sub, NEW old \in Nat, NEW size \in Nat \ {0}, NEW first \in Nat,
         \A s \in 1..(size - 1) : f[s] = g[s]
  PROVE  ProofOver(f, sub, old, size, first) = ProofOver(g, sub, old, size, first)
<1>1. CASE size = 1 \/ first + size = old + 1
  <2>1. size \in Nat
    OBVIOUS
  <2> QED BY <1>1, <2>1, ProofOverWhole
<1>2. CASE size # 1 /\ first + size # old + 1
  <2>1. PICK k \in 1..(size - 1) : k = LargestPowerOfTwoLessThan(size)
    BY <1>2, SplitBounds
  <2>2. PICK r \in 1..(size - 1), t \in Nat : r = size - k /\ t = first + k
    BY <2>1
  <2>3. f[k] = g[k] /\ f[r] = g[r]
    BY <2>1, <2>2
  <2>4. ~(size = 1 \/ first + size = old + 1)
    BY <1>2
  <2>a. k = LargestPowerOfTwoLessThan(size) /\ r = size - k /\ t = first + k
    BY <2>1, <2>2
  <2>5. CASE old < t
    <3>1. ProofOver(f, sub, old, size, first) = Append(f[k][first], sub[r][t])
      BY <2>4, <2>a, <2>5, ZenonT(30) DEF ProofOver
    <3>2. ProofOver(g, sub, old, size, first) = Append(g[k][first], sub[r][t])
      BY <2>4, <2>a, <2>5, ZenonT(30) DEF ProofOver
    <3> QED BY <2>3, <3>1, <3>2
  <2>6. CASE ~(old < t)
    <3>1. ProofOver(f, sub, old, size, first) = Append(f[r][t], sub[k][first])
      BY <2>4, <2>a, <2>6, ZenonT(30) DEF ProofOver
    <3>2. ProofOver(g, sub, old, size, first) = Append(g[r][t], sub[k][first])
      BY <2>4, <2>a, <2>6, ZenonT(30) DEF ProofOver
    <3> QED BY <2>3, <3>1, <3>2
  <2> QED BY <2>5, <2>6
<1> QED BY <1>1, <1>2

LEMMA ProofsExist ==
  ASSUME NEW sub, NEW old \in Nat, NEW n \in Nat
  PROVE  \E f : ProofTable(f, sub, old, n)
<1> DEFINE Good == {k \in Nat : \E f : ProofTable(f, sub, old, k)}
<1>1. 0 \in Good
  <2>1. 1..0 = {}
    OBVIOUS
  <2>2. ProofTable([size \in 1..0 |-> 0], sub, old, 0)
    BY <2>1 DEF ProofTable
  <2> QED BY <2>2
<1>2. ASSUME NEW k \in Nat, k \in Good PROVE k + 1 \in Good
  <2>1. PICK f : ProofTable(f, sub, old, k)
    BY <1>2
  <2> DEFINE Row(g, size) == [first \in Nat |-> ProofOver(g, sub, old, size, first)]
             g == [size \in 1..(k + 1) |-> IF size = k + 1 THEN Row(f, size) ELSE f[size]]
  <2>2. \A size \in 1..k : g[size] = f[size]
    OBVIOUS
  <2>3. ASSUME NEW size \in 1..(k + 1) PROVE Row(g, size) = Row(f, size)
    <3> HIDE DEF g
    <3>1. size \in Nat \ {0} /\ \A s \in 1..(size - 1) : g[s] = f[s]
      BY <2>2
    <3>2. \A first \in Nat :
            ProofOver(g, sub, old, size, first) = ProofOver(f, sub, old, size, first)
      BY <3>1, ProofDependsBelow
    <3> QED BY <3>2
  <2>4. ASSUME NEW size \in 1..(k + 1) PROVE g[size] = Row(g, size)
    <3>1. CASE size = k + 1
      <4> HIDE DEF Row
      <4>1. g[size] = Row(f, size)
        BY <3>1
      <4> HIDE DEF g
      <4> QED BY <4>1, <2>3
    <3>2. CASE size # k + 1
      <4>1. size \in 1..k
        BY <3>2
      <4>2. f[size] = Row(f, size)
        BY <2>1, <4>1 DEF ProofTable
      <4> HIDE DEF Row, g
      <4> QED BY <4>1, <4>2, <2>2, <2>3
    <3> QED BY <3>1, <3>2
  <2>5. g = [size \in 1..(k + 1) |-> g[size]]
    OBVIOUS
  <2> HIDE DEF g
  <2>6. g = [size \in 1..(k + 1) |-> Row(g, size)]
    <3> HIDE DEF Row
    <3> QED BY <2>4, <2>5
  <2> QED BY <2>6 DEF ProofTable
<1> HIDE DEF Good
<1>3. n \in Good
  BY <1>1, <1>2, Induct
<1> QED BY <1>3 DEF Good

LEMMA SubProofsDef ==
  ASSUME NEW hashes, NEW old \in Nat, NEW n \in Nat
  PROVE  \A size \in 1..n, first \in Nat :
           SubProofs(hashes, n, old)[size][first] =
             ProofOver(SubProofs(hashes, n, old), Subtrees(hashes, n), old, size, first)
<1>a. PICK sub : sub = Subtrees(hashes, n)
  OBVIOUS
<1> DEFINE Eq(f) == f = [size \in 1..n |-> [first \in Nat |-> ProofOver(f, sub, old, size, first)]]
<1>1. \E f : Eq(f)
  <2>1. PICK f : ProofTable(f, sub, old, n)
    BY ProofsExist
  <2>2. Eq(f)
    BY <2>1 DEF ProofTable
  <2> HIDE DEF Eq
  <2> QED BY <2>2
<1>2. SubProofs(hashes, n, old) = CHOOSE h : Eq(h)
  BY <1>a DEF SubProofs
<1>3. Eq(SubProofs(hashes, n, old))
  <2> HIDE DEF Eq
  <2> QED BY <1>1, <1>2
<1>4. PICK f : f = SubProofs(hashes, n, old)
  OBVIOUS
<1> DEFINE Row(size) == [first \in Nat |-> ProofOver(f, sub, old, size, first)]
<1>5. f = [size \in 1..n |-> Row(size)]
  BY <1>3, <1>4
<1> HIDE DEF Eq
<1>6. \A size \in 1..n : f[size] = Row(size)
  <2> HIDE DEF Row
  <2> QED BY <1>5
<1>7. \A size \in 1..n, first \in Nat : Row(size)[first] = ProofOver(f, sub, old, size, first)
  OBVIOUS
<1> HIDE DEF Row
<1>8. \A size \in 1..n, first \in Nat : f[size][first] = ProofOver(f, sub, old, size, first)
  BY <1>6, <1>7
<1> QED BY <1>a, <1>4, <1>8

(***************************************************************************)
(* What the subtree of size leaves from first on adds to the proof.        *)
(***************************************************************************)
ProofAt(H, old, size, first) == SubProofs(H, size, old)[size][first]

LEMMA ProofsAt ==
  ASSUME NEW H, NEW old \in Nat, NEW n \in Nat
  PROVE  \A size \in 1..n, first \in Nat :
           SubProofs(H, n, old)[size][first] = ProofAt(H, old, size, first)
<1> DEFINE Good == {size \in Nat : \A m \in Nat, first \in Nat : size \in 1..m =>
                      SubProofs(H, m, old)[size][first] = SubProofs(H, size, old)[size][first]}
<1>1. ASSUME NEW size \in Nat, \A s \in Nat : s < size => s \in Good
      PROVE  size \in Good
  <2>1. SUFFICES ASSUME NEW m \in Nat, NEW first \in Nat, size \in 1..m
                 PROVE  SubProofs(H, m, old)[size][first] = SubProofs(H, size, old)[size][first]
    OBVIOUS
  <2>2. PICK f, g, sub, sup : /\ f = SubProofs(H, m, old) /\ g = SubProofs(H, size, old)
                              /\ sub = Subtrees(H, m) /\ sup = Subtrees(H, size)
    OBVIOUS
  <2>3. f[size][first] = ProofOver(f, sub, old, size, first)
    BY <2>1, <2>2, SubProofsDef
  <2>4. g[size][first] = ProofOver(g, sup, old, size, first)
    <3>1. size \in 1..size
      BY <2>1
    <3> QED BY <2>2, <3>1, SubProofsDef
  <2>5. CASE size = 1 \/ first + size = old + 1
    <3>1. sub[size][first] = sup[size][first]
      <4>1. size \in 1..m /\ size \in 1..size
        BY <2>1
      <4> QED BY <2>2, <4>1, SubtreesRoot
    <3>2. PICK x : x = sub[size][first] /\ x = sup[size][first]
      BY <3>1
    <3>3. ProofOver(f, sub, old, size, first)
            = IF first = 1 THEN << >> ELSE <<sub[size][first]>>
      BY <2>5, ProofOverWhole
    <3>4. ProofOver(g, sup, old, size, first)
            = IF first = 1 THEN << >> ELSE <<sup[size][first]>>
      BY <2>5, ProofOverWhole
    <3>5. f[size][first] = g[size][first]
      BY <2>3, <2>4, <3>2, <3>3, <3>4
    <3> QED BY <2>2, <3>5
  <2>6. CASE ~(size = 1 \/ first + size = old + 1)
    <3>1. PICK k \in 1..(size - 1) : k = LargestPowerOfTwoLessThan(size)
      BY <2>1, <2>6, SplitBounds
    <3>2. PICK r \in 1..(size - 1), t \in Nat : r = size - k /\ t = first + k
      BY <3>1
    <3>3. f[k][first] = g[k][first] /\ f[r][t] = g[r][t]
      <4>1. /\ f[k][first] = SubProofs(H, k, old)[k][first]
            /\ g[k][first] = SubProofs(H, k, old)[k][first]
        BY <1>1, <2>1, <2>2, <3>1
      <4>2. f[r][t] = SubProofs(H, r, old)[r][t] /\ g[r][t] = SubProofs(H, r, old)[r][t]
        BY <1>1, <2>1, <2>2, <3>2
      <4> QED BY <4>1, <4>2
    <3>4. sub[k][first] = sup[k][first] /\ sub[r][t] = sup[r][t]
      <4>1. k \in 1..m /\ r \in 1..m /\ k \in 1..size /\ r \in 1..size
        BY <2>1, <3>1, <3>2
      <4>2. sub[k][first] = Root(H, k, first) /\ sup[k][first] = Root(H, k, first)
        BY <2>2, <4>1, SubtreesRoot
      <4>3. sub[r][t] = Root(H, r, t) /\ sup[r][t] = Root(H, r, t)
        BY <2>2, <4>1, SubtreesRoot
      <4> QED BY <4>2, <4>3
    <3>5. /\ ~(size = 1 \/ first + size = old + 1) /\ k = LargestPowerOfTwoLessThan(size)
          /\ r = size - k /\ t = first + k
      BY <2>6, <3>1, <3>2
    <3>6. CASE old < t
      <4>1. ProofOver(f, sub, old, size, first) = Append(f[k][first], sub[r][t])
        BY <3>5, <3>6, ZenonT(30) DEF ProofOver
      <4>2. ProofOver(g, sup, old, size, first) = Append(g[k][first], sup[r][t])
        BY <3>5, <3>6, ZenonT(30) DEF ProofOver
      <4> QED BY <2>2, <2>3, <2>4, <3>3, <3>4, <4>1, <4>2
    <3>7. CASE ~(old < t)
      <4>1. ProofOver(f, sub, old, size, first) = Append(f[r][t], sub[k][first])
        BY <3>5, <3>7, ZenonT(30) DEF ProofOver
      <4>2. ProofOver(g, sup, old, size, first) = Append(g[r][t], sup[k][first])
        BY <3>5, <3>7, ZenonT(30) DEF ProofOver
      <4> QED BY <2>2, <2>3, <2>4, <3>3, <3>4, <4>1, <4>2
    <3> QED BY <3>6, <3>7
  <2> QED BY <2>5, <2>6
<1> HIDE DEF Good
<1>2. \A size \in Nat : size \in Good
  BY <1>1, StrongInduct
<1>3. ASSUME NEW size \in 1..n, NEW first \in Nat
      PROVE  SubProofs(H, n, old)[size][first] = ProofAt(H, old, size, first)
  BY <1>2 DEF Good, ProofAt
<1> QED BY <1>3

LEMMA ProofAtWhole ==
  ASSUME NEW H, NEW old \in Nat, NEW size \in Nat \ {0}, NEW first \in Nat,
         size = 1 \/ first + size = old + 1
  PROVE  /\ first = 1 => ProofAt(H, old, size, first) = << >>
         /\ first # 1 => ProofAt(H, old, size, first) = <<Root(H, size, first)>>
<1>1. size \in 1..size /\ size \in Nat
  OBVIOUS
<1>2. PICK f, sub : f = SubProofs(H, size, old) /\ sub = Subtrees(H, size)
  OBVIOUS
<1>3. f[size][first] = ProofOver(f, sub, old, size, first)
  BY <1>1, <1>2, SubProofsDef
<1>4. ProofOver(f, sub, old, size, first) = IF first = 1 THEN << >> ELSE <<sub[size][first]>>
  BY <1>1, ProofOverWhole
<1>5. sub[size][first] = Root(H, size, first)
  BY <1>1, <1>2, SubtreesRoot
<1>6. ProofAt(H, old, size, first) = f[size][first]
  BY <1>2 DEF ProofAt
<1> QED BY <1>3, <1>4, <1>5, <1>6

LEMMA ProofAtSplit ==
  ASSUME NEW H, NEW old \in Nat, NEW first \in Nat, NEW size \in Nat, size > 1,
         first + size # old + 1,
         NEW k, NEW r, NEW t, k = LargestPowerOfTwoLessThan(size), r = size - k, t = first + k
  PROVE  /\ old < t =>
              ProofAt(H, old, size, first) = Then(ProofAt(H, old, k, first), Root(H, r, t))
         /\ ~(old < t) =>
              ProofAt(H, old, size, first) = Then(ProofAt(H, old, r, t), Root(H, k, first))
<1>1. k \in 1..(size - 1)
  BY SplitBounds
<1>2. size \in 1..size /\ k \in 1..size /\ r \in 1..size /\ t \in Nat
  BY <1>1
<1>3. PICK f, sub : f = SubProofs(H, size, old) /\ sub = Subtrees(H, size)
  OBVIOUS
<1>4. ProofAt(H, old, size, first) = ProofOver(f, sub, old, size, first)
  BY <1>2, <1>3, SubProofsDef DEF ProofAt
<1>5. f[k][first] = ProofAt(H, old, k, first) /\ f[r][t] = ProofAt(H, old, r, t)
  BY <1>2, <1>3, ProofsAt
<1>6. sub[k][first] = Root(H, k, first) /\ sub[r][t] = Root(H, r, t)
  BY <1>2, <1>3, SubtreesRoot
<1>7. ~(size = 1 \/ first + size = old + 1)
  OBVIOUS
<1>8. CASE old < t
  <2>1. ProofOver(f, sub, old, size, first) = Then(f[k][first], sub[r][t])
    BY <1>7, <1>8, ZenonT(30) DEF ProofOver, Then
  <2> QED BY <1>4, <1>5, <1>6, <1>8, <2>1
<1>9. CASE ~(old < t)
  <2>1. ProofOver(f, sub, old, size, first) = Then(f[r][t], sub[k][first])
    BY <1>7, <1>9, ZenonT(30) DEF ProofOver, Then
  <2> QED BY <1>4, <1>5, <1>6, <1>9, <2>1
<1> QED BY <1>8, <1>9

(***************************************************************************)
(* When the old size is even, the proof is the proof of the level above.   *)
(***************************************************************************)
LEMMA ProofLevels ==
  ASSUME NEW H, NEW n \in Nat, NEW old \in 1..n, old % 2 = 0, NEW o \in Nat, o = old \div 2
  PROVE  \A h \in Nat \ {0}, p \in Nat \ {0}, size \in Nat :
           /\ size = 2 * h \/ (size = 2 * h - 1 /\ 2 * p + size = n + 2)
           /\ 2 * p + size <= n + 2
           /\ 2 * p - 1 <= old /\ old <= 2 * p + size - 2
           => ProofAt(H, old, size, 2 * p - 1) = ProofAt(Pairs(H, n), o, h, p)
<1> DEFINE Q == Pairs(H, n)
           Half(h, p, size) == /\ size = 2 * h \/ (size = 2 * h - 1 /\ 2 * p + size = n + 2)
                               /\ 2 * p + size <= n + 2
           In(p, size) == 2 * p - 1 <= old /\ old <= 2 * p + size - 2
           Good == {h \in Nat : h # 0 => \A p \in Nat \ {0}, size \in Nat :
                      Half(h, p, size) /\ In(p, size) =>
                        ProofAt(H, old, size, 2 * p - 1) = ProofAt(Q, o, h, p)}
<1> HIDE DEF Q
<1>0. old \in Nat
  OBVIOUS
<1>1. ASSUME NEW h \in Nat, \A k \in Nat : k < h => k \in Good
      PROVE  h \in Good
  <2>1. SUFFICES ASSUME h # 0, NEW p \in Nat \ {0}, NEW size \in Nat,
                        Half(h, p, size), In(p, size)
                 PROVE  ProofAt(H, old, size, 2 * p - 1) = ProofAt(Q, o, h, p)
    OBVIOUS
  <2>2. PICK first \in Nat : first = 2 * p - 1
    OBVIOUS
  <2>3. CASE first + size = old + 1
    <3>1. p + h = o + 1 /\ size = 2 * h
      BY <2>1, <2>2, <2>3
    <3>2. Root(H, size, first) = Root(Q, h, p)
      BY <2>1, <2>2, Pairing DEF Q
    <3>3. first = 1 <=> p = 1
      BY <2>2
    <3>4. size \in Nat \ {0} /\ h \in Nat \ {0} /\ p \in Nat
      BY <2>1
    <3>5. CASE p = 1
      <4>1. ProofAt(H, old, size, first) = << >>
        BY <1>0, <2>3, <3>3, <3>4, <3>5, ProofAtWhole
      <4>2. ProofAt(Q, o, h, p) = << >>
        BY <3>1, <3>4, <3>5, ProofAtWhole
      <4> QED BY <2>2, <4>1, <4>2
    <3>6. CASE p # 1
      <4>1. ProofAt(H, old, size, first) = <<Root(H, size, first)>>
        BY <1>0, <2>3, <3>3, <3>4, <3>6, ProofAtWhole
      <4>2. ProofAt(Q, o, h, p) = <<Root(Q, h, p)>>
        BY <3>1, <3>4, <3>6, ProofAtWhole
      <4> QED BY <2>2, <3>2, <4>1, <4>2
    <3> QED BY <3>5, <3>6
  <2>4. CASE first + size # old + 1
    <3>1. h > 1 /\ size > 2 /\ (size + 1) \div 2 = h
      BY <2>1, <2>2, <2>4
    <3>c. p + h # o + 1
      BY <2>1, <2>2, <2>4
    <3>2. PICK s \in 1..(h - 1) : s = LargestPowerOfTwoLessThan(h)
      BY <3>1, SplitBounds
    <3>3. LargestPowerOfTwoLessThan(size) = 2 * s
      BY <3>1, <3>2, SplitHalves
    <3>0. size >= 2 * h - 1 /\ 2 * s <= 2 * h - 2
      BY <2>1, <3>2
    <3>a. PICK rest \in Nat : rest = size - 2 * s
      BY <3>0
    <3>b. PICK r \in Nat : r = h - s
      BY <3>2
    <3>4. PICK k \in Nat, q \in Nat, t \in Nat :
            /\ k = 2 * s /\ rest = size - k /\ r = h - s /\ q = p + s
            /\ t = first + k
      BY <3>a, <3>b
    <3>5. Half(s, p, k) /\ Half(r, q, rest) /\ t = 2 * q - 1
      BY <2>1, <2>2, <3>2, <3>4
    <3>6. s < h /\ r < h /\ s # 0 /\ r # 0 /\ q \in Nat \ {0} /\ s \in Nat
      BY <3>2, <3>4
    <3>7. Root(H, k, first) = Root(Q, s, p)
      BY <2>2, <3>5, <3>6, Pairing DEF Q
    <3>8. Root(H, rest, t) = Root(Q, r, q)
      BY <3>5, <3>6, Pairing DEF Q
    <3>d. size > 1 /\ k = LargestPowerOfTwoLessThan(size)
      BY <3>1, <3>3, <3>4
    <3>9. CASE old < t
      <4>1. o < q
        BY <3>5, <3>9
      <4>2. In(p, k)
        BY <2>1, <2>2, <3>4, <3>9
      <4>3. ProofAt(H, old, k, first) = ProofAt(Q, o, s, p)
        <5> HIDE DEF Half, In
        <5> QED BY <1>1, <2>2, <3>5, <3>6, <4>2
      <4>4. ProofAt(H, old, size, first) = Then(ProofAt(H, old, k, first), Root(H, rest, t))
        BY <1>0, <2>4, <3>4, <3>d, <3>9, ProofAtSplit
      <4>5. ProofAt(Q, o, h, p) = Then(ProofAt(Q, o, s, p), Root(Q, r, q))
        BY <3>1, <3>2, <3>4, <3>c, <4>1, ProofAtSplit
      <4> QED BY <2>2, <3>8, <4>3, <4>4, <4>5
    <3>10. CASE ~(old < t)
      <4>1. ~(o < q)
        BY <3>5, <3>10
      <4>2. In(q, rest)
        BY <2>1, <2>2, <3>4, <3>5, <3>10
      <4>3. ProofAt(H, old, rest, t) = ProofAt(Q, o, r, q)
        <5> HIDE DEF Half, In
        <5> QED BY <1>1, <3>5, <3>6, <4>2
      <4>4. ProofAt(H, old, size, first) = Then(ProofAt(H, old, rest, t), Root(H, k, first))
        BY <1>0, <2>4, <3>4, <3>d, <3>10, ProofAtSplit
      <4>5. ProofAt(Q, o, h, p) = Then(ProofAt(Q, o, r, q), Root(Q, s, p))
        BY <3>1, <3>2, <3>4, <3>c, <4>1, ProofAtSplit
      <4> QED BY <2>2, <3>7, <4>3, <4>4, <4>5
    <3> QED BY <3>9, <3>10
  <2> QED BY <2>3, <2>4
<1> HIDE DEF Good
<1>2. \A h \in Nat : h \in Good
  BY <1>1, StrongInduct
<1>3. ASSUME NEW h \in Nat \ {0}, NEW p \in Nat \ {0}, NEW size \in Nat,
             Half(h, p, size), In(p, size)
      PROVE  ProofAt(H, old, size, 2 * p - 1) = ProofAt(Q, o, h, p)
  BY <1>2, <1>3 DEF Good
<1> QED BY <1>3 DEF Q

LEMMA ProofOfPairs ==
  ASSUME NEW H, NEW n \in Nat, NEW old \in 1..n, old % 2 = 0, NEW o \in Nat, o = old \div 2,
         NEW h \in Nat, h = (n + 1) \div 2
  PROVE  ProofAt(H, old, n, 1) = ProofAt(Pairs(H, n), o, h, 1)
<1>1. /\ h \in Nat \ {0} /\ 1 \in Nat \ {0} /\ 2 * 1 - 1 = 1
      /\ 2 * 1 + n <= n + 2 /\ 2 * 1 - 1 <= old /\ old <= 2 * 1 + n - 2
  OBVIOUS
<1>2. n = 2 * h \/ (n = 2 * h - 1 /\ 2 * 1 + n = n + 2)
  OBVIOUS
<1> QED BY <1>1, <1>2, ProofLevels

(***************************************************************************)
(* When it is odd, the proof is the last old leaf and then the path to it. *)
(***************************************************************************)
LEMMA ProofOfOdd ==
  ASSUME NEW H, NEW n \in Nat, NEW old \in 1..(n - 1), old % 2 = 1
  PROVE  ProofAt(H, old, n, 1) =
           IF old = 1 THEN PathAt(H, old, n, 1) ELSE First(H[old], PathAt(H, old, n, 1))
<1> DEFINE Led(p) == IF old = 1 THEN p ELSE First(H[old], p)
           Slice(size, first) ==
             /\ first % 2 = 1 /\ first <= old /\ old < first + size /\ first + size <= n + 1
             /\ size = 1 \/ size % 2 = 0 \/ first + size = n + 1
           Good == {size \in Nat : size # 0 => \A first \in Nat : Slice(size, first) =>
                      ProofAt(H, old, size, first) = Led(PathAt(H, old, size, first))}
<1>0. old \in Nat
  OBVIOUS
<1>a. \A p, y : IsPath(p) => Then(Led(p), y) = Led(Then(p, y))
  <2>1. \A p, y : IsPath(p) => Then(First(H[old], p), y) = First(H[old], Then(p, y))
    BY PathsGrow
  <2> QED BY <2>1
<1> HIDE DEF Led
<1>1. ASSUME NEW size \in Nat, \A k \in Nat : k < size => k \in Good
      PROVE  size \in Good
  <2>1. SUFFICES ASSUME size # 0, NEW first \in Nat, Slice(size, first)
                 PROVE  ProofAt(H, old, size, first) = Led(PathAt(H, old, size, first))
    OBVIOUS
  <2>2. CASE size = 1
    <3>1. first = old /\ size \in Nat \ {0}
      BY <2>1, <2>2
    <3>2. PathAt(H, old, 1, first) = << >>
      BY <1>0, PathAtLeaf
    <3>3. Root(H, 1, first) = H[first]
      BY RootLeaf
    <3>4. CASE old = 1
      <4>1. ProofAt(H, old, size, first) = << >>
        BY <1>0, <2>2, <3>1, <3>4, ProofAtWhole
      <4> QED BY <2>2, <3>2, <3>4, <4>1 DEF Led
    <3>5. CASE old # 1
      <4>1. ProofAt(H, old, size, first) = <<Root(H, size, first)>>
        BY <1>0, <2>2, <3>1, <3>5, ProofAtWhole
      <4> QED BY <2>2, <3>1, <3>2, <3>3, <3>5, <4>1, FirstOfOne DEF Led
    <3> QED BY <3>4, <3>5
  <2>3. CASE size # 1
    <3>1. size > 1 /\ first + size # old + 1
      BY <2>1, <2>3
    <3>2. PICK k \in 1..(size - 1) : k = LargestPowerOfTwoLessThan(size)
      BY <3>1, SplitBounds
    <3>3. size > 2 => k % 2 = 0
      BY <3>2, SplitBounds
    <3>4. PICK r \in 1..(size - 1), t \in Nat : r = size - k /\ t = first + k
      BY <3>2
    <3>5. \A s \in 1..(size - 1), u \in Nat : Slice(s, u) =>
            ProofAt(H, old, s, u) = Led(PathAt(H, old, s, u))
      <4> HIDE DEF Slice
      <4> QED BY <1>1
    <3>6. CASE old < t
      <4>1. Slice(k, first)
        BY <2>1, <3>2, <3>3, <3>4, <3>6
      <4>2. ProofAt(H, old, k, first) = Led(PathAt(H, old, k, first))
        BY <3>5, <4>1
      <4>3. ProofAt(H, old, size, first) = Then(ProofAt(H, old, k, first), Root(H, r, t))
        BY <1>0, <3>1, <3>2, <3>4, <3>6, ProofAtSplit
      <4>4. PathAt(H, old, size, first) = Then(PathAt(H, old, k, first), Root(H, r, t))
        BY <1>0, <3>1, <3>2, <3>4, <3>6, PathAtSplit
      <4>5. IsPath(PathAt(H, old, k, first))
        BY <1>0, <3>2, PathAtIsPath
      <4> QED BY <1>a, <4>2, <4>3, <4>4, <4>5
    <3>7. CASE ~(old < t)
      <4>0. size > 2
        BY <2>1, <3>1, <3>2, <3>4, <3>7
      <4>1. Slice(r, t)
        BY <2>1, <3>2, <3>3, <3>4, <3>7, <4>0
      <4>2. ProofAt(H, old, r, t) = Led(PathAt(H, old, r, t))
        BY <3>4, <3>5, <4>1
      <4>3. ProofAt(H, old, size, first) = Then(ProofAt(H, old, r, t), Root(H, k, first))
        BY <1>0, <3>1, <3>2, <3>4, <3>7, ProofAtSplit
      <4>4. PathAt(H, old, size, first) = Then(PathAt(H, old, r, t), Root(H, k, first))
        BY <1>0, <3>1, <3>2, <3>4, <3>7, PathAtSplit
      <4>5. IsPath(PathAt(H, old, r, t))
        BY <1>0, <3>4, PathAtIsPath
      <4> QED BY <1>a, <4>2, <4>3, <4>4, <4>5
    <3> QED BY <3>6, <3>7
  <2> QED BY <2>2, <2>3
<1> HIDE DEF Good
<1>2. n \in Good
  BY <1>1, StrongInduct
<1>3. n # 0 /\ Slice(n, 1) /\ 1 \in Nat
  OBVIOUS
<1>4. ProofAt(H, old, n, 1) = Led(PathAt(H, old, n, 1))
  <2> HIDE DEF Slice
  <2> QED BY <1>2, <1>3 DEF Good
<1> QED BY <1>4 DEF Led

(***************************************************************************)
(* Every honest consistency proof verifies: an odd old size starts at the  *)
(* last old leaf and follows the path to it, an even one is a proof of the *)
(* level above.                                                            *)
(***************************************************************************)
LEMMA TailOfFirst ==
  ASSUME NEW x, NEW p, IsPath(p), NEW q, q = First(x, p)
  PROVE  IsPath(q) /\ q # << >> /\ q[1] = x /\ Tail(q) = p
<1>1. /\ IsPath(q) /\ Len(p) \in Nat /\ Len(q) = Len(p) + 1 /\ q[1] = x
      /\ \A i \in 1..Len(p) : q[i + 1] = p[i]
  BY FirstIs
<1>2. PICK T : q \in Seq(T)
  BY <1>1 DEF IsPath
<1>3. q # << >>
  BY <1>1
<1>4. PICK t : t = Tail(q)
  OBVIOUS
<1>5. t \in Seq(T) /\ Len(t) = Len(q) - 1 /\ \A i \in 1..Len(t) : t[i] = q[i + 1]
  BY <1>2, <1>3, <1>4, HeadTailProperties
<1>6. PICK S : p \in Seq(S)
  BY DEF IsPath
<1>7. p \in Seq(S \cup T) /\ t \in Seq(S \cup T)
  BY <1>5, <1>6, SeqMonotonic
<1>8. Len(p) = Len(t) /\ \A i \in 1..Len(p) : p[i] = t[i]
  BY <1>1, <1>5
<1>9. p = t
  BY <1>7, <1>8, SeqEqual
<1> QED BY <1>1, <1>3, <1>4, <1>9

LEMMA ThenIsNotEmpty ==
  ASSUME NEW p, IsPath(p), NEW x
  PROVE  Then(p, x) # << >>
<1>1. PICK T : p \in Seq(T)
  BY DEF IsPath
<1>2. p \in Seq(T \cup {x}) /\ x \in T \cup {x}
  BY <1>1, SeqMonotonic
<1>3. Len(p) \in Nat /\ Len(Append(p, x)) = Len(p) + 1
  BY <1>2, LenProperties, AppendProperties
<1>4. Append(p, x) # << >>
  BY <1>3
<1> QED BY <1>4 DEF Then

LEMMA ProofAtIsPath ==
  ASSUME NEW H, NEW old \in Nat
  PROVE  \A size \in Nat \ {0}, first \in Nat : IsPath(ProofAt(H, old, size, first))
<1> DEFINE Good == {size \in Nat : size # 0 =>
                      \A first \in Nat : IsPath(ProofAt(H, old, size, first))}
<1>1. ASSUME NEW size \in Nat, \A s \in Nat : s < size => s \in Good
      PROVE  size \in Good
  <2>1. SUFFICES ASSUME size # 0, NEW first \in Nat PROVE IsPath(ProofAt(H, old, size, first))
    OBVIOUS
  <2>2. CASE size = 1 \/ first + size = old + 1
    <3>1. \A x : IsPath(<< >>) /\ IsPath(<<x>>)
      <4>1. << >> \in Seq({}) /\ \A x : <<x>> \in Seq({x})
        OBVIOUS
      <4> QED BY <4>1 DEF IsPath
    <3>2. size \in Nat \ {0}
      BY <2>1
    <3>3. ProofAt(H, old, size, first) = << >>
          \/ ProofAt(H, old, size, first) = <<Root(H, size, first)>>
      BY <2>2, <3>2, ProofAtWhole
    <3> QED BY <3>1, <3>3
  <2>3. CASE ~(size = 1 \/ first + size = old + 1)
    <3>1. size > 1
      BY <2>1, <2>3
    <3>2. PICK k \in 1..(size - 1) : k = LargestPowerOfTwoLessThan(size)
      BY <3>1, SplitBounds
    <3>3. PICK r \in 1..(size - 1), t \in Nat : r = size - k /\ t = first + k
      BY <3>2
    <3>4. IsPath(ProofAt(H, old, k, first)) /\ IsPath(ProofAt(H, old, r, t))
      BY <1>1, <3>2, <3>3
    <3>5. \/ ProofAt(H, old, size, first) = Then(ProofAt(H, old, k, first), Root(H, r, t))
          \/ ProofAt(H, old, size, first) = Then(ProofAt(H, old, r, t), Root(H, k, first))
      BY <2>3, <3>1, <3>2, <3>3, ProofAtSplit
    <3>6. \A p, y : IsPath(p) => IsPath(Then(p, y))
      BY PathsGrow
    <3> QED BY <3>4, <3>5, <3>6
  <2> QED BY <2>2, <2>3
<1> HIDE DEF Good
<1>2. \A size \in Nat : size \in Good
  BY <1>1, StrongInduct
<1> QED BY <1>2 DEF Good

LEMMA ProofIsNotEmpty ==
  ASSUME NEW H, NEW n \in Nat, NEW m \in 1..(n - 1)
  PROVE  ProofAt(H, m, n, 1) # << >>
<1>1. n > 1 /\ 1 + n # m + 1 /\ m \in Nat
  OBVIOUS
<1>2. PICK k \in 1..(n - 1) : k = LargestPowerOfTwoLessThan(n)
  BY <1>1, SplitBounds
<1>3. PICK r \in Nat \ {0}, t \in Nat : r = n - k /\ t = 1 + k
  BY <1>2
<1>4. \/ ProofAt(H, m, n, 1) = Then(ProofAt(H, m, k, 1), Root(H, r, t))
      \/ ProofAt(H, m, n, 1) = Then(ProofAt(H, m, r, t), Root(H, k, 1))
  BY <1>1, <1>2, <1>3, ProofAtSplit
<1>5. IsPath(ProofAt(H, m, k, 1)) /\ IsPath(ProofAt(H, m, r, t))
  BY <1>1, <1>2, <1>3, ProofAtIsPath
<1> QED BY <1>4, <1>5, ThenIsNotEmpty

Led(H, m, n) ==
  IF IsExactPowerOfTwo(m) THEN First(Root(H, m, 1), ProofAt(H, m, n, 1)) ELSE ProofAt(H, m, n, 1)

LEMMA LedOdd ==
  ASSUME NEW H, NEW n \in Nat, NEW m \in 1..(n - 1), m % 2 = 1
  PROVE  Led(H, m, n) = First(H[m], PathAt(H, m, n, 1))
<1>1. ProofAt(H, m, n, 1) = IF m = 1 THEN PathAt(H, m, n, 1) ELSE First(H[m], PathAt(H, m, n, 1))
  BY ProofOfOdd
<1>2. IsExactPowerOfTwo(m) <=> m = 1
  BY ExactPowers
<1>3. Root(H, 1, 1) = H[1]
  BY RootLeaf
<1> QED BY <1>1, <1>2, <1>3 DEF Led

LEMMA LedEven ==
  ASSUME NEW H, NEW n \in Nat, NEW m \in 1..(n - 1), m % 2 = 0,
         NEW k \in Nat, k = m \div 2, NEW h \in Nat, h = (n + 1) \div 2
  PROVE  /\ Led(H, m, n) = Led(Pairs(H, n), k, h)
         /\ Root(H, m, 1) = Root(Pairs(H, n), k, 1)
<1>1. PICK Q : Q = Pairs(H, n)
  OBVIOUS
<1>2. IsExactPowerOfTwo(m) <=> IsExactPowerOfTwo(k)
  BY ExactPowers
<1>3. ProofAt(H, m, n, 1) = ProofAt(Q, k, h, 1)
  <2>1. m \in 1..n
    OBVIOUS
  <2> QED BY <1>1, <2>1, ProofOfPairs
<1>4. Root(H, m, 1) = Root(Q, k, 1)
  <2>1. k \in Nat \ {0} /\ m = 2 * k /\ 2 * 1 + m <= n + 2 /\ 1 \in Nat \ {0} /\ 2 * 1 - 1 = 1
    OBVIOUS
  <2> QED BY <1>1, <2>1, Pairing
<1> QED BY <1>1, <1>2, <1>3, <1>4 DEF Led

Starts(P, f, s, old, new) ==
  /\ IsPath(P) /\ P # << >>
  /\ ConsistencyWalk(ConsistencyAt(PastFullSubtree(f, s), P[1], P[1]), Tail(P))
       = Both(0, 0, old, new)

LEMMA ConsistencyComplete ==
  \A m \in Nat \ {0} : \A H : \A n \in Nat : m < n =>
    Starts(Led(H, m, n), m - 1, n - 1, Root(H, m, 1), Root(H, n, 1))
<1> DEFINE Good == {m \in Nat : m # 0 => \A H : \A n \in Nat : m < n =>
                      Starts(Led(H, m, n), m - 1, n - 1, Root(H, m, 1), Root(H, n, 1))}
<1>1. ASSUME NEW m \in Nat, \A k \in Nat : k < m => k \in Good PROVE m \in Good
  <2>1. SUFFICES ASSUME m # 0, NEW H, NEW n \in Nat, m < n
                 PROVE  Starts(Led(H, m, n), m - 1, n - 1, Root(H, m, 1), Root(H, n, 1))
    OBVIOUS
  <2>0. m \in 1..(n - 1) /\ n \in Nat \ {0} /\ m \in 1..n
    BY <2>1
  <2>2. PICK f \in Nat, s \in Nat : f = m - 1 /\ s = n - 1
    BY <2>1
  <2>3. CASE m % 2 = 1
    <3>1. PICK P, p : P = Led(H, m, n) /\ p = PathAt(H, m, n, 1)
      OBVIOUS
    <3>2. P = First(H[m], p)
      BY <2>0, <2>3, <3>1, LedOdd
    <3>3. IsPath(p)
      BY <2>0, <3>1, PathAtIsPath
    <3>4. IsPath(P) /\ P # << >> /\ P[1] = H[m] /\ Tail(P) = p
      BY <3>2, <3>3, TailOfFirst
    <3>5. f % 2 = 0
      BY <2>2, <2>3
    <3>6. PastFullSubtree(f, s) = <<f, s>>
      BY <3>5, PastFullDef
    <3>7. ConsistencyWalk(Both(m - 1, n - 1, H[m], H[m]), PathAt(H, m, n, 1))
            = Both(0, 0, Root(H, m, 1), Root(H, n, 1))
      BY <2>0, ConsistencyAlongPath
    <3>8. ConsistencyAt(PastFullSubtree(f, s), P[1], P[1]) = Both(m - 1, n - 1, H[m], H[m])
      BY <2>2, <3>4, <3>6 DEF Both
    <3> QED BY <2>2, <3>1, <3>4, <3>7, <3>8 DEF Starts
  <2>4. CASE m % 2 = 0
    <3>1. PICK k \in Nat, h \in Nat : k = m \div 2 /\ h = (n + 1) \div 2
      OBVIOUS
    <3>2. k # 0 /\ k < m /\ k < h
      BY <2>1, <2>4, <3>1
    <3>3. PICK Q : Q = Pairs(H, n)
      OBVIOUS
    <3>4. Led(H, m, n) = Led(Q, k, h) /\ Root(H, m, 1) = Root(Q, k, 1)
      BY <2>0, <2>4, <3>1, <3>3, LedEven
    <3>5. Root(H, n, 1) = Root(Q, h, 1)
      BY <2>0, <3>1, <3>3, RootOfPairs
    <3>6. Starts(Led(Q, k, h), k - 1, h - 1, Root(Q, k, 1), Root(Q, h, 1))
      BY <1>1, <3>2
    <3>7. f % 2 = 1 /\ f \div 2 = k - 1 /\ s \div 2 = h - 1
      BY <2>1, <2>2, <2>4, <3>1
    <3>8. PastFullSubtree(f, s) = PastFullSubtree(k - 1, h - 1)
      <4>1. PastFullSubtree(f, s) = PastFullSubtree(f \div 2, s \div 2)
        BY <3>7, PastFullDef
      <4> QED BY <3>7, <4>1
    <3> QED BY <2>2, <3>4, <3>5, <3>6, <3>8 DEF Starts
  <2> QED BY <2>3, <2>4
<1> HIDE DEF Good
<1>2. \A m \in Nat : m \in Good
  BY <1>1, StrongInduct
<1> QED BY <1>2 DEF Good

-----------------------------------------------------------------------------
(***************************************************************************)
(* An entry in canonical form, from either order of its members.           *)
(***************************************************************************)
Sorting(p, members) ==
  \A i, j \in 1..Len(members) : i < j => ~(members[p[j]][1] < members[p[i]][1])

LEMMA CanonicalPair ==
  ASSUME NEW members, Len(members) = 2, NEW a \in 1..2, NEW b \in 1..2, a # b,
         members[a][1] = 1, members[b][1] = 2
  PROVE  CanonicalizeJSON(members) = [i \in 1..2 |-> members[IF i = 1 THEN a ELSE b]]
<1> DEFINE Sort(p) == p \in Bijection(1..2, 1..2) /\ Sorting(p, members)
           p0 == [i \in 1..2 |-> IF i = 1 THEN a ELSE b]
           order == CHOOSE p : Sort(p)
<1>1. p0 \in Bijection(1..2, 1..2)
  BY DEF Bijection, Injection, Surjection, IsInjective
<1>2. p0[1] = a /\ p0[2] = b /\ \A i \in 1..2 : i = 1 \/ i = 2
  OBVIOUS
<1>3. Sorting(p0, members)
  BY <1>2 DEF Sorting
<1>4. ASSUME NEW p, Sort(p) PROVE p[1] = a /\ p[2] = b
  <2>1. p \in [1..2 -> 1..2] /\ p[1] # p[2]
    BY <1>4 DEF Bijection, Injection, IsInjective
  <2>2. ~(members[p[2]][1] < members[p[1]][1])
    BY <1>4 DEF Sorting
  <2>3. p[1] \in 1..2 /\ p[2] \in 1..2
    BY <2>1
  <2>4. CASE p[1] = a
    BY <2>1, <2>3, <2>4
  <2>5. CASE p[1] = b
    <3>1. p[2] = a
      BY <2>1, <2>3, <2>5
    <3> QED BY <2>2, <2>5, <3>1
  <2> QED BY <2>3, <2>4, <2>5
<1>5. Sort(order)
  <2>1. Sort(p0)
    BY <1>1, <1>3
  <2> HIDE DEF Sort, p0
  <2> QED BY <2>1
<1>6. order[1] = a /\ order[2] = b
  BY <1>4, <1>5
<1>7. CanonicalizeJSON(members) = [i \in 1..2 |-> members[order[i]]]
  BY DEF CanonicalizeJSON, Sorting
<1> HIDE DEF order
<1>8. \A i \in 1..2 : order[i] = IF i = 1 THEN a ELSE b
  BY <1>2, <1>6
<1> QED BY <1>7, <1>8

LEMMA ObjectsAre ==
  ASSUME NEW i
  PROVE  /\ Len(Object(i)) = 2 /\ Object(i)[1] = <<1, i>> /\ Object(i)[2] = <<2, 0>>
         /\ Len(Copy(Object(i))) = 2 /\ Copy(Object(i))[1] = <<2, 0>>
         /\ Copy(Object(i))[2] = <<1, i>>
<1>1. Len(Object(i)) = 2 /\ Object(i)[1] = <<1, i>> /\ Object(i)[2] = <<2, 0>>
  BY DEF Object
<1>2. PICK e : e = Object(i)
  OBVIOUS
<1>3. Len(e) = 2 /\ e[1] = <<1, i>> /\ e[2] = <<2, 0>>
  BY <1>1, <1>2
<1>4. PICK f : f = Copy(e)
  OBVIOUS
<1>5. f = [j \in 1..2 |-> e[2 - j + 1]]
  BY <1>3, <1>4 DEF Copy, Reverse
<1>6. Len(f) = 2 /\ f[1] = e[2] /\ f[2] = e[1]
  BY <1>5
<1> QED BY <1>1, <1>2, <1>3, <1>4, <1>6

LEMMA CanonicalObject ==
  ASSUME NEW i
  PROVE  /\ CanonicalizeJSON(Copy(Object(i))) = CanonicalizeJSON(Object(i))
         /\ CanonicalizeJSON(Object(i))[1] = <<1, i>>
<1>1. PICK e, f : e = Object(i) /\ f = Copy(Object(i))
  OBVIOUS
<1>2. Len(e) = 2 /\ e[1] = <<1, i>> /\ e[2] = <<2, 0>> /\ e[1][1] = 1 /\ e[2][1] = 2
  BY <1>1, ObjectsAre
<1>3. Len(f) = 2 /\ f[1] = <<2, 0>> /\ f[2] = <<1, i>> /\ f[2][1] = 1 /\ f[1][1] = 2
  BY <1>1, ObjectsAre
<1>4. CanonicalizeJSON(e) = [j \in 1..2 |-> e[IF j = 1 THEN 1 ELSE 2]]
  <2>1. 1 \in 1..2 /\ 2 \in 1..2 /\ 1 # 2
    OBVIOUS
  <2> QED BY <1>2, <2>1, CanonicalPair
<1>5. CanonicalizeJSON(f) = [j \in 1..2 |-> f[IF j = 1 THEN 2 ELSE 1]]
  <2>1. 1 \in 1..2 /\ 2 \in 1..2 /\ 2 # 1
    OBVIOUS
  <2> QED BY <1>3, <2>1, CanonicalPair
<1>6. \A j \in 1..2 : f[IF j = 1 THEN 2 ELSE 1] = e[IF j = 1 THEN 1 ELSE 2]
  BY <1>2, <1>3
<1>7. CanonicalizeJSON(f) = CanonicalizeJSON(e)
  BY <1>4, <1>5, <1>6
<1>8. 1 \in 1..2
  OBVIOUS
<1>9. CanonicalizeJSON(e)[1] = e[1]
  BY <1>4, <1>8
<1> QED BY <1>1, <1>2, <1>7, <1>9

(***************************************************************************)
(* Leaf hashes tell objects apart, and the copies of one object never.     *)
(***************************************************************************)
LEMMA LeafHashesTell ==
  ASSUME NEW i, NEW k, LeafHash(Object(i)) = LeafHash(Copy(Object(k)))
                       \/ LeafHash(Object(i)) = LeafHash(Object(k))
  PROVE  Object(i) = Object(k)
<1>1. LeafHash(Object(i)) = LeafHash(Object(k))
  BY CanonicalObject DEF LeafHash
<1>2. CanonicalizeJSON(Object(i)) = CanonicalizeJSON(Object(k))
  BY <1>1 DEF LeafHash, HashLeaf
<1>3. <<1, i>> = <<1, k>>
  BY <1>2, CanonicalObject
<1> QED BY <1>3

Objects == {Object(k) : k \in Nat}

LEMMA LogsAre ==
  ASSUME NEW n \in Nat, NEW D \in LogsOf(n)
  PROVE  D \in Seq(Objects) /\ Len(D) = n /\ \A i \in 1..n : D[i] \in Objects
<1>1. PICK k \in 0..n : D = [i \in 1..n |-> Object(IF i = k THEN 0 ELSE i)]
  BY DEF LogsOf
<1>2. \A i \in 1..n : Object(IF i = k THEN 0 ELSE i) \in Objects
  BY DEF Objects
<1>3. D \in [1..n -> Objects]
  BY <1>1, <1>2
<1> QED BY <1>3

LEMMA AllLogs ==
  ASSUME NEW D \in Logs
  PROVE  /\ Len(D) \in Nat \ {0} /\ D \in LogsOf(Len(D)) /\ D \in Seq(Objects)
         /\ \A i \in 1..Len(D) : D[i] \in Objects
<1>1. PICK n \in 1..MaxTree : D \in LogsOf(n)
  BY DEF Logs
<1>2. n \in Nat \ {0}
  BY MaxTreeAssumption
<1> QED BY <1>1, <1>2, LogsAre

(***************************************************************************)
(* The root of a log is the root over its leaf hashes.                     *)
(***************************************************************************)
LEMMA RootOfLog ==
  ASSUME NEW D, NEW n \in Nat, Len(D) = n
  PROVE  MerkleRootFromEntries(D) = IF n = 0 THEN EmptyRoot ELSE Root(LeafHashes(D), n, 1)
<1>1. PICK E : E = [i \in 1..n |-> CanonicalizeJSON(D[i])]
  OBVIOUS
<1>2. Len(E) = n /\ \A i \in 1..n : HashLeaf(E[i]) = LeafHash(D[i])
  BY <1>1 DEF LeafHash
<1>3. PICK H : H = [i \in 1..n |-> HashLeaf(E[i])]
  OBVIOUS
<1>4. H = LeafHashes(D)
  <2> HIDE <1>1
  <2> QED BY <1>2, <1>3 DEF LeafHashes
<1>5. MerkleRootFromEntries(D) = MerkleRootFromCanonicalEntries(E)
  BY <1>1 DEF MerkleRootFromEntries
<1>6. MerkleRootFromCanonicalEntries(E) = TreeHash(H, n)
  BY <1>2, <1>3 DEF MerkleRootFromCanonicalEntries
<1> QED BY <1>4, <1>5, <1>6 DEF TreeHash, Root

-----------------------------------------------------------------------------
(***************************************************************************)
(* What a verdict means, for any log, any leaf hash and any path.          *)
(***************************************************************************)
Std(hash) == [enc |-> "std", hash |-> hash]

LEMMA InclusionVerdict ==
  ASSUME NEW n \in Nat \ {0}, NEW i \in 0..(n - 1), NEW h, NEW path, NEW root
  PROVE  VerifyInclusionProof(i, n, h, path, Std(root)) = "true"
           <=> Reaches(At(i, n - 1, h), path, root)
<1>1. PICK end : end = InclusionWalk(InclusionAt(<<i, n - 1>>, h), path)
  OBVIOUS
<1>2. VerifyInclusionProof(i, n, h, path, Std(root))
        = IF ~end.stop /\ end.sn = 0 /\ Std(root) = [enc |-> "std", hash |-> end.hash]
            THEN "true" ELSE "false"
  BY <1>1 DEF VerifyInclusionProof
<1>3. Std(root) = [enc |-> "std", hash |-> end.hash] <=> end.hash = root
  <2>1. Std(root).hash = root /\ [enc |-> "std", hash |-> end.hash].hash = end.hash
    BY DEF Std
  <2> QED BY <2>1 DEF Std
<1>4. Reaches(At(i, n - 1, h), path, root) <=> ~end.stop /\ end.sn = 0 /\ end.hash = root
  BY <1>1 DEF Reaches, At
<1> QED BY <1>2, <1>3, <1>4

(***************************************************************************)
(* Whatever path it carries, an inclusion proof that VerifyInclusionProof  *)
(* accepts for the root over n leaf hashes is of the leaf hash at that     *)
(* index (pkg/hcs27/merkle.go:82).                                         *)
(***************************************************************************)
THEOREM InclusionMeans ==
  ASSUME NEW n \in Nat \ {0}, NEW i \in 0..(n - 1), NEW h, NEW path, IsPath(path), NEW H,
         VerifyInclusionProof(i, n, h, path, Std(Root(H, n, 1))) = "true"
  PROVE  H[i + 1] = h
<1>1. Reaches(At(i, n - 1, h), path, Root(H, n, 1))
  BY InclusionVerdict
<1> QED BY <1>1, InclusionSound

LEMMA InclusionVerifies ==
  ASSUME NEW n \in Nat \ {0}, NEW i \in 0..(n - 1), NEW H
  PROVE  VerifyInclusionProof(i, n, H[i + 1], PathAt(H, i + 1, n, 1), Std(Root(H, n, 1))) = "true"
<1>1. PICK leaf \in 1..n : leaf = i + 1 /\ leaf - 1 = i
  OBVIOUS
<1>2. InclusionWalk(At(leaf - 1, n - 1, H[leaf]), PathAt(H, leaf, n, 1)) = At(0, 0, Root(H, n, 1))
  BY InclusionComplete
<1>3. PICK w : w = At(0, 0, Root(H, n, 1))
  OBVIOUS
<1>4. w.stop = FALSE /\ w.sn = 0 /\ w.hash = Root(H, n, 1)
  BY <1>3 DEF At, InclusionAt
<1>5. Reaches(At(i, n - 1, H[i + 1]), PathAt(H, i + 1, n, 1), Root(H, n, 1))
  BY <1>1, <1>2, <1>3, <1>4 DEF Reaches
<1> QED BY <1>5, InclusionVerdict

LEMMA ConsistencyVerdict ==
  ASSUME NEW n \in Nat, NEW m \in 1..(n - 1), NEW old, NEW new, NEW path, NEW P,
         P = IF IsExactPowerOfTwo(m) THEN First(old, path) ELSE path
  PROVE  VerifyConsistencyProof(m, n, Std(old), Std(new), path) = "true"
           <=> /\ path # << >>
               /\ BothReach(ConsistencyAt(PastFullSubtree(m - 1, n - 1), P[1], P[1]), Tail(P),
                            old, new)
<1>0. m # 0 /\ m # n /\ ~(m > n)
  OBVIOUS
<1>1. PICK end :
        end = ConsistencyWalk(ConsistencyAt(PastFullSubtree(m - 1, n - 1), P[1], P[1]), Tail(P))
  OBVIOUS
<1>2. P = IF IsExactPowerOfTwo(m) THEN <<Std(old).hash>> \o path ELSE path
  BY DEF Std, First
<1>3. VerifyConsistencyProof(m, n, Std(old), Std(new), path)
        = IF path = << >> THEN "false"
          ELSE IF ~end.stop /\ end.sn = 0 /\ RootsReached(end, Std(old), Std(new))
            THEN "true" ELSE "false"
  BY <1>0, <1>1, <1>2 DEF VerifyConsistencyProof
<1>4. RootsReached(end, Std(old), Std(new)) <=> end.fr = old /\ end.sr = new
  <2>1. \A x : Std(x).hash = x
    BY DEF Std
  <2>2. RootsReached(end, Std(old), Std(new)) <=> Std(old) = Std(end.fr) /\ Std(new) = Std(end.sr)
    BY DEF RootsReached, Std
  <2> QED BY <2>1, <2>2
<1>5. BothReach(ConsistencyAt(PastFullSubtree(m - 1, n - 1), P[1], P[1]), Tail(P), old, new)
        <=> ~end.stop /\ end.sn = 0 /\ end.fr = old /\ end.sr = new
  BY <1>1 DEF BothReach
<1> QED BY <1>3, <1>4, <1>5

(***************************************************************************)
(* Whatever path it carries, a consistency proof that                      *)
(* VerifyConsistencyProof accepts for the roots over m and n leaf hashes   *)
(* means that the m hashes are the first of the n                          *)
(* (pkg/hcs27/merkle.go:167).                                              *)
(***************************************************************************)
THEOREM ConsistencyMeans ==
  ASSUME NEW n \in Nat, NEW m \in 1..(n - 1), NEW A, NEW B, NEW path, IsPath(path),
         VerifyConsistencyProof(m, n, Std(Root(A, m, 1)), Std(Root(B, n, 1)), path) = "true"
  PROVE  \A j \in 1..m : A[j] = B[j]
<1>1. PICK P : P = IF IsExactPowerOfTwo(m) THEN First(Root(A, m, 1), path) ELSE path
  OBVIOUS
<1>2. /\ path # << >>
      /\ BothReach(ConsistencyAt(PastFullSubtree(m - 1, n - 1), P[1], P[1]), Tail(P),
                   Root(A, m, 1), Root(B, n, 1))
  BY <1>1, ConsistencyVerdict
<1>3. IsPath(P) /\ P # << >>
  <2>1. CASE IsExactPowerOfTwo(m)
    BY <1>1, <2>1, TailOfFirst
  <2>2. CASE ~IsExactPowerOfTwo(m)
    BY <1>1, <1>2, <2>2
  <2> QED BY <2>1, <2>2
<1>4. IsPath(Tail(P))
  <2>1. PICK T : P \in Seq(T)
    BY <1>3 DEF IsPath
  <2>2. Tail(P) \in Seq(T)
    BY <1>3, <2>1, HeadTailProperties
  <2> QED BY <2>2 DEF IsPath
<1>5. m \in 1..n
  OBVIOUS
<1> QED BY <1>2, <1>4, <1>5, ConsistencySound

LEMMA ConsistencyVerifies ==
  ASSUME NEW n \in Nat, NEW m \in 1..(n - 1), NEW H
  PROVE  VerifyConsistencyProof(m, n, Std(Root(H, m, 1)), Std(Root(H, n, 1)), ProofAt(H, m, n, 1))
           = "true"
<1>1. PICK P : P = Led(H, m, n)
  OBVIOUS
<1>2. P = IF IsExactPowerOfTwo(m) THEN First(Root(H, m, 1), ProofAt(H, m, n, 1))
                                  ELSE ProofAt(H, m, n, 1)
  BY <1>1 DEF Led
<1>3. m \in Nat \ {0} /\ m < n
  OBVIOUS
<1>4. Starts(P, m - 1, n - 1, Root(H, m, 1), Root(H, n, 1))
  BY <1>1, <1>3, ConsistencyComplete
<1>5. PICK w : w = Both(0, 0, Root(H, m, 1), Root(H, n, 1))
  OBVIOUS
<1>6. w.stop = FALSE /\ w.sn = 0 /\ w.fr = Root(H, m, 1) /\ w.sr = Root(H, n, 1)
  BY <1>5 DEF Both, ConsistencyAt
<1>7. BothReach(ConsistencyAt(PastFullSubtree(m - 1, n - 1), P[1], P[1]), Tail(P),
                Root(H, m, 1), Root(H, n, 1))
  BY <1>4, <1>5, <1>6 DEF Starts, BothReach
<1>8. ProofAt(H, m, n, 1) # << >>
  BY ProofIsNotEmpty
<1> QED BY <1>2, <1>7, <1>8, ConsistencyVerdict

-----------------------------------------------------------------------------
(***************************************************************************)
(* The proof objects.                                                      *)
(***************************************************************************)
LEMMA Normalized ==
  ASSUME NEW D, NEW enc \in {"std", "url"}
  PROVE  NormalizeProofRootHash(RootOf(D, enc)) = Std(MerkleRootFromEntries(D))
<1>1. PICK h : h = MerkleRootFromEntries(D)
  OBVIOUS
<1>2. RootOf(D, enc) = [enc |-> enc, hash |-> h]
  BY <1>1 DEF RootOf
<1>3. NormalizeProofRootHash([enc |-> enc, hash |-> h]) = [enc |-> "std", hash |-> h]
  BY DEF NormalizeProofRootHash
<1> QED BY <1>1, <1>2, <1>3 DEF Std

InclusionObject(v, canonical, i, n, h, path, root) ==
  [treeVersion |-> v, numbers |-> Numbers(canonical), leafIndex |-> i,
   treeSize |-> n, leafHash |-> h, path |-> path, root |-> root]

LEMMA InclusionObjects ==
  ASSUME NEW v, NEW canonical \in BOOLEAN, NEW i, NEW n, NEW h, NEW path, NEW D,
         NEW enc \in {"std", "url", "garbled"}
  PROVE  /\ (v # 1 \/ ~canonical \/ enc = "garbled") =>
              VerifyInclusionProofObject(
                  InclusionObject(v, canonical, i, n, h, path, RootOf(D, enc)))
                = "error"
         /\ ~(v # 1 \/ ~canonical \/ enc = "garbled") =>
              VerifyInclusionProofObject(
                  InclusionObject(v, canonical, i, n, h, path, RootOf(D, enc)))
                = VerifyInclusionProof(i, n, h, path, Std(MerkleRootFromEntries(D)))
<1>1. PICK p, root : root = RootOf(D, enc) /\ p = InclusionObject(v, canonical, i, n, h, path, root)
  OBVIOUS
<1>2. /\ p.treeVersion = v /\ p.leafIndex = i /\ p.treeSize = n /\ p.leafHash = h
      /\ p.path = path /\ p.root = root
  BY <1>1 DEF InclusionObject
<1>3. ParseCanonicalUint64(p.numbers) = canonical
  BY <1>1 DEF InclusionObject, Numbers, ParseCanonicalUint64
<1>4. root.enc = enc
  BY <1>1 DEF RootOf
<1>5. enc # "garbled" => NormalizeProofRootHash(root) = Std(MerkleRootFromEntries(D))
  BY <1>1, Normalized
<1> QED BY <1>1, <1>2, <1>3, <1>4, <1>5 DEF VerifyInclusionProofObject

ConsistencyObject(m, n, old, new, path) ==
  [treeVersion |-> 1, numbers |-> Numbers(TRUE), oldTreeSize |-> m,
   newTreeSize |-> n, oldRoot |-> old, root |-> new, path |-> path]

LEMMA ConsistencyObjects ==
  ASSUME NEW m, NEW n, NEW old, NEW new, NEW enc \in {"std", "url"}, NEW path
  PROVE  /\ m = 0 =>
              VerifyConsistencyProofObject(
                  ConsistencyObject(m, n, RootOf(old, "std"), RootOf(new, enc), path)) = "true"
         /\ m # 0 =>
              VerifyConsistencyProofObject(
                  ConsistencyObject(m, n, RootOf(old, "std"), RootOf(new, enc), path))
                = VerifyConsistencyProof(m, n, Std(MerkleRootFromEntries(old)),
                                         Std(MerkleRootFromEntries(new)), path)
<1>1. PICK p, r, s : /\ r = RootOf(old, "std") /\ s = RootOf(new, enc)
                     /\ p = ConsistencyObject(m, n, r, s, path)
  OBVIOUS
<1>2. /\ p.treeVersion = 1 /\ p.oldTreeSize = m /\ p.newTreeSize = n /\ p.oldRoot = r
      /\ p.path = path /\ p.root = s
  BY <1>1 DEF ConsistencyObject
<1>3. ParseCanonicalUint64(p.numbers) = TRUE
  BY <1>1 DEF ConsistencyObject, Numbers, ParseCanonicalUint64
<1>4. r.enc = "std" /\ s.enc = enc /\ r.enc # "garbled" /\ s.enc # "garbled"
  BY <1>1 DEF RootOf
<1>5. NormalizeProofRootHash(r) = Std(MerkleRootFromEntries(old))
  BY <1>1, Normalized
<1>6. NormalizeProofRootHash(s) = Std(MerkleRootFromEntries(new))
  BY <1>1, Normalized
<1>7. CASE m = 0
  <2>1. VerifyConsistencyProof(0, n, r, s, path) = "true"
    BY DEF VerifyConsistencyProof
  <2> QED BY <1>1, <1>2, <1>3, <1>7, <2>1 DEF VerifyConsistencyProofObject
<1>8. CASE m # 0
  BY <1>1, <1>2, <1>3, <1>4, <1>5, <1>6, <1>8 DEF VerifyConsistencyProofObject
<1> QED BY <1>7, <1>8

-----------------------------------------------------------------------------
(***************************************************************************)
(* What ProofsAreRight says of one verification.                           *)
(***************************************************************************)
Right(a) ==
  /\ a.kind # "none" /\ a.verdict = "true" =>
       IF a.kind = "consistency" THEN IsPrefix(a.old, a.log)
                                 ELSE a.log[a.index + 1] = a.entry
  /\ a.kind = "inclusion" /\ a.honest /\ a.wellFormed => a.verdict = "true"
  /\ a.kind = "consistency" /\ a.honest => a.verdict = "true"

LEMMA PathsInLogs ==
  ASSUME NEW D \in Logs, NEW n, n = Len(D), NEW m \in 0..n
  PROVE  /\ InclusionPath(m, D) = PathAt(LeafHashes(D), m + 1, n, 1)
         /\ ConsistencyPath(m, D) = ProofAt(LeafHashes(D), m, n, 1)
         /\ IsPath(InclusionPath(m, D)) /\ IsPath(ConsistencyPath(m, D))
<1>1. n \in Nat \ {0} /\ m \in Nat /\ m + 1 \in Nat /\ 1 \in Nat
  BY AllLogs
<1>2. InclusionPath(m, D) = PathAt(LeafHashes(D), m + 1, n, 1)
  BY DEF InclusionPath, PathAt
<1>3. ConsistencyPath(m, D) = ProofAt(LeafHashes(D), m, n, 1)
  BY DEF ConsistencyPath, ProofAt
<1> QED BY <1>1, <1>2, <1>3, PathAtIsPath, ProofAtIsPath

LEMMA EntryIs ==
  ASSUME NEW D \in Logs, NEW i \in 1..Len(D)
  PROVE  /\ D[i] \in Objects
         /\ LeafHashes(D)[i] = LeafHash(D[i])
         /\ LeafHash(Copy(D[i])) = LeafHash(D[i])
<1>1. D[i] \in Objects
  BY AllLogs
<1>2. PICK k \in Nat : D[i] = Object(k)
  BY <1>1 DEF Objects
<1>3. LeafHash(Copy(D[i])) = LeafHash(D[i])
  BY <1>2, CanonicalObject DEF LeafHash
<1> QED BY <1>1, <1>3 DEF LeafHashes

LEMMA SameLeafSameEntry ==
  ASSUME NEW a \in Objects, NEW b \in Objects, LeafHash(a) = LeafHash(b)
  PROVE  a = b
BY LeafHashesTell DEF Objects

Included(D, i, j, source, v, canonical, enc) ==
  /\ (v = 1 /\ canonical) \/ i = j
  /\ audit' = [kind |-> "inclusion", index |-> i, log |-> D,
               entry |-> source[i + 1], honest |-> i = j /\ source = D,
               wellFormed |-> v = 1 /\ canonical /\ enc # "garbled",
               verdict |-> VerifyInclusionProofObject(
                 InclusionObject(v, canonical, i, Len(D), LeafHash(Copy(source[i + 1])),
                                 InclusionPath(j, source), RootOf(D, enc)))]

LEMMA InclusionRight ==
  ASSUME AuditInclusion
  PROVE  Right(audit')
<1>1. \E D \in Logs : \E i, j \in 0..(Len(D) - 1) :
        \E source \in {D} \cup LogsOf(Len(D)), v \in {1, 2}, canonical \in BOOLEAN,
           enc \in {"std", "url", "garbled"} : Included(D, i, j, source, v, canonical, enc)
  BY Zenon DEF AuditInclusion, Included, InclusionObject
<1>a. PICK D \in Logs : \E i, j \in 0..(Len(D) - 1) :
        \E source \in {D} \cup LogsOf(Len(D)), v \in {1, 2}, canonical \in BOOLEAN,
           enc \in {"std", "url", "garbled"} : Included(D, i, j, source, v, canonical, enc)
  BY <1>1
<1>2. PICK n \in Nat \ {0} : n = Len(D)
  BY AllLogs
<1>3. PICK i \in 0..(n - 1), j \in 0..(n - 1), source \in {D} \cup LogsOf(n), v \in {1, 2},
           canonical \in BOOLEAN, enc \in {"std", "url", "garbled"} :
             Included(D, i, j, source, v, canonical, enc)
  BY <1>a, <1>2
<1>4. source \in Logs /\ Len(source) = n
  <2>1. D \in LogsOf(n)
    BY <1>2, AllLogs
  <2>2. source \in LogsOf(n)
    BY <2>1
  <2>3. n \in 1..MaxTree
    <3>1. PICK k \in 1..MaxTree : D \in LogsOf(k)
      BY DEF Logs
    <3>2. k \in Nat
      BY MaxTreeAssumption
    <3>3. Len(D) = k
      BY <3>1, <3>2, LogsAre
    <3> QED BY <1>2, <3>3
  <2> QED BY <2>2, <2>3, LogsAre DEF Logs
<1>5. PICK H, h, path : /\ H = LeafHashes(D) /\ h = LeafHash(Copy(source[i + 1]))
                        /\ path = InclusionPath(j, source)
  OBVIOUS
<1>6. IsPath(path) /\ path = PathAt(LeafHashes(source), j + 1, n, 1)
  <2>1. j \in 0..n
    OBVIOUS
  <2> QED BY <1>4, <1>5, <2>1, PathsInLogs
<1>7. MerkleRootFromEntries(D) = Root(H, n, 1)
  BY <1>2, <1>5, RootOfLog
<1>8. PICK verdict : verdict = VerifyInclusionProofObject(
                       InclusionObject(v, canonical, i, n, h, path, RootOf(D, enc)))
  OBVIOUS
<1>9. /\ ~(v = 1 /\ canonical /\ enc # "garbled") => verdict = "error"
      /\ (v = 1 /\ canonical /\ enc # "garbled") =>
           verdict = VerifyInclusionProof(i, n, h, path, Std(Root(H, n, 1)))
  BY <1>7, <1>8, InclusionObjects
<1>10. PICK a : a = audit'
  OBVIOUS
<1>11. /\ a.kind = "inclusion" /\ a.index = i /\ a.log = D /\ a.entry = source[i + 1]
       /\ a.verdict = verdict
       /\ a.honest <=> i = j /\ source = D
       /\ a.wellFormed <=> v = 1 /\ canonical /\ enc # "garbled"
  BY <1>2, <1>3, <1>5, <1>8, <1>10 DEF Included
<1>12. i + 1 \in 1..n
  OBVIOUS
<1>13. ASSUME verdict = "true" PROVE D[i + 1] = source[i + 1]
  <2>1. VerifyInclusionProof(i, n, h, path, Std(Root(H, n, 1))) = "true"
    BY <1>9, <1>13
  <2>2. H[i + 1] = h
    BY <1>6, <2>1, InclusionMeans
  <2>3. /\ LeafHash(D[i + 1]) = LeafHash(source[i + 1])
        /\ D[i + 1] \in Objects /\ source[i + 1] \in Objects
    BY <1>2, <1>4, <1>5, <1>12, <2>2, EntryIs
  <2> QED BY <2>3, SameLeafSameEntry
<1>14. ASSUME i = j, source = D, v = 1 /\ canonical /\ enc # "garbled" PROVE verdict = "true"
  <2>1. h = H[i + 1]
    BY <1>2, <1>5, <1>12, <1>14, EntryIs
  <2>2. path = PathAt(H, i + 1, n, 1)
    BY <1>5, <1>6, <1>14
  <2> QED BY <1>9, <1>14, <2>1, <2>2, InclusionVerifies
<1> QED BY <1>10, <1>11, <1>13, <1>14 DEF Right

(***************************************************************************)
(* A prefix, entry by entry.                                               *)
(***************************************************************************)
LEMMA PrefixIs ==
  ASSUME NEW T, NEW s \in Seq(T), NEW t \in Seq(T)
  PROVE  IsPrefix(s, t) <=> Len(s) <= Len(t) /\ \A i \in 1..Len(s) : s[i] = t[i]
<1>1. PICK m \in Nat, n \in Nat : m = Len(s) /\ n = Len(t)
  OBVIOUS
<1>2. SUFFICES ASSUME m <= n PROVE SubSeq(s, 1, m) = SubSeq(t, 1, m) <=> \A i \in 1..m : s[i] = t[i]
  BY <1>1 DEF IsPrefix
<1>3. PICK a, b : a = SubSeq(s, 1, m) /\ b = SubSeq(t, 1, m)
  OBVIOUS
<1>4. (\A i \in 1..m : s[i] \in T) /\ (\A i \in 1..m : t[i] \in T)
  BY <1>1, <1>2
<1>5. m \in Int /\ 1 \in Int /\ m - 1 + 1 = m /\ (IF 1 <= m THEN m - 1 + 1 ELSE 0) = m
  OBVIOUS
<1>6. a \in Seq(T) /\ Len(a) = m /\ \A i \in 1..m : a[i] = s[i]
  BY <1>3, <1>4, <1>5, SubSeqProperties
<1>7. b \in Seq(T) /\ Len(b) = m /\ \A i \in 1..m : b[i] = t[i]
  BY <1>3, <1>4, <1>5, SubSeqProperties
<1>8. (\A i \in 1..m : s[i] = t[i]) => a = b
  <2>1. SUFFICES ASSUME \A i \in 1..m : s[i] = t[i] PROVE a = b
    OBVIOUS
  <2>2. Len(a) = Len(b) /\ \A i \in 1..Len(a) : a[i] = b[i]
    BY <1>6, <1>7, <2>1
  <2> QED BY <1>6, <1>7, <2>2, SeqEqual
<1> QED BY <1>3, <1>6, <1>7, <1>8

Compared(old, new, source, m, enc) ==
  /\ m \in {0, Len(old), Len(old) - 1}
  /\ audit' = [kind |-> "consistency", old |-> old, log |-> new,
               honest |-> m = Len(old) /\ source = new /\ IsPrefix(old, new),
               verdict |-> VerifyConsistencyProofObject(
                 ConsistencyObject(Len(old), Len(new), RootOf(old, "std"), RootOf(new, enc),
                                   IF m = 0 THEN << >> ELSE ConsistencyPath(m, source)))]

(***************************************************************************)
(* The verdict on two logs.                                                *)
(***************************************************************************)
LEMMA VerdictOnLogs ==
  ASSUME NEW old \in Logs, NEW new \in Logs, NEW path, IsPath(path)
  PROVE  /\ VerifyConsistencyProof(Len(old), Len(new), Std(MerkleRootFromEntries(old)),
                                   Std(MerkleRootFromEntries(new)), path) = "true"
              => IsPrefix(old, new)
         /\ IsPrefix(old, new) /\ path = ConsistencyPath(Len(old), new) =>
              VerifyConsistencyProof(Len(old), Len(new), Std(MerkleRootFromEntries(old)),
                                     Std(MerkleRootFromEntries(new)), path) = "true"
<1>1. PICK m \in Nat \ {0}, n \in Nat \ {0} : m = Len(old) /\ n = Len(new)
  BY AllLogs
<1>2. PICK A, B : A = LeafHashes(old) /\ B = LeafHashes(new)
  OBVIOUS
<1>3. PICK r, s : r = Std(Root(A, m, 1)) /\ s = Std(Root(B, n, 1))
  OBVIOUS
<1>4. MerkleRootFromEntries(old) = Root(A, m, 1) /\ MerkleRootFromEntries(new) = Root(B, n, 1)
  BY <1>1, <1>2, RootOfLog
<1>5. old \in Seq(Objects) /\ new \in Seq(Objects)
  BY AllLogs
<1>6. ASSUME m <= n
      PROVE  IsPrefix(old, new) <=> \A i \in 1..m : A[i] = B[i]
  <2>1. \A i \in 1..m : A[i] = LeafHash(old[i]) /\ B[i] = LeafHash(new[i])
                        /\ old[i] \in Objects /\ new[i] \in Objects
    BY <1>1, <1>2, <1>6, EntryIs
  <2>2. \A i \in 1..m : A[i] = B[i] <=> old[i] = new[i]
    BY <2>1, SameLeafSameEntry
  <2> QED BY <1>1, <1>5, <1>6, <2>2, PrefixIs
<1>7. IsPrefix(old, new) => m <= n
  BY <1>1 DEF IsPrefix
<1>8. SUFFICES /\ VerifyConsistencyProof(m, n, r, s, path) = "true" => IsPrefix(old, new)
               /\ IsPrefix(old, new) /\ path = ConsistencyPath(m, new) =>
                    VerifyConsistencyProof(m, n, r, s, path) = "true"
  BY <1>1, <1>3, <1>4
<1>9. CASE m > n
  <2>1. VerifyConsistencyProof(m, n, r, s, path) = "false"
    BY <1>9 DEF VerifyConsistencyProof
  <2> QED BY <1>7, <1>9, <2>1
<1>10. CASE m = n
  <2>1. VerifyConsistencyProof(m, n, r, s, path) = IF r = s /\ path = << >> THEN "true" ELSE "false"
    BY <1>10 DEF VerifyConsistencyProof
  <2>2. r = s <=> Root(A, m, 1) = Root(B, m, 1)
    <3>1. r.hash = Root(A, m, 1) /\ s.hash = Root(B, n, 1)
      BY <1>3 DEF Std
    <3> QED BY <1>3, <1>10, <3>1
  <2>3. r = s <=> \A i \in 1..m : A[i] = B[i]
    <3>1. ASSUME Root(A, m, 1) = Root(B, m, 1) PROVE \A i \in 1..m : A[i] = B[i]
      BY <3>1, RootInjective
    <3>2. ASSUME \A i \in 1..m : A[i] = B[i] PROVE Root(A, m, 1) = Root(B, m, 1)
      <4>1. \A i \in 1..(1 + m - 1) : A[i] = B[i]
        BY <3>2
      <4> QED BY <4>1, RootAgrees
    <3> QED BY <2>2, <3>1, <3>2
  <2>4. ConsistencyPath(m, new) = << >>
    <3>1. ConsistencyPath(m, new) = ProofAt(B, m, n, 1)
      <4>1. m \in 0..n
        BY <1>10
      <4> QED BY <1>1, <1>2, <4>1, PathsInLogs
    <3>2. 1 + n = m + 1 /\ m \in Nat /\ 1 \in Nat
      BY <1>10
    <3> QED BY <3>1, <3>2, ProofAtWhole
  <2> QED BY <1>6, <1>10, <2>1, <2>3, <2>4
<1>11. CASE m < n
  <2>1. m \in 1..(n - 1) /\ n \in Nat /\ m \in 0..n
    BY <1>11
  <2>2. ASSUME VerifyConsistencyProof(m, n, r, s, path) = "true" PROVE IsPrefix(old, new)
    <3>1. \A i \in 1..m : A[i] = B[i]
      BY <1>3, <2>1, <2>2, ConsistencyMeans
    <3> QED BY <1>6, <1>11, <3>1
  <2>3. ASSUME IsPrefix(old, new), path = ConsistencyPath(m, new)
        PROVE  VerifyConsistencyProof(m, n, r, s, path) = "true"
    <3>1. path = ProofAt(B, m, n, 1)
      BY <1>1, <1>2, <2>1, <2>3, PathsInLogs
    <3>2. \A i \in 1..(1 + m - 1) : A[i] = B[i]
      BY <1>6, <1>11, <2>3
    <3>3. Root(A, m, 1) = Root(B, m, 1)
      BY <3>2, RootAgrees
    <3> QED BY <1>3, <2>1, <3>1, <3>3, ConsistencyVerifies
  <2> QED BY <2>2, <2>3
<1> QED BY <1>9, <1>10, <1>11

LEMMA ConsistencyRight ==
  ASSUME AuditConsistency
  PROVE  Right(audit')
<1>1. \E old \in Logs \cup {<< >>}, new \in Logs :
        \E source \in {new} \cup (IF Len(old) < Len(new) THEN LogsOf(Len(new)) ELSE {}),
           m \in 0..Len(new), enc \in {"std", "url"} : Compared(old, new, source, m, enc)
  BY Zenon DEF AuditConsistency, Compared, ConsistencyObject
<1>2. PICK old \in Logs \cup {<< >>}, new \in Logs :
        \E source \in {new} \cup (IF Len(old) < Len(new) THEN LogsOf(Len(new)) ELSE {}),
           m \in 0..Len(new), enc \in {"std", "url"} : Compared(old, new, source, m, enc)
  BY <1>1
<1>3. PICK n \in Nat \ {0} : n = Len(new) /\ new \in LogsOf(n) /\ new \in Seq(Objects)
  BY AllLogs
<1>4. PICK source \in LogsOf(n), m \in 0..n, enc \in {"std", "url"} :
        Compared(old, new, source, m, enc)
  BY <1>2, <1>3
<1>5. source \in Logs /\ Len(source) = n
  <2>1. n \in 1..MaxTree
    <3>1. PICK k \in 1..MaxTree : new \in LogsOf(k)
      BY DEF Logs
    <3>2. k \in Nat
      BY MaxTreeAssumption
    <3>3. Len(new) = k
      BY <3>1, <3>2, LogsAre
    <3> QED BY <1>3, <3>3
  <2> QED BY <2>1, LogsAre DEF Logs
<1>6. PICK path : path = IF m = 0 THEN << >> ELSE ConsistencyPath(m, source)
  OBVIOUS
<1>7. IsPath(path)
  <2>1. << >> \in Seq({})
    OBVIOUS
  <2>2. IsPath(<< >>)
    BY <2>1 DEF IsPath
  <2>3. IsPath(ConsistencyPath(m, source))
    BY <1>5, PathsInLogs
  <2> QED BY <1>6, <2>2, <2>3
<1>8. PICK verdict : verdict = VerifyConsistencyProofObject(
                       ConsistencyObject(Len(old), Len(new), RootOf(old, "std"),
                                         RootOf(new, enc), path))
  OBVIOUS
<1>9. /\ Len(old) = 0 => verdict = "true"
      /\ Len(old) # 0 =>
           verdict = VerifyConsistencyProof(Len(old), Len(new), Std(MerkleRootFromEntries(old)),
                                            Std(MerkleRootFromEntries(new)), path)
  BY <1>4, <1>8, ConsistencyObjects
<1>10. PICK a : a = audit'
  OBVIOUS
<1>11. /\ a.kind = "consistency" /\ a.old = old /\ a.log = new /\ a.verdict = verdict
       /\ a.honest <=> m = Len(old) /\ source = new /\ IsPrefix(old, new)
  BY <1>4, <1>6, <1>8, <1>10 DEF Compared
<1>12. CASE old = << >>
  <2>1. verdict = "true"
    BY <1>9, <1>12
  <2>2. IsPrefix(old, new)
    <3>1. old \in Seq(Objects) /\ Len(old) = 0
      BY <1>12
    <3>2. Len(old) <= Len(new) /\ \A i \in 1..Len(old) : old[i] = new[i]
      BY <1>3, <3>1
    <3> QED BY <1>3, <3>1, <3>2, PrefixIs
  <2> QED BY <1>10, <1>11, <2>1, <2>2 DEF Right
<1>13. CASE old \in Logs
  <2>1. Len(old) # 0
    BY <1>13, AllLogs
  <2>2. verdict = "true" => IsPrefix(old, new)
    BY <1>7, <1>9, <1>13, <2>1, VerdictOnLogs
  <2>3. ASSUME m = Len(old), source = new, IsPrefix(old, new) PROVE verdict = "true"
    <3>1. path = ConsistencyPath(Len(old), new)
      BY <1>6, <2>1, <2>3
    <3> QED BY <1>7, <1>9, <1>13, <2>1, <2>3, <3>1, VerdictOnLogs
  <2> QED BY <1>10, <1>11, <2>2, <2>3 DEF Right
<1> QED BY <1>2, <1>12, <1>13

(***************************************************************************)
(* HCS-27 proofs are right, for logs of every length: a consistency proof  *)
(* that verifies, from whichever log it was made, means that the old log   *)
(* is a prefix of the new one, an inclusion proof that verifies means that *)
(* the entry is in the log at that index, and the proofs of RFC 9162 of    *)
(* every log verify (pkg/hcs27/merkle.go).                                 *)
(***************************************************************************)
THEOREM ProofsTellTheTruth == MerkleSpec => []ProofsAreRight
<1>1. MerkleInit => ProofsAreRight
  <2>1. NoAudit.kind = "none"
    BY DEF NoAudit
  <2> QED BY <2>1 DEF MerkleInit, ProofsAreRight, ProofMeansPrefix, HonestProofsVerify
<1>2. ProofsAreRight /\ [MerkleNext]_audit => ProofsAreRight'
  <2>1. SUFFICES ASSUME ProofsAreRight, [MerkleNext]_audit PROVE ProofsAreRight'
    OBVIOUS
  <2>2. Right(audit') => ProofsAreRight'
    BY DEF Right, ProofsAreRight, ProofMeansPrefix, HonestProofsVerify
  <2>3. CASE AuditInclusion
    BY <2>2, <2>3, InclusionRight
  <2>4. CASE AuditConsistency
    BY <2>2, <2>4, ConsistencyRight
  <2>5. CASE UNCHANGED audit
    BY <2>1, <2>5 DEF ProofsAreRight, ProofMeansPrefix, HonestProofsVerify
  <2> QED BY <2>1, <2>3, <2>4, <2>5 DEF MerkleNext
<1> QED BY <1>1, <1>2, PTL DEF MerkleSpec
=============================================================================
