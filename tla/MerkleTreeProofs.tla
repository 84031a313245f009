-------------------------- MODULE MerkleTreeProofs ---------------------------
(***************************************************************************)
(* The bAMT for trees of any height and commits of any size: update builds *)
(* the nodes and the root of the tree over all blocks, and what getProof   *)
(* reads verifies.                                                         *)
(***************************************************************************)
EXTENDS MerkleTree, WellFoundedInduction, TLAPS

-----------------------------------------------------------------------------
(* Induction *)

\* A set that holds 0 and the successors of its numbers holds every number:
\* of the numbers outside it one would be the least.
LEMMA SetInduction ==
    ASSUME NEW T, 0 \in T, \A n \in Nat : n \in T => n + 1 \in T
    PROVE  \A n \in Nat : n \in T
  <1> SUFFICES ASSUME NEW n \in Nat, n \notin T PROVE FALSE
    OBVIOUS
  <1> DEFINE Out == {k \in Nat : k \notin T}
             Less == OpToRel(<, Nat)
  <1>1. IsWellFoundedOn(Less, Nat)
    BY NatLessThanWellFounded, Zenon
  <1>2. Out \subseteq Nat /\ Out # {}
    OBVIOUS
  <1>3. \A x, y \in Nat : x < y => <<x, y>> \in Less
    BY DEF OpToRel
  <1> HIDE DEF Out, Less
  <1>4. PICK x \in Out : \A y \in Out : ~(<<y, x>> \in Less)
    BY <1>1, <1>2, WFMin, Zenon
  <1>5. x \in Nat /\ x \notin T
    BY DEF Out
  <1>6. x - 1 \in Nat /\ (x - 1) + 1 = x /\ x - 1 < x
    BY <1>5
  <1>7. x - 1 \notin T
    BY <1>5, <1>6
  <1> QED BY <1>3, <1>4, <1>5, <1>6, <1>7, Zenon DEF Out

-----------------------------------------------------------------------------
(* The index of a leaf's ancestor *)

\* The indices that getProof passes on its way up from a leaf.
Halves(seq, ptr) == ptr = [l \in Nat |-> IF l = 0 THEN seq ELSE ptr[l - 1] \div 2]

\* They exist: those of seq are seq itself, then those of its half.
LEMMA HalvesExist == \A seq \in Nat : \E ptr : Halves(seq, ptr)
  <1> DEFINE T == {n \in Nat : \A seq \in 0 .. n : \E ptr : Halves(seq, ptr)}
  <1>1. 0 \in T
    <2> DEFINE ptr == [l \in Nat |-> 0]
    <2>1. ptr = [l \in Nat |-> IF l = 0 THEN 0 ELSE ptr[l - 1] \div 2]
      <3>1. \A l \in Nat : 0 = IF l = 0 THEN 0 ELSE ptr[l - 1] \div 2
        OBVIOUS
      <3> QED BY <3>1
    <2>2. Halves(0, ptr)
      BY <2>1 DEF Halves
    <2>3. \E p : Halves(0, p)
      BY <2>2, Zenon
    <2> QED BY <2>3
  <1>2. ASSUME NEW n \in Nat, n \in T PROVE n + 1 \in T
    <2>1. PICK half : half = (n + 1) \div 2
      OBVIOUS
    <2>2. half \in 0 .. n
      BY <2>1
    <2>3. PICK p : Halves(half, p)
      BY <1>2, <2>2
    <2> DEFINE ptr == [l \in Nat |-> IF l = 0 THEN n + 1 ELSE p[l - 1]]
    <2>4. \A l \in Nat : l # 0 => p[l - 1] = ptr[l - 1] \div 2
      <3> SUFFICES ASSUME NEW l \in Nat, l # 0 PROVE p[l - 1] = ptr[l - 1] \div 2
        BY Zenon
      <3>1. CASE l = 1
        <4>1. p[0] = half /\ ptr[0] = n + 1
          BY <2>3 DEF Halves
        <4> QED BY <2>1, <3>1, <4>1
      <3>2. CASE l # 1
        <4>1. l - 1 \in Nat /\ l - 1 # 0
          BY <3>2
        <4>2. p[l - 1] = p[(l - 1) - 1] \div 2
          BY <2>3, <4>1 DEF Halves
        <4>3. ptr[l - 1] = p[(l - 1) - 1]
          BY <4>1
        <4> QED BY <4>2, <4>3
      <3> QED BY <3>1, <3>2
    <2>5. ptr = [l \in Nat |-> IF l = 0 THEN n + 1 ELSE ptr[l - 1] \div 2]
      BY <2>4
    <2>6. \E q : Halves(n + 1, q)
      <3>1. Halves(n + 1, ptr)
        BY <2>5, Zenon DEF Halves
      <3> QED BY <3>1, Zenon
    <2>7. \A seq \in 0 .. n + 1 : seq \in 0 .. n \/ seq = n + 1
      OBVIOUS
    <2>8. \A seq \in 0 .. n + 1 : \E q : Halves(seq, q)
      BY <1>2, <2>6, <2>7
    <2> QED BY <2>8
  <1> HIDE DEF T
  <1>3. \A n \in Nat : n \in T
    BY <1>1, <1>2, SetInduction
  <1>4. \A n \in Nat : n \in 0 .. n
    OBVIOUS
  <1> QED BY <1>3, <1>4 DEF T

\* The ancestor at level 0 is the leaf, and each level halves the index.
LEMMA AncestorUp ==
    ASSUME NEW seq \in Nat
    PROVE  /\ Ancestor(seq, 0) = seq
           /\ \A l \in Nat : Ancestor(seq, l + 1) = Ancestor(seq, l) \div 2
  <1> DEFINE P == CHOOSE ptr : ptr = [l \in Nat |-> IF l = 0 THEN seq ELSE ptr[l - 1] \div 2]
  <1>1. P = [l \in Nat |-> IF l = 0 THEN seq ELSE P[l - 1] \div 2]
    BY HalvesExist DEF Halves
  <1>2. \A l : Ancestor(seq, l) = P[l]
    BY DEF Ancestor
  <1> HIDE DEF P
  <1>3. P[0] = seq
    BY <1>1
  <1>4. ASSUME NEW l \in Nat PROVE P[l + 1] = P[l] \div 2
    <2>1. l + 1 \in Nat /\ l + 1 # 0 /\ (l + 1) - 1 = l
      OBVIOUS
    <2> QED BY <1>1, <2>1
  <1> QED BY <1>2, <1>3, <1>4

\* Indices are numbers.
LEMMA AncestorNat == \A seq, l \in Nat : Ancestor(seq, l) \in Nat
  <1> SUFFICES ASSUME NEW seq \in Nat PROVE \A l \in Nat : Ancestor(seq, l) \in Nat
    OBVIOUS
  <1> DEFINE T == {l \in Nat : Ancestor(seq, l) \in Nat}
  <1>1. 0 \in T
    BY AncestorUp
  <1>2. ASSUME NEW l \in Nat, l \in T PROVE l + 1 \in T
    BY <1>2, AncestorUp
  <1> HIDE DEF T
  <1>3. \A l \in Nat : l \in T
    BY <1>1, <1>2, SetInduction
  <1> QED BY <1>3 DEF T

\* A later leaf has no earlier ancestor.
LEMMA AncestorMonotone ==
    ASSUME NEW a \in Nat, NEW b \in Nat, a <= b
    PROVE  \A l \in Nat : Ancestor(a, l) <= Ancestor(b, l)
  <1> DEFINE T == {l \in Nat : Ancestor(a, l) <= Ancestor(b, l)}
  <1>1. 0 \in T
    BY AncestorUp
  <1>2. ASSUME NEW l \in Nat, l \in T PROVE l + 1 \in T
    <2>1. PICK x, y : x = Ancestor(a, l) /\ y = Ancestor(b, l)
      OBVIOUS
    <2>2. x \in Nat /\ y \in Nat /\ x <= y
      BY <1>2, <2>1, AncestorNat
    <2>3. x \div 2 <= y \div 2
      BY <2>2
    <2> QED BY <2>1, <2>3, AncestorUp
  <1> HIDE DEF T
  <1>3. \A l \in Nat : l \in T
    BY <1>1, <1>2, SetInduction
  <1> QED BY <1>3 DEF T

\* Neighbouring leaves have the same or neighbouring ancestors.
LEMMA AncestorNext ==
    ASSUME NEW a \in Nat
    PROVE  \A l \in Nat : \/ Ancestor(a + 1, l) = Ancestor(a, l)
                          \/ Ancestor(a + 1, l) = Ancestor(a, l) + 1
  <1> DEFINE T == {l \in Nat : \/ Ancestor(a + 1, l) = Ancestor(a, l)
                               \/ Ancestor(a + 1, l) = Ancestor(a, l) + 1}
  <1>0. a + 1 \in Nat
    OBVIOUS
  <1>1. 0 \in T
    BY <1>0, AncestorUp
  <1>2. ASSUME NEW l \in Nat, l \in T PROVE l + 1 \in T
    <2>1. PICK x, y : x = Ancestor(a, l) /\ y = Ancestor(a + 1, l)
      OBVIOUS
    <2>2. x \in Nat /\ y \in Nat /\ (y = x \/ y = x + 1)
      BY <1>0, <1>2, <2>1, AncestorNat
    <2>3. y \div 2 = x \div 2 \/ y \div 2 = x \div 2 + 1
      BY <2>2
    <2> QED BY <1>0, <2>1, <2>3, AncestorUp
  <1> HIDE DEF T
  <1>3. \A l \in Nat : l \in T
    BY <1>1, <1>2, SetInduction
  <1> QED BY <1>3 DEF T

\* Above a root there are only roots.
LEMMA AncestorZero ==
    ASSUME NEW a \in Nat, NEW l \in Nat, Ancestor(a, l) = 0
    PROVE  \A k \in Nat : k >= l => Ancestor(a, k) = 0
  <1> DEFINE T == {k \in Nat : k >= l => Ancestor(a, k) = 0}
  <1>1. 0 \in T
    OBVIOUS
  <1>2. ASSUME NEW k \in Nat, k \in T PROVE k + 1 \in T
    BY <1>2, AncestorUp
  <1> HIDE DEF T
  <1>3. \A k \in Nat : k \in T
    BY <1>1, <1>2, SetInduction
  <1> QED BY <1>3 DEF T

-----------------------------------------------------------------------------
(* The last node of a level *)

\* Over n leaves the last node of the level has all its leaves.
Whole(n, l) == Ancestor(n, l) = Ancestor(n - 1, l) + 1

\* It has all of them when the level below is whole and pairs up.
LEMMA WholeUp ==
    ASSUME NEW n \in Nat \ {0}
    PROVE  /\ Whole(n, 0)
           /\ \A l \in Nat : Whole(n, l + 1) <=> Whole(n, l) /\ Ancestor(n - 1, l) % 2 = 1
  <1>0. n - 1 \in Nat /\ n \in Nat /\ (n - 1) + 1 = n
    OBVIOUS
  <1>1. Whole(n, 0)
    BY <1>0, AncestorUp DEF Whole
  <1>2. ASSUME NEW l \in Nat
        PROVE  Whole(n, l + 1) <=> Whole(n, l) /\ Ancestor(n - 1, l) % 2 = 1
    <2>1. PICK x, y : x = Ancestor(n - 1, l) /\ y = Ancestor(n, l)
      OBVIOUS
    <2>2. x \in Nat /\ y \in Nat /\ (y = x \/ y = x + 1)
      BY <1>0, <2>1, AncestorNat, AncestorNext
    <2>3. Ancestor(n - 1, l + 1) = x \div 2 /\ Ancestor(n, l + 1) = y \div 2
      BY <1>0, <2>1, AncestorUp
    <2>4. y \div 2 = x \div 2 + 1 <=> y = x + 1 /\ x % 2 = 1
      BY <2>2
    <2> QED BY <2>1, <2>3, <2>4 DEF Whole
  <1> QED BY <1>1, <1>2

\* getProof's "complete": every level of the tree under the tip is full.
LEMMA FullToIsWhole ==
    ASSUME NEW n \in Nat \ {0}
    PROVE  \A l \in Nat : FullTo(n - 1, l) <=> Whole(n, l + 1)
  <1> DEFINE T == {l \in Nat : FullTo(n - 1, l) <=> Whole(n, l + 1)}
  <1>1. 0 \in T
    <2>1. FullTo(n - 1, 0) <=> Ancestor(n - 1, 0) % 2 = 1
      BY DEF FullTo
    <2>2. Whole(n, 0 + 1) <=> Whole(n, 0) /\ Ancestor(n - 1, 0) % 2 = 1
      BY WholeUp
    <2> QED BY <2>1, <2>2, WholeUp
  <1>2. ASSUME NEW l \in Nat, l \in T PROVE l + 1 \in T
    <2>1. FullTo(n - 1, l + 1) <=> FullTo(n - 1, l) /\ Ancestor(n - 1, l + 1) % 2 = 1
      BY DEF FullTo
    <2>2. l + 1 \in Nat
      OBVIOUS
    <2>3. Whole(n, (l + 1) + 1) <=> Whole(n, l + 1) /\ Ancestor(n - 1, l + 1) % 2 = 1
      BY <2>2, WholeUp
    <2> QED BY <1>2, <2>1, <2>2, <2>3
  <1> HIDE DEF T
  <1>3. \A l \in Nat : l \in T
    BY <1>1, <1>2, SetInduction
  <1> QED BY <1>3 DEF T

\* A node that has a leaf, and all its leaves, is one of the level's nodes.
LEMMA CompleteIsNode ==
    ASSUME NEW n \in Nat \ {0}, NEW l \in Nat
    PROVE  /\ Ancestor(n - 1, l) <= Ancestor(n, l)
           /\ Ancestor(n, l) <= Ancestor(n - 1, l) + 1
           /\ Ancestor(n - 1, l) \in Nat /\ Ancestor(n, l) \in Nat
           /\ ~Whole(n, l) => Ancestor(n, l) = Ancestor(n - 1, l)
  <1>1. n - 1 \in Nat /\ n \in Nat /\ (n - 1) + 1 = n
    OBVIOUS
  <1>2. \/ Ancestor(n, l) = Ancestor(n - 1, l)
        \/ Ancestor(n, l) = Ancestor(n - 1, l) + 1
    BY <1>1, AncestorNext
  <1>3. Ancestor(n - 1, l) \in Nat /\ Ancestor(n, l) \in Nat
    BY <1>1, AncestorNat, Zenon
  <1> QED BY <1>2, <1>3 DEF Whole

-----------------------------------------------------------------------------
(* The tree over a sequence of leaves *)

\* One level of the reference tree from the level below.
RefLevel(leaves, l, below) ==
    IF l = 0 THEN [i \in 0 .. Len(leaves) - 1 |-> leaves[i + 1]]
    ELSE [i \in 0 .. Ancestor(Len(leaves) - 1, l) |->
            IF 2 * i + 1 <= Ancestor(Len(leaves) - 1, l - 1)
              THEN HashTwo(below[2 * i], below[2 * i + 1])
              ELSE HashOne(below[2 * i])]

\* The reference tree exists, level by level.
LEMMA RefNodesUp ==
    ASSUME NEW leaves
    PROVE  \A l \in 0 .. MaxLevel :
               RefNodes(leaves)[l] = RefLevel(leaves, l, RefNodes(leaves)[l - 1])
  <1> DEFINE Tree(m, f) == f = [l \in 0 .. m |-> RefLevel(leaves, l, f[l - 1])]
             T == {m \in Nat : \E f : Tree(m, f)}
  <1>1. 0 \in T
    <2> DEFINE f == [l \in 0 .. 0 |-> RefLevel(leaves, 0, 0)]
    <2>1. \A l \in 0 .. 0 : RefLevel(leaves, l, f[l - 1]) = RefLevel(leaves, 0, 0)
      BY DEF RefLevel
    <2>2. Tree(0, f)
      BY <2>1
    <2> HIDE DEF f
    <2>3. \E g : Tree(0, g)
      BY <2>2, Zenon
    <2> QED BY <2>3
  <1>2. ASSUME NEW m \in Nat, m \in T PROVE m + 1 \in T
    <2>1. PICK f : Tree(m, f)
      BY <1>2
    <2> DEFINE g == [l \in 0 .. m + 1 |-> IF l = m + 1 THEN RefLevel(leaves, l, f[m]) ELSE f[l]]
    <2>2. ASSUME NEW l \in 0 .. m + 1 PROVE g[l] = RefLevel(leaves, l, g[l - 1])
      <3>1. CASE l = m + 1
        <4>1. g[l] = RefLevel(leaves, l, f[m]) /\ g[l - 1] = f[m]
          BY <3>1
        <4> QED BY <4>1
      <3>2. CASE l # m + 1 /\ l # 0
        <4>1. l \in 0 .. m /\ l - 1 \in 0 .. m + 1 /\ l - 1 # m + 1
          BY <3>2
        <4>2. f[l] = RefLevel(leaves, l, f[l - 1])
          BY <2>1, <4>1
        <4>3. g[l] = f[l] /\ g[l - 1] = f[l - 1]
          BY <4>1
        <4> QED BY <4>2, <4>3
      <3>3. CASE l = 0
        <4>1. f[0] = RefLevel(leaves, 0, f[0 - 1]) /\ g[0] = f[0]
          BY <2>1
        <4> QED BY <3>3, <4>1 DEF RefLevel
      <3> QED BY <3>1, <3>2, <3>3
    <2>3. g = [l \in 0 .. m + 1 |-> g[l]]
      OBVIOUS
    <2> HIDE DEF g
    <2>4. g = [l \in 0 .. m + 1 |-> RefLevel(leaves, l, g[l - 1])]
      BY <2>2, <2>3, Zenon
    <2>5. \E h : Tree(m + 1, h)
      BY <2>4, Zenon
    <2> QED BY <2>5
  <1>3. \A m \in Nat : m \in T
    <2> HIDE DEF T
    <2> QED BY <1>1, <1>2, SetInduction
  <1>4. \E f : Tree(MaxLevel, f)
    BY <1>3, MaxLevelAssumption
  <1> DEFINE R == CHOOSE f : Tree(MaxLevel, f)
  <1>5. Tree(MaxLevel, R)
    BY <1>4, Zenon
  <1>6. RefNodes(leaves) = R
    BY Zenon DEF RefNodes, RefLevel
  <1> HIDE DEF R
  <1> QED BY <1>5, <1>6, Zenon

\* A node of the tree.
Node(leaves, l, i) == RefNodes(leaves)[l][i]

\* It is the leaf itself, or the hash of its one or two children.
LEMMA NodeUp ==
    ASSUME NEW leaves, Len(leaves) \in Nat \ {0}
    PROVE  /\ \A i \in 0 .. Len(leaves) - 1 : Node(leaves, 0, i) = leaves[i + 1]
           /\ \A l \in 0 .. MaxLevel - 1 :
                \A i \in 0 .. Ancestor(Len(leaves) - 1, l + 1) :
                  Node(leaves, l + 1, i) =
                    IF 2 * i + 1 <= Ancestor(Len(leaves) - 1, l)
                      THEN HashTwo(Node(leaves, l, 2 * i), Node(leaves, l, 2 * i + 1))
                      ELSE HashOne(Node(leaves, l, 2 * i))
  <1>1. ASSUME NEW i \in 0 .. Len(leaves) - 1 PROVE Node(leaves, 0, i) = leaves[i + 1]
    <2>1. 0 \in 0 .. MaxLevel
      BY MaxLevelAssumption
    <2>2. RefNodes(leaves)[0] = RefLevel(leaves, 0, RefNodes(leaves)[0 - 1])
      BY <2>1, RefNodesUp
    <2> QED BY <2>2 DEF Node, RefLevel
  <1>2. ASSUME NEW l \in 0 .. MaxLevel - 1, NEW i \in 0 .. Ancestor(Len(leaves) - 1, l + 1)
        PROVE  Node(leaves, l + 1, i) =
                    IF 2 * i + 1 <= Ancestor(Len(leaves) - 1, l)
                      THEN HashTwo(Node(leaves, l, 2 * i), Node(leaves, l, 2 * i + 1))
                      ELSE HashOne(Node(leaves, l, 2 * i))
    <2>1. l + 1 \in 0 .. MaxLevel /\ l + 1 # 0 /\ (l + 1) - 1 = l
      BY MaxLevelAssumption
    <2>2. RefNodes(leaves)[l + 1] = RefLevel(leaves, l + 1, RefNodes(leaves)[l])
      BY <2>1, RefNodesUp
    <2> QED BY <2>1, <2>2 DEF Node, RefLevel
  <1> QED BY <1>1, <1>2

\* Leaves appended to the tree leave its complete nodes as they are.
LEMMA CompleteNodesStay ==
    ASSUME NEW a, NEW b, Len(a) \in Nat \ {0}, Len(b) \in Nat, Len(a) <= Len(b),
           \A j \in 1 .. Len(a) : a[j] = b[j]
    PROVE  \A l \in 0 .. MaxLevel : \A i \in 0 .. Ancestor(Len(a), l) - 1 :
               Node(a, l, i) = Node(b, l, i)
  <1> DEFINE T == {l \in Nat : l <= MaxLevel =>
                       \A i \in 0 .. Ancestor(Len(a), l) - 1 : Node(a, l, i) = Node(b, l, i)}
  <1>0. Len(b) \in Nat \ {0}
    OBVIOUS
  <1>1. 0 \in T
    <2>1. Ancestor(Len(a), 0) = Len(a)
      BY AncestorUp, Zenon
    <2>2. ASSUME NEW i \in 0 .. Len(a) - 1 PROVE Node(a, 0, i) = Node(b, 0, i)
      <3>1. i \in 0 .. Len(b) - 1 /\ i + 1 \in 1 .. Len(a)
        OBVIOUS
      <3> QED BY <1>0, <3>1, NodeUp
    <2> QED BY <2>1, <2>2
  <1>2. ASSUME NEW l \in Nat, l \in T PROVE l + 1 \in T
    <2> SUFFICES ASSUME l + 1 <= MaxLevel, NEW i \in 0 .. Ancestor(Len(a), l + 1) - 1
                 PROVE  Node(a, l + 1, i) = Node(b, l + 1, i)
      OBVIOUS
    <2>1. l \in 0 .. MaxLevel - 1 /\ l + 1 \in Nat
      BY MaxLevelAssumption
    <2>2. PICK n, x, y : n = Ancestor(Len(a), l) /\ x = Ancestor(Len(a) - 1, l) /\ y = Ancestor(Len(b) - 1, l)
      OBVIOUS
    <2>3. Ancestor(Len(a), l + 1) = n \div 2
      BY <2>2, AncestorUp
    <2>4. /\ n \in Nat /\ x \in Nat /\ y \in Nat /\ n <= x + 1 /\ x <= y
          /\ Ancestor(Len(a), l + 1) <= Ancestor(Len(a) - 1, l + 1) + 1
          /\ Ancestor(Len(a) - 1, l + 1) <= Ancestor(Len(b) - 1, l + 1)
          /\ Ancestor(Len(a), l + 1) \in Nat /\ Ancestor(Len(a) - 1, l + 1) \in Nat
          /\ Ancestor(Len(b) - 1, l + 1) \in Nat
      <3>1. Len(a) - 1 \in Nat /\ Len(b) - 1 \in Nat /\ Len(a) - 1 <= Len(b) - 1
        BY <1>0
      <3>2. \A k \in Nat : Ancestor(Len(a) - 1, k) <= Ancestor(Len(b) - 1, k)
        BY <3>1, AncestorMonotone
      <3>3. \A k \in Nat : Ancestor(Len(b) - 1, k) \in Nat
        BY <3>1, AncestorNat, Zenon
      <3>4. \A k \in Nat : /\ Ancestor(Len(a), k) <= Ancestor(Len(a) - 1, k) + 1
                           /\ Ancestor(Len(a), k) \in Nat /\ Ancestor(Len(a) - 1, k) \in Nat
        BY CompleteIsNode, Zenon
      <3> QED BY <2>1, <2>2, <3>2, <3>3, <3>4
    <2>5. 2 * i + 1 <= x /\ 2 * i + 1 <= y /\ 2 * i \in 0 .. n - 1 /\ 2 * i + 1 \in 0 .. n - 1
      BY <2>3, <2>4
    <2>6. i \in 0 .. Ancestor(Len(a) - 1, l + 1) /\ i \in 0 .. Ancestor(Len(b) - 1, l + 1)
      BY <2>4
    <2>7. Node(a, l + 1, i) = HashTwo(Node(a, l, 2 * i), Node(a, l, 2 * i + 1))
      BY <2>1, <2>2, <2>5, <2>6, NodeUp
    <2>8. Node(b, l + 1, i) = HashTwo(Node(b, l, 2 * i), Node(b, l, 2 * i + 1))
      BY <1>0, <2>1, <2>2, <2>5, <2>6, NodeUp
    <2>9. Node(a, l, 2 * i) = Node(b, l, 2 * i) /\ Node(a, l, 2 * i + 1) = Node(b, l, 2 * i + 1)
      <3>1. \A j \in 0 .. Ancestor(Len(a), l) - 1 : Node(a, l, j) = Node(b, l, j)
        BY <1>2, <2>1, MaxLevelAssumption
      <3> QED BY <2>2, <2>5, <3>1
    <2> QED BY <2>7, <2>8, <2>9
  <1>3. \A l \in Nat : l \in T
    <2> HIDE DEF T
    <2> QED BY <1>1, <1>2, SetInduction
  <1> QED BY <1>3, MaxLevelAssumption

\* Some level holds the root alone, and there is a lowest one.
LEMMA HeightFacts ==
    ASSUME NEW s \in Nat, Ancestor(s, MaxLevel) = 0
    PROVE  /\ RefHeight(s) \in 0 .. MaxLevel
           /\ Ancestor(s, RefHeight(s)) = 0
           /\ \A k \in 0 .. RefHeight(s) - 1 : Ancestor(s, k) > 0
  <1> DEFINE Lowest(l) == Ancestor(s, l) = 0 /\ \A k \in 0 .. l - 1 : Ancestor(s, k) > 0
             T == {m \in Nat : (\E l \in 0 .. m : Lowest(l)) \/ (\A k \in 0 .. m : Ancestor(s, k) > 0)}
  <1>1. 0 \in T
    <2>1. CASE Ancestor(s, 0) = 0
      BY <2>1
    <2>2. CASE Ancestor(s, 0) # 0
      BY <2>2, AncestorNat
    <2> QED BY <2>1, <2>2
  <1>2. ASSUME NEW m \in Nat, m \in T PROVE m + 1 \in T
    <2>1. CASE \E l \in 0 .. m : Lowest(l)
      BY <2>1
    <2>2. CASE \A k \in 0 .. m : Ancestor(s, k) > 0
      <3>1. CASE Ancestor(s, m + 1) = 0
        <4>1. Lowest(m + 1)
          BY <2>2, <3>1
        <4> QED BY <4>1
      <3>2. CASE Ancestor(s, m + 1) # 0
        <4>1. Ancestor(s, m + 1) > 0
          BY <3>2, AncestorNat
        <4>2. \A k \in 0 .. m + 1 : Ancestor(s, k) > 0
          BY <2>2, <4>1
        <4> QED BY <4>2
      <3> QED BY <3>1, <3>2
    <2> QED BY <1>2, <2>1, <2>2
  <1>3. \A m \in Nat : m \in T
    <2> HIDE DEF T
    <2> QED BY <1>1, <1>2, SetInduction
  <1>4. \E l \in 0 .. MaxLevel : Lowest(l)
    BY <1>3, MaxLevelAssumption
  <1>5. RefHeight(s) \in 0 .. MaxLevel /\ Lowest(RefHeight(s))
    BY <1>4, Zenon DEF RefHeight
  <1> QED BY <1>5

\* Only levels up to the root's have complete nodes.
LEMMA CompleteBelowRoot ==
    ASSUME NEW n \in Nat \ {0}, Ancestor(n - 1, MaxLevel) = 0,
           NEW l \in Nat, Ancestor(n, l) > 0
    PROVE  l <= RefHeight(n - 1)
  <1> SUFFICES ASSUME ~(l <= RefHeight(n - 1)) PROVE FALSE
    OBVIOUS
  <1>0. n - 1 \in Nat /\ n \in Nat
    OBVIOUS
  <1>1. PICK h : h = RefHeight(n - 1)
    OBVIOUS
  <1>2. h \in Nat /\ Ancestor(n - 1, h) = 0 /\ l >= h + 1 /\ h + 1 \in Nat
    BY <1>0, <1>1, HeightFacts, MaxLevelAssumption
  <1>3. Ancestor(n, h) <= 1 /\ Ancestor(n, h) \in Nat
    BY <1>2, CompleteIsNode
  <1>4. Ancestor(n, h + 1) = 0
    <2>1. Ancestor(n, h + 1) = Ancestor(n, h) \div 2
      BY <1>0, <1>2, AncestorUp
    <2> QED BY <1>3, <2>1
  <1>5. Ancestor(n, l) = 0
    BY <1>0, <1>2, <1>4, AncestorZero
  <1> QED BY <1>5

-----------------------------------------------------------------------------
(* update *)

\* The pass of a level from the pass below it.
PassUp(nodes, start, hashes, commit, l, below) ==
    IF l = 0 THEN Leaves(start, hashes) ELSE StepUp(nodes, l - 1, below, commit)

\* The passes of an update exist, level by level.
LEMMA PassesUp ==
    ASSUME NEW nodes, NEW start, NEW hashes, NEW commit
    PROVE  /\ Passes(nodes, start, hashes, commit)[0] = Leaves(start, hashes)
           /\ \A l \in 0 .. MaxLevel - 1 :
                Passes(nodes, start, hashes, commit)[l + 1] =
                    StepUp(nodes, l, Passes(nodes, start, hashes, commit)[l], commit)
  <1> DEFINE Up(l, below) == PassUp(nodes, start, hashes, commit, l, below)
             Run(m, f) == f = [l \in 0 .. m |-> Up(l, f[l - 1])]
             T == {m \in Nat : \E f : Run(m, f)}
  <1>0. \A x, y : Up(0, x) = Up(0, y)
    BY Zenon DEF PassUp
  <1>1. 0 \in T
    <2> DEFINE f == [l \in 0 .. 0 |-> Up(0, 0)]
    <2> HIDE DEF Up
    <2>1. \A l \in 0 .. 0 : Up(l, f[l - 1]) = Up(0, 0)
      BY <1>0
    <2>2. Run(0, f)
      BY <2>1
    <2> HIDE DEF f
    <2>3. \E g : Run(0, g)
      BY <2>2, Zenon
    <2> QED BY <2>3
  <1>2. ASSUME NEW m \in Nat, m \in T PROVE m + 1 \in T
    <2> HIDE DEF Up
    <2>1. PICK f : Run(m, f)
      BY <1>2
    <2> DEFINE g == [l \in 0 .. m + 1 |-> IF l = m + 1 THEN Up(l, f[m]) ELSE f[l]]
    <2>2. ASSUME NEW l \in 0 .. m + 1 PROVE g[l] = Up(l, g[l - 1])
      <3>1. CASE l = m + 1
        <4>1. g[l] = Up(l, f[m]) /\ g[l - 1] = f[m]
          BY <3>1
        <4> QED BY <4>1
      <3>2. CASE l # m + 1 /\ l # 0
        <4>1. l \in 0 .. m /\ l - 1 \in 0 .. m + 1 /\ l - 1 # m + 1
          BY <3>2
        <4>2. f[l] = Up(l, f[l - 1])
          BY <2>1, <4>1
        <4>3. g[l] = f[l] /\ g[l - 1] = f[l - 1]
          BY <4>1
        <4> QED BY <4>2, <4>3
      <3>3. CASE l = 0
        <4>1. f[0] = Up(0, f[0 - 1]) /\ g[0] = f[0]
          BY <2>1
        <4> QED BY <1>0, <3>3, <4>1
      <3> QED BY <3>1, <3>2, <3>3
    <2>3. g = [l \in 0 .. m + 1 |-> g[l]]
      OBVIOUS
    <2> HIDE DEF g
    <2>4. g = [l \in 0 .. m + 1 |-> Up(l, g[l - 1])]
      BY <2>2, <2>3, Zenon
    <2>5. \E h : Run(m + 1, h)
      BY <2>4, Zenon
    <2> QED BY <2>5
  <1>3. \A m \in Nat : m \in T
    <2> HIDE DEF T
    <2> QED BY <1>1, <1>2, SetInduction
  <1>4. \E f : Run(MaxLevel, f)
    BY <1>3, MaxLevelAssumption
  <1> DEFINE R == CHOOSE f : Run(MaxLevel, f)
  <1>5. Run(MaxLevel, R)
    BY <1>4, Zenon
  <1>6. Passes(nodes, start, hashes, commit) = R
    BY Zenon DEF Passes, PassUp
  <1> HIDE DEF R, Up
  <1>7. R[0] = Up(0, R[0 - 1])
    BY <1>5, MaxLevelAssumption
  <1>8. ASSUME NEW l \in 0 .. MaxLevel - 1 PROVE R[l + 1] = Up(l + 1, R[l])
    <2>1. l + 1 \in 0 .. MaxLevel /\ (l + 1) - 1 = l
      BY MaxLevelAssumption
    <2> QED BY <1>5, <2>1, Zenon
  <1>9. \A l \in 0 .. MaxLevel - 1 : Up(l + 1, R[l]) = StepUp(nodes, l, R[l], commit)
    <2>1. \A l \in 0 .. MaxLevel - 1 : l + 1 # 0 /\ (l + 1) - 1 = l
      BY MaxLevelAssumption
    <2> QED BY <2>1, Zenon DEF Up, PassUp
  <1>10. Up(0, R[0 - 1]) = Leaves(start, hashes)
    BY Zenon DEF Up, PassUp
  <1> QED BY <1>6, <1>7, <1>8, <1>9, <1>10, Zenon

\* The key under which commit stores node i of level l of the tree over n
\* leaves: only the last node may be incomplete, and then it names the commit.
NodeKey(n, commit, l, i) ==
    <<l, i, IF i = Ancestor(n - 1, l) /\ ~Whole(n, l) THEN commit ELSE NoCommit>>

\* The nodes of level l that an update from leaf start on computes.
LevelPuts(leaves, start, commit, l) ==
    {<<NodeKey(Len(leaves), commit, l, i), Node(leaves, l, i)>> :
        i \in Ancestor(start, l) .. Ancestor(Len(leaves) - 1, l)}

PutsTo(leaves, start, commit, l) ==
    UNION {LevelPuts(leaves, start, commit, k) : k \in 0 .. l}

\* A sequence that lists a set.
Lists(s, S) == s \in Seq(S) /\ \A x \in S : \E j \in 1 .. Len(s) : s[j] = x

\* The nodes hold every complete node over the first start leaves.
HasComplete(nodes, leaves, start) ==
    \A l \in 0 .. MaxLevel : \A i \in 0 .. Ancestor(start, l) - 1 :
        /\ <<l, i, NoCommit>> \in DOMAIN nodes
        /\ nodes[<<l, i, NoCommit>>] = Node(leaves, l, i)

\* What update is called with: the leaves from start on, and a store that has
\* the complete nodes before them.
UpdateArgs(nodes, leaves, start, hashes, commit) ==
    /\ Len(leaves) \in Nat \ {0}
    /\ Ancestor(Len(leaves) - 1, MaxLevel) = 0
    /\ start \in 0 .. Len(leaves) - 1
    /\ hashes = [j \in 1 .. Len(leaves) - start |-> leaves[start + j]]
    /\ HasComplete(nodes, leaves, start)

\* What the pass of level l has computed.
PassGood(leaves, start, commit, l, pass) ==
    /\ pass.start = Ancestor(start, l)
    /\ pass.hashes = [j \in 1 .. Ancestor(Len(leaves) - 1, l) - Ancestor(start, l) + 1 |->
                        Node(leaves, l, Ancestor(start, l) + j - 1)]
    /\ pass.complete <=> Whole(Len(leaves), l)
    /\ (l > 0 \/ start % 2 = 0) => pass.prev_complete
    /\ Lists(pass.puts, PutsTo(leaves, start, commit, l))

\* The elements of two sequences, one after the other.
LEMMA ConcatFacts ==
    ASSUME NEW S, NEW s \in Seq(S), NEW t \in Seq(S)
    PROVE  /\ s \o t \in Seq(S) /\ Len(s \o t) = Len(s) + Len(t)
           /\ \A j \in 1 .. Len(s) : (s \o t)[j] = s[j]
           /\ \A j \in 1 .. Len(t) : (s \o t)[Len(s) + j] = t[j]
  OBVIOUS

\* Sequences that list two sets, one after the other, list their union.
LEMMA ListsUnion ==
    ASSUME NEW s, NEW t, NEW S, NEW T, Lists(s, S), Lists(t, T)
    PROVE  Lists(s \o t, S \cup T)
  <1> DEFINE U == S \cup T
  <1>1. s \in Seq(U) /\ t \in Seq(U)
    BY DEF Lists
  <1> HIDE DEF U
  <1>2. /\ s \o t \in Seq(U) /\ Len(s \o t) = Len(s) + Len(t)
        /\ Len(s) \in Nat /\ Len(t) \in Nat
        /\ \A j \in 1 .. Len(s) : (s \o t)[j] = s[j]
        /\ \A j \in 1 .. Len(t) : (s \o t)[Len(s) + j] = t[j]
    BY <1>1
  <1>3. ASSUME NEW x \in S PROVE \E j \in 1 .. Len(s \o t) : (s \o t)[j] = x
    <2>1. PICK j \in 1 .. Len(s) : s[j] = x
      BY DEF Lists
    <2>2. j \in 1 .. Len(s \o t) /\ (s \o t)[j] = x
      BY <1>2, <2>1
    <2> QED BY <2>2
  <1>4. ASSUME NEW x \in T PROVE \E j \in 1 .. Len(s \o t) : (s \o t)[j] = x
    <2>1. PICK j \in 1 .. Len(t) : t[j] = x
      BY DEF Lists
    <2>2. Len(s) + j \in 1 .. Len(s \o t) /\ (s \o t)[Len(s) + j] = x
      BY <1>2, <2>1
    <2> QED BY <2>2
  <1>5. \A x \in U : \E j \in 1 .. Len(s \o t) : (s \o t)[j] = x
    BY <1>3, <1>4, Zenon DEF U
  <1>6. Lists(s \o t, U)
    BY <1>2, <1>5, Zenon DEF Lists
  <1> QED BY <1>6 DEF U

\* A sequence given by its elements lists the set of them.
LEMMA ListsOf ==
    ASSUME NEW m \in Nat, NEW s, NEW S, s = [j \in 1 .. m |-> s[j]],
           \A j \in 1 .. m : s[j] \in S,
           \A x \in S : \E j \in 1 .. m : s[j] = x
    PROVE  Lists(s, S)
  <1>1. s \in [1 .. m -> S]
    OBVIOUS
  <1>2. s \in Seq(S) /\ Len(s) = m
    BY <1>1
  <1> QED BY <1>2 DEF Lists

\* The leaves are the first pass.
LEMMA LeavesGood ==
    ASSUME NEW nodes, NEW leaves, NEW start, NEW hashes, NEW commit,
           UpdateArgs(nodes, leaves, start, hashes, commit)
    PROVE  PassGood(leaves, start, commit, 0, Leaves(start, hashes))
  <1> DEFINE n == Len(leaves)
             pass == Leaves(start, hashes)
  <1>0. n \in Nat \ {0} /\ start \in 0 .. n - 1 /\ start \in Nat /\ n - 1 \in Nat
    BY DEF UpdateArgs
  <1>1. Ancestor(n - 1, 0) = n - 1 /\ Ancestor(start, 0) = start
    BY <1>0, AncestorUp
  <1>2. pass.start = start /\ pass.hashes = hashes /\ pass.complete /\ pass.prev_complete = EvenBefore(start)
    BY Zenon DEF Leaves
  <1>3. /\ hashes = [j \in 1 .. n - start |-> leaves[start + j]]
        /\ \A j \in 1 .. n - start : leaves[start + j] = Node(leaves, 0, start + j - 1)
    <2>1. \A i \in 0 .. n - 1 : Node(leaves, 0, i) = leaves[i + 1]
      BY <1>0, NodeUp
    <2>2. ASSUME NEW j \in 1 .. n - start
          PROVE  leaves[start + j] = Node(leaves, 0, start + j - 1)
      <3>1. start + j - 1 \in 0 .. n - 1 /\ (start + j - 1) + 1 = start + j
        BY <1>0
      <3> QED BY <2>1, <3>1
    <2> QED BY <2>2 DEF UpdateArgs
  <1>4. hashes = [j \in 1 .. (n - 1) - start + 1 |-> Node(leaves, 0, start + j - 1)]
    <2>1. (n - 1) - start + 1 = n - start
      BY <1>0
    <2> QED BY <1>3, <2>1, Zenon
  <1>5. start % 2 = 0 => EvenBefore(start)
    BY <1>0 DEF EvenBefore
  <1>6. Whole(n, 0)
    BY <1>0, WholeUp
  <1>7. Lists(pass.puts, PutsTo(leaves, start, commit, 0))
    <2>1. Len(hashes) = n - start
      BY <1>0, <1>3
    <2>2. pass.puts = [i \in 1 .. n - start |-> <<<<0, start + i - 1, NoCommit>>, hashes[i]>>]
      BY <2>1, Zenon DEF Leaves
    <2>3. \A i : NodeKey(n, commit, 0, i) = <<0, i, NoCommit>>
      BY <1>6, Zenon DEF NodeKey
    <2>4. PutsTo(leaves, start, commit, 0) = LevelPuts(leaves, start, commit, 0)
      BY DEF PutsTo
    <2>5. LevelPuts(leaves, start, commit, 0) =
              {<<<<0, i, NoCommit>>, Node(leaves, 0, i)>> : i \in start .. n - 1}
      BY <1>1, <2>3, Zenon DEF LevelPuts
    <2>6. \A i \in 1 .. n - start :
              pass.puts[i] = <<<<0, start + i - 1, NoCommit>>, Node(leaves, 0, start + i - 1)>>
      BY <1>3, <2>2, Zenon
    <2> DEFINE S == {<<<<0, i, NoCommit>>, Node(leaves, 0, i)>> : i \in start .. n - 1}
    <2>7. \A i \in 1 .. n - start : pass.puts[i] \in S
      <3>1. \A i \in 1 .. n - start : start + i - 1 \in start .. n - 1
        BY <1>0
      <3> QED BY <2>6, <3>1, Zenon
    <2>8. ASSUME NEW x \in S PROVE \E j \in 1 .. n - start : pass.puts[j] = x
      <3>1. PICK i \in start .. n - 1 : x = <<<<0, i, NoCommit>>, Node(leaves, 0, i)>>
        OBVIOUS
      <3>2. i - start + 1 \in 1 .. n - start /\ start + (i - start + 1) - 1 = i
        BY <1>0
      <3>3. pass.puts[i - start + 1] = x
        BY <2>6, <3>1, <3>2
      <3> QED BY <3>2, <3>3
    <2>9. n - start \in Nat
      BY <1>0
    <2>10. pass.puts = [i \in 1 .. n - start |-> pass.puts[i]]
      BY <2>2
    <2> HIDE DEF S, pass
    <2>11. Lists(pass.puts, S)
      BY <2>7, <2>8, <2>9, <2>10, ListsOf
    <2> QED BY <2>4, <2>5, <2>11, Zenon DEF S
  <1> HIDE DEF pass
  <1>8. PassGood(leaves, start, commit, 0, pass)
    BY <1>1, <1>2, <1>4, <1>5, <1>6, <1>7 DEF PassGood
  <1> QED BY <1>8 DEF pass

\* The hashes a pass pairs up: those of the level from an even index on.
Paired(leaves, l, first) ==
    [j \in 1 .. Ancestor(Len(leaves) - 1, l) - first + 1 |-> Node(leaves, l, first + j - 1)]

\* A pass that begins with a right child loads the left one.
BeginsRight(pass) == pass.start % 2 = 1

WithLeft(nodes, level, pass, commit) == <<Get(nodes, PrevKey(level, pass, commit))>> \o pass.hashes

\* With the left sibling of the first node, if it has one, a pass pairs up the
\* nodes of its level: the sibling is complete, and so it is found in the store.
LEMMA PairedHashes ==
    ASSUME NEW nodes, NEW leaves, NEW start, NEW hashes, NEW commit, NEW l \in 0 .. MaxLevel, NEW pass,
           UpdateArgs(nodes, leaves, start, hashes, commit),
           PassGood(leaves, start, commit, l, pass),
           BeginsRight(pass)
    PROVE  WithLeft(nodes, l, pass, commit) = Paired(leaves, l, pass.start - 1)
  <1> DEFINE a == Ancestor(start, l)
             z == Ancestor(Len(leaves) - 1, l)
             H == {Node(leaves, l, i) : i \in Nat}
  <1>0. start \in Nat /\ Len(leaves) - 1 \in Nat /\ start <= Len(leaves) - 1 /\ l \in Nat
    BY MaxLevelAssumption DEF UpdateArgs
  <1>1. a \in Nat /\ z \in Nat /\ a <= z /\ pass.start = a /\ a % 2 = 1
    BY <1>0, AncestorNat, AncestorMonotone DEF PassGood, BeginsRight
  <1>2. pass.hashes = [j \in 1 .. z - a + 1 |-> Node(leaves, l, a + j - 1)]
    BY DEF PassGood
  <1>3. PrevKey(l, pass, commit) = <<l, a - 1, NoCommit>>
    <2>1. CASE l > 0
      <3>1. pass.prev_complete
        BY <2>1, Zenon DEF PassGood
      <3> QED BY <1>1, <3>1, Zenon DEF PrevKey
    <2>2. CASE ~(l > 0)
      BY <1>1, <2>2, Zenon DEF PrevKey
    <2> QED BY <2>1, <2>2
  <1>4. Get(nodes, PrevKey(l, pass, commit)) = Node(leaves, l, a - 1)
    <2>1. a - 1 \in 0 .. a - 1
      BY <1>1
    <2>2. <<l, a - 1, NoCommit>> \in DOMAIN nodes /\ nodes[<<l, a - 1, NoCommit>>] = Node(leaves, l, a - 1)
      BY <2>1, Zenon DEF UpdateArgs, HasComplete
    <2> QED BY <1>3, <2>2, Zenon DEF Get
  <1>5. \A j \in 1 .. z - a + 1 : a + j - 1 \in Nat
    BY <1>1
  <1> HIDE DEF a, z
  <1>6. pass.hashes \in Seq(H) /\ Len(pass.hashes) = z - a + 1
    <2>1. pass.hashes \in [1 .. z - a + 1 -> H]
      BY <1>2, <1>5, Zenon
    <2>2. z - a + 1 \in Nat
      BY <1>1
    <2> HIDE DEF H
    <2> QED BY <2>1, <2>2
  <1>7. Node(leaves, l, a - 1) \in H
    BY <1>1
  <1> HIDE DEF H
  <1> DEFINE x == Node(leaves, l, a - 1)
             hs == <<x>> \o pass.hashes
  <1>8. /\ <<x>> \in Seq(H) /\ Len(<<x>>) = 1 /\ <<x>>[1] = x
    BY <1>7
  <1> HIDE DEF x
  <1>9. hs \in Seq(H) /\ Len(hs) = z - a + 2
    BY <1>1, <1>6, <1>8
  <1>10. ASSUME NEW j \in 1 .. z - (a - 1) + 1 PROVE hs[j] = Node(leaves, l, (a - 1) + j - 1)
    <2>1. CASE j = 1
      <3>1. hs[1] = x
        BY <1>6, <1>8
      <3>2. (a - 1) + 1 - 1 = a - 1
        BY <1>1
      <3> QED BY <2>1, <3>1, <3>2 DEF x
    <2>2. CASE j # 1
      <3>1. j - 1 \in 1 .. z - a + 1 /\ a + (j - 1) - 1 = (a - 1) + j - 1
        BY <1>1, <2>2
      <3>2. hs[j] = pass.hashes[j - 1]
        BY <1>6, <1>8, <3>1
      <3>3. pass.hashes[j - 1] = Node(leaves, l, a + (j - 1) - 1)
        BY <1>2, <3>1
      <3> QED BY <3>1, <3>2, <3>3, Zenon
    <2> QED BY <2>1, <2>2, Zenon
  <1>11. hs = [j \in 1 .. z - (a - 1) + 1 |-> hs[j]]
    <2>1. z - (a - 1) + 1 = z - a + 2
      BY <1>1
    <2> HIDE DEF hs
    <2> QED BY <1>9, <2>1
  <1>12. hs = [j \in 1 .. z - (a - 1) + 1 |-> Node(leaves, l, (a - 1) + j - 1)]
    <2> HIDE DEF hs
    <2> QED BY <1>10, <1>11
  <1>13. Paired(leaves, l, pass.start - 1) = [j \in 1 .. z - (a - 1) + 1 |-> Node(leaves, l, (a - 1) + j - 1)]
    BY <1>1, Zenon DEF Paired, z
  <1> QED BY <1>4, <1>12, <1>13, Zenon DEF x, WithLeft

\* The part of StepUp after the left sibling was loaded.
PairUp(level, hs, first, complete, prev_complete, puts, commit) ==
    LET n == (Len(hs) + 1) \div 2
        parents == [i \in 1 .. n |-> IF 2 * i <= Len(hs)
                                       THEN HashTwo(hs[2 * i - 1], hs[2 * i])
                                       ELSE HashOne(hs[2 * i - 1])]
    IN  [hashes |-> parents, start |-> first \div 2, complete |-> complete,
         prev_complete |-> prev_complete,
         puts |-> puts \o
                  [i \in 1 .. n |->
                     <<<<level + 1, first \div 2 + i - 1,
                         ParentCommit(i, n, complete, commit)>>, parents[i]>>]]

\* Pairing up the nodes of level l gives those of level l + 1.
LEMMA PairUpGood ==
    ASSUME NEW leaves, NEW start, NEW commit, NEW l \in 0 .. MaxLevel - 1, NEW first,
           NEW complete, NEW prev_complete, NEW puts,
           Len(leaves) \in Nat \ {0}, start \in 0 .. Len(leaves) - 1,
           first \in Nat, first % 2 = 0, first <= Ancestor(Len(leaves) - 1, l),
           first \div 2 = Ancestor(start, l + 1),
           complete <=> Whole(Len(leaves), l + 1), prev_complete,
           Lists(puts, PutsTo(leaves, start, commit, l))
    PROVE  PassGood(leaves, start, commit, l + 1,
                    PairUp(l, Paired(leaves, l, first), first, complete, prev_complete, puts, commit))
  <1> DEFINE n == Len(leaves)
             z == Ancestor(n - 1, l)
             z1 == Ancestor(n - 1, l + 1)
             a1 == Ancestor(start, l + 1)
             hs == Paired(leaves, l, first)
             N == (Len(hs) + 1) \div 2
             parents == [i \in 1 .. N |-> IF 2 * i <= Len(hs)
                                            THEN HashTwo(hs[2 * i - 1], hs[2 * i])
                                            ELSE HashOne(hs[2 * i - 1])]
             new == [i \in 1 .. N |-> <<<<l + 1, first \div 2 + i - 1,
                                          ParentCommit(i, N, complete, commit)>>, parents[i]>>]
             pass == PairUp(l, hs, first, complete, prev_complete, puts, commit)
  <1>0. l \in Nat /\ l + 1 \in Nat /\ n - 1 \in Nat /\ start \in Nat /\ n \in Nat \ {0} /\ start <= n - 1
    BY MaxLevelAssumption
  <1>1. z \in Nat /\ z1 = z \div 2 /\ z1 \in Nat /\ a1 \in Nat /\ a1 <= z1
    BY <1>0, AncestorUp, AncestorNat, AncestorMonotone
  <1>2. /\ pass.start = a1 /\ pass.hashes = parents /\ pass.complete = complete
        /\ pass.prev_complete = prev_complete /\ pass.puts = puts \o new
    BY Zenon DEF PairUp
  <1>3. /\ Len(hs) = z - first + 1
        /\ \A j \in 1 .. z - first + 1 : hs[j] = Node(leaves, l, first + j - 1)
    <2>1. z - first + 1 \in Nat
      BY <1>1
    <2>2. hs = [j \in 1 .. z - first + 1 |-> Node(leaves, l, first + j - 1)]
      BY Zenon DEF Paired
    <2> HIDE DEF hs, z
    <2> QED BY <2>1, <2>2
  <1> HIDE DEF hs, z, z1, a1
  <1> DEFINE a2 == first \div 2
  <1>3a. a2 = a1
    BY DEF a1
  <1>3b. first = 2 * a2 /\ a2 \in Nat
    OBVIOUS
  <1> HIDE DEF a2
  <1>3c. first = 2 * a1
    BY <1>3a, <1>3b
  <1>4. N = z1 - a1 + 1 /\ N \in Nat
    BY <1>1, <1>3, <1>3c
  <1>5. ASSUME NEW i \in 1 .. z1 - a1 + 1
        PROVE  parents[i] = Node(leaves, l + 1, a1 + i - 1)
    <2> DEFINE q == a1 + i - 1
    <2>1. q \in 0 .. z1 /\ 2 * q = first + (2 * i - 1) - 1 /\ 2 * q + 1 = first + 2 * i - 1
      BY <1>1, <1>3c
    <2>2. 2 * i <= Len(hs) <=> 2 * q + 1 <= z
      BY <1>1, <1>3, <2>1
    <2>3. 2 * i - 1 \in 1 .. z - first + 1
      BY <1>1, <1>3, <2>1
    <2>4. hs[2 * i - 1] = Node(leaves, l, 2 * q)
      BY <1>3, <2>1, <2>3
    <2>5. 2 * i <= Len(hs) => hs[2 * i] = Node(leaves, l, 2 * q + 1)
      <3>1. 2 * i <= Len(hs) => 2 * i \in 1 .. z - first + 1
        BY <1>1, <1>3
      <3> QED BY <1>3, <2>1, <3>1
    <2>6. parents[i] = IF 2 * i <= Len(hs) THEN HashTwo(hs[2 * i - 1], hs[2 * i])
                                           ELSE HashOne(hs[2 * i - 1])
      BY <1>4
    <2>7. Node(leaves, l + 1, q) = IF 2 * q + 1 <= z
                                     THEN HashTwo(Node(leaves, l, 2 * q), Node(leaves, l, 2 * q + 1))
                                     ELSE HashOne(Node(leaves, l, 2 * q))
      BY <1>0, <2>1, NodeUp DEF z, z1
    <2> HIDE DEF q, parents
    <2>8. parents[i] = Node(leaves, l + 1, q)
      BY <2>2, <2>4, <2>5, <2>6, <2>7, Zenon
    <2> QED BY <2>8 DEF q
  <1>6. parents = [i \in 1 .. z1 - a1 + 1 |-> parents[i]]
    BY <1>4
  <1>7. parents = [i \in 1 .. z1 - a1 + 1 |-> Node(leaves, l + 1, a1 + i - 1)]
    <2> HIDE DEF parents
    <2> QED BY <1>5, <1>6
  <1>8. ASSUME NEW i \in 1 .. z1 - a1 + 1
        PROVE  new[i] = <<NodeKey(n, commit, l + 1, a1 + i - 1), Node(leaves, l + 1, a1 + i - 1)>>
    <2>1. new[i] = <<<<l + 1, first \div 2 + i - 1, ParentCommit(i, N, complete, commit)>>, parents[i]>>
      BY <1>4, Zenon
    <2>2. i = N <=> a1 + i - 1 = z1
      BY <1>1, <1>4
    <2>3. ParentCommit(i, N, complete, commit) =
              IF a1 + i - 1 = z1 /\ ~Whole(n, l + 1) THEN commit ELSE NoCommit
      BY <2>2, Zenon DEF ParentCommit
    <2>4. NodeKey(n, commit, l + 1, a1 + i - 1) =
              <<l + 1, a1 + i - 1, ParentCommit(i, N, complete, commit)>>
      BY <2>3, Zenon DEF NodeKey, z1
    <2> HIDE DEF new, parents, N
    <2> QED BY <1>5, <2>1, <2>4, Zenon DEF a1
  <1>9. Lists(new, LevelPuts(leaves, start, commit, l + 1))
    <2> DEFINE S == LevelPuts(leaves, start, commit, l + 1)
    <2>1. S = {<<NodeKey(n, commit, l + 1, i), Node(leaves, l + 1, i)>> : i \in a1 .. z1}
      BY Zenon DEF LevelPuts, a1, z1
    <2>2. \A i \in 1 .. z1 - a1 + 1 : new[i] \in S
      <3>1. \A i \in 1 .. z1 - a1 + 1 : a1 + i - 1 \in a1 .. z1
        BY <1>1
      <3> HIDE DEF new
      <3> QED BY <1>8, <2>1, <3>1, Zenon
    <2>3. ASSUME NEW x \in S PROVE \E j \in 1 .. z1 - a1 + 1 : new[j] = x
      <3>1. PICK i \in a1 .. z1 : x = <<NodeKey(n, commit, l + 1, i), Node(leaves, l + 1, i)>>
        BY <2>1
      <3>2. i - a1 + 1 \in 1 .. z1 - a1 + 1 /\ a1 + (i - a1 + 1) - 1 = i
        BY <1>1
      <3> HIDE DEF new
      <3>3. new[i - a1 + 1] = x
        BY <1>8, <3>1, <3>2
      <3> QED BY <3>2, <3>3
    <2>4. new = [i \in 1 .. z1 - a1 + 1 |-> new[i]] /\ z1 - a1 + 1 \in Nat
      BY <1>4
    <2> HIDE DEF new, S
    <2>5. Lists(new, S)
      BY <2>2, <2>3, <2>4, ListsOf
    <2> QED BY <2>5 DEF S
  <1>10. PutsTo(leaves, start, commit, l + 1) =
             PutsTo(leaves, start, commit, l) \cup LevelPuts(leaves, start, commit, l + 1)
    <2>1. 0 .. l + 1 = (0 .. l) \cup {l + 1}
      BY <1>0
    <2> QED BY <2>1, Zenon DEF PutsTo
  <1>11. Lists(puts \o new, PutsTo(leaves, start, commit, l + 1))
    <2> HIDE DEF new
    <2> QED BY <1>9, <1>10, ListsUnion
  <1> HIDE DEF pass, new, parents
  <1>12. PassGood(leaves, start, commit, l + 1, pass)
    BY <1>2, <1>7, <1>11, Zenon DEF PassGood, a1, z1
  <1> QED BY <1>12, Zenon DEF pass, hs

\* Each pass computes its level.
LEMMA StepUpGood ==
    ASSUME NEW nodes, NEW leaves, NEW start, NEW hashes, NEW commit, NEW l \in 0 .. MaxLevel - 1, NEW pass,
           UpdateArgs(nodes, leaves, start, hashes, commit),
           PassGood(leaves, start, commit, l, pass)
    PROVE  PassGood(leaves, start, commit, l + 1, StepUp(nodes, l, pass, commit))
  <1> DEFINE n == Len(leaves)
             a == Ancestor(start, l)
             z == Ancestor(n - 1, l)
  <1>0. /\ n \in Nat \ {0} /\ start \in 0 .. n - 1 /\ start \in Nat /\ n - 1 \in Nat /\ start <= n - 1
        /\ l \in Nat /\ l \in 0 .. MaxLevel
    BY MaxLevelAssumption DEF UpdateArgs
  <1>1. a \in Nat /\ z \in Nat /\ a <= z /\ pass.start = a /\ Ancestor(start, l + 1) = a \div 2
    BY <1>0, AncestorNat, AncestorMonotone, AncestorUp DEF PassGood
  <1>2. /\ pass.complete <=> Whole(n, l)
        /\ Lists(pass.puts, PutsTo(leaves, start, commit, l))
        /\ (l > 0 \/ start % 2 = 0) => pass.prev_complete
    BY Zenon DEF PassGood
  <1>3. Whole(n, l + 1) <=> Whole(n, l) /\ z % 2 = 1
    BY <1>0, WholeUp, Zenon
  <1>4. ASSUME NEW first, NEW prev_complete, first \in Nat, first % 2 = 0, first <= z,
               first \div 2 = Ancestor(start, l + 1), prev_complete
        PROVE  PassGood(leaves, start, commit, l + 1,
                   PairUp(l, Paired(leaves, l, first), first,
                          pass.complete /\ Len(Paired(leaves, l, first)) % 2 = 0,
                          prev_complete, pass.puts, commit))
    <2> DEFINE complete == pass.complete /\ Len(Paired(leaves, l, first)) % 2 = 0
    <2>1. Len(Paired(leaves, l, first)) = z - first + 1
      <3>1. z - first + 1 \in Nat
        BY <1>1, <1>4
      <3>2. Paired(leaves, l, first) = [j \in 1 .. z - first + 1 |-> Node(leaves, l, first + j - 1)]
        BY Zenon DEF Paired
      <3> HIDE DEF z
      <3> QED BY <3>1, <3>2
    <2>2. (z - first + 1) % 2 = 0 <=> z % 2 = 1
      <3> HIDE DEF z
      <3> QED BY <1>1, <1>4
    <2>3. complete <=> Whole(n, l + 1)
      BY <1>2, <1>3, <2>1, <2>2, Zenon
    <2> HIDE DEF complete
    <2>4. PassGood(leaves, start, commit, l + 1,
                   PairUp(l, Paired(leaves, l, first), first, complete, prev_complete, pass.puts, commit))
      BY <1>0, <1>2, <1>4, <2>3, PairUpGood, Zenon
    <2> QED BY <2>4 DEF complete
  <1>5. CASE a % 2 = 1
    <2> DEFINE hs == <<Get(nodes, PrevKey(l, pass, commit))>> \o pass.hashes
    <2>1. hs = Paired(leaves, l, a - 1)
      <3>1. pass.start = a
        BY <1>1
      <3>2. BeginsRight(pass)
        BY <1>5, <3>1, Zenon DEF BeginsRight
      <3>3. l \in 0 .. MaxLevel
        BY <1>0
      <3> HIDE DEF a, z, n, hs
      <3>4. WithLeft(nodes, l, pass, commit) = Paired(leaves, l, pass.start - 1)
        BY <3>2, <3>3, PairedHashes
      <3> QED BY <3>1, <3>4, Zenon DEF WithLeft, hs
    <2>2. a - 1 \in Nat /\ (a - 1) % 2 = 0 /\ a - 1 <= z /\ (a - 1) \div 2 = Ancestor(start, l + 1)
      <3> HIDE DEF a, z
      <3> QED BY <1>1, <1>5
    <2>3. EvenBefore(a - 1)
      <3> HIDE DEF a
      <3> QED BY <1>1, <1>5 DEF EvenBefore
    <2>4. StepUp(nodes, l, pass, commit) =
              PairUp(l, hs, a - 1, pass.complete /\ Len(hs) % 2 = 0, EvenBefore(a - 1), pass.puts, commit)
      BY <1>1, <1>5, Zenon DEF StepUp, PairUp
    <2> HIDE DEF hs, a
    <2> QED BY <1>4, <2>1, <2>2, <2>3, <2>4
  <1>6. CASE a % 2 # 1
    <2>1. a % 2 = 0 /\ a <= z /\ a \div 2 = Ancestor(start, l + 1)
      <3> HIDE DEF a
      <3> QED BY <1>1, <1>6
    <2>2. pass.hashes = Paired(leaves, l, a)
      BY Zenon DEF PassGood, Paired
    <2>3. pass.prev_complete
      <3>1. l > 0 \/ l = 0
        BY <1>0
      <3>2. l = 0 => start % 2 = 0
        BY <1>0, <2>1, AncestorUp
      <3> QED BY <1>2, <3>1, <3>2, Zenon
    <2>4. StepUp(nodes, l, pass, commit) =
              PairUp(l, pass.hashes, a, pass.complete /\ Len(pass.hashes) % 2 = 0,
                     pass.prev_complete, pass.puts, commit)
      BY <1>1, <1>6, Zenon DEF StepUp, PairUp
    <2> HIDE DEF a
    <2> QED BY <1>1, <1>4, <2>1, <2>2, <2>3, <2>4, Zenon
  <1> QED BY <1>5, <1>6

\* Every pass of an update computes its level.
LEMMA PassesGood ==
    ASSUME NEW nodes, NEW leaves, NEW start, NEW hashes, NEW commit,
           UpdateArgs(nodes, leaves, start, hashes, commit)
    PROVE  \A l \in 0 .. MaxLevel :
               PassGood(leaves, start, commit, l, Passes(nodes, start, hashes, commit)[l])
  <1> DEFINE pass == Passes(nodes, start, hashes, commit)
             T == {l \in Nat : l <= MaxLevel => PassGood(leaves, start, commit, l, pass[l])}
  <1>1. 0 \in T
    BY LeavesGood, PassesUp
  <1>2. ASSUME NEW l \in Nat, l \in T PROVE l + 1 \in T
    <2> SUFFICES ASSUME l + 1 <= MaxLevel PROVE PassGood(leaves, start, commit, l + 1, pass[l + 1])
      OBVIOUS
    <2>1. l \in 0 .. MaxLevel - 1 /\ l <= MaxLevel
      BY MaxLevelAssumption
    <2>2. PassGood(leaves, start, commit, l, pass[l])
      BY <1>2, <2>1
    <2>3. pass[l + 1] = StepUp(nodes, l, pass[l], commit)
      BY <2>1, PassesUp
    <2> HIDE DEF pass
    <2> QED BY <2>1, <2>2, <2>3, StepUpGood
  <1>3. \A l \in Nat : l \in T
    <2> HIDE DEF T
    <2> QED BY <1>1, <1>2, SetInduction
  <1> QED BY <1>3, MaxLevelAssumption

\* The loop of update ends at the root of the reference tree.
LEMMA UpdateTop ==
    ASSUME NEW nodes, NEW leaves, NEW start, NEW hashes, NEW commit,
           UpdateArgs(nodes, leaves, start, hashes, commit)
    PROVE  (CHOOSE l \in 0 .. MaxLevel :
                /\ AtRoot(Passes(nodes, start, hashes, commit)[l])
                /\ \A k \in 0 .. l - 1 : ~AtRoot(Passes(nodes, start, hashes, commit)[k]))
              = RefHeight(Len(leaves) - 1)
  <1> DEFINE pass == Passes(nodes, start, hashes, commit)
             s == Len(leaves) - 1
             top == RefHeight(s)
  <1>0. s \in Nat /\ start \in Nat /\ start <= s /\ Ancestor(s, MaxLevel) = 0
    BY DEF UpdateArgs
  <1>1. top \in 0 .. MaxLevel /\ Ancestor(s, top) = 0 /\ \A k \in 0 .. top - 1 : Ancestor(s, k) > 0
    BY <1>0, HeightFacts
  <1>2. ASSUME NEW l \in 0 .. MaxLevel PROVE AtRoot(pass[l]) <=> Ancestor(s, l) = 0
    <2> DEFINE a == Ancestor(start, l)
               z == Ancestor(s, l)
    <2>1. PassGood(leaves, start, commit, l, pass[l])
      BY PassesGood
    <2>2. l \in Nat
      BY MaxLevelAssumption
    <2>3. a \in Nat /\ z \in Nat /\ a <= z
      BY <1>0, <2>2, AncestorNat, AncestorMonotone
    <2> HIDE DEF pass
    <2>4. pass[l].start = a /\ pass[l].hashes = [j \in 1 .. z - a + 1 |-> Node(leaves, l, a + j - 1)]
      BY <2>1, Zenon DEF PassGood
    <2> HIDE DEF a, z
    <2>5. Len(pass[l].hashes) = z - a + 1
      BY <2>3, <2>4
    <2>6. AtRoot(pass[l]) <=> z = 0
      BY <2>3, <2>4, <2>5 DEF AtRoot
    <2> QED BY <2>6 DEF z
  <1> HIDE DEF pass, s, top
  <1>3. ASSUME NEW l \in 0 .. MaxLevel
        PROVE  (AtRoot(pass[l]) /\ \A k \in 0 .. l - 1 : ~AtRoot(pass[k])) <=> l = top
    <2>1. \A k \in 0 .. MaxLevel : k \in Nat /\ Ancestor(s, k) \in Nat
      <3>1. \A k \in 0 .. MaxLevel : k \in Nat
        BY MaxLevelAssumption
      <3> QED BY <1>0, <3>1, AncestorNat, Zenon
    <2>2. \A k \in 0 .. l - 1 : k \in 0 .. MaxLevel
      BY MaxLevelAssumption
    <2>3. \A k \in 0 .. top - 1 : k \in 0 .. MaxLevel
      BY <1>1, MaxLevelAssumption
    <2>4. CASE l = top
      <3>1. AtRoot(pass[l])
        BY <1>1, <1>2, <2>4
      <3>2. \A k \in 0 .. l - 1 : ~AtRoot(pass[k])
        BY <1>1, <1>2, <2>3, <2>4
      <3> QED BY <2>4, <3>1, <3>2
    <2>5. CASE l < top
      <3>1. l \in 0 .. top - 1
        BY <1>1, <2>1, <2>5
      <3>2. ~AtRoot(pass[l])
        BY <1>1, <1>2, <3>1
      <3> QED BY <1>1, <2>1, <2>5, <3>2
    <2>6. CASE l > top
      <3>1. top \in 0 .. l - 1
        BY <1>1, <2>1, <2>6
      <3>2. AtRoot(pass[top])
        BY <1>1, <1>2
      <3> QED BY <1>1, <2>1, <2>6, <3>1, <3>2
    <2> QED BY <1>1, <2>1, <2>4, <2>5, <2>6
  <1>4. (CHOOSE l \in 0 .. MaxLevel : AtRoot(pass[l]) /\ \A k \in 0 .. l - 1 : ~AtRoot(pass[k]))
            = (CHOOSE l \in 0 .. MaxLevel : l = top)
    BY <1>3, Zenon
  <1>5. (CHOOSE l \in 0 .. MaxLevel : l = top) = top
    BY <1>1, Zenon
  <1> QED BY <1>4, <1>5, Zenon DEF pass, s, top

\* update (merkletree.cc:8) returns the root of the tree over all leaves and the
\* key it is stored under, and puts every node that is new or has changed.
THEOREM UpdateCorrect ==
    ASSUME NEW nodes, NEW leaves, NEW start, NEW hashes, NEW commit,
           UpdateArgs(nodes, leaves, start, hashes, commit)
    PROVE  LET u == Update(nodes, start, hashes, commit)
               top == RefHeight(Len(leaves) - 1)
           IN  /\ u.root_hash = RefRoot(leaves)
               /\ u.root_key = NodeKey(Len(leaves), commit, top, 0)
               /\ Lists(u.puts, PutsTo(leaves, start, commit, top))
  <1> DEFINE pass == Passes(nodes, start, hashes, commit)
             s == Len(leaves) - 1
             top == RefHeight(s)
             u == Update(nodes, start, hashes, commit)
  <1>0. s \in Nat /\ start \in Nat /\ start <= s /\ Ancestor(s, MaxLevel) = 0
    BY DEF UpdateArgs
  <1>1. top \in 0 .. MaxLevel /\ Ancestor(s, top) = 0
    BY <1>0, HeightFacts
  <1>2. PassGood(leaves, start, commit, top, pass[top])
    BY <1>1, PassesGood
  <1>3. /\ u.puts = pass[top].puts /\ u.root_hash = pass[top].hashes[1]
        /\ u.root_key = <<top, 0, IF pass[top].complete THEN NoCommit ELSE commit>>
    <2> DEFINE t == CHOOSE l \in 0 .. MaxLevel : AtRoot(pass[l]) /\ \A k \in 0 .. l - 1 : ~AtRoot(pass[k])
    <2>1. t = top
      BY UpdateTop, Zenon
    <2>2. u = [puts |-> pass[t].puts,
               root_key |-> <<t, 0, IF pass[t].complete THEN NoCommit ELSE commit>>,
               root_hash |-> pass[t].hashes[1]]
      BY Zenon DEF Update
    <2> HIDE DEF t, u, pass, top
    <2> QED BY <2>1, <2>2
  <1>4. Ancestor(start, top) = 0
    <2>1. top \in Nat
      BY <1>1, MaxLevelAssumption
    <2>2. Ancestor(start, top) \in Nat /\ Ancestor(start, top) <= Ancestor(s, top)
      BY <1>0, <2>1, AncestorNat, AncestorMonotone
    <2> QED BY <1>1, <2>2
  <1>5. u.root_hash = RefRoot(leaves)
    <2>1. pass[top].hashes = [j \in 1 .. 0 - 0 + 1 |-> Node(leaves, top, 0 + j - 1)]
      BY <1>1, <1>2, <1>4, Zenon DEF PassGood
    <2>2. pass[top].hashes[1] = Node(leaves, top, 0)
      <3> HIDE DEF pass, top
      <3> QED BY <2>1
    <2> QED BY <1>3, <2>2, Zenon DEF RefRoot, Node
  <1>6. u.root_key = NodeKey(Len(leaves), commit, top, 0)
    BY <1>1, <1>2, <1>3, Zenon DEF PassGood, NodeKey
  <1>7. Lists(u.puts, PutsTo(leaves, start, commit, top))
    BY <1>2, <1>3, Zenon DEF PassGood
  <1> QED BY <1>5, <1>6, <1>7, Zenon

-----------------------------------------------------------------------------
(* The trees of earlier commits stay in the store *)

\* The nodes hold the whole tree of a commit under the keys of that commit.
HasTree(nodes, leaves, commit) ==
    \A l \in 0 .. RefHeight(Len(leaves) - 1) : \A i \in 0 .. Ancestor(Len(leaves) - 1, l) :
        /\ NodeKey(Len(leaves), commit, l, i) \in DOMAIN nodes
        /\ nodes[NodeKey(Len(leaves), commit, l, i)] = Node(leaves, l, i)

\* The keys without a commit are those of the complete nodes.
LEMMA CompleteKey ==
    ASSUME NEW n \in Nat \ {0}, NEW commit, NEW l \in Nat,
           NEW i \in 0 .. Ancestor(n - 1, l)
    PROVE  /\ i < Ancestor(n, l) => NodeKey(n, commit, l, i) = <<l, i, NoCommit>>
           /\ ~(i < Ancestor(n, l)) => NodeKey(n, commit, l, i) = <<l, i, commit>>
  <1> DEFINE z == Ancestor(n - 1, l)
             m == Ancestor(n, l)
  <1>1. z \in Nat /\ m \in Nat /\ (m = z \/ m = z + 1) /\ (Whole(n, l) <=> m = z + 1)
    BY CompleteIsNode DEF Whole
  <1>2. i \in 0 .. z
    OBVIOUS
  <1> HIDE DEF z, m
  <1>3. i < m <=> ~(i = z /\ ~Whole(n, l))
    BY <1>1, <1>2
  <1>4. NodeKey(n, commit, l, i) = <<l, i, IF i = z /\ ~Whole(n, l) THEN commit ELSE NoCommit>>
    BY Zenon DEF NodeKey, z
  <1> QED BY <1>3, <1>4, Zenon DEF m

\* The tree of a commit has the complete nodes that the next update needs.
LEMMA TreeHasComplete ==
    ASSUME NEW nodes, NEW a, NEW b, NEW commit, Len(a) \in Nat \ {0}, Len(b) \in Nat, Len(a) <= Len(b),
           \A j \in 1 .. Len(a) : a[j] = b[j],
           Ancestor(Len(a) - 1, MaxLevel) = 0, HasTree(nodes, a, commit)
    PROVE  HasComplete(nodes, b, Len(a))
  <1> DEFINE n == Len(a)
  <1> SUFFICES ASSUME NEW l \in 0 .. MaxLevel, NEW i \in 0 .. Ancestor(n, l) - 1
               PROVE  /\ <<l, i, NoCommit>> \in DOMAIN nodes
                      /\ nodes[<<l, i, NoCommit>>] = Node(b, l, i)
    BY Zenon DEF HasComplete
  <1>1. l \in Nat
    BY MaxLevelAssumption
  <1>2. /\ Ancestor(n, l) \in Nat /\ Ancestor(n - 1, l) \in Nat
        /\ Ancestor(n, l) <= Ancestor(n - 1, l) + 1
    BY <1>1, CompleteIsNode
  <1>3. i \in 0 .. Ancestor(n - 1, l) /\ i < Ancestor(n, l) /\ Ancestor(n, l) > 0
    BY <1>2
  <1>4. RefHeight(n - 1) \in Nat /\ l <= RefHeight(n - 1)
    <2>1. n - 1 \in Nat
      OBVIOUS
    <2>2. RefHeight(n - 1) \in 0 .. MaxLevel
      BY <2>1, HeightFacts
    <2> QED BY <1>1, <1>3, <2>2, CompleteBelowRoot, MaxLevelAssumption
  <1>5. l \in 0 .. RefHeight(n - 1)
    BY <1>1, <1>4
  <1>6. NodeKey(n, commit, l, i) = <<l, i, NoCommit>>
    BY <1>1, <1>3, CompleteKey
  <1>7. <<l, i, NoCommit>> \in DOMAIN nodes /\ nodes[<<l, i, NoCommit>>] = Node(a, l, i)
    BY <1>3, <1>5, <1>6, Zenon DEF HasTree
  <1>8. Node(a, l, i) = Node(b, l, i)
    BY CompleteNodesStay
  <1> QED BY <1>7, <1>8, Zenon

\* Before the first leaf there is no complete node.
LEMMA NoneComplete == ASSUME NEW nodes, NEW leaves PROVE HasComplete(nodes, leaves, 0)
  <1>1. Ancestor(0, 0) = 0
    BY AncestorUp
  <1>2. \A l \in Nat : Ancestor(0, l) = 0
    BY <1>1, AncestorZero
  <1>3. \A l \in 0 .. MaxLevel : 0 .. Ancestor(0, l) - 1 = {}
    BY <1>2, MaxLevelAssumption
  <1> QED BY <1>3 DEF HasComplete

\* An update from leaf start on never puts a node of an earlier commit: what it
\* puts without a commit was not complete before.
LEMMA PutsAreNew ==
    ASSUME NEW n \in Nat \ {0}, NEW m \in Nat \ {0}, NEW start \in Nat, m <= start, start < n,
           NEW c, NEW d, c # d, c # NoCommit, d # NoCommit,
           NEW l \in Nat, NEW i \in Ancestor(start, l) .. Ancestor(n - 1, l),
           NEW k \in Nat, NEW j \in 0 .. Ancestor(m - 1, k)
    PROVE  NodeKey(n, c, l, i) # NodeKey(m, d, k, j)
  <1> SUFFICES ASSUME NodeKey(n, c, l, i) = NodeKey(m, d, k, j) PROVE FALSE
    OBVIOUS
  <1>1. l = k /\ i = j
    BY DEF NodeKey
  <1>2. /\ Ancestor(start, l) \in Nat /\ Ancestor(n - 1, l) \in Nat /\ Ancestor(m, l) \in Nat
        /\ Ancestor(m, l) <= Ancestor(start, l) /\ Ancestor(n, l) \in Nat
    BY AncestorNat, AncestorMonotone
  <1>3. i \in 0 .. Ancestor(n - 1, l)
    BY <1>2
  <1>4. ~(j < Ancestor(m, k))
    BY <1>1, <1>2
  <1>5. NodeKey(m, d, k, j) = <<k, j, d>>
    BY <1>4, CompleteKey
  <1>6. NodeKey(n, c, l, i) = <<l, i, NoCommit>> \/ NodeKey(n, c, l, i) = <<l, i, c>>
    BY <1>3, CompleteKey
  <1> QED BY <1>5, <1>6

-----------------------------------------------------------------------------
(* getProof and Verify *)

\* The sibling of the ancestor of seq at level l, if the tree has it.
Sibling(leaves, seq, l) ==
    LET ptr == Ancestor(seq, l)
    IN  IF ptr % 2 = 1 THEN Node(leaves, l, ptr - 1)
        ELSE IF ptr = Ancestor(Len(leaves) - 1, l) THEN Missing
        ELSE Node(leaves, l, ptr + 1)

\* What the j-th read of getProof has to return.
ProofValue(leaves, seq, j) ==
    IF j = 1 THEN RefRoot(leaves)
    ELSE IF j = 2 THEN leaves[seq + 1]
    ELSE Sibling(leaves, seq, j - 3)

\* getProof finds each sibling under the key the commit stored it under.
LEMMA SiblingRead ==
    ASSUME NEW nodes, NEW leaves, NEW commit, Len(leaves) \in Nat \ {0},
           Ancestor(Len(leaves) - 1, MaxLevel) = 0,
           HasTree(nodes, leaves, commit), NoSibling \notin DOMAIN nodes,
           NEW seq \in 0 .. Len(leaves) - 1, NEW l \in 0 .. RefHeight(Len(leaves) - 1)
    PROVE  Get(nodes, SiblingKey(commit, Len(leaves) - 1, seq, l)) = Sibling(leaves, seq, l)
  <1> DEFINE n == Len(leaves)
             ptr == Ancestor(seq, l)
             z == Ancestor(n - 1, l)
             m == Ancestor(n, l)
             key == SiblingKey(commit, n - 1, seq, l)
  <1>0. n - 1 \in Nat /\ n \in Nat \ {0} /\ seq \in Nat /\ seq <= n - 1
    OBVIOUS
  <1>1. l \in Nat
    BY <1>0, HeightFacts, MaxLevelAssumption
  <1>2. ptr \in Nat /\ z \in Nat /\ m \in Nat /\ ptr <= z /\ (m = z \/ m = z + 1) /\ (Whole(n, l) <=> m = z + 1)
    BY <1>0, <1>1, AncestorNat, AncestorMonotone, CompleteIsNode, Zenon DEF Whole
  <1>3. FullTo(n - 1, l) <=> Whole(n, l) /\ z % 2 = 1
    BY <1>0, <1>1, FullToIsWhole, WholeUp, Zenon
  <1>4. ASSUME NEW i \in 0 .. z PROVE Get(nodes, NodeKey(n, commit, l, i)) = Node(leaves, l, i)
    BY Zenon DEF HasTree, Get
  <1>5. key = IF ptr % 2 = 1 THEN <<l, ptr - 1, NoCommit>>
              ELSE IF ptr = z THEN NoSibling
              ELSE <<l, ptr + 1, IF ptr + 1 = z /\ l > 0 /\ ~FullTo(n - 1, l)
                                   THEN commit ELSE NoCommit>>
    BY Zenon DEF SiblingKey
  <1>6. \A i \in 0 .. z : /\ i < m => NodeKey(n, commit, l, i) = <<l, i, NoCommit>>
                          /\ ~(i < m) => NodeKey(n, commit, l, i) = <<l, i, commit>>
    BY <1>0, <1>1, CompleteKey
  <1>7. l = 0 => m = z + 1
    BY <1>0, <1>2, WholeUp
  <1>8. Sibling(leaves, seq, l) = IF ptr % 2 = 1 THEN Node(leaves, l, ptr - 1)
                                  ELSE IF ptr = z THEN Missing ELSE Node(leaves, l, ptr + 1)
    BY Zenon DEF Sibling
  <1> HIDE DEF ptr, z, m, key, n
  <1>9. CASE ptr % 2 = 1
    <2>1. ptr - 1 \in 0 .. z /\ ptr - 1 < m
      BY <1>2, <1>9
    <2>2. key = NodeKey(n, commit, l, ptr - 1)
      BY <1>5, <1>6, <1>9, <2>1
    <2>3. Get(nodes, key) = Node(leaves, l, ptr - 1)
      BY <1>4, <2>1, <2>2
    <2> QED BY <1>8, <1>9, <2>3, Zenon DEF key, n
  <1>10. CASE ptr % 2 # 1 /\ ptr = z
    <2>1. Get(nodes, key) = Missing
      BY <1>5, <1>10, Zenon DEF Get
    <2> QED BY <1>8, <1>10, <2>1, Zenon DEF key, n
  <1>11. CASE ptr % 2 # 1 /\ ptr # z
    <2>1. ptr + 1 \in 0 .. z
      BY <1>2, <1>11
    <2>2. key = <<l, ptr + 1, IF ptr + 1 = z /\ l > 0 /\ ~FullTo(n - 1, l) THEN commit ELSE NoCommit>>
      BY <1>5, <1>11
    <2>3. (ptr + 1 = z /\ l > 0 /\ ~FullTo(n - 1, l)) <=> ~(ptr + 1 < m)
      <3>1. CASE ptr + 1 # z
        BY <1>2, <2>1, <3>1
      <3>2. CASE ptr + 1 = z
        <4>1. z % 2 = 1
          BY <1>2, <1>11, <3>2
        <4>2. ~(ptr + 1 < m) <=> ~Whole(n, l)
          BY <1>2, <3>2
        <4>3. ~Whole(n, l) => l > 0
          BY <1>1, <1>2, <1>7
        <4> QED BY <1>3, <3>2, <4>1, <4>2, <4>3, Zenon
      <3> QED BY <3>1, <3>2
    <2>4. key = NodeKey(n, commit, l, ptr + 1)
      BY <1>6, <2>1, <2>2, <2>3
    <2>5. Get(nodes, key) = Node(leaves, l, ptr + 1)
      BY <1>4, <2>1, <2>4
    <2> QED BY <1>8, <1>11, <2>5, Zenon DEF key, n
  <1> QED BY <1>9, <1>10, <1>11

\* The reads under these keys return the root, the leaf and its siblings.
ReadsProof(nodes, leaves, seq, keys) ==
    /\ Len(keys) = RefHeight(Len(leaves) - 1) + 2
    /\ \A j \in 1 .. Len(keys) : Get(nodes, keys[j]) = ProofValue(leaves, seq, j)

\* All reads of getProof: the root, the leaf and one sibling per level.
LEMMA ProofReads ==
    ASSUME NEW nodes, NEW leaves, NEW commit, Len(leaves) \in Nat \ {0},
           Ancestor(Len(leaves) - 1, MaxLevel) = 0,
           HasTree(nodes, leaves, commit), NoSibling \notin DOMAIN nodes,
           NEW seq \in 0 .. Len(leaves) - 1, NEW root_key,
           root_key = NodeKey(Len(leaves), commit, RefHeight(Len(leaves) - 1), 0)
    PROVE  ReadsProof(nodes, leaves, seq, ProofKeys(commit, root_key, Len(leaves) - 1, seq))
  <1> DEFINE n == Len(leaves)
             top == RefHeight(n - 1)
             front == <<root_key, <<0, seq, NoCommit>>>>
             sibs == [i \in 1 .. top |-> SiblingKey(commit, n - 1, seq, i - 1)]
             keys == ProofKeys(commit, root_key, n - 1, seq)
             K == {root_key, <<0, seq, NoCommit>>} \cup {sibs[i] : i \in 1 .. top}
  <1>0. n - 1 \in Nat /\ n \in Nat \ {0} /\ seq \in Nat
    OBVIOUS
  <1>1. top \in Nat /\ Ancestor(n - 1, top) = 0 /\ 0 \in 0 .. top /\ top \in 0 .. top
    BY <1>0, HeightFacts, MaxLevelAssumption
  <1>2. root_key[1] = top
    BY DEF NodeKey
  <1>3. keys = front \o sibs
    BY <1>2, Zenon DEF ProofKeys
  <1> HIDE DEF top
  <1>4. front \in Seq(K) /\ sibs \in Seq(K) /\ Len(front) = 2 /\ Len(sibs) = top
    <2>1. sibs \in [1 .. top -> K]
      OBVIOUS
    <2>2. root_key \in K /\ <<0, seq, NoCommit>> \in K
      OBVIOUS
    <2> HIDE DEF K, sibs
    <2> QED BY <1>1, <2>1, <2>2
  <1> HIDE DEF K, keys
  <1>4a. /\ keys \in Seq(K) /\ Len(keys) = Len(front) + Len(sibs)
         /\ \A j \in 1 .. Len(front) : keys[j] = front[j]
         /\ \A j \in 1 .. Len(sibs) : keys[Len(front) + j] = sibs[j]
    <2> HIDE DEF front, sibs
    <2>1. front \in Seq(K) /\ sibs \in Seq(K)
      BY <1>4
    <2>2. /\ front \o sibs \in Seq(K) /\ Len(front \o sibs) = Len(front) + Len(sibs)
          /\ \A j \in 1 .. Len(front) : (front \o sibs)[j] = front[j]
          /\ \A j \in 1 .. Len(sibs) : (front \o sibs)[Len(front) + j] = sibs[j]
      BY <2>1, ConcatFacts, SMT
    <2> QED BY <1>3, <2>2, Zenon
  <1>5. keys \in Seq(K) /\ Len(keys) = top + 2
    <2> HIDE DEF front, sibs
    <2> QED BY <1>1, <1>4, <1>4a
  <1>6. keys[1] = root_key /\ keys[2] = <<0, seq, NoCommit>>
    <2>1. keys[1] = front[1] /\ keys[2] = front[2]
      <3> HIDE DEF front, sibs
      <3> QED BY <1>4, <1>4a
    <2> QED BY <2>1
  <1>7. ASSUME NEW j \in 3 .. top + 2 PROVE keys[j] = SiblingKey(commit, n - 1, seq, j - 3)
    <2>1. j - 2 \in 1 .. top /\ (j - 2) - 1 = j - 3
      BY <1>1
    <2>2. keys[j] = sibs[j - 2]
      <3>1. 2 + (j - 2) = j
        OBVIOUS
      <3> HIDE DEF front, sibs
      <3> QED BY <1>4, <1>4a, <2>1, <3>1
    <2>3. sibs[j - 2] = SiblingKey(commit, n - 1, seq, (j - 2) - 1)
      BY <2>1
    <2> QED BY <2>1, <2>2, <2>3
  <1>8. Get(nodes, keys[1]) = ProofValue(leaves, seq, 1)
    <2>1. root_key \in DOMAIN nodes /\ nodes[root_key] = Node(leaves, top, 0)
      <3>1. 0 \in 0 .. Ancestor(n - 1, top)
        BY <1>1
      <3> QED BY <1>1, <3>1, Zenon DEF HasTree, top
    <2> QED BY <1>6, <2>1, Zenon DEF Get, ProofValue, RefRoot, Node, top
  <1>9. Get(nodes, keys[2]) = ProofValue(leaves, seq, 2)
    <2>1. Ancestor(n - 1, 0) = n - 1 /\ Ancestor(n, 0) = n
      BY <1>0, AncestorUp, Zenon
    <2>2. seq \in 0 .. Ancestor(n - 1, 0) /\ seq < Ancestor(n, 0)
      BY <1>0, <2>1
    <2>3. NodeKey(n, commit, 0, seq) = <<0, seq, NoCommit>>
      BY <1>0, <2>2, CompleteKey
    <2>4. <<0, seq, NoCommit>> \in DOMAIN nodes /\ nodes[<<0, seq, NoCommit>>] = Node(leaves, 0, seq)
      BY <1>1, <2>2, <2>3, Zenon DEF HasTree, top
    <2>5. Node(leaves, 0, seq) = leaves[seq + 1]
      BY <1>0, NodeUp
    <2>6. ProofValue(leaves, seq, 2) = leaves[seq + 1]
      BY DEF ProofValue
    <2> QED BY <1>6, <2>4, <2>5, <2>6, Zenon DEF Get
  <1>10. ASSUME NEW j \in 3 .. top + 2 PROVE Get(nodes, keys[j]) = ProofValue(leaves, seq, j)
    <2>1. j - 3 \in 0 .. top /\ j # 1 /\ j # 2
      BY <1>1
    <2>2. Get(nodes, SiblingKey(commit, n - 1, seq, j - 3)) = Sibling(leaves, seq, j - 3)
      BY <2>1, SiblingRead DEF top
    <2>3. ProofValue(leaves, seq, j) = Sibling(leaves, seq, j - 3)
      BY <2>1, Zenon DEF ProofValue
    <2> QED BY <1>7, <2>2, <2>3, Zenon
  <1>11. \A j \in 1 .. top + 2 : j = 1 \/ j = 2 \/ j \in 3 .. top + 2
    BY <1>1
  <1>12. \A j \in 1 .. Len(keys) : Get(nodes, keys[j]) = ProofValue(leaves, seq, j)
    BY <1>5, <1>8, <1>9, <1>10, <1>11, Zenon
  <1> QED BY <1>5, <1>12, Zenon DEF ReadsProof, keys, top

\* One step of Verify.
FoldUp(p, i, calc) ==
    IF i = 0 THEN p.value
    ELSE IF p.left[i] THEN HashTwo(p.proof[i], calc)
    ELSE IF p.proof[i] # Missing THEN HashTwo(calc, p.proof[i])
    ELSE HashOne(calc)

\* The hashes Verify computes exist, step by step.
LEMMA FoldSteps ==
    ASSUME NEW p, Len(p.proof) \in Nat
    PROVE  \A i \in 0 .. Len(p.proof) : Fold(p)[i] = FoldUp(p, i, Fold(p)[i - 1])
  <1> DEFINE len == Len(p.proof)
             Run(m, f) == f = [i \in 0 .. m |-> FoldUp(p, i, f[i - 1])]
             T == {m \in Nat : \E f : Run(m, f)}
  <1>0. \A x, y : FoldUp(p, 0, x) = FoldUp(p, 0, y)
    BY Zenon DEF FoldUp
  <1>1. 0 \in T
    <2> DEFINE f == [i \in 0 .. 0 |-> FoldUp(p, 0, 0)]
    <2>1. \A i \in 0 .. 0 : FoldUp(p, i, f[i - 1]) = FoldUp(p, 0, 0)
      BY <1>0
    <2>2. Run(0, f)
      BY <2>1
    <2> HIDE DEF f
    <2>3. \E g : Run(0, g)
      BY <2>2, Zenon
    <2> QED BY <2>3
  <1>2. ASSUME NEW m \in Nat, m \in T PROVE m + 1 \in T
    <2>1. PICK f : Run(m, f)
      BY <1>2
    <2> DEFINE g == [i \in 0 .. m + 1 |-> IF i = m + 1 THEN FoldUp(p, i, f[m]) ELSE f[i]]
    <2>2. ASSUME NEW i \in 0 .. m + 1 PROVE g[i] = FoldUp(p, i, g[i - 1])
      <3>1. CASE i = m + 1
        <4>1. g[i] = FoldUp(p, i, f[m]) /\ g[i - 1] = f[m]
          BY <3>1
        <4> QED BY <4>1
      <3>2. CASE i # m + 1 /\ i # 0
        <4>1. i \in 0 .. m /\ i - 1 \in 0 .. m + 1 /\ i - 1 # m + 1
          BY <3>2
        <4>2. f[i] = FoldUp(p, i, f[i - 1])
          BY <2>1, <4>1
        <4>3. g[i] = f[i] /\ g[i - 1] = f[i - 1]
          BY <4>1
        <4> QED BY <4>2, <4>3
      <3>3. CASE i = 0
        <4>1. f[0] = FoldUp(p, 0, f[0 - 1]) /\ g[0] = f[0]
          BY <2>1
        <4> QED BY <1>0, <3>3, <4>1
      <3> QED BY <3>1, <3>2, <3>3
    <2>3. g = [i \in 0 .. m + 1 |-> g[i]]
      OBVIOUS
    <2> HIDE DEF g
    <2>4. g = [i \in 0 .. m + 1 |-> FoldUp(p, i, g[i - 1])]
      BY <2>2, <2>3, Zenon
    <2>5. \E h : Run(m + 1, h)
      BY <2>4, Zenon
    <2> QED BY <2>5
  <1>3. \A m \in Nat : m \in T
    <2> HIDE DEF T
    <2> QED BY <1>1, <1>2, SetInduction
  <1>4. \E f : Run(len, f)
    BY <1>3
  <1> DEFINE R == CHOOSE f : Run(len, f)
  <1>5. Run(len, R)
    BY <1>4, Zenon
  <1>6. Fold(p) = R
    BY Zenon DEF Fold, FoldUp
  <1> HIDE DEF R, len
  <1>7. \A i \in 0 .. len : R[i] = FoldUp(p, i, R[i - 1])
    BY <1>5, Zenon
  <1> QED BY <1>6, <1>7, Zenon DEF len

\* getProof and Verify (merkletree.cc:77 and :133): the values read for a leaf of
\* the tree are a proof of that leaf that verifies against the root.
THEOREM ProofVerifies ==
    ASSUME NEW leaves, Len(leaves) \in Nat \ {0}, Ancestor(Len(leaves) - 1, MaxLevel) = 0,
           \A j \in 1 .. Len(leaves) : leaves[j] # Missing,
           NEW seq \in 0 .. Len(leaves) - 1,
           NEW S, NEW got \in Seq(S), Len(got) = RefHeight(Len(leaves) - 1) + 2,
           \A j \in 1 .. Len(got) : got[j] = ProofValue(leaves, seq, j)
    PROVE  LET p == ProofOf(seq, got)
           IN  p.digest = RefRoot(leaves) /\ p.value = leaves[seq + 1] /\ Verify(p)
  <1> DEFINE n == Len(leaves)
             top == RefHeight(n - 1)
             p == ProofOf(seq, got)
             proof == SubSeq(got, 3, Len(got))
  <1>0. n - 1 \in Nat /\ n \in Nat \ {0} /\ seq \in Nat /\ seq <= n - 1
    OBVIOUS
  <1>1. top \in 0 .. MaxLevel /\ top \in Nat /\ Ancestor(n - 1, top) = 0
    BY <1>0, HeightFacts, MaxLevelAssumption
  <1>2. /\ p.digest = got[1] /\ p.value = got[2] /\ p.proof = proof
        /\ p.left = [i \in 1 .. Len(got) - 2 |-> Ancestor(seq, i - 1) % 2 = 1]
    BY Zenon DEF ProofOf
  <1>3. Len(got) = top + 2
    OBVIOUS
  <1> HIDE DEF top
  <1>4. got[1] = RefRoot(leaves) /\ got[2] = leaves[seq + 1]
    BY <1>1, <1>3 DEF ProofValue
  <1>5. Len(proof) = top /\ \A i \in 1 .. top : proof[i] = got[i + 2]
    BY <1>1, <1>3
  <1>6. ASSUME NEW i \in 1 .. top PROVE p.proof[i] = Sibling(leaves, seq, i - 1)
    <2>1. i + 2 \in 1 .. Len(got) /\ i + 2 # 1 /\ i + 2 # 2 /\ (i + 2) - 3 = i - 1
      BY <1>1, <1>3
    <2>2. got[i + 2] = Sibling(leaves, seq, i - 1)
      BY <2>1, Zenon DEF ProofValue
    <2> HIDE DEF p, proof
    <2> QED BY <1>2, <1>5, <2>2
  <1>7. ASSUME NEW i \in 1 .. top PROVE p.left[i] <=> Ancestor(seq, i - 1) % 2 = 1
    <2>1. i \in 1 .. Len(got) - 2
      BY <1>1, <1>3
    <2> HIDE DEF p
    <2> QED BY <1>2, <2>1, Zenon
  <1>8. Len(p.proof) = top
    BY <1>2, <1>5, Zenon
  <1> HIDE DEF p, proof
  <1>9. \A i \in 0 .. top : Fold(p)[i] = FoldUp(p, i, Fold(p)[i - 1])
    BY <1>1, <1>8, FoldSteps
  <1> DEFINE T == {i \in Nat : i <= top => Fold(p)[i] = Node(leaves, i, Ancestor(seq, i))}
  <1>10. 0 \in T
    <2>1. Fold(p)[0] = p.value
      <3>1. 0 \in 0 .. top
        BY <1>1
      <3>2. Fold(p)[0] = FoldUp(p, 0, Fold(p)[0 - 1])
        BY <1>9, <3>1
      <3> QED BY <3>2, Zenon DEF FoldUp
    <2>2. Ancestor(seq, 0) = seq
      BY <1>0, AncestorUp
    <2>3. Node(leaves, 0, seq) = leaves[seq + 1]
      BY <1>0, NodeUp
    <2> QED BY <1>2, <1>4, <2>1, <2>2, <2>3
  <1>11. ASSUME NEW l \in Nat, l \in T PROVE l + 1 \in T
    <2> SUFFICES ASSUME l + 1 <= top
                 PROVE  Fold(p)[l + 1] = Node(leaves, l + 1, Ancestor(seq, l + 1))
      OBVIOUS
    <2> DEFINE ptr == Ancestor(seq, l)
               z == Ancestor(n - 1, l)
               q == Ancestor(seq, l + 1)
               calc == Fold(p)[l]
    <2>1. l + 1 \in 1 .. top /\ l + 1 \in 0 .. top /\ l + 1 # 0 /\ (l + 1) - 1 = l /\ l <= top
      BY <1>1
    <2>2. calc = Node(leaves, l, ptr)
      BY <1>11, <2>1
    <2>3. Fold(p)[l + 1] = FoldUp(p, l + 1, calc)
      BY <1>9, <2>1
    <2>4. p.proof[l + 1] = Sibling(leaves, seq, l) /\ (p.left[l + 1] <=> ptr % 2 = 1)
      <3>1. p.proof[l + 1] = Sibling(leaves, seq, (l + 1) - 1)
        BY <1>6, <2>1
      <3>2. p.left[l + 1] <=> Ancestor(seq, (l + 1) - 1) % 2 = 1
        BY <1>7, <2>1
      <3> QED BY <2>1, <3>1, <3>2, Zenon
    <2>5. ptr \in Nat /\ z \in Nat /\ ptr <= z /\ q = ptr \div 2
      BY <1>0, AncestorNat, AncestorMonotone, AncestorUp, Zenon
    <2>6. q \in 0 .. Ancestor(n - 1, l + 1)
      <3>1. l + 1 \in Nat
        OBVIOUS
      <3>2. q \in Nat /\ Ancestor(n - 1, l + 1) \in Nat /\ q <= Ancestor(n - 1, l + 1)
        BY <1>0, <3>1, AncestorNat, AncestorMonotone, Zenon
      <3> QED BY <3>2
    <2>7. Node(leaves, l + 1, q) = IF 2 * q + 1 <= z
                                     THEN HashTwo(Node(leaves, l, 2 * q), Node(leaves, l, 2 * q + 1))
                                     ELSE HashOne(Node(leaves, l, 2 * q))
      <3>1. l \in 0 .. MaxLevel - 1
        BY <1>1, <2>1, MaxLevelAssumption
      <3> QED BY <1>0, <2>6, <3>1, NodeUp
    <2>8. Sibling(leaves, seq, l) = IF ptr % 2 = 1 THEN Node(leaves, l, ptr - 1)
                                    ELSE IF ptr = z THEN Missing ELSE Node(leaves, l, ptr + 1)
      BY Zenon DEF Sibling
    <2>9. FoldUp(p, l + 1, calc) =
              IF p.left[l + 1] THEN HashTwo(p.proof[l + 1], calc)
              ELSE IF p.proof[l + 1] # Missing THEN HashTwo(calc, p.proof[l + 1])
              ELSE HashOne(calc)
      BY <2>1, Zenon DEF FoldUp
    <2> HIDE DEF ptr, z, q, calc
    <2>10. CASE ptr % 2 = 1
      <3>1. 2 * q = ptr - 1 /\ 2 * q + 1 = ptr /\ 2 * q + 1 <= z
        BY <2>5, <2>10
      <3> QED BY <2>2, <2>3, <2>4, <2>7, <2>8, <2>9, <2>10, <3>1, Zenon DEF q
    <2>11. CASE ptr % 2 # 1 /\ ptr = z
      <3>1. 2 * q = ptr /\ ~(2 * q + 1 <= z)
        BY <2>5, <2>11
      <3> QED BY <2>2, <2>3, <2>4, <2>7, <2>8, <2>9, <2>11, <3>1, Zenon DEF q
    <2>12. CASE ptr % 2 # 1 /\ ptr # z
      <3>1. 2 * q = ptr /\ 2 * q + 1 = ptr + 1 /\ 2 * q + 1 <= z /\ ptr + 1 \in 0 .. z
        BY <2>5, <2>12
      <3>2. Node(leaves, l, ptr + 1) # Missing
        <4>1. CASE l = 0
          <5>1. z = n - 1
            BY <1>0, <4>1, AncestorUp DEF z
          <5>2. Node(leaves, 0, ptr + 1) = leaves[ptr + 1 + 1] /\ ptr + 1 + 1 \in 1 .. n
            BY <1>0, <2>5, <3>1, <5>1, NodeUp
          <5> QED BY <4>1, <5>2
        <4>2. CASE l # 0
          <5>1. l - 1 \in 0 .. MaxLevel - 1 /\ (l - 1) + 1 = l
            BY <1>1, <2>1, <4>2, MaxLevelAssumption
          <5>2. \E x, y : Node(leaves, l, ptr + 1) = HashTwo(x, y) \/ Node(leaves, l, ptr + 1) = HashOne(x)
            <6>1. \A i \in 0 .. Ancestor(n - 1, (l - 1) + 1) :
                     \E x, y : Node(leaves, (l - 1) + 1, i) = HashTwo(x, y) \/ Node(leaves, (l - 1) + 1, i) = HashOne(x)
              <7>1. \A i \in 0 .. Ancestor(n - 1, (l - 1) + 1) :
                       Node(leaves, (l - 1) + 1, i) =
                         IF 2 * i + 1 <= Ancestor(n - 1, l - 1)
                           THEN HashTwo(Node(leaves, l - 1, 2 * i), Node(leaves, l - 1, 2 * i + 1))
                           ELSE HashOne(Node(leaves, l - 1, 2 * i))
                BY <1>0, <5>1, NodeUp
              <7> QED BY <7>1, Zenon
            <6> QED BY <3>1, <5>1, <6>1, Zenon DEF z
          <5>3. \A x, y : HashTwo(x, y) # Missing /\ HashOne(x) # Missing
            BY DEF HashTwo, HashOne, Missing
          <5> QED BY <5>2, <5>3, Zenon
        <4> QED BY <4>1, <4>2
      <3> QED BY <2>2, <2>3, <2>4, <2>7, <2>8, <2>9, <2>12, <3>1, <3>2, Zenon DEF q
    <2> QED BY <2>10, <2>11, <2>12
  <1>12. \A i \in Nat : i \in T
    <2> HIDE DEF T
    <2> QED BY <1>10, <1>11, SetInduction
  <1>13. Fold(p)[top] = Node(leaves, top, Ancestor(seq, top))
    BY <1>1, <1>12
  <1>14. Ancestor(seq, top) = 0
    <2>1. Ancestor(seq, top) \in Nat /\ Ancestor(seq, top) <= Ancestor(n - 1, top)
      BY <1>0, <1>1, AncestorNat, AncestorMonotone, Zenon
    <2> QED BY <1>1, <2>1
  <1>15. Fold(p)[top] = RefRoot(leaves)
    BY <1>13, <1>14, Zenon DEF RefRoot, Node, top
  <1>16. Verify(p)
    BY <1>2, <1>4, <1>8, <1>15, Zenon DEF Verify
  <1> QED BY <1>2, <1>4, <1>16, Zenon DEF p
=============================================================================
