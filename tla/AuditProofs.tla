---------------------------- MODULE AuditProofs ----------------------------
(***************************************************************************)
(* Proofs about the tree, the rate limiter and audits, for logs, rates and  *)
(* numbers of requests of any size.  In this order:                         *)
(*   - functions that are defined by recursion, and powers of two;          *)
(*   - a root commits to its leaves, and is the one built bottom-up;        *)
(*   - the verifiers accept exactly the proofs of the server;               *)
(*   - no client exceeds its budget, none is refused that keeps below it;   *)
(*   - an audit accepts an honest log, and else only what is committed to.  *)
(***************************************************************************)
EXTENDS Audit, TotalsTheorems, NaturalsInduction, SequenceTheorems

-----------------------------------------------------------------------------
(* Recursive functions.  A recursion whose steps only use the values at       *)
(* arguments of a smaller measure defines a function.                       *)

\* A nonempty set of numbers has a least element.
LEMMA LeastNumber ==
    ASSUME NEW S \in SUBSET Nat, S # {}
    PROVE  \E l \in S : \A i \in Nat : i < l => i \notin S
<1>1. PICK R : R = OpToRel(<, Nat)
  OBVIOUS
<1>2. IsWellFoundedOn(R, Nat)
  BY <1>1, NatLessThanWellFounded
<1>3. PICK l \in S : \A i \in S : ~ (<<i, l>> \in R)
  BY <1>2, WFMin
<1>4. QED
  BY <1>1, <1>3 DEF OpToRel

\* G[x, f] is the value at x, given those of f at arguments of smaller measure.
Recursive(D, R, M, G) ==
    /\ M \in [D -> Nat] /\ G \in [D \X [D -> R] -> R]
    /\ \A x \in D : \A f, g \in [D -> R] :
          (\A y \in D : M[y] < M[x] => f[y] = g[y]) => G[<<x, f>>] = G[<<x, g>>]

\* f solves the recursion at all arguments of measure less than l.
Solves(f, l, D, M, G) == \A x \in D : M[x] < l => f[x] = G[<<x, f>>]

SolvesAll(f, D, G) == \A x \in D : f[x] = G[<<x, f>>]

\* Two solutions agree.
LEMMA SolutionsAgree ==
    ASSUME NEW D, NEW R, NEW M, NEW G, Recursive(D, R, M, G), NEW l \in Nat,
           NEW f \in [D -> R], NEW g \in [D -> R], Solves(f, l, D, M, G), Solves(g, l, D, M, G)
    PROVE  \A x \in D : M[x] < l => f[x] = g[x]
<1> DEFINE Bad == {i \in Nat : i < l /\ \E x \in D : M[x] = i /\ f[x] # g[x]}
<1>1. SUFFICES ASSUME Bad # {} PROVE FALSE
  BY DEF Recursive
<1>2. PICK i \in Bad : \A j \in Nat : j < i => j \notin Bad
  BY <1>1, LeastNumber
<1>3. PICK x \in D : M[x] = i /\ f[x] # g[x]
  BY <1>2
<1>4. \A y \in D : M[y] < M[x] => f[y] = g[y]
  BY <1>2, <1>3 DEF Recursive
<1>5. G[<<x, f>>] = G[<<x, g>>]
  BY <1>4 DEF Recursive
<1>6. f[x] = G[<<x, f>>] /\ g[x] = G[<<x, g>>]
  BY <1>2, <1>3 DEF Solves
<1>7. QED
  BY <1>3, <1>5, <1>6

\* There is a solution up to every measure.
LEMMA SolutionsUpTo ==
    ASSUME NEW D, NEW R, NEW M, NEW G, Recursive(D, R, M, G), R # {}, NEW l \in Nat
    PROVE  \E f \in [D -> R] : Solves(f, l, D, M, G)
<1> DEFINE Bad == {i \in Nat : \A f \in [D -> R] : ~ Solves(f, i, D, M, G)}
<1>1. SUFFICES ASSUME Bad # {} PROVE FALSE
  OBVIOUS
<1>2. PICK i \in Bad : \A j \in Nat : j < i => j \notin Bad
  BY <1>1, LeastNumber
<1>3. i # 0
  <2>1. PICK r \in R : TRUE
    OBVIOUS
  <2>2. [x \in D |-> r] \in [D -> R] /\ Solves([x \in D |-> r], 0, D, M, G)
    BY <2>1 DEF Solves, Recursive
  <2>3. QED
    BY <2>2
<1>4. i - 1 \in Nat /\ i - 1 < i
  BY <1>3
<1>5. PICK f \in [D -> R] : Solves(f, i - 1, D, M, G)
  BY <1>2, <1>4
<1> DEFINE g == [x \in D |-> G[<<x, f>>]]
<1>6. g \in [D -> R]
  BY DEF Recursive
<1>7. ASSUME NEW x \in D, M[x] < i
      PROVE  g[x] = G[<<x, g>>]
  <2>1. \A y \in D : M[y] < M[x] => f[y] = g[y]
    BY <1>5, <1>7 DEF Solves, Recursive
  <2>2. G[<<x, f>>] = G[<<x, g>>]
    BY <2>1, <1>6 DEF Recursive
  <2>3. QED
    BY <2>2
<1>8. Solves(g, i, D, M, G)
  BY <1>7 DEF Solves
<1>9. QED
  BY <1>2, <1>6, <1>8

\* The recursion defines a function.
LEMMA RecursionDefines ==
    ASSUME NEW D, NEW R, NEW M, NEW G, Recursive(D, R, M, G), R # {}
    PROVE  \E f \in [D -> R] : SolvesAll(f, D, G)
<1> DEFINE F(l) == CHOOSE f \in [D -> R] : Solves(f, l, D, M, G)
           f == [x \in D |-> F(M[x] + 1)[x]]
<1>1. \A l \in Nat : F(l) \in [D -> R] /\ Solves(F(l), l, D, M, G)
  BY SolutionsUpTo
<1> HIDE DEF F
<1>2. \A x \in D : M[x] \in Nat /\ M[x] + 1 \in Nat
  BY DEF Recursive
<1>3. f \in [D -> R]
  BY <1>1, <1>2
<1>4. ASSUME NEW x \in D
      PROVE  f[x] = G[<<x, f>>]
  <2>1. ASSUME NEW y \in D, M[y] < M[x]
        PROVE  f[y] = F(M[x] + 1)[y]
    <3>1. Solves(F(M[x] + 1), M[y] + 1, D, M, G)
      BY <1>1, <1>2, <2>1 DEF Solves
    <3>2. M[y] < M[y] + 1
      BY <1>2
    <3>3. QED
      BY <1>1, <1>2, <3>1, <3>2, SolutionsAgree
  <2>2. G[<<x, f>>] = G[<<x, F(M[x] + 1)>>]
    BY <1>1, <1>2, <1>3, <2>1 DEF Recursive
  <2>3. F(M[x] + 1)[x] = G[<<x, F(M[x] + 1)>>]
    BY <1>1, <1>2 DEF Solves
  <2>4. QED
    BY <2>2, <2>3
<1>5. QED
  BY <1>3, <1>4 DEF SolvesAll

-----------------------------------------------------------------------------
(* Powers of two.                                                           *)

\* The recursion of pow2.
LEMMA pow2Def ==
    \A a \in Nat : pow2[a] \in Nat /\ pow2[a] = IF a = 0 THEN 1 ELSE 2 * pow2[a - 1]
<1>1. PICK M \in [Nat -> Nat] : M = [a \in Nat |-> a]
  OBVIOUS
<1>2. PICK G \in [Nat \X [Nat -> Nat] -> Nat] :
          G = [p \in Nat \X [Nat -> Nat] |-> IF p[1] = 0 THEN 1 ELSE 2 * p[2][p[1] - 1]]
  <2>1. ASSUME NEW p \in Nat \X [Nat -> Nat], p[1] # 0
        PROVE  2 * p[2][p[1] - 1] \in Nat
    <3>1. p[2][p[1] - 1] \in Nat
      BY <2>1
    <3>2. QED
      BY <3>1
  <2>2. QED
    BY <2>1
<1>3. Recursive(Nat, Nat, M, G)
  BY <1>1, <1>2 DEF Recursive
<1>4. PICK f \in [Nat -> Nat] : SolvesAll(f, Nat, G)
  <2>1. Nat # {}
    OBVIOUS
  <2>2. QED
    BY <1>3, <2>1, RecursionDefines
<1>5. \A x \in Nat : G[<<x, f>>] = IF x = 0 THEN 1 ELSE 2 * f[x - 1]
  BY <1>2
<1>6. f = [x \in Nat |-> IF x = 0 THEN 1 ELSE 2 * f[x - 1]]
  BY <1>4, <1>5 DEF SolvesAll
<1>7. pow2 = [x \in Nat |-> IF x = 0 THEN 1 ELSE 2 * pow2[x - 1]]
  BY <1>6 DEF pow2
<1>8. \A a \in Nat : pow2[a] = IF a = 0 THEN 1 ELSE 2 * pow2[a - 1]
  BY <1>7
<1> DEFINE Bad == {a \in Nat : pow2[a] \notin Nat}
<1>9. ASSUME Bad # {} PROVE FALSE
  <2>1. PICK a \in Bad : \A j \in Nat : j < a => j \notin Bad
    BY <1>9, LeastNumber
  <2>2. CASE a = 0
    BY <1>8, <2>1, <2>2
  <2>3. CASE a # 0
    <3>1. pow2[a - 1] \in Nat
      BY <2>1, <2>3
    <3>2. QED
      BY <1>8, <2>1, <2>3, <3>1
  <2>4. QED
    BY <2>2, <2>3
<1>10. QED
  BY <1>8, <1>9

\* The same from one power to the next, and that powers are larger than their exponents.
LEMMA pow2Step ==
    /\ pow2[0] = 1
    /\ \A a \in Nat : pow2[a + 1] = 2 * pow2[a]
    /\ \A a \in Nat : pow2[a] \in Nat \ {0} /\ a < pow2[a]
<1>1. pow2[0] = 1
  BY pow2Def
<1>2. ASSUME NEW a \in Nat PROVE pow2[a + 1] = 2 * pow2[a]
  <2>1. a + 1 \in Nat /\ a + 1 # 0 /\ (a + 1) - 1 = a
    OBVIOUS
  <2>2. QED
    BY <2>1, pow2Def
<1> DEFINE Bad == {a \in Nat : ~ (a < pow2[a])}
<1>3. ASSUME Bad # {} PROVE FALSE
  <2>1. PICK a \in Bad : \A j \in Nat : j < a => j \notin Bad
    BY <1>3, LeastNumber
  <2>2. CASE a = 0
    BY <1>1, <2>1, <2>2
  <2>3. CASE a # 0
    <3>1. a - 1 \in Nat /\ a - 1 < pow2[a - 1]
      BY <2>1, <2>3
    <3>2. PICK p \in Nat : p = pow2[a - 1]
      BY <3>1, pow2Def
    <3>3. pow2[a] = 2 * p
      BY <2>3, <3>1, <3>2, pow2Def
    <3>4. QED
      BY <2>1, <3>1, <3>2, <3>3
  <2>4. QED
    BY <2>2, <2>3
<1>4. \A a \in Nat : pow2[a] \in Nat \ {0} /\ a < pow2[a]
  BY <1>3, pow2Def
<1>5. QED
  BY <1>1, <1>2, <1>4

\* A larger power is at least twice a smaller one.
LEMMA pow2Grows ==
    ASSUME NEW a \in Nat, NEW b \in Nat, a < b
    PROVE  2 * pow2[a] <= pow2[b]
<1> DEFINE Bad == {c \in Nat : a < c /\ ~ (2 * pow2[a] <= pow2[c])}
<1>1. ASSUME Bad # {} PROVE FALSE
  <2>1. PICK c \in Bad : \A j \in Nat : j < c => j \notin Bad
    BY <1>1, LeastNumber
  <2>2. c - 1 \in Nat /\ c = (c - 1) + 1
    BY <2>1
  <2>3. PICK p, q \in Nat : p = pow2[a] /\ q = pow2[c - 1]
    BY <2>2, pow2Def
  <2>4. pow2[c] = 2 * q
    BY <2>2, <2>3, pow2Step
  <2>5. CASE c - 1 = a
    BY <2>1, <2>3, <2>4, <2>5
  <2>6. CASE c - 1 # a
    <3>1. 2 * p <= q
      BY <2>1, <2>2, <2>3, <2>6
    <3>2. QED
      BY <2>1, <2>3, <2>4, <3>1
  <2>7. QED
    BY <2>5, <2>6
<1>2. QED
  BY <1>1

\* isPowerOfTwo finds every power of two.
LEMMA PowersOfTwo ==
    ASSUME NEW k \in Nat
    PROVE  isPowerOfTwo(k) <=> \E a \in Nat : k = pow2[a]
<1>1. ASSUME NEW a \in Nat, k = pow2[a]
      PROVE  a \in 0 .. k
  BY <1>1, pow2Step
<1>2. QED
  BY <1>1 DEF isPowerOfTwo

\* The size of the left part of a tree of l leaves, and of what it is made of.
IsSplit(k, l) == k < l /\ l <= 2 * k

\* At most one power of two splits a tree.
LEMMA SplitUnique ==
    ASSUME NEW l \in Nat, NEW a \in Nat, NEW b \in Nat, IsSplit(pow2[a], l), IsSplit(pow2[b], l)
    PROVE  a = b
<1>1. PICK p, q \in Nat : p = pow2[a] /\ q = pow2[b]
  BY pow2Def
<1>2. CASE a < b
  <2>1. 2 * p <= q
    BY <1>1, <1>2, pow2Grows
  <2>2. QED
    BY <1>1, <2>1 DEF IsSplit
<1>3. CASE b < a
  <2>1. 2 * q <= p
    BY <1>1, <1>3, pow2Grows
  <2>2. QED
    BY <1>1, <2>1 DEF IsSplit
<1>4. QED
  BY <1>2, <1>3

\* Every tree of at least two leaves is split by a power of two.
LEMMA SplitExists ==
    ASSUME NEW l \in Nat, l >= 2
    PROVE  \E a \in Nat : IsSplit(pow2[a], l)
<1> DEFINE S == {b \in Nat : l <= pow2[b]}
<1>1. l \in S
  <2>1. pow2[l] \in Nat /\ l < pow2[l]
    BY pow2Step
  <2>2. QED
    BY <2>1
<1>2. PICK b \in S : \A j \in Nat : j < b => j \notin S
  BY <1>1, LeastNumber
<1>3. b # 0
  BY <1>2, pow2Step
<1>4. b - 1 \in Nat /\ b = (b - 1) + 1 /\ b - 1 < b
  BY <1>3
<1>5. PICK p \in Nat : p = pow2[b - 1]
  BY <1>4, pow2Def
<1>6. pow2[b] = 2 * p
  BY <1>4, <1>5, pow2Step
<1>7. p < l
  BY <1>2, <1>4, <1>5
<1>8. QED
  BY <1>2, <1>4, <1>5, <1>6, <1>7 DEF IsSplit

\* The split point is the power of two that is less than l and at least its half.
LEMMA SplitPoint ==
    ASSUME NEW l \in Nat, l >= 2
    PROVE  /\ largestPowerOfTwoLessThan(l) \in 1 .. l - 1
           /\ l <= 2 * largestPowerOfTwoLessThan(l)
           /\ \E a \in Nat : largestPowerOfTwoLessThan(l) = pow2[a]
<1>1. PICK a \in Nat : IsSplit(pow2[a], l)
  BY SplitExists
<1>2. PICK p \in Nat \ {0} : p = pow2[a]
  BY pow2Step
<1>3. p \in 1 .. l - 1 /\ p * 2 >= l /\ isPowerOfTwo(p)
  BY <1>1, <1>2, PowersOfTwo DEF IsSplit
<1>4. PICK k : k = largestPowerOfTwoLessThan(l)
  OBVIOUS
<1>5. k \in 1 .. l - 1 /\ k * 2 >= l /\ isPowerOfTwo(k)
  BY <1>3, <1>4 DEF largestPowerOfTwoLessThan
<1>6. QED
  BY <1>4, <1>5, PowersOfTwo

\* The power of two that splits a tree is its split point.
LEMMA SplitIs ==
    ASSUME NEW l \in Nat, l >= 2, NEW a \in Nat, IsSplit(pow2[a], l)
    PROVE  largestPowerOfTwoLessThan(l) = pow2[a]
<1>1. PICK k \in 1 .. l - 1 : k = largestPowerOfTwoLessThan(l) /\ l <= 2 * k
  BY SplitPoint
<1>2. PICK b \in Nat : k = pow2[b]
  BY <1>1, SplitPoint
<1>3. IsSplit(pow2[b], l)
  BY <1>1, <1>2 DEF IsSplit
<1>4. QED
  BY <1>1, <1>2, <1>3, SplitUnique

-----------------------------------------------------------------------------
(* Hashes have no collisions.                                               *)

Hash == Seq(Int)

\* The hashes of leaves and of inner nodes are hashes.
LEMMA HashTypes ==
    /\ \A j \in Int : LeafHash(j) \in Hash
    /\ EmptyRoot \in Hash
    /\ \A l, r \in Hash : NodeHash(l, r) \in Hash /\ Len(NodeHash(l, r)) = 2 + Len(l) + Len(r)
BY DEF LeafHash, EmptyRoot, NodeHash, Hash

\* The hash of a leaf tells the leaf, and is not the root of no leaves.
LEMMA LeafHashInjective ==
    /\ \A i, j \in Int : LeafHash(i) = LeafHash(j) => i = j
    /\ \A j \in Int : LeafHash(j) # EmptyRoot
<1>1. \A j \in Int : Len(LeafHash(j)) = 1 /\ LeafHash(j)[1] = j
  BY DEF LeafHash
<1>2. Len(EmptyRoot) = 0
  BY DEF EmptyRoot
<1>3. QED
  BY <1>1, <1>2

\* The hash of an inner node tells its children.
LEMMA NodeHashInjective ==
    ASSUME NEW a \in Hash, NEW b \in Hash, NEW c \in Hash, NEW d \in Hash,
           NodeHash(a, b) = NodeHash(c, d)
    PROVE  a = c /\ b = d
<1>1. ASSUME NEW l \in Hash, NEW r \in Hash
      PROVE  /\ NodeHash(l, r)[2] = Len(l)
             /\ \A j \in 1 .. Len(l) : NodeHash(l, r)[j + 2] = l[j]
             /\ \A j \in 1 .. Len(r) : NodeHash(l, r)[j + 2 + Len(l)] = r[j]
  BY DEF NodeHash, Hash
<1>2. Len(a) \in Nat /\ Len(b) \in Nat /\ Len(c) \in Nat /\ Len(d) \in Nat
  BY DEF Hash
<1>3. PICK x \in Hash : x = NodeHash(a, b) /\ x = NodeHash(c, d)
  BY HashTypes
<1>4. x[2] = Len(a) /\ x[2] = Len(c)
  BY <1>1, <1>3
<1>5. Len(x) = 2 + Len(a) + Len(b) /\ Len(x) = 2 + Len(c) + Len(d)
  BY <1>3, HashTypes
<1>6. Len(a) = Len(c) /\ Len(b) = Len(d)
  BY <1>2, <1>4, <1>5
<1>7. ASSUME NEW j \in 1 .. Len(a) PROVE a[j] = c[j]
  <2>1. x[j + 2] = a[j] /\ x[j + 2] = c[j]
    BY <1>1, <1>3, <1>6
  <2>2. QED
    BY <2>1
<1>8. ASSUME NEW j \in 1 .. Len(b) PROVE b[j] = d[j]
  <2>1. j \in 1 .. Len(d)
    BY <1>6
  <2>2. x[j + 2 + Len(a)] = b[j] /\ x[j + 2 + Len(c)] = d[j]
    BY <1>1, <1>3, <2>1
  <2>3. QED
    BY <1>6, <2>2
<1>9. QED
  BY <1>6, <1>7, <1>8, SeqEqual DEF Hash

-----------------------------------------------------------------------------
(* The roots of the slices of a list.                                       *)

\* A slice of more than one hash has two parts, split as largestPowerOfTwoLessThan says.
LEMMA SliceParts ==
    ASSUME NEW h, Len(h) \in Nat, NEW s \in Slices(h)
    PROVE  /\ s[1] \in Nat /\ s[2] \in Nat \ {0} /\ s[1] + s[2] <= Len(h) /\ s = <<s[1], s[2]>>
           /\ s[2] # 1 =>
                 \E k \in Nat \ {0} :
                    /\ k = largestPowerOfTwoLessThan(s[2]) /\ k < s[2] /\ s[2] <= 2 * k
                    /\ LeftOf(s) = <<s[1], k>> /\ LeftOf(s) \in Slices(h)
                    /\ RightOf(s) = <<s[1] + k, s[2] - k>> /\ RightOf(s) \in Slices(h)
<1>1. s[1] \in Nat /\ s[2] \in Nat \ {0} /\ s[1] + s[2] <= Len(h) /\ s = <<s[1], s[2]>>
  BY DEF Slices
<1>2. ASSUME s[2] # 1
      PROVE  \E k \in Nat \ {0} :
                    /\ k = largestPowerOfTwoLessThan(s[2]) /\ k < s[2] /\ s[2] <= 2 * k
                    /\ LeftOf(s) = <<s[1], k>> /\ LeftOf(s) \in Slices(h)
                    /\ RightOf(s) = <<s[1] + k, s[2] - k>> /\ RightOf(s) \in Slices(h)
  <2>1. s[2] \in Nat /\ s[2] >= 2
    BY <1>1, <1>2
  <2>2. PICK k \in 1 .. s[2] - 1 : k = largestPowerOfTwoLessThan(s[2]) /\ s[2] <= 2 * k
    BY <2>1, SplitPoint
  <2>3. LeftOf(s) = <<s[1], k>> /\ RightOf(s) = <<s[1] + k, s[2] - k>>
    BY <2>2 DEF LeftOf, RightOf
  <2>4. k \in Nat \ {0} /\ k < s[2]
    BY <1>1, <2>2
  <2>5. <<s[1], k>> \in Slices(h)
    BY <1>1, <2>4 DEF Slices
  <2>6. <<s[1] + k, s[2] - k>> \in Slices(h)
    BY <1>1, <2>4 DEF Slices
  <2>7. QED
    BY <2>2, <2>3, <2>4, <2>5, <2>6
<1>3. QED
  BY <1>1, <1>2

\* The recursion of rootOfHashes.
LEMMA RootsDef ==
    ASSUME NEW h \in Seq(Hash)
    PROVE  \A s \in Slices(h) :
              /\ Roots(h)[s] \in Hash
              /\ Roots(h)[s] = IF s[2] = 1 THEN h[s[1] + 1]
                               ELSE NodeHash(Roots(h)[LeftOf(s)], Roots(h)[RightOf(s)])
<1>1. PICK D : D = Slices(h)
  OBVIOUS
<1>2. Len(h) \in Nat
  OBVIOUS
<1>3. \A s \in D : /\ s[2] \in Nat
                   /\ s[2] = 1 => h[s[1] + 1] \in Hash
                   /\ s[2] # 1 => /\ LeftOf(s) \in D /\ LeftOf(s)[2] < s[2]
                                  /\ RightOf(s) \in D /\ RightOf(s)[2] < s[2]
  <2>1. TAKE s \in D
  <2>2. s[1] \in Nat /\ s[2] \in Nat \ {0} /\ s[1] + s[2] <= Len(h)
    BY <1>1, <1>2, SliceParts
  <2>3. CASE s[2] = 1
    <3>1. s[1] + 1 \in 1 .. Len(h)
      BY <1>2, <2>2, <2>3
    <3>2. QED
      BY <2>3, <3>1
  <2>4. CASE s[2] # 1
    <3>1. PICK k \in Nat \ {0} : /\ k < s[2]
                    /\ LeftOf(s) = <<s[1], k>> /\ LeftOf(s) \in D
                    /\ RightOf(s) = <<s[1] + k, s[2] - k>> /\ RightOf(s) \in D
      BY <1>1, <1>2, <2>4, SliceParts
    <3>2. QED
      BY <2>2, <2>4, <3>1
  <2>5. QED
    BY <2>3, <2>4
<1>4. PICK M \in [D -> Nat] : M = [s \in D |-> s[2]]
  BY <1>3
<1>5. PICK G \in [D \X [D -> Hash] -> Hash] :
          G = [p \in D \X [D -> Hash] |->
                 IF p[1][2] = 1 THEN h[p[1][1] + 1]
                 ELSE NodeHash(p[2][LeftOf(p[1])], p[2][RightOf(p[1])])]
  BY <1>3, HashTypes
<1>6. Recursive(D, Hash, M, G)
  BY <1>3, <1>4, <1>5 DEF Recursive
<1>7. PICK f \in [D -> Hash] : SolvesAll(f, D, G)
  <2>1. Hash # {}
    BY HashTypes
  <2>2. QED
    BY <1>6, <2>1, RecursionDefines
<1>8. f = [s \in D |-> IF s[2] = 1 THEN h[s[1] + 1] ELSE NodeHash(f[LeftOf(s)], f[RightOf(s)])]
  BY <1>5, <1>7 DEF SolvesAll
<1>9. PICK r : r = Roots(h)
  OBVIOUS
<1>10. r = [s \in D |-> IF s[2] = 1 THEN h[s[1] + 1] ELSE NodeHash(r[LeftOf(s)], r[RightOf(s)])]
  BY <1>1, <1>8, <1>9 DEF Roots
<1>11. \A s \in D : r[s] = IF s[2] = 1 THEN h[s[1] + 1] ELSE NodeHash(r[LeftOf(s)], r[RightOf(s)])
  BY <1>10
<1> DEFINE Bad == {i \in Nat : \E s \in D : s[2] = i /\ r[s] \notin Hash}
<1>12. ASSUME Bad # {} PROVE FALSE
  <2>1. PICK i \in Bad : \A j \in Nat : j < i => j \notin Bad
    BY <1>12, LeastNumber
  <2>2. PICK s \in D : s[2] = i /\ r[s] \notin Hash
    BY <2>1
  <2>3. CASE s[2] = 1
    BY <1>3, <1>11, <2>2, <2>3
  <2>4. CASE s[2] # 1
    <3>1. r[LeftOf(s)] \in Hash /\ r[RightOf(s)] \in Hash
      BY <1>3, <2>1, <2>2, <2>4
    <3>2. QED
      BY <1>11, <2>2, <2>4, <3>1, HashTypes
  <2>5. QED
    BY <2>3, <2>4
<1>13. \A s \in D : r[s] \in Hash
  BY <1>3, <1>12
<1>14. QED
  BY <1>1, <1>9, <1>11, <1>13

\* The same number of hashes from the given position of each list.
SameSlice(h, s, g, t) == \A j \in 1 .. s[2] : h[s[1] + j] = g[t[1] + j]

\* A slice has the same hashes as another if and only if its parts do.
LEMMA SamePartsSameSlice ==
    ASSUME NEW h, NEW g, NEW s, NEW t, NEW k \in Nat, s[1] \in Nat, s[2] \in Nat, t[1] \in Nat,
           t[2] = s[2], k < s[2]
    PROVE  SameSlice(h, s, g, t) <=>
              /\ SameSlice(h, <<s[1], k>>, g, <<t[1], k>>)
              /\ SameSlice(h, <<s[1] + k, s[2] - k>>, g, <<t[1] + k, t[2] - k>>)
<1>1. ASSUME SameSlice(h, s, g, t)
      PROVE  /\ SameSlice(h, <<s[1], k>>, g, <<t[1], k>>)
             /\ SameSlice(h, <<s[1] + k, s[2] - k>>, g, <<t[1] + k, t[2] - k>>)
  <2>1. ASSUME NEW j \in 1 .. s[2] - k
        PROVE  h[s[1] + k + j] = g[t[1] + k + j]
    <3>1. k + j \in 1 .. s[2] /\ s[1] + k + j = s[1] + (k + j) /\ t[1] + k + j = t[1] + (k + j)
      OBVIOUS
    <3>2. QED
      BY <1>1, <3>1 DEF SameSlice
  <2>2. QED
    BY <1>1, <2>1 DEF SameSlice
<1>2. ASSUME SameSlice(h, <<s[1], k>>, g, <<t[1], k>>),
             SameSlice(h, <<s[1] + k, s[2] - k>>, g, <<t[1] + k, t[2] - k>>)
      PROVE  SameSlice(h, s, g, t)
  <2>1. ASSUME NEW j \in 1 .. s[2]
        PROVE  h[s[1] + j] = g[t[1] + j]
    <3>1. CASE j <= k
      BY <1>2, <3>1 DEF SameSlice
    <3>2. CASE j > k
      <4>1. PICK i \in 1 .. s[2] - k : i = j - k
        BY <3>2
      <4>2. h[s[1] + k + i] = g[t[1] + k + i]
        BY <1>2 DEF SameSlice
      <4>3. s[1] + k + i = s[1] + j /\ t[1] + k + i = t[1] + j
        BY <4>1
      <4>4. QED
        BY <4>2, <4>3
    <3>3. QED
      BY <3>1, <3>2
  <2>2. QED
    BY <2>1 DEF SameSlice
<1>3. QED
  BY <1>1, <1>2

\* Trees of the same size have the same root if and only if they have the same leaves.
LEMMA RootsCommit ==
    ASSUME NEW h \in Seq(Hash), NEW g \in Seq(Hash), NEW s \in Slices(h), NEW t \in Slices(g),
           s[2] = t[2]
    PROVE  Roots(h)[s] = Roots(g)[t] <=> SameSlice(h, s, g, t)
<1> DEFINE Bad == {i \in Nat : \E x \in Slices(h), y \in Slices(g) :
                      /\ x[2] = i /\ y[2] = i
                      /\ ~ (Roots(h)[x] = Roots(g)[y] <=> SameSlice(h, x, g, y))}
<1>1. ASSUME Bad # {} PROVE FALSE
  <2>1. PICK i \in Bad : \A j \in Nat : j < i => j \notin Bad
    BY <1>1, LeastNumber
  <2>2. PICK x \in Slices(h), y \in Slices(g) :
            x[2] = i /\ y[2] = i /\ ~ (Roots(h)[x] = Roots(g)[y] <=> SameSlice(h, x, g, y))
    BY <2>1
  <2>3. Len(h) \in Nat /\ Len(g) \in Nat
    OBVIOUS
  <2>4. x[1] \in Nat /\ x[2] \in Nat \ {0} /\ y[1] \in Nat
    BY <2>3, SliceParts
  <2>5. CASE i = 1
    <3>1. Roots(h)[x] = h[x[1] + 1] /\ Roots(g)[y] = g[y[1] + 1]
      BY <2>2, <2>5, RootsDef
    <3>2. SameSlice(h, x, g, y) <=> h[x[1] + 1] = g[y[1] + 1]
      BY <2>2, <2>5 DEF SameSlice
    <3>3. QED
      BY <2>2, <3>1, <3>2
  <2>6. CASE i # 1
    <3>1. x[2] # 1 /\ y[2] # 1
      BY <2>2, <2>6
    <3>2. PICK k \in Nat \ {0} :
              /\ k = largestPowerOfTwoLessThan(x[2]) /\ k < x[2]
              /\ LeftOf(x) = <<x[1], k>> /\ LeftOf(x) \in Slices(h)
              /\ RightOf(x) = <<x[1] + k, x[2] - k>> /\ RightOf(x) \in Slices(h)
      BY <2>3, <3>1, SliceParts
    <3>3. PICK m \in Nat \ {0} :
              /\ m = largestPowerOfTwoLessThan(y[2]) /\ m < y[2]
              /\ LeftOf(y) = <<y[1], m>> /\ LeftOf(y) \in Slices(g)
              /\ RightOf(y) = <<y[1] + m, y[2] - m>> /\ RightOf(y) \in Slices(g)
      BY <2>3, <3>1, SliceParts
    <3>4. /\ k < i /\ m = k
           /\ LeftOf(x) = <<x[1], k>> /\ LeftOf(x) \in Slices(h)
           /\ RightOf(x) = <<x[1] + k, i - k>> /\ RightOf(x) \in Slices(h)
           /\ LeftOf(y) = <<y[1], k>> /\ LeftOf(y) \in Slices(g)
           /\ RightOf(y) = <<y[1] + k, i - k>> /\ RightOf(y) \in Slices(g)
      BY <2>2, <3>2, <3>3
    <3>5. PICK a, b, c, d \in Hash :
              /\ a = Roots(h)[LeftOf(x)] /\ b = Roots(h)[RightOf(x)]
              /\ c = Roots(g)[LeftOf(y)] /\ d = Roots(g)[RightOf(y)]
      BY <3>4, RootsDef
    <3>6. Roots(h)[x] = NodeHash(a, b) /\ Roots(g)[y] = NodeHash(c, d)
      BY <2>2, <2>6, <3>5, RootsDef
    <3>7. Roots(h)[x] = Roots(g)[y] <=> a = c /\ b = d
      BY <3>6, NodeHashInjective
    <3>8. k \notin Bad /\ i - k \notin Bad
      <4>1. i \in Nat
        BY <2>1
      <4>2. k \in Nat /\ k < i /\ i - k \in Nat /\ i - k < i
        BY <3>4, <4>1
      <4>3. QED
        BY <2>1, <4>2
    <3>9. a = c <=> SameSlice(h, <<x[1], k>>, g, <<y[1], k>>)
      BY <3>4, <3>5, <3>8
    <3>10. b = d <=> SameSlice(h, <<x[1] + k, i - k>>, g, <<y[1] + k, i - k>>)
      <4>1. i - k \in Nat
        BY <2>1, <3>4
      <4>2. QED
        BY <3>4, <3>5, <3>8, <4>1
    <3>11. SameSlice(h, x, g, y) <=> /\ SameSlice(h, <<x[1], k>>, g, <<y[1], k>>)
                                    /\ SameSlice(h, <<x[1] + k, i - k>>, g, <<y[1] + k, i - k>>)
      <4>1. /\ SameSlice(h, x, g, y) <=>
                  /\ SameSlice(h, <<x[1], k>>, g, <<y[1], k>>)
                  /\ SameSlice(h, <<x[1] + k, x[2] - k>>, g, <<y[1] + k, y[2] - k>>)
        <5>1. k \in Nat /\ x[2] \in Nat /\ y[2] = x[2] /\ k < x[2]
          BY <2>2, <2>4, <3>4
        <5>2. QED
          BY <2>4, <5>1, SamePartsSameSlice
      <4>2. QED
        BY <2>2, <4>1
    <3>12. QED
      BY <2>2, <3>7, <3>9, <3>10, <3>11
  <2>7. QED
    BY <2>5, <2>6
<1>2. s[2] \in Nat
  BY DEF Slices
<1>3. QED
  BY <1>1, <1>2

\* Equal roots of two logs of the same size are those of equal logs.
LEMMA RootCommits ==
    ASSUME NEW h \in Seq(Hash), NEW g \in Seq(Hash), Len(h) = Len(g),
           RootFromLeafHashes(h) = RootFromLeafHashes(g)
    PROVE  h = g
<1>1. Len(h) \in Nat
  OBVIOUS
<1>2. CASE Len(h) = 0
  <2>1. \A j \in 1 .. Len(h) : h[j] = g[j]
    BY <1>2
  <2>2. QED
    BY <2>1, SeqEqual
<1>3. CASE Len(h) # 0
  <2>1. h # <<>> /\ g # <<>>
    BY <1>3
  <2>2. PICK s : s = <<0, Len(h)>>
    OBVIOUS
  <2>3. s \in Slices(h) /\ s \in Slices(g) /\ s[1] = 0 /\ s[2] = Len(h)
    BY <1>1, <1>3, <2>2 DEF Slices
  <2>4. Roots(h)[s] = Roots(g)[s]
    BY <2>1, <2>2 DEF RootFromLeafHashes, rootOfHashes
  <2>5. SameSlice(h, s, g, s)
    BY <2>3, <2>4, RootsCommit
  <2>6. \A j \in 1 .. Len(h) : h[j] = g[j]
    <3>1. \A j \in 1 .. Len(h) : 0 + j = j
      BY <1>1
    <3>2. QED
      BY <2>3, <2>5, <3>1 DEF SameSlice
  <2>7. QED
    BY <2>6, SeqEqual
<1>4. QED
  BY <1>1, <1>2, <1>3

-----------------------------------------------------------------------------
(* The tree built level by level.                                           *)

\* The level above a level.
LEMMA PairedType ==
    ASSUME NEW h \in Seq(Hash)
    PROVE  /\ Paired(h) \in Seq(Hash)
           /\ Len(Paired(h)) \in Nat
           /\ Len(h) = 2 * Len(Paired(h)) \/ Len(h) = 2 * Len(Paired(h)) - 1
           /\ \A j \in 1 .. Len(Paired(h)) : Paired(h)[j] =
                 IF 2 * j > Len(h) THEN h[2 * j - 1] ELSE NodeHash(h[2 * j - 1], h[2 * j])
<1>1. PICK l \in Nat : l = Len(h)
  OBVIOUS
<1>2. PICK c : c = (l + 1) \div 2
  OBVIOUS
<1>3. c \in Nat /\ (l = 2 * c \/ l = 2 * c - 1)
  BY <1>2
<1>4. PICK p : p = [j \in 1 .. c |-> IF 2 * j > l THEN h[2 * j - 1] ELSE NodeHash(h[2 * j - 1], h[2 * j])]
  OBVIOUS
<1>5. Paired(h) = p
  BY <1>1, <1>2, <1>4 DEF Paired
<1>6. ASSUME NEW j \in 1 .. c
      PROVE  (IF 2 * j > l THEN h[2 * j - 1] ELSE NodeHash(h[2 * j - 1], h[2 * j])) \in Hash
  <2>1. 2 * j - 1 \in 1 .. l /\ (~ (2 * j > l) => 2 * j \in 1 .. l)
    BY <1>3
  <2>2. h[2 * j - 1] \in Hash
    BY <1>1, <2>1
  <2>3. CASE 2 * j > l
    BY <2>2, <2>3
  <2>4. CASE ~ (2 * j > l)
    <3>1. h[2 * j] \in Hash
      BY <1>1, <2>1, <2>4
    <3>2. QED
      BY <2>2, <2>4, <3>1, HashTypes
  <2>5. QED
    BY <2>3, <2>4
<1>7. p \in Seq(Hash) /\ Len(p) = c
  BY <1>3, <1>4, <1>6
<1>8. QED
  BY <1>1, <1>3, <1>4, <1>5, <1>7

\* The split point of a tree is twice that of the tree of its pairs.
LEMMA SplitOfPairs ==
    ASSUME NEW l \in Nat, l >= 3, NEW c \in Nat, l = 2 * c \/ l = 2 * c - 1
    PROVE  /\ largestPowerOfTwoLessThan(l) = 2 * largestPowerOfTwoLessThan(c)
           /\ largestPowerOfTwoLessThan(c) \in 1 .. c - 1
<1>1. c >= 2
  OBVIOUS
<1>2. PICK j \in 1 .. c - 1 : j = largestPowerOfTwoLessThan(c) /\ c <= 2 * j
  BY <1>1, SplitPoint
<1>3. PICK a \in Nat : j = pow2[a]
  BY <1>1, <1>2, SplitPoint
<1>4. pow2[a + 1] = 2 * j /\ a + 1 \in Nat
  BY <1>3, pow2Step
<1>5. 2 * j < l /\ l <= 2 * (2 * j)
  BY <1>1, <1>2
<1>6. IsSplit(pow2[a + 1], l)
  BY <1>4, <1>5 DEF IsSplit
<1>7. largestPowerOfTwoLessThan(l) = 2 * j
  <2>1. l >= 2
    OBVIOUS
  <2>2. QED
    BY <1>4, <1>6, <2>1, SplitIs
<1>8. QED
  BY <1>2, <1>7

\* Slice <<2q, l>> of the leaves becomes slice <<q, c>> of the pairs.
BecomesPairs(h, q, l, c) == l = 2 * c \/ (l = 2 * c - 1 /\ 2 * q + l = Len(h))

\* A slice has the root of the slice of its pairs.
LEMMA RootsOfPairs ==
    ASSUME NEW h \in Seq(Hash), NEW q0 \in Nat, NEW l0 \in Nat, NEW c0 \in Nat,
           <<2 * q0, l0>> \in Slices(h), BecomesPairs(h, q0, l0, c0)
    PROVE  Roots(h)[<<2 * q0, l0>>] = Roots(Paired(h))[<<q0, c0>>]
<1>1. PICK p \in Seq(Hash) :
          /\ p = Paired(h) /\ Len(p) \in Nat
          /\ Len(h) = 2 * Len(p) \/ Len(h) = 2 * Len(p) - 1
          /\ \A j \in 1 .. Len(p) :
                p[j] = IF 2 * j > Len(h) THEN h[2 * j - 1] ELSE NodeHash(h[2 * j - 1], h[2 * j])
  BY PairedType
<1>2. PICK hl, pl \in Nat : hl = Len(h) /\ pl = Len(p) /\ (hl = 2 * pl \/ hl = 2 * pl - 1)
  BY <1>1
<1>3. PICK rh, rp : rh = Roots(h) /\ rp = Roots(p)
  OBVIOUS
<1>4. \A s \in Slices(h) : rh[s] = IF s[2] = 1 THEN h[s[1] + 1]
                                   ELSE NodeHash(rh[LeftOf(s)], rh[RightOf(s)])
  BY <1>3, RootsDef
<1>5. \A s \in Slices(p) : rp[s] = IF s[2] = 1 THEN p[s[1] + 1]
                                   ELSE NodeHash(rp[LeftOf(s)], rp[RightOf(s)])
  BY <1>3, RootsDef
<1> DEFINE Differ(q, l, c) == /\ <<2 * q, l>> \in Slices(h) /\ BecomesPairs(h, q, l, c)
                              /\ rh[<<2 * q, l>>] # rp[<<q, c>>]
           Bad == {l \in Nat : \E q, c \in Nat : Differ(q, l, c)}
<1> HIDE DEF Differ
<1>6. ASSUME Bad # {} PROVE FALSE
  <2>1. PICK l \in Bad : \A j \in Nat : j < l => j \notin Bad
    BY <1>6, LeastNumber
  <2>2. PICK q, c \in Nat : /\ <<2 * q, l>> \in Slices(h) /\ BecomesPairs(h, q, l, c)
                            /\ rh[<<2 * q, l>>] # rp[<<q, c>>]
    BY <2>1 DEF Differ
  <2>3. /\ l \in Nat \ {0} /\ 2 * q + l <= hl
        /\ l = 2 * c \/ (l = 2 * c - 1 /\ 2 * q + l = hl)
    BY <1>2, <2>2 DEF Slices, BecomesPairs
  <2>4. c # 0 /\ q + c <= pl
    BY <1>2, <2>3
  <2>5. <<q, c>> \in Slices(p)
    BY <1>2, <2>4, SMTT(30) DEF Slices
  <2>6. ASSUME NEW e \in Nat, NEW i \in Nat, NEW d \in Nat, e < l,
               <<2 * i, e>> \in Slices(h), BecomesPairs(h, i, e, d)
        PROVE  rh[<<2 * i, e>>] = rp[<<i, d>>]
    <3>1. ~ Differ(i, e, d)
      BY <2>1, <2>6
    <3>2. QED
      BY <2>6, <3>1 DEF Differ
  <2>7. CASE l <= 2
    <3>1. c = 1
      BY <2>3, <2>7
    <3>2. q + 1 \in 1 .. pl /\ 2 * (q + 1) - 1 = 2 * q + 1
      BY <2>4, <3>1
    <3>3. rp[<<q, c>>] = IF 2 * (q + 1) > hl THEN h[2 * q + 1] ELSE NodeHash(h[2 * q + 1], h[2 * (q + 1)])
      <4>1. rp[<<q, c>>] = p[q + 1]
        BY <1>5, <2>5, <3>1
      <4>2. QED
        BY <1>1, <1>2, <3>2, <4>1
    <3>4. CASE l = 1
      <4>1. 2 * (q + 1) > hl
        BY <2>3, <3>1, <3>4
      <4>2. rh[<<2 * q, l>>] = h[2 * q + 1]
        BY <1>4, <2>2, <3>4
      <4>3. QED
        BY <2>2, <3>3, <4>1, <4>2
    <3>5. CASE l = 2
      <4>1. ~ (2 * (q + 1) > hl) /\ 2 * (q + 1) = 2 * q + 2
        BY <2>3, <3>5
      <4>2. PICK s : s = <<2 * q, l>>
        OBVIOUS
      <4>3. s \in Slices(h) /\ s[1] = 2 * q /\ s[2] = 2 /\ s[2] # 1 /\ Len(h) \in Nat
        BY <2>2, <3>5, <4>2
      <4>4. PICK k \in Nat \ {0} :
               /\ k = largestPowerOfTwoLessThan(s[2]) /\ k < s[2] /\ s[2] <= 2 * k
               /\ LeftOf(s) = <<s[1], k>> /\ LeftOf(s) \in Slices(h)
               /\ RightOf(s) = <<s[1] + k, s[2] - k>> /\ RightOf(s) \in Slices(h)
        BY <4>3, SliceParts
      <4>5. k = 1 /\ 2 - 1 = 1
        BY <4>3, <4>4
      <4>6. PICK a, b \in Slices(h) : /\ a = LeftOf(s) /\ a[1] = 2 * q /\ a[2] = 1
                                      /\ b = RightOf(s) /\ b[1] = 2 * q + 1 /\ b[2] = 1
        <5>1. LeftOf(s) = <<2 * q, 1>> /\ RightOf(s) = <<2 * q + 1, 1>>
          <6>1. s[1] + k = 2 * q + 1 /\ s[2] - k = 1
            BY <4>3, <4>5
          <6>2. QED
            BY <4>3, <4>4, <4>5, <6>1
        <5>2. LeftOf(s)[1] = 2 * q /\ LeftOf(s)[2] = 1 /\ RightOf(s)[1] = 2 * q + 1 /\ RightOf(s)[2] = 1
          BY <5>1
        <5>3. QED
          BY <4>4, <5>2
      <4>7. rh[a] = h[2 * q + 1] /\ rh[b] = h[2 * q + 1 + 1]
        BY <1>4, <4>6
      <4>8. 2 * q + 1 + 1 = 2 * (q + 1)
        OBVIOUS
      <4>9. rh[s] = NodeHash(h[2 * q + 1], h[2 * (q + 1)])
        BY <1>4, <4>3, <4>6, <4>7, <4>8
      <4>10. QED
        BY <2>2, <3>3, <4>1, <4>2, <4>9
    <3>6. QED
      BY <2>3, <2>7, <3>4, <3>5
  <2>8. CASE l > 2
    <3>1. l \in Nat /\ l >= 3 /\ (l = 2 * c \/ l = 2 * c - 1) /\ c # 1
      BY <2>3, <2>8
    <3>2. PICK j \in 1 .. c - 1 : j = largestPowerOfTwoLessThan(c) /\ largestPowerOfTwoLessThan(l) = 2 * j
      BY <3>1, SplitOfPairs
    <3>3. PICK s, t : s = <<2 * q, l>> /\ t = <<q, c>>
      OBVIOUS
    <3>4. s \in Slices(h) /\ s[1] = 2 * q /\ s[2] = l /\ t \in Slices(p) /\ t[1] = q /\ t[2] = c
      BY <2>2, <2>5, <3>3
    <3>5. PICK a, b \in Slices(h) :
             /\ a = LeftOf(s) /\ a = <<2 * q, 2 * j>> /\ b = RightOf(s) /\ b = <<2 * q + 2 * j, l - 2 * j>>
      <4>1. s[2] # 1 /\ Len(h) \in Nat
        BY <3>1, <3>4
      <4>2. PICK k \in Nat \ {0} :
               /\ k = largestPowerOfTwoLessThan(s[2])
               /\ LeftOf(s) = <<s[1], k>> /\ LeftOf(s) \in Slices(h)
               /\ RightOf(s) = <<s[1] + k, s[2] - k>> /\ RightOf(s) \in Slices(h)
        BY <3>4, <4>1, SliceParts
      <4>3. QED
        BY <3>2, <3>4, <4>2
    <3>6. PICK x, y \in Slices(p) :
             /\ x = LeftOf(t) /\ x = <<q, j>> /\ y = RightOf(t) /\ y = <<q + j, c - j>>
      <4>1. t[2] # 1 /\ Len(p) \in Nat
        BY <1>2, <3>1, <3>4
      <4>2. PICK k \in Nat \ {0} :
               /\ k = largestPowerOfTwoLessThan(t[2])
               /\ LeftOf(t) = <<t[1], k>> /\ LeftOf(t) \in Slices(p)
               /\ RightOf(t) = <<t[1] + k, t[2] - k>> /\ RightOf(t) \in Slices(p)
        BY <3>4, <4>1, SliceParts
      <4>3. QED
        BY <3>2, <3>4, <4>2
    <3>7. rh[a] = rp[x]
      <4>1. PICK e \in Nat : e = 2 * j /\ j \in Nat /\ e < l
        BY <3>1, <3>2
      <4>2. BecomesPairs(h, q, e, j)
        BY <4>1 DEF BecomesPairs
      <4>3. <<2 * q, e>> \in Slices(h)
        BY <3>5, <4>1
      <4>4. rh[<<2 * q, e>>] = rp[<<q, j>>]
        BY <2>6, <4>1, <4>2, <4>3
      <4>5. QED
        BY <3>5, <3>6, <4>1, <4>4
    <3>8. rh[b] = rp[y]
      <4>1. PICK m \in Nat : m = j /\ m < c /\ 2 * m < l /\ m # 0
        BY <3>1, <3>2
      <4>2. PICK i, d, e \in Nat : i = q + m /\ d = c - m /\ e = l - 2 * m
        BY <2>3, <4>1
      <4>3. e < l /\ 2 * i = 2 * q + 2 * m
        BY <2>3, <4>1, <4>2
      <4>4. e = 2 * d \/ (e = 2 * d - 1 /\ 2 * i + e = hl)
        BY <2>3, <4>1, <4>2
      <4>5. BecomesPairs(h, i, e, d)
        BY <1>2, <4>4 DEF BecomesPairs
      <4>6. b = <<2 * i, e>> /\ y = <<i, d>>
        BY <3>5, <3>6, <4>1, <4>2, <4>3
      <4>7. <<2 * i, e>> \in Slices(h)
        BY <3>5, <4>6
      <4>8. rh[<<2 * i, e>>] = rp[<<i, d>>]
        BY <2>6, <4>2, <4>3, <4>5, <4>7
      <4>9. QED
        BY <4>6, <4>8
    <3>9. rh[s] = NodeHash(rh[a], rh[b]) /\ rp[t] = NodeHash(rp[x], rp[y])
      <4>1. l # 1 /\ c # 1
        BY <3>1
      <4>2. rh[s] = NodeHash(rh[LeftOf(s)], rh[RightOf(s)])
        BY <1>4, <3>4, <4>1
      <4>3. rp[t] = NodeHash(rp[LeftOf(t)], rp[RightOf(t)])
        BY <1>5, <3>4, <4>1
      <4>4. QED
        BY <3>5, <3>6, <4>2, <4>3
    <3>10. QED
      BY <2>2, <3>3, <3>7, <3>8, <3>9
  <2>9. QED
    BY <2>3, <2>7, <2>8
<1>7. ~ Differ(q0, l0, c0)
  <2>1. l0 \in Nat /\ l0 \notin Bad
    BY <1>6
  <2>2. QED
    BY <2>1
<1>8. QED
  BY <1>1, <1>3, <1>7 DEF Differ

\* Pairing keeps the root.
LEMMA PairedRoot ==
    ASSUME NEW h \in Seq(Hash), h # <<>>
    PROVE  /\ rootOfHashes(Paired(h)) = rootOfHashes(h)
           /\ Len(Paired(h)) \in 1 .. Len(h)
           /\ Len(h) # 1 => Len(Paired(h)) < Len(h)
<1>1. PICK l \in Nat \ {0} : l = Len(h)
  OBVIOUS
<1>2. PICK p \in Seq(Hash), c \in Nat : p = Paired(h) /\ c = Len(p) /\ (l = 2 * c \/ l = 2 * c - 1)
  BY <1>1, PairedType
<1>3. <<2 * 0, l>> \in Slices(h) /\ BecomesPairs(h, 0, l, c) /\ 2 * 0 = 0
  BY <1>1, <1>2 DEF Slices, BecomesPairs
<1>4. Roots(h)[<<2 * 0, l>>] = Roots(p)[<<0, c>>]
  BY <1>2, <1>3, RootsOfPairs
<1>5. rootOfHashes(p) = rootOfHashes(h)
  BY <1>1, <1>2, <1>3, <1>4 DEF rootOfHashes
<1>6. c \in 1 .. l /\ (l # 1 => c < l)
  BY <1>1, <1>2
<1>7. QED
  BY <1>1, <1>2, <1>5, <1>6

\* The recursion of the levels.
LEMMA LevelsDef ==
    ASSUME NEW h \in Seq(Hash)
    PROVE  \E level \in [Nat -> Seq(Hash)] :
              /\ level[0] = h
              /\ \A a \in Nat : level[a + 1] = Paired(level[a])
              /\ BottomUp(h) = level[Len(h)][1]
<1>1. PICK S : S = Seq(Hash)
  OBVIOUS
<1>2. PICK M \in [Nat -> Nat] : M = [a \in Nat |-> a]
  OBVIOUS
<1>3. PICK G \in [Nat \X [Nat -> S] -> S] :
          G = [x \in Nat \X [Nat -> S] |-> IF x[1] = 0 THEN h ELSE Paired(x[2][x[1] - 1])]
  <2>1. ASSUME NEW a \in Nat, NEW g \in [Nat -> S], a # 0
        PROVE  Paired(g[a - 1]) \in S
    <3>1. g[a - 1] \in S
      BY <2>1
    <3>2. QED
      BY <1>1, <3>1, PairedType
  <2>2. h \in S
    BY <1>1
  <2>3. QED
    BY <2>1, <2>2
<1>4. Recursive(Nat, S, M, G)
  BY <1>2, <1>3 DEF Recursive
<1>5. PICK f \in [Nat -> S] : SolvesAll(f, Nat, G)
  <2>1. S # {}
    BY <1>1
  <2>2. QED
    BY <1>4, <2>1, RecursionDefines
<1>6. f = [a \in Nat |-> IF a = 0 THEN h ELSE Paired(f[a - 1])]
  BY <1>3, <1>5 DEF SolvesAll
<1> DEFINE E(g) == [a \in Nat |-> IF a = 0 THEN h ELSE Paired(g[a - 1])]
           Tower == CHOOSE g : g = E(g)
<1>7. PICK level : level = Tower
  OBVIOUS
<1>8. BottomUp(h) = level[Len(h)][1]
  BY <1>7 DEF BottomUp
<1>9. level = E(level)
  BY <1>6, <1>7
<1> HIDE DEF Tower
<1>10. \A a \in Nat : level[a] = IF a = 0 THEN h ELSE Paired(level[a - 1])
  BY <1>9
<1>11. level[0] = h
  BY <1>10
<1>12. ASSUME NEW a \in Nat PROVE level[a + 1] = Paired(level[a])
  <2>1. a + 1 \in Nat /\ a + 1 # 0 /\ (a + 1) - 1 = a
    OBVIOUS
  <2>2. QED
    BY <1>10, <2>1
<1> DEFINE Bad == {a \in Nat : level[a] \notin S}
<1>13. ASSUME Bad # {} PROVE FALSE
  <2>1. PICK a \in Bad : \A j \in Nat : j < a => j \notin Bad
    BY <1>13, LeastNumber
  <2>2. a # 0
    BY <1>1, <1>11, <2>1
  <2>3. PICK b \in Nat : b = a - 1 /\ b < a /\ a = b + 1
    BY <2>1, <2>2
  <2>4. level[b] \in S
    BY <2>1, <2>3
  <2>5. level[a] \in S
    BY <1>1, <1>12, <2>3, <2>4, PairedType
  <2>6. QED
    BY <2>1, <2>5
<1>14. level \in [Nat -> S]
  BY <1>9, <1>13
<1>15. QED
  BY <1>1, <1>8, <1>11, <1>12, <1>14

\* The last level is the root.
LEMMA BottomUpIsRoot ==
    ASSUME NEW h \in Seq(Hash), h # <<>>
    PROVE  BottomUp(h) = rootOfHashes(h)
<1>1. PICK l \in Nat \ {0} : l = Len(h)
  OBVIOUS
<1>2. PICK level \in [Nat -> Seq(Hash)] :
              /\ level[0] = h
              /\ \A a \in Nat : level[a + 1] = Paired(level[a])
              /\ BottomUp(h) = level[l][1]
  BY <1>1, LevelsDef
<1> DEFINE Right(a) == /\ level[a] # <<>>
                       /\ rootOfHashes(level[a]) = rootOfHashes(h)
                       /\ Len(level[a]) = 1 \/ Len(level[a]) + a <= l
           Bad == {a \in Nat : ~ Right(a)}
<1>3. ASSUME Bad # {} PROVE FALSE
  <2>1. PICK a \in Bad : \A j \in Nat : j < a => j \notin Bad
    BY <1>3, LeastNumber
  <2>2. a # 0
    BY <1>1, <1>2, <2>1
  <2>3. PICK b \in Nat : b = a - 1 /\ b < a /\ a = b + 1
    BY <2>1, <2>2
  <2>4. PICK g \in Seq(Hash) : g = level[b] /\ level[a] = Paired(g)
    BY <1>2, <2>3
  <2>5. g # <<>> /\ rootOfHashes(g) = rootOfHashes(h) /\ (Len(g) = 1 \/ Len(g) + b <= l)
    BY <2>1, <2>3, <2>4
  <2>6. PICK p \in Seq(Hash) : p = Paired(g)
    BY PairedType
  <2>7. /\ rootOfHashes(p) = rootOfHashes(g) /\ Len(p) \in 1 .. Len(g)
        /\ Len(g) # 1 => Len(p) < Len(g)
    BY <2>5, <2>6, PairedRoot
  <2>8. p # <<>>
    <3>1. p = <<>> => Len(p) = 0
      OBVIOUS
    <3>2. QED
      BY <2>7, <3>1
  <2>9. Len(p) = 1 \/ Len(p) + a <= l
    <3>1. PICK x, y \in Nat : x = Len(p) /\ y = Len(g)
      OBVIOUS
    <3>2. x \in 1 .. y /\ (y # 1 => x < y) /\ (y = 1 \/ y + b <= l)
      BY <2>5, <2>7, <3>1
    <3>3. x = 1 \/ x + a <= l
      BY <2>3, <3>2
    <3>4. QED
      BY <3>1, <3>3
  <2>10. QED
    BY <2>1, <2>4, <2>5, <2>6, <2>7, <2>8, <2>9
<1>4. Right(l)
  BY <1>3
<1>5. PICK g \in Seq(Hash) : g = level[l]
  BY <1>2
<1>6. Len(g) = 1 /\ rootOfHashes(g) = rootOfHashes(h)
  <2>1. PICK x \in Nat : x = Len(g) /\ x # 0
    BY <1>4, <1>5
  <2>2. x = 1 \/ x + l <= l
    BY <1>4, <1>5, <2>1
  <2>3. x = 1
    BY <2>1, <2>2
  <2>4. QED
    BY <1>4, <1>5, <2>1, <2>3
<1>7. rootOfHashes(g) = g[1]
  <2>1. PICK s : s = <<0, 1>>
    OBVIOUS
  <2>2. s \in Slices(g) /\ s[1] + 1 = 1 /\ s[2] = 1
    BY <1>6, <2>1 DEF Slices
  <2>3. Roots(g)[s] = g[1]
    BY <2>2, RootsDef
  <2>4. QED
    BY <1>6, <2>1, <2>3 DEF rootOfHashes
<1>8. QED
  BY <1>2, <1>5, <1>6, <1>7

-----------------------------------------------------------------------------
(* Inclusion proofs.                                                        *)

\* The slice of which a part has a leaf less.
LEMMA PartsOfSlice ==
    ASSUME NEW h, Len(h) \in Nat, NEW s \in Slices(h), s[2] # 1
    PROVE  /\ LeftOf(s) \in Slices(h) /\ LeftOf(s)[1] = s[1]
           /\ LeftOf(s)[2] \in 1 .. s[2] - 1
           /\ LeftOf(s)[2] = largestPowerOfTwoLessThan(s[2])
           /\ RightOf(s) \in Slices(h) /\ RightOf(s)[1] = s[1] + LeftOf(s)[2]
           /\ RightOf(s)[2] = s[2] - LeftOf(s)[2] /\ RightOf(s)[2] \in 1 .. LeftOf(s)[2]
<1>1. s[1] \in Nat /\ s[2] \in Nat
  BY SliceParts
<1>2. PICK k \in Nat \ {0} :
                    /\ k = largestPowerOfTwoLessThan(s[2]) /\ k < s[2] /\ s[2] <= 2 * k
                    /\ LeftOf(s) = <<s[1], k>> /\ LeftOf(s) \in Slices(h)
                    /\ RightOf(s) = <<s[1] + k, s[2] - k>> /\ RightOf(s) \in Slices(h)
  BY SliceParts
<1>3. QED
  BY <1>1, <1>2

\* The recursion of inclusionProof.
LEMMA InclusionProofDef ==
    ASSUME NEW h \in Seq(Hash), NEW i \in Nat
    PROVE  \E path \in [Slices(h) -> Seq(Hash)] :
              /\ inclusionProof(h, i) = path[<<0, Len(h)>>]
              /\ \A s \in Slices(h) : path[s] =
                    IF s[2] = 1 THEN <<>>
                    ELSE IF i < RightOf(s)[1] THEN Append(path[LeftOf(s)], Roots(h)[RightOf(s)])
                    ELSE Append(path[RightOf(s)], Roots(h)[LeftOf(s)])
<1>1. PICK D : D = Slices(h)
  OBVIOUS
<1>2. PICK R : R = Seq(Hash)
  OBVIOUS
<1>3. Len(h) \in Nat
  OBVIOUS
<1>4. \A s \in D : s[2] \in Nat
  BY <1>1, <1>3, SliceParts
<1>5. \A s \in D : s[2] # 1 => /\ LeftOf(s) \in D /\ LeftOf(s)[2] < s[2]
                               /\ RightOf(s) \in D /\ RightOf(s)[2] < s[2]
  <2>1. TAKE s \in D
  <2>2. HAVE s[2] # 1
  <2>3. /\ LeftOf(s) \in D /\ LeftOf(s)[2] \in 1 .. s[2] - 1
        /\ RightOf(s) \in D /\ RightOf(s)[2] \in 1 .. LeftOf(s)[2]
    BY <1>1, <1>3, <2>2, PartsOfSlice
  <2>4. QED
    BY <1>4, <2>3
<1>6. PICK M \in [D -> Nat] : M = [s \in D |-> s[2]]
  BY <1>4
<1>7. \A s \in D : s[2] # 1 => Roots(h)[LeftOf(s)] \in Hash /\ Roots(h)[RightOf(s)] \in Hash
  BY <1>1, <1>5, RootsDef
<1>8. <<>> \in R /\ \A x \in R, y \in Hash : Append(x, y) \in R
  BY <1>2
<1>9. PICK G \in [D \X [D -> R] -> R] :
          G = [p \in D \X [D -> R] |->
                 IF p[1][2] = 1 THEN <<>>
                 ELSE IF i < RightOf(p[1])[1]
                      THEN Append(p[2][LeftOf(p[1])], Roots(h)[RightOf(p[1])])
                 ELSE Append(p[2][RightOf(p[1])], Roots(h)[LeftOf(p[1])])]
  BY <1>5, <1>7, <1>8
<1>10. Recursive(D, R, M, G)
  BY <1>4, <1>5, <1>6, <1>9 DEF Recursive
<1>11. PICK f \in [D -> R] : SolvesAll(f, D, G)
  BY <1>8, <1>10, RecursionDefines
<1>12. \A s \in D : f[s] = IF s[2] = 1 THEN <<>>
                    ELSE IF i < RightOf(s)[1] THEN Append(f[LeftOf(s)], Roots(h)[RightOf(s)])
                    ELSE Append(f[RightOf(s)], Roots(h)[LeftOf(s)])
  BY <1>9, <1>11 DEF SolvesAll
<1>13. f = [s \in D |-> IF s[2] = 1 THEN <<>>
                    ELSE IF i < RightOf(s)[1] THEN Append(f[LeftOf(s)], Roots(h)[RightOf(s)])
                    ELSE Append(f[RightOf(s)], Roots(h)[LeftOf(s)])]
  BY <1>12
<1> DEFINE P == CHOOSE path : path =
                  [s \in Slices(h) |-> IF s[2] = 1 THEN <<>>
                    ELSE IF i < RightOf(s)[1] THEN Append(path[LeftOf(s)], Roots(h)[RightOf(s)])
                    ELSE Append(path[RightOf(s)], Roots(h)[LeftOf(s)])]
<1>14. inclusionProof(h, i) = P[<<0, Len(h)>>]
  BY DEF inclusionProof
<1>15. PICK path : path = P
  OBVIOUS
<1>16. path = [s \in D |-> IF s[2] = 1 THEN <<>>
                    ELSE IF i < RightOf(s)[1] THEN Append(path[LeftOf(s)], Roots(h)[RightOf(s)])
                    ELSE Append(path[RightOf(s)], Roots(h)[LeftOf(s)])]
  BY <1>1, <1>13, <1>15
<1> HIDE DEF P
<1>17. \A s \in D : path[s] = IF s[2] = 1 THEN <<>>
                    ELSE IF i < RightOf(s)[1] THEN Append(path[LeftOf(s)], Roots(h)[RightOf(s)])
                    ELSE Append(path[RightOf(s)], Roots(h)[LeftOf(s)])
  BY <1>16
<1> DEFINE Bad == {l \in Nat : \E s \in D : s[2] = l /\ path[s] \notin R}
<1>18. ASSUME Bad # {} PROVE FALSE
  <2>1. PICK l \in Bad : \A j \in Nat : j < l => j \notin Bad
    BY <1>18, LeastNumber
  <2>2. PICK s \in D : s[2] = l /\ path[s] \notin R
    BY <2>1
  <2>3. CASE s[2] = 1
    BY <1>8, <1>17, <2>2, <2>3
  <2>4. CASE s[2] # 1
    <3>1. path[LeftOf(s)] \in R /\ path[RightOf(s)] \in R
      BY <1>4, <1>5, <2>1, <2>2, <2>4
    <3>2. QED
      BY <1>7, <1>8, <1>17, <2>2, <2>4, <3>1
  <2>5. QED
    BY <2>3, <2>4
<1>19. \A s \in D : path[s] \in R
  BY <1>4, <1>18
<1>20. path \in [D -> R]
  BY <1>16, <1>19
<1>21. QED
  BY <1>1, <1>2, <1>14, <1>15, <1>17, <1>20

\* Where verifyDescend goes from the slice s, and what it makes of the result.
SideOf(s) ==
    LET k == largestPowerOfTwoLessThan(s[2]) IN
    IF GoesLeft(s[1], k) THEN <<s[1], k, s[3] - 1>> ELSE <<s[1] - k, s[2] - k, s[3] - 1>>

Above(s, sub, sibling) ==
    IF ~ sub.ok THEN Failed
    ELSE [sub EXCEPT !.hash = IF GoesLeft(s[1], largestPowerOfTwoLessThan(s[2]))
                              THEN NodeHash(sub.hash, sibling) ELSE NodeHash(sibling, sub.hash)]

Descent == [ok : BOOLEAN, hash : Hash, rest : Nat]

\* What verifyDescend makes of the result for a part.
LEMMA AboveType ==
    ASSUME NEW s, NEW sub \in Descent, NEW x \in Hash
    PROVE  /\ Above(s, sub, x) \in Descent /\ (Above(s, sub, x).ok <=> sub.ok)
           /\ sub.ok => /\ Above(s, sub, x).rest = sub.rest
                        /\ Above(s, sub, x).hash =
                              IF GoesLeft(s[1], largestPowerOfTwoLessThan(s[2]))
                              THEN NodeHash(sub.hash, x) ELSE NodeHash(x, sub.hash)
<1>1. Failed \in Descent /\ ~ Failed.ok
  BY HashTypes DEF Failed, Descent
<1>2. PICK y \in Hash : y = IF GoesLeft(s[1], largestPowerOfTwoLessThan(s[2]))
                              THEN NodeHash(sub.hash, x) ELSE NodeHash(x, sub.hash)
  BY HashTypes DEF Descent
<1>3. PICK u : u = [sub EXCEPT !.hash = y]
  OBVIOUS
<1>4. u \in Descent /\ u.ok = sub.ok /\ u.rest = sub.rest /\ u.hash = y
  BY <1>3 DEF Descent
<1>5. Above(s, sub, x) = IF ~ sub.ok THEN Failed ELSE u
  BY <1>2, <1>3 DEF Above
<1>6. QED
  BY <1>1, <1>2, <1>4, <1>5

IsAbove(d, s, sub, x) ==
    /\ d.ok <=> sub.ok
    /\ sub.ok => d.rest = sub.rest
    /\ sub.ok => d.hash = IF GoesLeft(s[1], largestPowerOfTwoLessThan(s[2]))
                          THEN NodeHash(sub.hash, x) ELSE NodeHash(x, sub.hash)

\* The same of a result that has a name.
LEMMA AboveIs ==
    ASSUME NEW s, NEW sub \in Descent, NEW x \in Hash, NEW d, d = Above(s, sub, x)
    PROVE  IsAbove(d, s, sub, x)
<1>1. d.ok <=> sub.ok
  BY AboveType
<1>2. sub.ok => d.rest = sub.rest
  BY AboveType
<1>3. sub.ok => d.hash = IF GoesLeft(s[1], largestPowerOfTwoLessThan(s[2]))
                          THEN NodeHash(sub.hash, x) ELSE NodeHash(x, sub.hash)
  BY AboveType
<1>4. QED
  BY <1>1, <1>2, <1>3 DEF IsAbove

\* verifyDescend goes to arguments of its recursion.
LEMMA SideOfType ==
    ASSUME NEW i \in Nat, NEW n0 \in Nat, NEW l \in Nat,
           NEW s \in (0 .. i) \X (1 .. n0) \X (0 .. l), s[2] # 1, s[3] # 0
    PROVE  SideOf(s) \in (0 .. i) \X (1 .. n0) \X (0 .. l) /\ SideOf(s)[3] = s[3] - 1
<1>1. s[1] \in 0 .. i /\ s[2] \in 2 .. n0 /\ s[3] - 1 \in 0 .. l
  OBVIOUS
<1>2. s[2] \in Nat /\ s[2] >= 2
  BY <1>1
<1>3. PICK k \in 1 .. s[2] - 1 : k = largestPowerOfTwoLessThan(s[2])
  BY <1>2, SplitPoint
<1>4. CASE GoesLeft(s[1], k)
  BY <1>1, <1>3, <1>4 DEF SideOf
<1>5. CASE ~ GoesLeft(s[1], k)
  BY <1>1, <1>3, <1>5 DEF SideOf, GoesLeft
<1>6. QED
  BY <1>4, <1>5

\* The recursion of verifyDescend.
Descends(down, leaf, i, n0, pf) ==
    /\ down \in [(0 .. i) \X (1 .. n0) \X (0 .. Len(pf)) -> Descent]
    /\ verifyDescend(leaf, i, n0, pf) = down[<<i, n0, Len(pf)>>]
    /\ \A s \in (0 .. i) \X (1 .. n0) \X (0 .. Len(pf)) : down[s] =
          IF s[2] = 1 THEN [ok |-> TRUE, hash |-> leaf, rest |-> s[3]]
          ELSE IF s[3] = 0 THEN Failed
          ELSE Above(s, down[SideOf(s)], pf[s[3]])

\* The recursion is that of a function.
LEMMA DescendDef ==
    ASSUME NEW leaf \in Hash, NEW i \in Nat, NEW n0 \in Nat, NEW pf \in Seq(Hash)
    PROVE  \E down : Descends(down, leaf, i, n0, pf)
<1>1. PICK D : D = (0 .. i) \X (1 .. n0) \X (0 .. Len(pf))
  OBVIOUS
<1>2. Len(pf) \in Nat
  OBVIOUS
<1>3. \A s \in D : s[3] \in Nat /\ s[3] \in 0 .. Len(pf)
  BY <1>1
<1>4. \A s \in D : s[2] # 1 /\ s[3] # 0 => SideOf(s) \in D /\ SideOf(s)[3] < s[3]
  BY <1>1, <1>2, <1>3, SideOfType
<1>5. \A s \in D : s[3] # 0 => pf[s[3]] \in Hash
  BY <1>2, <1>3
<1>6. PICK M \in [D -> Nat] : M = [s \in D |-> s[3]]
  BY <1>3
<1>7. /\ Failed \in Descent
      /\ \A s \in D : [ok |-> TRUE, hash |-> leaf, rest |-> s[3]] \in Descent
  BY <1>3, HashTypes DEF Failed, Descent
<1>8. \A s \in D : \A sub \in Descent : s[3] # 0 => Above(s, sub, pf[s[3]]) \in Descent
  BY <1>5, AboveType
<1>9. PICK G \in [D \X [D -> Descent] -> Descent] :
          G = [p \in D \X [D -> Descent] |->
                 IF p[1][2] = 1 THEN [ok |-> TRUE, hash |-> leaf, rest |-> p[1][3]]
                 ELSE IF p[1][3] = 0 THEN Failed
                 ELSE Above(p[1], p[2][SideOf(p[1])], pf[p[1][3]])]
  BY <1>4, <1>7, <1>8
<1>10. Recursive(D, Descent, M, G)
  BY <1>3, <1>4, <1>6, <1>9 DEF Recursive
<1>11. PICK f \in [D -> Descent] : SolvesAll(f, D, G)
  BY <1>7, <1>10, RecursionDefines
<1>12. \A s \in D : f[s] = IF s[2] = 1 THEN [ok |-> TRUE, hash |-> leaf, rest |-> s[3]]
                    ELSE IF s[3] = 0 THEN Failed
                    ELSE Above(s, f[SideOf(s)], pf[s[3]])
  BY <1>9, <1>11 DEF SolvesAll
<1> DEFINE E(s, down) ==
              LET j == s[1]
                  rest == s[3]
                  k == largestPowerOfTwoLessThan(s[2])
                  left == GoesLeft(j, k)
                  sub == down[IF left THEN <<j, k, rest - 1>> ELSE <<j - k, s[2] - k, rest - 1>>] IN
              IF s[2] = 1 THEN [ok |-> TRUE, hash |-> leaf, rest |-> rest]
              ELSE IF rest = 0 \/ ~ sub.ok THEN Failed
              ELSE [sub EXCEPT !.hash = IF left THEN NodeHash(sub.hash, pf[rest])
                                        ELSE NodeHash(pf[rest], sub.hash)]
<1>13. ASSUME NEW s \in D, NEW down
       PROVE  E(s, down) = IF s[2] = 1 THEN [ok |-> TRUE, hash |-> leaf, rest |-> s[3]]
                    ELSE IF s[3] = 0 THEN Failed
                    ELSE Above(s, down[SideOf(s)], pf[s[3]])
  BY DEF Above, SideOf
<1> DEFINE P == CHOOSE down : down =
                  [s \in (0 .. i) \X (1 .. n0) \X (0 .. Len(pf)) |-> E(s, down)]
<1>14. verifyDescend(leaf, i, n0, pf) = P[<<i, n0, Len(pf)>>]
  BY DEF verifyDescend
<1>15. PICK down : down = P
  OBVIOUS
<1> HIDE DEF E
<1>16. f = [s \in D |-> E(s, f)]
  <2>1. ASSUME NEW s \in D PROVE f[s] = E(s, f)
    BY <1>12, <1>13
  <2>2. QED
    BY <2>1
<1>17. down = [s \in D |-> E(s, down)]
  BY <1>1, <1>15, <1>16
<1> HIDE DEF P
<1>18. \A s \in D : down[s] =
                    IF s[2] = 1 THEN [ok |-> TRUE, hash |-> leaf, rest |-> s[3]]
                    ELSE IF s[3] = 0 THEN Failed
                    ELSE Above(s, down[SideOf(s)], pf[s[3]])
  BY <1>13, <1>17
<1> DEFINE Bad == {l \in Nat : \E s \in D : s[3] = l /\ down[s] \notin Descent}
<1>19. ASSUME Bad # {} PROVE FALSE
  <2>1. PICK l \in Bad : \A j \in Nat : j < l => j \notin Bad
    BY <1>19, LeastNumber
  <2>2. PICK s \in D : s[3] = l /\ down[s] \notin Descent
    BY <2>1
  <2>3. CASE s[2] = 1 \/ s[3] = 0
    BY <1>7, <1>18, <2>2, <2>3
  <2>4. CASE s[2] # 1 /\ s[3] # 0
    <3>1. down[SideOf(s)] \in Descent
      BY <1>3, <1>4, <2>1, <2>2, <2>4
    <3>2. QED
      BY <1>8, <1>18, <2>2, <2>4, <3>1
  <2>5. QED
    BY <2>3, <2>4
<1>20. \A s \in D : down[s] \in Descent
  BY <1>3, <1>19
<1>21. down \in [D -> Descent]
  BY <1>17, <1>20
<1>22. QED
  BY <1>1, <1>14, <1>15, <1>18, <1>21 DEF Descends

\* The r-th element of a proof and those before it, down to what is left, are a path.
EndsWith(pf, r, p) == \A t \in 1 .. Len(p) : pf[r - Len(p) + t] = p[t]

\* A longer path ends with its last hash.
LEMMA EndsWithMore ==
    ASSUME NEW pf \in Seq(Hash), NEW p \in Seq(Hash), NEW x \in Hash, NEW r \in Nat \ {0}
    PROVE  EndsWith(pf, r, Append(p, x)) <=> EndsWith(pf, r - 1, p) /\ pf[r] = x
<1>1. PICK q : q = Append(p, x)
  OBVIOUS
<1>2. PICK l \in Nat : l = Len(p)
  OBVIOUS
<1>3. Len(q) = l + 1 /\ q[l + 1] = x /\ \A t \in 1 .. l : q[t] = p[t]
  BY <1>1, <1>2
<1>4. \A t \in 1 .. l : r - (l + 1) + t = (r - 1) - l + t
  OBVIOUS
<1>5. r - (l + 1) + (l + 1) = r
  OBVIOUS
<1>6. ASSUME EndsWith(pf, r, q)
      PROVE  EndsWith(pf, r - 1, p) /\ pf[r] = x
  <2>1. pf[r] = x
    <3>1. pf[r - (l + 1) + (l + 1)] = q[l + 1]
      BY <1>3, <1>6 DEF EndsWith
    <3>2. QED
      BY <1>3, <1>5, <3>1
  <2>2. ASSUME NEW t \in 1 .. l PROVE pf[(r - 1) - l + t] = p[t]
    <3>1. pf[r - (l + 1) + t] = q[t]
      BY <1>3, <1>6 DEF EndsWith
    <3>2. QED
      BY <1>3, <1>4, <3>1
  <2>3. QED
    BY <1>2, <2>1, <2>2 DEF EndsWith
<1>7. ASSUME EndsWith(pf, r - 1, p), pf[r] = x
      PROVE  EndsWith(pf, r, q)
  <2>1. ASSUME NEW t \in 1 .. l + 1 PROVE pf[r - (l + 1) + t] = q[t]
    <3>1. CASE t = l + 1
      BY <1>3, <1>5, <1>7, <3>1
    <3>2. CASE t # l + 1
      <4>1. t \in 1 .. l
        BY <3>2
      <4>2. pf[(r - 1) - l + t] = p[t]
        BY <1>2, <1>7, <4>1 DEF EndsWith
      <4>3. QED
        BY <1>3, <1>4, <4>1, <4>2
    <3>3. QED
      BY <3>1, <3>2
  <2>2. QED
    BY <1>3, <2>1 DEF EndsWith
<1>8. QED
  BY <1>1, <1>6, <1>7

\* VerifyInclusion accepts a leaf if and only if it is the one of the tree at that
\* index, with the path that inclusionProof gives.
LEMMA InclusionVerified ==
    ASSUME NEW h \in Seq(Hash), NEW i \in 0 .. Len(h) - 1, NEW leaf \in Hash, NEW pf \in Seq(Hash)
    PROVE  VerifyInclusion(RootFromLeafHashes(h), leaf, i, Len(h), pf)
               <=> leaf = h[i + 1] /\ pf = inclusionProof(h, i)
<1>1. Len(h) \in Nat \ {0} /\ i \in Nat /\ i < Len(h) /\ Len(pf) \in Nat
  OBVIOUS
<1>2. PICK D : D = (0 .. i) \X (1 .. Len(h)) \X (0 .. Len(pf))
  OBVIOUS
<1>3. PICK down \in [D -> Descent] :
              /\ verifyDescend(leaf, i, Len(h), pf) = down[<<i, Len(h), Len(pf)>>]
              /\ \A s \in D : down[s] =
                    IF s[2] = 1 THEN [ok |-> TRUE, hash |-> leaf, rest |-> s[3]]
                    ELSE IF s[3] = 0 THEN Failed
                    ELSE Above(s, down[SideOf(s)], pf[s[3]])
  <2>1. Len(h) \in Nat
    OBVIOUS
  <2>2. PICK down : Descends(down, leaf, i, Len(h), pf)
    BY <1>1, <2>1, DescendDef
  <2>3. QED
    BY <1>2, <2>2 DEF Descends
<1>4. PICK path \in [Slices(h) -> Seq(Hash)] :
              /\ inclusionProof(h, i) = path[<<0, Len(h)>>]
              /\ \A s \in Slices(h) : path[s] =
                    IF s[2] = 1 THEN <<>>
                    ELSE IF i < RightOf(s)[1] THEN Append(path[LeftOf(s)], Roots(h)[RightOf(s)])
                    ELSE Append(path[RightOf(s)], Roots(h)[LeftOf(s)])
  BY <1>1, InclusionProofDef
<1> DEFINE At(s, r) == down[<<i - s[1], s[2], r>>]
           Holds(s) == s[1] <= i /\ i < s[1] + s[2]
           Right(s, r) ==
              /\ At(s, r).ok <=> Len(path[s]) <= r
              /\ At(s, r).ok =>
                    /\ At(s, r).rest = r - Len(path[s])
                    /\ At(s, r).hash = Roots(h)[s] <=> leaf = h[i + 1] /\ EndsWith(pf, r, path[s])
           Bad == {l \in Nat : \E s \in Slices(h), r \in 0 .. Len(pf) :
                                  s[2] = l /\ Holds(s) /\ ~ Right(s, r)}
<1>5. ASSUME NEW s \in Slices(h), Holds(s), NEW r \in 0 .. Len(pf)
      PROVE  <<i - s[1], s[2], r>> \in D /\ s[1] \in Nat /\ s[2] \in 1 .. Len(h) /\ i - s[1] \in 0 .. i
  <2>1. s[1] \in Nat /\ s[2] \in Nat \ {0} /\ s[1] + s[2] <= Len(h)
    BY <1>1, SliceParts
  <2>2. PICK a, b \in Nat : a = s[1] /\ b = s[2] /\ b # 0
    BY <2>1
  <2>3. a <= i /\ i < a + b /\ a + b <= Len(h) /\ i \in Nat
    BY <1>1, <1>5, <2>1, <2>2
  <2>4. PICK m \in Nat : m = Len(h)
    BY <1>1
  <2>5. \A u, v, w, z \in Nat : u <= z /\ z < u + v /\ u + v <= w => z - u \in 0 .. z /\ v <= w
    OBVIOUS
  <2>6. i - a \in 0 .. i /\ b \in 1 .. Len(h)
    BY <2>2, <2>3, <2>4, <2>5, SMTT(30)
  <2>7. QED
    BY <1>2, <2>2, <2>6
<1>6. ASSUME Bad # {} PROVE FALSE
  <2>1. PICK l \in Bad : \A j \in Nat : j < l => j \notin Bad
    BY <1>6, LeastNumber
  <2>2. PICK s \in Slices(h), r \in 0 .. Len(pf) : s[2] = l /\ Holds(s) /\ ~ Right(s, r)
    BY <2>1
  <2>3. ASSUME NEW y \in Slices(h), NEW q \in 0 .. Len(pf), y[2] \in Nat, y[2] < s[2], Holds(y)
         PROVE  Right(y, q)
    <3>1. y[2] \notin Bad
      BY <2>1, <2>2, <2>3
    <3>2. QED
      BY <2>3, <3>1
  <2>4. PICK x \in D : x = <<i - s[1], s[2], r>>
    BY <1>5, <2>2
  <2>5. x[1] = i - s[1] /\ x[2] = s[2] /\ x[3] = r /\ At(s, r) = down[x]
    BY <2>4
  <2>6. s[1] \in Nat /\ s[2] \in 1 .. Len(h)
    BY <1>5, <2>2
  <2>7. CASE s[2] = 1
    <3>1. down[x] = [ok |-> TRUE, hash |-> leaf, rest |-> r]
      BY <1>3, <2>5, <2>7
    <3>2. path[s] = <<>> /\ Roots(h)[s] = h[s[1] + 1] /\ i = s[1]
      BY <1>4, <2>2, <2>6, <2>7, RootsDef, SMTT(30)
    <3>3. Len(path[s]) = 0 /\ EndsWith(pf, r, path[s])
      BY <3>2 DEF EndsWith
    <3>4. QED
      BY <2>2, <2>5, <3>1, <3>2, <3>3
  <2>8. CASE s[2] # 1
    <3>1. /\ LeftOf(s) \in Slices(h) /\ LeftOf(s)[1] = s[1]
          /\ LeftOf(s)[2] \in 1 .. s[2] - 1
          /\ LeftOf(s)[2] = largestPowerOfTwoLessThan(s[2])
          /\ RightOf(s) \in Slices(h) /\ RightOf(s)[1] = s[1] + LeftOf(s)[2]
          /\ RightOf(s)[2] = s[2] - LeftOf(s)[2] /\ RightOf(s)[2] \in 1 .. LeftOf(s)[2]
      BY <1>1, <2>8, PartsOfSlice
    <3>2. PICK k \in Nat \ {0} : k = LeftOf(s)[2] /\ k < s[2]
      BY <2>6, <3>1
    <3>3. PICK left \in BOOLEAN : left <=> i < s[1] + k
      OBVIOUS
    <3>4. GoesLeft(x[1], k) <=> left
      BY <1>1, <2>5, <2>6, <3>2, <3>3 DEF GoesLeft
    <3>5. PICK c, d \in Slices(h) : /\ c = IF left THEN LeftOf(s) ELSE RightOf(s)
                                    /\ d = IF left THEN RightOf(s) ELSE LeftOf(s)
      BY <3>1
    <3>6. c[2] \in Nat /\ c[2] < s[2] /\ Holds(c)
      <4>1. PICK a, b \in Nat : a = s[1] /\ b = s[2]
        BY <2>6
      <4>2. a <= i /\ i < a + b /\ k < b
        BY <2>2, <3>2, <4>1
      <4>3. CASE left
        <5>1. c[1] = a /\ c[2] = k /\ i < a + k
          BY <3>1, <3>2, <3>3, <3>5, <4>1, <4>3
        <5>2. QED
          BY <4>1, <4>2, <5>1
      <4>4. CASE ~ left
        <5>1. c[1] = a + k /\ c[2] = b - k /\ ~ (i < a + k)
          BY <3>1, <3>2, <3>3, <3>5, <4>1, <4>4
        <5>2. b - k \in Nat /\ b - k < b /\ a + k <= i /\ i < (a + k) + (b - k)
          <6>1. \A u, v, w, z \in Nat : w < v /\ ~ (z < u + w) /\ z < u + v =>
                    v - w \in Nat /\ u + w <= z /\ z < (u + w) + (v - w)
            OBVIOUS
          <6>2. b - k < b
            BY <3>2, <4>1
          <6>3. QED
            BY <1>1, <3>2, <4>1, <4>2, <5>1, <6>1, <6>2
        <5>3. QED
          BY <4>1, <5>1, <5>2
      <4>5. QED
        BY <4>3, <4>4
    <3>7. PICK sib \in Hash : sib = Roots(h)[d]
      BY <3>5, RootsDef
    <3>8. path[s] = Append(path[c], sib)
      BY <1>4, <2>8, <3>1, <3>2, <3>3, <3>5, <3>7
    <3>9. PICK p \in Seq(Hash) : p = path[c]
      BY <3>5, <1>4
    <3>10. PICK m \in Nat : m = Len(p)
      BY <3>9
    <3>11. Len(path[s]) = m + 1
      BY <3>8, <3>9, <3>10
    <3>12. CASE r = 0
      <4>1. At(s, r) = Failed
        BY <1>3, <2>5, <2>8, <3>12
      <4>2. QED
        BY <2>2, <3>10, <3>11, <3>12, <4>1 DEF Failed
    <3>13. CASE r # 0
      <4>1. r \in Nat \ {0} /\ r - 1 \in 0 .. Len(pf) /\ r \in 1 .. Len(pf)
        BY <1>1, <3>13
      <4>2. Right(c, r - 1)
        BY <2>3, <3>5, <3>6, <4>1
      <4>3. SideOf(x) = <<i - c[1], c[2], r - 1>>
        <5>1. CASE left
          BY <2>5, <3>1, <3>2, <3>4, <3>5, <5>1 DEF SideOf
        <5>2. CASE ~ left
          <6>1. SideOf(x) = <<(i - s[1]) - k, s[2] - k, r - 1>>
            BY <2>5, <3>1, <3>2, <3>4, <5>2 DEF SideOf
          <6>2. c[1] = s[1] + k /\ c[2] = s[2] - k
            BY <3>1, <3>2, <3>5, <5>2
          <6>3. (i - s[1]) - k = i - (s[1] + k)
            BY <1>1, <2>6, <3>2
          <6>4. QED
            BY <6>1, <6>2, <6>3
        <5>3. QED
          BY <5>1, <5>2
      <4>4. PICK sub \in Descent : sub = At(c, r - 1)
        BY <1>5, <3>5, <3>6, <4>1
      <4>5. pf[r] \in Hash
        BY <4>1
      <4>6. At(s, r) = Above(x, sub, pf[r])
        <5>1. x[2] # 1 /\ x[3] # 0
          BY <2>5, <2>8, <3>13
        <5>2. down[x] = Above(x, down[SideOf(x)], pf[x[3]])
          BY <1>3, <5>1
        <5>3. QED
          BY <2>5, <4>3, <4>4, <5>2
      <4>7. /\ At(s, r).ok <=> sub.ok
            /\ sub.ok => /\ At(s, r).rest = sub.rest
                         /\ At(s, r).hash = IF left THEN NodeHash(sub.hash, pf[r])
                                            ELSE NodeHash(pf[r], sub.hash)
        <5>1. PICK w \in Hash : w = pf[r]
          BY <4>5
        <5>2. PICK d0 : d0 = Above(x, sub, w) /\ d0 = At(s, r)
          BY <4>6, <5>1
        <5>3. GoesLeft(x[1], largestPowerOfTwoLessThan(x[2])) <=> left
          BY <2>5, <3>1, <3>2, <3>4
        <5>4. IsAbove(d0, x, sub, w)
          BY <5>2, AboveIs
        <5>5. d0.ok <=> sub.ok
          BY <5>4 DEF IsAbove
        <5>6. sub.ok => d0.rest = sub.rest
          BY <5>4 DEF IsAbove
        <5>7. sub.ok => d0.hash = IF left THEN NodeHash(sub.hash, w) ELSE NodeHash(w, sub.hash)
          BY <5>3, <5>4 DEF IsAbove
        <5>8. At(s, r).ok <=> sub.ok
          BY <5>2, <5>5
        <5>9. QED
          BY <5>1, <5>2, <5>6, <5>7, <5>8
      <4>8. PICK rc \in Hash : rc = Roots(h)[c]
        BY <3>5, RootsDef
      <4>9. Roots(h)[s] = IF left THEN NodeHash(rc, sib) ELSE NodeHash(sib, rc)
        BY <2>8, <3>5, <3>7, <4>8, RootsDef
      <4>10. sub.ok <=> m <= r - 1
        BY <3>9, <3>10, <4>2, <4>4
      <4>11. sub.ok => sub.rest = (r - 1) - m
        BY <3>9, <3>10, <4>2, <4>4
      <4>12. sub.ok => (sub.hash = rc <=> leaf = h[i + 1] /\ EndsWith(pf, r - 1, p))
        BY <3>9, <4>2, <4>4, <4>8
      <4>13. EndsWith(pf, r, path[s]) <=> EndsWith(pf, r - 1, p) /\ pf[r] = sib
        BY <3>8, <3>9, <4>1, EndsWithMore
      <4>14. sub.ok => (At(s, r).hash = Roots(h)[s] <=> sub.hash = rc /\ pf[r] = sib)
        <5>1. sub.hash \in Hash
          BY <4>4 DEF Descent
        <5>2. QED
          BY <4>5, <4>7, <4>9, <5>1, NodeHashInjective
      <4>15. Right(s, r)
        <5>1. At(s, r).ok <=> Len(path[s]) <= r
          BY <3>11, <4>1, <4>7, <4>10
        <5>2. At(s, r).ok => At(s, r).rest = r - Len(path[s])
          BY <3>11, <4>1, <4>7, <4>11
        <5>3. At(s, r).ok =>
                  (At(s, r).hash = Roots(h)[s] <=> leaf = h[i + 1] /\ EndsWith(pf, r, path[s]))
          BY <4>7, <4>12, <4>13, <4>14
        <5>4. QED
          BY <5>1, <5>2, <5>3
      <4>16. QED
        BY <2>2, <4>15
    <3>14. QED
      BY <3>12, <3>13
  <2>9. QED
    BY <2>7, <2>8
<1>7. PICK s \in Slices(h) : s = <<0, Len(h)>> /\ s[1] = 0 /\ s[2] = Len(h)
  <2>1. <<0, Len(h)>> \in Slices(h)
    BY <1>1 DEF Slices
  <2>2. QED
    BY <2>1
<1>8. PICK r \in 0 .. Len(pf) : r = Len(pf)
  BY <1>1
<1>9. Right(s, r)
  <2>1. Holds(s) /\ s[2] \in Nat
    BY <1>1, <1>7
  <2>2. QED
    BY <1>6, <2>1
<1>10. PICK p \in Seq(Hash) : p = path[s] /\ p = inclusionProof(h, i)
  BY <1>4, <1>7
<1>11. PICK d : d = verifyDescend(leaf, i, Len(h), pf)
  OBVIOUS
<1>12. d = At(s, r)
  BY <1>1, <1>3, <1>7, <1>8, <1>11
<1>13. RootFromLeafHashes(h) = Roots(h)[s]
  <2>1. h # <<>>
    BY <1>1
  <2>2. QED
    BY <1>7, <2>1 DEF RootFromLeafHashes, rootOfHashes
<1>14. VerifyInclusion(RootFromLeafHashes(h), leaf, i, Len(h), pf)
           <=> d.ok /\ d.rest = 0 /\ d.hash = Roots(h)[s]
  BY <1>1, <1>11, <1>13 DEF VerifyInclusion, NothingLeft
<1> HIDE DEF At, Bad
<1>15. d.ok /\ d.rest = 0 /\ d.hash = Roots(h)[s]
           <=> Len(p) = Len(pf) /\ leaf = h[i + 1] /\ EndsWith(pf, r, p)
  <2>1. Len(p) \in Nat
    BY <1>10
  <2>2. QED
    BY <1>1, <1>8, <1>9, <1>10, <1>12, <2>1
<1>16. Len(p) = Len(pf) => (EndsWith(pf, r, p) <=> pf = p)
  <2>1. ASSUME Len(p) = Len(pf), EndsWith(pf, r, p) PROVE pf = p
    <3>1. \A t \in 1 .. Len(pf) : Len(pf) - Len(pf) + t = t
      BY <1>1
    <3>2. \A t \in 1 .. Len(pf) : pf[t] = p[t]
      BY <1>8, <2>1, <3>1 DEF EndsWith
    <3>3. QED
      BY <1>10, <2>1, <3>2, SeqEqual
  <2>2. ASSUME pf = p PROVE EndsWith(pf, r, p)
    <3>1. \A t \in 1 .. Len(pf) : Len(pf) - Len(pf) + t = t
      BY <1>1
    <3>2. QED
      BY <1>8, <2>2, <3>1 DEF EndsWith
  <2>3. QED
    BY <2>1, <2>2
<1>17. QED
  BY <1>10, <1>14, <1>15, <1>16

-----------------------------------------------------------------------------
(* The sizes that walkConsistency shifts.                                   *)

Sizes == Nat \X Nat

\* Halving sizes.
LEMMA HalvedType ==
    ASSUME NEW s \in Sizes
    PROVE  /\ Halved(s) \in Sizes /\ Halved(s)[1] = s[1] \div 2 /\ Halved(s)[2] = s[2] \div 2
           /\ s[1] > 0 => Halved(s)[1] < s[1]
<1>1. s[1] \in Nat /\ s[2] \in Nat
  BY DEF Sizes
<1>2. \A x \in Nat : x \div 2 \in Nat /\ (x > 0 => x \div 2 < x)
  OBVIOUS
<1>3. QED
  BY <1>1, <1>2 DEF Halved, Sizes

\* The recursion of WhileOdd.
LEMMA WhileOddDef ==
    \A s \in Sizes : /\ WhileOdd[s] \in Sizes
                     /\ WhileOdd[s] = IF s[1] % 2 = 1 THEN WhileOdd[Halved(s)] ELSE s
<1>1. \A s \in Sizes : s[1] \in Nat /\ (s[1] % 2 = 1 => s[1] > 0)
  BY DEF Sizes
<1>2. PICK M \in [Sizes -> Nat] : M = [s \in Sizes |-> s[1]]
  BY <1>1
<1>3. PICK G \in [Sizes \X [Sizes -> Sizes] -> Sizes] :
          G = [p \in Sizes \X [Sizes -> Sizes] |->
                  IF p[1][1] % 2 = 1 THEN p[2][Halved(p[1])] ELSE p[1]]
  BY HalvedType
<1>4. Recursive(Sizes, Sizes, M, G)
  <2>1. ASSUME NEW s \in Sizes, NEW f \in [Sizes -> Sizes], NEW g \in [Sizes -> Sizes],
               \A y \in Sizes : M[y] < M[s] => f[y] = g[y]
        PROVE  G[<<s, f>>] = G[<<s, g>>]
    <3>1. s[1] % 2 = 1 => M[Halved(s)] < M[s] /\ Halved(s) \in Sizes
      BY <1>1, <1>2, HalvedType
    <3>2. QED
      BY <1>3, <2>1, <3>1
  <2>2. QED
    BY <2>1 DEF Recursive
<1>5. PICK f \in [Sizes -> Sizes] : SolvesAll(f, Sizes, G)
  <2>1. <<0, 0>> \in Sizes
    BY DEF Sizes
  <2>2. QED
    BY <1>4, <2>1, RecursionDefines
<1>6. f = [s \in Nat \X Nat |-> IF s[1] % 2 = 1 THEN f[Halved(s)] ELSE s]
  BY <1>3, <1>5 DEF SolvesAll, Sizes
<1>7. WhileOdd = [s \in Nat \X Nat |-> IF s[1] % 2 = 1 THEN WhileOdd[Halved(s)] ELSE s]
  BY <1>6 DEF WhileOdd
<1>8. \A s \in Sizes : WhileOdd[s] = IF s[1] % 2 = 1 THEN WhileOdd[Halved(s)] ELSE s
  BY <1>7 DEF Sizes
<1> DEFINE Bad == {l \in Nat : \E s \in Sizes : s[1] = l /\ WhileOdd[s] \notin Sizes}
<1>9. ASSUME Bad # {} PROVE FALSE
  <2>1. PICK l \in Bad : \A j \in Nat : j < l => j \notin Bad
    BY <1>9, LeastNumber
  <2>2. PICK s \in Sizes : s[1] = l /\ WhileOdd[s] \notin Sizes
    BY <2>1
  <2>3. s[1] % 2 = 1
    BY <1>8, <2>2
  <2>4. Halved(s) \in Sizes /\ Halved(s)[1] < l /\ Halved(s)[1] \in Nat
    BY <1>1, <2>2, <2>3, HalvedType
  <2>5. WhileOdd[Halved(s)] \in Sizes
    BY <2>1, <2>4
  <2>6. QED
    BY <1>8, <2>2, <2>3, <2>5
<1>10. QED
  BY <1>1, <1>8, <1>9

\* The recursion of WhileEven.
LEMMA WhileEvenDef ==
    \A s \in Sizes : /\ WhileEven[s] \in Sizes
                     /\ WhileEven[s] = IF s[1] % 2 = 0 /\ s[1] > 0 THEN WhileEven[Halved(s)] ELSE s
<1>1. \A s \in Sizes : s[1] \in Nat
  BY DEF Sizes
<1>2. PICK M \in [Sizes -> Nat] : M = [s \in Sizes |-> s[1]]
  BY <1>1
<1>3. PICK G \in [Sizes \X [Sizes -> Sizes] -> Sizes] :
          G = [p \in Sizes \X [Sizes -> Sizes] |->
                  IF p[1][1] % 2 = 0 /\ p[1][1] > 0 THEN p[2][Halved(p[1])] ELSE p[1]]
  BY HalvedType
<1>4. Recursive(Sizes, Sizes, M, G)
  <2>1. ASSUME NEW s \in Sizes, NEW f \in [Sizes -> Sizes], NEW g \in [Sizes -> Sizes],
               \A y \in Sizes : M[y] < M[s] => f[y] = g[y]
        PROVE  G[<<s, f>>] = G[<<s, g>>]
    <3>1. s[1] > 0 => M[Halved(s)] < M[s] /\ Halved(s) \in Sizes
      BY <1>1, <1>2, HalvedType
    <3>2. QED
      BY <1>3, <2>1, <3>1
  <2>2. QED
    BY <2>1 DEF Recursive
<1>5. PICK f \in [Sizes -> Sizes] : SolvesAll(f, Sizes, G)
  <2>1. <<0, 0>> \in Sizes
    BY DEF Sizes
  <2>2. QED
    BY <1>4, <2>1, RecursionDefines
<1>6. f = [s \in Nat \X Nat |-> IF s[1] % 2 = 0 /\ s[1] > 0 THEN f[Halved(s)] ELSE s]
  BY <1>3, <1>5 DEF SolvesAll, Sizes
<1>7. WhileEven = [s \in Nat \X Nat |-> IF s[1] % 2 = 0 /\ s[1] > 0 THEN WhileEven[Halved(s)] ELSE s]
  BY <1>6 DEF WhileEven
<1>8. \A s \in Sizes : WhileEven[s] = IF s[1] % 2 = 0 /\ s[1] > 0 THEN WhileEven[Halved(s)] ELSE s
  BY <1>7 DEF Sizes
<1> DEFINE Bad == {l \in Nat : \E s \in Sizes : s[1] = l /\ WhileEven[s] \notin Sizes}
<1>9. ASSUME Bad # {} PROVE FALSE
  <2>1. PICK l \in Bad : \A j \in Nat : j < l => j \notin Bad
    BY <1>9, LeastNumber
  <2>2. PICK s \in Sizes : s[1] = l /\ WhileEven[s] \notin Sizes
    BY <2>1
  <2>3. s[1] % 2 = 0 /\ s[1] > 0
    BY <1>8, <2>2
  <2>4. Halved(s) \in Sizes /\ Halved(s)[1] < l /\ Halved(s)[1] \in Nat
    BY <1>1, <2>2, <2>3, HalvedType
  <2>5. WhileEven[Halved(s)] \in Sizes
    BY <2>1, <2>4
  <2>6. QED
    BY <1>8, <2>2, <2>3, <2>5
<1>10. QED
  BY <1>1, <1>8, <1>9

-----------------------------------------------------------------------------
(* Consistency proofs.                                                      *)

\* The slices that the recursion of subProof meets.
OldSlices(h, m) == {t \in Slices(h) : t[1] < m /\ m <= t[1] + t[2]}

\* subProof goes on to a part that it meets as well.
LEMMA PartOfOldSlice ==
    ASSUME NEW h, Len(h) \in Nat, NEW m \in Nat, NEW s \in OldSlices(h, m), m # s[1] + s[2]
    PROVE  /\ s[2] # 1
           /\ RightOf(s)[1] \in Nat
           /\ m <= RightOf(s)[1] => LeftOf(s) \in OldSlices(h, m) /\ LeftOf(s)[2] < s[2]
           /\ ~ (m <= RightOf(s)[1]) => RightOf(s) \in OldSlices(h, m) /\ RightOf(s)[2] < s[2]
<1>1. s \in Slices(h) /\ s[1] < m /\ m <= s[1] + s[2]
  BY DEF OldSlices
<1>2. s[1] \in Nat /\ s[2] \in Nat \ {0}
  BY <1>1, SliceParts
<1>3. s[2] # 1
  BY <1>1, <1>2
<1>4. PICK k \in Nat \ {0} :
                    /\ k < s[2] /\ s[2] <= 2 * k
                    /\ LeftOf(s) = <<s[1], k>> /\ LeftOf(s) \in Slices(h)
                    /\ RightOf(s) = <<s[1] + k, s[2] - k>> /\ RightOf(s) \in Slices(h)
  BY <1>1, <1>3, SliceParts
<1>5. RightOf(s)[1] \in Nat
  BY <1>2, <1>4
<1>6. m <= RightOf(s)[1] => LeftOf(s) \in OldSlices(h, m) /\ LeftOf(s)[2] < s[2]
  BY <1>1, <1>2, <1>4 DEF OldSlices
<1>7. ~ (m <= RightOf(s)[1]) => RightOf(s) \in OldSlices(h, m) /\ RightOf(s)[2] < s[2]
  BY <1>1, <1>2, <1>4 DEF OldSlices
<1>8. QED
  BY <1>3, <1>5, <1>6, <1>7

\* The recursion of subProof.
SubProofIs(path, h, m, b) ==
    /\ path \in [OldSlices(h, m) -> Seq(Hash)]
    /\ \A s \in OldSlices(h, m) : path[s] =
          IF m = s[1] + s[2] THEN IF b /\ s[1] = 0 THEN <<>> ELSE << Roots(h)[s] >>
          ELSE IF m <= RightOf(s)[1] THEN Append(path[LeftOf(s)], Roots(h)[RightOf(s)])
          ELSE Append(path[RightOf(s)], Roots(h)[LeftOf(s)])

\* The recursion is that of a function.
LEMMA SubProofDef ==
    ASSUME NEW h \in Seq(Hash), NEW m \in Nat, NEW b \in BOOLEAN
    PROVE  \E path : /\ SubProofIs(path, h, m, b)
                     /\ \A n0 : subProof(h, m, n0, b) = path[<<0, n0>>]
<1>1. PICK D : D = OldSlices(h, m)
  OBVIOUS
<1>2. PICK R : R = Seq(Hash)
  OBVIOUS
<1>3. Len(h) \in Nat
  OBVIOUS
<1>4. \A s \in D : s[2] \in Nat /\ s \in Slices(h)
  BY <1>1, <1>3, SliceParts DEF OldSlices
<1>5. \A s \in D : m # s[1] + s[2] =>
          /\ s[2] # 1
          /\ m <= RightOf(s)[1] => LeftOf(s) \in D /\ LeftOf(s)[2] < s[2]
          /\ ~ (m <= RightOf(s)[1]) => RightOf(s) \in D /\ RightOf(s)[2] < s[2]
  BY <1>1, <1>3, PartOfOldSlice
<1>6. PICK M \in [D -> Nat] : M = [s \in D |-> s[2]]
  BY <1>4
<1>7. /\ \A s \in D : << Roots(h)[s] >> \in R
      /\ \A s \in D : m # s[1] + s[2] =>
               Roots(h)[LeftOf(s)] \in Hash /\ Roots(h)[RightOf(s)] \in Hash
  <2>1. \A s \in D : Roots(h)[s] \in Hash
    BY <1>4, RootsDef
  <2>2. \A s \in D : m # s[1] + s[2] => LeftOf(s) \in Slices(h) /\ RightOf(s) \in Slices(h)
    BY <1>3, <1>4, <1>5, PartsOfSlice
  <2>3. QED
    BY <1>2, <2>1, <2>2, RootsDef
<1>8. <<>> \in R /\ \A x \in R, y \in Hash : Append(x, y) \in R
  BY <1>2
<1>9. PICK G \in [D \X [D -> R] -> R] :
          G = [p \in D \X [D -> R] |->
                 IF m = p[1][1] + p[1][2]
                 THEN IF b /\ p[1][1] = 0 THEN <<>> ELSE << Roots(h)[p[1]] >>
                 ELSE IF m <= RightOf(p[1])[1]
                      THEN Append(p[2][LeftOf(p[1])], Roots(h)[RightOf(p[1])])
                 ELSE Append(p[2][RightOf(p[1])], Roots(h)[LeftOf(p[1])])]
  BY <1>5, <1>7, <1>8
<1>10. Recursive(D, R, M, G)
  BY <1>4, <1>5, <1>6, <1>9 DEF Recursive
<1>11. PICK f \in [D -> R] : SolvesAll(f, D, G)
  BY <1>8, <1>10, RecursionDefines
<1>12. \A s \in D : f[s] =
          IF m = s[1] + s[2] THEN IF b /\ s[1] = 0 THEN <<>> ELSE << Roots(h)[s] >>
          ELSE IF m <= RightOf(s)[1] THEN Append(f[LeftOf(s)], Roots(h)[RightOf(s)])
          ELSE Append(f[RightOf(s)], Roots(h)[LeftOf(s)])
  BY <1>9, <1>11 DEF SolvesAll
<1> DEFINE E(s, path) ==
          IF m = s[1] + s[2] THEN IF b /\ s[1] = 0 THEN <<>> ELSE << Roots(h)[s] >>
          ELSE IF m <= RightOf(s)[1] THEN Append(path[LeftOf(s)], Roots(h)[RightOf(s)])
          ELSE Append(path[RightOf(s)], Roots(h)[LeftOf(s)])
<1> DEFINE P == CHOOSE path : path =
                  [s \in {t \in Slices(h) : t[1] < m /\ m <= t[1] + t[2]} |-> E(s, path)]
<1>13. \A n0 : subProof(h, m, n0, b) = P[<<0, n0>>]
  BY DEF subProof
<1>14. PICK path : path = P
  OBVIOUS
<1>15. \A s \in D : f[s] = E(s, f)
  BY <1>12
<1> HIDE DEF E
<1>16. f = [s \in D |-> E(s, f)]
  BY <1>15
<1>17. path = [s \in D |-> E(s, path)]
  BY <1>1, <1>14, <1>16 DEF OldSlices
<1> HIDE DEF P
<1>18. \A s \in D : path[s] = E(s, path)
  BY <1>17
<1>19. \A s \in D : path[s] =
          IF m = s[1] + s[2] THEN IF b /\ s[1] = 0 THEN <<>> ELSE << Roots(h)[s] >>
          ELSE IF m <= RightOf(s)[1] THEN Append(path[LeftOf(s)], Roots(h)[RightOf(s)])
          ELSE Append(path[RightOf(s)], Roots(h)[LeftOf(s)])
  BY <1>18 DEF E
<1> DEFINE Bad == {l \in Nat : \E s \in D : s[2] = l /\ path[s] \notin R}
<1>20. ASSUME Bad # {} PROVE FALSE
  <2>1. PICK l \in Bad : \A j \in Nat : j < l => j \notin Bad
    BY <1>20, LeastNumber
  <2>2. PICK s \in D : s[2] = l /\ path[s] \notin R
    BY <2>1
  <2>3. CASE m = s[1] + s[2]
    BY <1>7, <1>8, <1>19, <2>2, <2>3
  <2>4. CASE m # s[1] + s[2] /\ m <= RightOf(s)[1]
    <3>1. path[LeftOf(s)] \in R
      BY <1>4, <1>5, <2>1, <2>2, <2>4
    <3>2. QED
      BY <1>7, <1>8, <1>19, <2>2, <2>4, <3>1
  <2>5. CASE m # s[1] + s[2] /\ ~ (m <= RightOf(s)[1])
    <3>1. path[RightOf(s)] \in R
      BY <1>4, <1>5, <2>1, <2>2, <2>5
    <3>2. QED
      BY <1>7, <1>8, <1>19, <2>2, <2>5, <3>1
  <2>6. QED
    BY <2>3, <2>4, <2>5
<1>21. \A s \in D : path[s] \in R
  BY <1>4, <1>20
<1>22. path \in [D -> R]
  BY <1>17, <1>21
<1>23. SubProofIs(path, h, m, b)
  BY <1>1, <1>2, <1>19, <1>22 DEF SubProofIs
<1>24. QED
  BY <1>13, <1>14, <1>23

-----------------------------------------------------------------------------
(* The sizes of a tree and those of its left or right part, on the way up.  *)

InLeft(a, c) ==
    /\ c[1] = a[1] /\ a[1] <= a[2]
    /\ \E e \in Nat : a[2] + 1 = pow2[e] /\ pow2[e] <= c[2] /\ c[2] < 2 * pow2[e]

InRight(a, c) ==
    /\ a[1] <= a[2]
    /\ \E e \in Nat : a[2] < pow2[e] /\ c[1] = a[1] + pow2[e] /\ c[2] = a[2] + pow2[e]

\* Every power of two but 1 is twice the one before.
LEMMA HalfOfPower ==
    ASSUME NEW e \in Nat, pow2[e] # 1
    PROVE  e - 1 \in Nat /\ pow2[e - 1] \in Nat \ {0} /\ pow2[e] = 2 * pow2[e - 1]
<1>1. e # 0
  BY pow2Step
<1>2. e - 1 \in Nat /\ (e - 1) + 1 = e
  BY <1>1
<1>3. QED
  BY <1>2, pow2Step

\* Halving keeps the sizes of a left part.
LEMMA InLeftHalved ==
    ASSUME NEW a \in Sizes, NEW c \in Sizes, InLeft(a, c), a[2] # 0
    PROVE  InLeft(Halved(a), Halved(c))
<1>1. PICK a1, a2, c2 \in Nat : a1 = a[1] /\ a2 = a[2] /\ c[1] = a1 /\ c[2] = c2
  BY DEF InLeft, Sizes
<1>2. PICK e \in Nat : a2 + 1 = pow2[e] /\ pow2[e] <= c2 /\ c2 < 2 * pow2[e] /\ a1 <= a2 /\ a2 # 0
  BY <1>1 DEF InLeft
<1>3. pow2[e] # 1
  BY <1>2
<1>4. PICK q \in Nat \ {0} : q = pow2[e - 1] /\ pow2[e] = 2 * q /\ e - 1 \in Nat
  BY <1>3, HalfOfPower
<1>5. a2 + 1 = 2 * q /\ 2 * q <= c2 /\ c2 < 4 * q
  BY <1>2, <1>4
<1>6. (a2 \div 2) + 1 = q /\ q <= (c2 \div 2) /\ (c2 \div 2) < 2 * q /\ (a1 \div 2) <= (a2 \div 2)
  BY <1>2, <1>5
<1>7. Halved(a)[1] = a1 \div 2 /\ Halved(a)[2] = a2 \div 2 /\ Halved(c)[1] = a1 \div 2 /\ Halved(c)[2] = c2 \div 2
  BY <1>1, HalvedType
<1>8. QED
  BY <1>4, <1>6, <1>7 DEF InLeft

\* Halving keeps the sizes of a right part, which are odd when those of the tree are.
LEMMA InRightHalved ==
    ASSUME NEW a \in Sizes, NEW c \in Sizes, InRight(a, c), a[2] # 0
    PROVE  /\ InRight(Halved(a), Halved(c))
           /\ c[1] % 2 = a[1] % 2
<1>1. PICK a1, a2, c1, c2 \in Nat : a1 = a[1] /\ a2 = a[2] /\ c[1] = c1 /\ c[2] = c2
  BY DEF Sizes
<1>2. PICK e \in Nat : a2 < pow2[e] /\ c1 = a1 + pow2[e] /\ c2 = a2 + pow2[e] /\ a1 <= a2 /\ a2 # 0
  BY <1>1 DEF InRight
<1>3. pow2[e] # 1
  BY <1>2
<1>4. PICK q \in Nat \ {0} : q = pow2[e - 1] /\ pow2[e] = 2 * q /\ e - 1 \in Nat
  BY <1>3, HalfOfPower
<1>5. a2 < 2 * q /\ c1 = a1 + 2 * q /\ c2 = a2 + 2 * q
  BY <1>2, <1>4
<1>6. /\ (a2 \div 2) < q /\ (c1 \div 2) = (a1 \div 2) + q /\ (c2 \div 2) = (a2 \div 2) + q
      /\ (a1 \div 2) <= (a2 \div 2) /\ c1 % 2 = a1 % 2
  BY <1>2, <1>5
<1>7. Halved(a)[1] = a1 \div 2 /\ Halved(a)[2] = a2 \div 2 /\ Halved(c)[1] = c1 \div 2 /\ Halved(c)[2] = c2 \div 2
  BY <1>1, HalvedType
<1>8. QED
  BY <1>1, <1>4, <1>6, <1>7 DEF InRight

\* The first loop of walkConsistency keeps the sizes of a left part.
LEMMA InLeftOdd ==
    ASSUME NEW a \in Sizes, NEW c \in Sizes, InLeft(a, c)
    PROVE  InLeft(WhileOdd[a], WhileOdd[c])
<1> DEFINE Bad == {l \in Nat : \E x \in Sizes, y \in Sizes :
                      x[1] = l /\ InLeft(x, y) /\ ~ InLeft(WhileOdd[x], WhileOdd[y])}
<1>1. ASSUME Bad # {} PROVE FALSE
  <2>1. PICK l \in Bad : \A j \in Nat : j < l => j \notin Bad
    BY <1>1, LeastNumber
  <2>2. PICK x \in Sizes, y \in Sizes : x[1] = l /\ InLeft(x, y) /\ ~ InLeft(WhileOdd[x], WhileOdd[y])
    BY <2>1
  <2>3. x[1] = y[1]
    BY <2>2 DEF InLeft
  <2>4. x[1] % 2 = 1
    BY <2>2, <2>3, WhileOddDef
  <2>5. WhileOdd[x] = WhileOdd[Halved(x)] /\ WhileOdd[y] = WhileOdd[Halved(y)]
    BY <2>3, <2>4, WhileOddDef
  <2>6. x[1] \in Nat /\ x[2] \in Nat /\ x[1] > 0 /\ x[2] # 0
    BY <2>2, <2>4 DEF Sizes, InLeft
  <2>7. /\ Halved(x) \in Sizes /\ Halved(y) \in Sizes /\ Halved(x)[1] < l
        /\ InLeft(Halved(x), Halved(y))
    BY <2>2, <2>6, HalvedType, InLeftHalved
  <2>8. Halved(x)[1] \in Nat
    BY <2>7 DEF Sizes
  <2>9. QED
    BY <2>1, <2>2, <2>5, <2>7, <2>8
<1>2. a[1] \in Nat
  BY DEF Sizes
<1>3. QED
  BY <1>1, <1>2

\* It keeps those of a right part and does not come to the root of it.
LEMMA InRightOdd ==
    ASSUME NEW a \in Sizes, NEW c \in Sizes, InRight(a, c), a[1] < a[2]
    PROVE  InRight(WhileOdd[a], WhileOdd[c]) /\ WhileOdd[a][2] # 0
<1> DEFINE Good(x, y) == InRight(WhileOdd[x], WhileOdd[y]) /\ WhileOdd[x][2] # 0
           Bad == {l \in Nat : \E x \in Sizes, y \in Sizes :
                      x[1] = l /\ InRight(x, y) /\ x[1] < x[2] /\ ~ Good(x, y)}
<1>1. ASSUME Bad # {} PROVE FALSE
  <2>1. PICK l \in Bad : \A j \in Nat : j < l => j \notin Bad
    BY <1>1, LeastNumber
  <2>2. PICK x \in Sizes, y \in Sizes : x[1] = l /\ InRight(x, y) /\ x[1] < x[2] /\ ~ Good(x, y)
    BY <2>1
  <2>3. x[1] \in Nat /\ x[2] \in Nat /\ x[2] # 0
    BY <2>2 DEF Sizes
  <2>4. y[1] % 2 = x[1] % 2
    BY <2>2, <2>3, InRightHalved
  <2>5. x[1] % 2 = 1
    <3>1. CASE x[1] % 2 # 1
      <4>1. WhileOdd[x] = x /\ WhileOdd[y] = y
        BY <2>4, <3>1, WhileOddDef
      <4>2. QED
        BY <2>2, <2>3, <4>1
    <3>2. QED
      BY <3>1
  <2>6. WhileOdd[x] = WhileOdd[Halved(x)] /\ WhileOdd[y] = WhileOdd[Halved(y)]
    BY <2>4, <2>5, WhileOddDef
  <2>7. /\ Halved(x) \in Sizes /\ Halved(y) \in Sizes
        /\ Halved(x)[1] = x[1] \div 2 /\ Halved(x)[2] = x[2] \div 2
        /\ InRight(Halved(x), Halved(y))
    BY <2>2, <2>3, HalvedType, InRightHalved
  <2>8. \A u, v \in Nat : u % 2 = 1 /\ u < v => u \div 2 \in Nat /\ u \div 2 < u /\ u \div 2 < v \div 2
    OBVIOUS
  <2>9. Halved(x)[1] \in Nat /\ Halved(x)[1] < l /\ Halved(x)[1] < Halved(x)[2]
    BY <2>2, <2>3, <2>5, <2>7, <2>8
  <2>10. QED
    BY <2>1, <2>2, <2>6, <2>7, <2>9
<1>2. a[1] \in Nat
  BY DEF Sizes
<1>3. QED
  BY <1>1, <1>2

\* The inner loop keeps those of a right part and does not come to the root of it.
LEMMA InRightEven ==
    ASSUME NEW a \in Sizes, NEW c \in Sizes, InRight(a, c), a[1] > 0
    PROVE  InRight(WhileEven[a], WhileEven[c]) /\ WhileEven[a][2] # 0
<1> DEFINE Good(x, y) == InRight(WhileEven[x], WhileEven[y]) /\ WhileEven[x][2] # 0
           Bad == {l \in Nat : \E x \in Sizes, y \in Sizes :
                      x[1] = l /\ InRight(x, y) /\ x[1] > 0 /\ ~ Good(x, y)}
<1>1. ASSUME Bad # {} PROVE FALSE
  <2>1. PICK l \in Bad : \A j \in Nat : j < l => j \notin Bad
    BY <1>1, LeastNumber
  <2>2. PICK x \in Sizes, y \in Sizes : x[1] = l /\ InRight(x, y) /\ x[1] > 0 /\ ~ Good(x, y)
    BY <2>1
  <2>3. x[1] \in Nat /\ x[2] \in Nat /\ x[2] # 0 /\ y[1] \in Nat /\ y[1] > 0
    <3>1. x[1] \in Nat /\ x[2] \in Nat /\ y[1] \in Nat
      BY DEF Sizes
    <3>2. PICK e \in Nat : y[1] = x[1] + pow2[e]
      BY <2>2 DEF InRight
    <3>3. pow2[e] \in Nat
      BY pow2Step
    <3>4. x[1] <= x[2]
      BY <2>2 DEF InRight
    <3>5. QED
      BY <2>2, <3>1, <3>2, <3>3, <3>4
  <2>4. y[1] % 2 = x[1] % 2
    BY <2>2, <2>3, InRightHalved
  <2>5. x[1] % 2 = 0
    <3>1. CASE x[1] % 2 # 0
      <4>1. WhileEven[x] = x /\ WhileEven[y] = y
        BY <2>4, <3>1, WhileEvenDef
      <4>2. QED
        BY <2>2, <2>3, <4>1
    <3>2. QED
      BY <3>1
  <2>6. WhileEven[x] = WhileEven[Halved(x)] /\ WhileEven[y] = WhileEven[Halved(y)]
    BY <2>2, <2>3, <2>4, <2>5, WhileEvenDef
  <2>7. /\ Halved(x) \in Sizes /\ Halved(y) \in Sizes
        /\ Halved(x)[1] = x[1] \div 2
        /\ InRight(Halved(x), Halved(y))
    BY <2>2, <2>3, HalvedType, InRightHalved
  <2>8. \A u \in Nat : u % 2 = 0 /\ u > 0 => u \div 2 \in Nat /\ u \div 2 < u /\ u \div 2 > 0
    OBVIOUS
  <2>9. Halved(x)[1] \in Nat /\ Halved(x)[1] < l /\ Halved(x)[1] > 0
    BY <2>2, <2>3, <2>5, <2>7, <2>8
  <2>10. QED
    BY <2>1, <2>2, <2>6, <2>7, <2>9
<1>2. a[1] \in Nat
  BY DEF Sizes
<1>3. QED
  BY <1>1, <1>2

\* For equal powers of two the inner loop ends at 1.
LEMMA PowerEven ==
    ASSUME NEW e \in Nat, NEW s \in Sizes, s = <<pow2[e], pow2[e]>>
    PROVE  WhileEven[s] = <<1, 1>>
<1> DEFINE Bad == {l \in Nat : \E x \in Sizes : x = <<pow2[l], pow2[l]>> /\ WhileEven[x] # <<1, 1>>}
<1>1. ASSUME Bad # {} PROVE FALSE
  <2>1. PICK l \in Bad : \A j \in Nat : j < l => j \notin Bad
    BY <1>1, LeastNumber
  <2>2. PICK x \in Sizes : x = <<pow2[l], pow2[l]>> /\ WhileEven[x] # <<1, 1>>
    BY <2>1
  <2>3. CASE pow2[l] = 1
    BY <2>2, <2>3, WhileEvenDef
  <2>4. CASE pow2[l] # 1
    <3>1. PICK q \in Nat \ {0} : q = pow2[l - 1] /\ pow2[l] = 2 * q /\ l - 1 \in Nat
      BY <2>4, HalfOfPower
    <3>2. x[1] = 2 * q /\ x[2] = 2 * q
      BY <2>2, <3>1
    <3>3. x[1] % 2 = 0 /\ x[1] > 0 /\ x[1] \div 2 = q
      BY <3>2
    <3>4. Halved(x) = <<q, q>> /\ Halved(x) \in Sizes
      BY <3>2, <3>3, HalvedType DEF Halved
    <3>5. WhileEven[x] = WhileEven[Halved(x)]
      BY <3>3, WhileEvenDef
    <3>6. l - 1 < l
      BY <3>1
    <3>7. QED
      BY <2>1, <2>2, <3>1, <3>4, <3>5, <3>6
  <2>5. QED
    BY <2>3, <2>4
<1>2. QED
  BY <1>1

\* The sizes after a turn of the loop.
Turned(s) == IF OnRightEdge(s[1], s[2]) THEN Halved(WhileEven[s]) ELSE Halved(s)

\* A turn of the loop leaves sizes.
LEMMA TurnedType ==
    ASSUME NEW s \in Sizes
    PROVE  Turned(s) \in Sizes
BY HalvedType, WhileEvenDef DEF Turned

\* A turn of the loop over a tree is one over its left part.
LEMMA TurnInLeft ==
    ASSUME NEW a \in Sizes, NEW c \in Sizes, InLeft(a, c), a[2] # 0
    PROVE  /\ InLeft(Turned(a), Turned(c)) /\ c[2] # 0
           /\ OnRightEdge(a[1], a[2]) <=> OnRightEdge(c[1], c[2])
<1>1. PICK a1, a2, c2 \in Nat : a1 = a[1] /\ a2 = a[2] /\ c[1] = a1 /\ c[2] = c2 /\ a1 <= a2 /\ a2 # 0
  BY DEF InLeft, Sizes
<1>2. PICK e \in Nat : a2 + 1 = pow2[e] /\ pow2[e] <= c2
  BY <1>1 DEF InLeft
<1>3. pow2[e] # 1
  BY <1>1, <1>2
<1>4. PICK q \in Nat \ {0} : pow2[e] = 2 * q
  BY <1>3, HalfOfPower
<1>5. a2 + 1 = 2 * q /\ a2 + 1 <= c2
  BY <1>2, <1>4
<1>6. a1 # c2 /\ c2 # 0 /\ (a1 % 2 # 1 => a1 # a2)
  BY <1>1, <1>5
<1>7. OnRightEdge(a[1], a[2]) <=> a1 % 2 = 1
  BY <1>1, <1>6 DEF OnRightEdge
<1>8. OnRightEdge(c[1], c[2]) <=> a1 % 2 = 1
  BY <1>1, <1>6 DEF OnRightEdge
<1>9. a1 % 2 = 1 => WhileEven[a] = a /\ WhileEven[c] = c
  <2>1. a1 % 2 = 1 => ~ (a1 % 2 = 0)
    OBVIOUS
  <2>2. QED
    BY <1>1, <2>1, WhileEvenDef
<1>10. Turned(a) = Halved(a) /\ Turned(c) = Halved(c)
  BY <1>7, <1>8, <1>9 DEF Turned
<1>11. InLeft(Halved(a), Halved(c))
  BY InLeftHalved
<1>12. QED
  BY <1>1, <1>6, <1>7, <1>8, <1>10, <1>11

\* A turn of the loop over a tree is one over its right part.
LEMMA TurnInRight ==
    ASSUME NEW a \in Sizes, NEW c \in Sizes, InRight(a, c), a[2] # 0
    PROVE  /\ InRight(Turned(a), Turned(c)) /\ c[2] # 0
           /\ OnRightEdge(a[1], a[2]) <=> OnRightEdge(c[1], c[2])
<1>1. PICK a1, a2, c1, c2 \in Nat : a1 = a[1] /\ a2 = a[2] /\ c[1] = c1 /\ c[2] = c2 /\ a2 # 0
  BY DEF Sizes
<1>2. PICK e \in Nat : c1 = a1 + pow2[e] /\ c2 = a2 + pow2[e]
  BY <1>1 DEF InRight
<1>3. PICK p \in Nat : p = pow2[e]
  BY pow2Step
<1>4. c2 # 0 /\ (a1 = a2 <=> c1 = c2)
  BY <1>1, <1>2, <1>3
<1>5. c1 % 2 = a1 % 2
  BY <1>1, InRightHalved
<1>6. OnRightEdge(a[1], a[2]) <=> OnRightEdge(c[1], c[2])
  BY <1>1, <1>4, <1>5 DEF OnRightEdge
<1>7. CASE OnRightEdge(a[1], a[2])
  <2>1. a[1] > 0
    <3>1. a1 % 2 = 1 => a1 > 0
      OBVIOUS
    <3>2. a1 = a2 => a1 > 0
      BY <1>1
    <3>3. QED
      BY <1>1, <1>7, <3>1, <3>2 DEF OnRightEdge
  <2>2. PICK x, y \in Sizes : x = WhileEven[a] /\ y = WhileEven[c]
    BY WhileEvenDef
  <2>3. InRight(x, y) /\ x[2] # 0
    BY <2>1, <2>2, InRightEven
  <2>4. InRight(Halved(x), Halved(y))
    BY <2>3, InRightHalved
  <2>5. Turned(a) = Halved(x) /\ Turned(c) = Halved(y)
    BY <1>6, <1>7, <2>2 DEF Turned
  <2>6. QED
    BY <1>1, <1>4, <1>6, <2>4, <2>5
<1>8. CASE ~ OnRightEdge(a[1], a[2])
  <2>1. Turned(a) = Halved(a) /\ Turned(c) = Halved(c)
    BY <1>6, <1>8 DEF Turned
  <2>2. InRight(Halved(a), Halved(c))
    BY InRightHalved
  <2>3. QED
    BY <1>1, <1>4, <1>6, <2>1, <2>2
<1>9. QED
  BY <1>7, <1>8

\* The root of the part is found: one more turn and that of the tree is.
LEMMA LastTurnInLeft ==
    ASSUME NEW a \in Sizes, NEW c \in Sizes, InLeft(a, c), a[2] = 0
    PROVE  c[2] # 0 /\ Turned(c)[2] = 0 /\ ~ OnRightEdge(c[1], c[2])
<1>1. c[1] = 0 /\ c[2] = 1
  <2>1. PICK e \in Nat : pow2[e] = 1 /\ pow2[e] <= c[2] /\ c[2] < 2 * pow2[e]
    BY DEF InLeft
  <2>2. a[1] \in Nat /\ c[2] \in Nat
    BY DEF Sizes
  <2>3. QED
    BY <2>1, <2>2 DEF InLeft
<1>2. ~ OnRightEdge(0, 1)
  BY DEF OnRightEdge
<1>3. QED
  BY <1>1, <1>2, HalvedType DEF Turned

\* So it is for a right part, whose sibling is to the left.
LEMMA LastTurnInRight ==
    ASSUME NEW a \in Sizes, NEW c \in Sizes, InRight(a, c), a[2] = 0
    PROVE  c[2] # 0 /\ Turned(c)[2] = 0 /\ OnRightEdge(c[1], c[2])
<1>1. PICK e \in Nat : c[1] = a[1] + pow2[e] /\ c[2] = a[2] + pow2[e]
  BY DEF InRight
<1>2. a[1] = 0
  <2>1. a[1] \in Nat
    BY DEF Sizes
  <2>2. QED
    BY <2>1 DEF InRight
<1>3. PICK p \in Nat \ {0} : p = pow2[e] /\ c[1] = p /\ c[2] = p
  BY <1>1, <1>2, pow2Step
<1>4. c = <<pow2[e], pow2[e]>>
  BY <1>3 DEF Sizes
<1>5. WhileEven[c] = <<1, 1>>
  BY <1>4, PowerEven
<1>6. <<1, 1>> \in Sizes
  BY DEF Sizes
<1>7. Halved(WhileEven[c])[2] = 0
  BY <1>5, <1>6, HalvedType
<1>8. OnRightEdge(c[1], c[2])
  BY <1>3 DEF OnRightEdge
<1>9. QED
  BY <1>3, <1>7, <1>8 DEF Turned

-----------------------------------------------------------------------------
(* The loop of walkConsistency.                                             *)

Walk == [old : Hash, new : Hash, sizes : Sizes]

\* What a turn of the loop makes of the hashes and sizes.
LEMMA CombineType ==
    ASSUME NEW w \in Walk, NEW x \in Hash
    PROVE  /\ Combine(w, x) \in Walk
           /\ Combine(w, x).sizes = Turned(w.sizes)
           /\ Combine(w, x).old = IF OnRightEdge(w.sizes[1], w.sizes[2]) THEN NodeHash(x, w.old) ELSE w.old
           /\ Combine(w, x).new = IF OnRightEdge(w.sizes[1], w.sizes[2]) THEN NodeHash(x, w.new)
                                                                         ELSE NodeHash(w.new, x)
<1>1. PICK o, nw \in Hash, s \in Sizes : o = w.old /\ nw = w.new /\ s = w.sizes
  BY DEF Walk
<1>2. Turned(s) \in Sizes
  BY TurnedType
<1>3. NodeHash(x, o) \in Hash /\ NodeHash(x, nw) \in Hash /\ NodeHash(nw, x) \in Hash
  BY HashTypes
<1>4. CASE OnRightEdge(s[1], s[2])
  <2>1. Combine(w, x) = [old |-> NodeHash(x, o), new |-> NodeHash(x, nw), sizes |-> Turned(s)]
    BY <1>1, <1>4 DEF Combine, Turned
  <2>2. QED
    BY <1>1, <1>2, <1>3, <1>4, <2>1 DEF Walk
<1>5. CASE ~ OnRightEdge(s[1], s[2])
  <2>1. Combine(w, x) = [old |-> o, new |-> NodeHash(nw, x), sizes |-> Turned(s)]
    BY <1>1, <1>5 DEF Combine, Turned
  <2>2. QED
    BY <1>1, <1>2, <1>3, <1>5, <2>1 DEF Walk
<1>6. QED
  BY <1>4, <1>5

WalkIs(walk, pf, start) ==
    /\ walk \in [1 .. Len(pf) -> Walk]
    /\ \A t \in 1 .. Len(pf) : walk[t] =
          IF t = 1 THEN [old |-> pf[1], new |-> pf[1], sizes |-> WhileOdd[start]]
          ELSE IF walk[t - 1].sizes[2] = 0 THEN walk[t - 1]
          ELSE Combine(walk[t - 1], pf[t])

Verdict(r, walk, l) ==
    /\ r.ok <=> \A t \in 1 .. l : walk[t].sizes[2] = 0 <=> t = l
    /\ r.old = walk[l].old /\ r.new = walk[l].new

\* The loop is a function of the turns, and its result that of the last one.
LEMMA WalkDef ==
    ASSUME NEW pf \in Seq(Hash), pf # <<>>, NEW m, NEW n0, <<m - 1, n0 - 1>> \in Sizes
    PROVE  \E walk : WalkIs(walk, pf, <<m - 1, n0 - 1>>) /\ Verdict(walkConsistency(pf, m, n0), walk, Len(pf))
<1>1. PICK D : D = 1 .. Len(pf)
  OBVIOUS
<1>2. Len(pf) \in Nat \ {0} /\ \A t \in D : t \in Nat /\ pf[t] \in Hash /\ pf[1] \in Hash
  BY <1>1
<1>3. PICK start \in Sizes : start = <<m - 1, n0 - 1>>
  OBVIOUS
<1>4. PICK first \in Walk : first = [old |-> pf[1], new |-> pf[1], sizes |-> WhileOdd[start]]
  <2>1. pf[1] \in Hash /\ WhileOdd[start] \in Sizes
    BY <1>2, WhileOddDef
  <2>2. QED
    BY <2>1 DEF Walk
<1>5. PICK M \in [D -> Nat] : M = [t \in D |-> t]
  BY <1>2
<1>6. \A t \in D : t # 1 => t - 1 \in D /\ t - 1 < t
  BY <1>1, <1>2
<1>7. \A w \in Walk, x \in Hash : Combine(w, x) \in Walk
  BY CombineType
<1>8. PICK G \in [D \X [D -> Walk] -> Walk] :
          G = [p \in D \X [D -> Walk] |->
                 IF p[1] = 1 THEN first
                 ELSE IF p[2][p[1] - 1].sizes[2] = 0 THEN p[2][p[1] - 1]
                 ELSE Combine(p[2][p[1] - 1], pf[p[1]])]
  BY <1>2, <1>6, <1>7
<1>9. Recursive(D, Walk, M, G)
  BY <1>5, <1>6, <1>8 DEF Recursive
<1>10. PICK f \in [D -> Walk] : SolvesAll(f, D, G)
  <2>1. Walk # {}
    BY <1>4
  <2>2. QED
    BY <1>9, <2>1, RecursionDefines
<1> DEFINE E(t, walk) == IF t = 1 THEN [old |-> pf[1], new |-> pf[1], sizes |-> WhileOdd[<<m - 1, n0 - 1>>]]
                         ELSE IF walk[t - 1].sizes[2] = 0 THEN walk[t - 1]
                         ELSE Combine(walk[t - 1], pf[t])
           P == CHOOSE walk : walk = [t \in 1 .. Len(pf) |-> E(t, walk)]
<1>11. \A t \in D : f[t] = E(t, f)
  BY <1>3, <1>4, <1>8, <1>10 DEF SolvesAll
<1>12. PICK r : r = walkConsistency(pf, m, n0)
  OBVIOUS
<1>13. r = [ok |-> \A t \in 1 .. Len(pf) : P[t].sizes[2] = 0 <=> t = Len(pf),
            old |-> P[Len(pf)].old, new |-> P[Len(pf)].new]
  BY <1>12 DEF walkConsistency
<1>14. PICK walk : walk = P
  OBVIOUS
<1> HIDE DEF E
<1>15. f = [t \in D |-> E(t, f)]
  BY <1>11
<1>16. walk = [t \in D |-> E(t, walk)]
  BY <1>1, <1>14, <1>15
<1> HIDE DEF P
<1>17. \A t \in D : walk[t] = E(t, walk)
  BY <1>16
<1> DEFINE Bad == {t \in Nat : t \in D /\ walk[t] \notin Walk}
<1>18. ASSUME Bad # {} PROVE FALSE
  <2>1. PICK t \in Bad : \A j \in Nat : j < t => j \notin Bad
    BY <1>18, LeastNumber
  <2>2. walk[t] = E(t, walk)
    BY <1>17, <2>1
  <2>3. CASE t = 1
    <3>1. E(t, walk) = first
      BY <1>3, <1>4, <2>3 DEF E
    <3>2. QED
      BY <2>1, <2>2, <3>1
  <2>4. CASE t # 1
    <3>1. t - 1 \in D /\ t - 1 < t /\ t - 1 \in Nat
      BY <1>2, <1>6, <2>1, <2>4
    <3>2. PICK w \in Walk : w = walk[t - 1]
      BY <2>1, <3>1
    <3>3. E(t, walk) = IF w.sizes[2] = 0 THEN w ELSE Combine(w, pf[t])
      BY <2>4, <3>2 DEF E
    <3>4. E(t, walk) \in Walk
      BY <1>2, <1>7, <2>1, <3>3
    <3>5. QED
      BY <2>1, <2>2, <3>4
  <2>5. QED
    BY <2>3, <2>4
<1>19. walk \in [D -> Walk]
  <2>1. \A t \in D : walk[t] \in Walk
    BY <1>2, <1>18
  <2>2. QED
    BY <1>16, <2>1
<1>20. WalkIs(walk, pf, <<m - 1, n0 - 1>>)
  BY <1>1, <1>17, <1>19 DEF WalkIs, E
<1>21. Verdict(r, walk, Len(pf))
  BY <1>13, <1>14 DEF Verdict
<1>22. QED
  BY <1>12, <1>20, <1>21

\* a are the sizes of the right or left part of a tree of which c are the sizes.
InPart(a, c, right) == IF right THEN InRight(a, c) ELSE InLeft(a, c)

\* A turn of the loop over a tree, for either part.
LEMMA PartTurn ==
    ASSUME NEW a \in Sizes, NEW c \in Sizes, NEW right \in BOOLEAN, InPart(a, c, right)
    PROVE  /\ c[2] # 0
           /\ a[2] # 0 => /\ InPart(Turned(a), Turned(c), right)
                          /\ OnRightEdge(a[1], a[2]) <=> OnRightEdge(c[1], c[2])
           /\ a[2] = 0 => Turned(c)[2] = 0 /\ (OnRightEdge(c[1], c[2]) <=> right)
<1>1. CASE right
  BY <1>1, TurnInRight, LastTurnInRight DEF InPart
<1>2. CASE ~ right
  BY <1>2, TurnInLeft, LastTurnInLeft DEF InPart
<1>3. QED
  BY <1>1, <1>2

\* The loop over the proof of a tree is that over the proof of the part, and a turn more.
LEMMA WalkExtends ==
    ASSUME NEW pf \in Seq(Hash), pf # <<>>, NEW x \in Hash, NEW right \in BOOLEAN,
           NEW a \in Sizes, NEW c \in Sizes, InPart(WhileOdd[a], WhileOdd[c], right),
           NEW w, NEW v, WalkIs(w, pf, a), WalkIs(v, Append(pf, x), c),
           NEW r, NEW q, Verdict(r, w, Len(pf)), Verdict(q, v, Len(pf) + 1)
    PROVE  /\ q.ok <=> r.ok
           /\ r.ok => /\ r.old \in Hash /\ r.new \in Hash
                      /\ q.old = IF right THEN NodeHash(x, r.old) ELSE r.old
                      /\ q.new = IF right THEN NodeHash(x, r.new) ELSE NodeHash(r.new, x)
<1>1. PICK l \in Nat \ {0} : l = Len(pf)
  OBVIOUS
<1>2. PICK pq : pq = Append(pf, x)
  OBVIOUS
<1>3. Len(pq) = l + 1 /\ pq[l + 1] = x /\ \A t \in 1 .. l : pq[t] = pf[t] /\ pf[t] \in Hash
  BY <1>1, <1>2
<1>4. /\ \A t \in 1 .. l : w[t] \in Walk
      /\ \A t \in 1 .. l : w[t] = IF t = 1 THEN [old |-> pf[1], new |-> pf[1], sizes |-> WhileOdd[a]]
                                  ELSE IF w[t - 1].sizes[2] = 0 THEN w[t - 1]
                                  ELSE Combine(w[t - 1], pf[t])
  BY <1>1 DEF WalkIs
<1>5. /\ \A t \in 1 .. l + 1 : v[t] \in Walk
      /\ \A t \in 1 .. l + 1 : v[t] = IF t = 1 THEN [old |-> pq[1], new |-> pq[1], sizes |-> WhileOdd[c]]
                                  ELSE IF v[t - 1].sizes[2] = 0 THEN v[t - 1]
                                  ELSE Combine(v[t - 1], pq[t])
  BY <1>2, <1>3 DEF WalkIs
<1>6. \A y \in Walk : y.old \in Hash /\ y.new \in Hash /\ y.sizes \in Sizes
  BY DEF Walk
<1> DEFINE Same(t) == /\ w[t].old = v[t].old /\ w[t].new = v[t].new
                      /\ InPart(w[t].sizes, v[t].sizes, right)
           Before(t) == \A u \in 1 .. t - 1 : w[u].sizes[2] # 0
           Bad == {t \in Nat : t \in 1 .. l /\ Before(t) /\ ~ Same(t)}
<1>7. ASSUME NEW t \in 1 .. l, Same(t)
      PROVE  /\ v[t].sizes[2] # 0
             /\ v[t + 1] = Combine(v[t], pq[t + 1])
             /\ w[t].sizes[2] # 0 => /\ InPart(Turned(w[t].sizes), Turned(v[t].sizes), right)
                                     /\ OnRightEdge(w[t].sizes[1], w[t].sizes[2])
                                            <=> OnRightEdge(v[t].sizes[1], v[t].sizes[2])
             /\ w[t].sizes[2] = 0 => /\ Turned(v[t].sizes)[2] = 0
                                     /\ OnRightEdge(v[t].sizes[1], v[t].sizes[2]) <=> right
  <2>1. w[t].sizes \in Sizes /\ v[t].sizes \in Sizes
    <3>1. t \in 1 .. l + 1
      BY <1>1
    <3>2. QED
      BY <1>4, <1>5, <1>6, <3>1
  <2>2. v[t].sizes[2] # 0
    BY <1>7, <2>1, PartTurn
  <2>3. t + 1 \in 1 .. l + 1 /\ t + 1 # 1 /\ (t + 1) - 1 = t
    BY <1>1
  <2>4. v[t + 1] = Combine(v[t], pq[t + 1])
    BY <1>5, <2>2, <2>3
  <2>5. QED
    BY <1>7, <2>1, <2>2, <2>4, PartTurn
<1>8. ASSUME Bad # {} PROVE FALSE
  <2>1. PICK t \in Bad : \A j \in Nat : j < t => j \notin Bad
    BY <1>8, LeastNumber
  <2>2. t \in 1 .. l /\ t \in 1 .. l + 1 /\ Before(t) /\ ~ Same(t)
    BY <1>1, <2>1
  <2>3. CASE t = 1
    <3>1. 1 \in 1 .. l
      BY <2>2, <2>3
    <3>2. /\ w[1] = [old |-> pf[1], new |-> pf[1], sizes |-> WhileOdd[a]]
          /\ v[1] = [old |-> pf[1], new |-> pf[1], sizes |-> WhileOdd[c]]
      BY <1>3, <1>4, <1>5, <2>2, <2>3, <3>1
    <3>3. QED
      BY <2>2, <2>3, <3>2
  <2>4. CASE t # 1
    <3>1. PICK u \in 1 .. l : u = t - 1 /\ t = u + 1 /\ u < t /\ u \in Nat
      BY <1>1, <2>2, <2>4
    <3>2. Before(u) /\ w[u].sizes[2] # 0
      BY <2>2, <3>1
    <3>3. Same(u)
      BY <2>1, <3>1, <3>2
    <3>4. v[t] = Combine(v[u], pq[t]) /\ w[t] = Combine(w[u], pf[t]) /\ pq[t] = pf[t]
      BY <1>3, <1>4, <1>7, <2>2, <2>4, <3>1, <3>2, <3>3
    <3>5. PICK y \in Hash, wu \in Walk, vu \in Walk : y = pf[t] /\ wu = w[u] /\ vu = v[u]
      <4>1. u \in 1 .. l + 1
        BY <1>1
      <4>2. QED
        BY <1>3, <1>4, <1>5, <2>2, <4>1
    <3>6. /\ InPart(Turned(wu.sizes), Turned(vu.sizes), right)
          /\ OnRightEdge(wu.sizes[1], wu.sizes[2]) <=> OnRightEdge(vu.sizes[1], vu.sizes[2])
      BY <1>7, <3>2, <3>3, <3>5
    <3>7. w[t] = Combine(wu, y) /\ v[t] = Combine(vu, y) /\ wu.old = vu.old /\ wu.new = vu.new
      BY <3>3, <3>4, <3>5
    <3>8. w[t].sizes = Turned(wu.sizes) /\ v[t].sizes = Turned(vu.sizes)
      BY <3>7, CombineType
    <3>9. w[t].old = v[t].old
      <4>1. w[t].old = IF OnRightEdge(wu.sizes[1], wu.sizes[2]) THEN NodeHash(y, wu.old) ELSE wu.old
        <5>1. Combine(wu, y).old = IF OnRightEdge(wu.sizes[1], wu.sizes[2]) THEN NodeHash(y, wu.old)
                                                                           ELSE wu.old
          BY CombineType
        <5>2. QED
          BY <3>7, <5>1
      <4>2. v[t].old = IF OnRightEdge(vu.sizes[1], vu.sizes[2]) THEN NodeHash(y, vu.old) ELSE vu.old
        BY <3>7, CombineType
      <4>3. QED
        BY <3>6, <3>7, <4>1, <4>2
    <3>10. w[t].new = v[t].new
      <4>1. w[t].new = IF OnRightEdge(wu.sizes[1], wu.sizes[2]) THEN NodeHash(y, wu.new)
                                                                ELSE NodeHash(wu.new, y)
        <5>1. Combine(wu, y).new = IF OnRightEdge(wu.sizes[1], wu.sizes[2]) THEN NodeHash(y, wu.new)
                                                                           ELSE NodeHash(wu.new, y)
          BY CombineType
        <5>2. QED
          BY <3>7, <5>1
      <4>2. v[t].new = IF OnRightEdge(vu.sizes[1], vu.sizes[2]) THEN NodeHash(y, vu.new)
                                                                ELSE NodeHash(vu.new, y)
        BY <3>7, CombineType
      <4>3. QED
        BY <3>6, <3>7, <4>1, <4>2
    <3>11. QED
      BY <2>2, <3>6, <3>8, <3>9, <3>10
  <2>5. QED
    BY <2>3, <2>4
<1>9. \A t \in 1 .. l : Before(t) => Same(t)
  BY <1>1, <1>8
<1>10. ASSUME NEW t \in 1 .. l, Before(t), w[t].sizes[2] = 0
       PROVE  v[t + 1].sizes[2] = 0
  <2>1. Same(t)
    BY <1>9, <1>10
  <2>2. v[t + 1] = Combine(v[t], pq[t + 1]) /\ Turned(v[t].sizes)[2] = 0
    BY <1>7, <1>10, <2>1
  <2>3. pq[t + 1] \in Hash /\ v[t] \in Walk
    <3>1. t \in 1 .. l + 1 /\ t + 1 \in 1 .. l + 1
      BY <1>1
    <3>2. CASE t = l
      BY <1>3, <1>5, <3>1, <3>2
    <3>3. CASE t # l
      <4>1. t + 1 \in 1 .. l
        BY <1>1, <3>3
      <4>2. QED
        BY <1>3, <1>5, <3>1, <4>1
    <3>4. QED
      BY <3>2, <3>3
  <2>4. QED
    BY <2>2, <2>3, CombineType
<1>11. r.ok <=> \A t \in 1 .. l : w[t].sizes[2] = 0 <=> t = l
  BY <1>1 DEF Verdict
<1>12. q.ok <=> \A t \in 1 .. l + 1 : v[t].sizes[2] = 0 <=> t = l + 1
  BY <1>1 DEF Verdict
<1>13. /\ r.old = w[l].old /\ r.new = w[l].new /\ w[l] \in Walk /\ v[l] \in Walk
       /\ q.old = v[l + 1].old /\ q.new = v[l + 1].new
  <2>1. l \in 1 .. l /\ l \in 1 .. l + 1
    BY <1>1
  <2>2. QED
    BY <1>1, <1>4, <1>5, <2>1 DEF Verdict
<1>14. CASE ~ Before(l)
  <2>1. {u \in Nat : u \in 1 .. l - 1 /\ w[u].sizes[2] = 0} # {}
    BY <1>1, <1>14
  <2>2. PICK u \in Nat : /\ u \in 1 .. l - 1 /\ w[u].sizes[2] = 0
                         /\ \A j \in Nat : j < u => ~ (j \in 1 .. l - 1 /\ w[j].sizes[2] = 0)
    <3>1. PICK u \in {i \in Nat : i \in 1 .. l - 1 /\ w[i].sizes[2] = 0} :
              \A j \in Nat : j < u => j \notin {i \in Nat : i \in 1 .. l - 1 /\ w[i].sizes[2] = 0}
      BY <2>1, LeastNumber
    <3>2. QED
      BY <3>1
  <2>3. u \in 1 .. l /\ u # l /\ Before(u) /\ u + 1 \in 1 .. l + 1 /\ u + 1 # l + 1
    <3>1. \A j \in 1 .. u - 1 : j \in Nat /\ j < u /\ j \in 1 .. l - 1
      BY <1>1, <2>2
    <3>2. Before(u)
      BY <2>2, <3>1
    <3>3. QED
      BY <1>1, <2>2, <3>2
  <2>4. ~ r.ok
    BY <1>11, <2>2, <2>3
  <2>5. ~ q.ok
    BY <1>10, <1>12, <2>2, <2>3
  <2>6. QED
    BY <2>4, <2>5
<1>15. CASE Before(l)
  <2>1. \A t \in 1 .. l : Before(t)
    BY <1>1, <1>15
  <2>2. \A t \in 1 .. l : v[t].sizes[2] # 0
    BY <1>7, <1>9, <2>1
  <2>3. l \in 1 .. l /\ Same(l)
    BY <1>1, <1>9, <1>15
  <2>4. r.ok <=> w[l].sizes[2] = 0
    <3>1. \A t \in 1 .. l : t # l => w[t].sizes[2] # 0
      BY <1>1, <1>15
    <3>2. QED
      BY <1>11, <2>3, <3>1
  <2>5. q.ok <=> v[l + 1].sizes[2] = 0
    <3>1. \A t \in 1 .. l + 1 : t # l + 1 => t \in 1 .. l
      BY <1>1
    <3>2. l + 1 \in 1 .. l + 1 /\ \A t \in 1 .. l : t # l + 1
      BY <1>1
    <3>3. QED
      BY <1>12, <2>2, <3>1, <3>2
  <2>6. v[l + 1] = Combine(v[l], x)
    BY <1>3, <1>7, <2>3
  <2>7. PICK wl, vl \in Walk : wl = w[l] /\ vl = v[l]
    BY <1>13
  <2>8. /\ v[l + 1].sizes = Turned(vl.sizes)
        /\ v[l + 1].old = IF OnRightEdge(vl.sizes[1], vl.sizes[2]) THEN NodeHash(x, vl.old) ELSE vl.old
        /\ v[l + 1].new = IF OnRightEdge(vl.sizes[1], vl.sizes[2]) THEN NodeHash(x, vl.new)
                                                                     ELSE NodeHash(vl.new, x)
    BY <2>6, <2>7, CombineType, SMTT(30)
  <2>9. wl.sizes \in Sizes /\ vl.sizes \in Sizes
    BY <1>6
  <2>10. CASE w[l].sizes[2] # 0
    <3>1. InPart(Turned(wl.sizes), Turned(vl.sizes), right)
      BY <1>7, <2>3, <2>7, <2>10
    <3>2. Turned(wl.sizes) \in Sizes /\ Turned(vl.sizes) \in Sizes
      BY <2>9, TurnedType
    <3>3. Turned(vl.sizes)[2] # 0
      BY <3>1, <3>2, PartTurn
    <3>4. ~ q.ok /\ ~ r.ok
      BY <2>4, <2>5, <2>8, <2>10, <3>3
    <3>5. QED
      BY <3>4
  <2>11. CASE w[l].sizes[2] = 0
    <3>1. Turned(vl.sizes)[2] = 0 /\ (OnRightEdge(vl.sizes[1], vl.sizes[2]) <=> right)
      BY <1>7, <2>3, <2>7, <2>11
    <3>2. q.ok /\ r.ok
      BY <2>4, <2>5, <2>8, <2>11, <3>1
    <3>3. r.old = wl.old /\ r.new = wl.new /\ wl.old = vl.old /\ wl.new = vl.new
      BY <1>13, <2>3, <2>7
    <3>4. r.old \in Hash /\ r.new \in Hash
      BY <1>6, <3>3
    <3>5. q.old = IF right THEN NodeHash(x, r.old) ELSE r.old
      BY <1>13, <2>8, <3>1, <3>3
    <3>6. q.new = IF right THEN NodeHash(x, r.new) ELSE NodeHash(r.new, x)
      BY <1>13, <2>8, <3>1, <3>3
    <3>7. QED
      BY <3>2, <3>4, <3>5, <3>6
  <2>12. QED
    BY <2>10, <2>11
<1>16. QED
  BY <1>14, <1>15

\* The result for a tree, q, is that for its part, r, with the sibling x above it.
Extended(q, r, x, right) ==
    /\ q.ok <=> r.ok
    /\ r.ok => /\ r.old \in Hash /\ r.new \in Hash
               /\ q.old = IF right THEN NodeHash(x, r.old) ELSE r.old
               /\ q.new = IF right THEN NodeHash(x, r.new) ELSE NodeHash(r.new, x)

\* walkConsistency of a tree of n0 leaves and of its part with the last old leaf.
LEMMA WalkOfTree ==
    ASSUME NEW pf \in Seq(Hash), pf # <<>>, NEW x \in Hash, NEW right \in BOOLEAN,
           NEW n0 \in Nat, NEW m \in 1 .. n0 - 1, NEW k, k = largestPowerOfTwoLessThan(n0),
           right <=> k < m,
           NEW m1, NEW n1, m1 = IF right THEN m - k ELSE m, n1 = IF right THEN n0 - k ELSE k,
           NEW r, r = walkConsistency(pf, m1, n1), NEW q, q = walkConsistency(Append(pf, x), m, n0)
    PROVE  Extended(q, r, x, right)
<1>1. n0 >= 2
  OBVIOUS
<1>2. k \in 1 .. n0 - 1 /\ n0 <= 2 * k
  BY <1>1, SplitPoint
<1>3. PICK e \in Nat : k = pow2[e]
  BY <1>1, SplitPoint
<1>4. m1 - 1 \in Nat /\ n1 - 1 \in Nat /\ m - 1 \in Nat /\ n0 - 1 \in Nat
  BY <1>1, <1>2, SMTT(30)
<1>5. PICK a, c \in Sizes : a = <<m1 - 1, n1 - 1>> /\ c = <<m - 1, n0 - 1>>
  BY <1>4 DEF Sizes
<1>6. a[1] = m1 - 1 /\ a[2] = n1 - 1 /\ c[1] = m - 1 /\ c[2] = n0 - 1
  BY <1>5
<1>7. InPart(WhileOdd[a], WhileOdd[c], right)
  <2>1. CASE right
    <3>1. a[1] < a[2] /\ a[2] < k /\ c[1] = a[1] + k /\ c[2] = a[2] + k
      <4>1. m1 = m - k /\ n1 = n0 - k
        BY <2>1
      <4>2. (m - k) - 1 < (n0 - k) - 1 /\ (n0 - k) - 1 < k
        BY <1>1, <1>2
      <4>3. m - 1 = ((m - k) - 1) + k /\ n0 - 1 = ((n0 - k) - 1) + k
        BY <1>2
      <4>4. QED
        BY <1>6, <4>1, <4>2, <4>3
    <3>2. InRight(a, c)
      <4>1. a[1] <= a[2]
        BY <1>4, <1>6, <3>1
      <4>2. QED
        BY <1>3, <3>1, <4>1 DEF InRight
    <3>3. QED
      BY <2>1, <3>1, <3>2, InRightOdd DEF InPart
  <2>2. CASE ~ right
    <3>1. a[1] = c[1] /\ a[1] <= a[2] /\ a[2] + 1 = k /\ k <= c[2] /\ c[2] < 2 * k
      BY <1>1, <1>2, <1>6, <2>2
    <3>2. InLeft(a, c)
      BY <1>3, <3>1 DEF InLeft
    <3>3. QED
      BY <2>2, <3>2, InLeftOdd DEF InPart
  <2>3. QED
    BY <2>1, <2>2
<1>8. PICK w : WalkIs(w, pf, a) /\ Verdict(r, w, Len(pf))
  BY <1>5, WalkDef
<1>9. PICK pq \in Seq(Hash) : pq = Append(pf, x) /\ pq # <<>> /\ Len(pq) = Len(pf) + 1
  <2>1. Append(pf, x) \in Seq(Hash) /\ Len(Append(pf, x)) = Len(pf) + 1 /\ Len(pf) \in Nat
    BY AppendProperties
  <2>2. Append(pf, x) # <<>>
    BY AppendProperties
  <2>3. QED
    BY <2>1, <2>2
<1>10. PICK v : WalkIs(v, pq, c) /\ Verdict(q, v, Len(pq))
  BY <1>5, <1>9, WalkDef
<1>11. WalkIs(v, Append(pf, x), c) /\ Verdict(q, v, Len(pf) + 1)
  BY <1>9, <1>10
<1>12. q.ok <=> r.ok
  BY <1>7, <1>8, <1>11, WalkExtends
<1>13. r.ok => /\ r.old \in Hash /\ r.new \in Hash
               /\ q.old = IF right THEN NodeHash(x, r.old) ELSE r.old
               /\ q.new = IF right THEN NodeHash(x, r.new) ELSE NodeHash(r.new, x)
  BY <1>7, <1>8, <1>11, WalkExtends
<1>14. QED
  BY <1>12, <1>13 DEF Extended

\* The old tree is not the new one, and one hash is not enough to prove that it is part of it.
LEMMA WalkOfOne ==
    ASSUME NEW pf \in Seq(Hash), Len(pf) = 1, NEW n0 \in Nat, NEW m \in 1 .. n0 - 1
    PROVE  ~ walkConsistency(pf, m, n0).ok
<1>1. m - 1 \in Nat /\ n0 - 1 \in Nat /\ m - 1 < n0 - 1
  OBVIOUS
<1>2. PICK p \in Nat : p = pow2[n0 - 1] /\ n0 - 1 < p
  BY <1>1, pow2Step
<1>3. PICK a, c \in Sizes : a = <<m - 1, n0 - 1>> /\ c = <<(m - 1) + p, (n0 - 1) + p>>
  <2>1. (m - 1) + p \in Nat /\ (n0 - 1) + p \in Nat
    BY <1>1, <1>2
  <2>2. <<m - 1, n0 - 1>> \in Sizes /\ <<(m - 1) + p, (n0 - 1) + p>> \in Sizes
    BY <1>1, <2>1 DEF Sizes
  <2>3. QED
    BY <2>2
<1>4. InRight(a, c) /\ a[1] < a[2]
  BY <1>1, <1>2, <1>3 DEF InRight
<1>5. WhileOdd[a][2] # 0
  BY <1>4, InRightOdd
<1>6. PICK w : WalkIs(w, pf, a) /\ Verdict(walkConsistency(pf, m, n0), w, Len(pf))
  <2>1. pf # <<>> /\ <<m - 1, n0 - 1>> \in Sizes
    <3>1. pf # <<>>
      <4>1. CASE pf = <<>>
        <5>1. Len(pf) = 0
          BY <4>1
        <5>2. QED
          BY <5>1
      <4>2. QED
        BY <4>1
    <3>2. <<m - 1, n0 - 1>> \in Sizes
      BY <1>3
    <3>3. QED
      BY <3>1, <3>2
  <2>2. QED
    BY <1>3, <2>1, WalkDef
<1>7. w[1].sizes = WhileOdd[a]
  BY <1>6 DEF WalkIs
<1>8. QED
  BY <1>5, <1>6, <1>7 DEF Verdict

\* For one less than a power of two the first loop ends at the root.
LEMMA PowerOdd ==
    ASSUME NEW e \in Nat, NEW s \in Sizes, s = <<pow2[e] - 1, pow2[e] - 1>>
    PROVE  WhileOdd[s] = <<0, 0>>
<1> DEFINE Bad == {l \in Nat : \E x \in Sizes : x = <<pow2[l] - 1, pow2[l] - 1>> /\ WhileOdd[x] # <<0, 0>>}
<1>1. ASSUME Bad # {} PROVE FALSE
  <2>1. PICK l \in Bad : \A j \in Nat : j < l => j \notin Bad
    BY <1>1, LeastNumber
  <2>2. PICK x \in Sizes : x = <<pow2[l] - 1, pow2[l] - 1>> /\ WhileOdd[x] # <<0, 0>>
    BY <2>1
  <2>3. CASE pow2[l] = 1
    <3>1. x = <<0, 0>> /\ x[1] = 0
      BY <2>2, <2>3
    <3>2. QED
      BY <2>2, <3>1, WhileOddDef
  <2>4. CASE pow2[l] # 1
    <3>1. PICK q \in Nat \ {0} : q = pow2[l - 1] /\ pow2[l] = 2 * q /\ l - 1 \in Nat
      BY <2>4, HalfOfPower
    <3>2. x[1] = 2 * q - 1 /\ x[2] = 2 * q - 1
      BY <2>2, <3>1
    <3>3. x[1] % 2 = 1 /\ x[1] \div 2 = q - 1
      BY <3>2
    <3>4. Halved(x) = <<q - 1, q - 1>> /\ Halved(x) \in Sizes
      BY <3>2, <3>3, HalvedType DEF Halved
    <3>5. WhileOdd[x] = WhileOdd[Halved(x)]
      BY <3>3, WhileOddDef
    <3>6. l - 1 < l
      BY <3>1
    <3>7. QED
      BY <2>1, <2>2, <3>1, <3>4, <3>5, <3>6
  <2>5. QED
    BY <2>3, <2>4
<1>2. QED
  BY <1>1

\* A tree that is all old, and full, is proved by its root.
LEMMA WalkOfFull ==
    ASSUME NEW pf \in Seq(Hash), pf # <<>>, NEW e \in Nat, NEW m, m = pow2[e],
           NEW r, r = walkConsistency(pf, m, m)
    PROVE  /\ r.ok <=> Len(pf) = 1
           /\ r.ok => r.old = pf[1] /\ r.new = pf[1]
<1>1. m - 1 \in Nat
  <2>1. PICK p \in Nat \ {0} : p = pow2[e]
    BY pow2Step
  <2>2. QED
    BY <2>1
<1>2. PICK a \in Sizes : a = <<m - 1, m - 1>>
  BY <1>1 DEF Sizes
<1>3. WhileOdd[a] = <<0, 0>>
  BY <1>2, PowerOdd
<1>4. PICK w : WalkIs(w, pf, a) /\ Verdict(r, w, Len(pf))
  BY <1>2, WalkDef
<1>5. Len(pf) \in Nat \ {0} /\ 1 \in 1 .. Len(pf)
  OBVIOUS
<1>6. w[1] = [old |-> pf[1], new |-> pf[1], sizes |-> <<0, 0>>]
  BY <1>3, <1>4, <1>5 DEF WalkIs
<1>7. CASE Len(pf) = 1
  BY <1>4, <1>6, <1>7 DEF Verdict
<1>8. CASE Len(pf) # 1
  <2>1. w[1].sizes[2] = 0
    BY <1>6
  <2>2. ~ r.ok
    BY <1>4, <1>5, <1>8, <2>1 DEF Verdict
  <2>3. QED
    BY <1>8, <2>2
<1>9. QED
  BY <1>7, <1>8

\* Lists are equal if their last elements are and those before.
LEMMA AppendEqual ==
    ASSUME NEW p \in Seq(Hash), NEW q \in Seq(Hash), NEW x \in Hash, NEW y \in Hash
    PROVE  Append(p, x) = Append(q, y) <=> p = q /\ x = y
<1>1. ASSUME Append(p, x) = Append(q, y) PROVE p = q /\ x = y
  <2>1. PICK a, b : a = Append(p, x) /\ b = Append(q, y)
    OBVIOUS
  <2>2. Len(a) = Len(p) + 1 /\ a[Len(p) + 1] = x /\ \A j \in 1 .. Len(p) : a[j] = p[j]
    BY <2>1
  <2>3. Len(b) = Len(q) + 1 /\ b[Len(q) + 1] = y /\ \A j \in 1 .. Len(q) : b[j] = q[j]
    BY <2>1
  <2>4. a = b /\ Len(p) \in Nat /\ Len(q) \in Nat
    BY <1>1, <2>1
  <2>5. Len(p) = Len(q)
    BY <2>2, <2>3, <2>4
  <2>6. x = y /\ \A j \in 1 .. Len(p) : p[j] = q[j]
    BY <2>2, <2>3, <2>4, <2>5
  <2>7. QED
    BY <2>5, <2>6, SeqEqual
<1>2. QED
  BY <1>1

\* A proof that is not empty has a last element.
LEMMA LastOfProof ==
    ASSUME NEW pf \in Seq(Hash), Len(pf) # 0
    PROVE  \E p \in Seq(Hash), x \in Hash : pf = Append(p, x) /\ Len(pf) = Len(p) + 1
<1>1. PICK l \in Nat : Len(pf) = l + 1
  <2>1. Len(pf) \in Nat \ {0}
    OBVIOUS
  <2>2. Len(pf) - 1 \in Nat /\ Len(pf) = (Len(pf) - 1) + 1
    BY <2>1
  <2>3. QED
    BY <2>2
<1>2. \A j \in 1 .. l + 1 : pf[j] \in Hash
  BY <1>1
<1>3. PICK p \in Seq(Hash) : Len(p) = l /\ \A j \in 1 .. l : p[j] = pf[j]
  <2>1. PICK q : q = [j \in 1 .. l |-> pf[j]]
    OBVIOUS
  <2>2. q \in Seq(Hash) /\ Len(q) = l /\ \A j \in 1 .. l : q[j] = pf[j]
    BY <1>2, <2>1
  <2>3. QED
    BY <2>2
<1>4. PICK x \in Hash : x = pf[l + 1]
  BY <1>2
<1>5. PICK a \in Seq(Hash) : a = Append(p, x) /\ Len(a) = l + 1
  BY <1>3, AppendProperties
<1>6. a[l + 1] = x /\ \A j \in 1 .. l : a[j] = p[j]
  BY <1>3, <1>5, AppendProperties
<1>7. \A j \in 1 .. Len(pf) : pf[j] = a[j]
  <2>1. TAKE j \in 1 .. Len(pf)
  <2>2. j \in 1 .. l \/ j = l + 1
    BY <1>1
  <2>3. QED
    BY <1>3, <1>4, <1>6, <2>2
<1>8. pf = a
  BY <1>1, <1>5, <1>7, SeqEqual
<1>9. QED
  BY <1>1, <1>3, <1>5, <1>8

\* What the verifier makes of the proof for a slice of the new tree, g being the old one:
\* it accepts one that is as long as that of subProof, and the roots it finds are those of
\* the old and of the new tree if and only if it is that of subProof and the leaves are
\* the same.
OldPart(g, s) == <<s[1], Len(g) - s[1]>>

WalkedTo(r, g, h, path, s, pf) ==
    /\ r.ok <=> Len(pf) = Len(path[s])
    /\ r.ok => (r.old = Roots(g)[OldPart(g, s)] /\ r.new = Roots(h)[s]
                   <=> pf = path[s] /\ SameSlice(g, OldPart(g, s), h, OldPart(g, s)))

SliceProved(g, h, path, s) ==
    /\ path[s] # <<>>
    /\ \A pf \in Seq(Hash) : pf # <<>> =>
          WalkedTo(walkConsistency(pf, Len(g) - s[1], s[2]), g, h, path, s, pf)

\* The proof for a full slice that is all old is right.
LEMMA FullProved ==
    ASSUME NEW g \in Seq(Hash), NEW h \in Seq(Hash), NEW path, SubProofIs(path, h, Len(g), FALSE),
           NEW s \in OldSlices(h, Len(g)), Len(g) = s[1] + s[2],
           NEW e \in Nat, s[2] = pow2[e]
    PROVE  SliceProved(g, h, path, s)
<1>1. s \in Slices(h) /\ Len(h) \in Nat /\ Len(g) \in Nat
  BY DEF OldSlices
<1>2. s[1] \in Nat /\ s[2] \in Nat \ {0} /\ s = <<s[1], s[2]>>
  BY <1>1, SliceParts
<1>3. s \in Slices(g)
  BY <1>1, <1>2 DEF Slices
<1>4. Len(g) - s[1] = s[2] /\ OldPart(g, s) = s
  <2>1. Len(g) - s[1] = s[2]
    BY <1>2
  <2>2. QED
    BY <1>2, <2>1 DEF OldPart
<1>5. PICK root, old \in Hash : root = Roots(h)[s] /\ old = Roots(g)[s]
  BY <1>1, <1>3, RootsDef
<1>6. path[s] = <<root>>
  BY <1>5 DEF SubProofIs
<1>7. root = old <=> SameSlice(g, s, h, s)
  BY <1>1, <1>3, <1>5, RootsCommit
<1>8. ASSUME NEW pf \in Seq(Hash), pf # <<>>
      PROVE  WalkedTo(walkConsistency(pf, Len(g) - s[1], s[2]), g, h, path, s, pf)
  <2>1. PICK r : r = walkConsistency(pf, s[2], s[2])
    OBVIOUS
  <2>2. (r.ok <=> Len(pf) = 1) /\ (r.ok => r.old = pf[1] /\ r.new = pf[1])
    <3>1. r.ok <=> Len(pf) = 1
      BY <1>8, <2>1, WalkOfFull
    <3>2. r.ok => r.old = pf[1] /\ r.new = pf[1]
      BY <1>8, <2>1, WalkOfFull
    <3>3. QED
      BY <3>1, <3>2
  <2>3. r.ok <=> Len(pf) = Len(path[s])
    BY <1>6, <2>2
  <2>4. ASSUME r.ok
        PROVE  r.old = old /\ r.new = root <=> pf = path[s] /\ SameSlice(g, s, h, s)
    <3>1. Len(pf) = 1 /\ r.old = pf[1] /\ r.new = pf[1]
      BY <2>2, <2>4
    <3>2. pf = <<root>> <=> pf[1] = root
      BY <3>1
    <3>3. QED
      BY <1>6, <1>7, <3>1, <3>2
  <2>5. WalkedTo(r, g, h, path, s, pf)
    BY <1>4, <1>5, <2>3, <2>4 DEF WalkedTo
  <2>6. QED
    BY <1>4, <2>1, <2>5
<1>9. path[s] # <<>>
  BY <1>6
<1>10. QED
  BY <1>8, <1>9 DEF SliceProved

\* The old part of a slice of which the right half has a part that is new.
LEMMA OldPartRight ==
    ASSUME NEW g \in Seq(Hash), NEW h \in Seq(Hash), NEW s \in OldSlices(h, Len(g)),
           Len(g) < s[1] + s[2], RightOf(s)[1] < Len(g), NEW c, c = RightOf(s), NEW d, d = LeftOf(s)
    PROVE  /\ OldPart(g, s) \in Slices(g) /\ OldPart(g, c) \in Slices(g) /\ d \in Slices(g)
           /\ Roots(g)[OldPart(g, s)] = NodeHash(Roots(g)[d], Roots(g)[OldPart(g, c)])
           /\ SameSlice(g, OldPart(g, s), h, OldPart(g, s)) <=>
                 /\ Roots(g)[d] = Roots(h)[d]
                 /\ SameSlice(g, OldPart(g, c), h, OldPart(g, c))
<1>1. s \in Slices(h) /\ Len(h) \in Nat /\ Len(g) \in Nat /\ s[1] < Len(g)
  BY DEF OldSlices
<1>2. s[1] \in Nat /\ s[2] \in Nat \ {0} /\ s = <<s[1], s[2]>>
  BY <1>1, SliceParts
<1>3. s[2] # 1
  BY <1>1, <1>2
<1>4. PICK k \in Nat \ {0} :
          /\ k = largestPowerOfTwoLessThan(s[2]) /\ k < s[2] /\ s[2] <= 2 * k
          /\ LeftOf(s) = <<s[1], k>> /\ LeftOf(s) \in Slices(h)
          /\ RightOf(s) = <<s[1] + k, s[2] - k>> /\ RightOf(s) \in Slices(h)
  BY <1>1, <1>3, SliceParts
<1>5. PICK e \in Nat : k = pow2[e]
  <2>1. s[2] \in Nat /\ s[2] >= 2
    BY <1>2, <1>3
  <2>2. QED
    BY <1>4, <2>1, SplitPoint
<1>6. PICK a, b, m \in Nat : a = s[1] /\ b = s[2] /\ m = Len(g)
  BY <1>1, <1>2
<1>7. k < m - a /\ m - a <= 2 * k /\ m - a \in Nat /\ m - a >= 2 /\ m < a + b
  <2>1. a + k < m
    BY <1>4, <1>6
  <2>2. QED
    BY <1>4, <1>6, <2>1, SMTT(30)
<1>8. largestPowerOfTwoLessThan(m - a) = k
  BY <1>5, <1>7, SplitIs DEF IsSplit
<1>9. PICK o : o = <<a, m - a>>
  OBVIOUS
<1>10. OldPart(g, s) = o /\ o[1] = a /\ o[2] = m - a
  BY <1>6, <1>9 DEF OldPart
<1>11. o \in Slices(g)
  BY <1>6, <1>7, <1>9 DEF Slices
<1>12. OldPart(g, c) = <<a + k, (m - a) - k>>
  <2>1. c[1] = a + k
    BY <1>4, <1>6
  <2>2. m - (a + k) = (m - a) - k
    BY <1>4
  <2>3. QED
    BY <1>6, <2>1, <2>2 DEF OldPart
<1>13. LeftOf(o) = <<a, k>> /\ RightOf(o) = <<a + k, (m - a) - k>>
  BY <1>8, <1>10 DEF LeftOf, RightOf
<1>14. d = LeftOf(o) /\ OldPart(g, c) = RightOf(o) /\ d = <<a, k>> /\ d \in Slices(h)
  BY <1>4, <1>6, <1>12, <1>13
<1>15. LeftOf(o) \in Slices(g) /\ RightOf(o) \in Slices(g)
  BY <1>1, <1>7, <1>10, <1>11, PartsOfSlice
<1>16. Roots(g)[o] = NodeHash(Roots(g)[LeftOf(o)], Roots(g)[RightOf(o)])
  <2>1. o[2] # 1
    BY <1>7, <1>10
  <2>2. QED
    BY <1>11, <2>1, RootsDef
<1>17. SameSlice(g, o, h, o) <=>
          SameSlice(g, <<a, k>>, h, <<a, k>>)
              /\ SameSlice(g, <<a + k, (m - a) - k>>, h, <<a + k, (m - a) - k>>)
  <2>1. k \in Nat /\ o[1] \in Nat /\ o[2] \in Nat /\ k < o[2]
    BY <1>7, <1>10
  <2>2. SameSlice(g, o, h, o) <=>
          SameSlice(g, <<o[1], k>>, h, <<o[1], k>>)
              /\ SameSlice(g, <<o[1] + k, o[2] - k>>, h, <<o[1] + k, o[2] - k>>)
    BY <2>1, SamePartsSameSlice
  <2>3. QED
    BY <1>10, <2>2
<1>18. Roots(g)[d] = Roots(h)[d] <=> SameSlice(g, d, h, d)
  BY <1>14, <1>15, RootsCommit
<1>19. QED
  BY <1>10, <1>11, <1>12, <1>13, <1>14, <1>15, <1>16, <1>17, <1>18

\* The proof for a slice that is partly new is right if that for its part is.
LEMMA PartProved ==
    ASSUME NEW g \in Seq(Hash), NEW h \in Seq(Hash), NEW path, SubProofIs(path, h, Len(g), FALSE),
           NEW s \in OldSlices(h, Len(g)), Len(g) < s[1] + s[2],
           NEW right \in BOOLEAN, right <=> RightOf(s)[1] < Len(g),
           NEW c, c = IF right THEN RightOf(s) ELSE LeftOf(s), SliceProved(g, h, path, c)
    PROVE  SliceProved(g, h, path, s)
<1>1. s \in Slices(h) /\ Len(h) \in Nat /\ Len(g) \in Nat /\ s[1] < Len(g)
  BY DEF OldSlices
<1>2. s[1] \in Nat /\ s[2] \in Nat \ {0} /\ s = <<s[1], s[2]>>
  BY <1>1, SliceParts
<1>3. s[2] # 1 /\ Len(g) # s[1] + s[2]
  BY <1>1, <1>2
<1>4. PICK k \in Nat \ {0} :
          /\ k = largestPowerOfTwoLessThan(s[2]) /\ k < s[2] /\ s[2] <= 2 * k
          /\ LeftOf(s) = <<s[1], k>> /\ LeftOf(s) \in Slices(h)
          /\ RightOf(s) = <<s[1] + k, s[2] - k>> /\ RightOf(s) \in Slices(h)
  BY <1>1, <1>3, SliceParts
<1>5. PICK a, b, m \in Nat : a = s[1] /\ b = s[2] /\ m = Len(g)
  BY <1>1, <1>2
<1>6. m - a \in 1 .. b - 1 /\ b \in Nat /\ (right <=> k < m - a)
  <2>1. RightOf(s)[1] = a + k
    BY <1>4, <1>5
  <2>2. a < m /\ m < a + b
    BY <1>1, <1>5
  <2>3. \A u, v, w, z \in Nat : u < w /\ w < u + v => w - u \in 1 .. v - 1 /\ (u + z < w <=> z < w - u)
    OBVIOUS
  <2>4. QED
    BY <1>5, <2>1, <2>2, <2>3
<1>7. PICK d : d = IF right THEN LeftOf(s) ELSE RightOf(s)
  OBVIOUS
<1>8. PICK rc, sib, rs \in Hash : rc = Roots(h)[c] /\ sib = Roots(h)[d] /\ rs = Roots(h)[s]
  BY <1>1, <1>4, <1>7, RootsDef
<1>9. rs = IF right THEN NodeHash(sib, rc) ELSE NodeHash(rc, sib)
  BY <1>1, <1>3, <1>7, <1>8, RootsDef
<1>10. c \in OldSlices(h, Len(g))
  <2>1. CASE right
    <3>1. c = RightOf(s) /\ ~ (Len(g) <= RightOf(s)[1])
      <4>1. RightOf(s)[1] \in Nat
        BY <1>2, <1>4
      <4>2. QED
        BY <1>1, <2>1, <4>1
    <3>2. QED
      BY <1>1, <1>3, <3>1, PartOfOldSlice
  <2>2. CASE ~ right
    <3>1. c = LeftOf(s) /\ Len(g) <= RightOf(s)[1]
      <4>1. RightOf(s)[1] \in Nat
        BY <1>2, <1>4
      <4>2. QED
        BY <1>1, <2>2, <4>1
    <3>2. QED
      BY <1>1, <1>3, <3>1, PartOfOldSlice
  <2>3. QED
    BY <2>1, <2>2
<1>11. PICK pc \in Seq(Hash) : pc = path[c] /\ pc # <<>>
  BY <1>10 DEF SubProofIs, SliceProved
<1>12. path[s] = Append(pc, sib)
  <2>1. Len(g) <= RightOf(s)[1] <=> ~ right
    <3>1. RightOf(s)[1] \in Nat
      BY <1>2, <1>4
    <3>2. QED
      BY <1>1, <3>1
  <2>2. path[s] = IF Len(g) <= RightOf(s)[1] THEN Append(path[LeftOf(s)], Roots(h)[RightOf(s)])
                  ELSE Append(path[RightOf(s)], Roots(h)[LeftOf(s)])
    BY <1>3 DEF SubProofIs
  <2>3. QED
    BY <1>7, <1>8, <1>11, <2>1, <2>2
<1>13. Len(path[s]) = Len(pc) + 1 /\ Len(pc) \in Nat \ {0} /\ path[s] # <<>>
  <2>1. PICK p : p = Append(pc, sib)
    OBVIOUS
  <2>2. Len(p) = Len(pc) + 1 /\ p # <<>>
    BY <2>1, AppendProperties
  <2>3. Len(pc) \in Nat \ {0}
    BY <1>11
  <2>4. QED
    BY <1>12, <2>1, <2>2, <2>3
<1>14. PICK os, oc : os = OldPart(g, s) /\ oc = OldPart(g, c)
  OBVIOUS
<1>15. ~ right => os = oc /\ os \in Slices(g)
  <2>1. ASSUME ~ right PROVE os = oc /\ os \in Slices(g)
    <3>1. c[1] = s[1]
      BY <1>4, <2>1
    <3>2. <<a, m - a>> \in Slices(g)
      BY <1>5, <1>6 DEF Slices
    <3>3. QED
      BY <1>5, <1>14, <3>1, <3>2 DEF OldPart
  <2>2. QED
    BY <2>1
<1>16. right => /\ os \in Slices(g) /\ oc \in Slices(g) /\ d \in Slices(g)
                /\ Roots(g)[os] = NodeHash(Roots(g)[d], Roots(g)[oc])
                /\ SameSlice(g, os, h, os) <=> Roots(g)[d] = Roots(h)[d] /\ SameSlice(g, oc, h, oc)
  <2>1. ASSUME right
        PROVE  /\ os \in Slices(g) /\ oc \in Slices(g) /\ d \in Slices(g)
               /\ Roots(g)[os] = NodeHash(Roots(g)[d], Roots(g)[oc])
               /\ SameSlice(g, os, h, os) <=> Roots(g)[d] = Roots(h)[d] /\ SameSlice(g, oc, h, oc)
    <3>1. c = RightOf(s) /\ d = LeftOf(s) /\ RightOf(s)[1] < Len(g)
      BY <1>7, <2>1
    <3>2. QED
      BY <1>14, <3>1, OldPartRight
  <2>2. QED
    BY <2>1
<1>17. PICK m1, n1 : /\ m1 = IF right THEN (m - a) - k ELSE m - a
                     /\ n1 = IF right THEN b - k ELSE k
  OBVIOUS
<1>18. m1 = Len(g) - c[1] /\ n1 = c[2]
  <2>1. m - (a + k) = (m - a) - k
    BY <1>4
  <2>2. QED
    BY <1>4, <1>5, <1>17, <2>1
<1>19. ASSUME NEW pf \in Seq(Hash), pf # <<>>, NEW q, q = walkConsistency(pf, m - a, b)
       PROVE  WalkedTo(q, g, h, path, s, pf)
  <2>1. CASE Len(pf) = 1
    <3>1. ~ q.ok
      BY <1>6, <1>19, <2>1, WalkOfOne
    <3>2. Len(path[s]) # 1
      BY <1>13
    <3>3. QED
      BY <2>1, <3>1, <3>2 DEF WalkedTo
  <2>2. CASE Len(pf) # 1
    <3>1. Len(pf) # 0
      BY <1>19
    <3>2. PICK p \in Seq(Hash), x \in Hash : pf = Append(p, x) /\ Len(pf) = Len(p) + 1
      BY <3>1, LastOfProof
    <3>3. Len(p) \in Nat /\ p # <<>>
      <4>1. Len(p) \in Nat
        OBVIOUS
      <4>2. CASE p = <<>>
        <5>1. Len(p) = 0
          BY <4>2
        <5>2. QED
          BY <2>2, <3>2, <5>1
      <4>3. QED
        BY <4>1, <4>2
    <3>4. PICK r : r = walkConsistency(p, m1, n1)
      OBVIOUS
    <3>5. WalkedTo(r, g, h, path, c, p)
      BY <1>18, <3>3, <3>4 DEF SliceProved
    <3>6. q = walkConsistency(Append(p, x), m - a, b)
      BY <1>19, <3>2
    <3>7. k = largestPowerOfTwoLessThan(b)
      BY <1>4, <1>5
    <3>8. Extended(q, r, x, right)
      BY <1>6, <1>17, <3>3, <3>4, <3>6, <3>7, WalkOfTree
    <3>9. /\ q.ok <=> r.ok
          /\ r.ok => /\ r.old \in Hash /\ r.new \in Hash
                     /\ q.old = IF right THEN NodeHash(x, r.old) ELSE r.old
                     /\ q.new = IF right THEN NodeHash(x, r.new) ELSE NodeHash(r.new, x)
      BY <3>8 DEF Extended
    <3>10. q.ok <=> Len(pf) = Len(path[s])
      BY <1>11, <1>13, <3>2, <3>3, <3>5, <3>9 DEF WalkedTo
    <3>11. pf = path[s] <=> p = pc /\ x = sib
      BY <1>12, <3>2, AppendEqual
    <3>12. r.ok => (r.old = Roots(g)[oc] /\ r.new = rc <=> p = pc /\ SameSlice(g, oc, h, oc))
      BY <1>8, <1>11, <1>14, <3>5 DEF WalkedTo
    <3>13. ASSUME r.ok
           PROVE  q.old = Roots(g)[os] /\ q.new = rs <=> pf = path[s] /\ SameSlice(g, os, h, os)
      <4>1. PICK ro, rn \in Hash : ro = r.old /\ rn = r.new
        BY <3>9, <3>13
      <4>2. CASE right
        <5>1. PICK gd, gc \in Hash : gd = Roots(g)[d] /\ gc = Roots(g)[oc]
          BY <1>16, <4>2, RootsDef
        <5>2. q.old = NodeHash(x, ro) /\ q.new = NodeHash(x, rn)
          BY <3>9, <3>13, <4>1, <4>2
        <5>3. Roots(g)[os] = NodeHash(gd, gc) /\ rs = NodeHash(sib, rc)
          BY <1>9, <1>16, <4>2, <5>1
        <5>4. q.old = Roots(g)[os] <=> x = gd /\ ro = gc
          BY <5>2, <5>3, NodeHashInjective
        <5>5. q.new = rs <=> x = sib /\ rn = rc
          BY <5>2, <5>3, NodeHashInjective
        <5>6. SameSlice(g, os, h, os) <=> gd = sib /\ SameSlice(g, oc, h, oc)
          BY <1>8, <1>16, <4>2, <5>1
        <5>7. ro = gc /\ rn = rc <=> p = pc /\ SameSlice(g, oc, h, oc)
          BY <3>12, <3>13, <4>1, <5>1
        <5>8. QED
          BY <3>11, <5>4, <5>5, <5>6, <5>7
      <4>3. CASE ~ right
        <5>1. q.old = ro /\ q.new = NodeHash(rn, x)
          BY <3>9, <3>13, <4>1, <4>3
        <5>2. rs = NodeHash(rc, sib)
          BY <1>9, <4>3
        <5>3. q.new = rs <=> rn = rc /\ x = sib
          BY <5>1, <5>2, NodeHashInjective
        <5>4. ro = Roots(g)[os] /\ rn = rc <=> p = pc /\ SameSlice(g, os, h, os)
          BY <1>15, <3>12, <3>13, <4>1, <4>3
        <5>5. QED
          BY <3>11, <5>1, <5>3, <5>4
      <4>4. QED
        BY <4>2, <4>3
    <3>14. QED
      BY <1>8, <1>14, <3>9, <3>10, <3>13 DEF WalkedTo
  <2>3. QED
    BY <2>1, <2>2
<1>20. ASSUME NEW pf \in Seq(Hash), pf # <<>>
       PROVE  WalkedTo(walkConsistency(pf, Len(g) - s[1], s[2]), g, h, path, s, pf)
  BY <1>5, <1>19, <1>20
<1>21. QED
  BY <1>13, <1>20 DEF SliceProved

\* The verifier's walk over the path of subProof, down to the leaves.
LEMMA SlicesProved ==
    ASSUME NEW g \in Seq(Hash), NEW h \in Seq(Hash), NEW path, SubProofIs(path, h, Len(g), FALSE),
           NEW s \in OldSlices(h, Len(g)), Len(g) < s[1] + s[2] \/ \E e \in Nat : s[2] = pow2[e]
    PROVE  SliceProved(g, h, path, s)
<1> DEFINE Due(x) == Len(g) < x[1] + x[2] \/ \E e \in Nat : x[2] = pow2[e]
           Bad == {l \in Nat : \E x \in OldSlices(h, Len(g)) :
                      x[2] = l /\ Due(x) /\ ~ SliceProved(g, h, path, x)}
<1>1. Len(h) \in Nat /\ Len(g) \in Nat
  OBVIOUS
<1>2. \A x \in OldSlices(h, Len(g)) : x \in Slices(h) /\ x[1] \in Nat /\ x[2] \in Nat \ {0}
  BY <1>1, SliceParts DEF OldSlices
<1>3. ASSUME Bad # {} PROVE FALSE
  <2>1. PICK l \in Bad : \A j \in Nat : j < l => j \notin Bad
    BY <1>3, LeastNumber
  <2>2. PICK x \in OldSlices(h, Len(g)) : x[2] = l /\ Due(x) /\ ~ SliceProved(g, h, path, x)
    BY <2>1
  <2>3. Len(g) <= x[1] + x[2] /\ x[1] < Len(g)
    BY DEF OldSlices
  <2>4. CASE Len(g) = x[1] + x[2]
    <3>1. PICK e \in Nat : x[2] = pow2[e]
      BY <1>1, <1>2, <2>2, <2>4
    <3>2. QED
      BY <2>2, <2>4, <3>1, FullProved
  <2>5. CASE Len(g) # x[1] + x[2]
    <3>1. Len(g) < x[1] + x[2]
      BY <1>1, <1>2, <2>3, <2>5
    <3>2. /\ x[2] # 1 /\ RightOf(x)[1] \in Nat
          /\ Len(g) <= RightOf(x)[1] => LeftOf(x) \in OldSlices(h, Len(g)) /\ LeftOf(x)[2] < x[2]
          /\ ~ (Len(g) <= RightOf(x)[1]) => RightOf(x) \in OldSlices(h, Len(g)) /\ RightOf(x)[2] < x[2]
      BY <1>1, <2>5, PartOfOldSlice
    <3>3. PICK right \in BOOLEAN : right <=> RightOf(x)[1] < Len(g)
      OBVIOUS
    <3>4. PICK c : c = IF right THEN RightOf(x) ELSE LeftOf(x)
      OBVIOUS
    <3>5. c \in OldSlices(h, Len(g)) /\ c[2] < x[2]
      BY <1>1, <3>2, <3>3, <3>4
    <3>6. Due(c)
      <4>1. CASE right
        <5>1. c[1] + c[2] = x[1] + x[2]
          <6>1. /\ LeftOf(x)[2] \in 1 .. x[2] - 1
                /\ RightOf(x)[1] = x[1] + LeftOf(x)[2] /\ RightOf(x)[2] = x[2] - LeftOf(x)[2]
            BY <1>1, <1>2, <3>2, PartsOfSlice
          <6>2. PICK u, v, w \in Nat : u = x[1] /\ v = x[2] /\ w = LeftOf(x)[2]
            BY <1>2, <6>1
          <6>3. (u + w) + (v - w) = u + v
            OBVIOUS
          <6>4. QED
            BY <3>4, <4>1, <6>1, <6>2, <6>3
        <5>2. QED
          BY <3>1, <5>1
      <4>2. CASE ~ right
        <5>1. c[2] = largestPowerOfTwoLessThan(x[2])
          BY <1>1, <1>2, <3>2, <3>4, <4>2, PartsOfSlice
        <5>2. x[2] \in Nat /\ x[2] >= 2
          BY <1>2, <3>2
        <5>3. QED
          BY <5>1, <5>2, SplitPoint
      <4>3. QED
        BY <4>1, <4>2
    <3>7. SliceProved(g, h, path, c)
      BY <1>2, <2>1, <2>2, <3>5, <3>6
    <3>8. QED
      BY <2>2, <3>1, <3>3, <3>4, <3>7, PartProved
  <2>6. QED
    BY <2>4, <2>5
<1>4. QED
  BY <1>2, <1>3

-----------------------------------------------------------------------------
(* The proof that leaves out the root that the verifier has.                *)

Known(h, m, s) == IF s[1] = 0 /\ isPowerOfTwo(m) THEN << Roots(h)[<<0, m>>] >> ELSE <<>>

\* The slices at which the paths with and without the old root may differ.
RootIsDue(m, s) == s[1] # 0 \/ m < s[2] \/ isPowerOfTwo(m)

OnlyRootDiffers(h, m, s, path, short) == path[s] = Known(h, m, s) \o short[s]

\* Appending to a list that follows another one.
LEMMA AppendConcat ==
    ASSUME NEW l \in Seq(Hash), NEW p \in Seq(Hash), NEW x \in Hash
    PROVE  Append(l \o p, x) = l \o Append(p, x)
<1>1. PICK lp : lp = l \o p
  OBVIOUS
<1>2. /\ lp \in Seq(Hash) /\ Len(lp) = Len(l) + Len(p)
      /\ \A j \in 1 .. Len(l) + Len(p) : lp[j] = IF j <= Len(l) THEN l[j] ELSE p[j - Len(l)]
  BY <1>1, ConcatProperties
<1>3. PICK px : px = Append(p, x)
  OBVIOUS
<1>4. /\ px \in Seq(Hash) /\ Len(px) = Len(p) + 1
      /\ px[Len(p) + 1] = x /\ \A j \in 1 .. Len(p) : px[j] = p[j]
  BY <1>3, AppendProperties
<1>5. PICK a : a = Append(lp, x)
  OBVIOUS
<1>6. /\ a \in Seq(Hash) /\ Len(a) = Len(lp) + 1
      /\ a[Len(lp) + 1] = x /\ \A j \in 1 .. Len(lp) : a[j] = lp[j]
  <2>1. lp \in Seq(Hash)
    BY <1>2
  <2>2. QED
    BY <1>5, <2>1, AppendProperties
<1>7. PICK b : b = l \o px
  OBVIOUS
<1>8. /\ b \in Seq(Hash) /\ Len(b) = Len(l) + Len(px)
      /\ \A j \in 1 .. Len(l) + Len(px) : b[j] = IF j <= Len(l) THEN l[j] ELSE px[j - Len(l)]
  <2>1. px \in Seq(Hash)
    BY <1>4
  <2>2. QED
    BY <1>7, <2>1, ConcatProperties
<1>9. PICK u, v \in Nat : u = Len(l) /\ v = Len(p)
  OBVIOUS
<1>10. Len(a) = u + v + 1 /\ Len(b) = u + v + 1
  BY <1>2, <1>4, <1>6, <1>8, <1>9
<1>11. ASSUME NEW j \in 1 .. u + v + 1 PROVE a[j] = b[j]
  <2>1. CASE j = u + v + 1
    <3>1. a[j] = x
      BY <1>2, <1>6, <1>9, <2>1
    <3>2. j - u = v + 1 /\ ~ (j <= u) /\ j \in 1 .. u + (v + 1)
      BY <2>1
    <3>3. b[j] = px[v + 1]
      BY <1>4, <1>8, <1>9, <3>2
    <3>4. QED
      BY <1>4, <1>9, <3>1, <3>3
  <2>2. CASE j # u + v + 1
    <3>1. j \in 1 .. u + v /\ j \in 1 .. u + (v + 1)
      BY <2>2
    <3>2. a[j] = lp[j]
      BY <1>2, <1>6, <1>9, <3>1
    <3>3. lp[j] = IF j <= u THEN l[j] ELSE p[j - u]
      BY <1>2, <1>9, <3>1
    <3>4. b[j] = IF j <= u THEN l[j] ELSE px[j - u]
      BY <1>4, <1>8, <1>9, <3>1
    <3>5. ~ (j <= u) => j - u \in 1 .. v
      BY <3>1
    <3>6. ~ (j <= u) => px[j - u] = p[j - u]
      BY <1>4, <1>9, <3>5
    <3>7. QED
      BY <3>2, <3>3, <3>4, <3>6
  <2>3. QED
    BY <2>1, <2>2
<1>12. a = b
  BY <1>6, <1>8, <1>10, <1>11, SeqEqual
<1>13. QED
  BY <1>1, <1>3, <1>5, <1>7, <1>12

\* The proof of subProof without the old root is the one with it, less that root.
LEMMA RootLeftOut ==
    ASSUME NEW h \in Seq(Hash), NEW m \in Nat \ {0}, NEW short, SubProofIs(short, h, m, TRUE),
           NEW path, SubProofIs(path, h, m, FALSE),
           NEW s \in OldSlices(h, m), RootIsDue(m, s)
    PROVE  OnlyRootDiffers(h, m, s, path, short)
<1> DEFINE Bad == {l \in Nat : \E x \in OldSlices(h, m) :
                      x[2] = l /\ RootIsDue(m, x) /\ path[x] # Known(h, m, x) \o short[x]}
<1>1. Len(h) \in Nat
  OBVIOUS
<1>2. \A x \in OldSlices(h, m) : /\ x \in Slices(h) /\ x[1] \in Nat /\ x[2] \in Nat \ {0}
                                 /\ x = <<x[1], x[2]>> /\ x[1] < m /\ m <= x[1] + x[2]
  BY <1>1, SliceParts DEF OldSlices
<1>3. \A x \in OldSlices(h, m) :
          /\ short[x] \in Seq(Hash)
          /\ short[x] = IF m = x[1] + x[2] THEN IF x[1] = 0 THEN <<>> ELSE << Roots(h)[x] >>
                ELSE IF m <= RightOf(x)[1] THEN Append(short[LeftOf(x)], Roots(h)[RightOf(x)])
                ELSE Append(short[RightOf(x)], Roots(h)[LeftOf(x)])
  BY DEF SubProofIs
<1>4. \A x \in OldSlices(h, m) : path[x] =
                IF m = x[1] + x[2] THEN << Roots(h)[x] >>
                ELSE IF m <= RightOf(x)[1] THEN Append(path[LeftOf(x)], Roots(h)[RightOf(x)])
                ELSE Append(path[RightOf(x)], Roots(h)[LeftOf(x)])
  BY DEF SubProofIs
<1>5. ASSUME Bad # {} PROVE FALSE
  <2>1. PICK l \in Bad : \A j \in Nat : j < l => j \notin Bad
    BY <1>5, LeastNumber
  <2>2. PICK x \in OldSlices(h, m) : x[2] = l /\ RootIsDue(m, x) /\ path[x] # Known(h, m, x) \o short[x]
    BY <2>1
  <2>3. CASE m = x[1] + x[2]
    <3>1. PICK y \in Hash : y = Roots(h)[x] /\ <<y>> \in Seq(Hash)
      BY <1>2, RootsDef
    <3>2. path[x] = <<y>>
      BY <1>4, <2>3, <3>1
    <3>3. CASE x[1] = 0
      <4>1. isPowerOfTwo(m) /\ x = <<0, m>>
        BY <1>2, <2>2, <2>3, <3>3 DEF RootIsDue
      <4>2. Known(h, m, x) = <<y>> /\ short[x] = <<>>
        BY <1>3, <2>3, <3>1, <3>3, <4>1 DEF Known
      <4>3. QED
        BY <2>2, <3>1, <3>2, <4>2
    <3>4. CASE x[1] # 0
      <4>1. Known(h, m, x) = <<>> /\ short[x] = <<y>>
        BY <1>3, <2>3, <3>1, <3>4 DEF Known
      <4>2. QED
        BY <2>2, <3>1, <3>2, <4>1
    <3>5. QED
      BY <3>3, <3>4
  <2>4. CASE m # x[1] + x[2]
    <3>1. /\ x[2] # 1 /\ RightOf(x)[1] \in Nat
          /\ m <= RightOf(x)[1] => LeftOf(x) \in OldSlices(h, m) /\ LeftOf(x)[2] < x[2]
          /\ ~ (m <= RightOf(x)[1]) => RightOf(x) \in OldSlices(h, m) /\ RightOf(x)[2] < x[2]
      BY <1>1, <2>4, PartOfOldSlice
    <3>2. PICK k \in Nat \ {0} :
          /\ k = largestPowerOfTwoLessThan(x[2]) /\ k < x[2] /\ x[2] <= 2 * k
          /\ LeftOf(x) = <<x[1], k>> /\ LeftOf(x) \in Slices(h)
          /\ RightOf(x) = <<x[1] + k, x[2] - k>> /\ RightOf(x) \in Slices(h)
      BY <1>1, <1>2, <3>1, SliceParts
    <3>3. PICK e \in Nat : k = pow2[e]
      <4>1. x[2] \in Nat /\ x[2] >= 2
        BY <1>2, <3>1
      <4>2. QED
        BY <3>2, <4>1, SplitPoint
    <3>4. PICK left \in BOOLEAN : left <=> m <= RightOf(x)[1]
      OBVIOUS
    <3>5. PICK c, d : c = (IF left THEN LeftOf(x) ELSE RightOf(x)) /\ d = (IF left THEN RightOf(x) ELSE LeftOf(x))
      OBVIOUS
    <3>6. c \in OldSlices(h, m) /\ c[2] < x[2]
      BY <3>1, <3>4, <3>5
    <3>7. Known(h, m, c) = Known(h, m, x) /\ RootIsDue(m, c)
      <4>1. CASE left
        <5>1. c[1] = x[1] /\ c[2] = k /\ m <= x[1] + k
          BY <3>2, <3>4, <3>5, <4>1
        <5>2. x[1] = 0 => m < k \/ isPowerOfTwo(m)
          <6>1. m = k => isPowerOfTwo(m)
            BY <3>3, PowersOfTwo
          <6>2. x[1] = 0 => m <= k
            BY <3>2, <5>1
          <6>3. QED
            BY <3>2, <6>1, <6>2
        <5>3. QED
          BY <5>1, <5>2 DEF Known, RootIsDue
      <4>2. CASE ~ left
        <5>1. c[1] = x[1] + k /\ ~ (m <= x[1] + k)
          BY <3>2, <3>4, <3>5, <4>2
        <5>2. c[1] # 0
          BY <1>2, <3>2, <5>1
        <5>3. x[1] = 0 => ~ isPowerOfTwo(m)
          <6>1. ASSUME x[1] = 0, isPowerOfTwo(m) PROVE FALSE
            <7>1. k < m /\ m < 2 * k
              <8>1. m <= x[1] + x[2] /\ m # x[1] + x[2]
                BY <1>2, <2>4
              <8>2. PICK v \in Nat : v = x[2]
                BY <1>2
              <8>3. m <= v /\ m # v /\ v <= 2 * k
                BY <3>2, <6>1, <8>1, <8>2
              <8>4. ~ (m <= k)
                BY <3>2, <5>1, <6>1
              <8>5. QED
                BY <8>3, <8>4
            <7>2. PICK b \in Nat : m = pow2[b]
              BY <6>1, PowersOfTwo
            <7>3. CASE e < b
              <8>1. 2 * k <= m
                BY <3>3, <7>2, <7>3, pow2Grows
              <8>2. QED
                BY <7>1, <8>1
            <7>4. CASE b < e
              <8>1. 2 * m <= k
                BY <3>3, <7>2, <7>4, pow2Grows
              <8>2. QED
                BY <7>1, <8>1
            <7>5. CASE b = e
              BY <3>3, <7>1, <7>2, <7>5
            <7>6. QED
              BY <7>3, <7>4, <7>5
          <6>2. QED
            BY <6>1
        <5>4. QED
          BY <5>2, <5>3 DEF Known, RootIsDue
      <4>3. QED
        BY <4>1, <4>2
    <3>8. path[c] = Known(h, m, c) \o short[c]
      BY <1>2, <2>1, <2>2, <3>6, <3>7
    <3>9. PICK y \in Hash : y = Roots(h)[d]
      BY <3>2, <3>5, RootsDef
    <3>10. path[x] = Append(path[c], y) /\ short[x] = Append(short[c], y)
      BY <1>3, <1>4, <2>4, <3>4, <3>5, <3>9
    <3>11. PICK p, q \in Seq(Hash) : p = Known(h, m, x) /\ q = short[c]
      <4>1. Known(h, m, x) \in Seq(Hash)
        <5>1. CASE x[1] = 0 /\ isPowerOfTwo(m)
          <6>1. m <= Len(h)
            BY <1>1, <1>2, <5>1, SliceParts
          <6>2. <<0, m>> \in Slices(h)
            BY <1>1, <6>1 DEF Slices
          <6>3. Roots(h)[<<0, m>>] \in Hash
            BY <6>2, RootsDef
          <6>4. QED
            BY <5>1, <6>3 DEF Known
        <5>2. CASE ~ (x[1] = 0 /\ isPowerOfTwo(m))
          BY <5>2 DEF Known
        <5>3. QED
          BY <5>1, <5>2
      <4>2. QED
        BY <1>3, <3>6, <4>1
    <3>12. path[x] = Append(p \o q, y) /\ short[x] = Append(q, y)
      BY <3>7, <3>8, <3>10, <3>11
    <3>13. path[x] = p \o short[x]
      <4>1. Append(p \o q, y) = p \o Append(q, y)
        BY AppendConcat
      <4>2. QED
        BY <3>12, <4>1
    <3>14. QED
      BY <2>2, <3>11, <3>13
  <2>5. QED
    BY <2>3, <2>4
<1>6. s[2] \in Nat
  BY <1>2
<1>7. path[s] = Known(h, m, s) \o short[s]
  BY <1>5, <1>6
<1>8. QED
  BY <1>7 DEF OnlyRootDiffers

-----------------------------------------------------------------------------
(* The verifier of consistency proofs.                                      *)

\* The first elements of a list.
LEMMA TakeType ==
    ASSUME NEW h \in Seq(Hash), NEW m \in 0 .. Len(h)
    PROVE  /\ Take(h, m) \in Seq(Hash) /\ Len(Take(h, m)) = m
           /\ \A j \in 1 .. m : Take(h, m)[j] = h[j]
<1>1. PICK t : t = SubSeq(h, 1, m)
  OBVIOUS
<1>2. m \in Int /\ 1 \in Int /\ Len(h) \in Nat /\ m \in Nat
  OBVIOUS
<1>3. \A j \in 1 .. m : h[j] \in Hash
  BY <1>2
<1>4. /\ t \in Seq(Hash) /\ Len(t) = IF 1 <= m THEN m - 1 + 1 ELSE 0
      /\ \A j \in 1 .. m - 1 + 1 : t[j] = h[1 + j - 1]
  BY <1>1, <1>2, <1>3, SubSeqProperties
<1>5. Len(t) = m /\ \A j \in 1 .. m : t[j] = h[j]
  <2>1. Len(t) = m
    BY <1>2, <1>4
  <2>2. m - 1 + 1 = m /\ \A j \in 1 .. m : 1 + j - 1 = j
    BY <1>2
  <2>3. QED
    BY <1>4, <2>1, <2>2
<1>6. QED
  BY <1>1, <1>4, <1>5 DEF Take

\* VerifyConsistency accepts the root of an old tree if and only if its leaves are the first
\* ones of the new tree, with the proof that ConsistencyProof gives.
LEMMA ConsistencyVerified ==
    ASSUME NEW h \in Seq(Hash), NEW g \in Seq(Hash), NEW pf \in Seq(Hash),
           NEW m \in 1 .. Len(h), Len(g) = m
    PROVE  VerifyConsistency(RootFromLeafHashes(g), RootFromLeafHashes(h), m, Len(h), pf)
               <=> pf = ConsistencyProof(h, m, Len(h)) /\ g = Take(h, m)
<1>1. PICK n0 \in Nat : n0 = Len(h)
  OBVIOUS
<1>2. m \in Nat \ {0} /\ m <= n0 /\ n0 # 0
  BY <1>1
<1>3. h # <<>> /\ g # <<>>
  <2>1. ASSUME NEW q \in Seq(Hash), Len(q) # 0 PROVE q # <<>>
    BY <2>1
  <2>2. QED
    BY <1>1, <1>2, <2>1
<1>4. PICK s, o : s = <<0, n0>> /\ o = <<0, m>>
  OBVIOUS
<1>5. s \in Slices(h) /\ s[1] = 0 /\ s[2] = n0 /\ o \in Slices(h) /\ o \in Slices(g) /\ o[1] = 0 /\ o[2] = m
  BY <1>1, <1>2, <1>4 DEF Slices
<1>6. s \in OldSlices(h, m)
  BY <1>1, <1>2, <1>5 DEF OldSlices
<1>7. PICK old, new, top \in Hash : old = Roots(g)[o] /\ new = Roots(h)[s] /\ top = Roots(h)[o]
  BY <1>5, RootsDef
<1>8. RootFromLeafHashes(g) = old /\ RootFromLeafHashes(h) = new
  BY <1>1, <1>3, <1>4, <1>7 DEF RootFromLeafHashes, rootOfHashes
<1>9. PICK t \in Seq(Hash) : t = Take(h, m) /\ Len(t) = m /\ \A j \in 1 .. m : t[j] = h[j]
  <2>1. m \in 0 .. Len(h)
    BY <1>1, <1>2
  <2>2. QED
    BY <2>1, TakeType
<1>10. SameSlice(g, o, h, o) <=> g = t
  <2>1. \A j \in 1 .. m : 0 + j = j
    BY <1>2
  <2>2. SameSlice(g, o, h, o) <=> \A j \in 1 .. m : g[j] = h[j]
    BY <1>5, <2>1 DEF SameSlice
  <2>3. (\A j \in 1 .. m : g[j] = t[j]) => g = t
    BY <1>9, SeqEqual
  <2>4. QED
    BY <1>9, <2>2, <2>3
<1>11. old = top <=> g = t
  BY <1>5, <1>7, <1>10, RootsCommit
<1>12. PICK short : SubProofIs(short, h, m, TRUE) /\ \A k : subProof(h, m, k, TRUE) = short[<<0, k>>]
  <2>1. m \in Nat /\ TRUE \in BOOLEAN
    BY <1>2
  <2>2. QED
    BY <2>1, SubProofDef
<1>13. ConsistencyProof(h, m, n0) = short[s] /\ short[s] \in Seq(Hash)
  BY <1>4, <1>6, <1>12 DEF ConsistencyProof, SubProofIs
<1>14. PICK path : SubProofIs(path, h, m, FALSE)
  <2>1. m \in Nat /\ FALSE \in BOOLEAN
    BY <1>2
  <2>2. QED
    BY <2>1, SubProofDef
<1>15. PICK cp \in Seq(Hash) : cp = short[s]
  BY <1>13
<1>16. CASE m = n0
  <2>1. o = s /\ top = new
    BY <1>4, <1>7, <1>16
  <2>2. cp = <<>>
    BY <1>5, <1>6, <1>12, <1>15, <1>16 DEF SubProofIs
  <2>3. VerifyConsistency(old, new, m, n0, pf) <=> pf = <<>> /\ old = new
    BY <1>16 DEF VerifyConsistency
  <2>4. QED
    BY <1>1, <1>8, <1>9, <1>11, <1>13, <1>15, <2>1, <2>2, <2>3
<1>17. CASE m # n0
  <2>1. m < n0
    BY <1>2, <1>17
  <2>2. path[s] = Known(h, m, s) \o cp
    <3>1. RootIsDue(m, s)
      BY <1>5, <2>1 DEF RootIsDue
    <3>2. m \in Nat \ {0} /\ SubProofIs(short, h, m, TRUE)
      BY <1>2, <1>12
    <3>3. OnlyRootDiffers(h, m, s, path, short)
      BY <1>6, <1>14, <3>1, <3>2, RootLeftOut
    <3>4. QED
      BY <1>15, <3>3 DEF OnlyRootDiffers
  <2>3. SliceProved(g, h, path, s)
    <3>1. Len(g) < s[1] + s[2]
      BY <1>5, <2>1
    <3>2. QED
      BY <1>6, <1>14, <3>1, SlicesProved
  <2>4. OldPart(g, s) = o /\ Len(g) - s[1] = m /\ s[2] = n0
    <3>1. m - 0 = m
      BY <1>2
    <3>2. QED
      BY <1>4, <1>5, <3>1 DEF OldPart
  <2>5. PICK p \in Seq(Hash) : p = (IF isPowerOfTwo(m) THEN <<old>> \o pf ELSE pf)
    <3>1. <<old>> \in Seq(Hash)
      OBVIOUS
    <3>2. <<old>> \o pf \in Seq(Hash)
      BY <3>1, ConcatProperties
    <3>3. QED
      BY <3>2
  <2>6. PICK fp \in Seq(Hash) : fp = path[s] /\ fp # <<>>
    BY <1>6, <1>14, <2>3 DEF SliceProved, SubProofIs
  <2>7. PICK r : r = walkConsistency(p, m, n0)
    OBVIOUS
  <2>8. VerifyConsistency(old, new, m, n0, pf) <=> p # <<>> /\ r.ok /\ r.old = old /\ r.new = new
    BY <1>2, <1>17, <2>1, <2>5, <2>7 DEF VerifyConsistency, OldRootMatches
  <2>9. p # <<>> => WalkedTo(r, g, h, path, s, p)
    BY <2>3, <2>4, <2>7 DEF SliceProved
  <2>10. p # <<>> => (r.ok <=> Len(p) = Len(fp))
    BY <2>6, <2>9 DEF WalkedTo
  <2>11. p # <<>> /\ r.ok => (r.old = old /\ r.new = new <=> p = fp /\ g = t)
    BY <1>7, <1>10, <2>4, <2>6, <2>9 DEF WalkedTo
  <2>12. VerifyConsistency(old, new, m, n0, pf) <=> p = fp /\ g = t
    BY <2>6, <2>8, <2>10, <2>11
  <2>13. p = fp /\ g = t <=> pf = cp /\ g = t
    <3>1. CASE isPowerOfTwo(m)
      <4>1. p = <<old>> \o pf /\ fp = <<top>> \o cp
        BY <1>4, <1>5, <1>7, <2>2, <2>5, <2>6, <3>1 DEF Known
      <4>2. ASSUME <<old>> \o pf = <<old>> \o cp PROVE pf = cp
        <5>1. PICK a, b : a = <<old>> \o pf /\ b = <<old>> \o cp
          OBVIOUS
        <5>2. <<old>> \in Seq(Hash) /\ Len(<<old>>) = 1
          OBVIOUS
        <5>3. /\ Len(a) = 1 + Len(pf)
              /\ \A j \in 1 .. 1 + Len(pf) : a[j] = IF j <= 1 THEN <<old>>[j] ELSE pf[j - 1]
          BY <5>1, <5>2, ConcatProperties
        <5>4. /\ Len(b) = 1 + Len(cp)
              /\ \A j \in 1 .. 1 + Len(cp) : b[j] = IF j <= 1 THEN <<old>>[j] ELSE cp[j - 1]
          BY <5>1, <5>2, ConcatProperties
        <5>5. a = b /\ Len(pf) \in Nat /\ Len(cp) \in Nat
          BY <4>2, <5>1
        <5>6. Len(pf) = Len(cp)
          BY <5>3, <5>4, <5>5
        <5>7. ASSUME NEW j \in 1 .. Len(pf) PROVE pf[j] = cp[j]
          <6>1. j + 1 \in 1 .. 1 + Len(pf) /\ ~ (j + 1 <= 1) /\ (j + 1) - 1 = j
            BY <5>5
          <6>2. a[j + 1] = pf[j] /\ b[j + 1] = cp[j]
            BY <5>3, <5>4, <5>6, <6>1
          <6>3. QED
            BY <5>5, <6>2
        <5>8. QED
          BY <5>6, <5>7, SeqEqual
      <4>3. g = t => <<old>> = <<top>>
        BY <1>11
      <4>4. QED
        BY <4>1, <4>2, <4>3
    <3>2. CASE ~ isPowerOfTwo(m)
      <4>1. p = pf /\ fp = <<>> \o cp
        BY <2>2, <2>5, <2>6, <3>2 DEF Known
      <4>2. fp = cp
        BY <4>1
      <4>3. QED
        BY <4>1, <4>2
    <3>3. QED
      BY <3>1, <3>2
  <2>14. QED
    BY <1>1, <1>8, <1>9, <1>13, <1>15, <2>12, <2>13
<1>18. QED
  BY <1>16, <1>17

-----------------------------------------------------------------------------
(* What a client that asks for a single proof has.                          *)

SizeType == n \in 1 .. MaxLeaves

ProofInv ==
    /\ SizeType
    /\ proof \in Seq(Hash)
    /\ ask.kind = "inclusion" =>
          /\ ask.at \in 0 .. n - 1
          /\ ~ altered => proof = inclusionProof(ServerLog, ask.at)
    /\ ask.kind = "consistency" =>
          /\ ask.at \in 1 .. n
          /\ ~ altered => proof = ConsistencyProof(ServerLog, ask.at, n)

\* The logs of the server and of the client are lists of hashes.
LEMMA LogsType ==
    ASSUME SizeType
    PROVE  /\ ServerLog \in Seq(Hash) /\ Len(ServerLog) = n
           /\ TrueLog \in Seq(Hash) /\ Len(TrueLog) = n
           /\ n \in Nat \ {0}
<1>1. n \in Nat \ {0} /\ \A j \in 1 .. n : j \in Int /\ Forged(j) \in Int
  BY MaxLeavesAssumption DEF SizeType, Forged
<1>2. \A j \in 1 .. n : LeafHash(IF j \in fork THEN Forged(j) ELSE j) \in Hash /\ LeafHash(j) \in Hash
  BY <1>1, HashTypes
<1>3. QED
  BY <1>1, <1>2 DEF ServerLog, TrueLog

\* A root is a hash.
LEMMA RootType ==
    ASSUME NEW h \in Seq(Hash)
    PROVE  RootFromLeafHashes(h) \in Hash
<1>1. CASE h = <<>>
  BY <1>1, HashTypes DEF RootFromLeafHashes
<1>2. CASE h # <<>>
  <2>1. Len(h) \in Nat \ {0}
    BY <1>2
  <2>2. <<0, Len(h)>> \in Slices(h)
    BY <2>1 DEF Slices
  <2>3. QED
    BY <1>2, <2>2, RootsDef DEF RootFromLeafHashes, rootOfHashes
<1>3. QED
  BY <1>1, <1>2

\* An inclusion proof is a list of hashes.
LEMMA InclusionProofType ==
    ASSUME NEW h \in Seq(Hash), h # <<>>, NEW i \in Nat
    PROVE  inclusionProof(h, i) \in Seq(Hash)
<1>1. Len(h) \in Nat \ {0}
  OBVIOUS
<1>2. <<0, Len(h)>> \in Slices(h)
  BY <1>1 DEF Slices
<1>3. QED
  BY <1>2, InclusionProofDef

\* A consistency proof is a list of hashes.
LEMMA ConsistencyProofType ==
    ASSUME NEW h \in Seq(Hash), NEW n0 \in 1 .. Len(h), NEW m \in 1 .. n0
    PROVE  ConsistencyProof(h, m, n0) \in Seq(Hash)
<1>1. Len(h) \in Nat
  OBVIOUS
<1>2. <<0, n0>> \in OldSlices(h, m)
  BY <1>1 DEF OldSlices, Slices
<1>3. m \in Nat /\ TRUE \in BOOLEAN
  BY <1>1
<1>4. PICK path : /\ SubProofIs(path, h, m, TRUE)
                  /\ \A k : subProof(h, m, k, TRUE) = path[<<0, k>>]
  BY <1>3, SubProofDef
<1>5. path[<<0, n0>>] \in Seq(Hash)
  BY <1>2, <1>4 DEF SubProofIs
<1>6. QED
  BY <1>4, <1>5 DEF ConsistencyProof

\* So is an answer that was altered.
LEMMA AlteredType ==
    ASSUME SizeType, proof \in Seq(Hash), NEW p \in Altered
    PROVE  p \in Seq(Hash)
<1>1. DOMAIN proof = 1 .. Len(proof) /\ Len(proof) \in Nat
  OBVIOUS
<1>2. \A j \in DOMAIN proof : proof[j] \in Hash
  OBVIOUS
<1>3. \A x \in Hashes : x \in Hash
  <2>1. Foreign \in Hash
    BY HashTypes DEF Foreign
  <2>2. ServerLog \in Seq(Hash) /\ \A j \in 1 .. n : ServerLog[j] \in Hash
    BY LogsType
  <2>3. RootFromLeafHashes(ServerLog) \in Hash
    BY <2>2, RootType
  <2>4. QED
    BY <1>2, <2>1, <2>2, <2>3 DEF Hashes
<1>4. ASSUME NEW j \in 0 .. Len(proof)
      PROVE  SubSeq(proof, 1, j) \in Seq(Hash) /\ SubSeq(proof, j + 1, Len(proof)) \in Seq(Hash)
  <2>1. \A k \in 1 .. j : proof[k] \in Hash
    BY <1>1, <1>2
  <2>2. \A k \in j + 1 .. Len(proof) : proof[k] \in Hash
    BY <1>1, <1>2
  <2>3. j \in Int /\ j + 1 \in Int /\ Len(proof) \in Int /\ 1 \in Int
    BY <1>1
  <2>4. QED
    BY <2>1, <2>2, <2>3, SubSeqProperties
<1>5. \A j \in DOMAIN proof : Cut(j) \in Seq(Hash)
  <2>1. TAKE j \in DOMAIN proof
  <2>2. j - 1 \in 0 .. Len(proof) /\ (j - 1) + 1 = j /\ j \in 0 .. Len(proof)
    BY <1>1
  <2>3. PICK a, b \in Seq(Hash) : a = SubSeq(proof, 1, j - 1) /\ b = SubSeq(proof, j + 1, Len(proof))
    BY <1>4, <2>2
  <2>4. QED
    BY <2>3 DEF Cut
<1>6. \A j \in DOMAIN proof, x \in Hashes : Replaced(j, x) \in Seq(Hash)
  BY <1>3 DEF Replaced
<1>7. \A j \in 0 .. Len(proof), x \in Hashes : Inserted(j, x) \in Seq(Hash)
  <2>1. TAKE j \in 0 .. Len(proof), x \in Hashes
  <2>2. PICK a, b \in Seq(Hash) : a = SubSeq(proof, 1, j) /\ b = SubSeq(proof, j + 1, Len(proof))
    BY <1>4
  <2>3. PICK c \in Seq(Hash) : c = <<x>>
    <3>1. x \in Hash
      BY <1>3
    <3>2. <<x>> \in Seq(Hash)
      BY <3>1
    <3>3. QED
      BY <3>2
  <2>4. QED
    BY <2>2, <2>3 DEF Inserted
<1>8. QED
  BY <1>5, <1>6, <1>7 DEF Altered

\* The invariant holds before anything was asked.
LEMMA InitProofInv == Init => ProofInv
BY MaxLeavesAssumption DEF Init, ProofInv, SizeType

\* Every step keeps the invariant: an answer that is not altered is the one of the log.
LEMMA NextProofInv == ProofInv /\ [Next]_vars => ProofInv'
<1> SUFFICES ASSUME ProofInv, [Next]_vars PROVE ProofInv'
  OBVIOUS
<1>1. SizeType /\ proof \in Seq(Hash) /\ ServerLog \in Seq(Hash) /\ Len(ServerLog) = n /\ n \in Nat \ {0}
  BY LogsType DEF ProofInv
<1>2. CASE Grow
  BY <1>1, <1>2, MaxLeavesAssumption DEF Grow, ProofInv, SizeType
<1>3. CASE \E j \in 1 .. n : Fork(j)
  BY <1>1, <1>3 DEF Fork, ProofInv, SizeType
<1>4. CASE \E i \in 0 .. n - 1 : AskInclusion(i)
  <2>1. PICK i \in 0 .. n - 1 : AskInclusion(i)
    BY <1>4
  <2>2. ServerLog # <<>> /\ i \in Nat
    BY <1>1
  <2>3. inclusionProof(ServerLog, i) \in Seq(Hash)
    BY <1>1, <2>2, InclusionProofType
  <2>4. n' = n /\ fork' = fork /\ proof' = inclusionProof(ServerLog, i) /\ ask' = [kind |-> "inclusion", at |-> i]
    BY <2>1 DEF AskInclusion
  <2>5. ServerLog' = ServerLog
    BY <2>4 DEF ServerLog
  <2>6. QED
    BY <1>1, <2>3, <2>4, <2>5 DEF ProofInv, SizeType
<1>5. CASE \E m \in 1 .. n : AskConsistency(m)
  <2>1. PICK m \in 1 .. n : AskConsistency(m)
    BY <1>5
  <2>2. ConsistencyProof(ServerLog, m, n) \in Seq(Hash)
    <3>1. n \in 1 .. Len(ServerLog)
      BY <1>1
    <3>2. QED
      BY <1>1, <3>1, ConsistencyProofType
  <2>3. /\ n' = n /\ fork' = fork /\ proof' = ConsistencyProof(ServerLog, m, n)
        /\ ask' = [kind |-> "consistency", at |-> m]
    BY <2>1 DEF AskConsistency
  <2>4. ServerLog' = ServerLog
    BY <2>3 DEF ServerLog
  <2>5. QED
    BY <1>1, <2>2, <2>3, <2>4 DEF ProofInv, SizeType
<1>6. CASE Alter
  <2>1. proof' \in Altered /\ altered' /\ n' = n /\ fork' = fork /\ ask' = ask
    BY <1>6 DEF Alter
  <2>2. proof' \in Seq(Hash)
    BY <1>1, <2>1, AlteredType
  <2>3. QED
    BY <2>1, <2>2 DEF ProofInv, SizeType
<1>7. CASE UNCHANGED vars
  <2>1. ServerLog' = ServerLog
    BY <1>7 DEF vars, ServerLog
  <2>2. QED
    BY <1>7, <2>1 DEF vars, ProofInv, SizeType
<1>8. QED
  BY <1>2, <1>3, <1>4, <1>5, <1>6, <1>7 DEF Next

\* The server's inclusion proofs are accepted.
LEMMA ProofInvComplete == ProofInv => InclusionComplete
<1> SUFFICES ASSUME ProofInv, ask.kind = "inclusion", ~ altered
             PROVE  VerifyInclusion(RootFromLeafHashes(ServerLog), ServerLog[ask.at + 1], ask.at, n, proof)
  BY DEF InclusionComplete
<1>1. /\ ServerLog \in Seq(Hash) /\ Len(ServerLog) = n /\ n \in Nat \ {0}
      /\ ask.at \in 0 .. n - 1 /\ proof = inclusionProof(ServerLog, ask.at) /\ proof \in Seq(Hash)
  BY LogsType DEF ProofInv
<1>2. PICK h \in Seq(Hash), i \in 0 .. n - 1 : h = ServerLog /\ i = ask.at
  BY <1>1
<1>3. i \in 0 .. Len(h) - 1 /\ h[i + 1] \in Hash
  BY <1>1, <1>2
<1>4. VerifyInclusion(RootFromLeafHashes(h), h[i + 1], i, Len(h), proof)
  BY <1>1, <1>2, <1>3, InclusionVerified
<1>5. QED
  BY <1>1, <1>2, <1>4

\* No other inclusion proof is.
LEMMA ProofInvSound == ProofInv => InclusionSound
<1> SUFFICES ASSUME ProofInv, ask.kind = "inclusion",
                    NEW i \in 0 .. n - 1,
                    NEW x \in {ServerLog[j] : j \in 1 .. n} \cup {Foreign},
                    VerifyInclusion(RootFromLeafHashes(ServerLog), x, i, n, proof)
             PROVE  x = ServerLog[i + 1] /\ proof = inclusionProof(ServerLog, i)
  BY DEF InclusionSound
<1>1. ServerLog \in Seq(Hash) /\ Len(ServerLog) = n /\ n \in Nat \ {0} /\ proof \in Seq(Hash)
  BY LogsType DEF ProofInv
<1>2. x \in Hash
  <2>1. Foreign \in Hash
    BY HashTypes DEF Foreign
  <2>2. \A j \in 1 .. n : ServerLog[j] \in Hash
    BY <1>1
  <2>3. QED
    BY <2>1, <2>2
<1>3. i \in 0 .. Len(ServerLog) - 1
  BY <1>1
<1>4. QED
  BY <1>1, <1>2, <1>3, InclusionVerified

\* VerifyInclusion accepts the server's proof for each of its leaves, in a tree of any
\* size.
THEOREM InclusionProofsAccepted == Spec => []InclusionComplete
BY InitProofInv, NextProofInv, ProofInvComplete, PTL DEF Spec

\* Whatever answer the client receives, VerifyInclusion accepts only the leaf of the tree
\* and the path of inclusionProof, in a tree of any size.
THEOREM InclusionProofsBind == Spec => []InclusionSound
BY InitProofInv, NextProofInv, ProofInvSound, PTL DEF Spec

\* The server's consistency proofs are accepted.
LEMMA ProofInvConsistencyComplete == ProofInv => ConsistencyComplete
<1> SUFFICES ASSUME ProofInv, ask.kind = "consistency", ~ altered
             PROVE  VerifyConsistency(RootFromLeafHashes(Take(ServerLog, ask.at)),
                                      RootFromLeafHashes(ServerLog), ask.at, n, proof)
  BY DEF ConsistencyComplete
<1>1. /\ ServerLog \in Seq(Hash) /\ Len(ServerLog) = n /\ n \in Nat \ {0}
      /\ ask.at \in 1 .. n /\ proof = ConsistencyProof(ServerLog, ask.at, n) /\ proof \in Seq(Hash)
  BY LogsType DEF ProofInv
<1>2. PICK h, pf \in Seq(Hash), m \in 1 .. n : h = ServerLog /\ m = ask.at /\ pf = proof
  BY <1>1
<1>3. m \in 0 .. Len(h) /\ m \in 1 .. Len(h)
  BY <1>1, <1>2
<1>4. PICK g \in Seq(Hash) : g = Take(h, m) /\ Len(g) = m
  BY <1>3, TakeType
<1>5. VerifyConsistency(RootFromLeafHashes(g), RootFromLeafHashes(h), m, Len(h), pf)
  BY <1>1, <1>2, <1>3, <1>4, ConsistencyVerified
<1>6. QED
  BY <1>1, <1>2, <1>4, <1>5

\* No other consistency proof is, and none for other leaves.
LEMMA ProofInvConsistencySound == ProofInv => ConsistencySound
<1> SUFFICES ASSUME ProofInv, ask.kind = "consistency", NEW m \in 1 .. n,
                    VerifyConsistency(RootFromLeafHashes(Take(TrueLog, m)),
                                      RootFromLeafHashes(ServerLog), m, n, proof)
             PROVE  /\ Take(TrueLog, m) = Take(ServerLog, m)
                    /\ proof = ConsistencyProof(ServerLog, m, n)
  BY DEF ConsistencySound
<1>1. /\ ServerLog \in Seq(Hash) /\ Len(ServerLog) = n /\ n \in Nat \ {0}
      /\ TrueLog \in Seq(Hash) /\ Len(TrueLog) = n /\ proof \in Seq(Hash)
  BY LogsType DEF ProofInv
<1>2. PICK h, f, pf \in Seq(Hash) : h = ServerLog /\ f = TrueLog /\ pf = proof /\ Len(h) = n /\ Len(f) = n
  BY <1>1
<1>3. m \in 0 .. Len(f) /\ m \in 1 .. Len(h)
  BY <1>1, <1>2
<1>4. PICK g \in Seq(Hash) : g = Take(f, m) /\ Len(g) = m
  BY <1>3, TakeType
<1>5. VerifyConsistency(RootFromLeafHashes(g), RootFromLeafHashes(h), m, Len(h), pf)
  BY <1>2, <1>4
<1>6. pf = ConsistencyProof(h, m, Len(h)) /\ g = Take(h, m)
  BY <1>3, <1>4, <1>5, ConsistencyVerified
<1>7. QED
  BY <1>2, <1>4, <1>6

\* VerifyConsistency accepts the server's proof that any prefix of its log is one, for
\* trees of any size.
THEOREM ConsistencyProofsAccepted == Spec => []ConsistencyComplete
BY InitProofInv, NextProofInv, ProofInvConsistencyComplete, PTL DEF Spec

\* Whatever answer the client receives, VerifyConsistency accepts a server's log only if
\* the leaves that the client saw are its first ones, and only the proof of subProof: a
\* published leaf cannot be replaced, in a tree of any size.
THEOREM ConsistencyProofsBind == Spec => []ConsistencySound
BY InitProofInv, NextProofInv, ProofInvConsistencySound, PTL DEF Spec

\* The root of the server's log is the last level.
LEMMA SizedLogBottomUp == SizeType => RootIsBottomUp
<1> SUFFICES ASSUME SizeType PROVE RootFromLeafHashes(ServerLog) = BottomUp(ServerLog)
  BY DEF RootIsBottomUp
<1>1. ServerLog \in Seq(Hash) /\ Len(ServerLog) = n /\ n \in Nat \ {0}
  BY LogsType
<1>2. PICK h \in Seq(Hash) : h = ServerLog /\ Len(h) # 0
  BY <1>1
<1>3. h # <<>>
  <2>1. h = <<>> => Len(h) = 0
    OBVIOUS
  <2>2. QED
    BY <1>2, <2>1
<1>4. RootFromLeafHashes(h) = BottomUp(h)
  BY <1>3, BottomUpIsRoot DEF RootFromLeafHashes
<1>5. QED
  BY <1>2, <1>4

\* The recursive split gives the root of the tree that is built level by level.
THEOREM RootsAreBottomUp == Spec => []RootIsBottomUp
<1>1. Init => ProofInv
  BY InitProofInv
<1>2. ProofInv /\ [Next]_vars => ProofInv'
  BY NextProofInv
<1>3. ProofInv => RootIsBottomUp
  BY SizedLogBottomUp DEF ProofInv
<1>4. QED
  BY <1>1, <1>2, <1>3, PTL DEF Spec

-----------------------------------------------------------------------------
(* The rate limiter.                                                        *)

\* What flows into a bucket: linear, and growing with time.
LEMMA Flow ==
    /\ \A x \in Int : Rate * x \in Int
    /\ \A x, y \in Int : Rate * (x - y) = Rate * x - Rate * y
    /\ \A x, y \in Int : Rate * (x + y) = Rate * x + Rate * y
    /\ \A x, y \in Int : x <= y => Rate * x <= Rate * y
<1>1. Rate \in Nat
  BY RateAssumption
<1>2. \A x \in Int : Rate * x \in Int
  BY <1>1
<1>3. \A x, y \in Int : Rate * (x - y) = Rate * x - Rate * y
  BY <1>1
<1>4. \A x, y \in Int : Rate * (x + y) = Rate * x + Rate * y
  BY <1>1
<1>5. \A x, y \in Int : x <= y => Rate * x <= Rate * y
  BY <1>1
<1>6. QED
  BY <1>2, <1>3, <1>4, <1>5

\* Moving two times by the same amounts keeps their order.
LEMMA Shift ==
    /\ \A x, m, z \in Int : x - m - z \in Int
    /\ \A x, y, m, z \in Int : x <= y => x - m - z <= y - m - z
OBVIOUS

-----------------------------------------------------------------------------
(* The invariant.                                                           *)

\* Every variable has its type.  A bucket may hold a negative number of tokens:
\* a request with an earlier time than the one before takes some away.
LimiterTypes ==
    /\ clock \in Times
    /\ buckets \subseteq Clients
    /\ tokens \in [Clients -> Int]
    /\ last \in [Clients -> Times]
    /\ lastTrim \in Times
    /\ client \in [Requests -> Clients \cup {Nobody}]
    /\ at \in [Requests -> Times]
    /\ served \in [Clients -> [Times -> Nat]]

\* A request in progress has read the time recently.
ReadRecently ==
    \A r \in Requests : client[r] # Nobody => at[r] <= clock /\ clock <= at[r] + MaxStall

\* The tokens of c, seen from time 0: refilling a bucket does not change it.
Worth(c) == tokens[c] - Rate * last[c]

\* A bucket is at worst empty, at a time that is not long after its last use.
Solvent ==
    \A c \in buckets : /\ - (Rate * clock) <= Worth(c)
                       /\ - (Rate * (last[c] + MaxStall)) <= Worth(c)

\* What a client was served since s is missing from its bucket.
Spent ==
    \A c \in buckets, s \in Times, t \in Times :
        (s <= t /\ Served(c, s, t) > 0) => Worth(c) + Served(c, s, t) <= Burst - Rate * s

\* What a client without a bucket was served would have flowed in again, even
\* before the earliest time that a request in progress may have read.
Forgotten ==
    \A c \in Clients \ buckets, s \in Times, t \in Times :
        (s <= t /\ Served(c, s, t) > 0) => Served(c, s, t) <= Rate * (clock - MaxStall - s)

LimiterInv ==
    LimiterTypes /\ ReadRecently /\ Solvent /\ Spent /\ Forgotten /\ WithinBudget

-----------------------------------------------------------------------------
\* Times are integers.
LEMMA TimesAreInts == /\ Times \subseteq Int /\ 0 \in Times
                      /\ \A t \in Times : 0 <= t /\ t <= MaxClock
BY TimesAssumption DEF Times

\* The number of served requests is a natural number.
LEMMA ServedType ==
    ASSUME LimiterTypes, NEW c \in Clients, NEW s \in Times, NEW t \in Times
    PROVE  /\ [u \in s .. t |-> served[c][u]] \in [s .. t -> Nat]
           /\ IsFiniteSet(s .. t)
           /\ Served(c, s, t) \in Nat
<1>1. s \in Int /\ t \in Int /\ s .. t \subseteq Times
  BY TimesAssumption DEF Times
<1>2. IsFiniteSet(s .. t)
  BY <1>1, FS_Interval
<1>3. \A u \in s .. t : served[c][u] \in Nat
  BY <1>1 DEF LimiterTypes
<1>4. [u \in s .. t |-> served[c][u]] \in [s .. t -> Nat]
  BY <1>3
<1>5. QED
  BY <1>2, <1>4, TotalType DEF Served

\* The worth of a bucket is an integer.
LEMMA WorthType ==
    ASSUME LimiterTypes, NEW c \in Clients
    PROVE  tokens[c] \in Int /\ last[c] \in Int /\ Rate * last[c] \in Int /\ Worth(c) \in Int
<1>1. tokens[c] \in Int /\ last[c] \in Int
  BY TimesAreInts DEF LimiterTypes
<1>2. Rate * last[c] \in Int
  BY <1>1, Flow
<1>3. QED
  BY <1>1, <1>2 DEF Worth

\* Before the first request nothing was served.
LEMMA InitLimiterInv == LimiterInit => LimiterInv
<1> SUFFICES ASSUME LimiterInit
             PROVE  LimiterInv
  OBVIOUS
<1>1. LimiterTypes
  BY TimesAreInts DEF LimiterInit, LimiterTypes
<1>2. ASSUME NEW c \in Clients, NEW s \in Times, NEW t \in Times
      PROVE  Served(c, s, t) = 0
  <2>1. [u \in s .. t |-> served[c][u]] \in [s .. t -> Nat]
    BY <1>1, ServedType
  <2>2. s .. t \subseteq Times
    BY TimesAssumption DEF Times
  <2>3. \A u \in s .. t : [v \in s .. t |-> served[c][v]][u] = 0
    BY <2>2 DEF LimiterInit
  <2>4. QED
    BY <2>1, <2>3, TotalZero DEF Served
<1>3. ReadRecently
  BY DEF LimiterInit, ReadRecently
<1>4. Solvent /\ Spent
  BY DEF LimiterInit, Solvent, Spent
<1>5. Forgotten
  BY <1>2 DEF Forgotten
<1>6. WithinBudget
  <2>1. ASSUME NEW s \in Times, NEW t \in Times, s <= t
        PROVE  0 <= Burst + Rate * (t - s)
    <3>1. s \in Int /\ t \in Int /\ 0 <= t - s
      BY <2>1, TimesAreInts
    <3>2. Rate * 0 <= Rate * (t - s) /\ Rate * (t - s) \in Int /\ Rate * 0 = 0
      BY <3>1, Flow, RateAssumption
    <3>3. QED
      BY <3>2, RateAssumption
  <2>2. QED
    BY <1>2, <2>1 DEF WithinBudget
<1>7. QED
  BY <1>1, <1>3, <1>4, <1>5, <1>6 DEF LimiterInv

\* A step that changes no bucket keeps the invariant while time does not run
\* backwards.
LEMMA OnlyTimePasses ==
    ASSUME LimiterInv, LimiterTypes', ReadRecently', clock <= clock',
           UNCHANGED <<buckets, tokens, last, served>>
    PROVE  LimiterInv'
<1>1. LimiterTypes /\ Solvent /\ Spent /\ Forgotten /\ WithinBudget
  BY DEF LimiterInv
<1>2. clock \in Int /\ clock' \in Int /\ MaxStall \in Int
  BY <1>1, TimesAreInts, TimesAssumption DEF LimiterTypes
<1>3. \A c, s, t : Served(c, s, t)' = Served(c, s, t)
  BY DEF Served
<1>4. \A c : Worth(c)' = Worth(c)
  BY DEF Worth
<1>5. Solvent'
  <2>1. Rate * clock <= Rate * clock' /\ Rate * clock \in Int /\ Rate * clock' \in Int
    BY <1>2, Flow
  <2>2. \A c \in buckets : Worth(c) \in Int
    BY <1>1, WorthType DEF LimiterTypes
  <2>3. \A c \in buckets : - (Rate * clock') <= Worth(c)
    BY <1>1, <2>1, <2>2 DEF Solvent
  <2>4. QED
    BY <1>1, <1>4, <2>3 DEF Solvent
<1>6. Spent'
  BY <1>1, <1>3, <1>4 DEF Spent
<1>7. Forgotten'
  <2>1. ASSUME NEW c \in Clients \ buckets, NEW s \in Times, NEW t \in Times,
               s <= t, Served(c, s, t) > 0
        PROVE  Served(c, s, t) <= Rate * (clock' - MaxStall - s)
    <3>1. s \in Int
      BY TimesAreInts
    <3>2. Served(c, s, t) <= Rate * (clock - MaxStall - s) /\ Served(c, s, t) \in Nat
      BY <1>1, <2>1, ServedType DEF Forgotten
    <3>3. /\ clock - MaxStall - s \in Int /\ clock' - MaxStall - s \in Int
          /\ clock - MaxStall - s <= clock' - MaxStall - s
      BY <1>2, <3>1, Shift, Zenon
    <3>4. /\ Rate * (clock - MaxStall - s) <= Rate * (clock' - MaxStall - s)
          /\ Rate * (clock - MaxStall - s) \in Int /\ Rate * (clock' - MaxStall - s) \in Int
      BY <3>3, Flow
    <3>5. QED
      BY <3>2, <3>4
  <2>2. QED
    BY <1>3, <2>1 DEF Forgotten
<1>8. WithinBudget'
  BY <1>1, <1>3 DEF WithinBudget
<1>9. QED
  BY <1>5, <1>6, <1>7, <1>8 DEF LimiterInv

-----------------------------------------------------------------------------
(* allow.                                                                   *)

\* What the request of r takes from its bucket.
Taken(r) == IF Admits(client[r], at[r]) THEN 1 ELSE 0

\* What allow does to the bucket of its client, as far as the proof needs it.
LEMMA AllowEffect ==
    ASSUME LimiterTypes, ReadRecently, NEW r \in Requests, Allow(r)
    PROVE  /\ client[r] \in Clients /\ at[r] \in Times
           /\ at[r] <= clock /\ clock <= at[r] + MaxStall
           /\ Taken(r) = IF Level(client[r], at[r]) >= 1 THEN 1 ELSE 0
           /\ buckets' = Remaining(at[r]) \cup {client[r]}
           /\ tokens' = [tokens EXCEPT ![client[r]] = Level(client[r], at[r]) - Taken(r)]
           /\ last' = [last EXCEPT ![client[r]] = at[r]]
           /\ served' = [served EXCEPT ![client[r]] =
                     [served[client[r]] EXCEPT ![at[r]] = served[client[r]][at[r]] + Taken(r)]]
           /\ lastTrim' = IF Trims(at[r]) THEN at[r] ELSE lastTrim
           /\ client' = [client EXCEPT ![r] = Nobody]
           /\ at' = [at EXCEPT ![r] = 0]
           /\ clock' = clock
<1>1. client[r] # Nobody
  BY DEF Allow
<1>2. client[r] \in Clients /\ at[r] \in Times
  BY <1>1 DEF LimiterTypes
<1>3. at[r] <= clock /\ clock <= at[r] + MaxStall
  BY <1>1 DEF ReadRecently
<1>4. Taken(r) = IF Level(client[r], at[r]) >= 1 THEN 1 ELSE 0
  BY DEF Taken, Admits
<1>5. /\ buckets' = Remaining(at[r]) \cup {client[r]}
      /\ tokens' = [tokens EXCEPT ![client[r]] = Level(client[r], at[r]) - Taken(r)]
      /\ last' = [last EXCEPT ![client[r]] = at[r]]
      /\ served' = [served EXCEPT ![client[r]][at[r]] = @ + Taken(r)]
      /\ lastTrim' = IF Trims(at[r]) THEN at[r] ELSE lastTrim
      /\ client' = [client EXCEPT ![r] = Nobody]
      /\ at' = [at EXCEPT ![r] = 0]
      /\ clock' = clock
  BY DEF Allow, Taken
<1>6. served' = [served EXCEPT ![client[r]] =
                 [served[client[r]] EXCEPT ![at[r]] = served[client[r]][at[r]] + Taken(r)]]
  BY <1>2, <1>5 DEF LimiterTypes
<1>7. QED
  BY <1>2, <1>3, <1>4, <1>5, <1>6, Zenon

\* The level that a request finds: an integer, at most a full bucket; less than
\* full only if the bucket was there, and then it is worth what it was before.
LEMMA LevelFound ==
    ASSUME LimiterTypes, NEW c \in Clients, NEW t \in Times
    PROVE  /\ Level(c, t) \in Int /\ Level(c, t) <= Burst
           /\ c \notin Remaining(t) => Level(c, t) = Burst
           /\ c \in Remaining(t) => Level(c, t) - Rate * t <= Worth(c)
           /\ Level(c, t) < Burst => Level(c, t) - Rate * t = Worth(c)
<1>1. Burst \in Int /\ t \in Int /\ Rate * t \in Int
  BY TimesAreInts, RateAssumption, Flow
<1>2. tokens[c] \in Int /\ last[c] \in Int /\ Rate * last[c] \in Int
  BY WorthType
<1>3. Rate * (t - last[c]) = Rate * t - Rate * last[c]
  BY <1>1, <1>2, Flow
<1>4. CASE c \in Remaining(t)
  BY <1>1, <1>2, <1>3, <1>4 DEF Level, Refilled, Worth
<1>5. CASE c \notin Remaining(t)
  BY <1>1, <1>5 DEF Level
<1>6. QED
  BY <1>4, <1>5

\* allow counts its request at the time it read, and no other.
LEMMA AllowServed ==
    ASSUME LimiterTypes, ReadRecently, NEW r \in Requests, Allow(r),
           NEW c \in Clients, NEW s \in Times, NEW t \in Times
    PROVE  Served(c, s, t)' = Served(c, s, t)
               + (IF c = client[r] /\ at[r] \in s .. t THEN Taken(r) ELSE 0)
<1> DEFINE f == [u \in s .. t |-> served[c][u]]
           g == [u \in s .. t |-> served'[c][u]]
<1>1. /\ client[r] \in Clients /\ at[r] \in Times /\ Taken(r) \in {0, 1}
      /\ served' = [served EXCEPT ![client[r]] =
                [served[client[r]] EXCEPT ![at[r]] = served[client[r]][at[r]] + Taken(r)]]
  BY AllowEffect
<1>2. f \in [s .. t -> Nat] /\ IsFiniteSet(s .. t) /\ Total(f) \in Nat
  BY ServedType DEF Served
<1>3. Served(c, s, t) = Total(f) /\ Served(c, s, t)' = Total(g)
  BY DEF Served
<1>4. s .. t \subseteq Times /\ served[c] \in [Times -> Nat] /\ served \in [Clients -> [Times -> Nat]]
  BY TimesAssumption DEF Times, LimiterTypes
<1>5. CASE c = client[r] /\ at[r] \in s .. t
  <2>1. g = [f EXCEPT ![at[r]] = f[at[r]] + Taken(r)]
    BY <1>1, <1>4, <1>5
  <2>2. f[at[r]] \in Nat /\ f[at[r]] + Taken(r) \in Nat /\ f[at[r]] <= f[at[r]] + Taken(r)
    BY <1>1, <1>2, <1>5
  <2> HIDE DEF f, g
  <2>3. Total([f EXCEPT ![at[r]] = f[at[r]] + Taken(r)])
            = Total(f) + ((f[at[r]] + Taken(r)) - f[at[r]])
    BY <1>2, <1>5, <2>2, TotalAdds
  <2>4. Total(g) = Total(f) + ((f[at[r]] + Taken(r)) - f[at[r]])
    BY <2>1, <2>3, Zenon
  <2>5. Total(g) = Total(f) + Taken(r)
    BY <1>1, <1>2, <2>2, <2>4
  <2>6. QED
    BY <1>3, <1>5, <2>5
<1>6. CASE ~ (c = client[r] /\ at[r] \in s .. t)
  <2>1. g = f
    BY <1>1, <1>4, <1>6
  <2> HIDE DEF f, g
  <2>2. Total(g) = Total(f) + 0
    BY <1>2, <2>1
  <2>3. QED
    BY <1>3, <1>6, <2>2
<1>7. QED
  BY <1>5, <1>6

\* A client whose bucket is gone, or goes now because it was idle, could have
\* gathered what it was served: dropping the bucket gives nothing away.
LEMMA Unremembered ==
    ASSUME LimiterInv, NEW now \in Times, now <= clock,
           NEW c \in Clients, c \notin Remaining(now),
           NEW s \in Times, NEW t \in Times, s <= t, Served(c, s, t) > 0
    PROVE  Served(c, s, t) <= Rate * (clock - MaxStall - s)
<1>1. LimiterTypes /\ Solvent /\ Spent /\ Forgotten
  BY DEF LimiterInv
<1>2. CASE c \notin buckets
  BY <1>1, <1>2 DEF Forgotten
<1>3. CASE c \in buckets
  <2>1. now - last[c] > IdleAfter
    BY <1>3 DEF Remaining, Idle
  <2>2. /\ clock \in Int /\ now \in Int /\ s \in Int /\ MaxStall \in Nat /\ IdleAfter \in Nat
        /\ Burst \in Int /\ last[c] \in Int /\ Worth(c) \in Int /\ Served(c, s, t) \in Nat
    <3>1. clock \in Int /\ now \in Int /\ s \in Int /\ Burst \in Int
      BY <1>1, TimesAreInts, RateAssumption DEF LimiterTypes
    <3>2. last[c] \in Int /\ Worth(c) \in Int /\ Served(c, s, t) \in Nat
      BY <1>1, WorthType, ServedType
    <3>3. QED
      BY <3>1, <3>2, TimesAssumption
  <2>3. Worth(c) + Served(c, s, t) <= Burst - Rate * s
    BY <1>1, <1>3 DEF Spent
  <2>4. - (Rate * (last[c] + MaxStall)) <= Worth(c)
    BY <1>1, <1>3 DEF Solvent
  <2> DEFINE full == IdleAfter - 2 * MaxStall
             used == last[c] + MaxStall
             due == clock - MaxStall - s
  <2>5. full \in Int /\ used \in Int /\ due \in Int /\ full + used - s <= due
    BY <2>1, <2>2
  <2>6. /\ Burst <= Rate * full /\ - (Rate * used) <= Worth(c)
    BY <2>4, IdleBucketsFillUp
  <2> HIDE DEF full, used, due
  <2>7. /\ Rate * full \in Int /\ Rate * used \in Int /\ Rate * s \in Int /\ Rate * due \in Int
        /\ Rate * ((full + used) - s) = (Rate * full + Rate * used) - Rate * s
    <3>1. full + used \in Int
      BY <2>5
    <3>2. Rate * ((full + used) - s) = Rate * (full + used) - Rate * s
      BY <2>2, <3>1, Flow
    <3>3. QED
      BY <2>2, <2>5, <3>2, Flow
  <2>8. Rate * ((full + used) - s) <= Rate * due
    <3>1. (full + used) - s \in Int /\ (full + used) - s <= due
      BY <2>2, <2>5
    <3>2. QED
      BY <2>5, <3>1, Flow, Zenon
  <2>9. Served(c, s, t) <= Rate * due
    BY <2>2, <2>3, <2>6, <2>7, <2>8
  <2>10. QED
    BY <2>9 DEF due
<1>4. QED
  BY <1>2, <1>3

\* allow keeps the types.
LEMMA AllowTypes ==
    ASSUME LimiterTypes, ReadRecently, NEW r \in Requests, Allow(r)
    PROVE  LimiterTypes'
<1>1. /\ client[r] \in Clients /\ at[r] \in Times /\ Taken(r) \in {0, 1}
      /\ Level(client[r], at[r]) \in Int
  BY AllowEffect, LevelFound
<1>2. buckets' \subseteq Clients /\ clock' \in Times
  <2>1. buckets' = Remaining(at[r]) \cup {client[r]} /\ clock' = clock
    BY AllowEffect
  <2>2. QED
    BY <1>1, <2>1 DEF LimiterTypes, Remaining
<1>3. tokens' \in [Clients -> Int]
  <2>1. Level(client[r], at[r]) - Taken(r) \in Int
    BY <1>1
  <2>2. QED
    BY <2>1, AllowEffect DEF LimiterTypes
<1>4. last' \in [Clients -> Times] /\ lastTrim' \in Times /\ at' \in [Requests -> Times]
  <2>1. /\ last' = [last EXCEPT ![client[r]] = at[r]] /\ at' = [at EXCEPT ![r] = 0]
        /\ lastTrim' = IF Trims(at[r]) THEN at[r] ELSE lastTrim
    BY AllowEffect
  <2>2. last \in [Clients -> Times] /\ lastTrim \in Times /\ at \in [Requests -> Times]
    BY DEF LimiterTypes
  <2>3. 0 \in Times
    BY TimesAreInts
  <2>4. QED
    BY <1>1, <2>1, <2>2, <2>3
<1>5. client' \in [Requests -> Clients \cup {Nobody}]
  BY <1>1, AllowEffect DEF LimiterTypes
<1>6. served' \in [Clients -> [Times -> Nat]]
  <2>1. served[client[r]] \in [Times -> Nat] /\ served[client[r]][at[r]] + Taken(r) \in Nat
    BY <1>1 DEF LimiterTypes
  <2>2. [served[client[r]] EXCEPT ![at[r]] = served[client[r]][at[r]] + Taken(r)]
            \in [Times -> Nat]
    BY <1>1, <2>1
  <2>3. served' = [served EXCEPT ![client[r]] =
                 [served[client[r]] EXCEPT ![at[r]] = served[client[r]][at[r]] + Taken(r)]]
    BY AllowEffect
  <2>4. served \in [Clients -> [Times -> Nat]]
    BY DEF LimiterTypes
  <2>5. QED
    BY <1>1, <2>2, <2>3, <2>4
<1>7. QED
  BY <1>2, <1>3, <1>4, <1>5, <1>6 DEF LimiterTypes

\* The worth of the buckets after allow.
LEMMA AllowWorth ==
    ASSUME LimiterTypes, ReadRecently, NEW r \in Requests, Allow(r), NEW c \in Clients
    PROVE  /\ Worth(c)' = IF c = client[r] THEN Level(c, at[r]) - Taken(r) - Rate * at[r]
                          ELSE Worth(c)
           /\ last'[c] = IF c = client[r] THEN at[r] ELSE last[c]
<1>1. client[r] \in Clients /\ at[r] \in Times
  BY AllowEffect
<1>2. tokens'[c] = IF c = client[r] THEN Level(c, at[r]) - Taken(r) ELSE tokens[c]
  BY <1>1, AllowEffect DEF LimiterTypes
<1>3. last'[c] = IF c = client[r] THEN at[r] ELSE last[c]
  BY <1>1, AllowEffect DEF LimiterTypes
<1>4. Worth(c)' = tokens'[c] - Rate * last'[c] /\ Worth(c) = tokens[c] - Rate * last[c]
  BY DEF Worth
<1>5. QED
  BY <1>2, <1>3, <1>4, Zenon

\* allow leaves no bucket worth less than an empty one.
LEMMA AllowSolvent ==
    ASSUME LimiterInv, NEW r \in Requests, Allow(r)
    PROVE  Solvent'
<1>1. LimiterTypes /\ ReadRecently /\ Solvent
  BY DEF LimiterInv
<1>2. PICK k \in Clients, now \in Times :
        /\ k = client[r] /\ now = at[r] /\ now <= clock /\ clock <= now + MaxStall
        /\ Taken(r) = IF Level(k, now) >= 1 THEN 1 ELSE 0
        /\ buckets' = Remaining(now) \cup {k} /\ clock' = clock
  BY <1>1, AllowEffect
<1>3. \A c \in Clients : c # k => Worth(c)' = Worth(c) /\ last'[c] = last[c]
  BY <1>1, <1>2, AllowWorth
<1>4. Worth(k)' = Level(k, now) - Taken(r) - Rate * now /\ last'[k] = now
  BY <1>1, <1>2, AllowWorth
<1>5. ASSUME NEW c \in buckets', c # k
      PROVE  - (Rate * clock') <= Worth(c)' /\ - (Rate * (last'[c] + MaxStall)) <= Worth(c)'
  <2>1. c \in buckets /\ c \in Clients
    BY <1>1, <1>2, <1>5 DEF Remaining, LimiterTypes
  <2>2. Worth(c)' = Worth(c) /\ last'[c] = last[c]
    BY <1>3, <1>5, <2>1
  <2>3. - (Rate * clock) <= Worth(c) /\ - (Rate * (last[c] + MaxStall)) <= Worth(c)
    BY <1>1, <2>1 DEF Solvent
  <2>4. QED
    BY <1>2, <2>2, <2>3
<1>6. - (Rate * clock) <= Worth(k)' /\ - (Rate * (now + MaxStall)) <= Worth(k)'
  <2>1. /\ Rate * now \in Int /\ Rate * clock \in Int /\ Rate * (now + MaxStall) \in Int
        /\ Rate * now <= Rate * clock /\ Rate * clock <= Rate * (now + MaxStall)
    <3>1. now \in Int /\ clock \in Int /\ MaxStall \in Int
      BY <1>1, TimesAreInts, TimesAssumption DEF LimiterTypes
    <3>2. now + MaxStall \in Int
      BY <3>1
    <3>3. QED
      BY <1>2, <3>1, <3>2, Flow
  <2>2. /\ Level(k, now) \in Int /\ Burst \in Int /\ Burst >= 1
        /\ Level(k, now) < Burst => Level(k, now) - Rate * now = Worth(k)
        /\ k \notin Remaining(now) => Level(k, now) = Burst
    BY <1>1, LevelFound, RateAssumption
  <2>3. CASE Level(k, now) >= 1
    BY <1>2, <1>4, <2>1, <2>2, <2>3
  <2>4. CASE Level(k, now) < 1
    <3>1. k \in buckets
      BY <2>2, <2>4 DEF Remaining
    <3>2. - (Rate * clock) <= Worth(k) /\ Worth(k) \in Int
      BY <1>1, <3>1, WorthType DEF Solvent
    <3>3. Level(k, now) - Rate * now = Worth(k) /\ Taken(r) = 0
      BY <1>2, <2>2, <2>4
    <3>4. Worth(k)' = Worth(k)
      BY <1>4, <2>1, <2>2, <3>3
    <3>5. QED
      BY <2>1, <3>2, <3>4
  <2>5. QED
    BY <2>2, <2>3, <2>4
<1>7. QED
  BY <1>2, <1>4, <1>5, <1>6 DEF Solvent

\* allow takes from the bucket what it serves; a new bucket is not worth more
\* than what its client has left.
LEMMA AllowSpent ==
    ASSUME LimiterInv, NEW r \in Requests, Allow(r)
    PROVE  Spent'
<1>1. LimiterTypes /\ ReadRecently /\ Spent
  BY DEF LimiterInv
<1>2. PICK k \in Clients, now \in Times :
        /\ k = client[r] /\ now = at[r] /\ now <= clock /\ clock <= now + MaxStall
        /\ Taken(r) = IF Level(k, now) >= 1 THEN 1 ELSE 0
        /\ buckets' = Remaining(now) \cup {k}
  BY <1>1, AllowEffect
<1>3. Worth(k)' = Level(k, now) - Taken(r) - Rate * now
  BY <1>1, <1>2, AllowWorth
<1>4. /\ Level(k, now) \in Int /\ Level(k, now) <= Burst /\ Burst \in Int /\ Burst >= 1
      /\ k \notin Remaining(now) => Level(k, now) = Burst
      /\ k \in Remaining(now) => Level(k, now) - Rate * now <= Worth(k)
      /\ Worth(k) \in Int
  BY <1>1, LevelFound, WorthType, RateAssumption
<1>5. ASSUME NEW c \in buckets', NEW s \in Times, NEW t \in Times,
             s <= t, Served(c, s, t)' > 0
      PROVE  Worth(c)' + Served(c, s, t)' <= Burst - Rate * s
  <2>1. c \in Clients /\ (c # k => c \in buckets)
    BY <1>1, <1>2, <1>5 DEF Remaining, LimiterTypes
  <2>2. Served(c, s, t)' = Served(c, s, t)
            + (IF c = k /\ now \in s .. t THEN Taken(r) ELSE 0)
    BY <1>1, <1>2, <2>1, AllowServed
  <2>3. Served(c, s, t) \in Nat
    BY <1>1, <2>1, ServedType
  <2>4. CASE c # k
    <3>1. Worth(c)' = Worth(c)
      BY <1>1, <1>2, <2>1, <2>4, AllowWorth
    <3>2. Served(c, s, t)' = Served(c, s, t)
      BY <2>2, <2>3, <2>4
    <3>3. QED
      BY <1>1, <1>5, <2>1, <2>4, <3>1, <3>2 DEF Spent
  <2>5. CASE c = k
    <3>1. /\ s \in Int /\ now \in Int /\ clock \in Int /\ MaxStall \in Int
          /\ Rate * s \in Int /\ Rate * now \in Int
      BY <1>1, TimesAreInts, TimesAssumption, Flow DEF LimiterTypes
    <3>2. CASE Served(c, s, t) = 0
      <4>1. now \in s .. t /\ Taken(r) = 1 /\ Served(c, s, t)' = 1
        BY <1>2, <1>5, <2>2, <3>2
      <4>2. Rate * s <= Rate * now
        BY <3>1, <4>1, Flow
      <4>3. QED
        BY <1>3, <1>4, <2>5, <3>1, <4>1, <4>2
    <3>3. CASE Served(c, s, t) > 0 /\ k \in Remaining(now)
      <4>1. Worth(k) + Served(k, s, t) <= Burst - Rate * s
        BY <1>1, <1>5, <2>5, <3>3 DEF Spent, Remaining
      <4>2. Served(c, s, t)' <= Served(k, s, t) + Taken(r) /\ Taken(r) \in {0, 1}
        BY <1>2, <2>2, <2>3, <2>5
      <4>3. Served(c, s, t)' \in Int
        BY <2>2, <2>3, <4>2
      <4>4. QED
        BY <1>3, <1>4, <2>3, <2>5, <3>1, <3>3, <4>1, <4>2, <4>3
    <3>4. CASE Served(c, s, t) > 0 /\ k \notin Remaining(now)
      <4>1. Served(k, s, t) <= Rate * (clock - MaxStall - s)
        BY <1>2, <1>5, <2>5, <3>4, Unremembered
      <4>2. /\ clock - MaxStall - s \in Int /\ now - s \in Int
            /\ clock - MaxStall - s <= now - s
        BY <1>2, <3>1
      <4>3. /\ Rate * (clock - MaxStall - s) <= Rate * (now - s)
            /\ Rate * (now - s) = Rate * now - Rate * s
            /\ Rate * (clock - MaxStall - s) \in Int
        BY <3>1, <4>2, Flow
      <4>4. Level(k, now) = Burst /\ Taken(r) = 1
        BY <1>2, <1>4, <3>4
      <4>5. Served(c, s, t)' <= Served(k, s, t) + 1 /\ Served(c, s, t)' \in Int
        BY <2>2, <2>3, <2>5, <4>4
      <4>6. QED
        BY <1>3, <1>4, <2>3, <2>5, <3>1, <4>1, <4>3, <4>4, <4>5
    <3>5. QED
      BY <2>3, <3>2, <3>3, <3>4
  <2>6. QED
    BY <2>4, <2>5
<1>6. QED
  BY <1>5 DEF Spent

\* allow keeps the invariant.
LEMMA AllowKeepsInv ==
    ASSUME LimiterInv, NEW r \in Requests, Allow(r)
    PROVE  LimiterInv'
<1>1. LimiterTypes /\ ReadRecently /\ Forgotten /\ WithinBudget
  BY DEF LimiterInv
<1>2. LimiterTypes' /\ Solvent' /\ Spent'
  BY <1>1, AllowTypes, AllowSolvent, AllowSpent
<1>3. PICK k \in Clients, now \in Times :
        /\ k = client[r] /\ now = at[r] /\ now <= clock
        /\ Taken(r) = IF Level(k, now) >= 1 THEN 1 ELSE 0
        /\ buckets' = Remaining(now) \cup {k} /\ clock' = clock
  BY <1>1, AllowEffect
<1>4. ReadRecently'
  <2>1. /\ client' = [client EXCEPT ![r] = Nobody] /\ at' = [at EXCEPT ![r] = 0]
        /\ client \in [Requests -> Clients \cup {Nobody}] /\ at \in [Requests -> Times]
    BY <1>1, AllowEffect DEF LimiterTypes
  <2>2. \A q \in Requests : client'[q] # Nobody => client[q] # Nobody /\ at'[q] = at[q]
    BY <2>1
  <2>3. QED
    BY <1>1, <1>3, <2>2 DEF ReadRecently
<1>5. \A c \in Clients, s \in Times, t \in Times :
          Served(c, s, t)' = Served(c, s, t)
              + (IF c = k /\ now \in s .. t THEN Taken(r) ELSE 0)
  BY <1>1, <1>3, AllowServed
<1>6. Forgotten'
  <2>1. ASSUME NEW c \in Clients, c \notin buckets', NEW s \in Times, NEW t \in Times,
               s <= t, Served(c, s, t)' > 0
        PROVE  Served(c, s, t)' <= Rate * (clock' - MaxStall - s)
    <3>1. c # k /\ c \notin Remaining(now)
      BY <1>3, <2>1
    <3>2. Served(c, s, t)' = Served(c, s, t)
      <4>1. Served(c, s, t) \in Nat
        BY <1>1, ServedType
      <4>2. Served(c, s, t)' = Served(c, s, t) + 0
        BY <1>5, <3>1
      <4>3. QED
        BY <4>1, <4>2
    <3>3. Served(c, s, t) <= Rate * (clock - MaxStall - s)
      BY <1>3, <2>1, <3>1, <3>2, Unremembered
    <3>4. QED
      BY <1>3, <3>2, <3>3
  <2>2. QED
    BY <2>1 DEF Forgotten
<1>7. WithinBudget'
  <2>1. ASSUME NEW c \in Clients, NEW s \in Times, NEW t \in Times, s <= t
        PROVE  Served(c, s, t)' <= Burst + Rate * (t - s)
    <3>1. Served(c, s, t) \in Nat /\ Served(c, s, t) <= Burst + Rate * (t - s)
      BY <1>1, <2>1, ServedType DEF WithinBudget
    <3>2. CASE c = k /\ now \in s .. t /\ Level(k, now) >= 1
      <4>1. Served(c, s, t)' = Served(c, s, t) + 1 /\ Taken(r) = 1
        BY <1>3, <1>5, <3>2
      <4>2. Worth(c)' + Served(c, s, t)' <= Burst - Rate * s
        <5>1. c \in buckets' /\ Served(c, s, t)' > 0
          BY <1>3, <3>1, <3>2, <4>1
        <5>2. QED
          BY <1>2, <2>1, <5>1 DEF Spent
      <4>3. Worth(c)' = Level(k, now) - 1 - Rate * now
        BY <1>1, <1>3, <3>2, <4>1, AllowWorth
      <4>4. /\ s \in Int /\ t \in Int /\ now \in Int /\ t - s \in Int
            /\ now - s \in Int /\ now - s <= t - s
        BY <3>2, TimesAreInts
      <4>5. /\ Rate * s \in Int /\ Rate * now \in Int /\ Rate * (t - s) \in Int
            /\ Rate * (now - s) = Rate * now - Rate * s
            /\ Rate * (now - s) <= Rate * (t - s)
        BY <4>4, Flow
      <4>6. Level(k, now) \in Int /\ Burst \in Int /\ Served(c, s, t)' \in Int
        BY <1>1, <3>1, <4>1, LevelFound, RateAssumption
      <4>7. QED
        BY <3>2, <4>2, <4>3, <4>5, <4>6
    <3>3. CASE ~ (c = k /\ now \in s .. t /\ Level(k, now) >= 1)
      <4>1. Served(c, s, t)' = Served(c, s, t) + 0
        BY <1>3, <1>5, <3>3
      <4>2. QED
        BY <3>1, <4>1
    <3>4. QED
      BY <3>2, <3>3
  <2>2. QED
    BY <2>1 DEF WithinBudget
<1>8. QED
  BY <1>2, <1>4, <1>6, <1>7 DEF LimiterInv

\* Every step keeps the invariant.
LEMMA NextLimiterInv == LimiterInv /\ [LimiterNext]_limiter => LimiterInv'
<1> SUFFICES ASSUME LimiterInv, [LimiterNext]_limiter
             PROVE  LimiterInv'
  OBVIOUS
<1>1. LimiterTypes /\ ReadRecently /\ clock \in Int /\ MaxStall \in Nat
  BY TimesAreInts, TimesAssumption DEF LimiterInv, LimiterTypes
<1>2. ASSUME NEW r \in Requests, NEW c \in Clients, Arrive(r, c)
      PROVE  LimiterInv'
  <2>1. /\ client' = [client EXCEPT ![r] = c] /\ at' = [at EXCEPT ![r] = clock]
        /\ UNCHANGED <<clock, buckets, tokens, last, lastTrim, served>>
    BY <1>2 DEF Arrive
  <2>2. LimiterTypes'
    BY <1>1, <2>1 DEF LimiterTypes
  <2>3. ReadRecently'
    <3>1. \A q \in Requests : q # r => client'[q] = client[q] /\ at'[q] = at[q]
      BY <1>1, <2>1 DEF LimiterTypes
    <3>2. at'[r] = clock
      BY <1>1, <2>1 DEF LimiterTypes
    <3>3. clock <= clock /\ clock <= clock + MaxStall
      BY <1>1
    <3>4. QED
      BY <1>1, <2>1, <3>1, <3>2, <3>3 DEF ReadRecently
  <2>4. clock <= clock'
    BY <1>1, <2>1
  <2>5. QED
    BY <2>1, <2>2, <2>3, <2>4, OnlyTimePasses
<1>3. ASSUME NEW r \in Requests, Allow(r)
      PROVE  LimiterInv'
  BY <1>3, AllowKeepsInv
<1>4. ASSUME Tick
      PROVE  LimiterInv'
  <2>1. /\ clock' = clock + 1 /\ clock < MaxClock
        /\ \A r \in Requests : client[r] # Nobody => clock - at[r] < MaxStall
        /\ UNCHANGED <<buckets, tokens, last, lastTrim, client, at, served>>
    BY <1>4 DEF Tick
  <2>2. clock' \in Times /\ clock <= clock'
    BY <1>1, <2>1, TimesAssumption DEF LimiterTypes, Times
  <2>3. LimiterTypes'
    BY <1>1, <2>1, <2>2 DEF LimiterTypes
  <2>4. ReadRecently'
    <3>1. ASSUME NEW r \in Requests, client[r] # Nobody
          PROVE  at[r] <= clock + 1 /\ clock + 1 <= at[r] + MaxStall
      <4>1. at[r] \in Int
        BY <1>1, TimesAreInts DEF LimiterTypes
      <4>2. at[r] <= clock /\ clock - at[r] < MaxStall
        BY <1>1, <2>1, <3>1 DEF ReadRecently
      <4>3. QED
        BY <1>1, <4>1, <4>2
    <3>2. QED
      BY <2>1, <3>1 DEF ReadRecently
  <2>5. QED
    BY <2>1, <2>2, <2>3, <2>4, OnlyTimePasses
<1>5. ASSUME UNCHANGED limiter
      PROVE  LimiterInv'
  <2>1. UNCHANGED <<clock, buckets, tokens, last, lastTrim, client, at, served>>
    BY <1>5 DEF limiter
  <2>2. LimiterTypes' /\ ReadRecently' /\ clock <= clock'
    BY <1>1, <2>1 DEF LimiterTypes, ReadRecently
  <2>3. QED
    BY <2>1, <2>2, OnlyTimePasses
<1>6. QED
  BY <1>2, <1>3, <1>4, <1>5 DEF LimiterNext

\* In no interval of time is a client served more than a bucket and what flows
\* into it, although buckets are dropped and times run backwards: for every
\* rate, bucket and waiting time that lets an idle bucket fill up.
THEOREM BudgetIsKept == LimiterSpec => []WithinBudget
<1>1. LimiterInv /\ [LimiterNext]_limiter => LimiterInv'
  BY NextLimiterInv
<1>2. LimiterInv => WithinBudget
  BY DEF LimiterInv
<1>3. QED
  BY <1>1, <1>2, InitLimiterInv, PTL DEF LimiterSpec

-----------------------------------------------------------------------------
(* Refusals.                                                                *)

\* The earliest time that a request in progress may have read at time s.
Early(s) == IF s <= MaxStall THEN 0 ELSE s - MaxStall

\* Every bucket was full at some time; what it lacks since then was served to
\* requests that read the time no earlier than MaxStall before.
FullOnce ==
    \A c \in buckets : \E s \in Times :
        s <= clock /\ Worth(c) + Served(c, Early(s), MaxClock) >= Burst - Rate * s

RefusalInv == LimiterInv /\ FullOnce

\* A request in progress has not read an earlier time.
LEMMA EarlyTimes ==
    ASSUME NEW s \in Times
    PROVE  /\ Early(s) \in Times /\ Early(s) \in Int /\ Early(s) <= s /\ s <= Early(s) + MaxStall
           /\ \A x \in Times : s <= x + MaxStall => Early(s) <= x
           /\ MaxClock \in Times /\ \A x \in Times : x <= MaxClock
BY TimesAssumption DEF Early, Times

\* What is served by allow is missing from the bucket since it was full, be that
\* now or earlier.
LEMMA AllowFullOnce ==
    ASSUME RefusalInv, NEW r \in Requests, Allow(r)
    PROVE  FullOnce'
<1>1. LimiterTypes /\ ReadRecently /\ FullOnce
  BY DEF RefusalInv, LimiterInv
<1>2. PICK k \in Clients, now \in Times :
        /\ k = client[r] /\ now = at[r] /\ now <= clock /\ clock <= now + MaxStall
        /\ Taken(r) = IF Level(k, now) >= 1 THEN 1 ELSE 0
        /\ buckets' = Remaining(now) \cup {k} /\ clock' = clock
  BY <1>1, AllowEffect
<1>3. PICK taken \in 0 .. 1 : taken = Taken(r)
  BY <1>2
<1>4. ASSUME NEW c \in Clients, NEW s \in Times
      PROVE  /\ Served(c, s, MaxClock) \in Nat
             /\ Served(c, s, MaxClock)' = Served(c, s, MaxClock)
                    + (IF c = k /\ now \in s .. MaxClock THEN taken ELSE 0)
  <2>1. MaxClock \in Times
    BY EarlyTimes
  <2>2. Served(c, s, MaxClock) \in Nat
    BY <1>1, <2>1, ServedType
  <2>3. Served(c, s, MaxClock)' = Served(c, s, MaxClock)
            + (IF c = client[r] /\ at[r] \in s .. MaxClock THEN Taken(r) ELSE 0)
    BY <1>1, <2>1, AllowServed
  <2>4. QED
    BY <1>2, <1>3, <2>2, <2>3
<1>5. ASSUME NEW c \in buckets', c # k
      PROVE  \E s \in Times : /\ s <= clock'
                              /\ (Worth(c) + Served(c, Early(s), MaxClock))' >= Burst - Rate * s
  <2>1. c \in buckets /\ c \in Clients
    BY <1>1, <1>2, <1>5 DEF Remaining, LimiterTypes
  <2>2. Worth(c)' = Worth(c)
    BY <1>1, <1>2, <1>5, <2>1, AllowWorth
  <2>3. PICK s \in Times :
           s <= clock /\ Worth(c) + Served(c, Early(s), MaxClock) >= Burst - Rate * s
    BY <1>1, <2>1 DEF FullOnce
  <2>4. Served(c, Early(s), MaxClock)' = Served(c, Early(s), MaxClock)
    <3>1. Early(s) \in Times
      BY EarlyTimes
    <3>2. PICK x \in Nat : x = Served(c, Early(s), MaxClock)
      BY <1>4, <2>1, <3>1
    <3>3. Served(c, Early(s), MaxClock)' = x + 0
      BY <1>4, <1>5, <2>1, <3>1, <3>2
    <3>4. QED
      BY <3>2, <3>3
  <2>5. (Worth(c) + Served(c, Early(s), MaxClock))' >= Burst - Rate * s
    BY <2>2, <2>3, <2>4
  <2>6. QED
    BY <1>2, <2>3, <2>5
<1>6. \E s \in Times : /\ s <= clock'
                       /\ (Worth(k) + Served(k, Early(s), MaxClock))' >= Burst - Rate * s
  <2>1. Worth(k)' = Level(k, now) - taken - Rate * now
    BY <1>1, <1>2, <1>3, AllowWorth
  <2>2. /\ Level(k, now) \in Int /\ Level(k, now) <= Burst /\ Burst \in Int
        /\ k \notin Remaining(now) => Level(k, now) = Burst
        /\ Level(k, now) < Burst => Level(k, now) - Rate * now = Worth(k)
        /\ Worth(k) \in Int /\ Rate * now \in Int /\ now \in Int
    BY <1>1, LevelFound, WorthType, RateAssumption, TimesAreInts, Flow
  <2>3. CASE Level(k, now) = Burst
    <3>1. Early(now) \in Times /\ now \in Early(now) .. MaxClock
      BY EarlyTimes, TimesAreInts
    <3>2. PICK x \in Nat : x = Served(k, Early(now), MaxClock)
      BY <1>4, <3>1
    <3>3. Served(k, Early(now), MaxClock)' = x + taken
      BY <1>4, <3>1, <3>2
    <3>4. (Worth(k) + Served(k, Early(now), MaxClock))' >= Burst - Rate * now
      BY <2>1, <2>2, <2>3, <3>3
    <3>5. QED
      BY <1>2, <3>4
  <2>4. CASE Level(k, now) < Burst
    <3>1. k \in buckets
      BY <2>2, <2>4 DEF Remaining
    <3>2. PICK s \in Times :
             s <= clock /\ Worth(k) + Served(k, Early(s), MaxClock) >= Burst - Rate * s
      BY <1>1, <3>1 DEF FullOnce
    <3>3. Early(s) \in Times /\ now \in Early(s) .. MaxClock
      <4>1. s \in Int /\ clock \in Int /\ MaxStall \in Int /\ MaxClock \in Int
        BY <1>1, TimesAreInts, TimesAssumption DEF LimiterTypes
      <4>2. s <= now + MaxStall
        BY <1>2, <2>2, <3>2, <4>1
      <4>3. Early(s) \in Times /\ Early(s) \in Int /\ Early(s) <= now /\ now <= MaxClock
        BY <4>2, EarlyTimes
      <4>4. QED
        BY <2>2, <4>1, <4>3
    <3>4. PICK x \in Nat : x = Served(k, Early(s), MaxClock)
      BY <1>4, <3>3
    <3>5. Served(k, Early(s), MaxClock)' = x + taken
      BY <1>4, <3>3, <3>4
    <3>6. Worth(k)' = Worth(k) - taken
      BY <2>1, <2>2, <2>4
    <3>7. (Worth(k) + Served(k, Early(s), MaxClock))' = Worth(k) + x
      BY <2>2, <3>5, <3>6
    <3>8. QED
      BY <1>2, <3>2, <3>4, <3>7
  <2>5. QED
    BY <2>2, <2>3, <2>4
<1>7. QED
  BY <1>5, <1>6 DEF FullOnce

\* Every step keeps the invariant.
LEMMA NextRefusalInv == RefusalInv /\ [LimiterNext]_limiter => RefusalInv'
<1> SUFFICES ASSUME RefusalInv, [LimiterNext]_limiter
             PROVE  RefusalInv'
  OBVIOUS
<1>1. LimiterInv'
  BY NextLimiterInv DEF RefusalInv
<1>2. ASSUME UNCHANGED <<buckets, tokens, last, served>>, clock' = clock \/ clock' = clock + 1
      PROVE  FullOnce'
  <2>1. \A c, s, t : Served(c, s, t)' = Served(c, s, t)
    BY <1>2 DEF Served
  <2>2. \A c : Worth(c)' = Worth(c)
    BY <1>2 DEF Worth
  <2>3. \A s \in Times : s <= clock => s <= clock'
    BY <1>2, TimesAreInts DEF RefusalInv, LimiterInv, LimiterTypes
  <2>4. QED
    BY <1>2, <2>1, <2>2, <2>3 DEF RefusalInv, FullOnce
<1>3. ASSUME NEW r \in Requests, NEW c \in Clients, Arrive(r, c)
      PROVE  FullOnce'
  BY <1>2, <1>3 DEF Arrive
<1>4. ASSUME NEW r \in Requests, Allow(r)
      PROVE  FullOnce'
  BY <1>4, AllowFullOnce
<1>5. ASSUME Tick
      PROVE  FullOnce'
  BY <1>2, <1>5 DEF Tick
<1>6. ASSUME UNCHANGED limiter
      PROVE  FullOnce'
  BY <1>2, <1>6 DEF limiter
<1>7. FullOnce'
  BY <1>3, <1>4, <1>5, <1>6 DEF LimiterNext
<1>8. QED
  BY <1>1, <1>7 DEF RefusalInv

\* A request that is refused finds less than a token, so what was served since the
\* bucket was full is what flowed in since then and the bucket.
LEMMA RefusedIsEarned ==
    ASSUME RefusalInv, NEW r \in Requests, Allow(r), served' = served
    PROVE  Earned(client[r], at[r])
<1>1. LimiterTypes /\ ReadRecently /\ FullOnce
  BY DEF RefusalInv, LimiterInv
<1>2. PICK k \in Clients, now \in Times :
        /\ k = client[r] /\ now = at[r] /\ now <= clock /\ clock <= now + MaxStall
        /\ Taken(r) = IF Level(k, now) >= 1 THEN 1 ELSE 0
  BY <1>1, AllowEffect
<1>3. /\ now \in Int /\ clock \in Int /\ MaxStall \in Int /\ MaxClock \in Int
      /\ MaxClock \in Times /\ now \in now .. MaxClock /\ Burst \in Int /\ Burst >= 1
  BY <1>1, TimesAreInts, TimesAssumption, EarlyTimes, RateAssumption DEF LimiterTypes
<1>4. Level(k, now) < 1
  <2>1. PICK x \in Nat : x = Served(k, now, MaxClock)
    BY <1>1, <1>3, ServedType
  <2>2. Served(k, now, MaxClock)' = x + Taken(r)
    BY <1>1, <1>2, <1>3, <2>1, AllowServed
  <2>3. Served(k, now, MaxClock)' = x
    BY <2>1 DEF Served
  <2>4. Level(k, now) \in Int
    BY <1>1, LevelFound
  <2>5. QED
    BY <1>2, <2>1, <2>2, <2>3, <2>4
<1>5. /\ k \in buckets /\ Level(k, now) \in Int /\ Level(k, now) - Rate * now = Worth(k)
      /\ Worth(k) \in Int
  BY <1>1, <1>3, <1>4, LevelFound, WorthType DEF Remaining
<1>6. PICK s \in Times :
         s <= clock /\ Worth(k) + Served(k, Early(s), MaxClock) >= Burst - Rate * s
  BY <1>1, <1>5 DEF FullOnce
<1>7. PICK e \in Times : /\ e = Early(s) /\ e \in Int /\ s <= e + MaxStall
                         /\ s <= now + MaxStall => e <= now
  BY EarlyTimes
<1>8. s \in Int /\ e <= now
  BY <1>2, <1>3, <1>6, <1>7, TimesAreInts
<1>9. PICK x \in Nat : x = Served(k, e, MaxClock)
  BY <1>1, <1>3, ServedType
<1>10. /\ Rate * s <= Rate * e + Rate * MaxStall
       /\ Rate * (now - e) = Rate * now - Rate * e
       /\ Rate * s \in Int /\ Rate * e \in Int /\ Rate * now \in Int /\ Rate * MaxStall \in Int
  <2>1. e + MaxStall \in Int
    BY <1>3, <1>7
  <2>2. Rate * s <= Rate * (e + MaxStall)
    BY <1>7, <1>8, <2>1, Flow
  <2>3. QED
    BY <1>3, <1>7, <1>8, <2>2, Flow
<1>11. x + 1 > Burst + Rate * (now - e) - Rate * MaxStall
  <2>1. x >= Burst - Rate * s - Worth(k)
    BY <1>3, <1>5, <1>6, <1>7, <1>9, <1>10
  <2>2. Worth(k) <= - (Rate * now)
    BY <1>4, <1>5, <1>10
  <2>3. x >= Burst - Rate * s + Rate * now
    BY <1>3, <1>5, <1>10, <2>1, <2>2
  <2>4. QED
    BY <1>3, <1>10, <2>3
<1>12. QED
  BY <1>2, <1>8, <1>9, <1>11 DEF Earned

\* Nobody is refused who keeps below the budget: before a refusal there is an
\* interval in which the client was served a bucket and what flows in, up to what
\* flows in while a request waits for the mutex, for every rate, bucket and wait.
THEOREM RefusalsAreDeserved == LimiterSpec => RefusalsAreEarned
<1>1. ASSUME RefusalInv, [LimiterNext]_limiter
      PROVE  [\A r \in Requests :
                (client[r] # Nobody /\ client'[r] = Nobody /\ served' = served)
                    => Earned(client[r], at[r])]_limiter
  <2> SUFFICES ASSUME NEW r \in Requests, client[r] # Nobody, client'[r] = Nobody,
                      served' = served
               PROVE  Earned(client[r], at[r])
    OBVIOUS
  <2>1. client \in [Requests -> Clients \cup {Nobody}]
    BY <1>1 DEF RefusalInv, LimiterInv, LimiterTypes
  <2>2. ASSUME NEW q \in Requests, NEW c \in Clients, Arrive(q, c)
        PROVE  FALSE
    BY <2>1, <2>2, ClientsAssumption DEF Arrive
  <2>3. ASSUME NEW q \in Requests, Allow(q)
        PROVE  Earned(client[r], at[r])
    <3>1. client' = [client EXCEPT ![q] = Nobody]
      BY <2>3 DEF Allow
    <3>2. q = r
      BY <2>1, <3>1
    <3>3. QED
      BY <1>1, <2>3, <3>2, RefusedIsEarned
  <2>4. ~ Tick /\ ~ UNCHANGED limiter
    BY DEF Tick, limiter
  <2>5. QED
    BY <1>1, <2>2, <2>3, <2>4 DEF LimiterNext
<1>2. LimiterInit => RefusalInv
  BY InitLimiterInv DEF LimiterInit, RefusalInv, FullOnce
<1>3. RefusalInv /\ [LimiterNext]_limiter => RefusalInv'
  BY NextRefusalInv
<1>4. RefusalInv /\ [LimiterNext]_limiter =>
          [\A r \in Requests :
                (client[r] # Nobody /\ client'[r] = Nobody /\ served' = served)
                    => Earned(client[r], at[r])]_limiter
  BY <1>1
<1>5. QED
  BY <1>2, <1>3, <1>4, PTL DEF LimiterSpec, RefusalsAreEarned

-----------------------------------------------------------------------------
(* What an audit has seen.                                                  *)

Steps == Asking \cup {"none", "pass", "fail"}

LogTypes == n \in 1 .. MaxLeaves /\ step \in Steps

\* The hash of leaf j of a log that may have been forked.
LogHash(j, x) == x = LeafHash(j) \/ (j \in fork /\ x = LeafHash(Forged(j)))

\* A tree head is that of a prefix of the log as it is, or was before the fork.
HeadOfLog ==
    /\ head \in Seq(Hash)
    /\ Len(head) \in 0 .. n
    /\ \A k \in 1 .. Len(head) : LogHash(k, head[k])

LeafRecord ==
    [index : Nat, txHash : Hash, prevHash : Hash, type : {"genesis", "transfer"},
     covered : BOOLEAN, intact : BOOLEAN]

\* A leaf that the server may have answered.  One that is not chained to the true
\* leaf before it was replaced itself.
LeafOfLog(x) ==
    /\ x.index \in 0 .. n - 1
    /\ LogHash(x.index + 1, x.txHash)
    /\ x.index = 0 => x.prevHash = EmptyRoot
    /\ x.index # 0 /\ x.prevHash # LeafHash(x.index) => x.txHash = LeafHash(Forged(x.index + 1))

LeavesOfLog == leaves \in Seq(LeafRecord) /\ \A k \in 1 .. Len(leaves) : LeafOfLog(leaves[k])

\* The checks of main have passed.
Checked == HashesOf(leaves) = head /\ ChainOk(leaves) /\ HasGenesis(leaves)

SeenInv ==
    /\ LogTypes /\ HeadOfLog /\ LeavesOfLog
    /\ step \in {"inclusion", "consistency", "pass"} => Checked

\* The leaf records that the server answers belong to its log.
LEMMA LeafType ==
    ASSUME LogTypes, NEW j \in 1 .. n
    PROVE  Leaf(j) \in LeafRecord /\ LeafOfLog(Leaf(j)) /\ ServerLog[j] \in Hash
                /\ LogHash(j, ServerLog[j])
<1>1. n \in Nat /\ \A k \in 1 .. n : k \in Int /\ Forged(k) \in Int
  BY MaxLeavesAssumption DEF LogTypes, Forged
<1>2. \A k \in 1 .. n : ServerLog[k] = LeafHash(IF k \in fork THEN Forged(k) ELSE k)
  BY DEF ServerLog
<1>3. \A k \in 1 .. n : ServerLog[k] \in Hash /\ LogHash(k, ServerLog[k])
  BY <1>1, <1>2, HashTypes DEF LogHash
<1>4. Leaf(j).prevHash \in Hash
  <2>1. j # 1 => j - 1 \in 1 .. n
    BY <1>1
  <2>2. LeafHash(j - 1) \in Hash
    BY <1>1, HashTypes
  <2>3. QED
    BY <1>3, <2>1, <2>2, HashTypes DEF Leaf
<1>5. /\ Leaf(j).index = j - 1 /\ Leaf(j).txHash = ServerLog[j]
      /\ Leaf(j).prevHash = IF j = 1 THEN EmptyRoot
                            ELSE IF j \in fork THEN ServerLog[j - 1] ELSE LeafHash(j - 1)
  BY DEF Leaf
<1>6. Leaf(j) \in LeafRecord
  <2>1. j - 1 \in Nat
    BY <1>1
  <2>2. QED
    BY <1>3, <1>4, <2>1 DEF Leaf, LeafRecord
<1>7. LeafOfLog(Leaf(j))
  <2>1. j - 1 \in 0 .. n - 1 /\ (j - 1) + 1 = j /\ (j - 1 = 0 <=> j = 1)
    BY <1>1
  <2>2. Leaf(j).prevHash # LeafHash(j - 1) /\ j # 1 => ServerLog[j] = LeafHash(Forged(j))
    BY <1>2, <1>5
  <2>3. QED
    BY <1>3, <1>5, <2>1, <2>2 DEF LeafOfLog
<1>8. QED
  BY <1>3, <1>6, <1>7

\* The pages of leaves that the auditor receives, altered or not.
Page(p) == p \in Seq(LeafRecord) /\ \A k \in 1 .. Len(p) : LeafOfLog(p[k])

\* So do those of a page.
LEMMA RangeIsPage ==
    ASSUME LogTypes, NEW from \in Nat, NEW to \in 0 .. n
    PROVE  Page(RangeLeaves(from, to))
<1>1. PICK d \in Int : d = IF to - from > PageSize THEN PageSize ELSE to - from
  BY AuditAssumption DEF LogTypes
<1>2. d <= to - from
  BY <1>1, AuditAssumption DEF LogTypes
<1>3. RangeLeaves(from, to) = [k \in 1 .. d |-> Leaf(from + k)]
  BY <1>1, AuditAssumption DEF RangeLeaves, LogTypes
<1>4. \A k \in 1 .. d : from + k \in 1 .. n
  BY <1>2 DEF LogTypes
<1>5. \A k \in 1 .. d : Leaf(from + k) \in LeafRecord /\ LeafOfLog(Leaf(from + k))
  BY <1>4, LeafType
<1>6. PICK p : p = [k \in 1 .. d |-> Leaf(from + k)]
  OBVIOUS
<1>7. CASE d >= 0
  <2>1. p \in Seq(LeafRecord) /\ Len(p) = d
    BY <1>5, <1>6, <1>7
  <2>2. \A k \in 1 .. d : LeafOfLog(p[k])
    BY <1>5, <1>6
  <2>3. Page(p)
    BY <2>1, <2>2 DEF Page
  <2>4. QED
    BY <1>3, <1>6, <2>3
<1>8. CASE d < 0
  <2>1. 1 .. d = 1 .. 0
    BY <1>8
  <2>2. p = <<>>
    BY <1>6, <2>1
  <2>3. Page(<<>>)
    BY DEF Page
  <2>4. QED
    BY <1>3, <1>6, <2>2, <2>3
<1>9. QED
  BY <1>7, <1>8

\* A page stays one when the server leaves a leaf out or tampers with one.
LEMMA AlteredIsPage ==
    ASSUME NEW page, Page(page), NEW p \in AlteredPages(page)
    PROVE  Page(p)
<1>1. page \in Seq(LeafRecord) /\ DOMAIN page = 1 .. Len(page) /\ Len(page) \in Nat
  BY DEF Page
<1>2. CASE \E k \in DOMAIN page : p = SubSeq(page, 1, k - 1) \o SubSeq(page, k + 1, Len(page))
  <2>1. PICK k \in DOMAIN page : p = SubSeq(page, 1, k - 1) \o SubSeq(page, k + 1, Len(page))
    BY <1>2
  <2>2. PICK a, b : a = SubSeq(page, 1, k - 1) /\ b = SubSeq(page, k + 1, Len(page))
    OBVIOUS
  <2>3. k \in 1 .. Len(page) /\ k \in Int /\ Len(page) \in Int
    BY <1>1
  <2>4. a \in Seq(LeafRecord) /\ Len(a) = k - 1 /\ \A j \in 1 .. k - 1 : a[j] = page[j]
    <3>1. \A i \in 1 .. k - 1 : page[i] \in LeafRecord
      BY <1>1, <2>3
    <3>2. QED
      BY <2>2, <2>3, <3>1, SubSeqProperties
  <2>5. /\ b \in Seq(LeafRecord) /\ Len(b) = Len(page) - k
         /\ \A j \in 1 .. Len(page) - k : b[j] = page[j + k]
    <3>1. \A i \in k + 1 .. Len(page) : page[i] \in LeafRecord
      BY <1>1, <2>3
    <3>2. PICK i, m \in Int : i = k + 1 /\ m = Len(page)
      BY <2>3
    <3>3. /\ b \in Seq(LeafRecord) /\ Len(b) = IF i <= m THEN m - i + 1 ELSE 0
          /\ \A j \in 1 .. m - i + 1 : b[j] = page[i + j - 1]
      BY <2>2, <3>1, <3>2, SubSeqProperties
    <3>4. Len(b) = Len(page) - k
      BY <2>3, <3>2, <3>3
    <3>5. ASSUME NEW j \in 1 .. Len(page) - k
          PROVE  b[j] = page[j + k]
      <4>1. j \in 1 .. m - i + 1 /\ i + j - 1 = j + k
        BY <2>3, <3>2
      <4>2. QED
        BY <3>3, <4>1
    <3>6. QED
      BY <3>3, <3>4, <3>5
  <2>6. /\ p \in Seq(LeafRecord) /\ Len(p) = Len(page) - 1
        /\ \A j \in 1 .. Len(p) : p[j] = IF j < k THEN a[j] ELSE b[j - (k - 1)]
    <3>1. p = a \o b
      BY <2>1, <2>2
    <3>2. /\ p \in Seq(LeafRecord) /\ Len(p) = Len(a) + Len(b)
          /\ \A j \in 1 .. Len(a) + Len(b) : p[j] = IF j <= Len(a) THEN a[j] ELSE b[j - Len(a)]
      BY <2>4, <2>5, <3>1, ConcatProperties
    <3>3. PICK l, m \in Nat : l = Len(a) /\ m = Len(b) /\ l = k - 1 /\ l + m = Len(page) - 1
      BY <2>3, <2>4, <2>5
    <3>4. \A j \in Nat : j <= l <=> j < k
      BY <2>3, <3>3
    <3>5. QED
      BY <3>2, <3>3, <3>4
  <2>7. ASSUME NEW j \in 1 .. Len(p)
        PROVE  LeafOfLog(p[j])
    <3>1. CASE j < k
      <4>1. p[j] = page[j] /\ j \in 1 .. Len(page)
        BY <2>3, <2>4, <2>6, <3>1
      <4>2. QED
        BY <4>1 DEF Page
    <3>2. CASE j >= k
      <4>1. p[j] = page[j + 1] /\ j + 1 \in 1 .. Len(page)
        <5>1. PICK i \in 1 .. Len(page) - k : i = j - (k - 1)
          BY <2>3, <2>6, <3>2
        <5>2. p[j] = b[i] /\ b[i] = page[i + k]
          BY <2>3, <2>5, <2>6, <3>2, <5>1
        <5>3. QED
          BY <2>3, <5>1, <5>2
      <4>2. QED
        BY <4>1 DEF Page
    <3>3. QED
      BY <2>6, <2>3, <3>1, <3>2
  <2>8. QED
    BY <2>6, <2>7 DEF Page
<1>3. CASE \E k \in DOMAIN page : p = [page EXCEPT ![k].intact = FALSE]
  <2>1. PICK k \in DOMAIN page : p = [page EXCEPT ![k].intact = FALSE]
    BY <1>3
  <2>2. k \in 1 .. Len(page) /\ p = [page EXCEPT ![k].intact = FALSE]
    BY <1>1, <2>1
  <2>3. PICK x \in LeafRecord : x = page[k] /\ LeafOfLog(x)
    BY <2>2 DEF Page
  <2>4. PICK y : y = [x EXCEPT !.intact = FALSE]
    OBVIOUS
  <2>5. /\ y \in LeafRecord /\ y.index = x.index /\ y.txHash = x.txHash
        /\ y.prevHash = x.prevHash /\ y.type = x.type
    BY <2>3, <2>4 DEF LeafRecord
  <2>6. LeafOfLog(y)
    BY <2>3, <2>5 DEF LeafOfLog
  <2>7. p = [page EXCEPT ![k] = y]
    BY <2>2, <2>3, <2>4
  <2>8. p \in Seq(LeafRecord) /\ Len(p) = Len(page)
    BY <2>5, <2>7 DEF Page
  <2>9. \A j \in 1 .. Len(p) : p[j] = y \/ p[j] = page[j]
    BY <2>7, <2>8 DEF Page
  <2>10. QED
    BY <2>6, <2>8, <2>9 DEF Page
<1>4. QED
  BY <1>2, <1>3 DEF AlteredPages

\* Two pages, one after the other, are leaves of the log.
LEMMA PagesJoin ==
    ASSUME NEW p, NEW q, Page(p), Page(q)
    PROVE  Page(p \o q)
<1>1. PICK r : r = p \o q
  OBVIOUS
<1>2. r \in Seq(LeafRecord) /\ Len(r) = Len(p) + Len(q)
  BY <1>1 DEF Page
<1>3. \A j \in 1 .. Len(r) : r[j] = IF j <= Len(p) THEN p[j] ELSE q[j - Len(p)]
  BY <1>1 DEF Page
<1>4. ASSUME NEW j \in 1 .. Len(r)
      PROVE  LeafOfLog(r[j])
  <2>1. Len(p) \in Nat /\ Len(q) \in Nat
    BY DEF Page
  <2>2. CASE j <= Len(p)
    BY <1>3, <2>2, <2>1 DEF Page
  <2>3. CASE j > Len(p)
    <3>1. j - Len(p) \in 1 .. Len(q)
      BY <1>2, <2>1, <2>3
    <3>2. QED
      BY <1>3, <2>1, <2>3, <3>1 DEF Page
  <2>4. QED
    BY <2>1, <2>2, <2>3
<1>5. QED
  BY <1>1, <1>2, <1>4 DEF Page

\* The log grows, or is forked, once.
LogStep ==
    /\ n' \in n .. MaxLeaves
    /\ fork' = fork \/ fork = {}

\* No step of an audit shortens the log or forks it again.
LEMMA ServerKeepsLog ==
    ASSUME LogTypes, AuditNext
    PROVE  LogStep
<1>1. n \in Nat /\ n \in n .. MaxLeaves /\ MaxLeaves \in Nat
  BY MaxLeavesAssumption DEF LogTypes
<1>2. ASSUME UNCHANGED <<n, fork>> PROVE LogStep
  BY <1>1, <1>2 DEF LogStep
<1>3. CASE step = "none" /\ SingleProof
  <2>1. CASE Grow
    BY <1>1, <2>1 DEF Grow, LogStep
  <2>2. CASE \E j \in 1 .. n : Fork(j)
    BY <1>1, <2>2 DEF Fork, LogStep
  <2>3. CASE \E i \in 0 .. n - 1 : AskInclusion(i)
    BY <1>2, <2>3 DEF AskInclusion
  <2>4. CASE \E m \in 1 .. n : AskConsistency(m)
    BY <1>2, <2>4 DEF AskConsistency
  <2>5. CASE Alter
    BY <1>2, <2>5 DEF Alter
  <2>6. QED
    BY <1>3, <2>1, <2>2, <2>3, <2>4, <2>5 DEF SingleProof, Next
<1>4. CASE Send
  BY <1>2, <1>4 DEF Send, vars
<1>5. CASE Refuse
  BY <1>2, <1>5 DEF Refuse, vars
<1>6. ASSUME NEW r, Answer(r) PROVE LogStep
  BY <1>2, <1>6 DEF Answer, vars
<1>7. CASE AnswerSTH \/ AnswerLeaves \/ AnswerConsistency \/ \E i \in 0 .. TreeSize - 1 : AnswerInclusion(i)
  BY <1>6, <1>7 DEF AnswerSTH, AnswerLeaves, AnswerConsistency, AnswerInclusion
<1>8. CASE ServerStep
  <2>1. CASE n < MaxAudit /\ Grow
    BY <1>1, <2>1 DEF Grow, LogStep
  <2>2. CASE \E j \in 1 .. n : Fork(j)
    BY <1>1, <2>2 DEF Fork, LogStep
  <2>3. QED
    BY <1>8, <2>1, <2>2 DEF ServerStep
<1>9. CASE OtherRequest
  BY <1>2, <1>9 DEF OtherRequest, vars
<1>10. QED
  BY <1>3, <1>4, <1>5, <1>7, <1>8, <1>9 DEF AuditNext

\* What was a hash of the log stays one.
LEMMA LogHashKept ==
    ASSUME LogTypes, LogStep, NEW j \in Nat \ {0}, NEW x, LogHash(j, x)
    PROVE  LogHash(j, x)'
<1>1. fork' = fork \/ fork = {}
  BY DEF LogStep
<1>2. QED
  BY <1>1 DEF LogHash

\* A fetched tree head stays that of a prefix of the log.
LEMMA HeadKept ==
    ASSUME LogTypes, LogStep, HeadOfLog, head' = head
    PROVE  HeadOfLog'
<1>1. \A k \in 1 .. Len(head) : LogHash(k, head[k])'
  <2>1. TAKE k \in 1 .. Len(head)
  <2>2. k \in Nat \ {0} /\ LogHash(k, head[k])
    BY DEF HeadOfLog
  <2>3. PICK x : x = head[k]
    OBVIOUS
  <2>4. LogHash(k, x)'
    BY <2>2, <2>3, LogHashKept
  <2>5. QED
    BY <2>3, <2>4 DEF LogHash
<1>2. Len(head) \in 0 .. n'
  BY DEF HeadOfLog, LogTypes, LogStep
<1>3. QED
  BY <1>1, <1>2 DEF HeadOfLog

\* A leaf record that was answered stays one of the log.
LEMMA LeafKept ==
    ASSUME LogTypes, LogStep, NEW x, LeafOfLog(x)
    PROVE  LeafOfLog(x)'
<1>1. x.index + 1 \in Nat \ {0} /\ x.index \in 0 .. n' - 1
  BY DEF LeafOfLog, LogTypes, LogStep
<1>2. PICK j, y : j = x.index + 1 /\ y = x.txHash
  OBVIOUS
<1>3. LogHash(j, y)
  BY <1>2 DEF LeafOfLog
<1>4. LogHash(j, y)'
  BY <1>1, <1>2, <1>3, LogHashKept
<1>5. QED
  BY <1>1, <1>2, <1>4 DEF LeafOfLog, LogHash

\* So do all fetched ones.
LEMMA LeavesKept ==
    ASSUME LogTypes, LogStep, NEW p, Page(p)
    PROVE  Page(p)'
<1>1. \A k \in 1 .. Len(p) : LeafOfLog(p[k])'
  <2>1. TAKE k \in 1 .. Len(p)
  <2>2. PICK x : x = p[k] /\ LeafOfLog(x)
    BY DEF Page
  <2>3. LeafOfLog(x)'
    BY <2>2, LeafKept
  <2>4. QED
    BY <2>2, <2>3 DEF LeafOfLog, LogHash
<1>2. QED
  BY <1>1 DEF Page

\* The hashes of the fetched leaves.
LEMMA HashesType ==
    ASSUME NEW p \in Seq(LeafRecord)
    PROVE  /\ HashesOf(p) \in Seq(Hash) /\ Len(HashesOf(p)) = Len(p)
           /\ \A k \in 1 .. Len(p) : HashesOf(p)[k] = p[k].txHash
<1>1. ASSUME NEW k \in 1 .. Len(p) PROVE p[k].txHash \in Hash
  <2>1. p[k] \in LeafRecord
    OBVIOUS
  <2>2. QED
    BY <2>1 DEF LeafRecord
<1>2. HashesOf(p) = [k \in 1 .. Len(p) |-> p[k].txHash]
  BY DEF HashesOf
<1>3. QED
  BY <1>1, <1>2

\* The root is checked against all leaves.
LEMMA RootBindsLeaves ==
    ASSUME NEW p \in Seq(LeafRecord), HeadOfLog, LeavesOk(p)
    PROVE  HashesOf(p) = head
<1>1. HashesOf(p) \in Seq(Hash) /\ Len(HashesOf(p)) = Len(head)
  BY HashesType DEF LeavesOk, TreeSize
<1>2. RootFromLeafHashes(HashesOf(p)) = RootFromLeafHashes(head)
  BY DEF LeavesOk, RootMatches
<1>3. QED
  BY <1>1, <1>2, RootCommits DEF HeadOfLog

\* An audit begins with nothing fetched.
LEMMA InitSeenInv == AuditInit => SeenInv
<1> SUFFICES ASSUME AuditInit PROVE SeenInv
  OBVIOUS
<1>1. n = 1 /\ fork = {} /\ step \in {"none", "sth"} /\ head = <<>> /\ leaves = <<>>
  BY DEF AuditInit, Init
<1>2. LogTypes
  BY <1>1, MaxLeavesAssumption DEF LogTypes, Steps, Asking
<1>3. HeadOfLog
  BY <1>1 DEF HeadOfLog
<1>4. LeavesOfLog
  BY <1>1 DEF LeavesOfLog
<1>5. QED
  BY <1>1, <1>2, <1>3, <1>4 DEF SeenInv

\* After the leaves an audit checks proofs or has passed.
LEMMA AfterSamplesStep == ASSUME NEW k PROVE AfterSamples(k) \in {"inclusion", "consistency", "pass"}
BY DEF AfterSamples

\* What an audit has fetched is of the log, and is checked before the proofs are.
LEMMA NextSeenInv == SeenInv /\ [AuditNext]_auditVars => SeenInv'
<1> SUFFICES ASSUME SeenInv, [AuditNext]_auditVars PROVE SeenInv'
  OBVIOUS
<1>1. LogTypes /\ HeadOfLog /\ Page(leaves) /\ (step \in {"inclusion", "consistency", "pass"} => Checked)
  BY DEF SeenInv, LeavesOfLog, Page
<1>2. LogStep
  <2>1. CASE AuditNext
    BY <1>1, <2>1, ServerKeepsLog
  <2>2. CASE UNCHANGED auditVars
    BY <1>1, <2>2, MaxLeavesAssumption DEF auditVars, vars, LogStep, LogTypes
  <2>3. QED
    BY <2>1, <2>2
<1>3. n' \in 1 .. MaxLeaves
  BY <1>1, <1>2, MaxLeavesAssumption DEF LogTypes, LogStep
<1>4. ASSUME step' \in Steps, HeadOfLog', Page(leaves)',
             step' \in {"inclusion", "consistency", "pass"} => Checked'
      PROVE  SeenInv'
  BY <1>3, <1>4 DEF SeenInv, LogTypes, LeavesOfLog, Page
<1>5. ASSUME head' = head, leaves' = leaves PROVE HeadOfLog' /\ Page(leaves)'
  <2>1. HeadOfLog'
    BY <1>1, <1>2, <1>5, HeadKept
  <2>2. PICK p : p = leaves
    OBVIOUS
  <2>3. Page(p)'
    BY <1>1, <1>2, <2>2, LeavesKept
  <2>4. QED
    BY <1>5, <2>1, <2>2, <2>3 DEF Page, LeafOfLog, LogHash
<1>6. ASSUME head' = head, leaves' = leaves,
             step' = step \/ step' = "fail" \/
                 (step \in {"inclusion", "consistency"} /\ step' \in {"inclusion", "consistency", "pass"})
      PROVE  SeenInv'
  <2>1. step' \in Steps
    BY <1>1, <1>6 DEF Steps, LogTypes, Asking
  <2>2. step' \in {"inclusion", "consistency", "pass"} => Checked
    BY <1>1, <1>6
  <2>3. Checked => Checked'
    BY <1>6 DEF Checked, HashesOf, ChainOk, HasGenesis
  <2>4. QED
    BY <1>4, <1>5, <1>6, <2>1, <2>2, <2>3
<1>7. CASE (step = "none" /\ SingleProof) \/ Send \/ Refuse \/ ServerStep \/ OtherRequest
              \/ UNCHANGED auditVars
  BY <1>6, <1>7 DEF SingleProof, Send, Refuse, ServerStep, OtherRequest, auditVars, audit
<1>8. CASE AnswerSTH
  <2>1. n' = n /\ fork' = fork /\ head' = ServerLog /\ step' = "leaves" /\ leaves' = leaves
    BY <1>8 DEF AnswerSTH, Answer, vars
  <2>2. n \in Nat
    BY <1>1 DEF LogTypes
  <2>3. \A k \in 1 .. n : ServerLog[k] \in Hash /\ LogHash(k, ServerLog[k])
    BY <1>1, LeafType
  <2>4. ServerLog \in Seq(Hash) /\ Len(ServerLog) = n
    BY <2>2, <2>3 DEF ServerLog
  <2>5. PICK h \in Seq(Hash) : h = ServerLog
    BY <2>4
  <2>6. HeadOfLog'
    BY <2>1, <2>2, <2>3, <2>4, <2>5 DEF HeadOfLog, LogHash
  <2>7. Page(leaves)'
    BY <1>1, <2>1 DEF Page, LeafOfLog, LogHash
  <2>8. QED
    BY <1>4, <2>1, <2>6, <2>7 DEF Steps, Asking
<1>9. CASE AnswerLeaves
  <2>1. n' = n /\ fork' = fork /\ head' = head /\ step = "leaves"
    BY <1>9 DEF AnswerLeaves, Answer, vars
  <2>2. PICK page : page = RangeLeaves(NextFrom, TreeSize)
    OBVIOUS
  <2>3. Page(page)
    <3>1. TreeSize \in 0 .. n
      BY <1>1 DEF HeadOfLog, TreeSize
    <3>2. NextFrom \in Nat
      <4>1. CASE leaves = <<>>
        BY <4>1 DEF NextFrom
      <4>2. CASE leaves # <<>>
        <5>1. Len(leaves) \in 1 .. Len(leaves) /\ leaves[Len(leaves)] \in LeafRecord
          BY <1>1, <4>2 DEF Page
        <5>2. QED
          BY <4>2, <5>1 DEF NextFrom, Last, LeafRecord
      <4>3. QED
        BY <4>1, <4>2
    <3>3. QED
      BY <1>1, <2>2, <3>1, <3>2, RangeIsPage
  <2>4. PICK p : Page(p) /\ leaves' = leaves \o p
    <3>1. leaves' = leaves \o page \/ \E p \in AlteredPages(page) : leaves' = leaves \o p
      BY <1>9, <2>2 DEF AnswerLeaves
    <3>2. QED
      BY <2>3, <3>1, AlteredIsPage
  <2>5. PICK q : q = leaves' /\ Page(q)
    BY <1>1, <2>4, PagesJoin
  <2>6. Page(leaves)'
    BY <2>1, <2>5 DEF Page, LeafOfLog, LogHash
  <2>7. HeadOfLog'
    BY <1>1, <1>2, <2>1, HeadKept
  <2>8. step' \in {"fail", "leaves"} \/ (LeavesOk(q) /\ step' \in {"inclusion", "consistency", "pass"})
    <3>1. step' = IF leaves' = leaves THEN "fail"
                  ELSE IF Last(leaves').index + 1 < TreeSize THEN "leaves"
                  ELSE IF LeavesOk(leaves') THEN AfterSamples(samples) ELSE "fail"
      BY <1>9 DEF AnswerLeaves
    <3>2. QED
      BY <2>5, <3>1, AfterSamplesStep
  <2>9. ASSUME LeavesOk(q) PROVE Checked'
    <3>1. q \in Seq(LeafRecord)
      BY <2>5 DEF Page
    <3>2. HashesOf(q) = head
      BY <1>1, <2>9, <3>1, RootBindsLeaves
    <3>3. ChainOk(q) /\ HasGenesis(q)
      BY <2>9 DEF LeavesOk
    <3>4. QED
      BY <2>1, <2>5, <3>2, <3>3 DEF Checked, HashesOf, ChainOk, HasGenesis
  <2>10. step' \in Steps
    BY <2>8 DEF Steps, Asking
  <2>11. step' \in {"inclusion", "consistency", "pass"} => Checked'
    BY <2>8, <2>9
  <2>12. QED
    BY <1>4, <2>6, <2>7, <2>10, <2>11
<1>10. CASE AnswerConsistency
  <2>1. step = "consistency" /\ head' = head /\ leaves' = leaves /\ step' \in {"pass", "fail"}
    BY <1>10 DEF AnswerConsistency, Answer
  <2>2. QED
    BY <1>6, <2>1
<1>11. CASE \E i \in 0 .. TreeSize - 1 : AnswerInclusion(i)
  <2>1. PICK i : AnswerInclusion(i)
    BY <1>11
  <2>2. /\ step = "inclusion" /\ head' = head /\ leaves' = leaves
        /\ step' = "fail" \/ step' = AfterSamples(samples - 1)
    BY <2>1 DEF AnswerInclusion, Answer
  <2>3. QED
    BY <1>6, <2>2, AfterSamplesStep
<1>12. QED
  BY <1>7, <1>8, <1>9, <1>10, <1>11 DEF AuditNext

\* An accepted log is the one below the signed root, and a chain: a leaf that follows a
\* replaced one was replaced too.
LEMMA CheckedIsCommitted == SeenInv => AcceptedIsCommitted
<1> SUFFICES ASSUME SeenInv, step = "pass" PROVE
        /\ HashesOf(leaves) = head
        /\ \A k \in 1 .. Len(head) - 1 : head[k] # TrueLog[k] => head[k + 1] # TrueLog[k + 1]
  BY DEF AcceptedIsCommitted
<1>1. LogTypes /\ HeadOfLog /\ LeavesOfLog /\ HashesOf(leaves) = head /\ ChainOk(leaves)
  BY DEF SeenInv, Checked
<1>2. /\ leaves \in Seq(LeafRecord) /\ Len(leaves) = Len(head) /\ Len(head) \in 0 .. n
      /\ DOMAIN leaves = 1 .. Len(head)
      /\ \A k \in 1 .. Len(head) : head[k] = leaves[k].txHash
  BY <1>1, HashesType DEF LeavesOfLog, HeadOfLog
<1>3. n \in Nat /\ \A j \in 1 .. n : j \in Int /\ Forged(j) \in Int
                         /\ \A k \in 1 .. n : j # Forged(k) /\ (Forged(j) = Forged(k) => j = k)
  BY <1>1, MaxLeavesAssumption DEF LogTypes, Forged
<1>4. ASSUME NEW k \in 1 .. Len(head)
      PROVE  leaves[k].index + 1 = k
  <2>1. LogHash(k, head[k]) /\ LeafOfLog(leaves[k])
    BY <1>1, <1>2 DEF HeadOfLog, LeavesOfLog
  <2>2. PICK j \in 1 .. n : j = leaves[k].index + 1 /\ LogHash(j, head[k])
    BY <1>2, <1>3, <2>1 DEF LeafOfLog
  <2>3. k \in 1 .. n
    BY <1>2, <1>3
  <2>4. QED
    BY <1>3, <2>1, <2>2, <2>3, LeafHashInjective DEF LogHash
<1>5. ASSUME NEW k \in 1 .. Len(head) - 1, head[k] # LeafHash(k)
      PROVE  head[k + 1] # LeafHash(k + 1)
  <2>1. k + 1 \in 1 .. Len(head) /\ k + 1 \in 1 .. n /\ k + 1 # 1 /\ (k + 1) - 1 = k
    BY <1>2, <1>3
  <2>2. leaves[k + 1].prevHash = head[k]
    BY <1>1, <1>2, <2>1 DEF ChainOk
  <2>3. leaves[k + 1].index + 1 = k + 1 /\ leaves[k + 1].index \in Int
    <3>1. leaves[k + 1] \in LeafRecord
      BY <1>2, <2>1
    <3>2. leaves[k + 1].index \in Int
      BY <3>1 DEF LeafRecord
    <3>3. QED
      BY <1>4, <2>1, <3>2
  <2>4. leaves[k + 1].index = k /\ k # 0
    BY <2>3
  <2>5. LeafOfLog(leaves[k + 1])
    BY <1>1, <1>2, <2>1 DEF LeavesOfLog
  <2>6. leaves[k + 1].txHash = LeafHash(Forged(k + 1))
    BY <1>5, <2>2, <2>4, <2>5 DEF LeafOfLog
  <2>7. QED
    BY <1>2, <1>3, <2>1, <2>6, LeafHashInjective
<1>6. \A k \in 1 .. Len(head) : TrueLog[k] = LeafHash(k)
  BY <1>2, <1>3 DEF TrueLog
<1>7. ASSUME NEW k \in 1 .. Len(head) - 1
      PROVE  k \in 1 .. Len(head) /\ k + 1 \in 1 .. Len(head)
  BY <1>2
<1>8. QED
  BY <1>1, <1>5, <1>6, <1>7

\* The audit accepts only what the signed root commits to, and no log that returns to
\* the true one after it left it.
THEOREM AcceptedLogsAreCommitted == AuditSpec => []AcceptedIsCommitted
<1>1. AuditInit => SeenInv
  BY InitSeenInv
<1>2. SeenInv /\ [AuditNext]_auditVars => SeenInv'
  BY NextSeenInv
<1>3. SeenInv => AcceptedIsCommitted
  BY CheckedIsCommitted
<1>4. QED
  BY <1>1, <1>2, <1>3, PTL DEF AuditSpec

-----------------------------------------------------------------------------
(* The audit of a server that keeps to its log.                             *)

Honest == fork = {} /\ ~ tampered /\ ~ refused

\* The leaf that an auditor expects to be the k-th.
InPlace(x, k) == x.index = k - 1 /\ x.intact /\ (k = 1 => x.type = "genesis")

LeavesInPlace(p) == \A k \in 1 .. Len(p) : InPlace(p[k], k)

HonestInv ==
    Honest =>
        /\ step # "fail"
        /\ step \in {"none", "sth"} => leaves = <<>>
        /\ step \notin {"none", "sth"} => Len(head) >= 1
        /\ step = "leaves" => Len(leaves) < Len(head)
        /\ step = "consistency" => Len(head) >= 2
        /\ LeavesInPlace(leaves)

\* The tree head of a log without a replaced leaf is that of its first leaves.
LEMMA HonestLog ==
    ASSUME LogTypes, HeadOfLog, fork = {}
    PROVE  /\ \A k \in 1 .. Len(head) : head[k] = LeafHash(k) /\ ServerLog[k] = head[k]
           /\ Take(ServerLog, Len(head)) = head
<1>1. n \in Nat /\ Len(head) \in 0 .. n /\ Len(head) \in Nat /\ head \in Seq(Hash)
  BY DEF LogTypes, HeadOfLog
<1>2. \A k \in 1 .. Len(head) : k \in 1 .. n /\ k # 0
  BY <1>1
<1>3. \A k \in 1 .. Len(head) : head[k] = LeafHash(k) /\ ServerLog[k] = LeafHash(k)
  <2>1. TAKE k \in 1 .. Len(head)
  <2>2. head[k] = LeafHash(k)
    BY <1>2 DEF HeadOfLog, LogHash
  <2>3. ServerLog[k] = LeafHash(k)
    BY <1>2 DEF ServerLog
  <2>4. QED
    BY <2>2, <2>3
<1>4. ServerLog \in Seq(Hash) /\ Len(ServerLog) = n
  BY LogsType DEF LogTypes, SizeType
<1>5. PICK h, g \in Seq(Hash) : h = ServerLog /\ g = head
  BY <1>1, <1>4
<1>6. PICK m \in 0 .. Len(h) : m = Len(g)
  BY <1>1, <1>4, <1>5
<1>7. PICK t \in Seq(Hash) : t = Take(h, m) /\ Len(t) = m /\ \A j \in 1 .. m : t[j] = h[j]
  BY TakeType
<1>8. t = g
  BY <1>3, <1>5, <1>6, <1>7, SeqEqual
<1>9. QED
  BY <1>3, <1>5, <1>6, <1>7, <1>8

\* RangeLeaves answers at least one leaf of an honest log, and the next ones.
LEMMA HonestPage ==
    ASSUME LogTypes, fork = {}, NEW from \in Nat, NEW to \in 0 .. n, from < to
    PROVE  LET p == RangeLeaves(from, to) IN
           /\ Len(p) \in 1 .. to - from
           /\ \A k \in 1 .. Len(p) : InPlace(p[k], from + k)
<1>1. PICK d \in Int : d = IF to - from > PageSize THEN PageSize ELSE to - from
  BY AuditAssumption DEF LogTypes
<1>2. d \in 1 .. to - from
  BY <1>1, AuditAssumption DEF LogTypes
<1>3. RangeLeaves(from, to) = [k \in 1 .. d |-> Leaf(from + k)]
  BY <1>1, AuditAssumption DEF RangeLeaves, LogTypes
<1>4. PICK p : p = [k \in 1 .. d |-> Leaf(from + k)]
  OBVIOUS
<1>5. Len(p) = d
  BY <1>2, <1>4
<1>6. \A k \in 1 .. d : InPlace(p[k], from + k)
  <2>1. TAKE k \in 1 .. d
  <2>2. p[k] = Leaf(from + k)
    BY <1>4
  <2>3. /\ Leaf(from + k).index = from + k - 1 /\ Leaf(from + k).intact
        /\ from + k = 1 => Leaf(from + k).type = "genesis"
    BY DEF Leaf
  <2>4. QED
    BY <2>2, <2>3 DEF InPlace
<1>7. QED
  BY <1>2, <1>3, <1>4, <1>5, <1>6

\* Complete leaves in place pass the checks of main.
LEMMA HonestLeavesOk ==
    ASSUME LogTypes, HeadOfLog, fork = {}, Len(head) >= 1,
           NEW p, Page(p), LeavesInPlace(p), Len(p) = Len(head)
    PROVE  LeavesOk(p)
<1>1. p \in Seq(LeafRecord) /\ DOMAIN p = 1 .. Len(p) /\ Len(p) \in Nat /\ 1 \in 1 .. Len(p)
  BY DEF Page
<1>2. \A k \in 1 .. Len(p) : /\ p[k].index = k - 1 /\ p[k].intact /\ p[k].txHash = LeafHash(k)
                             /\ p[k].prevHash = IF k = 1 THEN EmptyRoot ELSE LeafHash(k - 1)
  <2>1. TAKE k \in 1 .. Len(p)
  <2>2. PICK x : x = p[k] /\ LeafOfLog(x) /\ InPlace(x, k)
    BY DEF Page, LeavesInPlace
  <2>3. PICK y \in Int : y = x.index /\ y = k - 1
    BY <1>1, <2>2 DEF InPlace
  <2>4. /\ LogHash(y + 1, x.txHash) /\ (y = 0 => x.prevHash = EmptyRoot)
        /\ y # 0 /\ x.prevHash # LeafHash(y) => x.txHash = LeafHash(Forged(y + 1))
    BY <2>2, <2>3 DEF LeafOfLog
  <2>5. y + 1 = k /\ k # 0 /\ (y = 0 <=> k = 1)
    BY <1>1, <2>3
  <2>6. x.txHash = LeafHash(k)
    BY <2>4, <2>5 DEF LogHash
  <2>7. Forged(k) \in Int /\ k \in Int /\ Forged(k) # k
    BY <1>1, MaxLeavesAssumption DEF Forged
  <2>8. LeafHash(k) # LeafHash(Forged(k))
    BY <2>7, LeafHashInjective
  <2>9. k # 1 => x.prevHash = LeafHash(y)
    BY <2>4, <2>5, <2>6, <2>8
  <2>10. QED
    BY <2>2, <2>3, <2>4, <2>5, <2>6, <2>9 DEF InPlace
<1>3. ChainOk(p)
  <2>1. \A k \in 1 .. Len(p) : k # 1 => k - 1 \in 1 .. Len(p)
    BY <1>1
  <2>2. QED
    BY <1>1, <1>2, <2>1 DEF ChainOk
<1>4. RootMatches(p)
  <2>1. PICK h \in Seq(Hash) : /\ h = HashesOf(p) /\ Len(h) = Len(p)
                               /\ \A k \in 1 .. Len(p) : h[k] = p[k].txHash
    BY <1>1, HashesType
  <2>2. \A k \in 1 .. Len(h) : h[k] = head[k]
    BY <1>2, <2>1, HonestLog
  <2>3. h = head
    BY <2>1, <2>2, SeqEqual DEF HeadOfLog
  <2>4. QED
    BY <2>1, <2>3 DEF RootMatches
<1>5. HasGenesis(p)
  BY <1>1 DEF HasGenesis, LeavesInPlace, InPlace
<1>6. QED
  BY <1>3, <1>4, <1>5 DEF LeavesOk, TreeSize

\* The proofs that an honest server answers for what the auditor has checked.
LEMMA HonestInclusionOk ==
    ASSUME SeenInv, fork = {}, Checked, NEW i \in 0 .. TreeSize - 1
    PROVE  InclusionOk(i)
<1>1. LogTypes /\ HeadOfLog /\ HashesOf(leaves) = head /\ leaves \in Seq(LeafRecord)
  BY DEF SeenInv, Checked, LeavesOfLog
<1>2. head \in Seq(Hash) /\ Len(head) \in Nat /\ i \in 0 .. Len(head) - 1
  BY <1>1 DEF HeadOfLog, TreeSize
<1>3. i + 1 \in 1 .. Len(head)
  BY <1>2
<1>4. Take(ServerLog, TreeSize) = head /\ ServerLog[i + 1] = head[i + 1] /\ head[i + 1] \in Hash
  BY <1>1, <1>2, <1>3, HonestLog DEF TreeSize
<1>5. leaves[i + 1].txHash = head[i + 1]
  BY <1>1, <1>3, HashesType
<1>6. PICK h \in Seq(Hash) : h = head
  BY <1>2
<1>7. PICK x \in Hash : x = h[i + 1]
  BY <1>4, <1>6
<1>8. h # <<>>
  BY <1>2, <1>3, <1>6
<1>9. PICK pf \in Seq(Hash) : pf = inclusionProof(h, i)
  BY <1>2, <1>8, InclusionProofType
<1>10. VerifyInclusion(RootFromLeafHashes(h), x, i, Len(h), pf)
  BY <1>2, <1>6, <1>7, <1>9, InclusionVerified
<1>11. QED
  BY <1>1, <1>4, <1>5, <1>6, <1>7, <1>9, <1>10 DEF InclusionOk, TreeSize

\* The consistency proof that an honest server answers is accepted.
LEMMA HonestConsistencyOk ==
    ASSUME SeenInv, fork = {}, Checked, Len(head) >= 2
    PROVE  ConsistencyOk(TreeSize \div 2)
<1>1. LogTypes /\ HeadOfLog /\ HashesOf(leaves) = head
  BY DEF SeenInv, Checked
<1>2. head \in Seq(Hash) /\ Len(head) \in Nat /\ Take(ServerLog, TreeSize) = head
  BY <1>1, HonestLog DEF HeadOfLog, TreeSize
<1>3. PICK h \in Seq(Hash) : h = head
  BY <1>2
<1>4. PICK m : m = TreeSize \div 2
  OBVIOUS
<1>5. m \in 1 .. Len(h) /\ m \in 0 .. Len(h) /\ Len(h) \in 1 .. Len(h) /\ m \in 1 .. Len(h)
  <2>1. \A z \in Nat : z >= 2 => z \div 2 \in 1 .. z /\ z \in 1 .. z
    OBVIOUS
  <2>2. QED
    BY <1>2, <1>3, <1>4, <2>1 DEF TreeSize
<1>6. PICK g \in Seq(Hash) : g = Take(h, m) /\ Len(g) = m
  BY <1>5, TakeType
<1>7. PICK pf \in Seq(Hash) : pf = ConsistencyProof(h, m, Len(h))
  BY <1>5, ConsistencyProofType
<1>8. VerifyConsistency(RootFromLeafHashes(g), RootFromLeafHashes(h), m, Len(h), pf)
  BY <1>5, <1>6, <1>7, ConsistencyVerified
<1>9. QED
  BY <1>1, <1>2, <1>3, <1>4, <1>6, <1>7, <1>8 DEF ConsistencyOk, TreeSize

\* The next page of an honest server.
LEMMA HonestAnswer ==
    ASSUME SeenInv, fork = {}, step = "leaves", Len(leaves) < Len(head), LeavesInPlace(leaves),
           NEW q, q = leaves \o RangeLeaves(NextFrom, TreeSize)
    PROVE  /\ Page(q) /\ LeavesInPlace(q)
           /\ Len(q) > Len(leaves) /\ Len(q) <= Len(head) /\ q # <<>>
           /\ Last(q).index + 1 = Len(q)
<1>1. LogTypes /\ HeadOfLog /\ Page(leaves)
  BY DEF SeenInv, LeavesOfLog, Page
<1>2. PICK from, to \in Nat : from = Len(leaves) /\ to = Len(head) /\ to \in 0 .. n /\ from < to
  BY <1>1 DEF HeadOfLog, LogTypes, Page
<1>3. NextFrom = from
  <2>1. CASE leaves = <<>>
    BY <1>2, <2>1 DEF NextFrom
  <2>2. CASE leaves # <<>>
    <3>1. from \in 1 .. Len(leaves)
      BY <1>1, <1>2, <2>2 DEF Page
    <3>2. leaves[from].index = from - 1
      BY <3>1 DEF LeavesInPlace, InPlace
    <3>3. QED
      BY <1>2, <2>2, <3>2 DEF NextFrom, Last
  <2>3. QED
    BY <2>1, <2>2
<1>4. PICK p : p = RangeLeaves(from, to) /\ Page(p)
  BY <1>1, <1>2, RangeIsPage
<1>5. Len(p) \in 1 .. to - from /\ \A k \in 1 .. Len(p) : InPlace(p[k], from + k)
  BY <1>1, <1>2, <1>4, HonestPage
<1>6. q = leaves \o p
  BY <1>2, <1>3, <1>4 DEF TreeSize
<1>7. Page(q)
  BY <1>1, <1>4, <1>6, PagesJoin
<1>8. /\ Len(q) = from + Len(p)
      /\ \A j \in 1 .. from + Len(p) : q[j] = IF j <= from THEN leaves[j] ELSE p[j - from]
  BY <1>1, <1>2, <1>4, <1>6, ConcatProperties DEF Page
<1>9. PICK d \in Nat : d = Len(p) /\ d \in 1 .. to - from
  BY <1>2, <1>5
<1>10. ASSUME NEW j \in 1 .. Len(q) PROVE InPlace(q[j], j)
  <2>1. j \in Nat /\ j \in 1 .. from + d
    BY <1>2, <1>8, <1>9
  <2>2. CASE j <= from
    BY <1>2, <1>8, <1>9, <2>1, <2>2 DEF LeavesInPlace
  <2>3. CASE ~ (j <= from)
    <3>1. PICK k \in 1 .. d : k = j - from /\ from + k = j
      <4>1. \A u, v, w \in Nat : v \in 1 .. u + w /\ ~ (v <= u) => v - u \in 1 .. w /\ u + (v - u) = v
        OBVIOUS
      <4>2. j - from \in 1 .. d /\ from + (j - from) = j
        BY <1>2, <1>9, <2>1, <2>3, <4>1
      <4>3. QED
        BY <4>2
    <3>2. q[j] = p[k] /\ InPlace(p[k], from + k)
      BY <1>5, <1>8, <1>9, <2>1, <2>3, <3>1
    <3>3. QED
      BY <3>1, <3>2
  <2>4. QED
    BY <2>2, <2>3
<1>11. LeavesInPlace(q)
  BY <1>10 DEF LeavesInPlace
<1>12. Len(q) = from + d /\ Len(q) \in 1 .. Len(q) /\ Len(q) \in Nat
  BY <1>2, <1>8, <1>9
<1>13. Last(q).index = Len(q) - 1
  BY <1>11, <1>12 DEF Last, LeavesInPlace, InPlace
<1>14. q # <<>>
  BY <1>7, <1>12 DEF Page
<1>15. QED
  BY <1>2, <1>7, <1>9, <1>11, <1>12, <1>13, <1>14

\* An audit begins with no leaves.
LEMMA InitHonestInv == AuditInit => HonestInv
<1> SUFFICES ASSUME AuditInit PROVE HonestInv
  OBVIOUS
<1>1. step \in {"none", "sth"} /\ leaves = <<>>
  BY DEF AuditInit
<1>2. LeavesInPlace(leaves)
  BY <1>1 DEF LeavesInPlace
<1>3. QED
  BY <1>1, <1>2 DEF HonestInv

\* No step makes the audit of an honest server fail, whatever the log does meanwhile.
LEMMA NextHonestInv == SeenInv /\ HonestInv /\ [AuditNext]_auditVars => HonestInv'
<1> SUFFICES ASSUME SeenInv, HonestInv, [AuditNext]_auditVars, Honest' PROVE HonestInv'
  BY DEF HonestInv
<1>1. /\ LogTypes /\ HeadOfLog /\ Page(leaves)
      /\ step \in {"inclusion", "consistency", "pass"} => Checked
  BY DEF SeenInv, LeavesOfLog, Page
<1>2. LogStep
  <2>1. CASE AuditNext
    BY <1>1, <2>1, ServerKeepsLog
  <2>2. CASE UNCHANGED auditVars
    BY <1>1, <2>2, MaxLeavesAssumption DEF auditVars, vars, LogStep, LogTypes
  <2>3. QED
    BY <2>1, <2>2
<1>3. fork = {} /\ fork' = {} /\ ~ tampered' /\ ~ refused'
  BY <1>1, <1>2 DEF Honest, LogStep, LogTypes
<1>4. ASSUME ~ tampered, ~ refused
      PROVE  /\ step # "fail"
             /\ step \in {"none", "sth"} => leaves = <<>>
             /\ step \notin {"none", "sth"} => Len(head) >= 1
             /\ step = "leaves" => Len(leaves) < Len(head)
             /\ step = "consistency" => Len(head) >= 2
             /\ LeavesInPlace(leaves)
  BY <1>3, <1>4 DEF HonestInv, Honest
<1>5. ASSUME step' = step, head' = head, leaves' = leaves, ~ tampered, ~ refused
      PROVE  HonestInv'
  BY <1>4, <1>5 DEF HonestInv, LeavesInPlace, InPlace
<1>6. CASE (step = "none" /\ SingleProof) \/ Send \/ ServerStep \/ OtherRequest \/ UNCHANGED auditVars
  BY <1>3, <1>5, <1>6 DEF SingleProof, Send, ServerStep, OtherRequest, auditVars, audit
<1>7. CASE Refuse
  BY <1>3, <1>7 DEF Refuse
<1>8. ASSUME NEW k
      PROVE  /\ AfterSamples(k) \in {"inclusion", "consistency", "pass"}
             /\ AfterSamples(k) = "consistency" => Len(head) >= 2
  BY DEF AfterSamples, TreeSize
<1>9. CASE AnswerSTH
  <2>1. /\ step = "sth" /\ step' = "leaves" /\ head' = ServerLog /\ leaves' = leaves
        /\ ~ tampered /\ ~ refused
    BY <1>3, <1>9 DEF AnswerSTH, Answer
  <2>2. Len(ServerLog) >= 1
    BY <1>1, LogsType DEF LogTypes, SizeType
  <2>3. leaves = <<>> /\ Len(leaves) = 0
    BY <1>4, <2>1
  <2>4. Len(head') >= 1 /\ Len(leaves') < Len(head')
    <3>1. Len(ServerLog) \in Nat
      BY <1>1, LogsType DEF LogTypes, SizeType
    <3>2. QED
      BY <2>1, <2>2, <2>3, <3>1
  <2>5. LeavesInPlace(leaves)'
    BY <2>1, <2>3 DEF LeavesInPlace
  <2>6. QED
    BY <2>1, <2>4, <2>5 DEF HonestInv
<1>10. CASE AnswerLeaves
  <2>1. /\ step = "leaves" /\ head' = head /\ ~ tampered /\ ~ refused
        /\ leaves' = leaves \o RangeLeaves(NextFrom, TreeSize)
    BY <1>3, <1>10 DEF AnswerLeaves, Answer
  <2>2. Len(leaves) < Len(head) /\ LeavesInPlace(leaves) /\ Len(head) >= 1
    BY <1>4, <2>1
  <2>3. PICK q : q = leaves'
    OBVIOUS
  <2>4. /\ Page(q) /\ LeavesInPlace(q)
        /\ Len(q) > Len(leaves) /\ Len(q) <= Len(head)
        /\ Last(q).index + 1 = Len(q)
    BY <1>3, <2>1, <2>2, <2>3, HonestAnswer
  <2>5. q # leaves /\ Len(q) \in Nat /\ Len(head) \in Nat
    BY <1>1, <2>4 DEF Page, HeadOfLog
  <2>6. step' = IF Len(q) < Len(head) THEN "leaves"
                ELSE IF LeavesOk(q) THEN AfterSamples(samples) ELSE "fail"
    BY <1>10, <2>3, <2>4, <2>5 DEF AnswerLeaves, TreeSize
  <2>7. LeavesInPlace(leaves)'
    BY <2>3, <2>4 DEF LeavesInPlace, InPlace
  <2>8. CASE Len(q) < Len(head)
    BY <2>1, <2>2, <2>3, <2>6, <2>7, <2>8 DEF HonestInv
  <2>9. CASE ~ (Len(q) < Len(head))
    <3>1. Len(q) = Len(head)
      BY <2>4, <2>5, <2>9
    <3>2. LeavesOk(q)
      BY <1>1, <1>3, <2>2, <2>4, <3>1, HonestLeavesOk
    <3>3. step' \in {"inclusion", "consistency", "pass"} /\ (step' = "consistency" => Len(head) >= 2)
      BY <1>8, <2>6, <2>9, <3>2
    <3>4. QED
      BY <2>1, <2>2, <2>7, <3>3 DEF HonestInv
  <2>10. QED
    BY <2>8, <2>9
<1>11. CASE \E i \in 0 .. TreeSize - 1 : AnswerInclusion(i)
  <2>1. PICK i \in 0 .. TreeSize - 1 : AnswerInclusion(i)
    BY <1>11
  <2>2. /\ step = "inclusion" /\ head' = head /\ leaves' = leaves /\ ~ tampered /\ ~ refused
        /\ step' = IF InclusionOk(i) THEN AfterSamples(samples - 1) ELSE "fail"
    BY <1>3, <2>1 DEF AnswerInclusion, Answer
  <2>3. InclusionOk(i)
    BY <1>1, <1>3, <2>2, HonestInclusionOk
  <2>4. step' \in {"inclusion", "consistency", "pass"} /\ (step' = "consistency" => Len(head) >= 2)
    BY <1>8, <2>2, <2>3
  <2>5. LeavesInPlace(leaves)' /\ Len(head) >= 1
    BY <1>4, <2>2 DEF LeavesInPlace, InPlace
  <2>6. QED
    BY <2>2, <2>4, <2>5 DEF HonestInv
<1>12. CASE AnswerConsistency
  <2>1. /\ step = "consistency" /\ head' = head /\ leaves' = leaves /\ ~ tampered /\ ~ refused
        /\ step' = IF ConsistencyOk(TreeSize \div 2) THEN "pass" ELSE "fail"
    BY <1>3, <1>12 DEF AnswerConsistency, Answer
  <2>2. ConsistencyOk(TreeSize \div 2)
    BY <1>1, <1>3, <1>4, <2>1, HonestConsistencyOk
  <2>3. LeavesInPlace(leaves)' /\ Len(head) >= 1
    BY <1>4, <2>1 DEF LeavesInPlace, InPlace
  <2>4. QED
    BY <2>1, <2>2, <2>3 DEF HonestInv
<1>13. QED
  BY <1>6, <1>7, <1>9, <1>10, <1>11, <1>12 DEF AuditNext

\* The invariant is what the property says, and more.
LEMMA HonestInvPasses == HonestInv => HonestServerPasses
BY DEF HonestInv, HonestServerPasses, Honest

\* The audit of an honest server does not fail.
THEOREM HonestAuditsPass == AuditSpec => []HonestServerPasses
<1>1. AuditInit => SeenInv /\ HonestInv
  BY InitSeenInv, InitHonestInv
<1>2. SeenInv /\ HonestInv /\ [AuditNext]_auditVars => (SeenInv /\ HonestInv)'
  BY NextSeenInv, NextHonestInv
<1>3. HonestInv => HonestServerPasses
  BY HonestInvPasses
<1>4. QED
  BY <1>1, <1>2, <1>3, PTL DEF AuditSpec

-----------------------------------------------------------------------------
(* An audit composes the server and the rate limiter.                       *)

\* The server that is audited is that of Merkle.
LEMMA AuditStepIsServerStep == [AuditNext]_auditVars => [Next]_vars
<1>1. ASSUME UNCHANGED vars PROVE [Next]_vars
  BY <1>1
<1>2. CASE step = "none" /\ SingleProof
  BY <1>2 DEF SingleProof
<1>3. CASE Send \/ Refuse \/ OtherRequest \/ UNCHANGED auditVars
  BY <1>1, <1>3 DEF Send, Refuse, OtherRequest, auditVars
<1>4. CASE AnswerSTH \/ AnswerLeaves \/ AnswerConsistency \/ \E i \in 0 .. TreeSize - 1 : AnswerInclusion(i)
  BY <1>1, <1>4 DEF AnswerSTH, AnswerLeaves, AnswerConsistency, AnswerInclusion, Answer
<1>5. CASE ServerStep
  BY <1>5 DEF ServerStep, Next
<1>6. QED
  BY <1>2, <1>3, <1>4, <1>5 DEF AuditNext

\* An audit is a behaviour of the server of Merkle: what is proved of that server holds
\* while it is audited.
THEOREM AuditedServer == AuditSpec => Spec
<1>1. AuditInit => Init
  BY DEF AuditInit
<1>2. QED
  BY <1>1, AuditStepIsServerStep, PTL DEF AuditSpec, Spec

\* The requests of an audit are requests to the rate limiter.
LEMMA AuditStepIsLimiterStep == [AuditNext]_auditVars => [LimiterNext]_limiter
<1>1. ASSUME UNCHANGED limiter PROVE [LimiterNext]_limiter
  BY <1>1
<1>2. Auditor \in Requests /\ Home \in Clients
  BY AuditorAssumption
<1>3. CASE step = "none" /\ SingleProof
  BY <1>1, <1>3 DEF SingleProof
<1>4. CASE Send
  BY <1>2, <1>4 DEF Send, LimiterNext
<1>5. ASSUME Allow(Auditor) PROVE LimiterNext
  BY <1>2, <1>5 DEF LimiterNext
<1>6. CASE Refuse
  BY <1>5, <1>6 DEF Refuse
<1>7. CASE AnswerSTH \/ AnswerLeaves \/ AnswerConsistency \/ \E i \in 0 .. TreeSize - 1 : AnswerInclusion(i)
  BY <1>5, <1>7 DEF AnswerSTH, AnswerLeaves, AnswerConsistency, AnswerInclusion, Answer
<1>8. CASE ServerStep
  BY <1>1, <1>8 DEF ServerStep
<1>9. CASE OtherRequest
  BY <1>9 DEF OtherRequest, LimiterNext
<1>10. CASE UNCHANGED auditVars
  BY <1>1, <1>10 DEF auditVars
<1>11. QED
  BY <1>3, <1>4, <1>6, <1>7, <1>8, <1>9, <1>10 DEF AuditNext

\* An audit is a behaviour of the rate limiter: the auditor has the budget of its address,
\* and is refused only if the address used it up.
THEOREM AuditedLimiter == AuditSpec => LimiterSpec
<1>1. AuditInit => LimiterInit
  BY DEF AuditInit
<1>2. QED
  BY <1>1, AuditStepIsLimiterStep, PTL DEF AuditSpec, LimiterSpec

\* What is proved of the server's proofs and of the limiter holds during audits.
THEOREM AuditedProofs ==
    AuditSpec =>
        /\ [](RootIsBottomUp /\ InclusionComplete /\ InclusionSound)
        /\ [](ConsistencyComplete /\ ConsistencySound)
        /\ []WithinBudget /\ RefusalsAreEarned
<1>1. AuditSpec => []RootIsBottomUp
  BY AuditedServer, RootsAreBottomUp
<1>2. AuditSpec => []InclusionComplete /\ []InclusionSound
  BY AuditedServer, InclusionProofsAccepted, InclusionProofsBind
<1>3. AuditSpec => []ConsistencyComplete /\ []ConsistencySound
  BY AuditedServer, ConsistencyProofsAccepted, ConsistencyProofsBind
<1>4. AuditSpec => []WithinBudget /\ RefusalsAreEarned
  BY AuditedLimiter, BudgetIsKept, RefusalsAreDeserved
<1>5. QED
  BY <1>1, <1>2, <1>3, <1>4, PTL
=============================================================================
