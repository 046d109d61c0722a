------------------------------- MODULE Merkle -------------------------------
(***************************************************************************)
(* The RFC 6962 tree of internal/merkle/tree.go: roots, inclusion and       *)
(* consistency proofs, and their verifiers, which ledger-verify and the     *)
(* witnesses run against a server they do not trust.                        *)
(*                                                                         *)
(* SHA-256 is a constructor without collisions: the hash of leaf n is <<n>> *)
(* and that of an inner node its two children after the mark -1 and the     *)
(* length of the first.                                                     *)
(***************************************************************************)
EXTENDS Integers, Sequences, FiniteSets

CONSTANT MaxLeaves  \* bound: the number of leaves

ASSUME MaxLeavesAssumption == MaxLeaves \in Nat \ {0}

LeafHash(n) == <<n>>
NodeHash(left, right) == <<-1, Len(left)>> \o left \o right
EmptyRoot == <<>>

Take(h, k) == SubSeq(h, 1, k)
Last(s) == s[Len(s)]

pow2[a \in Nat] == IF a = 0 THEN 1 ELSE 2 * pow2[a - 1]

isPowerOfTwo(n) == \E a \in 0 .. n : n = pow2[a]

-----------------------------------------------------------------------------
(* Faulty variants of the definitions below.                                *)

HalfOf(n) == n \div 2
LeftOrMiddle(i, k) == i <= k
AnyRest(rest) == TRUE
OddOnly(mm, nn) == mm % 2 = 1
OldRootUnchecked(hash, oldRoot) == TRUE

-----------------------------------------------------------------------------
(* Roots and proofs.  The code recurses on slices of a list of hashes; here  *)
(* a slice is <<the number of hashes before it, its length>>.               *)

\* The split point of a tree of n > 1 leaves.
largestPowerOfTwoLessThan(n) ==
    CHOOSE k \in 1 .. n - 1 : k * 2 >= n /\ isPowerOfTwo(k)

Slices(h) == {s \in (0 .. Len(h)) \X (1 .. Len(h)) : s[1] + s[2] <= Len(h)}

LeftOf(s) == <<s[1], largestPowerOfTwoLessThan(s[2])>>
RightOf(s) ==
    LET k == largestPowerOfTwoLessThan(s[2]) IN <<s[1] + k, s[2] - k>>

Roots(h) ==
    LET root[s \in Slices(h)] ==
            IF s[2] = 1 THEN h[s[1] + 1] ELSE NodeHash(root[LeftOf(s)], root[RightOf(s)])
    IN root

rootOfHashes(h) == Roots(h)[<<0, Len(h)>>]

RootFromLeafHashes(h) == IF h = <<>> THEN EmptyRoot ELSE rootOfHashes(h)

\* The siblings on the way from leaf i (0-based) to the root, deepest first.
inclusionProof(h, i) ==
    LET path[s \in Slices(h)] ==
            IF s[2] = 1 THEN <<>>
            ELSE IF i < RightOf(s)[1] THEN Append(path[LeftOf(s)], Roots(h)[RightOf(s)])
            ELSE Append(path[RightOf(s)], Roots(h)[LeftOf(s)])
    IN path[<<0, Len(h)>>]

\* SUBPROOF: that the first m of the first n hashes make up the old tree; b says
\* that the verifier has the root of the old tree, which no right part is.
subProof(h, m, n, b) ==
    LET path[s \in {t \in Slices(h) : t[1] < m /\ m <= t[1] + t[2]}] ==
            IF m = s[1] + s[2] THEN IF b /\ s[1] = 0 THEN <<>> ELSE << Roots(h)[s] >>
            ELSE IF m <= RightOf(s)[1] THEN Append(path[LeftOf(s)], Roots(h)[RightOf(s)])
            ELSE Append(path[RightOf(s)], Roots(h)[LeftOf(s)])
    IN path[<<0, n>>]

ConsistencyProof(h, m, n) == subProof(h, m, n, TRUE)

-----------------------------------------------------------------------------
(* The verifiers.                                                           *)

Failed == [ok |-> FALSE, hash |-> EmptyRoot, rest |-> 0]

GoesLeft(i, k) == i < k

\* Rebuilds the root above a leaf; the proof is consumed from its end, and "rest"
\* of its elements are left.
verifyDescend(leaf, index, size, proof) ==
    LET down[s \in (0 .. index) \X (1 .. size) \X (0 .. Len(proof))] ==
            LET i == s[1]
                rest == s[3]
                k == largestPowerOfTwoLessThan(s[2])
                left == GoesLeft(i, k)
                sub == down[IF left THEN <<i, k, rest - 1>> ELSE <<i - k, s[2] - k, rest - 1>>] IN
            IF s[2] = 1 THEN [ok |-> TRUE, hash |-> leaf, rest |-> rest]
            ELSE IF rest = 0 \/ ~ sub.ok THEN Failed
            ELSE [sub EXCEPT !.hash = IF left THEN NodeHash(sub.hash, proof[rest])
                                      ELSE NodeHash(proof[rest], sub.hash)]
    IN down[<<index, size, Len(proof)>>]

NothingLeft(rest) == rest = 0

VerifyInclusion(root, leaf, i, size, proof) ==
    /\ 0 <= i /\ i < size
    /\ LET r == verifyDescend(leaf, i, size, proof) IN
       r.ok /\ NothingLeft(r.rest) /\ r.hash = root

\* Shift both sizes right, and do so while the first is odd, or even.
Halved(s) == <<s[1] \div 2, s[2] \div 2>>
WhileOdd[s \in Nat \X Nat] == IF s[1] % 2 = 1 THEN WhileOdd[Halved(s)] ELSE s
WhileEven[s \in Nat \X Nat] == IF s[1] % 2 = 0 /\ s[1] > 0 THEN WhileEven[Halved(s)] ELSE s

\* The next element of the proof is a left sibling, part of both trees.
OnRightEdge(mm, nn) == mm % 2 = 1 \/ mm = nn

\* One turn of the loop of walkConsistency, with the sibling it reads.
Combine(w, sibling) ==
    IF OnRightEdge(w.sizes[1], w.sizes[2])
    THEN [old |-> NodeHash(sibling, w.old), new |-> NodeHash(sibling, w.new),
          sizes |-> Halved(WhileEven[w.sizes])]
    ELSE [old |-> w.old, new |-> NodeHash(w.new, sibling), sizes |-> Halved(w.sizes)]

\* Both hashes start as path[1].  The loop must end with the path.
walkConsistency(path, m, n) ==
    LET walk[t \in 1 .. Len(path)] ==
            IF t = 1 THEN [old |-> path[1], new |-> path[1], sizes |-> WhileOdd[<<m - 1, n - 1>>]]
            ELSE IF walk[t - 1].sizes[2] = 0 THEN walk[t - 1]
            ELSE Combine(walk[t - 1], path[t])
    IN [ok |-> \A t \in 1 .. Len(path) : walk[t].sizes[2] = 0 <=> t = Len(path),
        old |-> walk[Len(path)].old, new |-> walk[Len(path)].new]

OldRootMatches(hash, oldRoot) == hash = oldRoot

VerifyConsistency(oldRoot, newRoot, m, n, proof) ==
    IF m = n THEN proof = <<>> /\ oldRoot = newRoot
    ELSE LET path == IF isPowerOfTwo(m) THEN <<oldRoot>> \o proof ELSE proof IN
         /\ 0 < m /\ m < n
         /\ path # <<>>
         /\ LET r == walkConsistency(path, m, n) IN
            r.ok /\ OldRootMatches(r.old, oldRoot) /\ r.new = newRoot

-----------------------------------------------------------------------------
(* A server and a client.  The server's log is a log that the client may    *)
(* have seen a prefix of, or a fork of it.  A fork replaces one leaf, or a  *)
(* leaf and with it all later ones; the answer may be altered in one place. *)

VARIABLES
    n,      \* the size of the server's log
    fork,   \* the positions whose leaves it replaced
    ask,    \* what the client asked for: [kind, at]
    proof,  \* the answer
    altered \* the answer was altered

vars == <<n, fork, ask, proof, altered>>

Forged(j) == MaxLeaves + j
ServerLog == [j \in 1 .. n |-> LeafHash(IF j \in fork THEN Forged(j) ELSE j)]
TrueLog == [j \in 1 .. n |-> LeafHash(j)]

Foreign == LeafHash(0)  \* the hash of what is no leaf of any log

Hashes == {Foreign, RootFromLeafHashes(ServerLog)}
              \cup {ServerLog[j] : j \in 1 .. n} \cup {proof[j] : j \in DOMAIN proof}

\* The answer without one of its elements, with another in its place, with one more.
Cut(j) == SubSeq(proof, 1, j - 1) \o SubSeq(proof, j + 1, Len(proof))
Replaced(j, x) == [proof EXCEPT ![j] = x]
Inserted(j, x) == SubSeq(proof, 1, j) \o <<x>> \o SubSeq(proof, j + 1, Len(proof))

Altered == {Cut(j) : j \in DOMAIN proof}
    \cup {Replaced(j, x) : j \in DOMAIN proof, x \in Hashes}
    \cup {Inserted(j, x) : j \in 0 .. Len(proof), x \in Hashes}

Init == n = 1 /\ fork = {} /\ ask = [kind |-> "none", at |-> 0] /\ proof = <<>> /\ altered = FALSE

Grow ==
    /\ n < MaxLeaves /\ ask.kind = "none"
    /\ n' = n + 1
    /\ UNCHANGED <<fork, ask, proof, altered>>

\* The later leaves keep the hash of their predecessor, or are chained anew: it
\* is part of a leaf's hash and not of what its signer signed.
Fork(j) ==
    /\ fork = {} /\ ask.kind = "none"
    /\ fork' \in {{j}, j .. MaxLeaves}
    /\ UNCHANGED <<n, ask, proof, altered>>

AskInclusion(i) ==
    /\ ask.kind = "none"
    /\ ask' = [kind |-> "inclusion", at |-> i]
    /\ proof' = inclusionProof(ServerLog, i)
    /\ UNCHANGED <<n, fork, altered>>

AskConsistency(m) ==
    /\ ask.kind = "none"
    /\ ask' = [kind |-> "consistency", at |-> m]
    /\ proof' = ConsistencyProof(ServerLog, m, n)
    /\ UNCHANGED <<n, fork, altered>>

Alter ==
    /\ ask.kind # "none" /\ ~ altered
    /\ proof' \in Altered \ {proof}
    /\ altered' = TRUE
    /\ UNCHANGED <<n, fork, ask>>

Next ==
    \/ Grow
    \/ \E j \in 1 .. n : Fork(j)
    \/ \E i \in 0 .. n - 1 : AskInclusion(i)
    \/ \E m \in 1 .. n : AskConsistency(m)
    \/ Alter

Spec == Init /\ [][Next]_vars

-----------------------------------------------------------------------------
(* Properties.                                                              *)

\* The tree of the package comment, built level by level from the leaves with
\* an odd last node promoted, has the root that the recursive split computes.
Paired(level) ==
    [j \in 1 .. (Len(level) + 1) \div 2 |->
        IF 2 * j > Len(level) THEN level[2 * j - 1]
        ELSE NodeHash(level[2 * j - 1], level[2 * j])]

BottomUp(h) ==
    LET level[a \in Nat] == IF a = 0 THEN h ELSE Paired(level[a - 1])
    IN level[Len(h)][1]

RootIsBottomUp == RootFromLeafHashes(ServerLog) = BottomUp(ServerLog)

\* The verifier accepts the server's inclusion proof of each of its leaves.
InclusionComplete ==
    ask.kind = "inclusion" /\ ~ altered =>
        VerifyInclusion(RootFromLeafHashes(ServerLog), ServerLog[ask.at + 1], ask.at, n, proof)

\* Whatever the answer, VerifyInclusion accepts no leaf at an index where the
\* tree has another, and no path but the one that inclusionProof gives there.
InclusionSound ==
    ask.kind = "inclusion" =>
        \A i \in 0 .. n - 1, x \in {ServerLog[j] : j \in 1 .. n} \cup {Foreign} :
            VerifyInclusion(RootFromLeafHashes(ServerLog), x, i, n, proof) =>
                x = ServerLog[i + 1] /\ proof = inclusionProof(ServerLog, i)

\* The verifier accepts the proof that any prefix of the log is one.
ConsistencyComplete ==
    ask.kind = "consistency" /\ ~ altered =>
        VerifyConsistency(RootFromLeafHashes(Take(ServerLog, ask.at)),
                          RootFromLeafHashes(ServerLog), ask.at, n, proof)

\* Whatever the answer, a client that saw the first m leaves of the true log
\* accepts a server's log only if these are its first m leaves, and no proof but
\* the one of subProof: a leaf that was published cannot be replaced.
ConsistencySound ==
    ask.kind = "consistency" =>
        \A m \in 1 .. n :
            VerifyConsistency(RootFromLeafHashes(Take(TrueLog, m)),
                              RootFromLeafHashes(ServerLog), m, n, proof) =>
                /\ Take(TrueLog, m) = Take(ServerLog, m)
                /\ proof = ConsistencyProof(ServerLog, m, n)
=============================================================================
