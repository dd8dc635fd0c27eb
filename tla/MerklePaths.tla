----------------------------- MODULE MerklePaths ------------------------------
(***************************************************************************)
(* src/tree.rs, the proofs: inclusion and consistency paths derived from   *)
(* the cached levels, the tree hash of RFC 6962 they are compared with,    *)
(* and what a verifier (unidpp_signatif::anchor) computes from a path.     *)
(***************************************************************************)
EXTENDS MerkleTree

\* The largest power of two strictly smaller than n >= 2.
Split(n) == Pow2[CHOOSE z \in 0..n : Pow2[z] < n /\ n <= 2 * Pow2[z]]

\* The cached hash of the complete subtree over [lo, lo + 2^k).
Subtree(k, lo) == levels[k + 1][lo \div Pow2[k] + 1]

IsPowerOfTwo(n) == n = Pow2[TrailingZeros(n)]

\* The hash of the leaves [lo, lo + len): a lookup when the range is one
\* complete subtree, else split once.
RangeHash(lo, len) ==
    LET hash[n \in Nat \ {0}] == [a \in Nat |->
            IF IsPowerOfTwo(n) THEN Subtree(TrailingZeros(n), a)
            ELSE LET k == Split(n) IN Node(hash[k][a], hash[n - k][a + k])]
    IN  hash[len][lo]

\* Fault: siblings from the root down.
PushSiblingFirst(path, sibling, side) == << [sibling |-> sibling, side |-> side] >> \o path

PushSibling(path, sibling, side) == Append(path, [sibling |-> sibling, side |-> side])

\* The siblings from leaf m up to the root of [lo, lo + len).
PathInto(m, lo, len) ==
    LET path[n \in Nat \ {0}] == [a \in Nat |->
            IF n = 1 THEN <<>>
            ELSE LET k == Split(n)
                 IN  IF m - a < k
                     THEN PushSibling(path[k][a], RangeHash(a + k, n - k), "right")
                     ELSE PushSibling(path[n - k][a + k], Subtree(TrailingZeros(k), a), "left")]
    IN  path[len][lo]

\* Fault: the deepest node is left out always.
DeepestLeftOut(hash, anchored) == <<>>

\* The deepest node: the hash of the old leaves, unless it is the old root itself.
Deepest(hash, anchored) == IF anchored THEN <<>> ELSE <<hash>>

\* The nodes that show the first m leaves of [lo, lo + len), deepest first.
SubProof(m, lo, len, anchored) ==
    LET proof[n \in Nat \ {0}] == [b \in BOOLEAN |-> [a \in Nat |-> [x \in 1..n |->
            IF x = n THEN Deepest(RangeHash(a, n), b)
            ELSE LET k == Split(n)
                 IN  IF x <= k
                     THEN Append(proof[k][b][a][x], RangeHash(a + k, n - k))
                     ELSE Append(proof[n - k][FALSE][a + k][x - k], RangeHash(a, k))]]]
    IN  proof[len][anchored][lo][m]

\* Fault: the path leads to the current root, whatever prefix was asked for.
InclusionPathCurrent(m, s) == PathInto(m, 0, size)

InclusionPath(m, s) == PathInto(m, 0, s)

ConsistencyPath(old) == IF old = 0 THEN <<>> ELSE SubProof(old, 0, size, TRUE)

------------------------------------------------------------------------------
(* The reference tree hash, and the verifiers.                               *)

\* The Merkle tree hash of RFC 6962 over a sequence of entries.
TreeHash[seq \in Seq(Commitment)] ==
    IF seq = <<>> THEN NoHash
    ELSE IF Len(seq) = 1 THEN Leaf(seq[1])
    ELSE LET k == Split(Len(seq))
         IN  Node(TreeHash[SubSeq(seq, 1, k)], TreeHash[SubSeq(seq, k + 1, Len(seq))])

\* The root that a verifier recomputes from a commitment and its path.
RootFromPath(c, path) ==
    LET hash[i \in Nat] ==
            IF i = 0 THEN Leaf(c)
            ELSE IF path[i].side = "right" THEN Node(hash[i - 1], path[i].sibling)
            ELSE Node(path[i].sibling, hash[i - 1])
    IN  hash[Len(path)]

\* The roots of size m and n that a verifier recomputes from a consistency path
\* and the root it pinned; a path of the wrong length gives neither.
RootsFromPath(m, n, pinned, path) ==
    LET roots[i \in Nat] == [b \in BOOLEAN |-> [x \in Nat |-> [y \in Nat |->
            IF x = y /\ b /\ i = 0 THEN <<pinned, pinned>>
            ELSE IF x = y /\ ~b /\ i = 1 THEN <<path[1], path[1]>>
            ELSE IF x >= y \/ i = 0 THEN <<NoHash, NoHash>>
            ELSE LET k     == Split(y)
                     left  == roots[i - 1][b][x][k]
                     right == roots[i - 1][FALSE][x - k][y - k]
                 IN  IF x <= k THEN <<left[1], Node(left[2], path[i])>>
                     ELSE <<Node(path[i], right[1]), Node(path[i], right[2])>>]]]
    IN  roots[Len(path)][TRUE][m][n]

VerifyInclusion(c, path, root) == RootFromPath(c, path) = root

VerifyConsistency(m, oldRoot, n, newRoot, path) ==
    RootsFromPath(m, n, oldRoot, path) = <<oldRoot, newRoot>>

------------------------------------------------------------------------------
(* Properties.  Each fails under one of the operators marked `Fault' here or *)
(* in MerkleTree, which change a definition the way a bug in the code would. *)

\* The entries j * 2^k to (j + 1) * 2^k - 1.
Block(k, j) == SubSeq(commitments, j * Pow2[k] + 1, (j + 1) * Pow2[k])

\* The state has the layout tree.rs describes: level k holds exactly size >> k
\* hashes, each of them the tree hash of its complete range of entries.
LevelsHoldSubtrees ==
    /\ size = Len(commitments)
    /\ \A k \in 0..(Len(levels) - 1) :
          /\ Len(levels[k + 1]) = size \div Pow2[k]
          /\ \A j \in 0..(Len(levels[k + 1]) - 1) :
                levels[k + 1][j + 1] = TreeHash[Block(k, j)]
    /\ size < Pow2[Len(levels)]

\* The root of every prefix, folded from cached peaks, is the RFC 6962 hash of
\* that prefix: no append disturbs the root of an older head (root_at_size).
RootsMatchReference ==
    \A s \in 0..size : RootAtSize(s) = TreeHash[SubSeq(commitments, 1, s)]

\* Any leaf is provable against any historical prefix (inclusion_path), and
\* its path leads to the root the head of that size was signed over.
EveryReceiptVerifies ==
    \A s \in 1..size : \A m \in 0..(s - 1) :
        VerifyInclusion(commitments[m + 1], InclusionPath(m, s), RootAtSize(s))

\* From every older head to the current one there is a proof that verifies
\* against the pinned root and the current root (consistency_path).
EveryPinnedHeadVerifies ==
    \A old \in 1..size :
        VerifyConsistency(old, RootAtSize(old), size, Root, ConsistencyPath(old))

\* The proof of the log binds the pinned head: it does not verify against the
\* root of any history that differs from the log's first entries in one of them,
\* so that a verifier whose entry was rewritten finds out (the old root is left
\* out of the path only while it is the verifier's own, consistency_path).
RewritesAreRejected ==
    \A old \in 1..size, c \in Commitment : \A j \in 1..old :
        LET pinned == [SubSeq(commitments, 1, old) EXCEPT ![j] = c]
        IN  VerifyConsistency(old, TreeHash[pinned], size, Root, ConsistencyPath(old))
                => c = commitments[j]

\* A receipt is served again as it was issued: no append changes the path of
\* a leaf against a prefix that already existed (GET /receipt/{seq}).
ReceiptsNeverChange ==
    [][size' > size =>
          \A s \in 1..size : \A m \in 0..(s - 1) :
              InclusionPath(m, s)' = InclusionPath(m, s)]_vars
==============================================================================
