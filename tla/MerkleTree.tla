------------------------------ MODULE MerkleTree ------------------------------
(***************************************************************************)
(* src/tree.rs: the append-only RFC 6962 tree with one cached level of     *)
(* complete-subtree hashes per power of two.  `levels[k + 1]' is the       *)
(* program's levels[k], and its j-th element, from 1, the subtree over     *)
(* leaves (j - 1) * 2^k to j * 2^k - 1.                                    *)
(*                                                                         *)
(* Hashes are free terms: distinct inputs have distinct hashes, and leaf   *)
(* and node hashes never meet (the domain bytes 0x01 and 0x02).            *)
(***************************************************************************)
EXTENDS Naturals, Sequences

CONSTANTS Commitment,  \* what entries commit to
          MaxSize      \* bound: entries appended

ASSUME TreeAssumption == MaxSize \in Nat

VARIABLES levels,       \* MerkleTree.levels
          size,         \* MerkleTree.size
          commitments   \* history: the entries, in order

vars == <<levels, size, commitments>>

\* The hash of no leaves (None), and the hashes of signatif, on terms.
NoHash == <<>>
Leaf(c) == <<1, c>>
Node(l, r) == <<2, l, r>>

\* 1 << k.
Pow2[k \in Nat] == IF k = 0 THEN 1 ELSE 2 * Pow2[k - 1]

\* Fault: one fold per append.
OneFold(n) == IF n % 2 = 0 THEN 1 ELSE 0

\* u64::trailing_zeros of n > 0.
TrailingZeros(n) == CHOOSE z \in 0..n : n % Pow2[z] = 0 /\ n % Pow2[z + 1] # 0

\* levels[k], before the vector is resized to hold it as well.
Level(k) == IF k < Len(levels) THEN levels[k + 1] ELSE <<>>

\* Fault: the first hash of the level.
LeftSiblingFirst(k) == Level(k)[1]

\* The hash that the one about to be pushed on level k is folded with.
LeftSibling(k) == Level(k)[Len(Level(k))]

\* Append c: its leaf goes to level 0, and every trailing zero bit of the new
\* size folds the last two hashes of a level into one of the next.
AppendLeaf(c) ==
    LET completed == TrailingZeros(size + 1)
        pushed[k \in Nat] ==
            IF k = 0 THEN Leaf(c)
            ELSE Node(LeftSibling(k - 1), pushed[k - 1])
        height == IF Len(levels) <= completed THEN completed + 1 ELSE Len(levels)
    IN  /\ size < MaxSize
        /\ size' = size + 1
        /\ levels' = [i \in 1..height |->
                         IF i - 1 <= completed
                         THEN Append(Level(i - 1), pushed[i - 1])
                         ELSE Level(i - 1)]
        /\ commitments' = Append(commitments, c)

\* Fault: the higher peak goes to the right.
FoldPeakRight(peak, acc) == IF acc = NoHash THEN peak ELSE Node(acc, peak)

\* A peak on top of what the lower peaks folded to.
FoldPeak(peak, acc) == IF acc = NoHash THEN peak ELSE Node(peak, acc)

\* The root of the first s entries: the peaks of s folded from the lowest bit
\* up, each higher peak on the left of what was folded so far.
RootAtSize(s) ==
    LET folded[k \in Nat] ==
            IF k = 0 THEN NoHash
            ELSE IF (s \div Pow2[k - 1]) % 2 = 0 THEN folded[k - 1]
            ELSE FoldPeak(levels[k][s \div Pow2[k - 1]], folded[k - 1])
    IN  folded[Len(levels)]

Root == RootAtSize(size)

Init ==
    /\ levels = << <<>> >>
    /\ size = 0
    /\ commitments = <<>>

\* LogStore replays its journal through the same append, into a new tree.
Restart ==
    /\ levels' = << <<>> >>
    /\ size' = 0
    /\ commitments' = <<>>

Next == Restart \/ \E c \in Commitment : AppendLeaf(c)

Spec == Init /\ [][Next]_vars
==============================================================================
