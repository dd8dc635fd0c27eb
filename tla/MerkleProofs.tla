---------------------------- MODULE MerkleProofs ------------------------------
(***************************************************************************)
(* Proofs about MerkleTree and MerklePaths, for a log of any size: the     *)
(* cached levels are the RFC 6962 hashes of their ranges, and the roots    *)
(* and paths that are read from them are the reference's.                  *)
(***************************************************************************)
EXTENDS MerklePaths, Integers, TLAPS

Itself(k) == k

------------------------------------------------------------------------------
(* Powers of two.                                                            *)

\* The equation that defines Pow2.
PowDef(p, q, f, k) == IF k = 0 THEN 1 ELSE 2 * f[k - 1]
Pow == INSTANCE Recursion WITH Domain <- Nat, Measure <- Itself, Def <- PowDef

\* Pow2 has the values its definition says.
LEMMA PowIs ==
    /\ Pow2[0] = 1
    /\ \A k \in Nat : Pow2[k + 1] = 2 * Pow2[k]
<1>1. Pow!Descends(0, 0)
  BY DEF Pow!Descends, PowDef, Itself
<1>2. Pow2 = CHOOSE g : g = [k \in Nat |-> PowDef(0, 0, g, k)]
  BY DEF Pow2, PowDef
<1>3. \A k \in Nat : Pow2[k] = PowDef(0, 0, Pow2, k)
  BY <1>1, <1>2, Pow!DefinedByEquation
<1> QED
  BY <1>3 DEF PowDef

\* Powers of two are positive, and larger than their exponent.
LEMMA PowType == \A k \in Nat : Pow2[k] \in Nat /\ Pow2[k] >= 1 /\ k < Pow2[k]
<1> DEFINE T == {k \in Nat : Pow2[k] \in Nat /\ Pow2[k] >= 1 /\ k < Pow2[k]}
<1>1. 0 \in T
  BY PowIs
<1>2. \A n \in Nat : n \in T => n + 1 \in T
  BY PowIs
<1> HIDE DEF T
<1>3. Nat \subseteq T
  BY <1>1, <1>2, Pow!NatInd
<1> QED
  BY <1>3 DEF T

\* A larger exponent at least doubles.
LEMMA PowGrows == \A j, k \in Nat : j < k => 2 * Pow2[j] <= Pow2[k]
<1> DEFINE T == {d \in Nat : \A j \in Nat : 2 * Pow2[j] <= Pow2[j + d + 1]}
<1>1. 0 \in T
  BY PowIs, PowType
<1>2. ASSUME NEW n \in Nat, n \in T PROVE n + 1 \in T
  <2>1. ASSUME NEW j \in Nat PROVE 2 * Pow2[j] <= Pow2[j + (n + 1) + 1]
    <3>1. /\ j + n + 1 \in Nat /\ (j + n + 1) + 1 = j + (n + 1) + 1
          /\ Pow2[j] \in Nat /\ Pow2[j + n + 1] \in Nat
      BY PowType
    <3>2. Pow2[(j + n + 1) + 1] = 2 * Pow2[j + n + 1]
      BY <3>1, PowIs
    <3>3. 2 * Pow2[j] <= Pow2[j + n + 1]
      BY <1>2
    <3> QED
      BY <3>1, <3>2, <3>3
  <2> QED
    BY <2>1
<1> HIDE DEF T
<1>3. Nat \subseteq T
  BY <1>1, <1>2, Pow!NatInd
<1>4. ASSUME NEW j \in Nat, NEW k \in Nat, j < k PROVE 2 * Pow2[j] <= Pow2[k]
  <2>1. k - j - 1 \in Nat /\ j + (k - j - 1) + 1 = k
    BY <1>4
  <2>2. k - j - 1 \in T
    BY <1>3, <2>1
  <2> QED
    BY <2>1, <2>2 DEF T
<1> QED
  BY <1>4

\* Division with remainder.
LEMMA Division ==
    ASSUME NEW x \in Nat, NEW d \in Nat, d >= 1
    PROVE  /\ x \div d \in Nat /\ x % d \in Nat
           /\ x = d * (x \div d) + (x % d) /\ x % d < d
OBVIOUS

\* Quotient and remainder are the only ones.
LEMMA DivisionIs ==
    ASSUME NEW d \in Nat, d >= 1, NEW q \in Nat, NEW r \in Nat, r < d
    PROVE  (d * q + r) \div d = q /\ (d * q + r) % d = r
OBVIOUS

\* A multiple of a power of two is one of every smaller power.
LEMMA Divides ==
    ASSUME NEW x \in Nat, NEW j \in Nat, NEW k \in Nat, j <= k, x % Pow2[k] = 0
    PROVE  x % Pow2[j] = 0
<1> DEFINE T == {d \in Nat : x % Pow2[j + d] = 0 => x % Pow2[j] = 0}
<1>1. 0 \in T
  OBVIOUS
<1>2. ASSUME NEW n \in Nat, n \in T PROVE n + 1 \in T
  <2>1. Pow2[j + n + 1] = 2 * Pow2[j + n] /\ Pow2[j + n] \in Nat /\ Pow2[j + n] >= 1
    BY PowIs, PowType
  <2>2. ASSUME x % Pow2[j + n + 1] = 0 PROVE x % Pow2[j + n] = 0
    <3> DEFINE P == Pow2[j + n]
               q == x \div (2 * P)
    <3> DEFINE D == 2 * P
    <3>1. q \in Nat /\ x = D * q + 0
      <4>1. D \in Nat /\ D >= 1 /\ x % D = 0 /\ q = x \div D
        BY <2>1, <2>2
      <4> HIDE DEF D, q, P
      <4> QED
        BY <4>1, Division
    <3>2. x = P * (2 * q) + 0
      BY <2>1, <3>1
    <3> QED
      BY <2>1, <3>1, <3>2, DivisionIs
  <2> QED
    BY <1>2, <2>2
<1> HIDE DEF T
<1>3. Nat \subseteq T
  BY <1>1, <1>2, Pow!NatInd
<1>4. k - j \in T /\ j + (k - j) = k
  BY <1>3
<1> QED
  BY <1>4 DEF T

\* Every positive number has its trailing zeros.
LEMMA TrailingZerosIs ==
    ASSUME NEW n \in Nat, n >= 1
    PROVE  /\ TrailingZeros(n) \in 0..n
           /\ n % Pow2[TrailingZeros(n)] = 0
           /\ n % Pow2[TrailingZeros(n) + 1] # 0
<1> DEFINE T == {z \in Nat : n % Pow2[z + 1] # 0}
<1>1. n \in T
  <2>1. n < Pow2[n + 1] /\ Pow2[n + 1] \in Nat /\ Pow2[n + 1] >= 1
    <3>1. n + 1 \in Nat
      OBVIOUS
    <3> QED
      BY <3>1, PowType
  <2>2. n = Pow2[n + 1] * 0 + n
    BY <2>1
  <2>3. n % Pow2[n + 1] = n
    BY <2>1, <2>2, DivisionIs
  <2> QED
    BY <2>3
<1>2. PICK z \in T : \A y \in T : z <= y
  <2> HIDE DEF T
  <2>1. T \in SUBSET Nat
    BY DEF T
  <2> QED
    BY <1>1, <2>1, Pow!LeastOf
<1>3. n % Pow2[z] = 0
  <2>1. CASE z = 0
    BY <2>1, PowIs
  <2>2. CASE z # 0
    <3>1. z - 1 \in Nat /\ ~(z - 1 \in T)
      BY <1>2, <2>2
    <3> QED
      BY <3>1
  <2> QED
    BY <2>1, <2>2
<1>4. z \in 0..n
  BY <1>1, <1>2
<1> QED
  BY <1>2, <1>3, <1>4 DEF TrailingZeros

\* A power of two has its exponent as trailing zeros.
LEMMA TrailingZerosOfPow ==
    ASSUME NEW z \in Nat
    PROVE  TrailingZeros(Pow2[z]) = z
<1> DEFINE t == TrailingZeros(Pow2[z])
<1>1. Pow2[z] \in Nat /\ Pow2[z] >= 1
  BY PowType
<1>2. t \in Nat /\ Pow2[z] % Pow2[t] = 0 /\ Pow2[z] % Pow2[t + 1] # 0
  BY <1>1, TrailingZerosIs
<1> HIDE DEF t
<1>3. Pow2[z] % Pow2[z] = 0
  <2>1. Pow2[z] = Pow2[z] * 1 + 0
    BY <1>1
  <2> QED
    BY <1>1, <2>1, DivisionIs
<1>4. ~(t < z)
  BY <1>1, <1>2, <1>3, Divides
<1>5. ~(z < t)
  <2>1. ASSUME z < t PROVE FALSE
    <3>1. Pow2[z] < Pow2[t] /\ Pow2[t] \in Nat
      BY <1>1, <1>2, <2>1, PowGrows, PowType
    <3>2. Pow2[z] = Pow2[t] * 0 + Pow2[z]
      BY <1>1, <3>1
    <3>3. Pow2[z] % Pow2[t] = Pow2[z]
      BY <1>1, <3>1, <3>2, DivisionIs
    <3> QED
      BY <1>1, <1>2, <3>3
  <2> QED
    BY <2>1
<1> QED
  BY <1>2, <1>4, <1>5 DEF t

\* The split of n >= 2 is the power of two below it.
LEMMA SplitIs ==
    ASSUME NEW n \in Nat, n >= 2
    PROVE  \E z \in Nat : Split(n) = Pow2[z] /\ Pow2[z] < n /\ n <= 2 * Pow2[z]
<1> DEFINE T == {z \in Nat : n <= Pow2[z]}
<1>1. n \in T
  BY PowType
<1>2. PICK y \in T : \A x \in T : y <= x
  <2> HIDE DEF T
  <2>1. T \in SUBSET Nat
    BY DEF T
  <2> QED
    BY <1>1, <2>1, Pow!LeastOf
<1>3. y # 0
  BY PowIs
<1> DEFINE z == y - 1
<1>4. z \in Nat /\ ~(z \in T) /\ z + 1 = y /\ z \in 0..n
  BY <1>1, <1>2, <1>3
<1>5. Pow2[z] < n /\ n <= 2 * Pow2[z]
  <2>1. Pow2[z] \in Nat /\ Pow2[y] = 2 * Pow2[z]
    BY <1>4, PowIs, PowType
  <2> QED
    BY <1>2, <1>4, <2>1
<1> DEFINE c == CHOOSE x \in 0..n : Pow2[x] < n /\ n <= 2 * Pow2[x]
<1> HIDE DEF z
<1>6. c \in 0..n /\ Pow2[c] < n /\ n <= 2 * Pow2[c]
  BY <1>4, <1>5
<1>7. Split(n) = Pow2[c]
  BY DEF Split
<1>8. c \in Nat
  BY <1>6
<1> HIDE DEF c, T
<1> QED
  BY <1>6, <1>7, <1>8

\* It is the only one.
LEMMA SplitOnly ==
    ASSUME NEW n \in Nat, NEW z \in Nat, Pow2[z] < n, n <= 2 * Pow2[z]
    PROVE  Split(n) = Pow2[z]
<1>1. Pow2[z] \in Nat /\ Pow2[z] >= 1 /\ n >= 2
  BY PowType
<1>2. PICK y \in Nat : Split(n) = Pow2[y] /\ Pow2[y] < n /\ n <= 2 * Pow2[y]
  BY <1>1, SplitIs
<1>3. ~(y < z) /\ ~(z < y)
  BY <1>1, <1>2, PowGrows, PowType
<1>4. y = z
  BY <1>3
<1> QED
  BY <1>2, <1>4

------------------------------------------------------------------------------
(* The reference hash of a range of entries.                                 *)

\* The equation that defines TreeHash.
HashDef(p, q, f, seq) ==
    IF seq = <<>> THEN NoHash
    ELSE IF Len(seq) = 1 THEN Leaf(seq[1])
    ELSE LET k == Split(Len(seq))
         IN  Node(f[SubSeq(seq, 1, k)], f[SubSeq(seq, k + 1, Len(seq))])
Hash == INSTANCE Recursion WITH Domain <- Seq(Commitment), Measure <- Len, Def <- HashDef
Hashed == CHOOSE f : f = [seq \in Seq(Commitment) |-> HashDef(0, 0, f, seq)]

\* The entries lo + 1 to lo + len of a log, and their hash.
Entries(s, lo, len) == SubSeq(s, lo + 1, lo + len)
Mth(s, lo, len)     == TreeHash[Entries(s, lo, len)]

\* A split leaves entries on both sides, no fewer on the left.
LEMMA SplitBounds ==
    ASSUME NEW n \in Nat, n >= 2
    PROVE  Split(n) \in 1..(n - 1) /\ n - Split(n) <= Split(n)
BY SplitIs, PowType

\* Two sequences of one length with the same elements are one.
LEMMA SameSequence ==
    ASSUME NEW S, NEW s \in Seq(S), NEW t \in Seq(S), Len(s) = Len(t),
           \A i \in 1..Len(s) : s[i] = t[i]
    PROVE  s = t
OBVIOUS

\* A range of a log is a sequence of its entries.
LEMMA EntriesAre ==
    ASSUME NEW S, NEW s \in Seq(S), NEW lo \in Nat, NEW len \in Nat, lo + len <= Len(s)
    PROVE  /\ Entries(s, lo, len) \in Seq(S)
           /\ Len(Entries(s, lo, len)) = len
           /\ \A i \in 1..len : Entries(s, lo, len)[i] = s[lo + i]
<1>1. /\ lo + 1 \in Int /\ lo + len \in Int
      /\ \A i \in (lo + 1)..(lo + len) : i \in 1..Len(s) /\ s[i] \in S
  OBVIOUS
<1> QED
  BY <1>1 DEF Entries

\* A range of a range is one of the log.
LEMMA EntriesOfEntries ==
    ASSUME NEW S, NEW s \in Seq(S), NEW lo \in Nat, NEW len \in Nat, lo + len <= Len(s),
           NEW k \in 0..len
    PROVE  /\ SubSeq(Entries(s, lo, len), 1, k) = Entries(s, lo, k)
           /\ SubSeq(Entries(s, lo, len), k + 1, len) = Entries(s, lo + k, len - k)
<1> DEFINE e == Entries(s, lo, len)
<1>1. e \in Seq(S) /\ Len(e) = len /\ \A i \in 1..len : e[i] = s[lo + i]
  BY EntriesAre
<1> HIDE DEF e
<1>0. /\ k \in Nat /\ len - k \in Nat /\ lo + k \in Nat /\ 0 \in Nat
      /\ k + (len - k) <= Len(e) /\ 0 + k <= Len(e)
      /\ (lo + k) + (len - k) <= Len(s) /\ lo + k <= Len(s)
  BY <1>1
<1>2. SubSeq(e, 1, k) = Entries(e, 0, k) /\ SubSeq(e, k + 1, len) = Entries(e, k, len - k)
  <2>1. 0 + 1 = 1 /\ 0 + k = k /\ k + (len - k) = len
    OBVIOUS
  <2> QED
    BY <2>1 DEF Entries
<1>3. Entries(e, 0, k) = Entries(s, lo, k)
  <2>1. /\ Entries(e, 0, k) \in Seq(S) /\ Len(Entries(e, 0, k)) = k
        /\ \A i \in 1..k : Entries(e, 0, k)[i] = e[0 + i]
    <3> DEFINE none == 0
    <3>1. e \in Seq(S) /\ none \in Nat /\ k \in Nat /\ none + k <= Len(e)
      BY ONLY <1>0, <1>1
    <3> HIDE DEF none
    <3>2. /\ Entries(e, none, k) \in Seq(S) /\ Len(Entries(e, none, k)) = k
          /\ \A i \in 1..k : Entries(e, none, k)[i] = e[none + i]
      BY ONLY <3>1, EntriesAre
    <3> QED
      BY ONLY <3>2 DEF none
  <2>2. /\ Entries(s, lo, k) \in Seq(S) /\ Len(Entries(s, lo, k)) = k
        /\ \A i \in 1..k : Entries(s, lo, k)[i] = s[lo + i]
    BY EntriesAre
  <2>3. \A i \in 1..k : e[0 + i] = s[lo + i]
    BY <1>0, <1>1
  <2> QED
    BY <2>1, <2>2, <2>3, SameSequence
<1>4. Entries(e, k, len - k) = Entries(s, lo + k, len - k)
  <2>1. /\ Entries(e, k, len - k) \in Seq(S) /\ Len(Entries(e, k, len - k)) = len - k
        /\ \A i \in 1..(len - k) : Entries(e, k, len - k)[i] = e[k + i]
    <3> DEFINE d == len - k
    <3>1. e \in Seq(S) /\ k \in Nat /\ d \in Nat /\ k + d <= Len(e)
      BY <1>0, <1>1
    <3> HIDE DEF d
    <3>2. /\ Entries(e, k, d) \in Seq(S) /\ Len(Entries(e, k, d)) = d
          /\ \A i \in 1..d : Entries(e, k, d)[i] = e[k + i]
      BY <3>1, EntriesAre
    <3> QED
      BY <3>2 DEF d
  <2>2. /\ Entries(s, lo + k, len - k) \in Seq(S) /\ Len(Entries(s, lo + k, len - k)) = len - k
        /\ \A i \in 1..(len - k) : Entries(s, lo + k, len - k)[i] = s[(lo + k) + i]
    <3> DEFINE d == len - k
               l == lo + k
    <3>1. s \in Seq(S) /\ l \in Nat /\ d \in Nat /\ l + d <= Len(s)
      BY <1>0
    <3> HIDE DEF d, l
    <3>2. /\ Entries(s, l, d) \in Seq(S) /\ Len(Entries(s, l, d)) = d
          /\ \A i \in 1..d : Entries(s, l, d)[i] = s[l + i]
      BY ONLY <3>1, EntriesAre
    <3> QED
      BY ONLY <3>2 DEF d, l
  <2>3. \A i \in 1..(len - k) : e[k + i] = s[(lo + k) + i]
    BY <1>1
  <2> QED
    BY <2>1, <2>2, <2>3, SameSequence
<1> QED
  BY <1>2, <1>3, <1>4 DEF e

\* TreeHash has the values its definition says.
LEMMA HashIs == \A seq \in Seq(Commitment) : TreeHash[seq] = HashDef(0, 0, TreeHash, seq)
<1>1. ASSUME NEW seq \in Seq(Commitment), NEW f, NEW g,
             \A y \in Seq(Commitment) : Len(y) < Len(seq) => f[y] = g[y]
      PROVE  HashDef(0, 0, f, seq) = HashDef(0, 0, g, seq)
  <2>1. CASE seq = <<>> \/ Len(seq) = 1
    BY <2>1 DEF HashDef
  <2>2. CASE seq # <<>> /\ Len(seq) # 1
    <3> DEFINE k == Split(Len(seq))
    <3>1. Len(seq) \in Nat /\ Len(seq) >= 2
      <4> DEFINE n == Len(seq)
      <4>1. n \in Nat /\ n # 0 /\ n # 1
        BY <2>2
      <4> HIDE DEF n
      <4>2. n >= 2
        BY <4>1
      <4> QED
        BY <4>1, <4>2 DEF n
    <3>2. k \in 1..(Len(seq) - 1)
      BY <3>1, SplitBounds
    <3> HIDE DEF k
    <3>3. /\ SubSeq(seq, 1, k) = Entries(seq, 0, k)
          /\ SubSeq(seq, k + 1, Len(seq)) = Entries(seq, k, Len(seq) - k)
      BY <3>1, <3>2 DEF Entries
    <3>4. /\ SubSeq(seq, 1, k) \in Seq(Commitment) /\ Len(SubSeq(seq, 1, k)) = k
          /\ SubSeq(seq, k + 1, Len(seq)) \in Seq(Commitment)
          /\ Len(SubSeq(seq, k + 1, Len(seq))) = Len(seq) - k
      <4>1. /\ k \in Nat /\ Len(seq) - k \in Nat /\ 0 \in Nat
            /\ 0 + k <= Len(seq) /\ k + (Len(seq) - k) <= Len(seq)
        BY <3>1, <3>2
      <4>2. Entries(seq, 0, k) \in Seq(Commitment) /\ Len(Entries(seq, 0, k)) = k
        BY <4>1, EntriesAre
      <4>3. /\ Entries(seq, k, Len(seq) - k) \in Seq(Commitment)
            /\ Len(Entries(seq, k, Len(seq) - k)) = Len(seq) - k
        BY <4>1, EntriesAre
      <4> QED
        BY <3>3, <4>2, <4>3
    <3>5. /\ f[SubSeq(seq, 1, k)] = g[SubSeq(seq, 1, k)]
          /\ f[SubSeq(seq, k + 1, Len(seq))] = g[SubSeq(seq, k + 1, Len(seq))]
      <4>1. k < Len(seq) /\ Len(seq) - k < Len(seq)
        BY <3>1, <3>2
      <4> QED
        BY <1>1, <3>4, <4>1
    <3> QED
      BY <2>2, <3>5 DEF HashDef, k
  <2> QED
    BY <2>1, <2>2
<1>2. Hash!Descends(0, 0)
  BY <1>1 DEF Hash!Descends
<1>3. \A seq \in Seq(Commitment) : Hashed[seq] = HashDef(0, 0, Hashed, seq)
  BY <1>2, Hash!DefinedByEquation DEF Hashed
<1>4. TreeHash = Hashed
  BY DEF TreeHash, HashDef, Hashed
<1> QED
  BY <1>3, <1>4

\* The hash of no entries, and of one.
LEMMA MthSmall ==
    ASSUME NEW s \in Seq(Commitment), NEW lo \in Nat, lo <= Len(s)
    PROVE  /\ Mth(s, lo, 0) = NoHash
           /\ lo < Len(s) => Mth(s, lo, 1) = Leaf(s[lo + 1])
<1>1. Mth(s, lo, 0) = NoHash
  <2>1. Entries(s, lo, 0) \in Seq(Commitment) /\ Len(Entries(s, lo, 0)) = 0
    BY EntriesAre
  <2>2. Entries(s, lo, 0) = <<>>
    BY <2>1
  <2> QED
    BY <2>1, <2>2, HashIs DEF Mth, HashDef
<1>2. ASSUME lo < Len(s) PROVE Mth(s, lo, 1) = Leaf(s[lo + 1])
  <2>1. /\ Entries(s, lo, 1) \in Seq(Commitment) /\ Len(Entries(s, lo, 1)) = 1
        /\ Entries(s, lo, 1)[1] = s[lo + 1]
    <3>1. s \in Seq(Commitment) /\ lo \in Nat /\ 1 \in Nat /\ lo + 1 <= Len(s) /\ 1 \in 1..1
      BY <1>2
    <3> DEFINE one == 1
    <3>2. one \in Nat /\ lo + one <= Len(s) /\ one \in 1..one
      BY ONLY <3>1
    <3> HIDE DEF one
    <3>3. /\ Entries(s, lo, one) \in Seq(Commitment) /\ Len(Entries(s, lo, one)) = one
          /\ \A i \in 1..one : Entries(s, lo, one)[i] = s[lo + i]
      BY ONLY <3>1, <3>2, EntriesAre
    <3>4. Entries(s, lo, one)[one] = s[lo + one]
      BY ONLY <3>2, <3>3
    <3> QED
      BY ONLY <3>3, <3>4 DEF one
  <2>2. Entries(s, lo, 1) # <<>>
    BY <2>1
  <2> QED
    BY <2>1, <2>2, HashIs DEF Mth, HashDef
<1> QED
  BY <1>1, <1>2

\* The hash of two entries or more is a node over the two sides of the split.
LEMMA MthSplit ==
    ASSUME NEW s \in Seq(Commitment), NEW lo \in Nat, NEW len \in Nat, len >= 2,
           lo + len <= Len(s)
    PROVE  Mth(s, lo, len) =
              Node(Mth(s, lo, Split(len)), Mth(s, lo + Split(len), len - Split(len)))
<1> DEFINE k == Split(len)
<1>1. k \in 1..(len - 1)
  BY SplitBounds
<1>2. Entries(s, lo, len) \in Seq(Commitment) /\ Len(Entries(s, lo, len)) = len
  BY EntriesAre
<1>3. Entries(s, lo, len) # <<>>
  BY <1>2
<1>4. Mth(s, lo, len) = Node(TreeHash[SubSeq(Entries(s, lo, len), 1, k)],
                             TreeHash[SubSeq(Entries(s, lo, len), k + 1, len)])
  <2> DEFINE e == Entries(s, lo, len)
  <2>1. e \in Seq(Commitment) /\ Len(e) = len /\ e # <<>> /\ len # 1
    BY <1>2, <1>3
  <2> HIDE DEF e
  <2>2. TreeHash[e] = Node(TreeHash[SubSeq(e, 1, k)], TreeHash[SubSeq(e, k + 1, len)])
    BY <2>1, HashIs DEF HashDef
  <2> QED
    BY <2>2 DEF Mth, e
<1> HIDE DEF k
<1>5. /\ SubSeq(Entries(s, lo, len), 1, k) = Entries(s, lo, k)
      /\ SubSeq(Entries(s, lo, len), k + 1, len) = Entries(s, lo + k, len - k)
  <2>1. k \in 0..len
    BY <1>1
  <2> QED
    BY <2>1, EntriesOfEntries
<1> QED
  BY <1>4, <1>5 DEF Mth, k

\* The hash of twice a power of two is a node over its halves.
LEMMA MthDouble ==
    ASSUME NEW s \in Seq(Commitment), NEW lo \in Nat, NEW k \in Nat,
           lo + Pow2[k + 1] <= Len(s)
    PROVE  Mth(s, lo, Pow2[k + 1]) =
              Node(Mth(s, lo, Pow2[k]), Mth(s, lo + Pow2[k], Pow2[k]))
<1>1. Pow2[k] \in Nat /\ Pow2[k] >= 1 /\ Pow2[k + 1] = 2 * Pow2[k]
  BY PowIs, PowType
<1>2. Split(Pow2[k + 1]) = Pow2[k]
  BY <1>1, SplitOnly
<1> QED
  BY <1>1, <1>2, MthSplit

\* The hash of any entries at all is a hash.
LEMMA MthSome ==
    ASSUME NEW s \in Seq(Commitment), NEW lo \in Nat, NEW len \in Nat, len >= 1,
           lo + len <= Len(s)
    PROVE  Mth(s, lo, len) # NoHash
<1>1. CASE len = 1
  <2>1. Mth(s, lo, len) = Leaf(s[lo + 1])
    BY <1>1, MthSmall
  <2> QED
    BY <2>1 DEF Leaf, NoHash
<1>2. CASE len >= 2
  <2>1. Mth(s, lo, len) = Node(Mth(s, lo, Split(len)), Mth(s, lo + Split(len), len - Split(len)))
    BY <1>2, MthSplit
  <2> QED
    BY <2>1 DEF Node, NoHash
<1> QED
  BY <1>1, <1>2

\* An append changes no range of the log before it.
LEMMA MthKept ==
    ASSUME NEW s \in Seq(Commitment), NEW c \in Commitment, NEW lo \in Nat, NEW len \in Nat,
           lo + len <= Len(s)
    PROVE  Mth(Append(s, c), lo, len) = Mth(s, lo, len)
<1> DEFINE t == Append(s, c)
<1>1. t \in Seq(Commitment) /\ Len(t) = Len(s) + 1 /\ \A i \in 1..Len(s) : t[i] = s[i]
  OBVIOUS
<1> HIDE DEF t
<1>2. /\ Entries(t, lo, len) \in Seq(Commitment) /\ Len(Entries(t, lo, len)) = len
      /\ \A i \in 1..len : Entries(t, lo, len)[i] = t[lo + i]
  <2>1. lo + len <= Len(t)
    BY <1>1
  <2>2. t \in Seq(Commitment) /\ lo \in Nat /\ len \in Nat
    BY <1>1
  <2> QED
    BY ONLY <2>1, <2>2, EntriesAre
<1>3. /\ Entries(s, lo, len) \in Seq(Commitment) /\ Len(Entries(s, lo, len)) = len
      /\ \A i \in 1..len : Entries(s, lo, len)[i] = s[lo + i]
  BY EntriesAre
<1>4. \A i \in 1..len : t[lo + i] = s[lo + i]
  BY <1>1
<1>5. Entries(t, lo, len) = Entries(s, lo, len)
  BY <1>2, <1>3, <1>4, SameSequence
<1> QED
  BY <1>5 DEF Mth, t

------------------------------------------------------------------------------
(* The cached levels.                                                        *)

\* What level k of the tree over s holds: the hashes of its complete ranges.
LevelOf(s, k) == [j \in 1..(Len(s) \div Pow2[k]) |-> Mth(s, (j - 1) * Pow2[k], Pow2[k])]

\* The inductive invariant: the levels are those of the log, and there is one
\* for every bit of its size.
Layout ==
    /\ commitments \in Seq(Commitment) /\ size = Len(commitments)
    /\ Len(levels) \in Nat /\ Len(levels) >= 1
    /\ levels = [i \in 1..Len(levels) |-> LevelOf(commitments, i - 1)]
    /\ size < Pow2[Len(levels)]

\* A level holds as many hashes as ranges are complete.
LEMMA LevelIs ==
    ASSUME NEW s \in Seq(Commitment), NEW k \in Nat
    PROVE  /\ Len(s) \div Pow2[k] \in Nat
           /\ Len(LevelOf(s, k)) = Len(s) \div Pow2[k]
           /\ \A j \in 1..(Len(s) \div Pow2[k]) :
                 LevelOf(s, k)[j] = Mth(s, (j - 1) * Pow2[k], Pow2[k])
<1> DEFINE n == Len(s) \div Pow2[k]
<1>1. n \in Nat
  BY PowType, Division
<1> HIDE DEF n
<1>2. LevelOf(s, k) = [j \in 1..n |-> Mth(s, (j - 1) * Pow2[k], Pow2[k])]
  BY DEF LevelOf, n
<1>3. Len(LevelOf(s, k)) = n
  BY <1>1, <1>2
<1> QED
  BY <1>1, <1>2, <1>3 DEF n

\* The ranges of a level lie within the log.
LEMMA RangeFits ==
    ASSUME NEW n \in Nat, NEW d \in Nat, d >= 1, NEW j \in 1..(n \div d)
    PROVE  /\ n \div d \in Nat
           /\ (j - 1) * d \in Nat /\ (j - 1) * d + d <= n
<1> DEFINE q == n \div d
<1>1. q \in Nat /\ d * q <= n
  BY Division
<1> HIDE DEF q
<1>2. j \in Nat /\ j >= 1 /\ j <= q
  BY <1>1 DEF q
<1>3. j - 1 \in Nat /\ (j - 1) * d \in Nat /\ (j - 1) * d + d = j * d
  BY <1>2
<1>4. j * d <= q * d
  BY <1>1, <1>2
<1>5. q * d = d * q
  BY <1>1
<1> QED
  BY <1>1, <1>3, <1>4, <1>5 DEF q

\* A level of the tree, also one that is not there yet.
LEMMA LevelNow ==
    ASSUME Layout, NEW k \in Nat
    PROVE  Level(k) = LevelOf(commitments, k)
<1>1. CASE k < Len(levels)
  <2>1. k + 1 \in 1..Len(levels) /\ (k + 1) - 1 = k
    BY <1>1 DEF Layout
  <2> QED
    BY <1>1, <2>1 DEF Layout, Level
<1>2. CASE ~(k < Len(levels))
  <2>1. /\ Pow2[k] \in Nat /\ Pow2[k] >= 1 /\ Len(commitments) \in Nat
        /\ Len(commitments) < Pow2[k]
    BY <1>2, PowType, PowGrows DEF Layout
  <2>2. Len(commitments) = Pow2[k] * 0 + Len(commitments)
    BY <2>1
  <2>3. Len(commitments) \div Pow2[k] = 0
    BY <2>1, <2>2, DivisionIs
  <2>4. LevelOf(commitments, k) = <<>>
    BY <2>3 DEF LevelOf
  <2> QED
    BY <1>2, <2>4 DEF Level
<1> QED
  BY <1>1, <1>2

\* A sequence with one more element.
LEMMA AppendIs ==
    ASSUME NEW S, NEW s \in Seq(S), NEW x \in S
    PROVE  Append(s, x) = [i \in 1..(Len(s) + 1) |-> IF i = Len(s) + 1 THEN x ELSE s[i]]
<1> DEFINE n == Len(s)
           m == n + 1
           E(i) == IF i = m THEN x ELSE s[i]
<1>1. /\ n \in Nat /\ m \in Nat /\ Append(s, x) \in Seq(S) /\ Len(Append(s, x)) = m
      /\ \A i \in 1..m : Append(s, x)[i] = E(i) /\ E(i) \in S
  OBVIOUS
<1> HIDE DEF n, m, E
<1>2. [i \in 1..m |-> E(i)] \in Seq(S) /\ Len([i \in 1..m |-> E(i)]) = m
  BY <1>1
<1>3. Append(s, x) = [i \in 1..m |-> E(i)]
  BY <1>1, <1>2, SameSequence
<1> QED
  BY <1>3 DEF n, m, E

\* An append leaves a level alone unless it completes a range of it.
LEMMA LevelStays ==
    ASSUME NEW s \in Seq(Commitment), NEW c \in Commitment, NEW k \in Nat,
           (Len(s) + 1) % Pow2[k] # 0
    PROVE  LevelOf(Append(s, c), k) = LevelOf(s, k)
<1> DEFINE P == Pow2[k]
           n == Len(s)
           q == n \div P
           r == n % P
<1>1. P \in Nat /\ P >= 1 /\ n \in Nat
  BY PowType
<1>0. (n + 1) % P # 0
  OBVIOUS
<1> HIDE DEF P, n
<1>2. q \in Nat /\ r \in Nat /\ n = P * q + r /\ r < P
  BY <1>1, Division
<1> HIDE DEF q, r
<1>3. r + 1 # P
  <2>1. ASSUME r + 1 = P PROVE FALSE
    <3>1. n + 1 = P * (q + 1) + 0
      BY <1>1, <1>2, <2>1
    <3>2. n + 1 \in Nat /\ P \in Nat /\ P >= 1 /\ q + 1 \in Nat /\ 0 \in Nat /\ 0 < P
      BY <1>1, <1>2
    <3>3. (n + 1) % P = 0
      BY ONLY <3>1, <3>2, DivisionIs
    <3> QED
      BY ONLY <1>0, <3>3
  <2> QED
    BY <2>1
<1>4. (n + 1) \div P = q
  <2>1. n + 1 = P * q + (r + 1) /\ r + 1 < P /\ r + 1 \in Nat
    BY <1>1, <1>2, <1>3
  <2> QED
    BY <1>1, <1>2, <2>1, DivisionIs
<1>5. Len(Append(s, c)) = n + 1
  BY DEF n
<1>6. \A j \in 1..q : Mth(Append(s, c), (j - 1) * P, P) = Mth(s, (j - 1) * P, P)
  <2> TAKE j \in 1..q
  <2>1. (j - 1) * P \in Nat /\ (j - 1) * P + P <= n
    BY <1>1, RangeFits DEF q
  <2> QED
    BY <1>1, <2>1, MthKept DEF n
<1>7. LevelOf(Append(s, c), k) = [j \in 1..q |-> Mth(Append(s, c), (j - 1) * P, P)]
  BY <1>4, <1>5 DEF LevelOf, P
<1>8. LevelOf(s, k) = [j \in 1..q |-> Mth(s, (j - 1) * P, P)]
  BY DEF LevelOf, P, q, n
<1> QED
  BY <1>6, <1>7, <1>8

\* An append that completes a range of a level adds the hash of that range.
LEMMA LevelGrows ==
    ASSUME NEW s \in Seq(Commitment), NEW c \in Commitment, NEW k \in Nat,
           (Len(s) + 1) % Pow2[k] = 0
    PROVE  /\ LevelOf(Append(s, c), k) =
                 Append(LevelOf(s, k), Mth(Append(s, c), Len(s) + 1 - Pow2[k], Pow2[k]))
           /\ Len(s) + 1 - Pow2[k] = (Len(s) \div Pow2[k]) * Pow2[k]
<1> DEFINE P == Pow2[k]
           n == Len(s)
           q == (n + 1) \div P
           t == Append(s, c)
<1>1. P \in Nat /\ P >= 1 /\ n \in Nat
  BY PowType
<1> HIDE DEF P, n
<1>2. q \in Nat /\ n + 1 = P * q
  <2>1. n + 1 \in Nat /\ (n + 1) % P = 0
    BY <1>1 DEF P, n
  <2> QED
    BY <1>1, <2>1, Division
<1> HIDE DEF q
<1>3. q >= 1
  BY <1>1, <1>2
<1>4. n \div P = q - 1
  <2>1. q - 1 \in Nat /\ P - 1 \in Nat /\ P - 1 < P /\ n = P * (q - 1) + (P - 1)
    BY <1>1, <1>2, <1>3
  <2> QED
    BY <1>1, <2>1, DivisionIs
<1>5. n + 1 - P = (q - 1) * P
  BY <1>1, <1>2, <1>3
<1>6. t \in Seq(Commitment) /\ Len(t) = n + 1
  BY DEF n
<1>7. \A j \in 1..(q - 1) : Mth(t, (j - 1) * P, P) = Mth(s, (j - 1) * P, P)
  <2> TAKE j \in 1..(q - 1)
  <2>1. j \in 1..(n \div P)
    BY <1>4
  <2>2. (j - 1) * P \in Nat /\ (j - 1) * P + P <= n
    BY <1>1, <2>1, RangeFits
  <2> QED
    BY <1>1, <2>2, MthKept DEF n
<1> HIDE DEF t
<1>8. LevelOf(t, k) = [j \in 1..q |-> Mth(t, (j - 1) * P, P)]
  BY <1>6 DEF LevelOf, P, q
<1>9. LevelOf(s, k) = [j \in 1..(q - 1) |-> Mth(s, (j - 1) * P, P)]
  BY <1>4 DEF LevelOf, P, n
<1>10. Append(LevelOf(s, k), Mth(t, (q - 1) * P, P)) = LevelOf(t, k)
  <2> DEFINE L == LevelOf(s, k)
             x == Mth(t, (q - 1) * P, P)
             S == {Mth(s, (j - 1) * P, P) : j \in 1..(q - 1)} \cup {x}
  <2>1. q - 1 \in Nat /\ (q - 1) + 1 = q
    BY <1>2, <1>3
  <2>2. L \in Seq(S) /\ Len(L) = q - 1 /\ \A j \in 1..(q - 1) : L[j] = Mth(t, (j - 1) * P, P)
    <3> DEFINE E(j) == Mth(s, (j - 1) * P, P)
               p == q - 1
    <3>1. L = [j \in 1..p |-> E(j)] /\ p \in Nat /\ S = {E(j) : j \in 1..p} \cup {x}
      BY <1>9, <2>1
    <3>2. \A j \in 1..p : E(j) = Mth(t, (j - 1) * P, P)
      BY <1>7
    <3> HIDE DEF E, p, L, S, x
    <3>3. L \in Seq(S) /\ Len(L) = p /\ \A j \in 1..p : L[j] = E(j)
      BY <3>1
    <3> QED
      BY <3>2, <3>3 DEF p
  <2> HIDE DEF L, x, S
  <2>3. Append(L, x) = [j \in 1..q |-> IF j = q THEN x ELSE L[j]]
    <3>1. x \in S
      BY DEF S
    <3> QED
      BY <2>1, <2>2, <3>1, AppendIs
  <2>4. \A j \in 1..q : (IF j = q THEN x ELSE L[j]) = Mth(t, (j - 1) * P, P)
    BY <2>1, <2>2 DEF x
  <2>5. Append(L, x) = [j \in 1..q |-> Mth(t, (j - 1) * P, P)]
    BY <2>3, <2>4
  <2> QED
    BY <1>8, <2>5 DEF L, x
<1> QED
  BY <1>4, <1>5, <1>10 DEF P, n, t

\* The equation that defines what an append pushes on each level.
PushDef(c, q, f, k) == IF k = 0 THEN Leaf(c) ELSE Node(LeftSibling(k - 1), f[k - 1])
Push == INSTANCE Recursion WITH Domain <- Nat, Measure <- Itself, Def <- PushDef
Pushed(c) == CHOOSE f : f = [k \in Nat |-> PushDef(c, 0, f, k)]

\* What is pushed has the values its definition says.
LEMMA PushedIs ==
    ASSUME NEW c
    PROVE  /\ Pushed(c)[0] = Leaf(c)
           /\ \A k \in Nat : Pushed(c)[k + 1] = Node(LeftSibling(k), Pushed(c)[k])
<1>1. Push!Descends(c, 0)
  BY DEF Push!Descends, PushDef, Itself
<1>2. \A k \in Nat : Pushed(c)[k] = PushDef(c, 0, Pushed(c), k)
  BY <1>1, Push!DefinedByEquation DEF Pushed
<1> QED
  BY <1>2 DEF PushDef

\* On each level up to the last it completes, an append pushes the hash of the
\* range that the new entry ends.
LEMMA PushedHashes ==
    ASSUME Layout, NEW c \in Commitment, NEW k \in 0..TrailingZeros(size + 1)
    PROVE  Pushed(c)[k] = Mth(Append(commitments, c), size + 1 - Pow2[k], Pow2[k])
<1> DEFINE s == commitments
           t == Append(s, c)
           n == size + 1
           z == TrailingZeros(n)
           T == {j \in Nat : j <= z => Pushed(c)[j] = Mth(t, n - Pow2[j], Pow2[j])}
<1>1. /\ s \in Seq(Commitment) /\ size = Len(s) /\ n \in Nat /\ n >= 1
      /\ t \in Seq(Commitment) /\ Len(t) = n
  BY DEF Layout
<1>2. z \in Nat /\ n % Pow2[z] = 0
  BY <1>1, TrailingZerosIs
<1> HIDE DEF s, t, n, z
<1>3. 0 \in T
  <2>1. n - Pow2[0] = n - 1 /\ Pow2[0] = 1 /\ n - 1 \in Nat /\ (n - 1) + 1 = n
    BY <1>1, PowIs
  <2>2. t[n] = c
    BY <1>1 DEF t, n
  <2>3. Mth(t, n - 1, 1) = Leaf(t[(n - 1) + 1])
    BY <1>1, <2>1, MthSmall
  <2> QED
    BY <2>1, <2>2, <2>3, PushedIs
<1>4. ASSUME NEW j \in Nat, j \in T PROVE j + 1 \in T
  <2> SUFFICES ASSUME j + 1 <= z PROVE Pushed(c)[j + 1] = Mth(t, n - Pow2[j + 1], Pow2[j + 1])
    OBVIOUS
  <2> DEFINE P == Pow2[j]
  <2>1. P \in Nat /\ P >= 1 /\ Pow2[j + 1] = 2 * P
    BY PowIs, PowType
  <2>2. n % P = 0 /\ n % Pow2[j + 1] = 0
    BY <1>1, <1>2, Divides
  <2>3. 2 * P <= n
    <3> DEFINE D == 2 * P
               q == n \div D
    <3>1. D \in Nat /\ D >= 1 /\ n % D = 0
      BY <2>1, <2>2
    <3> HIDE DEF D, P
    <3>2. q \in Nat /\ n = D * q
      BY <1>1, <3>1, Division
    <3>3. q >= 1
      BY <1>1, <3>1, <3>2
    <3> HIDE DEF q
    <3>4. D <= D * q
      BY <3>1, <3>2, <3>3
    <3> QED
      BY <3>2, <3>4 DEF D
  <2>4. Pushed(c)[j] = Mth(t, n - P, P)
    <3>1. j <= z
      BY <1>2
    <3> QED
      BY <1>4, <3>1
  <2>5. LeftSibling(j) = Mth(t, n - 2 * P, P)
    <3>1. LeftSibling(j) = LevelOf(s, j)[Len(LevelOf(s, j))]
      BY LevelNow DEF LeftSibling, s
    <3> DEFINE q == Len(s) \div P
    <3>2. q * P = n - P /\ n = Len(s) + 1
      <4>1. n = Len(s) + 1 /\ (Len(s) + 1) % Pow2[j] = 0
        BY <1>1, <2>2 DEF n
      <4>2. Len(s) + 1 - Pow2[j] = (Len(s) \div Pow2[j]) * Pow2[j]
        BY <1>1, <4>1, LevelGrows
      <4>3. q * P = Len(s) + 1 - P
        BY <4>2, Zenon
      <4> HIDE DEF q, P
      <4> QED
        BY <1>1, <2>1, <4>1, <4>3
    <3>3. q \in Nat
      BY <1>1, <2>1, Division
    <3>4. q >= 1
      <4>1. n - P >= 1
        BY <2>1, <2>3, <1>1
      <4> HIDE DEF q
      <4> QED
        BY <2>1, <3>2, <3>3, <4>1
    <3>5. LevelOf(s, j)[q] = Mth(s, (q - 1) * P, P) /\ Len(LevelOf(s, j)) = q
      <4>1. /\ Len(LevelOf(s, j)) = q
            /\ \A i \in 1..q : LevelOf(s, j)[i] = Mth(s, (i - 1) * P, P)
        BY <1>1, LevelIs
      <4>2. q \in 1..q
        BY <3>3, <3>4
      <4> HIDE DEF q, P
      <4> QED
        BY <4>1, <4>2
    <3> HIDE DEF q, P
    <3>6. (q - 1) * P = n - 2 * P /\ n - 2 * P \in Nat /\ (n - 2 * P) + P <= Len(s)
      BY <1>1, <2>1, <2>3, <3>2, <3>3
    <3>7. Mth(t, n - 2 * P, P) = Mth(s, n - 2 * P, P)
      BY <1>1, <2>1, <3>6, MthKept DEF t
    <3> QED
      BY <3>1, <3>5, <3>6, <3>7
  <2>6. Mth(t, n - 2 * P, Pow2[j + 1]) = Node(Mth(t, n - 2 * P, P), Mth(t, n - P, P))
    <3> DEFINE lo == n - 2 * P
    <3>1. lo \in Nat /\ lo + Pow2[j + 1] <= Len(t) /\ lo + P = n - P
      BY <1>1, <2>1, <2>3
    <3> HIDE DEF lo
    <3> QED
      BY <1>1, <3>1, MthDouble DEF lo
  <2> QED
    BY <2>1, <2>4, <2>5, <2>6, PushedIs
<1> HIDE DEF T
<1>5. Nat \subseteq T
  BY <1>3, <1>4, Pow!NatInd
<1>6. k \in Nat /\ k <= z
  BY <1>2 DEF z, n
<1>7. k \in T
  BY <1>5, <1>6
<1>8. Pushed(c)[k] = Mth(t, n - Pow2[k], Pow2[k])
  BY <1>6, <1>7 DEF T
<1>9. n - Pow2[k] = size + 1 - Pow2[k]
  <2>1. size \in Nat /\ Pow2[k] \in Nat
    BY <1>6, PowType DEF Layout
  <2> QED
    BY <2>1 DEF n
<1> QED
  BY <1>8, <1>9 DEF s, t

\* A new tree has the levels of an empty log.
LEMMA EmptyLayout ==
    ASSUME NEW l, NEW s, l = << <<>> >>, s = <<>>
    PROVE  /\ s \in Seq(Commitment) /\ Len(s) = 0 /\ Len(l) = 1
           /\ l = [i \in 1..1 |-> LevelOf(s, i - 1)]
           /\ 0 < Pow2[1]
<1>1. s \in Seq(Commitment) /\ Len(s) = 0 /\ Len(l) = 1
  OBVIOUS
<1>2. LevelOf(s, 0) = <<>>
  <2>1. Len(s) \div Pow2[0] = 0
    BY PowIs
  <2> QED
    BY <2>1 DEF LevelOf
<1>3. l = [i \in 1..1 |-> LevelOf(s, i - 1)]
  <2>1. \A i \in 1..1 : LevelOf(s, i - 1) = <<>>
    BY <1>2
  <2> QED
    BY <2>1
<1>4. 0 < Pow2[1]
  BY PowType
<1> QED
  BY <1>1, <1>3, <1>4

\* An append makes the levels of the longer log.
LEMMA AppendKeepsLayout ==
    ASSUME Layout, NEW c \in Commitment, AppendLeaf(c)
    PROVE  Layout'
<1> DEFINE s == commitments
           t == Append(s, c)
           z == TrailingZeros(size + 1)
           height == IF Len(levels) <= z THEN z + 1 ELSE Len(levels)
<1>1. /\ s \in Seq(Commitment) /\ size = Len(s) /\ size + 1 \in Nat /\ size + 1 >= 1
      /\ t \in Seq(Commitment) /\ Len(t) = size + 1
      /\ Len(levels) \in Nat /\ Len(levels) >= 1
  BY DEF Layout
<1>2. /\ size' = size + 1
      /\ levels' = [i \in 1..height |->
                       IF i - 1 <= z THEN Append(Level(i - 1), Pushed(c)[i - 1])
                       ELSE Level(i - 1)]
      /\ commitments' = t
  BY DEF AppendLeaf, Pushed, PushDef
<1>3. z \in Nat /\ (size + 1) % Pow2[z] = 0 /\ (size + 1) % Pow2[z + 1] # 0
  BY <1>1, TrailingZerosIs
<1> HIDE DEF s, t, z
<1>4. height \in Nat /\ height >= 1 /\ z < height /\ Len(levels) <= height
  BY <1>1, <1>3
<1> HIDE DEF height
<1>5. ASSUME NEW i \in 1..height
      PROVE  (IF i - 1 <= z THEN Append(Level(i - 1), Pushed(c)[i - 1]) ELSE Level(i - 1))
                = LevelOf(t, i - 1)
  <2>1. i - 1 \in Nat /\ Level(i - 1) = LevelOf(s, i - 1)
    BY <1>4, LevelNow DEF s
  <2>2. CASE i - 1 <= z
    <3>1. (size + 1) % Pow2[i - 1] = 0
      BY <1>1, <1>3, <2>1, <2>2, Divides
    <3>2. Pushed(c)[i - 1] = Mth(t, size + 1 - Pow2[i - 1], Pow2[i - 1])
      <4>1. i - 1 \in 0..TrailingZeros(size + 1)
        BY <1>3, <2>1, <2>2 DEF z
      <4> QED
        BY <4>1, PushedHashes DEF t, s
    <3>3. LevelOf(t, i - 1) = Append(LevelOf(s, i - 1), Mth(t, size + 1 - Pow2[i - 1], Pow2[i - 1]))
      BY <1>1, <2>1, <3>1, LevelGrows DEF t
    <3> QED
      BY <2>1, <2>2, <3>2, <3>3
  <2>3. CASE ~(i - 1 <= z)
    <3>1. (size + 1) % Pow2[i - 1] # 0
      <4>1. z + 1 \in Nat /\ z + 1 <= i - 1
        BY <1>3, <2>1, <2>3
      <4> QED
        BY <1>1, <1>3, <2>1, <4>1, Divides
    <3>2. LevelOf(t, i - 1) = LevelOf(s, i - 1)
      BY <1>1, <2>1, <3>1, LevelStays DEF t
    <3> QED
      BY <2>1, <2>3, <3>2
  <2> QED
    BY <2>2, <2>3
<1>6. levels' = [i \in 1..height |-> LevelOf(t, i - 1)]
  BY <1>2, <1>5
<1>7. Len(levels') = height
  BY <1>4, <1>6
<1>8. size + 1 < Pow2[height]
  <2>1. Pow2[height] \in Nat /\ Pow2[Len(levels)] \in Nat /\ size < Pow2[Len(levels)]
    BY <1>1, <1>4, PowType DEF Layout
  <2>2. CASE Len(levels) < height
    <3>1. 2 * Pow2[Len(levels)] <= Pow2[height] /\ Pow2[Len(levels)] >= 1
      BY <1>1, <1>4, <2>2, PowGrows, PowType
    <3>2. size + 1 <= Pow2[Len(levels)]
      BY <1>1, <2>1
    <3> QED
      BY <1>1, <2>1, <3>1, <3>2
  <2>3. CASE Len(levels) = height
    <3>1. size + 1 # Pow2[height]
      <4>1. ASSUME size + 1 = Pow2[height] PROVE FALSE
        <5>1. Pow2[height] >= 1 /\ Pow2[height] = Pow2[height] * 1 + 0
          BY <1>4, <2>1, PowType
        <5>2. (size + 1) % Pow2[height] = 0
          BY <2>1, <4>1, <5>1, DivisionIs
        <5>3. z + 1 \in Nat /\ z + 1 <= height
          BY <1>3, <1>4
        <5> QED
          BY <1>1, <1>3, <1>4, <5>2, <5>3, Divides
      <4> QED
        BY <4>1
    <3> QED
      BY <1>1, <2>1, <2>3, <3>1
  <2> QED
    BY <1>4, <2>2, <2>3, <1>1
<1> QED
  BY <1>1, <1>2, <1>4, <1>6, <1>7, <1>8 DEF Layout

\* The invariant holds of a new tree, and of every tree an append makes.
LEMMA LayoutInit == Init => Layout
<1> SUFFICES ASSUME Init PROVE Layout
  OBVIOUS
<1>1. levels = << <<>> >> /\ size = 0 /\ commitments = <<>>
  BY DEF Init
<1> QED
  BY <1>1, EmptyLayout DEF Layout

\* Every step keeps the invariant.
LEMMA LayoutNext == Layout /\ [Next]_vars => Layout'
<1> SUFFICES ASSUME Layout, [Next]_vars PROVE Layout'
  OBVIOUS
<1>1. CASE Restart
  <2>1. levels' = << <<>> >> /\ size' = 0 /\ commitments' = <<>>
    BY <1>1 DEF Restart
  <2> QED
    BY <2>1, EmptyLayout DEF Layout
<1>2. ASSUME NEW c \in Commitment, AppendLeaf(c) PROVE Layout'
  BY <1>2, AppendKeepsLayout
<1>3. CASE UNCHANGED vars
  BY <1>3 DEF Layout, vars
<1> QED
  BY <1>1, <1>2, <1>3 DEF Next

\* The inductive invariant always holds.
LEMMA LayoutAlways == Spec => []Layout
BY LayoutInit, LayoutNext, PTL DEF Spec

\* In a tree of any size, level k holds exactly size >> k hashes, each of them
\* the RFC 6962 hash of its complete range of entries, and there is a level for
\* every bit of the size (tree.rs append and its level layout).
THEOREM LevelsAreSubtrees == Spec => []LevelsHoldSubtrees
<1>1. Layout => LevelsHoldSubtrees
  <2> SUFFICES ASSUME Layout,
                      NEW k \in 0..(Len(levels) - 1)
               PROVE  /\ Len(levels[k + 1]) = size \div Pow2[k]
                      /\ \A j \in 0..(Len(levels[k + 1]) - 1) :
                            levels[k + 1][j + 1] = TreeHash[Block(k, j)]
    BY DEF Layout, LevelsHoldSubtrees
  <2>1. k \in Nat /\ k + 1 \in 1..Len(levels) /\ (k + 1) - 1 = k
    BY DEF Layout
  <2>2. levels[k + 1] = LevelOf(commitments, k)
    BY <2>1 DEF Layout
  <2>3. /\ Len(levels[k + 1]) = size \div Pow2[k]
        /\ size \div Pow2[k] \in Nat
        /\ \A j \in 1..(size \div Pow2[k]) :
              levels[k + 1][j] = Mth(commitments, (j - 1) * Pow2[k], Pow2[k])
    BY <2>1, <2>2, LevelIs DEF Layout
  <2>4. ASSUME NEW j \in 0..(Len(levels[k + 1]) - 1)
        PROVE  levels[k + 1][j + 1] = TreeHash[Block(k, j)]
    <3>1. j \in Nat /\ j + 1 \in 1..(size \div Pow2[k]) /\ (j + 1) - 1 = j
      BY <2>3
    <3>2. levels[k + 1][j + 1] = Mth(commitments, j * Pow2[k], Pow2[k])
      BY <2>3, <3>1
    <3>3. j * Pow2[k] + Pow2[k] = (j + 1) * Pow2[k]
      <4> DEFINE P == Pow2[k]
      <4>1. P \in Nat
        BY <2>1, PowType
      <4> HIDE DEF P
      <4>2. j * P + P = (j + 1) * P
        BY <3>1, <4>1
      <4> QED
        BY <4>2 DEF P
    <3> QED
      BY <3>2, <3>3 DEF Mth, Entries, Block
  <2> QED
    BY <2>3, <2>4
<1> QED
  BY <1>1, LayoutAlways, PTL

------------------------------------------------------------------------------
(* Roots.                                                                    *)

\* The equation that defines what the peaks of s fold to.
FoldDef(s, q, f, k) ==
    IF k = 0 THEN NoHash
    ELSE IF (s \div Pow2[k - 1]) % 2 = 0 THEN f[k - 1]
    ELSE FoldPeak(levels[k][s \div Pow2[k - 1]], f[k - 1])
Fold == INSTANCE Recursion WITH Domain <- Nat, Measure <- Itself, Def <- FoldDef
Folded(s) == CHOOSE f : f = [k \in Nat |-> FoldDef(s, 0, f, k)]

\* The fold has the values its definition says.
LEMMA FoldedIs ==
    ASSUME NEW s
    PROVE  /\ RootAtSize(s) = Folded(s)[Len(levels)]
           /\ Folded(s)[0] = NoHash
           /\ \A k \in Nat : Folded(s)[k + 1] =
                 IF (s \div Pow2[k]) % 2 = 0 THEN Folded(s)[k]
                 ELSE FoldPeak(levels[k + 1][s \div Pow2[k]], Folded(s)[k])
<1>1. Fold!Descends(s, 0)
  BY DEF Fold!Descends, FoldDef, Itself
<1>2. \A k \in Nat : Folded(s)[k] = FoldDef(s, 0, Folded(s), k)
  BY <1>1, Fold!DefinedByEquation DEF Folded
<1>3. RootAtSize(s) = Folded(s)[Len(levels)]
  BY DEF RootAtSize, Folded, FoldDef
<1>4. Folded(s)[0] = NoHash
  BY <1>2 DEF FoldDef
<1>5. ASSUME NEW k \in Nat
      PROVE  Folded(s)[k + 1] = IF (s \div Pow2[k]) % 2 = 0 THEN Folded(s)[k]
                                ELSE FoldPeak(levels[k + 1][s \div Pow2[k]], Folded(s)[k])
  <2>1. k + 1 \in Nat /\ k + 1 # 0 /\ (k + 1) - 1 = k
    OBVIOUS
  <2>2. Folded(s)[k + 1] = FoldDef(s, 0, Folded(s), k + 1)
    BY <1>2, <2>1
  <2> QED
    BY <2>1, <2>2 DEF FoldDef
<1> QED
  BY <1>3, <1>4, <1>5

\* One more bit of a number.
LEMMA NextBit ==
    ASSUME NEW s \in Nat, NEW P \in Nat, P >= 1
    PROVE  /\ s \div P \in Nat /\ s % P \in Nat /\ s % P < P
           /\ s = (s \div P) * P + (s % P)
           /\ (s \div P) % 2 = 0 => s % (2 * P) = s % P
           /\ (s \div P) % 2 # 0 => s % (2 * P) = P + (s % P) /\ s \div P >= 1
<1> DEFINE q == s \div P
           r == s % P
           h == q \div 2
           D == 2 * P
<1>1. q \in Nat /\ r \in Nat /\ r < P /\ s = P * q + r
  BY Division
<1> HIDE DEF q, r
<1>2. h \in Nat /\ (q % 2 = 0 => q = 2 * h) /\ (q % 2 # 0 => q = 2 * h + 1)
  BY <1>1
<1> HIDE DEF h
<1>3. P * q = q * P
  BY <1>1
<1>4. D \in Nat /\ D >= 1 /\ r < D /\ P + r < D /\ P + r \in Nat
  BY <1>1
<1>5. ASSUME q % 2 = 0 PROVE s % D = r
  <2>1. s = D * h + r
    BY <1>1, <1>2, <1>5
  <2> HIDE DEF D
  <2>2. (D * h + r) % D = r
    BY <1>1, <1>2, <1>4, DivisionIs
  <2> QED
    BY <2>1, <2>2
<1>6. ASSUME q % 2 # 0 PROVE s % D = P + r /\ q >= 1
  <2>1. s = D * h + (P + r)
    BY <1>1, <1>2, <1>6
  <2>2. q >= 1
    BY <1>1, <1>6
  <2> DEFINE t == P + r
  <2>3. t \in Nat /\ t < D /\ s = D * h + t
    BY <1>4, <2>1
  <2> HIDE DEF D, t
  <2>4. (D * h + t) % D = t
    BY <1>2, <1>4, <2>3, DivisionIs
  <2> QED
    BY <2>2, <2>3, <2>4 DEF t
<1> QED
  BY <1>1, <1>3, <1>5, <1>6 DEF q, r, D

\* A prefix has no more complete ranges than the log.
LEMMA DivisionGrows ==
    ASSUME NEW s \in Nat, NEW n \in Nat, s <= n, NEW d \in Nat, d >= 1
    PROVE  s \div d <= n \div d
<1> DEFINE p == s \div d
           q == n \div d
           r == n % d
<1>1. p \in Nat /\ d * p <= s /\ q \in Nat /\ r \in Nat /\ n = d * q + r /\ r < d
  BY Division
<1> HIDE DEF p, q, r
<1>2. ASSUME q + 1 <= p PROVE FALSE
  <2>1. d * (q + 1) <= d * p
    BY <1>1, <1>2
  <2>2. d * (q + 1) = d * q + d
    BY <1>1
  <2> QED
    BY <1>1, <2>1, <2>2
<1>3. p <= q
  BY <1>1, <1>2
<1> QED
  BY <1>3 DEF p, q

\* A peak on top of the rest that was folded.
LEMMA PeakOnRest ==
    ASSUME NEW s \in Seq(Commitment), NEW lo \in Nat, NEW k \in Nat, NEW r \in Nat,
           r < Pow2[k], lo + Pow2[k] + r <= Len(s)
    PROVE  FoldPeak(Mth(s, lo, Pow2[k]), Mth(s, lo + Pow2[k], r)) = Mth(s, lo, Pow2[k] + r)
<1> DEFINE P == Pow2[k]
<1>1. P \in Nat /\ P >= 1
  BY PowType
<1>2. CASE r = 0
  <2>1. Mth(s, lo + P, r) = NoHash
    BY <1>1, <1>2, MthSmall
  <2> QED
    BY <1>1, <1>2, <2>1 DEF FoldPeak
<1>3. CASE r >= 1
  <2>1. P + r \in Nat /\ P + r >= 2 /\ lo + (P + r) <= Len(s) /\ (P + r) - P = r
    BY <1>1, <1>3
  <2>2. Split(P + r) = P
    <3> HIDE DEF P
    <3>1. P < P + r /\ P + r <= 2 * P
      BY <1>1, <1>3 DEF P
    <3> QED
      BY ONLY <1>1, <2>1, <3>1, k \in Nat, SplitOnly DEF P
  <2>3. Mth(s, lo, P + r) = Node(Mth(s, lo, P), Mth(s, lo + P, r))
    BY <2>1, <2>2, MthSplit
  <2>4. lo + P \in Nat /\ (lo + P) + r <= Len(s)
    BY <1>1
  <2>5. Mth(s, lo + P, r) # NoHash
    BY <1>3, <2>4, MthSome
  <2> QED
    BY <2>3, <2>5 DEF FoldPeak
<1> QED
  BY <1>2, <1>3

\* The peaks up to bit k fold to the hash of the last entries they cover.
LEMMA FoldedHashes ==
    ASSUME Layout, NEW s \in 0..size, NEW k \in 0..Len(levels)
    PROVE  Folded(s)[k] = Mth(commitments, s - (s % Pow2[k]), s % Pow2[k])
<1> DEFINE C == commitments
           n == Len(levels)
           T == {j \in Nat : j <= n => Folded(s)[j] = Mth(C, s - (s % Pow2[j]), s % Pow2[j])}
<1>1. /\ C \in Seq(Commitment) /\ size = Len(C) /\ Len(C) \in Nat /\ n \in Nat
      /\ s \in Nat /\ s <= Len(C)
  BY DEF Layout
<1>2. \A i \in 1..n : levels[i] = LevelOf(C, i - 1)
  BY DEF Layout
<1> HIDE DEF C, n
<1>3. 0 \in T
  <2>1. s % 1 = 0
    BY <1>1
  <2>2. Mth(C, s, 0) = NoHash
    BY <1>1, MthSmall
  <2>3. s % Pow2[0] = 0 /\ s - 0 = s
    BY <1>1, <2>1, PowIs
  <2>4. Folded(s)[0] = Mth(C, s - (s % Pow2[0]), s % Pow2[0])
    BY <2>2, <2>3, FoldedIs
  <2> QED
    BY <2>4
<1>4. ASSUME NEW j \in Nat, j \in T PROVE j + 1 \in T
  <2> SUFFICES ASSUME j + 1 <= n
               PROVE  Folded(s)[j + 1] = Mth(C, s - (s % Pow2[j + 1]), s % Pow2[j + 1])
    OBVIOUS
  <2> DEFINE P == Pow2[j]
             q == s \div P
             r == s % P
  <2>1. P \in Nat /\ P >= 1 /\ Pow2[j + 1] = 2 * P
    BY PowIs, PowType
  <2>2. /\ q \in Nat /\ r \in Nat /\ r < P /\ s = q * P + r
        /\ q % 2 = 0 => s % (2 * P) = r
        /\ q % 2 # 0 => s % (2 * P) = P + r /\ q >= 1
    BY <1>1, <2>1, NextBit
  <2>3. Folded(s)[j] = Mth(C, s - r, r)
    <3>1. j <= n
      BY <1>1
    <3> QED
      BY <1>4, <3>1
  <2>4. CASE q % 2 = 0
    <3>1. Folded(s)[j + 1] = Folded(s)[j]
      BY <2>4, FoldedIs
    <3> QED
      BY <2>1, <2>2, <2>3, <2>4, <3>1
  <2>5. CASE q % 2 # 0
    <3>1. Folded(s)[j + 1] = FoldPeak(levels[j + 1][q], Folded(s)[j])
      BY <2>5, FoldedIs
    <3>2. levels[j + 1] = LevelOf(C, j)
      <4>1. j + 1 \in 1..n /\ (j + 1) - 1 = j
        BY <1>1
      <4> QED
        BY <1>2, <4>1
    <3>3. levels[j + 1][q] = Mth(C, (q - 1) * P, P)
      <4>1. q <= Len(C) \div P /\ Len(C) \div P \in Nat
        BY <1>1, <2>1, DivisionGrows, Division
      <4>2. \A i \in 1..(Len(C) \div P) : LevelOf(C, j)[i] = Mth(C, (i - 1) * P, P)
        BY <1>1, LevelIs
      <4>3. q \in 1..(Len(C) \div P)
        BY <2>2, <2>5, <4>1
      <4> HIDE DEF q, P
      <4> QED
        BY <3>2, <4>2, <4>3
    <3> DEFINE lo == (q - 1) * P
    <3>4. s % (2 * P) = P + r /\ q >= 1
      BY <2>2, <2>5
    <3> HIDE DEF q, r
    <3>5. lo \in Nat /\ lo + P = s - r /\ lo = s - (P + r) /\ lo + P + r <= Len(C)
      <4> HIDE DEF P
      <4>1. q - 1 \in Nat /\ lo \in Nat
        BY <2>1, <2>2, <3>4
      <4>2. lo + P = q * P
        BY <2>1, <2>2, <3>4
      <4> HIDE DEF lo
      <4> QED
        BY <1>1, <2>1, <2>2, <4>1, <4>2
    <3> HIDE DEF lo
    <3>6. FoldPeak(Mth(C, lo, P), Mth(C, lo + P, r)) = Mth(C, lo, P + r)
      BY <1>1, <2>2, <3>5, PeakOnRest
    <3>7. levels[j + 1][q] = Mth(C, lo, P)
      BY <3>3 DEF lo
    <3> QED
      BY <2>1, <2>3, <3>1, <3>4, <3>5, <3>6, <3>7
  <2> QED
    BY <2>4, <2>5
<1> HIDE DEF T
<1>5. Nat \subseteq T
  BY <1>3, <1>4, Pow!NatInd
<1>6. k \in Nat /\ k <= n
  BY DEF n, Layout
<1>7. k \in T
  BY <1>5, <1>6
<1> QED
  BY <1>6, <1>7 DEF T, C

\* The root of a prefix is its reference hash.
LEMMA RootIsHash ==
    ASSUME Layout, NEW s \in 0..size
    PROVE  RootAtSize(s) = Mth(commitments, 0, s)
<1> DEFINE P == Pow2[Len(levels)]
<1>1. P \in Nat /\ P >= 1 /\ s \in Nat /\ s < P /\ Len(levels) \in 0..Len(levels)
  BY PowType DEF Layout
<1>2. s % P = s
  <2> HIDE DEF P
  <2>1. s = P * 0 + s
    BY <1>1
  <2> QED
    BY <1>1, <2>1, DivisionIs
<1>3. RootAtSize(s) = Mth(commitments, s - (s % P), s % P)
  BY <1>1, FoldedIs, FoldedHashes
<1> QED
  BY <1>1, <1>2, <1>3

\* The root of every prefix, folded from cached peaks, is the RFC 6962 hash of
\* that prefix, for a log of any size (tree.rs root_at_size).
THEOREM RootsAreReference == Spec => []RootsMatchReference
<1>1. Layout => RootsMatchReference
  <2> SUFFICES ASSUME Layout, NEW s \in 0..size
               PROVE  RootAtSize(s) = TreeHash[SubSeq(commitments, 1, s)]
    BY DEF RootsMatchReference
  <2>1. 0 + 1 = 1 /\ 0 + s = s
    BY DEF Layout
  <2> QED
    BY <2>1, RootIsHash DEF Mth, Entries
<1> QED
  BY <1>1, LayoutAlways, PTL

------------------------------------------------------------------------------
(* Hashes of ranges.                                                         *)

\* The cached hash of a complete range is the reference's.
LEMMA SubtreeIs ==
    ASSUME Layout, NEW k \in Nat, NEW lo \in Nat, lo % Pow2[k] = 0, lo + Pow2[k] <= size
    PROVE  Subtree(k, lo) = Mth(commitments, lo, Pow2[k])
<1> DEFINE P == Pow2[k]
           q == lo \div P
           n == Len(levels)
<1>1. P \in Nat /\ P >= 1 /\ n \in Nat /\ size \in Nat /\ size < Pow2[n]
  BY PowType DEF Layout
<1>2. k < n
  <2>1. Pow2[n] \in Nat /\ Pow2[k] \in Nat /\ Pow2[k] <= size
    BY <1>1, PowType
  <2> HIDE DEF n, P
  <2>2. n < k => 2 * Pow2[n] <= Pow2[k]
    BY <1>1, PowGrows
  <2>3. ~(n < k) /\ n # k
    BY <1>1, <2>1, <2>2
  <2> QED
    BY <1>1, <2>3
<1>3. lo + P <= size /\ lo % P = 0
  OBVIOUS
<1> HIDE DEF P
<1>4. q \in Nat /\ lo = P * q
  BY <1>1, <1>3, Division
<1> HIDE DEF q
<1>5. q + 1 <= size \div P
  <2> DEFINE s == P * (q + 1)
  <2>1. s \in Nat /\ s <= size /\ s = P * (q + 1) + 0
    BY <1>1, <1>3, <1>4
  <2>2. s \div P = q + 1
    <3>1. q + 1 \in Nat /\ 0 < P
      BY <1>1, <1>4
    <3> HIDE DEF s
    <3> QED
      BY <1>1, <2>1, <3>1, DivisionIs
  <2> HIDE DEF s
  <2> QED
    BY <1>1, <2>1, <2>2, DivisionGrows
<1>6. k + 1 \in 1..n /\ (k + 1) - 1 = k
  BY <1>1, <1>2
<1>7. levels[k + 1] = LevelOf(commitments, k)
  BY <1>6 DEF Layout, n
<1>8. q + 1 \in 1..(size \div P) /\ ((q + 1) - 1) * P = lo
  BY <1>1, <1>4, <1>5, Division
<1>9. LevelOf(commitments, k)[q + 1] = Mth(commitments, ((q + 1) - 1) * P, P)
  <2>1. size = Len(commitments) /\ commitments \in Seq(Commitment)
    BY DEF Layout
  <2> QED
    BY <1>8, <2>1, LevelIs DEF P
<1> QED
  BY <1>7, <1>8, <1>9 DEF Subtree, P, q

\* A range that a split of the log leads to: it starts at a multiple of a power
\* of two that is not smaller than it is.
Aligned(lo, len) == \E z \in Nat : lo % Pow2[z] = 0 /\ len <= Pow2[z]

\* Both sides of the split of such a range are such ranges, and the left one is
\* a complete subtree.
LEMMA AlignedSplit ==
    ASSUME NEW lo \in Nat, NEW len \in Nat, len >= 2, Aligned(lo, len)
    PROVE  \E y \in Nat :
              /\ Split(len) = Pow2[y] /\ Pow2[y] < len /\ len <= 2 * Pow2[y]
              /\ lo % Pow2[y] = 0
              /\ Aligned(lo, Pow2[y]) /\ Aligned(lo + Pow2[y], len - Pow2[y])
<1>1. PICK y \in Nat : Split(len) = Pow2[y] /\ Pow2[y] < len /\ len <= 2 * Pow2[y]
  BY SplitIs
<1>2. PICK z \in Nat : lo % Pow2[z] = 0 /\ len <= Pow2[z]
  BY DEF Aligned
<1>3. Pow2[y] \in Nat /\ Pow2[y] >= 1 /\ Pow2[z] \in Nat
  BY PowType
<1>4. y <= z
  <2>1. ~(z < y)
    BY <1>1, <1>2, <1>3, PowGrows
  <2> QED
    BY <2>1
<1>5. lo % Pow2[y] = 0
  BY <1>2, <1>4, Divides
<1>6. (lo + Pow2[y]) % Pow2[y] = 0
  <2> DEFINE P == Pow2[y]
             q == lo \div P
  <2>1. P \in Nat /\ P >= 1 /\ lo % P = 0
    BY <1>3, <1>5
  <2> HIDE DEF P
  <2>2. q \in Nat /\ lo = P * q
    BY <2>1, Division
  <2> HIDE DEF q
  <2>3. lo + P = P * (q + 1) + 0 /\ q + 1 \in Nat
    BY <2>1, <2>2
  <2>4. (P * (q + 1) + 0) % P = 0
    BY <2>1, <2>3, DivisionIs
  <2>5. (lo + P) % P = 0
    BY <2>3, <2>4
  <2> QED
    BY <2>5 DEF P
<1>7. Aligned(lo, Pow2[y])
  BY <1>3, <1>5 DEF Aligned
<1>8. Aligned(lo + Pow2[y], len - Pow2[y])
  BY <1>1, <1>3, <1>6 DEF Aligned
<1> QED
  BY <1>1, <1>5, <1>7, <1>8

\* Every prefix of the log is such a range.
LEMMA AlignedPrefix == \A len \in Nat : Aligned(0, len)
<1> TAKE len \in Nat
<1>1. Pow2[len] \in Nat /\ Pow2[len] >= 1 /\ len <= Pow2[len]
  BY PowType
<1>2. 0 = Pow2[len] * 0 + 0
  BY <1>1
<1>3. 0 % Pow2[len] = 0
  BY <1>1, <1>2, DivisionIs
<1> QED
  BY <1>1, <1>3 DEF Aligned

\* The equation that defines RangeHash.
RangeDef(p, q, f, n) ==
    [a \in Nat |->
        IF IsPowerOfTwo(n) THEN Subtree(TrailingZeros(n), a)
        ELSE Node(f[Split(n)][a], f[n - Split(n)][a + Split(n)])]
Ranges == INSTANCE Recursion WITH Domain <- Nat \ {0}, Measure <- Itself, Def <- RangeDef
Ranged == CHOOSE f : f = [n \in Nat \ {0} |-> RangeDef(0, 0, f, n)]

\* A number that is not a power of two has a split.
LEMMA NotPower ==
    ASSUME NEW n \in Nat \ {0}, ~IsPowerOfTwo(n)
    PROVE  n >= 2 /\ Split(n) \in 1..(n - 1)
<1>1. n # 1
  BY TrailingZerosOfPow, PowIs DEF IsPowerOfTwo
<1>2. n \in Nat /\ n >= 2
  BY <1>1
<1> QED
  BY <1>2, SplitBounds

\* RangeHash has the values its definition says.
LEMMA RangedIs ==
    /\ \A lo, len : RangeHash(lo, len) = Ranged[len][lo]
    /\ \A n \in Nat \ {0}, a \in Nat :
          Ranged[n][a] = IF IsPowerOfTwo(n) THEN Subtree(TrailingZeros(n), a)
                         ELSE Node(Ranged[Split(n)][a], Ranged[n - Split(n)][a + Split(n)])
<1>1. ASSUME NEW n \in Nat \ {0}, NEW f, NEW g,
             \A y \in Nat \ {0} : y < n => f[y] = g[y]
      PROVE  RangeDef(0, 0, f, n) = RangeDef(0, 0, g, n)
  <2>1. CASE IsPowerOfTwo(n)
    BY <2>1 DEF RangeDef
  <2>2. CASE ~IsPowerOfTwo(n)
    <3> DEFINE k == Split(n)
    <3>1. k \in 1..(n - 1)
      BY <2>2, NotPower
    <3> HIDE DEF k
    <3>2. k \in Nat \ {0} /\ k < n /\ n - k \in Nat \ {0} /\ n - k < n
      BY <3>1
    <3>3. f[k] = g[k] /\ f[n - k] = g[n - k]
      BY <1>1, <3>2
    <3> QED
      BY <3>3 DEF RangeDef, k
  <2> QED
    BY <2>1, <2>2
<1>2. Ranges!Descends(0, 0)
  BY <1>1 DEF Ranges!Descends, Itself
<1>3. \A n \in Nat \ {0} : Ranged[n] = RangeDef(0, 0, Ranged, n)
  BY <1>2, Ranges!DefinedByEquation DEF Ranged
<1>4. \A lo, len : RangeHash(lo, len) = Ranged[len][lo]
  BY DEF RangeHash, Ranged, RangeDef
<1> QED
  BY <1>3, <1>4 DEF RangeDef

\* The hash that the tree computes for a range is the reference's.
LEMMA RangeHashIs ==
    ASSUME Layout, NEW lo \in Nat, NEW len \in Nat \ {0}, Aligned(lo, len), lo + len <= size
    PROVE  RangeHash(lo, len) = Mth(commitments, lo, len)
<1> DEFINE Right(n, a) == Aligned(a, n) /\ a + n <= size => Ranged[n][a] = Mth(commitments, a, n)
           T == {m \in Nat : \A n \in 1..m, a \in Nat : Right(n, a)}
<1>0. size \in Nat /\ size = Len(commitments) /\ commitments \in Seq(Commitment)
  BY DEF Layout
<1>1. 0 \in T
  OBVIOUS
<1>2. ASSUME NEW m \in Nat, m \in T PROVE m + 1 \in T
  <2>1. ASSUME NEW a \in Nat, Aligned(a, m + 1), a + (m + 1) <= size
        PROVE  Ranged[m + 1][a] = Mth(commitments, a, m + 1)
    <3> DEFINE n == m + 1
               k == Split(n)
    <3>1. n \in Nat \ {0} /\ n - 1 = m /\ Aligned(a, n) /\ a + n <= size
      BY <2>1
    <3>2. \A x \in 1..(n - 1), b \in Nat : Right(x, b)
      BY <1>2, <3>1
    <3> HIDE DEF n
    <3>3. CASE IsPowerOfTwo(n)
      <4> DEFINE z == TrailingZeros(n)
      <4>1. z \in Nat /\ n = Pow2[z]
        BY <3>1, <3>3, TrailingZerosIs DEF IsPowerOfTwo
      <4> HIDE DEF z
      <4>2. a % Pow2[z] = 0
        <5>1. PICK y \in Nat : a % Pow2[y] = 0 /\ n <= Pow2[y]
          BY <3>1 DEF Aligned
        <5>2. ~(y < z)
          BY <4>1, <5>1, PowGrows, PowType
        <5>3. z <= y
          BY <4>1, <5>2
        <5> QED
          BY <4>1, <5>1, <5>3, Divides
      <4>3. Subtree(z, a) = Mth(commitments, a, Pow2[z])
        BY <3>1, <4>1, <4>2, SubtreeIs
      <4>4. Ranged[n][a] = Subtree(z, a)
        BY <3>1, <3>3, RangedIs DEF z
      <4> QED
        BY <4>1, <4>3, <4>4 DEF n
    <3>4. CASE ~IsPowerOfTwo(n)
      <4>1. n >= 2 /\ k \in 1..(n - 1)
        BY <3>1, <3>4, NotPower
      <4>2. Aligned(a, k) /\ Aligned(a + k, n - k)
        BY <3>1, <4>1, AlignedSplit
      <4> HIDE DEF k
      <4>3. /\ n - k \in 1..(n - 1) /\ a + k \in Nat /\ a + k <= size
            /\ (a + k) + (n - k) <= size
        BY <1>0, <3>1, <4>1
      <4>4. Ranged[k][a] = Mth(commitments, a, k)
        BY <3>2, <4>1, <4>2, <4>3
      <4>5. Ranged[n - k][a + k] = Mth(commitments, a + k, n - k)
        BY <3>2, <4>2, <4>3
      <4>6. Ranged[n][a] = Node(Ranged[k][a], Ranged[n - k][a + k])
        BY <3>1, <3>4, RangedIs DEF k
      <4>7. Mth(commitments, a, n) = Node(Mth(commitments, a, k), Mth(commitments, a + k, n - k))
        BY <1>0, <3>1, <4>1, MthSplit DEF k
      <4> QED
        BY <4>4, <4>5, <4>6, <4>7 DEF n
    <3> QED
      BY <3>3, <3>4
  <2>2. ASSUME NEW n \in 1..(m + 1), NEW a \in Nat PROVE Right(n, a)
    <3>1. CASE n \in 1..m
      BY <1>2, <3>1
    <3>2. CASE n = m + 1
      BY <2>1, <3>2
    <3> QED
      BY <3>1, <3>2
  <2> HIDE DEF Right
  <2> QED
    BY <2>2
<1> HIDE DEF T
<1>3. Nat \subseteq T
  BY <1>1, <1>2, Pow!NatInd
<1>4. len \in T /\ len \in 1..len
  BY <1>3
<1>5. Ranged[len][lo] = Mth(commitments, lo, len)
  BY <1>4 DEF T
<1> QED
  BY <1>5, RangedIs

------------------------------------------------------------------------------
(* Inclusion paths.                                                          *)

\* A number from 2 on has a split, and induction reaches it from both sides.
LEMMA NotOne ==
    ASSUME NEW n \in Nat \ {0}, n # 1
    PROVE  /\ n >= 2 /\ Split(n) \in Nat \ {0} /\ Split(n) < n
           /\ n - Split(n) \in Nat \ {0} /\ n - Split(n) < n
           /\ Split(n) \in 1..(n - 1) /\ n - Split(n) \in 1..(n - 1)
<1>1. n \in Nat /\ n >= 2
  OBVIOUS
<1> DEFINE k == Split(n)
<1>2. k \in 1..(n - 1)
  BY <1>1, SplitBounds
<1> HIDE DEF k
<1>3. /\ k \in Nat \ {0} /\ k < n
      /\ n - k \in Nat \ {0} /\ n - k < n /\ n - k \in 1..(n - 1)
  BY <1>1, <1>2
<1> QED
  BY <1>1, <1>2, <1>3 DEF k

\* The equation that defines PathInto.
PathDef(m, q, f, n) ==
    [a \in Nat |->
        IF n = 1 THEN <<>>
        ELSE IF m - a < Split(n)
             THEN PushSibling(f[Split(n)][a], RangeHash(a + Split(n), n - Split(n)), "right")
             ELSE PushSibling(f[n - Split(n)][a + Split(n)],
                              Subtree(TrailingZeros(Split(n)), a), "left")]
Paths == INSTANCE Recursion WITH Domain <- Nat \ {0}, Measure <- Itself, Def <- PathDef
Pathed(m) == CHOOSE f : f = [n \in Nat \ {0} |-> PathDef(m, 0, f, n)]

\* The path of the reference: the same, from the hashes of ranges of s.
PathOfDef(m, s, f, n) ==
    [a \in Nat |->
        IF n = 1 THEN <<>>
        ELSE IF m - a < Split(n)
             THEN PushSibling(f[Split(n)][a], Mth(s, a + Split(n), n - Split(n)), "right")
             ELSE PushSibling(f[n - Split(n)][a + Split(n)], Mth(s, a, Split(n)), "left")]
PathsOf == INSTANCE Recursion WITH Domain <- Nat \ {0}, Measure <- Itself, Def <- PathOfDef
PathOf(m, s) == CHOOSE f : f = [n \in Nat \ {0} |-> PathOfDef(m, s, f, n)]

\* PathInto has the values its definition says.
LEMMA PathedIs ==
    ASSUME NEW m
    PROVE  /\ \A lo, len : PathInto(m, lo, len) = Pathed(m)[len][lo]
           /\ \A n \in Nat \ {0}, a \in Nat : Pathed(m)[n][a] = PathDef(m, 0, Pathed(m), n)[a]
<1>1. ASSUME NEW n \in Nat \ {0}, NEW f, NEW g,
             \A y \in Nat \ {0} : y < n => f[y] = g[y]
      PROVE  PathDef(m, 0, f, n) = PathDef(m, 0, g, n)
  <2>1. CASE n = 1
    BY <2>1 DEF PathDef
  <2>2. CASE n # 1
    <3>1. f[Split(n)] = g[Split(n)] /\ f[n - Split(n)] = g[n - Split(n)]
      BY <1>1, <2>2, NotOne
    <3> QED
      BY <3>1 DEF PathDef
  <2> QED
    BY <2>1, <2>2
<1>2. Paths!Descends(m, 0)
  BY <1>1 DEF Paths!Descends, Itself
<1>3. \A n \in Nat \ {0} : Pathed(m)[n] = PathDef(m, 0, Pathed(m), n)
  BY <1>2, Paths!DefinedByEquation DEF Pathed
<1>4. \A lo, len : PathInto(m, lo, len) = Pathed(m)[len][lo]
  BY DEF PathInto, Pathed, PathDef
<1> QED
  BY <1>3, <1>4

\* So has the path of the reference.
LEMMA PathOfIs ==
    ASSUME NEW m, NEW s
    PROVE  \A n \in Nat \ {0}, a \in Nat : PathOf(m, s)[n][a] = PathOfDef(m, s, PathOf(m, s), n)[a]
<1>1. ASSUME NEW n \in Nat \ {0}, NEW f, NEW g,
             \A y \in Nat \ {0} : y < n => f[y] = g[y]
      PROVE  PathOfDef(m, s, f, n) = PathOfDef(m, s, g, n)
  <2>1. CASE n = 1
    BY <2>1 DEF PathOfDef
  <2>2. CASE n # 1
    <3>1. f[Split(n)] = g[Split(n)] /\ f[n - Split(n)] = g[n - Split(n)]
      BY <1>1, <2>2, NotOne
    <3> QED
      BY <3>1 DEF PathOfDef
  <2> QED
    BY <2>1, <2>2
<1>2. PathsOf!Descends(m, s)
  BY <1>1 DEF PathsOf!Descends, Itself
<1>3. \A n \in Nat \ {0} : PathOf(m, s)[n] = PathOfDef(m, s, PathOf(m, s), n)
  BY <1>2, PathsOf!DefinedByEquation DEF PathOf
<1> QED
  BY <1>3

\* The path that the tree serves is the reference's.
LEMMA PathIntoIs ==
    ASSUME Layout, NEW m \in Nat, NEW lo \in Nat, NEW len \in Nat \ {0},
           Aligned(lo, len), lo + len <= size
    PROVE  PathInto(m, lo, len) = PathOf(m, commitments)[len][lo]
<1> DEFINE C == commitments
           Right(n, a) == Aligned(a, n) /\ a + n <= size => Pathed(m)[n][a] = PathOf(m, C)[n][a]
           T == {x \in Nat : \A n \in 1..x, a \in Nat : Right(n, a)}
<1>0. size \in Nat /\ size = Len(C) /\ C \in Seq(Commitment)
  BY DEF Layout
<1>1. 0 \in T
  OBVIOUS
<1>2. ASSUME NEW x \in Nat, x \in T PROVE x + 1 \in T
  <2>1. ASSUME NEW n \in Nat \ {0}, n - 1 = x, NEW a \in Nat, Aligned(a, n), a + n <= size
        PROVE  Pathed(m)[n][a] = PathOf(m, C)[n][a]
    <3> DEFINE k == Split(n)
    <3>1. \A z \in 1..(n - 1), b \in Nat : Right(z, b)
      BY <1>2, <2>1
    <3>2. CASE n = 1
      BY <3>2, PathedIs, PathOfIs DEF PathDef, PathOfDef
    <3>3. CASE n # 1
      <4>1. /\ n >= 2 /\ k \in Nat \ {0} /\ n - k \in Nat \ {0}
            /\ k \in 1..(n - 1) /\ n - k \in 1..(n - 1)
        BY <3>3, NotOne
      <4>2. PICK y \in Nat : /\ k = Pow2[y] /\ a % Pow2[y] = 0
                             /\ Aligned(a, k) /\ Aligned(a + k, n - k)
        BY <2>1, <4>1, AlignedSplit
      <4>3. a + k \in Nat /\ a + k <= size /\ (a + k) + (n - k) <= size
        BY <1>0, <2>1, <4>1
      <4>4. Pathed(m)[k][a] = PathOf(m, C)[k][a]
        BY <3>1, <4>1, <4>2, <4>3
      <4>5. Pathed(m)[n - k][a + k] = PathOf(m, C)[n - k][a + k]
        BY <3>1, <4>1, <4>2, <4>3
      <4>6. RangeHash(a + k, n - k) = Mth(C, a + k, n - k)
        <5> DEFINE b == a + k
                   r == n - k
        <5>1. b \in Nat /\ r \in Nat \ {0} /\ Aligned(b, r) /\ b + r <= size
          BY <4>1, <4>2, <4>3
        <5> HIDE DEF b, r
        <5>2. RangeHash(b, r) = Mth(C, b, r)
          BY <5>1, RangeHashIs
        <5> QED
          BY <5>2 DEF b, r
      <4>7. Subtree(TrailingZeros(k), a) = Mth(C, a, k)
        BY <4>2, <4>3, SubtreeIs, TrailingZerosOfPow
      <4>8. Pathed(m)[n][a] = PathDef(m, 0, Pathed(m), n)[a]
        BY PathedIs
      <4>9. PathOf(m, C)[n][a] = PathOfDef(m, C, PathOf(m, C), n)[a]
        BY PathOfIs
      <4> HIDE DEF C
      <4>10. PathDef(m, 0, Pathed(m), n)[a] = PathOfDef(m, C, PathOf(m, C), n)[a]
        BY <3>3, <4>4, <4>5, <4>6, <4>7 DEF PathDef, PathOfDef
      <4> QED
        BY <4>8, <4>9, <4>10
    <3> QED
      BY <3>2, <3>3
  <2>2. ASSUME NEW n \in 1..(x + 1), NEW a \in Nat PROVE Right(n, a)
    <3>1. CASE n \in 1..x
      BY <1>2, <3>1
    <3>2. CASE n = x + 1
      <4>1. n \in Nat \ {0} /\ n - 1 = x
        BY <3>2
      <4> QED
        BY <2>1, <4>1
    <3> QED
      BY <3>1, <3>2
  <2> HIDE DEF Right
  <2> QED
    BY <2>2
<1> HIDE DEF T
<1>3. Nat \subseteq T
  BY <1>1, <1>2, Pow!NatInd
<1>4. len \in T /\ len \in 1..len
  BY <1>3
<1>5. Pathed(m)[len][lo] = PathOf(m, C)[len][lo]
  BY <1>4 DEF T
<1> QED
  BY <1>5, PathedIs

\* The equation that defines RootFromPath.
FromDef(c, path, f, i) ==
    IF i = 0 THEN Leaf(c)
    ELSE IF path[i].side = "right" THEN Node(f[i - 1], path[i].sibling)
    ELSE Node(path[i].sibling, f[i - 1])
Froms == INSTANCE Recursion WITH Domain <- Nat, Measure <- Itself, Def <- FromDef
From(c, path) == CHOOSE f : f = [i \in Nat |-> FromDef(c, path, f, i)]

\* RootFromPath has the values its definition says.
LEMMA FromIs ==
    ASSUME NEW c, NEW path
    PROVE  /\ RootFromPath(c, path) = From(c, path)[Len(path)]
           /\ From(c, path)[0] = Leaf(c)
           /\ \A i \in Nat : From(c, path)[i + 1] =
                 IF path[i + 1].side = "right"
                 THEN Node(From(c, path)[i], path[i + 1].sibling)
                 ELSE Node(path[i + 1].sibling, From(c, path)[i])
<1>1. Froms!Descends(c, path)
  BY DEF Froms!Descends, FromDef, Itself
<1>2. \A i \in Nat : From(c, path)[i] = FromDef(c, path, From(c, path), i)
  BY <1>1, Froms!DefinedByEquation DEF From
<1>3. RootFromPath(c, path) = From(c, path)[Len(path)]
  BY DEF RootFromPath, From, FromDef
<1>4. From(c, path)[0] = Leaf(c)
  BY <1>2 DEF FromDef
<1>5. ASSUME NEW i \in Nat
      PROVE  From(c, path)[i + 1] =
                 IF path[i + 1].side = "right"
                 THEN Node(From(c, path)[i], path[i + 1].sibling)
                 ELSE Node(path[i + 1].sibling, From(c, path)[i])
  <2>1. i + 1 \in Nat /\ i + 1 # 0 /\ (i + 1) - 1 = i
    OBVIOUS
  <2>2. From(c, path)[i + 1] = FromDef(c, path, From(c, path), i + 1)
    BY <1>2, <2>1
  <2> QED
    BY <2>1, <2>2 DEF FromDef
<1> QED
  BY <1>3, <1>4, <1>5

\* The path of a lone leaf leads to its hash.
LEMMA FromNothing == \A c : RootFromPath(c, <<>>) = Leaf(c)
<1> TAKE c
<1> DEFINE p == <<>>
<1>1. Len(p) = 0
  OBVIOUS
<1> HIDE DEF p
<1>2. RootFromPath(c, p) = From(c, p)[Len(p)] /\ From(c, p)[0] = Leaf(c)
  BY FromIs
<1> QED
  BY <1>1, <1>2 DEF p

\* A path with one more sibling leads to a node over the root of the rest.
LEMMA FromAppend ==
    ASSUME NEW c, NEW S, NEW path \in Seq(S), NEW e \in S
    PROVE  RootFromPath(c, Append(path, e)) =
              IF e.side = "right" THEN Node(RootFromPath(c, path), e.sibling)
              ELSE Node(e.sibling, RootFromPath(c, path))
<1> DEFINE n == Len(path)
           p == Append(path, e)
           T == {i \in Nat : i <= n => From(c, p)[i] = From(c, path)[i]}
<1>1. n \in Nat /\ Len(p) = n + 1 /\ p[n + 1] = e /\ \A i \in 1..n : p[i] = path[i]
  OBVIOUS
<1> HIDE DEF p, n
<1>2. 0 \in T
  BY FromIs
<1>3. ASSUME NEW i \in Nat, i \in T PROVE i + 1 \in T
  <2> SUFFICES ASSUME i + 1 <= n PROVE From(c, p)[i + 1] = From(c, path)[i + 1]
    OBVIOUS
  <2>1. i + 1 \in 1..n /\ From(c, p)[i] = From(c, path)[i]
    BY <1>1, <1>3
  <2>2. p[i + 1] = path[i + 1]
    BY <1>1, <2>1
  <2>3. From(c, p)[i + 1] = IF p[i + 1].side = "right"
                            THEN Node(From(c, p)[i], p[i + 1].sibling)
                            ELSE Node(p[i + 1].sibling, From(c, p)[i])
    BY FromIs
  <2>4. From(c, path)[i + 1] = IF path[i + 1].side = "right"
                               THEN Node(From(c, path)[i], path[i + 1].sibling)
                               ELSE Node(path[i + 1].sibling, From(c, path)[i])
    BY FromIs
  <2> QED
    BY <2>1, <2>2, <2>3, <2>4
<1> HIDE DEF T
<1>4. Nat \subseteq T
  BY <1>2, <1>3, Pow!NatInd
<1>5. From(c, p)[n] = From(c, path)[n]
  BY <1>1, <1>4 DEF T
<1>6. From(c, p)[n + 1] = IF p[n + 1].side = "right"
                          THEN Node(From(c, p)[n], p[n + 1].sibling)
                          ELSE Node(p[n + 1].sibling, From(c, p)[n])
  BY <1>1, FromIs
<1>7. RootFromPath(c, p) = From(c, p)[n + 1] /\ RootFromPath(c, path) = From(c, path)[n]
  BY <1>1, FromIs DEF n
<1> QED
  BY <1>1, <1>5, <1>6, <1>7 DEF p

\* What the paths of the reference are made of.
Siblings(s) == {[sibling |-> Mth(s, a, n), side |-> d] : a \in Nat, n \in Nat, d \in {"left", "right"}}

\* The path of a leaf in a range leads to the hash of the range.
LEMMA PathLeads ==
    ASSUME NEW s \in Seq(Commitment), NEW m \in Nat, NEW lo \in Nat, NEW len \in Nat \ {0},
           lo <= m, m < lo + len, lo + len <= Len(s)
    PROVE  RootFromPath(s[m + 1], PathOf(m, s)[len][lo]) = Mth(s, lo, len)
<1> DEFINE p(n, a) == PathOf(m, s)[n][a]
           Leads(n, a) == a <= m /\ m < a + n /\ a + n <= Len(s)
                            => /\ p(n, a) \in Seq(Siblings(s))
                               /\ RootFromPath(s[m + 1], p(n, a)) = Mth(s, a, n)
           T == {x \in Nat : \A n \in 1..x, a \in Nat : Leads(n, a)}
<1>1. 0 \in T
  OBVIOUS
<1>2. ASSUME NEW x \in Nat, x \in T PROVE x + 1 \in T
  <2>1. ASSUME NEW n \in Nat \ {0}, n - 1 = x, NEW a \in Nat,
               a <= m, m < a + n, a + n <= Len(s)
        PROVE  /\ p(n, a) \in Seq(Siblings(s))
               /\ RootFromPath(s[m + 1], p(n, a)) = Mth(s, a, n)
    <3> DEFINE k == Split(n)
    <3>1. \A z \in 1..(n - 1), b \in Nat : Leads(z, b)
      BY <1>2, <2>1
    <3>2. p(n, a) = PathOfDef(m, s, PathOf(m, s), n)[a]
      BY PathOfIs
    <3>3. CASE n = 1
      <4>1. p(n, a) = <<>> /\ m = a /\ a < Len(s)
        BY <2>1, <3>2, <3>3 DEF PathOfDef
      <4>2. Mth(s, a, 1) = Leaf(s[a + 1])
        BY <4>1, MthSmall
      <4>3. RootFromPath(s[m + 1], <<>>) = Leaf(s[m + 1])
        BY FromNothing
      <4> QED
        BY <3>3, <4>1, <4>2, <4>3
    <3>4. CASE n # 1
      <4>1. /\ n \in Nat /\ n >= 2 /\ k \in Nat /\ n - k \in Nat
            /\ k \in 1..(n - 1) /\ n - k \in 1..(n - 1)
        BY <3>4, NotOne
      <4>2. Mth(s, a, n) = Node(Mth(s, a, k), Mth(s, a + k, n - k))
        BY <2>1, <4>1, MthSplit
      <4>3. CASE m - a < k
        <5> DEFINE e == [sibling |-> Mth(s, a + k, n - k), side |-> "right"]
        <5>1. p(n, a) = Append(p(k, a), e)
          <6>1. n # 1 /\ m - a < Split(n) /\ a \in Nat
            BY <3>4, <4>3
          <6>2. p(n, a) = PushSibling(PathOf(m, s)[Split(n)][a],
                                      Mth(s, a + Split(n), n - Split(n)), "right")
            BY ONLY <3>2, <6>1, Zenon DEF PathOfDef
          <6> QED
            BY ONLY <6>2 DEF PushSibling
        <5>2. a <= m /\ m < a + k /\ a + k <= Len(s)
          BY <2>1, <4>1, <4>3
        <5>3. p(k, a) \in Seq(Siblings(s)) /\ RootFromPath(s[m + 1], p(k, a)) = Mth(s, a, k)
          BY <3>1, <4>1, <5>2
        <5>4. e \in Siblings(s) /\ e.side = "right" /\ e.sibling = Mth(s, a + k, n - k)
          BY <4>1 DEF Siblings
        <5> HIDE DEF e, p
        <5>5. p(n, a) \in Seq(Siblings(s))
          BY <5>1, <5>3, <5>4
        <5>6. RootFromPath(s[m + 1], p(n, a)) = Node(Mth(s, a, k), Mth(s, a + k, n - k))
          BY <5>1, <5>3, <5>4, FromAppend
        <5> QED
          BY <4>2, <5>5, <5>6
      <4>4. CASE ~(m - a < k)
        <5> DEFINE e == [sibling |-> Mth(s, a, k), side |-> "left"]
        <5>1. p(n, a) = Append(p(n - k, a + k), e)
          <6>1. n # 1 /\ ~(m - a < Split(n)) /\ a \in Nat
            BY <3>4, <4>4
          <6>2. p(n, a) = PushSibling(PathOf(m, s)[n - Split(n)][a + Split(n)],
                                      Mth(s, a, Split(n)), "left")
            BY ONLY <3>2, <6>1, Zenon DEF PathOfDef
          <6> QED
            BY ONLY <6>2 DEF PushSibling
        <5>2. /\ a + k \in Nat /\ a + k <= m /\ m < (a + k) + (n - k)
              /\ (a + k) + (n - k) <= Len(s)
          BY <2>1, <4>1, <4>4
        <5>3. /\ p(n - k, a + k) \in Seq(Siblings(s))
              /\ RootFromPath(s[m + 1], p(n - k, a + k)) = Mth(s, a + k, n - k)
          BY <3>1, <4>1, <5>2
        <5>4. e \in Siblings(s) /\ e.side # "right" /\ e.sibling = Mth(s, a, k)
          BY <4>1 DEF Siblings
        <5> HIDE DEF e, p
        <5>5. p(n, a) \in Seq(Siblings(s))
          BY <5>1, <5>3, <5>4
        <5>6. RootFromPath(s[m + 1], p(n, a)) = Node(Mth(s, a, k), Mth(s, a + k, n - k))
          BY <5>1, <5>3, <5>4, FromAppend
        <5> QED
          BY <4>2, <5>5, <5>6
      <4> QED
        BY <4>3, <4>4
    <3> QED
      BY <3>3, <3>4
  <2>2. ASSUME NEW n \in 1..(x + 1), NEW a \in Nat PROVE Leads(n, a)
    <3>1. CASE n \in 1..x
      BY <1>2, <3>1
    <3>2. CASE n = x + 1
      <4>1. n \in Nat \ {0} /\ n - 1 = x
        BY <3>2
      <4> HIDE DEF p
      <4> QED
        BY <2>1, <4>1
    <3> QED
      BY <3>1, <3>2
  <2> HIDE DEF Leads
  <2> QED
    BY <2>2
<1> HIDE DEF T
<1>3. Nat \subseteq T
  BY <1>1, <1>2, Pow!NatInd
<1>4. len \in T /\ len \in 1..len
  BY <1>3
<1> QED
  BY <1>4 DEF T

\* An append changes no path of the reference against a prefix before it.
LEMMA PathKept ==
    ASSUME NEW s \in Seq(Commitment), NEW c \in Commitment, NEW m \in Nat,
           NEW lo \in Nat, NEW len \in Nat \ {0}, lo + len <= Len(s)
    PROVE  PathOf(m, Append(s, c))[len][lo] = PathOf(m, s)[len][lo]
<1> DEFINE t == Append(s, c)
           Kept(n, a) == a + n <= Len(s) => PathOf(m, t)[n][a] = PathOf(m, s)[n][a]
           T == {x \in Nat : \A n \in 1..x, a \in Nat : Kept(n, a)}
<1> HIDE DEF t
<1>1. 0 \in T
  OBVIOUS
<1>2. ASSUME NEW x \in Nat, x \in T PROVE x + 1 \in T
  <2>1. ASSUME NEW n \in Nat \ {0}, n - 1 = x, NEW a \in Nat, a + n <= Len(s)
        PROVE  PathOf(m, t)[n][a] = PathOf(m, s)[n][a]
    <3> DEFINE k == Split(n)
    <3>1. \A z \in 1..(n - 1), b \in Nat : Kept(z, b)
      BY <1>2, <2>1
    <3>2. CASE n = 1
      BY <3>2, PathOfIs DEF PathOfDef
    <3>3. CASE n # 1
      <4>1. /\ n \in Nat /\ k \in Nat /\ n - k \in Nat
            /\ k \in 1..(n - 1) /\ n - k \in 1..(n - 1)
        BY <3>3, NotOne
      <4>2. /\ a + k \in Nat /\ a + k <= Len(s) /\ (a + k) + (n - k) <= Len(s)
        BY <2>1, <4>1
      <4>3. /\ PathOf(m, t)[k][a] = PathOf(m, s)[k][a]
            /\ PathOf(m, t)[n - k][a + k] = PathOf(m, s)[n - k][a + k]
        BY <3>1, <4>1, <4>2
      <4>4. Mth(t, a, k) = Mth(s, a, k) /\ Mth(t, a + k, n - k) = Mth(s, a + k, n - k)
        BY <4>1, <4>2, MthKept DEF t
      <4> QED
        BY <3>3, <4>3, <4>4, PathOfIs DEF PathOfDef
    <3> QED
      BY <3>2, <3>3
  <2>2. ASSUME NEW n \in 1..(x + 1), NEW a \in Nat PROVE Kept(n, a)
    <3>1. CASE n \in 1..x
      BY <1>2, <3>1
    <3>2. CASE n = x + 1
      <4>1. n \in Nat \ {0} /\ n - 1 = x
        BY <3>2
      <4> QED
        BY <2>1, <4>1
    <3> QED
      BY <3>1, <3>2
  <2> HIDE DEF Kept
  <2> QED
    BY <2>2
<1> HIDE DEF T
<1>3. Nat \subseteq T
  BY <1>1, <1>2, Pow!NatInd
<1>4. len \in T /\ len \in 1..len
  BY <1>3
<1> QED
  BY <1>4 DEF T, t

\* Every receipt verifies: in a log of any size, the path of any leaf against
\* any historical prefix leads from the entry to the root of that prefix, the
\* one its head was signed over (tree.rs inclusion_path and root_at_size).
THEOREM ReceiptsVerify == Spec => []EveryReceiptVerifies
<1>1. Layout => EveryReceiptVerifies
  <2> SUFFICES ASSUME Layout, NEW s \in 1..size, NEW m \in 0..(s - 1)
               PROVE  RootFromPath(commitments[m + 1], PathInto(m, 0, s)) = RootAtSize(s)
    BY DEF EveryReceiptVerifies, VerifyInclusion, InclusionPath
  <2>1. /\ commitments \in Seq(Commitment) /\ size = Len(commitments) /\ size \in Nat
        /\ s \in Nat \ {0} /\ s \in 0..size /\ m \in Nat /\ 0 \in Nat
        /\ 0 <= m /\ m < 0 + s /\ 0 + s <= size
    BY DEF Layout
  <2>2. PathInto(m, 0, s) = PathOf(m, commitments)[s][0]
    BY <2>1, PathIntoIs, AlignedPrefix
  <2>3. RootFromPath(commitments[m + 1], PathOf(m, commitments)[s][0]) = Mth(commitments, 0, s)
    BY <2>1, PathLeads
  <2> QED
    BY <2>1, <2>2, <2>3, RootIsHash
<1> QED
  BY <1>1, LayoutAlways, PTL

\* The paths served are those of the reference.
ServedPaths ==
    \A s \in 1..size : \A m \in 0..(s - 1) : PathInto(m, 0, s) = PathOf(m, commitments)[s][0]

\* They always are.
LEMMA ServedAlways == Spec => []ServedPaths
<1>1. Layout => ServedPaths
  <2> SUFFICES ASSUME Layout, NEW s \in 1..size, NEW m \in 0..(s - 1)
               PROVE  PathInto(m, 0, s) = PathOf(m, commitments)[s][0]
    BY DEF ServedPaths
  <2>1. size \in Nat /\ s \in Nat \ {0} /\ m \in Nat /\ 0 \in Nat /\ 0 + s <= size
    BY DEF Layout
  <2> QED
    BY <2>1, PathIntoIs, AlignedPrefix
<1> QED
  BY <1>1, LayoutAlways, PTL

\* Receipts never change: in a log of any size, no append changes the path of a
\* leaf against a prefix that already existed (GET /receipt/{seq} after appends).
THEOREM ReceiptsStay == Spec => ReceiptsNeverChange
<1> DEFINE Stays == size' > size =>
               \A s \in 1..size : \A m \in 0..(s - 1) : InclusionPath(m, s)' = InclusionPath(m, s)
<1>1. ASSUME Layout, ServedPaths, ServedPaths', [Next]_vars PROVE Stays
  <2> SUFFICES ASSUME size' > size, NEW s \in 1..size, NEW m \in 0..(s - 1)
               PROVE  InclusionPath(m, s)' = InclusionPath(m, s)
    OBVIOUS
  <2>1. size \in Nat /\ commitments \in Seq(Commitment) /\ size = Len(commitments)
    BY <1>1 DEF Layout
  <2>2. PICK c \in Commitment : size' = size + 1 /\ commitments' = Append(commitments, c)
    <3>1. ~Restart
      BY <2>1 DEF Restart
    <3>2. ~UNCHANGED vars
      BY <2>1 DEF vars
    <3> QED
      BY <1>1, <3>1, <3>2 DEF Next, AppendLeaf
  <2>3. PathInto(m, 0, s) = PathOf(m, commitments)[s][0]
    BY <1>1 DEF ServedPaths
  <2>4. s \in 1..size'
    BY <2>1, <2>2
  <2>5. PathInto(m, 0, s)' = PathOf(m, commitments')[s][0]
    BY <1>1, <2>4 DEF ServedPaths
  <2>6. PathOf(m, Append(commitments, c))[s][0] = PathOf(m, commitments)[s][0]
    <3>1. m \in Nat /\ s \in Nat \ {0} /\ 0 \in Nat /\ 0 + s <= Len(commitments)
      BY <2>1
    <3> QED
      BY <2>1, <3>1, PathKept
  <2> QED
    BY <2>2, <2>3, <2>5, <2>6 DEF InclusionPath
<1>2. Layout /\ ServedPaths /\ ServedPaths' /\ [Next]_vars => [Stays]_vars
  BY <1>1
<1> QED
  BY <1>2, LayoutAlways, ServedAlways, PTL DEF Spec, ReceiptsNeverChange

------------------------------------------------------------------------------
(* Consistency paths.                                                        *)

\* The equation that defines SubProof.
ProofDef(p, q, f, n) ==
    [b \in BOOLEAN |-> [a \in Nat |-> [x \in 1..n |->
        IF x = n THEN Deepest(RangeHash(a, n), b)
        ELSE IF x <= Split(n)
             THEN Append(f[Split(n)][b][a][x], RangeHash(a + Split(n), n - Split(n)))
             ELSE Append(f[n - Split(n)][FALSE][a + Split(n)][x - Split(n)],
                         RangeHash(a, Split(n)))]]]
Proofs == INSTANCE Recursion WITH Domain <- Nat \ {0}, Measure <- Itself, Def <- ProofDef
Proved == CHOOSE f : f = [n \in Nat \ {0} |-> ProofDef(0, 0, f, n)]

\* SubProof has the values its definition says.
LEMMA ProvedIs ==
    /\ \A m, lo, len, b : SubProof(m, lo, len, b) = Proved[len][b][lo][m]
    /\ \A n \in Nat \ {0}, b \in BOOLEAN, a \in Nat :
          /\ Proved[n][b][a][n] = Deepest(RangeHash(a, n), b)
          /\ \A x \in 1..n :
                /\ x # n /\ x <= Split(n) => Proved[n][b][a][x] =
                      Append(Proved[Split(n)][b][a][x], RangeHash(a + Split(n), n - Split(n)))
                /\ x # n /\ ~(x <= Split(n)) => Proved[n][b][a][x] =
                      Append(Proved[n - Split(n)][FALSE][a + Split(n)][x - Split(n)],
                             RangeHash(a, Split(n)))
<1>1. ASSUME NEW n \in Nat \ {0}, NEW f, NEW g,
             \A y \in Nat \ {0} : y < n => f[y] = g[y]
      PROVE  ProofDef(0, 0, f, n) = ProofDef(0, 0, g, n)
  <2>1. CASE n = 1
    <3>1. \A x \in 1..n : x = n
      BY <2>1
    <3> QED
      BY <3>1 DEF ProofDef
  <2>2. CASE n # 1
    <3>1. f[Split(n)] = g[Split(n)] /\ f[n - Split(n)] = g[n - Split(n)]
      BY <1>1, <2>2, NotOne
    <3> QED
      BY <3>1 DEF ProofDef
  <2> QED
    BY <2>1, <2>2
<1>2. Proofs!Descends(0, 0)
  BY <1>1 DEF Proofs!Descends, Itself
<1>3. \A n \in Nat \ {0} : Proved[n] = ProofDef(0, 0, Proved, n)
  BY <1>2, Proofs!DefinedByEquation DEF Proved
<1>4. \A m, lo, len, b : SubProof(m, lo, len, b) = Proved[len][b][lo][m]
  BY DEF SubProof, Proved, ProofDef
<1>5. ASSUME NEW n \in Nat \ {0}, NEW b \in BOOLEAN, NEW a \in Nat, NEW x \in 1..n
      PROVE  Proved[n][b][a][x] =
                IF x = n THEN Deepest(RangeHash(a, n), b)
                ELSE IF x <= Split(n)
                     THEN Append(Proved[Split(n)][b][a][x], RangeHash(a + Split(n), n - Split(n)))
                     ELSE Append(Proved[n - Split(n)][FALSE][a + Split(n)][x - Split(n)],
                                 RangeHash(a, Split(n)))
  <2>1. Proved[n][b][a][x] = ProofDef(0, 0, Proved, n)[b][a][x]
    BY <1>3
  <2> QED
    BY <2>1 DEF ProofDef
<1>6. ASSUME NEW n \in Nat \ {0}, NEW b \in BOOLEAN, NEW a \in Nat
      PROVE  Proved[n][b][a][n] = Deepest(RangeHash(a, n), b)
  <2>1. n \in 1..n
    OBVIOUS
  <2> QED
    BY <1>5, <2>1
<1>7. ASSUME NEW n \in Nat \ {0}, NEW b \in BOOLEAN, NEW a \in Nat, NEW x \in 1..n, x # n
      PROVE  /\ x <= Split(n) => Proved[n][b][a][x] =
                    Append(Proved[Split(n)][b][a][x], RangeHash(a + Split(n), n - Split(n)))
             /\ ~(x <= Split(n)) => Proved[n][b][a][x] =
                    Append(Proved[n - Split(n)][FALSE][a + Split(n)][x - Split(n)],
                           RangeHash(a, Split(n)))
  <2>1. x <= Split(n) \/ ~(x <= Split(n))
    OBVIOUS
  <2> QED
    BY ONLY <1>5, <1>7, <2>1, Zenon
<1>8. ASSUME NEW n \in Nat \ {0}, NEW b \in BOOLEAN, NEW a \in Nat
      PROVE  /\ Proved[n][b][a][n] = Deepest(RangeHash(a, n), b)
             /\ \A x \in 1..n :
                   /\ x # n /\ x <= Split(n) => Proved[n][b][a][x] =
                         Append(Proved[Split(n)][b][a][x], RangeHash(a + Split(n), n - Split(n)))
                   /\ x # n /\ ~(x <= Split(n)) => Proved[n][b][a][x] =
                         Append(Proved[n - Split(n)][FALSE][a + Split(n)][x - Split(n)],
                                RangeHash(a, Split(n)))
  BY ONLY <1>6, <1>7, <1>8, Zenon
<1> QED
  BY ONLY <1>4, <1>8, Zenon

\* The last node of the proof of x entries of a longer range, by the side they end on.
LEMMA ProvedOnLeft ==
    ASSUME NEW n \in Nat \ {0}, NEW b \in BOOLEAN, NEW a \in Nat, NEW x \in 1..n,
           x # n, x <= Split(n)
    PROVE  Proved[n][b][a][x] =
              Append(Proved[Split(n)][b][a][x], RangeHash(a + Split(n), n - Split(n)))
BY ProvedIs, Zenon
LEMMA ProvedOnRight ==
    ASSUME NEW n \in Nat \ {0}, NEW b \in BOOLEAN, NEW a \in Nat, NEW x \in 1..n,
           x # n, ~(x <= Split(n))
    PROVE  Proved[n][b][a][x] =
              Append(Proved[n - Split(n)][FALSE][a + Split(n)][x - Split(n)],
                     RangeHash(a, Split(n)))
BY ProvedIs, Zenon

\* The equation that defines RootsFromPath.
RootedAt(pinned, path, f, i, b, x, y) ==
    IF x = y /\ b /\ i = 0 THEN <<pinned, pinned>>
    ELSE IF x = y /\ ~b /\ i = 1 THEN <<path[1], path[1]>>
    ELSE IF x >= y \/ i = 0 THEN <<NoHash, NoHash>>
    ELSE IF x <= Split(y)
         THEN <<f[i - 1][b][x][Split(y)][1], Node(f[i - 1][b][x][Split(y)][2], path[i])>>
         ELSE <<Node(path[i], f[i - 1][FALSE][x - Split(y)][y - Split(y)][1]),
                Node(path[i], f[i - 1][FALSE][x - Split(y)][y - Split(y)][2])>>
RootedDef(pinned, path, f, i) ==
    [b \in BOOLEAN |-> [x \in Nat |-> [y \in Nat |-> RootedAt(pinned, path, f, i, b, x, y)]]]
Roots == INSTANCE Recursion WITH Domain <- Nat, Measure <- Itself, Def <- RootedDef
Rooted(pinned, path) == CHOOSE f : f = [i \in Nat |-> RootedDef(pinned, path, f, i)]

\* RootsFromPath reads that function.
LEMMA RootsAre ==
    \A m, n, pinned, path :
        RootsFromPath(m, n, pinned, path) = Rooted(pinned, path)[Len(path)][TRUE][m][n]
BY DEF RootsFromPath, Rooted, RootedDef, RootedAt

\* It has the values its definition says.
LEMMA RootedIs ==
    ASSUME NEW pinned, NEW path
    PROVE  \A i \in Nat : Rooted(pinned, path)[i]
                              = RootedDef(pinned, path, Rooted(pinned, path), i)
<1>1. ASSUME NEW i \in Nat, NEW f, NEW g, \A y \in Nat : y < i => f[y] = g[y]
      PROVE  RootedDef(pinned, path, f, i) = RootedDef(pinned, path, g, i)
  <2>1. CASE i = 0
    BY <2>1 DEF RootedDef, RootedAt
  <2>2. CASE i # 0
    <3>1. i - 1 \in Nat /\ i - 1 < i
      BY <2>2
    <3>2. f[i - 1] = g[i - 1]
      BY <1>1, <3>1
    <3> QED
      BY <3>2 DEF RootedDef, RootedAt
  <2> QED
    BY <2>1, <2>2
<1>2. Roots!Descends(pinned, path)
  BY <1>1 DEF Roots!Descends, Itself
<1>3. \A i \in Nat : Rooted(pinned, path)[i] = RootedDef(pinned, path, Rooted(pinned, path), i)
  BY <1>2, Roots!DefinedByEquation DEF Rooted
<1> QED
  BY <1>3

\* A node more on a path changes nothing of what is computed before it.
LEMMA RootedKept ==
    ASSUME NEW pinned, NEW S, NEW path \in Seq(S), NEW e \in S
    PROVE  Rooted(pinned, Append(path, e))[Len(path)] = Rooted(pinned, path)[Len(path)]
<1> DEFINE n == Len(path)
           p == Append(path, e)
<1>1. n \in Nat /\ \A i \in 1..n : p[i] = path[i]
  OBVIOUS
<1> HIDE DEF p, n
<1> DEFINE F == Rooted(pinned, p)
           G == Rooted(pinned, path)
           T == {i \in Nat : i <= n => F[i] = G[i]}
<1>0. \A i \in Nat : /\ F[i] = RootedDef(pinned, p, F, i)
                    /\ G[i] = RootedDef(pinned, path, G, i)
  BY RootedIs
<1> HIDE DEF F, G
<1>2. 0 \in T
  <2>1. RootedDef(pinned, p, F, 0) = RootedDef(pinned, path, G, 0)
    BY DEF RootedDef, RootedAt
  <2>2. F[0] = G[0]
    BY <1>0, <2>1
  <2> QED
    BY <2>2
<1>3. ASSUME NEW i \in Nat, i \in T PROVE i + 1 \in T
  <2> SUFFICES ASSUME i + 1 <= n PROVE F[i + 1] = G[i + 1]
    OBVIOUS
  <2> DEFINE j == i + 1
  <2>1. j \in 1..n /\ 1 \in 1..n /\ j \in Nat /\ j # 0 /\ j - 1 = i /\ i <= n
    BY <1>1
  <2>2. p[j] = path[j] /\ p[1] = path[1]
    BY <1>1, <2>1
  <2>3. F[j - 1] = G[j - 1]
    BY <1>3, <2>1
  <2> HIDE DEF j
  <2>4. \A b \in BOOLEAN, x \in Nat, y \in Nat :
           RootedAt(pinned, p, F, j, b, x, y) = RootedAt(pinned, path, G, j, b, x, y)
    BY <2>2, <2>3 DEF RootedAt
  <2>5. RootedDef(pinned, p, F, j) = RootedDef(pinned, path, G, j)
    BY <2>4 DEF RootedDef
  <2>6. F[j] = G[j]
    BY <1>0, <2>1, <2>5
  <2> QED
    BY <2>6 DEF j
<1> HIDE DEF T
<1>4. Nat \subseteq T
  BY <1>2, <1>3, Pow!NatInd
<1> QED
  BY <1>1, <1>4 DEF T, p, n, F, G

\* What the last node of a path adds.
LEMMA RootedAtEnd ==
    ASSUME NEW pinned, NEW t, NEW i \in Nat
    PROVE  \A b \in BOOLEAN, x \in Nat, y \in Nat :
              Rooted(pinned, t)[i][b][x][y] = RootedAt(pinned, t, Rooted(pinned, t), i, b, x, y)
<1> DEFINE F == Rooted(pinned, t)
<1>1. F[i] = RootedDef(pinned, t, F, i)
  BY RootedIs
<1> HIDE DEF F
<1>2. \A b \in BOOLEAN, x \in Nat, y \in Nat : F[i][b][x][y] = RootedAt(pinned, t, F, i, b, x, y)
  BY <1>1 DEF RootedDef
<1> QED
  BY <1>2 DEF F

\* Nodes are equal only when both sides are.
LEMMA NodeInjective == \A l, r, x, y : Node(l, r) = Node(x, y) => l = x /\ r = y
BY DEF Node

\* The hashes of ranges.
Hashes(s) == {Mth(s, a, n) : a \in Nat, n \in Nat}

\* What a consistency path shows for the first x of the n entries from a: their
\* hash and that of the whole range or, when the pinned root stands for the old
\* entries, the pinned root, with the hash of the range only if it is theirs.
Shows(pinned, b, a, n, x, roots) ==
    \/ roots = <<Mth(commitments, a, x), Mth(commitments, a, n)>>
    \/ /\ b
       /\ \E r : /\ roots = <<pinned, r>>
                 /\ r = Mth(commitments, a, n) <=> pinned = Mth(commitments, a, x)

\* The paths of the tree show just that.
LEMMA ProofLeads ==
    ASSUME Layout, NEW pinned, NEW lo \in Nat, NEW len \in Nat \ {0}, Aligned(lo, len),
           lo + len <= size, NEW m \in 1..len, NEW anchored \in BOOLEAN
    PROVE  LET path == Proved[len][anchored][lo][m]
           IN  Shows(pinned, anchored, lo, len, m, Rooted(pinned, path)[Len(path)][anchored][m][len])
<1> DEFINE C == commitments
           p(n, b, a, x) == Proved[n][b][a][x]
           R(n, b, a, x) == Rooted(pinned, p(n, b, a, x))[Len(p(n, b, a, x))][b][x][n]
           Leads(n, b, a, x) == Aligned(a, n) /\ a + n <= size
                                  => /\ p(n, b, a, x) \in Seq(Hashes(C))
                                     /\ Shows(pinned, b, a, n, x, R(n, b, a, x))
           T == {z \in Nat : \A n \in 1..z, b \in BOOLEAN, a \in Nat :
                                \A x \in 1..n : Leads(n, b, a, x)}
<1>0. size \in Nat /\ size = Len(C) /\ C \in Seq(Commitment)
  BY DEF Layout
<1>1. 0 \in T
  <2> HIDE DEF Leads
  <2>1. \A n : n \notin 1..0
    OBVIOUS
  <2> QED
    BY <2>1
<1>2. ASSUME NEW z \in Nat, z \in T PROVE z + 1 \in T
  <2>1. ASSUME NEW n \in Nat \ {0}, n - 1 = z, NEW b \in BOOLEAN, NEW a \in Nat,
               NEW x \in 1..n, Aligned(a, n), a + n <= size
        PROVE  p(n, b, a, x) \in Seq(Hashes(C)) /\ Shows(pinned, b, a, n, x, R(n, b, a, x))
    <3> DEFINE k == Split(n)
    <3>1. \A y \in 1..(n - 1), d \in BOOLEAN, e \in Nat : \A w \in 1..y : Leads(y, d, e, w)
      BY <1>2, <2>1
    <3>2. CASE x = n
      <4>1. p(n, b, a, x) = Deepest(RangeHash(a, n), b)
        BY <3>2, ProvedIs
      <4>2. RangeHash(a, n) = Mth(C, a, n)
        BY <2>1, RangeHashIs
      <4>3. CASE b
        <5>1. p(n, b, a, x) = <<>>
          BY <4>1, <4>3 DEF Deepest
        <5> DEFINE q == <<>>
        <5>2. Len(q) = 0 /\ q \in Seq(Hashes(C))
          OBVIOUS
        <5> HIDE DEF q
        <5>3. RootedDef(pinned, q, Rooted(pinned, q), 0)[b][x][n] = <<pinned, pinned>>
          BY <3>2, <4>3 DEF RootedDef, RootedAt
        <5>4. Rooted(pinned, q)[Len(q)][b][x][n] = <<pinned, pinned>>
          <6> DEFINE F == Rooted(pinned, q)
          <6>0. \A i \in Nat : F[i] = RootedDef(pinned, q, F, i)
            BY RootedIs
          <6> HIDE DEF F
          <6>1. F[0] = RootedDef(pinned, q, F, 0)
            BY <6>0
          <6> QED
            BY <5>2, <5>3, <6>1 DEF F
        <5>5. p(n, b, a, x) = q
          BY <5>1 DEF q
        <5> HIDE DEF p
        <5>6. R(n, b, a, x) = <<pinned, pinned>>
          BY <5>4, <5>5
        <5> QED
          BY <3>2, <4>3, <5>2, <5>5, <5>6 DEF Shows
      <4>4. CASE ~b
        <5> DEFINE h == Mth(C, a, n)
                   q == <<h>>
        <5>1. p(n, b, a, x) = q
          BY <4>1, <4>2, <4>4 DEF Deepest
        <5>2. h \in Hashes(C)
          BY DEF Hashes
        <5> HIDE DEF h
        <5>3. Len(q) = 1 /\ q \in Seq(Hashes(C)) /\ q[1] = h
          BY <5>2
        <5> HIDE DEF q, p
        <5>4. RootedDef(pinned, q, Rooted(pinned, q), 1)[b][x][n] = <<h, h>>
          BY <3>2, <4>4, <5>3 DEF RootedDef, RootedAt
        <5>5. Rooted(pinned, q)[Len(q)][b][x][n] = <<h, h>>
          <6> DEFINE F == Rooted(pinned, q)
          <6>0. \A i \in Nat : F[i] = RootedDef(pinned, q, F, i)
            BY RootedIs
          <6> HIDE DEF F
          <6>1. F[1] = RootedDef(pinned, q, F, 1)
            BY <6>0
          <6> QED
            BY <5>3, <5>4, <6>1 DEF F
        <5>6. R(n, b, a, x) = <<h, h>>
          BY <5>1, <5>5
        <5> QED
          BY <3>2, <5>1, <5>3, <5>6 DEF Shows, h
      <4> QED
        BY <4>3, <4>4
    <3>3. CASE x # n
      <4>1. n # 1 /\ x < n /\ x \in Nat /\ n \in Nat
        BY <3>3
      <4>2. /\ n >= 2 /\ k \in Nat \ {0} /\ n - k \in Nat \ {0} /\ k < n
            /\ k \in 1..(n - 1) /\ n - k \in 1..(n - 1)
        BY <4>1, NotOne
      <4>3. PICK y \in Nat : /\ k = Pow2[y] /\ Pow2[y] < n /\ n <= 2 * Pow2[y]
                             /\ Aligned(a, k) /\ Aligned(a + k, n - k)
        BY <2>1, <4>2, AlignedSplit
      <4>4. a + k \in Nat /\ a + k <= size /\ (a + k) + (n - k) <= size
        BY <1>0, <2>1, <4>2
      <4>5. Mth(C, a, n) = Node(Mth(C, a, k), Mth(C, a + k, n - k))
        BY <1>0, <2>1, <4>2, MthSplit
      <4>6. CASE x <= k
        <5> DEFINE q == p(k, b, a, x)
                   e == Mth(C, a + k, n - k)
                   r == Rooted(pinned, q)[Len(q)]
        <5>1. RangeHash(a + k, n - k) = e
          <6> DEFINE f == a + k
                     g == n - k
          <6>1. f \in Nat /\ g \in Nat \ {0} /\ Aligned(f, g) /\ f + g <= size
            BY <4>2, <4>3, <4>4
          <6> HIDE DEF f, g
          <6>2. RangeHash(f, g) = Mth(C, f, g)
            BY <6>1, RangeHashIs
          <6> QED
            BY <6>2 DEF f, g
        <5>2. p(n, b, a, x) = Append(q, e)
          <6>1. /\ n \in Nat \ {0} /\ b \in BOOLEAN /\ a \in Nat /\ x \in 1..n
                /\ x # n /\ x <= Split(n)
            BY <3>3, <4>6
          <6>2. Proved[n][b][a][x] =
                  Append(Proved[Split(n)][b][a][x], RangeHash(a + Split(n), n - Split(n)))
            BY ONLY <6>1, ProvedOnLeft, Zenon
          <6> QED
            BY ONLY <5>1, <6>2, Zenon
        <5>3. Leads(k, b, a, x)
          <6>1. x \in 1..k
            BY <4>2, <4>6
          <6> HIDE DEF Leads
          <6> QED
            BY <3>1, <4>2, <6>1
        <5>4. q \in Seq(Hashes(C)) /\ Shows(pinned, b, a, k, x, r[b][x][k])
          BY <4>3, <4>4, <5>3
        <5>5. e \in Hashes(C)
          BY <4>2, <4>4 DEF Hashes
        <5> HIDE DEF q, p, e
        <5>6. R(n, b, a, x) = <<r[b][x][k][1], Node(r[b][x][k][2], e)>>
          <6> DEFINE t == p(n, b, a, x)
          <6>1. k = Split(n) /\ r = Rooted(pinned, q)[Len(q)] /\ t = Append(q, e)
            BY <5>2
          <6> DEFINE l == Len(q)
                     i == Len(t)
                     F == Rooted(pinned, t)
          <6>2. l \in Nat /\ i = l + 1 /\ e = t[l + 1] /\ F[l] = Rooted(pinned, q)[l]
            BY <5>4, <5>5, <6>1, RootedKept
          <6>3. i \in Nat /\ i # 0 /\ e = t[i] /\ r = F[i - 1]
            BY <6>1, <6>2
          <6>4. /\ n \in Nat /\ x \in Nat /\ b \in BOOLEAN /\ k = Split(n)
                /\ ~(x >= n) /\ x # n /\ x <= k
            BY <4>1, <4>6
          <6> HIDE DEF i
          <6>5. F[i][b][x][n] = RootedAt(pinned, t, F, i, b, x, n)
            BY <6>3, <6>4, RootedAtEnd
          <6> HIDE DEF k, r, t, F
          <6>6. RootedAt(pinned, t, F, i, b, x, n) =
                  <<r[b][x][k][1], Node(r[b][x][k][2], e)>>
            BY <6>3, <6>4 DEF RootedAt
          <6> QED
            BY <6>5, <6>6 DEF t, F, i
        <5> HIDE DEF r, R
        <5>7. Shows(pinned, b, a, n, x, <<r[b][x][k][1], Node(r[b][x][k][2], e)>>)
          <6> DEFINE v == r[b][x][k]
          <6>1. Shows(pinned, b, a, k, x, v)
            BY <5>4
          <6> HIDE DEF v
          <6>2. Shows(pinned, b, a, n, x, <<v[1], Node(v[2], e)>>)
            <7>1. CASE v = <<Mth(C, a, x), Mth(C, a, k)>>
              BY <4>5, <7>1 DEF Shows, e
            <7>2. CASE b /\ \E t : v = <<pinned, t>> /\ (t = Mth(C, a, k) <=> pinned = Mth(C, a, x))
              <8>1. PICK t : v = <<pinned, t>> /\ (t = Mth(C, a, k) <=> pinned = Mth(C, a, x))
                BY <7>2
              <8>2. v[1] = pinned /\ v[2] = t
                BY <8>1
              <8>3. Node(t, e) = Mth(C, a, n) <=> pinned = Mth(C, a, x)
                BY <4>5, <8>1, NodeInjective DEF e
              <8> QED
                BY <7>2, <8>2, <8>3 DEF Shows
            <7> QED
              BY <6>1, <7>1, <7>2 DEF Shows
          <6> QED
            BY <6>2 DEF v
        <5>8. p(n, b, a, x) \in Seq(Hashes(C))
          BY <5>2, <5>4, <5>5
        <5> QED
          BY <5>6, <5>7, <5>8
      <4>7. CASE x > k
        <5> DEFINE q == p(n - k, FALSE, a + k, x - k)
                   e == Mth(C, a, k)
                   r == Rooted(pinned, q)[Len(q)]
        <5>0. x - k \in 1..(n - k) /\ x - k \in Nat /\ ~(x <= k)
          BY <4>1, <4>2, <4>7
        <5>1. RangeHash(a, k) = e
          BY <4>2, <4>3, <4>4, RangeHashIs
        <5>2. p(n, b, a, x) = Append(q, e)
          <6>1. /\ n \in Nat \ {0} /\ b \in BOOLEAN /\ a \in Nat /\ x \in 1..n
                /\ x # n /\ ~(x <= Split(n))
            BY <3>3, <5>0
          <6>2. Proved[n][b][a][x] =
                  Append(Proved[n - Split(n)][FALSE][a + Split(n)][x - Split(n)],
                         RangeHash(a, Split(n)))
            BY ONLY <6>1, ProvedOnRight, Zenon
          <6> QED
            BY ONLY <5>1, <6>2, Zenon
        <5>3. Leads(n - k, FALSE, a + k, x - k)
          <6> HIDE DEF Leads
          <6> QED
            BY <3>1, <4>2, <4>4, <5>0
        <5>4. /\ q \in Seq(Hashes(C))
              /\ Shows(pinned, FALSE, a + k, n - k, x - k, r[FALSE][x - k][n - k])
          BY <4>3, <4>4, <5>3
        <5>5. e \in Hashes(C)
          BY <4>2 DEF Hashes
        <5>6. r[FALSE][x - k][n - k] = <<Mth(C, a + k, x - k), Mth(C, a + k, n - k)>>
          BY <5>4 DEF Shows
        <5>7. Mth(C, a, x) = Node(e, Mth(C, a + k, x - k))
          <6>1. Split(x) = k
            BY <4>1, <4>2, <4>3, <4>7, SplitOnly
          <6>2. x >= 2 /\ a + x <= Len(C)
            BY <1>0, <2>1, <4>1, <4>2, <4>7
          <6> QED
            BY <1>0, <4>1, <6>1, <6>2, MthSplit
        <5> HIDE DEF q, p, e
        <5>8. R(n, b, a, x) = <<Node(e, r[FALSE][x - k][n - k][1]), Node(e, r[FALSE][x - k][n - k][2])>>
          <6> DEFINE t == p(n, b, a, x)
          <6>1. k = Split(n) /\ r = Rooted(pinned, q)[Len(q)] /\ t = Append(q, e)
            BY <5>2
          <6> DEFINE l == Len(q)
                     i == Len(t)
                     F == Rooted(pinned, t)
          <6>2. l \in Nat /\ i = l + 1 /\ e = t[l + 1] /\ F[l] = Rooted(pinned, q)[l]
            BY <5>4, <5>5, <6>1, RootedKept
          <6>3. i \in Nat /\ i # 0 /\ e = t[i] /\ r = F[i - 1]
            BY <6>1, <6>2
          <6>4. /\ n \in Nat /\ x \in Nat /\ b \in BOOLEAN /\ k = Split(n)
                /\ ~(x >= n) /\ x # n /\ ~(x <= k)
            BY <4>1, <5>0
          <6> HIDE DEF i
          <6>5. F[i][b][x][n] = RootedAt(pinned, t, F, i, b, x, n)
            BY <6>3, <6>4, RootedAtEnd
          <6> HIDE DEF k, r, t, F
          <6>6. RootedAt(pinned, t, F, i, b, x, n) =
                  <<Node(e, r[FALSE][x - k][n - k][1]), Node(e, r[FALSE][x - k][n - k][2])>>
            BY <6>3, <6>4 DEF RootedAt
          <6> QED
            BY <6>5, <6>6 DEF t, F, i
        <5> HIDE DEF r, R
        <5>9. R(n, b, a, x) = <<Mth(C, a, x), Mth(C, a, n)>>
          BY <4>5, <5>6, <5>7, <5>8 DEF e
        <5>10. p(n, b, a, x) \in Seq(Hashes(C))
          BY <5>2, <5>4, <5>5
        <5> QED
          BY <5>9, <5>10 DEF Shows
      <4>8. x <= k \/ x > k
        BY <4>1, <4>2
      <4> HIDE DEF p, R, k
      <4> QED
        BY ONLY <4>6, <4>7, <4>8, Zenon
    <3> QED
      BY <3>2, <3>3
  <2>2. ASSUME NEW n \in 1..(z + 1), NEW b \in BOOLEAN, NEW a \in Nat, NEW x \in 1..n
        PROVE  Leads(n, b, a, x)
    <3>0. n \in 1..z \/ n = z + 1
      BY ONLY z \in Nat, n \in 1..(z + 1)
    <3> HIDE DEF Leads
    <3>1. CASE n \in 1..z
      BY <1>2, <3>1
    <3>2. CASE n = z + 1
      <4>1. n \in Nat \ {0} /\ n - 1 = z
        BY <1>2, <3>2
      <4> HIDE DEF p, R
      <4>2. ASSUME Aligned(a, n), a + n <= size
            PROVE  p(n, b, a, x) \in Seq(Hashes(C)) /\ Shows(pinned, b, a, n, x, R(n, b, a, x))
        BY ONLY <2>1, <2>2, <4>1, <4>2, Zenon
      <4> QED
        BY ONLY <4>2, Zenon DEF Leads
    <3> QED
      BY ONLY <3>0, <3>1, <3>2
  <2> HIDE DEF Leads
  <2> QED
    BY <2>2
<1> HIDE DEF T
<1>3. Nat \subseteq T
  BY <1>1, <1>2, Pow!NatInd
<1>4. len \in T /\ len \in 1..len
  BY <1>3
<1>5. Leads(len, anchored, lo, m)
  <2> HIDE DEF Leads
  <2> QED
    BY <1>4 DEF T
<1> QED
  BY <1>5

\* What the consistency path from an older head shows.
LEMMA PathShows ==
    ASSUME Layout, NEW old \in 1..size, NEW pinned
    PROVE  /\ VerifyConsistency(old, pinned, size, Root, ConsistencyPath(old))
                 <=> pinned = Mth(commitments, 0, old)
           /\ Root = Mth(commitments, 0, size)
<1> DEFINE path == Proved[size][TRUE][0][old]
           roots == Rooted(pinned, path)[Len(path)][TRUE][old][size]
<1>1. /\ size \in Nat \ {0} /\ size \in 0..size /\ old # 0 /\ 0 \in Nat /\ 0 + size <= size
      /\ TRUE \in BOOLEAN
  BY DEF Layout
<1>2. Root = Mth(commitments, 0, size)
  BY <1>1, RootIsHash DEF Root
<1>3. ConsistencyPath(old) = path
  BY <1>1, ProvedIs DEF ConsistencyPath
<1>5. Shows(pinned, TRUE, 0, size, old, roots)
  BY <1>1, AlignedPrefix, ProofLeads
<1> HIDE DEF path
<1>4. RootsFromPath(old, size, pinned, path) = roots
  BY RootsAre
<1> HIDE DEF roots
<1>6. roots = <<pinned, Mth(commitments, 0, size)>> <=> pinned = Mth(commitments, 0, old)
  BY <1>5 DEF Shows
<1> QED
  BY <1>2, <1>3, <1>4, <1>6 DEF VerifyConsistency

\* Every pinned head verifies: in a log of any size there is, from every older
\* head to the current one, a proof that verifies against the pinned root and
\* the current root (tree.rs consistency_path).
THEOREM PinnedHeadsVerify == Spec => []EveryPinnedHeadVerifies
<1>1. Layout => EveryPinnedHeadVerifies
  <2> SUFFICES ASSUME Layout, NEW old \in 1..size
               PROVE  VerifyConsistency(old, RootAtSize(old), size, Root, ConsistencyPath(old))
    BY DEF EveryPinnedHeadVerifies
  <2>1. old \in 0..size
    OBVIOUS
  <2>2. RootAtSize(old) = Mth(commitments, 0, old)
    BY <2>1, RootIsHash
  <2> QED
    BY <2>2, PathShows
<1> QED
  BY <1>1, LayoutAlways, PTL

\* The tree hash binds the entries: of ranges of one length, no two that differ
\* have the same hash.
LEMMA HashBinds ==
    ASSUME NEW s \in Seq(Commitment), NEW t \in Seq(Commitment), NEW lo \in Nat, NEW len \in Nat,
           lo + len <= Len(s), lo + len <= Len(t), Mth(s, lo, len) = Mth(t, lo, len)
    PROVE  \A i \in (lo + 1)..(lo + len) : s[i] = t[i]
<1> DEFINE Binds(a, n) == a + n <= Len(s) /\ a + n <= Len(t) /\ Mth(s, a, n) = Mth(t, a, n)
                            => \A i \in (a + 1)..(a + n) : s[i] = t[i]
           T == {z \in Nat : \A n \in 0..z, a \in Nat : Binds(a, n)}
<1>1. 0 \in T
  OBVIOUS
<1>2. ASSUME NEW z \in Nat, z \in T PROVE z + 1 \in T
  <2>1. ASSUME NEW n \in Nat, n - 1 = z, NEW a \in Nat, a + n <= Len(s), a + n <= Len(t),
               Mth(s, a, n) = Mth(t, a, n), NEW i \in (a + 1)..(a + n)
        PROVE  s[i] = t[i]
    <3> DEFINE k == Split(n)
    <3>1. CASE n = 1
      <4>1. a < Len(s) /\ a < Len(t) /\ i = a + 1 /\ a <= Len(s) /\ a <= Len(t)
        BY <2>1, <3>1
      <4>2. Mth(s, a, 1) = Leaf(s[a + 1]) /\ Mth(t, a, 1) = Leaf(t[a + 1])
        BY <4>1, MthSmall
      <4>3. Leaf(s[a + 1]) = Leaf(t[a + 1])
        BY <2>1, <3>1, <4>2
      <4> QED
        BY <4>1, <4>3 DEF Leaf
    <3>2. CASE n # 1
      <4>1. n \in Nat \ {0}
        BY <2>1
      <4>2. n >= 2 /\ k \in Nat /\ n - k \in Nat /\ k \in 1..(n - 1) /\ n - k \in 1..(n - 1)
        BY <3>2, <4>1, NotOne
      <4>3. /\ Mth(s, a, n) = Node(Mth(s, a, k), Mth(s, a + k, n - k))
            /\ Mth(t, a, n) = Node(Mth(t, a, k), Mth(t, a + k, n - k))
        BY <2>1, <4>2, MthSplit
      <4>4. Mth(s, a, k) = Mth(t, a, k) /\ Mth(s, a + k, n - k) = Mth(t, a + k, n - k)
        <5> HIDE DEF k
        <5>1. Node(Mth(s, a, k), Mth(s, a + k, n - k)) = Node(Mth(t, a, k), Mth(t, a + k, n - k))
          BY <2>1, <4>3
        <5> QED
          BY <5>1 DEF Node
      <4>5. Binds(a, k) /\ Binds(a + k, n - k)
        <5>1. k \in 0..z /\ n - k \in 0..z /\ a + k \in Nat
          BY <2>1, <4>2
        <5> HIDE DEF Binds, k
        <5> QED
          BY <1>2, <5>1
      <4> HIDE DEF k
      <4>6. /\ a + k <= Len(s) /\ a + k <= Len(t)
            /\ (a + k) + (n - k) <= Len(s) /\ (a + k) + (n - k) <= Len(t)
            /\ i \in (a + 1)..(a + k) \/ i \in ((a + k) + 1)..((a + k) + (n - k))
        BY <2>1, <4>2
      <4> QED
        BY <4>4, <4>5, <4>6
    <3> QED
      BY <3>1, <3>2
  <2>2. ASSUME NEW n \in 0..(z + 1), NEW a \in Nat PROVE Binds(a, n)
    <3>1. CASE n \in 0..z
      <4> HIDE DEF Binds
      <4> QED
        BY <1>2, <3>1
    <3>2. CASE n = z + 1
      <4>1. n \in Nat /\ n - 1 = z
        BY <3>2
      <4> QED
        BY <2>1, <4>1
    <3> QED
      BY <3>1, <3>2
  <2> HIDE DEF Binds
  <2> QED
    BY <2>2
<1> HIDE DEF T
<1>3. Nat \subseteq T
  BY <1>1, <1>2, Pow!NatInd
<1>4. Binds(lo, len)
  <2> HIDE DEF Binds
  <2>1. len \in 0..len
    OBVIOUS
  <2> QED
    BY <1>3, <2>1 DEF T
<1> QED
  BY <1>4

\* Rewrites are rejected: in a log of any size, the consistency path that the
\* log serves from an older head does not verify against the root of a history
\* that differs from the log's first entries in one of them (tree.rs
\* consistency_path, and hashes that bind what they are computed from).
THEOREM RewritesFail == Spec => []RewritesAreRejected
<1>1. Layout => RewritesAreRejected
  <2> SUFFICES ASSUME Layout, NEW old \in 1..size, NEW c \in Commitment, NEW j \in 1..old,
                      VerifyConsistency(old, TreeHash[[SubSeq(commitments, 1, old) EXCEPT ![j] = c]],
                                        size, Root, ConsistencyPath(old))
               PROVE  c = commitments[j]
    BY DEF RewritesAreRejected
  <2> DEFINE e == Entries(commitments, 0, old)
             w == [e EXCEPT ![j] = c]
  <2>1. SubSeq(commitments, 1, old) = e
    BY DEF Entries
  <2>2. /\ e \in Seq(Commitment) /\ Len(e) = old /\ old \in Nat
        /\ \A i \in 1..old : e[i] = commitments[0 + i]
    <3>1. /\ commitments \in Seq(Commitment) /\ 0 \in Nat /\ old \in Nat
          /\ 0 + old <= Len(commitments)
      BY DEF Layout
    <3> QED
      BY <3>1, EntriesAre
  <2>3. TreeHash[w] = TreeHash[e]
    BY <2>1, PathShows DEF Mth
  <2> HIDE DEF e
  <2>4. w \in Seq(Commitment) /\ Len(w) = old /\ w[j] = c
    BY <2>2
  <2> HIDE DEF w
  <2>5. Entries(w, 0, old) = w /\ Entries(e, 0, old) = e
    BY <2>2, <2>4 DEF Entries
  <2>6. /\ 0 \in Nat /\ 0 + old <= Len(w) /\ 0 + old <= Len(e) /\ j \in (0 + 1)..(0 + old)
        /\ Mth(w, 0, old) = Mth(e, 0, old)
    BY <2>2, <2>3, <2>4, <2>5 DEF Mth
  <2>7. w[j] = e[j]
    BY <2>2, <2>4, <2>6, HashBinds
  <2> QED
    BY <2>2, <2>4, <2>7
<1> QED
  BY <1>1, LayoutAlways, PTL

------------------------------------------------------------------------------
(* What no path can show.  The properties so far are about the paths that    *)
(* the log serves; these are about any path whatever, of any length and any  *)
(* siblings, that a verifier could be given.                                 *)

\* A hash of a range is that of no leaves, a leaf, or a node, by its length alone.
LEMMA MthCases ==
    ASSUME NEW s \in Seq(Commitment), NEW lo \in Nat, NEW len \in Nat, lo + len <= Len(s)
    PROVE  /\ \A c : Mth(s, lo, len) = Leaf(c) => len = 1 /\ s[lo + 1] = c
           /\ \A l, r : Mth(s, lo, len) = Node(l, r)
                => /\ len >= 2
                   /\ l = Mth(s, lo, Split(len))
                   /\ r = Mth(s, lo + Split(len), len - Split(len))
<1>1. CASE len = 0
  <2>1. lo <= Len(s)
    OBVIOUS
  <2>2. Mth(s, lo, len) = NoHash
    BY <1>1, <2>1, MthSmall
  <2> QED
    BY ONLY <2>2 DEF NoHash, Leaf, Node
<1>2. CASE len = 1
  <2>1. lo < Len(s) /\ lo <= Len(s)
    BY <1>2
  <2>2. Mth(s, lo, len) = Leaf(s[lo + 1])
    BY <1>2, <2>1, MthSmall
  <2> QED
    BY ONLY <1>2, <2>2 DEF Leaf, Node
<1>3. CASE len >= 2
  <2> DEFINE x == Mth(s, lo, Split(len))
             y == Mth(s, lo + Split(len), len - Split(len))
  <2>1. Mth(s, lo, len) = Node(x, y)
    BY <1>3, MthSplit
  <2> HIDE DEF x, y
  <2>2. \A c : Mth(s, lo, len) # Leaf(c)
    BY ONLY <2>1 DEF Leaf, Node
  <2>3. \A l, r : Mth(s, lo, len) = Node(l, r) => l = x /\ r = y
    BY ONLY <2>1, NodeInjective
  <2> QED
    BY ONLY <1>3, <2>2, <2>3, Zenon DEF x, y
<1>4. len = 0 \/ len = 1 \/ len >= 2
  OBVIOUS
<1> QED
  BY ONLY <1>1, <1>2, <1>3, <1>4, Zenon

LEMMA MthOfLeaf ==
    ASSUME NEW s \in Seq(Commitment), NEW lo \in Nat, NEW len \in Nat, lo + len <= Len(s),
           NEW c, Mth(s, lo, len) = Leaf(c)
    PROVE  len = 1 /\ s[lo + 1] = c
BY MthCases
LEMMA MthOfNode ==
    ASSUME NEW s \in Seq(Commitment), NEW lo \in Nat, NEW len \in Nat, lo + len <= Len(s),
           NEW l, NEW r, Mth(s, lo, len) = Node(l, r)
    PROVE  /\ len >= 2
           /\ l = Mth(s, lo, Split(len))
           /\ r = Mth(s, lo + Split(len), len - Split(len))
BY MthCases

\* The two sides of a range of two entries or more are ranges.
LEMMA SidesFit ==
    ASSUME NEW lo \in Nat, NEW len \in Nat, len >= 2, NEW end \in Nat, lo + len <= end
    PROVE  /\ Split(len) \in Nat \ {0} /\ len - Split(len) \in Nat \ {0}
           /\ lo + Split(len) \in Nat /\ lo + Split(len) <= end
           /\ (lo + Split(len)) + (len - Split(len)) <= end
<1> DEFINE k == Split(len)
<1>1. k \in 1..(len - 1)
  BY SplitBounds
<1> HIDE DEF k
<1> QED
  BY <1>1 DEF k

\* A path that leads from a commitment to the hash of a range starts at one of
\* its entries.
LEMMA PathFromEntry ==
    ASSUME NEW s \in Seq(Commitment), NEW lo \in Nat, NEW len \in Nat, lo + len <= Len(s),
           NEW c, NEW path, Len(path) \in Nat, RootFromPath(c, path) = Mth(s, lo, len)
    PROVE  \E i \in (lo + 1)..(lo + len) : s[i] = c
<1> DEFINE F == From(c, path)
           Starts(i, a, n) == a + n <= Len(s) /\ F[i] = Mth(s, a, n)
                                => \E j \in (a + 1)..(a + n) : s[j] = c
           T == {i \in Nat : \A a, n \in Nat : Starts(i, a, n)}
<1>0. /\ RootFromPath(c, path) = F[Len(path)]
      /\ F[0] = Leaf(c)
      /\ \A i \in Nat : \E y : F[i + 1] = Node(F[i], y) \/ F[i + 1] = Node(y, F[i])
  <2>1. /\ RootFromPath(c, path) = F[Len(path)]
        /\ F[0] = Leaf(c)
        /\ \A i \in Nat : F[i + 1] = IF path[i + 1].side = "right"
                                     THEN Node(F[i], path[i + 1].sibling)
                                     ELSE Node(path[i + 1].sibling, F[i])
    BY ONLY FromIs, Zenon
  <2> HIDE DEF F
  <2>2. ASSUME NEW i \in Nat PROVE \E y : F[i + 1] = Node(F[i], y) \/ F[i + 1] = Node(y, F[i])
    <3>1. \/ F[i + 1] = Node(F[i], path[i + 1].sibling)
          \/ F[i + 1] = Node(path[i + 1].sibling, F[i])
      BY ONLY <2>1, <2>2, Zenon
    <3> QED
      BY ONLY <3>1, Zenon
  <2> QED
    BY ONLY <2>1, <2>2, Zenon
<1> HIDE DEF F
<1>1. 0 \in T
  <2> SUFFICES ASSUME NEW a \in Nat, NEW n \in Nat, a + n <= Len(s), F[0] = Mth(s, a, n)
               PROVE  \E j \in (a + 1)..(a + n) : s[j] = c
    OBVIOUS
  <2>1. Mth(s, a, n) = Leaf(c)
    BY ONLY <1>0, F[0] = Mth(s, a, n)
  <2>2. n = 1 /\ s[a + 1] = c
    <3>1. s \in Seq(Commitment) /\ a \in Nat /\ n \in Nat /\ a + n <= Len(s)
      OBVIOUS
    <3> QED
      BY ONLY <2>1, <3>1, MthOfLeaf, Zenon
  <2> QED
    BY <2>2
<1>2. ASSUME NEW i \in Nat, i \in T PROVE i + 1 \in T
  <2>1. ASSUME NEW a \in Nat, NEW n \in Nat, a + n <= Len(s), F[i + 1] = Mth(s, a, n)
        PROVE  \E j \in (a + 1)..(a + n) : s[j] = c
    <3> DEFINE k == Split(n)
    <3>1. PICK y : F[i + 1] = Node(F[i], y) \/ F[i + 1] = Node(y, F[i])
      BY <1>0
    <3>2. /\ n >= 2
          /\ F[i] = Mth(s, a, k) \/ F[i] = Mth(s, a + k, n - k)
      <4>1. /\ s \in Seq(Commitment) /\ a \in Nat /\ n \in Nat /\ a + n <= Len(s)
            /\ Mth(s, a, n) = Node(F[i], y) \/ Mth(s, a, n) = Node(y, F[i])
        BY <2>1, <3>1
      <4>2. CASE Mth(s, a, n) = Node(F[i], y)
        BY ONLY <4>1, <4>2, MthOfNode
      <4>3. CASE Mth(s, a, n) = Node(y, F[i])
        BY ONLY <4>1, <4>3, MthOfNode
      <4> QED
        BY ONLY <4>1, <4>2, <4>3, Zenon
    <3>3. /\ k \in Nat \ {0} /\ n - k \in Nat \ {0}
          /\ a + k \in Nat /\ a + k <= Len(s) /\ (a + k) + (n - k) <= Len(s)
      <4>1. Len(s) \in Nat
        OBVIOUS
      <4> QED
        BY <2>1, <3>2, <4>1, SidesFit
    <3> HIDE DEF k
    <3>4. Starts(i, a, k) /\ Starts(i, a + k, n - k)
      <4> HIDE DEF Starts
      <4> QED
        BY <1>2, <3>3
    <3>5. \/ \E j \in (a + 1)..(a + k) : s[j] = c
          \/ \E j \in ((a + k) + 1)..((a + k) + (n - k)) : s[j] = c
      BY ONLY <3>2, <3>3, <3>4
    <3> QED
      BY <3>3, <3>5
  <2>2. ASSUME NEW a \in Nat, NEW n \in Nat PROVE Starts(i + 1, a, n)
    BY ONLY <2>1, <2>2, Zenon
  <2> HIDE DEF Starts
  <2> QED
    BY <2>2
<1> HIDE DEF T
<1>3. Nat \subseteq T
  BY <1>1, <1>2, Pow!NatInd
<1>4. Starts(Len(path), lo, len)
  <2> HIDE DEF Starts
  <2> QED
    BY <1>3 DEF T
<1> QED
  BY <1>0, <1>4


\* What a consistency path leads to for the first x of y entries: if the root it
\* leads to on the new side is the hash of a range of y entries, then there are
\* no fewer than x, and the old side is the hash of the first x of them.
Agrees(s, a, x, y, roots) ==
    a + y <= Len(s) /\ roots[2] = Mth(s, a, y) => x <= y /\ roots[1] = Mth(s, a, x)

LEMMA AnyPathAgrees ==
    ASSUME NEW s \in Seq(Commitment), NEW pinned, NEW path, NEW i \in Nat,
           NEW b \in BOOLEAN, NEW a \in Nat, NEW x \in Nat \ {0}, NEW y \in Nat \ {0}
    PROVE  Agrees(s, a, x, y, Rooted(pinned, path)[i][b][x][y])
<1> DEFINE F == Rooted(pinned, path)
           Agree(j) == \A d \in BOOLEAN, e \in Nat, u, v \in Nat \ {0} :
                          Agrees(s, e, u, v, F[j][d][u][v])
           T == {j \in Nat : Agree(j)}
<1>0. \A j \in Nat, d \in BOOLEAN, u, v \in Nat :
         F[j][d][u][v] = RootedAt(pinned, path, F, j, d, u, v)
  <2>1. ASSUME NEW j \in Nat
        PROVE  \A d \in BOOLEAN, u, v \in Nat :
                  F[j][d][u][v] = RootedAt(pinned, path, F, j, d, u, v)
    BY ONLY j \in Nat, RootedAtEnd
  <2> HIDE DEF F
  <2> QED
    BY ONLY <2>1, Zenon
<1> HIDE DEF F
<1>1. ASSUME NEW j \in Nat, NEW d \in BOOLEAN, NEW e \in Nat, NEW u \in Nat \ {0},
             NEW v \in Nat \ {0}, j # 0 => j - 1 \in T
      PROVE  Agrees(s, e, u, v, F[j][d][u][v])
  <2>0. SUFFICES ASSUME e + v <= Len(s), F[j][d][u][v][2] = Mth(s, e, v)
                 PROVE  u <= v /\ F[j][d][u][v][1] = Mth(s, e, u)
    BY Zenon DEF Agrees
  <2> DEFINE r == F[j][d][u][v]
             k == Split(v)
             left == F[j - 1][d][u][k]
             right == F[j - 1][FALSE][u - k][v - k]
             h == path[j]
  <2>1. r = RootedAt(pinned, path, F, j, d, u, v)
    BY <1>0
  <2>2. Mth(s, e, v) # NoHash
    BY <1>1, <2>0, MthSome
  <2>3. \/ u = v /\ r[1] = r[2]
        \/ r[2] = NoHash
        \/ u < v /\ j # 0 /\ u <= k /\ r[1] = left[1] /\ r[2] = Node(left[2], h)
        \/ u < v /\ j # 0 /\ ~(u <= k) /\ r[1] = Node(h, right[1]) /\ r[2] = Node(h, right[2])
    <3>1. u < v \/ u >= v
      OBVIOUS
    <3>2. r = IF u = v /\ d /\ j = 0 THEN <<pinned, pinned>>
              ELSE IF u = v /\ ~d /\ j = 1 THEN <<path[1], path[1]>>
              ELSE IF u >= v \/ j = 0 THEN <<NoHash, NoHash>>
              ELSE IF u <= k THEN <<left[1], Node(left[2], h)>>
              ELSE <<Node(h, right[1]), Node(h, right[2])>>
      BY ONLY <2>1, Zenon DEF RootedAt
    <3> HIDE DEF r, k, left, right, h
    <3> QED
      BY ONLY <3>1, <3>2
  <2> HIDE DEF r
  <2>4. CASE u = v /\ r[1] = r[2]
    BY <1>1, <2>0, <2>4 DEF r
  <2>5. CASE r[2] = NoHash
    BY <1>1, <2>0, <2>2, <2>5 DEF r
  <2>6. ASSUME u < v, j # 0
        PROVE  /\ v >= 2 /\ k \in Nat \ {0} /\ v - k \in Nat \ {0} /\ k < v
               /\ e + k \in Nat /\ e + k <= Len(s) /\ (e + k) + (v - k) <= Len(s)
               /\ j - 1 \in T
    <3>1. v >= 2 /\ Len(s) \in Nat /\ v \in Nat
      BY <2>6
    <3>2. /\ k \in Nat \ {0} /\ v - k \in Nat \ {0}
          /\ e + k \in Nat /\ e + k <= Len(s) /\ (e + k) + (v - k) <= Len(s)
      BY <1>1, <2>0, <3>1, SidesFit
    <3> HIDE DEF k, T
    <3> QED
      BY <1>1, <2>0, <2>6, <3>1, <3>2
  <2>7. CASE u < v /\ j # 0 /\ u <= k /\ r[1] = left[1] /\ r[2] = Node(left[2], h)
    <3>1. left[2] = Mth(s, e, k)
      <4>1. /\ s \in Seq(Commitment) /\ e \in Nat /\ v \in Nat /\ e + v <= Len(s)
            /\ Mth(s, e, v) = Node(left[2], h)
        BY <1>1, <2>0, <2>7 DEF r
      <4> HIDE DEF left, h
      <4> QED
        BY ONLY <4>1, MthOfNode
    <3>2. Agrees(s, e, u, k, left)
      BY <2>6, <2>7
    <3> HIDE DEF k, left
    <3> QED
      BY <2>6, <2>7, <3>1, <3>2 DEF Agrees, r
  <2>8. CASE u < v /\ j # 0 /\ ~(u <= k) /\ r[1] = Node(h, right[1]) /\ r[2] = Node(h, right[2])
    <3>1. h = Mth(s, e, k) /\ right[2] = Mth(s, e + k, v - k)
      <4>1. /\ s \in Seq(Commitment) /\ e \in Nat /\ v \in Nat /\ e + v <= Len(s)
            /\ Mth(s, e, v) = Node(h, right[2])
        BY <1>1, <2>0, <2>8 DEF r
      <4> HIDE DEF right, h, k
      <4> QED
        BY ONLY <4>1, MthOfNode DEF k
    <3>2. u - k \in Nat \ {0}
      <4>1. k \in Nat \ {0} /\ u \in Nat
        BY <2>6, <2>8
      <4> HIDE DEF k
      <4> QED
        BY ONLY <2>8, <4>1
    <3>3. Agrees(s, e + k, u - k, v - k, right)
      BY <2>6, <2>8, <3>2
    <3>4. right[1] = Mth(s, e + k, u - k)
      BY <2>6, <2>8, <3>1, <3>3 DEF Agrees
    <3>5. Split(u) = k
      <4>1. v \in Nat /\ v >= 2
        BY <2>6, <2>8
      <4>2. PICK z \in Nat : k = Pow2[z] /\ Pow2[z] < v /\ v <= 2 * Pow2[z]
        BY <4>1, SplitIs
      <4> HIDE DEF k
      <4>3. u \in Nat /\ Pow2[z] < u /\ u <= 2 * Pow2[z]
        <5>1. Pow2[z] \in Nat /\ u \in Nat
          BY PowType
        <5> QED
          BY ONLY <2>8, <4>1, <4>2, <5>1
      <4> QED
        BY <4>2, <4>3, SplitOnly
    <3>6. Mth(s, e, u) = Node(Mth(s, e, k), Mth(s, e + k, u - k))
      <4> HIDE DEF k
      <4>1. /\ u \in Nat /\ v \in Nat /\ e \in Nat /\ Len(s) \in Nat /\ e + v <= Len(s)
            /\ k \in Nat \ {0} /\ u < v /\ ~(u <= k)
        BY <1>1, <2>0, <2>6, <2>8
      <4>2. u >= 2 /\ e + u <= Len(s) /\ u \in Nat
        BY ONLY <4>1
      <4> QED
        BY <3>5, <4>2, MthSplit
    <3> QED
      BY <2>8, <3>1, <3>4, <3>6 DEF r
  <2> QED
    BY <2>3, <2>4, <2>5, <2>7, <2>8 DEF r
<1>2. ASSUME NEW j \in Nat, j # 0 => j - 1 \in T PROVE j \in T
  <2> HIDE DEF T
  <2>1. ASSUME NEW d \in BOOLEAN, NEW e \in Nat, NEW u \in Nat \ {0}, NEW v \in Nat \ {0}
        PROVE  Agrees(s, e, u, v, F[j][d][u][v])
    BY ONLY <1>1, <1>2, <2>1, Zenon
  <2>2. Agree(j)
    BY ONLY <2>1, Zenon
  <2> HIDE DEF Agree
  <2> QED
    BY ONLY j \in Nat, <2>2 DEF T
<1> HIDE DEF T
<1>3. 0 \in T
  BY <1>2
<1>4. ASSUME NEW j \in Nat, j \in T PROVE j + 1 \in T
  <2>1. j + 1 \in Nat /\ (j + 1) - 1 = j
    OBVIOUS
  <2> QED
    BY <1>2, <1>4, <2>1
<1>5. Nat \subseteq T
  BY <1>3, <1>4, Pow!NatInd
<1> QED
  BY <1>5 DEF T, F


\* A receipt is of an entry: no path whatever leads from anything but one of the
\* first s commitments to the root of the log's first s entries, so nobody can
\* show a receipt of what was not sequenced (leaf and node hashes are told apart
\* by their domain bytes, tree.rs).
OnlyEntriesVerify ==
    \A s \in 0..size : \A c, S : \A path \in Seq(S) :
        VerifyInclusion(c, path, RootAtSize(s)) => \E i \in 1..s : commitments[i] = c
THEOREM ReceiptsAreOfEntries == Spec => []OnlyEntriesVerify
<1>1. Layout => OnlyEntriesVerify
  <2> SUFFICES ASSUME Layout, NEW s \in 0..size, NEW c, NEW S, NEW path \in Seq(S),
                      VerifyInclusion(c, path, RootAtSize(s))
               PROVE  \E i \in 1..s : commitments[i] = c
    BY DEF OnlyEntriesVerify
  <2> DEFINE none == 0
  <2>1. /\ commitments \in Seq(Commitment) /\ none \in Nat /\ s \in Nat
        /\ none + s <= Len(commitments) /\ none + 1 = 1 /\ none + s = s
    BY DEF Layout
  <2>2. RootAtSize(s) = Mth(commitments, none, s)
    BY RootIsHash
  <2> HIDE DEF none
  <2>3. Len(path) \in Nat /\ RootFromPath(c, path) = Mth(commitments, none, s)
    BY <2>2 DEF VerifyInclusion
  <2>4. \E i \in (none + 1)..(none + s) : commitments[i] = c
    BY ONLY <2>1, <2>3, PathFromEntry
  <2> QED
    BY ONLY <2>1, <2>4
<1> QED
  BY <1>1, LayoutAlways, PTL

\* A log extends only its own beginnings: whatever path a verifier is given, and
\* whatever it pinned for a size, the current head of a log with entries verifies
\* from it only if the log had that size and what is pinned is the root of its
\* prefix.  A log that was forked or rewritten cannot be joined to the old head by
\* any proof, and not only by none that consistency_path would serve.
OnlyBeginningsVerify ==
    size # 0 =>
        \A old \in Nat \ {0} : \A pinned, S : \A path \in Seq(S) :
            VerifyConsistency(old, pinned, size, Root, path)
                => old <= size /\ pinned = RootAtSize(old)
THEOREM ForksNeverVerify == Spec => []OnlyBeginningsVerify
<1>1. Layout => OnlyBeginningsVerify
  <2> SUFFICES ASSUME Layout, size # 0, NEW old \in Nat \ {0}, NEW pinned, NEW S,
                      NEW path \in Seq(S), VerifyConsistency(old, pinned, size, Root, path)
               PROVE  old <= size /\ pinned = RootAtSize(old)
    BY DEF OnlyBeginningsVerify
  <2> DEFINE none == 0
             roots == Rooted(pinned, path)[Len(path)][TRUE][old][size]
  <2>1. /\ commitments \in Seq(Commitment) /\ none \in Nat /\ size \in Nat \ {0}
        /\ none + size <= Len(commitments) /\ Len(path) \in Nat /\ TRUE \in BOOLEAN
    BY DEF Layout
  <2>2. Root = Mth(commitments, none, size)
    BY <2>1, RootIsHash DEF Root
  <2>3. roots = <<pinned, Root>>
    BY RootsAre DEF VerifyConsistency
  <2>4. old <= size => RootAtSize(old) = Mth(commitments, none, old)
    BY <2>1, RootIsHash
  <2>5. Agrees(commitments, none, old, size, roots)
    BY ONLY <2>1, old \in Nat \ {0}, AnyPathAgrees
  <2> HIDE DEF none, roots
  <2>6. roots[1] = pinned /\ roots[2] = Root
    BY ONLY <2>3
  <2> QED
    BY ONLY <2>1, <2>2, <2>4, <2>5, <2>6, Zenon DEF Agrees
<1> QED
  BY <1>1, LayoutAlways, PTL

\* A head binds every entry under it: no other sequence of as many commitments
\* has its root.  So two verifiers with one head have one history, which is why
\* the modules of the service and its verifiers may write a root as the sequence
\* of the entries under it.
HeadsBindEntries ==
    \A s \in 0..size : \A history \in Seq(Commitment) :
        Len(history) = s /\ TreeHash[history] = RootAtSize(s)
            => history = SubSeq(commitments, 1, s)
THEOREM HeadsBindHistory == Spec => []HeadsBindEntries
<1>1. Layout => HeadsBindEntries
  <2> SUFFICES ASSUME Layout, NEW s \in 0..size, NEW history \in Seq(Commitment),
                      Len(history) = s, TreeHash[history] = RootAtSize(s)
               PROVE  history = SubSeq(commitments, 1, s)
    BY DEF HeadsBindEntries
  <2> DEFINE none == 0
             e == Entries(commitments, none, s)
  <2>1. /\ commitments \in Seq(Commitment) /\ none \in Nat /\ s \in Nat
        /\ none + s <= Len(commitments) /\ none + s <= Len(history)
    BY DEF Layout
  <2>2. SubSeq(commitments, 1, s) = e /\ Entries(history, none, s) = history
    BY <2>1 DEF Entries
  <2>3. Mth(commitments, none, s) = Mth(history, none, s)
    <3>1. RootAtSize(s) = Mth(commitments, none, s)
      BY RootIsHash
    <3> QED
      BY <2>2, <3>1 DEF Mth
  <2>4. \A i \in 1..s : none + i \in (none + 1)..(none + s) /\ none + i = i
    BY <2>1
  <2> HIDE DEF none
  <2>5. \A i \in (none + 1)..(none + s) : commitments[i] = history[i]
    BY ONLY <2>1, <2>3, history \in Seq(Commitment), HashBinds
  <2>6. e \in Seq(Commitment) /\ Len(e) = s /\ \A i \in 1..s : e[i] = commitments[none + i]
    BY ONLY <2>1, EntriesAre
  <2> HIDE DEF e
  <2>7. \A i \in 1..s : e[i] = history[i]
    BY ONLY <2>4, <2>5, <2>6, Zenon
  <2>8. history = e
    BY <2>6, <2>7, SameSequence
  <2> QED
    BY ONLY <2>2, <2>8
<1> QED
  BY <1>1, LayoutAlways, PTL

==============================================================================
