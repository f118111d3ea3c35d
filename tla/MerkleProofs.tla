---------------------------- MODULE MerkleProofs ----------------------------
(***************************************************************************)
(* Theorems about MerkleTree, for logs of any length: what the server      *)
(* computes passes the verifiers, and what passes the verifiers is true.   *)
(*                                                                         *)
(* Completeness. A path is followed through two kinds of subtree: a        *)
(* complete one, of 2^d leaves, and the last one, which ends where the log *)
(* ends and need not be complete. In the first the bits of the index       *)
(* decide the side of each sibling; in the second the loops that skip      *)
(* levels without a sibling matter. CompleteClimbs and LastClimbs are the  *)
(* two inductions for inclusion, CompleteJoins and LastJoins those for     *)
(* consistency.                                                            *)
(*                                                                         *)
(* Soundness. A run of the inclusion verifier is read backwards: the root  *)
(* is a node hash, its two children are fixed, and so on down to the leaf  *)
(* (CompleteFalls, LastFalls); a path that is too long would have to take  *)
(* a leaf for a node (TooDeep). For consistency, two runs that start at    *)
(* the same indices and end with one new root took the same nodes          *)
(* (TwoRuns), and the honest run is one of them.                           *)
(***************************************************************************)
EXTENDS MerkleTree, TLAPS

SplitRec == INSTANCE Recursion
              WITH Dom     <- LAMBDA n : Nat \ {0},
                   Measure <- LAMBDA n, k : IF k < n THEN n - k ELSE 0,
                   Body    <- LAMBDA n, grow, k : IF k < n THEN grow[2 * k] ELSE k

(* The function split iterates: doubling until n is reached. *)
Grow(n) == CHOOSE grow : grow = [k \in Nat \ {0} |-> IF k < n THEN grow[2 * k] ELSE k]

(* split is half of the first power of two that Grow reaches. *)
LEMMA SplitIsGrow == \A n : split(n) = Grow(n)[1] \div 2
  BY DEF split, Grow

(* Grow satisfies its equation. *)
LEMMA GrowValue ==
    ASSUME NEW n \in Nat
    PROVE  \A k \in Nat \ {0} : Grow(n)[k] = IF k < n THEN Grow(n)[2 * k] ELSE k
  <1>1. SplitRec!WellFounded(n)
    <2>1. \A k \in Nat \ {0} : (IF k < n THEN n - k ELSE 0) \in Nat
      OBVIOUS
    <2>2. ASSUME NEW k \in Nat \ {0}, NEW g, NEW h,
                 \A y \in Nat \ {0} : (IF y < n THEN n - y ELSE 0) < (IF k < n THEN n - k ELSE 0)
                                        => g[y] = h[y]
          PROVE  (IF k < n THEN g[2 * k] ELSE k) = (IF k < n THEN h[2 * k] ELSE k)
      <3>1. CASE k < n
        <4>1. 2 * k \in Nat \ {0} /\ (IF 2 * k < n THEN n - 2 * k ELSE 0) < n - k
          BY <3>1
        <4>2. g[2 * k] = h[2 * k]
          BY <2>2, <3>1, <4>1
        <4>3. QED
          BY <3>1, <4>2
      <3>2. CASE ~(k < n)
        BY <3>2
      <3>3. QED
        BY <3>1, <3>2
    <2>3. QED
      BY <2>1, <2>2, Zenon DEF SplitRec!WellFounded
  <1>2. \E grow : grow = [k \in Nat \ {0} |-> IF k < n THEN grow[2 * k] ELSE k]
    BY <1>1, SplitRec!Defined
  <1> DEFINE gr == Grow(n)
  <1>3. gr = [k \in Nat \ {0} |-> IF k < n THEN gr[2 * k] ELSE k]
    BY <1>2 DEF Grow
  <1> HIDE DEF gr
  <1>4. \A k \in Nat \ {0} : gr[k] = IF k < n THEN gr[2 * k] ELSE k
    BY <1>3
  <1>5. QED
    BY <1>4 DEF gr

-----------------------------------------------------------------------------
(* Powers of two. *)

PowRec == INSTANCE Recursion
            WITH Dom     <- LAMBDA p : Nat,
                 Measure <- LAMBDA p, d : d,
                 Body    <- LAMBDA p, f, d : IF d = 0 THEN 1 ELSE 2 * f[d - 1]

PowFn == CHOOSE f : f = [d \in Nat |-> IF d = 0 THEN 1 ELSE 2 * f[d - 1]]

Pow(d) == PowFn[d]

(* Powers of two satisfy their equation, *)
LEMMA PowValue == Pow(0) = 1 /\ \A d \in Nat : Pow(d + 1) = 2 * Pow(d)
  <1>1. PowRec!WellFounded(0)
    <2>1. \A d \in Nat : d \in Nat
      OBVIOUS
    <2>2. ASSUME NEW d \in Nat, NEW g, NEW h, \A y \in Nat : y < d => g[y] = h[y]
          PROVE  (IF d = 0 THEN 1 ELSE 2 * g[d - 1]) = (IF d = 0 THEN 1 ELSE 2 * h[d - 1])
      <3>1. CASE d = 0
        BY <3>1
      <3>2. CASE d # 0
        <4>1. d - 1 \in Nat /\ d - 1 < d
          BY <3>2
        <4>2. g[d - 1] = h[d - 1]
          BY <2>2, <4>1
        <4>3. QED
          BY <3>2, <4>2
      <3>3. QED
        BY <3>1, <3>2
    <2>3. QED
      BY <2>1, <2>2, Zenon DEF PowRec!WellFounded
  <1>2. \E f : f = [d \in Nat |-> IF d = 0 THEN 1 ELSE 2 * f[d - 1]]
    BY <1>1, PowRec!Defined
  <1> DEFINE pf == PowFn
  <1>3. pf = [d \in Nat |-> IF d = 0 THEN 1 ELSE 2 * pf[d - 1]]
    BY <1>2 DEF PowFn
  <1> HIDE DEF pf
  <1>4. \A d \in Nat : pf[d] = IF d = 0 THEN 1 ELSE 2 * pf[d - 1]
    BY <1>3
  <1>5. pf[0] = 1
    BY <1>4
  <1>6. ASSUME NEW d \in Nat PROVE pf[d + 1] = 2 * pf[d]
    <2>1. d + 1 \in Nat /\ d + 1 # 0 /\ (d + 1) - 1 = d
      OBVIOUS
    <2>2. QED
      BY <1>4, <2>1
  <1>7. QED
    BY <1>5, <1>6 DEF pf, Pow

(* are positive, *)
LEMMA PowType == \A d \in Nat : Pow(d) \in Nat \ {0}
  <1> DEFINE S == {d \in Nat : Pow(d) \in Nat \ {0}}
  <1>1. 0 \in S
    BY PowValue
  <1>2. ASSUME NEW d \in Nat, d \in S PROVE d + 1 \in S
    BY <1>2, PowValue
  <1> HIDE DEF S
  <1>3. \A d \in Nat : d \in S
    BY <1>1, <1>2, PowRec!Induction
  <1>4. QED
    BY <1>3 DEF S

(* and grow by at least a factor of two: *)
LEMMA PowMonotone ==
    ASSUME NEW a \in Nat
    PROVE  \A e \in Nat : 2 * Pow(a) <= Pow(a + 1 + e)
  <1> DEFINE S == {e \in Nat : 2 * Pow(a) <= Pow(a + 1 + e)}
  <1>1. 0 \in S
    BY PowValue, PowType
  <1>2. ASSUME NEW e \in Nat, e \in S PROVE e + 1 \in S
    <2>1. Pow(a + 1 + (e + 1)) = 2 * Pow(a + 1 + e)
      <3>1. a + 1 + e \in Nat /\ a + 1 + (e + 1) = (a + 1 + e) + 1
        OBVIOUS
      <3>2. QED
        BY <3>1, PowValue
    <2>2. Pow(a) \in Nat /\ Pow(a + 1 + e) \in Nat
      BY PowType
    <2>3. QED
      BY <1>2, <2>1, <2>2
  <1> HIDE DEF S
  <1>3. \A e \in Nat : e \in S
    BY <1>1, <1>2, PowRec!Induction
  <1>4. QED
    BY <1>3 DEF S

(* a smaller exponent gives at most half. *)
LEMMA PowOrder ==
    ASSUME NEW a \in Nat, NEW b \in Nat, a < b
    PROVE  2 * Pow(a) <= Pow(b)
  <1>1. b - a - 1 \in Nat /\ a + 1 + (b - a - 1) = b
    OBVIOUS
  <1>2. QED
    BY <1>1, PowMonotone

(* Only one power of two lies below n with its double at or above n. *)
LEMMA PowUnique ==
    ASSUME NEW n \in Nat, NEW a \in Nat, NEW b \in Nat,
           Pow(a) < n, n <= 2 * Pow(a), Pow(b) < n, n <= 2 * Pow(b)
    PROVE  a = b
  <1>1. Pow(a) \in Nat /\ Pow(b) \in Nat
    BY PowType
  <1>2. a < b => 2 * Pow(a) <= Pow(b)
    BY PowOrder
  <1>3. b < a => 2 * Pow(b) <= Pow(a)
    BY PowOrder
  <1>4. QED
    BY <1>1, <1>2, <1>3

(* split(n) is the power of two below n, for every n >= 2. *)
LEMMA SplitBelow ==
    ASSUME NEW n \in Nat, n >= 2
    PROVE  \E e \in Nat : split(n) = Pow(e) /\ Pow(e) < n /\ n <= 2 * Pow(e)
  <1> DEFINE Good(d) == \E e \in Nat : /\ Grow(n)[Pow(d)] = 2 * Pow(e)
                                       /\ Pow(e) < n /\ n <= 2 * Pow(e)
             S == {g \in Nat : \A d \in Nat : n - Pow(d) = g /\ g # 0 => Good(d)}
  <1>1. ASSUME NEW g \in Nat, \A k \in Nat : k < g => k \in S PROVE g \in S
    <2> SUFFICES ASSUME NEW d \in Nat, n - Pow(d) = g, g # 0 PROVE Good(d)
      OBVIOUS
    <2>1. Pow(d) \in Nat \ {0} /\ Pow(d + 1) = 2 * Pow(d) /\ Pow(d + 1) \in Nat \ {0} /\ Pow(d) < n
      BY PowType, PowValue
    <2>2. Grow(n)[Pow(d)] = Grow(n)[Pow(d + 1)]
      BY <2>1, GrowValue
    <2>3. CASE n <= Pow(d + 1)
      <3>1. Grow(n)[Pow(d + 1)] = Pow(d + 1)
        BY <2>1, <2>3, GrowValue
      <3>2. QED
        BY <2>1, <2>2, <2>3, <3>1
    <2>4. CASE ~(n <= Pow(d + 1))
      <3>1. n - Pow(d + 1) \in Nat /\ n - Pow(d + 1) < g /\ n - Pow(d + 1) # 0
        BY <2>1, <2>4
      <3>2. Good(d + 1)
        BY <1>1, <3>1
      <3>3. QED
        BY <2>2, <3>2
    <2>5. QED
      BY <2>3, <2>4
  <1> HIDE DEF S
  <1>2. \A g \in Nat : g \in S
    BY <1>1, PowRec!StrongInduction
  <1>3. Good(0)
    <2>1. n - Pow(0) \in Nat /\ n - Pow(0) # 0
      BY PowValue
    <2>2. QED
      BY <1>2, <2>1 DEF S
  <1>4. PICK e \in Nat : Grow(n)[1] = 2 * Pow(e) /\ Pow(e) < n /\ n <= 2 * Pow(e)
    BY <1>3, PowValue
  <1>5. Pow(e) \in Nat
    BY PowType
  <1>6. split(n) = Pow(e)
    BY <1>4, <1>5, SplitIsGrow
  <1>7. QED
    BY <1>4, <1>6

(* split(n) is the largest power of two below n. *)
LEMMA SplitIs ==
    ASSUME NEW n \in Nat, NEW d \in Nat, Pow(d) < n, n <= 2 * Pow(d)
    PROVE  split(n) = Pow(d)
  <1>1. Pow(d) \in Nat \ {0}
    BY PowType
  <1>2. n >= 2
    BY <1>1
  <1>3. PICK e \in Nat : split(n) = Pow(e) /\ Pow(e) < n /\ n <= 2 * Pow(e)
    BY <1>2, SplitBelow
  <1>4. e = d
    BY <1>3, PowUnique
  <1>5. QED
    BY <1>3, <1>4

(* is_power_of_two recognises the powers of two, and nothing between two of  *)
(* them.                                                                     *)
LEMMA PowIsPower == \A d \in Nat : is_power_of_two(Pow(d))
  <1> SUFFICES ASSUME NEW d \in Nat PROVE split(Pow(d) + 1) = Pow(d)
    BY DEF is_power_of_two
  <1>1. Pow(d) \in Nat \ {0}
    BY PowType
  <1>2. Pow(d) + 1 \in Nat /\ Pow(d) < Pow(d) + 1 /\ Pow(d) + 1 <= 2 * Pow(d)
    BY <1>1
  <1>3. QED
    BY <1>2, SplitIs

(* What lies strictly between two neighbouring powers is none. *)
LEMMA BetweenPowers ==
    ASSUME NEW m \in Nat, NEW d \in Nat, Pow(d) < m, m < 2 * Pow(d)
    PROVE  ~is_power_of_two(m)
  <1>1. Pow(d) \in Nat \ {0}
    BY PowType
  <1>2. m + 1 \in Nat /\ Pow(d) < m + 1 /\ m + 1 <= 2 * Pow(d)
    BY <1>1
  <1>3. split(m + 1) = Pow(d)
    BY <1>2, SplitIs
  <1>4. QED
    BY <1>1, <1>3 DEF is_power_of_two

(* The two parts of a split range. *)
LEMMA SplitParts ==
    ASSUME NEW n \in Nat, n >= 2
    PROVE  split(n) \in Nat \ {0} /\ split(n) < n /\ n - split(n) \in Nat \ {0} /\ n - split(n) < n
  <1>1. PICK e \in Nat : split(n) = Pow(e) /\ Pow(e) < n
    BY SplitBelow
  <1>2. Pow(e) \in Nat \ {0}
    BY PowType
  <1>3. QED
    BY <1>1, <1>2

-----------------------------------------------------------------------------
(* Tree hashes. *)

HashBody(leaves, hash, len) ==
    [i \in Nat |-> CASE len = 0 -> EmptyHash
                     [] len = 1 -> leaves[i + 1]
                     [] OTHER   -> node_hash(hash[split(len)][i],
                                             hash[len - split(len)][i + split(len)])]

HashRec == INSTANCE Recursion
             WITH Dom     <- LAMBDA leaves : Nat,
                  Measure <- LAMBDA leaves, len : len,
                  Body    <- HashBody

(* The function mth_range iterates. *)
Hash(leaves) == CHOOSE hash : hash = [len \in Nat |-> HashBody(leaves, hash, len)]

(* mth_range is the recursive function Hash. *)
LEMMA MthIsHash ==
    ASSUME NEW leaves, NEW lo, NEW n
    PROVE  mth_range(leaves, lo, n) = Hash(leaves)[n][lo]
  BY DEF mth_range, Hash, HashBody

(* Hash satisfies its equation, *)
LEMMA HashIsDefined ==
    ASSUME NEW leaves
    PROVE  Hash(leaves) = [len \in Nat |-> HashBody(leaves, Hash(leaves), len)]
  <1>1. HashRec!WellFounded(leaves)
    <2>1. ASSUME NEW n \in Nat, NEW g, NEW h, \A y \in Nat : y < n => g[y] = h[y]
          PROVE  HashBody(leaves, g, n) = HashBody(leaves, h, n)
      <3>1. CASE n = 0
        BY <3>1 DEF HashBody
      <3>2. CASE n = 1
        BY <3>2 DEF HashBody
      <3>3. CASE n >= 2
        <4>1. split(n) \in Nat /\ split(n) < n /\ n - split(n) \in Nat /\ n - split(n) < n
          BY <3>3, SplitParts
        <4>2. g[split(n)] = h[split(n)] /\ g[n - split(n)] = h[n - split(n)]
          BY <2>1, <4>1
        <4>3. QED
          BY <4>2 DEF HashBody
      <3>4. QED
        BY <3>1, <3>2, <3>3
    <2>2. QED
      BY <2>1, Zenon DEF HashRec!WellFounded
  <1>2. \E hash : hash = [len \in Nat |-> HashBody(leaves, hash, len)]
    BY <1>1, HashRec!Defined
  <1>3. QED
    BY <1>2, Zenon DEF Hash

(* What mth computes: a leaf, or the node over the two parts. *)
LEMMA MthLeaf ==
    ASSUME NEW leaves, NEW i \in Nat
    PROVE  mth_range(leaves, i, 1) = leaves[i + 1]
  <1>1. Hash(leaves)[1] = HashBody(leaves, Hash(leaves), 1)
    BY HashIsDefined
  <1>2. HashBody(leaves, Hash(leaves), 1)[i] = leaves[i + 1]
    BY DEF HashBody
  <1>3. QED
    BY <1>1, <1>2, MthIsHash

(* so the root of two or more leaves is the node above the roots of its two *)
(* parts.                                                                   *)
LEMMA MthNode ==
    ASSUME NEW leaves, NEW i \in Nat, NEW n \in Nat, n >= 2
    PROVE  mth_range(leaves, i, n) =
             node_hash(mth_range(leaves, i, split(n)),
                       mth_range(leaves, i + split(n), n - split(n)))
  <1> DEFINE hs == Hash(leaves)
  <1>1. hs[n] = HashBody(leaves, hs, n)
    BY HashIsDefined
  <1>2. HashBody(leaves, hs, n)[i] = node_hash(hs[split(n)][i], hs[n - split(n)][i + split(n)])
    BY DEF HashBody
  <1>3. QED
    BY <1>1, <1>2, MthIsHash

-----------------------------------------------------------------------------
(* Audit paths. *)

InclBody(leaves, m, path, len) ==
    [i \in Nat |->
        IF len = 1 THEN <<>>
        ELSE IF m < i + split(len)
             THEN Append(path[split(len)][i],
                         mth_range(leaves, i + split(len), len - split(len)))
             ELSE Append(path[len - split(len)][i + split(len)],
                         mth_range(leaves, i, split(len)))]

InclRec == INSTANCE Recursion
             WITH Dom     <- LAMBDA p : Nat \ {0},
                  Measure <- LAMBDA p, len : len,
                  Body    <- LAMBDA p, path, len : InclBody(p[1], p[2], path, len)

(* The function inclusion iterates. *)
Incl(leaves, m) == CHOOSE path : path = [len \in Nat \ {0} |-> InclBody(leaves, m, path, len)]

(* inclusion is the recursive function Incl. *)
LEMMA InclusionIsIncl ==
    ASSUME NEW leaves, NEW m
    PROVE  inclusion(leaves, m) = Incl(leaves, m)[Len(leaves)][0]
  BY DEF inclusion, Incl, InclBody

(* Incl satisfies its equation: *)
LEMMA InclIsDefined ==
    ASSUME NEW leaves, NEW m
    PROVE  Incl(leaves, m) = [len \in Nat \ {0} |-> InclBody(leaves, m, Incl(leaves, m), len)]
  <1> DEFINE p == <<leaves, m>>
  <1>1. InclRec!WellFounded(p)
    <2>1. ASSUME NEW n \in Nat \ {0}, NEW g, NEW h, \A y \in Nat \ {0} : y < n => g[y] = h[y]
          PROVE  InclBody(leaves, m, g, n) = InclBody(leaves, m, h, n)
      <3>1. CASE n = 1
        BY <3>1 DEF InclBody
      <3>2. CASE n >= 2
        <4>1. split(n) \in Nat \ {0} /\ split(n) < n /\ n - split(n) \in Nat \ {0} /\ n - split(n) < n
          BY <3>2, SplitParts
        <4>2. g[split(n)] = h[split(n)] /\ g[n - split(n)] = h[n - split(n)]
          BY <2>1, <4>1
        <4>3. QED
          BY <4>2 DEF InclBody
      <3>3. QED
        BY <3>1, <3>2
    <2>2. p[1] = leaves /\ p[2] = m
      OBVIOUS
    <2>3. \A n \in Nat \ {0} : n \in Nat
      OBVIOUS
    <2> HIDE DEF p
    <2>4. QED
      BY <2>1, <2>2, <2>3, Zenon DEF InclRec!WellFounded
  <1>2. \E path : path = [len \in Nat \ {0} |-> InclBody(leaves, m, path, len)]
    BY <1>1, InclRec!Defined
  <1>3. QED
    BY <1>2, Zenon DEF Incl

(* the path of a single leaf is empty, *)
LEMMA InclLeaf ==
    ASSUME NEW leaves, NEW m, NEW i \in Nat
    PROVE  Incl(leaves, m)[1][i] = <<>>
  <1>1. Incl(leaves, m)[1] = InclBody(leaves, m, Incl(leaves, m), 1)
    BY InclIsDefined
  <1>2. InclBody(leaves, m, Incl(leaves, m), 1)[i] = <<>>
    BY DEF InclBody
  <1>3. QED
    BY <1>1, <1>2

(* and otherwise it ends with the root of the part that does not hold the   *)
(* leaf.                                                                    *)
LEMMA InclNode ==
    ASSUME NEW leaves, NEW m \in Nat, NEW i \in Nat, NEW n \in Nat, n >= 2
    PROVE  Incl(leaves, m)[n][i] =
             IF m < i + split(n)
             THEN Append(Incl(leaves, m)[split(n)][i],
                         mth_range(leaves, i + split(n), n - split(n)))
             ELSE Append(Incl(leaves, m)[n - split(n)][i + split(n)],
                         mth_range(leaves, i, split(n)))
  <1> DEFINE ps == Incl(leaves, m)
  <1>1. ps[n] = InclBody(leaves, m, ps, n)
    BY InclIsDefined
  <1> HIDE DEF ps
  <1>2. InclBody(leaves, m, ps, n)[i] =
             IF m < i + split(n)
             THEN Append(ps[split(n)][i], mth_range(leaves, i + split(n), n - split(n)))
             ELSE Append(ps[n - split(n)][i + split(n)], mth_range(leaves, i, split(n)))
    BY DEF InclBody
  <1>3. QED
    BY <1>1, <1>2 DEF ps

-----------------------------------------------------------------------------
(* The verifiers' indices. *)

Cursor(f, s) == [fn |-> f, sn |-> s]

EvenRec == INSTANCE Recursion
             WITH Dom     <- LAMBDA p : Indices,
                  Measure <- LAMBDA p, x : x.fn,
                  Body    <- LAMBDA p, skip, x :
                      IF x.fn % 2 = 0 /\ x.fn # 0 THEN skip[halve(x)] ELSE x

(* The function skip_even iterates. *)
SkipEven == CHOOSE skip : skip = [x \in Indices |->
                IF x.fn % 2 = 0 /\ x.fn # 0 THEN skip[halve(x)] ELSE x]

(* skip_even is the recursive function SkipEven. *)
LEMMA SkipEvenIs == \A x : skip_even(x) = SkipEven[x]
  BY DEF skip_even, SkipEven

(* A shift of both indices makes the first smaller unless it is zero. *)
LEMMA HalveType ==
    ASSUME NEW x \in Indices
    PROVE  /\ halve(x) \in Indices
           /\ x.fn # 0 => halve(x).fn < x.fn
           /\ x.fn \in Nat
  BY DEF Indices, halve

(* skip_even satisfies the equation of its loop. *)
LEMMA SkipEvenStep ==
    ASSUME NEW x \in Indices
    PROVE  skip_even(x) = IF x.fn % 2 = 0 /\ x.fn # 0 THEN skip_even(halve(x)) ELSE x
  <1>1. EvenRec!WellFounded(0)
    <2>1. \A y \in Indices : y.fn \in Nat
      BY HalveType
    <2>2. ASSUME NEW y \in Indices, NEW g, NEW h, \A z \in Indices : z.fn < y.fn => g[z] = h[z]
          PROVE  (IF y.fn % 2 = 0 /\ y.fn # 0 THEN g[halve(y)] ELSE y)
                   = (IF y.fn % 2 = 0 /\ y.fn # 0 THEN h[halve(y)] ELSE y)
      <3>1. y.fn # 0 => g[halve(y)] = h[halve(y)]
        BY <2>2, HalveType
      <3>2. QED
        BY <3>1
    <2>3. QED
      BY <2>1, <2>2, Zenon DEF EvenRec!WellFounded
  <1>2. \E skip : skip = [y \in Indices |->
                IF y.fn % 2 = 0 /\ y.fn # 0 THEN skip[halve(y)] ELSE y]
    BY <1>1, EvenRec!Defined
  <1> DEFINE sk == SkipEven
  <1>3. sk = [y \in Indices |-> IF y.fn % 2 = 0 /\ y.fn # 0 THEN sk[halve(y)] ELSE y]
    BY <1>2 DEF SkipEven
  <1> HIDE DEF sk
  <1>4. sk[x] = IF x.fn % 2 = 0 /\ x.fn # 0 THEN sk[halve(x)] ELSE x
    BY <1>3
  <1>5. QED
    BY <1>4, SkipEvenIs DEF sk

OddRec == INSTANCE Recursion
            WITH Dom     <- LAMBDA p : Indices,
                 Measure <- LAMBDA p, x : x.fn,
                 Body    <- LAMBDA p, skip, x : IF x.fn % 2 = 1 THEN skip[halve(x)] ELSE x

(* The function skip_odd iterates. *)
SkipOdd == CHOOSE skip : skip = [x \in Indices |-> IF x.fn % 2 = 1 THEN skip[halve(x)] ELSE x]

(* skip_odd is the recursive function SkipOdd. *)
LEMMA SkipOddIs == \A x : skip_odd(x) = SkipOdd[x]
  BY DEF skip_odd, SkipOdd

(* skip_odd satisfies the equation of its loop. *)
LEMMA SkipOddStep ==
    ASSUME NEW x \in Indices
    PROVE  skip_odd(x) = IF x.fn % 2 = 1 THEN skip_odd(halve(x)) ELSE x
  <1>1. OddRec!WellFounded(0)
    <2>1. \A y \in Indices : y.fn \in Nat
      BY HalveType
    <2>2. ASSUME NEW y \in Indices, NEW g, NEW h, \A z \in Indices : z.fn < y.fn => g[z] = h[z]
          PROVE  (IF y.fn % 2 = 1 THEN g[halve(y)] ELSE y) = (IF y.fn % 2 = 1 THEN h[halve(y)] ELSE y)
      <3>1. y.fn % 2 = 1 => g[halve(y)] = h[halve(y)]
        BY <2>2, HalveType
      <3>2. QED
        BY <3>1
    <2>3. QED
      BY <2>1, <2>2, Zenon DEF OddRec!WellFounded
  <1>2. \E skip : skip = [y \in Indices |-> IF y.fn % 2 = 1 THEN skip[halve(y)] ELSE y]
    BY <1>1, OddRec!Defined
  <1> DEFINE sk == SkipOdd
  <1>3. sk = [y \in Indices |-> IF y.fn % 2 = 1 THEN sk[halve(y)] ELSE y]
    BY <1>2 DEF SkipOdd
  <1> HIDE DEF sk
  <1>4. sk[x] = IF x.fn % 2 = 1 THEN sk[halve(x)] ELSE x
    BY <1>3
  <1>5. QED
    BY <1>4, SkipOddIs DEF sk

(* a shifted left by d bits: the first leaf below node a of level d. *)
Sh(d, a) == a * Pow(d)

(* Sh(d, a), a shifted left by d bits, is a natural number. *)
LEMMA ShType == \A d, a \in Nat : Sh(d, a) \in Nat
  <1> SUFFICES ASSUME NEW d \in Nat, NEW a \in Nat PROVE a * Pow(d) \in Nat
    BY DEF Sh
  <1> DEFINE q == Pow(d)
  <1>1. q \in Nat
    BY PowType
  <1> HIDE DEF q
  <1>2. a * q \in Nat
    BY <1>1
  <1>3. QED
    BY <1>2 DEF q

(* Shifting by nothing, and shifting zero. *)
LEMMA ShBase == \A d, a \in Nat : Sh(0, a) = a /\ Sh(d, 0) = 0
  BY PowValue, PowType DEF Sh

(* One bit more doubles. *)
LEMMA ShDouble == \A d, a \in Nat : Sh(d + 1, a) = 2 * Sh(d, a) /\ Sh(d, 2 * a) = 2 * Sh(d, a)
  <1> SUFFICES ASSUME NEW d \in Nat, NEW a \in Nat
               PROVE  a * Pow(d + 1) = 2 * (a * Pow(d)) /\ (2 * a) * Pow(d) = 2 * (a * Pow(d))
    BY DEF Sh
  <1> DEFINE q == Pow(d)
  <1>1. q \in Nat /\ Pow(d + 1) = 2 * q
    BY PowType, PowValue
  <1> HIDE DEF q
  <1>2. a * (2 * q) = 2 * (a * q) /\ (2 * a) * q = 2 * (a * q)
    BY <1>1
  <1>3. QED
    BY <1>1, <1>2 DEF q

(* The next block of 2^d starts 2^d later. *)
LEMMA ShNext == \A d, a \in Nat : Sh(d, a + 1) = Sh(d, a) + Pow(d)
  <1> SUFFICES ASSUME NEW d \in Nat, NEW a \in Nat
               PROVE  (a + 1) * Pow(d) = a * Pow(d) + Pow(d)
    BY DEF Sh
  <1> DEFINE q == Pow(d)
  <1>1. q \in Nat
    BY PowType
  <1> HIDE DEF q
  <1>2. (a + 1) * q = a * q + q
    BY <1>1
  <1>3. QED
    BY <1>2 DEF q

(* A shift in two parts. *)
LEMMA ShSplit ==
    ASSUME NEW u \in Nat, NEW a \in Nat
    PROVE  \A d \in Nat : Sh(d + 1 + u, a) = Sh(d, 2 * Sh(u, a))
  <1> DEFINE S == {d \in Nat : Sh(d + 1 + u, a) = Sh(d, 2 * Sh(u, a))}
             b == 2 * Sh(u, a)
  <1>1. b \in Nat
    BY ShType
  <1>2. 0 \in S
    <2>1. 0 + 1 + u = u + 1
      OBVIOUS
    <2>2. Sh(u + 1, a) = b
      BY ShDouble
    <2>3. Sh(0, b) = b
      BY <1>1, ShBase
    <2>4. QED
      BY <2>1, <2>2, <2>3
  <1>3. ASSUME NEW d \in Nat, d \in S PROVE d + 1 \in S
    <2>1. (d + 1) + 1 + u = (d + 1 + u) + 1 /\ d + 1 + u \in Nat
      OBVIOUS
    <2>2. Sh((d + 1 + u) + 1, a) = 2 * Sh(d + 1 + u, a)
      BY <2>1, ShDouble
    <2> HIDE DEF b
    <2>3. Sh(d + 1, b) = 2 * Sh(d, b)
      BY <1>1, ShDouble
    <2>4. QED
      BY <1>3, <2>1, <2>2, <2>3 DEF b
  <1> HIDE DEF S
  <1>4. \A d \in Nat : d \in S
    BY <1>2, <1>3, PowRec!Induction
  <1>5. QED
    BY <1>4 DEF S

(* Node a of level e has its leftmost leaf below an even node of every lower *)
(* level.                                                                   *)
LEMMA ShDown ==
    ASSUME NEW d \in Nat, NEW e \in Nat, d < e, NEW a \in Nat
    PROVE  \E u \in Nat : Sh(e, a) = Sh(d, 2 * Sh(u, a))
  <1> DEFINE u == e - d - 1
  <1>1. u \in Nat /\ d + 1 + u = e
    OBVIOUS
  <1> HIDE DEF u
  <1>2. Sh(d + 1 + u, a) = Sh(d, 2 * Sh(u, a))
    BY <1>1, ShSplit
  <1>3. QED
    BY <1>1, <1>2

(* A cursor is a pair of indices. *)
LEMMA AtType ==
    ASSUME NEW f \in Nat, NEW s \in Nat
    PROVE  /\ Cursor(f, s) \in Indices
           /\ Cursor(f, s).fn = f
           /\ Cursor(f, s).sn = s
           /\ halve(Cursor(f, s)) = Cursor(f \div 2, s \div 2)
  BY DEF Cursor, Indices, halve

(* The two loops, on a cursor. *)
LEMMA SkipAt ==
    ASSUME NEW f \in Nat, NEW s \in Nat
    PROVE  /\ skip_even(Cursor(f, s)) = IF f % 2 = 0 /\ f # 0 THEN skip_even(Cursor(f \div 2, s \div 2))
                                                          ELSE Cursor(f, s)
           /\ skip_odd(Cursor(f, s)) = IF f % 2 = 1 THEN skip_odd(Cursor(f \div 2, s \div 2)) ELSE Cursor(f, s)
  <1> DEFINE x == Cursor(f, s)
             h == Cursor(f \div 2, s \div 2)
  <1>1. x \in Indices /\ x.fn = f /\ halve(x) = h
    BY AtType
  <1> HIDE DEF x, h
  <1>2. skip_even(x) = IF x.fn % 2 = 0 /\ x.fn # 0 THEN skip_even(halve(x)) ELSE x
    BY <1>1, SkipEvenStep
  <1>3. skip_odd(x) = IF x.fn % 2 = 1 THEN skip_odd(halve(x)) ELSE x
    BY <1>1, SkipOddStep
  <1>4. QED
    BY <1>1, <1>2, <1>3 DEF x, h

(* From node a of level u, an odd one, skip_even undoes the shift. *)
LEMMA SkipEvenShift ==
    ASSUME NEW a \in Nat, a % 2 = 1
    PROVE  \A u \in Nat : skip_even(Cursor(Sh(u, a), Sh(u, a))) = Cursor(a, a)
  <1> DEFINE S == {u \in Nat : skip_even(Cursor(Sh(u, a), Sh(u, a))) = Cursor(a, a)}
  <1>1. 0 \in S
    <2>1. skip_even(Cursor(a, a)) = Cursor(a, a)
      BY SkipAt
    <2>2. QED
      BY <2>1, ShBase
  <1>2. ASSUME NEW u \in Nat, u \in S PROVE u + 1 \in S
    <2> DEFINE x == Sh(u, a)
               y == Sh(u + 1, a)
    <2>1. x \in Nat /\ y = 2 * x
      BY ShType, ShDouble
    <2>2. x # 0
      <3>1. Sh(u, (a - 1) + 1) = Sh(u, a - 1) + Pow(u) /\ Sh(u, a - 1) \in Nat /\ (a - 1) + 1 = a
        <4>1. a - 1 \in Nat /\ (a - 1) + 1 = a
          OBVIOUS
        <4>2. QED
          BY <4>1, ShNext, ShType
      <3>2. Pow(u) \in Nat \ {0}
        BY PowType
      <3>3. QED
        BY <3>1, <3>2
    <2>3. skip_even(Cursor(x, x)) = Cursor(a, a)
      BY <1>2
    <2> HIDE DEF x, y
    <2>4. y \in Nat /\ y % 2 = 0 /\ y # 0 /\ y \div 2 = x
      BY <2>1, <2>2
    <2>5. skip_even(Cursor(y, y)) = skip_even(Cursor(x, x))
      BY <2>4, SkipAt
    <2>6. QED
      BY <2>3, <2>5 DEF y
  <1> HIDE DEF S
  <1>3. \A u \in Nat : u \in S
    BY <1>1, <1>2, PowRec!Induction
  <1>4. QED
    BY <1>3 DEF S

(* From the last leaf below node a of level d, an even one, skip_odd climbs  *)
(* to that node.                                                            *)
LEMMA SkipOddShift ==
    ASSUME NEW a \in Nat, a % 2 = 0, NEW b \in Nat
    PROVE  \A d \in Nat : \A r \in Nat :
             r < Pow(d) => skip_odd(Cursor(Sh(d, a) + Pow(d) - 1, Sh(d, b) + r)) = Cursor(a, b)
  <1> DEFINE S == {d \in Nat : \A r \in Nat :
             r < Pow(d) => skip_odd(Cursor(Sh(d, a) + Pow(d) - 1, Sh(d, b) + r)) = Cursor(a, b)}
  <1>1. 0 \in S
    <2> SUFFICES ASSUME NEW r \in Nat, r < Pow(0)
                 PROVE  skip_odd(Cursor(Sh(0, a) + Pow(0) - 1, Sh(0, b) + r)) = Cursor(a, b)
      OBVIOUS
    <2>1. Sh(0, a) + Pow(0) - 1 = a /\ Sh(0, b) + r = b
      BY PowValue, ShBase
    <2>2. skip_odd(Cursor(a, b)) = Cursor(a, b)
      BY SkipAt
    <2>3. QED
      BY <2>1, <2>2
  <1>2. ASSUME NEW d \in Nat, d \in S PROVE d + 1 \in S
    <2> SUFFICES ASSUME NEW r \in Nat, r < Pow(d + 1)
                 PROVE  skip_odd(Cursor(Sh(d + 1, a) + Pow(d + 1) - 1, Sh(d + 1, b) + r)) = Cursor(a, b)
      OBVIOUS
    <2> DEFINE x == Sh(d, a)
               y == Sh(d, b)
               q == Pow(d)
               s == r \div 2
    <2>1. /\ x \in Nat /\ y \in Nat /\ q \in Nat \ {0}
          /\ Sh(d + 1, a) = 2 * x /\ Sh(d + 1, b) = 2 * y /\ Pow(d + 1) = 2 * q
      BY ShType, ShDouble, PowType, PowValue
    <2>2. \A t \in Nat : t < q => skip_odd(Cursor(x + q - 1, y + t)) = Cursor(a, b)
      BY <1>2
    <2> HIDE DEF x, y, q
    <2>3. s \in Nat /\ s < q
      BY <2>1
    <2> DEFINE f == 2 * x + 2 * q - 1
               g == 2 * y + r
    <2>4. /\ f \in Nat /\ g \in Nat /\ f % 2 = 1
          /\ f \div 2 = x + q - 1 /\ g \div 2 = y + s
      BY <2>1
    <2> HIDE DEF f, g, s
    <2>5. skip_odd(Cursor(f, g)) = skip_odd(Cursor(x + q - 1, y + s))
      BY <2>4, SkipAt
    <2>6. QED
      BY <2>1, <2>2, <2>3, <2>5 DEF f, g
  <1> HIDE DEF S
  <1>3. \A d \in Nat : d \in S
    BY <1>1, <1>2, PowRec!Induction
  <1>4. QED
    BY <1>3 DEF S

-----------------------------------------------------------------------------
(* An audit path leads verifyInclusion from its leaf to the root. *)

Climbing == INSTANCE FoldTheorems WITH op <- absorb_sibling

St(f, s, h) == [at |-> Cursor(f, s), h |-> h]

(* verifyInclusion's loop over path, from indices f, s and hash h. *)
Run(f, s, h, path) == FoldLeft(absorb_sibling, St(f, s, h), path)

(* The loop of verifyInclusion is a fold over the path: *)
LEMMA RunIsFold == \A f, s, h, path : Run(f, s, h, path) = Climbing!Fold(St(f, s, h), path)
  BY DEF Run, Climbing!Fold, FoldLeft, MapThenFoldSet, Max, Climbing!FoldLeft,
         Climbing!MapThenFoldSet, Climbing!Max

(* nothing to do for an empty path, *)
LEMMA RunEmpty == \A f, s, h : Run(f, s, h, <<>>) = St(f, s, h)
  BY RunIsFold, Climbing!FoldEmpty

(* and one more turn for one more sibling. *)
LEMMA RunAppend ==
    ASSUME NEW f, NEW s, NEW h, NEW T, NEW path \in Seq(T), NEW x \in T
    PROVE  Run(f, s, h, Append(path, x)) = absorb_sibling(Run(f, s, h, path), x)
  BY RunIsFold, Climbing!FoldAppend

(* One sibling: to the right of an even node that is not the last, to the    *)
(* left of an odd one, and to the left of the last node once the levels      *)
(* at which it has no sibling are passed.                                    *)
LEMMA AbsorbRight ==
    ASSUME NEW f \in Nat, NEW s \in Nat, NEW h, NEW x, f % 2 = 0, f # s
    PROVE  absorb_sibling(St(f, s, h), x) = St(f \div 2, s \div 2, node_hash(h, x))
  <1> DEFINE a == Cursor(f, s)
  <1>1. a.fn = f /\ a.sn = s /\ halve(a) = Cursor(f \div 2, s \div 2)
    BY AtType
  <1>2. ~joins_left(a)
    BY <1>1 DEF joins_left
  <1> HIDE DEF a
  <1>3. absorb_sibling([at |-> a, h |-> h], x) = [at |-> halve(a), h |-> node_hash(h, x)]
    BY <1>2 DEF absorb_sibling
  <1>4. QED
    BY <1>1, <1>3 DEF a, St

(* At an odd index the sibling is on the left. *)
LEMMA AbsorbLeft ==
    ASSUME NEW f \in Nat, NEW s \in Nat, NEW h, NEW x, f % 2 = 1
    PROVE  absorb_sibling(St(f, s, h), x) = St(f \div 2, s \div 2, node_hash(x, h))
  <1> DEFINE a == Cursor(f, s)
  <1>1. a.fn = f /\ a.sn = s /\ halve(a) = Cursor(f \div 2, s \div 2)
    BY AtType
  <1>2. joins_left(a)
    BY <1>1 DEF joins_left
  <1>3. skip_even(a) = a
    BY SkipAt
  <1> HIDE DEF a
  <1>4. absorb_sibling([at |-> a, h |-> h], x) = [at |-> halve(skip_even(a)), h |-> node_hash(x, h)]
    BY <1>2 DEF absorb_sibling
  <1>5. QED
    BY <1>1, <1>3, <1>4 DEF a, St

(* The two children of node a, the last node of their level lying below b. *)
LEMMA AbsorbChild ==
    ASSUME NEW a \in Nat, NEW b \in Nat, a < b,
           NEW c \in Nat, c = 2 * b \/ c = 2 * b + 1, NEW h, NEW x
    PROVE  /\ absorb_sibling(St(2 * a, c, h), x) = St(a, b, node_hash(h, x))
           /\ absorb_sibling(St(2 * a + 1, c, h), x) = St(a, b, node_hash(x, h))
  <1> DEFINE e == 2 * a
             o == 2 * a + 1
  <1>1. /\ e \in Nat /\ e % 2 = 0 /\ e # c /\ e \div 2 = a
        /\ o \in Nat /\ o % 2 = 1 /\ o \div 2 = a
        /\ c \div 2 = b
    OBVIOUS
  <1> HIDE DEF e, o
  <1>2. absorb_sibling(St(e, c, h), x) = St(e \div 2, c \div 2, node_hash(h, x))
    BY <1>1, AbsorbRight
  <1>3. absorb_sibling(St(o, c, h), x) = St(o \div 2, c \div 2, node_hash(x, h))
    BY <1>1, AbsorbLeft
  <1>4. QED
    BY <1>1, <1>2, <1>3 DEF e, o

(* On the right edge the levels without a sibling are skipped, then the     *)
(* sibling is on the left.                                                  *)
LEMMA AbsorbLast ==
    ASSUME NEW a \in Nat, a % 2 = 1, NEW u \in Nat, NEW h, NEW x
    PROVE  absorb_sibling(St(Sh(u, a), Sh(u, a), h), x) = St(a \div 2, a \div 2, node_hash(x, h))
  <1> DEFINE c == Cursor(Sh(u, a), Sh(u, a))
             y == Sh(u, a)
  <1>0. y \in Nat
    BY ShType
  <1>1. c.fn = c.sn
    <2> HIDE DEF y
    <2>1. Cursor(y, y).fn = Cursor(y, y).sn
      BY <1>0, AtType
    <2>2. QED
      BY <2>1 DEF y
  <1>2. joins_left(c)
    BY <1>1 DEF joins_left
  <1>3. skip_even(c) = Cursor(a, a)
    BY SkipEvenShift
  <1>4. halve(Cursor(a, a)) = Cursor(a \div 2, a \div 2)
    BY AtType
  <1> HIDE DEF c
  <1>5. absorb_sibling([at |-> c, h |-> h], x) = [at |-> halve(skip_even(c)), h |-> node_hash(x, h)]
    BY <1>2 DEF absorb_sibling
  <1>6. QED
    BY <1>3, <1>4, <1>5 DEF c, St

TreeNodes(leaves) == {mth_range(leaves, i, n) : i \in Nat, n \in Nat}

(* The root of every range is a node of the tree. *)
LEMMA TreeNode == \A leaves : \A i, n \in Nat : mth_range(leaves, i, n) \in TreeNodes(leaves)
  BY DEF TreeNodes

(* A power of two is split in the middle, *)
LEMMA PowSplit ==
    ASSUME NEW d \in Nat
    PROVE  /\ Pow(d) \in Nat \ {0}
           /\ Pow(d + 1) = 2 * Pow(d)
           /\ Pow(d + 1) \in Nat /\ Pow(d + 1) >= 2
           /\ split(Pow(d + 1)) = Pow(d)
           /\ Pow(d + 1) - Pow(d) = Pow(d)
  <1> DEFINE k == Pow(d)
             n == Pow(d + 1)
  <1>1. k \in Nat \ {0} /\ n = 2 * k
    BY PowType, PowValue
  <1> HIDE DEF k, n
  <1>2. n \in Nat /\ n >= 2 /\ n - k = k /\ k < n /\ n <= 2 * k
    BY <1>1
  <1>3. split(n) = k
    BY <1>1, <1>2, SplitIs DEF k
  <1>4. QED
    BY <1>1, <1>2, <1>3 DEF k, n

(* for its root, *)
LEMMA MthDouble ==
    ASSUME NEW leaves, NEW i \in Nat, NEW d \in Nat
    PROVE  mth_range(leaves, i, Pow(d + 1)) =
             node_hash(mth_range(leaves, i, Pow(d)), mth_range(leaves, i + Pow(d), Pow(d)))
  <1> DEFINE k == Pow(d)
             n == Pow(d + 1)
  <1>1. n \in Nat /\ n >= 2 /\ split(n) = k /\ n - k = k
    BY PowSplit
  <1> HIDE DEF k, n
  <1>2. mth_range(leaves, i, n) =
          node_hash(mth_range(leaves, i, split(n)), mth_range(leaves, i + split(n), n - split(n)))
    BY <1>1, MthNode
  <1>3. mth_range(leaves, i, n) = node_hash(mth_range(leaves, i, k), mth_range(leaves, i + k, k))
    BY <1>1, <1>2
  <1>4. QED
    BY <1>3 DEF k, n

(* and for its paths. *)
LEMMA InclDouble ==
    ASSUME NEW leaves, NEW m \in Nat, NEW i \in Nat, NEW d \in Nat
    PROVE  Incl(leaves, m)[Pow(d + 1)][i] =
             IF m < i + Pow(d)
             THEN Append(Incl(leaves, m)[Pow(d)][i], mth_range(leaves, i + Pow(d), Pow(d)))
             ELSE Append(Incl(leaves, m)[Pow(d)][i + Pow(d)], mth_range(leaves, i, Pow(d)))
  <1> DEFINE k == Pow(d)
             n == Pow(d + 1)
             path == Incl(leaves, m)
  <1>1. n \in Nat /\ n >= 2 /\ split(n) = k /\ n - k = k
    BY PowSplit
  <1>2. n \in Nat /\ n >= 2 => path[n][i] =
             IF m < i + split(n)
             THEN Append(path[split(n)][i], mth_range(leaves, i + split(n), n - split(n)))
             ELSE Append(path[n - split(n)][i + split(n)], mth_range(leaves, i, split(n)))
    BY InclNode
  <1> HIDE DEF k, n, path
  <1>3. path[n][i] = IF m < i + k THEN Append(path[k][i], mth_range(leaves, i + k, k))
                                  ELSE Append(path[k][i + k], mth_range(leaves, i, k))
    BY <1>1, <1>2
  <1>4. QED
    BY <1>3 DEF k, n, path

(* The two halves of a complete subtree. *)
LEMMA ShChildren ==
    ASSUME NEW d \in Nat, NEW a \in Nat
    PROVE  /\ Sh(d + 1, a) = Sh(d, 2 * a)
           /\ Sh(d, 2 * a + 1) = Sh(d, 2 * a) + Pow(d)
           /\ Sh(d, 2 * a) \in Nat
  <1>1. 2 * a \in Nat
    OBVIOUS
  <1>2. QED
    BY <1>1, ShDouble, ShNext, ShType

(* Leaf r of node b of level d + 1 is leaf t of its child c. *)
IsChild(d, b, r, c, t) ==
    /\ Sh(d + 1, b) + r = Sh(d, c) + t
    /\ t < Pow(d)
    /\ c = 2 * b \/ c = 2 * b + 1

(* Every leaf is in one of the two. *)
LEMMA ChildOf ==
    ASSUME NEW d \in Nat, NEW b \in Nat, NEW r \in Nat, r < Pow(d + 1)
    PROVE  \E c, t \in Nat : IsChild(d, b, r, c, t)
  <1> DEFINE k == Pow(d)
             x == Sh(d, 2 * b)
  <1>1. k \in Nat \ {0} /\ Pow(d + 1) = 2 * k
    BY PowSplit
  <1>2. Sh(d + 1, b) = x /\ Sh(d, 2 * b + 1) = x + k /\ x \in Nat
    BY ShChildren
  <1> HIDE DEF k, x
  <1>3. CASE r < k
    <2>1. Sh(d, 2 * b) + r = x + r
      BY DEF x
    <2>2. IsChild(d, b, r, 2 * b, r)
      BY <1>2, <1>3, <2>1 DEF k, IsChild
    <2>3. 2 * b \in Nat
      OBVIOUS
    <2>4. QED
      BY <2>2, <2>3
  <1>4. CASE ~(r < k)
    <2> DEFINE t == r - k
               c == 2 * b + 1
    <2>1. t \in Nat /\ t < k /\ x + r = (x + k) + t /\ c \in Nat
      BY <1>1, <1>2, <1>4
    <2>2. Sh(d + 1, b) + r = Sh(d, c) + t
      BY <1>2, <2>1
    <2> HIDE DEF t
    <2>3. IsChild(d, b, r, c, t)
      BY <2>1, <2>2 DEF k, IsChild
    <2> HIDE DEF c
    <2>4. QED
      BY <2>1, <2>3
  <1>5. QED
    BY <1>3, <1>4

(* Through a complete subtree that is not the last of its level. *)
CompleteClimb(leaves, m, d, a, b, i, j, r) ==
    /\ Incl(leaves, m)[Pow(d)][i] \in Seq(TreeNodes(leaves))
    /\ Run(Sh(d, a) + j, Sh(d, b) + r, leaves[m + 1], Incl(leaves, m)[Pow(d)][i])
         = St(a, b, mth_range(leaves, i, Pow(d)))

(* The honest path through a complete subtree climbs to its root, from every *)
(* leaf in it.                                                              *)
LEMMA CompleteClimbs ==
    ASSUME NEW leaves, NEW m \in Nat
    PROVE  \A d \in Nat : \A a, b, i, j, r \in Nat :
             a < b /\ j < Pow(d) /\ r < Pow(d) /\ m = i + j
                => CompleteClimb(leaves, m, d, a, b, i, j, r)
  <1> DEFINE S == {d \in Nat : \A a, b, i, j, r \in Nat :
             a < b /\ j < Pow(d) /\ r < Pow(d) /\ m = i + j
                => CompleteClimb(leaves, m, d, a, b, i, j, r)}
             leaf == leaves[m + 1]
             T == TreeNodes(leaves)
  <1>1. 0 \in S
    <2> SUFFICES ASSUME NEW a \in Nat, NEW b \in Nat, NEW i \in Nat, NEW j \in Nat, NEW r \in Nat,
                        a < b, j < Pow(0), r < Pow(0), m = i + j
                 PROVE  CompleteClimb(leaves, m, 0, a, b, i, j, r)
      OBVIOUS
    <2>1. Pow(0) = 1 /\ Sh(0, a) + j = a /\ Sh(0, b) + r = b /\ m = i
      BY PowValue, ShBase
    <2>2. Incl(leaves, m)[1][i] = <<>>
      BY InclLeaf
    <2>3. mth_range(leaves, i, 1) = leaf
      BY <2>1, MthLeaf
    <2>4. Run(a, b, leaf, <<>>) = St(a, b, leaf)
      BY RunEmpty
    <2>5. <<>> \in Seq(T)
      OBVIOUS
    <2> HIDE DEF leaf, T
    <2>6. Run(Sh(0, a) + j, Sh(0, b) + r, leaf, Incl(leaves, m)[Pow(0)][i])
            = St(a, b, mth_range(leaves, i, Pow(0)))
      BY <2>1, <2>2, <2>3, <2>4
    <2>7. Incl(leaves, m)[Pow(0)][i] \in Seq(T)
      BY <2>1, <2>2, <2>5
    <2>8. QED
      BY <2>6, <2>7 DEF CompleteClimb, leaf, T
  <1>2. ASSUME NEW d \in Nat, d \in S PROVE d + 1 \in S
    <2> SUFFICES ASSUME NEW a \in Nat, NEW b \in Nat, NEW i \in Nat, NEW j \in Nat, NEW r \in Nat,
                        a < b, j < Pow(d + 1), r < Pow(d + 1), m = i + j
                 PROVE  CompleteClimb(leaves, m, d + 1, a, b, i, j, r)
      OBVIOUS
    <2> DEFINE k == Pow(d)
               n == Pow(d + 1)
               fn == Sh(d + 1, a) + j
               sn == Sh(d + 1, b) + r
               path == Incl(leaves, m)
               lo == mth_range(leaves, i, k)
               hi == mth_range(leaves, i + k, k)
    <2>1. k \in Nat \ {0} /\ n = 2 * k
      BY PowSplit
    <2>2. PICK c \in Nat, t \in Nat : sn = Sh(d, c) + t /\ t < k /\ (c = 2 * b \/ c = 2 * b + 1)
      <3> HIDE DEF S
      <3>1. \E c, t \in Nat : IsChild(d, b, r, c, t)
        BY ChildOf
      <3>2. QED
        BY <3>1 DEF IsChild
    <2>5. Sh(d + 1, a) = Sh(d, 2 * a) /\ Sh(d, 2 * a + 1) = Sh(d, 2 * a) + k /\ Sh(d, 2 * a) \in Nat
      BY ShChildren
    <2>7. mth_range(leaves, i, n) = node_hash(lo, hi)
      BY MthDouble
    <2>8. path[n][i] = IF m < i + k THEN Append(path[k][i], hi) ELSE Append(path[k][i + k], lo)
      BY InclDouble
    <2> HIDE DEF k, n, fn, sn, path
    <2>6. lo \in T /\ hi \in T
      BY <2>1, TreeNode
    <2> HIDE DEF lo, hi, T, leaf
    <2>9. CASE j < k
      <3>1. CompleteClimb(leaves, m, d, 2 * a, c, i, j, t)
        <4>1. 2 * a \in Nat /\ 2 * a < c
          BY <2>2
        <4>2. QED
          BY <1>2, <2>2, <2>9, <4>1 DEF k
      <3>2. path[k][i] \in Seq(T) /\ Run(fn, sn, leaf, path[k][i]) = St(2 * a, c, lo)
        BY <3>1, <2>2, <2>5 DEF CompleteClimb, k, path, T, leaf, lo, fn, sn
      <3>0. m < i + k
        BY <2>1, <2>9
      <3>3. path[n][i] = Append(path[k][i], hi)
        BY <2>8, <3>0, Zenon
      <3>4. Run(fn, sn, leaf, path[n][i]) = absorb_sibling(St(2 * a, c, lo), hi)
        BY <3>2, <3>3, <2>6, RunAppend
      <3>5. absorb_sibling(St(2 * a, c, lo), hi) = St(a, b, node_hash(lo, hi))
        BY <2>2, AbsorbChild
      <3>6. path[n][i] \in Seq(T)
        BY <3>2, <3>3, <2>6
      <3>7. QED
        BY <3>4, <3>5, <3>6, <2>7 DEF CompleteClimb, n, path, T, leaf, fn, sn
    <2>10. CASE ~(j < k)
      <3>0. j - k \in Nat /\ j - k < k /\ i + k \in Nat /\ m = (i + k) + (j - k) /\ ~(m < i + k)
        BY <2>1, <2>10 DEF n
      <3>1. CompleteClimb(leaves, m, d, 2 * a + 1, c, i + k, j - k, t)
        <4>1. 2 * a + 1 \in Nat /\ 2 * a + 1 < c
          BY <2>2
        <4>2. QED
          BY <1>2, <2>2, <3>0, <4>1 DEF k
      <3>a. fn = Sh(d, 2 * a + 1) + (j - k)
        BY <2>1, <2>5 DEF fn
      <3>2. path[k][i + k] \in Seq(T) /\ Run(fn, sn, leaf, path[k][i + k]) = St(2 * a + 1, c, hi)
        BY <3>1, <3>a, <2>2 DEF CompleteClimb, k, path, T, leaf, hi
      <3>3. path[n][i] = Append(path[k][i + k], lo)
        BY <3>0, <2>8
      <3>4. Run(fn, sn, leaf, path[n][i]) = absorb_sibling(St(2 * a + 1, c, hi), lo)
        BY <3>2, <3>3, <2>6, RunAppend
      <3>5. absorb_sibling(St(2 * a + 1, c, hi), lo) = St(a, b, node_hash(lo, hi))
        BY <2>2, AbsorbChild
      <3>6. path[n][i] \in Seq(T)
        BY <3>2, <3>3, <2>6
      <3>7. QED
        BY <3>4, <3>5, <3>6, <2>7 DEF CompleteClimb, n, path, T, leaf, fn, sn
    <2>11. QED
      BY <2>9, <2>10
  <1> HIDE DEF S
  <1>3. \A d \in Nat : d \in S
    BY <1>1, <1>2, PowRec!Induction
  <1>4. QED
    BY <1>3 DEF S

(* Through the last subtree of a level, which need not be complete. *)
LastClimb(leaves, m, n, e, a, i, j) ==
    /\ Incl(leaves, m)[n][i] \in Seq(TreeNodes(leaves))
    /\ \E u \in Nat : Run(Sh(e, a) + j, Sh(e, a) + (n - 1), leaves[m + 1], Incl(leaves, m)[n][i])
                        = St(Sh(u, a), Sh(u, a), mth_range(leaves, i, n))

(* Where the two parts of the last subtree lie: the left one is node 2 * c   *)
(* of level d and complete, the right one is the last node of that level.    *)
Parts(n, e, a, d, u) ==
    LET c == Sh(u, a) IN
    /\ split(n) = Pow(d) /\ Pow(d) \in Nat \ {0}
    /\ Pow(d) < n /\ n <= 2 * Pow(d)
    /\ c \in Nat
    /\ Sh(e, a) = Sh(d, 2 * c)
    /\ Sh(d, 2 * c + 1) = Sh(d, 2 * c) + Pow(d)
    /\ Sh(d, 2 * c) \in Nat

(* The last subtree of an unbalanced tree has a complete left part and a    *)
(* smaller last subtree as its right part.                                  *)
LEMMA LastParts ==
    ASSUME NEW n \in Nat, n >= 2, NEW e \in Nat, n <= Pow(e), NEW a \in Nat
    PROVE  \E d, u \in Nat : Parts(n, e, a, d, u)
  <1>1. PICK d \in Nat : split(n) = Pow(d) /\ Pow(d) < n /\ n <= 2 * Pow(d)
    BY SplitBelow
  <1>2. Pow(d) \in Nat \ {0} /\ Pow(e) \in Nat
    BY PowType
  <1>3. d < e
    <2>1. e < d => 2 * Pow(e) <= Pow(d)
      BY PowOrder
    <2>2. e = d => Pow(e) = Pow(d)
      OBVIOUS
    <2>3. QED
      BY <1>1, <1>2, <2>1, <2>2
  <1>4. PICK u \in Nat : Sh(e, a) = Sh(d, 2 * Sh(u, a))
    BY <1>3, ShDown
  <1> DEFINE c == Sh(u, a)
  <1>5. c \in Nat
    BY ShType
  <1> HIDE DEF c
  <1>6. Sh(d, 2 * c + 1) = Sh(d, 2 * c) + Pow(d) /\ Sh(d, 2 * c) \in Nat
    BY <1>5, ShChildren
  <1>7. QED
    BY <1>1, <1>2, <1>4, <1>5, <1>6 DEF c, Parts

(* The honest path through the last subtree climbs to its root, from every  *)
(* leaf in it.                                                              *)
LEMMA LastClimbs ==
    ASSUME NEW leaves, NEW m \in Nat
    PROVE  \A n \in Nat : \A e, a, i, j \in Nat :
             n <= Pow(e) /\ j < n /\ m = i + j => LastClimb(leaves, m, n, e, a, i, j)
  <1> DEFINE S == {n \in Nat : \A e, a, i, j \in Nat :
             n <= Pow(e) /\ j < n /\ m = i + j => LastClimb(leaves, m, n, e, a, i, j)}
             leaf == leaves[m + 1]
             T == TreeNodes(leaves)
             path == Incl(leaves, m)
  <1>1. ASSUME NEW n \in Nat, \A q \in Nat : q < n => q \in S PROVE n \in S
    <2> SUFFICES ASSUME NEW e \in Nat, NEW a \in Nat, NEW i \in Nat, NEW j \in Nat,
                        n <= Pow(e), j < n, m = i + j
                 PROVE  LastClimb(leaves, m, n, e, a, i, j)
      OBVIOUS
    <2> DEFINE fn == Sh(e, a) + j
               sn == Sh(e, a) + (n - 1)
    <2>0. \A q \in Nat : q < n => \A x, y, z, w \in Nat :
             q <= Pow(x) /\ w < q /\ m = z + w => LastClimb(leaves, m, q, x, y, z, w)
      BY <1>1
    <2> HIDE DEF S
    <2>1. CASE n = 1
      <3>1. path[n][i] = <<>>
        BY <2>1, InclLeaf
      <3>2. mth_range(leaves, i, n) = leaf
        BY <2>1, MthLeaf
      <3>3. fn = Sh(e, a) /\ sn = Sh(e, a)
        <4> DEFINE y == Sh(e, a)
        <4>1. y \in Nat
          BY ShType
        <4> HIDE DEF y
        <4>2. y + j = y /\ y + (n - 1) = y
          BY <2>1, <4>1
        <4>3. QED
          BY <4>2 DEF y
      <3>4. Run(fn, sn, leaf, <<>>) = St(fn, sn, leaf)
        BY RunEmpty
      <3>5. <<>> \in Seq(T)
        OBVIOUS
      <3> HIDE DEF fn, sn, leaf, T, path
      <3>6. Run(fn, sn, leaf, path[n][i]) = St(Sh(e, a), Sh(e, a), mth_range(leaves, i, n))
        BY <3>1, <3>2, <3>3, <3>4
      <3>7. path[n][i] \in Seq(T)
        BY <3>1, <3>5
      <3>8. QED
        BY <3>6, <3>7 DEF LastClimb, fn, sn, leaf, T, path
    <2>2. CASE n >= 2
      <3>1. PICK d, u \in Nat : Parts(n, e, a, d, u)
        BY <2>2, LastParts
      <3> DEFINE c == Sh(u, a)
                 k == Pow(d)
                 x == Sh(d, 2 * c)
                 lo == mth_range(leaves, i, k)
                 hi == mth_range(leaves, i + k, n - k)
      <3>2. /\ split(n) = k /\ k \in Nat \ {0} /\ k < n /\ n <= 2 * k
            /\ c \in Nat /\ Sh(e, a) = x /\ Sh(d, 2 * c + 1) = x + k /\ x \in Nat
        BY <3>1 DEF Parts
      <3>3. mth_range(leaves, i, n) = node_hash(lo, hi)
        <4>1. mth_range(leaves, i, n) =
                node_hash(mth_range(leaves, i, split(n)),
                          mth_range(leaves, i + split(n), n - split(n)))
          BY <2>2, MthNode
        <4> HIDE DEF k
        <4>2. QED
          BY <3>2, <4>1
      <3>4. path[n][i] = IF m < i + k THEN Append(path[k][i], hi) ELSE Append(path[n - k][i + k], lo)
        <4>1. path[n][i] =
             IF m < i + split(n)
             THEN Append(path[split(n)][i], mth_range(leaves, i + split(n), n - split(n)))
             ELSE Append(path[n - split(n)][i + split(n)], mth_range(leaves, i, split(n)))
          BY <2>2, InclNode
        <4> HIDE DEF k, path
        <4>2. QED
          BY <3>2, <4>1
      <3> HIDE DEF k, c, x, fn, sn, path
      <3>5. lo \in T /\ hi \in T
        <4>1. i + k \in Nat /\ n - k \in Nat
          BY <3>2
        <4>2. QED
          BY <3>2, <4>1, TreeNode
      <3> HIDE DEF lo, hi, T, leaf
      <3>6. CASE j < k
        <4> DEFINE t == n - 1 - k
                   b == 2 * c
        <4>1. t \in Nat /\ t < k /\ b \in Nat /\ b + 1 \in Nat /\ b < b + 1 /\ sn = (x + k) + t /\ fn = x + j
          BY <3>2 DEF fn, sn
        <4> HIDE DEF t
        <4>2. CompleteClimb(leaves, m, d, b, b + 1, i, j, t)
          BY <4>1, <3>6, CompleteClimbs DEF k
        <4>3. path[k][i] \in Seq(T) /\ Run(x + j, Sh(d, b + 1) + t, leaf, path[k][i]) = St(b, b + 1, lo)
          BY <4>2 DEF CompleteClimb, path, T, leaf, lo, k, x
        <4>4. Sh(d, b + 1) = x + k
          BY <3>2
        <4>5. Run(fn, sn, leaf, path[k][i]) = St(b, b + 1, lo)
          BY <4>1, <4>3, <4>4
        <4>6. path[n][i] = Append(path[k][i], hi)
          BY <3>4, <3>6, <3>2
        <4>7. Run(fn, sn, leaf, path[n][i]) = absorb_sibling(St(b, b + 1, lo), hi)
          BY <4>3, <4>5, <4>6, <3>5, RunAppend
        <4>8. absorb_sibling(St(b, b + 1, lo), hi) = St(c, c, node_hash(lo, hi))
          <5>1. b \in Nat /\ b + 1 \in Nat /\ b % 2 = 0 /\ b # b + 1 /\ b \div 2 = c /\ (b + 1) \div 2 = c
            BY <3>2
          <5> HIDE DEF b
          <5> DEFINE o == b + 1
          <5>2. o \in Nat /\ b # o /\ o \div 2 = c
            BY <5>1
          <5> HIDE DEF o
          <5>3. absorb_sibling(St(b, o, lo), hi) = St(b \div 2, o \div 2, node_hash(lo, hi))
            BY <5>1, <5>2, AbsorbRight
          <5>4. QED
            BY <5>1, <5>2, <5>3 DEF o
        <4>9. path[n][i] \in Seq(T)
          BY <4>3, <4>6, <3>5
        <4>10. Run(fn, sn, leaf, path[n][i]) = St(Sh(u, a), Sh(u, a), mth_range(leaves, i, n))
          BY <4>7, <4>8, <3>3 DEF c
        <4>11. QED
          BY <4>9, <4>10 DEF LastClimb, path, T, leaf, fn, sn
      <3>7. CASE ~(j < k)
        <4> DEFINE q == n - k
                   t == j - k
                   s == i + k
                   b == 2 * c + 1
        <4>1. /\ q \in Nat /\ q < n /\ q <= k /\ t \in Nat /\ t < q /\ s \in Nat /\ m = s + t
              /\ b \in Nat /\ b % 2 = 1 /\ b \div 2 = c
              /\ fn = (x + k) + t /\ sn = (x + k) + (q - 1)
          BY <3>2, <3>7 DEF fn, sn
        <4>2. Sh(d, b) = x + k
          BY <3>2
        <4> HIDE DEF q, t, s, b
        <4>3. LastClimb(leaves, m, q, d, b, s, t)
          BY <4>1, <2>0 DEF k
        <4>4. PICK v \in Nat : Run(Sh(d, b) + t, Sh(d, b) + (q - 1), leaf, path[q][s])
                                 = St(Sh(v, b), Sh(v, b), mth_range(leaves, s, q))
          BY <4>3 DEF LastClimb, leaf, path
        <4>5. path[q][s] \in Seq(T)
          BY <4>3 DEF LastClimb, path, T
        <4>6. Run(fn, sn, leaf, path[q][s]) = St(Sh(v, b), Sh(v, b), hi)
          BY <4>1, <4>2, <4>4 DEF hi, q, s
        <4>0. ~(m < i + k)
          BY <3>7, <3>2
        <4>7. path[n][i] = Append(path[q][s], lo)
          BY <3>4, <4>0, Zenon DEF q, s
        <4>8. Run(fn, sn, leaf, path[n][i]) = absorb_sibling(St(Sh(v, b), Sh(v, b), hi), lo)
          BY <4>5, <4>6, <4>7, <3>5, RunAppend
        <4>9. absorb_sibling(St(Sh(v, b), Sh(v, b), hi), lo) = St(b \div 2, b \div 2, node_hash(lo, hi))
          BY <4>1, AbsorbLast
        <4>10. path[n][i] \in Seq(T)
          BY <4>5, <4>7, <3>5
        <4>11. Run(fn, sn, leaf, path[n][i]) = St(Sh(u, a), Sh(u, a), mth_range(leaves, i, n))
          BY <4>1, <4>8, <4>9, <3>3 DEF c
        <4>12. QED
          BY <4>10, <4>11 DEF LastClimb, path, T, leaf, fn, sn
      <3>8. QED
        BY <3>6, <3>7
    <2>3. QED
      BY <2>1, <2>2
  <1> HIDE DEF S
  <1>2. \A n \in Nat : n \in S
    BY <1>1, PowRec!StrongInduction
  <1>3. QED
    BY <1>2 DEF S

(* Every size is below some power of two. *)
LEMMA CoveringPower == \A n \in Nat : \E e \in Nat : n <= Pow(e)
  <1> SUFFICES ASSUME NEW n \in Nat PROVE \E e \in Nat : n <= Pow(e)
    OBVIOUS
  <1>1. CASE n < 2
    BY <1>1, PowValue
  <1>2. CASE n >= 2
    <2>1. PICK d \in Nat : n <= 2 * Pow(d)
      BY <1>2, SplitBelow
    <2>2. n <= Pow(d + 1)
      BY <2>1, PowValue
    <2>3. QED
      BY <2>2
  <1>3. QED
    BY <1>1, <1>2

(* TransparencyLog::inclusion_path and verifyInclusion agree on every index  *)
(* of a log of any size, complete tree or not: the path of entry i leads     *)
(* from its leaf to the root.                                                *)
THEOREM InclusionVerifies ==
    ASSUME NEW T, NEW leaves \in Seq(T), NEW i \in Nat, i < Len(leaves)
    PROVE  verifyInclusion(leaves[i + 1], i, Len(leaves), inclusion(leaves, i), mth(leaves))
  <1> DEFINE n == Len(leaves)
             path == inclusion(leaves, i)
  <1>1. n \in Nat
    OBVIOUS
  <1>2. PICK e \in Nat : n <= Pow(e)
    BY <1>1, CoveringPower
  <1>3. LastClimb(leaves, i, n, e, 0, 0, i)
    <2>1. \A q \in Nat : \A x, y, z, w \in Nat :
             q <= Pow(x) /\ w < q /\ i = z + w => LastClimb(leaves, i, q, x, y, z, w)
      BY LastClimbs
    <2>2. QED
      BY <1>1, <1>2, <2>1
  <1>4. path = Incl(leaves, i)[n][0]
    BY InclusionIsIncl
  <1>5. \A d \in Nat : Sh(d, 0) = 0
    BY ShBase
  <1> HIDE DEF n, path
  <1>6. Sh(e, 0) + i = i /\ Sh(e, 0) + (n - 1) = n - 1
    BY <1>1, <1>5
  <1>7. Run(i, n - 1, leaves[i + 1], path) = St(0, 0, mth_range(leaves, 0, n))
    BY <1>3, <1>4, <1>5, <1>6 DEF LastClimb
  <1> DEFINE end == climb(leaves[i + 1], i, n, path)
  <1>8. end = St(0, 0, mth_range(leaves, 0, n))
    BY <1>7 DEF climb, Run, St, Cursor
  <1>9. end.h = mth_range(leaves, 0, n) /\ end.at.sn = 0
    BY <1>8 DEF St, Cursor
  <1> HIDE DEF end
  <1>10. verifyInclusion(leaves[i + 1], i, n, path, mth_range(leaves, 0, n))
    <2>1. i < n
      BY DEF n
    <2>2. QED
      BY <1>9, <2>1 DEF verifyInclusion, end
  <1>11. QED
    BY <1>10 DEF n, path, mth

(* A path is a sequence of nodes of the tree, *)
LEMMA InclIsSeq ==
    ASSUME NEW leaves, NEW m \in Nat, NEW n \in Nat, NEW i \in Nat, i <= m, m < i + n
    PROVE  Incl(leaves, m)[n][i] \in Seq(TreeNodes(leaves))
  <1> DEFINE j == m - i
  <1>1. j \in Nat /\ j < n /\ m = i + j
    OBVIOUS
  <1>2. PICK e \in Nat : n <= Pow(e)
    BY CoveringPower
  <1> HIDE DEF j
  <1>3. LastClimb(leaves, m, n, e, 0, i, j)
    <2>1. \A q \in Nat : \A x, y, z, w \in Nat :
             q <= Pow(x) /\ w < q /\ m = z + w => LastClimb(leaves, m, q, x, y, z, w)
      BY LastClimbs
    <2>2. QED
      BY <1>1, <1>2, <2>1
  <1>4. QED
    BY <1>3 DEF LastClimb

(* also the whole one. *)
LEMMA InclusionIsSeq ==
    ASSUME NEW T, NEW leaves \in Seq(T), NEW i \in Nat, i < Len(leaves)
    PROVE  inclusion(leaves, i) \in Seq(TreeNodes(leaves))
  <1>1. Len(leaves) \in Nat /\ 0 <= i /\ i < 0 + Len(leaves)
    OBVIOUS
  <1>2. QED
    BY <1>1, InclIsSeq, InclusionIsIncl

(* A tree hash depends on the leaves of its range only. *)
LEMMA MthAgree ==
    ASSUME NEW some, NEW other
    PROVE  \A n \in Nat \ {0} : \A i \in Nat :
             (\A x \in Nat : i < x /\ x <= i + n => some[x] = other[x])
                => mth_range(some, i, n) = mth_range(other, i, n)
  <1> DEFINE Same(i, n) == \A x \in Nat : i < x /\ x <= i + n => some[x] = other[x]
             S == {n \in Nat : n # 0 => \A i \in Nat :
                     Same(i, n) => mth_range(some, i, n) = mth_range(other, i, n)}
  <1>1. ASSUME NEW n \in Nat, \A q \in Nat : q < n => q \in S PROVE n \in S
    <2> SUFFICES ASSUME n # 0, NEW i \in Nat, Same(i, n)
                 PROVE  mth_range(some, i, n) = mth_range(other, i, n)
      OBVIOUS
    <2>0. \A q \in Nat : q < n /\ q # 0 => \A z \in Nat :
             Same(z, q) => mth_range(some, z, q) = mth_range(other, z, q)
      BY <1>1
    <2>1. CASE n = 1
      <3>1. mth_range(some, i, n) = some[i + 1] /\ mth_range(other, i, n) = other[i + 1]
        BY <2>1, MthLeaf
      <3>2. i + 1 \in Nat /\ i < i + 1 /\ i + 1 <= i + n
        BY <2>1
      <3>3. QED
        BY <3>1, <3>2
    <2>2. CASE n >= 2
      <3> DEFINE k == split(n)
                 q == n - k
                 z == i + k
      <3>1. k \in Nat /\ k # 0 /\ k < n /\ q \in Nat /\ q # 0 /\ q < n
        BY <2>2, SplitParts
      <3>2. mth_range(some, i, n) = node_hash(mth_range(some, i, k), mth_range(some, z, q))
        BY <2>2, MthNode
      <3>3. mth_range(other, i, n) = node_hash(mth_range(other, i, k), mth_range(other, z, q))
        BY <2>2, MthNode
      <3> HIDE DEF k
      <3>4. Same(i, k) /\ Same(z, q) /\ z \in Nat
        BY <3>1
      <3> HIDE DEF q, z, Same
      <3>5. mth_range(some, i, k) = mth_range(other, i, k)
        BY <2>0, <3>1, <3>4
      <3>6. mth_range(some, z, q) = mth_range(other, z, q)
        BY <2>0, <3>1, <3>4
      <3>7. QED
        BY <3>2, <3>3, <3>5, <3>6
    <2>3. QED
      BY <2>1, <2>2
  <1> HIDE DEF S
  <1>2. \A n \in Nat : n \in S
    BY <1>1, PowRec!StrongInduction
  <1>3. QED
    BY <1>2 DEF S

(* The root of no leaves. *)
LEMMA MthEmpty == \A leaves : mth_range(leaves, 0, 0) = EmptyHash
  <1> SUFFICES ASSUME NEW leaves PROVE mth_range(leaves, 0, 0) = EmptyHash
    OBVIOUS
  <1>1. Hash(leaves)[0] = HashBody(leaves, Hash(leaves), 0)
    BY HashIsDefined
  <1>2. HashBody(leaves, Hash(leaves), 0)[0] = EmptyHash
    BY DEF HashBody
  <1>3. QED
    BY <1>1, <1>2, MthIsHash

(* The head of the log at an earlier size is the hash of that prefix. *)
LEMMA MthPrefix ==
    ASSUME NEW T, NEW leaves \in Seq(T), NEW old \in Seq(T), Len(old) <= Len(leaves),
           \A x \in 1..Len(old) : old[x] = leaves[x]
    PROVE  mth(old) = mth_range(leaves, 0, Len(old))
  <1> DEFINE n == Len(old)
  <1>1. n \in Nat
    OBVIOUS
  <1>2. \A x \in Nat : 0 < x /\ x <= 0 + n => old[x] = leaves[x]
    OBVIOUS
  <1>3. mth(old) = mth_range(old, 0, n)
    BY DEF mth
  <1> HIDE DEF n
  <1>4. CASE n = 0
    BY <1>3, <1>4, MthEmpty DEF n
  <1>5. CASE n # 0
    <2>1. mth_range(old, 0, n) = mth_range(leaves, 0, n)
      BY <1>1, <1>2, <1>5, MthAgree
    <2>2. QED
      BY <2>1, <1>3 DEF n
  <1>6. QED
    BY <1>4, <1>5

-----------------------------------------------------------------------------
(* Consistency paths. *)

SubBody(leaves, m, path, len) ==
    [i \in 0..(m - 1) |->
        IF m >= i + len
        THEN IF i = 0 THEN <<>> ELSE <<mth_range(leaves, i, len)>>
        ELSE IF m <= i + split(len)
             THEN Append(path[split(len)][i],
                         mth_range(leaves, i + split(len), len - split(len)))
             ELSE Append(path[len - split(len)][i + split(len)],
                         mth_range(leaves, i, split(len)))]

SubRec == INSTANCE Recursion
            WITH Dom     <- LAMBDA p : Nat \ {0},
                 Measure <- LAMBDA p, len : len,
                 Body    <- LAMBDA p, path, len : SubBody(p[1], p[2], path, len)

(* The function subproof iterates. *)
Sub(leaves, m) == CHOOSE path : path = [len \in Nat \ {0} |-> SubBody(leaves, m, path, len)]

(* subproof is the recursive function Sub. *)
LEMMA SubproofIsSub ==
    ASSUME NEW leaves, NEW m
    PROVE  subproof(m, leaves) = Sub(leaves, m)[Len(leaves)][0]
  BY DEF subproof, Sub, SubBody

(* Sub satisfies its equation: *)
LEMMA SubIsDefined ==
    ASSUME NEW leaves, NEW m \in Nat
    PROVE  Sub(leaves, m) = [len \in Nat \ {0} |-> SubBody(leaves, m, Sub(leaves, m), len)]
  <1> DEFINE p == <<leaves, m>>
  <1>1. SubRec!WellFounded(p)
    <2>1. ASSUME NEW n \in Nat \ {0}, NEW g, NEW h, \A y \in Nat \ {0} : y < n => g[y] = h[y]
          PROVE  SubBody(leaves, m, g, n) = SubBody(leaves, m, h, n)
      <3>1. CASE n = 1
        <4>1. \A i \in 0..(m - 1) : m >= i + n
          BY <3>1
        <4>2. QED
          BY <4>1 DEF SubBody
      <3>2. CASE n >= 2
        <4>1. split(n) \in Nat \ {0} /\ split(n) < n /\ n - split(n) \in Nat \ {0} /\ n - split(n) < n
          BY <3>2, SplitParts
        <4>2. g[split(n)] = h[split(n)] /\ g[n - split(n)] = h[n - split(n)]
          BY <2>1, <4>1
        <4>3. QED
          BY <4>2 DEF SubBody
      <3>3. QED
        BY <3>1, <3>2
    <2>2. p[1] = leaves /\ p[2] = m
      OBVIOUS
    <2>3. \A n \in Nat \ {0} : n \in Nat
      OBVIOUS
    <2> HIDE DEF p
    <2>4. QED
      BY <2>1, <2>2, <2>3, Zenon DEF SubRec!WellFounded
  <1>2. \E path : path = [len \in Nat \ {0} |-> SubBody(leaves, m, path, len)]
    BY <1>1, SubRec!Defined
  <1>3. QED
    BY <1>2, Zenon DEF Sub

(* at every start, *)
LEMMA SubAt ==
    ASSUME NEW leaves, NEW m \in Nat, NEW i \in Nat, i < m, NEW n \in Nat \ {0}
    PROVE  Sub(leaves, m)[n][i] = SubBody(leaves, m, Sub(leaves, m), n)[i]
  BY SubIsDefined

(* where the old tree covers the range there is at most its root, *)
LEMMA SubEnd ==
    ASSUME NEW leaves, NEW m \in Nat, NEW i \in Nat, i < m, NEW n \in Nat \ {0}, m >= i + n
    PROVE  Sub(leaves, m)[n][i] = IF i = 0 THEN <<>> ELSE <<mth_range(leaves, i, n)>>
  <1> DEFINE ps == Sub(leaves, m)
             one == <<mth_range(leaves, i, n)>>
  <1>1. ps[n][i] = SubBody(leaves, m, ps, n)[i]
    BY SubAt
  <1> HIDE DEF ps
  <1>2. SubBody(leaves, m, ps, n)[i] = IF i = 0 THEN <<>> ELSE one
    BY DEF SubBody
  <1> HIDE DEF one
  <1>3. ps[n][i] = IF i = 0 THEN <<>> ELSE one
    BY <1>1, <1>2, Zenon
  <1>4. QED
    BY <1>3 DEF ps, one

(* and otherwise the path ends with the root of the other part. *)
LEMMA SubNode ==
    ASSUME NEW leaves, NEW m \in Nat, NEW i \in Nat, i < m, NEW n \in Nat \ {0}, m < i + n
    PROVE  Sub(leaves, m)[n][i] =
             IF m <= i + split(n)
             THEN Append(Sub(leaves, m)[split(n)][i],
                         mth_range(leaves, i + split(n), n - split(n)))
             ELSE Append(Sub(leaves, m)[n - split(n)][i + split(n)],
                         mth_range(leaves, i, split(n)))
  <1> DEFINE ps == Sub(leaves, m)
             lo == mth_range(leaves, i, split(n))
             hi == mth_range(leaves, i + split(n), n - split(n))
  <1>1. ps[n][i] = SubBody(leaves, m, ps, n)[i]
    BY SubAt
  <1> HIDE DEF ps
  <1>2. i \in 0..(m - 1) /\ ~(m >= i + n)
    OBVIOUS
  <1>3. SubBody(leaves, m, ps, n)[i] =
          IF m <= i + split(n) THEN Append(ps[split(n)][i], hi)
                               ELSE Append(ps[n - split(n)][i + split(n)], lo)
    BY <1>2 DEF SubBody
  <1>4. QED
    BY <1>1, <1>3 DEF ps

-----------------------------------------------------------------------------
(* A consistency path leads verifyConsistency to both roots. *)

Reconciling == INSTANCE FoldTheorems WITH op <- absorb_node

CSt(f, s, fr, sr) == [at |-> Cursor(f, s), fr |-> fr, sr |-> sr, dead |-> FALSE]

Seeded(start, seed) == [at |-> start, fr |-> seed, sr |-> seed, dead |-> FALSE]

(* verifyConsistency's loop over rest, from indices start and the first node. *)
CRun(start, seed, rest) == FoldLeft(absorb_node, Seeded(start, seed), rest)

(* The loop of verifyConsistency is a fold over the rest of the path: *)
LEMMA CRunIsFold == \A start, seed, rest :
    CRun(start, seed, rest) = Reconciling!Fold(Seeded(start, seed), rest)
  BY DEF CRun, Reconciling!Fold, FoldLeft, MapThenFoldSet, Max, Reconciling!FoldLeft,
         Reconciling!MapThenFoldSet, Reconciling!Max

(* nothing to do for an empty rest, *)
LEMMA CRunEmpty == \A start, seed : CRun(start, seed, <<>>) = Seeded(start, seed)
  BY CRunIsFold, Reconciling!FoldEmpty

(* and one more turn for one more node. *)
LEMMA CRunAppend ==
    ASSUME NEW start, NEW seed, NEW T, NEW rest \in Seq(T), NEW x \in T
    PROVE  CRun(start, seed, Append(rest, x)) = absorb_node(CRun(start, seed, rest), x)
  BY CRunIsFold, Reconciling!FoldAppend

(* At an even index inside the tree only the new root takes the node, on the *)
(* right;                                                                   *)
LEMMA NodeRight ==
    ASSUME NEW f \in Nat, NEW s \in Nat, s # 0, NEW fr, NEW sr, NEW x, f % 2 = 0, f # s
    PROVE  absorb_node(CSt(f, s, fr, sr), x) = CSt(f \div 2, s \div 2, fr, node_hash(sr, x))
  <1> DEFINE a == Cursor(f, s)
  <1>1. a.fn = f /\ a.sn = s /\ halve(a) = Cursor(f \div 2, s \div 2)
    BY AtType
  <1>2. ~joins_left(a) /\ a.sn # 0
    BY <1>1 DEF joins_left
  <1> HIDE DEF a
  <1>3. absorb_node([at |-> a, fr |-> fr, sr |-> sr, dead |-> FALSE], x)
          = [at |-> halve(a), fr |-> fr, sr |-> node_hash(sr, x), dead |-> FALSE]
    BY <1>2 DEF absorb_node
  <1>4. QED
    BY <1>1, <1>3 DEF a, CSt

(* at an odd one both roots take it, on the left. *)
LEMMA NodeLeft ==
    ASSUME NEW f \in Nat, NEW s \in Nat, s # 0, NEW fr, NEW sr, NEW x, f % 2 = 1
    PROVE  absorb_node(CSt(f, s, fr, sr), x)
             = CSt(f \div 2, s \div 2, node_hash(x, fr), node_hash(x, sr))
  <1> DEFINE a == Cursor(f, s)
  <1>1. a.fn = f /\ a.sn = s /\ halve(a) = Cursor(f \div 2, s \div 2)
    BY AtType
  <1>2. joins_left(a) /\ a.sn # 0
    BY <1>1 DEF joins_left
  <1>3. skip_even(a) = a
    BY SkipAt
  <1> HIDE DEF a
  <1>4. absorb_node([at |-> a, fr |-> fr, sr |-> sr, dead |-> FALSE], x)
          = [at |-> halve(skip_even(a)), fr |-> node_hash(x, fr), sr |-> node_hash(x, sr),
             dead |-> FALSE]
    BY <1>2 DEF absorb_node
  <1>5. QED
    BY <1>1, <1>3, <1>4 DEF a, CSt

(* The same, told from the parent. *)
LEMMA NodeChild ==
    ASSUME NEW a \in Nat, NEW b \in Nat, a < b,
           NEW c \in Nat, c = 2 * b \/ c = 2 * b + 1, NEW f \in Nat
    PROVE  /\ f = 2 * a => \A fr, sr, x :
                absorb_node(CSt(f, c, fr, sr), x) = CSt(a, b, fr, node_hash(sr, x))
           /\ f = 2 * a + 1 => \A fr, sr, x :
                absorb_node(CSt(f, c, fr, sr), x) = CSt(a, b, node_hash(x, fr), node_hash(x, sr))
  <1>1. c \div 2 = b /\ c # 0
    OBVIOUS
  <1>2. ASSUME f = 2 * a, NEW fr, NEW sr, NEW x
        PROVE  absorb_node(CSt(f, c, fr, sr), x) = CSt(a, b, fr, node_hash(sr, x))
    <2>1. f % 2 = 0 /\ f # c /\ f \div 2 = a
      BY <1>2
    <2>2. absorb_node(CSt(f, c, fr, sr), x) = CSt(f \div 2, c \div 2, fr, node_hash(sr, x))
      BY <1>1, <2>1, NodeRight
    <2>3. QED
      BY <1>1, <2>1, <2>2
  <1>3. ASSUME f = 2 * a + 1, NEW fr, NEW sr, NEW x
        PROVE  absorb_node(CSt(f, c, fr, sr), x) = CSt(a, b, node_hash(x, fr), node_hash(x, sr))
    <2>1. f % 2 = 1 /\ f \div 2 = a
      BY <1>3
    <2>2. absorb_node(CSt(f, c, fr, sr), x)
            = CSt(f \div 2, c \div 2, node_hash(x, fr), node_hash(x, sr))
      BY <1>1, <2>1, NodeLeft
    <2>3. QED
      BY <1>1, <2>1, <2>2
  <1>4. QED
    BY <1>2, <1>3

(* Shifting keeps a number positive. *)
LEMMA ShPositive == \A u \in Nat, a \in Nat \ {0} : Sh(u, a) \in Nat \ {0}
  <1> SUFFICES ASSUME NEW u \in Nat, NEW a \in Nat \ {0} PROVE Sh(u, a) \in Nat \ {0}
    OBVIOUS
  <1> DEFINE c == a - 1
  <1>1. c \in Nat /\ c + 1 = a
    OBVIOUS
  <1> HIDE DEF c
  <1> DEFINE v == Sh(u, c)
             q == Pow(u)
  <1>2. v \in Nat /\ q \in Nat \ {0}
    BY <1>1, ShType, PowType
  <1>3. Sh(u, c + 1) = v + q
    BY <1>1, ShNext
  <1>4. Sh(u, a) = v + q
    BY <1>1, <1>3
  <1> HIDE DEF v, q
  <1>5. v + q \in Nat \ {0}
    BY <1>2
  <1>6. QED
    BY <1>4, <1>5

(* On the right edge the levels without a sibling are skipped, then both    *)
(* roots take the node on the left.                                         *)
LEMMA NodeLast ==
    ASSUME NEW a \in Nat, a % 2 = 1, NEW u \in Nat, NEW fr, NEW sr, NEW x
    PROVE  absorb_node(CSt(Sh(u, a), Sh(u, a), fr, sr), x)
             = CSt(a \div 2, a \div 2, node_hash(x, fr), node_hash(x, sr))
  <1> DEFINE y == Sh(u, a)
             c == Cursor(y, y)
  <1>1. y \in Nat /\ y # 0
    <2>1. a \in Nat \ {0}
      OBVIOUS
    <2>2. QED
      BY <2>1, ShPositive
  <1>2. skip_even(c) = Cursor(a, a)
    BY SkipEvenShift
  <1>3. halve(Cursor(a, a)) = Cursor(a \div 2, a \div 2)
    BY AtType
  <1> HIDE DEF y
  <1>4. c.fn = c.sn /\ c.sn # 0
    BY <1>1, AtType
  <1>5. joins_left(c)
    BY <1>4 DEF joins_left
  <1> HIDE DEF c
  <1>6. absorb_node([at |-> c, fr |-> fr, sr |-> sr, dead |-> FALSE], x)
          = [at |-> halve(skip_even(c)), fr |-> node_hash(x, fr), sr |-> node_hash(x, sr),
             dead |-> FALSE]
    BY <1>4, <1>5 DEF absorb_node
  <1>7. QED
    BY <1>2, <1>3, <1>6 DEF c, y, CSt

Put(s, r) == <<s>> \o r

(* A path of the seed alone. *)
LEMMA PutEmpty == \A s : Put(s, <<>>) = <<s>>
  BY DEF Put

(* A longer rest makes a longer path. *)
LEMMA PutAppend ==
    ASSUME NEW T, NEW s \in T, NEW r \in Seq(T), NEW x \in T
    PROVE  Append(Put(s, r), x) = Put(s, Append(r, x))
  BY DEF Put

(* Seed and rest are read back from the path. *)
LEMMA PutParts ==
    ASSUME NEW T, NEW s \in T, NEW r \in Seq(T)
    PROVE  Put(s, r)[1] = s /\ Tail(Put(s, r)) = r /\ Put(s, r) # <<>>
  BY DEF Put

(* The path through the range of len leaves from i, for a first node and a   *)
(* rest that the verifier reads in this order, rebuilds the old and the new  *)
(* tree over that range and leaves the indices at f, s.  The first node is   *)
(* left out when it is the old root.                                         *)
JoinedBy(leaves, m, start, len, i, f, s, seed, rest) ==
    /\ Sub(leaves, m)[len][i] = IF i = 0 /\ is_power_of_two(m) THEN rest ELSE Put(seed, rest)
    /\ i = 0 /\ is_power_of_two(m) => seed = mth_range(leaves, 0, m)
    /\ CRun(start, seed, rest) = CSt(f, s, mth_range(leaves, i, m - i), mth_range(leaves, i, len))

Joined(leaves, m, start, len, i, f, s) ==
    \E seed \in TreeNodes(leaves), rest \in Seq(TreeNodes(leaves)) :
        JoinedBy(leaves, m, start, len, i, f, s, seed, rest)

(* The old tree ends with this range. *)
LEMMA JoinBase ==
    ASSUME NEW leaves, NEW m \in Nat, NEW d \in Nat, NEW a \in Nat, a % 2 = 0, NEW b \in Nat,
           NEW r \in Nat, r < Pow(d), NEW i \in Nat, m = i + Pow(d),
           NEW start, start = skip_odd(Cursor(Sh(d, a) + Pow(d) - 1, Sh(d, b) + r))
    PROVE  Joined(leaves, m, start, Pow(d), i, a, b)
  <1> DEFINE k == Pow(d)
             seed == mth_range(leaves, i, k)
             T == TreeNodes(leaves)
  <1>1. k \in Nat \ {0}
    BY PowType
  <1>2. start = Cursor(a, b)
    BY SkipOddShift
  <1>3. Sub(leaves, m)[k][i] = IF i = 0 THEN <<>> ELSE <<seed>>
    <2> HIDE DEF k, seed
    <2>1. i < m /\ m >= i + k
      BY <1>1 DEF k
    <2>2. QED
      BY <1>1, <2>1, SubEnd DEF seed
  <1>4. i = 0 => is_power_of_two(m) /\ m = k
    BY <1>1, PowIsPower
  <1>5. seed \in T
    BY <1>1, TreeNode
  <1>6. m - i = k
    BY <1>1
  <1> HIDE DEF k
  <1>7. CRun(start, seed, <<>>) = CSt(a, b, seed, seed)
    BY <1>2, CRunEmpty DEF Seeded, CSt
  <1>8. <<>> \in Seq(T) /\ Put(seed, <<>>) = <<seed>>
    BY PutEmpty
  <1>9. i = 0 /\ is_power_of_two(m) => seed = mth_range(leaves, 0, m)
    BY <1>4
  <1>10. CRun(start, seed, <<>>) = CSt(a, b, mth_range(leaves, i, m - i), mth_range(leaves, i, k))
    BY <1>6, <1>7
  <1> HIDE DEF seed
  <1>11. Sub(leaves, m)[k][i] = IF i = 0 /\ is_power_of_two(m) THEN <<>> ELSE Put(seed, <<>>)
    BY <1>3, <1>4, <1>8
  <1>12. JoinedBy(leaves, m, start, k, i, a, b, seed, <<>>)
    BY <1>9, <1>10, <1>11 DEF JoinedBy
  <1>13. Joined(leaves, m, start, k, i, a, b)
    BY <1>5, <1>8, <1>12 DEF Joined
  <1>14. QED
    BY <1>13 DEF k

(* The old tree ends in the left part: the right part joins the new tree. *)
LEMMA JoinRight ==
    ASSUME NEW leaves, NEW m \in Nat, NEW start, NEW n \in Nat, NEW k \in Nat, NEW i \in Nat,
           NEW f, NEW s, NEW f2, NEW s2, NEW hi \in TreeNodes(leaves),
           Joined(leaves, m, start, k, i, f, s),
           Sub(leaves, m)[n][i] = Append(Sub(leaves, m)[k][i], hi),
           mth_range(leaves, i, n) = node_hash(mth_range(leaves, i, k), hi),
           \A fr, sr : absorb_node(CSt(f, s, fr, sr), hi) = CSt(f2, s2, fr, node_hash(sr, hi))
    PROVE  Joined(leaves, m, start, n, i, f2, s2)
  <1> DEFINE T == TreeNodes(leaves)
             whole == i = 0 /\ is_power_of_two(m)
  <1>1. PICK seed \in T, rest \in Seq(T) : JoinedBy(leaves, m, start, k, i, f, s, seed, rest)
    BY DEF Joined
  <1> DEFINE more == Append(rest, hi)
             old == mth_range(leaves, i, m - i)
             new == mth_range(leaves, i, k)
  <1>2. Sub(leaves, m)[k][i] = IF whole THEN rest ELSE Put(seed, rest)
    BY <1>1 DEF JoinedBy
  <1>3. CRun(start, seed, rest) = CSt(f, s, old, new)
    BY <1>1 DEF JoinedBy
  <1>4. whole => seed = mth_range(leaves, 0, m)
    BY <1>1 DEF JoinedBy
  <1>5. Append(Put(seed, rest), hi) = Put(seed, more)
    BY PutAppend
  <1>6. CRun(start, seed, more) = absorb_node(CRun(start, seed, rest), hi)
    BY CRunAppend
  <1>7. more \in Seq(T)
    OBVIOUS
  <1> HIDE DEF whole, T, old, new
  <1>8. Sub(leaves, m)[n][i] = IF whole THEN more ELSE Put(seed, more)
    BY <1>2, <1>5
  <1> HIDE DEF more
  <1>9. CRun(start, seed, more) = CSt(f2, s2, old, mth_range(leaves, i, n))
    BY <1>3, <1>6 DEF new
  <1>10. JoinedBy(leaves, m, start, n, i, f2, s2, seed, more)
    BY <1>4, <1>8, <1>9 DEF JoinedBy, whole, old
  <1>11. QED
    BY <1>7, <1>10 DEF Joined, T

(* The old tree ends in the right part: the left part joins both trees. *)
LEMMA JoinLeft ==
    ASSUME NEW leaves, NEW m \in Nat, NEW start, NEW n \in Nat, NEW k \in Nat \ {0}, NEW i \in Nat,
           NEW q \in Nat, NEW f, NEW s, NEW f2, NEW s2, NEW lo \in TreeNodes(leaves),
           Joined(leaves, m, start, q, i + k, f, s),
           Sub(leaves, m)[n][i] = Append(Sub(leaves, m)[q][i + k], lo),
           mth_range(leaves, i, n) = node_hash(lo, mth_range(leaves, i + k, q)),
           mth_range(leaves, i, m - i) = node_hash(lo, mth_range(leaves, i + k, m - (i + k))),
           i = 0 => ~is_power_of_two(m),
           \A fr, sr : absorb_node(CSt(f, s, fr, sr), lo)
                         = CSt(f2, s2, node_hash(lo, fr), node_hash(lo, sr))
    PROVE  Joined(leaves, m, start, n, i, f2, s2)
  <1> DEFINE T == TreeNodes(leaves)
             z == i + k
  <1>0. z # 0
    OBVIOUS
  <1>1. PICK seed \in T, rest \in Seq(T) : JoinedBy(leaves, m, start, q, z, f, s, seed, rest)
    BY DEF Joined
  <1> DEFINE more == Append(rest, lo)
             old == mth_range(leaves, z, m - z)
             new == mth_range(leaves, z, q)
  <1> HIDE DEF z
  <1>2. Sub(leaves, m)[q][z] = Put(seed, rest)
    BY <1>0, <1>1 DEF JoinedBy
  <1>3. CRun(start, seed, rest) = CSt(f, s, old, new)
    BY <1>1 DEF JoinedBy
  <1>5. Append(Put(seed, rest), lo) = Put(seed, more)
    BY PutAppend
  <1>6. CRun(start, seed, more) = absorb_node(CRun(start, seed, rest), lo)
    BY CRunAppend
  <1>7. more \in Seq(T)
    OBVIOUS
  <1> HIDE DEF T, old, new
  <1>8. Sub(leaves, m)[n][i] = Put(seed, more)
    BY <1>2, <1>5 DEF z
  <1> HIDE DEF more
  <1>9. CRun(start, seed, more) = CSt(f2, s2, mth_range(leaves, i, m - i), mth_range(leaves, i, n))
    BY <1>3, <1>6 DEF old, new, z
  <1>10. JoinedBy(leaves, m, start, n, i, f2, s2, seed, more)
    BY <1>8, <1>9 DEF JoinedBy
  <1>11. QED
    BY <1>7, <1>10 DEF Joined, T

(* A complete subtree, node a of level d + 1, from the child in which the old *)
(* tree ends.                                                                *)
LEMMA JoinLeftChild ==
    ASSUME NEW leaves, NEW m \in Nat, NEW start, NEW d \in Nat, NEW a \in Nat, NEW b \in Nat, a < b,
           NEW c \in Nat, c = 2 * b \/ c = 2 * b + 1, NEW i \in Nat, i < m, m <= i + Pow(d),
           Joined(leaves, m, start, Pow(d), i, 2 * a, c)
    PROVE  Joined(leaves, m, start, Pow(d + 1), i, a, b)
  <1> DEFINE k == Pow(d)
             n == Pow(d + 1)
             path == Sub(leaves, m)
             hi == mth_range(leaves, i + k, k)
             e == 2 * a
  <1>1. k \in Nat \ {0} /\ n = 2 * k /\ n \in Nat /\ split(n) = k /\ n - k = k
    BY PowSplit
  <1>2. mth_range(leaves, i, n) = node_hash(mth_range(leaves, i, k), hi)
    BY MthDouble
  <1>0. e \in Nat /\ e = 2 * a
    OBVIOUS
  <1>4. Joined(leaves, m, start, k, i, e, c) /\ m <= i + k
    OBVIOUS
  <1> HIDE DEF k, n, e
  <1>3. \A fr, sr, x : absorb_node(CSt(e, c, fr, sr), x) = CSt(a, b, fr, node_hash(sr, x))
    BY <1>0, NodeChild
  <1>5. hi \in TreeNodes(leaves)
    BY <1>1, TreeNode
  <1>6. path[n][i] = Append(path[k][i], hi)
    <2>1. n \in Nat \ {0} /\ m < i + n /\ k \in Nat
      BY <1>1, <1>4
    <2>2. path[n][i] = IF m <= i + split(n)
                  THEN Append(path[split(n)][i], mth_range(leaves, i + split(n), n - split(n)))
                  ELSE Append(path[n - split(n)][i + split(n)], mth_range(leaves, i, split(n)))
      BY <1>4, <2>1, SubNode
    <2> HIDE DEF path
    <2>3. QED
      BY <1>1, <1>4, <2>2
  <1> HIDE DEF path, hi
  <1>7. Joined(leaves, m, start, n, i, a, b)
    BY <1>1, <1>2, <1>3, <1>4, <1>5, <1>6, JoinRight DEF path
  <1>8. QED
    BY <1>7 DEF n

(* From the right half of a complete subtree to the whole, when the old tree *)
(* ends in that half.                                                       *)
LEMMA JoinRightChild ==
    ASSUME NEW leaves, NEW m \in Nat, NEW start, NEW d \in Nat, NEW a \in Nat, NEW b \in Nat, a < b,
           NEW c \in Nat, c = 2 * b \/ c = 2 * b + 1, NEW i \in Nat,
           i + Pow(d) < m, m < i + Pow(d + 1),
           Joined(leaves, m, start, Pow(d), i + Pow(d), 2 * a + 1, c)
    PROVE  Joined(leaves, m, start, Pow(d + 1), i, a, b)
  <1> DEFINE k == Pow(d)
             n == Pow(d + 1)
             path == Sub(leaves, m)
             lo == mth_range(leaves, i, k)
             o == 2 * a + 1
             j == m - i
  <1>1. k \in Nat \ {0} /\ n = 2 * k /\ n \in Nat /\ split(n) = k /\ n - k = k
    BY PowSplit
  <1>2. mth_range(leaves, i, n) = node_hash(lo, mth_range(leaves, i + k, k))
    BY MthDouble
  <1>0. o \in Nat /\ o = 2 * a + 1
    OBVIOUS
  <1>4. Joined(leaves, m, start, k, i + k, o, c) /\ i + k < m /\ m < i + n
    OBVIOUS
  <1> HIDE DEF k, n, o
  <1>3. \A fr, sr, x : absorb_node(CSt(o, c, fr, sr), x) = CSt(a, b, node_hash(x, fr), node_hash(x, sr))
    BY <1>0, NodeChild
  <1>5. lo \in TreeNodes(leaves)
    BY <1>1, TreeNode
  <1>6. path[n][i] = Append(path[k][i + k], lo)
    <2>1. n \in Nat \ {0} /\ i < m /\ ~(m <= i + k) /\ k \in Nat
      BY <1>1, <1>4
    <2>2. path[n][i] = IF m <= i + split(n)
                  THEN Append(path[split(n)][i], mth_range(leaves, i + split(n), n - split(n)))
                  ELSE Append(path[n - split(n)][i + split(n)], mth_range(leaves, i, split(n)))
      BY <1>4, <2>1, SubNode
    <2> HIDE DEF path
    <2>3. QED
      BY <1>1, <2>1, <2>2
  <1>7. j \in Nat /\ j >= 2 /\ k < j /\ j < 2 * k /\ j <= 2 * k /\ j - k = m - (i + k)
    BY <1>1, <1>4
  <1> HIDE DEF path, j
  <1>8. mth_range(leaves, i, j) = node_hash(lo, mth_range(leaves, i + k, m - (i + k)))
    <2>1. split(j) = k
      BY <1>7, SplitIs DEF k
    <2>2. mth_range(leaves, i, j)
            = node_hash(mth_range(leaves, i, split(j)), mth_range(leaves, i + split(j), j - split(j)))
      BY <1>7, MthNode
    <2>3. QED
      BY <1>7, <2>1, <2>2
  <1>9. i = 0 => ~is_power_of_two(m)
    <2>1. ~is_power_of_two(j)
      BY <1>7, BetweenPowers DEF k
    <2>2. i = 0 => j = m
      BY DEF j
    <2>3. QED
      BY <2>1, <2>2
  <1> HIDE DEF lo
  <1>10. Joined(leaves, m, start, n, i, a, b)
    BY <1>1, <1>2, <1>3, <1>4, <1>5, <1>6, <1>8, <1>9, JoinLeft DEF path, j
  <1>11. QED
    BY <1>10 DEF n

(* Where the range's old leaves end, and where the verifier starts. *)
Here(m, start, d, a, b, i, j, r) ==
    /\ a < b /\ 0 < j /\ j <= Pow(d) /\ r < Pow(d) /\ m = i + j
    /\ j < Pow(d) \/ a % 2 = 0
    /\ start = skip_odd(Cursor(Sh(d, a) + j - 1, Sh(d, b) + r))

(* Leaf j - 1 of node a of level d + 1 in the children of a and b. *)
LEMMA HereChild ==
    ASSUME NEW m \in Nat, NEW start, NEW d \in Nat, NEW a \in Nat, NEW b \in Nat,
           NEW i \in Nat, NEW j \in Nat, NEW r \in Nat,
           Here(m, start, d + 1, a, b, i, j, r), j # Pow(d + 1)
    PROVE  \E c, t \in Nat :
             /\ c = 2 * b \/ c = 2 * b + 1
             /\ j <= Pow(d) => Here(m, start, d, 2 * a, c, i, j, t)
             /\ ~(j <= Pow(d)) => Here(m, start, d, 2 * a + 1, c, i + Pow(d), j - Pow(d), t)
  <1> DEFINE k == Pow(d)
             n == Pow(d + 1)
             fn == Sh(d + 1, a) + j - 1
             sn == Sh(d + 1, b) + r
             x == Sh(d, 2 * a)
  <1>1. k \in Nat \ {0} /\ n = 2 * k
    BY PowSplit
  <1>2. a < b /\ 0 < j /\ j <= n /\ r < n /\ m = i + j /\ start = skip_odd(Cursor(fn, sn))
    BY DEF Here
  <1>a. \E c, t \in Nat : IsChild(d, b, r, c, t)
    BY <1>2, ChildOf
  <1>3. PICK c, t \in Nat : /\ Sh(d + 1, b) + r = Sh(d, c) + t
                            /\ t < Pow(d)
                            /\ c = 2 * b \/ c = 2 * b + 1
    BY <1>a DEF IsChild
  <1>4. Sh(d + 1, a) = x /\ Sh(d, 2 * a + 1) = x + k /\ x \in Nat
    BY ShChildren
  <1>5. j # n
    OBVIOUS
  <1>6. sn = Sh(d, c) + t /\ t < k
    BY <1>3
  <1>7. fn = x + j - 1
    BY <1>4
  <1> DEFINE e == 2 * a
             o == 2 * a + 1
             y == j - k
             z == i + k
  <1> HIDE DEF k, n, sn, fn, x
  <1>8. e < c /\ o < c /\ e % 2 = 0
    BY <1>2, <1>3
  <1>9. ASSUME j <= k PROVE Here(m, start, d, e, c, i, j, t)
    <2>1. fn = Sh(d, e) + j - 1
      BY <1>7 DEF x
    <2> HIDE DEF e
    <2>2. start = skip_odd(Cursor(Sh(d, e) + j - 1, Sh(d, c) + t))
      BY <1>2, <1>6, <2>1
    <2>3. QED
      BY <1>2, <1>6, <1>8, <1>9, <2>2 DEF Here, k
  <1>10. ASSUME ~(j <= k) PROVE Here(m, start, d, o, c, z, y, t)
    <2>1. y \in Nat /\ 0 < y /\ y < k /\ y <= k /\ m = z + y
      BY <1>1, <1>2, <1>5, <1>10
    <2>2. fn = (x + k) + y - 1
      BY <1>1, <1>4, <1>7
    <2> HIDE DEF y, z
    <2>3. Sh(d, o) = x + k
      BY <1>4
    <2> HIDE DEF o
    <2>4. start = skip_odd(Cursor(Sh(d, o) + y - 1, Sh(d, c) + t))
      BY <1>2, <1>6, <2>2, <2>3
    <2>5. QED
      BY <1>6, <1>8, <2>1, <2>4 DEF Here, k
  <1>11. QED
    BY <1>3, <1>9, <1>10 DEF k

(* Two trees over a complete subtree, the old one ending in it. *)
LEMMA CompleteJoins ==
    ASSUME NEW leaves, NEW m \in Nat, NEW start
    PROVE  \A d \in Nat : \A a, b, i, j, r \in Nat :
             Here(m, start, d, a, b, i, j, r) => Joined(leaves, m, start, Pow(d), i, a, b)
  <1> DEFINE S == {d \in Nat : \A a, b, i, j, r \in Nat :
             Here(m, start, d, a, b, i, j, r) => Joined(leaves, m, start, Pow(d), i, a, b)}
  <1>1. ASSUME NEW d \in Nat, NEW a \in Nat, NEW b \in Nat, NEW i \in Nat, NEW j \in Nat, NEW r \in Nat,
               Here(m, start, d, a, b, i, j, r), j = Pow(d)
        PROVE  Joined(leaves, m, start, Pow(d), i, a, b)
    <2>1. a % 2 = 0 /\ r < Pow(d) /\ m = i + Pow(d)
      BY <1>1, PowType DEF Here
    <2>2. start = skip_odd(Cursor(Sh(d, a) + Pow(d) - 1, Sh(d, b) + r))
      BY <1>1 DEF Here
    <2>3. QED
      BY <2>1, <2>2, JoinBase
  <1>2. 0 \in S
    <2> SUFFICES ASSUME NEW a \in Nat, NEW b \in Nat, NEW i \in Nat, NEW j \in Nat, NEW r \in Nat,
                        Here(m, start, 0, a, b, i, j, r)
                 PROVE  Joined(leaves, m, start, Pow(0), i, a, b)
      OBVIOUS
    <2>1. j = Pow(0)
      BY PowValue DEF Here
    <2>2. QED
      BY <1>1, <2>1
  <1>3. ASSUME NEW d \in Nat, d \in S PROVE d + 1 \in S
    <2> SUFFICES ASSUME NEW a \in Nat, NEW b \in Nat, NEW i \in Nat, NEW j \in Nat, NEW r \in Nat,
                        Here(m, start, d + 1, a, b, i, j, r)
                 PROVE  Joined(leaves, m, start, Pow(d + 1), i, a, b)
      OBVIOUS
    <2>0. \A a2, b2, i2, j2, r2 \in Nat :
             Here(m, start, d, a2, b2, i2, j2, r2) => Joined(leaves, m, start, Pow(d), i2, a2, b2)
      BY <1>3
    <2> HIDE DEF S
    <2>1. CASE j = Pow(d + 1)
      <3>1. d + 1 \in Nat
        OBVIOUS
      <3>2. QED
        BY <1>1, <2>1, <3>1
    <2>2. CASE j # Pow(d + 1)
      <3>1. PICK c, t \in Nat :
              /\ c = 2 * b \/ c = 2 * b + 1
              /\ j <= Pow(d) => Here(m, start, d, 2 * a, c, i, j, t)
              /\ ~(j <= Pow(d)) => Here(m, start, d, 2 * a + 1, c, i + Pow(d), j - Pow(d), t)
        BY <2>2, HereChild
      <3> DEFINE k == Pow(d)
                 n == Pow(d + 1)
                 e == 2 * a
                 o == 2 * a + 1
                 y == j - k
                 z == i + k
      <3>2. k \in Nat \ {0} /\ n = 2 * k
        BY PowSplit
      <3>3. a < b /\ m = i + j /\ j <= n /\ 0 < j /\ j # n
        BY <2>2 DEF Here
      <3>4. e \in Nat /\ o \in Nat
        OBVIOUS
      <3>5. CASE j <= k
        <4>1. Here(m, start, d, e, c, i, j, t)
          BY <3>1, <3>5
        <4>2. Joined(leaves, m, start, k, i, e, c)
          BY <2>0, <3>4, <4>1
        <4> HIDE DEF k, n
        <4>3. i < m /\ m <= i + k
          BY <3>2, <3>3, <3>5
        <4>4. QED
          BY <3>1, <3>3, <4>2, <4>3, JoinLeftChild DEF k
      <3>6. CASE ~(j <= k)
        <4>1. Here(m, start, d, o, c, z, y, t)
          BY <3>1, <3>6
        <4>2. z \in Nat /\ y \in Nat
          <5> HIDE DEF k, n
          <5>1. QED
            BY <3>2, <3>6
        <4>3. Joined(leaves, m, start, k, z, o, c)
          <5> HIDE DEF y, z, o
          <5>1. QED
            BY <2>0, <3>4, <4>1, <4>2
        <4>4. i + k < m /\ m < i + n
          <5> HIDE DEF k, n
          <5>1. QED
            BY <3>2, <3>3, <3>6
        <4>5. QED
          BY <3>1, <3>3, <4>3, <4>4, JoinRightChild
      <3>7. QED
        BY <3>5, <3>6
    <2>3. QED
      BY <2>1, <2>2
  <1> HIDE DEF S
  <1>4. \A d \in Nat : d \in S
    BY <1>2, <1>3, PowRec!Induction
  <1>5. QED
    BY <1>4 DEF S

(* The last subtree of a level, from the part in which the old tree ends. *)
LEMMA JoinLastLeft ==
    ASSUME NEW leaves, NEW m \in Nat, NEW start, NEW n \in Nat, NEW d \in Nat, NEW c \in Nat, NEW i \in Nat,
           split(n) = Pow(d), Pow(d) < n, i < m, m <= i + Pow(d), NEW b \in Nat, b = 2 * c,
           Joined(leaves, m, start, Pow(d), i, b, b + 1)
    PROVE  Joined(leaves, m, start, n, i, c, c)
  <1> DEFINE k == Pow(d)
             path == Sub(leaves, m)
             hi == mth_range(leaves, i + k, n - k)
             o == b + 1
  <1>1. k \in Nat \ {0} /\ split(n) = k /\ k < n /\ m <= i + k
    BY PowType
  <1>2. Joined(leaves, m, start, k, i, b, o)
    OBVIOUS
  <1>3. o \in Nat /\ o # 0 /\ b # o /\ b % 2 = 0 /\ b \div 2 = c /\ o \div 2 = c
    OBVIOUS
  <1> HIDE DEF k, o
  <1>4. n \in Nat \ {0} /\ m < i + n /\ n - k \in Nat /\ i + k \in Nat /\ n >= 2
    BY <1>1
  <1>5. \A fr, sr, x : absorb_node(CSt(b, o, fr, sr), x) = CSt(c, c, fr, node_hash(sr, x))
    <2> SUFFICES ASSUME NEW fr, NEW sr, NEW x
                 PROVE  absorb_node(CSt(b, o, fr, sr), x) = CSt(c, c, fr, node_hash(sr, x))
      OBVIOUS
    <2>1. absorb_node(CSt(b, o, fr, sr), x) = CSt(b \div 2, o \div 2, fr, node_hash(sr, x))
      BY <1>3, NodeRight
    <2>2. QED
      BY <1>3, <2>1
  <1>6. hi \in TreeNodes(leaves)
    BY <1>4, TreeNode
  <1>7. mth_range(leaves, i, n) = node_hash(mth_range(leaves, i, k), hi)
    <2>1. mth_range(leaves, i, n)
            = node_hash(mth_range(leaves, i, split(n)), mth_range(leaves, i + split(n), n - split(n)))
      BY <1>4, MthNode
    <2>2. QED
      BY <1>1, <2>1
  <1>8. path[n][i] = Append(path[k][i], hi)
    <2>1. path[n][i] = IF m <= i + split(n)
                  THEN Append(path[split(n)][i], mth_range(leaves, i + split(n), n - split(n)))
                  ELSE Append(path[n - split(n)][i + split(n)], mth_range(leaves, i, split(n)))
      BY <1>4, SubNode
    <2> HIDE DEF path
    <2>2. QED
      BY <1>1, <2>1
  <1> HIDE DEF path, hi
  <1>9. QED
    BY <1>1, <1>2, <1>5, <1>6, <1>7, <1>8, JoinRight DEF path

(* From the right part of the last subtree to the whole, when the old tree  *)
(* ends in that part.                                                       *)
LEMMA JoinLastRight ==
    ASSUME NEW leaves, NEW m \in Nat, NEW start, NEW n \in Nat, NEW d \in Nat, NEW c \in Nat, NEW i \in Nat,
           split(n) = Pow(d), n <= 2 * Pow(d), i + Pow(d) < m, m < i + n,
           NEW b \in Nat, b = 2 * c + 1, NEW u \in Nat,
           Joined(leaves, m, start, n - Pow(d), i + Pow(d), Sh(u, b), Sh(u, b))
    PROVE  Joined(leaves, m, start, n, i, c, c)
  <1> DEFINE k == Pow(d)
             path == Sub(leaves, m)
             lo == mth_range(leaves, i, k)
             f == Sh(u, b)
             q == n - k
             j == m - i
  <1>1. k \in Nat \ {0} /\ split(n) = k /\ n <= 2 * k /\ i + k < m
    BY PowType
  <1>2. Joined(leaves, m, start, q, i + k, f, f)
    OBVIOUS
  <1>3. b % 2 = 1 /\ b \div 2 = c
    OBVIOUS
  <1>5. \A fr, sr, x : absorb_node(CSt(f, f, fr, sr), x) = CSt(c, c, node_hash(x, fr), node_hash(x, sr))
    <2> SUFFICES ASSUME NEW fr, NEW sr, NEW x
                 PROVE  absorb_node(CSt(f, f, fr, sr), x) = CSt(c, c, node_hash(x, fr), node_hash(x, sr))
      OBVIOUS
    <2>1. absorb_node(CSt(f, f, fr, sr), x) = CSt(b \div 2, b \div 2, node_hash(x, fr), node_hash(x, sr))
      BY <1>3, NodeLast
    <2>2. QED
      BY <1>3, <2>1
  <1> HIDE DEF k, f
  <1>4. /\ n \in Nat \ {0} /\ q \in Nat /\ n >= 2 /\ i < m /\ ~(m <= i + k)
        /\ j \in Nat /\ j >= 2 /\ k < j /\ j < 2 * k /\ j <= 2 * k /\ j - k = m - (i + k)
    BY <1>1
  <1>6. lo \in TreeNodes(leaves)
    BY <1>1, TreeNode
  <1>7. mth_range(leaves, i, n) = node_hash(lo, mth_range(leaves, i + k, q))
    <2>1. mth_range(leaves, i, n)
            = node_hash(mth_range(leaves, i, split(n)), mth_range(leaves, i + split(n), n - split(n)))
      BY <1>4, MthNode
    <2>2. QED
      BY <1>1, <2>1
  <1>8. path[n][i] = Append(path[q][i + k], lo)
    <2>1. path[n][i] = IF m <= i + split(n)
                  THEN Append(path[split(n)][i], mth_range(leaves, i + split(n), n - split(n)))
                  ELSE Append(path[n - split(n)][i + split(n)], mth_range(leaves, i, split(n)))
      BY <1>4, SubNode
    <2> HIDE DEF path
    <2>2. QED
      BY <1>1, <1>4, <2>1
  <1> HIDE DEF path, j, q
  <1>9. mth_range(leaves, i, j) = node_hash(lo, mth_range(leaves, i + k, m - (i + k)))
    <2>1. split(j) = k
      BY <1>4, SplitIs DEF k
    <2>2. mth_range(leaves, i, j)
            = node_hash(mth_range(leaves, i, split(j)), mth_range(leaves, i + split(j), j - split(j)))
      BY <1>4, MthNode
    <2>3. QED
      BY <1>4, <2>1, <2>2
  <1>10. i = 0 => ~is_power_of_two(m)
    <2>1. ~is_power_of_two(j)
      BY <1>4, BetweenPowers DEF k
    <2>2. i = 0 => j = m
      BY DEF j
    <2>3. QED
      BY <2>1, <2>2
  <1> HIDE DEF lo
  <1>11. QED
    BY <1>1, <1>2, <1>4, <1>5, <1>6, <1>7, <1>8, <1>9, <1>10, JoinLeft DEF path, j

(* Two trees over the last subtree of a level, the old one ending before it  *)
(* does.                                                                     *)
LastHere(m, start, n, e, a, i, j) ==
    /\ n <= Pow(e) /\ 0 < j /\ j < n /\ m = i + j
    /\ start = skip_odd(Cursor(Sh(e, a) + j - 1, Sh(e, a) + (n - 1)))

(* The honest consistency path through the last subtree joins the old root  *)
(* with the new, wherever the old tree ends in it.                          *)
LEMMA LastJoins ==
    ASSUME NEW leaves, NEW m \in Nat, NEW start
    PROVE  \A n \in Nat : \A e, a, i, j \in Nat :
             LastHere(m, start, n, e, a, i, j)
               => \E u \in Nat : Joined(leaves, m, start, n, i, Sh(u, a), Sh(u, a))
  <1> DEFINE S == {n \in Nat : \A e, a, i, j \in Nat :
             LastHere(m, start, n, e, a, i, j)
               => \E u \in Nat : Joined(leaves, m, start, n, i, Sh(u, a), Sh(u, a))}
  <1>1. ASSUME NEW n \in Nat, \A q \in Nat : q < n => q \in S PROVE n \in S
    <2> SUFFICES ASSUME NEW e \in Nat, NEW a \in Nat, NEW i \in Nat, NEW j \in Nat,
                        LastHere(m, start, n, e, a, i, j)
                 PROVE  \E u \in Nat : Joined(leaves, m, start, n, i, Sh(u, a), Sh(u, a))
      OBVIOUS
    <2>0. \A q \in Nat : q < n => \A x, y, z, w \in Nat :
             LastHere(m, start, q, x, y, z, w)
               => \E u \in Nat : Joined(leaves, m, start, q, z, Sh(u, y), Sh(u, y))
      BY <1>1
    <2> HIDE DEF S
    <2> DEFINE fn == Sh(e, a) + j - 1
               sn == Sh(e, a) + (n - 1)
    <2>1. n <= Pow(e) /\ 0 < j /\ j < n /\ m = i + j /\ n >= 2
      BY DEF LastHere
    <2>2. start = skip_odd(Cursor(fn, sn))
      BY DEF LastHere
    <2>3. PICK d, u \in Nat : Parts(n, e, a, d, u)
      BY <2>1, LastParts
    <2> DEFINE c == Sh(u, a)
               k == Pow(d)
               x == Sh(d, 2 * c)
    <2>4. /\ split(n) = k /\ k \in Nat \ {0} /\ k < n /\ n <= 2 * k
          /\ c \in Nat /\ Sh(e, a) = x /\ Sh(d, 2 * c + 1) = x + k /\ x \in Nat
      BY <2>3 DEF Parts
    <2>5. CASE j <= k
      <3> DEFINE b == 2 * c
                 o == 2 * c + 1
                 t == n - 1 - k
      <3> HIDE DEF c
      <3>1. Sh(d, b) = x /\ Sh(d, o) = x + k
        BY <2>4
      <3> HIDE DEF k, x
      <3>2. /\ b \in Nat /\ o \in Nat /\ o = b + 1 /\ b < o /\ b % 2 = 0 /\ t \in Nat /\ t < k
            /\ fn = x + j - 1 /\ sn = (x + k) + t
            /\ i < m /\ m <= i + k
        BY <2>1, <2>4, <2>5
      <3> HIDE DEF b, o, t, fn, sn
      <3>3. Here(m, start, d, b, o, i, j, t)
        BY <2>1, <2>2, <2>5, <3>1, <3>2 DEF Here, k
      <3>4. Joined(leaves, m, start, k, i, b, b + 1)
        BY <3>2, <3>3, CompleteJoins DEF k
      <3>5. b = 2 * c
        BY DEF b
      <3>6. Joined(leaves, m, start, n, i, c, c)
        BY <2>4, <3>2, <3>4, <3>5, JoinLastLeft DEF k
      <3>7. QED
        BY <3>6 DEF c
    <2>6. CASE ~(j <= k)
      <3> DEFINE b == 2 * c + 1
                 q == n - k
                 z == i + k
                 w == j - k
      <3> HIDE DEF c
      <3>1. Sh(d, b) = x + k
        BY <2>4
      <3> HIDE DEF k, x
      <3>2. /\ b \in Nat /\ q \in Nat /\ q < n /\ q <= k /\ z \in Nat /\ w \in Nat
            /\ 0 < w /\ w < q /\ m = z + w
            /\ fn = (x + k) + w - 1 /\ sn = (x + k) + (q - 1)
            /\ i + k < m /\ m < i + n
        BY <2>1, <2>4, <2>6
      <3> HIDE DEF b, q, z, w, fn, sn
      <3>3. LastHere(m, start, q, d, b, z, w)
        BY <2>2, <3>1, <3>2 DEF LastHere, k
      <3>4. PICK v \in Nat : Joined(leaves, m, start, q, z, Sh(v, b), Sh(v, b))
        BY <2>0, <3>2, <3>3
      <3>5. b = 2 * c + 1
        BY DEF b
      <3>6. Joined(leaves, m, start, n - k, i + k, Sh(v, b), Sh(v, b))
        BY <3>4 DEF q, z
      <3>7. Joined(leaves, m, start, n, i, c, c)
        BY <2>4, <3>2, <3>5, <3>6, JoinLastRight DEF k
      <3>8. QED
        BY <3>7 DEF c
    <2>7. QED
      BY <2>5, <2>6
  <1> HIDE DEF S
  <1>2. \A n \in Nat : n \in S
    BY <1>1, PowRec!StrongInduction
  <1>3. QED
    BY <1>2 DEF S

Start(m, n) == skip_odd(Cursor(m - 1, n - 1))

(* So does the whole honest path. *)
LEMMA HonestRun ==
    ASSUME NEW leaves, NEW n \in Nat, NEW m \in Nat, 0 < m, m < n
    PROVE  Joined(leaves, m, Start(m, n), n, 0, 0, 0)
  <1> DEFINE start == Start(m, n)
  <1>2. PICK e \in Nat : n <= Pow(e)
    BY CoveringPower
  <1>3. \A d \in Nat : Sh(d, 0) = 0
    BY ShBase
  <1>6. Sh(e, 0) + m - 1 = m - 1 /\ Sh(e, 0) + (n - 1) = n - 1
    BY <1>3
  <1>7. LastHere(m, start, n, e, 0, 0, m)
    BY <1>2, <1>6 DEF LastHere, Start
  <1> HIDE DEF start
  <1>8. \E u \in Nat : Joined(leaves, m, start, n, 0, Sh(u, 0), Sh(u, 0))
    <2>1. \A q \in Nat : \A x, y, z, w \in Nat :
             LastHere(m, start, q, x, y, z, w)
               => \E u \in Nat : Joined(leaves, m, start, q, z, Sh(u, y), Sh(u, y))
      BY LastJoins
    <2>2. QED
      BY <1>7, <2>1
  <1>9. QED
    BY <1>3, <1>8 DEF start

(* What the server sends for two sizes passes the verifier. *)
LEMMA SubproofVerifies ==
    ASSUME NEW T, NEW leaves \in Seq(T), NEW m \in Nat, 0 < m, m < Len(leaves)
    PROVE  LET pr == seeded(m, mth_range(leaves, 0, m), subproof(m, leaves))
           IN  /\ pr # <<>>
               /\ reconciles(m, mth_range(leaves, 0, m), Len(leaves), mth(leaves), pr)
  <1> DEFINE n == Len(leaves)
             start == Start(m, n)
             old == mth_range(leaves, 0, m)
             new == mth_range(leaves, 0, n)
             N == TreeNodes(leaves)
             proof == subproof(m, leaves)
             pr == seeded(m, old, proof)
  <1>1. n \in Nat /\ m < n
    OBVIOUS
  <1>4. proof = Sub(leaves, m)[n][0]
    BY SubproofIsSub
  <1>5. new = mth(leaves)
    BY DEF mth
  <1> HIDE DEF n, proof
  <1>9. Joined(leaves, m, start, n, 0, 0, 0)
    BY <1>1, HonestRun
  <1> HIDE DEF start
  <1>10. PICK seed \in N, rest \in Seq(N) : JoinedBy(leaves, m, start, n, 0, 0, 0, seed, rest)
    BY <1>9 DEF Joined
  <1>11. /\ proof = IF is_power_of_two(m) THEN rest ELSE Put(seed, rest)
         /\ is_power_of_two(m) => seed = old
    BY <1>4, <1>10 DEF JoinedBy
  <1>12. CRun(start, seed, rest) = CSt(0, 0, old, new)
    <2>1. m - 0 = m
      OBVIOUS
    <2>2. QED
      BY <1>10, <2>1 DEF JoinedBy
  <1> HIDE DEF N, old, new
  <1>13. pr = Put(seed, rest)
    BY <1>11 DEF seeded, Put
  <1>14. Put(seed, rest)[1] = seed /\ Tail(Put(seed, rest)) = rest /\ Put(seed, rest) # <<>>
    BY PutParts
  <1> HIDE DEF pr
  <1>15. pr[1] = seed /\ Tail(pr) = rest /\ pr # <<>>
    BY <1>13, <1>14
  <1>16. reconcile(m, n, pr) = CRun(start, pr[1], Tail(pr))
    BY DEF reconcile, CRun, Seeded, start, Start, Cursor
  <1> DEFINE end == reconcile(m, n, pr)
  <1>17. end = CSt(0, 0, old, new)
    BY <1>12, <1>15, <1>16
  <1>18. ~end.dead /\ end.fr = old /\ end.sr = new /\ end.at.sn = 0
    BY <1>17 DEF CSt, Cursor
  <1> HIDE DEF end
  <1>19. reconciles(m, old, n, new, pr)
    BY <1>18 DEF reconciles, end
  <1>20. QED
    BY <1>5, <1>15, <1>19 DEF pr, old, n, proof

(* A consistency path is a sequence of nodes of the tree. *)
LEMMA ConsistencyIsSeq ==
    ASSUME NEW T, NEW leaves \in Seq(T), NEW m \in Nat, consistency_path(leaves, m) # <<>>
    PROVE  consistency_path(leaves, m)[1] \in Seq(TreeNodes(leaves))
  <1> DEFINE n == Len(leaves)
             N == TreeNodes(leaves)
  <1>1. n \in Nat
    OBVIOUS
  <1>2. CASE m > n
    BY <1>1, <1>2 DEF consistency_path
  <1>3. CASE m \in {0, n} /\ ~(m > n)
    BY <1>1, <1>3 DEF consistency_path
  <1>4. CASE 0 < m /\ m < n
    <2>1. consistency_path(leaves, m)[1] = Sub(leaves, m)[n][0]
      BY <1>1, <1>4, SubproofIsSub DEF consistency_path
    <2>2. Joined(leaves, m, Start(m, n), n, 0, 0, 0)
      BY <1>1, <1>4, HonestRun
    <2> HIDE DEF n
    <2>3. PICK seed \in N, rest \in Seq(N) : JoinedBy(leaves, m, Start(m, n), n, 0, 0, 0, seed, rest)
      BY <2>2 DEF Joined
    <2> HIDE DEF N
    <2>4. Sub(leaves, m)[n][0] \in {rest, Put(seed, rest)}
      BY <2>3 DEF JoinedBy
    <2>5. Put(seed, rest) \in Seq(N)
      BY DEF Put
    <2>6. QED
      BY <2>1, <2>4, <2>5 DEF N
  <1>5. QED
    BY <1>1, <1>2, <1>3, <1>4

(* TransparencyLog::consistency_path and verifyConsistency agree on every    *)
(* pair of sizes: the answer to a request for the step from the head of the  *)
(* first m leaves to the current head convinces the verifier.                *)
THEOREM ConsistencyVerifies ==
    ASSUME NEW T, NEW leaves \in Seq(T), NEW m \in Nat, m <= Len(leaves)
    PROVE  /\ consistency_path(leaves, m) # <<>>
           /\ verifyConsistency(m, mth_range(leaves, 0, m), Len(leaves), mth(leaves),
                                consistency_path(leaves, m)[1])
  <1> DEFINE n == Len(leaves)
             old == mth_range(leaves, 0, m)
             proof == subproof(m, leaves)
  <1>1. n \in Nat /\ m <= n
    OBVIOUS
  <1>2. CASE m = n
    <2>1. consistency_path(leaves, m) = << <<>> >>
      BY <1>1, <1>2 DEF consistency_path
    <2>2. old = mth(leaves)
      BY <1>2 DEF mth
    <2>3. QED
      BY <1>1, <1>2, <2>1, <2>2 DEF verifyConsistency
  <1>3. CASE m = 0 /\ m < n
    <2>1. consistency_path(leaves, m) = << <<>> >>
      BY <1>1, <1>3 DEF consistency_path
    <2>2. ~(m > n) /\ m # n
      BY <1>1, <1>3
    <2>3. \A r, p : verifyConsistency(m, old, n, r, p)
      <3> HIDE DEF n, old
      <3>1. QED
        BY <1>3, <2>2 DEF verifyConsistency
    <2>4. consistency_path(leaves, m) # <<>>
      BY <2>1
    <2>5. QED
      BY <2>3, <2>4
  <1>4. CASE 0 < m /\ m < n
    <2>1. consistency_path(leaves, m) = <<proof>>
      BY <1>1, <1>4 DEF consistency_path
    <2> DEFINE pr == seeded(m, old, proof)
    <2>2. pr # <<>> /\ reconciles(m, old, n, mth(leaves), pr)
      BY <1>4, SubproofVerifies
    <2>3. ~(m > n) /\ m # n /\ m # 0
      BY <1>1, <1>4
    <2> HIDE DEF pr, old, proof
    <2>4. verifyConsistency(m, old, n, mth(leaves), proof)
      BY <2>2, <2>3 DEF verifyConsistency, pr
    <2>5. QED
      BY <2>1, <2>4 DEF old
  <1>5. QED
    BY <1>1, <1>2, <1>3, <1>4

-----------------------------------------------------------------------------
(* No path leads verifyInclusion from another leaf to the root.              *)
(*                                                                           *)
(* The climb is read backwards: the indices alone decide on which side each  *)
(* sibling is joined, so a root that is the tree's names, level by level,    *)
(* the hash the climb was at.                                                *)

(* tr[k] is where the climb along path is after k siblings. *)
Steps(path, tr) == \A k \in Nat : tr[k + 1] = absorb_sibling(tr[k], path[k + 1])

(* The first size entries are no inner nodes. *)
Bare(leaves, size) == \A x \in 1..size : \A l, r : leaves[x] # node_hash(l, r)

(* A node hash names both its children. *)
LEMMA NodeParts ==
    ASSUME NEW a, NEW b, NEW c, NEW d, node_hash(a, b) = node_hash(c, d)
    PROVE  a = c /\ b = d
  BY DEF node_hash

(* The fields of a state of the climb, *)
LEMMA StParts == \A f, s, h : St(f, s, h).h = h /\ St(f, s, h).at = Cursor(f, s)
  BY DEF St

(* and of a cursor. *)
LEMMA CursorParts == \A f, s : Cursor(f, s).fn = f /\ Cursor(f, s).sn = s
  BY DEF Cursor

(* Every sibling makes the hash an inner node over what it was. *)
LEMMA StepIsNode ==
    ASSUME NEW path, NEW tr, Steps(path, tr), NEW k \in Nat
    PROVE  \E x : tr[k + 1].h = node_hash(x, tr[k].h) \/ tr[k + 1].h = node_hash(tr[k].h, x)
  <1> DEFINE st == tr[k]
             x == path[k + 1]
  <1>1. tr[k + 1] = absorb_sibling(st, x)
    BY DEF Steps
  <1> HIDE DEF st, x
  <1>2. absorb_sibling(st, x).h = node_hash(x, st.h) \/ absorb_sibling(st, x).h = node_hash(st.h, x)
    BY DEF absorb_sibling
  <1>3. QED
    BY <1>1, <1>2 DEF st

(* After more siblings than the tree over a range has levels, the hash is    *)
(* not that of the range.                                                    *)
LEMMA TooDeep ==
    ASSUME NEW leaves, NEW size \in Nat, Bare(leaves, size), NEW path, NEW tr, Steps(path, tr)
    PROVE  \A k \in Nat : \A i, n, d \in Nat :
             1 <= n /\ i + n <= size /\ n <= Pow(d) /\ d < k => tr[k].h # mth_range(leaves, i, n)
  <1> DEFINE S == {k \in Nat : \A i, n, d \in Nat :
             1 <= n /\ i + n <= size /\ n <= Pow(d) /\ d < k => tr[k].h # mth_range(leaves, i, n)}
  <1>1. 0 \in S
    OBVIOUS
  <1>2. ASSUME NEW k \in Nat, k \in S PROVE k + 1 \in S
    <2> SUFFICES ASSUME NEW i \in Nat, NEW n \in Nat, NEW d \in Nat,
                        1 <= n, i + n <= size, n <= Pow(d), d < k + 1,
                        tr[k + 1].h = mth_range(leaves, i, n)
                 PROVE  FALSE
      OBVIOUS
    <2>0. \A x, y, z \in Nat :
             1 <= y /\ x + y <= size /\ y <= Pow(z) /\ z < k => tr[k].h # mth_range(leaves, x, y)
      BY <1>2
    <2> HIDE DEF S
    <2> DEFINE h == tr[k].h
    <2>1. PICK x : tr[k + 1].h = node_hash(x, h) \/ tr[k + 1].h = node_hash(h, x)
      BY StepIsNode
    <2>2. CASE n = 1
      <3>1. tr[k + 1].h = leaves[i + 1]
        BY <2>2, MthLeaf
      <3>2. i + 1 \in 1..size
        BY <2>2
      <3>3. QED
        BY <2>1, <3>1, <3>2 DEF Bare
    <2>3. CASE n >= 2
      <3>1. PICK e \in Nat : split(n) = Pow(e) /\ Pow(e) < n /\ n <= 2 * Pow(e)
        BY <2>3, SplitBelow
      <3> DEFINE p == Pow(e)
                 lo == mth_range(leaves, i, p)
                 hi == mth_range(leaves, i + p, n - p)
      <3>2. p \in Nat \ {0} /\ p < n /\ n <= 2 * p
        BY <3>1, PowType
      <3>3. e < d
        <4>1. d < e => 2 * Pow(d) <= p
          BY PowOrder
        <4>2. d = e => Pow(d) = p
          OBVIOUS
        <4>3. Pow(d) \in Nat
          BY PowType
        <4> HIDE DEF p
        <4>4. QED
          BY <3>2, <4>1, <4>2, <4>3
      <3>4. tr[k + 1].h = node_hash(lo, hi)
        <4>1. mth_range(leaves, i, n) =
                node_hash(mth_range(leaves, i, split(n)),
                          mth_range(leaves, i + split(n), n - split(n)))
          BY <2>3, MthNode
        <4> HIDE DEF p
        <4>2. QED
          BY <3>1, <4>1 DEF p
      <3> HIDE DEF h, lo, hi
      <3>5. h = lo \/ h = hi
        BY <2>1, <3>4, NodeParts
      <3>6. h # lo
        <4>1. 1 <= p /\ i + p <= size /\ p <= Pow(e) /\ e < k
          BY <3>2, <3>3
        <4>2. QED
          BY <3>2, <4>1, <2>0 DEF h, lo
      <3>7. h # hi
        <4>1. 1 <= n - p /\ (i + p) + (n - p) <= size /\ n - p <= Pow(e) /\ e < k
              /\ i + p \in Nat /\ n - p \in Nat
          BY <3>2, <3>3
        <4>2. QED
          BY <4>1, <2>0 DEF h, hi
      <3>8. QED
        BY <3>5, <3>6, <3>7
    <2>4. QED
      BY <2>2, <2>3
  <1> HIDE DEF S
  <1>3. \A k \in Nat : k \in S
    BY <1>1, <1>2, PowRec!Induction
  <1>4. QED
    BY <1>3 DEF S

(* Down a complete subtree that is not the last of its level. *)
CompleteFall(leaves, tr, d, a, b, i, j) ==
    /\ tr[d] = St(a, b, tr[d].h)
    /\ tr[d].h = mth_range(leaves, i, Pow(d)) => tr[0].h = leaves[i + j + 1]
    /\ \A k \in Nat : k < d => tr[k].at.sn # 0

(* One level up: the climb is at h, the child with sibling x. *)
LEMMA FallChild ==
    ASSUME NEW leaves, NEW path, NEW tr, Steps(path, tr),
           NEW d \in Nat, NEW a \in Nat, NEW b \in Nat, a < b, NEW i \in Nat, NEW j \in Nat,
           NEW c \in Nat, c = 2 * b \/ c = 2 * b + 1,
           NEW f \in Nat, NEW y \in Nat, NEW t \in Nat, y + t = i + j,
           \/ f = 2 * a /\ y = i
           \/ f = 2 * a + 1 /\ y = i + Pow(d),
           CompleteFall(leaves, tr, d, f, c, y, t)
    PROVE  CompleteFall(leaves, tr, d + 1, a, b, i, j)
  <1> DEFINE k == Pow(d)
             lo == mth_range(leaves, i, k)
             hi == mth_range(leaves, i + k, k)
             h == tr[d].h
             x == path[d + 1]
  <1>1. /\ tr[d] = St(f, c, h)
        /\ h = mth_range(leaves, y, k) => tr[0].h = leaves[y + t + 1]
        /\ \A q \in Nat : q < d => tr[q].at.sn # 0
    BY DEF CompleteFall
  <1>2. tr[d + 1] = absorb_sibling(tr[d], x)
    BY DEF Steps
  <1>3. mth_range(leaves, i, Pow(d + 1)) = node_hash(lo, hi)
    BY MthDouble
  <1>4. c # 0
    OBVIOUS
  <1>5. tr[d].at.sn = c
    BY <1>1, StParts, CursorParts
  <1> HIDE DEF h, x
  <1>6. /\ absorb_sibling(St(2 * a, c, h), x) = St(a, b, node_hash(h, x))
        /\ absorb_sibling(St(2 * a + 1, c, h), x) = St(a, b, node_hash(x, h))
    BY AbsorbChild
  <1> DEFINE g == IF y = i /\ f = 2 * a THEN node_hash(h, x) ELSE node_hash(x, h)
  <1>7. tr[d + 1] = St(a, b, g)
    BY <1>1, <1>2, <1>6
  <1>8. tr[d + 1].h = g
    BY <1>7, StParts
  <1>9. g = node_hash(lo, hi) => h = mth_range(leaves, y, k)
    <2> HIDE DEF k
    <2>1. CASE f = 2 * a /\ y = i
      <3>1. g = node_hash(h, x)
        BY <2>1
      <3> HIDE DEF lo, hi, g
      <3>2. g = node_hash(lo, hi) => h = lo
        BY <3>1, NodeParts
      <3>3. QED
        BY <2>1, <3>2 DEF lo
    <2>2. CASE f = 2 * a + 1 /\ y = i + k
      <3>1. f # 2 * a
        BY <2>2
      <3>2. g = node_hash(x, h)
        BY <3>1
      <3> HIDE DEF lo, hi, g
      <3>3. g = node_hash(lo, hi) => h = hi
        BY <3>2, NodeParts
      <3>4. QED
        BY <2>2, <3>3 DEF hi
    <2>3. QED
      BY <2>1, <2>2 DEF k
  <1>10. y + t + 1 = i + j + 1
    OBVIOUS
  <1> HIDE DEF g, lo, hi, k
  <1>11. ASSUME NEW q \in Nat, q < d + 1 PROVE tr[q].at.sn # 0
    <2>1. q < d \/ q = d
      BY <1>11
    <2>2. QED
      BY <1>1, <1>4, <1>5, <2>1
  <1>12. tr[d + 1] = St(a, b, tr[d + 1].h)
    BY <1>7, <1>8
  <1>13. tr[d + 1].h = mth_range(leaves, i, Pow(d + 1)) => tr[0].h = leaves[i + j + 1]
    BY <1>1, <1>3, <1>8, <1>9, <1>10
  <1>14. QED
    BY <1>11, <1>12, <1>13 DEF CompleteFall

(* A climb that leaves a complete subtree with its root entered it with the *)
(* right leaf.                                                              *)
LEMMA CompleteFalls ==
    ASSUME NEW leaves, NEW path, NEW tr, Steps(path, tr)
    PROVE  \A d \in Nat : \A a, b, i, j, r \in Nat :
             a < b /\ j < Pow(d) /\ r < Pow(d) /\ tr[0] = St(Sh(d, a) + j, Sh(d, b) + r, tr[0].h)
                => CompleteFall(leaves, tr, d, a, b, i, j)
  <1> DEFINE S == {d \in Nat : \A a, b, i, j, r \in Nat :
             a < b /\ j < Pow(d) /\ r < Pow(d) /\ tr[0] = St(Sh(d, a) + j, Sh(d, b) + r, tr[0].h)
                => CompleteFall(leaves, tr, d, a, b, i, j)}
  <1>1. 0 \in S
    <2> SUFFICES ASSUME NEW a \in Nat, NEW b \in Nat, NEW i \in Nat, NEW j \in Nat, NEW r \in Nat,
                        a < b, j < Pow(0), r < Pow(0),
                        tr[0] = St(Sh(0, a) + j, Sh(0, b) + r, tr[0].h)
                 PROVE  CompleteFall(leaves, tr, 0, a, b, i, j)
      OBVIOUS
    <2>1. Pow(0) = 1 /\ Sh(0, a) + j = a /\ Sh(0, b) + r = b /\ i + j + 1 = i + 1
      BY PowValue, ShBase
    <2>2. mth_range(leaves, i, 1) = leaves[i + 1]
      BY MthLeaf
    <2>3. tr[0] = St(a, b, tr[0].h)
      BY <2>1
    <2>4. QED
      BY <2>1, <2>2, <2>3 DEF CompleteFall
  <1>2. ASSUME NEW d \in Nat, d \in S PROVE d + 1 \in S
    <2> SUFFICES ASSUME NEW a \in Nat, NEW b \in Nat, NEW i \in Nat, NEW j \in Nat, NEW r \in Nat,
                        a < b, j < Pow(d + 1), r < Pow(d + 1),
                        tr[0] = St(Sh(d + 1, a) + j, Sh(d + 1, b) + r, tr[0].h)
                 PROVE  CompleteFall(leaves, tr, d + 1, a, b, i, j)
      OBVIOUS
    <2>0. \A x, y, z, w, v \in Nat :
             x < y /\ w < Pow(d) /\ v < Pow(d) /\ tr[0] = St(Sh(d, x) + w, Sh(d, y) + v, tr[0].h)
                => CompleteFall(leaves, tr, d, x, y, z, w)
      BY <1>2
    <2> HIDE DEF S
    <2> DEFINE k == Pow(d)
               h == tr[0].h
    <2>1. k \in Nat \ {0} /\ Pow(d + 1) = 2 * k
      BY PowSplit
    <2>a. \E c, t \in Nat : IsChild(d, b, r, c, t)
      BY ChildOf
    <2>2. PICK c, t \in Nat : /\ Sh(d + 1, b) + r = Sh(d, c) + t
                              /\ t < Pow(d)
                              /\ c = 2 * b \/ c = 2 * b + 1
      BY <2>a DEF IsChild
    <2>3. Sh(d + 1, a) = Sh(d, 2 * a) /\ Sh(d, 2 * a + 1) = Sh(d, 2 * a) + k /\ Sh(d, 2 * a) \in Nat
      BY ShChildren
    <2>4. CASE j < k
      <3> DEFINE f == 2 * a
      <3>1. f \in Nat /\ f < c
        BY <2>2
      <3>2. tr[0] = St(Sh(d, f) + j, Sh(d, c) + t, h)
        BY <2>2, <2>3
      <3> HIDE DEF f
      <3>3. CompleteFall(leaves, tr, d, f, c, i, j)
        BY <2>0, <2>2, <2>4, <3>1, <3>2
      <3>4. QED
        BY <2>2, <3>1, <3>3, FallChild DEF f
    <2>5. CASE ~(j < k)
      <3> DEFINE f == 2 * a + 1
                 w == j - k
                 y == i + k
      <3>1. f \in Nat /\ f < c
        BY <2>2
      <3>2. w \in Nat /\ w < k /\ y \in Nat /\ y + w = i + j
        <4> HIDE DEF k
        <4>1. QED
          BY <2>1, <2>5
      <3>3. Sh(d + 1, a) + j = Sh(d, f) + w
        <4> DEFINE z == Sh(d, 2 * a)
        <4> HIDE DEF z, k
        <4>1. z \in Nat /\ Sh(d + 1, a) = z /\ Sh(d, f) = z + k
          BY <2>3 DEF z
        <4>2. QED
          BY <4>1, <2>1
      <3>4. tr[0] = St(Sh(d, f) + w, Sh(d, c) + t, h)
        BY <2>2, <3>3
      <3> HIDE DEF f, w, y
      <3>5. CompleteFall(leaves, tr, d, f, c, y, w)
        BY <2>0, <2>2, <3>1, <3>2, <3>4
      <3>6. f = 2 * a + 1 /\ y = i + Pow(d)
        BY DEF f, y
      <3>7. QED
        BY <2>2, <3>1, <3>2, <3>5, <3>6, FallChild
    <2>6. QED
      BY <2>4, <2>5
  <1> HIDE DEF S
  <1>3. \A d \in Nat : d \in S
    BY <1>1, <1>2, PowRec!Induction
  <1>4. QED
    BY <1>3 DEF S

(* On the last node of a level, skip_even and one sibling lead to the last   *)
(* node of a higher level, and the sibling is joined from the left.          *)
LEMMA SkipEvenDiagonal == \A y \in Nat : \E z \in Nat : skip_even(Cursor(y, y)) = Cursor(z, z)
  <1> DEFINE S == {y \in Nat : \E z \in Nat : skip_even(Cursor(y, y)) = Cursor(z, z)}
  <1>1. ASSUME NEW y \in Nat, \A q \in Nat : q < y => q \in S PROVE y \in S
    <2>1. CASE y % 2 = 0 /\ y # 0
      <3> DEFINE q == y \div 2
      <3>1. q \in Nat /\ q < y
        BY <2>1
      <3>2. skip_even(Cursor(y, y)) = skip_even(Cursor(q, q))
        BY <2>1, SkipAt
      <3> HIDE DEF q
      <3>3. q \in S
        BY <1>1, <3>1
      <3>4. QED
        BY <3>2, <3>3
    <2>2. CASE ~(y % 2 = 0 /\ y # 0)
      <3>1. skip_even(Cursor(y, y)) = Cursor(y, y)
        BY <2>2, SkipAt
      <3>2. QED
        BY <3>1
    <2>3. QED
      BY <2>1, <2>2
  <1> HIDE DEF S
  <1>2. \A y \in Nat : y \in S
    BY <1>1, PowRec!StrongInduction
  <1>3. QED
    BY <1>2 DEF S

(* On the right edge a climb only takes siblings on its left, and stays on  *)
(* the edge.                                                                *)
LEMMA AbsorbDiagonal ==
    ASSUME NEW y \in Nat, NEW h, NEW x
    PROVE  \E z \in Nat : absorb_sibling(St(y, y, h), x) = St(z, z, node_hash(x, h))
  <1> DEFINE c == Cursor(y, y)
  <1>1. c.fn = c.sn
    BY CursorParts
  <1>2. joins_left(c)
    BY <1>1 DEF joins_left
  <1>3. PICK z \in Nat : skip_even(c) = Cursor(z, z)
    BY SkipEvenDiagonal
  <1>4. halve(Cursor(z, z)) = Cursor(z \div 2, z \div 2) /\ z \div 2 \in Nat
    BY AtType
  <1> HIDE DEF c
  <1>5. absorb_sibling([at |-> c, h |-> h], x) = [at |-> halve(skip_even(c)), h |-> node_hash(x, h)]
    BY <1>2 DEF absorb_sibling
  <1>6. QED
    BY <1>3, <1>4, <1>5 DEF c, St

(* From the last node of a level on, every sibling is joined from the left.  *)
LEMMA LastStays ==
    ASSUME NEW path, NEW tr, Steps(path, tr),
           NEW l \in Nat, NEW x \in Nat, tr[l] = St(x, x, tr[l].h)
    PROVE  \A k \in Nat : k >= l => tr[k + 1].h = node_hash(path[k + 1], tr[k].h)
  <1> DEFINE S == {q \in Nat : \E y \in Nat : tr[l + q] = St(y, y, tr[l + q].h)}
  <1>1. 0 \in S
    <2>1. l + 0 = l
      OBVIOUS
    <2>2. QED
      BY <2>1
  <1>2. ASSUME NEW k \in Nat, NEW y \in Nat, tr[k] = St(y, y, tr[k].h)
        PROVE  /\ \E z \in Nat : tr[k + 1] = St(z, z, tr[k + 1].h)
               /\ tr[k + 1].h = node_hash(path[k + 1], tr[k].h)
    <2> DEFINE h == tr[k].h
               p == path[k + 1]
    <2>1. tr[k + 1] = absorb_sibling(tr[k], p)
      BY DEF Steps
    <2> HIDE DEF h, p
    <2>2. PICK z \in Nat : absorb_sibling(St(y, y, h), p) = St(z, z, node_hash(p, h))
      BY AbsorbDiagonal
    <2>3. tr[k + 1] = St(z, z, node_hash(p, h))
      BY <1>2, <2>1, <2>2 DEF h
    <2>4. tr[k + 1].h = node_hash(p, h)
      BY <2>3, StParts
    <2>5. QED
      BY <2>3, <2>4 DEF h, p
  <1>3. ASSUME NEW q \in Nat, q \in S PROVE q + 1 \in S
    <2>1. PICK y \in Nat : tr[l + q] = St(y, y, tr[l + q].h)
      BY <1>3
    <2>2. l + q \in Nat /\ l + (q + 1) = (l + q) + 1
      OBVIOUS
    <2>3. QED
      BY <1>2, <2>1, <2>2
  <1> HIDE DEF S
  <1>4. \A q \in Nat : q \in S
    BY <1>1, <1>3, PowRec!Induction
  <1>5. ASSUME NEW k \in Nat, k >= l PROVE tr[k + 1].h = node_hash(path[k + 1], tr[k].h)
    <2>1. k - l \in Nat /\ l + (k - l) = k
      BY <1>5
    <2>2. \E y \in Nat : tr[k] = St(y, y, tr[k].h)
      BY <1>4, <2>1 DEF S
    <2>3. QED
      BY <1>2, <2>2
  <1>6. QED
    BY <1>5

(* Down the last subtree of a level: after l siblings the climb is at its    *)
(* root, at no other moment is its hash that of the subtree, and before      *)
(* that the verifier's indices are not used up.                              *)
LastFallAt(leaves, tr, n, a, i, j, l, u) ==
    /\ tr[l] = St(Sh(u, a), Sh(u, a), tr[l].h)
    /\ tr[l].h = mth_range(leaves, i, n) => tr[0].h = leaves[i + j + 1]
    /\ \A k \in Nat : k < l => tr[k].at.sn # 0
    /\ \A k \in Nat : k >= l /\ tr[k].h = mth_range(leaves, i, n) => k = l

LastFall(leaves, tr, n, a, i, j) ==
    \E l, u \in Nat : LastFallAt(leaves, tr, n, a, i, j, l, u)

(* A subtree of one leaf. *)
LEMMA LastFallLeaf ==
    ASSUME NEW leaves, NEW size \in Nat, Bare(leaves, size), NEW path, NEW tr, Steps(path, tr),
           NEW e \in Nat, NEW a \in Nat, NEW i \in Nat, i < size,
           tr[0] = St(Sh(e, a), Sh(e, a), tr[0].h)
    PROVE  LastFallAt(leaves, tr, 1, a, i, 0, 0, e)
  <1>1. mth_range(leaves, i, 1) = leaves[i + 1] /\ i + 0 + 1 = i + 1 /\ i + 1 \in 1..size
    BY MthLeaf
  <1>2. ASSUME NEW k \in Nat, k >= 0, tr[k].h = leaves[i + 1] PROVE k = 0
    <2> SUFFICES ASSUME k # 0 PROVE FALSE
      OBVIOUS
    <2>1. k - 1 \in Nat /\ (k - 1) + 1 = k
      OBVIOUS
    <2>2. \E x : tr[k].h = node_hash(x, tr[k - 1].h) \/ tr[k].h = node_hash(tr[k - 1].h, x)
      BY <2>1, StepIsNode
    <2>3. QED
      BY <1>1, <1>2, <2>2 DEF Bare
  <1>3. QED
    BY <1>1, <1>2 DEF LastFallAt

(* The leaf lies in the left part, a complete subtree. *)
LEMMA LastFallLeft ==
    ASSUME NEW leaves, NEW size \in Nat, Bare(leaves, size), NEW path, NEW tr, Steps(path, tr),
           NEW n \in Nat, n >= 2, NEW e \in Nat, NEW a \in Nat, NEW d \in Nat, NEW u \in Nat,
           Parts(n, e, a, d, u), NEW i \in Nat, i + n <= size, NEW j \in Nat, j < Pow(d),
           tr[0] = St(Sh(e, a) + j, Sh(e, a) + (n - 1), tr[0].h)
    PROVE  LastFallAt(leaves, tr, n, a, i, j, d + 1, u)
  <1> DEFINE c == Sh(u, a)
             k == Pow(d)
             x == Sh(d, 2 * c)
             lo == mth_range(leaves, i, k)
             hi == mth_range(leaves, i + k, n - k)
             b == 2 * c
             o == 2 * c + 1
             t == n - 1 - k
             h == tr[d].h
             p == path[d + 1]
  <1>1. /\ split(n) = k /\ k \in Nat \ {0} /\ k < n /\ n <= 2 * k
        /\ c \in Nat /\ Sh(e, a) = x /\ Sh(d, o) = x + k /\ x \in Nat
    BY DEF Parts
  <1>2. mth_range(leaves, i, n) = node_hash(lo, hi)
    <2>1. mth_range(leaves, i, n) =
            node_hash(mth_range(leaves, i, split(n)),
                      mth_range(leaves, i + split(n), n - split(n)))
      BY MthNode
    <2> HIDE DEF k
    <2>2. QED
      BY <1>1, <2>1
  <1> HIDE DEF c, k, x
  <1>3. /\ b \in Nat /\ o \in Nat /\ b < o /\ b % 2 = 0 /\ b # o /\ b \div 2 = c /\ o \div 2 = c
        /\ t \in Nat /\ t < k /\ x + (n - 1) = (x + k) + t /\ o # 0
    BY <1>1
  <1>4. tr[0] = St(Sh(d, b) + j, Sh(d, o) + t, tr[0].h)
    BY <1>1, <1>3 DEF x
  <1> HIDE DEF b, o, t
  <1>5. CompleteFall(leaves, tr, d, b, o, i, j)
    <2>1. \A y, z, w, v, r \in Nat :
             y < z /\ v < Pow(d) /\ r < Pow(d) /\ tr[0] = St(Sh(d, y) + v, Sh(d, z) + r, tr[0].h)
                => CompleteFall(leaves, tr, d, y, z, w, v)
      BY CompleteFalls
    <2>2. QED
      BY <1>3, <1>4, <2>1 DEF k
  <1>6. /\ tr[d] = St(b, o, h)
        /\ h = lo => tr[0].h = leaves[i + j + 1]
        /\ \A y \in Nat : y < d => tr[y].at.sn # 0
    BY <1>5 DEF CompleteFall, k
  <1>7. tr[d + 1] = absorb_sibling(tr[d], p)
    BY DEF Steps
  <1>8. tr[d].at.sn = o
    BY <1>6, StParts, CursorParts
  <1> HIDE DEF h, p
  <1>9. absorb_sibling(St(b, o, h), p) = St(b \div 2, o \div 2, node_hash(h, p))
    BY <1>3, AbsorbRight
  <1>10. tr[d + 1] = St(c, c, node_hash(h, p))
    BY <1>3, <1>6, <1>7, <1>9
  <1>11. tr[d + 1].h = node_hash(h, p)
    BY <1>10, StParts
  <1> HIDE DEF lo, hi
  <1>12. tr[d + 1].h = mth_range(leaves, i, n) => tr[0].h = leaves[i + j + 1]
    <2>1. node_hash(h, p) = node_hash(lo, hi) => h = lo
      BY NodeParts
    <2>2. QED
      BY <1>2, <1>6, <1>11, <2>1
  <1>13. ASSUME NEW y \in Nat, y < d + 1 PROVE tr[y].at.sn # 0
    <2>1. y < d \/ y = d
      BY <1>13
    <2>2. QED
      BY <1>3, <1>6, <1>8, <2>1
  <1>14. ASSUME NEW y \in Nat, y >= d + 1, tr[y].h = mth_range(leaves, i, n) PROVE y = d + 1
    <2> SUFFICES ASSUME y # d + 1 PROVE FALSE
      OBVIOUS
    <2> DEFINE z == y - 1
    <2>1. z \in Nat /\ z + 1 = y /\ d < z
      BY <1>14
    <2> HIDE DEF z
    <2>2. \E w : tr[z + 1].h = node_hash(w, tr[z].h) \/ tr[z + 1].h = node_hash(tr[z].h, w)
      BY <2>1, StepIsNode
    <2>3. tr[z].h = lo \/ tr[z].h = hi
      BY <1>2, <1>14, <2>1, <2>2, NodeParts
    <2>4. \A f, g \in Nat : 1 <= g /\ f + g <= size /\ g <= Pow(d) => tr[z].h # mth_range(leaves, f, g)
      BY <2>1, TooDeep
    <2>5. /\ 1 <= k /\ i + k <= size /\ k <= Pow(d) /\ i + k \in Nat /\ n - k \in Nat
          /\ 1 <= n - k /\ (i + k) + (n - k) <= size /\ n - k <= Pow(d)
      <3>1. k = Pow(d)
        BY DEF k
      <3>2. QED
        BY <1>1, <3>1
    <2>6. tr[z].h # lo /\ tr[z].h # hi
      BY <1>1, <2>4, <2>5 DEF lo, hi
    <2>7. QED
      BY <2>3, <2>6
  <1>15. tr[d + 1] = St(Sh(u, a), Sh(u, a), tr[d + 1].h)
    BY <1>10, <1>11 DEF c
  <1>16. QED
    BY <1>12, <1>13, <1>14, <1>15 DEF LastFallAt

(* The leaf lies in the right part, again the last subtree of its level. *)
LEMMA LastFallRight ==
    ASSUME NEW leaves, NEW path, NEW tr, Steps(path, tr),
           NEW n \in Nat, n >= 2, NEW e \in Nat, NEW a \in Nat, NEW d \in Nat, NEW u \in Nat,
           Parts(n, e, a, d, u), NEW i \in Nat, NEW j \in Nat,
           NEW b \in Nat, b = 2 * Sh(u, a) + 1, NEW q \in Nat, q = n - Pow(d),
           NEW s \in Nat, s = i + Pow(d), NEW t \in Nat, s + t = i + j,
           NEW l \in Nat, NEW v \in Nat, LastFallAt(leaves, tr, q, b, s, t, l, v)
    PROVE  LastFallAt(leaves, tr, n, a, i, j, l + 1, u)
  <1> DEFINE c == Sh(u, a)
             k == Pow(d)
             lo == mth_range(leaves, i, k)
             hi == mth_range(leaves, s, q)
             w == Sh(v, b)
             h == tr[l].h
             p == path[l + 1]
  <1>1. split(n) = k /\ k \in Nat \ {0} /\ k < n /\ c \in Nat
    BY DEF Parts
  <1>2. mth_range(leaves, i, n) = node_hash(lo, hi)
    <2>1. mth_range(leaves, i, n) =
            node_hash(mth_range(leaves, i, split(n)),
                      mth_range(leaves, i + split(n), n - split(n)))
      BY MthNode
    <2>2. QED
      BY <1>1, <2>1
  <1>3. /\ tr[l] = St(w, w, h)
        /\ h = hi => tr[0].h = leaves[s + t + 1]
        /\ \A y \in Nat : y < l => tr[y].at.sn # 0
        /\ \A y \in Nat : y >= l /\ tr[y].h = hi => y = l
    BY DEF LastFallAt
  <1>4. b % 2 = 1 /\ b \div 2 = c /\ b # 0
    <2> HIDE DEF c
    <2>1. b = 2 * c + 1
      BY DEF c
    <2>2. QED
      BY <1>1, <2>1
  <1>5. w \in Nat \ {0}
    BY <1>4, ShPositive
  <1>6. tr[l + 1] = absorb_sibling(tr[l], p)
    BY DEF Steps
  <1>7. tr[l].at.sn = w
    BY <1>3, StParts, CursorParts
  <1>8. absorb_sibling(St(w, w, h), p) = St(b \div 2, b \div 2, node_hash(p, h))
    BY <1>4, AbsorbLast
  <1> HIDE DEF lo, hi, w, h, p
  <1>9. tr[l + 1] = St(c, c, node_hash(p, h))
    BY <1>3, <1>4, <1>6, <1>8
  <1>10. tr[l + 1].h = node_hash(p, h)
    BY <1>9, StParts
  <1>11. tr[l + 1].h = mth_range(leaves, i, n) => tr[0].h = leaves[i + j + 1]
    <2>1. node_hash(p, h) = node_hash(lo, hi) => h = hi
      BY NodeParts
    <2>2. s + t + 1 = i + j + 1
      OBVIOUS
    <2>3. QED
      BY <1>2, <1>3, <1>10, <2>1, <2>2
  <1>12. ASSUME NEW y \in Nat, y < l + 1 PROVE tr[y].at.sn # 0
    <2>1. y < l \/ y = l
      BY <1>12
    <2>2. QED
      BY <1>3, <1>5, <1>7, <2>1
  <1>13. ASSUME NEW y \in Nat, y >= l + 1, tr[y].h = mth_range(leaves, i, n) PROVE y = l + 1
    <2> DEFINE z == y - 1
    <2>1. z \in Nat /\ z + 1 = y /\ z >= l
      BY <1>13
    <2> HIDE DEF z
    <2>2. tr[z + 1].h = node_hash(path[z + 1], tr[z].h)
      <3>1. tr[l] = St(w, w, tr[l].h)
        BY <1>3 DEF h
      <3>2. \A g \in Nat : g >= l => tr[g + 1].h = node_hash(path[g + 1], tr[g].h)
        BY <1>5, <3>1, LastStays
      <3>3. QED
        BY <2>1, <3>2
    <2>3. tr[z].h = hi
      <3>1. node_hash(path[z + 1], tr[z].h) = node_hash(lo, hi) => tr[z].h = hi
        BY NodeParts
      <3>2. QED
        BY <1>2, <1>13, <2>1, <2>2, <3>1
    <2>4. z = l
      BY <1>3, <2>1, <2>3
    <2>5. QED
      BY <2>1, <2>4
  <1>14. tr[l + 1] = St(Sh(u, a), Sh(u, a), tr[l + 1].h)
    BY <1>9, <1>10
  <1>15. l + 1 \in Nat
    OBVIOUS
  <1>16. QED
    BY <1>11, <1>12, <1>13, <1>14 DEF LastFallAt

(* The climb starts at leaf j of the last subtree of level e, of n leaves    *)
(* from i.                                                                   *)
FromLast(tr, size, n, e, a, i, j) ==
    /\ n <= Pow(e) /\ j < n /\ i + n <= size
    /\ tr[0] = St(Sh(e, a) + j, Sh(e, a) + (n - 1), tr[0].h)

(* A climb that leaves the last subtree with its root entered it with the   *)
(* right leaf.                                                              *)
LEMMA LastFalls ==
    ASSUME NEW leaves, NEW size \in Nat, Bare(leaves, size), NEW path, NEW tr, Steps(path, tr)
    PROVE  \A n \in Nat : \A e, a, i, j \in Nat :
             FromLast(tr, size, n, e, a, i, j) => LastFall(leaves, tr, n, a, i, j)
  <1> DEFINE S == {n \in Nat : \A e, a, i, j \in Nat :
             FromLast(tr, size, n, e, a, i, j) => LastFall(leaves, tr, n, a, i, j)}
  <1>1. ASSUME NEW n \in Nat, \A q \in Nat : q < n => q \in S PROVE n \in S
    <2> SUFFICES ASSUME NEW e \in Nat, NEW a \in Nat, NEW i \in Nat, NEW j \in Nat,
                        FromLast(tr, size, n, e, a, i, j)
                 PROVE  LastFall(leaves, tr, n, a, i, j)
      OBVIOUS
    <2>a. /\ n <= Pow(e) /\ j < n /\ i + n <= size
          /\ tr[0] = St(Sh(e, a) + j, Sh(e, a) + (n - 1), tr[0].h)
      BY DEF FromLast
    <2>0. \A q \in Nat : q < n => \A x, y, z, w \in Nat :
             FromLast(tr, size, q, x, y, z, w) => LastFall(leaves, tr, q, y, z, w)
      BY <1>1
    <2> HIDE DEF S
    <2>1. CASE n = 1
      <3> DEFINE y == Sh(e, a)
      <3>1. y \in Nat
        BY ShType
      <3> HIDE DEF y
      <3>2. y + j = y /\ y + (n - 1) = y /\ j = 0 /\ i < size
        BY <2>1, <2>a, <3>1
      <3>3. tr[0] = St(y, y, tr[0].h)
        BY <2>a, <3>2 DEF y
      <3>4. LastFallAt(leaves, tr, 1, a, i, 0, 0, e)
        BY <3>2, <3>3, LastFallLeaf DEF y
      <3>5. QED
        BY <2>1, <3>2, <3>4 DEF LastFall
    <2>2. CASE n >= 2
      <3>1. PICK d, u \in Nat : Parts(n, e, a, d, u)
        BY <2>2, <2>a, LastParts
      <3> DEFINE c == Sh(u, a)
                 k == Pow(d)
                 x == Sh(e, a)
      <3>2. /\ k \in Nat \ {0} /\ k < n /\ n <= 2 * k
            /\ c \in Nat /\ Sh(d, 2 * c + 1) = x + k /\ x \in Nat
        BY <3>1 DEF Parts
      <3>3. CASE j < k
        <4>1. LastFallAt(leaves, tr, n, a, i, j, d + 1, u)
          BY <2>2, <2>a, <3>1, <3>3, LastFallLeft
        <4>2. d + 1 \in Nat
          OBVIOUS
        <4>3. QED
          BY <4>1, <4>2 DEF LastFall
      <3>4. CASE ~(j < k)
        <4> DEFINE q == n - k
                   t == j - k
                   s == i + k
                   b == 2 * c + 1
        <4> HIDE DEF c, k, x
        <4>1. /\ q \in Nat /\ q < n /\ q <= k /\ t \in Nat /\ t < q /\ s \in Nat
              /\ s + t = i + j /\ s + q <= size /\ b \in Nat
              /\ x + j = (x + k) + t /\ x + (n - 1) = (x + k) + (q - 1)
          BY <2>a, <3>2, <3>4
        <4>2. Sh(d, b) = x + k
          BY <3>2
        <4> HIDE DEF q, t, s, b
        <4>3. tr[0] = St(Sh(d, b) + t, Sh(d, b) + (q - 1), tr[0].h)
          BY <2>a, <4>1, <4>2 DEF x
        <4>4. LastFall(leaves, tr, q, b, s, t)
          BY <4>1, <4>3, <2>0 DEF k, FromLast
        <4>5. PICK l, v \in Nat : LastFallAt(leaves, tr, q, b, s, t, l, v)
          BY <4>4 DEF LastFall
        <4>6. b = 2 * Sh(u, a) + 1 /\ q = n - Pow(d) /\ s = i + Pow(d)
          BY DEF b, q, s, c, k
        <4>7. LastFallAt(leaves, tr, n, a, i, j, l + 1, u)
          BY <2>2, <3>1, <4>1, <4>5, <4>6, LastFallRight
        <4>8. l + 1 \in Nat
          OBVIOUS
        <4>9. QED
          BY <4>7, <4>8 DEF LastFall
      <3>5. QED
        BY <3>3, <3>4
    <2>3. QED
      BY <2>a, <2>1, <2>2
  <1> HIDE DEF S
  <1>2. \A n \in Nat : n \in S
    BY <1>1, PowRec!StrongInduction
  <1>3. QED
    BY <1>2 DEF S

(* tr is a climb along path that ends at the root when it has used up the     *)
(* indices.                                                                  *)
ClimbsTo(leaves, i, leaf, path, tr) ==
    /\ tr[0] = St(i, Len(leaves) - 1, leaf) /\ Steps(path, tr)
    /\ tr[Len(path)].h = mth(leaves) /\ tr[Len(path)].at.sn = 0
    /\ \A k \in Nat : k < Len(path) => tr[k].at.sn # 0

(* What verifyInclusion accepts is a climb to the root from the leaf at that *)
(* index.                                                                   *)
LEMMA AcceptedClimb ==
    ASSUME NEW T, NEW leaves \in Seq(T), Bare(leaves, Len(leaves)),
           NEW i \in Nat, NEW leaf, NEW U, NEW path \in Seq(U),
           verifyInclusion(leaf, i, Len(leaves), path, mth(leaves))
    PROVE  i < Len(leaves) /\ leaf = leaves[i + 1] /\ \E tr : ClimbsTo(leaves, i, leaf, path, tr)
  <1> DEFINE n == Len(leaves)
             base == St(i, n - 1, leaf)
             end == Run(i, n - 1, leaf, path)
             len == Len(path)
  <1>1. n \in Nat /\ len \in Nat
    OBVIOUS
  <1>2. i < n /\ end.h = mth(leaves) /\ end.at.sn = 0
    BY DEF verifyInclusion, climb, Run, St, Cursor
  <1>3. PICK tr : Climbing!Trace(base, path, tr) /\ tr[len] = Climbing!Fold(base, path)
    BY Climbing!FoldTrace
  <1>4. tr[len] = end
    BY <1>3, RunIsFold
  <1>5. tr[0] = base /\ Steps(path, tr)
    BY <1>3 DEF Climbing!Trace, Steps
  <1> HIDE DEF end, len, n
  <1>6. tr[0].h = leaf /\ tr[0] = St(i, n - 1, tr[0].h)
    BY <1>5, StParts
  <1>7. PICK e \in Nat : n <= Pow(e)
    BY <1>1, CoveringPower
  <1>8. \A d \in Nat : Sh(d, 0) = 0
    BY ShBase
  <1>9. tr[0] = St(Sh(e, 0) + i, Sh(e, 0) + (n - 1), tr[0].h)
    BY <1>1, <1>6, <1>8
  <1>10. LastFall(leaves, tr, n, 0, 0, i)
    <2>1. \A q \in Nat : \A x, y, z, w \in Nat :
             FromLast(tr, n, q, x, y, z, w) => LastFall(leaves, tr, q, y, z, w)
      BY <1>1, <1>5, LastFalls DEF n
    <2>2. 0 + n <= n
      BY <1>1
    <2>3. FromLast(tr, n, n, e, 0, 0, i)
      BY <1>2, <1>7, <1>9, <2>2 DEF FromLast
    <2>4. QED
      BY <1>1, <2>1, <2>3
  <1>11. PICK l, u \in Nat : LastFallAt(leaves, tr, n, 0, 0, i, l, u)
    BY <1>10 DEF LastFall
  <1>12. tr[len].h = mth_range(leaves, 0, n) /\ tr[len].at.sn = 0
    BY <1>2, <1>4 DEF mth, n
  <1>13. len >= l
    BY <1>1, <1>11, <1>12 DEF LastFallAt
  <1>14. len = l
    BY <1>1, <1>11, <1>12, <1>13 DEF LastFallAt
  <1>15. tr[0].h = leaves[0 + i + 1]
    BY <1>11, <1>12, <1>14 DEF LastFallAt
  <1>16. leaf = leaves[i + 1]
    BY <1>6, <1>15
  <1>17. \A k \in Nat : k < len => tr[k].at.sn # 0
    BY <1>11, <1>14 DEF LastFallAt
  <1>18. tr[len].h = mth(leaves)
    BY <1>2, <1>4
  <1>19. ClimbsTo(leaves, i, leaf, path, tr)
    BY <1>5, <1>12, <1>17, <1>18 DEF ClimbsTo, len, n
  <1>20. QED
    BY <1>2, <1>16, <1>19 DEF n

(* Whatever path a server offers, verifyInclusion accepts no leaf but the    *)
(* one at that index of the log behind the head: paths that are too short,   *)
(* too long, or taken from another place of the tree included.               *)
THEOREM InclusionIsSound ==
    ASSUME NEW T, NEW leaves \in Seq(T), Bare(leaves, Len(leaves)),
           NEW i \in Nat, NEW leaf, NEW U, NEW path \in Seq(U),
           verifyInclusion(leaf, i, Len(leaves), path, mth(leaves))
    PROVE  leaf = leaves[i + 1]
  BY AcceptedClimb

(* Two climbs from the same leaf to the same root. *)
LEMMA TwoClimbs ==
    ASSUME NEW leaves, NEW i, NEW leaf, NEW U, NEW p \in Seq(U), NEW tp, ClimbsTo(leaves, i, leaf, p, tp),
           NEW q \in Seq(U), NEW tq, ClimbsTo(leaves, i, leaf, q, tq)
    PROVE  p = q
  <1> DEFINE n == Len(p)
  <1>1. n \in Nat /\ Len(q) \in Nat
    OBVIOUS
  <1>2. /\ \A k \in Nat : tp[k + 1] = absorb_sibling(tp[k], p[k + 1])
        /\ \A k \in Nat : tq[k + 1] = absorb_sibling(tq[k], q[k + 1])
        /\ tp[0] = tq[0]
    BY DEF ClimbsTo, Steps
  <1>3. ASSUME NEW x, NEW y, NEW c, NEW e, x.at = y.at
        PROVE  /\ absorb_sibling(x, c).at = absorb_sibling(y, e).at
               /\ absorb_sibling(x, c).h = absorb_sibling(y, e).h => x.h = y.h /\ c = e
    <2>1. CASE joins_left(x.at)
      <3>1. absorb_sibling(x, c).at = halve(skip_even(x.at)) /\ absorb_sibling(x, c).h = node_hash(c, x.h)
        BY <2>1 DEF absorb_sibling
      <3>2. absorb_sibling(y, e).at = halve(skip_even(x.at)) /\ absorb_sibling(y, e).h = node_hash(e, y.h)
        BY <1>3, <2>1 DEF absorb_sibling
      <3> DEFINE xh == x.h
                 yh == y.h
      <3> HIDE DEF xh, yh
      <3>3. node_hash(c, xh) = node_hash(e, yh) => xh = yh /\ c = e
        BY NodeParts
      <3>4. QED
        BY <3>1, <3>2, <3>3 DEF xh, yh
    <2>2. CASE ~joins_left(x.at)
      <3>1. absorb_sibling(x, c).at = halve(x.at) /\ absorb_sibling(x, c).h = node_hash(x.h, c)
        BY <2>2 DEF absorb_sibling
      <3>2. absorb_sibling(y, e).at = halve(x.at) /\ absorb_sibling(y, e).h = node_hash(y.h, e)
        BY <1>3, <2>2 DEF absorb_sibling
      <3> DEFINE xh == x.h
                 yh == y.h
      <3> HIDE DEF xh, yh
      <3>3. node_hash(xh, c) = node_hash(yh, e) => xh = yh /\ c = e
        BY NodeParts
      <3>4. QED
        BY <3>1, <3>2, <3>3 DEF xh, yh
    <2>3. QED
      BY <2>1, <2>2
  <1>a. ASSUME NEW k \in Nat, tp[k].at = tq[k].at
        PROVE  /\ tp[k + 1].at = tq[k + 1].at
               /\ tp[k + 1].h = tq[k + 1].h => tp[k].h = tq[k].h /\ p[k + 1] = q[k + 1]
    <2> DEFINE x == tp[k]
               y == tq[k]
               c == p[k + 1]
               e == q[k + 1]
    <2>1. tp[k + 1] = absorb_sibling(x, c) /\ tq[k + 1] = absorb_sibling(y, e) /\ x.at = y.at
      BY <1>2, <1>a
    <2> HIDE DEF x, y, c, e
    <2>2. /\ absorb_sibling(x, c).at = absorb_sibling(y, e).at
          /\ absorb_sibling(x, c).h = absorb_sibling(y, e).h => x.h = y.h /\ c = e
      BY <1>3, <2>1
    <2>3. QED
      BY <2>1, <2>2 DEF x, y, c, e
  <1>4. \A k \in Nat : tp[k].at = tq[k].at
    <2> DEFINE S == {k \in Nat : tp[k].at = tq[k].at}
    <2>1. 0 \in S
      BY <1>2
    <2>2. ASSUME NEW k \in Nat, k \in S PROVE k + 1 \in S
      BY <1>a, <2>2
    <2> HIDE DEF S
    <2>3. \A k \in Nat : k \in S
      BY <2>1, <2>2, PowRec!Induction
    <2>4. QED
      BY <2>3 DEF S
  <1>5. Len(q) = n
    <2>1. /\ tp[n].at.sn = 0 /\ \A k \in Nat : k < n => tp[k].at.sn # 0
          /\ tq[Len(q)].at.sn = 0 /\ \A k \in Nat : k < Len(q) => tq[k].at.sn # 0
      BY DEF ClimbsTo
    <2> HIDE DEF n
    <2>2. ~(n < Len(q)) /\ ~(Len(q) < n)
      BY <1>1, <1>4, <2>1
    <2>3. QED
      BY <1>1, <2>2
  <1>6. tp[n].h = tq[n].h
    BY <1>5 DEF ClimbsTo
  <1> HIDE DEF n
  <1>7. \A x \in Nat : x <= n => tp[n - x].h = tq[n - x].h
    <2> DEFINE S == {x \in Nat : x <= n => tp[n - x].h = tq[n - x].h}
    <2>1. 0 \in S
      <3>1. n - 0 = n
        BY <1>1
      <3>2. QED
        BY <1>6, <3>1
    <2>2. ASSUME NEW x \in Nat, x \in S PROVE x + 1 \in S
      <3> SUFFICES ASSUME x + 1 <= n PROVE tp[n - (x + 1)].h = tq[n - (x + 1)].h
        OBVIOUS
      <3> DEFINE k == n - (x + 1)
      <3>1. k \in Nat /\ k + 1 = n - x /\ x <= n
        BY <1>1
      <3>2. tp[k + 1].h = tq[k + 1].h
        BY <2>2, <3>1
      <3> HIDE DEF k
      <3>3. tp[k].h = tq[k].h
        BY <1>a, <1>4, <3>1, <3>2
      <3>4. QED
        BY <3>3 DEF k
    <2> HIDE DEF S
    <2>3. \A x \in Nat : x \in S
      BY <2>1, <2>2, PowRec!Induction
    <2>4. QED
      BY <2>3 DEF S
  <1>8. ASSUME NEW y \in 1..n PROVE p[y] = q[y]
    <2> DEFINE k == y - 1
    <2>1. k \in Nat /\ k + 1 = y /\ n - y \in Nat /\ n - y <= n /\ n - (n - y) = y
      BY <1>1
    <2> HIDE DEF k
    <2>2. tp[k + 1].h = tq[k + 1].h
      BY <1>7, <2>1
    <2>3. p[k + 1] = q[k + 1]
      BY <1>a, <1>4, <2>1, <2>2
    <2>4. QED
      BY <2>1, <2>3
  <1>9. QED
    BY <1>5, <1>8 DEF n

(* A receipt has one proof: the only path that verifyInclusion accepts for   *)
(* an index is the one that inclusion_path gives.                            *)
THEOREM InclusionIsUnique ==
    ASSUME NEW T, NEW leaves \in Seq(T), Bare(leaves, Len(leaves)),
           NEW i \in Nat, NEW leaf, NEW U, NEW path \in Seq(U),
           verifyInclusion(leaf, i, Len(leaves), path, mth(leaves))
    PROVE  path = inclusion(leaves, i)
  <1> DEFINE given == inclusion(leaves, i)
             N == TreeNodes(leaves)
             W == U \cup N
  <1>1. i < Len(leaves) /\ leaf = leaves[i + 1] /\ \E tr : ClimbsTo(leaves, i, leaf, path, tr)
    BY AcceptedClimb
  <1>2. given \in Seq(N)
    BY <1>1, InclusionIsSeq
  <1>3. verifyInclusion(leaf, i, Len(leaves), given, mth(leaves))
    BY <1>1, InclusionVerifies
  <1> HIDE DEF given, N
  <1>4. \E tr : ClimbsTo(leaves, i, leaf, given, tr)
    BY <1>2, <1>3, AcceptedClimb
  <1>5. path \in Seq(W) /\ given \in Seq(W)
    BY <1>2
  <1> HIDE DEF W
  <1>6. path = given
    BY <1>1, <1>4, <1>5, TwoClimbs
  <1>7. QED
    BY <1>6 DEF given

-----------------------------------------------------------------------------
(* In two logs that share no leaf but at the same place, a hash names its    *)
(* range, and a path the size of the log that it is for.                     *)

Aligned(leaves, size, other, bound) ==
    \A x \in 1..size, y \in 1..bound : leaves[x] = other[y] => x = y

(* Of two aligned logs, equal roots are of equal ranges. *)
LEMMA MthUnique ==
    ASSUME NEW leaves, NEW size \in Nat, Bare(leaves, size),
           NEW other, NEW bound \in Nat, Bare(other, bound), Aligned(leaves, size, other, bound)
    PROVE  \A n \in Nat : \A i, j, m \in Nat :
             n # 0 /\ m # 0 /\ i + n <= size /\ j + m <= bound
             /\ mth_range(leaves, i, n) = mth_range(other, j, m) => i = j /\ n = m
  <1> DEFINE S == {n \in Nat : \A i, j, m \in Nat :
             n # 0 /\ m # 0 /\ i + n <= size /\ j + m <= bound
             /\ mth_range(leaves, i, n) = mth_range(other, j, m) => i = j /\ n = m}
  <1>0. ASSUME NEW i \in Nat, i + 1 <= size, NEW j \in Nat, NEW m \in Nat, m >= 2
        PROVE  leaves[i + 1] # mth_range(other, j, m)
    <2>1. i + 1 \in 1..size
      BY <1>0
    <2>2. PICK l, r : mth_range(other, j, m) = node_hash(l, r)
      BY <1>0, MthNode
    <2>3. QED
      BY <2>1, <2>2 DEF Bare
  <1>a. ASSUME NEW j \in Nat, j + 1 <= bound, NEW i \in Nat, NEW n \in Nat, n >= 2
        PROVE  other[j + 1] # mth_range(leaves, i, n)
    <2>1. j + 1 \in 1..bound
      BY <1>a
    <2>2. PICK l, r : mth_range(leaves, i, n) = node_hash(l, r)
      BY <1>a, MthNode
    <2>3. QED
      BY <2>1, <2>2 DEF Bare
  <1>1. ASSUME NEW n \in Nat, \A q \in Nat : q < n => q \in S PROVE n \in S
    <2> SUFFICES ASSUME NEW i \in Nat, NEW j \in Nat, NEW m \in Nat, n # 0, m # 0,
                        i + n <= size, j + m <= bound,
                        mth_range(leaves, i, n) = mth_range(other, j, m)
                 PROVE  i = j /\ n = m
      OBVIOUS
    <2>0. \A q \in Nat : q < n => \A x, y, z \in Nat :
             q # 0 /\ z # 0 /\ x + q <= size /\ y + z <= bound
             /\ mth_range(leaves, x, q) = mth_range(other, y, z) => x = y /\ q = z
      BY <1>1
    <2> HIDE DEF S
    <2>1. CASE n = 1 /\ m = 1
      <3>1. leaves[i + 1] = other[j + 1]
        BY <2>1, MthLeaf
      <3>2. i + 1 \in 1..size /\ j + 1 \in 1..bound
        BY <2>1
      <3>3. i + 1 = j + 1
        BY <3>1, <3>2 DEF Aligned
      <3>4. QED
        BY <2>1, <3>3
    <2>2. CASE n = 1 /\ m >= 2
      <3>1. mth_range(leaves, i, n) = leaves[i + 1] /\ i + 1 <= size
        BY <2>2, MthLeaf
      <3>2. QED
        BY <1>0, <2>2, <3>1
    <2>3. CASE n >= 2 /\ m = 1
      <3>1. mth_range(other, j, m) = other[j + 1] /\ j + 1 <= bound
        BY <2>3, MthLeaf
      <3>2. QED
        BY <1>a, <2>3, <3>1
    <2>4. CASE n >= 2 /\ m >= 2
      <3> DEFINE k == split(n)
                 h == split(m)
                 p == n - k
                 q == m - h
                 x == i + k
                 y == j + h
                 a == mth_range(leaves, i, k)
                 b == mth_range(leaves, x, p)
                 c == mth_range(other, j, h)
                 d == mth_range(other, y, q)
      <3>1. k \in Nat /\ k # 0 /\ k < n /\ p \in Nat /\ p # 0 /\ p < n
        BY <2>4, SplitParts
      <3>2. h \in Nat /\ h # 0 /\ h < m /\ q \in Nat /\ q # 0 /\ q < m
        BY <2>4, SplitParts
      <3>3. mth_range(leaves, i, n) = node_hash(a, b)
        BY <2>4, MthNode
      <3>4. mth_range(other, j, m) = node_hash(c, d)
        BY <2>4, MthNode
      <3> HIDE DEF k, h
      <3>5. /\ x \in Nat /\ y \in Nat /\ i + k <= size /\ x + p <= size
            /\ j + h <= bound /\ y + q <= bound
        BY <3>1, <3>2
      <3>6. n = k + p /\ m = h + q
        BY <3>1, <3>2
      <3> HIDE DEF p, q, x, y, a, b, c, d
      <3>7. a = c /\ b = d
        BY <3>3, <3>4, NodeParts
      <3>8. i = j /\ k = h
        BY <2>0, <3>1, <3>2, <3>5, <3>7 DEF a, c
      <3>9. p = q
        BY <2>0, <3>1, <3>2, <3>5, <3>7 DEF b, d
      <3>10. QED
        BY <3>6, <3>8, <3>9
    <2>5. QED
      BY <2>1, <2>2, <2>3, <2>4
  <1> HIDE DEF S
  <1>2. \A n \in Nat : n \in S
    BY <1>1, PowRec!StrongInduction
  <1>3. QED
    BY <1>2 DEF S

(* The path v is p with x at the end. *)
Ended(T, v, p, x) == v = Append(p, x) /\ p \in Seq(T) /\ x \in T

(* A path that ends with a node names the node and the path before it. *)
LEMMA EndedParts ==
    ASSUME NEW T, NEW v, NEW p, NEW x, Ended(T, v, p, x)
    PROVE  v # <<>> /\ \A q, y : Ended(T, v, q, y) => p = q /\ x = y
  <1>1. v = Append(p, x) /\ p \in Seq(T) /\ x \in T
    BY DEF Ended
  <1>2. v # <<>>
    BY <1>1
  <1>3. ASSUME NEW q, NEW y, Ended(T, v, q, y) PROVE p = q /\ x = y
    <2>1. v = Append(q, y) /\ q \in Seq(T) /\ y \in T
      BY <1>3 DEF Ended
    <2>a. Len(v) = Len(p) + 1 /\ v[Len(p) + 1] = x
      BY <1>1
    <2>b. Len(v) = Len(q) + 1 /\ v[Len(q) + 1] = y
      BY <2>1
    <2>c. Len(p) \in Nat /\ Len(q) \in Nat
      BY <1>1, <2>1
    <2>3. Len(p) = Len(q) /\ Len(p) \in Nat
      BY <2>a, <2>b, <2>c
    <2>4. x = y
      BY <2>a, <2>b, <2>3
    <2>5. \A k \in 1..Len(p) : v[k] = p[k]
      BY <1>1
    <2>6. \A k \in 1..Len(p) : v[k] = q[k]
      BY <2>1, <2>3
    <2>7. QED
      BY <1>1, <2>1, <2>3, <2>4, <2>5, <2>6
  <1>4. QED
    BY <1>2, <1>3

(* A path of two or more leaves ends with the root of the other part. *)
LEMMA InclEnded ==
    ASSUME NEW leaves, NEW x \in Nat, NEW i \in Nat, NEW r \in Nat, r >= 2, i <= x, x < i + r,
           NEW T, TreeNodes(leaves) \subseteq T
    PROVE  LET path == Incl(leaves, x)
               k == split(r)
           IN  /\ k \in Nat /\ k # 0 /\ k < r /\ r - k \in Nat /\ r - k # 0 /\ r - k < r
               /\ x < i + k => Ended(T, path[r][i], path[k][i], mth_range(leaves, i + k, r - k))
               /\ ~(x < i + k) =>
                    Ended(T, path[r][i], path[r - k][i + k], mth_range(leaves, i, k))
  <1> DEFINE path == Incl(leaves, x)
             N == TreeNodes(leaves)
  <1>0. \A p \in Seq(N) : p \in Seq(T)
    OBVIOUS
  <1> DEFINE k == split(r)
  <1>1. k \in Nat /\ k # 0 /\ k < r /\ r - k \in Nat /\ r - k # 0 /\ r - k < r
    BY SplitParts
  <1>2. path[r][i] = IF x < i + k
                     THEN Append(path[k][i], mth_range(leaves, i + k, r - k))
                     ELSE Append(path[r - k][i + k], mth_range(leaves, i, k))
    BY InclNode
  <1> HIDE DEF k
  <1>3. mth_range(leaves, i + k, r - k) \in T /\ mth_range(leaves, i, k) \in T
    BY <1>1, TreeNode
  <1>4. x < i + k => path[k][i] \in Seq(T)
    BY <1>0, <1>1, InclIsSeq
  <1>5. ~(x < i + k) => path[r - k][i + k] \in Seq(T)
    <2> SUFFICES ASSUME ~(x < i + k) PROVE path[r - k][i + k] \in Seq(T)
      OBVIOUS
    <2> DEFINE y == i + k
               z == r - k
    <2>1. y \in Nat /\ z \in Nat /\ y <= x /\ x < y + z
      BY <1>1
    <2> HIDE DEF y, z
    <2>2. path[z][y] \in Seq(T)
      BY <1>0, <2>1, InclIsSeq
    <2>3. QED
      BY <2>2 DEF y, z
  <1> HIDE DEF path
  <1>6. QED
    BY <1>1, <1>2, <1>3, <1>4, <1>5 DEF k, Ended, path

(* The path to leaf x in two ranges from the same place. *)
BothHold(size, bound, x, i, n, m) ==
    n # 0 /\ m # 0 /\ i <= x /\ x < i + n /\ x < i + m /\ i + n <= size /\ i + m <= bound

(* Equal paths for one index are of equal ranges. *)
LEMMA InclSizes ==
    ASSUME NEW leaves, NEW size \in Nat, Bare(leaves, size),
           NEW other, NEW bound \in Nat, Bare(other, bound), Aligned(leaves, size, other, bound),
           NEW x \in Nat
    PROVE  \A n \in Nat : \A i, m \in Nat :
             BothHold(size, bound, x, i, n, m) /\ Incl(leaves, x)[n][i] = Incl(other, x)[m][i] => n = m
  <1> DEFINE path == Incl(leaves, x)
             opath == Incl(other, x)
             T == TreeNodes(leaves) \cup TreeNodes(other)
             S == {n \in Nat : \A i, m \in Nat :
                     BothHold(size, bound, x, i, n, m) /\ path[n][i] = opath[m][i] => n = m}
  <1>1. ASSUME NEW n \in Nat, \A q \in Nat : q < n => q \in S PROVE n \in S
    <2> SUFFICES ASSUME NEW i \in Nat, NEW m \in Nat, BothHold(size, bound, x, i, n, m),
                        path[n][i] = opath[m][i]
                 PROVE  n = m
      OBVIOUS
    <2>0. \A q \in Nat : q < n => \A y, z \in Nat :
             BothHold(size, bound, x, y, q, z) /\ path[q][y] = opath[z][y] => q = z
      BY <1>1
    <2> HIDE DEF S
    <2>1. /\ n # 0 /\ m # 0 /\ i <= x /\ x < i + n /\ x < i + m
          /\ i + n <= size /\ i + m <= bound
      BY DEF BothHold
    <2>3. path[1][i] = <<>> /\ opath[1][i] = <<>>
      BY InclLeaf
    <2>4. ASSUME NEW v, NEW p, NEW y, Ended(T, v, p, y) PROVE v # <<>>
      BY <2>4, EndedParts
    <2>5. ASSUME n >= 2 PROVE path[n][i] # <<>>
      <3> DEFINE k == split(n)
      <3>1. /\ x < i + k => Ended(T, path[n][i], path[k][i], mth_range(leaves, i + k, n - k))
            /\ ~(x < i + k) =>
                 Ended(T, path[n][i], path[n - k][i + k], mth_range(leaves, i, k))
        BY <2>1, <2>5, InclEnded
      <3> HIDE DEF k, T, path, opath
      <3>2. QED
        BY <2>4, <3>1
    <2>a. ASSUME m >= 2 PROVE opath[m][i] # <<>>
      <3> DEFINE k == split(m)
      <3>1. /\ x < i + k => Ended(T, opath[m][i], opath[k][i], mth_range(other, i + k, m - k))
            /\ ~(x < i + k) =>
                 Ended(T, opath[m][i], opath[m - k][i + k], mth_range(other, i, k))
        BY <2>1, <2>a, InclEnded
      <3> HIDE DEF k, T, path, opath
      <3>2. QED
        BY <2>4, <3>1
    <2>6. CASE n = 1 \/ m = 1
      <3> HIDE DEF path, opath
      <3>1. QED
        BY <2>1, <2>3, <2>5, <2>a, <2>6
    <2>7. CASE n >= 2 /\ m >= 2
      <3> DEFINE k == split(n)
                 h == split(m)
      <3>1. /\ k \in Nat /\ k # 0 /\ k < n /\ n - k \in Nat /\ n - k # 0 /\ n - k < n
            /\ x < i + k =>
                 Ended(T, path[n][i], path[k][i], mth_range(leaves, i + k, n - k))
            /\ ~(x < i + k) =>
                 Ended(T, path[n][i], path[n - k][i + k], mth_range(leaves, i, k))
        BY <2>1, <2>7, InclEnded
      <3>2. /\ h \in Nat /\ h # 0 /\ h < m /\ m - h \in Nat /\ m - h # 0 /\ m - h < m
            /\ x < i + h =>
                 Ended(T, opath[m][i], opath[h][i], mth_range(other, i + h, m - h))
            /\ ~(x < i + h) =>
                 Ended(T, opath[m][i], opath[m - h][i + h], mth_range(other, i, h))
        BY <2>1, <2>7, InclEnded
      <3> HIDE DEF k, h, T, path, opath
      <3>3. ASSUME NEW a \in Nat, NEW b \in Nat, NEW c \in Nat, NEW d \in Nat, b # 0, d # 0,
                   a + b <= size, c + d <= bound, mth_range(leaves, a, b) = mth_range(other, c, d)
            PROVE  a = c /\ b = d
        <4>1. \A r \in Nat : \A y, z, q \in Nat :
                 r # 0 /\ q # 0 /\ y + r <= size /\ z + q <= bound
                 /\ mth_range(leaves, y, r) = mth_range(other, z, q) => y = z /\ r = q
          BY MthUnique
        <4>2. QED
          BY <3>3, <4>1
      <3>a. ASSUME NEW p, NEW y, NEW q, NEW z, Ended(T, path[n][i], p, y), Ended(T, opath[m][i], q, z)
            PROVE  p = q /\ y = z
        BY <3>a, EndedParts
      <3>4. CASE x < i + k /\ x < i + h
        <4> DEFINE a == i + k
                   b == n - k
                   c == i + h
                   d == m - h
        <4>1. mth_range(leaves, a, b) = mth_range(other, c, d)
          BY <3>1, <3>2, <3>4, <3>a
        <4>2. a \in Nat /\ b \in Nat /\ c \in Nat /\ d \in Nat /\ b # 0 /\ d # 0
              /\ a + b <= size /\ c + d <= bound
          BY <2>1, <3>1, <3>2
        <4>3. (a = c /\ b = d) => n = m
          BY <3>1, <3>2
        <4> HIDE DEF a, b, c, d
        <4>4. QED
          BY <3>3, <4>1, <4>2, <4>3
      <3>5. CASE x < i + k /\ ~(x < i + h)
        <4> DEFINE a == i + k
                   b == n - k
        <4>1. mth_range(leaves, a, b) = mth_range(other, i, h)
          BY <3>1, <3>2, <3>5, <3>a
        <4>2. a \in Nat /\ b \in Nat /\ b # 0 /\ a + b <= size /\ i + h <= bound /\ a # i
          BY <2>1, <3>1, <3>2
        <4> HIDE DEF a, b
        <4>3. QED
          BY <3>2, <3>3, <4>1, <4>2
      <3>6. CASE ~(x < i + k) /\ x < i + h
        <4> DEFINE c == i + h
                   d == m - h
        <4>1. mth_range(leaves, i, k) = mth_range(other, c, d)
          BY <3>1, <3>2, <3>6, <3>a
        <4>2. c \in Nat /\ d \in Nat /\ d # 0 /\ c + d <= bound /\ i + k <= size /\ c # i
          BY <2>1, <3>1, <3>2
        <4> HIDE DEF c, d
        <4>3. QED
          BY <3>1, <3>3, <4>1, <4>2
      <3>7. CASE ~(x < i + k) /\ ~(x < i + h)
        <4>1. /\ mth_range(leaves, i, k) = mth_range(other, i, h)
              /\ path[n - k][i + k] = opath[m - h][i + h]
          BY <3>1, <3>2, <3>7, <3>a
        <4>2. i + k <= size /\ i + h <= bound
          BY <2>1, <3>1, <3>2
        <4>3. k = h
          BY <3>1, <3>2, <3>3, <4>1, <4>2
        <4> DEFINE y == i + k
                   p == n - k
                   q == m - k
        <4>4. path[p][y] = opath[q][y]
          BY <4>1, <4>3
        <4>5. y \in Nat /\ p \in Nat /\ q \in Nat /\ p < n
          BY <3>1, <3>2, <4>3
        <4>6. BothHold(size, bound, x, y, p, q)
          BY <2>1, <3>1, <3>2, <3>7, <4>3 DEF BothHold
        <4>7. p = q => n = m
          BY <3>1, <3>2, <4>3
        <4> HIDE DEF y, p, q
        <4>8. QED
          BY <2>0, <4>4, <4>5, <4>6, <4>7
      <3>8. QED
        BY <3>4, <3>5, <3>6, <3>7
    <2>8. QED
      BY <2>1, <2>6, <2>7
  <1> HIDE DEF S
  <1>2. \A n \in Nat : n \in S
    BY <1>1, PowRec!StrongInduction
  <1>3. QED
    BY <1>2 DEF S

(* The path to an entry is for one size of the log only: as soon as the log  *)
(* has grown, verifyInclusion rejects it under the new head.                 *)
THEOREM InclusionNamesSize ==
    ASSUME NEW T, NEW leaves \in Seq(T), Bare(leaves, Len(leaves)),
           NEW old \in Seq(T), Bare(old, Len(old)), Aligned(old, Len(old), leaves, Len(leaves)),
           NEW i \in Nat, i < Len(old), NEW leaf,
           verifyInclusion(leaf, i, Len(leaves), inclusion(old, i), mth(leaves))
    PROVE  Len(old) = Len(leaves)
  <1> DEFINE n == Len(old)
             m == Len(leaves)
             path == inclusion(old, i)
             N == TreeNodes(old)
  <1>1. n \in Nat /\ m \in Nat /\ i < n
    OBVIOUS
  <1>2. path \in Seq(N)
    BY InclusionIsSeq
  <1>3. path = Incl(old, i)[n][0]
    BY InclusionIsIncl
  <1> HIDE DEF path, N
  <1>4. i < m
    BY <1>2, AcceptedClimb DEF path
  <1>5. path = inclusion(leaves, i)
    BY <1>2, InclusionIsUnique DEF path
  <1>6. path = Incl(leaves, i)[m][0]
    BY <1>5, InclusionIsIncl
  <1>7. 0 + n <= n /\ 0 + m <= m /\ i < 0 + n /\ i < 0 + m /\ n # 0 /\ m # 0 /\ 0 <= i
    BY <1>1, <1>4
  <1>8. \A r \in Nat : \A y, z \in Nat :
           BothHold(n, m, i, y, r, z) /\ Incl(old, i)[r][y] = Incl(leaves, i)[z][y] => r = z
    BY <1>1, InclSizes
  <1> HIDE DEF n, m
  <1>9. BothHold(n, m, i, 0, n, m)
    BY <1>7 DEF BothHold
  <1>10. n = m
    BY <1>1, <1>3, <1>6, <1>8, <1>9
  <1>11. QED
    BY <1>10 DEF n, m

-----------------------------------------------------------------------------
(* No path leads verifyConsistency from another old tree to the new root.    *)
(*                                                                           *)
(* Two runs of its loop from the same sizes read their indices alike, so     *)
(* they end after the same number of nodes; when they end at the same new    *)
(* root they have read the same nodes, and so have rebuilt the same old one. *)

NSt(at, fr, sr, dead) == [at |-> at, fr |-> fr, sr |-> sr, dead |-> dead]

(* The fields of a state of the consistency loop. *)
LEMMA NStParts ==
    \A x, at, fr, sr, dead :
        x = NSt(at, fr, sr, dead) => x.at = at /\ x.fr = fr /\ x.sr = sr /\ x.dead = dead
  BY DEF NSt

(* Two states of the loop that differ in the two roots at most. *)
Paired(x, y) ==
    \E at, fx, sx, fy, sy : \E dead \in {TRUE, FALSE} :
        x = NSt(at, fx, sx, dead) /\ y = NSt(at, fy, sy, dead)

(* What reading c and e does to such a pair. *)
PairStep(x, y, c, e, v, w) ==
    /\ Paired(v, w)
    /\ ~v.dead => ~x.dead /\ x.at.sn # 0
    /\ ~v.dead /\ v.sr = w.sr => x.sr = y.sr /\ c = e
    /\ ~v.dead /\ c = e /\ x.fr = y.fr => v.fr = w.fr

(* Two runs in step are at the same indices. *)
LEMMA PairedParts ==
    \A x, y : Paired(x, y) => y.at = x.at /\ y.dead = x.dead
  <1> SUFFICES ASSUME NEW x, NEW y, Paired(x, y) PROVE y.at = x.at /\ y.dead = x.dead
    OBVIOUS
  <1>1. PICK at, fx, sx, fy, sy, dead : x = NSt(at, fx, sx, dead) /\ y = NSt(at, fy, sy, dead)
    BY Zenon DEF Paired
  <1>2. QED
    BY <1>1 DEF NSt

(* Two runs that both die are in step. *)
LEMMA PairDead ==
    ASSUME NEW x, NEW y, NEW c, NEW e, NEW v, NEW w, NEW at, NEW fx, NEW sx, NEW fy, NEW sy,
           v = NSt(at, fx, sx, TRUE), w = NSt(at, fy, sy, TRUE)
    PROVE  PairStep(x, y, c, e, v, w)
  <1>1. Paired(v, w)
    BY Zenon DEF Paired
  <1>2. v.dead
    BY DEF NSt
  <1>3. QED
    BY <1>1, <1>2, Zenon DEF PairStep

(* Two runs of the consistency loop in step stay so whatever nodes they take, *)
(* and equal new roots after the step come from equal new roots and equal   *)
(* nodes.                                                                   *)
LEMMA PairedStep ==
    ASSUME NEW x, NEW y, NEW c, NEW e, Paired(x, y)
    PROVE  PairStep(x, y, c, e, absorb_node(x, c), absorb_node(y, e))
  <1>1. PICK at, fx, sx, fy, sy : \E dead \in {TRUE, FALSE} :
                x = NSt(at, fx, sx, dead) /\ y = NSt(at, fy, sy, dead)
    BY Zenon DEF Paired
  <1> DEFINE v == absorb_node(x, c)
             w == absorb_node(y, e)
  <1>2. CASE x = NSt(at, fx, sx, TRUE) /\ y = NSt(at, fy, sy, TRUE)
    <2>1. v = NSt(at, fx, sx, TRUE)
      BY <1>2 DEF absorb_node, NSt
    <2>2. w = NSt(at, fy, sy, TRUE)
      BY <1>2 DEF absorb_node, NSt
    <2>3. QED
      BY <2>1, <2>2, PairDead
  <1>3. CASE x = NSt(at, fx, sx, FALSE) /\ y = NSt(at, fy, sy, FALSE)
    <2>1. x.at = at /\ y.at = at /\ ~x.dead /\ ~y.dead
      BY <1>3 DEF NSt
    <2>a. x.fr = fx /\ x.sr = sx /\ y.fr = fy /\ y.sr = sy
      BY <1>3 DEF NSt
    <2>2. CASE at.sn = 0
      <3>1. v = NSt(at, fx, sx, TRUE)
        BY <1>3, <2>1, <2>2 DEF absorb_node, NSt
      <3>2. w = NSt(at, fy, sy, TRUE)
        BY <1>3, <2>1, <2>2 DEF absorb_node, NSt
      <3>3. QED
        BY <3>1, <3>2, PairDead
    <2>3. CASE at.sn # 0 /\ joins_left(at)
      <3> DEFINE up == halve(skip_even(at))
      <3>1. v = NSt(up, node_hash(c, fx), node_hash(c, sx), FALSE)
        BY <1>3, <2>1, <2>3 DEF absorb_node, NSt
      <3>2. w = NSt(up, node_hash(e, fy), node_hash(e, sy), FALSE)
        BY <1>3, <2>1, <2>3 DEF absorb_node, NSt
      <3>3. node_hash(c, sx) = node_hash(e, sy) => sx = sy /\ c = e
        BY NodeParts
      <3>4. c = e /\ fx = fy => node_hash(c, fx) = node_hash(e, fy)
        OBVIOUS
      <3> HIDE DEF v, w, up
      <3>5. Paired(v, w)
        BY <3>1, <3>2, Zenon DEF Paired
      <3>6. v.fr = node_hash(c, fx) /\ v.sr = node_hash(c, sx)
        BY <3>1 DEF NSt
      <3>7. w.fr = node_hash(e, fy) /\ w.sr = node_hash(e, sy)
        BY <3>2 DEF NSt
      <3>8. PairStep(x, y, c, e, v, w)
        BY <2>1, <2>a, <2>3, <3>3, <3>4, <3>5, <3>6, <3>7 DEF PairStep
      <3>9. QED
        BY <3>8 DEF v, w
    <2>4. CASE at.sn # 0 /\ ~joins_left(at)
      <3> DEFINE up == halve(at)
      <3>1. v = NSt(up, fx, node_hash(sx, c), FALSE)
        BY <1>3, <2>1, <2>4 DEF absorb_node, NSt
      <3>2. w = NSt(up, fy, node_hash(sy, e), FALSE)
        BY <1>3, <2>1, <2>4 DEF absorb_node, NSt
      <3>3. node_hash(sx, c) = node_hash(sy, e) => sx = sy /\ c = e
        BY NodeParts
      <3> HIDE DEF v, w, up
      <3>5. Paired(v, w)
        BY <3>1, <3>2, Zenon DEF Paired
      <3>6. v.fr = fx /\ v.sr = node_hash(sx, c)
        BY <3>1 DEF NSt
      <3>7. w.fr = fy /\ w.sr = node_hash(sy, e)
        BY <3>2 DEF NSt
      <3>8. PairStep(x, y, c, e, v, w)
        BY <2>1, <2>a, <2>4, <3>3, <3>5, <3>6, <3>7 DEF PairStep
      <3>9. QED
        BY <3>8 DEF v, w
    <2>5. QED
      BY <2>2, <2>3, <2>4
  <1>5. QED
    BY <1>1, <1>2, <1>3, Zenon

(* tr[k] is where the loop is after k nodes of rest. *)
NodeTrace(start, seed, rest, tr) ==
    /\ tr[0] = NSt(start, seed, seed, FALSE)
    /\ \A k \in Nat : tr[k + 1] = absorb_node(tr[k], rest[k + 1])

(* A run that ends without nodes left over, the indices used up. *)
Ends(tr, n) == ~tr[n].dead /\ tr[n].at.sn = 0

(* Two runs from one start that end with one new root have the same length, *)
(* old root and seed.                                                       *)
LEMMA TwoRuns ==
    ASSUME NEW start, NEW seedp, NEW p, NEW tp, NodeTrace(start, seedp, p, tp),
           NEW seedq, NEW q, NEW tq, NodeTrace(start, seedq, q, tq),
           NEW n \in Nat, Ends(tp, n), NEW m \in Nat, Ends(tq, m), tp[n].sr = tq[m].sr
    PROVE  tp[n].fr = tq[m].fr /\ n = m /\ seedp = seedq
  <1>0. /\ tp[0] = NSt(start, seedp, seedp, FALSE) /\ tq[0] = NSt(start, seedq, seedq, FALSE)
        /\ \A k \in Nat : tp[k + 1] = absorb_node(tp[k], p[k + 1])
        /\ \A k \in Nat : tq[k + 1] = absorb_node(tq[k], q[k + 1])
    BY DEF NodeTrace
  <1>1. \A k \in Nat : Paired(tp[k], tq[k])
    <2> DEFINE S == {k \in Nat : Paired(tp[k], tq[k])}
    <2>1. 0 \in S
      BY <1>0 DEF Paired
    <2>2. ASSUME NEW k \in Nat, k \in S PROVE k + 1 \in S
      <3>1. PairStep(tp[k], tq[k], p[k + 1], q[k + 1],
                     absorb_node(tp[k], p[k + 1]), absorb_node(tq[k], q[k + 1]))
        BY <2>2, PairedStep
      <3>2. QED
        BY <1>0, <3>1 DEF PairStep
    <2> HIDE DEF S
    <2>3. \A k \in Nat : k \in S
      BY <2>1, <2>2, PowRec!Induction
    <2>4. QED
      BY <2>3 DEF S
  <1>2. ASSUME NEW k \in Nat
        PROVE  /\ ~tp[k + 1].dead => ~tp[k].dead /\ tp[k].at.sn # 0
               /\ ~tp[k + 1].dead /\ tp[k + 1].sr = tq[k + 1].sr => tp[k].sr = tq[k].sr /\ p[k + 1] = q[k + 1]
               /\ ~tp[k + 1].dead /\ p[k + 1] = q[k + 1] /\ tp[k].fr = tq[k].fr => tp[k + 1].fr = tq[k + 1].fr
    <2>1. Paired(tp[k], tq[k])
      BY <1>1
    <2>2. tp[k + 1] = absorb_node(tp[k], p[k + 1]) /\ tq[k + 1] = absorb_node(tq[k], q[k + 1])
      BY <1>0
    <2>3. PairStep(tp[k], tq[k], p[k + 1], q[k + 1], tp[k + 1], tq[k + 1])
      BY <2>1, <2>2, PairedStep
    <2>4. QED
      BY <2>3 DEF PairStep
  <1>3. \A k \in Nat : tq[k].at = tp[k].at /\ tq[k].dead = tp[k].dead
    BY <1>1, PairedParts
  <1>4. \A k \in Nat : ~tp[k].dead => \A j \in Nat : j < k => ~tp[j].dead /\ tp[j].at.sn # 0
    <2> DEFINE S == {k \in Nat : ~tp[k].dead => \A j \in Nat : j < k => ~tp[j].dead /\ tp[j].at.sn # 0}
    <2>1. 0 \in S
      OBVIOUS
    <2>2. ASSUME NEW k \in Nat, k \in S PROVE k + 1 \in S
      <3> SUFFICES ASSUME ~tp[k + 1].dead, NEW j \in Nat, j < k + 1
                   PROVE  ~tp[j].dead /\ tp[j].at.sn # 0
        OBVIOUS
      <3>1. ~tp[k].dead /\ tp[k].at.sn # 0
        BY <1>2
      <3>2. j < k \/ j = k
        OBVIOUS
      <3>3. QED
        BY <2>2, <3>1, <3>2
    <2> HIDE DEF S
    <2>3. \A k \in Nat : k \in S
      BY <2>1, <2>2, PowRec!Induction
    <2>4. QED
      BY <2>3 DEF S
  <1>5. ~tp[n].dead /\ tp[n].at.sn = 0 /\ ~tp[m].dead /\ tp[m].at.sn = 0
    BY <1>3 DEF Ends
  <1>6. n = m
    BY <1>4, <1>5
  <1>7. \A k \in Nat : k <= n => ~tp[k].dead
    BY <1>4, <1>5
  <1>8. \A x \in Nat : x <= n => tp[n - x].sr = tq[n - x].sr
    <2> DEFINE S == {x \in Nat : x <= n => tp[n - x].sr = tq[n - x].sr}
    <2>1. 0 \in S
      <3>1. n - 0 = n
        OBVIOUS
      <3>2. QED
        BY <1>6, <3>1
    <2>2. ASSUME NEW x \in Nat, x \in S PROVE x + 1 \in S
      <3> SUFFICES ASSUME x + 1 <= n PROVE tp[n - (x + 1)].sr = tq[n - (x + 1)].sr
        OBVIOUS
      <3> DEFINE k == n - (x + 1)
      <3>1. k \in Nat /\ k + 1 = n - x /\ k + 1 <= n /\ x <= n
        OBVIOUS
      <3>2. tp[k + 1].sr = tq[k + 1].sr
        BY <2>2, <3>1
      <3> HIDE DEF k
      <3>3. ~tp[k + 1].dead
        BY <1>7, <3>1
      <3>4. QED
        BY <1>2, <3>1, <3>2, <3>3 DEF k
    <2> HIDE DEF S
    <2>3. \A x \in Nat : x \in S
      BY <2>1, <2>2, PowRec!Induction
    <2>4. QED
      BY <2>3 DEF S
  <1>9. \A k \in Nat : k <= n => tp[k].sr = tq[k].sr
    <2> SUFFICES ASSUME NEW k \in Nat, k <= n PROVE tp[k].sr = tq[k].sr
      OBVIOUS
    <2>1. n - k \in Nat /\ n - k <= n /\ n - (n - k) = k
      OBVIOUS
    <2>2. QED
      BY <1>8, <2>1
  <1>10. seedp = seedq
    <2>1. tp[0].sr = tq[0].sr
      BY <1>9
    <2>2. QED
      BY <1>0, <2>1 DEF NSt
  <1>11. \A k \in Nat : k <= n => tp[k].fr = tq[k].fr
    <2> DEFINE S == {k \in Nat : k <= n => tp[k].fr = tq[k].fr}
    <2>1. 0 \in S
      BY <1>0, <1>10, NStParts
    <2>2. ASSUME NEW k \in Nat, k \in S PROVE k + 1 \in S
      <3> SUFFICES ASSUME k + 1 <= n PROVE tp[k + 1].fr = tq[k + 1].fr
        OBVIOUS
      <3>1. k <= n /\ k + 1 \in Nat
        OBVIOUS
      <3>2. ~tp[k + 1].dead /\ tp[k + 1].sr = tq[k + 1].sr
        BY <1>7, <1>9, <3>1
      <3>3. tp[k].fr = tq[k].fr
        BY <2>2, <3>1
      <3>4. QED
        BY <1>2, <3>2, <3>3
    <2> HIDE DEF S
    <2>3. \A k \in Nat : k \in S
      BY <2>1, <2>2, PowRec!Induction
    <2>4. QED
      BY <2>3 DEF S
  <1>12. QED
    BY <1>6, <1>10, <1>11

(* A run of the loop, step by step. *)
LEMMA RunTrace ==
    ASSUME NEW start, NEW seed, NEW U, NEW rest \in Seq(U)
    PROVE  \E tr : NodeTrace(start, seed, rest, tr) /\ tr[Len(rest)] = CRun(start, seed, rest)
  <1> DEFINE base == Seeded(start, seed)
  <1>1. PICK tr : Reconciling!Trace(base, rest, tr) /\ tr[Len(rest)] = Reconciling!Fold(base, rest)
    BY Reconciling!FoldTrace
  <1>2. base = NSt(start, seed, seed, FALSE)
    BY DEF Seeded, NSt
  <1>3. NodeTrace(start, seed, rest, tr)
    BY <1>1, <1>2 DEF Reconciling!Trace, NodeTrace
  <1>4. QED
    BY <1>1, <1>3, CRunIsFold

(* What verifyConsistency accepts between two different sizes has the old    *)
(* root that the new log has at the old size.                                *)
LEMMA SameOldRoot ==
    ASSUME NEW leaves, NEW n \in Nat, NEW m \in Nat, 0 < m, m < n,
           NEW root, NEW U, NEW proof \in Seq(U), seeded(m, root, proof) # <<>>,
           reconciles(m, root, n, mth_range(leaves, 0, n), seeded(m, root, proof))
    PROVE  root = mth_range(leaves, 0, m)
  <1> DEFINE start == Start(m, n)
             old == mth_range(leaves, 0, m)
             new == mth_range(leaves, 0, n)
             N == TreeNodes(leaves)
             W == U \cup {root}
             pr == seeded(m, root, proof)
             given == Tail(pr)
  <1>1. PICK seed \in N, rest \in Seq(N) : CRun(start, seed, rest) = CSt(0, 0, old, new)
    <2>1. Joined(leaves, m, start, n, 0, 0, 0)
      BY HonestRun
    <2>2. m - 0 = m
      OBVIOUS
    <2> HIDE DEF start
    <2>3. QED
      BY <2>1, <2>2 DEF Joined, JoinedBy
  <1>2. pr # <<>> /\ given \in Seq(W)
    <2>1. proof \in Seq(W)
      OBVIOUS
    <2>2. <<root>> \o proof \in Seq(W)
      BY <2>1
    <2>3. pr \in Seq(W)
      BY <2>1, <2>2 DEF seeded
    <2> HIDE DEF pr, W
    <2>4. pr # <<>>
      BY DEF pr
    <2>5. QED
      BY <2>3, <2>4
  <1> DEFINE end == CRun(start, pr[1], given)
  <1>3. reconcile(m, n, pr) = end
    BY DEF reconcile, CRun, Seeded, Start, Cursor
  <1> HIDE DEF pr, W, start, old, new, N
  <1>4. ~end.dead /\ end.fr = root /\ end.sr = new /\ end.at.sn = 0
    BY <1>3 DEF reconciles, pr, new
  <1> DEFINE honest == CSt(0, 0, old, new)
  <1>5. ~honest.dead /\ honest.fr = old /\ honest.sr = new /\ honest.at.sn = 0
    BY DEF CSt, Cursor
  <1> HIDE DEF given
  <1>6. PICK tp : NodeTrace(start, pr[1], given, tp) /\ tp[Len(given)] = end
    BY <1>2, RunTrace
  <1>7. PICK tq : NodeTrace(start, seed, rest, tq) /\ tq[Len(rest)] = honest
    BY <1>1, RunTrace
  <1> HIDE DEF end, honest
  <1>8. Len(given) \in Nat /\ Len(rest) \in Nat
    BY <1>2
  <1>9. Ends(tp, Len(given)) /\ Ends(tq, Len(rest)) /\ tp[Len(given)].sr = tq[Len(rest)].sr
    BY <1>4, <1>5, <1>6, <1>7 DEF Ends
  <1>10. tp[Len(given)].fr = tq[Len(rest)].fr
    BY <1>6, <1>7, <1>8, <1>9, TwoRuns
  <1>11. QED
    BY <1>4, <1>5, <1>6, <1>7, <1>10 DEF old

(* Equal hashes of two ranges of the same size mean equal leaves. *)
LEMMA MthInjective ==
    ASSUME NEW some, NEW other
    PROVE  \A n \in Nat \ {0} : \A i \in Nat :
             mth_range(some, i, n) = mth_range(other, i, n)
                => \A x \in Nat : i < x /\ x <= i + n => some[x] = other[x]
  <1> DEFINE Same(i, n) == \A x \in Nat : i < x /\ x <= i + n => some[x] = other[x]
             S == {n \in Nat : n # 0 => \A i \in Nat :
                     mth_range(some, i, n) = mth_range(other, i, n) => Same(i, n)}
  <1>1. ASSUME NEW n \in Nat, \A q \in Nat : q < n => q \in S PROVE n \in S
    <2> SUFFICES ASSUME n # 0, NEW i \in Nat, mth_range(some, i, n) = mth_range(other, i, n)
                 PROVE  Same(i, n)
      OBVIOUS
    <2>0. \A q \in Nat : q < n /\ q # 0 => \A z \in Nat :
             mth_range(some, z, q) = mth_range(other, z, q) => Same(z, q)
      BY <1>1
    <2>1. CASE n = 1
      <3>1. some[i + 1] = other[i + 1]
        BY <2>1, MthLeaf
      <3>2. \A x \in Nat : i < x /\ x <= i + n => x = i + 1
        BY <2>1
      <3>3. QED
        BY <3>1, <3>2
    <2>2. CASE n >= 2
      <3> DEFINE k == split(n)
                 q == n - k
                 z == i + k
      <3>1. k \in Nat /\ k # 0 /\ k < n /\ q \in Nat /\ q # 0 /\ q < n
        BY <2>2, SplitParts
      <3>2. mth_range(some, i, n) = node_hash(mth_range(some, i, k), mth_range(some, z, q))
        BY <2>2, MthNode
      <3>3. mth_range(other, i, n) = node_hash(mth_range(other, i, k), mth_range(other, z, q))
        BY <2>2, MthNode
      <3> HIDE DEF k
      <3>4. z \in Nat /\ \A x \in Nat : i < x /\ x <= i + n =>
                 (i < x /\ x <= i + k) \/ (z < x /\ x <= z + q)
        BY <3>1
      <3> HIDE DEF q, z, Same
      <3>5. /\ mth_range(some, i, k) = mth_range(other, i, k)
            /\ mth_range(some, z, q) = mth_range(other, z, q)
        <4> DEFINE a == mth_range(some, i, k)
                   b == mth_range(some, z, q)
                   c == mth_range(other, i, k)
                   d == mth_range(other, z, q)
        <4>1. node_hash(a, b) = node_hash(c, d)
          BY <3>2, <3>3
        <4> HIDE DEF a, b, c, d
        <4>2. a = c /\ b = d
          BY <4>1, NodeParts
        <4>3. QED
          BY <4>2 DEF a, b, c, d
      <3>6. Same(i, k) /\ Same(z, q)
        BY <2>0, <3>1, <3>4, <3>5
      <3>7. QED
        BY <3>4, <3>6 DEF Same
    <2>3. QED
      BY <2>1, <2>2
  <1> HIDE DEF S
  <1>2. \A n \in Nat : n \in S
    BY <1>1, PowRec!StrongInduction
  <1>3. QED
    BY <1>2 DEF S

(* Whatever path a server offers, verifyConsistency accepts no step between  *)
(* the heads of two logs unless the older log is a prefix of the newer one.  *)
THEOREM ConsistencyIsSound ==
    ASSUME NEW T, NEW old \in Seq(T), NEW leaves \in Seq(T), NEW U, NEW path \in Seq(U),
           verifyConsistency(Len(old), mth(old), Len(leaves), mth(leaves), path)
    PROVE  IsPrefix(old, leaves)
  <1> DEFINE m == Len(old)
             n == Len(leaves)
  <1>1. m \in Nat /\ n \in Nat
    OBVIOUS
  <1>2. mth(old) = mth_range(old, 0, m) /\ mth(leaves) = mth_range(leaves, 0, n)
    BY DEF mth
  <1>3. m <= n /\ (m = n => mth(old) = mth(leaves))
    <2> HIDE DEF m, n
    <2>1. CASE m > n
      BY <1>1, <2>1 DEF verifyConsistency, m, n
    <2>2. CASE m = n
      BY <1>1, <2>2 DEF verifyConsistency, m, n
    <2>3. CASE m < n
      BY <1>1, <2>3
    <2>4. QED
      BY <1>1, <2>1, <2>2, <2>3
  <1>4. 0 < m => mth_range(old, 0, m) = mth_range(leaves, 0, m)
    <2> SUFFICES ASSUME 0 < m PROVE mth_range(old, 0, m) = mth_range(leaves, 0, m)
      OBVIOUS
    <2>1. CASE m = n
      BY <1>2, <1>3, <2>1
    <2>2. CASE m < n
      <3> DEFINE root == mth(old)
                 pr == seeded(m, root, path)
      <3>1. ~(m > n) /\ m # n /\ m # 0
        BY <1>1, <2>2
      <3> HIDE DEF m, n, root, pr
      <3>2. pr # <<>> /\ reconciles(m, root, n, mth(leaves), pr)
        BY <3>1 DEF verifyConsistency, m, n, root, pr
      <3>3. root = mth_range(leaves, 0, m)
        BY <1>1, <1>2, <2>2, <3>2, SameOldRoot DEF pr
      <3>4. QED
        BY <1>2, <3>3 DEF root
    <2>3. QED
      BY <1>1, <1>3, <2>1, <2>2
  <1>5. \A x \in 1..m : old[x] = leaves[x]
    <2> SUFFICES ASSUME NEW x \in 1..m PROVE old[x] = leaves[x]
      OBVIOUS
    <2> HIDE DEF m, n
    <2>1. m \in Nat \ {0} /\ x \in Nat /\ 0 < x /\ x <= 0 + m /\ 0 < m
      BY <1>1
    <2>2. mth_range(old, 0, m) = mth_range(leaves, 0, m)
      BY <1>4, <2>1
    <2>3. \A y \in Nat : 0 < y /\ y <= 0 + m => old[y] = leaves[y]
      BY <2>1, <2>2, MthInjective
    <2>4. QED
      BY <2>1, <2>3
  <1>6. SubSeq(old, 1, m) = SubSeq(leaves, 1, m)
    BY <1>1, <1>3, <1>5
  <1>7. QED
    BY <1>3, <1>6 DEF IsPrefix
=============================================================================
