---------------------------- MODULE FoldTheorems ----------------------------
(***************************************************************************)
(* What FoldLeft of SequencesExt computes, for an operator op that a proof  *)
(* supplies by instantiating this module: base for the empty sequence, and  *)
(* one more application of op for one more element.                         *)
(***************************************************************************)
EXTENDS Naturals, Sequences, SequencesExt, TLAPS

CONSTANT op(_, _)

Fold(base, seq) == FoldLeft(op, base, seq)

(* FoldLeft's recursion goes over sets of indices and takes the largest     *)
(* first; p is <<base, seq>>.                                               *)
FoldBody(p, iter, s) ==
    IF s = {} THEN p[1] ELSE op(iter[s \ {Max(s)}], p[2][Max(s)])

FoldDom(p) == SUBSET (DOMAIN p[2])

Rec == INSTANCE Recursion
         WITH Dom     <- FoldDom,
              Measure <- LAMBDA p, s : IF s = {} THEN 0 ELSE Max(s),
              Body    <- FoldBody

(* Max is the largest element of a nonempty set of indices. *)
LEMMA MaxIndex ==
    ASSUME NEW n \in Nat, NEW s \in SUBSET (1..n), s # {}
    PROVE  Max(s) \in s /\ \A x \in s : x <= Max(s)
  <1> DEFINE T == {k \in Nat : \E x \in s : k = n - x}
  <1>1. T # {} /\ T \in SUBSET Nat
    <2>1. PICK x \in s : TRUE
      OBVIOUS
    <2>2. n - x \in T
      BY <2>1
    <2>3. QED
      BY <2>2
  <1>2. \A x \in s : n - x \in T
    OBVIOUS
  <1>3. \A k \in T : k \in Nat /\ \E x \in s : k = n - x
    OBVIOUS
  <1> HIDE DEF T
  <1>4. PICK k \in T : \A y \in T : k <= y
    BY <1>1, Rec!LeastExists
  <1>5. PICK x \in s : k = n - x
    BY <1>3, <1>4
  <1>6. \A y \in s : x >= y
    BY <1>2, <1>4, <1>5
  <1>7. \E m \in s : \A y \in s : m >= y
    BY <1>6
  <1> DEFINE mx == Max(s)
  <1>8. mx \in s /\ \A y \in s : mx >= y
    BY <1>7 DEF Max
  <1> HIDE DEF mx
  <1>9. \A y \in s : y <= mx
    BY <1>8
  <1>10. QED
    BY <1>8, <1>9 DEF mx

(* The recursion of a fold removes the largest index at each call. *)
LEMMA FoldIsWellFounded ==
    ASSUME NEW base, NEW seq, NEW n \in Nat, DOMAIN seq = 1..n
    PROVE  Rec!WellFounded(<<base, seq>>)
  <1> DEFINE p == <<base, seq>>
             M(s) == IF s = {} THEN 0 ELSE Max(s)
  <1>1. FoldDom(p) = SUBSET (1..n)
    BY DEF FoldDom
  <1>2. \A s \in SUBSET (1..n) : s # {} => Max(s) \in s /\ \A x \in s : x <= Max(s)
    BY MaxIndex
  <1>a. \A s \in SUBSET (1..n) : s # {} => Max(s) \in Nat /\ Max(s) > 0
    <2> SUFFICES ASSUME NEW s \in SUBSET (1..n), s # {}
                 PROVE  Max(s) \in Nat /\ Max(s) > 0
      OBVIOUS
    <2> DEFINE mx == Max(s)
    <2>1. mx \in 1..n
      BY <1>2
    <2> HIDE DEF mx
    <2>2. mx \in Nat /\ mx > 0
      BY <2>1
    <2>3. QED
      BY <2>2 DEF mx
  <1>3. ASSUME NEW s \in SUBSET (1..n) PROVE M(s) \in Nat
    BY <1>a, Zenon
  <1>4. ASSUME NEW s \in SUBSET (1..n), s # {}
        PROVE  s \ {Max(s)} \in SUBSET (1..n) /\ M(s \ {Max(s)}) < M(s)
    <2> DEFINE t == s \ {Max(s)}
    <2>1. t \in SUBSET (1..n)
      OBVIOUS
    <2>2. Max(s) \in 1..n
      BY <1>2, <1>4
    <2>3. CASE t = {}
      BY <2>2, <2>3, <1>4
    <2>4. CASE t # {}
      <3>1. Max(t) \in t
        BY <2>1, <2>4, <1>2
      <3>2. Max(t) \in s /\ Max(t) # Max(s) /\ Max(t) \in Nat
        BY <3>1, <2>1
      <3>3. Max(t) <= Max(s)
        BY <3>2, <1>2, <1>4
      <3>4. M(t) = Max(t) /\ M(s) = Max(s) /\ Max(s) \in Nat
        BY <2>4, <1>4, <1>a
      <3>5. \A a, b \in Nat : a <= b /\ a # b => a < b
        OBVIOUS
      <3>6. Max(t) < Max(s)
        BY <3>2, <3>3, <3>4, <3>5
      <3>7. QED
        BY <2>1, <3>4, <3>6, Zenon
    <2>5. QED
      BY <2>1, <2>3, <2>4
  <1>5. ASSUME NEW s \in SUBSET (1..n), NEW g, NEW h,
               \A y \in SUBSET (1..n) : M(y) < M(s) => g[y] = h[y]
        PROVE  FoldBody(p, g, s) = FoldBody(p, h, s)
    <2>1. CASE s = {}
      BY <2>1 DEF FoldBody
    <2>2. CASE s # {}
      <3>1. g[s \ {Max(s)}] = h[s \ {Max(s)}]
        BY <1>4, <1>5, <2>2
      <3>2. QED
        BY <3>1, <2>2 DEF FoldBody
    <2>3. QED
      BY <2>1, <2>2
  <1>6. QED
    BY <1>1, <1>3, <1>5 DEF Rec!WellFounded

(* The function FoldLeft iterates. *)
Iter(base, seq) ==
    CHOOSE iter : iter = [s \in SUBSET DOMAIN seq |->
                            IF s = {} THEN base ELSE op(iter[s \ {Max(s)}], seq[Max(s)])]

(* A fold is that recursion applied to all indices. *)
LEMMA FoldIsIter ==
    ASSUME NEW base, NEW seq
    PROVE  Fold(base, seq) = Iter(base, seq)[DOMAIN seq]
  BY DEF Fold, FoldLeft, MapThenFoldSet, Iter

(* The recursion on the first k indices: one application of op for the last *)
(* of them.                                                                 *)
IterSteps(base, seq, n) ==
    /\ Iter(base, seq)[{}] = base
    /\ \A k \in 1..n : Iter(base, seq)[1..k] = op(Iter(base, seq)[1..(k - 1)], seq[k])

(* That is what it computes. *)
LEMMA IterValue ==
    ASSUME NEW base, NEW seq, NEW n \in Nat, DOMAIN seq = 1..n
    PROVE  IterSteps(base, seq, n)
  <1>1. \E f : f = [s \in FoldDom(<<base, seq>>) |-> FoldBody(<<base, seq>>, f, s)]
    BY FoldIsWellFounded, Rec!Defined
  <1>2. \E iter : iter = [s \in SUBSET DOMAIN seq |->
                            IF s = {} THEN base ELSE op(iter[s \ {Max(s)}], seq[Max(s)])]
    BY <1>1 DEF FoldDom, FoldBody
  <1> DEFINE it == Iter(base, seq)
  <1>3. it = [s \in SUBSET DOMAIN seq |->
                IF s = {} THEN base ELSE op(it[s \ {Max(s)}], seq[Max(s)])]
    BY <1>2 DEF Iter
  <1> HIDE DEF it
  <1>4. \A s \in SUBSET (1..n) :
           it[s] = IF s = {} THEN base ELSE op(it[s \ {Max(s)}], seq[Max(s)])
    BY <1>3
  <1>5. it[{}] = base
    BY <1>4
  <1>6. ASSUME NEW k \in 1..n PROVE it[1..k] = op(it[1..(k - 1)], seq[k])
    <2>1. 1..k \in SUBSET (1..n) /\ k \in 1..k
      OBVIOUS
    <2>2. Max(1..k) \in 1..k /\ \A x \in 1..k : x <= Max(1..k)
      BY <2>1, MaxIndex
    <2>3. Max(1..k) = k
      BY <2>1, <2>2
    <2>4. (1..k) \ {k} = 1..(k - 1)
      OBVIOUS
    <2>5. QED
      BY <1>4, <2>1, <2>3, <2>4
  <1>7. QED
    BY <1>5, <1>6 DEF it, IterSteps

(* Folding the empty sequence gives the base. *)
THEOREM FoldEmpty ==
    ASSUME NEW base
    PROVE  Fold(base, <<>>) = base
  <1>1. DOMAIN <<>> = 1..0
    OBVIOUS
  <1>2. Iter(base, <<>>)[{}] = base
    BY <1>1, IterValue DEF IterSteps
  <1>3. QED
    BY <1>2, FoldIsIter

(* Folding one more element applies op once more, last. *)
THEOREM FoldAppend ==
    ASSUME NEW base, NEW T, NEW seq \in Seq(T), NEW x \in T
    PROVE  Fold(base, Append(seq, x)) = op(Fold(base, seq), x)
  <1> DEFINE n == Len(seq)
             longer == Append(seq, x)
             it == Iter(base, seq)
             jt == Iter(base, longer)
  <1>1. n \in Nat /\ DOMAIN seq = 1..n /\ DOMAIN longer = 1..(n + 1)
    OBVIOUS
  <1>2. longer[n + 1] = x /\ \A k \in 1..n : longer[k] = seq[k]
    OBVIOUS
  <1> HIDE DEF longer, n
  <1>a. IterSteps(base, seq, n) /\ IterSteps(base, longer, n + 1)
    BY <1>1, IterValue
  <1>3. it[{}] = base /\ \A k \in 1..n : it[1..k] = op(it[1..(k - 1)], seq[k])
    BY <1>a DEF IterSteps
  <1>4. jt[{}] = base /\ \A k \in 1..(n + 1) : jt[1..k] = op(jt[1..(k - 1)], longer[k])
    BY <1>a DEF IterSteps
  <1> HIDE DEF it, jt
  <1> DEFINE S == {k \in Nat : k <= n => it[1..k] = jt[1..k]}
  <1>5. 0 \in S
    <2>1. 1..0 = {}
      OBVIOUS
    <2>2. QED
      BY <2>1, <1>3, <1>4
  <1>6. ASSUME NEW k \in Nat, k \in S PROVE k + 1 \in S
    <2>1. SUFFICES ASSUME k + 1 <= n PROVE it[1..(k + 1)] = jt[1..(k + 1)]
      OBVIOUS
    <2>2. k + 1 \in 1..n /\ k + 1 \in 1..(n + 1) /\ (k + 1) - 1 = k
      BY <2>1, <1>1
    <2>3. it[1..k] = jt[1..k]
      BY <2>1, <1>1, <1>6
    <2>4. QED
      BY <1>2, <1>3, <1>4, <2>2, <2>3
  <1> HIDE DEF S
  <1>7. \A k \in Nat : k \in S
    BY <1>5, <1>6, Rec!Induction
  <1>8. it[1..n] = jt[1..n]
    BY <1>1, <1>7 DEF S
  <1>9. jt[1..(n + 1)] = op(jt[1..n], x)
    BY <1>1, <1>2, <1>4
  <1>10. QED
    BY <1>1, <1>8, <1>9, FoldIsIter DEF it, jt, longer

TraceRec == INSTANCE Recursion
              WITH Dom     <- LAMBDA p : Nat,
                   Measure <- LAMBDA p, k : k,
                   Body    <- LAMBDA p, f, k : IF k = 0 THEN p[1] ELSE op(f[k - 1], p[2][k])

(* tr[k] is the value after k elements. *)
Trace(base, seq, tr) ==
    /\ tr[0] = base
    /\ \A k \in Nat : tr[k + 1] = op(tr[k], seq[k + 1])

(* A fold is the end of a trace, one step per element. *)
THEOREM FoldTrace ==
    ASSUME NEW base, NEW T, NEW seq \in Seq(T)
    PROVE  \E tr : Trace(base, seq, tr) /\ tr[Len(seq)] = Fold(base, seq)
  <1> DEFINE n == Len(seq)
             it == Iter(base, seq)
             p == <<base, seq>>
  <1>1. TraceRec!WellFounded(p)
    <2>1. \A k \in Nat : k \in Nat
      OBVIOUS
    <2>2. ASSUME NEW k \in Nat, NEW g, NEW h, \A y \in Nat : y < k => g[y] = h[y]
          PROVE  (IF k = 0 THEN p[1] ELSE op(g[k - 1], p[2][k]))
                   = (IF k = 0 THEN p[1] ELSE op(h[k - 1], p[2][k]))
      <3>1. CASE k = 0
        BY <3>1
      <3>2. CASE k # 0
        <4>1. k - 1 \in Nat /\ k - 1 < k
          BY <3>2
        <4>2. g[k - 1] = h[k - 1]
          BY <2>2, <4>1
        <4>3. QED
          BY <3>2, <4>2
      <3>3. QED
        BY <3>1, <3>2
    <2>3. QED
      BY <2>1, <2>2, Zenon DEF TraceRec!WellFounded
  <1>2. \E f : f = [k \in Nat |-> IF k = 0 THEN p[1] ELSE op(f[k - 1], p[2][k])]
    BY <1>1, TraceRec!Defined
  <1>3. p[1] = base /\ p[2] = seq
    OBVIOUS
  <1> HIDE DEF p
  <1>4. PICK tr : tr = [k \in Nat |-> IF k = 0 THEN base ELSE op(tr[k - 1], seq[k])]
    BY <1>2, <1>3
  <1>5. tr[0] = base
    BY <1>4
  <1>6. ASSUME NEW k \in Nat PROVE tr[k + 1] = op(tr[k], seq[k + 1])
    <2>1. k + 1 \in Nat /\ k + 1 # 0 /\ (k + 1) - 1 = k
      OBVIOUS
    <2>2. tr[k + 1] = op(tr[(k + 1) - 1], seq[k + 1])
      BY <1>4, <2>1
    <2>3. QED
      BY <2>1, <2>2
  <1>7. n \in Nat /\ DOMAIN seq = 1..n
    OBVIOUS
  <1> HIDE DEF n
  <1>a. IterSteps(base, seq, n)
    BY <1>7, IterValue
  <1>8. it[{}] = base /\ \A k \in 1..n : it[1..k] = op(it[1..(k - 1)], seq[k])
    BY <1>a DEF IterSteps
  <1>9. Fold(base, seq) = it[1..n]
    BY <1>7, FoldIsIter
  <1> HIDE DEF it
  <1> DEFINE S == {k \in Nat : k <= n => it[1..k] = tr[k]}
  <1>10. 0 \in S
    <2>1. 1..0 = {}
      OBVIOUS
    <2>2. QED
      BY <2>1, <1>5, <1>8
  <1>11. ASSUME NEW k \in Nat, k \in S PROVE k + 1 \in S
    <2>1. SUFFICES ASSUME k + 1 <= n PROVE it[1..(k + 1)] = tr[k + 1]
      OBVIOUS
    <2>2. k + 1 \in 1..n /\ (k + 1) - 1 = k
      BY <2>1, <1>7
    <2>3. it[1..k] = tr[k]
      BY <2>1, <1>7, <1>11
    <2>4. it[1..(k + 1)] = op(it[1..k], seq[k + 1])
      BY <1>8, <2>2
    <2>5. QED
      BY <1>6, <2>3, <2>4
  <1> HIDE DEF S
  <1>12. \A k \in Nat : k \in S
    BY <1>10, <1>11, Rec!Induction
  <1>13. it[1..n] = tr[n]
    BY <1>7, <1>12 DEF S
  <1>14. Trace(base, seq, tr)
    BY <1>5, <1>6 DEF Trace
  <1>15. QED
    BY <1>9, <1>13, <1>14 DEF n
=============================================================================
