----------------------------- MODULE Recursion -----------------------------
(***************************************************************************)
(* Induction over the naturals, and the existence of recursively defined   *)
(* functions.                                                              *)
(*                                                                         *)
(* f[x \in S] == Body means CHOOSE f : f = [x \in S |-> Body], so nothing   *)
(* can be said of f before such a function is known to exist.  The library's*)
(* theorems on this take an operator as an argument; here the operators are *)
(* the constants of the module, and a proof instantiates the module for its *)
(* own definition:                                                          *)
(*                                                                         *)
(*   Dom(p)         the domain, where p stands for whatever else the        *)
(*                  definition mentions (a tuple when that is several)      *)
(*   Measure(p, x)  a natural number that falls with every recursive call   *)
(*   Body(p, f, x)  the right-hand side                                     *)
(***************************************************************************)
EXTENDS Naturals, WellFoundedInduction, TLAPS

CONSTANTS Dom(_), Measure(_, _), Body(_, _, _)

(* Every nonempty set of naturals has a least element. *)
LEMMA LeastExists ==
    ASSUME NEW T \in SUBSET Nat, T # {}
    PROVE  \E x \in T : \A y \in T : x <= y
  <1> DEFINE R == OpToRel(<, Nat)
  <1>1. IsWellFoundedOn(R, Nat)
    BY NatLessThanWellFounded
  <1>2. \A x, y \in Nat : y < x => <<y, x>> \in R
    BY DEF OpToRel
  <1> HIDE DEF R
  <1>3. PICK x \in T : \A y \in T : ~(<<y, x>> \in R)
    BY <1>1, WFMin
  <1>4. \A y \in T : ~(y < x)
    BY <1>2, <1>3
  <1>5. QED
    BY <1>4

(* Induction: a set that holds 0, and n + 1 whenever it holds n, holds every *)
(* natural number.                                                          *)
LEMMA Induction ==
    ASSUME NEW S, 0 \in S, \A n \in Nat : n \in S => n + 1 \in S
    PROVE  \A n \in Nat : n \in S
  <1> SUFFICES ASSUME Nat \ S # {} PROVE FALSE
    OBVIOUS
  <1>1. PICK x \in Nat \ S : \A y \in Nat \ S : x <= y
    BY LeastExists
  <1>2. x # 0 /\ x - 1 \in Nat /\ ~(x <= x - 1) /\ (x - 1) + 1 = x
    BY <1>1
  <1>3. x - 1 \in S
    BY <1>1, <1>2
  <1>4. QED
    BY <1>1, <1>2, <1>3

(* Course-of-values induction: a set that holds n whenever it holds all      *)
(* smaller numbers holds every natural number.                              *)
LEMMA StrongInduction ==
    ASSUME NEW S, \A n \in Nat : (\A k \in Nat : k < n => k \in S) => n \in S
    PROVE  \A n \in Nat : n \in S
  <1> SUFFICES ASSUME Nat \ S # {} PROVE FALSE
    OBVIOUS
  <1>1. PICK x \in Nat \ S : \A y \in Nat \ S : x <= y
    BY LeastExists
  <1>2. \A k \in Nat : k < x => k \in S
    BY <1>1
  <1>3. QED
    BY <1>1, <1>2

-----------------------------------------------------------------------------
(* A recursive call only ever goes to an argument of smaller measure. *)
WellFounded(p) ==
    /\ \A x \in Dom(p) : Measure(p, x) \in Nat
    /\ \A x \in Dom(p) : \A g, h :
          (\A y \in Dom(p) : Measure(p, y) < Measure(p, x) => g[y] = h[y])
              => Body(p, g, x) = Body(p, h, x)

Below(p, n) == {x \in Dom(p) : Measure(p, x) < n}

(* g satisfies the definition on the arguments of measure below n. *)
Part(p, g, n) == g = [x \in Below(p, n) |-> Body(p, g, x)]

(* A part of the function satisfies the equation below its bound. *)
LEMMA PartValue ==
    ASSUME NEW p, NEW g, NEW n, Part(p, g, n), NEW x \in Dom(p), Measure(p, x) < n
    PROVE  g[x] = Body(p, g, x)
  <1> DEFINE e == [z \in Below(p, n) |-> Body(p, g, z)]
  <1>1. g = e
    BY DEF Part
  <1>2. x \in Below(p, n)
    BY DEF Below
  <1>3. e[x] = Body(p, g, x)
    BY <1>2
  <1> HIDE DEF e
  <1>4. QED
    BY <1>1, <1>3

(* Two parts agree wherever both are defined. *)
LEMMA PartsAgree ==
    ASSUME NEW p, WellFounded(p),
           NEW m \in Nat, NEW n \in Nat, NEW g, NEW h, Part(p, g, m), Part(p, h, n)
    PROVE  \A x \in Dom(p) : Measure(p, x) < m /\ Measure(p, x) < n => g[x] = h[x]
  <1>a. \A x \in Dom(p) : Measure(p, x) \in Nat
    BY DEF WellFounded
  <1> DEFINE S == {k \in Nat : \A x \in Dom(p) :
                     Measure(p, x) < k /\ Measure(p, x) < m /\ Measure(p, x) < n => g[x] = h[x]}
  <1>1. 0 \in S
    BY <1>a
  <1>2. ASSUME NEW k \in Nat, k \in S PROVE k + 1 \in S
    <2>1. ASSUME NEW x \in Dom(p), Measure(p, x) < k + 1, Measure(p, x) < m, Measure(p, x) < n
          PROVE  g[x] = h[x]
      <3>1. \A y \in Dom(p) : Measure(p, y) < Measure(p, x) => g[y] = h[y]
        BY <1>a, <1>2, <2>1
      <3>2. Body(p, g, x) = Body(p, h, x)
        BY <3>1 DEF WellFounded
      <3>3. g[x] = Body(p, g, x) /\ h[x] = Body(p, h, x)
        BY <2>1, PartValue
      <3>4. QED
        BY <3>2, <3>3
    <2>2. QED
      BY <2>1
  <1> HIDE DEF S
  <1>3. \A k \in Nat : k \in S
    BY <1>1, <1>2, Induction
  <1>4. QED
    BY <1>3, <1>a DEF S

(* There are parts up to every bound. *)
LEMMA PartsExist ==
    ASSUME NEW p, WellFounded(p)
    PROVE  \A n \in Nat : \E g : Part(p, g, n)
  <1>a. \A x \in Dom(p) : Measure(p, x) \in Nat
    BY DEF WellFounded
  <1> DEFINE S == {n \in Nat : \E g : Part(p, g, n)}
  <1>1. 0 \in S
    <2> DEFINE g0 == [x \in Below(p, 0) |-> 0]
    <2>1. Below(p, 0) = {}
      BY <1>a DEF Below
    <2>2. g0 = [x \in Below(p, 0) |-> Body(p, g0, x)]
      BY <2>1
    <2> HIDE DEF g0
    <2>3. Part(p, g0, 0)
      BY <2>2 DEF Part
    <2>4. QED
      BY <2>3
  <1>2. ASSUME NEW n \in Nat, n \in S PROVE n + 1 \in S
    <2>1. PICK g : Part(p, g, n)
      BY <1>2
    <2> DEFINE h == [x \in Below(p, n + 1) |-> Body(p, g, x)]
               e == [x \in Below(p, n + 1) |-> Body(p, h, x)]
    <2>2. ASSUME NEW x \in Below(p, n + 1) PROVE Body(p, g, x) = Body(p, h, x)
      <3>1. x \in Dom(p) /\ Measure(p, x) \in Nat /\ Measure(p, x) < n + 1
        BY <2>2, <1>a DEF Below
      <3>2. ASSUME NEW y \in Dom(p), Measure(p, y) < Measure(p, x) PROVE g[y] = h[y]
        <4>1. Measure(p, y) \in Nat /\ Measure(p, y) < n /\ Measure(p, y) < n + 1
          BY <3>1, <3>2, <1>a
        <4>2. g[y] = Body(p, g, y)
          BY <2>1, <4>1, PartValue
        <4>3. y \in Below(p, n + 1)
          BY <4>1 DEF Below
        <4>4. QED
          BY <4>2, <4>3
      <3> HIDE DEF h
      <3>3. QED
        BY <3>1, <3>2 DEF WellFounded
    <2>3. \A x \in Below(p, n + 1) : h[x] = Body(p, g, x) /\ e[x] = Body(p, h, x)
      OBVIOUS
    <2>4. DOMAIN h = Below(p, n + 1) /\ h = [x \in DOMAIN h |-> h[x]]
      OBVIOUS
    <2>5. DOMAIN e = Below(p, n + 1) /\ e = [x \in DOMAIN e |-> e[x]]
      OBVIOUS
    <2> HIDE DEF h, e
    <2>6. h = e
      BY <2>2, <2>3, <2>4, <2>5
    <2>7. Part(p, h, n + 1)
      BY <2>6 DEF e, Part
    <2>8. QED
      BY <2>7
  <1> HIDE DEF S
  <1>3. \A n \in Nat : n \in S
    BY <1>1, <1>2, Induction
  <1>4. QED
    BY <1>3 DEF S

(* A well-founded definition defines a function. *)
THEOREM Defined ==
    ASSUME NEW p, WellFounded(p)
    PROVE  \E f : f = [x \in Dom(p) |-> Body(p, f, x)]
  <1>a. \A x \in Dom(p) : Measure(p, x) \in Nat
    BY DEF WellFounded
  <1> DEFINE G(n) == CHOOSE g : Part(p, g, n)
             f == [x \in Dom(p) |-> G(Measure(p, x) + 1)[x]]
             e == [x \in Dom(p) |-> Body(p, f, x)]
  <1>b. \A n \in Nat : Part(p, G(n), n)
    BY PartsExist
  <1> HIDE DEF G
  <1>1. ASSUME NEW x \in Dom(p) PROVE f[x] = Body(p, f, x)
    <2>1. Measure(p, x) \in Nat /\ Measure(p, x) + 1 \in Nat /\ Measure(p, x) < Measure(p, x) + 1
      BY <1>a
    <2> DEFINE g == G(Measure(p, x) + 1)
    <2>2. f[x] = g[x]
      OBVIOUS
    <2>3. Part(p, g, Measure(p, x) + 1)
      BY <2>1, <1>b
    <2>4. g[x] = Body(p, g, x)
      <3> HIDE DEF g
      <3>1. QED
        BY <2>1, <2>3, PartValue
    <2>5. ASSUME NEW y \in Dom(p), Measure(p, y) < Measure(p, x) PROVE f[y] = g[y]
      <3>1. /\ Measure(p, y) \in Nat /\ Measure(p, y) + 1 \in Nat
            /\ Measure(p, y) < Measure(p, y) + 1 /\ Measure(p, y) < Measure(p, x) + 1
        BY <1>a, <2>1, <2>5
      <3>2. Part(p, G(Measure(p, y) + 1), Measure(p, y) + 1)
        BY <3>1, <1>b
      <3>3. G(Measure(p, y) + 1)[y] = g[y]
        <4> HIDE DEF g
        <4>1. QED
          BY <2>1, <2>3, <3>1, <3>2, PartsAgree
      <3>4. QED
        BY <3>3
    <2> HIDE DEF f, g
    <2>6. Body(p, f, x) = Body(p, g, x)
      BY <2>5 DEF WellFounded
    <2>7. QED
      BY <2>2, <2>4, <2>6
  <1>2. \A x \in Dom(p) : e[x] = Body(p, f, x)
    OBVIOUS
  <1>3. DOMAIN f = Dom(p) /\ f = [x \in DOMAIN f |-> f[x]]
    OBVIOUS
  <1>4. DOMAIN e = Dom(p) /\ e = [x \in DOMAIN e |-> e[x]]
    OBVIOUS
  <1> HIDE DEF f, e
  <1>5. f = e
    BY <1>1, <1>2, <1>3, <1>4
  <1>6. QED
    BY <1>5 DEF e
=============================================================================
