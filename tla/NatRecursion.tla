----------------------------- MODULE NatRecursion -----------------------------
(***************************************************************************)
(* Induction and recursion over the natural numbers, stated for sets and   *)
(* functions instead of operators: a property is the set of the numbers    *)
(* that have it, a step of a recursion is a function.  They let the        *)
(* conversions of the model, which are recursive functions, be reasoned    *)
(* about for every length.                                                 *)
(***************************************************************************)
EXTENDS Integers, TLAPS, WellFoundedInduction

\* A remainder is less than what it is the remainder of.
LEMMA RemainderRange == \A i \in Int, m \in Nat \ {0} : i % m \in 0 .. m - 1
  BY SMT

\* Every set of natural numbers that is not empty has a least one.
LEMMA LeastNatural ==
  ASSUME NEW T \in SUBSET Nat, T # {}
  PROVE  \E n \in T : \A m \in T : n <= m
  <1> DEFINE R == {ss \in Nat \X Nat : ss[1] < ss[2]}
  <1>1. IsWellFoundedOn(R, Nat)
    BY NatLessThanWellFounded DEF OpToRel
  <1> HIDE DEF R
  <1>2. \E x \in T : \A y \in T : ~(<<y, x>> \in R)
    BY <1>1, WFMin, Zenon
  <1>3. PICK x \in T : \A y \in T : ~(<<y, x>> \in R)
    BY <1>2
  <1>4. \A y \in T : ~(y < x)
    BY <1>3 DEF R
  <1> QED
    BY <1>4

\* A set with zero, and with the successor of every member up to n, has all
\* the numbers up to n.
LEMMA InductionUpTo ==
  ASSUME NEW T, NEW n \in Nat, 0 \in T, \A k \in 0 .. n - 1 : k \in T => k + 1 \in T
  PROVE  \A k \in 0 .. n : k \in T
  <1> DEFINE Out == {k \in 0 .. n : k \notin T}
  <1> SUFFICES ASSUME Out # {} PROVE FALSE
    OBVIOUS
  <1>1. PICK k \in Out : \A m \in Out : k <= m
    <2>1. Out \in SUBSET Nat
      OBVIOUS
    <2> HIDE DEF Out
    <2> QED
      BY <2>1, LeastNatural
  <1>2. k \in 1 .. n /\ k - 1 \in 0 .. n - 1
    BY <1>1
  <1>3. k - 1 \in T
    BY <1>1, <1>2
  <1>4. (k - 1) + 1 \in T
    BY <1>2, <1>3
  <1> QED
    BY <1>1, <1>2, <1>4

\* A recursion that starts in a set and whose steps stay in it stays in it.
LEMMA RecursionStays ==
  ASSUME NEW X, NEW n \in Nat, NEW f,
         f[0] \in X, \A k \in 1 .. n : f[k - 1] \in X => f[k] \in X
  PROVE  \A k \in 0 .. n : f[k] \in X
  <1> DEFINE T == {k \in 0 .. n : f[k] \in X}
  <1>1. 0 \in T
    OBVIOUS
  <1>2. ASSUME NEW k \in 0 .. n - 1, k \in T PROVE k + 1 \in T
    <2>1. k + 1 \in 1 .. n /\ (k + 1) - 1 = k /\ k + 1 \in 0 .. n
      OBVIOUS
    <2> QED
      BY <1>2, <2>1
  <1>3. \A k \in 0 .. n : k \in T
    <2> HIDE DEF T
    <2> QED
      BY <1>1, <1>2, InductionUpTo
  <1> QED
    BY <1>3

\* n steps of a recursion that starts with a can be made.
LEMMA RecursionExists ==
  ASSUME NEW X, NEW a \in X, NEW n \in Nat, NEW Step \in [1 .. n -> [X -> X]]
  PROVE  \E s \in [0 .. n -> X] :
            s[0] = a /\ \A k \in 1 .. n : s[k] = Step[k][s[k - 1]]
  <1> DEFINE Goes(m) == \E s \in [0 .. m -> X] :
                          s[0] = a /\ \A k \in 1 .. m : s[k] = Step[k][s[k - 1]]
             T == {m \in 0 .. n : Goes(m)}
  <1>1. 0 \in T
    <2> DEFINE z == [k \in 0 .. 0 |-> a]
    <2>1. z \in [0 .. 0 -> X] /\ z[0] = a
      OBVIOUS
    <2>2. 1 .. 0 = {}
      OBVIOUS
    <2> HIDE DEF z
    <2>3. Goes(0)
      BY <2>1, <2>2
    <2> QED
      BY <2>3
  <1>2. ASSUME NEW m \in 0 .. n - 1, m \in T PROVE m + 1 \in T
    <2>1. PICK s \in [0 .. m -> X] :
            s[0] = a /\ \A k \in 1 .. m : s[k] = Step[k][s[k - 1]]
      BY <1>2
    <2> DEFINE t == [k \in 0 .. m + 1 |-> IF k <= m THEN s[k] ELSE Step[m + 1][s[m]]]
    <2>2. Step[m + 1][s[m]] \in X
      BY m \in 0 .. n - 1
    <2>3. t \in [0 .. m + 1 -> X]
      BY <2>2
    <2>4. t[0] = a
      BY <2>1
    <2>5. ASSUME NEW k \in 1 .. m + 1 PROVE t[k] = Step[k][t[k - 1]]
      <3>1. CASE k <= m
        BY <2>1, <3>1
      <3>2. CASE k = m + 1
        BY <3>2
      <3> QED
        BY <3>1, <3>2
    <2> HIDE DEF t
    <2>6. Goes(m + 1)
      BY <2>3, <2>4, <2>5
    <2> QED
      BY <2>6, m \in 0 .. n - 1
  <1>3. n \in T
    <2> HIDE DEF T
    <2>1. \A k \in 0 .. n : k \in T
      BY <1>1, <1>2, InductionUpTo
    <2> QED
      BY <2>1
  <1> QED
    BY <1>3
=============================================================================
