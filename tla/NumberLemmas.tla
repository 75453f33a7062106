---------------------------- MODULE NumberLemmas ----------------------------
(***************************************************************************)
(* The least and the greatest element of a set of natural numbers, and     *)
(* induction, in forms that quantify over sets and not over operators.     *)
(***************************************************************************)
EXTENDS Integers, FiniteSetTheorems, WellFoundedInduction, TLAPS

\* A nonempty set of natural numbers has a least element.  The intervals that end
\* in an element are finite sets, and of those strict inclusion is well founded.
LEMMA LeastExists ==
    ASSUME NEW T, T \subseteq Nat, T # {}
    PROVE  \E x \in T : \A y \in T : x <= y
<1> DEFINE I == {0 .. n : n \in T}
<1>1. I \subseteq FiniteSubsetsOf(Nat)
    <2> SUFFICES ASSUME NEW n \in T PROVE 0 .. n \in FiniteSubsetsOf(Nat)
        OBVIOUS
    <2>1. n \in Int /\ 0 \in Int /\ 0 .. n \in SUBSET Nat
        OBVIOUS
    <2>2. IsFiniteSet(0 .. n)
        BY <2>1, FS_Interval
    <2> QED BY <2>1, <2>2 DEF FiniteSubsetsOf
<1>2. I # {}
    OBVIOUS
<1>3. PICK i \in I : \A j \in I : <<j, i>> \notin StrictSubsetOrdering(Nat)
    <2> HIDE DEF I
    <2> QED BY <1>1, <1>2, FS_StrictSubsetOrderingWellFounded, WFMin
<1>4. PICK x \in T : i = 0 .. x
    OBVIOUS
<1>5. ASSUME NEW y \in T, y < x PROVE FALSE
    <2>1. 0 .. y \subseteq 0 .. x /\ x \in 0 .. x /\ x \notin 0 .. y
        BY <1>5
    <2>2. <<0 .. y, i>> \in StrictSubsetOrdering(Nat)
        BY <1>4, <2>1 DEF StrictSubsetOrdering
    <2> QED BY <1>3, <2>2
<1> QED BY <1>5

\* A nonempty set of natural numbers with a bound has a greatest element.
LEMMA GreatestExists ==
    ASSUME NEW n \in Nat, NEW T, T \subseteq 0 .. n, T # {}
    PROVE  \E x \in T : \A y \in T : y <= x
<1> DEFINE U == {m \in 0 .. n : n - m \in T}
<1>1. U \subseteq Nat
    OBVIOUS
<1>2. PICK t \in T : TRUE
    OBVIOUS
<1>3. n - (n - t) = t /\ n - t \in 0 .. n
    OBVIOUS
<1>4. U # {}
    BY <1>3
<1>5. PICK u \in U : \A v \in U : u <= v
    <2> HIDE DEF U
    <2> QED BY <1>1, <1>4, LeastExists
<1>6. ASSUME NEW y \in T PROVE y <= n - u
    <2>1. n - (n - y) = y /\ n - y \in 0 .. n
        OBVIOUS
    <2>2. n - y \in U
        BY <2>1
    <2>3. u <= n - y
        BY <1>5, <2>2
    <2> QED BY <2>3
<1> QED BY <1>6

\* What is true of 0, and of the successor of each number of which it is true, is
\* true of every natural number.
LEMMA Induction ==
    ASSUME NEW S, 0 \in S, \A n \in Nat : n \in S => n + 1 \in S
    PROVE  Nat \subseteq S
<1> SUFFICES ASSUME Nat \ S # {} PROVE FALSE
    OBVIOUS
<1>1. PICK x \in Nat \ S : \A y \in Nat \ S : x <= y
    BY LeastExists
<1>2. x # 0 /\ x - 1 \in Nat
    OBVIOUS
<1>3. x - 1 \in S
    BY <1>1, <1>2
<1>4. (x - 1) + 1 \in S
    BY <1>2, <1>3
<1> QED BY <1>4

\* Course-of-values induction.
LEMMA StrongInduction ==
    ASSUME NEW S, \A n \in Nat : (\A m \in Nat : m < n => m \in S) => n \in S
    PROVE  Nat \subseteq S
<1> SUFFICES ASSUME Nat \ S # {} PROVE FALSE
    OBVIOUS
<1>1. PICK x \in Nat \ S : \A y \in Nat \ S : x <= y
    BY LeastExists
<1>2. \A m \in Nat : m < x => m \in S
    BY <1>1
<1> QED BY <1>2
=============================================================================
