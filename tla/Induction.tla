----------------------------- MODULE Induction -----------------------------
(***************************************************************************)
(* Induction on the natural numbers, for what recursive functions compute: *)
(* the chain of clusters of FatFs, the levels of its tree, the lines of    *)
(* the accounts' file.  It rests on the well-foundedness of strict         *)
(* inclusion on finite sets.                                               *)
(***************************************************************************)
EXTENDS Integers, FiniteSets, FiniteSetTheorems, TLAPS

\* A nonempty set of natural numbers has a least element.
LEMMA LeastNat ==
  ASSUME NEW T, T \subseteq Nat, T # {}
  PROVE  \E x \in T : \A y \in T : x <= y
<1> DEFINE U == {0..n : n \in T}
           R == StrictSubsetOrdering(Nat)
           S == FiniteSubsetsOf(Nat)
<1>1. IsWellFoundedOn(R, S)
  BY FS_StrictSubsetOrderingWellFounded
<1>2. U \subseteq S
  <2>1. \A n \in T : IsFiniteSet(0..n)
    BY FS_Interval
  <2>2. \A n \in T : 0..n \in SUBSET Nat
    OBVIOUS
  <2>3. QED BY <2>1, <2>2 DEF FiniteSubsetsOf
<1>3. U # {} OBVIOUS
<1> HIDE DEF U, R, S
<1>4. \E u \in U : \A v \in U : ~(<<v, u>> \in R)
  BY <1>1, <1>2, <1>3, WFMin
<1>5. PICK u \in U : \A v \in U : ~(<<v, u>> \in R)
  BY <1>4
<1>6. PICK x \in T : u = 0..x
  BY DEF U
<1>7. ASSUME NEW y \in T, y < x PROVE FALSE
  <2>1. 0..y \in U BY DEF U
  <2>2. 0..y \subseteq 0..x /\ 0..y # 0..x
    <3>1. x \in Nat /\ y \in Nat OBVIOUS
    <3>2. x \in 0..x /\ x \notin 0..y BY <3>1, <1>7
    <3>3. 0..y \subseteq 0..x BY <3>1, <1>7
    <3>4. QED BY <3>2, <3>3
  <2>3. 0..y \in SUBSET Nat /\ 0..x \in SUBSET Nat OBVIOUS
  <2>4. <<0..y, 0..x>> \in R BY <2>2, <2>3 DEF R, StrictSubsetOrdering
  <2>5. QED BY <1>5, <1>6, <2>1, <2>4
<1>8. \A y \in T : x <= y BY <1>7
<1>9. QED BY <1>8

\* A property that holds of 0 and is passed on holds of every natural number.
LEMMA NatSetInduction ==
  ASSUME NEW S, 0 \in S, \A n \in Nat : n \in S => n + 1 \in S
  PROVE  \A n \in Nat : n \in S
<1>1. SUFFICES ASSUME Nat \ S # {} PROVE FALSE
  OBVIOUS
<1>2. PICK x \in Nat \ S : \A y \in Nat \ S : x <= y
  BY <1>1, LeastNat
<1>3. x # 0 BY <1>2
<1>4. x - 1 \in Nat /\ x - 1 \in S
  BY <1>2, <1>3
<1>5. QED BY <1>2, <1>4

\* A finite nonempty set of natural numbers has a greatest element.
LEMMA GreatestNat ==
  ASSUME NEW T, T \subseteq Nat, T # {}, NEW m \in Nat, \A x \in T : x <= m
  PROVE  \E x \in T : \A y \in T : x >= y
<1> DEFINE U == {n \in Nat : \A x \in T : x <= n}
<1>1. U \subseteq Nat /\ m \in U
  OBVIOUS
<1>2. PICK b \in U : \A n \in U : b <= n
  BY <1>1, LeastNat
<1>3. b \in T
  <2>1. SUFFICES ASSUME b \notin T PROVE FALSE
    OBVIOUS
  <2>2. b \in Nat /\ \A x \in T : x < b
    BY <2>1
  <2>3. b - 1 \in Nat /\ \A x \in T : x <= b - 1
    <3>1. PICK x \in T : TRUE
      OBVIOUS
    <3>2. x \in Nat /\ x < b
      BY <2>2
    <3> QED BY <2>2, <3>2
  <2>4. b - 1 \in U
    BY <2>3
  <2> QED BY <1>2, <2>2, <2>4
<1> QED BY <1>2, <1>3
=============================================================================
