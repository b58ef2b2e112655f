----------------------------- MODULE PagingProofs -----------------------------
(***************************************************************************)
(* The arithmetic of pages, for integers of every width.                   *)
(***************************************************************************)
EXTENDS Paging, FiniteSetTheorems, TLAPS

(* A power of two is what it should be, as it counts subsets. *)
LEMMA PowerOfTwo ==
    ASSUME NEW n \in Nat
    PROVE  2 ^ n \in Nat \ {0} /\ 2 ^ (n + 1) = 2 * 2 ^ n
<1> DEFINE S == 1 .. n
           T == 1 .. n + 1
           Without == SUBSET S
           With == {A \cup {n + 1} : A \in Without}
<1>1. /\ IsFiniteSet(S) /\ Cardinality(S) = n
      /\ IsFiniteSet(T) /\ Cardinality(T) = n + 1
  BY FS_Interval
<1>2. /\ IsFiniteSet(Without) /\ Cardinality(Without) = 2 ^ n
      /\ Cardinality(SUBSET T) = 2 ^ (n + 1)
  BY <1>1, FS_SUBSET
<1>3. 2 ^ n \in Nat \ {0}
  <2>1. Cardinality(Without) \in Nat
    BY <1>2, FS_CardinalityType
  <2>2. Without # {}
    OBVIOUS
  <2> QED BY <1>2, <2>1, <2>2, FS_EmptySet
<1>4. SUBSET T = Without \cup With
  <2>1. ASSUME NEW A \in SUBSET T PROVE A \in Without \cup With
    <3>1. CASE n + 1 \in A
      <4>1. A \ {n + 1} \in Without
        OBVIOUS
      <4>2. A = (A \ {n + 1}) \cup {n + 1}
        BY <3>1
      <4> QED BY <4>1, <4>2
    <3>2. CASE n + 1 \notin A
      <4>1. A \in Without
        BY <3>2
      <4> QED BY <4>1
    <3> QED BY <3>1, <3>2
  <2>2. ASSUME NEW A \in Without \cup With PROVE A \in SUBSET T
    <3>1. S \subseteq T /\ n + 1 \in T
      OBVIOUS
    <3> QED BY <3>1
  <2> QED BY <2>1, <2>2
<1>5. Without \cap With = {}
  <2>1. n + 1 \notin S
    OBVIOUS
  <2> QED BY <2>1
<1>6. IsFiniteSet(With) /\ Cardinality(With) = Cardinality(Without)
  <2> DEFINE f == [A \in Without |-> A \cup {n + 1}]
  <2>1. \A A, B \in Without : f[A] = f[B] => A = B
    <3>1. n + 1 \notin S
      OBVIOUS
    <3>2. ASSUME NEW A \in Without, NEW B \in Without, f[A] = f[B] PROVE A = B
      <4>1. A = f[A] \ {n + 1} /\ B = f[B] \ {n + 1}
        BY <3>1
      <4> QED BY <3>2, <4>1
    <3> QED BY <3>2
  <2>2. f \in [Without -> With] /\ \A B \in With : \E A \in Without : f[A] = B
    OBVIOUS
  <2> HIDE DEF f, With, Without
  <2>4. f \in Bijection(Without, With)
    BY <2>1, <2>2 DEF Bijection, Injection, Surjection, IsInjective
  <2>3. ExistsBijection(Without, With)
    BY <2>4 DEF ExistsBijection
  <2> QED BY <1>2, <2>3, FS_Bijection
<1>7. Cardinality(SUBSET T) = Cardinality(Without) + Cardinality(With)
  <2>1. Cardinality({}) = 0
    BY FS_EmptySet
  <2>2. Cardinality(Without \cup With)
          = Cardinality(Without) + Cardinality(With) - Cardinality(Without \cap With)
    BY <1>2, <1>6, FS_Union
  <2> HIDE DEF With, Without, T
  <2>3. Cardinality(Without) \in Nat
    BY <1>2, <1>3
  <2>4. /\ Cardinality(SUBSET T) = Cardinality(Without \cup With)
        /\ Cardinality(Without \cap With) = Cardinality({})
    BY <1>4, <1>5, Zenon
  <2> QED BY <1>6, <2>1, <2>2, <2>3, <2>4
<1> QED BY <1>2, <1>3, <1>6, <1>7

-----------------------------------------------------------------------------
(* Half the range of an int. *)
Half == 2 ^ (Width - 1)

LEMMA IntRange ==
    /\ Half \in Nat \ {0} /\ 2 ^ Width = 2 * Half
    /\ Int64 = -Half .. Half - 1 /\ Int64 \subseteq Int
<1>1. Width - 1 \in Nat /\ Width = (Width - 1) + 1
  BY PagingConstants
<1>2. Half \in Nat \ {0} /\ 2 ^ ((Width - 1) + 1) = 2 * Half
  BY <1>1, PowerOfTwo DEF Half
<1> QED BY <1>1, <1>2 DEF Int64, Half

(* A number modulo a greater one. *)
LEMMA SmallModulo ==
    ASSUME NEW m \in Nat \ {0}, NEW k \in 0 .. m - 1
    PROVE  k % m = k /\ (k + m) % m = k
OBVIOUS

(* An integer that an int can hold is not wrapped, and the ones beyond the *)
(* greatest become negative.                                               *)
LEMMA WrapKeeps ==
    ASSUME NEW k \in Int64
    PROVE  Wrap(k) = k
<1>1. k + Half \in 0 .. 2 * Half - 1
  BY IntRange
<1>2. (k + Half) % (2 * Half) = k + Half
  BY <1>1, IntRange, SmallModulo
<1> QED BY <1>1, <1>2, IntRange DEF Wrap, Half

LEMMA WrapNegates ==
    ASSUME NEW k \in Half .. 2 * Half - 1
    PROVE  Wrap(k) < 0
<1>1. (k - Half) \in 0 .. 2 * Half - 1
  BY IntRange
<1>2. ((k - Half) + 2 * Half) % (2 * Half) = k - Half
  BY <1>1, IntRange, SmallModulo
<1>3. (k - Half) + 2 * Half = k + Half
  BY IntRange
<1> QED BY <1>1, <1>2, <1>3, IntRange DEF Wrap, Half

(* Dividing natural numbers. *)
LEMMA Division ==
    ASSUME NEW a \in Nat, NEW b \in Nat \ {0}
    PROVE  /\ a \div b \in 0 .. a
           /\ (a \div b) * b <= a /\ a < (a \div b) * b + b
OBVIOUS

LEMMA QuotientIs ==
    ASSUME NEW a \in Int64, NEW b \in Int64, a >= 0, b > 0
    PROVE  Quotient(a, b) = a \div b
<1>1. a \in Nat /\ b \in Nat \ {0}
  BY IntRange
<1>2. a \div b \in Int64
  BY <1>1, Division, IntRange
<1>3. Quotient(a, b) = Wrap(a \div b)
  BY <1>1 DEF Quotient
<1> QED BY <1>2, <1>3, WrapKeeps

=============================================================================
