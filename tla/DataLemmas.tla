----------------------------- MODULE DataLemmas -----------------------------
(***************************************************************************)
(* Facts about numbers, sequences and folds that the proofs of several     *)
(* components need.  Induction is over sets of numbers: a set that holds 0 *)
(* and with a number the next one holds all of them.                       *)
(***************************************************************************)
EXTENDS SequencesExt, Integers, FiniteSetTheorems, WellFoundedInduction, TLAPS

\* A set of numbers has a least one.
LEMMA LeastNat ==
    ASSUME NEW T \in SUBSET Nat, T # {}
    PROVE  \E n \in T : \A m \in T : n <= m
  <1>1. IsWellFoundedOn(OpToRel(<, Nat), Nat)
    BY NatLessThanWellFounded
  <1>2. \E x \in T : \A y \in T : ~ (<<y, x>> \in OpToRel(<, Nat))
    BY <1>1, WFMin
  <1>3. \A x, y \in Nat : y < x => <<y, x>> \in OpToRel(<, Nat)
    BY Zenon DEF OpToRel
  <1>4. \E x \in T : \A y \in T : ~(y < x)
    BY <1>2, <1>3, Zenon
  <1> QED
    BY <1>4

\* Induction over the numbers, of a set.
LEMMA AllNumbers ==
    ASSUME NEW T \in SUBSET Nat, 0 \in T, \A n \in T : n + 1 \in T
    PROVE  T = Nat
  <1> SUFFICES ASSUME T # Nat PROVE FALSE
    OBVIOUS
  <1>1. PICK n \in Nat \ T : \A m \in Nat \ T : n <= m
    BY LeastNat
  <1> QED
    BY <1>1

\* A set of numbers up to n has a greatest one, which Max() finds.
LEMMA MaxFacts ==
    ASSUME NEW n \in Nat, NEW T \in SUBSET (1..n), T # {}
    PROVE  Max(T) \in T /\ \A m \in T : m <= Max(T)
  <1> DEFINE D == {n - m : m \in T}
  <1>0. \A m \in T : n - m \in Nat
    OBVIOUS
  <1>1. D \in SUBSET Nat /\ D # {}
    BY <1>0
  <1>2. PICK d \in D : \A e \in D : d <= e
    BY <1>1, LeastNat
  <1>3. \E m \in T : \A k \in T : m >= k
    <2> PICK m \in T : d = n - m
      BY <1>2
    <2>1. \A k \in T : n - k \in D /\ k \in Int
      OBVIOUS
    <2>2. \A k \in T : m >= k
      BY <1>2, <2>1
    <2> QED
      BY <2>2
  <1> QED
    BY <1>3 DEF Max

\* A set of numbers has a least one, which Min() finds.
LEMMA MinFacts ==
    ASSUME NEW T \in SUBSET Nat, T # {}
    PROVE  Min(T) \in T /\ \A m \in T : Min(T) <= m
  <1>1. \E m \in T : \A k \in T : m =< k
    BY LeastNat
  <1> QED
    BY <1>1 DEF Min

\* it[T] is the result of the fold over T, which begins with base and takes ch[T] last.
IsFold(it, S, V, base, ch, step) ==
    /\ it \in [SUBSET S -> V]
    /\ \A T \in SUBSET S :
         it[T] = IF T = {} THEN base ELSE step[<<ch[T], it[T \ {ch[T]}]>>]

(***************************************************************************)
(* A fold over a finite set that is given by a table: there is a function  *)
(* that takes the elements one after the other as ch picks them.           *)
(***************************************************************************)
LEMMA FoldTable ==
    ASSUME NEW S, IsFiniteSet(S), NEW V, NEW base \in V,
           NEW ch, \A T \in SUBSET S : T # {} => ch[T] \in T,
           NEW step \in [S \X V -> V]
    PROVE  \E it : IsFold(it, S, V, base, ch, step)
  <1> DEFINE Goes(it, T) ==
               it[T] = IF T = {} THEN base ELSE step[<<ch[T], it[T \ {ch[T]}]>>]
             N == {n \in Nat : \E it \in [SUBSET S -> V] :
                      \A T \in SUBSET S : Cardinality(T) <= n => Goes(it, T)}
  <1>0. \A T \in SUBSET S :
          /\ Cardinality(T) \in Nat /\ Cardinality(T) <= Cardinality(S)
          /\ Cardinality(T) = 0 <=> T = {}
          /\ T # {} => /\ ch[T] \in S /\ T \ {ch[T]} \in SUBSET S
                       /\ Cardinality(T \ {ch[T]}) = Cardinality(T) - 1
    <2> TAKE T \in SUBSET S
    <2>1. IsFiniteSet(T) /\ Cardinality(T) <= Cardinality(S)
      BY FS_Subset
    <2>2. Cardinality(T) \in Nat /\ (Cardinality(T) = 0 <=> T = {})
      BY <2>1, FS_CardinalityType, FS_EmptySet
    <2>3. T # {} => Cardinality(T \ {ch[T]}) = Cardinality(T) - 1
      BY <2>1, FS_RemoveElement
    <2> QED
      BY <2>1, <2>2, <2>3
  <1>1. 0 \in N
    <2> DEFINE it == [T \in SUBSET S |-> base]
    <2>1. it \in [SUBSET S -> V]
      OBVIOUS
    <2>2. \A T \in SUBSET S : Cardinality(T) <= 0 => T = {}
      <3> TAKE T \in SUBSET S
      <3>1. Cardinality(T) \in Nat /\ (Cardinality(T) = 0 <=> T = {})
        BY <1>0
      <3> QED
        BY <3>1
    <2>3. \A T \in SUBSET S : it[T] = base
      OBVIOUS
    <2> HIDE DEF it
    <2>4. \A T \in SUBSET S : Cardinality(T) <= 0 => Goes(it, T)
      BY <2>2, <2>3
    <2> HIDE DEF Goes
    <2> QED
      BY <2>1, <2>4
  <1>2. \A n \in N : n + 1 \in N
    <2> TAKE n \in N
    <2>1. PICK it \in [SUBSET S -> V] :
             \A T \in SUBSET S : Cardinality(T) <= n => Goes(it, T)
      OBVIOUS
    <2> DEFINE jt == [T \in SUBSET S |->
                        IF T = {} THEN base ELSE step[<<ch[T], it[T \ {ch[T]}]>>]]
    <2>2. jt \in [SUBSET S -> V]
      BY <1>0
    <2>3. \A T \in SUBSET S : Cardinality(T) <= n => jt[T] = it[T]
      BY <2>1
    <2>4. \A T \in SUBSET S : Cardinality(T) <= n + 1 => Goes(jt, T)
      <3> TAKE T \in SUBSET S
      <3> HAVE Cardinality(T) <= n + 1
      <3>1. CASE T = {}
        BY <3>1
      <3>2. CASE T # {}
        <4>1. jt[T \ {ch[T]}] = it[T \ {ch[T]}]
          <5> HIDE DEF jt
          <5> QED
            BY <1>0, <2>3, <3>2
        <4>2. jt[T] = step[<<ch[T], it[T \ {ch[T]}]>>]
          BY <3>2
        <4> HIDE DEF jt
        <4> QED
          BY <3>2, <4>1, <4>2
      <3> QED
        BY <3>1, <3>2
    <2> HIDE DEF jt, Goes
    <2>5. n + 1 \in Nat
      OBVIOUS
    <2> QED
      BY <2>2, <2>4, <2>5
  <1>3. Cardinality(S) \in N
    <2> HIDE DEF N
    <2>1. N \in SUBSET Nat
      BY DEF N
    <2> QED
      BY <1>0, <1>1, <1>2, <2>1, AllNumbers
  <1>4. PICK it \in [SUBSET S -> V] :
           \A T \in SUBSET S : Cardinality(T) <= Cardinality(S) => Goes(it, T)
    BY <1>3
  <1>5. \A T \in SUBSET S : Goes(it, T)
    BY <1>0, <1>4
  <1> QED
    BY <1>5 DEF IsFold

\* The indices up to m: a set, less its last one, and its last one.
LEMMA PrefixSets ==
    ASSUME NEW n \in Nat, NEW m \in 1..n
    PROVE  1..m # {} /\ 1..m \in SUBSET (1..n) /\ m \in 1..m
  OBVIOUS

\* The same, without its last one.
LEMMA PrefixLess ==
    ASSUME NEW n \in Nat, NEW m \in 1..n
    PROVE  (1..m) \ {m} = 1..(m - 1)
  OBVIOUS

\* The same: Max() finds the last one.
LEMMA PrefixMax ==
    ASSUME NEW n \in Nat, NEW m \in 1..n
    PROVE  Max(1..m) = m
  <1> DEFINE T == 1..m
  <1>1. T \in SUBSET (1..n) /\ T # {} /\ m \in T /\ \A i \in T : i <= m
    OBVIOUS
  <1> HIDE DEF T
  <1>2. Max(T) \in T /\ m <= Max(T)
    BY <1>1, MaxFacts
  <1>3. Max(T) <= m /\ Max(T) \in 1..n
    BY <1>1, <1>2
  <1>4. Max(T) = m
    BY <1>2, <1>3
  <1> QED
    BY <1>4 DEF T

\* The same for the folds of a list from its first element on, by index.
IsLeftFold(it, n, V, base, step) ==
    /\ it \in [SUBSET (1..n) -> V]
    /\ \A T \in SUBSET (1..n) :
         it[T] = IF T = {} THEN base ELSE step[<<it[T \ {Max(T)}], Max(T)>>]

\* A fold over a list is given by a table, too.
LEMMA FoldLeftTable ==
    ASSUME NEW n \in Nat, NEW V, NEW base \in V, NEW step \in [V \X (1..n) -> V]
    PROVE  \E it : IsLeftFold(it, n, V, base, step)
  <1> DEFINE ch == [T \in SUBSET (1..n) |-> Max(T)]
             turned == [p \in (1..n) \X V |-> step[<<p[2], p[1]>>]]
  <1>1. \A T \in SUBSET (1..n) : T # {} => ch[T] = Max(T) /\ ch[T] \in T
    BY MaxFacts
  <1>2. turned \in [(1..n) \X V -> V]
    OBVIOUS
  <1>3. \A i \in 1..n, v \in V : turned[<<i, v>>] = step[<<v, i>>]
    OBVIOUS
  <1>4. IsFiniteSet(1..n)
    BY FS_Interval
  <1> HIDE DEF ch, turned
  <1>5. PICK it \in [SUBSET (1..n) -> V] :
           \A T \in SUBSET (1..n) :
             it[T] = IF T = {} THEN base ELSE turned[<<ch[T], it[T \ {ch[T]}]>>]
    <2> DEFINE S == 1..n
    <2>1. \A T \in SUBSET S : T # {} => ch[T] \in T
      BY <1>1
    <2>2. IsFiniteSet(S) /\ turned \in [S \X V -> V]
      BY <1>2, <1>4
    <2> HIDE DEF S
    <2>3. \E it : IsFold(it, S, V, base, ch, turned)
      BY <2>1, <2>2, FoldTable
    <2> QED
      BY <2>3 DEF S, IsFold
  <1>6. \A T \in SUBSET (1..n) :
           it[T] = IF T = {} THEN base ELSE step[<<it[T \ {Max(T)}], Max(T)>>]
    <2> TAKE T \in SUBSET (1..n)
    <2>1. CASE T = {}
      BY <1>5, <2>1
    <2>2. CASE T # {}
      <3>1. ch[T] = Max(T) /\ Max(T) \in 1..n /\ it[T \ {Max(T)}] \in V
        BY <1>1, <2>2
      <3> QED
        BY <1>3, <1>5, <2>2, <3>1
    <2> QED
      BY <2>1, <2>2
  <1> QED
    BY <1>6 DEF IsLeftFold

\* A product is not smaller with a larger factor.
LEMMA Times ==
    ASSUME NEW a \in Nat, NEW b \in Nat, a <= b, NEW c \in Nat
    PROVE  a * c <= b * c /\ a * c \in Nat /\ b * c \in Nat
  BY SMTT(30)

-----------------------------------------------------------------------------
(* Sums                                                                    *)

\* What holds of a set when it holds of the set less any one of its elements.
Inductive(C, S) == \A T \in SUBSET S : (\A x \in T : T \ {x} \in C) => T \in C

\* Induction over the subsets of a finite set.
LEMMA FiniteInduction ==
    ASSUME NEW S, IsFiniteSet(S), NEW C, Inductive(C, S)
    PROVE  \A T \in SUBSET S : T \in C
  <1> DEFINE N == {n \in Nat : \A T \in SUBSET S : Cardinality(T) <= n => T \in C}
  <1>0. \A T \in SUBSET S : /\ IsFiniteSet(T) /\ Cardinality(T) \in Nat
                            /\ (Cardinality(T) = 0 <=> T = {})
                            /\ \A x \in T : Cardinality(T \ {x}) = Cardinality(T) - 1
    BY FS_Subset, FS_CardinalityType, FS_EmptySet, FS_RemoveElement
  <1>1. 0 \in N
    <2>1. {} \in C
      BY DEF Inductive
    <2>2. \A T \in SUBSET S : Cardinality(T) <= 0 => T = {}
      <3> TAKE T \in SUBSET S
      <3>1. Cardinality(T) \in Nat /\ (Cardinality(T) = 0 <=> T = {})
        BY <1>0
      <3> QED
        BY <3>1
    <2> QED
      BY <2>1, <2>2
  <1>2. \A n \in N : n + 1 \in N
    <2> TAKE n \in N
    <2>1. \A T \in SUBSET S : Cardinality(T) <= n + 1 => T \in C
      <3> TAKE T \in SUBSET S
      <3> HAVE Cardinality(T) <= n + 1
      <3>1. \A x \in T : T \ {x} \in SUBSET S /\ Cardinality(T \ {x}) <= n
        <4> TAKE x \in T
        <4>1. Cardinality(T) \in Nat /\ Cardinality(T \ {x}) = Cardinality(T) - 1
          BY <1>0
        <4> QED
          BY <4>1
      <3>2. \A x \in T : T \ {x} \in C
        BY <3>1
      <3> QED
        BY <3>2 DEF Inductive
    <2> QED
      BY <2>1
  <1>3. N = Nat
    <2> HIDE DEF N
    <2>1. N \in SUBSET Nat
      BY DEF N
    <2> QED
      BY <1>1, <1>2, <2>1, AllNumbers
  <1> TAKE T \in SUBSET S
  <1>4. Cardinality(T) \in N
    BY <1>0, <1>3
  <1> QED
    BY <1>4

\* A finite set has a finite image.
LEMMA ImageFinite ==
    ASSUME NEW S, IsFiniteSet(S), NEW h
    PROVE  IsFiniteSet({h[x] : x \in S})
  <1> DEFINE m == [x \in S |-> h[x]]
             T == {h[x] : x \in S}
  <1>1. m \in Surjection(S, T)
    BY DEF Surjection
  <1> HIDE DEF m, T
  <1>2. IsFiniteSet(T)
    BY <1>1, FS_Surjection
  <1> QED
    BY <1>2 DEF T

\* The sum of f over a set, and the function that FoldFunctionOnSet chooses for it.
SumOver(f, S) == FoldFunctionOnSet(+, 0, f, S)

SumTable(f, S) ==
    CHOOSE it : it = [T \in SUBSET S |->
                        IF T = {} THEN 0
                        ELSE f[CHOOSE x \in T : TRUE] + it[T \ {CHOOSE x \in T : TRUE}]]

\* The sum is what this function says of the set.
LEMMA SumIsTable ==
    ASSUME NEW f, NEW S
    PROVE  SumOver(f, S) = SumTable(f, S)[S]
  BY DEF SumOver, SumTable, FoldFunctionOnSet, MapThenFoldSet

\* The function exists, and takes one element of a set at a time.
LEMMA SumTableGoes ==
    ASSUME NEW S, IsFiniteSet(S), NEW f, \A x \in S : f[x] \in Nat
    PROVE  /\ SumTable(f, S) \in [SUBSET S -> Nat]
           /\ \A T \in SUBSET S :
                SumTable(f, S)[T] =
                  IF T = {} THEN 0
                  ELSE f[CHOOSE x \in T : TRUE] + SumTable(f, S)[T \ {CHOOSE x \in T : TRUE}]
  <1> DEFINE ch == [T \in SUBSET S |-> CHOOSE x \in T : TRUE]
             step == [p \in S \X Nat |-> f[p[1]] + p[2]]
  <1>1. \A T \in SUBSET S : T # {} => ch[T] \in T /\ ch[T] = CHOOSE x \in T : TRUE
    OBVIOUS
  <1>2. step \in [S \X Nat -> Nat]
    OBVIOUS
  <1>3. \A x \in S, v \in Nat : step[<<x, v>>] = f[x] + v
    OBVIOUS
  <1> HIDE DEF ch, step
  <1>4. PICK it : IsFold(it, S, Nat, 0, ch, step)
    <2>1. \A T \in SUBSET S : T # {} => ch[T] \in T
      BY <1>1
    <2> QED
      BY <1>2, <2>1, FoldTable
  <1>5. it \in [SUBSET S -> Nat]
    BY <1>4 DEF IsFold
  <1>6. \A T \in SUBSET S :
           it[T] = IF T = {} THEN 0
                   ELSE f[CHOOSE x \in T : TRUE] + it[T \ {CHOOSE x \in T : TRUE}]
    <2> TAKE T \in SUBSET S
    <2>1. it[T] = IF T = {} THEN 0 ELSE step[<<ch[T], it[T \ {ch[T]}]>>]
      BY <1>4 DEF IsFold
    <2>2. CASE T = {}
      BY <2>1, <2>2
    <2>3. CASE T # {}
      <3>1. ch[T] \in S /\ it[T \ {ch[T]}] \in Nat
        BY <1>1, <1>5, <2>3
      <3>2. it[T] = f[ch[T]] + it[T \ {ch[T]}]
        BY <1>3, <2>1, <2>3, <3>1
      <3> QED
        BY <1>1, <2>3, <3>2
    <2> QED
      BY <2>2, <2>3
  <1>7. it = [T \in SUBSET S |->
                IF T = {} THEN 0
                ELSE f[CHOOSE x \in T : TRUE] + it[T \ {CHOOSE x \in T : TRUE}]]
    BY <1>5, <1>6
  <1> DEFINE jt == SumTable(f, S)
  <1>8. jt = [T \in SUBSET S |->
                IF T = {} THEN 0
                ELSE f[CHOOSE x \in T : TRUE] + jt[T \ {CHOOSE x \in T : TRUE}]]
    BY <1>7 DEF SumTable
  <1>9. \A T \in SUBSET S :
           jt[T] = IF T = {} THEN 0
                   ELSE f[CHOOSE x \in T : TRUE] + jt[T \ {CHOOSE x \in T : TRUE}]
    <2> HIDE DEF jt
    <2> QED
      BY <1>8
  <1>10. jt \in [SUBSET S -> Nat]
    <2>1. DOMAIN jt = SUBSET S /\ jt = [T \in DOMAIN jt |-> jt[T]]
      <3> HIDE DEF jt
      <3> QED
        BY <1>8
    <2>2. \A T \in SUBSET S : T \in {U \in SUBSET S : jt[U] \in Nat}
      <3> DEFINE C == {U \in SUBSET S : jt[U] \in Nat}
      <3> HIDE DEF jt
      <3>1. Inductive(C, S)
        <4> SUFFICES \A T \in SUBSET S : (\A x \in T : T \ {x} \in C) => T \in C
          BY DEF Inductive
        <4> TAKE T \in SUBSET S
        <4> HAVE \A x \in T : T \ {x} \in C
        <4>1. CASE T = {}
          <5>1. jt[T] = 0
            BY <1>9, <4>1
          <5> QED
            BY <5>1
        <4>2. CASE T # {}
          <5>1. PICK y \in T : y = CHOOSE x \in T : TRUE
            BY <4>2
          <5>2. jt[T] = f[y] + jt[T \ {y}]
            BY <1>9, <4>2, <5>1
          <5>3. f[y] \in Nat /\ jt[T \ {y}] \in Nat
            OBVIOUS
          <5> QED
            BY <5>2, <5>3
        <4> QED
          BY <4>1, <4>2
      <3> HIDE DEF C
      <3> QED
        BY <3>1, FiniteInduction DEF C
    <2> HIDE DEF jt
    <2> QED
      BY <2>1, <2>2
  <1> QED
    BY <1>9, <1>10

\* It is the same whatever set it was made for.
LEMMA SumTablesAgree ==
    ASSUME NEW S, IsFiniteSet(S), NEW f, \A x \in S : f[x] \in Nat, NEW U \in SUBSET S
    PROVE  SumTable(f, S)[U] = SumTable(f, U)[U]
  <1> DEFINE jt == SumTable(f, S)
             kt == SumTable(f, U)
             C == {T \in SUBSET U : jt[T] = kt[T]}
  <1>1. IsFiniteSet(U) /\ \A x \in U : f[x] \in Nat
    BY FS_Subset
  <1>2. \A T \in SUBSET U :
           jt[T] = IF T = {} THEN 0
                   ELSE f[CHOOSE x \in T : TRUE] + jt[T \ {CHOOSE x \in T : TRUE}]
    <2>1. \A T \in SUBSET S :
             jt[T] = IF T = {} THEN 0
                     ELSE f[CHOOSE x \in T : TRUE] + jt[T \ {CHOOSE x \in T : TRUE}]
      BY SumTableGoes
    <2> HIDE DEF jt
    <2> QED
      BY <2>1
  <1>3. \A T \in SUBSET U :
           kt[T] = IF T = {} THEN 0
                   ELSE f[CHOOSE x \in T : TRUE] + kt[T \ {CHOOSE x \in T : TRUE}]
    BY <1>1, SumTableGoes
  <1> HIDE DEF jt, kt
  <1>4. Inductive(C, U)
    <2> SUFFICES \A T \in SUBSET U : (\A x \in T : T \ {x} \in C) => T \in C
      BY DEF Inductive
    <2> TAKE T \in SUBSET U
    <2> HAVE \A x \in T : T \ {x} \in C
    <2>1. CASE T = {}
      <3>1. jt[T] = 0 /\ kt[T] = 0
        BY <1>2, <1>3, <2>1
      <3> QED
        BY <3>1
    <2>2. CASE T # {}
      <3>1. PICK y \in T : y = CHOOSE x \in T : TRUE
        BY <2>2
      <3>2. jt[T] = f[y] + jt[T \ {y}]
        BY <1>2, <2>2, <3>1
      <3>3. kt[T] = f[y] + kt[T \ {y}]
        BY <1>3, <2>2, <3>1
      <3>4. jt[T \ {y}] = kt[T \ {y}]
        OBVIOUS
      <3> QED
        BY <3>2, <3>3, <3>4
    <2> QED
      BY <2>1, <2>2
  <1> HIDE DEF C
  <1>5. U \in C
    BY <1>1, <1>4, FiniteInduction
  <1> QED
    BY <1>5 DEF C, jt, kt

\* One step of a sum, at the element that it happens to begin with.
LEMMA SumChosen ==
    ASSUME NEW S, IsFiniteSet(S), NEW f, \A x \in S : f[x] \in Nat
    PROVE  /\ SumOver(f, S) \in Nat
           /\ S = {} => SumOver(f, S) = 0
           /\ S # {} => \E y \in S : SumOver(f, S) = f[y] + SumOver(f, S \ {y})
  <1>1. SumOver(f, S) = SumTable(f, S)[S]
    BY SumIsTable
  <1>2. SumTable(f, S) \in [SUBSET S -> Nat]
    BY SumTableGoes
  <1>3. SumTable(f, S)[S] = IF S = {} THEN 0
          ELSE f[CHOOSE x \in S : TRUE] + SumTable(f, S)[S \ {CHOOSE x \in S : TRUE}]
    BY SumTableGoes
  <1>4. SumOver(f, S) \in Nat /\ (S = {} => SumOver(f, S) = 0)
    BY <1>1, <1>2, <1>3
  <1>5. ASSUME S # {} PROVE \E y \in S : SumOver(f, S) = f[y] + SumOver(f, S \ {y})
    <2>1. PICK y \in S : y = CHOOSE x \in S : TRUE
      BY <1>5
    <2>2. SumOver(f, S) = f[y] + SumTable(f, S)[S \ {y}]
      BY <1>1, <1>3, <1>5, <2>1
    <2>3. SumTable(f, S)[S \ {y}] = SumTable(f, S \ {y})[S \ {y}]
      <3>1. S \ {y} \in SUBSET S
        OBVIOUS
      <3> QED
        BY <3>1, SumTablesAgree
    <2>4. SumOver(f, S \ {y}) = SumTable(f, S \ {y})[S \ {y}]
      BY SumIsTable
    <2> QED
      BY <2>2, <2>3, <2>4
  <1> QED
    BY <1>4, <1>5

(***************************************************************************)
(* A sum may be taken from any of its elements on.                         *)
(***************************************************************************)
LEMMA SumSplit ==
    ASSUME NEW S, IsFiniteSet(S), NEW f, \A x \in S : f[x] \in Nat
    PROVE  /\ SumOver(f, S) \in Nat
           /\ S = {} => SumOver(f, S) = 0
           /\ \A x \in S : SumOver(f, S) = f[x] + SumOver(f, S \ {x})
  <1> DEFINE C == {T \in SUBSET S : \A x \in T : SumOver(f, T) = f[x] + SumOver(f, T \ {x})}
  <1>1. \A T \in SUBSET S :
           /\ SumOver(f, T) \in Nat
           /\ T # {} => \E y \in T : SumOver(f, T) = f[y] + SumOver(f, T \ {y})
    <2> TAKE T \in SUBSET S
    <2>1. IsFiniteSet(T) /\ \A x \in T : f[x] \in Nat
      BY FS_Subset
    <2> QED
      BY <2>1, SumChosen
  <1>2. Inductive(C, S)
    <2> SUFFICES \A T \in SUBSET S : (\A x \in T : T \ {x} \in C) => T \in C
      BY DEF Inductive
    <2> TAKE T \in SUBSET S
    <2> HAVE \A x \in T : T \ {x} \in C
    <2> SUFFICES ASSUME NEW x \in T PROVE SumOver(f, T) = f[x] + SumOver(f, T \ {x})
      OBVIOUS
    <2>1. PICK y \in T : SumOver(f, T) = f[y] + SumOver(f, T \ {y})
      BY <1>1
    <2>2. CASE x = y
      BY <2>1, <2>2
    <2>3. CASE x # y
      <3>1. x \in T \ {y} /\ y \in T \ {x} /\ (T \ {y}) \ {x} = (T \ {x}) \ {y}
        BY <2>3
      <3>2. SumOver(f, T \ {y}) = f[x] + SumOver(f, (T \ {y}) \ {x})
        BY <3>1
      <3>3. SumOver(f, T \ {x}) = f[y] + SumOver(f, (T \ {x}) \ {y})
        BY <3>1
      <3>4. f[x] \in Nat /\ f[y] \in Nat /\ SumOver(f, (T \ {x}) \ {y}) \in Nat
        BY <1>1
      <3> QED
        BY <2>1, <3>1, <3>2, <3>3, <3>4
    <2> QED
      BY <2>2, <2>3
  <1> HIDE DEF C
  <1>3. S \in C
    BY <1>2, FiniteInduction
  <1> QED
    BY <1>3, SumChosen DEF C

(***************************************************************************)
(* A sum over a finite set is one over what its elements are mapped to,    *)
(* when no two are mapped to the same.                                     *)
(***************************************************************************)
Carries(h, S, f, g) ==
    /\ \A x, y \in S : h[x] = h[y] => x = y
    /\ \A x \in S : f[x] \in Nat /\ g[h[x]] = f[x]

LEMMA SumImage ==
    ASSUME NEW S, IsFiniteSet(S), NEW f, NEW g, NEW h, Carries(h, S, f, g)
    PROVE  SumOver(f, S) = SumOver(g, {h[x] : x \in S})
  <1>0. /\ \A x, y \in S : h[x] = h[y] => x = y
        /\ \A x \in S : f[x] \in Nat /\ g[h[x]] = f[x]
    BY DEF Carries
  <1> DEFINE I(T) == {h[x] : x \in T}
             C == {T \in SUBSET S : SumOver(f, T) = SumOver(g, I(T))}
  <1>1. \A T \in SUBSET S : /\ IsFiniteSet(T) /\ \A x \in T : f[x] \in Nat
                            /\ IsFiniteSet(I(T)) /\ \A z \in I(T) : g[z] \in Nat
                            /\ I({}) = {}
                            /\ \A x \in T : h[x] \in I(T) /\ I(T) \ {h[x]} = I(T \ {x})
    <2> TAKE T \in SUBSET S
    <2>1. IsFiniteSet(T)
      BY FS_Subset
    <2>2. IsFiniteSet(I(T))
      BY <2>1, ImageFinite
    <2>3. /\ I({}) = {} /\ \A z \in I(T) : g[z] \in Nat
          /\ \A x \in T : h[x] \in I(T)
      BY <1>0
    <2>4. \A x \in T : I(T) \ {h[x]} = I(T \ {x})
      BY <1>0
    <2> QED
      BY <1>0, <2>1, <2>2, <2>3, <2>4
  <1>2. Inductive(C, S)
    <2> SUFFICES \A T \in SUBSET S : (\A x \in T : T \ {x} \in C) => T \in C
      BY DEF Inductive
    <2> TAKE T \in SUBSET S
    <2> HAVE \A x \in T : T \ {x} \in C
    <2>1. CASE T = {}
      <3> HIDE DEF I
      <3>1. I(T) = {} /\ IsFiniteSet(T) /\ IsFiniteSet(I(T))
        BY <1>1, <2>1
      <3>2. SumOver(f, T) = 0 /\ SumOver(g, I(T)) = 0
        BY <2>1, <3>1, SumSplit
      <3> QED
        BY <3>2
    <2>2. CASE T # {}
      <3> HIDE DEF I
      <3>1. PICK x \in T : TRUE
        BY <2>2
      <3>2. SumOver(f, T) = f[x] + SumOver(f, T \ {x})
        <4>1. IsFiniteSet(T) /\ \A y \in T : f[y] \in Nat
          BY <1>1
        <4> QED
          BY <4>1, SumSplit
      <3>3. SumOver(g, I(T)) = g[h[x]] + SumOver(g, I(T) \ {h[x]})
        <4> DEFINE J == I(T)
        <4>1. IsFiniteSet(J) /\ (\A z \in J : g[z] \in Nat) /\ h[x] \in J
          BY <1>1
        <4> HIDE DEF J
        <4>2. SumOver(g, J) = g[h[x]] + SumOver(g, J \ {h[x]})
          BY <4>1, SumSplit
        <4> QED
          BY <4>2 DEF J
      <3>4. SumOver(f, T \ {x}) = SumOver(g, I(T \ {x}))
        OBVIOUS
      <3> QED
        BY <1>0, <1>1, <3>2, <3>3, <3>4
    <2> QED
      BY <2>1, <2>2
  <1> HIDE DEF C
  <1>3. S \in C
    BY <1>2, FiniteInduction
  <1> QED
    BY <1>3 DEF C

(***************************************************************************)
(* Sums of values that are pointwise at most others.                       *)
(***************************************************************************)
LEMMA SumAtMost ==
    ASSUME NEW S, IsFiniteSet(S), NEW f, \A x \in S : f[x] \in Nat,
           NEW g, \A x \in S : g[x] \in Nat /\ f[x] <= g[x]
    PROVE  SumOver(f, S) <= SumOver(g, S)
  <1> DEFINE C == {T \in SUBSET S : SumOver(f, T) <= SumOver(g, T)}
  <1>1. \A T \in SUBSET S : /\ IsFiniteSet(T) /\ \A x \in T : f[x] \in Nat
                            /\ \A x \in T : g[x] \in Nat
    BY FS_Subset
  <1>2. Inductive(C, S)
    <2> SUFFICES \A T \in SUBSET S : (\A x \in T : T \ {x} \in C) => T \in C
      BY DEF Inductive
    <2> TAKE T \in SUBSET S
    <2> HAVE \A x \in T : T \ {x} \in C
    <2>1. CASE T = {}
      <3>1. SumOver(f, T) = 0 /\ SumOver(g, T) = 0
        BY <1>1, <2>1, SumSplit
      <3> QED
        BY <3>1
    <2>2. CASE T # {}
      <3>1. PICK x \in T : TRUE
        BY <2>2
      <3>2. /\ SumOver(f, T) = f[x] + SumOver(f, T \ {x})
            /\ SumOver(g, T) = g[x] + SumOver(g, T \ {x})
        BY <1>1, SumSplit
      <3>3. /\ SumOver(f, T \ {x}) \in Nat /\ SumOver(g, T \ {x}) \in Nat
            /\ T \ {x} \in SUBSET S
        <4>1. T \ {x} \in SUBSET S
          OBVIOUS
        <4> QED
          BY <1>1, <4>1, SumSplit
      <3>4. SumOver(f, T \ {x}) <= SumOver(g, T \ {x})
        OBVIOUS
      <3>5. f[x] \in Nat /\ g[x] \in Nat /\ f[x] <= g[x]
        OBVIOUS
      <3> QED
        BY <3>2, <3>3, <3>4, <3>5
    <2> QED
      BY <2>1, <2>2
  <1> HIDE DEF C
  <1>3. S \in C
    BY <1>2, FiniteInduction
  <1> QED
    BY <1>3 DEF C

(***************************************************************************)
(* A sum over fewer elements, of values that are pointwise at most others. *)
(***************************************************************************)
LEMMA SumGrows ==
    ASSUME NEW T, IsFiniteSet(T), NEW g, \A x \in T : g[x] \in Nat,
           NEW S \in SUBSET T, NEW f, \A x \in S : f[x] \in Nat /\ f[x] <= g[x]
    PROVE  SumOver(f, S) <= SumOver(g, T)
  <1> DEFINE C == {U \in SUBSET T : \A V \in SUBSET U : SumOver(g, V) <= SumOver(g, U)}
  <1>1. \A U \in SUBSET T : IsFiniteSet(U) /\ \A x \in U : g[x] \in Nat
    BY FS_Subset
  <1>2. Inductive(C, T)
    <2> SUFFICES ASSUME NEW U \in SUBSET T, \A x \in U : U \ {x} \in C PROVE U \in C
      BY DEF Inductive
    <2> SUFFICES ASSUME NEW V \in SUBSET U PROVE SumOver(g, V) <= SumOver(g, U)
      OBVIOUS
    <2>0. SumOver(g, V) \in Nat /\ SumOver(g, U) \in Nat
      <3>1. V \in SUBSET T
        OBVIOUS
      <3> QED
        BY <1>1, <3>1, SumSplit
    <2>1. CASE V = U
      BY <2>0, <2>1
    <2>2. CASE V # U
      <3>1. PICK x \in U : x \notin V
        BY <2>2
      <3>2. SumOver(g, U) = g[x] + SumOver(g, U \ {x})
        BY <1>1, SumSplit
      <3>3. U \ {x} \in SUBSET T /\ V \in SUBSET (U \ {x})
        BY <3>1
      <3>4. SumOver(g, U \ {x}) \in Nat /\ g[x] \in Nat
        BY <1>1, <3>3, SumSplit
      <3>5. SumOver(g, V) <= SumOver(g, U \ {x})
        BY <3>3
      <3> QED
        BY <2>0, <3>2, <3>4, <3>5
    <2> QED
      BY <2>1, <2>2
  <1>3. SumOver(g, S) <= SumOver(g, T)
    <2> HIDE DEF C
    <2>1. T \in C
      BY <1>2, FiniteInduction
    <2> QED
      BY <2>1 DEF C
  <1>4. SumOver(f, S) <= SumOver(g, S)
    BY <1>1, SumAtMost
  <1>5. SumOver(f, S) \in Nat /\ SumOver(g, S) \in Nat /\ SumOver(g, T) \in Nat
    BY <1>1, SumSplit
  <1> QED
    BY <1>3, <1>4, <1>5

-----------------------------------------------------------------------------
(* Lists                                                                   *)

\* A finite set of numbers has a greatest one, which Max() finds.
LEMMA MaxOfFinite ==
    ASSUME NEW S \in SUBSET Nat, IsFiniteSet(S), S # {}
    PROVE  Max(S) \in S /\ \A m \in S : m <= Max(S)
  <1> DEFINE C == {T \in SUBSET S : T # {} => \E x \in T : \A y \in T : y <= x}
  <1>1. Inductive(C, S)
    <2> SUFFICES \A T \in SUBSET S : (\A x \in T : T \ {x} \in C) => T \in C
      BY DEF Inductive
    <2> TAKE T \in SUBSET S
    <2> HAVE \A x \in T : T \ {x} \in C
    <2> SUFFICES ASSUME T # {} PROVE \E x \in T : \A y \in T : y <= x
      OBVIOUS
    <2>1. PICK z \in T : TRUE
      OBVIOUS
    <2>2. CASE T \ {z} = {}
      <3>1. \A y \in T : y = z /\ y \in Nat
        BY <2>2
      <3> QED
        BY <3>1
    <2>3. CASE T \ {z} # {}
      <3>1. PICK x \in T \ {z} : \A y \in T \ {z} : y <= x
        BY <2>3
      <3>2. x \in Nat /\ z \in Nat
        OBVIOUS
      <3>3. CASE z <= x
        BY <3>1, <3>3
      <3>4. CASE x <= z
        <4>1. \A y \in T : y <= z
          <5> TAKE y \in T
          <5>1. y \in Nat /\ (y = z \/ y <= x)
            BY <3>1
          <5> QED
            BY <3>2, <3>4, <5>1
        <4> QED
          BY <4>1
      <3> QED
        BY <3>2, <3>3, <3>4
    <2> QED
      BY <2>2, <2>3
  <1> HIDE DEF C
  <1>2. S \in C
    BY <1>1, FiniteInduction
  <1>3. PICK x \in S : \A y \in S : y <= x
    BY <1>2 DEF C
  <1>4. \A y \in S : x >= y
    BY <1>3
  <1>5. Max(S) \in S /\ \A y \in S : Max(S) >= y
    BY <1>4 DEF Max
  <1> QED
    BY <1>5

\* What holds of 0 and with a number of the next one holds up to n.
LEMMA UpTo ==
    ASSUME NEW n \in Nat, NEW G, 0 \in G, \A m \in 1..n : m - 1 \in G => m \in G
    PROVE  \A m \in 0..n : m \in G
  <1> DEFINE T == {m \in Nat : m <= n => m \in G}
  <1>1. 0 \in T
    OBVIOUS
  <1>2. \A m \in T : m + 1 \in T
    <2> TAKE m \in T
    <2>1. CASE m + 1 <= n
      <3>1. m + 1 \in 1..n /\ (m + 1) - 1 = m /\ m \in G
        BY <2>1
      <3>2. m + 1 \in G
        BY <3>1
      <3> QED
        BY <3>2
    <2>2. CASE ~(m + 1 <= n)
      BY <2>2
    <2> QED
      BY <2>1, <2>2
  <1>3. T = Nat
    <2>1. T \in SUBSET Nat
      OBVIOUS
    <2> HIDE DEF T
    <2> QED
      BY <1>1, <1>2, <2>1, AllNumbers
  <1> QED
    BY <1>3

(***************************************************************************)
(* A set of indices that holds with an index every smaller one is a        *)
(* beginning.                                                              *)
(***************************************************************************)
LEMMA DownClosed ==
    ASSUME NEW n \in Nat, NEW K \in SUBSET (1..n),
           \A i \in K, j \in 1..n : j < i => j \in K
    PROVE  Cardinality(K) \in 0..n /\ K = 1..Cardinality(K)
  <1> DEFINE R == {m \in Nat : m + 1 \notin K}
  <1>1. R # {}
    <2>1. n + 1 \notin K
      OBVIOUS
    <2> QED
      BY <2>1
  <1>2. PICK k \in R : \A m \in R : k <= m
    <2> HIDE DEF R
    <2>1. R \in SUBSET Nat
      BY DEF R
    <2> QED
      BY <1>1, <2>1, LeastNat
  <1>3. k \in 0..n
    <2>1. n + 1 \notin K
      OBVIOUS
    <2> QED
      BY <1>2, <2>1
  <1>4. K = 1..k
    <2>1. \A i \in 1..k : i \in K
      <3> TAKE i \in 1..k
      <3>1. i - 1 \in Nat /\ i - 1 \notin R /\ (i - 1) + 1 = i
        BY <1>2, <1>3
      <3> QED
        BY <3>1
    <2>2. \A i \in K : i \in 1..k
      <3> TAKE i \in K
      <3>1. i \in 1..n /\ k + 1 \notin K /\ k \in Nat
        BY <1>2
      <3> QED
        BY <1>3, <3>1
    <2> QED
      BY <2>1, <2>2
  <1>5. Cardinality(1..k) = k
    BY <1>3, FS_Interval
  <1> QED
    BY <1>3, <1>4, <1>5

\* What the helpers on lists return, by index.
LEMMA ConcatFacts ==
    ASSUME NEW S, NEW a \in Seq(S), NEW b \in Seq(S)
    PROVE  /\ a \o b \in Seq(S) /\ Len(a \o b) = Len(a) + Len(b)
           /\ \A i \in 1..Len(a) : (a \o b)[i] = a[i]
           /\ \A i \in (Len(a) + 1)..(Len(a) + Len(b)) : (a \o b)[i] = b[i - Len(a)]
  OBVIOUS

\* One element more.
LEMMA InsertAtFacts ==
    ASSUME NEW S, NEW list \in Seq(S), NEW e \in S, NEW k \in 0..Len(list)
    PROVE  /\ InsertAt(list, k + 1, e) \in Seq(S)
           /\ Len(InsertAt(list, k + 1, e)) = Len(list) + 1
           /\ \A i \in 1..(Len(list) + 1) :
                InsertAt(list, k + 1, e)[i] =
                  IF i <= k THEN list[i] ELSE IF i = k + 1 THEN e ELSE list[i - 1]
  <1> DEFINE a == SubSeq(list, 1, k)
             b == SubSeq(list, k + 1, Len(list))
  <1>1. a \in Seq(S) /\ Len(a) = k /\ \A i \in 1..k : a[i] = list[i]
    OBVIOUS
  <1>2. /\ b \in Seq(S) /\ Len(b) = Len(list) - k
        /\ \A i \in 1..(Len(list) - k) : b[i] = list[k + i]
    OBVIOUS
  <1>3. InsertAt(list, k + 1, e) = a \o <<e>> \o b
    <2>1. (k + 1) - 1 = k
      OBVIOUS
    <2> QED
      BY <2>1, Zenon DEF InsertAt
  <1> HIDE DEF a, b
  <1>4. /\ a \o <<e>> \in Seq(S) /\ Len(a \o <<e>>) = k + 1
        /\ \A i \in 1..k : (a \o <<e>>)[i] = list[i]
        /\ (a \o <<e>>)[k + 1] = e
    BY <1>1
  <1> DEFINE c == a \o <<e>>
  <1> HIDE DEF c
  <1>5. /\ c \o b \in Seq(S) /\ Len(c \o b) = Len(list) + 1
        /\ \A i \in 1..(k + 1) : (c \o b)[i] = c[i]
        /\ \A i \in (k + 2)..(Len(list) + 1) : (c \o b)[i] = b[i - (k + 1)]
    BY <1>2, <1>4 DEF c
  <1>6. \A i \in (k + 2)..(Len(list) + 1) : (c \o b)[i] = list[i - 1]
    BY <1>2, <1>5
  <1> DEFINE cb == c \o b
  <1>7. InsertAt(list, k + 1, e) = cb /\ cb \in Seq(S) /\ Len(cb) = Len(list) + 1
    BY <1>3, <1>5 DEF c
  <1>8. \A i \in 1..k : cb[i] = list[i]
    BY <1>4, <1>5 DEF c
  <1>9. cb[k + 1] = e
    BY <1>4, <1>5 DEF c
  <1>10. \A i \in (k + 2)..(Len(list) + 1) : cb[i] = list[i - 1]
    BY <1>6
  <1> HIDE DEF cb
  <1>11. \A i \in 1..(Len(list) + 1) :
            cb[i] = IF i <= k THEN list[i] ELSE IF i = k + 1 THEN e ELSE list[i - 1]
    <2> TAKE i \in 1..(Len(list) + 1)
    <2>0. i \in Int /\ k \in Int /\ Len(list) \in Nat
      OBVIOUS
    <2>1. CASE i <= k
      <3>1. i \in 1..k
        BY <2>0, <2>1
      <3> QED
        BY <1>8, <2>1, <3>1
    <2>2. CASE i = k + 1
      BY <1>9, <2>0, <2>2
    <2>3. CASE i > k + 1
      <3>1. i \in (k + 2)..(Len(list) + 1) /\ ~(i <= k) /\ i # k + 1
        BY <2>0, <2>3
      <3> QED
        BY <1>10, <3>1
    <2> QED
      BY <2>0, <2>1, <2>2, <2>3
  <1> QED
    BY <1>7, <1>11

\* One element less.
LEMMA RemoveAtFacts ==
    ASSUME NEW S, NEW list \in Seq(S), NEW k \in 1..Len(list)
    PROVE  /\ RemoveAt(list, k) \in Seq(S)
           /\ Len(RemoveAt(list, k)) = Len(list) - 1
           /\ \A i \in 1..(Len(list) - 1) :
                RemoveAt(list, k)[i] = IF i < k THEN list[i] ELSE list[i + 1]
  <1> DEFINE a == SubSeq(list, 1, k - 1)
             b == SubSeq(list, k + 1, Len(list))
  <1>1. a \in Seq(S) /\ Len(a) = k - 1 /\ \A i \in 1..(k - 1) : a[i] = list[i]
    OBVIOUS
  <1>2. /\ b \in Seq(S) /\ Len(b) = Len(list) - k
        /\ \A i \in 1..(Len(list) - k) : b[i] = list[k + i]
    OBVIOUS
  <1>3. RemoveAt(list, k) = a \o b
    BY DEF RemoveAt
  <1> HIDE DEF a, b
  <1>4. /\ a \o b \in Seq(S) /\ Len(a \o b) = Len(list) - 1
        /\ \A i \in 1..(k - 1) : (a \o b)[i] = list[i]
        /\ \A i \in k..(Len(list) - 1) : (a \o b)[i] = b[i - (k - 1)]
    <2> DEFINE ab == a \o b
    <2>1. /\ ab \in Seq(S) /\ Len(ab) = Len(a) + Len(b)
          /\ \A i \in 1..Len(a) : ab[i] = a[i]
          /\ \A i \in (Len(a) + 1)..(Len(a) + Len(b)) : ab[i] = b[i - Len(a)]
      BY <1>1, <1>2, ConcatFacts
    <2> HIDE DEF ab
    <2>2. ab \in Seq(S) /\ Len(ab) = Len(list) - 1
      BY <1>1, <1>2, <2>1
    <2>3. \A i \in 1..(k - 1) : ab[i] = list[i]
      BY <1>1, <2>1
    <2>4. \A i \in k..(Len(list) - 1) : ab[i] = b[i - (k - 1)]
      BY <1>1, <1>2, <2>1
    <2> QED
      BY <2>2, <2>3, <2>4 DEF ab
  <1>5. \A i \in k..(Len(list) - 1) : (a \o b)[i] = list[i + 1]
    BY <1>2, <1>4
  <1> QED
    BY <1>3, <1>4, <1>5

\* RemoveFirst() removes at one place that holds the element.
LEMMA RemoveFirstFacts ==
    ASSUME NEW S, NEW list \in Seq(S), NEW e,
           \E i \in 1..Len(list) : list[i] = e
    PROVE  \E k \in 1..Len(list) : list[k] = e /\ RemoveFirst(list, e) = RemoveAt(list, k)
  <1> DEFINE I == {i \in 1..Len(list) : list[i] = e}
  <1>1. I # {} /\ I \in SUBSET (1..Len(list)) /\ Len(list) \in Nat
    OBVIOUS
  <1>2. RemoveFirst(list, e) = RemoveAt(list, Min(I))
    BY <1>1 DEF RemoveFirst, SelectInSeq
  <1>3. Min(I) \in I
    <2> HIDE DEF I
    <2> QED
      BY <1>1, MinFacts
  <1> QED
    BY <1>2, <1>3

\* What is left of a number that is at most once too low or too high.
LEMMA ModFacts ==
    ASSUME NEW C \in Nat \ {0}
    PROVE  /\ C % C = 0
           /\ \A a \in 0..(C - 1) : a % C = a
           /\ \A a \in (-C)..(-1) : a % C = a + C
  <1>1. C % C = 0
    BY SMTT(30)
  <1>2. \A a \in 0..(C - 1) : a % C = a
    BY SMTT(30)
  <1>3. \A a \in (-C)..(-1) : a % C = a + C
    BY SMTT(30)
  <1> QED
    BY <1>1, <1>2, <1>3
=============================================================================
