-------------------------------- MODULE Sums --------------------------------
(***************************************************************************)
(* Induction over the naturals and over the subsets of a finite set, and   *)
(* the sums of the models: SumFunctionOnSet(f, S) is well defined, and any *)
(* element may be taken out of it.                                         *)
(*                                                                         *)
(* The induction theorems of the library take a predicate as a parameter,  *)
(* which the provers do not instantiate.  Here the predicate is a set, and *)
(* induction comes from the least element of what is not in it.            *)
(***************************************************************************)
EXTENDS Integers, FiniteSets, Functions, FiniteSetTheorems, WellFoundedInduction, TLAPS

(* A set of naturals has a least element. *)
LEMMA LeastNat ==
  ASSUME NEW T, T \subseteq Nat, T # {}
  PROVE  \E n \in T : \A m \in T : n <= m
  <1>1. PICK R : R = OpToRel(<, Nat)  OBVIOUS
  <1>2. IsWellFoundedOn(R, Nat)  BY <1>1, NatLessThanWellFounded
  <1>3. PICK n \in T : \A m \in T : ~(<<m, n>> \in R)  BY <1>2, WFMin
  <1>4. \A m \in T : m < n => <<m, n>> \in R  BY <1>1 DEF OpToRel
  <1>5. \A m \in T : m \in Nat /\ n \in Nat /\ ~(m < n)  BY <1>3, <1>4
  <1>6. \A m \in T : n <= m  BY <1>5
  <1> QED BY <1>3, <1>6

LEMMA NatInduct ==
  ASSUME NEW T, 0 \in T, \A n \in Nat : n \in T => n + 1 \in T
  PROVE  \A n \in Nat : n \in T
  <1> SUFFICES ASSUME Nat \ T # {} PROVE FALSE  OBVIOUS
  <1>1. PICK n \in Nat \ T : \A m \in Nat \ T : n <= m  BY LeastNat
  <1>2. n # 0 /\ n - 1 \in Nat /\ n - 1 \in T  BY <1>1
  <1> QED BY <1>2

(* A set of subsets of a finite set that has T whenever it has every T     *)
(* without one element has all of them.                                    *)
LEMMA SetInduct ==
  ASSUME NEW S, IsFiniteSet(S), NEW P,
         \A T \in SUBSET S : (\A x \in T : T \ {x} \in P) => T \in P
  PROVE  \A T \in SUBSET S : T \in P
  <1> DEFINE C == {n \in Nat : \A T \in SUBSET S : Cardinality(T) = n => T \in P}
  <1>1. \A T \in SUBSET S : IsFiniteSet(T) /\ Cardinality(T) \in Nat
    BY FS_Subset, FS_CardinalityType
  <1>2. 0 \in C
    <2>1. \A T \in SUBSET S : Cardinality(T) = 0 => \A x : x \notin T  BY <1>1, FS_EmptySet
    <2> QED BY <2>1
  <1>3. ASSUME NEW n \in Nat, n \in C PROVE n + 1 \in C
    <2>1. ASSUME NEW T \in SUBSET S, Cardinality(T) = n + 1, NEW x \in T PROVE T \ {x} \in P
      <3>1. IsFiniteSet(T)  BY <1>1
      <3>2. Cardinality(T \ {x}) = Cardinality(T) - 1  BY <3>1, FS_RemoveElement
      <3>3. Cardinality(T \ {x}) = n  BY <2>1, <3>2
      <3>4. T \ {x} \in SUBSET S  OBVIOUS
      <3> QED BY <1>3, <3>3, <3>4
    <2>2. \A T \in SUBSET S : Cardinality(T) = n + 1 => T \in P  BY <2>1
    <2> QED BY <2>2
  <1> HIDE DEF C
  <1>4. \A n \in Nat : n \in C  BY <1>2, <1>3, NatInduct
  <1> QED BY <1>1, <1>4 DEF C

-----------------------------------------------------------------------------
(* The function that SumFunctionOnSet defines recursively over the subsets *)
(* of S, which takes the elements out in the order of CHOOSE.              *)
AnyOf(s) == CHOOSE x \in s : TRUE

SumsUp(f, S, g) ==
  g = [s \in SUBSET S |-> IF s = {} THEN 0 ELSE f[AnyOf(s)] + g[s \ {AnyOf(s)}]]

LEMMA AnyOfIn ==
  ASSUME NEW s, s # {}
  PROVE  AnyOf(s) \in s
  BY DEF AnyOf

(* It exists: by induction over the size of the subsets it is defined for. *)
LEMMA AddsExists ==
  ASSUME NEW S, IsFiniteSet(S), NEW f
  PROVE  \E g : SumsUp(f, S, g)
  <1> DEFINE Upto(n) == {s \in SUBSET S : Cardinality(s) <= n}
             Part(n, g) == g = [s \in Upto(n) |-> IF s = {} THEN 0 ELSE f[AnyOf(s)] + g[s \ {AnyOf(s)}]]
             C == {n \in Nat : \E g : Part(n, g)}
  <1>1. \A T \in SUBSET S : IsFiniteSet(T) /\ Cardinality(T) \in Nat /\ Cardinality(T) <= Cardinality(S)
    BY FS_Subset, FS_CardinalityType
  <1>a. \A T \in SUBSET S : T # {} => /\ T \ {AnyOf(T)} \in SUBSET S
                                     /\ Cardinality(T \ {AnyOf(T)}) = Cardinality(T) - 1
    BY <1>1, AnyOfIn, FS_RemoveElement
  <1>b. \A T \in SUBSET S : Cardinality(T) = 0 <=> T = {}
    BY <1>1, FS_EmptySet
  <1>2. 0 \in C
    <2>1. \A s \in Upto(0) : s = {}  BY <1>1, <1>b
    <2>2. Part(0, [s \in Upto(0) |-> 0])  BY <2>1
    <2> QED BY <2>2
  <1>3. ASSUME NEW n \in Nat, n \in C PROVE n + 1 \in C
    <2>1. PICK g : Part(n, g)  BY <1>3
    <2> DEFINE h == [s \in Upto(n + 1) |-> IF s = {} THEN 0 ELSE f[AnyOf(s)] + g[s \ {AnyOf(s)}]]
    <2>2. ASSUME NEW s \in Upto(n + 1), s # {}
          PROVE  s \ {AnyOf(s)} \in Upto(n) /\ s \ {AnyOf(s)} \in Upto(n + 1)
      BY <1>1, <1>a, <2>2
    <2>3. ASSUME NEW s \in Upto(n) PROVE s \in Upto(n + 1) /\ h[s] = g[s]
      <3>1. s \in Upto(n + 1)  BY <1>1
      <3>2. g[s] = IF s = {} THEN 0 ELSE f[AnyOf(s)] + g[s \ {AnyOf(s)}]  BY <2>1
      <3> QED BY <3>1, <3>2
    <2> HIDE DEF Upto
    <2>4. \A s \in Upto(n + 1) : s # {} => g[s \ {AnyOf(s)}] = h[s \ {AnyOf(s)}]
      BY <2>2, <2>3
    <2>5. Part(n + 1, h)  BY <2>4
    <2> HIDE DEF Part, h
    <2>6. n + 1 \in Nat /\ \E k : Part(n + 1, k)  BY <2>5
    <2> QED BY <2>6
  <1> HIDE DEF C
  <1>4. \A n \in Nat : n \in C  BY <1>2, <1>3, NatInduct
  <1>5. Cardinality(S) \in Nat /\ \A s \in SUBSET S : Cardinality(s) <= Cardinality(S)  BY <1>1
  <1>6. Upto(Cardinality(S)) = SUBSET S  BY <1>5
  <1>7. PICK g : Part(Cardinality(S), g)  BY <1>4, <1>5 DEF C
  <1>8. SumsUp(f, S, g)  BY <1>6, <1>7 DEF SumsUp
  <1> QED BY <1>8

LEMMA SumAdds ==
  ASSUME NEW S, IsFiniteSet(S), NEW f
  PROVE  \E g : SumsUp(f, S, g) /\ SumFunctionOnSet(f, S) = g[S]
  <1> DEFINE g == CHOOSE h : SumsUp(f, S, h)
  <1>1. SumsUp(f, S, g)  BY AddsExists
  <1>2. SumFunctionOnSet(f, S) = g[S]
    BY DEF SumFunctionOnSet, FoldFunctionOnSet, MapThenFoldSet, SumsUp, AnyOf
  <1> QED BY <1>1, <1>2

(* For a subset it is the same function. *)
LEMMA AddsUnique ==
  ASSUME NEW S, IsFiniteSet(S), NEW f, NEW T \in SUBSET S,
         NEW g, SumsUp(f, S, g), NEW h, SumsUp(f, T, h)
  PROVE  \A s \in SUBSET T : g[s] = h[s]
  <1> DEFINE P == {s \in SUBSET T : g[s] = h[s]}
  <1>1. \A s \in SUBSET T : /\ g[s] = IF s = {} THEN 0 ELSE f[AnyOf(s)] + g[s \ {AnyOf(s)}]
                            /\ h[s] = IF s = {} THEN 0 ELSE f[AnyOf(s)] + h[s \ {AnyOf(s)}]
    BY DEF SumsUp
  <1>2. ASSUME NEW s \in SUBSET T, \A x \in s : s \ {x} \in P PROVE s \in P
    <2>1. CASE s = {}  BY <1>1, <2>1
    <2>2. CASE s # {}
      <3>1. s \ {AnyOf(s)} \in P  BY <1>2, <2>2, AnyOfIn
      <3> QED BY <1>1, <2>2, <3>1
    <2> QED BY <2>1, <2>2
  <1>3. IsFiniteSet(T)  BY FS_Subset
  <1> HIDE DEF P
  <1>4. \A s \in SUBSET T : s \in P  BY <1>2, <1>3, SetInduct
  <1> QED BY <1>4 DEF P

(* The sum over a part is the same function's value there. *)
LEMMA SumOfPart ==
  ASSUME NEW S, IsFiniteSet(S), NEW f, NEW g, SumsUp(f, S, g), NEW T \in SUBSET S
  PROVE  SumFunctionOnSet(f, T) = g[T]
  <1>1. IsFiniteSet(T)  BY FS_Subset
  <1>2. PICK h : SumsUp(f, T, h) /\ SumFunctionOnSet(f, T) = h[T]  BY <1>1, SumAdds
  <1> QED BY <1>2, AddsUnique

LEMMA SumEmpty ==
  ASSUME NEW f
  PROVE  SumFunctionOnSet(f, {}) = 0
  <1>1. PICK g : SumsUp(f, {}, g) /\ SumFunctionOnSet(f, {}) = g[{}]  BY FS_EmptySet, SumAdds
  <1> QED BY <1>1 DEF SumsUp

(* Any element may be taken out of a sum of integers. *)
LEMMA SumTake ==
  ASSUME NEW S, IsFiniteSet(S), NEW f, \A s \in S : f[s] \in Int
  PROVE  /\ SumFunctionOnSet(f, S) \in Int
         /\ \A x \in S : SumFunctionOnSet(f, S) = f[x] + SumFunctionOnSet(f, S \ {x})
  <1>1. PICK g : SumsUp(f, S, g)  BY AddsExists
  <1>2. \A T \in SUBSET S : g[T] = IF T = {} THEN 0 ELSE f[AnyOf(T)] + g[T \ {AnyOf(T)}]
    BY <1>1 DEF SumsUp
  <1> DEFINE Ok(T) == /\ g[T] \in Int
                      /\ \A x \in T : g[T] = f[x] + g[T \ {x}] /\ g[T \ {x}] \in Int
             P == {T \in SUBSET S : Ok(T)}
  <1>3. ASSUME NEW T \in SUBSET S, \A x \in T : T \ {x} \in P PROVE T \in P
    <2>1. CASE T = {}
      <3>1. g[T] = 0 /\ \A x : x \notin T  BY <1>2, <2>1
      <3>2. Ok(T)  BY <3>1
      <3> QED BY <3>2
    <2>2. CASE T # {}
      <3>1. PICK c : c = AnyOf(T)  OBVIOUS
      <3>2. c \in T  BY <2>2, <3>1, AnyOfIn
      <3>3. \A x \in T : Ok(T \ {x})  BY <1>3
      <3>4. g[T] = f[c] + g[T \ {c}] /\ f[c] \in Int /\ g[T \ {c}] \in Int
        BY <1>2, <2>2, <3>1, <3>2, <3>3
      <3>5. ASSUME NEW x \in T PROVE g[T] = f[x] + g[T \ {x}]
        <4>1. CASE x = c  BY <3>4, <4>1
        <4>2. CASE x # c
          <5>1. PICK R : R = (T \ {c}) \ {x} /\ R = (T \ {x}) \ {c}
            <6>1. (T \ {c}) \ {x} = (T \ {x}) \ {c}  OBVIOUS
            <6> QED BY <6>1
          <5>2. x \in T \ {c} /\ c \in T \ {x}  BY <3>2, <4>2
          <5>3. /\ g[T \ {c}] = f[x] + g[R] /\ g[R] \in Int
                /\ g[T \ {x}] = f[c] + g[R]
            BY <3>2, <3>3, <5>1, <5>2
          <5>4. f[x] \in Int  OBVIOUS
          <5> QED BY <3>4, <5>3, <5>4
        <4> QED BY <4>1, <4>2
      <3>6. \A x \in T : g[T \ {x}] \in Int  BY <3>3
      <3>7. g[T] \in Int  BY <3>4
      <3>8. Ok(T)  BY <3>5, <3>6, <3>7
      <3> HIDE DEF Ok
      <3> QED BY <3>8
    <2> QED BY <2>1, <2>2
  <1> HIDE DEF P
  <1>4. \A T \in SUBSET S : T \in P  BY <1>3, SetInduct
  <1>7. Ok(S)  BY <1>4 DEF P
  <1>8. \A T \in SUBSET S : SumFunctionOnSet(f, T) = g[T]  BY <1>1, SumOfPart
  <1> QED BY <1>7, <1>8 DEF Ok

(* The sum depends on the values only. *)
LEMMA SumSame ==
  ASSUME NEW S, IsFiniteSet(S), NEW f, NEW h, \A s \in S : f[s] = h[s]
  PROVE  SumFunctionOnSet(f, S) = SumFunctionOnSet(h, S)
  <1>1. PICK g : SumsUp(f, S, g)  BY AddsExists
  <1>2. \A s \in SUBSET S : s # {} => f[AnyOf(s)] = h[AnyOf(s)]  BY AnyOfIn
  <1>3. SumsUp(h, S, g)  BY <1>1, <1>2 DEF SumsUp
  <1>4. SumFunctionOnSet(f, S) = g[S]  BY <1>1, SumOfPart
  <1>5. SumFunctionOnSet(h, S) = g[S]  BY <1>3, SumOfPart
  <1> QED BY <1>4, <1>5

LEMMA SumAdd ==
  ASSUME NEW S, IsFiniteSet(S), NEW x, x \notin S, NEW f, \A s \in S \cup {x} : f[s] \in Int
  PROVE  SumFunctionOnSet(f, S \cup {x}) = SumFunctionOnSet(f, S) + f[x]
  <1>1. IsFiniteSet(S \cup {x})  BY FS_AddElement
  <1>2. (S \cup {x}) \ {x} = S  OBVIOUS
  <1>3. SumFunctionOnSet(f, S \cup {x}) = f[x] + SumFunctionOnSet(f, (S \cup {x}) \ {x})
    BY <1>1, SumTake
  <1>4. PICK r : r = SumFunctionOnSet(f, S)  OBVIOUS
  <1>5. f[x] \in Int /\ r \in Int  BY <1>4, SumTake
  <1>6. SumFunctionOnSet(f, S \cup {x}) = f[x] + r  BY <1>2, <1>3, <1>4
  <1> QED BY <1>4, <1>5, <1>6

(* One value changes. *)
LEMMA SumChange ==
  ASSUME NEW S, IsFiniteSet(S), NEW x \in S, NEW f, NEW h,
         \A s \in S : f[s] \in Int /\ h[s] \in Int,
         \A s \in S \ {x} : f[s] = h[s]
  PROVE  SumFunctionOnSet(h, S) = SumFunctionOnSet(f, S) + (h[x] - f[x])
  <1>1. IsFiniteSet(S \ {x})  BY FS_RemoveElement
  <1>2. PICK r : r = SumFunctionOnSet(f, S \ {x}) /\ r = SumFunctionOnSet(h, S \ {x})
    <2>1. SumFunctionOnSet(f, S \ {x}) = SumFunctionOnSet(h, S \ {x})  BY <1>1, SumSame
    <2> QED BY <2>1
  <1>3. r \in Int  BY <1>1, <1>2, SumTake
  <1>4. SumFunctionOnSet(f, S) = f[x] + r /\ SumFunctionOnSet(h, S) = h[x] + r
    BY <1>2, SumTake
  <1> QED BY <1>3, <1>4

LEMMA SumMonotone ==
  ASSUME NEW S, IsFiniteSet(S), NEW f, NEW h,
         \A s \in S : f[s] \in Int /\ h[s] \in Int /\ f[s] <= h[s]
  PROVE  SumFunctionOnSet(f, S) <= SumFunctionOnSet(h, S)
  <1> DEFINE P == {T \in SUBSET S : SumFunctionOnSet(f, T) <= SumFunctionOnSet(h, T)}
  <1>1. ASSUME NEW T \in SUBSET S, \A x \in T : T \ {x} \in P PROVE T \in P
    <2>1. CASE T = {}  BY <2>1, SumEmpty
    <2>2. CASE T # {}
      <3>1. PICK x \in T : TRUE  BY <2>2
      <3>2. IsFiniteSet(T) /\ IsFiniteSet(T \ {x})  BY FS_Subset
      <3>3. PICK a, b : a = SumFunctionOnSet(f, T \ {x}) /\ b = SumFunctionOnSet(h, T \ {x})  OBVIOUS
      <3>4. a \in Int /\ b \in Int  BY <3>2, <3>3, SumTake
      <3>5. SumFunctionOnSet(f, T) = f[x] + a /\ SumFunctionOnSet(h, T) = h[x] + b
        BY <3>2, <3>3, SumTake
      <3>6. a <= b  BY <1>1, <3>3
      <3>7. f[x] \in Int /\ h[x] \in Int /\ f[x] <= h[x]  OBVIOUS
      <3> QED BY <3>4, <3>5, <3>6, <3>7
    <2> QED BY <2>1, <2>2
  <1> HIDE DEF P
  <1>2. \A T \in SUBSET S : T \in P  BY <1>1, SetInduct
  <1> QED BY <1>2 DEF P

LEMMA SumConst ==
  ASSUME NEW S, IsFiniteSet(S), NEW c \in Int, NEW f, \A s \in S : f[s] = c
  PROVE  SumFunctionOnSet(f, S) = Cardinality(S) * c
  <1> DEFINE P == {T \in SUBSET S : SumFunctionOnSet(f, T) = Cardinality(T) * c}
  <1>1. ASSUME NEW T \in SUBSET S, \A x \in T : T \ {x} \in P PROVE T \in P
    <2>1. CASE T = {}
      <3>1. Cardinality(T) = 0 /\ 0 * c = 0  BY <2>1, FS_EmptySet
      <3>2. SumFunctionOnSet(f, T) = 0  BY <2>1, SumEmpty
      <3> QED BY <3>1, <3>2
    <2>2. CASE T # {}
      <3>1. PICK x \in T : TRUE  BY <2>2
      <3>2. IsFiniteSet(T)  BY FS_Subset
      <3>3. PICK n : n = Cardinality(T \ {x})  OBVIOUS
      <3>4. Cardinality(T) \in Nat /\ n = Cardinality(T) - 1  BY <3>2, <3>3, FS_RemoveElement, FS_CardinalityType
      <3>5. SumFunctionOnSet(f, T \ {x}) = n * c  BY <1>1, <3>3
      <3>6. SumFunctionOnSet(f, T) = f[x] + SumFunctionOnSet(f, T \ {x})  BY <3>2, SumTake
      <3>7. f[x] = c  OBVIOUS
      <3>8. c + n * c = (n + 1) * c /\ n + 1 = Cardinality(T)  BY <3>4
      <3> QED BY <3>5, <3>6, <3>7, <3>8
    <2> QED BY <2>1, <2>2
  <1> HIDE DEF P
  <1>2. \A T \in SUBSET S : T \in P  BY <1>1, SetInduct
  <1> QED BY <1>2 DEF P

(* Of naturals, a part is no more than the whole. *)
LEMMA SumPart ==
  ASSUME NEW S, IsFiniteSet(S), NEW T \in SUBSET S, NEW f, \A s \in S : f[s] \in Nat
  PROVE  /\ SumFunctionOnSet(f, S) \in Nat
         /\ SumFunctionOnSet(f, T) \in Nat
         /\ SumFunctionOnSet(f, T) <= SumFunctionOnSet(f, S)
  <1> DEFINE Q == {U \in SUBSET S : SumFunctionOnSet(f, U) \in Nat}
             P == {U \in SUBSET S : SumFunctionOnSet(f, U \cap T) <= SumFunctionOnSet(f, U)}
  <1>1. ASSUME NEW U \in SUBSET S, NEW x \in U
        PROVE  /\ SumFunctionOnSet(f, U) = f[x] + SumFunctionOnSet(f, U \ {x})
    <2>1. IsFiniteSet(U)  BY FS_Subset
    <2> QED BY <2>1, SumTake
  <1>2. ASSUME NEW U \in SUBSET S, \A x \in U : U \ {x} \in Q PROVE U \in Q
    <2>1. CASE U = {}  BY <2>1, SumEmpty
    <2>2. CASE U # {}
      <3>1. PICK x \in U : TRUE  BY <2>2
      <3>2. f[x] \in Nat /\ SumFunctionOnSet(f, U \ {x}) \in Nat  BY <1>2, <3>1
      <3>3. SumFunctionOnSet(f, U) = f[x] + SumFunctionOnSet(f, U \ {x})  BY <1>1
      <3> QED BY <3>2, <3>3
    <2> QED BY <2>1, <2>2
  <1> HIDE DEF Q
  <1>3. \A U \in SUBSET S : U \in Q  BY <1>2, SetInduct
  <1>4. \A U \in SUBSET S : SumFunctionOnSet(f, U) \in Nat  BY <1>3 DEF Q
  <1>5. ASSUME NEW U \in SUBSET S, \A x \in U : U \ {x} \in P PROVE U \in P
    <2>1. CASE U \subseteq T
      <3>1. U \cap T = U /\ SumFunctionOnSet(f, U) \in Nat  BY <1>4, <2>1
      <3> QED BY <3>1
    <2>2. CASE ~(U \subseteq T)
      <3>1. PICK x \in U : x \notin T  BY <2>2
      <3>2. (U \ {x}) \cap T = U \cap T  BY <3>1
      <3>3. PICK a, b : a = SumFunctionOnSet(f, U \cap T) /\ b = SumFunctionOnSet(f, U \ {x})  OBVIOUS
      <3>4. a \in Nat /\ b \in Nat /\ f[x] \in Nat  BY <1>4, <3>3
      <3>5. a <= b  BY <1>5, <3>1, <3>2, <3>3
      <3>6. SumFunctionOnSet(f, U) = f[x] + b  BY <1>1, <3>3
      <3> QED BY <3>3, <3>4, <3>5, <3>6
    <2> QED BY <2>1, <2>2
  <1> HIDE DEF P
  <1>6. \A U \in SUBSET S : U \in P  BY <1>5, SetInduct
  <1>7. S \cap T = T  OBVIOUS
  <1> QED BY <1>4, <1>6, <1>7 DEF P

(* Of naturals, two parts together are no less than their union. *)
LEMMA SumUnion ==
  ASSUME NEW S, IsFiniteSet(S), NEW T, IsFiniteSet(T), NEW f, \A s \in S \cup T : f[s] \in Nat
  PROVE  /\ SumFunctionOnSet(f, S \cup T) \in Nat /\ SumFunctionOnSet(f, S) \in Nat /\ SumFunctionOnSet(f, T) \in Nat
         /\ SumFunctionOnSet(f, S \cup T) <= SumFunctionOnSet(f, S) + SumFunctionOnSet(f, T)
  <1>1. IsFiniteSet(S \cup T)  BY FS_Union
  <1>2. \A U \in SUBSET (S \cup T) : SumFunctionOnSet(f, U) \in Nat /\ IsFiniteSet(U)
    BY <1>1, SumPart, FS_Subset
  <1> DEFINE P == {U \in SUBSET T : SumFunctionOnSet(f, S \cup U) <= SumFunctionOnSet(f, S) + SumFunctionOnSet(f, U)}
  <1>3. ASSUME NEW U \in SUBSET T, \A x \in U : U \ {x} \in P PROVE U \in P
    <2>1. CASE U = {}
      <3>1. S \cup U = S /\ SumFunctionOnSet(f, U) = 0 /\ SumFunctionOnSet(f, S) \in Nat  BY <1>2, <2>1, SumEmpty
      <3> QED BY <3>1
    <2>2. CASE U # {}
      <3>1. PICK x \in U : TRUE  BY <2>2
      <3>2. PICK V : V = U \ {x}  OBVIOUS
      <3>3. PICK a, b, c : a = SumFunctionOnSet(f, S) /\ b = SumFunctionOnSet(f, V) /\ c = SumFunctionOnSet(f, S \cup V)
        OBVIOUS
      <3>4. a \in Nat /\ b \in Nat /\ c \in Nat /\ f[x] \in Nat /\ c <= a + b  BY <1>2, <1>3, <3>1, <3>2, <3>3
      <3>5. IsFiniteSet(U) /\ \A s \in U : f[s] \in Int  BY <1>2
      <3>6. SumFunctionOnSet(f, U) = f[x] + b  BY <3>1, <3>2, <3>3, <3>5, SumTake
      <3>7. CASE x \in S
        <4>1. S \cup U = S \cup V  BY <3>1, <3>2, <3>7
        <4>2. c <= a + (f[x] + b)  BY <3>4
        <4> QED BY <3>3, <3>6, <4>1, <4>2
      <3>8. CASE x \notin S
        <4>1. S \cup U = (S \cup V) \cup {x} /\ x \notin S \cup V  BY <3>1, <3>2, <3>8
        <4>2. IsFiniteSet(S \cup V) /\ \A s \in (S \cup V) \cup {x} : f[s] \in Int  BY <1>2, <3>1, <3>2
        <4>3. SumFunctionOnSet(f, (S \cup V) \cup {x}) = c + f[x]  BY <3>3, <4>1, <4>2, SumAdd
        <4>4. c + f[x] <= a + (f[x] + b)  BY <3>4
        <4> QED BY <3>3, <3>6, <4>1, <4>3, <4>4
      <3> QED BY <3>7, <3>8
    <2> QED BY <2>1, <2>2
  <1> HIDE DEF P
  <1>4. \A U \in SUBSET T : U \in P  BY <1>3, SetInduct
  <1>5. T \in P  BY <1>4
  <1> QED BY <1>2, <1>5 DEF P
=============================================================================
