---------------------------- MODULE SharedLemmas ----------------------------
(***************************************************************************)
(* What the operators that several components are built from return and    *)
(* preserve.                                                               *)
(*                                                                         *)
(* Sums over finite sets (the community modules' SumFunctionOnSet, which   *)
(* MapThenSumSet is for a function): a sum is an integer, any element may  *)
(* be taken out of it first, it follows the change of one summand, it      *)
(* splits over disjoint sets and keeps an order and a proportion of its    *)
(* summands.                                                               *)
(*                                                                         *)
(* Checkpoint, for every page size, key, epoch and value.  Two facts       *)
(* matter to a caller:                                                     *)
(*   SetAtReads  - after SetAt(e, v) every epoch from e on reads v and     *)
(*                 every epoch before e reads what it read before;         *)
(*   TrimReads   - after Trim(keepFrom) every epoch from keepFrom on reads *)
(*                 what it read before, whatever the page budget.          *)
(***************************************************************************)
EXTENDS Checkpoint, Functions, FiniteSetsExt, FiniteSetTheorems,
        WellFoundedInduction, TLAPS

-----------------------------------------------------------------------------
(* A nonempty set of naturals has a least element.                         *)
LEMMA LeastNumber ==
  ASSUME NEW T, T \subseteq Nat, T # {}
  PROVE  \E x \in T : \A y \in T : x <= y
<1>1. \E x \in T : \A y \in T : ~ (<<y, x>> \in OpToRel(<, Nat))
  BY NatLessThanWellFounded, WFMin, Zenon
<1>2. PICK x \in T : \A y \in T : ~ (<<y, x>> \in OpToRel(<, Nat))
  BY <1>1
<1>3. \A y \in T : ~ (y < x)
  BY <1>2 DEF OpToRel
<1> QED
  BY <1>3

(* Induction, with a set in the place of a predicate.                      *)
LEMMA SetInduction ==
  ASSUME NEW T, T \subseteq Nat, 0 \in T, \A n \in T : n + 1 \in T
  PROVE  T = Nat
<1>1. SUFFICES ASSUME T # Nat PROVE FALSE
  OBVIOUS
<1>2. PICK x \in Nat \ T : \A y \in Nat \ T : x <= y
  BY LeastNumber, <1>1
<1>3. x - 1 \in Nat /\ x - 1 \notin Nat \ T
  BY <1>2
<1> QED
  BY <1>2, <1>3

(* Two sets with nothing in common have together the members of both.      *)
LEMMA DisjointSizes ==
  ASSUME NEW S, NEW T, IsFiniteSet(S), IsFiniteSet(T), S \cap T = {}
  PROVE  Cardinality(S \cup T) = Cardinality(S) + Cardinality(T)
<1>1. Cardinality(S \cup T) = Cardinality(S) + Cardinality(T) - Cardinality(S \cap T)
  BY FS_Union
<1>2. Cardinality(S \cap T) = 0
  BY FS_EmptySet
<1>3. Cardinality(S) \in Nat /\ Cardinality(T) \in Nat
  BY FS_CardinalityType
<1> DEFINE s == Cardinality(S)
           t == Cardinality(T)
           i == Cardinality(S \cap T)
           u == Cardinality(S \cup T)
<1>4. u = s + t - i /\ i = 0 /\ s \in Nat /\ t \in Nat
  BY <1>1, <1>2, <1>3
<1> HIDE DEF s, t, i, u
<1>5. u = s + t
  BY <1>4
<1> QED
  BY <1>5 DEF s, t, u

-----------------------------------------------------------------------------
(* A sum over a finite set.  SumFunctionOnSet and MapThenSumSet choose one *)
(* element after the other; g holds what they return for every part of S.  *)
SumStep(g, f, s) == IF s = {} THEN 0
                    ELSE LET x == CHOOSE x \in s : TRUE IN f[x] + g[s \ {x}]

IsSum(g, f, S) == g = [s \in SUBSET S |-> SumStep(g, f, s)]

(* The community operator, with its recursion given a name.                *)
LEMMA SumIsChosen ==
  ASSUME NEW f, NEW S
  PROVE  SumFunctionOnSet(f, S) = (CHOOSE g : IsSum(g, f, S))[S]
  BY DEF SumFunctionOnSet, FoldFunctionOnSet, MapThenFoldSet, IsSum, SumStep

(* Over a finite set the recursion has a solution ...                      *)
LEMMA SumExists ==
  ASSUME NEW f, NEW S, IsFiniteSet(S)
  PROVE  \E g : IsSum(g, f, S)
<1> DEFINE Small(n) == {s \in SUBSET S : Cardinality(s) <= n}
           T == {n \in Nat : \E g : g = [s \in Small(n) |-> SumStep(g, f, s)]}
<1>0. \A s \in SUBSET S : IsFiniteSet(s) /\ Cardinality(s) \in Nat
  BY FS_Subset, FS_CardinalityType
<1>1. 0 \in T
  <2> DEFINE g == [s \in Small(0) |-> 0]
  <2>1. \A s \in Small(0) : s = {}
    BY <1>0, FS_EmptySet
  <2>2. g = [s \in Small(0) |-> SumStep(g, f, s)]
    BY <2>1 DEF SumStep
  <2> QED
    BY <2>2
<1>2. ASSUME NEW n \in T PROVE n + 1 \in T
  <2>1. PICK g : g = [s \in Small(n) |-> SumStep(g, f, s)]
    OBVIOUS
  <2> DEFINE h == [s \in Small(n + 1) |-> SumStep(g, f, s)]
  <2>2. \A s \in Small(n) : s \in Small(n + 1) /\ h[s] = g[s]
    <3>1. \A s \in Small(n) : s \in Small(n + 1)
      BY <1>0
    <3>2. \A s \in Small(n) : g[s] = SumStep(g, f, s)
      BY <2>1
    <3> QED
      BY <3>1, <3>2
  <2>3. ASSUME NEW s \in Small(n + 1), s # {} PROVE s \ {CHOOSE x \in s : TRUE} \in Small(n)
    <3> DEFINE x == CHOOSE x \in s : TRUE
    <3>1. x \in s
      BY <2>3
    <3> HIDE DEF x
    <3>2. Cardinality(s \ {x}) = Cardinality(s) - 1
      BY <1>0, <3>1, FS_RemoveElement
    <3>3. s \ {x} \in SUBSET S /\ Cardinality(s) <= n + 1 /\ Cardinality(s) \in Nat
      BY <1>0
    <3>4. s \ {x} \in Small(n)
      BY <3>2, <3>3
    <3> QED
      BY <3>4 DEF x
  <2>4. ASSUME NEW s \in Small(n + 1) PROVE SumStep(g, f, s) = SumStep(h, f, s)
    <3> DEFINE x == CHOOSE x \in s : TRUE
    <3>1. s # {} => g[s \ {x}] = h[s \ {x}]
      BY <2>2, <2>3
    <3>2. \A e : SumStep(e, f, s) = IF s = {} THEN 0 ELSE f[x] + e[s \ {x}]
      BY DEF SumStep
    <3> HIDE DEF x, h
    <3> QED
      BY <3>1, <3>2
  <2> DEFINE D == Small(n + 1)
  <2>5. h = [s \in D |-> SumStep(g, f, s)] /\ \A s \in D : SumStep(g, f, s) = SumStep(h, f, s)
    BY <2>4
  <2> HIDE DEF h, D
  <2>6. h = [s \in D |-> SumStep(h, f, s)]
    BY <2>5
  <2>7. \E e : e = [s \in D |-> SumStep(e, f, s)]
    BY <2>6
  <2>8. n \in Nat /\ n + 1 \in Nat
    OBVIOUS
  <2> QED
    BY <2>7, <2>8 DEF D
<1>3. T = Nat
  BY <1>1, <1>2, SetInduction
<1>4. Cardinality(S) \in T
  BY <1>3, <1>0
<1>5. Small(Cardinality(S)) = SUBSET S
  BY <1>0, FS_Subset
<1> QED
  BY <1>4, <1>5 DEF IsSum

(* ... and only one ...                                                    *)
LEMMA SumUnique ==
  ASSUME NEW f, NEW S, IsFiniteSet(S), NEW g, NEW h, IsSum(g, f, S), IsSum(h, f, S)
  PROVE  g = h
<1> DEFINE T == {n \in Nat : \A s \in SUBSET S : Cardinality(s) = n => g[s] = h[s]}
<1>0. \A s \in SUBSET S : IsFiniteSet(s) /\ Cardinality(s) \in Nat
  BY FS_Subset, FS_CardinalityType
<1>1. \A s \in SUBSET S : g[s] = SumStep(g, f, s) /\ h[s] = SumStep(h, f, s)
  BY DEF IsSum
<1>2. 0 \in T
  BY <1>0, <1>1, FS_EmptySet DEF SumStep
<1>3. ASSUME NEW n \in T PROVE n + 1 \in T
  <2>1. ASSUME NEW s \in SUBSET S, Cardinality(s) = n + 1 PROVE g[s] = h[s]
    <3>1. s # {}
      BY <2>1, FS_EmptySet
    <3> DEFINE x == CHOOSE x \in s : TRUE
    <3>2. x \in s
      BY <3>1
    <3>3. g[s] = f[x] + g[s \ {x}] /\ h[s] = f[x] + h[s \ {x}]
      BY <1>1, <3>1 DEF SumStep
    <3> HIDE DEF x
    <3>4. Cardinality(s \ {x}) = Cardinality(s) - 1 /\ s \ {x} \in SUBSET S
      BY <1>0, <3>2, FS_RemoveElement
    <3>5. Cardinality(s \ {x}) = n
      BY <2>1, <3>4
    <3> QED
      BY <3>3, <3>4, <3>5
  <2> QED
    BY <2>1
<1>4. T = Nat
  BY <1>2, <1>3, SetInduction
<1>5. \A s \in SUBSET S : g[s] = h[s]
  BY <1>4, <1>0
<1> QED
  BY <1>5 DEF IsSum

(* ... so that any g will do.                                              *)
LEMMA SumIs ==
  ASSUME NEW f, NEW S, IsFiniteSet(S), NEW g, IsSum(g, f, S)
  PROVE  SumFunctionOnSet(f, S) = g[S]
<1>1. IsSum((CHOOSE h : IsSum(h, f, S)), f, S)
  OBVIOUS
<1>2. (CHOOSE h : IsSum(h, f, S)) = g
  BY <1>1, SumUnique
<1> QED
  BY <1>2, SumIsChosen

(* The g of a set holds the sums over its parts.                           *)
LEMMA SumOfPart ==
  ASSUME NEW f, NEW S, IsFiniteSet(S), NEW g, IsSum(g, f, S), NEW R \in SUBSET S
  PROVE  SumFunctionOnSet(f, R) = g[R]
<1> DEFINE h == [s \in SUBSET R |-> g[s]]
<1>1. \A s \in SUBSET R : s \in SUBSET S /\ g[s] = SumStep(g, f, s)
  BY DEF IsSum
<1>2. \A s \in SUBSET R : SumStep(g, f, s) = SumStep(h, f, s)
  BY DEF SumStep
<1>3. IsSum(h, f, R)
  BY <1>1, <1>2 DEF IsSum
<1>4. IsFiniteSet(R)
  BY FS_Subset
<1> HIDE DEF h
<1>5. SumFunctionOnSet(f, R) = h[R]
  BY <1>3, <1>4, SumIs
<1> QED
  BY <1>5 DEF h

(* A sum over no element is 0.                                             *)
LEMMA SumOfNothing == ASSUME NEW f PROVE SumFunctionOnSet(f, {}) = 0
<1>1. IsFiniteSet({})
  BY FS_EmptySet
<1>2. PICK g : IsSum(g, f, {})
  BY <1>1, SumExists
<1>3. g[{}] = 0
  BY <1>2 DEF IsSum, SumStep
<1> QED
  BY <1>1, <1>2, <1>3, SumIs

(* The recursion of the operator itself: the chosen element comes first.   *)
LEMMA SumChosen ==
  ASSUME NEW f, NEW S, IsFiniteSet(S), S # {}
  PROVE  LET x == CHOOSE x \in S : TRUE
         IN  SumFunctionOnSet(f, S) = f[x] + SumFunctionOnSet(f, S \ {x})
<1>1. PICK g : IsSum(g, f, S)
  BY SumExists
<1> DEFINE x == CHOOSE x \in S : TRUE
<1>2. g[S] = f[x] + g[S \ {x}]
  BY <1>1 DEF IsSum, SumStep
<1> HIDE DEF x
<1>3. g[S] = SumFunctionOnSet(f, S) /\ g[S \ {x}] = SumFunctionOnSet(f, S \ {x})
  BY <1>1, SumOfPart
<1>4. SumFunctionOnSet(f, S) = f[x] + SumFunctionOnSet(f, S \ {x})
  BY <1>2, <1>3
<1> QED
  BY <1>4 DEF x

-----------------------------------------------------------------------------
(* Induction over the parts of a finite set, by taking one element away.   *)
LEMMA PartInduction ==
  ASSUME NEW S, IsFiniteSet(S), NEW T, {} \in T,
         \A s \in SUBSET S : s # {} /\ (\A x \in s : s \ {x} \in T) => s \in T
  PROVE  SUBSET S \subseteq T
<1> DEFINE N == {n \in Nat : \A s \in SUBSET S : Cardinality(s) = n => s \in T}
<1>0. \A s \in SUBSET S : IsFiniteSet(s) /\ Cardinality(s) \in Nat
  BY FS_Subset, FS_CardinalityType
<1>1. 0 \in N
  BY <1>0, FS_EmptySet
<1>2. ASSUME NEW n \in N PROVE n + 1 \in N
  <2>1. ASSUME NEW s \in SUBSET S, Cardinality(s) = n + 1 PROVE s \in T
    <3>1. s # {}
      BY <2>1, FS_EmptySet
    <3>2. ASSUME NEW x \in s PROVE s \ {x} \in T
      <4>1. Cardinality(s \ {x}) = Cardinality(s) - 1
        BY <1>0, FS_RemoveElement
      <4>2. Cardinality(s \ {x}) = n
        BY <4>1, <2>1
      <4> QED
        BY <4>2
    <3> QED
      BY <3>1, <3>2
  <2> QED
    BY <2>1
<1>3. N = Nat
  BY <1>1, <1>2, SetInduction
<1> QED
  BY <1>0, <1>3

Integral(f, S) == \A x \in S : f[x] \in Int

(* In a finite set that is not empty something has the greatest rank.      *)
LEMMA GreatestRank ==
  ASSUME NEW f, NEW S, IsFiniteSet(S), S # {}, \A x \in S : f[x] \in Int
  PROVE  \E m \in S : \A x \in S : f[x] <= f[m]
<1> DEFINE T == {s \in SUBSET S : s = {} \/ \E m \in s : \A x \in s : f[x] <= f[m]}
<1>1. {} \in T
  OBVIOUS
<1>2. ASSUME NEW s \in SUBSET S, s # {}, \A x \in s : s \ {x} \in T PROVE s \in T
  <2>1. PICK a \in s : TRUE
    BY <1>2
  <2>2. CASE s \ {a} = {}
    <3>1. \A x \in s : f[x] <= f[a]
      BY <2>1, <2>2
    <3> QED
      BY <2>1, <3>1
  <2>3. CASE s \ {a} # {}
    <3>1. s \ {a} \in T
      BY <1>2, <2>1
    <3>2. PICK m \in s \ {a} : \A x \in s \ {a} : f[x] <= f[m]
      BY <2>3, <3>1
    <3>3. f[m] \in Int /\ f[a] \in Int /\ m \in s
      BY <2>1, <3>2
    <3>4. CASE f[a] <= f[m]
      <4>1. \A x \in s : f[x] <= f[m]
        BY <3>2, <3>4
      <4> QED
        BY <3>3, <4>1
    <3>5. CASE ~(f[a] <= f[m])
      <4>1. ASSUME NEW x \in s PROVE f[x] <= f[a]
        <5>1. x = a \/ f[x] <= f[m]
          BY <3>2
        <5>2. f[x] \in Int
          OBVIOUS
        <5> QED
          BY <3>3, <3>5, <5>1, <5>2
      <4> QED
        BY <2>1, <4>1
    <3> QED
      BY <3>4, <3>5
  <2> QED
    BY <2>2, <2>3
<1> HIDE DEF T
<1>3. SUBSET S \subseteq T
  BY <1>1, <1>2, PartInduction
<1>4. S \in T
  BY <1>3
<1> QED
  BY <1>4 DEF T

(* What a function makes of a finite set is finite.                        *)
LEMMA FiniteRange ==
  ASSUME NEW f, NEW S, IsFiniteSet(S)
  PROVE  IsFiniteSet({f[x] : x \in S})
<1> DEFINE T == {f[x] : x \in S}
           g == [x \in S |-> f[x]]
<1>1. g \in Surjection(S, T)
  BY DEF Surjection
<1> QED
  BY <1>1, FS_Surjection

(* The greatest of a finite set of integers.                               *)
LEMMA MaxIs ==
  ASSUME NEW S, IsFiniteSet(S), S # {}, S \subseteq Int
  PROVE  Max(S) \in S /\ \A y \in S : Max(S) >= y
<1> DEFINE f == [x \in S |-> x]
<1>1. \A x \in S : f[x] \in Int
  OBVIOUS
<1>2. PICK m \in S : \A x \in S : f[x] <= f[m]
  BY <1>1, GreatestRank
<1>3. \A y \in S : m >= y
  BY <1>2
<1> QED
  BY <1>3 DEF Max

(* The greater of two.                                                     *)
LEMMA MaxOfTwo ==
  ASSUME NEW a, NEW b, a \in Int, b \in Int
  PROVE  Max({a, b}) \in {a, b} /\ Max({a, b}) >= a /\ Max({a, b}) >= b
<1>1. IsFiniteSet({a}) /\ {a, b} = {a} \cup {b}
  BY FS_Singleton
<1>2. IsFiniteSet({a, b})
  BY <1>1, FS_AddElement
<1> QED
  BY <1>2, MaxIs

(* A sum of integers is an integer.                                        *)
LEMMA SumIsInt ==
  ASSUME NEW f, NEW S, IsFiniteSet(S), Integral(f, S)
  PROVE  SumFunctionOnSet(f, S) \in Int
<1> DEFINE T == {s \in SUBSET S : SumFunctionOnSet(f, s) \in Int}
<1>1. {} \in T
  BY SumOfNothing
<1>2. ASSUME NEW s \in SUBSET S, s # {}, \A x \in s : s \ {x} \in T PROVE s \in T
  <2> DEFINE x == CHOOSE x \in s : TRUE
  <2>1. x \in s
    BY <1>2
  <2>2. IsFiniteSet(s)
    BY FS_Subset
  <2>3. SumFunctionOnSet(f, s) = f[x] + SumFunctionOnSet(f, s \ {x})
    BY <1>2, <2>2, SumChosen
  <2> HIDE DEF x
  <2>4. f[x] \in Int /\ SumFunctionOnSet(f, s \ {x}) \in Int
    BY <2>1, <1>2 DEF Integral
  <2> QED
    BY <2>3, <2>4
<1> HIDE DEF T
<1>3. SUBSET S \subseteq T
  BY <1>1, <1>2, PartInduction
<1> QED
  BY <1>3 DEF T

(* Any element may be taken first.                                         *)
LEMMA SumRemove ==
  ASSUME NEW f, NEW S, IsFiniteSet(S), Integral(f, S), NEW x \in S
  PROVE  SumFunctionOnSet(f, S) = f[x] + SumFunctionOnSet(f, S \ {x})
<1> DEFINE Sum(s) == SumFunctionOnSet(f, s)
           T == {s \in SUBSET S : \A z \in s : Sum(s) = f[z] + Sum(s \ {z})}
<1>0. \A s \in SUBSET S : IsFiniteSet(s) /\ Integral(f, s) /\ Sum(s) \in Int
  <2>1. \A s \in SUBSET S : IsFiniteSet(s) /\ Integral(f, s)
    BY FS_Subset DEF Integral
  <2> QED
    BY <2>1, SumIsInt
<1>1. {} \in T
  OBVIOUS
<1>2. ASSUME NEW s \in SUBSET S, s # {}, \A y \in s : s \ {y} \in T PROVE s \in T
  <2>1. SUFFICES ASSUME NEW z \in s PROVE Sum(s) = f[z] + Sum(s \ {z})
    OBVIOUS
  <2> DEFINE y == CHOOSE y \in s : TRUE
  <2>2. y \in s
    BY <1>2
  <2>3. Sum(s) = f[y] + Sum(s \ {y})
    BY <1>2, <1>0, SumChosen
  <2> HIDE DEF y
  <2>4. CASE y = z
    BY <2>3, <2>4
  <2>5. CASE y # z
    <3>1. Sum(s \ {y}) = f[z] + Sum((s \ {y}) \ {z})
      BY <1>2, <2>2, <2>5
    <3>2. Sum(s \ {z}) = f[y] + Sum((s \ {z}) \ {y})
      BY <1>2, <2>2, <2>5
    <3>3. (s \ {y}) \ {z} = (s \ {z}) \ {y} /\ (s \ {z}) \ {y} \in SUBSET S
      OBVIOUS
    <3>4. f[y] \in Int /\ f[z] \in Int /\ Sum((s \ {z}) \ {y}) \in Int
      BY <1>0, <2>2, <3>3 DEF Integral
    <3>5. /\ Sum(s) = f[y] + (f[z] + Sum((s \ {z}) \ {y}))
          /\ Sum(s \ {z}) = f[y] + Sum((s \ {z}) \ {y})
      BY <2>3, <3>1, <3>2, <3>3
    <3> QED
      BY <3>4, <3>5
  <2> QED
    BY <2>4, <2>5
<1> HIDE DEF T
<1>3. SUBSET S \subseteq T
  BY <1>1, <1>2, PartInduction
<1> QED
  BY <1>3 DEF T

(* A new element adds its summand.                                         *)
LEMMA SumAdd ==
  ASSUME NEW f, NEW S, IsFiniteSet(S), NEW x, x \notin S, Integral(f, S \cup {x})
  PROVE  SumFunctionOnSet(f, S \cup {x}) = f[x] + SumFunctionOnSet(f, S)
<1>1. IsFiniteSet(S \cup {x}) /\ x \in S \cup {x} /\ (S \cup {x}) \ {x} = S
  BY FS_AddElement
<1> QED
  BY <1>1, SumRemove

(* Equal summands, equal sums.                                             *)
LEMMA SumAgrees ==
  ASSUME NEW f, NEW g, NEW S, IsFiniteSet(S), \A x \in S : f[x] = g[x]
  PROVE  SumFunctionOnSet(f, S) = SumFunctionOnSet(g, S)
<1>1. PICK e : IsSum(e, f, S)
  BY SumExists
<1>2. \A s \in SUBSET S : SumStep(e, f, s) = SumStep(e, g, s)
  <2>1. ASSUME NEW s \in SUBSET S PROVE SumStep(e, f, s) = SumStep(e, g, s)
    <3> DEFINE x == CHOOSE x \in s : TRUE
    <3>1. s # {} => f[x] = g[x]
      OBVIOUS
    <3>2. \A h : SumStep(e, h, s) = IF s = {} THEN 0 ELSE h[x] + e[s \ {x}]
      BY DEF SumStep
    <3> HIDE DEF x
    <3> QED
      BY <3>1, <3>2
  <2> QED
    BY <2>1
<1>3. IsSum(e, g, S)
  BY <1>1, <1>2 DEF IsSum
<1> QED
  BY <1>1, <1>3, SumIs

(* One summand changes.                                                    *)
LEMMA SumUpdate ==
  ASSUME NEW f, NEW g, NEW S, IsFiniteSet(S), Integral(f, S), Integral(g, S),
         NEW x \in S, \A y \in S \ {x} : g[y] = f[y]
  PROVE  SumFunctionOnSet(g, S) = SumFunctionOnSet(f, S) - f[x] + g[x]
<1>1. IsFiniteSet(S \ {x}) /\ Integral(f, S \ {x})
  BY FS_RemoveElement DEF Integral
<1>2. SumFunctionOnSet(g, S \ {x}) = SumFunctionOnSet(f, S \ {x})
  BY <1>1, SumAgrees
<1>3. /\ SumFunctionOnSet(f, S) = f[x] + SumFunctionOnSet(f, S \ {x})
      /\ SumFunctionOnSet(g, S) = g[x] + SumFunctionOnSet(g, S \ {x})
  BY SumRemove
<1>4. f[x] \in Int /\ g[x] \in Int /\ SumFunctionOnSet(f, S \ {x}) \in Int
  BY <1>1, SumIsInt DEF Integral
<1> QED
  BY <1>2, <1>3, <1>4

(* Summands in proportion, or in order: k * f[x] <= m * g[x].              *)
LEMMA SumScaled ==
  ASSUME NEW f, NEW g, NEW S, IsFiniteSet(S), Integral(f, S), Integral(g, S),
         NEW k \in Int, NEW m \in Int, \A x \in S : k * f[x] <= m * g[x]
  PROVE  k * SumFunctionOnSet(f, S) <= m * SumFunctionOnSet(g, S)
<1> DEFINE F(s) == SumFunctionOnSet(f, s)
           G(s) == SumFunctionOnSet(g, s)
           T == {s \in SUBSET S : k * F(s) <= m * G(s)}
<1>0. \A s \in SUBSET S : IsFiniteSet(s) /\ Integral(f, s) /\ Integral(g, s)
  BY FS_Subset DEF Integral
<1>1. {} \in T
  BY SumOfNothing
<1>2. ASSUME NEW s \in SUBSET S, s # {}, \A y \in s : s \ {y} \in T PROVE s \in T
  <2>1. PICK x \in s : TRUE
    BY <1>2
  <2>2. F(s) = f[x] + F(s \ {x}) /\ G(s) = g[x] + G(s \ {x})
    BY <1>0, SumRemove
  <2>3. k * F(s \ {x}) <= m * G(s \ {x}) /\ k * f[x] <= m * g[x]
    BY <1>2
  <2>4. F(s \ {x}) \in Int /\ G(s \ {x}) \in Int
    <3>1. s \ {x} \in SUBSET S
      OBVIOUS
    <3> QED
      BY <3>1, <1>0, SumIsInt
  <2>5. f[x] \in Int /\ g[x] \in Int
    BY DEF Integral
  <2> HIDE DEF F, G
  <2>6. /\ k * (f[x] + F(s \ {x})) = k * f[x] + k * F(s \ {x})
        /\ m * (g[x] + G(s \ {x})) = m * g[x] + m * G(s \ {x})
    BY <2>4, <2>5
  <2>7. /\ k * f[x] \in Int /\ k * F(s \ {x}) \in Int
        /\ m * g[x] \in Int /\ m * G(s \ {x}) \in Int
    BY <2>4, <2>5
  <2>8. k * F(s) <= m * G(s)
    BY <2>2, <2>3, <2>6, <2>7
  <2> QED
    BY <2>8
<1> HIDE DEF T
<1>3. SUBSET S \subseteq T
  BY <1>1, <1>2, PartInduction
<1> QED
  BY <1>3 DEF T

(* A sum splits over disjoint sets.                                        *)
LEMMA SumSplit ==
  ASSUME NEW f, NEW S, NEW R, IsFiniteSet(S), IsFiniteSet(R), S \cap R = {},
         Integral(f, S), Integral(f, R)
  PROVE  SumFunctionOnSet(f, S \cup R) = SumFunctionOnSet(f, S) + SumFunctionOnSet(f, R)
<1> DEFINE Sum(s) == SumFunctionOnSet(f, s)
           T == {s \in SUBSET R : Sum(S \cup s) = Sum(S) + Sum(s)}
<1>0. \A s \in SUBSET R : IsFiniteSet(s) /\ Integral(f, s) /\ Integral(f, S \cup s)
                          /\ IsFiniteSet(S \cup s)
  <2>1. \A s \in SUBSET R : IsFiniteSet(s) /\ Integral(f, s) /\ Integral(f, S \cup s)
    BY FS_Subset DEF Integral
  <2> QED
    BY <2>1, FS_Union
<1>1. {} \in T
  <2>1. Sum(S) \in Int /\ S \cup {} = S
    BY SumIsInt
  <2> QED
    BY <2>1, SumOfNothing
<1>2. ASSUME NEW s \in SUBSET R, s # {}, \A y \in s : s \ {y} \in T PROVE s \in T
  <2>1. PICK x \in s : TRUE
    BY <1>2
  <2>2. x \in S \cup s /\ (S \cup s) \ {x} = S \cup (s \ {x}) /\ s \ {x} \in SUBSET R
    OBVIOUS
  <2>3. Sum(s) = f[x] + Sum(s \ {x})
    <3>1. IsFiniteSet(s) /\ Integral(f, s)
      BY <1>0
    <3> QED
      BY <3>1, SumRemove
  <2>4. Sum(S \cup s) = f[x] + Sum((S \cup s) \ {x})
    BY <1>0, <2>2, SumRemove
  <2>5. Sum(S \cup (s \ {x})) = Sum(S) + Sum(s \ {x})
    BY <1>2
  <2>6. Sum(S) \in Int /\ Sum(s \ {x}) \in Int /\ f[x] \in Int
    <3>1. Sum(S) \in Int /\ Sum(s \ {x}) \in Int
      BY <1>0, <2>2, SumIsInt
    <3> QED
      BY <3>1 DEF Integral
  <2>7. Sum(S \cup s) = f[x] + (Sum(S) + Sum(s \ {x}))
    BY <2>2, <2>4, <2>5
  <2>8. Sum(S \cup s) = Sum(S) + Sum(s)
    BY <2>3, <2>6, <2>7
  <2> QED
    BY <2>8
<1> HIDE DEF T
<1>3. SUBSET R \subseteq T
  BY <1>1, <1>2, PartInduction
<1> QED
  BY <1>3 DEF T

(* A sum of naturals is a natural.                                         *)
LEMMA SumIsNat ==
  ASSUME NEW f, NEW S, IsFiniteSet(S), \A x \in S : f[x] \in Nat
  PROVE  SumFunctionOnSet(f, S) \in Nat
<1> DEFINE T == {s \in SUBSET S : SumFunctionOnSet(f, s) \in Nat}
<1>0. \A s \in SUBSET S : IsFiniteSet(s) /\ Integral(f, s)
  BY FS_Subset DEF Integral
<1>1. {} \in T
  BY SumOfNothing
<1>2. ASSUME NEW s \in SUBSET S, s # {}, \A y \in s : s \ {y} \in T PROVE s \in T
  <2>1. PICK x \in s : TRUE
    BY <1>2
  <2>2. SumFunctionOnSet(f, s) = f[x] + SumFunctionOnSet(f, s \ {x})
    BY <1>0, SumRemove
  <2>3. f[x] \in Nat /\ SumFunctionOnSet(f, s \ {x}) \in Nat
    BY <1>2
  <2> QED
    BY <2>2, <2>3
<1> HIDE DEF T
<1>3. SUBSET S \subseteq T
  BY <1>1, <1>2, PartInduction
<1> QED
  BY <1>3 DEF T

(* No part of the summands exceeds the whole, if none is negative.         *)
LEMMA SumOfPartBound ==
  ASSUME NEW f, NEW S, IsFiniteSet(S), \A x \in S : f[x] \in Nat, NEW R \in SUBSET S
  PROVE  /\ SumFunctionOnSet(f, R) \in Nat /\ SumFunctionOnSet(f, S) \in Nat
         /\ SumFunctionOnSet(f, R) <= SumFunctionOnSet(f, S)
<1>1. IsFiniteSet(R) /\ IsFiniteSet(S \ R) /\ R \cap (S \ R) = {} /\ R \cup (S \ R) = S
  BY FS_Subset
<1>2. Integral(f, R) /\ Integral(f, S \ R)
  BY DEF Integral
<1>3. SumFunctionOnSet(f, S) = SumFunctionOnSet(f, R) + SumFunctionOnSet(f, S \ R)
  BY <1>1, <1>2, SumSplit
<1>4. SumFunctionOnSet(f, R) \in Nat /\ SumFunctionOnSet(f, S \ R) \in Nat
  BY <1>1, SumIsNat
<1> QED
  BY <1>3, <1>4

(* A sum of zeros is 0.                                                    *)
LEMMA SumOfZeros ==
  ASSUME NEW f, NEW S, IsFiniteSet(S), \A x \in S : f[x] = 0
  PROVE  SumFunctionOnSet(f, S) = 0
<1>1. Integral(f, S)
  BY DEF Integral
<1> DEFINE T == {s \in SUBSET S : SumFunctionOnSet(f, s) = 0}
<1>0. \A s \in SUBSET S : IsFiniteSet(s) /\ Integral(f, s)
  BY FS_Subset, <1>1 DEF Integral
<1>2. {} \in T
  BY SumOfNothing
<1>3. ASSUME NEW s \in SUBSET S, s # {}, \A y \in s : s \ {y} \in T PROVE s \in T
  <2>1. PICK x \in s : TRUE
    BY <1>3
  <2>2. SumFunctionOnSet(f, s) = f[x] + SumFunctionOnSet(f, s \ {x})
    BY <1>0, SumRemove
  <2> QED
    BY <1>3, <2>2
<1> HIDE DEF T
<1>4. SUBSET S \subseteq T
  BY <1>2, <1>3, PartInduction
<1> QED
  BY <1>4 DEF T

(* The weights of a set of records, summed, and with one record more.      *)
WeightSum(S) == MapThenSumSet(LAMBDA v : v.weight, S)

LEMMA WeightsAre ==
  ASSUME NEW S, IsFiniteSet(S)
  PROVE  WeightSum(S) = SumFunctionOnSet([v \in S |-> v.weight], S)
<1> DEFINE f == [v \in S |-> v.weight]
           IsIter(g) == g = [s \in SUBSET S |->
                              IF s = {} THEN 0
                              ELSE (CHOOSE x \in s : TRUE).weight + g[s \ {CHOOSE x \in s : TRUE}]]
<1>1. \A g : IsIter(g) <=> IsSum(g, f, S)
  <2> SUFFICES ASSUME NEW g, NEW s \in SUBSET S
               PROVE  SumStep(g, f, s) =
                        IF s = {} THEN 0
                        ELSE (CHOOSE x \in s : TRUE).weight + g[s \ {CHOOSE x \in s : TRUE}]
    BY ZenonT(30) DEF IsSum
  <2> DEFINE x == CHOOSE x \in s : TRUE
  <2>1. s # {} => x \in S
    OBVIOUS
  <2>2. s # {} => f[x] = x.weight
    BY <2>1
  <2> QED
    BY <2>2 DEF SumStep
<1>2. WeightSum(S) = (CHOOSE g : IsIter(g))[S]
  BY DEF WeightSum, MapThenSumSet, MapThenFoldSet
<1>3. IsIter(CHOOSE g : IsIter(g))
  <2>1. PICK g : IsSum(g, f, S)
    BY SumExists
  <2>2. IsIter(g)
    BY <1>1, <2>1
  <2> HIDE DEF IsIter
  <2> QED
    BY <2>2
<1> QED
  BY <1>1, <1>2, <1>3, SumIs

LEMMA WeightAdded ==
  ASSUME NEW S, IsFiniteSet(S), NEW x, x \notin S, \A v \in S \cup {x} : v.weight \in Nat
  PROVE  /\ IsFiniteSet(S \cup {x})
         /\ WeightSum(S) \in Nat
         /\ WeightSum(S \cup {x}) = WeightSum(S) + x.weight
<1> DEFINE R == S \cup {x}
           f == [v \in R |-> v.weight]
           e == [v \in S |-> v.weight]
<1>1. IsFiniteSet(R)
  BY FS_AddElement
<1>2. /\ \A v \in S : f[v] = v.weight /\ e[v] = v.weight /\ f[v] \in Nat
      /\ f[x] = x.weight /\ x.weight \in Nat
  OBVIOUS
<1>3. Integral(f, S \cup {x})
  BY DEF Integral
<1>4. WeightSum(S) = SumFunctionOnSet(e, S) /\ WeightSum(R) = SumFunctionOnSet(f, R)
  BY <1>1, WeightsAre
<1> HIDE DEF f, e
<1>5. SumFunctionOnSet(e, S) = SumFunctionOnSet(f, S)
  BY <1>2, SumAgrees
<1>6. SumFunctionOnSet(f, R) = f[x] + SumFunctionOnSet(f, S)
  BY <1>3, SumAdd
<1>7. SumFunctionOnSet(f, S) \in Nat
  BY <1>2, SumIsNat
<1> QED
  BY <1>1, <1>2, <1>4, <1>5, <1>6, <1>7

-----------------------------------------------------------------------------
(* Every entry of a page is a point.                                       *)
LEMMA EntriesArePoints ==
  ASSUME NEW K, NEW archive, IsArchive(archive, K),
         NEW pk \in DOMAIN archive, NEW i \in 1 .. Len(archive[pk])
  PROVE  /\ Len(archive[pk]) \in Nat
         /\ archive[pk][i] \in Points
         /\ archive[pk][i].e \in Nat /\ archive[pk][i].v \in Int
<1>1. archive[pk] \in Seq(Points)
  BY DEF IsArchive
<1>2. Len(archive[pk]) \in Nat /\ archive[pk][i] \in Points
  BY <1>1
<1> QED BY <1>2 DEF Points

(* Pages are in the order of their epochs.                                 *)
LEMMA PageMonotone ==
  ASSUME NEW a \in Nat, NEW b \in Nat
  PROVE  /\ a \div PageEpochs \in Nat
         /\ a <= b => a \div PageEpochs <= b \div PageEpochs
         /\ a \div PageEpochs < b \div PageEpochs => a < b
  BY PageEpochsAssumption, SMT

(* A nonempty set of naturals that are at most n has a greatest element.   *)
LEMMA MaxExists ==
  ASSUME NEW n \in Nat, NEW S \in SUBSET (0 .. n), S # {}
  PROVE  \E m \in S : \A x \in S : x <= m
<1> DEFINE Bounds == {u \in Nat : \A x \in S : x <= u}
<1>1. Bounds \subseteq Nat /\ Bounds # {}
  <2>1. n \in Bounds
    OBVIOUS
  <2> QED BY <2>1
<1>2. PICK u \in Bounds : \A w \in Bounds : ~ (<<w, u>> \in OpToRel(<, Nat))
  <2> HIDE DEF Bounds
  <2> QED BY <1>1, NatLessThanWellFounded, WFMin
<1>3. \A w \in Bounds : u <= w
  <2>1. SUFFICES ASSUME NEW w \in Bounds PROVE u <= w
    OBVIOUS
  <2>2. w \in Nat /\ u \in Nat
    OBVIOUS
  <2>3. <<w, u>> \in OpToRel(<, Nat) <=> w < u
    BY <2>2 DEF OpToRel
  <2>4. ~ (<<w, u>> \in OpToRel(<, Nat))
    BY <1>2, <2>1
  <2>5. ~ (w < u)
    BY <2>3, <2>4, Zenon
  <2> QED BY <2>2, <2>5
<1>4. u \in S
  <2>1. SUFFICES ASSUME u \notin S PROVE FALSE
    OBVIOUS
  <2>2. PICK x \in S : TRUE
    OBVIOUS
  <2>3. u # 0
    BY <2>1, <2>2
  <2>4. u - 1 \in Bounds
    BY <2>1, <2>3
  <2> QED BY <2>4, <1>3
<1> QED BY <1>4

(* LastIndex picks the greatest element when there is one.                 *)
LEMMA LastIndexIs ==
  ASSUME NEW I, NEW i \in I, i \in Nat, \A j \in I : j \in Nat /\ j <= i
  PROVE  LastIndex(I) = i
<1>1. LastIndex(I) \in I /\ \A j \in I : j <= LastIndex(I)
  <2>1. \E m \in I : \A j \in I : j <= m
    OBVIOUS
  <2> QED BY <2>1, Zenon DEF LastIndex
<1>2. LastIndex(I) \in Nat /\ LastIndex(I) <= i
  BY <1>1
<1>3. i <= LastIndex(I)
  BY <1>1
<1> QED BY <1>2, <1>3

-----------------------------------------------------------------------------
(* Entry i of page p is the newest of its key that is not after at.        *)
IsNewest(archive, key, at, p, i) ==
  /\ p \in Nat /\ <<key, p>> \in DOMAIN archive
  /\ i \in 1 .. Len(archive[<<key, p>>])
  /\ archive[<<key, p>>][i].e <= at
  /\ \A q \in Nat : <<key, q>> \in DOMAIN archive =>
       \A j \in 1 .. Len(archive[<<key, q>>]) :
          archive[<<key, q>>][j].e <= at =>
            archive[<<key, q>>][j].e <= archive[<<key, p>>][i].e

AllAfter(archive, key, at) ==
  \A q \in Nat : <<key, q>> \in DOMAIN archive =>
    \A j \in 1 .. Len(archive[<<key, q>>]) : ~ (archive[<<key, q>>][j].e <= at)

(* An archive read answers with the newest entry that is not after at.     *)
LEMMA ReadsNewest ==
  ASSUME NEW K, NEW key \in K, NEW archive, IsArchive(archive, K),
         PagesOrder(archive, key), NEW at \in Nat,
         NEW p, NEW i, IsNewest(archive, key, at, p, i)
  PROVE  ArchivedValueAt(archive, key, at) = archive[<<key, p>>][i].v
<1> DEFINE pg == archive[<<key, p>>]
<1> USE DEF IsNewest
<1>1. Len(pg) \in Nat /\ pg[i].e \in Nat /\ \A j \in 1 .. Len(pg) : pg[j].e \in Nat
  BY EntriesArePoints
<1>2. p = pg[i].e \div PageEpochs
  BY DEF PagesOrder
<1>3. p \in Candidates(archive, key, at)
  <2>1. p <= at \div PageEpochs /\ at \div PageEpochs \in Nat
    BY <1>1, <1>2, PageMonotone
  <2>2. i \in Answers(pg, at)
    BY DEF Answers
  <2> QED BY <2>1, <2>2, SMTT(30) DEF Candidates
<1>4. \A q \in Candidates(archive, key, at) : q \in Nat /\ q <= p
  <2>1. SUFFICES ASSUME NEW q \in Candidates(archive, key, at)
                 PROVE  q \in Nat /\ q <= p
    OBVIOUS
  <2>2. q \in Nat /\ <<key, q>> \in DOMAIN archive
    BY PageMonotone DEF Candidates
  <2>3. PICK j \in 1 .. Len(archive[<<key, q>>]) :
             archive[<<key, q>>][j].e <= at
    BY DEF Candidates, Answers
  <2>4. archive[<<key, q>>][j].e \in Nat
    BY <2>2, EntriesArePoints
  <2>5. archive[<<key, q>>][j].e <= pg[i].e
    BY <2>2, <2>3
  <2>6. q = archive[<<key, q>>][j].e \div PageEpochs
    BY <2>2 DEF PagesOrder
  <2> QED BY <2>2, <2>4, <2>5, <2>6, <1>1, <1>2, PageMonotone
<1>5. LastIndex(Candidates(archive, key, at)) = p
  BY <1>3, <1>4, LastIndexIs
<1>6. LastIndex(Answers(pg, at)) = i
  <2>1. i \in Answers(pg, at)
    BY DEF Answers
  <2>2. \A j \in Answers(pg, at) : j \in Nat /\ j <= i
    <3>1. SUFFICES ASSUME NEW j \in Answers(pg, at) PROVE j \in Nat /\ j <= i
      OBVIOUS
    <3>2. j \in 1 .. Len(pg) /\ pg[j].e <= at /\ Len(pg) \in Nat
      BY <1>1 DEF Answers
    <3>3. pg[j].e <= pg[i].e /\ pg[j].e \in Nat
      BY <3>2, <1>1
    <3>4. i < j => pg[i].e < pg[j].e
      BY <3>2 DEF PagesOrder
    <3> QED BY <3>2, <3>3, <3>4, <1>1
  <2> QED BY <2>1, <2>2, LastIndexIs
<1> QED BY <1>3, <1>5, <1>6 DEF ArchivedValueAt

(* It answers zero when every entry of the key is after at.                *)
LEMMA ReadsNothing ==
  ASSUME NEW K, NEW key \in K, NEW archive, IsArchive(archive, K),
         NEW at \in Nat, AllAfter(archive, key, at)
  PROVE  ArchivedValueAt(archive, key, at) = 0
<1>1. \A p \in 0 .. at \div PageEpochs : <<key, p>> \in DOMAIN archive =>
        Answers(archive[<<key, p>>], at) = {}
  BY PageMonotone, SMTT(30) DEF Answers, AllAfter
<1>2. Candidates(archive, key, at) = {}
  BY <1>1, Zenon DEF Candidates
<1> QED BY <1>2 DEF ArchivedValueAt

(* One of the two always applies.                                          *)
LEMMA NewestExists ==
  ASSUME NEW K, NEW key \in K, NEW archive, IsArchive(archive, K),
         NEW at \in Nat, ~ AllAfter(archive, key, at)
  PROVE  \E p, i : IsNewest(archive, key, at, p, i)
<1>0. PICK q \in Nat : /\ <<key, q>> \in DOMAIN archive
                       /\ \E j \in 1 .. Len(archive[<<key, q>>]) :
                            archive[<<key, q>>][j].e <= at
  BY DEF AllAfter
<1>00. PICK j \in 1 .. Len(archive[<<key, q>>]) : archive[<<key, q>>][j].e <= at
  BY <1>0
<1> DEFINE S == {n \in 0 .. at : \E p \in Nat :
                   /\ <<key, p>> \in DOMAIN archive
                   /\ \E i \in 1 .. Len(archive[<<key, p>>]) :
                        archive[<<key, p>>][i].e = n}
<1>1. \A p \in Nat : <<key, p>> \in DOMAIN archive =>
        \A i \in 1 .. Len(archive[<<key, p>>]) : archive[<<key, p>>][i].e \in Nat
  BY EntriesArePoints
<1>2. archive[<<key, q>>][j].e \in S
  <2>1. archive[<<key, q>>][j].e \in 0 .. at
    BY <1>0, <1>00, <1>1
  <2> QED BY <1>0, <2>1
<1>3. PICK m \in S : \A n \in S : n <= m
  <2>1. S \in SUBSET (0 .. at) /\ S # {}
    BY <1>2
  <2> HIDE DEF S
  <2> QED BY <2>1, MaxExists
<1>4. PICK p \in Nat : /\ <<key, p>> \in DOMAIN archive
                       /\ \E i \in 1 .. Len(archive[<<key, p>>]) :
                            archive[<<key, p>>][i].e = m
  OBVIOUS
<1>5. PICK i \in 1 .. Len(archive[<<key, p>>]) : archive[<<key, p>>][i].e = m
  BY <1>4
<1>6. \A q2 \in Nat : <<key, q2>> \in DOMAIN archive =>
        \A j2 \in 1 .. Len(archive[<<key, q2>>]) :
           archive[<<key, q2>>][j2].e <= at =>
             archive[<<key, q2>>][j2].e <= archive[<<key, p>>][i].e
  <2>1. SUFFICES ASSUME NEW q2 \in Nat, <<key, q2>> \in DOMAIN archive,
                        NEW j2 \in 1 .. Len(archive[<<key, q2>>]),
                        archive[<<key, q2>>][j2].e <= at
                 PROVE  archive[<<key, q2>>][j2].e <= m
    BY <1>5
  <2>2. archive[<<key, q2>>][j2].e \in 0 .. at
    BY <1>1, <2>1, SMTT(30)
  <2>3. archive[<<key, q2>>][j2].e \in S
    BY <2>1, <2>2
  <2> QED BY <2>3, <1>3
<1>7. archive[<<key, p>>][i].e <= at
  BY <1>3, <1>5
<1> QED BY <1>4, <1>6, <1>7 DEF IsNewest

(* A key whose pages are the same in two archives reads the same.          *)
LEMMA SamePages ==
  ASSUME NEW K, NEW key \in K, NEW archive, NEW after,
         IsArchive(archive, K), IsArchive(after, K),
         \A q \in Nat : /\ <<key, q>> \in DOMAIN after <=> <<key, q>> \in DOMAIN archive
                        /\ <<key, q>> \in DOMAIN archive =>
                             after[<<key, q>>] = archive[<<key, q>>]
  PROVE  /\ \A at \in Nat : \A s :
              ValueAt(after, key, s, at) = ValueAt(archive, key, s, at)
         /\ \A s : WellShaped(archive, key, s) => WellShaped(after, key, s)
<1>1. ASSUME NEW at \in Nat
      PROVE  ArchivedValueAt(after, key, at) = ArchivedValueAt(archive, key, at)
  <2>1. \A p \in 0 .. at \div PageEpochs : p \in Nat
    BY PageMonotone
  <2>2. Candidates(after, key, at) = Candidates(archive, key, at)
    BY <2>1 DEF Candidates
  <2>3. CASE Candidates(archive, key, at) = {}
    BY <2>2, <2>3 DEF ArchivedValueAt
  <2>4. CASE Candidates(archive, key, at) # {}
    <3> DEFINE C == Candidates(archive, key, at)
    <3>1. C \in SUBSET (0 .. at \div PageEpochs) /\ at \div PageEpochs \in Nat
      BY PageMonotone DEF Candidates
    <3>2. PICK m \in C : \A x \in C : x <= m
      BY <2>4, <3>1, MaxExists
    <3>3. LastIndex(C) = m
      BY <3>1, <3>2, LastIndexIs
    <3>4. after[<<key, m>>] = archive[<<key, m>>]
      BY <2>1, <3>2 DEF Candidates
    <3> QED BY <2>2, <2>4, <3>3, <3>4 DEF ArchivedValueAt
  <2> QED BY <2>3, <2>4
<1>2. \A pk \in DOMAIN after : pk[1] = key =>
        pk \in DOMAIN archive /\ after[pk] = archive[pk]
  BY DEF IsArchive
<1> QED BY <1>1, <1>2 DEF ValueAt, WellShaped, PagesOrder, ArchivedBefore

-----------------------------------------------------------------------------
(* after is archive with one more entry, the last of its page.             *)
OldLen(archive, pk) == IF pk \in DOMAIN archive THEN Len(archive[pk]) ELSE 0

Appended(archive, after, pk0, e, v) ==
  /\ DOMAIN after = DOMAIN archive \cup {pk0}
  /\ \A pk \in DOMAIN archive : pk # pk0 => after[pk] = archive[pk]
  /\ OldLen(archive, pk0) \in Nat
  /\ Len(after[pk0]) = OldLen(archive, pk0) + 1
  /\ \A i \in 1 .. OldLen(archive, pk0) : after[pk0][i] = archive[pk0][i]
  /\ after[pk0][OldLen(archive, pk0) + 1] = [e |-> e, v |-> v]

(* Appending an entry leaves every other page and every older entry alone. *)
LEMMA AppendFacts ==
  ASSUME NEW K, NEW key \in K, NEW archive, IsArchive(archive, K),
         NEW e \in Nat, NEW v \in Int
  PROVE  /\ IsArchive(AppendEntry(archive, key, e, v), K)
         /\ Appended(archive, AppendEntry(archive, key, e, v),
                     <<key, e \div PageEpochs>>, e, v)
<1> DEFINE after == AppendEntry(archive, key, e, v)
           pk0   == <<key, e \div PageEpochs>>
           old   == IF pk0 \in DOMAIN archive THEN archive[pk0] ELSE <<>>
           n     == IF pk0 \in DOMAIN archive THEN Len(archive[pk0]) ELSE 0
           entry == [e |-> e, v |-> v]
<1>1. pk0 \in K \X Nat
  BY PageMonotone
<1>2. old \in Seq(Points) /\ n = Len(old) /\ n \in Nat
  BY DEF IsArchive
<1>3. entry \in Points
  BY DEF Points
<1>4. /\ Append(old, entry) \in Seq(Points)
      /\ Len(Append(old, entry)) = n + 1
      /\ \A i \in 1 .. n : Append(old, entry)[i] = old[i]
      /\ Append(old, entry)[n + 1] = entry
  <2> HIDE DEF old, n, entry
  <2> QED BY <1>2, <1>3
<1>5. after = [pk \in DOMAIN archive \cup {pk0} |->
                 IF pk = pk0 THEN Append(old, entry) ELSE archive[pk]]
  BY DEF AppendEntry, PageKey
<1>6. /\ DOMAIN after = DOMAIN archive \cup {pk0}
      /\ after[pk0] = Append(old, entry)
      /\ \A pk \in DOMAIN archive : pk # pk0 => after[pk] = archive[pk]
  <2> HIDE DEF after, old, entry, pk0
  <2> QED BY <1>5
<1>7. \A i \in 1 .. n : old[i] = archive[pk0][i]
  BY <1>2
<1>8. IsArchive(after, K)
  <2>1. \A pk \in DOMAIN after : after[pk] \in Seq(Points)
    <3> HIDE DEF after, old, entry, pk0
    <3> QED BY <1>4, <1>6 DEF IsArchive
  <2>2. DOMAIN after \subseteq K \X Nat
    <3> HIDE DEF after, pk0
    <3> QED BY <1>1, <1>6 DEF IsArchive
  <2>3. after = [pk \in DOMAIN after |-> after[pk]]
    <3> HIDE DEF old, entry, pk0, after
    <3> QED BY <1>5
  <2> HIDE DEF after
  <2> QED BY <2>1, <2>2, <2>3 DEF IsArchive
<1> HIDE DEF after, old, n, entry, pk0
<1>9. /\ Len(after[pk0]) = n + 1
      /\ \A i \in 1 .. n : after[pk0][i] = archive[pk0][i]
      /\ after[pk0][n + 1] = entry
  BY <1>4, <1>6, <1>7
<1> QED BY <1>2, <1>6, <1>8, <1>9
      DEF after, old, n, entry, pk0, Appended, OldLen

(* Appending at an epoch after everything archived keeps the order, and    *)
(* changes only the answers from that epoch on.                            *)
LEMMA AppendReads ==
  ASSUME NEW K, NEW key \in K, NEW archive, IsArchive(archive, K),
         NEW e \in Nat, NEW v \in Int,
         PagesOrder(archive, key), ArchivedBefore(archive, key, e)
  PROVE  LET after == AppendEntry(archive, key, e, v)
         IN  /\ PagesOrder(after, key)
             /\ \A epoch \in Nat : e < epoch => ArchivedBefore(after, key, epoch)
             /\ \A at \in Nat : ArchivedValueAt(after, key, at) =
                   IF at >= e THEN v ELSE ArchivedValueAt(archive, key, at)
<1> DEFINE after == AppendEntry(archive, key, e, v)
           p0    == e \div PageEpochs
           pk0   == <<key, p0>>
           n     == OldLen(archive, pk0)
<1>0. IsArchive(after, K) /\ Appended(archive, after, pk0, e, v)
  BY AppendFacts
<1> HIDE DEF after
<1>1. /\ IsArchive(after, K)
      /\ DOMAIN after = DOMAIN archive \cup {pk0}
      /\ \A pk \in DOMAIN archive : pk # pk0 => after[pk] = archive[pk]
      /\ n \in Nat
      /\ Len(after[pk0]) = n + 1
      /\ \A i \in 1 .. n : after[pk0][i] = archive[pk0][i]
      /\ after[pk0][n + 1] = [e |-> e, v |-> v]
  BY <1>0 DEF Appended
<1>2. n > 0 => pk0 \in DOMAIN archive /\ n = Len(archive[pk0])
  BY DEF OldLen
<1>3. p0 \in Nat
  BY PageMonotone
<1> HIDE DEF n
(* An entry after the append is either the new one or an old one.          *)
<1>4. ASSUME NEW pk \in DOMAIN after, pk[1] = key, NEW i \in 1 .. Len(after[pk])
      PROVE  \/ pk = pk0 /\ i = n + 1 /\ after[pk][i] = [e |-> e, v |-> v]
             \/ /\ pk \in DOMAIN archive
                /\ i \in 1 .. Len(archive[pk])
                /\ after[pk][i] = archive[pk][i]
                /\ archive[pk][i].e \in Nat /\ archive[pk][i].e < e
                /\ pk = pk0 => i <= n
  <2>1. CASE pk # pk0
    BY <1>1, <2>1, <1>4, EntriesArePoints DEF ArchivedBefore
  <2>2. CASE pk = pk0
    <3>1. i \in 1 .. (n + 1)
      BY <1>1, <2>2
    <3>2. CASE i = n + 1
      BY <1>1, <2>2, <3>2
    <3>3. CASE i # n + 1
      <4>1. i \in 1 .. n /\ n > 0
        BY <3>1, <3>3, <1>1
      <4>2. pk \in DOMAIN archive /\ n = Len(archive[pk])
        BY <4>1, <1>2, <2>2
      <4>3. after[pk][i] = archive[pk][i] /\ i \in 1 .. Len(archive[pk])
        BY <4>1, <4>2, <1>1, <2>2
      <4>4. archive[pk][i].e \in Nat /\ archive[pk][i].e < e
        BY <4>2, <4>3, <1>4, EntriesArePoints DEF ArchivedBefore
      <4> QED BY <4>1, <4>2, <4>3, <4>4
    <3> QED BY <3>2, <3>3
  <2> QED BY <2>1, <2>2
<1>5. PagesOrder(after, key)
  <2>1. SUFFICES ASSUME NEW pk \in DOMAIN after, pk[1] = key
                 PROVE  /\ after[pk] # <<>>
                        /\ \A i \in 1 .. Len(after[pk]) :
                             /\ after[pk][i].e \div PageEpochs = pk[2]
                             /\ \A j \in 1 .. Len(after[pk]) :
                                  i < j => after[pk][i].e < after[pk][j].e
    BY DEF PagesOrder
  <2>2. after[pk] # <<>>
    <3>1. CASE pk = pk0
      BY <3>1, <1>1
    <3>2. CASE pk # pk0
      BY <3>2, <1>1, <2>1 DEF PagesOrder
    <3> QED BY <3>1, <3>2
  <2>3. ASSUME NEW i \in 1 .. Len(after[pk])
        PROVE  after[pk][i].e \div PageEpochs = pk[2]
    BY <1>4, <2>1 DEF PagesOrder
  <2>4. ASSUME NEW i \in 1 .. Len(after[pk]), NEW j \in 1 .. Len(after[pk]), i < j
        PROVE  after[pk][i].e < after[pk][j].e
    <3>1. Len(after[pk]) \in Nat
      BY <1>1, EntriesArePoints
    <3>2. ~ (pk = pk0 /\ i = n + 1)
      BY <1>1, <2>4, <3>1
    <3>3. /\ pk \in DOMAIN archive
          /\ i \in 1 .. Len(archive[pk])
          /\ after[pk][i] = archive[pk][i]
          /\ archive[pk][i].e < e
      BY <1>4, <2>1, <3>2
    <3>4. CASE pk = pk0 /\ j = n + 1
      BY <3>3, <3>4, <1>1
    <3>5. CASE ~ (pk = pk0 /\ j = n + 1)
      <4>1. j \in 1 .. Len(archive[pk]) /\ after[pk][j] = archive[pk][j]
        BY <1>4, <2>1, <3>5
      <4> QED BY <3>3, <4>1, <2>1, <2>4 DEF PagesOrder
    <3> QED BY <3>4, <3>5
  <2> QED BY <2>2, <2>3, <2>4
<1>6. ASSUME NEW epoch \in Nat, e < epoch
      PROVE  ArchivedBefore(after, key, epoch)
  BY <1>4, <1>6 DEF ArchivedBefore
<1>7. ASSUME NEW at \in Nat, at >= e
      PROVE  ArchivedValueAt(after, key, at) = v
  <2>1. /\ pk0 \in DOMAIN after
        /\ n + 1 \in 1 .. Len(after[pk0])
        /\ after[pk0][n + 1].e = e
        /\ after[pk0][n + 1].v = v
    BY <1>1
  <2>2. \A q \in Nat : <<key, q>> \in DOMAIN after =>
           \A j \in 1 .. Len(after[<<key, q>>]) : after[<<key, q>>][j].e <= e
    BY <1>4
  <2>3. IsNewest(after, key, at, p0, n + 1)
    BY <1>3, <1>7, <2>1, <2>2 DEF IsNewest
  <2>4. ArchivedValueAt(after, key, at) = after[pk0][n + 1].v
    BY <1>1, <1>5, <2>3, ReadsNewest
  <2> QED BY <2>1, <2>4
<1>8. ASSUME NEW at \in Nat, at < e
      PROVE  ArchivedValueAt(after, key, at) = ArchivedValueAt(archive, key, at)
  <2>1. ASSUME NEW q \in Nat, <<key, q>> \in DOMAIN after,
               NEW j \in 1 .. Len(after[<<key, q>>]), after[<<key, q>>][j].e <= at
        PROVE  /\ <<key, q>> \in DOMAIN archive
               /\ j \in 1 .. Len(archive[<<key, q>>])
               /\ after[<<key, q>>][j] = archive[<<key, q>>][j]
    <3>1. <<key, q>>[1] = key
      OBVIOUS
    <3>2. ~ (after[<<key, q>>][j] = [e |-> e, v |-> v])
      BY <1>8, <2>1
    <3> QED BY <1>4, <2>1, <3>1, <3>2
  <2>2. CASE AllAfter(archive, key, at)
    <3>1. AllAfter(after, key, at)
      BY <2>1, <2>2 DEF AllAfter
    <3>2. ArchivedValueAt(after, key, at) = 0
      BY <1>1, <3>1, ReadsNothing
    <3>3. ArchivedValueAt(archive, key, at) = 0
      BY <2>2, ReadsNothing
    <3> QED BY <3>2, <3>3
  <2>3. CASE ~ AllAfter(archive, key, at)
    <3>1. PICK p, i : IsNewest(archive, key, at, p, i)
      BY <2>3, NewestExists
    <3>2. ArchivedValueAt(archive, key, at) = archive[<<key, p>>][i].v
      BY <3>1, ReadsNewest
    <3>3. /\ p \in Nat /\ <<key, p>> \in DOMAIN archive
          /\ i \in 1 .. Len(archive[<<key, p>>])
      BY <3>1 DEF IsNewest
    <3>4. /\ <<key, p>> \in DOMAIN after
          /\ i \in 1 .. Len(after[<<key, p>>])
          /\ after[<<key, p>>][i] = archive[<<key, p>>][i]
      <4>1. CASE <<key, p>> # pk0
        BY <1>1, <3>3, <4>1
      <4>2. CASE <<key, p>> = pk0
        <5>1. n = Len(archive[pk0])
          BY <3>3, <4>2 DEF n, OldLen
        <5>2. i \in 1 .. n /\ i \in 1 .. (n + 1)
          BY <5>1, <3>3, <4>2, <1>1
        <5> QED BY <5>2, <1>1, <4>2
      <4> QED BY <4>1, <4>2
    <3>5. IsNewest(after, key, at, p, i)
      BY <2>1, <3>1, <3>3, <3>4 DEF IsNewest
    <3>6. ArchivedValueAt(after, key, at) = after[<<key, p>>][i].v
      BY <1>1, <1>5, <3>5, ReadsNewest
    <3> QED BY <3>2, <3>4, <3>6
  <2> QED BY <2>2, <2>3
<1> QED BY <1>5, <1>6, <1>7, <1>8 DEF after

-----------------------------------------------------------------------------
(* SetAt keeps the order of the points; from epoch e on the series reads v *)
(* and before e it reads what it read before (checkpoint.gno:173-205).     *)
THEOREM SetAtReads ==
  ASSUME NEW K, NEW key \in K, NEW archive, IsArchive(archive, K),
         NEW s \in SeriesRecords, WellShaped(archive, key, s),
         NEW e \in Nat, NEW v \in Int, MaySetAt(s, e)
  PROVE  LET after == ArchiveAfterSetAt(archive, key, s, e)
             t     == SeriesAfterSetAt(s, e, v)
         IN  /\ t \in SeriesRecords /\ t.e0 = e /\ t.cur = v
             /\ IsArchive(after, K)
             /\ WellShaped(after, key, t)
             /\ \A at \in Nat : ValueAt(after, key, t, at) =
                   IF at >= e THEN v ELSE ValueAt(archive, key, s, at)
<1> DEFINE after == ArchiveAfterSetAt(archive, key, s, e)
           t     == SeriesAfterSetAt(s, e, v)
<1> USE DEF MaySetAt, SeriesAfterSetAt, WellShaped, SeriesRecords
<1>1. t \in SeriesRecords /\ t.e0 = e /\ t.cur = v
  OBVIOUS
<1>2. CASE e = s.e0
  <2>1. after = archive /\ t = [s EXCEPT !.cur = v] /\ t.e1 = s.e1 /\ t.prev = s.prev
    BY <1>2 DEF ArchiveAfterSetAt
  <2>2. InlineOrder(t)
    BY <1>2, <2>1 DEF InlineOrder, NewSeries
  <2>3. ASSUME NEW at \in Nat
        PROVE  ValueAt(archive, key, t, at) =
                 IF at >= e THEN v ELSE ValueAt(archive, key, s, at)
    BY <1>1, <1>2, <2>1 DEF ValueAt
  <2> QED BY <1>1, <2>1, <2>2, <2>3
<1>3. CASE e # s.e0
  <2>1. t = [cur |-> v, prev |-> s.cur, e0 |-> e, e1 |-> s.e0] /\ s.e0 < e
    BY <1>3
  <2>2. InlineOrder(t)
    <3>1. s.e0 = 0 => s.cur = 0
      BY DEF InlineOrder, NewSeries
    <3> QED BY <2>1, <3>1 DEF InlineOrder
  <2>3. CASE s.e1 = 0
    <3>1. after = archive
      BY <2>3 DEF ArchiveAfterSetAt
    <3>2. ArchivedBefore(archive, key, s.e0)
      BY <2>3, EntriesArePoints DEF ArchivedBefore, InlineOrder, NewSeries
    <3>3. ASSUME NEW at \in Nat
          PROVE  ValueAt(archive, key, t, at) =
                   IF at >= e THEN v ELSE ValueAt(archive, key, s, at)
      <4>1. AllAfter(archive, key, at)
        <5>1. ASSUME NEW q \in Nat, <<key, q>> \in DOMAIN archive,
                     NEW j \in 1 .. Len(archive[<<key, q>>])
              PROVE  FALSE
          <6>1. archive[<<key, q>>][j].e \in Nat
            BY <5>1, EntriesArePoints
          <6>2. archive[<<key, q>>][j].e < s.e1
            BY <5>1 DEF ArchivedBefore
          <6> QED BY <6>1, <6>2, <2>3
        <5> QED BY <5>1 DEF AllAfter
      <4>2. ArchivedValueAt(archive, key, at) = 0
        BY <4>1, ReadsNothing
      <4>3. s.prev = 0
        BY <2>3 DEF InlineOrder, NewSeries
      <4>4. CASE at < s.e0
        BY <2>1, <2>3, <4>2, <4>3, <4>4 DEF ValueAt
      <4>5. CASE at >= s.e0
        BY <2>1, <4>5 DEF ValueAt
      <4> QED BY <4>4, <4>5
    <3> QED BY <1>1, <2>1, <2>2, <3>1, <3>2, <3>3
  <2>4. CASE s.e1 # 0
    <3>1. after = AppendEntry(archive, key, s.e1, s.prev)
      BY <1>3, <2>4 DEF ArchiveAfterSetAt
    <3>2. s.e1 < s.e0
      BY <2>4 DEF InlineOrder, NewSeries
    <3> HIDE DEF after
    <3>3. IsArchive(after, K)
      BY <3>1, AppendFacts
    <3>4. /\ PagesOrder(after, key)
          /\ ArchivedBefore(after, key, s.e0)
          /\ \A at \in Nat : ArchivedValueAt(after, key, at) =
                IF at >= s.e1 THEN s.prev ELSE ArchivedValueAt(archive, key, at)
      BY <3>1, <3>2, AppendReads
    <3>5. ASSUME NEW at \in Nat
          PROVE  ValueAt(after, key, t, at) =
                   IF at >= e THEN v ELSE ValueAt(archive, key, s, at)
      <4>1. CASE at >= s.e0
        BY <2>1, <4>1 DEF ValueAt
      <4>2. CASE at < s.e0
        <5>1. ValueAt(after, key, t, at) = ArchivedValueAt(after, key, at)
          BY <2>1, <4>2 DEF ValueAt
        <5>2. ValueAt(archive, key, s, at) =
                IF at >= s.e1 THEN s.prev ELSE ArchivedValueAt(archive, key, at)
          BY <4>2 DEF ValueAt
        <5>3. ~ (at >= e)
          BY <2>1, <4>2
        <5> QED BY <5>1, <5>2, <5>3, <3>4
      <4> QED BY <4>1, <4>2
    <3> QED BY <1>1, <2>1, <2>2, <3>3, <3>4, <3>5 DEF after
  <2> QED BY <2>3, <2>4
<1> QED BY <1>2, <1>3

(* SetAt on one key changes no answer of another key.                      *)
THEOREM SetAtElsewhere ==
  ASSUME NEW K, NEW key \in K, NEW other \in K, other # key,
         NEW archive, IsArchive(archive, K),
         NEW s \in SeriesRecords, NEW e \in Nat,
         IsArchive(ArchiveAfterSetAt(archive, key, s, e), K)
  PROVE  LET after == ArchiveAfterSetAt(archive, key, s, e)
         IN  /\ \A at \in Nat : \A t :
                   ValueAt(after, other, t, at) = ValueAt(archive, other, t, at)
             /\ \A t : WellShaped(archive, other, t) => WellShaped(after, other, t)
<1> DEFINE after == ArchiveAfterSetAt(archive, key, s, e)
<1>1. \A q \in Nat : /\ <<other, q>> \in DOMAIN after <=> <<other, q>> \in DOMAIN archive
                     /\ <<other, q>> \in DOMAIN archive =>
                          after[<<other, q>>] = archive[<<other, q>>]
  BY DEF ArchiveAfterSetAt, AppendEntry, PageKey
<1> QED BY <1>1, SamePages

-----------------------------------------------------------------------------
(* Trim changes no answer at or above keepFrom, keeps the order of what it *)
(* leaves, and touches no other key (checkpoint.gno:315-364).              *)
THEOREM TrimReads ==
  ASSUME NEW K, NEW key \in K, NEW archive, IsArchive(archive, K),
         NEW keepFrom \in Nat, NEW maxPages \in Int
  PROVE  LET after == ArchiveAfterTrim(archive, key, keepFrom, maxPages)
         IN  /\ IsArchive(after, K)
             /\ \A s : WellShaped(archive, key, s) =>
                  /\ WellShaped(after, key, s)
                  /\ \A at \in Nat : at >= keepFrom =>
                       ValueAt(after, key, s, at) = ValueAt(archive, key, s, at)
             /\ \A other \in K : other # key =>
                  /\ \A at \in Nat : \A s :
                       ValueAt(after, other, s, at) = ValueAt(archive, other, s, at)
                  /\ \A s : WellShaped(archive, other, s) =>
                              WellShaped(after, other, s)
<1> DEFINE after == ArchiveAfterTrim(archive, key, keepFrom, maxPages)
           D     == Deleted(archive, key, keepFrom, maxPages)
<1>1. /\ DOMAIN after = DOMAIN archive \ {<<key, p>> : p \in D}
      /\ \A pk \in DOMAIN after : pk \in DOMAIN archive /\ after[pk] = archive[pk]
      /\ after = [pk \in DOMAIN after |-> after[pk]]
  BY DEF ArchiveAfterTrim
(* A page is deleted only if a younger page below the horizon survives.    *)
<1>2. ASSUME NEW p \in D
      PROVE  /\ p \in Nat
             /\ \E q \in Nat : /\ <<key, q>> \in DOMAIN archive
                               /\ p < q /\ q < keepFrom \div PageEpochs
  <2>1. keepFrom \div PageEpochs \in Nat
    BY PageMonotone
  <2>2. p \in Below(archive, key, keepFrom)
    BY DEF Deleted, Collected
  <2>3. PICK q \in Below(archive, key, keepFrom) : p < q
    BY DEF Deleted, Collected
  <2> QED BY <2>1, <2>2, <2>3 DEF Below
<1> HIDE DEF after, D
<1>3. IsArchive(after, K)
  BY <1>1 DEF IsArchive
<1>4. ASSUME NEW s, WellShaped(archive, key, s)
      PROVE  WellShaped(after, key, s)
  BY <1>1, <1>4 DEF WellShaped, PagesOrder, ArchivedBefore
<1>5. ASSUME PagesOrder(archive, key), NEW at \in Nat, at >= keepFrom
      PROVE  ArchivedValueAt(after, key, at) = ArchivedValueAt(archive, key, at)
  <2>1. PagesOrder(after, key)
    BY <1>1, <1>5 DEF PagesOrder
  <2>2. CASE AllAfter(archive, key, at)
    <3>1. AllAfter(after, key, at)
      BY <1>1, <2>2 DEF AllAfter
    <3> QED BY <1>3, <2>2, <3>1, ReadsNothing
  <2>3. CASE ~ AllAfter(archive, key, at)
    <3>1. PICK p, i : IsNewest(archive, key, at, p, i)
      BY <2>3, NewestExists
    <3>2. /\ p \in Nat /\ <<key, p>> \in DOMAIN archive
          /\ i \in 1 .. Len(archive[<<key, p>>])
          /\ archive[<<key, p>>][i].e \in Nat
          /\ archive[<<key, p>>][i].e \div PageEpochs = p
      BY <3>1, <1>5, EntriesArePoints DEF IsNewest, PagesOrder
    <3>3. p \notin D
      <4>1. SUFFICES ASSUME p \in D PROVE FALSE
        OBVIOUS
      <4>2. PICK q \in Nat : /\ <<key, q>> \in DOMAIN archive
                             /\ p < q /\ q < keepFrom \div PageEpochs
        BY <1>2, <4>1
      <4>3. archive[<<key, q>>] # <<>> /\ archive[<<key, q>>] \in Seq(Points)
        BY <1>5, <4>2 DEF PagesOrder, IsArchive
      <4>4. 1 \in 1 .. Len(archive[<<key, q>>])
        BY <4>3
      <4>5. /\ archive[<<key, q>>][1].e \in Nat
            /\ archive[<<key, q>>][1].e \div PageEpochs = q
        BY <1>5, <4>2, <4>4, EntriesArePoints DEF PagesOrder
      <4>6. archive[<<key, q>>][1].e < keepFrom
        BY <4>2, <4>5, PageMonotone
      <4>7. archive[<<key, q>>][1].e <= archive[<<key, p>>][i].e
        BY <1>5, <3>1, <4>2, <4>4, <4>5, <4>6, SMTT(30) DEF IsNewest
      <4>8. q <= p
        BY <3>2, <4>5, <4>7, PageMonotone
      <4> QED BY <3>2, <4>2, <4>8
    <3>4. <<key, p>> \in DOMAIN after /\ after[<<key, p>>] = archive[<<key, p>>]
      BY <1>1, <3>2, <3>3
    <3>5. IsNewest(after, key, at, p, i)
      BY <1>1, <3>1, <3>4 DEF IsNewest
    <3>6. ArchivedValueAt(after, key, at) = after[<<key, p>>][i].v
      BY <1>3, <2>1, <3>5, ReadsNewest
    <3>7. ArchivedValueAt(archive, key, at) = archive[<<key, p>>][i].v
      BY <1>5, <3>1, ReadsNewest
    <3> QED BY <3>4, <3>6, <3>7
  <2> QED BY <2>2, <2>3
<1>6. ASSUME NEW s, WellShaped(archive, key, s), NEW at \in Nat, at >= keepFrom
      PROVE  ValueAt(after, key, s, at) = ValueAt(archive, key, s, at)
  BY <1>5, <1>6 DEF ValueAt, WellShaped
<1>7. ASSUME NEW other \in K, other # key
      PROVE  /\ \A at \in Nat : \A s :
                  ValueAt(after, other, s, at) = ValueAt(archive, other, s, at)
             /\ \A s : WellShaped(archive, other, s) => WellShaped(after, other, s)
  <2>1. \A q \in Nat : /\ <<other, q>> \in DOMAIN after <=> <<other, q>> \in DOMAIN archive
                       /\ <<other, q>> \in DOMAIN archive =>
                            after[<<other, q>>] = archive[<<other, q>>]
    BY <1>1, <1>7
  <2> QED BY <2>1, <1>3, SamePages
<1> QED BY <1>3, <1>4, <1>6, <1>7 DEF after
=============================================================================
