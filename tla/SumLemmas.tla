------------------------------ MODULE SumLemmas ------------------------------
(***************************************************************************)
(* What SumFunction of the community modules computes, for the invariants  *)
(* that compare a running total with the entries it totals.                *)
(*                                                                         *)
(* SumFunctionOnSet(f, S) folds f over S by a recursive function on the    *)
(* subsets of S that takes out a chosen element at a time.  Here it is     *)
(* shown that such a function exists when S is finite, that there is one   *)
(* only, and that whatever element is taken out, the sum is that element's *)
(* value and the sum over the rest.  Each fact about all finite sets is    *)
(* shown by a smallest counterexample.                                     *)
(***************************************************************************)
EXTENDS Integers, Functions, FiniteSetTheorems, TLAPS

(* g is the sum of f on the subsets of S, in any order. *)
IsSum(g, f, S) ==
    /\ g \in [SUBSET S -> Int]
    /\ g[{}] = 0
    /\ \A T \in SUBSET S : \A x \in T : g[T] = f[x] + g[T \ {x}]

(* h is the recursive function SumFunctionOnSet is defined by. *)
IsFold(h, f, S) ==
    h = [T \in SUBSET S |->
            IF T = {} THEN 0
            ELSE f[CHOOSE x \in T : TRUE] + h[T \ {CHOOSE x \in T : TRUE}]]

(* Of the subsets that lack something, one lacks it whose parts do not. *)
LEMMA SmallestCounterexample ==
    ASSUME NEW S, IsFiniteSet(S), NEW Bad, Bad \subseteq SUBSET S, Bad # {}
    PROVE  \E T \in Bad : \A x \in T : T \ {x} \notin Bad
<1>1. IsWellFoundedOn(StrictSubsetOrdering(S), SUBSET S)
  BY FS_StrictSubsetOrderingWellFounded, FS_FiniteSubsetsOfFinite
<1>2. PICK T \in Bad : \A U \in Bad : <<U, T>> \notin StrictSubsetOrdering(S)
  BY <1>1, WFMin
<1>3. ASSUME NEW x \in T, T \ {x} \in Bad PROVE FALSE
  <2>1. <<T \ {x}, T>> \in StrictSubsetOrdering(S)
    BY <1>3 DEF StrictSubsetOrdering
  <2> QED
    BY <1>2, <1>3, <2>1
<1> QED
  BY <1>3

(* A function that adds f up in any order: built by one element at a time. *)
LEMMA SumExists ==
    ASSUME NEW S, IsFiniteSet(S), NEW f, \A x \in S : f[x] \in Int
    PROVE  \E g : IsSum(g, f, S)
<1> DEFINE Bad == {T \in SUBSET S : ~ \E g : IsSum(g, f, T)}
<1>1. SUFFICES ASSUME Bad # {} PROVE FALSE
  <2>1. S \in SUBSET S
    OBVIOUS
  <2> QED
    BY <2>1
<1>2. PICK T \in Bad : \A x \in T : T \ {x} \notin Bad
  <2>1. Bad \subseteq SUBSET S
    OBVIOUS
  <2> HIDE DEF Bad
  <2> QED
    BY <1>1, <2>1, SmallestCounterexample
<1>3. T # {}
  <2>1. IsSum([U \in SUBSET {} |-> 0], f, {})
    BY DEF IsSum
  <2> QED
    BY <2>1
<1>4. PICK a \in T : TRUE
  BY <1>3
<1>5. PICK h : IsSum(h, f, T \ {a})
  BY <1>2, <1>4
<1> DEFINE g == [U \in SUBSET T |-> IF a \in U THEN f[a] + h[U \ {a}] ELSE h[U]]
<1>6. g \in [SUBSET T -> Int]
  <2>1. \A U \in SUBSET T : U \ {a} \in SUBSET (T \ {a})
    OBVIOUS
  <2>2. \A U \in SUBSET T : a \notin U => U \in SUBSET (T \ {a})
    OBVIOUS
  <2>3. f[a] \in Int
    BY <1>4
  <2> QED
    BY <1>5, <2>1, <2>2, <2>3 DEF IsSum
<1>7. g[{}] = 0
  BY <1>5 DEF IsSum
<1>8. ASSUME NEW U \in SUBSET T, NEW x \in U PROVE g[U] = f[x] + g[U \ {x}]
  <2>1. CASE x = a
    BY <2>1
  <2>2. CASE x # a /\ a \in U
    <3>1. U \ {a} \in SUBSET (T \ {a}) /\ x \in U \ {a}
      BY <2>2
    <3> DEFINE rest == (U \ {a}) \ {x}
    <3>2. h[U \ {a}] = f[x] + h[rest]
      BY <1>5, <3>1 DEF IsSum
    <3>3. rest = (U \ {x}) \ {a}
      OBVIOUS
    <3>4. f[a] \in Int /\ f[x] \in Int /\ h[rest] \in Int
      BY <1>5, <3>1 DEF IsSum
    <3> HIDE DEF rest
    <3>5. g[U] = f[a] + h[U \ {a}]
      BY <2>2
    <3>6. g[U \ {x}] = f[a] + h[rest]
      BY <2>2, <3>3
    <3> HIDE DEF g
    <3> QED
      BY <3>2, <3>4, <3>5, <3>6
  <2>3. CASE a \notin U
    <3>1. U \in SUBSET (T \ {a}) /\ a \notin U \ {x}
      BY <2>3
    <3> QED
      BY <1>5, <2>3, <3>1 DEF IsSum
  <2> QED
    BY <2>1, <2>2, <2>3
<1>9. IsSum(g, f, T)
  BY <1>6, <1>7, <1>8 DEF IsSum
<1> QED
  BY <1>2, <1>9

(* The recursive function agrees with it. *)
LEMMA SumIsUnique ==
    ASSUME NEW S, IsFiniteSet(S), NEW f, NEW g, IsSum(g, f, S), NEW h, IsFold(h, f, S)
    PROVE  h[S] = g[S]
<1> DEFINE Bad == {T \in SUBSET S : h[T] # g[T]}
<1> SUFFICES ASSUME Bad # {} PROVE FALSE
  OBVIOUS
<1>1. PICK T \in Bad : \A x \in T : T \ {x} \notin Bad
  <2>1. Bad \subseteq SUBSET S
    OBVIOUS
  <2> HIDE DEF Bad
  <2> QED
    BY <2>1, SmallestCounterexample
<1>2. T # {}
  <2>1. h[{}] = 0 /\ g[{}] = 0
    BY DEF IsFold, IsSum
  <2> QED
    BY <1>1, <2>1
<1> DEFINE c == CHOOSE x \in T : TRUE
<1>3. c \in T
  BY <1>2
<1>4. h[T] = f[c] + h[T \ {c}]
  BY <1>2 DEF IsFold
<1>5. h[T \ {c}] = g[T \ {c}]
  BY <1>1, <1>3
<1>6. g[T] = f[c] + g[T \ {c}]
  BY <1>3 DEF IsSum
<1> QED
  BY <1>1, <1>4, <1>5, <1>6

(* So SumFunctionOnSet is the sum in any order. *)
LEMMA SumValue ==
    ASSUME NEW S, IsFiniteSet(S), NEW f, NEW g, IsSum(g, f, S)
    PROVE  SumFunctionOnSet(f, S) = g[S]
<1> DEFINE iter == CHOOSE h : IsFold(h, f, S)
<1>1. SumFunctionOnSet(f, S) = iter[S]
  BY DEF SumFunctionOnSet, FoldFunctionOnSet, MapThenFoldSet, IsFold
<1>2. IsFold(g, f, S)
  <2>1. \A T \in SUBSET S : g[T] =
                  IF T = {} THEN 0
                  ELSE f[CHOOSE x \in T : TRUE] + g[T \ {CHOOSE x \in T : TRUE}]
    <3> TAKE T \in SUBSET S
    <3>1. CASE T = {}
      BY <3>1 DEF IsSum
    <3>2. CASE T # {}
      <4> DEFINE c == CHOOSE x \in T : TRUE
      <4>1. c \in T
        BY <3>2
      <4> HIDE DEF c
      <4>2. g[T] = f[c] + g[T \ {c}]
        BY <4>1 DEF IsSum
      <4> QED
        BY <3>2, <4>2 DEF c
    <3> QED
      BY <3>1, <3>2
  <2>2. g \in [SUBSET S -> Int]
    BY DEF IsSum
  <2> QED
    BY <2>1, <2>2 DEF IsFold
<1>3. IsFold(iter, f, S)
  BY <1>2
<1> HIDE DEF iter
<1>4. iter[S] = g[S]
  BY <1>3, SumIsUnique
<1> QED
  BY <1>1, <1>4

-----------------------------------------------------------------------------
(* What the sum is on a set, and how it changes. *)

LEMMA SumOfNothing == ASSUME NEW f PROVE SumFunctionOnSet(f, {}) = 0
<1>1. IsFiniteSet({})
  BY FS_EmptySet
<1>2. PICK g : IsSum(g, f, {})
  BY <1>1, SumExists
<1> QED
  BY <1>1, <1>2, SumValue DEF IsSum

(* Any element may be taken out first. *)
LEMMA SumSplits ==
    ASSUME NEW S, IsFiniteSet(S), NEW f, \A x \in S : f[x] \in Int, NEW a \in S
    PROVE  SumFunctionOnSet(f, S) = f[a] + SumFunctionOnSet(f, S \ {a})
<1>1. PICK g : IsSum(g, f, S)
  BY SumExists
<1> DEFINE h == [T \in SUBSET (S \ {a}) |-> g[T]]
<1>2. IsFiniteSet(S \ {a})
  BY FS_RemoveElement
<1>3. IsSum(h, f, S \ {a})
  <2>1. \A T \in SUBSET (S \ {a}) : T \in SUBSET S /\ \A x \in T : T \ {x} \in SUBSET (S \ {a})
    OBVIOUS
  <2> QED
    BY <1>1, <2>1 DEF IsSum
<1>4. h[S \ {a}] = g[S \ {a}]
  OBVIOUS
<1>5. SumFunctionOnSet(f, S) = g[S]
  BY <1>1, SumValue
<1>6. SumFunctionOnSet(f, S \ {a}) = h[S \ {a}]
  <2> HIDE DEF h
  <2> QED
    BY <1>2, <1>3, SumValue
<1>7. g[S] = f[a] + g[S \ {a}]
  BY <1>1 DEF IsSum
<1> QED
  BY <1>4, <1>5, <1>6, <1>7

LEMMA SumIsInt ==
    ASSUME NEW S, IsFiniteSet(S), NEW f, \A x \in S : f[x] \in Int
    PROVE  SumFunctionOnSet(f, S) \in Int
<1>1. PICK g : IsSum(g, f, S)
  BY SumExists
<1>2. g[S] \in Int
  BY <1>1 DEF IsSum
<1> QED
  BY <1>1, <1>2, SumValue

(* Two functions that agree on a set have one sum there. *)
LEMMA SumOfEquals ==
    ASSUME NEW S, IsFiniteSet(S), NEW f, NEW e,
           \A x \in S : f[x] \in Int, \A x \in S : f[x] = e[x]
    PROVE  SumFunctionOnSet(f, S) = SumFunctionOnSet(e, S)
<1>1. PICK g : IsSum(g, f, S)
  BY SumExists
<1>2. IsSum(g, e, S)
  BY <1>1 DEF IsSum
<1> QED
  BY <1>1, <1>2, SumValue

(* A change at one argument changes the sum by as much. *)
LEMMA SumOfChange ==
    ASSUME NEW S, IsFiniteSet(S), NEW f, NEW e, NEW a \in S, NEW d \in Int,
           \A x \in S : f[x] \in Int,
           \A x \in S \ {a} : e[x] = f[x], e[a] = f[a] + d
    PROVE  SumFunctionOnSet(e, S) = SumFunctionOnSet(f, S) + d
<1>1. SumFunctionOnSet(f, S) = f[a] + SumFunctionOnSet(f, S \ {a})
  BY SumSplits
<1>2. \A x \in S : e[x] \in Int
  OBVIOUS
<1>3. SumFunctionOnSet(e, S) = e[a] + SumFunctionOnSet(e, S \ {a})
  BY <1>2, SumSplits
<1>4. IsFiniteSet(S \ {a})
  BY FS_RemoveElement
<1>5. SumFunctionOnSet(f, S \ {a}) = SumFunctionOnSet(e, S \ {a})
  BY <1>4, SumOfEquals
<1>6. SumFunctionOnSet(f, S \ {a}) \in Int
  BY <1>4, SumIsInt
<1> QED
  BY <1>1, <1>3, <1>5, <1>6

(* No summand is more than the sum of naturals. *)
LEMMA SumOfNaturals ==
    ASSUME NEW S, IsFiniteSet(S), NEW f, \A x \in S : f[x] \in Nat
    PROVE  /\ SumFunctionOnSet(f, S) \in Nat
           /\ \A x \in S : f[x] <= SumFunctionOnSet(f, S)
<1>1. PICK g : IsSum(g, f, S)
  BY SumExists
<1> DEFINE Bad == {T \in SUBSET S : ~ g[T] >= 0}
<1>2. Bad = {}
  <2> SUFFICES ASSUME Bad # {} PROVE FALSE
    OBVIOUS
  <2>1. PICK T \in Bad : \A x \in T : T \ {x} \notin Bad
    <3>1. Bad \subseteq SUBSET S
      OBVIOUS
    <3> HIDE DEF Bad
    <3> QED
      BY <3>1, SmallestCounterexample
  <2>2. PICK a \in T : TRUE
    <3>1. g[{}] = 0
      BY <1>1 DEF IsSum
    <3>2. T # {}
      BY <2>1, <3>1
    <3> QED
      BY <3>2
  <2>3. g[T \ {a}] >= 0 /\ g[T \ {a}] \in Int
    BY <1>1, <2>1, <2>2 DEF IsSum
  <2>4. g[T] = f[a] + g[T \ {a}]
    BY <1>1, <2>1, <2>2 DEF IsSum
  <2> QED
    BY <2>1, <2>2, <2>3, <2>4
<1>3. SumFunctionOnSet(f, S) = g[S]
  BY <1>1, SumValue
<1>5. g[S] \in Nat
  BY <1>1, <1>2 DEF IsSum
<1>4. ASSUME NEW x \in S PROVE f[x] <= g[S]
  <2>1. g[S] = f[x] + g[S \ {x}]
    BY <1>1, <1>4 DEF IsSum
  <2>2. g[S \ {x}] >= 0 /\ g[S \ {x}] \in Int
    BY <1>1, <1>2 DEF IsSum
  <2> QED
    BY <2>1, <2>2, <1>5
<1> QED
  BY <1>3, <1>4, <1>5

(* Zeros add up to zero. *)
LEMMA SumOfZeros ==
    ASSUME NEW S, IsFiniteSet(S), NEW f, \A x \in S : f[x] = 0
    PROVE  SumFunctionOnSet(f, S) = 0
<1> DEFINE g == [T \in SUBSET S |-> 0]
<1>1. IsSum(g, f, S)
  BY DEF IsSum
<1>2. g[S] = 0
  OBVIOUS
<1> HIDE DEF g
<1> QED
  BY <1>1, <1>2, SumValue

(* What is zero outside P adds up on P. *)
LEMMA SumOfPart ==
    ASSUME NEW S, IsFiniteSet(S), NEW P \in SUBSET S, NEW f, \A x \in S : f[x] \in Int,
           \A x \in S \ P : f[x] = 0
    PROVE  SumFunctionOnSet(f, S) = SumFunctionOnSet(f, P)
<1>1. IsFiniteSet(P)
  BY FS_Subset
<1>2. PICK g : IsSum(g, f, P)
  BY <1>1, SumExists
<1> DEFINE k == [T \in SUBSET S |-> g[T \cap P]]
<1>3. IsSum(k, f, S)
  <2>1. k \in [SUBSET S -> Int] /\ k[{}] = 0
    <3>1. \A T \in SUBSET S : T \cap P \in SUBSET P
      OBVIOUS
    <3>2. {} \cap P = {} /\ {} \in SUBSET S
      OBVIOUS
    <3> QED
      BY <1>2, <3>1, <3>2 DEF IsSum
  <2>2. ASSUME NEW T \in SUBSET S, NEW x \in T PROVE k[T] = f[x] + k[T \ {x}]
    <3>1. k[T] = g[T \cap P] /\ k[T \ {x}] = g[(T \ {x}) \cap P]
      OBVIOUS
    <3>2. T \cap P \in SUBSET P /\ g[T \cap P] \in Int
      BY <1>2 DEF IsSum
    <3>3. CASE x \in P
      <4>1. x \in T \cap P /\ (T \ {x}) \cap P = (T \cap P) \ {x}
        BY <3>3
      <4>2. g[T \cap P] = f[x] + g[(T \cap P) \ {x}]
        BY <1>2, <3>2, <4>1 DEF IsSum
      <4> HIDE DEF k
      <4> QED
        BY <3>1, <4>1, <4>2
    <3>4. CASE x \notin P
      <4>1. f[x] = 0 /\ (T \ {x}) \cap P = T \cap P
        BY <3>4
      <4>2. k[T \ {x}] = g[T \cap P]
        BY <3>1, <4>1
      <4> HIDE DEF k
      <4> QED
        BY <3>1, <3>2, <4>1, <4>2
    <3> QED
      BY <3>3, <3>4
  <2> QED
    BY <2>1, <2>2 DEF IsSum
<1>4. k[S] = g[P]
  <2>1. S \cap P = P
    OBVIOUS
  <2> QED
    BY <2>1
<1> HIDE DEF k
<1> QED
  BY <1>1, <1>2, <1>3, <1>4, SumValue

(* Sums add up argument by argument. *)
LEMMA SumsAdd ==
    ASSUME NEW S, IsFiniteSet(S), NEW f, NEW e, NEW b,
           \A x \in S : f[x] \in Int /\ e[x] \in Int /\ b[x] = f[x] + e[x]
    PROVE  SumFunctionOnSet(b, S) = SumFunctionOnSet(f, S) + SumFunctionOnSet(e, S)
<1>1. PICK g : IsSum(g, f, S)
  BY SumExists
<1>2. PICK h : IsSum(h, e, S)
  BY SumExists
<1> DEFINE k == [T \in SUBSET S |-> g[T] + h[T]]
<1>3. IsSum(k, b, S)
  <2>1. k \in [SUBSET S -> Int] /\ k[{}] = 0
    BY <1>1, <1>2 DEF IsSum
  <2>2. ASSUME NEW T \in SUBSET S, NEW x \in T PROVE k[T] = b[x] + k[T \ {x}]
    <3>1. /\ g[T] = f[x] + g[T \ {x}] /\ g[T \ {x}] \in Int
          /\ h[T] = e[x] + h[T \ {x}] /\ h[T \ {x}] \in Int
      BY <1>1, <1>2 DEF IsSum
    <3>2. b[x] = f[x] + e[x] /\ f[x] \in Int /\ e[x] \in Int
      OBVIOUS
    <3>3. k[T] = g[T] + h[T] /\ k[T \ {x}] = g[T \ {x}] + h[T \ {x}]
      OBVIOUS
    <3> HIDE DEF k
    <3> QED
      BY <3>1, <3>2, <3>3
  <2> QED
    BY <2>1, <2>2 DEF IsSum
<1>4. k[S] = g[S] + h[S]
  OBVIOUS
<1> HIDE DEF k
<1> QED
  BY <1>1, <1>2, <1>3, <1>4, SumValue

-----------------------------------------------------------------------------
(* The same for the sum of a whole function. *)

LEMMA TotalType ==
    ASSUME NEW S, IsFiniteSet(S), NEW f \in [S -> Nat]
    PROVE  /\ SumFunction(f) \in Nat
           /\ \A x \in S : f[x] <= SumFunction(f)
BY SumOfNaturals DEF SumFunction

LEMMA TotalOfZeros ==
    ASSUME NEW S, IsFiniteSet(S)
    PROVE  SumFunction([x \in S |-> 0]) = 0
<1> DEFINE f == [x \in S |-> 0]
<1>1. DOMAIN f = S /\ \A x \in S : f[x] = 0
  OBVIOUS
<1> HIDE DEF f
<1> QED
  BY <1>1, SumOfZeros DEF SumFunction

LEMMA TotalOfChange ==
    ASSUME NEW S, IsFiniteSet(S), NEW f \in [S -> Nat], NEW e \in [S -> Nat],
           NEW a \in S, NEW d \in Int, e[a] = f[a] + d,
           \A x \in S \ {a} : e[x] = f[x]
    PROVE  SumFunction(e) = SumFunction(f) + d
<1>1. DOMAIN f = S /\ DOMAIN e = S /\ \A x \in S : f[x] \in Int
  OBVIOUS
<1>2. SumFunctionOnSet(e, S) = SumFunctionOnSet(f, S) + d
  BY <1>1, SumOfChange
<1> QED
  BY <1>1, <1>2 DEF SumFunction

(* What one function has more than another, nowhere less, is a sum too. *)
LEMMA TotalOfDifference ==
    ASSUME NEW S, IsFiniteSet(S), NEW f \in [S -> Nat], NEW e \in [S -> Nat],
           \A x \in S : e[x] <= f[x]
    PROVE  /\ SumFunction(f) - SumFunction(e) \in Nat
           /\ \A x \in S : f[x] - e[x] <= SumFunction(f) - SumFunction(e)
<1> DEFINE d == [x \in S |-> f[x] - e[x]]
<1>1. d \in [S -> Nat]
  OBVIOUS
<1>2. \A x \in S : d[x] = f[x] - e[x]
  OBVIOUS
<1> HIDE DEF d
<1>3. \A x \in S : e[x] \in Int /\ d[x] \in Int /\ f[x] = e[x] + d[x]
  BY <1>1, <1>2
<1>4. SumFunctionOnSet(f, S) = SumFunctionOnSet(e, S) + SumFunctionOnSet(d, S)
  BY <1>3, SumsAdd
<1>5. /\ SumFunction(f) = SumFunctionOnSet(f, S)
      /\ SumFunction(e) = SumFunctionOnSet(e, S)
      /\ SumFunction(d) = SumFunctionOnSet(d, S)
  BY <1>1 DEF SumFunction
<1>6. SumFunction(d) \in Nat /\ \A x \in S : d[x] <= SumFunction(d)
  BY <1>1, TotalType
<1>7. SumFunction(e) \in Nat
  BY TotalType
<1> QED
  BY <1>2, <1>4, <1>5, <1>6, <1>7
=============================================================================
