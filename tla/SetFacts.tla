------------------------------ MODULE SetFacts ------------------------------
(***************************************************************************)
(* What the community modules' operators on finite sets compute, for every *)
(* finite set.  The facts are proved by minimal counterexample: among the  *)
(* subsets of a finite set that a claim fails for there is a smallest one. *)
(***************************************************************************)
EXTENDS Integers, FiniteSetsExt, FiniteSetTheorems, WellFoundedInduction, TLAPS

\* A set of subsets of a finite set has a minimal member.
LEMMA MinimalSubset ==
    ASSUME NEW S, IsFiniteSet(S), NEW T, T \subseteq SUBSET S, T # {}
    PROVE  \E x \in T : \A y \in T : y \subseteq x => y = x
<1>1. IsWellFoundedOn(StrictSubsetOrdering(S), FiniteSubsetsOf(S))
  BY FS_StrictSubsetOrderingWellFounded
<1>2. T \subseteq FiniteSubsetsOf(S)
  BY FS_Subset DEF FiniteSubsetsOf
<1>3. \E x \in T : \A y \in T : ~ (<<y, x>> \in StrictSubsetOrdering(S))
  BY <1>1, <1>2, WFMin
<1> QED  BY <1>3 DEF StrictSubsetOrdering

-----------------------------------------------------------------------------
(* Sums: MapThenSumSet over a function *)

SumOver(A, S) == MapThenSumSet(LAMBDA x : A[x], S)

\* The element a fold over s takes first.
Pick(s) == CHOOSE x \in s : TRUE

\* The recursive function a sum over S evaluates.
IsSumOver(A, S, f) ==
    f = [s \in SUBSET S |->
            IF s = {} THEN 0 ELSE A[Pick(s)] + f[s \ {Pick(s)}]]

LEMMA SumIsChosen ==
    ASSUME NEW A, NEW S
    PROVE  SumOver(A, S) = (CHOOSE f : IsSumOver(A, S, f))[S]
BY DEF SumOver, IsSumOver, Pick, MapThenSumSet, MapThenFoldSet

LEMMA PickIsMember ==
    ASSUME NEW s, s # {}
    PROVE  Pick(s) \in s
BY DEF Pick

\* The functions of two sets agree where both are defined.
LEMMA SumFunctionsAgree ==
    ASSUME NEW A, NEW S, IsFiniteSet(S), NEW T \in SUBSET S, NEW f, NEW g,
           IsSumOver(A, S, f), IsSumOver(A, T, g)
    PROVE  \A s \in SUBSET T : f[s] = g[s]
<1> DEFINE Bad == {s \in SUBSET T : f[s] # g[s]}
<1>1. ASSUME Bad # {} PROVE FALSE
  <2>1. PICK s \in Bad : \A t \in Bad : t \subseteq s => t = s
    <3>1. Bad \subseteq SUBSET S /\ Bad # {}
      BY <1>1
    <3> HIDE DEF Bad
    <3> QED  BY <3>1, MinimalSubset
  <2>2. s \in SUBSET T /\ s \in SUBSET S /\ f[s] # g[s]
    OBVIOUS
  <2>3. CASE s = {}
    BY <2>2, <2>3 DEF IsSumOver
  <2>4. CASE s # {}
    <3>1. s \ {Pick(s)} \in SUBSET T /\ s \ {Pick(s)} # s
      BY <2>2, <2>4, PickIsMember
    <3>2. f[s \ {Pick(s)}] = g[s \ {Pick(s)}]
      BY <2>1, <3>1
    <3>3. f[s] = A[Pick(s)] + f[s \ {Pick(s)}]
      BY <2>2, <2>4 DEF IsSumOver
    <3>4. g[s] = A[Pick(s)] + g[s \ {Pick(s)}]
      BY <2>2, <2>4 DEF IsSumOver
    <3> QED  BY <2>2, <3>2, <3>3, <3>4
  <2> QED  BY <2>3, <2>4
<1> QED  BY <1>1

LEMMA SumFunctionExists ==
    ASSUME NEW A, NEW S, IsFiniteSet(S)
    PROVE  \E f : IsSumOver(A, S, f)
<1> DEFINE Bad == {t \in SUBSET S : ~ \E f : IsSumOver(A, t, f)}
<1>1. ASSUME Bad # {} PROVE FALSE
  <2>1. PICK t \in Bad : \A u \in Bad : u \subseteq t => u = t
    <3>1. Bad \subseteq SUBSET S
      OBVIOUS
    <3> HIDE DEF Bad
    <3> QED  BY <1>1, <3>1, MinimalSubset
  <2> DEFINE F(u) == CHOOSE f : IsSumOver(A, u, f)
             At(u) == IF u = {} THEN 0
                      ELSE A[Pick(u)] + F(u \ {Pick(u)})[u \ {Pick(u)}]
             V == [u \in SUBSET t |-> At(u)]
  <2>2. \A u \in SUBSET t : u # t => IsSumOver(A, u, F(u)) /\ IsFiniteSet(u)
    <3>1. \A u \in SUBSET t : u # t => (\E f : IsSumOver(A, u, f)) /\ u \in SUBSET S
      BY <2>1
    <3> QED  BY <3>1, FS_Subset
  <2>3. \A u \in SUBSET t : u # t => F(u)[u] = At(u)
    <3> SUFFICES ASSUME NEW u \in SUBSET t, u # t PROVE F(u)[u] = At(u)
      OBVIOUS
    <3>1. IsSumOver(A, u, F(u)) /\ IsFiniteSet(u)
      BY <2>2
    <3> HIDE DEF F
    <3>2. CASE u = {}
      BY <3>1, <3>2 DEF IsSumOver
    <3>3. CASE u # {}
      <4> DEFINE w == u \ {Pick(u)}
      <4>1. w \in SUBSET u /\ w \in SUBSET t /\ w # t
        BY <3>3, PickIsMember
      <4>2. IsSumOver(A, w, F(w))
        BY <2>2, <4>1
      <4>3. F(u)[w] = F(w)[w]
        <5> HIDE DEF w
        <5> QED  BY <3>1, <4>1, <4>2, SumFunctionsAgree
      <4>4. F(u)[u] = A[Pick(u)] + F(u)[w]
        BY <3>1, <3>3 DEF IsSumOver
      <4> QED  BY <3>3, <4>3, <4>4
    <3> QED  BY <3>2, <3>3
  <2>4. IsSumOver(A, t, V)
    <3>1. ASSUME NEW u \in SUBSET t
          PROVE  At(u) = IF u = {} THEN 0 ELSE A[Pick(u)] + V[u \ {Pick(u)}]
      <4>1. CASE u # {}
        <5>1. u \ {Pick(u)} \in SUBSET t /\ u \ {Pick(u)} # t
          BY <4>1, PickIsMember
        <5>2. V[u \ {Pick(u)}] = F(u \ {Pick(u)})[u \ {Pick(u)}]
          BY <2>3, <5>1
        <5> QED  BY <4>1, <5>2
      <4> QED  BY <4>1
    <3> HIDE DEF At
    <3> QED  BY <3>1 DEF IsSumOver
  <2> QED  BY <2>1, <2>4
<1> QED  BY <1>1

\* A sum takes out one element at a time.
LEMMA SumUnfolds ==
    ASSUME NEW A, NEW S, IsFiniteSet(S)
    PROVE  SumOver(A, S) = IF S = {} THEN 0
                           ELSE A[Pick(S)] + SumOver(A, S \ {Pick(S)})
<1> DEFINE f == CHOOSE g : IsSumOver(A, S, g)
           h == CHOOSE g : IsSumOver(A, S \ {Pick(S)}, g)
<1>1. IsSumOver(A, S, f)
  BY SumFunctionExists
<1>2. IsSumOver(A, S \ {Pick(S)}, h)
  BY SumFunctionExists, FS_RemoveElement
<1>3. SumOver(A, S) = f[S] /\ SumOver(A, S \ {Pick(S)}) = h[S \ {Pick(S)}]
  BY SumIsChosen
<1> HIDE DEF f, h
<1>4. f[S \ {Pick(S)}] = h[S \ {Pick(S)}]
  BY <1>1, <1>2, SumFunctionsAgree
<1>5. f[S] = IF S = {} THEN 0 ELSE A[Pick(S)] + f[S \ {Pick(S)}]
  BY <1>1 DEF IsSumOver
<1> QED  BY <1>3, <1>4, <1>5

LEMMA SumOfNothing ==
    ASSUME NEW A
    PROVE  SumOver(A, {}) = 0
BY SumUnfolds, FS_EmptySet

\* The order in which a sum takes the elements does not matter.
LEMMA SumTakesAnyElement ==
    ASSUME NEW A, NEW S, IsFiniteSet(S), \A x \in S : A[x] \in Int
    PROVE  /\ SumOver(A, S) \in Int
           /\ \A x \in S : SumOver(A, S) = A[x] + SumOver(A, S \ {x})
<1> DEFINE Good(t) == /\ SumOver(A, t) \in Int
                      /\ \A x \in t : SumOver(A, t) = A[x] + SumOver(A, t \ {x})
           Bad == {t \in SUBSET S : ~ Good(t)}
<1>1. ASSUME Bad # {} PROVE FALSE
  <2>1. PICK t \in Bad : \A u \in Bad : u \subseteq t => u = t
    <3>1. Bad \subseteq SUBSET S
      OBVIOUS
    <3> HIDE DEF Bad
    <3> QED  BY <1>1, <3>1, MinimalSubset
  <2>2. /\ t \in SUBSET S /\ IsFiniteSet(t)
        /\ \A u \in SUBSET t : u # t => Good(u)
    BY <2>1, FS_Subset
  <2>3. CASE t = {}
    BY <2>1, <2>3, SumOfNothing
  <2>4. CASE t # {}
    <3> DEFINE p == Pick(t)
    <3>1. p \in t /\ A[p] \in Int
      BY <2>2, <2>4, PickIsMember
    <3>2. SumOver(A, t) = A[p] + SumOver(A, t \ {p})
      BY <2>2, <2>4, SumUnfolds
    <3> HIDE DEF p
    <3>3. \A x \in t : SumOver(A, t \ {x}) \in Int /\ A[x] \in Int
      <4> SUFFICES ASSUME NEW x \in t PROVE Good(t \ {x}) /\ A[x] \in Int
        OBVIOUS
      <4>1. t \ {x} \in SUBSET t /\ t \ {x} # t
        OBVIOUS
      <4> QED  BY <2>2, <4>1
    <3>4. ASSUME NEW x \in t, x # p
          PROVE  SumOver(A, t) = A[x] + SumOver(A, t \ {x})
      <4> DEFINE rest == (t \ {p}) \ {x}
      <4>1. Good(t \ {p}) /\ Good(t \ {x}) /\ Good(rest)
        <5>1. /\ t \ {p} \in SUBSET t /\ t \ {p} # t
              /\ t \ {x} \in SUBSET t /\ t \ {x} # t
              /\ rest \in SUBSET t /\ rest # t
          BY <3>1
        <5> HIDE DEF Good
        <5> QED  BY <2>2, <5>1
      <4>2. SumOver(A, t \ {p}) = A[x] + SumOver(A, rest)
        BY <4>1, <3>4
      <4>3. SumOver(A, t \ {x}) = A[p] + SumOver(A, rest)
        <5>1. rest = (t \ {x}) \ {p} /\ p \in t \ {x}
          BY <3>1, <3>4
        <5> HIDE DEF rest
        <5> QED  BY <4>1, <5>1
      <4>4. SumOver(A, rest) \in Int
        BY <4>1
      <4> HIDE DEF Good, rest
      <4> QED  BY <3>1, <3>2, <3>3, <4>2, <4>3, <4>4
    <3>5. SumOver(A, t) \in Int
      BY <3>1, <3>2, <3>3
    <3>6. \A x \in t : SumOver(A, t) = A[x] + SumOver(A, t \ {x})
      BY <3>2, <3>4
    <3> QED  BY <2>1, <3>5, <3>6
  <2> QED  BY <2>3, <2>4
<1> QED
  <2>1. S \in SUBSET S
    OBVIOUS
  <2>2. Good(S)
    BY <1>1, <2>1
  <2> QED  BY <2>2

LEMMA SumGrows ==
    ASSUME NEW A, NEW S, IsFiniteSet(S), NEW x, x \notin S,
           \A y \in S \cup {x} : A[y] \in Int
    PROVE  SumOver(A, S \cup {x}) = SumOver(A, S) + A[x]
<1>1. IsFiniteSet(S \cup {x})
  BY FS_AddElement
<1>2. (S \cup {x}) \ {x} = S
  OBVIOUS
<1>3. \A y \in S \cup {x} : SumOver(A, S \cup {x}) = A[y] + SumOver(A, (S \cup {x}) \ {y})
  BY <1>1, SumTakesAnyElement
<1>4. SumOver(A, S) \in Int /\ A[x] \in Int
  BY SumTakesAnyElement
<1>5. SumOver(A, S \cup {x}) = A[x] + SumOver(A, S)
  BY <1>2, <1>3
<1> QED  BY <1>4, <1>5
-----------------------------------------------------------------------------
(* Sorting *)

\* R puts the elements of S in one order.
Orders(R, S) ==
    /\ \A x, y \in S : x # y => <<x, y>> \in R \/ <<y, x>> \in R
    /\ \A x \in S : <<x, x>> \notin R
    /\ \A x, y, z \in S : <<x, y>> \in R /\ <<y, z>> \in R => <<x, z>> \in R

Ascending(R, s) == \A k, l \in DOMAIN s : k < l => <<s[k], s[l]>> \in R

LEMMA LastExists ==
    ASSUME NEW R, NEW S, IsFiniteSet(S), S # {}, Orders(R, S)
    PROVE  \E m \in S : \A x \in S \ {m} : <<x, m>> \in R
<1> DEFINE IsLast(m, t) == m \in t /\ \A x \in t \ {m} : <<x, m>> \in R
           Bad == {t \in SUBSET S : t # {} /\ ~ \E m \in t : IsLast(m, t)}
<1>1. ASSUME Bad # {} PROVE FALSE
  <2>1. PICK t \in Bad : \A u \in Bad : u \subseteq t => u = t
    <3>1. Bad \subseteq SUBSET S
      OBVIOUS
    <3> HIDE DEF Bad
    <3> QED  BY <1>1, <3>1, MinimalSubset
  <2>2. t \in SUBSET S /\ ~ \E m \in t : IsLast(m, t)
    OBVIOUS
  <2>3. PICK x \in t : TRUE
    OBVIOUS
  <2> DEFINE rest == t \ {x}
  <2>4. CASE rest = {}
    <3>1. IsLast(x, t)
      BY <2>4
    <3> QED  BY <2>2, <3>1
  <2>5. CASE rest # {}
    <3>1. rest \in SUBSET S /\ rest # t /\ rest \subseteq t
      OBVIOUS
    <3>2. PICK m \in rest : IsLast(m, rest)
      BY <2>1, <2>5, <3>1
    <3>3. x # m /\ x \in S /\ m \in S /\ m \in t
      BY <2>2, <3>2
    <3>4. CASE <<x, m>> \in R
      <4>1. IsLast(m, t)
        BY <3>2, <3>3, <3>4
      <4> QED  BY <2>2, <3>3, <4>1
    <3>5. CASE <<m, x>> \in R
      <4>1. \A y \in t \ {x} : <<y, x>> \in R
        BY <2>2, <3>2, <3>3, <3>5 DEF Orders
      <4>2. IsLast(x, t)
        BY <4>1
      <4> QED  BY <2>2, <4>2
    <3> QED  BY <3>3, <3>4, <3>5 DEF Orders
  <2> QED  BY <2>4, <2>5
<1>2. S \in SUBSET S
  OBVIOUS
<1> QED  BY <1>1, <1>2

\* A set of numbers that are not negative has a least one.
LEMMA LeastExists ==
    ASSUME NEW T, T \subseteq Nat, T # {}
    PROVE  \E m \in T : \A n \in T : m <= n
<1>1. \E b \in T : TRUE
  OBVIOUS
<1>p. PICK b : b \in T
  BY <1>1
<1>b. b \in Nat
  BY <1>p
<1> DEFINE S == {n \in T : n <= b}
           R == {p \in Nat \X Nat : p[2] < p[1]}
<1>2. IsFiniteSet(S)
  <2>1. ASSUME NEW n \in S PROVE n \in 0..b
    <3>1. n \in Nat /\ n <= b
      OBVIOUS
    <3> QED  BY <1>b, <3>1
  <2>2. IsFiniteSet(0..b)
    <3>1. b \in Int /\ 0 \in Int
      BY <1>b
    <3> QED  BY <3>1, FS_Interval
  <2> QED  BY <2>1, <2>2, FS_Subset
<1>3. \A x, y \in S : <<x, y>> \in R <=> y < x
  OBVIOUS
<1>4. Orders(R, S)
  <2>1. S \subseteq Nat
    OBVIOUS
  <2> HIDE DEF S, R
  <2> QED  BY <1>3, <2>1 DEF Orders
<1>5. PICK m \in S : \A x \in S \ {m} : <<x, m>> \in R
  <2>1. S # {}
    BY <1>p, <1>b
  <2> HIDE DEF S, R
  <2> QED  BY <1>2, <1>4, <2>1, LastExists
<1>6. ASSUME NEW n \in T PROVE m <= n
  <2>1. m \in Nat /\ m <= b /\ n \in Nat
    BY <1>5
  <2>2. CASE n \in S /\ n # m
    <3>1. <<n, m>> \in R
      BY <1>5, <2>2
    <3>2. m < n
      BY <3>1
    <3> QED  BY <2>1, <3>2
  <2>3. CASE n = m
    BY <2>1, <2>3
  <2>4. CASE n \notin S
    BY <1>b, <2>1, <2>4
  <2> QED  BY <2>2, <2>3, <2>4
<1> QED  BY <1>5, <1>6

\* A finite set has a sequence of its elements in order ...
LEMMA AscendingExists ==
    ASSUME NEW R, NEW S, IsFiniteSet(S), Orders(R, S)
    PROVE  \E s \in [1..Cardinality(S) -> S] : Ascending(R, s)
<1> DEFINE Good(t) == \E s \in [1..Cardinality(t) -> t] : Ascending(R, s)
           Bad == {t \in SUBSET S : ~ Good(t)}
<1>1. ASSUME Bad # {} PROVE FALSE
  <2>1. PICK t \in Bad : \A u \in Bad : u \subseteq t => u = t
    <3>1. Bad \subseteq SUBSET S
      OBVIOUS
    <3> HIDE DEF Bad
    <3> QED  BY <1>1, <3>1, MinimalSubset
  <2>2. t \in SUBSET S /\ ~ Good(t)
    OBVIOUS
  <2>3. IsFiniteSet(t) /\ Orders(R, t)
    BY <2>2, FS_Subset DEF Orders
  <2>4. CASE t = {}
    <3>1. Cardinality(t) = 0 /\ 1..0 = {}
      BY <2>4, FS_EmptySet
    <3> DEFINE s == [k \in 1..0 |-> k]
    <3>2. s \in [1..Cardinality(t) -> t] /\ Ascending(R, s)
      BY <3>1 DEF Ascending
    <3> QED  BY <2>2, <3>2
  <2>5. CASE t # {}
    <3>1. PICK m \in t : \A x \in t \ {m} : <<x, m>> \in R
      BY <2>3, <2>5, LastExists
    <3> DEFINE rest == t \ {m}
               n == Cardinality(rest)
    <3>2. /\ IsFiniteSet(rest) /\ n \in Nat /\ Cardinality(t) = n + 1
      <4>1. IsFiniteSet(rest) /\ Cardinality(rest) = Cardinality(t) - 1
        BY <2>3, FS_RemoveElement
      <4>2. Cardinality(t) \in Nat /\ Cardinality(rest) \in Nat
        BY <2>3, <4>1, FS_CardinalityType
      <4> QED  BY <4>1, <4>2
    <3>3. rest \in SUBSET S /\ rest # t /\ rest \subseteq t
      BY <2>2
    <3>4. PICK s \in [1..n -> rest] : Ascending(R, s)
      BY <2>1, <3>3
    <3> HIDE DEF n
    <3> DEFINE longer == [k \in 1..(n + 1) |-> IF k = n + 1 THEN m ELSE s[k]]
    <3>5. longer \in [1..(n + 1) -> t]
      BY <3>2, <3>4
    <3>6. Ascending(R, longer)
      <4> SUFFICES ASSUME NEW k \in 1..(n + 1), NEW l \in 1..(n + 1), k < l
                   PROVE  <<longer[k], longer[l]>> \in R
        BY DEF Ascending
      <4>1. k \in 1..n /\ longer[k] = s[k] /\ s[k] \in rest
        BY <3>2, <3>4
      <4>2. CASE l = n + 1
        BY <3>1, <4>1, <4>2
      <4>3. CASE l # n + 1
        <5>1. l \in 1..n /\ longer[l] = s[l]
          BY <3>2, <4>3
        <5> QED  BY <3>4, <4>1, <5>1 DEF Ascending
      <4> QED  BY <4>2, <4>3
    <3>7. Good(t)
      <4> HIDE DEF longer
      <4> QED  BY <3>2, <3>5, <3>6
    <3> QED  BY <2>2, <3>7
  <2> QED  BY <2>4, <2>5
<1>2. S \in SUBSET S
  OBVIOUS
<1> QED  BY <1>1, <1>2

\* ... which has every element in one place.
Enumerates(s, S) ==
    /\ \A k, l \in DOMAIN s : s[k] = s[l] => k = l
    /\ \A x \in S : \E k \in DOMAIN s : s[k] = x

LEMMA AscendingIsComplete ==
    ASSUME NEW R, NEW S, IsFiniteSet(S), Orders(R, S),
           NEW s \in [1..Cardinality(S) -> S], Ascending(R, s)
    PROVE  Enumerates(s, S)
<1> DEFINE D == 1..Cardinality(S)
<1>1. Cardinality(S) \in Nat
  BY FS_CardinalityType
<1>2. \A k, l \in DOMAIN s : s[k] = s[l] => k = l
  <2> SUFFICES ASSUME NEW k \in D, NEW l \in D, k < l PROVE s[k] # s[l]
    BY <1>1
  <2> QED  BY DEF Ascending, Orders
<1>3. s \in Injection(D, S)
  BY <1>2 DEF Injection, IsInjective
<1>4. IsFiniteSet(D) /\ Cardinality(D) = Cardinality(S)
  BY <1>1, FS_Interval
<1>5. s \in Surjection(D, S)
  BY <1>3, <1>4, FS_Injection
<1> QED  BY <1>2, <1>5 DEF Surjection, Enumerates

=============================================================================
