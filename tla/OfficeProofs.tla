---------------------------- MODULE OfficeProofs ----------------------------
(* Proofs about the office, for any number of those who work in it: the       *)
(* pictures of the shop outlive the sweeps, the value of the goods follows    *)
(* the stock, the cheques of a partner keep to his ceiling, the books agree   *)
(* with the orders and the purchases, goods come back once, those who wait   *)
(* for goods are told, no rial of an order is lost, the tree of categories    *)
(* stays a tree, and the months of a tax return are those of the calendar     *)
(* where its formula is right.  Sums are folds, of which the library proves   *)
(* nothing: what is needed of them is proved first.                           *)
EXTENDS Media, Valuation, Cheques, Ledger, Purchasing, Returns, StockAlerts, Amounts,
        Catalogue, VatReturn, SequenceTheorems, FiniteSetTheorems, TLAPS

-----------------------------------------------------------------------------
(* Sums over finite sets, by induction on their size.                        *)

\* Induction, from what the library says of finite sets.
LEMMA SetInduction ==
  ASSUME NEW T \in SUBSET Nat, 0 \in T, \A n \in T : n + 1 \in T
  PROVE  T = Nat
<1> SUFFICES ASSUME NEW x \in Nat, x \notin T PROVE FALSE
  OBVIOUS
<1> DEFINE A == (0 .. x) \cap T
           f == [i \in A |-> i + 1]
<1>1. IsFiniteSet(0 .. x)
  BY FS_Interval
<1>2. IsFiniteSet(A)
  BY <1>1, FS_Subset
<1>3. \A i \in A : i + 1 \in A
  OBVIOUS
<1>4. f \in Injection(A, A)
  BY <1>3 DEF Injection, IsInjective
<1>5. f \in Surjection(A, A)
  BY <1>2, <1>4, FS_Injection
<1>6. 0 \in A
  OBVIOUS
<1>7. PICK i \in A : f[i] = 0
  BY <1>5, <1>6 DEF Surjection
<1> QED
  BY <1>7

-----------------------------------------------------------------------------
(* Sums.                                                                      *)

Any(s) == CHOOSE x \in s : TRUE

\* One step of the recursion, and the function that takes it everywhere.
SumStep(f, it, s) == IF s = {} THEN 0 ELSE f[Any(s)] + it[s \ {Any(s)}]

Adds(f, S, it) == it = [s \in SUBSET S |-> SumStep(f, it, s)]

AddsIntegers(f, S, it) ==
  Adds(f, S, it) /\ it \in [SUBSET S -> Int] /\ \A x \in S : f[x] \in Int

\* The fold of the community modules, unfolded to the choice it makes.
LEMMA SumIsChosen ==
  ASSUME NEW f, NEW S
  PROVE  SumFunctionOnSet(f, S) = (CHOOSE it : Adds(f, S, it))[S]
BY DEF SumFunctionOnSet, FoldFunctionOnSet, MapThenFoldSet, Adds, SumStep, Any

\* The term a fold takes next is one of those left.
LEMMA AnyIsIn ==
  ASSUME NEW s, s # {}
  PROVE  Any(s) \in s
BY DEF Any

\* The subsets with n elements at most.
Small(S, n) == {s \in SUBSET S : Cardinality(s) <= n}

\* Partial sums exist over the sets of at most n terms, by induction on n.
LEMMA SumsUpTo ==
  ASSUME NEW S, IsFiniteSet(S), NEW f, \A x \in S : f[x] \in Int, NEW n \in Nat
  PROVE  \E it \in [Small(S, n) -> Int] :
           \A s \in Small(S, n) : it[s] = SumStep(f, it, s)
<1> DEFINE K(m) == {s \in SUBSET S : Cardinality(s) <= m}
           Good(m) == \E it \in [K(m) -> Int] : \A s \in K(m) : it[s] = SumStep(f, it, s)
           T == {m \in Nat : Good(m)}
<1>1. \A s \in SUBSET S : /\ IsFiniteSet(s) /\ Cardinality(s) \in Nat
                          /\ Cardinality(s) = 0 <=> s = {}
                          /\ \A x \in s : Cardinality(s \ {x}) = Cardinality(s) - 1
  BY FS_Subset, FS_CardinalityType, FS_EmptySet, FS_RemoveElement
<1>2. 0 \in T
  <2> DEFINE it == [s \in K(0) |-> 0]
  <2>1. it \in [K(0) -> Int]
    OBVIOUS
  <2>2. \A s \in K(0) : it[s] = SumStep(f, it, s)
    BY <1>1 DEF SumStep
  <2> QED
    BY <2>1, <2>2
<1>3. ASSUME NEW m \in T PROVE m + 1 \in T
  <2>1. PICK it \in [K(m) -> Int] : \A s \in K(m) : it[s] = SumStep(f, it, s)
    OBVIOUS
  <2> DEFINE jt == [s \in K(m + 1) |-> SumStep(f, it, s)]
  <2>2. ASSUME NEW s \in K(m + 1), s # {}
        PROVE  Any(s) \in S /\ s \ {Any(s)} \in K(m) /\ s \ {Any(s)} \in K(m + 1)
    <3>1. Any(s) \in s
      BY <2>2, AnyIsIn
    <3>2. Cardinality(s \ {Any(s)}) = Cardinality(s) - 1 /\ Cardinality(s) \in Nat
      BY <1>1, <3>1
    <3> QED
      BY <3>1, <3>2
  <2>3. jt \in [K(m + 1) -> Int]
    <3> SUFFICES ASSUME NEW s \in K(m + 1) PROVE SumStep(f, it, s) \in Int
      OBVIOUS
    <3>1. CASE s = {}
      BY <3>1 DEF SumStep
    <3>2. CASE s # {}
      <4>1. f[Any(s)] \in Int /\ it[s \ {Any(s)}] \in Int
        BY <2>2, <3>2
      <4> QED
        BY <3>2, <4>1 DEF SumStep
    <3> QED
      BY <3>1, <3>2
  <2>4. \A s \in K(m) : s \in K(m + 1) /\ jt[s] = it[s]
    BY <1>1, <2>1
  <2>5. \A s \in K(m + 1) : jt[s] = SumStep(f, jt, s)
    BY <2>2, <2>4 DEF SumStep
  <2> HIDE DEF jt
  <2>6. Good(m + 1)
    BY <2>3, <2>5
  <2>7. m + 1 \in Nat
    OBVIOUS
  <2> HIDE DEF Good
  <2> QED
    BY <2>6, <2>7
<1>4. T = Nat
  <2> HIDE DEF T
  <2>1. T \in SUBSET Nat
    BY DEF T
  <2> QED
    BY <1>2, <1>3, <2>1, SetInduction
<1>5. Good(n)
  BY <1>4
<1> QED
  BY <1>5 DEF Small

\* The partial sums that the fold chooses exist.
LEMMA SumExists ==
  ASSUME NEW S, IsFiniteSet(S), NEW f, \A x \in S : f[x] \in Int
  PROVE  \E it : Adds(f, S, it) /\ it \in [SUBSET S -> Int]
<1>1. Cardinality(S) \in Nat
  BY FS_CardinalityType
<1>2. Small(S, Cardinality(S)) = SUBSET S
  BY FS_Subset DEF Small
<1>3. PICK it \in [Small(S, Cardinality(S)) -> Int] :
        \A s \in Small(S, Cardinality(S)) : it[s] = SumStep(f, it, s)
  BY <1>1, SumsUpTo
<1> QED
  BY <1>2, <1>3 DEF Adds

\* Two of them agree where their functions do.
LEMMA SumsAgree ==
  ASSUME NEW S, NEW T, NEW f, NEW g, NEW it, NEW jt, IsFiniteSet(S), IsFiniteSet(T),
         Adds(f, S, it), Adds(g, T, jt), NEW U \in SUBSET (S \cap T),
         \A x \in U : f[x] = g[x]
  PROVE  it[U] = jt[U]
<1> DEFINE Same(m) == \A s \in SUBSET U : Cardinality(s) <= m => it[s] = jt[s]
           N == {m \in Nat : Same(m)}
<1>1. \A s \in SUBSET U : /\ IsFiniteSet(s) /\ Cardinality(s) \in Nat
                          /\ Cardinality(s) = 0 <=> s = {}
                          /\ \A x \in s : Cardinality(s \ {x}) = Cardinality(s) - 1
  BY FS_Subset, FS_CardinalityType, FS_EmptySet, FS_RemoveElement
<1>2. \A s \in SUBSET U : it[s] = SumStep(f, it, s) /\ jt[s] = SumStep(g, jt, s)
  BY DEF Adds
<1>3. 0 \in N
  <2> SUFFICES ASSUME NEW s \in SUBSET U, Cardinality(s) <= 0 PROVE it[s] = jt[s]
    OBVIOUS
  <2>1. s = {}
    BY <1>1
  <2> QED
    BY <1>2, <2>1 DEF SumStep
<1>4. ASSUME NEW m \in N PROVE m + 1 \in N
  <2> SUFFICES ASSUME NEW s \in SUBSET U, Cardinality(s) <= m + 1 PROVE it[s] = jt[s]
    OBVIOUS
  <2>1. CASE s = {}
    BY <1>2, <2>1 DEF SumStep
  <2>2. CASE s # {}
    <3>1. Any(s) \in s
      BY <2>2, AnyIsIn
    <3>2. s \ {Any(s)} \in SUBSET U /\ Cardinality(s \ {Any(s)}) <= m
      BY <1>1, <3>1
    <3>3. it[s \ {Any(s)}] = jt[s \ {Any(s)}] /\ f[Any(s)] = g[Any(s)]
      BY <3>1, <3>2
    <3> QED
      BY <1>2, <2>2, <3>3 DEF SumStep
  <2> QED
    BY <2>1, <2>2
<1>5. N = Nat
  <2> HIDE DEF N
  <2>1. N \in SUBSET Nat
    BY DEF N
  <2> QED
    BY <1>3, <1>4, <2>1, SetInduction
<1>6. Same(Cardinality(U)) /\ Cardinality(U) \in Nat
  BY <1>1, <1>5
<1> QED
  BY <1>6

\* In whatever order they are taken.
LEMMA SumTakesAny ==
  ASSUME NEW S, NEW f, NEW it, NEW z, IsFiniteSet(S), AddsIntegers(f, S, it), z \in S
  PROVE  it[S] = f[z] + it[S \ {z}]
<1> USE DEF AddsIntegers
<1> DEFINE NoMoreThan(m) == \A s \in SUBSET S : Cardinality(s) <= m
                        => \A x \in s : it[s] = f[x] + it[s \ {x}]
           N == {m \in Nat : NoMoreThan(m)}
<1>1. \A s \in SUBSET S : /\ IsFiniteSet(s) /\ Cardinality(s) \in Nat
                          /\ Cardinality(s) = 0 <=> s = {}
                          /\ \A x \in s : Cardinality(s \ {x}) = Cardinality(s) - 1
  BY FS_Subset, FS_CardinalityType, FS_EmptySet, FS_RemoveElement
<1>2. \A s \in SUBSET S : s # {} => it[s] = f[Any(s)] + it[s \ {Any(s)}] /\ Any(s) \in s
  BY AnyIsIn DEF Adds, SumStep
<1>3. 0 \in N
  BY <1>1
<1>4. ASSUME NEW m \in N PROVE m + 1 \in N
  <2> SUFFICES ASSUME NEW s \in SUBSET S, Cardinality(s) <= m + 1, NEW x \in s
               PROVE  it[s] = f[x] + it[s \ {x}]
    OBVIOUS
  <2> DEFINE y == Any(s)
  <2>1. y \in s /\ it[s] = f[y] + it[s \ {y}]
    BY <1>2
  <2>2. CASE y = x
    BY <2>1, <2>2
  <2>3. CASE y # x
    <3>1. /\ s \ {x} \in SUBSET S /\ Cardinality(s \ {x}) <= m /\ y \in s \ {x}
          /\ s \ {y} \in SUBSET S /\ Cardinality(s \ {y}) <= m /\ x \in s \ {y}
      BY <1>1, <2>1, <2>3
    <3>2. it[s \ {x}] = f[y] + it[(s \ {x}) \ {y}] /\
            it[s \ {y}] = f[x] + it[(s \ {y}) \ {x}]
      BY <3>1
    <3>3. (s \ {x}) \ {y} = (s \ {y}) \ {x} /\ (s \ {x}) \ {y} \in SUBSET S
      OBVIOUS
    <3>4. f[x] \in Int /\ f[y] \in Int /\ it[(s \ {x}) \ {y}] \in Int
      BY <2>1, <3>3
    <3> HIDE DEF y
    <3>5. it[s \ {y}] = f[x] + it[(s \ {x}) \ {y}]
      BY <3>2, <3>3
    <3>6. it[s] = f[y] + (f[x] + it[(s \ {x}) \ {y}]) /\
            it[s \ {x}] = f[y] + it[(s \ {x}) \ {y}]
      BY <2>1, <3>2, <3>5
    <3> QED
      BY <3>4, <3>6
  <2> QED
    BY <2>2, <2>3
<1>5. N = Nat
  <2> HIDE DEF N
  <2>1. N \in SUBSET Nat
    BY DEF N
  <2> QED
    BY <1>3, <1>4, <2>1, SetInduction
<1>6. NoMoreThan(Cardinality(S)) /\ Cardinality(S) \in Nat
  BY <1>1, <1>5
<1> QED
  BY <1>6

-----------------------------------------------------------------------------
\* What the sum over a set is.
LEMMA SumType ==
  ASSUME NEW S, IsFiniteSet(S), NEW f, \A x \in S : f[x] \in Int
  PROVE  SumFunctionOnSet(f, S) \in Int
<1> DEFINE it == CHOOSE i : Adds(f, S, i)
<1>1. PICK jt : Adds(f, S, jt) /\ jt \in [SUBSET S -> Int]
  BY SumExists
<1>2. Adds(f, S, it)
  BY <1>1
<1> HIDE DEF it
<1>3. it[S] = jt[S]
  BY <1>1, <1>2, SumsAgree
<1> QED
  BY <1>1, <1>3, SumIsChosen DEF it

\* A sum of nothing is nothing.
LEMMA SumEmpty ==
  ASSUME NEW f
  PROVE  SumFunctionOnSet(f, {}) = 0
<1> DEFINE it == CHOOSE i : Adds(f, {}, i)
<1>1. IsFiniteSet({}) /\ \A x \in {} : f[x] \in Int
  BY FS_EmptySet
<1>2. \E i : Adds(f, {}, i)
  BY <1>1, SumExists
<1>3. Adds(f, {}, it)
  BY <1>2
<1> HIDE DEF it
<1>4. it[{}] = 0
  BY <1>3 DEF Adds, SumStep
<1> QED
  BY <1>4, SumIsChosen DEF it

\* Sums of equal terms are equal.
LEMMA SumSame ==
  ASSUME NEW S, IsFiniteSet(S), NEW f, NEW g, \A x \in S : f[x] \in Int /\ f[x] = g[x]
  PROVE  SumFunctionOnSet(f, S) = SumFunctionOnSet(g, S)
<1> DEFINE it == CHOOSE i : Adds(f, S, i)
           jt == CHOOSE i : Adds(g, S, i)
<1>1. Adds(f, S, it)
  BY SumExists
<1>2. Adds(g, S, jt)
  <2>1. \A x \in S : g[x] \in Int
    OBVIOUS
  <2>2. \E i : Adds(g, S, i)
    BY <2>1, SumExists
  <2> QED
    BY <2>2
<1> HIDE DEF it, jt
<1>3. it[S] = jt[S]
  BY <1>1, <1>2, SumsAgree
<1> QED
  BY <1>3, SumIsChosen DEF it, jt

\* Any term can be taken out of a sum.
LEMMA SumSplits ==
  ASSUME NEW S, IsFiniteSet(S), NEW f, \A x \in S : f[x] \in Int, NEW z \in S
  PROVE  SumFunctionOnSet(f, S) = f[z] + SumFunctionOnSet(f, S \ {z})
<1> DEFINE R == S \ {z}
           it == CHOOSE i : Adds(f, S, i)
           jt == CHOOSE i : Adds(f, R, i)
<1>1. IsFiniteSet(R) /\ \A x \in R : f[x] \in Int
  BY FS_Subset
<1>2. PICK kt : Adds(f, S, kt) /\ kt \in [SUBSET S -> Int]
  BY SumExists
<1>3. Adds(f, S, it)
  BY <1>2
<1>4. Adds(f, R, jt)
  <2>1. \E i : Adds(f, R, i)
    BY <1>1, SumExists
  <2> QED
    BY <2>1
<1>5. SumFunctionOnSet(f, S) = it[S] /\ SumFunctionOnSet(f, R) = jt[R]
  BY SumIsChosen
<1> HIDE DEF it, jt
<1>6. it[S] = kt[S]
  BY <1>2, <1>3, SumsAgree
<1>7. jt[R] = kt[R]
  BY <1>1, <1>2, <1>4, SumsAgree
<1>8. kt[S] = f[z] + kt[S \ {z}]
  <2>1. AddsIntegers(f, S, kt)
    BY <1>2 DEF AddsIntegers
  <2> QED
    BY <2>1, SumTakesAny
<1> QED
  BY <1>5, <1>6, <1>7, <1>8
\* One term is added to a sum.
LEMMA SumGrows ==
  ASSUME NEW S, IsFiniteSet(S), NEW z, z \notin S, NEW f,
           \A x \in S \cup {z} : f[x] \in Int
  PROVE  SumFunctionOnSet(f, S \cup {z}) = f[z] + SumFunctionOnSet(f, S)
<1>1. IsFiniteSet(S \cup {z})
  BY FS_AddElement
<1>2. (S \cup {z}) \ {z} = S
  OBVIOUS
<1>3. SumFunctionOnSet(f, S \cup {z}) = f[z] + SumFunctionOnSet(f, (S \cup {z}) \ {z})
  BY <1>1, SumSplits
<1> QED
  BY <1>2, <1>3

\* One term of a sum changes.
LEMMA SumUpdate ==
  ASSUME NEW S, IsFiniteSet(S), NEW f, NEW g, NEW z \in S,
         \A x \in S : f[x] \in Int /\ g[x] \in Int, \A x \in S \ {z} : f[x] = g[x]
  PROVE  SumFunctionOnSet(g, S) = SumFunctionOnSet(f, S) - f[z] + g[z]
<1>1. IsFiniteSet(S \ {z})
  BY FS_RemoveElement
<1>2. SumFunctionOnSet(f, S) = f[z] + SumFunctionOnSet(f, S \ {z})
  BY SumSplits
<1>3. SumFunctionOnSet(g, S) = g[z] + SumFunctionOnSet(g, S \ {z})
  BY SumSplits
<1>4. SumFunctionOnSet(f, S \ {z}) = SumFunctionOnSet(g, S \ {z})
  BY <1>1, SumSame
<1>5. SumFunctionOnSet(f, S \ {z}) \in Int
  BY <1>1, SumType
<1> QED
  BY <1>2, <1>3, <1>4, <1>5

\* What holds of the empty set and of a set with one more element holds of all of them:
\* induction over the subsets of a finite set, of which Good has some.
LEMMA SubsetInduction ==
  ASSUME NEW S, IsFiniteSet(S), NEW Good \in SUBSET SUBSET S, {} \in Good,
         \A s \in Good : \A x \in S \ s : s \cup {x} \in Good
  PROVE  Good = SUBSET S
<1> DEFINE All(m) == \A s \in SUBSET S : Cardinality(s) <= m => s \in Good
           N == {m \in Nat : All(m)}
<1>1. \A s \in SUBSET S : /\ IsFiniteSet(s) /\ Cardinality(s) \in Nat
                          /\ Cardinality(s) = 0 <=> s = {}
                          /\ \A x \in s : Cardinality(s \ {x}) = Cardinality(s) - 1
  BY FS_Subset, FS_CardinalityType, FS_EmptySet, FS_RemoveElement
<1>2. 0 \in N
  BY <1>1
<1>3. ASSUME NEW m \in N PROVE m + 1 \in N
  <2> SUFFICES ASSUME NEW s \in SUBSET S, Cardinality(s) <= m + 1 PROVE s \in Good
    OBVIOUS
  <2>1. CASE s = {}
    BY <2>1
  <2>2. CASE s # {}
    <3>1. PICK x \in s : TRUE
      BY <2>2
    <3>2. s \ {x} \in SUBSET S /\ Cardinality(s \ {x}) <= m
      BY <1>1
    <3>3. s \ {x} \in Good /\ x \in S \ (s \ {x})
      BY <3>2
    <3>4. (s \ {x}) \cup {x} = s
      OBVIOUS
    <3> QED
      BY <3>3, <3>4
  <2> QED
    BY <2>1, <2>2
<1>4. N = Nat
  <2> HIDE DEF N
  <2>1. N \in SUBSET Nat
    BY DEF N
  <2> QED
    BY <1>2, <1>3, <2>1, SetInduction
<1> QED
  BY <1>1, <1>4

\* A sum of natural numbers.
LEMMA SumNat ==
  ASSUME NEW S, IsFiniteSet(S), NEW f, \A x \in S : f[x] \in Nat
  PROVE  SumFunctionOnSet(f, S) \in Nat
<1> DEFINE Good == {s \in SUBSET S : SumFunctionOnSet(f, s) \in Nat}
<1>1. {} \in Good
  BY SumEmpty
<1>2. ASSUME NEW s \in Good, NEW x \in S \ s PROVE s \cup {x} \in Good
  <2>1. IsFiniteSet(s) /\ \A y \in s \cup {x} : f[y] \in Int
    BY FS_Subset
  <2>2. SumFunctionOnSet(f, s \cup {x}) = f[x] + SumFunctionOnSet(f, s)
    BY <2>1, SumGrows
  <2> QED
    BY <2>2
<1> HIDE DEF Good
<1>3. Good \in SUBSET SUBSET S
  BY DEF Good
<1>4. Good = SUBSET S
  BY <1>1, <1>2, <1>3, SubsetInduction
<1> QED
  BY <1>4 DEF Good

\* A sum of zeros.
LEMMA SumOfZeros ==
  ASSUME NEW S, IsFiniteSet(S), NEW f, \A x \in S : f[x] = 0
  PROVE  SumFunctionOnSet(f, S) = 0
<1> DEFINE Good == {s \in SUBSET S : SumFunctionOnSet(f, s) = 0}
<1>1. {} \in Good
  BY SumEmpty
<1>2. ASSUME NEW s \in Good, NEW x \in S \ s PROVE s \cup {x} \in Good
  <2>1. IsFiniteSet(s) /\ \A y \in s \cup {x} : f[y] \in Int
    BY FS_Subset
  <2>2. SumFunctionOnSet(f, s \cup {x}) = f[x] + SumFunctionOnSet(f, s)
    BY <2>1, SumGrows
  <2> QED
    BY <2>2
<1> HIDE DEF Good
<1>3. Good \in SUBSET SUBSET S
  BY DEF Good
<1>4. Good = SUBSET S
  BY <1>1, <1>2, <1>3, SubsetInduction
<1> QED
  BY <1>4 DEF Good

\* A sum of terms none of which exceeds a bound.
LEMMA SumWithin ==
  ASSUME NEW S, IsFiniteSet(S), NEW f, NEW L \in Nat, \A x \in S : f[x] \in 0 .. L
  PROVE  SumFunctionOnSet(f, S) <= Cardinality(S) * L
<1> DEFINE Good == {s \in SUBSET S : SumFunctionOnSet(f, s) <= Cardinality(s) * L}
<1>1. {} \in Good
  BY SumEmpty, FS_EmptySet
<1>2. ASSUME NEW s \in Good, NEW x \in S \ s PROVE s \cup {x} \in Good
  <2>1. IsFiniteSet(s) /\ \A y \in s \cup {x} : f[y] \in Int
    BY FS_Subset
  <2>2. SumFunctionOnSet(f, s \cup {x}) = f[x] + SumFunctionOnSet(f, s)
    BY <2>1, SumGrows
  <2>3. Cardinality(s \cup {x}) = Cardinality(s) + 1 /\ Cardinality(s) \in Nat
    BY <2>1, FS_AddElement, FS_CardinalityType
  <2>4. SumFunctionOnSet(f, s) \in Int
    BY <2>1, SumType
  <2>5. (Cardinality(s) + 1) * L = Cardinality(s) * L + L /\ Cardinality(s) * L \in Nat
    BY <2>3
  <2> QED
    BY <2>2, <2>3, <2>4, <2>5
<1> HIDE DEF Good
<1>3. Good \in SUBSET SUBSET S
  BY DEF Good
<1>4. Good = SUBSET S
  BY <1>1, <1>2, <1>3, SubsetInduction
<1>5. S \in Good
  BY <1>4
<1> QED
  BY <1>5 DEF Good

\* A part of what is not negative sums up to no more than the whole.
LEMMA SumShrinks ==
  ASSUME NEW S, IsFiniteSet(S), NEW T \in SUBSET S, NEW f, \A x \in S : f[x] \in Nat
  PROVE  SumFunctionOnSet(f, T) <= SumFunctionOnSet(f, S)
<1> DEFINE Good == {s \in SUBSET S : SumFunctionOnSet(f,
             s \cap T) <= SumFunctionOnSet(f, s)}
<1>1. {} \in Good
  <2>1. {} \cap T = {}
    OBVIOUS
  <2> QED
    BY <2>1, SumEmpty
<1>2. ASSUME NEW s \in Good, NEW x \in S \ s PROVE s \cup {x} \in Good
  <2>1. IsFiniteSet(s) /\ IsFiniteSet(s \cap T) /\ \A y \in s \cup {x} : f[y] \in Int
    BY FS_Subset
  <2>2. SumFunctionOnSet(f, s \cup {x}) = f[x] + SumFunctionOnSet(f, s)
    BY <2>1, SumGrows
  <2>3. SumFunctionOnSet(f, s) \in Int /\ SumFunctionOnSet(f, s \cap T) \in Int
    BY <2>1, SumType
  <2>4. SumFunctionOnSet(f, s \cap T) <= SumFunctionOnSet(f, s) /\ f[x] \in Nat
    OBVIOUS
  <2>5. SumFunctionOnSet(f, (s \cup {x}) \cap T) <= SumFunctionOnSet(f, s \cup {x})
    <3>1. CASE x \in T
      <4>1. (s \cup {x}) \cap T = (s \cap T) \cup {x} /\ x \notin s \cap T
        BY <3>1
      <4>2. SumFunctionOnSet(f, (s \cap T) \cup {x}) = f[x] + SumFunctionOnSet(f,
              s \cap T)
        BY <2>1, <4>1, SumGrows
      <4>3. SumFunctionOnSet(f, (s \cup {x}) \cap T) = f[x] + SumFunctionOnSet(f,
              s \cap T)
        BY <4>1, <4>2, Zenon
      <4> QED
        BY <2>2, <2>3, <2>4, <4>3
    <3>2. CASE x \notin T
      <4>1. (s \cup {x}) \cap T = s \cap T
        BY <3>2
      <4> QED
        BY <2>2, <2>3, <2>4, <4>1
    <3> QED
      BY <3>1, <3>2
  <2> QED
    BY <2>5
<1> HIDE DEF Good
<1>3. Good \in SUBSET SUBSET S
  BY DEF Good
<1>4. Good = SUBSET S
  BY <1>1, <1>2, <1>3, SubsetInduction
<1>5. S \in Good /\ S \cap T = T
  BY <1>4
<1> QED
  BY <1>5 DEF Good

\* Terms that are in a ratio sum up in this ratio.
LEMMA SumScaled ==
  ASSUME NEW S, IsFiniteSet(S), NEW f, NEW g, NEW j \in Nat, NEW k \in Nat,
         \A x \in S : f[x] \in Int /\ g[x] \in Int /\ j * f[x] <= k * g[x]
  PROVE  j * SumFunctionOnSet(f, S) <= k * SumFunctionOnSet(g, S)
<1> DEFINE Good == {s \in SUBSET S : j * SumFunctionOnSet(f,
             s) <= k * SumFunctionOnSet(g, s)}
<1>1. {} \in Good
  BY SumEmpty
<1>2. ASSUME NEW s \in Good, NEW x \in S \ s PROVE s \cup {x} \in Good
  <2>1. IsFiniteSet(s) /\ \A y \in s \cup {x} : f[y] \in Int /\ g[y] \in Int
    BY FS_Subset
  <2>2. /\ SumFunctionOnSet(f, s \cup {x}) = f[x] + SumFunctionOnSet(f, s)
        /\ SumFunctionOnSet(g, s \cup {x}) = g[x] + SumFunctionOnSet(g, s)
    BY <2>1, SumGrows
  <2>3. SumFunctionOnSet(f, s) \in Int /\ SumFunctionOnSet(g, s) \in Int
    BY <2>1, SumType
  <2>4. \A m, n \in Int : j * (m + n) = j * m + j * n /\ k * (m + n) = k * m + k * n
    OBVIOUS
  <2>5. /\ j * SumFunctionOnSet(f, s \cup {x}) = j * f[x] + j * SumFunctionOnSet(f, s)
        /\ k * SumFunctionOnSet(g, s \cup {x}) = k * g[x] + k * SumFunctionOnSet(g, s)
    BY <2>1, <2>2, <2>3, <2>4
  <2>6. j * SumFunctionOnSet(f, s \cup {x}) <= k * SumFunctionOnSet(g, s \cup {x})
    <3>1. j * f[x] <= k * g[x] /\ j * SumFunctionOnSet(f, s) <= k * SumFunctionOnSet(g, s)
      OBVIOUS
    <3>2. /\ j * f[x] \in Int /\ k * g[x] \in Int
          /\ j * SumFunctionOnSet(f, s) \in Int /\ k * SumFunctionOnSet(g, s) \in Int
      BY <2>1, <2>3
    <3> QED
      BY <2>5, <3>1, <3>2
  <2> QED
    BY <2>6
<1> HIDE DEF Good
<1>3. Good \in SUBSET SUBSET S
  BY DEF Good
<1>4. Good = SUBSET S
  BY <1>1, <1>2, <1>3, SubsetInduction
<1> QED
  BY <1>4 DEF Good

\* What is nothing adds nothing.
LEMMA SumOfPart ==
  ASSUME NEW S, IsFiniteSet(S), NEW T \in SUBSET S, NEW f,
         \A x \in S : f[x] \in Int, \A x \in S \ T : f[x] = 0
  PROVE  SumFunctionOnSet(f, S) = SumFunctionOnSet(f, T)
<1> DEFINE Good == {s \in SUBSET S : SumFunctionOnSet(f, s) = SumFunctionOnSet(f,
             s \cap T)}
<1>1. {} \in Good
  <2>1. {} \cap T = {}
    OBVIOUS
  <2> QED
    BY <2>1
<1>2. ASSUME NEW s \in Good, NEW x \in S \ s PROVE s \cup {x} \in Good
  <2>1. IsFiniteSet(s) /\ IsFiniteSet(s \cap T) /\ \A y \in s \cup {x} : f[y] \in Int
    BY FS_Subset
  <2>2. SumFunctionOnSet(f, s \cup {x}) = f[x] + SumFunctionOnSet(f, s)
    BY <2>1, SumGrows
  <2>3. SumFunctionOnSet(f, s) \in Int
    BY <2>1, SumType
  <2>4. CASE x \in T
    <3>1. (s \cup {x}) \cap T = (s \cap T) \cup {x} /\ x \notin s \cap T
      BY <2>4
    <3>2. SumFunctionOnSet(f, (s \cap T) \cup {x}) = f[x] + SumFunctionOnSet(f, s \cap T)
      BY <2>1, <3>1, SumGrows
    <3>3. SumFunctionOnSet(f, s \cup {x}) = SumFunctionOnSet(f, (s \cup {x}) \cap T)
      BY <1>2, <2>2, <3>1, <3>2
    <3> QED
      BY <3>3
  <2>5. CASE x \notin T
    <3>1. (s \cup {x}) \cap T = s \cap T /\ f[x] = 0
      BY <2>5
    <3>2. SumFunctionOnSet(f, s) = SumFunctionOnSet(f, s \cap T)
      OBVIOUS
    <3>3. SumFunctionOnSet(f, s \cup {x}) = SumFunctionOnSet(f, (s \cup {x}) \cap T)
      <4>1. 0 + SumFunctionOnSet(f, s) = SumFunctionOnSet(f, s)
        BY <2>3
      <4> QED
        BY <2>2, <3>1, <3>2, <4>1
    <3> QED
      BY <3>3
  <2> QED
    BY <2>4, <2>5
<1> HIDE DEF Good
<1>3. Good \in SUBSET SUBSET S
  BY DEF Good
<1>4. Good = SUBSET S
  BY <1>1, <1>2, <1>3, SubsetInduction
<1>5. S \cap T = T
  OBVIOUS
<1>6. SumFunctionOnSet(f, S) = SumFunctionOnSet(f, S \cap T)
  BY <1>4 DEF Good
<1> QED
  BY <1>5, <1>6

-----------------------------------------------------------------------------
(* The pictures: what a sweep removes nobody shows.                          *)

SweepStates ==
  [wanted : SUBSET Images, doomed : SUBSET Images, step : {"scanning", "removing"}]

StoreTypeOK ==
  /\ file \in [Images -> {"none", "young", "old"}]
  /\ pictures \in [Images -> 0 .. MaxRowsOf] /\ adopted \subseteq Images
  /\ upload \in [Uploads -> Images \cup {NoUpload}] /\ unlucky \subseteq Images
  /\ uploads \in 0 .. MaxUploads /\ sweeps \in 0 .. MaxSweeps
  /\ sweep \in [Sweeps -> SweepStates \cup {NoSweep}]

\* A row refers to the content.
Shown(i) == pictures[i] > 0 \/ i \in adopted

Coming(i) == \E u \in Uploads : upload[u] = i

\* A file that is about to get its row is new.
ComingAreYoung == \A i \in Images \ unlucky : Coming(i) => file[i] = "young"

\* What got its row behind the back of a sweep is too new for it.
LateAreYoung ==
  \A i \in Images \ unlucky, s \in Sweeps :
    sweep[s] # NoSweep /\ sweep[s].step = "scanning" /\ i \notin sweep[s].wanted /\
      Shown(i)
      => file[i] = "young"

\* What a sweep is to remove has no row and is not about to get one.
DoomedAreOrphans ==
  \A s \in Sweeps : sweep[s] # NoSweep =>
    /\ sweep[s].doomed \subseteq Images \ sweep[s].wanted
    /\ sweep[s].doomed # {} => sweep[s].step = "removing"
    /\ \A i \in sweep[s].doomed \ unlucky : ~Shown(i) /\ ~Coming(i)

ShownAreThere == \A i \in Images \ unlucky : Shown(i) => file[i] # "none"

Storing ==
  StoreTypeOK /\ ComingAreYoung /\ LateAreYoung /\ DoomedAreOrphans /\ ShownAreThere

\* The media store begins in order.
LEMMA StoringInit == MediaInit => Storing
BY MediaAssumption DEF MediaInit, Storing, StoreTypeOK, ComingAreYoung, LateAreYoung,
   DoomedAreOrphans, ShownAreThere, Shown, Coming

\* No step of an upload or a sweep disturbs the order of the store.
LEMMA StoringNext == Storing /\ [MediaNext]_mediaVars => Storing'
<1> SUFFICES ASSUME Storing, [MediaNext]_mediaVars PROVE Storing'
  OBVIOUS
<1> USE MediaAssumption
<1>1. ASSUME NEW u \in Uploads, NEW i \in Images, Save(u, i) PROVE Storing'
  <2> USE <1>1 DEF Save, DoomedBy
  <2>1. StoreTypeOK'
    BY DEF Storing, StoreTypeOK
  <2>2. ComingAreYoung'
    BY DEF Storing, StoreTypeOK, ComingAreYoung, Coming
  <2>3. LateAreYoung'
    BY DEF Storing, StoreTypeOK, LateAreYoung, Shown
  <2>4. DoomedAreOrphans'
    BY DEF Storing, StoreTypeOK, DoomedAreOrphans, Shown, Coming
  <2>5. ShownAreThere'
    BY DEF Storing, StoreTypeOK, ShownAreThere, Shown
  <2> QED
    BY <2>1, <2>2, <2>3, <2>4, <2>5 DEF Storing
<1>2. ASSUME NEW u \in Uploads, NEW i \in Images, SaveFails(u, i) PROVE Storing'
  <2> USE <1>2 DEF SaveFails
  <2>1. StoreTypeOK'
    BY DEF Storing, StoreTypeOK
  <2>2. ComingAreYoung' /\ LateAreYoung'
    BY DEF Storing, StoreTypeOK, ComingAreYoung, LateAreYoung, Coming, Shown
  <2>3. DoomedAreOrphans' /\ ShownAreThere'
    BY DEF Storing, StoreTypeOK, DoomedAreOrphans, ShownAreThere, Shown, Coming
  <2> QED
    BY <2>1, <2>2, <2>3 DEF Storing
<1>3. ASSUME NEW u \in Uploads, Attach(u) PROVE Storing'
  <2> USE <1>3 DEF Attach
  <2>1. StoreTypeOK'
    BY DEF Storing, StoreTypeOK
  <2>2. ComingAreYoung' /\ ShownAreThere'
    BY DEF Storing, StoreTypeOK, ComingAreYoung, ShownAreThere, Coming, Shown
  <2>3. LateAreYoung'
    BY DEF Storing, StoreTypeOK, LateAreYoung, ComingAreYoung, Coming, Shown
  <2>4. DoomedAreOrphans'
    BY DEF Storing, StoreTypeOK, DoomedAreOrphans, Shown, Coming
  <2> QED
    BY <2>1, <2>2, <2>3, <2>4 DEF Storing
<1>4. ASSUME NEW u \in Uploads, AttachFails(u) PROVE Storing'
  BY <1>4 DEF AttachFails, Storing, StoreTypeOK, ComingAreYoung, LateAreYoung,
     DoomedAreOrphans, ShownAreThere, Shown, Coming
<1>5. ASSUME NEW i \in Images, Detach(i) PROVE Storing'
  BY <1>5 DEF Detach, Storing, StoreTypeOK, ComingAreYoung, LateAreYoung,
     DoomedAreOrphans, ShownAreThere, Shown, Coming
<1>6. ASSUME NEW i \in Images, Adopt(i) PROVE Storing'
  BY <1>6 DEF Adopt, Storing, StoreTypeOK, ComingAreYoung, LateAreYoung,
     DoomedAreOrphans, ShownAreThere, Shown, Coming
<1>7. ASSUME NEW i \in Images, Abandon(i) PROVE Storing'
  BY <1>7 DEF Abandon, Storing, StoreTypeOK, ComingAreYoung, LateAreYoung,
     DoomedAreOrphans, ShownAreThere, Shown, Coming
<1>8. ASSUME NEW i \in Images, Ages(i) PROVE Storing'
  BY <1>8 DEF Ages, Storing, StoreTypeOK, ComingAreYoung, LateAreYoung,
     DoomedAreOrphans, ShownAreThere, Shown, Coming
<1>9. ASSUME NEW s \in Sweeps, ReadReferences(s) PROVE Storing'
  BY <1>9 DEF ReadReferences, Referenced, Pictured, SweepStates, Storing, StoreTypeOK,
     ComingAreYoung, LateAreYoung, DoomedAreOrphans, ShownAreThere, Shown, Coming
<1>10. ASSUME NEW s \in Sweeps, Scan(s) PROVE Storing'
  <2> USE <1>10 DEF Scan
  <2>1. StoreTypeOK'
    BY DEF Storing, StoreTypeOK, SweepStates
  <2>2. ComingAreYoung' /\ ShownAreThere' /\ LateAreYoung'
    BY DEF Storing, StoreTypeOK, SweepStates, ComingAreYoung, LateAreYoung, ShownAreThere,
       Coming, Shown
  <2>3. DoomedAreOrphans'
    BY DEF Storing, StoreTypeOK, SweepStates, DoomedAreOrphans, ComingAreYoung,
       LateAreYoung,
       Shown, Coming
  <2> QED
    BY <2>1, <2>2, <2>3 DEF Storing
<1>11. ASSUME NEW s \in Sweeps, SweepEnds(s) PROVE Storing'
  BY <1>11 DEF SweepEnds, Storing, StoreTypeOK, ComingAreYoung, LateAreYoung,
     DoomedAreOrphans, ShownAreThere, Shown, Coming
<1>12. ASSUME NEW s \in Sweeps, NEW i \in Images, RemoveFile(s, i) PROVE Storing'
  <2> USE <1>12 DEF RemoveFile
  <2>1. StoreTypeOK'
    BY DEF Storing, StoreTypeOK, SweepStates
  <2>2. ComingAreYoung' /\ ShownAreThere' /\ LateAreYoung'
    BY DEF Storing, StoreTypeOK, SweepStates, ComingAreYoung, LateAreYoung,
       DoomedAreOrphans,
       ShownAreThere, Coming, Shown
  <2>3. DoomedAreOrphans'
    BY DEF Storing, StoreTypeOK, SweepStates, DoomedAreOrphans, Shown, Coming
  <2> QED
    BY <2>1, <2>2, <2>3 DEF Storing
<1>13. ASSUME UNCHANGED mediaVars PROVE Storing'
  BY <1>13 DEF mediaVars, Storing, StoreTypeOK, ComingAreYoung, LateAreYoung,
     DoomedAreOrphans, ShownAreThere, Shown, Coming
<1> QED
  BY <1>1, <1>2, <1>3, <1>4, <1>5, <1>6, <1>7, <1>8, <1>9, <1>10, <1>11, <1>12, <1>13
     DEF MediaNext

\* A store in order keeps its pictures.
LEMMA StoringKeeps == Storing => PicturesAreKept
BY DEF Storing, StoreTypeOK, SweepStates, ComingAreYoung, DoomedAreOrphans,
   ShownAreThere, Shown, Coming,
   PicturesAreKept, MediaTypeOK

\* However many uploads, edits and sweeps overlap, no file of a picture that a row shows or
\* is about to show is removed, but one that was adopted again, or taken back by a failed
\* upload, behind the back of a sweep (hygiene.ts and service.ts of the media package).
THEOREM MediaIsSafe == MediaSpec => []PicturesAreKept
<1>1. MediaSpec => []Storing
  BY StoringInit, StoringNext, PTL DEF MediaSpec
<1> QED
  BY <1>1, StoringKeeps, PTL

-----------------------------------------------------------------------------
(* The value of the goods: the row of the stock keeps bookings apart.        *)

BookingStates ==
  [at : {"rest", "price", "value", "write", "sell"},
   op : {"none", "purchase", "receipt", "damaged", "return", "sale"},
   n : 0 .. MaxUnits, cost : Nat, saw : [quantity : Nat, average : Nat]]

ValueTypes ==
  /\ units \in 0 .. MaxUnits /\ valued \in [quantity : Nat, average : Nat]
  /\ book \in Int /\ afloat \in Int /\ moves \in 0 .. MaxMoves
  /\ slack \in Nat /\ blind \in BOOLEAN
  /\ booking \in [Bookings -> BookingStates]

\* What a transaction does tells how far it can be and how many units it moves.
BookingsMakeSense ==
  \A b \in Bookings :
    /\ booking[b].op \in {"none", "damaged"} <=> booking[b].n = 0
    /\ booking[b].op = "none" <=> booking[b].at = "rest"
    /\ booking[b].op = "sale" <=> booking[b].at = "sell"
    /\ booking[b].op = "sale" => booking[b].n <= units
    /\ booking[b].op \in {"purchase", "receipt", "return"} => units + booking[b].n <= MaxUnits
    /\ booking[b].op = "damaged" => booking[b].cost = 0
    /\ booking[b].at = "price" => booking[b].op = "return"

OneMoves ==
  \A b, c \in Bookings : booking[b].n > 0 /\ booking[c].n > 0 => b = c

\* What the transaction that holds the stock has read of the row is worth as much as
\* what is in it.
WhatWasReadHolds ==
  \A b \in Bookings :
    booking[b].at = "write" /\ booking[b].n > 0 =>
      /\ booking[b].saw.quantity = valued.quantity
      /\ booking[b].saw.average = valued.average \/ valued.quantity = 0

Valuing ==
  /\ ValueTypes /\ BookingsMakeSense /\ OneMoves
  /\ ~blind => CountsAgree /\ ValuesAgree /\ WhatWasReadHolds

\* Quotients of the whole numbers, unique.
LEMMA Division ==
  ASSUME NEW a \in Int, NEW b \in Nat \ {0}
  PROVE  a \div b \in Int /\ b * (a \div b) <= a /\ a < b * (a \div b) + b
OBVIOUS

\* Dividing what is not negative leaves nothing negative.
LEMMA DivisionOfNat ==
  ASSUME NEW a \in Nat, NEW b \in Nat \ {0}
  PROVE  a \div b \in Nat
<1>1. a \div b \in Int /\ a < b * (a \div b) + b
  BY Division
<1> DEFINE q == a \div b
<1>2. q \in Int /\ a < b * q + b
  BY <1>1
<1> HIDE DEF q
<1>3. ASSUME q < 0 PROVE FALSE
  <2>1. b * (q + 1) <= 0
    BY <1>2, <1>3
  <2> QED
    BY <1>2, <2>1
<1> QED
  BY <1>2, <1>3 DEF q

\* The larger of two numbers, as the code clamps at zero.
LEMMA MaxOfTwo ==
  ASSUME NEW a \in Int, NEW b \in Int
  PROVE  Max({a, b}) = IF a >= b THEN a ELSE b
<1> DEFINE m == IF a >= b THEN a ELSE b
<1>1. m \in {a, b} /\ \A y \in {a, b} : m >= y
  OBVIOUS
<1>2. \A x \in {a, b} : (\A y \in {a, b} : x >= y) => x = m
  OBVIOUS
<1> QED
  BY <1>1, <1>2 DEF Max

\* The average is off by half a rial for a unit at most.
LEMMA Rounding ==
  ASSUME NEW saw \in [quantity : Nat, average : Nat], NEW n \in Nat, NEW cost \in Nat
  PROVE  LET q == saw.quantity + n
             x == NewAverage(saw, n, cost)
         IN /\ x \in Nat
            /\ -q <= 2 * (saw.average * saw.quantity + cost - q * x) \/ q = 0
            /\ 2 * (saw.average * saw.quantity + cost - q * x) <= q \/ q = 0
<1> DEFINE q == saw.quantity + n
           worth == saw.average * saw.quantity + cost
           half == q \div 2
           x == (worth + half) \div q
<1>1. worth \in Nat /\ q \in Nat
  OBVIOUS
<1>2. CASE q = 0
  BY <1>2 DEF NewAverage
<1>3. CASE q # 0
  <2> HIDE DEF worth, q
  <2>1. half \in Nat /\ 2 * half <= q /\ q < 2 * half + 2
    BY <1>1, <1>3, DivisionOfNat, Division
  <2> HIDE DEF half
  <2>2. x \in Nat /\ q * x <= worth + half /\ worth + half < q * x + q
    BY <1>1, <1>3, <2>1, DivisionOfNat, Division
  <2>3. NewAverage(saw, n, cost) = x
    BY <1>3 DEF NewAverage, q, worth, half
  <2> HIDE DEF x
  <2> DEFINE p == q * x
  <2>4. p \in Int
    BY <1>1, <2>2
  <2> HIDE DEF p
  <2>5. p <= worth + half /\ worth + half < p + q
    BY <2>2 DEF p
  <2>6. -q <= 2 * (worth - p) /\ 2 * (worth - p) <= q
    BY <1>1, <2>1, <2>4, <2>5
  <2> QED
    BY <2>2, <2>3, <2>6 DEF p, q, worth
<1> QED
  BY <1>2, <1>3

\* Nothing that comes leaves the average where it was.
LEMMA NothingComes ==
  ASSUME NEW saw \in [quantity : Nat, average : Nat], saw.quantity # 0
  PROVE  NewAverage(saw, 0, 0) = saw.average
<1> DEFINE q == saw.quantity
           v == saw.average
           half == q \div 2
           p == v * q
           x == (p + half) \div q
<1>1. q \in Nat \ {0} /\ v \in Nat
  OBVIOUS
<1>2. half \in Nat /\ half < q
  <2>1. half \in Nat /\ 2 * half <= q
    BY <1>1, DivisionOfNat, Division
  <2> HIDE DEF half, q
  <2> QED
    BY <1>1, <2>1
<1>3. NewAverage(saw, 0, 0) = x
  BY <1>1, <1>2 DEF NewAverage
<1> HIDE DEF q, v, half
<1>4. p \in Nat
  BY <1>1
<1>5. x \in Int /\ q * x <= p + half /\ p + half < q * x + q
  BY <1>1, <1>2, <1>4, Division
<1> HIDE DEF x
<1>6. q * v = p
  BY <1>1
<1>7. ASSUME x < v PROVE FALSE
  <2>1. q * (x + 1) <= q * v
    BY <1>1, <1>5, <1>7
  <2>2. q * (x + 1) = q * x + q
    BY <1>1, <1>5
  <2> DEFINE y == q * x
  <2>3. y \in Int
    BY <1>1, <1>5
  <2> HIDE DEF p
  <2> QED
    BY <1>1, <1>2, <1>4, <1>5, <1>6, <2>1, <2>2, <2>3
<1>8. ASSUME x > v PROVE FALSE
  <2>1. q * (v + 1) <= q * x
    BY <1>1, <1>5, <1>8
  <2>2. q * (v + 1) = q * v + q
    BY <1>1
  <2> DEFINE y == q * x
  <2>3. y \in Int
    BY <1>1, <1>5
  <2> HIDE DEF p
  <2> QED
    BY <1>1, <1>2, <1>4, <1>5, <1>6, <2>1, <2>2, <2>3
<1> QED
  BY <1>1, <1>3, <1>5, <1>7, <1>8 DEF v

\* The valuation begins in order.
LEMMA ValuingInit == ValuationInit => Valuing
<1> SUFFICES ASSUME ValuationInit PROVE Valuing
  OBVIOUS
<1> USE ValuationAssumption DEF ValuationInit, NoBooking, Booking, NoValue
<1>1. ValueTypes
  <2>1. NoBooking \in BookingStates
    BY DEF BookingStates
  <2> HIDE DEF NoBooking
  <2>2. booking \in [Bookings -> BookingStates]
    BY <2>1
  <2>3. units \in 0 .. MaxUnits /\ book \in Int /\ afloat \in Int /\
          moves \in 0 .. MaxMoves /\ slack \in Nat
    OBVIOUS
  <2>4. valued \in [quantity : Nat, average : Nat] /\ blind \in BOOLEAN
    OBVIOUS
  <2> HIDE DEF ValuationInit
  <2> QED
    BY <2>2, <2>3, <2>4, Zenon DEF ValueTypes
<1>2. BookingsMakeSense /\ OneMoves
  BY DEF BookingsMakeSense, OneMoves
<1>3. CountsAgree /\ ValuesAgree /\ WhatWasReadHolds
  BY DEF CountsAgree, ValuesAgree, WhatWasReadHolds
<1> QED
  BY <1>1, <1>2, <1>3 DEF Valuing

\* Only the call of one transaction changes, and what it says is in order.
Only(b, new) ==
  /\ booking' = [booking EXCEPT ![b] = new]
  /\ UNCHANGED <<units, valued, book, afloat, moves, slack, blind>>

InOrder(b, new) ==
  /\ new \in BookingStates
  /\ new.op \in {"none", "damaged"} <=> new.n = 0
  /\ new.op = "none" <=> new.at = "rest"
  /\ new.op = "sale" <=> new.at = "sell"
  /\ new.op = "sale" => new.n <= units
  /\ new.op \in {"purchase", "receipt", "return"} => units + new.n <= MaxUnits
  /\ new.op = "damaged" => new.cost = 0
  /\ new.at = "price" => new.op = "return"
  /\ new.n > 0 => \A c \in Bookings \ {b} : booking[c].n = 0
  /\ new.at = "write" => new.saw = valued

\* A step of one transaction that commits nothing leaves the valuation in order.
LEMMA OnlyKeeps ==
  ASSUME Valuing, NEW b \in Bookings, NEW new, Only(b, new), InOrder(b, new)
  PROVE  Valuing'
<1> USE DEF Only, InOrder
<1>0. booking \in [Bookings -> BookingStates] /\ booking' = [booking EXCEPT ![b] = new]
  BY DEF Valuing, ValueTypes
<1>1. ValueTypes'
  BY DEF Valuing, ValueTypes
<1>2. BookingsMakeSense'
  BY <1>0 DEF Valuing, BookingsMakeSense
<1>3. OneMoves'
  <2> SUFFICES ASSUME NEW c \in Bookings, NEW d \in Bookings,
                      booking'[c].n > 0, booking'[d].n > 0
               PROVE  c = d
    BY DEF OneMoves
  <2>1. \A e \in Bookings : booking[e].n \in 0 .. MaxUnits
    BY <1>0 DEF BookingStates
  <2> QED
    BY <1>0, <2>1 DEF Valuing, OneMoves
<1>4. ~blind' => CountsAgree' /\ ValuesAgree'
  BY DEF Valuing, CountsAgree, ValuesAgree
<1>5. ~blind' => WhatWasReadHolds'
  BY <1>0 DEF Valuing, WhatWasReadHolds
<1> QED
  BY <1>1, <1>2, <1>3, <1>4, <1>5 DEF Valuing

\* A transaction ends and leaves what it wrote.
LEMMA CommitKeeps ==
  ASSUME Valuing, NEW b \in Bookings, Commits(b),
         units' \in 0 .. MaxUnits, valued' \in [quantity : Nat, average : Nat],
         book' \in Int, afloat' \in Int, slack' \in Nat, blind' \in BOOLEAN,
         booking[b].n = 0 => units' = units,
         ~blind' => CountsAgree' /\ ValuesAgree' /\ ~blind
           /\ (booking[b].n = 0 => valued'.quantity = valued.quantity
                /\ (valued'.average = valued.average \/ valued.quantity = 0))
  PROVE  Valuing'
<1> USE ValuationAssumption DEF Commits
<1>0. booking \in [Bookings -> BookingStates] /\
        booking' = [booking EXCEPT ![b] = NoBooking]
  BY DEF Valuing, ValueTypes
<1>1. ValueTypes'
  BY DEF Valuing, ValueTypes, BookingStates, NoBooking, Booking, NoValue
<1>2. \A e \in Bookings : booking[e].n \in 0 .. MaxUnits
  BY <1>0 DEF BookingStates
<1>3. \A e \in Bookings \ {b} : booking[e].n > 0 => units' = units
  BY <1>2 DEF Valuing, OneMoves
<1>4. BookingsMakeSense'
  BY <1>0, <1>2, <1>3 DEF Valuing, BookingsMakeSense, NoBooking, Booking, NoValue
<1>5. OneMoves'
  BY <1>0, <1>2 DEF Valuing, OneMoves, NoBooking, Booking, NoValue
<1>6. ~blind' => WhatWasReadHolds'
  <2> SUFFICES ASSUME ~blind', NEW c \in Bookings, booking'[c].at = "write",
                        booking'[c].n > 0
               PROVE  /\ booking'[c].saw.quantity = valued'.quantity
                      /\ booking'[c].saw.average = valued'.average \/ valued'.quantity = 0
    BY DEF WhatWasReadHolds
  <2>1. c # b /\ booking'[c] = booking[c]
    BY <1>0 DEF NoBooking, Booking, NoValue
  <2>2. booking[b].n = 0
    BY <1>2, <2>1 DEF Valuing, OneMoves
  <2> QED
    BY <2>1, <2>2 DEF Valuing, WhatWasReadHolds
<1> QED
  BY <1>1, <1>4, <1>5, <1>6 DEF Valuing

\* No step of a transaction disturbs the valuation.
LEMMA ValuingNext == Valuing /\ [ValuationNext]_valuationVars => Valuing'
<1> SUFFICES ASSUME Valuing, [ValuationNext]_valuationVars PROVE Valuing'
  OBVIOUS
<1> USE ValuationAssumption
<1>0. /\ units \in 0 .. MaxUnits /\ valued \in [quantity : Nat, average : Nat]
      /\ book \in Int /\ afloat \in Int /\ slack \in Nat /\ blind \in BOOLEAN
      /\ \A b \in Bookings : booking[b] \in BookingStates
  BY DEF Valuing, ValueTypes
<1>1. ASSUME NEW b \in Bookings, NEW n \in 1 .. MaxUnits, NEW cost \in Costs,
             GoodsCome(b, n, cost)
      PROVE  Valuing'
  <2>1. Only(b, Booking("value", "purchase", n, cost, NoValue))
    BY <1>1 DEF GoodsCome, Begins, Only
  <2>2. InOrder(b, Booking("value", "purchase", n, cost, NoValue))
    BY <1>0, <1>1 DEF GoodsCome, StockIsFree, InOrder, BookingStates, Booking, NoValue
  <2> QED
    BY <2>1, <2>2, OnlyKeeps
<1>2. ASSUME NEW b \in Bookings, NEW n \in 1 .. MaxUnits, GoodsComeBack(b, n)
      PROVE  Valuing'
  <2>1. Only(b, Booking("price", "return", n, 0, NoValue))
    BY <1>2 DEF GoodsComeBack, Begins, Only
  <2>2. InOrder(b, Booking("price", "return", n, 0, NoValue))
    BY <1>0, <1>2 DEF GoodsComeBack, StockIsFree, InOrder, BookingStates, Booking, NoValue
  <2> QED
    BY <2>1, <2>2, OnlyKeeps
<1>3. ASSUME NEW b \in Bookings, NEW n \in 1 .. MaxUnits, GoodsGo(b, n)
      PROVE  Valuing'
  <2>1. Only(b, Booking("sell", "sale", n, 0, valued))
    BY <1>3 DEF GoodsGo, Begins, Only
  <2>2. InOrder(b, Booking("sell", "sale", n, 0, valued))
    BY <1>0, <1>3 DEF GoodsGo, StockIsFree, InOrder, BookingStates, Booking
  <2> QED
    BY <2>1, <2>2, OnlyKeeps
<1>4. ASSUME NEW b \in Bookings, OnlyDamagedGoodsCome(b) PROVE Valuing'
  <2>1. Only(b, Booking("value", "damaged", 0, 0, NoValue))
    BY <1>4 DEF OnlyDamagedGoodsCome, Begins, Only
  <2>2. InOrder(b, Booking("value", "damaged", 0, 0, NoValue))
    BY <1>0 DEF InOrder, BookingStates, Booking, NoValue
  <2> QED
    BY <2>1, <2>2, OnlyKeeps
<1>5. ASSUME NEW b \in Bookings, PricesReturn(b) PROVE Valuing'
  <2> DEFINE worth == valued.average * booking[b].n
             new == [booking[b] EXCEPT !.at = "value", !.cost = worth]
  <2>1. Only(b, new)
    BY <1>5 DEF PricesReturn, Turns, Only
  <2>2. worth \in Nat
    BY <1>0 DEF BookingStates
  <2> HIDE DEF worth
  <2>3. new = [[booking[b] EXCEPT !.at = "value"] EXCEPT !.cost = worth]
    BY <1>0 DEF BookingStates
  <2>4. [booking[b] EXCEPT !.at = "value"] \in BookingStates
    BY <1>0 DEF BookingStates
  <2>5. new \in BookingStates
    BY <2>2, <2>3, <2>4 DEF BookingStates
  <2>6. /\ new.at = "value" /\ new.op = booking[b].op /\ new.n = booking[b].n
        /\ new.cost = worth
    BY <1>0 DEF BookingStates
  <2> HIDE DEF new
  <2>7. booking[b].at = "price" /\ booking[b].op = "return"
    BY <1>5 DEF PricesReturn, Valuing, BookingsMakeSense
  <2>8. InOrder(b, new)
    BY <1>0, <2>5, <2>6, <2>7 DEF InOrder, BookingStates, Valuing, BookingsMakeSense,
       OneMoves
  <2> QED
    BY <2>1, <2>8, OnlyKeeps
<1>6. ASSUME NEW b \in Bookings, ReadsValue(b) PROVE Valuing'
  <2> DEFINE new == [booking[b] EXCEPT !.at = "write", !.saw = valued]
  <2>1. Only(b, new)
    BY <1>6 DEF ReadsValue, Turns, Only
  <2>3. new = [[booking[b] EXCEPT !.at = "write"] EXCEPT !.saw = valued]
    BY <1>0 DEF BookingStates
  <2>4. [booking[b] EXCEPT !.at = "write"] \in BookingStates
    BY <1>0 DEF BookingStates
  <2>5. new \in BookingStates
    BY <1>0, <2>3, <2>4 DEF BookingStates
  <2>6. /\ new.at = "write" /\ new.op = booking[b].op /\ new.n = booking[b].n
        /\ new.cost = booking[b].cost /\ new.saw = valued
    BY <1>0 DEF BookingStates
  <2> HIDE DEF new
  <2>7. booking[b].at = "value"
    BY <1>6 DEF ReadsValue
  <2>8. InOrder(b, new)
    BY <1>0, <2>5, <2>6, <2>7 DEF InOrder, BookingStates, Valuing, BookingsMakeSense,
       OneMoves
  <2> QED
    BY <2>1, <2>8, OnlyKeeps
<1>7. ASSUME NEW b \in Bookings, WritesValue(b) PROVE Valuing'
  <2> DEFINE saw == booking[b].saw
             n == booking[b].n
             cost == booking[b].cost
             q == saw.quantity + n
             x == NewAverage(saw, n, cost)
  <2>1. /\ Commits(b) /\ booking[b].at = "write" /\ RowIsFree
        /\ valued' = [quantity |-> q, average |-> x]
        /\ units' = units + n /\ slack' = slack + saw.quantity + n
        /\ book' \in Int /\ afloat' \in Int /\ book' - afloat' = book - afloat + cost
        /\ blind' = (blind \/ (booking[b].op = "damaged" /\ saw # valued))
    <3>1. /\ IF booking[b].op = "receipt" THEN afloat' = afloat - cost /\ UNCHANGED book
                ELSE book' = book + cost /\ UNCHANGED afloat
          /\ cost \in Nat
      BY <1>0, <1>7 DEF WritesValue, BookingStates
    <3> HIDE DEF cost
    <3>2. /\ book' \in Int /\ afloat' \in Int /\ book' - afloat' = book - afloat + cost
      BY <1>0, <3>1
    <3> QED
      BY <1>7, <3>2 DEF WritesValue, cost
  <2>2. saw \in [quantity : Nat, average : Nat] /\ n \in Nat /\ cost \in Nat
    BY <1>0 DEF BookingStates
  <2>3. booking[b].op \in {"purchase", "receipt", "return", "damaged"}
    BY <1>0, <2>1 DEF BookingStates, Valuing, BookingsMakeSense
  <2>4. n = 0 <=> booking[b].op = "damaged"
    BY <2>3 DEF Valuing, BookingsMakeSense
  <2>5. n > 0 => units + n <= MaxUnits
    BY <2>2, <2>3, <2>4 DEF Valuing, BookingsMakeSense
  <2>6. n = 0 => cost = 0
    BY <2>4 DEF Valuing, BookingsMakeSense
  <2>7. blind' \in BOOLEAN
    BY <2>1, Zenon
  <2> HIDE DEF x, saw, n, cost
  <2>8. /\ x \in Nat
        /\ q # 0 => /\ -q <= 2 * (saw.average * saw.quantity + cost - q * x)
                    /\ 2 * (saw.average * saw.quantity + cost - q * x) <= q
    BY <2>2, Rounding DEF x
  <2>9. ASSUME ~blind'
        PROVE  /\ ~blind /\ CountsAgree /\ ValuesAgree
               /\ saw.quantity = valued.quantity
               /\ saw.average = valued.average \/ valued.quantity = 0
    <3>1. ~blind /\ (booking[b].op = "damaged" => saw = valued)
      BY <2>1, <2>9
    <3>2. CountsAgree /\ ValuesAgree /\ WhatWasReadHolds
      BY <3>1 DEF Valuing
    <3>3. CASE n = 0
      BY <2>4, <3>1, <3>2, <3>3
    <3>4. CASE n > 0
      BY <2>1, <3>1, <3>2, <3>4 DEF WhatWasReadHolds, saw, n
    <3> QED
      BY <2>2, <3>3, <3>4
  <2>10. ASSUME ~blind' PROVE CountsAgree' /\ ValuesAgree'
    <3>1. CountsAgree'
      BY <2>1, <2>9, <2>10 DEF CountsAgree
    <3> DEFINE old == valued.quantity * valued.average
               new == q * x
    <3>2. saw.average * saw.quantity = old
      BY <1>0, <2>2, <2>9, <2>10
    <3>3. old \in Nat /\ new \in Nat /\ q \in Nat
      <4>1. old \in Nat
        BY <1>0
      <4>2. q \in Nat
        BY <2>2
      <4> HIDE DEF q
      <4>3. new \in Nat
        BY <2>8, <4>2
      <4> QED
        BY <4>1, <4>2, <4>3
    <3>4. valued'.quantity * valued'.average = new
      BY <2>1
    <3>5. 2 * (book - afloat - old) \in -slack .. slack
      BY <2>9, <2>10 DEF ValuesAgree
    <3>6. q # 0 => -q <= 2 * (old + cost - new) /\ 2 * (old + cost - new) <= q
      BY <2>8, <3>2
    <3>7. q = 0 => new = 0 /\ old = 0 /\ cost = 0
      BY <1>0, <2>2, <2>6, <2>8, <3>2
    <3> HIDE DEF old, new
    <3>8. slack' = slack + q /\ slack \in Nat /\ book \in Int /\ afloat \in Int
      BY <1>0, <2>1, <2>2
    <3> HIDE DEF q
    <3> DEFINE before == book - afloat
               after == book' - afloat'
    <3>9. before \in Int /\ after \in Int /\ after = before + cost
      BY <1>0, <2>1
    <3>10. 2 * (before - old) \in -slack .. slack
      BY <3>5
    <3> HIDE DEF before, after
    <3>11. 2 * (after - new) \in -(slack + q) .. slack + q
      BY <2>2, <3>3, <3>6, <3>7, <3>8, <3>9, <3>10
    <3>12. ValuesAgree'
      BY <3>4, <3>8, <3>11 DEF ValuesAgree, after
    <3> QED
      BY <3>1, <3>12
  <2>11. ASSUME ~blind', n = 0
         PROVE  /\ valued'.quantity = valued.quantity
                /\ valued'.average = valued.average \/ valued.quantity = 0
    <3>0. saw = valued
      BY <2>1, <2>4, <2>11
    <3>1. q = valued.quantity /\ saw = valued /\ cost = 0
      BY <2>2, <2>6, <2>11, <3>0
    <3>2. valued.quantity # 0 => x = valued.average
      BY <2>2, <2>11, <3>1, NothingComes DEF x
    <3> QED
      BY <2>1, <3>1, <3>2
  <2>12. /\ units' \in 0 .. MaxUnits /\ valued' \in [quantity : Nat, average : Nat]
         /\ book' \in Int /\ afloat' \in Int /\ slack' \in Nat
    BY <1>0, <2>1, <2>2, <2>5, <2>8
  <2>13. n = 0 => units' = units
    BY <1>0, <2>1
  <2> HIDE DEF q
  <2> QED
    BY <2>1, <2>7, <2>9, <2>10, <2>11, <2>12, <2>13, CommitKeeps DEF n
<1>8. ASSUME NEW b \in Bookings, BooksSale(b) PROVE Valuing'
  <2> DEFINE n == booking[b].n
             worth == valued.average * n
  <2>1. /\ Commits(b) /\ booking[b].at = "sell"
        /\ valued' = [valued EXCEPT !.quantity = Max({valued.quantity - n, 0})]
        /\ units' = units - n /\ book' = book - worth /\ afloat' = afloat
        /\ slack' = slack /\ blind' = blind
    BY <1>8 DEF BooksSale
  <2>2. n \in Nat /\ n # 0 /\ n <= units
    BY <1>0, <2>1 DEF BookingStates, Valuing, BookingsMakeSense
  <2> DEFINE left == Max({valued.quantity - n, 0})
  <2>3. left = IF valued.quantity - n >= 0 THEN valued.quantity - n ELSE 0
    <3>1. valued.quantity - n \in Int
      BY <1>0, <2>2
    <3> QED
      BY <3>1, MaxOfTwo
  <2>4. left \in Nat
    BY <1>0, <2>2, <2>3
  <2>5. worth \in Nat
    BY <1>0, <2>2
  <2>6. valued' = [valued EXCEPT !.quantity = left]
    BY <2>1
  <2> HIDE DEF left, n
  <2>7. /\ valued' \in [quantity : Nat, average : Nat]
        /\ valued'.quantity = left /\ valued'.average = valued.average
    BY <1>0, <2>4, <2>6
  <2>8. ASSUME ~blind' PROVE CountsAgree' /\ ValuesAgree'
    <3>1. CountsAgree /\ ValuesAgree
      BY <2>1, <2>8 DEF Valuing
    <3>2. left = valued.quantity - n /\ CountsAgree'
      BY <1>0, <2>1, <2>2, <2>3, <2>7, <3>1 DEF CountsAgree
    <3> DEFINE old == valued.quantity * valued.average
    <3>3. (valued.quantity - n) * valued.average = old - worth /\ old \in Nat
      BY <1>0, <2>2
    <3> HIDE DEF old, worth
    <3>4. valued'.quantity * valued'.average = old - worth
      BY <2>7, <3>2, <3>3
    <3>5. 2 * (book - afloat - old) \in -slack .. slack
      BY <3>1 DEF ValuesAgree, old
    <3>6. book' - afloat' - (old - worth) = book - afloat - old
      BY <1>0, <2>1, <2>5, <3>3
    <3>7. ValuesAgree'
      BY <2>1, <3>4, <3>5, <3>6 DEF ValuesAgree
    <3> QED
      BY <3>2, <3>7
  <2>9. /\ units' \in 0 .. MaxUnits /\ book' \in Int /\ afloat' \in Int /\ slack' \in Nat
        /\ blind' \in BOOLEAN
    <3> HIDE DEF worth
    <3> QED
      BY <1>0, <2>1, <2>2, <2>5
  <2> HIDE DEF worth
  <2>10. booking[b].n # 0
    BY <2>2 DEF n
  <2> QED
    BY <2>1, <2>7, <2>8, <2>9, <2>10, CommitKeeps
<1>9. ASSUME NEW b \in Bookings, BookingFails(b) PROVE Valuing'
  <2>1. Only(b, NoBooking)
    BY <1>9 DEF BookingFails, Turns, Only
  <2>2. InOrder(b, NoBooking)
    BY DEF InOrder, BookingStates, NoBooking, Booking, NoValue
  <2> QED
    BY <2>1, <2>2, OnlyKeeps
<1>10. ASSUME UNCHANGED valuationVars PROVE Valuing'
  BY <1>10 DEF valuationVars, Valuing, ValueTypes, BookingsMakeSense, OneMoves,
     CountsAgree,
     ValuesAgree, WhatWasReadHolds
<1>11. ASSUME NEW cost \in Costs, BooksInvoice(cost) PROVE Valuing'
  <2>1. /\ moves' \in 0 .. MaxMoves /\ book' \in Int /\ afloat' \in Int
        /\ book' - afloat' = book - afloat
    BY <1>0, <1>11 DEF BooksInvoice, Valuing, ValueTypes
  <2>2. UNCHANGED <<units, valued, booking, slack, blind>>
    BY <1>11 DEF BooksInvoice
  <2>3. ValueTypes'
    BY <2>1, <2>2 DEF Valuing, ValueTypes
  <2>4. BookingsMakeSense' /\ OneMoves'
    BY <2>2 DEF Valuing, BookingsMakeSense, OneMoves
  <2>5. CountsAgree /\ ValuesAgree /\ WhatWasReadHolds =>
          CountsAgree' /\ ValuesAgree' /\ WhatWasReadHolds'
    BY <2>1, <2>2 DEF CountsAgree, ValuesAgree, WhatWasReadHolds
  <2> QED
    BY <2>2, <2>3, <2>4, <2>5 DEF Valuing
<1>12. ASSUME NEW b \in Bookings, NEW n \in 1 .. MaxUnits, NEW unit \in Costs \cup {0},
              ReceiptComes(b, n, unit)
       PROVE  Valuing'
  <2> DEFINE cost == unit * n
  <2>1. Only(b, Booking("value", "receipt", n, cost, NoValue))
    BY <1>12 DEF ReceiptComes, Begins, Only
  <2>2. cost \in Nat
    <3>1. unit \in Nat /\ n \in Nat
      OBVIOUS
    <3> QED
      BY <3>1
  <2>3. units + n <= MaxUnits /\ StockIsFree
    BY <1>12 DEF ReceiptComes
  <2> HIDE DEF cost
  <2>4. InOrder(b, Booking("value", "receipt", n, cost, NoValue))
    BY <1>0, <2>2, <2>3 DEF StockIsFree, InOrder, BookingStates, Booking, NoValue
  <2> QED
    BY <2>1, <2>4, OnlyKeeps
<1> QED
  BY <1>1, <1>2, <1>3, <1>4, <1>5, <1>6, <1>7, <1>8, <1>9, <1>10, <1>11, <1>12
  DEF ValuationNext

\* A valuation in order follows the stock.
LEMMA ValuingKeeps == Valuing => ValuationFollowsStock
BY DEF Valuing, ValueTypes, BookingStates, ValuationFollowsStock, ValuationTypeOK

\* However many deliveries, receipts, returns and sales overlap and fail, the valuation
\* counts what the stock counts; and the account of the stock, less what the invoices of
\* requests put there and no receipt has valued, differs from its value by the rounding of
\* the averages, unless a receipt brought nothing but damaged goods
\* (accounting/src/index.ts, procurement/src/index.ts).
THEOREM ValueIsRight == ValuationSpec => []ValuationFollowsStock
<1>1. ValuationSpec => []Valuing
  BY ValuingInit, ValuingNext, PTL DEF ValuationSpec
<1> QED
  BY <1>1, ValuingKeeps, PTL

-----------------------------------------------------------------------------
(* The cheques: what is open, and what calls under way may still open.       *)

-----------------------------------------------------------------------------
Status == {"in_circulation", "deposited", "settled", "transferred", "bounced", "void"}

ClerkStates ==
  {Rest} \cup [at : {"insert"}, amount : Sums]
         \cup [at : {"update", "log"}, row : Chequebook, to : Status]

ChequeTypes ==
  /\ Cardinality(Chequebook) \in 0 .. MaxCheques
  /\ cheque \in [1 .. Cardinality(Chequebook) ->
                   [amount : Sums, status : Status, logged : BOOLEAN]]
  /\ clerk \in [Clerks -> ClerkStates]

WithinCeiling == OpenAndComing <= Ceiling + (Cardinality(Clerks) - 1) * LargestSum

Endorsing == ChequeTypes /\ WithinCeiling

\* The largest sum a cheque can be over.
LEMMA Largest == LargestSum \in Sums /\ LargestSum \in Nat /\
  \A b \in Sums : b <= LargestSum
BY ChequesAssumption DEF LargestSum

\* What the types say of the cheques and of the calls under way.
LEMMA ChequeFacts ==
  ASSUME ChequeTypes
  PROVE  /\ Chequebook = 1 .. Cardinality(Chequebook) /\ IsFiniteSet(Chequebook)
         /\ Worth \in [Chequebook -> 0 .. LargestSum]
         /\ Checked \in [Clerks -> 0 .. LargestSum] /\ IsFiniteSet(Clerks)
         /\ OpenOrReopened \in SUBSET Chequebook /\ IsFiniteSet(OpenOrReopened)
<1>1. Chequebook = 1 .. Cardinality(Chequebook) /\ Cardinality(Chequebook) \in Nat
  BY ChequesAssumption DEF ChequeTypes, Chequebook
<1>2. IsFiniteSet(Chequebook)
  BY <1>1, FS_Interval
<1>3. Sums \subseteq 0 .. LargestSum
  BY Largest, ChequesAssumption
<1>4. Worth \in [Chequebook -> 0 .. LargestSum]
  BY <1>1, <1>3 DEF Worth, ChequeTypes
<1>5. Checked \in [Clerks -> 0 .. LargestSum]
  <2> SUFFICES ASSUME NEW s \in Clerks
               PROVE  (IF clerk[s].at =
                        "insert" THEN clerk[s].amount ELSE 0) \in 0 .. LargestSum
    BY DEF Checked
  <2>1. clerk[s] \in ClerkStates
    BY DEF ChequeTypes
  <2>2. clerk[s].at = "insert" => clerk[s].amount \in Sums
    BY <2>1 DEF ClerkStates, Rest
  <2>3. CASE clerk[s].at = "insert"
    BY <1>3, <2>2, <2>3
  <2>4. CASE clerk[s].at # "insert"
    BY <2>4, Largest
  <2> QED
    BY <2>3, <2>4
<1>6. OpenOrReopened \in SUBSET Chequebook
  BY DEF OpenOrReopened
<1> QED
  BY <1>1, <1>2, <1>4, <1>5, <1>6, FS_Subset, ChequesAssumption

Facts ==
  /\ Chequebook = 1 .. Cardinality(Chequebook) /\ IsFiniteSet(Chequebook)
  /\ Worth \in [Chequebook -> 0 .. LargestSum]
  /\ Checked \in [Clerks -> 0 .. LargestSum]
  /\ OpenOrReopened \in SUBSET Chequebook /\ IsFiniteSet(OpenOrReopened)

\* The same, of this state and of the next.
LEMMA FactsHold == (ChequeTypes => Facts) /\ (ChequeTypes' => Facts')
<1>1. ChequeTypes => Facts
  BY ChequeFacts DEF Facts
<1>2. ChequeTypes' => Facts'
  BY <1>1, PTL
<1> QED
  BY <1>1, <1>2

OpenNow == {i \in Chequebook : cheque[i].status \in {"in_circulation", "deposited"}}

ReopenedBy(E) == {i \in Chequebook : \E s \in E : Reopens(s, i)}

\* What is open, and what a call under way opens again.
LEMMA OpenParts ==
  /\ OpenRial = SumFunctionOnSet(Worth, OpenNow)
  /\ OpenOrReopened = OpenNow \cup ReopenedBy(Clerks)
BY DEF OpenRial, OpenStatuses, OpenNow, OpenOrReopened, ReopenedBy

\* Every call adds one cheque at most to what is open.
LEMMA CallsAddLittle ==
  ASSUME ChequeTypes, NEW E \in SUBSET Clerks
  PROVE  SumFunctionOnSet(Checked, E) + SumFunctionOnSet(Worth,
           OpenNow \cup ReopenedBy(E))
           <= OpenRial + Cardinality(E) * LargestSum
<1> DEFINE total(e) ==
             SumFunctionOnSet(Checked, e) + SumFunctionOnSet(Worth,
               OpenNow \cup ReopenedBy(e))
           Good == {e \in SUBSET Clerks : total(e) <=
             OpenRial + Cardinality(e) * LargestSum}
<1>0. /\ IsFiniteSet(Chequebook) /\ Worth \in [Chequebook -> 0 .. LargestSum]
      /\ IsFiniteSet(Clerks) /\ Checked \in [Clerks -> 0 .. LargestSum] /\
           LargestSum \in Nat
  BY ChequeFacts, Largest
<1>1. OpenNow \in SUBSET Chequebook /\ \A e : ReopenedBy(e) \in SUBSET Chequebook
  BY DEF OpenNow, ReopenedBy
<1>2. \A T \in SUBSET Chequebook : IsFiniteSet(T) /\ \A i \in T : Worth[i] \in Int
  BY <1>0, FS_Subset
<1>3. \A e \in SUBSET Clerks : IsFiniteSet(e) /\ \A s \in e : Checked[s] \in Int
  BY <1>0, FS_Subset
<1>4. OpenRial \in Int /\ OpenRial = SumFunctionOnSet(Worth, OpenNow)
  BY <1>1, <1>2, SumType, OpenParts
<1>5. {} \in Good
  <2>1. OpenNow \cup ReopenedBy({}) = OpenNow
    BY DEF ReopenedBy
  <2>2. Cardinality({}) * LargestSum = 0
    BY <1>0, FS_EmptySet
  <2>3. total({}) = OpenRial
    BY <1>4, <2>1, SumEmpty
  <2> QED
    BY <1>4, <2>2, <2>3
<1>6. ASSUME NEW e \in Good, NEW x \in Clerks \ e PROVE e \cup {x} \in Good
  <2> DEFINE before == OpenNow \cup ReopenedBy(e)
             after  == OpenNow \cup ReopenedBy(e \cup {x})
  <2>0. e \in SUBSET Clerks /\ total(e) <= OpenRial + Cardinality(e) * LargestSum
    OBVIOUS
  <2>1. SumFunctionOnSet(Checked, e \cup {x}) = Checked[x] + SumFunctionOnSet(Checked, e)
    BY <1>3, SumGrows
  <2>2. Cardinality(e \cup {x}) = Cardinality(e) + 1 /\ Cardinality(e) \in Nat
    BY <1>3, FS_AddElement, FS_CardinalityType
  <2>3. (Cardinality(e) + 1) * LargestSum = Cardinality(e) * LargestSum + LargestSum
        /\ Cardinality(e) * LargestSum \in Int
    BY <1>0, <2>2
  <2>4. /\ SumFunctionOnSet(Checked, e) \in Int
        /\ SumFunctionOnSet(Worth, before) \in Int /\ SumFunctionOnSet(Worth,
             after) \in Int
    BY <1>1, <1>2, <1>3, SumType
  <2>5. Checked[x] + SumFunctionOnSet(Worth, after)
          <= SumFunctionOnSet(Worth, before) + LargestSum
    <3>1. CASE after = before
      <4> HIDE DEF before, after
      <4>1. Checked[x] \in 0 .. LargestSum
        BY <1>0
      <4> QED
        BY <1>0, <2>4, <3>1, <4>1
    <3>2. CASE after # before
      <4>1. PICK i \in Chequebook : Reopens(x, i) /\ i \notin before
        BY <3>2 DEF ReopenedBy
      <4>2. after = before \cup {i}
        BY <4>1 DEF ReopenedBy, Reopens
      <4>3. Checked[x] = 0
        BY <4>1 DEF Checked, Reopens
      <4>4. before \in SUBSET Chequebook
        BY <1>1
      <4> HIDE DEF before, after
      <4>5. SumFunctionOnSet(Worth,
              before \cup {i}) = Worth[i] + SumFunctionOnSet(Worth, before)
        <5>1. IsFiniteSet(before) /\ \A j \in before \cup {i} : Worth[j] \in Int
          BY <1>0, <1>2, <4>4
        <5> QED
          BY <4>1, <5>1, SumGrows
      <4>6. Worth[i] \in 0 .. LargestSum
        BY <1>0
      <4> QED
        BY <1>0, <2>4, <4>2, <4>3, <4>5, <4>6
    <3> QED
      BY <3>1, <3>2
  <2>6. Checked[x] \in Int
    BY <1>0
  <2>7. total(e \cup {x}) <= OpenRial + Cardinality(e \cup {x}) * LargestSum
    <3> DEFINE A == SumFunctionOnSet(Checked, e)
               B == SumFunctionOnSet(Worth, before)
               C == SumFunctionOnSet(Worth, after)
               D == Cardinality(e) * LargestSum
    <3>1. A + B <= OpenRial + D /\ total(e \cup {x}) = Checked[x] + A + C
      BY <2>0, <2>1
    <3>2. Cardinality(e \cup {x}) * LargestSum = D + LargestSum
      BY <2>2, <2>3
    <3>3. A \in Int /\ B \in Int /\ C \in Int /\ D \in Int /\
            Checked[x] + C <= B + LargestSum
      BY <2>3, <2>4, <2>5
    <3> HIDE DEF total, A, B, C, D, before, after
    <3>4. Checked[x] + A + C <= OpenRial + (D + LargestSum)
      BY <1>0, <1>4, <2>6, <3>1, <3>3
    <3> QED
      BY <3>1, <3>2, <3>4
  <2> QED
    BY <2>7
<1> HIDE DEF Good
<1>7. Good \in SUBSET SUBSET Clerks
  BY DEF Good
<1>8. Good = SUBSET Clerks
  BY <1>0, <1>5, <1>6, <1>7, SubsetInduction
<1> QED
  BY <1>8 DEF Good

\* The drawer of cheques begins in order.
LEMMA EndorsingInit == ChequesInit => Endorsing
<1> SUFFICES ASSUME ChequesInit PROVE Endorsing
  OBVIOUS
<1> USE DEF ChequesInit
<1>1. Chequebook = {} /\ Cardinality(Chequebook) = 0 /\ 1 .. 0 = {}
  BY FS_EmptySet DEF Chequebook
<1>2. ChequeTypes
  BY <1>1, ChequesAssumption DEF ChequeTypes, ClerkStates
<1>3. OpenOrReopened = {} /\ SumFunctionOnSet(Worth, OpenOrReopened) = 0
  BY <1>1, SumEmpty DEF OpenOrReopened
<1>4. SumFunctionOnSet(Checked, Clerks) = 0 /\ DOMAIN Checked = Clerks
  <2>1. \A s \in Clerks : Checked[s] = 0
    BY DEF Checked, Rest
  <2> QED
    BY <2>1, ChequesAssumption, SumOfZeros DEF Checked
<1>5. Cardinality(Clerks) \in Nat /\ Cardinality(Clerks) # 0
  BY ChequesAssumption, FS_CardinalityType, FS_EmptySet
<1>6. (Cardinality(Clerks) - 1) * LargestSum \in Nat
  BY <1>5, Largest
<1>7. OpenAndComing = 0
  BY <1>3, <1>4 DEF OpenAndComing, SumFunction
<1> QED
  BY <1>2, <1>6, <1>7, ChequesAssumption DEF Endorsing, WithinCeiling

\* The sum of what was checked, when one call changes.
LEMMA CheckedMoves ==
  ASSUME ChequeTypes, ChequeTypes', NEW s \in Clerks,
         \A t \in Clerks \ {s} : clerk'[t] = clerk[t]
  PROVE  SumFunction(Checked)' = SumFunction(Checked) - Checked[s] + Checked'[s]
<1>1. /\ Checked \in [Clerks -> 0 .. LargestSum] /\ IsFiniteSet(Clerks)
      /\ Checked' \in [Clerks -> 0 .. LargestSum]
  BY FactsHold, ChequesAssumption DEF Facts
<1>2. \A t \in Clerks \ {s} : Checked[t] = Checked'[t]
  BY DEF Checked
<1>3. \A t \in Clerks : Checked[t] \in Int /\ Checked'[t] \in Int
  BY <1>1, Largest
<1> DEFINE f == Checked
           g == Checked'
<1>4. DOMAIN f = Clerks /\ DOMAIN g = Clerks
  BY <1>1
<1>5. SumFunction(Checked)' = SumFunctionOnSet(g,
        Clerks) /\ SumFunction(Checked) = SumFunctionOnSet(f, Clerks)
  BY <1>4 DEF SumFunction
<1> HIDE DEF f, g
<1>6. SumFunctionOnSet(g, Clerks) = SumFunctionOnSet(f, Clerks) - f[s] + g[s]
  BY <1>1, <1>2, <1>3, SumUpdate DEF f, g
<1> QED
  BY <1>5, <1>6 DEF f, g

\* Sums over the cheques.
LEMMA WorthSums ==
  ASSUME ChequeTypes, ChequeTypes'
  PROVE  /\ \A S \in SUBSET Chequebook :
              /\ IsFiniteSet(S) /\ SumFunctionOnSet(Worth, S) \in Int
              /\ \A T \in SUBSET S : SumFunctionOnSet(Worth,
                   T) <= SumFunctionOnSet(Worth, S)
         /\ SumFunction(Checked) \in Int /\ Checked \in [Clerks -> Nat]
         /\ Checked' \in [Clerks -> Nat]
         /\ OpenOrReopened \in SUBSET Chequebook /\ OpenOrReopened' \in SUBSET Chequebook'
<1>1. Facts /\ Facts' /\ LargestSum \in Nat /\ 0 .. LargestSum \subseteq Nat
  BY FactsHold, Largest
<1>2. \A S \in SUBSET Chequebook : IsFiniteSet(S) /\ \A i \in S : Worth[i] \in Nat
  BY <1>1, FS_Subset DEF Facts
<1>3. Checked \in [Clerks -> Nat] /\ Checked' \in [Clerks -> Nat]
  BY <1>1 DEF Facts
<1>4. SumFunction(Checked) \in Int
  BY <1>3, ChequesAssumption, SumType DEF SumFunction
<1>5. ASSUME NEW S \in SUBSET Chequebook
      PROVE  /\ IsFiniteSet(S) /\ SumFunctionOnSet(Worth, S) \in Int
             /\ \A T \in SUBSET S : SumFunctionOnSet(Worth,
                  T) <= SumFunctionOnSet(Worth, S)
  <2>1. IsFiniteSet(S) /\ (\A i \in S : Worth[i] \in Nat) /\
          (\A i \in S : Worth[i] \in Int)
    BY <1>2
  <2>2. SumFunctionOnSet(Worth, S) \in Int
    BY <2>1, SumType
  <2>3. \A T \in SUBSET S : SumFunctionOnSet(Worth, T) <= SumFunctionOnSet(Worth, S)
    BY <2>1, SumShrinks
  <2> QED
    BY <2>1, <2>2, <2>3
<1>6. OpenOrReopened \in SUBSET Chequebook /\ OpenOrReopened' \in SUBSET Chequebook'
  BY DEF OpenOrReopened
<1> QED
  BY <1>3, <1>4, <1>5, <1>6

\* An action that adds nothing to what is checked, and opens no other cheque.
LEMMA NothingAdded ==
  ASSUME Endorsing, ChequeTypes', NEW s \in Clerks,
         \A t \in Clerks \ {s} : clerk'[t] = clerk[t],
         Checked'[s] <= Checked[s], Worth' = Worth,
           OpenOrReopened' \subseteq OpenOrReopened
  PROVE  Endorsing'
<1>0. ChequeTypes /\ WithinCeiling
  BY DEF Endorsing
<1>1. SumFunction(Checked)' = SumFunction(Checked) - Checked[s] + Checked'[s]
  BY <1>0, CheckedMoves
<1>2. /\ SumFunction(Checked) \in Int /\ Checked[s] \in Nat /\ Checked'[s] \in Nat
      /\ SumFunctionOnSet(Worth, OpenOrReopened) \in Int
      /\ SumFunctionOnSet(Worth, OpenOrReopened') \in Int
      /\ SumFunctionOnSet(Worth, OpenOrReopened') <= SumFunctionOnSet(Worth,
           OpenOrReopened)
  BY <1>0, WorthSums
<1> DEFINE b == SumFunctionOnSet(Worth, OpenOrReopened)
           c == SumFunctionOnSet(Worth, OpenOrReopened')
           d == Ceiling + (Cardinality(Clerks) - 1) * LargestSum
<1>3. OpenAndComing = SumFunction(Checked) + b /\
        OpenAndComing' = SumFunction(Checked)' + c
  BY DEF OpenAndComing
<1>4. OpenAndComing <= d /\ d \in Int
  BY <1>0, ChequesAssumption, FS_CardinalityType, Largest DEF WithinCeiling
<1>5. WithinCeiling' <=> OpenAndComing' <= d
  BY DEF WithinCeiling
<1>6. b \in Int /\ c \in Int /\ c <= b
  BY <1>2
<1> HIDE DEF b, c, d
<1>7. OpenAndComing' <= OpenAndComing /\ OpenAndComing' \in Int /\ OpenAndComing \in Int
  BY <1>1, <1>2, <1>3, <1>6
<1>8. OpenAndComing' <= d
  BY <1>4, <1>7
<1> QED
  BY <1>5, <1>8 DEF Endorsing

\* A call that writes or logs is about a cheque there is.
LEMMA StateFacts ==
  ASSUME ChequeTypes
  PROVE  /\ \A s \in Clerks : clerk[s] \in ClerkStates
         /\ \A i \in Chequebook : cheque[i] \in [amount : Sums, status : Status,
              logged : BOOLEAN]
         /\ \A s \in Clerks : clerk[s].at \in {"update", "log"} =>
              clerk[s].row \in Chequebook /\ clerk[s].to \in Status
         /\ \A s \in Clerks : clerk[s].at = "insert" => clerk[s].amount \in Sums
         /\ DOMAIN NextStatus = Status
<1>1. Chequebook = 1 .. Cardinality(Chequebook)
  BY FactsHold DEF Facts
<1> QED
  BY <1>1 DEF ChequeTypes, ClerkStates, Rest, NextStatus, Status

\* The check of the ceiling promises no more than what the ceiling leaves.
LEMMA CheckKeeps ==
  ASSUME Endorsing, NEW s \in Clerks, NEW amount \in Sums, RegisterChecks(s, amount)
  PROVE  Endorsing'
<1>0. ChequeTypes /\ WithinCeiling
  BY DEF Endorsing
<1>1. /\ clerk[s].at = "rest" /\ OpenRial + amount <= Ceiling /\ cheque' = cheque
      /\ clerk' = [clerk EXCEPT ![s] = [at |-> "insert", amount |-> amount]]
  BY DEF RegisterChecks, Allowed
<1>2. ChequeTypes'
  BY <1>0, <1>1 DEF ChequeTypes, ClerkStates, Chequebook
<1>3. clerk'[s] = [at |-> "insert",
        amount |-> amount] /\ \A t \in Clerks \ {s} : clerk'[t] = clerk[t]
  BY <1>0, <1>1 DEF ChequeTypes
<1>4. Checked'[s] = amount /\ Checked[s] = 0
  BY <1>1, <1>3 DEF Checked
<1>5. SumFunction(Checked)' = SumFunction(Checked) + amount
  BY <1>0, <1>2, <1>3, <1>4, CheckedMoves, WorthSums
<1> DEFINE E == Clerks \ {s}
<1>6. SumFunction(Checked) = Checked[s] + SumFunctionOnSet(Checked, E)
      /\ SumFunctionOnSet(Checked, E) \in Int
  <2>1. DOMAIN Checked = Clerks /\ \A t \in Clerks : Checked[t] \in Int
    BY <1>0, <1>2, WorthSums
  <2>2. IsFiniteSet(E)
    BY ChequesAssumption, FS_RemoveElement
  <2> QED
    BY <2>1, <2>2, ChequesAssumption, SumSplits, SumType DEF SumFunction
<1>7. Cardinality(E) = Cardinality(Clerks) - 1 /\ Cardinality(Clerks) \in Nat
  BY ChequesAssumption, FS_RemoveElement, FS_CardinalityType
<1>8. OpenOrReopened' = OpenNow \cup ReopenedBy(E) /\ Worth' = Worth
  BY <1>1, <1>3 DEF OpenOrReopened, OpenNow, ReopenedBy, Reopens, Worth, Chequebook
<1> DEFINE a == SumFunctionOnSet(Checked, E)
           b == SumFunctionOnSet(Worth, OpenNow \cup ReopenedBy(E))
           d == (Cardinality(Clerks) - 1) * LargestSum
<1>9. a + b <= OpenRial + d
  BY <1>0, <1>7, CallsAddLittle
<1>10. OpenAndComing' = a + amount + b
  BY <1>4, <1>5, <1>6, <1>8, ChequesAssumption DEF OpenAndComing
<1>11. a \in Int /\ b \in Int /\ d \in Int /\ OpenRial \in Int /\ amount \in Int
  <2>1. OpenNow \cup ReopenedBy(E) \in SUBSET Chequebook /\ OpenNow \in SUBSET Chequebook
    BY DEF OpenNow, ReopenedBy
  <2>2. b \in Int /\ OpenRial \in Int
    BY <1>0, <1>2, <2>1, WorthSums, OpenParts
  <2>3. d \in Int
    BY <1>7, Largest
  <2> QED
    BY <1>6, <2>2, <2>3, ChequesAssumption
<1>12. WithinCeiling' <=> OpenAndComing' <= Ceiling + d
  BY DEF WithinCeiling
<1> HIDE DEF a, b, d
<1>13. OpenAndComing' <= Ceiling + d
  BY <1>1, <1>9, <1>10, <1>11, ChequesAssumption
<1> QED
  BY <1>2, <1>12, <1>13 DEF Endorsing

\* The insertion turns what was promised into what is open.
LEMMA InsertKeeps ==
  ASSUME Endorsing, NEW s \in Clerks, RegisterInserts(s)
  PROVE  Endorsing'
<1>0. ChequeTypes /\ WithinCeiling /\ Facts
  BY FactsHold DEF Endorsing
<1> DEFINE k == Cardinality(Chequebook) + 1
           amount == clerk[s].amount
           row == [amount |-> amount, status |-> "in_circulation", logged |-> TRUE]
<1>1. /\ clerk[s].at = "insert" /\ Cardinality(Chequebook) < MaxCheques
      /\ cheque' = [i \in Chequebook \cup {k} |-> IF i \in
           Chequebook THEN cheque[i] ELSE row]
      /\ clerk' = [clerk EXCEPT ![s] = Rest]
  BY DEF RegisterInserts
<1>2. Chequebook = 1 .. Cardinality(Chequebook) /\ Cardinality(Chequebook) \in Nat /\
        amount \in Sums
  BY <1>0, <1>1, StateFacts DEF ChequeTypes, Facts
<1>3. Chequebook' = Chequebook \cup {k} /\ k \notin Chequebook /\ Chequebook' = 1 .. k
  BY <1>1, <1>2 DEF Chequebook
<1>4. Cardinality(Chequebook') = k
  <2>1. IsFiniteSet(Chequebook)
    BY <1>0 DEF Facts
  <2>2. Cardinality(Chequebook \cup {k}) = Cardinality(Chequebook) + 1
    BY <1>3, <2>1, FS_AddElement
  <2> QED
    BY <1>3, <2>2
<1>5. ChequeTypes'
  <2>1. row \in [amount : Sums, status : Status, logged : BOOLEAN]
    BY <1>2 DEF Status
  <2> HIDE DEF row, k
  <2>2. cheque' \in [1 .. k -> [amount : Sums, status : Status, logged : BOOLEAN]]
    BY <1>0, <1>1, <1>3, <2>1, StateFacts
  <2>3. clerk' \in [Clerks -> ClerkStates']
    BY <1>0, <1>1, <1>3 DEF ChequeTypes, ClerkStates
  <2>4. k \in 0 .. MaxCheques
    BY <1>1, <1>2, ChequesAssumption DEF k
  <2> QED
    BY <1>4, <2>2, <2>3, <2>4 DEF ChequeTypes
<1>6. clerk'[s] = Rest /\ \A t \in Clerks \ {s} : clerk'[t] = clerk[t]
  BY <1>0, <1>1 DEF ChequeTypes
<1>7. Checked'[s] = 0 /\ Checked[s] = amount
  BY <1>1, <1>6 DEF Checked, Rest
<1>8. SumFunction(Checked)' = SumFunction(Checked) - amount
  BY <1>0, <1>5, <1>6, <1>7, CheckedMoves, WorthSums
<1>9. OpenOrReopened' = OpenOrReopened \cup {k}
  <2>1. \A i \in Chequebook : cheque'[i] = cheque[i]
    BY <1>1
  <2>2. cheque'[k].status = "in_circulation"
    BY <1>1, <1>3
  <2>3. \A t \in Clerks, i \in Chequebook : Reopens(t, i)' <=> Reopens(t, i)
    BY <1>1, <1>6 DEF Reopens, Rest
  <2> HIDE DEF k
  <2> QED
    BY <1>3, <2>1, <2>2, <2>3 DEF OpenOrReopened
<1>10. Worth'[k] = amount /\ \A i \in Chequebook : Worth'[i] = Worth[i]
  BY <1>1, <1>3 DEF Worth
<1> HIDE DEF k, amount
<1>11. SumFunctionOnSet(Worth', OpenOrReopened') = amount + SumFunctionOnSet(Worth,
         OpenOrReopened)
  <2> DEFINE f == Worth
             g == Worth'
             S == OpenOrReopened
  <2>1. IsFiniteSet(S) /\ S \in SUBSET Chequebook
    BY <1>0 DEF Facts
  <2>2. \A i \in S : f[i] \in Int /\ f[i] = g[i]
    BY <1>0, <1>10, <2>1, Largest DEF Facts
  <2>3. g[k] = amount /\ amount \in Int /\ k \notin S
    BY <1>2, <1>3, <1>10, <2>1, ChequesAssumption
  <2> HIDE DEF f, g, S
  <2>4. SumFunctionOnSet(g, S \cup {k}) = g[k] + SumFunctionOnSet(g, S)
    <3>1. \A i \in S \cup {k} : g[i] \in Int
      BY <2>2, <2>3
    <3> QED
      BY <2>1, <2>3, <3>1, SumGrows
  <2>5. SumFunctionOnSet(f, S) = SumFunctionOnSet(g, S)
    BY <2>1, <2>2, SumSame
  <2> QED
    BY <1>9, <2>3, <2>4, <2>5 DEF f, g, S
<1>12. /\ SumFunction(Checked) \in Int /\ amount \in Int
       /\ SumFunctionOnSet(Worth, OpenOrReopened) \in Int
  BY <1>0, <1>2, <1>5, WorthSums, ChequesAssumption
<1>13. OpenAndComing' = OpenAndComing
  BY <1>8, <1>11, <1>12 DEF OpenAndComing
<1> QED
  BY <1>0, <1>5, <1>13 DEF Endorsing, WithinCeiling

\* Reading a cheque to change it promises nothing new but its reopening.
LEMMA ReadKeeps ==
  ASSUME Endorsing, NEW s \in Clerks, NEW i \in Chequebook,
         NEW to \in NextStatus[cheque[i].status], ChangeReads(s, i, to)
  PROVE  Endorsing'
<1>0. ChequeTypes
  BY DEF Endorsing
<1>1. /\ clerk[s].at = "rest" /\ cheque' = cheque
      /\ clerk' = [clerk EXCEPT ![s] = [at |-> "update", row |-> i, to |-> to]]
  BY DEF ChangeReads
<1>2. /\ cheque[i].status \in Status
      /\ to \in Status /\ (to \in {"in_circulation",
           "deposited"} => cheque[i].status = "in_circulation")
  BY <1>0, StateFacts DEF NextStatus, Status
<1>3. ChequeTypes'
  BY <1>0, <1>1, <1>2 DEF ChequeTypes, ClerkStates, Chequebook
<1>4. /\ clerk'[s] = [at |-> "update", row |-> i, to |-> to]
      /\ \A t \in Clerks \ {s} : clerk'[t] = clerk[t]
  BY <1>0, <1>1 DEF ChequeTypes
<1>5. Checked'[s] = 0 /\ Checked[s] = 0
  BY <1>1, <1>4 DEF Checked
<1>6. OpenOrReopened' \subseteq OpenOrReopened /\ Worth' = Worth
  BY <1>1, <1>2, <1>4 DEF OpenOrReopened, Reopens, Worth, Chequebook
<1> QED
  BY <1>3, <1>4, <1>5, <1>6, NothingAdded

\* The blind update turns what was read into what is open.
LEMMA WriteKeeps ==
  ASSUME Endorsing, NEW s \in Clerks, ChangeWrites(s)
  PROVE  Endorsing'
<1>0. ChequeTypes /\ Facts
  BY FactsHold DEF Endorsing
<1> DEFINE i == clerk[s].row
           to == clerk[s].to
           log == cheque[i].logged /\ cheque[i].status = to
<1>1. /\ clerk[s].at = "update" /\ clerk' = [clerk EXCEPT ![s].at = "log"]
      /\ cheque' = [cheque EXCEPT ![i].status = to, ![i].logged = log]
  BY DEF ChangeWrites
<1>2. i \in Chequebook /\ to \in Status
  BY <1>0, <1>1, StateFacts
<1>3. log \in BOOLEAN
  BY Zenon
<1> HIDE DEF log
<1>4. Chequebook' = Chequebook /\ cheque' \in [Chequebook -> [amount : Sums,
        status : Status, logged : BOOLEAN]]
  <2>1. cheque \in [Chequebook -> [amount : Sums, status : Status, logged : BOOLEAN]]
    BY <1>0 DEF Facts, ChequeTypes
  <2> QED
    BY <1>1, <1>2, <1>3, <2>1 DEF Chequebook
<1>5. /\ cheque'[i].status = to /\
           \A j \in Chequebook : cheque'[j].amount = cheque[j].amount
      /\ \A j \in Chequebook \ {i} : cheque'[j] = cheque[j]
  BY <1>0, <1>1, <1>2 DEF Facts, ChequeTypes
<1>6. /\ clerk'[s].at = "log" /\ \A t \in Clerks \ {s} : clerk'[t] = clerk[t]
      /\ clerk' \in [Clerks -> ClerkStates]
  <2> DEFINE new == [clerk[s] EXCEPT !.at = "log"]
  <2>1. clerk \in [Clerks -> ClerkStates] /\ clerk' = [clerk EXCEPT ![s] = new]
    BY <1>0, <1>1 DEF ChequeTypes
  <2>2. clerk[s] \in [at : {"update", "log"}, row : Chequebook, to : Status]
    BY <1>1, <2>1 DEF ClerkStates, Rest
  <2>3. new \in ClerkStates /\ new.at = "log"
    BY <2>2 DEF ClerkStates
  <2> HIDE DEF new
  <2> QED
    BY <2>1, <2>3
<1>7. ChequeTypes'
  BY <1>0, <1>4, <1>6 DEF ChequeTypes, ClerkStates, Facts
<1>8. Checked'[s] = 0 /\ Checked[s] = 0
  BY <1>1, <1>6 DEF Checked
<1>9. Worth' = Worth
  BY <1>4, <1>5 DEF Worth
<1>10. OpenOrReopened' \subseteq OpenOrReopened
  <2> SUFFICES ASSUME NEW j \in OpenOrReopened' PROVE j \in OpenOrReopened
    OBVIOUS
  <2>1. j \in Chequebook /\ (\A t \in Clerks : Reopens(t, j)' => Reopens(t, j))
    BY <1>4, <1>6 DEF OpenOrReopened, Reopens
  <2>2. CASE j = i
    BY <1>1, <1>5, <2>1, <2>2 DEF OpenOrReopened, Reopens
  <2>3. CASE j # i
    BY <1>5, <2>1, <2>3 DEF OpenOrReopened
  <2> QED
    BY <2>2, <2>3
<1> QED
  BY <1>6, <1>7, <1>8, <1>9, <1>10, NothingAdded

\* The line of the log changes no sum.
LEMMA LogKeeps ==
  ASSUME Endorsing, NEW s \in Clerks, ChangeLogs(s)
  PROVE  Endorsing'
<1>0. ChequeTypes /\ Facts
  BY FactsHold DEF Endorsing
<1> DEFINE i == clerk[s].row
           log == cheque[i].status = clerk[s].to
<1>1. /\ clerk[s].at = "log" /\ clerk' = [clerk EXCEPT ![s] = Rest]
      /\ cheque' = [cheque EXCEPT ![i].logged = log]
  BY DEF ChangeLogs
<1>2. i \in Chequebook
  BY <1>0, <1>1, StateFacts
<1>3. log \in BOOLEAN
  BY Zenon
<1> HIDE DEF log
<1>4. Chequebook' = Chequebook /\ cheque' \in [Chequebook -> [amount : Sums,
        status : Status, logged : BOOLEAN]]
  <2>1. cheque \in [Chequebook -> [amount : Sums, status : Status, logged : BOOLEAN]]
    BY <1>0 DEF Facts, ChequeTypes
  <2> QED
    BY <1>1, <1>2, <1>3, <2>1 DEF Chequebook
<1>5. \A j \in Chequebook : cheque'[j].amount = cheque[j].amount /\
        cheque'[j].status = cheque[j].status
  BY <1>0, <1>1, <1>2 DEF Facts, ChequeTypes
<1>6. /\ clerk'[s] = Rest /\ \A t \in Clerks \ {s} : clerk'[t] = clerk[t]
      /\ clerk' \in [Clerks -> ClerkStates]
  BY <1>0, <1>1 DEF ChequeTypes, ClerkStates
<1>7. ChequeTypes'
  BY <1>0, <1>4, <1>6 DEF ChequeTypes, ClerkStates, Facts
<1>8. Checked'[s] = 0 /\ Checked[s] = 0
  BY <1>1, <1>6 DEF Checked, Rest
<1>9. Worth' = Worth
  BY <1>4, <1>5 DEF Worth
<1>10. OpenOrReopened' \subseteq OpenOrReopened
  BY <1>4, <1>5, <1>6 DEF OpenOrReopened, Reopens, Rest
<1> QED
  BY <1>6, <1>7, <1>8, <1>9, <1>10, NothingAdded

\* A call that dies takes its promise with it.
LEMMA StopKeeps ==
  ASSUME Endorsing, NEW s \in Clerks, ClerkStops(s)
  PROVE  Endorsing'
<1>0. ChequeTypes
  BY DEF Endorsing
<1>1. clerk' = [clerk EXCEPT ![s] = Rest] /\ cheque' = cheque
  BY DEF ClerkStops
<1>2. ChequeTypes'
  BY <1>0, <1>1 DEF ChequeTypes, ClerkStates, Chequebook
<1>3. clerk'[s] = Rest /\ \A t \in Clerks \ {s} : clerk'[t] = clerk[t]
  BY <1>0, <1>1 DEF ChequeTypes
<1>4. Checked'[s] = 0 /\ Checked[s] \in Nat
  BY <1>0, <1>2, <1>3, WorthSums DEF Checked, Rest
<1>5. OpenOrReopened' \subseteq OpenOrReopened /\ Worth' = Worth
  BY <1>1, <1>3 DEF OpenOrReopened, Reopens, Worth, Chequebook, Rest
<1> QED
  BY <1>2, <1>3, <1>4, <1>5, NothingAdded

\* No step of the clerks exceeds what the ceiling and the calls under way allow.
LEMMA EndorsingNext == Endorsing /\ [ChequesNext]_chequeVars => Endorsing'
<1> SUFFICES ASSUME Endorsing, [ChequesNext]_chequeVars PROVE Endorsing'
  OBVIOUS
<1>1. CASE UNCHANGED chequeVars
  BY <1>1 DEF chequeVars, Endorsing, ChequeTypes, ClerkStates, Chequebook,
     WithinCeiling, OpenAndComing, Checked,
     OpenOrReopened, Reopens, Worth
<1> QED
  BY <1>1, CheckKeeps, InsertKeeps, ReadKeeps, WriteKeeps, LogKeeps,
     StopKeeps DEF ChequesNext

\* A drawer in order keeps the ceiling as CeilingHolds states it.
LEMMA EndorsingHolds == Endorsing => CeilingHolds
<1> SUFFICES ASSUME Endorsing PROVE CeilingHolds
  OBVIOUS
<1>1. ChequeTypes /\ WithinCeiling /\ Facts
  BY FactsHold DEF Endorsing
<1>2. Chequebook \subseteq 1 .. MaxCheques
  <2> DEFINE n == Cardinality(Chequebook)
  <2>1. n \in 0 .. MaxCheques /\ Chequebook = 1 .. n
    BY <1>1 DEF Facts, ChequeTypes
  <2> HIDE DEF n
  <2> QED
    BY <2>1, ChequesAssumption
<1>3. \A s \in Clerks : clerk[s].at \in {"rest", "insert", "update", "log"}
  BY <1>1, StateFacts DEF ClerkStates, Rest
<1> QED
  BY <1>1, <1>2, <1>3, StateFacts DEF CeilingHolds, ChequesTypeOK, WithinCeiling

\* For any number of clerks and any ceiling: the open cheques of a partner, with those that
\* calls under way have checked or may reopen, exceed the ceiling by one cheque at most for
\* every call but one (registerCheque and changeChequeStatus).
THEOREM CeilingIsSafe == ChequesSpec => []CeilingHolds
<1>1. ChequesSpec => []Endorsing
  BY EndorsingInit, EndorsingNext, PTL DEF ChequesSpec
<1> QED
  BY <1>1, EndorsingHolds, PTL

-----------------------------------------------------------------------------
(* The books: what the report counts and what the accounts say.              *)

Entries == [month : Nat, lines : [Accounts -> Int]]

BookTypes ==
  /\ month \in Periods /\ settling \in [Buys -> Periods \cup {Never}]
  /\ giveBack \in [Buys -> {"no", "received", "refunded"}]
  /\ buy \in [Buys -> [status : {"none", "pending_payment", "paid", "cancelled"},
                       created : Nat, paid : Nat, cost : Nat]]
  /\ entryOf \in [Buys -> [Documents -> Entries]]
  /\ ledger \in [Periods -> [Accounts -> Int]]
  /\ reversals \in [Buys -> [Documents -> Nat]]

\* What is paid has its entry, and only that comes back.
BuysMakeSense ==
  \A o \in Buys :
    /\ buy[o].status \in {"none", "pending_payment"} => buy[o].paid = Never
    /\ buy[o].status = "paid" => buy[o].paid # Never
    /\ buy[o].paid = Never <=> entryOf[o]["sale"].month = Never
    /\ settling[o] # Never => buy[o].status = "pending_payment"
    /\ buy[o].paid = Never => giveBack[o] = "no"
    /\ giveBack[o] = "no" => entryOf[o]["return"].month = Never

SoldIn(p) == {o \in Buys : entryOf[o]["sale"].month = p}
CostOf == [o \in Buys |-> buy[o].cost]
NothingBack(p) == \A o \in Buys : entryOf[o]["return"].month # p

SalesOf(p) == ledger[p]["sales"] = -((GoodsNet + Fare) * Cardinality(SoldIn(p)))
CostsOf(p) ==
  /\ ledger[p]["cogs"] = SumFunctionOnSet(CostOf, SoldIn(p))
  /\ ledger[p]["salesReturn"] = 0 /\ ledger[p]["feeIncome"] = 0

\* Without reversals the accounts of a month hold what its entries say.
SalesAreBooked ==
  NothingReversed => \A p \in Periods : SalesOf(p) /\ (NothingBack(p) => CostsOf(p))

Bookkeeping == BookTypes /\ BuysMakeSense /\ SalesAreBooked /\ DebtsAreBooked

-----------------------------------------------------------------------------
\* The lines of the entries.
LEMMA SaleLinesAre ==
  ASSUME NEW cost \in Nat
  PROVE  /\ SaleLines(cost) \in [Accounts -> Int]
         /\ SaleLines(cost)["sales"] = -(GoodsNet + Fare) /\
              SaleLines(cost)["cogs"] = cost
         /\ SaleLines(cost)["vatPayable"] = -GoodsVat /\
              SaleLines(cost)["salesReturn"] = 0
         /\ SaleLines(cost)["feeIncome"] = 0 /\ SaleLines(cost)["refundPayable"] = 0
BY LedgerAssumption DEF SaleLines, JournalLines, Accounts

\* The entry of a return, line by line.
LEMMA ReturnLinesAre ==
  ASSUME NEW cost \in Nat
  PROVE  /\ ReturnLines(cost) \in [Accounts -> Int]
         /\ ReturnLines(cost)["sales"] = 0
         /\ ReturnLines(cost)["vatPayable"] = GoodsVat
         /\ ReturnLines(cost)["refundPayable"] = -(GoodsNet + GoodsVat - ReturnFee)
BY LedgerAssumption DEF ReturnLines, JournalLines, Accounts

\* The entry of a refund, line by line.
LEMMA RefundLinesAre ==
  ASSUME NEW amount \in Nat, NEW method
  PROVE  /\ RefundLines(amount, method) \in [Accounts -> Int]
         /\ RefundLines(amount, method)["sales"] = 0 /\ RefundLines(amount,
              method)["cogs"] = 0
         /\ RefundLines(amount, method)["vatPayable"] = 0
         /\ RefundLines(amount, method)["salesReturn"] = 0
         /\ RefundLines(amount, method)["feeIncome"] = 0
         /\ RefundLines(amount, method)["refundPayable"] \in 0 .. amount
BY LedgerAssumption DEF RefundLines, NoLines, JournalLines, Accounts

\* What an entry does to the accounts.
LEMMA PeriodsAreFinite == IsFiniteSet(Periods) /\ MaxPeriods \in Nat
<1>1. MaxPeriods \in Nat
  BY LedgerAssumption
<1> QED
  BY <1>1, FS_Interval DEF Periods

\* An entry moves the balances by its lines, in its own period and no other.
LEMMA EntryCounts ==
  ASSUME BookTypes, NEW lines \in [Accounts -> Int], Booked(lines)
  PROVE  /\ ledger' \in [Periods -> [Accounts -> Int]]
         /\ \A p \in Periods \ {month} : ledger'[p] = ledger[p]
         /\ \A a \in Accounts : ledger'[month][a] = ledger[month][a] + lines[a]
         /\ \A a \in Accounts : Balance(a) \in Int /\ Balance(a)' = Balance(a) + lines[a]
<1>1. /\ ledger' \in [Periods -> [Accounts -> Int]]
      /\ \A p \in Periods \ {month} : ledger'[p] = ledger[p]
      /\ \A a \in Accounts : ledger'[month][a] = ledger[month][a] + lines[a]
  BY DEF BookTypes, Booked
<1>2. ASSUME NEW a \in Accounts PROVE Balance(a) \in Int /\
               Balance(a)' = Balance(a) + lines[a]
  <2> DEFINE f == [p \in Periods |-> ledger[p][a]]
             g == [p \in Periods |-> ledger'[p][a]]
  <2>1. IsFiniteSet(Periods) /\ month \in Periods
    BY PeriodsAreFinite DEF BookTypes
  <2>2. \A p \in Periods : f[p] \in Int /\ g[p] \in Int
    BY <1>1 DEF BookTypes
  <2>3. \A p \in Periods \ {month} : f[p] = g[p]
    BY <1>1
  <2>4. g[month] = f[month] + lines[a]
    BY <1>1, <2>1
  <2>5. DOMAIN f = Periods /\ DOMAIN g = Periods
    OBVIOUS
  <2>6. Balance(a) = SumFunctionOnSet(f, Periods) /\ Balance(a)' = SumFunctionOnSet(g,
          Periods)
    BY <2>5 DEF Balance, SumFunction
  <2> HIDE DEF f, g
  <2>7. SumFunctionOnSet(g, Periods) = SumFunctionOnSet(f, Periods) - f[month] + g[month]
    <3>1. IsFiniteSet(Periods) /\ month \in Periods
      BY <2>1
    <3> HIDE DEF Periods
    <3> QED
      BY <2>2, <2>3, <3>1, SumUpdate DEF f, g
  <2>8. SumFunctionOnSet(f, Periods) \in Int
    BY <2>1, <2>2, SumType
  <2>9. f[month] \in Int /\ lines[a] \in Int
    BY <2>1, <2>2
  <2> QED
    BY <2>4, <2>6, <2>7, <2>8, <2>9
<1> QED
  BY <1>1, <1>2

\* The books begin in order.
LEMMA BookkeepingInit == LedgerInit => Bookkeeping
<1> SUFFICES ASSUME LedgerInit PROVE Bookkeeping
  OBVIOUS
<1> USE DEF LedgerInit, Never
<1>1. BookTypes
  <2>1. NoLines \in [Accounts -> Int] /\ NoEntry \in Entries /\ 1 \in Periods
    BY LedgerAssumption DEF NoLines, NoEntry, Entries, Periods
  <2>2. NoBuy \in [status : {"none", "pending_payment", "paid", "cancelled"},
                   created : Nat, paid : Nat, cost : Nat]
    BY DEF NoBuy
  <2> QED
    BY <2>1, <2>2 DEF BookTypes
<1>2. BuysMakeSense
  BY DEF BuysMakeSense, NoBuy, NoEntry, Documents
<1>3. \A p \in Periods : SoldIn(p) = {}
  BY DEF SoldIn, NoEntry, Documents, Periods
<1>4. SalesAreBooked
  <2> SUFFICES ASSUME NEW p \in Periods PROVE SalesOf(p) /\ CostsOf(p)
    BY DEF SalesAreBooked
  <2>1. ledger[p] = NoLines
    OBVIOUS
  <2>2. Cardinality(SoldIn(p)) = 0 /\ SumFunctionOnSet(CostOf, SoldIn(p)) = 0
    BY <1>3, SumEmpty, FS_EmptySet
  <2> QED
    BY <2>1, <2>2, LedgerAssumption DEF SalesOf, CostsOf, NoLines, Accounts
<1>5. DebtsAreBooked
  <2>1. \A a \in Accounts : Balance(a) = 0
    <3> SUFFICES ASSUME NEW a \in Accounts PROVE Balance(a) = 0
      OBVIOUS
    <3> DEFINE f == [p \in Periods |-> ledger[p][a]]
    <3>1. IsFiniteSet(Periods) /\ \A p \in Periods : f[p] = 0
      BY LedgerAssumption, FS_Interval DEF Periods, NoLines
    <3>2. DOMAIN f = Periods
      OBVIOUS
    <3> HIDE DEF f
    <3>3. SumFunctionOnSet(f, Periods) = 0
      BY <3>1, SumOfZeros
    <3> QED
      BY <3>2, <3>3 DEF Balance, SumFunction, f
  <2>2. /\ {o \in Buys : giveBack[o] = "received"} = {}
        /\ {o \in Buys : buy[o].paid # Never /\ giveBack[o] = "no"} = {}
    BY DEF NoBuy
  <2>3. Balance("refundPayable") = 0 /\ Balance("vatPayable") = 0
    BY <2>1 DEF Accounts
  <2>4. /\ Cardinality({o \in Buys : giveBack[o] = "received"}) = 0
        /\ Cardinality({o \in Buys : buy[o].paid # Never /\ giveBack[o] = "no"}) = 0
    BY <2>2, FS_EmptySet
  <2>5. /\ GoodsNet + GoodsVat - ReturnFee \in Int /\ GoodsVat \in Int
        /\ \A x \in Int : x * 0 = 0
    BY LedgerAssumption
  <2> HIDE DEF LedgerInit
  <2> QED
    BY <2>3, <2>4, <2>5 DEF DebtsAreBooked
<1> QED
  BY <1>1, <1>2, <1>4, <1>5 DEF Bookkeeping

\* Posting a document changes its own entry and no other.
LEMMA PostingIs ==
  ASSUME BookTypes, NEW o \in Buys, NEW d \in Documents, NEW lines \in [Accounts -> Int],
         Posted(o, d, lines)
  PROVE  /\ entryOf' \in [Buys -> [Documents -> Entries]]
         /\ entryOf'[o][d].month = month
         /\ \A c \in Buys,
              e \in Documents : c # o \/ e # d => entryOf'[c][e] = entryOf[c][e]
         /\ Booked(lines)
<1> DEFINE new == [month |-> month, lines |-> lines]
<1>1. new \in Entries /\ new.month = month
  BY DEF BookTypes, Entries, Periods
<1>2. entryOf' = [entryOf EXCEPT ![o][d] = new] /\ Booked(lines)
  BY DEF Posted
<1> HIDE DEF new
<1> QED
  BY <1>1, <1>2 DEF BookTypes

\* The sums that an action leaves alone.
LEMMA QuietKeeps ==
  ASSUME Bookkeeping, BookTypes', BuysMakeSense',
         UNCHANGED <<giveBack, entryOf, ledger, reversals>>,
         \A o \in Buys : buy'[o].paid = buy[o].paid /\ buy'[o].cost = buy[o].cost
  PROVE  Bookkeeping'
<1>1. CostOf' = CostOf
  BY DEF CostOf
<1>2. /\ \A p : SoldIn(p)' = SoldIn(p) /\ (NothingBack(p)' <=> NothingBack(p))
      /\ NothingReversed' <=> NothingReversed
  BY DEF SoldIn, NothingBack, NothingReversed
<1>3. \A p : (SalesOf(p)' <=> SalesOf(p)) /\ (CostsOf(p)' <=> CostsOf(p))
  BY <1>1, <1>2 DEF SalesOf, CostsOf
<1>4. SalesAreBooked'
  BY <1>2, <1>3 DEF Bookkeeping, SalesAreBooked
<1>5. \A a : Balance(a)' = Balance(a)
  BY DEF Balance
<1>6. {o \in Buys : buy[o].paid # Never /\ giveBack[o] = "no"}'
        = {o \in Buys : buy[o].paid # Never /\ giveBack[o] = "no"}
  OBVIOUS
<1>7. {o \in Buys : giveBack[o] = "received"}' = {o \in Buys : giveBack[o] = "received"}
  OBVIOUS
<1>8. DebtsAreBooked'
  BY <1>2, <1>5, <1>6, <1>7 DEF Bookkeeping, DebtsAreBooked
<1> QED
  BY <1>4, <1>8 DEF Bookkeeping

Received == {o \in Buys : giveBack[o] = "received"}
Taxed    == {o \in Buys : buy[o].paid # Never /\ giveBack[o] = "no"}
Due      == GoodsNet + GoodsVat - ReturnFee

\* The debts, as the balances of two accounts.
LEMMA DebtsAre ==
  /\ DebtsAreBooked <=>
       (NothingReversed =>
          /\ -Balance("refundPayable") >= Due * Cardinality(Received)
          /\ -Balance("vatPayable") = GoodsVat * Cardinality(Taxed))
  /\ DebtsAreBooked' <=>
       (NothingReversed' =>
          /\ -Balance("refundPayable")' >= Due * Cardinality(Received')
          /\ -Balance("vatPayable")' = GoodsVat * Cardinality(Taxed'))
BY DEF DebtsAreBooked, Received, Taxed, Due

\* The sets that are counted are finite.
LEMMA Sizes ==
  /\ Cardinality(Received) \in Nat /\ Cardinality(Taxed) \in Nat
  /\ \A p : IsFiniteSet(SoldIn(p)) /\ Cardinality(SoldIn(p)) \in Nat
  /\ Due \in Nat /\ GoodsVat \in Nat /\ GoodsNet + Fare \in Nat
<1>1. Received \in SUBSET Buys /\ Taxed \in SUBSET Buys /\
        \A p : SoldIn(p) \in SUBSET Buys
  BY DEF Received, Taxed, SoldIn
<1>2. IsFiniteSet(Buys)
  BY LedgerAssumption
<1>3. Due \in Nat /\ GoodsVat \in Nat /\ GoodsNet + Fare \in Nat
  BY LedgerAssumption DEF Due
<1> QED
  BY <1>1, <1>2, <1>3, FS_Subset, FS_CardinalityType

\* Booking a sale keeps the books in order.
LEMMA SettlementKeeps ==
  ASSUME Bookkeeping, NEW o \in Buys, NEW cost \in UnitCosts, SettlementCommits(o, cost)
  PROVE  Bookkeeping'
<1>0. BookTypes /\ BuysMakeSense /\ cost \in Nat /\ SaleLines(cost) \in [Accounts -> Int]
  BY SaleLinesAre, LedgerAssumption DEF Bookkeeping
<1>1. /\ settling[o] # Never /\ settling' = [settling EXCEPT ![o] = Never]
      /\ buy' = [buy EXCEPT ![o].status = "paid", ![o].paid = settling[o],
           ![o].cost = cost]
      /\ Posted(o, "sale", SaleLines(cost)) /\ month' = month
      /\ giveBack' = giveBack /\ reversals' = reversals
  BY DEF SettlementCommits
<1>2. /\ month \in Periods /\ settling[o] \in Periods /\ month # Never
      /\ \A p \in Periods : p # Never /\ p \in Nat
  BY <1>0, <1>1 DEF BookTypes, Periods, Never
<1>3. /\ buy' \in [Buys -> [status : {"none", "pending_payment", "paid", "cancelled"},
                            created : Nat, paid : Nat, cost : Nat]]
      /\ buy'[o].status = "paid" /\ buy'[o].paid = settling[o] /\ buy'[o].cost = cost
      /\ \A c \in Buys \ {o} : buy'[c] = buy[c]
  BY <1>0, <1>1, <1>2 DEF BookTypes
<1>4. /\ entryOf' \in [Buys -> [Documents -> Entries]] /\
           entryOf'[o]["sale"].month = month
      /\ \A c \in Buys,
           e \in Documents : c # o \/ e # "sale" => entryOf'[c][e] = entryOf[c][e]
      /\ Booked(SaleLines(cost))
  BY <1>0, <1>1, PostingIs DEF Documents
<1>5. /\ ledger' \in [Periods -> [Accounts -> Int]]
      /\ \A p \in Periods \ {month} : ledger'[p] = ledger[p]
      /\ \A a \in Accounts : ledger'[month][a] = ledger[month][a] + SaleLines(cost)[a]
      /\ \A a \in Accounts : Balance(a) \in Int /\
           Balance(a)' = Balance(a) + SaleLines(cost)[a]
  BY <1>0, <1>4, EntryCounts
<1>6. BookTypes'
  BY <1>0, <1>1, <1>3, <1>4, <1>5 DEF BookTypes
<1>7. BuysMakeSense'
  BY <1>0, <1>1, <1>2, <1>3, <1>4 DEF BookTypes, BuysMakeSense, Documents
<1>8. /\ buy[o].paid = Never /\ giveBack[o] = "no" /\ entryOf[o]["sale"].month = Never
  BY <1>0, <1>1 DEF BuysMakeSense
<1>9. /\ NothingReversed' <=> NothingReversed
      /\ \A p \in Periods : NothingBack(p)' <=> NothingBack(p)
      /\ \A p \in Periods \ {month} : SoldIn(p)' = SoldIn(p)
      /\ \A p \in Periods : p = month => SoldIn(p)' = SoldIn(p) \cup {o}
      /\ \A p \in Periods : o \notin SoldIn(p)
  BY <1>1, <1>2, <1>4, <1>8 DEF NothingReversed, NothingBack, SoldIn, Documents
<1>10. ASSUME NEW p \in Periods
       PROVE  SumFunctionOnSet(CostOf, SoldIn(p)) \in Int /\
              SumFunctionOnSet(CostOf', SoldIn(p)) = SumFunctionOnSet(CostOf, SoldIn(p))
  <2> DEFINE S == SoldIn(p)
             f == CostOf
             g == CostOf'
  <2>1. IsFiniteSet(S) /\ S \in SUBSET (Buys \ {o})
    BY <1>9, Sizes DEF SoldIn
  <2>2. \A c \in S : f[c] \in Int /\ f[c] = g[c]
    BY <1>0, <1>3, <2>1 DEF CostOf, BookTypes
  <2> HIDE DEF S
  <2>3. SumFunctionOnSet(f, S) = SumFunctionOnSet(g, S)
    BY <2>1, <2>2, SumSame DEF f, g
  <2>4. SumFunctionOnSet(f, S) \in Int
    BY <2>1, <2>2, SumType DEF f
  <2> QED
    BY <2>3, <2>4 DEF S
<1>11. ASSUME NothingReversed', NEW p \in Periods
       PROVE  SalesOf(p)' /\ (NothingBack(p)' => CostsOf(p)')
  <2>1. SalesOf(p) /\ (NothingBack(p)' => CostsOf(p))
    BY <1>9, <1>11 DEF Bookkeeping, SalesAreBooked
  <2>2. CASE p # month
    BY <1>5, <1>9, <1>10, <2>1, <2>2 DEF SalesOf, CostsOf
  <2>3. CASE p = month
    <3>1. SalesOf(p)'
      <4>1. Cardinality(SoldIn(p)') = Cardinality(SoldIn(p)) + 1
        <5>1. IsFiniteSet(SoldIn(p)) /\ o \notin SoldIn(p)
          BY <1>9, Sizes
        <5>2. SoldIn(p)' = SoldIn(p) \cup {o}
          BY <1>9, <2>3
        <5> QED
          BY <5>1, <5>2, FS_AddElement
      <4>2. ledger'[p]["sales"] = ledger[p]["sales"] - (GoodsNet + Fare)
        BY <1>0, <1>5, <2>3, SaleLinesAre, Sizes DEF Accounts, BookTypes
      <4> DEFINE n == Cardinality(SoldIn(p))
                 x == GoodsNet + Fare
      <4>3. n \in Nat /\ x \in Nat
        BY Sizes
      <4>4. ledger[p]["sales"] = -(x * n)
        BY <2>1 DEF SalesOf
      <4> HIDE DEF n, x
      <4>5. -(x * n) - x = -(x * (n + 1))
        BY <4>3
      <4> QED
        BY <4>1, <4>2, <4>4, <4>5 DEF SalesOf, n, x
    <3>2. ASSUME NothingBack(p)' PROVE CostsOf(p)'
      <4>1. CostsOf(p)
        BY <2>1, <3>2
      <4>2. /\ ledger'[p]["cogs"] = ledger[p]["cogs"] + cost /\
                 ledger'[p]["salesReturn"] = 0
            /\ ledger'[p]["feeIncome"] = 0
        BY <1>0, <1>5, <2>3, <4>1, SaleLinesAre DEF Accounts, BookTypes, CostsOf
      <4> DEFINE S == SoldIn(p)
                 g == CostOf'
      <4>3. /\ IsFiniteSet(S) /\ o \notin S /\ SoldIn(p)' = S \cup {o}
            /\ \A c \in S \cup {o} : g[c] \in Int
        <5>1. IsFiniteSet(S) /\ o \notin S /\ S \in SUBSET Buys
          BY <1>9, Sizes DEF SoldIn
        <5>2. SoldIn(p)' = S \cup {o}
          BY <1>9, <2>3
        <5>3. \A c \in Buys : g[c] \in Int
          BY <1>3 DEF CostOf
        <5> HIDE DEF S, g
        <5> QED
          BY <5>1, <5>2, <5>3
      <4>4. g[o] = cost
        BY <1>3 DEF CostOf
      <4> HIDE DEF S
      <4>5. SumFunctionOnSet(g, S \cup {o}) = g[o] + SumFunctionOnSet(g, S)
        BY <4>3, SumGrows DEF g
      <4>6. SumFunctionOnSet(CostOf, S) \in Int /\ SumFunctionOnSet(g,
              S) = SumFunctionOnSet(CostOf, S)
        BY <1>10 DEF S
      <4> HIDE DEF g
      <4>7. SumFunctionOnSet(g, SoldIn(p)') = cost + SumFunctionOnSet(CostOf, S)
        BY <4>3, <4>4, <4>5, <4>6
      <4>8. ledger'[p]["cogs"] = SumFunctionOnSet(g, SoldIn(p)')
        BY <1>0, <4>1, <4>2, <4>6, <4>7 DEF CostsOf, S
      <4> QED
        BY <4>2, <4>8 DEF CostsOf, g
    <3> QED
      BY <3>1, <3>2
  <2> QED
    BY <2>2, <2>3
<1>12. SalesAreBooked'
  BY <1>11 DEF SalesAreBooked
<1>13. DebtsAreBooked'
  <2> SUFFICES ASSUME NothingReversed
               PROVE  /\ -Balance("refundPayable")' >= Due * Cardinality(Received')
                      /\ -Balance("vatPayable")' = GoodsVat * Cardinality(Taxed')
    BY <1>9, DebtsAre
  <2>1. /\ -Balance("refundPayable") >= Due * Cardinality(Received)
        /\ -Balance("vatPayable") = GoodsVat * Cardinality(Taxed)
    BY DebtsAre DEF Bookkeeping
  <2>2. Received' = Received /\ Taxed' = Taxed \cup {o} /\ o \notin Taxed
    BY <1>1, <1>2, <1>3, <1>8 DEF Received, Taxed
  <2>3. Cardinality(Taxed') = Cardinality(Taxed) + 1
    <3>1. IsFiniteSet(Taxed)
      BY LedgerAssumption, FS_Subset DEF Taxed
    <3> QED
      BY <2>2, <3>1, FS_AddElement
  <2>4. /\ Balance("refundPayable")' = Balance("refundPayable")
        /\ Balance("vatPayable")' = Balance("vatPayable") - GoodsVat
        /\ Balance("vatPayable") \in Int
    BY <1>0, <1>5, SaleLinesAre, Sizes DEF Accounts
  <2>5. GoodsVat * (Cardinality(Taxed) + 1) = GoodsVat * Cardinality(Taxed) + GoodsVat
    BY Sizes
  <2> QED
    BY <2>1, <2>2, <2>3, <2>4, <2>5, Sizes
<1> QED
  BY <1>6, <1>7, <1>12, <1>13 DEF Bookkeeping

\* What an entry that is not of a sale leaves of the sales.
LEMMA SalesStay ==
  ASSUME Bookkeeping, BookTypes', NEW o \in Buys, NEW d \in Documents \ {"sale"},
         NEW lines \in [Accounts -> Int], Posted(o, d, lines), lines["sales"] = 0,
         UNCHANGED <<month, buy, reversals>>,
         d = "return" => entryOf[o]["return"].month = Never,
         d # "return" => lines["cogs"] = 0 /\ lines["salesReturn"] = 0 /\
           lines["feeIncome"] = 0
  PROVE  SalesAreBooked'
<1>0. BookTypes
  BY DEF Bookkeeping
<1>1. /\ entryOf'[o][d].month = month
      /\ \A c \in Buys, e \in Documents : c # o \/ e # d => entryOf'[c][e] = entryOf[c][e]
      /\ Booked(lines)
  BY <1>0, PostingIs
<1>2. /\ \A p \in Periods \ {month} : ledger'[p] = ledger[p]
      /\ \A a \in Accounts : ledger'[month][a] = ledger[month][a] + lines[a]
  BY <1>0, <1>1, EntryCounts
<1>3. CostOf' = CostOf /\ (NothingReversed' <=> NothingReversed)
  BY DEF CostOf, NothingReversed
<1>4. \A p : SoldIn(p)' = SoldIn(p)
  BY <1>1 DEF SoldIn, Documents
<1>5. ASSUME NothingReversed', NEW p \in Periods
      PROVE  SalesOf(p)' /\ (NothingBack(p)' => CostsOf(p)')
  <2>1. ledger[p] \in [Accounts -> Int] /\ ledger'[p] \in [Accounts -> Int] /\ p # Never
    BY <1>0 DEF BookTypes, Periods, Never
  <2>2. ledger'[p]["sales"] = ledger[p]["sales"]
    BY <1>2, <2>1 DEF Accounts
  <2>3. SalesOf(p) /\ (NothingBack(p) => CostsOf(p))
    BY <1>3, <1>5 DEF Bookkeeping, SalesAreBooked
  <2>4. SalesOf(p)'
    BY <1>4, <2>2, <2>3 DEF SalesOf
  <2>5. ASSUME NothingBack(p)' PROVE CostsOf(p)'
    <3>1. NothingBack(p)
      BY <1>1, <2>1, <2>5 DEF NothingBack, Documents
    <3>2. d # "return" \/ p # month
      BY <1>1, <2>5 DEF NothingBack
    <3>3. /\ ledger'[p]["cogs"] = ledger[p]["cogs"]
          /\ ledger'[p]["salesReturn"] = ledger[p]["salesReturn"]
          /\ ledger'[p]["feeIncome"] = ledger[p]["feeIncome"]
      BY <1>2, <2>1, <3>2 DEF Accounts
    <3> QED
      BY <1>3, <1>4, <2>3, <3>1, <3>3 DEF CostsOf
  <2> QED
    BY <2>4, <2>5
<1> QED
  BY <1>5 DEF SalesAreBooked

\* Booking the return of goods keeps the books in order.
LEMMA ReceiptKeeps ==
  ASSUME Bookkeeping, NEW o \in Buys, NEW cost \in UnitCosts, ReceiveGoods(o, cost)
  PROVE  Bookkeeping'
<1> DEFINE lines == ReturnLines(cost)
<1>0. BookTypes /\ BuysMakeSense /\ lines \in [Accounts -> Int]
  BY ReturnLinesAre, LedgerAssumption DEF Bookkeeping
<1>1. /\ buy[o].status = "paid" /\ giveBack[o] = "no"
      /\ giveBack' = [giveBack EXCEPT ![o] = "received"]
      /\ Posted(o, "return", lines) /\ UNCHANGED <<month, buy, settling, reversals>>
  BY DEF ReceiveGoods
<1>2. /\ lines["sales"] = 0 /\ lines["vatPayable"] = GoodsVat /\
           lines["refundPayable"] = -Due
  BY ReturnLinesAre, LedgerAssumption DEF Due
<1> HIDE DEF lines
<1>3. /\ entryOf' \in [Buys -> [Documents -> Entries]]
      /\ \A c \in Buys,
           e \in Documents : c # o \/ e # "return" => entryOf'[c][e] = entryOf[c][e]
      /\ Booked(lines)
  BY <1>0, <1>1, PostingIs DEF Documents
<1>4. /\ ledger' \in [Periods -> [Accounts -> Int]]
      /\ \A a \in Accounts : Balance(a) \in Int /\ Balance(a)' = Balance(a) + lines[a]
  BY <1>0, <1>3, EntryCounts
<1>5. /\ giveBack' \in [Buys -> {"no", "received",
           "refunded"}] /\ giveBack'[o] = "received"
      /\ \A c \in Buys \ {o} : giveBack'[c] = giveBack[c]
  BY <1>0, <1>1 DEF BookTypes
<1>6. BookTypes'
  BY <1>0, <1>1, <1>3, <1>4, <1>5 DEF BookTypes
<1>7. buy[o].paid # Never /\ entryOf[o]["return"].month = Never
  BY <1>0, <1>1 DEF BuysMakeSense
<1>8. BuysMakeSense'
  BY <1>0, <1>1, <1>3, <1>5, <1>7 DEF BuysMakeSense, Documents
<1>9. SalesAreBooked'
  BY <1>0, <1>1, <1>2, <1>6, <1>7, SalesStay DEF Documents
<1>10. DebtsAreBooked'
  <2> SUFFICES ASSUME NothingReversed
               PROVE  /\ -Balance("refundPayable")' >= Due * Cardinality(Received')
                      /\ -Balance("vatPayable")' = GoodsVat * Cardinality(Taxed')
    BY <1>1, DebtsAre DEF NothingReversed
  <2>1. /\ -Balance("refundPayable") >= Due * Cardinality(Received)
        /\ -Balance("vatPayable") = GoodsVat * Cardinality(Taxed)
    BY DebtsAre DEF Bookkeeping
  <2>2. IsFiniteSet(Received) /\ IsFiniteSet(Taxed)
    BY LedgerAssumption, FS_Subset DEF Received, Taxed
  <2>3. Received' = Received \cup {o} /\ o \notin Received /\ Taxed' = Taxed \ {o} /\
          o \in Taxed
    BY <1>1, <1>5, <1>7 DEF Received, Taxed
  <2>4. /\ Cardinality(Received') = Cardinality(Received) + 1
        /\ Cardinality(Taxed') = Cardinality(Taxed) - 1
    BY <2>2, <2>3, FS_AddElement, FS_RemoveElement
  <2>5. /\ Balance("refundPayable")' = Balance("refundPayable") - Due
        /\ Balance("vatPayable")' = Balance("vatPayable") + GoodsVat
        /\ Balance("vatPayable") \in Int /\ Balance("refundPayable") \in Int
    BY <1>2, <1>4, Sizes DEF Accounts
  <2> DEFINE n == Cardinality(Received)
             m == Cardinality(Taxed)
  <2>6. n \in Nat /\ m \in Nat
    BY Sizes
  <2>7. Due * (n + 1) = Due * n + Due /\ GoodsVat * (m - 1) = GoodsVat * m - GoodsVat
    BY <2>6, Sizes
  <2>8. Due * n \in Int /\ GoodsVat * m \in Int
    BY <2>6, Sizes
  <2> QED
    BY <2>1, <2>4, <2>5, <2>7, <2>8, Sizes
<1> QED
  BY <1>6, <1>8, <1>9, <1>10 DEF Bookkeeping

\* Booking a refund keeps the books in order.
LEMMA RefundKeeps ==
  ASSUME Bookkeeping, NEW o \in Buys, NEW amount \in {Due, 1}, NEW method,
         Refund(o, amount, method)
  PROVE  Bookkeeping'
<1> DEFINE lines == RefundLines(amount, method)
<1>0. BookTypes /\ BuysMakeSense /\ amount \in Nat /\ amount <= Due
  BY LedgerAssumption DEF Bookkeeping, Due
<1>1. /\ giveBack[o] = "received" /\ giveBack' = [giveBack EXCEPT ![o] = "refunded"]
      /\ Posted(o, "refund", lines) /\ UNCHANGED <<month, buy, settling, reversals>>
  BY DEF Refund
<1>2. /\ lines \in [Accounts -> Int]
      /\ lines["sales"] = 0 /\ lines["cogs"] = 0 /\ lines["salesReturn"] = 0
      /\ lines["feeIncome"] = 0 /\ lines["vatPayable"] = 0
      /\ lines["refundPayable"] \in 0 .. amount
  BY <1>0, RefundLinesAre
<1> HIDE DEF lines
<1>3. /\ entryOf' \in [Buys -> [Documents -> Entries]]
      /\ \A c \in Buys,
           e \in Documents : c # o \/ e # "refund" => entryOf'[c][e] = entryOf[c][e]
      /\ Booked(lines)
  BY <1>0, <1>1, <1>2, PostingIs DEF Documents
<1>4. /\ ledger' \in [Periods -> [Accounts -> Int]]
      /\ \A a \in Accounts : Balance(a) \in Int /\ Balance(a)' = Balance(a) + lines[a]
  BY <1>0, <1>2, <1>3, EntryCounts
<1>5. /\ giveBack' \in [Buys -> {"no", "received",
           "refunded"}] /\ giveBack'[o] = "refunded"
      /\ \A c \in Buys \ {o} : giveBack'[c] = giveBack[c]
  BY <1>0, <1>1 DEF BookTypes
<1>6. BookTypes'
  BY <1>0, <1>1, <1>3, <1>4, <1>5 DEF BookTypes
<1>7. BuysMakeSense'
  BY <1>0, <1>1, <1>3, <1>5 DEF BuysMakeSense, Documents
<1>8. SalesAreBooked'
  BY <1>0, <1>1, <1>2, <1>6, SalesStay DEF Documents
<1>9. DebtsAreBooked'
  <2> SUFFICES ASSUME NothingReversed
               PROVE  /\ -Balance("refundPayable")' >= Due * Cardinality(Received')
                      /\ -Balance("vatPayable")' = GoodsVat * Cardinality(Taxed')
    BY <1>1, DebtsAre DEF NothingReversed
  <2>1. /\ -Balance("refundPayable") >= Due * Cardinality(Received)
        /\ -Balance("vatPayable") = GoodsVat * Cardinality(Taxed)
    BY DebtsAre DEF Bookkeeping
  <2>2. IsFiniteSet(Received)
    BY LedgerAssumption, FS_Subset DEF Received
  <2>3. Received' = Received \ {o} /\ o \in Received /\ Taxed' = Taxed
    BY <1>1, <1>5 DEF Received, Taxed
  <2>4. Cardinality(Received') = Cardinality(Received) - 1
    BY <2>2, <2>3, FS_RemoveElement
  <2>5. /\ Balance("refundPayable")' - Balance("refundPayable") \in 0 .. Due
        /\ Balance("vatPayable")' = Balance("vatPayable")
        /\ Balance("vatPayable") \in Int /\ Balance("refundPayable") \in Int
        /\ Balance("refundPayable")' \in Int
    BY <1>0, <1>2, <1>4, Sizes DEF Accounts
  <2> DEFINE n == Cardinality(Received)
  <2>6. n \in Nat
    BY Sizes
  <2>7. Due * (n - 1) = Due * n - Due /\ Due * n \in Int
    BY <2>6, Sizes
  <2> QED
    BY <2>1, <2>3, <2>4, <2>5, <2>7, Sizes
<1> QED
  BY <1>6, <1>7, <1>8, <1>9 DEF Bookkeeping

\* Reversing an entry keeps what the books claim of unreversed entries.
LEMMA ReversalKeeps ==
  ASSUME Bookkeeping, NEW o \in Buys, NEW d \in Documents, ReverseEntry(o, d)
  PROVE  Bookkeeping'
<1> DEFINE lines == [a \in Accounts |-> -entryOf[o][d].lines[a]]
<1>0. BookTypes /\ BuysMakeSense
  BY DEF Bookkeeping
<1>1. /\ Booked(lines) /\ reversals' = [reversals EXCEPT ![o][d] = reversals[o][d] + 1]
      /\ UNCHANGED <<month, buy, settling, giveBack, entryOf>>
  BY DEF ReverseEntry
<1>2. lines \in [Accounts -> Int]
  BY <1>0 DEF BookTypes, Entries
<1> HIDE DEF lines
<1>3. ledger' \in [Periods -> [Accounts -> Int]]
  BY <1>0, <1>1, <1>2, EntryCounts
<1>4. reversals[o][d] \in Nat
  BY <1>0 DEF BookTypes
<1>5. reversals' \in [Buys -> [Documents -> Nat]] /\
        reversals'[o][d] = reversals[o][d] + 1
  <2> DEFINE n == reversals[o][d] + 1
  <2>1. n \in Nat /\ reversals' = [reversals EXCEPT ![o][d] = n]
    BY <1>1, <1>4
  <2> HIDE DEF n
  <2>2. reversals' \in [Buys -> [Documents -> Nat]] /\ reversals'[o][d] = n
    BY <1>0, <2>1 DEF BookTypes
  <2> QED
    BY <2>2 DEF n
<1>6. BookTypes'
  BY <1>0, <1>1, <1>3, <1>5 DEF BookTypes
<1>7. BuysMakeSense'
  BY <1>0, <1>1 DEF BuysMakeSense
<1>8. ~NothingReversed'
  BY <1>4, <1>5 DEF NothingReversed
<1> QED
  BY <1>6, <1>7, <1>8 DEF Bookkeeping, SalesAreBooked, DebtsAreBooked

\* No step of the books, the orders and the calendar disturbs their order.
LEMMA BookkeepingNext == Bookkeeping /\ [LedgerNext]_ledgerVars => Bookkeeping'
<1> SUFFICES ASSUME Bookkeeping, [LedgerNext]_ledgerVars PROVE Bookkeeping'
  OBVIOUS
<1>0. BookTypes /\ BuysMakeSense
  BY DEF Bookkeeping
<1>1. ASSUME NEW o \in Buys, PlaceBuy(o) PROVE Bookkeeping'
  <2>0. month \in Nat
    BY <1>0 DEF BookTypes, Periods
  <2>1. BookTypes'
    <3> DEFINE placed == [buy EXCEPT ![o].status = "pending_payment",
                 ![o].created = month]
    <3>1. placed \in [Buys -> [status : {"none", "pending_payment", "paid", "cancelled"},
                              created : Nat, paid : Nat, cost : Nat]]
      BY <1>0, <2>0 DEF BookTypes
    <3> HIDE DEF placed
    <3> QED
      BY <1>0, <1>1, <3>1 DEF PlaceBuy, BookTypes, placed
  <2>2. BuysMakeSense' /\ \A c \in Buys : buy'[c].paid = buy[c].paid /\
          buy'[c].cost = buy[c].cost
    BY <1>0, <1>1 DEF PlaceBuy, BookTypes, BuysMakeSense, NoBuy
  <2> QED
    BY <1>1, <2>1, <2>2, QuietKeeps DEF PlaceBuy
<1>2. ASSUME NEW o \in Buys, SettlementBegins(o) PROVE Bookkeeping'
  <2>1. BookTypes' /\ BuysMakeSense'
    BY <1>0, <1>2 DEF SettlementBegins, BookTypes, BuysMakeSense
  <2> QED
    BY <1>2, <2>1, QuietKeeps DEF SettlementBegins
<1>3. ASSUME NEW o \in Buys, SettlementFails(o) PROVE Bookkeeping'
  <2>1. BookTypes' /\ BuysMakeSense'
    BY <1>0, <1>3 DEF SettlementFails, BookTypes, BuysMakeSense
  <2> QED
    BY <1>3, <2>1, QuietKeeps DEF SettlementFails
<1>4. ASSUME NEW o \in Buys, CallOff(o) PROVE Bookkeeping'
  <2>1. BookTypes'
    BY <1>0, <1>4 DEF CallOff, BookTypes
  <2>2. BuysMakeSense' /\ \A c \in Buys : buy'[c].paid = buy[c].paid /\
          buy'[c].cost = buy[c].cost
    BY <1>0, <1>4 DEF CallOff, BookTypes, BuysMakeSense
  <2> QED
    BY <1>4, <2>1, <2>2, QuietKeeps DEF CallOff
<1>5. ASSUME MonthPasses PROVE Bookkeeping'
  <2>1. BookTypes' /\ BuysMakeSense'
    BY <1>0, <1>5, PeriodsAreFinite DEF MonthPasses, BookTypes, BuysMakeSense, Periods
  <2> QED
    BY <1>5, <2>1, QuietKeeps DEF MonthPasses
<1>6. CASE UNCHANGED ledgerVars
  <2>1. BookTypes' /\ BuysMakeSense'
    BY <1>0, <1>6 DEF ledgerVars, BookTypes, BuysMakeSense
  <2> QED
    BY <1>6, <2>1, QuietKeeps DEF ledgerVars
<1> QED
  BY <1>1, <1>2, <1>3, <1>4, <1>5, <1>6, SettlementKeeps, ReceiptKeeps, RefundKeeps,
     ReversalKeeps
     DEF LedgerNext, Due

\* In a month of nothing but sales, what the report counts is what was sold.
LEMMA BookkeepingHolds == Bookkeeping => LedgerHolds
<1> SUFFICES ASSUME Bookkeeping PROVE LedgerHolds
  OBVIOUS
<1>0. BookTypes /\ BuysMakeSense /\ DebtsAreBooked
  BY DEF Bookkeeping
<1>1. ASSUME NEW p \in Periods, OnlySales(p)
      PROVE  /\ LedgerRevenue(p) = Report(p).revenue /\ ledger[p]["cogs"] = Report(p).cogs
             /\ Difference(p) = 0
             /\ GrossOfLedger(p) = Report(p).revenue + Report(p).shipping - Report(p).cogs
  <2>1. NothingReversed
    BY <1>1 DEF OnlySales, NothingReversed
  <2>2. NothingBack(p) /\ p # Never
    BY <1>1 DEF OnlySales, NothingBack, Periods, Never
  <2>3. SalesOf(p) /\ CostsOf(p)
    BY <2>1, <2>2 DEF Bookkeeping, SalesAreBooked
  <2> DEFINE sold == {o \in Buys : Counted(o, p)}
             n == Cardinality(sold)
             costs == SumFunctionOnSet(CostOf, sold)
  <2>4. sold = SoldIn(p)
    <3> SUFFICES ASSUME NEW o \in Buys
                 PROVE  Counted(o, p) <=> entryOf[o]["sale"].month = p
      BY DEF SoldIn
    <3>1. buy[o].status \in {"none", "pending_payment", "paid", "cancelled"}
      BY <1>0 DEF BookTypes
    <3> QED
      BY <1>0, <1>1, <2>2, <3>1 DEF BuysMakeSense, Counted, OnlySales
  <2>5. n \in Nat /\ costs \in Int
    <3>1. IsFiniteSet(sold) /\ sold \in SUBSET Buys
      BY <2>4, Sizes DEF SoldIn
    <3>2. \A o \in sold : CostOf[o] \in Int
      BY <1>0, <3>1 DEF CostOf, BookTypes
    <3> QED
      BY <2>4, <3>1, <3>2, Sizes, SumType DEF CostOf
  <2>6. Report(p) = [revenue |-> GoodsNet * n, shipping |-> Fare * n, cogs |-> costs]
    BY DEF Report, CostOf
  <2>7. /\ ledger[p]["sales"] = -((GoodsNet + Fare) * n) /\ ledger[p]["cogs"] = costs
        /\ ledger[p]["salesReturn"] = 0 /\ ledger[p]["feeIncome"] = 0
    BY <2>3, <2>4 DEF SalesOf, CostsOf
  <2> DEFINE r == GoodsNet * n
             s == Fare * n
  <2>8. /\ Report(p).revenue = r /\ Report(p).shipping = s /\ Report(p).cogs = costs
    BY <2>6
  <2> HIDE DEF n, costs, sold
  <2>9. r \in Nat /\ s \in Nat /\ (GoodsNet + Fare) * n = r + s
    BY <2>5, LedgerAssumption
  <2> HIDE DEF r, s
  <2>10. ledger[p]["sales"] = -(r + s)
    BY <2>7, <2>9
  <2> QED
    BY <2>5, <2>7, <2>8, <2>9, <2>10 DEF LedgerRevenue, Difference, GrossOfLedger
<1>2. LedgerTypeOK
  BY <1>0 DEF BookTypes, LedgerTypeOK
<1> QED
  BY <1>0, <1>1, <1>2 DEF LedgerHolds, ProfitAgrees

\* For any number of orders and months: in a month of nothing but sales the report of the
\* gross profit, its control and the ledger agree, and while nothing was reversed the
\* refunds and the tax that are owed are in the books (gross-profit.ts and the entries of
\* accounting/src/index.ts).
THEOREM LedgerIsSafe == LedgerSpec => []LedgerHolds
<1>1. LedgerSpec => []Bookkeeping
  BY BookkeepingInit, BookkeepingNext, PTL DEF LedgerSpec
<1> QED
  BY <1>1, BookkeepingHolds, PTL

-----------------------------------------------------------------------------
(* The purchase: what calls have read, and what the books make of it.        *)

\* The sizes of the documents.
LEMMA PaymentNumbers == InvoiceSum \in Nat \ {0} /\ Wanted \in Nat \ {0} /\
  MaxReceived \in Nat
BY PurchasingAssumption

GoodsOf(c) == IF c.at \in {"receive", "judged"} THEN DOMAIN c.goods ELSE {}

Misses(c) ==
  \E l \in Lines : received[l] + (IF l \in DOMAIN c.goods THEN c.goods[l] ELSE 0) < Wanted

\* What a call has read when it was right, and still is although others work.
CallHolds(c) ==
  /\ c.at = "decide" => c.verdict \in {"approved", "rejected"}
  /\ c.at \in {"receive", "judged"} =>
       /\ DOMAIN c.goods \subseteq Lines
       /\ \A l \in DOMAIN c.goods : c.goods[l] \in Nat /\
            received[l] + c.goods[l] <= MaxReceived
  /\ c.at = "judged" =>
       /\ c.verdict \in {"received", "partially_received"}
       /\ c.verdict = "received" => ~Misses(c)
  /\ c.at = "pay" =>
       /\ c.invoice \in DOMAIN invoices /\ c.amount \in 1 .. InvoiceSum
       /\ c.method \in {"bank", "check"}
       /\ c.payable = invoices[c.invoice] /\ c.amount <= c.payable
  /\ c.at = "cheque" => c.payment \in DOMAIN payments /\ c.to \in ChequeStates

CallsHold == DOMAIN duty = Staff /\ \A s \in Staff : CallHolds(duty[s])

\* Two calls neither receive one line nor pay one invoice.
CallsAreApart ==
  \A s, o \in Staff : s # o =>
    /\ GoodsOf(duty[s]) \cap GoodsOf(duty[o]) = {}
    /\ On(s, "pay") /\ On(o, "pay") => duty[s].invoice # duty[o].invoice

\* A payment is on an invoice there is.
PaymentsHaveInvoices == \A n \in DOMAIN payments : payments[n].invoice \in DOMAIN invoices

Buying == PurchasingHolds /\ PaymentsHaveInvoices /\ CallsHold /\ CallsAreApart

AmountOf == [n \in DOMAIN payments |-> payments[n].amount]
OnInvoice(i) == {n \in DOMAIN payments : payments[n].invoice = i}
Uncleared == {n \in DOMAIN payments : payments[n].method = "check" /\
  ~payments[n].cleared}

\* What the books claim, in terms of sums over the rows.
LEMMA BooksSay ==
  /\ InvoiceAddsUp <=> \A i \in DOMAIN invoices :
       invoices[i] + SumFunctionOnSet(AmountOf, OnInvoice(i)) = InvoiceSum
  /\ NotesAreUncleared <=> notes = SumFunctionOnSet(AmountOf, Uncleared)
  /\ OwedIsPayable <=> owed = SumFunctionOnSet(invoices, DOMAIN invoices)
BY DEF InvoiceAddsUp, NotesAreUncleared, OwedIsPayable, PaidBy, AmountOf, OnInvoice,
   Uncleared,
       SumFunction

\* The same, of the next state.
LEMMA BooksWillSay ==
  /\ InvoiceAddsUp' <=> \A i \in DOMAIN invoices' :
       invoices'[i] + SumFunctionOnSet(AmountOf', OnInvoice(i)') = InvoiceSum
  /\ NotesAreUncleared' <=> notes' = SumFunctionOnSet(AmountOf', Uncleared')
  /\ OwedIsPayable' <=> owed' = SumFunctionOnSet(invoices', DOMAIN invoices')
BY DEF InvoiceAddsUp, NotesAreUncleared, OwedIsPayable, PaidBy, AmountOf, OnInvoice,
   Uncleared,
       SumFunction

\* The rows of the books.
LEMMA RowsAre ==
  ASSUME PurchasingTypeOK
  PROVE  /\ DOMAIN invoices = 1 .. Len(invoices) /\ Len(invoices) \in Nat
         /\ DOMAIN payments = 1 .. Len(payments) /\ Len(payments) \in Nat
         /\ IsFiniteSet(DOMAIN invoices) /\ IsFiniteSet(DOMAIN payments)
         /\ \A i \in DOMAIN invoices : invoices[i] \in 0 .. InvoiceSum
         /\ \A n \in DOMAIN payments : payments[n] \in PaymentTypes /\ AmountOf[n] \in Nat
         /\ \A i : OnInvoice(i) \in SUBSET DOMAIN payments
         /\ Uncleared \in SUBSET DOMAIN payments
<1>1. /\ DOMAIN invoices = 1 .. Len(invoices) /\ Len(invoices) \in Nat
      /\ DOMAIN payments = 1 .. Len(payments) /\ Len(payments) \in Nat
      /\ \A i \in DOMAIN invoices : invoices[i] \in 0 .. InvoiceSum
      /\ \A n \in DOMAIN payments : payments[n] \in PaymentTypes
  <2>1. invoices \in Seq(0 .. InvoiceSum) /\ payments \in Seq(PaymentTypes)
    BY DEF PurchasingTypeOK
  <2> QED
    BY <2>1, LenProperties
<1>2. IsFiniteSet(DOMAIN invoices) /\ IsFiniteSet(DOMAIN payments)
  BY <1>1, FS_Interval
<1>3. \A n \in DOMAIN payments : AmountOf[n] \in Nat
  BY <1>1, PaymentNumbers DEF AmountOf, PaymentTypes
<1> QED
  BY <1>1, <1>2, <1>3 DEF OnInvoice, Uncleared

\* A call begins, goes on or ends without a trace in the tables.
LEMMA OnlyTheCall ==
  ASSUME Buying, NEW s \in Staff, NEW c, Takes(s, c), UNCHANGED <<requestVars, bookVars>>,
         CallHolds(c),
         \A o \in Staff \ {s} : /\ GoodsOf(c) \cap GoodsOf(duty[o]) = {}
                                /\ c.at = "pay" /\ On(o,
                                     "pay") => duty[o].invoice # c.invoice
  PROVE  Buying'
<1>1. PurchasingHolds' /\ PaymentsHaveInvoices'
  BY DEF Buying, PaymentsHaveInvoices, requestVars, bookVars, PurchasingHolds,
     PurchasingTypeOK, InvoiceAddsUp,
         OwedIsPayable, NotesAreUncleared, ReceivedMeansComplete, PaidBy
<1>2. /\ DOMAIN duty = Staff /\ \A o \in Staff : CallHolds(duty[o])
      /\ duty' = [duty EXCEPT ![s] = c]
  BY DEF Buying, CallsHold, Takes
<1>3. \A o \in Staff : duty'[o] = IF o = s THEN c ELSE duty[o]
  BY <1>2
<1>4. \A d : CallHolds(d)' <=> CallHolds(d)
  BY DEF CallHolds, Misses, requestVars, bookVars
<1>5. ASSUME NEW o \in Staff PROVE CallHolds(duty[o])'
  <2>1. \A d : d = duty'[o] => CallHolds(d)'
    BY <1>2, <1>3, <1>4
  <2> QED
    BY <2>1
<1>6. CallsAreApart'
  BY <1>3 DEF Buying, CallsAreApart, On
<1>7. CallsHold'
  <2>1. DOMAIN duty' = Staff
    BY <1>2
  <2> QED
    BY <1>5, <2>1 DEF CallsHold
<1> QED
  BY <1>1, <1>6, <1>7 DEF Buying

\* Who is free has read nothing.
LEMMA FreeHolds == CallHolds(Free) /\ GoodsOf(Free) = {} /\ Free.at = "free"
BY DEF CallHolds, Free, GoodsOf

Bound == {"decide", "receive", "judged", "pay", "cheque"}

\* A call leaves something in the tables, and is bound to nothing afterwards.
LEMMA EndOfTheCall ==
  ASSUME Buying, NEW s \in Staff, PurchasingHolds', PaymentsHaveInvoices',
           DOMAIN duty' = Staff,
         duty'[s].at \notin Bound, \A o \in Staff \ {s} : duty'[o] = duty[o],
         \A o \in Staff \ {s} : \A d : d = duty[o] => CallHolds(d)'
  PROVE  Buying'
<1>1. GoodsOf(duty'[s]) = {}
  BY DEF GoodsOf, Bound
<1>2. \A o \in Staff \ {s} : GoodsOf(duty'[o]) = GoodsOf(duty[o])
  OBVIOUS
<1>3. CallsAreApart'
  <2> SUFFICES ASSUME NEW o \in Staff, NEW q \in Staff, o # q
               PROVE  /\ GoodsOf(duty'[o]) \cap GoodsOf(duty'[q]) = {}
                      /\ duty'[o].at = "pay" /\ duty'[q].at = "pay"
                           => duty'[o].invoice # duty'[q].invoice
    BY DEF CallsAreApart, On
  <2>1. CASE o = s \/ q = s
    BY <1>1, <2>1 DEF Bound
  <2>2. CASE o # s /\ q # s
    BY <1>2, <2>2 DEF Buying, CallsAreApart, On
  <2> QED
    BY <2>1, <2>2
<1>4. ASSUME NEW o \in Staff PROVE CallHolds(duty[o])'
  <2>1. CASE o = s
    <3>1. \A d : d.at \notin Bound => CallHolds(d)'
      BY DEF CallHolds, Bound
    <3>2. \A d : d = duty'[o] => CallHolds(d)'
      BY <2>1, <3>1
    <3> QED
      BY <3>2
  <2>2. CASE o # s
    <3>1. \A d : d = duty[o] => CallHolds(d)'
      BY <2>2
    <3>2. \A d : d = duty'[o] => CallHolds(d)'
      BY <2>2, <3>1
    <3> QED
      BY <3>2
  <2> QED
    BY <2>1, <2>2
<1> QED
  BY <1>3, <1>4 DEF Buying, CallsHold

\* A call takes its step, and the others stay where they are.
LEMMA StepsToFree ==
  ASSUME Buying, NEW s \in Staff, NEW c, Takes(s, c)
  PROVE  DOMAIN duty' = Staff /\ duty'[s] = c /\ \A o \in Staff \ {s} : duty'[o] = duty[o]
BY DEF Buying, CallsHold, Takes

-----------------------------------------------------------------------------
\* The purchase begins in order.
LEMMA BuyingInit == PurchasingInit => Buying
<1> SUFFICES ASSUME PurchasingInit PROVE Buying
  OBVIOUS
<1>1. /\ invoices = <<>> /\ payments = <<>> /\ notes = 0 /\ owed = 0
      /\ stage = "pending_approval" /\ received = [l \in Lines |-> 0]
      /\ duty = [s \in Staff |-> Free]
  BY DEF PurchasingInit
<1>2. PurchasingTypeOK
  BY <1>1, PaymentNumbers, PurchasingAssumption DEF PurchasingTypeOK, RequestStates
<1>3. DOMAIN invoices = {} /\ DOMAIN payments = {}
  BY <1>1
<1>4. Uncleared = {}
  BY <1>3 DEF Uncleared
<1>5. InvoiceAddsUp
  BY <1>3 DEF InvoiceAddsUp
<1>6. NotesAreUncleared
  BY <1>1, <1>4, SumEmpty, BooksSay
<1>7. OwedIsPayable
  BY <1>1, <1>3, SumEmpty, BooksSay
<1>8. ReceivedMeansComplete /\ PaymentsHaveInvoices
  BY <1>1, <1>3 DEF ReceivedMeansComplete, PaymentsHaveInvoices
<1>9. CallsHold /\ CallsAreApart
  BY <1>1, FreeHolds DEF CallsHold, CallsAreApart, On
<1> QED
  BY <1>2, <1>5, <1>6, <1>7, <1>8, <1>9 DEF Buying, PurchasingHolds

\* Looks, and the end of a call without a trace.
LEMMA LooksKeep ==
  ASSUME Buying, NEW s \in Staff,
         \/ \E verdict \in {"approved", "rejected"} : DecideReads(s, verdict)
         \/ InvoiceReads(s) \/ DutyDies(s)
         \/ \E i \in DOMAIN payments, to \in ChequeStates : ChequeReads(s, i, to)
  PROVE  Buying'
<1>1. ASSUME NEW verdict \in {"approved", "rejected"}, DecideReads(s,
               verdict) PROVE Buying'
  <2> DEFINE c == [at |-> "decide", verdict |-> verdict]
  <2>1. Takes(s, c) /\ UNCHANGED <<requestVars, bookVars>>
    BY <1>1 DEF DecideReads
  <2>2. CallHolds(c) /\ GoodsOf(c) = {} /\ c.at # "pay"
    BY DEF CallHolds, GoodsOf
  <2> HIDE DEF c
  <2> QED
    BY <2>1, <2>2, OnlyTheCall
<1>2. CASE InvoiceReads(s)
  <2> DEFINE c == [at |-> "post"]
  <2>1. Takes(s, c) /\ UNCHANGED <<requestVars, bookVars>>
    BY <1>2 DEF InvoiceReads
  <2>2. CallHolds(c) /\ GoodsOf(c) = {} /\ c.at # "pay"
    BY DEF CallHolds, GoodsOf
  <2> HIDE DEF c
  <2> QED
    BY <2>1, <2>2, OnlyTheCall
<1>3. CASE DutyDies(s)
  <2>1. Takes(s, Free) /\ UNCHANGED <<requestVars, bookVars>>
    BY <1>3 DEF DutyDies, Leaves
  <2> QED
    BY <2>1, FreeHolds, OnlyTheCall
<1>4. ASSUME NEW i \in DOMAIN payments, NEW to \in ChequeStates, ChequeReads(s, i, to)
      PROVE  Buying'
  <2> DEFINE c == [at |-> "cheque", payment |-> i, to |-> to]
  <2>1. Takes(s, c) /\ UNCHANGED <<requestVars, bookVars>>
    BY <1>4 DEF ChequeReads
  <2>2. CallHolds(c) /\ GoodsOf(c) = {} /\ c.at # "pay"
    BY DEF CallHolds, GoodsOf
  <2> HIDE DEF c
  <2> QED
    BY <2>1, <2>2, OnlyTheCall
<1> QED
  BY <1>1, <1>2, <1>3, <1>4

\* A receipt takes rows that no other has, and a payment an invoice that nobody pays.
LEMMA HoldsKeep ==
  ASSUME Buying, NEW s \in Staff,
         \/ \E L \in SUBSET Lines \ {{}} : \E goods \in
              [L -> 0 .. Wanted] : ReceiveLines(s, goods)
         \/ ReceiveJudges(s)
         \/ \E i \in DOMAIN invoices, amount \in 1 .. InvoiceSum, method \in {"bank",
              "check"} :
              PayReads(s, i, amount, method)
  PROVE  Buying'
<1>0. CallHolds(duty[s]) /\ CallsAreApart /\ PurchasingTypeOK
  BY DEF Buying, CallsHold, PurchasingHolds
<1>1. ASSUME NEW L \in SUBSET Lines \ {{}}, NEW goods \in [L -> 0 .. Wanted],
             ReceiveLines(s, goods)
      PROVE  Buying'
  <2> DEFINE c == [at |-> "receive", goods |-> goods]
  <2>1. Takes(s, c) /\ UNCHANGED <<requestVars, bookVars>>
    BY <1>1 DEF ReceiveLines
  <2>2. CallHolds(c)
    BY <1>1, PaymentNumbers DEF CallHolds, ReceiveLines
  <2>3. GoodsOf(c) = L /\ c.at # "pay"
    BY DEF GoodsOf
  <2>4. \A o \in Staff : GoodsOf(duty[o]) = Held(o)
    BY DEF GoodsOf, Held
  <2>5. \A o \in Staff : Held(o) \cap L = {}
    BY <1>1 DEF ReceiveLines
  <2> HIDE DEF c
  <2> QED
    BY <2>1, <2>2, <2>3, <2>4, <2>5, OnlyTheCall
<1>2. CASE ReceiveJudges(s)
  <2> DEFINE verdict == IF CompleteWith(s) THEN "received" ELSE "partially_received"
             c == [at |-> "judged", goods |-> duty[s].goods, verdict |-> verdict]
  <2>1. Takes(s, c) /\ UNCHANGED <<requestVars, bookVars>> /\ duty[s].at = "receive"
    BY <1>2 DEF ReceiveJudges, On
  <2>2. c.goods = duty[s].goods /\ c.at = "judged" /\ c.verdict = verdict
    OBVIOUS
  <2>3. verdict \in {"received", "partially_received"}
    OBVIOUS
  <2>4. ASSUME verdict = "received" PROVE ~Misses(c)
    <3>1. CompleteWith(s)
      BY <2>4
    <3>2. \A l \in Lines :
            received[l] + (IF l \in DOMAIN c.goods THEN c.goods[l] ELSE 0) >= Wanted
      BY <2>2, <3>1 DEF CompleteWith
    <3>3. \A l \in Lines :
            received[l] + (IF l \in DOMAIN c.goods THEN c.goods[l] ELSE 0) \in Int
      BY <1>0, <2>1, <2>2 DEF CallHolds, PurchasingTypeOK
    <3> QED
      BY <3>2, <3>3, PaymentNumbers DEF Misses
  <2> HIDE DEF c, verdict
  <2>5. CallHolds(c)
    BY <1>0, <2>1, <2>2, <2>3, <2>4 DEF CallHolds
  <2>6. GoodsOf(c) = GoodsOf(duty[s]) /\ c.at # "pay"
    BY <2>1, <2>2 DEF GoodsOf
  <2> QED
    BY <1>0, <2>1, <2>5, <2>6, OnlyTheCall DEF CallsAreApart
<1>3. ASSUME NEW i \in DOMAIN invoices, NEW amount \in 1 .. InvoiceSum,
             NEW method \in {"bank", "check"}, PayReads(s, i, amount, method)
      PROVE  Buying'
  <2> DEFINE c == [at |-> "pay", invoice |-> i, amount |-> amount, method |-> method,
                   payable |-> invoices[i]]
  <2>1. Takes(s, c) /\ UNCHANGED <<requestVars,
          bookVars>> /\ ~Paying(i) /\ amount <= invoices[i]
    BY <1>3 DEF PayReads
  <2>2. CallHolds(c) /\ GoodsOf(c) = {} /\ c.invoice = i
    BY <2>1 DEF CallHolds, GoodsOf
  <2>3. \A o \in Staff : On(o, "pay") => duty[o].invoice # i
    BY <2>1 DEF Paying
  <2> HIDE DEF c
  <2> QED
    BY <2>1, <2>2, <2>3, OnlyTheCall
<1> QED
  BY <1>1, <1>2, <1>3

-----------------------------------------------------------------------------
\* The request is decided, ordered, or judged by a receipt.
LEMMA StagesKeep ==
  ASSUME Buying, NEW s \in Staff, DecideWrites(s) \/ InvoiceOrders(s) \/ ReceiveCommits(s)
  PROVE  Buying'
<1>0. /\ CallHolds(duty[s]) /\ CallsAreApart /\ PurchasingTypeOK /\ ReceivedMeansComplete
      /\ \A o \in Staff : CallHolds(duty[o])
  BY DEF Buying, CallsHold, PurchasingHolds
<1>1. /\ DOMAIN duty' = Staff /\ duty'[s].at \notin Bound
      /\ \A o \in Staff \ {s} : duty'[o] = duty[o]
  BY StepsToFree, FreeHolds DEF DecideWrites, InvoiceOrders, ReceiveCommits, Leaves, Bound
<1>2. UNCHANGED bookVars /\ PaymentsHaveInvoices'
  BY DEF DecideWrites, InvoiceOrders, ReceiveCommits, bookVars, Buying,
     PaymentsHaveInvoices
<1>3. (InvoiceAddsUp /\ OwedIsPayable /\ NotesAreUncleared)'
  BY <1>2 DEF bookVars, Buying, PurchasingHolds, InvoiceAddsUp, OwedIsPayable,
     NotesAreUncleared, PaidBy
<1>4. CASE DecideWrites(s) \/ InvoiceOrders(s)
  <2>1. stage' \in {"approved", "rejected", "ordered"} /\ received' = received
    BY <1>0, <1>4 DEF DecideWrites, InvoiceOrders, CallHolds, On
  <2>2. PurchasingTypeOK' /\ ReceivedMeansComplete'
    BY <1>0, <1>2, <2>1 DEF PurchasingTypeOK, ReceivedMeansComplete, RequestStates,
       bookVars
  <2>3. \A o \in Staff \ {s} : \A d : d = duty[o] => CallHolds(d)'
    BY <1>0, <1>2, <2>1 DEF CallHolds, Misses, bookVars
  <2>4. PurchasingHolds'
    BY <1>3, <2>2 DEF PurchasingHolds
  <2> QED
    BY <1>1, <1>2, <2>3, <2>4, EndOfTheCall
<1>5. CASE ReceiveCommits(s)
  <2> DEFINE g == duty[s].goods
  <2>1. /\ duty[s].at = "judged" /\ stage' = duty[s].verdict
        /\ received' = [l \in Lines |-> IF l \in
             DOMAIN g THEN received[l] + g[l] ELSE received[l]]
    BY <1>5 DEF ReceiveCommits, On
  <2>2. /\ DOMAIN g \subseteq Lines
        /\ \A l \in DOMAIN g : g[l] \in Nat /\ received[l] + g[l] <= MaxReceived
        /\ duty[s].verdict \in {"received", "partially_received"}
        /\ duty[s].verdict = "received" => ~Misses(duty[s])
    BY <1>0, <2>1 DEF CallHolds
  <2>3. received \in [Lines -> 0 .. MaxReceived]
    BY <1>0 DEF PurchasingTypeOK
  <2>4. /\ \A l \in Lines : received'[l] \in 0 .. MaxReceived /\
             received'[l] >= received[l]
        /\ \A l \in Lines \ DOMAIN g : received'[l] = received[l]
    BY <2>1, <2>2, <2>3, PaymentNumbers
  <2>5. PurchasingTypeOK'
    BY <1>0, <1>2, <2>1, <2>2, <2>4 DEF PurchasingTypeOK, RequestStates, bookVars
  <2>6. ReceivedMeansComplete'
    <3> SUFFICES ASSUME stage' = "received", NEW l \in Lines PROVE received'[l] >= Wanted
      BY DEF ReceivedMeansComplete
    <3>1. ~(received[l] + (IF l \in DOMAIN g THEN g[l] ELSE 0) < Wanted)
      BY <2>1, <2>2 DEF Misses
    <3>2. received'[l] = received[l] + (IF l \in DOMAIN g THEN g[l] ELSE 0)
      BY <2>1, <2>3
    <3>3. received'[l] \in Nat
      BY <2>4, PaymentNumbers
    <3> QED
      BY <3>1, <3>2, <3>3, PaymentNumbers
  <2>7. \A o \in Staff \ {s} : \A d : d = duty[o] => CallHolds(d)'
    <3> SUFFICES ASSUME NEW o \in Staff \ {s}, NEW d, d = duty[o] PROVE CallHolds(d)'
      OBVIOUS
    <3>1. CallHolds(d) /\ GoodsOf(duty[s]) \cap GoodsOf(d) = {}
      BY <1>0 DEF CallsAreApart
    <3>2. ASSUME d.at \in {"receive", "judged"}
          PROVE  /\ DOMAIN d.goods \subseteq Lines
                 /\ \A l \in DOMAIN d.goods : d.goods[l] \in Nat /\
                      received'[l] = received[l]
      <4>1. GoodsOf(d) = DOMAIN d.goods /\ GoodsOf(duty[s]) = DOMAIN g
        BY <2>1, <3>2 DEF GoodsOf
      <4> QED
        BY <2>4, <3>1, <3>2, <4>1 DEF CallHolds
    <3>3. ASSUME d.at = "judged", Misses(d)' PROVE Misses(d)
      <4>1. PICK l \in Lines :
              received'[l] + (IF l \in DOMAIN d.goods THEN d.goods[l] ELSE 0) < Wanted
        BY <3>3 DEF Misses
      <4>2. CASE l \in DOMAIN d.goods
        BY <3>2, <3>3, <4>1, <4>2 DEF Misses
      <4>3. CASE l \notin DOMAIN d.goods
        <5>1. received[l] + 0 < Wanted
          BY <2>3, <2>4, <4>1, <4>3, PaymentNumbers
        <5> QED
          BY <4>3, <5>1 DEF Misses
      <4> QED
        BY <4>2, <4>3
    <3>4. invoices' = invoices /\ payments' = payments
      BY <1>2 DEF bookVars
    <3> QED
      BY <3>1, <3>2, <3>3, <3>4 DEF CallHolds
  <2>8. PurchasingHolds'
    BY <1>3, <2>5, <2>6 DEF PurchasingHolds
  <2> QED
    BY <1>1, <1>2, <2>7, <2>8, EndOfTheCall
<1> QED
  BY <1>4, <1>5

\* A new invoice asks for all it came to.
LEMMA PostingKeeps ==
  ASSUME Buying, NEW s \in Staff, InvoicePosts(s)
  PROVE  Buying'
<1>0. /\ PurchasingTypeOK /\ ReceivedMeansComplete /\ \A o \in Staff : CallHolds(duty[o])
      /\ InvoiceAddsUp /\ OwedIsPayable /\ NotesAreUncleared
  BY DEF Buying, CallsHold, PurchasingHolds
<1> DEFINE k == Len(invoices) + 1
<1>1. /\ Len(invoices) < MaxInvoices /\ invoices' = Append(invoices, InvoiceSum)
      /\ owed' = owed + InvoiceSum /\ UNCHANGED <<stage, received, payments, notes>>
  BY DEF InvoicePosts, requestVars
<1>2. Takes(s, [at |-> "order"])
  BY DEF InvoicePosts
<1>3. /\ DOMAIN duty' = Staff /\ duty'[s].at \notin Bound
      /\ \A o \in Staff \ {s} : duty'[o] = duty[o]
  BY <1>2, StepsToFree DEF Bound
<1>4. /\ DOMAIN invoices = 1 .. Len(invoices) /\ Len(invoices) \in Nat
      /\ IsFiniteSet(DOMAIN invoices) /\
           \A i \in DOMAIN invoices : invoices[i] \in 0 .. InvoiceSum
      /\ \A n \in DOMAIN payments : payments[n] \in PaymentTypes
  BY <1>0, RowsAre
<1>5. /\ invoices' \in Seq(0 .. InvoiceSum) /\ Len(invoices') = k
      /\ \A i \in DOMAIN invoices : invoices'[i] = invoices[i]
      /\ invoices'[k] = InvoiceSum
  <2>1. invoices \in Seq(0 .. InvoiceSum) /\ InvoiceSum \in 0 .. InvoiceSum
    BY <1>0, PaymentNumbers DEF PurchasingTypeOK
  <2> QED
    BY <1>1, <1>4, <2>1, AppendProperties
<1>6. DOMAIN invoices' = DOMAIN invoices \cup {k} /\ k \notin DOMAIN invoices
  <2>1. DOMAIN invoices' = 1 .. Len(invoices')
    BY <1>5, LenProperties
  <2> QED
    BY <1>4, <1>5, <2>1
<1>7. PurchasingTypeOK' /\ ReceivedMeansComplete'
  <2>1. k <= MaxInvoices
    BY <1>1, <1>4, PurchasingAssumption
  <2>2. owed' \in Nat
    BY <1>0, <1>1, PaymentNumbers DEF PurchasingTypeOK
  <2> HIDE DEF k
  <2> QED
    BY <1>0, <1>1, <1>5, <2>1, <2>2 DEF PurchasingTypeOK, ReceivedMeansComplete
<1> HIDE DEF k
<1>8. OwedIsPayable'
  <2>1. SumFunctionOnSet(invoices', DOMAIN invoices \cup {k})
          = invoices'[k] + SumFunctionOnSet(invoices', DOMAIN invoices)
    <3>1. \A i \in DOMAIN invoices \cup {k} : invoices'[i] \in Int
      BY <1>4, <1>5, PaymentNumbers
    <3> QED
      BY <1>4, <1>6, <3>1, SumGrows
  <2>2. SumFunctionOnSet(invoices', DOMAIN invoices) = SumFunctionOnSet(invoices,
          DOMAIN invoices)
    <3>1. \A i \in DOMAIN invoices : invoices[i] \in Int /\ invoices[i] = invoices'[i]
      BY <1>4, <1>5, PaymentNumbers
    <3> QED
      BY <1>4, <3>1, SumSame
  <2>3. owed = SumFunctionOnSet(invoices, DOMAIN invoices) /\ owed \in Nat
    BY <1>0, BooksSay DEF PurchasingTypeOK
  <2>4. owed' = SumFunctionOnSet(invoices', DOMAIN invoices')
    BY <1>1, <1>5, <1>6, <2>1, <2>2, <2>3, PaymentNumbers
  <2> QED
    BY <2>4, BooksWillSay
<1>9. NotesAreUncleared'
  BY <1>0, <1>1 DEF NotesAreUncleared, PaidBy
<1>10. InvoiceAddsUp'
  <2>1. AmountOf' = AmountOf /\ \A i : OnInvoice(i)' = OnInvoice(i)
    BY <1>1 DEF AmountOf, OnInvoice
  <2>2. OnInvoice(k) = {}
    <3>1. \A n \in DOMAIN payments : payments[n].invoice \in DOMAIN invoices
      BY DEF Buying, PaymentsHaveInvoices
    <3> QED
      BY <1>6, <3>1 DEF OnInvoice
  <2>3. invoices'[k] + SumFunctionOnSet(AmountOf, OnInvoice(k)) = InvoiceSum
    BY <1>5, <2>2, SumEmpty, PaymentNumbers
  <2> QED
    BY <1>0, <1>5, <1>6, <2>1, <2>3, BooksSay, BooksWillSay
<1>11. \A o \in Staff \ {s} : \A d : d = duty[o] => CallHolds(d)'
  BY <1>0, <1>1, <1>5, <1>6 DEF CallHolds, Misses
<1>12. PurchasingHolds'
  BY <1>7, <1>8, <1>9, <1>10 DEF PurchasingHolds
<1>13. PaymentsHaveInvoices'
  BY <1>1, <1>6 DEF Buying, PaymentsHaveInvoices
<1> QED
  BY <1>3, <1>11, <1>12, <1>13, EndOfTheCall

\* A payment takes from its invoice what it adds to the payments of it.
LEMMA PaymentKeeps ==
  ASSUME Buying, NEW s \in Staff, PayCommits(s)
  PROVE  Buying'
<1> DEFINE p == duty[s]
           k == Len(payments) + 1
           j == duty[s].invoice
           r == PaymentRow(p.invoice, p.amount, p.method, FALSE, "in_circulation")
<1>0. /\ PurchasingTypeOK /\ ReceivedMeansComplete /\ \A o \in Staff : CallHolds(duty[o])
      /\ InvoiceAddsUp /\ OwedIsPayable /\ NotesAreUncleared /\ CallsAreApart
      /\ PaymentsHaveInvoices
  BY DEF Buying, CallsHold, PurchasingHolds
<1>1. /\ duty[s].at = "pay" /\ payments' = Append(payments, r)
      /\ invoices' = [invoices EXCEPT ![p.invoice] = p.payable - p.amount]
      /\ owed' = owed - p.amount
      /\ notes' = IF p.method = "check" THEN notes + p.amount ELSE notes
      /\ UNCHANGED <<stage, received>>
  BY DEF PayCommits, requestVars, On
<1>2. /\ j \in DOMAIN invoices /\ p.amount \in 1 .. InvoiceSum
      /\ p.method \in {"bank",
           "check"} /\ p.payable = invoices[j] /\ p.amount <= p.payable
  BY <1>0, <1>1 DEF CallHolds
<1>3. /\ DOMAIN duty' = Staff /\ duty'[s].at \notin Bound
      /\ \A o \in Staff \ {s} : duty'[o] = duty[o]
  BY StepsToFree, FreeHolds DEF PayCommits, Leaves, Bound
<1>4. /\ DOMAIN invoices = 1 .. Len(invoices) /\ Len(invoices) \in Nat
      /\ DOMAIN payments = 1 .. Len(payments) /\ Len(payments) \in Nat
      /\ IsFiniteSet(DOMAIN invoices) /\ IsFiniteSet(DOMAIN payments)
      /\ \A i \in DOMAIN invoices : invoices[i] \in 0 .. InvoiceSum
      /\ \A n \in DOMAIN payments : payments[n] \in PaymentTypes /\ AmountOf[n] \in Nat
      /\ \A i : OnInvoice(i) \in SUBSET DOMAIN payments
      /\ Uncleared \in SUBSET DOMAIN payments
  BY <1>0, RowsAre
<1>5. r \in PaymentTypes
  <2>1. j \in 1 .. MaxInvoices
    BY <1>0, <1>2, <1>4, PurchasingAssumption DEF PurchasingTypeOK
  <2> QED
    BY <1>2, <2>1 DEF PaymentRow, PaymentTypes, ChequeStates
<1>6. /\ r.invoice = j /\ r.amount = p.amount /\ r.method = p.method /\ ~r.cleared
  BY DEF PaymentRow
<1> HIDE DEF r
<1>7. /\ payments' \in Seq(PaymentTypes) /\ Len(payments') = k
      /\ \A n \in DOMAIN payments : payments'[n] = payments[n]
      /\ payments'[k] = r
  <2>1. payments \in Seq(PaymentTypes)
    BY <1>0 DEF PurchasingTypeOK
  <2> QED
    BY <1>1, <1>4, <1>5, <2>1, AppendProperties
<1>8. DOMAIN payments' = DOMAIN payments \cup {k} /\ k \notin DOMAIN payments
  <2>1. DOMAIN payments' = 1 .. Len(payments')
    BY <1>7, LenProperties
  <2> QED
    BY <1>4, <1>7, <2>1
<1> HIDE DEF k
<1>9. /\ DOMAIN invoices' = DOMAIN invoices /\ invoices'[j] = invoices[j] - p.amount
      /\ \A i \in DOMAIN invoices \ {j} : invoices'[i] = invoices[i]
      /\ \A i \in DOMAIN invoices : invoices'[i] \in 0 .. InvoiceSum
  <2>1. DOMAIN invoices' = DOMAIN invoices /\ invoices'[j] = p.payable - p.amount
    BY <1>1, <1>2
  <2>2. \A i \in DOMAIN invoices \ {j} : invoices'[i] = invoices[i]
    BY <1>1
  <2>3. invoices[j] - p.amount \in 0 .. InvoiceSum
    BY <1>2, <1>4, PaymentNumbers
  <2> QED
    BY <1>2, <1>4, <2>1, <2>2, <2>3
<1>10. invoices' \in Seq(0 .. InvoiceSum) /\ Len(invoices') = Len(invoices)
  <2>1. invoices \in Seq(0 .. InvoiceSum)
    BY <1>0 DEF PurchasingTypeOK
  <2>2. p.payable - p.amount \in 0 .. InvoiceSum
    BY <1>2, <1>4, PaymentNumbers
  <2> QED
    BY <1>1, <1>2, <1>4, <2>1, <2>2, ExceptSeq
<1>11. /\ \A n \in DOMAIN payments : AmountOf'[n] = AmountOf[n]
       /\ AmountOf'[k] = p.amount
       /\ \A n \in DOMAIN payments \cup {k} : AmountOf'[n] \in Nat
  <2>1. \A n \in DOMAIN payments' : AmountOf'[n] = payments'[n].amount
    BY DEF AmountOf
  <2>2. \A n \in DOMAIN payments : AmountOf[n] = payments[n].amount
    BY DEF AmountOf
  <2>3. \A n \in DOMAIN payments : AmountOf'[n] = AmountOf[n]
    BY <1>7, <1>8, <2>1, <2>2
  <2>4. AmountOf'[k] = p.amount
    BY <1>6, <1>7, <1>8, <2>1
  <2> QED
    BY <1>2, <1>4, <2>3, <2>4
<1>12. \A X \in SUBSET DOMAIN payments :
         /\ SumFunctionOnSet(AmountOf', X) = SumFunctionOnSet(AmountOf, X)
         /\ SumFunctionOnSet(AmountOf',
              X \cup {k}) = p.amount + SumFunctionOnSet(AmountOf, X)
         /\ SumFunctionOnSet(AmountOf, X) \in Nat
  <2> SUFFICES ASSUME NEW X \in SUBSET DOMAIN payments
               PROVE  /\ SumFunctionOnSet(AmountOf', X) = SumFunctionOnSet(AmountOf, X)
                      /\ SumFunctionOnSet(AmountOf',
                           X \cup {k}) = p.amount + SumFunctionOnSet(AmountOf, X)
                      /\ SumFunctionOnSet(AmountOf, X) \in Nat
    OBVIOUS
  <2>1. IsFiniteSet(X) /\ k \notin X
    BY <1>4, <1>8, FS_Subset
  <2>2. \A n \in X : AmountOf[n] \in Int /\ AmountOf[n] = AmountOf'[n] /\
          AmountOf[n] \in Nat
    BY <1>4, <1>11
  <2>3. SumFunctionOnSet(AmountOf, X) = SumFunctionOnSet(AmountOf', X)
    BY <2>1, <2>2, SumSame
  <2>4. \A n \in X \cup {k} : AmountOf'[n] \in Int
    BY <1>11
  <2>5. SumFunctionOnSet(AmountOf',
          X \cup {k}) = AmountOf'[k] + SumFunctionOnSet(AmountOf', X)
    BY <2>1, <2>4, SumGrows
  <2>6. SumFunctionOnSet(AmountOf, X) \in Nat
    BY <2>1, <2>2, SumNat
  <2> QED
    BY <1>11, <2>3, <2>5, <2>6
<1>13. Uncleared' = IF p.method = "check" THEN Uncleared \cup {k} ELSE Uncleared
  BY <1>6, <1>7, <1>8 DEF Uncleared
<1>14. InvoiceAddsUp'
  <2> SUFFICES ASSUME NEW i \in DOMAIN invoices
               PROVE  invoices'[i] + SumFunctionOnSet(AmountOf',
                        {n \in DOMAIN payments' : payments'[n].invoice = i}) = InvoiceSum
    BY <1>9, BooksWillSay DEF OnInvoice
  <2>1. invoices[i] + SumFunctionOnSet(AmountOf, OnInvoice(i)) = InvoiceSum
    BY <1>0, BooksSay
  <2>2. {n \in DOMAIN payments' : payments'[n].invoice = i}
          = IF i = j THEN OnInvoice(i) \cup {k} ELSE OnInvoice(i)
    BY <1>6, <1>7, <1>8 DEF OnInvoice
  <2>5. OnInvoice(i) \in SUBSET DOMAIN payments
    BY <1>4
  <2>6. SumFunctionOnSet(AmountOf, OnInvoice(i)) \in Nat /\ invoices[i] \in Nat
    <3>1. SumFunctionOnSet(AmountOf, OnInvoice(i)) \in Nat
      BY <1>12, <2>5
    <3>2. invoices[i] \in Nat
      BY <1>4, PaymentNumbers
    <3> QED
      BY <3>1, <3>2
  <2>3. CASE i = j
    <3>1. SumFunctionOnSet(AmountOf', OnInvoice(i) \cup {k})
            = p.amount + SumFunctionOnSet(AmountOf, OnInvoice(i))
      BY <1>12, <2>5
    <3>2. invoices'[i] = invoices[i] - p.amount /\ p.amount \in Nat
      BY <1>2, <1>9, <2>3, PaymentNumbers
    <3>3. {n \in DOMAIN payments' : payments'[n].invoice = i} = OnInvoice(i) \cup {k}
      BY <2>2, <2>3
    <3>4. (invoices[i] - p.amount) + (p.amount + SumFunctionOnSet(AmountOf, OnInvoice(i)))
            = InvoiceSum
      BY <2>1, <2>6, <3>2
    <3> QED
      BY <3>1, <3>2, <3>3, <3>4
  <2>4. CASE i # j
    <3>1. SumFunctionOnSet(AmountOf', OnInvoice(i)) = SumFunctionOnSet(AmountOf,
            OnInvoice(i))
      BY <1>12, <2>5
    <3>2. invoices'[i] = invoices[i]
      BY <1>9, <2>4
    <3>3. {n \in DOMAIN payments' : payments'[n].invoice = i} = OnInvoice(i)
      BY <2>2, <2>4
    <3> QED
      BY <2>1, <3>1, <3>2, <3>3
  <2> QED
    BY <2>3, <2>4
<1>15. NotesAreUncleared' /\ notes' \in Nat
  <2>1. notes = SumFunctionOnSet(AmountOf, Uncleared) /\ notes \in Nat
    BY <1>0, BooksSay DEF PurchasingTypeOK
  <2>2. notes' = SumFunctionOnSet(AmountOf', Uncleared')
    <3>8. CASE p.method = "check"
      <4>1. notes' = notes + p.amount
        BY <1>1, <3>8
      <4>2. SumFunctionOnSet(AmountOf',
              Uncleared \cup {k}) = p.amount + SumFunctionOnSet(AmountOf, Uncleared)
        BY <1>4, <1>12
      <4>3. Uncleared' = Uncleared \cup {k}
        BY <1>13, <3>8
      <4>4. notes + p.amount = p.amount + notes
        BY <1>2, <2>1, PaymentNumbers
      <4> QED
        BY <2>1, <4>1, <4>2, <4>3, <4>4
    <3>9. CASE p.method # "check"
      <4>1. notes' = notes
        BY <1>1, <3>9
      <4>2. SumFunctionOnSet(AmountOf', Uncleared) = SumFunctionOnSet(AmountOf, Uncleared)
        BY <1>4, <1>12
      <4>3. Uncleared' = Uncleared
        BY <1>13, <3>9
      <4> QED
        BY <2>1, <4>1, <4>2, <4>3
    <3> QED
      BY <3>8, <3>9
  <2> QED
    BY <1>1, <1>2, <2>1, <2>2, BooksWillSay
<1>16. OwedIsPayable' /\ owed' \in Nat
  <2>1. owed = SumFunctionOnSet(invoices, DOMAIN invoices) /\ owed \in Nat
    BY <1>0, BooksSay DEF PurchasingTypeOK
  <2>2. SumFunctionOnSet(invoices', DOMAIN invoices)
          = SumFunctionOnSet(invoices, DOMAIN invoices) - invoices[j] + invoices'[j]
    <3>1. \A i \in DOMAIN invoices : invoices[i] \in Int /\ invoices'[i] \in Int
      BY <1>4, <1>9
    <3>2. \A i \in DOMAIN invoices \ {j} : invoices[i] = invoices'[i]
      BY <1>9
    <3>3. j \in DOMAIN invoices /\ IsFiniteSet(DOMAIN invoices)
      BY <1>2, <1>4
    <3> HIDE DEF j
    <3> QED
      BY <3>1, <3>2, <3>3, SumUpdate
  <2>3. owed' = SumFunctionOnSet(invoices', DOMAIN invoices')
    BY <1>1, <1>2, <1>4, <1>9, <2>1, <2>2
  <2>4. SumFunctionOnSet(invoices', DOMAIN invoices') \in Nat
    <3>1. \A i \in DOMAIN invoices' : invoices'[i] \in Nat
      BY <1>9, PaymentNumbers
    <3>2. IsFiniteSet(DOMAIN invoices')
      BY <1>4, <1>9
    <3> QED
      BY <3>1, <3>2, SumNat
  <2> QED
    BY <2>3, <2>4, BooksWillSay
<1>17. PurchasingTypeOK' /\ ReceivedMeansComplete'
  BY <1>0, <1>1, <1>7, <1>10, <1>15, <1>16 DEF PurchasingTypeOK, ReceivedMeansComplete
<1>18. PaymentsHaveInvoices'
  BY <1>0, <1>2, <1>6, <1>7, <1>8, <1>9 DEF PaymentsHaveInvoices
<1>19. \A o \in Staff \ {s} : \A d : d = duty[o] => CallHolds(d)'
  <2> SUFFICES ASSUME NEW o \in Staff \ {s}, NEW d, d = duty[o] PROVE CallHolds(d)'
    OBVIOUS
  <2>1. CallHolds(d) /\ (d.at = "pay" => d.invoice # j)
    BY <1>0, <1>1 DEF CallsAreApart, On
  <2>2. d.at = "pay"
          => d.invoice \in DOMAIN invoices' /\ invoices'[d.invoice] = invoices[d.invoice]
    BY <1>9, <2>1 DEF CallHolds
  <2>3. received' = received /\ DOMAIN payments \subseteq DOMAIN payments'
    BY <1>1, <1>8
  <2>4. Misses(d)' <=> Misses(d)
    BY <2>3 DEF Misses
  <2> QED
    BY <2>1, <2>2, <2>3, <2>4 DEF CallHolds
<1>20. PurchasingHolds'
  BY <1>14, <1>15, <1>16, <1>17 DEF PurchasingHolds
<1> QED
  BY <1>3, <1>18, <1>19, <1>20, EndOfTheCall

\* A cheque moves: its payment keeps its invoice, its amount and its method.
LEMMA ChequesKeep ==
  ASSUME Buying, NEW s \in Staff,
         ChequeWrites(s) \/ \E i \in DOMAIN payments : ClearSupplierCheck(s, i)
  PROVE  Buying'
<1>0. /\ PurchasingTypeOK /\ ReceivedMeansComplete /\ \A o \in Staff : CallHolds(duty[o])
      /\ InvoiceAddsUp /\ OwedIsPayable /\ NotesAreUncleared /\ CallsAreApart
      /\ PaymentsHaveInvoices /\ DOMAIN duty = Staff
  BY DEF Buying, CallsHold, PurchasingHolds
<1>4. /\ DOMAIN payments = 1 .. Len(payments) /\ Len(payments) \in Nat
      /\ IsFiniteSet(DOMAIN payments)
      /\ \A n \in DOMAIN payments : payments[n] \in PaymentTypes /\ AmountOf[n] \in Nat
      /\ Uncleared \in SUBSET DOMAIN payments
  BY <1>0, RowsAre
<1>5. ASSUME NEW i \in DOMAIN payments, NEW cleared \in BOOLEAN, NEW to \in ChequeStates,
             payments' = [payments EXCEPT ![i] = WithCheque(@, cleared, to)],
             UNCHANGED <<stage, received, invoices, owed>>, notes' \in Nat,
             notes' = SumFunctionOnSet(AmountOf, {n \in DOMAIN payments :
                        payments[n].method = "check" /\
                          ~(IF n = i THEN cleared ELSE payments[n].cleared)}),
             DOMAIN duty' = Staff, duty'[s].at \notin Bound,
             \A o \in Staff \ {s} : duty'[o] = duty[o]
      PROVE  Buying'
  <2> DEFINE r == WithCheque(payments[i], cleared, to)
  <2>1. /\ r.invoice = payments[i].invoice /\ r.amount = payments[i].amount
        /\ r.method = payments[i].method /\ r.cleared = cleared
    BY DEF WithCheque, PaymentRow
  <2>2. r \in PaymentTypes
    <3>1. payments[i] \in PaymentTypes
      BY <1>4
    <3> QED
      BY <1>5, <3>1 DEF WithCheque, PaymentRow, PaymentTypes
  <2>3. payments' = [payments EXCEPT ![i] = r]
    BY <1>5
  <2> HIDE DEF r
  <2>4. payments' \in Seq(PaymentTypes) /\ Len(payments') = Len(payments)
    <3>1. payments \in Seq(PaymentTypes) /\ i \in 1 .. Len(payments)
      BY <1>0, <1>4 DEF PurchasingTypeOK
    <3> QED
      BY <2>2, <2>3, <3>1, ExceptSeq
  <2>5. /\ DOMAIN payments' = DOMAIN payments /\ payments'[i] = r
        /\ \A n \in DOMAIN payments \ {i} : payments'[n] = payments[n]
    BY <2>3
  <2>6. \A n \in DOMAIN payments :
          /\ payments'[n].invoice = payments[n].invoice /\
               payments'[n].amount = payments[n].amount
          /\ payments'[n].method = payments[n].method
    BY <2>1, <2>5
  <2>7. AmountOf' = AmountOf /\ \A k : OnInvoice(k)' = OnInvoice(k)
    BY <2>5, <2>6 DEF AmountOf, OnInvoice
  <2>8. InvoiceAddsUp' /\ OwedIsPayable'
    BY <1>0, <1>5, <2>7, BooksSay, BooksWillSay
  <2>9. NotesAreUncleared'
    <3>1. Uncleared' = {n \in DOMAIN payments :
                         payments[n].method = "check" /\
                           ~(IF n = i THEN cleared ELSE payments[n].cleared)}
      <4>1. \A n \in DOMAIN payments :
              payments'[n].cleared = IF n = i THEN cleared ELSE payments[n].cleared
        BY <2>1, <2>5
      <4> QED
        BY <2>5, <2>6, <4>1 DEF Uncleared
    <3> QED
      BY <1>5, <2>7, <3>1, BooksWillSay
  <2>10. PurchasingTypeOK' /\ ReceivedMeansComplete'
    BY <1>0, <1>5, <2>4 DEF PurchasingTypeOK, ReceivedMeansComplete
  <2>11. PurchasingHolds'
    BY <2>8, <2>9, <2>10 DEF PurchasingHolds
  <2>12. PaymentsHaveInvoices'
    BY <1>0, <1>5, <2>5, <2>6 DEF PaymentsHaveInvoices
  <2>13. \A o \in Staff \ {s} : \A d : d = duty[o] => CallHolds(d)'
    BY <1>0, <1>5, <2>5 DEF CallHolds, Misses
  <2> QED
    BY <1>5, <2>11, <2>12, <2>13, EndOfTheCall
<1>6. CASE ChequeWrites(s)
  <2> DEFINE i == duty[s].payment
  <2>1. i \in DOMAIN payments /\ duty[s].to \in ChequeStates
    BY <1>0, <1>6 DEF ChequeWrites, On, CallHolds
  <2>2. /\ payments' = [payments EXCEPT ![i] = WithCheque(@, @.cleared, duty[s].to)]
        /\ UNCHANGED <<stage, received, invoices, owed, notes>>
    BY <1>6 DEF ChequeWrites, requestVars
  <2>3. payments' = [payments EXCEPT ![i] = WithCheque(@, payments[i].cleared,
          duty[s].to)]
    BY <2>1, <2>2
  <2>4. payments[i].cleared \in BOOLEAN
    BY <1>4, <2>1 DEF PaymentTypes
  <2>5. notes = SumFunctionOnSet(AmountOf, Uncleared) /\ notes \in Nat
    BY <1>0, BooksSay DEF PurchasingTypeOK
  <2>6. Uncleared = {n \in DOMAIN payments :
          payments[n].method = "check" /\
            ~(IF n = i THEN payments[i].cleared ELSE payments[n].cleared)}
    BY DEF Uncleared
  <2>7. /\ DOMAIN duty' = Staff /\ duty'[s].at \notin Bound
        /\ \A o \in Staff \ {s} : duty'[o] = duty[o]
    BY <1>6, StepsToFree, FreeHolds DEF ChequeWrites, Leaves, Bound
  <2> HIDE DEF i
  <2> QED
    BY <1>5, <2>1, <2>2, <2>3, <2>4, <2>5, <2>6, <2>7
<1>7. ASSUME NEW i \in DOMAIN payments, ClearSupplierCheck(s, i) PROVE Buying'
  <2>1. /\ duty[s].at = "free" /\ payments[i].method = "check" /\ ~payments[i].cleared
        /\ payments' = [payments EXCEPT ![i] = WithCheque(@, TRUE, "settled")]
        /\ notes' = notes - payments[i].amount
        /\ UNCHANGED <<stage, received, invoices, owed, duty>>
    BY <1>7 DEF ClearSupplierCheck, requestVars, On
  <2>2. notes = SumFunctionOnSet(AmountOf, Uncleared) /\ notes \in Nat
    BY <1>0, BooksSay DEF PurchasingTypeOK
  <2> DEFINE X == {n \in DOMAIN payments :
                   payments[n].method = "check" /\
                     ~(IF n = i THEN TRUE ELSE payments[n].cleared)}
  <2>3. i \in Uncleared /\ X = Uncleared \ {i}
    BY <2>1 DEF Uncleared
  <2>4. IsFiniteSet(Uncleared) /\ IsFiniteSet(X) /\ X \in SUBSET DOMAIN payments
    BY <1>4, FS_Subset
  <2>5. SumFunctionOnSet(AmountOf, Uncleared) = AmountOf[i] + SumFunctionOnSet(AmountOf,
          Uncleared \ {i})
    <3>1. \A n \in Uncleared : AmountOf[n] \in Int
      BY <1>4
    <3> QED
      BY <2>3, <2>4, <3>1, SumSplits
  <2>6. SumFunctionOnSet(AmountOf, X) \in Nat
    <3>1. \A n \in X : AmountOf[n] \in Nat
      BY <1>4, <2>4
    <3> HIDE DEF X
    <3> QED
      BY <2>4, <3>1, SumNat
  <2>7. AmountOf[i] = payments[i].amount /\ AmountOf[i] \in Nat
    BY <1>4 DEF AmountOf
  <2>8. notes' = SumFunctionOnSet(AmountOf, X)
    <3>1. notes = payments[i].amount + SumFunctionOnSet(AmountOf, X)
      BY <2>2, <2>3, <2>5, <2>7
    <3> HIDE DEF X
    <3> QED
      BY <2>1, <2>6, <2>7, <3>1
  <2>9. "settled" \in ChequeStates /\ duty[s].at \notin Bound
    BY <2>1 DEF ChequeStates, Bound
  <2>10. DOMAIN duty' = Staff /\ duty'[s].at \notin Bound
    BY <1>0, <2>1, <2>9
  <2> QED
    BY <1>5, <2>1, <2>6, <2>8, <2>9, <2>10
<1> QED
  BY <1>6, <1>7

-----------------------------------------------------------------------------
\* No step of the staff disturbs the purchase.
LEMMA BuyingNext == Buying /\ [PurchasingNext]_purchasingVars => Buying'
<1> SUFFICES ASSUME Buying, [PurchasingNext]_purchasingVars PROVE Buying'
  OBVIOUS
<1>1. CASE UNCHANGED purchasingVars
  <2>1. UNCHANGED <<requestVars, bookVars, duty>>
    BY <1>1 DEF purchasingVars
  <2>2. PurchasingHolds' /\ PaymentsHaveInvoices' /\ CallsAreApart'
    BY <2>1 DEF Buying, PaymentsHaveInvoices, requestVars, bookVars, PurchasingHolds,
       PurchasingTypeOK,
         InvoiceAddsUp, OwedIsPayable, NotesAreUncleared, ReceivedMeansComplete, PaidBy,
           CallsAreApart, On
  <2>3. CallsHold'
    BY <2>1 DEF Buying, CallsHold, CallHolds, Misses, requestVars, bookVars
  <2> QED
    BY <2>2, <2>3 DEF Buying
<1>2. CASE PurchasingNext
  <2>1. PICK s \in Staff :
          \/ \/ \E verdict \in {"approved", "rejected"} : DecideReads(s, verdict)
             \/ InvoiceReads(s) \/ DutyDies(s)
             \/ \E i \in DOMAIN payments, to \in ChequeStates : ChequeReads(s, i, to)
          \/ \/ \E L \in SUBSET Lines \ {{}} : \E goods \in
               [L -> 0 .. Wanted] : ReceiveLines(s, goods)
             \/ ReceiveJudges(s)
             \/ \E i \in DOMAIN invoices, amount \in 1 .. InvoiceSum,
                  method \in {"bank", "check"} :
                  PayReads(s, i, amount, method)
          \/ DecideWrites(s) \/ InvoiceOrders(s) \/ ReceiveCommits(s)
          \/ InvoicePosts(s) \/ PayCommits(s)
          \/ ChequeWrites(s) \/ \E i \in DOMAIN payments : ClearSupplierCheck(s, i)
    BY <1>2 DEF PurchasingNext
  <2> QED
    BY <2>1, LooksKeep, HoldsKeep, StagesKeep, PostingKeeps, PaymentKeeps, ChequesKeep
<1> QED
  BY <1>1, <1>2

\* For any number of staff, lines, invoices and payments: invoices are paid down by their
\* payments, the notes are the cheques that did not clear, what is owed is what can be
\* paid, and no request that misses goods is closed (procurement and accounting).
THEOREM PurchasesAddUp == PurchasingSpec => []PurchasingHolds
<1>1. PurchasingInit => Buying
  BY BuyingInit
<1>2. Buying /\ [PurchasingNext]_purchasingVars => Buying'
  BY BuyingNext
<1>3. Buying => PurchasingHolds
  BY DEF Buying
<1> QED
  BY <1>1, <1>2, <1>3, PTL DEF PurchasingSpec

-----------------------------------------------------------------------------
(* The returned goods: no more than was bought, no more than was paid.       *)

\* The prices of the line, and the set of its returns.
LEMMA LineNumbers ==
  /\ IsFiniteSet(Returns) /\ Purchased \in Nat \ {0} /\ NetTotal \in Nat /\
       TaxTotal \in Nat
  /\ FeePercent \in 0 .. 100 /\ MaxRows \in Nat \ {0}
BY ReturnsAssumption

\* The smaller of two numbers, as the code caps a fee.
LEMMA MinOfTwo ==
  ASSUME NEW a \in Int, NEW b \in Int
  PROVE  Min({a, b}) = IF a <= b THEN a ELSE b
<1> DEFINE m == IF a <= b THEN a ELSE b
<1>1. m \in {a, b} /\ \A y \in {a, b} : m <= y
  OBVIOUS
<1>2. \A x \in {a, b} : (\A y \in {a, b} : x <= y) => x = m
  OBVIOUS
<1> QED
  BY <1>1, <1>2 DEF Min

\* Rounding half up adds half a unit at most.
LEMMA RoundedDown ==
  ASSUME NEW a \in Nat, NEW b \in Nat \ {0}
  PROVE  RoundHalfUp(a, b) \in Nat /\ (2 * b) * RoundHalfUp(a, b) <= 2 * a + b
<1> DEFINE n == 2 * a + b
           d == 2 * b
<1>1. n \in Nat /\ n \in Int /\ d \in Nat \ {0}
  OBVIOUS
<1>2. RoundHalfUp(a, b) = n \div d
  BY DEF RoundHalfUp
<1> HIDE DEF n, d
<1>3. n \div d \in Nat
  BY <1>1, DivisionOfNat
<1>4. d * (n \div d) <= n
  BY <1>1, Division
<1> QED
  BY <1>2, <1>3, <1>4 DEF n, d

\* A part of the line is worth its share of it, and half a rial for each unit more.
LEMMA PartIsAShare ==
  ASSUME NEW total \in Nat, NEW q \in 0 .. Purchased
  PROVE  /\ PartOf(total, q, 0) \in Nat
         /\ (2 * Purchased) * PartOf(total, q, 0) <= q * (2 * total + Purchased)
<1> DEFINE unit == RoundHalfUp(total, Purchased)
<1>1. unit \in Nat /\ (2 * Purchased) * unit <= 2 * total + Purchased
  BY RoundedDown, LineNumbers
<1>2. CASE q = Purchased
  <2>1. PartOf(total, q, 0) = total
    BY <1>2 DEF PartOf
  <2>2. (2 * Purchased) * total <= Purchased * (2 * total + Purchased)
    <3>1. Purchased * (2 * total + Purchased) =
            (2 * Purchased) * total + Purchased * Purchased
      BY LineNumbers
    <3>2. Purchased * Purchased \in Nat
      BY LineNumbers
    <3> QED
      BY <3>1, <3>2, LineNumbers
  <2> QED
    BY <1>2, <2>1, <2>2
<1>3. CASE q # Purchased
  <2>1. PartOf(total, q, 0) = Min({unit * q, Max({total - unit * 0, 0})})
    BY <1>3 DEF PartOf
  <2> HIDE DEF unit
  <2>2. total - unit * 0 = total /\ unit * q \in Nat
    BY <1>1, LineNumbers
  <2>3. Max({total, 0}) = total
    BY MaxOfTwo
  <2>4. PartOf(total, q, 0) = IF unit * q <= total THEN unit * q ELSE total
    <3>1. PartOf(total, q, 0) = Min({unit * q, total})
      BY <2>1, <2>2, <2>3
    <3> DEFINE a == unit * q
    <3>2. a \in Int
      BY <2>2
    <3> HIDE DEF a
    <3>3. Min({a, total}) = IF a <= total THEN a ELSE total
      BY <3>2, MinOfTwo
    <3> QED
      BY <3>1, <3>3 DEF a
  <2> DEFINE part == PartOf(total, q, 0)
  <2>5. part \in Nat /\ part <= unit * q
    BY <2>2, <2>4
  <2> HIDE DEF part
  <2>6. (2 * Purchased) * part <= (2 * Purchased) * (unit * q)
    BY <2>2, <2>5, LineNumbers
  <2>7. (2 * Purchased) * (unit * q) = q * ((2 * Purchased) * unit)
    BY <1>1, LineNumbers
  <2>8. q * ((2 * Purchased) * unit) <= q * (2 * total + Purchased)
    <3> DEFINE a == (2 * Purchased) * unit
               b == 2 * total + Purchased
    <3>1. a \in Int /\ b \in Int /\ a <= b /\ q \in Nat
      BY <1>1, LineNumbers
    <3> HIDE DEF a, b
    <3>2. q * a <= q * b
      BY <3>1
    <3> QED
      BY <3>2 DEF a, b
  <2>9. (2 * Purchased) * part <= q * (2 * total + Purchased)
    <3>1. /\ (2 * Purchased) * part \in Int /\ q * (2 * total + Purchased) \in Int
          /\ q * ((2 * Purchased) * unit) \in Int
      BY <1>1, <2>5, LineNumbers
    <3> QED
      BY <2>6, <2>7, <2>8, <3>1
  <2> QED
    BY <2>5, <2>9 DEF part
<1> QED
  BY <1>2, <1>3

\* Price and tax together.
LEMMA LineIsAShare ==
  ASSUME NEW q \in 0 .. Purchased
  PROVE  /\ PartOf(NetTotal, q, 0) \in Nat /\ PartOf(TaxTotal, q, 0) \in Nat
         /\ Purchased * (PartOf(NetTotal, q, 0) + PartOf(TaxTotal, q, 0))
              <= (NetTotal + TaxTotal + Purchased) * q
<1> DEFINE m == PartOf(NetTotal, q, 0)
           n == PartOf(TaxTotal, q, 0)
<1>1. /\ m \in Nat /\ (2 * Purchased) * m <= q * (2 * NetTotal + Purchased)
      /\ n \in Nat /\ (2 * Purchased) * n <= q * (2 * TaxTotal + Purchased)
  BY PartIsAShare, LineNumbers
<1> HIDE DEF m, n
<1>2. /\ (2 * Purchased) * m = 2 * (Purchased * m) /\
           (2 * Purchased) * n = 2 * (Purchased * n)
      /\ q * (2 * NetTotal + Purchased) = 2 * (q * NetTotal) + q * Purchased
      /\ q * (2 * TaxTotal + Purchased) = 2 * (q * TaxTotal) + q * Purchased
  BY <1>1, LineNumbers
<1>3. /\ Purchased * (m + n) = Purchased * m + Purchased * n
      /\ (NetTotal + TaxTotal + Purchased) * q =
           q * NetTotal + q * TaxTotal + q * Purchased
  BY <1>1, LineNumbers
<1>4. /\ Purchased * m \in Int /\ Purchased * n \in Int /\ q * NetTotal \in Int
      /\ q * TaxTotal \in Int /\ q * Purchased \in Int
  BY <1>1, LineNumbers
<1>5. Purchased * (m + n) <= (NetTotal + TaxTotal + Purchased) * q
  BY <1>1, <1>2, <1>3, <1>4
<1> QED
  BY <1>1, <1>5 DEF m, n

\* A restocking fee is never negative.
LEMMA FeeIsNoGift ==
  ASSUME ReturnsTypeOK, NEW r \in Returns, NEW net \in Nat, NEW used
  PROVE  Fee(r, net, used) \in Nat
<1>1. net * FeePercent \in Nat
  BY LineNumbers
<1>2. RoundHalfUp(net * FeePercent, 100) \in Nat
  BY <1>1, RoundedDown
<1> QED
  BY <1>2 DEF Fee

-----------------------------------------------------------------------------
Whole == NetTotal + TaxTotal + Purchased

\* What a return has been given, by how far it went.
ReturnHolds(r) ==
  /\ status[r] \notin {"refund_pending", "refunded"} => backOnShelf[r] = 0 /\ paid[r] = 0
  /\ status[r] = "refund_pending" => planned[r] = due[r] /\ paid[r] = 0
  /\ r \notin doubled => /\ backOnShelf[r] <= quantity[r]
                         /\ Purchased * due[r] <= Whole * quantity[r]
  /\ credit[r] <= paid[r] /\ paid[r] <= due[r]

Returning ==
  ReturnsTypeOK /\ NoUnitReturnedTwice /\ PayableIsOwed /\
    \A r \in Returns : ReturnHolds(r)

Unpaid == [r \in Returns |-> due[r] - (paid[r] - credit[r])]

\* The account of the refunds, as a sum over the returns.
LEMMA PayableSays ==
  /\ PayableIsOwed <=> payable = SumFunctionOnSet(Unpaid, Returns)
  /\ PayableIsOwed' <=> payable' = SumFunctionOnSet(Unpaid', Returns)
BY DEF PayableIsOwed, Unpaid, SumFunction

\* What the types say of the returns.
LEMMA ReturnsAre ==
  ASSUME ReturnsTypeOK
  PROVE  /\ \A r \in Returns : /\ status[r] \in ReturnStatus /\
                                    quantity[r] \in 0 .. Purchased
                               /\ planned[r] \in Nat /\ due[r] \in Nat /\ paid[r] \in Nat /\ credit[r] \in Nat
                               /\ backOnShelf[r] \in Nat /\ quantity[r] \in Nat
         /\ DOMAIN quantity = Returns /\ DOMAIN due = Returns /\
              DOMAIN backOnShelf = Returns
         /\ Live \subseteq Returns /\ IsFiniteSet(Live) /\ IsFiniteSet(Returns)
         /\ AlreadyReturned \in Nat
<1>1. /\ \A r \in Returns : /\ status[r] \in ReturnStatus /\
                                 quantity[r] \in 0 .. Purchased
                            /\ planned[r] \in Nat /\ due[r] \in Nat /\ paid[r] \in Nat /\ credit[r] \in Nat
                            /\ backOnShelf[r] \in Nat /\ quantity[r] \in Nat
      /\ DOMAIN quantity = Returns /\ DOMAIN due = Returns /\ DOMAIN backOnShelf = Returns
  BY LineNumbers DEF ReturnsTypeOK
<1>2. Live \subseteq Returns /\ IsFiniteSet(Live) /\ IsFiniteSet(Returns)
  BY LineNumbers, FS_Subset DEF Live
<1>3. AlreadyReturned \in Nat
  <2>1. \A r \in Live : quantity[r] \in Nat
    BY <1>1, <1>2
  <2> QED
    BY <1>2, <2>1, SumNat DEF AlreadyReturned
<1> QED
  BY <1>1, <1>2, <1>3

\* Returns in order add up as ReturnsAddUp states it.
LEMMA ReturningAddsUp == Returning => ReturnsAddUp
<1> SUFFICES ASSUME Returning PROVE ReturnsAddUp
  OBVIOUS
<1>1. ReturnsTypeOK /\ \A r \in Returns : ReturnHolds(r)
  BY DEF Returning
<1>2. /\ \A r \in Returns : /\ status[r] \in ReturnStatus /\
                                 quantity[r] \in 0 .. Purchased
                            /\ planned[r] \in Nat /\ due[r] \in Nat /\ paid[r] \in Nat
                            /\ backOnShelf[r] \in Nat /\ quantity[r] \in Nat
      /\ DOMAIN quantity = Returns /\ DOMAIN due = Returns /\ DOMAIN backOnShelf = Returns
      /\ Live \subseteq Returns /\ IsFiniteSet(Live) /\ IsFiniteSet(Returns)
      /\ AlreadyReturned \in Nat
  BY <1>1, ReturnsAre
<1>3. \A r \in Returns \ Live : due[r] = 0 /\ backOnShelf[r] = 0
  BY <1>1 DEF Live, ReturnHolds, ReturnsTypeOK
<1>4. Live \in SUBSET Returns /\ AlreadyReturned <= Purchased
  BY <1>2 DEF Returning, NoUnitReturnedTwice
<1>5. ShelfGetsBackWhatItGave
  <2> SUFFICES ASSUME doubled = {} PROVE SumFunctionOnSet(backOnShelf,
                        Returns) <= Purchased
    BY <1>2 DEF ShelfGetsBackWhatItGave, SumFunction
  <2>1. \A r \in Returns : backOnShelf[r] \in Int
    BY <1>2
  <2>2. SumFunctionOnSet(backOnShelf, Returns) = SumFunctionOnSet(backOnShelf, Live)
    BY <1>2, <1>3, <1>4, <2>1, SumOfPart
  <2>3. \A r \in Live : backOnShelf[r] \in Int /\ quantity[r] \in Int /\
          1 * backOnShelf[r] <= 1 * quantity[r]
    BY <1>1, <1>2 DEF ReturnHolds
  <2>4. 1 * SumFunctionOnSet(backOnShelf, Live) <= 1 * SumFunctionOnSet(quantity, Live)
    BY <1>2, <2>3, SumScaled
  <2>5. SumFunctionOnSet(backOnShelf, Live) \in Int
    <3>1. \A r \in Live : backOnShelf[r] \in Int
      BY <1>2
    <3> QED
      BY <1>2, <3>1, SumType
  <2> QED
    BY <1>2, <1>4, <2>2, <2>4, <2>5, LineNumbers DEF AlreadyReturned
<1>6. LeakIsBounded
  <2> SUFFICES ASSUME doubled = {} PROVE SumFunctionOnSet(due, Returns) <= Whole
    BY <1>2 DEF LeakIsBounded, SumFunction, Whole
  <2>1. \A r \in Returns : due[r] \in Int
    BY <1>2
  <2>2. SumFunctionOnSet(due, Returns) = SumFunctionOnSet(due, Live)
    BY <1>2, <1>3, <1>4, <2>1, SumOfPart
  <2>3. \A r \in Live : due[r] \in Int /\ quantity[r] \in Int /\
          Purchased * due[r] <= Whole * quantity[r]
    BY <1>1, <1>2 DEF ReturnHolds
  <2>4. Purchased \in Nat /\ Whole \in Nat
    BY LineNumbers DEF Whole
  <2>5. Purchased * SumFunctionOnSet(due, Live) <= Whole * AlreadyReturned
    BY <1>2, <2>3, <2>4, SumScaled DEF AlreadyReturned
  <2>6. SumFunctionOnSet(due, Live) \in Int
    <3>1. \A r \in Live : due[r] \in Int
      BY <1>2
    <3> QED
      BY <1>2, <3>1, SumType
  <2>7. Whole * AlreadyReturned <= Whole * Purchased
    BY <1>2, <1>4, <2>4
  <2> DEFINE d == SumFunctionOnSet(due, Live)
  <2>8. d \in Int /\ Purchased * d <= Whole * Purchased
    BY <1>2, <2>4, <2>5, <2>6, <2>7
  <2> HIDE DEF d
  <2>9. ASSUME d > Whole PROVE FALSE
    <3>1. d - Whole \in Nat \ {0} /\ Purchased * (d - Whole) >= 1
      BY <2>4, <2>8, <2>9, LineNumbers
    <3>2. Purchased * (d - Whole) = Purchased * d - Whole * Purchased
      BY <2>4, <2>8
    <3> QED
      BY <2>4, <2>8, <3>1, <3>2
  <2>10. d <= Whole
    BY <2>4, <2>8, <2>9
  <2> QED
    BY <2>2, <2>10 DEF d
<1>7. PaidWithinDue
  BY <1>1 DEF PaidWithinDue, ReturnHolds
<1> QED
  BY <1>1, <1>5, <1>6, <1>7 DEF ReturnsAddUp, Returning

-----------------------------------------------------------------------------
\* The returns of a line begin in order.
LEMMA ReturningInit == ReturnsInit => Returning
<1> SUFFICES ASSUME ReturnsInit PROVE Returning
  OBVIOUS
<1>1. ReturnsTypeOK
  BY LineNumbers DEF ReturnsInit, ReturnsTypeOK, ReturnStatus, Kinds
<1>2. Live = {}
  BY DEF Live, ReturnsInit
<1>3. NoUnitReturnedTwice
  <2>1. AlreadyReturned = 0
    BY <1>2, SumEmpty DEF AlreadyReturned
  <2> QED
    BY <2>1, LineNumbers DEF NoUnitReturnedTwice
<1>4. PayableIsOwed
  <2>1. \A r \in Returns : Unpaid[r] = 0
    BY DEF Unpaid, ReturnsInit
  <2>2. SumFunctionOnSet(Unpaid, Returns) = 0
    BY <2>1, LineNumbers, SumOfZeros
  <2> QED
    BY <2>2, PayableSays DEF ReturnsInit
<1>5. \A r \in Returns : ReturnHolds(r)
  <2>1. Purchased * 0 = 0 /\ Whole * 0 = 0
    BY LineNumbers DEF Whole
  <2> QED
    BY <2>1 DEF ReturnHolds, ReturnsInit
<1> QED
  BY <1>1, <1>3, <1>4, <1>5 DEF Returning

\* The clock, the order and the warranty are no part of what adds up.
LEMMA WorldKeeps ==
  ASSUME Returning, UNCHANGED <<status, kind, quantity, moneyVars, doubled>>,
         (orderPaid \in BOOLEAN /\ inWindow \in BOOLEAN /\ covered \in BOOLEAN
            /\ autoApprove \in BOOLEAN)'
  PROVE  Returning'
<1>1. UNCHANGED <<status, kind, quantity, planned, due, paid, credit, backOnShelf,
        payable, doubled>>
  BY DEF moneyVars
<1>2. ReturnsTypeOK'
  BY <1>1 DEF Returning, ReturnsTypeOK
<1>3. NoUnitReturnedTwice' /\ PayableIsOwed'
  BY <1>1 DEF Returning, NoUnitReturnedTwice, PayableIsOwed, AlreadyReturned, Live
<1>4. \A r \in Returns : ReturnHolds(r)'
  BY <1>1 DEF Returning, ReturnHolds
<1> QED
  BY <1>2, <1>3, <1>4 DEF Returning

\* A request takes units that no live return has.
LEMMA RequestKeeps ==
  ASSUME Returning, NEW r \in Returns, NEW k \in Kinds, NEW q \in 1 .. Purchased,
         RequestReturn(r, k, q)
  PROVE  Returning'
<1>0. ReturnsTypeOK /\ PayableIsOwed /\ \A t \in Returns : ReturnHolds(t)
  BY DEF Returning
<1>1. /\ status[r] = "none" /\ q <= Purchased - AlreadyReturned
      /\ quantity' = [quantity EXCEPT ![r] = q] /\ kind' = [kind EXCEPT ![r] = k]
      /\ \E to \in {"approved", "requested"} : status' = [status EXCEPT ![r] = to]
      /\ UNCHANGED <<orderPaid, inWindow, covered, autoApprove, planned, due, paid,
           credit, backOnShelf, payable, doubled>>
  BY DEF RequestReturn, Eligible, shopVars, moneyVars
<1>2. PICK to \in {"approved", "requested"} : status' = [status EXCEPT ![r] = to]
  BY <1>1
<1>3. /\ \A t \in Returns : quantity[t] \in Nat
      /\ Live \subseteq Returns /\ IsFiniteSet(Live) /\ AlreadyReturned \in Nat
  BY <1>0, ReturnsAre
<1>4. /\ status'[r] = to /\ quantity'[r] = q /\ due[r] = 0
      /\ \A t \in Returns \ {r} : status'[t] = status[t] /\ quantity'[t] = quantity[t]
  BY <1>0, <1>1, <1>2 DEF ReturnsTypeOK
<1>5. ReturnsTypeOK'
  <2>1. status' \in [Returns -> ReturnStatus]
    BY <1>0, <1>2 DEF ReturnsTypeOK, ReturnStatus
  <2>2. kind' \in [Returns -> Kinds] /\ quantity' \in [Returns -> 0 .. Purchased]
    BY <1>0, <1>1, LineNumbers DEF ReturnsTypeOK
  <2> QED
    BY <1>0, <1>1, <1>4, <2>1, <2>2 DEF ReturnsTypeOK
<1>6. Live' = Live \cup {r} /\ r \notin Live
  BY <1>1, <1>4 DEF Live
<1>7. NoUnitReturnedTwice'
  <2>1. SumFunctionOnSet(quantity', Live \cup {r}) = q + SumFunctionOnSet(quantity', Live)
    <3>1. \A t \in Live \cup {r} : quantity'[t] \in Int
      BY <1>3, <1>4, LineNumbers
    <3> QED
      BY <1>3, <1>4, <1>6, <3>1, SumGrows
  <2>2. SumFunctionOnSet(quantity, Live) = SumFunctionOnSet(quantity', Live)
    <3>1. \A t \in Live : quantity[t] \in Int /\ quantity[t] = quantity'[t]
      BY <1>3, <1>4, <1>6
    <3> QED
      BY <1>3, <3>1, SumSame
  <2>3. AlreadyReturned' = q + AlreadyReturned
    BY <1>6, <2>1, <2>2 DEF AlreadyReturned
  <2> QED
    BY <1>1, <1>3, <2>3, LineNumbers DEF NoUnitReturnedTwice
<1>8. PayableIsOwed'
  BY <1>0, <1>1 DEF PayableIsOwed
<1>9. ASSUME NEW t \in Returns PROVE ReturnHolds(t)'
  <2>1. CASE t = r
    <3>1. backOnShelf[r] = 0 /\ paid[r] = 0 /\ due[r] = 0
      BY <1>0, <1>1, <1>4 DEF ReturnHolds
    <3>2. Purchased * 0 <= Whole * q
      <4>1. Purchased * 0 = 0 /\ Whole \in Nat
        BY LineNumbers DEF Whole
      <4>2. Whole * q >= 0
        BY <4>1
      <4> QED
        BY <4>1, <4>2
    <3>3. 0 <= q /\ credit[r] <= paid[r] /\ paid[r] <= due[r]
      BY <1>0 DEF ReturnHolds
    <3>4. /\ paid'[r] = 0 /\ due'[r] = 0 /\ backOnShelf'[r] = 0 /\ quantity'[r] = q
          /\ credit'[r] <= paid'[r] /\ status'[r] # "refund_pending"
      BY <1>1, <1>4, <3>1, <3>3
    <3> QED
      BY <2>1, <3>2, <3>3, <3>4 DEF ReturnHolds, Whole
  <2>2. CASE t # r
    BY <1>0, <1>1, <1>4, <2>2 DEF ReturnHolds
  <2> QED
    BY <2>1, <2>2
<1> QED
  BY <1>5, <1>7, <1>8, <1>9 DEF Returning

\* Approved, rejected, sent or cancelled: nothing was given yet.
LEMMA MovingKeeps ==
  ASSUME Returning, NEW r \in Returns, NEW to \in {"approved", "rejected", "in_transit",
           "cancelled"},
         CanTransition(r, to), Moves(r, to)
  PROVE  Returning'
<1>0. ReturnsTypeOK /\ PayableIsOwed /\ \A t \in Returns : ReturnHolds(t)
  BY DEF Returning
<1>1. /\ status' = [status EXCEPT ![r] = to]
      /\ UNCHANGED <<orderPaid, inWindow, covered, autoApprove, kind, quantity, planned,
           due, paid, credit, backOnShelf, payable, doubled>>
  BY DEF Moves, shopVars, moneyVars
<1>2. /\ \A t \in Returns : quantity[t] \in Nat /\ status[t] \in ReturnStatus
      /\ Live \subseteq Returns /\ IsFiniteSet(Live) /\ AlreadyReturned \in Nat
  BY <1>0, ReturnsAre
<1>3. status[r] \in {"requested", "approved", "in_transit", "received", "inspecting"}
  <2>1. to \in Transitions[status[r]] /\ status[r] \in ReturnStatus
    BY <1>2 DEF CanTransition
  <2> QED
    BY <2>1 DEF Transitions, ReturnStatus
<1>4. status'[r] = to /\ \A t \in Returns \ {r} : status'[t] = status[t]
  BY <1>0, <1>1 DEF ReturnsTypeOK
<1>5. ReturnsTypeOK'
  <2>1. status' \in [Returns -> ReturnStatus]
    BY <1>0, <1>1 DEF ReturnsTypeOK, ReturnStatus
  <2>2. \A t \in Returns : status'[t] \notin {"refund_pending", "refunded"} => due[t] = 0
    BY <1>0, <1>3, <1>4 DEF ReturnsTypeOK
  <2> QED
    BY <1>0, <1>1, <2>1, <2>2 DEF ReturnsTypeOK
<1>6. Live' \in SUBSET Live
  BY <1>3, <1>4 DEF Live
<1>7. NoUnitReturnedTwice'
  <2>1. SumFunctionOnSet(quantity, Live') <= SumFunctionOnSet(quantity, Live)
    <3>1. \A t \in Live : quantity[t] \in Nat
      BY <1>2
    <3> QED
      BY <1>2, <1>6, <3>1, SumShrinks
  <2>2. AlreadyReturned' <= AlreadyReturned
    BY <1>1, <2>1 DEF AlreadyReturned
  <2>3. AlreadyReturned' \in Nat
    <3>1. IsFiniteSet(Live') /\ \A t \in Live' : quantity[t] \in Nat
      BY <1>2, <1>6, FS_Subset
    <3>2. SumFunctionOnSet(quantity, Live') \in Nat
      BY <3>1, SumNat
    <3> QED
      BY <1>1, <3>2 DEF AlreadyReturned
  <2> QED
    BY <1>2, <2>2, <2>3, LineNumbers DEF NoUnitReturnedTwice, Returning
<1>8. PayableIsOwed'
  BY <1>0, <1>1 DEF PayableIsOwed
<1>9. ASSUME NEW t \in Returns PROVE ReturnHolds(t)'
  BY <1>0, <1>1, <1>3, <1>4 DEF ReturnHolds
<1> QED
  BY <1>5, <1>7, <1>8, <1>9 DEF Returning

\* The receipt of the goods grants the amount and puts back what is sellable.
LEMMA ReceivingKeeps ==
  ASSUME Returning, NEW r \in Returns, NEW c \in Receipts, ReceiveReturn(r, c)
  PROVE  Returning'
<1> DEFINE g == Granted(r, c)
           shelf == {i \in DOMAIN c : c[i].shelf}
           b == quantity[r] * Cardinality(shelf)
<1>0. ReturnsTypeOK /\ PayableIsOwed /\ \A t \in Returns : ReturnHolds(t)
  BY DEF Returning
<1>1. /\ status[r] \in {"approved", "in_transit", "received"} /\ g > 0
      /\ status' = [status EXCEPT ![r] = "refund_pending"]
      /\ planned' = [planned EXCEPT ![r] = g] /\ due' = [due EXCEPT ![r] = g]
      /\ payable' = payable + g /\ backOnShelf' = [backOnShelf EXCEPT ![r] = b]
      /\ doubled' = IF Len(c) > 1 THEN doubled \cup {r} ELSE doubled
      /\ UNCHANGED <<orderPaid, inWindow, covered, autoApprove, kind, quantity, paid, credit>>
  BY DEF ReceiveReturn, Liability, shopVars
<1>2. /\ \A t \in Returns : /\ quantity[t] \in 0 .. Purchased /\ due[t] \in Nat /\
                                 paid[t] \in Nat
                            /\ quantity[t] \in Nat /\ credit[t] \in Nat
      /\ Live \subseteq Returns /\ IsFiniteSet(Live) /\ IsFiniteSet(Returns)
  BY <1>0, ReturnsAre
<1>3. PICK n \in 1 .. MaxRows : c \in [1 .. n -> Findings]
  BY DEF Receipts
<1>4. DOMAIN c = 1 .. n /\ Len(c) = n /\ IsFiniteSet(DOMAIN c) /\ n \in Nat
  <2>1. n \in Nat /\ n >= 1 /\ DOMAIN c = 1 .. n
    BY <1>3, LineNumbers
  <2>2. c \in Seq(Findings)
    BY <1>3, <2>1, SeqDef
  <2>3. IsFiniteSet(1 .. n)
    BY <2>1, FS_Interval
  <2>4. Len(c) = n
    BY <2>1, <2>2, LenProperties
  <2> QED
    BY <2>1, <2>3, <2>4
<1> DEFINE f == [i \in DOMAIN c |-> Net(r) + Tax(r) - Fee(r, Net(r), c[i].used)]
<1>5. /\ Net(r) \in Nat /\ Tax(r) \in Nat
      /\ Purchased * (Net(r) + Tax(r)) <= Whole * quantity[r]
  BY <1>2, LineIsAShare DEF Net, Tax, Whole
<1>6. g = SumFunctionOnSet(f,
        DOMAIN c) /\ \A i \in DOMAIN c : f[i] \in Int /\ f[i] <= Net(r) + Tax(r)
  <2>1. g = SumFunctionOnSet(f, DOMAIN c)
    BY DEF Granted, SumFunction
  <2>2. \A i \in DOMAIN c : Fee(r, Net(r), c[i].used) \in Nat
    BY <1>0, <1>5, FeeIsNoGift
  <2>3. \A i \in DOMAIN c : f[i] \in Int /\ f[i] <= Net(r) + Tax(r)
    BY <1>5, <2>2
  <2> QED
    BY <2>1, <2>3
<1>7. g \in Nat
  <2>1. SumFunctionOnSet(f, DOMAIN c) \in Int
    BY <1>4, <1>6, SumType DEF f
  <2> QED
    BY <1>1, <1>6, <2>1
<1>8. b \in Nat
  <2>1. IsFiniteSet(shelf)
    BY <1>4, FS_Subset
  <2>2. Cardinality(shelf) \in Nat
    BY <2>1, FS_CardinalityType
  <2> HIDE DEF shelf
  <2> QED
    BY <1>2, <2>2
<1>9. ASSUME Len(c) <= 1 PROVE b <= quantity[r] /\ Purchased * g <= Whole * quantity[r]
  <2>1. n = 1 /\ DOMAIN c = {1}
    BY <1>3, <1>4, <1>9, LineNumbers
  <2>2. Cardinality(shelf) \in {0, 1}
    <3>1. shelf = {} \/ shelf = {1}
      BY <2>1
    <3> QED
      BY <3>1, FS_EmptySet, FS_Singleton
  <2>3. b <= quantity[r]
    <3> HIDE DEF shelf
    <3> QED
      BY <1>2, <2>2
  <2>4. g = f[1] /\ f[1] \in Int /\ f[1] <= Net(r) + Tax(r)
    <3>1. SumFunctionOnSet(f, {1}) = f[1] + SumFunctionOnSet(f, {1} \ {1})
      <4>1. IsFiniteSet({1}) /\ 1 \in {1} /\ \A i \in {1} : f[i] \in Int
        BY <1>4, <1>6, <2>1
      <4> HIDE DEF f
      <4> QED
        BY <4>1, SumSplits
    <3>2. {1} \ {1} = {} /\ SumFunctionOnSet(f, {}) = 0
      BY SumEmpty
    <3>3. g = SumFunctionOnSet(f, {1}) /\ f[1] \in Int /\ f[1] <= Net(r) + Tax(r)
      BY <1>6, <2>1
    <3> HIDE DEF g, f
    <3> QED
      BY <3>1, <3>2, <3>3
  <2>5. Purchased * g <= Purchased * (Net(r) + Tax(r))
    <3> HIDE DEF g, f
    <3> QED
      BY <1>5, <1>7, <2>4, LineNumbers
  <2>6. Purchased * g \in Int /\ Purchased * (Net(r) + Tax(r)) \in Int /\
          Whole * quantity[r] \in Int
    BY <1>2, <1>5, <1>7, LineNumbers DEF Whole
  <2> HIDE DEF g, b
  <2> QED
    BY <1>5, <2>3, <2>5, <2>6
<1> HIDE DEF g, b, f, shelf
<1>10. /\ status'[r] = "refund_pending" /\ planned'[r] = g /\ due'[r] = g /\
            backOnShelf'[r] = b
       /\ \A t \in Returns \ {r} : /\ status'[t] = status[t] /\ planned'[t] = planned[t]
                                   /\ due'[t] = due[t] /\ backOnShelf'[t] = backOnShelf[t]
  BY <1>0, <1>1 DEF ReturnsTypeOK
<1>11. paid[r] = 0 /\ due[r] = 0 /\ credit[r] = 0
  BY <1>0, <1>1, <1>2 DEF ReturnsTypeOK, ReturnHolds
<1>12. PayableIsOwed' /\ payable' \in Nat
  <2>1. payable = SumFunctionOnSet(Unpaid, Returns) /\ payable \in Nat
    BY <1>0, PayableSays DEF ReturnsTypeOK
  <2>2. /\ Unpaid'[r] = g /\ Unpaid[r] = 0
        /\ \A t \in Returns : Unpaid[t] \in Int /\ Unpaid'[t] \in Int
        /\ \A t \in Returns \ {r} : Unpaid[t] = Unpaid'[t]
    BY <1>1, <1>2, <1>7, <1>10, <1>11 DEF Unpaid
  <2>3. SumFunctionOnSet(Unpaid', Returns) = SumFunctionOnSet(Unpaid,
          Returns) - Unpaid[r] + Unpaid'[r]
    <3> DEFINE u == Unpaid
               w == Unpaid'
    <3>1. \A t \in Returns : u[t] \in Int /\ w[t] \in Int
      BY <2>2
    <3>2. \A t \in Returns \ {r} : u[t] = w[t]
      BY <2>2
    <3> HIDE DEF u, w
    <3>3. SumFunctionOnSet(w, Returns) = SumFunctionOnSet(u, Returns) - u[r] + w[r]
      BY <1>2, <3>1, <3>2, SumUpdate
    <3> QED
      BY <3>3 DEF u, w
  <2>4. payable' = SumFunctionOnSet(Unpaid', Returns)
    BY <1>1, <1>7, <2>1, <2>2, <2>3
  <2> QED
    BY <1>1, <1>7, <2>1, <2>4, PayableSays
<1>13. ReturnsTypeOK'
  <2>1. status' \in [Returns -> ReturnStatus]
    BY <1>0, <1>1 DEF ReturnsTypeOK, ReturnStatus
  <2>2. planned' \in [Returns -> Nat] /\ due' \in [Returns -> Nat] /\
          backOnShelf' \in [Returns -> Nat]
    BY <1>0, <1>1, <1>7, <1>8 DEF ReturnsTypeOK
  <2>3. \A t \in Returns : status'[t] \notin {"refund_pending", "refunded"} => due'[t] = 0
    BY <1>0, <1>10 DEF ReturnsTypeOK
  <2>4. doubled' \subseteq Returns
    BY <1>0, <1>1 DEF ReturnsTypeOK
  <2> QED
    BY <1>0, <1>1, <1>12, <2>1, <2>2, <2>3, <2>4 DEF ReturnsTypeOK
<1>14. NoUnitReturnedTwice'
  <2>1. Live' = Live
    BY <1>1, <1>10 DEF Live
  <2> QED
    BY <1>1, <2>1 DEF NoUnitReturnedTwice, AlreadyReturned, Returning
<1>15. ASSUME NEW t \in Returns PROVE ReturnHolds(t)'
  <2>1. CASE t = r
    <3>1. t \notin doubled' => b <= quantity[r] /\ Purchased * g <= Whole * quantity[r]
      BY <1>1, <1>4, <1>9, <2>1
    <3>2. paid'[t] <= due'[t] /\ paid'[t] = 0
      BY <1>1, <1>7, <1>10, <1>11, <2>1
    <3>3. /\ status'[r] = "refund_pending" /\ planned'[r] = due'[r] /\ due'[r] = g
          /\ backOnShelf'[r] = b /\ quantity'[r] = quantity[r] /\ credit'[r] <= paid'[r]
      BY <1>1, <1>10, <1>11, <2>1, <3>2
    <3> QED
      BY <2>1, <3>1, <3>2, <3>3 DEF ReturnHolds, Whole
  <2>2. CASE t # r
    BY <1>0, <1>1, <1>10, <2>2 DEF ReturnHolds
  <2> QED
    BY <2>1, <2>2
<1> QED
  BY <1>12, <1>13, <1>14, <1>15 DEF Returning

\* A refund happens once, and within what was granted.
LEMMA RefundingKeeps ==
  ASSUME Returning, NEW r \in Returns, NEW amount \in {1, planned[r]}, NEW method \in Methods,
         RefundReturn(r, amount, method)
  PROVE  Returning'
<1> DEFINE gone == IF method = "money" THEN amount ELSE 0
           kept == IF method = "money" THEN 0 ELSE amount
<1>0. ReturnsTypeOK /\ PayableIsOwed /\ \A t \in Returns : ReturnHolds(t)
  BY DEF Returning
<1>2. /\ \A t \in Returns : /\ status[t] \in ReturnStatus /\ planned[t] \in Nat /\
                                 due[t] \in Nat
                            /\ paid[t] \in Nat /\ credit[t] \in Nat
      /\ IsFiniteSet(Returns)
  BY <1>0, ReturnsAre
<1>1. /\ "refunded" \in Transitions[status[r]] /\ amount > 0 /\ amount <= planned[r]
      /\ amount \in Nat
      /\ status' = [status EXCEPT ![r] = "refunded"]
      /\ planned' = [planned EXCEPT ![r] = amount]
      /\ paid' = [paid EXCEPT ![r] = @ + amount] /\ payable' = payable - gone
      /\ credit' = [credit EXCEPT ![r] = @ + kept]
      /\ UNCHANGED <<orderPaid, inWindow, covered, autoApprove, kind, quantity, due,
           backOnShelf, doubled>>
  <2>1. payable \in Nat /\ credit \in [Returns -> Nat]
    BY <1>0 DEF ReturnsTypeOK
  <2>2. CASE method = "money"
    <3>1. gone = amount /\ kept = 0
      BY <2>2
    <3>2. credit = [credit EXCEPT ![r] = @ + 0]
      BY <2>1
    <3> QED
      BY <1>2, <2>2, <3>1, <3>2 DEF RefundReturn, CanTransition, shopVars
  <2>3. CASE method = "credit"
    <3>1. gone = 0 /\ kept = amount
      BY <2>3
    <3>2. payable - gone = payable
      BY <2>1, <3>1
    <3> QED
      BY <1>2, <2>3, <3>1, <3>2 DEF RefundReturn, CanTransition, shopVars
  <2> QED
    BY <2>2, <2>3 DEF Methods
<1>m. gone \in Nat /\ kept \in Nat /\ gone + kept = amount
  BY <1>1
<1> HIDE DEF gone, kept
<1>3. status[r] = "refund_pending"
  BY <1>1, <1>2 DEF Transitions, ReturnStatus
<1>4. planned[r] = due[r] /\ paid[r] = 0 /\ amount \in Nat /\ amount <= due[r] /\ credit[r] = 0
  BY <1>0, <1>1, <1>2, <1>3 DEF ReturnHolds
<1>5. /\ status'[r] = "refunded" /\ paid'[r] = amount /\ credit'[r] = kept
      /\ \A t \in Returns \ {r} : /\ status'[t] = status[t] /\ planned'[t] = planned[t]
                                  /\ paid'[t] = paid[t] /\ credit'[t] = credit[t]
  BY <1>0, <1>1, <1>4, <1>m DEF ReturnsTypeOK
<1>6. PayableIsOwed' /\ payable' \in Nat
  <2>1. payable = SumFunctionOnSet(Unpaid, Returns) /\ payable \in Nat
    BY <1>0, PayableSays DEF ReturnsTypeOK
  <2>2. /\ Unpaid'[r] = due[r] - gone /\ Unpaid[r] = due[r]
        /\ \A t \in Returns \ {r} : Unpaid[t] = Unpaid'[t]
    BY <1>1, <1>2, <1>4, <1>5, <1>m DEF Unpaid
  <2>3. \A t \in Returns : Unpaid[t] \in Nat
    BY <1>0, <1>2 DEF Unpaid, ReturnHolds
  <2>4. \A t \in Returns : Unpaid'[t] \in Nat
    BY <1>2, <1>4, <1>m, <2>2, <2>3
  <2>5. SumFunctionOnSet(Unpaid', Returns) = SumFunctionOnSet(Unpaid,
          Returns) - Unpaid[r] + Unpaid'[r]
    <3> DEFINE u == Unpaid
               w == Unpaid'
    <3>1. \A t \in Returns : u[t] \in Int /\ w[t] \in Int
      BY <2>3, <2>4
    <3>2. \A t \in Returns \ {r} : u[t] = w[t]
      BY <2>2
    <3> HIDE DEF u, w
    <3>3. SumFunctionOnSet(w, Returns) = SumFunctionOnSet(u, Returns) - u[r] + w[r]
      BY <1>2, <3>1, <3>2, SumUpdate
    <3> QED
      BY <3>3 DEF u, w
  <2>6. payable' = SumFunctionOnSet(Unpaid', Returns)
    BY <1>1, <1>2, <1>4, <1>m, <2>1, <2>2, <2>5
  <2>7. SumFunctionOnSet(Unpaid', Returns) \in Nat
    BY <1>2, <2>4, SumNat
  <2> QED
    BY <2>6, <2>7, PayableSays
<1>7. ReturnsTypeOK'
  <2>1. status' \in [Returns -> ReturnStatus]
    BY <1>0, <1>1 DEF ReturnsTypeOK, ReturnStatus
  <2>2. planned' \in [Returns -> Nat] /\ paid' \in [Returns -> Nat] /\
          credit' \in [Returns -> Nat]
    BY <1>0, <1>1, <1>4, <1>m DEF ReturnsTypeOK
  <2>3. \A t \in Returns : status'[t] \notin {"refund_pending", "refunded"} => due'[t] = 0
    BY <1>0, <1>1, <1>5 DEF ReturnsTypeOK
  <2> QED
    BY <1>0, <1>1, <1>6, <2>1, <2>2, <2>3 DEF ReturnsTypeOK
<1>8. NoUnitReturnedTwice'
  <2>1. Live' = Live
    BY <1>3, <1>5 DEF Live
  <2> QED
    BY <1>1, <2>1 DEF NoUnitReturnedTwice, AlreadyReturned, Returning
<1>9. ASSUME NEW t \in Returns PROVE ReturnHolds(t)'
  <2>1. CASE t = r
    BY <1>0, <1>1, <1>4, <1>5, <1>m, <2>1 DEF ReturnHolds
  <2>2. CASE t # r
    BY <1>0, <1>1, <1>5, <2>2 DEF ReturnHolds
  <2> QED
    BY <2>1, <2>2
<1> QED
  BY <1>6, <1>7, <1>8, <1>9 DEF Returning

-----------------------------------------------------------------------------
\* No step of a return disturbs the others.
LEMMA ReturningNext == Returning /\ [ReturnsNext]_returnVars => Returning'
<1> SUFFICES ASSUME Returning, [ReturnsNext]_returnVars PROVE Returning'
  OBVIOUS
<1>0. ReturnsTypeOK
  BY DEF Returning
<1>1. CASE \/ UNCHANGED returnVars \/ OrderMovesOn \/ TimePasses \/ StartWarranty
  <2>1. UNCHANGED <<status, kind, quantity, moneyVars, doubled>>
    BY <1>1 DEF returnVars, OrderMovesOn, TimePasses, StartWarranty
  <2>2. (orderPaid \in BOOLEAN /\ inWindow \in BOOLEAN /\ covered \in BOOLEAN
           /\ autoApprove \in BOOLEAN)'
    BY <1>0, <1>1 DEF returnVars, shopVars, OrderMovesOn, TimePasses, StartWarranty,
       ReturnsTypeOK
  <2> QED
    BY <2>1, <2>2, WorldKeeps
<1>2. ASSUME NEW r \in Returns, NEW k \in Kinds, NEW q \in 1 .. Purchased,
               RequestReturn(r, k, q)
      PROVE  Returning'
  BY <1>2, RequestKeeps
<1>3. ASSUME NEW r \in Returns, NEW to \in {"approved", "rejected"}, DecideReturn(r, to)
      PROVE  Returning'
  BY <1>3, MovingKeeps DEF DecideReturn
<1>4. ASSUME NEW r \in Returns, MarkInTransit(r) \/ CancelReturn(r) PROVE Returning'
  BY <1>4, MovingKeeps DEF MarkInTransit, CancelReturn
<1>5. ASSUME NEW r \in Returns, NEW c \in Receipts, ReceiveReturn(r, c) PROVE Returning'
  BY <1>5, ReceivingKeeps
<1>6. ASSUME NEW r \in Returns, NEW amount \in {1, planned[r]}, NEW method \in Methods,
             RefundReturn(r, amount, method)
      PROVE  Returning'
  BY <1>6, RefundingKeeps
<1> QED
  BY <1>1, <1>2, <1>3, <1>4, <1>5, <1>6 DEF ReturnsNext

\* For any purchased quantity, price, tax and fee, and any number of returns: no unit comes
\* back or is put back twice, the account of refunds holds what was granted and not paid in
\* money (credit and exchanges stay in it), and no return refunds
\* more than its due, nor all of them more than the line cost but for the rounding
\* (returns/src/index.ts).
THEOREM ReturnsAreSafe == ReturnsSpec => []ReturnsAddUp
<1>1. ReturnsInit => Returning
  BY ReturningInit
<1>2. Returning /\ [ReturnsNext]_returnVars => Returning'
  BY ReturningNext
<1>3. Returning => ReturnsAddUp
  BY ReturningAddsUp
<1> QED
  BY <1>1, <1>2, <1>3, PTL DEF ReturnsSpec

-----------------------------------------------------------------------------
(* Those who wait: a line, and those who tell it.                            *)

-----------------------------------------------------------------------------
\* The sizes of the line.
LEMMA LineNumber ==
  /\ IsFiniteSet(People) /\ IsFiniteSet(Asks)
  /\ MaxWaiting \in Nat \ {0} /\ TellLimit \in Nat \ {0} /\ MaxAsks \in Nat /\
       MaxCalls \in Nat
BY StockAlertsAssumption

\* One of those who stand in line is the first.
LEMMA TheLeast ==
  ASSUME NEW S, S # {}, NEW at, \A p \in S : at[p] \in Nat,
         \A p, q \in S : at[p] = at[q] => p = q
  PROVE  LET f == CHOOSE p \in S : \A q \in S : at[p] <= at[q]
         IN  f \in S /\ \A q \in S : (\A t \in S : at[q] <= at[t]) <=> q = f
<1> DEFINE T == {n \in Nat : \A p \in S : at[p] > n}
           Least(p) == \A q \in S : at[p] <= at[q]
<1>1. ASSUME \A p \in S : ~Least(p) PROVE FALSE
  <2>1. 0 \in T
    <3> SUFFICES ASSUME NEW p \in S, at[p] <= 0 PROVE FALSE
      OBVIOUS
    <3> QED
      BY <1>1
  <2>2. ASSUME NEW n \in T PROVE n + 1 \in T
    <3> SUFFICES ASSUME NEW p \in S, at[p] <= n + 1 PROVE FALSE
      OBVIOUS
    <3>1. \A q \in S : at[q] >= n + 1
      BY <2>2
    <3> QED
      BY <1>1, <3>1
  <2> HIDE DEF T
  <2>3. T \in SUBSET Nat
    BY DEF T
  <2>4. T = Nat
    BY <2>1, <2>2, <2>3, SetInduction
  <2>5. PICK p \in S : TRUE
    OBVIOUS
  <2>6. at[p] \in T
    BY <2>4
  <2> QED
    BY <2>6 DEF T
<1> DEFINE f == CHOOSE p \in S : Least(p)
<1>2. f \in S /\ Least(f)
  <2>1. \E p \in S : Least(p)
    BY <1>1
  <2> HIDE DEF Least
  <2> QED
    BY <2>1
<1> HIDE DEF f
<1>3. ASSUME NEW q \in S, Least(q) PROVE q = f
  <2>1. at[q] <= at[f] /\ at[f] <= at[q]
    BY <1>2, <1>3
  <2> QED
    BY <1>2, <2>1
<1> QED
  BY <1>2, <1>3 DEF f

\* What the calls have in hand are rows there are.
CallsAreOK ==
  /\ DOMAIN call = Tellers
  /\ \A c \in Tellers : call[c] # NoCall =>
       /\ call[c].rows \in SUBSET InLine /\ call[c].rows # {} /\
            call[c].texted \in BOOLEAN

AsksAreOK ==
  /\ DOMAIN asking = Asks
  /\ \A a \in Asks : asking[a] # NoAsk =>
       asking[a].who \in People /\ asking[a].step \in {"leave", "look", "join"}

\* Places are given out one after the other.
PlacesAreGiven == \A p \in People : place[p] <= Cardinality(InLine)

Joining == {a \in Asks : asking[a] # NoAsk /\ asking[a].step = "join"}

\* Those who wait and those who have found room.
RoomIsLeft == Cardinality(Waiting) + Cardinality(Joining) < MaxWaiting + Cardinality(Asks)

IsTelling(c, p) == call[c] # NoCall /\ call[c].texted /\ p = First(c)

\* A row in hand has been sent nothing but by the call that is about to mark it, unless
\* it was told twice.
RowsInHand ==
  \A c \in Tellers : \A p \in Rows(c) :
    /\ IsTelling(c, p) => texts[p] > 0
    /\ p \in retold \/ IsTelling(c, p) \/ texts[p] = 0
    /\ \A d \in Tellers \ {c} : p \in Rows(d) => p \in retold

PersonHolds(p) ==
  /\ notice[p] = "notified" => texts[p] > 0
  /\ texts[p] > 1 => p \in retold
  /\ texts[p] > 0 => p \in InLine
  /\ texts[p] > 0 /\ p \in Waiting => p \in retold \/ \E c \in Tellers : IsTelling(c, p)

Alerting ==
  /\ AlertsTypeOK /\ CallsAreOK /\ AsksAreOK /\ PlacesAreGiven /\ RoomIsLeft /\ RowsInHand
  /\ \A p \in People : PersonHolds(p)

\* The row that is told next, of this state and of the next.
LEMMA FirstIs ==
  ASSUME AlertsTypeOK, CallsAreOK, NEW c \in Tellers, call[c] # NoCall
  PROVE  /\ First(c) \in Rows(c) /\ Rows(c) \subseteq InLine /\ Rows(c) # {}
         /\ \A q \in Rows(c) : (\A t \in Rows(c) : place[q] <= place[t]) <=> q = First(c)
<1> DEFINE S == Rows(c)
<1>1. S \subseteq InLine /\ S # {} /\ InLine \subseteq People
  BY DEF CallsAreOK, Rows, InLine
<1>2. /\ \A p \in S : place[p] \in Nat
      /\ \A p, q \in S : place[p] = place[q] => p = q
  BY <1>1 DEF AlertsTypeOK
<1> HIDE DEF S
<1>3. LET f == CHOOSE p \in S : \A q \in S : place[p] <= place[q]
      IN  f \in S /\ \A q \in S : (\A t \in S : place[q] <= place[t]) <=> q = f
  BY <1>1, <1>2, TheLeast
<1> QED
  BY <1>1, <1>3 DEF First, S

\* The first of a line, in the next state.
LEMMA FirstWillBe ==
  ASSUME AlertsTypeOK', CallsAreOK', NEW c \in Tellers, call'[c] # NoCall
  PROVE  /\ First(c)' \in Rows(c)' /\ Rows(c)' \subseteq InLine' /\ Rows(c)' # {}
         /\ \A q \in Rows(c)' : (\A t \in Rows(c)' : place'[q] <= place'[t]) <=> q =
              First(c)'
<1> DEFINE S == Rows(c)'
<1>1. S \subseteq InLine' /\ S # {} /\ InLine' \subseteq People
  BY DEF CallsAreOK, Rows, InLine
<1>2. /\ \A p \in S : place'[p] \in Nat
      /\ \A p, q \in S : place'[p] = place'[q] => p = q
  BY <1>1 DEF AlertsTypeOK
<1> HIDE DEF S
<1>3. LET f == CHOOSE p \in S : \A q \in S : place'[p] <= place'[q]
      IN  f \in S /\ \A q \in S : (\A t \in S : place'[q] <= place'[t]) <=> q = f
  BY <1>1, <1>2, TheLeast
<1> QED
  BY <1>1, <1>3 DEF First, S

\* A call that goes on with its rows tells the same row, for rows keep their places.
LEMMA FirstStays ==
  ASSUME AlertsTypeOK, CallsAreOK, AlertsTypeOK', CallsAreOK', NEW c \in Tellers,
         call[c] # NoCall, call'[c] # NoCall, call'[c].rows = call[c].rows,
         \A p \in InLine : place'[p] = place[p]
  PROVE  First(c)' = First(c)
<1>1. Rows(c)' = Rows(c)
  BY DEF Rows
<1>2. First(c) \in Rows(c) /\ \A q \in Rows(c) : place[First(c)] <= place[q]
  BY FirstIs
<1>3. Rows(c) \subseteq InLine
  BY FirstIs
<1>4. \A q \in Rows(c) : place'[First(c)] <= place'[q]
  BY <1>2, <1>3
<1> DEFINE f == First(c)
<1>5. f \in Rows(c)' /\ \A q \in Rows(c)' : place'[f] <= place'[q]
  BY <1>1, <1>2, <1>4
<1> HIDE DEF f
<1>6. f = First(c)'
  BY <1>5, FirstWillBe
<1> QED
  BY <1>6 DEF f

-----------------------------------------------------------------------------
\* A line in order is told as WaitersAreTold states it.
LEMMA AlertingTells == Alerting => WaitersAreTold
<1> SUFFICES ASSUME Alerting PROVE WaitersAreTold
  OBVIOUS
<1>1. IsFiniteSet(Waiting) /\ IsFiniteSet(Joining)
  BY LineNumber, FS_Subset DEF Waiting, Joining
<1>2. Cardinality(Waiting) \in Nat /\ Cardinality(Joining) \in Nat /\
        Cardinality(Asks) \in Nat
  BY <1>1, LineNumber, FS_CardinalityType
<1>3. Cardinality(Waiting) < MaxWaiting + Cardinality(Asks)
  BY <1>2, LineNumber DEF Alerting, RoomIsLeft
<1> QED
  BY <1>3 DEF Alerting, WaitersAreTold, PersonHolds, IsTelling

\* The line begins in order.
LEMMA AlertingInit == AlertsInit => Alerting
<1> SUFFICES ASSUME AlertsInit PROVE Alerting
  OBVIOUS
<1>1. InLine = {} /\ Waiting = {} /\ Joining = {} /\ \A c \in Tellers : Rows(c) = {}
  BY DEF InLine, Waiting, Joining, Rows, AlertsInit
<1>2. AlertsTypeOK
  BY <1>1, LineNumber DEF AlertsInit, AlertsTypeOK
<1>3. CallsAreOK /\ AsksAreOK
  BY DEF AlertsInit, CallsAreOK, AsksAreOK
<1>4. Cardinality({}) = 0 /\ Cardinality(Asks) \in Nat
  BY LineNumber, FS_EmptySet, FS_CardinalityType
<1>5. PlacesAreGiven /\ RoomIsLeft
  BY <1>1, <1>4, LineNumber DEF PlacesAreGiven, RoomIsLeft, AlertsInit
<1>6. RowsInHand
  BY <1>1 DEF RowsInHand
<1>7. \A p \in People : PersonHolds(p)
  BY DEF PersonHolds, AlertsInit
<1> QED
  BY <1>2, <1>3, <1>5, <1>6, <1>7 DEF Alerting

\* Someone leaves the line, or a request looks around: no call is disturbed.
LEMMA LineKeeps ==
  ASSUME Alerting, UNCHANGED <<place, call, texts, retold>>, AlertsTypeOK', AsksAreOK',
         \A p \in People : notice'[p] = notice[p] \/ (notice[p] = "waiting" /\
           notice'[p] = "cancelled"),
         RoomIsLeft'
  PROVE  Alerting'
<1>0. /\ AlertsTypeOK /\ CallsAreOK /\ PlacesAreGiven /\ RowsInHand
      /\ \A p \in People : PersonHolds(p)
  BY DEF Alerting
<1>1. InLine' = InLine /\ Waiting' \subseteq Waiting
  BY DEF InLine, Waiting
<1>2. CallsAreOK' /\ PlacesAreGiven'
  BY <1>0, <1>1 DEF CallsAreOK, PlacesAreGiven
<1>3. \A c \in Tellers : Rows(c)' = Rows(c)
  BY DEF Rows
<1>4. \A c \in Tellers : call[c] # NoCall => First(c)' = First(c)
  BY <1>0, <1>2, FirstStays
<1>5. \A c \in Tellers : \A p : IsTelling(c, p)' <=> IsTelling(c, p)
  BY <1>4 DEF IsTelling
<1>6. RowsInHand'
  BY <1>0, <1>3, <1>5 DEF RowsInHand
<1>7. ASSUME NEW p \in People PROVE PersonHolds(p)'
  <2>1. PersonHolds(p) /\ notice'[p] = "notified" => notice[p] = "notified"
    BY <1>0
  <2>2. (\E c \in Tellers : IsTelling(c, p)) => \E c \in Tellers : IsTelling(c, p)'
    BY <1>5
  <2> QED
    BY <1>0, <1>1, <2>1, <2>2 DEF PersonHolds
<1> QED
  BY <1>2, <1>6, <1>7 DEF Alerting

\* Those who wait and those who join, counted.
LEMMA LineCounts ==
  /\ IsFiniteSet(Waiting) /\ IsFiniteSet(Joining) /\ IsFiniteSet(InLine)
  /\ Cardinality(Waiting) \in Nat /\ Cardinality(Joining) \in Nat /\
       Cardinality(InLine) \in Nat
  /\ Cardinality(Asks) \in Nat /\ Cardinality(Joining) <= Cardinality(Asks)
  /\ \A X \in SUBSET Waiting : Cardinality(X) \in Nat /\
       Cardinality(X) <= Cardinality(Waiting)
  /\ \A X \in SUBSET Joining : Cardinality(X) \in Nat /\
       Cardinality(X) <= Cardinality(Joining)
<1>1. IsFiniteSet(Waiting) /\ IsFiniteSet(Joining) /\ IsFiniteSet(InLine) /\
        Joining \subseteq Asks
  BY LineNumber, FS_Subset DEF Waiting, Joining, InLine
<1>2. /\ \A X \in SUBSET Waiting : IsFiniteSet(X) /\
           Cardinality(X) <= Cardinality(Waiting)
      /\ \A X \in SUBSET Joining : IsFiniteSet(X) /\
           Cardinality(X) <= Cardinality(Joining)
      /\ Cardinality(Joining) <= Cardinality(Asks)
  BY <1>1, LineNumber, FS_Subset
<1> QED
  BY <1>1, <1>2, LineNumber, FS_CardinalityType

\* Requests that look around, leave or withdraw.
LEMMA AskingKeeps ==
  ASSUME Alerting,
         \/ UNCHANGED alertVars \/ StockChanges
         \/ \E a \in Asks : (\E p \in People : Ask(a, p)) \/ Leave(a) \/ Look(a)
         \/ \E p \in People : Withdraw(p)
  PROVE  Alerting'
<1>0. AlertsTypeOK /\ AsksAreOK /\ RoomIsLeft
  BY DEF Alerting
<1>1. UNCHANGED <<place, call, texts, retold, shutOut, called>>
  BY DEF alertVars, StockChanges, Ask, Leave, Look, Withdraw
<1>2. \A p \in People : notice'[p] = notice[p] \/ (notice[p] = "waiting" /\
        notice'[p] = "cancelled")
  BY <1>0 DEF alertVars, StockChanges, Ask, Leave, Look, Withdraw, Waiting, Found,
       AlertsTypeOK
<1>3. notice' \in [People -> {"none", "waiting", "notified", "cancelled"}]
  <2>1. \/ notice' = notice
        \/ \E p : notice' = [notice EXCEPT ![p] = IF Found(p) THEN "cancelled" ELSE @]
        \/ \E p : notice' = [notice EXCEPT ![p] = "cancelled"]
    BY DEF alertVars, StockChanges, Ask, Leave, Look, Withdraw
  <2> QED
    BY <1>0, <2>1 DEF AlertsTypeOK
<1>4. InLine' = InLine /\ Waiting' \in SUBSET Waiting
  BY <1>2 DEF InLine, Waiting
<1>5. sellable' \in BOOLEAN /\ asked' \in 0 .. MaxAsks
  <2>1. sellable' \in BOOLEAN
    BY <1>0 DEF alertVars, StockChanges, Ask, Leave, Look, Withdraw, AlertsTypeOK
  <2>2. asked' = asked \/ (asked < MaxAsks /\ asked' = asked + 1)
    BY DEF alertVars, StockChanges, Ask, Leave, Look, Withdraw
  <2> QED
    BY <1>0, <2>1, <2>2, LineNumber DEF AlertsTypeOK
<1>6. AlertsTypeOK'
  BY <1>0, <1>1, <1>3, <1>4, <1>5 DEF AlertsTypeOK
<1>7. AsksAreOK' /\ RoomIsLeft'
  <2>1. CASE asking' = asking
    <3>1. Joining' = Joining /\ AsksAreOK'
      BY <1>0, <2>1 DEF Joining, AsksAreOK
    <3> QED
      BY <1>0, <1>4, <3>1, LineCounts, LineNumber DEF RoomIsLeft
  <2>2. ASSUME NEW a \in Asks, NEW p \in People, Ask(a, p) PROVE AsksAreOK' /\ RoomIsLeft'
    <3> DEFINE step == IF sellable THEN "leave" ELSE "look"
    <3>1. asking' = [asking EXCEPT ![a] = [who |-> p, step |-> step]]
      BY <2>2 DEF Ask
    <3>2. step \in {"leave", "look"}
      OBVIOUS
    <3> HIDE DEF step
    <3>3. AsksAreOK'
      BY <1>0, <3>1, <3>2 DEF AsksAreOK
    <3>4. Joining' \in SUBSET Joining
      BY <1>0, <3>1, <3>2 DEF Joining, AsksAreOK
    <3> QED
      BY <1>0, <1>4, <3>3, <3>4, LineCounts, LineNumber DEF RoomIsLeft
  <2>3. ASSUME NEW a \in Asks,
                 asking' = [asking EXCEPT ![a] = NoAsk] PROVE AsksAreOK' /\ RoomIsLeft'
    <3>3. AsksAreOK'
      BY <1>0, <2>3 DEF AsksAreOK
    <3>4. Joining' \in SUBSET Joining
      BY <1>0, <2>3 DEF Joining, AsksAreOK
    <3> QED
      BY <1>0, <1>4, <3>3, <3>4, LineCounts, LineNumber DEF RoomIsLeft
  <2>4. ASSUME NEW a \in Asks, Look(a), Cardinality(Waiting) < MaxWaiting,
               asking' = [asking EXCEPT ![a] = [who |-> asking[a].who, step |-> "join"]]
        PROVE  AsksAreOK' /\ RoomIsLeft'
    <3>1. asking[a].who \in People /\ Waiting' = Waiting
      BY <1>0, <2>4 DEF Look, AsksAreOK, Waiting
    <3>3. AsksAreOK'
      BY <1>0, <2>4, <3>1 DEF AsksAreOK
    <3>4. Joining' \in SUBSET Asks
      BY DEF Joining
    <3>5. IsFiniteSet(Joining') /\ Cardinality(Joining') <= Cardinality(Asks)
      BY <3>4, LineNumber, FS_Subset
    <3>6. Cardinality(Joining') \in Nat
      BY <3>5, FS_CardinalityType
    <3>7. Cardinality(Waiting) \in Nat /\ Cardinality(Asks) \in Nat
      BY LineCounts
    <3>8. RoomIsLeft'
      BY <2>4, <3>1, <3>5, <3>6, <3>7, LineNumber DEF RoomIsLeft
    <3> QED
      BY <3>3, <3>8
  <2>5. ASSUME NEW a \in Asks, Look(a) PROVE AsksAreOK' /\ RoomIsLeft'
    <3>1. CASE Found(asking[a].who) \/ Cardinality(Waiting) >= MaxWaiting
      <4>1. asking' = [asking EXCEPT ![a] = NoAsk]
        BY <2>5, <3>1 DEF Look
      <4> QED
        BY <2>3, <4>1
    <3>2. CASE ~(Found(asking[a].who) \/ Cardinality(Waiting) >= MaxWaiting)
      <4>1. asking' = [asking EXCEPT ![a] = [who |-> asking[a].who, step |-> "join"]]
        BY <2>5, <3>2 DEF Look
      <4>2. Cardinality(Waiting) < MaxWaiting
        BY <3>2, LineCounts, LineNumber
      <4> QED
        BY <2>4, <2>5, <4>1, <4>2
    <3> QED
      BY <3>1, <3>2
  <2> QED
    BY <2>1, <2>2, <2>3, <2>5 DEF alertVars, StockChanges, Leave, Withdraw
<1> QED
  BY <1>1, <1>2, <1>6, <1>7, LineKeeps

\* A new row stands behind all others, and no call has it in hand.
LEMMA JoiningKeeps ==
  ASSUME Alerting, NEW a \in Asks, Join(a)
  PROVE  Alerting'
<1> DEFINE p == asking[a].who
<1>0. /\ AlertsTypeOK /\ CallsAreOK /\ PlacesAreGiven /\ RowsInHand /\ AsksAreOK /\
           RoomIsLeft
      /\ \A t \in People : PersonHolds(t)
  BY DEF Alerting
<1>1. /\ asking[a] # NoAsk /\ asking[a].step = "join"
      /\ asking' = [asking EXCEPT ![a] = NoAsk]
      /\ UNCHANGED <<sellable, call, texts, retold, asked, called>>
  BY DEF Join
<1>2. p \in People /\ a \in Joining
  BY <1>0, <1>1 DEF AsksAreOK, Joining
<1>3. AsksAreOK' /\ Joining' \in SUBSET (Joining \ {a})
  BY <1>0, <1>1 DEF AsksAreOK, Joining
<1>4. Cardinality(Joining') \in Nat /\ Cardinality(Joining') <= Cardinality(Joining) - 1
  <2>1. IsFiniteSet(Joining \ {a}) /\
          Cardinality(Joining \ {a}) = Cardinality(Joining) - 1
    BY <1>2, LineCounts, FS_RemoveElement
  <2>2. IsFiniteSet(Joining') /\ Cardinality(Joining') <= Cardinality(Joining \ {a})
    BY <1>3, <2>1, FS_Subset
  <2> QED
    BY <2>1, <2>2, FS_CardinalityType
<1>5. CASE notice[p] # "none"
  <2>1. UNCHANGED <<notice, place>> /\ shutOut' \subseteq People
    BY <1>0, <1>2, <1>5 DEF Join, AlertsTypeOK
  <2>2. AlertsTypeOK'
    BY <1>0, <1>1, <2>1 DEF AlertsTypeOK, InLine
  <2>3. Waiting' = Waiting
    BY <2>1 DEF Waiting
  <2>4. RoomIsLeft'
    BY <1>0, <1>4, <2>3, LineCounts, LineNumber DEF RoomIsLeft
  <2> QED
    BY <1>1, <1>3, <2>1, <2>2, <2>4, LineKeeps
<1>6. CASE notice[p] = "none"
  <2> DEFINE k == Cardinality(InLine) + 1
  <2>1. /\ notice' = [notice EXCEPT ![p] = "waiting"] /\ place' = [place EXCEPT ![p] = k]
        /\ shutOut' = shutOut
    BY <1>6 DEF Join
  <2>2. p \notin InLine /\ p \notin Waiting /\ k \in Nat /\ k > 0
    BY <1>6, LineCounts DEF InLine, Waiting
  <2> HIDE DEF k
  <2>3. /\ notice'[p] = "waiting" /\ place'[p] = k
        /\ \A t \in People \ {p} : notice'[t] = notice[t] /\ place'[t] = place[t]
    BY <1>0, <1>2, <2>1 DEF AlertsTypeOK
  <2>4. InLine' = InLine \cup {p} /\ Waiting' = Waiting \cup {p}
    BY <1>2, <2>3 DEF InLine, Waiting
  <2>5. \A t \in InLine : t \in People /\ place'[t] = place[t] /\ place[t] < k
    <3>1. \A t \in People : place[t] \in Nat /\ place[t] <= Cardinality(InLine)
      BY <1>0 DEF PlacesAreGiven, AlertsTypeOK
    <3> QED
      BY <2>2, <2>3, <3>1, LineCounts DEF InLine, k
  <2>6. AlertsTypeOK'
    <3>1. notice' \in [People -> {"none", "waiting", "notified", "cancelled"}]
      BY <1>0, <2>1 DEF AlertsTypeOK
    <3>2. place' \in [People -> Nat]
      BY <1>0, <2>1, <2>2 DEF AlertsTypeOK
    <3>3. \A t \in People : place'[t] > 0 <=> t \in InLine'
      BY <1>0, <2>2, <2>3, <2>4 DEF AlertsTypeOK
    <3>4. \A t, u \in InLine' : place'[t] = place'[u] => t = u
      <4> SUFFICES ASSUME NEW t \in InLine', NEW u \in InLine',
                            place'[t] = place'[u] PROVE t = u
        OBVIOUS
      <4>1. CASE t \in InLine /\ u \in InLine
        BY <1>0, <2>5, <4>1 DEF AlertsTypeOK
      <4>2. CASE t \notin InLine \/ u \notin InLine
        <5>1. \A v \in InLine : place'[v] < k /\ place'[v] \in Nat
          BY <1>0, <2>5 DEF AlertsTypeOK
        <5> QED
          BY <2>2, <2>3, <2>4, <4>2, <5>1
      <4> QED
        BY <4>1, <4>2
    <3> QED
      BY <1>0, <1>1, <2>1, <3>1, <3>2, <3>3, <3>4 DEF AlertsTypeOK
  <2>7. CallsAreOK'
    BY <1>0, <1>1, <2>4 DEF CallsAreOK
  <2>8. \A c \in Tellers : Rows(c)' = Rows(c) /\ Rows(c) \subseteq InLine
    BY <1>0, <1>1 DEF Rows, CallsAreOK
  <2>9. \A c \in Tellers : call[c] # NoCall => First(c)' = First(c)
    BY <1>0, <1>1, <2>5, <2>6, <2>7, FirstStays
  <2>10. \A c \in Tellers : \A t : IsTelling(c, t)' <=> IsTelling(c, t)
    BY <1>1, <2>9 DEF IsTelling
  <2>11. PlacesAreGiven'
    <3>1. Cardinality(InLine') = k
      BY <2>2, <2>4, LineCounts, FS_AddElement DEF k
    <3>2. \A t \in People : place[t] \in Nat /\ place[t] <= Cardinality(InLine)
      BY <1>0 DEF PlacesAreGiven, AlertsTypeOK
    <3> QED
      BY <2>2, <2>3, <3>1, <3>2, LineCounts DEF PlacesAreGiven, k
  <2>12. RoomIsLeft'
    <3>1. Cardinality(Waiting') = Cardinality(Waiting) + 1
      BY <2>2, <2>4, LineCounts, FS_AddElement
    <3> QED
      BY <1>0, <1>4, <3>1, LineCounts, LineNumber DEF RoomIsLeft
  <2>13. RowsInHand'
    BY <1>0, <1>1, <2>8, <2>10 DEF RowsInHand
  <2>14. ASSUME NEW t \in People PROVE PersonHolds(t)'
    <3>1. (\E c \in Tellers : IsTelling(c, t)) => \E c \in Tellers : IsTelling(c, t)'
      BY <2>10
    <3>2. CASE t = p
      <4>1. texts[p] = 0
        BY <1>0, <1>2, <2>2 DEF PersonHolds, AlertsTypeOK
      <4> QED
        BY <1>1, <2>3, <3>2, <4>1 DEF PersonHolds
    <3>3. CASE t # p
      BY <1>0, <1>1, <2>3, <2>4, <3>1, <3>3 DEF PersonHolds
    <3> QED
      BY <3>2, <3>3
  <2> QED
    BY <1>3, <2>6, <2>7, <2>11, <2>12, <2>13, <2>14 DEF Alerting
<1> QED
  BY <1>5, <1>6

-----------------------------------------------------------------------------
\* What the calls do leaves the requests and the places alone.
LEMMA CallsKeepLine ==
  ASSUME Alerting, UNCHANGED <<place, asking, asked, sellable, shutOut>>,
         notice' \in [People -> {"none", "waiting", "notified", "cancelled"}],
         \A p \in People : notice'[p] = notice[p] \/ (notice[p] = "waiting" /\
           notice'[p] = "notified"),
         texts' \in [People -> Nat], retold' \subseteq People, called' \in 0 .. MaxCalls
  PROVE  /\ AlertsTypeOK' /\ AsksAreOK' /\ PlacesAreGiven' /\ RoomIsLeft'
         /\ InLine' = InLine /\ Waiting' \in SUBSET Waiting
<1>0. AlertsTypeOK /\ AsksAreOK /\ PlacesAreGiven /\ RoomIsLeft
  BY DEF Alerting
<1>1. InLine' = InLine /\ Waiting' \in SUBSET Waiting
  BY DEF InLine, Waiting
<1>2. AlertsTypeOK' /\ AsksAreOK' /\ PlacesAreGiven'
  BY <1>0, <1>1 DEF AlertsTypeOK, AsksAreOK, PlacesAreGiven
<1>3. Joining' = Joining
  BY DEF Joining
<1>4. RoomIsLeft'
  BY <1>0, <1>1, <1>3, LineCounts, LineNumber DEF RoomIsLeft
<1> QED
  BY <1>1, <1>2, <1>4

\* A new call takes rows that wait; those that another call has too may be told twice.
LEMMA CallingKeeps ==
  ASSUME Alerting, NEW c \in Tellers, CallTeller(c)
  PROVE  Alerting'
<1> DEFINE N == NextInLine
           new == [rows |-> N, texted |-> FALSE]
<1>0. /\ AlertsTypeOK /\ CallsAreOK /\ RowsInHand /\ \A t \in People : PersonHolds(t)
  BY DEF Alerting
<1>1. /\ call[c] = NoCall /\ called < MaxCalls /\ called' = called + 1 /\ N # {}
      /\ call' = [call EXCEPT ![c] = new]
      /\ retold' = retold \cup {p \in N : \E d \in Tellers : p \in Rows(d)}
      /\ UNCHANGED <<notice, place, sellable, asking, texts, shutOut, asked>>
  BY DEF CallTeller
<1>2. N \subseteq Waiting /\ Waiting \subseteq InLine /\ InLine \subseteq People
  BY DEF NextInLine, Waiting, InLine
<1> HIDE DEF N
<1>3. /\ AlertsTypeOK' /\ AsksAreOK' /\ PlacesAreGiven' /\ RoomIsLeft'
      /\ InLine' = InLine /\ Waiting' = Waiting
  <2>1. called' \in 0 .. MaxCalls /\ retold' \subseteq People
    BY <1>0, <1>1, <1>2, LineNumber DEF AlertsTypeOK
  <2>2. /\ notice' \in [People -> {"none", "waiting", "notified", "cancelled"}]
        /\ texts' \in [People -> Nat]
    BY <1>0, <1>1 DEF AlertsTypeOK
  <2>3. Waiting' = Waiting
    BY <1>1 DEF Waiting
  <2> QED
    BY <1>1, <2>1, <2>2, <2>3, CallsKeepLine
<1>4. /\ DOMAIN call' = Tellers /\ call'[c] = new
      /\ \A d \in Tellers \ {c} : call'[d] = call[d]
  BY <1>0, <1>1 DEF CallsAreOK
<1>5. new.rows = N /\ new.texted = FALSE
  OBVIOUS
<1> HIDE DEF new
<1>6. CallsAreOK'
  BY <1>0, <1>1, <1>2, <1>3, <1>4, <1>5 DEF CallsAreOK
<1>7. /\ Rows(c) = {} /\ Rows(c)' \subseteq N
      /\ \A d \in Tellers \ {c} : Rows(d)' = Rows(d)
  BY <1>1, <1>4, <1>5 DEF Rows
<1>8. \A d \in Tellers \ {c} : \A t : IsTelling(d, t)' <=> IsTelling(d, t)
  <2>1. \A d \in Tellers \ {c} : call[d] # NoCall => First(d)' = First(d)
    BY <1>0, <1>1, <1>3, <1>4, <1>6, FirstStays
  <2> QED
    BY <1>4, <2>1 DEF IsTelling
<1>9. \A t : ~IsTelling(c, t) /\ ~IsTelling(c, t)'
  BY <1>1, <1>4, <1>5 DEF IsTelling
<1>10. \A d \in Tellers : \A t : IsTelling(d, t) => t \in Rows(d)
  BY <1>0, FirstIs DEF IsTelling
<1>11. RowsInHand'
  <2>1. ASSUME NEW d \in Tellers, NEW p \in Rows(d)'
        PROVE  /\ IsTelling(d, p)' => texts'[p] > 0
               /\ p \in retold' \/ IsTelling(d, p)' \/ texts'[p] = 0
               /\ \A e \in Tellers \ {d} : p \in Rows(e)' => p \in retold'
    <3>1. CASE d = c
      <4>1. p \in N /\ p \in People /\ p \in Waiting
        BY <1>2, <1>7, <2>1, <3>1
      <4>2. \A e \in Tellers \ {c} : p \in Rows(e) => p \in retold'
        BY <1>1, <4>1
      <4>3. texts[p] > 0 => p \in retold'
        BY <1>0, <1>1, <1>9, <1>10, <4>1, <4>2 DEF PersonHolds
      <4>4. texts[p] \in Nat
        BY <1>0, <4>1 DEF AlertsTypeOK
      <4> QED
        BY <1>1, <1>7, <1>9, <3>1, <4>2, <4>3, <4>4
    <3>2. CASE d # c
      <4>1. p \in Rows(d)
        BY <1>7, <2>1, <3>2
      <4>2. p \in Rows(c)' => p \in retold'
        BY <1>1, <1>7, <4>1
      <4>3. \A e \in Tellers \ {d} : p \in Rows(e)' => p \in retold'
        BY <1>0, <1>1, <1>7, <4>1, <4>2 DEF RowsInHand
      <4>4. /\ IsTelling(d, p)' => texts'[p] > 0
            /\ p \in retold' \/ IsTelling(d, p)' \/ texts'[p] = 0
        BY <1>0, <1>1, <1>8, <3>2, <4>1 DEF RowsInHand
      <4> QED
        BY <4>3, <4>4
    <3> QED
      BY <3>1, <3>2
  <2> QED
    BY <2>1 DEF RowsInHand
<1>12. ASSUME NEW t \in People PROVE PersonHolds(t)'
  <2>1. (\E d \in Tellers : IsTelling(d, t)) => \E d \in Tellers : IsTelling(d, t)'
    BY <1>8, <1>9
  <2> QED
    BY <1>0, <1>1, <1>3, <2>1 DEF PersonHolds
<1> QED
  BY <1>3, <1>6, <1>11, <1>12 DEF Alerting

\* The message goes into the queue before the row is marked.
LEMMA TellingKeeps ==
  ASSUME Alerting, NEW c \in Tellers, Tell(c)
  PROVE  Alerting'
<1>f. PICK f : f = First(c)
  OBVIOUS
<1> DEFINE new == [rows |-> call[c].rows, texted |-> TRUE]
<1>0. /\ AlertsTypeOK /\ CallsAreOK /\ RowsInHand /\ \A t \in People : PersonHolds(t)
  BY DEF Alerting
<1>1. /\ call[c] # NoCall /\ ~call[c].texted
      /\ texts' = [texts EXCEPT ![f] = @ + 1]
      /\ call' = [call EXCEPT ![c] = new]
      /\ UNCHANGED <<notice, place, sellable, asking, retold, shutOut, asked, called>>
  BY <1>f DEF Tell
<1>2. f \in Rows(c) /\ Rows(c) \subseteq InLine /\ InLine \subseteq People
  BY <1>0, <1>1, <1>f, FirstIs DEF InLine
<1>3. /\ texts' \in [People -> Nat] /\ texts'[f] = texts[f] + 1 /\ texts[f] \in Nat
      /\ \A t \in People \ {f} : texts'[t] = texts[t]
  BY <1>0, <1>1, <1>2 DEF AlertsTypeOK
<1>4. /\ AlertsTypeOK' /\ AsksAreOK' /\ PlacesAreGiven' /\ RoomIsLeft'
      /\ InLine' = InLine /\ Waiting' = Waiting
  <2>1. /\ called' \in 0 .. MaxCalls /\ retold' \subseteq People
        /\ notice' \in [People -> {"none", "waiting", "notified", "cancelled"}]
    BY <1>0, <1>1 DEF AlertsTypeOK
  <2>2. Waiting' = Waiting
    BY <1>1 DEF Waiting
  <2> QED
    BY <1>1, <1>3, <2>1, <2>2, CallsKeepLine
<1>5. /\ DOMAIN call' = Tellers /\ call'[c] = new
      /\ \A d \in Tellers \ {c} : call'[d] = call[d]
  BY <1>0, <1>1 DEF CallsAreOK
<1>6. new.rows = call[c].rows /\ new.texted /\ new # NoCall
  <2>1. call[c].rows \in SUBSET People
    BY <1>0, <1>1, <1>2 DEF CallsAreOK
  <2>2. new \in [rows : SUBSET People, texted : BOOLEAN]
    BY <2>1
  <2>3. new # NoCall
    BY <2>2, StockAlertsAssumption
  <2>4. new.rows = call[c].rows /\ new.texted = TRUE
    OBVIOUS
  <2> QED
    BY <2>3, <2>4
<1> HIDE DEF new
<1>7. CallsAreOK'
  BY <1>0, <1>1, <1>4, <1>5, <1>6 DEF CallsAreOK
<1>8. \A d \in Tellers : Rows(d)' \subseteq Rows(d)
  BY <1>1, <1>5, <1>6 DEF Rows
<1>9. \A d \in Tellers : call[d] # NoCall /\ call'[d] # NoCall => First(d)' = First(d)
  BY <1>0, <1>1, <1>4, <1>5, <1>6, <1>7, FirstStays
<1>10. \A d \in Tellers \ {c} : \A t : IsTelling(d, t)' <=> IsTelling(d, t)
  BY <1>5, <1>9 DEF IsTelling
<1>11. \A t : ~IsTelling(c, t)
  BY <1>1 DEF IsTelling
<1>12. \A t : IsTelling(c, t)' <=> t = f
  BY <1>1, <1>5, <1>6, <1>9, <1>f DEF IsTelling
<1>13. \A d \in Tellers \ {c} : f \in Rows(d) => f \in retold
  BY <1>0, <1>2 DEF RowsInHand
<1>14. f \in retold \/ texts[f] = 0
  BY <1>0, <1>2, <1>11 DEF RowsInHand
<1>15. RowsInHand'
  <2>1. ASSUME NEW d \in Tellers, NEW p \in Rows(d)'
        PROVE  /\ IsTelling(d, p)' => texts'[p] > 0
               /\ p \in retold' \/ IsTelling(d, p)' \/ texts'[p] = 0
               /\ \A e \in Tellers \ {d} : p \in Rows(e)' => p \in retold'
    <3>1. p \in Rows(d) /\ p \in People
      BY <1>0, <1>8, <2>1 DEF Rows, CallsAreOK, InLine
    <3>2. \A e \in Tellers \ {d} : p \in Rows(e)' => p \in retold'
      BY <1>0, <1>1, <1>8, <3>1 DEF RowsInHand
    <3>3. /\ IsTelling(d, p) => texts[p] > 0
          /\ p \in retold \/ IsTelling(d, p) \/ texts[p] = 0
      BY <1>0, <3>1 DEF RowsInHand
    <3>4. CASE d = c
      BY <1>1, <1>3, <1>11, <1>12, <3>1, <3>2, <3>3, <3>4
    <3>5. CASE d # c /\ p # f
      BY <1>1, <1>3, <1>10, <3>1, <3>2, <3>3, <3>5
    <3>6. CASE d # c /\ p = f
      BY <1>1, <1>3, <1>13, <3>1, <3>2, <3>6
    <3> QED
      BY <3>4, <3>5, <3>6
  <2> QED
    BY <2>1 DEF RowsInHand
<1>16. ASSUME NEW t \in People PROVE PersonHolds(t)'
  <2>1. CASE t = f
    <3>1. f \in InLine /\ IsTelling(c, f)'
      BY <1>2, <1>12
    <3>2. texts'[f] > 0 /\ (texts'[f] > 1 => f \in retold')
      BY <1>1, <1>3, <1>14
    <3> QED
      BY <1>4, <2>1, <3>1, <3>2 DEF PersonHolds
  <2>2. CASE t # f
    <3>1. (\E d \in Tellers : IsTelling(d, t)) => \E d \in Tellers : IsTelling(d, t)'
      BY <1>10, <1>11
    <3> QED
      BY <1>0, <1>1, <1>3, <1>4, <2>2, <3>1 DEF PersonHolds
  <2> QED
    BY <2>1, <2>2
<1> QED
  BY <1>4, <1>7, <1>15, <1>16 DEF Alerting

\* The row that was told is marked if it still waits, and leaves the hand of the call, as
\* does one without a telephone; or the call dies, and its row may be told again.
LEMMA MarkingKeeps ==
  ASSUME Alerting, NEW c \in Tellers, MarkNotified(c) \/ Skip(c) \/ TellerDies(c)
  PROVE  Alerting'
<1>f. PICK f : f = First(c)
  OBVIOUS
<1>0. /\ AlertsTypeOK /\ CallsAreOK /\ RowsInHand /\ \A t \in People : PersonHolds(t)
  BY DEF Alerting
<1>1. /\ call[c] # NoCall
      /\ UNCHANGED <<place, sellable, asking, texts, shutOut, asked, called>>
  BY DEF MarkNotified, Skip, TellerDies
<1>2. /\ f \in Rows(c) /\ Rows(c) \subseteq InLine /\ InLine \subseteq People
      /\ call[c].rows = Rows(c) /\ call[c].texted \in BOOLEAN
  BY <1>0, <1>1, <1>f, FirstIs DEF InLine, Rows, CallsAreOK
<1>3. /\ \A t \in People \ {f} : notice'[t] = notice[t]
      /\ notice'[f] = notice[f] \/ (notice[f] = "waiting" /\ notice'[f] = "notified")
      /\ notice' \in [People -> {"none", "waiting", "notified", "cancelled"}]
      /\ notice'[f] = "notified" => notice[f] = "notified" \/ call[c].texted
      /\ retold \subseteq retold' /\ retold' \subseteq retold \cup {f}
      /\ call[c].texted => f \in retold' \/ notice'[f] # "waiting"
  <2>1. CASE MarkNotified(c)
    <3>1. /\ notice' = [notice EXCEPT ![f] = IF @ = "waiting" THEN "notified" ELSE @]
          /\ retold' = retold /\ call[c].texted
      BY <2>1, <1>f DEF MarkNotified
    <3>2. /\ notice'[f] = IF notice[f] = "waiting" THEN "notified" ELSE notice[f]
          /\ \A t \in People \ {f} : notice'[t] = notice[t]
      BY <1>0, <1>2, <3>1 DEF AlertsTypeOK
    <3>3. notice' \in [People -> {"none", "waiting", "notified", "cancelled"}]
      BY <1>0, <3>1 DEF AlertsTypeOK
    <3> QED
      BY <3>1, <3>2, <3>3
  <2>2. CASE TellerDies(c)
    <3>1. notice' = notice /\ retold' = IF call[c].texted THEN retold \cup {f} ELSE retold
      BY <2>2, <1>f DEF TellerDies
    <3> QED
      BY <1>0, <3>1 DEF AlertsTypeOK
  <2>3. CASE Skip(c)
    <3>1. notice' = notice /\ retold' = retold /\ ~call[c].texted
      BY <2>3 DEF Skip
    <3> QED
      BY <1>0, <3>1 DEF AlertsTypeOK
  <2> QED
    BY <2>1, <2>2, <2>3
<1>4. \/ call' = [call EXCEPT ![c] = NoCall]
      \/ /\ call[c].rows # {f}
         /\ call' = [call EXCEPT ![c] = [rows |-> call[c].rows \ {f}, texted |-> FALSE]]
  BY <1>f DEF MarkNotified, Skip, Onwards, TellerDies
<1>5. /\ DOMAIN call' = Tellers /\ \A d \in Tellers \ {c} : call'[d] = call[d]
      /\ call'[c] # NoCall =>
           /\ call'[c].rows = call[c].rows \ {f} /\ call[c].rows # {f}
           /\ call'[c].texted = FALSE
  BY <1>0, <1>4 DEF CallsAreOK
<1>6. /\ AlertsTypeOK' /\ AsksAreOK' /\ PlacesAreGiven' /\ RoomIsLeft'
      /\ InLine' = InLine /\ Waiting' \in SUBSET Waiting
  <2>1. /\ texts' \in [People -> Nat] /\ retold' \subseteq People /\
             called' \in 0 .. MaxCalls
    BY <1>0, <1>1, <1>2, <1>3 DEF AlertsTypeOK
  <2>2. \A p \in People : notice'[p] = notice[p] \/ (notice[p] = "waiting" /\
          notice'[p] = "notified")
    BY <1>3
  <2> QED
    BY <1>1, <1>3, <2>1, <2>2, CallsKeepLine
<1>7. CallsAreOK'
  <2>1. \A d \in Tellers \ {c} : call'[d] # NoCall =>
          /\ call'[d].rows \in SUBSET InLine' /\ call'[d].rows # {} /\
               call'[d].texted \in BOOLEAN
    BY <1>0, <1>5, <1>6 DEF CallsAreOK
  <2>2. call'[c] # NoCall =>
          /\ call'[c].rows \in SUBSET InLine' /\ call'[c].rows # {} /\
               call'[c].texted \in BOOLEAN
    BY <1>2, <1>5, <1>6
  <2> QED
    BY <1>5, <2>1, <2>2 DEF CallsAreOK
<1>8. /\ \A d \in Tellers \ {c} : Rows(d)' = Rows(d)
      /\ Rows(c)' \subseteq Rows(c) \ {f}
  BY <1>2, <1>5 DEF Rows
<1>9. \A d \in Tellers \ {c} : \A t : IsTelling(d, t)' <=> IsTelling(d, t)
  <2>1. \A d \in Tellers \ {c} : call[d] # NoCall => First(d)' = First(d)
    BY <1>0, <1>1, <1>5, <1>6, <1>7, FirstStays
  <2> QED
    BY <1>5, <2>1 DEF IsTelling
<1>10. /\ \A t : ~IsTelling(c, t)'
       /\ \A t : IsTelling(c, t) <=> call[c].texted /\ t = f
  BY <1>1, <1>5, <1>f DEF IsTelling
<1>11. RowsInHand'
  <2>1. ASSUME NEW d \in Tellers, NEW p \in Rows(d)'
        PROVE  /\ IsTelling(d, p)' => texts'[p] > 0
               /\ p \in retold' \/ IsTelling(d, p)' \/ texts'[p] = 0
               /\ \A e \in Tellers \ {d} : p \in Rows(e)' => p \in retold'
    <3>1. p \in Rows(d) /\ \A e \in Tellers : p \in Rows(e)' => p \in Rows(e)
      BY <1>8, <2>1
    <3>2. \A e \in Tellers \ {d} : p \in Rows(e)' => p \in retold'
      BY <1>0, <1>3, <3>1 DEF RowsInHand
    <3>3. /\ IsTelling(d, p) => texts[p] > 0
          /\ p \in retold \/ IsTelling(d, p) \/ texts[p] = 0
      BY <1>0, <3>1 DEF RowsInHand
    <3>4. CASE d = c
      <4>1. p # f /\ ~IsTelling(c, p) /\ ~IsTelling(c, p)'
        BY <1>8, <1>10, <2>1, <3>4
      <4> QED
        BY <1>1, <1>3, <3>2, <3>3, <3>4, <4>1
    <3>5. CASE d # c
      BY <1>1, <1>3, <1>9, <3>2, <3>3, <3>5
    <3> QED
      BY <3>4, <3>5
  <2> QED
    BY <2>1 DEF RowsInHand
<1>12. ASSUME NEW t \in People PROVE PersonHolds(t)'
  <2>1. CASE t = f
    <3>1. notice'[f] = "notified" => texts[f] > 0
      <4>1. call[c].texted => texts[f] > 0
        BY <1>0, <1>2, <1>10 DEF RowsInHand
      <4>2. notice[f] = "notified" => texts[f] > 0
        BY <1>0, <1>2 DEF PersonHolds
      <4> QED
        BY <1>3, <4>1, <4>2
    <3>2. /\ texts'[f] > 1 => f \in retold'
          /\ texts'[f] > 0 => f \in InLine'
      BY <1>0, <1>1, <1>2, <1>3, <1>6 DEF PersonHolds
    <3>3. texts'[f] > 0 /\ f \in Waiting'
            => f \in retold' \/ \E d \in Tellers : IsTelling(d, f)'
      <4> SUFFICES ASSUME texts[f] > 0, f \in Waiting', f \notin retold'
                   PROVE  \E d \in Tellers : IsTelling(d, f)'
        BY <1>1
      <4>1. ~call[c].texted
        BY <1>3 DEF Waiting
      <4>2. PICK d \in Tellers : IsTelling(d, f)
        BY <1>0, <1>2, <1>3, <1>6 DEF PersonHolds
      <4>3. d # c
        BY <1>10, <4>1, <4>2
      <4> QED
        BY <1>9, <4>2, <4>3
    <3> QED
      BY <1>1, <2>1, <3>1, <3>2, <3>3 DEF PersonHolds
  <2>2. CASE t # f
    <3>1. (\E d \in Tellers : IsTelling(d, t)) => \E d \in Tellers : IsTelling(d, t)'
      BY <1>9, <1>10, <2>2
    <3>2. PersonHolds(t) /\ notice'[t] = notice[t]
      BY <1>0, <1>3, <2>2
    <3> QED
      BY <1>1, <1>3, <1>6, <3>1, <3>2 DEF PersonHolds
  <2> QED
    BY <2>1, <2>2
<1> QED
  BY <1>6, <1>7, <1>11, <1>12 DEF Alerting

-----------------------------------------------------------------------------
\* No step of those who ask and those who tell disturbs the line.
LEMMA AlertingNext == Alerting /\ [AlertsNext]_alertVars => Alerting'
<1> SUFFICES ASSUME Alerting, [AlertsNext]_alertVars PROVE Alerting'
  OBVIOUS
<1>1. CASE UNCHANGED alertVars
  BY <1>1, AskingKeeps
<1>2. CASE AlertsNext
  <2>1. \/ \/ StockChanges
           \/ \E a \in Asks : (\E p \in People : Ask(a, p)) \/ Leave(a) \/ Look(a)
           \/ \E p \in People : Withdraw(p)
        \/ \E a \in Asks : Join(a)
        \/ \E c \in Tellers : \/ CallTeller(c) \/ Tell(c)
                              \/ MarkNotified(c) \/ Skip(c) \/ TellerDies(c)
    BY <1>2 DEF AlertsNext
  <2> QED
    BY <2>1, AskingKeeps, JoiningKeeps, CallingKeeps, TellingKeeps, MarkingKeeps
<1> QED
  BY <1>1, <1>2

\* For any number of people, requests and tellers: who is marked as told was sent a text,
\* and one only unless calls overlapped or died, who waits and has one is about to be
\* marked, and the line outgrows its limit by the requests under way at most
\* (commerce/src/stock-alerts.ts).
THEOREM WaitersAreSafe == AlertsSpec => []WaitersAreTold
<1>1. AlertsInit => Alerting
  BY AlertingInit
<1>2. Alerting /\ [AlertsNext]_alertVars => Alerting'
  BY AlertingNext
<1>3. Alerting => WaitersAreTold
  BY AlertingTells
<1> QED
  BY <1>1, <1>2, <1>3, PTL DEF AlertsSpec

-----------------------------------------------------------------------------
(* The sums of an order: shares of a whole add up to it.                     *)

\* A sum of sums of two terms.
LEMMA SumOfTwo ==
  ASSUME NEW S, IsFiniteSet(S), NEW f, NEW g, NEW h,
         \A x \in S : f[x] \in Int /\ g[x] \in Int /\ h[x] = f[x] + g[x]
  PROVE  SumFunctionOnSet(h, S) = SumFunctionOnSet(f, S) + SumFunctionOnSet(g, S)
<1> DEFINE Good == {s \in SUBSET S : SumFunctionOnSet(h, s)
                      = SumFunctionOnSet(f, s) + SumFunctionOnSet(g, s)}
<1>1. {} \in Good
  BY SumEmpty
<1>2. ASSUME NEW s \in Good, NEW x \in S \ s PROVE s \cup {x} \in Good
  <2>1. IsFiniteSet(s) /\ \A y \in s \cup {x} : f[y] \in Int /\ g[y] \in Int /\
          h[y] \in Int
    BY FS_Subset
  <2>2. /\ SumFunctionOnSet(f, s \cup {x}) = f[x] + SumFunctionOnSet(f, s)
        /\ SumFunctionOnSet(g, s \cup {x}) = g[x] + SumFunctionOnSet(g, s)
        /\ SumFunctionOnSet(h, s \cup {x}) = h[x] + SumFunctionOnSet(h, s)
    BY <2>1, SumGrows
  <2>3. /\ SumFunctionOnSet(f, s) \in Int /\ SumFunctionOnSet(g, s) \in Int
        /\ SumFunctionOnSet(h, s) = SumFunctionOnSet(f, s) + SumFunctionOnSet(g, s)
    BY <2>1, SumType
  <2>4. h[x] = f[x] + g[x] /\ f[x] \in Int /\ g[x] \in Int
    OBVIOUS
  <2>5. SumFunctionOnSet(h, s \cup {x})
          = SumFunctionOnSet(f, s \cup {x}) + SumFunctionOnSet(g, s \cup {x})
    BY <2>2, <2>3, <2>4
  <2> QED
    BY <2>5
<1>3. Good = SUBSET S
  <2>1. Good \in SUBSET SUBSET S
    OBVIOUS
  <2> HIDE DEF Good
  <2> QED
    BY <1>1, <1>2, <2>1, SubsetInduction
<1> QED
  BY <1>3

\* A sum of ones counts its terms.
LEMMA SumOfOnes ==
  ASSUME NEW S, IsFiniteSet(S), NEW f, \A x \in S : f[x] = 1
  PROVE  SumFunctionOnSet(f, S) = Cardinality(S)
<1> DEFINE Good == {s \in SUBSET S : SumFunctionOnSet(f, s) = Cardinality(s)}
<1>1. {} \in Good
  BY SumEmpty, FS_EmptySet
<1>2. ASSUME NEW s \in Good, NEW x \in S \ s PROVE s \cup {x} \in Good
  <2>1. IsFiniteSet(s) /\ \A y \in s \cup {x} : f[y] \in Int
    BY FS_Subset
  <2>2. SumFunctionOnSet(f, s \cup {x}) = f[x] + SumFunctionOnSet(f, s)
    BY <2>1, SumGrows
  <2>3. Cardinality(s \cup {x}) = Cardinality(s) + 1 /\ Cardinality(s) \in Nat
    BY <2>1, FS_AddElement, FS_CardinalityType
  <2> QED
    BY <2>2, <2>3
<1>3. Good = SUBSET S
  <2>1. Good \in SUBSET SUBSET S
    OBVIOUS
  <2> HIDE DEF Good
  <2> QED
    BY <1>1, <1>2, <2>1, SubsetInduction
<1> QED
  BY <1>3

-----------------------------------------------------------------------------
\* Sorting gives every index a place of its own.
LEMMA PlacesAreApart ==
  ASSUME NEW D \in SUBSET Int, IsFiniteSet(D), NEW key \in [D -> Int], NEW i \in D,
           NEW j \in D
  PROVE  /\ Place(key, i) \in 0 .. Cardinality(D) - 1
         /\ Place(key, i) = Place(key, j) => i = j
         /\ key[j] > key[i] => Place(key, j) < Place(key, i)
<1> DEFINE Before(k) == {l \in D : key[l] > key[k] \/ (key[l] = key[k] /\ l < k)}
<1>1. \A k \in D : Place(key, k) = Cardinality(Before(k))
  BY DEF Place
<1>2. \A k, l \in D : key[k] \in Int /\ key[l] \in Int /\ k \in Int /\ l \in Int
  OBVIOUS
<1>3. \A k \in D : k \notin Before(k)
  BY <1>2
<1>4. \A k, l \in D : k \in Before(l) => Before(k) \subseteq Before(l)
  <2> SUFFICES ASSUME NEW k \in D, NEW l \in D, k \in Before(l), NEW m \in Before(k)
               PROVE  m \in Before(l)
    OBVIOUS
  <2>1. m \in D /\ key[m] \in Int /\ key[k] \in Int /\ key[l] \in Int
    OBVIOUS
  <2> QED
    BY <2>1
<1>5. \A k, l \in D : k # l => k \in Before(l) \/ l \in Before(k)
  BY <1>2
<1>6. \A k \in D : Before(k) \in SUBSET D
  OBVIOUS
<1>7. key[j] > key[i] => j \in Before(i)
  OBVIOUS
<1> HIDE DEF Before
<1>8. \A k \in D : IsFiniteSet(Before(k)) /\ Cardinality(Before(k)) \in Nat
  BY <1>6, FS_Subset, FS_CardinalityType
<1>9. \A k, l \in D : k \in Before(l) => Cardinality(Before(k)) < Cardinality(Before(l))
  <2> SUFFICES ASSUME NEW k \in D, NEW l \in D, k \in Before(l)
               PROVE  Cardinality(Before(k)) < Cardinality(Before(l))
    OBVIOUS
  <2>1. Before(k) \in SUBSET Before(l) /\ Before(k) # Before(l)
    BY <1>3, <1>4
  <2>2. /\ Cardinality(Before(k)) <= Cardinality(Before(l))
        /\ Cardinality(Before(l)) = Cardinality(Before(k)) => Before(l) = Before(k)
    BY <1>8, <2>1, FS_Subset
  <2> QED
    BY <1>8, <2>1, <2>2
<1>10. Cardinality(Before(i)) < Cardinality(D) /\ Cardinality(D) \in Nat
  <2>1. Before(i) # D
    BY <1>3
  <2>2. /\ Cardinality(Before(i)) <= Cardinality(D)
        /\ Cardinality(D) = Cardinality(Before(i)) => D = Before(i)
    BY <1>6, FS_Subset
  <2> QED
    BY <1>8, <2>1, <2>2, FS_CardinalityType
<1> QED
  BY <1>1, <1>5, <1>7, <1>8, <1>9, <1>10

\* As many indices as one likes come first.
LEMMA PlacesAreFilled ==
  ASSUME NEW D, IsFiniteSet(D), NEW n \in 0 .. Cardinality(D), NEW rank \in [D -> Nat],
         \A i \in D : rank[i] < Cardinality(D),
         \A i, j \in D : rank[i] = rank[j] => i = j,
         NEW Firsts \in SUBSET D, \A i \in D : i \in Firsts <=> rank[i] < n
  PROVE  Cardinality(Firsts) = n
<1> DEFINE N == 0 .. Cardinality(D) - 1
           f == [i \in Firsts |-> rank[i]]
           M == 0 .. n - 1
<1>1. Cardinality(D) \in Nat /\ n \in Nat
  BY FS_CardinalityType
<1>2. IsFiniteSet(N) /\ Cardinality(N) = Cardinality(D)
  <2> DEFINE b == Cardinality(D) - 1
  <2>1. b \in Int /\ 0 \in Int /\ (0 > b => Cardinality(D) = 0)
    BY <1>1
  <2> HIDE DEF b
  <2>2. IsFiniteSet(0 .. b) /\ Cardinality(0 .. b) = IF 0 > b THEN 0 ELSE b - 0 + 1
    BY <2>1, FS_Interval
  <2> QED
    BY <1>1, <2>1, <2>2 DEF b
<1>3. rank \in Injection(D, N)
  BY <1>1 DEF Injection, IsInjective
<1>4. rank \in Surjection(D, N)
  BY <1>2, <1>3, FS_Injection
<1>5. \A m \in N : \E i \in D : rank[i] = m
  BY <1>4 DEF Surjection
<1>6. IsFiniteSet(M) /\ Cardinality(M) = n
  <2> DEFINE b == n - 1
  <2>1. b \in Int /\ 0 \in Int /\ (0 > b => n = 0)
    BY <1>1
  <2> HIDE DEF b
  <2>2. IsFiniteSet(0 .. b) /\ Cardinality(0 .. b) = IF 0 > b THEN 0 ELSE b - 0 + 1
    BY <2>1, FS_Interval
  <2> QED
    BY <1>1, <2>1, <2>2 DEF b
<1>7. f \in Injection(Firsts, M)
  BY <1>1 DEF Injection, IsInjective
<1>8. f \in Surjection(Firsts, M)
  <2>1. f \in [Firsts -> M]
    BY <1>1
  <2>2. \A m \in M : \E i \in Firsts : f[i] = m
    <3> SUFFICES ASSUME NEW m \in M PROVE \E i \in Firsts : f[i] = m
      OBVIOUS
    <3>1. m \in N /\ m < n
      BY <1>1
    <3>2. PICK i \in D : rank[i] = m
      BY <1>5, <3>1
    <3> QED
      BY <3>1, <3>2
  <2> QED
    BY <2>1, <2>2 DEF Surjection
<1> HIDE DEF f
<1>9. Cardinality(Firsts) = Cardinality(M)
  BY <1>6, <1>7, <1>8, FS_Injection
<1> QED
  BY <1>6, <1>9
\* The part of one weight, rounded down, and what is left of it, in parts of the whole.
Part(total, weight) ==
  [i \in DOMAIN weight |-> (total * weight[i]) \div SumFunction(weight)]

Left(total, weight) == total - SumFunction(Part(total, weight))

Heavy(weight) == {i \in DOMAIN weight : weight[i] # 0}

\* A division, with its rest.
LEMMA PartOfOne ==
  ASSUME NEW total \in Nat, NEW w \in Nat, NEW W \in Nat \ {0}
  PROVE  LET p == (total * w) \div W IN
         /\ p \in Nat /\ total * w \in Nat /\ W * p \in Nat
         /\ total * w - W * p \in 0 .. W - 1
         /\ w = 0 => p = 0 /\ total * w - W * p = 0
<1> DEFINE a == total * w
           p == a \div W
<1>1. a \in Nat /\ (w = 0 => a = 0)
  OBVIOUS
<1> HIDE DEF a
<1>2. p \in Nat /\ p \in Int /\ W * p <= a /\ a < W * p + W
  BY <1>1, Division, DivisionOfNat
<1> HIDE DEF p
<1>3. W * p \in Nat
  BY <1>2
<1>4. a = 0 => p = 0
  <2> SUFFICES ASSUME a = 0, p > 0 PROVE FALSE
    BY <1>2
  <2>1. W * p > 0
    BY <1>2
  <2> QED
    BY <1>2, <2>1
<1> QED
  BY <1>1, <1>2, <1>3, <1>4 DEF p, a

\* What is left is less than there are weights that are not zero.
LEMMA LittleIsLeft ==
  ASSUME NEW D, IsFiniteSet(D), NEW weight \in [D -> Nat], NEW total \in Nat,
         SumFunction(weight) # 0
  PROVE  /\ SumFunction(weight) \in Nat \ {0}
         /\ \A i \in D : Part(total, weight)[i] \in Nat
         /\ Left(total, weight) \in Nat
         /\ Left(total, weight) < Cardinality(Heavy(weight))
         /\ (\A i \in D : total * weight[i]
                            = SumFunction(weight) * Part(total, weight)[i])
              => Left(total, weight) = 0
<1> DEFINE W == SumFunction(weight)
           part == Part(total, weight)
           whole == [i \in D |-> total * weight[i]]
           scaled == [i \in D |-> W * part[i]]
           rest == [i \in D |-> total * weight[i] - W * part[i]]
           P == Heavy(weight)
           given == SumFunctionOnSet(part, D)
           rests == SumFunctionOnSet(rest, D)
           L == total - given
<1>1. W = SumFunctionOnSet(weight, D) /\ W \in Nat \ {0}
  <2>1. W = SumFunctionOnSet(weight, D)
    BY DEF SumFunction
  <2>2. SumFunctionOnSet(weight, D) \in Nat
    BY SumNat
  <2> QED
    BY <2>1, <2>2
<1>2. part = [i \in D |-> (total * weight[i]) \div W] /\ Left(total, weight) = L
  BY DEF Part, Left, SumFunction
<1> HIDE DEF W
<1>3. ASSUME NEW i \in D
      PROVE  /\ part[i] \in Nat /\ whole[i] \in Nat /\ scaled[i] \in Nat
             /\ rest[i] \in 0 .. W - 1 /\ whole[i] = scaled[i] + rest[i]
             /\ weight[i] = 0 => rest[i] = 0
             /\ total * weight[i] = W * part[i] => rest[i] = 0
  <2>1. weight[i] \in Nat /\ part[i] = (total * weight[i]) \div W
    BY <1>2
  <2>2. /\ part[i] \in Nat /\ total * weight[i] \in Nat /\ W * part[i] \in Nat
        /\ total * weight[i] - W * part[i] \in 0 .. W - 1
        /\ weight[i] = 0 => total * weight[i] - W * part[i] = 0
    <3> DEFINE w == weight[i]
               p == part[i]
    <3>1. w \in Nat /\ p = (total * w) \div W
      BY <2>1
    <3> HIDE DEF w, p
    <3>2. /\ p \in Nat /\ total * w \in Nat /\ W * p \in Nat
          /\ total * w - W * p \in 0 .. W - 1
          /\ w = 0 => total * w - W * p = 0
      BY <1>1, <3>1, PartOfOne
    <3> QED
      BY <3>2 DEF w, p
  <2>3. /\ whole[i] = total * weight[i] /\ scaled[i] = W * part[i]
        /\ rest[i] = total * weight[i] - W * part[i]
    OBVIOUS
  <2> HIDE DEF whole, scaled, rest
  <2> DEFINE a == total * weight[i]
             b == W * part[i]
  <2>4. a \in Nat /\ b \in Nat /\ whole[i] = a /\ scaled[i] = b /\ rest[i] = a - b
    BY <2>2, <2>3
  <2> HIDE DEF a, b
  <2>5. whole[i] = scaled[i] + rest[i] /\ (a = b => rest[i] = 0)
    BY <2>4
  <2> QED
    BY <2>2, <2>3, <2>5 DEF a, b
<1> HIDE DEF part
<1>4. SumFunctionOnSet(whole, D) = SumFunctionOnSet(scaled, D) + rests
  <2>1. \A i \in D : /\ scaled[i] \in Int /\ rest[i] \in Int
                     /\ whole[i] = scaled[i] + rest[i]
    BY <1>1, <1>3
  <2> HIDE DEF whole, scaled, rest
  <2> QED
    BY <2>1, SumOfTwo
<1>5. SumFunctionOnSet(whole, D) = total * W
  <2>1. \A i \in D : /\ whole[i] \in Int /\ weight[i] \in Int
                     /\ 1 * whole[i] <= total * weight[i] /\
                          total * weight[i] <= 1 * whole[i]
    BY <1>3
  <2> HIDE DEF whole
  <2>2. /\ 1 * SumFunctionOnSet(whole, D) <= total * SumFunctionOnSet(weight, D)
        /\ total * SumFunctionOnSet(weight, D) <= 1 * SumFunctionOnSet(whole, D)
    BY <2>1, SumScaled, 1 \in Nat
  <2>3. SumFunctionOnSet(whole, D) \in Int /\ total * W \in Int
    BY <1>1, <2>1, SumType
  <2> QED
    BY <1>1, <2>2, <2>3
<1>6. SumFunctionOnSet(scaled, D) = W * given /\ given \in Nat
  <2>1. \A i \in D : /\ scaled[i] \in Int /\ part[i] \in Int
                     /\ 1 * scaled[i] <= W * part[i] /\ W * part[i] <= 1 * scaled[i]
    BY <1>3
  <2> HIDE DEF scaled
  <2>2. /\ 1 * SumFunctionOnSet(scaled, D) <= W * given
        /\ W * given <= 1 * SumFunctionOnSet(scaled, D)
    BY <1>1, <2>1, SumScaled, 1 \in Nat
  <2>3. given \in Nat /\ SumFunctionOnSet(scaled, D) \in Int
    BY <1>3, <2>1, SumNat, SumType
  <2> HIDE DEF given
  <2>4. W * given \in Int
    BY <1>1, <2>3
  <2> QED
    BY <2>2, <2>3, <2>4
<1>7. P \in SUBSET D /\ IsFiniteSet(P) /\ Cardinality(P) \in Nat
  BY FS_Subset, FS_CardinalityType DEF Heavy
<1>8. rests \in Nat /\ rests <= Cardinality(P) * (W - 1)
  <2>1. \A i \in P : rest[i] \in 0 .. W - 1
    BY <1>3, <1>7
  <2>2. \A i \in D : rest[i] \in Int /\ rest[i] \in Nat
    BY <1>1, <1>3
  <2>3. \A i \in D \ P : rest[i] = 0
    BY <1>3 DEF Heavy
  <2> HIDE DEF rest
  <2>4. rests = SumFunctionOnSet(rest, P)
    BY <1>7, <2>2, <2>3, SumOfPart
  <2>5. W - 1 \in Nat
    BY <1>1
  <2>6. SumFunctionOnSet(rest, P) <= Cardinality(P) * (W - 1)
    BY <1>7, <2>1, <2>5, SumWithin
  <2>7. rests \in Nat
    BY <2>2, SumNat
  <2> QED
    BY <2>4, <2>6, <2>7
<1>9. P # {}
  <2> SUFFICES ASSUME P = {} PROVE FALSE
    OBVIOUS
  <2>1. \A i \in D : weight[i] = 0
    BY DEF Heavy
  <2> QED
    BY <1>1, <2>1, SumOfZeros
<1>10. (\A i \in D : total * weight[i] = W * part[i]) => rests = 0
  <2> SUFFICES ASSUME \A i \in D : total * weight[i] = W * part[i] PROVE rests = 0
    OBVIOUS
  <2>1. \A i \in D : rest[i] = 0
    <3> SUFFICES ASSUME NEW i \in D PROVE rest[i] = 0
      OBVIOUS
    <3> HIDE DEF rest
    <3> QED
      BY <1>3
  <2> HIDE DEF rest
  <2> QED
    BY <2>1, SumOfZeros
<1> HIDE DEF given, rests, P
<1>11. Cardinality(P) > 0
  BY <1>7, <1>9, FS_EmptySet
<1>12. W * L = rests
  <2>1. W * L = total * W - W * given
    BY <1>1, <1>6
  <2>2. total * W \in Int /\ W * given \in Int
    BY <1>1, <1>6
  <2> QED
    BY <1>4, <1>5, <1>6, <1>8, <2>1, <2>2
<1>13. L \in Nat
  <2> SUFFICES ASSUME L < 0 PROVE FALSE
    BY <1>6
  <2>1. W * L < 0
    BY <1>1, <1>6
  <2> QED
    BY <1>8, <1>12, <2>1
<1>14. L < Cardinality(P)
  <2> DEFINE n == Cardinality(P)
  <2>0. n \in Nat /\ n > 0 /\ rests <= n * (W - 1)
    BY <1>7, <1>8, <1>11
  <2> HIDE DEF n, L
  <2> SUFFICES ASSUME L >= n PROVE FALSE
    BY <1>13, <2>0 DEF n
  <2>1. W * L >= W * n
    BY <1>1, <1>13, <2>0
  <2>2. n * (W - 1) = W * n - n /\ W * n \in Int /\ W * L \in Int
    BY <1>1, <1>13, <2>0
  <2> QED
    BY <1>8, <1>12, <2>0, <2>1, <2>2
<1>15. rests = 0 => L = 0
  <2> SUFFICES ASSUME L > 0 PROVE rests # 0
    BY <1>13
  <2>1. W * L > 0
    BY <1>1, <1>13
  <2> QED
    BY <1>12, <2>1
<1> HIDE DEF L
<1> QED
  BY <1>1, <1>2, <1>3, <1>10, <1>13, <1>14, <1>15 DEF W, part, P
\* The parts, and one each for those who come first.
LEMMA SpreadIs ==
  ASSUME NEW D, NEW weight, DOMAIN weight = D, NEW total, NEW key
  PROVE  /\ Spread(total, weight, key)
              = [i \in D |-> Part(total, weight)[i]
                   + IF Place(key, i) < Left(total, weight) THEN 1 ELSE 0]
         /\ DOMAIN Part(total, weight) = D
BY DEF Spread, Part, Left

\* However the keys are, the shares make up the total, and each is within one of what the
\* weight is of all weights.
LEMMA SpreadIsExact ==
  ASSUME NEW D \in SUBSET Int, IsFiniteSet(D), NEW weight \in [D -> Nat],
         NEW key \in [D -> Int], NEW total \in Nat, SumFunction(weight) # 0
  PROVE  LET W == SumFunction(weight)
             s == Spread(total, weight, key)
         IN  /\ s \in [D -> Nat] /\ W \in Nat \ {0}
             /\ SumFunction(s) = total
             /\ \A i \in D : total * weight[i] - W * s[i] \in -W .. W
<1> DEFINE W == SumFunction(weight)
           part == Part(total, weight)
           L == Left(total, weight)
           s == Spread(total, weight, key)
           one == [i \in D |-> IF Place(key, i) < L THEN 1 ELSE 0]
           rank == [i \in D |-> Place(key, i)]
           Firsts == {i \in D : rank[i] < L}
<1>1. /\ W \in Nat \ {0} /\ \A i \in D : part[i] \in Nat
      /\ L \in Nat /\ L < Cardinality(Heavy(weight))
  BY LittleIsLeft
<1>2. s = [i \in D |-> part[i] + IF Place(key, i) < L THEN 1 ELSE 0] /\ DOMAIN part = D
  BY SpreadIs
<1>3. \A i \in D : part[i] = (total * weight[i]) \div W
  BY DEF Part
<1>4. Heavy(weight) \in SUBSET D
  BY DEF Heavy
<1>5. SumFunction(part) = SumFunctionOnSet(part, D) /\ SumFunctionOnSet(part, D) \in Nat
  BY <1>1, <1>2, SumNat DEF SumFunction
<1>6. L = total - SumFunctionOnSet(part, D)
  BY <1>5 DEF Left
<1> HIDE DEF W, part, L, s
<1>7. \A i, j \in D : /\ rank[i] \in 0 .. Cardinality(D) - 1
                      /\ rank[i] = rank[j] => i = j
  <2>1. \A i, j \in D : /\ Place(key, i) \in 0 .. Cardinality(D) - 1
                        /\ Place(key, i) = Place(key, j) => i = j
    BY PlacesAreApart
  <2> QED
    BY <2>1
<1>8. L \in 0 .. Cardinality(D)
  <2>1. Cardinality(Heavy(weight)) <= Cardinality(D)
    BY <1>4, FS_Subset
  <2>2. Cardinality(Heavy(weight)) \in Nat /\ Cardinality(D) \in Nat
    BY <1>4, FS_Subset, FS_CardinalityType
  <2> QED
    BY <1>1, <2>1, <2>2
<1>9. Cardinality(Firsts) = L
  <2>1. Cardinality(D) \in Nat
    BY FS_CardinalityType
  <2>2. rank \in [D -> Nat] /\ \A i \in D : rank[i] < Cardinality(D)
    BY <1>7, <2>1
  <2>3. \A i, j \in D : rank[i] = rank[j] => i = j
    BY <1>7
  <2> HIDE DEF rank, Firsts
  <2>4. Firsts \in SUBSET D /\ \A i \in D : i \in Firsts <=> rank[i] < L
    BY DEF Firsts
  <2> QED
    BY <1>8, <2>2, <2>3, <2>4, PlacesAreFilled
<1>10. Firsts \in SUBSET D /\ IsFiniteSet(Firsts)
  BY FS_Subset
<1>11. \A i \in D : one[i] = IF i \in Firsts THEN 1 ELSE 0
  OBVIOUS
<1> HIDE DEF Firsts, rank
<1>12. SumFunctionOnSet(one, D) = L
  <2> HIDE DEF one
  <2>0. /\ \A i \in D : one[i] \in Int
        /\ \A i \in D \ Firsts : one[i] = 0
    BY <1>11
  <2>1. SumFunctionOnSet(one, D) = SumFunctionOnSet(one, Firsts)
    BY <1>10, <2>0, SumOfPart
  <2>2. SumFunctionOnSet(one, Firsts) = Cardinality(Firsts)
    BY <1>10, <1>11, SumOfOnes
  <2> QED
    BY <1>9, <2>1, <2>2
<1>13. \A i \in D : s[i] = part[i] + one[i] /\ one[i] \in {0, 1}
  BY <1>2
<1> HIDE DEF one
<1>14. SumFunction(s) = total
  <2>1. SumFunctionOnSet(s, D) = SumFunctionOnSet(part, D) + SumFunctionOnSet(one, D)
    <3>1. \A i \in D : /\ part[i] \in Int /\ one[i] \in Int
                       /\ s[i] = part[i] + one[i]
      BY <1>1, <1>13
    <3>2. \A f, g, h : (\A i \in D : f[i] \in Int /\ g[i] \in Int /\ h[i] = f[i] + g[i])
            => SumFunctionOnSet(h, D) = SumFunctionOnSet(f, D) + SumFunctionOnSet(g, D)
      BY SumOfTwo
    <3> QED
      BY <3>1, <3>2
  <2>2. SumFunction(s) = SumFunctionOnSet(s, D)
    BY <1>2 DEF SumFunction
  <2> QED
    BY <1>5, <1>6, <1>12, <2>1, <2>2
<1>15. s \in [D -> Nat]
  BY <1>1, <1>2
<1>16. ASSUME NEW i \in D PROVE total * weight[i] - W * s[i] \in -W .. W
  <2> DEFINE w == weight[i]
             p == part[i]
             o == one[i]
  <2>1. w \in Nat /\ p = (total * w) \div W /\ s[i] = p + o /\ o \in {0, 1}
    BY <1>3, <1>13
  <2> HIDE DEF w, p, o
  <2>2. /\ p \in Nat /\ total * w \in Nat /\ W * p \in Nat
        /\ total * w - W * p \in 0 .. W - 1
    BY <1>1, <2>1, PartOfOne
  <2>3. W * (p + o) = W * p + (IF o = 0 THEN 0 ELSE W)
    BY <1>1, <2>1, <2>2
  <2> DEFINE a == total * w
             b == W * p
  <2>4. a \in Nat /\ b \in Nat /\ a - b \in 0 .. W - 1
    BY <2>2
  <2>5. W * s[i] = b + (IF o = 0 THEN 0 ELSE W)
    BY <2>1, <2>3
  <2> HIDE DEF a, b
  <2>6. a - W * s[i] \in -W .. W
    BY <1>1, <2>4, <2>5
  <2> QED
    BY <2>6 DEF a, w
<1> QED
  BY <1>1, <1>14, <1>15, <1>16 DEF s, W

\* Where the largest weights come first, no share exceeds its weight, if the total does
\* not exceed all of them.
LEMMA SpreadFits ==
  ASSUME NEW D \in SUBSET Int, IsFiniteSet(D), NEW weight \in [D -> Nat],
         NEW total \in Nat, SumFunction(weight) # 0, total <= SumFunction(weight),
         NEW i \in D
  PROVE  Spread(total, weight, weight)[i] <= weight[i]
<1> DEFINE W == SumFunction(weight)
           part == Part(total, weight)
           L == Left(total, weight)
           s == Spread(total, weight, weight)
           w == weight[i]
           p == part[i]
           P == Heavy(weight)
<1>1. /\ W \in Nat \ {0} /\ \A j \in D : part[j] \in Nat
      /\ L \in Nat /\ L < Cardinality(P)
      /\ (\A j \in D : total * weight[j] = W * part[j]) => L = 0
  BY LittleIsLeft
<1>2. s[i] = p + IF Place(weight, i) < L THEN 1 ELSE 0
  BY SpreadIs
<1>3. w \in Nat /\ \A j \in D : weight[j] \in Nat /\ part[j] = (total * weight[j]) \div W
  BY DEF Part
<1>4. P = {j \in D : weight[j] # 0}
  BY DEF Heavy
<1>5. total \in Nat /\ total <= W
  OBVIOUS
<1> HIDE DEF W, part, L, s, w, P
<1>6. p \in Nat /\ W * p <= total * w /\ (w = 0 => p = 0)
  <2>1. p = (total * w) \div W
    BY <1>3 DEF w
  <2> HIDE DEF p
  <2>2. /\ p \in Nat /\ total * w \in Nat /\ W * p \in Nat
        /\ total * w - W * p \in 0 .. W - 1 /\ (w = 0 => p = 0)
    BY <1>1, <1>3, <1>5, <2>1, PartOfOne
  <2> DEFINE a == total * w
             b == W * p
  <2>3. a \in Nat /\ b \in Nat /\ a - b \in 0 .. W - 1
    BY <2>2
  <2> HIDE DEF a, b
  <2>4. b <= a
    BY <1>1, <2>3
  <2> QED
    BY <2>2, <2>4 DEF a, b
<1> HIDE DEF p
<1>7. p <= w
  <2> SUFFICES ASSUME p >= w + 1 PROVE FALSE
    BY <1>3, <1>6
  <2>1. W * p >= W * (w + 1)
    BY <1>1, <1>3, <1>6
  <2>2. total * w <= W * w
    BY <1>1, <1>3, <1>5
  <2>3. W * (w + 1) = W * w + W /\ W * w \in Int /\ W * p \in Int /\ total * w \in Int
    BY <1>1, <1>3, <1>5, <1>6
  <2> QED
    BY <1>1, <1>6, <2>1, <2>2, <2>3
<1>8. CASE w = 0
  <2>1. \A j \in P : Place(weight, j) < Place(weight, i)
    BY <1>3, <1>4, <1>8, PlacesAreApart DEF w
  <2>2. Place(weight, i) >= Cardinality(P)
    <3> DEFINE n == Place(weight, i)
               rank == [j \in P |-> Place(weight, j)]
               N == 0 .. n - 1
    <3>1. \A j, k \in D : /\ Place(weight, j) \in 0 .. Cardinality(D) - 1
                          /\ Place(weight, j) = Place(weight, k) => j = k
      BY <1>3, PlacesAreApart
    <3>2. Cardinality(D) \in Nat
      BY FS_CardinalityType
    <3>3. n \in Nat /\ \A j \in P : Place(weight, j) \in Nat /\ Place(weight, j) < n
      BY <1>4, <2>1, <3>1, <3>2
    <3> HIDE DEF n
    <3>4. IsFiniteSet(N) /\ Cardinality(N) = n
      <4> DEFINE b == n - 1
      <4>1. b \in Int /\ 0 \in Int /\ (0 > b => n = 0)
        BY <3>3
      <4> HIDE DEF b
      <4>2. IsFiniteSet(0 .. b) /\ Cardinality(0 .. b) = IF 0 > b THEN 0 ELSE b - 0 + 1
        BY <4>1, FS_Interval
      <4> QED
        BY <3>3, <4>1, <4>2 DEF b
    <3>5. rank \in Injection(P, N)
      <4>1. \A j \in P : rank[j] \in N
        BY <3>3
      <4>2. \A j, k \in P : rank[j] = rank[k] => j = k
        BY <1>4, <3>1
      <4>3. rank \in [P -> N] /\ DOMAIN rank = P
        BY <4>1
      <4> HIDE DEF rank, N
      <4> QED
        BY <4>2, <4>3 DEF Injection, IsInjective
    <3> HIDE DEF rank, N
    <3>6. Cardinality(P) <= Cardinality(N)
      BY <3>4, <3>5, FS_Injection
    <3> QED
      BY <3>4, <3>6 DEF n
  <2>3. Place(weight, i) \in Int /\ Cardinality(P) \in Int
    <3>1. Place(weight, i) \in 0 .. Cardinality(D) - 1 /\ Cardinality(D) \in Nat
      BY PlacesAreApart, FS_CardinalityType
    <3>2. Cardinality(P) \in Nat
      BY <1>4, FS_Subset, FS_CardinalityType
    <3> QED
      BY <3>1, <3>2
  <2> QED
    BY <1>1, <1>2, <1>6, <1>8, <2>2, <2>3 DEF s, w
<1>9. CASE w # 0 /\ p = w
  <2>1. total = W
    <3> SUFFICES ASSUME total < W PROVE FALSE
      BY <1>1, <1>5
    <3>1. total * w < W * w
      BY <1>1, <1>3, <1>5, <1>9
    <3>2. W * w \in Int /\ total * w \in Int
      BY <1>1, <1>3, <1>5
    <3> QED
      BY <1>6, <1>9, <3>1, <3>2
  <2>2. \A j \in D : total * weight[j] = W * part[j]
    <3> SUFFICES ASSUME NEW j \in D PROVE W * weight[j] = W * part[j]
      BY <2>1
    <3>1. weight[j] \in Nat /\ part[j] = (W * weight[j]) \div W
      BY <1>3, <2>1
    <3> DEFINE v == weight[j]
               q == part[j]
    <3>2. v \in Nat /\ q = (W * v) \div W
      BY <3>1
    <3> HIDE DEF v, q
    <3>3. W * v \in Int /\ q \in Int /\ W * q <= W * v /\ W * v < W * q + W
      BY <1>1, <3>2, Division
    <3>4. q = v
      BY <1>1, <3>2, <3>3
    <3> QED
      BY <3>4 DEF q, v
  <2>3. L = 0
    BY <1>1, <2>2
  <2>4. Place(weight, i) >= 0 /\ Place(weight, i) \in Int
    BY PlacesAreApart, FS_CardinalityType
  <2> QED
    BY <1>2, <1>3, <1>9, <2>3, <2>4 DEF s, w
<1>10. CASE w # 0 /\ p # w
  BY <1>2, <1>3, <1>6, <1>7, <1>10 DEF s, w
<1> QED
  BY <1>8, <1>9, <1>10
\* distribute gives exactly the total, a line never more than it has.
LEMMA DistributeIsExact ==
  ASSUME NEW D \in SUBSET Int, IsFiniteSet(D), NEW gross \in [D -> Nat],
         NEW total \in Nat, total <= SumFunction(gross)
  PROVE  LET W == SumFunction(gross)
             s == Distribute(total, gross)
         IN  /\ W \in Nat /\ s \in [D -> Nat] /\ SumFunction(s) = total
             /\ \A i \in D : s[i] <= gross[i]
             /\ W > 0 => \A i \in D : total * gross[i] - W * s[i] \in -W .. W
<1> DEFINE W == SumFunction(gross)
           s == Distribute(total, gross)
<1>1. W \in Nat
  BY SumNat DEF SumFunction
<1>2. CASE W = 0
  <2>1. s = [i \in D |-> 0]
    BY <1>2 DEF Distribute
  <2> HIDE DEF s
  <2>2. SumFunctionOnSet(s, D) = 0
    BY <2>1, SumOfZeros
  <2>3. SumFunction(s) = 0
    BY <2>1, <2>2 DEF SumFunction
  <2>4. total = 0
    BY <1>2
  <2>5. \A i \in D : gross[i] \in Nat /\ s[i] = 0
    BY <2>1
  <2> QED
    BY <1>1, <1>2, <2>1, <2>3, <2>4, <2>5 DEF s
<1>3. CASE W # 0
  <2>1. s = Spread(total, gross, gross)
    BY <1>3 DEF Distribute
  <2>2. gross \in [D -> Int]
    OBVIOUS
  <2>3. LET r == Spread(total, gross, gross)
        IN /\ r \in [D -> Nat] /\ SumFunction(r) = total
           /\ \A i \in D : total * gross[i] - W * r[i] \in -W .. W
    BY <1>3, <2>2, SpreadIsExact
  <2>4. \A i \in D : Spread(total, gross, gross)[i] <= gross[i]
    BY <1>3, SpreadFits
  <2> HIDE DEF W, s
  <2> QED
    BY <1>1, <2>1, <2>3, <2>4 DEF W, s
<1> QED
  BY <1>2, <1>3

\* allocate gives exactly the total, whatever the values are.
LEMMA AllocateIsExact ==
  ASSUME NEW D \in SUBSET Int, IsFiniteSet(D), D # {}, NEW value \in [D -> Nat],
         NEW total \in Nat
  PROVE  LET s == Allocate(total, value)
         IN  s \in [D -> Nat] /\ SumFunction(s) = total
<1> DEFINE weight == IF SumFunction(value) = 0 THEN [i \in DOMAIN value |-> 1] ELSE value
           W == SumFunction(weight)
           key == [i \in D |-> (total * weight[i]) % W]
<1>1. weight \in [D -> Nat] /\ DOMAIN weight = D
  OBVIOUS
<1>2. W # 0
  <2>1. CASE SumFunction(value) = 0
    <3>1. weight = [i \in D |-> 1]
      BY <2>1
    <3> HIDE DEF weight
    <3>2. SumFunctionOnSet(weight, D) = Cardinality(D)
      BY <3>1, SumOfOnes
    <3>3. Cardinality(D) # 0
      BY FS_EmptySet
    <3> QED
      BY <1>1, <3>2, <3>3 DEF SumFunction
  <2>2. CASE SumFunction(value) # 0
    BY <2>2
  <2> QED
    BY <2>1, <2>2
<1>3. Allocate(total, value) = Spread(total, weight, key)
  BY <1>1 DEF Allocate
<1>4. W \in Nat
  <2> HIDE DEF weight
  <2> QED
    BY <1>1, SumNat DEF SumFunction
<1> HIDE DEF weight, W
<1>5. key \in [D -> Int]
  <2> SUFFICES ASSUME NEW i \in D PROVE (total * weight[i]) % W \in Int
    OBVIOUS
  <2> DEFINE a == total * weight[i]
  <2>1. a \in Int
    BY <1>1
  <2> HIDE DEF a
  <2>2. a % W \in Int
    BY <1>2, <1>4, <2>1
  <2> QED
    BY <2>2 DEF a
<1> HIDE DEF key
<1>6. LET s == Spread(total, weight, key) IN s \in [D -> Nat] /\ SumFunction(s) = total
  BY <1>1, <1>2, <1>5, SpreadIsExact DEF W
<1> QED
  BY <1>3, <1>6

\* Rounding half up is within half a unit.
LEMMA PercentIsNear ==
  ASSUME NEW amount \in Int, NEW bp \in Nat
  PROVE  LET p == PercentOf(amount, bp)
         IN  /\ p \in Int
             /\ -10000 <= 2 * (10000 * p - bp * amount)
             /\ 2 * (10000 * p - bp * amount) <= 10000
<1> DEFINE a == amount * bp
           p == (2 * a + BpWhole) \div (2 * BpWhole)
<1>1. a \in Int /\ a = bp * amount
  OBVIOUS
<1>2. PercentOf(amount, bp) = p
  BY DEF PercentOf
<1> HIDE DEF a
<1> DEFINE n == 2 * a + BpWhole
           d == 2 * BpWhole
<1>3. n \in Int /\ d \in Nat \ {0}
  BY <1>1 DEF BpWhole
<1> HIDE DEF n, d
<1>4. n \div d \in Int /\ d * (n \div d) <= n /\ n < d * (n \div d) + d
  BY <1>3, Division
<1>5. p = n \div d
  BY DEF n, d
<1> HIDE DEF p
<1>6. p \in Int /\ 20000 * p <= 2 * a + 10000 /\ 2 * a + 10000 < 20000 * p + 20000
  BY <1>4, <1>5 DEF n, d, BpWhole
<1>7. -10000 <= 2 * (10000 * p - a) /\ 2 * (10000 * p - a) <= 10000
  BY <1>1, <1>6
<1> QED
  BY <1>1, <1>2, <1>6, <1>7

\* A finite set of numbers that is not empty has a largest one.
LEMMA LargestOf ==
  ASSUME NEW S \in SUBSET Int, IsFiniteSet(S), S # {}
  PROVE  Max(S) \in S
<1> DEFINE Good == {s \in SUBSET S : s = {} \/ \E x \in s : \A y \in s : x >= y}
<1>1. {} \in Good
  OBVIOUS
<1>2. ASSUME NEW s \in Good, NEW z \in S \ s PROVE s \cup {z} \in Good
  <2>1. CASE s = {}
    <3>1. z \in s \cup {z} /\ \A y \in s \cup {z} : z >= y
      BY <2>1
    <3> QED
      BY <3>1
  <2>2. CASE \E x \in s : \A y \in s : x >= y
    <3>1. PICK x \in s : \A y \in s : x >= y
      BY <2>2
    <3>2. CASE x >= z
      <4>1. x \in s \cup {z} /\ \A y \in s \cup {z} : x >= y
        BY <3>1, <3>2
      <4> QED
        BY <4>1
    <3>3. CASE ~(x >= z)
      <4>1. \A y \in s \cup {z} : z >= y
        <5>1. \A y \in s : y \in Int /\ x \in Int /\ z \in Int
          OBVIOUS
        <5> QED
          BY <3>1, <3>3, <5>1
      <4> QED
        BY <4>1
    <3> QED
      BY <3>2, <3>3
  <2> QED
    BY <2>1, <2>2
<1> HIDE DEF Good
<1>3. Good \in SUBSET SUBSET S
  BY DEF Good
<1>4. Good = SUBSET S
  BY <1>1, <1>2, <1>3, SubsetInduction
<1>5. \E x \in S : \A y \in S : x >= y
  BY <1>4 DEF Good
<1> QED
  BY <1>5 DEF Max

\* A sum, term by term: the tax is within half a unit of what it is of the net.
LEMMA SumsAreNear ==
  ASSUME NEW D, IsFiniteSet(D), NEW net, NEW tax, NEW bp \in Nat,
         \A i \in D : net[i] \in Int, \A i \in D : tax[i] = PercentOf(net[i], bp),
         NEW n, n = SumFunctionOnSet(net, D), NEW t, t = SumFunctionOnSet(tax, D),
         NEW c, c = Cardinality(D)
  PROVE  /\ n \in Int /\ t \in Int
         /\ -(10000 * c) <= 2 * (10000 * t - bp * n)
         /\ 2 * (10000 * t - bp * n) <= 10000 * c
<1> DEFINE Exact(s) == 2 * (10000 * SumFunctionOnSet(tax,
             s) - bp * SumFunctionOnSet(net, s))
           Near(s) == /\ -(10000 * Cardinality(s)) <= Exact(s)
                      /\ Exact(s) <= 10000 * Cardinality(s)
           Good == {s \in SUBSET D : Near(s)}
<1>1. \A i \in D : /\ net[i] \in Int /\ tax[i] \in Int
                   /\ -10000 <= 2 * (10000 * tax[i] - bp * net[i])
                   /\ 2 * (10000 * tax[i] - bp * net[i]) <= 10000
  <2> SUFFICES ASSUME NEW i \in D
               PROVE  /\ net[i] \in Int /\ tax[i] \in Int
                      /\ -10000 <= 2 * (10000 * tax[i] - bp * net[i])
                      /\ 2 * (10000 * tax[i] - bp * net[i]) <= 10000
    OBVIOUS
  <2> DEFINE a == net[i]
             p == tax[i]
  <2>1. a \in Int /\ p = PercentOf(a, bp)
    OBVIOUS
  <2> HIDE DEF a, p
  <2>2. /\ p \in Int /\ -10000 <= 2 * (10000 * p - bp * a)
        /\ 2 * (10000 * p - bp * a) <= 10000
    BY <2>1, PercentIsNear
  <2> QED
    BY <2>1, <2>2 DEF a, p
<1>2. {} \in Good
  <2>1. SumFunctionOnSet(tax, {}) = 0 /\ SumFunctionOnSet(net,
          {}) = 0 /\ Cardinality({}) = 0
    BY SumEmpty, FS_EmptySet
  <2> QED
    BY <2>1
<1> HIDE DEF Good, Near
<1>3. ASSUME NEW s \in Good, NEW x \in D \ s PROVE s \cup {x} \in Good
  <2>0. s \in SUBSET D /\ Near(s)
    BY DEF Good
  <2>1. IsFiniteSet(s) /\ \A y \in s \cup {x} : net[y] \in Int /\ tax[y] \in Int
    BY <1>1, <2>0, FS_Subset
  <2>2. /\ SumFunctionOnSet(net, s \cup {x}) = net[x] + SumFunctionOnSet(net, s)
        /\ SumFunctionOnSet(tax, s \cup {x}) = tax[x] + SumFunctionOnSet(tax, s)
    BY <2>1, SumGrows
  <2>3. Cardinality(s \cup {x}) = Cardinality(s) + 1 /\ Cardinality(s) \in Nat
    BY <2>1, FS_AddElement, FS_CardinalityType
  <2>4. SumFunctionOnSet(net, s) \in Int /\ SumFunctionOnSet(tax, s) \in Int
    BY <2>1, SumType
  <2> DEFINE N == SumFunctionOnSet(net, s)
             T == SumFunctionOnSet(tax, s)
             k == Cardinality(s)
             a == net[x]
             b == tax[x]
  <2>6. /\ N \in Int /\ T \in Int /\ k \in Nat /\ a \in Int /\ b \in Int
        /\ -(10000 * k) <= 2 * (10000 * T - bp * N)
        /\ 2 * (10000 * T - bp * N) <= 10000 * k
        /\ -10000 <= 2 * (10000 * b - bp * a) /\ 2 * (10000 * b - bp * a) <= 10000
    BY <1>1, <2>0, <2>3, <2>4 DEF Near
  <2> HIDE DEF N, T, k, a, b
  <2>7. /\ -(10000 * (k + 1)) <= 2 * (10000 * (b + T) - bp * (a + N))
        /\ 2 * (10000 * (b + T) - bp * (a + N)) <= 10000 * (k + 1)
    <3>1. bp * (a + N) = bp * a + bp * N
      BY <2>6
    <3> DEFINE u == bp * a
               v == bp * N
    <3>2. u \in Int /\ v \in Int /\ bp * (a + N) = u + v
      BY <2>6, <3>1
    <3>3. /\ -(10000 * k) <= 2 * (10000 * T - v) /\ 2 * (10000 * T - v) <= 10000 * k
          /\ -10000 <= 2 * (10000 * b - u) /\ 2 * (10000 * b - u) <= 10000
      BY <2>6
    <3> HIDE DEF u, v
    <3>4. /\ -(10000 * (k + 1)) <= 2 * (10000 * (b + T) - (u + v))
          /\ 2 * (10000 * (b + T) - (u + v)) <= 10000 * (k + 1)
      BY <2>6, <3>2, <3>3
    <3> QED
      BY <3>2, <3>4
  <2>8. Near(s \cup {x})
    BY <2>2, <2>3, <2>7 DEF Near, N, T, k, a, b
  <2> QED
    BY <2>0, <2>8 DEF Good
<1>4. Good = SUBSET D
  <2>1. Good \in SUBSET SUBSET D
    BY DEF Good
  <2> QED
    BY <1>2, <1>3, <2>1, SubsetInduction
<1>5. Near(D)
  BY <1>4 DEF Good
<1>6. SumFunctionOnSet(net, D) \in Int /\ SumFunctionOnSet(tax, D) \in Int
  BY <1>1, SumType
<1> QED
  BY <1>5, <1>6 DEF Near
BasketLines == [variant : Nat, price : Nat, quantity : Nat \ {0}]

\* The basket and the coupon never change, and a bill is what they come to.
Amounting ==
  /\ basket \in Seq(BasketLines) /\ basket # <<>>
  /\ coupon \in Coupons /\ fee \in Shippings
  /\ bill # <<>> => bill = [i \in DOMAIN basket |-> Billed(i)] /\ invoice = <<>>
  /\ invoice \in Seq([extra : Nat, vat : Nat, total : Nat])
  /\ entry \in Seq([debit : Nat, credit : Nat])
  /\ CostIsShared

\* The lines of a basket.
LEMMA BasketIs ==
  ASSUME basket \in Seq(BasketLines), basket # <<>>
  PROVE  /\ DOMAIN basket = 1 .. Len(basket) /\ Len(basket) \in Nat \ {0}
         /\ IsFiniteSet(DOMAIN basket) /\ Cardinality(DOMAIN basket) = Len(basket)
         /\ DOMAIN basket \in SUBSET Int /\ DOMAIN basket # {}
         /\ Gross \in [DOMAIN basket -> Nat]
         /\ \A i \in DOMAIN basket : Gross[i] = basket[i].price * basket[i].quantity
<1>1. DOMAIN basket = 1 .. Len(basket) /\ Len(basket) \in Nat
  BY LenProperties
<1>2. Len(basket) # 0
  BY EmptySeq
<1>3. IsFiniteSet(1 .. Len(basket)) /\ Cardinality(1 .. Len(basket)) = Len(basket)
  <2> DEFINE n == Len(basket)
  <2>1. n \in Int /\ 1 \in Int /\ n >= 1
    BY <1>1, <1>2
  <2> HIDE DEF n
  <2>2. IsFiniteSet(1 .. n) /\ Cardinality(1 .. n) = IF 1 > n THEN 0 ELSE n - 1 + 1
    BY <2>1, FS_Interval
  <2> QED
    BY <2>1, <2>2 DEF n
<1>4. \A i \in DOMAIN basket : basket[i].price * basket[i].quantity \in Nat
  <2> SUFFICES ASSUME NEW i \in DOMAIN basket
               PROVE  basket[i].price * basket[i].quantity \in Nat
    OBVIOUS
  <2>1. basket[i] \in BasketLines
    BY ElementOfSeq, <1>1
  <2>2. basket[i].price \in Nat /\ basket[i].quantity \in Nat
    BY <2>1 DEF BasketLines
  <2> QED
    BY <2>2
<1>5. Gross \in [DOMAIN basket -> Nat]
  BY <1>4 DEF Gross
<1>6. 1 \in DOMAIN basket /\ DOMAIN basket \in SUBSET Int
  BY <1>1, <1>2
<1> QED
  BY <1>1, <1>2, <1>3, <1>5, <1>6 DEF Gross

\* The lines a coupon is for, and what they come to.
LEMMA EligibleAre ==
  ASSUME basket \in Seq(BasketLines), basket # <<>>
  PROVE  LET goods == [i \in EligibleLines |-> Gross[i]]
         IN  /\ EligibleLines \in SUBSET DOMAIN basket /\ EligibleLines \in SUBSET Int
             /\ IsFiniteSet(EligibleLines) /\ EligibleGross \in Nat
             /\ goods \in [EligibleLines -> Nat] /\ SumFunction(goods) = EligibleGross
<1> DEFINE goods == [i \in EligibleLines |-> Gross[i]]
<1>1. EligibleLines \in SUBSET DOMAIN basket
  BY DEF EligibleLines
<1>2. IsFiniteSet(EligibleLines) /\ EligibleLines \in SUBSET Int
  BY <1>1, BasketIs, FS_Subset
<1>3. \A i \in EligibleLines : Gross[i] \in Nat /\ goods[i] = Gross[i]
  BY <1>1, BasketIs
<1>4. goods \in [EligibleLines -> Nat] /\ DOMAIN goods = EligibleLines
  BY <1>3
<1> HIDE DEF goods
<1>5. SumFunctionOnSet(Gross, EligibleLines) \in Nat
  BY <1>2, <1>3, SumNat
<1>6. SumFunctionOnSet(goods, EligibleLines) = SumFunctionOnSet(Gross, EligibleLines)
  <2>1. \A i \in EligibleLines : goods[i] \in Int /\ goods[i] = Gross[i]
    BY <1>3
  <2> QED
    BY <1>2, <2>1, SumSame
<1> QED
  BY <1>1, <1>2, <1>4, <1>5, <1>6 DEF goods, EligibleGross, SumFunction

\* The numbers of a coupon.
LEMMA CouponIs ==
  ASSUME coupon \in Coupons
  PROVE  /\ coupon.cap \in Nat /\ coupon.value \in Nat
         /\ coupon.kind = "percent" => coupon.value <= 10000
<1>1. ASSUME NEW c \in Percents PROVE c \in Nat /\ c <= 10000
  <2>1. Percents \subseteq 1 .. 10000
    BY AmountsAssumption DEF BpWhole
  <2> QED
    BY <2>1
<1>2. ASSUME NEW c \in Deductions PROVE c \in Nat
  BY AmountsAssumption
<1>3. ASSUME NEW c \in Caps PROVE c \in Nat
  BY AmountsAssumption
<1>4. \/ coupon.cap \in Caps /\ coupon.value \in Percents
      \/ coupon.cap \in Caps /\ coupon.value \in Deductions /\ coupon.kind # "percent"
      \/ coupon.cap = 0 /\ coupon.value = 0
  BY DEF Coupons
<1> DEFINE c == coupon.cap
           v == coupon.value
           k == coupon.kind
<1> HIDE DEF c, v, k
<1>5. c \in Nat
  <2>1. CASE c \in Caps
    BY <1>3, <2>1
  <2>2. CASE c = 0
    BY <2>2
  <2> QED
    BY <1>4, <2>1, <2>2 DEF c
<1>6. CASE v \in Percents
  <2>1. v \in Nat /\ v <= 10000
    BY <1>1, <1>6
  <2> QED
    BY <1>5, <2>1 DEF c, v, k
<1>7. CASE v \in Deductions /\ k # "percent"
  <2>1. v \in Nat
    BY <1>2, <1>7
  <2> QED
    BY <1>5, <1>7, <2>1 DEF c, v, k
<1>8. CASE v = 0
  BY <1>5, <1>8 DEF c, v, k
<1> QED
  BY <1>4, <1>6, <1>7, <1>8 DEF c, v, k

\* A coupon takes no more than the goods it is for.
LEMMA DiscountIsWithin ==
  ASSUME coupon \in Coupons, EligibleGross \in Nat
  PROVE  Discount \in Nat /\ Discount <= EligibleGross
<1> DEFINE off == IF coupon.kind =
             "percent" THEN (EligibleGross * coupon.value) \div BpWhole
                  ELSE Min({coupon.value, EligibleGross})
           E == EligibleGross
           v == coupon.value
<1>1. /\ coupon.cap \in Nat /\ v \in Nat
      /\ coupon.kind = "percent" => v <= 10000
  BY CouponIs
<1>2. off \in Nat /\ off <= EligibleGross
  <2>1. CASE coupon.kind = "percent"
    <3> DEFINE a == E * v
    <3>1. a \in Nat /\ a <= 10000 * E
      <4> HIDE DEF E, v
      <4>1. E \in Nat /\ v \in Nat /\ v <= 10000
        BY <1>1, <2>1 DEF E
      <4> QED
        BY <4>1
    <3>2. off = a \div 10000
      BY <2>1 DEF BpWhole
    <3> HIDE DEF a, off
    <3>3. off \in Nat /\ 10000 * off <= a
      BY <3>1, <3>2, Division, DivisionOfNat
    <3> QED
      BY <3>1, <3>3
  <2>2. CASE coupon.kind # "percent"
    <3>1. off = IF v <= E THEN v ELSE E
      <4> HIDE DEF E, v
      <4>1. E \in Int /\ v \in Int
        BY <1>1 DEF E
      <4>2. Min({v, E}) = IF v <= E THEN v ELSE E
        BY <4>1, MinOfTwo
      <4> QED
        BY <2>2, <4>2 DEF E, v
    <3> QED
      BY <1>1, <3>1
  <2> QED
    BY <2>1, <2>2
<1>3. Discount = IF coupon.cap = 0 THEN off ELSE Min({off, coupon.cap})
  BY DEF Discount
<1> HIDE DEF off
<1>4. Min({off, coupon.cap}) = IF off <= coupon.cap THEN off ELSE coupon.cap
  <2> DEFINE c == coupon.cap
  <2>1. c \in Int /\ off \in Int
    BY <1>1, <1>2
  <2> HIDE DEF c
  <2>2. Min({off, c}) = IF off <= c THEN off ELSE c
    BY <2>1, MinOfTwo
  <2> QED
    BY <2>2 DEF c
<1> QED
  BY <1>1, <1>2, <1>3, <1>4

\* The shares of the eligible lines, and the share of any line.
LEMMA SharesAre ==
  ASSUME basket \in Seq(BasketLines), basket # <<>>, coupon \in Coupons
  PROVE  /\ Shares \in [EligibleLines -> Nat] /\ SumFunction(Shares) = Discount
         /\ Discount \in Nat /\ EligibleGross \in Nat
         /\ \A i \in EligibleLines : Shares[i] <= Gross[i]
         /\ EligibleGross > 0 =>
              \A i \in EligibleLines :
                Discount * Gross[i] - EligibleGross * Shares[i]
                  \in -EligibleGross .. EligibleGross
         /\ \A i \in DOMAIN basket : Share(i) \in Nat
<1> DEFINE goods == [i \in EligibleLines |-> Gross[i]]
<1>1. /\ EligibleLines \in SUBSET DOMAIN basket /\ EligibleLines \in SUBSET Int
      /\ IsFiniteSet(EligibleLines) /\ EligibleGross \in Nat
      /\ goods \in [EligibleLines -> Nat] /\ SumFunction(goods) = EligibleGross
  BY EligibleAre
<1>2. Discount \in Nat /\ Discount <= EligibleGross
  BY <1>1, DiscountIsWithin
<1>3. Shares = Distribute(Discount, goods)
  BY DEF Shares
<1>4. \A i \in EligibleLines : goods[i] = Gross[i]
  OBVIOUS
<1> HIDE DEF goods
<1>5. LET s == Distribute(Discount, goods)
      IN  /\ s \in [EligibleLines -> Nat] /\ SumFunction(s) = Discount
          /\ \A i \in EligibleLines : s[i] <= goods[i]
          /\ EligibleGross > 0 => \A i \in EligibleLines :
               Discount * goods[i] - EligibleGross * s[i] \in
                 -EligibleGross .. EligibleGross
  BY <1>1, <1>2, DistributeIsExact
<1>6. ASSUME NEW i \in DOMAIN basket PROVE Share(i) \in Nat
  <2> DEFINE same == {j \in EligibleLines : basket[j].variant = basket[i].variant}
  <2>1. Share(i) = IF same = {} THEN 0 ELSE Shares[Max(same)]
    BY DEF Share
  <2>2. same \in SUBSET EligibleLines
    OBVIOUS
  <2> HIDE DEF same
  <2>3. same # {} => Max(same) \in EligibleLines
    BY <1>1, <2>2, FS_Subset, LargestOf
  <2> QED
    BY <1>3, <1>5, <2>1, <2>3
<1> QED
  BY <1>1, <1>2, <1>3, <1>4, <1>5, <1>6
\* In a basket without repetitions every eligible line has its own share.
LEMMA ShareIsItsOwn ==
  ASSUME basket \in Seq(BasketLines), basket # <<>>, ~Repeats, NEW i \in DOMAIN basket
  PROVE  Share(i) = IF i \in EligibleLines THEN Shares[i] ELSE 0
<1> DEFINE same == {j \in EligibleLines : basket[j].variant = basket[i].variant}
<1>1. Share(i) = IF same = {} THEN 0 ELSE Shares[Max(same)]
  BY DEF Share
<1>2. EligibleLines \in SUBSET DOMAIN basket
  BY DEF EligibleLines
<1>3. \A j \in DOMAIN basket : basket[j].variant = basket[i].variant => i = j
  BY DEF Repeats
<1>4. CASE i \in EligibleLines
  <2>1. same = {i}
    BY <1>2, <1>3, <1>4
  <2>2. Max({i}) = i
    <3>1. i \in Int
      BY BasketIs
    <3>2. i \in {i} /\ \A y \in {i} : i >= y
      BY <3>1
    <3> QED
      BY <3>2 DEF Max
  <2> HIDE DEF same
  <2> QED
    BY <1>1, <1>4, <2>1, <2>2
<1>5. CASE i \notin EligibleLines
  <2>1. same = {}
    BY <1>2, <1>3, <1>5
  <2> QED
    BY <1>1, <1>5, <2>1
<1> QED
  BY <1>4, <1>5

\* The lines of a bill.
LEMMA BillIs ==
  ASSUME Amounting, bill # <<>>
  PROVE  /\ DOMAIN bill = DOMAIN basket /\ bill = [i \in DOMAIN basket |-> bill[i]]
         /\ \A i \in DOMAIN basket :
              /\ bill[i] = [gross |-> bill[i].gross, net |-> bill[i].net,
                   tax |-> bill[i].tax]
              /\ bill[i].gross = Gross[i] /\ Gross[i] \in Nat
              /\ bill[i].net \in Int /\ bill[i].tax \in Int
              /\ bill[i].tax = PercentOf(bill[i].net, VatBp)
              /\ coupon.kind # "none" => Off(i) = Share(i)
              /\ Share(i) \in Nat
<1>1. bill = [i \in DOMAIN basket |-> Billed(i)]
  BY DEF Amounting
<1>2. DOMAIN bill = DOMAIN basket /\ \A i \in DOMAIN basket : bill[i] = Billed(i)
  BY <1>1
<1>3. VatBp \in Nat
  <2>1. VatBp \in 0 .. 10000
    BY AmountsAssumption DEF BpWhole
  <2> QED
    BY <2>1
<1>4. ASSUME NEW i \in DOMAIN basket
      PROVE  /\ bill[i] = [gross |-> bill[i].gross, net |-> bill[i].net,
                           tax |-> bill[i].tax]
             /\ bill[i].gross = Gross[i] /\ Gross[i] \in Nat
             /\ bill[i].net \in Int /\ bill[i].tax \in Int
             /\ bill[i].tax = PercentOf(bill[i].net, VatBp)
             /\ coupon.kind # "none" => Off(i) = Share(i)
             /\ Share(i) \in Nat
  <2> DEFINE net == Gross[i] - (IF coupon.kind = "none" THEN 0 ELSE Share(i))
  <2>1. bill[i] = [gross |-> Gross[i], net |-> net, tax |-> PercentOf(net, VatBp)]
    BY <1>2 DEF Billed
  <2>2. Gross[i] \in Nat /\ Share(i) \in Nat
    BY BasketIs, SharesAre DEF Amounting
  <2>3. net \in Int /\ (coupon.kind # "none" => Gross[i] - net = Share(i))
    BY <2>2
  <2> HIDE DEF net
  <2>4. PercentOf(net, VatBp) \in Int
    BY <1>3, <2>3, PercentIsNear
  <2>5. bill[i].gross = Gross[i] /\ bill[i].net = net /\ bill[i].tax = PercentOf(net,
          VatBp)
    BY <2>1
  <2>6. Off(i) = Gross[i] - net
    BY <2>5 DEF Off
  <2> QED
    BY <2>1, <2>2, <2>3, <2>4, <2>5, <2>6
<1> QED
  BY <1>1, <1>2, <1>4

\* The discount is shared to the rial.
LEMMA SharedToTheRial ==
  ASSUME Amounting, ~Repeats
  PROVE  DiscountIsShared
<1> SUFFICES ASSUME bill # <<>>, coupon.kind # "none"
    PROVE  /\ SumFunction([i \in DOMAIN bill |-> Off(i)]) = Discount
           /\ \A i \in DOMAIN bill : Off(i) \in 0 .. Gross[i]
           /\ \A i \in DOMAIN bill \ EligibleLines : Off(i) = 0
           /\ \A i \in EligibleLines :
                EligibleGross > 0 =>
                  Discount * Gross[i] - Off(i) * EligibleGross
                    \in -EligibleGross .. EligibleGross
  BY DEF DiscountIsShared
<1>1. basket \in Seq(BasketLines) /\ basket # <<>> /\ coupon \in Coupons
  BY DEF Amounting
<1>2. DOMAIN bill = DOMAIN basket
  BY BillIs
<1>3. \A i \in DOMAIN basket : Off(i) = IF i \in EligibleLines THEN Shares[i] ELSE 0
  BY <1>1, BillIs, ShareIsItsOwn
<1>4. /\ Shares \in [EligibleLines -> Nat] /\ SumFunction(Shares) = Discount
      /\ Discount \in Nat /\ EligibleGross \in Nat
      /\ \A i \in EligibleLines : Shares[i] <= Gross[i]
      /\ EligibleGross > 0 =>
           \A i \in EligibleLines :
             Discount * Gross[i] - EligibleGross * Shares[i]
               \in -EligibleGross .. EligibleGross
  BY <1>1, SharesAre
<1>5. /\ EligibleLines \in SUBSET DOMAIN basket
      /\ IsFiniteSet(DOMAIN basket) /\ IsFiniteSet(EligibleLines)
      /\ \A i \in DOMAIN basket : Gross[i] \in Nat
  BY <1>1, BasketIs, EligibleAre
<1>6. SumFunction([i \in DOMAIN bill |-> Off(i)]) = Discount
  <2> DEFINE off == [i \in DOMAIN bill |-> Off(i)]
  <2>1. DOMAIN off = DOMAIN basket /\ \A i \in DOMAIN basket : off[i] = Off(i)
    BY <1>2
  <2> HIDE DEF off
  <2>2. /\ \A i \in DOMAIN basket : off[i] \in Int
        /\ \A i \in DOMAIN basket \ EligibleLines : off[i] = 0
        /\ \A i \in EligibleLines : off[i] \in Int /\ off[i] = Shares[i]
    BY <1>3, <1>4, <1>5, <2>1
  <2>3. SumFunctionOnSet(off, DOMAIN basket) = SumFunctionOnSet(off, EligibleLines)
    BY <1>5, <2>2, SumOfPart
  <2>4. SumFunctionOnSet(off, EligibleLines) = SumFunctionOnSet(Shares, EligibleLines)
    BY <1>5, <2>2, SumSame
  <2>5. DOMAIN Shares = EligibleLines
    BY <1>4
  <2>6. SumFunction(off) = Discount
    BY <1>4, <2>1, <2>3, <2>4, <2>5 DEF SumFunction
  <2> QED
    BY <2>6 DEF off
<1>7. ASSUME NEW i \in DOMAIN bill PROVE Off(i) \in 0 .. Gross[i]
  <2>1. CASE i \in EligibleLines
    <3>1. Off(i) = Shares[i] /\ Shares[i] \in Nat /\ Shares[i] <= Gross[i] /\
            Gross[i] \in Nat
      BY <1>2, <1>3, <1>4, <1>5, <2>1
    <3> QED
      BY <3>1
  <2>2. CASE i \notin EligibleLines
    <3>1. Off(i) = 0 /\ Gross[i] \in Nat
      BY <1>2, <1>3, <1>5, <2>2
    <3> QED
      BY <3>1
  <2> QED
    BY <2>1, <2>2
<1>8. ASSUME NEW i \in EligibleLines, EligibleGross > 0
      PROVE  Discount * Gross[i] - Off(i) * EligibleGross
               \in -EligibleGross .. EligibleGross
  <2>1. Off(i) = Shares[i] /\ Shares[i] \in Nat
    BY <1>3, <1>4, <1>5
  <2>2. Discount * Gross[i] - EligibleGross * Shares[i] \in
          -EligibleGross .. EligibleGross
    BY <1>4, <1>8
  <2>3. Off(i) * EligibleGross = EligibleGross * Shares[i]
    BY <1>4, <2>1
  <2> QED
    BY <2>2, <2>3
<1> QED
  BY <1>2, <1>3, <1>6, <1>7, <1>8

\* The tax of a bill is near.
LEMMA TaxIsWithin ==
  ASSUME Amounting
  PROVE  /\ NetOf(bill) \in Int /\ TaxOf(bill) \in Int
         /\ TaxIsNear
<1> DEFINE net == [i \in DOMAIN bill |-> bill[i].net]
           tax == [i \in DOMAIN bill |-> bill[i].tax]
           D == DOMAIN bill
<1>1. VatBp \in Nat
  <2>1. VatBp \in 0 .. 10000
    BY AmountsAssumption DEF BpWhole
  <2> QED
    BY <2>1
<1>2. IsFiniteSet(D) /\ Cardinality(D) = Len(bill) /\ Len(bill) \in Nat
  <2>1. CASE bill = <<>>
    BY <2>1, FS_EmptySet, EmptySeq
  <2>2. CASE bill # <<>>
    <3>1. /\ D = DOMAIN basket /\ D = 1 .. Len(basket) /\ Len(basket) \in Nat
          /\ IsFiniteSet(D) /\ Cardinality(D) = Len(basket)
      BY <2>2, BillIs, BasketIs DEF Amounting
    <3>2. Len(bill) = Len(basket)
      BY <3>1
    <3> QED
      BY <3>1, <3>2
  <2> QED
    BY <2>1, <2>2
<1>3. \A i \in D : net[i] \in Int /\ tax[i] = PercentOf(net[i], VatBp)
  <2>1. CASE bill = <<>>
    BY <2>1
  <2>2. CASE bill # <<>>
    <3>1. \A i \in DOMAIN basket : /\ bill[i].net \in Int
                                   /\ bill[i].tax = PercentOf(bill[i].net, VatBp)
      BY <2>2, BillIs
    <3>2. D = DOMAIN basket
      BY <2>2, BillIs
    <3> QED
      BY <3>1, <3>2
  <2> QED
    BY <2>1, <2>2
<1>4. NetOf(bill) = SumFunctionOnSet(net, D) /\ TaxOf(bill) = SumFunctionOnSet(tax, D)
  BY DEF NetOf, TaxOf, SumFunction
<1> HIDE DEF net, tax, D
<1> DEFINE N == NetOf(bill)
           T == TaxOf(bill)
           c == Len(bill)
<1>5. N = SumFunctionOnSet(net, D) /\ T = SumFunctionOnSet(tax, D) /\ c = Cardinality(D)
  BY <1>2, <1>4
<1> HIDE DEF N, T, c
<1>6. /\ N \in Int /\ T \in Int /\ c \in Nat
      /\ -(10000 * c) <= 2 * (10000 * T - VatBp * N)
      /\ 2 * (10000 * T - VatBp * N) <= 10000 * c
  <2>1. /\ \A i \in D : net[i] \in Int
        /\ \A i \in D : tax[i] = PercentOf(net[i], VatBp)
    BY <1>3
  <2>2. c \in Nat
    BY <1>2, <1>5
  <2>3. /\ N \in Int /\ T \in Int
        /\ -(10000 * c) <= 2 * (10000 * T - VatBp * N)
        /\ 2 * (10000 * T - VatBp * N) <= 10000 * c
    BY <1>1, <1>2, <1>5, <2>1, SumsAreNear
  <2> QED
    BY <2>2, <2>3
<1>7. 2 * (10000 * T - VatBp * N) \in -(10000 * c) .. 10000 * c
  <2> DEFINE v == VatBp * N
  <2>1. v \in Int
    BY <1>1, <1>6
  <2> HIDE DEF v
  <2> QED
    BY <1>6, <2>1 DEF v
<1> QED
  BY <1>6, <1>7 DEF N, T, c, TaxIsNear, BpWhole
\* A bill in order adds up.
LEMMA AmountingAddsUp == Amounting => AmountsAddUp
<1> SUFFICES ASSUME Amounting PROVE AmountsAddUp
  OBVIOUS
<1>1. AmountsTypeOK
  <2>1. bill \in Seq([gross : Nat, net : Int, tax : Int])
    <3>1. CASE bill = <<>>
      BY <3>1
    <3>2. CASE bill # <<>>
      <4>1. bill = [i \in DOMAIN basket |-> bill[i]] /\ DOMAIN basket = 1 .. Len(basket)
              /\ Len(basket) \in Nat
        BY <3>2, BillIs, BasketIs DEF Amounting
      <4>2. ASSUME NEW i \in DOMAIN basket
            PROVE  bill[i] \in [gross : Nat, net : Int, tax : Int]
        <5>1. /\ bill[i] = [gross |-> bill[i].gross, net |-> bill[i].net,
                            tax |-> bill[i].tax]
              /\ bill[i].gross \in Nat /\ bill[i].net \in Int /\ bill[i].tax \in Int
          BY <3>2, BillIs
        <5> QED
          BY <5>1
      <4>3. bill \in [1 .. Len(basket) -> [gross : Nat, net : Int, tax : Int]]
        BY <4>1, <4>2
      <4> QED
        BY <4>1, <4>3, SeqDef
    <3> QED
      BY <3>1, <3>2
  <2> QED
    BY <2>1 DEF AmountsTypeOK, Amounting
<1>2. ~Repeats => DiscountIsShared /\ TaxIsNear
  BY SharedToTheRial, TaxIsWithin
<1>3. CostIsShared
  BY DEF Amounting
<1> QED
  BY <1>1, <1>2, <1>3 DEF AmountsAddUp

\* The order and the purchase begin in order.
LEMMA AmountingInit == AmountsInit => Amounting
<1> SUFFICES ASSUME AmountsInit PROVE Amounting
  OBVIOUS
<1>1. PICK pattern \in Patterns : \E l \in Priced(pattern) :
        basket = [i \in DOMAIN pattern |->
          [variant |-> pattern[i], price |-> l[i].price, quantity |-> l[i].quantity]]
  BY DEF AmountsInit
<1>2. PICK l \in Priced(pattern) :
        basket = [i \in DOMAIN pattern |->
          [variant |-> pattern[i], price |-> l[i].price, quantity |-> l[i].quantity]]
  BY <1>1
<1>3. pattern \in Seq(Nat) /\ Len(pattern) # 0
  <2>1. pattern \in {<<1>>, <<1, 2>>, <<1, 2, 3>>, <<1, 1>>, <<1, 1, 2>>}
    BY DEF Patterns
  <2>2. CASE pattern = <<1>>
    BY <2>2
  <2>3. CASE pattern = <<1, 2>>
    BY <2>3
  <2>4. CASE pattern = <<1, 2, 3>>
    BY <2>4
  <2>5. CASE pattern = <<1, 1>>
    BY <2>5
  <2>6. CASE pattern = <<1, 1, 2>>
    BY <2>6
  <2> QED
    BY <2>1, <2>2, <2>3, <2>4, <2>5, <2>6
<1>4. DOMAIN pattern = 1 .. Len(pattern) /\ Len(pattern) \in Nat
  BY <1>3, LenProperties
<1>5. ASSUME NEW i \in DOMAIN pattern PROVE basket[i] \in BasketLines
  <2>1. pattern[i] \in Nat
    BY <1>3, <1>4, ElementOfSeq
  <2>2. l[i] \in [price : UnitPrices, quantity : UnitCounts]
    BY DEF Priced
  <2>3. UnitPrices \subseteq Nat /\ UnitCounts \subseteq Nat \ {0}
    BY AmountsAssumption
  <2>4. l[i].price \in Nat /\ l[i].quantity \in Nat \ {0}
    BY <2>2, <2>3
  <2>5. basket[i] = [variant |-> pattern[i], price |-> l[i].price,
                     quantity |-> l[i].quantity]
    BY <1>2
  <2> QED
    BY <2>1, <2>4, <2>5 DEF BasketLines
<1>6. basket \in [1 .. Len(pattern) -> BasketLines]
  BY <1>2, <1>4, <1>5
<1>7. basket \in Seq(BasketLines) /\ basket # <<>>
  <2>1. basket \in Seq(BasketLines)
    BY <1>4, <1>6, SeqDef
  <2>2. 1 \in DOMAIN basket
    BY <1>3, <1>4, <1>6
  <2> QED
    BY <2>1, <2>2
<1>8. /\ coupon \in Coupons /\ fee \in Shippings
      /\ bill = <<>> /\ invoice = <<>> /\ entry = <<>>
  BY DEF AmountsInit
<1>9. CostIsShared
  BY <1>8 DEF CostIsShared
<1>10. /\ invoice \in Seq([extra : Nat, vat : Nat, total : Nat])
       /\ entry \in Seq([debit : Nat, credit : Nat])
  BY <1>8
<1> QED
  BY <1>7, <1>8, <1>9, <1>10 DEF Amounting

\* An entry that the journal takes has no negative sides, and begins with its two lines.
LEMMA EntryIs ==
  ASSUME NEW a \in Int, NEW b \in Int, NEW t \in Int, NEW x,
         x = Debit(t) \/ x = Credit(t), NEW lines,
         lines = WithTax(<<Debit(a), Credit(b)>>, x), Postable(lines)
  PROVE  /\ lines \in Seq([debit : Nat, credit : Nat])
         /\ lines[1].debit = a /\ lines[2].credit = b
<1> DEFINE Side == [debit : Int, credit : Int]
           two == <<Debit(a), Credit(b)>>
<1>1. /\ Debit(a) \in Side /\ Debit(a).debit = a /\ Debit(a).credit = 0
      /\ Credit(b) \in Side /\ Credit(b).credit = b /\ Credit(b).debit = 0
      /\ x \in Side /\ (x.debit = 0 \/ x.credit = 0)
  BY DEF Debit, Credit
<1>2. two \in Seq(Side) /\ Len(two) = 2 /\ two[1] = Debit(a) /\ two[2] = Credit(b)
  BY <1>1
<1>3. lines = two \/ lines = Append(two, x)
  BY DEF WithTax
<1> HIDE DEF two, Side
<1>4. /\ lines \in Seq(Side) /\ Len(lines) \in Nat
      /\ lines[1] = Debit(a) /\ lines[2] = Credit(b)
      /\ \A i \in 1 .. Len(lines) : lines[i] \in {Debit(a), Credit(b), x}
  <2>1. CASE lines = two
    <3>1. \A i \in 1 .. 2 : i = 1 \/ i = 2
      OBVIOUS
    <3>2. \A i \in 1 .. 2 : lines[i] \in {Debit(a), Credit(b), x}
      BY <1>2, <2>1, <3>1
    <3>3. Len(lines) = 2 /\ 2 \in Nat
      BY <1>2, <2>1
    <3>4. \A i \in 1 .. Len(lines) : lines[i] \in {Debit(a), Credit(b), x}
      BY <3>2, <3>3
    <3> QED
      BY <1>2, <2>1, <3>3, <3>4
  <2>2. CASE lines = Append(two, x)
    <3>1. /\ lines \in Seq(Side) /\ Len(lines) = 2 + 1 /\ lines[2 + 1] = x
          /\ \A i \in 1 .. 2 : lines[i] = two[i]
      <4>1. /\ Append(two, x) \in Seq(Side) /\ Len(Append(two, x)) = Len(two) + 1
            /\ \A i \in 1 .. Len(two) : Append(two, x)[i] = two[i]
            /\ Append(two, x)[Len(two) + 1] = x
        <5>1. two \in Seq(Side) /\ x \in Side
          BY <1>1, <1>2
        <5>2. /\ Append(two, x) \in Seq(Side) /\ Len(Append(two, x)) = Len(two) + 1
          BY <5>1, AppendProperties
        <5>3. \A i \in 1 .. Len(two) : Append(two, x)[i] = two[i]
          BY <5>1, AppendProperties
        <5>4. Append(two, x)[Len(two) + 1] = x
          BY <5>1, AppendProperties
        <5> QED
          BY <5>2, <5>3, <5>4
      <4> QED
        BY <1>2, <2>2, <4>1
    <3>2. lines[1] = Debit(a) /\ lines[2] = Credit(b) /\ lines[3] = x /\ Len(lines) = 3
      BY <1>2, <3>1
    <3>3. \A i \in 1 .. 3 : i = 1 \/ i = 2 \/ i = 3
      OBVIOUS
    <3>4. \A i \in 1 .. 3 : lines[i] \in {Debit(a), Credit(b), x}
      BY <3>2, <3>3
    <3>5. \A i \in 1 .. Len(lines) : lines[i] \in {Debit(a), Credit(b), x}
      BY <3>2, <3>4
    <3> QED
      BY <3>1, <3>2, <3>5
  <2> QED
    BY <1>3, <2>1, <2>2
<1>5. DOMAIN lines = 1 .. Len(lines)
  BY <1>4, LenProperties
<1>6. ASSUME NEW i \in 1 .. Len(lines)
      PROVE  lines[i] \in [debit : Nat, credit : Nat]
  <2>1. lines[i].debit > 0 \/ lines[i].credit > 0
    BY <1>5 DEF Postable
  <2>2. lines[i] \in Side /\ (lines[i].debit = 0 \/ lines[i].credit = 0)
    BY <1>1, <1>4
  <2>3. lines[i].debit \in Nat /\ lines[i].credit \in Nat
    BY <2>1, <2>2 DEF Side
  <2> QED
    BY <2>2, <2>3 DEF Side
<1>7. lines \in Seq([debit : Nat, credit : Nat])
  <2> DEFINE n == Len(lines)
             R == [debit : Nat, credit : Nat]
  <2>1. n \in Nat /\ lines \in [1 .. n -> Side]
    BY <1>4, LenProperties
  <2>2. \A i \in 1 .. n : lines[i] \in R
    BY <1>6
  <2> HIDE DEF n, R, Side
  <2>3. lines \in [1 .. n -> R]
    BY <2>1, <2>2
  <2>4. lines \in Seq(R)
    BY <2>1, <2>3, SeqDef
  <2> QED
    BY <2>4 DEF R
<1> QED
  BY <1>1, <1>4, <1>7

\* Placing the order.
LEMMA PlacingKeeps == Amounting /\ PlaceOrder => Amounting'
<1> SUFFICES ASSUME Amounting, PlaceOrder PROVE Amounting'
  OBVIOUS
<1>1. /\ basket' = basket /\ coupon' = coupon /\ fee' = fee /\ invoice' = invoice
      /\ entry' = entry /\ invoice = <<>> /\ bill' = [i \in DOMAIN basket |-> Billed(i)]
  BY DEF PlaceOrder
<1>2. Gross' = Gross /\ EligibleLines' = EligibleLines
  BY <1>1 DEF Gross, EligibleLines
<1>3. EligibleGross' = EligibleGross
  BY <1>2 DEF EligibleGross
<1>4. Discount' = Discount
  BY <1>1, <1>3 DEF Discount
<1>5. Shares' = Shares
  BY <1>2, <1>4 DEF Shares
<1>6. \A i : Share(i)' = Share(i)
  BY <1>1, <1>2, <1>5 DEF Share
<1>7. \A i : Billed(i)' = Billed(i)
  BY <1>1, <1>2, <1>6 DEF Billed
<1>8. bill' = [i \in DOMAIN basket' |-> Billed(i)']
  BY <1>1, <1>7
<1>9. CostIsShared'
  BY <1>1 DEF CostIsShared
<1> QED
  BY <1>1, <1>8, <1>9 DEF Amounting

\* Posting the sale.
LEMMA PostingTheSaleKeeps == Amounting /\ PostSale => Amounting'
<1> SUFFICES ASSUME Amounting, PostSale PROVE Amounting'
  OBVIOUS
<1>1. /\ basket' = basket /\ coupon' = coupon /\ fee' = fee /\ invoice' = invoice
      /\ bill' = bill /\ bill # <<>> /\ Postable(SaleEntry) /\ entry' = SaleEntry
  BY DEF PostSale
<1>2. /\ invoice = <<>> /\ bill = [i \in DOMAIN basket |-> Billed(i)]
  BY <1>1 DEF Amounting
<1>3. Gross' = Gross /\ EligibleLines' = EligibleLines
  BY <1>1 DEF Gross, EligibleLines
<1>4. EligibleGross' = EligibleGross
  BY <1>3 DEF EligibleGross
<1>5. Discount' = Discount
  BY <1>1, <1>4 DEF Discount
<1>6. Shares' = Shares
  BY <1>3, <1>5 DEF Shares
<1>7. \A i : Share(i)' = Share(i)
  BY <1>1, <1>3, <1>6 DEF Share
<1>8. \A i : Billed(i)' = Billed(i)
  BY <1>1, <1>3, <1>7 DEF Billed
<1>9. bill' = [i \in DOMAIN basket' |-> Billed(i)']
  BY <1>1, <1>2, <1>8
<1>10. entry' \in Seq([debit : Nat, credit : Nat])
  <2> DEFINE n == NetOf(bill)
             t == TaxOf(bill)
             a == n + t + fee
             b == n + fee
             x == Credit(t)
  <2>1. n \in Int /\ t \in Int /\ fee \in Nat
    <3>1. Shippings \subseteq Nat
      BY AmountsAssumption
    <3> QED
      BY <3>1, TaxIsWithin DEF Amounting
  <2>2. a \in Int /\ b \in Int
    BY <2>1
  <2>3. SaleEntry = WithTax(<<Debit(a), Credit(b)>>, x)
    BY DEF SaleEntry
  <2> DEFINE lines == SaleEntry
  <2>4. lines = WithTax(<<Debit(a), Credit(b)>>, x) /\ Postable(lines)
    BY <1>1, <2>3
  <2>5. x = Credit(t)
    OBVIOUS
  <2> HIDE DEF n, t, a, b, x, lines
  <2>6. lines \in Seq([debit : Nat, credit : Nat])
    BY <2>1, <2>2, <2>4, <2>5, EntryIs
  <2> QED
    BY <1>1, <2>6 DEF lines
<1>11. CostIsShared'
  BY <1>1, <1>2 DEF CostIsShared
<1> QED
  BY <1>1, <1>2, <1>9, <1>10, <1>11 DEF Amounting

\* Posting the purchase.
LEMMA PostingThePurchaseKeeps ==
  ASSUME Amounting, NEW extra \in ExtraCosts, NEW vat \in ExtraCosts,
         PostPurchaseInvoice(extra, vat)
  PROVE  Amounting'
<1> DEFINE cost == Allocate(extra, Gross)
           taxes == Allocate(vat, Gross)
           D == DOMAIN basket
           goods == SumFunction(Gross) + extra
           lines == WithTax(<<Debit(goods), Credit(goods + vat)>>, Debit(vat))
           made == [i \in D |->
                     [extra |-> cost[i], vat |-> taxes[i], total |-> Gross[i] + cost[i]]]
<1>1. /\ basket' = basket /\ coupon' = coupon /\ fee' = fee /\ bill' = bill
      /\ bill = <<>> /\ Postable(lines) /\ entry' = lines /\ invoice' = made
  BY DEF PostPurchaseInvoice
<1>2. extra \in Nat /\ vat \in Nat
  BY AmountsAssumption
<1>3. /\ D = 1 .. Len(basket) /\ Len(basket) \in Nat /\ IsFiniteSet(D) /\ D \in SUBSET Int
      /\ D # {} /\ Gross \in [D -> Nat] /\ D = DOMAIN Gross
  BY BasketIs DEF Amounting
<1> HIDE DEF D
<1>4. cost \in [D -> Nat] /\ SumFunction(cost) = extra
  BY <1>2, <1>3, AllocateIsExact
<1>5. taxes \in [D -> Nat] /\ SumFunction(taxes) = vat
  BY <1>2, <1>3, AllocateIsExact
<1> HIDE DEF cost, taxes
<1>6. goods \in Nat /\ SumFunction(Gross) = SumFunctionOnSet(Gross, D)
  <2>1. SumFunction(Gross) = SumFunctionOnSet(Gross, D)
    BY <1>3 DEF SumFunction
  <2>2. SumFunctionOnSet(Gross, D) \in Nat
    BY <1>3, SumNat
  <2> QED
    BY <1>2, <2>1, <2>2
<1>7. /\ lines \in Seq([debit : Nat, credit : Nat])
      /\ lines[1].debit = goods /\ lines[2].credit = goods + vat
  <2> DEFINE g == goods
             b == g + vat
             x == Debit(vat)
  <2>1. g \in Int /\ b \in Int /\ vat \in Int /\ x = Debit(vat)
    BY <1>2, <1>6
  <2>2. lines = WithTax(<<Debit(g), Credit(b)>>, x) /\ Postable(lines)
    BY <1>1
  <2> HIDE DEF g, b, x, lines
  <2>3. /\ lines \in Seq([debit : Nat, credit : Nat])
        /\ lines[1].debit = g /\ lines[2].credit = b
    BY <2>1, <2>2, EntryIs
  <2> QED
    BY <2>3 DEF g, b
<1> HIDE DEF lines
<1>8. ASSUME NEW i \in D
      PROVE  /\ made[i] \in [extra : Nat, vat : Nat, total : Nat]
             /\ made[i].total = Gross[i] + cost[i] /\ made[i].vat = taxes[i]
             /\ Gross[i] \in Nat /\ cost[i] \in Nat /\ taxes[i] \in Nat
  BY <1>3, <1>4, <1>5
<1>9. made \in [D -> [extra : Nat, vat : Nat, total : Nat]] /\ DOMAIN made = D
  BY <1>8
<1> HIDE DEF made
<1>10. made \in Seq([extra : Nat, vat : Nat, total : Nat])
  <2> DEFINE n == Len(basket)
             R == [extra : Nat, vat : Nat, total : Nat]
  <2>1. n \in Nat /\ made \in [1 .. n -> R]
    BY <1>3, <1>9
  <2> HIDE DEF n, R
  <2>2. made \in Seq(R)
    BY <2>1, SeqDef
  <2> QED
    BY <2>2 DEF R
<1>11. SumFunction([i \in DOMAIN made |-> made[i].total]) = goods
  <2> DEFINE total == [i \in DOMAIN made |-> made[i].total]
  <2>1. DOMAIN total = D /\ \A i \in D : /\ Gross[i] \in Int /\ cost[i] \in Int
                                         /\ total[i] = Gross[i] + cost[i]
    BY <1>8, <1>9
  <2> HIDE DEF total
  <2>2. SumFunctionOnSet(total, D) = SumFunctionOnSet(Gross, D) + SumFunctionOnSet(cost,
          D)
    BY <1>3, <2>1, SumOfTwo
  <2>3. DOMAIN cost = D
    BY <1>4
  <2>4. SumFunction(total) = goods
    BY <1>4, <1>6, <2>1, <2>2, <2>3 DEF SumFunction
  <2> QED
    BY <2>4 DEF total
<1>12. SumFunction([i \in DOMAIN made |-> made[i].vat]) = vat
  <2> DEFINE tax == [i \in DOMAIN made |-> made[i].vat]
  <2>1. DOMAIN tax = D /\ \A i \in D : tax[i] \in Int /\ tax[i] = taxes[i]
    BY <1>8, <1>9
  <2> HIDE DEF tax
  <2>2. SumFunctionOnSet(tax, D) = SumFunctionOnSet(taxes, D)
    BY <1>3, <2>1, SumSame
  <2>3. DOMAIN taxes = D
    BY <1>5
  <2>4. SumFunction(tax) = vat
    BY <1>5, <2>1, <2>2, <2>3 DEF SumFunction
  <2> QED
    BY <2>4 DEF tax
<1>13. CostIsShared'
  <2>1. /\ SumFunction([i \in DOMAIN invoice' |-> invoice'[i].total]) = entry'[1].debit
        /\ entry'[2].credit
             = entry'[1].debit + SumFunction([i \in DOMAIN invoice' |-> invoice'[i].vat])
    BY <1>1, <1>7, <1>11, <1>12
  <2> QED
    BY <2>1 DEF CostIsShared
<1> QED
  BY <1>1, <1>7, <1>10, <1>13 DEF Amounting

\* No step of the order and the purchase disturbs their order.
LEMMA AmountingNext == Amounting /\ [AmountsNext]_amountVars => Amounting'
<1> SUFFICES ASSUME Amounting, [AmountsNext]_amountVars PROVE Amounting'
  OBVIOUS
<1>1. CASE PlaceOrder
  BY <1>1, PlacingKeeps
<1>2. CASE PostSale
  BY <1>2, PostingTheSaleKeeps
<1>3. CASE \E extra, vat \in ExtraCosts : PostPurchaseInvoice(extra, vat)
  BY <1>3, PostingThePurchaseKeeps
<1>4. CASE UNCHANGED amountVars
  <2>1. /\ basket' = basket /\ coupon' = coupon /\ fee' = fee /\ bill' = bill
        /\ invoice' = invoice /\ entry' = entry
    BY <1>4 DEF amountVars
  <2>2. Gross' = Gross /\ EligibleLines' = EligibleLines
    BY <2>1 DEF Gross, EligibleLines
  <2>3. EligibleGross' = EligibleGross
    BY <2>2 DEF EligibleGross
  <2>4. Discount' = Discount
    BY <2>1, <2>3 DEF Discount
  <2>5. Shares' = Shares
    BY <2>2, <2>4 DEF Shares
  <2>6. \A i : Share(i)' = Share(i)
    BY <2>1, <2>2, <2>5 DEF Share
  <2>7. \A i : Billed(i)' = Billed(i)
    BY <2>1, <2>2, <2>6 DEF Billed
  <2>8. bill' # <<>> => bill' = [i \in DOMAIN basket' |-> Billed(i)']
    BY <2>1, <2>7 DEF Amounting
  <2>9. CostIsShared'
    BY <2>1 DEF CostIsShared, Amounting
  <2> QED
    BY <2>1, <2>8, <2>9 DEF Amounting
<1> QED
  BY <1>1, <1>2, <1>3, <1>4 DEF AmountsNext

\* No rial is lost or made when a discount is divided among the lines of an order, when
\* its lines are taxed, when it is posted to the books, or when the cost of a delivery
\* is divided among its goods, for any prices, quantities, discounts and rates
\* (the money, coupons, orders and accounting packages).
THEOREM NoRialIsLost == AmountsSpec => []AmountsAddUp
<1>1. AmountsSpec => []Amounting
  BY AmountingInit, AmountingNext, PTL DEF AmountsSpec
<1> QED
  BY <1>1, AmountingAddsUp, PTL

-----------------------------------------------------------------------------
(* The tree of categories: what a statement under way will make of it.       *)

\* The parents when the statement of a request has committed.
AfterOf(p, t) == [x \in Cats |-> IF x \in t.moved THEN t.to ELSE p[x]]

\* A request under way says what it is about.
TaskIs(t) ==
  /\ t.to \in Cats \cup {NoCat} /\ t.goodsTo \in Cats \cup {NoCat}
  /\ t.step \in {"checked", "goods", "setting", "emptied"} => t.cat \in Cats
  /\ t.step \in {"goods", "emptied"} => t.op = "remove"
  /\ t.step = "setting"
       => /\ t.moved \subseteq Cats /\ t.moved \subseteq DOMAIN t.depths
          /\ \A x \in DOMAIN t.depths : t.depths[x] \in Nat

\* Types.
ShapeHolds ==
  /\ rows \subseteq Cats /\ parent \in [Cats -> Cats \cup {NoCat}]
  /\ depth \in [Cats -> Nat]
  /\ home \in rows /\ shown \in BOOLEAN /\ crossed \in BOOLEAN
  /\ edits \in 0 .. MaxEdits

TasksHold == task = [e \in Editors |-> task[e]] /\ \A e \in Editors : TaskIs(task[e])

\* No category has lost its parent, nor will it when a statement commits.
RowsHold ==
  /\ \A c \in rows : parent[c] \in rows \cup {NoCat}
  /\ \A c \in Cats \ rows : parent[c] = NoCat
  /\ \A e \in Editors : task[e].step = "setting" => task[e].to \in rows \cup {NoCat}

\* While no two statements have crossed there is at most one that sets a parent: the
\* tree is a tree now and after it, and the depths it holds are those there will be.
DepthsHold ==
  ~crossed =>
    /\ Acyclic(parent)
    /\ \A c \in rows : depth[c] = DepthIn(parent, c)
    /\ \A e, f \in Editors : task[e].step = "setting" /\ task[f].step = "setting" => e = f
    /\ \A e \in Editors : task[e].step = "setting"
         => /\ Acyclic(AfterOf(parent, task[e]))
            /\ task[e].depths = Recalculated(AfterOf(parent, task[e]), task[e].moved)

Owing == \E e \in Editors : task[e].step \in {"goods", "setting", "emptied", "written"}

\* What a visitor's request has read is as good as what the cache holds.
MenusHold ==
  /\ version \in Nat
  /\ menu.is = "sound" => menu.view = version \/ Owing
  /\ reader = [v \in Visitors |-> reader[v]]
  /\ \A v \in Visitors :
       /\ reader[v] # NoMenu => reader[v].view \in 0 .. version
       /\ reader[v].is = "sound" => reader[v].view = version \/ Owing

Cataloguing == ShapeHolds /\ TasksHold /\ RowsHold /\ DepthsHold /\ MenusHold

\* A parent for every category.
Parents == [Cats -> Cats \cup {NoCat}]

\* What is above a category is left by no way up, ...
LEMMA AncestorsAreClosed ==
  ASSUME NEW f \in Parents, NEW c \in Cats
  PROVE  /\ Ancestors(f, c) \subseteq Cats
         /\ f[c] \in Ancestors(f, c) \cup {NoCat}
         /\ \A y \in Ancestors(f, c) : f[y] \in Ancestors(f, c) \cup {NoCat}
BY DEF Ancestors, Parents

\* ... and it is the least such set.
LEMMA AncestorsAreLeast ==
  ASSUME NEW f, NEW c, NEW S \in SUBSET Cats,
         f[c] \in S \cup {NoCat}, \A y \in S : f[y] \in S \cup {NoCat}
  PROVE  Ancestors(f, c) \subseteq S
BY DEF Ancestors

\* How deep a category is, is a number.
LEMMA DepthsAreNumbers ==
  ASSUME NEW f, NEW c
  PROVE  DepthIn(f, c) \in Nat
<1>1. Ancestors(f, c) \subseteq Cats
  BY DEF Ancestors
<1> QED
  BY <1>1, CatalogueAssumption, FS_Subset, FS_CardinalityType DEF DepthIn

\* Where the parents agree on a category and on what is above it, the same is above it.
LEMMA SameAbove ==
  ASSUME NEW f \in Parents, NEW g \in Parents, NEW c \in Cats,
         f[c] = g[c], \A y \in Ancestors(f, c) : f[y] = g[y]
  PROVE  Ancestors(g, c) = Ancestors(f, c)
<1> DEFINE A == Ancestors(f, c)
           B == Ancestors(g, c)
<1>1. A \in SUBSET Cats /\ f[c] \in A \cup {NoCat} /\ \A y \in A : f[y] \in A \cup {NoCat}
  BY AncestorsAreClosed
<1>2. B \in SUBSET Cats /\ g[c] \in B \cup {NoCat} /\ \A y \in B : g[y] \in B \cup {NoCat}
  BY AncestorsAreClosed
<1>3. B \subseteq A
  <2>1. g[c] \in A \cup {NoCat} /\ \A y \in A : g[y] \in A \cup {NoCat}
    BY <1>1
  <2> QED
    BY <2>1, <1>1, AncestorsAreLeast
<1>4. A \subseteq A \cap B
  <2> DEFINE S == A \cap B
  <2>1. S \in SUBSET Cats /\ f[c] \in S \cup {NoCat} /\
          \A y \in S : f[y] \in S \cup {NoCat}
    <3>1. f[c] \in B \cup {NoCat}
      BY <1>2
    <3>2. ASSUME NEW y \in S PROVE f[y] \in S \cup {NoCat}
      <4>1. f[y] \in A \cup {NoCat} /\ g[y] \in B \cup {NoCat} /\ f[y] = g[y]
        BY <1>1, <1>2
      <4> QED
        BY <4>1
    <3> QED
      BY <3>1, <3>2, <1>1
  <2> HIDE DEF S
  <2>2. Ancestors(f, c) \subseteq S
    BY <2>1, AncestorsAreLeast
  <2> QED
    BY <2>2 DEF S
<1> QED
  BY <1>3, <1>4

\* Nothing is below a category that is nobody's parent.
LEMMA LeafIsAboveNone ==
  ASSUME NEW f \in Parents, NEW c \in Cats, \A z \in Cats : f[z] # c, NEW x \in Cats
  PROVE  c \notin Ancestors(f, x)
<1> DEFINE A == Ancestors(f, x)
           S == A \ {c}
<1>1. A \in SUBSET Cats /\ f[x] \in A \cup {NoCat} /\ \A y \in A : f[y] \in A \cup {NoCat}
  BY AncestorsAreClosed
<1>2. S \in SUBSET Cats /\ f[x] \in S \cup {NoCat} /\ \A y \in S : f[y] \in S \cup {NoCat}
  BY <1>1
<1> HIDE DEF S
<1>3. A \subseteq S
  BY <1>2, AncestorsAreLeast
<1> QED
  BY <1>3 DEF S

\* A tree that loses a link is a tree.
LEMMA UnlinkedIsATree ==
  ASSUME NEW f \in Parents, NEW g \in Parents, Acyclic(f),
         \A x \in Cats : g[x] = f[x] \/ g[x] = NoCat
  PROVE  Acyclic(g)
<1> SUFFICES ASSUME NEW S \in SUBSET Cats \ {{}}, {g[c] : c \in S} \subseteq S
             PROVE  FALSE
  BY DEF Acyclic
<1>1. \A c \in S : g[c] \in S /\ g[c] = f[c]
  BY CatalogueAssumption
<1>2. {f[c] : c \in S} \subseteq S
  BY <1>1
<1> QED
  BY <1>2 DEF Acyclic

\* What the statement of a request makes of the parents.
LEMMA AfterIs ==
  ASSUME NEW p \in Parents, NEW t, t.to \in Cats \cup {NoCat}
  PROVE  AfterOf(p, t) \in Parents
BY DEF AfterOf, Parents

\* The depths of the rows that a statement moves and of those below them.
LEMMA RecalculatedIs ==
  ASSUME NEW f, NEW M \in SUBSET Cats
  PROVE  /\ \A x : x \in DOMAIN Recalculated(f, M)
                     <=> x \in Cats /\ \E m \in M : x = m \/ m \in Ancestors(f, x)
         /\ \A x \in DOMAIN Recalculated(f, M) : Recalculated(f, M)[x] = DepthIn(f, x)
         /\ Recalculated(f, M) = [x \in DOMAIN Recalculated(f, M) |-> DepthIn(f, x)]
         /\ M \subseteq DOMAIN Recalculated(f, M)
<1> DEFINE D == UNION {Branch(f, c) : c \in M}
<1>1. \A x : x \in D <=> x \in Cats /\ \E m \in M : x = m \/ m \in Ancestors(f, x)
  BY DEF Branch
<1> HIDE DEF D
<1>2. Recalculated(f, M) = [x \in D |-> DepthIn(f, x)]
  BY DEF Recalculated, D
<1>3. DOMAIN Recalculated(f, M) = D
  BY <1>2
<1>4. \A x \in D : Recalculated(f, M)[x] = DepthIn(f, x)
  BY <1>2
<1>5. M \subseteq D
  BY <1>1
<1> QED
  BY <1>1, <1>2, <1>3, <1>4, <1>5

\* A statement commits: what it did not recalculate is as deep as before.
LEMMA TheRestIsAsDeep ==
  ASSUME NEW p \in Parents, NEW t, t.to \in Cats \cup {NoCat}, t.moved \in SUBSET Cats,
         NEW x \in Cats, x \notin DOMAIN Recalculated(AfterOf(p, t), t.moved)
  PROVE  DepthIn(AfterOf(p, t), x) = DepthIn(p, x)
<1> DEFINE g == AfterOf(p, t)
<1>1. g \in Parents
  BY AfterIs
<1>2. x \notin t.moved /\ \A y \in Ancestors(g, x) : y \notin t.moved
  BY RecalculatedIs
<1>3. \A y \in Cats : y \notin t.moved => g[y] = p[y]
  BY DEF AfterOf
<1>4. Ancestors(g, x) \subseteq Cats
  BY DEF Ancestors
<1>5. g[x] = p[x] /\ \A y \in Ancestors(g, x) : g[y] = p[y]
  BY <1>2, <1>3, <1>4
<1> HIDE DEF g
<1>6. Ancestors(p, x) = Ancestors(g, x)
  BY <1>1, <1>5, SameAbove
<1>7. DepthIn(g, x) = DepthIn(p, x)
  BY <1>6 DEF DepthIn
<1> QED
  BY <1>7 DEF g

\* A category without children goes: the others are as deep as before, ...
LEMMA AsDeepWithoutALeaf ==
  ASSUME NEW f \in Parents, NEW c \in Cats, \A z \in Cats : f[z] # c,
         NEW g \in Parents, g[c] = NoCat, \A y \in Cats : y # c => g[y] = f[y],
           NEW x \in Cats, x # c
  PROVE  Ancestors(g, x) = Ancestors(f, x) /\ DepthIn(g, x) = DepthIn(f, x)
<1>1. c \notin Ancestors(f, x) /\ Ancestors(f, x) \subseteq Cats
  BY LeafIsAboveNone, AncestorsAreClosed
<1>3. f[x] = g[x] /\ \A y \in Ancestors(f, x) : f[y] = g[y]
  BY <1>1
<1>4. Ancestors(g, x) = Ancestors(f, x)
  BY <1>3, SameAbove
<1> QED
  BY <1>4 DEF DepthIn

\* ... and a statement under way recalculates the same.
LEMMA RecalculatedWithoutALeaf ==
  ASSUME NEW f \in Parents, NEW c \in Cats, \A z \in Cats : f[z] # c,
         NEW g \in Parents, g[c] = NoCat, \A y \in Cats : y # c => g[y] = f[y],
         NEW M \in SUBSET Cats, c \notin DOMAIN Recalculated(f, M)
  PROVE  Recalculated(g, M) = Recalculated(f, M)
<1>1. \A x \in Cats : x # c => Ancestors(g, x) = Ancestors(f, x) /\ DepthIn(g,
        x) = DepthIn(f, x)
  BY AsDeepWithoutALeaf
<1>2. c \notin M
  BY RecalculatedIs
<1>3. Ancestors(g, c) \subseteq {}
  <2> DEFINE S == {}
  <2>1. S \in SUBSET Cats /\ g[c] \in S \cup {NoCat} /\
          \A y \in S : g[y] \in S \cup {NoCat}
    OBVIOUS
  <2> HIDE DEF S
  <2>2. Ancestors(g, c) \subseteq S
    BY <2>1, AncestorsAreLeast
  <2> QED
    BY <2>2 DEF S
<1> DEFINE D == DOMAIN Recalculated(f, M)
           E == DOMAIN Recalculated(g, M)
<1>4. \A x : x \in D <=> x \in Cats /\ \E m \in M : x = m \/ m \in Ancestors(f, x)
  BY RecalculatedIs
<1>5. \A x : x \in E <=> x \in Cats /\ \E m \in M : x = m \/ m \in Ancestors(g, x)
  BY RecalculatedIs
<1>6. Recalculated(f, M) = [x \in D |-> DepthIn(f, x)]
  BY RecalculatedIs
<1>7. Recalculated(g, M) = [x \in E |-> DepthIn(g, x)]
  BY RecalculatedIs
<1>8. c \notin D
  OBVIOUS
<1> HIDE DEF D, E
<1>9. c \notin E
  BY <1>2, <1>3, <1>5
<1>10. D = E
  <2>1. ASSUME NEW x PROVE x \in D <=> x \in E
    <3>1. CASE x = c
      BY <3>1, <1>8, <1>9
    <3>2. CASE x # c
      BY <3>2, <1>1, <1>4, <1>5
    <3> QED
      BY <3>1, <3>2
  <2> QED
    BY <2>1
<1>11. \A x \in D : DepthIn(f, x) = DepthIn(g, x)
  BY <1>1, <1>4, <1>8
<1> QED
  BY <1>6, <1>7, <1>10, <1>11
Owes == {"goods", "setting", "emptied", "written"}

\* A request takes a step: the other requests stay where they are.
LEMMA OneRequestMoves ==
  ASSUME TasksHold, NEW e \in Editors, NEW t, task' = [task EXCEPT ![e] = t]
  PROVE  /\ task' = [f \in Editors |-> task'[f]] /\ task'[e] = t
         /\ \A f \in Editors : f # e => task'[f] = task[f]
BY DEF TasksHold

\* The requests stay well-formed when the one that moves does.
LEMMA RequestsHold ==
  ASSUME TasksHold, NEW e \in Editors, NEW t, TaskIs(t), task' = [task EXCEPT ![e] = t]
  PROVE  TasksHold'
<1>1. /\ task' = [f \in Editors |-> task'[f]] /\ task'[e] = t
      /\ \A f \in Editors : f # e => task'[f] = task[f]
  BY OneRequestMoves
<1>2. ASSUME NEW f \in Editors PROVE TaskIs(task'[f])
  <2>1. CASE f = e
    BY <2>1, <1>1
  <2>2. CASE f # e
    <3>1. TaskIs(task[f])
      BY DEF TasksHold
    <3> QED
      BY <3>1, <2>2, <1>1
  <2> QED
    BY <2>1, <2>2
<1> QED
  BY <1>1, <1>2 DEF TasksHold

\* A step that moves no row and begins to set no parent leaves the tree as sound.
LEMMA TreeIsKept ==
  ASSUME RowsHold, DepthsHold, UNCHANGED <<rows, parent, depth, crossed>>,
         \A f \in Editors : task'[f].step = "setting" => task'[f] = task[f]
  PROVE  RowsHold' /\ DepthsHold'
<1>1. RowsHold'
  BY DEF RowsHold
<1>2. DepthsHold'
  <2>1. CASE crossed
    BY <2>1 DEF DepthsHold
  <2>2. CASE ~crossed
    <3>1. Acyclic(parent') /\ \A c \in rows' : depth'[c] = DepthIn(parent', c)
      BY <2>2 DEF DepthsHold
    <3>2. \A e, f \in Editors :
            task'[e].step = "setting" /\ task'[f].step = "setting" => e = f
      <4>1. \A e, f \in Editors : task[e].step = "setting" /\
              task[f].step = "setting" => e = f
        BY <2>2 DEF DepthsHold
      <4> QED
        BY <4>1
    <3>3. ASSUME NEW e \in Editors, task'[e].step = "setting"
          PROVE  /\ Acyclic(AfterOf(parent', task'[e]))
                 /\ task'[e].depths = Recalculated(AfterOf(parent', task'[e]),
                      task'[e].moved)
      <4>1. task'[e] = task[e] /\ task[e].step = "setting"
        BY <3>3
      <4>2. /\ Acyclic(AfterOf(parent, task[e]))
            /\ task[e].depths = Recalculated(AfterOf(parent, task[e]), task[e].moved)
        BY <4>1, <2>2 DEF DepthsHold
      <4> QED
        BY <4>1, <4>2
    <3> QED
      BY <3>1, <3>2, <3>3 DEF DepthsHold
  <2> QED
    BY <2>1, <2>2
<1> QED
  BY <1>1, <1>2

\* What is owed stays owed while the request that owes it does not clear the cache.
LEMMA OwingIsKept ==
  ASSUME TasksHold, NEW e \in Editors, NEW t, task' = [task EXCEPT ![e] = t],
         task[e].step \in Owes => t.step \in Owes
  PROVE  (Owing => Owing') /\ (t.step \in Owes => Owing')
<1>1. /\ task'[e] = t
      /\ \A f \in Editors : f # e => task'[f] = task[f]
  BY OneRequestMoves
<1> QED
  BY <1>1 DEF Owing, Owes

\* A write that somebody still has to clear the cache for spoils no answer.
LEMMA AnswersAreKept ==
  ASSUME MenusHold, UNCHANGED <<menu, reader>>, version' \in {version, version + 1},
         version' # version => Owing', Owing => Owing'
  PROVE  MenusHold'
<1>1. version' \in Nat /\ version <= version'
  BY DEF MenusHold
<1>2. menu'.is = "sound" => menu'.view = version' \/ Owing'
  BY DEF MenusHold
<1>3. reader' = [v \in Visitors |-> reader'[v]]
  BY DEF MenusHold
<1>4. ASSUME NEW v \in Visitors PROVE reader'[v] # NoMenu
               => reader'[v].view \in 0 .. version'
  BY <1>1 DEF MenusHold
<1>5. ASSUME NEW v \in Visitors
      PROVE  reader'[v].is = "sound" => reader'[v].view = version' \/ Owing'
  BY DEF MenusHold
<1> QED
  BY <1>1, <1>2, <1>3, <1>4, <1>5 DEF MenusHold, NoMenu, Answer

\* Answers that a failed removal has spoilt say so.
LEMMA SpoiltIs ==
  ASSUME NEW a
  PROVE  /\ Unsound(a).is # "sound"
         /\ Unsound(a) # NoMenu => a # NoMenu /\ Unsound(a).view = a.view
BY DEF Unsound, NoMenu, Answer

\* A clear, or a removal that failed, leaves no answer that is taken for the one there is.
LEMMA AnswersAreSpoilt ==
  ASSUME MenusHold, reader' = Outdated, menu'.is # "sound", version' = version
  PROVE  MenusHold'
<1>1. reader' = [v \in Visitors |-> Unsound(reader[v])]
  BY DEF Outdated
<1>2. ASSUME NEW v \in Visitors
      PROVE  /\ reader'[v] # NoMenu => reader'[v].view \in 0 .. version'
             /\ reader'[v].is # "sound"
  <2>1. reader'[v] = Unsound(reader[v])
    BY <1>1
  <2> QED
    BY <2>1, SpoiltIs DEF MenusHold
<1>3. reader' = [v \in Visitors |-> reader'[v]]
  BY <1>1
<1>4. version' \in Nat
  BY DEF MenusHold
<1> QED
  BY <1>2, <1>3, <1>4 DEF MenusHold, NoMenu, Answer

\* A step of one request that sets no parent and deletes nothing.
LEMMA QuietStep ==
  ASSUME Cataloguing, NEW e \in Editors, NEW t, TaskIs(t), t.step # "setting",
         task' = [task EXCEPT ![e] = t], UNCHANGED <<treeVars, cacheVars, crossed>>,
         home' \in rows, shown' \in BOOLEAN, edits' \in 0 .. MaxEdits,
         version' \in {version, version + 1}, version' # version => t.step \in Owes,
         task[e].step \in Owes => t.step \in Owes
  PROVE  Cataloguing'
<1> USE DEF treeVars, cacheVars
<1>1. ShapeHolds'
  BY DEF Cataloguing, ShapeHolds
<1>2. TasksHold'
  BY RequestsHold DEF Cataloguing
<1>3. /\ task'[e] = t
      /\ \A f \in Editors : f # e => task'[f] = task[f]
  BY OneRequestMoves DEF Cataloguing
<1>4. RowsHold' /\ DepthsHold'
  <2>1. \A f \in Editors : task'[f].step = "setting" => task'[f] = task[f]
    BY <1>3
  <2> QED
    BY <2>1, TreeIsKept DEF Cataloguing
<1>5. MenusHold'
  <2>1. (Owing => Owing') /\ (t.step \in Owes => Owing')
    BY OwingIsKept DEF Cataloguing
  <2> QED
    BY <2>1, AnswersAreKept DEF Cataloguing
<1> QED
  BY <1>1, <1>2, <1>4, <1>5 DEF Cataloguing

\* A request that holds nothing is well-formed.
LEMMA HoldingIs ==
  ASSUME NEW op, NEW c, NEW p \in Cats \cup {NoCat}, NEW g \in Cats \cup {NoCat},
           NEW step,
         step # "setting",
         step \in {"checked", "goods", "emptied"} => c \in Cats,
         step \in {"goods", "emptied"} => op = "remove"
  PROVE  TaskIs(Holding(op, c, p, g, step)) /\ Holding(op, c, p, g, step).step = step
BY DEF TaskIs, Holding, Task

\* Who has no request holds nothing.
LEMMA IdleIs == TaskIs(Idle) /\ Idle.step = "idle"
BY DEF TaskIs, Idle, Holding, Task

\* Who has written everything holds nothing.
LEMMA WrittenIs ==
  ASSUME NEW op
  PROVE  TaskIs(Written(op)) /\ Written(op).step = "written"
BY DEF TaskIs, Written, Holding, Task

\* A removal that goes on is about the same category.
LEMMA AtIs ==
  ASSUME NEW t, TaskIs(t), t.cat \in Cats, t.op = "remove", NEW step, step \in {"goods",
           "emptied"}
  PROVE  TaskIs(At(t, step)) /\ At(t, step).step = step
BY DEF TaskIs, At, Task

\* A request starts with a step of its own.
LEMMA StartsIs ==
  ASSUME Cataloguing, NEW e \in Editors, NEW t, Starts(e, t), TaskIs(t),
           t.step # "setting",
         UNCHANGED <<treeVars, cacheVars, crossed>>, home' \in rows, shown' \in BOOLEAN,
         version' \in {version, version + 1}, version' # version => t.step \in Owes
  PROVE  Cataloguing'
<1>1. edits' \in 0 .. MaxEdits
  BY CatalogueAssumption DEF Starts, Cataloguing, ShapeHolds
<1>2. task[e].step \notin Owes
  BY IdleIs DEF Starts, Owes
<1> QED
  BY <1>1, <1>2, QuietStep DEF Starts

\* A request that fails leaves the tree alone and spoils answers when it removes.
LEMMA FailsKeeps ==
  ASSUME Cataloguing, NEW e \in Editors, Fails(e),
         task[e].op # "remove" => task[e].step \notin Owes
  PROVE  Cataloguing'
<1> USE DEF treeVars, goodsVars
<1>1. ShapeHolds'
  BY DEF Cataloguing, ShapeHolds, Fails
<1>2. TasksHold'
  BY RequestsHold, IdleIs DEF Cataloguing, Fails
<1>3. /\ task'[e] = Idle
      /\ \A f \in Editors : f # e => task'[f] = task[f]
  BY OneRequestMoves DEF Cataloguing, Fails
<1>4. RowsHold' /\ DepthsHold'
  <2>1. \A f \in Editors : task'[f].step = "setting" => task'[f] = task[f]
    BY <1>3, IdleIs
  <2> QED
    BY <2>1, TreeIsKept DEF Cataloguing, Fails
<1>5. MenusHold'
  <2>1. CASE task[e].op = "remove"
    <3>1. menu'.is # "sound"
      BY <2>1, SpoiltIs DEF Fails
    <3> QED
      BY <3>1, <2>1, AnswersAreSpoilt DEF Cataloguing, Fails
  <2>2. CASE task[e].op # "remove"
    <3>1. Owing => Owing'
      BY <2>2, OwingIsKept DEF Cataloguing, Fails
    <3> QED
      BY <3>1, <2>2, AnswersAreKept DEF Cataloguing, Fails
  <2> QED
    BY <2>1, <2>2
<1> QED
  BY <1>1, <1>2, <1>4, <1>5 DEF Cataloguing

\* Checks only read.
LEMMA ChecksKeep ==
  ASSUME Cataloguing, NEW e \in Editors, NEW c \in Cats, NEW p \in Cats \cup {NoCat},
         \/ CheckCreate(e, c, p) \/ CheckMove(e, c, p)
         \/ \E g \in {NoCat, home, p} : CheckRemove(e, c, g, p)
  PROVE  Cataloguing'
<1> USE DEF Request
<1>1. home \in rows /\ home \in Cats /\ shown \in BOOLEAN /\ NoCat \in Cats \cup {NoCat}
  BY DEF Cataloguing, ShapeHolds
<1>2. CASE CheckCreate(e, c, p)
  <2>1. /\ TaskIs(Request("create", c, p, NoCat))
        /\ Request("create", c, p, NoCat).step = "checked"
    BY HoldingIs
  <2> QED
    BY <2>1, <1>1, <1>2, StartsIs DEF CheckCreate, goodsVars
<1>3. CASE CheckMove(e, c, p)
  <2>1. /\ TaskIs(Request("move", c, p, NoCat))
        /\ Request("move", c, p, NoCat).step = "checked"
    BY HoldingIs
  <2> QED
    BY <2>1, <1>1, <1>3, StartsIs DEF CheckMove, goodsVars
<1>4. ASSUME NEW g \in {NoCat, home, p}, CheckRemove(e, c, g, p)
      PROVE  Cataloguing'
  <2>1. /\ TaskIs(Request("remove", c, p, g))
        /\ Request("remove", c, p, g).step = "checked"
    BY <1>1, HoldingIs
  <2> QED
    BY <2>1, <1>1, <1>4, StartsIs DEF CheckRemove, goodsVars
<1> QED
  BY <1>2, <1>3, <1>4

\* The edit of a product or of the order owes the cache a clear.
LEMMA EditsKeep ==
  ASSUME Cataloguing, NEW e \in Editors,
         \/ \E c \in Cats, s \in BOOLEAN : EditProduct(e, c, s)
         \/ Reorder(e)
  PROVE  Cataloguing'
<1>1. home \in rows /\ shown \in BOOLEAN
  BY DEF Cataloguing, ShapeHolds
<1>2. ASSUME NEW c \in Cats, NEW s \in BOOLEAN, EditProduct(e, c, s) PROVE Cataloguing'
  <2>1. home' \in rows /\ shown' \in BOOLEAN
    BY <1>2 DEF EditProduct
  <2> QED
    BY <2>1, <1>2, WrittenIs, StartsIs DEF EditProduct, Owes
<1>3. CASE Reorder(e)
  <2>1. home' \in rows /\ shown' \in BOOLEAN
    BY <1>1, <1>3 DEF Reorder, goodsVars
  <2> QED
    BY <2>1, <1>3, WrittenIs, StartsIs DEF Reorder, Owes
<1> QED
  BY <1>2, <1>3

\* The trigger computes the depths of a tree again: they are what they were.
LEMMA RelabelKeeps ==
  ASSUME Cataloguing, NEW e \in Editors, NEW c \in Cats, Relabel(e, c)
  PROVE  Cataloguing'
<1> DEFINE t == Written("edit")
           D == Recalculated(parent, {c})
<1>1. /\ Starts(e, t) /\ version' = version + 1
      /\ UNCHANGED <<rows, parent, goodsVars, cacheVars, crossed>>
      /\ depth' = [x \in Cats |-> IF x \in DOMAIN D THEN D[x] ELSE depth[x]]
  BY DEF Relabel
<1>2. TaskIs(t) /\ t.step = "written"
  BY WrittenIs
<1>3. \A x \in DOMAIN D : D[x] = DepthIn(parent, x) /\ D[x] \in Nat
  <2>1. {c} \in SUBSET Cats
    OBVIOUS
  <2> QED
    BY <2>1, RecalculatedIs, DepthsAreNumbers
<1> HIDE DEF t, D
<1>4. /\ task' = [task EXCEPT ![e] = t] /\ edits' \in 0 .. MaxEdits
      /\ task[e].step \notin Owes
  BY <1>1, IdleIs, CatalogueAssumption DEF Starts, Cataloguing, ShapeHolds, Owes
<1>5. ShapeHolds'
  <2>1. depth' \in [Cats -> Nat]
    BY <1>1, <1>3 DEF Cataloguing, ShapeHolds
  <2> QED
    BY <2>1, <1>1, <1>4 DEF Cataloguing, ShapeHolds, goodsVars
<1>6. TasksHold'
  BY <1>2, <1>4, RequestsHold DEF Cataloguing
<1>7. \A f \in Editors : task'[f].step = "setting" => task'[f] = task[f]
  <2>1. /\ task'[e] = t
        /\ \A f \in Editors : f # e => task'[f] = task[f]
    BY <1>4, OneRequestMoves DEF Cataloguing
  <2> QED
    BY <2>1, <1>2
<1>8. RowsHold'
  BY <1>1, <1>7 DEF Cataloguing, RowsHold
<1>9. DepthsHold'
  <2>1. CASE crossed
    BY <2>1, <1>1 DEF DepthsHold
  <2>2. CASE ~crossed
    <3>1. Acyclic(parent') /\ \A x \in rows' : depth'[x] = DepthIn(parent', x)
      <4>1. Acyclic(parent) /\ \A x \in rows : depth[x] = DepthIn(parent, x)
        BY <2>2 DEF Cataloguing, DepthsHold
      <4>2. rows \subseteq Cats
        BY DEF Cataloguing, ShapeHolds
      <4> QED
        BY <4>1, <4>2, <1>1, <1>3
    <3>2. \A g, f \in Editors :
            task'[g].step = "setting" /\ task'[f].step = "setting" => g = f
      <4>1. \A g, f \in Editors : task[g].step = "setting" /\
              task[f].step = "setting" => g = f
        BY <2>2 DEF Cataloguing, DepthsHold
      <4> QED
        BY <4>1, <1>7
    <3>3. ASSUME NEW f \in Editors, task'[f].step = "setting"
          PROVE  /\ Acyclic(AfterOf(parent', task'[f]))
                 /\ task'[f].depths = Recalculated(AfterOf(parent', task'[f]),
                      task'[f].moved)
      <4>1. task'[f] = task[f] /\ task[f].step = "setting"
        BY <3>3, <1>7
      <4>2. /\ Acyclic(AfterOf(parent, task[f]))
            /\ task[f].depths = Recalculated(AfterOf(parent, task[f]), task[f].moved)
        BY <4>1, <2>2 DEF Cataloguing, DepthsHold
      <4> QED
        BY <4>1, <4>2, <1>1
    <3> QED
      BY <3>1, <3>2, <3>3 DEF DepthsHold
  <2> QED
    BY <2>1, <2>2
<1>10. MenusHold'
  <2>1. (Owing => Owing') /\ (t.step \in Owes => Owing')
    BY <1>4, OwingIsKept DEF Cataloguing
  <2>2. Owing'
    BY <2>1, <1>2 DEF Owes
  <2> QED
    BY <2>2, <1>1, AnswersAreKept DEF Cataloguing, cacheVars
<1> QED
  BY <1>5, <1>6, <1>8, <1>9, <1>10 DEF Cataloguing

\* The second row of a new order owes it still.
LEMMA ReorderNextKeeps ==
  ASSUME Cataloguing, NEW e \in Editors, ReorderNext(e)
  PROVE  Cataloguing'
<1>1. home' \in rows /\ shown' \in BOOLEAN /\ edits' \in 0 .. MaxEdits
  BY DEF Cataloguing, ShapeHolds, ReorderNext, goodsVars
<1> QED
  BY <1>1, WrittenIs, QuietStep DEF ReorderNext, Owes

\* The goods of a category that goes are put into one there is.
LEMMA MoveGoodsKeeps ==
  ASSUME Cataloguing, NEW e \in Editors, MoveGoods(e)
  PROVE  Cataloguing'
<1> DEFINE t == At(task[e], "goods")
<1>1. TaskIs(t) /\ t.step = "goods"
  <2>1. TaskIs(task[e]) /\ task[e].op = "remove" /\ task[e].step = "checked"
    BY DEF Cataloguing, TasksHold, MoveGoods
  <2>2. task[e].cat \in Cats
    BY <2>1 DEF TaskIs
  <2> QED
    BY <2>1, <2>2, AtIs
<1>2. home \in rows /\ shown \in BOOLEAN /\ edits \in 0 .. MaxEdits
  BY DEF Cataloguing, ShapeHolds
<1>3. CASE task[e].goodsTo = NoCat \/ home # task[e].cat
  <2>1. task' = [task EXCEPT ![e] = t]
    BY <1>3 DEF MoveGoods, Goes
  <2>2. UNCHANGED <<treeVars, goodsVars, cacheVars, version, crossed, edits>>
    BY <1>3 DEF MoveGoods
  <2> HIDE DEF t
  <2> QED
    BY <2>1, <2>2, <1>1, <1>2, QuietStep DEF Owes, goodsVars
<1>4. CASE ~(task[e].goodsTo = NoCat \/ home # task[e].cat) /\ task[e].goodsTo \in rows
  <2>1. task' = [task EXCEPT ![e] = t]
    BY <1>4 DEF MoveGoods, Goes
  <2>2. UNCHANGED <<treeVars, shown, cacheVars, crossed, edits>>
    BY <1>4 DEF MoveGoods
  <2>3. home' \in rows /\ version' = version + 1
    BY <1>4 DEF MoveGoods
  <2> HIDE DEF t
  <2> QED
    BY <2>1, <2>2, <2>3, <1>1, <1>2, QuietStep DEF Owes
<1>5. CASE ~(task[e].goodsTo = NoCat \/ home # task[e].cat) /\ task[e].goodsTo \notin rows
  <2>1. Fails(e) /\ task[e].op = "remove"
    BY <1>5 DEF MoveGoods
  <2> QED
    BY <2>1, FailsKeeps
<1> QED
  BY <1>3, <1>4, <1>5

\* Nothing below: the removal goes on.
LEMMA NothingToSetKeeps ==
  ASSUME Cataloguing, NEW e \in Editors, NothingToSet(e)
  PROVE  Cataloguing'
<1> DEFINE t == At(task[e], "emptied")
<1>1. TaskIs(t) /\ t.step = "emptied"
  <2>1. TaskIs(task[e]) /\ task[e].op = "remove" /\ task[e].step = "goods"
    BY DEF Cataloguing, TasksHold, NothingToSet, Ready
  <2>2. task[e].cat \in Cats
    BY <2>1 DEF TaskIs
  <2> QED
    BY <2>1, <2>2, AtIs
<1>2. home \in rows /\ shown \in BOOLEAN /\ edits \in 0 .. MaxEdits
  BY DEF Cataloguing, ShapeHolds
<1>3. task' = [task EXCEPT ![e] = t]
  BY DEF NothingToSet, Goes
<1>4. UNCHANGED <<treeVars, goodsVars, cacheVars, version, crossed, edits>>
  BY DEF NothingToSet
<1> HIDE DEF t
<1> QED
  BY <1>1, <1>2, <1>3, <1>4, QuietStep DEF Owes, goodsVars

\* A statement fails.
LEMMA FailuresKeep ==
  ASSUME Cataloguing, NEW e \in Editors, SetFails(e) \/ DeleteFails(e)
  PROVE  Cataloguing'
<1>1. Fails(e)
  BY DEF SetFails, DeleteFails
<1>2. task[e].op # "remove" => task[e].step \notin Owes
  <2>1. TaskIs(task[e])
    BY DEF Cataloguing, TasksHold
  <2>2. CASE SetFails(e)
    BY <2>2 DEF SetFails, Ready, Owes
  <2>3. CASE DeleteFails(e)
    BY <2>1, <2>3 DEF DeleteFails, TaskIs
  <2> QED
    BY <2>2, <2>3
<1> QED
  BY <1>1, <1>2, FailsKeeps
\* A statement sets a parent: what it holds is what the tree will be.
LEMMA SetParentKeeps ==
  ASSUME Cataloguing, NEW e \in Editors, SetParent(e)
  PROVE  Cataloguing'
<1> DEFINE M == Moved(e)
           D == Recalculated(After(e), Moved(e))
           t == Task(task[e].op, task[e].cat, task[e].to, NoCat, "setting", M, D)
<1>1. task' = [task EXCEPT ![e] = t] /\ UNCHANGED <<treeVars, goodsVars, cacheVars,
        version, edits>>
  BY DEF SetParent
<1>2. /\ rows \subseteq Cats /\ parent \in Parents /\ home \in rows /\ shown \in BOOLEAN
      /\ crossed \in BOOLEAN /\ edits \in 0 .. MaxEdits /\ TasksHold /\ TaskIs(task[e])
  BY DEF Cataloguing, ShapeHolds, TasksHold, Parents
<1>3. task[e].to \in Cats \cup {NoCat} /\ task[e].to \in rows \cup {NoCat} /\
        Acyclic(After(e))
  BY <1>2 DEF SetParent, TaskIs
<1>4. M \in SUBSET Cats
  <2>1. task[e].step \in {"checked", "goods"}
    BY DEF SetParent, Ready
  <2>2. task[e].cat \in Cats
    BY <2>1, <1>2 DEF TaskIs
  <2> QED
    BY <2>2, <1>2 DEF Moved, Children
<1>5. /\ t.op = task[e].op /\ t.cat = task[e].cat /\ t.to = task[e].to /\
           t.goodsTo = NoCat
      /\ t.step = "setting" /\ t.moved = M /\ t.depths = D
  BY DEF Task
<1>6. AfterOf(parent, t) = After(e)
  BY <1>5 DEF AfterOf, After
<1>7. M \subseteq DOMAIN D /\ \A x \in DOMAIN D : D[x] \in Nat
  <2>1. /\ M \subseteq DOMAIN D
        /\ \A x \in DOMAIN D : D[x] = DepthIn(After(e), x)
    BY <1>4, RecalculatedIs
  <2> QED
    BY <2>1, DepthsAreNumbers
<1>8. TaskIs(t)
  <2>1. task[e].step \in {"checked", "goods"}
    BY DEF SetParent, Ready
  <2>2. task[e].cat \in Cats
    BY <2>1, <1>2 DEF TaskIs
  <2> HIDE DEF t, D, M
  <2> QED
    BY <2>2, <1>3, <1>4, <1>5, <1>7 DEF TaskIs
<1>9. crossed' \in BOOLEAN /\ (~crossed' => ~crossed /\ Setting = {})
  BY ZenonT(30), <1>2 DEF SetParent
<1>10. Acyclic(AfterOf(parent, t)) /\ t.depths = Recalculated(AfterOf(parent, t), t.moved)
  BY <1>3, <1>5, <1>6
<1> HIDE DEF t, D, M
<1>11. /\ task'[e] = t
       /\ \A f \in Editors : f # e => task'[f] = task[f]
  BY <1>1, <1>2, OneRequestMoves
<1>12. ShapeHolds'
  BY <1>1, <1>9 DEF Cataloguing, ShapeHolds, treeVars, goodsVars
<1>13. TasksHold'
  BY <1>1, <1>2, <1>8, RequestsHold
<1>14. RowsHold'
  <2>1. UNCHANGED <<rows, parent>>
    BY <1>1 DEF treeVars
  <2>2. ASSUME NEW f \in Editors,
                 task'[f].step = "setting" PROVE task'[f].to \in rows \cup {NoCat}
    <3>1. CASE f = e
      BY <3>1, <1>3, <1>5, <1>11
    <3>2. CASE f # e
      BY <2>2, <3>2, <1>11 DEF Cataloguing, RowsHold
    <3> QED
      BY <3>1, <3>2
  <2> QED
    BY <2>1, <2>2 DEF Cataloguing, RowsHold
<1>15. DepthsHold'
  <2>1. CASE crossed'
    BY <2>1 DEF DepthsHold
  <2>2. CASE ~crossed'
    <3>1. ~crossed /\ Setting = {}
      BY <2>2, <1>9
    <3>2. UNCHANGED <<rows, parent, depth>>
      BY <1>1 DEF treeVars
    <3>3. Acyclic(parent') /\ \A c \in rows' : depth'[c] = DepthIn(parent', c)
      BY <3>1, <3>2 DEF Cataloguing, DepthsHold
    <3>4. \A f \in Editors : task'[f].step = "setting" => f = e
      BY <3>1, <1>11 DEF Setting
    <3>5. ASSUME NEW f \in Editors, task'[f].step = "setting"
          PROVE  /\ Acyclic(AfterOf(parent', task'[f]))
                 /\ task'[f].depths = Recalculated(AfterOf(parent', task'[f]),
                      task'[f].moved)
      BY <3>2, <3>4, <3>5, <1>10, <1>11
    <3> QED
      BY <3>3, <3>4, <3>5 DEF DepthsHold
  <2> QED
    BY <2>1, <2>2
<1>16. MenusHold'
  <2>1. Owing => Owing'
    BY <1>1, <1>2, <1>5, OwingIsKept DEF Owes
  <2> QED
    BY <2>1, <1>1, AnswersAreKept DEF Cataloguing, cacheVars
<1> QED
  BY <1>12, <1>13, <1>14, <1>15, <1>16 DEF Cataloguing

\* It commits: the rows are in place, with the depths that it held.
LEMMA CommitKeepsTheTree ==
  ASSUME Cataloguing, NEW e \in Editors, Commit(e)
  PROVE  Cataloguing'
<1> DEFINE t == task[e]
           n == IF t.op # "remove" THEN Written("edit")
                ELSE Holding("remove", t.cat, NoCat, NoCat, "emptied")
<1>1. /\ rows \subseteq Cats /\ parent \in Parents /\ home \in rows /\ shown \in BOOLEAN
      /\ crossed \in BOOLEAN /\ edits \in 0 .. MaxEdits /\ depth \in [Cats -> Nat]
      /\ TasksHold /\ TaskIs(t) /\ t.step = "setting"
  BY DEF Cataloguing, ShapeHolds, TasksHold, Parents, Commit, Setting
<1>2. /\ t.to \in Cats \cup {NoCat} /\ t.to \in rows \cup {NoCat} /\ t.cat \in Cats
      /\ t.moved \in SUBSET Cats /\ t.moved \subseteq DOMAIN t.depths
      /\ \A x \in DOMAIN t.depths : t.depths[x] \in Nat
  BY <1>1 DEF TaskIs, Cataloguing, RowsHold
<1>3. /\ rows' = rows \cup t.moved /\ parent' = AfterOf(parent, t)
      /\ depth' = [x \in Cats |-> IF x \in DOMAIN t.depths THEN t.depths[x] ELSE depth[x]]
      /\ version' = version + 1 /\ UNCHANGED <<goodsVars, cacheVars, crossed, edits>>
  BY DEF Commit, AfterOf
<1>4. task' = [task EXCEPT ![e] = n]
  BY DEF Commit
<1>5. TaskIs(n) /\ n.step \in {"written", "emptied"}
  <2>1. CASE t.op # "remove"
    BY <2>1, WrittenIs
  <2>2. CASE t.op = "remove"
    <3>1. /\ TaskIs(Holding("remove", t.cat, NoCat, NoCat, "emptied"))
          /\ Holding("remove", t.cat, NoCat, NoCat, "emptied").step = "emptied"
      BY <1>2, HoldingIs
    <3> QED
      BY <3>1, <2>2
  <2> QED
    BY <2>1, <2>2
<1> HIDE DEF n
<1>6. /\ task'[e] = n
      /\ \A f \in Editors : f # e => task'[f] = task[f]
  BY <1>1, <1>4, OneRequestMoves
<1>7. parent' \in Parents
  BY <1>1, <1>2, <1>3, AfterIs
<1>8. depth' \in [Cats -> Nat]
  BY <1>1, <1>2, <1>3
<1>9. ShapeHolds'
  BY <1>1, <1>2, <1>3, <1>7, <1>8 DEF ShapeHolds, goodsVars, Parents
<1>10. TasksHold'
  BY <1>1, <1>4, <1>5, RequestsHold
<1>11. RowsHold'
  <2>1. ASSUME NEW c \in rows' PROVE parent'[c] \in rows' \cup {NoCat}
    <3>1. c \in Cats
      BY <2>1, <1>1, <1>2, <1>3
    <3>2. parent'[c] = IF c \in t.moved THEN t.to ELSE parent[c]
      BY <3>1, <1>3 DEF AfterOf
    <3>3. CASE c \in t.moved
      BY <3>2, <3>3, <1>2, <1>3
    <3>4. CASE c \notin t.moved
      <4>1. c \in rows
        BY <2>1, <3>4, <1>3
      <4>2. parent[c] \in rows \cup {NoCat}
        BY <4>1 DEF Cataloguing, RowsHold
      <4> QED
        BY <4>2, <3>2, <3>4, <1>3
    <3> QED
      BY <3>3, <3>4
  <2>2. ASSUME NEW c \in Cats \ rows' PROVE parent'[c] = NoCat
    <3>1. c \notin t.moved /\ c \in Cats \ rows
      BY <1>3
    <3>2. parent[c] = NoCat
      BY <3>1 DEF Cataloguing, RowsHold
    <3> QED
      BY <3>1, <3>2, <1>3 DEF AfterOf
  <2>3. ASSUME NEW f \in Editors, task'[f].step = "setting"
        PROVE  task'[f].to \in rows' \cup {NoCat}
    <3>1. task'[f] = task[f]
      BY <2>3, <1>5, <1>6
    <3>2. task[f].to \in rows \cup {NoCat}
      BY <2>3, <3>1 DEF Cataloguing, RowsHold
    <3> QED
      BY <3>1, <3>2, <1>3
  <2> QED
    BY <2>1, <2>2, <2>3 DEF RowsHold
<1>12. DepthsHold'
  <2>1. CASE crossed'
    BY <2>1 DEF DepthsHold
  <2>2. CASE ~crossed'
    <3>1. ~crossed
      BY <2>2, <1>3
    <3>2. /\ Acyclic(AfterOf(parent, t)) /\ t.depths = Recalculated(AfterOf(parent, t),
               t.moved)
          /\ \A c \in rows : depth[c] = DepthIn(parent, c)
          /\ \A f \in Editors : task[f].step = "setting" => f = e
      BY <3>1, <1>1 DEF Cataloguing, DepthsHold
    <3>3. Acyclic(parent')
      BY <3>2, <1>3
    <3>4. ASSUME NEW c \in rows' PROVE depth'[c] = DepthIn(parent', c)
      <4>1. c \in Cats
        BY <3>4, <1>1, <1>2, <1>3
      <4>2. CASE c \in DOMAIN t.depths
        <5>1. t.depths[c] = DepthIn(AfterOf(parent, t), c)
          BY <4>2, <3>2, <1>2, RecalculatedIs
        <5> QED
          BY <5>1, <4>1, <4>2, <1>3
      <4>3. CASE c \notin DOMAIN t.depths
        <5>1. c \in rows
          BY <4>3, <3>4, <1>2, <1>3
        <5>2. c \notin DOMAIN Recalculated(AfterOf(parent, t), t.moved)
          BY <4>3, <3>2
        <5>3. DepthIn(AfterOf(parent, t), c) = DepthIn(parent, c)
          BY <4>1, <5>2, <1>1, <1>2, TheRestIsAsDeep
        <5>4. depth'[c] = depth[c] /\ depth[c] = DepthIn(parent, c)
          BY <4>1, <4>3, <5>1, <3>2, <1>3
        <5> QED
          BY <5>3, <5>4, <1>3
      <4> QED
        BY <4>2, <4>3
    <3>5. \A f \in Editors : task'[f].step # "setting"
      BY <3>2, <1>5, <1>6
    <3> QED
      BY <3>3, <3>4, <3>5 DEF DepthsHold
  <2> QED
    BY <2>1, <2>2
<1>13. MenusHold'
  <2>1. (Owing => Owing') /\ (n.step \in Owes => Owing')
    BY <1>1, <1>4, <1>5, OwingIsKept DEF Owes
  <2>2. Owing'
    BY <2>1, <1>5 DEF Owes
  <2> QED
    BY <2>2, <1>3, AnswersAreKept DEF Cataloguing, cacheVars
<1> QED
  BY <1>9, <1>10, <1>11, <1>12, <1>13 DEF Cataloguing

\* A category goes when nothing is in it or below it, and no statement uses its row.
LEMMA DeleteKeeps ==
  ASSUME Cataloguing, NEW e \in Editors, Delete(e)
  PROVE  Cataloguing'
<1> DEFINE c == task[e].cat
           n == Written("edit")
<1>1. /\ rows \subseteq Cats /\ parent \in Parents /\ home \in rows /\ shown \in BOOLEAN
      /\ crossed \in BOOLEAN /\ edits \in 0 .. MaxEdits /\ depth \in [Cats -> Nat]
      /\ TasksHold /\ TaskIs(task[e])
  BY DEF Cataloguing, ShapeHolds, TasksHold, Parents
<1>2. /\ c \in rows /\ home # c /\ Children(c) = {} /\ ~RowInUse(c)
      /\ rows' = rows \ {c} /\ parent' = [parent EXCEPT ![c] = NoCat]
      /\ depth' = [depth EXCEPT ![c] = 0] /\ version' = version + 1
      /\ task' = [task EXCEPT ![e] = n]
      /\ UNCHANGED <<goodsVars, cacheVars, crossed, edits>>
  BY DEF Delete, CanDelete
<1>3. TaskIs(n) /\ n.step = "written"
  BY WrittenIs
<1> HIDE DEF n, c
<1>4. c \in Cats
  BY <1>1, <1>2
<1>5. /\ task'[e] = n
      /\ \A f \in Editors : f # e => task'[f] = task[f]
  BY <1>1, <1>2, OneRequestMoves
<1>6. \A z \in Cats : parent[z] # c
  <2>1. ASSUME NEW z \in Cats PROVE parent[z] # c
    <3>1. CASE z \in rows
      BY <3>1, <1>2 DEF Children
    <3>2. CASE z \notin rows
      <4>1. parent[z] = NoCat
        BY <3>2 DEF Cataloguing, RowsHold
      <4> QED
        BY <4>1, <1>4, CatalogueAssumption
    <3> QED
      BY <3>1, <3>2
  <2> QED
    BY <2>1
<1>7. /\ parent' \in Parents /\ parent'[c] = NoCat
      /\ \A y \in Cats : y # c => parent'[y] = parent[y]
  BY <1>1, <1>2, <1>4 DEF Parents
<1>8. depth' \in [Cats -> Nat] /\ \A y \in Cats : y # c => depth'[y] = depth[y]
  BY <1>1, <1>2, <1>4
<1>9. ShapeHolds'
  BY <1>1, <1>2, <1>7, <1>8 DEF ShapeHolds, goodsVars, Parents
<1>10. TasksHold'
  BY <1>1, <1>2, <1>3, RequestsHold
<1>11. \A f \in Editors : task'[f].step = "setting" => task'[f] = task[f] /\ f \in Setting
  BY <1>3, <1>5 DEF Setting
<1>12. RowsHold'
  <2>1. ASSUME NEW x \in rows' PROVE parent'[x] \in rows' \cup {NoCat}
    <3>1. x \in rows /\ x # c /\ x \in Cats
      BY <1>1, <1>2
    <3>2. parent[x] \in rows \cup {NoCat} /\ parent[x] # c
      BY <3>1, <1>6 DEF Cataloguing, RowsHold
    <3> QED
      BY <3>1, <3>2, <1>2, <1>7
  <2>2. ASSUME NEW x \in Cats \ rows' PROVE parent'[x] = NoCat
    <3>1. CASE x = c
      BY <3>1, <1>7
    <3>2. CASE x # c
      <4>1. x \in Cats \ rows
        BY <3>2, <1>2
      <4>2. parent[x] = NoCat
        BY <4>1 DEF Cataloguing, RowsHold
      <4> QED
        BY <4>2, <3>2, <1>7
    <3> QED
      BY <3>1, <3>2
  <2>3. ASSUME NEW f \in Editors, task'[f].step = "setting"
        PROVE  task'[f].to \in rows' \cup {NoCat}
    <3>1. task'[f] = task[f] /\ f \in Setting
      BY <2>3, <1>11
    <3>2. task[f].to \in rows \cup {NoCat}
      BY <3>1, <2>3 DEF Cataloguing, RowsHold
    <3>3. task[f].to # c
      BY <3>1, <1>2 DEF RowInUse
    <3> QED
      BY <3>1, <3>2, <3>3, <1>2
  <2> QED
    BY <2>1, <2>2, <2>3 DEF RowsHold
<1>13. DepthsHold'
  <2>1. CASE crossed'
    BY <2>1 DEF DepthsHold
  <2>2. CASE ~crossed'
    <3>1. ~crossed
      BY <2>2, <1>2
    <3>2. Acyclic(parent) /\ \A x \in rows : depth[x] = DepthIn(parent, x)
      BY <3>1 DEF Cataloguing, DepthsHold
    <3>3. Acyclic(parent')
      <4>1. \A x \in Cats : parent'[x] = parent[x] \/ parent'[x] = NoCat
        BY <1>7
      <4> QED
        BY <4>1, <3>2, <1>1, <1>7, UnlinkedIsATree
    <3>4. ASSUME NEW x \in rows' PROVE depth'[x] = DepthIn(parent', x)
      <4>1. x \in rows /\ x # c /\ x \in Cats
        BY <1>1, <1>2
      <4>2. DepthIn(parent', x) = DepthIn(parent, x)
        BY <4>1, <1>1, <1>4, <1>6, <1>7, AsDeepWithoutALeaf
      <4> QED
        BY <4>1, <4>2, <3>2, <1>8
    <3>5. \A g, f \in Editors :
            task'[g].step = "setting" /\ task'[f].step = "setting" => g = f
      <4>1. \A g, f \in Editors : task[g].step = "setting" /\
              task[f].step = "setting" => g = f
        BY <3>1 DEF Cataloguing, DepthsHold
      <4> QED
        BY <4>1, <1>11
    <3>6. ASSUME NEW f \in Editors, task'[f].step = "setting"
          PROVE  /\ Acyclic(AfterOf(parent', task'[f]))
                 /\ task'[f].depths = Recalculated(AfterOf(parent', task'[f]),
                      task'[f].moved)
      <4> DEFINE t == task[f]
                 a == AfterOf(parent, t)
                 b == AfterOf(parent', t)
      <4>1. task'[f] = t /\ f \in Setting /\ t.step = "setting"
        BY <3>6, <1>11
      <4>2. Acyclic(a) /\ t.depths = Recalculated(a, t.moved)
        BY <4>1, <3>1 DEF Cataloguing, DepthsHold
      <4>3. t.to \in Cats \cup {NoCat} /\ t.moved \in SUBSET Cats /\
              t.moved \subseteq DOMAIN t.depths
        BY <4>1, <1>1 DEF TasksHold, TaskIs
      <4>4. t.to # c /\ c \notin DOMAIN t.depths
        BY <4>1, <1>2 DEF RowInUse
      <4>5. a \in Parents /\ b \in Parents
        BY <4>3, <1>1, <1>7, AfterIs
      <4>6. c \notin t.moved
        BY <4>3, <4>4
      <4>7. \A z \in Cats : a[z] # c
        BY <4>4, <1>6 DEF AfterOf
      <4>8. b[c] = NoCat /\ \A y \in Cats : y # c => b[y] = a[y]
        BY <4>6, <1>4, <1>7 DEF AfterOf
      <4>9. c \notin DOMAIN Recalculated(a, t.moved)
        BY <4>2, <4>4
      <4> HIDE DEF a, b
      <4>10. Acyclic(b)
        <5>1. \A x \in Cats : b[x] = a[x] \/ b[x] = NoCat
          BY <4>8
        <5> QED
          BY <5>1, <4>2, <4>5, UnlinkedIsATree
      <4>11. Recalculated(b, t.moved) = Recalculated(a, t.moved)
        BY <4>3, <4>5, <4>7, <4>8, <4>9, <1>4, RecalculatedWithoutALeaf
      <4> QED
        BY <4>1, <4>2, <4>10, <4>11 DEF b
    <3> QED
      BY <3>3, <3>4, <3>5, <3>6 DEF DepthsHold
  <2> QED
    BY <2>1, <2>2
<1>14. MenusHold'
  <2>1. (Owing => Owing') /\ (n.step \in Owes => Owing')
    BY <1>1, <1>2, <1>3, OwingIsKept DEF Owes
  <2>2. Owing'
    BY <2>1, <1>3 DEF Owes
  <2> QED
    BY <2>2, <1>2, AnswersAreKept DEF Cataloguing, cacheVars
<1> QED
  BY <1>9, <1>10, <1>12, <1>13, <1>14 DEF Cataloguing
\* The cache is emptied: no answer in it or on its way to it is taken for the one there is.
LEMMA EmptyingKeeps ==
  ASSUME MenusHold, Empties, version' = version
  PROVE  MenusHold'
<1>1. menu'.is # "sound"
  BY DEF Empties, NoMenu, Answer
<1> QED
  BY <1>1, AnswersAreSpoilt DEF Empties

\* The request ends, and with it what it owed the cache.
LEMMA ClearKeeps ==
  ASSUME Cataloguing, NEW e \in Editors, Clear(e)
  PROVE  Cataloguing'
<1>1. task' = [task EXCEPT ![e] = Idle] /\ Empties
      /\ UNCHANGED <<treeVars, goodsVars, version, crossed, edits>>
  BY DEF Clear
<1>2. ShapeHolds'
  BY <1>1 DEF Cataloguing, ShapeHolds, treeVars, goodsVars
<1>3. TasksHold'
  BY <1>1, RequestsHold, IdleIs DEF Cataloguing
<1>4. /\ task'[e] = Idle
      /\ \A f \in Editors : f # e => task'[f] = task[f]
  BY <1>1, OneRequestMoves DEF Cataloguing
<1>5. \A f \in Editors : task'[f].step = "setting" => task'[f] = task[f]
  BY <1>4, IdleIs
<1>6. RowsHold' /\ DepthsHold'
  BY <1>1, <1>5, TreeIsKept DEF Cataloguing, treeVars
<1>7. MenusHold'
  BY <1>1, EmptyingKeeps DEF Cataloguing
<1> QED
  BY <1>2, <1>3, <1>6, <1>7 DEF Cataloguing

\* A visitor's request reads what there is, and puts it in the cache later.
LEMMA VisitorsKeepAnswers ==
  ASSUME MenusHold, NEW v \in Visitors, BuildMenu(v) \/ PutMenu(v)
  PROVE  MenusHold'
<1>1. /\ version \in Nat /\ reader = [w \in Visitors |-> reader[w]]
      /\ version' = version /\ task' = task
  BY DEF MenusHold, BuildMenu, PutMenu
<1>2. (Owing => Owing')
  BY <1>1 DEF Owing
<1>3. ASSUME NEW w \in Visitors
      PROVE  /\ reader[w] # NoMenu => reader[w].view \in 0 .. version
             /\ reader[w].is = "sound" => reader[w].view = version \/ Owing'
  BY <1>2 DEF MenusHold
<1>4. CASE BuildMenu(v)
  <2>1. /\ reader' = [w \in Visitors |-> reader'[w]] /\ reader'[v] = Answer(version,
             "sound")
        /\ \A w \in Visitors : w # v => reader'[w] = reader[w]
    BY <1>1, <1>4 DEF BuildMenu
  <2>2. reader'[v].view = version
    BY <2>1 DEF Answer
  <2>3. ASSUME NEW w \in Visitors
        PROVE  /\ reader'[w] # NoMenu => reader'[w].view \in 0 .. version
               /\ reader'[w].is = "sound" => reader'[w].view = version \/ Owing'
    <3>1. CASE w = v
      BY <3>1, <2>2, <1>1
    <3>2. CASE w # v
      BY <3>2, <2>1, <1>3
    <3> QED
      BY <3>1, <3>2
  <2>4. menu' = menu
    BY <1>4 DEF BuildMenu
  <2>5. menu'.is = "sound" => menu'.view = version' \/ Owing'
    BY <2>4, <1>1, <1>2 DEF MenusHold
  <2> QED
    BY <2>1, <2>3, <2>5, <1>1 DEF MenusHold, NoMenu, Answer
<1>5. CASE PutMenu(v)
  <2>1. /\ reader' = [w \in Visitors |-> reader'[w]] /\ reader'[v] = NoMenu
        /\ \A w \in Visitors : w # v => reader'[w] = reader[w]
    BY <1>1, <1>5 DEF PutMenu
  <2>2. reader'[v].is # "sound"
    BY <2>1 DEF NoMenu, Answer
  <2>3. ASSUME NEW w \in Visitors
        PROVE  /\ reader'[w] # NoMenu => reader'[w].view \in 0 .. version
               /\ reader'[w].is = "sound" => reader'[w].view = version \/ Owing'
    <3>1. CASE w = v
      BY <3>1, <2>1, <2>2
    <3>2. CASE w # v
      BY <3>2, <2>1, <1>3
    <3> QED
      BY <3>1, <3>2
  <2>4. menu' = reader[v]
    BY <1>5 DEF PutMenu
  <2>5. menu'.is = "sound" => menu'.view = version' \/ Owing'
    BY <2>4, <1>1, <1>3
  <2> QED
    BY <2>1, <2>3, <2>5, <1>1 DEF MenusHold, NoMenu, Answer
<1> QED
  BY <1>4, <1>5

\* The menu's own steps leave the tree and the requests alone.
LEMMA MenuKeeps ==
  ASSUME Cataloguing, MenuGoes \/ \E v \in Visitors : BuildMenu(v) \/ PutMenu(v)
  PROVE  Cataloguing'
<1>1. UNCHANGED <<treeVars, goodsVars, task, version, crossed, edits>>
  BY DEF MenuGoes, BuildMenu, PutMenu
<1>2. ShapeHolds'
  BY <1>1 DEF Cataloguing, ShapeHolds, treeVars, goodsVars
<1>3. TasksHold'
  BY <1>1 DEF Cataloguing, TasksHold
<1>4. RowsHold' /\ DepthsHold'
  BY <1>1, TreeIsKept DEF Cataloguing, treeVars
<1>5. MenusHold'
  <2>1. CASE MenuGoes /\ Empties
    BY <2>1, <1>1, EmptyingKeeps DEF Cataloguing
  <2>2. CASE menu' = NoMenu /\ UNCHANGED reader
    <3>1. menu'.is # "sound"
      BY <2>2 DEF NoMenu, Answer
    <3>2. Owing => Owing'
      BY <1>1 DEF Owing
    <3> QED
      BY <3>1, <3>2, <2>2, <1>1 DEF Cataloguing, MenusHold, NoMenu, Answer
  <2>3. CASE \E v \in Visitors : BuildMenu(v) \/ PutMenu(v)
    BY <2>3, VisitorsKeepAnswers DEF Cataloguing
  <2> QED
    BY <2>1, <2>2, <2>3 DEF MenuGoes
<1> QED
  BY <1>2, <1>3, <1>4, <1>5 DEF Cataloguing

\* The catalogue begins as a tree.
LEMMA CataloguingInit ==
  ASSUME CatalogueInit
  PROVE  Cataloguing
<1>1. parent \in Parents /\ Acyclic(parent) /\ rows = Cats
  <2>1. PICK p \in Cats, q \in Cats \cup {NoCat} :
          parent = [c \in Cats |-> IF c = p THEN q ELSE NoCat]
    BY DEF CatalogueInit
  <2>2. parent \in Parents
    BY <2>1 DEF Parents
  <2> QED
    BY <2>2 DEF CatalogueInit
<1>2. depth \in [Cats -> Nat] /\ \A c \in Cats : depth[c] = DepthIn(parent, c)
  BY DepthsAreNumbers DEF CatalogueInit
<1>3. task = [e \in Editors |-> task[e]] /\ \A e \in Editors : task[e] = Idle
  BY DEF CatalogueInit
<1>4. ShapeHolds
  <2>1. shown \in BOOLEAN /\ crossed \in BOOLEAN
    BY Zenon DEF CatalogueInit
  <2>2. home \in rows /\ edits \in 0 .. MaxEdits
    BY CatalogueAssumption DEF CatalogueInit
  <2> QED
    BY <2>1, <2>2, <1>1, <1>2 DEF ShapeHolds, Parents
<1>5. TasksHold
  BY <1>3, IdleIs DEF TasksHold
<1>6. RowsHold
  BY <1>1, <1>3, IdleIs DEF RowsHold, Parents
<1>7. DepthsHold
  BY <1>1, <1>2, <1>3, IdleIs DEF DepthsHold
<1>8. MenusHold
  BY DEF CatalogueInit, MenusHold, NoMenu, Answer
<1> QED
  BY <1>4, <1>5, <1>6, <1>7, <1>8 DEF Cataloguing

\* No step of editors and visitors disturbs the tree and its menu.
LEMMA CataloguingNext ==
  ASSUME Cataloguing, [CatalogueNext]_catalogueVars
  PROVE  Cataloguing'
<1>1. CASE UNCHANGED catalogueVars
  <2>1. UNCHANGED <<rows, parent, depth, home, shown, menu, reader, task, version,
          crossed, edits>>
    BY <1>1 DEF catalogueVars, treeVars, goodsVars, cacheVars
  <2>2. ShapeHolds'
    BY <2>1 DEF Cataloguing, ShapeHolds
  <2>3. TasksHold'
    BY <2>1 DEF Cataloguing, TasksHold
  <2>4. RowsHold' /\ DepthsHold'
    BY <2>1, TreeIsKept DEF Cataloguing
  <2>5. Owing => Owing'
    BY <2>1 DEF Owing
  <2>6. MenusHold'
    BY <2>1, <2>5, AnswersAreKept DEF Cataloguing
  <2> QED
    BY <2>2, <2>3, <2>4, <2>6 DEF Cataloguing
<1>2. ASSUME NEW e \in Editors, NEW c \in Cats, NEW p \in Cats \cup {NoCat},
             \/ CheckCreate(e, c, p) \/ CheckMove(e, c, p)
             \/ \E g \in {NoCat, home, p} : CheckRemove(e, c, g, p)
      PROVE  Cataloguing'
  BY <1>2, ChecksKeep
<1>3. ASSUME NEW e \in Editors,
             MoveGoods(e) \/ NothingToSet(e) \/ SetParent(e) \/ Commit(e) \/ Delete(e)
      PROVE  Cataloguing'
  BY <1>3, MoveGoodsKeeps, NothingToSetKeeps, SetParentKeeps, CommitKeepsTheTree,
     DeleteKeeps
<1>4. ASSUME NEW e \in Editors, SetFails(e) \/ DeleteFails(e) PROVE Cataloguing'
  BY <1>4, FailuresKeep
<1>5. ASSUME NEW e \in Editors,
             \/ \E c \in Cats, s \in BOOLEAN : EditProduct(e, c, s)
             \/ Reorder(e)
      PROVE  Cataloguing'
  BY <1>5, EditsKeep
<1>6. ASSUME NEW e \in Editors, ReorderNext(e) \/ Clear(e) PROVE Cataloguing'
  BY <1>6, ReorderNextKeeps, ClearKeeps
<1>7. CASE MenuGoes \/ \E v \in Visitors : BuildMenu(v) \/ PutMenu(v)
  BY <1>7, MenuKeeps
<1>8. ASSUME NEW e \in Editors, NEW c \in Cats, Relabel(e, c) PROVE Cataloguing'
  BY <1>8, RelabelKeeps
<1> QED
  BY <1>1, <1>2, <1>3, <1>4, <1>5, <1>6, <1>7, <1>8 DEF CatalogueNext

\* The tree of categories stays a tree with the depths that the checks read, unless two
\* moves crossed; no category loses its parent or the one that a product is in; and
\* the menu in the cache is the one there is, unless a request has yet to clear it or
\* the answer says that it may be outdated (categories.ts, query-cache.ts).
THEOREM TreeStaysATree == CatalogueSpec => []CatalogueHolds
<1>1. CatalogueInit => Cataloguing
  BY CataloguingInit
<1>2. Cataloguing /\ [CatalogueNext]_catalogueVars => Cataloguing'
  BY CataloguingNext
<1>3. Cataloguing => CatalogueHolds
  <2> SUFFICES ASSUME Cataloguing PROVE CatalogueHolds
    OBVIOUS
  <2>1. CatalogueTypeOK
    BY DEF Cataloguing, ShapeHolds, MenusHold, CatalogueTypeOK
  <2>2. TreeIsSound
    BY DEF Cataloguing, RowsHold, DepthsHold, TreeIsSound
  <2>3. MenuIsCurrent
    BY DEF Cataloguing, MenusHold, Owing, MenuIsCurrent
  <2> QED
    BY <2>1, <2>2, <2>3 DEF CatalogueHolds
<1> QED
  BY <1>1, <1>2, <1>3, PTL DEF CatalogueSpec

-----------------------------------------------------------------------------
(* The months of a tax return.                                               *)

\* In a year the months of vat.ts follow each other without a gap.
LEMMA MonthsFollow ==
  ASSUME NEW leap \in BOOLEAN, NEW e \in Int
  PROVE  /\ \A m \in 1 .. 12 : DaysBefore(m) \in Nat /\ LastDay(m, leap) \in 29 .. 31
         /\ \A k, m \in 1 .. 12 : k < m => DaysBefore(k) + LastDay(k, leap) <= DaysBefore(m)
         /\ e \in 0 .. DaysBefore(12) + LastDay(12, leap) - 1 =>
              \E m \in 1 .. 12 : e \in DaysBefore(m) .. DaysBefore(m) + LastDay(m, leap) - 1
         /\ DaysBefore(1) = 0
<1> USE DEF DaysBefore, LastDay
<1>1. \A m \in 1 .. 12 : DaysBefore(m) \in Nat /\ LastDay(m, leap) \in 29 .. 31
  OBVIOUS
<1>2. \A k, m \in 1 .. 12 : k < m => DaysBefore(k) + LastDay(k, leap) <= DaysBefore(m)
  OBVIOUS
<1>3. ASSUME e \in 0 .. DaysBefore(12) + LastDay(12, leap) - 1
      PROVE  \E m \in 1 .. 12 : e \in DaysBefore(m) .. DaysBefore(m) + LastDay(m, leap) - 1
  <2>1. CASE e < 186
    <3> DEFINE m == e \div 31 + 1
    <3>1. m \in 1 .. 6 /\ 31 * (m - 1) <= e /\ e < 31 * m
      BY <1>3, <2>1
    <3> QED
      BY <1>3, <3>1
  <2>2. CASE e >= 186
    <3> DEFINE m == (e - 186) \div 30 + 7
    <3>1. m \in 7 .. 12 /\ 186 + 30 * (m - 7) <= e /\ e < 186 + 30 * (m - 6)
      BY <1>3, <2>2
    <3>2. m = 12 => e < 336 + LastDay(12, leap)
      BY <1>3
    <3> HIDE DEF m
    <3> QED
      BY <1>3, <3>1, <3>2
  <2> QED
    BY <1>3, <2>1, <2>2
<1>4. DaysBefore(1) = 0
  OBVIOUS
<1> QED
  BY <1>1, <1>2, <1>3, <1>4

\* The days of an interval, as the bounds of a period are computed.
LEMMA Between ==
  ASSUME NEW a \in Int, NEW b \in Int, NEW l \in Int, NEW d
  PROVE  d \in (a + b + 1 - 1) .. (a + b + l - 1) <=> d \in Int /\ a + b <= d /\ d < a + b + l
OBVIOUS

\* The months of a year whose period has a day.
MonthsWith(y, d) == {k \in 1 .. 12 : d \in PeriodOf(y, k)}

IsOneMonth(months) == \E m \in 1 .. 12 : months = {m}

\* So each day of a year is in the period of one of its months, and no other day is.
LEMMA OnePeriodADay ==
  ASSUME NEW y \in 1404 .. 1500, NEW d
  PROVE  IF d \in TaxYear(y) THEN IsOneMonth(MonthsWith(y, d)) ELSE MonthsWith(y, d) = {}
<1> DEFINE start == March21(y + 621) + (IF IsLeapGregorian(y + 621) THEN 1 ELSE 0)
           leap == IsLeapJalali(y)
           long(m) == LastDay(m, leap)
           end == DaysBefore(12) + long(12) - 1
<1>1. start \in Int
  BY DEF March21
<1>2. leap \in BOOLEAN
  BY DEF IsLeapJalali
<1>3. /\ \A m \in 1 .. 12 : DaysBefore(m) \in Nat /\ long(m) \in 29 .. 31
      /\ \A k, m \in 1 .. 12 : k < m => DaysBefore(k) + long(k) <= DaysBefore(m)
      /\ DaysBefore(1) = 0
  <2> HIDE DEF leap
  <2> QED
    BY <1>2, MonthsFollow, 0 \in Int
<1>4. ASSUME NEW e \in 0 .. end
      PROVE  \E m \in 1 .. 12 : e \in DaysBefore(m) .. DaysBefore(m) + long(m) - 1
  <2> HIDE DEF leap
  <2>1. e \in Int
    OBVIOUS
  <2> QED
    BY <1>2, <2>1, MonthsFollow
<1>5. ASSUME NEW m \in 1 .. 12
      PROVE  d \in PeriodOf(y, m) <=>
               d \in (start + DaysBefore(m) + 1 - 1) .. (start + DaysBefore(m) + long(m) - 1)
  BY DEF PeriodOf, JalaliToGregorian
<1>6. d \in TaxYear(y) <=>
        d \in (start + DaysBefore(1) + 1 - 1) .. (start + DaysBefore(12) + long(12) - 1)
  BY DEF TaxYear, JalaliToGregorian
<1> HIDE DEF start, long
<1>7. ASSUME NEW m \in 1 .. 12
      PROVE  d \in PeriodOf(y, m) <=>
               d \in Int /\ start + DaysBefore(m) <= d /\ d < start + DaysBefore(m) + long(m)
  <2>1. DaysBefore(m) \in Int /\ long(m) \in Int
    BY <1>3
  <2>2. \A b, l \in Int : d \in (start + b + 1 - 1) .. (start + b + l - 1) <=>
                          d \in Int /\ start + b <= d /\ d < start + b + l
    BY <1>1, Between
  <2> QED
    BY <1>5, <2>1, <2>2
<1>8. d \in TaxYear(y) <=> d \in Int /\ start <= d /\ d < start + DaysBefore(12) + long(12)
  BY <1>1, <1>3, <1>6
<1>9. ASSUME d \in TaxYear(y)
      PROVE  \E m \in 1 .. 12 : MonthsWith(y, d) = {m}
  <2>1. d - start \in 0 .. end
    BY <1>1, <1>3, <1>8, <1>9
  <2>2. PICK m \in 1 .. 12 : d - start \in DaysBefore(m) .. DaysBefore(m) + long(m) - 1
    BY <1>4, <2>1
  <2>3. d \in PeriodOf(y, m)
    BY <1>1, <1>3, <1>7, <1>8, <1>9, <2>2
  <2>4. ASSUME NEW k \in 1 .. 12, d \in PeriodOf(y, k) PROVE k = m
    <3>1. d < start + DaysBefore(k) + long(k) /\ start + DaysBefore(m) <= d
      BY <1>7, <2>3, <2>4
    <3>2. d < start + DaysBefore(m) + long(m) /\ start + DaysBefore(k) <= d /\ d \in Int
      BY <1>7, <2>3, <2>4
    <3>3. /\ DaysBefore(k) \in Int /\ long(k) \in Int /\ DaysBefore(m) \in Int /\ long(m) \in Int
          /\ k < m => DaysBefore(k) + long(k) <= DaysBefore(m)
          /\ m < k => DaysBefore(m) + long(m) <= DaysBefore(k)
      BY <1>3
    <3> QED
      BY <1>1, <3>1, <3>2, <3>3
  <2> QED
    BY <2>3, <2>4 DEF MonthsWith
<1>10. ASSUME NEW k \in 1 .. 12, d \in PeriodOf(y, k) PROVE d \in TaxYear(y)
  <2>1. d \in Int /\ start + DaysBefore(k) <= d /\ d < start + DaysBefore(k) + long(k)
    BY <1>7, <1>10
  <2>2. /\ DaysBefore(k) \in Nat /\ long(k) \in Int /\ DaysBefore(12) \in Int /\ long(12) \in Int
        /\ DaysBefore(k) + long(k) <= DaysBefore(12) + long(12)
    BY <1>3
  <2>3. start <= d /\ d < start + DaysBefore(12) + long(12)
    BY <1>1, <2>1, <2>2
  <2> QED
    BY <1>8, <2>1, <2>3
<1> QED
  BY <1>9, <1>10 DEF MonthsWith, IsOneMonth

\* In every year, leap year or not, each sale that is paid between the first and the last
\* day that vat.ts takes for those of the year is counted by the return of one month, and
\* each refund (toJalaliStart and toJalaliEnd); that these are the months of the calendar
\* is refuted by a run.
THEOREM EachYearCountsOnce == VatSpec => []CountedOnceAYear
<1>1. ASSUME NEW y \in Years, NEW s \in VatSales
      PROVE  LET sold == {m \in 1 .. 12 : s \in CountedSales(y, m)}
                 back == {m \in 1 .. 12 : s \in CountedReturns(y, m)}
             IN /\ IF sale[s].status = "paid" /\ sale[s].paidOn \in TaxYear(y)
                     THEN \E m \in 1 .. 12 : sold = {m} ELSE sold = {}
                /\ IF sale[s].refundedOn \in TaxYear(y)
                     THEN \E m \in 1 .. 12 : back = {m} ELSE back = {}
  <2> DEFINE sold == {m \in 1 .. 12 : s \in CountedSales(y, m)}
             back == {m \in 1 .. 12 : s \in CountedReturns(y, m)}
  <2>1. sold = IF sale[s].status = "paid" THEN MonthsWith(y, sale[s].paidOn) ELSE {}
    BY DEF CountedSales, MonthsWith
  <2>2. back = MonthsWith(y, sale[s].refundedOn)
    BY DEF CountedReturns, MonthsWith
  <2>3. y \in 1404 .. 1500
    BY VatAssumption
  <2>4. ASSUME NEW d, d \in TaxYear(y) PROVE IsOneMonth(MonthsWith(y, d))
    BY <2>3, <2>4, OnePeriodADay
  <2>5. ASSUME NEW d, d \notin TaxYear(y) PROVE MonthsWith(y, d) = {}
    BY <2>3, <2>5, OnePeriodADay
  <2> HIDE DEF sold, back
  <2>6. IF sale[s].status = "paid" /\ sale[s].paidOn \in TaxYear(y)
          THEN IsOneMonth(sold) ELSE sold = {}
    <3>1. CASE sale[s].status = "paid"
      <4>1. sold = MonthsWith(y, sale[s].paidOn)
        BY <2>1, <3>1
      <4> QED
        BY <2>4, <2>5, <3>1, <4>1
    <3>2. CASE sale[s].status # "paid"
      BY <2>1, <3>2
    <3> QED
      BY <3>1, <3>2
  <2>7. IF sale[s].refundedOn \in TaxYear(y)
          THEN IsOneMonth(back) ELSE back = {}
    BY <2>2, <2>4, <2>5
  <2> QED
    BY <2>6, <2>7 DEF sold, back, IsOneMonth
<1>2. CountedOnceAYear
  BY <1>1 DEF CountedOnceAYear
<1> QED
  BY <1>2, PTL

=============================================================================
