-------------------------------- MODULE Sums --------------------------------
(***************************************************************************)
(* Sums over finite sets, as SumFunctionOnSet of Functions forms them.     *)
(*                                                                         *)
(* That fold is a function on the subsets that picks one element after the *)
(* other.  The theorems below are proved by the well-foundedness of proper *)
(* inclusion: a family of subsets that fails somewhere fails at a smallest *)
(* one.  So no induction theorem with an operator as parameter is needed.  *)
(* The same is done for the maxima, the folds over sequences, the prefixes *)
(* and the loops that the models use.                                      *)
(***************************************************************************)
EXTENDS Integers, FiniteSetsExt, Functions, FiniteSetTheorems, WellFoundedInduction, TLAPS

\* A family of subsets of a finite set that is not empty has a smallest member.
LEMMA MinimalSubset ==
    ASSUME NEW S, IsFiniteSet(S), NEW Bad \in SUBSET SUBSET S, Bad # {}
    PROVE  \E T \in Bad : \A U \in Bad : ~ (U \subseteq T /\ U # T)
<1>1. IsWellFoundedOn(StrictSubsetOrdering(S), SUBSET S)
    BY FS_StrictSubsetOrderingWellFounded, FS_FiniteSubsetsOfFinite
<1>3. PICK T \in Bad : \A U \in Bad : ~ (<<U, T>> \in StrictSubsetOrdering(S))
    BY <1>1, WFMin
<1>4. \A U \in Bad : ~ (U \subseteq T /\ U # T)
    BY <1>3 DEF StrictSubsetOrdering
<1>q. QED
    BY <1>4

\* Induction over finite sets, in a form that mentions no operator: a family of
\* subsets of a finite set that is closed under one more element has them all.
LEMMA FiniteSubsetInduction ==
    ASSUME NEW S, IsFiniteSet(S), NEW F,
           {} \in F,
           \A T \in SUBSET S : \A x \in S \ T : T \in F => T \cup {x} \in F
    PROVE  S \in F
<1> DEFINE Bad == {T \in SUBSET S : T \notin F}
<1>1. SUFFICES ASSUME Bad # {} PROVE FALSE
    OBVIOUS
<1>2. Bad \in SUBSET SUBSET S
    OBVIOUS
<1>3. PICK T \in Bad : \A U \in Bad : ~ (U \subseteq T /\ U # T)
    <2> HIDE DEF Bad
    <2>q. QED
        BY <1>1, <1>2, MinimalSubset
<1>5. PICK x \in T : TRUE
    OBVIOUS
<1>6. T \ {x} \in F /\ T \ {x} \in SUBSET S /\ x \in S \ (T \ {x})
    BY <1>3
<1>7. (T \ {x}) \cup {x} = T
    BY <1>5
<1>q. QED
    BY <1>6, <1>7

-----------------------------------------------------------------------------
\* The recursive function that sums are defined by, for the subsets of S.
Chosen(s) == CHOOSE x \in s : TRUE
Partial(f, S, g) ==
    g = [s \in SUBSET S |-> IF s = {} THEN 0 ELSE f[Chosen(s)] + g[s \ {Chosen(s)}]]
PartialSum(f, S) == CHOOSE g : Partial(f, S, g)

\* The library's sum over a set is the last of its partial sums.
LEMMA SumByPartial ==
    ASSUME NEW f, NEW S
    PROVE  SumFunctionOnSet(f, S) = PartialSum(f, S)[S]
BY DEF SumFunctionOnSet, FoldFunctionOnSet, MapThenFoldSet, PartialSum, Partial, Chosen

\* The element that is summed next is one of the set.
LEMMA ChosenIn == \A s : s # {} => Chosen(s) \in s
BY DEF Chosen

\* What a table of partial sums has for a subset.
LEMMA PartialAt ==
    ASSUME NEW f, NEW S, NEW g, Partial(f, S, g), NEW s \in SUBSET S
    PROVE  g[s] = IF s = {} THEN 0 ELSE f[Chosen(s)] + g[s \ {Chosen(s)}]
BY DEF Partial

\* A table of partial sums, cut down to a smaller set, is one for that set.
LEMMA PartialRestricted ==
    ASSUME NEW f, NEW S, NEW g, Partial(f, S, g), NEW T \in SUBSET S
    PROVE  Partial(f, T, [s \in SUBSET T |-> g[s]])
<1> DEFINE h == [s \in SUBSET T |-> g[s]]
<1>1. \A s \in SUBSET T : h[s] = IF s = {} THEN 0 ELSE f[Chosen(s)] + h[s \ {Chosen(s)}]
    BY PartialAt
<1>q. QED
    BY <1>1 DEF Partial

\* There is one table of partial sums.
LEMMA PartialUnique ==
    ASSUME NEW f, NEW S, IsFiniteSet(S), NEW g, NEW h, Partial(f, S, g), Partial(f, S, h)
    PROVE  g = h
<1> DEFINE F == {s \in SUBSET S : g[s] # h[s]}
<1>1. F = {}
    <2> SUFFICES ASSUME F # {} PROVE FALSE
        OBVIOUS
    <2>0. F \in SUBSET SUBSET S
        OBVIOUS
    <2>1. PICK T \in F : \A U \in F : ~ (U \subseteq T /\ U # T)
        <3> HIDE DEF F
        <3>q. QED
            BY <2>0, MinimalSubset
    <2>2. T # {}
        BY PartialAt
    <2>3. g[T \ {Chosen(T)}] = h[T \ {Chosen(T)}]
        BY <2>1, <2>2, ChosenIn
    <2>q. QED
        BY <2>2, <2>3, PartialAt
<1>2. \A s \in SUBSET S : g[s] = h[s]
    BY <1>1
<1>q. QED
    BY <1>2 DEF Partial

\* There is a table of partial sums: otherwise a smallest subset would have none.
LEMMA PartialExists ==
    ASSUME NEW f, NEW S, IsFiniteSet(S)
    PROVE  Partial(f, S, PartialSum(f, S))
<1> DEFINE G(s) == PartialSum(f, s)
           Bad == {T \in SUBSET S : ~ Partial(f, T, G(T))}
<1>0. \A T, g : Partial(f, T, g) => Partial(f, T, G(T))
    BY DEF PartialSum
<1> SUFFICES ASSUME Bad # {} PROVE FALSE
    OBVIOUS
<1>1. PICK T \in Bad : \A U \in Bad : ~ (U \subseteq T /\ U # T)
    <2>0. Bad \in SUBSET SUBSET S
        OBVIOUS
    <2> HIDE DEF Bad
    <2>q. QED
        BY <2>0, MinimalSubset
<1>2. \A U \in SUBSET T : U # T => Partial(f, U, G(U)) /\ IsFiniteSet(U)
    BY <1>1, FS_Subset
<1>3. ASSUME NEW U \in SUBSET T, U # T, NEW V \in SUBSET U
      PROVE  G(U)[V] = G(V)[V]
    <2>0. V # T
        BY <1>3
    <2>1. Partial(f, V, [s \in SUBSET V |-> G(U)[s]])
        BY <1>2, <1>3, PartialRestricted
    <2>2. [s \in SUBSET V |-> G(U)[s]] = G(V)
        BY <1>2, <2>0, <2>1, PartialUnique
    <2>q. QED
        BY <2>2
<1> DEFINE h == [s \in SUBSET T |->
                  IF s = {} THEN 0 ELSE f[Chosen(s)] + G(s \ {Chosen(s)})[s \ {Chosen(s)}]]
<1>4. ASSUME NEW s \in SUBSET T, s # T PROVE h[s] = G(s)[s]
    <2>1. CASE s = {}
        BY <1>2, <1>4, <2>1, PartialAt
    <2>2. CASE s # {}
        <3>1. G(s)[s] = f[Chosen(s)] + G(s)[s \ {Chosen(s)}]
            BY <1>2, <1>4, <2>2, PartialAt
        <3>2. G(s)[s \ {Chosen(s)}] = G(s \ {Chosen(s)})[s \ {Chosen(s)}]
            BY <1>3, <1>4
        <3>q. QED
            BY <3>1, <3>2, <2>2
    <2>q. QED
        BY <2>1, <2>2
<1>5. \A s \in SUBSET T : h[s] = IF s = {} THEN 0 ELSE f[Chosen(s)] + h[s \ {Chosen(s)}]
    <2>1. ASSUME NEW s \in SUBSET T, s # {}
          PROVE  h[s] = f[Chosen(s)] + h[s \ {Chosen(s)}]
        <3>1. s \ {Chosen(s)} \in SUBSET T /\ s \ {Chosen(s)} # T
            BY <2>1, ChosenIn
        <3>2. h[s \ {Chosen(s)}] = G(s \ {Chosen(s)})[s \ {Chosen(s)}]
            BY <3>1, <1>4
        <3> HIDE DEF G
        <3>q. QED
            BY <3>2, <2>1
    <2>2. h[{}] = 0
        OBVIOUS
    <2>q. QED
        BY <2>1, <2>2
<1>6. Partial(f, T, h)
    <2> HIDE DEF G
    <2>1. h = [s \in SUBSET T |-> h[s]]
        OBVIOUS
    <2> HIDE DEF h
    <2>q. QED
        BY <1>5, <2>1 DEF Partial
<1>q. QED
    BY <1>0, <1>6

-----------------------------------------------------------------------------
\* What a sum is: nothing for no element, and one element first, then the rest.
LEMMA SumEmpty == \A f : SumFunctionOnSet(f, {}) = 0
<1> TAKE f
<1>1. Partial(f, {}, PartialSum(f, {}))
    BY PartialExists, FS_EmptySet
<1>q. QED
    BY <1>1, PartialAt, SumByPartial

\* The sum over a set, by one element that is taken out of it.
LEMMA SumChosen ==
    ASSUME NEW f, NEW S, IsFiniteSet(S), S # {}
    PROVE  SumFunctionOnSet(f, S) = f[Chosen(S)] + SumFunctionOnSet(f, S \ {Chosen(S)})
<1> DEFINE T == S \ {Chosen(S)}
           g == PartialSum(f, S)
<1>1. Partial(f, S, g)
    BY PartialExists
<1>2. IsFiniteSet(T) /\ T \in SUBSET S
    BY FS_Subset
<1>3. g[S] = f[Chosen(S)] + g[T]
    BY <1>1, PartialAt
<1>4. g[T] = PartialSum(f, T)[T]
    <2>1. Partial(f, T, [s \in SUBSET T |-> g[s]])
        BY <1>1, <1>2, PartialRestricted
    <2>2. Partial(f, T, PartialSum(f, T))
        BY <1>2, PartialExists
    <2>3. [s \in SUBSET T |-> g[s]] = PartialSum(f, T)
        BY <1>2, <2>1, <2>2, PartialUnique
    <2> HIDE DEF T, g
    <2>q. QED
        BY <2>3
<1>q. QED
    BY <1>3, <1>4, SumByPartial

\* A sum of integers is one; a sum of naturals is one.
LEMMA SumInt ==
    ASSUME NEW f, NEW S, IsFiniteSet(S), \A x \in S : f[x] \in Int
    PROVE  SumFunctionOnSet(f, S) \in Int
<1> DEFINE Bad == {T \in SUBSET S : SumFunctionOnSet(f, T) \notin Int}
<1> SUFFICES ASSUME Bad # {} PROVE FALSE
    OBVIOUS
<1>1. PICK T \in Bad : \A U \in Bad : ~ (U \subseteq T /\ U # T)
    <2>0. Bad \in SUBSET SUBSET S
        OBVIOUS
    <2> HIDE DEF Bad
    <2>q. QED
        BY <2>0, MinimalSubset
<1>2. T # {}
    BY SumEmpty
<1>3. Chosen(T) \in T /\ SumFunctionOnSet(f, T \ {Chosen(T)}) \in Int
    BY <1>1, <1>2, ChosenIn
<1>4. IsFiniteSet(T)
    BY FS_Subset
<1>5. SumFunctionOnSet(f, T) = f[Chosen(T)] + SumFunctionOnSet(f, T \ {Chosen(T)})
    BY <1>2, <1>4, SumChosen
<1>q. QED
    BY <1>3, <1>5

\* A sum of naturals is one.
LEMMA SumNat ==
    ASSUME NEW f, NEW S, IsFiniteSet(S), \A x \in S : f[x] \in Nat
    PROVE  SumFunctionOnSet(f, S) \in Nat
<1> DEFINE Bad == {T \in SUBSET S : SumFunctionOnSet(f, T) \notin Nat}
<1> SUFFICES ASSUME Bad # {} PROVE FALSE
    OBVIOUS
<1>1. PICK T \in Bad : \A U \in Bad : ~ (U \subseteq T /\ U # T)
    <2>0. Bad \in SUBSET SUBSET S
        OBVIOUS
    <2> HIDE DEF Bad
    <2>q. QED
        BY <2>0, MinimalSubset
<1>2. T # {}
    BY SumEmpty
<1>3. Chosen(T) \in T /\ SumFunctionOnSet(f, T \ {Chosen(T)}) \in Nat
    BY <1>1, <1>2, ChosenIn
<1>4. IsFiniteSet(T)
    BY FS_Subset
<1>5. SumFunctionOnSet(f, T) = f[Chosen(T)] + SumFunctionOnSet(f, T \ {Chosen(T)})
    BY <1>2, <1>4, SumChosen
<1>q. QED
    BY <1>3, <1>5

\* Any element may be taken out first, not only the one the recursion picks.
LEMMA SumRemove ==
    ASSUME NEW f, NEW S, IsFiniteSet(S), \A x \in S : f[x] \in Int, NEW x \in S
    PROVE  SumFunctionOnSet(f, S) = f[x] + SumFunctionOnSet(f, S \ {x})
<1> DEFINE Sum(T) == SumFunctionOnSet(f, T)
           Bad == {T \in SUBSET S : \E y \in T : Sum(T) # f[y] + Sum(T \ {y})}
<1>1. SUFFICES ASSUME Bad # {} PROVE FALSE
    OBVIOUS
<1>2. PICK T \in Bad : \A U \in Bad : ~ (U \subseteq T /\ U # T)
    <2>0. Bad \in SUBSET SUBSET S
        OBVIOUS
    <2> HIDE DEF Bad
    <2>q. QED
        BY <1>1, <2>0, MinimalSubset
<1>3. PICK y \in T : Sum(T) # f[y] + Sum(T \ {y})
    OBVIOUS
<1> DEFINE p == Chosen(T)
<1>4. p \in T /\ y \in T /\ T \in SUBSET S
    BY ChosenIn
<1>5. IsFiniteSet(T) /\ IsFiniteSet(T \ {p}) /\ IsFiniteSet((T \ {p}) \ {y})
    BY FS_Subset
<1>6. Sum(T) = f[p] + Sum(T \ {p})
    BY <1>4, <1>5, SumChosen
<1>7. y # p
    BY <1>3, <1>6
<1>8. /\ Sum(T \ {p}) = f[y] + Sum((T \ {p}) \ {y})
      /\ Sum(T \ {y}) = f[p] + Sum((T \ {y}) \ {p})
    <2>1. T \ {p} \notin Bad /\ T \ {y} \notin Bad
        <3> HIDE DEF Bad
        <3>q. QED
            BY <1>2, <1>4
    <2>2. y \in T \ {p} /\ p \in T \ {y} /\ T \ {p} \in SUBSET S /\ T \ {y} \in SUBSET S
        BY <1>4, <1>7
    <2> HIDE DEF p, Sum
    <2>q. QED
        BY <2>1, <2>2
<1>9. (T \ {p}) \ {y} = (T \ {y}) \ {p}
    OBVIOUS
<1>10. f[p] \in Int /\ f[y] \in Int /\ Sum((T \ {p}) \ {y}) \in Int
    BY <1>4, <1>5, SumInt
<1>11. \A a \in Int, b \in Int, c \in Int : a + (b + c) = b + (a + c)
    OBVIOUS
<1>12. f[p] + (f[y] + Sum((T \ {p}) \ {y})) = f[y] + (f[p] + Sum((T \ {p}) \ {y}))
    BY <1>10, <1>11
<1>13. Sum(T) = f[p] + (f[y] + Sum((T \ {p}) \ {y}))
    BY <1>6, <1>8
<1>14. f[y] + Sum(T \ {y}) = f[y] + (f[p] + Sum((T \ {p}) \ {y}))
    BY <1>8, <1>9
<1>q. QED
    BY <1>3, <1>12, <1>13, <1>14

\* The sum over one element more.
LEMMA SumInsert ==
    ASSUME NEW f, NEW S, IsFiniteSet(S), NEW x, x \notin S,
           \A y \in S \cup {x} : f[y] \in Int
    PROVE  SumFunctionOnSet(f, S \cup {x}) = SumFunctionOnSet(f, S) + f[x]
<1>1. IsFiniteSet(S \cup {x})
    BY FS_AddElement
<1>2. (S \cup {x}) \ {x} = S
    OBVIOUS
<1>3. SumFunctionOnSet(f, S \cup {x}) = f[x] + SumFunctionOnSet(f, S)
    BY <1>1, <1>2, SumRemove
<1>4. SumFunctionOnSet(f, S) \in Int /\ f[x] \in Int
    BY SumInt
<1>q. QED
    BY <1>3, <1>4

\* Only the values on the set count.
LEMMA SumAgree ==
    ASSUME NEW f, NEW g, NEW S, IsFiniteSet(S), \A x \in S : f[x] = g[x]
    PROVE  SumFunctionOnSet(f, S) = SumFunctionOnSet(g, S)
<1> DEFINE Bad == {T \in SUBSET S : SumFunctionOnSet(f, T) # SumFunctionOnSet(g, T)}
<1> SUFFICES ASSUME Bad # {} PROVE FALSE
    OBVIOUS
<1>1. PICK T \in Bad : \A U \in Bad : ~ (U \subseteq T /\ U # T)
    <2>0. Bad \in SUBSET SUBSET S
        OBVIOUS
    <2> HIDE DEF Bad
    <2>q. QED
        BY <2>0, MinimalSubset
<1>2. T # {}
    BY SumEmpty
<1>3. /\ Chosen(T) \in T
      /\ SumFunctionOnSet(f, T \ {Chosen(T)}) = SumFunctionOnSet(g, T \ {Chosen(T)})
    BY <1>1, <1>2, ChosenIn
<1>4. IsFiniteSet(T)
    BY FS_Subset
<1>5. \A h : SumFunctionOnSet(h, T) = h[Chosen(T)] + SumFunctionOnSet(h, T \ {Chosen(T)})
    BY <1>2, <1>4, SumChosen
<1>q. QED
    BY <1>3, <1>5

\* A part of a set of naturals sums to no more than the whole.
LEMMA SumSubset ==
    ASSUME NEW f, NEW S, IsFiniteSet(S), \A x \in S : f[x] \in Nat, NEW R \in SUBSET S
    PROVE  SumFunctionOnSet(f, R) <= SumFunctionOnSet(f, S)
<1> DEFINE Sum(T) == SumFunctionOnSet(f, T)
           Q == S \ R
           F == {T \in SUBSET Q : Sum(R) <= Sum(R \cup T)}
<1>0. IsFiniteSet(Q) /\ IsFiniteSet(R)
    BY FS_Subset
<1>1. {} \in F
    <2>1. Sum(R) \in Nat /\ R \cup {} = R
        BY <1>0, SumNat
    <2> HIDE DEF Sum
    <2>q. QED
        BY <2>1
<1>2. ASSUME NEW T \in SUBSET Q, NEW x \in Q \ T, T \in F PROVE T \cup {x} \in F
    <2>1. IsFiniteSet(R \cup T) /\ x \notin R \cup T /\ f[x] \in Nat
        BY FS_Subset
    <2>2. Sum((R \cup T) \cup {x}) = Sum(R \cup T) + f[x]
        BY <2>1, SumInsert
    <2>3. Sum(R) \in Nat /\ Sum(R \cup T) \in Nat
        BY <1>0, <2>1, SumNat
    <2>4. (R \cup T) \cup {x} = R \cup (T \cup {x})
        OBVIOUS
    <2>5. Sum(R) <= Sum(R \cup T)
        BY <1>2
    <2>6. Sum(R \cup (T \cup {x})) = Sum(R \cup T) + f[x]
        BY <2>2, <2>4
    <2>7. \A a \in Nat, b \in Nat, c \in Nat : a <= b => a <= b + c
        OBVIOUS
    <2>8. Sum(R) <= Sum(R \cup T) + f[x]
        BY <2>1, <2>3, <2>5, <2>7
    <2>q. QED
        BY <2>6, <2>8
<1>3. Q \in F
    <2> HIDE DEF F, Q
    <2>q. QED
        BY <1>0, <1>1, <1>2, FiniteSubsetInduction
<1>4. R \cup Q = S
    OBVIOUS
<1>q. QED
    BY <1>3, <1>4

\* A sum before and after one element, whose value may be forgotten, has left.
LEMMA SumLeaves ==
    ASSUME NEW f, NEW g, NEW S, IsFiniteSet(S), \A y \in S : f[y] \in Int,
           NEW x \in S, \A y \in S \ {x} : g[y] = f[y]
    PROVE  /\ SumFunctionOnSet(f, S) = f[x] + SumFunctionOnSet(g, S \ {x})
           /\ SumFunctionOnSet(g, S \ {x}) \in Int
<1>1. SumFunctionOnSet(f, S) = f[x] + SumFunctionOnSet(f, S \ {x})
    BY SumRemove
<1>2. IsFiniteSet(S \ {x})
    BY FS_Subset
<1>3. SumFunctionOnSet(g, S \ {x}) = SumFunctionOnSet(f, S \ {x})
    BY <1>2, SumAgree
<1>4. SumFunctionOnSet(f, S \ {x}) \in Int
    BY <1>2, SumInt
<1>q. QED
    BY <1>1, <1>3, <1>4

\* The sum over one element.
LEMMA SumSingle ==
    ASSUME NEW f, NEW x, f[x] \in Int PROVE SumFunctionOnSet(f, {x}) = f[x]
<1>1. IsFiniteSet({x}) /\ \A y \in {x} : f[y] \in Int
    BY FS_Singleton
<1>2. SumFunctionOnSet(f, {x}) = f[x] + SumFunctionOnSet(f, {x} \ {x})
    BY <1>1, SumRemove
<1>3. {x} \ {x} = {}
    OBVIOUS
<1>q. QED
    BY <1>2, <1>3, SumEmpty

\* A set and its complement have the whole between them.
LEMMA SumSplit ==
    ASSUME NEW f, NEW S, IsFiniteSet(S), \A x \in S : f[x] \in Int, NEW R \in SUBSET S
    PROVE  /\ SumFunctionOnSet(f, S) = SumFunctionOnSet(f, R) + SumFunctionOnSet(f, S \ R)
           /\ SumFunctionOnSet(f, R) \in Int /\ SumFunctionOnSet(f, S \ R) \in Int
<1> DEFINE Sum(T) == SumFunctionOnSet(f, T)
           Q == S \ R
           F == {T \in SUBSET Q : Sum(R \cup T) = Sum(R) + Sum(T)}
<1>0. IsFiniteSet(Q) /\ IsFiniteSet(R)
    BY FS_Subset
<1>1. {} \in F
    <2>1. Sum(R) \in Int /\ R \cup {} = R /\ Sum({}) = 0
        BY <1>0, SumInt, SumEmpty
    <2>q. QED
        BY <2>1
<1>2. ASSUME NEW T \in SUBSET Q, NEW x \in Q \ T, T \in F PROVE T \cup {x} \in F
    <2>1. /\ IsFiniteSet(R \cup T) /\ x \notin R \cup T /\ f[x] \in Int
          /\ IsFiniteSet(T) /\ x \notin T
        BY FS_Subset
    <2>2. Sum((R \cup T) \cup {x}) = Sum(R \cup T) + f[x]
        BY <2>1, SumInsert
    <2>3. Sum(T \cup {x}) = Sum(T) + f[x]
        BY <2>1, SumInsert
    <2>4. Sum(R) \in Int /\ Sum(T) \in Int
        BY <1>0, <2>1, SumInt
    <2>5. (R \cup T) \cup {x} = R \cup (T \cup {x})
        OBVIOUS
    <2>6. Sum(R \cup T) = Sum(R) + Sum(T)
        BY <1>2
    <2>7. \A a \in Int, b \in Int, c \in Int : (a + b) + c = a + (b + c)
        OBVIOUS
    <2>8. (Sum(R) + Sum(T)) + f[x] = Sum(R) + (Sum(T) + f[x])
        BY <2>1, <2>4, <2>7
    <2>q. QED
        BY <2>2, <2>3, <2>5, <2>6, <2>8
<1>3. Q \in F
    <2> HIDE DEF F, Q
    <2>q. QED
        BY <1>0, <1>1, <1>2, FiniteSubsetInduction
<1>4. R \cup Q = S
    OBVIOUS
<1>5. Sum(R) \in Int /\ Sum(Q) \in Int
    BY <1>0, SumInt
<1>q. QED
    BY <1>3, <1>4, <1>5

\* Summands below a bound: the sum is below so many times the bound.
LEMMA SumBound ==
    ASSUME NEW f, NEW S, IsFiniteSet(S), NEW c \in Int, \A x \in S : f[x] \in Int /\ f[x] <= c
    PROVE  SumFunctionOnSet(f, S) <= c * Cardinality(S)
<1> DEFINE Sum(T) == SumFunctionOnSet(f, T)
           F == {T \in SUBSET S : Sum(T) <= c * Cardinality(T)}
<1>1. {} \in F
    <2>1. Sum({}) = 0 /\ Cardinality({}) = 0 /\ c * 0 = 0
        BY SumEmpty, FS_EmptySet
    <2>q. QED
        BY <2>1
<1>2. ASSUME NEW T \in SUBSET S, NEW x \in S \ T, T \in F PROVE T \cup {x} \in F
    <2>1. /\ IsFiniteSet(T) /\ Cardinality(T) \in Nat
          /\ Cardinality(T \cup {x}) = Cardinality(T) + 1
        BY FS_Subset, FS_CardinalityType, FS_AddElement
    <2>2. Sum(T \cup {x}) = Sum(T) + f[x] /\ Sum(T) \in Int
        BY <2>1, SumInsert, SumInt
    <2>3. Sum(T) <= c * Cardinality(T) /\ f[x] \in Int /\ f[x] <= c
        BY <1>2
    <2>4. \A n \in Nat : c * (n + 1) = c * n + c /\ c * n \in Int
        OBVIOUS
    <2> HIDE DEF Sum
    <2>5. Sum(T \cup {x}) <= c * Cardinality(T \cup {x})
        BY <2>1, <2>2, <2>3, <2>4
    <2>q. QED
        BY <2>5
<1>3. S \in F
    <2> HIDE DEF F
    <2>q. QED
        BY <1>1, <1>2, FiniteSubsetInduction
<1>q. QED
    BY <1>3

\* One summand changes.
LEMMA SumChange ==
    ASSUME NEW f, NEW g, NEW S, IsFiniteSet(S), \A y \in S : f[y] \in Int /\ g[y] \in Int,
           NEW x \in S, \A y \in S \ {x} : g[y] = f[y]
    PROVE  SumFunctionOnSet(g, S) = SumFunctionOnSet(f, S) + g[x] - f[x]
<1>1. IsFiniteSet(S \ {x})
    BY FS_Subset
<1>2. SumFunctionOnSet(f, S) = f[x] + SumFunctionOnSet(f, S \ {x})
    BY SumRemove
<1>3. SumFunctionOnSet(g, S) = g[x] + SumFunctionOnSet(g, S \ {x})
    BY SumRemove
<1>4. SumFunctionOnSet(g, S \ {x}) = SumFunctionOnSet(f, S \ {x})
    BY <1>1, SumAgree
<1>5. SumFunctionOnSet(f, S \ {x}) \in Int
    BY <1>1, SumInt
<1>q. QED
    BY <1>2, <1>3, <1>4, <1>5

\* A sum of zeros.
LEMMA SumZero ==
    ASSUME NEW f, NEW S, IsFiniteSet(S), \A x \in S : f[x] = 0
    PROVE  SumFunctionOnSet(f, S) = 0
<1>1. SumFunctionOnSet(f, S) \in Nat
    BY SumNat
<1>2. SumFunctionOnSet(f, S) <= 0 * Cardinality(S)
    BY SumBound
<1>3. Cardinality(S) \in Nat
    BY FS_CardinalityType
<1>q. QED
    BY <1>1, <1>2, <1>3

-----------------------------------------------------------------------------
(* Least and greatest elements. *)

\* The greatest element of a finite set of integers.
LEMMA MaxOf ==
    ASSUME NEW S \in SUBSET Int, IsFiniteSet(S), S # {}
    PROVE  Max(S) \in S /\ \A y \in S : y <= Max(S)
  <1> DEFINE F == {T \in SUBSET S : T # {} => \E m \in T : \A y \in T : m >= y}
  <1>1. {} \in F
    OBVIOUS
  <1>2. ASSUME NEW T \in SUBSET S, NEW x \in S \ T, T \in F PROVE T \cup {x} \in F
    <2>1. CASE T = {}
      <3>1. T \cup {x} \in SUBSET S /\ x \in T \cup {x}
        OBVIOUS
      <3>2. \A y \in T \cup {x} : x >= y
        BY <2>1
      <3> QED
        BY <3>1, <3>2
    <2>2. CASE T # {}
      <3>1. PICK m \in T : \A y \in T : m >= y
        BY <2>2, <1>2
      <3>2. m \in Int /\ x \in Int /\ \A y \in T : y \in Int
        OBVIOUS
      <3>3. CASE m >= x
        BY <3>1, <3>2, <3>3
      <3>4. CASE x >= m
        <4>1. \A y \in T \cup {x} : x >= y
          BY <3>1, <3>2, <3>4
        <4> QED
          BY <4>1
      <3> QED
        BY <3>2, <3>3, <3>4
    <2> QED
      BY <2>1, <2>2
  <1>3. S \in F
    <2> HIDE DEF F
    <2> QED
      BY <1>1, <1>2, FiniteSubsetInduction
  <1>4. \E m \in S : \A y \in S : m >= y
    BY <1>3
  <1>5. Max(S) \in S /\ \A y \in S : Max(S) >= y
    BY <1>4 DEF Max
  <1> QED
    BY <1>5

\* The least element of a set that has one.
LEMMA MinIs ==
    ASSUME NEW S \in SUBSET Int, NEW m \in S, \A y \in S : m <= y
    PROVE  Min(S) = m
<1>1. \E x \in S : \A y \in S : x <= y
    OBVIOUS
<1>2. Min(S) \in S /\ \A y \in S : Min(S) <= y
    BY <1>1 DEF Min
<1>3. Min(S) \in Int /\ m \in Int /\ Min(S) <= m /\ m <= Min(S)
    BY <1>2
<1>q. QED
    BY <1>3

-----------------------------------------------------------------------------
(* Folds over sequences: FoldLeft is a function on the sets of positions, which takes  *)
(* the last position away.  As with sums, there is one such function.                  *)

Folding(f, base, S, g) ==
    g = [s \in SUBSET S |-> IF s = {} THEN base ELSE f[<<g[s \ {Max(s)}], Max(s)>>]]
Folded(f, base, S) == CHOOSE g : Folding(f, base, S, g)

\* What such a function has for a set.
LEMMA FoldAt ==
    ASSUME NEW f, NEW base, NEW S, NEW g, Folding(f, base, S, g), NEW s \in SUBSET S
    PROVE  g[s] = IF s = {} THEN base ELSE f[<<g[s \ {Max(s)}], Max(s)>>]
BY DEF Folding

\* Cut down to a smaller set, it is the one of that set.
LEMMA FoldRestricted ==
    ASSUME NEW f, NEW base, NEW S, NEW g, Folding(f, base, S, g), NEW T \in SUBSET S
    PROVE  Folding(f, base, T, [s \in SUBSET T |-> g[s]])
<1> DEFINE h == [s \in SUBSET T |-> g[s]]
<1>1. ASSUME NEW s \in SUBSET T
      PROVE  h[s] = IF s = {} THEN base ELSE f[<<h[s \ {Max(s)}], Max(s)>>]
    <2>1. g[s] = IF s = {} THEN base ELSE f[<<g[s \ {Max(s)}], Max(s)>>]
        BY FoldAt
    <2>2. s \ {Max(s)} \in SUBSET T
        OBVIOUS
    <2>3. h[s] = g[s] /\ h[s \ {Max(s)}] = g[s \ {Max(s)}]
        BY <2>2
    <2> HIDE DEF h
    <2>q. QED
        BY <2>1, <2>3
<1>2. h = [s \in SUBSET T |-> h[s]]
    OBVIOUS
<1> HIDE DEF h
<1>3. h = [s \in SUBSET T |-> IF s = {} THEN base ELSE f[<<h[s \ {Max(s)}], Max(s)>>]]
    BY <1>1, <1>2
<1>4. Folding(f, base, T, h)
    BY <1>3 DEF Folding
<1>q. QED
    BY <1>4 DEF h

\* What is taken away is there.
LEMMA LastIn ==
    ASSUME NEW S \in SUBSET Int, IsFiniteSet(S), NEW T \in SUBSET S
    PROVE  IsFiniteSet(T) /\ T \in SUBSET Int /\ (T # {} => Max(T) \in T)
<1>1. IsFiniteSet(T) /\ T \in SUBSET Int
    BY FS_Subset
<1>2. ASSUME T # {} PROVE Max(T) \in T
    BY <1>1, <1>2, MaxOf
<1>q. QED
    BY <1>1, <1>2

\* There is one.
LEMMA FoldUnique ==
    ASSUME NEW f, NEW base, NEW S, IsFiniteSet(S),
           \A T \in SUBSET S : T # {} => Max(T) \in T,
           NEW g, NEW h, Folding(f, base, S, g), Folding(f, base, S, h)
    PROVE  g = h
<1> DEFINE F == {s \in SUBSET S : g[s] # h[s]}
<1>1. F = {}
    <2> SUFFICES ASSUME F # {} PROVE FALSE
        OBVIOUS
    <2>0. F \in SUBSET SUBSET S
        OBVIOUS
    <2>1. PICK T \in F : \A U \in F : ~ (U \subseteq T /\ U # T)
        <3> HIDE DEF F
        <3>q. QED
            BY <2>0, MinimalSubset
    <2>a. T \in SUBSET S /\ g[T] # h[T]
        OBVIOUS
    <2>b. g[T] = IF T = {} THEN base ELSE f[<<g[T \ {Max(T)}], Max(T)>>]
        <3> HIDE DEF F
        <3>q. QED
            BY <2>a, FoldAt
    <2>c. h[T] = IF T = {} THEN base ELSE f[<<h[T \ {Max(T)}], Max(T)>>]
        <3> HIDE DEF F
        <3>q. QED
            BY <2>a, FoldAt
    <2>2. T # {}
        BY <2>a, <2>b, <2>c
    <2>3. Max(T) \in T
        BY <2>a, <2>2
    <2>4. T \ {Max(T)} \notin F
        BY <2>1, <2>3
    <2>5. T \ {Max(T)} \in SUBSET S
        BY <2>a
    <2>6. g[T \ {Max(T)}] = h[T \ {Max(T)}]
        BY <2>4, <2>5
    <2>q. QED
        BY <2>a, <2>b, <2>c, <2>2, <2>6
<1>2. \A s \in SUBSET S : g[s] = h[s]
    BY <1>1
<1>3. g = [s \in SUBSET S |-> g[s]] /\ h = [s \in SUBSET S |-> h[s]]
    BY DEF Folding
<1>q. QED
    BY <1>2, <1>3

\* It exists: otherwise a smallest subset would have none.
LEMMA FoldExists ==
    ASSUME NEW f, NEW base, NEW S, IsFiniteSet(S),
           \A T \in SUBSET S : T # {} => Max(T) \in T
    PROVE  Folding(f, base, S, Folded(f, base, S))
<1> DEFINE G(s) == Folded(f, base, s)
           Bad == {T \in SUBSET S : ~ Folding(f, base, T, G(T))}
<1>0. \A T, g : Folding(f, base, T, g) => Folding(f, base, T, G(T))
    BY DEF Folded
<1> SUFFICES ASSUME Bad # {} PROVE FALSE
    OBVIOUS
<1>1. PICK T \in Bad : \A U \in Bad : ~ (U \subseteq T /\ U # T)
    <2>0. Bad \in SUBSET SUBSET S
        OBVIOUS
    <2> HIDE DEF Bad
    <2>q. QED
        BY <2>0, MinimalSubset
<1>a. T \in SUBSET S /\ ~ Folding(f, base, T, G(T))
    OBVIOUS
<1>b. ASSUME NEW U \in SUBSET T, U # T PROVE Folding(f, base, U, G(U))
    <2>1. U \notin Bad /\ U \in SUBSET S
        BY <1>1, <1>a, <1>b
    <2>q. QED
        BY <2>1
<1> HIDE DEF Bad
<1>2. ASSUME NEW U \in SUBSET T
      PROVE  IsFiniteSet(U) /\ \A V \in SUBSET U : V # {} => Max(V) \in V
    <2>1. U \in SUBSET S
        BY <1>a
    <2>q. QED
        BY <2>1, FS_Subset
<1>3. ASSUME NEW U \in SUBSET T, U # T, NEW V \in SUBSET U
      PROVE  G(U)[V] = G(V)[V]
    <2>0. V # T /\ V \in SUBSET T
        BY <1>3
    <2>a. Folding(f, base, U, G(U)) /\ Folding(f, base, V, G(V))
        BY <1>b, <1>3, <2>0
    <2>b. IsFiniteSet(V) /\ \A W \in SUBSET V : W # {} => Max(W) \in W
        BY <1>2, <2>0
    <2> HIDE DEF G
    <2> DEFINE cut == [s \in SUBSET V |-> G(U)[s]]
    <2>1. Folding(f, base, V, cut)
        BY <2>a, FoldRestricted
    <2>2. cut[V] = G(U)[V]
        OBVIOUS
    <2> HIDE DEF cut
    <2>3. cut = G(V)
        BY <2>a, <2>b, <2>1, FoldUnique
    <2>q. QED
        BY <2>2, <2>3
<1> DEFINE Below(s) == s \ {Max(s)}
           h == [s \in SUBSET T |->
                  IF s = {} THEN base ELSE f[<<G(Below(s))[Below(s)], Max(s)>>]]
<1>c. \A s \in SUBSET T : h[s] = IF s = {} THEN base ELSE f[<<G(Below(s))[Below(s)], Max(s)>>]
    <2> HIDE DEF G, Below
    <2>q. QED
        OBVIOUS
<1>d. h = [s \in SUBSET T |-> h[s]]
    <2> HIDE DEF G, Below
    <2>q. QED
        OBVIOUS
<1>e. \A s \in SUBSET T : Below(s) \in SUBSET s /\ Below(s) \in SUBSET T
    OBVIOUS
<1>f. \A s \in SUBSET T : s # {} => Below(s) # T
    <2>1. ASSUME NEW s \in SUBSET T, s # {} PROVE Below(s) # T
        <3>1. Max(s) \in s
            BY <1>a, <2>1
        <3>q. QED
            BY <3>1
    <2>q. QED
        BY <2>1
<1>g. ASSUME NEW s \in SUBSET T, s # T
      PROVE  G(s)[s] = IF s = {} THEN base ELSE f[<<G(s)[Below(s)], Max(s)>>]
    <2>1. Folding(f, base, s, G(s))
        BY <1>b, <1>g
    <2>2. s \in SUBSET s
        OBVIOUS
    <2> HIDE DEF G
    <2>q. QED
        BY <2>1, <2>2, FoldAt
<1> HIDE DEF h, G, Below
<1>4. ASSUME NEW s \in SUBSET T, s # T PROVE h[s] = G(s)[s]
    <2>1. CASE s = {}
        BY <1>c, <1>g, <1>4, <2>1
    <2>2. CASE s # {}
        <3>2. G(s)[Below(s)] = G(Below(s))[Below(s)]
            BY <1>3, <1>4, <1>e
        <3>q. QED
            BY <1>c, <1>g, <1>4, <3>2, <2>2
    <2>q. QED
        BY <2>1, <2>2
<1>5. ASSUME NEW s \in SUBSET T
      PROVE  h[s] = IF s = {} THEN base ELSE f[<<h[Below(s)], Max(s)>>]
    <2>1. ASSUME s # {} PROVE h[Below(s)] = G(Below(s))[Below(s)]
        BY <1>4, <1>e, <1>f, <2>1
    <2>q. QED
        BY <1>c, <2>1
<1>6. h = [s \in SUBSET T |-> IF s = {} THEN base ELSE f[<<h[Below(s)], Max(s)>>]]
    BY <1>5, <1>d
<1>7. Folding(f, base, T, h)
    BY <1>6 DEF Folding, Below
<1>q. QED
    BY <1>0, <1>7, <1>a

\* A fold stays in a set that its steps do not leave.
LEMMA FoldClosed ==
    ASSUME NEW S, IsFiniteSet(S), \A T \in SUBSET S : T # {} => Max(T) \in T,
           NEW V, NEW base \in V, NEW f \in [V \X S -> V],
           NEW g, Folding(f, base, S, g)
    PROVE  \A s \in SUBSET S : g[s] \in V
<1> DEFINE Bad == {s \in SUBSET S : g[s] \notin V}
<1> SUFFICES ASSUME Bad # {} PROVE FALSE
    OBVIOUS
<1>1. PICK T \in Bad : \A U \in Bad : ~ (U \subseteq T /\ U # T)
    <2>0. Bad \in SUBSET SUBSET S
        OBVIOUS
    <2> HIDE DEF Bad
    <2>q. QED
        BY <2>0, MinimalSubset
<1>a. T \in SUBSET S /\ g[T] \notin V
    OBVIOUS
<1>b. g[T] = IF T = {} THEN base ELSE f[<<g[T \ {Max(T)}], Max(T)>>]
    <2> HIDE DEF Bad
    <2>q. QED
        BY <1>a, FoldAt
<1>2. T # {}
    BY <1>a, <1>b
<1>3. Max(T) \in T /\ Max(T) \in S
    BY <1>a, <1>2
<1>4. T \ {Max(T)} \notin Bad /\ T \ {Max(T)} \in SUBSET S
    BY <1>1, <1>3, <1>a
<1>5. g[T \ {Max(T)}] \in V
    BY <1>4
<1> HIDE DEF Bad
<1>q. QED
    BY <1>a, <1>b, <1>2, <1>3, <1>5

\* The last of the first positions, and the others.
LEMMA LastOfFirst ==
    ASSUME NEW k \in Nat, k > 0
    PROVE  1..k # {} /\ Max(1..k) = k /\ (1..k) \ {Max(1..k)} = 1..(k - 1)
<1>1. IsFiniteSet(1..k) /\ k \in 1..k /\ 1..k \in SUBSET Int
    BY FS_Interval
<1>2. Max(1..k) \in 1..k /\ k <= Max(1..k)
    BY <1>1, MaxOf
<1>3. Max(1..k) = k
    BY <1>2
<1>q. QED
    BY <1>1, <1>3

\* The same as a fact about all numbers, for proofs whose context is large.
LEMMA LastOfEach ==
    \A k \in Nat \ {0} : 1..k # {} /\ Max(1..k) = k /\ (1..k) \ {Max(1..k)} = 1..(k - 1)
BY LastOfFirst

\* A fold over positions 1 to n exists, and goes through them in their order.
LEMMA FoldPositions ==
    ASSUME NEW n \in Nat, NEW V, NEW base \in V, NEW f \in [V \X (1..n) -> V]
    PROVE  \E g : /\ Folding(f, base, 1..n, g)
                  /\ \A s \in SUBSET (1..n) : g[s] \in V
<1>1. IsFiniteSet(1..n) /\ 1..n \in SUBSET Int
    BY FS_Interval
<1>2. \A T \in SUBSET (1..n) : T # {} => Max(T) \in T
    BY <1>1, LastIn
<1> DEFINE S == 1..n
<1>3. IsFiniteSet(S) /\ \A T \in SUBSET S : T # {} => Max(T) \in T
    BY <1>1, <1>2
<1>4. f \in [V \X S -> V]
    OBVIOUS
<1> HIDE DEF S
<1>5. Folding(f, base, S, Folded(f, base, S))
    BY <1>3, FoldExists
<1>6. \A s \in SUBSET S : Folded(f, base, S)[s] \in V
    BY <1>3, <1>4, <1>5, FoldClosed
<1>q. QED
    BY <1>5, <1>6 DEF S

\* What holds of the first k positions, and is kept from k - 1 to k, holds of all.
LEMMA PrefixInduction ==
    ASSUME NEW n \in Nat, NEW P, 0 \in P, \A k \in 1..n : k - 1 \in P => k \in P
    PROVE  n \in P
<1> DEFINE S == {k \in 0..n : k \in P}
<1>1. S \in SUBSET Int /\ S # {} /\ IsFiniteSet(S) /\ S \in SUBSET (0..n)
    <2>1. IsFiniteSet(0..n)
        BY FS_Interval
    <2>q. QED
        BY <2>1, FS_Subset
<1> DEFINE k == Max(S)
<1>2. k \in S /\ \A j \in S : j <= k
    <2> HIDE DEF S
    <2>q. QED
        BY <1>1, MaxOf
<1> HIDE DEF k
<1>3. k + 1 \notin S
    BY <1>2
<1>4. CASE k = n
    BY <1>2, <1>4
<1>5. CASE k # n
    <2>1. k + 1 \in 1..n /\ (k + 1) - 1 = k
        BY <1>2, <1>5
    <2>2. k + 1 \in P
        BY <1>2, <2>1
    <2>q. QED
        BY <1>3, <2>1, <2>2
<1>q. QED
    BY <1>4, <1>5

-----------------------------------------------------------------------------
(* Quotients. *)

\* A quotient by a positive number is where the number lies.
LEMMA QuotientRange ==
    ASSUME NEW n \in Nat, NEW a \in Nat
    PROVE  n > 0 => /\ a \div n \in Nat
                    /\ n * (a \div n) <= a /\ a < n * (a \div n) + n
                    /\ a % n = a - n * (a \div n)
OBVIOUS

\* ... and is determined by that.
LEMMA QuotientIs ==
    ASSUME NEW n \in Nat, n > 0, NEW a \in Nat, NEW q \in Nat, n * q <= a, a < n * q + n
    PROVE  a \div n = q
<1> DEFINE d == a \div n
<1>1. d \in Nat /\ n * d <= a /\ a < n * d + n
    BY QuotientRange
<1> HIDE DEF d
<1>2. ASSUME d < q PROVE FALSE
    <2>1. n * (d + 1) <= n * q
        BY <1>1, <1>2
    <2>q. QED
        BY <1>1, <2>1
<1>3. ASSUME q < d PROVE FALSE
    <2>1. n * (q + 1) <= n * d
        BY <1>1, <1>3
    <2>q. QED
        BY <1>1, <2>1
<1>q. QED
    BY <1>1, <1>2, <1>3 DEF d

-----------------------------------------------------------------------------
(* Loops. *)

\* A loop of n steps f whose variables stay in V, and what they are after each step.
Loop(V, base, f, n) == n \in Nat /\ base \in V /\ f \in [V \X (1..n) -> V]
Runs(base, f, n, t) ==
    /\ t = [k \in 0..n |-> t[k]] /\ t[0] = base
    /\ \A k \in 1..n : t[k] = f[<<t[k - 1], k>>]

Follows(V, base, f, n, t) ==
    /\ t = [k \in 0..n |-> t[k]] /\ t[0] = base
    /\ \A k \in 1..n : t[k - 1] \in V => t[k] = f[<<t[k - 1], k>>]

\* The same for every position on the way.
LEMMA EachPrefix ==
    ASSUME NEW n \in Nat, NEW P, 0 \in P, \A k \in 1..n : k - 1 \in P => k \in P
    PROVE  \A m \in 0..n : m \in P
<1> SUFFICES ASSUME NEW m \in 0..n PROVE m \in P
    OBVIOUS
<1>1. m \in Nat /\ \A k \in 1..m : k - 1 \in P => k \in P
    OBVIOUS
<1>q. QED
    BY <1>1, PrefixInduction

\* A loop whose steps keep its variables in V never leaves V.
LEMMA RunsStay ==
    ASSUME NEW V, NEW base, NEW f, NEW n, Loop(V, base, f, n),
           NEW t, Follows(V, base, f, n, t)
    PROVE  t \in [0..n -> V]
<1> DEFINE P == {k \in 0..n : t[k] \in V}
<1>0. n \in Nat /\ base \in V /\ f \in [V \X (1..n) -> V]
    BY DEF Loop
<1>1. 0 \in P
    BY <1>0 DEF Follows
<1>2. ASSUME NEW k \in 1..n, k - 1 \in P PROVE k \in P
    <2>1. t[k - 1] \in V /\ k \in 0..n
        BY <1>0, <1>2
    <2>2. t[k] = f[<<t[k - 1], k>>] /\ f[<<t[k - 1], k>>] \in V
        BY <1>0, <2>1 DEF Follows
    <2>q. QED
        BY <2>1, <2>2
<1>3. \A k \in 0..n : k \in P
    <2> HIDE DEF P
    <2>q. QED
        BY <1>0, <1>1, <1>2, EachPrefix
<1>q. QED
    BY <1>3 DEF Follows

\* A loop has a run: the recursive function that a loop is written as exists.
LEMMA LoopRuns ==
    ASSUME NEW V, NEW base, NEW f, NEW n, Loop(V, base, f, n)
    PROVE  \E t \in [0..n -> V] : Runs(base, f, n, t)
<1> DEFINE P == {m \in 0..n : \E t \in [0..m -> V] : Runs(base, f, m, t)}
<1>0. n \in Nat /\ base \in V /\ f \in [V \X (1..n) -> V]
    BY DEF Loop
<1>1. 0 \in P
    <2> DEFINE t == [k \in 0..0 |-> base]
    <2>1. t \in [0..0 -> V] /\ Runs(base, f, 0, t)
        BY <1>0 DEF Runs
    <2>q. QED
        BY <1>0, <2>1
<1>2. ASSUME NEW m \in 1..n, m - 1 \in P PROVE m \in P
    <2>1. PICK t \in [0..(m - 1) -> V] : Runs(base, f, m - 1, t)
        BY <1>2
    <2>2. t[m - 1] \in V /\ f[<<t[m - 1], m>>] \in V
        BY <1>0, <2>1
    <2> DEFINE u == [k \in 0..m |-> IF k = m THEN f[<<t[m - 1], m>>] ELSE t[k]]
    <2>3. u \in [0..m -> V]
        BY <2>1, <2>2
    <2>4. u[m] = f[<<t[m - 1], m>>] /\ \A k \in 0..(m - 1) : u[k] = t[k]
        BY <1>0
    <2>5. t[0] = base /\ \A k \in 1..(m - 1) : t[k] = f[<<t[k - 1], k>>]
        BY <2>1 DEF Runs
    <2> HIDE DEF u
    <2>6. u[0] = base
        BY <1>0, <2>4, <2>5
    <2>7. \A k \in 1..m : u[k] = f[<<u[k - 1], k>>]
        <3> SUFFICES ASSUME NEW k \in 1..m PROVE u[k] = f[<<u[k - 1], k>>]
            OBVIOUS
        <3>1. k - 1 \in 0..(m - 1) /\ u[k - 1] = t[k - 1]
            BY <1>0, <2>4
        <3>2. CASE k = m
            BY <2>4, <3>1, <3>2
        <3>3. CASE k # m
            <4>1. k \in 1..(m - 1)
                BY <1>0, <3>3
            <4>q. QED
                BY <2>4, <2>5, <3>1, <4>1
        <3>q. QED
            BY <3>2, <3>3
    <2>8. Runs(base, f, m, u)
        BY <2>3, <2>6, <2>7 DEF Runs
    <2>9. \E w \in [0..m -> V] : Runs(base, f, m, w)
        BY <2>3, <2>8
    <2>q. QED
        BY <2>9
<1>3. n \in P
    <2> HIDE DEF P
    <2>q. QED
        BY <1>0, <1>1, <1>2, PrefixInduction
<1>q. QED
    BY <1>3
=============================================================================
