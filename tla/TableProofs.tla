----------------------------- MODULE TableProofs -----------------------------
(***************************************************************************)
(* The TCAM engines, for any tables, routes and calls.  The unified engine *)
(* conserves insertions (Conserved, Counted: what is not yet in the next   *)
(* engine is at an await or was dropped there); a confirmed route is in    *)
(* every engine (Kept); phase 3 holds in each slot that a short route      *)
(* fills the metric of one of them (TrieRight).  What the lookups compute  *)
(* is shown once for every table (AhgfLongest, QagfhgLongest).  The        *)
(* control plane's redundant lookup rests on the first of these.  Last,    *)
(* the performance monitor's lock: the waiting writers are exactly the     *)
(* threads that called a writer and are not inside.                        *)
(***************************************************************************)
EXTENDS TcamEngine, TcamControlPlane, PerformanceMonitor, Sums, SequenceTheorems

-----------------------------------------------------------------------------
(* The lookups of phases 1 and 2, as loops over a table. *)

\* A table of routes as the engines keep it, apart from what the routes are.
RouteTable(routes) ==
    /\ DOMAIN routes \in SUBSET Int /\ IsFiniteSet(DOMAIN routes)
    /\ \A i \in DOMAIN routes : routes[i].len \in Nat /\ routes[i] # NoRoute

\* What a lookup among the routes at the positions s should answer: the first, or the
\* last, of the longest routes that match.
FirstLongest(routes, ip, s, a) ==
    \/ a = NoRoute /\ \A i \in s : ~ matches(routes[i], ip)
    \/ \E i \in s :
          /\ a = routes[i] /\ matches(a, ip)
          /\ \A j \in s : matches(routes[j], ip) =>
                routes[j].len <= a.len /\ (j < i => routes[j].len < a.len)

LastLongest(routes, ip, s, a) ==
    \/ a = NoRoute /\ \A i \in s : ~ matches(routes[i], ip)
    \/ \E i \in s :
          /\ a = routes[i] /\ matches(a, ip)
          /\ \A j \in s : matches(routes[j], ip) =>
                routes[j].len <= a.len /\ (i < j => routes[j].len < a.len)

\* The step of each loop, and the recursive function that the fold is.
FirstStep(best, r, ip) ==
    IF matches(r, ip) /\ (best = NoRoute \/ r.len > best.len) THEN r ELSE best
LastStep(best, r, ip) == IF matches(r, ip) /\ r.len >= best.len THEN r ELSE best

FirstFold(routes, ip, g) ==
    g = [s \in SUBSET DOMAIN routes |->
            IF s = {} THEN NoRoute ELSE FirstStep(g[s \ {Max(s)}], routes[Max(s)], ip)]
LastFold(routes, ip, g) ==
    g = [s \in SUBSET DOMAIN routes |->
            IF s = {} THEN NoRoute ELSE LastStep(g[s \ {Max(s)}], routes[Max(s)], ip)]

\* The lookups are these folds.
LEMMA LookupsFold ==
    ASSUME NEW routes, NEW ip
    PROVE  /\ ahgf_lookup(routes, ip) = (CHOOSE g : FirstFold(routes, ip, g))[DOMAIN routes]
           /\ qagfhg_lookup(routes, ip) = (CHOOSE g : LastFold(routes, ip, g))[DOMAIN routes]
BY DEF ahgf_lookup, qagfhg_lookup, FoldLeft, MapThenFoldSet, FirstFold, LastFold,
       FirstStep, LastStep

\* A step of the loop takes what is right before it to what is right after it.
LEMMA FirstStepRight ==
    ASSUME NEW routes, RouteTable(routes), NEW ip, NEW s \in SUBSET DOMAIN routes, s # {},
           NEW a, FirstLongest(routes, ip, s \ {Max(s)}, a)
    PROVE  FirstLongest(routes, ip, s, FirstStep(a, routes[Max(s)], ip))
<1> DEFINE m == Max(s)
           r == routes[m]
<1>1. m \in s /\ \A j \in s : j <= m /\ j \in Int
    BY MaxOf, FS_Subset DEF RouteTable
<1>2. m \in Int /\ r.len \in Nat /\ \A j \in s : routes[j].len \in Nat /\ routes[j] # NoRoute
    BY <1>1 DEF RouteTable
<1>3. \A j \in s \ {m} : j < m
    BY <1>1, <1>2
<1> HIDE DEF m
<1>4. FirstLongest(routes, ip, s \ {m}, a)
    BY DEF m
<1>5. CASE matches(r, ip) /\ (a = NoRoute \/ r.len > a.len)
    <2>1. \A j \in s \ {m} : matches(routes[j], ip) => routes[j].len < r.len
        BY <1>4, <1>5, <1>2 DEF FirstLongest
    <2>2. \A j \in s : matches(routes[j], ip) =>
              routes[j].len <= r.len /\ (j < m => routes[j].len < r.len)
        BY <2>1, <1>2
    <2>q. QED
        BY <2>2, <1>1, <1>5 DEF FirstLongest, FirstStep, m
<1>6. CASE ~ matches(r, ip)
    <2>1. FirstStep(a, r, ip) = a
        BY <1>6 DEF FirstStep
    <2>2. FirstLongest(routes, ip, s, a)
        BY <1>4, <1>6, <1>1 DEF FirstLongest
    <2>q. QED
        BY <2>1, <2>2 DEF m
<1>7. CASE matches(r, ip) /\ a # NoRoute /\ ~ (r.len > a.len)
    <2>1. FirstStep(a, r, ip) = a
        BY <1>7 DEF FirstStep
    <2>2. PICK i \in s \ {m} :
             /\ a = routes[i] /\ matches(a, ip)
             /\ \A j \in s \ {m} : matches(routes[j], ip) =>
                   routes[j].len <= a.len /\ (j < i => routes[j].len < a.len)
        BY <1>4, <1>7 DEF FirstLongest
    <2>3. i < m /\ i \in Int /\ a.len \in Nat /\ r.len <= a.len
        BY <2>2, <1>1, <1>2, <1>3, <1>7
    <2>4. \A j \in s : matches(routes[j], ip) =>
              routes[j].len <= a.len /\ (j < i => routes[j].len < a.len)
        BY <2>2, <2>3, <1>2
    <2>q. QED
        BY <2>1, <2>2, <2>4 DEF FirstLongest, m
<1>q. QED
    BY <1>5, <1>6, <1>7

LEMMA LastStepRight ==
    ASSUME NEW routes, RouteTable(routes), NEW ip, NEW s \in SUBSET DOMAIN routes, s # {},
           NEW a, LastLongest(routes, ip, s \ {Max(s)}, a)
    PROVE  LastLongest(routes, ip, s, LastStep(a, routes[Max(s)], ip))
<1> DEFINE m == Max(s)
           r == routes[m]
<1>1. m \in s /\ \A j \in s : j <= m /\ j \in Int
    BY MaxOf, FS_Subset DEF RouteTable
<1>2. m \in Int /\ r.len \in Nat /\ \A j \in s : routes[j].len \in Nat /\ routes[j] # NoRoute
    BY <1>1 DEF RouteTable
<1>3. \A j \in s \ {m} : j < m
    BY <1>1, <1>2
<1> HIDE DEF m
<1>4. LastLongest(routes, ip, s \ {m}, a)
    BY DEF m
<1>5. CASE matches(r, ip) /\ r.len >= a.len
    <2>1. \A j \in s \ {m} : matches(routes[j], ip) => routes[j].len <= r.len
        BY <1>4, <1>5, <1>2 DEF LastLongest
    <2>0. \A j \in s : ~ (m < j)
        BY <1>1, <1>2 DEF m
    <2>2. \A j \in s : matches(routes[j], ip) =>
              routes[j].len <= r.len /\ (m < j => routes[j].len < r.len)
        BY <2>0, <2>1, <1>2
    <2>q. QED
        BY <2>2, <1>1, <1>5 DEF LastLongest, LastStep, m
<1>6. CASE ~ matches(r, ip)
    <2>1. LastStep(a, r, ip) = a
        BY <1>6 DEF LastStep
    <2>2. LastLongest(routes, ip, s, a)
        BY <1>4, <1>6, <1>1 DEF LastLongest
    <2>q. QED
        BY <2>1, <2>2 DEF m
<1>7. CASE matches(r, ip) /\ ~ (r.len >= a.len)
    <2>1. LastStep(a, r, ip) = a
        BY <1>7 DEF LastStep
    <2>0. a # NoRoute
        BY <1>7, <1>2 DEF NoRoute
    <2>2. PICK i \in s \ {m} :
             /\ a = routes[i] /\ matches(a, ip)
             /\ \A j \in s \ {m} : matches(routes[j], ip) =>
                   routes[j].len <= a.len /\ (i < j => routes[j].len < a.len)
        BY <1>4, <2>0 DEF LastLongest
    <2>3. i \in s /\ a.len \in Nat /\ r.len < a.len
        BY <2>2, <1>2, <1>7
    <2>4. \A j \in s : matches(routes[j], ip) =>
              routes[j].len <= a.len /\ (i < j => routes[j].len < a.len)
        BY <2>2, <2>3, <1>2
    <2>q. QED
        BY <2>1, <2>2, <2>4 DEF LastLongest, m
<1>q. QED
    BY <1>5, <1>6, <1>7

\* There is one right answer at most.
LEMMA OneRight ==
    ASSUME NEW routes, RouteTable(routes), NEW ip, NEW s \in SUBSET DOMAIN routes, NEW a, NEW b
    PROVE  /\ FirstLongest(routes, ip, s, a) /\ FirstLongest(routes, ip, s, b) => a = b
           /\ LastLongest(routes, ip, s, a) /\ LastLongest(routes, ip, s, b) => a = b
<1>0. \A i \in s : i \in Int /\ routes[i].len \in Nat
    BY DEF RouteTable
<1>1. ASSUME FirstLongest(routes, ip, s, a), FirstLongest(routes, ip, s, b) PROVE a = b
    <2>1. CASE a = NoRoute /\ \A i \in s : ~ matches(routes[i], ip)
        BY <1>1, <2>1 DEF FirstLongest
    <2>2. ASSUME NEW i \in s, a = routes[i], matches(a, ip),
                 \A j \in s : matches(routes[j], ip) =>
                    routes[j].len <= a.len /\ (j < i => routes[j].len < a.len)
          PROVE  a = b
        <3>1. PICK k \in s :
                 /\ b = routes[k] /\ matches(b, ip)
                 /\ \A j \in s : matches(routes[j], ip) =>
                       routes[j].len <= b.len /\ (j < k => routes[j].len < b.len)
            BY <1>1, <2>2 DEF FirstLongest
        <3>2. a.len \in Nat /\ b.len \in Nat /\ i \in Int /\ k \in Int
            BY <1>0, <2>2, <3>1
        <3>3. b.len <= a.len /\ a.len <= b.len
            BY <2>2, <3>1
        <3>4. ~ (k < i) /\ ~ (i < k)
            BY <2>2, <3>1, <3>2, <3>3
        <3>q. QED
            BY <2>2, <3>1, <3>2, <3>4
    <2>q. QED
        BY <1>1, <2>1, <2>2 DEF FirstLongest
<1>2. ASSUME LastLongest(routes, ip, s, a), LastLongest(routes, ip, s, b) PROVE a = b
    <2>1. CASE a = NoRoute /\ \A i \in s : ~ matches(routes[i], ip)
        BY <1>2, <2>1 DEF LastLongest
    <2>2. ASSUME NEW i \in s, a = routes[i], matches(a, ip),
                 \A j \in s : matches(routes[j], ip) =>
                    routes[j].len <= a.len /\ (i < j => routes[j].len < a.len)
          PROVE  a = b
        <3>1. PICK k \in s :
                 /\ b = routes[k] /\ matches(b, ip)
                 /\ \A j \in s : matches(routes[j], ip) =>
                       routes[j].len <= b.len /\ (k < j => routes[j].len < b.len)
            BY <1>2, <2>2 DEF LastLongest
        <3>2. a.len \in Nat /\ b.len \in Nat /\ i \in Int /\ k \in Int
            BY <1>0, <2>2, <3>1
        <3>3. b.len <= a.len /\ a.len <= b.len
            BY <2>2, <3>1
        <3>4. ~ (k < i) /\ ~ (i < k)
            BY <2>2, <3>1, <3>2, <3>3
        <3>q. QED
            BY <2>2, <3>1, <3>2, <3>4
    <2>q. QED
        BY <1>2, <2>1, <2>2 DEF LastLongest
<1>q. QED
    BY <1>1, <1>2

\* Phase 1 answers the first of the longest routes that match.
LEMMA AhgfLongest ==
    ASSUME NEW routes, RouteTable(routes), NEW ip
    PROVE  FirstLongest(routes, ip, DOMAIN routes, ahgf_lookup(routes, ip))
<1> DEFINE D == DOMAIN routes
           Right(s, a) == FirstLongest(routes, ip, s, a)
           Step(a, s) == FirstStep(a, routes[Max(s)], ip)
           Fold(g) == FirstFold(routes, ip, g)
<1>0. IsFiniteSet(D) /\ D \in SUBSET Int
    BY DEF RouteTable
<1>1. Right({}, NoRoute)
    BY DEF FirstLongest
<1>2. ASSUME NEW s \in SUBSET D, s # {}, NEW a, Right(s \ {Max(s)}, a)
      PROVE  Right(s, Step(a, s))
    BY <1>2, FirstStepRight
<1>3. \A a, b : \A s \in SUBSET D : Right(s, a) /\ Right(s, b) => a = b
    BY OneRight
<1>4. \A s \in SUBSET D : s # {} => Max(s) \in s
    BY <1>0, MaxOf, FS_Subset
<1>f. \A g : Fold(g) <=>
         g = [s \in SUBSET D |-> IF s = {} THEN NoRoute ELSE Step(g[s \ {Max(s)}], s)]
    BY DEF FirstFold
<1>q. QED
    <2>9. ahgf_lookup(routes, ip) = (CHOOSE g : Fold(g))[D]
        BY LookupsFold
    <2> HIDE DEF D, Right, Step, Fold
    <2>1. \A s \in SUBSET D : \E a : Right(s, a)
        <3> DEFINE Bad == {s \in SUBSET D : ~ \E a : Right(s, a)}
        <3> SUFFICES ASSUME Bad # {} PROVE FALSE
            OBVIOUS
        <3>1. Bad \in SUBSET SUBSET D /\ IsFiniteSet(D)
            BY <1>0
        <3>2. PICK T \in Bad : \A U \in Bad : ~ (U \subseteq T /\ U # T)
            <4> HIDE DEF Bad
            <4>q. QED
                BY <3>1, MinimalSubset
        <3>3. T # {} /\ Max(T) \in T
            BY <1>1, <1>4
        <3>4. PICK a : Right(T \ {Max(T)}, a)
            BY <3>2, <3>3
        <3>q. QED
            BY <3>3, <3>4, <1>2
    <2> DEFINE h == [s \in SUBSET D |-> CHOOSE a : Right(s, a)]
    <2>2. \A s \in SUBSET D : Right(s, h[s])
        BY <2>1
    <2>3. Fold(h)
        <3>1. h[{}] = NoRoute
            BY <2>2, <1>1, <1>3
        <3>2. ASSUME NEW s \in SUBSET D, s # {} PROVE h[s] = Step(h[s \ {Max(s)}], s)
            BY <2>2, <1>2, <1>3, <3>2
        <3>3. h = [s \in SUBSET D |-> h[s]]
            OBVIOUS
        <3> HIDE DEF h
        <3>q. QED
            BY <1>f, <3>1, <3>2, <3>3
    <2> DEFINE g == CHOOSE g : Fold(g)
    <2>4. Fold(g)
        <3> HIDE DEF h
        <3>q. QED
            BY <2>3
    <2> HIDE DEF g, h
    <2>5. /\ g[{}] = NoRoute
          /\ \A s \in SUBSET D : s # {} => g[s] = Step(g[s \ {Max(s)}], s)
        <3>1. g = [s \in SUBSET D |-> IF s = {} THEN NoRoute ELSE Step(g[s \ {Max(s)}], s)]
            BY <2>4, <1>f
        <3>q. QED
            BY <3>1
    <2>6. \A s \in SUBSET D : Right(s, g[s])
        <3> DEFINE Bad == {s \in SUBSET D : ~ Right(s, g[s])}
        <3> SUFFICES ASSUME Bad # {} PROVE FALSE
            OBVIOUS
        <3>1. Bad \in SUBSET SUBSET D /\ IsFiniteSet(D)
            BY <1>0
        <3>2. PICK T \in Bad : \A U \in Bad : ~ (U \subseteq T /\ U # T)
            <4> HIDE DEF Bad
            <4>q. QED
                BY <3>1, MinimalSubset
        <3>3. T # {} /\ Max(T) \in T
            BY <1>1, <1>4, <2>5
        <3>4. Right(T \ {Max(T)}, g[T \ {Max(T)}])
            BY <3>2, <3>3
        <3>q. QED
            BY <3>3, <3>4, <1>2, <2>5
    <2>q. QED
        BY <2>6, <2>9 DEF g, Right, D

\* Phase 2 answers the last of the longest routes that match.
LEMMA QagfhgLongest ==
    ASSUME NEW routes, RouteTable(routes), NEW ip
    PROVE  LastLongest(routes, ip, DOMAIN routes, qagfhg_lookup(routes, ip))
<1> DEFINE D == DOMAIN routes
           Right(s, a) == LastLongest(routes, ip, s, a)
           Step(a, s) == LastStep(a, routes[Max(s)], ip)
           Fold(g) == LastFold(routes, ip, g)
<1>0. IsFiniteSet(D) /\ D \in SUBSET Int
    BY DEF RouteTable
<1>1. Right({}, NoRoute)
    BY DEF LastLongest
<1>2. ASSUME NEW s \in SUBSET D, s # {}, NEW a, Right(s \ {Max(s)}, a)
      PROVE  Right(s, Step(a, s))
    BY <1>2, LastStepRight
<1>3. \A a, b : \A s \in SUBSET D : Right(s, a) /\ Right(s, b) => a = b
    BY OneRight
<1>4. \A s \in SUBSET D : s # {} => Max(s) \in s
    BY <1>0, MaxOf, FS_Subset
<1>f. \A g : Fold(g) <=>
         g = [s \in SUBSET D |-> IF s = {} THEN NoRoute ELSE Step(g[s \ {Max(s)}], s)]
    BY DEF LastFold
<1>q. QED
    <2>9. qagfhg_lookup(routes, ip) = (CHOOSE g : Fold(g))[D]
        BY LookupsFold
    <2> HIDE DEF D, Right, Step, Fold
    <2>1. \A s \in SUBSET D : \E a : Right(s, a)
        <3> DEFINE Bad == {s \in SUBSET D : ~ \E a : Right(s, a)}
        <3> SUFFICES ASSUME Bad # {} PROVE FALSE
            OBVIOUS
        <3>1. Bad \in SUBSET SUBSET D /\ IsFiniteSet(D)
            BY <1>0
        <3>2. PICK T \in Bad : \A U \in Bad : ~ (U \subseteq T /\ U # T)
            <4> HIDE DEF Bad
            <4>q. QED
                BY <3>1, MinimalSubset
        <3>3. T # {} /\ Max(T) \in T
            BY <1>1, <1>4
        <3>4. PICK a : Right(T \ {Max(T)}, a)
            BY <3>2, <3>3
        <3>q. QED
            BY <3>3, <3>4, <1>2
    <2> DEFINE h == [s \in SUBSET D |-> CHOOSE a : Right(s, a)]
    <2>2. \A s \in SUBSET D : Right(s, h[s])
        BY <2>1
    <2>3. Fold(h)
        <3>1. h[{}] = NoRoute
            BY <2>2, <1>1, <1>3
        <3>2. ASSUME NEW s \in SUBSET D, s # {} PROVE h[s] = Step(h[s \ {Max(s)}], s)
            BY <2>2, <1>2, <1>3, <3>2
        <3>3. h = [s \in SUBSET D |-> h[s]]
            OBVIOUS
        <3> HIDE DEF h
        <3>q. QED
            BY <1>f, <3>1, <3>2, <3>3
    <2> DEFINE g == CHOOSE g : Fold(g)
    <2>4. Fold(g)
        <3> HIDE DEF h
        <3>q. QED
            BY <2>3
    <2> HIDE DEF g, h
    <2>5. /\ g[{}] = NoRoute
          /\ \A s \in SUBSET D : s # {} => g[s] = Step(g[s \ {Max(s)}], s)
        <3>1. g = [s \in SUBSET D |-> IF s = {} THEN NoRoute ELSE Step(g[s \ {Max(s)}], s)]
            BY <2>4, <1>f
        <3>q. QED
            BY <3>1
    <2>6. \A s \in SUBSET D : Right(s, g[s])
        <3> DEFINE Bad == {s \in SUBSET D : ~ Right(s, g[s])}
        <3> SUFFICES ASSUME Bad # {} PROVE FALSE
            OBVIOUS
        <3>1. Bad \in SUBSET SUBSET D /\ IsFiniteSet(D)
            BY <1>0
        <3>2. PICK T \in Bad : \A U \in Bad : ~ (U \subseteq T /\ U # T)
            <4> HIDE DEF Bad
            <4>q. QED
                BY <3>1, MinimalSubset
        <3>3. T # {} /\ Max(T) \in T
            BY <1>1, <1>4, <2>5
        <3>4. Right(T \ {Max(T)}, g[T \ {Max(T)}])
            BY <3>2, <3>3
        <3>q. QED
            BY <3>3, <3>4, <1>2, <2>5
    <2>q. QED
        BY <2>6, <2>9 DEF g, Right, D

-----------------------------------------------------------------------------
(* The tables grow at their ends. *)
In(r, routes) == \E i \in DOMAIN routes : routes[i] = r
One(fact) == IF fact THEN 1 ELSE 0

\* A list of routes with known fields is a table as the lookups want it.
LEMMA ListIsTable ==
    ASSUME NEW R, \A r \in R : r.len \in Lengths /\ r.hop # "none", NEW s \in Seq(R)
    PROVE  RouteTable(s) /\ \A i \in DOMAIN s : s[i] \in R
<1>1. DOMAIN s = 1..Len(s) /\ Len(s) \in Nat
    BY LenProperties
<1>2. \A i \in DOMAIN s : s[i] \in R
    BY <1>1, ElementOfSeq
<1>3. Lengths \subseteq Nat
    BY PrefixAssumption DEF Lengths
<1>4. IsFiniteSet(1..Len(s)) /\ 1..Len(s) \in SUBSET Int
    BY <1>1, FS_Interval
<1>5. \A r \in R : r # NoRoute
    BY DEF NoRoute
<1>q. QED
    BY <1>1, <1>2, <1>3, <1>4, <1>5 DEF RouteTable

\* One element more.
LEMMA Appended ==
    ASSUME NEW R, NEW s \in Seq(R), NEW x \in R
    PROVE  /\ Append(s, x) \in Seq(R)
           /\ DOMAIN s = 1..Len(s) /\ Len(s) \in Nat /\ Len(Append(s, x)) = Len(s) + 1
           /\ DOMAIN Append(s, x) = DOMAIN s \cup {Len(s) + 1} /\ Len(s) + 1 \notin DOMAIN s
           /\ \A i \in DOMAIN s : Append(s, x)[i] = s[i]
           /\ Append(s, x)[Len(s) + 1] = x
<1>1. DOMAIN s = 1..Len(s) /\ Len(s) \in Nat
    BY LenProperties
<1>2. /\ Append(s, x) \in Seq(R) /\ Len(Append(s, x)) = Len(s) + 1
      /\ \A i \in 1..Len(s) : Append(s, x)[i] = s[i]
      /\ Append(s, x)[Len(s) + 1] = x
    BY AppendProperties
<1>3. DOMAIN Append(s, x) = 1..(Len(s) + 1)
    BY <1>2, LenProperties
<1>q. QED
    BY <1>1, <1>2, <1>3

\* What is in a longer table.
LEMMA InAppended ==
    ASSUME NEW R, NEW s \in Seq(R), NEW x \in R
    PROVE  \A r : In(r, Append(s, x)) <=> In(r, s) \/ r = x
BY Appended DEF In

\* How often a route is in a table, and in a longer one.
LEMMA CopiesCount ==
    ASSUME NEW R, NEW s \in Seq(R), NEW r
    PROVE  Copies(s, r) \in Nat /\ (Copies(s, r) = 0 <=> ~ In(r, s))
<1> DEFINE C == {i \in DOMAIN s : s[i] = r}
<1>1. DOMAIN s = 1..Len(s) /\ Len(s) \in Nat
    BY LenProperties
<1>2. IsFiniteSet(DOMAIN s)
    BY <1>1, FS_Interval
<1>3. IsFiniteSet(C)
    BY <1>2, FS_Subset
<1>4. Cardinality(C) \in Nat /\ (Cardinality(C) = 0 <=> C = {})
    BY <1>3, FS_CardinalityType, FS_EmptySet
<1>q. QED
    BY <1>4 DEF Copies, In

LEMMA CopiesAppended ==
    ASSUME NEW R, NEW s \in Seq(R), NEW x \in R, NEW r
    PROVE  Copies(Append(s, x), r) = Copies(s, r) + One(x = r)
<1> DEFINE C == {i \in DOMAIN s : s[i] = r}
           D == {i \in DOMAIN Append(s, x) : Append(s, x)[i] = r}
           n == Len(s) + 1
<1>1. n \notin C
    BY Appended
<1>2. IsFiniteSet(C)
    <2>1. IsFiniteSet(1..Len(s)) /\ C \subseteq 1..Len(s)
        BY Appended, FS_Interval
    <2>q. QED
        BY <2>1, FS_Subset
<1>3. D = IF x = r THEN C \cup {n} ELSE C
    <2> DEFINE A == Append(s, x)
    <2>1. /\ DOMAIN A = DOMAIN s \cup {n}
          /\ \A i \in DOMAIN s : A[i] = s[i]
          /\ A[n] = x
        BY Appended
    <2> HIDE DEF A, n
    <2>2. D = {i \in DOMAIN s : A[i] = r} \cup {i \in {n} : A[i] = r}
        BY <2>1 DEF A
    <2>3. {i \in DOMAIN s : A[i] = r} = C
        BY <2>1
    <2>q. QED
        BY <2>1, <2>2, <2>3
<1>4. Cardinality(C \cup {n}) = Cardinality(C) + 1 /\ Cardinality(C) \in Nat
    BY <1>1, <1>2, FS_AddElement, FS_CardinalityType
<1>5. Cardinality(D) = Cardinality(C) + One(x = r)
    <2> HIDE DEF C, D, n
    <2>1. CASE x = r
        BY <1>3, <1>4, <2>1 DEF One
    <2>2. CASE x # r
        BY <1>3, <1>4, <2>2 DEF One
    <2>q. QED
        BY <2>1, <2>2
<1>q. QED
    BY <1>5 DEF Copies

-----------------------------------------------------------------------------
(* The unified engine: its tables and calls. *)
TablesTyped ==
    /\ phase1 \in Seq(Routes) /\ phase2 \in Seq(Routes) /\ sheaf_sections \in Seq(Routes)
    /\ DOMAIN phase3 = {"radix_table", "patricia_nodes"}
    /\ phase3.patricia_nodes \in Seq(Routes)
    /\ DOMAIN phase3.radix_table = RadixSlots
    /\ "inserts" \in DOMAIN monitor /\ monitor.inserts \in Nat
    /\ dropped \in [InsertPoints -> [Routes -> Nat]]

CallsTyped ==
    /\ pc \in [Tasks -> Points \cup {"idle"}]
    /\ DOMAIN req = Tasks
    /\ \A t \in Tasks :
          /\ DOMAIN req[t] = {"route", "ip", "known"}
          /\ req[t].ip \in Queries \cup {BadIp}
          /\ pc[t] \in InsertPoints => req[t].route \in Routes
          /\ pc[t] \in {"p1_hit", "p2_read", "p2_hit", "p2_counted", "p3_hit"} => req[t].ip \in Addresses

\* What kinds of points there are.
LEMMA PointKinds ==
    /\ "idle" \notin Points /\ InsertPoints \subseteq Points /\ LookupPoints \subseteq Points
    /\ {"delete", "stats"} \subseteq Points
    /\ InsertPoints \cap LookupPoints = {}
    /\ "p2_routes" \in InsertPoints /\ "p2_stats" \in InsertPoints
    /\ "p3_write" \in InsertPoints /\ "p3_inserted" \in InsertPoints
    /\ InsertPoints \cap {"idle", "delete", "stats"} = {}
BY DEF Points, InsertPoints, LookupPoints

\* What the routes are.
LEMMA RouteFields ==
    \A r \in Routes : /\ r.len \in Lengths /\ r.hop # "none" /\ r.hop # "gateway_radix"
                      /\ r.metric \in Nat /\ r.addr \in Addresses
BY TcamAssumption

LEMMA TypedInit == Init => TablesTyped /\ CallsTyped
<1> SUFFICES ASSUME Init PROVE TablesTyped /\ CallsTyped
    OBVIOUS
<1>1. <<>> \in Seq(Routes)
    BY EmptySeq
<1>2. TablesTyped
    BY <1>1 DEF Init, TablesTyped, EmptyTrie
<1>3. CallsTyped
    BY PointKinds DEF Init, CallsTyped, NoReq, InsertPoints
<1>q. QED
    BY <1>2, <1>3

\* The trie keeps its shape.
LEMMA TrieTyped ==
    ASSUME TablesTyped, NEW r \in Routes
    PROVE  LET new == insert_into_hybrid_trie(phase3, r)
           IN  /\ DOMAIN new = {"radix_table", "patricia_nodes"}
               /\ new.patricia_nodes \in Seq(Routes)
               /\ DOMAIN new.radix_table = RadixSlots
               /\ new.patricia_nodes =
                    IF Short(r) THEN phase3.patricia_nodes ELSE Append(phase3.patricia_nodes, r)
               /\ \A i \in RadixSlots : new.radix_table[i] =
                    IF Short(r) /\ i \in radix_fill(r) THEN r.metric ELSE phase3.radix_table[i]
<1> DEFINE new == insert_into_hybrid_trie(phase3, r)
<1>1. CASE Short(r)
    <2>1. new = [phase3 EXCEPT !.radix_table =
             [i \in RadixSlots \cup radix_fill(r) |->
                 IF i \in radix_fill(r) THEN r.metric ELSE phase3.radix_table[i]]]
        BY <1>1 DEF insert_into_hybrid_trie, Short
    <2>2. RadixSlots \cup radix_fill(r) = RadixSlots
        BY DEF radix_fill
    <2>3. new.radix_table = [i \in RadixSlots |->
                 IF i \in radix_fill(r) THEN r.metric ELSE phase3.radix_table[i]]
        BY <2>1, <2>2 DEF TablesTyped
    <2>4. DOMAIN new = DOMAIN phase3 /\ new.patricia_nodes = phase3.patricia_nodes
        BY <2>1 DEF TablesTyped
    <2> HIDE DEF new
    <2>q. QED
        BY <2>3, <2>4, <1>1 DEF TablesTyped, new
<1>2. CASE ~ Short(r)
    <2>1. new = [phase3 EXCEPT !.patricia_nodes = Append(phase3.patricia_nodes, r)]
        BY <1>2 DEF insert_into_hybrid_trie, Short
    <2>2. Append(phase3.patricia_nodes, r) \in Seq(Routes)
        BY Appended DEF TablesTyped
    <2>3. /\ DOMAIN new = DOMAIN phase3
          /\ new.patricia_nodes = Append(phase3.patricia_nodes, r)
          /\ new.radix_table = phase3.radix_table
        BY <2>1 DEF TablesTyped
    <2> HIDE DEF new
    <2>q. QED
        BY <2>2, <2>3, <1>2 DEF TablesTyped, new
<1>q. QED
    BY <1>1, <1>2

\* An answered call.
LEMMA Returned ==
    ASSUME CallsTyped, NEW t \in Tasks, Return(t)
    PROVE  CallsTyped'
BY PointKinds DEF CallsTyped, Return, Goto, NoReq

\* A call that goes on without a new result.
LEMMA WentOn ==
    ASSUME CallsTyped, NEW t \in Tasks, NEW p \in Points, Goto(t, p), req' = req,
           p \in InsertPoints => pc[t] \in InsertPoints,
           p \in {"p1_hit", "p2_read", "p2_hit", "p2_counted", "p3_hit"} => req[t].ip \in Addresses
    PROVE  CallsTyped'
BY DEF CallsTyped, Goto

\* Types are kept by every step.
LEMMA CallsTypedStep ==
    ASSUME CallsTyped, [Next]_vars
    PROVE  CallsTyped'
<1>a. \A ip : ip \in Queries \cup {BadIp} /\ ip # BadIp => ip \in Addresses
    BY TcamAssumption
<1>1. CASE UNCHANGED vars
    BY <1>1 DEF CallsTyped, vars
<1>2. ASSUME NEW t \in Tasks, BeginInsert(t) PROVE CallsTyped'
    <2>1. PICK r \in Routes :
             /\ pc' = [pc EXCEPT ![t] = "p2_routes"]
             /\ req' = [req EXCEPT ![t] = [NoReq EXCEPT !.route = r]]
        BY <1>2 DEF BeginInsert, Goto
    <2>q. QED
        BY <2>1, PointKinds DEF CallsTyped, NoReq
<1>3. ASSUME NEW t \in Tasks, BeginLookup(t) PROVE CallsTyped'
    <2>1. PICK q \in Queries :
             /\ pc' = [pc EXCEPT ![t] = "count"]
             /\ req' = [req EXCEPT ![t] = [NoReq EXCEPT !.ip = q, !.known = acked]]
        BY <1>3 DEF BeginLookup, Goto
    <2>q. QED
        BY <2>1, PointKinds DEF CallsTyped, NoReq, LookupPoints, InsertPoints
<1>4. ASSUME NEW t \in Tasks, BeginDelete(t) \/ BeginStats(t) PROVE CallsTyped'
    BY <1>4, PointKinds, WentOn DEF BeginDelete, BeginStats
<1>5. ASSUME NEW t \in Tasks, InsertRoutes(t) \/ InsertStats(t) \/ InsertPhase3(t)
      PROVE  CallsTyped'
    BY <1>5, PointKinds, WentOn DEF InsertRoutes, InsertStats, InsertPhase3, At
<1>6. ASSUME NEW t \in Tasks,
             InsertCount(t) \/ LookupDone(t) \/ Delete(t) \/ Stats(t) \/ Cancel(t)
      PROVE  CallsTyped'
    BY <1>6, Returned DEF InsertCount, LookupDone, Delete, Stats, Cancel
<1>7. ASSUME NEW t \in Tasks, LookupCount(t) PROVE CallsTyped'
    <2>1. CASE Return(t)
        BY <2>1, Returned
    <2>2. CASE /\ strategy = "Phase1Only" /\ req[t].ip # BadIp
               /\ req' = [req EXCEPT ![t].route = ahgf_lookup(phase1, req[t].ip)]
               /\ Goto(t, "p1_hit")
        BY <2>2, <1>a, PointKinds DEF CallsTyped, Goto, LookupPoints, InsertPoints
    <2>3. CASE strategy = "Phase2Only" /\ req[t].ip # BadIp /\ Goto(t, "p2_read") /\ UNCHANGED req
        BY <2>3, <1>a, PointKinds DEF CallsTyped, Goto, LookupPoints, InsertPoints
    <2>4. CASE Goto(t, "p3_read") /\ UNCHANGED req
        BY <2>4, <1>a, PointKinds DEF CallsTyped, Goto, LookupPoints, InsertPoints
    <2>q. QED
        BY <1>7, <2>1, <2>2, <2>3, <2>4 DEF LookupCount
<1>8. ASSUME NEW t \in Tasks, LookupPhase2(t) PROVE CallsTyped'
    BY <1>8, PointKinds DEF LookupPhase2, At, CallsTyped, Goto, LookupPoints, InsertPoints
<1>9. ASSUME NEW t \in Tasks, LookupStats2(t) PROVE CallsTyped'
    BY <1>9, PointKinds DEF LookupStats2, At, CallsTyped, Goto, LookupPoints, InsertPoints
<1>10. ASSUME NEW t \in Tasks, LookupPhase3(t) PROVE CallsTyped'
    <2>1. CASE Return(t)
        BY <2>1, Returned
    <2>2. CASE /\ req[t].ip # BadIp /\ Goto(t, "p3_hit")
               /\ req' = [req EXCEPT ![t].route = scrtt_lookup(phase3, req[t].ip)]
        BY <2>2, <1>a, PointKinds DEF CallsTyped, Goto, LookupPoints, InsertPoints
    <2>q. QED
        BY <1>10, <2>1, <2>2 DEF LookupPhase3
<1>q. QED
    BY <1>1, <1>2, <1>3, <1>4, <1>5, <1>6, <1>7, <1>8, <1>9, <1>10
    DEF Next, Start, Proceed

LEMMA TablesTypedStep ==
    ASSUME TablesTyped, CallsTyped, [Next]_vars
    PROVE  TablesTyped'
<1>1. CASE UNCHANGED <<tables, monitor, dropped>>
    BY <1>1 DEF TablesTyped, tables
<1>2. ASSUME NEW t \in Tasks, BeginInsert(t) PROVE TablesTyped'
    <2>1. PICK r \in Routes : phase1' = Append(phase1, r)
        BY <1>2 DEF BeginInsert
    <2>2. phase1' \in Seq(Routes)
        BY <2>1, Appended DEF TablesTyped
    <2>q. QED
        BY <1>2, <2>2 DEF BeginInsert, TablesTyped
<1>3. ASSUME NEW t \in Tasks, InsertRoutes(t) PROVE TablesTyped'
    <2>1. phase2' \in Seq(Routes)
        BY <1>3, PointKinds, Appended DEF InsertRoutes, At, CallsTyped, TablesTyped
    <2>q. QED
        BY <1>3, <2>1 DEF InsertRoutes, TablesTyped
<1>4. ASSUME NEW t \in Tasks, InsertPhase3(t) PROVE TablesTyped'
    <2>1. req[t].route \in Routes
        BY <1>4, PointKinds DEF InsertPhase3, At, CallsTyped
    <2>2. sheaf_sections' \in Seq(Routes)
        BY <1>4, <2>1, Appended DEF InsertPhase3, TablesTyped
    <2>3. /\ DOMAIN phase3' = {"radix_table", "patricia_nodes"}
          /\ phase3'.patricia_nodes \in Seq(Routes)
          /\ DOMAIN phase3'.radix_table = RadixSlots
        BY <1>4, <2>1, TrieTyped DEF InsertPhase3
    <2>q. QED
        BY <1>4, <2>2, <2>3 DEF InsertPhase3, TablesTyped
<1>5. ASSUME NEW f, Count(f), UNCHANGED <<tables, dropped>> PROVE TablesTyped'
    BY <1>5 DEF Count, tables, TablesTyped
<1>6. ASSUME NEW t \in Tasks, Cancel(t) PROVE TablesTyped'
    <2>1. dropped' \in [InsertPoints -> [Routes -> Nat]]
        BY <1>6 DEF Cancel, CallsTyped, TablesTyped
    <2>q. QED
        BY <1>6, <2>1 DEF Cancel, tables, TablesTyped
<1>q. QED
    BY <1>1, <1>2, <1>3, <1>4, <1>5, <1>6
    DEF Next, Start, Proceed, vars, tables, BeginLookup, BeginDelete, BeginStats, InsertStats,
        InsertCount, LookupCount, LookupPhase2, LookupStats2, LookupPhase3, LookupDone,
        Delete, Stats

-----------------------------------------------------------------------------
(* No route vanishes: every insertion is accounted for, at the await it waits in. *)
AtFor(points, r) == {t \in Tasks : pc[t] \in points /\ req[t].route = r}
DroppedAt(r) == [p \in InsertPoints |-> dropped[p][r]]

\* A task that moves between the counted ones and the others.
LEMMA AtForMove ==
    ASSUME NEW t \in Tasks, \A u \in Tasks \ {t} : pc'[u] = pc[u] /\ req'[u].route = req[u].route,
           NEW points, NEW r
    PROVE  /\ Cardinality(AtFor(points, r)) \in Nat
           /\ Cardinality(AtFor(points, r)') + One(pc[t] \in points /\ req[t].route = r) =
              Cardinality(AtFor(points, r)) + One(pc'[t] \in points /\ req'[t].route = r)
           /\ Cardinality(AtFor(points, r)') \in Nat
<1> DEFINE S == AtFor(points, r)
           T == AtFor(points, r)'
           U == S \ {t}
<1>0. IsFiniteSet(Tasks)
    BY TcamAssumption
<1>1. S \in SUBSET Tasks /\ T \in SUBSET Tasks /\ T \ {t} = U
    BY DEF AtFor
<1>2. /\ S = IF pc[t] \in points /\ req[t].route = r THEN U \cup {t} ELSE U
      /\ T = IF pc'[t] \in points /\ req'[t].route = r THEN U \cup {t} ELSE U
    <2>1. (t \in S <=> pc[t] \in points /\ req[t].route = r)
          /\ (t \in T <=> pc'[t] \in points /\ req'[t].route = r)
        BY DEF AtFor
    <2> HIDE DEF S, T
    <2>q. QED
        BY <1>1, <2>1
<1>3. IsFiniteSet(U) /\ t \notin U
    BY <1>0, <1>1, FS_Subset
<1>4. Cardinality(U) \in Nat /\ Cardinality(U \cup {t}) = Cardinality(U) + 1
    BY <1>3, FS_CardinalityType, FS_AddElement
<1> HIDE DEF S, T, U
<1>5. /\ Cardinality(S) = Cardinality(U) + One(pc[t] \in points /\ req[t].route = r)
      /\ Cardinality(T) = Cardinality(U) + One(pc'[t] \in points /\ req'[t].route = r)
    BY <1>2, <1>4 DEF One
<1>6. Cardinality(S) \in Nat /\ Cardinality(T) \in Nat
    BY <1>4, <1>5 DEF One
<1>7. /\ One(pc[t] \in points /\ req[t].route = r) \in Nat
      /\ One(pc'[t] \in points /\ req'[t].route = r) \in Nat
    BY DEF One
<1>q. QED
    BY <1>4, <1>5, <1>6, <1>7 DEF S, T

\* What was abandoned at some points, and one insertion more.
LEMMA DroppedCount ==
    ASSUME TablesTyped, NEW points \in SUBSET InsertPoints, NEW r \in Routes
    PROVE  IsFiniteSet(points) /\ SumFunctionOnSet(DroppedAt(r), points) \in Nat
<1>1. IsFiniteSet(InsertPoints)
    <2>1. IsFiniteSet({"p2_routes"} \cup {"p2_stats"})
        BY FS_Singleton, FS_AddElement
    <2>2. IsFiniteSet({"p2_routes"} \cup {"p2_stats"} \cup {"p3_write"})
        BY <2>1, FS_AddElement
    <2>3. IsFiniteSet({"p2_routes"} \cup {"p2_stats"} \cup {"p3_write"} \cup {"p3_inserted"})
        BY <2>2, FS_AddElement
    <2>4. InsertPoints = {"p2_routes"} \cup {"p2_stats"} \cup {"p3_write"} \cup {"p3_inserted"}
        BY DEF InsertPoints
    <2>q. QED
        BY <2>3, <2>4
<1>2. IsFiniteSet(points)
    BY <1>1, FS_Subset
<1>3. \A p \in points : DroppedAt(r)[p] \in Nat
    BY DEF DroppedAt, TablesTyped
<1>q. QED
    BY <1>2, <1>3, SumNat

LEMMA DroppedMore ==
    ASSUME TablesTyped, NEW points \in SUBSET InsertPoints, NEW r \in Routes,
           NEW p \in InsertPoints, NEW q \in Routes,
           dropped' = [dropped EXCEPT ![p][q] = @ + 1]
    PROVE  SumFunctionOnSet(DroppedAt(r)', points) =
              SumFunctionOnSet(DroppedAt(r), points) + One(p \in points /\ q = r)
<1> DEFINE f == DroppedAt(r)
           g == DroppedAt(r)'
<1>0. dropped \in [InsertPoints -> [Routes -> Nat]]
    BY DEF TablesTyped
<1>1. /\ \A x \in InsertPoints : f[x] = dropped[x][r] /\ g[x] = dropped'[x][r]
      /\ dropped' = [dropped EXCEPT ![p][q] = @ + 1]
    BY DEF DroppedAt
<1>2. \A x \in InsertPoints : f[x] \in Nat /\ g[x] = f[x] + One(x = p /\ q = r)
    BY <1>0, <1>1 DEF One
<1>3. IsFiniteSet(points) /\ SumFunctionOnSet(f, points) \in Nat
    BY DroppedCount
<1>4. \A x \in points : f[x] \in Int /\ g[x] \in Int
    BY <1>2 DEF One
<1> HIDE DEF f, g
<1>5. CASE p \in points /\ q = r
    <2>1. \A x \in points \ {p} : g[x] = f[x]
        BY <1>2, <1>4 DEF One
    <2>2. /\ SumFunctionOnSet(f, points) = f[p] + SumFunctionOnSet(f, points \ {p})
          /\ SumFunctionOnSet(g, points) = g[p] + SumFunctionOnSet(f, points \ {p})
          /\ SumFunctionOnSet(f, points \ {p}) \in Int
        <3>0. p \in points /\ IsFiniteSet(points) /\ IsFiniteSet(points \ {p})
            BY <1>3, <1>5, FS_RemoveElement
        <3>1. SumFunctionOnSet(f, points) = f[p] + SumFunctionOnSet(f, points \ {p})
            BY <3>0, <1>4, SumRemove
        <3>2. SumFunctionOnSet(g, points) = g[p] + SumFunctionOnSet(g, points \ {p})
            BY <3>0, <1>4, SumRemove
        <3>3. SumFunctionOnSet(g, points \ {p}) = SumFunctionOnSet(f, points \ {p})
            BY <3>0, <2>1, SumAgree
        <3>4. SumFunctionOnSet(f, points \ {p}) \in Int
            <4>1. \A x \in points \ {p} : f[x] \in Int
                BY <1>4
            <4>q. QED
                BY <3>0, <4>1, SumInt
        <3>q. QED
            BY <3>1, <3>2, <3>3, <3>4
    <2>3. g[p] = f[p] + 1 /\ f[p] \in Int
        BY <1>2, <1>5 DEF One
    <2>4. One(p \in points /\ q = r) = 1
        BY <1>5 DEF One
    <2>q. QED
        BY <2>2, <2>3, <2>4 DEF f, g
<1>6. CASE ~ (p \in points /\ q = r)
    <2>1. \A x \in points : g[x] = f[x]
        BY <1>2, <1>4, <1>6 DEF One
    <2>2. SumFunctionOnSet(g, points) = SumFunctionOnSet(f, points)
        BY <1>3, <2>1, SumAgree
    <2>3. One(p \in points /\ q = r) = 0
        BY <1>6 DEF One
    <2>q. QED
        BY <1>3, <2>2, <2>3 DEF f, g
<1>q. QED
    BY <1>5, <1>6

\* The insertions under way or abandoned at some points, over a step.
LEMMA InsertingType ==
    ASSUME TablesTyped, NEW points \in SUBSET InsertPoints, NEW r \in Routes
    PROVE  /\ Inserting(points, r) \in Nat
           /\ Inserting(points, r) =
                Cardinality(AtFor(points, r)) + SumFunctionOnSet(DroppedAt(r), points)
<1>1. Cardinality(AtFor(points, r)) \in Nat
    <2>1. IsFiniteSet(AtFor(points, r))
        BY TcamAssumption, FS_Subset DEF AtFor
    <2>q. QED
        BY <2>1, FS_CardinalityType
<1>2. Inserting(points, r) =
         Cardinality(AtFor(points, r)) + SumFunctionOnSet(DroppedAt(r), points)
    BY DEF Inserting, AtFor, DroppedAt
<1>q. QED
    BY <1>1, <1>2, DroppedCount

LEMMA InsertingMove ==
    ASSUME TablesTyped, TablesTyped', NEW t \in Tasks,
           \A u \in Tasks \ {t} : pc'[u] = pc[u] /\ req'[u].route = req[u].route,
           dropped' = dropped, NEW points \in SUBSET InsertPoints, NEW r \in Routes
    PROVE  /\ Inserting(points, r) \in Nat /\ Inserting(points, r)' \in Nat
           /\ Inserting(points, r)' + One(pc[t] \in points /\ req[t].route = r) =
              Inserting(points, r) + One(pc'[t] \in points /\ req'[t].route = r)
<1> DEFINE a == Cardinality(AtFor(points, r))
           b == Cardinality(AtFor(points, r)')
           d == SumFunctionOnSet(DroppedAt(r), points)
           old == One(pc[t] \in points /\ req[t].route = r)
           new == One(pc'[t] \in points /\ req'[t].route = r)
<1>1. a \in Nat /\ b \in Nat /\ b + old = a + new
    BY AtForMove
<1>2. Inserting(points, r) = a + d /\ d \in Nat
    BY InsertingType, DroppedCount
<1>3. Inserting(points, r)' = b + d
    <2>1. DroppedAt(r)' = DroppedAt(r)
        BY DEF DroppedAt
    <2>2. Inserting(points, r)' = b + SumFunctionOnSet(DroppedAt(r)', points)
        BY DEF Inserting, AtFor, DroppedAt
    <2>q. QED
        BY <2>1, <2>2
<1>4. old \in Nat /\ new \in Nat
    BY DEF One
<1> HIDE DEF a, b, d, old, new
<1>5. /\ Inserting(points, r) \in Nat /\ Inserting(points, r)' \in Nat
      /\ Inserting(points, r)' + old = Inserting(points, r) + new
    BY <1>1, <1>2, <1>3, <1>4
<1>q. QED
    BY <1>5 DEF old, new

LEMMA InsertingDrop ==
    ASSUME TablesTyped, CallsTyped, NEW t \in Tasks, Cancel(t),
           NEW points \in SUBSET InsertPoints, NEW r \in Routes
    PROVE  Inserting(points, r)' = Inserting(points, r)
<1> DEFINE a == Cardinality(AtFor(points, r))
           b == Cardinality(AtFor(points, r)')
           d == SumFunctionOnSet(DroppedAt(r), points)
           e == SumFunctionOnSet(DroppedAt(r)', points)
           old == One(pc[t] \in points /\ req[t].route = r)
<1>0. /\ \A u \in Tasks \ {t} : pc'[u] = pc[u] /\ req'[u].route = req[u].route
      /\ pc'[t] = "idle"
    BY DEF Cancel, Return, Goto, CallsTyped
<1>1. a \in Nat /\ b \in Nat /\ b + old = a
    <2>1. /\ a \in Nat /\ b \in Nat
          /\ b + old = a + One(pc'[t] \in points /\ req'[t].route = r)
        BY <1>0, AtForMove
    <2>2. One(pc'[t] \in points /\ req'[t].route = r) = 0
        BY <1>0, PointKinds DEF One
    <2>q. QED
        BY <2>1, <2>2
<1>2. Inserting(points, r) = a + d /\ d \in Nat
    BY InsertingType, DroppedCount
<1>3. Inserting(points, r)' = b + e
    BY DEF Inserting, AtFor, DroppedAt
<1>4. e = d + old
    <2>1. CASE pc[t] \in InsertPoints
        <3>1. req[t].route \in Routes
            BY <2>1 DEF CallsTyped
        <3>2. dropped' = [dropped EXCEPT ![pc[t]][req[t].route] = @ + 1]
            BY <2>1 DEF Cancel
        <3>q. QED
            BY <2>1, <3>1, <3>2, DroppedMore
    <2>2. CASE pc[t] \notin InsertPoints
        <3>1. dropped' = dropped /\ pc[t] \notin points
            BY <2>2 DEF Cancel
        <3>2. e = d
            BY <3>1 DEF DroppedAt
        <3>3. old = 0
            BY <3>1 DEF One
        <3>q. QED
            BY <3>2, <3>3, <1>2
    <2>q. QED
        BY <2>1, <2>2
<1>5. old \in Nat
    BY DEF One
<1> HIDE DEF a, b, d, e, old
<1>q. QED
    BY <1>1, <1>2, <1>3, <1>4, <1>5

\* The same, as a step of one call sees it.
Moves(t) == \A u \in Tasks \ {t} : pc'[u] = pc[u] /\ req'[u] = req[u]

FirstWait == {"p2_routes"}
SecondWait == {"p2_stats", "p3_write"}

Conserved ==
    \A r \in Routes :
        /\ Copies(phase1, r) = Copies(phase2, r) + Inserting(FirstWait, r)
        /\ Copies(phase2, r) = Copies(sheaf_sections, r) + Inserting(SecondWait, r)

\* A step that does not insert, and that moves a call between places that are not
\* counted, or within the second ones.
LEMMA ConservedQuiet ==
    ASSUME TablesTyped, TablesTyped', Conserved, NEW t \in Tasks, Moves(t), UNCHANGED tables,
           dropped' = dropped,
           pc[t] \notin FirstWait /\ pc'[t] \notin FirstWait,
           \/ pc[t] \notin SecondWait /\ pc'[t] \notin SecondWait
           \/ pc[t] \in SecondWait /\ pc'[t] \in SecondWait /\ req'[t] = req[t]
    PROVE  Conserved'
<1> SUFFICES ASSUME NEW r \in Routes
             PROVE /\ Copies(phase1, r)' = Copies(phase2, r)' + Inserting(FirstWait, r)'
                   /\ Copies(phase2, r)' = Copies(sheaf_sections, r)' + Inserting(SecondWait, r)'
    BY DEF Conserved
<1>0. FirstWait \in SUBSET InsertPoints /\ SecondWait \in SUBSET InsertPoints
    BY DEF FirstWait, SecondWait, InsertPoints
<1>1. \A u \in Tasks \ {t} : pc'[u] = pc[u] /\ req'[u].route = req[u].route
    BY DEF Moves
<1>2. Inserting(FirstWait, r)' = Inserting(FirstWait, r)
    <2>1. /\ Inserting(FirstWait, r) \in Nat /\ Inserting(FirstWait, r)' \in Nat
          /\ Inserting(FirstWait, r)' + One(pc[t] \in FirstWait /\ req[t].route = r) =
             Inserting(FirstWait, r) + One(pc'[t] \in FirstWait /\ req'[t].route = r)
        BY <1>0, <1>1, InsertingMove
    <2>2. /\ One(pc[t] \in FirstWait /\ req[t].route = r) = 0
          /\ One(pc'[t] \in FirstWait /\ req'[t].route = r) = 0
        BY DEF One
    <2>q. QED
        BY <2>1, <2>2
<1>3. Inserting(SecondWait, r)' = Inserting(SecondWait, r)
    <2>1. /\ Inserting(SecondWait, r) \in Nat /\ Inserting(SecondWait, r)' \in Nat
          /\ Inserting(SecondWait, r)' + One(pc[t] \in SecondWait /\ req[t].route = r) =
             Inserting(SecondWait, r) + One(pc'[t] \in SecondWait /\ req'[t].route = r)
        BY <1>0, <1>1, InsertingMove
    <2>2. /\ One(pc[t] \in SecondWait /\ req[t].route = r) =
             One(pc'[t] \in SecondWait /\ req'[t].route = r)
          /\ One(pc[t] \in SecondWait /\ req[t].route = r) \in Nat
        BY DEF One
    <2>q. QED
        BY <2>1, <2>2
<1>q. QED
    BY <1>2, <1>3 DEF Conserved, tables

-----------------------------------------------------------------------------
\* A step that inserts nothing: it moves one call, neither from nor to an insertion.
Quiet(t) ==
    /\ Moves(t) /\ UNCHANGED <<tables, dropped, acked>> /\ monitor'.inserts = monitor.inserts
    /\ pc[t] \notin InsertPoints /\ pc'[t] \notin InsertPoints
    /\ req'[t].known \in {{}, acked, req[t].known}

\* Where a call goes, and that the others stay.
LEMMA GoneTo ==
    ASSUME CallsTyped, NEW t \in Tasks, NEW p, Goto(t, p),
           \/ req' = req
           \/ \E x : req' = [req EXCEPT ![t] = x]
           \/ \E x : req' = [req EXCEPT ![t].route = x]
    PROVE  pc'[t] = p /\ Moves(t)
BY DEF CallsTyped, Goto, Moves

\* A counter other than that of insertions.
LEMMA CountedElsewhere ==
    ASSUME TablesTyped, NEW f, f # "inserts", Count(f)
    PROVE  monitor'.inserts = monitor.inserts
BY DEF TablesTyped, Count

\* Every step is one of the insertion, a cancellation, or quiet.
LEMMA StepKinds ==
    ASSUME TablesTyped, CallsTyped, [Next]_vars
    PROVE  \/ UNCHANGED vars
           \/ \E t \in Tasks : \/ BeginInsert(t) \/ InsertRoutes(t) \/ InsertStats(t)
                               \/ InsertPhase3(t) \/ InsertCount(t) \/ Cancel(t) \/ Quiet(t)
<1>1. ASSUME NEW t \in Tasks, BeginLookup(t) PROVE Quiet(t)
    <2>1. PICK q \in Queries : req' = [req EXCEPT ![t] = [NoReq EXCEPT !.ip = q, !.known = acked]]
        BY <1>1 DEF BeginLookup
    <2>2. pc'[t] = "count" /\ Moves(t)
        BY <1>1, <2>1, GoneTo DEF BeginLookup
    <2>3. req'[t].known = acked
        BY <2>1 DEF CallsTyped, NoReq
    <2>q. QED
        BY <1>1, <2>2, <2>3, PointKinds DEF Quiet, BeginLookup, InsertPoints
<1>2. ASSUME NEW t \in Tasks, BeginDelete(t) \/ BeginStats(t) PROVE Quiet(t)
    <2>1. pc'[t] \in {"delete", "stats"} /\ Moves(t) /\ req' = req
        BY <1>2, GoneTo DEF BeginDelete, BeginStats
    <2>q. QED
        BY <1>2, <2>1, PointKinds DEF Quiet, BeginDelete, BeginStats, InsertPoints
<1>r. ASSUME NEW t \in Tasks, Return(t)
      PROVE  pc'[t] = "idle" /\ Moves(t) /\ req'[t].known = {}
    <2>1. pc'[t] = "idle" /\ Moves(t)
        BY <1>r, GoneTo DEF Return
    <2>2. req'[t].known = {}
        BY <1>r DEF Return, CallsTyped, NoReq
    <2>q. QED
        BY <2>1, <2>2
<1>a. ASSUME NEW t \in Tasks, NEW x, req' = [req EXCEPT ![t].route = x]
      PROVE  req'[t].known = req[t].known
    BY <1>a DEF CallsTyped
<1>3. ASSUME NEW t \in Tasks, LookupCount(t) PROVE Quiet(t)
    <2>1. pc[t] = "count" /\ UNCHANGED <<tables, dropped, acked>>
        BY <1>3 DEF LookupCount, At
    <2>2. monitor'.inserts = monitor.inserts
        BY <1>3, CountedElsewhere DEF LookupCount
    <2>3. CASE Return(t)
        BY <2>1, <2>2, <2>3, <1>r, PointKinds DEF Quiet, InsertPoints
    <2>4. CASE Goto(t, "p1_hit") /\ req' = [req EXCEPT ![t].route = ahgf_lookup(phase1, req[t].ip)]
        <3>1. pc'[t] = "p1_hit" /\ Moves(t)
            BY <2>4, GoneTo
        <3>q. QED
            BY <2>1, <2>2, <2>4, <3>1, <1>a DEF Quiet, InsertPoints
    <2>5. CASE (Goto(t, "p2_read") \/ Goto(t, "p3_read")) /\ req' = req
        <3>1. pc'[t] \in {"p2_read", "p3_read"} /\ Moves(t)
            BY <2>5, GoneTo
        <3>q. QED
            BY <2>1, <2>2, <2>5, <3>1 DEF Quiet, InsertPoints
    <2>q. QED
        BY <1>3, <2>3, <2>4, <2>5 DEF LookupCount
<1>4. ASSUME NEW t \in Tasks, LookupPhase2(t) PROVE Quiet(t)
    <2>1. pc'[t] = "p2_hit" /\ Moves(t) /\ req'[t].known = req[t].known
        BY <1>4, GoneTo, <1>a DEF LookupPhase2
    <2>q. QED
        BY <1>4, <2>1 DEF Quiet, LookupPhase2, At, InsertPoints
<1>5. ASSUME NEW t \in Tasks, LookupStats2(t) PROVE Quiet(t)
    <2>1. pc'[t] = "p2_counted" /\ Moves(t) /\ req' = req
        BY <1>5, GoneTo DEF LookupStats2
    <2>q. QED
        BY <1>5, <2>1 DEF Quiet, LookupStats2, At, InsertPoints
<1>6. ASSUME NEW t \in Tasks, LookupPhase3(t) PROVE Quiet(t)
    <2>1. CASE Return(t)
        BY <1>6, <2>1, <1>r DEF Quiet, LookupPhase3, At, InsertPoints
    <2>2. CASE Goto(t, "p3_hit") /\ req' = [req EXCEPT ![t].route = scrtt_lookup(phase3, req[t].ip)]
        <3>1. pc'[t] = "p3_hit" /\ Moves(t) /\ req'[t].known = req[t].known
            BY <2>2, GoneTo, <1>a
        <3>q. QED
            BY <1>6, <3>1 DEF Quiet, LookupPhase3, At, InsertPoints
    <2>q. QED
        BY <1>6, <2>1, <2>2 DEF LookupPhase3
<1>7. ASSUME NEW t \in Tasks, LookupDone(t) \/ Delete(t) \/ Stats(t) PROVE Quiet(t)
    <2>1. pc'[t] = "idle" /\ Moves(t) /\ req'[t].known = {}
        BY <1>7, <1>r DEF LookupDone, Delete, Stats
    <2>2. monitor'.inserts = monitor.inserts
        BY <1>7, CountedElsewhere DEF LookupDone, Delete, Stats
    <2>3. pc[t] \in {"p1_hit", "p2_counted", "p3_hit", "delete", "stats"}
        BY <1>7 DEF LookupDone, Delete, Stats, At
    <2>q. QED
        BY <1>7, <2>1, <2>2, <2>3 DEF Quiet, LookupDone, Delete, Stats, InsertPoints
<1>q. QED
    BY <1>1, <1>2, <1>3, <1>4, <1>5, <1>6, <1>7 DEF Next, Start, Proceed

\* What was inserted, over a step of the call that inserts.
LEMMA ConservedStep ==
    ASSUME TablesTyped, TablesTyped', CallsTyped, Conserved, [Next]_vars
    PROVE  Conserved'
<1>0. FirstWait \in SUBSET InsertPoints /\ SecondWait \in SUBSET InsertPoints
    BY DEF FirstWait, SecondWait, InsertPoints
<1>1. CASE UNCHANGED vars
    BY <1>1 DEF vars, Conserved, Copies, Inserting
<1>2. ASSUME NEW t \in Tasks, BeginInsert(t) PROVE Conserved'
    <2>1. PICK q \in Routes :
             /\ phase1' = Append(phase1, q) /\ req' = [req EXCEPT ![t] = [NoReq EXCEPT !.route = q]]
        BY <1>2 DEF BeginInsert
    <2>2. pc'[t] = "p2_routes" /\ Moves(t) /\ pc[t] = "idle" /\ dropped' = dropped
        BY <1>2, <2>1, GoneTo DEF BeginInsert
    <2>3. req'[t].route = q
        BY <2>1 DEF CallsTyped, NoReq
    <2> SUFFICES ASSUME NEW r \in Routes
                 PROVE /\ Copies(phase1', r) = Copies(phase2, r) + Inserting(FirstWait, r)'
                       /\ Copies(phase2, r) = Copies(sheaf_sections, r) + Inserting(SecondWait, r)'
        BY <1>2 DEF Conserved, BeginInsert, Copies
    <2>4. Copies(phase1', r) = Copies(phase1, r) + One(q = r)
        BY <2>1, CopiesAppended DEF TablesTyped
    <2>5. /\ Inserting(FirstWait, r) \in Nat /\ Inserting(FirstWait, r)' \in Nat
          /\ Inserting(FirstWait, r)' + One(pc[t] \in FirstWait /\ req[t].route = r) =
             Inserting(FirstWait, r) + One(pc'[t] \in FirstWait /\ req'[t].route = r)
        BY <1>0, <2>2, InsertingMove DEF Moves
    <2>6. /\ Inserting(SecondWait, r) \in Nat /\ Inserting(SecondWait, r)' \in Nat
          /\ Inserting(SecondWait, r)' + One(pc[t] \in SecondWait /\ req[t].route = r) =
             Inserting(SecondWait, r) + One(pc'[t] \in SecondWait /\ req'[t].route = r)
        BY <1>0, <2>2, InsertingMove DEF Moves
    <2>7. /\ One(pc[t] \in FirstWait /\ req[t].route = r) = 0
          /\ One(pc'[t] \in FirstWait /\ req'[t].route = r) = One(q = r)
          /\ One(pc[t] \in SecondWait /\ req[t].route = r) = 0
          /\ One(pc'[t] \in SecondWait /\ req'[t].route = r) = 0
          /\ One(q = r) \in Nat
        BY <2>2, <2>3 DEF One, FirstWait, SecondWait
    <2>8. Copies(phase2, r) \in Nat /\ Copies(sheaf_sections, r) \in Nat
        BY CopiesCount DEF TablesTyped
    <2>q. QED
        BY <2>4, <2>5, <2>6, <2>7, <2>8 DEF Conserved
<1>3. ASSUME NEW t \in Tasks, InsertRoutes(t) PROVE Conserved'
    <2> DEFINE q == req[t].route
    <2>1. phase2' = Append(phase2, q) /\ req' = req /\ q \in Routes
        BY <1>3, PointKinds DEF InsertRoutes, At, CallsTyped
    <2>2. pc'[t] = "p2_stats" /\ Moves(t) /\ pc[t] = "p2_routes" /\ dropped' = dropped
        BY <1>3, <2>1, GoneTo DEF InsertRoutes, At
    <2> SUFFICES ASSUME NEW r \in Routes
                 PROVE /\ Copies(phase1, r) = Copies(phase2', r) + Inserting(FirstWait, r)'
                       /\ Copies(phase2', r) = Copies(sheaf_sections, r) + Inserting(SecondWait, r)'
        BY <1>3 DEF Conserved, InsertRoutes, Copies
    <2>4. Copies(phase2', r) = Copies(phase2, r) + One(q = r)
        BY <2>1, CopiesAppended DEF TablesTyped
    <2>5. /\ Inserting(FirstWait, r) \in Nat /\ Inserting(FirstWait, r)' \in Nat
          /\ Inserting(FirstWait, r)' + One(pc[t] \in FirstWait /\ req[t].route = r) =
             Inserting(FirstWait, r) + One(pc'[t] \in FirstWait /\ req'[t].route = r)
        BY <1>0, <2>2, InsertingMove DEF Moves
    <2>6. /\ Inserting(SecondWait, r) \in Nat /\ Inserting(SecondWait, r)' \in Nat
          /\ Inserting(SecondWait, r)' + One(pc[t] \in SecondWait /\ req[t].route = r) =
             Inserting(SecondWait, r) + One(pc'[t] \in SecondWait /\ req'[t].route = r)
        BY <1>0, <2>2, InsertingMove DEF Moves
    <2>7. /\ One(pc[t] \in FirstWait /\ req[t].route = r) = One(q = r)
          /\ One(pc'[t] \in FirstWait /\ req'[t].route = r) = 0
          /\ One(pc[t] \in SecondWait /\ req[t].route = r) = 0
          /\ One(pc'[t] \in SecondWait /\ req'[t].route = r) = One(q = r)
          /\ One(q = r) \in Nat
        BY <2>1, <2>2 DEF One, FirstWait, SecondWait
    <2>8. Copies(phase2, r) \in Nat /\ Copies(sheaf_sections, r) \in Nat
        BY CopiesCount DEF TablesTyped
    <2> HIDE DEF q
    <2>q. QED
        BY <2>4, <2>5, <2>6, <2>7, <2>8 DEF Conserved
<1>4. ASSUME NEW t \in Tasks, InsertStats(t) PROVE Conserved'
    <2>1. pc'[t] = "p3_write" /\ Moves(t) /\ pc[t] = "p2_stats" /\ req' = req
        BY <1>4, GoneTo DEF InsertStats, At
    <2>q. QED
        BY <1>4, <2>1, ConservedQuiet DEF InsertStats, FirstWait, SecondWait
<1>5. ASSUME NEW t \in Tasks, InsertPhase3(t) PROVE Conserved'
    <2> DEFINE q == req[t].route
    <2>1. sheaf_sections' = Append(sheaf_sections, q) /\ req' = req /\ q \in Routes
        BY <1>5, PointKinds DEF InsertPhase3, At, CallsTyped
    <2>2. pc'[t] = "p3_inserted" /\ Moves(t) /\ pc[t] = "p3_write" /\ dropped' = dropped
        BY <1>5, <2>1, GoneTo DEF InsertPhase3, At
    <2> SUFFICES ASSUME NEW r \in Routes
                 PROVE /\ Copies(phase1, r) = Copies(phase2, r) + Inserting(FirstWait, r)'
                       /\ Copies(phase2, r) = Copies(sheaf_sections', r) + Inserting(SecondWait, r)'
        BY <1>5 DEF Conserved, InsertPhase3, Copies
    <2>4. Copies(sheaf_sections', r) = Copies(sheaf_sections, r) + One(q = r)
        BY <2>1, CopiesAppended DEF TablesTyped
    <2>5. /\ Inserting(FirstWait, r) \in Nat /\ Inserting(FirstWait, r)' \in Nat
          /\ Inserting(FirstWait, r)' + One(pc[t] \in FirstWait /\ req[t].route = r) =
             Inserting(FirstWait, r) + One(pc'[t] \in FirstWait /\ req'[t].route = r)
        BY <1>0, <2>2, InsertingMove DEF Moves
    <2>6. /\ Inserting(SecondWait, r) \in Nat /\ Inserting(SecondWait, r)' \in Nat
          /\ Inserting(SecondWait, r)' + One(pc[t] \in SecondWait /\ req[t].route = r) =
             Inserting(SecondWait, r) + One(pc'[t] \in SecondWait /\ req'[t].route = r)
        BY <1>0, <2>2, InsertingMove DEF Moves
    <2>7. /\ One(pc[t] \in FirstWait /\ req[t].route = r) = 0
          /\ One(pc'[t] \in FirstWait /\ req'[t].route = r) = 0
          /\ One(pc[t] \in SecondWait /\ req[t].route = r) = One(q = r)
          /\ One(pc'[t] \in SecondWait /\ req'[t].route = r) = 0
          /\ One(q = r) \in Nat
        BY <2>1, <2>2 DEF One, FirstWait, SecondWait
    <2>8. Copies(phase2, r) \in Nat /\ Copies(sheaf_sections, r) \in Nat
        BY CopiesCount DEF TablesTyped
    <2> HIDE DEF q
    <2>q. QED
        BY <2>4, <2>5, <2>6, <2>7, <2>8 DEF Conserved
<1>6. ASSUME NEW t \in Tasks, InsertCount(t) PROVE Conserved'
    <2>1. pc'[t] = "idle" /\ Moves(t) /\ pc[t] = "p3_inserted"
        BY <1>6, GoneTo DEF InsertCount, At, Return
    <2>q. QED
        BY <1>6, <2>1, ConservedQuiet DEF InsertCount, FirstWait, SecondWait
<1>7. ASSUME NEW t \in Tasks, Cancel(t) PROVE Conserved'
    <2>1. \A r \in Routes : /\ Inserting(FirstWait, r)' = Inserting(FirstWait, r)
                            /\ Inserting(SecondWait, r)' = Inserting(SecondWait, r)
        BY <1>0, <1>7, InsertingDrop
    <2>2. UNCHANGED <<phase1, phase2, sheaf_sections>>
        BY <1>7 DEF Cancel, tables
    <2>q. QED
        BY <2>1, <2>2 DEF Conserved, Copies
<1>8. ASSUME NEW t \in Tasks, Quiet(t) PROVE Conserved'
    <2>1. FirstWait \cup SecondWait \subseteq InsertPoints
        BY <1>0
    <2>q. QED
        BY <1>8, <2>1, ConservedQuiet DEF Quiet
<1>q. QED
    BY <1>1, <1>2, <1>3, <1>4, <1>5, <1>6, <1>7, <1>8, StepKinds

-----------------------------------------------------------------------------
\* The monitor's count of insertions: every route of phase 3 is counted, about to be,
\* or was abandoned where it waited for the count.
Counting == {t \in Tasks : pc[t] = "p3_inserted"}
Counted ==
    /\ monitor.inserts + Cardinality(Counting) <= Len(sheaf_sections)
    /\ (\A r \in Routes : dropped["p3_inserted"][r] = 0)
          => monitor.inserts + Cardinality(Counting) = Len(sheaf_sections)

\* Those about to count, over a step of one call.
LEMMA CountingMove ==
    ASSUME NEW t \in Tasks, Moves(t)
    PROVE  /\ Cardinality(Counting) \in Nat /\ Cardinality(Counting') \in Nat
           /\ Cardinality(Counting') + One(pc[t] = "p3_inserted") =
              Cardinality(Counting) + One(pc'[t] = "p3_inserted")
<1> DEFINE S == Counting
           T == Counting'
           U == S \ {t}
<1>1. S \in SUBSET Tasks /\ T \in SUBSET Tasks /\ T \ {t} = U
    BY DEF Counting, Moves
<1>2. /\ S = IF pc[t] = "p3_inserted" THEN U \cup {t} ELSE U
      /\ T = IF pc'[t] = "p3_inserted" THEN U \cup {t} ELSE U
    <2>1. (t \in S <=> pc[t] = "p3_inserted") /\ (t \in T <=> pc'[t] = "p3_inserted")
        BY DEF Counting
    <2> HIDE DEF S, T
    <2>q. QED
        BY <1>1, <2>1
<1>3. IsFiniteSet(U) /\ t \notin U
    BY TcamAssumption, <1>1, FS_Subset
<1>4. Cardinality(U) \in Nat /\ Cardinality(U \cup {t}) = Cardinality(U) + 1
    BY <1>3, FS_CardinalityType, FS_AddElement
<1> HIDE DEF S, T, U
<1>5. /\ Cardinality(S) = Cardinality(U) + One(pc[t] = "p3_inserted")
      /\ Cardinality(T) = Cardinality(U) + One(pc'[t] = "p3_inserted")
    BY <1>2, <1>4 DEF One
<1>6. One(pc[t] = "p3_inserted") \in Nat /\ One(pc'[t] = "p3_inserted") \in Nat
    BY DEF One
<1>q. QED
    BY <1>4, <1>5, <1>6 DEF S, T

\* A step that counts nothing and inserts nothing in phase 3.
LEMMA CountedQuiet ==
    ASSUME Counted, NEW t \in Tasks, Moves(t), sheaf_sections' = sheaf_sections,
           dropped' = dropped, monitor'.inserts = monitor.inserts,
           pc[t] # "p3_inserted", pc'[t] # "p3_inserted"
    PROVE  Counted'
<1>1. Counting' = Counting
    BY DEF Counting, Moves
<1>q. QED
    BY <1>1 DEF Counted

LEMMA CountedStep ==
    ASSUME TablesTyped, CallsTyped, Counted, [Next]_vars
    PROVE  Counted'
<1>0. monitor.inserts \in Nat /\ Len(sheaf_sections) \in Nat
    BY LenProperties DEF TablesTyped
<1>1. CASE UNCHANGED vars
    BY <1>1 DEF vars, Counted, Counting
<1>2. ASSUME NEW t \in Tasks, BeginInsert(t) PROVE Counted'
    <2>1. pc'[t] = "p2_routes" /\ Moves(t) /\ pc[t] = "idle"
        BY <1>2, GoneTo DEF BeginInsert
    <2>q. QED
        BY <1>2, <2>1, CountedQuiet DEF BeginInsert
<1>3. ASSUME NEW t \in Tasks, InsertRoutes(t) PROVE Counted'
    <2>1. pc'[t] = "p2_stats" /\ Moves(t) /\ pc[t] = "p2_routes"
        BY <1>3, GoneTo DEF InsertRoutes, At
    <2>q. QED
        BY <1>3, <2>1, CountedQuiet DEF InsertRoutes
<1>4. ASSUME NEW t \in Tasks, InsertStats(t) PROVE Counted'
    <2>1. pc'[t] = "p3_write" /\ Moves(t) /\ pc[t] = "p2_stats"
        BY <1>4, GoneTo DEF InsertStats, At
    <2>q. QED
        BY <1>4, <2>1, CountedQuiet DEF InsertStats, tables
<1>5. ASSUME NEW t \in Tasks, InsertPhase3(t) PROVE Counted'
    <2>1. pc'[t] = "p3_inserted" /\ Moves(t) /\ pc[t] = "p3_write" /\ req[t].route \in Routes
        BY <1>5, GoneTo, PointKinds DEF InsertPhase3, At, CallsTyped
    <2>2. Len(sheaf_sections') = Len(sheaf_sections) + 1
        BY <1>5, <2>1, AppendProperties DEF InsertPhase3, TablesTyped
    <2>3. /\ Cardinality(Counting) \in Nat
          /\ Cardinality(Counting') = Cardinality(Counting) + 1
        <3>1. /\ Cardinality(Counting) \in Nat /\ Cardinality(Counting') \in Nat
              /\ Cardinality(Counting') + One(pc[t] = "p3_inserted") =
                 Cardinality(Counting) + One(pc'[t] = "p3_inserted")
            BY <2>1, CountingMove
        <3>2. One(pc[t] = "p3_inserted") = 0 /\ One(pc'[t] = "p3_inserted") = 1
            BY <2>1 DEF One
        <3>q. QED
            BY <3>1, <3>2
    <2>4. monitor' = monitor /\ dropped' = dropped
        BY <1>5 DEF InsertPhase3
    <2>q. QED
        BY <1>0, <2>2, <2>3, <2>4 DEF Counted
<1>6. ASSUME NEW t \in Tasks, InsertCount(t) \/ Cancel(t) PROVE Counted'
    <2>1. pc'[t] = "idle" /\ Moves(t) /\ sheaf_sections' = sheaf_sections
        BY <1>6, GoneTo DEF InsertCount, Cancel, Return, tables
    <2>2. /\ Cardinality(Counting) \in Nat /\ Cardinality(Counting') \in Nat
          /\ Cardinality(Counting') + One(pc[t] = "p3_inserted") = Cardinality(Counting)
        <3>1. /\ Cardinality(Counting) \in Nat /\ Cardinality(Counting') \in Nat
              /\ Cardinality(Counting') + One(pc[t] = "p3_inserted") =
                 Cardinality(Counting) + One(pc'[t] = "p3_inserted")
            BY <2>1, CountingMove
        <3>2. One(pc'[t] = "p3_inserted") = 0
            BY <2>1 DEF One
        <3>q. QED
            BY <3>1, <3>2
    <2>3. CASE InsertCount(t)
        <3>1. monitor'.inserts = monitor.inserts + 1 /\ dropped' = dropped
            BY <2>3 DEF InsertCount, Count, TablesTyped
        <3>2. One(pc[t] = "p3_inserted") = 1
            BY <2>3 DEF InsertCount, At, One
        <3>q. QED
            BY <1>0, <2>1, <2>2, <3>1, <3>2 DEF Counted
    <2>4. CASE Cancel(t) /\ pc[t] = "p3_inserted"
        <3>1. monitor' = monitor /\ One(pc[t] = "p3_inserted") = 1
            BY <2>4 DEF Cancel, One
        <3>2. ~ \A r \in Routes : dropped'["p3_inserted"][r] = 0
            <4>1. req[t].route \in Routes /\ "p3_inserted" \in InsertPoints
                BY <2>4, PointKinds DEF CallsTyped
            <4>2. dropped' = [dropped EXCEPT !["p3_inserted"][req[t].route] = @ + 1]
                BY <2>4, <4>1 DEF Cancel
            <4>3. /\ dropped'["p3_inserted"][req[t].route] =
                        dropped["p3_inserted"][req[t].route] + 1
                  /\ dropped["p3_inserted"][req[t].route] \in Nat
                BY <4>1, <4>2 DEF TablesTyped
            <4>q. QED
                BY <4>1, <4>3
        <3>q. QED
            BY <1>0, <2>1, <2>2, <3>1, <3>2 DEF Counted
    <2>5. CASE Cancel(t) /\ pc[t] # "p3_inserted"
        <3>1. monitor' = monitor /\ One(pc[t] = "p3_inserted") = 0
            BY <2>5 DEF Cancel, One
        <3>2. dropped'["p3_inserted"] = dropped["p3_inserted"]
            BY <2>5 DEF Cancel, TablesTyped
        <3>q. QED
            BY <1>0, <2>1, <2>2, <3>1, <3>2 DEF Counted
    <2>q. QED
        BY <1>6, <2>3, <2>4, <2>5
<1>7. ASSUME NEW t \in Tasks, Quiet(t) PROVE Counted'
    <2>1. pc[t] # "p3_inserted" /\ pc'[t] # "p3_inserted"
        BY <1>7, PointKinds DEF Quiet
    <2>q. QED
        BY <1>7, <2>1, CountedQuiet DEF Quiet, tables
<1>q. QED
    BY <1>1, <1>2, <1>3, <1>4, <1>5, <1>6, <1>7, StepKinds

\* The empty tables.
LEMMA ConservedInit == Init => Conserved /\ Counted
<1> SUFFICES ASSUME Init PROVE Conserved /\ Counted
    OBVIOUS
<1>0. FirstWait \in SUBSET InsertPoints /\ SecondWait \in SUBSET InsertPoints
    BY DEF FirstWait, SecondWait, InsertPoints
<1>1. ASSUME NEW r PROVE Copies(<<>>, r) = 0
    <2>1. {i \in DOMAIN <<>> : <<>>[i] = r} = {}
        OBVIOUS
    <2>q. QED
        BY <2>1, FS_EmptySet DEF Copies
<1>2. ASSUME NEW points \in SUBSET InsertPoints, NEW r \in Routes
      PROVE  Inserting(points, r) = 0
    <2>1. AtFor(points, r) = {}
        BY <1>2, PointKinds DEF Init, AtFor
    <2>2. IsFiniteSet(points)
        BY TypedInit, DroppedCount
    <2>3. \A p \in points : DroppedAt(r)[p] = 0
        BY DEF DroppedAt, Init
    <2>4. SumFunctionOnSet(DroppedAt(r), points) = 0
        BY <2>2, <2>3, SumZero
    <2>q. QED
        BY <2>1, <2>4, TypedInit, InsertingType, FS_EmptySet
<1>3. Conserved
    BY <1>0, <1>1, <1>2 DEF Conserved, Init
<1>4. Counting = {} /\ Len(sheaf_sections) = 0 /\ monitor.inserts = 0
    BY EmptySeq DEF Counting, Init
<1>5. Counted
    BY <1>4, FS_EmptySet DEF Counted
<1>q. QED
    BY <1>3, <1>5

\* Insertions are conserved, whatever calls overlap and wherever they are dropped.
THEOREM RoutesConserved == Spec => []NoRouteVanishes
<1> DEFINE Inv == TablesTyped /\ CallsTyped /\ Conserved /\ Counted
<1>1. Init => Inv
    BY TypedInit, ConservedInit
<1>2. Inv /\ [Next]_vars => Inv'
    BY CallsTypedStep, TablesTypedStep, ConservedStep, CountedStep
<1>3. Inv => NoRouteVanishes
    <2> SUFFICES ASSUME Inv PROVE NoRouteVanishes
        OBVIOUS
    <2>1. monitor.inserts \in Nat /\ Len(sheaf_sections) \in Nat
        BY LenProperties DEF TablesTyped
    <2>2. IsFiniteSet(Counting)
        BY TcamAssumption, FS_Subset DEF Counting
    <2>3. Cardinality(Counting) \in Nat
        BY <2>2, FS_CardinalityType
    <2>4. (\A t \in Tasks : pc[t] # "p3_inserted") => Cardinality(Counting) = 0
        BY FS_EmptySet DEF Counting
    <2>5. /\ monitor.inserts <= Len(sheaf_sections)
          /\ (\A t \in Tasks : pc[t] # "p3_inserted")
             /\ (\A r \in Routes : dropped["p3_inserted"][r] = 0)
                => monitor.inserts = Len(sheaf_sections)
        BY <2>1, <2>3, <2>4 DEF Counted
    <2>q. QED
        BY <2>5 DEF NoRouteVanishes, Conserved, FirstWait, SecondWait
<1>q. QED
    BY <1>1, <1>2, <1>3, PTL DEF Spec

-----------------------------------------------------------------------------
(* A confirmed route is in every table, and a lookup knows confirmed routes. *)
Kept ==
    /\ \A r \in acked : In(r, phase1) /\ In(r, phase2) /\ In(r, sheaf_sections)
    /\ \A t \in Tasks :
          /\ req[t].known \subseteq acked
          /\ pc[t] \in InsertPoints => In(req[t].route, phase1)
          /\ pc[t] \in InsertPoints \ FirstWait => In(req[t].route, phase2)
          /\ pc[t] = "p3_inserted" => In(req[t].route, sheaf_sections)

\* What is in a table stays there.
LEMMA Grown ==
    ASSUME TablesTyped, CallsTyped, [Next]_vars
    PROVE  \A r : /\ In(r, phase1) => In(r, phase1')
                  /\ In(r, phase2) => In(r, phase2')
                  /\ In(r, sheaf_sections) => In(r, sheaf_sections')
<1>1. CASE UNCHANGED tables
    BY <1>1 DEF tables
<1>2. ASSUME NEW t \in Tasks, BeginInsert(t)
      PROVE  /\ \A r : In(r, phase1) => In(r, phase1')
             /\ phase2' = phase2 /\ sheaf_sections' = sheaf_sections
    BY <1>2, InAppended DEF BeginInsert, TablesTyped
<1>3. ASSUME NEW t \in Tasks, InsertRoutes(t)
      PROVE  /\ \A r : In(r, phase2) => In(r, phase2')
             /\ phase1' = phase1 /\ sheaf_sections' = sheaf_sections
    <2>1. req[t].route \in Routes
        BY <1>3, PointKinds DEF InsertRoutes, At, CallsTyped
    <2>q. QED
        BY <1>3, <2>1, InAppended DEF InsertRoutes, TablesTyped
<1>4. ASSUME NEW t \in Tasks, InsertPhase3(t)
      PROVE  /\ \A r : In(r, sheaf_sections) => In(r, sheaf_sections')
             /\ phase1' = phase1 /\ phase2' = phase2
    <2>1. req[t].route \in Routes
        BY <1>4, PointKinds DEF InsertPhase3, At, CallsTyped
    <2>q. QED
        BY <1>4, <2>1, InAppended DEF InsertPhase3, TablesTyped
<1>q. QED
    BY <1>1, <1>2, <1>3, <1>4, StepKinds
    DEF vars, tables, InsertStats, InsertCount, Cancel, Quiet

\* A step of one call, which leaves the others what they were.
LEMMA KeptMove ==
    ASSUME TablesTyped, CallsTyped, Kept, [Next]_vars, NEW t \in Tasks, Moves(t),
           acked \subseteq acked',
           \A r \in acked' \ acked : In(r, phase1') /\ In(r, phase2') /\ In(r, sheaf_sections'),
           req'[t].known \subseteq acked',
           pc'[t] \in InsertPoints => In(req'[t].route, phase1'),
           pc'[t] \in InsertPoints \ FirstWait => In(req'[t].route, phase2'),
           pc'[t] = "p3_inserted" => In(req'[t].route, sheaf_sections')
    PROVE  Kept'
<1>1. \A r \in acked' : In(r, phase1') /\ In(r, phase2') /\ In(r, sheaf_sections')
    BY Grown DEF Kept
<1>2. ASSUME NEW u \in Tasks
      PROVE  /\ req'[u].known \subseteq acked'
             /\ pc'[u] \in InsertPoints => In(req'[u].route, phase1')
             /\ pc'[u] \in InsertPoints \ FirstWait => In(req'[u].route, phase2')
             /\ pc'[u] = "p3_inserted" => In(req'[u].route, sheaf_sections')
    <2>1. CASE u = t
        BY <2>1
    <2>2. CASE u # t
        <3>1. pc'[u] = pc[u] /\ req'[u] = req[u]
            BY <2>2 DEF Moves
        <3>q. QED
            BY <3>1, Grown DEF Kept
    <2>q. QED
        BY <2>1, <2>2
<1>q. QED
    BY <1>1, <1>2 DEF Kept, In

LEMMA KeptStep ==
    ASSUME TablesTyped, CallsTyped, Kept, [Next]_vars
    PROVE  Kept'
<1>1. CASE UNCHANGED vars
    BY <1>1 DEF vars, Kept, In
<1>2. ASSUME NEW t \in Tasks, BeginInsert(t) PROVE Kept'
    <2>1. PICK q \in Routes :
             /\ phase1' = Append(phase1, q) /\ req' = [req EXCEPT ![t] = [NoReq EXCEPT !.route = q]]
        BY <1>2 DEF BeginInsert
    <2>2. pc'[t] = "p2_routes" /\ Moves(t) /\ acked' = acked
        BY <1>2, <2>1, GoneTo DEF BeginInsert
    <2>3. req'[t].route = q /\ req'[t].known = {}
        BY <2>1 DEF CallsTyped, NoReq
    <2>4. In(q, phase1')
        BY <2>1, InAppended DEF TablesTyped
    <2>q. QED
        BY <2>2, <2>3, <2>4, KeptMove DEF FirstWait
<1>3. ASSUME NEW t \in Tasks, InsertRoutes(t) PROVE Kept'
    <2>1. /\ pc'[t] = "p2_stats" /\ Moves(t) /\ acked' = acked /\ req' = req
          /\ pc[t] \in InsertPoints /\ req[t].route \in Routes
        BY <1>3, GoneTo, PointKinds DEF InsertRoutes, At, CallsTyped
    <2>2. In(req[t].route, phase2')
        BY <1>3, <2>1, InAppended DEF InsertRoutes, TablesTyped
    <2>3. In(req[t].route, phase1')
        BY <2>1, Grown DEF Kept
    <2>q. QED
        BY <2>1, <2>2, <2>3, KeptMove DEF Kept
<1>4. ASSUME NEW t \in Tasks, InsertStats(t) PROVE Kept'
    <2>1. /\ pc'[t] = "p3_write" /\ Moves(t) /\ acked' = acked /\ req' = req
          /\ pc[t] \in InsertPoints \ FirstWait
        BY <1>4, GoneTo, PointKinds DEF InsertStats, At, FirstWait
    <2>2. In(req[t].route, phase1') /\ In(req[t].route, phase2')
        BY <2>1, Grown DEF Kept
    <2>q. QED
        BY <2>1, <2>2, KeptMove DEF Kept
<1>5. ASSUME NEW t \in Tasks, InsertPhase3(t) PROVE Kept'
    <2>1. /\ pc'[t] = "p3_inserted" /\ Moves(t) /\ acked' = acked /\ req' = req
          /\ pc[t] \in InsertPoints \ FirstWait /\ req[t].route \in Routes
        BY <1>5, GoneTo, PointKinds DEF InsertPhase3, At, FirstWait, CallsTyped
    <2>2. In(req[t].route, phase1') /\ In(req[t].route, phase2')
        BY <2>1, Grown DEF Kept
    <2>3. In(req[t].route, sheaf_sections')
        BY <1>5, <2>1, InAppended DEF InsertPhase3, TablesTyped
    <2>q. QED
        BY <2>1, <2>2, <2>3, KeptMove DEF Kept
<1>r. ASSUME NEW t \in Tasks, Return(t)
      PROVE  pc'[t] = "idle" /\ Moves(t) /\ req'[t].known = {}
    <2>1. pc'[t] = "idle" /\ Moves(t)
        BY <1>r, GoneTo DEF Return
    <2>2. req'[t].known = {}
        BY <1>r DEF Return, CallsTyped, NoReq
    <2>q. QED
        BY <2>1, <2>2
<1>6. ASSUME NEW t \in Tasks, InsertCount(t) PROVE Kept'
    <2>1. /\ pc'[t] = "idle" /\ Moves(t) /\ req'[t].known = {}
          /\ acked' = acked \cup {req[t].route}
          /\ pc[t] \in InsertPoints \ FirstWait /\ pc[t] = "p3_inserted"
        BY <1>6, <1>r, PointKinds DEF InsertCount, At, FirstWait
    <2>2. /\ In(req[t].route, phase1') /\ In(req[t].route, phase2')
          /\ In(req[t].route, sheaf_sections')
        BY <2>1, Grown DEF Kept
    <2>q. QED
        BY <2>1, <2>2, PointKinds, KeptMove
<1>7. ASSUME NEW t \in Tasks, Cancel(t) PROVE Kept'
    <2>1. pc'[t] = "idle" /\ Moves(t) /\ req'[t].known = {} /\ acked' = acked
        BY <1>7, <1>r DEF Cancel
    <2>q. QED
        BY <2>1, PointKinds, KeptMove
<1>8. ASSUME NEW t \in Tasks, Quiet(t) PROVE Kept'
    <2>1. /\ pc'[t] \notin InsertPoints /\ Moves(t) /\ acked' = acked
          /\ req'[t].known \subseteq acked
        BY <1>8 DEF Quiet, Kept
    <2>q. QED
        BY <2>1, PointKinds, KeptMove
<1>q. QED
    BY <1>1, <1>2, <1>3, <1>4, <1>5, <1>6, <1>7, <1>8, StepKinds

\* The lookup of phase 1, and of phase 2, among the routes that it should know.
LEMMA KnownWins ==
    ASSUME NEW routes \in Seq(Routes), NEW ip, NEW known, \A r \in known : In(r, routes),
           NEW a, a \in {ahgf_lookup(routes, ip), qagfhg_lookup(routes, ip)}
    PROVE  \A r \in known : matches(r, ip) =>
               a # NoRoute /\ matches(a, ip) /\ a.len >= r.len
<1>1. RouteTable(routes)
    BY RouteFields, ListIsTable
<1>2. FirstLongest(routes, ip, DOMAIN routes, a) \/ LastLongest(routes, ip, DOMAIN routes, a)
    BY <1>1, AhgfLongest, QagfhgLongest
<1> TAKE r \in known
<1> HAVE matches(r, ip)
<1>3. PICK k \in DOMAIN routes : routes[k] = r
    BY DEF In
<1>4. PICK i \in DOMAIN routes :
         a = routes[i] /\ matches(a, ip)
         /\ \A j \in DOMAIN routes : matches(routes[j], ip) => routes[j].len <= a.len
    BY <1>2, <1>3 DEF FirstLongest, LastLongest
<1>5. a # NoRoute /\ a.len \in Nat /\ r.len \in Nat /\ r.len <= a.len
    BY <1>1, <1>3, <1>4 DEF RouteTable
<1>q. QED
    BY <1>4, <1>5

Answered == {"p1_hit", "p2_hit", "p2_counted"}
WinsFor(t) ==
    \A r \in req[t].known : matches(r, req[t].ip) =>
        /\ req[t].route # NoRoute /\ matches(req[t].route, req[t].ip)
        /\ req[t].route.len >= r.len

\* A call that is not about to answer, or that keeps its answer.
LEMMA WinsMove ==
    ASSUME ConfirmedRouteWins, NEW t \in Tasks, Moves(t),
           pc'[t] \in Answered => WinsFor(t)'
    PROVE  ConfirmedRouteWins'
<1>1. ASSUME NEW u \in Tasks, pc'[u] \in Answered PROVE WinsFor(u)'
    <2>1. CASE u = t
        BY <1>1, <2>1
    <2>2. CASE u # t
        <3>1. pc'[u] = pc[u] /\ req'[u] = req[u]
            BY <2>2 DEF Moves
        <3>2. WinsFor(u)
            BY <1>1, <3>1 DEF ConfirmedRouteWins, Answered, WinsFor
        <3>q. QED
            BY <3>1, <3>2 DEF WinsFor
    <2>q. QED
        BY <2>1, <2>2
<1>q. QED
    BY <1>1 DEF ConfirmedRouteWins, Answered, WinsFor

LEMMA WinsStep ==
    ASSUME TablesTyped, CallsTyped, Kept, ConfirmedRouteWins, [Next]_vars
    PROVE  ConfirmedRouteWins'
<1>1. CASE UNCHANGED vars
    BY <1>1 DEF vars, ConfirmedRouteWins
<1>2. ASSUME NEW t \in Tasks, NEW p, p \notin Answered, Goto(t, p),
             \/ req' = req
             \/ \E x : req' = [req EXCEPT ![t] = x]
             \/ \E x : req' = [req EXCEPT ![t].route = x]
      PROVE  ConfirmedRouteWins'
    BY <1>2, GoneTo, WinsMove
<1>3. ASSUME NEW t \in Tasks, Return(t) PROVE ConfirmedRouteWins'
    BY <1>2, <1>3 DEF Return, Answered
<1>4. ASSUME NEW t \in Tasks, BeginInsert(t) PROVE ConfirmedRouteWins'
    BY <1>2, <1>4 DEF BeginInsert, Answered
<1>5. ASSUME NEW t \in Tasks,
             InsertRoutes(t) \/ InsertStats(t) \/ InsertPhase3(t)
      PROVE  ConfirmedRouteWins'
    BY <1>2, <1>5 DEF InsertRoutes, InsertStats, InsertPhase3, Answered
<1>6. ASSUME NEW t \in Tasks, BeginLookup(t) PROVE ConfirmedRouteWins'
    BY <1>2, <1>6 DEF BeginLookup, Answered
<1>7. ASSUME NEW t \in Tasks, BeginDelete(t) \/ BeginStats(t) PROVE ConfirmedRouteWins'
    BY <1>2, <1>7 DEF BeginDelete, BeginStats, Answered
<1>8. ASSUME NEW t \in Tasks,
             InsertCount(t) \/ LookupDone(t) \/ Delete(t) \/ Stats(t) \/ Cancel(t)
      PROVE  ConfirmedRouteWins'
    BY <1>3, <1>8 DEF InsertCount, LookupDone, Delete, Stats, Cancel
<1>a. ASSUME NEW t \in Tasks, NEW a, req' = [req EXCEPT ![t].route = a],
             NEW routes \in Seq(Routes), \A r \in acked : In(r, routes),
             a \in {ahgf_lookup(routes, req[t].ip), qagfhg_lookup(routes, req[t].ip)}
      PROVE  WinsFor(t)'
    <2>1. req'[t].route = a /\ req'[t].ip = req[t].ip /\ req'[t].known = req[t].known
        BY <1>a DEF CallsTyped
    <2>2. \A r \in req[t].known : In(r, routes)
        BY <1>a DEF Kept
    <2>3. \A r \in req[t].known : matches(r, req[t].ip) =>
              a # NoRoute /\ matches(a, req[t].ip) /\ a.len >= r.len
        BY <1>a, <2>2, KnownWins
    <2>q. QED
        BY <2>1, <2>3 DEF WinsFor
<1>9. ASSUME NEW t \in Tasks, LookupCount(t) PROVE ConfirmedRouteWins'
    <2>1. CASE Goto(t, "p1_hit") /\ req' = [req EXCEPT ![t].route = ahgf_lookup(phase1, req[t].ip)]
        <3>1. WinsFor(t)'
            BY <1>a, <2>1 DEF TablesTyped, Kept
        <3>q. QED
            BY <2>1, <3>1, GoneTo, WinsMove
    <2>2. CASE (Goto(t, "p2_read") \/ Goto(t, "p3_read")) /\ req' = req
        BY <1>2, <2>2 DEF Answered
    <2>q. QED
        BY <1>3, <1>9, <2>1, <2>2 DEF LookupCount
<1>10. ASSUME NEW t \in Tasks, LookupPhase2(t) PROVE ConfirmedRouteWins'
    <2>1. WinsFor(t)'
        BY <1>a, <1>10 DEF LookupPhase2, TablesTyped, Kept
    <2>q. QED
        BY <1>10, <2>1, GoneTo, WinsMove DEF LookupPhase2
<1>11. ASSUME NEW t \in Tasks, LookupStats2(t) PROVE ConfirmedRouteWins'
    <2>1. WinsFor(t)
        BY <1>11 DEF LookupStats2, At, ConfirmedRouteWins, WinsFor
    <2>2. WinsFor(t)'
        BY <1>11, <2>1 DEF LookupStats2, WinsFor
    <2>q. QED
        BY <1>11, <2>2, GoneTo, WinsMove DEF LookupStats2
<1>12. ASSUME NEW t \in Tasks, LookupPhase3(t) PROVE ConfirmedRouteWins'
    BY <1>2, <1>3, <1>12 DEF LookupPhase3, Answered
<1>q. QED
    BY <1>1, <1>4, <1>5, <1>6, <1>7, <1>8, <1>9, <1>10, <1>11, <1>12
    DEF Next, Start, Proceed

\* The invariant of the calls and tables.
EngineInv == TablesTyped /\ CallsTyped /\ Kept

LEMMA EngineInvInit == Init => EngineInv
<1> SUFFICES ASSUME Init PROVE EngineInv
    OBVIOUS
<1>1. Kept
    BY PointKinds DEF Init, Kept, NoReq, InsertPoints
<1>q. QED
    BY <1>1, TypedInit DEF EngineInv

LEMMA EngineInvStep == EngineInv /\ [Next]_vars => EngineInv'
BY CallsTypedStep, TablesTypedStep, KeptStep DEF EngineInv

\* Phases 1 and 2 answer with as long a match as any route confirmed before the lookup.
THEOREM LongestWins == Spec => []ConfirmedRouteWins
<1>1. Init => EngineInv /\ ConfirmedRouteWins
    <2>1. Init => ConfirmedRouteWins
        BY DEF Init, ConfirmedRouteWins
    <2>q. QED
        BY <2>1, EngineInvInit
<1>2. EngineInv /\ ConfirmedRouteWins /\ [Next]_vars => (EngineInv /\ ConfirmedRouteWins)'
    BY EngineInvStep, WinsStep DEF EngineInv
<1>q. QED
    BY <1>1, <1>2, PTL DEF Spec

-----------------------------------------------------------------------------
(* Phase 3: the table over the leading bits, and the list of the long routes. *)

\* The slot of an address is in the table, and among those that a short masked route
\* that matches it has filled.
LEMMA FillsSlot ==
    ASSUME NEW ip \in Addresses
    PROVE  /\ radix_index(ip) \in RadixSlots
           /\ \A r \in Routes : Short(r) /\ Masked(r) /\ matches(r, ip)
                 => radix_index(ip) \in radix_fill(r)
<1> DEFINE b == 2^(AddrBits - RadixBits)
           i == ip \div b
<1>1. /\ AddrBits \in Nat /\ RadixBits \in Nat /\ RadixBits <= AddrBits
      /\ AddrBits - RadixBits \in 0..AddrBits /\ RadixBits \in 0..AddrBits
    BY PrefixAssumption
<1>2. b \in Nat /\ b > 0 /\ 2^RadixBits \in Nat /\ 2^AddrBits = b * 2^RadixBits
    <2>1. (AddrBits - RadixBits) + RadixBits = AddrBits
        BY <1>1
    <2>q. QED
        BY <1>1, <2>1, PowerLaws
<1>3. ip \in Nat /\ ip < b * 2^RadixBits
    BY <1>2, PowerLaws, PrefixAssumption DEF Addresses
<1>4. i \in Nat /\ b * i <= ip /\ ip < b * i + b
    BY <1>2, <1>3, QuotientRange
<1>5. radix_index(ip) = i
    BY DEF radix_index
<1> HIDE DEF b, i
<1>6. i < 2^RadixBits
    <2>1. ASSUME i >= 2^RadixBits PROVE FALSE
        <3>1. b * 2^RadixBits <= b * i
            BY <1>2, <1>4, <2>1
        <3>q. QED
            BY <1>2, <1>3, <1>4, <3>1
    <2>q. QED
        BY <1>2, <1>4, <2>1
<1>7. i \in RadixSlots
    BY <1>2, <1>4, <1>6 DEF RadixSlots
<1>8. ASSUME NEW r \in Routes, Short(r), Masked(r), matches(r, ip)
      PROVE  i \in radix_fill(r)
    <2> DEFINE c == 2^(RadixBits - r.len)
               w == 2^(AddrBits - r.len)
               q == r.addr \div w
    <2>1. /\ r.len \in Nat /\ r.len <= RadixBits /\ r.addr \in Addresses
          /\ RadixBits - r.len \in 0..AddrBits /\ AddrBits - r.len \in 0..AddrBits
        BY <1>1, <1>8, RouteFields DEF Short, Lengths
    <2>2. c \in Nat /\ c > 0 /\ w \in Nat /\ w > 0 /\ w = b * c
        <3>1. (AddrBits - RadixBits) + (RadixBits - r.len) = AddrBits - r.len
              /\ AddrBits - r.len <= AddrBits
            BY <1>1, <2>1
        <3>q. QED
            BY <1>1, <2>1, <3>1, PowerLaws DEF b
    <2>3. r.addr \in Nat /\ r.addr < 2^AddrBits
        BY <1>1, <2>1, PowerLaws DEF Addresses
    <2>4. q \in Nat /\ r.addr = w * q
        <3>1. r.addr % w = 0
            BY <1>8 DEF Masked
        <3>q. QED
            BY <3>1, <2>2, <2>3, QuotientRange
    <2>5. w * q <= ip /\ ip < w * q + w
        <3>1. CASE r.len = 0
            <4>1. w = 2^AddrBits
                BY <3>1, <1>1
            <4>2. q = 0
                <5> HIDE DEF w, q
                <5>1. ASSUME q >= 1 PROVE FALSE
                    <6>1. w * 1 <= w * q
                        BY <5>1, <2>2, <2>4
                    <6>q. QED
                        BY <6>1, <4>1, <2>2, <2>3, <2>4
                <5>q. QED
                    BY <5>1, <2>4
            <4>3. ip < w
                BY <4>1, <1>1, PowerLaws DEF Addresses
            <4> HIDE DEF w, q
            <4>q. QED
                BY <4>2, <4>3, <1>3, <2>2
        <3>2. CASE r.len # 0
            <4>1. q = ip \div w
                BY <1>8, <3>2 DEF matches
            <4>q. QED
                BY <4>1, <1>3, <2>2, QuotientRange
        <3>q. QED
            BY <3>1, <3>2
    <2> HIDE DEF c, w, q
    <2>6. c * q \in Nat /\ r.addr = b * (c * q) /\ w * q = b * (c * q)
        BY <1>2, <2>2, <2>4
    <2>7. radix_index(r.addr) = c * q
        <3>1. r.addr \div b = c * q
            BY <1>2, <2>3, <2>6, QuotientIs
        <3>q. QED
            BY <3>1 DEF radix_index, b
    <2>8. c * q <= i
        <3>1. ASSUME i < c * q PROVE FALSE
            <4>1. b * (i + 1) <= b * (c * q)
                BY <3>1, <1>2, <1>4, <2>6
            <4>q. QED
                BY <4>1, <1>2, <1>3, <1>4, <2>5, <2>6
        <3>q. QED
            BY <3>1, <1>4, <2>6
    <2>9. i < c * q + c
        <3>1. ASSUME i >= c * q + c PROVE FALSE
            <4>1. b * (c * q + c) <= b * i
                BY <3>1, <1>2, <1>4, <2>2, <2>6
            <4>2. b * (c * q + c) = w * q + w
                BY <1>2, <2>2, <2>4, <2>6
            <4>q. QED
                BY <4>1, <4>2, <1>2, <1>3, <1>4, <2>2, <2>4, <2>5
        <3>q. QED
            BY <3>1, <1>4, <2>2, <2>6
    <2>q. QED
        BY <1>7, <2>7, <2>8, <2>9 DEF radix_fill, c
<1>q. QED
    BY <1>5, <1>7, <1>8

-----------------------------------------------------------------------------
\* What phase 3 holds: the long routes in its list, and in each slot of the table that
\* a short route fills the metric of one of them, perhaps of a later one.
TrieRight ==
    /\ \A r : In(r, phase3.patricia_nodes) <=> In(r, sheaf_sections) /\ ~ Short(r)
    /\ \A i \in RadixSlots : phase3.radix_table[i] # 0 =>
          \E s \in Routes : In(s, sheaf_sections) /\ Short(s)
    /\ \A i \in RadixSlots, r \in Routes :
          In(r, sheaf_sections) /\ Short(r) /\ i \in radix_fill(r) =>
              \E s \in Routes : In(s, sheaf_sections) /\ Short(s)
                                /\ phase3.radix_table[i] = s.metric

LEMMA TrieRightInit == Init => TrieRight
BY EmptySeq DEF Init, TrieRight, In, EmptyTrie

LEMMA TrieRightStep ==
    ASSUME TablesTyped, CallsTyped, TrieRight, [Next]_vars
    PROVE  TrieRight'
<1>1. CASE UNCHANGED <<phase3, sheaf_sections>>
    BY <1>1 DEF TrieRight, In
<1>2. ASSUME NEW t \in Tasks, InsertPhase3(t) PROVE TrieRight'
    <2> DEFINE q == req[t].route
    <2>1. /\ q \in Routes /\ sheaf_sections' = Append(sheaf_sections, q)
          /\ phase3' = insert_into_hybrid_trie(phase3, q)
        BY <1>2, PointKinds DEF InsertPhase3, At, CallsTyped
    <2> HIDE DEF q
    <2>2. \A r : In(r, sheaf_sections') <=> In(r, sheaf_sections) \/ r = q
        BY <2>1, InAppended DEF TablesTyped
    <2>3. /\ phase3'.patricia_nodes =
                IF Short(q) THEN phase3.patricia_nodes ELSE Append(phase3.patricia_nodes, q)
          /\ \A i \in RadixSlots : phase3'.radix_table[i] =
                IF Short(q) /\ i \in radix_fill(q) THEN q.metric ELSE phase3.radix_table[i]
        BY <2>1, TrieTyped
    <2>4. \A r : In(r, phase3'.patricia_nodes) <=>
             In(r, phase3.patricia_nodes) \/ (r = q /\ ~ Short(q))
        BY <2>1, <2>3, InAppended DEF TablesTyped
    <2>5. \A r : In(r, phase3'.patricia_nodes) <=> In(r, sheaf_sections') /\ ~ Short(r)
        BY <2>2, <2>4 DEF TrieRight
    <2>6. ASSUME NEW i \in RadixSlots, phase3'.radix_table[i] # 0
          PROVE  \E s \in Routes : In(s, sheaf_sections') /\ Short(s)
        BY <2>1, <2>2, <2>3, <2>6 DEF TrieRight
    <2>7. ASSUME NEW i \in RadixSlots, NEW r \in Routes,
                 In(r, sheaf_sections'), Short(r), i \in radix_fill(r)
          PROVE  \E s \in Routes : In(s, sheaf_sections') /\ Short(s)
                                   /\ phase3'.radix_table[i] = s.metric
        <3>1. CASE Short(q) /\ i \in radix_fill(q)
            BY <3>1, <2>1, <2>2, <2>3
        <3>2. CASE ~ (Short(q) /\ i \in radix_fill(q))
            <4>1. In(r, sheaf_sections) /\ phase3'.radix_table[i] = phase3.radix_table[i]
                BY <3>2, <2>2, <2>3, <2>7
            <4>q. QED
                BY <4>1, <2>2, <2>7 DEF TrieRight
        <3>q. QED
            BY <3>1, <3>2
    <2>q. QED
        BY <2>5, <2>6, <2>7 DEF TrieRight, In
<1>q. QED
    BY <1>1, <1>2, StepKinds
    DEF vars, tables, BeginInsert, InsertRoutes, InsertStats, InsertCount, Cancel, Quiet

\* The premise under which phase 3 must find a route for the call.
Findable(r, ip) ==
    /\ matches(r, ip)
    /\ Short(r) =>
          /\ Masked(r)
          /\ \A i \in DOMAIN sheaf_sections :
                Short(sheaf_sections[i]) => sheaf_sections[i].metric # 0

\* What the lookup of phase 3 answers.
LEMMA ScrttAnswers ==
    ASSUME TablesTyped, NEW ip \in Addresses
    PROVE  LET a == scrtt_lookup(phase3, ip)
           IN  /\ phase3.radix_table[radix_index(ip)] # 0 => a # NoRoute
               /\ phase3.radix_table[radix_index(ip)] = 0 =>
                      a = qagfhg_lookup(phase3.patricia_nodes, ip)
<1> DEFINE entry == phase3.radix_table[radix_index(ip)]
           a == scrtt_lookup(phase3, ip)
<1>1. CASE entry # 0
    <2>1. a = [[NoRoute EXCEPT !.hop = "gateway_radix"] EXCEPT !.metric = entry]
        BY <1>1 DEF scrtt_lookup
    <2> HIDE DEF a, entry
    <2>2. "hop" \in DOMAIN NoRoute /\ NoRoute.hop = "none"
        BY DEF NoRoute
    <2>3. a.hop = "gateway_radix"
        BY <2>1, <2>2
    <2>4. a # NoRoute
        BY <2>2, <2>3
    <2>q. QED
        BY <1>1, <2>4 DEF a, entry
<1>2. CASE entry = 0
    <2>1. a = qagfhg_lookup(phase3.patricia_nodes, ip)
        BY <1>2 DEF scrtt_lookup, lookup_from_patricia
    <2>q. QED
        BY <1>2, <2>1
<1>q. QED
    BY <1>1, <1>2

LEMMA PhaseThreeFinds ==
    ASSUME TablesTyped, TrieRight, NEW ip \in Addresses, NEW r \in Routes,
           In(r, sheaf_sections), Findable(r, ip)
    PROVE  scrtt_lookup(phase3, ip) # NoRoute
<1> DEFINE i == radix_index(ip)
<1>1. i \in RadixSlots
    BY FillsSlot
<1>2. CASE phase3.radix_table[i] # 0
    BY <1>2, ScrttAnswers
<1>3. CASE phase3.radix_table[i] = 0
    <2>1. ~ Short(r)
        <3> SUFFICES ASSUME Short(r) PROVE FALSE
            OBVIOUS
        <3>1. i \in radix_fill(r)
            BY FillsSlot DEF Findable
        <3>2. PICK s \in Routes : /\ In(s, sheaf_sections) /\ Short(s)
                                  /\ phase3.radix_table[i] = s.metric
            BY <1>1, <3>1 DEF TrieRight
        <3>3. s.metric # 0
            BY <3>2 DEF Findable, In
        <3>q. QED
            BY <1>3, <3>2, <3>3
    <2>2. In(r, phase3.patricia_nodes) /\ phase3.patricia_nodes \in Seq(Routes)
        BY <2>1 DEF TrieRight, TablesTyped
    <2>3. qagfhg_lookup(phase3.patricia_nodes, ip) # NoRoute
        <3>1. \A s \in {r} : In(s, phase3.patricia_nodes)
            BY <2>2
        <3>2. matches(r, ip)
            BY DEF Findable
        <3>q. QED
            BY <2>2, <3>1, <3>2, KnownWins
    <2>q. QED
        BY <1>3, <2>3, ScrttAnswers
<1>q. QED
    BY <1>2, <1>3

FoundFor(t) == \A r \in req[t].known : Findable(r, req[t].ip) => req[t].route # NoRoute

\* A call that is not about to answer from phase 3: the premise was already true
\* when it is true in the larger table.
LEMMA FoundMove ==
    ASSUME TablesTyped, CallsTyped, ConfirmedRouteFound, [Next]_vars, NEW t \in Tasks, Moves(t),
           pc'[t] = "p3_hit" => FoundFor(t)'
    PROVE  ConfirmedRouteFound'
<1>1. ASSUME NEW r, NEW ip, Findable(r, ip)' PROVE Findable(r, ip)
    <2>1. ASSUME NEW i \in DOMAIN sheaf_sections, Short(r), Short(sheaf_sections[i])
          PROVE  sheaf_sections[i].metric # 0
        <3>1. In(sheaf_sections[i], sheaf_sections')
            BY Grown DEF In
        <3>2. PICK j \in DOMAIN sheaf_sections' : sheaf_sections'[j] = sheaf_sections[i]
            BY <3>1 DEF In
        <3>q. QED
            BY <1>1, <2>1, <3>2 DEF Findable
    <2>q. QED
        BY <1>1, <2>1 DEF Findable
<1>2. ASSUME NEW u \in Tasks, pc'[u] = "p3_hit" PROVE FoundFor(u)'
    <2>1. CASE u = t
        BY <1>2, <2>1
    <2>2. CASE u # t
        <3>1. pc'[u] = pc[u] /\ req'[u] = req[u]
            BY <2>2 DEF Moves
        <3>2. FoundFor(u)
            BY <1>2, <3>1 DEF ConfirmedRouteFound, FoundFor, Findable
        <3>3. \A r \in req'[u].known : Findable(r, req[u].ip)' => req'[u].route # NoRoute
            <4>1. ASSUME NEW r, Findable(r, req[u].ip)' PROVE Findable(r, req[u].ip)
                BY <1>1, <3>1, <4>1 DEF Findable
            <4>q. QED
                BY <3>1, <3>2, <4>1 DEF FoundFor
        <3>q. QED
            BY <3>3 DEF FoundFor
    <2>q. QED
        BY <2>1, <2>2
<1>q. QED
    BY <1>2 DEF ConfirmedRouteFound, FoundFor, Findable

LEMMA FoundStep ==
    ASSUME TablesTyped, CallsTyped, Kept, TrieRight, ConfirmedRouteFound, [Next]_vars
    PROVE  ConfirmedRouteFound'
<1>1. CASE UNCHANGED vars
    BY <1>1 DEF vars, ConfirmedRouteFound
<1>2. ASSUME NEW t \in Tasks, NEW p, p # "p3_hit", Goto(t, p),
             \/ req' = req
             \/ \E x : req' = [req EXCEPT ![t] = x]
             \/ \E x : req' = [req EXCEPT ![t].route = x]
      PROVE  ConfirmedRouteFound'
    BY <1>2, GoneTo, FoundMove
<1>3. ASSUME NEW t \in Tasks, Return(t) PROVE ConfirmedRouteFound'
    BY <1>2, <1>3 DEF Return
<1>4. ASSUME NEW t \in Tasks, BeginInsert(t) PROVE ConfirmedRouteFound'
    BY <1>2, <1>4 DEF BeginInsert
<1>5. ASSUME NEW t \in Tasks,
             InsertRoutes(t) \/ InsertStats(t) \/ InsertPhase3(t)
      PROVE  ConfirmedRouteFound'
    BY <1>2, <1>5 DEF InsertRoutes, InsertStats, InsertPhase3
<1>6. ASSUME NEW t \in Tasks, BeginLookup(t) PROVE ConfirmedRouteFound'
    BY <1>2, <1>6 DEF BeginLookup
<1>7. ASSUME NEW t \in Tasks, BeginDelete(t) \/ BeginStats(t) PROVE ConfirmedRouteFound'
    BY <1>2, <1>7 DEF BeginDelete, BeginStats
<1>8. ASSUME NEW t \in Tasks,
             InsertCount(t) \/ LookupDone(t) \/ Delete(t) \/ Stats(t) \/ Cancel(t)
      PROVE  ConfirmedRouteFound'
    BY <1>3, <1>8 DEF InsertCount, LookupDone, Delete, Stats, Cancel
<1>9. ASSUME NEW t \in Tasks, LookupCount(t) PROVE ConfirmedRouteFound'
    <2>1. CASE Goto(t, "p1_hit") /\ req' = [req EXCEPT ![t].route = ahgf_lookup(phase1, req[t].ip)]
        BY <1>2, <2>1
    <2>2. CASE (Goto(t, "p2_read") \/ Goto(t, "p3_read")) /\ req' = req
        BY <1>2, <2>2
    <2>q. QED
        BY <1>3, <1>9, <2>1, <2>2 DEF LookupCount
<1>10. ASSUME NEW t \in Tasks, LookupPhase2(t) PROVE ConfirmedRouteFound'
    BY <1>2, <1>10 DEF LookupPhase2
<1>11. ASSUME NEW t \in Tasks, LookupStats2(t) PROVE ConfirmedRouteFound'
    BY <1>2, <1>11 DEF LookupStats2
<1>12. ASSUME NEW t \in Tasks, LookupPhase3(t) PROVE ConfirmedRouteFound'
    <2>1. CASE Return(t)
        BY <1>3, <2>1
    <2>2. CASE /\ req[t].ip # BadIp /\ Goto(t, "p3_hit")
               /\ req' = [req EXCEPT ![t].route = scrtt_lookup(phase3, req[t].ip)]
        <3>1. /\ req'[t].route = scrtt_lookup(phase3, req[t].ip)
              /\ req'[t].ip = req[t].ip /\ req'[t].known = req[t].known
            BY <2>2 DEF CallsTyped
        <3>2. req[t].ip \in Addresses
            BY <2>2, TcamAssumption DEF CallsTyped
        <3>3. sheaf_sections' = sheaf_sections
            BY <1>12 DEF LookupPhase3, tables
        <3>4. ASSUME NEW r \in req[t].known, Findable(r, req[t].ip)
              PROVE  scrtt_lookup(phase3, req[t].ip) # NoRoute
            <4>1. In(r, sheaf_sections)
                BY DEF Kept
            <4>2. r \in Routes
                BY <4>1, RouteFields, ListIsTable DEF In, TablesTyped
            <4>q. QED
                BY <3>2, <3>4, <4>1, <4>2, PhaseThreeFinds
        <3>5. FoundFor(t)'
            BY <3>1, <3>3, <3>4 DEF FoundFor, Findable
        <3>q. QED
            BY <2>2, <3>5, GoneTo, FoundMove
    <2>q. QED
        BY <1>12, <2>1, <2>2 DEF LookupPhase3
<1>q. QED
    BY <1>1, <1>4, <1>5, <1>6, <1>7, <1>8, <1>9, <1>10, <1>11, <1>12
    DEF Next, Start, Proceed

\* Phase 3 finds a route for every address that a confirmed route matches, if the
\* short routes are masked and have a metric.
THEOREM SomethingFound == Spec => []ConfirmedRouteFound
<1>1. Init => EngineInv /\ TrieRight /\ ConfirmedRouteFound
    <2>1. Init => ConfirmedRouteFound
        BY DEF Init, ConfirmedRouteFound
    <2>q. QED
        BY <2>1, EngineInvInit, TrieRightInit
<1>2. EngineInv /\ TrieRight /\ ConfirmedRouteFound /\ [Next]_vars
      => (EngineInv /\ TrieRight /\ ConfirmedRouteFound)'
    BY EngineInvStep, TrieRightStep, FoundStep DEF EngineInv
<1>q. QED
    BY <1>1, <1>2, PTL DEF Spec

-----------------------------------------------------------------------------
(* The engines agree. *)

\* Routes that match one address and are as long have the same prefix.
LEMMA SamePrefixOf ==
    ASSUME NEW a, NEW b, NEW ip, matches(a, ip), matches(b, ip), a.len = b.len
    PROVE  SamePrefix(a, b)
BY DEF matches, SamePrefix

\* Two tables with the same routes, no two of one prefix: the first of the longest
\* matches of the one is the last of the longest matches of the other.
LEMMA SameAnswer ==
    ASSUME NEW s, RouteTable(s), NEW u, RouteTable(u), \A r : In(r, s) <=> In(r, u),
           \A i, j \in DOMAIN s : i # j => ~ SamePrefix(s[i], s[j]), NEW ip
    PROVE  ahgf_lookup(s, ip) = qagfhg_lookup(u, ip)
<1> DEFINE a == ahgf_lookup(s, ip)
           b == qagfhg_lookup(u, ip)
<1>1. FirstLongest(s, ip, DOMAIN s, a) /\ LastLongest(u, ip, DOMAIN u, b)
    BY AhgfLongest, QagfhgLongest
<1> HIDE DEF a, b
<1>2. CASE \E i \in DOMAIN s : matches(s[i], ip)
    <2>1. PICK i \in DOMAIN s : matches(s[i], ip)
        BY <1>2
    <2>2. PICK j \in DOMAIN u : u[j] = s[i]
        BY DEF In
    <2>3. PICK k \in DOMAIN s :
             /\ a = s[k] /\ matches(a, ip)
             /\ \A m \in DOMAIN s : matches(s[m], ip) => s[m].len <= a.len
        BY <1>1, <2>1 DEF FirstLongest
    <2>4. PICK l \in DOMAIN u :
             /\ b = u[l] /\ matches(b, ip)
             /\ \A m \in DOMAIN u : matches(u[m], ip) => u[m].len <= b.len
        BY <1>1, <2>1, <2>2 DEF LastLongest
    <2>5. PICK m \in DOMAIN s : s[m] = b
        BY <2>4 DEF In
    <2>6. PICK n \in DOMAIN u : u[n] = a
        BY <2>3 DEF In
    <2>7. a.len \in Nat /\ b.len \in Nat /\ a.len <= b.len /\ b.len <= a.len
        BY <2>3, <2>4, <2>5, <2>6 DEF RouteTable
    <2>8. SamePrefix(a, b)
        BY <2>3, <2>4, <2>7, SamePrefixOf
    <2>9. m = k
        BY <2>3, <2>5, <2>8
    <2>q. QED
        BY <2>3, <2>5, <2>9 DEF a, b
<1>3. CASE \A i \in DOMAIN s : ~ matches(s[i], ip)
    <2>1. \A j \in DOMAIN u : ~ matches(u[j], ip)
        BY <1>3 DEF In
    <2>q. QED
        BY <1>1, <1>3, <2>1 DEF FirstLongest, LastLongest, a, b
<1>q. QED
    BY <1>2, <1>3

\* Once no call is at work and none was dropped, the engines have the same routes.
LEMMA SameRoutes ==
    ASSUME TablesTyped, CallsTyped, Conserved, \A t \in Tasks : pc[t] = "idle",
           \A p \in InsertPoints, r \in Routes : dropped[p][r] = 0
    PROVE  \A r : /\ In(r, phase1) <=> In(r, phase2)
                  /\ In(r, phase1) <=> In(r, sheaf_sections)
<1>0. FirstWait \in SUBSET InsertPoints /\ SecondWait \in SUBSET InsertPoints
    BY DEF FirstWait, SecondWait, InsertPoints
<1>1. ASSUME NEW points \in SUBSET InsertPoints, NEW r \in Routes
      PROVE  Inserting(points, r) = 0
    <2>1. AtFor(points, r) = {}
        BY PointKinds DEF AtFor
    <2>2. IsFiniteSet(points)
        BY DroppedCount
    <2>3. \A p \in points : DroppedAt(r)[p] = 0
        BY DEF DroppedAt
    <2>4. SumFunctionOnSet(DroppedAt(r), points) = 0
        BY <2>2, <2>3, SumZero
    <2>5. Cardinality(AtFor(points, r)) = 0
        BY <2>1, FS_EmptySet
    <2>6. Inserting(points, r) =
             Cardinality(AtFor(points, r)) + SumFunctionOnSet(DroppedAt(r), points)
        BY InsertingType
    <2>q. QED
        BY <2>4, <2>5, <2>6
<1>2. ASSUME NEW r \in Routes
      PROVE  /\ In(r, phase1) <=> In(r, phase2)
             /\ In(r, phase1) <=> In(r, sheaf_sections)
    <2>1. Copies(phase1, r) = Copies(phase2, r) + 0 /\ Copies(phase2, r) = Copies(sheaf_sections, r) + 0
        BY <1>0, <1>1 DEF Conserved
    <2>2. /\ Copies(phase1, r) \in Nat /\ (Copies(phase1, r) = 0 <=> ~ In(r, phase1))
          /\ Copies(phase2, r) \in Nat /\ (Copies(phase2, r) = 0 <=> ~ In(r, phase2))
          /\ Copies(sheaf_sections, r) \in Nat
          /\ (Copies(sheaf_sections, r) = 0 <=> ~ In(r, sheaf_sections))
        BY CopiesCount DEF TablesTyped
    <2>q. QED
        BY <2>1, <2>2
<1>3. \A r : In(r, phase1) \/ In(r, phase2) \/ In(r, sheaf_sections) => r \in Routes
    BY RouteFields, ListIsTable DEF In, TablesTyped
<1>q. QED
    BY <1>2, <1>3

\* The engines answer alike once no call is at work and none was dropped.
THEOREM EnginesAgree == Spec => []PhasesAgree
<1> DEFINE Inv == TablesTyped /\ CallsTyped /\ Conserved /\ TrieRight
<1>1. Init => Inv
    BY TypedInit, ConservedInit, TrieRightInit
<1>2. Inv /\ [Next]_vars => Inv'
    BY CallsTypedStep, TablesTypedStep, ConservedStep, TrieRightStep
<1>3. Inv => PhasesAgree
    <2> SUFFICES ASSUME Inv,
                        \A t \in Tasks : pc[t] = "idle",
                        \A p \in InsertPoints, r \in Routes : dropped[p][r] = 0,
                        \A i, j \in DOMAIN phase1 : i # j => ~SamePrefix(phase1[i], phase1[j]),
                        NEW ip \in Addresses
                 PROVE  /\ ahgf_lookup(phase1, ip) = qagfhg_lookup(phase2, ip)
                        /\ (\A i \in DOMAIN phase1 : ~Short(phase1[i]))
                              => scrtt_lookup(phase3, ip) = ahgf_lookup(phase1, ip)
        BY DEF PhasesAgree
    <2>1. \A r : /\ In(r, phase1) <=> In(r, phase2)
                 /\ In(r, phase1) <=> In(r, sheaf_sections)
        BY SameRoutes
    <2>2. RouteTable(phase1) /\ RouteTable(phase2) /\ RouteTable(phase3.patricia_nodes)
        BY RouteFields, ListIsTable DEF TablesTyped
    <2>3. ahgf_lookup(phase1, ip) = qagfhg_lookup(phase2, ip)
        BY <2>1, <2>2, SameAnswer
    <2>4. ASSUME \A i \in DOMAIN phase1 : ~Short(phase1[i])
          PROVE  scrtt_lookup(phase3, ip) = ahgf_lookup(phase1, ip)
        <3>1. \A r : In(r, sheaf_sections) => ~ Short(r)
            BY <2>1, <2>4 DEF In
        <3>2. \A r : In(r, phase1) <=> In(r, phase3.patricia_nodes)
            BY <2>1, <3>1 DEF TrieRight
        <3>3. phase3.radix_table[radix_index(ip)] = 0
            BY <3>1, FillsSlot DEF TrieRight
        <3>4. scrtt_lookup(phase3, ip) = qagfhg_lookup(phase3.patricia_nodes, ip)
            BY <3>3, ScrttAnswers
        <3>q. QED
            BY <2>2, <3>2, <3>4, SameAnswer
    <2>q. QED
        BY <2>3, <2>4
<1>q. QED
    BY <1>1, <1>2, <1>3, PTL DEF Spec

-----------------------------------------------------------------------------
(* The control plane: the redundant lookup, with phase 1 enabled. *)

\* As long a match as any route that the call knows.
BestFor(a, k) == matches(a, k.ip) /\ \A r \in k.known : matches(r, k.ip) => a.len >= r.len

\* What is always so of one call.
CallRight(k) ==
    /\ DOMAIN k = {"at", "route", "ip", "answers", "pending", "answer", "known"}
    /\ DOMAIN k.answers = Phases
    /\ k.known \subseteq confirmed /\ k.pending \subseteq enabled
    /\ k.at \in {"second", "third"} =>
          k.route \in PlaneRoutes /\ (1 \in enabled => In(k.route, table1))
    /\ k.answers[1] # NoRoute => BestFor(k.answers[1], k)
    /\ k.at = "failover" => k.answers[1] = NoRoute
    /\ k.at = "answered" /\ k.answers[1] # NoRoute => k.answer = k.answers[1]

PlaneInv ==
    /\ enabled \subseteq Phases /\ table1 \in Seq(PlaneRoutes)
    /\ 1 \in enabled => \A r \in confirmed : In(r, table1)
    /\ DOMAIN call = Callers /\ \A c \in Callers : CallRight(call[c])

\* A call at rest.
LEMMA IdleRight == CallRight(Idle)
BY DEF CallRight, Idle, NoAnswers, Phases

\* A step of one call: the tables and the confirmed routes only grow, and the call is
\* right afterwards.
LEMMA PlaneMove ==
    ASSUME PlaneInv, NEW c \in Callers, NEW k, call' = [call EXCEPT ![c] = k],
           enabled' = enabled, table1' \in Seq(PlaneRoutes),
           \A r : In(r, table1) => In(r, table1'),
           confirmed \subseteq confirmed',
           1 \in enabled => \A r \in confirmed' \ confirmed : In(r, table1'),
           CallRight(k)'
    PROVE  PlaneInv'
<1>1. 1 \in enabled' => \A r \in confirmed' : In(r, table1')
    BY DEF PlaneInv
<1>2. ASSUME NEW d \in Callers PROVE CallRight(call[d])'
    <2>1. CASE d = c
        <3>1. call'[d] = k
            BY <2>1 DEF PlaneInv
        <3>q. QED
            BY <3>1 DEF CallRight, BestFor
    <2>2. CASE d # c
        <3>1. call'[d] = call[d] /\ CallRight(call[d])
            BY <2>2 DEF PlaneInv
        <3>q. QED
            BY <3>1 DEF CallRight, BestFor
    <2>q. QED
        BY <2>1, <2>2
<1>q. QED
    BY <1>1, <1>2 DEF PlaneInv, In

\* The same with the tables of phase 1 and the confirmed routes unchanged.
LEMMA PlaneCall ==
    ASSUME PlaneInv, NEW c \in Callers, NEW k, call' = [call EXCEPT ![c] = k],
           UNCHANGED <<enabled, table1, confirmed>>, CallRight(k)
    PROVE  PlaneInv'
<1>1. CallRight(k)'
    BY DEF CallRight
<1>q. QED
    BY <1>1, PlaneMove DEF PlaneInv

\* The first of the phases that answered.
LEMMA FastestFirst ==
    ASSUME NEW answers, answers[1] # NoRoute
    PROVE  Fastest(answers) = answers[1]
<1> DEFINE found == {p \in Phases : answers[p] # NoRoute}
<1>1. 1 \in found /\ found \subseteq {1, 2, 3}
    BY DEF Phases
<1> HIDE DEF found
<1>2. Min(found) = 1
    <2>1. found \in SUBSET Int /\ 1 \in found /\ \A y \in found : 1 <= y
        BY <1>1
    <2>q. QED
        BY <2>1, MinIs
<1>3. Fastest(answers) = IF found = {} THEN NoRoute ELSE answers[Min(found)]
    BY DEF Fastest, found
<1>q. QED
    BY <1>1, <1>2, <1>3

\* What phase 1 answers to a call that knows routes.
LEMMA FirstPhaseBest ==
    ASSUME PlaneInv, 1 \in enabled, NEW k, CallRight(k), NEW a, a # NoRoute,
           a \in PhaseAnswers(1, k.ip)
    PROVE  BestFor(a, k)
<1>1. RouteTable(table1)
    BY PlaneAssumption, ListIsTable DEF PlaneInv
<1>2. FirstLongest(table1, k.ip, DOMAIN table1, a)
    BY <1>1, AhgfLongest DEF PhaseAnswers
<1>3. PICK i \in DOMAIN table1 :
         /\ a = table1[i] /\ matches(a, k.ip)
         /\ \A j \in DOMAIN table1 : matches(table1[j], k.ip) => table1[j].len <= a.len
    BY <1>2 DEF FirstLongest
<1>4. ASSUME NEW r \in k.known, matches(r, k.ip) PROVE a.len >= r.len
    <2>1. PICK j \in DOMAIN table1 : table1[j] = r
        BY DEF PlaneInv, CallRight, In
    <2>2. r.len <= a.len /\ a.len \in Nat /\ r.len \in Nat
        BY <1>1, <1>3, <1>4, <2>1 DEF RouteTable
    <2>q. QED
        BY <2>2
<1>q. QED
    BY <1>3, <1>4 DEF BestFor

LEMMA PlaneInvInit == PlaneInit => PlaneInv
BY IdleRight, EmptySeq DEF PlaneInit, PlaneInv, CallRight, BestFor, Idle, NoAnswers, Phases

LEMMA PlaneInvStep == PlaneInv /\ [PlaneNext]_planeVars => PlaneInv'
<1> SUFFICES ASSUME PlaneInv, [PlaneNext]_planeVars PROVE PlaneInv'
    OBVIOUS
<1>0. \A c \in Callers : CallRight(call[c])
    BY DEF PlaneInv
<1>1. CASE UNCHANGED planeVars
    BY <1>1 DEF planeVars, PlaneInv, CallRight, BestFor, In
<1>2. ASSUME NEW c \in Callers, InsertFirst(c) PROVE PlaneInv'
    <2>1. PICK r \in PlaneRoutes :
             /\ table1' = IF 1 \in enabled THEN Append(table1, r) ELSE table1
             /\ call' = [call EXCEPT ![c] = [Idle EXCEPT !.at = "second", !.route = r]]
        BY <1>2 DEF InsertFirst
    <2> DEFINE k == [Idle EXCEPT !.at = "second", !.route = r]
    <2>2. /\ table1' \in Seq(PlaneRoutes)
          /\ \A x : In(x, table1) => In(x, table1')
          /\ 1 \in enabled => In(r, table1')
        BY <2>1, Appended, InAppended DEF PlaneInv
    <2>3. UNCHANGED <<enabled, confirmed>>
        BY <1>2 DEF InsertFirst
    <2>4. CallRight(k)'
        BY <2>2, <2>3 DEF CallRight, Idle, NoAnswers, Phases
    <2> HIDE DEF k
    <2>q. QED
        BY <2>1, <2>2, <2>3, <2>4, PlaneMove DEF k
<1>3. ASSUME NEW c \in Callers, InsertSecond(c) PROVE PlaneInv'
    <2> DEFINE k == [call[c] EXCEPT !.at = "third"]
    <2>1. CallRight(k)
        BY <1>0, <1>3 DEF CallRight, BestFor, InsertSecond
    <2>2. call' = [call EXCEPT ![c] = k] /\ UNCHANGED <<enabled, table1, confirmed>>
        BY <1>3 DEF InsertSecond, PlaneInv
    <2> HIDE DEF k
    <2>q. QED
        BY <2>1, <2>2, PlaneCall
<1>4. ASSUME NEW c \in Callers, InsertThird(c) PROVE PlaneInv'
    <2>1. /\ 1 \in enabled => In(call[c].route, table1)
          /\ confirmed' = confirmed \cup {call[c].route}
          /\ call' = [call EXCEPT ![c] = Idle] /\ UNCHANGED <<enabled, table1>>
        BY <1>0, <1>4 DEF InsertThird, CallRight
    <2>2. CallRight(Idle)'
        BY DEF CallRight, Idle, NoAnswers, Phases
    <2>q. QED
        BY <2>1, <2>2, PlaneMove DEF PlaneInv
<1>5. ASSUME NEW c \in Callers, BeginPlaneLookup(c) PROVE PlaneInv'
    <2>1. PICK ip \in PlaneQueries, how \in {"failover", "redundant"} :
             call' = [call EXCEPT ![c] = [Idle EXCEPT
                         !.at = how, !.ip = ip, !.pending = enabled, !.known = confirmed]]
        BY <1>5 DEF BeginPlaneLookup
    <2> DEFINE k == [Idle EXCEPT !.at = how, !.ip = ip, !.pending = enabled, !.known = confirmed]
    <2>2. CallRight(k)
        BY DEF CallRight, Idle, NoAnswers, Phases
    <2>3. UNCHANGED <<enabled, table1, confirmed>>
        BY <1>5 DEF BeginPlaneLookup, planeTables
    <2> HIDE DEF k
    <2>q. QED
        BY <2>1, <2>2, <2>3, PlaneCall DEF k
<1>a. ASSUME NEW c \in Callers, NEW r, Answer(c, r),
             call[c].answers[1] # NoRoute => r = call[c].answers[1],
             UNCHANGED <<enabled, table1, confirmed>>
      PROVE  PlaneInv'
    <2> DEFINE k == [call[c] EXCEPT !.at = "answered", !.answer = r, !.pending = {}]
    <2>1. call' = [call EXCEPT ![c] = k]
        BY <1>a DEF Answer, PlaneInv
    <2>2. CallRight(k)
        BY <1>0, <1>a DEF CallRight, BestFor
    <2> HIDE DEF k
    <2>q. QED
        BY <1>a, <2>1, <2>2, PlaneCall
<1>6. ASSUME NEW c \in Callers, FailoverStep(c) PROVE PlaneInv'
    <2>1. call[c].answers[1] = NoRoute /\ UNCHANGED <<enabled, table1, confirmed>>
        BY <1>0, <1>6 DEF FailoverStep, CallRight, planeTables
    <2>2. ASSUME NEW r, Answer(c, r) PROVE PlaneInv'
        BY <1>a, <2>1, <2>2
    <2>3. CASE call' = [call EXCEPT ![c].pending = @ \ {Max(@)}]
        <3> DEFINE k == [call[c] EXCEPT !.pending = @ \ {Max(@)}]
        <3>1. CallRight(k)
            BY <1>0 DEF CallRight, BestFor
        <3>2. call' = [call EXCEPT ![c] = k]
            BY <2>3 DEF PlaneInv
        <3> HIDE DEF k
        <3>q. QED
            BY <2>1, <3>1, <3>2, PlaneCall
    <2>q. QED
        BY <1>6, <2>2, <2>3 DEF FailoverStep
<1>7. ASSUME NEW c \in Callers, RunPhase(c) PROVE PlaneInv'
    <2>p. PICK p \in call[c].pending : \E r \in PhaseAnswers(p, call[c].ip) :
             call' = [call EXCEPT ![c].answers[p] = r, ![c].pending = @ \ {p}]
        BY <1>7 DEF RunPhase
    <2>1. PICK r \in PhaseAnswers(p, call[c].ip) :
             call' = [call EXCEPT ![c].answers[p] = r, ![c].pending = @ \ {p}]
        BY <2>p
    <2> DEFINE k == [call[c] EXCEPT !.answers[p] = r, !.pending = @ \ {p}]
    <2>2. call' = [call EXCEPT ![c] = k] /\ UNCHANGED <<enabled, table1, confirmed>>
        BY <1>7, <2>1 DEF RunPhase, PlaneInv, planeTables
    <2>3. p \in enabled /\ p \in Phases /\ CallRight(call[c]) /\ call[c].at = "redundant"
        BY <1>0, <1>7 DEF CallRight, PlaneInv, RunPhase
    <2>4. /\ DOMAIN k = {"at", "route", "ip", "answers", "pending", "answer", "known"}
          /\ k.at = "redundant" /\ k.ip = call[c].ip /\ k.known = call[c].known
          /\ k.pending \subseteq enabled
          /\ k.answers = [call[c].answers EXCEPT ![p] = r]
        BY <2>3 DEF CallRight
    <2>5. k.answers[1] # NoRoute => BestFor(k.answers[1], k)
        <3>1. CASE p = 1
            <4>1. k.answers[1] = r
                BY <2>3, <2>4, <3>1 DEF CallRight, Phases
            <4>2. r # NoRoute => BestFor(r, call[c])
                BY <2>3, <3>1, FirstPhaseBest
            <4>q. QED
                BY <2>4, <4>1, <4>2 DEF BestFor
        <3>2. CASE p # 1
            <4>1. k.answers[1] = call[c].answers[1]
                BY <2>3, <2>4, <3>2 DEF CallRight, Phases
            <4>q. QED
                BY <2>3, <2>4, <4>1 DEF CallRight, BestFor
        <3>q. QED
            BY <3>1, <3>2
    <2> HIDE DEF k
    <2>6. CallRight(k)
        BY <2>3, <2>4, <2>5 DEF CallRight
    <2>q. QED
        BY <2>2, <2>6, PlaneCall
<1>8. ASSUME NEW c \in Callers, JoinPhases(c) PROVE PlaneInv'
    <2>1. /\ Answer(c, Fastest(call[c].answers)) /\ UNCHANGED <<enabled, table1, confirmed>>
        BY <1>8 DEF JoinPhases, planeTables
    <2>q. QED
        BY <1>a, <2>1, FastestFirst
<1>9. ASSUME NEW c \in Callers, ReturnAnswer(c) PROVE PlaneInv'
    BY <1>9, IdleRight, PlaneCall DEF ReturnAnswer, planeTables
<1>q. QED
    BY <1>1, <1>2, <1>3, <1>4, <1>5, <1>6, <1>7, <1>8, <1>9 DEF PlaneNext

\* With phase 1 enabled a redundant lookup answers as long a match as any route that
\* was confirmed before it.
THEOREM RedundantAnswers == PlaneInit /\ [][PlaneNext]_planeVars => []RedundantLongest
<1>1. PlaneInv => RedundantLongest
    BY DEF PlaneInv, CallRight, BestFor, RedundantLongest
<1>q. QED
    BY <1>1, PlaneInvInit, PlaneInvStep, PTL

-----------------------------------------------------------------------------
(* The performance monitor. *)
MonitorSpec == MonitorInit /\ [][MonitorNext]_monitorVars

Operations == {"none"} \cup Readers \cup Writers

\* A guard is released once no nested read is left, and only a summary nests.
GuardsTyped ==
    /\ doing \in [Threads -> Operations]
    /\ left \in [Threads -> Int]
    /\ \A t \in Threads : left[t] = Waiting \/ (left[t] >= 0 /\ left[t] <= Nested(doing[t]))

\* The threads that keep readers waiting are the writers that wait.
WritersWait ==
    writerWaits = {t \in Threads : doing[t] \in Writers /\ left[t] = Waiting}

\* Two threads are inside only if both read.
WritersExcluded ==
    \A t, u \in Threads : t # u /\ Inside(t) /\ Inside(u) =>
        doing[t] \in Readers /\ doing[u] \in Readers

MonitorInv == GuardsTyped /\ WritersWait /\ WritersExcluded

LEMMA OperationKinds ==
    /\ "none" \notin Readers /\ "none" \notin Writers
    /\ Readers \cap Writers = {} /\ "summary" \in Readers
    /\ \A op \in Readers \cup Writers : op \in Operations
    /\ \A op : Nested(op) \in {0, 3} /\ (Nested(op) > 0 => op = "summary")
BY DEF Readers, Writers, Operations, Nested

LEMMA MonitorInitInv == MonitorInit => MonitorInv
BY OperationKinds
   DEF MonitorInit, MonitorInv, GuardsTyped, WritersWait, WritersExcluded, Inside,
       Operations, Waiting

LEMMA CallStep ==
    ASSUME MonitorInv, NEW t \in Threads, NEW op \in Readers \cup Writers, Call(t, op)
    PROVE  MonitorInv'
<1> USE OperationKinds DEF MonitorInv
<1>1. GuardsTyped'
    BY DEF GuardsTyped, Call, Waiting
<1>2. WritersWait'
    BY DEF GuardsTyped, WritersWait, Call
<1>3. WritersExcluded'
    BY DEF GuardsTyped, WritersExcluded, Inside, Call
<1>q. QED
    BY <1>1, <1>2, <1>3

LEMMA EnterStep ==
    ASSUME MonitorInv, NEW t \in Threads, Enter(t)
    PROVE  MonitorInv'
<1> USE OperationKinds DEF MonitorInv
<1>0. doing' = doing /\ left' = [left EXCEPT ![t] = Nested(doing[t])] /\ doing[t] # "none"
    BY DEF Enter, MayEnter
<1>1. GuardsTyped'
    BY <1>0 DEF GuardsTyped
<1>2. WritersWait'
    BY <1>0 DEF GuardsTyped, WritersWait, Enter, Waiting
<1>3. WritersExcluded'
    <2>1. \A u \in Threads \ {t} : Inside(u) => doing[t] \in Readers /\ doing[u] \in Readers
        BY DEF Enter, MayEnter, MayRead, Free
    <2>2. \A u \in Threads \ {t} : Inside(u)' <=> Inside(u)
        BY <1>0 DEF GuardsTyped, Inside
    <2>q. QED
        BY <1>0, <2>1, <2>2 DEF WritersExcluded
<1>q. QED
    BY <1>1, <1>2, <1>3

LEMMA ReadAgainStep ==
    ASSUME MonitorInv, NEW t \in Threads, ReadAgain(t)
    PROVE  MonitorInv'
<1> USE OperationKinds DEF MonitorInv
<1>0. /\ doing' = doing /\ writerWaits' = writerWaits
      /\ left' = [left EXCEPT ![t] = @ - 1] /\ left[t] > 0 /\ Inside(t)
    BY DEF ReadAgain, MayReadAgain
<1>1. GuardsTyped'
    BY <1>0 DEF GuardsTyped, Waiting
<1>2. \A u \in Threads : Inside(u)' <=> Inside(u)
    BY <1>0 DEF GuardsTyped, Inside, Waiting
<1>3. WritersWait'
    BY <1>0 DEF GuardsTyped, WritersWait, Waiting
<1>4. WritersExcluded'
    BY <1>0, <1>2 DEF WritersExcluded
<1>q. QED
    BY <1>1, <1>3, <1>4

LEMMA LeaveStep ==
    ASSUME MonitorInv, NEW t \in Threads, Leave(t)
    PROVE  MonitorInv'
<1> USE OperationKinds DEF MonitorInv
<1>0. /\ doing' = [doing EXCEPT ![t] = "none"] /\ left' = [left EXCEPT ![t] = Waiting]
      /\ writerWaits' = writerWaits /\ left[t] # Waiting
    BY DEF Leave, Waiting
<1>1. GuardsTyped'
    BY <1>0 DEF GuardsTyped, Operations, Waiting
<1>2. WritersWait'
    BY <1>0 DEF GuardsTyped, WritersWait
<1>3. WritersExcluded'
    BY <1>0 DEF GuardsTyped, WritersExcluded, Inside
<1>q. QED
    BY <1>1, <1>2, <1>3

LEMMA MonitorStep == MonitorInv /\ [MonitorNext]_monitorVars => MonitorInv'
<1> SUFFICES ASSUME MonitorInv, [MonitorNext]_monitorVars PROVE MonitorInv'
    OBVIOUS
<1>1. CASE UNCHANGED monitorVars
    BY <1>1 DEF monitorVars, MonitorInv, GuardsTyped, WritersWait, WritersExcluded, Inside
<1>2. CASE MonitorNext
    BY <1>2, CallStep, EnterStep, ReadAgainStep, LeaveStep DEF MonitorNext
<1>q. QED
    BY <1>1, <1>2

\* The lock of the monitor is a lock: recording and resetting exclude every other
\* operation (parking_lot::RwLock as performance_monitor.rs uses it).
THEOREM MonitorExcludes == MonitorSpec => []WritersExcluded
<1>1. MonitorInv => WritersExcluded
    BY DEF MonitorInv
<1>q. QED
    BY MonitorInitInv, MonitorStep, <1>1, PTL DEF MonitorSpec

LEMMA StuckMeansSummary ==
    ASSUME MonitorInv, Threads # {} PROVE StuckOnlyBySummary
<1> USE OperationKinds
<1> SUFFICES ASSUME \A t \in Threads : /\ doing[t] # "none" /\ left[t] # 0
                                      /\ ~ MayEnter(t) /\ ~ MayReadAgain(t)
             PROVE  /\ writerWaits # {}
                    /\ \E t \in Threads : doing[t] = "summary" /\ Inside(t)
    BY DEF StuckOnlyBySummary
<1>1. CASE \E t \in Threads : Inside(t)
    <2>1. PICK t \in Threads : Inside(t)
        BY <1>1
    <2>2. left[t] > 0 /\ doing[t] = "summary"
        BY <2>1 DEF MonitorInv, GuardsTyped, Inside, Waiting
    <2>3. Free(t, "summary")
        BY <2>1, <2>2 DEF MonitorInv, WritersExcluded, Free
    <2>4. ~ MayRead(t)
        BY <2>1, <2>2 DEF MayReadAgain
    <2>q. QED
        BY <2>1, <2>2, <2>3, <2>4 DEF MayRead
<1>2. CASE \A t \in Threads : ~ Inside(t)
    <2>1. PICK t \in Threads : TRUE
        OBVIOUS
    <2>2. \A u \in Threads : left[u] = Waiting
        BY <1>2 DEF Inside
    <2>3. \A u \in Threads : \A op : Free(u, op)
        BY <1>2 DEF Free
    <2>4. \A u \in Threads : doing[u] \notin Writers
        BY <2>2, <2>3 DEF MayEnter
    <2>5. writerWaits = {} /\ doing[t] \in Readers
        BY <2>4 DEF MonitorInv, GuardsTyped, WritersWait, Operations
    <2>q. QED
        BY <2>2, <2>3, <2>5 DEF MayEnter, MayRead
<1>q. QED
    BY <1>1, <1>2

\* However many threads record, reset and read, the monitor only ever stops where a
\* summary that holds the lock waits behind a writer that waits for the summary.
THEOREM OnlySummaryStops == ASSUME Threads # {} PROVE MonitorSpec => []StuckOnlyBySummary
<1>1. MonitorInv => StuckOnlyBySummary
    BY StuckMeansSummary
<1>q. QED
    BY MonitorInitInv, MonitorStep, <1>1, PTL DEF MonitorSpec
=============================================================================
