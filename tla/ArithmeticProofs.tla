-------------------------- MODULE ArithmeticProofs --------------------------
(***************************************************************************)
(* Proofs about the arithmetic of the crates and of the kernel: for all    *)
(* elements of GF(2^32), for every shape of a tensor and every size of the *)
(* caches, and for every list of primes and all numbers.                   *)
(*                                                                         *)
(* A loop of the model is a recursive function: LoopRuns and RunsStay of   *)
(* Sums give its values, and EachPrefix and PrefixInduction what they are  *)
(* at each of its steps.                                                   *)
(***************************************************************************)
EXTENDS SymmetrixArithmetic, Sums, SequenceTheorems, TLAPS

ArithmeticSpec == ArithmeticInit /\ [][ArithmeticNext]_arithmeticVars

-----------------------------------------------------------------------------
(* GF(2^32): numbers are the sets of their bits, and addition is SymDiff.  *)

Words == SUBSET (0..31)
Wide == SUBSET (0..63)

\* The loop of the multiplication.
TimesStep(a, b, v, i) == IF i \in b THEN SymDiff(v, Shift(a, i)) ELSE v
TimesLoop(a, b, g) ==
    g = [n \in 0..32 |-> IF n = 0 THEN {} ELSE TimesStep(a, b, g[n - 1], n - 1)]

\* The multiplication's loop, as a choice of a function that satisfies it.
LEMMA TimesIsLoop ==
    ASSUME NEW a, NEW b PROVE Times(a, b) = (CHOOSE g : TimesLoop(a, b, g))[32]
BY Zenon DEF Times, TimesLoop, TimesStep

\* Its steps stay in 64 bits ...
LEMMA TimesStepIn ==
    ASSUME NEW a \in Words, NEW b, NEW v \in Wide, NEW i \in 0..31
    PROVE  TimesStep(a, b, v, i) \in Wide
<1>1. Shift(a, i) \in Wide
    BY DEF Wide, Words, Shift
<1>q. QED
    BY <1>1 DEF Wide, SymDiff, TimesStep

\* ... so that its run is one of words of 64 bits.
LEMMA TimesTrace ==
    ASSUME NEW a \in Words, NEW b \in Words
    PROVE  \E t \in [0..32 -> Wide] :
              /\ t[0] = {} /\ Times(a, b) = t[32]
              /\ \A k \in 1..32 : t[k] = TimesStep(a, b, t[k - 1], k - 1)
<1> DEFINE f == [p \in Wide \X (1..32) |-> TimesStep(a, b, p[1], p[2] - 1)]
<1>1. \A v \in Wide, k \in 1..32 :
        TimesStep(a, b, v, k - 1) \in Wide /\ f[<<v, k>>] = TimesStep(a, b, v, k - 1)
    BY TimesStepIn
<1>b. {} \in Wide /\ 32 \in Nat
    BY DEF Wide
<1>2. Loop(Wide, {}, f, 32)
    BY <1>1, <1>b DEF Loop
<1> HIDE DEF f
<1>3. \E g : TimesLoop(a, b, g)
    <2>1. PICK g \in [0..32 -> Wide] : Runs({}, f, 32, g)
        BY <1>2, LoopRuns
    <2>2. \A k \in 1..32 : k - 1 \in 0..32 /\ k \in 0..32 /\ k # 0
        BY <1>2 DEF Loop
    <2>3. ASSUME NEW k \in 0..32
          PROVE  g[k] = IF k = 0 THEN {} ELSE TimesStep(a, b, g[k - 1], k - 1)
        <3>1. CASE k = 0
            BY <2>1, <3>1 DEF Runs
        <3>2. CASE k # 0
            <4>1. k \in 1..32 /\ g[k - 1] \in Wide
                BY <1>2, <2>1, <2>2, <3>2 DEF Loop
            <4>2. g[k] = f[<<g[k - 1], k>>]
                BY <2>1, <4>1 DEF Runs
            <4>q. QED
                BY <1>1, <3>2, <4>1, <4>2
        <3>q. QED
            BY <3>1, <3>2
    <2>4. TimesLoop(a, b, g)
        BY <2>1, <2>3 DEF TimesLoop
    <2>q. QED
        BY <2>4
<1> DEFINE h == CHOOSE g : TimesLoop(a, b, g)
<1>4. TimesLoop(a, b, h)
    BY <1>3
<1>5. Times(a, b) = h[32]
    BY TimesIsLoop
<1> HIDE DEF h
<1>6. 0 \in 0..32 /\ \A k \in 1..32 : k \in 0..32 /\ k # 0
    BY <1>b
<1>7. h = [k \in 0..32 |-> h[k]]
      /\ \A k \in 0..32 : h[k] = IF k = 0 THEN {} ELSE TimesStep(a, b, h[k - 1], k - 1)
    BY <1>4 DEF TimesLoop
<1>8. /\ h[0] = {}
      /\ \A k \in 1..32 : h[k] = TimesStep(a, b, h[k - 1], k - 1)
    BY <1>6, <1>7
<1>9. \A k \in 1..32 : h[k - 1] \in Wide => h[k] = f[<<h[k - 1], k>>]
    BY <1>1, <1>8
<1>10. Follows(Wide, {}, f, 32, h)
    BY <1>7, <1>8, <1>9, Zenon DEF Follows
<1>11. h \in [0..32 -> Wide]
    BY <1>2, <1>10, RunsStay
<1>q. QED
    BY <1>5, <1>8, <1>11

\* The loop of the reduction.
ReduceLoop(x, g) ==
    g = [n \in 0..32 |-> IF n = 0 THEN x ELSE ReduceStep(g[n - 1], 64 - n, Polynomial)]

\* The reduction's loop.
LEMMA ReduceIsLoop ==
    ASSUME NEW x PROVE Reduce(x, Polynomial) = Low32((CHOOSE g : ReduceLoop(x, g))[32])
BY Zenon DEF Reduce, ReduceLoop

\* A step cancels within 64 bits.
LEMMA ReduceStepIn ==
    ASSUME NEW v \in Wide, NEW i \in 32..63
    PROVE  ReduceStep(v, i, Polynomial) \in Wide
<1>1. Shift(Polynomial, i - 32) \in Wide
    BY DEF Wide, Polynomial, Shift
<1>q. QED
    BY <1>1 DEF Wide, SymDiff, ReduceStep

\* The run of a reduction.
LEMMA ReduceTrace ==
    ASSUME NEW x \in Wide
    PROVE  \E t \in [0..32 -> Wide] :
              /\ t[0] = x /\ Reduce(x, Polynomial) = Low32(t[32])
              /\ \A k \in 1..32 : t[k] = ReduceStep(t[k - 1], 64 - k, Polynomial)
<1> DEFINE f == [p \in Wide \X (1..32) |-> ReduceStep(p[1], 64 - p[2], Polynomial)]
<1>1. \A v \in Wide, k \in 1..32 :
        ReduceStep(v, 64 - k, Polynomial) \in Wide /\ f[<<v, k>>] = ReduceStep(v, 64 - k, Polynomial)
    BY ReduceStepIn
<1>b. x \in Wide /\ 32 \in Nat
    OBVIOUS
<1>2. Loop(Wide, x, f, 32)
    BY <1>1, <1>b DEF Loop
<1> HIDE DEF f
<1>3. \E g : ReduceLoop(x, g)
    <2>1. PICK g \in [0..32 -> Wide] : Runs(x, f, 32, g)
        BY <1>2, LoopRuns
    <2>2. \A k \in 1..32 : k - 1 \in 0..32 /\ k \in 0..32 /\ k # 0
        BY <1>2 DEF Loop
    <2>3. ASSUME NEW k \in 0..32
          PROVE  g[k] = IF k = 0 THEN x ELSE ReduceStep(g[k - 1], 64 - k, Polynomial)
        <3>1. CASE k = 0
            BY <2>1, <3>1 DEF Runs
        <3>2. CASE k # 0
            <4>1. k \in 1..32 /\ g[k - 1] \in Wide
                BY <1>2, <2>1, <2>2, <3>2 DEF Loop
            <4>2. g[k] = f[<<g[k - 1], k>>]
                BY <2>1, <4>1 DEF Runs
            <4>q. QED
                BY <1>1, <3>2, <4>1, <4>2
        <3>q. QED
            BY <3>1, <3>2
    <2>4. ReduceLoop(x, g)
        BY <2>1, <2>3 DEF ReduceLoop
    <2>q. QED
        BY <2>4
<1> DEFINE h == CHOOSE g : ReduceLoop(x, g)
<1>4. ReduceLoop(x, h)
    BY <1>3
<1>5. Reduce(x, Polynomial) = Low32(h[32])
    BY ReduceIsLoop
<1> HIDE DEF h
<1>6. 0 \in 0..32 /\ \A k \in 1..32 : k \in 0..32 /\ k # 0
    BY <1>b
<1>7. h = [k \in 0..32 |-> h[k]]
      /\ \A k \in 0..32 : h[k] = IF k = 0 THEN x ELSE ReduceStep(h[k - 1], 64 - k, Polynomial)
    BY <1>4 DEF ReduceLoop
<1>8. /\ h[0] = x
      /\ \A k \in 1..32 : h[k] = ReduceStep(h[k - 1], 64 - k, Polynomial)
    BY <1>6, <1>7
<1>9. \A k \in 1..32 : h[k - 1] \in Wide => h[k] = f[<<h[k - 1], k>>]
    BY <1>1, <1>8
<1>10. Follows(Wide, x, f, 32, h)
    BY <1>7, <1>8, <1>9, Zenon DEF Follows
<1>11. h \in [0..32 -> Wide]
    BY <1>2, <1>10, RunsStay
<1>q. QED
    BY <1>5, <1>8, <1>11

\* The loop of QAGML's multiplication.
QagmlStates == [sum : Words, a : Words]
QagmlStep(b, st, i) ==
    [sum |-> IF i \in b THEN SymDiff(st.sum, st.a) ELSE st.sum, a |-> ShiftReduced(st.a)]
QagmlLoop(a, b, g) ==
    g = [n \in 0..32 |-> IF n = 0 THEN [sum |-> {}, a |-> a] ELSE QagmlStep(b, g[n - 1], n - 1)]

\* QAGML's loop.
LEMMA QagmlIsLoop ==
    ASSUME NEW a, NEW b PROVE QagmlMul(a, b) = (CHOOSE g : QagmlLoop(a, b, g))[32].sum
BY Zenon DEF QagmlMul, QagmlLoop, QagmlStep

\* Its operand stays in 32 bits.
LEMMA ShiftReducedIn == ASSUME NEW a \in Words PROVE ShiftReduced(a) \in Words
<1>1. Shift(a, 1) \in SUBSET (0..32)
    BY DEF Words, Shift
<1>q. QED
    BY <1>1 DEF ShiftReduced, Words, SymDiff, Polynomial

\* So does every step of it.
LEMMA QagmlStepIn ==
    ASSUME NEW b, NEW st \in QagmlStates, NEW i \in 0..31
    PROVE  QagmlStep(b, st, i) \in QagmlStates
<1>1. st.sum \in Words /\ st.a \in Words
    BY DEF QagmlStates
<1>2. SymDiff(st.sum, st.a) \in Words /\ ShiftReduced(st.a) \in Words
    BY <1>1, ShiftReducedIn DEF Words, SymDiff
<1>q. QED
    BY <1>1, <1>2 DEF QagmlStep, QagmlStates

\* The run of QAGML's multiplication.
LEMMA QagmlTrace ==
    ASSUME NEW a \in Words, NEW b \in Words
    PROVE  \E t \in [0..32 -> QagmlStates] :
              /\ t[0] = [sum |-> {}, a |-> a] /\ QagmlMul(a, b) = t[32].sum
              /\ \A k \in 1..32 : t[k] = QagmlStep(b, t[k - 1], k - 1)
<1> DEFINE f == [p \in QagmlStates \X (1..32) |-> QagmlStep(b, p[1], p[2] - 1)]
<1>1. \A v \in QagmlStates, k \in 1..32 :
        QagmlStep(b, v, k - 1) \in QagmlStates /\ f[<<v, k>>] = QagmlStep(b, v, k - 1)
    BY QagmlStepIn
<1>b. [sum |-> {}, a |-> a] \in QagmlStates /\ 32 \in Nat
    BY DEF QagmlStates, Words
<1>2. Loop(QagmlStates, [sum |-> {}, a |-> a], f, 32)
    BY <1>1, <1>b DEF Loop
<1> HIDE DEF f
<1>3. \E g : QagmlLoop(a, b, g)
    <2>1. PICK g \in [0..32 -> QagmlStates] : Runs([sum |-> {}, a |-> a], f, 32, g)
        BY <1>2, LoopRuns
    <2>2. \A k \in 1..32 : k - 1 \in 0..32 /\ k \in 0..32 /\ k # 0
        BY <1>2 DEF Loop
    <2>3. ASSUME NEW k \in 0..32
          PROVE  g[k] = IF k = 0 THEN [sum |-> {}, a |-> a] ELSE QagmlStep(b, g[k - 1], k - 1)
        <3>1. CASE k = 0
            BY <2>1, <3>1 DEF Runs
        <3>2. CASE k # 0
            <4>1. k \in 1..32 /\ g[k - 1] \in QagmlStates
                BY <1>2, <2>1, <2>2, <3>2 DEF Loop
            <4>2. g[k] = f[<<g[k - 1], k>>]
                BY <2>1, <4>1 DEF Runs
            <4>q. QED
                BY <1>1, <3>2, <4>1, <4>2
        <3>q. QED
            BY <3>1, <3>2
    <2>4. QagmlLoop(a, b, g)
        BY <2>1, <2>3 DEF QagmlLoop
    <2>q. QED
        BY <2>4
<1> DEFINE h == CHOOSE g : QagmlLoop(a, b, g)
<1>4. QagmlLoop(a, b, h)
    BY <1>3
<1>5. QagmlMul(a, b) = h[32].sum
    BY QagmlIsLoop
<1> HIDE DEF h
<1>6. 0 \in 0..32 /\ \A k \in 1..32 : k \in 0..32 /\ k # 0
    BY <1>b
<1>7. h = [k \in 0..32 |-> h[k]]
      /\ \A k \in 0..32 : h[k] = IF k = 0 THEN [sum |-> {}, a |-> a] ELSE QagmlStep(b, h[k - 1], k - 1)
    BY <1>4 DEF QagmlLoop
<1>8. /\ h[0] = [sum |-> {}, a |-> a]
      /\ \A k \in 1..32 : h[k] = QagmlStep(b, h[k - 1], k - 1)
    BY <1>6, <1>7
<1>9. \A k \in 1..32 : h[k - 1] \in QagmlStates => h[k] = f[<<h[k - 1], k>>]
    BY <1>1, <1>8
<1>10. Follows(QagmlStates, [sum |-> {}, a |-> a], f, 32, h)
    BY <1>7, <1>8, <1>9, Zenon DEF Follows
<1>11. h \in [0..32 -> QagmlStates]
    BY <1>2, <1>10, RunsStay
<1>q. QED
    BY <1>5, <1>8, <1>11

-----------------------------------------------------------------------------
\* Addition is exclusive or: where the two differ.
LEMMA XorWords == \A x, y \in Words : SymDiff(x, y) \in Words
BY DEF Words, SymDiff

\* The same for 64 bits.
LEMMA XorWide == \A x, y \in Wide : SymDiff(x, y) \in Wide
BY DEF Wide, SymDiff

\* A bit of a sum is one of exactly one of the terms.
LEMMA XorMember == \A x, y, e : e \in SymDiff(x, y) <=> (e \in x <=> e \notin y)
BY DEF SymDiff

\* The sum of an element with itself is zero, and only that; sums commute.
LEMMA XorLaws ==
    /\ \A x : SymDiff(x, x) = {} /\ SymDiff(x, {}) = x /\ SymDiff({}, x) = x
    /\ \A x, y : SymDiff(x, y) = {} => x = y
    /\ \A x, y : SymDiff(x, y) = SymDiff(y, x)
BY DEF SymDiff

\* What is added to both terms cancels.
LEMMA XorTwice == \A x, y, z : SymDiff(SymDiff(x, z), SymDiff(y, z)) = SymDiff(x, y)
BY DEF SymDiff

\* Terms may be added in any order: to the left term,
LEMMA XorRight == \A x, y, z : SymDiff(SymDiff(x, z), y) = SymDiff(SymDiff(x, y), z)
BY DEF SymDiff

\* to the right one,
LEMMA XorLeft == \A x, y, z : SymDiff(x, SymDiff(y, z)) = SymDiff(SymDiff(x, y), z)
BY DEF SymDiff

\* and two by two.
LEMMA XorSwap == \A x, y, z, w : SymDiff(SymDiff(x, y), SymDiff(z, w)) = SymDiff(SymDiff(x, z), SymDiff(y, w))
BY DEF SymDiff

\* The bits of a shifted word.
LEMMA ShiftHas ==
    \A n \in Nat : \A x \in SUBSET Nat :
        Shift(x, n) \in SUBSET Nat /\ \A e \in Int : e \in Shift(x, n) <=> e - n \in x
BY DEF Shift

\* A shift is additive.
LEMMA ShiftXor ==
    \A n \in Nat : \A x, y \in SUBSET Nat :
        Shift(SymDiff(x, y), n) = SymDiff(Shift(x, n), Shift(y, n))
<1> SUFFICES ASSUME NEW n \in Nat, NEW x \in SUBSET Nat, NEW y \in SUBSET Nat
             PROVE  Shift(SymDiff(x, y), n) = SymDiff(Shift(x, n), Shift(y, n))
    OBVIOUS
<1>1. \A z \in SUBSET Nat : Shift(z, n) \in SUBSET Nat /\ \A e \in Nat : e \in Shift(z, n) <=> e - n \in z
    BY ShiftHas
<1>2. SymDiff(x, y) \in SUBSET Nat
    BY DEF SymDiff
<1>3. \A e \in Nat : e \in Shift(SymDiff(x, y), n) <=> e \in SymDiff(Shift(x, n), Shift(y, n))
    BY <1>1, <1>2, XorMember
<1>4. SymDiff(Shift(x, n), Shift(y, n)) \in SUBSET Nat /\ Shift(SymDiff(x, y), n) \in SUBSET Nat
    BY <1>1, <1>2 DEF SymDiff
<1>q. QED
    BY <1>3, <1>4

\* A word of 32 bits shifted by at most 32 fits 64.
LEMMA ShiftWide == \A x \in Words : \A i \in 0..32 : Shift(x, i) \in Wide
BY DEF Words, Wide, Shift

\* Bits are numbered from 0.
LEMMA WideNat == \A x \in Wide : x \in SUBSET Nat
BY DEF Wide

\* A word of 32 bits is one of 64.
LEMMA WordsWide == \A x \in Words : x \in Wide
BY DEF Words, Wide

\* Reducing leaves the bits below 63 - k after k steps.
LEMMA Reducing ==
    ASSUME NEW x \in Wide
    PROVE  \E t \in [0..32 -> Wide] :
              /\ t[0] = x /\ Reduce(x, Polynomial) = t[32] /\ t[32] \in Words
              /\ \A k \in 1..32 : t[k] = ReduceStep(t[k - 1], 64 - k, Polynomial)
<1>1. PICK t \in [0..32 -> Wide] :
              /\ t[0] = x /\ Reduce(x, Polynomial) = Low32(t[32])
              /\ \A k \in 1..32 : t[k] = ReduceStep(t[k - 1], 64 - k, Polynomial)
    BY ReduceTrace
<1> DEFINE P == {k \in 0..32 : t[k] \in SUBSET (0..(63 - k))}
<1>2. 0 \in P
    BY <1>1 DEF Wide
<1>3. ASSUME NEW k \in 1..32, k - 1 \in P PROVE k \in P
    <2>1. t[k - 1] \in SUBSET (0..(64 - k))
        BY <1>3
    <2>2. Shift(Polynomial, 32 - k) \in SUBSET (0..(64 - k)) /\ 64 - k \in Shift(Polynomial, 32 - k)
        BY DEF Shift, Polynomial
    <2>3. (64 - k) - 32 = 32 - k
        OBVIOUS
    <2>4. t[k] = IF 64 - k \in t[k - 1] THEN SymDiff(t[k - 1], Shift(Polynomial, 32 - k)) ELSE t[k - 1]
        BY <1>1, <2>3 DEF ReduceStep
    <2>5. t[k] \in SUBSET (0..(64 - k)) /\ 64 - k \notin t[k]
        BY <2>1, <2>2, <2>4 DEF SymDiff
    <2>q. QED
        BY <2>5
<1>4. 32 \in P
    <2> HIDE DEF P
    <2>q. QED
        BY <1>2, <1>3, PrefixInduction
<1>5. t[32] \in Words /\ Low32(t[32]) = t[32]
    BY <1>4 DEF Words, Low32
<1>q. QED
    BY <1>1, <1>5

\* A reduction ends with 32 bits.
LEMMA ReduceWord == \A x \in Wide : Reduce(x, Polynomial) \in Words
BY Reducing

\* What has 32 bits is not changed by a reduction.
LEMMA ReduceShort == ASSUME NEW x \in Words PROVE Reduce(x, Polynomial) = x
<1>1. PICK t \in [0..32 -> Wide] :
              /\ t[0] = x /\ Reduce(x, Polynomial) = t[32] /\ t[32] \in Words
              /\ \A k \in 1..32 : t[k] = ReduceStep(t[k - 1], 64 - k, Polynomial)
    BY Reducing, WordsWide
<1> DEFINE P == {k \in 0..32 : t[k] = x}
<1>2. 0 \in P
    BY <1>1
<1>3. ASSUME NEW k \in 1..32, k - 1 \in P PROVE k \in P
    <2>1. 64 - k \notin x
        BY DEF Words
    <2>q. QED
        BY <1>1, <1>3, <2>1 DEF ReduceStep
<1>4. 32 \in P
    <2> HIDE DEF P
    <2>q. QED
        BY <1>2, <1>3, PrefixInduction
<1>q. QED
    BY <1>1, <1>4

\* A step of the reduction is additive, since it looks at one bit,
LEMMA ReduceStepXor ==
    \A v, w, i : ReduceStep(SymDiff(v, w), i, Polynomial)
                    = SymDiff(ReduceStep(v, i, Polynomial), ReduceStep(w, i, Polynomial))
<1> SUFFICES ASSUME NEW v, NEW w, NEW i
             PROVE  ReduceStep(SymDiff(v, w), i, Polynomial)
                        = SymDiff(ReduceStep(v, i, Polynomial), ReduceStep(w, i, Polynomial))
    OBVIOUS
<1>1. CASE i \in v /\ i \in w
    BY <1>1, XorMember, XorTwice DEF ReduceStep
<1>2. CASE i \in v /\ i \notin w
    BY <1>2, XorMember, XorRight DEF ReduceStep
<1>3. CASE i \notin v /\ i \in w
    BY <1>3, XorMember, XorLeft DEF ReduceStep
<1>4. CASE i \notin v /\ i \notin w
    BY <1>4, XorMember DEF ReduceStep
<1>q. QED
    BY <1>1, <1>2, <1>3, <1>4

\* and so is the reduction.
LEMMA ReduceXor ==
    ASSUME NEW x \in Wide, NEW y \in Wide
    PROVE  Reduce(SymDiff(x, y), Polynomial)
              = SymDiff(Reduce(x, Polynomial), Reduce(y, Polynomial))
<1>1. PICK s \in [0..32 -> Wide] :
              /\ s[0] = x /\ Reduce(x, Polynomial) = s[32] /\ s[32] \in Words
              /\ \A k \in 1..32 : s[k] = ReduceStep(s[k - 1], 64 - k, Polynomial)
    BY Reducing
<1>2. PICK t \in [0..32 -> Wide] :
              /\ t[0] = y /\ Reduce(y, Polynomial) = t[32] /\ t[32] \in Words
              /\ \A k \in 1..32 : t[k] = ReduceStep(t[k - 1], 64 - k, Polynomial)
    BY Reducing
<1>3. SymDiff(x, y) \in Wide
    BY XorWide
<1>4. PICK u \in [0..32 -> Wide] :
              /\ u[0] = SymDiff(x, y) /\ Reduce(SymDiff(x, y), Polynomial) = u[32] /\ u[32] \in Words
              /\ \A k \in 1..32 : u[k] = ReduceStep(u[k - 1], 64 - k, Polynomial)
    BY <1>3, Reducing
<1> DEFINE P == {k \in 0..32 : u[k] = SymDiff(s[k], t[k])}
<1>5. 0 \in P
    BY <1>1, <1>2, <1>4
<1>6. ASSUME NEW k \in 1..32, k - 1 \in P PROVE k \in P
    BY <1>1, <1>2, <1>4, <1>6, ReduceStepXor
<1>7. 32 \in P
    <2> HIDE DEF P
    <2>q. QED
        BY <1>5, <1>6, PrefixInduction
<1>q. QED
    BY <1>1, <1>2, <1>4, <1>7

\* A step on a shifted word is the shifted step on the word,
LEMMA ShiftedStep ==
    ASSUME NEW v \in Wide, NEW i \in 32..62
    PROVE  ReduceStep(Shift(v, 1), i + 1, Polynomial) = Shift(ReduceStep(v, i, Polynomial), 1)
<1>1. i + 1 \in Shift(v, 1) <=> i \in v
    BY DEF Shift, Wide
<1>2. Shift(Polynomial, i - 32) \in SUBSET Nat /\ v \in SUBSET Nat
    BY DEF Shift, Polynomial, Wide
<1>3. (i + 1) - 32 = (i - 32) + 1
    OBVIOUS
<1>4. Shift(Polynomial, (i - 32) + 1) = Shift(Shift(Polynomial, i - 32), 1)
    <2>1. \A j \in Nat : Shift(Polynomial, j) = {32 + j, 7 + j, 3 + j, 2 + j, 0 + j}
        BY DEF Shift, Polynomial
    <2>2. \A j \in Nat : Shift({32 + j, 7 + j, 3 + j, 2 + j, 0 + j}, 1) =
                            {32 + (j + 1), 7 + (j + 1), 3 + (j + 1), 2 + (j + 1), 0 + (j + 1)}
        BY DEF Shift
    <2>3. i - 32 \in Nat /\ (i - 32) + 1 \in Nat
        OBVIOUS
    <2>q. QED
        BY <2>1, <2>2, <2>3
<1>5. Shift(SymDiff(v, Shift(Polynomial, i - 32)), 1) = SymDiff(Shift(v, 1), Shift(Shift(Polynomial, i - 32), 1))
    BY <1>2, ShiftXor
<1>q. QED
    BY <1>1, <1>3, <1>4, <1>5 DEF ReduceStep

\* so that reducing a shifted word is shifting and reducing the reduced one.
LEMMA ReduceShifted ==
    ASSUME NEW y \in SUBSET (0..62)
    PROVE  Reduce(Shift(y, 1), Polynomial) = ShiftReduced(Reduce(y, Polynomial))
<1>1. y \in Wide /\ Shift(y, 1) \in Wide /\ 63 \notin y
    BY DEF Wide, Shift
<1>2. PICK s \in [0..32 -> Wide] :
              /\ s[0] = y /\ Reduce(y, Polynomial) = s[32] /\ s[32] \in Words
              /\ \A k \in 1..32 : s[k] = ReduceStep(s[k - 1], 64 - k, Polynomial)
    BY <1>1, Reducing
<1>3. PICK t \in [0..32 -> Wide] :
              /\ t[0] = Shift(y, 1) /\ Reduce(Shift(y, 1), Polynomial) = t[32] /\ t[32] \in Words
              /\ \A k \in 1..32 : t[k] = ReduceStep(t[k - 1], 64 - k, Polynomial)
    BY <1>1, Reducing
<1> DEFINE P == {k \in 0..31 : t[k] = Shift(s[k + 1], 1)}
<1>4. 0 \in P
    <2>1. s[1] = ReduceStep(s[1 - 1], 64 - 1, Polynomial)
        BY <1>2
    <2>2. s[1] = y
        BY <1>1, <1>2, <2>1 DEF ReduceStep
    <2>q. QED
        BY <1>3, <2>2
<1>5. ASSUME NEW k \in 1..31, k - 1 \in P PROVE k \in P
    <2>1. t[k - 1] = Shift(s[k], 1) /\ s[k] \in Wide
        BY <1>5
    <2>2. t[k] = ReduceStep(Shift(s[k], 1), (63 - k) + 1, Polynomial)
        BY <1>3, <2>1
    <2>3. s[k + 1] = ReduceStep(s[k], 63 - k, Polynomial)
        <3>1. k + 1 \in 1..32 /\ (k + 1) - 1 = k /\ 64 - (k + 1) = 63 - k
            OBVIOUS
        <3>q. QED
            BY <1>2, <3>1
    <2>4. t[k] = Shift(s[k + 1], 1)
        BY <2>1, <2>2, <2>3, ShiftedStep
    <2>q. QED
        BY <2>4
<1>6. 31 \in P
    <2> HIDE DEF P
    <2>q. QED
        BY <1>4, <1>5, PrefixInduction
<1>7. t[31] = Shift(s[32], 1) /\ t[32] = ReduceStep(t[31], 32, Polynomial)
    BY <1>3, <1>6
<1>8. Shift(Polynomial, 32 - 32) = Polynomial
    BY DEF Shift, Polynomial
<1>q. QED
    BY <1>2, <1>3, <1>7, <1>8 DEF ReduceStep, ShiftReduced

-----------------------------------------------------------------------------
\* The two multiplications are the same.
LEMMA ShiftZero == \A a \in Words : Shift(a, 0) = a
<1> SUFFICES ASSUME NEW a \in Words PROVE Shift(a, 0) = a
    OBVIOUS
<1>1. \A b \in a : b + 0 = b
    BY DEF Words
<1>q. QED
    BY <1>1 DEF Shift

\* A shift by k is made of k shifts.
LEMMA ShiftNext == \A a \in Words : \A k \in 1..32 : Shift(Shift(a, k - 1), 1) = Shift(a, k)
<1> SUFFICES ASSUME NEW a \in Words, NEW k \in 1..32
             PROVE  Shift(Shift(a, k - 1), 1) = Shift(a, k)
    OBVIOUS
<1>1. a \in SUBSET Nat /\ k \in Nat /\ k - 1 \in Nat /\ 1 \in Nat
    BY DEF Words
<1>2. /\ Shift(a, k) \in SUBSET Nat
      /\ Shift(a, k - 1) \in SUBSET Nat
      /\ Shift(Shift(a, k - 1), 1) \in SUBSET Nat
    BY <1>1, ShiftHas
<1>3. ASSUME NEW e \in Nat PROVE e \in Shift(Shift(a, k - 1), 1) <=> e - k \in a
    <2>1. e - 1 \in Int /\ (e - 1) - (k - 1) = e - k
        OBVIOUS
    <2>2. e \in Shift(Shift(a, k - 1), 1) <=> e - 1 \in Shift(a, k - 1)
        BY <1>1, <1>2, ShiftHas
    <2>3. e - 1 \in Shift(a, k - 1) <=> (e - 1) - (k - 1) \in a
        BY <1>1, <2>1, ShiftHas
    <2>q. QED
        BY <2>1, <2>2, <2>3
<1>4. \A e \in Nat : e \in Shift(a, k) <=> e - k \in a
    BY <1>1, ShiftHas
<1>q. QED
    BY <1>2, <1>3, <1>4

\* QAGML reduces its operand at every shift, the TCAM the whole product at the end:
\* QAGML's sum after k bits is the reduced sum of the TCAM after k bits.
LEMMA GfMulIsQagmlMul ==
    ASSUME NEW a \in Words, NEW b \in Words
    PROVE  GfMul(a, b, Polynomial) = QagmlMul(a, b)
<1>1. PICK t \in [0..32 -> Wide] :
              /\ t[0] = {} /\ Times(a, b) = t[32]
              /\ \A k \in 1..32 : t[k] = TimesStep(a, b, t[k - 1], k - 1)
    BY TimesTrace
<1>2. PICK q \in [0..32 -> QagmlStates] :
              /\ q[0] = [sum |-> {}, a |-> a] /\ QagmlMul(a, b) = q[32].sum
              /\ \A k \in 1..32 : q[k] = QagmlStep(b, q[k - 1], k - 1)
    BY QagmlTrace
<1> DEFINE P == {k \in 0..32 : /\ q[k].a = Reduce(Shift(a, k), Polynomial)
                               /\ q[k].sum = Reduce(t[k], Polynomial)}
<1>3. 0 \in P
    <2>1. {} \in Words
        BY DEF Words
    <2>q. QED
        BY <1>1, <1>2, <2>1, ReduceShort, ShiftZero
<1>4. ASSUME NEW k \in 1..32, k - 1 \in P PROVE k \in P
    <2>1. /\ q[k - 1].a = Reduce(Shift(a, k - 1), Polynomial)
          /\ q[k - 1].sum = Reduce(t[k - 1], Polynomial)
        BY <1>4
    <2>2. /\ q[k].a = ShiftReduced(q[k - 1].a)
          /\ q[k].sum = IF k - 1 \in b THEN SymDiff(q[k - 1].sum, q[k - 1].a) ELSE q[k - 1].sum
        BY <1>2 DEF QagmlStep
    <2>3. Shift(a, k - 1) \in SUBSET (0..62)
        BY DEF Words, Shift
    <2>4. q[k].a = Reduce(Shift(a, k), Polynomial)
        BY <2>1, <2>2, <2>3, ReduceShifted, ShiftNext
    <2>5. t[k - 1] \in Wide /\ Shift(a, k - 1) \in Wide
        BY ShiftWide
    <2>6. t[k] = IF k - 1 \in b THEN SymDiff(t[k - 1], Shift(a, k - 1)) ELSE t[k - 1]
        BY <1>1 DEF TimesStep
    <2>7. q[k].sum = Reduce(t[k], Polynomial)
        BY <2>1, <2>2, <2>5, <2>6, ReduceXor
    <2>q. QED
        BY <2>4, <2>7
<1>5. 32 \in P
    <2> HIDE DEF P
    <2>q. QED
        BY <1>3, <1>4, PrefixInduction
<1>q. QED
    BY <1>1, <1>2, <1>5 DEF GfMul

-----------------------------------------------------------------------------
\* The product is additive in both factors.
LEMMA TimesXorLeft ==
    ASSUME NEW a \in Words, NEW c \in Words, NEW b \in Words
    PROVE  Times(SymDiff(a, c), b) = SymDiff(Times(a, b), Times(c, b))
<1>1. PICK s \in [0..32 -> Wide] :
              /\ s[0] = {} /\ Times(a, b) = s[32]
              /\ \A k \in 1..32 : s[k] = TimesStep(a, b, s[k - 1], k - 1)
    BY TimesTrace
<1>2. PICK t \in [0..32 -> Wide] :
              /\ t[0] = {} /\ Times(c, b) = t[32]
              /\ \A k \in 1..32 : t[k] = TimesStep(c, b, t[k - 1], k - 1)
    BY TimesTrace
<1>3. SymDiff(a, c) \in Words
    BY XorWords
<1>4. PICK u \in [0..32 -> Wide] :
              /\ u[0] = {} /\ Times(SymDiff(a, c), b) = u[32]
              /\ \A k \in 1..32 : u[k] = TimesStep(SymDiff(a, c), b, u[k - 1], k - 1)
    BY <1>3, TimesTrace
<1> DEFINE P == {k \in 0..32 : u[k] = SymDiff(s[k], t[k])}
<1>5. 0 \in P
    BY <1>1, <1>2, <1>4, XorLaws
<1>6. ASSUME NEW k \in 1..32, k - 1 \in P PROVE k \in P
    <2>1. u[k - 1] = SymDiff(s[k - 1], t[k - 1])
        BY <1>6
    <2>2. Shift(SymDiff(a, c), k - 1) = SymDiff(Shift(a, k - 1), Shift(c, k - 1))
        BY ShiftXor, WordsWide, WideNat
    <2>3. /\ u[k] = IF k - 1 \in b THEN SymDiff(u[k - 1], Shift(SymDiff(a, c), k - 1)) ELSE u[k - 1]
          /\ s[k] = IF k - 1 \in b THEN SymDiff(s[k - 1], Shift(a, k - 1)) ELSE s[k - 1]
          /\ t[k] = IF k - 1 \in b THEN SymDiff(t[k - 1], Shift(c, k - 1)) ELSE t[k - 1]
        BY <1>1, <1>2, <1>4 DEF TimesStep
    <2>4. CASE k - 1 \in b
        <3>1. u[k] = SymDiff(SymDiff(s[k - 1], t[k - 1]), SymDiff(Shift(a, k - 1), Shift(c, k - 1)))
            BY <2>1, <2>2, <2>3, <2>4
        <3>2. SymDiff(s[k], t[k])
                = SymDiff(SymDiff(s[k - 1], Shift(a, k - 1)), SymDiff(t[k - 1], Shift(c, k - 1)))
            BY <2>3, <2>4
        <3>3. SymDiff(SymDiff(s[k - 1], t[k - 1]), SymDiff(Shift(a, k - 1), Shift(c, k - 1)))
                = SymDiff(SymDiff(s[k - 1], Shift(a, k - 1)), SymDiff(t[k - 1], Shift(c, k - 1)))
            BY XorSwap
        <3>4. u[k] = SymDiff(s[k], t[k])
            BY <3>1, <3>2, <3>3
        <3>q. QED
            BY <3>4
    <2>5. CASE k - 1 \notin b
        BY <2>1, <2>3, <2>5
    <2>q. QED
        BY <2>4, <2>5
<1>7. 32 \in P
    <2> HIDE DEF P
    <2>q. QED
        BY <1>5, <1>6, PrefixInduction
<1>q. QED
    BY <1>1, <1>2, <1>4, <1>7

\* It is additive in the second factor too.
LEMMA TimesXorRight ==
    ASSUME NEW a \in Words, NEW b \in Words, NEW c \in Words
    PROVE  Times(a, SymDiff(b, c)) = SymDiff(Times(a, b), Times(a, c))
<1>1. PICK s \in [0..32 -> Wide] :
              /\ s[0] = {} /\ Times(a, b) = s[32]
              /\ \A k \in 1..32 : s[k] = TimesStep(a, b, s[k - 1], k - 1)
    BY TimesTrace
<1>2. PICK t \in [0..32 -> Wide] :
              /\ t[0] = {} /\ Times(a, c) = t[32]
              /\ \A k \in 1..32 : t[k] = TimesStep(a, c, t[k - 1], k - 1)
    BY TimesTrace
<1>3. SymDiff(b, c) \in Words
    BY XorWords
<1>4. PICK u \in [0..32 -> Wide] :
              /\ u[0] = {} /\ Times(a, SymDiff(b, c)) = u[32]
              /\ \A k \in 1..32 : u[k] = TimesStep(a, SymDiff(b, c), u[k - 1], k - 1)
    BY <1>3, TimesTrace
<1> DEFINE P == {k \in 0..32 : u[k] = SymDiff(s[k], t[k])}
<1>5. 0 \in P
    BY <1>1, <1>2, <1>4, XorLaws
<1>6. ASSUME NEW k \in 1..32, k - 1 \in P PROVE k \in P
    <2> DEFINE x == Shift(a, k - 1)
    <2>1. u[k - 1] = SymDiff(s[k - 1], t[k - 1])
        BY <1>6
    <2>2. /\ u[k] = IF k - 1 \in SymDiff(b, c) THEN SymDiff(u[k - 1], x) ELSE u[k - 1]
          /\ s[k] = IF k - 1 \in b THEN SymDiff(s[k - 1], x) ELSE s[k - 1]
          /\ t[k] = IF k - 1 \in c THEN SymDiff(t[k - 1], x) ELSE t[k - 1]
        BY <1>1, <1>2, <1>4 DEF TimesStep
    <2> HIDE DEF x
    <2>3. k - 1 \in SymDiff(b, c) <=> (k - 1 \in b <=> k - 1 \notin c)
        BY XorMember
    <2>4. CASE k - 1 \in b /\ k - 1 \in c
        BY <2>1, <2>2, <2>3, <2>4, XorTwice
    <2>5. CASE k - 1 \in b /\ k - 1 \notin c
        BY <2>1, <2>2, <2>3, <2>5, XorRight
    <2>6. CASE k - 1 \notin b /\ k - 1 \in c
        BY <2>1, <2>2, <2>3, <2>6, XorLeft
    <2>7. CASE k - 1 \notin b /\ k - 1 \notin c
        BY <2>1, <2>2, <2>3, <2>7
    <2>q. QED
        BY <2>4, <2>5, <2>6, <2>7
<1>7. 32 \in P
    <2> HIDE DEF P
    <2>q. QED
        BY <1>5, <1>6, PrefixInduction
<1>q. QED
    BY <1>1, <1>2, <1>4, <1>7

\* A power of x shifts.
LEMMA TimesBit ==
    ASSUME NEW a \in Words, NEW i \in 0..31
    PROVE  Times(a, {i}) = Shift(a, i)
<1>0. {i} \in Words
    BY DEF Words
<1>1. PICK t \in [0..32 -> Wide] :
              /\ t[0] = {} /\ Times(a, {i}) = t[32]
              /\ \A k \in 1..32 : t[k] = TimesStep(a, {i}, t[k - 1], k - 1)
    BY <1>0, TimesTrace
<1> DEFINE P == {k \in 0..32 : t[k] = IF i < k THEN Shift(a, i) ELSE {}}
<1>2. 0 \in P
    BY <1>1
<1>3. ASSUME NEW k \in 1..32, k - 1 \in P PROVE k \in P
    <2>1. t[k - 1] = IF i < k - 1 THEN Shift(a, i) ELSE {}
        BY <1>3
    <2>2. t[k] = IF k - 1 = i THEN SymDiff(t[k - 1], Shift(a, i)) ELSE t[k - 1]
        BY <1>1 DEF TimesStep
    <2>3. CASE k - 1 = i
        BY <2>1, <2>2, <2>3, XorLaws
    <2>4. CASE k - 1 # i
        BY <2>1, <2>2, <2>4
    <2>q. QED
        BY <2>3, <2>4
<1>4. 32 \in P
    <2> HIDE DEF P
    <2>q. QED
        BY <1>2, <1>3, PrefixInduction
<1>q. QED
    BY <1>1, <1>4

\* From either side.
LEMMA BitTimes ==
    ASSUME NEW b \in Words, NEW i \in 0..31
    PROVE  Times({i}, b) = Shift(b, i)
<1>0. {i} \in Words
    BY DEF Words
<1>1. PICK t \in [0..32 -> Wide] :
              /\ t[0] = {} /\ Times({i}, b) = t[32]
              /\ \A k \in 1..32 : t[k] = TimesStep({i}, b, t[k - 1], k - 1)
    BY <1>0, TimesTrace
<1> DEFINE P == {k \in 0..32 : t[k] = {e \in Shift(b, i) : e < i + k}}
<1>2. 0 \in P
    <2>1. \A e \in Shift(b, i) : ~(e < i + 0)
        BY DEF Shift, Words
    <2>q. QED
        BY <1>1, <2>1
<1>3. ASSUME NEW k \in 1..32, k - 1 \in P PROVE k \in P
    <2>1. t[k - 1] = {e \in Shift(b, i) : e < i + (k - 1)}
        BY <1>3
    <2>2. t[k] = IF k - 1 \in b THEN SymDiff(t[k - 1], Shift({i}, k - 1)) ELSE t[k - 1]
        BY <1>1 DEF TimesStep
    <2>3. Shift({i}, k - 1) = {i + (k - 1)}
        BY DEF Shift
    <2>4. Shift(b, i) \in SUBSET Nat /\ (k - 1 \in b <=> i + (k - 1) \in Shift(b, i))
        BY DEF Shift, Words
    <2>5. \A e \in Nat : e < i + k <=> (e < i + (k - 1) \/ e = i + (k - 1))
        OBVIOUS
    <2>6. CASE k - 1 \in b
        <3>1. t[k] = SymDiff({e \in Shift(b, i) : e < i + (k - 1)}, {i + (k - 1)})
            BY <2>1, <2>2, <2>3, <2>6
        <3>2. ~(i + (k - 1) < i + (k - 1))
            OBVIOUS
        <3>3. \A e : e \in t[k] <=> (e \in Shift(b, i) /\ e < i + (k - 1)) \/ e = i + (k - 1)
            BY <3>1, <3>2, XorMember
        <3>4. \A e : e \in t[k] <=> e \in Shift(b, i) /\ e < i + k
            BY <2>4, <2>5, <2>6, <3>3
        <3>q. QED
            BY <3>4
    <2>7. CASE k - 1 \notin b
        <3>1. \A e \in Shift(b, i) : e < i + k <=> e < i + (k - 1)
            BY <2>4, <2>5, <2>7
        <3>q. QED
            BY <2>1, <2>2, <2>7, <3>1
    <2>q. QED
        BY <2>6, <2>7
<1>4. 32 \in P
    <2> HIDE DEF P
    <2>q. QED
        BY <1>2, <1>3, PrefixInduction
<1>5. \A e \in Shift(b, i) : e < i + 32
    BY DEF Shift, Words
<1>q. QED
    BY <1>1, <1>4, <1>5

\* Squaring doubles the exponents.
Doubled(a) == {2 * i : i \in a}
Sq(a) == Reduce(Doubled(a), Polynomial)

\* The bits of a square: those of the element at even places.
LEMMA DoubledHas ==
    ASSUME NEW a \in Words
    PROVE  /\ Doubled(a) \in SUBSET (0..62)
           /\ \A i \in Nat : 2 * i \in Doubled(a) <=> i \in a
           /\ \A i \in Nat : 2 * i + 1 \notin Doubled(a)
BY DEF Words, Doubled

\* It has at most 63 of them.
LEMMA DoubledWide == \A a \in Words : Doubled(a) \in Wide
BY DEF Words, Wide, Doubled

\* Squaring is additive before it is reduced,
LEMMA DoubledXor ==
    ASSUME NEW a \in Words, NEW b \in Words
    PROVE  Doubled(SymDiff(a, b)) = SymDiff(Doubled(a), Doubled(b))
<1>1. SymDiff(a, b) \in Words
    BY XorWords
<1>2. \A x \in Words : Doubled(x) = {e \in 0..62 : \E i \in 0..31 : e = 2 * i /\ i \in x}
    BY DEF Words, Doubled
<1>3. ASSUME NEW e PROVE e \in Doubled(SymDiff(a, b)) <=> e \in SymDiff(Doubled(a), Doubled(b))
    <2>1. CASE \E i \in 0..31 : e = 2 * i
        <3>1. PICK i \in 0..31 : e = 2 * i
            BY <2>1
        <3>2. \A x \in Words : e \in Doubled(x) <=> i \in x
            BY <3>1, DoubledHas
        <3>q. QED
            BY <1>1, <3>2, XorMember
    <2>2. CASE ~\E i \in 0..31 : e = 2 * i
        <3>1. \A x \in Words : e \notin Doubled(x)
            BY <1>2, <2>2
        <3>q. QED
            BY <1>1, <3>1, XorMember
    <2>q. QED
        BY <2>1, <2>2
<1>q. QED
    BY <1>3

\* Zero times zero.
LEMMA TimesNone == Times({}, {}) = {}
<1>1. {} \in Words /\ SymDiff({}, {}) = {}
    BY XorLaws DEF Words
<1>2. Times(SymDiff({}, {}), {}) = SymDiff(Times({}, {}), Times({}, {}))
    BY <1>1, TimesXorLeft
<1>q. QED
    BY <1>1, <1>2, XorLaws

\* The product of an element with itself, by induction over its bits: the two mixed
\* products of a new bit cancel.
LEMMA TimesSelf == \A a \in Words : Times(a, a) = Doubled(a)
<1> DEFINE F == {x \in Words : Times(x, x) = Doubled(x)}
<1>1. {} \in F
    BY TimesNone DEF Words, Doubled
<1>2. ASSUME NEW x \in Words, NEW i \in (0..31) \ x, x \in F
      PROVE  x \cup {i} \in F
    <2>1. /\ {i} \in Words /\ x \cup {i} \in Words /\ x \cup {i} = SymDiff(x, {i})
          /\ Times(x, x) = Doubled(x)
        BY <1>2 DEF Words, SymDiff
    <2> DEFINE y == SymDiff(x, {i})
    <2>a. x \in Words /\ {i} \in Words /\ y \in Words /\ i \in 0..31
        BY <2>1
    <2>2. Times(y, y) = SymDiff(Times(x, y), Times({i}, y))
        BY <2>a, TimesXorLeft
    <2>3. Times(x, y) = SymDiff(Doubled(x), Shift(x, i))
        <3>1. Times(x, y) = SymDiff(Times(x, x), Times(x, {i}))
            BY <2>a, TimesXorRight
        <3>q. QED
            BY <2>1, <2>a, <3>1, TimesBit
    <2>4. Times({i}, y) = SymDiff(Shift(x, i), Shift({i}, i))
        <3>1. Times({i}, y) = SymDiff(Times({i}, x), Times({i}, {i}))
            BY <2>a, TimesXorRight
        <3>q. QED
            BY <2>a, <3>1, BitTimes
    <2> HIDE DEF y
    <2>5. Times(y, y) = SymDiff(Doubled(x), Shift({i}, i))
        <3>1. \A p, q, r : SymDiff(SymDiff(p, q), SymDiff(q, r)) = SymDiff(p, r)
            BY DEF SymDiff
        <3>q. QED
            BY <2>2, <2>3, <2>4, <3>1
    <2>6. Shift({i}, i) = Doubled({i})
        BY DEF Shift, Doubled
    <2>7. Times(x \cup {i}, x \cup {i}) = Doubled(x \cup {i})
        <3>1. SymDiff(x, {i}) = y
            BY DEF y
        <3>2. Doubled(y) = SymDiff(Doubled(x), Doubled({i}))
            BY <2>a, <3>1, DoubledXor
        <3>3. x \cup {i} = y
            BY <2>1, <3>1
        <3>q. QED
            BY <2>5, <2>6, <3>2, <3>3
    <2>q. QED
        BY <2>1, <2>7
<1>3. ASSUME NEW a \in Words PROVE a \in F
    <2>1. IsFiniteSet(a)
        <3>1. IsFiniteSet(0..31)
            <4>1. \A n \in Nat : IsFiniteSet(0..n)
                BY FS_Interval
            <4>2. 31 \in Nat
                OBVIOUS
            <4>q. QED
                BY <4>1, <4>2, Zenon
        <3>2. a \in SUBSET (0..31)
            BY DEF Words
        <3>q. QED
            BY <3>1, <3>2, FS_Subset
    <2>2. \A T \in SUBSET a : \A i \in a \ T : T \in F => T \cup {i} \in F
        BY <1>2 DEF Words
    <2> HIDE DEF F
    <2>q. QED
        BY <1>1, <2>1, <2>2, FiniteSubsetInduction
<1>q. QED
    BY <1>3

\* A product has 64 bits before it is reduced, 32 after.
LEMMA TimesWide == \A a, b \in Words : Times(a, b) \in Wide
BY TimesTrace

\* The field is closed under products.
LEMMA GfMulIn == \A a, b \in Words : GfMul(a, b, Polynomial) \in Words
BY TimesWide, ReduceWord DEF GfMul

\* The square as the loops compute it.
LEMMA SquareIs == \A a \in Words : GfMul(a, a, Polynomial) = Sq(a) /\ Sq(a) \in Words
BY TimesSelf, DoubledWide, ReduceWord DEF GfMul, Sq

\* Squaring is additive.
LEMMA SquareXor == \A a, b \in Words : Sq(SymDiff(a, b)) = SymDiff(Sq(a), Sq(b))
BY DoubledXor, DoubledWide, ReduceXor DEF Sq

\* One is neutral.
LEMMA OneTimes == \A a \in Words : GfMul({0}, a, Polynomial) = a
<1> SUFFICES ASSUME NEW a \in Words PROVE GfMul({0}, a, Polynomial) = a
    OBVIOUS
<1>1. Times({0}, a) = Shift(a, 0)
    BY BitTimes
<1>q. QED
    BY <1>1, ShiftZero, ReduceShort DEF GfMul


\* The loop of the power 2^5.
PowStates == [result : Words, base : Words]
Top == Max({5}) + 1
PowStep(st, i) ==
    [st EXCEPT !.result = IF i \in {5} THEN GfMul(@, st.base, Polynomial) ELSE @,
               !.base = GfMul(@, @, Polynomial)]
PowLoop(a, g) ==
    g = [n \in 0..Top |-> IF n = 0 THEN [result |-> {0}, base |-> a] ELSE PowStep(g[n - 1], n - 1)]

\* The loop of pow, for the exponent 2^5 of the compression.
LEMMA PowIsLoop ==
    ASSUME NEW a PROVE CompressPrefix(a) = (CHOOSE g : PowLoop(a, g))[Top].result
BY Zenon DEF CompressPrefix, Frobenius, GfPow, Top, PowLoop, PowStep

\* It takes six steps.
LEMMA TopIs == Top = 6
<1>1. Max({5}) = 5
    BY DEF Max
<1>q. QED
    BY <1>1 DEF Top

\* Each squares the base; the last one multiplies it to the result.
LEMMA PowStepIs ==
    \A st \in PowStates : \A i \in 0..5 :
        /\ PowStep(st, i) \in PowStates
        /\ PowStep(st, i).base = Sq(st.base)
        /\ PowStep(st, i).result = IF i = 5 THEN GfMul(st.result, st.base, Polynomial) ELSE st.result
<1> SUFFICES ASSUME NEW st \in PowStates, NEW i \in 0..5
             PROVE  /\ PowStep(st, i) \in PowStates
                    /\ PowStep(st, i).base = Sq(st.base)
                    /\ PowStep(st, i).result
                          = IF i = 5 THEN GfMul(st.result, st.base, Polynomial) ELSE st.result
    OBVIOUS
<1> DEFINE r == IF i \in {5} THEN GfMul(st.result, st.base, Polynomial) ELSE st.result
           b == GfMul(st.base, st.base, Polynomial)
<1>1. st.result \in Words /\ st.base \in Words /\ st = [result |-> st.result, base |-> st.base]
    BY DEF PowStates
<1>2. r \in Words /\ b \in Words /\ b = Sq(st.base)
    BY <1>1, GfMulIn, SquareIs
<1>3. r = IF i = 5 THEN GfMul(st.result, st.base, Polynomial) ELSE st.result
    OBVIOUS
<1>4. PowStep(st, i) = [st EXCEPT !.result = r, !.base = b]
    BY <1>1 DEF PowStep
<1> HIDE DEF r, b
<1>5. PowStep(st, i) = [result |-> r, base |-> b]
    BY <1>1, <1>4
<1>q. QED
    BY <1>2, <1>3, <1>5 DEF PowStates

\* The run of pow.
LEMMA PowTrace ==
    ASSUME NEW a \in Words
    PROVE  \E t \in [0..Top -> PowStates] :
              /\ t[0] = [result |-> {0}, base |-> a] /\ CompressPrefix(a) = t[Top].result
              /\ \A k \in 1..Top : t[k] = PowStep(t[k - 1], k - 1)
<1> DEFINE f == [p \in PowStates \X (1..Top) |-> PowStep(p[1], p[2] - 1)]
<1>1. \A v \in PowStates, k \in 1..Top :
        PowStep(v, k - 1) \in PowStates /\ f[<<v, k>>] = PowStep(v, k - 1)
    BY PowStepIs, TopIs
<1>b. [result |-> {0}, base |-> a] \in PowStates /\ Top \in Nat
    BY TopIs DEF PowStates, Words
<1>2. Loop(PowStates, [result |-> {0}, base |-> a], f, Top)
    BY <1>1, <1>b DEF Loop
<1> HIDE DEF f
<1>3. \E g : PowLoop(a, g)
    <2>1. PICK g \in [0..Top -> PowStates] : Runs([result |-> {0}, base |-> a], f, Top, g)
        BY <1>2, LoopRuns
    <2>2. \A k \in 1..Top : k - 1 \in 0..Top /\ k \in 0..Top /\ k # 0
        BY <1>2 DEF Loop
    <2>3. ASSUME NEW k \in 0..Top
          PROVE  g[k] = IF k = 0 THEN [result |-> {0}, base |-> a] ELSE PowStep(g[k - 1], k - 1)
        <3>1. CASE k = 0
            BY <2>1, <3>1 DEF Runs
        <3>2. CASE k # 0
            <4>1. k \in 1..Top /\ g[k - 1] \in PowStates
                BY <1>2, <2>1, <2>2, <3>2 DEF Loop
            <4>2. g[k] = f[<<g[k - 1], k>>]
                BY <2>1, <4>1 DEF Runs
            <4>q. QED
                BY <1>1, <3>2, <4>1, <4>2
        <3>q. QED
            BY <3>1, <3>2
    <2>4. PowLoop(a, g)
        BY <2>1, <2>3 DEF PowLoop
    <2>q. QED
        BY <2>4
<1> DEFINE h == CHOOSE g : PowLoop(a, g)
<1>4. PowLoop(a, h)
    BY <1>3
<1>5. CompressPrefix(a) = h[Top].result
    BY PowIsLoop
<1> HIDE DEF h
<1>6. 0 \in 0..Top /\ \A k \in 1..Top : k \in 0..Top /\ k # 0
    BY <1>b
<1>7. h = [k \in 0..Top |-> h[k]]
      /\ \A k \in 0..Top : h[k] = IF k = 0 THEN [result |-> {0}, base |-> a] ELSE PowStep(h[k - 1], k - 1)
    BY <1>4 DEF PowLoop
<1>8. /\ h[0] = [result |-> {0}, base |-> a]
      /\ \A k \in 1..Top : h[k] = PowStep(h[k - 1], k - 1)
    BY <1>6, <1>7
<1>9. \A k \in 1..Top : h[k - 1] \in PowStates => h[k] = f[<<h[k - 1], k>>]
    BY <1>1, <1>8
<1>10. Follows(PowStates, [result |-> {0}, base |-> a], f, Top, h)
    BY <1>7, <1>8, <1>9, Zenon DEF Follows
<1>11. h \in [0..Top -> PowStates]
    BY <1>2, <1>10, RunsStay
<1>q. QED
    BY <1>5, <1>8, <1>11

\* Compression squares five times.
LEMMA CompressIs ==
    ASSUME NEW a \in Words
    PROVE  CompressPrefix(a) = Sq(Sq(Sq(Sq(Sq(a)))))
<1>1. PICK t \in [0..6 -> PowStates] :
              /\ t[0] = [result |-> {0}, base |-> a] /\ CompressPrefix(a) = t[6].result
              /\ \A k \in 1..6 : t[k] = PowStep(t[k - 1], k - 1)
    BY PowTrace, TopIs
<1>2. \A k \in 0..5 :
        /\ t[k + 1].base = Sq(t[k].base)
        /\ t[k + 1].result = IF k = 5 THEN GfMul(t[k].result, t[k].base, Polynomial) ELSE t[k].result
    <2> SUFFICES ASSUME NEW k \in 0..5
                 PROVE  /\ t[k + 1].base = Sq(t[k].base)
                        /\ t[k + 1].result = IF k = 5 THEN GfMul(t[k].result, t[k].base, Polynomial)
                                             ELSE t[k].result
        OBVIOUS
    <2>1. k + 1 \in 1..6 /\ (k + 1) - 1 = k
        OBVIOUS
    <2>2. t[k + 1] = PowStep(t[k], k) /\ t[k] \in PowStates
        BY <1>1, <2>1
    <2>q. QED
        BY <2>2, PowStepIs
<1>3. t[0].base = a /\ t[0].result = {0}
    BY <1>1
<1>4. t[1].base = Sq(a) /\ t[1].result = {0}
    BY <1>2, <1>3
<1>5. t[2].base = Sq(Sq(a)) /\ t[2].result = {0}
    BY <1>2, <1>4
<1>6. t[3].base = Sq(Sq(Sq(a))) /\ t[3].result = {0}
    BY <1>2, <1>5
<1>7. t[4].base = Sq(Sq(Sq(Sq(a)))) /\ t[4].result = {0}
    BY <1>2, <1>6
<1>8. t[5].base = Sq(Sq(Sq(Sq(Sq(a))))) /\ t[5].result = {0}
    BY <1>2, <1>7
<1>9. t[6].result = GfMul({0}, Sq(Sq(Sq(Sq(Sq(a))))), Polynomial)
    BY <1>2, <1>8
<1>10. Sq(Sq(Sq(Sq(Sq(a))))) \in Words
    BY SquareIs
<1>q. QED
    BY <1>1, <1>9, <1>10, OneTimes

\* Compression is additive.
LEMMA CompressXor ==
    ASSUME NEW a \in Words, NEW b \in Words
    PROVE  CompressPrefix(SymDiff(a, b)) = SymDiff(CompressPrefix(a), CompressPrefix(b))
<1> DEFINE f(x) == Sq(Sq(x))
<1>1. \A x \in Words : Sq(x) \in Words /\ Sq(Sq(x)) \in Words /\ Sq(Sq(Sq(x))) \in Words
                       /\ Sq(Sq(Sq(Sq(x)))) \in Words
    BY SquareIs
<1>2. Sq(SymDiff(a, b)) = SymDiff(Sq(a), Sq(b))
    BY SquareXor
<1>3. Sq(Sq(SymDiff(a, b))) = SymDiff(Sq(Sq(a)), Sq(Sq(b)))
    BY <1>1, <1>2, SquareXor
<1>4. Sq(Sq(Sq(SymDiff(a, b)))) = SymDiff(Sq(Sq(Sq(a))), Sq(Sq(Sq(b))))
    BY <1>1, <1>3, SquareXor
<1>5. Sq(Sq(Sq(Sq(SymDiff(a, b))))) = SymDiff(Sq(Sq(Sq(Sq(a)))), Sq(Sq(Sq(Sq(b)))))
    BY <1>1, <1>4, SquareXor
<1>6. Sq(Sq(Sq(Sq(Sq(SymDiff(a, b)))))) = SymDiff(Sq(Sq(Sq(Sq(Sq(a))))), Sq(Sq(Sq(Sq(Sq(b))))))
    BY <1>1, <1>5, SquareXor
<1>7. SymDiff(a, b) \in Words
    BY XorWords
<1>q. QED
    BY <1>6, <1>7, CompressIs

-----------------------------------------------------------------------------
\* A multiple of the polynomial, without its reduction.
Multiple(q) == SymDiff(Shift(q, 32), SymDiff(Shift(q, 7), SymDiff(Shift(q, 3), SymDiff(Shift(q, 2), q))))

\* The bits of the multiple.
LEMMA MultipleHas ==
    ASSUME NEW q \in Words, NEW m \in Nat
    PROVE  m \in Multiple(q)
              <=> (m - 32 \in q <=> (m - 7 \in q <=> (m - 3 \in q <=> (m - 2 \in q <=> m \in q))))
<1>1. q \in SUBSET Nat /\ m \in Int /\ 32 \in Nat /\ 7 \in Nat /\ 3 \in Nat /\ 2 \in Nat
    BY DEF Words
<1>2. /\ m \in Shift(q, 32) <=> m - 32 \in q
      /\ m \in Shift(q, 7) <=> m - 7 \in q
      /\ m \in Shift(q, 3) <=> m - 3 \in q
      /\ m \in Shift(q, 2) <=> m - 2 \in q
    BY <1>1, ShiftHas
<1>3. /\ m \in SymDiff(Shift(q, 2), q) <=> (m \in Shift(q, 2) <=> m \notin q)
      /\ m \in SymDiff(Shift(q, 3), SymDiff(Shift(q, 2), q))
            <=> (m \in Shift(q, 3) <=> m \notin SymDiff(Shift(q, 2), q))
      /\ m \in SymDiff(Shift(q, 7), SymDiff(Shift(q, 3), SymDiff(Shift(q, 2), q)))
            <=> (m \in Shift(q, 7) <=> m \notin SymDiff(Shift(q, 3), SymDiff(Shift(q, 2), q)))
      /\ m \in Multiple(q)
            <=> (m \in Shift(q, 32) <=> m \notin SymDiff(Shift(q, 7), SymDiff(Shift(q, 3), SymDiff(Shift(q, 2), q))))
    BY XorMember DEF Multiple
<1>q. QED
    BY <1>2, <1>3

\* Multiples are additive in the quotient.
LEMMA MultipleXor ==
    ASSUME NEW q \in Words, NEW j \in 0..31
    PROVE  Multiple(SymDiff(q, {j})) = SymDiff(Multiple(q), Shift(Polynomial, j))
<1> DEFINE p == SymDiff(q, {j})
<1>1. {j} \in Words /\ p \in Words
    BY XorWords DEF Words
<1>2. \A x \in Words : Multiple(x) \in SUBSET Nat
    <2> SUFFICES ASSUME NEW x \in Words PROVE Multiple(x) \in SUBSET Nat
        OBVIOUS
    <2>1. x \in SUBSET Nat /\ 32 \in Nat /\ 7 \in Nat /\ 3 \in Nat /\ 2 \in Nat
        BY DEF Words
    <2>2. /\ Shift(x, 32) \in SUBSET Nat /\ Shift(x, 7) \in SUBSET Nat
          /\ Shift(x, 3) \in SUBSET Nat /\ Shift(x, 2) \in SUBSET Nat
        BY <2>1, ShiftHas
    <2>q. QED
        BY <2>1, <2>2 DEF Multiple, SymDiff
<1>3. Shift(Polynomial, j) \in SUBSET Nat
      /\ \A m \in Nat : m \in Shift(Polynomial, j) <=> m - j \in Polynomial
    BY ShiftHas DEF Polynomial
<1>4. ASSUME NEW m \in Nat
      PROVE  m \in Multiple(p) <=> m \in SymDiff(Multiple(q), Shift(Polynomial, j))
    <2>1. \A e : e \in p <=> (e \in q <=> e # j)
        BY DEF SymDiff
    <2>2. m \in Shift(Polynomial, j)
             <=> m - 32 = j \/ m - 7 = j \/ m - 3 = j \/ m - 2 = j \/ m = j
        BY <1>3 DEF Polynomial
    <2>3. m \in SymDiff(Multiple(q), Shift(Polynomial, j))
             <=> (m \in Multiple(q) <=> m \notin Shift(Polynomial, j))
        BY XorMember
    <2>4. m \in Multiple(p)
              <=> (m - 32 \in p <=> (m - 7 \in p <=> (m - 3 \in p <=> (m - 2 \in p <=> m \in p))))
        BY <1>1, MultipleHas
    <2>5. m \in Multiple(q)
              <=> (m - 32 \in q <=> (m - 7 \in q <=> (m - 3 \in q <=> (m - 2 \in q <=> m \in q))))
        BY MultipleHas
    <2> HIDE DEF p
    <2>6. CASE m - 32 = j
        BY <2>1, <2>2, <2>3, <2>4, <2>5, <2>6
    <2>7. CASE m - 7 = j
        BY <2>1, <2>2, <2>3, <2>4, <2>5, <2>7
    <2>8. CASE m - 3 = j
        BY <2>1, <2>2, <2>3, <2>4, <2>5, <2>8
    <2>9. CASE m - 2 = j
        BY <2>1, <2>2, <2>3, <2>4, <2>5, <2>9
    <2>10. CASE m = j
        BY <2>1, <2>2, <2>3, <2>4, <2>5, <2>10
    <2>11. CASE m - 32 # j /\ m - 7 # j /\ m - 3 # j /\ m - 2 # j /\ m # j
        BY <2>1, <2>2, <2>3, <2>4, <2>5, <2>11
    <2>q. QED
        BY <2>6, <2>7, <2>8, <2>9, <2>10, <2>11
<1>5. Multiple(p) \in SUBSET Nat /\ SymDiff(Multiple(q), Shift(Polynomial, j)) \in SUBSET Nat
    BY <1>1, <1>2, <1>3 DEF SymDiff
<1>q. QED
    BY <1>4, <1>5

\* What is reduced differs from its remainder by a multiple.
LEMMA Divided ==
    ASSUME NEW x \in Wide
    PROVE  \E q \in Words : x = SymDiff(Reduce(x, Polynomial), Multiple(q))
<1>1. PICK t \in [0..32 -> Wide] :
              /\ t[0] = x /\ Reduce(x, Polynomial) = t[32] /\ t[32] \in Words
              /\ \A k \in 1..32 : t[k] = ReduceStep(t[k - 1], 64 - k, Polynomial)
    BY Reducing
<1> DEFINE P == {k \in 0..32 : \E q \in Words : x = SymDiff(t[k], Multiple(q))}
<1>2. 0 \in P
    <2>1. {} \in Words /\ Multiple({}) = {}
        BY DEF Words, Multiple, Shift, SymDiff
    <2>2. x = SymDiff(t[0], Multiple({}))
        BY <1>1, <2>1, XorLaws
    <2>q. QED
        BY <2>1, <2>2
<1>3. ASSUME NEW k \in 1..32, k - 1 \in P PROVE k \in P
    <2>1. PICK q \in Words : x = SymDiff(t[k - 1], Multiple(q))
        BY <1>3
    <2>2. t[k] = IF 64 - k \in t[k - 1] THEN SymDiff(t[k - 1], Shift(Polynomial, 32 - k)) ELSE t[k - 1]
        <3>1. (64 - k) - 32 = 32 - k
            OBVIOUS
        <3>q. QED
            BY <1>1, <3>1 DEF ReduceStep
    <2>3. CASE 64 - k \in t[k - 1]
        <3>1. 32 - k \in 0..31 /\ {32 - k} \in Words
            BY DEF Words
        <3>2. SymDiff(q, {32 - k}) \in Words
            BY <3>1, XorWords
        <3>3. Multiple(SymDiff(q, {32 - k})) = SymDiff(Multiple(q), Shift(Polynomial, 32 - k))
            BY <3>1, MultipleXor
        <3>4. x = SymDiff(t[k], Multiple(SymDiff(q, {32 - k})))
            BY <2>1, <2>2, <2>3, <3>3, XorTwice
        <3>5. \E w \in Words : x = SymDiff(t[k], Multiple(w))
            BY <3>2, <3>4
        <3>q. QED
            BY <3>5
    <2>4. CASE 64 - k \notin t[k - 1]
        BY <2>1, <2>2, <2>4
    <2>q. QED
        BY <2>3, <2>4
<1>4. 32 \in P
    <2> HIDE DEF P
    <2>q. QED
        BY <1>2, <1>3, PrefixInduction
<1>q. QED
    BY <1>1, <1>4

\* No multiple of the polynomial is a square but zero.
LEMMA SquareZero == ASSUME NEW a \in Words, Sq(a) = {} PROVE a = {}
<1>1. PICK q \in Words : Doubled(a) = SymDiff({}, Multiple(q))
    BY DoubledWide, Divided DEF Sq
<1>2. Doubled(a) = Multiple(q)
    BY <1>1, XorLaws
<1>3. \A j : j \in q => j \in 0..31
    BY DEF Words
<1>4. ASSUME NEW i \in 0..31
      PROVE  LET m == 2 * i + 1 IN
             ~(m - 32 \in q <=> (m - 7 \in q <=> (m - 3 \in q <=> (m - 2 \in q <=> m \in q))))
    <2>1. 2 * i + 1 \in Nat /\ 2 * i + 1 \notin Doubled(a)
        BY DoubledHas
    <2>q. QED
        BY <1>2, <2>1, MultipleHas
<1>5. \A i \in 3..15 : 2 * i + 1 \notin q
    <2> SUFFICES ASSUME NEW i \in 3..15 PROVE 2 * i + 1 \notin q
        OBVIOUS
    <2>1. /\ i + 16 \in 0..31 /\ (2 * (i + 16) + 1) - 32 = 2 * i + 1
          /\ (2 * (i + 16) + 1) - 7 \notin q /\ (2 * (i + 16) + 1) - 3 \notin q
          /\ (2 * (i + 16) + 1) - 2 \notin q /\ 2 * (i + 16) + 1 \notin q
        BY <1>3
    <2>q. QED
        BY <1>4, <2>1
<1>6. \A i \in 4..15 : 2 * i - 6 \in q <=> 2 * i - 2 \in q
    <2> SUFFICES ASSUME NEW i \in 4..15 PROVE 2 * i - 6 \in q <=> 2 * i - 2 \in q
        OBVIOUS
    <2>1. /\ i \in 0..31 /\ (2 * i + 1) - 7 = 2 * i - 6 /\ (2 * i + 1) - 3 = 2 * i - 2
          /\ (2 * i + 1) - 32 \notin q
        BY <1>3
    <2>2. 2 * i + 1 \notin q
        BY <1>5
    <2>3. (2 * i + 1) - 2 \notin q
        <3>1. i - 1 \in 3..15 /\ (2 * i + 1) - 2 = 2 * (i - 1) + 1
            OBVIOUS
        <3>q. QED
            BY <1>5, <3>1
    <2>q. QED
        BY <1>4, <2>1, <2>2, <2>3
<1>7. 1 \notin q
    <2>1. ~(1 - 32 \in q <=> (1 - 7 \in q <=> (1 - 3 \in q <=> (1 - 2 \in q <=> 1 \in q))))
        BY <1>4, 2 * 0 + 1 = 1, 0 \in 0..31
    <2>2. 1 - 32 \notin q /\ 1 - 7 \notin q /\ 1 - 3 \notin q /\ 1 - 2 \notin q
        BY <1>3
    <2>q. QED
        BY <2>1, <2>2
<1>8. 0 \in q <=> 3 \in q
    <2>1. ~(3 - 32 \in q <=> (3 - 7 \in q <=> (3 - 3 \in q <=> (3 - 2 \in q <=> 3 \in q))))
        BY <1>4, 2 * 1 + 1 = 3, 1 \in 0..31
    <2>2. 3 - 32 \notin q /\ 3 - 7 \notin q /\ 3 - 3 = 0 /\ 3 - 2 = 1
        BY <1>3
    <2>q. QED
        BY <1>7, <2>1, <2>2
<1>9. 3 \in q <=> ~(2 \in q <=> 5 \in q)
    <2>1. ~(5 - 32 \in q <=> (5 - 7 \in q <=> (5 - 3 \in q <=> (5 - 2 \in q <=> 5 \in q))))
        BY <1>4, 2 * 2 + 1 = 5, 2 \in 0..31
    <2>2. 5 - 32 \notin q /\ 5 - 7 \notin q /\ 5 - 3 = 2 /\ 5 - 2 = 3
        BY <1>3
    <2>q. QED
        BY <2>1, <2>2
<1>10. 0 \in q <=> ~(4 \in q <=> 5 \in q)
    <2>1. ~(7 - 32 \in q <=> (7 - 7 \in q <=> (7 - 3 \in q <=> (7 - 2 \in q <=> 7 \in q))))
        BY <1>4, 2 * 3 + 1 = 7, 3 \in 0..31
    <2>2. 7 - 32 \notin q /\ 7 - 7 = 0 /\ 7 - 3 = 4 /\ 7 - 2 = 5
        BY <1>3
    <2>3. 7 \notin q
        BY <1>5, 2 * 3 + 1 = 7, 3 \in 3..15
    <2>q. QED
        BY <2>1, <2>2, <2>3
<1>11. 26 \in q <=> 30 \in q
    <2>1. ~(33 - 32 \in q <=> (33 - 7 \in q <=> (33 - 3 \in q <=> (33 - 2 \in q <=> 33 \in q))))
        BY <1>4, 2 * 16 + 1 = 33, 16 \in 0..31
    <2>2. 33 - 32 = 1 /\ 33 - 7 = 26 /\ 33 - 3 = 30 /\ 33 - 2 = 31 /\ 33 \notin q
        BY <1>3
    <2>3. 31 \notin q
        BY <1>5, 2 * 15 + 1 = 31, 15 \in 3..15
    <2>q. QED
        BY <1>7, <2>1, <2>2, <2>3
<1>12. 3 \in q <=> 28 \in q
    <2>1. ~(35 - 32 \in q <=> (35 - 7 \in q <=> (35 - 3 \in q <=> (35 - 2 \in q <=> 35 \in q))))
        BY <1>4, 2 * 17 + 1 = 35, 17 \in 0..31
    <2>2. 35 - 32 = 3 /\ 35 - 7 = 28 /\ 35 - 3 \notin q /\ 35 - 2 \notin q /\ 35 \notin q
        BY <1>3
    <2>q. QED
        BY <2>1, <2>2
<1>13. 5 \in q <=> 30 \in q
    <2>1. ~(37 - 32 \in q <=> (37 - 7 \in q <=> (37 - 3 \in q <=> (37 - 2 \in q <=> 37 \in q))))
        BY <1>4, 2 * 18 + 1 = 37, 18 \in 0..31
    <2>2. 37 - 32 = 5 /\ 37 - 7 = 30 /\ 37 - 3 \notin q /\ 37 - 2 \notin q /\ 37 \notin q
        BY <1>3
    <2>q. QED
        BY <2>1, <2>2
<1>14. /\ 2 \in q <=> 6 \in q
       /\ 6 \in q <=> 10 \in q
       /\ 10 \in q <=> 14 \in q
       /\ 14 \in q <=> 18 \in q
       /\ 18 \in q <=> 22 \in q
       /\ 22 \in q <=> 26 \in q
    <2>1. (2 * 4 - 6 \in q <=> 2 * 4 - 2 \in q) /\ (2 * 6 - 6 \in q <=> 2 * 6 - 2 \in q)
          /\ (2 * 8 - 6 \in q <=> 2 * 8 - 2 \in q) /\ (2 * 10 - 6 \in q <=> 2 * 10 - 2 \in q)
          /\ (2 * 12 - 6 \in q <=> 2 * 12 - 2 \in q) /\ (2 * 14 - 6 \in q <=> 2 * 14 - 2 \in q)
        BY <1>6
    <2>q. QED
        BY <2>1
<1>15. /\ 4 \in q <=> 8 \in q
       /\ 8 \in q <=> 12 \in q
       /\ 12 \in q <=> 16 \in q
       /\ 16 \in q <=> 20 \in q
       /\ 20 \in q <=> 24 \in q
       /\ 24 \in q <=> 28 \in q
    <2>1. (2 * 5 - 6 \in q <=> 2 * 5 - 2 \in q) /\ (2 * 7 - 6 \in q <=> 2 * 7 - 2 \in q)
          /\ (2 * 9 - 6 \in q <=> 2 * 9 - 2 \in q) /\ (2 * 11 - 6 \in q <=> 2 * 11 - 2 \in q)
          /\ (2 * 13 - 6 \in q <=> 2 * 13 - 2 \in q) /\ (2 * 15 - 6 \in q <=> 2 * 15 - 2 \in q)
        BY <1>6
    <2>q. QED
        BY <2>1
<1>16. /\ 0 \notin q /\ 1 \notin q /\ 2 \notin q /\ 3 \notin q /\ 4 \notin q /\ 5 \notin q /\ 6 \notin q
       /\ 8 \notin q /\ 10 \notin q /\ 12 \notin q /\ 14 \notin q /\ 16 \notin q /\ 18 \notin q
       /\ 20 \notin q /\ 22 \notin q /\ 24 \notin q /\ 26 \notin q /\ 28 \notin q /\ 30 \notin q
    BY <1>7, <1>8, <1>9, <1>10, <1>11, <1>12, <1>13, <1>14, <1>15
<1>17. \A j \in 0..31 : j \notin q
    <2> SUFFICES ASSUME NEW j \in 0..31 PROVE j \notin q
        OBVIOUS
    <2>1. CASE \E i \in 3..15 : j = 2 * i + 1
        BY <1>5, <2>1
    <2>2. CASE ~\E i \in 3..15 : j = 2 * i + 1
        <3>1. \/ j \in 0..6 \/ j = 8 \/ j = 10 \/ j = 12 \/ j = 14 \/ j = 16 \/ j = 18
              \/ j = 20 \/ j = 22 \/ j = 24 \/ j = 26 \/ j = 28 \/ j = 30
            <4>1. /\ j # 2 * 3 + 1 /\ j # 2 * 4 + 1 /\ j # 2 * 5 + 1 /\ j # 2 * 6 + 1 /\ j # 2 * 7 + 1
                  /\ j # 2 * 8 + 1 /\ j # 2 * 9 + 1 /\ j # 2 * 10 + 1 /\ j # 2 * 11 + 1
                  /\ j # 2 * 12 + 1 /\ j # 2 * 13 + 1 /\ j # 2 * 14 + 1 /\ j # 2 * 15 + 1
                BY <2>2
            <4>q. QED
                BY <4>1
        <3>q. QED
            BY <1>16, <3>1
    <2>q. QED
        BY <2>1, <2>2
<1>18. q = {}
    BY <1>3, <1>17
<1>19. Doubled(a) = {}
    BY <1>2, <1>18 DEF Multiple, Shift, SymDiff
<1>q. QED
    BY <1>19 DEF Doubled

\* Only zero is compressed to zero.
LEMMA CompressZero ==
    ASSUME NEW a \in Words
    PROVE  CompressPrefix(a) = {} <=> a = {}
<1>1. \A x \in Words : Sq(x) \in Words /\ Sq(Sq(x)) \in Words /\ Sq(Sq(Sq(x))) \in Words
                       /\ Sq(Sq(Sq(Sq(x)))) \in Words
    BY SquareIs
<1>2. \A x \in Words : Sq(x) = {} => x = {}
    BY SquareZero
<1>3. Sq({}) = {}
    <2>1. Doubled({}) = {} /\ {} \in Words
        BY DEF Doubled, Words
    <2>q. QED
        BY <2>1, ReduceShort DEF Sq
<1>q. QED
    BY <1>1, <1>2, <1>3, CompressIs

\* The multiplications of the TCAM and of QAGML agree, and compression maps addresses
\* additively and one to one, for all elements of the field (GF2_32, GaloisPostulate).
LEMMA FieldHolds == (\A s \in sample : s.a \in Words /\ s.b \in Words) => FieldExact
BY GfMulIsQagmlMul, CompressXor, CompressZero DEF FieldExact

-----------------------------------------------------------------------------
(* Folding a tensor into blocks. *)

\* The side of a block is positive and its square fits the cache.
LEMMA SideIs ==
    ASSUME NEW max \in Nat, max > 0
    PROVE  Side(max) \in 1..max /\ Side(max) * Side(max) <= max
<1> DEFINE S == {n \in 0..max : n * n <= max}
<1>1. IsFiniteSet(S)
    <2>1. IsFiniteSet(0..max) /\ S \in SUBSET (0..max)
        BY FS_Interval
    <2> HIDE DEF S
    <2>q. QED
        BY <2>1, FS_Subset
<1>2. S \in SUBSET Int /\ 1 \in S
    OBVIOUS
<1>3. Max(S) \in S /\ \A y \in S : y <= Max(S)
    <2> HIDE DEF S
    <2>q. QED
        BY <1>1, <1>2, MaxOf
<1>4. Max(S) >= 1
    BY <1>2, <1>3
<1>q. QED
    BY <1>3, <1>4 DEF Side

\* The first positions of the blocks along one dimension.
Starts(n, side) == {side * k : k \in 0..((n - 1) \div side)}

\* Every position is in a block ...
LEMMA StartOf ==
    ASSUME NEW n \in Nat, NEW side \in Nat, side > 0, NEW i \in 0..(n - 1)
    PROVE  \E start \in Starts(n, side) : i \in start..(start + side - 1)
<1> DEFINE p == i \div side
           q == (n - 1) \div side
<1>1. p \in Nat /\ side * p <= i /\ i < side * p + side
    BY QuotientRange
<1>2. q \in Nat /\ side * q <= n - 1 /\ n - 1 < side * q + side
    BY QuotientRange
<1>3. p <= q
    <2> HIDE DEF p, q
    <2>1. ASSUME q < p PROVE FALSE
        <3>1. side * (q + 1) <= side * p
            BY <1>1, <1>2, <2>1
        <3>q. QED
            BY <1>1, <1>2, <3>1
    <2>q. QED
        BY <1>1, <1>2, <2>1
<1>4. side * p \in Starts(n, side)
    BY <1>1, <1>2, <1>3 DEF Starts
<1>5. i \in (side * p)..(side * p + side - 1)
    <2> HIDE DEF p
    <2>q. QED
        BY <1>1
<1>q. QED
    BY <1>4, <1>5

\* ... and in no other one.
LEMMA StartUnique ==
    ASSUME NEW n \in Nat \ {0}, NEW side \in Nat, side > 0, NEW i \in Nat,
           NEW r \in Starts(n, side), i \in r..(r + side - 1)
    PROVE  r = side * (i \div side)
<1> DEFINE q == (n - 1) \div side
<1>1. q \in Nat
    BY QuotientRange
<1>2. PICK k \in 0..q : r = side * k
    BY DEF Starts
<1> HIDE DEF q
<1>3. k \in Nat /\ side * k \in Nat
    BY <1>1, <1>2
<1>4. side * k <= i /\ i < side * k + side
    BY <1>2, <1>3
<1>5. i \div side = k
    BY <1>3, <1>4, QuotientIs
<1>q. QED
    BY <1>2, <1>5

Shape == (Nat \ {0}) \X (Nat \ {0})
Block(dims, side, row, col) ==
    {c \in Cells(dims) : c[1] \in row..(row + side - 1) /\ c[2] \in col..(col + side - 1)}

\* A cell is a pair of coordinates within the dimensions.
LEMMA CellsAre ==
    ASSUME NEW dims \in Shape
    PROVE  /\ Cells(dims) = (0..(dims[1] - 1)) \X (0..(dims[2] - 1))
           /\ IsFiniteSet(Cells(dims)) /\ Cardinality(Cells(dims)) = dims[1] * dims[2]
<1>1. Cells(dims) = (0..(dims[1] - 1)) \X (0..(dims[2] - 1))
    BY DEF Cells
<1>2. dims[1] \in Nat \ {0} /\ dims[2] \in Nat \ {0}
    BY DEF Shape
<1>3. \A n \in Nat \ {0} : IsFiniteSet(0..(n - 1)) /\ Cardinality(0..(n - 1)) = n
    <2> SUFFICES ASSUME NEW n \in Nat \ {0}
                 PROVE  IsFiniteSet(0..(n - 1)) /\ Cardinality(0..(n - 1)) = n
        OBVIOUS
    <2>1. /\ IsFiniteSet(0..(n - 1))
          /\ Cardinality(0..(n - 1)) = IF 0 > n - 1 THEN 0 ELSE (n - 1) - 0 + 1
        BY FS_Interval
    <2>q. QED
        BY <2>1
<1> DEFINE S == 0..(dims[1] - 1)
           T == 0..(dims[2] - 1)
<1>4. IsFiniteSet(S) /\ IsFiniteSet(T) /\ Cardinality(S) = dims[1] /\ Cardinality(T) = dims[2]
    BY <1>2, <1>3
<1>5. Cells(dims) = S \X T
    BY <1>1
<1> HIDE DEF S, T
<1>6. IsFiniteSet(S \X T) /\ Cardinality(S \X T) = dims[1] * dims[2]
    BY <1>4, FS_Product
<1>7. IsFiniteSet(Cells(dims)) /\ Cardinality(Cells(dims)) = dims[1] * dims[2]
    BY <1>5, <1>6
<1>q. QED
    BY <1>1, <1>7

\* A block has at most as many cells as the square of its side.
LEMMA BlockFits ==
    ASSUME NEW dims \in Shape, NEW side \in Nat \ {0}, NEW row \in Nat, NEW col \in Nat
    PROVE  Cardinality(Block(dims, side, row, col)) <= side * side
<1> DEFINE S == row..(row + side - 1)
           T == col..(col + side - 1)
<1>1. IsFiniteSet(S) /\ IsFiniteSet(T) /\ Cardinality(S) = side /\ Cardinality(T) = side
    <2>1. \A a \in Nat : IsFiniteSet(a..(a + side - 1)) /\ Cardinality(a..(a + side - 1)) = side
        <3> SUFFICES ASSUME NEW a \in Nat
                     PROVE  IsFiniteSet(a..(a + side - 1)) /\ Cardinality(a..(a + side - 1)) = side
            OBVIOUS
        <3>1. /\ IsFiniteSet(a..(a + side - 1))
              /\ Cardinality(a..(a + side - 1))
                    = IF a > a + side - 1 THEN 0 ELSE (a + side - 1) - a + 1
            BY FS_Interval
        <3>q. QED
            BY <3>1
    <2>q. QED
        BY <2>1
<1>2. Block(dims, side, row, col) \in SUBSET (S \X T)
    BY CellsAre DEF Block
<1> HIDE DEF S, T
<1>3. IsFiniteSet(S \X T) /\ Cardinality(S \X T) = side * side
    BY <1>1, FS_Product
<1>4. Cardinality(Block(dims, side, row, col)) <= Cardinality(S \X T)
    BY <1>2, <1>3, FS_Subset
<1>q. QED
    BY <1>3, <1>4

\* Folding a tensor of any shape for a cache of any size.
Folds(dims, max) ==
    /\ UNION Fold(dims, max) = Cells(dims)
    /\ \A b, c \in Fold(dims, max) : b = c \/ b \cap c = {}
    /\ \A b \in Fold(dims, max) : Cardinality(b) <= max

\* What a tensor that does not fit is folded into.
LEMMA FoldIs ==
    ASSUME NEW dims, NEW max, ~ (dims[1] * dims[2] <= max)
    PROVE  Fold(dims, max) = {Block(dims, Side(max), row, col) :
               row \in Starts(dims[1], Side(max)), col \in Starts(dims[2], Side(max))}
BY DEF Fold, Block, Starts

\* Folding is a partition into blocks that fit.
LEMMA FoldParts ==
    ASSUME NEW dims \in Shape, NEW max \in Nat \ {0}
    PROVE  Folds(dims, max)
<1> DEFINE m == dims[1]
           n == dims[2]
           side == Side(max)
<1>1. m \in Nat \ {0} /\ n \in Nat \ {0}
    BY DEF Shape
<1>2. side \in Nat \ {0} /\ side * side <= max
    BY SideIs
<1>3. CASE m * n <= max
    <2>1. Fold(dims, max) = {Cells(dims)}
        BY <1>3 DEF Fold
    <2>2. Cardinality(Cells(dims)) <= max
        BY <1>3, CellsAre
    <2>q. QED
        BY <2>1, <2>2 DEF Folds
<1>4. CASE ~ (m * n <= max)
    <2>1. Fold(dims, max) = {Block(dims, side, row, col) : row \in Starts(m, side), col \in Starts(n, side)}
        BY <1>4, FoldIs
    <2> HIDE DEF side, m, n
    <2>8. \A k \in {m, n} : \A i \in Nat : \A r \in Starts(k, side) :
                i \in r..(r + side - 1) => r = side * (i \div side)
        <3>1. \A k \in {m, n} : k \in Nat \ {0}
            BY <1>1
        <3>2. side \in Nat /\ side > 0
            BY <1>2
        <3>q. QED
            BY <3>1, <3>2, StartUnique
    <2>2. \A start \in Starts(m, side) \cup Starts(n, side) : start \in Nat
        <3>1. (m - 1) \div side \in Nat /\ (n - 1) \div side \in Nat
            BY <1>1, <1>2, QuotientRange
        <3>2. \A k \in Nat : side * k \in Nat
            BY <1>2
        <3>q. QED
            BY <3>1, <3>2 DEF Starts
    <2>3. \A b \in Fold(dims, max) : \E row \in Starts(m, side) : \E col \in Starts(n, side) :
                b = Block(dims, side, row, col)
        BY <2>1
    <2>4. UNION Fold(dims, max) = Cells(dims)
        <3>1. \A b \in Fold(dims, max) : b \in SUBSET Cells(dims)
            BY <2>3 DEF Block
        <3>2. ASSUME NEW c \in Cells(dims) PROVE \E b \in Fold(dims, max) : c \in b
            <4>1. c[1] \in 0..(m - 1) /\ c[2] \in 0..(n - 1)
                BY CellsAre DEF m, n
            <4>2. PICK row \in Starts(m, side) : c[1] \in row..(row + side - 1)
                BY <1>1, <1>2, <4>1, StartOf
            <4>3. PICK col \in Starts(n, side) : c[2] \in col..(col + side - 1)
                BY <1>1, <1>2, <4>1, StartOf
            <4>4. c \in Block(dims, side, row, col)
                BY <4>2, <4>3 DEF Block
            <4>5. Block(dims, side, row, col) \in Fold(dims, max)
                BY <2>1, <4>2, <4>3
            <4>q. QED
                BY <4>4, <4>5
        <3>q. QED
            BY <3>1, <3>2
    <2>5. ASSUME NEW b \in Fold(dims, max), NEW c \in Fold(dims, max), NEW e \in b, e \in c
          PROVE  b = c
        <3>1. PICK row \in Starts(m, side), col \in Starts(n, side) : b = Block(dims, side, row, col)
            BY <2>3
        <3>2. PICK row2 \in Starts(m, side), col2 \in Starts(n, side) : c = Block(dims, side, row2, col2)
            BY <2>3
        <3>3. /\ e \in Cells(dims)
              /\ e[1] \in row..(row + side - 1) /\ e[2] \in col..(col + side - 1)
              /\ e[1] \in row2..(row2 + side - 1) /\ e[2] \in col2..(col2 + side - 1)
            BY <2>5, <3>1, <3>2 DEF Block
        <3>4. e[1] \in Nat /\ e[2] \in Nat
            BY <1>1, <3>3, CellsAre DEF m, n
        <3>5. row = side * (e[1] \div side) /\ row2 = side * (e[1] \div side)
            BY <2>8, <3>1, <3>2, <3>3, <3>4
        <3>6. col = side * (e[2] \div side) /\ col2 = side * (e[2] \div side)
            BY <2>8, <3>1, <3>2, <3>3, <3>4
        <3>q. QED
            BY <3>1, <3>2, <3>5, <3>6
    <2>6. ASSUME NEW b \in Fold(dims, max) PROVE Cardinality(b) <= max
        <3>1. PICK row \in Starts(m, side), col \in Starts(n, side) : b = Block(dims, side, row, col)
            BY <2>3
        <3>2. Cardinality(b) <= side * side
            BY <1>2, <2>2, <3>1, BlockFits
        <3>3. IsFiniteSet(b)
            <4>1. b \in SUBSET Cells(dims)
                BY <3>1 DEF Block
            <4>q. QED
                BY <4>1, CellsAre, FS_Subset
        <3>4. Cardinality(b) \in Nat
            BY <3>3, FS_CardinalityType
        <3>q. QED
            BY <1>2, <3>2, <3>4
    <2>7. \A b, c \in Fold(dims, max) : b = c \/ b \cap c = {}
        BY <2>5
    <2>q. QED
        BY <2>4, <2>6, <2>7 DEF Folds
<1>q. QED
    BY <1>3, <1>4


\* The folder holds blocks of positive sizes.
FolderInv == folder.blocks \in Seq({LevelOf(size) : size \in Nat} \X Shape)

\* allocate_tensor refuses an empty tensor.
LEMMA FolderStep ==
    ASSUME \A dims \in Shapes : dims \in Nat \X Nat,
           FolderInv, [ArithmeticNext]_arithmeticVars
    PROVE  FolderInv'
<1>1. CASE UNCHANGED arithmeticVars
    BY <1>1 DEF FolderInv, arithmeticVars
<1>2. ASSUME NEW dims \in Shapes, AllocateTensor(dims) PROVE FolderInv'
    <2> DEFINE size == dims[1] * dims[2]
    <2>1. dims \in Nat \X Nat /\ size > 0
        BY <1>2 DEF AllocateTensor
    <2>2. dims \in Shape /\ size \in Nat
        BY <2>1 DEF Shape
    <2>3. folder'.blocks = Append(folder.blocks, <<LevelOf(size), dims>>)
        BY <1>2 DEF AllocateTensor
    <2> HIDE DEF size
    <2>4. <<LevelOf(size), dims>> \in {LevelOf(n) : n \in Nat} \X Shape
        BY <2>2
    <2>q. QED
        BY <2>3, <2>4 DEF FolderInv
<1>q. QED
    BY <1>1, <1>2 DEF ArithmeticNext

\* Each tensor that was allocated has a shape, so it folds.
LEMMA FolderFolds ==
    ASSUME \A i \in 1..3 : CacheSizes[i] \in Nat \ {0}, FolderInv
    PROVE  FoldExact
<1> SUFFICES ASSUME NEW n \in DOMAIN folder.blocks, NEW i \in 1..3
             PROVE  Folds(folder.blocks[n][2], CacheSizes[i])
    BY DEF FoldExact, Folds
<1>1. folder.blocks[n] \in {LevelOf(size) : size \in Nat} \X Shape
    BY DEF FolderInv
<1>2. folder.blocks[n][2] \in Shape
    BY <1>1
<1>q. QED
    BY <1>2, FoldParts

-----------------------------------------------------------------------------
(* The Chinese remainder theorem, from division on. *)

-----------------------------------------------------------------------------
\* Divisibility and congruence of integers.
Divides(d, n) == \E c \in Int : n = d * c

\* Multiples are closed under sums and differences, and under products with anything.
LEMMA DividesSum ==
    ASSUME NEW d \in Int, NEW a \in Int, NEW b \in Int, Divides(d, a), Divides(d, b)
    PROVE  Divides(d, a + b) /\ Divides(d, a - b)
<1>1. PICK c1 \in Int : a = d * c1
    BY DEF Divides
<1>2. PICK c2 \in Int : b = d * c2
    BY DEF Divides
<1> DEFINE plus == c1 + c2
           minus == c1 - c2
<1>3. plus \in Int /\ minus \in Int /\ a + b = d * plus /\ a - b = d * minus
    BY <1>1, <1>2
<1> HIDE DEF plus, minus
<1>q. QED
    BY <1>3 DEF Divides

\* A multiple of a multiple is one.
LEMMA DividesProduct ==
    ASSUME NEW d \in Int, NEW a \in Int, NEW b \in Int, Divides(d, a)
    PROVE  Divides(d, a * b) /\ Divides(d, b * a)
<1>1. PICK c \in Int : a = d * c
    BY DEF Divides
<1> DEFINE e == c * b
<1>2. e \in Int /\ a * b = d * e /\ b * a = d * e
    BY <1>1
<1> HIDE DEF e
<1>q. QED
    BY <1>2 DEF Divides

\* What divides a divisor divides the number.
LEMMA DividesTrans ==
    ASSUME NEW d \in Int, NEW a \in Int, NEW b \in Int, Divides(d, a), Divides(a, b)
    PROVE  Divides(d, b)
<1>1. PICK c1 \in Int : a = d * c1
    BY DEF Divides
<1>2. PICK c2 \in Int : b = a * c2
    BY DEF Divides
<1> DEFINE e == c1 * c2
<1>3. e \in Int /\ b = d * e
    BY <1>1, <1>2
<1> HIDE DEF e
<1>q. QED
    BY <1>3 DEF Divides

\* What every number divides and is divided by.
LEMMA DividesEdges ==
    ASSUME NEW d \in Int
    PROVE  Divides(d, d) /\ Divides(d, 0) /\ Divides(1, d)
<1>1. d = d * 1 /\ 0 = d * 0 /\ d = 1 * d
    OBVIOUS
<1>q. QED
    BY <1>1 DEF Divides

\* A divisor is not greater than what it divides.
LEMMA DividesBound ==
    ASSUME NEW d \in Nat, NEW n \in Nat, n > 0, Divides(d, n)
    PROVE  1 <= d /\ d <= n
<1>1. PICK c \in Int : n = d * c
    BY DEF Divides
<1>2. c >= 1
    BY <1>1
<1>3. d >= 1
    BY <1>1
<1>4. d * c >= d
    BY <1>2, <1>3
<1>q. QED
    BY <1>1, <1>3, <1>4

\* A remainder is congruent to its number, and the only one in its range that is.
LEMMA ModRange ==
    ASSUME NEW m \in Nat, m > 0, NEW a \in Int
    PROVE  a % m \in Nat /\ a % m < m /\ Divides(m, a - (a % m))
<1> DEFINE q == a \div m
           r == a % m
<1>1. r \in Nat /\ r < m /\ r = a - m * q /\ q \in Int
    OBVIOUS
<1>q. QED
    <2> HIDE DEF q, r
    <2>1. a - r = m * q
        BY <1>1
    <2>2. r \in Nat /\ r < m /\ Divides(m, a - r)
        BY <1>1, <2>1 DEF Divides
    <2>q. QED
        BY <2>2, Zenon DEF r

\* Numbers below the modulus that are congruent are equal ...
LEMMA SmallMultiple ==
    ASSUME NEW m \in Nat, NEW a \in Nat, NEW b \in Nat, a < m, b < m, Divides(m, a - b)
    PROVE  a = b
<1>1. PICK c \in Int : a - b = m * c
    BY DEF Divides
<1>2. c = 0
    <2>1. ASSUME c >= 1 PROVE FALSE
        BY <1>1, <2>1
    <2>2. ASSUME c <= -1 PROVE FALSE
        BY <1>1, <2>2
    <2>q. QED
        BY <2>1, <2>2
<1>q. QED
    BY <1>1, <1>2

\* ... so that a remainder is the only such number that is congruent.
LEMMA ModIs ==
    ASSUME NEW m \in Nat, m > 0, NEW a \in Nat, a < m, NEW b \in Int, Divides(m, a - b)
    PROVE  b % m = a
<1> DEFINE r == b % m
<1>1. r \in Nat /\ r < m /\ Divides(m, b - r)
    BY ModRange
<1> HIDE DEF r
<1>2. Divides(m, (a - b) + (b - r))
    BY <1>1, DividesSum
<1>3. (a - b) + (b - r) = a - r
    BY <1>1
<1>4. Divides(m, a - r)
    BY <1>2, <1>3
<1>5. a = r
    BY <1>1, <1>4, SmallMultiple
<1>q. QED
    BY <1>5, Zenon DEF r

\* A number leaves no remainder where it divides.
LEMMA ModZero ==
    ASSUME NEW m \in Nat, m > 0, NEW a \in Int
    PROVE  a % m = 0 <=> Divides(m, a)
<1>1. Divides(m, a) => a % m = 0
    <2>1. ASSUME Divides(m, a) PROVE a % m = 0
        <3>1. Divides(m, 0 - a)
            <4>1. Divides(m, 0 - a)
                BY <2>1, DividesEdges, DividesSum
            <4>q. QED
                BY <4>1
        <3>q. QED
            BY <3>1, ModIs
    <2>q. QED
        BY <2>1
<1>2. ASSUME a % m = 0 PROVE Divides(m, a)
    <2>1. Divides(m, a - (a % m))
        BY ModRange
    <2>2. a - (a % m) = a
        BY <1>2
    <2>q. QED
        BY <2>1, <2>2
<1>q. QED
    BY <1>1, <1>2

-----------------------------------------------------------------------------
\* Primes, and Euclid's algorithm for a number below one.
IsPrime(p) == p \in Nat /\ p > 1 /\ \A d \in Nat : Divides(d, p) => d = 1 \/ d = p

\* The loop of Euclid's algorithm.
EuclidStates == [old_r : Nat, r : Nat, old_s : Int, s : Int]
EuclidMove(st) == IF st.r = 0 THEN st ELSE EuclidStep(st)
EuclidLoop(v, m, g) ==
    g = [n \in 0..v |-> IF n = 0 THEN [old_r |-> m, r |-> v, old_s |-> 0, s |-> 1] ELSE EuclidMove(g[n - 1])]

\* Euclid's loop, as a choice of a function that satisfies it.
LEMMA EuclidIsLoop ==
    ASSUME NEW v, NEW m PROVE Euclid(v, m) = (CHOOSE g : EuclidLoop(v, m, g))[v]
BY Zenon DEF Euclid, EuclidLoop, EuclidMove

\* What a step changes: the remainder gets smaller.
LEMMA EuclidStepIs ==
    ASSUME NEW st \in EuclidStates, st.r # 0
    PROVE  \E q \in Nat :
              /\ EuclidStep(st).old_r = st.r /\ EuclidStep(st).r = st.old_r - q * st.r
              /\ EuclidStep(st).old_s = st.s /\ EuclidStep(st).s = st.old_s - q * st.s
              /\ EuclidStep(st).r < st.r /\ EuclidStep(st) \in EuclidStates
<1> DEFINE q == st.old_r \div st.r
           e == EuclidStep(st)
<1>1. st.old_r \in Nat /\ st.r \in Nat /\ st.old_s \in Int /\ st.s \in Int
    BY DEF EuclidStates
<1>2. e = [old_r |-> st.r, r |-> st.old_r - q * st.r, old_s |-> st.s, s |-> st.old_s - q * st.s]
    BY DEF EuclidStep
<1>3. q \in Nat /\ st.r * q <= st.old_r /\ st.old_r < st.r * q + st.r
    BY <1>1, QuotientRange
<1> HIDE DEF q, e
<1>4. st.old_r - q * st.r \in Nat /\ st.old_r - q * st.r < st.r /\ st.old_s - q * st.s \in Int
    <2>1. st.r * q = q * st.r /\ q * st.r \in Nat /\ q * st.s \in Int
        BY <1>1, <1>3
    <2>q. QED
        BY <1>1, <1>3, <2>1
<1>5. e \in EuclidStates
    BY <1>1, <1>2, <1>4 DEF EuclidStates
<1>6. /\ e.old_r = st.r /\ e.r = st.old_r - q * st.r
      /\ e.old_s = st.s /\ e.s = st.old_s - q * st.s /\ e.r < st.r
    BY <1>2, <1>4
<1>q. QED
    BY <1>3, <1>5, <1>6 DEF e

\* Its steps, idle ones too, keep the states.
LEMMA EuclidMoveIn == \A st \in EuclidStates : EuclidMove(st) \in EuclidStates
BY EuclidStepIs DEF EuclidMove

\* The run of Euclid's algorithm.
LEMMA EuclidTrace ==
    ASSUME NEW v \in Nat, NEW m \in Nat
    PROVE  \E t \in [0..v -> EuclidStates] :
              /\ t[0] = [old_r |-> m, r |-> v, old_s |-> 0, s |-> 1] /\ Euclid(v, m) = t[v]
              /\ \A k \in 1..v : t[k] = EuclidMove(t[k - 1])
<1> DEFINE f == [p \in EuclidStates \X (1..v) |-> EuclidMove(p[1])]
<1>1. \A z \in EuclidStates, k \in 1..v :
        EuclidMove(z) \in EuclidStates /\ f[<<z, k>>] = EuclidMove(z)
    BY EuclidMoveIn
<1>b. [old_r |-> m, r |-> v, old_s |-> 0, s |-> 1] \in EuclidStates /\ v \in Nat
    BY DEF EuclidStates
<1>2. Loop(EuclidStates, [old_r |-> m, r |-> v, old_s |-> 0, s |-> 1], f, v)
    BY <1>1, <1>b DEF Loop
<1> HIDE DEF f
<1>3. \E g : EuclidLoop(v, m, g)
    <2>1. PICK g \in [0..v -> EuclidStates] : Runs([old_r |-> m, r |-> v, old_s |-> 0, s |-> 1], f, v, g)
        BY <1>2, LoopRuns
    <2>2. \A k \in 1..v : k - 1 \in 0..v /\ k \in 0..v /\ k # 0
        BY <1>2 DEF Loop
    <2>3. ASSUME NEW k \in 0..v
          PROVE  g[k] = IF k = 0 THEN [old_r |-> m, r |-> v, old_s |-> 0, s |-> 1] ELSE EuclidMove(g[k - 1])
        <3>1. CASE k = 0
            BY <2>1, <3>1 DEF Runs
        <3>2. CASE k # 0
            <4>1. k \in 1..v /\ g[k - 1] \in EuclidStates
                <5>1. k \in 1..v
                    BY <1>b, <3>2
                <5>q. QED
                    BY <2>1, <2>2, <5>1
            <4>2. g[k] = f[<<g[k - 1], k>>]
                BY <2>1, <4>1 DEF Runs
            <4>3. g[k] = EuclidMove(g[k - 1])
                BY <1>1, <4>1, <4>2, Zenon
            <4>q. QED
                BY <3>2, <4>3
        <3>q. QED
            BY <3>1, <3>2
    <2>4. EuclidLoop(v, m, g)
        BY <2>1, <2>3 DEF EuclidLoop
    <2>q. QED
        BY <2>4
<1> DEFINE h == CHOOSE g : EuclidLoop(v, m, g)
<1>4. EuclidLoop(v, m, h)
    BY <1>3
<1>5. Euclid(v, m) = h[v]
    BY EuclidIsLoop
<1> HIDE DEF h
<1>6. 0 \in 0..v /\ \A k \in 1..v : k \in 0..v /\ k # 0
    BY <1>b
<1>7. h = [k \in 0..v |-> h[k]]
      /\ \A k \in 0..v : h[k] = IF k = 0 THEN [old_r |-> m, r |-> v, old_s |-> 0, s |-> 1] ELSE EuclidMove(h[k - 1])
    BY <1>4 DEF EuclidLoop
<1>8. /\ h[0] = [old_r |-> m, r |-> v, old_s |-> 0, s |-> 1]
      /\ \A k \in 1..v : h[k] = EuclidMove(h[k - 1])
    BY <1>6, <1>7
<1>9. \A k \in 1..v : h[k - 1] \in EuclidStates => h[k] = f[<<h[k - 1], k>>]
    BY <1>1, <1>8
<1>10. Follows(EuclidStates, [old_r |-> m, r |-> v, old_s |-> 0, s |-> 1], f, v, h)
    BY <1>7, <1>8, <1>9, Zenon DEF Follows
<1>11. h \in [0..v -> EuclidStates]
    BY <1>2, <1>10, RunsStay
<1>q. QED
    BY <1>5, <1>8, <1>11

\* What every step keeps: the coefficients of v modulo m, and the common divisors.
EuclidKept(v, m, st) ==
    /\ Divides(m, st.old_s * v - st.old_r) /\ Divides(m, st.s * v - st.r)
    /\ \A d \in Nat : Divides(d, st.old_r) /\ Divides(d, st.r) => Divides(d, m) /\ Divides(d, v)

\* A step keeps the congruences and the common divisors.
LEMMA EuclidKeeps ==
    ASSUME NEW v \in Nat, NEW m \in Nat, NEW st \in EuclidStates, EuclidKept(v, m, st)
    PROVE  EuclidKept(v, m, EuclidMove(st))
<1>1. CASE st.r = 0
    BY <1>1 DEF EuclidMove
<1>2. CASE st.r # 0
    <2> DEFINE e == EuclidStep(st)
    <2>1. PICK q \in Nat : /\ e.old_r = st.r /\ e.r = st.old_r - q * st.r
                           /\ e.old_s = st.s /\ e.s = st.old_s - q * st.s
        BY <1>2, EuclidStepIs
    <2>2. EuclidMove(st) = e
        BY <1>2 DEF EuclidMove
    <2>3. st.old_r \in Nat /\ st.r \in Nat /\ st.old_s \in Int /\ st.s \in Int
        BY DEF EuclidStates
    <2> HIDE DEF e
    <2> DEFINE x == st.old_s * v - st.old_r
               y == st.s * v - st.r
    <2>4. x \in Int /\ y \in Int /\ Divides(m, x) /\ Divides(m, y)
        BY <2>3 DEF EuclidKept
    <2>5. e.s * v - e.r = x - y * q
        <3>1. e.s * v = st.old_s * v - (q * st.s) * v
            BY <2>1, <2>3
        <3>2. y * q = (q * st.s) * v - q * st.r
            BY <2>3
        <3>q. QED
            BY <2>1, <2>3, <3>1, <3>2
    <2>6. e.old_s * v - e.old_r = y
        BY <2>1
    <2>7. Divides(m, x - y * q)
        <3> HIDE DEF x, y
        <3>1. Divides(m, y * q)
            <4>1. m \in Int /\ q \in Int
                OBVIOUS
            <4>q. QED
                BY <2>4, <4>1, DividesProduct, Zenon
        <3> DEFINE z == y * q
        <3>2. z \in Int /\ Divides(m, z)
            BY <2>4, <3>1
        <3> HIDE DEF z
        <3>3. Divides(m, x - z)
            BY <2>4, <3>2, DividesSum
        <3>q. QED
            BY <3>3 DEF z
    <2>8. Divides(m, e.s * v - e.r) /\ Divides(m, e.old_s * v - e.old_r)
        BY <2>4, <2>5, <2>6, <2>7
    <2>9. ASSUME NEW d \in Nat, Divides(d, e.old_r), Divides(d, e.r)
          PROVE  Divides(d, st.old_r) /\ Divides(d, st.r)
        <3>1. Divides(d, st.r)
            BY <2>1, <2>9
        <3>2. Divides(d, q * st.r) /\ q * st.r \in Int
            BY <2>3, <3>1, DividesProduct
        <3>3. e.r \in Int /\ st.old_r = e.r + q * st.r
            BY <2>1, <2>3, <3>2
        <3> DEFINE z == q * st.r
        <3>4. z \in Int /\ Divides(d, z) /\ st.old_r = e.r + z
            BY <3>2, <3>3
        <3> HIDE DEF z
        <3>5. Divides(d, e.r + z)
            <4>1. d \in Int
                OBVIOUS
            <4>q. QED
                BY <2>9, <3>3, <3>4, <4>1, DividesSum, Zenon
        <3>q. QED
            BY <3>1, <3>4, <3>5
    <2>10. \A d \in Nat : Divides(d, e.old_r) /\ Divides(d, e.r) => Divides(d, m) /\ Divides(d, v)
        BY <2>9 DEF EuclidKept
    <2>11. EuclidKept(v, m, e)
        BY <2>8, <2>10 DEF EuclidKept
    <2>q. QED
        BY <2>2, <2>11
<1>q. QED
    BY <1>1, <1>2

\* Euclid's algorithm ends, with the inverse as the coefficient.
LEMMA EuclidEnds ==
    ASSUME NEW m, IsPrime(m), NEW v \in 1..(m - 1)
    PROVE  /\ Euclid(v, m).old_r = 1 /\ Euclid(v, m).old_s \in Int
           /\ Divides(m, Euclid(v, m).old_s * v - 1)
<1>1. m \in Nat /\ m > 1 /\ v \in Nat /\ v >= 1 /\ v < m
    BY DEF IsPrime
<1>2. PICK t \in [0..v -> EuclidStates] :
              /\ t[0] = [old_r |-> m, r |-> v, old_s |-> 0, s |-> 1] /\ Euclid(v, m) = t[v]
              /\ \A k \in 1..v : t[k] = EuclidMove(t[k - 1])
    BY <1>1, EuclidTrace
<1> DEFINE P == {k \in 0..v : /\ EuclidKept(v, m, t[k])
                              /\ t[k].r <= v - k /\ t[k].r < t[k].old_r}
<1>3. 0 \in P
    <2>1. t[0].old_r = m /\ t[0].r = v /\ t[0].old_s = 0 /\ t[0].s = 1
        BY <1>2
    <2>2. Divides(m, 0 * v - m) /\ Divides(m, 1 * v - v)
        <3>1. Divides(m, 0) /\ Divides(m, m)
            BY <1>1, DividesEdges
        <3>2. Divides(m, 0 - m)
            BY <1>1, <3>1, DividesSum
        <3>3. 0 * v - m = 0 - m /\ 1 * v - v = 0
            BY <1>1
        <3>q. QED
            BY <3>1, <3>2, <3>3
    <2>3. EuclidKept(v, m, t[0])
        BY <2>1, <2>2 DEF EuclidKept
    <2>q. QED
        BY <1>1, <2>1, <2>3
<1>4. ASSUME NEW k \in 1..v, k - 1 \in P PROVE k \in P
    <2> DEFINE st == t[k - 1]
    <2>1. /\ k \in 0..v /\ k - 1 \in 0..v /\ st \in EuclidStates /\ t[k] = EuclidMove(st)
          /\ EuclidKept(v, m, st) /\ st.r <= v - (k - 1) /\ st.r < st.old_r
        BY <1>1, <1>2, <1>4
    <2>2. st.r \in Nat /\ st.old_r \in Nat
        BY <2>1 DEF EuclidStates
    <2> HIDE DEF st
    <2>3. EuclidKept(v, m, t[k])
        BY <1>1, <2>1, EuclidKeeps
    <2>4. t[k].r <= v - k /\ t[k].r < t[k].old_r
        <3>1. CASE st.r = 0
            <4>1. t[k] = st
                BY <2>1, <3>1 DEF EuclidMove
            <4>q. QED
                BY <1>1, <2>1, <3>1, <4>1
        <3>2. CASE st.r # 0
            <4>1. t[k] = EuclidStep(st)
                BY <2>1, <3>2 DEF EuclidMove
            <4>2. EuclidStep(st).old_r = st.r /\ EuclidStep(st).r < st.r /\ EuclidStep(st) \in EuclidStates
                BY <2>1, <3>2, EuclidStepIs
            <4>3. t[k].old_r = st.r /\ t[k].r < st.r /\ t[k].r \in Nat
                BY <4>1, <4>2 DEF EuclidStates
            <4>q. QED
                BY <1>1, <2>1, <2>2, <4>3
        <3>q. QED
            BY <3>1, <3>2
    <2>q. QED
        BY <2>1, <2>3, <2>4
<1>5. v \in P
    <2> HIDE DEF P
    <2>q. QED
        BY <1>1, <1>3, <1>4, PrefixInduction
<1> DEFINE e == t[v]
<1>6. e \in EuclidStates /\ EuclidKept(v, m, e) /\ e.r <= 0 /\ e.r < e.old_r
    BY <1>1, <1>2, <1>5
<1> HIDE DEF e, P
<1>7. e.r = 0 /\ e.old_r \in Nat /\ e.old_r > 0 /\ e.old_s \in Int
    BY <1>6 DEF EuclidStates
<1>8. Divides(e.old_r, m) /\ Divides(e.old_r, v)
    <2>1. Divides(e.old_r, e.old_r) /\ Divides(e.old_r, 0)
        BY <1>7, DividesEdges
    <2>q. QED
        BY <1>6, <1>7, <2>1 DEF EuclidKept
<1>9. e.old_r = 1
    <2>1. e.old_r <= v
        BY <1>1, <1>7, <1>8, DividesBound
    <2>q. QED
        BY <1>1, <1>7, <1>8, <2>1 DEF IsPrime
<1>10. Divides(m, e.old_s * v - 1)
    BY <1>6, <1>9 DEF EuclidKept
<1>q. QED
    BY <1>2, <1>7, <1>9, <1>10 DEF e

\* mod_inverse is an inverse, whichever sign the coefficient has.
LEMMA InverseOf ==
    ASSUME NEW m, IsPrime(m), NEW v \in 1..(m - 1)
    PROVE  ModInverse(v, m) \in Int /\ Divides(m, v * ModInverse(v, m) - 1)
<1> DEFINE e == Euclid(v, m)
<1>1. m \in Nat /\ m > 1 /\ v \in Nat /\ v >= 1 /\ v < m
    BY DEF IsPrime
<1>2. e.old_r = 1 /\ e.old_s \in Int /\ Divides(m, e.old_s * v - 1)
    BY EuclidEnds
<1> DEFINE x == ModInverse(v, m)
<1>3. x = IF e.old_s < 0 THEN e.old_s + m ELSE e.old_s
    <2>1. ~ (v = 0 \/ e.old_r > 1)
        BY <1>1, <1>2
    <2>q. QED
        BY <2>1, Zenon DEF ModInverse
<1> HIDE DEF e, x
<1>4. x \in Int
    BY <1>1, <1>2, <1>3
<1>5. CASE e.old_s < 0
    <2>1. x = e.old_s + m
        BY <1>3, <1>5
    <2>2. v * x - 1 = (e.old_s * v - 1) + m * v
        BY <1>1, <1>2, <2>1
    <2> DEFINE a == e.old_s * v - 1
               b == m * v
    <2>3. a \in Int /\ b \in Int
        BY <1>1, <1>2
    <2>4. Divides(m, a) /\ Divides(m, b)
        <3>1. m \in Int /\ v \in Int
            BY <1>1
        <3>2. Divides(m, m * v)
            BY <3>1, DividesEdges, DividesProduct, Zenon
        <3>q. QED
            BY <1>2, <3>2
    <2>5. v * x - 1 = a + b
        BY <2>2
    <2> HIDE DEF a, b
    <2>8. m \in Int
        BY <1>1
    <2>6. Divides(m, a + b)
        BY <2>3, <2>4, <2>8, DividesSum, Zenon
    <2>7. Divides(m, v * x - 1)
        BY <2>5, <2>6
    <2>q. QED
        BY <1>4, <2>7 DEF x
<1>6. CASE ~ (e.old_s < 0)
    <2>1. x = e.old_s
        BY <1>3, <1>6
    <2>2. v * x - 1 = e.old_s * v - 1
        BY <1>1, <1>2, <2>1
    <2>q. QED
        BY <1>2, <1>4, <2>2 DEF x
<1>q. QED
    BY <1>5, <1>6

\* What is not a multiple of a prime has an inverse modulo it, so that a prime that
\* divides a product divides a factor.
LEMMA Bezout ==
    ASSUME NEW p, IsPrime(p), NEW a \in Int, ~ Divides(p, a)
    PROVE  a % p \in 1..(p - 1)
<1>1. p \in Nat /\ p > 1
    BY DEF IsPrime
<1>2. a % p # 0
    BY <1>1, ModZero
<1>3. a % p \in Nat /\ a % p < p
    BY <1>1, ModRange
<1>q. QED
    BY <1>1, <1>2, <1>3

\* A prime that divides a product divides a factor: the program's own inverse shows it.
LEMMA EuclidLemma ==
    ASSUME NEW p, IsPrime(p), NEW a \in Int, NEW b \in Int, Divides(p, a * b), ~ Divides(p, a)
    PROVE  Divides(p, b)
<1>1. p \in Nat /\ p > 1
    BY DEF IsPrime
<1> DEFINE r == a % p
           x == ModInverse(r, p)
<1>2. r \in 1..(p - 1) /\ Divides(p, a - r)
    BY <1>1, Bezout, ModRange
<1>3. x \in Int /\ Divides(p, r * x - 1)
    BY <1>2, InverseOf
<1> HIDE DEF r, x
<1>4. r \in Int
    BY <1>1, <1>2
<1> DEFINE d == a - r
           e == r * x - 1
           f == a * b
<1>5. d \in Int /\ e \in Int /\ f \in Int /\ Divides(p, d) /\ Divides(p, e) /\ Divides(p, f)
    BY <1>2, <1>3, <1>4
<1>6. b = f * x - d * (b * x) - e * b
    <2>1. f * x = a * (b * x) /\ d * (b * x) = a * (b * x) - r * (b * x) /\ e * b = r * (b * x) - b
        BY <1>3, <1>4
    <2>2. a * (b * x) \in Int /\ r * (b * x) \in Int
        BY <1>3, <1>4
    <2>q. QED
        BY <2>1, <2>2
<1> HIDE DEF d, e, f
<1> DEFINE F == f * x
           D == d * (b * x)
           E == e * b
<1>7. F \in Int /\ D \in Int /\ E \in Int /\ b * x \in Int
    BY <1>3, <1>5
<1>8. Divides(p, F) /\ Divides(p, D) /\ Divides(p, E)
    <2> HIDE DEF D, E, F
    <2> DEFINE bx == b * x
    <2>1. bx \in Int /\ D = d * bx /\ F = f * x /\ E = e * b
        BY <1>7 DEF D, E, F
    <2> HIDE DEF bx
    <2>5. p \in Int
        BY <1>1
    <2>2. Divides(p, f * x)
        BY <1>3, <1>5, <2>5, DividesProduct, Zenon
    <2>3. Divides(p, d * bx)
        BY <1>5, <2>1, <2>5, DividesProduct, Zenon
    <2>4. Divides(p, e * b)
        BY <1>5, <2>5, DividesProduct, Zenon
    <2>q. QED
        BY <2>1, <2>2, <2>3, <2>4
<1>9. b = F - D - E
    BY <1>6
<1> HIDE DEF D, E, F
<1>10. Divides(p, F - D) /\ F - D \in Int
    BY <1>1, <1>7, <1>8, DividesSum
<1>11. Divides(p, (F - D) - E)
    BY <1>1, <1>7, <1>8, <1>10, DividesSum
<1>q. QED
    BY <1>9, <1>11

-----------------------------------------------------------------------------
\* Products of different primes.
PrimeList(primes) ==
    /\ primes \in Seq(Nat)
    /\ \A i \in 1..Len(primes) : IsPrime(primes[i])
    /\ \A i, j \in 1..Len(primes) : primes[i] = primes[j] => i = j

\* The loop that multiplies.
ProductStep(primes, v, k) == v * primes[k]

\* The product of the primes stays a number.
LEMMA ProductStepIn ==
    ASSUME NEW primes \in Seq(Nat)
    PROVE  \A v \in Nat : \A k \in 1..Len(primes) : ProductStep(primes, v, k) \in Nat
BY DEF ProductStep

ProductLoop(primes, g) ==
    g = [n \in 0..Len(primes) |-> IF n = 0 THEN 1 ELSE ProductStep(primes, g[n - 1], n)]

\* The product's loop.
LEMMA ProductIsLoop ==
    ASSUME NEW primes PROVE ProductOf(primes) = (CHOOSE g : ProductLoop(primes, g))[Len(primes)]
BY Zenon DEF ProductOf, ProductLoop, ProductStep

\* The run of the product.
LEMMA ProductTrace ==
    ASSUME NEW primes \in Seq(Nat)
    PROVE  \E t \in [0..Len(primes) -> Nat] :
              /\ t[0] = 1 /\ ProductOf(primes) = t[Len(primes)]
              /\ \A k \in 1..Len(primes) : t[k] = ProductStep(primes, t[k - 1], k)
<1> DEFINE f == [p \in Nat \X (1..Len(primes)) |-> ProductStep(primes, p[1], p[2])]
<1>1. \A z \in Nat, k \in 1..Len(primes) :
        ProductStep(primes, z, k) \in Nat /\ f[<<z, k>>] = ProductStep(primes, z, k)
    BY ProductStepIn
<1>b. 1 \in Nat /\ Len(primes) \in Nat
    OBVIOUS
<1>2. Loop(Nat, 1, f, Len(primes))
    BY <1>1, <1>b DEF Loop
<1> HIDE DEF f
<1>3. \E g : ProductLoop(primes, g)
    <2>1. PICK g \in [0..Len(primes) -> Nat] : Runs(1, f, Len(primes), g)
        BY <1>2, LoopRuns
    <2>2. \A k \in 1..Len(primes) : k - 1 \in 0..Len(primes) /\ k \in 0..Len(primes) /\ k # 0
        BY <1>2 DEF Loop
    <2>3. ASSUME NEW k \in 0..Len(primes)
          PROVE  g[k] = IF k = 0 THEN 1 ELSE ProductStep(primes, g[k - 1], k)
        <3>1. CASE k = 0
            BY <2>1, <3>1 DEF Runs
        <3>2. CASE k # 0
            <4>1. k \in 1..Len(primes) /\ g[k - 1] \in Nat
                <5>1. k \in 1..Len(primes)
                    BY <1>b, <3>2
                <5>q. QED
                    BY <2>1, <2>2, <5>1
            <4>2. g[k] = f[<<g[k - 1], k>>]
                BY <2>1, <4>1 DEF Runs
            <4>3. g[k] = ProductStep(primes, g[k - 1], k)
                BY <1>1, <4>1, <4>2, Zenon
            <4>q. QED
                BY <3>2, <4>3
        <3>q. QED
            BY <3>1, <3>2
    <2>4. ProductLoop(primes, g)
        BY <2>1, <2>3 DEF ProductLoop
    <2>q. QED
        BY <2>4
<1> DEFINE h == CHOOSE g : ProductLoop(primes, g)
<1>4. ProductLoop(primes, h)
    BY <1>3
<1>5. ProductOf(primes) = h[Len(primes)]
    BY ProductIsLoop
<1> HIDE DEF h
<1>6. 0 \in 0..Len(primes) /\ \A k \in 1..Len(primes) : k \in 0..Len(primes) /\ k # 0
    BY <1>b
<1>7. h = [k \in 0..Len(primes) |-> h[k]]
      /\ \A k \in 0..Len(primes) : h[k] = IF k = 0 THEN 1 ELSE ProductStep(primes, h[k - 1], k)
    BY <1>4 DEF ProductLoop
<1>8. /\ h[0] = 1
      /\ \A k \in 1..Len(primes) : h[k] = ProductStep(primes, h[k - 1], k)
    BY <1>6, <1>7
<1>9. \A k \in 1..Len(primes) : h[k - 1] \in Nat => h[k] = f[<<h[k - 1], k>>]
    BY <1>1, <1>8
<1>10. Follows(Nat, 1, f, Len(primes), h)
    BY <1>7, <1>8, <1>9, Zenon DEF Follows
<1>11. h \in [0..Len(primes) -> Nat]
    BY <1>2, <1>10, RunsStay
<1>q. QED
    BY <1>5, <1>8, <1>11

\* The products of the first primes.
Multiplied(primes, t) ==
    /\ t \in [0..Len(primes) -> Nat] /\ t[0] = 1 /\ ProductOf(primes) = t[Len(primes)]
    /\ \A k \in 1..Len(primes) : t[k] = t[k - 1] * primes[k]

\* The same for a list of primes, by its factors.
LEMMA Multiplies ==
    ASSUME NEW primes, PrimeList(primes)
    PROVE  \E t : Multiplied(primes, t)
BY ProductTrace DEF PrimeList, Multiplied, ProductStep

\* What a list of primes holds.
LEMMA PrimeAt ==
    ASSUME NEW primes, PrimeList(primes)
    PROVE  /\ Len(primes) \in Nat
           /\ \A i \in 1..Len(primes) :
                IsPrime(primes[i]) /\ primes[i] \in Nat /\ primes[i] \in Int /\ primes[i] > 1
BY DEF PrimeList, IsPrime

\* Primes divide each other only where they are the same, and one not at all.
LEMMA PrimesApart ==
    ASSUME NEW p, NEW q, IsPrime(p), IsPrime(q)
    PROVE  (Divides(p, q) => p = q) /\ ~ Divides(p, 1)
<1>1. p \in Nat /\ p > 1 /\ q \in Nat /\ q > 1
    BY DEF IsPrime
<1>2. Divides(p, q) => p = q
    BY <1>1 DEF IsPrime
<1>3. ASSUME Divides(p, 1) PROVE FALSE
    <2>1. p <= 1
        BY <1>1, <1>3, DividesBound
    <2>q. QED
        BY <1>1, <2>1
<1>q. QED
    BY <1>2, <1>3

\* A prime that is not among the first k does not divide their product.
LEMMA NotAmong ==
    ASSUME NEW primes, PrimeList(primes), NEW t, Multiplied(primes, t),
           NEW q, IsPrime(q), NEW k \in 0..Len(primes), \A j \in 1..k : primes[j] # q
    PROVE  ~ Divides(q, t[k])
<1> DEFINE P == {i \in 0..k : ~ Divides(q, t[i])}
<1>1. Len(primes) \in Nat /\ k \in Nat
    BY PrimeAt
<1>2. t \in [0..Len(primes) -> Nat] /\ t[0] = 1
      /\ \A i \in 1..Len(primes) : t[i] = t[i - 1] * primes[i]
    BY DEF Multiplied
<1>3. 0 \in P
    <2>1. ~ Divides(q, 1) /\ 0 \in 0..k
        BY <1>1, PrimesApart
    <2>q. QED
        BY <1>2, <2>1
<1>4. ASSUME NEW i \in 1..k, i - 1 \in P PROVE i \in P
    <2>1. i \in 1..Len(primes) /\ i - 1 \in 0..Len(primes) /\ i \in 0..k /\ ~ Divides(q, t[i - 1])
        BY <1>1, <1>4
    <2> DEFINE a == t[i - 1]
               b == primes[i]
    <2>2. a \in Int /\ b \in Int /\ IsPrime(b) /\ b # q /\ t[i] = a * b /\ ~ Divides(q, a)
        BY <1>2, <2>1, PrimeAt
    <2> HIDE DEF a, b
    <2>3. ~ Divides(q, b)
        BY <2>2, PrimesApart
    <2>4. ~ Divides(q, a * b)
        BY <2>2, <2>3, EuclidLemma, Zenon
    <2>q. QED
        BY <2>1, <2>2, <2>4
<1>5. k \in P
    <2> HIDE DEF P
    <2>q. QED
        BY <1>1, <1>3, <1>4, PrefixInduction
<1>q. QED
    BY <1>5

\* No partial product is zero.
LEMMA ProductPositive ==
    ASSUME NEW primes, PrimeList(primes), NEW t, Multiplied(primes, t)
    PROVE  \A k \in 0..Len(primes) : t[k] \in Nat /\ t[k] > 0
<1> DEFINE P == {k \in 0..Len(primes) : t[k] > 0}
<1>1. t \in [0..Len(primes) -> Nat] /\ t[0] = 1
      /\ \A k \in 1..Len(primes) : t[k] = t[k - 1] * primes[k]
    BY DEF Multiplied
<1>2. Len(primes) \in Nat /\ 0 \in P
    BY <1>1, PrimeAt
<1>3. ASSUME NEW k \in 1..Len(primes), k - 1 \in P PROVE k \in P
    <2> DEFINE a == t[k - 1]
               b == primes[k]
    <2>1. k \in 0..Len(primes) /\ k - 1 \in 0..Len(primes)
        BY <1>2
    <2>2. a \in Nat /\ a > 0 /\ b \in Nat /\ b > 1 /\ t[k] = a * b
        BY <1>1, <1>3, <2>1, PrimeAt
    <2> HIDE DEF a, b
    <2>3. a * b > 0
        BY <2>2
    <2>q. QED
        BY <2>1, <2>2, <2>3
<1>4. \A k \in 0..Len(primes) : k \in P
    <2> HIDE DEF P
    <2>q. QED
        BY <1>2, <1>3, EachPrefix
<1>q. QED
    BY <1>1, <1>4

\* The product over the other primes: m_i of the reconstructions.
Cofactor(primes, i) == ProductOf(primes) \div primes[i]

\* It is a multiple of every prime but its own.
LEMMA CofactorOf ==
    ASSUME NEW primes, PrimeList(primes), NEW i \in 1..Len(primes)
    PROVE  /\ Cofactor(primes, i) \in Nat /\ Cofactor(primes, i) > 0
           /\ ProductOf(primes) = primes[i] * Cofactor(primes, i)
           /\ ~ Divides(primes[i], Cofactor(primes, i))
<1> DEFINE p == primes[i]
           n == Len(primes)
<1>1. n \in Nat /\ IsPrime(p) /\ p \in Nat /\ p > 1
    BY PrimeAt
<1>2. PICK t : Multiplied(primes, t)
    BY Multiplies
<1>3. t \in [0..n -> Nat] /\ t[0] = 1 /\ ProductOf(primes) = t[n]
      /\ \A k \in 1..n : t[k] = t[k - 1] * primes[k]
    BY <1>2 DEF Multiplied
<1> DEFINE P == {k \in 0..n : k >= i => \E c \in Nat : t[k] = p * c /\ ~ Divides(p, c)}
<1>4. 0 \in P
    BY <1>1
<1>5. ASSUME NEW k \in 1..n, k - 1 \in P PROVE k \in P
    <2>0. k \in 0..n /\ k - 1 \in 0..n /\ i \in 1..n
        BY <1>1
    <2>1. CASE k < i
        BY <2>0, <2>1
    <2>2. CASE k = i
        <3>1. \A j \in 1..(k - 1) : primes[j] # p
            <4>1. \A j \in 1..(k - 1) : j \in 1..n /\ j # i
                BY <1>1, <2>0, <2>2
            <4>q. QED
                BY <2>0, <4>1 DEF PrimeList
        <3>2. ~ Divides(p, t[k - 1])
            BY <1>1, <1>2, <2>0, <3>1, NotAmong
        <3>3. t[k - 1] \in Nat /\ t[k] = p * t[k - 1]
            <4> DEFINE a == t[k - 1]
            <4>1. a \in Nat /\ t[k] = a * primes[k] /\ primes[k] = p
                BY <1>3, <2>0, <2>2
            <4> HIDE DEF a
            <4>2. t[k] = p * a
                BY <1>1, <4>1
            <4>q. QED
                BY <4>1, <4>2 DEF a
        <3>q. QED
            BY <2>0, <3>2, <3>3
    <2>3. CASE k > i
        <3>1. PICK c \in Nat : t[k - 1] = p * c /\ ~ Divides(p, c)
            BY <1>5, <2>0, <2>3
        <3> DEFINE q == primes[k]
        <3>2. q \in Nat /\ q \in Int /\ c \in Int /\ IsPrime(q) /\ q # p /\ t[k] = (p * c) * q
            <4>1. q # p
                BY <2>0, <2>3 DEF PrimeList
            <4>2. t[k] = t[k - 1] * q
                BY <1>3
            <4>q. QED
                BY <3>1, <4>1, <4>2, PrimeAt
        <3> HIDE DEF q
        <3>3. ~ Divides(p, q)
            BY <1>1, <3>2, PrimesApart
        <3>4. ~ Divides(p, c * q)
            <4> HIDE DEF p
            <4>q. QED
                BY <1>1, <3>1, <3>2, <3>3, EuclidLemma, Zenon
        <3> DEFINE e == c * q
        <3>5. e \in Nat /\ t[k] = p * e /\ ~ Divides(p, e)
            <4> HIDE DEF p
            <4>q. QED
                BY <1>1, <3>2, <3>4
        <3> HIDE DEF e
        <3>q. QED
            BY <2>0, <3>5
    <2>q. QED
        BY <2>0, <2>1, <2>2, <2>3
<1>6. n \in P
    <2> HIDE DEF P
    <2>q. QED
        BY <1>1, <1>4, <1>5, PrefixInduction
<1>7. PICK c \in Nat : t[n] = p * c /\ ~ Divides(p, c)
    BY <1>1, <1>6
<1> DEFINE M == ProductOf(primes)
<1>8. M \in Nat /\ M > 0 /\ M = p * c
    <2>1. n \in 0..n
        BY <1>1
    <2>2. t[n] \in Nat /\ t[n] > 0
        BY <1>2, <2>1, ProductPositive
    <2>q. QED
        BY <1>3, <1>7, <2>2
<1> HIDE DEF M, p
<1>9. p * c <= M /\ M < p * c + p
    BY <1>1, <1>8
<1>10. M \div p = c
    BY <1>1, <1>8, <1>9, QuotientIs
<1>11. c > 0
    BY <1>1, <1>8
<1>q. QED
    BY <1>7, <1>8, <1>10, <1>11 DEF Cofactor, M, p

\* Every prime divides the product, and the cofactors of the others.
LEMMA CofactorOthers ==
    ASSUME NEW primes, PrimeList(primes), NEW i \in 1..Len(primes), NEW j \in 1..Len(primes)
    PROVE  /\ Divides(primes[j], ProductOf(primes))
           /\ i # j => Divides(primes[j], Cofactor(primes, i))
<1> DEFINE p == primes[i]
           q == primes[j]
           c == Cofactor(primes, i)
           M == ProductOf(primes)
<1>1. p \in Int /\ q \in Int /\ c \in Int /\ IsPrime(p) /\ IsPrime(q) /\ M = p * c
    BY CofactorOf, PrimeAt
<1>2. Divides(q, M)
    <2> DEFINE d == Cofactor(primes, j)
    <2>1. M = q * d /\ d \in Int
        BY CofactorOf
    <2> HIDE DEF M, q, d
    <2>q. QED
        BY <2>1 DEF Divides
<1>3. i # j => q # p
    BY DEF PrimeList
<1> HIDE DEF p, q, c, M
<1>4. ASSUME q # p PROVE Divides(q, c)
    <2>1. ~ Divides(q, p)
        BY <1>1, <1>4, PrimesApart
    <2>2. Divides(q, p * c)
        BY <1>1, <1>2
    <2>q. QED
        BY <1>1, <2>1, <2>2, EuclidLemma, Zenon
<1>q. QED
    BY <1>2, <1>3, <1>4 DEF p, q, c, M

\* What every prime divides their product divides.
LEMMA ProductDivides ==
    ASSUME NEW primes, PrimeList(primes), NEW D \in Int,
           \A j \in 1..Len(primes) : Divides(primes[j], D)
    PROVE  Divides(ProductOf(primes), D)
<1> DEFINE n == Len(primes)
<1>1. n \in Nat
    BY PrimeAt
<1>2. PICK t : Multiplied(primes, t)
    BY Multiplies
<1>3. t \in [0..n -> Nat] /\ t[0] = 1 /\ ProductOf(primes) = t[n]
      /\ \A k \in 1..n : t[k] = t[k - 1] * primes[k]
    BY <1>2 DEF Multiplied
<1> DEFINE P == {k \in 0..n : Divides(t[k], D)}
<1>4. 0 \in P
    BY <1>1, <1>3, DividesEdges
<1>5. ASSUME NEW k \in 1..n, k - 1 \in P PROVE k \in P
    <2> DEFINE a == t[k - 1]
               p == primes[k]
    <2>0. k \in 0..n /\ k - 1 \in 0..n
        BY <1>1
    <2>1. a \in Int /\ p \in Int /\ IsPrime(p) /\ t[k] = a * p /\ Divides(a, D) /\ Divides(p, D)
        <3>1. a \in Nat /\ t[k] = a * p
            BY <1>3, <2>0
        <3>2. p \in Int /\ IsPrime(p)
            BY PrimeAt
        <3>3. Divides(a, D) /\ Divides(p, D)
            BY <1>5
        <3>q. QED
            BY <3>1, <3>2, <3>3
    <2>2. ~ Divides(p, a)
        <3>1. \A j \in 1..(k - 1) : primes[j] # p
            <4>1. \A j \in 1..(k - 1) : j \in 1..n /\ j # k
                BY <1>1
            <4>q. QED
                BY <4>1 DEF PrimeList
        <3>q. QED
            BY <1>2, <2>0, <2>1, <3>1, NotAmong
    <2> HIDE DEF a, p
    <2>3. PICK c \in Int : D = a * c
        BY <2>1 DEF Divides
    <2>4. Divides(p, a * c)
        BY <2>1, <2>3
    <2>5. Divides(p, c)
        BY <2>1, <2>2, <2>4, EuclidLemma, Zenon
    <2>6. PICK e \in Int : c = p * e
        BY <2>5 DEF Divides
    <2>7. D = (a * p) * e
        BY <2>1, <2>3, <2>6
    <2>8. Divides(t[k], D)
        BY <2>1, <2>7 DEF Divides
    <2>q. QED
        BY <2>0, <2>8
<1>6. n \in P
    <2> HIDE DEF P
    <2>q. QED
        BY <1>1, <1>4, <1>5, PrefixInduction
<1>q. QED
    BY <1>3, <1>6

-----------------------------------------------------------------------------
\* Reconstruction: terms that are congruent to one residue each, and to zero modulo the
\* other primes, add up to the number that has these residues.
Summed(primes, residues, terms, u) ==
    /\ u \in [0..Len(primes) -> Nat] /\ u[0] = 0
    /\ \A k \in 1..Len(primes) : u[k] = (u[k - 1] + terms[k]) % ProductOf(primes)

\* The product is a modulus.
LEMMA ProductIn ==
    ASSUME NEW primes, PrimeList(primes)
    PROVE  ProductOf(primes) \in Nat /\ ProductOf(primes) > 0
<1>1. PICK t : Multiplied(primes, t)
    BY Multiplies
<1>2. Len(primes) \in 0..Len(primes)
    BY PrimeAt
<1>q. QED
    BY <1>1, <1>2, ProductPositive DEF Multiplied

\* A sum of terms, each the residue for its own prime and zero for the others, is the
\* number that has these residues.
LEMMA Reconstructs ==
    ASSUME NEW primes, PrimeList(primes),
           NEW residues \in [1..Len(primes) -> Nat], NEW x \in Int,
           \A j \in 1..Len(primes) : Divides(primes[j], residues[j] - x),
           NEW terms \in [1..Len(primes) -> Int],
           \A j, k \in 1..Len(primes) :
              Divides(primes[j], terms[k] - (IF j = k THEN residues[j] ELSE 0)),
           NEW u, Summed(primes, residues, terms, u)
    PROVE  u[Len(primes)] = x % ProductOf(primes)
<1> DEFINE n == Len(primes)
           M == ProductOf(primes)
<1>1. n \in Nat
    BY PrimeAt
<1>2. u \in [0..n -> Nat] /\ u[0] = 0 /\ \A k \in 1..n : u[k] = (u[k - 1] + terms[k]) % M
    BY DEF Summed
<1>3. M \in Nat /\ M > 0
    BY ProductIn
<1>4. \A j \in 1..n : Divides(primes[j], M) /\ primes[j] \in Int
    BY CofactorOthers, PrimeAt
<1> DEFINE So(k, j) == IF j <= k THEN residues[j] ELSE 0
           P == {k \in 0..n : u[k] < M /\ \A j \in 1..n : Divides(primes[j], u[k] - So(k, j))}
<1> HIDE DEF M
<1>5. 0 \in P
    <2>1. \A j \in 1..n : u[0] - So(0, j) = 0
        BY <1>1, <1>2
    <2>2. \A j \in 1..n : Divides(primes[j], 0)
        BY <1>4, DividesEdges
    <2>q. QED
        BY <1>1, <1>2, <1>3, <2>1, <2>2
<1>6. ASSUME NEW k \in 1..n, k - 1 \in P PROVE k \in P
    <2>0. k \in 0..n /\ k - 1 \in 0..n
        BY <1>1
    <2> DEFINE a == u[k - 1]
               w == a + terms[k]
               r == w % M
    <2>1. a \in Nat /\ terms[k] \in Int /\ w \in Int /\ u[k] = r
        <3>1. a \in Nat /\ terms[k] \in Int
            BY <1>2, <2>0
        <3>2. w \in Int
            <4> HIDE DEF a
            <4>q. QED
                BY <3>1
        <3>3. u[k] = r
            BY <1>2, Zenon
        <3>q. QED
            BY <3>1, <3>2, <3>3
    <2> HIDE DEF a, w
    <2>2. r \in Nat /\ r < M /\ Divides(M, w - r)
        BY <1>3, <2>1, ModRange
    <2> HIDE DEF r
    <2>3. ASSUME NEW j \in 1..n PROVE Divides(primes[j], r - So(k, j))
        <3> DEFINE p == primes[j]
                   s == IF j = k THEN residues[j] ELSE 0
                   b == a - So(k - 1, j)
                   c == terms[k] - s
                   d == w - r
        <3>1. p \in Int /\ Divides(p, M) /\ M \in Int
            BY <1>3, <1>4
        <3>2. residues[j] \in Nat
            OBVIOUS
        <3>3. b \in Int /\ c \in Int /\ d \in Int
            BY <2>1, <2>2, <3>2
        <3>4. So(k, j) = So(k - 1, j) + s
            BY <1>1, <3>2
        <3>5. r - So(k, j) = (b + c) - d
            <4>1. So(k - 1, j) \in Int /\ s \in Int /\ w = a + terms[k]
                BY <3>2 DEF w
            <4> HIDE DEF So, s
            <4>q. QED
                BY <2>1, <2>2, <3>4, <4>1
        <3>6. Divides(p, b)
            BY <1>6 DEF a
        <3>7. Divides(p, c)
            OBVIOUS
        <3>8. Divides(p, d)
            <4> HIDE DEF p, d
            <4>q. QED
                BY <2>2, <3>1, <3>3, DividesTrans, Zenon DEF d
        <3> HIDE DEF p, b, c, d, So
        <3>9. Divides(p, b + c) /\ b + c \in Int
            BY <3>1, <3>3, <3>6, <3>7, DividesSum
        <3>10. Divides(p, (b + c) - d)
            BY <3>1, <3>3, <3>8, <3>9, DividesSum, Zenon
        <3>11. Divides(p, r - So(k, j))
            BY <3>5, <3>10
        <3>q. QED
            BY <3>11 DEF p
    <2>q. QED
        BY <2>0, <2>1, <2>2, <2>3
<1>7. n \in P
    <2> HIDE DEF P
    <2>q. QED
        BY <1>1, <1>5, <1>6, PrefixInduction
<1> DEFINE y == u[n]
<1>8. y \in Nat /\ y < M /\ \A j \in 1..n : Divides(primes[j], y - residues[j])
    <2>1. \A j \in 1..n : So(n, j) = residues[j]
        BY <1>1
    <2>q. QED
        BY <1>1, <1>2, <1>7, <2>1
<1> HIDE DEF y, P
<1>9. ASSUME NEW j \in 1..n PROVE Divides(primes[j], y - x)
    <2> DEFINE b == y - residues[j]
               c == residues[j] - x
    <2>1. b \in Int /\ c \in Int /\ y - x = b + c
        BY <1>8
    <2>2. Divides(primes[j], b) /\ Divides(primes[j], c) /\ primes[j] \in Int
        BY <1>4, <1>8
    <2> HIDE DEF b, c
    <2>3. Divides(primes[j], b + c)
        BY <2>1, <2>2, DividesSum, Zenon
    <2>q. QED
        BY <2>1, <2>3
<1>10. Divides(M, y - x)
    <2>1. y - x \in Int
        BY <1>8
    <2>q. QED
        BY <1>9, <2>1, ProductDivides DEF M
<1>11. x % M = y
    BY <1>3, <1>8, <1>10, ModIs
<1>q. QED
    BY <1>11 DEF M, y

\* The term of one prime, with any inverse of its cofactor.
Residues(residues, primes) == residues \in [1..Len(primes) -> Nat]

\* A cofactor times its inverse is such a term, whatever the inverse is computed by.
LEMMA TermResidue ==
    ASSUME NEW primes, PrimeList(primes), NEW i \in 1..Len(primes),
           NEW r \in Int, NEW x \in Int,
           Divides(primes[i], (Cofactor(primes, i) % primes[i]) * x - 1)
    PROVE  \A j \in 1..Len(primes) :
              Divides(primes[j], r * Cofactor(primes, i) * x - (IF j = i THEN r ELSE 0))
<1> DEFINE p == primes[i]
           c == Cofactor(primes, i)
           v == c % p
<1>1. p \in Nat /\ p > 1 /\ p \in Int /\ c \in Int
    BY CofactorOf, PrimeAt
<1>2. v \in Int /\ Divides(p, c - v) /\ Divides(p, v * x - 1)
    BY <1>1, ModRange
<1> HIDE DEF p, c, v
<1>3. Divides(p, r * c * x - r)
    <2> DEFINE d == c - v
               e == v * x - 1
               f == d * x
               g == f + e
    <2>1. d \in Int /\ e \in Int /\ f \in Int /\ g \in Int /\ Divides(p, d) /\ Divides(p, e)
        BY <1>1, <1>2
    <2>2. r * c * x - r = r * g
        <3>1. g = c * x - 1
            BY <1>1, <1>2
        <3> HIDE DEF g
        <3>2. r * g = r * (c * x) - r
            BY <1>1, <3>1
        <3>q. QED
            BY <1>1, <3>2
    <2>3. Divides(p, f)
        <3> HIDE DEF d
        <3>q. QED
            BY <1>1, <2>1, DividesProduct, Zenon DEF f
    <2> HIDE DEF d, e, f
    <2>4. Divides(p, g)
        BY <1>1, <2>1, <2>3, DividesSum, Zenon DEF g
    <2> HIDE DEF g
    <2>5. Divides(p, r * g)
        BY <1>1, <2>1, <2>4, DividesProduct, Zenon
    <2>q. QED
        BY <2>2, <2>5
<1>4. ASSUME NEW j \in 1..Len(primes), j # i PROVE Divides(primes[j], r * c * x - 0)
    <2> DEFINE y == r * x
    <2>1. y \in Int /\ r * c * x - 0 = c * y
        BY <1>1
    <2>2. primes[j] \in Int /\ Divides(primes[j], c)
        BY <1>4, CofactorOthers, PrimeAt DEF c
    <2> HIDE DEF y
    <2>3. Divides(primes[j], c * y)
        BY <1>1, <2>1, <2>2, DividesProduct, Zenon
    <2>q. QED
        BY <2>1, <2>3
<1>q. QED
    BY <1>3, <1>4 DEF p, c

\* The loop of the reconstruction.
ReconstructStep(residues, primes, v, k) ==
    (v + Term(residues, primes, ProductOf(primes), k)) % ProductOf(primes)

\* So is what the exact reconstruction adds.
LEMMA TermIs ==
    ASSUME NEW primes, PrimeList(primes), NEW residues, Residues(residues, primes),
           NEW i \in 1..Len(primes)
    PROVE  /\ Term(residues, primes, ProductOf(primes), i) \in Int
           /\ \A j \in 1..Len(primes) :
                Divides(primes[j], Term(residues, primes, ProductOf(primes), i)
                                      - (IF j = i THEN residues[j] ELSE 0))
<1> DEFINE p == primes[i]
           c == Cofactor(primes, i)
           v == c % p
           x == ModInverse(v, p)
           r == residues[i]
<1>1. IsPrime(p) /\ p \in Nat /\ c \in Nat /\ c \in Int /\ ~ Divides(p, c) /\ r \in Nat
    BY CofactorOf, PrimeAt DEF Residues
<1>2. v \in 1..(p - 1)
    <2> HIDE DEF p, c
    <2>q. QED
        BY <1>1, Bezout
<1>3. x \in Int /\ Divides(p, v * x - 1)
    <2> HIDE DEF p, v
    <2>q. QED
        BY <1>1, <1>2, InverseOf
<1>4. Term(residues, primes, ProductOf(primes), i) = r * c * x
    BY Zenon DEF Term, Cofactor
<1> HIDE DEF x
<1>5. r \in Int
    BY <1>1
<1>6. \A j \in 1..Len(primes) : Divides(primes[j], r * c * x - (IF j = i THEN r ELSE 0))
    BY <1>3, <1>5, TermResidue
<1>7. r * c * x \in Int
    <2> HIDE DEF r, c
    <2>q. QED
        BY <1>1, <1>3, <1>5
<1> HIDE DEF c
<1>q. QED
    BY <1>4, <1>6, <1>7

\* The exact sum stays a number.
LEMMA ReconstructStepIn ==
    ASSUME NEW primes, PrimeList(primes), NEW residues, Residues(residues, primes)
    PROVE  \A v \in Nat : \A k \in 1..Len(primes) : ReconstructStep(residues, primes, v, k) \in Nat
<1> SUFFICES ASSUME NEW v \in Nat, NEW k \in 1..Len(primes)
             PROVE  ReconstructStep(residues, primes, v, k) \in Nat
    OBVIOUS
<1> DEFINE t == Term(residues, primes, ProductOf(primes), k)
           M == ProductOf(primes)
<1>1. t \in Int
    BY TermIs
<1>2. M \in Nat /\ M > 0
    BY ProductIn
<1> HIDE DEF t, M
<1>3. (v + t) % M \in Nat
    <2>1. v + t \in Int
        BY <1>1
    <2>q. QED
        BY <1>2, <2>1, ModRange
<1>q. QED
    BY <1>3 DEF ReconstructStep, t, M


ReconstructLoop(residues, primes, g) ==
    g = [n \in 0..Len(primes) |-> IF n = 0 THEN 0 ELSE ReconstructStep(residues, primes, g[n - 1], n)]

\* The exact reconstruction's loop.
LEMMA ReconstructIsLoop ==
    ASSUME NEW residues, NEW primes PROVE Reconstruct(residues, primes) = (CHOOSE g : ReconstructLoop(residues, primes, g))[Len(primes)]
BY Zenon DEF Reconstruct, ReconstructLoop, ReconstructStep

\* The run of the exact reconstruction.
LEMMA ReconstructTrace ==
    ASSUME NEW primes, PrimeList(primes), NEW residues, Residues(residues, primes)
    PROVE  \E t \in [0..Len(primes) -> Nat] :
              /\ t[0] = 0 /\ Reconstruct(residues, primes) = t[Len(primes)]
              /\ \A k \in 1..Len(primes) : t[k] = ReconstructStep(residues, primes, t[k - 1], k)
<1> DEFINE f == [p \in Nat \X (1..Len(primes)) |-> ReconstructStep(residues, primes, p[1], p[2])]
<1>1. \A z \in Nat, k \in 1..Len(primes) :
        ReconstructStep(residues, primes, z, k) \in Nat /\ f[<<z, k>>] = ReconstructStep(residues, primes, z, k)
    BY ReconstructStepIn
<1>b. 0 \in Nat /\ Len(primes) \in Nat
    BY PrimeAt
<1>2. Loop(Nat, 0, f, Len(primes))
    BY <1>1, <1>b DEF Loop
<1> HIDE DEF f
<1>3. \E g : ReconstructLoop(residues, primes, g)
    <2>1. PICK g \in [0..Len(primes) -> Nat] : Runs(0, f, Len(primes), g)
        BY <1>2, LoopRuns
    <2>2. \A k \in 1..Len(primes) : k - 1 \in 0..Len(primes) /\ k \in 0..Len(primes) /\ k # 0
        BY <1>2 DEF Loop
    <2>3. ASSUME NEW k \in 0..Len(primes)
          PROVE  g[k] = IF k = 0 THEN 0 ELSE ReconstructStep(residues, primes, g[k - 1], k)
        <3>1. CASE k = 0
            BY <2>1, <3>1 DEF Runs
        <3>2. CASE k # 0
            <4>1. k \in 1..Len(primes) /\ g[k - 1] \in Nat
                <5>1. k \in 1..Len(primes)
                    BY <1>b, <3>2
                <5>q. QED
                    BY <2>1, <2>2, <5>1
            <4>2. g[k] = f[<<g[k - 1], k>>]
                BY <2>1, <4>1 DEF Runs
            <4>3. g[k] = ReconstructStep(residues, primes, g[k - 1], k)
                BY <1>1, <4>1, <4>2, Zenon
            <4>q. QED
                BY <3>2, <4>3
        <3>q. QED
            BY <3>1, <3>2
    <2>4. ReconstructLoop(residues, primes, g)
        BY <2>1, <2>3 DEF ReconstructLoop
    <2>q. QED
        BY <2>4
<1> DEFINE h == CHOOSE g : ReconstructLoop(residues, primes, g)
<1>4. ReconstructLoop(residues, primes, h)
    BY <1>3
<1>5. Reconstruct(residues, primes) = h[Len(primes)]
    BY ReconstructIsLoop
<1> HIDE DEF h
<1>6. 0 \in 0..Len(primes) /\ \A k \in 1..Len(primes) : k \in 0..Len(primes) /\ k # 0
    BY <1>b
<1>7. h = [k \in 0..Len(primes) |-> h[k]]
      /\ \A k \in 0..Len(primes) : h[k] = IF k = 0 THEN 0 ELSE ReconstructStep(residues, primes, h[k - 1], k)
    BY <1>4 DEF ReconstructLoop
<1>8. /\ h[0] = 0
      /\ \A k \in 1..Len(primes) : h[k] = ReconstructStep(residues, primes, h[k - 1], k)
    BY <1>6, <1>7
<1>9. \A k \in 1..Len(primes) : h[k - 1] \in Nat => h[k] = f[<<h[k - 1], k>>]
    BY <1>1, <1>8
<1>10. Follows(Nat, 0, f, Len(primes), h)
    BY <1>7, <1>8, <1>9, Zenon DEF Follows
<1>11. h \in [0..Len(primes) -> Nat]
    BY <1>2, <1>10, RunsStay
<1>q. QED
    BY <1>5, <1>8, <1>11

\* What the exact reconstruction returns.
LEMMA ReconstructIs ==
    ASSUME NEW primes, PrimeList(primes), NEW residues, Residues(residues, primes),
           NEW x \in Int, \A j \in 1..Len(primes) : Divides(primes[j], residues[j] - x)
    PROVE  Reconstruct(residues, primes) = x % ProductOf(primes)
<1> DEFINE n == Len(primes)
           terms == [k \in 1..n |-> Term(residues, primes, ProductOf(primes), k)]
<1>1. PICK u \in [0..n -> Nat] :
              /\ u[0] = 0 /\ Reconstruct(residues, primes) = u[n]
              /\ \A k \in 1..n : u[k] = ReconstructStep(residues, primes, u[k - 1], k)
    BY ReconstructTrace
<1>2. /\ terms \in [1..n -> Int]
      /\ \A j, k \in 1..n : Divides(primes[j], terms[k] - (IF j = k THEN residues[j] ELSE 0))
    BY TermIs
<1>3. \A k \in 1..n : u[k] = (u[k - 1] + terms[k]) % ProductOf(primes)
    BY <1>1 DEF ReconstructStep
<1>4. residues \in [1..n -> Nat]
    BY DEF Residues
<1> HIDE DEF terms
<1>5. Summed(primes, residues, terms, u)
    BY <1>1, <1>3 DEF Summed
<1>6. u[n] = x % ProductOf(primes)
    BY <1>2, <1>4, <1>5, Reconstructs
<1>q. QED
    BY <1>1, <1>6

-----------------------------------------------------------------------------
\* Powers.
PowersOf(b, n, e) ==
    e \in [0..n -> Nat] /\ e[0] = 1 /\ \A k \in 1..n : e[k] = e[k - 1] * b

\* Every number has its powers ...
LEMMA PowersExist ==
    ASSUME NEW b \in Nat, NEW n \in Nat
    PROVE  \E e : PowersOf(b, n, e)
<1> DEFINE f == [p \in Nat \X (1..n) |-> p[1] * b]
<1>1. \A v \in Nat, k \in 1..n : v * b \in Nat /\ f[<<v, k>>] = v * b
    OBVIOUS
<1>2. Loop(Nat, 1, f, n)
    BY <1>1 DEF Loop
<1>3. PICK e \in [0..n -> Nat] : Runs(1, f, n, e)
    <2> HIDE DEF f
    <2>q. QED
        BY <1>2, LoopRuns
<1> HIDE DEF f
<1>4. ASSUME NEW k \in 1..n PROVE e[k] = e[k - 1] * b
    <2>1. k - 1 \in 0..n
        OBVIOUS
    <2>2. e[k - 1] \in Nat
        BY <2>1
    <2>3. e[k] = f[<<e[k - 1], k>>]
        BY <1>3 DEF Runs
    <2>q. QED
        BY <1>1, <2>2, <2>3, Zenon
<1>q. QED
    BY <1>3, <1>4 DEF PowersOf, Runs

\* ... and their exponents add up.
LEMMA PowersAdd ==
    ASSUME NEW b \in Nat, NEW n \in Nat, NEW e, PowersOf(b, n, e),
           NEW i \in Nat, NEW j \in Nat, i + j <= n
    PROVE  e[i + j] = e[i] * e[j]
<1> DEFINE P == {k \in 0..j : e[i + k] = e[i] * e[k]}
<1>1. e \in [0..n -> Nat] /\ e[0] = 1 /\ \A k \in 1..n : e[k] = e[k - 1] * b
    BY DEF PowersOf
<1>2. i \in 0..n /\ e[i] \in Nat
    BY <1>1
<1>3. 0 \in P
    <2>1. i + 0 = i /\ e[i] * 1 = e[i]
        BY <1>2
    <2>q. QED
        BY <1>1, <2>1
<1>4. ASSUME NEW k \in 1..j, k - 1 \in P PROVE k \in P
    <2>1. /\ k \in 0..j /\ k - 1 \in 0..j /\ i + k \in 1..n /\ k \in 1..n
          /\ (i + k) - 1 = i + (k - 1) /\ k - 1 \in 0..n /\ i + (k - 1) \in 0..n
        OBVIOUS
    <2> DEFINE x == e[i]
               y == e[k - 1]
               z == e[i + (k - 1)]
    <2>2. x \in Nat /\ y \in Nat /\ z \in Nat /\ z = x * y
        BY <1>1, <1>2, <1>4, <2>1
    <2>3. e[i + k] = z * b /\ e[k] = y * b
        BY <1>1, <2>1
    <2> HIDE DEF x, y, z
    <2>4. e[i + k] = x * e[k]
        BY <2>2, <2>3
    <2>q. QED
        BY <2>1, <2>4 DEF x
<1>5. j \in P
    <2> HIDE DEF P
    <2>q. QED
        BY <1>3, <1>4, PrefixInduction
<1>q. QED
    BY <1>5

\* Products of congruent numbers are congruent.
LEMMA CongruentProduct ==
    ASSUME NEW m \in Nat, m > 0, NEW a \in Int, NEW b \in Int, NEW c \in Int, NEW d \in Int,
           Divides(m, a - c), Divides(m, b - d)
    PROVE  Divides(m, a * b - c * d) /\ Divides(m, ((a * b) % m) - c * d)
<1> DEFINE x == a - c
           y == b - d
           X == x * b
           Y == c * y
           r == (a * b) % m
           z == a * b - r
<1>0. m \in Int /\ a * b \in Int
    OBVIOUS
<1>1. x \in Int /\ y \in Int /\ X \in Int /\ Y \in Int /\ Divides(m, x) /\ Divides(m, y)
    OBVIOUS
<1>2. a * b - c * d = X + Y
    OBVIOUS
<1>3. r \in Nat /\ Divides(m, a * b - r)
    BY <1>0, ModRange
<1>4. Divides(m, X)
    <2> HIDE DEF x
    <2>q. QED
        BY <1>0, <1>1, DividesProduct, Zenon DEF X
<1>5. Divides(m, Y)
    <2> HIDE DEF y
    <2>q. QED
        BY <1>0, <1>1, DividesProduct, Zenon DEF Y
<1> HIDE DEF x, y, X, Y, r
<1>6. Divides(m, X + Y) /\ X + Y \in Int
    BY <1>0, <1>1, <1>4, <1>5, DividesSum
<1>7. z \in Int /\ Divides(m, z) /\ r - c * d = (X + Y) - z
    BY <1>0, <1>2, <1>3
<1> HIDE DEF z
<1>8. Divides(m, (X + Y) - z)
    BY <1>0, <1>6, <1>7, DividesSum, Zenon
<1>9. Divides(m, a * b - c * d)
    BY <1>2, <1>6
<1>10. Divides(m, r - c * d)
    BY <1>7, <1>8
<1>q. QED
    BY <1>9, <1>10 DEF r

\* The loop of the power.
PowerStates == [result : Nat, base : Nat, exp : Nat]
PowerMove(st, m) == IF st.exp = 0 THEN st ELSE PowerStep(st, m)

\* What a step of the power changes.
LEMMA PowerStepIs ==
    ASSUME NEW m \in Nat \ {0}, NEW st \in PowerStates
    PROVE  /\ PowerStep(st, m) \in PowerStates
           /\ PowerStep(st, m).result
                 = IF st.exp % 2 = 1 THEN (st.result * st.base) % m ELSE st.result
           /\ PowerStep(st, m).base = (st.base * st.base) % m
           /\ PowerStep(st, m).exp = st.exp \div 2
<1>1. st.result \in Nat /\ st.base \in Nat /\ st.exp \in Nat
    BY DEF PowerStates
<1>2. st.result * st.base \in Int /\ st.base * st.base \in Int /\ m \in Nat /\ m > 0
    BY <1>1
<1>3. (st.result * st.base) % m \in Nat /\ (st.base * st.base) % m \in Nat
    BY <1>2, ModRange
<1>4. st.exp \div 2 \in Nat
    BY <1>1, QuotientRange
<1> DEFINE s == PowerStep(st, m)
<1>5. s = [result |-> IF st.exp % 2 = 1 THEN (st.result * st.base) % m ELSE st.result,
           base |-> (st.base * st.base) % m, exp |-> st.exp \div 2]
    BY DEF PowerStep
<1> HIDE DEF s
<1>6. /\ s.result = (IF st.exp % 2 = 1 THEN (st.result * st.base) % m ELSE st.result)
      /\ s.base = (st.base * st.base) % m /\ s.exp = st.exp \div 2
    BY <1>5, Zenon
<1>7. s \in PowerStates
    BY <1>1, <1>3, <1>4, <1>5 DEF PowerStates
<1>q. QED
    BY <1>6, <1>7, Zenon DEF s

\* Its steps, idle ones too, keep the states.
LEMMA PowerMoveIn ==
    ASSUME NEW m \in Nat \ {0}
    PROVE  \A st \in PowerStates : PowerMove(st, m) \in PowerStates
BY PowerStepIs DEF PowerMove


PowerLoop(base, exp, m, g) ==
    g = [n \in 0..exp |-> IF n = 0 THEN [result |-> 1 % m, base |-> base, exp |-> exp] ELSE PowerMove(g[n - 1], m)]

\* The power's loop.
LEMMA PowerIsLoop ==
    ASSUME NEW base, NEW exp, NEW m PROVE Power(base, exp, m) = (CHOOSE g : PowerLoop(base, exp, m, g))[exp].result
BY Zenon DEF Power, PowerLoop, PowerMove

PowerRun(base, exp, m, t) ==
    /\ t \in [0..exp -> PowerStates]
    /\ t[0] = [result |-> 1 % m, base |-> base, exp |-> exp] /\ Power(base, exp, m) = t[exp].result
    /\ \A k \in 1..exp : t[k] = PowerMove(t[k - 1], m)
\* The run of a power.
LEMMA PowerTrace ==
    ASSUME NEW base \in Nat, NEW exp \in Nat, NEW m \in Nat \ {0}
    PROVE  \E t : PowerRun(base, exp, m, t)
<1> DEFINE f == [p \in PowerStates \X (1..exp) |-> PowerMove(p[1], m)]
<1>1. \A z \in PowerStates, k \in 1..exp :
        PowerMove(z, m) \in PowerStates /\ f[<<z, k>>] = PowerMove(z, m)
    BY PowerMoveIn
<1>b. [result |-> 1 % m, base |-> base, exp |-> exp] \in PowerStates /\ exp \in Nat
    BY DEF PowerStates
<1>2. Loop(PowerStates, [result |-> 1 % m, base |-> base, exp |-> exp], f, exp)
    BY <1>1, <1>b DEF Loop
<1> HIDE DEF f
<1>3. \E g : PowerLoop(base, exp, m, g)
    <2>1. PICK g \in [0..exp -> PowerStates] : Runs([result |-> 1 % m, base |-> base, exp |-> exp], f, exp, g)
        BY <1>2, LoopRuns
    <2>2. \A k \in 1..exp : k - 1 \in 0..exp /\ k \in 0..exp /\ k # 0
        BY <1>2 DEF Loop
    <2>3. ASSUME NEW k \in 0..exp
          PROVE  g[k] = IF k = 0 THEN [result |-> 1 % m, base |-> base, exp |-> exp] ELSE PowerMove(g[k - 1], m)
        <3>1. CASE k = 0
            BY <2>1, <3>1 DEF Runs
        <3>2. CASE k # 0
            <4>1. k \in 1..exp /\ g[k - 1] \in PowerStates
                <5>1. k \in 1..exp
                    BY <1>b, <3>2
                <5>q. QED
                    BY <2>1, <2>2, <5>1
            <4>2. g[k] = f[<<g[k - 1], k>>]
                BY <2>1, <4>1 DEF Runs
            <4>3. g[k] = PowerMove(g[k - 1], m)
                BY <1>1, <4>1, <4>2, Zenon
            <4>q. QED
                BY <3>2, <4>3
        <3>q. QED
            BY <3>1, <3>2
    <2>4. PowerLoop(base, exp, m, g)
        BY <2>1, <2>3 DEF PowerLoop
    <2>q. QED
        BY <2>4
<1> DEFINE h == CHOOSE g : PowerLoop(base, exp, m, g)
<1>4. PowerLoop(base, exp, m, h)
    BY <1>3
<1>5. Power(base, exp, m) = h[exp].result
    BY PowerIsLoop
<1> HIDE DEF h
<1>6. 0 \in 0..exp /\ \A k \in 1..exp : k \in 0..exp /\ k # 0
    BY <1>b
<1>7. h = [k \in 0..exp |-> h[k]]
      /\ \A k \in 0..exp : h[k] = IF k = 0 THEN [result |-> 1 % m, base |-> base, exp |-> exp] ELSE PowerMove(h[k - 1], m)
    BY <1>4 DEF PowerLoop
<1>8. /\ h[0] = [result |-> 1 % m, base |-> base, exp |-> exp]
      /\ \A k \in 1..exp : h[k] = PowerMove(h[k - 1], m)
    BY <1>6, <1>7
<1>9. \A k \in 1..exp : h[k - 1] \in PowerStates => h[k] = f[<<h[k - 1], k>>]
    BY <1>1, <1>8
<1>10. Follows(PowerStates, [result |-> 1 % m, base |-> base, exp |-> exp], f, exp, h)
    BY <1>7, <1>8, <1>9, Zenon DEF Follows
<1>11. h \in [0..exp -> PowerStates]
    BY <1>2, <1>10, RunsStay
<1>12. PowerRun(base, exp, m, h)
    BY <1>5, <1>8, <1>11 DEF PowerRun
<1>q. QED
    BY <1>12

\* Square and multiply: the result is the power by the bits that were taken, the base the
\* one by the next bit.
Powering(n, e, m, st, u, w) ==
    /\ u \in 0..n /\ w \in Nat /\ u + w * st.exp = n
    /\ Divides(m, st.result - e[u])
    /\ st.exp > 0 => w <= n /\ Divides(m, st.base - e[w])

\* A step takes a bit, or leaves it, and goes on with the next one.
LEMMA PoweringKept ==
    ASSUME NEW b \in Nat, NEW n \in Nat, NEW e, PowersOf(b, n, e), NEW m \in Nat \ {0},
           NEW st \in PowerStates, st.exp > 0,
           NEW u, NEW w, Powering(n, e, m, st, u, w)
    PROVE  \E v \in {u, u + w} : Powering(n, e, m, PowerStep(st, m), v, 2 * w)
<1> DEFINE s == PowerStep(st, m)
           h == st.exp \div 2
<1>0. /\ s.result = (IF st.exp % 2 = 1 THEN (st.result * st.base) % m ELSE st.result)
      /\ s.base = (st.base * st.base) % m /\ s.exp = h
    BY PowerStepIs
<1>1. st.result \in Nat /\ st.base \in Nat /\ st.exp \in Nat /\ m \in Nat /\ m > 0
    BY DEF PowerStates
<1>2. h \in Nat /\ (st.exp % 2 = 1 => st.exp = 2 * h + 1) /\ (st.exp % 2 # 1 => st.exp = 2 * h)
    BY <1>1
<1>3. /\ u \in Nat /\ u <= n /\ w \in Nat /\ w <= n /\ u + w * st.exp = n
      /\ Divides(m, st.result - e[u]) /\ Divides(m, st.base - e[w])
    BY DEF Powering
<1>4. e \in [0..n -> Nat] /\ e[u] \in Nat /\ e[w] \in Nat
    BY <1>3 DEF PowersOf
<1> HIDE DEF s, h
<1>5. h > 0 => 2 * w <= n /\ Divides(m, s.base - e[2 * w])
    <2> SUFFICES ASSUME h > 0 PROVE 2 * w <= n /\ Divides(m, s.base - e[2 * w])
        OBVIOUS
    <2>1. w + w <= n
        <3>1. w * st.exp >= w * 2
            <4>1. st.exp >= 2
                BY <1>1, <1>2
            <4>q. QED
                BY <1>1, <1>3, <4>1
        <3>2. w * st.exp \in Nat
            BY <1>1, <1>3
        <3>q. QED
            BY <1>3, <3>1, <3>2
    <2>2. e[w + w] = e[w] * e[w]
        BY <1>3, <2>1, PowersAdd
    <2>3. Divides(m, ((st.base * st.base) % m) - e[w] * e[w])
        <3>1. st.base \in Int /\ e[w] \in Int
            BY <1>1, <1>4
        <3>q. QED
            BY <1>1, <1>3, <3>1, CongruentProduct, Zenon
    <2>4. 2 * w = w + w
        BY <1>3
    <2>q. QED
        BY <1>0, <2>1, <2>2, <2>3, <2>4
<1>6. CASE st.exp % 2 = 1
    <2>1. st.exp = 2 * h + 1
        BY <1>2, <1>6
    <2>2. (u + w) + (2 * w) * h = n
        <3>1. w * st.exp = (2 * w) * h + w
            BY <1>2, <1>3, <2>1
        <3>2. (2 * w) * h \in Nat
            BY <1>2, <1>3
        <3>q. QED
            BY <1>3, <3>1, <3>2
    <2>3. u + w <= n
        <3>1. (2 * w) * h \in Nat
            BY <1>2, <1>3
        <3>q. QED
            BY <1>3, <2>2, <3>1
    <2>4. e[u + w] = e[u] * e[w]
        BY <1>3, <2>3, PowersAdd
    <2>5. Divides(m, ((st.result * st.base) % m) - e[u] * e[w])
        <3>1. st.base \in Int /\ st.result \in Int /\ e[u] \in Int /\ e[w] \in Int
            BY <1>1, <1>4
        <3>q. QED
            BY <1>1, <1>3, <3>1, CongruentProduct, Zenon
    <2>6. Divides(m, s.result - e[u + w])
        BY <1>0, <1>6, <2>4, <2>5
    <2>7. u + w \in 0..n /\ 2 * w \in Nat
        BY <1>3, <2>3
    <2>8. Powering(n, e, m, s, u + w, 2 * w)
        BY <1>0, <1>5, <2>2, <2>6, <2>7 DEF Powering
    <2>q. QED
        BY <2>8 DEF s
<1>7. CASE st.exp % 2 # 1
    <2>1. st.exp = 2 * h
        BY <1>2, <1>7
    <2>2. u + (2 * w) * h = n
        BY <1>2, <1>3, <2>1
    <2>3. Divides(m, s.result - e[u])
        BY <1>0, <1>3, <1>7
    <2>4. u \in 0..n /\ 2 * w \in Nat
        BY <1>3
    <2>5. Powering(n, e, m, s, u, 2 * w)
        BY <1>0, <1>5, <2>2, <2>3, <2>4 DEF Powering
    <2>q. QED
        BY <2>5 DEF s
<1>q. QED
    BY <1>6, <1>7

\* Square and multiply computes the power.
LEMMA PowerIs ==
    ASSUME NEW b \in Nat, NEW n \in Nat, NEW e, PowersOf(b, n, e), NEW m \in Nat \ {0}
    PROVE  Power(b, n, m) \in Nat /\ Divides(m, Power(b, n, m) - e[n])
<1>0. e \in [0..n -> Nat] /\ e[0] = 1 /\ \A k \in 1..n : e[k] = e[k - 1] * b
    BY DEF PowersOf
<1>1. PICK t : PowerRun(b, n, m, t)
    BY PowerTrace
<1>11. /\ t \in [0..n -> PowerStates]
       /\ t[0] = [result |-> 1 % m, base |-> b, exp |-> n] /\ Power(b, n, m) = t[n].result
       /\ \A k \in 1..n : t[k] = PowerMove(t[k - 1], m)
    BY <1>1 DEF PowerRun
<1> DEFINE P == {k \in 0..n : /\ \E u, w : Powering(n, e, m, t[k], u, w)
                              /\ t[k].exp <= n - k}
<1>2. 0 \in P
    <2>1. t[0].result = 1 % m /\ t[0].base = b /\ t[0].exp = n
        BY <1>11
    <2>2. Divides(m, (1 % m) - e[0])
        <3>1. Divides(m, ((1 * 1) % m) - 1 * 1)
            <4>1. 1 \in Int /\ m \in Nat /\ m > 0 /\ m \in Int /\ 1 - 1 = 0
                OBVIOUS
            <4>2. Divides(m, 1 - 1)
                BY <4>1, DividesEdges
            <4>q. QED
                BY <4>1, <4>2, CongruentProduct, Zenon
        <3>2. 1 * 1 = 1
            OBVIOUS
        <3>q. QED
            BY <1>0, <3>1, <3>2
    <2>3. n > 0 => 1 <= n /\ Divides(m, b - e[1])
        <3> SUFFICES ASSUME n > 0 PROVE Divides(m, b - e[1])
            OBVIOUS
        <3>1. 1 \in 1..n /\ 1 - 1 = 0
            OBVIOUS
        <3>2. e[1] = 1 * b
            BY <1>0, <3>1
        <3>3. b - e[1] = 0
            BY <3>2
        <3>4. Divides(m, 0)
            BY DividesEdges
        <3>q. QED
            BY <3>3, <3>4
    <2>4. 0 \in 0..n /\ 0 + 1 * n = n /\ 1 \in Nat
        OBVIOUS
    <2>5. Powering(n, e, m, t[0], 0, 1)
        BY <2>1, <2>2, <2>3, <2>4 DEF Powering
    <2>q. QED
        BY <2>1, <2>4, <2>5
<1>3. ASSUME NEW k \in 1..n, k - 1 \in P PROVE k \in P
    <2> DEFINE st == t[k - 1]
    <2>0. k \in 0..n /\ k - 1 \in 0..n
        OBVIOUS
    <2>1. /\ st \in PowerStates /\ t[k] = PowerMove(st, m) /\ st.exp <= n - (k - 1)
          /\ \E u, w : Powering(n, e, m, st, u, w)
        BY <1>11, <1>3, <2>0
    <2>2. st.exp \in Nat
        BY <2>1 DEF PowerStates
    <2> HIDE DEF st
    <2>3. CASE st.exp = 0
        <3>1. t[k] = st
            BY <2>1, <2>3 DEF PowerMove
        <3>q. QED
            BY <2>0, <2>1, <2>3, <3>1
    <2>4. CASE st.exp # 0
        <3>1. t[k] = PowerStep(st, m) /\ st.exp > 0
            BY <2>1, <2>2, <2>4 DEF PowerMove
        <3>2. PICK u, w : Powering(n, e, m, st, u, w)
            BY <2>1
        <3>3. PICK v \in {u, u + w} : Powering(n, e, m, PowerStep(st, m), v, 2 * w)
            <4>1. st \in PowerStates /\ st.exp > 0
                BY <2>1, <3>1
            <4>2. \E v \in {u, u + w} : Powering(n, e, m, PowerStep(st, m), v, 2 * w)
                BY <3>2, <4>1, PoweringKept
            <4>q. QED
                BY <4>2
        <3>4. t[k].exp = st.exp \div 2
            BY <2>1, <3>1, PowerStepIs
        <3>5. st.exp \div 2 <= st.exp - 1
            BY <2>2, <3>1
        <3>6. t[k].exp <= n - k
            BY <2>1, <2>2, <3>4, <3>5
        <3>7. \E x, y : Powering(n, e, m, t[k], x, y)
            BY <3>1, <3>3
        <3>q. QED
            BY <2>0, <3>6, <3>7
    <2>q. QED
        BY <2>3, <2>4
<1>4. n \in P
    <2> HIDE DEF P
    <2>q. QED
        BY <1>2, <1>3, PrefixInduction
<1>5. t[n].exp = 0 /\ t[n].result \in Nat
    <2>1. n \in 0..n /\ t[n].exp <= n - n
        BY <1>4
    <2>2. t[n].exp \in Nat /\ t[n].result \in Nat
        BY <1>11, <2>1 DEF PowerStates
    <2>q. QED
        BY <2>1, <2>2
<1>6. PICK u, w : Powering(n, e, m, t[n], u, w)
    BY <1>4
<1>7. u = n
    <2>1. u \in 0..n /\ w \in Nat /\ u + w * 0 = n
        BY <1>5, <1>6 DEF Powering
    <2>q. QED
        BY <2>1
<1>8. Divides(m, t[n].result - e[n])
    BY <1>6, <1>7 DEF Powering
<1>q. QED
    BY <1>11, <1>5, <1>8

-----------------------------------------------------------------------------
\* Fermat's theorem.  The product of a set of numbers up to n, by a loop that leaves the
\* others out.
Masked(n, T, g) ==
    /\ g \in [0..n -> Nat] /\ g[0] = 1
    /\ \A k \in 1..n : g[k] = IF k \in T THEN g[k - 1] * k ELSE g[k - 1]
SetProduct(n, T) == (CHOOSE g : Masked(n, T, g))[n]

\* The product exists.
LEMMA MaskedExists ==
    ASSUME NEW n \in Nat, NEW T
    PROVE  \E g : Masked(n, T, g) /\ SetProduct(n, T) = g[n]
<1> DEFINE f == [p \in Nat \X (1..n) |-> IF p[2] \in T THEN p[1] * p[2] ELSE p[1]]
           Step(v, k) == IF k \in T THEN v * k ELSE v
<1>1. \A v \in Nat, k \in 1..n : Step(v, k) \in Nat /\ f[<<v, k>>] = Step(v, k)
    OBVIOUS
<1>2. Loop(Nat, 1, f, n)
    <2>1. f \in [Nat \X (1..n) -> Nat]
        OBVIOUS
    <2> HIDE DEF f
    <2>q. QED
        BY <2>1 DEF Loop
<1>3. PICK g \in [0..n -> Nat] : Runs(1, f, n, g)
    <2> HIDE DEF f
    <2>q. QED
        BY <1>2, LoopRuns
<1> HIDE DEF f
<1>4. ASSUME NEW k \in 1..n PROVE g[k] = Step(g[k - 1], k)
    <2>1. k - 1 \in 0..n
        OBVIOUS
    <2>2. g[k - 1] \in Nat
        BY <2>1
    <2>3. g[k] = f[<<g[k - 1], k>>]
        BY <1>3 DEF Runs
    <2> HIDE DEF Step
    <2>q. QED
        BY <1>1, <2>2, <2>3, Zenon
<1>5. Masked(n, T, g)
    BY <1>3, <1>4 DEF Masked, Runs
<1>6. Masked(n, T, CHOOSE h : Masked(n, T, h))
    BY <1>5, Zenon
<1>q. QED
    BY <1>6, Zenon DEF SetProduct

\* It is a number,
LEMMA SetProductIn == ASSUME NEW n \in Nat, NEW T PROVE SetProduct(n, T) \in Nat
<1>1. PICK g : Masked(n, T, g) /\ SetProduct(n, T) = g[n]
    BY MaskedExists
<1>2. n \in 0..n /\ g \in [0..n -> Nat]
    BY <1>1 DEF Masked
<1>q. QED
    BY <1>1, <1>2

\* 1 for no factors,
LEMMA SetProductEmpty == ASSUME NEW n \in Nat PROVE SetProduct(n, {}) = 1
<1>1. PICK g : Masked(n, {}, g) /\ SetProduct(n, {}) = g[n]
    BY MaskedExists
<1>2. g[0] = 1 /\ \A k \in 1..n : g[k] = g[k - 1]
    BY <1>1 DEF Masked
<1> DEFINE P == {k \in 0..n : g[k] = 1}
<1>3. 0 \in P
    BY <1>2
<1>4. ASSUME NEW k \in 1..n, k - 1 \in P PROVE k \in P
    BY <1>2, <1>4
<1>5. n \in P
    <2> HIDE DEF P
    <2>q. QED
        BY <1>3, <1>4, PrefixInduction
<1>q. QED
    BY <1>1, <1>5

\* One more number is one more factor.
LEMMA SetProductInsert ==
    ASSUME NEW n \in Nat, NEW T, NEW x \in 1..n, x \notin T
    PROVE  SetProduct(n, T \cup {x}) = x * SetProduct(n, T)
<1>1. PICK g : Masked(n, T, g) /\ SetProduct(n, T) = g[n]
    BY MaskedExists
<1>2. PICK h : Masked(n, T \cup {x}, h) /\ SetProduct(n, T \cup {x}) = h[n]
    BY MaskedExists
<1>3. /\ g \in [0..n -> Nat] /\ g[0] = 1
      /\ \A k \in 1..n : g[k] = IF k \in T THEN g[k - 1] * k ELSE g[k - 1]
    BY <1>1 DEF Masked
<1>4. /\ h \in [0..n -> Nat] /\ h[0] = 1
      /\ \A k \in 1..n : h[k] = IF k \in T \/ k = x THEN h[k - 1] * k ELSE h[k - 1]
    BY <1>2 DEF Masked
<1> DEFINE P == {k \in 0..n : h[k] = IF k >= x THEN x * g[k] ELSE g[k]}
<1>5. 0 \in P
    BY <1>3, <1>4
<1>6. ASSUME NEW k \in 1..n, k - 1 \in P PROVE k \in P
    <2>0. k \in 0..n /\ k - 1 \in 0..n /\ x \in Nat
        OBVIOUS
    <2> DEFINE a == g[k - 1]
               b == h[k - 1]
    <2>1. a \in Nat /\ b \in Nat /\ b = (IF k - 1 >= x THEN x * a ELSE a)
        BY <1>3, <1>4, <1>6, <2>0
    <2>2. g[k] = IF k \in T THEN a * k ELSE a
        BY <1>3
    <2>3. h[k] = IF k \in T \/ k = x THEN b * k ELSE b
        BY <1>4
    <2> HIDE DEF a, b
    <2>4. CASE k < x
        BY <2>0, <2>1, <2>2, <2>3, <2>4
    <2>5. CASE k = x
        <3>1. b = a /\ g[k] = a /\ h[k] = a * x
            BY <2>0, <2>1, <2>2, <2>3, <2>5
        <3>2. h[k] = x * g[k] /\ k >= x
            BY <2>0, <2>1, <2>5, <3>1
        <3>q. QED
            BY <2>0, <3>2
    <2>6. CASE k > x
        <3>1. b = x * a /\ k >= x
            BY <2>0, <2>1, <2>6
        <3>2. CASE k \in T
            <4>1. g[k] = a * k /\ h[k] = (x * a) * k
                BY <2>2, <2>3, <3>1, <3>2
            <4>2. h[k] = x * g[k]
                BY <2>0, <2>1, <4>1
            <4>q. QED
                BY <2>0, <3>1, <4>2
        <3>3. CASE k \notin T
            BY <2>0, <2>2, <2>3, <2>6, <3>1, <3>3
        <3>q. QED
            BY <3>2, <3>3
    <2>q. QED
        BY <2>0, <2>4, <2>5, <2>6
<1>7. n \in P
    <2> HIDE DEF P
    <2>q. QED
        BY <1>5, <1>6, PrefixInduction
<1>q. QED
    BY <1>1, <1>2, <1>7

\* Multiplying by a number that the prime does not divide permutes the numbers below it.
Scaled(p, b, T) == {(b * t) % p : t \in T}

\* What a number below the prime is taken to is below it, and not zero.
LEMMA ScaledOne ==
    ASSUME NEW p, IsPrime(p), NEW b \in 1..(p - 1), NEW x \in 1..(p - 1)
    PROVE  (b * x) % p \in 1..(p - 1) /\ ~ Divides(p, x)
<1>1. p \in Nat /\ p > 1 /\ p \in Int /\ b \in Nat /\ x \in Nat /\ b \in Int /\ x \in Int /\ b * x \in Int
    BY DEF IsPrime
<1>2. \A y \in 1..(p - 1) : ~ Divides(p, y)
    <2> SUFFICES ASSUME NEW y \in 1..(p - 1), Divides(p, y) PROVE FALSE
        OBVIOUS
    <2>1. y \in Nat /\ y > 0 /\ y < p
        BY <1>1
    <2>2. p <= y
        BY <1>1, <2>1, DividesBound
    <2>q. QED
        BY <1>1, <2>1, <2>2
<1>3. ~ Divides(p, b * x)
    BY <1>1, <1>2, EuclidLemma, Zenon
<1>q. QED
    BY <1>1, <1>2, <1>3, Bezout

\* No two are taken to the same.
LEMMA ScaledApart ==
    ASSUME NEW p, IsPrime(p), NEW b \in 1..(p - 1), NEW x \in 1..(p - 1), NEW y \in 1..(p - 1),
           (b * x) % p = (b * y) % p
    PROVE  x = y
<1>1. p \in Nat /\ p > 1 /\ p \in Int /\ b \in Int /\ x \in Nat /\ y \in Nat /\ x < p /\ y < p
    BY DEF IsPrime
<1> DEFINE bx == b * x
           by == b * y
           r == bx % p
           d == x - y
<1>2. bx \in Int /\ by \in Int /\ d \in Int /\ b * d = bx - by
    BY <1>1
<1>3. r \in Nat /\ Divides(p, bx - r) /\ Divides(p, by - r)
    <2>1. r = by % p
        OBVIOUS
    <2> HIDE DEF bx, by
    <2>2. Divides(p, bx - (bx % p)) /\ Divides(p, by - (by % p)) /\ bx % p \in Nat
        BY <1>1, <1>2, ModRange
    <2>q. QED
        BY <2>1, <2>2
<1> HIDE DEF bx, by, r, d
<1>4. Divides(p, (bx - r) - (by - r))
    <2>1. bx - r \in Int /\ by - r \in Int
        BY <1>2, <1>3
    <2>q. QED
        BY <1>1, <1>3, <2>1, DividesSum, Zenon
<1>5. Divides(p, b * d)
    <2>1. b * d = (bx - r) - (by - r)
        BY <1>2, <1>3
    <2>q. QED
        BY <1>4, <2>1
<1>6. ~ Divides(p, b)
    BY ScaledOne
<1>7. Divides(p, d)
    BY <1>1, <1>2, <1>5, <1>6, EuclidLemma, Zenon
<1>q. QED
    BY <1>1, <1>7, SmallMultiple DEF d

\* What scaling a set does to its product, one number after the other.
ScaledWell(p, b, e, T) ==
    /\ IsFiniteSet(T) /\ Scaled(p, b, T) \in SUBSET (1..(p - 1))
    /\ Cardinality(Scaled(p, b, T)) = Cardinality(T)
    /\ ~ Divides(p, SetProduct(p - 1, T))
    /\ Divides(p, SetProduct(p - 1, Scaled(p, b, T)) - e[Cardinality(T)] * SetProduct(p - 1, T))

\* One more number: both products get one more factor.
LEMMA ScaledInsert ==
    ASSUME NEW p, IsPrime(p), NEW b \in 1..(p - 1), NEW e, PowersOf(b, p - 1, e),
           NEW T \in SUBSET (1..(p - 1)), NEW x \in (1..(p - 1)) \ T, ScaledWell(p, b, e, T)
    PROVE  ScaledWell(p, b, e, T \cup {x})
<1> DEFINE U == T \cup {x}
           n == p - 1
           y == (b * x) % p
           B == Scaled(p, b, T)
           c == Cardinality(T)
<1>1. p \in Nat /\ p > 1 /\ p \in Int /\ n \in Nat /\ b \in Nat /\ x \in Nat
    BY DEF IsPrime
<1>2. y \in 1..n /\ ~ Divides(p, x)
    BY ScaledOne
<1>3. y \notin B
    <2> SUFFICES ASSUME y \in B PROVE FALSE
        OBVIOUS
    <2>1. PICK t \in T : y = (b * t) % p
        BY DEF Scaled
    <2>2. t = x
        BY <2>1, ScaledApart
    <2>q. QED
        BY <2>1, <2>2
<1>4. Scaled(p, b, U) = B \cup {y}
    BY DEF Scaled
<1>5. IsFiniteSet(T) /\ B \in SUBSET (1..n) /\ Cardinality(B) = c
    BY DEF ScaledWell
<1>6. IsFiniteSet(B)
    <2>1. IsFiniteSet(1..n)
        BY <1>1, FS_Interval
    <2> HIDE DEF B, n
    <2>q. QED
        BY <1>5, <2>1, FS_Subset
<1>7. IsFiniteSet(U) /\ Cardinality(U) = c + 1 /\ Cardinality(B \cup {y}) = c + 1
    <2>1. IsFiniteSet(U) /\ Cardinality(U) = c + 1
        BY <1>5, FS_AddElement
    <2> HIDE DEF B, y, c
    <2>2. Cardinality(B \cup {y}) = c + 1
        BY <1>3, <1>5, <1>6, FS_AddElement
    <2>q. QED
        BY <2>1, <2>2
<1>8. c \in Nat /\ c + 1 <= n
    <2>1. IsFiniteSet(1..n) /\ Cardinality(1..n) = n
        <3>1. /\ IsFiniteSet(1..n) /\ Cardinality(1..n) = IF 1 > n THEN 0 ELSE n - 1 + 1
            BY <1>1, FS_Interval
        <3>q. QED
            BY <1>1, <3>1
    <2>2. U \in SUBSET (1..n)
        OBVIOUS
    <2> HIDE DEF n, U
    <2>3. Cardinality(U) <= Cardinality(1..n)
        BY <2>1, <2>2, FS_Subset
    <2>4. c \in Nat
        BY <1>5, FS_CardinalityType
    <2>q. QED
        BY <1>7, <2>1, <2>3, <2>4
<1> DEFINE G == SetProduct(n, T)
           H == SetProduct(n, B)
           E == e[c]
<1>9. G \in Nat /\ H \in Nat
    BY <1>1, SetProductIn
<1>10. SetProduct(n, U) = x * G
    BY <1>1, SetProductInsert
<1>11. SetProduct(n, B \cup {y}) = y * H
    <2> HIDE DEF n, y, B
    <2>q. QED
        BY <1>1, <1>2, <1>3, SetProductInsert
<1>12. E \in Nat /\ e[c + 1] = E * b
    <2>1. e \in [0..n -> Nat] /\ \A k \in 1..n : e[k] = e[k - 1] * b
        BY DEF PowersOf
    <2>2. c + 1 \in 1..n /\ c \in 0..n /\ (c + 1) - 1 = c
        <3> HIDE DEF c, n
        <3>q. QED
            BY <1>1, <1>8
    <2>3. e[c + 1] = e[(c + 1) - 1] * b
        BY <2>1, <2>2
    <2>q. QED
        BY <2>1, <2>2, <2>3
<1>13. ~ Divides(p, G) /\ Divides(p, H - E * G)
    BY DEF ScaledWell
<1> HIDE DEF G, H, E, y, B, c, U
<1>14. ~ Divides(p, x * G)
    <2>1. x \in Int /\ G \in Int
        BY <1>1, <1>9
    <2>q. QED
        BY <1>2, <1>13, <2>1, EuclidLemma, Zenon
<1>15. Divides(p, y * H - (E * b) * (x * G))
    <2> DEFINE bx == b * x
               EG == E * G
    <2>1. bx \in Int /\ EG \in Int /\ y \in Int /\ H \in Int
        BY <1>1, <1>2, <1>9, <1>12
    <2>2. Divides(p, y - bx)
        <3> HIDE DEF bx
        <3>1. Divides(p, bx - (bx % p)) /\ bx % p \in Nat
            BY <1>1, <2>1, ModRange
        <3>2. y = bx % p
            BY DEF y, bx
        <3>3. bx - y \in Int /\ 0 - (bx - y) = y - bx /\ 0 \in Int /\ Divides(p, 0)
            BY <1>1, <2>1, DividesEdges
        <3>4. Divides(p, 0 - (bx - y))
            BY <1>1, <3>1, <3>2, <3>3, DividesSum, Zenon
        <3>q. QED
            BY <3>3, <3>4
    <2>3. Divides(p, H - EG)
        BY <1>13
    <2>4. bx * EG = (E * b) * (x * G)
        BY <1>1, <1>9, <1>12
    <2> HIDE DEF bx, EG
    <2>5. Divides(p, y * H - bx * EG)
        <3>1. p > 0
            BY <1>1
        <3>q. QED
            BY <1>1, <2>1, <2>2, <2>3, <3>1, CongruentProduct, Zenon
    <2>q. QED
        BY <2>4, <2>5
<1>16. Divides(p, SetProduct(n, Scaled(p, b, U)) - e[Cardinality(U)] * SetProduct(n, U))
    BY <1>4, <1>7, <1>10, <1>11, <1>12, <1>15
<1>17. Scaled(p, b, U) \in SUBSET (1..n) /\ Cardinality(Scaled(p, b, U)) = Cardinality(U)
    BY <1>2, <1>4, <1>5, <1>7
<1>18. ~ Divides(p, SetProduct(n, U))
    BY <1>10, <1>14
<1>19. ScaledWell(p, b, e, U)
    BY <1>7, <1>16, <1>17, <1>18 DEF ScaledWell
<1>q. QED
    BY <1>19 DEF U

\* A power one below a prime leaves 1.
LEMMA Fermat ==
    ASSUME NEW p, IsPrime(p), NEW b \in 1..(p - 1), NEW e, PowersOf(b, p - 1, e)
    PROVE  Divides(p, e[p - 1] - 1)
<1> DEFINE n == p - 1
           S == 1..n
           F == {T \in SUBSET S : ScaledWell(p, b, e, T)}
<1>1. p \in Nat /\ p > 1 /\ p \in Int /\ n \in Nat
    BY DEF IsPrime
<1>2. IsFiniteSet(S) /\ Cardinality(S) = n
    <2>1. /\ IsFiniteSet(1..n) /\ Cardinality(1..n) = IF 1 > n THEN 0 ELSE n - 1 + 1
        BY <1>1, FS_Interval
    <2>q. QED
        BY <1>1, <2>1
<1>3. {} \in F
    <2>1. Scaled(p, b, {}) = {}
        BY DEF Scaled
    <2>2. IsFiniteSet({}) /\ Cardinality({}) = 0
        BY FS_EmptySet
    <2>3. SetProduct(n, {}) = 1
        BY <1>1, SetProductEmpty
    <2>4. e[0] = 1
        BY DEF PowersOf
    <2>5. ~ Divides(p, 1) /\ Divides(p, 1 - 1 * 1)
        <3>1. Divides(p, 0) /\ 1 - 1 * 1 = 0
            BY <1>1, DividesEdges
        <3>2. ~ Divides(p, 1)
            BY PrimesApart
        <3>q. QED
            BY <3>1, <3>2
    <2>q. QED
        BY <2>1, <2>2, <2>3, <2>4, <2>5 DEF ScaledWell
<1>4. ASSUME NEW T \in SUBSET S, NEW x \in S \ T, T \in F PROVE T \cup {x} \in F
    BY <1>4, ScaledInsert
<1>5. S \in F
    <2> HIDE DEF F, S
    <2>q. QED
        BY <1>2, <1>3, <1>4, FiniteSubsetInduction
<1>6. Scaled(p, b, S) = S
    <2>1. Scaled(p, b, S) \in SUBSET S /\ Cardinality(Scaled(p, b, S)) = Cardinality(S)
        BY <1>5 DEF ScaledWell
    <2> HIDE DEF S
    <2>q. QED
        BY <1>2, <2>1, FS_Subset
<1> DEFINE G == SetProduct(n, S)
           E == e[n]
<1>7. G \in Int /\ E \in Int
    <2>1. n \in 0..n
        BY <1>1
    <2>q. QED
        BY <1>1, <2>1, SetProductIn DEF PowersOf
<1>8. ~ Divides(p, G) /\ Divides(p, G - E * G)
    BY <1>2, <1>5, <1>6 DEF ScaledWell
<1> HIDE DEF G, E, S, F
<1> DEFINE d == 1 - E
<1>9. d \in Int /\ G * d = G - E * G
    BY <1>7
<1>10. Divides(p, G * d)
    BY <1>8, <1>9
<1> HIDE DEF d
<1>11. Divides(p, d)
    BY <1>7, <1>8, <1>9, <1>10, EuclidLemma, Zenon
<1>12. Divides(p, 0 - d)
    <2>1. 0 \in Int /\ Divides(p, 0)
        BY <1>1, DividesEdges
    <2>q. QED
        BY <1>1, <1>9, <1>11, <2>1, DividesSum, Zenon
<1>13. 0 - d = E - 1
    BY <1>7 DEF d
<1>q. QED
    BY <1>12, <1>13 DEF E

-----------------------------------------------------------------------------
\* The kernel's inverse is a power, by Fermat's theorem.
LEMMA KernelInverse ==
    ASSUME NEW p, IsPrime(p), NEW b \in 1..(p - 1)
    PROVE  Power(b, p - 2, p) \in Nat /\ Divides(p, b * Power(b, p - 2, p) - 1)
<1> DEFINE n == p - 2
           x == Power(b, n, p)
<1>1. p \in Nat /\ p > 1 /\ p \in Int /\ p \in Nat \ {0} /\ n \in Nat /\ p - 1 \in Nat /\ b \in Nat
    BY DEF IsPrime
<1>2. PICK e : PowersOf(b, p - 1, e)
    BY <1>1, PowersExist
<1>3. /\ e \in [0..(p - 1) -> Nat] /\ e[0] = 1
      /\ \A k \in 1..(p - 1) : e[k] = e[k - 1] * b
    BY <1>2 DEF PowersOf
<1> DEFINE d == [k \in 0..n |-> e[k]]
<1>4. PowersOf(b, n, d) /\ d[n] = e[n]
    <2>1. 0 \in 0..n /\ n \in 0..n
        BY <1>1
    <2>2. \A k \in 0..n : k \in 0..(p - 1) /\ d[k] = e[k] /\ e[k] \in Nat
        <3>1. \A k \in 0..n : k \in 0..(p - 1)
            BY <1>1
        <3>2. \A k \in 0..n : d[k] = e[k]
            BY Zenon
        <3>3. \A k \in 0..(p - 1) : e[k] \in Nat
            BY <1>3
        <3> HIDE DEF d, n
        <3>q. QED
            BY <3>1, <3>2, <3>3
    <2>3. d \in [0..n -> Nat]
        <3> HIDE DEF n
        <3>q. QED
            BY <2>2, Zenon
    <2>4. ASSUME NEW k \in 1..n PROVE d[k] = d[k - 1] * b
        <3>1. k \in 1..(p - 1) /\ k \in 0..n /\ k - 1 \in 0..n
            BY <1>1
        <3>2. d[k] = e[k] /\ d[k - 1] = e[k - 1]
            BY <2>2, <3>1
        <3> HIDE DEF d, n
        <3>q. QED
            BY <1>3, <3>1, <3>2
    <2> HIDE DEF d, n
    <2>q. QED
        BY <1>3, <2>1, <2>2, <2>3, <2>4 DEF PowersOf
<1> DEFINE E == e[n]
<1>5. x \in Nat /\ Divides(p, x - E)
    <2> HIDE DEF n, d
    <2>q. QED
        BY <1>1, <1>4, PowerIs
<1>6. E \in Nat /\ e[p - 1] = E * b
    <2>1. p - 1 \in 1..(p - 1) /\ (p - 1) - 1 = n /\ n \in 0..(p - 1)
        BY <1>1
    <2>q. QED
        BY <1>3, <2>1
<1>7. Divides(p, E * b - 1)
    BY <1>2, <1>6, Fermat
<1> DEFINE y == x - E
           z == E * b - 1
           by == b * y
<1>8. y \in Int /\ z \in Int /\ by \in Int /\ b \in Int /\ by + z = b * x - 1
    <2> HIDE DEF x, E
    <2>q. QED
        BY <1>1, <1>5, <1>6
<1> HIDE DEF x, E
<1>9. Divides(p, y) /\ Divides(p, z)
    BY <1>5, <1>7
<1> HIDE DEF y, z
<1>10. Divides(p, by)
    BY <1>1, <1>8, <1>9, DividesProduct, Zenon
<1> HIDE DEF by
<1>11. Divides(p, by + z)
    BY <1>1, <1>8, <1>9, <1>10, DividesSum, Zenon
<1>12. Divides(p, b * x - 1)
    BY <1>8, <1>11
<1>q. QED
    BY <1>5, <1>12 DEF x

-----------------------------------------------------------------------------
\* The product of the primes and twice it fit a word.
Fits(primes) == KernelWord \in Nat /\ 2 * ProductOf(primes) <= KernelWord

KernelProductStep(primes, v, k) == (v * primes[k]) % KernelWord

\* The product is below the word.
LEMMA FitsWord ==
    ASSUME NEW primes, PrimeList(primes), Fits(primes)
    PROVE  KernelWord \in Nat /\ KernelWord > 0 /\ ProductOf(primes) < KernelWord
<1>1. ProductOf(primes) \in Nat /\ ProductOf(primes) > 0
    BY ProductIn
<1>q. QED
    BY <1>1 DEF Fits

\* The kernel's product stays a number.
LEMMA KernelProductStepIn ==
    ASSUME NEW primes, PrimeList(primes), Fits(primes)
    PROVE  \A v \in Nat : \A k \in 1..Len(primes) : KernelProductStep(primes, v, k) \in Nat
<1> SUFFICES ASSUME NEW v \in Nat, NEW k \in 1..Len(primes)
             PROVE  KernelProductStep(primes, v, k) \in Nat
    OBVIOUS
<1>1. KernelWord \in Nat /\ KernelWord > 0
    BY FitsWord
<1>2. v * primes[k] \in Nat
    <2>1. primes[k] \in Nat
        BY PrimeAt
    <2>q. QED
        BY <2>1
<1>q. QED
    BY <1>1, <1>2 DEF KernelProductStep


KernelProductLoop(primes, g) ==
    g = [n \in 0..Len(primes) |-> IF n = 0 THEN 1 ELSE KernelProductStep(primes, g[n - 1], n)]

\* The loop of the kernel's product.
LEMMA KernelProductIsLoop ==
    ASSUME NEW primes PROVE KernelProduct(primes) = (CHOOSE g : KernelProductLoop(primes, g))[Len(primes)]
BY Zenon DEF KernelProduct, KernelProductLoop, KernelProductStep

\* Its run.
LEMMA KernelProductTrace ==
    ASSUME NEW primes, PrimeList(primes), Fits(primes)
    PROVE  \E t \in [0..Len(primes) -> Nat] :
              /\ t[0] = 1 /\ KernelProduct(primes) = t[Len(primes)]
              /\ \A k \in 1..Len(primes) : t[k] = KernelProductStep(primes, t[k - 1], k)
<1> DEFINE f == [p \in Nat \X (1..Len(primes)) |-> KernelProductStep(primes, p[1], p[2])]
<1>1. \A z \in Nat, k \in 1..Len(primes) :
        KernelProductStep(primes, z, k) \in Nat /\ f[<<z, k>>] = KernelProductStep(primes, z, k)
    BY KernelProductStepIn
<1>b. 1 \in Nat /\ Len(primes) \in Nat
    BY PrimeAt
<1>2. Loop(Nat, 1, f, Len(primes))
    BY <1>1, <1>b DEF Loop
<1> HIDE DEF f
<1>3. \E g : KernelProductLoop(primes, g)
    <2>1. PICK g \in [0..Len(primes) -> Nat] : Runs(1, f, Len(primes), g)
        BY <1>2, LoopRuns
    <2>2. \A k \in 1..Len(primes) : k - 1 \in 0..Len(primes) /\ k \in 0..Len(primes) /\ k # 0
        BY <1>2 DEF Loop
    <2>3. ASSUME NEW k \in 0..Len(primes)
          PROVE  g[k] = IF k = 0 THEN 1 ELSE KernelProductStep(primes, g[k - 1], k)
        <3>1. CASE k = 0
            BY <2>1, <3>1 DEF Runs
        <3>2. CASE k # 0
            <4>1. k \in 1..Len(primes) /\ g[k - 1] \in Nat
                <5>1. k \in 1..Len(primes)
                    BY <1>b, <3>2
                <5>q. QED
                    BY <2>1, <2>2, <5>1
            <4>2. g[k] = f[<<g[k - 1], k>>]
                BY <2>1, <4>1 DEF Runs
            <4>3. g[k] = KernelProductStep(primes, g[k - 1], k)
                BY <1>1, <4>1, <4>2, Zenon
            <4>q. QED
                BY <3>2, <4>3
        <3>q. QED
            BY <3>1, <3>2
    <2>4. KernelProductLoop(primes, g)
        BY <2>1, <2>3 DEF KernelProductLoop
    <2>q. QED
        BY <2>4
<1> DEFINE h == CHOOSE g : KernelProductLoop(primes, g)
<1>4. KernelProductLoop(primes, h)
    BY <1>3
<1>5. KernelProduct(primes) = h[Len(primes)]
    BY KernelProductIsLoop
<1> HIDE DEF h
<1>6. 0 \in 0..Len(primes) /\ \A k \in 1..Len(primes) : k \in 0..Len(primes) /\ k # 0
    BY <1>b
<1>7. h = [k \in 0..Len(primes) |-> h[k]]
      /\ \A k \in 0..Len(primes) : h[k] = IF k = 0 THEN 1 ELSE KernelProductStep(primes, h[k - 1], k)
    BY <1>4 DEF KernelProductLoop
<1>8. /\ h[0] = 1
      /\ \A k \in 1..Len(primes) : h[k] = KernelProductStep(primes, h[k - 1], k)
    BY <1>6, <1>7
<1>9. \A k \in 1..Len(primes) : h[k - 1] \in Nat => h[k] = f[<<h[k - 1], k>>]
    BY <1>1, <1>8
<1>10. Follows(Nat, 1, f, Len(primes), h)
    BY <1>7, <1>8, <1>9, Zenon DEF Follows
<1>11. h \in [0..Len(primes) -> Nat]
    BY <1>2, <1>10, RunsStay
<1>q. QED
    BY <1>5, <1>8, <1>11

\* A partial product is at most the whole.
LEMMA PartialProducts ==
    ASSUME NEW primes, PrimeList(primes), NEW t, Multiplied(primes, t)
    PROVE  \A k \in 0..Len(primes) : t[k] <= ProductOf(primes)
<1> DEFINE n == Len(primes)
           P == {k \in 0..n : \A j \in 0..k : t[j] <= t[k]}
<1>1. /\ n \in Nat
      /\ \A k \in 0..n : t[k] \in Nat /\ t[k] > 0
      /\ \A k \in 1..n : t[k] = t[k - 1] * primes[k] /\ primes[k] \in Nat /\ primes[k] > 1
      /\ ProductOf(primes) = t[n]
    BY PrimeAt, ProductPositive DEF Multiplied
<1>2. 0 \in P
    BY <1>1
<1>3. ASSUME NEW k \in 1..n, k - 1 \in P PROVE k \in P
    <2>1. k \in 0..n /\ k - 1 \in 0..n
        BY <1>1
    <2> DEFINE a == t[k - 1]
               q == primes[k]
    <2>2. a \in Nat /\ a > 0 /\ q \in Nat /\ q > 1 /\ t[k] = a * q
        BY <1>1, <2>1
    <2>3. a <= t[k]
        <3> HIDE DEF a, q
        <3>1. a * q >= a * 1
            BY <2>2
        <3>q. QED
            BY <2>2, <3>1
    <2>4. ASSUME NEW j \in 0..k PROVE t[j] <= t[k]
        <3>1. CASE j = k
            BY <1>1, <2>1, <3>1
        <3>2. CASE j # k
            <4>1. j \in 0..(k - 1) /\ j \in 0..n
                BY <1>1, <3>2
            <4>2. t[j] <= a /\ t[j] \in Nat
                BY <1>1, <1>3, <4>1
            <4> HIDE DEF a
            <4>q. QED
                BY <1>1, <2>1, <2>2, <2>3, <4>2
        <3>q. QED
            BY <3>1, <3>2
    <2>q. QED
        BY <2>1, <2>4
<1>4. n \in P
    <2> HIDE DEF P, n
    <2>q. QED
        BY <1>1, <1>2, <1>3, PrefixInduction
<1>q. QED
    BY <1>1, <1>4

\* The kernel's product does not wrap.
LEMMA KernelProductIs ==
    ASSUME NEW primes, PrimeList(primes), Fits(primes)
    PROVE  KernelProduct(primes) = ProductOf(primes)
<1> DEFINE n == Len(primes)
<1>1. PICK t \in [0..n -> Nat] :
              /\ t[0] = 1 /\ KernelProduct(primes) = t[n]
              /\ \A k \in 1..n : t[k] = KernelProductStep(primes, t[k - 1], k)
    BY KernelProductTrace
<1>2. PICK g : Multiplied(primes, g)
    BY Multiplies
<1>3. /\ g \in [0..n -> Nat] /\ g[0] = 1 /\ ProductOf(primes) = g[n]
      /\ \A k \in 1..n : g[k] = g[k - 1] * primes[k]
    BY <1>2 DEF Multiplied
<1>4. \A k \in 0..n : g[k] <= ProductOf(primes)
    BY <1>2, PartialProducts
<1>5. KernelWord \in Nat /\ KernelWord > 0 /\ ProductOf(primes) < KernelWord /\ n \in Nat
      /\ ProductOf(primes) \in Nat
    BY FitsWord, PrimeAt, ProductIn
<1> DEFINE P == {k \in 0..n : t[k] = g[k]}
<1>6. 0 \in P
    BY <1>1, <1>3, <1>5
<1>7. ASSUME NEW k \in 1..n, k - 1 \in P PROVE k \in P
    <2>1. k \in 0..n
        BY <1>5
    <2>2. t[k] = g[k] % KernelWord
        BY <1>1, <1>3, <1>7 DEF KernelProductStep
    <2>3. g[k] \in Nat /\ g[k] < KernelWord
        BY <1>3, <1>4, <1>5, <2>1
    <2>4. g[k] % KernelWord = g[k]
        BY <1>5, <2>3
    <2>q. QED
        BY <2>1, <2>2, <2>4
<1>8. n \in P
    <2> HIDE DEF P, n
    <2>q. QED
        BY <1>5, <1>6, <1>7, PrefixInduction
<1>q. QED
    BY <1>1, <1>3, <1>8

-----------------------------------------------------------------------------
\* One of the kernel's terms is congruent to what the exact reconstruction adds.
LEMMA KernelTermIs ==
    ASSUME NEW primes, PrimeList(primes), NEW residues, Residues(residues, primes),
           NEW i \in 1..Len(primes)
    PROVE  /\ KernelTerm(residues, primes, ProductOf(primes), i) \in Nat
           /\ KernelTerm(residues, primes, ProductOf(primes), i) < ProductOf(primes)
           /\ \A j \in 1..Len(primes) :
                Divides(primes[j], KernelTerm(residues, primes, ProductOf(primes), i)
                                      - (IF j = i THEN residues[j] ELSE 0))
<1> DEFINE M == ProductOf(primes)
           p == primes[i]
           c == Cofactor(primes, i)
           b == c % p
           r == residues[i]
           x == Power(b, p - 2, p)
           rc == r * c
           low == rc % M
           T == KernelTerm(residues, primes, M, i)
<1>1. /\ M \in Nat /\ M > 0 /\ M \in Int /\ c \in Nat /\ ~ Divides(p, c) /\ IsPrime(p) /\ r \in Nat
      /\ p \in Nat
    BY ProductIn, CofactorOf, PrimeAt DEF Residues
<1>2. T = (low * x) % M
    BY DEF KernelTerm, Cofactor
<1>3. b \in 1..(p - 1)
    <2> HIDE DEF p, c
    <2>1. c \in Int
        BY <1>1
    <2>q. QED
        BY <1>1, <2>1, Bezout
<1>4. x \in Nat /\ Divides(p, b * x - 1)
    <2> HIDE DEF p, b
    <2>q. QED
        BY <1>1, <1>3, KernelInverse
<1>5. \A j \in 1..Len(primes) :
         Divides(primes[j], r * c * x - (IF j = i THEN r ELSE 0))
    <2>1. r \in Int /\ x \in Int
        BY <1>1, <1>4
    <2>2. Divides(primes[i], (Cofactor(primes, i) % primes[i]) * x - 1)
        BY <1>4
    <2> HIDE DEF x, r
    <2>q. QED
        BY <2>1, <2>2, TermResidue
<1> HIDE DEF M, p, c, b, r, x
<1>6. rc \in Nat /\ rc \in Int
    BY <1>1
<1>7. low \in Nat /\ Divides(M, low - rc)
    <2> HIDE DEF rc
    <2>1. rc % M \in Nat /\ Divides(M, rc - (rc % M))
        BY <1>1, <1>6, ModRange
    <2>2. rc - low \in Int /\ 0 \in Int /\ Divides(M, 0) /\ 0 - (rc - low) = low - rc
        BY <1>1, <1>6, <2>1, DividesEdges
    <2>3. Divides(M, rc - low)
        BY <2>1
    <2>4. Divides(M, 0 - (rc - low))
        BY <1>1, <2>2, <2>3, DividesSum, Zenon
    <2>q. QED
        BY <2>1, <2>2, <2>4
<1> HIDE DEF low
<1>8. Divides(M, T - rc * x)
    <2>1. low \in Int /\ x \in Int /\ x - x = 0
        BY <1>4, <1>7
    <2>2. Divides(M, x - x)
        BY <1>1, <2>1, DividesEdges
    <2> HIDE DEF rc, T
    <2>3. Divides(M, ((low * x) % M) - rc * x)
        BY <1>1, <1>6, <1>7, <2>1, <2>2, CongruentProduct, Zenon
    <2>q. QED
        BY <1>2, <2>3
<1>9. T \in Nat /\ T < M
    <2>1. low * x \in Int
        BY <1>4, <1>7
    <2> HIDE DEF T
    <2>q. QED
        BY <1>1, <1>2, <2>1, ModRange
<1> HIDE DEF T
<1>10. ASSUME NEW j \in 1..Len(primes)
       PROVE  Divides(primes[j], T - (IF j = i THEN residues[j] ELSE 0))
    <2> DEFINE q == primes[j]
               D == T - rc * x
               w == IF j = i THEN r ELSE 0
               F == rc * x - w
    <2>1. q \in Int /\ w \in Int /\ D \in Int /\ F \in Int /\ D + F = T - w
        <3>1. q \in Int /\ rc * x \in Int /\ T \in Int
            BY <1>4, <1>6, <1>9, PrimeAt
        <3>2. w \in Int
            BY <1>1
        <3> HIDE DEF w, rc
        <3>q. QED
            BY <3>1, <3>2
    <2>2. Divides(q, M)
        BY CofactorOthers DEF M
    <2>3. Divides(M, D)
        BY <1>8
    <2>4. Divides(q, F)
        BY <1>5 DEF rc
    <2>w. w = IF j = i THEN residues[j] ELSE 0
        BY DEF r
    <2> HIDE DEF q, D, F, w
    <2>5. Divides(q, D)
        BY <1>1, <2>1, <2>2, <2>3, DividesTrans, Zenon
    <2>6. Divides(q, D + F)
        BY <2>1, <2>4, <2>5, DividesSum, Zenon
    <2>q. QED
        BY <2>1, <2>6, <2>w DEF q
<1>q. QED
    BY <1>9, <1>10 DEF T, M

KernelStep(residues, primes, v, k) ==
    ((v + KernelTerm(residues, primes, KernelProduct(primes), k)) % KernelWord) % KernelProduct(primes)

\* A step of the kernel's sum does not wrap either.
LEMMA KernelStepIn ==
    ASSUME NEW primes, PrimeList(primes), Fits(primes), NEW residues, Residues(residues, primes)
    PROVE  \A v \in Nat : \A k \in 1..Len(primes) :
              /\ KernelStep(residues, primes, v, k) \in Nat
              /\ KernelStep(residues, primes, v, k) < ProductOf(primes)
              /\ v < ProductOf(primes) =>
                    KernelStep(residues, primes, v, k)
                      = (v + KernelTerm(residues, primes, ProductOf(primes), k)) % ProductOf(primes)
<1> SUFFICES ASSUME NEW v \in Nat, NEW k \in 1..Len(primes)
             PROVE  /\ KernelStep(residues, primes, v, k) \in Nat
                    /\ KernelStep(residues, primes, v, k) < ProductOf(primes)
                    /\ v < ProductOf(primes) =>
                          KernelStep(residues, primes, v, k)
                            = (v + KernelTerm(residues, primes, ProductOf(primes), k)) % ProductOf(primes)
    OBVIOUS
<1> DEFINE M == ProductOf(primes)
           T == KernelTerm(residues, primes, M, k)
<1>1. KernelProduct(primes) = M
    BY KernelProductIs
<1>2. M \in Nat /\ M > 0 /\ KernelWord \in Nat /\ KernelWord > 0 /\ 2 * M <= KernelWord
    BY ProductIn, FitsWord DEF Fits
<1>3. T \in Nat /\ T < M
    BY KernelTermIs
<1>4. KernelStep(residues, primes, v, k) = ((v + T) % KernelWord) % M
    BY <1>1 DEF KernelStep
<1> HIDE DEF M, T
<1>5. (v + T) % KernelWord \in Nat
    BY <1>2, <1>3
<1>6. ((v + T) % KernelWord) % M \in Nat /\ ((v + T) % KernelWord) % M < M
    BY <1>2, <1>5
<1>7. ASSUME v < M PROVE (v + T) % KernelWord = v + T
    BY <1>2, <1>3, <1>7
<1>q. QED
    BY <1>4, <1>6, <1>7 DEF M, T

KernelReconstructLoop(residues, primes, g) ==
    g = [n \in 0..Len(primes) |-> IF n = 0 THEN 0 ELSE KernelStep(residues, primes, g[n - 1], n)]

\* The kernel's loop.
LEMMA KernelReconstructIsLoop ==
    ASSUME NEW residues, NEW primes PROVE KernelReconstruct(residues, primes) = (CHOOSE g : KernelReconstructLoop(residues, primes, g))[Len(primes)]
BY Zenon DEF KernelReconstruct, KernelReconstructLoop, KernelStep

\* Its run.
LEMMA KernelReconstructTrace ==
    ASSUME NEW primes, PrimeList(primes), Fits(primes), NEW residues, Residues(residues, primes)
    PROVE  \E t \in [0..Len(primes) -> Nat] :
              /\ t[0] = 0 /\ KernelReconstruct(residues, primes) = t[Len(primes)]
              /\ \A k \in 1..Len(primes) : t[k] = KernelStep(residues, primes, t[k - 1], k)
<1> DEFINE f == [p \in Nat \X (1..Len(primes)) |-> KernelStep(residues, primes, p[1], p[2])]
<1>1. \A z \in Nat, k \in 1..Len(primes) :
        KernelStep(residues, primes, z, k) \in Nat /\ f[<<z, k>>] = KernelStep(residues, primes, z, k)
    BY KernelStepIn
<1>b. 0 \in Nat /\ Len(primes) \in Nat
    BY PrimeAt
<1>2. Loop(Nat, 0, f, Len(primes))
    BY <1>1, <1>b DEF Loop
<1> HIDE DEF f
<1>3. \E g : KernelReconstructLoop(residues, primes, g)
    <2>1. PICK g \in [0..Len(primes) -> Nat] : Runs(0, f, Len(primes), g)
        BY <1>2, LoopRuns
    <2>2. \A k \in 1..Len(primes) : k - 1 \in 0..Len(primes) /\ k \in 0..Len(primes) /\ k # 0
        BY <1>2 DEF Loop
    <2>3. ASSUME NEW k \in 0..Len(primes)
          PROVE  g[k] = IF k = 0 THEN 0 ELSE KernelStep(residues, primes, g[k - 1], k)
        <3>1. CASE k = 0
            BY <2>1, <3>1 DEF Runs
        <3>2. CASE k # 0
            <4>1. k \in 1..Len(primes) /\ g[k - 1] \in Nat
                <5>1. k \in 1..Len(primes)
                    BY <1>b, <3>2
                <5>q. QED
                    BY <2>1, <2>2, <5>1
            <4>2. g[k] = f[<<g[k - 1], k>>]
                BY <2>1, <4>1 DEF Runs
            <4>3. g[k] = KernelStep(residues, primes, g[k - 1], k)
                BY <1>1, <4>1, <4>2, Zenon
            <4>q. QED
                BY <3>2, <4>3
        <3>q. QED
            BY <3>1, <3>2
    <2>4. KernelReconstructLoop(residues, primes, g)
        BY <2>1, <2>3 DEF KernelReconstructLoop
    <2>q. QED
        BY <2>4
<1> DEFINE h == CHOOSE g : KernelReconstructLoop(residues, primes, g)
<1>4. KernelReconstructLoop(residues, primes, h)
    BY <1>3
<1>5. KernelReconstruct(residues, primes) = h[Len(primes)]
    BY KernelReconstructIsLoop
<1> HIDE DEF h
<1>6. 0 \in 0..Len(primes) /\ \A k \in 1..Len(primes) : k \in 0..Len(primes) /\ k # 0
    BY <1>b
<1>7. h = [k \in 0..Len(primes) |-> h[k]]
      /\ \A k \in 0..Len(primes) : h[k] = IF k = 0 THEN 0 ELSE KernelStep(residues, primes, h[k - 1], k)
    BY <1>4 DEF KernelReconstructLoop
<1>8. /\ h[0] = 0
      /\ \A k \in 1..Len(primes) : h[k] = KernelStep(residues, primes, h[k - 1], k)
    BY <1>6, <1>7
<1>9. \A k \in 1..Len(primes) : h[k - 1] \in Nat => h[k] = f[<<h[k - 1], k>>]
    BY <1>1, <1>8
<1>10. Follows(Nat, 0, f, Len(primes), h)
    BY <1>7, <1>8, <1>9, Zenon DEF Follows
<1>11. h \in [0..Len(primes) -> Nat]
    BY <1>2, <1>10, RunsStay
<1>q. QED
    BY <1>5, <1>8, <1>11

\* What the kernel's reconstruction returns while its numbers fit a word.
LEMMA KernelReconstructIs ==
    ASSUME NEW primes, PrimeList(primes), Fits(primes), NEW residues, Residues(residues, primes),
           NEW x \in Int, \A j \in 1..Len(primes) : Divides(primes[j], residues[j] - x)
    PROVE  KernelReconstruct(residues, primes) = x % ProductOf(primes)
<1> DEFINE n == Len(primes)
           M == ProductOf(primes)
           terms == [k \in 1..n |-> KernelTerm(residues, primes, M, k)]
<1>1. PICK u \in [0..n -> Nat] :
              /\ u[0] = 0 /\ KernelReconstruct(residues, primes) = u[n]
              /\ \A k \in 1..n : u[k] = KernelStep(residues, primes, u[k - 1], k)
    BY KernelReconstructTrace
<1>2. /\ terms \in [1..n -> Int]
      /\ \A j, k \in 1..n : Divides(primes[j], terms[k] - (IF j = k THEN residues[j] ELSE 0))
    <2>1. \A k \in 1..n : KernelTerm(residues, primes, M, k) \in Int
        BY KernelTermIs
    <2>2. \A j, k \in 1..n :
             Divides(primes[j], KernelTerm(residues, primes, M, k) - (IF j = k THEN residues[j] ELSE 0))
        BY KernelTermIs
    <2>q. QED
        BY <2>1, <2>2
<1>3. n \in Nat /\ M \in Nat /\ M > 0
    BY PrimeAt, ProductIn
<1>4. ASSUME NEW k \in 1..n PROVE u[k] = (u[k - 1] + terms[k]) % M
    <2>1. k - 1 \in 0..n /\ u[k - 1] \in Nat
        BY <1>1, <1>3
    <2>2. u[k - 1] < M
        <3>1. CASE k = 1
            <4>1. u[k - 1] = 0
                BY <1>1, <3>1
            <4>q. QED
                BY <1>3, <4>1
        <3>2. CASE k # 1
            <4>1. k - 1 \in 1..n /\ (k - 1) - 1 \in 0..n
                BY <1>3, <3>2
            <4>2. u[k - 1] = KernelStep(residues, primes, u[(k - 1) - 1], k - 1) /\ u[(k - 1) - 1] \in Nat
                BY <1>1, <4>1
            <4>q. QED
                BY <4>1, <4>2, KernelStepIn
        <3>q. QED
            BY <3>1, <3>2
    <2>3. u[k] = KernelStep(residues, primes, u[k - 1], k)
        BY <1>1
    <2>4. KernelStep(residues, primes, u[k - 1], k)
             = (u[k - 1] + KernelTerm(residues, primes, M, k)) % M
        BY <2>1, <2>2, KernelStepIn
    <2>q. QED
        BY <2>3, <2>4
<1>5. residues \in [1..n -> Nat]
    BY DEF Residues
<1> HIDE DEF terms
<1>6. Summed(primes, residues, terms, u)
    BY <1>1, <1>4 DEF Summed
<1>7. u[n] = x % ProductOf(primes)
    BY <1>2, <1>5, <1>6, Reconstructs
<1>q. QED
    BY <1>1, <1>7

-----------------------------------------------------------------------------
\* The primes of a decomposition are those of each of its beginnings.
LEMMA PrimePrefix ==
    ASSUME NEW primes, PrimeList(primes), NEW k \in 1..Len(primes)
    PROVE  PrimeList(SubSeq(primes, 1, k))
<1> DEFINE q == SubSeq(primes, 1, k)
<1>1. primes \in Seq(Nat) /\ Len(primes) \in Nat
    BY PrimeAt DEF PrimeList
<1>2. q \in Seq(Nat) /\ Len(q) = k /\ \A i \in 1..k : q[i] = primes[i]
    BY <1>1
<1>3. \A i \in 1..k : i \in 1..Len(primes)
    BY <1>1
<1> HIDE DEF q
<1>4. \A i \in 1..k : IsPrime(primes[i])
    BY <1>3, PrimeAt
<1>5. \A i, j \in 1..k : primes[i] = primes[j] => i = j
    BY <1>3 DEF PrimeList
<1>6. PrimeList(q)
    BY <1>2, <1>4, <1>5 DEF PrimeList
<1>q. QED
    BY <1>6 DEF q

\* A number leaves its residues.
LEMMA DecomposeIs ==
    ASSUME NEW primes, PrimeList(primes), NEW x \in Nat
    PROVE  /\ Residues(Decompose(x, primes), primes)
           /\ \A j \in 1..Len(primes) : Divides(primes[j], Decompose(x, primes)[j] - x)
<1>1. primes \in Seq(Nat) /\ DOMAIN primes = 1..Len(primes)
    BY DEF PrimeList
<1>2. ASSUME NEW j \in 1..Len(primes)
      PROVE  x % primes[j] \in Nat /\ Divides(primes[j], (x % primes[j]) - x)
    <2> DEFINE p == primes[j]
               r == x % p
    <2>1. p \in Nat /\ p > 0 /\ p \in Int /\ x \in Int
        BY PrimeAt
    <2> HIDE DEF p
    <2>2. r \in Nat /\ Divides(p, x - r)
        BY <2>1, ModRange
    <2> HIDE DEF r
    <2>3. x - r \in Int /\ 0 \in Int /\ Divides(p, 0) /\ 0 - (x - r) = r - x
        BY <2>1, <2>2, DividesEdges
    <2>4. Divides(p, 0 - (x - r))
        BY <2>1, <2>2, <2>3, DividesSum, Zenon
    <2>5. Divides(p, r - x)
        BY <2>3, <2>4
    <2>q. QED
        BY <2>2, <2>5 DEF r, p
<1>q. QED
    BY <1>1, <1>2 DEF Decompose, Residues

\* Their sums and products are residues of the sum and of the product.
LEMMA CrtAddIs ==
    ASSUME NEW primes, PrimeList(primes), NEW x \in Nat, NEW y \in Nat
    PROVE  /\ Residues(CrtAdd(Decompose(x, primes), Decompose(y, primes), primes), primes)
           /\ \A j \in 1..Len(primes) :
                Divides(primes[j],
                        CrtAdd(Decompose(x, primes), Decompose(y, primes), primes)[j] - (x + y))
<1> DEFINE a == Decompose(x, primes)
           b == Decompose(y, primes)
<1>1. DOMAIN primes = 1..Len(primes)
    BY DEF PrimeList
<1>2. /\ a \in [1..Len(primes) -> Nat] /\ b \in [1..Len(primes) -> Nat]
      /\ \A j \in 1..Len(primes) : Divides(primes[j], a[j] - x) /\ Divides(primes[j], b[j] - y)
    BY DecomposeIs DEF Residues
<1> HIDE DEF a, b
<1>3. ASSUME NEW j \in 1..Len(primes)
      PROVE  /\ (a[j] + b[j]) % primes[j] \in Nat
             /\ Divides(primes[j], ((a[j] + b[j]) % primes[j]) - (x + y))
    <2> DEFINE p == primes[j]
               u == a[j] + b[j]
               r == u % p
               A == a[j] - x
               B == b[j] - y
               z == u - r
    <2>1. p \in Nat /\ p > 0 /\ p \in Int
        BY PrimeAt
    <2>2. u \in Nat /\ u \in Int /\ A \in Int /\ B \in Int /\ A + B = u - (x + y)
        BY <1>2
    <2>3. Divides(p, A) /\ Divides(p, B)
        BY <1>2
    <2> HIDE DEF p, u, A, B
    <2>4. r \in Nat /\ Divides(p, z)
        BY <2>1, <2>2, ModRange
    <2>5. A + B \in Int /\ z \in Int /\ (A + B) - z = r - (x + y)
        <3> HIDE DEF r
        <3>q. QED
            BY <2>2, <2>4
    <2> HIDE DEF r, z
    <2>6. Divides(p, A + B)
        BY <2>1, <2>2, <2>3, DividesSum, Zenon
    <2>7. Divides(p, (A + B) - z)
        BY <2>1, <2>4, <2>5, <2>6, DividesSum, Zenon
    <2>8. Divides(p, r - (x + y))
        BY <2>5, <2>7
    <2>q. QED
        BY <2>4, <2>8 DEF r, u, p
<1>4. CrtAdd(a, b, primes) = [j \in 1..Len(primes) |-> (a[j] + b[j]) % primes[j]]
    BY <1>1 DEF CrtAdd
<1>5. /\ Residues(CrtAdd(a, b, primes), primes)
      /\ \A j \in 1..Len(primes) : Divides(primes[j], CrtAdd(a, b, primes)[j] - (x + y))
    BY <1>3, <1>4 DEF Residues
<1>q. QED
    BY <1>5 DEF a, b

\* The same for products.
LEMMA CrtMulIs ==
    ASSUME NEW primes, PrimeList(primes), NEW x \in Nat, NEW y \in Nat
    PROVE  /\ Residues(CrtMul(Decompose(x, primes), Decompose(y, primes), primes), primes)
           /\ \A j \in 1..Len(primes) :
                Divides(primes[j],
                        CrtMul(Decompose(x, primes), Decompose(y, primes), primes)[j] - x * y)
<1> DEFINE a == Decompose(x, primes)
           b == Decompose(y, primes)
<1>1. DOMAIN primes = 1..Len(primes)
    BY DEF PrimeList
<1>2. /\ a \in [1..Len(primes) -> Nat] /\ b \in [1..Len(primes) -> Nat]
      /\ \A j \in 1..Len(primes) : Divides(primes[j], a[j] - x) /\ Divides(primes[j], b[j] - y)
    BY DecomposeIs DEF Residues
<1> HIDE DEF a, b
<1>3. ASSUME NEW j \in 1..Len(primes)
      PROVE  /\ (a[j] * b[j]) % primes[j] \in Nat
             /\ Divides(primes[j], ((a[j] * b[j]) % primes[j]) - x * y)
    <2> DEFINE p == primes[j]
               u == a[j]
               v == b[j]
               uv == u * v
    <2>1. p \in Nat /\ p > 0
        BY PrimeAt
    <2>2. u \in Nat /\ v \in Nat /\ u \in Int /\ v \in Int /\ x \in Int /\ y \in Int
        BY <1>2
    <2>3. Divides(p, u - x) /\ Divides(p, v - y)
        BY <1>2
    <2> HIDE DEF p, u, v
    <2>4. uv \in Int
        BY <2>2
    <2>5. uv % p \in Nat
        <3> HIDE DEF uv
        <3>q. QED
            BY <2>1, <2>4, ModRange
    <2>6. Divides(p, (uv % p) - x * y)
        BY <2>1, <2>2, <2>3, CongruentProduct, Zenon
    <2>q. QED
        BY <2>5, <2>6 DEF u, v, p
<1>4. CrtMul(a, b, primes) = [j \in 1..Len(primes) |-> (a[j] * b[j]) % primes[j]]
    BY <1>1 DEF CrtMul
<1>5. /\ Residues(CrtMul(a, b, primes), primes)
      /\ \A j \in 1..Len(primes) : Divides(primes[j], CrtMul(a, b, primes)[j] - x * y)
    BY <1>3, <1>4 DEF Residues
<1>q. QED
    BY <1>5 DEF a, b

\* So every beginning of the list of primes computes exactly.
LEMMA CrtHolds ==
    ASSUME PrimeList(CrtPrimes), KernelWord \in Nat,
           \A s \in sample : s.x \in Nat /\ s.y \in Nat
    PROVE  CrtExact
<1> SUFFICES ASSUME NEW s \in sample, NEW k \in DOMAIN CrtPrimes
             PROVE  LET primes == SubSeq(CrtPrimes, 1, k)
                        a == Decompose(s.x, primes)
                        b == Decompose(s.y, primes)
                    IN  /\ Reconstruct(CrtAdd(a, b, primes), primes)
                               = (s.x + s.y) % ProductOf(primes)
                        /\ Reconstruct(CrtMul(a, b, primes), primes)
                               = (s.x * s.y) % ProductOf(primes)
                        /\ 2 * ProductOf(primes) <= KernelWord =>
                               KernelReconstruct(a, primes) = s.x % ProductOf(primes)
    BY DEF CrtExact
<1> DEFINE primes == SubSeq(CrtPrimes, 1, k)
           x == s.x
           y == s.y
           a == Decompose(x, primes)
           b == Decompose(y, primes)
<1>1. PrimeList(primes)
    <2>1. k \in 1..Len(CrtPrimes)
        BY DEF PrimeList
    <2>q. QED
        BY <2>1, PrimePrefix
<1>2. x \in Nat /\ y \in Nat
    OBVIOUS
<1> HIDE DEF primes, x, y
<1>3. Reconstruct(CrtAdd(a, b, primes), primes) = (x + y) % ProductOf(primes)
    <2>1. x + y \in Int
        BY <1>2
    <2>2. /\ Residues(CrtAdd(a, b, primes), primes)
          /\ \A j \in 1..Len(primes) : Divides(primes[j], CrtAdd(a, b, primes)[j] - (x + y))
        BY <1>1, <1>2, CrtAddIs
    <2> HIDE DEF a, b
    <2>q. QED
        BY <1>1, <2>1, <2>2, ReconstructIs
<1>4. Reconstruct(CrtMul(a, b, primes), primes) = (x * y) % ProductOf(primes)
    <2> DEFINE xy == x * y
    <2>1. xy \in Int
        BY <1>2
    <2>2. /\ Residues(CrtMul(a, b, primes), primes)
          /\ \A j \in 1..Len(primes) : Divides(primes[j], CrtMul(a, b, primes)[j] - xy)
        BY <1>1, <1>2, CrtMulIs
    <2> HIDE DEF a, b, xy
    <2>3. Reconstruct(CrtMul(a, b, primes), primes) = xy % ProductOf(primes)
        BY <1>1, <2>1, <2>2, ReconstructIs
    <2>q. QED
        BY <2>3 DEF xy
<1>5. ASSUME 2 * ProductOf(primes) <= KernelWord
      PROVE  KernelReconstruct(a, primes) = x % ProductOf(primes)
    <2>1. x \in Int /\ Fits(primes)
        BY <1>2, <1>5 DEF Fits
    <2>2. /\ Residues(a, primes)
          /\ \A j \in 1..Len(primes) : Divides(primes[j], a[j] - x)
        BY <1>1, <1>2, DecomposeIs
    <2> HIDE DEF a
    <2>q. QED
        BY <1>1, <2>1, <2>2, KernelReconstructIs
<1>q. QED
    BY <1>3, <1>4, <1>5 DEF primes, x, y

-----------------------------------------------------------------------------
\* A number that no smaller one divides is a prime.
LEMMA TrialPrime ==
    ASSUME NEW p \in Nat, p > 1, \A d \in 2..(p - 1) : p % d # 0
    PROVE  IsPrime(p)
<1> SUFFICES ASSUME NEW d \in Nat, Divides(d, p), d # 1, d # p PROVE FALSE
    BY DEF IsPrime
<1>1. 1 <= d /\ d <= p
    BY DividesBound
<1>2. d \in 2..(p - 1) /\ d > 0
    BY <1>1
<1>3. p % d = 0
    BY <1>2, ModZero
<1>q. QED
    BY <1>2, <1>3

\* The primes of the crate are a list of primes.
LEMMA CrtPrimesAre == PrimeList(CrtPrimes) /\ KernelWord \in Nat
<1>1. CrtPrimes \in Seq(Nat) /\ DOMAIN CrtPrimes = 1..Len(CrtPrimes)
    BY PrimesAssumption
<1>2. ASSUME NEW i \in 1..Len(CrtPrimes) PROVE IsPrime(CrtPrimes[i])
    <2>1. /\ CrtPrimes[i] \in Nat /\ CrtPrimes[i] > 1
          /\ \A d \in 2..(CrtPrimes[i] - 1) : CrtPrimes[i] % d # 0
        BY <1>1, PrimesAssumption
    <2>q. QED
        BY <2>1, TrialPrime
<1>3. \A i, j \in 1..Len(CrtPrimes) : CrtPrimes[i] = CrtPrimes[j] => i = j
    BY <1>1, PrimesAssumption
<1>q. QED
    BY <1>1, <1>2, <1>3, PrimesAssumption DEF PrimeList

-----------------------------------------------------------------------------
\* What is computed with stays what it was, and every block has a shape.
ArithmeticInv == sample \subseteq Samples /\ FolderInv

\* The computed sample does not change, and blocks are only added.
LEMMA ArithmeticInvariance == ArithmeticSpec => []ArithmeticInv
<1>1. ArithmeticInit => ArithmeticInv
    BY DEF ArithmeticInit, ArithmeticInv, FolderInv
<1>2. ArithmeticInv /\ [ArithmeticNext]_arithmeticVars => ArithmeticInv'
    <2> SUFFICES ASSUME ArithmeticInv, [ArithmeticNext]_arithmeticVars PROVE ArithmeticInv'
        OBVIOUS
    <2>1. FolderInv'
        BY FolderStep, ShapesAssumption DEF ArithmeticInv
    <2>2. sample' = sample
        BY DEF ArithmeticNext, AllocateTensor, arithmeticVars
    <2>q. QED
        BY <2>1, <2>2 DEF ArithmeticInv
<1>q. QED
    BY <1>1, <1>2, PTL DEF ArithmeticSpec

\* The invariant is enough for each part of the property: the field,
LEMMA InvField == ArithmeticInv => FieldExact
BY FieldHolds, SamplesAssumption DEF ArithmeticInv, Words

\* the folds,
LEMMA InvFolds == ArithmeticInv => FoldExact
BY FolderFolds, ShapesAssumption DEF ArithmeticInv

\* and the residues.
LEMMA InvCrt == ArithmeticInv => CrtExact
BY CrtHolds, CrtPrimesAre, SamplesAssumption DEF ArithmeticInv

\* Whatever elements of the field a program computes with, the multiplications of the
\* TCAM and of QAGML agree and compression is additive and takes only zero to zero.
THEOREM FieldAlwaysExact == ArithmeticSpec => []FieldExact
BY ArithmeticInvariance, InvField, PTL

\* However many tensors are allocated and whatever their shapes and the sizes of the
\* caches, folding one copies each cell into exactly one block, and every block fits.
THEOREM FoldsAlwaysExact == ArithmeticSpec => []FoldExact
BY ArithmeticInvariance, InvFolds, PTL

\* Whatever the primes of a decomposition and the numbers, sums and products computed
\* residue by residue come back as the sum and the product, and the kernel's own
\* reconstruction gives the number while twice the product of the primes fits its word.
THEOREM CrtAlwaysExact == ArithmeticSpec => []CrtExact
BY ArithmeticInvariance, InvCrt, PTL

\* The arithmetic of the crates and of the kernel is exact, for all of these.
THEOREM ArithmeticAlwaysExact == ArithmeticSpec => []ArithmeticExact
<1>1. ArithmeticInv => ArithmeticExact
    BY InvField, InvFolds, InvCrt DEF ArithmeticExact
<1>q. QED
    BY <1>1, ArithmeticInvariance, PTL
=============================================================================
