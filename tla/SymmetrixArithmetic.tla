------------------------ MODULE SymmetrixArithmetic ------------------------
(***************************************************************************)
(* The exact arithmetic the program is built on: prime fields and the      *)
(* Chinese remainder theorem (crates/symmetrix-galois and the kernel's     *)
(* symmetrix-galois.c), GF(2^32) in its three versions (uao-qtcam phase1,  *)
(* QANBAN and QAGML), and the tensors of crates/symmetrix-tensor.  A number*)
(* of GF(2^32) is the set of its bits, so that addition is SymDiff.        *)
(***************************************************************************)
EXTENDS Integers, Sequences, FiniteSetsExt, SequencesExt

CONSTANTS CrtPrimes,    \* the primes of a decomposition, in their order
          FieldPrime,   \* the modulus of zero() and one(), 2^61 - 1
          KernelWord,   \* 2^64 of the kernel's products
          CacheSizes,   \* the sizes of L1, L2 and L3, in elements
          Shapes,       \* the dimensions tensors are asked for
          Samples,      \* numbers x, y and elements a, b of GF(2^32) to compute with
          MaxTensors    \* bound on the tensors allocated

VARIABLES sample,       \* what is computed with: one of Samples, or nothing
          folder        \* TensorFolder: its blocks and their bytes, by level
arithmeticVars == <<sample, folder>>

NoValue == -1

\* CRT_PRIMES are different primes; elements have 32 bits; no cache is empty.
ASSUME PrimesAssumption ==
    /\ CrtPrimes \in Seq(Nat) /\ KernelWord \in Nat
    /\ \A i \in DOMAIN CrtPrimes :
          CrtPrimes[i] > 1 /\ \A d \in 2..(CrtPrimes[i] - 1) : CrtPrimes[i] % d # 0
    /\ \A i, j \in DOMAIN CrtPrimes : CrtPrimes[i] = CrtPrimes[j] => i = j
ASSUME SamplesAssumption ==
    \A s \in Samples : s.x \in Nat /\ s.y \in Nat /\ s.a \subseteq 0..31 /\ s.b \subseteq 0..31
ASSUME ShapesAssumption ==
    /\ \A dims \in Shapes : dims \in Nat \X Nat
    /\ \A i \in 1..3 : CacheSizes[i] \in Nat \ {0}
-----------------------------------------------------------------------------
\* GF(p).
\* A loop is the function of what its variables are after n of its steps; one that ends
\* takes as many steps as it may need, the last ones idle.
EuclidStep(st) ==
    LET quotient == st.old_r \div st.r
    IN  [old_r |-> st.r, r |-> st.old_r - quotient * st.r,
         old_s |-> st.s, s |-> st.old_s - quotient * st.s]
Euclid(v, m) ==
    LET st[n \in 0..v] ==
            IF n = 0 THEN [old_r |-> m, r |-> v, old_s |-> 0, s |-> 1]
            ELSE LET before == st[n - 1]
                 IN  IF before.r = 0 THEN before ELSE EuclidStep(before)
    IN  st[v]

ModInverse_KeepSign(v, m) ==       \* slip: a negative coefficient is not a number
    LET e == Euclid(v, m)
    IN  IF v = 0 \/ e.old_r > 1 THEN NoValue ELSE IF e.old_s < 0 THEN 0 ELSE e.old_s
ModInverse(v, m) ==
    LET e == Euclid(v, m)
    IN  IF v = 0 \/ e.old_r > 1 THEN NoValue
        ELSE IF e.old_s < 0 THEN e.old_s + m ELSE e.old_s

PowerStep(st, m) ==
    [result |-> IF st.exp % 2 = 1 THEN (st.result * st.base) % m ELSE st.result,
     base |-> (st.base * st.base) % m, exp |-> st.exp \div 2]
Power(base, exp, m) ==
    LET st[n \in 0..exp] ==
            IF n = 0 THEN [result |-> 1 % m, base |-> base, exp |-> exp]
            ELSE LET before == st[n - 1]
                 IN  IF before.exp = 0 THEN before ELSE PowerStep(before, m)
    IN  st[exp].result

\* The two matrix products, for one row and one column: the engine's sum starts
\* from zero(), so that it is reduced by 2^61 - 1 whatever the field.
Entry(row, column, p) ==
    FoldLeftDomain(LAMBDA sum, k : (sum + ((row[k] * column[k]) % p)) % FieldPrime, 0, row)
KernelEntry(row, column, p) ==
    FoldLeftDomain(LAMBDA sum, k : (sum + ((row[k] * column[k]) % p)) % p, 0, row)

ProductOf(primes) ==
    LET product[n \in 0..Len(primes)] ==
            IF n = 0 THEN 1 ELSE product[n - 1] * primes[n]
    IN  product[Len(primes)]
Decompose(value, primes) == [i \in DOMAIN primes |-> value % primes[i]]

Term(residues, primes, product, i) ==
    LET m_i == product \div primes[i]
    IN  residues[i] * m_i * ModInverse(m_i % primes[i], primes[i])
Reconstruct(residues, primes) ==
    LET product == ProductOf(primes)
        sum[n \in 0..Len(primes)] ==
            IF n = 0 THEN 0 ELSE (sum[n - 1] + Term(residues, primes, product, n)) % product
    IN  sum[Len(primes)]

\* The kernel's keeps the product of the primes and the sum in 64 bits.
KernelProduct(primes) ==
    LET product[n \in 0..Len(primes)] ==
            IF n = 0 THEN 1 ELSE (product[n - 1] * primes[n]) % KernelWord
    IN  product[Len(primes)]
KernelTerm(residues, primes, product, i) ==
    LET m_i == product \div primes[i]
    IN  (((residues[i] * m_i) % product)
            * Power(m_i % primes[i], primes[i] - 2, primes[i])) % product
KernelReconstruct(residues, primes) ==
    LET product == KernelProduct(primes)
        sum[n \in 0..Len(primes)] ==
            IF n = 0 THEN 0
            ELSE ((sum[n - 1] + KernelTerm(residues, primes, product, n)) % KernelWord) % product
    IN  sum[Len(primes)]

CrtAdd(a, b, primes) == [i \in DOMAIN primes |-> (a[i] + b[i]) % primes[i]]
CrtMul(a, b, primes) == [i \in DOMAIN primes |-> (a[i] * b[i]) % primes[i]]
-----------------------------------------------------------------------------
\* GF(2^32).  QANBAN writes its polynomial in 32 bits, which leaves its own
\* leading bit at 31: a reduction step does not clear the bit it looks at.
Low32(bits) == bits \cap 0..31
Shift(bits, n) == {b + n : b \in bits}
Polynomial == {32, 7, 3, 2, 0}
QanbanPolynomial == {31, 7, 3, 2, 0}

Times(a, b) ==
    LET v[n \in 0..32] ==
            IF n = 0 THEN {}
            ELSE IF n - 1 \in b THEN SymDiff(v[n - 1], Shift(a, n - 1)) ELSE v[n - 1]
    IN  v[32]
ReduceStep(v, i, poly) == IF i \in v THEN SymDiff(v, Shift(poly, i - 32)) ELSE v
Reduce(bits, poly) ==
    LET v[n \in 0..32] == IF n = 0 THEN bits ELSE ReduceStep(v[n - 1], 64 - n, poly)
    IN  Low32(v[32])
GfMul(a, b, poly) == Reduce(Times(a, b), poly)

\* QAGML's shifts one operand and reduces it as it goes.
ShiftReduced(a) ==
    LET up == Shift(a, 1) IN IF 32 \in up THEN SymDiff(up, Polynomial) ELSE up
QagmlMul(a, b) ==
    LET st[n \in 0..32] ==
            IF n = 0 THEN [sum |-> {}, a |-> a]
            ELSE LET before == st[n - 1]
                 IN  [sum |-> IF n - 1 \in b THEN SymDiff(before.sum, before.a) ELSE before.sum,
                      a   |-> ShiftReduced(before.a)]
    IN  st[32].sum

\* pow with an exponent given by its bits, and the Frobenius map.
GfPow(a, exp, poly) ==
    LET st[n \in 0..(Max(exp) + 1)] ==
            IF n = 0 THEN [result |-> {0}, base |-> a]
            ELSE LET before == st[n - 1]
                 IN  [before EXCEPT
                        !.result = IF n - 1 \in exp THEN GfMul(@, before.base, poly) ELSE @,
                        !.base = GfMul(@, @, poly)]
    IN  st[Max(exp) + 1].result
Frobenius(a, k) == GfPow(a, {k}, Polynomial)
CompressPrefix(addr) == Frobenius(addr, 5)

\* inv by Euclid starts from the polynomial cut to 32 bits and its division goes on
\* below the degree of the divisor; QANBAN's inverse is a power.
Degree(bits) == Max(bits)
GfDivMod(dividend, divisor) ==
    FoldLeft(LAMBDA st, i : IF i \notin st.rem THEN st
                            ELSE LET n == IF i > Degree(divisor) THEN i - Degree(divisor) ELSE 0
                                 IN  [quot |-> st.quot \union {n},
                                      rem  |-> SymDiff(st.rem, Low32(Shift(divisor, n)))],
             [quot |-> {}, rem |-> dividend], [n \in 1..32 |-> 32 - n])
GfEuclid(a, steps) ==           \* steps bounds a loop that need not end
    FoldLeft(LAMBDA st, k :
               IF st.new_r = {} THEN st
               ELSE LET d == GfDivMod(st.r, st.new_r)
                    IN  [t |-> st.new_t,
                         new_t |-> SymDiff(st.t, Low32(Times(d.quot, st.new_t))),
                         r |-> st.new_r, new_r |-> d.rem],
             [t |-> {}, new_t |-> {0}, r |-> Low32(Polynomial), new_r |-> a],
             [k \in 1..steps |-> k])
GfInverse(a, steps) ==
    LET e == GfEuclid(a, steps)
    IN  IF e.new_r # {} \/ e.r \notin {{}, {0}} THEN NoValue ELSE e.t
QanbanInverse(a) == IF a = {} THEN {} ELSE GfPow(a, 1..31, QanbanPolynomial)
QanbanEncrypt(features, key) ==
    [i \in DOMAIN features |-> GfMul(features[i], key, QanbanPolynomial)]
QanbanCompress(encrypted, key) ==
    [i \in 1..((Len(encrypted) + 1) \div 2) |->
        GfMul(SymDiff(encrypted[2 * i - 1],
                      IF 2 * i <= Len(encrypted) THEN encrypted[2 * i] ELSE {}),
              key, QanbanPolynomial)]
-----------------------------------------------------------------------------
\* Tensors.  Morton order interleaves coordinates given by their bits.
Morton2(x, y) == {2 * i : i \in x} \union {2 * i + 1 : i \in y}
Morton3(x, y, z) == {3 * i : i \in x \cap 0..20} \union {3 * i + 1 : i \in y \cap 0..20}
                      \union {3 * i + 2 : i \in z \cap 0..20}

Cells(dims) == {<<i, j>> : i \in 0..(dims[1] - 1), j \in 0..(dims[2] - 1)}
LinearIndex(dims, cell) == cell[1] * dims[2] + cell[2]

\* fold of a two-dimensional tensor: blocks as close to square as max elements
\* allow, each a set of the cells that are copied into it.
Side(max) == Max({n \in 0..max : n * n <= max})
Fold(dims, max) ==
    IF dims[1] * dims[2] <= max THEN {Cells(dims)}
    ELSE {{c \in Cells(dims) : /\ c[1] \in row..(row + Side(max) - 1)
                               /\ c[2] \in col..(col + Side(max) - 1)} :
             row \in {Side(max) * n : n \in 0..((dims[1] - 1) \div Side(max))},
             col \in {Side(max) * n : n \in 0..((dims[2] - 1) \div Side(max))}}

Levels == <<"L1", "L2", "L3">>
LevelOf(size) == LET fits == {i \in 1..3 : size <= CacheSizes[i]}
                 IN  IF fits = {} THEN "Memory" ELSE Levels[Min(fits)]

\* allocate_tensor: the guard of active_blocks is held to the end.  Nothing ever
\* removes a block.
AllocateTensor(dims) ==
    LET size == dims[1] * dims[2] IN
    /\ size > 0 /\ Len(folder.blocks) < MaxTensors
    /\ folder' = [blocks |-> Append(folder.blocks, <<LevelOf(size), dims>>),
                  usage  |-> [folder.usage EXCEPT ![LevelOf(size)] = @ + size]]
    /\ UNCHANGED sample

ArithmeticInit ==
    /\ sample \in {{}} \cup {{s} : s \in Samples}
    /\ folder = [blocks |-> <<>>, usage |-> [l \in ToSet(Levels) \union {"Memory"} |-> 0]]
ArithmeticNext == \E dims \in Shapes : AllocateTensor(dims)
-----------------------------------------------------------------------------
\* Sums and products computed residue by residue come back as the sum and the
\* product, for any number of primes, and the kernel's reconstruction agrees while the
\* product of its primes fits a word; beyond two primes it wraps.
CrtExact ==
    \A s \in sample : \A k \in DOMAIN CrtPrimes :
        LET primes == SubSeq(CrtPrimes, 1, k)
            a == Decompose(s.x, primes)
            b == Decompose(s.y, primes)
        IN  /\ Reconstruct(CrtAdd(a, b, primes), primes)
                   = (s.x + s.y) % ProductOf(primes)
            /\ Reconstruct(CrtMul(a, b, primes), primes)
                   = (s.x * s.y) % ProductOf(primes)
            /\ 2 * ProductOf(primes) <= KernelWord =>
                   KernelReconstruct(a, primes) = s.x % ProductOf(primes)

\* The multiplications of the TCAM and of QAGML are the same one although one reduces
\* at the end and the other at every shift, and compression maps addresses additively
\* with nothing but zero going to zero, so that no two addresses are compressed alike.
FieldExact ==
    \A s \in sample :
        /\ GfMul(s.a, s.b, Polynomial) = QagmlMul(s.a, s.b)
        /\ CompressPrefix(s.a) = {} <=> s.a = {}
        /\ CompressPrefix(SymDiff(s.a, s.b)) = SymDiff(CompressPrefix(s.a), CompressPrefix(s.b))

\* Folding a tensor for a smaller cache copies each of its cells into exactly one
\* block, and no block is larger than the cache it is folded for.
FoldExact ==
    \A n \in DOMAIN folder.blocks : \A i \in 1..3 :
        LET dims   == folder.blocks[n][2]
            blocks == Fold(dims, CacheSizes[i])
        IN  /\ UNION blocks = Cells(dims)
            /\ \A b, c \in blocks : b = c \/ b \cap c = {}
            /\ \A b \in blocks : Cardinality(b) <= CacheSizes[i]

ArithmeticExact == CrtExact /\ FieldExact /\ FoldExact
=============================================================================
