----------------------------- MODULE CacheProofs ----------------------------
(***************************************************************************)
(* Proofs about the UAO-QTCAM cache, for every number of threads, keys and *)
(* operations and every width of usize.                                    *)
(*                                                                         *)
(* That current_size is the number of bytes stored is not inductive: while *)
(* a GET that found an expired entry, or a DELETE, is between the map and  *)
(* the size, the entry it took out is still counted (Accounted).  No other *)
(* thread is in such a section then (LockExclusion), and the difference    *)
(* survives the wrapping arithmetic of usize.                              *)
(*                                                                         *)
(* How far the limit can be overshot needs more.  A SET that has read the  *)
(* size has a claim on the bytes that it will add, less those that it will *)
(* free.  No claim exceeds one entry (EntriesFit); what is stored and what *)
(* is claimed stay within the bound together (ClaimsFit).  The size that   *)
(* the checks read wraps at no time if the callers store less than usize   *)
(* counts (SizeFits, NoOverflow).                                          *)
(***************************************************************************)
EXTENDS UaoQtcamCache, Sums, SequenceTheorems

-----------------------------------------------------------------------------
\* Arithmetic modulo the width of usize: a reduction done early is not seen later.
LEMMA ModParts ==
    ASSUME NEW n \in Nat \ {0}, NEW a \in Int
    PROVE  a = n * (a \div n) + (a % n) /\ a % n \in 0..(n - 1) /\ a \div n \in Int
  OBVIOUS

\* A number below n is its own remainder, whatever multiple of n is added.
LEMMA ModIs ==
    ASSUME NEW n \in Nat \ {0}, NEW q \in Int, NEW r \in 0..(n - 1)
    PROVE  (n * q + r) % n = r
  <1>1. /\ n * q + r = n * ((n * q + r) \div n) + ((n * q + r) % n)
        /\ (n * q + r) % n \in 0..(n - 1) /\ (n * q + r) \div n \in Int
    OBVIOUS
  <1> QED
    BY <1>1

\* A multiple of n does not change a remainder.
LEMMA ModShift ==
    ASSUME NEW n \in Nat \ {0}, NEW a \in Int, NEW q \in Int
    PROVE  (a + n * q) % n = a % n
  <1>1. PICK d \in Int, r \in 0..(n - 1) : a = n * d + r /\ r = a % n
    BY ModParts
  <1>2. n * d + r + n * q = n * (d + q) + r
    OBVIOUS
  <1>3. (n * (d + q) + r) % n = r
    <2> d + q \in Int
      OBVIOUS
    <2> QED
      BY ModIs
  <1> QED
    BY <1>1, <1>2, <1>3

\* A sum or a difference may be reduced before it is formed.
LEMMA ModAdd ==
    ASSUME NEW n \in Nat \ {0}, NEW a \in Int, NEW b \in Int
    PROVE  ((a % n) + b) % n = (a + b) % n /\ ((a % n) - b) % n = (a - b) % n
  <1>1. PICK d \in Int, r \in 0..(n - 1) : a = n * d + r /\ r = a % n
    BY ModParts
  <1>2. a + b = (r + b) + n * d /\ a - b = (r - b) + n * d
    <2>1. \A m \in Int : a = m + r => a + b = (r + b) + m /\ a - b = (r - b) + m
      OBVIOUS
    <2>2. n * d \in Int /\ a = n * d + r
      BY <1>1
    <2> QED
      BY <2>1, <2>2
  <1>3. ((r + b) + n * d) % n = (r + b) % n /\ ((r - b) + n * d) % n = (r - b) % n
    <2> r + b \in Int /\ r - b \in Int
      OBVIOUS
    <2> QED
      BY ModShift
  <1> QED
    BY <1>1, <1>2, <1>3

-----------------------------------------------------------------------------
\* The lengths of what the codec and the conversions produce.
LEMMA LenOf ==
    ASSUME NEW n \in Nat, NEW g, g = [i \in 1..n |-> g[i]]
    PROVE  Len(g) = n
  <1> DEFINE S == {g[i] : i \in 1..n}
  <1>1. g \in [1..n -> S]
    OBVIOUS
  <1>2. g \in Seq(S)
    BY <1>1, SeqDef
  <1>3. Len(g) \in Nat /\ DOMAIN g = 1..Len(g)
    BY <1>2, LenProperties
  <1>4. 1..n = 1..Len(g)
    BY <1>1, <1>3
  <1> QED
    BY <1>3, <1>4

\* A length has a number of samples.
LEMMA SampleCountType == ASSUME NEW len \in Nat PROVE SampleCount(len) \in Nat
  <1>1. target_size(len) \in Nat \ {0}
    BY RatioAssumption DEF target_size, AtLeast1
  <1>2. sample_rate(len) \in Nat \ {0}
    BY <1>1 DEF sample_rate, AtLeast1
  <1>3. \A r \in Nat \ {0} : (len + r - 1) \div r \in Nat
    OBVIOUS
  <1> QED
    BY <1>2, <1>3 DEF SampleCount

\* What is compressed has a length.
LEMMA CompressedType ==
    ASSUME NEW data, Len(data) \in Nat PROVE Len(compress(data)) \in Nat
  <1> DEFINE g == compress(data)
  <1>1. SampleCount(Len(data)) \in Nat
    BY SampleCountType
  <1>2. g = [i \in 1..SampleCount(Len(data)) |-> g[i]]
    BY DEF compress
  <1> HIDE DEF g
  <1> QED
    BY <1>1, <1>2, LenOf

\* The text of a counter has a length.
LEMMA TextType == \A n : Len(to_string(n)) \in Nat
  <1> TAKE n
  <1> DEFINE width == 1 + Cardinality({k \in 1..5 : n >= 10^k})
             g == to_string(n)
  <1>1. width \in Nat
    <2> DEFINE powers == {k \in 1..5 : n >= 10^k}
    <2>1. powers \subseteq 1..5
      BY Zenon
    <2>2. width = 1 + Cardinality(powers)
      BY Zenon
    <2> HIDE DEF powers, width
    <2>3. Cardinality(powers) \in Nat
      <3>1. 1 \in Int /\ 5 \in Int
        OBVIOUS
      <3> QED
        BY <2>1, <3>1, FS_Interval, FS_Subset, FS_CardinalityType
    <2> QED
      BY <2>2, <2>3
  <1>2. g = [i \in 1..width |-> g[i]]
    BY DEF to_string
  <1> HIDE DEF g, width
  <1> QED
    BY <1>1, <1>2, LenOf

-----------------------------------------------------------------------------
\* What the state is made of, as far as the sizes and counters go.
EntriesTyped ==
    /\ IsFiniteSet(DOMAIN cache)
    /\ \A k \in DOMAIN cache :
          /\ {"samples", "original_size", "last_accessed", "access_count"} \subseteq DOMAIN cache[k]
          /\ Len(cache[k].samples) \in Nat

RequestTyped(r) ==
    DOMAIN r = DOMAIN NoRequest /\ Len(r.value) \in Nat /\ r.current \in Int

CallsTyped ==
    /\ pc \in [Threads -> Steps \cup {"idle"}]
    /\ DOMAIN req = Threads
    /\ \A t \in Threads : RequestTyped(req[t])

CountersTyped ==
    /\ DOMAIN stats = {"hits", "misses", "sets", "deletes", "evictions", "entry_count",
                       "compressed_bytes", "original_bytes"}
    /\ stats.hits \in Nat /\ stats.misses \in Nat
    /\ DOMAIN issued = {"get", "incr", "other"} /\ issued.get \in Nat
    /\ issued.incr \in Nat /\ issued.other \in Nat
    /\ current_size \in 0..(Usize - 1) /\ drift \in Int /\ grown \in Nat

\* The guards of two threads never conflict.
LockExclusion ==
    \A t, u \in Threads : t # u =>
        \A g \in Holds(pc[t]), h \in Holds(pc[u]) : Compatible(g, h)

\* Where a thread is that has taken an entry out of the map and not off the size.
Owing == {"get_size", "delete_size"}

Accounted ==
    /\ (\A t \in Threads : pc[t] \notin Owing) =>
           current_size = (CompressedBytes(cache) - drift) % Usize
    /\ \A t \in Threads : pc[t] \in Owing =>
           current_size = (CompressedBytes(cache) + compressed_len(req[t].value) - drift) % Usize

CacheInv == EntriesTyped /\ CallsTyped /\ CountersTyped /\ LockExclusion
            /\ Accounted /\ EveryGetCounted

-----------------------------------------------------------------------------
\* The sums over the map, when one entry is put in or rewritten, and when some are
\* taken out.
SizesTyped(map) == IsFiniteSet(DOMAIN map) /\ \A k \in DOMAIN map : size(map[k]) \in Nat

\* A map stores a number of bytes.
LEMMA BytesType == ASSUME NEW map, SizesTyped(map) PROVE CompressedBytes(map) \in Nat
  <1> DEFINE f == Sizes(map)
  <1>1. DOMAIN f = DOMAIN map /\ \A k \in DOMAIN map : f[k] \in Nat
    BY DEF SizesTyped, Sizes
  <1>2. SumFunctionOnSet(f, DOMAIN map) \in Nat
    <2> HIDE DEF f
    <2> QED
      BY <1>1, SumNat DEF SizesTyped
  <1> QED
    BY <1>1, <1>2 DEF CompressedBytes, SumFunction

\* One entry is stored, or rewritten.
LEMMA BytesPut ==
    ASSUME NEW map, NEW new, SizesTyped(map), NEW k, DOMAIN new = DOMAIN map \cup {k},
           \A x \in DOMAIN map \ {k} : size(new[x]) = size(map[x]), size(new[k]) \in Nat
    PROVE  /\ SizesTyped(new)
           /\ CompressedBytes(new) =
                 CompressedBytes(map) - (IF k \in DOMAIN map THEN size(map[k]) ELSE 0)
                                      + size(new[k])
  <1> DEFINE f == Sizes(map)
             g == Sizes(new)
             S == DOMAIN map
             R == DOMAIN map \ {k}
  <1>1. /\ DOMAIN f = S /\ \A x \in S : f[x] \in Int /\ f[x] = size(map[x])
        /\ DOMAIN g = R \cup {k} /\ \A x \in R : g[x] = f[x]
        /\ g[k] = size(new[k]) /\ g[k] \in Nat
    BY DEF SizesTyped, Sizes
  <1>2. IsFiniteSet(S) /\ IsFiniteSet(R) /\ k \notin R
    BY FS_Subset DEF SizesTyped
  <1>3. SizesTyped(new)
    <2>1. IsFiniteSet(DOMAIN new)
      BY <1>2, FS_AddElement
    <2> QED
      BY <2>1 DEF SizesTyped
  <1> HIDE DEF f, g
  <1>4. SumFunctionOnSet(g, R \cup {k}) = SumFunctionOnSet(g, R) + g[k]
    BY <1>1, <1>2, SumInsert
  <1>5. SumFunctionOnSet(g, R) = SumFunctionOnSet(f, R)
    BY <1>1, <1>2, SumAgree
  <1>6. SumFunctionOnSet(f, R) \in Int
    BY <1>1, <1>2, SumInt
  <1>7. SumFunctionOnSet(f, S) =
           SumFunctionOnSet(f, R) + (IF k \in S THEN f[k] ELSE 0)
    <2>1. CASE k \in S
      <3>1. SumFunctionOnSet(f, S) = f[k] + SumFunctionOnSet(f, S \ {k})
        BY <1>1, <1>2, <2>1, SumRemove
      <3> QED
        BY <1>1, <1>6, <2>1, <3>1
    <2>2. CASE k \notin S
      <3>1. R = S
        BY <2>2
      <3> HIDE DEF R, S
      <3> QED
        BY <1>6, <2>2, <3>1
    <2> QED
      BY <2>1, <2>2
  <1>8. CompressedBytes(new) = SumFunctionOnSet(f, R) + g[k]
    BY <1>1, <1>4, <1>5 DEF CompressedBytes, SumFunction, g
  <1>9. CompressedBytes(map) = SumFunctionOnSet(f, S)
    BY <1>1 DEF CompressedBytes, SumFunction, f
  <1>10. (IF k \in DOMAIN map THEN size(map[k]) ELSE 0) = (IF k \in S THEN f[k] ELSE 0)
    BY <1>1
  <1> QED
    BY <1>1, <1>3, <1>6, <1>7, <1>8, <1>9, <1>10

\* Some entries are taken out.
LEMMA BytesWithout ==
    ASSUME NEW map, SizesTyped(map), NEW S \in SUBSET DOMAIN map
    PROVE  /\ SizesTyped(Without(map, S))
           /\ CompressedBytes(Without(map, S)) =
                 CompressedBytes(map) - SumFunctionOnSet(Sizes(map), S)
           /\ SumFunctionOnSet(Sizes(map), S) \in Int
  <1> DEFINE f == Sizes(map)
             g == Sizes(Without(map, S))
             D == DOMAIN map
  <1>1. /\ DOMAIN f = D /\ \A x \in D : f[x] \in Int
        /\ DOMAIN g = D \ S /\ \A x \in D \ S : g[x] = f[x]
    BY DEF SizesTyped, Sizes, Without
  <1>2. IsFiniteSet(D) /\ IsFiniteSet(D \ S)
    BY FS_Subset DEF SizesTyped
  <1>3. SizesTyped(Without(map, S))
    BY <1>2 DEF SizesTyped, Without
  <1> HIDE DEF f, g
  <1>4. /\ SumFunctionOnSet(f, D) = SumFunctionOnSet(f, S) + SumFunctionOnSet(f, D \ S)
        /\ SumFunctionOnSet(f, S) \in Int /\ SumFunctionOnSet(f, D \ S) \in Int
    BY <1>1, <1>2, SumSplit
  <1>5. SumFunctionOnSet(g, D \ S) = SumFunctionOnSet(f, D \ S)
    BY <1>1, <1>2, SumAgree
  <1>6. /\ CompressedBytes(map) = SumFunctionOnSet(f, D)
        /\ CompressedBytes(Without(map, S)) = SumFunctionOnSet(g, D \ S)
    BY <1>1 DEF CompressedBytes, SumFunction, f, g
  <1> QED
    BY <1>3, <1>4, <1>5, <1>6 DEF f

\* One entry is taken out.
LEMMA BytesWithoutOne ==
    ASSUME NEW map, SizesTyped(map), NEW k \in DOMAIN map
    PROVE  /\ SizesTyped(Without(map, {k}))
           /\ CompressedBytes(Without(map, {k})) = CompressedBytes(map) - size(map[k])
  <1>1. Sizes(map)[k] = size(map[k]) /\ size(map[k]) \in Int
    BY DEF SizesTyped, Sizes
  <1>2. SumFunctionOnSet(Sizes(map), {k}) = size(map[k])
    BY <1>1, SumSingle
  <1> QED
    BY <1>2, BytesWithout

\* The entries of the cache have sizes.
LEMMA EntrySizes == EntriesTyped => SizesTyped(cache)
  BY DEF EntriesTyped, SizesTyped, size, compressed_len, HeaderSize

-----------------------------------------------------------------------------
\* The control flow: from which point to which one a step can go.
Entries == {"set_check", "get_cache", "delete_cache", "exists_cache", "incr_cache",
            "stats_stats", "clear_cache"}

Edges ==
    {<<"set_check", "set_cache">>, <<"set_check", "evict_cache">>,
     <<"evict_cache", "evict_size">>, <<"evict_size", "evict_stats">>,
     <<"evict_stats", "set_cache">>, <<"set_cache", "set_size">>,
     <<"set_size", "set_stats">>, <<"set_stats", "update_cache">>,
     <<"get_cache", "get_size">>, <<"get_cache", "get_stats">>,
     <<"get_size", "get_stats">>, <<"get_stats", "update_cache">>,
     <<"delete_cache", "delete_size">>, <<"delete_cache", "idle">>,
     <<"delete_size", "delete_stats">>, <<"delete_stats", "idle">>,
     <<"exists_cache", "idle">>, <<"incr_cache", "idle">>, <<"incr_cache", "set_check">>,
     <<"stats_stats", "update_cache">>, <<"update_cache", "update_size">>,
     <<"update_size", "idle">>, <<"clear_cache", "clear_size">>, <<"clear_size", "idle">>}

Moves(t, p, q) == At(t, p) /\ Goto(t, q)

\* An operation enters at its first control point, holding nothing.
LEMMA StartEnters ==
    ASSUME NEW t \in Threads, Start(t)
    PROVE  \E op, first, r :
              /\ Begin(t, op, first, r)
              /\ op \in Ops /\ first \in Entries /\ RequestTyped(r)
              /\ op = "get" <=> first = "get_cache"
  <1> DEFINE Enters(op, first, r) ==
                /\ Begin(t, op, first, r)
                /\ op \in Ops /\ first \in Entries /\ RequestTyped(r)
                /\ op = "get" <=> first = "get_cache"
  <1> SUFFICES \E op, first, r : Enters(op, first, r)
    BY Zenon
  <1>0. RequestTyped(NoRequest) /\ \A k : RequestTyped([NoRequest EXCEPT !.key = k])
    BY EmptySeq, LenProperties DEF RequestTyped, NoRequest
  <1>1. CASE BeginSet(t)
    <2>1. PICK k \in Keys, v \in Values, ttl \in Ttls :
             Begin(t, "set", "set_check", SetRequest(k, v, ttl))
      BY <1>1 DEF BeginSet
    <2>2. Len(compress(v)) \in Nat
      <3>1. v \in Seq(Byte)
        BY CacheAssumption
      <3> QED
        BY <3>1, LenProperties, CompressedType
    <2>3. RequestTyped(SetRequest(k, v, ttl))
      BY <2>2 DEF RequestTyped, SetRequest, NoRequest
    <2>4. Enters("set", "set_check", SetRequest(k, v, ttl))
      BY <2>1, <2>3 DEF Entries, Begin
    <2> QED
      BY <2>4, Zenon
  <1>2. CASE BeginKeyed(t)
    <2>1. PICK k \in Keys, op \in DOMAIN KeyedOps :
             Begin(t, op, KeyedOps[op], [NoRequest EXCEPT !.key = k])
      BY <1>2 DEF BeginKeyed
    <2>2. KeyedOps[op] \in Entries /\ (op = "get" <=> KeyedOps[op] = "get_cache")
      BY DEF KeyedOps, Entries
    <2> QED
      BY <1>0, <2>1, <2>2 DEF Begin
  <1>3. CASE BeginStats(t)
    <2>1. Enters("stats", "stats_stats", NoRequest)
      BY <1>0, <1>3 DEF BeginStats, Begin, Entries
    <2> QED
      BY <2>1, Zenon
  <1>4. CASE BeginClear(t)
    <2>1. Enters("clear", "clear_cache", NoRequest)
      BY <1>0, <1>4 DEF BeginClear, Begin, Entries
    <2> QED
      BY <2>1, Zenon
  <1> QED
    BY <1>1, <1>2, <1>3, <1>4 DEF Start

\* Every other step follows one edge of the control flow.
LEMMA ProceedMoves ==
    ASSUME NEW t \in Threads, Proceed(t)
    PROVE  \E e \in Edges : Moves(t, e[1], e[2])
  <1> USE DEF Edges, Moves
  <1>1. CASE SetCheck(t)
    BY <1>1 DEF SetCheck
  <1>2. CASE EvictLockCache(t) \/ EvictLockSize(t)
    BY <1>2 DEF EvictLockCache, EvictLockSize
  <1>3. CASE Evict(t)
    BY <1>3 DEF Evict
  <1>4. CASE SetLockCache(t) \/ SetStats(t)
    BY <1>4 DEF SetLockCache, SetStats
  <1>5. CASE SetInsert(t)
    BY <1>5 DEF SetInsert
  <1>6. CASE Get(t)
    BY <1>6 DEF Get
  <1>7. CASE GetExpire(t) \/ GetStats(t)
    BY <1>7 DEF GetExpire, GetStats
  <1>8. CASE Delete(t)
    BY <1>8 DEF Delete, Return
  <1>9. CASE DeleteSize(t) \/ DeleteStats(t) \/ Exists(t)
    BY <1>9 DEF DeleteSize, DeleteStats, Exists, Return
  <1>10. CASE Incr(t)
    BY <1>10 DEF Incr, Return
  <1>11. CASE StatsLock(t) \/ UpdateLockCache(t) \/ UpdateStats(t)
    BY <1>11 DEF StatsLock, UpdateLockCache, UpdateStats, Return
  <1>12. CASE ClearLockCache(t) \/ Clear(t)
    BY <1>12 DEF ClearLockCache, Clear, Return
  <1> QED
    BY <1>1, <1>2, <1>3, <1>4, <1>5, <1>6, <1>7, <1>8, <1>9, <1>10, <1>11, <1>12 DEF Proceed

\* Along an edge a thread keeps what it holds or lets it go, and gains at most the
\* lock it asked for.
LEMMA EdgesGain ==
    \A e \in Edges : /\ Holds(e[2]) \subseteq Holds(e[1]) \cup {Acquires[e[1]]}
                      /\ e[1] \in Steps /\ e[2] \in Steps \cup {"idle"}
  BY DEF Edges, Holds, Acquires, Steps, Read, Write

\* No call begins with a lock.
LEMMA EntriesHoldNothing == \A p \in Entries : Holds(p) = {} /\ p \in Steps
  BY DEF Entries, Holds, Steps, Acquires

\* Whether two guards go together does not depend on their order.
LEMMA CompatibleSymmetric == \A a, b : Compatible(a, b) => Compatible(b, a)
  BY DEF Compatible

\* The locks stay exclusive over every step.
LEMMA LocksStep ==
    ASSUME CallsTyped, LockExclusion, [Next]_vars
    PROVE  LockExclusion' /\ pc' \in [Threads -> Steps \cup {"idle"}]
  <1>1. CASE UNCHANGED pc
    BY <1>1 DEF LockExclusion, CallsTyped
  <1>2. ASSUME NEW t \in Threads, NEW q, Goto(t, q), q \in Steps \cup {"idle"},
               \A u \in Threads \ {t} : \A g \in Holds(pc[u]), h \in Holds(q) : Compatible(g, h)
        PROVE  LockExclusion' /\ pc' \in [Threads -> Steps \cup {"idle"}]
    <2>1. /\ pc' \in [Threads -> Steps \cup {"idle"}]
          /\ pc'[t] = q /\ \A u \in Threads \ {t} : pc'[u] = pc[u]
      BY <1>2 DEF CallsTyped, Goto
    <2>2. \A x, y \in Threads : x # y =>
             \A g \in Holds(pc'[x]), h \in Holds(pc'[y]) : Compatible(g, h)
      BY <1>2, <2>1, CompatibleSymmetric DEF LockExclusion
    <2> QED
      BY <2>1, <2>2 DEF LockExclusion
  <1>3. ASSUME NEW t \in Threads, Start(t) PROVE LockExclusion' /\ pc' \in [Threads -> Steps \cup {"idle"}]
    <2>1. PICK first : first \in Entries /\ Goto(t, first)
      BY <1>3, StartEnters DEF Begin
    <2> QED
      BY <1>2, <2>1, EntriesHoldNothing
  <1>4. ASSUME NEW t \in Threads, Proceed(t) PROVE LockExclusion' /\ pc' \in [Threads -> Steps \cup {"idle"}]
    <2>1. PICK e \in Edges : Moves(t, e[1], e[2])
      BY <1>4, ProceedMoves
    <2>2. \A u \in Threads \ {t} : \A g \in Holds(pc[u]), h \in Holds(e[2]) : Compatible(g, h)
      <3>1. \A u \in Threads \ {t} : \A g \in Holds(pc[u]) : Compatible(g, Acquires[e[1]])
        BY <2>1 DEF Moves, At
      <3>2. \A u \in Threads \ {t} : \A g \in Holds(pc[u]), h \in Holds(e[1]) : Compatible(g, h)
        BY <2>1 DEF Moves, At, LockExclusion
      <3> QED
        BY <3>1, <3>2, EdgesGain
    <2> QED
      BY <1>2, <2>1, <2>2, EdgesGain DEF Moves
  <1> QED
    BY <1>1, <1>3, <1>4 DEF Next, Tick, vars

-----------------------------------------------------------------------------
\* What the codec and usize arithmetic make of typed values is typed.
LEMMA UsizeType ==
    \A a, b \in Int : Add(a, b) \in 0..(Usize - 1) /\ Sub(a, b) \in 0..(Usize - 1)
  <1> TAKE a, b \in Int
  <1>1. a + b \in Int /\ a - b \in Int /\ Usize \in Nat \ {0}
    BY CacheAssumption
  <1> QED
    BY <1>1, ModParts DEF Add, Sub

\* The arithmetic of usize on a number that has been reduced.
LEMMA ReducedEarly ==
    \A a, b \in Int : /\ Add(a % Usize, b) = (a + b) % Usize
                      /\ Sub(a % Usize, b) = (a - b) % Usize
  <1> TAKE a, b \in Int
  <1>1. Usize \in Nat \ {0}
    BY CacheAssumption
  <1> QED
    BY <1>1, ModAdd DEF Add, Sub

\* The counter that an INCR stores has a length, also compressed.
LEMMA NewTexts ==
    \A n : LET text == to_string(n)
           IN  Len(text) \in Nat /\ Len(compress(text)) \in Nat
  BY TextType, CompressedType

\* Types are kept by every step.
LEMMA TypedStep ==
    ASSUME EntriesTyped, CallsTyped, CountersTyped, [Next]_vars
    PROVE  /\ EntriesTyped' /\ CountersTyped'
           /\ DOMAIN req' = Threads /\ \A t \in Threads : RequestTyped(req'[t])
  <1> DEFINE Goal == /\ EntriesTyped' /\ CountersTyped'
                     /\ DOMAIN req' = Threads /\ \A t \in Threads : RequestTyped(req'[t])
  <1> SUFFICES Goal
    OBVIOUS
  <1>0. RequestTyped(NoRequest) /\ \A n : RequestTyped([NoRequest EXCEPT !.counter = n])
    BY EmptySeq, LenProperties DEF RequestTyped, NoRequest
  <1>1. CASE UNCHANGED vars
    BY <1>1 DEF vars, EntriesTyped, CallsTyped, CountersTyped
  <1>2. CASE Tick
    BY <1>2 DEF Tick, EntriesTyped, CallsTyped, CountersTyped
  <1>3. ASSUME NEW t \in Threads, Start(t) PROVE Goal
    <2>1. PICK op, first, r : Begin(t, op, first, r) /\ RequestTyped(r)
      BY <1>3, StartEnters
    <2>2. EntriesTyped'
      BY <2>1 DEF Begin, EntriesTyped
    <2>3. CountersTyped'
      BY <2>1 DEF Begin, CountersTyped
    <2> QED
      BY <2>1, <2>2, <2>3 DEF Begin, CallsTyped
  \* A step that leaves the map and the request alone.
  <1>4. ASSUME UNCHANGED <<cache, req, drift, grown>>, UNCHANGED issued,
               current_size' \in 0..(Usize - 1),
               DOMAIN stats' = DOMAIN stats, stats'.hits \in Nat, stats'.misses \in Nat
        PROVE  Goal
    BY <1>4 DEF EntriesTyped, CallsTyped, CountersTyped
  <1>5. ASSUME NEW t \in Threads,
               \/ EvictLockCache(t) \/ EvictLockSize(t) \/ SetLockCache(t)
               \/ StatsLock(t) \/ UpdateLockCache(t) \/ ClearLockCache(t)
               \/ SetStats(t) \/ GetStats(t)
        PROVE  Goal
    <2>1. /\ UNCHANGED <<cache, req, drift, grown, issued, current_size>>
          /\ DOMAIN stats' = DOMAIN stats /\ stats'.hits \in Nat /\ stats'.misses \in Nat
      BY <1>5 DEF EvictLockCache, EvictLockSize, SetLockCache, StatsLock, UpdateLockCache,
                  ClearLockCache, SetStats, GetStats, CountersTyped
    <2> QED
      BY <1>4, <2>1 DEF CountersTyped
  <1>6. ASSUME NEW t \in Threads, GetExpire(t) \/ DeleteSize(t) PROVE Goal
    <2>1. /\ UNCHANGED <<cache, req, drift, grown, issued, stats>>
          /\ current_size' = Sub(current_size, compressed_len(req[t].value))
      BY <1>6 DEF GetExpire, DeleteSize
    <2>2. current_size \in Int /\ compressed_len(req[t].value) \in Int
      BY DEF CountersTyped, CallsTyped, RequestTyped, compressed_len, HeaderSize
    <2> QED
      BY <1>4, <2>1, <2>2, UsizeType DEF CountersTyped
  \* A step that changes the request of t, and nothing else that has a type.
  <1>7. ASSUME NEW t \in Threads, NEW r, RequestTyped(r), req' = [req EXCEPT ![t] = r],
               EntriesTyped', CountersTyped'
        PROVE  Goal
    BY <1>7 DEF CallsTyped
  <1>8. ASSUME NEW t \in Threads, SetCheck(t) PROVE Goal
    <2> DEFINE r == [req[t] EXCEPT !.current = current_size, !.created_at = now]
    <2>0. current_size \in Int /\ RequestTyped(req[t]) /\ DOMAIN req = Threads
      BY CacheAssumption DEF CountersTyped, CallsTyped
    <2>1. req' = [req EXCEPT ![t] = r] /\ RequestTyped(r)
      <3>1. req' = [req EXCEPT ![t] = r]
        BY <1>8, <2>0 DEF SetCheck
      <3> QED
        BY <2>0, <3>1 DEF RequestTyped, NoRequest
    <2>2. EntriesTyped' /\ CountersTyped'
      BY <1>8 DEF SetCheck, EntriesTyped, CountersTyped
    <2> HIDE DEF r, Goal
    <2> QED
      BY <1>7, <2>1, <2>2
  <1>9. ASSUME NEW t \in Threads, Evict(t) PROVE Goal
    <2>1. PICK S \in EvictionSets(req[t]) :
             /\ cache' = Without(cache, S)
             /\ current_size' = Sub(current_size, Freed(S))
             /\ stats' = [stats EXCEPT !.evictions = @ + Cardinality(S)]
      BY <1>9 DEF Evict
    <2>2. S \in SUBSET DOMAIN cache
      BY <2>1 DEF EvictionSets
    <2>3. Freed(S) \in Int
      BY <2>2, BytesWithout, EntrySizes DEF Freed
    <2>4. CountersTyped'
      BY <1>9, <2>1, <2>3, UsizeType DEF Evict, CountersTyped
    <2>5. EntriesTyped'
      <3>1. IsFiniteSet(DOMAIN cache \ S)
        BY FS_Subset DEF EntriesTyped
      <3> QED
        BY <2>1, <3>1 DEF EntriesTyped, Without
    <2> DEFINE r == [req[t] EXCEPT !.created_at = now]
    <2>6. RequestTyped(r) /\ req' = [req EXCEPT ![t] = r]
      <3>1. RequestTyped(req[t])
        BY DEF CallsTyped
      <3> QED
        BY <1>9, <3>1 DEF Evict, RequestTyped, NoRequest
    <2> HIDE DEF r, Goal
    <2> QED
      BY <1>7, <2>4, <2>5, <2>6
  <1>10. ASSUME NEW t \in Threads, SetInsert(t) PROVE Goal
    <2> DEFINE k   == req[t].key
               old == IF k \in DOMAIN cache THEN size(cache[k]) ELSE 0
    <2>1. /\ current_size' = Add(Sub(current_size, old), compressed_len(req[t].value))
          /\ cache' = Put(cache, k, NewEntry(req[t]))
          /\ UNCHANGED <<stats, req, issued, drift, grown>>
      BY <1>10 DEF SetInsert
    <2>2. old \in Int /\ compressed_len(req[t].value) \in Int /\ Len(req[t].value) \in Nat
      BY DEF EntriesTyped, CallsTyped, RequestTyped, size, compressed_len, HeaderSize
    <2>3. CountersTyped'
      <3> HIDE DEF old
      <3>0. current_size \in Int /\ old \in Int
        BY <2>2, CacheAssumption DEF CountersTyped
      <3>1. Sub(current_size, old) \in Int
        <4>1. Sub(current_size, old) \in 0..(Usize - 1)
          BY <3>0, UsizeType
        <4> QED
          BY <4>1, CacheAssumption
      <3> QED
        BY <2>1, <2>2, <3>1, UsizeType DEF CountersTyped
    <2>4. EntriesTyped'
      <3>1. IsFiniteSet(DOMAIN cache \cup {k})
        BY FS_AddElement DEF EntriesTyped
      <3>2. DOMAIN cache' = DOMAIN cache \cup {k}
            /\ \A x \in DOMAIN cache' : cache'[x] = IF x = k THEN NewEntry(req[t]) ELSE cache[x]
        BY <2>1 DEF Put
      <3> QED
        BY <2>2, <3>1, <3>2 DEF EntriesTyped, NewEntry
    <2> QED
      BY <2>1, <2>3, <2>4 DEF CallsTyped
  <1>11. ASSUME NEW t \in Threads, Get(t) \/ Delete(t) PROVE Goal
    <2> DEFINE k == req[t].key
    <2>1. CountersTyped'
      BY <1>11 DEF Get, Delete, CountersTyped
    <2>2. ASSUME UNCHANGED cache, UNCHANGED req \/ Return(t, 0) PROVE Goal
      <3>1. EntriesTyped'
        BY <2>2 DEF EntriesTyped
      <3>2. CASE UNCHANGED req
        BY <2>1, <3>1, <3>2 DEF CallsTyped
      <3>3. CASE Return(t, 0)
        <4> HIDE DEF Goal
        <4> QED
          BY <1>0, <1>7, <2>1, <3>1, <3>3 DEF Return
      <3> QED
        BY <2>2, <3>2, <3>3
    <2>3. ASSUME k \in DOMAIN cache, cache' = Without(cache, {k}),
                 req' = [req EXCEPT ![t].value = cache[k].samples]
          PROVE  Goal
      <3>1. IsFiniteSet(DOMAIN cache \ {k})
        BY FS_Subset DEF EntriesTyped
      <3>2. EntriesTyped'
        BY <2>3, <3>1 DEF EntriesTyped, Without
      <3> DEFINE r == [req[t] EXCEPT !.value = cache[k].samples]
      <3>3. RequestTyped(r) /\ req' = [req EXCEPT ![t] = r]
        BY <2>3 DEF RequestTyped, CallsTyped, EntriesTyped
      <3> HIDE DEF r, Goal
      <3> QED
        BY <1>7, <2>1, <3>2, <3>3
    <2>4. ASSUME k \in DOMAIN cache,
                 cache' = [cache EXCEPT ![k].last_accessed = now, ![k].access_count = @ + 1],
                 req' = [req EXCEPT ![t].found = TRUE]
          PROVE  Goal
      <3>1. EntriesTyped'
        BY <2>4 DEF EntriesTyped
      <3> DEFINE r == [req[t] EXCEPT !.found = TRUE]
      <3>2. RequestTyped(r) /\ req' = [req EXCEPT ![t] = r]
        BY <2>4 DEF RequestTyped, CallsTyped
      <3> HIDE DEF r, Goal
      <3> QED
        BY <1>7, <2>1, <3>1, <3>2
    <2> QED
      BY <1>11, <2>2, <2>3, <2>4 DEF Get, Delete
  <1>12. ASSUME NEW t \in Threads, DeleteStats(t) \/ Exists(t) \/ UpdateStats(t) PROVE Goal
    <2>1. EntriesTyped' /\ CountersTyped'
      BY <1>12 DEF DeleteStats, Exists, UpdateStats, EntriesTyped, CountersTyped
    <2>2. \E n : req' = [req EXCEPT ![t] = [NoRequest EXCEPT !.counter = n]]
      BY <1>12 DEF DeleteStats, Exists, UpdateStats, Return
    <2> HIDE DEF Goal
    <2> QED
      BY <1>0, <1>7, <2>1, <2>2
  <1>13. ASSUME NEW t \in Threads, Incr(t) PROVE Goal
    <2> DEFINE k       == req[t].key
               entry   == cache[k]
               counter == parse_or_0(decompress(entry.samples, entry.original_size)) + 1
               text    == to_string(counter)
               growth  == compressed_len(compress(text)) - size(entry)
    <2>0. Len(text) \in Nat /\ Len(compress(text)) \in Nat
      BY NewTexts
    <2>1. CASE k \in DOMAIN cache
      <3>1. /\ cache' = [cache EXCEPT ![k].samples = compress(text),
                                      ![k].original_size = Len(text),
                                      ![k].last_accessed = now]
            /\ drift' = drift + growth /\ grown' = grown + AtLeast0(growth)
            /\ req' = [req EXCEPT ![t] = [NoRequest EXCEPT !.counter = counter]]
            /\ UNCHANGED <<current_size, stats, issued>>
        BY <1>13, <2>1 DEF Incr, Return
      <3> HIDE DEF text, counter
      <3>2. EntriesTyped'
        BY <2>0, <2>1, <3>1 DEF EntriesTyped
      <3>3. CountersTyped'
        <4>1. size(entry) \in Int /\ compressed_len(compress(text)) \in Int
          BY <2>0, <2>1 DEF EntriesTyped, size, compressed_len, HeaderSize
        <4>2. growth \in Int /\ AtLeast0(growth) \in Nat
          BY <4>1 DEF AtLeast0
        <4> HIDE DEF entry, growth
        <4> QED
          BY <3>1, <4>2 DEF CountersTyped
      <3> HIDE DEF Goal
      <3> QED
        BY <1>0, <1>7, <3>1, <3>2, <3>3
    <2>2. CASE k \notin DOMAIN cache
      <3> DEFINE r == [SetRequest(k, to_string(1), 0) EXCEPT !.counter = 1]
      <3>1. req' = [req EXCEPT ![t] = r] /\ UNCHANGED <<cache, drift, grown, current_size, stats, issued>>
        BY <1>13, <2>2 DEF Incr
      <3>2. RequestTyped(r)
        BY NewTexts DEF SetRequest, RequestTyped, NoRequest
      <3>3. EntriesTyped' /\ CountersTyped'
        BY <3>1 DEF EntriesTyped, CountersTyped
      <3> HIDE DEF r, Goal
      <3> QED
        BY <1>7, <3>1, <3>2, <3>3
    <2> QED
      BY <2>1, <2>2
  <1>14. ASSUME NEW t \in Threads, Clear(t) PROVE Goal
    <2>1. EntriesTyped'
      <3>1. DOMAIN cache' = {}
        BY <1>14 DEF Clear, Without
      <3> QED
        BY <3>1, FS_EmptySet DEF EntriesTyped
    <2>2. CountersTyped'
      BY <1>14, CacheAssumption DEF Clear, CountersTyped
    <2>3. req' = [req EXCEPT ![t] = [NoRequest EXCEPT !.counter = 0]]
      BY <1>14 DEF Clear, Return
    <2> HIDE DEF Goal
    <2> QED
      BY <1>0, <1>7, <2>1, <2>2, <2>3
  <1> HIDE DEF Goal
  <1> QED
    BY <1>1, <1>2, <1>3, <1>5, <1>6, <1>8, <1>9, <1>10, <1>11, <1>12, <1>13, <1>14
       DEF Next, Proceed

-----------------------------------------------------------------------------
\* What each step that writes the map does to the bytes it stores.
LEMMA EvictBytes ==
    ASSUME EntriesTyped, NEW t \in Threads, Evict(t)
    PROVE  \E S \in EvictionSets(req[t]) :
              /\ S \in SUBSET DOMAIN cache /\ Freed(S) \in Int
              /\ cache' = Without(cache, S)
              /\ current_size' = Sub(current_size, Freed(S))
              /\ CompressedBytes(cache') = CompressedBytes(cache) - Freed(S)
  <1>1. PICK S \in EvictionSets(req[t]) :
           cache' = Without(cache, S) /\ current_size' = Sub(current_size, Freed(S))
    BY DEF Evict
  <1>2. S \in SUBSET DOMAIN cache
    BY <1>1 DEF EvictionSets
  <1>3. CompressedBytes(cache') = CompressedBytes(cache) - Freed(S) /\ Freed(S) \in Int
    BY <1>1, <1>2, EntrySizes, BytesWithout DEF Freed
  <1> QED
    BY <1>1, <1>2, <1>3

\* SET: the entry it replaces is subtracted, the new one added.
LEMMA InsertBytes ==
    ASSUME EntriesTyped, CallsTyped, NEW t \in Threads, SetInsert(t)
    PROVE  \E old \in Nat :
              /\ current_size' = Add(Sub(current_size, old), compressed_len(req[t].value))
              /\ CompressedBytes(cache') =
                    (CompressedBytes(cache) - old) + compressed_len(req[t].value)
  <1> DEFINE k   == req[t].key
             old == IF k \in DOMAIN cache THEN size(cache[k]) ELSE 0
             len == compressed_len(req[t].value)
             new == Put(cache, k, NewEntry(req[t]))
  <1>1. current_size' = Add(Sub(current_size, old), len) /\ cache' = new
    BY DEF SetInsert
  <1>2. DOMAIN new = DOMAIN cache \cup {k}
        /\ \A x \in DOMAIN new : new[x] = IF x = k THEN NewEntry(req[t]) ELSE cache[x]
    BY DEF Put
  <1>3. size(new[k]) = len /\ \A x \in DOMAIN cache \ {k} : size(new[x]) = size(cache[x])
    BY <1>2 DEF size, NewEntry
  <1>4. old \in Nat /\ CompressedBytes(cache) \in Nat /\ SizesTyped(cache)
    BY EntrySizes, BytesType DEF SizesTyped
  <1>5. len \in Nat
    BY DEF CallsTyped, RequestTyped, compressed_len, HeaderSize
  <1>6. CompressedBytes(new) = CompressedBytes(cache) - old + len
    <2> HIDE DEF new, len
    <2> QED
      BY <1>2, <1>3, <1>4, <1>5, BytesPut
  <1> HIDE DEF old, len, new
  <1>7. CompressedBytes(cache') = (CompressedBytes(cache) - old) + len
    BY <1>1, <1>4, <1>5, <1>6
  <1> QED
    BY <1>1, <1>4, <1>7 DEF len

\* A hit touches an entry and keeps its samples.
LEMMA HitBytes ==
    ASSUME EntriesTyped, NEW k \in DOMAIN cache
    PROVE  CompressedBytes([cache EXCEPT ![k].last_accessed = now, ![k].access_count = @ + 1])
              = CompressedBytes(cache)
  <1> DEFINE new == [cache EXCEPT ![k].last_accessed = now, ![k].access_count = @ + 1]
  <1>1. DOMAIN new = DOMAIN cache \cup {k}
        /\ \A x \in DOMAIN cache : new[x].samples = cache[x].samples
    BY DEF EntriesTyped
  <1>2. \A x \in DOMAIN cache : size(new[x]) = size(cache[x])
    BY <1>1 DEF size
  <1>3. size(cache[k]) \in Nat /\ CompressedBytes(cache) \in Nat /\ SizesTyped(cache)
    BY EntrySizes, BytesType DEF SizesTyped
  <1> HIDE DEF new
  <1>4. CompressedBytes(new) = CompressedBytes(cache) - size(cache[k]) + size(new[k])
    BY <1>1, <1>2, <1>3, BytesPut
  <1>5. CompressedBytes(new) = CompressedBytes(cache)
    BY <1>2, <1>3, <1>4
  <1> QED
    BY <1>5 DEF new

\* What INCR rewrites is what the ghosts record.
LEMMA IncrBytes ==
    ASSUME EntriesTyped, NEW t \in Threads, Incr(t), req[t].key \in DOMAIN cache
    PROVE  \E growth \in Int :
              /\ CompressedBytes(cache') = CompressedBytes(cache) + growth
              /\ drift' = drift + growth /\ grown' = grown + AtLeast0(growth)
  <1> DEFINE k       == req[t].key
             entry   == cache[k]
             counter == parse_or_0(decompress(entry.samples, entry.original_size)) + 1
             text    == to_string(counter)
             new     == [cache EXCEPT ![k].samples = compress(text),
                                      ![k].original_size = Len(text),
                                      ![k].last_accessed = now]
             len     == compressed_len(compress(text))
             growth  == len - size(entry)
  <1>1. cache' = new /\ drift' = drift + growth /\ grown' = grown + AtLeast0(growth)
    BY DEF Incr
  <1>2. len \in Nat
    BY NewTexts DEF compressed_len, HeaderSize
  <1> HIDE DEF text, counter
  <1>3. DOMAIN new = DOMAIN cache \cup {k} /\ new[k].samples = compress(text)
        /\ \A x \in DOMAIN cache \ {k} : new[x] = cache[x]
    BY DEF EntriesTyped
  <1>4. size(new[k]) = len /\ \A x \in DOMAIN cache \ {k} : size(new[x]) = size(cache[x])
    BY <1>3 DEF size
  <1>5. size(entry) \in Nat /\ SizesTyped(cache) /\ CompressedBytes(cache) \in Nat
    BY EntrySizes, BytesType DEF SizesTyped
  <1>6. CompressedBytes(new) = CompressedBytes(cache) - size(entry) + len
    <2> HIDE DEF new, len
    <2> QED
      BY <1>2, <1>3, <1>4, <1>5, BytesPut
  <1> HIDE DEF new, len, entry
  <1>7. CompressedBytes(cache') = CompressedBytes(cache) + growth /\ growth \in Int
    BY <1>1, <1>2, <1>5, <1>6
  <1> HIDE DEF growth
  <1> QED
    BY <1>1, <1>7

\* An empty map stores nothing.
LEMMA NoBytes == \A map : DOMAIN map = {} => CompressedBytes(map) = 0
  BY SumEmpty DEF CompressedBytes, SumFunction, Sizes

-----------------------------------------------------------------------------
\* A thread that owes a size holds the map's write lock; whoever holds it or is
\* granted it knows that nobody else owes.
NobodyElseOwes(t) == \A u \in Threads \ {t} : pc[u] \notin Owing

\* A thread that has, or is granted, the map's write lock.
LEMMA MapWriterAlone ==
    ASSUME LockExclusion, NEW t \in Threads, NEW p, At(t, p),
           Write("cache") \in Holds(p) \cup {Acquires[p]}
    PROVE  NobodyElseOwes(t)
  <1> SUFFICES ASSUME NEW u \in Threads, u # t, pc[u] \in Owing PROVE FALSE
    BY DEF NobodyElseOwes
  <1>1. Write("cache") \in Holds(pc[u])
    BY DEF Owing, Holds
  <1>2. CASE Write("cache") \in Holds(p)
    <2>1. Compatible(Write("cache"), Write("cache"))
      BY <1>1, <1>2 DEF LockExclusion, At
    <2> QED
      BY <2>1 DEF Compatible, Write
  <1>3. CASE Acquires[p] = Write("cache")
    <2>1. Compatible(Write("cache"), Write("cache"))
      BY <1>1, <1>3 DEF At
    <2> QED
      BY <2>1 DEF Compatible, Write
  <1> QED
    BY <1>2, <1>3

\* A step of t that changes neither the map's sizes nor what is owed.
LEMMA QuietStep ==
    ASSUME CallsTyped, Accounted, NEW t \in Threads, NEW p, NEW q,
           pc[t] = p, p \notin Owing, q \notin Owing, Goto(t, q),
           \A u \in Threads \ {t} : req'[u] = req[u],
           CompressedBytes(cache') = CompressedBytes(cache), UNCHANGED <<current_size, drift>>
    PROVE  Accounted'
  <1> DEFINE B == CompressedBytes(cache)
  <1>1. pc'[t] = q /\ \A u \in Threads \ {t} : pc'[u] = pc[u]
    BY DEF Goto, CallsTyped
  <1>2. (\A u \in Threads : pc'[u] \notin Owing) => current_size' = (B - drift) % Usize
    BY <1>1 DEF Accounted
  <1>3. \A u \in Threads : pc'[u] \in Owing =>
           current_size' = (B + compressed_len(req'[u].value) - drift) % Usize
    BY <1>1 DEF Accounted
  <1> QED
    BY <1>2, <1>3 DEF Accounted

\* A step of t while nobody else owes a size.
LEMMA LoneStep ==
    ASSUME CallsTyped, NEW t \in Threads, NEW q, NobodyElseOwes(t), Goto(t, q),
           q \notin Owing => current_size' = (CompressedBytes(cache') - drift') % Usize,
           q \in Owing => current_size' =
               (CompressedBytes(cache') + compressed_len(req'[t].value) - drift') % Usize
    PROVE  Accounted'
  <1>1. pc'[t] = q /\ \A u \in Threads \ {t} : pc'[u] \notin Owing
    BY DEF Goto, CallsTyped, NobodyElseOwes
  <1> QED
    BY <1>1 DEF Accounted

\* Before such a step the account is that of t alone.
LEMMA LoneAccount ==
    ASSUME Accounted, NEW t \in Threads, NobodyElseOwes(t)
    PROVE  /\ pc[t] \notin Owing => current_size = (CompressedBytes(cache) - drift) % Usize
           /\ pc[t] \in Owing => current_size =
                 (CompressedBytes(cache) + compressed_len(req[t].value) - drift) % Usize
  BY DEF Accounted, NobodyElseOwes

\* The size follows the map over every step.
LEMMA AccountStep ==
    ASSUME EntriesTyped, CallsTyped, CountersTyped, LockExclusion, Accounted, [Next]_vars
    PROVE  Accounted'
  <1> DEFINE B == CompressedBytes(cache)
  <1>0. SizesTyped(cache) /\ B \in Int /\ drift \in Int /\ Usize \in Nat \ {0}
        /\ current_size \in Int /\ \A t \in Threads : compressed_len(req[t].value) \in Int
    <2>1. SizesTyped(cache) /\ B \in Int
      BY EntrySizes, BytesType
    <2>2. Usize \in Nat \ {0} /\ drift \in Int /\ current_size \in Int
      BY CacheAssumption DEF CountersTyped
    <2>3. \A t \in Threads : compressed_len(req[t].value) \in Int
      BY DEF CallsTyped, RequestTyped, compressed_len, HeaderSize
    <2> QED
      BY <2>1, <2>2, <2>3
  <1>1. CASE UNCHANGED <<cache, current_size, pc, req, drift>>
    BY <1>1 DEF Accounted
  <1>2. ASSUME NEW t \in Threads, Start(t) PROVE Accounted'
    <2>1. PICK op, first, r : Begin(t, op, first, r) /\ first \in Entries
      BY <1>2, StartEnters
    <2>2. "idle" \notin Owing /\ first \notin Owing
      BY <2>1 DEF Entries, Owing
    <2>3. /\ pc[t] = "idle" /\ Goto(t, first) /\ \A u \in Threads \ {t} : req'[u] = req[u]
          /\ UNCHANGED <<cache, current_size, drift>>
      BY <2>1 DEF Begin, CallsTyped
    <2> QED
      BY <2>2, <2>3, QuietStep
  <1>3. ASSUME NEW t \in Threads,
               \/ SetCheck(t) \/ EvictLockCache(t) \/ EvictLockSize(t) \/ SetLockCache(t)
               \/ SetStats(t) \/ GetStats(t) \/ DeleteStats(t) \/ Exists(t)
               \/ StatsLock(t) \/ UpdateLockCache(t) \/ UpdateStats(t) \/ ClearLockCache(t)
        PROVE  Accounted'
    <2>1. \E p, q : /\ pc[t] = p /\ Goto(t, q) /\ p \notin Owing /\ q \notin Owing
      BY <1>3 DEF SetCheck, EvictLockCache, EvictLockSize, SetLockCache, SetStats, GetStats,
                  DeleteStats, Exists, StatsLock, UpdateLockCache, UpdateStats,
                  ClearLockCache, Return, At, Owing
    <2>2. /\ UNCHANGED <<cache, current_size, drift>>
          /\ \A u \in Threads \ {t} : req'[u] = req[u]
      BY <1>3 DEF SetCheck, EvictLockCache, EvictLockSize, SetLockCache, SetStats, GetStats,
                  DeleteStats, Exists, StatsLock, UpdateLockCache, UpdateStats,
                  ClearLockCache, Return, CallsTyped
    <2> QED
      BY <2>1, <2>2, QuietStep
  <1>4. ASSUME NEW t \in Threads, Evict(t) PROVE Accounted'
    <2>1. PICK S \in EvictionSets(req[t]) :
             /\ Freed(S) \in Int /\ current_size' = Sub(current_size, Freed(S))
             /\ CompressedBytes(cache') = B - Freed(S)
      BY <1>4, EvictBytes
    <2>4. NobodyElseOwes(t)
      BY <1>4, MapWriterAlone DEF Evict, Holds
    <2>5. pc[t] \notin Owing /\ Goto(t, "set_cache") /\ UNCHANGED drift /\ "set_cache" \notin Owing
      BY <1>4 DEF Evict, At, Owing
    <2>6. current_size = (B - drift) % Usize
      BY <2>4, <2>5, LoneAccount
    <2>7. current_size' = (B - drift - Freed(S)) % Usize
      <3>1. B - drift \in Int
        BY <1>0
      <3> QED
        BY <2>1, <2>6, <3>1, ReducedEarly
    <2>8. B - drift - Freed(S) = CompressedBytes(cache') - drift'
      BY <1>0, <2>1, <2>5
    <2> QED
      BY <2>4, <2>5, <2>7, <2>8, LoneStep
  <1>5. ASSUME NEW t \in Threads, SetInsert(t) PROVE Accounted'
    <2> DEFINE len == compressed_len(req[t].value)
    <2>1. PICK old \in Nat : /\ current_size' = Add(Sub(current_size, old), len)
                            /\ CompressedBytes(cache') = (B - old) + len
      BY <1>5, InsertBytes
    <2>2. NobodyElseOwes(t)
      BY <1>5, MapWriterAlone DEF SetInsert, Holds
    <2>3. pc[t] \notin Owing /\ Goto(t, "set_stats") /\ UNCHANGED drift /\ "set_stats" \notin Owing
      BY <1>5 DEF SetInsert, At, Owing
    <2>4. current_size = (B - drift) % Usize
      BY <2>2, <2>3, LoneAccount
    <2>5. len \in Int
      BY <1>0
    <2> HIDE DEF len, B
    <2>6. current_size' = (((B - drift) - old) + len) % Usize
      <3>1. B - drift \in Int /\ (B - drift) - old \in Int
        BY <1>0, <2>1
      <3>2. Sub(current_size, old) = ((B - drift) - old) % Usize
        BY <2>1, <2>4, <3>1, ReducedEarly
      <3>3. Add(Sub(current_size, old), len) = (((B - drift) - old) + len) % Usize
        BY <2>5, <3>1, <3>2, ReducedEarly
      <3> QED
        BY <2>1, <3>3
    <2>7. ((B - drift) - old) + len = CompressedBytes(cache') - drift'
      BY <1>0, <2>1, <2>3, <2>5
    <2> QED
      BY <2>2, <2>3, <2>6, <2>7, LoneStep
  \* An entry leaves the map: its size is owed until the next step of t.
  <1>6. ASSUME NEW t \in Threads, NEW p, At(t, p), Acquires[p] = Write("cache"), p \notin Owing,
               NEW q \in Owing, Goto(t, q), req[t].key \in DOMAIN cache,
               cache' = Without(cache, {req[t].key}),
               req' = [req EXCEPT ![t].value = cache[req[t].key].samples],
               UNCHANGED <<current_size, drift>>
        PROVE  Accounted'
    <2> DEFINE k == req[t].key
    <2>1. NobodyElseOwes(t)
      BY <1>6, MapWriterAlone
    <2>2. current_size = (B - drift) % Usize
      BY <1>6, <2>1, LoneAccount DEF At
    <2>3. CompressedBytes(cache') = B - size(cache[k]) /\ size(cache[k]) \in Int
      BY <1>0, <1>6, BytesWithoutOne DEF SizesTyped
    <2>4. compressed_len(req'[t].value) = size(cache[k])
      BY <1>6 DEF CallsTyped, RequestTyped, NoRequest, size
    <2>5. CompressedBytes(cache') + compressed_len(req'[t].value) - drift' = B - drift
      BY <1>0, <1>6, <2>3, <2>4
    <2> QED
      BY <1>6, <2>1, <2>2, <2>5, LoneStep
  \* The owed size is taken off.
  <1>7. ASSUME NEW t \in Threads, NEW p \in Owing, At(t, p), NEW q, q \notin Owing, Goto(t, q),
               current_size' = Sub(current_size, compressed_len(req[t].value)),
               UNCHANGED <<cache, drift>>
        PROVE  Accounted'
    <2> DEFINE len == compressed_len(req[t].value)
    <2>1. NobodyElseOwes(t)
      BY <1>7, MapWriterAlone DEF Owing, Holds
    <2>2. current_size = (B + len - drift) % Usize
      BY <1>7, <2>1, LoneAccount DEF At
    <2>3. len \in Int
      BY <1>0
    <2> HIDE DEF len, B
    <2>4. current_size' = ((B + len - drift) - len) % Usize
      <3>1. B + len - drift \in Int
        BY <1>0, <2>3
      <3>2. current_size' = Sub(current_size, len)
        BY <1>7 DEF len
      <3> QED
        BY <2>2, <2>3, <3>1, <3>2, ReducedEarly
    <2>5. (B + len - drift) - len = B - drift
      BY <1>0, <2>3
    <2> QED
      BY <1>7, <2>1, <2>4, <2>5, LoneStep DEF B
  <1>8. ASSUME NEW t \in Threads, Get(t) PROVE Accounted'
    <2> DEFINE k == req[t].key
    <2>0. At(t, "get_cache") /\ UNCHANGED <<current_size, drift>>
          /\ "get_cache" \notin Owing /\ "get_stats" \notin Owing /\ "get_size" \in Owing
          /\ Acquires["get_cache"] = Write("cache")
      BY <1>8 DEF Get, Owing, Acquires
    <2>1. ASSUME UNCHANGED <<cache, req>>, Goto(t, "get_stats") PROVE Accounted'
      BY <2>0, <2>1, QuietStep DEF At
    <2>2. ASSUME k \in DOMAIN cache, cache' = Without(cache, {k}), Goto(t, "get_size"),
                 req' = [req EXCEPT ![t].value = cache[k].samples]
          PROVE  Accounted'
      BY <1>6, <2>0, <2>2
    <2>3. ASSUME k \in DOMAIN cache, Goto(t, "get_stats"), req' = [req EXCEPT ![t].found = TRUE],
                 cache' = [cache EXCEPT ![k].last_accessed = now, ![k].access_count = @ + 1]
          PROVE  Accounted'
      <3>6. CompressedBytes(cache') = B
        BY <2>3, HitBytes
      <3>7. \A u \in Threads \ {t} : req'[u] = req[u]
        BY <2>3 DEF CallsTyped
      <3> QED
        BY <2>0, <2>3, <3>6, <3>7, QuietStep DEF At
    <2> QED
      BY <1>8, <2>1, <2>2, <2>3 DEF Get
  <1>9. ASSUME NEW t \in Threads, GetExpire(t) \/ DeleteSize(t) PROVE Accounted'
    <2>1. "get_size" \in Owing /\ "delete_size" \in Owing
          /\ "get_stats" \notin Owing /\ "delete_stats" \notin Owing
      BY DEF Owing
    <2> QED
      BY <1>7, <1>9, <2>1 DEF GetExpire, DeleteSize
  <1>10. ASSUME NEW t \in Threads, Delete(t) PROVE Accounted'
    <2>0. At(t, "delete_cache") /\ UNCHANGED <<current_size, drift>>
          /\ "delete_cache" \notin Owing /\ "idle" \notin Owing /\ "delete_size" \in Owing
          /\ Acquires["delete_cache"] = Write("cache")
      BY <1>10 DEF Delete, Owing, Acquires
    <2>1. CASE req[t].key \in DOMAIN cache
      BY <1>6, <1>10, <2>0, <2>1 DEF Delete
    <2>2. CASE req[t].key \notin DOMAIN cache
      <3>1. UNCHANGED cache /\ Goto(t, "idle") /\ \A u \in Threads \ {t} : req'[u] = req[u]
        BY <1>10, <2>2 DEF Delete, Return, CallsTyped
      <3> QED
        BY <2>0, <3>1, QuietStep DEF At
    <2> QED
      BY <2>1, <2>2
  <1>11. ASSUME NEW t \in Threads, Incr(t) PROVE Accounted'
    <2> DEFINE k == req[t].key
    <2>0. At(t, "incr_cache") /\ "incr_cache" \notin Owing /\ "idle" \notin Owing
          /\ "set_check" \notin Owing /\ Acquires["incr_cache"] = Write("cache")
          /\ UNCHANGED current_size
      BY <1>11 DEF Incr, Owing, Acquires
    <2>1. CASE k \notin DOMAIN cache
      <3>1. UNCHANGED <<cache, drift>> /\ Goto(t, "set_check")
            /\ \A u \in Threads \ {t} : req'[u] = req[u]
        BY <1>11, <2>1 DEF Incr, CallsTyped
      <3> QED
        BY <2>0, <3>1, QuietStep DEF At
    <2>2. CASE k \in DOMAIN cache
      <3>1. PICK growth \in Int : /\ CompressedBytes(cache') = B + growth
                                 /\ drift' = drift + growth
        BY <1>11, <2>2, IncrBytes
      <3>2. Goto(t, "idle")
        BY <1>11, <2>2 DEF Incr, Return
      <3>3. CompressedBytes(cache') - drift' = B - drift
        BY <1>0, <3>1
      <3>4. NobodyElseOwes(t)
        BY <2>0, MapWriterAlone
      <3>5. current_size = (B - drift) % Usize
        BY <2>0, <3>4, LoneAccount DEF At
      <3> QED
        BY <2>0, <3>2, <3>3, <3>4, <3>5, LoneStep
    <2> QED
      BY <2>1, <2>2
  <1>12. ASSUME NEW t \in Threads, Clear(t) PROVE Accounted'
    <2>1. NobodyElseOwes(t)
      BY <1>12, MapWriterAlone DEF Clear, Holds
    <2>2. cache' = Without(cache, DOMAIN cache) /\ current_size' = 0 /\ drift' = 0
          /\ Goto(t, "idle") /\ "idle" \notin Owing
      BY <1>12 DEF Clear, Return, Owing
    <2>3. CompressedBytes(cache') = 0
      <3>1. DOMAIN cache' = {}
        BY <2>2 DEF Without
      <3> QED
        BY <3>1, NoBytes
    <2>4. 0 % Usize = 0
      BY <1>0
    <2> QED
      BY <2>1, <2>2, <2>3, <2>4, LoneStep
  <1> QED
    BY <1>1, <1>2, <1>3, <1>4, <1>5, <1>8, <1>9, <1>10, <1>11, <1>12
       DEF Next, Proceed, Tick, vars

-----------------------------------------------------------------------------
\* Every GET under way or counted, over a step.
GetPoints == {"get_cache", "get_size", "get_stats"}
Getting == {t \in Threads : pc[t] \in GetPoints}

\* The GETs under way can be counted.
LEMMA GettingFinite == IsFiniteSet(Getting) /\ Cardinality(Getting) \in Nat
  <1>1. Getting \subseteq Threads /\ IsFiniteSet(Threads)
    BY CacheAssumption DEF Getting
  <1> QED
    BY <1>1, FS_Subset, FS_CardinalityType

\* Every GET under way or counted, over a step.
LEMMA CountStep ==
    ASSUME CallsTyped, CountersTyped, EveryGetCounted, [Next]_vars
    PROVE  EveryGetCounted'
  <1> DEFINE Counted(n) == issued'.get - stats'.hits - stats'.misses =
                             issued.get - stats.hits - stats.misses + n
             Got == Getting'
  <1>0. /\ issued.get - stats.hits - stats.misses = Cardinality(Getting)
        /\ issued.get \in Nat /\ stats.hits \in Nat /\ stats.misses \in Nat
        /\ Cardinality(Getting) \in Nat /\ IsFiniteSet(Getting)
    BY GettingFinite DEF EveryGetCounted, Getting, GetPoints, CountersTyped
  <1>1. ASSUME issued'.get \in Int, stats'.hits \in Int, stats'.misses \in Int,
               issued'.get - stats'.hits - stats'.misses = Cardinality(Got)
        PROVE  EveryGetCounted'
    <2>1. Cardinality(Got) = Cardinality({t \in Threads : pc'[t] \in {"get_cache", "get_size", "get_stats"}})
      BY DEF Getting, GetPoints
    <2> HIDE DEF Got
    <2>2. issued'.get = stats'.hits + stats'.misses + Cardinality(Got)
      BY <1>1
    <2> QED
      BY <2>1, <2>2 DEF EveryGetCounted
  \* Who is getting changes at most by t.
  <1>2. ASSUME NEW t \in Threads, NEW q, Goto(t, q)
        PROVE  Got = IF q \in GetPoints THEN Getting \cup {t} ELSE Getting \ {t}
    BY <1>2 DEF Getting, CallsTyped, Goto
  <1>3. ASSUME Got = Getting, UNCHANGED issued, stats'.hits = stats.hits, stats'.misses = stats.misses
        PROVE  EveryGetCounted'
    BY <1>0, <1>1, <1>3
  <1>4. CASE UNCHANGED vars \/ Tick
    BY <1>3, <1>4 DEF vars, Tick, Getting
  <1>5. ASSUME NEW t \in Threads, Start(t) PROVE EveryGetCounted'
    <2>1. PICK op, first, r : Begin(t, op, first, r) /\ (op = "get" <=> first = "get_cache")
                              /\ first \in Entries
      BY <1>5, StartEnters
    <2>2. UNCHANGED stats /\ pc[t] = "idle" /\ t \notin Getting
          /\ Got = IF first \in GetPoints THEN Getting \cup {t} ELSE Getting \ {t}
      BY <1>2, <2>1 DEF Begin, Getting, GetPoints
    <2>3. CASE op = "get"
      <3>1. issued'.get = issued.get + 1 /\ Got = Getting \cup {t}
        BY <2>1, <2>2, <2>3 DEF Begin, CountersTyped, GetPoints
      <3>2. Cardinality(Got) = Cardinality(Getting) + 1
        BY <1>0, <2>2, <3>1, FS_AddElement
      <3> HIDE DEF Got
      <3> QED
        BY <1>0, <1>1, <2>2, <3>1, <3>2
    <2>4. CASE op # "get"
      <3>1. issued'.get = issued.get
        BY <2>1, <2>4 DEF Begin, CountersTyped
      <3>2. Got = Getting
        BY <2>1, <2>2, <2>4 DEF Entries, GetPoints
      <3>3. stats'.hits = stats.hits /\ stats'.misses = stats.misses
        BY <2>2
      <3>4. Cardinality(Got) = Cardinality(Getting)
        BY <3>2
      <3> HIDE DEF Got
      <3> QED
        BY <1>0, <1>1, <3>1, <3>3, <3>4
    <2> QED
      BY <2>3, <2>4
  <1>6. ASSUME NEW t \in Threads, GetStats(t) PROVE EveryGetCounted'
    <2>1. t \in Getting /\ Got = Getting \ {t}
      BY <1>2, <1>6 DEF GetStats, At, Getting, GetPoints
    <2>2. Cardinality(Got) = Cardinality(Getting) - 1
      BY <1>0, <2>1, FS_RemoveElement
    <2>3. /\ UNCHANGED issued
          /\ \/ stats'.hits = stats.hits + 1 /\ stats'.misses = stats.misses
             \/ stats'.hits = stats.hits /\ stats'.misses = stats.misses + 1
      BY <1>6 DEF GetStats, CountersTyped
    <2> HIDE DEF Got
    <2> QED
      BY <1>0, <1>1, <2>2, <2>3
  \* Every other step stays outside a GET or inside it, and counts nothing.
  <1>7. ASSUME NEW t \in Threads, Proceed(t), ~ GetStats(t) PROVE EveryGetCounted'
    <2>1. /\ UNCHANGED issued /\ stats'.hits = stats.hits /\ stats'.misses = stats.misses
      BY <1>7 DEF Proceed, SetCheck, EvictLockCache, EvictLockSize, Evict, SetLockCache,
                  SetInsert, SetStats, Get, GetExpire, Delete, DeleteSize, DeleteStats,
                  Exists, Incr, StatsLock, UpdateLockCache, UpdateStats, ClearLockCache,
                  Clear, CountersTyped
    <2>2. PICK e \in Edges : Moves(t, e[1], e[2])
      BY <1>7, ProceedMoves
    <2>3. e[1] # "get_stats"
      <3>1. CASE pc[t] = "get_stats"
        BY <1>7, <3>1 DEF Proceed, SetCheck, EvictLockCache, EvictLockSize, Evict, SetLockCache,
                  SetInsert, SetStats, Get, GetExpire, Delete, DeleteSize, DeleteStats,
                  Exists, Incr, StatsLock, UpdateLockCache, UpdateStats, ClearLockCache,
                  Clear, At
      <3> QED
        BY <2>2, <3>1 DEF Moves, At
    <2>4. e[1] \in GetPoints <=> e[2] \in GetPoints
      BY <2>3 DEF Edges, GetPoints
    <2>5. Got = Getting
      BY <1>2, <2>2, <2>4 DEF Moves, At, Getting
    <2> QED
      BY <1>3, <2>1, <2>5
  <1> QED
    BY <1>4, <1>5, <1>6, <1>7 DEF Next

-----------------------------------------------------------------------------
\* The invariant holds at the start and over every step.
LEMMA InitInv == Init => CacheInv
  <1> SUFFICES ASSUME Init PROVE CacheInv
    OBVIOUS
  <1>1. DOMAIN cache = {}
    BY DEF Init
  <1>2. EntriesTyped
    BY <1>1, FS_EmptySet DEF EntriesTyped
  <1>3. CallsTyped
    BY EmptySeq, LenProperties DEF Init, CallsTyped, RequestTyped, NoRequest, Steps
  <1>4. CountersTyped
    BY CacheAssumption DEF Init, CountersTyped
  <1>5. LockExclusion
    BY DEF Init, LockExclusion, Holds
  <1>6. Accounted
    <2>1. CompressedBytes(cache) = 0
      BY <1>1, NoBytes
    <2>2. 0 % Usize = 0 /\ current_size = 0 /\ drift = 0
      BY CacheAssumption DEF Init
    <2> QED
      BY <2>1, <2>2 DEF Init, Accounted, Owing
  <1>7. EveryGetCounted
    <2>1. Getting = {}
      BY DEF Init, Getting, GetPoints
    <2>2. Cardinality(Getting) = 0
      BY <2>1, FS_EmptySet
    <2>3. EveryGetCounted <=> issued.get = stats.hits + stats.misses + Cardinality(Getting)
      BY DEF EveryGetCounted, Getting, GetPoints
    <2>4. issued.get = 0 /\ stats.hits = 0 /\ stats.misses = 0
      BY DEF Init
    <2> QED
      BY <2>2, <2>3, <2>4
  <1> QED
    BY <1>2, <1>3, <1>4, <1>5, <1>6, <1>7 DEF CacheInv

\* Every step keeps the invariant.
LEMMA NextInv == CacheInv /\ [Next]_vars => CacheInv'
  <1> SUFFICES ASSUME CacheInv, [Next]_vars PROVE CacheInv'
    OBVIOUS
  <1>1. EntriesTyped' /\ CountersTyped' /\ CallsTyped'
    BY TypedStep, LocksStep DEF CacheInv, CallsTyped
  <1> QED
    BY <1>1, LocksStep, AccountStep, CountStep DEF CacheInv

\* The inductive invariant of the cache.
THEOREM CacheInvariant == Spec => []CacheInv
  <1> QED
    BY InitInv, NextInv, PTL DEF Spec

\* No two threads ever hold conflicting guards of one RwLock: the model's account of
\* which guards live at which point of the handlers is one that locks can grant.
THEOREM LocksExclude == Spec => []LockExclusion
  <1>1. CacheInv => LockExclusion
    BY DEF CacheInv
  <1> QED
    BY <1>1, CacheInvariant, PTL

\* Whenever nobody writes the map, current_size is the compressed bytes stored, less
\* what INCRs rewrote, modulo the width of usize.
THEOREM SizeExact == Spec => []SizeAccounting
  <1>1. CacheInv => SizeAccounting
    BY DEF CacheInv, Accounted, SizeAccounting, NobodyWrites, Owing, Holds
  <1> QED
    BY <1>1, CacheInvariant, PTL

\* No GET is lost from the statistics.
THEOREM GetsCounted == Spec => []EveryGetCounted
  <1>1. CacheInv => EveryGetCounted
    BY DEF CacheInv
  <1> QED
    BY <1>1, CacheInvariant, PTL

\* The statistics that one thread computes are of one moment: it reads the map and the
\* size under both read locks, so nobody is between the one and the other.
THEOREM SnapshotOfOneMoment == Spec => SnapshotCoherent
  <1> DEFINE Coherent ==
        stats'.entry_count # stats.entry_count
           \/ stats'.compressed_bytes # stats.compressed_bytes =>
        /\ stats'.entry_count = Cardinality(DOMAIN cache)
        /\ stats'.compressed_bytes = (CompressedBytes(cache) - drift) % Usize
  <1>1. ASSUME CacheInv, [Next]_vars PROVE [Coherent]_vars
    <2>1. ASSUME NEW t \in Threads, UpdateStats(t) PROVE Coherent
      <3>1. Read("cache") \in Holds(pc[t]) /\ pc[t] \notin Owing
        BY <2>1 DEF UpdateStats, At, Holds, Owing
      <3>2. \A u \in Threads : pc[u] \notin Owing
        <4> SUFFICES ASSUME NEW u \in Threads, pc[u] \in Owing PROVE FALSE
          OBVIOUS
        <4>1. Write("cache") \in Holds(pc[u])
          BY DEF Owing, Holds
        <4>2. Compatible(Read("cache"), Write("cache"))
          BY <1>1, <3>1, <4>1 DEF CacheInv, LockExclusion
        <4> QED
          BY <4>2 DEF Compatible, Read, Write
      <3>3. current_size = (CompressedBytes(cache) - drift) % Usize
        BY <1>1, <3>2 DEF CacheInv, Accounted
      <3> QED
        BY <1>1, <2>1, <3>3 DEF UpdateStats, CacheInv, CountersTyped
    <2>2. ASSUME NEW t \in Threads, Start(t) PROVE UNCHANGED stats
      BY <2>2, StartEnters DEF Begin
    <2>3. ASSUME NEW t \in Threads, Proceed(t), ~ UpdateStats(t)
          PROVE  stats'.entry_count = stats.entry_count
                 /\ stats'.compressed_bytes = stats.compressed_bytes
      BY <1>1, <2>3 DEF Proceed, SetCheck, EvictLockCache, EvictLockSize, Evict, SetLockCache,
                  SetInsert, SetStats, Get, GetExpire, GetStats, Delete, DeleteSize,
                  DeleteStats, Exists, Incr, StatsLock, UpdateLockCache, ClearLockCache,
                  Clear, CacheInv, CountersTyped
    <2> QED
      BY <1>1, <2>1, <2>2, <2>3 DEF Next, Tick, vars
  <1> QED
    BY <1>1, CacheInvariant, PTL DEF Spec, SnapshotCoherent

-----------------------------------------------------------------------------
\* How far the cache can grow past max_size.
\* The SETs under way, and the INCRs that may become one.
SetPoints == {"set_check", "evict_cache", "evict_size", "evict_stats", "set_cache", "set_size"}
Setting == {t \in Threads : pc[t] \in SetPoints \cup {"incr_cache"}}

\* The operations that have stored what they had to, or never will.
Room == SumIssued - Cardinality(Setting)

\* The bytes that a SET past the size check may still add to the map: its entry, less
\* what it is about to evict.
Claim(point, r) ==
    IF point \in {"set_cache", "set_size"} THEN compressed_len(r.value)
    ELSE IF point \in {"evict_cache", "evict_size", "evict_stats"}
         THEN AtLeast0(compressed_len(r.value) - needed(r))
         ELSE 0
Claims == [t \in Threads |-> Claim(pc[t], req[t])]

EntriesFit == \A t \in Threads : pc[t] \in SetPoints => compressed_len(req[t].value) <= MaxEntry

\* The size that the checks read is far from wrapping: every operation adds one entry
\* to it at most.
Account == CompressedBytes(cache) - drift

SizeFits ==
    /\ SumIssued <= MaxOps /\ Room >= 0
    /\ Account <= MaxEntry * Room
    /\ \A t \in Threads : pc[t] \in Owing =>
          Account + compressed_len(req[t].value) <= MaxEntry * Room

\* What is stored and what may still be added stays below the bound.
ClaimsFit ==
    /\ grown >= drift
    /\ CompressedBytes(cache) - grown + SumFunctionOnSet(Claims, Threads) <=
          Max({MaxSize, MaxEntry}) + (Cardinality(Threads) - 1) * MaxEntry

BoundInv == EntriesFit /\ SizeFits /\ ClaimsFit

\* What the callers store in all does not reach 2^w bytes.
NoOverflow == MaxEntry * MaxOps < Usize

\* No value that is stored takes more than MaxEntry.
LEMMA EntryBound ==
    /\ MaxEntry \in Nat
    /\ \A v \in Values \cup {to_string(1)} : compressed_len(compress(v)) <= MaxEntry
  <1> DEFINE D == Values \cup {to_string(1)}
             f == [v \in D |-> compressed_len(compress(v))]
             S == {compressed_len(compress(v)) : v \in D}
  <1>1. IsFiniteSet(D)
    BY CacheAssumption, FS_AddElement
  <1>2. \A v \in D : compressed_len(compress(v)) \in Nat
    <2> TAKE v \in D
    <2>1. Len(v) \in Nat
      BY CacheAssumption, LenProperties, TextType
    <2> QED
      BY <2>1, CompressedType DEF compressed_len, HeaderSize
  <1>3. f \in Surjection(D, S)
    BY DEF Surjection
  <1>4. IsFiniteSet(S) /\ S \in SUBSET Int /\ S # {}
    <2>1. IsFiniteSet(S)
      <3> HIDE DEF f, D, S
      <3> QED
        BY <1>1, <1>3, FS_Surjection
    <2> QED
      BY <1>2, <2>1
  <1>5. Max(S) \in S /\ \A y \in S : y <= Max(S)
    <2> HIDE DEF S
    <2> QED
      BY <1>4, MaxOf
  <1> QED
    BY <1>2, <1>5 DEF MaxEntry

\* The room the bound leaves over max_size.
Ceiling == Max({MaxSize, MaxEntry})

\* The bound of the size, before what INCRs and racing SETs add.
LEMMA CeilingBound == Ceiling \in Nat /\ MaxSize <= Ceiling /\ MaxEntry <= Ceiling
  <1> DEFINE S == {MaxSize, MaxEntry}
  <1>1. MaxSize \in Nat /\ MaxEntry \in Nat
    BY EntryBound, CacheAssumption
  <1>2. IsFiniteSet(S)
    <2>1. IsFiniteSet({MaxSize}) /\ IsFiniteSet({MaxSize} \cup {MaxEntry})
      BY FS_Singleton, FS_AddElement
    <2>2. S = {MaxSize} \cup {MaxEntry}
      OBVIOUS
    <2> QED
      BY <2>1, <2>2
  <1>3. Max(S) \in S /\ \A y \in S : y <= Max(S)
    <2>1. S \in SUBSET Int /\ S # {}
      BY <1>1
    <2> HIDE DEF S
    <2> QED
      BY <1>2, <2>1, MaxOf
  <1> QED
    BY <1>1, <1>3 DEF Ceiling

\* A remainder is at least what it is the remainder of, unless that is too large.
LEMMA ModAbove ==
    ASSUME NEW n \in Nat \ {0}, NEW x \in Int, x < n
    PROVE  x % n >= x /\ x % n \in Nat
  <1>1. x % n \in 0..(n - 1)
    BY ModParts
  <1>2. CASE x >= 0
    <2>1. x \in 0..(n - 1)
      BY <1>2
    <2>2. (n * 0 + x) % n = x /\ n * 0 = 0
      BY <2>1, ModIs
    <2> QED
      BY <1>1, <2>2
  <1>3. CASE x < 0
    BY <1>1, <1>3
  <1> QED
    BY <1>2, <1>3

-----------------------------------------------------------------------------
\* The claim of a thread is at most one entry.
LEMMA ClaimType ==
    ASSUME NEW point, NEW r, RequestTyped(r),
           point \in SetPoints => compressed_len(r.value) <= MaxEntry
    PROVE  /\ compressed_len(r.value) \in Nat /\ needed(r) \in Nat
           /\ Claim(point, r) \in Nat /\ Claim(point, r) <= MaxEntry
  <1>1. compressed_len(r.value) \in Nat /\ MaxEntry \in Nat
    BY EntryBound DEF RequestTyped, compressed_len, HeaderSize
  <1>2. needed(r) \in Nat
    <2> DEFINE total == Add(r.current, compressed_len(r.value))
    <2>1. total \in 0..(Usize - 1)
      <3>1. r.current \in Int /\ compressed_len(r.value) \in Int
        BY <1>1 DEF RequestTyped
      <3> QED
        BY <3>1, UsizeType
    <2>2. needed(r) = AtLeast0(total - MaxSize)
      BY DEF needed
    <2> HIDE DEF total
    <2>3. total - MaxSize \in Int
      BY <2>1, CacheAssumption
    <2> QED
      BY <2>2, <2>3 DEF AtLeast0
  <1> HIDE DEF RequestTyped
  <1>3. point \in {"set_cache", "set_size", "evict_cache", "evict_size", "evict_stats"}
           => compressed_len(r.value) <= MaxEntry
    BY DEF SetPoints
  <1> QED
    BY <1>1, <1>2, <1>3 DEF Claim, AtLeast0

\* The claims of the others: unchanged by a step of t, and one entry each at most.
LEMMA ClaimsOfOthers ==
    ASSUME CallsTyped, CallsTyped', EntriesFit, EntriesFit', NEW t \in Threads,
           \A u \in Threads \ {t} : pc'[u] = pc[u] /\ req'[u] = req[u]
    PROVE  \E rest \in Int :
              /\ SumFunctionOnSet(Claims, Threads) = Claim(pc[t], req[t]) + rest
              /\ SumFunctionOnSet(Claims', Threads) = Claim(pc'[t], req'[t]) + rest
              /\ rest <= (Cardinality(Threads) - 1) * MaxEntry
  <1> DEFINE f == Claims
             g == Claims'
             R == Threads \ {t}
  <1>1. \A u \in Threads : /\ f[u] = Claim(pc[u], req[u]) /\ g[u] = Claim(pc'[u], req'[u])
                           /\ f[u] \in Int /\ f[u] <= MaxEntry /\ g[u] \in Int
    <2> TAKE u \in Threads
    <2>1. f[u] = Claim(pc[u], req[u]) /\ g[u] = Claim(pc'[u], req'[u])
      BY DEF Claims
    <2>2. f[u] \in Nat /\ f[u] <= MaxEntry
      BY <2>1, ClaimType DEF CallsTyped, EntriesFit
    <2>3. g[u] \in Nat
      BY <2>1, ClaimType DEF CallsTyped, EntriesFit
    <2> QED
      BY <2>1, <2>2, <2>3
  <1>2. \A u \in R : g[u] = f[u]
    BY <1>1
  <1>3. IsFiniteSet(R) /\ Cardinality(R) = Cardinality(Threads) - 1 /\ Cardinality(Threads) \in Nat
    BY CacheAssumption, FS_RemoveElement, FS_CardinalityType, FS_Subset
  <1> HIDE DEF f, g
  <1>4. /\ SumFunctionOnSet(f, Threads) = f[t] + SumFunctionOnSet(f, R)
        /\ SumFunctionOnSet(g, Threads) = g[t] + SumFunctionOnSet(f, R)
        /\ SumFunctionOnSet(f, R) \in Int
    <2>1. IsFiniteSet(Threads) /\ \A u \in Threads : f[u] \in Int /\ g[u] \in Int
      BY <1>1, CacheAssumption
    <2>2. \A u \in Threads \ {t} : g[u] = f[u]
      BY <1>2
    <2>3. SumFunctionOnSet(f, Threads) = f[t] + SumFunctionOnSet(f, Threads \ {t})
      BY <2>1, SumRemove
    <2>4. SumFunctionOnSet(g, Threads) = g[t] + SumFunctionOnSet(g, Threads \ {t})
      BY <2>1, SumRemove
    <2>5. SumFunctionOnSet(g, Threads \ {t}) = SumFunctionOnSet(f, Threads \ {t})
      BY <1>3, <2>2, SumAgree
    <2>6. SumFunctionOnSet(f, Threads \ {t}) \in Int
      BY <1>3, <2>1, SumInt
    <2> QED
      BY <2>3, <2>4, <2>5, <2>6
  <1>5. SumFunctionOnSet(f, R) <= MaxEntry * Cardinality(R)
    <2>1. MaxEntry \in Int
      BY EntryBound
    <2> QED
      BY <1>1, <1>3, <2>1, SumBound
  <1>6. MaxEntry * Cardinality(R) = (Cardinality(Threads) - 1) * MaxEntry
    <2>1. \A a, b \in Int : a * b = b * a
      OBVIOUS
    <2> QED
      BY <1>3, <2>1, EntryBound
  <1> QED
    BY <1>1, <1>4, <1>5, <1>6 DEF f, g

\* A step of t keeps the bound if it adds no more than its claim gives up, or if it
\* leaves no more than one SET could.
LEMMA ClaimStep ==
    ASSUME CallsTyped, CallsTyped', CountersTyped, CountersTyped', EntriesTyped, EntriesTyped',
           EntriesFit, EntriesFit', ClaimsFit, NEW t \in Threads,
           \A u \in Threads \ {t} : pc'[u] = pc[u] /\ req'[u] = req[u],
           grown' >= drift',
           \/ CompressedBytes(cache') - grown' + Claim(pc'[t], req'[t])
                 <= CompressedBytes(cache) - grown + Claim(pc[t], req[t])
           \/ CompressedBytes(cache') - grown' + Claim(pc'[t], req'[t]) <= Ceiling
    PROVE  ClaimsFit'
  <1>1. PICK rest \in Int :
              /\ SumFunctionOnSet(Claims, Threads) = Claim(pc[t], req[t]) + rest
              /\ SumFunctionOnSet(Claims', Threads) = Claim(pc'[t], req'[t]) + rest
              /\ rest <= (Cardinality(Threads) - 1) * MaxEntry
    BY ClaimsOfOthers
  <1>2. CompressedBytes(cache) \in Int /\ grown \in Int
    BY EntrySizes, BytesType DEF CountersTyped
  <1>3. CompressedBytes(cache') \in Int /\ grown' \in Int
    <2>1. SizesTyped(cache')
      BY DEF EntriesTyped, SizesTyped, size, compressed_len, HeaderSize
    <2> QED
      BY <2>1, BytesType DEF CountersTyped
  <1>4. Claim(pc[t], req[t]) \in Int /\ Claim(pc'[t], req'[t]) \in Int
    <2>1. Claim(pc[t], req[t]) \in Nat
      BY ClaimType DEF CallsTyped, EntriesFit
    <2>2. Claim(pc'[t], req'[t]) \in Nat
      BY ClaimType DEF CallsTyped, EntriesFit
    <2> QED
      BY <2>1, <2>2
  <1> DEFINE most == (Cardinality(Threads) - 1) * MaxEntry
             old  == CompressedBytes(cache)
             new  == CompressedBytes(cache')
             mine == Claim(pc[t], req[t])
             next == Claim(pc'[t], req'[t])
  <1>5. most \in Int /\ Ceiling \in Int
    BY CeilingBound, EntryBound, CacheAssumption, FS_CardinalityType
  <1>6. old - grown + (mine + rest) <= Ceiling + most
    BY <1>1 DEF ClaimsFit, Ceiling
  <1> HIDE DEF most, old, new, mine, next
  <1>7. new - grown' + (next + rest) <= Ceiling + most
    BY <1>1, <1>2, <1>3, <1>4, <1>5, <1>6 DEF old, new, mine, next, most
  <1> QED
    BY <1>1, <1>7 DEF ClaimsFit, Ceiling, most, new, next

-----------------------------------------------------------------------------
\* The room for entries in the size never shrinks, and grows when one is stored.
LEMMA SettingFinite == IsFiniteSet(Setting) /\ Cardinality(Setting) \in Nat
  <1>1. Setting \subseteq Threads /\ IsFiniteSet(Threads)
    BY CacheAssumption DEF Setting
  <1> QED
    BY <1>1, FS_Subset, FS_CardinalityType

\* A set's size when one element joins or leaves it.
LEMMA CountAround ==
    ASSUME NEW S, IsFiniteSet(S), NEW x
    PROVE  /\ Cardinality(S) \in Nat
           /\ Cardinality(S \cup {x}) \in Nat /\ Cardinality(S \cup {x}) <= Cardinality(S) + 1
           /\ Cardinality(S \ {x}) \in Nat /\ Cardinality(S \ {x}) <= Cardinality(S)
  <1>1. Cardinality(S) \in Nat
    BY FS_CardinalityType
  <1>2. Cardinality(S \cup {x}) \in Nat /\ Cardinality(S \cup {x}) <= Cardinality(S) + 1
    BY <1>1, FS_AddElement
  <1>3. Cardinality(S \ {x}) \in Nat /\ Cardinality(S \ {x}) <= Cardinality(S)
    <2>1. IsFiniteSet(S \ {x}) /\ Cardinality(S \ {x}) \in Nat
      BY FS_Subset, FS_CardinalityType
    <2> QED
      BY <1>1, <2>1, FS_RemoveElement
  <1> QED
    BY <1>1, <1>2, <1>3

\* The room never shrinks over a step, and a SET that stores makes some.
LEMMA RoomStep ==
    ASSUME CallsTyped, CountersTyped, SumIssued <= MaxOps, [Next]_vars
    PROVE  /\ SumIssued' <= MaxOps /\ Room \in Int /\ Room' \in Int /\ Room' >= Room
           /\ \A t \in Threads : SetInsert(t) => Room' >= Room + 1
  <1> DEFINE Points == SetPoints \cup {"incr_cache"}
             Set == Setting'
  <1>0. SumIssued \in Nat /\ IsFiniteSet(Setting) /\ Cardinality(Setting) \in Nat /\ Room \in Int
    BY SettingFinite DEF CountersTyped, SumIssued, Room
  <1>1. CASE UNCHANGED <<pc, issued>>
    <2>1. Set = Setting /\ SumIssued' = SumIssued
      BY <1>1 DEF Setting, SumIssued
    <2>2. Room' = Room
      BY <2>1 DEF Room
    <2>3. \A t \in Threads : ~ SetInsert(t)
      BY <1>1 DEF SetInsert, At, Goto, CallsTyped
    <2> QED
      BY <1>0, <2>1, <2>2, <2>3
  <1>2. ASSUME NEW t \in Threads, NEW q, Goto(t, q)
        PROVE  Set = IF q \in Points THEN Setting \cup {t} ELSE Setting \ {t}
    BY <1>2 DEF Setting, CallsTyped, Goto
  <1>3. ASSUME NEW t \in Threads, Start(t)
        PROVE  /\ SumIssued' <= MaxOps /\ Room' \in Int /\ Room' >= Room
               /\ \A u \in Threads : ~ SetInsert(u)
    <2>1. PICK op, first, r : Begin(t, op, first, r) /\ first \in Entries
      BY <1>3, StartEnters
    <2>2. SumIssued' = SumIssued + 1 /\ SumIssued < MaxOps
      BY <2>1 DEF Begin, SumIssued, CountersTyped
    <2>3. Cardinality(Set) \in Nat /\ Cardinality(Set) <= Cardinality(Setting) + 1
      <3>1. Set = Setting \cup {t} \/ Set = Setting \ {t}
        BY <1>2, <2>1 DEF Begin
      <3> HIDE DEF Set
      <3>2. /\ Cardinality(Setting \cup {t}) \in Nat
            /\ Cardinality(Setting \cup {t}) <= Cardinality(Setting) + 1
        BY <1>0, CountAround
      <3>3. /\ Cardinality(Setting \ {t}) \in Nat
            /\ Cardinality(Setting \ {t}) <= Cardinality(Setting)
        BY <1>0, CountAround
      <3>4. Cardinality(Setting) <= Cardinality(Setting) + 1
        BY <1>0
      <3>5. CASE Set = Setting \cup {t}
        BY <3>2, <3>5
      <3>6. CASE Set = Setting \ {t}
        BY <1>0, <3>3, <3>6
      <3> QED
        BY <3>1, <3>5, <3>6
    <2>4. Room' = SumIssued' - Cardinality(Set)
      BY DEF Room
    <2> HIDE DEF Set
    <2>5. Room' \in Int /\ Room' >= Room
      BY <1>0, <2>2, <2>3, <2>4 DEF Room
    <2>6. \A u \in Threads : ~ SetInsert(u)
      <3> SUFFICES ASSUME NEW u \in Threads, SetInsert(u) PROVE FALSE
        OBVIOUS
      <3>1. UNCHANGED issued
        BY DEF SetInsert
      <3> QED
        BY <1>0, <2>2, <3>1 DEF SumIssued
    <2> QED
      BY <1>0, <2>2, <2>5, <2>6, CacheAssumption
  <1>4. ASSUME NEW t \in Threads, Proceed(t)
        PROVE  /\ SumIssued' = SumIssued /\ Room' \in Int /\ Room' >= Room
               /\ SetInsert(t) => Room' >= Room + 1
    <2>1. SumIssued' = SumIssued
      BY <1>4 DEF Proceed, SetCheck, EvictLockCache, EvictLockSize, Evict, SetLockCache,
                  SetInsert, SetStats, Get, GetExpire, GetStats, Delete, DeleteSize,
                  DeleteStats, Exists, Incr, StatsLock, UpdateLockCache, UpdateStats,
                  ClearLockCache, Clear, SumIssued
    <2>2. PICK e \in Edges : Moves(t, e[1], e[2])
      BY <1>4, ProceedMoves
    <2>3. e[2] \in Points => e[1] \in Points
      BY DEF Edges, SetPoints
    <2>4. Set = IF e[2] \in Points THEN Setting ELSE Setting \ {t}
      BY <1>2, <2>2, <2>3 DEF Moves, At, Setting
    <2>5. Cardinality(Set) \in Nat /\ Cardinality(Set) <= Cardinality(Setting)
      <3>1. Set = Setting \/ Set = Setting \ {t}
        BY <2>4
      <3>2. Cardinality(Setting \ {t}) \in Nat /\ Cardinality(Setting \ {t}) <= Cardinality(Setting)
        BY <1>0, CountAround
      <3> HIDE DEF Set
      <3> QED
        BY <1>0, <3>1, <3>2
    <2>6. Room' = SumIssued' - Cardinality(Set)
      BY DEF Room
    <2>7. SetInsert(t) => Cardinality(Set) = Cardinality(Setting) - 1
      <3> SUFFICES ASSUME SetInsert(t) PROVE Cardinality(Set) = Cardinality(Setting) - 1
        OBVIOUS
      <3>1. Set = Setting \ {t} /\ t \in Setting
        BY <1>2 DEF SetInsert, At, Setting, SetPoints
      <3> QED
        BY <1>0, <3>1, FS_RemoveElement
    <2> HIDE DEF Set
    <2> QED
      BY <1>0, <2>1, <2>5, <2>6, <2>7 DEF Room
  <1>5. ASSUME NEW t \in Threads, NEW u \in Threads, Proceed(t), SetInsert(u) PROVE SetInsert(t)
    <2>1. CASE u = t
      BY <1>5, <2>1
    <2>2. CASE u # t
      <3>1. pc[u] = "set_size" /\ pc'[u] = "set_stats"
        BY <1>5 DEF SetInsert, At, Goto, CallsTyped
      <3>2. \E q : Goto(t, q)
        BY <1>5, ProceedMoves DEF Moves
      <3>3. pc'[u] = pc[u]
        BY <2>2, <3>2 DEF Goto, CallsTyped
      <3> QED
        BY <3>1, <3>3
    <2> QED
      BY <2>1, <2>2
  <1>6. CASE \E t \in Threads : Start(t)
    BY <1>0, <1>3, <1>6
  <1>7. CASE \E t \in Threads : Proceed(t)
    BY <1>0, <1>4, <1>5, <1>7
  <1> QED
    BY <1>1, <1>6, <1>7 DEF Next, Tick, vars

-----------------------------------------------------------------------------
\* What a SET carries is one entry at most.
LEMMA FitStep ==
    ASSUME CallsTyped, EntriesFit, [Next]_vars
    PROVE  EntriesFit'
  <1>1. CASE UNCHANGED <<pc, req>>
    BY <1>1 DEF EntriesFit
  <1>2. ASSUME NEW t \in Threads, \A u \in Threads \ {t} : pc'[u] = pc[u] /\ req'[u] = req[u],
               pc'[t] \in SetPoints => compressed_len(req'[t].value) <= MaxEntry
        PROVE  EntriesFit'
    BY <1>2 DEF EntriesFit
  <1>3. ASSUME NEW t \in Threads, BeginSet(t) PROVE EntriesFit'
    <2>1. PICK k \in Keys, v \in Values, ttl \in Ttls :
             Begin(t, "set", "set_check", SetRequest(k, v, ttl))
      BY <1>3 DEF BeginSet
    <2>2. req'[t].value = compress(v) /\ \A u \in Threads \ {t} : pc'[u] = pc[u] /\ req'[u] = req[u]
      BY <2>1 DEF Begin, Goto, CallsTyped, SetRequest, NoRequest
    <2> QED
      BY <1>2, <2>2, EntryBound
  <1>4. ASSUME NEW t \in Threads, BeginKeyed(t) \/ BeginStats(t) \/ BeginClear(t) PROVE EntriesFit'
    <2>1. PICK op, first, r : Begin(t, op, first, r) /\ first \notin SetPoints
      <3>1. \A op \in DOMAIN KeyedOps : KeyedOps[op] \notin SetPoints
        BY DEF KeyedOps, SetPoints
      <3>2. "stats_stats" \notin SetPoints /\ "clear_cache" \notin SetPoints
        BY DEF SetPoints
      <3> QED
        BY <1>4, <3>1, <3>2 DEF BeginKeyed, BeginStats, BeginClear
    <2>2. pc'[t] = first /\ \A u \in Threads \ {t} : pc'[u] = pc[u] /\ req'[u] = req[u]
      BY <2>1 DEF Begin, Goto, CallsTyped
    <2> QED
      BY <1>2, <2>1, <2>2
  <1>5. ASSUME NEW t \in Threads, Incr(t) PROVE EntriesFit'
    <2>1. \A u \in Threads \ {t} : pc'[u] = pc[u] /\ req'[u] = req[u]
      BY <1>5 DEF Incr, Return, Goto, CallsTyped
    <2>2. CASE req[t].key \in DOMAIN cache
      <3>1. pc'[t] = "idle" /\ "idle" \notin SetPoints
        BY <1>5, <2>2 DEF Incr, Return, Goto, CallsTyped, SetPoints
      <3> QED
        BY <1>2, <2>1, <3>1
    <2>3. CASE req[t].key \notin DOMAIN cache
      <3>1. req'[t].value = compress(to_string(1))
        BY <1>5, <2>3 DEF Incr, CallsTyped, SetRequest, NoRequest
      <3> QED
        BY <1>2, <2>1, <3>1, EntryBound
    <2> QED
      BY <2>2, <2>3
  <1>6. ASSUME NEW t \in Threads, SetCheck(t) PROVE EntriesFit'
    <2>1. \A u \in Threads \ {t} : pc'[u] = pc[u] /\ req'[u] = req[u]
      BY <1>6 DEF SetCheck, Goto, CallsTyped
    <2>2. req'[t].value = req[t].value /\ pc[t] \in SetPoints
      BY <1>6 DEF SetCheck, At, CallsTyped, SetPoints, RequestTyped, NoRequest
    <2> QED
      BY <1>2, <2>1, <2>2 DEF EntriesFit
  <1>7. ASSUME NEW t \in Threads,
               \/ EvictLockCache(t) \/ EvictLockSize(t) \/ SetLockCache(t) \/ SetInsert(t)
               \/ SetStats(t) \/ GetExpire(t) \/ GetStats(t) \/ DeleteSize(t)
               \/ StatsLock(t) \/ UpdateLockCache(t) \/ ClearLockCache(t)
        PROVE  EntriesFit'
    <2>1. UNCHANGED req /\ \A u \in Threads \ {t} : pc'[u] = pc[u]
      BY <1>7 DEF EvictLockCache, EvictLockSize, SetLockCache, SetInsert, SetStats,
                  GetExpire, GetStats, DeleteSize, StatsLock, UpdateLockCache, ClearLockCache,
                  Goto, CallsTyped
    <2>2. pc'[t] \in SetPoints => pc[t] \in SetPoints
      BY <1>7 DEF EvictLockCache, EvictLockSize, SetLockCache, SetInsert, SetStats,
                  GetExpire, GetStats, DeleteSize, StatsLock, UpdateLockCache, ClearLockCache,
                  At, Goto, CallsTyped, SetPoints
    <2> QED
      BY <1>2, <2>1, <2>2 DEF EntriesFit
  <1>8. ASSUME NEW t \in Threads,
               Get(t) \/ Delete(t) \/ DeleteStats(t) \/ Exists(t) \/ UpdateStats(t) \/ Clear(t)
        PROVE  EntriesFit'
    <2>1. \A u \in Threads \ {t} : pc'[u] = pc[u] /\ req'[u] = req[u]
      BY <1>8 DEF Get, Delete, DeleteStats, Exists, UpdateStats, Clear, Return, Goto, CallsTyped
    <2>2. pc'[t] \notin SetPoints
      BY <1>8 DEF Get, Delete, DeleteStats, Exists, UpdateStats, Clear, Return, Goto,
                  CallsTyped, SetPoints
    <2> QED
      BY <1>2, <2>1, <2>2
  <1>9. ASSUME NEW t \in Threads, Evict(t) PROVE EntriesFit'
    <2>1. \A u \in Threads \ {t} : pc'[u] = pc[u] /\ req'[u] = req[u]
      BY <1>9 DEF Evict, Goto, CallsTyped
    <2>2. req'[t].value = req[t].value /\ pc[t] \in SetPoints
      BY <1>9 DEF Evict, At, CallsTyped, SetPoints, RequestTyped, NoRequest
    <2> QED
      BY <1>2, <2>1, <2>2 DEF EntriesFit
  <1> QED
    BY <1>1, <1>3, <1>4, <1>5, <1>6, <1>7, <1>8, <1>9 DEF Next, Start, Proceed, Tick, vars

\* More room, more bytes: one entry for each.
LEMMA RoomScale ==
    ASSUME NEW m \in Int, NEW n \in Int, m <= n
    PROVE  /\ MaxEntry * m \in Int /\ MaxEntry * n \in Int /\ MaxEntry * m <= MaxEntry * n
           /\ MaxEntry * (m + 1) = MaxEntry * m + MaxEntry
  <1>1. MaxEntry \in Nat
    BY EntryBound
  <1>2. \A e \in Nat, a, b \in Int : a <= b => e * a \in Int /\ e * b \in Int /\ e * a <= e * b
    <2> TAKE e \in Nat, a, b \in Int
    <2> HAVE a <= b
    <2>1. PICK d \in Nat : b = a + d
      <3>1. b - a \in Nat /\ b = a + (b - a)
        OBVIOUS
      <3> QED
        BY <3>1
    <2>2. e * b = e * a + e * d /\ e * d \in Nat /\ e * a \in Int /\ e * b \in Int
      BY <2>1
    <2> QED
      BY <2>2
  <1>3. \A e \in Nat, a \in Int : e * (a + 1) = e * a + e
    OBVIOUS
  <1> QED
    BY <1>1, <1>2, <1>3

\* The size stays within its room over a step of t that adds nothing to it ...
LEMMA ShrinkStep ==
    ASSUME CallsTyped, SizeFits, NEW t \in Threads,
           SumIssued' <= MaxOps, Room \in Int, Room' \in Int, Room' >= Room,
           \A u \in Threads \ {t} : pc'[u] = pc[u] /\ req'[u] = req[u],
           Account \in Int, Account' \in Int, Account' <= Account,
           pc'[t] \in Owing => Account' + compressed_len(req'[t].value) <= Account
                                 /\ compressed_len(req'[t].value) \in Int
    PROVE  SizeFits'
  <1> DEFINE cap  == MaxEntry * Room
             next == MaxEntry * Room'
  <1>1. cap \in Int /\ next \in Int /\ cap <= next /\ Account <= cap
    BY RoomScale DEF SizeFits
  <1>2. \A u \in Threads : compressed_len(req[u].value) \in Int
    BY DEF CallsTyped, RequestTyped, compressed_len, HeaderSize
  <1>3. \A u \in Threads : pc[u] \in Owing => Account + compressed_len(req[u].value) <= cap
    BY DEF SizeFits
  <1> HIDE DEF cap, next
  <1>4. ASSUME NEW u \in Threads, pc'[u] \in Owing
        PROVE  Account' + compressed_len(req'[u].value) <= next
    <2>1. CASE u = t
      BY <1>1, <1>4, <2>1
    <2>2. CASE u # t
      <3>1. /\ Account + compressed_len(req[u].value) <= cap
            /\ compressed_len(req'[u].value) = compressed_len(req[u].value)
        BY <1>3, <1>4, <2>2
      <3> QED
        BY <1>1, <1>2, <3>1
    <2> QED
      BY <2>1, <2>2
  <1>5. Account' <= next
    BY <1>1
  <1>6. Room' >= 0
    BY DEF SizeFits
  <1> QED
    BY <1>4, <1>5, <1>6 DEF SizeFits, next

\* ... and over one while nobody else owes anything.
LEMMA AloneFitStep ==
    ASSUME CallsTyped, NEW t \in Threads, NobodyElseOwes(t), SumIssued' <= MaxOps, Room' >= 0,
           \A u \in Threads \ {t} : pc'[u] = pc[u], pc'[t] \notin Owing,
           Account' <= MaxEntry * Room'
    PROVE  SizeFits'
  BY DEF SizeFits, NobodyElseOwes

-----------------------------------------------------------------------------
\* A step of one thread leaves the calls of the others alone.
LEMMA OthersStay ==
    ASSUME CallsTyped, NEW t \in Threads, Start(t) \/ Proceed(t)
    PROVE  \A u \in Threads \ {t} : pc'[u] = pc[u] /\ req'[u] = req[u]
  <1>1. CASE Start(t)
    <2>1. PICK op, first, r : Begin(t, op, first, r)
      BY <1>1, StartEnters
    <2> QED
      BY <2>1 DEF Begin, Goto, CallsTyped
  <1>2. CASE Proceed(t)
    <2>1. \E q : Goto(t, q)
      BY <1>2, ProceedMoves DEF Moves
    <2>2. UNCHANGED req \/ \E r : req' = [req EXCEPT ![t] = r]
      <3>1. CASE SetCheck(t)
        <4>1. req' = [req EXCEPT ![t] = [@ EXCEPT !.current = current_size,
                                                    !.created_at = now]]
          BY <3>1 DEF SetCheck
        <4> QED
          BY <4>1
      <3>2. CASE Get(t)
        <4>1. \/ UNCHANGED req
              \/ req' = [req EXCEPT ![t] = [@ EXCEPT !.value = cache[req[t].key].samples]]
              \/ req' = [req EXCEPT ![t] = [@ EXCEPT !.found = TRUE]]
          BY <3>2 DEF Get
        <4> QED
          BY <4>1
      <3>3. CASE Delete(t)
        <4>1. \/ req' = [req EXCEPT ![t] = [@ EXCEPT !.value = cache[req[t].key].samples]]
              \/ Return(t, 0)
          BY <3>3 DEF Delete
        <4> QED
          BY <4>1 DEF Return
      <3>4. CASE Incr(t)
        BY <3>4 DEF Incr, Return
      <3>5. CASE DeleteStats(t) \/ Exists(t) \/ UpdateStats(t) \/ Clear(t)
        BY <3>5 DEF DeleteStats, Exists, UpdateStats, Clear, Return
      <3>7. CASE Evict(t)
        <4>1. req' = [req EXCEPT ![t] = [@ EXCEPT !.created_at = now]]
          BY <3>7 DEF Evict
        <4> QED
          BY <4>1
      <3>6. CASE \/ EvictLockCache(t) \/ EvictLockSize(t) \/ SetLockCache(t)
                 \/ SetInsert(t) \/ SetStats(t) \/ GetExpire(t) \/ GetStats(t) \/ DeleteSize(t)
                 \/ StatsLock(t) \/ UpdateLockCache(t) \/ ClearLockCache(t)
        BY <3>6 DEF EvictLockCache, EvictLockSize, SetLockCache, SetInsert, SetStats,
                    GetExpire, GetStats, DeleteSize, StatsLock, UpdateLockCache, ClearLockCache
      <3> QED
        BY <1>2, <3>1, <3>2, <3>3, <3>4, <3>5, <3>6, <3>7 DEF Proceed
    <2> QED
      BY <2>1, <2>2 DEF Goto, CallsTyped
  <1> QED
    BY <1>1, <1>2

ClaimPoints == {"set_cache", "set_size", "evict_cache", "evict_size", "evict_stats"}

\* Only the steps of a SET have a claim.
LEMMA NoClaim == \A point, r : point \notin ClaimPoints => Claim(point, r) = 0
  BY DEF Claim, ClaimPoints

\* The size check: what it lets pass fits, and what it does not let pass has to free
\* the excess first.
LEMMA CheckClaim ==
    ASSUME NoOverflow, CacheInv, EntriesFit, SizeFits, grown >= drift, Room \in Int,
           NEW t \in Threads, SetCheck(t), Claim(pc'[t], req'[t]) # 0
    PROVE  CompressedBytes(cache) - grown + Claim(pc'[t], req'[t]) <= MaxSize
  <1> DEFINE B     == CompressedBytes(cache)
             len   == compressed_len(req[t].value)
             total == Add(current_size, len)
  <1>1. /\ B \in Nat /\ drift \in Int /\ grown \in Nat /\ len \in Nat /\ current_size \in Int
        /\ Usize \in Nat \ {0} /\ MaxSize \in Nat /\ MaxEntry \in Nat /\ len <= MaxEntry
    <2>1. B \in Nat
      BY EntrySizes, BytesType DEF CacheInv
    <2>2. drift \in Int /\ grown \in Nat /\ current_size \in Int
      BY CacheAssumption DEF CacheInv, CountersTyped
    <2>3. len \in Nat
      BY DEF CacheInv, CallsTyped, RequestTyped, compressed_len, HeaderSize
    <2>4. len <= MaxEntry
      BY DEF EntriesFit, SetCheck, At, SetPoints
    <2> QED
      BY <2>1, <2>2, <2>3, <2>4, CacheAssumption, EntryBound
  \* What the check reads is the account, with an entry on its way out perhaps.
  <1>2. PICK a \in Int : current_size = a % Usize /\ B - drift <= a /\ a <= MaxEntry * Room
    <2>1. CASE \A u \in Threads : pc[u] \notin Owing
      <3>1. current_size = (B - drift) % Usize /\ B - drift \in Int /\ B - drift <= MaxEntry * Room
        BY <1>1, <2>1 DEF CacheInv, Accounted, SizeFits, Account
      <3> QED
        BY <3>1
    <2>2. ASSUME NEW u \in Threads, pc[u] \in Owing
          PROVE  \E a \in Int : current_size = a % Usize /\ B - drift <= a /\ a <= MaxEntry * Room
      <3> DEFINE owed == compressed_len(req[u].value)
                 a    == (B - drift) + owed
      <3>1. owed \in Nat
        BY DEF CacheInv, CallsTyped, RequestTyped, compressed_len, HeaderSize
      <3>2. current_size = (B + owed - drift) % Usize /\ a <= MaxEntry * Room
        BY <2>2 DEF CacheInv, Accounted, SizeFits, Account
      <3>3. a \in Int /\ a = B + owed - drift /\ B - drift <= a
        BY <1>1, <3>1
      <3> HIDE DEF a
      <3> QED
        BY <3>2, <3>3
    <2> QED
      BY <2>1, <2>2
  <1>3. a + len < Usize
    <2>1. t \in Setting /\ Cardinality(Setting) >= 1
      <3>1. t \in Setting
        BY DEF SetCheck, At, Setting, SetPoints
      <3>2. Cardinality(Setting \ {t}) \in Nat /\ Cardinality(Setting) = Cardinality(Setting \ {t}) + 1
        BY <3>1, SettingFinite, FS_RemoveElement, FS_Subset, FS_CardinalityType
      <3> QED
        BY <3>1, <3>2
    <2>2. Room + 1 <= MaxOps /\ MaxOps \in Int
      <3>1. SumIssued \in Int /\ SumIssued <= MaxOps
        BY DEF SumIssued, CacheInv, CountersTyped, SizeFits
      <3> QED
        BY <2>1, <3>1, SettingFinite, CacheAssumption DEF Room
    <2>3. MaxEntry * (Room + 1) <= MaxEntry * MaxOps /\ MaxEntry * (Room + 1) \in Int
          /\ MaxEntry * MaxOps \in Int
      <3>1. Room + 1 \in Int
        OBVIOUS
      <3> QED
        BY <2>2, <3>1, RoomScale
    <2>4. MaxEntry * (Room + 1) = MaxEntry * Room + MaxEntry /\ MaxEntry * Room \in Int
      BY RoomScale
    <2> QED
      BY <1>1, <1>2, <2>3, <2>4 DEF NoOverflow
  <1>4. total = (a + len) % Usize
    <2>1. total = Add(a % Usize, len) /\ len \in Int
      BY <1>1, <1>2
    <2> HIDE DEF total, len
    <2> QED
      BY <2>1, ReducedEarly
  <1>5. total >= a + len /\ total \in Nat
    <2>1. a + len \in Int
      BY <1>1
    <2> QED
      BY <1>1, <1>3, <1>4, <2>1, ModAbove
  <1>6. B - grown + len <= total
    BY <1>1, <1>2, <1>5
  <1>7. CASE total <= MaxSize
    <2>1. pc'[t] = "set_cache" /\ req'[t].value = req[t].value
      BY <1>7 DEF SetCheck, Goto, CacheInv, CallsTyped, RequestTyped, NoRequest
    <2>2. Claim(pc'[t], req'[t]) = len
      BY <2>1 DEF Claim
    <2> QED
      BY <1>1, <1>5, <1>6, <1>7, <2>2
  <1>8. CASE ~ (total <= MaxSize)
    <2>1. /\ pc'[t] = "evict_cache" /\ req'[t].value = req[t].value
          /\ req'[t].current = current_size
      BY <1>8 DEF SetCheck, Goto, CacheInv, CallsTyped, RequestTyped, NoRequest
    <2>2. needed(req'[t]) = AtLeast0(total - MaxSize)
      BY <2>1 DEF needed
    <2>3. Claim(pc'[t], req'[t]) = AtLeast0(len - needed(req'[t]))
      BY <2>1 DEF Claim
    <2> HIDE DEF total, len, B
    <2>4. needed(req'[t]) = total - MaxSize
      BY <1>1, <1>5, <1>8, <2>2 DEF AtLeast0
    <2>5. Claim(pc'[t], req'[t]) = len - (total - MaxSize)
      BY <1>1, <1>5, <2>3, <2>4 DEF AtLeast0
    <2>6. B - grown + Claim(pc'[t], req'[t]) <= MaxSize
      BY <1>1, <1>5, <1>6, <2>5
    <2> QED
      BY <2>6 DEF B
  <1> QED
    BY <1>7, <1>8

-----------------------------------------------------------------------------
\* The bound over every step.
LEMMA BoundStep ==
    ASSUME NoOverflow, CacheInv, CacheInv', BoundInv, [Next]_vars
    PROVE  BoundInv'
  <1> DEFINE B  == CompressedBytes(cache)
             B2 == CompressedBytes(cache')
  <1>0. /\ EntriesTyped /\ CallsTyped /\ CountersTyped /\ LockExclusion
        /\ EntriesTyped' /\ CallsTyped' /\ CountersTyped'
        /\ EntriesFit /\ SizeFits /\ ClaimsFit
    BY DEF CacheInv, BoundInv
  <1>1. EntriesFit'
    BY <1>0, FitStep
  <1>2. /\ SumIssued' <= MaxOps /\ Room \in Int /\ Room' \in Int /\ Room' >= Room
        /\ \A t \in Threads : SetInsert(t) => Room' >= Room + 1
    BY <1>0, RoomStep DEF SizeFits
  <1>3. /\ B \in Nat /\ B2 \in Nat /\ drift \in Int /\ drift' \in Int
        /\ grown \in Nat /\ grown' \in Nat /\ grown >= drift
        /\ Account = B - drift /\ Account' = B2 - drift'
        /\ Account \in Int /\ Account' \in Int
    <2>1. B \in Nat
      BY <1>0, EntrySizes, BytesType
    <2>2. B2 \in Nat
      <3>1. SizesTyped(cache')
        BY <1>0 DEF EntriesTyped, SizesTyped, size, compressed_len, HeaderSize
      <3> QED
        BY <3>1, BytesType
    <2>3. drift \in Int /\ drift' \in Int /\ grown \in Nat /\ grown' \in Nat /\ grown >= drift
      BY <1>0 DEF CountersTyped, ClaimsFit
    <2>4. Account = B - drift /\ Account' = B2 - drift'
      BY DEF Account
    <2> HIDE DEF B, B2
    <2> QED
      BY <2>1, <2>2, <2>3, <2>4
  <1>4. \A t \in Threads : compressed_len(req[t].value) \in Nat
    BY <1>0 DEF CallsTyped, RequestTyped, compressed_len, HeaderSize
  <1>5. \A t \in Threads : Claim(pc[t], req[t]) \in Nat
    BY <1>0, ClaimType DEF CallsTyped, EntriesFit
  \* A step of t that adds nothing to the map and claims nothing new.
  <1>6. ASSUME NEW t \in Threads, \A u \in Threads \ {t} : pc'[u] = pc[u] /\ req'[u] = req[u],
               B2 <= B, UNCHANGED <<drift, grown>>,
               Claim(pc'[t], req'[t]) <= Claim(pc[t], req[t]) /\ Claim(pc'[t], req'[t]) \in Int,
               pc'[t] \in Owing => B2 + compressed_len(req'[t].value) <= B
                                     /\ compressed_len(req'[t].value) \in Int
        PROVE  BoundInv'
    <2>1. SizeFits'
      <3>1. Account' <= Account
        BY <1>3, <1>6
      <3>2. pc'[t] \in Owing => Account' + compressed_len(req'[t].value) <= Account
                                 /\ compressed_len(req'[t].value) \in Int
        BY <1>3, <1>6
      <3> QED
        BY <1>0, <1>2, <1>3, <1>6, <3>1, <3>2, ShrinkStep
    <2>2. ClaimsFit'
      <3>1. B2 - grown' + Claim(pc'[t], req'[t]) <= B - grown + Claim(pc[t], req[t])
        BY <1>3, <1>5, <1>6
      <3>2. grown' >= drift'
        BY <1>3, <1>6
      <3> QED
        BY <1>0, <1>1, <1>6, <3>1, <3>2, ClaimStep
    <2> QED
      BY <1>1, <2>1, <2>2 DEF BoundInv
  <1>7. CASE UNCHANGED <<cache, pc, req, drift, grown, issued>>
    <2>1. EntriesFit' /\ Claims' = Claims /\ Account' = Account /\ Room' = Room
          /\ SumIssued' = SumIssued
      BY <1>0, <1>7 DEF EntriesFit, Claims, Account, Room, SumIssued, Setting
    <2>2. SizeFits'
      BY <1>0, <1>7, <2>1 DEF SizeFits
    <2>3. ClaimsFit'
      BY <1>0, <1>7, <2>1 DEF ClaimsFit
    <2> QED
      BY <2>1, <2>2, <2>3 DEF BoundInv
  <1>8. ASSUME NEW t \in Threads, Start(t) PROVE BoundInv'
    <2>1. PICK op, first, r : Begin(t, op, first, r) /\ first \in Entries
      BY <1>8, StartEnters
    <2>2. pc'[t] = first /\ UNCHANGED <<cache, drift, grown>>
      BY <1>0, <2>1 DEF Begin, Goto, CallsTyped
    <2>3. first \notin ClaimPoints /\ first \notin Owing
      BY <2>1 DEF Entries, ClaimPoints, Owing
    <2>4. Claim(pc'[t], req'[t]) = 0
      BY <2>2, <2>3, NoClaim
    <2>5. B2 <= B
      BY <1>3, <2>2
    <2> HIDE DEF B, B2
    <2> QED
      BY <1>0, <1>5, <1>6, <1>8, <2>2, <2>3, <2>4, <2>5, OthersStay
  \* The steps that only walk on.
  <1>9. ASSUME NEW t \in Threads,
               \/ EvictLockCache(t) \/ EvictLockSize(t) \/ SetLockCache(t)
               \/ SetStats(t) \/ GetStats(t) \/ DeleteStats(t) \/ Exists(t)
               \/ StatsLock(t) \/ UpdateLockCache(t) \/ UpdateStats(t) \/ ClearLockCache(t)
               \/ GetExpire(t) \/ DeleteSize(t)
        PROVE  BoundInv'
    <2>1. UNCHANGED <<cache, drift, grown>> /\ pc'[t] \notin Owing
      BY <1>0, <1>9 DEF EvictLockCache, EvictLockSize, SetLockCache, SetStats, GetStats,
                        DeleteStats, Exists, StatsLock, UpdateLockCache, UpdateStats,
                        ClearLockCache, GetExpire, DeleteSize, Return, Goto, CallsTyped, Owing
    <2>2. Claim(pc'[t], req'[t]) <= Claim(pc[t], req[t]) /\ Claim(pc'[t], req'[t]) \in Int
      <3>1. CASE EvictLockCache(t) \/ EvictLockSize(t) \/ SetLockCache(t)
        <4>1. /\ req'[t] = req[t]
              /\ \/ pc[t] = "evict_cache" /\ pc'[t] = "evict_size"
                 \/ pc[t] = "evict_size" /\ pc'[t] = "evict_stats"
                 \/ pc[t] = "set_cache" /\ pc'[t] = "set_size"
          BY <1>0, <3>1 DEF EvictLockCache, EvictLockSize, SetLockCache, At, Goto, CallsTyped
        <4>2. Claim(pc'[t], req'[t]) = Claim(pc[t], req[t])
          BY <4>1 DEF Claim
        <4> QED
          BY <1>5, <4>2
      <3>2. CASE ~ (EvictLockCache(t) \/ EvictLockSize(t) \/ SetLockCache(t))
        <4>1. pc'[t] \notin ClaimPoints
          BY <1>0, <1>9, <3>2 DEF SetStats, GetStats,
                        DeleteStats, Exists, StatsLock, UpdateLockCache, UpdateStats,
                        ClearLockCache, GetExpire, DeleteSize, Return, Goto, CallsTyped, ClaimPoints
        <4> QED
          BY <1>5, <4>1, NoClaim
      <3> QED
        BY <3>1, <3>2
    <2>3. B2 <= B
      BY <1>3, <2>1
    <2>4. \A u \in Threads \ {t} : pc'[u] = pc[u] /\ req'[u] = req[u]
      BY <1>0, <1>9, OthersStay DEF Proceed
    <2> HIDE DEF B, B2
    <2> QED
      BY <1>6, <2>1, <2>2, <2>3, <2>4
  <1>10. ASSUME NEW t \in Threads, Get(t) \/ Delete(t) PROVE BoundInv'
    <2> DEFINE k == req[t].key
    <2>0. /\ UNCHANGED <<drift, grown>> /\ pc'[t] \notin ClaimPoints
          /\ \A u \in Threads \ {t} : pc'[u] = pc[u] /\ req'[u] = req[u]
      <3>1. UNCHANGED <<drift, grown>> /\ pc'[t] \notin ClaimPoints
        BY <1>0, <1>10 DEF Get, Delete, Return, Goto, CallsTyped, ClaimPoints
      <3> QED
        BY <1>0, <1>10, <3>1, OthersStay DEF Proceed
    <2>1. Claim(pc'[t], req'[t]) <= Claim(pc[t], req[t]) /\ Claim(pc'[t], req'[t]) \in Int
      BY <1>5, <2>0, NoClaim
    <2>2. ASSUME k \in DOMAIN cache, cache' = Without(cache, {k}),
                 req' = [req EXCEPT ![t].value = cache[k].samples]
          PROVE  BoundInv'
      <3>1. SizesTyped(cache)
        BY <1>0, EntrySizes
      <3>2. B2 = B - size(cache[k]) /\ size(cache[k]) \in Nat
        BY <2>2, <3>1, BytesWithoutOne DEF SizesTyped
      <3>3. compressed_len(req'[t].value) = size(cache[k])
        BY <1>0, <2>2 DEF CallsTyped, RequestTyped, NoRequest, size
      <3>4. B2 <= B /\ B2 + compressed_len(req'[t].value) <= B
            /\ compressed_len(req'[t].value) \in Int
        BY <1>3, <3>2, <3>3
      <3> HIDE DEF B, B2
      <3> QED
        BY <1>6, <2>0, <2>1, <3>4
    <2>3. ASSUME UNCHANGED cache \/ B2 = B, pc'[t] \notin Owing PROVE BoundInv'
      <3>1. B2 <= B
        BY <1>3, <2>3
      <3> HIDE DEF B, B2
      <3> QED
        BY <1>6, <2>0, <2>1, <2>3, <3>1
    <2>4. CASE Get(t)
      <3>0. /\ Goto(t, "get_stats") => pc'[t] \notin Owing
        BY <1>0 DEF Goto, CallsTyped, Owing
      <3>1. ASSUME k \in DOMAIN cache, Goto(t, "get_stats"),
                   cache' = [cache EXCEPT ![k].last_accessed = now, ![k].access_count = @ + 1]
            PROVE  BoundInv'
        <4>1. B2 = B
          BY <1>0, <3>1, HitBytes
        <4> QED
          BY <2>3, <3>0, <3>1, <4>1
      <3> QED
        BY <2>2, <2>3, <2>4, <3>0, <3>1 DEF Get
    <2>5. CASE Delete(t)
      <3>1. Return(t, 0) => pc'[t] \notin Owing
        BY <1>0 DEF Return, Goto, CallsTyped, Owing
      <3> QED
        BY <2>2, <2>3, <2>5, <3>1 DEF Delete
    <2> QED
      BY <1>10, <2>4, <2>5
  <1>11. ASSUME NEW t \in Threads, SetCheck(t) PROVE BoundInv'
    <2>0. /\ UNCHANGED <<cache, drift, grown>> /\ pc'[t] \notin Owing
          /\ \A u \in Threads \ {t} : pc'[u] = pc[u] /\ req'[u] = req[u]
      <3>1. UNCHANGED <<cache, drift, grown>> /\ pc'[t] \notin Owing
        BY <1>0, <1>11 DEF SetCheck, Goto, CallsTyped, Owing
      <3> QED
        BY <1>0, <1>11, <3>1, OthersStay DEF Proceed
    <2>1. B2 = B
      BY <2>0
    <2>2. CASE Claim(pc'[t], req'[t]) = 0
      <3>1. B2 <= B
        BY <1>3, <2>1
      <3>2. Claim(pc'[t], req'[t]) <= Claim(pc[t], req[t]) /\ Claim(pc'[t], req'[t]) \in Int
        BY <1>5, <2>2
      <3> HIDE DEF B, B2
      <3> QED
        BY <1>6, <2>0, <3>1, <3>2
    <2>3. CASE Claim(pc'[t], req'[t]) # 0
      <3>1. B - grown + Claim(pc'[t], req'[t]) <= MaxSize
        BY <1>0, <1>2, <1>3, <1>11, <2>3, CheckClaim
      <3>2. Claim(pc'[t], req'[t]) \in Nat
        BY <1>0, <1>1, ClaimType DEF CallsTyped, EntriesFit
      <3>3. B2 - grown' + Claim(pc'[t], req'[t]) <= Ceiling
        BY <1>3, <2>0, <2>1, <3>1, <3>2, CeilingBound, CacheAssumption
      <3>4. ClaimsFit'
        BY <1>0, <1>1, <1>3, <2>0, <3>3, ClaimStep
      <3>5. SizeFits'
        BY <1>0, <1>2, <1>3, <2>0, <2>1, ShrinkStep
      <3> QED
        BY <1>1, <3>4, <3>5 DEF BoundInv
    <2> QED
      BY <2>2, <2>3
  <1>12. ASSUME NEW t \in Threads, Evict(t) PROVE BoundInv'
    <2>0. /\ UNCHANGED <<drift, grown>> /\ pc[t] = "evict_stats" /\ pc'[t] = "set_cache"
          /\ "set_cache" \notin Owing /\ req'[t].value = req[t].value
          /\ \A u \in Threads \ {t} : pc'[u] = pc[u] /\ req'[u] = req[u]
      <3>1. /\ UNCHANGED <<drift, grown>> /\ pc[t] = "evict_stats" /\ pc'[t] = "set_cache"
            /\ "set_cache" \notin Owing
        BY <1>0, <1>12 DEF Evict, At, Goto, CallsTyped, Owing
      <3>2. req'[t].value = req[t].value
        BY <1>0, <1>12 DEF Evict, CallsTyped, RequestTyped, NoRequest
      <3> QED
        BY <1>0, <1>12, <3>1, <3>2, OthersStay DEF Proceed
    <2> DEFINE len  == compressed_len(req[t].value)
               need == needed(req[t])
    <2>1. PICK S \in EvictionSets(req[t]) :
             /\ S \in SUBSET DOMAIN cache /\ Freed(S) \in Int
             /\ cache' = Without(cache, S) /\ B2 = B - Freed(S)
      BY <1>0, <1>12, EvictBytes
    <2>2. Freed(S) \in Nat
      <3>1. IsFiniteSet(S) /\ \A k \in S : Sizes(cache)[k] \in Nat
        BY <1>0, <2>1, FS_Subset, EntrySizes DEF EntriesTyped, SizesTyped, Sizes
      <3> QED
        BY <3>1, SumNat DEF Freed
    <2>3. Claim(pc'[t], req'[t]) = len /\ Claim(pc[t], req[t]) = AtLeast0(len - need)
      BY <2>0 DEF Claim
    <2>4. len \in Nat /\ need \in Nat /\ len <= MaxEntry /\ MaxEntry \in Nat
      <3>1. RequestTyped(req[t]) /\ pc[t] \in SetPoints
        BY <1>0, <2>0 DEF CallsTyped, SetPoints
      <3>2. len <= MaxEntry
        BY <1>0, <3>1 DEF EntriesFit
      <3> QED
        BY <3>1, <3>2, ClaimType, EntryBound
    <2>5. \/ B2 - grown' + Claim(pc'[t], req'[t]) <= B - grown + Claim(pc[t], req[t])
          \/ B2 - grown' + Claim(pc'[t], req'[t]) <= Ceiling
      <3>1. Freed(S) >= need \/ S = DOMAIN cache
        BY <2>1 DEF EvictionSets
      <3>2. CASE Freed(S) >= need
        <4>1. B2 + len <= B + AtLeast0(len - need)
          <5> HIDE DEF B, B2, len, need
          <5> QED
            BY <1>3, <2>1, <2>2, <2>4, <3>2 DEF AtLeast0
        <4>2. AtLeast0(len - need) \in Int
          BY <2>4 DEF AtLeast0
        <4> HIDE DEF B, B2, len, need
        <4>3. B2 - grown' + len <= B - grown + AtLeast0(len - need)
          BY <1>3, <2>0, <2>4, <4>1, <4>2
        <4> QED
          BY <2>3, <4>3
      <3>3. CASE S = DOMAIN cache
        <4>1. DOMAIN cache' = {}
          BY <2>1, <3>3 DEF Without
        <4>2. B2 = 0
          BY <4>1, NoBytes
        <4> HIDE DEF B, B2, len, need
        <4>3. B2 - grown' + len <= Ceiling
          BY <1>3, <2>0, <2>4, <4>2, CeilingBound
        <4> QED
          BY <2>3, <4>3
      <3> QED
        BY <3>1, <3>2, <3>3
    <2>6. ClaimsFit'
      BY <1>0, <1>1, <1>3, <2>0, <2>5, ClaimStep
    <2>7. SizeFits'
      <3>1. Account' <= Account
        BY <1>3, <2>0, <2>1, <2>2
      <3> QED
        BY <1>0, <1>2, <1>3, <2>0, <3>1, ShrinkStep
    <2> QED
      BY <1>1, <2>6, <2>7 DEF BoundInv
  <1>13. ASSUME NEW t \in Threads, SetInsert(t) PROVE BoundInv'
    <2> DEFINE len == compressed_len(req[t].value)
    <2>0. /\ UNCHANGED <<drift, grown>> /\ pc[t] = "set_size" /\ pc'[t] = "set_stats"
          /\ pc'[t] \notin Owing /\ pc'[t] \notin ClaimPoints
          /\ \A u \in Threads \ {t} : pc'[u] = pc[u] /\ req'[u] = req[u]
      <3>1. /\ UNCHANGED <<drift, grown>> /\ pc[t] = "set_size" /\ pc'[t] = "set_stats"
            /\ pc'[t] \notin Owing /\ pc'[t] \notin ClaimPoints
        BY <1>0, <1>13 DEF SetInsert, At, Goto, CallsTyped, Owing, ClaimPoints
      <3> QED
        BY <1>0, <1>13, <3>1, OthersStay DEF Proceed
    <2>1. PICK old \in Nat : B2 = (B - old) + len
      BY <1>0, <1>13, InsertBytes
    <2>2. len \in Nat /\ len <= MaxEntry /\ MaxEntry \in Nat
      BY <1>0, <1>4, <2>0, EntryBound DEF EntriesFit, SetPoints
    <2>3. Claim(pc'[t], req'[t]) = 0 /\ Claim(pc[t], req[t]) = len
      BY <2>0, NoClaim DEF Claim
    <2>4. ClaimsFit'
      <3>1. B2 - grown' + Claim(pc'[t], req'[t]) <= B - grown + Claim(pc[t], req[t])
        <4> HIDE DEF B, B2, len
        <4> QED
          BY <1>3, <2>0, <2>1, <2>2, <2>3
      <3> QED
        BY <1>0, <1>1, <1>3, <2>0, <3>1, ClaimStep
    <2>5. Account' <= Account + MaxEntry
      <3> HIDE DEF B, B2, len
      <3> QED
        BY <1>3, <2>0, <2>1, <2>2
    <2>6. Account' <= MaxEntry * Room'
      <3>1. Room' >= Room + 1 /\ Room + 1 \in Int
        BY <1>2, <1>13
      <3>2. MaxEntry * (Room + 1) <= MaxEntry * Room' /\ MaxEntry * (Room + 1) \in Int
            /\ MaxEntry * Room' \in Int
        BY <1>2, <3>1, RoomScale
      <3>3. MaxEntry * (Room + 1) = MaxEntry * Room + MaxEntry /\ MaxEntry * Room \in Int
        BY <1>2, RoomScale
      <3>4. Account <= MaxEntry * Room
        BY <1>0 DEF SizeFits
      <3> QED
        BY <1>3, <2>2, <2>5, <3>2, <3>3, <3>4
    <2>7. NobodyElseOwes(t)
      BY <1>0, <1>13, MapWriterAlone DEF SetInsert, Holds
    <2>8. SizeFits'
      <3>1. Room' >= 0
        BY <1>0, <1>2 DEF SizeFits
      <3> QED
        BY <1>0, <1>2, <2>0, <2>6, <2>7, <3>1, AloneFitStep
    <2> QED
      BY <1>1, <2>4, <2>8 DEF BoundInv
  <1>14. ASSUME NEW t \in Threads, Incr(t) PROVE BoundInv'
    <2>0. /\ pc'[t] \notin Owing /\ pc'[t] \notin ClaimPoints
          /\ \A u \in Threads \ {t} : pc'[u] = pc[u] /\ req'[u] = req[u]
      <3>1. pc'[t] \notin Owing /\ pc'[t] \notin ClaimPoints
        BY <1>0, <1>14 DEF Incr, Return, Goto, CallsTyped, Owing, ClaimPoints
      <3> QED
        BY <1>0, <1>14, <3>1, OthersStay DEF Proceed
    <2>1. Claim(pc'[t], req'[t]) = 0 /\ Claim(pc[t], req[t]) \in Nat
      BY <1>5, <2>0, NoClaim
    <2>2. CASE req[t].key \notin DOMAIN cache
      <3>1. UNCHANGED <<cache, drift, grown>>
        BY <1>14, <2>2 DEF Incr
      <3>2. B2 <= B
        BY <1>3, <3>1
      <3> HIDE DEF B, B2
      <3> QED
        BY <1>6, <2>0, <2>1, <3>1, <3>2
    <2>3. CASE req[t].key \in DOMAIN cache
      <3>1. PICK growth \in Int : /\ B2 = B + growth /\ drift' = drift + growth
                                 /\ grown' = grown + AtLeast0(growth)
        BY <1>0, <1>14, <2>3, IncrBytes
      <3> HIDE DEF B, B2
      <3>2. /\ Account' <= Account /\ grown' >= drift'
            /\ B2 - grown' + Claim(pc'[t], req'[t]) <= B - grown + Claim(pc[t], req[t])
        BY <1>3, <2>1, <3>1 DEF AtLeast0
      <3>3. ClaimsFit'
        BY <1>0, <1>1, <2>0, <3>2, ClaimStep DEF B, B2
      <3>4. SizeFits'
        BY <1>0, <1>2, <1>3, <2>0, <3>2, ShrinkStep
      <3> QED
        BY <1>1, <3>3, <3>4 DEF BoundInv
    <2> QED
      BY <2>2, <2>3
  <1>15. ASSUME NEW t \in Threads, Clear(t) PROVE BoundInv'
    <2>0. /\ pc'[t] \notin Owing /\ pc'[t] \notin ClaimPoints /\ drift' = 0 /\ grown' = 0
          /\ \A u \in Threads \ {t} : pc'[u] = pc[u] /\ req'[u] = req[u]
      <3>1. pc'[t] \notin Owing /\ pc'[t] \notin ClaimPoints /\ drift' = 0 /\ grown' = 0
        BY <1>0, <1>15 DEF Clear, Return, Goto, CallsTyped, Owing, ClaimPoints
      <3> QED
        BY <1>0, <1>15, <3>1, OthersStay DEF Proceed
    <2>1. B2 = 0
      <3>1. DOMAIN cache' = {}
        BY <1>15 DEF Clear, Without
      <3> QED
        BY <3>1, NoBytes
    <2>2. Claim(pc'[t], req'[t]) = 0
      BY <2>0, NoClaim
    <2>3. ClaimsFit'
      <3>1. B2 - grown' + Claim(pc'[t], req'[t]) <= Ceiling /\ grown' >= drift'
        <4> HIDE DEF B2
        <4> QED
          BY <2>0, <2>1, <2>2, CeilingBound
      <3> QED
        BY <1>0, <1>1, <2>0, <3>1, ClaimStep
    <2>4. Account' <= MaxEntry * Room'
      <3>1. Account' = 0
        BY <1>3, <2>0, <2>1
      <3>2. Room' >= 0
        BY <1>0, <1>2 DEF SizeFits
      <3>3. MaxEntry * 0 = 0 /\ MaxEntry * 0 <= MaxEntry * Room'
        <4>1. MaxEntry * 0 = 0
          BY EntryBound
        <4>2. 0 \in Int /\ Room' \in Int /\ 0 <= Room'
          BY <1>2, <3>2
        <4> QED
          BY <4>1, <4>2, RoomScale
      <3> QED
        BY <3>1, <3>3
    <2>5. NobodyElseOwes(t)
      BY <1>0, <1>15, MapWriterAlone DEF Clear, Holds
    <2>6. SizeFits'
      <3>1. Room' >= 0
        BY <1>0, <1>2 DEF SizeFits
      <3> QED
        BY <1>0, <1>2, <2>0, <2>4, <2>5, <3>1, AloneFitStep
    <2> QED
      BY <1>1, <2>3, <2>6 DEF BoundInv
  <1> QED
    BY <1>7, <1>8, <1>9, <1>10, <1>11, <1>12, <1>13, <1>14, <1>15 DEF Next, Proceed, Tick, vars


\* The bound holds at the start.
LEMMA InitBound == Init => BoundInv
  <1> SUFFICES ASSUME Init PROVE BoundInv
    OBVIOUS
  <1>1. pc = [t \in Threads |-> "idle"] /\ drift = 0 /\ grown = 0 /\ SumIssued = 0
    BY DEF Init, SumIssued
  <1>2. CompressedBytes(cache) = 0
    <2>1. DOMAIN cache = {}
      BY DEF Init
    <2> QED
      BY <2>1, NoBytes
  <1>3. EntriesFit
    BY <1>1 DEF EntriesFit, SetPoints
  <1>4. SizeFits
    <2>1. Setting = {}
      BY <1>1 DEF Setting, SetPoints
    <2>2. Cardinality(Setting) = 0
      BY <2>1, FS_EmptySet
    <2>3. Room = 0 /\ Account = 0
      BY <1>1, <1>2, <2>2 DEF Room, Account
    <2>4. MaxEntry * Room = 0
      BY <2>3, EntryBound
    <2>5. \A t \in Threads : pc[t] \notin Owing
      BY <1>1 DEF Owing
    <2> QED
      BY <1>1, <2>3, <2>4, <2>5, CacheAssumption DEF SizeFits
  <1>5. ClaimsFit
    <2>1. \A t \in Threads : Claims[t] = 0
      BY <1>1, NoClaim DEF Claims, ClaimPoints
    <2>2. SumFunctionOnSet(Claims, Threads) <= 0 * Cardinality(Threads)
      BY <2>1, CacheAssumption, SumBound
    <2>3. SumFunctionOnSet(Claims, Threads) \in Int
      BY <2>1, CacheAssumption, SumInt
    <2>4. Cardinality(Threads) \in Nat
      BY CacheAssumption, FS_CardinalityType
    <2>5. \A n \in Nat, e \in Nat : (n - 1) * e = n * e - e /\ n * e \in Nat /\ 0 * n = 0
      OBVIOUS
    <2>6. (Cardinality(Threads) - 1) * MaxEntry \in Int
          /\ Ceiling + (Cardinality(Threads) - 1) * MaxEntry >= 0
      BY <2>4, <2>5, CeilingBound, EntryBound
    <2>7. SumFunctionOnSet(Claims, Threads) <= 0
      BY <2>2, <2>4, <2>5
    <2> QED
      BY <1>1, <1>2, <2>3, <2>6, <2>7, CeilingBound DEF ClaimsFit, Ceiling
  <1> QED
    BY <1>3, <1>4, <1>5 DEF BoundInv

\* SETs that race past the size check overshoot max_size by one entry for every other
\* thread at most, and by what INCRs made entries grow, as long as the size does not
\* wrap (the release profile compiles the check without an overflow test).
THEOREM OvershootWithin == NoOverflow => (Spec => []OvershootBounded)
  <1> SUFFICES ASSUME NoOverflow PROVE Spec => []OvershootBounded
    OBVIOUS
  <1>1. BoundInv /\ CacheInv => OvershootBounded
    <2> SUFFICES ASSUME BoundInv, CacheInv PROVE OvershootBounded
      OBVIOUS
    <2> DEFINE most == (Cardinality(Threads) - 1) * MaxEntry
               sum  == SumFunctionOnSet(Claims, Threads)
    <2>1. sum \in Nat
      <3>1. \A t \in Threads : Claims[t] \in Nat
        BY ClaimType DEF Claims, CacheInv, CallsTyped, BoundInv, EntriesFit
      <3> QED
        BY <3>1, CacheAssumption, SumNat
    <2>2. CompressedBytes(cache) \in Nat /\ grown \in Nat
      BY EntrySizes, BytesType DEF CacheInv, CountersTyped
    <2>3. most \in Int /\ Ceiling \in Nat
      BY CeilingBound, EntryBound, CacheAssumption, FS_CardinalityType
    <2>4. CompressedBytes(cache) - grown + sum <= Ceiling + most
      BY DEF BoundInv, ClaimsFit, Ceiling
    <2> HIDE DEF most, sum
    <2>5. CompressedBytes(cache) <= Ceiling + most + grown
      BY <2>1, <2>2, <2>3, <2>4
    <2> QED
      BY <2>5 DEF OvershootBounded, Ceiling, most
  <1>2. CacheInv /\ CacheInv' /\ BoundInv /\ [Next]_vars => BoundInv'
    BY BoundStep
  <1>3. Spec => []CacheInv
    BY CacheInvariant
  <1> QED
    BY <1>1, <1>2, <1>3, InitBound, PTL DEF Spec
=============================================================================
