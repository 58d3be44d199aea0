--------------------------- MODULE UaoQtcamCache ----------------------------
(***************************************************************************)
(* The UAO-QTCAM cache (src/uao_qtcam_cache.rs): a HashMap, its compressed *)
(* size and its statistics behind three separate std RwLocks, used by many *)
(* threads at once.                                                        *)
(*                                                                         *)
(* A thread is `idle' or at the control point that is about to take a      *)
(* lock; what a handler does between taking one lock and asking for the    *)
(* next, or returning, is one action.  Lock poisoning cannot happen: the   *)
(* release profile aborts on panic.  Sizes are usize and wrap, as they do  *)
(* in the release profile.                                                 *)
(***************************************************************************)
EXTENDS CacheCodec, RwLock

CONSTANTS Threads,     \* callers of the cache
          Keys,
          Values,      \* byte sequences that SET stores
          Ttls,        \* ttl arguments of SET, 0 for None
          Ops,         \* the operations the callers issue
          MaxSize,     \* max_size, compressed bytes
          Usize,       \* 2^w for the width w of usize
          MaxOps,      \* bound: operations issued in all
          MaxTime      \* bound: seconds the clock advances

ASSUME CacheAssumption ==
    /\ IsFiniteSet(Threads)
    /\ Values \subseteq Seq(Byte) /\ IsFiniteSet(Values)
    /\ Ttls \subseteq Nat
    /\ Ops \subseteq {"set", "get", "delete", "exists", "incr", "stats", "clear"}
    /\ Usize \in Nat \ {0} /\ MaxSize \in 0..(Usize - 1)
    /\ MaxOps \in Nat /\ MaxTime \in Nat

VARIABLES cache,         \* key -> CacheEntry, for the keys present
          current_size,
          stats,
          now,           \* chrono::Utc::now().timestamp()
          pc,            \* where each thread is
          req,           \* each thread's arguments, locals and last result
          issued,        \* ghost: operations issued so far, by kind
          drift,         \* ghost: bytes that INCRs added or took without accounting them
          grown          \* ghost: the bytes among them that they added

vars == <<cache, current_size, stats, now, pc, req, issued, drift, grown>>

-----------------------------------------------------------------------------
\* The lock each control point waits for ...
Acquires ==
    [set_check    |-> Read("current_size"),
     evict_cache  |-> Write("cache"),
     evict_size   |-> Write("current_size"),
     evict_stats  |-> Write("stats"),
     set_cache    |-> Write("cache"),
     set_size     |-> Write("current_size"),
     set_stats    |-> Write("stats"),
     get_cache    |-> Write("cache"),
     get_size     |-> Write("current_size"),
     get_stats    |-> Write("stats"),
     delete_cache |-> Write("cache"),
     delete_size  |-> Write("current_size"),
     delete_stats |-> Write("stats"),
     exists_cache |-> Read("cache"),
     incr_cache   |-> Write("cache"),
     clear_cache  |-> Write("cache"),
     clear_size   |-> Write("current_size"),
     stats_stats  |-> Write("stats"),
     update_cache |-> Read("cache"),          \* in update_stats_internal
     update_size  |-> Read("current_size")]

\* Slip: update_stats_internal reads the two maps without keeping the first lock.
Holds_NoCacheRead(point) ==
    CASE point \in {"evict_size", "set_size", "get_size",
                    "delete_size", "clear_size"}  -> {Write("cache")}
      [] point \in {"evict_stats", "delete_stats"} ->
            {Write("cache"), Write("current_size")}
      [] point \in {"update_cache", "update_size"} -> {Write("stats")}
      [] OTHER -> {}

\* ... and the grants it holds meanwhile.
Holds(point) ==
    CASE point \in {"evict_size", "set_size", "get_size",
                    "delete_size", "clear_size"}  -> {Write("cache")}
      [] point \in {"evict_stats", "delete_stats"} ->
            {Write("cache"), Write("current_size")}
      [] point = "update_cache" -> {Write("stats")}
      [] point = "update_size"  -> {Write("stats"), Read("cache")}
      [] OTHER -> {}

Steps == DOMAIN Acquires

\* Thread t is at this point and the lock it asks for is granted.
At(t, point) ==
    /\ pc[t] = point
    /\ \A u \in Threads \ {t} :
          \A g \in Holds(pc[u]) : Compatible(g, Acquires[point])

Goto(t, point) == pc' = [pc EXCEPT ![t] = point]

-----------------------------------------------------------------------------
Put(map, k, v) == [x \in DOMAIN map \cup {k} |-> IF x = k THEN v ELSE map[x]]
Without(map, S) == [x \in DOMAIN map \ S |-> map[x]]

Add(a, b) == (a + b) % Usize     \* usize arithmetic of the release profile
Sub(a, b) == (a - b) % Usize

AtLeast0(n) == IF n >= 0 THEN n ELSE 0      \* saturating_sub, of an exact difference

size(entry)     == compressed_len(entry.samples)
Sizes(map)           == [k \in DOMAIN map |-> size(map[k])]
CompressedBytes(map) == SumFunction(Sizes(map))
OriginalBytes(map)   == SumFunction([k \in DOMAIN map |-> map[k].original_size])

NewEntry(r) ==
    [samples |-> r.value, original_size |-> r.original_size,
     created_at |-> r.created_at, last_accessed |-> r.created_at, access_count |-> 0,
     ttl |-> r.ttl]

expired(entry) == entry.ttl > 0 /\ now > entry.created_at + entry.ttl

-----------------------------------------------------------------------------
NoRequest == [key |-> "none", value |-> <<>>,
              original_size |-> 0, ttl |-> 0, current |-> 0, created_at |-> 0,
              found |-> FALSE, counter |-> 0]

Init ==
    /\ cache = [k \in {} |-> NoRequest]
    /\ current_size = 0
    /\ stats = [hits |-> 0, misses |-> 0, sets |-> 0, deletes |-> 0,
                evictions |-> 0, entry_count |-> 0,
                compressed_bytes |-> 0, original_bytes |-> 0]
    /\ now = 0
    /\ pc = [t \in Threads |-> "idle"]
    /\ req = [t \in Threads |-> NoRequest]
    /\ issued = [get |-> 0, incr |-> 0, other |-> 0]
    /\ drift = 0
    /\ grown = 0

SumIssued == issued.get + issued.incr + issued.other

\* A caller enters an operation; the first lock it will ask for is `first'.
Begin(t, op, first, r) ==
    /\ pc[t] = "idle" /\ op \in Ops /\ SumIssued < MaxOps
    /\ req' = [req EXCEPT ![t] = r]
    /\ issued' = [issued EXCEPT ![IF op \in {"get", "incr"} THEN op ELSE "other"] = @ + 1]
    /\ Goto(t, first)
    /\ UNCHANGED <<cache, current_size, stats, now, drift, grown>>

SetRequest(k, v, ttl) ==
    [NoRequest EXCEPT !.key = k, !.value = compress(v),
                      !.original_size = Len(v), !.ttl = ttl]

KeyedOps == [get |-> "get_cache", delete |-> "delete_cache",
             exists |-> "exists_cache", incr |-> "incr_cache"]

BeginSet(t) == \E k \in Keys, v \in Values, ttl \in Ttls :
                  Begin(t, "set", "set_check", SetRequest(k, v, ttl))
BeginKeyed(t) == \E k \in Keys, op \in DOMAIN KeyedOps :
                  Begin(t, op, KeyedOps[op], [NoRequest EXCEPT !.key = k])
BeginStats(t) == Begin(t, "stats", "stats_stats", NoRequest)
BeginClear(t) == Begin(t, "clear", "clear_cache", NoRequest)

\* The operation returns: its locals are gone, what INCR returned is kept.
Return(t, counter) ==
    /\ Goto(t, "idle")
    /\ req' = [req EXCEPT ![t] = [NoRequest EXCEPT !.counter = counter]]

-----------------------------------------------------------------------------
\* Slip: SET forgets evict_if_needed.
SetCheck_NoEviction(t) ==
    /\ At(t, "set_check")
    /\ Goto(t, "set_cache")
    /\ UNCHANGED <<cache, current_size, stats, now, req, issued, drift, grown>>

\* SET: evict_if_needed reads the size under a lock it then gives back.  When it
\* returns the clock is read for the entry, before the locks are asked for: here, or
\* once more after an eviction ...
SetCheck(t) ==
    /\ At(t, "set_check")
    /\ req' = [req EXCEPT ![t].current = current_size, ![t].created_at = now]
    /\ Goto(t, IF Add(current_size, compressed_len(req[t].value)) <= MaxSize
               THEN "set_cache" ELSE "evict_cache")
    /\ UNCHANGED <<cache, current_size, stats, now, issued, drift, grown>>

\* ... takes the three locks one after the other ...
EvictLockCache(t) ==
    /\ At(t, "evict_cache")
    /\ Goto(t, "evict_size")
    /\ UNCHANGED <<cache, current_size, stats, now, req, issued, drift, grown>>

EvictLockSize(t) ==
    /\ At(t, "evict_size")
    /\ Goto(t, "evict_stats")
    /\ UNCHANGED <<cache, current_size, stats, now, req, issued, drift, grown>>

\* The order of the eviction scores: 0.4 recency + 0.6 frequency.
score(k) == 2 * cache[k].last_accessed + 3 * cache[k].access_count

\* (current + new_size).saturating_sub(max_size), with the size read earlier.
needed(r) ==
    AtLeast0(Add(r.current, compressed_len(r.value)) - MaxSize)

Freed(S) == SumFunctionOnSet(Sizes(cache), S)

\* The sets the loop may evict: lowest scores first, equal scores in the order
\* of the HashMap (any), stopping as soon as enough is freed.
EvictionSets(r) ==
    {S \in SUBSET DOMAIN cache :
        /\ \A k \in S, other \in DOMAIN cache \ S : score(k) <= score(other)
        /\ Freed(S) >= needed(r) \/ S = DOMAIN cache
        /\ S # {} => \E last \in S :
                        /\ \A k \in S : score(k) <= score(last)
                        /\ Freed(S \ {last}) < needed(r)}

\* ... and evicts, releasing them all.
Evict(t) ==
    /\ At(t, "evict_stats")
    /\ \E S \in EvictionSets(req[t]) :
          /\ cache' = Without(cache, S)
          /\ current_size' = Sub(current_size, Freed(S))
          /\ stats' = [stats EXCEPT !.evictions = @ + Cardinality(S)]
    /\ req' = [req EXCEPT ![t].created_at = now]
    /\ Goto(t, "set_cache")
    /\ UNCHANGED <<now, issued, drift, grown>>

SetLockCache(t) ==
    /\ At(t, "set_cache")
    /\ Goto(t, "set_size")
    /\ UNCHANGED <<cache, current_size, stats, now, req, issued, drift, grown>>

\* Slip: the size of the replaced entry is not taken off.
SetInsert_KeepOldSize(t) ==
    /\ At(t, "set_size")
    /\ current_size' = Add(current_size, compressed_len(req[t].value))
    /\ cache' = Put(cache, req[t].key, NewEntry(req[t]))
    /\ Goto(t, "set_stats")
    /\ UNCHANGED <<stats, now, req, issued, drift, grown>>

\* Both locks held: replace the entry and its size.
SetInsert(t) ==
    LET k   == req[t].key
        old == IF k \in DOMAIN cache THEN size(cache[k]) ELSE 0
    IN  /\ At(t, "set_size")
        /\ current_size' = Add(Sub(current_size, old), compressed_len(req[t].value))
        /\ cache' = Put(cache, k, NewEntry(req[t]))
        /\ Goto(t, "set_stats")
        /\ UNCHANGED <<stats, now, req, issued, drift, grown>>

SetStats(t) ==
    /\ At(t, "set_stats")
    /\ stats' = [stats EXCEPT !.sets = @ + 1]
    /\ Goto(t, "update_cache")
    /\ UNCHANGED <<cache, current_size, now, req, issued, drift, grown>>

-----------------------------------------------------------------------------
\* GET: an expired entry is removed while the cache lock stays held for the
\* size; a hit or a miss gives the cache lock back at once.
Get(t) ==
    LET k == req[t].key
    IN  /\ At(t, "get_cache")
        /\ \/ /\ k \notin DOMAIN cache
              /\ Goto(t, "get_stats")
              /\ UNCHANGED <<cache, req>>
           \/ /\ k \in DOMAIN cache /\ expired(cache[k])
              /\ req' = [req EXCEPT ![t].value = cache[k].samples]
              /\ cache' = Without(cache, {k})
              /\ Goto(t, "get_size")
           \/ /\ k \in DOMAIN cache /\ ~expired(cache[k])
              /\ cache' = [cache EXCEPT ![k].last_accessed = now,
                                        ![k].access_count = @ + 1]
              /\ req' = [req EXCEPT ![t].found = TRUE]
              /\ Goto(t, "get_stats")
        /\ UNCHANGED <<current_size, stats, now, issued, drift, grown>>

GetExpire(t) ==
    /\ At(t, "get_size")
    /\ current_size' = Sub(current_size, compressed_len(req[t].value))
    /\ Goto(t, "get_stats")
    /\ UNCHANGED <<cache, stats, now, req, issued, drift, grown>>

\* Slip: only hits are counted.
GetStats_HitsOnly(t) ==
    /\ At(t, "get_stats")
    /\ stats' = IF req[t].found THEN [stats EXCEPT !.hits = @ + 1] ELSE stats
    /\ Goto(t, "update_cache")
    /\ UNCHANGED <<cache, current_size, now, req, issued, drift, grown>>

GetStats(t) ==
    /\ At(t, "get_stats")
    /\ stats' = IF req[t].found THEN [stats EXCEPT !.hits = @ + 1]
                                ELSE [stats EXCEPT !.misses = @ + 1]
    /\ Goto(t, "update_cache")
    /\ UNCHANGED <<cache, current_size, now, req, issued, drift, grown>>

-----------------------------------------------------------------------------
\* DELETE: the cache lock is kept while the size and the statistics are taken.
Delete(t) ==
    LET k == req[t].key
    IN  /\ At(t, "delete_cache")
        /\ IF k \in DOMAIN cache
           THEN /\ req' = [req EXCEPT ![t].value = cache[k].samples]
                /\ cache' = Without(cache, {k})
                /\ Goto(t, "delete_size")
           ELSE /\ Return(t, 0)
                /\ UNCHANGED cache
        /\ UNCHANGED <<current_size, stats, now, issued, drift, grown>>

DeleteSize(t) ==
    /\ At(t, "delete_size")
    /\ current_size' = Sub(current_size, compressed_len(req[t].value))
    /\ Goto(t, "delete_stats")
    /\ UNCHANGED <<cache, stats, now, req, issued, drift, grown>>

DeleteStats(t) ==
    /\ At(t, "delete_stats")
    /\ stats' = [stats EXCEPT !.deletes = @ + 1]
    /\ Return(t, 0)
    /\ UNCHANGED <<cache, current_size, now, issued, drift, grown>>

\* EXISTS only looks (its answer ignores the ttl).
Exists(t) ==
    /\ At(t, "exists_cache")
    /\ Return(t, 0)
    /\ UNCHANGED <<cache, current_size, stats, now, issued, drift, grown>>

\* INCR: an existing entry is rewritten in place, its size is not accounted; a
\* missing one goes through SET "1" after the lock has been dropped.
Incr(t) ==
    LET k       == req[t].key
        entry   == cache[k]
        counter == parse_or_0(decompress(entry.samples, entry.original_size)) + 1
        text    == to_string(counter)
        growth  == compressed_len(compress(text)) - size(entry)
    IN  /\ At(t, "incr_cache")
        /\ IF k \in DOMAIN cache
           THEN /\ cache' = [cache EXCEPT ![k].samples = compress(text),
                                          ![k].original_size = Len(text),
                                          ![k].last_accessed = now]
                /\ drift' = drift + growth
                /\ grown' = grown + AtLeast0(growth)
                /\ Return(t, counter)
           ELSE /\ req' = [req EXCEPT ![t] = [SetRequest(k, to_string(1), 0)
                                                EXCEPT !.counter = 1]]
                /\ Goto(t, "set_check")
                /\ UNCHANGED <<cache, drift, grown>>
        /\ UNCHANGED <<current_size, stats, now, issued>>

-----------------------------------------------------------------------------
StatsLock(t) ==
    /\ At(t, "stats_stats")
    /\ Goto(t, "update_cache")
    /\ UNCHANGED <<cache, current_size, stats, now, req, issued, drift, grown>>

\* update_stats_internal, the statistics lock held by the caller: the cache and
\* the size are read-locked together.
UpdateLockCache(t) ==
    /\ At(t, "update_cache")
    /\ Goto(t, "update_size")
    /\ UNCHANGED <<cache, current_size, stats, now, req, issued, drift, grown>>

UpdateStats(t) ==
    /\ At(t, "update_size")
    /\ stats' = [stats EXCEPT !.entry_count = Cardinality(DOMAIN cache),
                              !.compressed_bytes = current_size,
                              !.original_bytes = OriginalBytes(cache)]
    /\ Return(t, req[t].counter)
    /\ UNCHANGED <<cache, current_size, now, issued, drift, grown>>

ClearLockCache(t) ==
    /\ At(t, "clear_cache")
    /\ Goto(t, "clear_size")
    /\ UNCHANGED <<cache, current_size, stats, now, req, issued, drift, grown>>

Clear(t) ==
    /\ At(t, "clear_size")
    /\ cache' = Without(cache, DOMAIN cache)
    /\ current_size' = 0
    /\ drift' = 0 /\ grown' = 0
    /\ Return(t, 0)
    /\ UNCHANGED <<stats, now, issued>>

Tick ==
    /\ now < MaxTime
    /\ now' = now + 1
    /\ UNCHANGED <<cache, current_size, stats, pc, req, issued, drift, grown>>

-----------------------------------------------------------------------------
Start(t) == BeginSet(t) \/ BeginKeyed(t) \/ BeginStats(t) \/ BeginClear(t)

Proceed(t) ==
    \/ SetCheck(t) \/ EvictLockCache(t) \/ EvictLockSize(t) \/ Evict(t)
    \/ SetLockCache(t) \/ SetInsert(t) \/ SetStats(t)
    \/ Get(t) \/ GetExpire(t) \/ GetStats(t)
    \/ Delete(t) \/ DeleteSize(t) \/ DeleteStats(t)
    \/ Exists(t) \/ Incr(t)
    \/ StatsLock(t) \/ UpdateLockCache(t) \/ UpdateStats(t)
    \/ ClearLockCache(t) \/ Clear(t)

Next == (\E t \in Threads : Start(t) \/ Proceed(t)) \/ Tick

Spec == Init /\ [][Next]_vars

-----------------------------------------------------------------------------
NobodyWrites == \A t \in Threads : Write("cache") \notin Holds(pc[t])

\* Whenever nobody is inside a section that writes the map, current_size is the
\* number of compressed bytes stored, whatever SETs, evictions, expiries, DELETEs
\* and CLEARs ran concurrently; only what INCRs rewrote is missing from it.
SizeAccounting ==
    NobodyWrites => current_size = (CompressedBytes(cache) - drift) % Usize

\* A statistics snapshot is of one moment: no writer was between the map and its
\* size when update_stats_internal read the one and then the other.
SnapshotCoherent ==
    [][stats'.entry_count # stats.entry_count
          \/ stats'.compressed_bytes # stats.compressed_bytes =>
       /\ stats'.entry_count = Cardinality(DOMAIN cache)
       /\ stats'.compressed_bytes = (CompressedBytes(cache) - drift) % Usize]_vars

\* The largest entry that SET, or the SET "1" of an INCR, can store.
MaxEntry == Max({compressed_len(compress(v)) : v \in Values \cup {to_string(1)}})

\* SETs that raced past the check together, or that evicted for a size they had
\* read too early, overshoot max_size (or the one entry that is larger) by at most
\* one entry for every other thread; what INCRs made entries grow comes on top.
OvershootBounded ==
    CompressedBytes(cache) <=
        Max({MaxSize, MaxEntry}) + (Cardinality(Threads) - 1) * MaxEntry + grown

\* The statistics lose no operation: every GET is a hit or a miss, or has not
\* reached its statistics yet, although it leaves the cache lock in between.
EveryGetCounted ==
    issued.get = stats.hits + stats.misses +
        Cardinality({t \in Threads : pc[t] \in {"get_cache", "get_size", "get_stats"}})

\* "Thread-safe concurrent access": no two threads wait for each other's lock.
NoLockCycle ==
    \A t, u \in Threads :
        t # u /\ pc[t] # "idle" /\ pc[u] # "idle" =>
            \/ \A g \in Holds(pc[u]) : Compatible(g, Acquires[pc[t]])
            \/ \A g \in Holds(pc[t]) : Compatible(g, Acquires[pc[u]])

\* The n-th INCR of a key returns n (one thread, one key, only INCRs).
IncrExact ==
    \A t \in Threads : pc[t] = "idle" => req[t].counter = issued.incr
=============================================================================
