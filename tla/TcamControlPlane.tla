--------------------------- MODULE TcamControlPlane ---------------------------
(***************************************************************************)
(* The later generations of the TCAM engines (phase2/qagfhg_v2_engine.rs,  *)
(* phase3/scrtt_v2_engine.rs, scrtt_v3_engine.rs and the postulates they   *)
(* ask) as operators on tables.  A lookup that compares floating-point     *)
(* distances or energies is the set of the answers it may give.  Left out: *)
(* eigenstates, clusters, Morton codes and edges that no lookup reads.     *)
(* Then the control plane over them (unified/control_plane.rs): phase 1,   *)
(* the second generation of phases 2 and 3, and two lookups.  A lock is    *)
(* never held across an await, so what follows an await is one action.     *)
(* Health records are made at the start and never written again.           *)
(* Last, the third generation of phase 3 (phase3/scrtt_v3_engine.rs) as    *)
(* one caller drives it.                                                   *)
(***************************************************************************)
EXTENDS RoutePrefix, FiniteSetsExt

CONSTANTS HotBits,     \* leading bits that index the hot-route cache (8 and 16)
          HotMetric,   \* routes of a smaller metric are hot (100)
          Cutoff,      \* how far apart two addresses feel each other (PME)
          HopIndices,  \* how many next-hop indices there are (2^16)
          TensorRank   \* factors kept by a compression (128)

CONSTANTS Callers,        \* calls that may be in progress at once
          PlaneRoutes, PlaneQueries,
          MaxPlaneInserts, MaxRequests,    \* bounds on the insertions and the lookups
          TierRoutes, TierQueries, MaxTierCalls    \* the same of the third generation

ASSUME PlaneAssumption ==
  /\ PlaneRoutes \subseteq [addr : Addresses, len : Lengths, hop : STRING, metric : Nat]
  /\ \A r \in PlaneRoutes : r.hop # "none"

VARIABLES enabled,        \* the phases the configuration enables
          table1, table2, table3,   \* the tables of the phases
          totals,         \* total_requests and total_failures
          call,           \* where each call is, and its locals
          confirmed,      \* ghost: routes whose insertion was confirmed
          ultimate        \* the third generation's engine

planeVars == <<enabled, table1, table2, table3, totals, call, confirmed>>
planeTables == <<table1, table2, table3>>

-----------------------------------------------------------------------------
Bits(ip, len) == ip - (ip % 2^(AddrBits - len))
OrNone(found) == IF found = {} THEN {NoRoute} ELSE found

\* QAGFHG v2: one entry per address, asked with every mask from the longest on.
MaskLengths == Lengths
NoStates == [a \in Addresses |-> NoRoute]
CollapseInto(states, r) == [states EXCEPT ![r.addr] = r]
CollapsedLookup(states, ip) ==
    LET hits == {len \in MaskLengths : states[Bits(ip, len)] # NoRoute}
    IN  IF hits = {} THEN NoRoute ELSE states[Bits(ip, Max(hits))]

\* Dimensional folding: of the routes that match, the nearest on the manifold,
\* whatever its length.
FoldedAnswers(routes, ip) == {r \in ToSet(routes) : matches(r, ip)}

\* PME: the particle of most energy, which need not be a route that matches.  Only
\* where nothing is near does the mesh decide, for the first particle.
Near(a, b) == a # b /\ a - b \in (-Cutoff)..Cutoff
PmeAnswers(routes, ip) ==
    LET near == {r \in ToSet(routes) : Near(r.addr, ip)}
    IN  IF near = {} /\ \E r \in ToSet(routes) : r.addr = ip THEN {routes[1]} ELSE near

\* SIMD: entries whose masked address is the address as written; least metric first.
SimdHits(entries, ip) ==
    {i \in DOMAIN entries : Bits(ip, entries[i].route.len) = entries[i].route.addr}
SimdBest(entries, ip) ==
    CHOOSE i \in SimdHits(entries, ip) : \A j \in SimdHits(entries, ip) :
        \/ entries[i].route.metric < entries[j].route.metric
        \/ entries[i].route.metric = entries[j].route.metric /\ i <= j

\* The tensor keeps the factors of the cheapest routes, but every next hop and
\* metric: from the first compression on, factor i is answered with the hop of the
\* i-th insertion.  Without a compression a factor is asked octet by octet.
Compress(factors) ==
    IF Len(factors) <= 2 * TensorRank THEN factors
    ELSE SubSeq(SortSeq(factors, LAMBDA a, b : a.metric < b.metric), 1, TensorRank)
SameOctets(r, ip) == Bits(r.addr, AddrBits - 1) = Bits(ip, AddrBits - 1)
TensorAnswers(v, ip) ==
    {v.hops[i] : i \in {j \in DOMAIN v.factors : SameOctets(v.factors[j], ip)}}

-----------------------------------------------------------------------------
\* A hot route takes the slot of its leading bits, and answers for all of them.
HotSlot(addr) == addr \div 2^(AddrBits - HotBits)
NothingHot == [s \in {HotSlot(a) : a \in Addresses} |-> NoRoute]
Heat(hot, r) ==
    IF r.metric < HotMetric THEN [hot EXCEPT ![HotSlot(r.addr)] = r] ELSE hot

\* SCRTT v2.
NewV2 == [hot |-> NothingHot, routes |-> <<>>]
InsertV2(v, r) == [hot |-> Heat(v.hot, r), routes |-> Append(v.routes, r)]
AnswersV2(v, ip) ==
    LET cached == v.hot[HotSlot(ip)]
        folded == FoldedAnswers(v.routes, ip)
    IN  IF cached # NoRoute THEN {cached}
        ELSE IF folded # {} THEN folded
        ELSE OrNone(PmeAnswers(v.routes, ip))

\* SCRTT v3 asks four tiers and counts which of them answered.
NewV3 == [hot |-> NothingHot, entries |-> <<>>, hops |-> <<>>, factors |-> <<>>,
          lookups |-> 0, cache |-> 0, simd |-> 0, tensor |-> 0]
InsertV3(v, r) ==
    [v EXCEPT !.hops = Append(@, r),
              !.entries = Append(@, [route |-> r, hop |-> Len(v.hops) % HopIndices]),
              !.factors = Compress(Append(@, r)),
              !.hot = Heat(@, r)]

Tiers(v, ip) ==
    LET cached == v.hot[HotSlot(ip)]
        all    == [v EXCEPT !.lookups = @ + 1]
        simd   == [all EXCEPT !.simd = @ + 1]
        entry  == v.entries[SimdBest(v.entries, ip)]
        tensor == TensorAnswers(v, ip)
    IN  IF cached # NoRoute THEN {[to |-> cached, by |-> [all EXCEPT !.cache = @ + 1]]}
        ELSE IF SimdHits(v.entries, ip) # {}
        THEN {[to |-> [v.hops[entry.hop + 1] EXCEPT !.metric = entry.route.metric], by |-> simd]}
        ELSE IF tensor # {} THEN {[to |-> r, by |-> [all EXCEPT !.tensor = @ + 1]] : r \in tensor}
        ELSE {[to |-> r, by |-> all] : r \in OrNone(FoldedAnswers(v.hops, ip))}

-----------------------------------------------------------------------------
Phases == {1, 2, 3}
NoAnswers == [p \in Phases |-> NoRoute]
Idle == [at |-> "idle", route |-> NoRoute, ip |-> 0, answers |-> NoAnswers,
         pending |-> {}, answer |-> NoRoute, known |-> {}]

PlaneInit ==
  /\ enabled \in SUBSET Phases
  /\ table1 = <<>> /\ table2 = NoStates /\ table3 = NewV2
  /\ totals = [requests |-> 0, failures |-> 0]
  /\ call = [c \in Callers |-> Idle]
  /\ confirmed = {}

---------------------------------------------------------------------------
\* insert: phase 1 before the first await, then phases 2 and 3, each if enabled.
InsertFirst(c) ==
  /\ call[c].at = "idle" /\ Max({Len(table1), Len(table3.routes)}) < MaxPlaneInserts
  /\ \E r \in PlaneRoutes :
       /\ table1' = IF 1 \in enabled THEN Append(table1, r) ELSE table1
       /\ call' = [call EXCEPT ![c] = [Idle EXCEPT !.at = "second", !.route = r]]
  /\ UNCHANGED <<enabled, table2, table3, totals, confirmed>>

InsertSecond(c) ==
  /\ call[c].at = "second"
  /\ table2' = IF 2 \in enabled THEN CollapseInto(table2, call[c].route) ELSE table2
  /\ call' = [call EXCEPT ![c].at = "third"]
  /\ UNCHANGED <<enabled, table1, table3, totals, confirmed>>

InsertThird(c) ==
  /\ call[c].at = "third"
  /\ table3' = IF 3 \in enabled THEN InsertV2(table3, call[c].route) ELSE table3
  /\ confirmed' = confirmed \cup {call[c].route}
  /\ call' = [call EXCEPT ![c] = Idle]
  /\ UNCHANGED <<enabled, table1, table2, totals>>

---------------------------------------------------------------------------
\* What a phase may answer now.
PhaseAnswers(p, ip) ==
  CASE p = 1 -> {ahgf_lookup(table1, ip)}
    [] p = 2 -> {CollapsedLookup(table2, ip)}
    [] p = 3 -> AnswersV2(table3, ip)

BeginPlaneLookup(c) ==
  /\ call[c].at = "idle" /\ totals.requests < MaxRequests
  /\ \E ip \in PlaneQueries, how \in {"failover", "redundant"} :
       call' = [call EXCEPT ![c] = [Idle EXCEPT
                   !.at = how, !.ip = ip, !.pending = enabled, !.known = confirmed]]
  /\ totals' = [totals EXCEPT !.requests = @ + 1]
  /\ UNCHANGED <<enabled, planeTables, confirmed>>

Answer(c, r) ==
  /\ call' = [call EXCEPT ![c].at = "answered", ![c].answer = r, ![c].pending = {}]
  /\ totals' = IF r = NoRoute THEN [totals EXCEPT !.failures = @ + 1] ELSE totals

\* lookup_failover asks from the last phase down and returns the first answer.
FailoverStep(c) ==
  /\ call[c].at = "failover"
  /\ IF call[c].pending = {} THEN Answer(c, NoRoute)
     ELSE \E r \in PhaseAnswers(Max(call[c].pending), call[c].ip) :
            IF r # NoRoute THEN Answer(c, r)
            ELSE /\ call' = [call EXCEPT ![c].pending = @ \ {Max(@)}]
                 /\ UNCHANGED totals
  /\ UNCHANGED <<enabled, planeTables, confirmed>>

\* lookup_redundant spawns one task for each phase; they run in any order ...
RunPhase(c) ==
  /\ call[c].at = "redundant"
  /\ \E p \in call[c].pending : \E r \in PhaseAnswers(p, call[c].ip) :
       call' = [call EXCEPT ![c].answers[p] = r, ![c].pending = @ \ {p}]
  /\ UNCHANGED <<enabled, planeTables, totals, confirmed>>

\* ... and are awaited in the order of the phases.  The time is taken after each
\* await and so grows: the first phase that has an answer counts as the fastest.
Fastest_LastAwaited(answers) ==
  LET found == {p \in Phases : answers[p] # NoRoute}
  IN  IF found = {} THEN NoRoute ELSE answers[Max(found)]
Fastest(answers) ==
  LET found == {p \in Phases : answers[p] # NoRoute}
  IN  IF found = {} THEN NoRoute ELSE answers[Min(found)]

JoinPhases(c) ==
  /\ call[c].at = "redundant" /\ call[c].pending = {}
  /\ Answer(c, Fastest(call[c].answers))
  /\ UNCHANGED <<enabled, planeTables, confirmed>>

ReturnAnswer(c) ==
  /\ call[c].at = "answered"
  /\ call' = [call EXCEPT ![c] = Idle]
  /\ UNCHANGED <<enabled, planeTables, totals, confirmed>>

PlaneNext ==
  \/ \E c \in Callers :
       \/ InsertFirst(c) \/ InsertSecond(c) \/ InsertThird(c)
       \/ BeginPlaneLookup(c) \/ FailoverStep(c) \/ RunPhase(c) \/ JoinPhases(c)
       \/ ReturnAnswer(c)

---------------------------------------------------------------------------
\* With phase 1 enabled, a redundant lookup answers as long a match as any route
\* confirmed before it, though the other engines answer wrongly and faster: what it
\* keeps as the fastest answer is the first it awaits.
RedundantLongest ==
  \A c \in Callers :
    LET a == call[c].answer
    IN  call[c].at = "answered" /\ call[c].answers[1] # NoRoute =>
          /\ matches(a, call[c].ip)
          /\ \A r \in call[c].known : matches(r, call[c].ip) => a.len >= r.len

---------------------------------------------------------------------------
\* The third generation, with its tiers and their counters.
UltimateInit == ultimate = NewV3

UltimateInsert ==
  /\ Len(ultimate.hops) < MaxTierCalls
  /\ \E r \in TierRoutes : ultimate' = InsertV3(ultimate, r)

UltimateLookup ==
  /\ ultimate.lookups < MaxTierCalls
  /\ \E ip \in TierQueries : \E tier \in Tiers(ultimate, ip) : ultimate' = tier.by

UltimateNext == UltimateInsert \/ UltimateLookup
=============================================================================
