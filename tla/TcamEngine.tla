----------------------------- MODULE TcamEngine -----------------------------
(***************************************************************************)
(* The unified engine of uao-qtcam (src/uao-qtcam/src/unified/             *)
(* tcam_engine.rs) behind its HTTP API: every route is inserted into three *)
(* engines one after the other, a lookup asks the one that the strategy    *)
(* names, and a monitor counts.  As in AllocationService a call is `idle'  *)
(* or at the await of a tokio lock, what lies between two awaits is one    *)
(* action, and a client that goes away drops the call where it waits.      *)
(* Phase 1 is synchronous.  Left out: latencies, the hit counters of the   *)
(* engines, and the quantum, spectral and hint data that no lookup reads.  *)
(***************************************************************************)
EXTENDS RoutePrefix, FiniteSets, RwLock

CONSTANTS Tasks,       \* calls that may be in progress at once
          Routes,      \* the routes that clients insert
          Queries,     \* what clients look up: addresses, or BadIp
          Strategies,  \* the strategies the engine may be made with
          MaxInserts, MaxLookups, MaxDeletes,  \* bounds on the calls
          MayCancel    \* clients may disconnect during a call

BadIp == -1

ASSUME TcamAssumption ==
    /\ IsFiniteSet(Tasks)
    /\ Routes \subseteq [addr : Addresses, len : Lengths, hop : STRING, metric : Nat]
    /\ \A r \in Routes : r.hop \notin {"none", "gateway_radix"}
    /\ Queries \subseteq Addresses \cup {BadIp}
    /\ Strategies \subseteq {"Phase1Only", "Phase2Only", "Phase3Only", "Adaptive"}
    /\ MaxInserts \in Nat /\ MaxLookups \in Nat /\ MaxDeletes \in Nat
    /\ MayCancel \in BOOLEAN

VARIABLES strategy,
          phase1,         \* routes of the AHGF engine, in order of insertion
          phase2,         \* routes of the QAGFHG engine
          stats2,         \* and its counters
          phase3,         \* trie of the SCRTT engine
          sheaf_sections, \* its list of all routes
          monitor,        \* counters of the unified engine
          pc, req,        \* where each call is, its argument and result
          acked,          \* ghost: routes whose insertion was confirmed
          dropped         \* ghost: how many insertions of a route were abandoned,
                          \* by the await they were in

vars == <<strategy, phase1, phase2, phase3, sheaf_sections, stats2,
          monitor, pc, req, acked, dropped>>
tables == <<phase1, phase2, phase3, sheaf_sections>>

-----------------------------------------------------------------------------
\* The lock each await is for ...
Acquires(point) ==
    IF point = "p2_routes"              THEN Write("routes")
    ELSE IF point \in {"p2_stats", "p2_hit"} THEN Write("stats")
    ELSE IF point = "p2_read"           THEN Read("routes")
    ELSE IF point = "p3_write"          THEN Write("phase3")
    ELSE IF point = "p3_read"           THEN Read("phase3")
    ELSE IF point = "stats"             THEN Read("monitor")
    ELSE Write("monitor")

\* ... and the guards held across it.
Holds(point) ==
    IF point = "p2_stats"         THEN {Write("routes")}
    ELSE IF point = "p3_inserted" THEN {Write("phase3")}
    ELSE IF point = "p3_hit"      THEN {Read("phase3")}
    ELSE {}

InsertPoints == {"p2_routes", "p2_stats", "p3_write", "p3_inserted"}
LookupPoints == {"count", "p1_hit", "p2_read", "p2_hit", "p2_counted", "p3_read", "p3_hit"}
Points == InsertPoints \cup LookupPoints \cup {"delete", "stats"}

At(t, point) ==
    /\ pc[t] = point
    /\ \A u \in Tasks \ {t} :
          \A g \in Holds(pc[u]) : Compatible(g, Acquires(point))

-----------------------------------------------------------------------------
NoReq == [route |-> NoRoute, ip |-> BadIp, known |-> {}]

Init ==
    /\ strategy \in Strategies
    /\ phase1 = <<>> /\ phase2 = <<>>
    /\ phase3 = EmptyTrie /\ sheaf_sections = <<>>
    /\ stats2 = [num_routes |-> 0, lookups |-> 0]
    /\ monitor = [lookups |-> 0, inserts |-> 0, deletes |-> 0,
                  phase1 |-> 0, phase2 |-> 0, phase3 |-> 0]
    /\ pc = [t \in Tasks |-> "idle"]
    /\ req = [t \in Tasks |-> NoReq]
    /\ acked = {}
    /\ dropped = [p \in InsertPoints |-> [r \in Routes |-> 0]]

\* The call goes on to its next await ...
Goto(t, point) == pc' = [pc EXCEPT ![t] = point]

\* ... or returns.
Return(t) == Goto(t, "idle") /\ req' = [req EXCEPT ![t] = NoReq]

Count(field) == monitor' = [monitor EXCEPT ![field] = @ + 1]

-----------------------------------------------------------------------------
\* POST /insert: the route is in phase 1 before the first await.
BeginInsert(t) ==
    \E r \in Routes :
        /\ pc[t] = "idle" /\ Len(phase1) < MaxInserts
        /\ phase1' = Append(phase1, r)
        /\ Goto(t, "p2_routes")
        /\ req' = [req EXCEPT ![t] = [NoReq EXCEPT !.route = r]]
        /\ UNCHANGED <<strategy, phase2, phase3, sheaf_sections, stats2,
                       monitor, acked, dropped>>

InsertRoutes(t) ==
    /\ At(t, "p2_routes")
    /\ phase2' = Append(phase2, req[t].route)
    /\ Goto(t, "p2_stats")
    /\ UNCHANGED <<strategy, phase1, phase3, sheaf_sections, stats2,
                   monitor, req, acked, dropped>>

\* rebuild_hints, called from the third route on, does nothing.
InsertStats(t) ==
    /\ At(t, "p2_stats")
    /\ stats2' = [stats2 EXCEPT !.num_routes = Len(phase2)]
    /\ Goto(t, "p3_write")
    /\ UNCHANGED <<strategy, tables, monitor, req, acked, dropped>>

\* Slip: a route that fits the table is not recorded among the sections.
InsertPhase3_NoSection(t) ==
    LET r == req[t].route
    IN  /\ At(t, "p3_write")
        /\ sheaf_sections' = IF r.len <= RadixBits THEN sheaf_sections
                             ELSE Append(sheaf_sections, r)
        /\ phase3' = insert_into_hybrid_trie(phase3, r)
        /\ Goto(t, "p3_inserted")
        /\ UNCHANGED <<strategy, phase1, phase2, stats2, monitor, req,
                       acked, dropped>>

\* Slip: a route that fits the table goes to the sections alone.
InsertPhase3_NoTrie(t) ==
    LET r == req[t].route
    IN  /\ At(t, "p3_write")
        /\ sheaf_sections' = Append(sheaf_sections, r)
        /\ phase3' = IF r.len <= RadixBits THEN phase3
                     ELSE insert_into_hybrid_trie(phase3, r)
        /\ Goto(t, "p3_inserted")
        /\ UNCHANGED <<strategy, phase1, phase2, stats2, monitor, req,
                       acked, dropped>>

InsertPhase3(t) ==
    LET r == req[t].route
    IN  /\ At(t, "p3_write")
        /\ sheaf_sections' = Append(sheaf_sections, r)
        /\ phase3' = insert_into_hybrid_trie(phase3, r)
        /\ Goto(t, "p3_inserted")
        /\ UNCHANGED <<strategy, phase1, phase2, stats2, monitor, req,
                       acked, dropped>>

InsertCount(t) ==
    /\ At(t, "p3_inserted")
    /\ Count("inserts")
    /\ acked' = acked \cup {req[t].route}
    /\ Return(t)
    /\ UNCHANGED <<strategy, tables, stats2, dropped>>

-----------------------------------------------------------------------------
\* POST /lookup.
BeginLookup(t) ==
    \E q \in Queries :
        /\ pc[t] = "idle" /\ monitor.lookups < MaxLookups
        /\ Goto(t, "count")
        /\ req' = [req EXCEPT ![t] = [NoReq EXCEPT !.ip = q, !.known = acked]]
        /\ UNCHANGED <<strategy, tables, stats2, monitor, acked, dropped>>

\* total_lookups, then what the strategy asks up to the next await: all of phase 1,
\* the parsing of phase 2, nothing of phase 3.  An address that does not parse is an
\* error, which only total_lookups counts.
LookupCount(t) ==
    /\ At(t, "count")
    /\ Count("lookups")
    /\ \/ /\ strategy \in {"Phase1Only", "Phase2Only"} /\ req[t].ip = BadIp
          /\ Return(t)
       \/ /\ strategy = "Phase1Only" /\ req[t].ip # BadIp
          /\ req' = [req EXCEPT ![t].route = ahgf_lookup(phase1, req[t].ip)]
          /\ Goto(t, "p1_hit")
       \/ /\ strategy = "Phase2Only" /\ req[t].ip # BadIp
          /\ Goto(t, "p2_read")
          /\ UNCHANGED req
       \/ /\ strategy \in {"Phase3Only", "Adaptive"}
          /\ Goto(t, "p3_read")
          /\ UNCHANGED req
    /\ UNCHANGED <<strategy, tables, stats2, acked, dropped>>

LookupPhase2(t) ==
    /\ At(t, "p2_read")
    /\ req' = [req EXCEPT ![t].route = qagfhg_lookup(phase2, req[t].ip)]
    /\ Goto(t, "p2_hit")
    /\ UNCHANGED <<strategy, tables, stats2, monitor, acked, dropped>>

LookupStats2(t) ==
    /\ At(t, "p2_hit")
    /\ stats2' = [stats2 EXCEPT !.lookups = @ + 1]
    /\ Goto(t, "p2_counted")
    /\ UNCHANGED <<strategy, tables, monitor, req, acked, dropped>>

LookupPhase3(t) ==
    /\ At(t, "p3_read")
    /\ \/ /\ req[t].ip = BadIp
          /\ Return(t)
       \/ /\ req[t].ip # BadIp
          /\ req' = [req EXCEPT ![t].route = scrtt_lookup(phase3, req[t].ip)]
          /\ Goto(t, "p3_hit")
    /\ UNCHANGED <<strategy, tables, stats2, monitor, acked, dropped>>

\* The lookup of the phase is counted, and the call answered.
LookupDone(t) ==
    /\ \/ At(t, "p1_hit")     /\ Count("phase1")
       \/ At(t, "p2_counted") /\ Count("phase2")
       \/ At(t, "p3_hit")     /\ Count("phase3")
    /\ Return(t)
    /\ UNCHANGED <<strategy, tables, stats2, acked, dropped>>

-----------------------------------------------------------------------------
\* DELETE /delete counts the call; no engine is told.
BeginDelete(t) ==
    /\ pc[t] = "idle" /\ monitor.deletes < MaxDeletes
    /\ Goto(t, "delete")
    /\ UNCHANGED <<strategy, tables, stats2, monitor, req, acked, dropped>>

Delete(t) ==
    /\ At(t, "delete")
    /\ Count("deletes")
    /\ Return(t)
    /\ UNCHANGED <<strategy, tables, stats2, acked, dropped>>

\* GET /stats reads the counters under the monitor's lock and changes nothing.
BeginStats(t) ==
    /\ pc[t] = "idle"
    /\ Goto(t, "stats")
    /\ UNCHANGED <<strategy, tables, stats2, monitor, req, acked, dropped>>

Stats(t) ==
    /\ At(t, "stats")
    /\ Return(t)
    /\ UNCHANGED <<strategy, tables, stats2, monitor, acked, dropped>>

\* A client that goes away drops the call where it waits; its guards are released.
Cancel(t) ==
    /\ MayCancel /\ pc[t] # "idle"
    /\ Return(t)
    /\ dropped' = IF pc[t] \in InsertPoints
                  THEN [dropped EXCEPT ![pc[t]][req[t].route] = @ + 1]
                  ELSE dropped
    /\ UNCHANGED <<strategy, tables, stats2, monitor, acked>>

Start(t) == BeginInsert(t) \/ BeginLookup(t) \/ BeginDelete(t) \/ BeginStats(t)

Proceed(t) ==
    \/ InsertRoutes(t) \/ InsertStats(t) \/ InsertPhase3(t) \/ InsertCount(t)
    \/ LookupCount(t) \/ LookupPhase2(t) \/ LookupStats2(t) \/ LookupPhase3(t)
    \/ LookupDone(t)
    \/ Delete(t) \/ Stats(t)

Next == \E t \in Tasks : Start(t) \/ Proceed(t) \/ Cancel(t)

Spec == Init /\ [][Next]_vars

-----------------------------------------------------------------------------
Copies(routes, r) == Cardinality({i \in DOMAIN routes : routes[i] = r})
Inserting(points, r) ==
    Cardinality({t \in Tasks : pc[t] \in points /\ req[t].route = r})
    + SumFunctionOnSet([p \in InsertPoints |-> dropped[p][r]], points)

\* No insertion is lost between the engines or counted twice: whatever insertions
\* overlap, the first engine has the routes of the second and those of the calls that
\* wait for it or were dropped there, and so on to the count of the monitor.
NoRouteVanishes ==
    /\ \A r \in Routes :
          /\ Copies(phase1, r) = Copies(phase2, r) + Inserting({"p2_routes"}, r)
          /\ Copies(phase2, r) =
                 Copies(sheaf_sections, r) + Inserting({"p2_stats", "p3_write"}, r)
    /\ monitor.inserts <= Len(sheaf_sections)
    /\ (\A t \in Tasks : pc[t] # "p3_inserted") /\ (\A r \in Routes : dropped["p3_inserted"][r] = 0)
          => monitor.inserts = Len(sheaf_sections)

\* Phases 1 and 2 answer by the longest match: a lookup never falls back behind a
\* matching route whose insertion was confirmed before the lookup began.
ConfirmedRouteWins ==
    \A t \in Tasks : pc[t] \in {"p1_hit", "p2_hit", "p2_counted"} =>
        \A r \in req[t].known : matches(r, req[t].ip) =>
            /\ req[t].route # NoRoute /\ matches(req[t].route, req[t].ip)
            /\ req[t].route.len >= r.len

\* Phase 3 at least finds a route wherever a confirmed one matches.  Short routes
\* must be masked, and none of metric 0 may have been inserted: the table takes 0 for
\* an empty slot.
Short(r)  == r.len <= RadixBits
Masked(r) == r.addr % 2^(AddrBits - r.len) = 0
ConfirmedRouteFound ==
    \A t \in Tasks : pc[t] = "p3_hit" =>
        \A r \in req[t].known :
            /\ matches(r, req[t].ip)
            /\ Short(r) =>
                  /\ Masked(r)
                  /\ \A i \in DOMAIN sheaf_sections :
                        Short(sheaf_sections[i]) => sheaf_sections[i].metric # 0
            => req[t].route # NoRoute

\* The engines that were given the same routes agree: once no call is at work and none
\* was dropped, phases 1 and 2 answer alike for every address unless two routes have
\* one prefix (phase 1 keeps the older, phase 2 the newer), and so does phase 3 unless
\* a route is short.
SamePrefix(a, b) == a.len = b.len /\ matches(a, b.addr)
PhasesAgree ==
    (/\ \A t \in Tasks : pc[t] = "idle"
     /\ \A p \in InsertPoints, r \in Routes : dropped[p][r] = 0
     /\ \A i, j \in DOMAIN phase1 : i # j => ~SamePrefix(phase1[i], phase1[j]))
    => \A ip \in Addresses :
          /\ ahgf_lookup(phase1, ip) = qagfhg_lookup(phase2, ip)
          /\ (\A i \in DOMAIN phase1 : ~Short(phase1[i]))
             => scrtt_lookup(phase3, ip) = ahgf_lookup(phase1, ip)

\* "Lookups work with longest prefix matching": with the default strategy, too, the
\* answer has the metric of a route that is as long as any confirmed one that matches.
DefaultLongestMatch ==
    \A t \in Tasks : pc[t] = "p3_hit" /\ strategy = "Adaptive" =>
        \A r \in req[t].known : matches(r, req[t].ip) =>
            \E best \in acked :
                /\ matches(best, req[t].ip) /\ best.len >= r.len
                /\ req[t].route.metric = best.metric
=============================================================================
