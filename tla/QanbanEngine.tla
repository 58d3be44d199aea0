---------------------------- MODULE QanbanEngine ----------------------------
(***************************************************************************)
(* QANBAN: the engine (qanban/src/engine.rs), the postulates that decide   *)
(* or keep something, and the HTTP server that shares one engine behind a  *)
(* lock (bin/qanban_server.rs).  A handler holds the lock from its first   *)
(* statement to its last without an await, so that it is one step.  The    *)
(* numbers of the folding, the latency and the encryption are read by no   *)
(* decision but the quality of the paths, which is an input here.          *)
(***************************************************************************)
EXTENDS Integers, Sequences, FiniteSets

CONSTANTS Flows,        \* flow factors: the logarithms of flow ids, or NoFlow
          NoFlow,       \* flow id 0, whose logarithm is minus infinity
          Congestions,  \* congestion factors
          Loads,        \* traffic loads observed
          Clients,      \* threads that use the quantum cache directly
          CacheLimit,   \* its max_size (10000)
          Window,       \* observations kept (1000)
          Batch,        \* simd_width (16)
          MaxPackets    \* bound on packets, stored packets and cache calls

VARIABLES engine,       \* the counters, the last answer, the stored packets
          topology,     \* off-diagonal similarities: "full" or "empty"
          history,      \* loads observed, oldest first
          buffered,     \* packets waiting for a batch
          cache,        \* the flows in the quantum cache
          lookups,      \* its hits and misses
          clearing,     \* how far a clear has come, by client
          reply         \* what the server answered last
qanbanVars == <<engine, topology, history, buffered, cache, lookups, clearing, reply>>
-----------------------------------------------------------------------------
\* predict_action.  With unit eigenvectors and eigenvalues 0, 1, 2, ... the values,
\* times 16, are these: load weighs nothing.  Minus infinity makes every value a NaN,
\* which is greater than nothing, and the first action stays.
Actions == <<"Primary", "Secondary", "Tertiary", "LoadBalance">>
QValues(flow, congestion) == <<0, 16 * flow, 32 * congestion, flow + 2 * congestion>>
Wins(q, i) == /\ \A j \in 1..4 : q[j] <= q[i]
              /\ \A j \in 1..4 : j < i => q[j] < q[i]
PredictAction(flow, congestion) ==
    IF flow = NoFlow THEN "Primary"
    ELSE Actions[CHOOSE i \in 1..4 : Wins(QValues(flow, congestion), i)]

\* Measuring the four candidate paths: by their qualities, or the last one when they
\* are all 0 and the amplitudes 0/0.
Measure(quality) == IF quality = 0 THEN {4} ELSE 1..4

\* Half of what was encrypted is left, whatever the packet.
Amplification == 10 * 2

\* process_packet under the write lock; the id is taken first and nothing after it
\* fails.  The quantum cache is not asked.
ProcessPacket(flow, congestion, quality, bytes) ==
    /\ engine.packets < MaxPackets
    /\ \E path \in Measure(quality) :
          engine' = [engine EXCEPT !.packets = @ + 1, !.bytes = @ + bytes, !.nextId = @ + 1,
                                   !.last = [id |-> engine.nextId, path |-> path,
                                             action |-> PredictAction(flow, congestion),
                                             amplification |-> Amplification]]
    /\ UNCHANGED <<topology, history, buffered, cache, lookups, clearing, reply>>

\* The server has no flow id to give, and medium priority unless it is told.
PostProcess == \E congestion \in Congestions, quality \in 0..1 :
                  ProcessPacket(NoFlow, congestion, quality, congestion)
ProcessBatch == \E flow \in Flows, congestion \in Congestions, quality \in 0..1 :
                  ProcessPacket(flow, congestion, quality, congestion)

\* health_check and get_stats, under the read lock.  Only the ratio depends on what is
\* stored, and not on which packets these are.
Report ==
    /\ reply' = [packets |-> engine.packets, ratio |-> IF engine.stored > 0 THEN "tensor"
                                                        ELSE "default"]
    /\ UNCHANGED <<engine, topology, history, buffered, cache, lookups, clearing>>

\* Every packet is stored as the same factors, which retrieve_packet expands.
StorePacket == /\ engine.stored < MaxPackets
               /\ engine' = [engine EXCEPT !.stored = @ + 1]
               /\ UNCHANGED <<topology, history, buffered, cache, lookups, clearing, reply>>
RetrievePacket(id) == IF id < engine.stored THEN "factors" ELSE "error"

\* optimize_topology gives every node the same features: similarities are all 1, or all
\* 0 for a silent network.
OptimizeTopology(traffic) ==
    /\ topology' = IF traffic = 0 THEN "empty" ELSE "full"
    /\ UNCHANGED <<engine, history, buffered, cache, lookups, clearing, reply>>

UpdateTrafficPattern(load) ==
    /\ history' = Append(IF Len(history) >= Window THEN Tail(history) ELSE history, load)
    /\ UNCHANGED <<engine, topology, buffered, cache, lookups, clearing, reply>>
PredictTraffic == IF history = <<>> THEN "error" ELSE "pattern"

\* add_packet drops the results of the batch that it completes.
AddPacket == /\ buffered' = IF buffered + 1 >= Batch THEN buffered + 1 - Batch ELSE buffered + 1
             /\ UNCHANGED <<engine, topology, history, cache, lookups, clearing, reply>>

\* insert_priority_branchfree: before the entries of the same priority.
InsertPriority(queue, priority) ==
    LET below == {i \in DOMAIN queue : queue[i] < priority}
    IN  SubSeq(queue, 1, Cardinality(below)) \o <<priority>>
          \o SubSeq(queue, Cardinality(below) + 1, Len(queue))
-----------------------------------------------------------------------------
\* The quantum cache.  A full cache gives up any entry, also when the flow that comes
\* in is there already.
CacheInsert(flow) ==
    /\ IF Cardinality(cache) >= CacheLimit
       THEN \E out \in cache : cache' = (cache \ {out}) \union {flow}
       ELSE cache' = cache \union {flow}
    /\ UNCHANGED <<engine, topology, history, buffered, lookups, clearing, reply>>
CacheGet(flow) ==
    /\ lookups.hits + lookups.misses < MaxPackets
    /\ lookups' = IF flow \in cache THEN [lookups EXCEPT !.hits = @ + 1]
                  ELSE [lookups EXCEPT !.misses = @ + 1]
    /\ UNCHANGED <<engine, topology, history, buffered, cache, clearing, reply>>
\* clear takes its three locks one after the other.
CacheClear(c) ==
    /\ clearing' = [clearing EXCEPT ![c] = (@ + 1) % 3]
    /\ cache' = IF clearing[c] = 0 THEN {} ELSE cache
    /\ lookups' = IF clearing[c] = 1 THEN [lookups EXCEPT !.hits = 0]
                  ELSE IF clearing[c] = 2 THEN [lookups EXCEPT !.misses = 0] ELSE lookups
    /\ UNCHANGED <<engine, topology, history, buffered, reply>>

QanbanInit ==
    /\ engine = [packets |-> 0, bytes |-> 0, nextId |-> 0, stored |-> 0,
                 last |-> [id |-> 0, path |-> 0, action |-> "Primary", amplification |-> 0]]
    /\ topology = "full" /\ history = <<>> /\ buffered = 0
    /\ cache = {} /\ lookups = [hits |-> 0, misses |-> 0]
    /\ clearing = [c \in Clients |-> 0]
    /\ reply = [packets |-> 0, ratio |-> "default"]

QanbanNext ==
    \/ PostProcess \/ ProcessBatch \/ Report \/ StorePacket \/ AddPacket
    \/ \E traffic \in 0..1 : OptimizeTopology(traffic)
    \/ \E load \in Loads : UpdateTrafficPattern(load)
    \/ \E flow \in Flows : CacheInsert(flow) \/ CacheGet(flow)
    \/ \E c \in Clients : CacheClear(c)
=============================================================================
