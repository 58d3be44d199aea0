---------------------------- MODULE EngineFacades ----------------------------
(***************************************************************************)
(* The facades that the programs call the engines through:                 *)
(* src/uao_qtcam_integration.rs, src/bandwidth_cascade.rs,                 *)
(* src/qagml_integration.rs and src/qanban_integration.rs.  Counters are   *)
(* atomics, updated and read one after the other; the TCAM engine is       *)
(* behind one more tokio lock.  Sizes are counted in units and the factors *)
(* are left out: a counter is the set of the calls that it includes.       *)
(***************************************************************************)
EXTENDS Naturals, Sequences

CONSTANTS FacadeTasks, Routes

VARIABLES counters,   \* per counter, the calls that it includes
          tables,     \* the routes in the table of each phase
          exposed,    \* routes whose insertion was dropped half way, or is not exclusive
          memory,     \* the addresses that were given out
          packets,    \* packets processed by the QANBAN engine
          facade      \* per task: what it does and how far it is

facadeVars == <<counters, tables, exposed, memory, packets, facade>>

Phases == 1..3
\* In the order in which a call updates its counters, and in which a reader loads them.
Updates == [store |-> <<"physical_used", "effective_used", "weights_stored", "uncompressed">>,
            cascade |-> <<"physical", "qanban_amplified", "cascade_effective",
                          "channels_utilized", "packets_routed">>,
            memory |-> <<"memory_physical", "memory_effective">>]
Counters == {"physical_used", "effective_used", "weights_stored", "uncompressed", "physical",
             "qanban_amplified", "cascade_effective", "channels_utilized", "packets_routed",
             "memory_physical", "memory_effective"}

CounterReads ==
    [store |-> <<"physical_used", "effective_used", "uncompressed", "weights_stored">>,
     cascade |-> Updates["cascade"] \o Updates["memory"]]

NoStats == [c \in Counters |-> {}]
Free == [at |-> "idle", what |-> "none", step |-> 1, stats |-> NoStats, seen |-> {}]

FacadeInit ==
    /\ counters = [c \in Counters |-> {}]
    /\ tables = [p \in Phases |-> {}] /\ exposed = {}
    /\ memory = {} /\ packets = 0
    /\ facade = [t \in FacadeTasks |-> Free]

Become(t, new) == facade' = [facade EXCEPT ![t] = new]
BeginCall(t, at, what) == facade[t].at = "idle" /\ Become(t, [Free EXCEPT !.at = at, !.what = what])

-----------------------------------------------------------------------------
\* store_weights, process_through_cascade and store_memory: one counter after the other.
Count(t) ==
    /\ facade[t].at = "count"
    /\ LET order == Updates[facade[t].what]
           c     == order[facade[t].step]
       IN  /\ counters' = [counters EXCEPT ![c] = @ \cup {t}]
           /\ Become(t, IF facade[t].step = Len(order) THEN [Free EXCEPT !.at = "done"]
                        ELSE [facade[t] EXCEPT !.step = @ + 1])
    /\ UNCHANGED <<tables, exposed, memory, packets>>

\* get_stats and get_unified_stats.
ReadCounter(t) ==
    /\ facade[t].at = "load"
    /\ LET order == CounterReads[facade[t].what]
           c     == order[facade[t].step]
       IN  Become(t, [facade[t] EXCEPT !.stats[c] = counters[c], !.step = @ + 1,
                                       !.at = IF facade[t].step = Len(order) THEN "answered" ELSE @])
    /\ UNCHANGED <<counters, tables, exposed, memory, packets>>

-----------------------------------------------------------------------------
\* The lock around the engine: insert_route writes, everything else reads, the
\* synchronous insertion included.
\* Slip: insert_route reads it too, as its synchronous form does.
Writing_Never(t) == FALSE
Writing(t) == facade[t].at = "insert"
Reading(t) == facade[t].at \in {"insert", "sync_insert", "lookup"} /\ ~Writing(t)

InsertRoute(t, r) ==
    /\ BeginCall(t, "insert", r) /\ \A u \in FacadeTasks : ~Reading(u) /\ ~Writing(u)
    /\ UNCHANGED <<counters, tables, exposed, memory, packets>>
\* The synchronous calls only work on a thread that is not the runtime's: elsewhere
\* block_on panics (ControlPlaneServer).  What is not a number becomes route 0.
SyncInsertRoute(t, r) ==
    /\ BeginCall(t, "sync_insert", r) /\ \A u \in FacadeTasks : ~Writing(u)
    /\ exposed' = exposed \cup {r}
    /\ UNCHANGED <<counters, tables, memory, packets>>

\* The engine puts the route into one table after the other (TcamEngine).
InsertPhase(t) ==
    /\ facade[t].at \in {"insert", "sync_insert"}
    /\ tables' = [tables EXCEPT ![facade[t].step] = @ \cup {facade[t].what}]
    /\ Become(t, IF facade[t].step = 3 THEN [Free EXCEPT !.at = "done"]
                 ELSE [facade[t] EXCEPT !.step = @ + 1])
    /\ UNCHANGED <<counters, exposed, memory, packets>>
DropInsert(t) ==
    /\ facade[t].at = "insert"
    /\ exposed' = exposed \cup {facade[t].what}
    /\ Become(t, [Free EXCEPT !.at = "done"])
    /\ UNCHANGED <<counters, tables, memory, packets>>

\* lookup looks into the table of one phase; the tables then are kept to compare them.
Lookup(t) ==
    /\ BeginCall(t, "lookup", "none") /\ \A u \in FacadeTasks : ~Writing(u)
    /\ UNCHANGED <<counters, tables, exposed, memory, packets>>
LookupPhase(t) ==
    /\ facade[t].at = "lookup"
    /\ Become(t, [Free EXCEPT !.at = "found",
                  !.seen = (UNION {tables[p] : p \in Phases})
                           \ {r \in Routes : \A p \in Phases : r \in tables[p]}])
    /\ UNCHANGED <<counters, tables, exposed, memory, packets>>

-----------------------------------------------------------------------------
\* allocate_virtual_memory gives the base plus the size: regions of one size share an
\* address, and free_amplified_region does nothing.
AllocateRegion(t, size) ==
    /\ facade[t].at = "idle" /\ Become(t, [Free EXCEPT !.at = "done"])
    /\ memory' = memory \cup {size}
    /\ UNCHANGED <<counters, tables, exposed, packets>>

\* process_batch stops at a packet that is refused; the ones before it stay counted,
\* though the caller is not given their results.
ProcessBatch(t, batch) ==
    /\ facade[t].at = "idle" /\ Become(t, [Free EXCEPT !.at = "done"])
    /\ packets' = packets + (IF \A i \in DOMAIN batch : batch[i] THEN Len(batch)
                  ELSE (CHOOSE i \in DOMAIN batch : ~batch[i] /\ \A j \in 1..(i-1) : batch[j]) - 1)
    /\ UNCHANGED <<counters, tables, exposed, memory>>

FacadeNext == \E t \in FacadeTasks :
    \/ /\ \/ \E what \in DOMAIN Updates : BeginCall(t, "count", what)
          \/ \E what \in DOMAIN CounterReads : BeginCall(t, "load", what)
       /\ UNCHANGED <<counters, tables, exposed, memory, packets>>
    \/ Count(t) \/ ReadCounter(t) \/ Lookup(t) \/ LookupPhase(t)
    \/ \E r \in Routes : InsertRoute(t, r) \/ SyncInsertRoute(t, r)
    \/ InsertPhase(t) \/ DropInsert(t)
    \/ AllocateRegion(t, 1) \/ \E ok \in BOOLEAN : ProcessBatch(t, <<TRUE, ok>>)

-----------------------------------------------------------------------------
\* A lookup through the facade finds a route in all tables of the engine or in none,
\* unless its insertion was dropped or went past the write lock.
LookupsSeeWholeRoutes ==
    \A t \in FacadeTasks : facade[t].seen \subseteq exposed
=============================================================================
