---------------------------- MODULE ProgramProofs ---------------------------
(***************************************************************************)
(* Proofs about the engine facades, the server programs and the control-   *)
(* plane server, for any number of tasks and routes, and about the GPU     *)
(* registry, for any number of agents and of calls that race.              *)
(***************************************************************************)
EXTENDS EngineFacades, ServerProcesses, ControlPlaneServer, GpuRegistry, CalibrationRotation,
        FiniteSetTheorems, TLAPS

-----------------------------------------------------------------------------
\* What a lookup sees through the facade.  The lock around the engine admits one
\* writer or many readers; a route that is in one table and not in another is being
\* written, or is exposed; and a task that looks up excludes the writers.
FacadeSpec == FacadeInit /\ [][FacadeNext]_facadeVars

Engaged == {"insert", "sync_insert", "lookup"}     \* inside the lock
Fields == {"at", "what", "step", "stats", "seen"}

TasksTyped ==
    /\ DOMAIN facade = FacadeTasks
    /\ \A t \in FacadeTasks : DOMAIN facade[t] = Fields
    /\ DOMAIN tables = Phases

\* One writer, or readers only.
WriterAlone ==
    \A t, u \in FacadeTasks : t # u /\ facade[t].at = "insert" => facade[u].at \notin Engaged

\* An insertion has reached the tables before its step, and one that shares the lock
\* has said so.
InsertionReached ==
    \A t \in FacadeTasks : facade[t].at \in {"insert", "sync_insert"} =>
        /\ facade[t].what \in Routes /\ facade[t].step \in Phases
        /\ \A p \in Phases : p < facade[t].step => facade[t].what \in tables[p]
        /\ facade[t].at = "sync_insert" => facade[t].what \in exposed

Everywhere(r) == \A p \in Phases : r \in tables[p]
Writes(r) == \E t \in FacadeTasks : facade[t].at = "insert" /\ facade[t].what = r

\* A route that some table has and another has not is exposed or still being written.
TornAccounted ==
    \A p \in Phases : \A r \in tables[p] :
        r \in Routes /\ (Everywhere(r) \/ r \in exposed \/ Writes(r))

FacadeInv ==
    TasksTyped /\ WriterAlone /\ InsertionReached /\ TornAccounted /\ LookupsSeeWholeRoutes

LEMMA FreeFields == DOMAIN Free = Fields /\ Free.at = "idle" /\ Free.step = 1 /\ Free.seen = {}
BY DEF Free, Fields

LEMMA FacadeInitInv == FacadeInit => FacadeInv
<1> SUFFICES ASSUME FacadeInit PROVE FacadeInv
    OBVIOUS
<1>1. \A t \in FacadeTasks : facade[t] = Free
    BY DEF FacadeInit
<1>q. QED
    BY <1>1, FreeFields
       DEF FacadeInit, FacadeInv, TasksTyped, WriterAlone, InsertionReached, TornAccounted,
           LookupsSeeWholeRoutes

\* A step of a task that does not hold the lock for writing, or that begins to, and
\* that leaves the tables alone.  What it newly sees must be exposed.
LEMMA OutsideStep ==
    ASSUME FacadeInv, NEW t \in FacadeTasks, NEW new,
           facade' = [facade EXCEPT ![t] = new], DOMAIN new = Fields,
           tables' = tables, exposed \subseteq exposed', new.seen \subseteq exposed',
           facade[t].at = "insert" => facade[t].what \in exposed',
           new.at = "insert" => \A u \in FacadeTasks \ {t} : facade[u].at \notin Engaged,
           new.at \in Engaged => \A u \in FacadeTasks \ {t} : facade[u].at # "insert",
           new.at \in {"insert", "sync_insert"} => new.what \in Routes /\ new.step = 1,
           new.at = "sync_insert" => new.what \in exposed'
    PROVE  FacadeInv'
<1>1. TasksTyped'
    BY DEF FacadeInv, TasksTyped
<1>2. WriterAlone'
    BY DEF FacadeInv, TasksTyped, WriterAlone, Engaged
<1>3. InsertionReached'
    BY DEF FacadeInv, TasksTyped, InsertionReached, Phases
<1>4. TornAccounted'
    BY DEF FacadeInv, TasksTyped, TornAccounted, Everywhere, Writes
<1>5. LookupsSeeWholeRoutes'
    BY DEF FacadeInv, TasksTyped, LookupsSeeWholeRoutes
<1>q. QED
    BY <1>1, <1>2, <1>3, <1>4, <1>5 DEF FacadeInv

LEMMA Begun ==
    ASSUME NEW at, NEW what
    PROVE  LET new == [Free EXCEPT !.at = at, !.what = what]
           IN  /\ DOMAIN new = Fields /\ new.at = at /\ new.what = what
               /\ new.step = 1 /\ new.seen = {}
BY DEF Free, Fields

\* Steps that neither take the lock nor hold it.
LEMMA IdleStep ==
    ASSUME FacadeInv, NEW t \in FacadeTasks, NEW new, facade[t].at # "insert",
           facade' = [facade EXCEPT ![t] = new], DOMAIN new = Fields,
           tables' = tables, exposed' = exposed, new.at \notin Engaged,
           new.seen \subseteq exposed
    PROVE  FacadeInv'
BY OutsideStep DEF Engaged

LEMMA BeginOutside ==
    ASSUME FacadeInv, NEW t \in FacadeTasks, NEW at \in {"count", "load"}, NEW what,
           BeginCall(t, at, what), tables' = tables, exposed' = exposed
    PROVE  FacadeInv'
<1> DEFINE new == [Free EXCEPT !.at = at, !.what = what]
<1>1. facade' = [facade EXCEPT ![t] = new] /\ facade[t].at # "insert"
    BY DEF BeginCall, Become
<1>2. DOMAIN new = Fields /\ new.at \notin Engaged /\ new.seen = {}
    BY Begun DEF Engaged
<1> HIDE DEF new
<1>q. QED
    BY <1>1, <1>2, IdleStep

\* A counter updated, a counter read, and the calls that are done at once.
LEMMA DoneStep ==
    ASSUME FacadeInv, NEW t \in FacadeTasks, facade[t].at # "insert",
           facade' = [facade EXCEPT ![t] = [Free EXCEPT !.at = "done"]],
           tables' = tables, exposed' = exposed
    PROVE  FacadeInv'
<1> DEFINE new == [Free EXCEPT !.at = "done"]
<1>1. DOMAIN new = Fields /\ new.at = "done" /\ new.seen = {}
    BY DEF Free, Fields
<1>2. facade' = [facade EXCEPT ![t] = new]
    OBVIOUS
<1> HIDE DEF new
<1>q. QED
    BY <1>1, <1>2, IdleStep DEF Engaged

LEMMA CountStep ==
    ASSUME FacadeInv, NEW t \in FacadeTasks, Count(t)
    PROVE  FacadeInv'
<1> DEFINE next == [facade[t] EXCEPT !.step = @ + 1]
<1>1. /\ facade[t].at = "count" /\ tables' = tables /\ exposed' = exposed
      /\ \/ facade' = [facade EXCEPT ![t] = [Free EXCEPT !.at = "done"]]
         \/ facade' = [facade EXCEPT ![t] = next]
    BY DEF Count, Become
<1>2. DOMAIN next = Fields /\ next.at \notin Engaged /\ next.seen \subseteq exposed
    BY <1>1 DEF FacadeInv, TasksTyped, LookupsSeeWholeRoutes, Fields, Engaged
<1> HIDE DEF next
<1>q. QED
    BY <1>1, <1>2, DoneStep, IdleStep

LEMMA LoadStep ==
    ASSUME FacadeInv, NEW t \in FacadeTasks, ReadCounter(t)
    PROVE  FacadeInv'
<1> DEFINE order == CounterReads[facade[t].what]
           c     == order[facade[t].step]
           next  == [facade[t] EXCEPT !.stats[c] = counters[c], !.step = @ + 1,
                        !.at = IF facade[t].step = Len(order) THEN "answered" ELSE @]
<1>1. /\ facade[t].at = "load" /\ tables' = tables /\ exposed' = exposed
      /\ facade' = [facade EXCEPT ![t] = next]
    BY DEF ReadCounter, Become
<1>2. /\ DOMAIN next = Fields /\ next.seen = facade[t].seen
      /\ next.at \in {"answered", "load"}
    BY <1>1 DEF FacadeInv, TasksTyped, Fields
<1> HIDE DEF next
<1>3. facade[t].seen \subseteq exposed /\ next.at \notin Engaged
    BY <1>2 DEF FacadeInv, LookupsSeeWholeRoutes, Engaged
<1>q. QED
    BY <1>1, <1>2, <1>3, IdleStep

LEMMA LookupStep ==
    ASSUME FacadeInv, NEW t \in FacadeTasks, Lookup(t)
    PROVE  FacadeInv'
<1> DEFINE new == [Free EXCEPT !.at = "lookup", !.what = "none"]
<1>1. /\ facade' = [facade EXCEPT ![t] = new] /\ tables' = tables /\ exposed' = exposed
      /\ \A u \in FacadeTasks : facade[u].at # "insert"
    BY DEF Lookup, BeginCall, Become, Writing
<1>2. DOMAIN new = Fields /\ new.at = "lookup" /\ new.seen = {}
    BY Begun
<1> HIDE DEF new
<1>q. QED
    BY <1>1, <1>2, OutsideStep

\* The look itself: no insertion holds the lock, so a torn route is exposed.
LEMMA LookupPhaseStep ==
    ASSUME FacadeInv, NEW t \in FacadeTasks, LookupPhase(t)
    PROVE  FacadeInv'
<1> DEFINE torn == (UNION {tables[p] : p \in Phases}) \ {r \in Routes : \A p \in Phases : r \in tables[p]}
           new  == [Free EXCEPT !.at = "found", !.seen = torn]
<1>1. /\ facade[t].at = "lookup" /\ facade' = [facade EXCEPT ![t] = new]
      /\ tables' = tables /\ exposed' = exposed
    BY DEF LookupPhase, Become
<1>2. \A u \in FacadeTasks : facade[u].at # "insert"
    BY <1>1 DEF FacadeInv, WriterAlone, Engaged
<1>3. torn \subseteq exposed
    BY <1>2 DEF FacadeInv, TornAccounted, Everywhere, Writes
<1> HIDE DEF torn
<1>4. DOMAIN new = Fields /\ new.at \notin Engaged /\ new.seen = torn
    BY DEF Free, Fields, Engaged
<1> HIDE DEF new
<1>q. QED
    BY <1>1, <1>3, <1>4, IdleStep

LEMMA InsertRouteStep ==
    ASSUME FacadeInv, NEW t \in FacadeTasks, NEW r \in Routes, InsertRoute(t, r)
    PROVE  FacadeInv'
<1> DEFINE new == [Free EXCEPT !.at = "insert", !.what = r]
<1>1. /\ facade' = [facade EXCEPT ![t] = new] /\ tables' = tables /\ exposed' = exposed
      /\ \A u \in FacadeTasks : facade[u].at \notin Engaged /\ facade[u].at # "insert"
    BY DEF InsertRoute, BeginCall, Become, Reading, Writing, Engaged
<1>2. DOMAIN new = Fields /\ new.at = "insert" /\ new.what = r /\ new.step = 1 /\ new.seen = {}
    BY Begun
<1> HIDE DEF new
<1>q. QED
    BY <1>1, <1>2, OutsideStep

LEMMA SyncInsertRouteStep ==
    ASSUME FacadeInv, NEW t \in FacadeTasks, NEW r \in Routes, SyncInsertRoute(t, r)
    PROVE  FacadeInv'
<1> DEFINE new == [Free EXCEPT !.at = "sync_insert", !.what = r]
<1>1. /\ facade' = [facade EXCEPT ![t] = new] /\ tables' = tables
      /\ exposed' = exposed \cup {r} /\ \A u \in FacadeTasks : facade[u].at # "insert"
    BY DEF SyncInsertRoute, BeginCall, Become, Writing
<1>2. DOMAIN new = Fields /\ new.at = "sync_insert" /\ new.what = r /\ new.step = 1 /\ new.seen = {}
    BY Begun
<1> HIDE DEF new
<1>q. QED
    BY <1>1, <1>2, OutsideStep

LEMMA DropInsertStep ==
    ASSUME FacadeInv, NEW t \in FacadeTasks, DropInsert(t)
    PROVE  FacadeInv'
<1> DEFINE new == [Free EXCEPT !.at = "done"]
<1>1. /\ facade' = [facade EXCEPT ![t] = new] /\ tables' = tables
      /\ exposed' = exposed \cup {facade[t].what}
    BY DEF DropInsert, Become
<1>2. DOMAIN new = Fields /\ new.at = "done" /\ new.seen = {}
    BY DEF Free, Fields
<1> HIDE DEF new
<1>q. QED
    BY <1>1, <1>2, OutsideStep DEF Engaged

\* One table written.  After the last one the route is everywhere.
LEMMA InsertPhaseStep ==
    ASSUME FacadeInv, NEW t \in FacadeTasks, InsertPhase(t)
    PROVE  FacadeInv'
<1> DEFINE r    == facade[t].what
           s    == facade[t].step
           last == [Free EXCEPT !.at = "done"]
           next == [facade[t] EXCEPT !.step = @ + 1]
<1>1. /\ facade[t].at \in {"insert", "sync_insert"} /\ exposed' = exposed
      /\ tables' = [tables EXCEPT ![s] = @ \cup {r}]
      /\ facade' = [facade EXCEPT ![t] = IF s = 3 THEN last ELSE next]
    BY DEF InsertPhase, Become
<1>2. r \in Routes /\ s \in Phases /\ \A p \in Phases : p < s => r \in tables[p]
    BY <1>1 DEF FacadeInv, InsertionReached
<1>3. DOMAIN last = Fields /\ last.at = "done" /\ last.seen = {}
    BY DEF Free, Fields
<1>4. /\ DOMAIN next = Fields /\ next.at = facade[t].at /\ next.what = r
      /\ next.step = s + 1 /\ next.seen = facade[t].seen
    BY DEF FacadeInv, TasksTyped, Fields
<1> DEFINE new == IF s = 3 THEN last ELSE next
<1>5. /\ DOMAIN new = Fields
      /\ s = 3 => new.at = "done" /\ new.seen = {}
      /\ s # 3 => /\ new.at = facade[t].at /\ new.what = r /\ new.step = s + 1
                  /\ new.seen = facade[t].seen
    BY <1>3, <1>4
<1>6. facade' = [facade EXCEPT ![t] = new]
    BY <1>1
<1> HIDE DEF new, last, next
<1>7. \A p \in Phases : tables'[p] = IF p = s THEN tables[p] \cup {r} ELSE tables[p]
    BY <1>1 DEF FacadeInv, TasksTyped
<1>8. TasksTyped'
    BY <1>1, <1>5, <1>6 DEF FacadeInv, TasksTyped
<1>9. WriterAlone'
    BY <1>1, <1>5, <1>6 DEF FacadeInv, TasksTyped, WriterAlone, Engaged
<1>10. InsertionReached'
    <2>1. SUFFICES ASSUME NEW u \in FacadeTasks, facade'[u].at \in {"insert", "sync_insert"}
                   PROVE  /\ facade'[u].what \in Routes /\ facade'[u].step \in Phases
                          /\ \A p \in Phases : p < facade'[u].step => facade'[u].what \in tables'[p]
                          /\ facade'[u].at = "sync_insert" => facade'[u].what \in exposed'
        BY DEF InsertionReached
    <2>2. CASE u # t
        <3>1. facade'[u] = facade[u]
            BY <2>2, <1>6 DEF FacadeInv, TasksTyped
        <3>q. QED
            BY <3>1, <2>1, <1>1, <1>7 DEF FacadeInv, InsertionReached
    <2>3. CASE u = t
        <3>1. facade'[u] = new /\ s # 3
            BY <2>1, <2>3, <1>5, <1>6 DEF FacadeInv, TasksTyped
        <3>2. facade'[u].what = r /\ facade'[u].step = s + 1 /\ facade'[u].at = facade[t].at
            BY <3>1, <1>5
        <3>3. s + 1 \in Phases /\ \A p \in Phases : p < s + 1 => r \in tables'[p]
            BY <3>1, <1>2, <1>7 DEF Phases
        <3>4. facade[t].at = "sync_insert" => r \in exposed'
            BY <1>1 DEF FacadeInv, InsertionReached
        <3>q. QED
            BY <3>2, <3>3, <3>4, <1>2
    <2>q. QED
        BY <2>2, <2>3
<1>11. TornAccounted'
    <2>1. SUFFICES ASSUME NEW p \in Phases, NEW x \in tables'[p]
                   PROVE  x \in Routes /\ (Everywhere(x)' \/ x \in exposed' \/ Writes(x)')
        BY DEF TornAccounted
    <2>2. CASE x = r
        <3>1. CASE s = 3
            BY <3>1, <2>2, <1>2, <1>7 DEF Everywhere, Phases
        <3>2. CASE s # 3 /\ facade[t].at = "insert"
            <4>1. facade'[t].at = "insert" /\ facade'[t].what = r
                BY <3>2, <1>5, <1>6 DEF FacadeInv, TasksTyped
            <4>q. QED
                BY <4>1, <2>2, <1>2 DEF Writes
        <3>3. CASE facade[t].at = "sync_insert"
            BY <3>3, <2>2, <1>1, <1>2 DEF FacadeInv, InsertionReached
        <3>q. QED
            BY <3>1, <3>2, <3>3, <1>1
    <2>3. CASE x # r
        <3>1. x \in tables[p]
            BY <2>1, <2>3, <1>7
        <3>2. Everywhere(x) => Everywhere(x)'
            BY <1>7 DEF Everywhere
        <3>3. Writes(x) => Writes(x)'
            <4>1. SUFFICES ASSUME NEW u \in FacadeTasks, facade[u].at = "insert", facade[u].what = x
                           PROVE  Writes(x)'
                BY DEF Writes
            <4>2. u # t
                BY <4>1, <2>3
            <4>3. facade'[u] = facade[u]
                BY <4>2, <1>6 DEF FacadeInv, TasksTyped
            <4>q. QED
                BY <4>1, <4>3 DEF Writes
        <3>q. QED
            BY <3>1, <3>2, <3>3, <1>1 DEF FacadeInv, TornAccounted
    <2>q. QED
        BY <2>2, <2>3
<1>12. LookupsSeeWholeRoutes'
    BY <1>1, <1>5, <1>6 DEF FacadeInv, TasksTyped, LookupsSeeWholeRoutes
<1>q. QED
    BY <1>8, <1>9, <1>10, <1>11, <1>12 DEF FacadeInv

LEMMA FacadeStep == FacadeInv /\ [FacadeNext]_facadeVars => FacadeInv'
<1> SUFFICES ASSUME FacadeInv, [FacadeNext]_facadeVars PROVE FacadeInv'
    OBVIOUS
<1>1. CASE UNCHANGED facadeVars
    BY <1>1 DEF facadeVars, FacadeInv, TasksTyped, WriterAlone, InsertionReached,
                TornAccounted, Everywhere, Writes, LookupsSeeWholeRoutes
<1>2. ASSUME NEW t \in FacadeTasks, NEW what, NEW at \in {"count", "load"}, BeginCall(t, at, what),
             UNCHANGED <<counters, tables, exposed, memory, packets>>
      PROVE  FacadeInv'
    BY <1>2, BeginOutside
<1>3. ASSUME NEW t \in FacadeTasks, AllocateRegion(t, 1) PROVE FacadeInv'
    BY <1>3, DoneStep DEF AllocateRegion, Become
<1>4. ASSUME NEW t \in FacadeTasks, NEW ok \in BOOLEAN, ProcessBatch(t, <<TRUE, ok>>)
      PROVE  FacadeInv'
    BY <1>4, DoneStep DEF ProcessBatch, Become
<1>q. QED
    BY <1>1, <1>2, <1>3, <1>4, CountStep, LoadStep, LookupStep, LookupPhaseStep,
       InsertRouteStep, SyncInsertRouteStep, InsertPhaseStep, DropInsertStep
    DEF FacadeNext

\* insert_route keeps the engine's write lock over all three tables, so that no lookup
\* through the facade sees a route in one of them only, for any number of tasks and
\* routes, unless the insertion was dropped or came in by the synchronous form.
THEOREM WholeRoutesSeen == FacadeSpec => []LookupsSeeWholeRoutes
<1>1. FacadeInv => LookupsSeeWholeRoutes
    BY DEF FacadeInv
<1>q. QED
    BY FacadeInitInv, FacadeStep, <1>1, PTL DEF FacadeSpec

-----------------------------------------------------------------------------
\* The programs' processes and their shutdown.
ProcessSpec == ProcessInit /\ [][ProcessNext]_processVars

ProcessTyped ==
    /\ DOMAIN binary = {"program", "config", "monitoring"}
    /\ binary.program \in {"daemon", "unified", "grpc"}
    /\ DOMAIN worker = AllWorkers

\* Whoever is there hears: a task is spawned with its receiver, and only before the
\* shutdown is sent, which happens when the spawning is over.
HearersFirst ==
    /\ signalled => process \in {"closing", "ended"}
    /\ ShutdownHeard
    /\ binary.program = "daemon" => \A w \in Mine : worker[w] # "none" => w \in hears

ProcessInv == ProcessTyped /\ HearersFirst

LEMMA MineAreWorkers == ProcessTyped => Mine \subseteq AllWorkers
<1> SUFFICES ASSUME ProcessTyped, NEW w \in Mine PROVE w \in AllWorkers
    OBVIOUS
<1>1. binary.program \in DOMAIN Workers
    BY DEF ProcessTyped, Workers
<1>q. QED
    BY <1>1 DEF Mine, AllWorkers

LEMMA ProcessInitInv == ProcessInit => ProcessInv
<1> SUFFICES ASSUME ProcessInit PROVE ProcessInv
    OBVIOUS
<1>1. ProcessTyped
    <2>1. DOMAIN worker = AllWorkers
        BY DEF ProcessInit
    <2>2. \/ \E c, m : binary = [program |-> "daemon", config |-> c, monitoring |-> m]
          \/ \E c : binary = [program |-> "unified", config |-> c, monitoring |-> FALSE]
          \/ \E c : binary = [program |-> "grpc", config |-> c, monitoring |-> FALSE]
        BY DEF ProcessInit, Binaries
    <2>q. QED
        BY <2>1, <2>2 DEF ProcessTyped
<1>2. \A w \in Mine : worker[w] = "none"
    BY <1>1, MineAreWorkers DEF ProcessInit
<1>3. HearersFirst
    BY <1>2 DEF ProcessInit, HearersFirst, ShutdownHeard
<1>q. QED
    BY <1>1, <1>3 DEF ProcessInv

\* A step that spawns nothing, keeps the receivers and sends no shutdown too early.
LEMMA ReceiversKept ==
    ASSUME ProcessInv, binary'.program = binary.program, ProcessTyped',
           hears \subseteq hears',
           \A w \in AllWorkers : worker'[w] # "none" => worker[w] # "none" \/ w \in hears',
           signalled' => process' \in {"closing", "ended"}
    PROVE  ProcessInv'
<1>1. Mine' = Mine
    BY DEF Mine
<1>2. Mine \subseteq AllWorkers
    BY MineAreWorkers DEF ProcessInv
<1>3. binary'.program = "daemon" => \A w \in Mine' : worker'[w] # "none" => w \in hears'
    BY <1>1, <1>2 DEF ProcessInv, HearersFirst
<1>4. HearersFirst'
    BY <1>3 DEF HearersFirst, ShutdownHeard
<1>q. QED
    BY <1>4 DEF ProcessInv

LEMMA SpawnStep ==
    ASSUME ProcessInv, NEW w \in AllWorkers, SpawnWorker(w)
    PROVE  ProcessInv'
<1>1. /\ process = "spawning" /\ binary' = binary /\ signalled' = signalled /\ ~signalled
      /\ w \in Mine
    BY DEF SpawnWorker, Quiet, ProcessInv, HearersFirst
<1>2. CASE UNCHANGED <<worker, hears>>
    <2>1. ProcessTyped'
        BY <1>1, <1>2 DEF ProcessInv, ProcessTyped, AllWorkers, Workers
    <2>q. QED
        BY <1>1, <1>2, <2>1, ReceiversKept
<1>3. CASE worker' = [worker EXCEPT ![w] = "spawned"] /\ TakeReceiver(w, "spawn")
    <2>1. ProcessTyped'
        BY <1>1, <1>3 DEF ProcessInv, ProcessTyped, AllWorkers, Workers
    <2>2. CASE binary.program = "daemon"
        <3>1. hears' = hears \cup {w}
            BY <1>1, <1>3, <2>2 DEF TakeReceiver, Subscribes
        <3>2. \A v \in AllWorkers : worker'[v] # "none" => worker[v] # "none" \/ v \in hears'
            BY <1>3, <3>1 DEF ProcessInv, ProcessTyped
        <3>q. QED
            BY <1>1, <2>1, <3>1, <3>2, ReceiversKept
    <2>3. CASE binary.program # "daemon"
        BY <1>1, <2>1, <2>3 DEF ProcessInv, HearersFirst, ShutdownHeard
    <2>q. QED
        BY <2>2, <2>3
<1>q. QED
    BY <1>2, <1>3 DEF SpawnWorker

\* A task's own steps.
LEMMA WorkerStep ==
    ASSUME ProcessInv, NEW w \in AllWorkers,
           FirstPoll(w) \/ BindListener(w) \/ TickWorker(w) \/ HearShutdown(w)
    PROVE  ProcessInv'
<1>1. /\ binary' = binary /\ signalled' = signalled /\ process' = process /\ hears' = hears
      /\ worker[w] # "none"
      /\ worker' = worker \/ \E state : worker' = [worker EXCEPT ![w] = state]
    BY DEF FirstPoll, BindListener, TickWorker, HearShutdown, Working, Quiet, TakeReceiver, Subscribes
<1>2. ProcessTyped'
    BY <1>1 DEF ProcessInv, ProcessTyped, AllWorkers, Workers
<1>3. \A v \in AllWorkers : worker'[v] # "none" => worker[v] # "none"
    BY <1>1 DEF ProcessInv, ProcessTyped
<1>q. QED
    BY <1>1, <1>2, <1>3, ReceiversKept DEF ProcessInv, HearersFirst

\* The steps of main.
LEMMA MainStep ==
    ASSUME ProcessInv, Load \/ StartWaiting \/ Interrupt \/ ReturnFromMain
    PROVE  ProcessInv'
<1>1. /\ worker' = worker /\ hears' = hears
      /\ binary' = binary \/ binary' = [binary EXCEPT !.monitoring = TRUE]
    BY DEF Load, StartWaiting, Interrupt, ReturnFromMain, Quiet
<1>2. ProcessTyped' /\ binary'.program = binary.program
    BY <1>1 DEF ProcessInv, ProcessTyped, AllWorkers, Workers
<1>3. signalled' => process' \in {"closing", "ended"}
    BY DEF Load, StartWaiting, Interrupt, ReturnFromMain, ProcessInv, HearersFirst
<1>q. QED
    BY <1>1, <1>2, <1>3, ReceiversKept

LEMMA ProcessStep == ProcessInv /\ [ProcessNext]_processVars => ProcessInv'
<1> SUFFICES ASSUME ProcessInv, [ProcessNext]_processVars PROVE ProcessInv'
    OBVIOUS
<1>1. CASE UNCHANGED processVars
    BY <1>1 DEF processVars, ProcessInv, ProcessTyped, HearersFirst, ShutdownHeard, Mine,
                AllWorkers, Workers
<1>2. CASE ProcessNext
    BY <1>2, MainStep, SpawnStep, WorkerStep DEF ProcessNext
<1>q. QED
    BY <1>1, <1>2

\* The daemon's shutdown reaches every task, whatever the bounds on its ticks and
\* containers: start subscribes for a task before it spawns it.
THEOREM ShutdownReachesAll == ProcessSpec => []ShutdownHeard
<1>1. ProcessInv => ShutdownHeard
    BY DEF ProcessInv, HearersFirst
<1>q. QED
    BY ProcessInitInv, ProcessStep, <1>1, PTL DEF ProcessSpec


-----------------------------------------------------------------------------
\* The control-plane server's counters.  A lookup is counted as a hit or a miss before
\* its command is, so between the two its task is due; that only a CacheGet can be where
\* hits and misses are counted is what makes the bound inductive.
Points == {"idle", "packet", "request", "handshake", "ws", "execute", "predictor", "register",
           "hit", "miss", "count"}

TasksPlaced ==
    /\ DOMAIN task = Tasks
    /\ \A t \in Tasks : /\ DOMAIN task[t] = {"at", "via", "what", "reply"}
                        /\ task[t].at \in Points
                        /\ task[t].at \in {"hit", "miss"} => task[t].what = "CacheGet"

\* The tasks that have counted a lookup and not yet its command.
Due(places) == {t \in Tasks : places[t].at = "count" /\ places[t].what = "CacheGet"}

LookupsCounted ==
    server_stats.cache_hits + server_stats.cache_misses
        <= server_stats.commands_processed + Cardinality(Due(task))

ServerInv ==
    /\ TasksPlaced
    /\ server_stats \in [DOMAIN ServerStats -> Nat]
    /\ up = "running" => LookupsCounted

\* A step of one task changes what is due by that task alone.
LEMMA DueChange ==
    ASSUME NEW f, NEW g, NEW t \in Tasks, \A u \in Tasks \ {t} : g[u] = f[u]
    PROVE  /\ Cardinality(Due(f)) \in Nat /\ Cardinality(Due(g)) \in Nat
           /\ t \in Due(f) \/ t \notin Due(g) => Cardinality(Due(g)) <= Cardinality(Due(f))
           /\ t \in Due(g) \/ t \notin Due(f) => Cardinality(Due(g)) >= Cardinality(Due(f))
           /\ t \in Due(g) /\ t \notin Due(f) => Cardinality(Due(g)) = Cardinality(Due(f)) + 1
           /\ Cardinality(Due(g)) >= Cardinality(Due(f)) - 1
<1>1. IsFiniteSet(Due(f)) /\ IsFiniteSet(Due(g))
    BY ServerAssumption, FS_Subset DEF Due
<1>2. Cardinality(Due(f)) \in Nat /\ Cardinality(Due(g)) \in Nat
    BY <1>1, FS_CardinalityType
<1>3. Due(g) \ {t} = Due(f) \ {t}
    BY DEF Due
<1>4. /\ Cardinality(Due(f) \ {t}) = IF t \in Due(f) THEN Cardinality(Due(f)) - 1
                                                     ELSE Cardinality(Due(f))
      /\ Cardinality(Due(g) \ {t}) = IF t \in Due(g) THEN Cardinality(Due(g)) - 1
                                                     ELSE Cardinality(Due(g))
    BY <1>1, FS_RemoveElement
<1>q. QED
    BY <1>2, <1>3, <1>4

\* At the start nothing is counted.
LEMMA ServerInitInv == ServerInit => ServerInv
<1> SUFFICES ASSUME ServerInit PROVE ServerInv
    OBVIOUS
<1>1. TasksPlaced
    BY DEF ServerInit, TasksPlaced, Idle, Points
<1>2. Due(task) = {}
    BY DEF ServerInit, Due, Idle
<1>3. Cardinality(Due(task)) = 0
    BY <1>2, FS_EmptySet
<1>q. QED
    BY <1>1, <1>3 DEF ServerInit, ServerInv, ServerStats, LookupsCounted

\* A step that leaves hits, misses and commands alone, and at which one task moves that
\* has no lookup to count, keeps the bound.
LEMMA TaskMoves ==
    ASSUME ServerInv, NEW t \in Tasks, task[t].at # "count",
           DOMAIN task' = Tasks, \A u \in Tasks \ {t} : task'[u] = task[u],
           DOMAIN task'[t] = {"at", "via", "what", "reply"}, task'[t].at \in Points,
           task'[t].at \in {"hit", "miss"} => task'[t].what = "CacheGet",
           server_stats' \in [DOMAIN ServerStats -> Nat],
           server_stats'.cache_hits = server_stats.cache_hits,
           server_stats'.cache_misses = server_stats.cache_misses,
           server_stats'.commands_processed = server_stats.commands_processed,
           up' = up
    PROVE  ServerInv'
<1>1. TasksPlaced'
    BY DEF ServerInv, TasksPlaced
<1>2. t \notin Due(task)
    BY DEF Due
<1>3. /\ Cardinality(Due(task)) \in Nat /\ Cardinality(Due(task')) \in Nat
      /\ Cardinality(Due(task')) >= Cardinality(Due(task))
    BY <1>2, DueChange
<1>4. up' = "running" => LookupsCounted'
    <2>1. SUFFICES ASSUME up' = "running" PROVE LookupsCounted'
        OBVIOUS
    <2>2. LookupsCounted
        BY <2>1 DEF ServerInv
    <2>3. /\ server_stats.cache_hits \in Nat /\ server_stats.cache_misses \in Nat
          /\ server_stats.commands_processed \in Nat
        BY DEF ServerInv, ServerStats
    <2>q. QED
        BY <1>3, <2>2, <2>3 DEF LookupsCounted
<1>q. QED
    BY <1>1, <1>4 DEF ServerInv

\* A counter that goes up stays a number and leaves the others alone.
LEMMA BumpOne ==
    ASSUME server_stats \in [DOMAIN ServerStats -> Nat], NEW counter \in DOMAIN ServerStats,
           Bump(counter)
    PROVE  /\ server_stats' \in [DOMAIN ServerStats -> Nat]
           /\ server_stats'[counter] = server_stats[counter] + 1
           /\ \A c \in DOMAIN ServerStats \ {counter} : server_stats'[c] = server_stats[c]
BY DEF Bump

LEMMA ServerCounters ==
    DOMAIN ServerStats
        = {"commands_processed", "vxlan_packets", "http_requests", "cache_hits", "cache_misses"}
BY DEF ServerStats

\* The steps before a command runs: they count packets and requests only.
LEMMA InputStep ==
    ASSUME ServerInv, NEW t \in Tasks,
           \/ ReceivePacket(t) \/ AcceptConnection(t) \/ CountPacket(t) \/ CountRequest(t)
           \/ ReadPredictor(t) \/ RegisterIndex(t) \/ Handshake(t) \/ WsClose(t)
           \/ \E m \in Payload : WsMessage(t, m)
    PROVE  ServerInv'
<1> USE DEF IsAt, MoveTo, End, Points
<1>0. TasksPlaced /\ server_stats \in [DOMAIN ServerStats -> Nat]
    BY DEF ServerInv
<1>1. CASE ReceivePacket(t) \/ AcceptConnection(t)
    <2>1. PICK p \in {"packet", "request", "handshake"}, v \in {"vxlan", "http", "ws"} :
              \E w : Arrive(t, v, w, p)
        BY <1>1 DEF ReceivePacket, AcceptConnection
    <2>2. PICK w : Arrive(t, v, w, p)
        BY <2>1
    <2>3. task[t].at = "idle" /\ up' = up /\ server_stats' = server_stats
        BY <2>2 DEF Arrive
    <2>4. task' = [task EXCEPT ![t] = [at |-> p, via |-> v, what |-> w, reply |-> "none"]]
        BY <2>2 DEF Arrive
    <2>5. /\ DOMAIN task' = Tasks /\ \A u \in Tasks \ {t} : task'[u] = task[u]
          /\ DOMAIN task'[t] = {"at", "via", "what", "reply"}
          /\ task'[t].at \in {"packet", "request", "handshake"}
        BY <1>0, <2>4 DEF TasksPlaced
    <2>q. QED
        BY <1>0, <2>3, <2>5, TaskMoves
<1>2. CASE CountPacket(t)
    <2>1. task[t].at = "packet" /\ up' = up /\ Bump("vxlan_packets")
        BY <1>2 DEF CountPacket
    <2>2. /\ DOMAIN task' = Tasks /\ \A u \in Tasks \ {t} : task'[u] = task[u]
          /\ DOMAIN task'[t] = {"at", "via", "what", "reply"}
          /\ task'[t].at \in {"execute", "ws", "idle"}
        BY <1>0, <1>2 DEF CountPacket, TasksPlaced
    <2>q. QED
        BY <1>0, <2>1, <2>2, BumpOne, ServerCounters, TaskMoves
<1>3. CASE CountRequest(t)
    <2>1. task[t].at = "request" /\ up' = up /\ Bump("http_requests")
        BY <1>3 DEF CountRequest
    <2>2. /\ DOMAIN task' = Tasks /\ \A u \in Tasks \ {t} : task'[u] = task[u]
          /\ DOMAIN task'[t] = {"at", "via", "what", "reply"}
          /\ task'[t].at \in {"predictor", "register", "execute", "ws", "idle"}
        BY <1>0, <1>3 DEF CountRequest, TasksPlaced
    <2>q. QED
        BY <1>0, <2>1, <2>2, BumpOne, ServerCounters, TaskMoves
<1>4. CASE Handshake(t)
    <2>1. /\ task[t].at = "handshake" /\ up' = up
          /\ Bump("http_requests") \/ server_stats' = server_stats
        BY <1>4 DEF Handshake
    <2>2. /\ DOMAIN task' = Tasks /\ \A u \in Tasks \ {t} : task'[u] = task[u]
          /\ DOMAIN task'[t] = {"at", "via", "what", "reply"}
          /\ task'[t].at \in {"ws", "idle"}
        BY <1>0, <1>4 DEF Handshake, TasksPlaced, Idle
    <2>q. QED
        BY <1>0, <2>1, <2>2, BumpOne, ServerCounters, TaskMoves
<1>5. CASE ReadPredictor(t) \/ RegisterIndex(t) \/ WsClose(t)
           \/ \E m \in Payload : WsMessage(t, m)
    <2>1. /\ task[t].at \in {"predictor", "register", "ws"}
          /\ up' = up /\ server_stats' = server_stats
        BY <1>5 DEF ReadPredictor, RegisterIndex, WsClose, WsMessage
    <2>2. /\ DOMAIN task' = Tasks /\ \A u \in Tasks \ {t} : task'[u] = task[u]
          /\ DOMAIN task'[t] = {"at", "via", "what", "reply"}
          /\ task'[t].at \in {"predictor", "ws", "idle", "execute"}
        <3>1. CASE ReadPredictor(t)
            BY <1>0, <3>1 DEF ReadPredictor, TasksPlaced
        <3>2. CASE RegisterIndex(t)
            BY <1>0, <3>2 DEF RegisterIndex, TasksPlaced
        <3>3. CASE WsClose(t)
            BY <1>0, <3>3 DEF WsClose, TasksPlaced, Idle
        <3>4. ASSUME NEW m \in Payload, WsMessage(t, m)
              PROVE  /\ DOMAIN task' = Tasks /\ \A u \in Tasks \ {t} : task'[u] = task[u]
                     /\ DOMAIN task'[t] = {"at", "via", "what", "reply"}
                     /\ task'[t].at \in {"ws", "execute"}
            BY <1>0, <3>4 DEF WsMessage, TasksPlaced
        <3>q. QED
            BY <1>5, <3>1, <3>2, <3>3, <3>4
    <2>q. QED
        BY <1>0, <2>1, <2>2, TaskMoves
<1>q. QED
    BY <1>1, <1>2, <1>3, <1>4, <1>5

\* The steps of process_command: only a CacheGet comes to where hits are counted.
LEMMA ExecuteStep ==
    ASSUME ServerInv, NEW t \in Tasks, Execute(t)
    PROVE  ServerInv'
<1>1. /\ task[t].at = "execute" /\ up' = up /\ server_stats' = server_stats
      /\ \E hit \in BOOLEAN : task' = [task EXCEPT ![t].at = NextPoint(task[t].what, hit)]
    BY DEF Execute, IsAt, MoveTo
<1>2. PICK hit \in BOOLEAN : task' = [task EXCEPT ![t].at = NextPoint(task[t].what, hit)]
    BY <1>1
<1>3. /\ NextPoint(task[t].what, hit) \in {"hit", "miss", "count"}
      /\ NextPoint(task[t].what, hit) # "count" => task[t].what = "CacheGet"
    BY DEF NextPoint, CacheReads
<1>q. QED
    BY <1>1, <1>2, <1>3, TaskMoves DEF ServerInv, TasksPlaced, Points

\* Where the process ends nothing more is claimed; in a development build only the task
\* is lost.
LEMMA PanicStep ==
    ASSUME ServerInv, NEW t \in Tasks, ExecuteTcam(t)
    PROVE  ServerInv'
<1>1. CASE profile = "release"
    BY <1>1 DEF ExecuteTcam, ServerInv, TasksPlaced, Idle, Points
<1>2. CASE profile # "release"
    <2>1. /\ task[t].at = "execute" /\ up' = up /\ server_stats' = server_stats
          /\ task' = [task EXCEPT ![t] = Idle]
        BY <1>2 DEF ExecuteTcam, IsAt
    <2>q. QED
        BY <2>1, TaskMoves DEF ServerInv, TasksPlaced, Idle, Points
<1>q. QED
    BY <1>1, <1>2

\* A hit or a miss is counted, and its task is due.
LEMMA LookupCounted ==
    ASSUME ServerInv, NEW t \in Tasks, CountLookup(t)
    PROVE  ServerInv'
<1>0. /\ TasksPlaced /\ server_stats \in [DOMAIN ServerStats -> Nat] /\ LookupsCounted
      /\ up = "running"
    BY DEF ServerInv, CountLookup
<1>1. PICK counter \in {"cache_hits", "cache_misses"} : Bump(counter)
    BY DEF CountLookup
<1>2. /\ server_stats' \in [DOMAIN ServerStats -> Nat]
      /\ server_stats'.cache_hits + server_stats'.cache_misses
             = server_stats.cache_hits + server_stats.cache_misses + 1
      /\ server_stats'.commands_processed = server_stats.commands_processed
      /\ server_stats.cache_hits + server_stats.cache_misses \in Nat
      /\ server_stats.commands_processed \in Nat
    BY <1>0, <1>1, BumpOne, ServerCounters
<1>3. /\ task[t].at \in {"hit", "miss"}
      /\ task' = [task EXCEPT ![t].at = "count"]
    BY DEF CountLookup, MoveTo
<1>4. TasksPlaced'
    BY <1>0, <1>3 DEF TasksPlaced, Points
<1>5. t \notin Due(task) /\ t \in Due(task')
    BY <1>0, <1>3 DEF Due, TasksPlaced
<1>6. /\ Cardinality(Due(task)) \in Nat
      /\ Cardinality(Due(task')) = Cardinality(Due(task)) + 1
    BY <1>0, <1>3, <1>5, DueChange DEF TasksPlaced
<1>7. LookupsCounted'
    BY <1>0, <1>2, <1>6 DEF LookupsCounted
<1>q. QED
    BY <1>2, <1>4, <1>7 DEF ServerInv

\* A command is counted, and its task is no longer due.
LEMMA CommandCounted ==
    ASSUME ServerInv, NEW t \in Tasks, CountCommand(t)
    PROVE  ServerInv'
<1>0. /\ TasksPlaced /\ server_stats \in [DOMAIN ServerStats -> Nat] /\ LookupsCounted
      /\ up = "running" /\ task[t].at = "count"
    BY DEF ServerInv, CountCommand, IsAt
<1>1. Bump("commands_processed")
    BY DEF CountCommand
<1>2. /\ server_stats' \in [DOMAIN ServerStats -> Nat]
      /\ server_stats'.cache_hits + server_stats'.cache_misses
             = server_stats.cache_hits + server_stats.cache_misses
      /\ server_stats'.commands_processed = server_stats.commands_processed + 1
      /\ server_stats.cache_hits + server_stats.cache_misses \in Nat
      /\ server_stats.commands_processed \in Nat
    BY <1>0, <1>1, BumpOne, ServerCounters
<1>3. /\ DOMAIN task' = Tasks /\ \A u \in Tasks \ {t} : task'[u] = task[u]
      /\ DOMAIN task'[t] = {"at", "via", "what", "reply"}
      /\ task'[t].at \in {"ws", "idle"}
    BY <1>0 DEF CountCommand, End, TasksPlaced
<1>4. TasksPlaced'
    BY <1>0, <1>3 DEF TasksPlaced, Points
<1>5. /\ Cardinality(Due(task)) \in Nat /\ Cardinality(Due(task')) \in Nat
      /\ Cardinality(Due(task')) >= Cardinality(Due(task)) - 1
    BY <1>3, DueChange
<1>6. LookupsCounted'
    BY <1>0, <1>2, <1>5 DEF LookupsCounted
<1>q. QED
    BY <1>2, <1>4, <1>6 DEF ServerInv

\* Every step of the server keeps it.
LEMMA ServerStep == ServerInv /\ [ServerNext]_serverVars => ServerInv'
<1> SUFFICES ASSUME ServerInv, [ServerNext]_serverVars PROVE ServerInv'
    OBVIOUS
<1>1. CASE UNCHANGED serverVars
    BY <1>1 DEF serverVars, ServerInv, TasksPlaced, LookupsCounted, Due
<1>2. CASE Stop
    BY <1>2 DEF Stop, ServerInv, TasksPlaced, Idle, Points
<1>3. ASSUME NEW t \in Tasks, Step(t) PROVE ServerInv'
    BY <1>3, InputStep, ExecuteStep, PanicStep, LookupCounted, CommandCounted DEF Step
<1>q. QED
    BY <1>1, <1>2, <1>3 DEF ServerNext

\* Whatever a Stats command copies, hits and misses are no more than the commands that
\* are counted or still due, for any number of tasks and arrivals, a panic in one of
\* them included (process_command).
THEOREM LookupsNeverAhead == ServerSpec => []LookupsWithinCommands
<1>1. ServerInv => LookupsWithinCommands
    BY DEF ServerInv, LookupsCounted, LookupsWithinCommands, Due
<1>q. QED
    BY ServerInitInv, ServerStep, <1>1, PTL DEF ServerSpec
-----------------------------------------------------------------------------
\* The service's verdict is that of a mark which is there if no other of its marks is.
LEMMA ServiceSees ==
    ASSUME NEW gpu, NEW i \in 1..10, ByName[i][1] \in gpu.marks,
           \A j \in 1..10 : j # i => ByName[j][1] \notin gpu.marks
    PROVE  ServiceDetects(gpu) = ByName[i][2]
  <1> DEFINE hits == {k \in DOMAIN ByName : ByName[k][1] \in gpu.marks}
  <1>1. DOMAIN ByName = 1..10
    BY DEF ByName
  <1>2. hits = {i}
    BY <1>1
  <1>3. (CHOOSE k \in hits : \A j \in hits : k <= j) = i
    BY <1>2
  <1> QED
    BY <1>2, <1>3 DEF ServiceDetects

LEMMA MarksAre ==
    /\ ByName[1] = <<"h200", "H200">> /\ ByName[2] = <<"h100", "H100">>
    /\ ByName[3] = <<"a100", "A100">> /\ ByName[4] = <<"v100", "V100">>
    /\ ByName[5] = <<"l40s", "L40S">> /\ ByName[6] = <<"5090", "RTX_5090">>
    /\ ByName[7] = <<"4090", "RTX_4090">> /\ ByName[8] = <<"mi300", "MI300X">>
    /\ ByName[9] = <<"mi250", "MI250">> /\ ByName[10] = <<"mi100", "MI100">>
  BY DEF ByName

\* Where both detections find a GPU, they find the same one, and it is on the list:
\* name by name, for every order in which the map may yield the patterns.
LEMMA DetectionsAgree ==
    ASSUME NEW gpu \in Names, NEW detected \in ManagerDetects(gpu),
           ServiceDetects(gpu) # "Unknown", detected # "Unknown"
    PROVE  detected = ServiceDetects(gpu) /\ detected \in all_supported
  <1>1. PICK p \in Patterns : p[1] \in gpu.marks /\ detected = p[2]
    BY DEF ManagerDetects
  <1>2. gpu.marks \in {{"h200"}, {"h100"}, {"a100"}, {"v100"}, {"l40", "l40s"}, {"l40"},
                   {"5090", "rtx_5090"}, {"4090", "rtx_4090"}, {"4090"}, 
                   {"mi300", "mi300x"}, {"mi300"}, {"mi250", "mi250x"}, {"mi250"},
                   {"mi100"}, {}}
    BY DEF Names
  <1>3. CASE gpu.marks = {"l40"}
    <2>1. \A j \in 1..10 : ByName[j][1] \notin gpu.marks
      BY <1>3 DEF ByName
    <2>2. {k \in DOMAIN ByName : ByName[k][1] \in gpu.marks} = {}
      BY <2>1 DEF ByName
    <2>3. ServiceDetects(gpu) = "Unknown"
      <3>1. gpu.cc = <<0, 0>>
        BY <1>3 DEF Names
      <3>2. \A c \in ByCapability : c[1] # <<0, 0>>
        BY DEF ByCapability
      <3> QED
        BY <2>2, <3>1, <3>2 DEF ServiceDetects
    <2> QED
      BY <2>3
  <1>4. CASE gpu.marks # {"l40"}
    <2>1. PICK i \in 1..10 : /\ ByName[i][1] \in gpu.marks
                             /\ ByName[i][2] = p[2]
      BY <1>1, <1>2, <1>4, MarksAre DEF Patterns, NamePatterns
    <2>2. \A j \in 1..10 : j # i => ByName[j][1] \notin gpu.marks
      BY <1>2, <2>1, MarksAre
    <2>3. p[2] \in all_supported
      BY DEF Patterns, NamePatterns, all_supported
    <2> QED
      BY <1>1, <2>1, <2>2, <2>3, ServiceSees
  <1> QED
    BY <1>3, <1>4

-----------------------------------------------------------------------------
\* A call between detection and the lock carries two verdicts that agree; what an agent
\* was told is of the type that its registration has.
Detected == {q \in [agent : GpuAgents, baseline : all_supported, detected : all_supported] :
               q.baseline = q.detected}
GpuInv ==
    /\ registering \in [Requests -> Detected \cup {NoRequest}]
    /\ DOMAIN told = DOMAIN registrations
    /\ \A a \in DOMAIN registrations :
          /\ registrations[a].detected_gpu \in all_supported
          /\ told[a].config = tier_response(registrations[a].detected_gpu)

LEMMA BeginKeepsInv ==
    ASSUME GpuInv, NEW r \in Requests, NEW a \in GpuAgents, NEW gpu \in Names,
           BeginRegister(r, a, gpu)
    PROVE  GpuInv'
  <1>1. PICK detected \in ManagerDetects(gpu) :
        IF ServiceDetects(gpu) = "Unknown" \/ detected = "Unknown"
        THEN UNCHANGED registering
        ELSE registering' = [registering EXCEPT ![r] =
                [agent |-> a, baseline |-> ServiceDetects(gpu), detected |-> detected]]
    BY DEF BeginRegister
  <1>2. registering' \in [Requests -> Detected \cup {NoRequest}]
    <2>1. CASE ServiceDetects(gpu) = "Unknown" \/ detected = "Unknown"
      BY <1>1, <2>1 DEF GpuInv
    <2>2. CASE ~(ServiceDetects(gpu) = "Unknown" \/ detected = "Unknown")
      <3> DEFINE q == [agent |-> a, baseline |-> ServiceDetects(gpu), detected |-> detected]
      <3>1. q \in Detected
        BY <2>2, DetectionsAgree DEF Detected
      <3> HIDE DEF q
      <3>2. registering' = [registering EXCEPT ![r] = q]
        BY <1>1, <2>2 DEF q
      <3> QED
        BY <3>1, <3>2 DEF GpuInv
    <2> QED
      BY <2>1, <2>2
  <1> QED
    BY <1>2 DEF GpuInv, BeginRegister

LEMMA FinishKeepsInv ==
    ASSUME GpuInv, NEW r \in Requests, FinishRegister(r)
    PROVE  GpuInv'
  <1> DEFINE q == registering[r]
             reg == [detected_gpu |-> q.detected,
                     registered_at |-> gpuClock, last_seen |-> gpuClock]
             answer == [config |-> tier_response(q.baseline),
                        cents |-> calculate_cost_estimate(from_type(q.baseline))]
  <1>1. q \in Detected
    BY DEF FinishRegister, GpuInv
  <1>2. q.baseline = q.detected /\ q.detected \in all_supported
    BY <1>1 DEF Detected
  <1>3. registrations' = Insert(registrations, q.agent, reg)
        /\ told' = Insert(told, q.agent, answer)
    BY DEF FinishRegister
  <1>4. reg.detected_gpu = q.detected /\ answer.config = tier_response(q.baseline)
    OBVIOUS
  <1> HIDE DEF q, reg, answer
  <1>5. ASSUME NEW b \in DOMAIN registrations'
        PROVE  /\ registrations'[b].detected_gpu \in all_supported
               /\ told'[b].config = tier_response(registrations'[b].detected_gpu)
    <2>1. CASE b = q.agent
      BY <1>2, <1>3, <1>4, <2>1 DEF Insert
    <2>2. CASE b # q.agent
      <3>1. b \in DOMAIN registrations /\ registrations'[b] = registrations[b]
        BY <1>3, <2>2 DEF Insert
      <3>2. told'[b] = told[b]
        BY <1>3, <2>2, <3>1, Zenon DEF Insert, GpuInv
      <3> QED
        BY <3>1, <3>2 DEF GpuInv
    <2> QED
      BY <2>1, <2>2
  <1>6. registering' \in [Requests -> Detected \cup {NoRequest}]
    BY DEF FinishRegister, GpuInv
  <1>7. DOMAIN told' = DOMAIN registrations'
    BY <1>3, Zenon DEF Insert, GpuInv
  <1> QED
    BY <1>5, <1>6, <1>7 DEF GpuInv, tier_response

LEMMA DropKeepsInv ==
    ASSUME GpuInv, NEW r \in Requests, DropRegister(r)
    PROVE  GpuInv'
  BY DEF GpuInv, DropRegister, tier_response

LEMMA SeenKeepsInv ==
    ASSUME GpuInv, NEW a \in GpuAgents, update_last_seen(a)
    PROVE  GpuInv'
  <1>1. /\ DOMAIN registrations' = DOMAIN registrations
        /\ \A b \in DOMAIN registrations :
              registrations'[b].detected_gpu = registrations[b].detected_gpu
    <2>1. DOMAIN registrations' = DOMAIN registrations
      BY DEF update_last_seen
    <2>2. \A b \in DOMAIN registrations : b # a => registrations'[b] = registrations[b]
      BY DEF update_last_seen
    <2>3. registrations'[a] = [registrations[a] EXCEPT !.last_seen = 1]
      BY DEF update_last_seen
    <2>4. registrations'[a].detected_gpu = registrations[a].detected_gpu
      BY <2>3
    <2> QED
      BY <2>1, <2>2, <2>4
  <1>2. UNCHANGED <<registering, told>>
    BY DEF update_last_seen
  <1> QED
    BY <1>1, <1>2 DEF GpuInv, tier_response

\* The answers agree because the registrations are of types that both detections saw.
LEMMA AnswersFromInv == GpuInv => TierAnswersAgree
  <1> SUFFICES ASSUME GpuInv, NEW a \in DOMAIN registrations
               PROVE  LET config == told[a].config
                      IN  /\ config = get_gpu_tier_config(a)
                          /\ [gpu_type |-> config.baseline,
                              pricing_tier |-> config.tier.pricing_tier,
                              tflops |-> config.targets.tflops] \in list_supported_gpus
    BY DEF TierAnswersAgree
  <1> DEFINE type == registrations[a].detected_gpu
  <1>1. type \in all_supported /\ told[a].config = tier_response(type)
    BY DEF GpuInv
  <1> HIDE DEF type
  <1>2. /\ tier_response(type).baseline = to_proto(type)
        /\ tier_response(type).tier = TierOf[TypeOf(type)]
        /\ tier_response(type).targets = AmplificationTargets(from_type(type))
    BY DEF tier_response
  <1>3. told[a].config = get_gpu_tier_config(a)
    BY <1>1 DEF get_gpu_tier_config, type
  <1> QED
    BY <1>1, <1>2, <1>3 DEF list_supported_gpus

\* A GPU registry whose calls race, for any agents: what a registration answers of the
\* GPU, by the service's detection, and what a later question answers, by the
\* manager's, are the same, and name a tier of the list (register_gpu,
\* get_gpu_tier_config, list_supported_gpus).
THEOREM TierAnswersConsistent == GpuSpec => []TierAnswersAgree
  <1>1. GpuInit => GpuInv
    BY DEF GpuInit, GpuInv
  <1>2. GpuInv /\ [GpuNext]_gpuVars => GpuInv'
    <2> SUFFICES ASSUME GpuInv, [GpuNext]_gpuVars PROVE GpuInv'
      OBVIOUS
    <2>1. CASE UNCHANGED gpuVars
      BY <2>1 DEF GpuInv, gpuVars, tier_response
    <2>2. ASSUME NEW r \in Requests, NEW a \in GpuAgents, NEW gpu \in Names,
                 BeginRegister(r, a, gpu)
          PROVE  GpuInv'
      BY <2>2, BeginKeepsInv
    <2>3. ASSUME NEW r \in Requests, FinishRegister(r) PROVE GpuInv'
      BY <2>3, FinishKeepsInv
    <2>4. ASSUME NEW r \in Requests, DropRegister(r) PROVE GpuInv'
      BY <2>4, DropKeepsInv
    <2>5. ASSUME NEW a \in GpuAgents, update_last_seen(a) PROVE GpuInv'
      BY <2>5, SeenKeepsInv
    <2> QED
      BY <2>1, <2>2, <2>3, <2>4, <2>5 DEF GpuNext
  <1> QED
    BY <1>1, <1>2, AnswersFromInv, PTL DEF GpuSpec

-----------------------------------------------------------------------------
(* The rotating matrix, for any number of agents, any channel capacity and *)
(* any number of rotations.                                                *)
(*                                                                         *)
(* What an agent may conclude from a stream rests on the order in which    *)
(* the rotation task moves the version, the matrix and the channel: the    *)
(* channel only ever holds increasing versions, none of them ahead of the  *)
(* matrix, and a stream stands behind what it has delivered.               *)

\* Where the rotation task is tells how far the matrix has come.
RotatorInv ==
    /\ version >= 1
    /\ rotator.at = "store" =>
          version = matrix + 1 /\ rotator.new_version = version
    /\ rotator.at # "store" => matrix = version
    /\ rotator.at = "send" => rotator.new_version = matrix

\* The channel holds increasing versions, older than the one about to be sent.
SentInv ==
    /\ \A i \in 1..Len(sent) :
          /\ sent[i] > 0 /\ sent[i] <= matrix
          /\ rotator.at = "send" => sent[i] < matrix
    /\ \A i, j \in 1..Len(sent) : i < j => sent[i] < sent[j]

\* A verdict that was given stays sound.
AnswerInv(v) ==
    v.given => /\ v.asked <= v.latest
               /\ ~v.is_valid /\ ~v.needs_update => matrix > v.asked

\* An agent's matrix, its stream and its validation are behind the server's.
AgentInv(r) ==
    /\ r.next <= Len(sent) + 1
    /\ r.got <= matrix /\ r.held <= matrix
    /\ r.asked <= matrix
    /\ r.seen > 0 => r.asked <= r.seen
    /\ AnswerInv(r.answer)
    /\ r.next > 0 /\ r.got > 0 => \E i \in 1..(r.next - 1) : r.got = sent[i]

CalibrationInv == TypeOK /\ RotatorInv /\ SentInv /\ \A a \in Agents : AgentInv(agent[a])

-----------------------------------------------------------------------------
\* The service starts with version 1 in place and nothing broadcast.
LEMMA CalibrationInitInv == Init => CalibrationInv
  <1> SUFFICES ASSUME Init PROVE CalibrationInv
    OBVIOUS
  <1>1. NoAnswer \in Answers /\ NewAgent \in AgentState
    BY DEF NoAnswer, Answers, NewAgent, AgentState
  <1>2. TypeOK
    BY <1>1 DEF Init, TypeOK
  <1>3. RotatorInv /\ SentInv
    BY DEF Init, RotatorInv, SentInv
  <1>4. ASSUME NEW a \in Agents PROVE AgentInv(agent[a])
    <2>1. agent[a] = NewAgent /\ matrix = 1 /\ Len(sent) = 0
      BY DEF Init
    <2>2. AgentInv(NewAgent)
      <3>1. AnswerInv(NoAnswer)
        BY DEF AnswerInv, NoAnswer
      <3> QED
        BY <2>1, <3>1 DEF AgentInv, NewAgent
    <2> QED
      BY <2>1, <2>2
  <1> QED
    BY <1>2, <1>3, <1>4 DEF CalibrationInv

\* A step of one agent keeps the invariant if its new state is behind the server's.
LEMMA AgentMoves ==
    ASSUME CalibrationInv, NEW a \in Agents, NEW r \in AgentState, AgentInv(r),
           agent' = [agent EXCEPT ![a] = r],
           UNCHANGED <<version, matrix, rotator, sent>>
    PROVE  CalibrationInv'
  <1>1. TypeOK'
    BY DEF CalibrationInv, TypeOK
  <1>2. RotatorInv' /\ SentInv'
    BY DEF CalibrationInv, RotatorInv, SentInv
  <1>3. \A b \in Agents : AgentInv(agent'[b])
    BY DEF CalibrationInv, TypeOK
  <1> QED
    BY <1>1, <1>2, <1>3 DEF CalibrationInv, AgentInv, AnswerInv

\* The version moves alone.
LEMMA BumpVersionStep == ASSUME CalibrationInv, BumpVersion PROVE CalibrationInv'
  <1> USE DEF CalibrationInv, BumpVersion
  <1>1. TypeOK'
    BY DEF TypeOK
  <1>2. RotatorInv'
    BY DEF TypeOK, RotatorInv
  <1>3. SentInv'
    BY DEF SentInv
  <1>4. \A a \in Agents : AgentInv(agent[a])'
    BY DEF AgentInv, AnswerInv
  <1> QED
    BY <1>1, <1>2, <1>3, <1>4

\* The matrix catches up, past every version sent so far.
LEMMA StoreMatrixStep == ASSUME CalibrationInv, StoreMatrix PROVE CalibrationInv'
  <1> USE DEF CalibrationInv, StoreMatrix
  <1>1. TypeOK'
    BY DEF TypeOK
  <1>2. RotatorInv'
    BY DEF TypeOK, RotatorInv
  <1>3. matrix' = matrix + 1 /\ matrix \in Nat
    BY DEF RotatorInv, TypeOK
  <1>4. SentInv'
    BY <1>3 DEF SentInv, TypeOK
  <1>5. ASSUME NEW a \in Agents PROVE AgentInv(agent[a])'
    <2>1. agent[a] \in AgentState /\ agent' = agent /\ sent' = sent
      BY DEF TypeOK
    <2>2. AnswerInv(agent[a].answer)'
      <3>1. agent[a].answer \in Answers /\ AnswerInv(agent[a].answer)
        BY <2>1 DEF AgentState, AgentInv
      <3> QED
        BY <1>3, <2>1, <3>1 DEF AnswerInv, Answers
    <2> QED
      BY <1>3, <2>1, <2>2 DEF AgentInv, AgentState
  <1> QED
    BY <1>1, <1>2, <1>4, <1>5

\* A new version at the end of the channel, newer than all before it.
LEMMA BroadcastStep == ASSUME CalibrationInv, Broadcast PROVE CalibrationInv'
  <1> USE DEF CalibrationInv, Broadcast
  <1>1. TypeOK' /\ RotatorInv'
    BY DEF TypeOK, RotatorInv
  <1>2. CASE sent' = sent
    <2>1. SentInv'
      BY <1>2 DEF SentInv
    <2>2. \A a \in Agents : AgentInv(agent[a])'
      BY <1>2 DEF AgentInv, AnswerInv
    <2> QED
      BY <1>1, <2>1, <2>2
  <1>3. CASE sent' = Append(sent, rotator.new_version)
    <2>1. /\ Len(sent') = Len(sent) + 1 /\ Len(sent) \in Nat
          /\ \A i \in 1..Len(sent) : sent'[i] = sent[i] /\ sent[i] \in Nat
          /\ sent'[Len(sent) + 1] = matrix /\ matrix \in Nat
      BY <1>3 DEF TypeOK, RotatorInv
    <2>2. SentInv'
      BY <2>1 DEF SentInv, RotatorInv
    <2>3. ASSUME NEW a \in Agents PROVE AgentInv(agent[a])'
      <3>1. agent[a] \in AgentState /\ AgentInv(agent[a]) /\ agent' = agent /\ matrix' = matrix
        BY DEF TypeOK
      <3>2. AnswerInv(agent[a].answer)'
        BY <3>1 DEF AgentInv, AnswerInv
      <3>3. agent[a].next <= Len(sent') + 1
        BY <2>1, <3>1 DEF AgentInv, AgentState
      <3>4. ASSUME agent[a].next > 0, agent[a].got > 0
            PROVE  \E i \in 1..(agent[a].next - 1) : agent[a].got = sent'[i]
        <4>1. PICK i \in 1..(agent[a].next - 1) : agent[a].got = sent[i]
          BY <3>1, <3>4 DEF AgentInv
        <4>2. i \in 1..Len(sent)
          BY <2>1, <3>1, <4>1 DEF AgentInv, AgentState
        <4> QED
          BY <2>1, <4>1, <4>2
      <3> QED
        BY <3>1, <3>2, <3>3, <3>4 DEF AgentInv
    <2> QED
      BY <1>1, <2>2, <2>3
  <1> QED
    BY <1>2, <1>3

\* Opening a stream at the tail, or closing it.
LEMMA SubscriptionStep ==
    ASSUME CalibrationInv, NEW a \in Agents, Subscribe(a) \/ Unsubscribe(a) PROVE CalibrationInv'
  <1>0. /\ agent[a] \in AgentState /\ AgentInv(agent[a])
        /\ matrix \in Nat /\ version \in Nat
        /\ sent \in Seq(Nat) /\ Len(sent) \in Nat
        /\ RotatorInv /\ SentInv
    BY DEF CalibrationInv, TypeOK
  <1>1. CASE Subscribe(a)
    <2>0. PICK n \in Nat : n = Len(sent) + 1
      BY <1>0
    <2> DEFINE r == [agent[a] EXCEPT !.next = n, !.got = 0]
    <2>1. r \in AgentState
      BY <1>0 DEF AgentState
    <2>2. AgentInv(r)
      BY <1>0, <2>0 DEF AgentState, AgentInv
    <2> QED
      BY <1>1, <2>0, <2>1, <2>2, AgentMoves DEF Subscribe
  <1>2. CASE Unsubscribe(a)
    <2> DEFINE r == [agent[a] EXCEPT !.next = 0]
    <2>1. r \in AgentState
      BY <1>0 DEF AgentState
    <2>2. AgentInv(r)
      BY <1>0 DEF AgentState, AgentInv
    <2> QED
      BY <1>2, <2>1, <2>2, AgentMoves DEF Unsubscribe
  <1> QED
    BY <1>1, <1>2

\* An update is delivered, or the stream skips what it lost.
LEMMA StreamStep == ASSUME CalibrationInv, NEW a \in Agents, Stream(a) PROVE CalibrationInv'
  <1>0. /\ agent[a] \in AgentState /\ AgentInv(agent[a])
        /\ matrix \in Nat /\ version \in Nat
        /\ sent \in Seq(Nat) /\ Len(sent) \in Nat
        /\ RotatorInv /\ SentInv
    BY DEF CalibrationInv, TypeOK
  <1>1. CASE Deliver(a)
    <2>1. agent[a].next \in 1..Len(sent)
      BY <1>0, <1>1 DEF Deliver, Pending, AgentState
    <2>a. PICK n \in Nat, v \in Nat : n = agent[a].next + 1 /\ v = sent[agent[a].next]
      BY <1>0, <2>1
    <2> DEFINE r == [agent[a] EXCEPT !.next = n, !.got = v, !.held = v]
    <2>2. r \in AgentState
      BY <1>0 DEF AgentState
    <2>b. r.next = n /\ r.got = v /\ r.held = v /\ r.seen = agent[a].seen
            /\ r.asked = agent[a].asked /\ r.answer = agent[a].answer
      BY <1>0 DEF AgentState
    <2>c. v <= matrix /\ n <= Len(sent) + 1 /\ n - 1 = agent[a].next
      BY <1>0, <2>1, <2>a DEF SentInv
    <2>3. AgentInv(r)
      <3> HIDE DEF r
      <3>1. /\ r.next <= Len(sent) + 1
            /\ r.got <= matrix /\ r.held <= matrix
        BY <2>b, <2>c
      <3>2. /\ r.asked <= matrix
            /\ r.seen > 0 => r.asked <= r.seen
            /\ AnswerInv(r.answer)
        BY <1>0, <2>b DEF AgentInv
      <3>3. agent[a].next \in 1..(r.next - 1) /\ r.got = sent[agent[a].next]
        BY <2>1, <2>a, <2>b, <2>c
      <3> QED
        BY <3>1, <3>2, <3>3 DEF AgentInv
    <2>4. agent' = [agent EXCEPT ![a] = r]
      BY <1>1, <2>a DEF Deliver
    <2> QED
      BY <1>1, <2>2, <2>3, <2>4, AgentMoves DEF Deliver
  <1>2. CASE SkipLagged(a)
    <2>1. /\ agent[a].next \in Nat /\ agent[a].next > 0
          /\ agent[a].next + Capacity <= Len(sent)
      BY <1>0, <1>2 DEF SkipLagged, Lagged, Pending, AgentState
    <2>2. PICK n \in Nat : /\ n = Len(sent) + 1 - Capacity
                           /\ n > agent[a].next /\ n <= Len(sent)
      <3>1. \A l, c, k \in Nat : c > 0 /\ k + c <= l =>
               l + 1 - c \in Nat /\ l + 1 - c > k /\ l + 1 - c <= l
        OBVIOUS
      <3>2. Capacity \in Nat /\ Capacity > 0
        BY CalibrationAssumption
      <3>3. /\ Len(sent) + 1 - Capacity \in Nat
            /\ Len(sent) + 1 - Capacity > agent[a].next
            /\ Len(sent) + 1 - Capacity <= Len(sent)
        BY <1>0, <2>1, <3>1, <3>2
      <3> QED
        BY <3>3
    <2> DEFINE r == [agent[a] EXCEPT !.next = n]
    <2>3. r \in AgentState
      BY <1>0 DEF AgentState
    <2>a. /\ r.next = n /\ r.got = agent[a].got /\ r.held = agent[a].held
          /\ r.seen = agent[a].seen /\ r.asked = agent[a].asked
          /\ r.answer = agent[a].answer
      BY <1>0 DEF AgentState
    <2>4. AgentInv(r)
      <3> HIDE DEF r
      <3>1. /\ r.got <= matrix /\ r.held <= matrix /\ r.asked <= matrix
            /\ r.seen > 0 => r.asked <= r.seen
            /\ AnswerInv(r.answer)
        BY <1>0, <2>a DEF AgentInv
      <3>2. r.next <= Len(sent) + 1
        BY <1>0, <2>2, <2>a
      <3>3. ASSUME r.got > 0 PROVE \E i \in 1..(r.next - 1) : r.got = sent[i]
        <4>1. PICK i \in 1..(agent[a].next - 1) : agent[a].got = sent[i]
          BY <1>0, <2>1, <2>a, <3>3 DEF AgentInv
        <4>2. i \in 1..(r.next - 1)
          BY <2>1, <2>2, <2>a
        <4> QED
          BY <2>a, <4>1, <4>2
      <3> QED
        BY <3>1, <3>2, <3>3 DEF AgentInv
    <2> QED
      BY <1>2, <2>2, <2>3, <2>4, AgentMoves DEF SkipLagged
  <1> QED
    BY <1>1, <1>2 DEF Stream

\* Fetching the matrix, and the two halves of a validation.
LEMMA RequestStep ==
    ASSUME CalibrationInv, NEW a \in Agents,
           GetMatrix(a) \/ ValidateVersion(a) \/ ValidateMatrix(a)
    PROVE  CalibrationInv'
  <1>0. /\ agent[a] \in AgentState /\ AgentInv(agent[a])
        /\ matrix \in Nat /\ version \in Nat
        /\ sent \in Seq(Nat) /\ Len(sent) \in Nat
        /\ RotatorInv /\ SentInv
    BY DEF CalibrationInv, TypeOK
  <1>1. CASE GetMatrix(a)
    <2> DEFINE r == [agent[a] EXCEPT !.held = matrix]
    <2>1. r \in AgentState
      BY <1>0 DEF AgentState
    <2>2. AgentInv(r)
      BY <1>0 DEF AgentState, AgentInv
    <2> QED
      BY <1>1, <2>1, <2>2, AgentMoves DEF GetMatrix
  <1>2. CASE ValidateVersion(a)
    <2> DEFINE r == [agent[a] EXCEPT !.asked = agent[a].held, !.seen = version,
                                     !.answer = NoAnswer]
    <2>1. r \in AgentState
      BY <1>0 DEF AgentState, NoAnswer, Answers
    <2>2. matrix <= version
      BY <1>0 DEF RotatorInv
    <2>3. AgentInv(r)
      <3>1. AnswerInv(NoAnswer)
        BY DEF AnswerInv, NoAnswer
      <3> QED
        BY <1>0, <2>2, <3>1 DEF AgentState, AgentInv
    <2> QED
      BY <1>2, <2>1, <2>3, AgentMoves DEF ValidateVersion
  <1>3. CASE ValidateMatrix(a)
    <2>0. Verdict(agent[a].asked, agent[a].seen) \in Answers
      BY <1>0 DEF Verdict, Answers, AgentState
    <2>a. AnswerInv(Verdict(agent[a].asked, agent[a].seen))
      <3>1. /\ agent[a].asked \in Nat /\ agent[a].seen \in Nat
            /\ agent[a].asked <= agent[a].seen /\ agent[a].asked <= matrix
        BY <1>0, <1>3 DEF ValidateMatrix, AgentInv, AgentState
      <3> QED
        <4> DEFINE asked == agent[a].asked
                   seen  == agent[a].seen
                   v     == Verdict(asked, seen)
        <4>1. v.asked = asked /\ v.latest = seen
          BY DEF Verdict
        <4>2. v.is_valid = (asked = seen /\ asked = matrix)
          BY Zenon DEF Verdict
        <4>3. v.needs_update = (asked < seen)
          BY Zenon DEF Verdict
        <4>4. asked <= seen /\ ~(asked < seen) => asked = seen
          BY <3>1
        <4>5. asked <= matrix /\ asked # matrix => matrix > asked
          BY <1>0, <3>1
        <4> HIDE DEF v
        <4>6. ~v.is_valid /\ ~v.needs_update => matrix > v.asked
          BY <3>1, <4>1, <4>2, <4>3, <4>4, <4>5, Zenon
        <4> QED
          BY <3>1, <4>1, <4>6 DEF AnswerInv, v
    <2>1. PICK x \in Answers :
             /\ AnswerInv(x)
             /\ agent' = [agent EXCEPT ![a] =
                   [agent[a] EXCEPT !.asked = 0, !.seen = 0, !.answer = x]]
      BY <1>3, <2>0, <2>a DEF ValidateMatrix
    <2> DEFINE r == [agent[a] EXCEPT !.asked = 0, !.seen = 0, !.answer = x]
    <2>2. r \in AgentState
      BY <1>0 DEF AgentState
    <2>3. AgentInv(r)
      <3>1. /\ r.next = agent[a].next /\ r.got = agent[a].got
            /\ r.held = agent[a].held /\ r.seen = 0 /\ r.asked = 0 /\ r.answer = x
        BY <1>0 DEF AgentState
      <3> QED
        BY <1>0, <2>1, <3>1 DEF AgentInv
    <2> QED
      BY <1>3, <2>1, <2>2, <2>3, AgentMoves DEF ValidateMatrix
  <1> QED
    BY <1>1, <1>2, <1>3

\* Every step, and every stutter, keeps the invariant.
LEMMA CalibrationStepInv == CalibrationInv /\ [Next]_vars => CalibrationInv'
  <1> SUFFICES ASSUME CalibrationInv, [Next]_vars PROVE CalibrationInv'
    OBVIOUS
  <1>1. CASE Rotate
    BY <1>1, BumpVersionStep, StoreMatrixStep, BroadcastStep DEF Rotate
  <1>2. ASSUME NEW a \in Agents, AgentStep(a) PROVE CalibrationInv'
    BY <1>2, SubscriptionStep, StreamStep, RequestStep DEF AgentStep
  <1>3. CASE UNCHANGED vars
    BY <1>3 DEF vars, CalibrationInv, TypeOK, RotatorInv, SentInv, AgentInv, AnswerInv
  <1> QED
    BY <1>1, <1>2, <1>3 DEF Next

\* The inductive invariant holds in every reachable state.
LEMMA CalibrationInvariance == Spec => []CalibrationInv
  BY CalibrationInitInv, CalibrationStepInv, PTL DEF Spec

-----------------------------------------------------------------------------
\* The fields of the service and the state of its clients keep their types.
THEOREM TypeCorrect == Spec => []TypeOK
  BY CalibrationInvariance, PTL DEF CalibrationInv

\* The matrix served is the one of the current version, but for the moment
\* between the increment and the store, when it is the one before.
THEOREM MatrixTracks == Spec => []MatrixTracksVersion
  <1>1. CalibrationInv => MatrixTracksVersion
    BY DEF CalibrationInv, RotatorInv, MatrixTracksVersion, TypeOK
  <1> QED
    BY <1>1, CalibrationInvariance, PTL

\* What a stream has delivered is never ahead of the matrix a fetch returns.
THEOREM StreamNeverAhead == Spec => []StreamBehindMatrix
  <1>1. CalibrationInv => StreamBehindMatrix
    BY DEF CalibrationInv, AgentInv, StreamBehindMatrix
  <1> QED
    BY <1>1, CalibrationInvariance, PTL

\* A validation never calls an older version the latest than the agent's own, and
\* an undecided one is about a matrix that has been replaced.
THEOREM VerdictsSound == Spec => []VerdictSound
  <1>1. CalibrationInv => VerdictSound
    BY DEF CalibrationInv, AgentInv, AnswerInv, VerdictSound
  <1> QED
    BY <1>1, CalibrationInvariance, PTL

\* One stream delivers strictly newer versions, whatever it loses in between.
THEOREM StreamsMoveForward == Spec => StreamMonotone
  <1> DEFINE Newer == \A a \in Agents :
                agent[a].next > 0 /\ agent'[a].got # agent[a].got =>
                    agent'[a].got > agent[a].got
  <1>1. ASSUME CalibrationInv, [Next]_vars PROVE [Newer]_vars
    <2> SUFFICES ASSUME Next, NEW a \in Agents, agent[a].next > 0,
                        agent'[a].got # agent[a].got
                 PROVE  agent'[a].got > agent[a].got
      BY <1>1
    <2>0. /\ agent \in [Agents -> AgentState] /\ AgentInv(agent[a]) /\ SentInv
          /\ sent \in Seq(Nat)
      BY <1>1 DEF CalibrationInv, TypeOK
    <2>1. PICK b \in Agents : AgentStep(b)
      BY DEF Next, Rotate, BumpVersion, StoreMatrix, Broadcast
    <2>2. Deliver(a)
      <3>1. CASE Deliver(b)
        BY <2>0, <3>1 DEF Deliver
      <3>0. ASSUME NEW r, agent' = [agent EXCEPT ![b] = r], r.got = agent[b].got
            PROVE  FALSE
        BY <2>0, <3>0
      <3>2. ASSUME Subscribe(b) PROVE FALSE
        <4>1. CASE a = b
          BY <3>2, <4>1 DEF Subscribe
        <4>2. CASE a # b
          BY <2>0, <3>2, <4>2 DEF Subscribe
        <4> QED
          BY <4>1, <4>2
      <3>3. ASSUME Unsubscribe(b) PROVE FALSE
        <4>1. agent' = [agent EXCEPT ![b] = [agent[b] EXCEPT !.next = 0]]
          BY <3>3 DEF Unsubscribe
        <4>2. [agent[b] EXCEPT !.next = 0].got = agent[b].got
          BY <2>0 DEF AgentState
        <4> QED
          BY <3>0, <4>1, <4>2
      <3>4. ASSUME SkipLagged(b) PROVE FALSE
        <4> DEFINE r == [agent[b] EXCEPT !.next = Len(sent) + 1 - Capacity]
        <4>1. agent' = [agent EXCEPT ![b] = r]
          BY <3>4 DEF SkipLagged
        <4>2. r.got = agent[b].got
          BY <2>0 DEF AgentState
        <4> QED
          BY <3>0, <4>1, <4>2
      <3>5. ASSUME GetMatrix(b) PROVE FALSE
        <4> DEFINE r == [agent[b] EXCEPT !.held = matrix]
        <4>1. agent' = [agent EXCEPT ![b] = r]
          BY <3>5 DEF GetMatrix
        <4>2. r.got = agent[b].got
          BY <2>0 DEF AgentState
        <4> QED
          BY <3>0, <4>1, <4>2
      <3>6. ASSUME ValidateVersion(b) PROVE FALSE
        <4> DEFINE r == [agent[b] EXCEPT !.asked = agent[b].held, !.seen = version,
                                         !.answer = NoAnswer]
        <4>1. agent' = [agent EXCEPT ![b] = r]
          BY <3>6 DEF ValidateVersion
        <4>2. r.got = agent[b].got
          BY <2>0 DEF AgentState
        <4> QED
          BY <3>0, <4>1, <4>2
      <3>7. ASSUME ValidateMatrix(b) PROVE FALSE
        <4> DEFINE r == [agent[b] EXCEPT !.asked = 0, !.seen = 0,
                                 !.answer = Verdict(agent[b].asked, agent[b].seen)]
        <4>1. agent' = [agent EXCEPT ![b] = r]
          BY <3>7 DEF ValidateMatrix
        <4>2. r.got = agent[b].got
          BY <2>0 DEF AgentState
        <4> QED
          BY <3>0, <4>1, <4>2
      <3> QED
        BY <2>1, <3>1, <3>2, <3>3, <3>4, <3>5, <3>6, <3>7 DEF AgentStep, Stream
    <2>3. agent'[a].got = sent[agent[a].next] /\ agent[a].next \in 1..Len(sent)
      BY <2>0, <2>2 DEF Deliver, Pending, AgentState
    <2>4. CASE agent[a].got = 0
      BY <2>0, <2>3, <2>4 DEF SentInv
    <2>5. CASE agent[a].got > 0
      <3>1. PICK i \in 1..(agent[a].next - 1) : agent[a].got = sent[i]
        BY <2>0, <2>5 DEF AgentInv
      <3>2. i \in 1..Len(sent) /\ i < agent[a].next
        BY <2>0, <2>3
      <3> QED
        BY <2>0, <2>3, <3>1, <3>2 DEF SentInv
    <2> QED
      BY <2>0, <2>4, <2>5 DEF AgentState
  <1> QED
    BY <1>1, CalibrationInvariance, PTL DEF Spec, StreamMonotone
=============================================================================
