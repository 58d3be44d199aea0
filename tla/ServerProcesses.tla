--------------------------- MODULE ServerProcesses ---------------------------
(***************************************************************************)
(* The programs that are only tasks: src/bin/daemon.rs (three tasks and a  *)
(* broadcast that stops them), src/bin/unified_server.rs (a gRPC and an    *)
(* HTTP task, either of which ends the process) and src/bin/grpc_server.rs *)
(* (one).  What the gRPC task does is in CyanFlameRpc.                     *)
(***************************************************************************)
EXTENDS Naturals, FiniteSets

CONSTANTS MaxTicks,   \* bound on the ticks of the intervals
          max_containers

VARIABLES binary,     \* which program this is, with its configuration
          process,    \* "loading", "spawning", "waiting", "closing", "failed", "ended"
          worker,     \* per task: not spawned, spawned, and how it goes on
          hears,      \* the tasks whose receiver was there before the shutdown
          signalled,  \* shutdown has sent
          target,     \* what auto_scale_containers last decided, which changes nothing
          ticks

processVars == <<binary, process, worker, hears, signalled, target, ticks>>

Workers == [daemon |-> {"monitoring", "web", "containers"},
            unified |-> {"grpc", "http"},
            grpc |-> {}]
Mine == Workers[binary.program]
Loads == {"below 30 %", "between", "above 80 %"}
AllWorkers == UNION {Workers[p] : p \in DOMAIN Workers}

\* What the environment and the command line can give a program; a file that is not
\* there means the defaults, arguments have none to fall back on.
Binaries ==
    {[program |-> "daemon", config |-> c, monitoring |-> m] :
        c \in {"absent", "parses", "broken"}, m \in BOOLEAN}
    \cup {[program |-> "unified", config |-> c, monitoring |-> FALSE] : c \in {"parses", "broken"}}
    \cup {[program |-> "grpc", config |-> c, monitoring |-> FALSE] : c \in {"parses", "broken"}}

ProcessInit ==
    /\ binary \in Binaries
    /\ process = "loading"
    /\ worker = [w \in AllWorkers |-> "none"]
    /\ hears = {} /\ signalled = FALSE
    /\ target = 0 /\ ticks = 0

Quiet == UNCHANGED <<binary, target, ticks>>

\* grpc_server needs a certificate and a key where TLS is on, and the daemon's file must
\* parse; the unified server leaves its paths to serve.
Refused == binary.config = "broken" /\ binary.program # "unified"

\* load_config: without a file the defaults hold, which have monitoring on.
Load ==
    /\ process = "loading"
    /\ binary' = IF binary.config = "absent" THEN [binary EXCEPT !.monitoring = TRUE] ELSE binary
    /\ process' = IF Refused THEN "failed" ELSE "spawning"
    /\ UNCHANGED <<worker, hears, signalled, target, ticks>>

Wanted(w) == w # "monitoring" \/ binary.monitoring
Spawned(w) == worker[w] # "none" \/ ~Wanted(w)

\* Slip: a task subscribes when it first runs.
Subscribes_Late(point) == binary.program = "daemon" /\ point = "run"
\* start subscribes for each task before it spawns it.
Subscribes(point) == binary.program = "daemon" /\ point = "spawn"
TakeReceiver(w, point) ==
    hears' = IF Subscribes(point) /\ ~signalled THEN hears \cup {w} ELSE hears

\* The tasks are spawned in order; the unified server parses its HTTP address between
\* its two, and ends if it cannot.
SpawnOrder(w) == IF w \in {"monitoring", "grpc"} THEN 1 ELSE IF w \in {"web", "http"} THEN 2 ELSE 3
SpawnWorker(w) ==
    /\ process = "spawning" /\ w \in Mine /\ ~Spawned(w)
    /\ \A v \in Mine : SpawnOrder(v) < SpawnOrder(w) => Spawned(v)
    /\ IF w = "http" /\ binary.config = "broken"
       THEN process' = "failed" /\ UNCHANGED <<worker, hears>>
       ELSE /\ worker' = [worker EXCEPT ![w] = "spawned"]
            /\ TakeReceiver(w, "spawn")
            /\ UNCHANGED process
    /\ UNCHANGED signalled /\ Quiet

StartWaiting ==
    /\ process = "spawning" /\ \A w \in Mine : Spawned(w)
    /\ process' = "waiting"
    /\ UNCHANGED <<worker, hears, signalled>> /\ Quiet

-----------------------------------------------------------------------------
Working(w) == process \in {"spawning", "waiting", "closing"} /\ worker[w] # "none"

\* A task's first poll.  A listener that cannot be bound ends the daemon's web task and
\* panics in the unified server's, which has the task end as well where panics unwind.
FirstPoll(w) ==
    /\ Working(w) /\ worker[w] = "spawned"
    /\ worker' = [worker EXCEPT ![w] = IF w \in {"web", "http", "grpc"} THEN "binding" ELSE "listening"]
    /\ TakeReceiver(w, "run")
    /\ UNCHANGED <<process, signalled>> /\ Quiet
BindListener(w) ==
    /\ Working(w) /\ worker[w] = "binding"
    /\ worker' \in {[worker EXCEPT ![w] = "listening"], [worker EXCEPT ![w] = "ended"]}
    /\ UNCHANGED <<process, hears, signalled>> /\ Quiet

\* An interval ticks: metrics are logged, or a number of containers is decided on from
\* the load and the containers there are, and is only logged too.
ScaleTarget(active, load) ==
    IF load = "above 80 %" THEN (IF active < max_containers THEN active + 1 ELSE max_containers)
    ELSE IF load = "below 30 %" /\ active > 1 THEN active - 1 ELSE active
TickWorker(w) ==
    /\ Working(w) /\ worker[w] = "listening" /\ w \in {"monitoring", "containers"}
    /\ ticks < MaxTicks /\ ticks' = ticks + 1
    /\ \/ w = "monitoring" /\ UNCHANGED target
       \/ w = "containers" /\ \E active \in 0..max_containers, load \in Loads :
                                  target' = ScaleTarget(active, load)
    /\ UNCHANGED <<binary, process, worker, hears, signalled>>

\* A loop that selects on its receiver ends when the shutdown is in it.
HearShutdown(w) ==
    /\ Working(w) /\ worker[w] = "listening" /\ w \in hears /\ signalled
    /\ worker' = [worker EXCEPT ![w] = "ended"]
    /\ UNCHANGED <<process, hears, signalled>> /\ Quiet

\* Ctrl-C: the daemon sends the shutdown and gives its tasks two seconds.
Interrupt ==
    /\ process = "waiting"
    /\ IF binary.program = "daemon"
       THEN process' = "closing" /\ signalled' = TRUE
       ELSE process' = "ended" /\ UNCHANGED signalled
    /\ UNCHANGED <<worker, hears>> /\ Quiet

\* main of the unified server returns with the first of its tasks, grpc_server's with
\* its only call; the daemon's after the two seconds.
ReturnFromMain ==
    /\ \/ process = "closing"
       \/ process = "waiting" /\ binary.program = "unified" /\ \E w \in Mine : worker[w] = "ended"
       \/ process = "waiting" /\ binary.program = "grpc"
    /\ process' = "ended"
    /\ UNCHANGED <<worker, hears, signalled>> /\ Quiet

ProcessNext ==
    \/ Load \/ StartWaiting \/ Interrupt \/ ReturnFromMain
    \/ \E w \in AllWorkers : \/ SpawnWorker(w) \/ FirstPoll(w) \/ BindListener(w)
                             \/ TickWorker(w) \/ HearShutdown(w)

-----------------------------------------------------------------------------
\* A shutdown reaches every task that is there, even one that has been spawned and not
\* polled yet when it is sent: no task of the daemon is left that does not hear it.
ShutdownHeard ==
    binary.program = "daemon" /\ signalled => \A w \in Mine : worker[w] # "none" => w \in hears
=============================================================================
