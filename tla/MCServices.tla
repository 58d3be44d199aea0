----------------------------- MODULE MCServices -----------------------------
(***************************************************************************)
(* The services of the gRPC server that share no state with each other,    *)
(* and the two engines with programs of their own, QAGML and QANBAN:       *)
(* `program' says whose steps a behaviour shows, and the others wait in    *)
(* their initial states, so the instances add up and do not multiply.      *)
(***************************************************************************)
EXTENDS AllocationService, CyanFlameRpc, TelemetryService, AmplificationServices, GpuRegistry,
        QagmlEngine

VARIABLES program,
          START_TIME, uptime, upgrade, restart_at, answer,         \* OperationsService
          engine, topology, history, buffered, cache, lookups,     \* QanbanEngine
          clearing, response

\* Tasks are interchangeable.
TaskSymmetry == Permutations(Tasks)

Operations == INSTANCE OperationsService WITH
    Agents <- {"a"}, Delays <- {0, 1}, MaxUptime <- 2, told <- answer

\* Two files to load; and regions that extend, overlap and repeat each other.
TwoFiles == <<"f1", "f2">>
SomeRegions == {<<0, 3>>, <<1, 1>>, <<3, 2>>, <<8, 1>>}

\* Factors that make each action but one the best, and flow id 0.
Qanban == INSTANCE QanbanEngine WITH
    Flows <- {0, 1, 3, 99}, NoFlow <- 99, Congestions <- {0, 2}, Loads <- {0, 1},
    Clients <- {"c"}, CacheLimit <- 1, Window <- 1, Batch <- 2, MaxPackets <- 1,
    reply <- response

serveVars == <<config, server, tls, pending, writing, call>>
operationsVars == <<START_TIME, uptime, upgrade, restart_at, answer>>
qanbanVars == <<engine, topology, history, buffered, cache, lookups, clearing, response>>
allVars == <<program, vars, keyVars, serveVars, telemetryVars, operationsVars, gpuVars,
             amplificationVars, qagmlVars, qanbanVars>>

\* A configuration to wait in, where a program may start in several.
Parked == ~auth_enabled /\ ~config.enable_tls

ServicesInit ==
    /\ program \in {"allocation", "keys", "rpc", "telemetry", "operations", "gpu",
                    "amplification", "qagml", "qanban"}
    /\ Init
    /\ KeysInit(IF program = "keys" THEN DOMAIN DefaultKeys ELSE {})
    /\ ServeInit
    /\ CASE program = "keys" -> ~config.enable_tls
         [] program = "rpc"  -> TRUE
         [] OTHER            -> Parked
    /\ TelemetryInit /\ Operations!OperationsInit
    /\ GpuInit /\ AmplificationInit
    /\ QagmlInit
    /\ program # "qagml" => loader.at = "bus"
    /\ loader.at = "bus" => \A f \in DOMAIN disk : disk[f] = 0    \* no files are read
    /\ Qanban!QanbanInit

ServicesNext ==
    /\ UNCHANGED program
    /\ program \notin {"keys", "rpc"} => UNCHANGED <<keyVars, serveVars>>
    /\ program # "telemetry" => UNCHANGED telemetryVars
    /\ program # "operations" => UNCHANGED operationsVars
    /\ program # "gpu" => UNCHANGED gpuVars
    /\ program # "amplification" => UNCHANGED amplificationVars
    /\ program # "allocation" => UNCHANGED vars
    /\ program # "qagml" => UNCHANGED qagmlVars
    /\ program # "qanban" => UNCHANGED qanbanVars
    /\ \/ program = "allocation" /\ Next
       \/ program = "keys" /\ KeysNext /\ UNCHANGED serveVars
       \/ program = "rpc" /\ RpcNext
       \/ program = "telemetry" /\ TelemetryNext
       \/ program = "operations" /\ Operations!OperationsNext
       \/ program = "gpu" /\ GpuNext
       \/ program = "amplification" /\ AmplificationNext
       \/ program = "qagml" /\ QagmlNext
       \/ program = "qanban" /\ Qanban!QanbanNext
ServicesSpec == ServicesInit /\ [][ServicesNext]_allVars

=============================================================================
