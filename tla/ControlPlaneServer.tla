------------------------- MODULE ControlPlaneServer -------------------------
(***************************************************************************)
(* src/bin/control_plane_server.rs: one task per VXLAN packet and per      *)
(* connection, JSON commands over packets and WebSockets, paths over HTTP, *)
(* and counters behind a tokio lock.  No handler awaits one lock while it  *)
(* holds another, so an action is the code between two awaits and the      *)
(* locks need no variables.  The gfef module that the program imports is   *)
(* not in the repository: its predictor is a set of models (external).     *)
(***************************************************************************)
EXTENDS Integers, FiniteSets

CONSTANTS Tasks,        \* spawned tasks: packets and connections
          Commands,     \* the commands that arrive, among ControlCommand
          MaxArrivals   \* bound on what arrives

ASSUME ServerAssumption == IsFiniteSet(Tasks)

VARIABLES up,       \* the process: "running", "stopped" or "aborted"
          profile,  \* the build: a panic aborts in "release", ends the task in "dev"
          server_stats,  \* ServerStats
          models,   \* the models whose index the predictor has
          cached,   \* the keys the cache has
          task,     \* where each task is, how its input came and what it is
          arrivals

serverVars == <<up, profile, server_stats, models, cached, task, arrivals>>

\* The variants of ControlCommand, by what they need.
CacheReads   == {"CacheGet"}
CacheWrites  == {"CacheSet", "CacheDelete", "CacheIncr", "UploadGfefIndex"}
TcamCommands == {"Lookup", "InsertRoute", "DeleteRoute"}
QuietCommands == {"Health", "Stats", "GetCascadeStats", "GetMemoryStats",
    "GetBandwidthStats", "CacheStats", "AllocateMemory", "FreeMemory",
    "OptimizeBandwidth", "GetCalibrationMatrix", "PredictActivation", "GetGfefStatus"}
ControlCommand == CacheReads \cup CacheWrites \cup TcamCommands \cup QuietCommands

\* A payload is a command, or too short for its header, or not a command.
Payload == (Commands \cap ControlCommand) \cup {"short", "garbage"}

\* What the path of an HTTP request selects; any other path is Health.
CommandPaths == {"Health", "Stats", "GetCascadeStats", "GetMemoryStats",
                 "GetBandwidthStats", "CacheStats"}
PredictorPaths == {"/v1/health", "/v1/predict"}
Uploads == {"no body", "bad json", "index"}     \* bodies of /v1/index/upload

Idle == [at |-> "idle", via |-> "none", what |-> "none", reply |-> "none"]

ServerStats == [commands_processed |-> 0, vxlan_packets |-> 0, http_requests |-> 0,
                cache_hits |-> 0, cache_misses |-> 0]

\* load_gfef_index registers the model of the file; main only warns if it cannot.
LoadedAtStart == {{}, {"startup"}}

ServerInit ==
    /\ up = "running" /\ profile \in {"release", "dev"}
    /\ server_stats = ServerStats
    /\ models \in LoadedAtStart
    /\ cached = {}
    /\ task = [t \in Tasks |-> Idle]
    /\ arrivals = 0

MoveTo(t, point) == task' = [task EXCEPT ![t].at = point]
End(t, reply)  == task' = [task EXCEPT ![t].at = IF task[t].via = "ws" THEN "ws" ELSE "idle",
                                      ![t].reply = reply]
Bump(counter)  == server_stats' = [server_stats EXCEPT ![counter] = @ + 1]
IsAt(t, point) == up = "running" /\ task[t].at = point

-----------------------------------------------------------------------------
Arrive(t, via, what, point) ==
    /\ IsAt(t, "idle") /\ arrivals < MaxArrivals
    /\ arrivals' = arrivals + 1
    /\ task' = [task EXCEPT ![t] = [at |-> point, via |-> via, what |-> what,
                                    reply |-> "none"]]
    /\ UNCHANGED <<up, profile, server_stats, models, cached>>

\* run_vxlan_server gives every packet a task; run_http_server every connection,
\* which it reads until the body is as long as announced, or to the end.
ReceivePacket(t)    == \E p \in Payload : Arrive(t, "vxlan", p, "packet")
AcceptConnection(t) ==
    \/ \E p \in CommandPaths \cup PredictorPaths \cup Uploads \cup {"/ws"} :
           Arrive(t, "http", p, "request")
    \/ \E key \in {"key", "no key"} : Arrive(t, "ws", key, "handshake")

\* handle_vxlan_packet counts the packet before it looks at it.
CountPacket(t) ==
    /\ IsAt(t, "packet")
    /\ Bump("vxlan_packets")
    /\ IF task[t].what \in ControlCommand THEN MoveTo(t, "execute") ELSE End(t, "dropped")
    /\ UNCHANGED <<up, profile, models, cached, arrivals>>

\* handle_http_request counts the request, then routes it.
CountRequest(t) ==
    /\ IsAt(t, "request")
    /\ Bump("http_requests")
    /\ CASE task[t].what \in PredictorPaths -> MoveTo(t, "predictor")
         [] task[t].what = "index"          -> MoveTo(t, "register")
         [] task[t].what \in CommandPaths   -> MoveTo(t, "execute")
         [] OTHER                           -> End(t, "refused")
    /\ UNCHANGED <<up, profile, models, cached, arrivals>>

\* /v1/health and /v1/predict answer from one look at the predictor.
ReadPredictor(t) ==
    /\ IsAt(t, "predictor")
    /\ End(t, IF models = {} THEN "not loaded" ELSE "secured")
    /\ UNCHANGED <<up, profile, server_stats, models, cached, arrivals>>

\* An upload registers its index and then looks again for its answer.
RegisterIndex(t) ==
    /\ IsAt(t, "register")
    /\ models' = models \cup {"uploaded"}
    /\ MoveTo(t, "predictor")
    /\ UNCHANGED <<up, profile, server_stats, cached, arrivals>>

\* handle_websocket: without a key the connection ends; otherwise it is counted once.
Handshake(t) ==
    /\ IsAt(t, "handshake")
    /\ IF task[t].what = "key"
       THEN Bump("http_requests") /\ MoveTo(t, "ws")
       ELSE task' = [task EXCEPT ![t] = Idle] /\ UNCHANGED server_stats
    /\ UNCHANGED <<up, profile, models, cached, arrivals>>

\* The next message of the WebSocket; what is no command is answered or ignored.
WsMessage(t, m) ==
    /\ IsAt(t, "ws") /\ arrivals < MaxArrivals
    /\ arrivals' = arrivals + 1
    /\ task' = [task EXCEPT ![t].what = m,
                            ![t].at = IF m \in ControlCommand THEN "execute" ELSE "ws"]
    /\ UNCHANGED <<up, profile, server_stats, models, cached>>

WsClose(t) ==
    /\ IsAt(t, "ws")
    /\ task' = [task EXCEPT ![t] = Idle]
    /\ UNCHANGED <<up, profile, server_stats, models, cached, arrivals>>

-----------------------------------------------------------------------------
\* process_command.  A CacheGet has a counter of its own before the common one.
NextPoint(cmd, hit) ==
    IF cmd \in CacheReads THEN (IF hit THEN "hit" ELSE "miss") ELSE "count"

Execute(t) ==
    /\ IsAt(t, "execute") /\ task[t].what \notin TcamCommands
    /\ LET cmd == task[t].what
       IN  /\ cached' = CASE cmd = "CacheDelete" -> {}
                          [] cmd \in CacheWrites \ {"CacheDelete"} -> {"key"}
                          [] OTHER -> cached
           /\ MoveTo(t, NextPoint(cmd, cached # {}))
    /\ UNCHANGED <<up, profile, server_stats, models, arrivals>>

\* The TCAM arms go through block_on, which panics on a thread of the runtime.
ExecuteTcam(t) ==
    /\ IsAt(t, "execute") /\ task[t].what \in TcamCommands
    /\ IF profile = "release"
       THEN up' = "aborted" /\ task' = [u \in Tasks |-> Idle]
       ELSE up' = up /\ task' = [task EXCEPT ![t] = Idle]
    /\ UNCHANGED <<profile, server_stats, models, cached, arrivals>>

\* Slip: the arm of a miss returns once it has counted it.
CountLookup_Returns(t) ==
    /\ up = "running" /\ task[t].at \in {"hit", "miss"}
    /\ Bump(IF task[t].at = "hit" THEN "cache_hits" ELSE "cache_misses")
    /\ IF task[t].at = "hit" THEN MoveTo(t, "count") ELSE End(t, "answered")
    /\ UNCHANGED <<up, profile, models, cached, arrivals>>
CountLookup(t) ==
    /\ up = "running" /\ task[t].at \in {"hit", "miss"}
    /\ Bump(IF task[t].at = "hit" THEN "cache_hits" ELSE "cache_misses")
    /\ MoveTo(t, "count")
    /\ UNCHANGED <<up, profile, models, cached, arrivals>>

\* A VXLAN command gets no answer: its response is computed and dropped.
CountCommand(t) ==
    /\ IsAt(t, "count")
    /\ Bump("commands_processed")
    /\ End(t, IF task[t].via = "vxlan" THEN "dropped" ELSE "answered")
    /\ UNCHANGED <<up, profile, models, cached, arrivals>>

\* start returns when either server's task has ended (its port was taken) or on
\* Ctrl-C; the process then ends whatever the other tasks are doing.
Stop ==
    /\ up = "running" /\ up' = "stopped"
    /\ task' = [t \in Tasks |-> Idle]
    /\ UNCHANGED <<profile, server_stats, models, cached, arrivals>>

Step(t) ==
    \/ ReceivePacket(t) \/ AcceptConnection(t) \/ CountPacket(t) \/ CountRequest(t)
    \/ ReadPredictor(t) \/ RegisterIndex(t) \/ Handshake(t) \/ WsClose(t)
    \/ \E m \in Payload : WsMessage(t, m)
    \/ Execute(t) \/ ExecuteTcam(t) \/ CountLookup(t) \/ CountCommand(t)
ServerNext == Stop \/ \E t \in Tasks : Step(t)
ServerSpec == ServerInit /\ [][ServerNext]_serverVars

-----------------------------------------------------------------------------
\* In every state that a Stats command may copy, the hits and misses together are no
\* more than the commands that were counted and the lookups still to be counted: the
\* two updates of process_command may not be separated by an early return or a panic.
LookupsWithinCommands ==
    up = "running" =>
        server_stats.cache_hits + server_stats.cache_misses <= server_stats.commands_processed
            + Cardinality({t \in Tasks : task[t].at = "count" /\ task[t].what = "CacheGet"})
=============================================================================
