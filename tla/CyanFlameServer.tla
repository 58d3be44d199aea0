-------------------------- MODULE CyanFlameServer --------------------------
(***************************************************************************)
(* The composition in src/grpc/server.rs of the server object and its      *)
(* calibration services.  with_config_and_auth creates one instance of the *)
(* service and serve starts its rotation task; what serve then registers   *)
(* with the router, and so what agents reach, is a second instance that it *)
(* creates in place.  (The compute-calibration and PCIe services are       *)
(* composed in the same way, one managed and one served instance each.)    *)
(***************************************************************************)
EXTENDS Integers, Sequences

CONSTANTS Agents, Validators, Capacity, MaxVersion   \* as in CalibrationRotation

VARIABLES stage,        \* where serve is
          enable_tls,   \* config.enable_tls
          m_version, m_matrix, m_rotator, m_sent,   \* the instance managed
          s_version, s_matrix, s_rotator, s_sent,   \* the instance served
          agent         \* the agents, all connected to the served instance

managed == <<m_version, m_matrix, m_rotator, m_sent>>
served  == <<s_version, s_matrix, s_rotator, s_sent>>
vars    == <<stage, enable_tls, managed, served, agent>>

Served == INSTANCE CalibrationRotation WITH
    version <- s_version, matrix <- s_matrix, rotator <- s_rotator, sent <- s_sent

\* Nobody is connected to the instance that is managed.
Managed == INSTANCE CalibrationRotation WITH
    version <- m_version, matrix <- m_matrix, rotator <- m_rotator, sent <- m_sent,
    agent   <- [a \in Agents |-> Served!NewAgent]

Init == stage = "created" /\ enable_tls \in BOOLEAN /\ Managed!Init /\ Served!Init

-----------------------------------------------------------------------------
\* serve spawns the rotation tasks before it configures TLS ...
StartRotation ==
    /\ stage = "created" /\ stage' = "configuring"
    /\ UNCHANGED <<enable_tls, managed, served, agent>>

\* ... unreadable certificates end serve, but not the tasks it has spawned ...
FailTls ==
    /\ stage = "configuring" /\ enable_tls /\ stage' = "failed"
    /\ UNCHANGED <<enable_tls, managed, served, agent>>

\* ... and the router is given a service of its own.
Serve ==
    /\ stage = "configuring" /\ stage' = "serving"
    /\ UNCHANGED <<enable_tls, managed, served, agent>>

\* A rotation task turns the instance it was spawned on.
RotateManaged ==
    /\ stage # "created"
    /\ Managed!Rotate
    /\ UNCHANGED <<stage, enable_tls, served, agent>>

\* Requests reach the instance of the router.
RequestServed(a) ==
    /\ stage = "serving"
    /\ Served!AgentStep(a)
    /\ UNCHANGED <<stage, enable_tls, managed>>

Next ==
    \/ StartRotation \/ FailTls \/ Serve \/ RotateManaged
    \/ \E a \in Agents : RequestServed(a)

\* serve runs to its end, intervals tick for ever and streams are polled.
FairSpec ==
    /\ Init /\ [][Next]_vars
    /\ WF_vars(StartRotation \/ FailTls \/ Serve)
    /\ WF_vars(RotateManaged)
    /\ \A a \in Agents : WF_vars(stage = "serving" /\ Served!Stream(a)
                                 /\ UNCHANGED <<stage, enable_tls, managed>>)

-----------------------------------------------------------------------------
\* "Matrix rotates every 60 seconds": once the server serves, the matrix that its
\* agents can fetch is replaced.
ServedMatrixRotates == stage = "serving" ~> s_matrix > 1
=============================================================================
