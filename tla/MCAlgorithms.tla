---------------------------- MODULE MCAlgorithms ----------------------------
(***************************************************************************)
(* The codec over every short value, the crates and the kernel modules,    *)
(* and the two services that promise progress: the rotation, with a        *)
(* broadcast channel small enough to overrun, and the dashboards' streams. *)
(* `program' says whose steps a behaviour shows, and the others wait in an *)
(* initial state.  Fairness is asked of the two services' tasks only: the  *)
(* interval ticks for ever, the runtime polls every stream and every       *)
(* spawned task, sleeps end, and a validation that has begun is answered.  *)
(***************************************************************************)
EXTENDS CodecLoops, SymmetrixArithmetic, SheafSpace, MsiDriver, CalibrationRotation

VARIABLES program,
          connected_agents, system_metrics, dashboard, answered, updates   \* DashboardMetrics

\* Numbers on both sides of the primes and of their products, with wrapping ones; and
\* field elements given by their bits, for the edges of the polynomial's reduction.
SomeNumbers == {0, 1, 13, 34, 76, 384}
SomeElements == {{}, {0}, {1}, {0, 4, 31}, 0..31,
                 {3, 4, 5, 6, 9, 10, 12, 13, 14, 18, 20, 21, 25, 28}}
SomeSamples == [x : SomeNumbers, y : SomeNumbers, a : {{}}, b : {{}}]
          \cup [x : {0}, y : {0}, a : SomeElements, b : {{0, 31}, 0..31}]

\* Three primes, so that a product passes the word; caches of 4, 9 and 16 elements.
SomePrimes == <<11, 7, 5>>
SomeSizes == <<4, 9, 16>>
SomeShapes == {<<2, 3>>, <<5, 4>>, <<1, 1>>}

\* A channel of one update, so that a client that stops reading fills it.
Metrics == INSTANCE DashboardMetrics WITH
    Agents <- {"agent"}, Dashboards <- {"d"}, ChannelSize <- 1, MaxUpdates <- 2

dashboardVars == <<connected_agents, system_metrics, dashboard, answered, updates>>
allVars == <<program, data, arithmeticVars, sheafVars, msiVars, vars, dashboardVars>>

AlgorithmsInit ==
    /\ program \in {"codec", "arithmetic", "sheaf", "msi", "calibration", "dashboards"}
    /\ CodecInit
    /\ ArithmeticInit
    /\ program # "arithmetic" => sample = {}
    /\ SheafInit /\ MsiInit
    /\ Init /\ Metrics!DashboardInit

AlgorithmsNext ==
    /\ UNCHANGED program
    /\ program # "codec" => UNCHANGED data
    /\ program # "arithmetic" => UNCHANGED arithmeticVars
    /\ program # "sheaf" => UNCHANGED sheafVars
    /\ program # "msi" => UNCHANGED msiVars
    /\ program # "calibration" => UNCHANGED vars
    /\ program # "dashboards" => UNCHANGED dashboardVars
    /\ \/ program = "codec" /\ NextByte
       \/ program = "arithmetic" /\ ArithmeticNext
       \/ program = "sheaf" /\ SheafNext
       \/ program = "msi" /\ MsiNext
       \/ program = "calibration" /\ Next
       \/ program = "dashboards" /\ Metrics!DashboardNext
AlgorithmsSpec ==
    /\ AlgorithmsInit /\ [][AlgorithmsNext]_allVars
    /\ WF_vars(program = "calibration" /\ Rotate)
    /\ \A a \in Agents : /\ WF_vars(program = "calibration" /\ Stream(a))
                         /\ WF_vars(program = "calibration" /\ ValidateMatrix(a))
    /\ WF_dashboardVars(program = "dashboards" /\ Metrics!SamplerStep("d"))

-----------------------------------------------------------------------------
\* The sampling task of a client that went away ends, whatever fills its channel
\* (stream_dashboard_metrics).
SamplerEnds == Metrics!SamplerEnds
=============================================================================
