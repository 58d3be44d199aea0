------------------------------ MODULE MCTables ------------------------------
(***************************************************************************)
(* The unified engine with the generations of TCAM engines beside it, and  *)
(* the performance monitor: `program' says whose steps a behaviour shows.  *)
(***************************************************************************)
EXTENDS MCTcam, PerformanceMonitor, TcamControlPlane

VARIABLE program

\* A default route, a quarter within it and another quarter; one address that two of
\* them match.  The hot-route caches have two bits of three.
ThreeRoutes == {Route(0, 0, "default", 9), Route(4, 2, "quarter", 2), Route(5, 2, "other", 1)}

FourRoutes == ThreeRoutes \cup {Route(4, 1, "half", 8)}

allVars == <<program, vars, planeVars, ultimate, monitorVars>>

TablesInit ==
    /\ program \in {"engine", "plane", "ultimate", "monitor"}
    /\ Init /\ (program # "engine" => strategy = "Phase1Only")
    /\ PlaneInit /\ (program # "plane" => enabled = {})
    /\ UltimateInit
    /\ MonitorInit

TablesNext ==
    /\ UNCHANGED program
    /\ program # "engine" => UNCHANGED vars
    /\ program # "plane" => UNCHANGED planeVars
    /\ program # "ultimate" => UNCHANGED ultimate
    /\ program # "monitor" => UNCHANGED monitorVars
    /\ \/ program = "engine" /\ Next
       \/ program = "plane" /\ PlaneNext
       \/ program = "ultimate" /\ UltimateNext
       \/ program = "monitor" /\ MonitorNext
TablesSpec == TablesInit /\ [][TablesNext]_allVars
=============================================================================
