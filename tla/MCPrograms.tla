----------------------------- MODULE MCPrograms -----------------------------
(***************************************************************************)
(* The programs and the engines that they are built on, beside the cache:  *)
(* `program' says whose steps a behaviour shows, and the others wait in    *)
(* an initial state.                                                       *)
(***************************************************************************)
EXTENDS MCUaoQtcamCache, ControlPlaneServer, EngineFacades, ServerProcesses

VARIABLES program,
          console, screen, stage, view, shown, countdown, daemonUp, reply  \* OperatorConsoles

\* One command of every kind that process_command tells apart.
SomeCommands == {"CacheGet", "CacheSet", "CacheDelete", "Lookup", "Stats"}

Consoles == INSTANCE OperatorConsoles WITH MaxScroll <- 2

consoleVars == <<console, screen, stage, view, shown, countdown, daemonUp, reply>>
allVars == <<program, vars, serverVars, facadeVars, processVars, consoleVars>>

ProgramsInit ==
    /\ program \in {"cache", "server", "facades", "processes", "consoles"}
    /\ Init
    /\ ServerInit /\ (program # "server" => profile = "dev" /\ models = {})
    /\ FacadeInit
    /\ ProcessInit
    /\ program # "processes" =>
           binary = [program |-> "grpc", config |-> "parses", monitoring |-> FALSE]
    /\ Consoles!ConsoleInit /\ (program # "consoles" => console = "cli" /\ daemonUp)

ProgramsNext ==
    /\ UNCHANGED program
    /\ program # "cache" => UNCHANGED vars
    /\ program # "server" => UNCHANGED serverVars
    /\ program # "facades" => UNCHANGED facadeVars
    /\ program # "processes" => UNCHANGED processVars
    /\ program # "consoles" => UNCHANGED consoleVars
    /\ \/ program = "cache" /\ Next
       \/ program = "server" /\ ServerNext
       \/ program = "facades" /\ FacadeNext
       \/ program = "processes" /\ ProcessNext
       \/ program = "consoles" /\ Consoles!ConsoleNext
ProgramsSpec == ProgramsInit /\ [][ProgramsNext]_allVars

=============================================================================
