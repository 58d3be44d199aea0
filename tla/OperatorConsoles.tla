---------------------------- MODULE OperatorConsoles ----------------------------
(***************************************************************************)
(* The programs an operator runs: the command line (src/bin/cli.rs), the   *)
(* two terminal dashboards (dashboard.rs, calibration_dashboard.rs) and    *)
(* the fabric program (symmetrix_fabric.rs).  The command line asks a      *)
(* daemon whose router serves /health and /metrics only, so every API call *)
(* is answered with an error or not at all.                                *)
(***************************************************************************)
EXTENDS Integers

CONSTANT MaxScroll      \* bound on the scroll position and on the fetches

VARIABLES
  console,      \* the program that runs
  screen,       \* the terminal: "plain", "raw" or "alternate"
  stage,        \* "start", "run", "leave", "done", or what the command waits for
  view,         \* [tab, scroll]: what the operator looks at
  shown,        \* [agents, fetches, cpu]: what the fetching task last stored
  countdown,    \* [left, version] of the simulated rotation
  daemonUp,     \* whether the daemon listens
  reply         \* what the command line printed

consoleVars == <<console, screen, stage, view, shown, countdown, daemonUp, reply>>

Dashboards == {"dashboard", "calibration_dashboard"}
Modes      == {"datacenter", "node", "oem", "benchmark", "api"}
Serving    == {"datacenter", "node", "api"}   \* these wait for Ctrl-C
(* The subcommands that call the daemon; the rest print at once.           *)
Asking == {"info", "status", "list", "math", "resources", "launch"}
Local  == {"version", "config", "quick", "unimplemented"}
Panels == [dashboard |-> <<"agents", "certificates", "network", "system">>,
           calibration_dashboard |-> <<"overview", "memory", "compute", "pcie">>]
Served == {"/health", "/metrics"}
RotationPeriod == 3     \* stands for the 60 ticks of the simulated countdown
Tabs == 4

ConsoleInit ==
  /\ console \in Dashboards \cup {"cli"} \cup Modes
  /\ screen = "plain" /\ stage = "start"
  /\ view = [tab |-> 0, scroll |-> 0]
  /\ shown = [agents |-> 0, fetches |-> 0, cpu |-> 0]
  /\ countdown = [left |-> RotationPeriod, version |-> 1]
  /\ daemonUp \in BOOLEAN /\ reply = "none"

DaemonStartsOrStops ==
  /\ console = "cli" /\ stage # "done"
  /\ daemonUp' = ~daemonUp
  /\ UNCHANGED <<console, screen, stage, view, shown, countdown, reply>>

---------------------------------------------------------------------------
(* enable_raw_mode, then EnterAlternateScreen: an error of the second      *)
(* returns from main with the terminal still raw.                          *)
EnterRaw ==
  /\ console \in Dashboards /\ stage = "start" /\ screen = "plain"
  /\ \/ screen' = "raw" /\ stage' = stage
     \/ screen' = screen /\ stage' = "done"
  /\ UNCHANGED <<console, view, shown, countdown, daemonUp, reply>>

EnterAlternate ==
  /\ console \in Dashboards /\ stage = "start" /\ screen = "raw"
  /\ \/ screen' = "alternate" /\ stage' = "run"
     \/ screen' = screen /\ stage' = "failed"
  /\ UNCHANGED <<console, view, shown, countdown, daemonUp, reply>>

Turn(tab, by) == (tab + by + Tabs) % Tabs
Pressed ==
  \/ view' = [view EXCEPT !.tab = Turn(@, 1)]
  \/ /\ console = "dashboard"
     /\ \/ view' = [view EXCEPT !.scroll = IF @ = 0 THEN 0 ELSE @ - 1]
        \/ view.scroll < MaxScroll /\ view' = [view EXCEPT !.scroll = @ + 1]
  \/ /\ console = "calibration_dashboard"
     /\ \/ view' = [view EXCEPT !.tab = Turn(@, -1)]
        \/ \E t \in 0..Tabs-1 : view' = [view EXCEPT !.tab = t]

Press ==
  /\ console \in Dashboards /\ stage = "run" /\ Pressed
  /\ UNCHANGED <<console, screen, stage, shown, countdown, daemonUp, reply>>

Quit ==
  /\ console \in Dashboards /\ stage = "run" /\ stage' = "leave"
  /\ UNCHANGED <<console, screen, view, shown, countdown, daemonUp, reply>>

(* draw, poll or read fails.  run_dashboard hands the error to main, which *)
(* restores the terminal before it returns it; the loop of the calibration *)
(* dashboard is in main itself, and its `?` skips the clean-up.            *)
LoopError ==
  /\ console \in Dashboards /\ stage = "run"
  /\ stage' = IF console = "dashboard" THEN "leave" ELSE "failed"
  /\ UNCHANGED <<console, screen, view, shown, countdown, daemonUp, reply>>

Restore ==
  /\ stage = "leave"
  /\ screen' = "plain" /\ stage' = "done"
  /\ UNCHANGED <<console, view, shown, countdown, daemonUp, reply>>

(* draw_ui shows the panel of the selected tab.  The gauge of the system   *)
(* panel panics over 100 percent, and nothing restores the terminal.       *)
Panel == Panels[console][view.tab + 1]
DrawPanics ==
  /\ console = "dashboard" /\ stage = "run"
  /\ Panel = "system" /\ shown.cpu > 100 /\ stage' = "failed"
  /\ UNCHANGED <<console, screen, view, shown, countdown, daemonUp, reply>>

(* fetch_data_loop: what the server answers is stored first, the demo data *)
(* follow whatever it answered.                                            *)
Fetch ==
  /\ console = "dashboard" /\ stage = "run" /\ shown.fetches < MaxScroll
  /\ \E cpu \in {shown.cpu, 0, 101} :
       shown' = [agents |-> IF shown.agents = 0 THEN 2 ELSE shown.agents,
                 fetches |-> shown.fetches + 1, cpu |-> cpu]
  /\ UNCHANGED <<console, screen, stage, view, countdown, daemonUp, reply>>

SimulateRotation ==
  /\ console = "calibration_dashboard" /\ stage = "run"
  /\ IF countdown.left > 0
       THEN countdown' = [countdown EXCEPT !.left = @ - 1]
       ELSE /\ countdown.version < MaxScroll
            /\ countdown' = [left |-> RotationPeriod, version |-> countdown.version + 1]
  /\ UNCHANGED <<console, screen, stage, view, shown, daemonUp, reply>>

---------------------------------------------------------------------------
(* A request for an API path: the daemon answers 404, or nothing answers.  *)
Answered(path) == daemonUp /\ path \in Served

(* What each command prints instead: the status of the mathematics says    *)
(* that the daemon is offline while it runs.                               *)
list_containers == "empty list"
detect_local_system_info == "detected locally"
detect_local_math_status == "daemon offline"
detect_local_resource_usage == "detected, without caches and containers"
launch == IF daemonUp THEN "launch refused" ELSE "launch simulated"
FallBack == [info |-> detect_local_system_info, list |-> list_containers, launch |-> launch,
             math |-> detect_local_math_status, resources |-> detect_local_resource_usage]

Ask(command) ==
  /\ console = "cli" /\ stage = "start" /\ ~Answered("/api/v1")
  /\ IF command = "status" THEN stage' = "health" /\ UNCHANGED reply
                           ELSE stage' = "done" /\ reply' = FallBack[command]
  /\ UNCHANGED <<console, screen, view, shown, countdown, daemonUp>>

(* detect_local_system_status asks again, this time for /health.           *)
ProbeHealth ==
  /\ stage = "health" /\ stage' = "done"
  /\ reply' = IF Answered("/health") THEN "running" ELSE "stopped"
  /\ UNCHANGED <<console, screen, view, shown, countdown, daemonUp>>

PrintLocally ==
  /\ console = "cli" /\ stage = "start"
  /\ stage' = "done" /\ \E c \in Local : reply' = c
  /\ UNCHANGED <<console, screen, view, shown, countdown, daemonUp>>

(* The fabric program detects the hardware, runs the placeholders of its   *)
(* mode, and waits for Ctrl-C in the three modes that serve.               *)
StartMode ==
  /\ console \in Modes /\ stage = "start"
  /\ stage' = IF console \in Serving THEN "run" ELSE "done"
  /\ reply' = "ready"
  /\ UNCHANGED <<console, screen, view, shown, countdown, daemonUp>>
StopMode ==
  /\ console \in Modes /\ stage = "run" /\ stage' = "done"
  /\ UNCHANGED <<console, screen, view, shown, countdown, daemonUp, reply>>

ConsoleNext ==
  \/ DaemonStartsOrStops \/ EnterRaw \/ EnterAlternate \/ Press \/ Quit
  \/ LoopError \/ DrawPanics \/ Restore \/ Fetch \/ SimulateRotation
  \/ \E c \in Asking : Ask(c)
  \/ ProbeHealth \/ PrintLocally \/ StartMode \/ StopMode
=============================================================================
