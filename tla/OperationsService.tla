-------------------------- MODULE OperationsService -------------------------
(***************************************************************************)
(* src/grpc/operations.rs: the answers that need no state, and the upgrade *)
(* whose progress is a stream that sleeps between its messages.            *)
(***************************************************************************)
EXTENDS Naturals, Sequences

CONSTANTS Agents, Delays, MaxUptime

VARIABLES START_TIME,   \* set by the first service that is made
          uptime,       \* the clock, counted from there
          upgrade,      \* how far the upgrade that each agent asked for has come
          restart_at,   \* when each agent was told that it restarts
          told          \* the last answer about the server itself

operationsVars == <<START_TIME, uptime, upgrade, restart_at, told>>

\* upgrade_agent: the whole stream is written down; nothing is downloaded.
UpgradeProgress ==
    <<[stage |-> "DOWNLOADING", progress_percent |-> 0,   success |-> FALSE],
      [stage |-> "DOWNLOADING", progress_percent |-> 50,  success |-> FALSE],
      [stage |-> "VERIFYING",   progress_percent |-> 100, success |-> FALSE],
      [stage |-> "COMPLETE",    progress_percent |-> 100, success |-> TRUE]>>

NotUpgrading == 0

OperationsInit ==
    /\ START_TIME = 0 /\ uptime = 0 /\ told = <<>>
    /\ upgrade = [a \in Agents |-> NotUpgrading]
    /\ restart_at = [a \in Agents |-> 0]

\* health_check and get_system_info read constants and the uptime.
health_check == [healthy |-> TRUE, status |-> "SERVING"]
get_system_info == [started_at |-> START_TIME, uptime_seconds |-> uptime - START_TIME]
Ask ==
    /\ told' \in {health_check, get_system_info}
    /\ UNCHANGED <<START_TIME, uptime, upgrade, restart_at>>

\* The first message comes at once; each of the others after a sleep.  An agent that
\* asks again gets a stream of its own.
upgrade_agent(a) ==
    /\ upgrade[a] \in {NotUpgrading, Len(UpgradeProgress)}
    /\ upgrade' = [upgrade EXCEPT ![a] = 1]
    /\ UNCHANGED <<START_TIME, uptime, restart_at, told>>
Progress(a) ==
    /\ upgrade[a] \in 1..Len(UpgradeProgress) - 1
    /\ upgrade' = [upgrade EXCEPT ![a] = @ + 1]
    /\ UNCHANGED <<START_TIME, uptime, restart_at, told>>
LeaveUpgrade(a) ==
    /\ upgrade[a] # NotUpgrading
    /\ upgrade' = [upgrade EXCEPT ![a] = NotUpgrading]
    /\ UNCHANGED <<START_TIME, uptime, restart_at, told>>

\* restart_agent promises a time; nothing is scheduled for it.
restart_agent(a, delay) ==
    /\ restart_at' = [restart_at EXCEPT ![a] = uptime + delay]
    /\ UNCHANGED <<START_TIME, uptime, upgrade, told>>

Elapse ==
    /\ uptime < MaxUptime /\ uptime' = uptime + 1
    /\ UNCHANGED <<START_TIME, upgrade, restart_at, told>>

OperationsNext ==
    \/ \E a \in Agents :
        \/ upgrade_agent(a) \/ Progress(a) \/ LeaveUpgrade(a)
        \/ \E d \in Delays : restart_agent(a, d)
    \/ Ask \/ Elapse
=============================================================================
