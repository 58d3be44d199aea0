-------------------------- MODULE DashboardMetrics --------------------------
(***************************************************************************)
(* src/grpc/dashboard_metrics.rs: a registry of agents and a set of        *)
(* counters, each behind a tokio lock, and for every dashboard a task that *)
(* samples both and sends into a bounded channel.  The writers are public; *)
(* nothing in the server calls them.                                       *)
(***************************************************************************)
EXTENDS Naturals, FiniteSets, FiniteSetsExt

CONSTANTS Agents, Dashboards,
          ChannelSize,    \* of the mpsc channel (16)
          MaxUpdates      \* bound on the changes of agents and counters

VARIABLES connected_agents,  \* tier and GPU type of every agent that is registered
          system_metrics,    \* the counters, as one number
          dashboard,         \* the task and the client of every stream
          answered,          \* the last answer to a single call
          updates

dashboardVars == <<connected_agents, system_metrics, dashboard, answered, updates>>

Tiers == {"free", "starter", "pro", "enterprise"}
\* Agents register with any tier, one that is not counted among them, and any GPU type.
AgentInfos == [tier : {"free", "trial"}, gpu_type : {"H100", "A100"}]

\* task: none, sampling agents, sampling metrics, sending, sleeping, ended.
Closed == [task |-> "none", client |-> "none", queue |-> 0, agents |-> <<>>, counters |-> 0]

DashboardInit ==
    /\ connected_agents = <<>> /\ system_metrics = 0 /\ updates = 0 /\ answered = <<>>
    /\ dashboard = [d \in Dashboards |-> Closed]

\* Which locks a task holds follows from where it is: the agents' read guard from the
\* first lock on, until the block ends.
HoldsAgents(d) == dashboard[d].task = "metrics"

register_agent(a, info) ==
    /\ updates < MaxUpdates /\ \A d \in Dashboards : ~HoldsAgents(d)
    /\ connected_agents' = [b \in DOMAIN connected_agents \cup {a} |->
                                IF b = a THEN info ELSE connected_agents[b]]
    /\ updates' = updates + 1
    /\ UNCHANGED <<system_metrics, dashboard, answered>>
unregister_agent(a) ==
    /\ updates < MaxUpdates /\ \A d \in Dashboards : ~HoldsAgents(d)
    /\ connected_agents' = [b \in DOMAIN connected_agents \ {a} |-> connected_agents[b]]
    /\ updates' = updates + 1
    /\ UNCHANGED <<system_metrics, dashboard, answered>>
update_metrics ==
    /\ updates < MaxUpdates
    /\ system_metrics' = system_metrics + 1 /\ updates' = updates + 1
    /\ UNCHANGED <<connected_agents, dashboard, answered>>

-----------------------------------------------------------------------------
tier_counts(agents) == [t \in Tiers |-> Cardinality({a \in DOMAIN agents : agents[a].tier = t})]

\* get_connected_agents: at least one agent and at most a thousand, of those that pass
\* both filters; the total counts those that do not pass them too.
Passes(filter, field) == filter \in {"", field}
Limit(n) == IF n < 1 THEN 1 ELSE IF n > 1000 THEN 1000 ELSE n
get_connected_agents(filter_tier, filter_gpu_type, limit) ==
    [total_count |-> Cardinality(DOMAIN connected_agents),
     listed |-> Min({Limit(limit), Cardinality({a \in DOMAIN connected_agents :
                        /\ Passes(filter_tier, connected_agents[a].tier)
                        /\ Passes(filter_gpu_type, connected_agents[a].gpu_type)})})]

\* get_system_summary: sums over the agents, all of which are healthy.
get_system_summary == [total_agents |-> Cardinality(DOMAIN connected_agents),
                       healthy_nodes |-> Cardinality(DOMAIN connected_agents),
                       unhealthy_nodes |-> 0]

Ask ==
    /\ \/ \E tier \in {"", "free"}, gpu \in {"", "H100"}, limit \in {0, 5000} :
            answered' = get_connected_agents(tier, gpu, limit)
       \/ answered' = get_system_summary
    /\ UNCHANGED <<connected_agents, system_metrics, dashboard, updates>>

-----------------------------------------------------------------------------
Set(d, new) == dashboard' = [dashboard EXCEPT ![d] = new]
Same == UNCHANGED <<connected_agents, system_metrics, answered, updates>>

stream_dashboard_metrics(d) ==
    /\ dashboard[d] = Closed
    /\ Set(d, [Closed EXCEPT !.task = "agents", !.client = "reading"]) /\ Same

\* The task takes both read guards, one inside the other, and builds the update.
SampleAgents(d) ==
    /\ dashboard[d].task = "agents"
    /\ Set(d, [dashboard[d] EXCEPT !.task = "metrics", !.agents = tier_counts(connected_agents)]) /\ Same
SampleMetrics(d) ==
    /\ dashboard[d].task = "metrics"
    /\ Set(d, [dashboard[d] EXCEPT !.task = "send", !.counters = system_metrics]) /\ Same

\* It waits while the channel is full; once the client is gone the send fails instead.
\* Slip: a send that fails is ignored, and the task sleeps and samples again.
Send_Ignored(d) ==
    /\ dashboard[d].task = "send"
    /\ \/ dashboard[d].client = "gone" /\ Set(d, [dashboard[d] EXCEPT !.task = "sleep"])
       \/ /\ dashboard[d].client = "reading" /\ dashboard[d].queue < ChannelSize
          /\ Set(d, [dashboard[d] EXCEPT !.task = "sleep", !.queue = @ + 1])
    /\ Same
Send(d) ==
    /\ dashboard[d].task = "send"
    /\ \/ dashboard[d].client = "gone"
          /\ Set(d, [Closed EXCEPT !.task = "ended", !.client = "gone"])
       \/ /\ dashboard[d].client = "reading" /\ dashboard[d].queue < ChannelSize
          /\ Set(d, [dashboard[d] EXCEPT !.task = "sleep", !.queue = @ + 1])
    /\ Same
Sleep(d) ==
    /\ dashboard[d].task = "sleep"
    /\ Set(d, [dashboard[d] EXCEPT !.task = "agents"]) /\ Same

ReadUpdate(d) ==
    /\ dashboard[d].client = "reading" /\ dashboard[d].queue > 0
    /\ Set(d, [dashboard[d] EXCEPT !.queue = @ - 1]) /\ Same
CloseDashboard(d) ==
    /\ dashboard[d].client = "reading"
    /\ Set(d, [dashboard[d] EXCEPT !.client = "gone", !.queue = 0]) /\ Same

SamplerStep(d) == SampleAgents(d) \/ SampleMetrics(d) \/ Send(d) \/ Sleep(d)
DashboardNext ==
    \/ \E a \in Agents : unregister_agent(a) \/ \E info \in AgentInfos : register_agent(a, info)
    \/ update_metrics \/ Ask
    \/ \E d \in Dashboards : \/ stream_dashboard_metrics(d) \/ SamplerStep(d)
                             \/ ReadUpdate(d) \/ CloseDashboard(d)

-----------------------------------------------------------------------------
\* A client that goes away, even one that had stopped reading with the channel full,
\* does not leave its sampling task behind.
SamplerEnds ==
    \A d \in Dashboards : dashboard[d].client = "gone" ~> dashboard[d].task = "ended"
=============================================================================
