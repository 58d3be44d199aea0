---------------------------- MODULE QuotaLedger -----------------------------
(***************************************************************************)
(* What the allocation service promises, without locks, totals or calls in *)
(* progress: a ledger of live allocations in which an allocation is        *)
(* granted under a new id only while the agent's live allocations fit the  *)
(* limit, and is given back at most once.                                  *)
(***************************************************************************)
EXTENDS Integers, Functions

CONSTANTS Agents, Ids, Sizes, MaxTb

VARIABLES held,      \* id -> [agent, tb], the live allocations
          granted    \* every id granted so far

Committed(agent) ==
    SumFunctionOnSet([id \in DOMAIN held |-> held[id].tb],
                     {id \in DOMAIN held : held[id].agent = agent})

Init == held = [id \in {} |-> 0] /\ granted = {}

Grant(id, agent, tb) ==
    /\ id \notin granted
    /\ Committed(agent) + tb <= MaxTb
    /\ held' = [x \in DOMAIN held \cup {id} |->
                   IF x = id THEN [agent |-> agent, tb |-> tb] ELSE held[x]]
    /\ granted' = granted \cup {id}

Release(id) ==
    /\ id \in DOMAIN held
    /\ held' = [x \in DOMAIN held \ {id} |-> held[x]]
    /\ UNCHANGED granted

Next == \E id \in Ids :
            \/ \E agent \in Agents, tb \in Sizes : Grant(id, agent, tb)
            \/ Release(id)

Spec == Init /\ [][Next]_<<held, granted>>
=============================================================================
