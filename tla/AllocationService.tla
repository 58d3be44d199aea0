------------------------- MODULE AllocationService --------------------------
(***************************************************************************)
(* The gRPC allocation service (src/grpc/allocation.rs): the allocation    *)
(* records and the per-agent totals, each behind its own tokio RwLock, and *)
(* the four handlers that concurrent calls run.                            *)
(*                                                                         *)
(* A task (one call being served) is `idle' or at an `.await' on a lock;   *)
(* everything between two awaits is one action.  When the client goes      *)
(* away the server drops the handler's future at the await it is in        *)
(* (Cancel): its locks are released and what it did already stays done.    *)
(***************************************************************************)
EXTENDS Integers, FiniteSets, Functions, RwLock

CONSTANTS Tasks,      \* calls that may be in progress at once
          Agents,     \* agent_id
          Ids,        \* allocation ids; a new one is never reused (UUIDs)
          Sizes,      \* requested_tb
          Durations,  \* duration_ms
          DayMs,      \* 24 * 60 * 60 * 1000
          MaxTb,      \* max_allocation_per_agent_tb
          U64,        \* 2^w for the width w of u64
          Calls,      \* the handlers the clients call
          MayCancel   \* clients may disconnect during a call

ASSUME AllocationAssumption ==
    /\ IsFiniteSet(Tasks) /\ Agents # {} /\ Ids # {}
    /\ U64 \in Nat \ {0} /\ MaxTb \in 0..(U64 - 1)
    /\ Sizes \subseteq 0..(U64 - 1)
    /\ Durations \subseteq Nat /\ DayMs \in Nat
    /\ Calls \subseteq {"allocate", "free", "route", "status"}
    /\ MayCancel \in BOOLEAN

VARIABLES allocations,        \* id -> AllocationRecord
          agent_allocations,  \* agent -> total TB, for the agents seen
          used,               \* ids handed out so far
          pc, req,            \* where each task is, its arguments and locals
          reply,              \* the last answer each task gave
          leaked              \* ghost: agent -> TB of releases that were abandoned

vars == <<allocations, agent_allocations, used, pc, req, reply, leaked>>

-----------------------------------------------------------------------------
\* The lock each await is for, and the guards held across it.
Acquires(point) ==
    [lock |-> IF point \in {"allocate_totals", "free_totals",
                            "route_totals", "status_totals"}
              THEN "agent_allocations" ELSE "allocations",
     mode |-> IF point \in {"route_totals", "status_store", "status_totals"}
              THEN "read" ELSE "write"]

\* Slip: the guard on the totals is a temporary that dies after the check.
Holds_CheckOnly(point) ==
    IF point = "free_totals" THEN {Write("allocations")}
    ELSE IF point = "status_totals" THEN {Read("allocations")}
    ELSE {}

\* Slip: free_memory drops the guard on the records before it takes the totals.
Holds_FreeDrops(point) ==
    IF point = "allocate_store" THEN {Write("agent_allocations")}
    ELSE IF point = "status_totals" THEN {Read("allocations")}
    ELSE {}

Holds(point) ==
    IF point = "allocate_store" THEN {Write("agent_allocations")}
    ELSE IF point = "free_totals" THEN {Write("allocations")}
    ELSE IF point = "status_totals" THEN {Read("allocations")}
    ELSE {}

Points == {"allocate_totals", "allocate_store", "free_store", "free_totals",
           "route_totals", "status_store", "status_totals"}

At(t, point) ==
    /\ pc[t] = point
    /\ \A u \in Tasks \ {t} :
          \A g \in Holds(pc[u]) : Compatible(g, Acquires(point))

Goto(t, point) == pc' = [pc EXCEPT ![t] = point]

-----------------------------------------------------------------------------
Put(map, k, v) == [x \in DOMAIN map \cup {k} |-> IF x = k THEN v ELSE map[x]]

saturating_sub(a, b) == IF a >= b THEN a - b ELSE 0

\* agent_allocs.get(agent).copied().unwrap_or(0)
Total(agent) ==
    IF agent \in DOMAIN agent_allocations THEN agent_allocations[agent] ELSE 0

RecordsOf(agent) == {id \in DOMAIN allocations : allocations[id].agent = agent}

SizeOf == [id \in DOMAIN allocations |-> allocations[id].allocated_tb]

Stored(agent) == SumFunctionOnSet(SizeOf, RecordsOf(agent))

AnAgent == CHOOSE a \in Agents : TRUE
NoReq   == [agent |-> AnAgent, tb |-> 0, duration |-> 0,
            id |-> CHOOSE id \in Ids : TRUE, every |-> TRUE]
NoReply == [call |-> "none", ok |-> FALSE, agent |-> AnAgent, tb |-> 0]

Init ==
    /\ allocations = [id \in {} |-> NoReq]
    /\ agent_allocations = [a \in {} |-> 0]
    /\ used = {}
    /\ pc = [t \in Tasks |-> "idle"]
    /\ req = [t \in Tasks |-> NoReq]
    /\ reply = [t \in Tasks |-> NoReply]
    /\ leaked = [a \in Agents |-> 0]

\* The handler returns r; its locals are gone.
Answer(t, r) ==
    /\ pc' = [pc EXCEPT ![t] = "idle"]
    /\ req' = [req EXCEPT ![t] = NoReq]
    /\ reply' = [reply EXCEPT ![t] = r]

-----------------------------------------------------------------------------
\* A client calls a handler, which runs up to its first await.
Begin(t, call, point, r) ==
    /\ call \in Calls
    /\ pc[t] = "idle"
    /\ Goto(t, point)
    /\ req' = [req EXCEPT ![t] = r]
    /\ reply' = [reply EXCEPT ![t] = NoReply]
    /\ UNCHANGED <<allocations, agent_allocations, used, leaked>>

\* Bound: as many allocations are begun as there are ids to hand out.
IdsLeft ==
    Cardinality(used) + Cardinality({t \in Tasks : pc[t] \in
        {"allocate_totals", "allocate_store"}}) < Cardinality(Ids)

BeginAllocate(t) ==
    /\ IdsLeft
    /\ \E a \in Agents, tb \in Sizes, d \in Durations :
          Begin(t, "allocate", "allocate_totals",
                [NoReq EXCEPT !.agent = a, !.tb = tb, !.duration = d])
BeginFree(t) ==
    \E id \in Ids : Begin(t, "free", "free_store", [NoReq EXCEPT !.id = id])
BeginRoute(t) ==
    \E tb \in Sizes : Begin(t, "route", "route_totals", [NoReq EXCEPT !.tb = tb])
BeginStatus(t) ==
    \E a \in Agents :
        \/ Begin(t, "status", "status_store", [NoReq EXCEPT !.agent = a])
        \/ \E id \in Ids :
              Begin(t, "status", "status_store",
                    [NoReq EXCEPT !.agent = a, !.id = id, !.every = FALSE])

-----------------------------------------------------------------------------
\* Slip: the limit is compared with the request alone.
AllocateCheck_RequestOnly(t) ==
    LET r == req[t]
    IN  /\ At(t, "allocate_totals")
        /\ IF r.tb > MaxTb
           THEN Answer(t, [NoReply EXCEPT !.call = "allocate"])
           ELSE Goto(t, "allocate_store") /\ UNCHANGED <<req, reply>>
        /\ UNCHANGED <<allocations, agent_allocations, used, leaked>>

\* allocate_memory up to the limit check, the totals locked: refuse, or go on to
\* the records with the guard still held.
AllocateCheck(t) ==
    LET r == req[t]
    IN  /\ At(t, "allocate_totals")
        /\ IF (Total(r.agent) + r.tb) % U64 > MaxTb
           THEN Answer(t, [NoReply EXCEPT !.call = "allocate"])
           ELSE Goto(t, "allocate_store") /\ UNCHANGED <<req, reply>>
        /\ UNCHANGED <<allocations, agent_allocations, used, leaked>>

\* Slip: "no expiry" is encoded as -1 in the record.
AllocateStore_NoExpiry(t) ==
    LET r == req[t]
    IN  /\ At(t, "allocate_store")
        /\ \E id \in Ids \ used :
              /\ allocations' = Put(allocations, id,
                     [agent |-> r.agent, allocated_tb |-> r.tb,
                      duration |-> r.duration, expires_in |-> -1])
              /\ used' = used \cup {id}
        /\ agent_allocations' = Put(agent_allocations, r.agent,
                                    (Total(r.agent) + r.tb) % U64)
        /\ Answer(t, [call |-> "allocate", ok |-> TRUE, agent |-> r.agent, tb |-> r.tb])
        /\ UNCHANGED leaked

\* The rest of allocate_memory: store the record, add to the total, answer.
AllocateStore(t) ==
    LET r == req[t]
    IN  /\ At(t, "allocate_store")
        /\ \E id \in Ids \ used :
              /\ allocations' = Put(allocations, id,
                     [agent |-> r.agent, allocated_tb |-> r.tb,
                      duration |-> r.duration,
                      expires_in |-> IF r.duration > 0 THEN r.duration ELSE DayMs])
              /\ used' = used \cup {id}
        /\ agent_allocations' = Put(agent_allocations, r.agent,
                                    (Total(r.agent) + r.tb) % U64)
        /\ Answer(t, [call |-> "allocate", ok |-> TRUE, agent |-> r.agent, tb |-> r.tb])
        /\ UNCHANGED leaked

\* free_memory up to the second await: the record is removed first.
FreeRemove(t) ==
    LET id == req[t].id
    IN  /\ At(t, "free_store")
        /\ IF id \in DOMAIN allocations
           THEN /\ req' = [req EXCEPT ![t].agent = allocations[id].agent,
                                      ![t].tb = allocations[id].allocated_tb]
                /\ allocations' = [x \in DOMAIN allocations \ {id} |-> allocations[x]]
                /\ Goto(t, "free_totals")
                /\ UNCHANGED reply
           ELSE /\ Answer(t, [NoReply EXCEPT !.call = "free"])
                /\ UNCHANGED allocations
        /\ UNCHANGED <<agent_allocations, used, leaked>>

\* Slip: free_memory does not take the record off the total.
FreeTotal_Forgets(t) ==
    /\ At(t, "free_totals")
    /\ Answer(t, [call |-> "free", ok |-> TRUE, agent |-> req[t].agent, tb |-> req[t].tb])
    /\ UNCHANGED <<allocations, agent_allocations, used, leaked>>

\* The rest of free_memory: the agent's total.
FreeTotal(t) ==
    LET r == req[t]
    IN  /\ At(t, "free_totals")
        /\ agent_allocations' =
              IF r.agent \in DOMAIN agent_allocations
              THEN [agent_allocations EXCEPT ![r.agent] = saturating_sub(@, r.tb)]
              ELSE agent_allocations
        /\ Answer(t, [call |-> "free", ok |-> TRUE, agent |-> r.agent, tb |-> r.tb])
        /\ UNCHANGED <<allocations, used, leaked>>

\* route_memory_request: an agent with the most capacity left, if that is enough
\* and not nothing; equal capacities in HashMap order (any).
available(agent) == saturating_sub(MaxTb, agent_allocations[agent])

Route(t) ==
    LET fits == {a \in DOMAIN agent_allocations :
                    available(a) >= req[t].tb /\ available(a) > 0}
    IN  /\ At(t, "route_totals")
        /\ IF fits = {}
           THEN Answer(t, [NoReply EXCEPT !.call = "route"])
           ELSE \E best \in fits :
                  /\ \A a \in fits : available(a) <= available(best)
                  /\ Answer(t, [call |-> "route", ok |-> TRUE, agent |-> best,
                                tb |-> available(best)])
        /\ UNCHANGED <<allocations, agent_allocations, used, leaked>>

\* get_allocation_status: both locks, then the agent's records are summed, or the
\* one that was asked for.
StatusLock(t) ==
    /\ At(t, "status_store")
    /\ Goto(t, "status_totals")
    /\ UNCHANGED <<allocations, agent_allocations, used, req, reply, leaked>>

Listed(r) == IF r.every THEN RecordsOf(r.agent) ELSE RecordsOf(r.agent) \cap {r.id}

Status(t) ==
    /\ At(t, "status_totals")
    /\ Answer(t, [call |-> "status", ok |-> TRUE, agent |-> req[t].agent,
                  tb |-> SumFunctionOnSet(SizeOf, Listed(req[t])) % U64])
    /\ UNCHANGED <<allocations, agent_allocations, used, leaked>>

\* Slip: an allocation that is abandoned while it waits leaves its entry behind.
Cancel_Charges(t) ==
    /\ MayCancel
    /\ pc[t] # "idle"
    /\ Answer(t, NoReply)
    /\ agent_allocations' = Put(agent_allocations, req[t].agent,
                                Total(req[t].agent) + req[t].tb)
    /\ UNCHANGED <<allocations, used, leaked>>

\* The client disconnects: the future is dropped at its await.
Cancel(t) ==
    /\ MayCancel
    /\ pc[t] # "idle"
    /\ leaked' = IF pc[t] = "free_totals"
                 THEN [leaked EXCEPT ![req[t].agent] = @ + req[t].tb] ELSE leaked
    /\ Answer(t, NoReply)
    /\ UNCHANGED <<allocations, agent_allocations, used>>

-----------------------------------------------------------------------------
Start(t) == BeginAllocate(t) \/ BeginFree(t) \/ BeginRoute(t) \/ BeginStatus(t)

Proceed(t) ==
    \/ AllocateCheck(t) \/ AllocateStore(t)
    \/ FreeRemove(t) \/ FreeTotal(t)
    \/ Route(t) \/ StatusLock(t) \/ Status(t)

Next == \E t \in Tasks : Start(t) \/ Proceed(t) \/ Cancel(t)

Spec == Init /\ [][Next]_vars

\* tokio's RwLock serves its waiters in the order they came, so a task whose
\* lock is free again and again gets it; clients owe nothing.
FairSpec == Spec /\ \A t \in Tasks : SF_vars(Proceed(t))

-----------------------------------------------------------------------------
Record == [agent : Agents, allocated_tb : 0..(U64 - 1), duration : Nat, expires_in : Nat]
CallNames == {"allocate", "free", "route", "status"}

\* The types of the service's two maps and of its handlers' locals.
TypeOK ==
    /\ used \subseteq Ids
    /\ DOMAIN allocations \subseteq used
    /\ allocations \in [DOMAIN allocations -> Record]
    /\ DOMAIN agent_allocations \subseteq Agents
    /\ agent_allocations \in [DOMAIN agent_allocations -> 0..(U64 - 1)]
    /\ pc \in [Tasks -> Points \cup {"idle"}]
    /\ req \in [Tasks -> [agent : Agents, tb : 0..(U64 - 1), duration : Nat,
                     id : Ids, every : BOOLEAN]]
    /\ DOMAIN reply = Tasks
    /\ \A t \in Tasks : /\ reply[t].call \in CallNames \cup {"none"}
                        /\ reply[t].agent \in Agents

\* The guards of two tasks never conflict.
LockExclusion ==
    \A t, u \in Tasks : t # u =>
        \A g \in Holds(pc[t]), h \in Holds(pc[u]) : Compatible(g, h)

\* What allocate_memory found out about the limit is still true when it stores:
\* no other call has moved the agent's total since.
CheckStillValid ==
    \A t \in Tasks : pc[t] = "allocate_store" =>
        (Total(req[t].agent) + req[t].tb) % U64 <= MaxTb

\* No agent's total exceeds the limit, however the calls interleave or vanish.
QuotaRespected ==
    \A a \in DOMAIN agent_allocations : agent_allocations[a] <= MaxTb

\* TB of an agent's records that a free_memory has removed and not yet taken off.
Freeing(agent) == {t \in Tasks : pc[t] = "free_totals" /\ req[t].agent = agent}

BeingFreed(agent) == SumFunctionOnSet([t \in Tasks |-> req[t].tb], Freeing(agent))

\* "Total allocated TB per agent": the total of an agent is the sum of its live
\* records, of those a free_memory in progress is taking off, and of those whose
\* free_memory was abandoned in between.
TotalsMatchRecords ==
    \A a \in Agents : Total(a) = Stored(a) + BeingFreed(a) + leaked[a]

\* A status answer is of one moment: the sum it reports, when it is over all the
\* agent's allocations, is the agent's total but for abandoned releases.
StatusAgreesWithTotal ==
    [][\A t \in Tasks :
          reply'[t] # reply[t] /\ reply'[t].call = "status" /\ req[t].every =>
              reply'[t].tb + leaked[reply'[t].agent] = Total(reply'[t].agent)]_vars

\* Seen through its records alone the service is a quota ledger: concurrent and
\* abandoned calls included, it grants within the limit, under new ids, and gives
\* back once.
Ledger == INSTANCE QuotaLedger WITH
              granted <- used,
              held <- [id \in DOMAIN allocations |->
                          [agent |-> allocations[id].agent,
                           tb |-> allocations[id].allocated_tb]]
RefinesLedger == Ledger!Spec

\* Every call is answered.
CallsAnswered == \A t \in Tasks : pc[t] # "idle" ~> pc[t] = "idle"
=============================================================================
