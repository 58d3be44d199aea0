--------------------------- MODULE ServiceProofs ---------------------------
(***************************************************************************)
(* Proofs about the services of the gRPC server: allocation, the registry  *)
(* of API keys, the way of a call, telemetry, and the hints of the PCIe    *)
(* amplification, for every number of tasks, calls and streams and with    *)
(* clients that may disconnect.  Each part says what its invariant adds.   *)
(*                                                                         *)
(* Allocation: QuotaRespected is not inductive: a store is only safe       *)
(* because the limit check made before it still holds (CheckStillValid),   *)
(* and that is only so because the guard on the totals excludes every      *)
(* other writer in between (LockExclusion).  The three go together with    *)
(* the types.                                                              *)
(*                                                                         *)
(* On top of them: an agent's total is the sum of its records and of those *)
(* that a release has removed but not yet subtracted.  From that follow    *)
(* what a status answers, and that the service, seen through its records,  *)
(* is a quota ledger.                                                      *)
(***************************************************************************)
EXTENDS AllocationService, CyanFlameRpc, TelemetryService, AmplificationServices, Sums,
        SequenceTheorems

IInv == TypeOK /\ LockExclusion /\ CheckStillValid /\ QuotaRespected

Requests == [agent : Agents, tb : 0..(U64 - 1), duration : Nat,
             id : Ids, every : BOOLEAN]

\* The empty request and the empty reply are well typed.
LEMMA Defaults == /\ NoReq \in Requests
                  /\ NoReply.agent \in Agents
                  /\ NoReply.call \in CallNames \cup {"none"}
  <1>1. AnAgent \in Agents
    BY AllocationAssumption DEF AnAgent
  <1>2. (CHOOSE id \in Ids : TRUE) \in Ids
    BY AllocationAssumption
  <1>3. 0 \in 0..(U64 - 1)
    BY AllocationAssumption
  <1> QED
    BY <1>1, <1>2, <1>3 DEF NoReq, NoReply, Requests, CallNames

\* TypeOK and the exclusion of the guards hold at the start, trivially the rest.
LEMMA InitInv == Init => IInv
  <1> SUFFICES ASSUME Init PROVE IInv
    OBVIOUS
  <1>1. TypeOK
    BY Defaults, AllocationAssumption DEF Init, TypeOK, Requests, Points
  <1>2. LockExclusion
    BY DEF Init, LockExclusion, Holds
  <1>3. CheckStillValid /\ QuotaRespected
    BY DEF Init, CheckStillValid, QuotaRespected
  <1> QED
    BY <1>1, <1>2, <1>3 DEF IInv

\* A task that moves keeps the exclusion if each guard it holds afterwards is one
\* it held before or one that agrees with every guard of the others.
LEMMA MoveKeepsExclusion ==
    ASSUME TypeOK, LockExclusion, NEW t \in Tasks, NEW to, Goto(t, to),
           \A g \in Holds(to) :
              \/ g \in Holds(pc[t])
              \/ \A u \in Tasks \ {t} : \A h \in Holds(pc[u]) : Compatible(h, g)
    PROVE  LockExclusion'
  <1> SUFFICES ASSUME NEW u \in Tasks, NEW v \in Tasks, u # v,
                      NEW g \in Holds(pc'[u]), NEW h \in Holds(pc'[v])
               PROVE  Compatible(g, h)
    BY DEF LockExclusion
  <1>0. pc'[t] = to /\ \A w \in Tasks \ {t} : pc'[w] = pc[w]
    BY DEF Goto, TypeOK
  <1>1. CASE u # t /\ v # t
    BY <1>0, <1>1 DEF LockExclusion
  <1>2. CASE u = t
    BY <1>0, <1>2 DEF LockExclusion, Compatible
  <1>3. CASE v = t
    BY <1>0, <1>3 DEF LockExclusion, Compatible
  <1> QED
    BY <1>1, <1>2, <1>3

\* Returning, like being dropped, gives every guard back.
LEMMA AnswerKeepsExclusion ==
    ASSUME TypeOK, LockExclusion, NEW t \in Tasks, NEW r, Answer(t, r)
    PROVE  LockExclusion'
  <1>1. Goto(t, "idle")
    BY DEF Answer, Goto
  <1>2. Holds("idle") = {}
    BY DEF Holds
  <1> QED
    BY <1>1, <1>2, MoveKeepsExclusion

\* A step that writes no total, and after which the tasks about to store are some
\* of those that were, keeps both facts about the limit.
LEMMA TotalsUnchanged ==
    ASSUME CheckStillValid, QuotaRespected, UNCHANGED agent_allocations,
           \A u \in Tasks : pc'[u] = "allocate_store" =>
              pc[u] = "allocate_store" /\ req'[u] = req[u]
    PROVE  CheckStillValid' /\ QuotaRespected'
  BY DEF CheckStillValid, QuotaRespected, Total

-----------------------------------------------------------------------------
\* Beginning a call: a new control point that holds nothing yet.
LEMMA BeginStep ==
    ASSUME IInv, NEW t \in Tasks, NEW kind, NEW point \in Points, NEW r \in Requests,
           Begin(t, kind, point, r), Holds(point) = {}, point # "allocate_store"
    PROVE  IInv'
  <1> USE DEF IInv
  <1>1. TypeOK'
    BY Defaults DEF Begin, Goto, TypeOK, Requests
  <1>2. LockExclusion'
    BY MoveKeepsExclusion DEF Begin
  <1>3. CheckStillValid' /\ QuotaRespected'
    <2>1. \A u \in Tasks : pc'[u] = "allocate_store" =>
             pc[u] = "allocate_store" /\ req'[u] = req[u]
      BY DEF Begin, Goto, TypeOK
    <2> QED
      BY <2>1, TotalsUnchanged DEF Begin
  <1> QED
    BY <1>1, <1>2, <1>3

\* The four ways a call begins.
LEMMA StartStep == ASSUME IInv, NEW t \in Tasks, Start(t) PROVE IInv'
  <1>1. ASSUME BeginAllocate(t) PROVE IInv'
    <2>1. PICK a \in Agents, tb \in Sizes, d \in Durations :
             Begin(t, "allocate", "allocate_totals",
                   [NoReq EXCEPT !.agent = a, !.tb = tb, !.duration = d])
      BY <1>1 DEF BeginAllocate
    <2>2. [NoReq EXCEPT !.agent = a, !.tb = tb, !.duration = d] \in Requests
      BY Defaults, AllocationAssumption DEF Requests
    <2> QED
      BY <2>1, <2>2, BeginStep DEF Holds, Points
  <1>2. ASSUME BeginFree(t) PROVE IInv'
    <2>1. PICK id \in Ids : Begin(t, "free", "free_store", [NoReq EXCEPT !.id = id])
      BY <1>2 DEF BeginFree
    <2>2. [NoReq EXCEPT !.id = id] \in Requests
      BY Defaults DEF Requests
    <2> QED
      BY <2>1, <2>2, BeginStep DEF Holds, Points
  <1>3. ASSUME BeginRoute(t) PROVE IInv'
    <2>1. PICK tb \in Sizes : Begin(t, "route", "route_totals", [NoReq EXCEPT !.tb = tb])
      BY <1>3 DEF BeginRoute
    <2>2. [NoReq EXCEPT !.tb = tb] \in Requests
      BY Defaults, AllocationAssumption DEF Requests
    <2> QED
      BY <2>1, <2>2, BeginStep DEF Holds, Points
  <1>4. ASSUME BeginStatus(t) PROVE IInv'
    <2>1. PICK a \in Agents :
             \E r \in Requests : Begin(t, "status", "status_store", r)
      <3>1. \A a \in Agents : [NoReq EXCEPT !.agent = a] \in Requests
        BY Defaults DEF Requests
      <3>2. ASSUME NEW a \in Agents, NEW id \in Ids
            PROVE  [NoReq EXCEPT !.agent = a, !.id = id, !.every = FALSE] \in Requests
        BY Defaults DEF Requests
      <3> QED
        BY <1>4, <3>1, <3>2 DEF BeginStatus
    <2> QED
      BY <2>1, BeginStep DEF Holds, Points
  <1> QED
    BY <1>1, <1>2, <1>3, <1>4 DEF Start

\* Answering without touching the totals (a refusal, a lookup, a disconnect).
LEMMA AnswerStep ==
    ASSUME IInv, NEW t \in Tasks, NEW r, Answer(t, r),
           r.call \in CallNames \cup {"none"}, r.agent \in Agents,
           UNCHANGED <<allocations, agent_allocations, used>>
    PROVE  IInv'
  <1> USE DEF IInv
  <1>1. TypeOK'
    BY Defaults DEF Answer, TypeOK, Requests
  <1>2. LockExclusion'
    BY AnswerKeepsExclusion
  <1>3. CheckStillValid' /\ QuotaRespected'
    <2>1. \A u \in Tasks : pc'[u] = "allocate_store" =>
             pc[u] = "allocate_store" /\ req'[u] = req[u]
      BY DEF Answer, TypeOK
    <2> QED
      BY <2>1, TotalsUnchanged
  <1> QED
    BY <1>1, <1>2, <1>3

\* A disconnect.
LEMMA CancelStep == ASSUME IInv, NEW t \in Tasks, Cancel(t) PROVE IInv'
  BY AnswerStep, Defaults DEF Cancel

\* The totals an agent starts from are a u64 either way.
LEMMA TotalType == ASSUME TypeOK, NEW a PROVE Total(a) \in 0..(U64 - 1)
  BY AllocationAssumption DEF TypeOK, Total

\* The limit check: a refusal, or a check that is valid when the guard is kept.
LEMMA AllocateCheckStep == ASSUME IInv, NEW t \in Tasks, AllocateCheck(t) PROVE IInv'
  <1> DEFINE over == (Total(req[t].agent) + req[t].tb) % U64 > MaxTb
  <1>1. CASE over
    <2>1. Answer(t, [NoReply EXCEPT !.call = "allocate"])
      BY <1>1 DEF AllocateCheck
    <2> QED
      BY <2>1, AnswerStep, Defaults DEF AllocateCheck, NoReply, CallNames
  <1>2. CASE ~over
    <2>0. /\ Goto(t, "allocate_store") /\ At(t, "allocate_totals")
          /\ UNCHANGED <<allocations, agent_allocations, used, req, reply>>
      BY <1>2 DEF AllocateCheck
    <2>1. TypeOK'
      BY <2>0 DEF Goto, IInv, TypeOK, Points
    <2>2. LockExclusion'
      BY <2>0, MoveKeepsExclusion DEF IInv, Holds, At, Acquires, Write
    <2>3. CheckStillValid'
      <3>1. (Total(req[t].agent) + req[t].tb) % U64 <= MaxTb
        <4>1. req[t].tb \in Int /\ Total(req[t].agent) \in Int
          BY TotalType, AllocationAssumption DEF IInv, TypeOK
        <4> QED
          BY <1>2, <4>1, AllocationAssumption
      <3> QED
        BY <3>1, <2>0 DEF Goto, IInv, TypeOK, CheckStillValid, Total
    <2>4. QuotaRespected'
      BY <2>0 DEF IInv, QuotaRespected
    <2> QED
      BY <2>1, <2>2, <2>3, <2>4 DEF IInv
  <1> QED
    BY <1>1, <1>2

\* While a task may write the totals no other task is about to store.
LEMMA OnlyWriter ==
    ASSUME LockExclusion, NEW t \in Tasks, NEW u \in Tasks, u # t,
           \/ pc[t] = "allocate_store"
           \/ At(t, "free_totals")
    PROVE  pc[u] # "allocate_store"
  <1>1. CASE pc[t] = "allocate_store"
    BY <1>1 DEF LockExclusion, Holds, Write, Compatible
  <1>2. CASE At(t, "free_totals")
    BY <1>2 DEF At, Holds, Acquires, Write, Compatible
  <1> QED
    BY <1>1, <1>2

\* The store: the only step that raises a total, by what the check allowed.
LEMMA AllocateStoreStep == ASSUME IInv, NEW t \in Tasks, AllocateStore(t) PROVE IInv'
  <1> DEFINE a == req[t].agent
             total == (Total(a) + req[t].tb) % U64
  <1>0. /\ pc[t] = "allocate_store"
        /\ agent_allocations' = Put(agent_allocations, a, total)
        /\ pc' = [pc EXCEPT ![t] = "idle"] /\ req' = [req EXCEPT ![t] = NoReq]
    BY DEF AllocateStore, At, Answer
  <1>1. a \in Agents /\ total \in 0..(U64 - 1) /\ total <= MaxTb
    <2>1. req[t].tb \in Int /\ Total(a) \in Int /\ a \in Agents
      BY TotalType, AllocationAssumption DEF IInv, TypeOK
    <2>2. total <= MaxTb
      BY <1>0 DEF IInv, CheckStillValid
    <2> QED
      BY <2>1, <2>2, AllocationAssumption
  <1>2. TypeOK'
    <2>1. PICK id \in Ids \ used :
             /\ allocations' = Put(allocations, id,
                   [agent |-> a, allocated_tb |-> req[t].tb, duration |-> req[t].duration,
                    expires_in |-> IF req[t].duration > 0 THEN req[t].duration ELSE DayMs])
             /\ used' = used \cup {id}
      BY DEF AllocateStore
    <2>2. /\ req[t] \in Requests
      BY DEF IInv, TypeOK, Requests
    <2>3. allocations' \in [DOMAIN allocations' -> Record] /\ DOMAIN allocations' \subseteq used'
      BY <2>1, <2>2, AllocationAssumption DEF IInv, TypeOK, Put, Record, Requests
    <2>4. /\ DOMAIN agent_allocations' \subseteq Agents
          /\ agent_allocations' \in [DOMAIN agent_allocations' -> 0..(U64 - 1)]
      BY <1>0, <1>1 DEF IInv, TypeOK, Put
    <2>5. /\ DOMAIN reply' = Tasks
          /\ \A u \in Tasks : /\ reply'[u].call \in CallNames \cup {"none"}
                              /\ reply'[u].agent \in Agents
      BY <1>1 DEF AllocateStore, Answer, IInv, TypeOK, CallNames
    <2> QED
      BY <1>0, <2>1, <2>3, <2>4, <2>5, Defaults DEF IInv, TypeOK, Requests
  <1>3. LockExclusion'
    BY AnswerKeepsExclusion DEF IInv, AllocateStore
  <1>4. CheckStillValid'
    <2>1. \A u \in Tasks : pc'[u] # "allocate_store"
      BY <1>0, OnlyWriter DEF IInv, TypeOK
    <2> QED
      BY <2>1 DEF CheckStillValid
  <1>5. QuotaRespected'
    BY <1>0, <1>1 DEF IInv, QuotaRespected, Put
  <1> QED
    BY <1>2, <1>3, <1>4, <1>5 DEF IInv

\* The removal of a record: the totals are untouched.
LEMMA FreeRemoveStep == ASSUME IInv, NEW t \in Tasks, FreeRemove(t) PROVE IInv'
  <1> DEFINE id == req[t].id
  <1>1. CASE id \notin DOMAIN allocations
    <2>1. Answer(t, [NoReply EXCEPT !.call = "free"])
      BY <1>1 DEF FreeRemove
    <2> QED
      BY <1>1, <2>1, AnswerStep, Defaults DEF FreeRemove, NoReply, CallNames
  <1>2. CASE id \in DOMAIN allocations
    <2>0. /\ At(t, "free_store") /\ Goto(t, "free_totals")
          /\ req' = [req EXCEPT ![t].agent = allocations[id].agent,
                                ![t].tb = allocations[id].allocated_tb]
          /\ allocations' = [x \in DOMAIN allocations \ {id} |-> allocations[x]]
          /\ UNCHANGED <<agent_allocations, used, reply>>
      BY <1>2 DEF FreeRemove
    <2>1. TypeOK'
      <3>1. allocations[id] \in Record
        BY <1>2 DEF IInv, TypeOK
      <3>2. req' \in [Tasks -> Requests]
        <4>1. req \in [Tasks -> Requests]
          BY DEF IInv, TypeOK, Requests
        <4>2. req' = [req EXCEPT ![t] = [req[t] EXCEPT !.agent = allocations[id].agent,
                                                       !.tb = allocations[id].allocated_tb]]
          BY <2>0, <4>1
        <4>3. [req[t] EXCEPT !.agent = allocations[id].agent,
                             !.tb = allocations[id].allocated_tb] \in Requests
          BY <3>1, <4>1 DEF Record, Requests
        <4> QED
          BY <4>1, <4>2, <4>3
      <3>3. /\ DOMAIN allocations' \subseteq used'
            /\ allocations' \in [DOMAIN allocations' -> Record]
        BY <2>0 DEF IInv, TypeOK
      <3>4. pc' \in [Tasks -> Points \cup {"idle"}]
        BY <2>0 DEF IInv, TypeOK, Goto, Points
      <3> QED
        BY <2>0, <3>2, <3>3, <3>4 DEF IInv, TypeOK, Requests
    <2>2. LockExclusion'
      BY <2>0, MoveKeepsExclusion DEF IInv, Holds, At, Acquires, Write
    <2>3. CheckStillValid' /\ QuotaRespected'
      <3>1. \A u \in Tasks : pc'[u] = "allocate_store" =>
               pc[u] = "allocate_store" /\ req'[u] = req[u]
        BY <2>0 DEF Goto, IInv, TypeOK
      <3> QED
        BY <2>0, <3>1, TotalsUnchanged DEF IInv
    <2> QED
      BY <2>1, <2>2, <2>3 DEF IInv
  <1> QED
    BY <1>1, <1>2

\* The subtraction: a total can only go down, and nobody is between check and store.
LEMMA FreeTotalStep == ASSUME IInv, NEW t \in Tasks, FreeTotal(t) PROVE IInv'
  <1> DEFINE a == req[t].agent
             left == saturating_sub(agent_allocations[a], req[t].tb)
  <1>0. /\ At(t, "free_totals")
        /\ Answer(t, [call |-> "free", ok |-> TRUE, agent |-> a, tb |-> req[t].tb])
        /\ UNCHANGED <<allocations, used>>
    BY DEF FreeTotal
  <1>1. /\ DOMAIN agent_allocations' = DOMAIN agent_allocations
        /\ \A x \in DOMAIN agent_allocations :
              agent_allocations'[x] \in 0..agent_allocations[x]
        /\ agent_allocations' \in [DOMAIN agent_allocations -> 0..(U64 - 1)]
    <2>1. CASE a \in DOMAIN agent_allocations
      <3>1. agent_allocations[a] \in 0..(U64 - 1) /\ req[t].tb \in Nat
        BY <2>1, AllocationAssumption DEF IInv, TypeOK
      <3>2. left \in 0..agent_allocations[a]
        BY <3>1, AllocationAssumption DEF saturating_sub
      <3>3. agent_allocations' = [agent_allocations EXCEPT ![a] = left]
        BY <2>1 DEF FreeTotal
      <3>4. left \in 0..(U64 - 1)
        BY <3>1, <3>2, AllocationAssumption
      <3>5. agent_allocations \in [DOMAIN agent_allocations -> 0..(U64 - 1)]
        BY DEF IInv, TypeOK
      <3> HIDE DEF left
      <3> QED
        BY <2>1, <3>2, <3>3, <3>4, <3>5, AllocationAssumption
    <2>2. CASE a \notin DOMAIN agent_allocations
      BY <2>2, AllocationAssumption DEF FreeTotal, IInv, TypeOK
    <2> QED
      BY <2>1, <2>2
  <1>2. TypeOK'
    <2>1. a \in Agents
      BY DEF IInv, TypeOK
    <2> QED
      BY <1>0, <1>1, <2>1, Defaults DEF Answer, IInv, TypeOK, Requests, CallNames
  <1>3. LockExclusion'
    BY <1>0, AnswerKeepsExclusion DEF IInv
  <1>4. CheckStillValid'
    <2>1. \A u \in Tasks : pc'[u] # "allocate_store"
      BY <1>0, OnlyWriter DEF IInv, TypeOK, Answer
    <2> QED
      BY <2>1 DEF CheckStillValid
  <1>5. QuotaRespected'
    BY <1>1, AllocationAssumption DEF IInv, TypeOK, QuotaRespected
  <1> QED
    BY <1>2, <1>3, <1>4, <1>5 DEF IInv

\* A routing answer names an agent that is known.
LEMMA RouteStep == ASSUME IInv, NEW t \in Tasks, Route(t) PROVE IInv'
  <1>1. PICK r : /\ Answer(t, r)
                 /\ r.call \in CallNames \cup {"none"} /\ r.agent \in Agents
    <2> DEFINE fits == {a \in DOMAIN agent_allocations :
                           available(a) >= req[t].tb /\ available(a) > 0}
    <2>1. CASE fits = {}
      <3>1. Answer(t, [NoReply EXCEPT !.call = "route"])
        BY <2>1 DEF Route
      <3> QED
        BY <3>1, Defaults DEF NoReply, CallNames
    <2>2. CASE fits # {}
      <3>1. PICK best \in fits : Answer(t, [call |-> "route", ok |-> TRUE, agent |-> best,
                                            tb |-> available(best)])
        BY <2>2 DEF Route
      <3>2. best \in Agents
        BY DEF IInv, TypeOK
      <3> QED
        BY <3>1, <3>2 DEF CallNames
    <2> QED
      BY <2>1, <2>2
  <1> QED
    BY <1>1, AnswerStep DEF Route

\* A status answer changes nothing but the reply.
LEMMA StatusStep == ASSUME IInv, NEW t \in Tasks, StatusLock(t) \/ Status(t) PROVE IInv'
  <1>1. CASE StatusLock(t)
    <2>0. /\ At(t, "status_store") /\ Goto(t, "status_totals")
          /\ UNCHANGED <<allocations, agent_allocations, used, req, reply>>
      BY <1>1 DEF StatusLock
    <2>1. TypeOK'
      BY <2>0 DEF Goto, IInv, TypeOK, Points
    <2>2. LockExclusion'
      BY <2>0, MoveKeepsExclusion DEF IInv, Holds, At, Acquires, Read
    <2>3. CheckStillValid' /\ QuotaRespected'
      <3>1. \A u \in Tasks : pc'[u] = "allocate_store" =>
               pc[u] = "allocate_store" /\ req'[u] = req[u]
        BY <2>0 DEF Goto, IInv, TypeOK
      <3> QED
        BY <2>0, <3>1, TotalsUnchanged DEF IInv
    <2> QED
      BY <2>1, <2>2, <2>3 DEF IInv
  <1>2. CASE Status(t)
    BY <1>2, AnswerStep DEF Status, IInv, TypeOK, CallNames
  <1> QED
    BY <1>1, <1>2

\* No step of any task, and no disconnect, breaks the invariant.
LEMMA StepInv == ASSUME IInv, [Next]_vars PROVE IInv'
  <1>1. ASSUME NEW t \in Tasks, Proceed(t) PROVE IInv'
    BY <1>1, AllocateCheckStep, AllocateStoreStep, FreeRemoveStep, FreeTotalStep,
       RouteStep, StatusStep DEF Proceed
  <1>2. CASE UNCHANGED vars
    BY <1>2 DEF vars, IInv, TypeOK, LockExclusion, CheckStillValid, QuotaRespected, Total
  <1> QED
    BY <1>1, <1>2, StartStep, CancelStep DEF Next

\* The inductive invariant holds in every reachable state.
LEMMA Invariance == Spec => []IInv
  <1> QED
    BY InitInv, StepInv, PTL DEF Spec

\* The types of the service's state hold in every state.
THEOREM TypeCorrect == Spec => []TypeOK
  BY Invariance, PTL DEF IInv

\* No two handlers ever hold conflicting guards.
THEOREM MutualExclusion == Spec => []LockExclusion
  BY Invariance, PTL DEF IInv

\* The limit check of allocate_memory is never stale when its record is stored.
THEOREM CheckNeverStale == Spec => []CheckStillValid
  BY Invariance, PTL DEF IInv

\* No agent's total ever exceeds max_allocation_per_agent_tb, for any number of
\* concurrent and abandoned calls and even if the sum of the check wraps.
THEOREM QuotaSafety == Spec => []QuotaRespected
  BY Invariance, PTL DEF IInv

-----------------------------------------------------------------------------
\* The totals are exact.  That the total is the sum of the records, of what is
\* being freed and of what has leaked is inductive with two facts beside it: the
\* records are finitely many, and the request of an allocation in progress is one
\* a client made.  It holds as long as the addition of the limit check does not
\* wrap around u64, which is a fact about the sizes asked for.
NoWrap == \A tb \in Sizes : MaxTb + tb < U64

Accounting ==
    /\ IsFiniteSet(used)
    /\ leaked \in [Agents -> Nat]
    /\ \A t \in Tasks : pc[t] \in {"allocate_totals", "allocate_store"} =>
                           req[t].tb \in Sizes
    /\ TotalsMatchRecords

\* The sums of the account are natural numbers.
LEMMA StoredType ==
    ASSUME TypeOK, IsFiniteSet(used), NEW a
    PROVE  /\ IsFiniteSet(RecordsOf(a))
           /\ \A id \in DOMAIN allocations : SizeOf[id] \in Nat
           /\ Stored(a) \in Nat
  <1>1. IsFiniteSet(RecordsOf(a))
    BY FS_Subset DEF TypeOK, RecordsOf
  <1>2. \A id \in DOMAIN allocations : SizeOf[id] \in Nat
    BY AllocationAssumption DEF TypeOK, SizeOf, Record
  <1> QED
    BY <1>1, <1>2, SumNat DEF Stored, RecordsOf

\* The calls that have removed a record and still owe the total, and their sizes.
LEMMA BeingFreedType ==
    ASSUME TypeOK, NEW a
    PROVE  /\ IsFiniteSet(Freeing(a))
           /\ \A t \in Tasks : req[t].tb \in Nat
           /\ BeingFreed(a) \in Nat
  <1>1. IsFiniteSet(Freeing(a))
    BY AllocationAssumption, FS_Subset DEF Freeing
  <1>2. \A t \in Tasks : req[t].tb \in Nat
    BY AllocationAssumption DEF TypeOK
  <1> QED
    BY <1>1, <1>2, SumNat DEF BeingFreed, Freeing

\* What is being freed, when the same tasks are freeing the same records.
LEMMA FreeingSame ==
    ASSUME TypeOK, NEW a,
           \A u \in Tasks : pc'[u] = "free_totals" <=> pc[u] = "free_totals",
           \A u \in Tasks : pc[u] = "free_totals" => req'[u] = req[u]
    PROVE  BeingFreed(a)' = BeingFreed(a)
  <1> DEFINE f == [t \in Tasks |-> req[t].tb]
             g == [t \in Tasks |-> req'[t].tb]
  <1>1. Freeing(a)' = Freeing(a)
    BY DEF Freeing
  <1>2. IsFiniteSet(Freeing(a)) /\ \A u \in Freeing(a) : g[u] = f[u]
    BY BeingFreedType DEF Freeing
  <1>3. SumFunctionOnSet(g, Freeing(a)) = SumFunctionOnSet(f, Freeing(a))
    <2> HIDE DEF f, g
    <2> QED
      BY <1>2, SumAgree
  <1> QED
    BY <1>1, <1>3 DEF BeingFreed

\* What is being freed, when a task has taken its record off or has vanished.
LEMMA FreeingLess ==
    ASSUME TypeOK, NEW t \in Tasks, pc[t] = "free_totals", pc'[t] # "free_totals",
           \A u \in Tasks \ {t} : pc'[u] = pc[u] /\ req'[u] = req[u], NEW a
    PROVE  /\ a = req[t].agent => BeingFreed(a) = req[t].tb + BeingFreed(a)'
           /\ a # req[t].agent => BeingFreed(a) = BeingFreed(a)'
           /\ BeingFreed(a)' \in Int
  <1> DEFINE f == [u \in Tasks |-> req[u].tb]
             g == [u \in Tasks |-> req'[u].tb]
  <1>1. Freeing(a)' = Freeing(a) \ {t}
    BY DEF Freeing
  <1>2. IsFiniteSet(Freeing(a)) /\ \A u \in Freeing(a) : f[u] \in Int
    BY BeingFreedType DEF Freeing
  <1>3. \A u \in Freeing(a) \ {t} : g[u] = f[u]
    BY DEF Freeing
  <1>4. CASE a = req[t].agent
    <2>1. t \in Freeing(a)
      BY <1>4 DEF Freeing
    <2>2. /\ SumFunctionOnSet(f, Freeing(a)) = f[t] + SumFunctionOnSet(g, Freeing(a) \ {t})
          /\ SumFunctionOnSet(g, Freeing(a) \ {t}) \in Int
      <3> HIDE DEF f, g
      <3> QED
        BY <1>2, <1>3, <2>1, SumLeaves
    <2> QED
      BY <1>1, <1>4, <2>2 DEF BeingFreed
  <1>5. CASE a # req[t].agent
    <2>1. Freeing(a) \ {t} = Freeing(a)
      BY <1>5 DEF Freeing
    <2>2. SumFunctionOnSet(g, Freeing(a)) = SumFunctionOnSet(f, Freeing(a))
      <3> HIDE DEF f, g
      <3> QED
        BY <1>2, <1>3, <2>1, SumAgree
    <2>3. BeingFreed(a)' = BeingFreed(a)
      BY <1>1, <2>1, <2>2 DEF BeingFreed
    <2> QED
      BY <1>5, <2>3, BeingFreedType
  <1> QED
    BY <1>4, <1>5

\* What is being freed, when a task has just removed a record.
LEMMA FreeingMore ==
    ASSUME TypeOK, TypeOK', NEW t \in Tasks, pc[t] # "free_totals", pc'[t] = "free_totals",
           \A u \in Tasks \ {t} : pc'[u] = pc[u] /\ req'[u] = req[u], NEW a
    PROVE  /\ a = req'[t].agent => BeingFreed(a)' = req'[t].tb + BeingFreed(a)
           /\ a # req'[t].agent => BeingFreed(a)' = BeingFreed(a)
  <1> DEFINE f == [u \in Tasks |-> req'[u].tb]
             g == [u \in Tasks |-> req[u].tb]
             S == Freeing(a)'
  <1>1. Freeing(a) = S \ {t}
    BY DEF Freeing
  <1>2. IsFiniteSet(S) /\ \A u \in S : f[u] \in Int
    <2>1. S \subseteq Tasks /\ \A u \in Tasks : req'[u].tb \in Nat
      BY AllocationAssumption DEF Freeing, TypeOK
    <2> QED
      BY <2>1, AllocationAssumption, FS_Subset
  <1>3. \A u \in S \ {t} : g[u] = f[u]
    BY DEF Freeing
  <1>4. CASE a = req'[t].agent
    <2>1. t \in S
      BY <1>4 DEF Freeing
    <2>2. SumFunctionOnSet(f, S) = f[t] + SumFunctionOnSet(g, S \ {t})
      <3> HIDE DEF f, g, S
      <3>1. SumFunctionOnSet(f, S) = f[t] + SumFunctionOnSet(f, S \ {t})
        BY <1>2, <2>1, SumRemove
      <3>2. IsFiniteSet(S \ {t}) /\ \A u \in S \ {t} : f[u] \in Int
        BY <1>2, FS_RemoveElement
      <3>3. SumFunctionOnSet(g, S \ {t}) = SumFunctionOnSet(f, S \ {t})
        BY <1>3, <3>2, SumAgree
      <3> QED
        BY <3>1, <3>3
    <2> QED
      BY <1>1, <1>4, <2>2 DEF BeingFreed
  <1>5. CASE a # req'[t].agent
    <2>1. S = Freeing(a)
      BY <1>1, <1>5 DEF Freeing
    <2>2. SumFunctionOnSet(g, S) = SumFunctionOnSet(f, S)
      <3> HIDE DEF f, g
      <3> QED
        BY <1>2, <1>3, <1>1, <2>1, SumAgree
    <2> QED
      BY <1>5, <2>1, <2>2 DEF BeingFreed
  <1> QED
    BY <1>4, <1>5

\* An agent's records, when one has been added under a new id.
LEMMA StoredMore ==
    ASSUME TypeOK, IsFiniteSet(used), NEW id, id \notin DOMAIN allocations,
           NEW r \in Record, allocations' = Put(allocations, id, r), NEW a
    PROVE  /\ a = r.agent => Stored(a)' = r.allocated_tb + Stored(a)
           /\ a # r.agent => Stored(a)' = Stored(a)
  <1> DEFINE f == [x \in DOMAIN allocations' |-> allocations'[x].allocated_tb]
             g == SizeOf
             S == RecordsOf(a)'
  <1>1. RecordsOf(a) = S \ {id}
    BY DEF RecordsOf, Put
  <1>2. /\ DOMAIN allocations' = DOMAIN allocations \cup {id}
        /\ f[id] = r.allocated_tb
        /\ \A x \in DOMAIN allocations : f[x] = g[x] /\ g[x] \in Int
        /\ f[id] \in Int
    BY StoredType, AllocationAssumption DEF SizeOf, Put, Record
  <1>3. IsFiniteSet(S)
    <2>1. S \subseteq RecordsOf(a) \cup {id}
      BY <1>1
    <2> QED
      BY <2>1, StoredType, FS_AddElement, FS_Subset
  <1>4. CASE a = r.agent
    <2>1. id \in S
      BY <1>4 DEF RecordsOf, Put
    <2>2. /\ \A x \in S : f[x] \in Int
          /\ \A x \in S \ {id} : g[x] = f[x]
      BY <1>1, <1>2 DEF RecordsOf
    <2>3. SumFunctionOnSet(f, S) = f[id] + SumFunctionOnSet(g, S \ {id})
      <3> HIDE DEF f, g, S
      <3>1. SumFunctionOnSet(f, S) = f[id] + SumFunctionOnSet(f, S \ {id})
        BY <1>3, <2>1, <2>2, SumRemove
      <3>2. SumFunctionOnSet(f, S \ {id}) = SumFunctionOnSet(g, S \ {id})
        <4>1. IsFiniteSet(S \ {id})
          BY <1>3, FS_Subset
        <4> QED
          BY <2>2, <4>1, SumAgree
      <3> QED
        BY <3>1, <3>2
    <2> QED
      BY <1>1, <1>2, <1>4, <2>3 DEF Stored, SizeOf
  <1>5. CASE a # r.agent
    <2>1. S = RecordsOf(a)
      BY <1>5, <1>1 DEF RecordsOf, Put
    <2>2. \A x \in RecordsOf(a) : g[x] = f[x]
      BY <1>2 DEF RecordsOf
    <2>3. SumFunctionOnSet(f, RecordsOf(a)) = SumFunctionOnSet(g, RecordsOf(a))
      <3> HIDE DEF f, g
      <3> QED
        BY <2>2, StoredType, SumAgree
    <2> QED
      BY <1>5, <2>1, <2>3 DEF Stored, SizeOf
  <1> QED
    BY <1>4, <1>5

\* An agent's records, when one has been removed.
LEMMA StoredLess ==
    ASSUME TypeOK, IsFiniteSet(used), NEW id \in DOMAIN allocations,
           allocations' = [x \in DOMAIN allocations \ {id} |-> allocations[x]], NEW a
    PROVE  /\ a = allocations[id].agent =>
                 Stored(a) = allocations[id].allocated_tb + Stored(a)'
           /\ a # allocations[id].agent => Stored(a) = Stored(a)'
           /\ Stored(a)' \in Int
  <1> DEFINE f == SizeOf
             g == SizeOf'
  <1>1. RecordsOf(a)' = RecordsOf(a) \ {id}
    BY DEF RecordsOf
  <1>2. /\ \A x \in DOMAIN allocations : f[x] \in Int
        /\ f[id] = allocations[id].allocated_tb
        /\ \A x \in DOMAIN allocations \ {id} : g[x] = f[x]
    BY StoredType DEF SizeOf
  <1>3. IsFiniteSet(RecordsOf(a)) /\ RecordsOf(a) \subseteq DOMAIN allocations
    BY StoredType DEF RecordsOf
  <1>4. CASE a = allocations[id].agent
    <2>1. id \in RecordsOf(a)
      BY <1>4 DEF RecordsOf
    <2>2. /\ SumFunctionOnSet(f, RecordsOf(a)) = f[id] + SumFunctionOnSet(g, RecordsOf(a) \ {id})
          /\ SumFunctionOnSet(g, RecordsOf(a) \ {id}) \in Int
      <3> HIDE DEF f, g
      <3> QED
        BY <1>2, <1>3, <2>1, SumLeaves
    <2> QED
      BY <1>1, <1>2, <1>4, <2>2 DEF Stored
  <1>5. CASE a # allocations[id].agent
    <2>1. RecordsOf(a)' = RecordsOf(a) /\ id \notin RecordsOf(a)
      BY <1>5, <1>1 DEF RecordsOf
    <2>2. \A x \in RecordsOf(a) : f[x] = g[x]
      BY <1>2, <1>3, <2>1
    <2>3. SumFunctionOnSet(f, RecordsOf(a)) = SumFunctionOnSet(g, RecordsOf(a))
      <3> HIDE DEF f, g
      <3> QED
        BY <1>3, <2>2, SumAgree
    <2> QED
      BY <1>5, <2>1, <2>3, StoredType DEF Stored
  <1> QED
    BY <1>4, <1>5

-----------------------------------------------------------------------------
\* Nothing is recorded, freed or leaked at the start.
LEMMA AccountInit == Init => Accounting
  <1> SUFFICES ASSUME Init PROVE Accounting
    OBVIOUS
  <1>1. IsFiniteSet(used)
    BY FS_EmptySet DEF Init
  <1>2. leaked \in [Agents -> Nat]
    BY DEF Init
  <1>3. ASSUME NEW a \in Agents
        PROVE  Total(a) = Stored(a) + BeingFreed(a) + leaked[a]
    <2>1. RecordsOf(a) = {} /\ Freeing(a) = {}
      BY DEF Init, RecordsOf, Freeing
    <2>2. Stored(a) = 0 /\ BeingFreed(a) = 0
      BY <2>1, SumEmpty DEF Stored, BeingFreed
    <2>3. Total(a) = 0 /\ leaked[a] = 0
      BY DEF Init, Total
    <2> QED
      BY <2>2, <2>3
  <1>4. \A t \in Tasks : pc[t] = "idle"
    BY DEF Init
  <1> QED
    BY <1>1, <1>2, <1>3, <1>4 DEF Accounting, TotalsMatchRecords

\* A step that moves no storage: the maps, the leak and the releases in progress
\* are what they were.
LEMMA AccountSame ==
    ASSUME TypeOK, Accounting, UNCHANGED <<allocations, agent_allocations, used, leaked>>,
           \A u \in Tasks : pc'[u] = "free_totals" <=> pc[u] = "free_totals",
           \A u \in Tasks : pc[u] = "free_totals" => req'[u] = req[u],
           \A u \in Tasks : pc'[u] \in {"allocate_totals", "allocate_store"} =>
                               req'[u].tb \in Sizes
    PROVE  Accounting'
  <1>1. \A a : BeingFreed(a)' = BeingFreed(a)
    BY FreeingSame
  <1>2. \A a : Stored(a)' = Stored(a) /\ Total(a)' = Total(a)
    BY DEF Stored, Total, RecordsOf, SizeOf
  <1> QED
    BY <1>1, <1>2 DEF Accounting, TotalsMatchRecords

\* Beginning a call moves no storage, and an allocation begins with a client's size.
LEMMA AccountStart ==
    ASSUME IInv, Accounting, NEW t \in Tasks, Start(t)
    PROVE  Accounting'
  <1>1. \E point \in Points : \E r :
           /\ pc[t] = "idle" /\ Goto(t, point) /\ point # "free_totals"
           /\ req' = [req EXCEPT ![t] = r]
           /\ point \in {"allocate_totals", "allocate_store"} => r.tb \in Sizes
           /\ UNCHANGED <<allocations, agent_allocations, used, leaked>>
    <2>1. CASE BeginAllocate(t)
      <3>1. PICK a \in Agents, tb \in Sizes, d \in Durations :
               Begin(t, "allocate", "allocate_totals",
                     [NoReq EXCEPT !.agent = a, !.tb = tb, !.duration = d])
        BY <2>1 DEF BeginAllocate
      <3>2. [NoReq EXCEPT !.agent = a, !.tb = tb, !.duration = d].tb = tb
        BY DEF NoReq
      <3> QED
        BY <3>1, <3>2 DEF Begin, Points
    <2>2. CASE BeginFree(t)
      BY <2>2 DEF BeginFree, Begin, Points
    <2>3. CASE BeginRoute(t)
      BY <2>3 DEF BeginRoute, Begin, Points
    <2>4. CASE BeginStatus(t)
      BY <2>4 DEF BeginStatus, Begin, Points
    <2> QED
      BY <2>1, <2>2, <2>3, <2>4 DEF Start
  <1> QED
    BY <1>1, AccountSame DEF IInv, TypeOK, Goto, Accounting

\* Answering moves no storage when no release is given up.
LEMMA AccountAnswer ==
    ASSUME TypeOK, Accounting, NEW t \in Tasks, NEW r, Answer(t, r), pc[t] # "free_totals",
           UNCHANGED <<allocations, agent_allocations, used, leaked>>
    PROVE  Accounting'
  BY AccountSame DEF TypeOK, Answer, Accounting

\* The store: as much is added to the records as to the total, which does not wrap.
LEMMA AccountStore ==
    ASSUME NoWrap, IInv, Accounting, NEW t \in Tasks, AllocateStore(t)
    PROVE  Accounting'
  <1> DEFINE agent == req[t].agent
             tb == req[t].tb
             record == [agent |-> agent, allocated_tb |-> tb, duration |-> req[t].duration,
                        expires_in |-> IF req[t].duration > 0 THEN req[t].duration ELSE DayMs]
  <1>1. PICK id \in Ids \ used :
           allocations' = Put(allocations, id, record) /\ used' = used \cup {id}
    BY DEF AllocateStore
  <1>2. /\ pc[t] = "allocate_store"
        /\ agent_allocations' = Put(agent_allocations, agent, (Total(agent) + tb) % U64)
        /\ pc' = [pc EXCEPT ![t] = "idle"] /\ req' = [req EXCEPT ![t] = NoReq]
        /\ leaked' = leaked
    BY DEF AllocateStore, At, Answer
  <1>3. TypeOK /\ agent \in Agents /\ tb \in Nat /\ record \in Record /\ tb \in Sizes
    BY <1>2, AllocationAssumption DEF IInv, TypeOK, Record, Accounting
  <1>4. (Total(agent) + tb) % U64 = Total(agent) + tb
    <2>1. Total(agent) \in 0..MaxTb
      BY <1>3, AllocationAssumption DEF IInv, TypeOK, QuotaRespected, Total
    <2>2. MaxTb + tb < U64 /\ MaxTb \in Nat /\ U64 \in Nat
      BY <1>3, AllocationAssumption DEF NoWrap
    <2>3. Total(agent) + tb \in 0..(U64 - 1)
      BY <1>3, <2>1, <2>2
    <2> QED
      BY <2>2, <2>3
  <1>5. \A a : BeingFreed(a)' = BeingFreed(a)
    BY <1>2, <1>3, FreeingSame DEF TypeOK
  <1>6. \A a : /\ a = agent => Stored(a)' = tb + Stored(a)
               /\ a # agent => Stored(a)' = Stored(a)
    <2>1. IsFiniteSet(used) /\ id \notin DOMAIN allocations
      BY DEF Accounting, IInv, TypeOK
    <2>2. record.agent = agent /\ record.allocated_tb = tb
      OBVIOUS
    <2> HIDE DEF record, agent, tb
    <2> QED
      BY <1>1, <1>3, <2>1, <2>2, StoredMore
  <1>7. \A a : /\ a = agent => Total(a)' = Total(a) + tb
               /\ a # agent => Total(a)' = Total(a)
    BY <1>2, <1>4 DEF Total, Put
  <1>8. IsFiniteSet(used')
    BY <1>1, FS_AddElement DEF Accounting
  <1>9. ASSUME NEW a \in Agents
        PROVE  Total(a)' = Stored(a)' + BeingFreed(a)' + leaked'[a]
    <2>1. Stored(a) \in Nat /\ BeingFreed(a) \in Nat /\ leaked[a] \in Nat
      BY <1>3, StoredType, BeingFreedType DEF Accounting
    <2>2. Total(a) = Stored(a) + BeingFreed(a) + leaked[a]
      BY DEF Accounting, TotalsMatchRecords
    <2>3. CASE a = agent
      <3>1. Total(a)' = Total(a) + tb /\ Stored(a)' = tb + Stored(a)
        BY <1>6, <1>7, <2>3
      <3> QED
        BY <1>2, <1>3, <1>5, <2>1, <2>2, <3>1
    <2>4. CASE a # agent
      BY <1>2, <1>5, <1>6, <1>7, <2>2, <2>4
    <2> QED
      BY <2>3, <2>4
  <1>10. \A u \in Tasks : pc'[u] \in {"allocate_totals", "allocate_store"} => req'[u].tb \in Sizes
    BY <1>2, <1>3 DEF TypeOK, Accounting
  <1> QED
    BY <1>2, <1>8, <1>9, <1>10 DEF Accounting, TotalsMatchRecords

\* The removal: what leaves the records is being freed.
LEMMA AccountRemove ==
    ASSUME IInv, IInv', Accounting, NEW t \in Tasks, FreeRemove(t)
    PROVE  Accounting'
  <1> DEFINE id == req[t].id
  <1>1. CASE id \notin DOMAIN allocations
    BY <1>1, AccountAnswer DEF FreeRemove, At, IInv
  <1>2. CASE id \in DOMAIN allocations
    <2>1. /\ pc[t] = "free_store" /\ Goto(t, "free_totals")
          /\ req' = [req EXCEPT ![t].agent = allocations[id].agent,
                                ![t].tb = allocations[id].allocated_tb]
          /\ allocations' = [x \in DOMAIN allocations \ {id} |-> allocations[x]]
          /\ UNCHANGED <<agent_allocations, used, leaked>>
      BY <1>2 DEF FreeRemove, At
    <2>2. /\ pc'[t] = "free_totals"
          /\ req'[t].agent = allocations[id].agent
          /\ req'[t].tb = allocations[id].allocated_tb
          /\ \A u \in Tasks \ {t} : pc'[u] = pc[u] /\ req'[u] = req[u]
      <3>1. DOMAIN pc = Tasks /\ DOMAIN req = Tasks /\ {"agent", "tb"} \subseteq DOMAIN req[t]
        BY DEF IInv, TypeOK
      <3>2. pc' = [pc EXCEPT ![t] = "free_totals"]
        BY <2>1 DEF Goto
      <3> QED
        BY <2>1, <3>1, <3>2
    <2>3. \A a : /\ a = allocations[id].agent =>
                       Stored(a) = allocations[id].allocated_tb + Stored(a)'
                 /\ a # allocations[id].agent => Stored(a) = Stored(a)'
                 /\ Stored(a)' \in Int
      <3> HIDE DEF id
      <3> QED
        BY <1>2, <2>1, StoredLess DEF IInv, Accounting
    <2>4. \A a : /\ a = allocations[id].agent =>
                       BeingFreed(a)' = allocations[id].allocated_tb + BeingFreed(a)
                 /\ a # allocations[id].agent => BeingFreed(a)' = BeingFreed(a)
      BY <2>1, <2>2, FreeingMore DEF IInv
    <2>5. \A a : Total(a)' = Total(a)
      BY <2>1 DEF Total
    <2>6. ASSUME NEW a \in Agents
          PROVE  Total(a)' = Stored(a)' + BeingFreed(a)' + leaked'[a]
      <3>1. Stored(a) \in Nat /\ BeingFreed(a) \in Nat /\ leaked[a] \in Nat
        BY StoredType, BeingFreedType DEF IInv, Accounting
      <3>2. Total(a) = Stored(a) + BeingFreed(a) + leaked[a]
        BY DEF Accounting, TotalsMatchRecords
      <3>3. allocations[id].allocated_tb \in Int
        BY <1>2, AllocationAssumption DEF IInv, TypeOK, Record
      <3>4. CASE a = allocations[id].agent
        <4>1. /\ Stored(a) = allocations[id].allocated_tb + Stored(a)' /\ Stored(a)' \in Int
              /\ BeingFreed(a)' = allocations[id].allocated_tb + BeingFreed(a)
              /\ Total(a)' = Total(a) /\ leaked'[a] = leaked[a]
          BY <2>1, <2>3, <2>4, <2>5, <3>4
        <4> QED
          BY <3>1, <3>2, <3>3, <4>1
      <3>5. CASE a # allocations[id].agent
        BY <2>1, <2>3, <2>4, <2>5, <3>2, <3>5
      <3> QED
        BY <3>4, <3>5
    <2>7. \A u \in Tasks : pc'[u] \in {"allocate_totals", "allocate_store"} => req'[u].tb \in Sizes
      BY <2>1, <2>2 DEF Accounting
    <2> QED
      BY <2>1, <2>6, <2>7 DEF Accounting, TotalsMatchRecords
  <1> QED
    BY <1>1, <1>2

\* The subtraction: the total is at least what is taken off, so nothing saturates.
LEMMA AccountTotal ==
    ASSUME IInv, Accounting, NEW t \in Tasks, FreeTotal(t)
    PROVE  Accounting'
  <1> DEFINE agent == req[t].agent
             tb == req[t].tb
  <1>1. /\ pc[t] = "free_totals"
        /\ pc' = [pc EXCEPT ![t] = "idle"] /\ req' = [req EXCEPT ![t] = NoReq]
        /\ agent_allocations' =
              IF agent \in DOMAIN agent_allocations
              THEN [agent_allocations EXCEPT ![agent] = saturating_sub(@, tb)]
              ELSE agent_allocations
        /\ UNCHANGED <<allocations, used, leaked>>
    BY DEF FreeTotal, At, Answer
  <1>2. TypeOK /\ agent \in Agents /\ tb \in Nat
    BY AllocationAssumption DEF IInv, TypeOK
  <1>3. /\ pc'[t] # "free_totals"
        /\ \A u \in Tasks \ {t} : pc'[u] = pc[u] /\ req'[u] = req[u]
    BY <1>1, <1>2 DEF TypeOK
  <1>4. \A a : /\ a = agent => BeingFreed(a) = tb + BeingFreed(a)'
               /\ a # agent => BeingFreed(a) = BeingFreed(a)'
               /\ BeingFreed(a)' \in Int
    BY <1>1, <1>2, <1>3, FreeingLess
  <1>5. ASSUME NEW a PROVE BeingFreed(a)' \in Nat
    <2>1. Freeing(a)' = Freeing(a) \ {t}
      BY <1>1, <1>3 DEF Freeing
    <2>2. IsFiniteSet(Freeing(a)')
      BY <1>2, <2>1, BeingFreedType, FS_Subset
    <2>3. \A u \in Freeing(a)' : req'[u].tb \in Nat
      BY <1>2, <1>3, <2>1, BeingFreedType DEF Freeing
    <2>4. \A u \in Freeing(a)' : [v \in Tasks |-> req'[v].tb][u] \in Nat
      BY <2>3 DEF Freeing
    <2> QED
      BY <2>2, <2>4, SumNat DEF BeingFreed
  <1>6. \A a : Stored(a)' = Stored(a)
    BY <1>1 DEF Stored, RecordsOf, SizeOf
  <1>7. ASSUME NEW a \in Agents
        PROVE  /\ Stored(a) \in Nat /\ BeingFreed(a) \in Nat /\ leaked[a] \in Nat
               /\ Total(a) = Stored(a) + BeingFreed(a) + leaked[a]
    BY <1>2, StoredType, BeingFreedType DEF Accounting, TotalsMatchRecords
  <1>8. tb <= Total(agent)
    <2>1. PICK a : a = agent
      OBVIOUS
    <2>2. BeingFreed(a) = tb + BeingFreed(a)' /\ BeingFreed(a)' \in Nat
      BY <1>4, <1>5, <2>1
    <2> QED
      BY <1>2, <1>7, <2>1, <2>2
  <1>9. \A a : /\ a = agent => Total(a)' = Total(a) - tb
               /\ a # agent => Total(a)' = Total(a)
    <2>1. CASE agent \in DOMAIN agent_allocations
      BY <1>1, <1>2, <1>8, <2>1 DEF Total, saturating_sub
    <2>2. CASE agent \notin DOMAIN agent_allocations
      <3>1. tb = 0 /\ Total(agent) = 0
        BY <1>2, <1>8, <2>2 DEF Total
      <3>2. \A a : Total(a)' = Total(a)
        BY <1>1, <2>2 DEF Total
      <3> QED
        BY <3>1, <3>2
    <2> QED
      BY <2>1, <2>2
  <1>10. ASSUME NEW a \in Agents
         PROVE  Total(a)' = Stored(a)' + BeingFreed(a)' + leaked'[a]
    <2>1. CASE a = agent
      <3>1. Total(a)' = Total(a) - tb /\ BeingFreed(a) = tb + BeingFreed(a)' /\ BeingFreed(a)' \in Int
        BY <1>4, <1>9, <2>1
      <3> QED
        BY <1>1, <1>2, <1>6, <1>7, <3>1
    <2>2. CASE a # agent
      BY <1>1, <1>4, <1>6, <1>7, <1>9, <2>2
    <2> QED
      BY <2>1, <2>2
  <1>11. \A u \in Tasks : pc'[u] \in {"allocate_totals", "allocate_store"} => req'[u].tb \in Sizes
    BY <1>1, <1>2 DEF TypeOK, Accounting
  <1> QED
    BY <1>1, <1>10, <1>11 DEF Accounting, TotalsMatchRecords

\* A disconnect: a release given up half-way leaks what it was freeing.
LEMMA AccountCancel ==
    ASSUME IInv, Accounting, NEW t \in Tasks, Cancel(t)
    PROVE  Accounting'
  <1>1. CASE pc[t] # "free_totals"
    BY <1>1, AccountAnswer DEF Cancel, IInv
  <1>2. CASE pc[t] = "free_totals"
    <2> DEFINE agent == req[t].agent
               tb == req[t].tb
    <2>1. /\ pc' = [pc EXCEPT ![t] = "idle"] /\ req' = [req EXCEPT ![t] = NoReq]
          /\ leaked' = [leaked EXCEPT ![agent] = @ + tb]
          /\ UNCHANGED <<allocations, agent_allocations, used>>
      BY <1>2 DEF Cancel, Answer
    <2>2. TypeOK /\ agent \in Agents /\ tb \in Nat /\ leaked \in [Agents -> Nat]
      BY AllocationAssumption DEF IInv, TypeOK, Accounting
    <2>3. /\ pc'[t] # "free_totals"
          /\ \A u \in Tasks \ {t} : pc'[u] = pc[u] /\ req'[u] = req[u]
      BY <2>1, <2>2 DEF TypeOK
    <2>4. \A a : /\ a = agent => BeingFreed(a) = tb + BeingFreed(a)'
                 /\ a # agent => BeingFreed(a) = BeingFreed(a)'
                 /\ BeingFreed(a)' \in Int
      BY <1>2, <2>2, <2>3, FreeingLess
    <2>5. \A a : Stored(a)' = Stored(a) /\ Total(a)' = Total(a)
      BY <2>1 DEF Stored, RecordsOf, SizeOf, Total
    <2>6. leaked' \in [Agents -> Nat]
      BY <2>1, <2>2
    <2>7. ASSUME NEW a \in Agents
          PROVE  Total(a)' = Stored(a)' + BeingFreed(a)' + leaked'[a]
      <3>1. /\ Stored(a) \in Nat /\ BeingFreed(a) \in Nat /\ leaked[a] \in Nat
            /\ Total(a) = Stored(a) + BeingFreed(a) + leaked[a]
        BY <2>2, StoredType, BeingFreedType DEF Accounting, TotalsMatchRecords
      <3>2. CASE a = agent
        <4>1. /\ leaked'[a] = leaked[a] + tb
              /\ BeingFreed(a) = tb + BeingFreed(a)' /\ BeingFreed(a)' \in Int
          BY <2>1, <2>2, <2>4, <3>2
        <4> QED
          BY <2>2, <2>5, <3>1, <4>1
      <3>3. CASE a # agent
        BY <2>1, <2>2, <2>4, <2>5, <3>1, <3>3
      <3> QED
        BY <3>2, <3>3
    <2>8. \A u \in Tasks : pc'[u] \in {"allocate_totals", "allocate_store"} => req'[u].tb \in Sizes
      BY <2>1, <2>2 DEF TypeOK, Accounting
    <2> QED
      BY <2>1, <2>6, <2>7, <2>8 DEF Accounting, TotalsMatchRecords
  <1> QED
    BY <1>1, <1>2

\* Every step keeps the account.
LEMMA AccountNext ==
    ASSUME NoWrap, IInv, IInv', Accounting, [Next]_vars
    PROVE  Accounting'
  <1>1. CASE UNCHANGED vars
    BY <1>1, AccountSame DEF vars, IInv, Accounting, TypeOK
  <1>2. ASSUME NEW t \in Tasks, AllocateCheck(t) PROVE Accounting'
    <2>1. CASE (Total(req[t].agent) + req[t].tb) % U64 > MaxTb
      BY <1>2, <2>1, AccountAnswer DEF AllocateCheck, At, IInv
    <2>2. CASE ~ ((Total(req[t].agent) + req[t].tb) % U64 > MaxTb)
      BY <1>2, <2>2, AccountSame DEF AllocateCheck, At, Goto, IInv, TypeOK, Accounting
    <2> QED
      BY <2>1, <2>2
  <1>3. ASSUME NEW t \in Tasks, Route(t) PROVE Accounting'
    BY <1>3, AccountAnswer DEF Route, At, IInv
  <1>4. ASSUME NEW t \in Tasks, StatusLock(t) PROVE Accounting'
    BY <1>4, AccountSame DEF StatusLock, At, Goto, IInv, TypeOK, Accounting
  <1>5. ASSUME NEW t \in Tasks, Status(t) PROVE Accounting'
    BY <1>5, AccountAnswer DEF Status, At, IInv
  <1> QED
    BY <1>1, <1>2, <1>3, <1>4, <1>5, AccountStart, AccountStore, AccountRemove,
       AccountTotal, AccountCancel DEF Next, Proceed

\* The accounts hold throughout, if no check wraps.
LEMMA AccountInvariance == NoWrap => (Spec => []Accounting)
  <1> SUFFICES ASSUME NoWrap PROVE Spec => []Accounting
    OBVIOUS
  <1>1. IInv /\ IInv' /\ Accounting /\ [Next]_vars => Accounting'
    BY AccountNext
  <1> QED
    BY <1>1, AccountInit, Invariance, PTL DEF Spec

\* Where the sum of the limit check cannot wrap, an agent's total is at every
\* moment the sum of its records, of those a free_memory is taking off and of
\* those whose free_memory was abandoned.
THEOREM TotalsExact == NoWrap => (Spec => []TotalsMatchRecords)
  BY AccountInvariance, PTL DEF Accounting

-----------------------------------------------------------------------------
\* Who may look at both maps sees no release in progress.
LEMMA NothingBeingFreed ==
    ASSUME IInv, NEW t \in Tasks, At(t, "status_totals"), NEW a
    PROVE  BeingFreed(a) = 0
  <1>1. \A u \in Tasks : pc[u] # "free_totals"
    BY DEF IInv, LockExclusion, At, Holds, Read, Write, Compatible
  <1>2. Freeing(a) = {}
    BY <1>1 DEF Freeing
  <1> QED
    BY <1>2, SumEmpty DEF BeingFreed

\* The sum a status call answers with.
LEMMA StatusSum ==
    ASSUME NoWrap, IInv, Accounting, NEW t \in Tasks, Status(t), req[t].every
    PROVE  reply'[t].tb + leaked[reply'[t].agent] = Total(reply'[t].agent)
  <1> DEFINE a == req[t].agent
  <1>1. /\ At(t, "status_totals") /\ t \in DOMAIN reply
        /\ reply' = [reply EXCEPT ![t] =
                       [call |-> "status", ok |-> TRUE, agent |-> a,
                        tb |-> SumFunctionOnSet(SizeOf, Listed(req[t])) % U64]]
    BY DEF Status, Answer, IInv, TypeOK
  <1>2. reply'[t].agent = a /\ reply'[t].tb = Stored(a) % U64
    BY <1>1 DEF Listed, Stored
  <1>3. /\ Stored(a) \in Nat /\ a \in Agents /\ leaked[a] \in Nat
        /\ Total(a) = Stored(a) + BeingFreed(a) + leaked[a]
    BY StoredType DEF IInv, TypeOK, Accounting, TotalsMatchRecords
  <1>4. BeingFreed(a) = 0
    BY <1>1, NothingBeingFreed
  <1>5. Total(a) \in 0..(U64 - 1) /\ U64 \in Nat \ {0}
    BY TotalType, AllocationAssumption DEF IInv
  <1>6. Stored(a) % U64 = Stored(a)
    <2>1. Stored(a) \in 0..(U64 - 1)
      BY <1>3, <1>4, <1>5
    <2> QED
      BY <1>5, <2>1
  <1> QED
    BY <1>2, <1>3, <1>4, <1>6

\* Only a status call answers as one.
LEMMA OnlyStatusAnswers ==
    ASSUME IInv, [Next]_vars, NEW t \in Tasks,
           reply'[t] # reply[t], reply'[t].call = "status"
    PROVE  Status(t)
  <1> DEFINE Replies(u, c) ==
         \E r : r.call = c /\ reply' = [reply EXCEPT ![u] = r]
  <1>1. ASSUME NEW u \in Tasks, Start(u) \/ Cancel(u) PROVE Replies(u, "none")
    <2>1. NoReply.call = "none"
      BY DEF NoReply
    <2> QED
      BY <1>1, <2>1 DEF Start, BeginAllocate, BeginFree, BeginRoute, BeginStatus, Begin,
         Cancel, Answer
  <1>2. ASSUME NEW u \in Tasks, AllocateCheck(u) \/ AllocateStore(u)
        PROVE  reply' = reply \/ Replies(u, "allocate")
    BY <1>2 DEF AllocateCheck, AllocateStore, Answer, NoReply
  <1>3. ASSUME NEW u \in Tasks, FreeRemove(u) \/ FreeTotal(u)
        PROVE  reply' = reply \/ Replies(u, "free")
    BY <1>3 DEF FreeRemove, FreeTotal, Answer, NoReply
  <1>4. ASSUME NEW u \in Tasks, Route(u) PROVE Replies(u, "route")
    <2> DEFINE fits == {a \in DOMAIN agent_allocations :
                           available(a) >= req[u].tb /\ available(a) > 0}
    <2>1. CASE fits = {}
      BY <1>4, <2>1 DEF Route, Answer, NoReply
    <2>2. CASE fits # {}
      <3>1. PICK best \in fits : Answer(u, [call |-> "route", ok |-> TRUE, agent |-> best,
                                            tb |-> available(best)])
        BY <1>4, <2>2 DEF Route
      <3> QED
        BY <3>1 DEF Answer
    <2> QED
      BY <2>1, <2>2
  <1>5. ASSUME NEW u \in Tasks, StatusLock(u) PROVE reply' = reply
    BY <1>5 DEF StatusLock
  <1>6. ASSUME NEW u \in Tasks, Status(u) PROVE Replies(u, "status")
    BY <1>6 DEF Status, Answer
  <1>7. \A u \in Tasks : \A c : Replies(u, c) => u = t /\ c = "status"
    BY DEF IInv, TypeOK
  <1>8. PICK u \in Tasks : Start(u) \/ Proceed(u) \/ Cancel(u)
    BY DEF Next, vars
  <1> HIDE DEF Replies
  <1> QED
    BY <1>1, <1>2, <1>3, <1>4, <1>5, <1>6, <1>7, <1>8 DEF Proceed

\* A status answer over all of an agent's allocations is the agent's total but for
\* abandoned releases: the two locks together show one moment.
THEOREM StatusExact == NoWrap => (Spec => StatusAgreesWithTotal)
  <1> SUFFICES ASSUME NoWrap PROVE Spec => StatusAgreesWithTotal
    OBVIOUS
  <1> DEFINE Agrees == \A t \in Tasks :
                 reply'[t] # reply[t] /\ reply'[t].call = "status" /\ req[t].every =>
                     reply'[t].tb + leaked[reply'[t].agent] = Total(reply'[t].agent)
  <1>1. ASSUME IInv, Accounting, [Next]_vars PROVE Agrees
    BY <1>1, OnlyStatusAnswers, StatusSum
  <1>2. IInv /\ Accounting /\ [Next]_vars => [Agrees]_vars
    BY <1>1
  <1> QED
    BY <1>2, Invariance, AccountInvariance, PTL DEF Spec, StatusAgreesWithTotal

-----------------------------------------------------------------------------
\* The ledger the service implements.
heldMap == [id \in DOMAIN allocations |->
               [agent |-> allocations[id].agent, tb |-> allocations[id].allocated_tb]]

\* Seen through its records, what an agent has committed is what it has stored.
LEMMA CommittedIsStored == \A a : Ledger!Committed(a) = Stored(a)
  <1> TAKE a
  <1>0. \A f, S : Ledger!SumFunctionOnSet(f, S) = SumFunctionOnSet(f, S)
    BY DEF SumFunctionOnSet, FoldFunctionOnSet, MapThenFoldSet,
       Ledger!SumFunctionOnSet, Ledger!FoldFunctionOnSet, Ledger!MapThenFoldSet
  <1>1. /\ DOMAIN heldMap = DOMAIN allocations
        /\ {id \in DOMAIN heldMap : heldMap[id].agent = a} = RecordsOf(a)
        /\ [id \in DOMAIN heldMap |-> heldMap[id].tb] = SizeOf
    BY DEF heldMap, RecordsOf, SizeOf
  <1> QED
    BY <1>0, <1>1 DEF Ledger!Committed, heldMap, Stored

\* The store is a grant: the check that is still valid is about the total, which
\* is no less than what is stored.
LEMMA StoreGrants ==
    ASSUME NoWrap, IInv, Accounting, NEW t \in Tasks, AllocateStore(t)
    PROVE  Ledger!Next
  <1> DEFINE a == req[t].agent
             tb == req[t].tb
             record == [agent |-> a, allocated_tb |-> tb, duration |-> req[t].duration,
                        expires_in |-> IF req[t].duration > 0 THEN req[t].duration ELSE DayMs]
  <1>1. PICK id \in Ids \ used :
           allocations' = Put(allocations, id, record) /\ used' = used \cup {id}
    BY DEF AllocateStore
  <1>2. pc[t] = "allocate_store"
    BY DEF AllocateStore, At
  <1>3. a \in Agents /\ tb \in Sizes /\ tb \in Nat
    BY <1>2, AllocationAssumption DEF IInv, TypeOK, Accounting
  <1>4. Ledger!Committed(a) + tb <= MaxTb
    <2>1. /\ Stored(a) \in Nat /\ BeingFreed(a) \in Nat /\ leaked[a] \in Nat
          /\ Total(a) = Stored(a) + BeingFreed(a) + leaked[a]
      BY <1>3, StoredType, BeingFreedType DEF IInv, Accounting, TotalsMatchRecords
    <2>2. (Total(a) + tb) % U64 <= MaxTb
      BY <1>2 DEF IInv, CheckStillValid
    <2>3. (Total(a) + tb) % U64 = Total(a) + tb
      <3>1. Total(a) \in 0..MaxTb
        BY <1>3, AllocationAssumption DEF IInv, TypeOK, QuotaRespected, Total
      <3>2. MaxTb + tb < U64 /\ MaxTb \in Nat /\ U64 \in Nat
        BY <1>3, AllocationAssumption DEF NoWrap
      <3>3. Total(a) + tb \in 0..(U64 - 1)
        BY <1>3, <3>1, <3>2
      <3> QED
        BY <3>2, <3>3
    <2>4. Stored(a) + tb <= MaxTb
      BY <1>3, <2>1, <2>2, <2>3, AllocationAssumption
    <2> QED
      BY <2>4, CommittedIsStored
  <1>5. heldMap' = [x \in DOMAIN heldMap \cup {id} |->
                       IF x = id THEN [agent |-> a, tb |-> tb] ELSE heldMap[x]]
    BY <1>1 DEF heldMap, Put
  <1>6. PICK agent \in Agents, size \in Sizes : agent = a /\ size = tb
    BY <1>3
  <1>7. Ledger!Grant(id, agent, size)
    BY <1>1, <1>4, <1>5, <1>6 DEF Ledger!Grant, heldMap
  <1> QED
    BY <1>7 DEF Ledger!Next

\* The removal of a record gives it back.
LEMMA RemoveReleases ==
    ASSUME IInv, NEW t \in Tasks, FreeRemove(t)
    PROVE  Ledger!Next \/ UNCHANGED <<heldMap, used>>
  <1>1. CASE req[t].id \notin DOMAIN allocations
    BY <1>1 DEF FreeRemove, heldMap
  <1>2. CASE req[t].id \in DOMAIN allocations
    <2>1. PICK id \in Ids : /\ id \in DOMAIN allocations
                            /\ allocations' = [x \in DOMAIN allocations \ {id} |-> allocations[x]]
                            /\ used' = used
      BY <1>2 DEF FreeRemove, IInv, TypeOK
    <2>2. Ledger!Release(id)
      BY <2>1 DEF Ledger!Release
    <2> QED
      BY <2>2 DEF Ledger!Next
  <1> QED
    BY <1>1, <1>2

\* Every step of the service is a step of the ledger or leaves it alone.
LEMMA LedgerStep ==
    ASSUME NoWrap, IInv, Accounting, [Next]_vars
    PROVE  Ledger!Next \/ UNCHANGED <<heldMap, used>>
  <1>1. ASSUME NEW t \in Tasks, Start(t) \/ Cancel(t)
        PROVE  UNCHANGED <<allocations, used>>
    BY <1>1 DEF Start, BeginAllocate, BeginFree, BeginRoute, BeginStatus, Begin, Cancel
  <1>2. ASSUME NEW t \in Tasks,
               AllocateCheck(t) \/ FreeTotal(t) \/ Route(t) \/ StatusLock(t) \/ Status(t)
        PROVE  UNCHANGED <<allocations, used>>
    BY <1>2 DEF AllocateCheck, FreeTotal, Route, StatusLock, Status
  <1>3. UNCHANGED <<allocations, used>> => UNCHANGED <<heldMap, used>>
    BY DEF heldMap
  <1> QED
    BY <1>1, <1>2, <1>3, StoreGrants, RemoveReleases DEF Next, Proceed, vars

\* The allocation service implements the quota ledger: whatever the calls and the
\* disconnects, it grants within the limit, under new ids, and gives back once.
THEOREM LedgerRefined == NoWrap => (Spec => RefinesLedger)
  <1> SUFFICES ASSUME NoWrap PROVE Spec => RefinesLedger
    OBVIOUS
  <1>1. Init => Ledger!Init
    BY DEF Init, Ledger!Init
  <1>3. IInv /\ Accounting /\ [Next]_vars => Ledger!Next \/ UNCHANGED <<heldMap, used>>
    BY LedgerStep
  <1> QED
    BY <1>1, <1>3, Invariance, AccountInvariance, PTL
    DEF Spec, RefinesLedger, Ledger!Spec, heldMap

-----------------------------------------------------------------------------
(* API keys: the bursts that the rate windows allow.  BurstBounded is about the past,  *)
(* which the registry does not keep; it is inductive with what the entry of a key says *)
(* of the grants: the count is of those since the window began, the window is shorter  *)
(* than a minute, and the minute before it had no more than the limit.                 *)

\* The times from a on and before b, and what a key was granted there.
Span(a, b) == {u \in 0..MaxClock : a <= u /\ u < b}
GrantedIn(g, a, b) == SumFunctionOnSet(g, Span(a, b))

GrantTables == [0..MaxClock -> Nat]
Entries == [tier : DOMAIN TierConfig, rate_limit : Nat, request_count : Nat, last_request : Nat]

CallerStates == [at : {"idle", "locked"}, key : Keys \cup {"none"},
                 asks : Questions \cup {"none"},
                 told : {"none", "ok", "unauthenticated", "resource_exhausted"}]

\* An entry with a limit, the grants to its key, and the time.
WindowExact(entry, g, now) ==
    /\ entry.last_request <= now
    /\ GrantedIn(g, entry.last_request, MaxClock + 1) = entry.request_count
    /\ entry.request_count <= entry.rate_limit
    /\ \A u \in 0..MaxClock : u > now \/ u >= entry.last_request + Minute => g[u] = 0
    /\ \A t \in Nat : t + Minute >= entry.last_request =>
           GrantedIn(g, t, entry.last_request) <= entry.rate_limit
    /\ \A t \in 0..MaxClock : GrantedIn(g, t, t + Minute) <= 2 * entry.rate_limit

KeysInv ==
    /\ clock \in 0..MaxClock
    /\ granted \in [Keys -> GrantTables]
    /\ api_keys \in [DOMAIN api_keys -> Entries]
    /\ caller \in [Callers -> CallerStates]
    /\ \A c \in Callers : caller[c].at = "locked" => caller[c].key \in Keys
    /\ \A k \in DOMAIN api_keys \cap Keys :
           api_keys[k].rate_limit > 0 => WindowExact(api_keys[k], granted[k], clock)

\* A span is finite, and what is granted in it is a number.
LEMMA SpanSum ==
    ASSUME NEW g \in GrantTables, NEW a \in Int, NEW b \in Int
    PROVE  IsFiniteSet(Span(a, b)) /\ GrantedIn(g, a, b) \in Nat
  <1>1. IsFiniteSet(0..MaxClock)
    BY KeysAssumption, FS_Interval
  <1>2. IsFiniteSet(Span(a, b))
    BY <1>1, FS_Subset DEF Span
  <1>3. \A x \in Span(a, b) : g[x] \in Nat
    BY DEF Span, GrantTables
  <1> QED
    BY <1>2, <1>3, SumNat DEF GrantedIn

\* More is granted in a longer span.
LEMMA SpanWithin ==
    ASSUME NEW g \in GrantTables, NEW a \in Int, NEW b \in Int, NEW c \in Int, NEW d \in Int,
           Span(a, b) \subseteq Span(c, d)
    PROVE  GrantedIn(g, a, b) <= GrantedIn(g, c, d)
  <1>1. \A x \in Span(c, d) : g[x] \in Nat
    BY DEF Span, GrantTables
  <1> QED
    BY <1>1, SpanSum, SumSubset DEF GrantedIn

\* A span falls into two at a time within it.
LEMMA SpanParts ==
    ASSUME NEW g \in GrantTables, NEW a \in Int, NEW b \in Int, NEW c \in Int, a <= b, b <= c
    PROVE  GrantedIn(g, a, c) = GrantedIn(g, a, b) + GrantedIn(g, b, c)
  <1>1. Span(a, b) \in SUBSET Span(a, c) /\ Span(a, c) \ Span(a, b) = Span(b, c)
    BY KeysAssumption DEF Span
  <1>2. \A x \in Span(a, c) : g[x] \in Int
    BY DEF Span, GrantTables
  <1>3. SumFunctionOnSet(g, Span(a, c))
            = SumFunctionOnSet(g, Span(a, b)) + SumFunctionOnSet(g, Span(a, c) \ Span(a, b))
    <2>1. IsFiniteSet(Span(a, c))
      BY SpanSum
    <2> QED
      BY <1>1, <1>2, <2>1, SumSplit
  <1> QED
    BY <1>1, <1>3 DEF GrantedIn

\* Nothing is granted where every time has nothing.
LEMMA SpanZero ==
    ASSUME NEW g \in GrantTables, NEW a \in Int, NEW b \in Int, \A u \in Span(a, b) : g[u] = 0
    PROVE  GrantedIn(g, a, b) = 0
  BY SpanSum, SumZero DEF GrantedIn

\* One more grant counts in the spans that its time is in.
LEMMA SpanGrant ==
    ASSUME NEW g \in GrantTables, NEW h \in GrantTables, NEW now \in 0..MaxClock,
           h[now] = g[now] + 1, \A u \in 0..MaxClock \ {now} : h[u] = g[u],
           NEW a \in Int, NEW b \in Int
    PROVE  /\ a <= now /\ now < b => GrantedIn(h, a, b) = GrantedIn(g, a, b) + 1
           /\ now < a \/ b <= now => GrantedIn(h, a, b) = GrantedIn(g, a, b)
  <1>1. g[now] \in Nat
    BY DEF GrantTables
  <1>2. \A u \in Span(a, b) : g[u] \in Int /\ h[u] \in Int
    BY DEF Span, GrantTables
  <1>4. ASSUME a <= now, now < b PROVE GrantedIn(h, a, b) = GrantedIn(g, a, b) + 1
    <2> DEFINE S == Span(a, b)
    <2>1. IsFiniteSet(S)
      BY SpanSum
    <2>2. /\ now \in S
          /\ \A u \in S : g[u] \in Int /\ h[u] \in Int
          /\ \A u \in S \ {now} : h[u] = g[u]
      BY <1>2, <1>4 DEF Span
    <2> HIDE DEF S
    <2>3. SumFunctionOnSet(h, S) = SumFunctionOnSet(g, S) + h[now] - g[now]
      BY <2>1, <2>2, SumChange
    <2>4. SumFunctionOnSet(g, S) \in Int
      BY <2>1, <2>2, SumInt
    <2> QED
      BY <2>3, <2>4, <1>1 DEF GrantedIn, S
  <1>5. ASSUME now < a \/ b <= now PROVE GrantedIn(h, a, b) = GrantedIn(g, a, b)
    <2>1. \A u \in Span(a, b) : h[u] = g[u]
      BY <1>5 DEF Span
    <2> QED
      BY <2>1, SpanSum, SumAgree DEF GrantedIn
  <1> QED
    BY <1>4, <1>5


\* A grant is counted, and nothing else changes.
LEMMA GrantCounted ==
    ASSUME NEW g \in GrantTables, NEW now \in 0..MaxClock
    PROVE  LET h == [g EXCEPT ![now] = @ + 1]
           IN  /\ h \in GrantTables /\ h[now] = g[now] + 1
               /\ \A u \in 0..MaxClock \ {now} : h[u] = g[u]
  BY DEF GrantTables

\* What validate_key does to an entry.
LEMMA EntryEdits ==
    ASSUME NEW entry \in Entries, NEW t \in Nat
    PROVE  /\ WindowAt(entry, t) \in Entries
           /\ WindowAt(entry, t).rate_limit = entry.rate_limit
           /\ [entry EXCEPT !.request_count = @ + 1] \in Entries
           /\ [entry EXCEPT !.request_count = @ + 1].rate_limit = entry.rate_limit
  <1>1. /\ [entry EXCEPT !.request_count = 0, !.last_request = t] \in Entries
        /\ [entry EXCEPT !.request_count = 0, !.last_request = t].rate_limit = entry.rate_limit
    BY DEF Entries
  <1>2. entry.request_count + 1 \in Nat
    BY DEF Entries
  <1>3. /\ [entry EXCEPT !.request_count = @ + 1] \in Entries
        /\ [entry EXCEPT !.request_count = @ + 1].rate_limit = entry.rate_limit
    BY <1>2 DEF Entries
  <1> QED
    BY <1>1, <1>3 DEF WindowAt

\* A window that begins again takes the one before it for its past: it is too long ago
\* for a grant to be left in it.
LEMMA WindowReset ==
    ASSUME NEW entry \in Entries, NEW g \in GrantTables, NEW now \in 0..MaxClock,
           WindowExact(entry, g, now)
    PROVE  LET new == WindowAt(entry, now)
           IN  /\ new \in Entries /\ new.rate_limit = entry.rate_limit
               /\ now < new.last_request + Minute
               /\ WindowExact(new, g, now)
  <1>1. CASE now - entry.last_request < Minute
    <2>1. entry.last_request \in Nat
      BY DEF Entries
    <2>2. WindowAt(entry, now) = entry /\ now < entry.last_request + Minute
      BY <1>1, <2>1, KeysAssumption DEF WindowAt
    <2> QED
      BY <2>2
  <1>2. CASE now - entry.last_request >= Minute
    <2> DEFINE new == [entry EXCEPT !.request_count = 0, !.last_request = now]
    <2>1. WindowAt(entry, now) = new /\ now \in Nat
      BY <1>2, KeysAssumption DEF WindowAt
    <2>2. /\ new \in Entries /\ new.rate_limit = entry.rate_limit
          /\ new.request_count = 0 /\ new.last_request = now
      BY <2>1 DEF Entries
    <2>3. /\ entry.last_request \in Nat /\ entry.request_count \in Nat
          /\ entry.rate_limit \in Nat /\ Minute \in Nat \ {0} /\ MaxClock \in Nat
      BY KeysAssumption DEF Entries
    <2> HIDE DEF new
    <2>4. \A u \in Span(now, MaxClock + 1) : g[u] = 0
      BY <1>2, <2>3 DEF WindowExact, Span
    <2>5. GrantedIn(g, now, MaxClock + 1) = 0
      BY <2>3, <2>4, SpanZero
    <2>6. ASSUME NEW t \in Nat, t + Minute >= now
          PROVE  GrantedIn(g, t, now) <= entry.rate_limit
      <3>1. Span(t, now) \subseteq Span(entry.last_request, MaxClock + 1)
        BY <1>2, <2>3, <2>6 DEF Span
      <3>2. GrantedIn(g, t, now) <= GrantedIn(g, entry.last_request, MaxClock + 1)
        BY <2>3, <3>1, SpanWithin
      <3>3. GrantedIn(g, t, now) \in Nat
        BY SpanSum
      <3> QED
        BY <2>3, <3>2, <3>3 DEF WindowExact
    <2>7. WindowExact(new, g, now)
      BY <2>2, <2>3, <2>5, <2>6 DEF WindowExact
    <2>8. now < new.last_request + Minute
      BY <2>2, <2>3
    <2> QED
      BY <2>1, <2>2, <2>7, <2>8
  <1>3. entry.last_request \in Nat /\ Minute \in Nat
    BY KeysAssumption DEF Entries
  <1> QED
    BY <1>1, <1>2, <1>3

\* A grant within the limit keeps every minute within twice the limit: what of it lies
\* before the window is bounded by the limit, and so is the window.
LEMMA WindowGrant ==
    ASSUME NEW entry \in Entries, NEW g \in GrantTables, NEW h \in GrantTables,
           NEW now \in 0..MaxClock, WindowExact(entry, g, now),
           now < entry.last_request + Minute, entry.request_count < entry.rate_limit,
           h[now] = g[now] + 1, \A u \in 0..MaxClock \ {now} : h[u] = g[u]
    PROVE  LET new == [entry EXCEPT !.request_count = @ + 1]
           IN  new \in Entries /\ WindowExact(new, h, now)
  <1> DEFINE new == [entry EXCEPT !.request_count = @ + 1]
             last == entry.last_request
             limit == entry.rate_limit
  <1>1. /\ last \in Nat /\ entry.request_count \in Nat /\ limit \in Nat
        /\ Minute \in Nat \ {0} /\ MaxClock \in Nat
    BY KeysAssumption DEF Entries
  <1>2. /\ new \in Entries /\ new.rate_limit = limit
        /\ new.request_count = entry.request_count + 1 /\ new.last_request = last
    BY DEF Entries
  <1> HIDE DEF new
  <1>3. last <= now
    BY DEF WindowExact
  <1>4. GrantedIn(h, last, MaxClock + 1) = entry.request_count + 1
    BY <1>1, <1>3, SpanGrant DEF WindowExact
  <1>5. \A u \in 0..MaxClock : u > now \/ u >= last + Minute => h[u] = 0
    BY <1>1 DEF WindowExact
  <1>6. ASSUME NEW t \in Nat, t + Minute >= last PROVE GrantedIn(h, t, last) <= limit
    <2>1. GrantedIn(h, t, last) = GrantedIn(g, t, last)
      BY <1>1, <1>3, SpanGrant
    <2> QED
      BY <1>6, <2>1 DEF WindowExact
  <1>7. ASSUME NEW t \in 0..MaxClock PROVE GrantedIn(h, t, t + Minute) <= 2 * limit
    <2>1. CASE now < t \/ t + Minute <= now
      <3>1. GrantedIn(h, t, t + Minute) = GrantedIn(g, t, t + Minute)
        BY <1>1, <2>1, SpanGrant
      <3> QED
        BY <3>1 DEF WindowExact
    <2>2. CASE last <= t
      <3>1. Span(t, t + Minute) \subseteq Span(last, MaxClock + 1)
        BY <1>1, <2>2 DEF Span
      <3>2. GrantedIn(h, t, t + Minute) <= entry.request_count + 1
        BY <1>1, <1>4, <3>1, SpanWithin
      <3>3. GrantedIn(h, t, t + Minute) \in Nat
        BY <1>1, SpanSum
      <3> QED
        BY <1>1, <3>2, <3>3
    <2>3. CASE t < last /\ now < t + Minute
      <3>1. GrantedIn(h, t, t + Minute)
                = GrantedIn(h, t, last) + GrantedIn(h, last, t + Minute)
        BY <1>1, <1>3, <2>3, SpanParts
      <3>2. GrantedIn(h, t, last) <= limit
        BY <1>1, <1>3, <1>6, <2>3
      <3>3. Span(last, t + Minute) \subseteq Span(last, MaxClock + 1)
        BY <1>1 DEF Span
      <3>4. GrantedIn(h, last, t + Minute) <= entry.request_count + 1
        BY <1>1, <1>4, <3>3, SpanWithin
      <3>5. GrantedIn(h, t, last) \in Nat /\ GrantedIn(h, last, t + Minute) \in Nat
        BY <1>1, SpanSum
      <3> QED
        BY <1>1, <3>1, <3>2, <3>4, <3>5
    <2> QED
      BY <1>1, <2>1, <2>2, <2>3
  <1>8. WindowExact(new, h, now)
    BY <1>1, <1>2, <1>3, <1>4, <1>5, <1>6, <1>7 DEF WindowExact
  <1> QED
    BY <1>2, <1>8 DEF new

\* As time goes on, the window stays what it was.
LEMMA WindowTick ==
    ASSUME NEW entry \in Entries, NEW g \in GrantTables, NEW now \in 0..MaxClock,
           WindowExact(entry, g, now)
    PROVE  WindowExact(entry, g, now + 1)
  <1>1. entry.last_request \in Nat /\ MaxClock \in Nat
    BY KeysAssumption DEF Entries
  <1> QED
    BY <1>1 DEF WindowExact


\* A key that is registered has an entry of its tier, whose window begins now.
LEMMA NewEntryType ==
    ASSUME NEW tier \in DOMAIN TierConfig, NEW t \in Nat
    PROVE  /\ NewEntry(tier, t) \in Entries
           /\ NewEntry(tier, t).request_count = 0 /\ NewEntry(tier, t).last_request = t
  <1>1. from_name(tier).rate_limit \in Nat
    <2>1. DOMAIN TierConfig = {"free", "starter", "pro", "enterprise"}
      BY DEF TierConfig
    <2>2. \A name \in {"free", "starter", "pro", "enterprise"} :
              TierConfig[name].rate_limit \in Nat
      BY KeysAssumption DEF TierConfig
    <2> QED
      BY <2>1, <2>2 DEF from_name
  <1> QED
    BY <1>1 DEF NewEntry, Entries

\* The default keys have names of tiers.
LEMMA DefaultTiers == \A k \in DOMAIN DefaultKeys : DefaultKeys[k] \in DOMAIN TierConfig
  BY DEF DefaultKeys, TierConfig

\* At the start nothing has been granted.
LEMMA KeysInitInv ==
    ASSUME KeysInit(DOMAIN DefaultKeys) PROVE KeysInv
  <1> DEFINE D == DOMAIN DefaultKeys
  <1> HIDE DEF D
  <1>1. /\ clock = 0 /\ api_keys = [k \in D |-> NewEntry(DefaultKeys[k], 0)]
        /\ caller = [c \in Callers |-> Idle]
        /\ Idle \in CallerStates
        /\ granted = [k \in Keys |-> [t \in 0..MaxClock |-> 0]]
    BY DEF KeysInit, D, Idle, CallerStates
  <1>2. api_keys \in [DOMAIN api_keys -> Entries]
        /\ \A k \in D : api_keys[k].request_count = 0 /\ api_keys[k].last_request = 0
    BY <1>1, NewEntryType, DefaultTiers DEF D
  <1>3. clock \in 0..MaxClock /\ granted \in [Keys -> GrantTables]
    BY <1>1, KeysAssumption DEF GrantTables
  <1>4. \A c \in Callers : caller[c].at # "locked"
    BY <1>1 DEF Idle
  <1>5. ASSUME NEW k \in D \cap Keys PROVE WindowExact(api_keys[k], granted[k], clock)
    <2> DEFINE g == granted[k]
               entry == api_keys[k]
    <2>1. g \in GrantTables /\ \A u \in 0..MaxClock : g[u] = 0
      BY <1>1, <1>3
    <2>2. entry \in Entries /\ entry.request_count = 0 /\ entry.last_request = 0
          /\ entry.rate_limit \in Nat
      BY <1>1, <1>2 DEF Entries
    <2>3. MaxClock \in Nat /\ Minute \in Nat /\ clock = 0
      BY <1>1, KeysAssumption
    <2> HIDE DEF g, entry
    <2>4. \A a, b \in Int : GrantedIn(g, a, b) = 0
      BY <2>1, SpanZero DEF Span
    <2>5. \A t \in Nat : GrantedIn(g, t, entry.last_request) <= entry.rate_limit
      BY <2>2, <2>4
    <2>6. \A t \in 0..MaxClock : GrantedIn(g, t, t + Minute) <= 2 * entry.rate_limit
      BY <2>2, <2>3, <2>4
    <2>7. GrantedIn(g, entry.last_request, MaxClock + 1) = 0
      BY <2>2, <2>3, <2>4
    <2>8. WindowExact(entry, g, clock)
      BY <2>1, <2>2, <2>3, <2>5, <2>6, <2>7 DEF WindowExact
    <2> QED
      BY <2>8 DEF g, entry
  <1>6. DOMAIN api_keys = D /\ caller \in [Callers -> CallerStates]
    BY <1>1
  <1> QED
    BY <1>2, <1>3, <1>4, <1>5, <1>6 DEF KeysInv

\* A validation counts its grant in the window that it finds or begins.
LEMMA ValidateKeepsInv ==
    ASSUME KeysInv, NEW c \in Callers, validate_key(c) PROVE KeysInv'
  <1> DEFINE key == caller[c].key
             known == key \in DOMAIN api_keys
             entry == WindowAt(api_keys[key], clock)
             ok == known /\ ~Exhausted(entry)
             new == [entry EXCEPT !.request_count = @ + 1]
  <1>1. /\ key \in Keys /\ clock \in 0..MaxClock /\ clock' = clock
        /\ granted \in [Keys -> GrantTables] /\ api_keys \in [DOMAIN api_keys -> Entries]
    BY DEF KeysInv, validate_key
  <1>2. \A d \in Callers : caller'[d].at = "locked" => caller'[d].key \in Keys
    BY DEF KeysInv, validate_key, Idle
  <1>3. caller' \in [Callers -> CallerStates]
    BY DEF KeysInv, validate_key, Idle, CallerStates
  <1>4. CASE ~known
    <2>1. UNCHANGED <<api_keys, granted>>
      BY <1>4 DEF validate_key
    <2> QED
      BY <1>1, <1>2, <1>3, <2>1 DEF KeysInv, WindowExact
  <1>5. CASE known
    <2>1. api_keys[key] \in Entries
      BY <1>1, <1>5
    <2>2. entry \in Entries /\ entry.rate_limit = api_keys[key].rate_limit
      <3>1. clock \in Nat
        BY <1>1, KeysAssumption
      <3> QED
        BY <2>1, <3>1, EntryEdits
    <2>3. api_keys[key].rate_limit > 0 =>
              WindowExact(entry, granted[key], clock) /\ clock < entry.last_request + Minute
      BY <1>1, <1>5, <2>1, WindowReset DEF KeysInv
    <2>4. ASSUME ~ok PROVE KeysInv'
      <3>1. api_keys' = [api_keys EXCEPT ![key] = entry] /\ granted' = granted
        BY <1>5, <2>4 DEF validate_key
      <3> HIDE DEF entry
      <3>2. /\ DOMAIN api_keys' = DOMAIN api_keys /\ api_keys'[key] = entry
            /\ \A k \in DOMAIN api_keys \ {key} : api_keys'[k] = api_keys[k]
            /\ api_keys' \in [DOMAIN api_keys' -> Entries]
        BY <1>1, <1>5, <2>2, <3>1
      <3>3. ASSUME NEW k \in DOMAIN api_keys' \cap Keys, api_keys'[k].rate_limit > 0
            PROVE  WindowExact(api_keys'[k], granted'[k], clock)
        BY <1>1, <2>2, <2>3, <3>1, <3>2, <3>3 DEF KeysInv
      <3>4. \A k \in DOMAIN api_keys' \cap Keys : api_keys'[k].rate_limit > 0 =>
                WindowExact(api_keys[k], granted[k], clock)'
        BY <1>1, <3>3 DEF WindowExact, GrantedIn, Span
      <3> QED
        BY <1>1, <1>2, <1>3, <3>1, <3>2, <3>4 DEF KeysInv
    <2>5. ASSUME ok PROVE KeysInv'
      <3>1. /\ api_keys' = [api_keys EXCEPT ![key] = new]
            /\ granted' = [granted EXCEPT ![key][clock] = @ + 1]
        BY <1>5, <2>5 DEF validate_key
      <3>2. new \in Entries /\ new.rate_limit = entry.rate_limit
        BY <2>2, EntryEdits
      <3> DEFINE h == [granted[key] EXCEPT ![clock] = @ + 1]
      <3>3. granted[key] \in GrantTables
        BY <1>1
      <3>4. /\ h \in GrantTables /\ h[clock] = granted[key][clock] + 1
            /\ \A u \in 0..MaxClock \ {clock} : h[u] = granted[key][u]
        BY <1>1, <3>3, GrantCounted
      <3>5. /\ granted'[key] = h /\ granted' \in [Keys -> GrantTables]
            /\ \A k \in Keys \ {key} : granted'[k] = granted[k]
        BY <1>1, <3>1, <3>4
      <3>6. entry.rate_limit > 0 => entry.request_count < entry.rate_limit
        BY <2>2, <2>5 DEF Exhausted, Entries
      <3> HIDE DEF entry, h
      <3>7. entry.rate_limit > 0 => WindowExact(new, h, clock)
        BY <1>1, <2>2, <2>3, <3>3, <3>4, <3>6, WindowGrant
      <3> HIDE DEF new
      <3>8. /\ DOMAIN api_keys' = DOMAIN api_keys /\ api_keys'[key] = new
            /\ \A k \in DOMAIN api_keys \ {key} : api_keys'[k] = api_keys[k]
            /\ api_keys' \in [DOMAIN api_keys' -> Entries]
        BY <1>1, <1>5, <3>1, <3>2
      <3>9. ASSUME NEW k \in DOMAIN api_keys' \cap Keys, api_keys'[k].rate_limit > 0
            PROVE  WindowExact(api_keys'[k], granted'[k], clock)
        BY <3>2, <3>5, <3>7, <3>8, <3>9 DEF KeysInv
      <3>10. \A k \in DOMAIN api_keys' \cap Keys : api_keys'[k].rate_limit > 0 =>
                 WindowExact(api_keys[k], granted[k], clock)'
        BY <1>1, <3>9 DEF WindowExact, GrantedIn, Span
      <3> QED
        BY <1>1, <1>2, <1>3, <3>5, <3>8, <3>10 DEF KeysInv
    <2> QED
      BY <2>4, <2>5
  <1> QED
    BY <1>4, <1>5

\* Every step of the registry keeps it.
LEMMA KeysStepInv == KeysInv /\ [KeysNext]_keyVars => KeysInv'
  <1> SUFFICES ASSUME KeysInv, [KeysNext]_keyVars PROVE KeysInv'
    OBVIOUS
  <1>1. ASSUME NEW c \in Callers, NEW asks \in Questions, AskUnlocked(c, asks)
        PROVE  KeysInv'
    <2>1. \A d \in Callers : caller'[d].at = "locked" => caller'[d].key \in Keys
      BY <1>1 DEF KeysInv, AskUnlocked, CallerStates
    <2>2. caller' \in [Callers -> CallerStates] /\ UNCHANGED <<api_keys, clock, granted>>
      BY <1>1 DEF KeysInv, AskUnlocked, CallerStates
    <2> QED
      BY <2>1, <2>2 DEF KeysInv, WindowExact, GrantedIn, Span
  <1>2. ASSUME NEW c \in Callers, NEW key \in Keys, NEW asks \in Questions,
               LockKeys(c, key, asks)
        PROVE  KeysInv'
    <2>1. \A d \in Callers : caller'[d].at = "locked" => caller'[d].key \in Keys
      BY <1>2 DEF KeysInv, LockKeys, CallerStates
    <2>2. caller' \in [Callers -> CallerStates] /\ UNCHANGED <<api_keys, clock, granted>>
      BY <1>2 DEF KeysInv, LockKeys, CallerStates
    <2> QED
      BY <2>1, <2>2 DEF KeysInv, WindowExact, GrantedIn, Span
  <1>3. ASSUME NEW c \in Callers, validate_key(c) PROVE KeysInv'
    BY <1>3, ValidateKeepsInv
  <1>4. ASSUME Tick PROVE KeysInv'
    <2>1. /\ clock \in 0..MaxClock /\ clock' = clock + 1 /\ clock' \in 0..MaxClock
          /\ UNCHANGED <<api_keys, caller, granted>>
      BY <1>4, KeysAssumption DEF Tick, KeysInv
    <2>2. ASSUME NEW k \in DOMAIN api_keys \cap Keys, api_keys[k].rate_limit > 0
          PROVE  WindowExact(api_keys[k], granted[k], clock + 1)
      BY <2>1, <2>2, WindowTick DEF KeysInv
    <2>3. \A k \in DOMAIN api_keys' \cap Keys : api_keys'[k].rate_limit > 0 =>
              WindowExact(api_keys[k], granted[k], clock)'
      BY <2>1, <2>2 DEF WindowExact, GrantedIn, Span
    <2> QED
      BY <2>1, <2>3 DEF KeysInv
  <1>5. CASE UNCHANGED keyVars
    BY <1>5 DEF KeysInv, keyVars, WindowExact, GrantedIn, Span
  <1> QED
    BY <1>1, <1>2, <1>3, <1>4, <1>5 DEF KeysNext

\* In any minute a key is granted at most twice the limit of its tier (validate_key).
THEOREM BurstsBounded == KeysSpec => []BurstBounded
  <1>1. KeysInv => BurstBounded
    BY DEF KeysInv, BurstBounded, WindowExact, GrantedIn, Span
  <1> QED
    BY <1>1, KeysInitInv, KeysStepInv, PTL DEF KeysSpec

-----------------------------------------------------------------------------
(* The way of a call: what the interceptor answers while the keys are locked is never  *)
(* seen, because serve has registered them all before it accepts anything.             *)

CallStates == [at : {"none", "sent", "admitted", "handler", "ended"},
               method : Exercised \cup {"none"}, key : Keys \cup {"none"}, got : Nat,
               status : {"none", "unknown", "unauthenticated", "unimplemented", "ok",
                         "error", "cancelled"}]
ServerStates == {"starting", "built", "serving", "failed"}

\* What is to be said of one call: it is under way only while the server serves, ...
CallKeyed(c) ==
    /\ call[c].at \in {"sent", "admitted", "handler"} => server = "serving"
    /\ auth_enabled /\ call[c].at \in {"admitted", "handler"}
           /\ call[c].method \notin DOMAIN Reflection => call[c].key \in DOMAIN api_keys
    /\ auth_enabled /\ call[c].status = "unauthenticated" =>
           call[c].key \notin DOMAIN DefaultKeys

\* ... which is only once no default key is left to register.
Registering ==
    /\ writing \in BOOLEAN /\ (writing => auth_enabled /\ pending # <<>>)
    /\ pending \in Seq(DOMAIN DefaultKeys)
    /\ \A k \in DOMAIN DefaultKeys \ DOMAIN api_keys : \E i \in 1..Len(pending) : pending[i] = k
    /\ server \in ServerStates
    /\ auth_enabled /\ server \in {"built", "serving"} => pending = <<>>

RpcInv ==
    /\ \A c \in Callers : caller[c].at = "idle"
    /\ call \in [RpcCalls -> CallStates]
    /\ Registering
    /\ \A c \in RpcCalls : CallKeyed(c)

\* The five default keys are those that serve registers, one after the other.
LEMMA AllDefaultKeysPending ==
    LET keys == <<"cf_free_test123", "cf_starter_test123", "cf_pro_test123",
                  "cf_ent_test123", "test_key_123">>
    IN  /\ keys \in Seq(DOMAIN DefaultKeys)
        /\ \A k \in DOMAIN DefaultKeys : \E i \in 1..Len(keys) : keys[i] = k
  <1> DEFINE keys == <<"cf_free_test123", "cf_starter_test123", "cf_pro_test123",
                       "cf_ent_test123", "test_key_123">>
  <1>1. DOMAIN DefaultKeys = {"cf_free_test123", "cf_starter_test123", "cf_pro_test123",
                              "cf_ent_test123", "test_key_123"}
    BY DEF DefaultKeys
  <1>2. /\ Len(keys) = 5 /\ keys[1] = "cf_free_test123" /\ keys[2] = "cf_starter_test123"
        /\ keys[3] = "cf_pro_test123" /\ keys[4] = "cf_ent_test123"
        /\ keys[5] = "test_key_123" /\ keys \in Seq(DOMAIN DefaultKeys)
    BY <1>1
  <1> HIDE DEF keys
  <1>3. ASSUME NEW k \in DOMAIN DefaultKeys PROVE \E i \in 1..Len(keys) : keys[i] = k
    BY <1>1, <1>2
  <1> QED
    BY <1>2, <1>3 DEF keys

\* Before serve begins nothing is registered, and nobody calls.
LEMMA RpcInitInv == RpcInit => RpcInv
  <1> SUFFICES ASSUME RpcInit PROVE RpcInv
    OBVIOUS
  <1>1. \A c \in Callers : caller[c].at = "idle"
    BY DEF RpcInit, KeysInit, Idle
  <1>2. call = [c \in RpcCalls |-> NoCall] /\ server = "starting" /\ writing = FALSE
    BY DEF RpcInit, ServeInit
  <1>3. NoCall \in CallStates
    BY DEF NoCall, CallStates
  <1>4. Registering
    <2>1. /\ pending \in Seq(DOMAIN DefaultKeys)
          /\ \A k \in DOMAIN DefaultKeys : \E i \in 1..Len(pending) : pending[i] = k
      BY AllDefaultKeysPending DEF RpcInit, ServeInit
    <2> QED
      BY <1>2, <2>1 DEF Registering, ServerStates
  <1>5. \A c \in RpcCalls : CallKeyed(c)
    BY <1>2 DEF CallKeyed, NoCall
  <1> QED
    BY <1>1, <1>2, <1>3, <1>4, <1>5 DEF RpcInv

\* The steps of serve: one key at a time, then the configuration, then the address.
LEMMA ServeKeepsInv ==
    ASSUME RpcInv, LockForDefaultKey \/ RegisterDefaultKey \/ BuildTls \/ Bind
    PROVE  RpcInv'
  <1>1. UNCHANGED <<auth_enabled, caller, call>>
    BY DEF LockForDefaultKey, RegisterDefaultKey, BuildTls, Bind, Serving
  <1>2. CASE LockForDefaultKey
    <2>1. UNCHANGED <<api_keys, server, pending>> /\ writing'
          /\ auth_enabled /\ pending # <<>> /\ writing' \in BOOLEAN
      BY <1>2 DEF LockForDefaultKey
    <2>2. Registering'
      BY <1>1, <2>1 DEF RpcInv, Registering
    <2>3. \A c \in RpcCalls : CallKeyed(c)'
      BY <1>1, <2>1 DEF RpcInv, CallKeyed
    <2> QED
      BY <1>1, <2>2, <2>3 DEF RpcInv
  <1>3. CASE RegisterDefaultKey
    <2>1. /\ writing /\ writing' = FALSE /\ pending' = Tail(pending) /\ server' = server
          /\ DOMAIN api_keys' = DOMAIN api_keys \cup {Head(pending)}
      BY <1>3 DEF RegisterDefaultKey, register_key
    <2>2. /\ auth_enabled /\ pending # <<>> /\ pending \in Seq(DOMAIN DefaultKeys)
          /\ server \in ServerStates \ {"built", "serving"}
      BY <2>1 DEF RpcInv, Registering
    <2>3. /\ pending' \in Seq(DOMAIN DefaultKeys) /\ Head(pending) = pending[1]
          /\ Len(pending') = Len(pending) - 1 /\ Len(pending) \in Nat
          /\ \A i \in 1..Len(pending') : pending'[i] = pending[i + 1]
      BY <2>1, <2>2
    <2>4. ASSUME NEW k \in DOMAIN DefaultKeys \ DOMAIN api_keys'
          PROVE  \E i \in 1..Len(pending') : pending'[i] = k
      <3>1. PICK j \in 1..Len(pending) : pending[j] = k
        BY <2>1, <2>4 DEF RpcInv, Registering
      <3>2. j # 1
        BY <2>1, <2>3, <2>4, <3>1
      <3>3. j - 1 \in 1..Len(pending') /\ pending'[j - 1] = k
        BY <2>3, <3>1, <3>2
      <3> QED
        BY <3>3
    <2>5. Registering'
      BY <1>1, <2>1, <2>2, <2>3, <2>4 DEF Registering
    <2>6. \A c \in RpcCalls : CallKeyed(c)'
      BY <1>1, <2>1, <2>2 DEF RpcInv, CallKeyed
    <2> QED
      BY <1>1, <2>5, <2>6 DEF RpcInv
  <1>4. CASE BuildTls
    <2>1. /\ server = "starting" /\ server' \in {"failed", "built"}
          /\ auth_enabled => pending = <<>>
          /\ UNCHANGED <<api_keys, pending, writing>>
      BY <1>4 DEF BuildTls, KeysDone
    <2>2. Registering'
      BY <1>1, <2>1 DEF RpcInv, Registering, ServerStates
    <2>3. \A c \in RpcCalls : CallKeyed(c)'
      BY <1>1, <2>1 DEF RpcInv, CallKeyed
    <2> QED
      BY <1>1, <2>2, <2>3 DEF RpcInv
  <1>5. CASE Bind
    <2>1. /\ server = "built" /\ server' \in {"serving", "failed"}
          /\ UNCHANGED <<api_keys, pending, writing>>
      BY <1>5 DEF Bind
    <2>2. Registering'
      BY <1>1, <2>1 DEF RpcInv, Registering, ServerStates
    <2>3. \A c \in RpcCalls : CallKeyed(c)'
      BY <1>1, <2>1 DEF RpcInv, CallKeyed
    <2> QED
      BY <1>1, <2>2, <2>3 DEF RpcInv
  <1> QED
    BY <1>2, <1>3, <1>4, <1>5

\* A call that moves keeps the invariant if what it becomes does.
LEMMA CallingKeepsInv ==
    ASSUME RpcInv, NEW c \in RpcCalls, NEW new \in CallStates, Calling(c, new),
           new.at \in {"sent", "admitted", "handler"} => server = "serving",
           auth_enabled /\ new.at \in {"admitted", "handler"}
               /\ new.method \notin DOMAIN Reflection => new.key \in DOMAIN api_keys,
           auth_enabled /\ new.status = "unauthenticated" =>
               new.key \notin DOMAIN DefaultKeys
    PROVE  RpcInv'
  <1>1. /\ call' = [call EXCEPT ![c] = new]
        /\ UNCHANGED <<api_keys, server, pending, writing, auth_enabled, caller>>
    BY DEF Calling, Serving
  <1>2. call' \in [RpcCalls -> CallStates] /\ call'[c] = new
        /\ \A d \in RpcCalls \ {c} : call'[d] = call[d]
    BY <1>1 DEF RpcInv
  <1>3. Registering'
    BY <1>1 DEF RpcInv, Registering
  <1>4. \A d \in RpcCalls : CallKeyed(d)'
    BY <1>1, <1>2 DEF RpcInv, CallKeyed
  <1> QED
    BY <1>1, <1>2, <1>3, <1>4 DEF RpcInv

\* Whoever is admitted has a registered key, and whoever is refused has no default one:
\* while the server serves, nobody has the lock on the keys and they are all there.
LEMMA InterceptorSound ==
    ASSUME RpcInv, server = "serving", auth_enabled, NEW key
    PROVE  /\ Admits(key, KeysFree /\ ~writing) => key \in DOMAIN api_keys
           /\ ~Admits(key, KeysFree /\ ~writing) => key \notin DOMAIN DefaultKeys
  <1>1. KeysFree
    BY DEF RpcInv, KeysFree
  <1>2. pending = <<>> /\ ~writing
    BY DEF RpcInv, Registering
  <1>3. DOMAIN DefaultKeys \subseteq DOMAIN api_keys
    BY <1>2 DEF RpcInv, Registering
  <1>4. "none" \notin DOMAIN DefaultKeys
    BY DEF DefaultKeys
  <1> QED
    BY <1>1, <1>2, <1>3, <1>4 DEF Admits

\* Every step of serve and of a call keeps it.
LEMMA RpcStepInv == RpcInv /\ [RpcNext]_rpcVars => RpcInv'
  <1> SUFFICES ASSUME RpcInv, [RpcNext]_rpcVars PROVE RpcInv'
    OBVIOUS
  <1>1. \A c \in RpcCalls : call[c] \in CallStates /\ CallKeyed(c)
    BY DEF RpcInv
  <1>2. ASSUME NEW c \in RpcCalls, NEW m \in Exercised, NEW key \in Keys \cup {"none"},
               SendCall(c, m, key)
        PROVE  RpcInv'
    <2>1. CASE server = "serving"
      <3> DEFINE new == [NoCall EXCEPT !.at = "sent", !.method = m, !.key = key]
      <3>1. new \in CallStates /\ new.at = "sent" /\ new.status = "none"
        BY DEF CallStates, NoCall
      <3>2. Calling(c, new)
        BY <1>2, <2>1 DEF SendCall
      <3> HIDE DEF new
      <3> QED
        BY <2>1, <3>1, <3>2, CallingKeepsInv
    <2>2. CASE server # "serving"
      <3> DEFINE new == [NoCall EXCEPT !.at = "ended", !.status = "unknown"]
      <3>1. new \in CallStates /\ new.at = "ended" /\ new.status = "unknown"
        BY DEF CallStates, NoCall
      <3>2. Calling(c, new)
        BY <1>2, <2>2 DEF SendCall
      <3> HIDE DEF new
      <3> QED
        BY <3>1, <3>2, CallingKeepsInv
    <2> QED
      BY <2>1, <2>2
  <1>3. ASSUME NEW c \in RpcCalls, Intercept(c) PROVE RpcInv'
    <2> DEFINE pass == call[c].method \in DOMAIN Reflection
                          \/ Admits(call[c].key, KeysFree /\ ~writing)
    <2>1. call[c].at = "sent" /\ server = "serving"
      BY <1>1, <1>3 DEF Intercept, CallKeyed
    <2>2. CASE pass
      <3> DEFINE new == [call[c] EXCEPT !.at = "admitted"]
      <3>1. /\ new \in CallStates /\ new.at = "admitted" /\ new.status = call[c].status
            /\ new.method = call[c].method /\ new.key = call[c].key
        BY <1>1 DEF CallStates
      <3>2. Calling(c, new)
        BY <1>3, <2>2 DEF Intercept
      <3>3. auth_enabled /\ call[c].method \notin DOMAIN Reflection =>
                call[c].key \in DOMAIN api_keys
        BY <2>1, <2>2, InterceptorSound
      <3> HIDE DEF new
      <3> QED
        BY <1>1, <2>1, <3>1, <3>2, <3>3, CallingKeepsInv DEF CallKeyed
    <2>3. CASE ~pass
      <3> DEFINE new == [call[c] EXCEPT !.at = "ended", !.status = "unauthenticated"]
      <3>1. new \in CallStates /\ new.at = "ended" /\ new.key = call[c].key
        BY <1>1 DEF CallStates
      <3>2. Calling(c, new)
        BY <1>3, <2>3 DEF Intercept
      <3>3. auth_enabled => call[c].key \notin DOMAIN DefaultKeys
        BY <2>1, <2>3, InterceptorSound
      <3> HIDE DEF new
      <3> QED
        BY <3>1, <3>2, <3>3, CallingKeepsInv
    <2> QED
      BY <2>2, <2>3
  <1>4. ASSUME NEW c \in RpcCalls, Dispatch(c) PROVE RpcInv'
    <2>1. call[c].at = "admitted"
      BY <1>4 DEF Dispatch
    <2>2. CASE call[c].method \in DOMAIN Router
      <3> DEFINE new == [call[c] EXCEPT !.at = "handler"]
      <3>1. /\ new \in CallStates /\ new.at = "handler" /\ new.status = call[c].status
            /\ new.method = call[c].method /\ new.key = call[c].key
        BY <1>1 DEF CallStates
      <3>2. Calling(c, new)
        BY <1>4, <2>2 DEF Dispatch
      <3> HIDE DEF new
      <3> QED
        BY <1>1, <2>1, <3>1, <3>2, CallingKeepsInv DEF CallKeyed
    <2>3. CASE call[c].method \notin DOMAIN Router
      <3> DEFINE new == [call[c] EXCEPT !.at = "ended", !.status = "unimplemented"]
      <3>1. new \in CallStates /\ new.at = "ended" /\ new.status = "unimplemented"
        BY <1>1 DEF CallStates
      <3>2. Calling(c, new)
        BY <1>4, <2>3 DEF Dispatch
      <3> HIDE DEF new
      <3> QED
        BY <3>1, <3>2, CallingKeepsInv
    <2> QED
      BY <2>2, <2>3
  <1>5. ASSUME NEW c \in RpcCalls, AnswerMessage(c) PROVE RpcInv'
    <2>1. call[c].at = "handler"
      BY <1>5 DEF AnswerMessage
    <2>2. CASE Router[call[c].method] = "unary"
      <3> DEFINE new == [call[c] EXCEPT !.got = 1, !.at = "ended", !.status = "ok"]
      <3>1. new \in CallStates /\ new.at = "ended" /\ new.status = "ok"
        BY <1>1 DEF CallStates
      <3>2. Calling(c, new)
        BY <1>5, <2>2 DEF AnswerMessage
      <3> HIDE DEF new
      <3> QED
        BY <3>1, <3>2, CallingKeepsInv
    <2>3. CASE Router[call[c].method] # "unary"
      <3> DEFINE new == [call[c] EXCEPT !.got = @ + 1]
      <3>1. /\ new \in CallStates /\ new.at = "handler" /\ new.status = call[c].status
            /\ new.method = call[c].method /\ new.key = call[c].key
        BY <1>1, <2>1 DEF CallStates
      <3>2. Calling(c, new)
        BY <1>5, <2>3 DEF AnswerMessage
      <3> HIDE DEF new
      <3> QED
        BY <1>1, <2>1, <3>1, <3>2, CallingKeepsInv DEF CallKeyed
    <2> QED
      BY <2>2, <2>3
  <1>6. ASSUME NEW c \in RpcCalls, NEW status \in {"ok", "error", "cancelled"},
               Calling(c, [call[c] EXCEPT !.at = "ended", !.status = status])
        PROVE  RpcInv'
    <2> DEFINE new == [call[c] EXCEPT !.at = "ended", !.status = status]
    <2>1. new \in CallStates /\ new.at = "ended" /\ new.status = status
      BY <1>1 DEF CallStates
    <2>2. Calling(c, new)
      BY <1>6
    <2> HIDE DEF new
    <2> QED
      BY <2>1, <2>2, CallingKeepsInv
  <1>7. ASSUME NEW c \in RpcCalls, EndStream(c) \/ Refuse(c) \/ CancelCall(c) PROVE RpcInv'
    BY <1>6, <1>7 DEF EndStream, Refuse, CancelCall
  <1>8. ASSUME LockForDefaultKey \/ RegisterDefaultKey \/ BuildTls \/ Bind PROVE RpcInv'
    BY <1>8, ServeKeepsInv
  <1>9. CASE UNCHANGED rpcVars
    BY <1>9 DEF RpcInv, Registering, CallKeyed, rpcVars, keyVars
  <1> QED
    BY <1>2, <1>3, <1>4, <1>5, <1>7, <1>8, <1>9 DEF RpcNext

\* No handler runs for a key that is not registered, and no default key is refused, for
\* any number of calls and whatever their order against serve's own steps (serve,
\* AuthInterceptor::call).
THEOREM OnlyKeyedHandled == RpcSpec => []KeyedOnly
  <1>1. RpcInv => KeyedOnly
    BY DEF RpcInv, CallKeyed, KeyedOnly
  <1> QED
    BY <1>1, RpcInitInv, RpcStepInv, PTL DEF RpcSpec

-----------------------------------------------------------------------------
(* Telemetry: what the table has is announced.  In between, an agent may be in the     *)
(* table that no stream has counted yet, and a count may be in a stream that has not   *)
(* sent it; with both said, the property is inductive.                                 *)

StreamStates == [at : {"open", "store", "count", "send"}, agent : Reporters \cup {"none"},
                 total_nodes : Nat]

\* The agents that somebody has counted, or was about to when its client went away.
Counting == {stream[s].agent : s \in {r \in Streams : stream[r].at = "count"}}
Counted == agents \ (unsent \cup Counting)

\* An update that says at least n was sent or is about to be.
Heard(n) ==
    \/ \E i \in 1..Len(sent) : n <= sent[i]
    \/ \E s \in Streams : stream[s].at = "send" /\ n <= stream[s].total_nodes

TelemetryInv ==
    /\ IsFiniteSet(agents)
    /\ sent \in Seq(Nat)
    /\ stream \in [Streams -> StreamStates]
    /\ Counted # {} => Heard(Cardinality(Counted))

\* What is heard stays heard as long as fewer agents are counted.
LEMMA FewerHeard ==
    ASSUME TelemetryInv, NEW S, S \subseteq Counted, S # {}
    PROVE  Heard(Cardinality(S))
  <1>1. IsFiniteSet(Counted)
    BY FS_Subset DEF TelemetryInv, Counted
  <1>2. Cardinality(S) <= Cardinality(Counted) /\ Cardinality(S) \in Nat
        /\ Cardinality(Counted) \in Nat
    BY <1>1, FS_Subset, FS_CardinalityType
  <1>3. Heard(Cardinality(Counted))
    BY DEF TelemetryInv
  <1>4. /\ \A i \in 1..Len(sent) : sent[i] \in Nat
        /\ \A s \in Streams : stream[s].total_nodes \in Nat
    BY DEF TelemetryInv, StreamStates
  <1> QED
    BY <1>2, <1>3, <1>4 DEF Heard

\* At the start the table is empty.
LEMMA TelemetryInitInv == TelemetryInit => TelemetryInv
  <1> SUFFICES ASSUME TelemetryInit PROVE TelemetryInv
    OBVIOUS
  <1>1. agents = {} /\ sent = <<>> /\ stream = [s \in Streams |-> Open]
    BY DEF TelemetryInit
  <1>2. Open \in StreamStates
    BY DEF Open, StreamStates
  <1> QED
    BY <1>1, <1>2, FS_EmptySet DEF TelemetryInv, Counted

\* Every step of a stream keeps it, a dropped one included.
LEMMA TelemetryStepInv == TelemetryInv /\ [TelemetryNext]_telemetryVars => TelemetryInv'
  <1> SUFFICES ASSUME TelemetryInv, [TelemetryNext]_telemetryVars PROVE TelemetryInv'
    OBVIOUS
  <1>1. /\ IsFiniteSet(agents) /\ sent \in Seq(Nat) /\ stream \in [Streams -> StreamStates]
        /\ \A s \in Streams : stream[s] \in StreamStates
    BY DEF TelemetryInv
  <1>2. Open \in StreamStates /\ Open.at = "open"
    BY DEF Open, StreamStates
  <1>3. ASSUME NEW s \in Streams, NEW a \in Reporters, Receive(s, a) PROVE TelemetryInv'
    <2> DEFINE new == [stream[s] EXCEPT !.at = "store", !.agent = a]
    <2>1. new \in StreamStates /\ new.at = "store" /\ stream[s].at = "open"
      BY <1>1, <1>3 DEF Receive, StreamStates
    <2>2. stream' = [stream EXCEPT ![s] = new] /\ UNCHANGED <<agents, sent, unsent>>
      BY <1>3 DEF Receive, Move
    <2> HIDE DEF new
    <2>3. /\ stream' \in [Streams -> StreamStates] /\ stream'[s] = new
          /\ \A r \in Streams \ {s} : stream'[r] = stream[r]
      BY <1>1, <2>1, <2>2
    <2>4. Counted' = Counted
      BY <2>1, <2>2, <2>3 DEF Counted, Counting
    <2>5. Counted # {} => Heard(Cardinality(Counted))'
      BY <2>1, <2>2, <2>3, <2>4 DEF TelemetryInv, Heard
    <2> QED
      BY <1>1, <2>2, <2>3, <2>4, <2>5 DEF TelemetryInv
  <1>4. ASSUME NEW s \in Streams, Store(s) PROVE TelemetryInv'
    <2> DEFINE new == [stream[s] EXCEPT !.at = "count"]
    <2>1. /\ new \in StreamStates /\ new.at = "count" /\ new.agent = stream[s].agent
          /\ stream[s].at = "store"
      BY <1>1, <1>4 DEF Store, StreamStates
    <2>2. /\ stream' = [stream EXCEPT ![s] = new] /\ UNCHANGED <<sent, unsent>>
          /\ agents' = agents \cup {stream[s].agent}
      BY <1>4 DEF Store, Move
    <2> HIDE DEF new
    <2>3. /\ stream' \in [Streams -> StreamStates] /\ stream'[s] = new
          /\ \A r \in Streams \ {s} : stream'[r] = stream[r]
      BY <1>1, <2>1, <2>2
    <2>4. Counted' \subseteq Counted
      <3>1. Counting' = Counting \cup {stream[s].agent}
        BY <2>1, <2>3 DEF Counting
      <3> QED
        BY <2>2, <3>1 DEF Counted
    <2>5. ASSUME Counted' # {} PROVE Heard(Cardinality(Counted))'
      <3>1. Heard(Cardinality(Counted'))
        BY <2>4, <2>5, FewerHeard
      <3> QED
        BY <2>1, <2>2, <2>3, <3>1 DEF Heard
    <2>6. IsFiniteSet(agents')
      BY <1>1, <2>2, FS_AddElement
    <2> QED
      BY <1>1, <2>2, <2>3, <2>5, <2>6 DEF TelemetryInv
  <1>5. ASSUME NEW s \in Streams, Count(s) PROVE TelemetryInv'
    <2> DEFINE new == [stream[s] EXCEPT !.at = "send", !.total_nodes = Cardinality(agents)]
    <2>1. Cardinality(agents) \in Nat
      BY <1>1, FS_CardinalityType
    <2>2. new \in StreamStates /\ new.at = "send" /\ new.total_nodes = Cardinality(agents)
      BY <1>1, <2>1 DEF StreamStates
    <2>3. stream' = [stream EXCEPT ![s] = new] /\ UNCHANGED <<agents, sent, unsent>>
      BY <1>5 DEF Count, Move
    <2> HIDE DEF new
    <2>4. stream' \in [Streams -> StreamStates] /\ stream'[s] = new
      BY <1>1, <2>2, <2>3
    <2>5. Cardinality(Counted') <= Cardinality(agents)
      <3>1. Counted' \subseteq agents
        BY <2>3 DEF Counted
      <3> QED
        BY <1>1, <3>1, FS_Subset
    <2>6. Heard(Cardinality(Counted))'
      BY <2>2, <2>4, <2>5 DEF Heard
    <2> QED
      BY <1>1, <2>3, <2>4, <2>6 DEF TelemetryInv
  <1>6. ASSUME NEW s \in Streams, Broadcast(s) PROVE TelemetryInv'
    <2>1. /\ stream[s].at = "send" /\ stream' = [stream EXCEPT ![s] = Open]
          /\ sent' = Append(sent, stream[s].total_nodes) /\ UNCHANGED <<agents, unsent>>
      BY <1>6 DEF Broadcast, Move
    <2>2. /\ stream' \in [Streams -> StreamStates] /\ stream'[s] = Open
          /\ \A r \in Streams \ {s} : stream'[r] = stream[r]
      BY <1>1, <1>2, <2>1
    <2>3. stream[s].total_nodes \in Nat
      BY <1>1 DEF StreamStates
    <2>4. /\ sent' \in Seq(Nat) /\ Len(sent') = Len(sent) + 1 /\ Len(sent) \in Nat
          /\ sent'[Len(sent) + 1] = stream[s].total_nodes
          /\ \A i \in 1..Len(sent) : sent'[i] = sent[i]
      BY <1>1, <2>1, <2>3
    <2>5. Counted' = Counted
      BY <1>2, <2>1, <2>2 DEF Counted, Counting
    <2>6. ASSUME NEW n, Heard(n) PROVE Heard(n)'
      <3>1. CASE \E i \in 1..Len(sent) : n <= sent[i]
        BY <2>4, <3>1 DEF Heard
      <3>2. CASE n <= stream[s].total_nodes
        <4>1. Len(sent) + 1 \in 1..Len(sent')
          BY <2>4
        <4> QED
          BY <2>4, <3>2, <4>1 DEF Heard
      <3>3. CASE \E r \in Streams \ {s} :
                     stream[r].at = "send" /\ n <= stream[r].total_nodes
        BY <2>2, <3>3 DEF Heard
      <3> QED
        BY <2>6, <3>1, <3>2, <3>3 DEF Heard
    <2>7. Counted # {} => Heard(Cardinality(Counted))'
      BY <2>5, <2>6 DEF TelemetryInv
    <2> QED
      BY <1>1, <2>1, <2>2, <2>4, <2>5, <2>7 DEF TelemetryInv
  <1>7. ASSUME NEW s \in Streams, DropStream(s) PROVE TelemetryInv'
    <2>1. /\ stream[s].at \in {"store", "count"} /\ stream' = [stream EXCEPT ![s] = Open]
          /\ UNCHANGED <<agents, sent>>
          /\ unsent' = IF stream[s].at = "count" THEN unsent \cup {stream[s].agent} ELSE unsent
      BY <1>7 DEF DropStream, Move
    <2>2. /\ stream' \in [Streams -> StreamStates] /\ stream'[s] = Open
          /\ \A r \in Streams \ {s} : stream'[r] = stream[r]
      BY <1>1, <1>2, <2>1
    <2>3. Counted' = Counted
      <3>1. CASE stream[s].at = "count"
        <4>1. Counting = Counting' \cup {stream[s].agent}
          BY <1>2, <2>2, <3>1 DEF Counting
        <4> QED
          BY <2>1, <3>1, <4>1 DEF Counted
      <3>2. CASE stream[s].at = "store"
        BY <1>2, <2>1, <2>2, <3>2 DEF Counted, Counting
      <3> QED
        BY <2>1, <3>1, <3>2
    <2>4. Counted # {} => Heard(Cardinality(Counted))'
      BY <1>2, <2>1, <2>2, <2>3 DEF TelemetryInv, Heard
    <2> QED
      BY <1>1, <2>1, <2>2, <2>3, <2>4 DEF TelemetryInv
  <1>8. ASSUME UNCHANGED <<agents, stream, sent, unsent>> PROVE TelemetryInv'
    <2>1. Counted' = Counted
      BY <1>8 DEF Counted, Counting
    <2>2. Counted # {} => Heard(Cardinality(Counted))'
      BY <1>8, <2>1 DEF TelemetryInv, Heard
    <2> QED
      BY <1>1, <1>8, <2>1, <2>2 DEF TelemetryInv
  <1>9. ASSUME NEW u \in Subscribers, Subscribe(u) \/ Next_(u) PROVE TelemetryInv'
    BY <1>8, <1>9 DEF Subscribe, Next_
  <1>10. CASE UNCHANGED telemetryVars
    BY <1>8, <1>10 DEF telemetryVars
  <1> QED
    BY <1>3, <1>4, <1>5, <1>6, <1>7, <1>9, <1>10 DEF TelemetryNext

\* Once no stream is between storing and sending, some update announced the whole table,
\* but for agents whose stream was dropped, for any number of streams and whatever the
\* order of their steps (stream_memory_status).
THEOREM TableIsAnnounced == TelemetrySpec => []TableAnnounced
  <1>1. TelemetryInv => TableAnnounced
    <2> SUFFICES ASSUME TelemetryInv,
                        \A s \in Streams : stream[s].at \in {"open", "store"}
                 PROVE  Max({sent[i] : i \in DOMAIN sent} \cup {0})
                            >= Cardinality(agents \ unsent)
      BY DEF TableAnnounced
    <2> DEFINE S == {sent[i] : i \in DOMAIN sent} \cup {0}
    <2>1. sent \in Seq(Nat) /\ DOMAIN sent = 1..Len(sent) /\ Len(sent) \in Nat
      BY DEF TelemetryInv
    <2>2. S \in SUBSET Int /\ S # {} /\ 0 \in S
      BY <2>1
    <2>3. IsFiniteSet(S)
      <3>1. IsFiniteSet(1..Len(sent))
        BY <2>1, FS_Interval
      <3>2. sent \in Surjection(1..Len(sent), {sent[i] : i \in 1..Len(sent)})
        BY <2>1 DEF Surjection
      <3>3. IsFiniteSet({sent[i] : i \in 1..Len(sent)})
        BY <3>1, <3>2, FS_Surjection
      <3> QED
        BY <2>1, <3>3, FS_AddElement
    <2>4. Max(S) \in Int /\ \A y \in S : y <= Max(S)
      <3> HIDE DEF S
      <3> QED
        BY <2>2, <2>3, MaxOf
    <2>5. Counted = agents \ unsent
      BY DEF Counted, Counting
    <2>6. Cardinality(Counted) \in Nat
      <3>1. IsFiniteSet(Counted)
        BY FS_Subset DEF Counted, TelemetryInv
      <3> QED
        BY <3>1, FS_CardinalityType
    <2>7. CASE Counted = {}
      <3>1. Cardinality(Counted) = 0
        BY <2>7, FS_EmptySet
      <3> HIDE DEF S
      <3>2. 0 <= Max(S)
        BY <2>2, <2>4
      <3> QED
        BY <2>5, <3>1, <3>2 DEF S
    <2>8. CASE Counted # {}
      <3>1. PICK i \in 1..Len(sent) : Cardinality(Counted) <= sent[i]
        BY <2>8 DEF TelemetryInv, Heard
      <3>2. sent[i] \in S /\ sent[i] \in Int
        BY <2>1
      <3> HIDE DEF S
      <3>3. Cardinality(Counted) <= Max(S)
        BY <2>4, <2>6, <3>1, <3>2
      <3> QED
        BY <2>4, <2>5, <2>6, <3>3 DEF S
    <2> QED
      BY <2>7, <2>8
  <1> QED
    BY <1>1, TelemetryInitInv, TelemetryStepInv, PTL DEF TelemetrySpec

-----------------------------------------------------------------------------
(* Sequences of sequences.  FlattenSeq is a function on the indices, each of which has  *)
(* the concatenation so far; there is one such function, and the last of its values     *)
(* grows by one sequence when the sequence of sequences does.                           *)

\* The concatenations of the first sequences, up to n of them.
Flattened(g, seqs, n) ==
    g = [i \in 1..n |-> IF i = 1 THEN seqs[i] ELSE g[i-1] \o seqs[i]]

\* What FlattenSeq computes is the last value of such a function.
LEMMA FlattenByTable ==
    ASSUME NEW seqs, Len(seqs) # 0
    PROVE  FlattenSeq(seqs) = (CHOOSE g : Flattened(g, seqs, Len(seqs)))[Len(seqs)]
  BY DEF FlattenSeq, Flattened

\* What a table of concatenations has at an index.
LEMMA FlattenedAt ==
    ASSUME NEW g, NEW seqs, NEW n, Flattened(g, seqs, n)
    PROVE  \A i \in 1..n : g[i] = IF i = 1 THEN seqs[i] ELSE g[i-1] \o seqs[i]
  BY DEF Flattened

\* Two tables have the same as far as both go.
LEMMA FlattenedAgree ==
    ASSUME NEW seqs, NEW n \in Nat, NEW m \in Nat, n <= m, NEW g, NEW h,
           Flattened(g, seqs, n), Flattened(h, seqs, m)
    PROVE  \A i \in 1..n : g[i] = h[i]
  <1> DEFINE S == {k \in 0..n : \A j \in 1..k : g[j] = h[j]}
  <1>1. S \in SUBSET Int /\ S # {} /\ IsFiniteSet(S)
    <2>1. IsFiniteSet(0..n)
      BY FS_Interval
    <2>2. 0 \in S
      OBVIOUS
    <2>3. S \in SUBSET (0..n) /\ S \in SUBSET Int
      OBVIOUS
    <2> HIDE DEF S
    <2> QED
      BY <2>1, <2>2, <2>3, FS_Subset
  <1> DEFINE k == Max(S)
  <1>2. k \in S /\ \A j \in S : j <= k
    <2> HIDE DEF S
    <2> QED
      BY <1>1, MaxOf
  <1> HIDE DEF k
  <1>3. k = n
    <2> SUFFICES ASSUME k # n PROVE FALSE
      OBVIOUS
    <2> DEFINE next == k + 1
    <2>1. /\ next \in 1..n /\ next \in 1..m /\ next \in Int /\ next > k
          /\ next # 1 => next - 1 \in 1..k
          /\ \A j \in 1..next : j \in 1..k \/ j = next
      BY <1>2
    <2>2. \A j \in 1..k : g[j] = h[j]
      BY <1>2
    <2> HIDE DEF next
    <2>3. /\ g[next] = IF next = 1 THEN seqs[next] ELSE g[next - 1] \o seqs[next]
          /\ h[next] = IF next = 1 THEN seqs[next] ELSE h[next - 1] \o seqs[next]
      BY <2>1, FlattenedAt
    <2>4. g[next] = h[next]
      BY <2>1, <2>2, <2>3
    <2>5. next \in S
      BY <2>1, <2>2, <2>4
    <2> QED
      BY <1>2, <2>1, <2>5
  <1> QED
    BY <1>2, <1>3

\* A table grows by one index.
LEMMA FlattenedGrows ==
    ASSUME NEW seqs, NEW n \in Nat, NEW g, Flattened(g, seqs, n)
    PROVE  LET next == IF n = 0 THEN seqs[1] ELSE g[n] \o seqs[n + 1]
           IN  Flattened([i \in 1..(n + 1) |-> IF i = n + 1 THEN next ELSE g[i]], seqs, n + 1)
  <1> DEFINE next == IF n = 0 THEN seqs[1] ELSE g[n] \o seqs[n + 1]
             h == [i \in 1..(n + 1) |-> IF i = n + 1 THEN next ELSE g[i]]
  <1>1. ASSUME NEW i \in 1..(n + 1) PROVE h[i] = IF i = 1 THEN seqs[i] ELSE h[i-1] \o seqs[i]
    <2>1. CASE i = n + 1
      <3>1. CASE n = 0
        BY <2>1, <3>1
      <3>2. CASE n # 0
        <4>1. n \in 1..(n + 1) /\ n + 1 \in 1..(n + 1) /\ i - 1 = n /\ n # n + 1 /\ i # 1
          BY <2>1, <3>2
        <4> HIDE DEF next
        <4>2. h[n] = g[n] /\ h[n + 1] = next
          BY <4>1
        <4>3. next = g[n] \o seqs[n + 1]
          BY <3>2 DEF next
        <4> HIDE DEF h
        <4> QED
          BY <2>1, <4>1, <4>2, <4>3
      <3> QED
        BY <3>1, <3>2
    <2>2. CASE i # n + 1
      <3>1. i \in 1..n /\ h[i] = g[i]
        BY <2>2
      <3>2. i # 1 => h[i - 1] = g[i - 1]
        BY <3>1
      <3>3. g[i] = IF i = 1 THEN seqs[i] ELSE g[i-1] \o seqs[i]
        BY <3>1, FlattenedAt
      <3> HIDE DEF h
      <3> QED
        BY <3>1, <3>2, <3>3
    <2> QED
      BY <2>1, <2>2
  <1>2. h = [i \in 1..(n + 1) |-> h[i]]
    OBVIOUS
  <1> HIDE DEF h
  <1>3. Flattened(h, seqs, n + 1)
    BY <1>1, <1>2 DEF Flattened
  <1> QED
    BY <1>3 DEF h

\* There is a table for as many sequences as there are.
LEMMA FlattenedExists ==
    ASSUME NEW seqs, NEW n \in Nat
    PROVE  \E g : Flattened(g, seqs, n)
  <1> DEFINE S == {k \in 0..n : \E g : Flattened(g, seqs, k)}
  <1>1. S \in SUBSET Int /\ S # {} /\ IsFiniteSet(S)
    <2>1. IsFiniteSet(0..n)
      BY FS_Interval
    <2>2. Flattened([i \in 1..0 |-> 0], seqs, 0)
      BY DEF Flattened
    <2>3. 0 \in S
      BY <2>2
    <2>4. S \in SUBSET (0..n) /\ S \in SUBSET Int
      OBVIOUS
    <2> HIDE DEF S
    <2> QED
      BY <2>1, <2>3, <2>4, FS_Subset
  <1> DEFINE k == Max(S)
  <1>2. k \in S /\ \A j \in S : j <= k
    <2> HIDE DEF S
    <2> QED
      BY <1>1, MaxOf
  <1> HIDE DEF k
  <1>3. PICK g : Flattened(g, seqs, k)
    BY <1>2
  <1>4. k = n
    <2> SUFFICES ASSUME k # n PROVE FALSE
      OBVIOUS
    <2>1. k \in Nat /\ k + 1 \in 0..n
      BY <1>2
    <2>2. \E h : Flattened(h, seqs, k + 1)
      BY <1>3, <2>1, FlattenedGrows
    <2>3. k + 1 \in S
      BY <2>1, <2>2
    <2> QED
      BY <1>2, <2>3
  <1> QED
    BY <1>3, <1>4


\* No sequence, nothing.
LEMMA FlattenNone == FlattenSeq(<<>>) = <<>>
  BY DEF FlattenSeq

\* One more sequence is appended to what the others give.
LEMMA FlattenOneMore ==
    ASSUME NEW S, NEW s \in Seq(Seq(S)), NEW t \in Seq(Seq(S)), Len(t) = Len(s) + 1,
           \A i \in 1..Len(s) : t[i] = s[i]
    PROVE  FlattenSeq(t) = FlattenSeq(s) \o t[Len(s) + 1]
  <1> DEFINE n == Len(s)
             G == CHOOSE g : Flattened(g, t, n + 1)
             F == CHOOSE g : Flattened(g, s, n)
  <1>1. n \in Nat /\ n + 1 # 0 /\ t[n + 1] \in Seq(S)
    BY ElementOfSeq
  <1>2. Flattened(G, t, n + 1) /\ Flattened(F, s, n)
    <2>1. n + 1 \in Nat
      BY <1>1
    <2>2. (\E g : Flattened(g, t, n + 1)) /\ (\E g : Flattened(g, s, n))
      <3> HIDE DEF n
      <3> QED
        BY <1>1, <2>1, FlattenedExists
    <2> QED
      BY <2>2
  <1>3. FlattenSeq(t) = G[n + 1]
    BY <1>1, FlattenByTable
  <1>4. n # 0 => FlattenSeq(s) = F[n]
    BY FlattenByTable
  <1> HIDE DEF G, F
  <1>5. \A i \in 1..(n + 1) : G[i] = IF i = 1 THEN t[i] ELSE G[i-1] \o t[i]
    BY <1>2, FlattenedAt
  <1>6. CASE n = 0
    <2>1. s = <<>>
      BY <1>6, EmptySeq
    <2>2. G[1] = t[1]
      BY <1>5, <1>6
    <2>3. <<>> \o t[1] = t[1]
      BY <1>1, <1>6, ConcatEmptySeq
    <2> QED
      BY <1>3, <1>6, <2>1, <2>2, <2>3, FlattenNone
  <1>7. CASE n # 0
    <2>1. [i \in 1..n |-> IF i = 1 THEN s[i] ELSE F[i-1] \o s[i]]
              = [i \in 1..n |-> IF i = 1 THEN t[i] ELSE F[i-1] \o t[i]]
      OBVIOUS
    <2>2. Flattened(F, t, n)
      BY <1>2, <2>1 DEF Flattened
    <2>3. n \in 1..n /\ n <= n + 1 /\ n + 1 \in Nat /\ n + 1 \in 1..(n + 1) /\ n + 1 # 1
          /\ (n + 1) - 1 = n
      BY <1>1, <1>7
    <2> HIDE DEF n
    <2>4. F[n] = G[n]
      <3> DEFINE m == n + 1
      <3>1. n <= m /\ m \in Nat /\ Flattened(G, t, m)
        BY <1>2, <2>3
      <3> HIDE DEF m
      <3>2. \A i \in 1..n : F[i] = G[i]
        BY <1>1, <2>2, <3>1, FlattenedAgree
      <3> QED
        BY <2>3, <3>2
    <2>5. G[n + 1] = G[n] \o t[n + 1]
      BY <1>5, <2>3
    <2> QED
      BY <1>3, <1>4, <1>7, <2>4, <2>5 DEF n
  <1> QED
    BY <1>6, <1>7

-----------------------------------------------------------------------------
(* The hints of a stream of PCIe reports: what the agent has, what the channel has and  *)
(* what the task has still to send are together all the hints of the reports it read.   *)

AllHints == Nat \X Measures

HintsInv ==
    /\ metrics \in Seq(SUBSET Measures)
    /\ reader.read \in 0..Len(metrics)
    /\ reader.hints \in Seq(AllHints) /\ hints \in Seq(AllHints) /\ received \in Seq(AllHints)
    /\ reader = [read |-> reader.read, hints |-> reader.hints, running |-> reader.running]
    /\ HintsInOrder

\* The hints of one report.
LEMMA HintsOfType ==
    ASSUME NEW n \in Nat, NEW low PROVE HintsOf(n, low) \in Seq(AllHints)
  <1>1. ASSUME NEW m \in Measures PROVE Hint(n, m, low) \in Seq(AllHints)
    <2>1. <<n, m>> \in AllHints
      BY DEF AllHints
    <2> QED
      BY <2>1 DEF Hint
  <1>2. /\ Hint(n, "prefetch", low) \in Seq(AllHints)
        /\ Hint(n, "coalescing", low) \in Seq(AllHints)
        /\ Hint(n, "compression", low) \in Seq(AllHints)
    BY <1>1 DEF Measures
  <1> QED
    BY <1>2, ConcatProperties DEF HintsOf

\* The hints of the first reports, report by report.
HintsUpTo(seen, k) == [n \in 1..k |-> HintsOf(n, seen[n])]

\* They are sequences of hints, one for each report.
LEMMA HintsUpToType ==
    ASSUME NEW seen, NEW k \in Nat
    PROVE  HintsUpTo(seen, k) \in Seq(Seq(AllHints)) /\ Len(HintsUpTo(seen, k)) = k
  <1>1. \A n \in 1..k : HintsOf(n, seen[n]) \in Seq(AllHints)
    BY HintsOfType
  <1>2. HintsUpTo(seen, k) \in [1..k -> Seq(AllHints)]
    BY <1>1 DEF HintsUpTo
  <1> QED
    BY <1>2

\* A sequence is its first element and the rest.
LEMMA FirstAndRest ==
    ASSUME NEW S, NEW s \in Seq(S), s # <<>>
    PROVE  Head(s) \in S /\ Tail(s) \in Seq(S) /\ s = <<Head(s)>> \o Tail(s)
  <1> DEFINE first == Head(s)
             rest == Tail(s)
  <1>1. /\ first \in S /\ rest \in Seq(S) /\ Len(rest) = Len(s) - 1
        /\ \A i \in 1..Len(rest) : rest[i] = s[i + 1]
    BY HeadTailProperties
  <1>2. first = s[1] /\ Len(s) \in Nat \ {0}
    BY EmptySeq
  <1> HIDE DEF first, rest
  <1>3. <<first>> \in Seq(S) /\ Len(<<first>>) = 1 /\ <<first>>[1] = first
    BY <1>1
  <1>4. /\ <<first>> \o rest \in Seq(S) /\ Len(<<first>> \o rest) = 1 + Len(rest)
        /\ \A i \in 1..(1 + Len(rest)) :
               (<<first>> \o rest)[i] = IF i <= 1 THEN <<first>>[i] ELSE rest[i - 1]
    BY <1>1, <1>3, ConcatProperties
  <1>5. \A i \in 1..Len(s) : s[i] = (<<first>> \o rest)[i]
    BY <1>1, <1>2, <1>3, <1>4
  <1>6. s = <<first>> \o rest
    <2> DEFINE t == <<first>> \o rest
    <2>1. t \in Seq(S) /\ Len(s) = Len(t) /\ \A i \in 1..Len(s) : s[i] = t[i]
      BY <1>1, <1>2, <1>4, <1>5
    <2> HIDE DEF t
    <2>2. s = t
      BY <2>1, SeqEqual
    <2> QED
      BY <2>2 DEF t
  <1> QED
    BY <1>1, <1>6 DEF first, rest

\* At the start nothing has been read, and there is no hint.
LEMMA HintsInitInv == AmplificationInit => HintsInv
  <1> SUFFICES ASSUME AmplificationInit PROVE HintsInv
    OBVIOUS
  <1>1. /\ metrics = <<>> /\ hints = <<>> /\ received = <<>>
        /\ reader = [read |-> 0, hints |-> <<>>, running |-> TRUE]
    BY DEF AmplificationInit
  <1>2. [n \in 1..reader.read |-> HintsOf(n, metrics[n])] = <<>>
    BY <1>1
  <1>3. <<>> \o <<>> \o <<>> = <<>>
    OBVIOUS
  <1>4. HintsInOrder
    BY <1>1, <1>2, <1>3, FlattenNone DEF HintsInOrder
  <1> QED
    BY <1>1, <1>4 DEF HintsInv

\* Every step of the agent and of the task keeps it.
LEMMA HintsStepInv == HintsInv /\ [AmplificationNext]_amplificationVars => HintsInv'
  <1> SUFFICES ASSUME HintsInv, [AmplificationNext]_amplificationVars PROVE HintsInv'
    OBVIOUS
  <1>1. /\ metrics \in Seq(SUBSET Measures) /\ Len(metrics) \in Nat
        /\ reader.read \in 0..Len(metrics)
        /\ reader.hints \in Seq(AllHints) /\ hints \in Seq(AllHints)
        /\ received \in Seq(AllHints)
        /\ reader = [read |-> reader.read, hints |-> reader.hints, running |-> reader.running]
    BY DEF HintsInv
  <1>1a. metricsStream # "gone" => received \o hints \o reader.hints
                                      = FlattenSeq(HintsUpTo(metrics, reader.read))
    BY DEF HintsInv, HintsInOrder, HintsUpTo
  <1>2. ASSUME UNCHANGED <<metrics, reader, hints, received>>,
               metricsStream' = metricsStream \/ metricsStream # "gone"
        PROVE  HintsInv'
    BY <1>2 DEF HintsInv, HintsInOrder
  <1>3. ASSUME NEW low \in SUBSET Measures, SendReport(low) PROVE HintsInv'
    <2>1. metrics' = Append(metrics, low)
          /\ UNCHANGED <<metricsStream, reader, hints, received>>
      BY <1>3 DEF SendReport
    <2>2. /\ metrics' \in Seq(SUBSET Measures) /\ Len(metrics') = Len(metrics) + 1
          /\ \A n \in 1..Len(metrics) : metrics'[n] = metrics[n]
      BY <1>1, <2>1
    <2>3. HintsUpTo(metrics', reader.read) = HintsUpTo(metrics, reader.read)
      BY <1>1, <2>2 DEF HintsUpTo
    <2>4. HintsInOrder'
      BY <1>1a, <1>1, <2>1, <2>3 DEF HintsInOrder, HintsUpTo
    <2> QED
      BY <1>1, <2>1, <2>2, <2>4 DEF HintsInv
  <1>4. ASSUME Disconnect PROVE HintsInv'
    <2>1. /\ metricsStream' = "gone" /\ hints' = <<>>
          /\ UNCHANGED <<metrics, reader, received>>
      BY <1>4 DEF Disconnect
    <2> QED
      BY <1>1a, <1>1, <2>1 DEF HintsInv, HintsInOrder
  <1>5. ASSUME ReadReport PROVE HintsInv'
    <2> DEFINE k == reader.read
               new == HintsOf(k + 1, metrics[k + 1])
    <2>1. /\ reader.hints = <<>> /\ k < Len(metrics) /\ metricsStream # "gone"
          /\ reader' = [reader EXCEPT !.read = k + 1, !.hints = new]
          /\ UNCHANGED <<metrics, metricsStream, hints, received>>
      BY <1>5 DEF ReadReport
    <2>2. k \in Nat /\ k + 1 \in 0..Len(metrics) /\ new \in Seq(AllHints)
      BY <1>1, <2>1, HintsOfType
    <2> HIDE DEF new
    <2>3. reader' = [read |-> k + 1, hints |-> new, running |-> reader.running]
      BY <1>1, <2>1
    <2>4. FlattenSeq(HintsUpTo(metrics, k + 1)) = FlattenSeq(HintsUpTo(metrics, k)) \o new
      <3> DEFINE s == HintsUpTo(metrics, k)
                 t == HintsUpTo(metrics, k + 1)
      <3>1. /\ s \in Seq(Seq(AllHints)) /\ Len(s) = k
            /\ t \in Seq(Seq(AllHints)) /\ Len(t) = k + 1
        BY <2>2, HintsUpToType
      <3>2. t[k + 1] = new /\ \A i \in 1..k : t[i] = s[i]
        BY <2>2 DEF HintsUpTo, new
      <3> HIDE DEF s, t
      <3>3. FlattenSeq(t) = FlattenSeq(s) \o t[k + 1]
        BY <3>1, <3>2, FlattenOneMore
      <3> QED
        BY <3>2, <3>3 DEF s, t
    <2>5. received \o hints = FlattenSeq(HintsUpTo(metrics, k))
      <3>1. received \o hints \in Seq(AllHints)
        BY <1>1, ConcatProperties
      <3>2. (received \o hints) \o <<>> = received \o hints
        BY <3>1, ConcatEmptySeq
      <3> QED
        BY <1>1a, <2>1, <3>2
    <2>6. HintsInOrder'
      BY <2>1, <2>3, <2>4, <2>5 DEF HintsInOrder, HintsUpTo
    <2> QED
      BY <1>1, <2>1, <2>2, <2>3, <2>6 DEF HintsInv
  <1>6. ASSUME SendHint PROVE HintsInv'
    <2>1. reader.hints # <<>> /\ UNCHANGED <<metrics, metricsStream, received>>
      BY <1>6 DEF SendHint
    <2>2. CASE /\ metricsStream = "gone" /\ UNCHANGED hints
               /\ reader' = [reader EXCEPT !.hints = <<>>]
      <3>1. reader' = [read |-> reader.read, hints |-> <<>>, running |-> reader.running]
        BY <1>1, <2>2
      <3> QED
        BY <1>1a, <1>1, <2>1, <2>2, <3>1 DEF HintsInv, HintsInOrder
    <2>3. CASE /\ metricsStream # "gone" /\ hints' = Append(hints, Head(reader.hints))
               /\ reader' = [reader EXCEPT !.hints = Tail(@)]
      <3> DEFINE first == Head(reader.hints)
                 rest == Tail(reader.hints)
      <3>1. first \in AllHints /\ rest \in Seq(AllHints) /\ reader.hints = <<first>> \o rest
        BY <1>1, <2>1, FirstAndRest
      <3>2. reader' = [read |-> reader.read, hints |-> rest, running |-> reader.running]
        BY <1>1, <2>3
      <3>3. hints' = hints \o <<first>> /\ hints' \in Seq(AllHints)
            /\ <<first>> \in Seq(AllHints)
        BY <1>1, <2>3, <3>1, AppendIsConcat, AppendProperties
      <3> HIDE DEF first, rest
      <3>4. received \o hints' \o rest = received \o hints \o reader.hints
        <4>1. received \o (hints \o <<first>>) = (received \o hints) \o <<first>>
          BY <1>1, <3>3, ConcatAssociative
        <4>2. received \o hints \in Seq(AllHints)
          BY <1>1, ConcatProperties
        <4>3. ((received \o hints) \o <<first>>) \o rest
                  = (received \o hints) \o (<<first>> \o rest)
          BY <3>1, <3>3, <4>2, ConcatAssociative
        <4> QED
          BY <3>1, <3>3, <4>1, <4>3
      <3>5. reader'.hints = rest /\ reader'.read = reader.read
        BY <3>2
      <3>6. received' \o hints' \o reader'.hints = FlattenSeq(HintsUpTo(metrics', reader'.read))
        BY <1>1a, <2>1, <2>3, <3>4, <3>5
      <3>7. HintsInOrder'
        BY <3>6 DEF HintsInOrder, HintsUpTo
      <3> QED
        BY <1>1, <2>1, <3>1, <3>2, <3>3, <3>7 DEF HintsInv
    <2> QED
      BY <1>6, <2>2, <2>3 DEF SendHint
  <1>7. ASSUME ReadHint PROVE HintsInv'
    <2> DEFINE first == Head(hints)
               rest == Tail(hints)
    <2>1. /\ hints # <<>> /\ received' = Append(received, first) /\ hints' = rest
          /\ UNCHANGED <<metrics, metricsStream, reader>>
      BY <1>7 DEF ReadHint
    <2>2. first \in AllHints /\ rest \in Seq(AllHints) /\ hints = <<first>> \o rest
      BY <1>1, <2>1, FirstAndRest
    <2> HIDE DEF first, rest
    <2>3. /\ received' = received \o <<first>> /\ received' \in Seq(AllHints)
          /\ <<first>> \in Seq(AllHints)
      BY <1>1, <2>1, <2>2, AppendIsConcat, AppendProperties
    <2>4. received' \o hints' = received \o hints
      BY <1>1, <2>1, <2>2, <2>3, ConcatAssociative
    <2>5. HintsInOrder'
      BY <1>1a, <1>1, <2>1, <2>4 DEF HintsInOrder, HintsUpTo
    <2> QED
      BY <1>1, <2>1, <2>2, <2>3, <2>5 DEF HintsInv
  <1>8. ASSUME RotateCompute \/ RotatePcie \/ (\E chosen : AskEngines(chosen)) PROVE HintsInv'
    BY <1>2, <1>8 DEF RotateCompute, RotatePcie, AskEngines, Matrices
  <1>9. ASSUME FinishReports PROVE HintsInv'
    BY <1>2, <1>9 DEF FinishReports
  <1>10. ASSUME EndReports PROVE HintsInv'
    <2>1. /\ reader' = [reader EXCEPT !.running = FALSE]
          /\ UNCHANGED <<metrics, metricsStream, hints, received>>
      BY <1>10 DEF EndReports
    <2>2. reader' = [read |-> reader.read, hints |-> reader.hints, running |-> FALSE]
      BY <1>1, <2>1
    <2> QED
      BY <1>1a, <1>1, <2>1, <2>2 DEF HintsInv, HintsInOrder, HintsUpTo
  <1>11. CASE UNCHANGED amplificationVars
    BY <1>2, <1>11 DEF amplificationVars
  <1>12. ASSUME NEW low \in {{}, {"compression"}, Measures}, SendReport(low) PROVE HintsInv'
    BY <1>3, <1>12 DEF Measures
  <1> QED
    BY <1>4, <1>5, <1>6, <1>7, <1>8, <1>9, <1>10, <1>11, <1>12 DEF AmplificationNext

\* The hints of every report that was read are with the agent, in the channel or about to
\* be sent, each once and in order, for any channel and any pace (report_pc_ie_metrics).
THEOREM HintsStayInOrder == AmplificationSpec => []HintsInOrder
  <1>1. HintsInv => HintsInOrder
    BY DEF HintsInv
  <1> QED
    BY <1>1, HintsInitInv, HintsStepInv, PTL DEF AmplificationSpec
=============================================================================
