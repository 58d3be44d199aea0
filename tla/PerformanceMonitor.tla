-------------------------- MODULE PerformanceMonitor --------------------------
(***************************************************************************)
(* The performance monitor of uao-qtcam (unified/performance_monitor.rs):  *)
(* counters behind a parking_lot lock.  That lock lets a waiting writer    *)
(* pass before readers that come later, also before a reader that has the  *)
(* lock and asks for it once more - as summary does, three times.          *)
(***************************************************************************)
EXTENDS Integers

CONSTANTS Threads, MaxRecords    \* MaxRecords: bound on record_latency

VARIABLES metrics,   \* total_operations, min and max latency
          doing,     \* the operation of each thread, or "none"
          left,      \* Waiting for the lock, or how many nested reads are left
          writerWaits   \* threads that wait to write: readers stay behind them

monitorVars == <<metrics, doing, left, writerWaits>>

Waiting == -1
Latencies == {1, 2}
NoLatency == 3       \* stands for u64::MAX
Fresh == [ops |-> 0, min |-> NoLatency, max |-> 0]

Readers == {"avg_latency_ns", "ops_per_second", "summary"}
Writers == {"record_latency", "reset"}
Nested_ResetReads(op) == IF op \in {"summary", "reset"} THEN 3 ELSE 0
\* The reads that an operation makes while it holds its guard.
Nested(op) == IF op = "summary" THEN 3 ELSE 0

MonitorInit ==
  /\ metrics = Fresh
  /\ doing = [t \in Threads |-> "none"] /\ left = [t \in Threads |-> Waiting]
  /\ writerWaits = {}

Inside(t) == doing[t] # "none" /\ left[t] # Waiting
Free(t, op) ==
  \A u \in Threads \ {t} : Inside(u) => op \in Readers /\ doing[u] \in Readers
MayRead(t) == writerWaits = {} /\ Free(t, "summary")

Call(t, op) ==
  /\ doing[t] = "none" /\ (op \in Writers => metrics.ops < MaxRecords)
  /\ doing' = [doing EXCEPT ![t] = op] /\ left' = [left EXCEPT ![t] = Waiting]
  /\ writerWaits' = IF op \in Writers THEN writerWaits \cup {t} ELSE writerWaits
  /\ UNCHANGED metrics

MayEnter(t) ==
  /\ doing[t] # "none" /\ left[t] = Waiting
  /\ \/ doing[t] \in Writers /\ Free(t, doing[t])
     \/ doing[t] \in Readers /\ MayRead(t)
Enter(t) ==
  /\ MayEnter(t)
  /\ left' = [left EXCEPT ![t] = Nested(doing[t])] /\ writerWaits' = writerWaits \ {t}
  /\ UNCHANGED <<metrics, doing>>

\* summary calls avg_latency_ns, min_latency_ns and ops_per_second under its guard.
MayReadAgain(t) == Inside(t) /\ left[t] > 0 /\ doing[t] \in Readers /\ MayRead(t)
ReadAgain(t) ==
  /\ MayReadAgain(t)
  /\ left' = [left EXCEPT ![t] = @ - 1]
  /\ UNCHANGED <<metrics, doing, writerWaits>>

Leave(t) ==
  /\ doing[t] # "none" /\ left[t] = 0
  /\ \/ /\ doing[t] = "record_latency"
        /\ \E l \in Latencies :
             metrics' = [ops |-> metrics.ops + 1,
                         min |-> IF l < metrics.min THEN l ELSE metrics.min,
                         max |-> IF l > metrics.max THEN l ELSE metrics.max]
     \/ doing[t] = "reset" /\ metrics' = Fresh
     \/ doing[t] \in Readers /\ UNCHANGED metrics
  /\ doing' = [doing EXCEPT ![t] = "none"] /\ left' = [left EXCEPT ![t] = Waiting]
  /\ UNCHANGED writerWaits

MonitorNext ==
  \E t \in Threads :
    \/ \E op \in Readers \cup Writers : Call(t, op)
    \/ Enter(t) \/ ReadAgain(t) \/ Leave(t)

\* The monitor stops for good only where a summary that has the lock waits behind a
\* writer that waits for the summary: no other operations block each other.
StuckOnlyBySummary ==
  (\A t \in Threads :
     doing[t] # "none" /\ left[t] # 0 /\ ~ MayEnter(t) /\ ~ MayReadAgain(t))
  => /\ writerWaits # {}
     /\ \E t \in Threads : doing[t] = "summary" /\ Inside(t)
=============================================================================
