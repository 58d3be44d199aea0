# CYAN FLAME control plane: TLA+ models and proofs

This directory models the programs of the repository in TLA+: the gRPC services in
`src/grpc`, the servers and consoles in `src/bin`, the UAO-QTCAM cache, the TCAM
engines of the `uao-qtcam` crate, the QANBAN and QAGML engines, the Symmetrix crates
and the kernel modules. TLC checks the models on small instances; TLAPS proves the
invariants that matter most for every value of the constants. Paths below are relative
to the repository's root.

`PROJECT.json` is the machine-readable side: it maps every definition to the
lines it models, and lists the runs, one mutant per property, the hazards of the
code with the properties that cover them, and the theorems.

Contents: 1 inventory, 2 modules, 3 runs and bounds, 4 fairness, 5 proofs,
6 findings, 7 behaviour worth knowing, 8 what is not modelled, 9 plan.

## 1. Inventory

| Component | State | Operations | What is hard |
|---|---|---|---|
| UAO-QTCAM cache (`src/uao_qtcam_cache.rs`) | map of compressed entries, compressed size, statistics, each behind its own `std::sync::RwLock` | set (with eviction), get (with expiry), delete, exists, incr, stats, clear | three locks taken in different orders; decisions on sizes read earlier; a lossy codec under counters; `usize` that wraps |
| Allocation service (`src/grpc/allocation.rs`) | allocation records, totals per agent, each behind a `tokio::sync::RwLock` | allocate, free, route, status | a lock held across the await of another; a limit checked before an await and used after; requests dropped between two steps |
| Calibration service (`src/grpc/calibration.rs`) and the compute and PCIe services that rotate in the same way | version, current matrix, broadcast channel | rotation task, fetch, subscription, validation; hints for a stream of PCIe reports | version, matrix and broadcast move in three steps; subscribers lag; a validation reads twice; a bounded channel of hints |
| gRPC composition (`src/grpc/server.rs`), generated code, TLS (`tls.rs`) | one instance of each service, the rotation tasks, calls in flight | serve, a call through stub, interceptor, dispatch and handler | which instance a task works on and which one a request reaches; what is ready when the port opens |
| API keys (`src/grpc/auth.rs`) | hashed keys with rate windows and tiers, behind a tokio lock | register; an interceptor's check that a key exists; `validate_key` and two more that nothing calls | an interceptor that only tries the lock; a limit that no request meets; a window that restarts at a call |
| Certificate manager and service (`src/grpc/certificate.rs`, `certificate_service.rs`) | certificates, fingerprint index, revocation list, its time: four tokio locks | request, renew, revoke, status, OCSP, revocation list | several locks per call, dropped calls, expiry against revocation |
| Telemetry (`telemetry.rs`) | agents' statuses, broadcast channel | report streams, subscription | store, count and announcement are three steps, and streams race |
| GPU registration (`gpu_detection.rs`, `gpu_service.rs`) | registrations | detect, register, tier configuration, list, statistics | one name is recognised twice, once by a hash map in any order |
| Dashboard metrics, operations (`dashboard_metrics.rs`, `operations.rs`) | agents, counters, a sampling task per dashboard | record, stream; health, restart, upgrade stream | tasks whose client stops reading or goes away |
| Control-plane server (`src/bin/control_plane_server.rs`) | cache, engine, models, statistics, behind tokio locks | VXLAN packets, HTTP paths, WebSocket commands | counters in two steps around a call that may panic |
| Daemon, unified server, gRPC server (`src/bin`) | configuration, tasks, shutdown channel | load, spawn, tick, stop | a shutdown sent before a task has been polled |
| Command line, dashboards, fabric program (`src/bin`) | screen, keys, countdown | commands, refreshes | answers of a daemon that does not serve what is asked |
| Engine facades and bandwidth cascade (`src/*_integration.rs`, `src/bandwidth_cascade.rs`) | atomic counters, an engine behind one more lock | store, allocate, batch, insert, lookup | counters read one by one; a route in several tables |
| Unified TCAM engine (`uao-qtcam/src/unified/tcam_engine.rs`) and its HTTP API | one table per engine (three), monitor | insert, lookup, delete, stats | one insertion is four locks long; three lookup algorithms that must agree |
| Second and third generation of TCAM engines, control plane, performance monitor (`uao-qtcam/src/phase2`, `phase3`, `unified`) | tables, hot-route caches, enable flags, counters | insert, redundant and failover lookup, metrics, summary | phases race, and some answer wrongly; nested reads of a lock that lets writers pass |
| QANBAN (`qanban`), QAGML (`qagml`) | routing table, decision cache, windows; memory cache, pending requests, transaction cache | route, process, HTTP requests; load, verify, read, coalesce | bounded caches; a request merged into another thread's |
| Symmetrix crates (`crates`) | prime fields, CRT, tensors; sheaf space and its cached group | arithmetic, folding; add, cohomology, allocate | products and residues at the edge; a cached group while the space changes |
| Kernel modules (`kernel`) | device, control register, counters, spin lock | probe, remove, access, interrupt, status file; CPU selection | counters read without the lock; an interrupt beside an access |

How they interact. Agents reach the gRPC services through tonic; every call is a
task of its own, and a client that goes away makes the server drop the task at
the await it is in. The services share nothing with each other but the key registry
that the interceptor asks: each has its own locks. The calibration services also have a
background task each, and talk to their subscribers through a bounded broadcast channel.
The control-plane server shares one cache, one TCAM facade and one set of models among
its packet, HTTP and WebSocket tasks. The cache and the TCAM engine are libraries called
from many threads or tasks; the facades put one more lock or a set of atomics in front
of an engine. The consoles speak HTTP to a daemon. The programs persist nothing: a restarted
process starts empty, so there is no recovery to model.

What makes each component correct:

* cache: `current_size` is what the map holds; the size limit is overshot by
  racing writers only, and by at most one entry each; snapshots are of one moment;
  no operation is lost from the statistics; no two threads block each other.
* allocation: no agent gets more than the limit; totals and records agree; the
  service is a quota ledger; every call is answered.
* calibration: streams move forward and catch up after losing updates; a fetch is
  never older than what was streamed; validations say nothing untrue; hints arrive once
  each and in order.
* server and keys: the matrix that agents see rotates; no handler runs for an unknown
  key and no default key is refused; a tier's rate limit bounds what is served in a minute
  (it does not: section 6), and what `validate_key` would grant.
* certificates: store, index and revocation list agree whatever is abandoned; a
  list that is handed out has every confirmed revocation; no status is taken back.
* telemetry, GPUs, dashboards: every agent in the table is announced; an agent gets one
  answer about its GPU; the task of a dashboard that is gone ends.
* control-plane server and processes: the counters of a snapshot fit each other; a
  shutdown reaches every task.
* TCAM: no route is lost between the engines; lookups do not miss a confirmed
  route; the engines agree; a redundant lookup answers by the longest match; a facade's
  lookup sees whole routes; the monitor does not stop.
* engines, crates, kernel: arithmetic is exact; a cached group is that of the space; a
  coalesced read is covered by a request; the status file is nearly consistent.

## 2. Modules

| Module | Models | State and actions against the code |
|---|---|---|
| `RwLock` | reader-writer locks (external) | Grants as records. The grants a task holds follow from its control point, so no module has lock variables. |
| `CacheCodec` | `compress`, `decompress`, decimal text of counters | Closed forms of the two loops; values are short byte sequences. |
| `CodecLoops` | the loops of `compress` and `decompress` | A fold per loop, an iteration per step; `data` is the value that a caller stores, longer by a byte with each step. |
| `UaoQtcamCache` | the cache | `cache`, `current_size`, `stats` are the fields; `pc` and `req` are each thread's place and locals. An action is the code between taking one lock and asking for the next. |
| `QuotaLedger` | abstract specification of allocation | Grant within the limit under a fresh id, give back once. |
| `AllocationService` | the allocation service | `allocations`, `agent_allocations`; an action is the code between two awaits; `Cancel` drops a call at an await. Refines `QuotaLedger`. |
| `CalibrationRotation` | rotation, subscription, fetch, validation | `version`, `matrix` and the channel (`sent`, plus a position per receiver); `rotator` is the task; `agent` is what each client holds. |
| `CyanFlameServer` | `serve` over two instances of `CalibrationRotation` | One instance gets the rotation task, the other one the requests, as in `serve`. |
| `ApiKeyAuth` | key registry, rate windows, interceptor | `api_keys` by key; `clock` moves by itself; `granted` is a ghost of what each second admitted. `KeysNext` is what the registry's methods do for whoever calls them; of `validate_key`, `check_allocation_allowed` and `get_amplification_factor` the program has no caller. |
| `CyanFlameRpc` | TLS configuration, server start, calls, dispatch | EXTENDS `ApiKeyAuth`; a file is absent, unreadable or there; `server` is how far `serve` is, `call` is where each call is, and a drop may come at any point. |
| `RevocationLedger` | abstract specification of the certificate service | Issue; decide, publish, confirm a revocation; answers that are true when given. |
| `CertificateManager` | manager and service | The four locked fields by name; the clock is `now`; a certificate is its serial number, and a hash is what was hashed. Refines `RevocationLedger`. |
| `TelemetryService`, `OperationsService`, `DashboardMetrics` | the services of those names | The locked maps by name; an action is the code between two awaits; channels are sequences with the code's bound. |
| `GpuRegistry` | detection, tiers, registration | A GPU's name is the set of markers it contains; the hash map of patterns is met in every order. |
| `AmplificationServices` | compute and PCIe services beyond rotation | The task from reports to hints; what the matrices and answers are made of. |
| `ControlPlaneServer` | the server's packets, requests, sockets | A task per packet or connection; an action is the code between two awaits; panics end the task. |
| `EngineFacades` | the four facades | A counter is the set of calls it includes; tables are sets of routes per phase. |
| `ServerProcesses` | daemon, unified server, gRPC server | `binary` says which; workers are spawned, polled, tick and hear the shutdown. |
| `OperatorConsoles` | command line, two dashboards, fabric program | Keys, requests, refreshes, panics; layout left out. |
| `RoutePrefix` | prefixes and the three lookups | Folds over the tables, step by step as the loops; address width and table width are constants. |
| `TcamEngine` | the unified engine and its API | The three tables, the monitor; strategy chosen in `Init`; an action is the code between two awaits. |
| `TcamControlPlane` | later engines as operators; redundant and failover lookups; a caller of the third generation | A lookup that compares floating-point values is the set of answers it may give. Every phase answers from its table when it gets to run; counters; flags. |
| `PerformanceMonitor` | the monitor on its lock | Waiting writers bar new readers, also nested ones, as parking_lot does. |
| `SymmetrixArithmetic` | fields, CRT, GF(2^32) in three versions, tensors | A field element is the set of its bits; word widths are constants; a loop is a recursive function of the number of its steps. `sample` is what a program computes with. |
| `SheafSpace` | resource space with a cached group | An action is the code under one guard; a group is the matrix it is made of. |
| `MsiDriver` | PCI driver and core kernel module | What `probe` acquired, the register, the spin lock's holder, the counters. |
| `QagmlEngine`, `QanbanEngine` | the two engines with their programs and server | Caches with their bounds; floating-point estimates left out or made inputs. |
| `ServiceProofs`, `CacheProofs`, `CertificateProofs`, `AlgorithmProofs`, `ArithmeticProofs`, `ProgramProofs`, `TableProofs` | theorems, see 5 | `ServiceProofs` is about `AllocationService`, `ApiKeyAuth`, `CyanFlameRpc`, `TelemetryService` and `AmplificationServices`, `AlgorithmProofs` is about `SheafSpace`, `MsiDriver`, `QagmlEngine` and `CodecLoops`, `ArithmeticProofs` about `SymmetrixArithmetic`, `ProgramProofs` about `EngineFacades`, `ServerProcesses`, `ControlPlaneServer`, `GpuRegistry` and `CalibrationRotation`, `TableProofs` about `TcamEngine`, `TcamControlPlane` and `PerformanceMonitor`. |
| `Sums` | theorems about sums and extrema of finite sets, folds over sequences, loops, quotients | What the proofs about totals, sizes and loops rest on. |
| `MC...` | instances for TLC | Values, symmetry. |

Components that share no state share a run: `MCServices`, `MCPrograms`, `MCTables`
and `MCAlgorithms` have a variable `program` that says whose steps a
behaviour shows, while the others wait in an initial state. So states add instead of
multiplying, and nothing is lost, since nothing crosses between them.

Abstractions that all of them share. Names, addresses, hashes and keys are model
values. Logging, message texts, latencies and ratios derived from counters are
left out. Time is a counter that moves by itself. Definitions whose comment
begins with *Slip* are the plausible bugs the mutants put in the place of the
definition they precede; no specification uses them.

## 3. Runs, bounds, and why they are enough

Sizes are those of the `.cfg` files and of the `INSTANCE ... WITH` in the MC modules.
Ids, serial numbers and tasks are interchangeable, so the larger runs use symmetry; it
is used with no liveness property.

| Run | Question | Bounds |
|---|---|---|
| `MCServices` | Allocation, keys, calls, telemetry, operations, GPUs, hints, QAGML, QANBAN (570 thousand states) | Two calls, two agents, two ids, sizes 1 and 2 against a limit of 3: one allocation fits, two may not. Keys: a limit of 2 in 2 seconds over 4, so that a burst straddles a reset. Two connections' worth of calls. Two telemetry streams on a channel of one, three reports: a stream overtakes another and a subscriber lags. Two registrations of one agent. A hints channel of 2 that three hints overfill. Two readers of regions that extend, overlap and repeat each other, and two pending requests. |
| `MCPrograms` | Cache; control-plane server; facades; processes; consoles (1.5 million states) | Cache: two threads, three keys, one TTL that expires, three operations: a race needs two threads, eviction a third key, a drift an INCR before a DELETE. Two values: one is larger than the whole cache (20 bytes against 18); the other one is a counter that fits and that an INCR makes a byte longer, so that removing it wraps the size below zero. Server: one command of every kind, two tasks, three arrivals. Facades: two tasks and one route, which is all that one lookup during one insertion needs. Processes: all three programs, every configuration. |
| `MCTables` | Unified engine; control plane; third generation; monitor (1.4 million states) | Three-bit addresses, a table over one bit, four routes: a default route of metric 0 that is not masked, a short one, two spellings of one longer prefix; two calls, two insertions, one lookup. Plane: three routes of which two match one address. Third generation: three calls, enough to fill a hot slot and hit it. Monitor: a summary, a writer behind it, one more reader. |
| `MCAlgorithms` | Codec, arithmetic, sheaf, driver; streams and validations around rotations; dashboards' tasks (150 thousand states) | All values of up to 11 bytes over two letters: every remainder of the length by the sample rate, for rates 1 to 3. Numbers on both sides of three primes and their products, in an 8-bit word that wraps; field elements at the edges of the reduction. Sheaf: two threads, four calls: an add, a clear and two computations. Driver: two readers, three accesses. Calibration: two agents, one of which validates, a channel of two updates, four versions: two updates wait in order, the third overruns. Dashboard: a channel of one, so that a client that stops reading fills it. |
| `MCCertificates` | Store, index, list, clock | Two calls, two serials, validity 0 and a clock of two days, so that revocation and expiry meet in both orders. |
| `MCCacheDeadlock` | finding | Two threads, one key. |
| `MCCacheIncrDrift` | finding | One thread, twelve INCRs: the tenth reaches two digits. |
| `MCAllocationDeadlock` | finding | One allocation and one release. |
| `MCServerRotation` | finding | One agent, three versions. |
| `MCCertificateRenewal` | finding | One call, one serial. |
| `MCTcamLpm` | finding | One call, a short and a long route. |
| `MCRateLimit` | finding | Three calls of one free-tier key within a minute, against a limit of two. |

Bounds on counters are guards and named `Max...`; `Ids`, `Serials` and `Validators`
bound what is ever issued. `CHECK_DEADLOCK FALSE` is set because every instance stops
when its bound is used up; that calls are answered is a property where it is in question
(`CallsAnswered`, `NoLockCycle`, `StuckOnlyBySummary`), not a matter of TLC's deadlock check.

What the passing runs show:

* `CodecMatchesLoops`, `RecompressStable`: the codec of the model is the one of the
  code; storing again what was read loses nothing more where the rate is exact.
* `SizeAccounting`: the one counter that eviction relies on stays right but for
  the bytes that INCR rewrites (`drift`, a ghost). `OvershootBounded`: reading the
  size before taking the locks costs at most one entry for every other thread, and what
  INCRs made entries grow (`grown`, a ghost) comes on top.
  `SnapshotCoherent`, `EveryGetCounted`: what the locks are for.
* `CheckStillValid`, `QuotaRespected`, `TotalsMatchRecords`,
  `StatusAgreesWithTotal`: the quota is safe against every interleaving and every
  disconnect; an abandoned release leaves a total too high, never too low.
  `RefinesLedger`: seen through its records the service implements `QuotaLedger`.
* `BurstBounded`: whoever calls `validate_key` is granted at most two windows' worth in any
  minute, the price of a window that restarts at a call. This is about the method alone: no
  part of the program calls it, and what is served has no limit (`MCRateLimit`, section 6). `KeyedOnly`: `serve` finishes the registry before it
  accepts, which is what makes an interceptor that only tries the lock sound.
* `StreamBehindMatrix`, `StreamMonotone`, `VerdictSound`, `UpdateDelivered`: the
  three-step rotation is visible, but harmless. `HintsInOrder`: full channels delay
  hints and lose none. `SamplerEnds`: a dashboard that is gone leaves no task.
* `TableAnnounced`: an announcement may come late or too low, but once the streams are
  between reports the whole table has been announced, but for streams that were dropped.
  `TierAnswersAgree`: whatever the hash map's order, both detections name one tier for the
  names that real GPUs have; a free text with two conflicting markers is not among them.
* `CrlMatchesStore`, `CrlAnswerComplete`, `IssuedIndexed`, `StatusForward`: what is
  wrong after a dropped call is exactly what the ghost `dropped` names.
  `RefinesRevocations`: seen through its certificates, its list and its answers the
  service implements `RevocationLedger`. The ledger decides, publishes and confirms in three
  steps, since a client may leave in between, and it gives out a beginning of the list
  with the day that the list has when the answer goes out, since `get_crl` reads the two under
  different locks: the day may be that of a revocation which the answer does not have.
* `LookupsWithinCommands`: hits and misses never outrun the commands.
  `LookupsSeeWholeRoutes`: the facade's lock hides the half-way states of an insertion,
  but for insertions that are dropped or go past the write lock. `ShutdownHeard`: tasks
  subscribe when they are spawned, not when they are first polled.
* `NoRouteVanishes`, `ConfirmedRouteWins`, `ConfirmedRouteFound`, `PhasesAgree`:
  per route, what one engine has more than the next is what is under way or was
  dropped; the first two engines answer by the longest match. `RedundantLongest`: with
  phase 1 enabled the redundant lookup does too, since phase 1 is awaited first.
  `StuckOnlyBySummary`: the one way in which the monitor's nested reads stop it.
* `CohomologyFresh`: a group is filed under the guards it was computed under.
  `ArithmeticExact`: CRT, inverses, fields and folded tensors give what they stand for,
  within the word. `CoalescedCovered`: merging never shrinks a request (the bytes of a
  read that was merged are counted as transferred all the same).
  `SnapshotClose`: a status is never more than one access from consistent.

## 4. Fairness

Safety runs need none. `MCAllocationDeadlock` assumes strong fairness of each
call's next step: tokio's `RwLock` queues its waiters in order, so a call whose lock
is free again and again does get it; clients owe nothing (no fairness on starting
a call). `MCAlgorithms` assumes that the interval ticks (`WF` of `Rotate`), that
the runtime polls every stream, that a validation that has begun is answered, and that
the runtime runs a dashboard's sampling task (`WF` of `SamplerStep`); subscribing,
leaving, fetching, reading and closing are free choices. `MCServerRotation` assumes the
same of the rotation, and that `serve` runs to its end.

## 5. Proofs

All proofs are checked by TLAPS from the `.tla` files alone.

**`Sums`**. Totals, sizes and counts are sums over finite sets. The library defines
them by a recursive function on subsets, and its induction theorems take an operator, which
the provers cannot instantiate. So the induction is done once, on sets: a family of
subsets of a finite set that is not empty has a smallest member (`MinimalSubset`, from the
well-foundedness of proper inclusion), hence a family that is closed under adding an element
is everything (`FiniteSubsetInduction`). From that: a sum does not depend on the order
(`SumRemove`, `SumInsert`), on other functions that agree (`SumAgree`), and changes by what
one summand changes (`SumChange`); bounded summands bound it (`SumBound`).

A fold over a sequence is defined in the same way, by a recursive function on the sets of
positions that takes the greatest one away. A family of such functions is extended
from smaller sets to a larger one, which gives its existence (`FoldExists`) by the smallest set
that would have none; it stays in a set that its steps do not leave (`FoldClosed`);
and on the first k positions it is a step from what it is on the first k - 1
(`LastOfFirst`), so that what holds at 0 and is kept by a step holds at the end
(`PrefixInduction`, by the greatest position at which it holds). A loop of the code is a
function of the number of steps done: it has a run (`LoopRuns`), which never leaves a set that
its steps keep (`RunsStay`).

**`ServiceProofs`: allocation** (assumption `AllocationAssumption`: finitely many tasks, non-empty
agents and ids, sizes and limit below the width of the integer). The invariant is
`IInv == TypeOK /\ LockExclusion /\ CheckStillValid /\ QuotaRespected`.
`QuotaRespected` is not inductive: the step that stores must know that the check it
made some awaits earlier still holds, which is `CheckStillValid`, and that holds
because no other call writes the totals in between, which is `LockExclusion`. One
lemma per action, common lemmas for beginning, moving and ending a call.
Theorems: `TypeCorrect`, `MutualExclusion`, `CheckNeverStale`, `QuotaSafety`, for any
number of calls, agents and ids, disconnects included.

On that invariant rests the accounting: `TotalsExact`, whose invariant says in addition
that what was abandoned is a natural number and that records are finite in number;
`StatusExact`, an action property; and `LedgerRefined`, the refinement of `QuotaLedger`: the
initial state is a ledger's, the one step of a handler that stores is a grant, the one that
removes is a return, all others leave the records alone. Their hypothesis is
`NoWrap`: the limit and one more request do not wrap around 2^64. Without it they are false,
since the limit check itself wraps (section 7); a limit of a few TB satisfies it for every
request that is not near 2^64.

**`ServiceProofs`: keys** (assumption `KeysAssumption`: the minute is positive, the free limit a
natural number; any keys and callers, any length of time). The theorem is about the methods of
the registry, which the program only partly uses (section 6). `BurstBounded` speaks of grants the
registry has forgotten, so it is not inductive. `WindowExact` says what an entry still knows
of them: its count is the number of grants since its window began, nothing was granted later
than a minute after that beginning or later than now, and any span that reaches back less
than a minute from the beginning of the window had at most the limit. A grant either falls
into the window, where the count bounds it, or begins a new one, and then the old window is
what lies behind. Theorem: `BurstsBounded`.

**`ServiceProofs`: calls** (any number of calls). A call is under way only while the server serves
(`CallKeyed`), and `serve` has by then registered all default keys, so nobody holds the
lock on the keys (`Registering`). Theorem: `OnlyKeyedHandled`.

**`ServiceProofs`: telemetry** (any number of streams, agents and subscribers). Between its
steps a stream has stored an agent it has not counted, or holds a count that it has not sent.
`TelemetryInv`: an update that says at least how many agents have been counted (`Counted`) was
sent or is about to be (`Heard`). Theorem: `TableIsAnnounced`.

**`ServiceProofs`: hints** (any capacity, any number of reports). `FlattenSeq` folds a sequence
of sequences by a function on its indices; without an induction theorem the proof makes
the table of that function by hand, one index at a time, and shows that any two tables agree
as far as both go (by the smallest index at which they would not). From that, one more
sequence is appended to what the others give, which is the step that reads a report. Theorem:
`HintsStayInOrder`.

**`CacheProofs`** (assumption `CacheAssumption`; any number of threads, keys, values and
operations, any width of `usize`, any compression ratio). `CacheInv` has the types as far
as sizes and counters go, the exclusion of the three locks, and the accounting of the
size: the bytes stored, what a thread has taken from the map and still owes to the size, and
what INCRs rewrote add up to `current_size` modulo the width. Theorems: `LocksExclude`,
`SizeExact`, `GetsCounted` (each GET under way is counted by its place) and the action
property `SnapshotOfOneMoment`. `OvershootWithin` needs a second invariant, `BoundInv`: a SET
that has read the size has a *claim*, the entry it will add less what it is to free. A claim
is at most one entry (`EntriesFit`), and the bytes stored with all claims stay within the
limit and one entry for every thread but one (`ClaimsFit`). The step that needs the argument is the
check: it reads a size that lacks the other threads' entries, but those are what their
claims are worth. Its hypothesis `NoOverflow` says that the callers store less than `usize`
counts (`MaxEntry * MaxOps < Usize`, true of the run), so that the size that is read is not a
wrapped one (`SizeFits`). The bound itself was corrected on the way: an earlier form allowed for
the net `drift` of INCRs, and TLC found a short counterexample (an INCR that shrinks an entry
hides one that grows another), so the ghost `grown` now counts the growth alone.

**`ProgramProofs`: calibration** (any channel capacity, any number of agents, any number of
rotations). The invariant relates the version, the matrix and what was sent (ever
newer versions, none ahead of the matrix) with what each agent has. Theorems:
`TypeCorrect`, `MatrixTracks`, `StreamNeverAhead`, `VerdictsSound` and the action
property `StreamsMoveForward`.

**`CertificateProofs`** (any number of calls, serials and days). The invariant adds
to the store's properties what makes them inductive: at most one call is
between the status of a certificate and the end of its revocation (`OneRevoking`:
the guard on the certificates is held that long); that call's certificate is
revoked at the time the call took, is not on the list until the call puts it there, and
nothing on the list is younger (`RevocationInv`); serial numbers under issue are new
and distinct (`IssueInv`, `IssuesDistinct`); a question about the list covers what was
confirmed before it (`QuestionInv`); everything confirmed is on the list and
nothing on it is from the future (`ListInv`). `QuietStep` handles all steps that
leave the store alone, disconnects included; the five that write have a lemma each.
Theorems: `TypeCorrect`, `ListMatchesStore`, `ListInOrder`, `ListFresh`,
`ListComplete`, `IndexComplete` and the action property `StatusesMoveForward`.

`RevocationsRefined` is the refinement of `RevocationLedger`. It needs a second invariant, `LedgerInv`: the
revocation that is about to write the list's time is the last of the list and not yet
confirmed, because no other can enter while the guard is held; what `get_crl` took from the list
is still a beginning of it, with all that its client could know of; and a lookup is about a serial
number or a hash. Every step is then one of the ledger: the one that marks a
certificate decides, the one that appends publishes, the one that writes the time
confirms, a lookup tells, `get_crl`'s second half gives, and the others are quiet.

**`AlgorithmProofs`: the sheaf** (any number of threads, nodes and calls). `CohomologyFresh` is not
inductive: a thread that is about to file a group must have computed it from the space
as it is. That is `FiledCurrent`, and it is kept because the thread still holds both read
guards, so that nobody writes stalks or maps. One lemma per action. Theorem:
`GroupAlwaysFresh`.

**`TableProofs`: the engines** (assumptions `PrefixAssumption`, `TcamAssumption` and
`PowerLaws`; finitely many tasks, any routes, any widths of the address and of the table).
The lookups of phases 1 and 2 are folds; by the argument of `Sums` on sets of positions, the
first answers the *first* of the longest matches of any table (`AhgfLongest`), the second
the *last* (`QagfhgLongest`). Conservation is `Conserved` and `Counted`: every step moves one
call, so it changes what is counted at its await by one (`InsertingMove`), as the tables
change; a dropped call moves from the calls to `dropped` (`InsertingDrop`). `Kept`: a confirmed
route, and the route of a call under way, is in every table that it has passed, and a lookup
knows only confirmed routes. `TrieRight`: phase 3 has exactly the long routes in its list,
and in each slot that a short route fills the metric of some short route. That a matching
masked route fills the slot of the address (`FillsSlot`) is arithmetic with powers of two,
of which the provers know nothing: `PowerLaws` states the two laws that are used, 2^n > 0 and
2^(m+n) = 2^m 2^n, and TLC evaluates them on the exponents of each run. Theorems: `RoutesConserved`,
`LongestWins`, `SomethingFound`, `EnginesAgree`.

**`TableProofs`: the control plane** (any calls, routes and phases enabled). A call's answer of phase
1 is the best for what it knows (`CallRight`), and what is joined first is kept as the
fastest. Theorem: `RedundantAnswers`.

**`TableProofs`: the monitor** (any number of threads). The invariant: the waiting writers are
exactly the threads that called a writer and are not inside (`WritersWait`), and a writer
inside excludes everybody else (`WritersExcluded`). If no step is possible somebody is
inside, else some waiting thread could enter; who is inside and cannot go on reads a second
time, so it is a summary, and what bars it can only be a waiting writer. Theorems:
`MonitorExcludes` and, for a non-empty set of threads, `OnlySummaryStops`.

**`ProgramProofs`: the facades** (any number of tasks and routes). The invariant: one writer, or
readers (`WriterAlone`); an insertion under way has reached the tables of its earlier
steps (`InsertionReached`); a route that is in one table and not in another is being
inserted or is exposed (`TornAccounted`); a lookup excludes the inserting writer. Theorem: `WholeRoutesSeen`.

**`ProgramProofs`: the processes** (any configuration and number of ticks): every task of
the daemon is spawned with its receiver, and the shutdown is sent only when the spawning is
over (`HearersFirst`).
Theorem: `ShutdownReachesAll`.

**`ProgramProofs`: the control-plane server** (assumption `ServerAssumption`: finitely many
tasks; any commands and arrivals). `process_command` counts the hit or miss of a cache lookup under one
guard and the command under a later one. A task between the two is *due* (`Due`), and `ServerInv` is
that hits and misses are at most the commands counted and the tasks that are due. The
proof follows one task per step (`DueChange`): counting a lookup makes a task due, counting a command
ends it, and nothing else ends it while the process runs. A panic does not, since the commands
that panic are those of the TCAM, which count no lookup. Theorem: `LookupsNeverAhead`.

**`ProgramProofs`: the GPU registry** (any agents and calls). What an agent was told is the tier of
the type that its registration has (`GpuInv`). The service's table of names and the manager's list of
patterns, with its fallback to the compute capability, are followed for each GPU that an agent
may report: both detections name one type, and the tier of each type is on the list. Theorem:
`TierAnswersConsistent`.

**`AlgorithmProofs`: QAGML** (any number of threads and requests; regions are pairs of integers): a
merge covers both of its regions (`MergedCovers`), and nothing but a merge changes a
request. Theorem: `CoalescedStaysCovered`.

**`AlgorithmProofs`: the driver** (any number of threads and accesses). The status file reads the
counters without the spin lock under which an access moves them. `MsiInv`: one thread is inside the
lock's section (`OneInSection`), so the counters differ by at most the one access it is making
(`CountersClose`); what a status in progress has read the counters have reached since, but for
that access (`ShownBehind`); and without a bound device there is no status and no access
(`NothingUnbound`). Theorem: `StatusNearlyConsistent`.

**`AlgorithmProofs`: the codec** (assumption `RatioAssumption`: the ratio is a positive number; any
bytes, any length). The samples after k bytes are those of the k-th prefix (`Pushed`), the restored
bytes and the next sample's index after k bytes are `Spread` and `Taken`. The step needs how
often a stride begins below k (`StridesAt`), which is arithmetic with quotients: a quotient is
determined by where the number lies (`QuotientIs`). Theorems: `CodecLoopsAgree`, the closed
forms that the cache model uses are what the loops produce; `ExactRatesAreStable`.

**`ArithmeticProofs`** (assumptions `PrimesAssumption`: the moduli are different primes, as
`CRT_PRIMES` are; `SamplesAssumption`: elements of the field have 32 bits; `ShapesAssumption`:
no cache is empty). The behaviour matters little here (`ArithmeticInv`: what is computed with
does not change, and every block has a shape); the work is what the loops return.

* *The field.* Both multiplications are the sum of the operand's shifts, reduced. A reduction is
  additive, and it may be done at the end or at every shift (each step cancels one bit by the
  polynomial, whatever the others are), so the two agree. Squaring is additive, because the
  mixed products cancel, and only zero squares to zero: what is reduced differs from its
  remainder by a multiple of the polynomial (`Divided`), and no multiple but zero has only
  even bits (`SquareZero`). Compressing an address is squaring five times.
* *Folding.* The side of a block is positive and its square fits the cache (`SideIs`). A
  coordinate lies in exactly one stretch of that length (`StartOf`, `StartUnique`), hence a cell in
  exactly one block.
* *Residues.* Built up from division. Euclid's loop keeps the remainders congruent to multiples of the
  number it started from (`EuclidKept`), and ends with 1 below a prime, which is what makes
  `ModInverse` an inverse, and also why a prime that divides a product divides a factor (`EuclidLemma`).
  The kernel inverts by a power: square and multiply computes it (`Powering`: the bits taken so
  far, and the power of the next bit), and Fermat's theorem, by comparing the product of the
  numbers below a prime with that of their multiples, says that it is an inverse
  (`KernelInverse`). A sum of terms, each of which is the residue for its prime and zero for the others, is the
  number (`Reconstructs`), because different primes that divide a number have a product that does
  (`ProductDivides`). The kernel's loops are the exact ones as long as twice the product of the
  primes is within its word (`KernelProductIs`, `KernelStepIn`); with the 31-bit primes of the
  code and 64 bits that is two of them.

Theorems: `FieldAlwaysExact`, `FoldsAlwaysExact`, `CrtAlwaysExact`, and all of it in
`ArithmeticAlwaysExact`.

Only model-checked: liveness and everything under fairness (`UpdateDelivered`, `SamplerEnds`);
the later TCAM engines; the seven findings.

## 6. Findings

Each is a run whose one property quotes the repository and is violated.

* `MCCacheDeadlock`: DELETE (and eviction) take cache, size, statistics; SET, GET and
  STATS take statistics, cache, size. Two threads can block each other for ever.
* `MCCacheIncrDrift`: INCR stores its counter through the lossy codec; from two
  digits on the count is wrong.
* `MCAllocationDeadlock`: allocate and free take the two tokio locks in opposite
  orders, each across an await.
* `MCServerRotation`: `serve` starts the rotation on one instance of the calibration
  service and registers another one, so the matrix that is served never rotates.
* `MCCertificateRenewal`: renewal looks a certificate up by the hash of its PEM, the
  index has the hash of its DER.
* `MCTcamLpm`: the default strategy asks the table of short prefixes before the list
  of long ones, so a short route hides every longer one below it; its answer also names
  the next hop "gateway_radix" whatever the route says.
* `MCRateLimit`: the documents promise 100 requests a minute to the free tier
  (`src/grpc/auth.rs:8`, `16`, `src/grpc/server.rs:129`, `src/bin/unified_server.rs:232`). The
  code that counts and refuses is `validate_key` (`auth.rs:211`), which nothing calls; the
  interceptor (`auth.rs:349`) asks only whether the key exists. So a key is served
  without limit.

## 7. Behaviour worth knowing, without a run of its own

Services.

* A value larger than the cache is stored after everything else was evicted; two
  INCRs that race on a missing key both return 1; INCR changes the length of an entry
  without the size (`src/uao_qtcam_cache.rs:120`, `226`, `220`).
* A release that is dropped between its two steps lowers the agent's quota for good;
  the limit is checked with a sum that wraps near 2^64 TB; a duration of 0, indefinite
  in the proto file, is stored as a day, and nothing ever expires
  (`src/grpc/allocation.rs:129`, `66`, `86`).
* An agent that fetches before it subscribes misses the rotation in between; a validation
  that a rotation crosses may answer neither valid nor outdated
  (`src/grpc/calibration.rs:195`, `226`).
* Like the rate limit, the limits of a tier on allocations and its amplification factor are
  looked up by nobody (`src/grpc/auth.rs:275`, `301`).
* When the TLS configuration fails, `serve` returns and the rotation tasks it spawned go
  on (`src/grpc/server.rs:164`).
* A revocation that is dropped between the status and the list is never listed, and
  cannot be repeated; a renewal checks the old certificate some awaits before it issues
  the new one; a status request by fingerprint is always "unknown"
  (`src/grpc/certificate.rs:352`, `certificate_service.rs:432`, `547`). A validity of so many days
  that the date overflows makes the call panic (`certificate.rs:224`); the model has validities that
  end and generations that fail.
* GPU names that the service takes by capability, or as "4090" or "mi300" alone, are
  refused by the manager; "RTX A1000" contains the marker "a100". The PCIe matrix always
  says generation 4 with 16 lanes. `calculate_network_capacity` and
  `build_metrics_update` are called by nobody.

Programs.

* The calibration dashboard leaves with `?` past the code that restores the terminal; the
  other dashboard's gauge panics over 100 % (no server here answers the path it asks). The
  command line's math status says that the daemon is offline while it runs.
* The TCAM arms of `process_command` reach `block_on` on a thread of the runtime
  (`src/uao_qtcam_integration.rs:494`), which panics: a development build loses the task, a
  release build, which aborts on panic, the server.

TCAM.

* Deleting a route only counts (`uao-qtcam/src/unified/tcam_engine.rs:165`). A dropped
  insertion leaves a route in the first engines only. Two routes of one prefix: the first
  engine keeps the older, the others the newer.
* `QuantumState::from_prefix` shifts by 32 for a default route: a build with
  overflow checks panics on 0.0.0.0/0, which the server's own sample routes contain
  (`uao-qtcam/src/phase2/quantum_state.rs:44`).
* The control plane calls the first phase it awaits the fastest and never updates the
  health it reports; its success rate subtracts two counters that it reads apart
  (`uao-qtcam/src/unified/control_plane.rs:300`). A hot slot of the second and third generation
  answers for every address that falls into it (`phase3/scrtt_v2_engine.rs:126`), the
  compressed factors are truncated without their next hops (`phase3/tensor_decomposition.rs:147`),
  and the third generation's indices are cut to 16 bits (`phase3/scrtt_v3_engine.rs:102`).

Engines, crates, kernel.

* The sheaf never marks capacity as allocated (`crates/symmetrix-sheaf/src/lib.rs:404`), does
  not enforce `max_nodes`, panics on the singular values of an empty matrix, and its groups
  depend on the ends of the maps only.
* The driver's trigger write clears the other bits of the control register, an interrupt
  may clear an error bit that it did not read, and the device may be removed under a reader.
  The kernel's CRT wraps beyond two primes, and its obstruction between 80 and 100 % load
  (`kernel/symmetrix-core.c:255`).
* `GF2_32::inv` does not end for most inputs. The tensor cohomology's H2 is always 0.
* QAGML caches reads by address only, whatever their size; a coalesced read's bytes are counted
  as transferred before it is merged (`bus_width_amplification.rs:231`); the autocorrelation is computed
  once; pending requests are never drained; the model test's verification compares nothing.
* QANBAN: flow id 0 leads to NaN and always to the primary path, load balancing never wins,
  a quality of 0 gives path 4, the full cache drops an arbitrary key, `add_packet` drops
  the results it flushes, and decryption does not invert encryption.

## 8. Not modelled, and why

* X.509, PEM, DER and OCSP encodings, `nvidia-smi` output, HTTP, WebSocket and protobuf
  framing, and terminal layout are I/O or libraries; what they decide (a parse that fails,
  a file that is missing) is an outcome of the actions that call them.
* The linear algebra of the phases (spectral analysis, quantum states, Laplacian,
  prefetch hints), of QANBAN (latency, folding, energy) and of QAGML (estimates, CUDA kernel)
  is floating point. Where a decision compares such numbers the model takes every outcome;
  otherwise nothing modelled reads them.
* The `gfef` predictor that the control-plane server imports is not in the repository; it is an
  external set of models.
* `src/lib.rs` starts no component of its own and returns constants. Benchmarks measure
  time. Tests and scripts were read for what they promise and hold no part of the system. The
  `qanban_*.rs` files beside the crate are copies that no module declares.
* Crash recovery: the programs write nothing that a restart would read, so there is none.

## 9. Plan

Done: every component with state has a module; the findings and the runs; a theorem for every safety
property of the passing runs. Next: abstract specifications of what is not one operation at a time
yet, a bounded map for the cache (without its locks) and a set of routes with longest match for the
engines, each as a PROPERTY of the run that has the component, then as a theorem.
