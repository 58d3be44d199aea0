------------------------------ MODULE MsiDriver ------------------------------
(***************************************************************************)
(* The two kernel modules under kernel/: the PCI driver of the storage-    *)
(* amplification FPGA and, beside it, the core module's CPU selection and  *)
(* cohomology thread.  The driver's state is what probe has acquired, the  *)
(* control register, the device and the callers that spin on it under      *)
(* encoding_lock; statistics are read counter by counter, without it.      *)
(***************************************************************************)
EXTENDS Integers, Sequences, FiniteSets, FiniteSetsExt, SequencesExt

CONSTANTS Accessors,    \* threads inside msi_amplify_storage_access
          MaxAccesses,  \* bound on the accesses of a behaviour
          Word          \* the width that u64 arithmetic wraps at

VARIABLES held,      \* what the driver holds, in the order it acquired it
          control,   \* bits set in MSI_CONTROL_REG
          device,    \* what MSI_STATUS_REG shows: "ready", "busy" or "error"
          access,    \* what each reader is doing
          tally,     \* the four atomic counters
          shown      \* what the status file has read of them so far

msiVars == <<held, control, device, access, tally, shown>>

\* The acquisitions of msi_fpga_probe, in order; setting the DMA mask is one that
\* leaves nothing to release.
Ladder == <<"engine", "device", "regions", "mmio", "mask", "dma", "irq">>

NoCounts == [reconstructions |-> 0, cache_hits |-> 0, cache_misses |-> 0, amplification_ops |-> 0]

MsiInit ==
    /\ held = <<>>
    /\ control = {}
    /\ device = "ready"
    /\ access = [r \in Accessors |-> "idle"]
    /\ tally = NoCounts
    /\ shown = <<>>

-----------------------------------------------------------------------------
\* Each label at the end of probe releases one thing and falls through to the one
\* below it; a failing acquisition jumps to the label of the last one that needs it.
Released == <<"engine", "device", "regions", "mmio", "dma", "irq">>
JumpTo == [engine |-> 0, device |-> 1, regions |-> 2, mmio |-> 3, mask |-> 4, dma |-> 4, irq |-> 5]
Unwound(failed) == {"mask"} \cup {Released[i] : i \in 1..JumpTo[failed]}

Bound == Len(held) = Len(Ladder) /\ control # {}    \* global_msi_engine is set

Acquire ==
    /\ Len(held) < Len(Ladder)
    /\ held' = Append(held, Ladder[Len(held) + 1])
    /\ UNCHANGED <<control, device, access, tally, shown>>

ProbeFails ==
    /\ Len(held) < Len(Ladder)
    /\ held' = SelectSeq(held, LAMBDA x : x \notin Unwound(Ladder[Len(held) + 1]))
    /\ UNCHANGED <<control, device, access, tally, shown>>

\* The counters are cleared, solver and encoder are set up (both always succeed),
\* everything is enabled and the engine is published.
Publish ==
    /\ Len(held) = Len(Ladder) /\ control = {}
    /\ control' = {"enable", "einstein", "holographic", "dma"}
    /\ tally' = NoCounts
    /\ UNCHANGED <<held, device, access, shown>>

\* msi_fpga_remove waits for nobody: a reader that has taken the engine's address,
\* waits for its lock or spins goes on with freed memory.
Unbind ==
    /\ Bound
    /\ held' = <<>>
    /\ control' = {}
    /\ access' = [r \in Accessors |-> IF access[r] = "idle" THEN "idle" ELSE "faulted"]
    /\ shown' = <<>>
    /\ UNCHANGED <<device, tally>>

-----------------------------------------------------------------------------
Accesses == tally.cache_hits + tally.cache_misses
Step(r, from, to) == access[r] = from /\ access' = [access EXCEPT ![r] = to]
Tally(counter) == tally' = [tally EXCEPT ![counter] = @ + 1]

InSection == {r \in Accessors : access[r] \notin {"idle", "enter", "faulted"}}

LockFree_Forgotten(r) == r \in Accessors
LockFree(r) == InSection \ {r} = {}

Enter(r) ==
    /\ Bound /\ Accesses + Cardinality(InSection) < MaxAccesses
    /\ Step(r, "idle", "enter")
    /\ UNCHANGED <<held, control, device, tally, shown>>

\* Below boundary_size the address is its own; above, the FPGA is asked, and the
\* write that triggers it clears the solver and DMA bits that probe had set.
Lock(r, inBoundary) ==
    /\ LockFree(r)
    /\ Step(r, "enter", IF inBoundary THEN "hit" ELSE "wait")
    /\ control' = IF inBoundary THEN control ELSE {"enable", "holographic"}
    /\ device' = IF inBoundary THEN device ELSE "busy"
    /\ UNCHANGED <<held, tally, shown>>

\* The device ends with or without an error; its interrupt clears the error bit,
\* before or after the reader that waits for it has looked.
Reconstruction(result) ==
    /\ device = "busy"
    /\ device' = result
    /\ UNCHANGED <<held, control, access, tally, shown>>

Interrupt ==
    /\ device = "error" /\ "irq" \in ToSet(held)
    /\ device' = "ready"
    /\ UNCHANGED <<held, control, access, tally, shown>>

Poll(r) ==
    /\ device # "busy"
    /\ Step(r, "wait", "miss")
    /\ IF device = "error" THEN UNCHANGED tally ELSE Tally("reconstructions")
    /\ UNCHANGED <<held, control, device, shown>>

CountAccess(r) ==
    /\ \/ Step(r, "hit", "unlock") /\ Tally("cache_hits")
       \/ Step(r, "miss", "unlock") /\ Tally("cache_misses")
    /\ UNCHANGED <<held, control, device, shown>>

Unlock(r) ==
    /\ Step(r, "unlock", "idle") /\ Tally("amplification_ops")
    /\ UNCHANGED <<held, control, device, shown>>

\* msi_get_performance_stats, for /proc/symmetrix/status.
ReadCounter ==
    /\ Bound
    /\ shown' = IF Len(shown) = 4 THEN <<>>
                ELSE Append(shown, tally[<<"reconstructions", "cache_hits", "cache_misses",
                                          "amplification_ops">>[Len(shown) + 1]])
    /\ UNCHANGED <<held, control, device, access, tally>>

MsiNext ==
    \/ Acquire \/ ProbeFails \/ Publish \/ Unbind
    \/ \E result \in {"ready", "error"} : Reconstruction(result)
    \/ Interrupt \/ ReadCounter
    \/ \E r \in Accessors :
          \/ Enter(r) \/ Poll(r) \/ CountAccess(r) \/ Unlock(r)
          \/ \E inBoundary \in BOOLEAN : Lock(r, inBoundary)

-----------------------------------------------------------------------------
\* The core module.  A CPU is obstructed by each resource used above four fifths;
\* the excess over its capacity is added, which wraps while it is below it, so a
\* CPU at nine tenths weighs more than one that is overcommitted.
Obstruction(resources, allocated) ==
    FoldSet(LAMBDA k, sum :
        IF allocated[k] > (resources[k] * 80) \div 100
        THEN (sum + allocated[k] - resources[k]) % Word ELSE sum, 0, DOMAIN resources)

\* symmetrix_select_cpu: the first online CPU of least obstruction.
SelectCpu(online, resources, allocated) ==
    LET weight(c) == Obstruction(resources[c], allocated[c])
        least == Min({weight(c) : c \in online})
    IN  Min({c \in online : weight(c) = least})

\* symmetrix_compute_h2_cohomology: zero exactly when all CPUs have equal capacities,
\* which is how symmetrix_init makes them.
H2Dimension(resources) ==
    IF \A c, d \in DOMAIN resources : resources[c] = resources[d] THEN 0 ELSE 1

-----------------------------------------------------------------------------
\* What the status file shows is never further from consistent than the one access
\* in flight: at most one reconstruction that is not yet a miss, at most one access
\* that is not yet an operation.
SnapshotClose ==
    Len(shown) = 4 => /\ shown[1] <= shown[3] + 1
                      /\ shown[2] + shown[3] <= shown[4] + 1
=============================================================================
