----------------------- MODULE AmplificationServices -----------------------
(***************************************************************************)
(* src/grpc/compute_calibration.rs and src/grpc/pcie_amplification.rs:     *)
(* what their matrices and answers are made of, and the task that turns a  *)
(* stream of PCIe reports into a stream of hints.  Their rotation and      *)
(* subscriptions are those of CalibrationRotation.                         *)
(***************************************************************************)
EXTENDS Naturals, Sequences, SequencesExt, FiniteSets

CONSTANTS HintCapacity,   \* of the channel of hints (100)
          MaxMetrics      \* bound on the reports of a stream

VARIABLES compute,   \* the two matrices that are served, and the last engine answer
          metrics,   \* what the agent has reported, in order
          metricsStream,  \* the agent's side: "open", "finished" sending, "gone"
          reader,    \* the task: how many reports it has read, hints left to send
          hints,     \* hints in the channel
          received   \* hints the agent has got

amplificationVars == <<compute, metrics, metricsStream, reader, hints, received>>

Engines == {"cartf", "gfce", "dbcg", "hopfield", "pmcw"}
\* The factor of each engine, in hundredths.
Factor == [cartf |-> 180, gfce |-> 1400, dbcg |-> 219, hopfield |-> 145, pmcw |-> 145]

\* A generated matrix: the parts under its hash, and what of each the version changes.
\* The inverse table depends on the version and is not hashed.
generate_compute_matrix(version) ==
    [version |-> version,
     hashed  |-> [cartf |-> version, gfce |-> version, dbcg |-> 0, hopfield |-> 0, pmcw |-> 0],
     inverse_lut |-> version,
     factors |-> Factor]

\* GB/s of a generation with sixteen lanes; what is not known counts as Gen4.
Bandwidth16(gen) == IF gen = "gen3" THEN 16 ELSE IF gen = "gen5" THEN 64
                    ELSE IF gen = "gen6" THEN 128 ELSE 32
pcie_bandwidth(gen, lanes) == (Bandwidth16(gen) * lanes) \div 16

\* Rotation always generates for Gen4 x16, whatever the agents ask for.
generate_pcie_matrix(version, gen, lanes) ==
    [version |-> version,
     hashed  |-> [prefetch |-> 0, coalescing |-> 0, compression |-> version],
     physical  |-> pcie_bandwidth(gen, lanes),
     effective |-> pcie_bandwidth(gen, lanes) * 80]    \* 8 * 4 * 2.5

\* get_engine_config: an empty list asks for all engines, unknown names for none.
get_engine_config(enabled_engines) ==
    LET enabled == IF enabled_engines = {} THEN Engines ELSE enabled_engines
    IN  [engine_enabled |-> [e \in Engines |-> e \in enabled],
         engine_factors |-> [e \in Engines |-> IF e \in enabled THEN Factor[e] ELSE 100]]

AmplificationInit ==
    /\ compute = [matrix |-> generate_compute_matrix(1),
                  pcie |-> generate_pcie_matrix(1, "gen4", 16), answer |-> <<>>]
    /\ metrics = <<>> /\ metricsStream = "open"
    /\ reader = [read |-> 0, hints |-> <<>>, running |-> TRUE]
    /\ hints = <<>> /\ received = <<>>

Same == UNCHANGED compute
Matrices == /\ metricsStream = "open" /\ metrics = <<>>
            /\ UNCHANGED <<metrics, metricsStream, reader, hints, received>>

\* A rotation as a whole: its steps, subscribers and fetches are CalibrationRotation's.
RotateCompute ==
    /\ compute.matrix.version < MaxMetrics
    /\ compute' = [compute EXCEPT !.matrix = generate_compute_matrix(compute.matrix.version + 1)]
    /\ Matrices
RotatePcie ==
    /\ compute.pcie.version < MaxMetrics
    /\ compute' = [compute EXCEPT !.pcie = generate_pcie_matrix(compute.pcie.version + 1, "gen4", 16)]
    /\ Matrices
AskEngines(chosen) ==
    compute' = [compute EXCEPT !.answer = get_engine_config(chosen)] /\ Matrices

-----------------------------------------------------------------------------
\* A report is known by which of the three measures are below their thresholds.
Measures == {"prefetch", "coalescing", "compression"}
Hint(n, measure, low) == IF measure \in low THEN <<<<n, measure>>>> ELSE <<>>
HintsOf(n, low) ==
    Hint(n, "prefetch", low) \o Hint(n, "coalescing", low) \o Hint(n, "compression", low)

SendReport(low) ==
    /\ metricsStream = "open" /\ Len(metrics) < MaxMetrics
    /\ metrics' = Append(metrics, low)
    /\ UNCHANGED <<metricsStream, reader, hints, received>> /\ Same
FinishReports ==
    /\ metricsStream = "open" /\ metricsStream' = "finished"
    /\ UNCHANGED <<metrics, reader, hints, received>> /\ Same
Disconnect ==
    /\ metricsStream # "gone" /\ metricsStream' = "gone" /\ hints' = <<>>
    /\ UNCHANGED <<metrics, reader, received>> /\ Same

\* The task reads a report when it has sent the hints of the one before ...
ReadReport ==
    /\ reader.running /\ reader.hints = <<>>
    /\ reader.read < Len(metrics) /\ metricsStream # "gone"
    /\ reader' = [reader EXCEPT !.read = @ + 1,
                                !.hints = HintsOf(reader.read + 1, metrics[reader.read + 1])]
    /\ UNCHANGED <<metrics, metricsStream, hints, received>> /\ Same

\* ... and ends with the request stream, which a disconnect breaks.
EndReports ==
    /\ reader.running /\ reader.hints = <<>>
    /\ metricsStream = "gone" \/ (metricsStream = "finished" /\ reader.read = Len(metrics))
    /\ reader' = [reader EXCEPT !.running = FALSE]
    /\ UNCHANGED <<metrics, metricsStream, hints, received>> /\ Same

\* Slip: a hint that finds the channel full is dropped.
SendHint_Try ==
    /\ reader.hints # <<>>
    /\ reader' = [reader EXCEPT !.hints = Tail(@)]
    /\ hints' = IF metricsStream = "gone" \/ Len(hints) = HintCapacity THEN hints
                ELSE Append(hints, Head(reader.hints))
    /\ UNCHANGED <<metrics, metricsStream, received>> /\ Same
\* It waits while the channel is full; the rest of a report is given up when nobody reads.
SendHint ==
    /\ reader.hints # <<>>
    /\ \/ /\ metricsStream = "gone" /\ UNCHANGED hints
          /\ reader' = [reader EXCEPT !.hints = <<>>]
       \/ /\ metricsStream # "gone" /\ Len(hints) < HintCapacity
          /\ hints' = Append(hints, Head(reader.hints))
          /\ reader' = [reader EXCEPT !.hints = Tail(@)]
    /\ UNCHANGED <<metrics, metricsStream, received>> /\ Same

ReadHint ==
    /\ metricsStream # "gone" /\ hints # <<>>
    /\ received' = Append(received, Head(hints)) /\ hints' = Tail(hints)
    /\ UNCHANGED <<metrics, metricsStream, reader>> /\ Same

AmplificationNext ==
    \/ RotateCompute \/ RotatePcie
    \/ \E chosen \in {{}, {"gfce"}, {"unknown"}} : AskEngines(chosen)
    \/ FinishReports \/ Disconnect \/ ReadReport \/ EndReports \/ SendHint \/ ReadHint
    \/ \E low \in {{}, {"compression"}, Measures} : SendReport(low)
AmplificationSpec == AmplificationInit /\ [][AmplificationNext]_amplificationVars

-----------------------------------------------------------------------------
\* Whatever the agent's pace and the channel's size, the hints of every report that the
\* task has read are with the agent, in the channel or about to be sent: each once, and
\* in the order of the reports.
HintsInOrder ==
    metricsStream # "gone" =>
        received \o hints \o reader.hints
            = FlattenSeq([n \in 1..reader.read |-> HintsOf(n, metrics[n])])
=============================================================================
