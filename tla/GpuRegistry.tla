---------------------------- MODULE GpuRegistry -----------------------------
(***************************************************************************)
(* src/grpc/gpu_detection.rs and gpu_service.rs.  The service decides what *)
(* a GPU is, then has the manager decide it again from the name alone, by  *)
(* patterns in the order of a hash map; the manager registers its own      *)
(* answer and the service reports its own.  A name is the set of markers   *)
(* that it contains.                                                       *)
(***************************************************************************)
EXTENDS Naturals, Sequences, TLC

CONSTANTS Requests,   \* concurrent calls of register_gpu
          GpuAgents

VARIABLES registrations,  \* per agent: what was detected, when registered and last seen
          registering,    \* the calls, between detection and the lock
          told,           \* what each agent was told last of its own GPU
          gpuClock

gpuVars == <<registrations, registering, told, gpuClock>>

Gpu(type, arch, vram, bw, fp16, fp8, sparsity, nvlink) ==
    type :> [architecture |-> arch, vram_gb |-> vram, memory_bandwidth_gbs |-> bw,
             fp16_tflops |-> fp16, supports_fp8 |-> fp8, supports_sparsity |-> sparsity,
             supports_nvlink |-> nvlink]

\* The specifications that have a constructor; 184.6 TFLOPS are rounded.
DataCenterGpus ==
    Gpu("H100", "Hopper", 80, 3350, 989, TRUE, TRUE, TRUE)
    @@ Gpu("V100", "Volta", 32, 900, 125, FALSE, FALSE, TRUE)
    @@ Gpu("A100", "Ampere", 80, 2000, 312, FALSE, TRUE, TRUE)
    @@ Gpu("H200", "Hopper", 141, 4800, 989, TRUE, TRUE, TRUE)
    @@ Gpu("L40S", "Ada", 48, 864, 362, TRUE, FALSE, FALSE)
    @@ Gpu("RTX_4090", "Ada", 24, 1008, 330, TRUE, FALSE, FALSE)
    @@ Gpu("RTX_5090", "Blackwell", 32, 1792, 838, TRUE, TRUE, FALSE)
AmdAndOtherGpus ==
    Gpu("MI100", "CDNA1", 32, 1200, 185, FALSE, FALSE, FALSE)
    @@ Gpu("MI250", "CDNA2", 128, 3200, 383, FALSE, TRUE, FALSE)
    @@ Gpu("MI300X", "CDNA3", 192, 5300, 1307, TRUE, TRUE, FALSE)
    @@ Gpu("MI325X", "CDNA3+", 256, 6000, 1500, TRUE, TRUE, FALSE)
    @@ Gpu("T4", "Turing", 16, 300, 65, FALSE, FALSE, FALSE)
    @@ Gpu("A10", "Ampere", 24, 600, 125, FALSE, TRUE, FALSE)
    @@ Gpu("RTX_4080", "Ada", 16, 717, 242, TRUE, FALSE, FALSE)
    @@ Gpu("RTX_3090", "Ampere", 24, 936, 142, FALSE, TRUE, TRUE)
    @@ Gpu("RX_7900_XTX", "RDNA3", 24, 960, 123, FALSE, FALSE, FALSE)
Specified == DataCenterGpus @@ AmdAndOtherGpus

\* from_type: types without a constructor have the specification of a similar one.
Similar == "A30" :> "A10" @@ "A40" :> "A10" @@ "RTX_4070_Ti" :> "RTX_4080"
    @@ "RTX_5080" :> "RTX_5090" @@ "RTX_3090_Ti" :> "RTX_3090" @@ "RTX_3080" :> "RTX_3090"
    @@ "RX_7900_XT" :> "RX_7900_XTX" @@ "Unknown" :> "H100"
TypeOf(type) == IF type \in DOMAIN Similar THEN Similar[type] ELSE type
from_type(type) == Specified[TypeOf(type)]

\* to_proto and from_proto are inverse but for unknown numbers.
ProtoNumber ==
    "Unknown" :> 0 @@ "V100" :> 1 @@ "A100" :> 2 @@ "H100" :> 3 @@ "H200" :> 4 @@ "L40S" :> 5
    @@ "A10" :> 6 @@ "A30" :> 7 @@ "A40" :> 8 @@ "T4" :> 9 @@ "RTX_4090" :> 10
    @@ "RTX_4080" :> 11 @@ "RTX_4070_Ti" :> 12 @@ "RTX_5090" :> 13 @@ "RTX_5080" :> 14
    @@ "RTX_3090" :> 15 @@ "RTX_3090_Ti" :> 16 @@ "RTX_3080" :> 17 @@ "MI100" :> 20
    @@ "MI250" :> 21 @@ "MI300X" :> 22 @@ "MI325X" :> 23 @@ "RX_7900_XTX" :> 25
    @@ "RX_7900_XT" :> 26
to_proto(type) == ProtoNumber[type]
from_proto(n) == IF \E t \in DOMAIN ProtoNumber : ProtoNumber[t] = n
                 THEN CHOOSE t \in DOMAIN ProtoNumber : ProtoNumber[t] = n ELSE "Unknown"

\* Targets of the amplification; every answer names the H100.
TargetNumber == "Unknown" :> 0 @@ "H100" :> 1 @@ "H200" :> 2 @@ "MI300X" :> 3 @@ "A100" :> 4
    @@ "L40S" :> 5 @@ "Custom" :> 99

all_supported == {"V100", "A100", "H100", "H200", "L40S", "RTX_4090", "RTX_5090",
                  "MI100", "MI250", "MI300X"}

-----------------------------------------------------------------------------
Tier(name, pricing, max_tb, sessions, rate) ==
    [tier_name |-> name, pricing_tier |-> pricing, max_effective_memory_tb |-> max_tb,
     max_concurrent_sessions |-> sessions, rate_limit_per_minute |-> rate]

\* GpuTierConfig::from_gpu, by the type in the specification.
TierOf ==
    "V100" :> Tier("legacy", "economy", 100, 5, 1000)
    @@ "A100" :> Tier("workhorse", "standard", 240, 20, 5000)
    @@ "H100" :> Tier("benchmark", "premium", 574, 100, 0)
    @@ "H200" :> Tier("ultra", "premium_plus", 800, 100, 0)
    @@ "L40S" :> Tier("inference_pro", "standard", 200, 15, 3000)
    @@ "A10" :> Tier("inference_entry", "economy", 100, 10, 2000)
    @@ "T4" :> Tier("budget_inference", "economy", 40, 3, 500)
    @@ "RTX_4090" :> Tier("consumer_pro", "economy", 50, 3, 500)
    @@ "RTX_4080" :> Tier("consumer_mid", "economy", 40, 2, 400)
    @@ "RTX_5090" :> Tier("consumer_premium", "standard", 80, 5, 1000)
    @@ "RTX_3090" :> Tier("consumer_legacy_pro", "economy", 50, 3, 500)
    @@ "MI100" :> Tier("amd_legacy", "economy", 80, 5, 1000)
    @@ "MI250" :> Tier("amd_workhorse", "standard", 300, 20, 5000)
    @@ "MI300X" :> Tier("amd_flagship", "premium", 500, 50, 0)
    @@ "MI325X" :> Tier("amd_ultra", "premium_plus", 650, 75, 0)
    @@ "RX_7900_XTX" :> Tier("amd_consumer", "economy", 50, 3, 500)

If(condition, s) == IF condition THEN s ELSE <<>>
get_optimization_strategies(g) ==
    <<IF g.supports_fp8 THEN "native_fp8_utilization" ELSE "fp8_software_emulation",
      IF g.supports_sparsity THEN "structured_sparsity_activation"
                             ELSE "software_sparsity_optimization">>
    \o If(g.memory_bandwidth_gbs < 1500, <<"aggressive_memory_caching", "data_compression">>)
    \o If(g.vram_gb < 48, <<"model_offloading", "ultra_low_bit_quantization">>)
    \o (CASE g.architecture = "Volta" -> <<"aggressive_int8_quantization", "kernel_fusion">>
          [] g.architecture = "Ampere" -> <<"tf32_tensor_optimization", "tensorrt_llm_integration">>
          [] g.architecture = "Hopper" -> <<"transformer_engine_optimization">>
          [] g.architecture = "Ada" -> <<"dynamic_batching", "cuda_graph_optimization">>
          [] g.architecture \in {"CDNA1", "CDNA2", "CDNA3"} ->
                 <<"rocm_kernel_optimization", "hip_stream_parallelism">>
          [] OTHER -> <<>>)

\* AmplificationTargets: what is missing to an H100, each as <<target, current>>.
AmplificationTargets(g) ==
    [vram |-> <<80, g.vram_gb>>, tflops |-> <<989, g.fp16_tflops>>,
     memory_bandwidth |-> <<3350, g.memory_bandwidth_gbs>>,
     needs_fp8_emulation |-> ~g.supports_fp8,
     needs_sparsity_software |-> ~g.supports_sparsity, has_nvlink |-> g.supports_nvlink]

\* The hourly rate in cents: by the mean of the two factors to an H100, which are
\* compared as fractions (2 * mean = 80 / vram + 989 / fp16).
TwiceMeanAtMost(g, n, d) ==
    d * (80 * g.fp16_tflops + 989 * g.vram_gb) <= n * g.vram_gb * g.fp16_tflops
calculate_cost_estimate(g) ==
    IF TwiceMeanAtMost(g, 3, 1) THEN 50
    ELSE IF TwiceMeanAtMost(g, 6, 1) THEN 150
    ELSE IF TwiceMeanAtMost(g, 10, 1) THEN 350 ELSE 750

-----------------------------------------------------------------------------
\* Names that GPUs have, by what they contain, with the compute capability that comes
\* with them; "4090" is sold with and without the letters RTX in front.
Names == {[marks |-> m, vendor |-> "NVIDIA", cc |-> <<0, 0>>] :
            m \in {{"h200"}, {"h100"}, {"a100"}, {"v100"}, {"l40", "l40s"}, {"l40"},
                   {"5090", "rtx_5090"}, {"4090", "rtx_4090"}, {"4090"}}}
    \cup {[marks |-> m, vendor |-> "AMD", cc |-> <<0, 0>>] :
            m \in {{"mi300", "mi300x"}, {"mi300"}, {"mi250", "mi250x"}, {"mi250"},
                   {"mi100"}, {}}}
    \cup {[marks |-> {}, vendor |-> "NVIDIA", cc |-> c] : c \in {<<9, 0>>, <<8, 6>>}}

\* The service looks for markers in this order, then at the compute capability.
ByName == <<<<"h200", "H200">>, <<"h100", "H100">>, <<"a100", "A100">>, <<"v100", "V100">>,
            <<"l40s", "L40S">>, <<"5090", "RTX_5090">>, <<"4090", "RTX_4090">>,
            <<"mi300", "MI300X">>, <<"mi250", "MI250">>, <<"mi100", "MI100">>>>
ByCapability == {<<<<9, 0>>, "H100">>, <<<<8, 9>>, "RTX_4090">>, <<<<8, 0>>, "A100">>,
                 <<<<7, 0>>, "V100">>}
ServiceDetects(gpu) ==
    LET hits == {i \in DOMAIN ByName : ByName[i][1] \in gpu.marks}
    IN  IF hits # {} THEN ByName[CHOOSE i \in hits : \A j \in hits : i <= j][2]
        ELSE IF gpu.vendor = "NVIDIA" /\ \E p \in ByCapability : p[1] = gpu.cc
        THEN (CHOOSE p \in ByCapability : p[1] = gpu.cc)[2] ELSE "Unknown"

\* The manager's patterns; the first that the map yields wins, so any that match may.
NamePatterns == {<<"v100", "V100">>, <<"a100", "A100">>, <<"h100", "H100">>,
    <<"h200", "H200">>, <<"l40s", "L40S">>, <<"rtx_4090", "RTX_4090">>,
    <<"rtx_5090", "RTX_5090">>, <<"mi100", "MI100">>, <<"mi250", "MI250">>,
    <<"mi250x", "MI250">>, <<"mi300x", "MI300X">>}
\* Slip: the L40, which is part of the name of an L40S, is taken for an A40.
Patterns_L40Apart == NamePatterns \cup {<<"l40", "A40">>}
Patterns == NamePatterns \cup {<<"l40", "L40S">>}
ManagerDetects(gpu) ==
    LET hits == {p \in Patterns : p[1] \in gpu.marks}
    IN  IF hits = {} THEN {"Unknown"} ELSE {p[2] : p \in hits}

-----------------------------------------------------------------------------
NoRequest == [agent |-> "none", baseline |-> "Unknown", detected |-> "Unknown"]

GpuInit ==
    /\ registrations = <<>> /\ told = <<>> /\ gpuClock = 0
    /\ registering = [r \in Requests |-> NoRequest]

\* What both answers say of a type: tier, strategies and amplification targets.
tier_response(type) ==
    [baseline |-> to_proto(type), tier |-> TierOf[TypeOf(type)],
     strategies |-> get_optimization_strategies(from_type(type)),
     targets |-> AmplificationTargets(from_type(type))]

\* register_gpu up to the manager's lock: both detections, both refusals.
BeginRegister(r, a, gpu) ==
    /\ registering[r] = NoRequest
    /\ \E detected \in ManagerDetects(gpu) :
        IF ServiceDetects(gpu) = "Unknown" \/ detected = "Unknown"
        THEN UNCHANGED registering
        ELSE registering' = [registering EXCEPT ![r] =
                [agent |-> a, baseline |-> ServiceDetects(gpu), detected |-> detected]]
    /\ UNCHANGED <<registrations, told, gpuClock>>

Insert(map, key, value) ==
    [k \in DOMAIN map \cup {key} |-> IF k = key THEN value ELSE map[k]]

\* The insertion replaces what the agent had; the answer follows without an await.
FinishRegister(r) ==
    /\ registering[r] # NoRequest
    /\ LET q == registering[r]
       IN  /\ registrations' = Insert(registrations, q.agent,
                  [detected_gpu |-> q.detected,
                   registered_at |-> gpuClock, last_seen |-> gpuClock])
           /\ told' = Insert(told, q.agent,
                  [config |-> tier_response(q.baseline),
                   cents |-> calculate_cost_estimate(from_type(q.baseline))])
    /\ registering' = [registering EXCEPT ![r] = NoRequest]
    /\ UNCHANGED gpuClock
DropRegister(r) ==
    /\ registering[r] # NoRequest
    /\ registering' = [registering EXCEPT ![r] = NoRequest]
    /\ UNCHANGED <<registrations, told, gpuClock>>

update_last_seen(a) ==
    /\ a \in DOMAIN registrations /\ gpuClock = 0 /\ gpuClock' = 1
    /\ registrations' = [registrations EXCEPT ![a].last_seen = 1]
    /\ UNCHANGED <<registering, told>>

GpuNext ==
    \/ \E r \in Requests :
        \/ \E a \in GpuAgents, gpu \in Names : BeginRegister(r, a, gpu)
        \/ FinishRegister(r) \/ DropRegister(r)
    \/ \E a \in GpuAgents : update_last_seen(a)
GpuSpec == GpuInit /\ [][GpuNext]_gpuVars

\* What get_gpu_tier_config answers: computed again from what the manager registered.
get_gpu_tier_config(a) == tier_response(registrations[a].detected_gpu)
list_supported_gpus ==
    {[gpu_type |-> to_proto(t), pricing_tier |-> TierOf[TypeOf(t)].pricing_tier,
      tflops |-> AmplificationTargets(from_type(t)).tflops] : t \in all_supported}
-----------------------------------------------------------------------------
\* An agent that asks again is told what its last registration told it, although the
\* one answer is by the service's detection and the other by the manager's, and calls
\* for one agent race; and both name a tier that is on the list of supported GPUs.
TierAnswersAgree ==
    \A a \in DOMAIN registrations :
        LET config == told[a].config
        IN  /\ config = get_gpu_tier_config(a)
            /\ [gpu_type |-> config.baseline, pricing_tier |-> config.tier.pricing_tier,
                tflops |-> config.targets.tflops] \in list_supported_gpus
=============================================================================
