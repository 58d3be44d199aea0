---------------------------- MODULE CyanFlameRpc ----------------------------
(***************************************************************************)
(* The way of a call: CyanFlameGrpcServer::serve brings the server up, a   *)
(* stub of the generated client sends, the interceptor admits, the         *)
(* generated server dispatches by path, and the handler answers or is      *)
(* dropped with its client.  What the handlers do is in their own modules. *)
(* The methods of a service are given with the kind of call that its stub  *)
(* makes, or that its server's arm serves.  tonic is external.             *)
(***************************************************************************)
EXTENDS ApiKeyAuth, Sequences, TLC

CONSTANTS RpcCalls,      \* calls on one connection
          Exercised,     \* the methods that clients call
          MaxMessages,   \* bound on the messages of a stream
          max_concurrent_streams

VARIABLES config,   \* GrpcServerConfig: TLS and reflection
          server,   \* how far serve has come, or how it ended
          tls,      \* what the TLS configuration was built to
          pending,  \* the default keys that are still to be registered
          writing,  \* register_key has the lock
          call

rpcVars == <<keyVars, config, server, tls, pending, writing, call>>

Unary(names)  == [m \in names |-> "unary"]
Serves(names) == [m \in names |-> "server_streaming"]
Both(names)   == [m \in names |-> "streaming"]

-----------------------------------------------------------------------------
(* What a configuration of paths builds (grpc/tls.rs).  A path is absent, or names a *)
(* file that can be read or not.                                                     *)
Paths == {"absent", "unreadable", "file"}

\* The constructors; a server that is given no path has the empty one, which no file
\* has, so it never finds itself without.
Present(path) == IF path = "absent" THEN "unreadable" ELSE path
new_server(cert, key, ca, mtls) ==
    [cert |-> Present(cert), key |-> Present(key), ca |-> ca, mtls |-> mtls]
new_client(ca, cert, key) ==
    [cert |-> cert, key |-> key, ca |-> ca, mtls |-> cert # "absent" /\ key # "absent"]

\* Files are read in this order: certificate, key, authority; the last for mTLS only.
Identity(files, authority) ==
    CASE files.cert # "file" -> "CertificateRead"
      [] files.cert = "file" /\ files.key # "file" -> "KeyRead"
      [] OTHER -> authority

build_server_config(files) ==
    IF files.cert = "absent" \/ files.key = "absent" THEN "plain"
    ELSE Identity(files, CASE ~files.mtls -> "tls"
                         [] files.mtls /\ files.ca = "absent" -> "MtlsNoCa"
                         [] files.mtls /\ files.ca = "unreadable" -> "CaRead"
                         [] OTHER -> "mtls")

\* A client reads the authority first, and its identity only if it has one.
build_client_config(files) ==
    CASE files.ca = "absent" -> "plain"
      [] files.ca = "unreadable" -> "CaRead"
      [] OTHER -> IF files.mtls THEN Identity(files, "mtls") ELSE "tls"

TlsErrors == {"CertificateRead", "KeyRead", "CaRead", "MtlsNoCa"}

-----------------------------------------------------------------------------
(* The stubs of the generated clients. *)
CalibrationServiceClient == Serves({"SubscribeCalibrationMatrix"})
    @@ Unary({"GetCalibrationMatrix", "ValidateMatrixVersion"})
ComputeCalibrationServiceClient == Serves({"SubscribeComputeCalibration"})
    @@ Unary({"GetComputeCalibration", "GetEngineConfig"})
PcIeAmplificationServiceClient == Serves({"SubscribePCIeCalibration"})
    @@ Unary({"GetPCIeConfig"}) @@ Both({"ReportPCIeMetrics"})
TelemetryServiceClient == Serves({"SubscribeNetworkCapacity"})
    @@ Both({"StreamMemoryStatus", "ReportHealth"})
AllocationServiceClient ==
    Unary({"AllocateMemory", "FreeMemory", "RouteMemoryRequest", "GetAllocationStatus"})
OperationsServiceClient == Serves({"UpgradeAgent"})
    @@ Unary({"HealthCheck", "GetSystemInfo", "RestartAgent"})
GpuDetectionServiceClient ==
    Unary({"RegisterGpu", "GetGpuTierConfig", "ListSupportedGpus"})
CertificateServiceClient ==
    Unary({"RequestCertificate", "RenewCertificate", "RevokeCertificate",
           "GetCertificateStatus", "GetCRL", "CheckCertificateOCSP"})
DashboardMetricsServiceClient == Serves({"StreamDashboardMetrics"})
    @@ Unary({"GetConnectedAgents", "GetSystemSummary"})

Stub == CalibrationServiceClient @@ ComputeCalibrationServiceClient
    @@ PcIeAmplificationServiceClient @@ TelemetryServiceClient @@ AllocationServiceClient
    @@ OperationsServiceClient @@ GpuDetectionServiceClient @@ CertificateServiceClient
    @@ DashboardMetricsServiceClient

(* The arms of the generated servers. *)
CalibrationServiceServer ==
    [SubscribeCalibrationMatrix |-> "server_streaming",
     GetCalibrationMatrix |-> "unary", ValidateMatrixVersion |-> "unary"]
ComputeCalibrationServiceServer ==
    [SubscribeComputeCalibration |-> "server_streaming",
     GetComputeCalibration |-> "unary", GetEngineConfig |-> "unary"]
PcIeAmplificationServiceServer ==
    [SubscribePCIeCalibration |-> "server_streaming",
     GetPCIeConfig |-> "unary", ReportPCIeMetrics |-> "streaming"]
TelemetryServiceServer ==
    [StreamMemoryStatus |-> "streaming", SubscribeNetworkCapacity |-> "server_streaming",
     ReportHealth |-> "streaming"]
AllocationServiceServer ==
    [AllocateMemory |-> "unary", FreeMemory |-> "unary",
     RouteMemoryRequest |-> "unary", GetAllocationStatus |-> "unary"]
OperationsServiceServer ==
    [HealthCheck |-> "unary", UpgradeAgent |-> "server_streaming",
     GetSystemInfo |-> "unary", RestartAgent |-> "unary"]
GpuDetectionServiceServer ==
    [RegisterGpu |-> "unary", GetGpuTierConfig |-> "unary", ListSupportedGpus |-> "unary"]
CertificateServiceServer ==
    [RequestCertificate |-> "unary", RenewCertificate |-> "unary",
     RevokeCertificate |-> "unary", GetCertificateStatus |-> "unary",
     GetCRL |-> "unary", CheckCertificateOCSP |-> "unary"]
DashboardMetricsServiceServer ==
    [StreamDashboardMetrics |-> "server_streaming",
     GetConnectedAgents |-> "unary", GetSystemSummary |-> "unary"]

\* Reflection is added without the interceptor, and only if it is enabled.
Reflection == [ServerReflectionInfo |-> "streaming"]

\* The router of serve: the nine services, then reflection.
Router == CalibrationServiceServer @@ ComputeCalibrationServiceServer
    @@ PcIeAmplificationServiceServer @@ TelemetryServiceServer @@ AllocationServiceServer
    @@ OperationsServiceServer @@ GpuDetectionServiceServer @@ CertificateServiceServer
    @@ DashboardMetricsServiceServer @@ (IF config.reflection THEN Reflection ELSE <<>>)

-----------------------------------------------------------------------------
NoCall == [at |-> "none", method |-> "none", key |-> "none", got |-> 0, status |-> "none"]

\* The configurations: TLS off, on, or on for both sides, each with any files; reflection
\* is set apart from it (with_reflection, and unified_server, which turns it on with
\* TLS too).
Configurations ==
    [enable_tls : {FALSE}, reflection : BOOLEAN,
     files : {new_server("absent", "absent", "absent", FALSE)}] \cup
    [enable_tls : {TRUE}, reflection : BOOLEAN,
     files : {new_server(cert, key, ca, mtls) :
                cert \in {"unreadable", "file"}, key \in {"unreadable", "file"},
                ca \in Paths, mtls \in BOOLEAN}]

ServeInit ==
    /\ config \in Configurations
    /\ server = "starting" /\ tls = "none"
    /\ pending = <<"cf_free_test123", "cf_starter_test123", "cf_pro_test123",
                   "cf_ent_test123", "test_key_123">>
    /\ writing = FALSE
    /\ call = [c \in RpcCalls |-> NoCall]

RpcInit == KeysInit({}) /\ ServeInit

Serving == UNCHANGED <<auth_enabled, clock, caller, granted, config>>

\* serve registers the default keys one after the other before it does anything else.
LockForDefaultKey ==
    /\ auth_enabled /\ pending # <<>> /\ ~writing
    /\ writing' = TRUE
    /\ UNCHANGED <<api_keys, server, tls, pending, call>> /\ Serving
RegisterDefaultKey ==
    /\ writing /\ writing' = FALSE
    /\ pending' = Tail(pending)
    /\ register_key(Head(pending), DefaultKeys[Head(pending)])
    /\ UNCHANGED <<server, tls, call>> /\ Serving

\* Then the rotations are spawned (CyanFlameServer), the TLS configuration is read, and
\* the address is bound; serve ends where one of the last two fails.
\* Slip: the default keys are registered by a task of their own.
KeysDone_Spawned == TRUE
KeysDone == auth_enabled => pending = <<>>
BuildTls ==
    /\ server = "starting" /\ KeysDone
    /\ tls' = IF config.enable_tls THEN build_server_config(config.files) ELSE "plain"
    /\ server' = IF tls' \in TlsErrors THEN "failed" ELSE "built"
    /\ UNCHANGED <<api_keys, pending, writing, call>> /\ Serving
Bind ==
    /\ server = "built" /\ server' \in {"serving", "failed"}
    /\ UNCHANGED <<api_keys, tls, pending, writing, call>> /\ Serving

-----------------------------------------------------------------------------
Calling(c, new) ==
    /\ call' = [call EXCEPT ![c] = new]
    /\ UNCHANGED <<api_keys, server, tls, pending, writing>> /\ Serving

\* A stub waits for its channel to be ready, and fails with UNKNOWN if it never is.
SendCall(c, m, key) ==
    /\ call[c].at = "none"
    /\ Cardinality({d \in RpcCalls : call[d].at \in {"sent", "admitted", "handler"}})
           < max_concurrent_streams
    /\ Calling(c, IF server = "serving"
                  THEN [NoCall EXCEPT !.at = "sent", !.method = m, !.key = key]
                  ELSE [NoCall EXCEPT !.at = "ended", !.status = "unknown"])

\* with_interceptor: the check comes before the dispatch, for every path of the service.
Intercept(c) ==
    /\ call[c].at = "sent"
    /\ Calling(c, IF call[c].method \in DOMAIN Reflection
                     \/ Admits(call[c].key, KeysFree /\ ~writing)
                  THEN [call[c] EXCEPT !.at = "admitted"]
                  ELSE [call[c] EXCEPT !.at = "ended", !.status = "unauthenticated"])

Dispatch(c) ==
    /\ call[c].at = "admitted"
    /\ Calling(c, IF call[c].method \in DOMAIN Router
                  THEN [call[c] EXCEPT !.at = "handler"]
                  ELSE [call[c] EXCEPT !.at = "ended", !.status = "unimplemented"])

\* A unary handler answers once; a stream goes on until it ends.
AnswerMessage(c) ==
    /\ call[c].at = "handler" /\ call[c].got < MaxMessages
    /\ Calling(c, IF Router[call[c].method] = "unary"
                  THEN [call[c] EXCEPT !.got = 1, !.at = "ended", !.status = "ok"]
                  ELSE [call[c] EXCEPT !.got = @ + 1])
EndStream(c) ==
    /\ call[c].at = "handler" /\ Router[call[c].method] # "unary"
    /\ Calling(c, [call[c] EXCEPT !.at = "ended", !.status = "ok"])
Refuse(c) ==
    /\ call[c].at = "handler"
    /\ Calling(c, [call[c] EXCEPT !.at = "ended", !.status = "error"])

\* The client gives up: its call is dropped wherever it is.
CancelCall(c) ==
    /\ call[c].at \in {"sent", "admitted", "handler"}
    /\ Calling(c, [call[c] EXCEPT !.at = "ended", !.status = "cancelled"])

RpcNext ==
    \/ LockForDefaultKey \/ RegisterDefaultKey \/ BuildTls \/ Bind
    \/ \E c \in RpcCalls :
        \/ \E m \in Exercised, key \in Keys \cup {"none"} : SendCall(c, m, key)
        \/ Intercept(c) \/ Dispatch(c) \/ AnswerMessage(c) \/ EndStream(c) \/ Refuse(c)
        \/ CancelCall(c)
RpcSpec == RpcInit /\ [][RpcNext]_rpcVars

-----------------------------------------------------------------------------
\* The interceptor lets everything pass while the keys are being written, and refuses
\* the default keys before they are: that neither is seen rests on serve having
\* registered them all before it accepts a connection.  So no handler runs for a key
\* that is not registered, and no default key is turned away.
KeyedOnly ==
    auth_enabled => \A c \in RpcCalls :
        /\ call[c].at = "handler" /\ call[c].method \notin DOMAIN Reflection =>
               call[c].key \in DOMAIN api_keys
        /\ call[c].status = "unauthenticated" => call[c].key \notin DOMAIN DefaultKeys

\* With authentication on, what auth.rs:14-19 and the /tiers page and banners of the
\* servers promise: of the calls of one key, no more than its tier's rate limit are
\* served in a minute.  (RpcNext never moves the clock: all calls fall in one minute.)
\* The interceptor counts nothing and the handlers do not ask validate_key, so this
\* does not hold (MCRateLimit).
ServedFor(key) == {c \in RpcCalls : call[c].key = key /\ call[c].got > 0}
ServedWithinLimit ==
    auth_enabled => \A k \in DOMAIN api_keys : api_keys[k].rate_limit > 0 =>
        Cardinality(ServedFor(k)) <= api_keys[k].rate_limit
=============================================================================
