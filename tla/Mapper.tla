--------------------------------- MODULE Mapper ---------------------------------
(***************************************************************************)
(* The requirement mapper (internal/iacserver_mapper.go): which requirements *)
(* the plugin accepts, and the configuration of the one OpenTelemetry         *)
(* collector it derives from those.  MapRequirements keeps no state; what it  *)
(* answers is defined here for any requirements, and proved in MapperProofs. *)
(*                                                                         *)
(* A requirement is a record of kind, hint, and the sets runtimes, modes,     *)
(* signals and backends.  A value of an enum that the mapper does not know   *)
(* is a string that no definition mentions.                                 *)
(***************************************************************************)

Observability == "observability"

CollectorType == "infra.container_service"

ContainerApps == "container_apps"

Unspecified == "unspecified"

(* The providers a request may name; to any other the call is an error. *)
Providers == {"", "azure"}

azureRequirementAllowsRuntime(r, runtime) ==
    r.runtimes # {} => runtime \in r.runtimes

azureRequirementAllowsDeploymentMode(r) ==
    r.modes # {} => r.modes \cap {"sidecar", "sibling_service", "managed"} # {}

(* The code of the first complaint, or "none". *)
azureRejectUnsupportedRequirement(runtime, r) ==
    IF r.kind # Observability THEN "unsupported_kind"
    ELSE IF r.hint \notin {"", CollectorType} THEN "unsupported_resource_type_hint"
    ELSE IF runtime # ContainerApps THEN "unsupported_runtime"
    ELSE IF ~azureRequirementAllowsRuntime(r, runtime) THEN "unsupported_runtime"
    ELSE IF ~azureRequirementAllowsDeploymentMode(r) THEN "unsupported_deployment_mode"
    ELSE "none"

(* Of a set of requirements, those the collector is derived from. *)
Accepted(runtime, reqs) ==
    {r \in reqs : azureRejectUnsupportedRequirement(runtime, r) = "none"}

-----------------------------------------------------------------------------
OrDefault(named, default) ==
    IF named \ {Unspecified} = {} THEN default ELSE named \ {Unspecified}

azureRequestedSignals(reqs) ==
    OrDefault(UNION {r.signals : r \in reqs}, {"traces", "metrics", "logs"})

azureRequestedBackends(reqs) ==
    OrDefault(UNION {r.backends : r \in reqs}, {"otel"})

(* The variables and ports each exporter of the configuration refers to. *)
ExporterOf ==
    [otel       |-> [name |-> "otlp", ports |-> {},
                     env |-> {"OTEL_EXPORTER_OTLP_ENDPOINT"}],
     datadog    |-> [name |-> "datadog", ports |-> {},
                     env |-> {"DD_API_KEY", "DD_SITE"}],
     prometheus |-> [name |-> "prometheus", ports |-> {9464}, env |-> {}],
     loki       |-> [name |-> "loki", ports |-> {}, env |-> {"LOKI_ENDPOINT"}],
     grafana    |-> [name |-> "otlp/grafana_otlp", ports |-> {},
                     env |-> {"GRAFANA_OTLP_ENDPOINT", "GRAFANA_OTLP_HEADERS"}]]

azureWriteExporters(backends) ==
    {ExporterOf[b] : b \in backends \cap DOMAIN ExporterOf}

(* What a pipeline of the signal sends to. *)
azureExportersForSignal(signal, backends) ==
    {e \in {"otlp", "datadog", "prometheus", "loki", "otlp/grafana_otlp"} :
        \/ e = "otlp" /\ "otel" \in backends
        \/ e = "datadog" /\ "datadog" \in backends
        \/ e = "prometheus" /\ "prometheus" \in backends /\ signal = "metrics"
        \/ e = "loki" /\ "loki" \in backends /\ signal = "logs"
        \/ e = "otlp/grafana_otlp" /\ "grafana" \in backends}

(* A signal without an exporter has no pipeline. *)
azureWritePipelines(signals, backends) ==
    {[signal |-> s, exporters |-> azureExportersForSignal(s, backends)] :
        s \in {t \in signals \cap {"traces", "metrics", "logs"} :
                  azureExportersForSignal(t, backends) # {}}}

azureCollectorPorts(backends) ==
    {4317, 4318} \cup {p \in {9464} : "prometheus" \in backends}

(* env_vars and env_vars_secret. *)
EnvVars(backends) ==
    {v \in {"OTELCOL_CONFIG", "OTEL_EXPORTER_OTLP_ENDPOINT", "DD_SITE",
            "LOKI_ENDPOINT", "GRAFANA_OTLP_ENDPOINT"} :
        \/ v = "OTELCOL_CONFIG"
        \/ v = "OTEL_EXPORTER_OTLP_ENDPOINT" /\ "otel" \in backends
        \/ v = "DD_SITE" /\ "datadog" \in backends
        \/ v = "LOKI_ENDPOINT" /\ "loki" \in backends
        \/ v = "GRAFANA_OTLP_ENDPOINT" /\ "grafana" \in backends}

SecretVars(backends) ==
    {v \in {"DD_API_KEY", "GRAFANA_OTLP_HEADERS"} :
        \/ v = "DD_API_KEY" /\ "datadog" \in backends
        \/ v = "GRAFANA_OTLP_HEADERS" /\ "grafana" \in backends}

azureCollectorModuleConfig(reqs) ==
    LET backends == azureRequestedBackends(reqs)
    IN  [ports     |-> azureCollectorPorts(backends),
         env       |-> EnvVars(backends),
         secret    |-> SecretVars(backends),
         exporters |-> azureWriteExporters(backends),
         pipelines |-> azureWritePipelines(azureRequestedSignals(reqs), backends)]

(* The modules MapRequirements derives: one collector, or none. *)
MapRequirements(provider, runtime, reqs) ==
    LET accepted == Accepted(runtime, reqs)
    IN  IF provider \notin Providers \/ accepted = {}
        THEN {} ELSE {azureCollectorModuleConfig(accepted)}

=============================================================================
