------------------------------ MODULE MapperProofs ------------------------------
(* What holds of every collector configuration the mapper derives. *)
EXTENDS Mapper, TLAPS

(* Every exporter a pipeline names is configured; the variables that any      *)
(* configured exporter refers to are set, in clear or as secrets, and the     *)
(* port it listens on is published: azureExportersForSignal, azureWriteExporters, *)
(* azureCollectorModuleConfig and azureCollectorPorts list the backends        *)
(* independently of each other.                                            *)
THEOREM ConfigurationIsClosed ==
    ASSUME NEW provider, NEW runtime, NEW reqs,
           NEW c \in MapRequirements(provider, runtime, reqs)
    PROVE  /\ \A p \in c.pipelines : \A e \in p.exporters :
                 \E x \in c.exporters : x.name = e
           /\ \A x \in c.exporters :
                 x.env \subseteq c.env \cup c.secret /\ x.ports \subseteq c.ports
<1> DEFINE a == Accepted(runtime, reqs)
           B == azureRequestedBackends(a)
           S == azureRequestedSignals(a)
<1>1. c = [ports |-> azureCollectorPorts(B), env |-> EnvVars(B),
           secret |-> SecretVars(B), exporters |-> azureWriteExporters(B),
           pipelines |-> azureWritePipelines(S, B)]
  BY DEF MapRequirements, azureCollectorModuleConfig
<1> HIDE DEF a, B, S
<1>2. ASSUME NEW p \in c.pipelines, NEW e \in p.exporters
      PROVE  \E x \in c.exporters : x.name = e
  <2>1. PICK s : p.exporters = azureExportersForSignal(s, B)
    BY <1>1, <1>2 DEF azureWritePipelines
  <2>2. \E b \in B \cap DOMAIN ExporterOf : ExporterOf[b].name = e
    <3>1. CASE e = "otlp" /\ "otel" \in B
      BY <3>1 DEF ExporterOf
    <3>2. CASE e = "datadog" /\ "datadog" \in B
      BY <3>2 DEF ExporterOf
    <3>3. CASE e = "prometheus" /\ "prometheus" \in B
      BY <3>3 DEF ExporterOf
    <3>4. CASE e = "loki" /\ "loki" \in B
      BY <3>4 DEF ExporterOf
    <3>5. CASE e = "otlp/grafana_otlp" /\ "grafana" \in B
      BY <3>5 DEF ExporterOf
    <3> QED
      BY <1>2, <2>1, <3>1, <3>2, <3>3, <3>4, <3>5 DEF azureExportersForSignal
  <2> QED
    BY <1>1, <2>2 DEF azureWriteExporters
<1>3. ASSUME NEW x \in c.exporters
      PROVE  x.env \subseteq c.env \cup c.secret /\ x.ports \subseteq c.ports
  <2>1. PICK b \in B \cap DOMAIN ExporterOf : x = ExporterOf[b]
    BY <1>1, <1>3 DEF azureWriteExporters
  <2>2. b \in {"otel", "datadog", "prometheus", "loki", "grafana"}
    BY <2>1 DEF ExporterOf
  <2>3. x.env \subseteq EnvVars(B) \cup SecretVars(B)
    BY <2>1, <2>2 DEF ExporterOf, EnvVars, SecretVars
  <2>4. x.ports \subseteq azureCollectorPorts(B)
    BY <2>1, <2>2 DEF ExporterOf, azureCollectorPorts
  <2> QED
    BY <1>1, <2>3, <2>4
<1> QED
  BY <1>2, <1>3

(* The backends that can take a signal. *)
Carries(b, s) == \/ b \in {"otel", "datadog", "grafana"}
                 \/ b = "prometheus" /\ s = "metrics"
                 \/ b = "loki" /\ s = "logs"

Signals == {"traces", "metrics", "logs"}

(* An accepted requirement gets what it names: each of its signals goes to    *)
(* each of its backends that can take it, whatever else is asked for in the   *)
(* same call.                                                              *)
THEOREM NamedIsServed ==
    ASSUME NEW provider \in Providers, NEW runtime, NEW reqs,
           NEW r \in Accepted(runtime, reqs),
           NEW s \in r.signals \cap Signals,
           NEW b \in r.backends, Carries(b, s)
    PROVE  \E c \in MapRequirements(provider, runtime, reqs) :
           \E p \in c.pipelines :
              p.signal = s /\ ExporterOf[b].name \in p.exporters
<1> DEFINE a == Accepted(runtime, reqs)
           B == azureRequestedBackends(a)
           S == azureRequestedSignals(a)
           p == [signal |-> s, exporters |-> azureExportersForSignal(s, B)]
<1>1. s \in UNION {q.signals : q \in a} /\ s # Unspecified
  BY DEF Signals, Unspecified
<1>2. s \in S
  BY <1>1 DEF azureRequestedSignals, OrDefault
<1>3. b \in UNION {q.backends : q \in a} /\ b # Unspecified
  BY DEF Carries, Unspecified
<1>4. b \in B
  BY <1>3 DEF azureRequestedBackends, OrDefault
<1>5. azureCollectorModuleConfig(a) \in MapRequirements(provider, runtime, reqs)
  BY DEF MapRequirements
<1>6. azureCollectorModuleConfig(a).pipelines = azureWritePipelines(S, B)
  BY DEF azureCollectorModuleConfig
<1> HIDE DEF a, B, S
<1>7. ExporterOf[b].name \in azureExportersForSignal(s, B)
  BY <1>4 DEF Carries, ExporterOf, azureExportersForSignal
<1>8. p \in azureWritePipelines(S, B)
  BY <1>2, <1>7 DEF azureWritePipelines, Signals
<1> QED
  BY <1>5, <1>6, <1>7, <1>8

(* A collector without a single pipeline, which does not start, is derived    *)
(* exactly when no wanted signal can go to a wanted backend.  That an          *)
(* accepted requirement may be of this kind is AcceptedInVain.              *)
THEOREM WhenNothingIsServed ==
    ASSUME NEW provider, NEW runtime, NEW reqs,
           NEW c \in MapRequirements(provider, runtime, reqs)
    PROVE  c.pipelines = {}
           <=> \A s \in azureRequestedSignals(Accepted(runtime, reqs)) \cap Signals :
               \A b \in azureRequestedBackends(Accepted(runtime, reqs)) : ~Carries(b, s)
<1> DEFINE a == Accepted(runtime, reqs)
           B == azureRequestedBackends(a)
           S == azureRequestedSignals(a)
<1>1. c.pipelines = azureWritePipelines(S, B)
  BY DEF MapRequirements, azureCollectorModuleConfig
<1> HIDE DEF a, B, S
<1>2. \A s : azureExportersForSignal(s, B) = {} <=> \A b \in B : ~Carries(b, s)
  BY DEF azureExportersForSignal, Carries
<1>3. azureWritePipelines(S, B) = {}
      <=> \A s \in S \cap Signals : azureExportersForSignal(s, B) = {}
  BY DEF azureWritePipelines, Signals
<1>4. c.pipelines = {} <=> \A s \in S \cap Signals : \A b \in B : ~Carries(b, s)
  BY <1>1, <1>2, <1>3
<1> QED
  BY <1>4 DEF a, B, S

Wanting(signals, backends) ==
    [kind |-> Observability, hint |-> "", runtimes |-> {}, modes |-> {},
     signals |-> signals, backends |-> backends]

LEMMA WantingIsAccepted ==
    ASSUME NEW R, \A r \in R : \E S, B : r = Wanting(S, B)
    PROVE  Accepted(ContainerApps, R) = R
<1>1. ASSUME NEW S, NEW B
      PROVE  azureRejectUnsupportedRequirement(ContainerApps, Wanting(S, B)) = "none"
  BY DEF azureRejectUnsupportedRequirement, azureRequirementAllowsRuntime,
         azureRequirementAllowsDeploymentMode, Wanting
<1> QED
  BY <1>1 DEF Accepted

(* A union over one requirement, and over two. *)
LEMMA Unions ==
    ASSUME NEW r, NEW q
    PROVE  /\ UNION {x.signals : x \in {r}} = r.signals
           /\ UNION {x.backends : x \in {r}} = r.backends
           /\ UNION {x.signals : x \in {r, q}} = r.signals \cup q.signals
<1>1. UNION {x.signals : x \in {r}} = r.signals
  OBVIOUS
<1>2. UNION {x.backends : x \in {r}} = r.backends
  OBVIOUS
<1>3. UNION {x.signals : x \in {r, q}} = r.signals \cup q.signals
  OBVIOUS
<1> QED
  BY <1>1, <1>2, <1>3

(* MapRequirements accepts a requirement and derives a collector for it that  *)
(* has nothing to do: logs for Prometheus.                                  *)
THEOREM AcceptedInVain ==
    \E r : /\ r \in Accepted(ContainerApps, {r})
           /\ \A p \in Providers : \A c \in MapRequirements(p, ContainerApps, {r}) : c.pipelines = {}
<1> DEFINE r == Wanting({"logs"}, {"prometheus"})
<1>1. Accepted(ContainerApps, {r}) = {r}
  BY WantingIsAccepted
<1>2. r.signals = {"logs"} /\ r.backends = {"prometheus"}
  BY DEF Wanting
<1> HIDE DEF r
<1>3. azureRequestedSignals({r}) = {"logs"}
  BY <1>2, Unions DEF azureRequestedSignals, OrDefault, Unspecified
<1>4. azureRequestedBackends({r}) = {"prometheus"}
  BY <1>2, Unions DEF azureRequestedBackends, OrDefault, Unspecified
<1>5. \A p \in Providers : \A c \in MapRequirements(p, ContainerApps, {r}) : c.pipelines = {}
  BY <1>1, <1>3, <1>4, WhenNothingIsServed DEF Carries
<1> QED
  BY <1>1, <1>5

(* A requirement that names no signal gets all three when it is alone, and    *)
(* loses traces and metrics beside one that names logs: the default is of the *)
(* union, not of each requirement.                                         *)
THEOREM DefaultIsOfTheUnion ==
    \E r, q :
        /\ {r, q} \subseteq Accepted(ContainerApps, {r, q})
        /\ azureRequestedSignals({r}) = Signals
        /\ azureRequestedSignals({r, q}) = {"logs"}
<1> DEFINE r == Wanting({}, {"otel"})
           q == Wanting({"logs"}, {"otel"})
<1>1. {r, q} \subseteq Accepted(ContainerApps, {r, q})
  BY WantingIsAccepted
<1>2. r.signals = {} /\ q.signals = {"logs"}
  BY DEF Wanting
<1> HIDE DEF r, q
<1>3. azureRequestedSignals({r}) = Signals
  BY <1>2, Unions DEF azureRequestedSignals, OrDefault, Signals
<1>4. azureRequestedSignals({r, q}) = {"logs"}
  BY <1>2, Unions DEF azureRequestedSignals, OrDefault, Unspecified
<1> QED
  BY <1>1, <1>3, <1>4

=============================================================================
