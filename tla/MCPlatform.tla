----------------------------- MODULE MCPlatform -----------------------------
(***************************************************************************)
(* Eight parts of the platform that share no state, looked at in one run:  *)
(* the initial state chooses the part that moves, and the others rest.     *)
(***************************************************************************)
EXTENDS Deployment, Admission, TokenBucket, SharedSaver, TurnPipeline, StreamTurn, Registry,
        TraceTree, TLC

CONSTANTS db, c1, c2, r1, r2, r3, k1, m1, m2

VARIABLE part

-----------------------------------------------------------------------------
(* Deployment: six specs, one with a blank model and one that asks what    *)
(* LangGraph does not have; each file starts as one of those of its name.  *)
(* A machine with no store, and one whose .env names a store.              *)

Names12 == <<"x", "y">>
PlainSpec ==
  [name |-> "x", mapping |-> TRUE, template |-> "none", code |-> "none", engine |-> "langgraph",
   asks |-> {}, voice |-> "none", traces |-> "default", broken |-> {},
   exposed |-> FALSE, secured |-> FALSE]
SixSpecs ==
  {[PlainSpec EXCEPT !.asks = {"checkpoint"}],
   [PlainSpec EXCEPT !.broken = {"model"}],
   [PlainSpec EXCEPT !.asks = {"schema"}],
   [PlainSpec EXCEPT !.code = "durable"],
   [PlainSpec EXCEPT !.name = "y", !.template = "autonomous", !.traces = "otel"],
   [PlainSpec EXCEPT !.name = "y", !.voice = "known", !.exposed = TRUE, !.secured = TRUE,
                     !.asks = {"checkpoint", "mcp"}, !.traces = "otel"]}
NothingSet == [v \in Vars |-> Unset]
TwoMachines ==
  {[installed |-> {"langgraph", "mcp", "echo", "voice", "speech", "observability"},
    exported |-> NothingSet, dotenv |-> NothingSet],
   [installed |-> {"langgraph", "deepagents", "echo", "voice", "postgres"},
    exported |-> [NothingSet EXCEPT !["db"] = db],
    dotenv |-> [NothingSet EXCEPT !["store"] = db]]}
TwoFiles == {1, 2}
TwoWorkers == {1, 2}

(* Admission: two tenants, one of which presents credentials two ways.     *)

Who(tenant, scopes) == [tenant |-> tenant, scopes |-> scopes]
ThreeCredentials ==
  {[gateway |-> "trusted", key |-> "none", bearer |-> "none",
    caller |-> Who("acme", {<<"*">>})],
   [gateway |-> "none", key |-> "known", bearer |-> "none",
    caller |-> Who("beta", {<<"agent", "support", "*">>})],
   [gateway |-> "anonymous", key |-> "none", bearer |-> "expired",
    caller |-> Who("acme", {<<"*">>})]}
Chain == <<"forwarded", "api_key", "jwt">>

(* Registry: a package whose module registers another one's name in code,  *)
(* one that does not load, and one that may find its name taken.           *)

ThreeEntryPoints ==
  <<[name |-> "echo", broken |-> FALSE, brings |-> {"custom"}],
    [name |-> "broken", broken |-> TRUE, brings |-> {}],
    [name |-> "custom", broken |-> FALSE, brings |-> {}]>>
ThreeNames == {"echo", "broken", "custom"}

-----------------------------------------------------------------------------
platformVars == <<part, deploymentVars, admissionVars, bucketVars, saverVars, pipelineVars,
                  streamVars, registryVars, traceVars>>

Symmetry == Permutations(Members)

PlatformInit ==
  /\ part \in {"deployment", "admission", "bucket", "saver", "pipeline", "stream",
              "registry", "trace"}
  /\ DeploymentInit /\ AdmissionInit /\ BucketInit /\ SaverInit
  /\ PipelineInit /\ StreamInit /\ RegistryInit /\ TraceInit
  /\ IF part = "deployment"
     THEN \A f \in Files : files[f] \in {s \in Specs : s.name = NameOf[f]}
     ELSE files = [f \in Files |-> Absent] /\ machine.exported["db"] = db
  /\ part # "saver" => store = "memory"
  /\ part # "stream" => surface = "sse"

DeploymentMoves ==
  /\ part = "deployment" /\ DeploymentNext
  /\ UNCHANGED <<part, admissionVars, bucketVars, saverVars, pipelineVars, streamVars,
                 registryVars, traceVars>>

AdmissionMoves ==
  /\ part = "admission" /\ AdmissionNext
  /\ UNCHANGED <<part, deploymentVars, bucketVars, saverVars, pipelineVars, streamVars,
                 registryVars, traceVars>>

BucketMoves ==
  /\ part = "bucket" /\ BucketNext
  /\ UNCHANGED <<part, deploymentVars, admissionVars, saverVars, pipelineVars, streamVars,
                 registryVars, traceVars>>

SaverMoves ==
  /\ part = "saver" /\ SaverNext
  /\ UNCHANGED <<part, deploymentVars, admissionVars, bucketVars, pipelineVars, streamVars,
                 registryVars, traceVars>>

PipelineMoves ==
  /\ part = "pipeline" /\ PipelineNext
  /\ UNCHANGED <<part, deploymentVars, admissionVars, bucketVars, saverVars, streamVars,
                 registryVars, traceVars>>

StreamMoves ==
  /\ part = "stream" /\ StreamNext
  /\ UNCHANGED <<part, deploymentVars, admissionVars, bucketVars, saverVars, pipelineVars,
                 registryVars, traceVars>>

RegistryMoves ==
  /\ part = "registry" /\ RegistryNext
  /\ UNCHANGED <<part, deploymentVars, admissionVars, bucketVars, saverVars, pipelineVars,
                 streamVars, traceVars>>

TraceMoves ==
  /\ part = "trace" /\ TraceNext
  /\ UNCHANGED <<part, deploymentVars, admissionVars, bucketVars, saverVars, pipelineVars,
                 streamVars, registryVars>>

PlatformNext ==
  \/ DeploymentMoves \/ AdmissionMoves \/ BucketMoves \/ SaverMoves
  \/ PipelineMoves \/ StreamMoves \/ RegistryMoves \/ TraceMoves

PlatformSpec == PlatformInit /\ [][PlatformNext]_platformVars

\* Consumers that only stop pulling a stream (TurnPipeline!LooseSpec).
ConsumerForgets ==
  /\ part = "pipeline" /\ \E c \in Runs : Forget(c)
  /\ UNCHANGED <<part, deploymentVars, admissionVars, bucketVars, saverVars, streamVars,
                 registryVars, traceVars>>

LoosePlatform == PlatformInit /\ [][PlatformNext \/ ConsumerForgets]_platformVars

\* The type invariants of the eight parts.
PlatformTypeOK ==
  /\ DeploymentTypeOK /\ AdmissionTypeOK /\ BucketTypeOK
  /\ SaverTypeOK /\ PipelineTypeOK /\ StreamTypeOK
  /\ RegistryTypeOK /\ TraceTypeOK
=============================================================================
