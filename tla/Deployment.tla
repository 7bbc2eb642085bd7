----------------------------- MODULE Deployment -----------------------------
(***************************************************************************)
(* The command line around a directory of agent specs: what an author      *)
(* writes, the gates a spec goes through (doctor, verify, serve), the      *)
(* schema migrations, and the service that serve launches, whose worker    *)
(* processes build the agents again, on their own and later.               *)
(*                                                                         *)
(* Nothing is locked: an author may save a file between any two readings   *)
(* of it, a command may be killed between two writes, a worker may die.    *)
(***************************************************************************)
EXTENDS Naturals, FiniteSets

CONSTANTS
    Files,      \* the *.yaml files of the agents directory, in sorted order
    Workers,    \* the server's worker processes
    NameOf,     \* the agent name new-agent gives a file
    Specs,      \* what people write in a file
    Machines,   \* what is installed and configured, one record each
    Stores,     \* the databases a URL may name
    Absent, Unset,
    MaxEdits, MaxDeaths

Vars == {"store", "db", "allow"}
Env == [Vars -> Stores \cup {Unset, TRUE}]
Migrations == {1, 2}            \* the checkpointer's tables, then the tool ledger's

\* The observability block: absent or naming no provider, switched off, naming
\* the provider, or naming a backend nobody exports to.
Tracing == {"default", "none", "otel", "typo"}

\* What a spec names and only a build looks up: it may be blank or not there.
Lookups == {"model", "tools", "members", "skills"}

\* Fields of a spec that decide whether it loads, is supported, and is built.
Shape == [name : STRING, mapping : BOOLEAN, template : {"none", "single", "autonomous"},
          code : {"none", "scaffold", "plain", "durable", "broken"},
          engine : {"langgraph", "echo", "unheard of"},
          asks : SUBSET {"streaming", "schema", "members", "tools", "mcp", "checkpoint"},
          voice : {"none", "known", "typo"}, traces : Tracing, broken : SUBSET Lookups,
          exposed : BOOLEAN, secured : BOOLEAN]

ASSUME DeploymentAssumption ==
    /\ Files \subseteq Nat /\ IsFiniteSet(Files)
    /\ Specs \subseteq {s \in Shape : s.code # "scaffold"}
    /\ \A m \in Machines : m.exported \in Env /\ m.dotenv \in Env
    /\ NameOf \in [Files -> STRING]
    /\ Unset # TRUE
    /\ MaxEdits \in Nat /\ MaxDeaths \in Nat

VARIABLES
    files,      \* what each spec file says
    companion,  \* the files whose scaffolded agent.py exists
    machine,    \* packages, exported variables and .env of this machine
    tables,     \* the migrations each database has had
    job,        \* a command with several writes, between two of them
    server,     \* the serve command and the process tree it becomes
    worker,     \* per worker process: the agents it built
    run,        \* a durable run somewhere between two of its nodes
    lost,       \* durable runs that no process can continue
    saved,      \* the files saved since serve first read them
    edits, deaths

fileVars == <<files, companion, saved, edits>>
serviceVars == <<server, worker, run, lost, deaths>>
deploymentVars == <<files, companion, machine, tables, job, server, worker,
                    run, lost, saved, edits, deaths>>

NoJob == [cmd |-> "none"]
NoRun == [agent |-> Absent]
NoServer == [phase |-> "down"]

-----------------------------------------------------------------------------
(* Reading a spec.                                                         *)

\* A spec is a template or a builder, and the autonomous one is LangGraph's.
Coherent(s) ==
    /\ ~(s.template # "none" /\ s.code # "none")
    /\ s.template = "autonomous" => s.engine = "langgraph"

SecureWhenExposed(s) == s.exposed => s.secured

\* load_spec: a mapping of known fields that do not contradict each other.
Loads(s) == s.mapping /\ Coherent(s) /\ SecureWhenExposed(s)

\* What each engine declares; the gate compares it with what the spec asks.
Capabilities == [langgraph |-> {"streaming", "members", "tools", "mcp", "checkpoint"},
                 echo |-> {"streaming"}]
Supported(s) == s.asks \subseteq Capabilities[s.engine]

Installed(s) == s.engine \in machine.installed \cap DOMAIN Capabilities

\* The spec an agent is built from: a code: builder returns its own, and one
\* that names what is not there counts as a broken builder.
Effective(s) ==
    IF s.code = "none" THEN s
    ELSE [s EXCEPT !.asks = IF s.code = "durable" THEN {"checkpoint"} ELSE {},
                   !.traces = "default", !.broken = {}]
Durable(s) == "checkpoint" \in s.asks

\* The function that a code: names can be found and called, and what it
\* returns is a spec whose names resolve.
Resolvable(s) == s.code # "broken"

McpVersionOk == "mcp" \in machine.installed
DeepagentsVersionOk == "deepagents" \in machine.installed

\* Every server of the agent answered in time (`reachable`), or it is not built.
DiscoversMcpTools(s, reachable) == "mcp" \in s.asks => McpVersionOk /\ reachable

\* What the engine's build looks up: always the model, the tools: and members:
\* where there are any, and skills: only where no supervisor owns the prompt.
LooksUp(s) ==
    {"model"} \cup (s.asks \cap {"tools", "members"})
              \cup (IF "members" \in s.asks THEN {} ELSE {"skills"})

\* The engine's build; echo has nothing to build.  Members go before a template.
Compiles(s, reachable) ==
    s.engine = "langgraph" =>
        /\ s.broken \cap LooksUp(s) = {}
        /\ DiscoversMcpTools(s, reachable)
        /\ s.template = "autonomous" => "members" \in s.asks \/ DeepagentsVersionOk

\* The adapter, where there is one, builds every backend that a block names.
ExportersAreKnown(s) ==
    "observability" \in machine.installed => s.traces # "typo"

\* resolve_observer: tracing that was asked for by name must be there; the
\* default is not missed.
Traceable(s) ==
    /\ s.traces = "otel" => "observability" \in machine.installed
    /\ ExportersAreKnown(s)

\* build_agent: load, run the builder, resolve and gate the engine, compile,
\* attach the tracing.
Builds(s, reachable) ==
    LET e == Effective(s)
    IN  /\ Loads(s) /\ Resolvable(s)
        /\ Installed(e) /\ Supported(e) /\ Compiles(e, reachable) /\ Traceable(e)

Written == {f \in Files : files[f] # Absent}

-----------------------------------------------------------------------------
(* The environment and the checks of one spec.                             *)

\* load_env_for_run: a .env never overrides what is exported.
LoadEnv(env) == [v \in Vars |-> IF env[v] = Unset THEN machine.dotenv[v] ELSE env[v]]
Exported(allow) == [machine.exported EXCEPT !["allow"] = IF allow THEN TRUE ELSE @]

CheckDurabilityStore(s, env) ==
    Durable(s) => env["store"] # Unset \/ env["allow"] = TRUE

\* Every provider a voice block names is known, and usable here.
VoicePreflight(s, environment) ==
    s.voice = "known" /\ (environment => "speech" \in machine.installed)

CheckVoice(s, environment) ==
    s.voice # "none" => "voice" \in machine.installed /\ VoicePreflight(s, environment)

CheckAutonomousVersion(s) == s.template = "autonomous" => DeepagentsVersionOk
CheckMcpVersion(s) == "mcp" \in s.asks => McpVersionOk

\* Mutated form: a voice block that is fine ends the check.
CheckAgentUpToVoice(s, env, environment) ==
    /\ Loads(s) /\ Installed(s) /\ Supported(s)
    /\ CheckVoice(s, environment)
    /\ environment /\ s.voice = "none" => /\ CheckDurabilityStore(s, env)
                                         /\ CheckAutonomousVersion(s)
                                         /\ CheckMcpVersion(s)

\* _check_agent has no reason to refuse s; it reads the file, never the
\* builder that a code: names.
CheckAgent(s, env, environment) ==
    /\ Loads(s)
    /\ Installed(s)
    /\ Supported(s)
    /\ CheckVoice(s, environment)
    /\ environment => /\ CheckDurabilityStore(s, env)
                      /\ CheckAutonomousVersion(s)
                      /\ CheckMcpVersion(s)

-----------------------------------------------------------------------------
(* The commands that only answer: they leave everything as it is.          *)

\* doctor loads no .env.
DoctorPasses(allow) ==
    Written # {} /\ \A f \in Written : CheckAgent(files[f], Exported(allow), TRUE)

\* verify: its spec section fails on what is wrong in a file, its A2A
\* section on a card whose engine is missing; a section with nothing to
\* check is skipped and never fails.
SpecValidation == \A f \in Written : CheckAgent(files[f], machine.exported, FALSE)
A2aInterop == \A f \in Written : Loads(files[f]) /\ files[f].exposed => Installed(files[f])
VerifyPasses == SpecValidation /\ A2aInterop

\* open_checkpointer: the one store of the environment is opened, without DDL.
CheckpointerOpens(env) ==
    env["store"] # Unset => "postgres" \in machine.installed /\ 1 \in tables[env["store"]]

\* run: a build and one turn in a process of its own, with the .env loaded and
\* no durability gate; every LangGraph turn opens the checkpointer. What the
\* model's provider answers is left out.
RunAnswers(f, reachable) ==
    /\ f \in Written /\ Builds(files[f], reachable)
    /\ Effective(files[f]).engine = "langgraph" => CheckpointerOpens(LoadEnv(machine.exported))

\* voice serve: the checks, and unless --dry-run the build of the agent.
VoiceServes(f, dryRun, reachable) ==
    /\ f \in Written /\ Loads(files[f])
    /\ files[f].voice # "none" /\ CheckVoice(files[f], TRUE)
    /\ dryRun \/ Builds(files[f], reachable)

-----------------------------------------------------------------------------
(* The commands that write; a refusal changes nothing.                     *)

\* _resolve_database_url reads its own two variables, not the store's.
ResolveDatabaseUrl(flag) == IF flag # Unset THEN flag ELSE machine.exported["db"]

\* upgrade --allow-migrations; without the flag the plan is only printed.
Upgrade(flag) ==
    /\ job = NoJob
    /\ ResolveDatabaseUrl(flag) # Unset
    /\ job' = [cmd |-> "upgrade", url |-> ResolveDatabaseUrl(flag), next |-> 1]
    /\ UNCHANGED <<machine, tables>> /\ UNCHANGED fileVars /\ UNCHANGED serviceVars

\* One migration, each idempotent, in version order; without the database's
\* driver the first one raises.
ApplyMigration ==
    /\ job.cmd = "upgrade"
    /\ LET installed == "postgres" \in machine.installed
       IN  /\ tables' = IF installed THEN [tables EXCEPT ![job.url] = @ \cup {job.next}]
                        ELSE tables
           /\ job' = IF job.next = 2 \/ ~installed THEN NoJob ELSE [job EXCEPT !.next = @ + 1]
    /\ UNCHANGED machine /\ UNCHANGED fileVars /\ UNCHANGED serviceVars

\* What new-agent writes for a template.
Scaffold(f, template) ==
    [name |-> NameOf[f], mapping |-> TRUE,
     template |-> IF template = "graph" THEN "none" ELSE template,
     code |-> IF template = "graph" THEN "scaffold" ELSE "none", engine |-> "langgraph",
     asks |-> {}, voice |-> "none", traces |-> "default", broken |-> {},
     exposed |-> FALSE, secured |-> FALSE]

\* _write_new_file never replaces a file without --force.
MayWrite(exists, force) == ~exists \/ force

WriteSpec(f, s) ==
    /\ edits < MaxEdits
    /\ edits' = edits + 1
    /\ files' = [files EXCEPT ![f] = s]
    /\ saved' = IF server = NoServer THEN {} ELSE saved \cup {f}
    /\ UNCHANGED <<machine, tables, companion>> /\ UNCHANGED serviceVars

\* Mutated form: the YAML first, its agent.py if that went well.
NewGraphAgentYamlFirst(f, force) ==
    /\ job = NoJob
    /\ MayWrite(f \in Written, force)
    /\ WriteSpec(f, Scaffold(f, "graph"))
    /\ job' = [cmd |-> "new-agent", file |-> f, force |-> force]

\* new-agent writes agent.py first, then the YAML that points at it.
NewGraphAgent(f, force) ==
    /\ job = NoJob
    /\ MayWrite(f \in companion, force)
    /\ companion' = companion \cup {f}
    /\ job' = [cmd |-> "new-agent", file |-> f, force |-> force]
    /\ UNCHANGED <<machine, tables, files, saved, edits>> /\ UNCHANGED serviceVars

WriteYaml ==
    /\ job.cmd = "new-agent"
    /\ job' = NoJob
    /\ IF MayWrite(job.file \in Written, job.force)
       THEN WriteSpec(job.file, Scaffold(job.file, "graph"))
       ELSE /\ UNCHANGED <<machine, tables>> /\ UNCHANGED fileVars /\ UNCHANGED serviceVars

\* The templates that are one YAML file; init's starter has no template, and
\* its two other files are read by nothing.
NewYamlAgent(f, template, force) ==
    /\ job = NoJob
    /\ MayWrite(f \in Written, force)
    /\ WriteSpec(f, Scaffold(f, template))
    /\ UNCHANGED job
InitProject(f) == NewYamlAgent(f, "none", FALSE)

\* The process of a command with several writes is killed.
Kill ==
    /\ job # NoJob
    /\ deaths < MaxDeaths
    /\ deaths' = deaths + 1
    /\ job' = NoJob
    /\ UNCHANGED <<machine, tables, server, worker, run, lost>> /\ UNCHANGED fileVars

\* An author saves a file, or removes it.
Edit(f, s) ==
    /\ files[f] # s
    /\ WriteSpec(f, s)
    /\ UNCHANGED job

-----------------------------------------------------------------------------
(* serve: three readings of every file, then the server.                   *)

Down == [up |-> FALSE, serves |-> {}, unseen |-> {}]

\* A gate that refuses ends the command before the socket is bound.
Gate(passes, next) ==
    /\ server' = IF passes THEN next ELSE NoServer
    /\ UNCHANGED <<machine, tables, job, worker, run, lost, deaths>>

\* _check_agent of every spec, leaving out what is only missing here. The list
\* of the files is taken now, for all three readings.
SpecsAreValid(env) == \A f \in Written : CheckAgent(files[f], env, FALSE)
GateSpecs(allow) ==
    /\ server = NoServer
    /\ LET env == LoadEnv(Exported(allow))
       IN  Gate(SpecsAreValid(env), [phase |-> "specs", env |-> env, specs |-> Written])
    /\ saved' = {}
    /\ UNCHANGED <<files, companion, edits>>

\* A file that is gone or no longer loads raises.
StillLoads(f) == f \in Written /\ Loads(files[f])

\* Mutated form: a promise is announced like anything else that is missing.
GatePromisesAloud ==
    /\ server.phase = "specs"
    /\ Gate(\A f \in server.specs : StillLoads(f), [server EXCEPT !.phase = "promises"])
    /\ UNCHANGED fileVars

\* A broken promise is fatal: the second reading, of the YAML alone.
PromisesCanBeKept(specs, env) ==
    \A f \in specs : StillLoads(f) /\ CheckDurabilityStore(files[f], env)
GatePromises ==
    /\ server.phase = "specs"
    /\ Gate(PromisesCanBeKept(server.specs, server.env), [server EXCEPT !.phase = "promises"])
    /\ UNCHANGED fileVars

\* build_auth_provider with the settings serve hands it (`inOrder`: the trusted
\* gateways are named, the key table parses).  It hands the jwt factory none,
\* and that one takes an issuer for granted.
AuthBuilds(provider, inOrder) ==
    \/ provider = "composite"
    \/ provider \in {"forwarded", "api_key"} /\ inOrder

\* The third reading: what is missing on this machine is only announced, an
\* engine included; a capability mismatch still raises.
RaisesNothing(f) == StillLoads(f) /\ (Installed(files[f]) => Supported(files[f]))

\* After it the auth provider is built and the workers start.
Bind(provider, inOrder) ==
    /\ server.phase = "promises"
    /\ Gate(AuthBuilds(provider, inOrder) /\ \A f \in server.specs : RaisesNothing(f),
            [server EXCEPT !.phase = "up"])
    /\ UNCHANGED fileVars

\* AgentRegistry.add: a later agent replaces an earlier one of its name.
Latest(F) == {f \in F : \A g \in F : files[g].name = files[f].name => g <= f}

\* load_agents: every spec of the directory in order, a failing one left out.
LoadAgents(reachable) == Latest({f \in Written : Builds(files[f], reachable)})

StartWorker(w) ==
    /\ server.phase = "up"
    /\ ~worker[w].up
    /\ \E reachable \in BOOLEAN :
          LET built == LoadAgents(reachable)
          IN  worker' = [worker EXCEPT ![w] =
                  [up |-> TRUE, serves |-> {Effective(files[f]) : f \in built},
                   unseen |-> {Effective(files[f]) : f \in {g \in built :
                                   g \in saved \/ files[g].code # "none"}}]]
    /\ UNCHANGED <<machine, tables, job, server, run, lost, deaths>> /\ UNCHANGED fileVars

\* Where the state of a turn is kept.
Home == IF server.env["store"] = Unset THEN "memory" ELSE "store"

\* A durable turn gets past its first node: its checkpoint is somewhere.
Turn(w, a) ==
    /\ worker[w].up /\ a \in worker[w].serves /\ Durable(a)
    /\ run = NoRun
    /\ CheckpointerOpens(server.env)
    /\ run' = [agent |-> a, home |-> Home, worker |-> w]
    /\ UNCHANGED <<machine, tables, job, server, worker, lost, deaths>>
    /\ UNCHANGED fileVars

\* A worker that serves the agent and reaches the checkpoint continues it.
Reaches(w) == run.home = "memory" => run.worker = w
Resume(w) ==
    /\ run # NoRun /\ worker[w].up
    /\ \E a \in worker[w].serves : a.name = run.agent.name
    /\ Reaches(w)
    /\ run' = NoRun
    /\ UNCHANGED <<machine, tables, job, server, worker, lost, deaths>>
    /\ UNCHANGED fileVars

\* A worker dies, or --reload replaces it; its memory goes with it.
WorkerDies(w) ==
    /\ worker[w].up
    /\ deaths < MaxDeaths
    /\ deaths' = deaths + 1
    /\ worker' = [worker EXCEPT ![w] = Down]
    /\ IF run # NoRun /\ run.home = "memory" /\ run.worker = w
       THEN /\ lost' = lost \cup {[agent |-> run.agent,
                                   accepted |-> server.env["allow"] = TRUE,
                                   unseen |-> run.agent \in worker[w].unseen]}
            /\ run' = NoRun
       ELSE UNCHANGED <<run, lost>>
    /\ UNCHANGED <<machine, tables, job, server>> /\ UNCHANGED fileVars

-----------------------------------------------------------------------------
DeploymentInit ==
    /\ files \in [Files -> Specs \cup {Absent}]
    /\ companion = {}
    /\ machine \in Machines
    /\ tables = [s \in Stores |-> {}]
    /\ job = NoJob
    /\ server = NoServer
    /\ worker = [w \in Workers |-> Down]
    /\ run = NoRun
    /\ lost = {}
    /\ saved = {} /\ edits = 0 /\ deaths = 0

Command ==
    \/ \E flag \in Stores \cup {Unset} : Upgrade(flag)
    \/ ApplyMigration \/ WriteYaml \/ Kill
    \/ \E f \in Files : InitProject(f)
    \/ \E f \in Files, force \in BOOLEAN :
          \/ NewGraphAgent(f, force)
          \/ \E template \in {"single", "autonomous"} : NewYamlAgent(f, template, force)

Service ==
    \/ \E allow \in BOOLEAN : GateSpecs(allow)
    \/ GatePromises
    \/ \E provider \in {"api_key", "forwarded", "jwt", "composite"}, inOrder \in BOOLEAN :
          Bind(provider, inOrder)
    \/ \E w \in Workers : StartWorker(w) \/ Resume(w) \/ WorkerDies(w)
    \/ \E w \in Workers : \E a \in worker[w].serves : Turn(w, a)

DeploymentNext ==
    \/ Command
    \/ \E f \in Files, s \in Specs \cup {Absent} : Edit(f, s)
    \/ Service

DeploymentSpec == DeploymentInit /\ [][DeploymentNext]_deploymentVars

-----------------------------------------------------------------------------
(* Properties.                                                             *)

\* Every variable stays in its range.
DeploymentTypeOK ==
    /\ files \in [Files -> Shape \cup {Absent}]
    /\ companion \subseteq Files
    /\ machine \in Machines
    /\ tables \in [Stores -> SUBSET Migrations]
    /\ job.cmd \in {"none", "upgrade", "new-agent"}
    /\ server.phase \in {"down", "specs", "promises", "up"}
    /\ \A w \in Workers : worker[w].unseen \subseteq worker[w].serves
    /\ run = NoRun \/ run.worker \in Workers

\* A durable run that died with a worker's memory was one whose loss the
\* operator had accepted, or belonged to an agent serve's gate could not
\* judge: written in Python, or saved after serve had first read the files.
LostOnlyKnowingly == \A l \in lost : l.accepted \/ l.unseen

\* The commands agree, although each asks its own questions in its own
\* environment. What doctor passes is not refused by either of serve's gates
\* (which load the .env that doctor does not). It is built, too, and hence
\* served over voice where it asks for it, unless what fails is a thing that
\* doctor does not look at: the builder and what the engine lacks for it, the
\* tracing, or a model, tool, member or skill that is blank or not there. And
\* it runs, unless the store of the .env has no driver here or was never
\* migrated. What verify passes, serve's first gate passes.
CommandsAgree ==
    /\ \A allow \in BOOLEAN : DoctorPasses(allow) =>
          LET env == LoadEnv(Exported(allow))
          IN  /\ SpecsAreValid(env) /\ PromisesCanBeKept(Written, env)
              /\ \A f \in Written :
                    LET e == Effective(files[f])
                    IN  /\ Resolvable(files[f]) /\ Supported(e) /\ Traceable(e)
                        /\ e.broken \cap LooksUp(e) = {}
                        => /\ CheckpointerOpens(LoadEnv(machine.exported)) => RunAnswers(f, TRUE)
                           /\ files[f].voice # "none" => VoiceServes(f, FALSE, TRUE)
    /\ VerifyPasses => SpecsAreValid(LoadEnv(machine.exported))

\* No YAML ever names an agent.py that new-agent has not written, wherever
\* it was killed or refused.
NoDanglingCode == \A f \in Written : files[f].code = "scaffold" => f \in companion

\* What serve's durability gate is for (main.py: "A broken PROMISE is still
\* fatal"): unless the operator accepted in-memory state, no run of a
\* durable agent is lost.
PromiseKept == \A l \in lost : l.accepted

=============================================================================
