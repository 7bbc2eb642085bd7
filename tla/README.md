# AgentShip in TLA+

AgentShip runs agents: a YAML or Python spec is built into a `RunnableAgent`, an engine (LangGraph) drives its
turns, and an HTTP service, a voice adapter and a command line put it in front of people. This directory models the
parts of it where order, concurrency and failure decide whether it is right. TLC checks the models on small
instances; the TLA+ proof system proves the most important invariants for every value of the constants.

`PROJECT.json` is the machine-readable side of this file: every component with its modules, every run, the source
lines behind every definition, the hazards found in the code and the properties that would notice them.

## 1. The system

Paths are under `src/packages/`; `core` is `agentship-core/src/agentship`, `lg` is
`agentship-langgraph/src/agentship_langgraph`, `service` and `cli` are those packages' own modules.

| Component | State it keeps | Operations | What makes it hard | What makes it correct |
|---|---|---|---|---|
| Thread lock (`core/thread_lock.py`) | a Postgres session advisory lock, or a process-wide map of locks | enter or be refused, leave, `release_dead_owner` | the holder dies; the connection drops under a live holder | one owner; it always comes free again |
| Tool ledger, `call_once` (`core/primitives/idempotency.py`, `ledger.py`) | a row per idempotency key: unseen, `pending`, `done` with a result | lookup, write-ahead, effect, settle, verify | crash between any two of them; a ledger operation that raises | an effect at most once; never without a row; receipts of the right call |
| Durable turns (`lg/engine.py`, `lg/durability.py`) | the thread's newest checkpoint | `run`, `resume`, `stream`, `amend_conversation` | crash and resume at any super-step; a resume beside a run; a shared saver | no effect is repeated, no conversation loses its prompt |
| Tool wrapper (`lg/tools.py`) | none | call site, pause for approval, exactly-once, error to message | its key has to be equal in a resume and different in a later turn | as the ledger |
| Human approval (`lg/tools.py`, `lg/engine.py`, `core/engines/base.py`) | the pause and its decision, in the checkpoint; a token at the client | pause, show, resume with a decision, resume without | lost, late and repeated answers; death at any step of an approved write; a tool or a ledger that raises | only an approved write fires; an approval is settled, and what the model is told of it is true |
| Supervisor (`lg/templates/graph*.py`) | `SupervisorState` of the session, checkpointed | classify, route, dispatch, resolve, gate | state of the last turn; a stop inside a dispatch | retries are bounded; the answer is of this turn |
| Dispatch, retry, merge (`core/primitives/dispatch.py`, `retry.py`, `conflict_resolver.py`) | none | three strategies, retry selection, rank | partial failure | the best success wins |
| Voice turn (`agentship-voice`: `turn.py`, `adapters/`) | the reply task, `_answering`, `spoken`, TTS's queue, the history | speak, interrupt, correct the history | four actors with their own pace; interruption at any point | the history holds what was heard |
| Turn pipeline (`core/runtime.py`, `middleware.py`, `context.py`) | context variables per task | `run`, `stream`, `resume`, hooks, dispatched members | abandoned streams, nested runs, copies of the context | a turn sees its own identity; the context is put back |
| Registry (`core/registry.py`) | providers by name, discovered or not | register, get, names | look-ups racing discovery; modules that register while imported | nothing that loads is missed, in-code wins |
| HTTP service (`service/app.py`, `routers/`, `middleware/`) | per-request context, the task store | every route, CORS, fallback | an error in any layer; requests of several tenants | every answer is stamped; tenants stay apart |
| Streams (`routers/agents.py`, `live.py`, `a2a/server.py`, `lg/engine.py`) | one turn task per connection or per message, its generator | `:stream`, the live socket, `message/stream` | disconnects, a new message during a turn, a generator left suspended | no silence, pauses told, no late frames, nothing leaks |
| Rate limiter (`middleware/ratelimit.py`) | a bucket per key | admit, refuse with Retry-After | fractional time | the rate holds, Retry-After is enough |
| Command line and spec gates (`cli/main.py`, `verify.py`, `core/spec.py`, `conformance`, `service/serving.py`) | spec files, `.env`, migrations, the server and its workers | new-agent, init, doctor, verify, run, serve, voice serve, db upgrade | files change between two readings; a command or worker is killed | the commands agree; what may be lost was accepted |
| Trace of a turn (`lg/tracing.py`, `core/observability`) | open spans by run id | the callback's start, end and error events | concurrent events; a backend that fails | the trace is a tree that says what happened |
| Voice assembly, model routing, A2A client, skills, built-in tools, exporters | little or none across calls | pure functions and I/O | - | left to unit tests |

**Interaction.** The service and the voice node call the four verbs of `RunnableAgent`; these set the context and call
the engine; the engine drives a graph whose tool node calls the wrapper, which calls the ledger. Checkpoint and ledger
share one store (`open_turn_state`); the lock is a second connection to the same database. The supervisor is one such
graph, whose dispatch node calls other `RunnableAgent`s. Voice reads a stream and, on an interruption, calls
`amend_history` while the graph may still be running. The command line reads the same specs several times and launches
the service, whose workers read them again.

## 2. Modules

| Module | Kind | Models |
|---|---|---|
| `EffectOnce` | abstract specification | what a durable agent promises about one side-effecting call |
| `WriteByConsent` | abstract specification | what `confirm_writes` promises a human about the writes of a session |
| `Delegation` | abstract specification | what a supervisor promises about its specialists and answers |
| `TurnFrames` | abstract specification | the frame grammar a client of a stream may rely on |
| `Dialogue` | abstract specification | what a human who may cut in can rely on about what is heard and remembered |
| `DurableTurn`, `DurableTurnProofs` | component, theorems | drivers of one conversation, thread lock, checkpoint, ledger, `call_once` |
| `Approval`, `ApprovalProofs` | component, theorems | a human, a client, their requests, the pause and `engine.resume` |
| `Supervisor`, `SupervisorProofs` | component, theorems | the supervisor graph with dispatch, retry and merge, over turns of one session |
| `BargeIn`, `BargeInProofs` | component, theorems | one Pipecat voice session around one `VoiceTurn` |
| `SharedSaver` | component | the turns of one agent over the one graph and the checkpointer bound to it |
| `StreamTurn` | component | streamed turns on one connection, over SSE, A2A or the live socket |
| `TurnPipeline` | component | context variables, hooks and tracing of runs, streams, resumes and members |
| `TraceTree` | component | the callback that rebuilds a turn's spans |
| `Registry` | component | look-ups, registrations and the one discovery |
| `Admission` | component | a request's way through the layers, auth, scopes and routes; the task store |
| `TokenBucket` | component | the rate limiter |
| `Deployment` | component | spec files, the commands around them, serve and its workers |
| `MCDurableTurn`, `MCApproval`, `MCSupervisor`, `MCBargeIn` | constants for TLC | small instances of those components |
| `MCPlatform` | composition | the other eight components |
| `EngineProofs` | theorems | `SharedSaver` and `StreamTurn`: what the LangGraph engine does around one turn |
| `TurnProofs` | theorems | `TurnPipeline` and `TraceTree`: a turn's context and its trace |
| `ServiceProofs` | theorems | `Admission` and `TokenBucket`: the HTTP service |
| `PlatformProofs` | theorems | `Registry`, `Deployment`, and the composition of `MCPlatform` |

In every component the "Mutated form" operators stand right before the definition they distort. No specification uses
them; they are bugs the code could plausibly have, and each property is shown to notice one.

The eight components of `MCPlatform` share no state. The variable `part` is chosen in the initial state and says which
of them moves; the others stay in one initial state. The reachable states are the sum of the eight, and each
part is explored exactly as it would be in a run of its own; `PlatformProofs` has this as a lemma, `PartsMoveAlone`.

### DurableTurn

`thread` is the newest checkpoint: the number of super-steps taken, the node that runs next and the tool calls that wait.
`ledger` and `told` are the rows of `tool_idempotency_keys` and the tool results saved with the checkpoint; they and `thread` survive
a crash. A driver (`pc`, `view`, `phase`) is one execution of `engine.run` or `engine.resume`; its memory dies with it.

| Action | Code |
|---|---|
| `Run`, `Resume` | `_run_durable`, which takes no lock; `resume`, which does |
| `TryLock`, `Leave` | `pg_try_advisory_lock` or refusal; leaving `async with` by any way |
| `Load`, `Input`, `ModelReply`, `CommitTools` | the checkpoint read under the lock, and one sync checkpoint per super-step |
| `Lookup`, `WriteIntent`, `Fire`, `Settle`, `Verify`, `LedgerRaises`, `ToolRaises` | the steps of `call_once` and the wrapper's `except` |
| `Save` | LangGraph keeps a finished task's result beside the checkpoint |
| `Abort` | a driver that is cancelled or raises: it unwinds and leaves the lock |
| `Crash`, `Reclaim`, `SessionDrops` | a killed worker; the lock of a dead owner; the lock's connection lost under a live one |

The idempotency key keeps what tells equal writes apart: the step and the call id (`_call_site`). Tool name, arguments and
node path are the same for all the calls the model compares. The number of effects counts to 2, which is as much as "more than once"
needs. `KeepsPromise` is the refinement: the conversation implements `EffectOnce` with `landed <- fired`.

### Approval

`at` is where the newest checkpoint stands: at rest, before the model, paused at `interrupt()`, or at a tool step with a
decision. `screens` and `mail` are the client: the pending write a human can still decide on, and decisions under way.
`Deliver` is `resume` with a value, `Continue` is `resume` without one (goes on after a crash, or shows the pause again),
`Message` is `run`. A request in `mail` can be lost, and, with a client that `resends`, delivered again at any later time. A token names
a thread and nothing else the code reads, so `Deliver` has no guard on the write the answer was meant for.
Whether a second answer to an interrupted step replaces the first is left open: it is LangGraph's business.

Inside the tool step a driver is at `call`, which a crash resets; `ledger` is the write's row, which survives one; `told` is what the model learns.
An approved write takes the steps of `call_once`, and ends in each of the ways the wrapper has:

| Action | Code | The model is told |
|---|---|---|
| `Reject` | a decision without approval returns before any key or row | rejected |
| `WriteAhead`, `Fire`, `Settle` | `pending` first, then the effect, then `done` | the receipt |
| `Replay` | a settled row is returned | what the row holds |
| `Verify` | a pending row, left by a driver that died: `_ToolInvocation.verify` | not re-run |
| `ToolRaises`, `LedgerRaises` | any exception, before or after the effect or the row's change: `tool_error_message` | an error |
| `FinishTool` | the result is saved and the step committed | |

One driver works on a thread at a time; two of them racing is `DurableTurn`'s subject. `Crash` cuts a driver short at any of these steps.
`KeepsConsent` is the refinement of `WriteByConsent`: the abstract specification promises that a write happens once at most and by consent, that the session goes
on only after an answer, and that the word the model is given is true (a receipt of a write that happened, a rejection of one that did not, "not re-run" only
where a driver was cut short). It does not promise that an approved write happens, as the code does not. Its `strict` is a client that sends an answer once, for which an approval carries only the write it was given for; with
another it carries any write, and that is all the code promises (finding 2).

### Supervisor

The variables named after `SupervisorState`'s fields are the checkpointed state; `fresh` is what a dispatch has
collected and not yet returned. The actions are the nodes of the graph, in the order of its edges, `Call(s)` one call of a specialist inside
the dispatch, `Ask` a message, `Stop` a driver that dies, is cancelled or raises, `Resume` its continuation from the last
checkpoint. `next` is the node the checkpoint goes on with. A result carries the turn whose message was asked, which no
code reads: it is what `AnswersThisTurn` compares. `KeepsDelegation` is the refinement of `Delegation`: a dispatch with all its calls, stops and
resumes is one step of the abstract specification, which leaves out whose message a result answers (finding 3).

### BargeIn

Four actors: the agent node, which handles one frame at a time and awaits in the middle (`node`); the reply task
(`reply`); TTS with its queue, and the witness behind it (`Speak`); the human (`Interruption`, `UserTurn`). A word is a
chunk spoken as a whole; a message is the set of its words. `cutsIn` is `voice.allow_interruptions`, chosen in the initial
state. `Interruption` and `UserTurn` are `process_frame`, with `_interrupt`; amending is
`amend_conversation` with its fail-open exception path, `Commit` is the moment LangGraph checkpoints the model's message, which is what an
amendment can and cannot see. `KeepsDialogue` is the refinement of `Dialogue`, which knows the turns, what was heard and the history.

### SharedSaver

Every verb opens a saver of its own, writes it to the agent's one `graph.checkpointer` and goes on through whatever the
graph holds by then. `bound` is that attribute, `through` the saver a graph run was started with (LangGraph reads the
attribute once per invocation), `open` the savers not yet closed by their `async with`. `at` follows a call: asking for
history (`_has_history`, whose exceptions are answered "no"), reading or rewriting state, invoking, driving, settling
(`aget_state` after the run), leaving. In memory the saver is one process-wide object and is never closed. `begun` and
`prompted` are what the conversations in the store hold.

### StreamTurn

`surface` is `sse`, `a2a` or `live`. A turn is a task (`task`, `cancel`) that pulls a generator (`gen`): `LangGraphEngine.stream`
inside `RunnableAgent.stream` inside the surface's mapping of events to frames. `out` is an event yielded and not yet sent;
`wire` is what the client saw. `Message` is the receive loop of `live.py`, which cancels the running turn and awaits it (`Cancelled`),
`Disconnect` and `HangUp` are a client that leaves while a frame is being sent or the loop receives. A task cancelled in the middle of a send drops
the generator, which the event loop's finalizer closes later (`Finalize`, `Close`). `KeepsFrameOrder` is the refinement of `TurnFrames`, which
knows the frames sent so far and nothing else.

### TurnPipeline

`context` is, per asyncio task, the three context variables: current run, current observer, callback installed. `CallVerb`
starts `run`, `stream` or `resume` in a client's task, `Dispatch` a member's run in a task that copies its supervisor's context.
A stream shares its consumer's context and sets the variables at the first pull. `Aclose` is a consumer that closes its
stream, `Vanish` the end of the consumer's task, `Forget` (only in `LoosePlatform`) a consumer that stops pulling and goes on.
`heard` counts hooks, `tracers` says whose callback sees the engine's work.

### TraceTree

`work` is what really goes on inside a turn: graphs, nodes, helpers, sequences, model calls and tools, with the run each was
started under. The callback sees start, end and error events and keeps `spanOf` (`_spans`) and `modelOf` (`_model_ids`); `recorded` is
the backend's trace. A backend may fail to open a span (`faults`), which leaves a no-op handle. Helpers and
sequences get no span, and what starts under them hangs under the agent's span.

### Registry

`Get` and `List` are the look-ups, `Register` is in-code registration, `Discover`, `EnterScan`, `Import`, `Load` and `Publish` the one scan of the
entry points under the reentrant lock, `ReadProviders` the answer, read without it. Importing an entry point's module may register providers in code (`brings`), by the thread that holds the lock.

### Admission and TokenBucket

`Arrive` is a request at the outermost layer, `Authenticate` the provider chain, which binds the tenant, `Depend` the scope
dependency, the `Handle...` actions the routes, `Preflight` CORS. `Stack` is the order of the layers; an answer is stamped by the layers outside
the one that gave it. `tenantOf` is the context variable, `tasks` the store shared by all tenants. Requests interleave at every
await. In `TokenBucket` time is an integer number of ticks and a request costs `Cost` ticks of earning, so fractional rates are exact; `window` is an observer who
starts counting at any moment, `advice` a refused client that remembers when Retry-After told it to return.

### Deployment

`files` are the specs of the agents directory, `machine` the installed packages, the exported variables and `.env`, `tables` the migrations
each database has had. `Loads`, `CheckAgent`, `Resolvable`, `Traceable` and `Builds` are the rules of `spec.py`, `_check_agent` and
`RunnableAgent.from_spec`; `DoctorPasses`, `VerifyPasses`, `RunAnswers`, `VoiceServes` are the verdicts of the commands. `Compiles` is the engine's build; `broken` are the names in a spec
that only a build looks up (`LooksUp`: model, tools, members, skills) and does not find. `RunAnswers` is a build and the opening of the checkpointer
(`CheckpointerOpens`), which needs the driver and the migrated tables of an exported store. serve takes the list of the files once and reads every
file on it three times (`GateSpecs`, `GatePromises`, `Bind`; one that is gone by then raises) before each worker reads them again (`StartWorker`). Authors edit files between
any two steps; a command is killed between its two writes; a worker dies with the runs its memory held. `lost` records such
runs, with what the operator had accepted and what serve's gate could not have seen. An agent of a `code:` builder is what the builder returns (`Effective`).

## 3. Runs

| Run | Shows | States |
|---|---|---|
| `durable_orderly` | types, at-most-once, one owner, `EffectOnce` is implemented (`KeepsPromise`); the lock comes free and every driver returns; two racing drivers, two calls, crashes | 45 thousand |
| `durable_hostile` | write-ahead and honest receipts survive clients that overlap run and resume and lock sessions that drop | 1.4 million |
| `durable_overlap` | **violation**: a resume beside a run fires a write twice | - |
| `approval_session` | careful clients fire only what was approved; a recorded approval is settled; a run comes back; `WriteByConsent` is implemented; with any client, failing tools and ledgers | 317 thousand |
| `approval_late` | **violation**: a repeated answer approves the next write | - |
| `supervisor_session` | retry budget, best success, termination; `Delegation` is implemented; two turns, two stops | 70 thousand |
| `supervisor_stale` | **violation**: the second turn is answered with the first turn's result | - |
| `bargein_session` | one reply owed, silence for the human, `Dialogue` is implemented, the node comes back, every reply ends; with and without interruptions | 618 thousand |
| `bargein_own` | **violation**: an interruption rewrites an earlier, finished reply | - |
| `platform_session` | the eight other components, 17 safety properties and the types; `TurnFrames` is implemented | 1.2 million |
| `deploy_promise` | **violation**: a durable agent from a `code:` builder is served without a store and loses its run | - |
| `pipeline_dropped` | **violation**: a consumer that stops pulling a stream keeps its run and observer | - |

What `platform_session` asks of each part:

| Part | Properties |
|---|---|
| `Deployment` | `LostOnlyKnowingly`: a run lost with a worker was accepted as such or belonged to an agent serve's gate could not judge. `CommandsAgree`: what doctor passes, serve's gates accept; it is built, runs and speaks, unless its builder or its tracing fails, a name it mentions is not there, or the store cannot be opened; what verify passes, serve's first gate accepts. `NoDanglingCode`: no YAML names an `agent.py` that was not written |
| `Admission` | `EveryAnswerIsStamped`: security headers and trace id on every answer. `TenantsStayApart`: an answer shows only tasks of the caller's own tenant |
| `TokenBucket` | `BurstIsBounded` over every window; `RetryAfterIsEnough` up to the millisecond the rounding leaves out |
| `SharedSaver` | `OnlyOverlapHurts`: only overlapping turns on Postgres meet a closed saver. `AlwaysPrompted`: no conversation without its system prompt |
| `TurnPipeline` | `IdentityIsOwn`, `ContextRestored`, `RecordedOnce`: own identity in every hook and engine, context put back, a model call in exactly one trace |
| `StreamTurn` | `NeverSilent`, `PauseIsTold`, `StateIsReleased`; `KeepsFrameOrder`: the wire is a sentence of the frame grammar |
| `Registry` | `LookupsAreTrue`: nothing that loads and nothing registered before is missed, in-code wins |
| `TraceTree` | `TraceMirrorsTheTurn`: open while it runs, errored if it raised, usage of its own call, under a span around it |

### Bounds and why they are enough

* `DurableTurn`: two drivers are a race, and the second is also the resume of the first one's crash. Two call ids are two calls in one
  super-step. `MaxStep` 5 is a turn with one tool step and the start of another turn. Drivers and call ids are interchangeable: symmetry is
  used where no liveness is checked.
* `Approval`: the second write is what a stray answer to the first one can hit. Two crashes: one at the pause or inside the tool
  step, and one of the driver that continues. Writes and crashes are unbounded in the theorems.
* `Supervisor`: three specialists, one of them unranked; two intents and the default route, so that all three
  strategies occur, with overlapping teams; a retryable and a non-retryable failure; two attempts; two turns, so that state outlives one;
  two stops, so that a resumed dispatch can stop again.
* `BargeIn`: three words are a reply partly heard and partly queued, with a tool call between words. Two turns are an
  interruption that reaches past its own reply.
* `Deployment`: two files whose specs may take each other's names; six specs (plain durable, one
  without a model, one that asks for what the engine lacks, durable by its builder, traced and autonomous, exposed with voice and MCP);
  a machine without a store and one whose `.env` names one that its environment does not, with the driver installed; one
  edit, which can fall between any two readings, and one death, of a command or a worker.
* `Admission`: two requests and two tenants, one of them with a forwarded identity and with an anonymous, expired one; the
  chain forwarded, API key, JWT. One creates, the other lists, reads or cancels. The theorem has any number.
* `TokenBucket`: capacity 7 and cost 5 do not divide each other, 3 ticks a second do not divide 1000 milliseconds; 12
  ticks fill an empty bucket and outlast a Retry-After.
* `SharedSaver`: two calls of any verb on one conversation, on either store. `Registry`: two threads, three entry points, one broken, one that
  registers another one's name. Both have theorems for any number.
* `TurnPipeline`: three runs, one client and two members, so a run can be nested in a member of another; one hook tells
  request, response and error order apart.
* `StreamTurn`: two turns are one that cancels another; one streamed item distinguishes streamed from whole replies.
* `TraceTree`: five runs are a graph, a node, a member's graph, its node and a model call; one span that cannot be opened.

### Fairness

* A driver that was started goes on (`DurableTurn`, `Approval`, `Supervisor`: the event loop runs it), a dead owner's lock is reclaimed
  (Postgres ends the session of a dead process). Nobody has to send a message, decide, crash, abort, lose anything or resume.
* `Approval` also has `WF_vars(Continue)`: a client whose run was cut short asks for it to go on. The code does not resume by
  itself, so `ApprovalIsSettled` and `RunReturns` are promises to such a client.
* `Supervisor` does not assume that anyone resumes: a stopped driver counts as finished.
* `BargeIn`: node, reply task and TTS are tasks of one loop. The human owes nothing, and no failure has to happen.
* The parts of `MCPlatform` are checked for safety only and have no fairness.

`CHECK_DEADLOCK FALSE` stands in the runs of `BargeIn` and `Supervisor`, where a session ends when the bounded number of turns
is over, and of `MCPlatform`, where every part ends when its bounded requests, runs or edits are used up. `DurableTurn` and
`Approval` are checked for deadlock.

## 4. Findings

Each is a violation run whose property quotes the repository.

1. `durable_overlap` / `AtMostOnce`: `run` takes no thread lock, so a `resume` of a session whose run is in flight drives
   the same tool step, both see the row unseen, and the write fires twice. `docs/capabilities/durable-resume.md:23`
   says the lock means that "a replay or a second worker can never double-execute the same thread".
2. `approval_late` / `OnlyApprovedFires`: the token's `checkpoint_id` is minted and never read. An answer delivered a second time
   (a double click, a retry after a lost response) is fed to whatever write the thread is paused at by then.
   `engine.py:589` says the id is there "so resume re-hydrates the exact frontier".
3. `supervisor_stale` / `AnswersThisTurn`: `specialist_results` outlives the turn, the second turn runs no specialist and
   answers with the first turn's output, against the comment at `graph_supervisor.py:147`.
4. `bargein_own` / `AmendsItsOwnReply`: while the model node is streaming, the newest `AIMessage` in the checkpoint is an earlier turn's
   reply; the amendment replaces it. `engine.py:815` takes for granted that nothing is there to be rewritten.
5. `deploy_promise` / `PromiseKept`: serve's durability gate reads the YAML alone, so an agent that is durable only by its `code:`
   builder is served without a store; a worker's death loses its run. `main.py:768` says "A broken PROMISE is still fatal".
6. `pipeline_dropped` / `ContextRestored`: a stream that is dropped, not closed, is finalized in a task of its own, and
   what it puts back it puts back in a copy. `runtime.py:344` says it "always puts back the previous one ... when the
   caller stops early".

Met while modelling, in the models or left out of them, and claimed by no run:

* After the model's message is checkpointed and generation has ended, an interruption leaves the words still queued in TTS
  in the history, against `docs/README.md:78`; the early returns of `_interrupt` decide it.
* With `allow_interruptions: false` two finished turns can be answered at the same time and their words interleave.
* An A2A peer is told `completed` when the turn has paused for approval.
* A whole reply that has thinking and no text is sent as content, its thinking included, after that was told as reasoning.
* A store that fails while it is being closed yields a second terminal frame, an error after the `done`.
* An amended message holds all the words spoken in the turn; the ones spoken before a tool call are also in that call's own,
  earlier message, so the history has them twice.
* The members of a supervisor whose stream was closed may outlive it.
* A dispatch that takes the process down is not counted as an attempt and is run again on every resume.
* A model call under a sequence that has no span hangs under the agent's span, not under its node's.
* doctor loads no `.env` while serve does, and neither looks at a builder, at whether tracing can be set up, or at whether a spec's model,
  tools, members and skills are there, all of which the build does; nor at whether the store was migrated. `durability.py:10` says the schema DDL
  "is invoked from `agentship doctor`", which runs none.
* An approved write may be told to the model as "not re-run" although it never fired: the driver died after the write-ahead row. After a ledger that
  raises, the row stays as it is.
* `_check_voice` reports a missing voice package even when asked to leave the environment out.
* `db upgrade` reads `AGENTSHIP_DATABASE_URL` or `DATABASE_URL`, the engine reads `AGENT_SESSION_STORE_URI`.
* `serve --auth jwt` hands the factory no issuer, without which it builds no provider.
* `init` may write its first file and then refuse the next.

## 5. Proofs

All theorems hold for every value of the constants, under the named assumptions of their modules. Every safety property of every
passing run is a theorem. TLC looked for counterexamples to the larger inductive invariants on small instances before they were proved.
`NoLateFrames`, `SuccessIsKept` and `CutWordsWereHeard` are in no run because the refinements the runs check imply them; `Approval!TypeOK` is in none
either, and is proved only as the ground its module's other theorems stand on; these theorems stand for themselves.

| Theorem | Property | Assumes besides |
|---|---|---|
| `TypesHold` | `DurableTurn!TypeOK` | - |
| `IntentIsDurable` | `WriteAhead` | - |
| `ReceiptsAreHonest` | `HonestReceipt` | - |
| `OneOwner` | `SingleOwner` | orderly clients, lock sessions that last |
| `NoDoubleExecution` | `AtMostOnce` | orderly clients, lock sessions that last |
| `ImplementsEffectOnce` | `KeepsPromise`, the refinement of `EffectOnce` | orderly clients, lock sessions that last |
| `ApprovalTyped` | `Approval!TypeOK` | - |
| `CarefulApproval` | `CarefulOnlyApproved` | - |
| `ImplementsWriteByConsent` | `KeepsConsent`, the refinement of `WriteByConsent` | - |
| `BudgetIsKept` | `RetriesWithinBudget` | at least one attempt |
| `MergeIsFair` | `BestSuccessWins` | - |
| `SuccessesAreKept` | `SuccessIsKept`, an action property | - |
| `ImplementsDelegation` | `KeepsDelegation`, the refinement of `Delegation` | - |
| `OneReplyAtATime` | `OneReplyOwed` | - |
| `CuttingInSilences` | `SilentForTheHuman` | - |
| `CutMessagesAreTrue` | `CutWordsWereHeard` | - |
| `ImplementsDialogue` | `KeepsDialogue`, the refinement of `Dialogue` | - |
| `OnlyOverlapsHurt` | `OnlyOverlapHurts` | there is a conversation |
| `ConversationsArePrompted` | `AlwaysPrompted` | there is a conversation |
| `StreamsSpeakUp` | `NeverSilent` | - |
| `PausesAreTold` | `PauseIsTold` | - |
| `OldTurnsFallSilent` | `NoLateFrames` | - |
| `NothingStaysOpen` | `StateIsReleased` | - |
| `ImplementsTurnFrames` | `KeepsFrameOrder`, the refinement of `TurnFrames` | - |
| `TurnsKeepTheirIdentity` | `IdentityIsOwn` | - |
| `ContextsComeBack` | `ContextRestored` | dropped streams end with their consumer's task |
| `CallsAreRecordedOnce` | `RecordedOnce` | - |
| `TracesAreTrue` | `TraceMirrorsTheTurn` | - |
| `TenantsNeverMeet` | `TenantsStayApart` | - |
| `AnswersAreStamped` | `EveryAnswerIsStamped` | - |
| `BucketIsSound` | the invariant of the buckets | - |
| `BurstsAreBounded` | `BurstIsBounded` | - |
| `AdviceIsSound` | `RetryAfterIsEnough` | - |
| `LookUpsMissNothing` | `LookupsAreTrue` | - |
| `NoYamlDangles` | `NoDanglingCode` | - |
| `LossesAreKnown` | `LostOnlyKnowingly` | - |
| `DoctorAndVerifyAreRight` | `CommandsAgree` | - |
| `PlatformTyped` | `PlatformTypeOK` | there is a conversation |

**DurableTurn.** `TypeInv` adds to the types that a driver that is not driving is inside no call, and that a checkpoint still to
be taken fits the bound. `Evidence` is the invariant behind write-ahead and honest receipts, whoever else is driving: a call
about to fire has its row, and a call that holds a receipt, in its row or in a driver's hand, was felt; injectivity of the key (`CallSiteInjective`) carries a row to its one call. At-most-once is not
inductive: it needs that nobody is about to fire a call which has fired. Two more invariants give it, under orderly clients. `Ownership`:
a resume past the lock holds it, and a run shares the conversation with nobody, so whoever drives drives alone. `Once`: from the write-ahead to the
settled row, the row of a call in flight is that driver's own, and a call about to fire has not fired. `Orderly` (no `Overlap`, no
`LosesSession`) is a hypothesis of three theorems, and finding 1 is what happens without it: the proof tells
exactly which discipline the code leaves to its callers. The refinement maps every step: `Fire` is the effect landing, `Save`, which
keeps a finished call's result with the checkpoint, is the telling, all others stutter. It needs one invariant more, `Untold`: while a call
is in flight the model has not been told of it, those of a resumed super-step included.

**Approval.** `CarefulOnlyApproved` is not inductive either. `MailInv` says that a careful client's answer under way is its only one, is the human's
answer to the write the thread is paused at, and that nothing is on screen beside it; `RecordInv` that a recorded approval is
one a human gave. The type invariant needs `Undecided`: nobody has decided on a write not yet asked for. `LedgerInv` says what a row stands for (none: no effect; a receipt:
one effect; "not re-run": a crash), `CallInv` what a driver inside the wrapper knows of its row: about to fire, the row is pending and nothing has happened; about to settle,
it has happened once. They depend on each other and on the careful client's invariant, so `SessionInv` is proved as one. The refinement of `WriteByConsent` is for every client:
`AnswersInv` says that an answer under way was given, that nothing is on screen that was not asked for, and that the decision recorded for a write
rests on an answer, to that very write where the client is careful. A crash then cuts short, `Fire` and a raising tool whose effect took place happen, `FinishTool` goes on with what `CallInv` shows to be true, and the other steps of the call stutter, as do `Deliver` and `Continue`.

**Supervisor.** The properties speak of the checkpointed state, the danger is what a dispatch holds in memory: `FreshInv` says that a fresh
result belongs to a specialist this pass is to run, `CountInv` that nobody is counted before the first result. Two hypotheses are about the
configuration, and `graph_config.py` insists on neither: `RoutesAssumption`, that a route names a specialist once (one named
twice is run and counted twice in a pass), and, for the budget, that `max_attempts` is at least 1 (with 0 the first try is already one too many).
The refinement of `Delegation` maps the end of a dispatch to a pass over the whole team and the gate to an answer; calls, stops and resumes stutter. It needs
`InHandInv`: what is in hand was asked in this turn; `SpentInv`: past the dispatch there is nothing left to retry; `VerdictInv`: what the gate answers with is a
verdict on the results as they stand. Nothing about the budget is assumed here: a pass runs who is untried, or has failed with budget left.

**BargeIn.** `ReplyInv` says, where the human may cut in, that no reply task lives while the human has the floor (from the interruption frame to the
creation of the next reply), that otherwise at most one does, and that `_answering` is raised exactly while it is owed. `FrameInv`: an interruption that
has gone through has emptied TTS. `HeardInv` follows the words from the witness to `spoken` to the amended message: each is a subset of the heard.
The refinement of `Dialogue` follows whose words they are: `NumberInv` (only the latest turn's reply is alive where the human may cut in), `DraftInv`, `QueueInv` (TTS
holds words of the latest turn, and nothing from the moment the human begins) and `SpokenInv` (while a reply is owed, what was spoken is of its turn).

**SharedSaver.** `OwnSaver` is the reason: until another saver is open at the same time the graph holds the call's own, and the
graph run it started uses it. `OpenIsRunning` ties savers to calls. `NoFalseHistory` gives `AlwaysPrompted`: a call
skips the prompt only for a conversation that has begun, whatever failures turned a "yes" into a "no".

**StreamTurn.** None of the four properties is inductive. Per turn, `Held` says where the generator can be while its consumer is where it is (all of
`StateIsReleased`); `HeldOut` what a frame in the middle of a send can be; `Shown` that whoever is past the answer has sent content or is just sending it;
`Paused` the same of the pause; `Finished` that nothing follows `done`. `OneUnderWay` says that an older turn is over before a newer one speaks, and
`WireInv` that the wire holds no frame of a turn to come, which gives `NoLateFrames`. The refinement of `TurnFrames` asks for `FrameInv` besides: what a turn has
said fits where its task and generator are (nothing before it was started, a session frame while it is under way, an end after its error, no send after `done`, and in a send
past the answer exactly the pause or the `done` that belongs there). Then the steps that tell something append a frame the grammar allows, and all others stutter.

**TurnPipeline.** `OwnContext`: a run under way finds in its task what it put there, over what was there before (`before`), blank for a caller's
run and a supervisor's context for a member's. `OneATask`: no two runs under way share a task, without which one would restore over the other.
`DispatchedLater` orders a member after its supervisor's engine, for `RecordedOnce`. The theorem is about `PipelineSpec`; with the action `Forget`
`ContextRestored` is false, which is finding 6.

**TraceTree.** `InOrder`: runs are numbered as they start. `Nested`: what a run is inside of goes on as long as it does. `Handles`: the callback holds a handle
exactly for the nodes, models and tools that go on. `Mirrors`: a span that was opened says of its run what became of it; one that was not holds nothing. The
nearest enclosing span is a maximum over a finite set of numbers, hence the two library modules.

**Admission.** `BoundToItsOwn` says that past authentication a request runs under the tenant of its own credential, which a provider
vouched for; `NothingEarly` that an unanswered request has neither a task nor an answer; `ShownIsThere` that what was shown exists, so
that its owner, which never changes, goes on being the caller. Nothing is assumed about credentials or the order of providers.
`StampInv` adds that a new request has no route yet, so that only a preflight is answered without one.

**TokenBucket.** `BurstIsBounded` says nothing of the bucket and is not inductive. `PaidFor` adds that what a window was
admitted and what is left in its bucket together are no more than the capacity and the time from the window's start to the
bucket's last reckoning; `InThePast` that neither is ahead of the clock. `Advised` is Retry-After's: at the time advised the bucket holds a token, but for
the rounded millisecond, and asking early moves the count and its date alike. `MaxTime` is any number, so the history has any length.

**Registry.** `OneScan`: the scanner is the lock's holder and nobody scans twice. `NameIsFree`: while an entry point is being
imported its name stays unregistered, because who registers in code waits for the lock. `ScanIsThorough`: what the
scan has passed and loads is present, all of it when `discovered` is set. `ReadersWaited` hands that to the look-up that reads without the lock. It assumes that
a module registers no provider under its own entry point's name.

**Deployment.** `HalfWritten`: between new-agent's two writes the `agent.py` is there. `GateHeld`: a file not saved since serve took its list is on it, and under a server
past its promise gate has a store or needs none. `ServedUnderGate` carries that to what a worker serves, the `unseen` excepted, and `RunIsSomewhere` to a run in memory: its agent
is one its worker serves and there is no store. So a worker's death loses only what was accepted or unseen. `CommandsAgree` follows from the types
alone, for every spec, machine and environment; the theorem matters for its list of exceptions, which is the whole of what can be built or run and is not doctor's to see:
the builder (it may be broken, or ask what its engine does not have), the tracing, the names a build looks up, and the store.

**Only model-checked.** Liveness, which is out of the prover's reach with its fairness: `LockComesFree`, `DriverReturns`, `ApprovalIsSettled`, `RunReturns`, `NodeComesBack`,
`RepliesEnd`, `DriverFinishes`. The six properties of the violation runs are false, and TLC shows why.

## 6. Plan

Done, in this order: `DurableTurn`, `BargeIn`, `Supervisor`, `Approval`; then `StreamTurn`, `SharedSaver`, `Deployment`, `TokenBucket`,
`Admission`, `TurnPipeline`, `Registry`, `TraceTree`; then the proofs of all their safety properties; then the abstract specifications of an approved
write, a supervisor's delegation, a stream's frames and a spoken dialogue with their refinements. Next, the most important first:

1. Proofs: the safety half of what liveness rests on, that a driver that can go on is never without an enabled step's guard (`Supervisor`, `DurableTurn`).
2. Abstract specifications: a saved turn for `SharedSaver`, an admitted request for `Admission`, with refinements like `EffectOnce`'s.
3. Composition: a streamed turn over `DurableTurn`'s conversation, so that a disconnect is an abort of a driver; `Approval` over a stream.
4. More of what is there: several pending writes and a new message over a pending write in `Approval`; text handed on by a
   sequential dispatch and calls made (not counted) by a crash loop in `Supervisor`; tool messages, equal words and the repeat filter in `BargeIn`.

## 7. Not modelled

Prompts, message contents and provider glue: no property here tells them apart. Digests, token decoding and the JWKS cache are one verdict per
credential. Skills, built-in tools, the A2A client, model routing and the attributes, redaction and cost figures of the exporters
are pure functions or one-shot I/O. The LiveKit adapter, the echo guard and the latency numbers of voice have no part in what is said, heard or
remembered. `confirm_write` of the supervisor is never entered: no node sets `pending_write`. The consent check that a memoised
tracer provider skips (`factory.py:69`) is left out of `Deployment`. LangGraph, Postgres, Pipecat and LangChain are
modelled only from how the code uses them; where that leaves two outcomes, both are in the model. When a streamed turn's
checkpoints are flushed is LangGraph's decision and not modelled.
`PROJECT.json` gives the reason for every component left out, and a note for every hazard no property covers yet.
