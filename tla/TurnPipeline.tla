---------------------------- MODULE TurnPipeline ----------------------------
(***************************************************************************)
(* What RunnableAgent puts around an engine on every turn: the context     *)
(* variables (the run, its observer, whether a tracing callback is already *)
(* installed) and the hooks of the middlewares, inside one root span.      *)
(*                                                                         *)
(* A turn runs in the task of its caller; a supervisor runs its members in *)
(* tasks of their own, which start with a copy of its context.  A stream   *)
(* shares the context of its consumer: it sets the variables when it is    *)
(* first pulled and puts them back wherever it is closed.                  *)
(***************************************************************************)
EXTENDS Naturals

CONSTANTS
  Runs,        \* the calls of run, stream and resume
  Clients,     \* the tasks callers live in
  Members,     \* the tasks a supervisor starts
  Hooks,       \* how many middlewares an agent has
  NoTurn, NoObserver

ASSUME PipelineAssumption ==
  /\ Hooks \in Nat
  /\ Clients \cap Members = {}
  /\ NoTurn \notin Runs /\ NoObserver \notin Runs

VARIABLES
  context,  \* task -> its context variables
  alive,    \* the tasks that run
  kind,     \* run -> "run", "stream" or "resume"
  home,     \* run -> the task it runs in
  inside,   \* run -> the run whose engine dispatched it, or NoTurn
  place,    \* run -> where it is
  before,   \* run -> the context it will put back
  traced,   \* the runs whose agent has an observer of its own that records
  heard,    \* run -> how many hooks of each sort it has called
  tracers   \* run -> the runs whose tracing callbacks see what its engine does

pipelineVars == <<context, alive, kind, home, inside, place, before, traced, heard, tracers>>
facts == <<kind, home, inside, before, traced>>

Tasks == Clients \cup Members
Blank == [run |-> NoTurn, observer |-> NoObserver, installed |-> FALSE]
Unheard == [request |-> 0, response |-> 0, error |-> 0]

Working == {"request", "engine", "response", "failing"}
Over == {"returned", "failed", "closed"}
Busy(k) == \E c \in Runs : home[c] = k /\ place[c] \in Working
Suspended(k) == \E c \in Runs : home[c] = k /\ place[c] = "yielded"

MoveTo(c, where) == place' = [place EXCEPT ![c] = where]

-----------------------------------------------------------------------------
(* A run begins.  An observer is named by the run whose agent it is of.    *)

\* The context of a turn, from the one it is called in.  A run inside
\* another one traces through the surrounding observer and marks that no
\* second callback is wanted; a stream or a resume uses its agent's own
\* observer and leaves that mark alone.
During(sort, c, ambient) ==
  LET nested == sort = "run" /\ ambient.observer # NoObserver
  IN  [run |-> c,
       observer |-> IF nested THEN ambient.observer ELSE c,
       installed |-> IF sort = "run" THEN nested ELSE ambient.installed]

Enrol(c, sort, k, outer, ambient, records) ==
  /\ place[c] = "uncalled"
  /\ kind' = [kind EXCEPT ![c] = sort]
  /\ home' = [home EXCEPT ![c] = k]
  /\ inside' = [inside EXCEPT ![c] = outer]
  /\ before' = [before EXCEPT ![c] = ambient]
  /\ traced' = IF records THEN traced \cup {c} ELSE traced
  /\ MoveTo(c, "request")
  /\ UNCHANGED <<heard, tracers>>

\* Mutated form: the turn's state lives on the agent, not in the context.
OpenShared(c, sort, k, outer, ambient, records) ==
  /\ Enrol(c, sort, k, outer, ambient, records)
  /\ context' = [j \in Tasks |-> During(sort, c, ambient)]

Open(c, sort, k, outer, ambient, records) ==
  /\ Enrol(c, sort, k, outer, ambient, records)
  /\ context' = [context EXCEPT ![k] = During(sort, c, ambient)]

\* A caller calls a verb, not in the middle of a stream it consumes.  Up to
\* the first hook nothing is awaited.
CallVerb(c, sort, k, records) ==
  /\ k \in Clients \cap alive /\ ~Busy(k) /\ ~Suspended(k)
  /\ Open(c, sort, k, NoTurn, context[k], records)
  /\ UNCHANGED alive

\* A dispatch node runs a member in a task of its own (AgentRef.run).
Dispatch(outer, c, k, records) ==
  /\ place[outer] = "engine"
  /\ k \in Members \ alive /\ \A d \in Runs : home[d] # k
  /\ alive' = alive \cup {k}
  /\ Open(c, "run", k, outer, context[home[outer]], records)

-----------------------------------------------------------------------------
(* The hooks and the engine.                                               *)

\* A resume runs no middleware.
Pipeline(c) == IF kind[c] = "resume" THEN 0 ELSE Hooks

Hear(c, sort) ==
  /\ heard' = [heard EXCEPT ![c][sort] = @ + 1]
  /\ UNCHANGED <<context, alive, place, tracers>> /\ UNCHANGED facts

OnRequest(c) == place[c] = "request" /\ heard[c].request < Pipeline(c) /\ Hear(c, "request")

\* Mutated form: every engine run installs a callback.
InstallsAlways(c) == context[home[c]].observer \in traced

\* _run_callbacks: a tracing callback, unless the surrounding run has one or
\* the active observer records nothing.
Installs(c) ==
  ~context[home[c]].installed /\ context[home[c]].observer \in traced

\* The engine starts; LangChain hands the surrounding run's callbacks down.
StartEngine(c) ==
  /\ place[c] = "request" /\ heard[c].request = Pipeline(c)
  /\ MoveTo(c, "engine")
  /\ tracers' = [tracers EXCEPT ![c] = (IF inside[c] = NoTurn THEN {} ELSE tracers[inside[c]])
                                       \cup (IF Installs(c) THEN {c} ELSE {})]
  /\ UNCHANGED <<context, alive, heard>> /\ UNCHANGED facts

\* A stream yields an event to its consumer.
YieldEvent(c) ==
  /\ kind[c] = "stream" /\ place[c] = "engine"
  /\ MoveTo(c, "yielded")
  /\ UNCHANGED <<context, alive, heard, tracers>> /\ UNCHANGED facts

\* The consumer holds a suspended stream and runs.
Holds(c) == place[c] = "yielded" /\ home[c] \in alive /\ ~Busy(home[c])

PullEvent(c) ==
  /\ Holds(c)
  /\ MoveTo(c, "engine")
  /\ UNCHANGED <<context, alive, heard, tracers>> /\ UNCHANGED facts

-----------------------------------------------------------------------------
(* The ways out.                                                           *)

\* gather and wait_for return, or raise, when the members are done.
Alone(c) == \A d \in Runs : inside[d] = c => place[d] \in {"uncalled"} \cup Over

\* Mutated form: only the run is put back.
RestoredHalf(c, now) == [now EXCEPT !.run = before[c].run]

\* A run resets its three tokens; a stream and a resume put back two.
Restored(c, now) ==
  [run |-> before[c].run, observer |-> before[c].observer,
   installed |-> IF kind[c] = "run" THEN before[c].installed ELSE now.installed]

\* `finally` puts the context back, in the task that runs it.  A member's
\* task ends with its run.
Leaves(c, how) ==
  /\ MoveTo(c, how)
  /\ context' = [context EXCEPT ![home[c]] = Restored(c, @)]
  /\ alive' = alive \ ({home[c]} \cap Members)
  /\ UNCHANGED <<heard, tracers>> /\ UNCHANGED facts

\* The engine returns; only a run has on_response hooks.
EngineReturns(c) ==
  /\ place[c] = "engine" /\ Alone(c)
  /\ IF kind[c] = "run"
     THEN MoveTo(c, "response") /\ UNCHANGED <<context, alive, heard, tracers>> /\ UNCHANGED facts
     ELSE Leaves(c, "returned")

OnResponse(c) == place[c] = "response" /\ heard[c].response < Hooks /\ Hear(c, "response")

RunReturns(c) ==
  /\ place[c] = "response" /\ heard[c].response = Hooks
  /\ Leaves(c, "returned")

\* A hook or the engine raises, or the task is cancelled where it waits (a
\* member's by its time limit).
TurnRaises(c) ==
  /\ place[c] \in {"request", "engine", "response"} /\ Alone(c)
  /\ MoveTo(c, "failing")
  /\ UNCHANGED <<context, alive, heard, tracers>> /\ UNCHANGED facts

\* _run_error_hooks: every middleware in turn, whatever the last one raised.
OnError(c) == place[c] = "failing" /\ heard[c].error < Pipeline(c) /\ Hear(c, "error")

Fails(c) ==
  /\ place[c] = "failing" /\ heard[c].error = Pipeline(c)
  /\ Leaves(c, "failed")

\* GeneratorExit: the consumer closes the stream.  No hook is called, and
\* the engine's generator is left to the event loop, its members with it.
Aclose(c) == Holds(c) /\ Leaves(c, "closed")

\* The consumer only stops pulling: the event loop closes the stream, in a
\* task with a copy of the context.  The consumer's own stays as it was.
\* Only LooseSpec has such consumers; the service has none.
Forget(c) ==
  /\ Holds(c)
  /\ MoveTo(c, "closed")
  /\ UNCHANGED <<context, alive, heard, tracers>> /\ UNCHANGED facts

\* The consumer's task ends with the stream in mid-air; that is how the
\* service drops one.
Vanish(c) ==
  /\ Holds(c)
  /\ MoveTo(c, "closed")
  /\ alive' = alive \ {home[c]}
  /\ UNCHANGED <<context, heard, tracers>> /\ UNCHANGED facts

-----------------------------------------------------------------------------
PipelineInit ==
  /\ context = [k \in Tasks |-> Blank]
  /\ alive = Clients
  /\ kind = [c \in Runs |-> "run"]
  /\ home = [c \in Runs |-> NoTurn]
  /\ inside = [c \in Runs |-> NoTurn]
  /\ place = [c \in Runs |-> "uncalled"]
  /\ before = [c \in Runs |-> Blank]
  /\ traced = {}
  /\ heard = [c \in Runs |-> Unheard]
  /\ tracers = [c \in Runs |-> {}]

PipelineNext ==
  \E c \in Runs :
    \/ \E records \in BOOLEAN :
         \/ \E sort \in {"run", "stream", "resume"}, k \in Clients :
              CallVerb(c, sort, k, records)
         \/ \E outer \in Runs, k \in Members : Dispatch(outer, c, k, records)
    \/ OnRequest(c) \/ StartEngine(c) \/ YieldEvent(c) \/ PullEvent(c)
    \/ EngineReturns(c) \/ OnResponse(c) \/ RunReturns(c)
    \/ TurnRaises(c) \/ OnError(c) \/ Fails(c)
    \/ Aclose(c) \/ Vanish(c)

PipelineSpec == PipelineInit /\ [][PipelineNext]_pipelineVars

LooseSpec == PipelineInit /\ [][PipelineNext \/ \E c \in Runs : Forget(c)]_pipelineVars

-----------------------------------------------------------------------------
(* Properties.                                                             *)

\* Types of the runs, their tasks and their contexts.
PipelineTypeOK ==
  /\ context \in [Tasks -> [run : Runs \cup {NoTurn}, observer : Runs \cup {NoObserver},
                            installed : BOOLEAN]]
  /\ alive \subseteq Tasks
  /\ home \in [Runs -> Tasks \cup {NoTurn}]
  /\ inside \in [Runs -> Runs \cup {NoTurn}]
  /\ place \in [Runs -> {"uncalled", "yielded"} \cup Working \cup Over]
  /\ heard \in [Runs -> [request : 0 .. Hooks, response : 0 .. Hooks, error : 0 .. Hooks]]
  /\ tracers \in [Runs -> SUBSET Runs]

\* Whatever else runs beside, inside or before it, a turn's hooks, tools and
\* engine find their own turn in get_run_context, never another caller's.
IdentityIsOwn ==
  \A c \in Runs : place[c] \in Working => context[home[c]].run = c

\* A task that is inside no turn is back in the context it had: get_run_context
\* "outside any turn returns None", and a stream "always puts back the previous
\* one when the stream ends - cleanly, on error, or when the caller stops early".
ContextRestored ==
  \A k \in Clients \cap alive : ~Busy(k) /\ ~Suspended(k) => context[k] = Blank

\* A model call is recorded by exactly one callback, that of the outermost
\* run, and by none where that run's agent records nothing: a member is in its
\* supervisor's tree, and neither missing from it nor counted twice.
RecordedOnce ==
  \A c \in Runs : place[c] \in {"engine", "yielded"} =>
    tracers[c] = IF inside[c] # NoTurn THEN tracers[inside[c]]
                 ELSE IF c \in traced THEN {c} ELSE {}

=============================================================================
