----------------------------- MODULE TurnProofs -----------------------------
(***************************************************************************)
(* One turn of an agent, for any number of runs, tasks and members: what   *)
(* RunnableAgent keeps in the context of a task (TurnPipeline), and the    *)
(* trace it leaves (TraceTree).                                            *)
(***************************************************************************)
EXTENDS TurnPipeline, TraceTree, FiniteSetTheorems, WellFoundedInduction, TLAPS

-----------------------------------------------------------------------------
(* TurnPipeline: the invariant *)

\* Under way: at work, or suspended in the hands of its consumer.
Live(c) == place[c] \in Working \cup {"yielded"}

\* No two runs that are under way share a task.
OneATask == \A c, d \in Runs : Live(c) /\ Live(d) /\ home[c] = home[d] => c = d

\* A run under way finds in its task what it put there, whether it has a
\* caller of its own or another run dispatched it.
OwnContext(c) ==
  /\ home[c] \in alive
  /\ context[home[c]] = During(kind[c], c, before[c])
  /\ IF inside[c] = NoTurn
     THEN home[c] \in Clients /\ before[c] = Blank
     ELSE home[c] \in Members /\ kind[c] = "run" /\ before[c].observer # NoObserver

\* A run is dispatched by one whose engine has been started.
DispatchedLater(c) == inside[c] # NoTurn => place[inside[c]] \notin {"uncalled", "request"}

Sorts == {"run", "stream", "resume"}
Contexts == [run : Runs \cup {NoTurn}, observer : Runs \cup {NoObserver}, installed : BOOLEAN]

Typed ==
  /\ PipelineTypeOK
  /\ kind \in [Runs -> Sorts] /\ before \in [Runs -> Contexts] /\ traced \subseteq Runs

PipelineInv ==
  /\ Typed
  /\ OneATask
  /\ \A c \in Runs : (Live(c) => OwnContext(c)) /\ DispatchedLater(c)
  /\ ContextRestored
  /\ RecordedOnce

-----------------------------------------------------------------------------
(* TurnPipeline: contexts and types *)

\* A task is inside no turn exactly if no run that is under way lives in it.
LEMMA Untaken ==
  ASSUME NEW k
  PROVE  ~Busy(k) /\ ~Suspended(k) <=> \A c \in Runs : home[c] = k => ~Live(c)
BY DEF Busy, Suspended, Live

LEMMA DuringType ==
  ASSUME NEW sort, NEW c \in Runs, NEW ambient \in Contexts
  PROVE  /\ During(sort, c, ambient) \in Contexts
         /\ During(sort, c, ambient).run = c
         /\ During(sort, c, ambient).observer # NoObserver
BY PipelineAssumption DEF During, Contexts

\* A caller's run observes itself and installs nothing.
LEMMA DuringTop ==
  ASSUME NEW sort, NEW c \in Runs
  PROVE  /\ During(sort, c, Blank).observer = c
         /\ During(sort, c, Blank).installed = FALSE
BY DEF During, Blank

\* A member finds its supervisor's observer installed.
LEMMA DuringInside ==
  ASSUME NEW c \in Runs, NEW ambient, ambient.observer # NoObserver
  PROVE  During("run", c, ambient).installed
BY DEF During

LEMMA RestoredType ==
  ASSUME Typed, NEW c \in Runs, NEW now \in Contexts
  PROVE  Restored(c, now) \in Contexts
BY DEF Typed, Restored, Contexts

\* A run that was called from a blank context puts a blank one back.
LEMMA RestoredBlank ==
  ASSUME Typed, NEW c \in Runs, before[c] = Blank
  PROVE  Restored(c, During(kind[c], c, before[c])) = Blank
BY DEF Restored, During, Blank

LEMMA OpenTypes ==
  ASSUME Typed, NEW c \in Runs, NEW sort \in Sorts, NEW k \in Tasks,
         NEW outer \in Runs \cup {NoTurn}, NEW ambient \in Contexts, NEW records \in BOOLEAN,
         Open(c, sort, k, outer, ambient, records), alive' \subseteq Tasks
  PROVE  Typed'
<1>1. context' \in [Tasks -> Contexts]
  BY DuringType DEF Typed, PipelineTypeOK, Contexts, Open
<1>2. /\ kind' \in [Runs -> Sorts] /\ home' \in [Runs -> Tasks \cup {NoTurn}]
      /\ inside' \in [Runs -> Runs \cup {NoTurn}] /\ before' \in [Runs -> Contexts]
  BY DEF Typed, PipelineTypeOK, Open, Enrol
<1>3. traced' \subseteq Runs /\ UNCHANGED <<heard, tracers>>
  BY DEF Typed, Open, Enrol
<1>4. place' \in [Runs -> {"uncalled", "yielded"} \cup Working \cup Over]
  BY DEF Typed, PipelineTypeOK, Open, Enrol, MoveTo, Working
<1> QED
  BY <1>1, <1>2, <1>3, <1>4 DEF Typed, PipelineTypeOK, Contexts

LEMMA HearTypes ==
  ASSUME Typed, NEW c \in Runs, OnRequest(c) \/ OnResponse(c) \/ OnError(c)
  PROVE  Typed'
<1>1. Hooks \in Nat /\ Pipeline(c) \in {0, Hooks}
  BY PipelineAssumption DEF Pipeline
<1>2. heard[c] \in [request : 0 .. Hooks, response : 0 .. Hooks, error : 0 .. Hooks]
  BY DEF Typed, PipelineTypeOK
<1>3. PICK sort \in {"request", "response", "error"} :
        heard[c][sort] < Hooks /\ heard[c][sort] \in 0 .. Hooks /\ Hear(c, sort)
  <2>1. CASE OnRequest(c)
    <3>1. heard[c].request \in 0 .. Hooks /\ heard[c].request < Pipeline(c)
      BY <1>2, <2>1 DEF OnRequest
    <3> QED BY <1>1, <2>1, <3>1 DEF OnRequest
  <2>2. CASE OnResponse(c)
    BY <1>1, <1>2, <2>2 DEF OnResponse
  <2>3. CASE OnError(c)
    <3>1. heard[c].error \in 0 .. Hooks /\ heard[c].error < Pipeline(c)
      BY <1>2, <2>3 DEF OnError
    <3> QED BY <1>1, <2>3, <3>1 DEF OnError
  <2> QED BY <2>1, <2>2, <2>3
<1>4. heard[c][sort] + 1 \in 0 .. Hooks
  BY <1>1, <1>3
<1>5. [heard[c] EXCEPT ![sort] = heard[c][sort] + 1]
        \in [request : 0 .. Hooks, response : 0 .. Hooks, error : 0 .. Hooks]
  BY <1>2, <1>3, <1>4
<1>6. heard' = [heard EXCEPT ![c] = [heard[c] EXCEPT ![sort] = heard[c][sort] + 1]]
  BY <1>3 DEF Hear
<1>7. heard' \in [Runs -> [request : 0 .. Hooks, response : 0 .. Hooks, error : 0 .. Hooks]]
  BY <1>5, <1>6 DEF Typed, PipelineTypeOK
<1>8. UNCHANGED <<context, alive, place, tracers, kind, home, inside, before, traced>>
  BY <1>3 DEF Hear, facts
<1> QED
  BY <1>7, <1>8 DEF Typed, PipelineTypeOK

LEMMA LeavesTypes ==
  ASSUME Typed, NEW c \in Runs, NEW how \in Over, Leaves(c, how)
  PROVE  Typed'
<1>1. context' \in [Tasks -> Contexts]
  <2>1. context \in [Tasks -> Contexts]
    BY DEF Typed, PipelineTypeOK, Contexts
  <2>2. CASE home[c] \in Tasks
    BY <2>1, <2>2, RestoredType DEF Leaves
  <2>3. CASE home[c] \notin Tasks
    BY <2>1, <2>3 DEF Leaves
  <2> QED BY <2>2, <2>3
<1>2. place' \in [Runs -> {"uncalled", "yielded"} \cup Working \cup Over]
  BY DEF Typed, PipelineTypeOK, Leaves, MoveTo
<1>3. alive' \subseteq Tasks /\ UNCHANGED <<heard, tracers, kind, home, inside, before, traced>>
  BY DEF Typed, PipelineTypeOK, Leaves, facts
<1> QED
  BY <1>1, <1>2, <1>3 DEF Typed, PipelineTypeOK, Contexts

LEMMA MoveTypes ==
  ASSUME Typed, NEW c \in Runs, NEW where \in {"yielded"} \cup Working \cup Over,
         MoveTo(c, where), alive' \subseteq Tasks, tracers' \in [Runs -> SUBSET Runs],
         UNCHANGED <<context, heard>>, UNCHANGED facts
  PROVE  Typed'
<1>1. place' \in [Runs -> {"uncalled", "yielded"} \cup Working \cup Over]
  BY DEF Typed, PipelineTypeOK, MoveTo
<1> QED
  BY <1>1 DEF Typed, PipelineTypeOK, facts

-----------------------------------------------------------------------------
(* TurnPipeline: the sorts of step *)

\* A run begins in a task where none is under way.
LEMMA OpenKeeps ==
  ASSUME PipelineInv, NEW c \in Runs, NEW sort \in Sorts, NEW k \in Tasks,
         NEW outer \in Runs \cup {NoTurn}, NEW ambient \in Contexts, NEW records \in BOOLEAN,
         Open(c, sort, k, outer, ambient, records), alive' = alive \cup {k},
         \A d \in Runs : home[d] = k => ~Live(d),
         IF outer = NoTurn
         THEN k \in Clients /\ ambient = Blank
         ELSE /\ k \in Members /\ sort = "run" /\ ambient.observer # NoObserver
              /\ place[outer] = "engine"
  PROVE  PipelineInv'
<1>1. Typed /\ Typed'
  <2>1. alive' \subseteq Tasks
    BY DEF PipelineInv, Typed, PipelineTypeOK
  <2> QED BY <2>1, OpenTypes DEF PipelineInv
<1>2. /\ place[c] = "uncalled" /\ place'[c] = "request" /\ home'[c] = k /\ kind'[c] = sort
      /\ inside'[c] = outer /\ before'[c] = ambient
      /\ context'[k] = During(sort, c, ambient)
      /\ tracers' = tracers
  BY <1>1 DEF Typed, PipelineTypeOK, Open, Enrol, MoveTo
<1>3. /\ \A d \in Runs \ {c} : /\ place'[d] = place[d] /\ home'[d] = home[d]
                               /\ kind'[d] = kind[d] /\ inside'[d] = inside[d]
                               /\ before'[d] = before[d]
      /\ \A j \in Tasks \ {k} : context'[j] = context[j]
      /\ traced \subseteq traced' /\ traced' \subseteq traced \cup {c}
  BY <1>1 DEF Typed, PipelineTypeOK, Open, Enrol, MoveTo
<1>4. \A d \in Runs \ {c} : Live(d)' <=> Live(d)
  BY <1>3 DEF Live
<1>5. \A d \in Runs \ {c} : Live(d) => home[d] \in Tasks /\ home[d] # k
  BY DEF PipelineInv, OwnContext, Tasks
<1>6. OneATask'
  BY <1>2, <1>3, <1>4, <1>5 DEF PipelineInv, OneATask
<1>7. \A d \in Runs : Live(d)' => OwnContext(d)'
  <2> SUFFICES ASSUME NEW d \in Runs, Live(d)'
               PROVE  OwnContext(d)'
    OBVIOUS
  <2>1. CASE d = c
    BY <1>2, <2>1 DEF OwnContext
  <2>2. CASE d # c
    BY <1>3, <1>4, <1>5, <2>2 DEF PipelineInv, OwnContext
  <2> QED BY <2>1, <2>2
<1>8. \A d \in Runs : DispatchedLater(d)'
  <2> SUFFICES ASSUME NEW d \in Runs, inside'[d] # NoTurn
               PROVE  place'[inside'[d]] \notin {"uncalled", "request"}
    BY DEF DispatchedLater
  <2>1. CASE d = c
    <3>1. outer \in Runs /\ place[outer] = "engine" /\ outer # c
      BY <1>2, <2>1
    <3> QED BY <1>2, <1>3, <2>1, <3>1
  <2>2. CASE d # c
    <3>1. inside[d] \in Runs /\ place[inside[d]] \notin {"uncalled", "request"}
      BY <1>1, <1>3, <2>2 DEF PipelineInv, DispatchedLater, Typed, PipelineTypeOK
    <3> QED BY <1>2, <1>3, <2>2, <3>1
  <2> QED BY <2>1, <2>2
<1>9. ContextRestored'
  <2> SUFFICES ASSUME NEW j \in Clients, j \in alive', ~Busy(j)', ~Suspended(j)'
               PROVE  context'[j] = Blank
    BY DEF ContextRestored
  <2>1. j # k
    BY <1>2 DEF Busy, Working
  <2>2. ~Busy(j) /\ ~Suspended(j)
    BY <1>2, <1>3 DEF Busy, Suspended, Working
  <2>3. context[j] = Blank
    BY <2>1, <2>2 DEF PipelineInv, ContextRestored
  <2> QED BY <1>3, <2>1, <2>3 DEF Tasks
<1>10. RecordedOnce'
  <2> SUFFICES ASSUME NEW d \in Runs, place'[d] \in {"engine", "yielded"}
               PROVE  tracers[d] = IF inside'[d] # NoTurn THEN tracers[inside'[d]]
                                   ELSE IF d \in traced' THEN {d} ELSE {}
    BY <1>2 DEF RecordedOnce
  <2>1. d # c
    BY <1>2
  <2> QED BY <1>3, <2>1 DEF PipelineInv, RecordedOnce
<1> QED
  BY <1>1, <1>6, <1>7, <1>8, <1>9, <1>10 DEF PipelineInv

\* A run under way goes on.
LEMMA StayKeeps ==
  ASSUME PipelineInv, Typed', NEW c \in Runs, Live(c), NEW where \in Working \cup {"yielded"},
         MoveTo(c, where), where # "request" \/ place[c] = "request",
         UNCHANGED <<context, alive>>, UNCHANGED facts, RecordedOnce'
  PROVE  PipelineInv'
<1>1. \A d \in Runs : Live(d)' <=> Live(d)
  BY DEF PipelineInv, Typed, PipelineTypeOK, MoveTo, Live
<1>2. OneATask'
  BY <1>1 DEF PipelineInv, OneATask, facts
<1>3. \A d \in Runs : Live(d)' => OwnContext(d)'
  BY <1>1 DEF PipelineInv, OwnContext, facts
<1>4. \A d \in Runs : DispatchedLater(d)'
  BY DEF PipelineInv, DispatchedLater, MoveTo, Typed, PipelineTypeOK, Live, Working, facts
<1>5. ContextRestored'
  <2>1. \A k : Busy(k)' \/ Suspended(k)' <=> Busy(k) \/ Suspended(k)
    BY <1>1 DEF Busy, Suspended, Live, facts
  <2> QED BY <2>1 DEF PipelineInv, ContextRestored
<1> QED
  BY <1>2, <1>3, <1>4, <1>5 DEF PipelineInv

\* A run under way is over, and its task is back in the context it had before
\* or is no more.
LEMMA OverKeeps ==
  ASSUME PipelineInv, Typed', NEW c \in Runs, Live(c), NEW how \in Over, MoveTo(c, how),
         alive' \subseteq alive, alive \ {home[c]} \subseteq alive',
         \A k \in Tasks \ {home[c]} : context'[k] = context[k],
         home[c] \in Clients /\ home[c] \in alive' => context'[home[c]] = Blank,
         UNCHANGED tracers, UNCHANGED facts
  PROVE  PipelineInv'
<1>1. \A d \in Runs : Live(d)' <=> Live(d) /\ d # c
  BY DEF PipelineInv, Typed, PipelineTypeOK, MoveTo, Live, Over, Working
<1>2. OneATask'
  BY <1>1 DEF PipelineInv, OneATask, facts
<1>3. \A d \in Runs : Live(d)' => OwnContext(d)'
  <2> SUFFICES ASSUME NEW d \in Runs, Live(d), d # c
               PROVE  OwnContext(d)'
    BY <1>1
  <2>1. OwnContext(d) /\ home[d] # home[c] /\ home[d] \in Tasks
    BY DEF PipelineInv, OneATask, OwnContext, Tasks
  <2> QED BY <2>1 DEF OwnContext, facts
<1>4. \A d \in Runs : DispatchedLater(d)'
  BY DEF PipelineInv, DispatchedLater, MoveTo, Typed, PipelineTypeOK, Over, facts
<1>5. ContextRestored'
  <2> SUFFICES ASSUME NEW k \in Clients, k \in alive', ~Busy(k)', ~Suspended(k)'
               PROVE  context'[k] = Blank
    BY DEF ContextRestored
  <2>1. CASE k = home[c]
    BY <2>1
  <2>2. CASE k # home[c]
    <3>1. \A d \in Runs : home[d] = k => ~Live(d)
      BY <1>1, <2>2 DEF Busy, Suspended, Live, facts
    <3>2. context[k] = Blank
      BY <3>1, Untaken DEF PipelineInv, ContextRestored
    <3> QED BY <2>2, <3>2 DEF Tasks
  <2> QED BY <2>1, <2>2
<1>6. RecordedOnce'
  BY DEF PipelineInv, RecordedOnce, MoveTo, Typed, PipelineTypeOK, Over, facts
<1> QED
  BY <1>2, <1>3, <1>4, <1>5, <1>6 DEF PipelineInv

\* A run that is over puts back what it found.
LEMMA LeavesKeeps ==
  ASSUME PipelineInv, NEW c \in Runs, Live(c), NEW how \in Over, Leaves(c, how)
  PROVE  PipelineInv'
<1>1. Typed' /\ MoveTo(c, how) /\ UNCHANGED tracers /\ UNCHANGED facts
  BY LeavesTypes DEF PipelineInv, Leaves
<1>2. OwnContext(c) /\ home[c] \in Tasks
  BY DEF PipelineInv, OwnContext, Tasks
<1>3. /\ \A k \in Tasks \ {home[c]} : context'[k] = context[k]
      /\ context'[home[c]] = Restored(c, context[home[c]])
      /\ alive' \subseteq alive /\ alive \ {home[c]} \subseteq alive'
  BY <1>2 DEF PipelineInv, Typed, PipelineTypeOK, Leaves
<1>4. ASSUME home[c] \in Clients
      PROVE  context'[home[c]] = Blank
  <2>1. before[c] = Blank
    BY <1>2, <1>4, PipelineAssumption DEF OwnContext
  <2> QED BY <1>2, <1>3, <2>1, RestoredBlank DEF PipelineInv, OwnContext
<1> QED
  BY <1>1, <1>3, <1>4, OverKeeps

-----------------------------------------------------------------------------
(* TurnPipeline: the steps *)

\* A client's call finds its task blank.
LEMMA CallKeeps ==
  ASSUME PipelineInv, NEW c \in Runs, NEW sort \in Sorts, NEW k \in Clients,
         NEW records \in BOOLEAN, CallVerb(c, sort, k, records)
  PROVE  PipelineInv'
<1>1. k \in Tasks /\ k \in alive /\ \A d \in Runs : home[d] = k => ~Live(d)
  BY Untaken DEF CallVerb, Tasks
<1>2. context[k] = Blank
  BY DEF PipelineInv, ContextRestored, CallVerb
<1>3. Blank \in Contexts
  BY <1>1, <1>2 DEF PipelineInv, Typed, PipelineTypeOK, Contexts
<1>4. Open(c, sort, k, NoTurn, Blank, records) /\ alive' = alive \cup {k}
  BY <1>1, <1>2 DEF CallVerb
<1> QED
  BY <1>1, <1>3, <1>4, OpenKeeps

\* A member gets a task of its own and a copy of its supervisor's context.
LEMMA DispatchKeeps ==
  ASSUME PipelineInv, NEW c \in Runs, NEW outer \in Runs, NEW k \in Members,
         NEW records \in BOOLEAN, Dispatch(outer, c, k, records)
  PROVE  PipelineInv'
<1>1. OwnContext(outer) /\ home[outer] \in Tasks /\ outer # NoTurn
  BY PipelineAssumption DEF PipelineInv, OwnContext, Live, Working, Dispatch, Tasks
<1> DEFINE ambient == context[home[outer]]
<1>2. ambient \in Contexts
  BY <1>1 DEF PipelineInv, Typed, PipelineTypeOK, Contexts
<1>3. ambient.observer # NoObserver
  BY <1>1, DuringType DEF PipelineInv, Typed, OwnContext
<1>4. Open(c, "run", k, outer, ambient, records) /\ alive' = alive \cup {k}
  BY DEF Dispatch
<1>5. \A d \in Runs : home[d] = k => ~Live(d)
  BY DEF Dispatch
<1>6. place[outer] = "engine" /\ k \in Tasks /\ "run" \in Sorts
  BY DEF Dispatch, Tasks, Sorts
<1> QED
  BY <1>1, <1>2, <1>3, <1>4, <1>5, <1>6, OpenKeeps

\* Hooks change what was heard, no context.
LEMMA HearKeeps ==
  ASSUME PipelineInv, NEW c \in Runs, OnRequest(c) \/ OnResponse(c) \/ OnError(c)
  PROVE  PipelineInv'
<1>1. Typed'
  BY HearTypes DEF PipelineInv
<1>2. UNCHANGED <<context, alive, place, tracers>> /\ UNCHANGED facts
  BY DEF OnRequest, OnResponse, OnError, Hear
<1>3. RecordedOnce'
  BY <1>2 DEF PipelineInv, RecordedOnce, facts
<1>4. MoveTo(c, place[c]) /\ Live(c) /\ place[c] \in Working \cup {"yielded"}
  BY <1>2 DEF PipelineInv, Typed, PipelineTypeOK, MoveTo, OnRequest, OnResponse, OnError,
     Live, Working
<1> QED
  BY <1>1, <1>2, <1>3, <1>4, StayKeeps

\* The callback is installed, by the outermost run only.
LEMMA StartEngineKeeps ==
  ASSUME PipelineInv, NEW c \in Runs, StartEngine(c)
  PROVE  PipelineInv'
<1>1. /\ place[c] = "request" /\ Live(c) /\ MoveTo(c, "engine")
      /\ UNCHANGED <<context, alive, heard>> /\ UNCHANGED facts
  BY DEF StartEngine, Live, Working
<1>2. /\ tracers'[c] = (IF inside[c] = NoTurn THEN {} ELSE tracers[inside[c]])
                         \cup (IF Installs(c) THEN {c} ELSE {})
      /\ \A d \in Runs \ {c} : tracers'[d] = tracers[d]
  BY DEF PipelineInv, Typed, PipelineTypeOK, StartEngine
<1>3. \A d \in Runs : inside[d] # NoTurn => inside[d] \in Runs \ {c}
  BY <1>1 DEF PipelineInv, DispatchedLater, Typed, PipelineTypeOK
<1>4. tracers' \in [Runs -> SUBSET Runs]
  <2>1. tracers'[c] \in SUBSET Runs
    BY <1>2, <1>3 DEF PipelineInv, Typed, PipelineTypeOK
  <2> QED BY <2>1 DEF PipelineInv, Typed, PipelineTypeOK, StartEngine
<1>5. Typed'
  BY <1>1, <1>4, MoveTypes DEF PipelineInv, Typed, PipelineTypeOK, Working
<1>6. Installs(c) <=> inside[c] = NoTurn /\ c \in traced
  <2>1. OwnContext(c)
    BY <1>1 DEF PipelineInv
  <2>2. CASE inside[c] = NoTurn
    <3>1. context[home[c]] = During(kind[c], c, Blank)
      BY <2>1, <2>2 DEF OwnContext
    <3> QED BY <2>2, <3>1, DuringTop DEF Installs
  <2>3. CASE inside[c] # NoTurn
    <3>1. context[home[c]] = During("run", c, before[c]) /\ before[c].observer # NoObserver
      BY <2>1, <2>3 DEF OwnContext
    <3> QED BY <2>3, <3>1, DuringInside DEF Installs
  <2> QED BY <2>2, <2>3
<1>7. RecordedOnce'
  <2> SUFFICES ASSUME NEW d \in Runs, place'[d] \in {"engine", "yielded"}
               PROVE  tracers'[d] = IF inside[d] # NoTurn THEN tracers'[inside[d]]
                                    ELSE IF d \in traced THEN {d} ELSE {}
    BY <1>1 DEF RecordedOnce, facts
  <2>1. CASE d = c
    BY <1>2, <1>3, <1>6, <2>1
  <2>2. CASE d # c
    <3>1. place[d] \in {"engine", "yielded"}
      BY <1>1, <2>2 DEF PipelineInv, Typed, PipelineTypeOK, MoveTo
    <3> QED BY <1>2, <1>3, <2>2, <3>1 DEF PipelineInv, RecordedOnce
  <2> QED BY <2>1, <2>2
<1> QED
  BY <1>1, <1>5, <1>7, StayKeeps DEF Working

\* A step from place to place of a run under way.
LEMMA WalkKeeps ==
  ASSUME PipelineInv, NEW c \in Runs, Live(c),
         NEW where \in {"engine", "yielded", "response", "failing"}, MoveTo(c, where),
         where \in {"engine", "yielded"} => place[c] \in {"engine", "yielded"},
         UNCHANGED <<context, alive, heard, tracers>>, UNCHANGED facts
  PROVE  PipelineInv'
<1>1. Typed'
  BY MoveTypes DEF PipelineInv, Typed, PipelineTypeOK, Working
<1>2. RecordedOnce'
  BY DEF PipelineInv, RecordedOnce, Typed, PipelineTypeOK, MoveTo, facts
<1> QED
  BY <1>1, <1>2, StayKeeps DEF Working

\* A task that ends takes its context and its suspended run along.
LEMMA VanishKeeps ==
  ASSUME PipelineInv, NEW c \in Runs, Vanish(c)
  PROVE  PipelineInv'
<1>1. /\ Live(c) /\ MoveTo(c, "closed") /\ "closed" \in Over /\ alive' = alive \ {home[c]}
      /\ UNCHANGED <<context, heard, tracers>> /\ UNCHANGED facts
  BY DEF Vanish, Holds, Live, Over
<1>2. Typed'
  BY <1>1, MoveTypes DEF PipelineInv, Typed, PipelineTypeOK
<1> QED
  BY <1>1, <1>2, OverKeeps

LEMMA PipelineStepInv ==
  PipelineInv /\ [PipelineNext]_pipelineVars => PipelineInv'
<1> SUFFICES ASSUME PipelineInv, [PipelineNext]_pipelineVars
             PROVE  PipelineInv'
  OBVIOUS
<1>1. ASSUME NEW c \in Runs, NEW records \in BOOLEAN, NEW k \in Clients,
             NEW sort \in {"run", "stream", "resume"}, CallVerb(c, sort, k, records)
      PROVE  PipelineInv'
  BY <1>1, CallKeeps DEF Sorts
<1>2. ASSUME NEW c \in Runs, NEW records \in BOOLEAN, NEW outer \in Runs,
             NEW k \in Members, Dispatch(outer, c, k, records)
      PROVE  PipelineInv'
  BY <1>2, DispatchKeeps
<1>3. ASSUME NEW c \in Runs, OnRequest(c) \/ OnResponse(c) \/ OnError(c)
      PROVE  PipelineInv'
  BY <1>3, HearKeeps
<1>4. ASSUME NEW c \in Runs, StartEngine(c)
      PROVE  PipelineInv'
  BY <1>4, StartEngineKeeps
<1>5. ASSUME NEW c \in Runs, YieldEvent(c) \/ PullEvent(c) \/ TurnRaises(c)
      PROVE  PipelineInv'
  <2>1. /\ Live(c) /\ UNCHANGED <<context, alive, heard, tracers>> /\ UNCHANGED facts
        /\ \/ place[c] = "engine" /\ MoveTo(c, "yielded")
           \/ place[c] = "yielded" /\ MoveTo(c, "engine")
           \/ MoveTo(c, "failing")
    BY <1>5 DEF YieldEvent, PullEvent, TurnRaises, Holds, Live, Working
  <2> QED BY <2>1, WalkKeeps
<1>6. ASSUME NEW c \in Runs, EngineReturns(c)
      PROVE  PipelineInv'
  <2>1. Live(c) /\ "returned" \in Over
    BY <1>6 DEF EngineReturns, Live, Working, Over
  <2>2. CASE kind[c] = "run"
    <3>1. /\ MoveTo(c, "response") /\ UNCHANGED <<context, alive, heard, tracers>>
          /\ UNCHANGED facts
      BY <1>6, <2>2 DEF EngineReturns
    <3> QED BY <2>1, <3>1, WalkKeeps
  <2>3. CASE kind[c] # "run"
    BY <1>6, <2>1, <2>3, LeavesKeeps DEF EngineReturns
  <2> QED BY <2>2, <2>3
<1>7. ASSUME NEW c \in Runs, RunReturns(c) \/ Fails(c) \/ Aclose(c)
      PROVE  PipelineInv'
  <2>1. Live(c) /\ \E how \in Over : Leaves(c, how)
    BY <1>7 DEF RunReturns, Fails, Aclose, Holds, Live, Working, Over
  <2> QED BY <2>1, LeavesKeeps
<1>8. ASSUME NEW c \in Runs, Vanish(c)
      PROVE  PipelineInv'
  BY <1>8, VanishKeeps
<1>9. CASE UNCHANGED pipelineVars
  BY <1>9 DEF PipelineInv, Typed, PipelineTypeOK, OneATask, OwnContext, DispatchedLater,
     ContextRestored, RecordedOnce, Live, Busy, Suspended, pipelineVars
<1> QED
  BY <1>1, <1>2, <1>3, <1>4, <1>5, <1>6, <1>7, <1>8, <1>9 DEF PipelineNext

LEMMA PipelineInitInv ==
  PipelineInit => PipelineInv
<1> SUFFICES ASSUME PipelineInit
             PROVE  PipelineInv
  OBVIOUS
<1>1. Blank \in Contexts
  BY DEF Blank, Contexts
<1>2. Unheard \in [request : 0 .. Hooks, response : 0 .. Hooks, error : 0 .. Hooks]
  BY PipelineAssumption DEF Unheard
<1>3. Typed
  BY <1>1, <1>2 DEF PipelineInit, Typed, PipelineTypeOK, Contexts, Sorts, Tasks
<1>4. \A c \in Runs : ~Live(c) /\ DispatchedLater(c)
  BY DEF PipelineInit, Live, Working, DispatchedLater
<1>5. ContextRestored
  BY DEF PipelineInit, ContextRestored, Tasks
<1>6. RecordedOnce
  BY DEF PipelineInit, RecordedOnce
<1> QED
  BY <1>3, <1>4, <1>5, <1>6 DEF PipelineInv, OneATask

LEMMA PipelineInvariance ==
  PipelineSpec => []PipelineInv
BY PipelineInitInv, PipelineStepInv, PTL DEF PipelineSpec

\* However callers, streams and dispatched members interleave, the hooks, tools
\* and engine of a turn find their own turn in get_run_context
\* (RunnableAgent.run, stream, resume).
THEOREM TurnsKeepTheirIdentity == PipelineSpec => []IdentityIsOwn
<1>1. PipelineInv => IdentityIsOwn
  <2> SUFFICES ASSUME PipelineInv, NEW c \in Runs, place[c] \in Working
               PROVE  context[home[c]].run = c
    BY DEF IdentityIsOwn
  <2>1. context[home[c]] = During(kind[c], c, before[c])
    BY DEF PipelineInv, OwnContext, Live
  <2>2. before[c] \in Contexts
    BY DEF PipelineInv, Typed
  <2> QED BY <2>1, <2>2, DuringType
<1> QED
  BY <1>1, PipelineInvariance, PTL

\* However the turns of a task ended, cleanly, by an error, or closed half way
\* by their consumer, the task is back in the context it had (reset_run_context
\* and the tokens of RunnableAgent).
THEOREM ContextsComeBack == PipelineSpec => []ContextRestored
<1>1. PipelineInv => ContextRestored
  BY DEF PipelineInv
<1> QED
  BY <1>1, PipelineInvariance, PTL

\* A model call of any depth of dispatch is recorded by the outermost run's
\* callback and by no other (_run_callbacks).
THEOREM CallsAreRecordedOnce == PipelineSpec => []RecordedOnce
<1>1. PipelineInv => RecordedOnce
  BY DEF PipelineInv
<1> QED
  BY <1>1, PipelineInvariance, PTL

-----------------------------------------------------------------------------
(* TraceTree: the invariant *)

\* Runs are numbered in the order they start.
InOrder == \E n \in 0..MaxWork : \A w \in Work : work[w].how = "unborn" <=> w > n

\* What a run is inside of has started, and goes on as long as it does.
Nested(w) ==
  /\ work[w].how = "unborn" => work[w].inside = {} /\ work[w].kind = "none"
  /\ \A u \in work[w].inside : /\ work[u].how # "unborn"
                               /\ OnGoing(w) => OnGoing(u)

\* The callback keeps a handle of just the nodes, models and tools that go on,
\* and knows of a model call in progress that it is its own.
Handled == {"node", "model", "tool"}
Handles(w) ==
  /\ spanOf[w] = IF OnGoing(w) /\ work[w].kind \in Handled
                 THEN IF recorded[w].kept THEN "live" ELSE "no_op"
                 ELSE "none"
  /\ OnGoing(w) /\ work[w].kind = "model" => modelOf[w] = w

\* A span says of its run what became of it, and hangs below a span that
\* will not end before it.
Mirrors(w) ==
  LET span == recorded[w]
      up == span.under
  IN  IF span.kept
      THEN /\ work[w].kind \in {"graph"} \cup Handled
           /\ span.ended <=> ~OnGoing(w)
           /\ span.error <=> work[w].how = "raised"
           /\ span.usage = IF work[w].kind = "model" /\ work[w].how = "returned"
                           THEN w ELSE None
           /\ up # None => up \in work[w].inside /\ recorded[up].kept
      ELSE ~span.ended /\ ~span.error /\ span.usage = None

TraceInv ==
  /\ TraceTypeOK
  /\ InOrder
  /\ \A w \in Work : Nested(w) /\ Handles(w) /\ Mirrors(w)

-----------------------------------------------------------------------------
(* TraceTree: runs *)

\* A set of numbers below a bound has a greatest one.
LEMMA GreatestNumber ==
  ASSUME NEW b \in Nat, NEW N \in SUBSET (1..b), N # {}
  PROVE  \E m \in N : \A n \in N : n <= m
<1> DEFINE D == {b - n : n \in N}
<1>1. D \in SUBSET Nat /\ D # {}
  <2>1. \A n \in N : b - n \in Nat
    OBVIOUS
  <2> QED BY <2>1
<1>2. PICK d \in D : \A e \in D : ~(<<e, d>> \in OpToRel(<, Nat))
  <2>1. \E d \in D : \A e \in D : ~(<<e, d>> \in OpToRel(<, Nat))
    BY <1>1, WFMin, NatLessThanWellFounded, Zenon
  <2> QED BY <2>1
<1>3. PICK m \in N : d = b - m
  BY <1>2
<1>4. ASSUME NEW n \in N
      PROVE  n <= m
  <2>1. b - n \in D /\ b - n \in Nat /\ d \in Nat
    BY <1>1, <1>2
  <2>2. <<b - n, d>> \in OpToRel(<, Nat) <=> b - n < d
    BY <2>1 DEF OpToRel
  <2>3. ~(b - n < d)
    BY <1>2, <2>1, <2>2, Zenon
  <2>4. n \in Nat /\ m \in Nat
    BY <1>3
  <2> QED
    BY <1>3, <2>1, <2>3, <2>4
<1> QED
  BY <1>4

LEMMA WorkNumbers == Work \subseteq Nat \ {0} /\ None \notin Work /\ MaxWork \in Nat
BY TraceAssumption DEF Work, None

\* The records of one run.
LEMMA RunType ==
  ASSUME TraceTypeOK, NEW w \in Work
  PROVE  /\ work[w] \in [kind : {"none", "graph", "node", "helper", "sequence", "model", "tool"},
                         under : Work \cup {None}, inside : SUBSET Work,
                         how : {"unborn", "running", "returned", "raised"}]
         /\ recorded[w] \in [kept : BOOLEAN, under : Work \cup {None}, ended : BOOLEAN,
                             error : BOOLEAN, usage : Work \cup {None}]
         /\ spanOf[w] \in {"none", "live", "no_op"}
BY DEF TraceTypeOK

\* The run that starts next has not started before.
LEMMA NextIsUnborn ==
  ASSUME TraceInv, NEW w \in Work,
         w = Cardinality({v \in Work : work[v].how # "unborn"}) + 1
  PROVE  /\ work[w].how = "unborn"
         /\ \A v \in Work : v < w => work[v].how # "unborn"
         /\ \A v \in Work : v > w => work[v].how = "unborn"
<1>1. PICK n \in 0..MaxWork : \A v \in Work : work[v].how = "unborn" <=> v > n
  BY DEF TraceInv, InOrder
<1>2. {v \in Work : work[v].how # "unborn"} = 1..n
  BY <1>1, TraceAssumption DEF Work
<1>3. Cardinality(1..n) = n
  BY <1>1, FS_Interval, TraceAssumption
<1>4. Cardinality({v \in Work : work[v].how # "unborn"}) = n
  BY <1>2, <1>3
<1>5. w = n + 1 /\ n \in Nat
  <2>1. n \in Nat
    BY TraceAssumption
  <2> QED BY <1>4, <2>1
<1>6. \A v \in Work : /\ v > n <=> v > w \/ v = w
                      /\ v < w => ~(v > w \/ v = w)
  <2> SUFFICES ASSUME NEW v \in Work
               PROVE  /\ v > n <=> v > w \/ v = w
                      /\ v < w => ~(v > w \/ v = w)
    OBVIOUS
  <2>1. v \in Nat /\ w \in Nat
    BY WorkNumbers
  <2> QED BY <1>5, <2>1
<1> QED
  BY <1>1, <1>6

\* The innermost span a run can hang under, if any, is one that was kept.
LEMMA AmbientIsKept ==
  ASSUME TraceTypeOK, NEW around \in SUBSET Work
  PROVE  \/ Ambient(around) = None
         \/ Ambient(around) \in around /\ recorded[Ambient(around)].kept
<1> DEFINE agents == {g \in around : work[g].kind = "graph" /\ recorded[g].kept}
<1>1. CASE agents = {}
  BY <1>1 DEF Ambient
<1>2. CASE agents # {}
  <2>1. \E g \in agents : \A h \in agents : h <= g
    BY <1>2, GreatestNumber, TraceAssumption DEF Work
  <2>2. Ambient(around) \in agents
    BY <1>2, <2>1 DEF Ambient
  <2> QED BY <2>2
<1> QED
  BY <1>1, <1>2

RunKinds == {"graph", "node", "helper", "sequence", "model", "tool"}
Around(p) == IF p = None THEN {} ELSE work[p].inside \cup {p}

\* A run starts inside runs that go on.
LEMMA StartsFacts ==
  ASSUME TraceInv, NEW w \in Work, NEW p \in Work \cup {None}, NEW sort \in RunKinds,
         Starts(w, sort, p)
  PROVE  /\ work[w].how = "unborn"
         /\ work'[w] = [kind |-> sort, under |-> p, inside |-> Around(p), how |-> "running"]
         /\ \A v \in Work \ {w} : work'[v] = work[v]
         /\ \A u \in Around(p) : u \in Work /\ u # w /\ OnGoing(u)
         /\ InOrder'
         /\ \A v \in Work : Nested(v)'
<1>1. /\ work[w].how = "unborn"
      /\ \A v \in Work : v < w => work[v].how # "unborn"
      /\ \A v \in Work : v > w => work[v].how = "unborn"
  BY NextIsUnborn DEF Starts
<1>2. /\ work'[w] = [kind |-> sort, under |-> p, inside |-> Around(p), how |-> "running"]
      /\ \A v \in Work \ {w} : work'[v] = work[v]
  BY DEF TraceInv, TraceTypeOK, Starts, Around
<1>3. \A u \in Around(p) : u \in Work /\ u # w /\ OnGoing(u)
  <2> SUFFICES ASSUME NEW u \in Around(p)
               PROVE  u \in Work /\ OnGoing(u)
    BY <1>1 DEF OnGoing
  <2>1. p \in Work /\ OnGoing(p)
    BY WorkNumbers DEF Starts, Around
  <2>2. work[p].inside \subseteq Work /\ \A v \in work[p].inside : OnGoing(v)
    BY <2>1, RunType DEF TraceInv, Nested
  <2> QED BY <2>1, <2>2 DEF Around
<1>4. InOrder'
  <2>1. w \in 0..MaxWork
    BY TraceAssumption DEF Work
  <2>2. \A v \in Work : work'[v].how = "unborn" <=> v > w
    <3> SUFFICES ASSUME NEW v \in Work
                 PROVE  work'[v].how = "unborn" <=> v > w
      OBVIOUS
    <3>1. v \in Nat /\ w \in Nat
      BY WorkNumbers
    <3>2. CASE v = w
      BY <1>2, <3>1, <3>2
    <3>3. CASE v # w
      <4>1. v < w \/ v > w
        BY <3>1, <3>3
      <4> QED BY <1>1, <1>2, <3>1, <3>3, <4>1
    <3> QED BY <3>2, <3>3
  <2> QED BY <2>1, <2>2 DEF InOrder
<1>5. \A v \in Work : Nested(v)'
  <2> SUFFICES ASSUME NEW v \in Work
               PROVE  Nested(v)'
    OBVIOUS
  <2>1. CASE v = w
    BY <1>2, <1>3, <2>1 DEF Nested, OnGoing
  <2>2. CASE v # w
    <3>1. Nested(v) /\ work'[v] = work[v] /\ work[v].inside \subseteq Work
      BY <1>2, <2>2, RunType DEF TraceInv
    <3>2. \A u \in work[v].inside : work'[u] = work[u]
      BY <1>1, <1>2, <3>1 DEF Nested
    <3> QED BY <3>1, <3>2 DEF Nested, OnGoing
  <2> QED BY <2>1, <2>2
<1> QED
  BY <1>1, <1>2, <1>3, <1>4, <1>5

\* A run ends after everything inside it.
LEMMA EndsFacts ==
  ASSUME TraceInv, NEW w \in Work, NEW kinds, NEW how \in {"returned", "raised"},
         Ends(w, kinds, how)
  PROVE  /\ OnGoing(w) /\ work[w].kind \in kinds
         /\ work'[w] = [work[w] EXCEPT !.how = how]
         /\ \A v \in Work \ {w} : work'[v] = work[v]
         /\ InOrder'
         /\ \A v \in Work : Nested(v)'
<1>1. /\ OnGoing(w) /\ work[w].kind \in kinds
      /\ work'[w] = [work[w] EXCEPT !.how = how]
      /\ \A v \in Work \ {w} : work'[v] = work[v]
  BY DEF TraceInv, TraceTypeOK, Ends
<1>2. /\ work'[w].how = how /\ work'[w].inside = work[w].inside
      /\ work'[w].kind = work[w].kind
  BY <1>1, RunType DEF TraceInv
<1>3. InOrder'
  <2>1. \A v \in Work : work'[v].how = "unborn" <=> work[v].how = "unborn"
    BY <1>1, <1>2 DEF OnGoing
  <2> QED BY <2>1 DEF TraceInv, InOrder
<1>4. \A v \in Work : Nested(v)'
  <2> SUFFICES ASSUME NEW v \in Work
               PROVE  Nested(v)'
    OBVIOUS
  <2>1. Nested(v) /\ work[v].inside \subseteq Work
    BY RunType DEF TraceInv
  <2>2. /\ work'[v].inside = work[v].inside /\ work'[v].kind = work[v].kind
        /\ work'[v].how = "unborn" <=> work[v].how = "unborn"
        /\ OnGoing(v)' => OnGoing(v) /\ v # w
    BY <1>1, <1>2 DEF OnGoing
  <2>3. \A u \in work[v].inside : work'[u].how # "unborn" /\ (OnGoing(v)' => OnGoing(u)')
    <3> SUFFICES ASSUME NEW u \in work[v].inside
                 PROVE  work'[u].how # "unborn" /\ (OnGoing(v)' => OnGoing(u)')
      OBVIOUS
    <3>1. u \in Work /\ work[u].how # "unborn" /\ (OnGoing(v) => OnGoing(u))
      BY <2>1 DEF Nested
    <3>2. CASE u = w
      <4>1. ~OnGoing(v)
        BY <3>2 DEF Ends
      <4> QED BY <1>2, <2>2, <3>2, <4>1
    <3>3. CASE u # w
      BY <1>1, <2>2, <3>1, <3>3 DEF OnGoing
    <3> QED BY <3>2, <3>3
  <2> QED BY <2>1, <2>2, <2>3 DEF Nested
<1> QED
  BY <1>1, <1>3, <1>4

\* What is kept of a run that a step is not about.
LEMMA RestKeeps ==
  ASSUME TraceInv, NEW v \in Work, work'[v] = work[v], spanOf'[v] = spanOf[v],
         modelOf'[v] = modelOf[v], recorded'[v] = recorded[v],
         \A u \in work[v].inside : recorded'[u].kept = recorded[u].kept
  PROVE  Handles(v)' /\ Mirrors(v)'
<1>1. Handles(v) /\ Mirrors(v)
  BY DEF TraceInv
<1>2. Handles(v)'
  BY <1>1 DEF Handles, OnGoing
<1>3. Mirrors(v)'
  BY <1>1 DEF Mirrors, OnGoing
<1> QED
  BY <1>2, <1>3

-----------------------------------------------------------------------------
(* TraceTree: the sorts of step *)

WorkRecords == [kind : {"none"} \cup RunKinds, under : Work \cup {None}, inside : SUBSET Work,
                how : {"unborn", "running", "returned", "raised"}]
SpanRecords == [kept : BOOLEAN, under : Work \cup {None}, ended : BOOLEAN, error : BOOLEAN,
                usage : Work \cup {None}]

LEMMA TraceTypes ==
  TraceTypeOK <=> /\ work \in [Work -> WorkRecords]
                  /\ spanOf \in [Work -> {"none", "live", "no_op"}]
                  /\ modelOf \in [Work -> Work \cup {None}]
                  /\ recorded \in [Work -> SpanRecords]
                  /\ faults \in 0..MaxFaults
<1>1. {"none"} \cup RunKinds
        = {"none", "graph", "node", "helper", "sequence", "model", "tool"}
  BY DEF RunKinds
<1> QED
  BY <1>1 DEF TraceTypeOK, WorkRecords, SpanRecords

LEMMA TraceTypesNext ==
  ASSUME work' \in [Work -> WorkRecords], spanOf' \in [Work -> {"none", "live", "no_op"}],
         modelOf' \in [Work -> Work \cup {None}], recorded' \in [Work -> SpanRecords],
         faults' \in 0..MaxFaults
  PROVE  TraceTypeOK'
<1>1. {"none"} \cup RunKinds
        = {"none", "graph", "node", "helper", "sequence", "model", "tool"}
  BY DEF RunKinds
<1> QED
  BY <1>1 DEF TraceTypeOK, WorkRecords, SpanRecords

NewSpan(u) == [NoSpan EXCEPT !.kept = TRUE, !.under = u]

LEMMA NewSpanFacts ==
  ASSUME NEW u \in Work \cup {None}
  PROVE  /\ NewSpan(u) \in SpanRecords /\ NewSpan(u).kept /\ NewSpan(u).under = u
         /\ ~NewSpan(u).ended /\ ~NewSpan(u).error /\ NewSpan(u).usage = None
BY DEF NewSpan, NoSpan, SpanRecords

\* A run starts, with a span of its own or without one.
LEMMA BeginKeeps ==
  ASSUME TraceInv, NEW w \in Work, NEW p \in Work \cup {None}, NEW sort \in RunKinds,
         Starts(w, sort, p),
         \/ UNCHANGED recorded
         \/ /\ sort \in {"graph"} \cup Handled
            /\ \E u \in Around(p) \cup {None} :
                 /\ recorded' = [recorded EXCEPT ![w] = NewSpan(u)]
                 /\ u # None => recorded[u].kept,
         spanOf' = IF sort \in Handled
                   THEN [spanOf EXCEPT ![w] = IF recorded' = recorded THEN "no_op" ELSE "live"]
                   ELSE spanOf,
         modelOf' = IF sort = "model" THEN [modelOf EXCEPT ![w] = w] ELSE modelOf,
         faults' \in 0..MaxFaults
  PROVE  TraceInv'
<1>1. /\ work[w].how = "unborn"
      /\ work'[w] = [kind |-> sort, under |-> p, inside |-> Around(p), how |-> "running"]
      /\ \A v \in Work \ {w} : work'[v] = work[v]
      /\ \A u \in Around(p) : u \in Work /\ u # w /\ OnGoing(u)
      /\ InOrder'
      /\ \A v \in Work : Nested(v)'
  BY StartsFacts
<1>2. /\ work \in [Work -> WorkRecords] /\ spanOf \in [Work -> {"none", "live", "no_op"}]
      /\ modelOf \in [Work -> Work \cup {None}] /\ recorded \in [Work -> SpanRecords]
  BY TraceTypes DEF TraceInv
<1>3. work[w].kind = "none" /\ spanOf[w] = "none" /\ ~recorded[w].kept
  BY <1>1 DEF TraceInv, Nested, Handles, Mirrors, OnGoing, Handled
<1>4. \A v \in Work \ {w} : /\ spanOf'[v] = spanOf[v] /\ modelOf'[v] = modelOf[v]
                            /\ recorded'[v] = recorded[v]
  BY <1>2
<1>5. TraceTypeOK'
  <2>1. work' \in [Work -> WorkRecords]
    <3>1. work'[w] \in WorkRecords
      BY <1>1 DEF WorkRecords
    <3>2. work' = [work EXCEPT ![w] = work'[w]]
      BY <1>1 DEF Starts, Around
    <3> QED BY <1>2, <3>1, <3>2
  <2>2. recorded' \in [Work -> SpanRecords]
    <3>1. CASE UNCHANGED recorded
      BY <1>2, <3>1
    <3>2. ASSUME NEW u \in Around(p) \cup {None}, recorded' = [recorded EXCEPT ![w] = NewSpan(u)]
          PROVE  recorded' \in [Work -> SpanRecords]
      BY <1>1, <1>2, <3>2, NewSpanFacts
    <3> QED BY <3>1, <3>2
  <2>3. spanOf' \in [Work -> {"none", "live", "no_op"}] /\ modelOf' \in [Work -> Work \cup {None}]
    BY <1>2
  <2> QED BY <2>1, <2>2, <2>3, TraceTypesNext
<1>6. ASSUME NEW v \in Work, v # w
      PROVE  Handles(v)' /\ Mirrors(v)'
  <2>1. \A u \in work[v].inside : u \in Work /\ u # w
    BY <1>1, RunType DEF TraceInv, Nested
  <2>2. \A u \in work[v].inside : recorded'[u].kept = recorded[u].kept
    BY <1>4, <2>1
  <2> QED BY <1>1, <1>4, <1>6, <2>2, RestKeeps
<1>7. CASE UNCHANGED recorded
  <2>1. Handles(w)'
    BY <1>1, <1>2, <1>3, <1>7 DEF Handles, OnGoing, Handled
  <2>2. Mirrors(w)'
    BY <1>3, <1>7 DEF TraceInv, Mirrors
  <2> QED BY <1>1, <1>5, <1>6, <2>1, <2>2 DEF TraceInv
<1>8. ASSUME NEW u \in Around(p) \cup {None}, sort \in {"graph"} \cup Handled,
             recorded' = [recorded EXCEPT ![w] = NewSpan(u)], u # None => recorded[u].kept
      PROVE  TraceInv'
  <2>1. u \in Work \cup {None} /\ recorded'[w] = NewSpan(u)
    BY <1>1, <1>2, <1>8
  <2>2. /\ recorded'[w].kept /\ recorded'[w].under = u /\ ~recorded'[w].ended
        /\ ~recorded'[w].error /\ recorded'[w].usage = None
    BY <2>1, NewSpanFacts
  <2>3. work'[w].kind = sort /\ work'[w].how = "running" /\ work'[w].inside = Around(p)
    BY <1>1
  <2>4. recorded' # recorded
    BY <1>3, <2>2
  <2>5. Handles(w)'
    <3>1. spanOf'[w] = IF sort \in Handled THEN "live" ELSE "none"
      BY <1>2, <1>3, <2>4
    <3>2. sort = "model" => modelOf'[w] = w
      BY <1>2
    <3> QED BY <2>2, <2>3, <3>1, <3>2 DEF Handles, OnGoing
  <2>6. u # None => u \in Around(p) /\ recorded'[u].kept
    BY <1>1, <1>4, <1>8
  <2>7. Mirrors(w)'
    BY <1>8, <2>2, <2>3, <2>6 DEF Mirrors, OnGoing
  <2> QED BY <1>1, <1>5, <1>6, <2>5, <2>7 DEF TraceInv
<1> QED
  BY <1>7, <1>8

\* A run ends, and its span with it.
LEMMA EndKeeps ==
  ASSUME TraceInv, NEW w \in Work, NEW kinds, NEW how \in {"returned", "raised"},
         Ends(w, kinds, how), NEW span \in SpanRecords,
         recorded' = [recorded EXCEPT ![w] = span],
         span.kept = recorded[w].kept, span.under = recorded[w].under,
         span.ended = recorded[w].kept,
         span.error <=> recorded[w].kept /\ how = "raised",
         span.usage = IF recorded[w].kept /\ work[w].kind = "model" /\ how = "returned"
                      THEN w ELSE None,
         \/ spanOf' = [spanOf EXCEPT ![w] = "none"]
         \/ spanOf' = spanOf /\ spanOf[w] = "none",
         modelOf' = [modelOf EXCEPT ![w] = None] \/ modelOf' = modelOf,
         faults' = faults
  PROVE  TraceInv'
<1>1. /\ OnGoing(w) /\ work[w].kind \in kinds
      /\ work'[w] = [work[w] EXCEPT !.how = how]
      /\ \A v \in Work \ {w} : work'[v] = work[v]
      /\ InOrder'
      /\ \A v \in Work : Nested(v)'
  BY EndsFacts, Zenon
<1>2. /\ work \in [Work -> WorkRecords] /\ spanOf \in [Work -> {"none", "live", "no_op"}]
      /\ modelOf \in [Work -> Work \cup {None}] /\ recorded \in [Work -> SpanRecords]
      /\ faults \in 0..MaxFaults
  BY TraceTypes DEF TraceInv
<1>3. /\ work'[w].how = how /\ work'[w].inside = work[w].inside
      /\ work'[w].kind = work[w].kind /\ work'[w] \in WorkRecords
  BY <1>1, <1>2 DEF WorkRecords
<1>4. \A v \in Work \ {w} : /\ spanOf'[v] = spanOf[v] /\ modelOf'[v] = modelOf[v]
                            /\ recorded'[v] = recorded[v]
  BY <1>2
<1>5. spanOf'[w] = "none" /\ recorded'[w] = span
  BY <1>2
<1>6. TraceTypeOK'
  <2>1. work' \in [Work -> WorkRecords]
    <3>1. work' = [work EXCEPT ![w] = work'[w]]
      BY <1>1 DEF Ends
    <3> QED BY <1>2, <1>3, <3>1
  <2>2. recorded' \in [Work -> SpanRecords]
    BY <1>2
  <2>3. spanOf' \in [Work -> {"none", "live", "no_op"}] /\ modelOf' \in [Work -> Work \cup {None}]
    BY <1>2
  <2> QED BY <1>2, <2>1, <2>2, <2>3, TraceTypesNext
<1>7. \A v \in Work : recorded'[v].kept = recorded[v].kept
  BY <1>4, <1>5
<1>8. ASSUME NEW v \in Work, v # w
      PROVE  Handles(v)' /\ Mirrors(v)'
  <2>1. work[v].inside \subseteq Work
    BY RunType DEF TraceInv
  <2> QED BY <1>1, <1>4, <1>7, <1>8, <2>1, RestKeeps
<1>9. ~OnGoing(w)'
  BY <1>3 DEF OnGoing
<1>10. Handles(w)'
  BY <1>5, <1>9 DEF Handles
<1>11. Mirrors(w)'
  <2>1. Mirrors(w) /\ work[w].inside \subseteq Work
    BY RunType DEF TraceInv
  <2>2. CASE recorded[w].kept
    <3>1. span.kept /\ span.ended /\ (span.error <=> how = "raised")
      BY <2>2
    <3>2. span.usage = IF work'[w].kind = "model" /\ work'[w].how = "returned" THEN w ELSE None
      BY <1>3, <2>2
    <3>3. work'[w].kind \in {"graph"} \cup Handled
      BY <1>3, <2>1, <2>2 DEF Mirrors
    <3>4. span.under # None => span.under \in work'[w].inside /\ recorded'[span.under].kept
      BY <1>3, <1>7, <2>1, <2>2 DEF Mirrors
    <3> QED BY <1>3, <1>5, <1>9, <3>1, <3>2, <3>3, <3>4 DEF Mirrors
  <2>3. CASE ~recorded[w].kept
    <3>1. ~span.kept /\ ~span.ended /\ ~span.error /\ span.usage = None
      BY <2>3
    <3> QED BY <1>5, <3>1 DEF Mirrors
  <2> QED BY <2>2, <2>3
<1> QED
  BY <1>1, <1>6, <1>8, <1>10, <1>11 DEF TraceInv

-----------------------------------------------------------------------------
(* TraceTree: the steps *)

\* A span opens under one that goes on, or under none.
LEMMA OpensUnder ==
  ASSUME TraceInv, NEW p \in Work \cup {None}, \A u \in Around(p) : u \in Work
  PROVE  /\ Ambient(Around(p)) \in Around(p) \cup {None}
         /\ Ambient(Around(p)) # None => recorded[Ambient(Around(p))].kept
BY AmbientIsKept DEF TraceInv

\* A span that cannot be opened is one of the faults allowed.
LEMMA LoseSpanFacts ==
  ASSUME TraceInv, LoseSpan
  PROVE  UNCHANGED recorded /\ faults' \in 0..MaxFaults
<1>1. faults \in 0..MaxFaults
  BY DEF TraceInv, TraceTypeOK
<1> QED
  BY <1>1, TraceAssumption DEF LoseSpan

\* An agent's graph starts with its span.
LEMMA AgentStartsKeeps ==
  ASSUME TraceInv, NEW w \in Work, NEW p \in Work \cup {None}, AgentStarts(w, p)
  PROVE  TraceInv'
<1>1. Starts(w, "graph", p) /\ "graph" \in RunKinds /\ UNCHANGED <<spanOf, modelOf>>
  BY DEF AgentStarts, RunKinds
<1>2. \A u \in Around(p) : u \in Work
  BY <1>1, StartsFacts
<1>3. faults \in 0..MaxFaults
  BY DEF TraceInv, TraceTypeOK
<1>4. CASE KeepSpan(w, Ambient(Around(p)))
  <2>1. recorded' = [recorded EXCEPT ![w] = NewSpan(Ambient(Around(p)))] /\ faults' = faults
    BY <1>4 DEF KeepSpan, NewSpan
  <2> QED
    BY <1>1, <1>2, <1>3, <2>1, OpensUnder, BeginKeeps DEF Handled
<1>5. CASE LoseSpan
  BY <1>1, <1>5, LoseSpanFacts, BeginKeeps DEF Handled
<1> QED
  BY <1>4, <1>5 DEF AgentStarts, Around

\* _open, of a node, a model call or a tool.
LEMMA OpenSpanKeeps ==
  ASSUME TraceInv, NEW w \in Work, NEW p \in Work, NEW sort \in Handled, Starts(w, sort, p),
         OpenSpan(w, p),
         modelOf' = IF sort = "model" THEN [modelOf EXCEPT ![w] = w] ELSE modelOf
  PROVE  TraceInv'
<1>1. sort \in RunKinds /\ Around(p) = work[p].inside \cup {p} /\ p # None
  BY WorkNumbers DEF Handled, RunKinds, Around
<1>2. work[w].how = "unborn" /\ \A u \in Around(p) : u \in Work
  BY <1>1, StartsFacts
<1>3. ~recorded[w].kept
  BY <1>2 DEF TraceInv, Nested, Mirrors, Handled
<1>4. faults \in 0..MaxFaults /\ recorded \in [Work -> SpanRecords]
  BY TraceTypes DEF TraceInv
<1>5. CASE LoseSpan /\ spanOf' = [spanOf EXCEPT ![w] = "no_op"]
  BY <1>1, <1>5, LoseSpanFacts, BeginKeeps
<1>6. CASE ~(LoseSpan /\ spanOf' = [spanOf EXCEPT ![w] = "no_op"])
  <2> DEFINE u == IF spanOf[p] = "live" THEN p ELSE Ambient(Around(p))
  <2>1. u \in Around(p) \cup {None} /\ (u # None => recorded[u].kept)
    <3>1. CASE spanOf[p] = "live"
      BY <1>1, <3>1 DEF TraceInv, Handles
    <3>2. CASE spanOf[p] # "live"
      BY <1>2, <3>2, OpensUnder
    <3> QED BY <3>1, <3>2
  <2>2. /\ recorded' = [recorded EXCEPT ![w] = NewSpan(u)] /\ faults' = faults
        /\ spanOf' = [spanOf EXCEPT ![w] = "live"]
    BY <1>1, <1>6 DEF OpenSpan, KeepSpan, NewSpan
  <2> HIDE DEF u
  <2>3. recorded' # recorded
    <3>1. u \in Work \cup {None}
      BY <1>2, <2>1
    <3>2. recorded'[w] = NewSpan(u) /\ NewSpan(u).kept
      BY <1>4, <2>2, <3>1, NewSpanFacts
    <3> QED BY <1>3, <3>2
  <2>4. spanOf' = [spanOf EXCEPT ![w] = IF recorded' = recorded THEN "no_op" ELSE "live"]
    BY <2>2, <2>3
  <2> QED
    BY <1>1, <1>4, <2>1, <2>2, <2>4, BeginKeeps
<1> QED
  BY <1>5, <1>6

\* A node starts with a span; helpers and sequences have none.
LEMMA ChainStartsKeeps ==
  ASSUME TraceInv, NEW w \in Work, NEW p \in Work, NEW sort \in {"node", "helper", "sequence"},
         ChainStarts(w, p, sort)
  PROVE  TraceInv'
<1>1. CASE sort = "node"
  BY <1>1, OpenSpanKeeps DEF ChainStarts, Handled
<1>2. CASE sort # "node"
  <2>1. /\ Starts(w, sort, p) /\ UNCHANGED <<spanOf, recorded, faults, modelOf>>
        /\ sort \in RunKinds /\ sort \notin Handled /\ sort # "model"
    BY <1>2 DEF ChainStarts, RunKinds, Handled
  <2>2. faults' \in 0..MaxFaults
    BY <2>1 DEF TraceInv, TraceTypeOK
  <2> QED BY <2>1, <2>2, BeginKeeps
<1> QED
  BY <1>1, <1>2

\* What a run that goes on has in the callback and in the trace.
LEMMA OnGoingFacts ==
  ASSUME TraceInv, NEW w \in Work, OnGoing(w)
  PROVE  /\ recorded[w] \in SpanRecords
         /\ recorded[w].ended = FALSE /\ recorded[w].error = FALSE
         /\ recorded[w].usage = None
         /\ spanOf[w] = "none" /\ recorded[w].kept => work[w].kind = "graph"
         /\ work[w].kind = "model" => modelOf[w] = w /\ spanOf[w] # "none"
<1>1. recorded[w] \in SpanRecords
  BY TraceTypes DEF TraceInv
<1>2. recorded[w].ended \in BOOLEAN /\ recorded[w].error \in BOOLEAN
  BY <1>1 DEF SpanRecords
<1>3. Handles(w) /\ Mirrors(w)
  BY DEF TraceInv
<1>4. ~recorded[w].ended /\ ~recorded[w].error /\ recorded[w].usage = None
  BY <1>3 DEF Mirrors, OnGoing
<1> QED
  BY <1>1, <1>2, <1>3, <1>4 DEF Handles, Mirrors, Handled

\* An agent's span ends with its graph.
LEMMA AgentEndsKeeps ==
  ASSUME TraceInv, NEW w \in Work, NEW how \in {"returned", "raised"}, AgentEnds(w, how)
  PROVE  TraceInv'
<1>1. OnGoing(w) /\ work[w].kind = "graph" /\ Ends(w, {"graph"}, how)
  BY DEF AgentEnds, Ends
<1>2. /\ recorded[w] \in SpanRecords /\ recorded[w].ended = FALSE
      /\ recorded[w].error = FALSE /\ recorded[w].usage = None
  BY <1>1, OnGoingFacts
<1>3. spanOf[w] = "none" /\ recorded \in [Work -> SpanRecords]
  BY <1>1, TraceTypes DEF TraceInv, Handles, Handled
<1> DEFINE span == [recorded[w] EXCEPT !.ended = recorded[w].kept,
                                       !.error = recorded[w].kept /\ how = "raised"]
<1>4. recorded' = [recorded EXCEPT ![w] = span]
  BY <1>3 DEF AgentEnds
<1>5. /\ span \in SpanRecords /\ span.kept = recorded[w].kept
      /\ span.under = recorded[w].under /\ span.usage = recorded[w].usage
      /\ span.ended = recorded[w].kept
      /\ span.error <=> recorded[w].kept /\ how = "raised"
  BY <1>2 DEF SpanRecords
<1>6. UNCHANGED <<spanOf, modelOf, faults>>
  BY DEF AgentEnds
<1> HIDE DEF span
<1> QED
  BY <1>1, <1>2, <1>3, <1>4, <1>5, <1>6, EndKeeps

\* _close and _error_close, of a run with the span the trace will show.
LEMMA CloseKeeps ==
  ASSUME TraceInv, NEW w \in Work, NEW kinds, NEW how \in {"returned", "raised"},
         Ends(w, kinds, how), NEW span \in SpanRecords, CloseSpan(w, span),
         span.kept = recorded[w].kept, span.under = recorded[w].under,
         span.error <=> recorded[w].kept /\ how = "raised",
         span.usage = IF recorded[w].kept /\ work[w].kind = "model" /\ how = "returned"
                      THEN w ELSE None
  PROVE  TraceInv'
<1> DEFINE closed == [span EXCEPT !.ended = span.kept]
<1>1. /\ closed \in SpanRecords /\ closed.kept = span.kept /\ closed.under = span.under
      /\ closed.ended = span.kept /\ closed.error = span.error /\ closed.usage = span.usage
  BY DEF SpanRecords
<1>2. /\ recorded' = [recorded EXCEPT ![w] = closed]
      /\ spanOf' = [spanOf EXCEPT ![w] = "none"] /\ modelOf' = [modelOf EXCEPT ![w] = None]
      /\ faults' = faults
  BY DEF CloseSpan
<1> HIDE DEF closed
<1> QED
  BY <1>1, <1>2, EndKeeps

\* A chain without a span ends.
LEMMA BareEndKeeps ==
  ASSUME TraceInv, NEW w \in Work, NEW kinds, NEW how \in {"returned", "raised"},
         Ends(w, kinds, how), "graph" \notin kinds, spanOf[w] = "none",
         UNCHANGED <<spanOf, modelOf, recorded, faults>>
  PROVE  TraceInv'
<1>1. OnGoing(w) /\ work[w].kind \in kinds
  BY DEF Ends
<1> DEFINE span == recorded[w]
<1>2. /\ span \in SpanRecords /\ span.ended = FALSE /\ ~span.kept
      /\ span.error = FALSE /\ span.usage = None
  BY <1>1, OnGoingFacts
<1>3. recorded \in [Work -> SpanRecords]
  BY TraceTypes DEF TraceInv
<1>4. recorded' = [recorded EXCEPT ![w] = span]
  BY <1>3
<1>5. recorded[w].kept = FALSE
  BY <1>2 DEF SpanRecords
<1>6. /\ span.kept = recorded[w].kept /\ span.under = recorded[w].under
      /\ span.ended = recorded[w].kept
  BY <1>2, <1>5
<1>7. span.error <=> recorded[w].kept /\ how = "raised"
  BY <1>2, <1>5
<1>8. span.usage = IF recorded[w].kept /\ work[w].kind = "model" /\ how = "returned"
                   THEN w ELSE None
  BY <1>2, <1>5
<1> HIDE DEF span
<1> QED
  BY <1>2, <1>4, <1>6, <1>7, <1>8, EndKeeps

\* Nodes, models and tools that return close their spans, a model with its
\* usage.
LEMMA ReturnsKeeps ==
  ASSUME TraceInv, NEW w \in Work, ChainEnds(w) \/ ModelEnds(w) \/ ToolEnds(w)
  PROVE  TraceInv'
<1>1. OnGoing(w)
  BY DEF ChainEnds, ModelEnds, ToolEnds, Ends
<1>2. /\ recorded[w] \in SpanRecords /\ recorded[w].ended = FALSE
      /\ recorded[w].error = FALSE /\ recorded[w].usage = None
      /\ work[w].kind = "model" => modelOf[w] = w
  BY <1>1, OnGoingFacts
<1>3. CASE ChainEnds(w)
  <2>1. Ends(w, {"node", "helper", "sequence"}, "returned") /\ work[w].kind # "model"
    BY <1>3 DEF ChainEnds, Ends
  <2>2. CASE spanOf[w] # "none"
    <3>1. CloseSpan(w, recorded[w])
      BY <1>3, <2>2 DEF ChainEnds
    <3> QED BY <1>2, <2>1, <3>1, CloseKeeps
  <2>3. CASE spanOf[w] = "none"
    BY <1>3, <2>1, <2>3, BareEndKeeps DEF ChainEnds
  <2> QED BY <2>2, <2>3
<1>4. CASE ToolEnds(w)
  <2>1. /\ Ends(w, {"tool"}, "returned") /\ work[w].kind # "model"
        /\ CloseSpan(w, recorded[w])
    BY <1>4 DEF ToolEnds, Ends
  <2> QED BY <1>2, <2>1, CloseKeeps
<1>5. CASE ModelEnds(w)
  <2> DEFINE span == [recorded[w] EXCEPT !.usage = UsageFromResult(w)]
  <2>1. /\ Ends(w, {"model"}, "returned") /\ work[w].kind = "model" /\ CloseSpan(w, span)
    BY <1>5 DEF ModelEnds, Ends
  <2>2. UsageFromResult(w) = IF recorded[w].kept THEN w ELSE None
    BY <1>2, <2>1 DEF UsageFromResult
  <2>3. /\ span \in SpanRecords /\ span.kept = recorded[w].kept
        /\ span.under = recorded[w].under /\ span.error = recorded[w].error
        /\ span.usage = IF recorded[w].kept THEN w ELSE None
    BY <1>2, <2>2 DEF SpanRecords
  <2> HIDE DEF span
  <2> QED BY <1>2, <2>1, <2>3, CloseKeeps
<1> QED
  BY <1>3, <1>4, <1>5

\* What raises closes its span as an error.
LEMMA WorkRaisesKeeps ==
  ASSUME TraceInv, NEW w \in Work, WorkRaises(w)
  PROVE  TraceInv'
<1> DEFINE kinds == {"node", "helper", "sequence", "model", "tool"}
<1>1. OnGoing(w) /\ Ends(w, kinds, "raised") /\ "graph" \notin kinds
  BY DEF WorkRaises, Ends
<1> HIDE DEF kinds
<1>2. recorded[w] \in SpanRecords /\ recorded[w].usage = None
  BY <1>1, OnGoingFacts
<1>3. CASE spanOf[w] # "none"
  <2> DEFINE span == [recorded[w] EXCEPT !.error = recorded[w].kept]
  <2>1. CloseSpan(w, span)
    BY <1>3 DEF WorkRaises, ErrorClose
  <2>2. /\ span \in SpanRecords /\ span.kept = recorded[w].kept
        /\ span.under = recorded[w].under /\ span.error = recorded[w].kept
        /\ span.usage = recorded[w].usage
    BY <1>2 DEF SpanRecords
  <2> HIDE DEF span
  <2> QED BY <1>1, <1>2, <2>1, <2>2, CloseKeeps
<1>4. CASE spanOf[w] = "none"
  BY <1>1, <1>4, BareEndKeeps DEF WorkRaises
<1> QED
  BY <1>3, <1>4

LEMMA TraceStepInv ==
  TraceInv /\ [TraceNext]_traceVars => TraceInv'
<1> SUFFICES ASSUME TraceInv, [TraceNext]_traceVars
             PROVE  TraceInv'
  OBVIOUS
<1>1. ASSUME NEW w \in Work, NEW p \in Work \cup {None}, AgentStarts(w, p)
      PROVE  TraceInv'
  BY <1>1, AgentStartsKeeps
<1>2. ASSUME NEW w \in Work, NEW p \in Work, NEW sort \in {"node", "helper", "sequence"},
             ChainStarts(w, p, sort)
      PROVE  TraceInv'
  BY <1>2, ChainStartsKeeps
<1>3. ASSUME NEW w \in Work, NEW p \in Work, ModelStarts(w, p) \/ ToolStarts(w, p)
      PROVE  TraceInv'
  BY <1>3, OpenSpanKeeps DEF ModelStarts, ToolStarts, Handled
<1>4. ASSUME NEW w \in Work, ChainEnds(w) \/ ModelEnds(w) \/ ToolEnds(w)
      PROVE  TraceInv'
  BY <1>4, ReturnsKeeps
<1>5. ASSUME NEW w \in Work, WorkRaises(w)
      PROVE  TraceInv'
  BY <1>5, WorkRaisesKeeps
<1>6. ASSUME NEW w \in Work, NEW how \in {"returned", "raised"}, AgentEnds(w, how)
      PROVE  TraceInv'
  BY <1>6, AgentEndsKeeps
<1>7. CASE UNCHANGED traceVars
  BY <1>7 DEF traceVars, TraceInv, TraceTypeOK, InOrder, Nested, Handles, Mirrors, OnGoing
<1> QED
  BY <1>1, <1>2, <1>3, <1>4, <1>5, <1>6, <1>7 DEF TraceNext

LEMMA TraceInitInv ==
  TraceInit => TraceInv
<1> SUFFICES ASSUME TraceInit
             PROVE  TraceInv
  OBVIOUS
<1>1. TraceTypeOK
  <2>1. Unstarted \in WorkRecords /\ NoSpan \in SpanRecords
    BY DEF Unstarted, NoSpan, WorkRecords, SpanRecords
  <2> QED BY <2>1, TraceTypes, TraceAssumption DEF TraceInit
<1>2. InOrder
  <2>1. \A w \in Work : w > 0 /\ work[w].how = "unborn"
    BY WorkNumbers DEF TraceInit, Unstarted
  <2>2. 0 \in 0..MaxWork
    BY TraceAssumption
  <2> QED BY <2>1, <2>2 DEF InOrder
<1>3. ASSUME NEW w \in Work
      PROVE  Nested(w) /\ Handles(w) /\ Mirrors(w)
  BY DEF TraceInit, Unstarted, NoSpan, Nested, Handles, Mirrors, OnGoing, Handled
<1> QED
  BY <1>1, <1>2, <1>3 DEF TraceInv

LEMMA TraceInvariance ==
  TraceSpec => []TraceInv
BY TraceInitInv, TraceStepInv, PTL DEF TraceSpec

\* However the events of concurrent nodes, calls and members interleave, and
\* whatever raises, the tree the callback leaves is the one of the runs: spans
\* end and fail with their runs, usage lands on its own call, and no span hangs
\* below one that is over (ObservabilityCallback).
THEOREM TracesAreTrue == TraceSpec => []TraceMirrorsTheTurn
<1>1. TraceInv => TraceMirrorsTheTurn
  <2> SUFFICES ASSUME TraceInv, NEW w \in Work, recorded[w].kept
               PROVE  LET span == recorded[w]
                          up == span.under
                      IN  /\ span.ended <=> ~OnGoing(w)
                          /\ span.error <=> work[w].how = "raised"
                          /\ span.usage # None
                               <=> work[w].kind = "model" /\ work[w].how = "returned"
                          /\ span.usage \in {None, w}
                          /\ up # None => /\ up \in work[w].inside /\ recorded[up].kept
                                          /\ recorded[up].ended => span.ended
    BY DEF TraceMirrorsTheTurn
  <2>1. Mirrors(w) /\ Nested(w) /\ w # None
    BY WorkNumbers DEF TraceInv
  <2>2. ASSUME recorded[w].under # None, recorded[recorded[w].under].ended
        PROVE  recorded[w].ended
    <3> DEFINE up == recorded[w].under
    <3>1. up \in work[w].inside /\ recorded[up].kept
      BY <2>1, <2>2 DEF Mirrors
    <3>2. up \in Work
      BY <3>1, RunType DEF TraceInv
    <3>3. ~OnGoing(up)
      BY <2>2, <3>1, <3>2 DEF TraceInv, Mirrors
    <3>4. ~OnGoing(w)
      BY <2>1, <3>1, <3>3 DEF Nested
    <3> QED BY <2>1, <3>4 DEF Mirrors
  <2> QED BY <2>1, <2>2 DEF Mirrors
<1> QED
  BY <1>1, TraceInvariance, PTL
=============================================================================
