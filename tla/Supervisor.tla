----------------------------- MODULE Supervisor -----------------------------
(***************************************************************************)
(* One session of a supervisor agent: classify, route, fan out to the      *)
(* specialists, retry within a bound, merge, answer. Each node of the      *)
(* graph is a super-step whose state is checkpointed before the next one;  *)
(* the calls of a dispatch are not, so a crash between them loses them.    *)
(*                                                                         *)
(* The checkpointed state belongs to the session and outlives a turn. A    *)
(* driver may stop anywhere (crash, exception) and be resumed, or the user *)
(* may simply ask again. confirm_write is left out: no node of the graph   *)
(* sets pending_write, so needs_confirm always goes on to the gate.        *)
(***************************************************************************)
EXTENDS Naturals, SequencesExt

CONSTANTS
  Specialists,  \* the agents a route can name
  Intents,      \* the labels of the classifier
  NoIntent,     \* what the classifier's reply is when it is not a label
  Routing,      \* the routing table, its `_default` entry under NoIntent
  Priority,     \* conflict_resolver.priority
  RetryOn,      \* retry.on: the failure categories worth a retry
  MaxAttempts,  \* retry.max_attempts
  Nobody,       \* the winner when no specialist succeeded
  MaxTurns,     \* bound: the user's messages in the session
  MaxStops      \* bound: the drivers that stop half-way

Strategies == {"single", "parallel", "sequential"}
Routes == [specialists: Seq(Specialists), strategy: Strategies]

ASSUME NamesAssumption == Nobody \notin Specialists /\ NoIntent \notin Intents
ASSUME RoutingAssumption == Routing \in [Intents \cup {NoIntent} -> Routes]
\* A route names a specialist once. The configuration does not insist on it:
\* a name written twice would be run, and counted, twice in a pass.
ASSUME RoutesAssumption ==
  \A label \in Intents \cup {NoIntent} : IsInjective(Routing[label].specialists)
ASSUME PriorityAssumption == Priority \in Seq(Specialists)
ASSUME RetryAssumption ==
  RetryOn \subseteq {"timeout", "specialist_error"} /\ MaxAttempts \in Nat
ASSUME BoundsAssumption == MaxTurns \in Nat /\ MaxStops \in Nat

VARIABLES
  turn,      \* the user's messages so far
  next,      \* the node the session's checkpoint continues with ("none": at rest)
  intent,    \* SupervisorState.intent
  route,     \* SupervisorState.route
  results,   \* SupervisorState.specialist_results, per specialist
  attempts,  \* SupervisorState.attempts
  resolved,  \* SupervisorState.resolved: the winner and its result
  answers,   \* the answer of each turn, in messages
  driving,   \* a driver is executing the graph
  fresh,     \* results of the dispatch under way, in the driver's memory
  stops      \* drivers that have stopped half-way

state == <<next, intent, route, results, attempts, resolved, answers>>
vars == <<turn, next, intent, route, results, attempts, resolved, answers,
          driving, fresh, stops>>

-----------------------------------------------------------------------------
(* Results, retry and conflict resolution *)

Turns == 1..MaxTurns

\* What comes of calling a specialist: an answer, a timeout, an exception, or
\* nothing usable (an empty output, or an exception with an empty message,
\* which counts as no error and as no output).
Failures == {"timeout", "specialist_error"}
Outcomes == Failures \cup {"ok", "empty"}

\* A result, with the turn whose message the specialist was asked (0: none).
NoResult == [outcome |-> "none", asked |-> 0]
NoResults == [s \in Specialists |-> NoResult]

Known(r) == {s \in Specialists : r[s] # NoResult}

\* Mutated form: the cap is not looked at.
ToRetryUncapped(r, a) == {s \in Known(r) : r[s].outcome \in RetryOn}

\* specialists_to_retry: failures of a retryable category, under the cap.
ToRetry(r, a) == {s \in Known(r) : r[s].outcome \in RetryOn /\ a[s] < MaxAttempts}

\* _rank: unknown names rank last.
Rank(s) ==
  IF Contains(Priority, s) THEN CHOOSE i \in DOMAIN Priority :
       Priority[i] = s /\ \A j \in DOMAIN Priority : Priority[j] = s => i <= j
  ELSE Len(Priority) + 1

\* Mutated form: every specialist that was called takes part in the merge.
SurvivorsAndFailures(r) == Known(r)

Survivors(r) == {s \in Specialists : r[s].outcome = "ok"}

\* ConflictResolver.resolve: a survivor of the best rank wins. Between equal
\* ranks on_tie decides, which is left open here.
Winners(r) ==
  LET best == {s \in Survivors(r) : \A t \in Survivors(r) : Rank(s) <= Rank(t)}
  IN  IF best = {} THEN {Nobody} ELSE best

Verdict(winner, r) ==
  [winner |-> winner, asked |-> IF winner = Nobody THEN 0 ELSE r[winner].asked]

NoVerdict == [winner |-> Nobody, asked |-> 0]

-----------------------------------------------------------------------------
(* The driver *)

At(node) == driving /\ next = node

\* A message of the user: RunnableAgent.run on the session's thread. The
\* graph starts over on the state the session has.
Ask ==
  /\ ~driving /\ turn < MaxTurns
  /\ turn' = turn + 1
  /\ next' = "classify"
  /\ driving' = TRUE
  /\ UNCHANGED <<intent, route, results, attempts, resolved, answers, fresh, stops>>

\* LangGraphEngine.resume: the graph goes on from the checkpoint.
Resume ==
  /\ ~driving /\ next # "none"
  /\ driving' = TRUE
  /\ UNCHANGED <<turn, state, fresh, stops>>

\* The driver stops: killed, cancelled, or the classifier or the store
\* raises. What the dispatch under way has collected is gone.
Stop ==
  /\ driving /\ stops < MaxStops
  /\ driving' = FALSE
  /\ fresh' = NoResults
  /\ stops' = stops + 1
  /\ UNCHANGED <<turn, state>>

\* The classifier's reply is one of the labels, or none of them.
Classify ==
  /\ At("classify")
  /\ intent' \in Intents \cup {NoIntent}
  /\ next' = "lookup_route"
  /\ UNCHANGED <<turn, route, results, attempts, resolved, answers, driving, fresh, stops>>

\* The routing table's entry for the intent, or its `_default`.
LookupRoute ==
  /\ At("lookup_route")
  /\ route' = Routing[intent]
  /\ next' = "dispatch"
  /\ UNCHANGED <<turn, intent, results, attempts, resolved, answers, driving, fresh, stops>>

-----------------------------------------------------------------------------
(* Dispatch *)

\* dispatch_node: the routed specialists as long as there are no results,
\* the retryable failures once there are.
ToRun == IF Known(results) = {} THEN ToSet(route.specialists)
         ELSE ToRetry(results, attempts)

\* The refs in order: route order for the first pass. A retry pass goes
\* through the results in theirs, which is left open.
Before(s, t) ==
  /\ Known(results) = {}
  /\ \E i, j \in DOMAIN route.specialists :
       route.specialists[i] = s /\ route.specialists[j] = t /\ i < j

\* `single` runs refs[0] only, `sequential` waits for the refs before.
First(s) == \A t \in ToRun \ {s} : ~Before(t, s)
Pending ==
  CASE route.strategy = "single" ->
         {s \in ToRun : First(s) /\ \A t \in ToRun : fresh[t] = NoResult}
    [] route.strategy = "sequential" ->
         {s \in ToRun : fresh[s] = NoResult
                        /\ \A t \in ToRun : Before(t, s) => fresh[t] # NoResult}
    [] OTHER -> {s \in ToRun : fresh[s] = NoResult}

\* Mutated form: a result is written to the session as soon as it is there.
CallAtOnce(s) ==
  /\ At("dispatch") /\ s \in Pending
  /\ \E outcome \in Outcomes :
       /\ fresh' = [fresh EXCEPT ![s] = [outcome |-> outcome, asked |-> turn]]
       /\ results' = [results EXCEPT ![s] = [outcome |-> outcome, asked |-> turn]]
  /\ UNCHANGED <<turn, next, intent, route, attempts, resolved, answers, driving, stops>>

\* AgentRef.run through _run_safely: no failure of a specialist is an error of
\* the dispatch.
Call(s) ==
  /\ At("dispatch") /\ s \in Pending
  /\ \E outcome \in Outcomes :
       fresh' = [fresh EXCEPT ![s] = [outcome |-> outcome, asked |-> turn]]
  /\ UNCHANGED <<turn, state, driving, stops>>

Merged == [s \in Specialists |-> IF fresh[s] = NoResult THEN results[s] ELSE fresh[s]]

\* Mutated form: the passes are not counted.
CountedNothing == attempts

\* Every specialist that was to run has one attempt more, also the ones the
\* `single` strategy did not call.
Counted == [s \in Specialists |-> attempts[s] + IF s \in ToRun THEN 1 ELSE 0]

\* The end of dispatch_node, and dispatch_router on what it returns.
EndDispatch ==
  /\ At("dispatch") /\ Pending = {}
  /\ results' = Merged
  /\ attempts' = Counted
  /\ next' = IF ToRetry(results', attempts') # {} THEN "dispatch" ELSE "resolve"
  /\ fresh' = NoResults
  /\ UNCHANGED <<turn, intent, route, resolved, answers, driving, stops>>

-----------------------------------------------------------------------------
(* Merge and answer *)

\* The resolver's verdict over all the results the session has.
Resolve ==
  /\ At("resolve")
  /\ \E winner \in Winners(results) : resolved' = Verdict(winner, results)
  /\ next' = "gate"
  /\ UNCHANGED <<turn, intent, route, results, attempts, answers, driving, fresh, stops>>

\* safety_gate: the answer becomes a message and the turn is over.
SafetyGate ==
  /\ At("gate")
  /\ answers' = [answers EXCEPT ![turn] = resolved]
  /\ next' = "none"
  /\ driving' = FALSE
  /\ UNCHANGED <<turn, intent, route, results, attempts, resolved, fresh, stops>>

-----------------------------------------------------------------------------
(* The specification *)

Init ==
  /\ turn = 0 /\ next = "none"
  /\ intent = NoIntent /\ route = Routing[NoIntent]
  /\ results = NoResults
  /\ attempts = [s \in Specialists |-> 0]
  /\ resolved = NoVerdict
  /\ answers = [t \in Turns |-> NoVerdict]
  /\ driving = FALSE /\ fresh = NoResults /\ stops = 0

GraphStep ==
  \/ Classify \/ LookupRoute \/ EndDispatch \/ Resolve \/ SafetyGate
  \/ \E s \in Specialists : Call(s)

Next == Ask \/ Resume \/ Stop \/ GraphStep

Spec == Init /\ [][Next]_vars

\* A driver keeps going. Nobody has to ask, to resume or to stop.
FairSpec == Spec /\ WF_vars(GraphStep)

-----------------------------------------------------------------------------
(* Properties *)

\* A hard cap, never `while True`: no specialist is counted more often than
\* max_attempts, over resumes and over later turns, and a retryable failure is
\* given up only when that budget is spent (retry.py).
RetriesWithinBudget ==
  /\ \A s \in Specialists : attempts[s] <= MaxAttempts
  /\ next \in {"resolve", "gate"} =>
       \A s \in Specialists : results[s].outcome \in RetryOn => attempts[s] >= MaxAttempts

\* Partial merge: a failed specialist never wins, a success is never passed
\* over for "no specialist succeeded", and none that ranks before the winner
\* succeeded (ConflictResolver.resolve).
BestSuccessWins ==
  next = "gate" =>
    LET succeeded == {s \in Specialists : results[s].outcome = "ok"}
    IN  IF succeeded = {} THEN resolved.winner = Nobody
        ELSE /\ resolved.winner \in succeeded
             /\ \A s \in succeeded : Rank(resolved.winner) <= Rank(s)

\* A success is kept: no retry pass, resume or later pass replaces the answer
\* of a specialist that has succeeded.
SuccessIsKept ==
  [][\A s \in Specialists : results[s].outcome = "ok" => results'[s] = results[s]]_results

\* The retry loop terminates: a driver that goes on reaches the answer, or is
\* stopped from outside (retry.py: "the loop provably terminates").
DriverFinishes == driving ~> ~driving

\* The session keeps the promise Delegation states, wherever a driver stops:
\* dispatch_node's pass is all or nothing, and a message is answered once, with
\* the best of what there is and nothing left to retry.
Promise == INSTANCE Delegation
             WITH due <- next # "none", Ranks <- [s \in Specialists |-> Rank(s)],
                  Messages <- MaxTurns
KeepsDelegation == Promise!Spec

\* The working fields are per turn: an answer given to a turn answers that
\* turn's message (SupervisorState; the comment in dispatch_node).
AnswersThisTurn == \A t \in Turns : answers[t].winner # Nobody => answers[t].asked = t
=============================================================================
