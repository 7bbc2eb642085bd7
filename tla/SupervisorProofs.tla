-------------------------- MODULE SupervisorProofs --------------------------
(***************************************************************************)
(* The retry budget, the merge and the keeping of successes, for any team, *)
(* routing table, priority list and number of turns, crashes and resumes.  *)
(*                                                                         *)
(* Everything rests on one fact about the working fields: while there are  *)
(* no results nothing has been counted, and what a dispatch collects comes *)
(* only from the specialists this pass is to run. A pass that counts       *)
(* somebody therefore leaves a result behind, and the next one retries.    *)
(***************************************************************************)
EXTENDS Supervisor, WellFoundedInduction, TLAPS

Results == [outcome : Outcomes \cup {"none"}, asked : 0..MaxTurns]
Verdicts == [winner : Specialists \cup {Nobody}, asked : 0..MaxTurns]
Nodes == {"none", "classify", "lookup_route", "dispatch", "resolve", "gate"}
AnyIntent == Intents \cup {NoIntent}

TypeOK ==
  /\ turn \in 0..MaxTurns
  /\ next \in Nodes
  /\ intent \in AnyIntent
  /\ route \in {Routing[label] : label \in AnyIntent}
  /\ results \in [Specialists -> Results]
  /\ attempts \in [Specialists -> Nat]
  /\ resolved \in Verdicts
  /\ answers \in [Turns -> Verdicts]
  /\ driving \in BOOLEAN
  /\ fresh \in [Specialists -> Results]
  /\ stops \in 0..MaxStops
  \* a graph that runs has been asked something and has somewhere to go on
  /\ driving => turn \in Turns /\ next # "none"
  /\ next # "none" => turn \in Turns

\* What is in a driver's memory was collected by the pass it is in.
FreshInv ==
  \A s \in Specialists : fresh[s] # NoResult => At("dispatch") /\ s \in ToRun

\* Nobody is counted before the first result.
CountInv == Known(results) = {} => \A s \in Specialists : attempts[s] = 0

DispatchInv == TypeOK /\ FreshInv /\ CountInv

-----------------------------------------------------------------------------
(* Data: results, routes and ranks *)

LEMMA NoResultType ==
  NoResult \in Results
BY BoundsAssumption DEF NoResult, Results

LEMMA RoutesType ==
  ASSUME TypeOK
  PROVE  /\ route \in Routes
         /\ route.specialists \in Seq(Specialists)
         /\ IsInjective(route.specialists)
BY RoutingAssumption, RoutesAssumption DEF TypeOK, AnyIntent, Routes

\* A result that may be retried is a failure.
LEMMA RetriesFail ==
  ASSUME NEW r, NEW a, NEW s \in ToRetry(r, a)
  PROVE  /\ s \in Specialists /\ r[s].outcome \in RetryOn /\ a[s] < MaxAttempts
         /\ r[s].outcome # "ok"
BY RetryAssumption DEF ToRetry, Known

LEMMA ToRunType ==
  ASSUME TypeOK
  PROVE  ToRun \subseteq Specialists
<1>1. ToSet(route.specialists) \subseteq Specialists
  BY RoutesType DEF ToSet
<1> QED
  BY <1>1 DEF ToRun, ToRetry, Known

\* A set of natural numbers has a least one.
LEMMA LeastNatural ==
  ASSUME NEW N \in SUBSET Nat, N # {}
  PROVE  \E m \in N : \A n \in N : m <= n
<1>1. \E m \in N : \A n \in N : ~(<<n, m>> \in OpToRel(<, Nat))
  BY WFMin, NatLessThanWellFounded, Zenon
<1>2. PICK m \in N : \A n \in N : ~(<<n, m>> \in OpToRel(<, Nat))
  BY <1>1
<1>3. ASSUME NEW n \in N
      PROVE  m <= n
  <2>1. <<n, m>> \in OpToRel(<, Nat) <=> n < m
    BY DEF OpToRel
  <2>2. ~(n < m)
    BY <1>2, <2>1, Zenon
  <2> QED
    BY <2>2
<1> QED
  BY <1>3

\* Every name has a rank, also one that the priority list does not know.
LEMMA RankType ==
  ASSUME NEW s \in Specialists
  PROVE  Rank(s) \in Nat
<1>1. Len(Priority) \in Nat /\ DOMAIN Priority = 1..Len(Priority)
  BY PriorityAssumption
<1>2. CASE Contains(Priority, s)
  <2> DEFINE places == {i \in DOMAIN Priority : Priority[i] = s}
  <2>1. places # {} /\ places \in SUBSET Nat
    BY <1>1, <1>2 DEF Contains
  <2>2. PICK i \in places : \A j \in places : i <= j
    BY <2>1, LeastNatural
  <2>3. \E k \in DOMAIN Priority :
          Priority[k] = s /\ \A j \in DOMAIN Priority : Priority[j] = s => k <= j
    BY <2>2
  <2>4. Rank(s) \in DOMAIN Priority
    BY <1>2, <2>3 DEF Rank
  <2> QED
    BY <1>1, <2>4
<1>3. CASE ~Contains(Priority, s)
  BY <1>1, <1>3 DEF Rank
<1> QED
  BY <1>2, <1>3

\* A survivor of the best rank exists as soon as there is a survivor.
LEMMA WinnersAreBest ==
  ASSUME NEW r, NEW winner \in Winners(r)
  PROVE  IF Survivors(r) = {} THEN winner = Nobody
         ELSE /\ winner \in Survivors(r)
              /\ \A s \in Survivors(r) : Rank(winner) <= Rank(s)
<1> DEFINE best == {s \in Survivors(r) : \A t \in Survivors(r) : Rank(s) <= Rank(t)}
<1>1. CASE Survivors(r) = {}
  BY <1>1 DEF Winners
<1>2. CASE Survivors(r) # {}
  <2> DEFINE ranks == {Rank(s) : s \in Survivors(r)}
  <2>1. ranks # {} /\ ranks \in SUBSET Nat
    BY <1>2, RankType DEF Survivors
  <2>2. PICK m \in ranks : \A n \in ranks : m <= n
    BY <2>1, LeastNatural
  <2>3. PICK s \in Survivors(r) : Rank(s) = m
    OBVIOUS
  <2>4. s \in best
    BY <2>2, <2>3
  <2>5. winner \in best
    BY <2>4 DEF Winners
  <2> QED
    BY <1>2, <2>5
<1> QED
  BY <1>1, <1>2

-----------------------------------------------------------------------------
(* Types *)

LEMMA MergedType ==
  ASSUME TypeOK
  PROVE  Merged \in [Specialists -> Results] /\ Counted \in [Specialists -> Nat]
BY DEF TypeOK, Merged, Counted

LEMMA VerdictType ==
  ASSUME TypeOK, NEW winner \in Winners(results)
  PROVE  Verdict(winner, results) \in Verdicts
<1>1. winner \in Specialists \cup {Nobody}
  BY DEF Winners, Survivors
<1>2. \A s \in Specialists : results[s].asked \in 0..MaxTurns
  BY DEF TypeOK, Results
<1> QED
  BY <1>1, <1>2, BoundsAssumption, NamesAssumption DEF Verdict, Verdicts

LEMMA InitType ==
  Init => TypeOK
<1> SUFFICES ASSUME Init
             PROVE  TypeOK
  OBVIOUS
<1>1. NoVerdict \in Verdicts
  BY BoundsAssumption DEF NoVerdict, Verdicts
<1>2. results \in [Specialists -> Results] /\ fresh \in [Specialists -> Results]
  BY NoResultType DEF Init, NoResults
<1>3. answers \in [Turns -> Verdicts]
  BY <1>1 DEF Init
<1>4. attempts \in [Specialists -> Nat]
  BY DEF Init
<1>5. route \in {Routing[label] : label \in AnyIntent} /\ intent \in AnyIntent
  BY DEF Init, AnyIntent
<1>6. /\ turn \in 0..MaxTurns /\ stops \in 0..MaxStops
      /\ next = "none" /\ driving = FALSE /\ resolved = NoVerdict
  BY BoundsAssumption DEF Init
<1> QED
  BY <1>1, <1>2, <1>3, <1>4, <1>5, <1>6 DEF TypeOK, Nodes

LEMMA StepType ==
  ASSUME TypeOK, [Next]_vars
  PROVE  TypeOK'
<1> USE BoundsAssumption
<1>1. CASE Ask
  BY <1>1 DEF TypeOK, Ask, Nodes, Turns
<1>2. CASE Resume
  BY <1>2 DEF TypeOK, Resume, state
<1>3. CASE Stop
  <2>1. fresh' \in [Specialists -> Results]
    BY <1>3, NoResultType DEF Stop, NoResults
  <2>2. stops' \in 0..MaxStops
    BY <1>3 DEF TypeOK, Stop
  <2>3. driving' = FALSE /\ UNCHANGED <<turn, next, intent, route, results, attempts,
                                       resolved, answers>>
    BY <1>3 DEF Stop, state
  <2> QED
    BY <2>1, <2>2, <2>3 DEF TypeOK
<1>4. CASE Classify
  BY <1>4 DEF TypeOK, Classify, At, Nodes, AnyIntent
<1>5. CASE LookupRoute
  BY <1>5 DEF TypeOK, LookupRoute, At, Nodes
<1>6. ASSUME NEW s \in Specialists, Call(s)
      PROVE  TypeOK'
  <2>1. PICK outcome \in Outcomes :
          fresh' = [fresh EXCEPT ![s] = [outcome |-> outcome, asked |-> turn]]
    BY <1>6 DEF Call
  <2>2. [outcome |-> outcome, asked |-> turn] \in Results
    BY DEF TypeOK, Results
  <2>3. fresh' \in [Specialists -> Results]
    BY <2>1, <2>2 DEF TypeOK
  <2> QED
    BY <1>6, <2>3 DEF TypeOK, Call, state
<1>7. CASE EndDispatch
  <2>1. fresh' \in [Specialists -> Results]
    BY <1>7, NoResultType DEF EndDispatch, NoResults
  <2>2. next' \in {"dispatch", "resolve"}
    BY <1>7 DEF EndDispatch
  <2> QED
    BY <1>7, <2>1, <2>2, MergedType DEF TypeOK, EndDispatch, At, Nodes
<1>8. CASE Resolve
  BY <1>8, VerdictType DEF TypeOK, Resolve, At, Nodes
<1>9. CASE SafetyGate
  BY <1>9 DEF TypeOK, SafetyGate, At, Nodes
<1>10. CASE UNCHANGED vars
  BY <1>10 DEF TypeOK, vars
<1> QED
  BY <1>1, <1>2, <1>3, <1>4, <1>5, <1>6, <1>7, <1>8, <1>9, <1>10 DEF Next, GraphStep

-----------------------------------------------------------------------------
(* The working fields of a dispatch *)

\* The first ref of a first pass is called under every strategy.
LEMMA SomebodyIsCalled ==
  ASSUME TypeOK, Known(results) = {}, Pending = {}, ToRun # {}
  PROVE  \E s \in ToRun : fresh[s] # NoResult
<1> SUFFICES ASSUME \A s \in ToRun : fresh[s] = NoResult
             PROVE  FALSE
  OBVIOUS
<1> DEFINE refs == route.specialists
<1>1. refs \in Seq(Specialists) /\ IsInjective(refs)
  BY RoutesType
<1>2. ToRun = {refs[i] : i \in DOMAIN refs}
  BY DEF ToRun, ToSet
<1>3. 1 \in DOMAIN refs /\ DOMAIN refs = 1..Len(refs)
  BY <1>1, <1>2
<1>4. refs[1] \in ToRun
  BY <1>2, <1>3
<1>5. \A t \in ToRun : ~Before(t, refs[1])
  BY <1>1, <1>3 DEF Before, IsInjective
<1>6. First(refs[1])
  BY <1>5 DEF First
<1> HIDE DEF refs
<1>7. refs[1] \in Pending
  <2>1. CASE route.strategy = "single"
    BY <1>4, <1>6, <2>1 DEF Pending
  <2>2. CASE route.strategy = "sequential"
    BY <1>4, <1>5, <2>2 DEF Pending
  <2>3. CASE route.strategy \notin {"single", "sequential"}
    BY <1>4, <2>3 DEF Pending
  <2> QED
    BY <2>1, <2>2, <2>3
<1> QED
  BY <1>7

\* What a pass is to run depends on the checkpointed state alone.
LEMMA SameToRun ==
  ASSUME UNCHANGED <<route, results, attempts>>
  PROVE  UNCHANGED ToRun
BY DEF ToRun, ToRetry, Known

\* No result is lost by a merge, and what was collected is among them.
LEMMA MergeKeeps ==
  ASSUME TypeOK, NEW s \in Specialists
  PROVE  /\ results[s] # NoResult => Merged[s] # NoResult
         /\ fresh[s] # NoResult => Merged[s] = fresh[s]
         /\ fresh[s] = NoResult => Merged[s] = results[s]
BY DEF Merged

\* A result in hand is of this pass: it is dropped or merged before the next
\* one.
LEMMA StepFreshInv ==
  ASSUME TypeOK, FreshInv, [Next]_vars
  PROVE  FreshInv'
<1>1. ASSUME fresh' = NoResults
      PROVE  FreshInv'
  BY <1>1 DEF FreshInv, NoResults
<1>2. ASSUME UNCHANGED fresh, ~At("dispatch")
      PROVE  FreshInv'
  BY <1>2 DEF FreshInv
<1>3. CASE Stop \/ EndDispatch
  BY <1>1, <1>3 DEF Stop, EndDispatch
<1>4. CASE Ask \/ Resume \/ Classify \/ LookupRoute \/ Resolve \/ SafetyGate
  BY <1>2, <1>4 DEF Ask, Resume, Classify, LookupRoute, Resolve, SafetyGate, At
<1>5. ASSUME NEW s \in Specialists, Call(s)
      PROVE  FreshInv'
  <2>1. At("dispatch") /\ At("dispatch")' /\ s \in Pending
    BY <1>5 DEF Call, At, state
  <2>2. s \in ToRun
    BY <2>1 DEF Pending
  <2>3. ToRun' = ToRun
    BY <1>5, SameToRun DEF Call, state
  <2>4. \A t \in Specialists : t # s => fresh'[t] = fresh[t]
    BY <1>5 DEF Call, TypeOK
  <2> QED
    BY <2>1, <2>2, <2>3, <2>4 DEF FreshInv
<1>6. CASE UNCHANGED vars
  <2>1. ToRun' = ToRun
    BY <1>6, SameToRun DEF vars
  <2> QED
    BY <1>6, <2>1 DEF FreshInv, vars, At
<1> QED
  BY <1>3, <1>4, <1>5, <1>6 DEF Next, GraphStep

\* Attempts are counted only where results are merged.
LEMMA StepCountInv ==
  ASSUME TypeOK, FreshInv, CountInv, [Next]_vars
  PROVE  CountInv'
<1>1. CASE UNCHANGED <<results, attempts>>
  BY <1>1 DEF CountInv, Known
<1>2. CASE EndDispatch
  <2> SUFFICES ASSUME Known(Merged) = {}
               PROVE  \A s \in Specialists : Counted[s] = 0
    BY <1>2 DEF EndDispatch, CountInv
  <2>1. \A s \in Specialists : Merged[s] = NoResult
    BY DEF Known
  <2>2. Known(results) = {} /\ \A s \in Specialists : fresh[s] = NoResult
    BY <2>1, MergeKeeps DEF Known
  <2>3. ToRun = {}
    BY <1>2, <2>2, SomebodyIsCalled, ToRunType DEF EndDispatch
  <2>4. \A s \in Specialists : attempts[s] = 0
    BY <2>2 DEF CountInv
  <2> QED
    BY <2>3, <2>4 DEF Counted
<1> QED
  BY <1>1, <1>2 DEF Next, GraphStep, Ask, Resume, Stop, Classify, LookupRoute, Call,
                    Resolve, SafetyGate, state, vars

LEMMA DispatchInvariance ==
  Spec => []DispatchInv
<1>1. Init => DispatchInv
  BY InitType DEF Init, DispatchInv, FreshInv, CountInv, NoResults
<1>2. DispatchInv /\ [Next]_vars => DispatchInv'
  BY StepType, StepFreshInv, StepCountInv DEF DispatchInv
<1> QED
  BY <1>1, <1>2, PTL DEF Spec

-----------------------------------------------------------------------------
(* The theorems *)

\* The cap is hard over retries, resumes and later turns, and a retryable
\* failure is given up only with the budget spent (retry.py). With a cap of
\* zero the first pass would still be counted: it asks nobody for leave.
THEOREM BudgetIsKept ==
  ASSUME MaxAttempts # 0
  PROVE  Spec => []RetriesWithinBudget
<1>1. Init => RetriesWithinBudget
  BY RetryAssumption DEF Init, RetriesWithinBudget
<1>2. DispatchInv /\ RetriesWithinBudget /\ [Next]_vars => RetriesWithinBudget'
  <2> SUFFICES ASSUME DispatchInv, RetriesWithinBudget, [Next]_vars
               PROVE  RetriesWithinBudget'
    OBVIOUS
  <2>1. CASE /\ UNCHANGED <<results, attempts>> /\ ~EndDispatch
             /\ next' \in {"resolve", "gate"}
    <3>1. next \in {"resolve", "gate"}
      BY <2>1 DEF Next, GraphStep, Ask, Resume, Stop, Classify, LookupRoute, Call,
                  Resolve, SafetyGate, At, state, vars
    <3> QED
      BY <2>1, <3>1 DEF RetriesWithinBudget
  <2>2. CASE UNCHANGED <<results, attempts>> /\ next' \notin {"resolve", "gate"}
    BY <2>2 DEF RetriesWithinBudget
  <2>3. CASE EndDispatch
    <3>1. \A s \in Specialists : attempts'[s] <= MaxAttempts
      <4> SUFFICES ASSUME NEW s \in Specialists
                   PROVE  Counted[s] <= MaxAttempts
        BY <2>3 DEF EndDispatch
      <4>1. /\ attempts[s] \in Nat /\ attempts[s] <= MaxAttempts
            /\ Counted[s] = attempts[s] + IF s \in ToRun THEN 1 ELSE 0
        BY DEF DispatchInv, TypeOK, RetriesWithinBudget, Counted
      <4>2. CASE Known(results) = {}
        BY <4>1, <4>2, RetryAssumption DEF DispatchInv, CountInv
      <4>3. CASE Known(results) # {}
        <5>1. s \in ToRun => attempts[s] < MaxAttempts
          BY <4>3, RetriesFail DEF ToRun
        <5> QED
          BY <4>1, <5>1, RetryAssumption
      <4> QED
        BY <4>2, <4>3
    <3>2. ASSUME next' \in {"resolve", "gate"}, NEW s \in Specialists,
                 results'[s].outcome \in RetryOn
          PROVE  attempts'[s] >= MaxAttempts
      <4>1. ToRetry(results', attempts') = {}
        BY <2>3, <3>2 DEF EndDispatch
      <4>2. s \in Known(results')
        BY <3>2, RetryAssumption DEF Known, NoResult
      <4>3. attempts'[s] \in Nat
        BY <2>3, MergedType DEF EndDispatch, DispatchInv
      <4> QED
        BY <3>2, <4>1, <4>2, <4>3, RetryAssumption DEF ToRetry
    <3> QED
      BY <3>1, <3>2 DEF RetriesWithinBudget
  <2> QED
    BY <2>1, <2>2, <2>3 DEF Next, GraphStep, Ask, Resume, Stop, Classify, LookupRoute,
                            Call, Resolve, SafetyGate, state, vars
<1> QED
  BY <1>1, <1>2, DispatchInvariance, PTL DEF Spec

\* A merge never passes over a success, never lets a failure win, and names a
\* winner of the best rank (ConflictResolver.resolve), whatever the priority
\* list leaves out.
THEOREM MergeIsFair == Spec => []BestSuccessWins
<1>1. Init => BestSuccessWins
  BY DEF Init, BestSuccessWins
<1>2. BestSuccessWins /\ [Next]_vars => BestSuccessWins'
  <2> SUFFICES ASSUME BestSuccessWins, [Next]_vars, next' = "gate"
               PROVE  BestSuccessWins'
    BY DEF BestSuccessWins
  <2>1. CASE Resolve
    <3>1. PICK winner \in Winners(results) : resolved' = Verdict(winner, results)
      BY <2>1 DEF Resolve
    <3>2. resolved'.winner = winner /\ UNCHANGED results
      BY <2>1, <3>1 DEF Resolve, Verdict
    <3> QED
      BY <3>2, WinnersAreBest DEF BestSuccessWins, Survivors
  <2>2. CASE UNCHANGED <<next, results, resolved>>
    BY <2>2 DEF BestSuccessWins
  <2> QED
    BY <2>1, <2>2 DEF Next, GraphStep, Ask, Resume, Stop, Classify, LookupRoute, Call,
                      EndDispatch, SafetyGate, state, vars
<1> QED
  BY <1>1, <1>2, PTL DEF Spec

\* No retry pass, resume or later turn replaces the answer of a specialist
\* that has succeeded (dispatch_node).
THEOREM SuccessesAreKept == Spec => SuccessIsKept
<1>1. ASSUME DispatchInv, [Next]_vars, NEW s \in Specialists, results[s].outcome = "ok"
      PROVE  results'[s] = results[s]
  <2>1. CASE EndDispatch
    <3>1. s \in Known(results)
      BY <1>1 DEF Known, NoResult
    <3>2. s \notin ToRun
      BY <1>1, <3>1, RetriesFail DEF ToRun
    <3>3. fresh[s] = NoResult
      BY <1>1, <3>2 DEF DispatchInv, FreshInv
    <3> QED
      BY <1>1, <2>1, <3>3, MergeKeeps DEF DispatchInv, EndDispatch
  <2>2. CASE UNCHANGED results
    BY <2>2
  <2> QED
    BY <1>1, <2>1, <2>2 DEF Next, GraphStep, Ask, Resume, Stop, Classify, LookupRoute,
                            Call, Resolve, SafetyGate, state, vars
<1>2. DispatchInv /\ [Next]_vars =>
        [\A s \in Specialists : results[s].outcome = "ok" => results'[s] = results[s]]_results
  BY <1>1
<1> QED
  BY <1>2, DispatchInvariance, PTL DEF Spec, SuccessIsKept

-----------------------------------------------------------------------------
(* The promise of Delegation *)

\* A result in hand was asked for by this turn, a verdict waiting to be given
\* is one the resolver can come to, and nothing is left to retry by then.
InHandInv == \A s \in Specialists : fresh[s] # NoResult =>
               fresh[s].asked = turn /\ fresh[s].outcome \in Outcomes
VerdictInv == next = "gate" =>
                \E winner \in Winners(results) : resolved = Verdict(winner, results)
SpentInv == next \in {"resolve", "gate"} => ToRetry(results, attempts) = {}

PromiseInv == DispatchInv /\ InHandInv /\ VerdictInv /\ SpentInv

LEMMA InitPromiseInv == Init => InHandInv /\ VerdictInv /\ SpentInv
BY DEF Init, InHandInv, VerdictInv, SpentInv, NoResults

LEMMA StepInHandInv ==
  ASSUME TypeOK, FreshInv, InHandInv, [Next]_vars
  PROVE  InHandInv'
<1>1. CASE fresh' = NoResults
  BY <1>1 DEF InHandInv, NoResults
<1>2. CASE UNCHANGED <<fresh, turn>>
  BY <1>2 DEF InHandInv
<1>3. CASE Ask
  <2>1. \A s \in Specialists : fresh'[s] = NoResult
    BY <1>3 DEF Ask, FreshInv, At
  <2> QED
    BY <2>1 DEF InHandInv
<1>4. ASSUME NEW s \in Specialists, Call(s)
      PROVE  InHandInv'
  <2>1. PICK outcome \in Outcomes :
          fresh' = [fresh EXCEPT ![s] = [outcome |-> outcome, asked |-> turn]]
    BY <1>4 DEF Call
  <2>2. turn' = turn
    BY <1>4 DEF Call
  <2> QED
    BY <2>1, <2>2 DEF InHandInv, TypeOK
<1> QED
  BY <1>1, <1>2, <1>3, <1>4 DEF Next, GraphStep, Resume, Stop, Classify, LookupRoute,
                                EndDispatch, Resolve, SafetyGate, state, vars

LEMMA StepVerdictInv == VerdictInv /\ [Next]_vars => VerdictInv'
<1> SUFFICES ASSUME VerdictInv, [Next]_vars, next' = "gate"
             PROVE  VerdictInv'
  BY DEF VerdictInv
<1>1. CASE Resolve
  BY <1>1 DEF Resolve, VerdictInv, Winners, Survivors, Verdict, Rank
<1>2. CASE UNCHANGED <<next, results, resolved>>
  BY <1>2 DEF VerdictInv, Winners, Survivors, Verdict, Rank
<1> QED
  BY <1>1, <1>2 DEF Next, GraphStep, Ask, Resume, Stop, Classify, LookupRoute, Call,
                    EndDispatch, SafetyGate, state, vars

LEMMA StepSpentInv == SpentInv /\ [Next]_vars => SpentInv'
<1> SUFFICES ASSUME SpentInv, [Next]_vars, next' \in {"resolve", "gate"}
             PROVE  SpentInv'
  BY DEF SpentInv
<1>1. CASE EndDispatch
  BY <1>1 DEF EndDispatch, SpentInv
<1>2. CASE UNCHANGED <<results, attempts>> /\ next \in {"resolve", "gate"}
  BY <1>2 DEF SpentInv, ToRetry, Known
<1> QED
  BY <1>1, <1>2 DEF Next, GraphStep, Ask, Resume, Stop, Classify, LookupRoute, Call,
                    Resolve, SafetyGate, At, state, vars

LEMMA InitKeepsDelegation == Init => Promise!Init
BY DEF Init, Promise!Init, NoResults, NoResult, NoVerdict, Turns,
       Promise!NoResult, Promise!NoAnswer

\* The end of a dispatch is a pass over the team it was to run.
LEMMA DispatchKeepsDelegation ==
  ASSUME PromiseInv, EndDispatch
  PROVE  Promise!Pass(ToRun)
<1>1. next # "none" /\ next' # "none" /\ UNCHANGED <<turn, answers>>
  BY DEF EndDispatch, At
<1>2. ASSUME NEW s \in ToRun
      PROVE  Promise!Untried(s) \/ Promise!ToRetry(s)
  <2>1. s \in Specialists
    BY ToRunType DEF PromiseInv, DispatchInv
  <2>2. CASE Known(results) = {}
    BY <2>1, <2>2 DEF PromiseInv, DispatchInv, CountInv, Known, NoResult,
                      Promise!Untried, Promise!NoResult
  <2>3. CASE Known(results) # {}
    BY <2>3, RetriesFail DEF ToRun, Promise!ToRetry
  <2> QED BY <2>2, <2>3
<1>3. ASSUME NEW s \in Specialists
      PROVE  \/ results'[s] = results[s]
             \/ /\ s \in ToRun /\ results'[s].asked = turn
                /\ results'[s].outcome \in {"ok", "empty", "timeout", "specialist_error"}
  <2>1. results'[s] = IF fresh[s] = NoResult THEN results[s] ELSE fresh[s]
    BY DEF EndDispatch, Merged
  <2>2. fresh[s] # NoResult =>
          s \in ToRun /\ fresh[s].asked = turn /\ fresh[s].outcome \in Outcomes
    BY DEF PromiseInv, DispatchInv, FreshInv, InHandInv
  <2> QED BY <2>1, <2>2 DEF Outcomes, Failures
<1>4. attempts' = [s \in Specialists |-> attempts[s] + IF s \in ToRun THEN 1 ELSE 0]
  BY DEF EndDispatch, Counted
<1> QED
  BY <1>1, <1>2, <1>3, <1>4 DEF Promise!Pass

\* The gate answers with the verdict the resolver came to.
LEMMA GateKeepsDelegation ==
  ASSUME PromiseInv, SafetyGate
  PROVE  Promise!Next
<1>1. /\ next = "gate" /\ next' = "none" /\ UNCHANGED <<turn, results, attempts>>
      /\ answers' = [answers EXCEPT ![turn] = resolved]
  BY DEF SafetyGate, At
<1>2. PICK winner \in Winners(results) : resolved = Verdict(winner, results)
  BY <1>1 DEF PromiseInv, VerdictInv
<1>3. winner \in Specialists \cup {Nobody}
  BY DEF Winners, Survivors
<1>4. Promise!Succeeded = Survivors(results)
  BY DEF Promise!Succeeded, Survivors
<1>5. \A s \in Specialists : [t \in Specialists |-> Rank(t)][s] = Rank(s)
  OBVIOUS
<1>6. IF Promise!Succeeded = {} THEN winner = Nobody ELSE winner \in Promise!Best
  BY <1>4, <1>5, WinnersAreBest DEF Promise!Best, Survivors
<1>7. ASSUME NEW s \in Specialists, results[s].outcome \in RetryOn
      PROVE  attempts[s] >= MaxAttempts
  <2>1. ToRetry(results, attempts) = {}
    BY <1>1 DEF PromiseInv, SpentInv
  <2>2. s \in Known(results)
    BY <1>7, RetryAssumption DEF Known, NoResult
  <2>3. attempts[s] \in Nat
    BY DEF PromiseInv, DispatchInv, TypeOK
  <2> QED
    BY <1>7, <2>1, <2>2, <2>3, RetryAssumption DEF ToRetry
<1>8. Promise!Answer(winner)
  BY <1>1, <1>2, <1>6, <1>7 DEF Promise!Answer, Verdict
<1> QED
  BY <1>3, <1>8 DEF Promise!Next

LEMMA StepKeepsDelegation ==
  ASSUME PromiseInv, [Next]_vars
  PROVE  [Promise!Next]_(Promise!delegationVars)
<1> DEFINE Due == next # "none"
           Hidden == UNCHANGED <<turn, Due, results, attempts, answers>>
<1>1. CASE Ask
  BY <1>1 DEF Ask, Promise!Next, Promise!Ask
<1>2. CASE EndDispatch
  <2>1. ToRun \in SUBSET Specialists
    BY ToRunType DEF PromiseInv, DispatchInv
  <2> QED
    BY <1>2, <2>1, DispatchKeepsDelegation DEF Promise!Next
<1>3. CASE SafetyGate
  BY <1>3, GateKeepsDelegation
<1>4. CASE Hidden
  BY <1>4 DEF Promise!delegationVars
<1>5. ASSUME NEW s \in Specialists, Call(s)
      PROVE  Hidden
  BY <1>5 DEF Call, state
<1>6. CASE Resume \/ Stop \/ Classify \/ LookupRoute \/ Resolve \/ UNCHANGED vars
  <2>1. Hidden
    BY <1>6 DEF Resume, Stop, Classify, LookupRoute, Resolve, At, state, vars
  <2> QED BY <1>4, <2>1
<1> HIDE DEF Hidden
<1> QED
  BY <1>1, <1>2, <1>3, <1>4, <1>5, <1>6 DEF Next, GraphStep

\* A session of any team, table and length, stopped and resumed anywhere, keeps
\* the promise of Delegation: passes are all or nothing, run only who may be
\* tried, and each message is answered once with the best there is
\* (dispatch_node, dispatch_router, safety_gate).
THEOREM ImplementsDelegation == Spec => KeepsDelegation
<1>1. Init => PromiseInv
  <2>1. Init => DispatchInv
    BY InitType DEF Init, DispatchInv, FreshInv, CountInv, NoResults
  <2> QED BY <2>1, InitPromiseInv DEF PromiseInv
<1>2. PromiseInv /\ [Next]_vars => PromiseInv'
  BY StepType, StepFreshInv, StepCountInv, StepInHandInv, StepVerdictInv, StepSpentInv
     DEF PromiseInv, DispatchInv
<1>3. PromiseInv /\ [Next]_vars => [Promise!Next]_(Promise!delegationVars)
  BY StepKeepsDelegation
<1> QED
  BY <1>1, <1>2, <1>3, InitKeepsDelegation, PTL DEF Spec, KeepsDelegation, Promise!Spec
=============================================================================
