----------------------------- MODULE TraceTree ------------------------------
(***************************************************************************)
(* The trace of one turn: LangChain tells a callback of every run inside   *)
(* the graph (nodes, model calls, tools) by unrelated start, end and error *)
(* events, concurrent ones interleaved, and the callback rebuilds the tree *)
(* of spans from run_id and parent_run_id.  An agent dispatched by a node  *)
(* runs a graph of its own, inside an agent span of its own, and is told   *)
(* of by the same callback.                                                *)
(***************************************************************************)
EXTENDS Naturals, FiniteSets

CONSTANTS
  MaxWork,    \* bound: the runs of a turn
  MaxFaults   \* bound: the spans the backend fails to open

ASSUME TraceAssumption == MaxWork \in Nat /\ MaxFaults \in Nat

VARIABLES
  work,      \* run -> its kind, the run it is under, all it is inside, how it goes
  spanOf,    \* _spans: run -> the handle the observer gave for it
  modelOf,   \* _model_ids: run -> the run whose model was asked
  recorded,  \* the trace: run -> its span
  faults     \* spans that could not be opened

traceVars == <<work, spanOf, modelOf, recorded, faults>>

Work == 1..MaxWork
None == 0
Unstarted == [kind |-> "none", under |-> None, inside |-> {}, how |-> "unborn"]
NoSpan == [kept |-> FALSE, under |-> None, ended |-> FALSE, error |-> FALSE, usage |-> None]

\* Which runs start inside which: a node holds the model call itself or a
\* sequence around it; pure-function nodes (UNTRACED_NODES) hold nothing.
MayHold ==
  {<<"graph", "node">>, <<"graph", "helper">>, <<"node", "sequence">>, <<"node", "model">>,
   <<"node", "tool">>, <<"node", "graph">>, <<"sequence", "model">>}

OnGoing(w) == work[w].how = "running"

-----------------------------------------------------------------------------
(* LangChain's side: runs start under running runs and end inside out *)

Starts(w, kind, p) ==
  /\ w = Cardinality({v \in Work : work[v].how # "unborn"}) + 1
  /\ IF p = None THEN kind = "graph" /\ w = 1
     ELSE OnGoing(p) /\ <<work[p].kind, kind>> \in MayHold
  /\ work' = [work EXCEPT ![w] =
                [kind |-> kind, under |-> p, how |-> "running",
                 inside |-> IF p = None THEN {} ELSE work[p].inside \cup {p}]]

Ends(w, kinds, how) ==
  /\ OnGoing(w) /\ work[w].kind \in kinds
  /\ \A v \in Work : w \in work[v].inside => ~OnGoing(v)
  /\ work' = [work EXCEPT ![w].how = how]

-----------------------------------------------------------------------------
(* The observer *)

\* The agent span that is current where a run starts: the innermost one that
\* could be opened.
Ambient(around) ==
  LET agents == {g \in around : work[g].kind = "graph" /\ recorded[g].kept}
  IN  IF agents = {} THEN None ELSE CHOOSE g \in agents : \A h \in agents : h <= g

KeepSpan(w, under) ==
  /\ recorded' = [recorded EXCEPT ![w] = [NoSpan EXCEPT !.kept = TRUE, !.under = under]]
  /\ UNCHANGED faults

\* The backend fails: the caller is given a handle that does nothing.
LoseSpan ==
  /\ faults < MaxFaults /\ faults' = faults + 1
  /\ UNCHANGED recorded

\* Observer.span: the agent span is entered as the current one, around the
\* graph of a turn or of a dispatched member.
AgentStarts(w, p) ==
  /\ Starts(w, "graph", p)
  /\ \/ KeepSpan(w, Ambient(IF p = None THEN {} ELSE work[p].inside \cup {p}))
     \/ LoseSpan
  /\ UNCHANGED <<spanOf, modelOf>>

AgentEnds(w, how) ==
  /\ Ends(w, {"graph"}, how)
  /\ recorded' = [recorded EXCEPT ![w].ended = recorded[w].kept,
                                  ![w].error = recorded[w].kept /\ how = "raised"]
  /\ UNCHANGED <<spanOf, modelOf, faults>>

-----------------------------------------------------------------------------
(* The callback *)

\* _open: under the parent run's span, or under the ambient one when that run
\* is no node, model or tool, or has a handle that does nothing.
OpenSpan(w, p) ==
  \/ /\ KeepSpan(w, IF spanOf[p] = "live" THEN p ELSE Ambient(work[p].inside \cup {p}))
     /\ spanOf' = [spanOf EXCEPT ![w] = "live"]
  \/ /\ LoseSpan
     /\ spanOf' = [spanOf EXCEPT ![w] = "no_op"]

\* _close: the span is ended and forgotten.
CloseSpan(w, span) ==
  /\ recorded' = [recorded EXCEPT ![w] = [span EXCEPT !.ended = span.kept]]
  /\ spanOf' = [spanOf EXCEPT ![w] = "none"]
  /\ modelOf' = [modelOf EXCEPT ![w] = None]
  /\ UNCHANGED faults

\* Mutated form: the span of a failed run is marked, and left open.
ErrorCloseOnlyMarks(w) ==
  /\ recorded' = [recorded EXCEPT ![w].error = recorded[w].kept]
  /\ UNCHANGED <<spanOf, modelOf, faults>>

\* _error_close
ErrorClose(w) == CloseSpan(w, [recorded[w] EXCEPT !.error = recorded[w].kept])

\* on_chain_start: of the chains only a node that may do work has a span.
ChainStarts(w, p, kind) ==
  /\ kind \in {"node", "helper", "sequence"}
  /\ Starts(w, kind, p)
  /\ IF kind = "node" THEN OpenSpan(w, p) ELSE UNCHANGED <<spanOf, recorded, faults>>
  /\ UNCHANGED modelOf

\* on_chat_model_start, on_llm_start
ModelStarts(w, p) ==
  /\ Starts(w, "model", p)
  /\ OpenSpan(w, p)
  /\ modelOf' = [modelOf EXCEPT ![w] = w]

\* on_tool_start
ToolStarts(w, p) ==
  /\ Starts(w, "tool", p)
  /\ OpenSpan(w, p)
  /\ UNCHANGED modelOf

\* on_chain_end: nothing to close for a chain that has no span.
ChainEnds(w) ==
  /\ Ends(w, {"node", "helper", "sequence"}, "returned")
  /\ IF spanOf[w] # "none" THEN CloseSpan(w, recorded[w])
     ELSE UNCHANGED <<spanOf, modelOf, recorded, faults>>

\* _usage_from_result: tokens and cost of a call, priced at the model asked.
UsageFromResult(w) == IF recorded[w].kept THEN modelOf[w] ELSE None

\* on_llm_end: the usage of this call lands on its span.
ModelEnds(w) ==
  /\ Ends(w, {"model"}, "returned")
  /\ CloseSpan(w, [recorded[w] EXCEPT !.usage = UsageFromResult(w)])

\* on_tool_end
ToolEnds(w) == Ends(w, {"tool"}, "returned") /\ CloseSpan(w, recorded[w])

\* on_llm_error, on_tool_error, on_chain_error
WorkRaises(w) ==
  /\ Ends(w, {"node", "helper", "sequence", "model", "tool"}, "raised")
  /\ IF spanOf[w] # "none" THEN ErrorClose(w)
     ELSE UNCHANGED <<spanOf, modelOf, recorded, faults>>

-----------------------------------------------------------------------------
(* The specification *)

TraceInit ==
  /\ work = [w \in Work |-> Unstarted]
  /\ spanOf = [w \in Work |-> "none"]
  /\ modelOf = [w \in Work |-> None]
  /\ recorded = [w \in Work |-> NoSpan]
  /\ faults = 0

TraceNext ==
  \E w \in Work :
    \/ \E p \in Work \cup {None} : AgentStarts(w, p)
    \/ \E p \in Work, kind \in {"node", "helper", "sequence"} : ChainStarts(w, p, kind)
    \/ \E p \in Work : ModelStarts(w, p) \/ ToolStarts(w, p)
    \/ ChainEnds(w) \/ ModelEnds(w) \/ ToolEnds(w) \/ WorkRaises(w)
    \/ \E how \in {"returned", "raised"} : AgentEnds(w, how)

TraceSpec == TraceInit /\ [][TraceNext]_traceVars

-----------------------------------------------------------------------------
(* Properties *)

\* Types of the runs, the callback's maps and the trace.
TraceTypeOK ==
  /\ work \in [Work -> [kind : {"none", "graph", "node", "helper", "sequence", "model", "tool"},
                        under : Work \cup {None}, inside : SUBSET Work,
                        how : {"unborn", "running", "returned", "raised"}]]
  /\ spanOf \in [Work -> {"none", "live", "no_op"}]
  /\ modelOf \in [Work -> Work \cup {None}]
  /\ recorded \in [Work -> [kept : BOOLEAN, under : Work \cup {None}, ended : BOOLEAN,
                            error : BOOLEAN, usage : Work \cup {None}]]
  /\ faults \in 0..MaxFaults

\* What the trace says is what happened, however the events of concurrent
\* nodes, calls and members interleave (ObservabilityCallback): a span is open
\* exactly while its run goes on and errored exactly if that raised; a model
\* span carries the usage of its own call and of no other; and a span hangs
\* inside a run around its own, and never below one that is over.
TraceMirrorsTheTurn ==
  \A w \in Work : recorded[w].kept =>
    LET span == recorded[w]
        up == span.under
    IN  /\ span.ended <=> ~OnGoing(w)
        /\ span.error <=> work[w].how = "raised"
        /\ span.usage # None <=> work[w].kind = "model" /\ work[w].how = "returned"
        /\ span.usage \in {None, w}
        /\ up # None => /\ up \in work[w].inside /\ recorded[up].kept
                        /\ recorded[up].ended => span.ended
=============================================================================
