---------------------------- MODULE DurableTurn ----------------------------
(***************************************************************************)
(* One conversation (tenant, agent, session) of a `durability: checkpoint` *)
(* agent: the drivers that run and resume its turns, the thread lock, the  *)
(* per-super-step checkpoint, the write-ahead tool ledger and call_once.   *)
(*                                                                         *)
(* A driver is one execution of LangGraphEngine.run or of                  *)
(* LangGraphEngine.resume, in some worker process. Only resume takes the   *)
(* lock. Checkpoints and ledger live in one store (open_turn_state), so a  *)
(* crash takes the drivers and keeps both. A streamed turn enters like     *)
(* run, but asks for no flush mode; it is not a driver here.               *)
(***************************************************************************)
EXTENDS Naturals, FiniteSets

CONSTANTS
  Drivers,      \* executions that may be driving the conversation
  CallIds,      \* the ids a model gives the tool calls of one reply
  MaxStep,      \* bound: the super-steps the conversation may take
  Overlap,      \* TRUE: clients start a run or resume while a run is in flight
  LosesSession, \* TRUE: the lock's connection may die under a live driver
  Free,         \* the lock when nobody holds it
  Dead          \* the lock when its holder died without releasing it

ASSUME DriversAssumption == {Free, Dead} \cap Drivers = {} /\ Free # Dead
ASSUME MaxStepAssumption == MaxStep \in Nat
ASSUME OverlapAssumption == Overlap \in BOOLEAN
ASSUME SessionAssumption == LosesSession \in BOOLEAN

VARIABLES
  thread,   \* the newest checkpoint of the conversation
  lock,     \* who holds the advisory lock of the conversation
  ledger,   \* tool_idempotency_keys: the status of each idempotency key
  told,     \* the tool results saved with the checkpoint, per call
  fired,    \* how often the outside world felt each call (2 means "2 or more")
  pc,       \* where each driver is
  entry,    \* how each driver came in: "run" or "resume"
  view,     \* the checkpoint each driver works from, in its own memory
  phase     \* where each driver is inside call_once, per call id

durable == <<thread, ledger, told>>
vars == <<thread, lock, ledger, told, fired, pc, entry, view, phase>>

-----------------------------------------------------------------------------
(* Data *)

Steps == 0..MaxStep

\* A tool call: the super-step that executes it and the model's id for it.
Calls == [step: Steps, id: CallIds]

\* The part of the idempotency key that tells two equal writes apart.
Keys == Steps \X CallIds

\* A checkpoint: the super-steps taken, what runs next, and the tool calls
\* the last model reply asks for.
Checkpoints == [step: Steps, next: {"model", "tools", "end"}, calls: SUBSET CallIds]
NoCheckpoint == [step |-> 0, next |-> "end", calls |-> {}]

\* What a driver works from: a checkpoint, or a checkpoint it is about to
\* apply a new user message to.
Views == [step: Steps, next: {"input", "model", "tools", "end"}, calls: SUBSET CallIds]

Outcomes == {"receipt", "unknown", "error"}

\* A ledger row: absent, `pending`, or `done` with the result it stores.
Done == {"receipt", "unknown"}
Statuses == {"unseen", "pending"} \cup Done

Phases == {"none", "lookup", "intent", "fire", "settle", "verify", "saved"} \cup Outcomes

Call(d, c) == [step |-> view[d].step, id |-> c]

\* Mutated form: the key forgets the graph step.
CallSiteWithoutStep(call) == <<0, call.id>>

\* _call_site: the same when a crashed super-step is resumed, different when
\* a later turn asks for the same write.
CallSite(call) == <<call.step, call.id>>

Row(d, c) == ledger[CallSite(Call(d, c))]

Record(d, c, status) == ledger' = [ledger EXCEPT ![CallSite(Call(d, c))] = status]

NoCalls == [c \in CallIds |-> "none"]

\* The driver's own memory is gone with it.
Forget(d) ==
  /\ pc' = [pc EXCEPT ![d] = "idle"]
  /\ entry' = [entry EXCEPT ![d] = "run"]
  /\ view' = [view EXCEPT ![d] = NoCheckpoint]
  /\ phase' = [phase EXCEPT ![d] = NoCalls]
  /\ UNCHANGED <<durable, fired>>

\* Mutated form: the lock outlives a driver that ends in an exception.
LeaveKeepingLock(d) ==
  /\ UNCHANGED lock
  /\ Forget(d)

\* Leaving `async with` by any way: the lock goes with the driver.
Leave(d) ==
  /\ lock' = IF lock = d THEN Free ELSE lock
  /\ Forget(d)

-----------------------------------------------------------------------------
(* Entering: engine.run takes no lock, engine.resume takes it or is refused *)

Active(d) == pc[d] # "idle"

\* An orderly client starts nothing while a run is in flight; resumes may
\* race each other (a double click, two workers reclaiming the same thread).
Admitted(kind) ==
  \/ Overlap
  \/ \A d \in Drivers : Active(d) => kind = "resume" /\ entry[d] = "resume"

\* LangGraphEngine.run: read the newest checkpoint and set out to
\* apply the new message to it. A turn needs two super-steps at least.
Run(d) ==
  /\ pc[d] = "idle" /\ Admitted("run")
  /\ thread.step + 2 <= MaxStep
  /\ pc' = [pc EXCEPT ![d] = "driving"]
  /\ entry' = [entry EXCEPT ![d] = "run"]
  /\ view' = [view EXCEPT ![d] = [step |-> thread.step, next |-> "input", calls |-> {}]]
  /\ UNCHANGED <<durable, lock, fired, phase>>

\* LangGraphEngine.resume up to the lock.
Resume(d) ==
  /\ pc[d] = "idle" /\ Admitted("resume")
  /\ pc' = [pc EXCEPT ![d] = "locking"]
  /\ entry' = [entry EXCEPT ![d] = "resume"]
  /\ UNCHANGED <<durable, lock, fired, view, phase>>

\* Mutated form: the answer of pg_try_advisory_lock is not looked at.
TryLockIgnoringAnswer(d) ==
  /\ pc[d] = "locking"
  /\ lock' = d
  /\ pc' = [pc EXCEPT ![d] = "loading"]
  /\ UNCHANGED <<durable, fired, entry, view, phase>>

\* Mutated form: a busy lock is waited for.
TryLockPatiently(d) ==
  /\ pc[d] = "locking" /\ lock = Free
  /\ lock' = d
  /\ pc' = [pc EXCEPT ![d] = "loading"]
  /\ UNCHANGED <<durable, fired, entry, view, phase>>

\* ThreadLock.__aenter__: take the lock or raise ThreadBusyError at once.
TryLock(d) ==
  /\ pc[d] = "locking"
  /\ \/ /\ lock = Free
        /\ lock' = d
        /\ pc' = [pc EXCEPT ![d] = "loading"]
        /\ UNCHANGED <<durable, fired, entry, view, phase>>
     \/ /\ lock # Free
        /\ UNCHANGED lock
        /\ Forget(d)

\* Mutated form: saved results are not looked at, every call runs again.
StartCallsAfresh(step, calls) ==
  [c \in CallIds |-> IF c \in calls THEN "lookup" ELSE "none"]

\* The phase each call of a tool super-step starts in. A call whose result
\* is already saved is not run again.
StartCalls(step, calls) ==
  [c \in CallIds |-> IF c \notin calls THEN "none"
                     ELSE IF told[[step |-> step, id |-> c]] = "none" THEN "lookup"
                     ELSE "saved"]

\* aget_state under the lock: ResumeError when the thread has no checkpoint,
\* else continue from the newest one.
Load(d) ==
  /\ pc[d] = "loading"
  /\ \/ thread.step = 0 /\ Leave(d)
     \/ /\ thread.step > 0
        /\ pc' = [pc EXCEPT ![d] = "driving"]
        /\ view' = [view EXCEPT ![d] = thread]
        /\ phase' = [phase EXCEPT ![d] = IF thread.next = "tools"
                                         THEN StartCalls(thread.step, thread.calls)
                                         ELSE NoCalls]
        /\ UNCHANGED <<durable, lock, fired, entry>>

-----------------------------------------------------------------------------
(* Driving: one super-step at a time, its checkpoint flushed before the next *)

\* durability="sync": the checkpoint of a super-step is committed before the
\* driver goes on from it.
Checkpoint(d, next, calls) ==
  LET cp == [step |-> view[d].step + 1, next |-> next, calls |-> calls]
  IN  /\ thread' = cp
      /\ view' = [view EXCEPT ![d] = cp]
      /\ phase' = [phase EXCEPT ![d] = IF next = "tools" THEN StartCalls(cp.step, calls)
                                       ELSE NoCalls]
      /\ UNCHANGED <<lock, ledger, told, fired, pc, entry>>

\* The user's message becomes a super-step of its own.
Input(d) ==
  /\ pc[d] = "driving" /\ view[d].next = "input"
  /\ Checkpoint(d, "model", {})

\* The model answers, or asks for tool calls. A reply that asks for tools is
\* followed by two more super-steps at least.
ModelReply(d) ==
  /\ pc[d] = "driving" /\ view[d].next = "model"
  /\ \/ Checkpoint(d, "end", {})
     \/ \E calls \in SUBSET CallIds \ {{}} :
          /\ view[d].step + 3 <= MaxStep
          /\ Checkpoint(d, "tools", calls)

\* Every tool call of the super-step has its result: the model reads them.
CommitTools(d) ==
  /\ pc[d] = "driving" /\ view[d].next = "tools"
  /\ \A c \in view[d].calls : phase[d][c] = "saved"
  /\ Checkpoint(d, "model", {})

\* The answer is out and the token minted.
Finish(d) ==
  /\ pc[d] = "driving" /\ view[d].next = "end"
  /\ Leave(d)

\* The driver ends in an exception: cancelled at an await, a provider or a
\* store error. The `finally` blocks run; a call in progress is cut short.
Abort(d) ==
  /\ pc[d] \in {"loading", "driving"}
  /\ Leave(d)

-----------------------------------------------------------------------------
(* call_once, as the tool wrapper runs it for a side-effecting tool *)

InCall(d, c, p) == pc[d] = "driving" /\ phase[d][c] = p

Goto(d, c, p) == phase' = [phase EXCEPT ![d][c] = p]

Inside == UNCHANGED <<thread, lock, pc, entry, view>>

\* Mutated form: a pending row is taken for a call never made.
AfterLookupBlind(status) ==
  IF status \in Done THEN status ELSE "intent"

\* Mutated form: a pending row is replayed as if it were settled.
AfterLookupUnsettled(status) == IF status = "unseen" THEN "intent" ELSE status

\* done: replay the stored result. pending: verify. unseen: write ahead.
AfterLookup(status) ==
  IF status \in Done THEN status ELSE IF status = "pending" THEN "verify" ELSE "intent"

Lookup(d, c) ==
  /\ InCall(d, c, "lookup")
  /\ Goto(d, c, AfterLookup(Row(d, c)))
  /\ Inside /\ UNCHANGED <<ledger, told, fired>>

\* Mutated form: the effect goes ahead without a durable intent.
WriteIntentLazily(d, c) ==
  /\ InCall(d, c, "intent")
  /\ Goto(d, c, "fire")
  /\ Inside /\ UNCHANGED <<ledger, told, fired>>

\* The write-ahead: `pending` is committed before the effect may fire.
WriteIntent(d, c) ==
  /\ InCall(d, c, "intent")
  /\ Record(d, c, "pending")
  /\ Goto(d, c, "fire")
  /\ Inside /\ UNCHANGED <<told, fired>>

Felt(d, c) ==
  fired' = [fired EXCEPT ![Call(d, c)] = IF @ = 0 THEN 1 ELSE 2]

\* The tool's effect happens and the tool returns.
Fire(d, c) ==
  /\ InCall(d, c, "fire")
  /\ Felt(d, c)
  /\ Goto(d, c, "settle")
  /\ Inside /\ UNCHANGED <<ledger, told>>

\* The tool raises, before or after its effect: the row stays `pending` and
\* the wrapper turns the exception into an error message.
ToolRaises(d, c) ==
  /\ InCall(d, c, "fire")
  /\ Felt(d, c) \/ UNCHANGED fired
  /\ Goto(d, c, "error")
  /\ Inside /\ UNCHANGED <<ledger, told>>

\* The receipt is recorded `done` and returned.
Settle(d, c) ==
  /\ InCall(d, c, "settle")
  /\ Record(d, c, "receipt")
  /\ Goto(d, c, "receipt")
  /\ Inside /\ UNCHANGED <<told, fired>>

\* _ToolInvocation.verify: the effect is not repeated, the outcome unknown.
Verify(d, c) ==
  /\ InCall(d, c, "verify")
  /\ Record(d, c, "unknown")
  /\ Goto(d, c, "unknown")
  /\ Inside /\ UNCHANGED <<told, fired>>

\* The row a ledger write in phase p commits.
RowWritten(p) == [intent |-> "pending", settle |-> "receipt", verify |-> "unknown"][p]

\* A ledger operation raises, with its write committed or not: the wrapper
\* reports an error and nothing (more) fires.
LedgerRaises(d, c) ==
  /\ \/ InCall(d, c, "lookup") /\ UNCHANGED ledger
     \/ \E p \in {"intent", "settle", "verify"} :
          /\ InCall(d, c, p)
          /\ Record(d, c, RowWritten(p)) \/ UNCHANGED ledger
  /\ Goto(d, c, "error")
  /\ Inside /\ UNCHANGED <<told, fired>>

\* The finished task's result is saved at once, beside the checkpoint.
Save(d, c) ==
  /\ pc[d] = "driving" /\ phase[d][c] \in Outcomes
  /\ told' = [told EXCEPT ![Call(d, c)] = phase[d][c]]
  /\ Goto(d, c, "saved")
  /\ Inside /\ UNCHANGED <<ledger, fired>>

-----------------------------------------------------------------------------
(* Failures *)

\* The worker process is killed: no cleanup runs. Its lock session is dead,
\* which the store notices later.
Crash(d) ==
  /\ Active(d)
  /\ lock' = IF lock = d THEN Dead ELSE lock
  /\ Forget(d)

\* Postgres ends the dead session; release_dead_owner does it in memory.
Reclaim ==
  /\ lock = Dead
  /\ lock' = Free
  /\ UNCHANGED <<durable, fired, pc, entry, view, phase>>

\* The lock's own connection drops under a driver that lives on; nothing in
\* ThreadLock looks at it again before __aexit__.
SessionDrops(d) ==
  /\ LosesSession
  /\ lock = d /\ Active(d)
  /\ lock' = Free
  /\ UNCHANGED <<durable, fired, pc, entry, view, phase>>

-----------------------------------------------------------------------------
(* The specification *)

Init ==
  /\ thread = NoCheckpoint
  /\ lock = Free
  /\ ledger = [k \in Keys |-> "unseen"]
  /\ told = [k \in Calls |-> "none"]
  /\ fired = [k \in Calls |-> 0]
  /\ pc = [d \in Drivers |-> "idle"]
  /\ entry = [d \in Drivers |-> "run"]
  /\ view = [d \in Drivers |-> NoCheckpoint]
  /\ phase = [d \in Drivers |-> NoCalls]

CallStep(d, c) ==
  \/ Lookup(d, c) \/ WriteIntent(d, c) \/ Fire(d, c) \/ ToolRaises(d, c)
  \/ Settle(d, c) \/ Verify(d, c) \/ LedgerRaises(d, c) \/ Save(d, c)

\* The steps a driver takes of its own accord once it has been started.
DriverStep(d) ==
  \/ TryLock(d) \/ Load(d) \/ Input(d) \/ ModelReply(d) \/ CommitTools(d) \/ Finish(d)
  \/ \E c \in CallIds : CallStep(d, c)

Next ==
  \/ \E d \in Drivers : \/ Run(d) \/ Resume(d) \/ DriverStep(d) \/ Abort(d)
                        \/ Crash(d) \/ SessionDrops(d)
  \/ Reclaim

Spec == Init /\ [][Next]_vars

\* The event loop keeps scheduling a driver that can move, and the store
\* notices a dead session. Clients are owed nothing: Run, Resume, Abort and
\* the failures are not fair.
Fairness ==
  /\ \A d \in Drivers : WF_vars(DriverStep(d))
  /\ WF_vars(Reclaim)

FairSpec == Spec /\ Fairness

-----------------------------------------------------------------------------
(* Properties *)

\* Types: the checkpoint, ledger, results and drivers keep their shapes.
TypeOK ==
  /\ thread \in Checkpoints
  /\ lock \in Drivers \cup {Free, Dead}
  /\ ledger \in [Keys -> Statuses]
  /\ told \in [Calls -> {"none"} \cup Outcomes]
  /\ fired \in [Calls -> 0..2]
  /\ pc \in [Drivers -> {"idle", "locking", "loading", "driving"}]
  /\ entry \in [Drivers -> {"run", "resume"}]
  /\ view \in [Drivers -> Views]
  /\ phase \in [Drivers -> [CallIds -> Phases]]

\* "A replay or a second worker can never double-execute the same thread"
\* (docs/capabilities/durable-resume.md): no call is felt twice, whatever
\* crashes, aborts and races of resumes come between its steps (call_once).
AtMostOnce == \A k \in Calls : fired[k] <= 1

\* A durable run has exactly one owner (thread_lock.py): two drivers are
\* never past the lock together, a reclaimed dead owner's included.
SingleOwner ==
  \A d, e \in Drivers :
    d # e => ~(pc[d] \in {"loading", "driving"} /\ pc[e] \in {"loading", "driving"})

\* A model that is handed a receipt is handed the receipt of this very call:
\* an equal write asked for in a later turn is not answered from the ledger
\* row of an earlier one (_call_site).
HonestReceipt == \A k \in Calls : told[k] = "receipt" => fired[k] > 0

\* The intent is durable before the effect: whatever the interleaving, a
\* felt call has a ledger row, so a resume can never take it for unseen.
WriteAhead == \A k \in Calls : fired[k] > 0 => ledger[CallSite(k)] # "unseen"

\* The lock always comes free again, also when its holder is killed.
LockComesFree == \A d \in Drivers : (lock = d) ~> (lock # d /\ lock # Dead)

\* A started driver always returns, with an answer or an exception.
DriverReturns == \A d \in Drivers : Active(d) ~> ~Active(d)

\* The conversation keeps the promise EffectOnce states.
Promise == INSTANCE EffectOnce WITH landed <- fired
KeepsPromise == Promise!Spec
=============================================================================
