------------------------------ MODULE Approval ------------------------------
(***************************************************************************)
(* Human approval in one session of an agent with `confirm_writes: true`:  *)
(* a side-effecting tool pauses the run at interrupt(), the client shows   *)
(* the pending write to a human, and engine.resume feeds the decision to   *)
(* whatever the thread is paused at.                                       *)
(*                                                                         *)
(* The thread and its recorded decision are in the checkpoint, the row of  *)
(* each write in a ledger that outlives a driver as the checkpoint does;   *)
(* requests travel between the client and the service and take their time. *)
(* One driver at a time works on the thread (the thread lock, and a client *)
(* that does not start a run beside one, both DurableTurn's subject), so a *)
(* ledger operation is one step here. One write is pending at a time.      *)
(***************************************************************************)
EXTENDS Naturals

CONSTANTS
  MaxWrites,   \* bound: the writes the model asks for in the session
  MaxCrashes   \* bound: the drivers that are killed

ASSUME BoundsAssumption == MaxWrites \in Nat /\ MaxCrashes \in Nat

VARIABLES
  asked,     \* the writes the model has asked for so far
  at,        \* where the thread's newest checkpoint stands
  driving,   \* a driver (run or resume) is working on the thread
  decision,  \* the resume value recorded for each pause
  told,      \* what the model was told of each write
  call,      \* where the driver is inside the tool wrapper
  ledger,    \* tool_idempotency_keys: the row of each write
  fired,     \* how often each write took effect (2 means "2 or more")
  screens,   \* the pending writes a human has on screen, undecided
  mail,      \* decisions on their way to the service
  approved,  \* the writes a human has approved
  rejected,  \* the writes a human has rejected
  resends,   \* the client may send an answer again, or ask for more before
             \* its answer has arrived
  crashes    \* drivers killed so far

thread == <<asked, at, decision, told>>
client == <<screens, mail, approved, rejected, resends>>
writing == <<call, ledger, fired>>
vars == <<asked, at, driving, decision, told, call, ledger, fired, screens, mail,
          approved, rejected, resends, crashes>>

-----------------------------------------------------------------------------
(* Data *)

Writes == 1..MaxWrites

\* Nothing under way, the model to be called, paused at interrupt() with no
\* decision, or the tool step to be executed with one.
Places == {"rest", "model", "pause", "tool"}

Decisions == {"none", "approve", "reject"}

\* A row of the ledger: absent, `pending`, or `done` with a receipt or with
\* the "not re-run" of a write whose outcome nobody knows.
Rows == {"unseen", "pending", "receipt", "unknown"}

\* What the wrapper returns, which is all the model learns of a write.
Outcomes == {"receipt", "unknown", "rejected", "error"}

Calls == {"lookup", "fire", "settle"} \cup Outcomes

\* A resume request: the token's write and the decision.
Requests == [write: Writes, value: {"approve", "reject"}]

Stay == UNCHANGED <<client, crashes>>

\* The driver returns: what the thread is paused at reaches the client.
Return(place) ==
  /\ driving' = FALSE
  /\ screens' = IF place = "pause" THEN screens \cup {asked'} ELSE screens
  /\ UNCHANGED <<mail, approved, rejected, resends, crashes>>

-----------------------------------------------------------------------------
(* The client and the human *)

\* A careful client has nothing on its way before it asks for anything else.
Settled == resends \/ mail = {}

\* A new message of the user, RunnableAgent.run, in a conversation with
\* nothing under way. A careful client waits for what it has sent.
Message ==
  /\ ~driving /\ at = "rest"
  /\ Settled
  /\ at' = "model"
  /\ driving' = TRUE
  /\ UNCHANGED <<asked, decision, told, writing, client, crashes>>

\* The human decides on a write on screen, which closes it.
Decide(w, value) ==
  /\ w \in screens
  /\ mail' = mail \cup {[write |-> w, value |-> value]}
  /\ screens' = screens \ {w}
  /\ approved' = IF value = "approve" THEN approved \cup {w} ELSE approved
  /\ rejected' = IF value = "reject" THEN rejected \cup {w} ELSE rejected
  /\ UNCHANGED <<thread, driving, writing, resends, crashes>>

\* A request is lost, or refused because the thread is busy.
Lose(request) ==
  /\ request \in mail
  /\ mail' = mail \ {request}
  /\ UNCHANGED <<thread, driving, writing, screens, approved, rejected, resends, crashes>>

-----------------------------------------------------------------------------
(* The service: engine.resume *)

\* A pause records the decision it is given. Whether a second one, given to a
\* step that was cut short, replaces the first is LangGraph's business.
Record(value) ==
  \E kept \in {value} \cup ({decision[asked]} \ {"none"}) :
    decision' = [decision EXCEPT ![asked] = kept]

\* resume with a decision: Command(resume=value) answers the interrupt the
\* thread is paused at. The token names a thread and nothing more.
Deliver(request) ==
  /\ request \in mail /\ ~driving
  /\ mail' \in {mail \ {request}} \cup (IF resends THEN {mail} ELSE {})
  /\ \/ /\ at \in {"pause", "tool"}
        /\ Record(request.value)
        /\ at' = "tool"
        /\ driving' = TRUE
     \/ /\ at \in {"rest", "model"}
        /\ driving' = (at = "model")
        /\ UNCHANGED <<at, decision>>
  /\ UNCHANGED <<asked, told, writing, screens, approved, rejected, resends, crashes>>

\* resume without a decision: a crashed run goes on, and a run that is still
\* paused returns its pending write once more.
Continue ==
  /\ ~driving /\ Settled
  /\ \/ /\ at \in {"model", "tool"}
        /\ driving' = TRUE
        /\ UNCHANGED <<client, crashes>>
     \/ /\ at = "pause"
        /\ screens' = screens \cup {asked}
        /\ UNCHANGED <<driving, mail, approved, rejected, resends, crashes>>
  /\ UNCHANGED <<thread, writing>>

-----------------------------------------------------------------------------
(* The driver *)

\* The model asks for a write: its tool step pauses at interrupt(), and the
\* pause is answered to the client.
AskForWrite ==
  /\ driving /\ at = "model" /\ asked < MaxWrites
  /\ asked' = asked + 1
  /\ at' = "pause"
  /\ Return("pause")
  /\ UNCHANGED <<decision, told, writing>>

\* The model answers: the turn is over.
Answer ==
  /\ driving /\ at = "model"
  /\ at' = "rest"
  /\ Return("rest")
  /\ UNCHANGED <<asked, decision, told, writing>>

-----------------------------------------------------------------------------
(* The tool step: to_langchain_tool runs from its start, interrupt() returns *)
(* the decision, and an approved write goes through call_once.               *)

InCall(p) == driving /\ at = "tool" /\ call = p

Within == UNCHANGED <<thread, driving>> /\ Stay

Row(row) == ledger' = [ledger EXCEPT ![asked] = row]

\* A decision that does not approve ends the call: no key, no row, no effect.
Reject ==
  /\ InCall("lookup") /\ decision[asked] = "reject"
  /\ call' = "rejected"
  /\ Within /\ UNCHANGED <<ledger, fired>>

\* Mutated form: any decision at all lets the write through.
WriteAheadOnAnyDecision ==
  /\ InCall("lookup") /\ decision[asked] # "none"
  /\ ledger[asked] = "unseen"
  /\ Row("pending")
  /\ call' = "fire"
  /\ Within /\ UNCHANGED fired

\* An approved write without a row: its intent is recorded first.
WriteAhead ==
  /\ InCall("lookup") /\ decision[asked] = "approve"
  /\ ledger[asked] = "unseen"
  /\ Row("pending")
  /\ call' = "fire"
  /\ Within /\ UNCHANGED fired

\* A settled row is replayed.
Replay ==
  /\ InCall("lookup") /\ decision[asked] = "approve"
  /\ ledger[asked] \in {"receipt", "unknown"}
  /\ call' = ledger[asked]
  /\ Within /\ UNCHANGED <<ledger, fired>>

\* Mutated form: a pending row is taken for a write that took effect.
VerifyAsReceipt ==
  /\ InCall("lookup") /\ decision[asked] = "approve"
  /\ ledger[asked] = "pending"
  /\ Row("receipt")
  /\ call' = "receipt"
  /\ Within /\ UNCHANGED fired

\* A pending row, left by a driver that died: the write may have taken effect
\* or not, and is not repeated.
Verify ==
  /\ InCall("lookup") /\ decision[asked] = "approve"
  /\ ledger[asked] = "pending"
  /\ Row("unknown")
  /\ call' = "unknown"
  /\ Within /\ UNCHANGED fired

Felt == fired' = [fired EXCEPT ![asked] = IF @ = 0 THEN 1 ELSE 2]

\* The write takes effect and the tool returns.
Fire ==
  /\ InCall("fire")
  /\ Felt
  /\ call' = "settle"
  /\ Within /\ UNCHANGED ledger

\* The tool raises, before or after its effect; the row stays pending.
ToolRaises ==
  /\ InCall("fire")
  /\ Felt \/ UNCHANGED fired
  /\ call' = "error"
  /\ Within /\ UNCHANGED ledger

\* The receipt is recorded and returned.
Settle ==
  /\ InCall("settle")
  /\ Row("receipt")
  /\ call' = "receipt"
  /\ Within /\ UNCHANGED fired

\* The row that the next ledger write of the call puts in place of this one.
Following(row) ==
  IF call = "settle" THEN "receipt"
  ELSE [unseen |-> "pending", pending |-> "unknown",
        receipt |-> "receipt", unknown |-> "unknown"][row]

\* A ledger operation raises, its row written or not, and the wrapper returns
\* an error message.
LedgerRaises ==
  /\ InCall("settle") \/ (InCall("lookup") /\ decision[asked] = "approve")
  /\ Row(Following(ledger[asked])) \/ UNCHANGED ledger
  /\ call' = "error"
  /\ Within /\ UNCHANGED fired

\* Mutated form: a rejected write is tried again.
FinishToolAskingAgain ==
  /\ driving /\ at = "tool" /\ call \in Outcomes
  /\ told' = [told EXCEPT ![asked] = call]
  /\ at' = IF call = "rejected" THEN "tool" ELSE "model"
  /\ call' = "lookup"
  /\ UNCHANGED <<asked, decision, driving, ledger, fired>> /\ Stay

\* Mutated form: the step is committed ahead of its result.
FinishToolEarly ==
  /\ driving /\ at = "tool"
  /\ at' = "model" /\ call' = "lookup"
  /\ UNCHANGED <<asked, decision, told, driving, ledger, fired>> /\ Stay

\* The wrapper has returned: its result is saved and the tool step committed.
\* The two are one step, as a saved result is never asked for again.
FinishTool ==
  /\ driving /\ at = "tool" /\ call \in Outcomes
  /\ told' = [told EXCEPT ![asked] = call]
  /\ at' = "model" /\ call' = "lookup"
  /\ UNCHANGED <<asked, decision, driving, ledger, fired>> /\ Stay

-----------------------------------------------------------------------------
(* Crashes *)

\* The process is killed, or the driver cancelled, before its answer reaches
\* the client: a call in progress is cut short.
Crash ==
  /\ driving /\ crashes < MaxCrashes
  /\ driving' = FALSE
  /\ call' = "lookup"
  /\ crashes' = crashes + 1
  /\ UNCHANGED <<thread, ledger, fired, client>>

\* The pause is checkpointed and the process dies before it can say so.
CrashAtPause ==
  /\ driving /\ at = "model" /\ asked < MaxWrites /\ crashes < MaxCrashes
  /\ asked' = asked + 1
  /\ at' = "pause"
  /\ driving' = FALSE
  /\ crashes' = crashes + 1
  /\ UNCHANGED <<decision, told, writing, client>>

-----------------------------------------------------------------------------
(* The specification *)

Init ==
  /\ asked = 0 /\ at = "rest" /\ driving = FALSE
  /\ decision = [w \in Writes |-> "none"]
  /\ told = [w \in Writes |-> "none"]
  /\ call = "lookup"
  /\ ledger = [w \in Writes |-> "unseen"]
  /\ fired = [w \in Writes |-> 0]
  /\ screens = {} /\ mail = {}
  /\ approved = {} /\ rejected = {}
  /\ resends \in BOOLEAN
  /\ crashes = 0

ToolStep ==
  \/ Reject \/ WriteAhead \/ Replay \/ Verify \/ Fire \/ ToolRaises
  \/ Settle \/ LedgerRaises \/ FinishTool

DriverStep == AskForWrite \/ Answer \/ ToolStep

Next ==
  \/ Message
  \/ \E w \in Writes, value \in {"approve", "reject"} : Decide(w, value)
  \/ \E request \in Requests : Lose(request) \/ Deliver(request)
  \/ Continue \/ DriverStep \/ Crash \/ CrashAtPause

Spec == Init /\ [][Next]_vars

\* A driver keeps going, and a client whose run was cut short asks for it to
\* go on. Nobody has to decide, and a request may be lost.
FairSpec == Spec /\ WF_vars(DriverStep) /\ WF_vars(Continue)

-----------------------------------------------------------------------------
(* Properties *)

\* Types of the thread, the call, the client and the mail, and where the thread
\* can stand: no tool step is entered without a decision (to_langchain_tool).
TypeOK ==
  /\ asked \in 0..MaxWrites /\ at \in Places /\ driving \in BOOLEAN
  /\ decision \in [Writes -> Decisions]
  /\ told \in [Writes -> {"none"} \cup Outcomes]
  /\ call \in Calls
  /\ ledger \in [Writes -> Rows] /\ fired \in [Writes -> 0..2]
  /\ screens \subseteq Writes
  /\ mail \subseteq Requests
  /\ approved \subseteq Writes /\ rejected \subseteq Writes
  /\ resends \in BOOLEAN
  /\ crashes \in 0..MaxCrashes
  /\ at = "pause" => ~driving /\ asked > 0 /\ decision[asked] = "none"
  /\ at = "tool" => asked > 0 /\ decision[asked] # "none"
  /\ call # "lookup" => driving /\ at = "tool"

\* A write fires only when a human was shown this very write and approved it
\* (docs/capabilities/checkpointing-and-hitl.md).
OnlyApprovedFires == \A w \in Writes : fired[w] > 0 => w \in approved

\* What engine.resume does keep of it: with a client that sends an answer once
\* and then waits for it, no write fires unapproved, through lost answers,
\* crashes, and pauses shown and decided again.
CarefulOnlyApproved == ~resends => OnlyApprovedFires

\* An approval is not lost once the thread has recorded it: through crashes
\* and failures, the model is told what became of the write (its receipt, an
\* error, or that it is not re-run), unless a second answer replaces it.
ApprovalIsSettled ==
  \A w \in Writes :
    (decision[w] = "approve")
      ~> (told[w] \in {"receipt", "error", "unknown"} \/ decision[w] = "reject")

\* A run that is under way comes back to the client, also after a crash: the
\* thread ends up at rest or waits for a human.
RunReturns == (at \in {"model", "tool"}) ~> (at \in {"rest", "pause"})

\* The session keeps the promise WriteByConsent states, through lost answers,
\* crashes at every step, tools and ledgers that fail and writes shown again;
\* to a client that repeats its answers it keeps what is left of it.
Consent == INSTANCE WriteByConsent
             WITH open <- at \in {"pause", "tool"}, granted <- approved,
                  refused <- rejected, happened <- fired, word <- told,
                  cut <- crashes > 0, strict <- ~resends
KeepsConsent == Consent!Spec
=============================================================================
