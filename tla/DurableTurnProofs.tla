------------------------- MODULE DurableTurnProofs -------------------------
(***************************************************************************)
(* Theorems of DurableTurn, for any drivers, call ids and bound.           *)
(*                                                                         *)
(* The types need no assumption about clients; neither do the write-ahead  *)
(* and the honesty of receipts. One owner and at-most-once need orderly    *)
(* clients (~Overlap) and a lock session that lives as long as its holder  *)
(* (~LosesSession): MCDurableTurn_overlap shows what happens without.      *)
(***************************************************************************)
EXTENDS DurableTurn, TLAPS

\* Room for the super-steps a checkpoint still has to take below the bound.
Room(cp) ==
  /\ cp.next \in {"input", "tools"} => cp.step + 2 <= MaxStep
  /\ cp.next = "model" => cp.step + 1 <= MaxStep

\* A driver that is not driving is inside no tool call.
Quiet == \A d \in Drivers : pc[d] # "driving" => phase[d] = NoCalls

TypeInv ==
  /\ TypeOK
  /\ Room(thread)
  /\ \A d \in Drivers : Room(view[d])
  /\ Quiet

\* Records and tuples that only restate a call are well typed, and two calls
\* have the same key only if they are the same call (_call_site).
LEMMA CallSiteTyped ==
  ASSUME NEW k \in Calls
  PROVE  CallSite(k) \in Keys
BY DEF Calls, Keys, CallSite

LEMMA CallSiteInjective ==
  ASSUME NEW k \in Calls, NEW l \in Calls, CallSite(k) = CallSite(l)
  PROVE  k = l
BY DEF Calls, CallSite

LEMMA NoCallsTyped == NoCalls \in [CallIds -> Phases]
BY DEF NoCalls, Phases

\* A tool super-step starts with every call at a legal phase.
LEMMA StartCallsTyped ==
  ASSUME TypeOK, NEW step \in Steps, NEW calls \in SUBSET CallIds
  PROVE  StartCalls(step, calls) \in [CallIds -> Phases]
BY DEF StartCalls, Phases

LEMMA InitTypeInv == Init => TypeInv
<1> SUFFICES ASSUME Init PROVE TypeInv
  OBVIOUS
<1>1. NoCheckpoint \in Checkpoints /\ NoCheckpoint \in Views /\ Room(NoCheckpoint)
  BY MaxStepAssumption DEF NoCheckpoint, Checkpoints, Views, Steps, Room
<1>2. TypeOK
  BY <1>1, NoCallsTyped DEF Init, TypeOK, Keys, Calls, Statuses, Done, Outcomes
<1> QED
  BY <1>1, <1>2 DEF Init, TypeInv, Quiet

\* Forgetting a driver keeps the types, whatever becomes of the lock.
LEMMA ForgetTyped ==
  ASSUME TypeInv, NEW d \in Drivers, Forget(d), lock' \in Drivers \cup {Free, Dead}
  PROVE  TypeInv'
<1>1. NoCheckpoint \in Views /\ Room(NoCheckpoint)
  BY MaxStepAssumption DEF NoCheckpoint, Views, Steps, Room
<1>2. TypeOK'
  BY <1>1, NoCallsTyped DEF TypeInv, TypeOK, Forget, durable
<1>3. Room(thread)'
  BY DEF TypeInv, Forget, durable, Room
<1>4. \A e \in Drivers : Room(view[e])'
  BY <1>1 DEF TypeInv, TypeOK, Forget, Room
<1>5. Quiet'
  BY DEF TypeInv, TypeOK, Forget, Quiet, NoCalls
<1> QED
  BY <1>2, <1>3, <1>4, <1>5 DEF TypeInv

\* Committing a checkpoint keeps the types when there is room for it.
LEMMA CheckpointTyped ==
  ASSUME TypeInv, NEW d \in Drivers, pc[d] = "driving",
         NEW next \in {"model", "tools", "end"}, NEW calls \in SUBSET CallIds,
         Checkpoint(d, next, calls),
         view[d].step + 1 <= MaxStep,
         next = "tools" => view[d].step + 3 <= MaxStep,
         next = "model" => view[d].step + 2 <= MaxStep
  PROVE  TypeInv'
<1> DEFINE cp == [step |-> view[d].step + 1, next |-> next, calls |-> calls]
<1>1. view[d].step \in Nat
  BY MaxStepAssumption DEF TypeInv, TypeOK, Views, Steps
<1>2. cp \in Checkpoints /\ cp \in Views /\ Room(cp)
  BY <1>1, MaxStepAssumption DEF Checkpoints, Views, Steps, Room
<1>3. StartCalls(cp.step, calls) \in [CallIds -> Phases]
  <2>1. cp.step \in Steps
    BY <1>1, MaxStepAssumption DEF Steps
  <2> QED BY <2>1, StartCallsTyped DEF TypeInv
<1>4. TypeOK'
  BY <1>2, <1>3, NoCallsTyped DEF TypeInv, TypeOK, Checkpoint
<1>5. Room(thread)' /\ \A e \in Drivers : Room(view[e])'
  BY <1>2 DEF TypeInv, TypeOK, Checkpoint, Room
<1>6. Quiet'
  BY DEF TypeInv, TypeOK, Checkpoint, Quiet, NoCalls
<1> QED
  BY <1>4, <1>5, <1>6 DEF TypeInv

\* A step inside call_once that leaves thread, driver and view alone keeps
\* the types.
LEMMA InsideTyped ==
  ASSUME TypeInv, NEW d \in Drivers, NEW c \in CallIds, NEW p \in Phases,
         pc[d] = "driving", Goto(d, c, p), Inside,
         ledger' \in [Keys -> Statuses],
         told' \in [Calls -> {"none"} \cup Outcomes],
         fired' \in [Calls -> 0..2]
  PROVE  TypeInv'
<1>1. TypeOK'
  BY DEF TypeInv, TypeOK, Goto, Inside
<1>2. Room(thread)' /\ \A e \in Drivers : Room(view[e])'
  BY DEF TypeInv, Inside, Room
<1>3. Quiet'
  BY DEF TypeInv, TypeOK, Goto, Inside, Quiet, NoCalls
<1> QED
  BY <1>1, <1>2, <1>3 DEF TypeInv

LEMMA CallTyped ==
  ASSUME TypeInv, NEW d \in Drivers, NEW c \in CallIds
  PROVE  /\ Call(d, c) \in Calls
         /\ CallSite(Call(d, c)) \in Keys
         /\ Row(d, c) \in Statuses
         /\ fired[Call(d, c)] \in 0..2
         /\ phase[d][c] \in Phases
<1>1. Call(d, c) \in Calls
  BY DEF TypeInv, TypeOK, Views, Call, Calls
<1>2. CallSite(Call(d, c)) \in Keys
  BY <1>1, CallSiteTyped
<1> QED
  BY <1>1, <1>2 DEF TypeInv, TypeOK, Row

LEMMA CallStepTyped ==
  ASSUME TypeInv, NEW d \in Drivers, NEW c \in CallIds, CallStep(d, c)
  PROVE  TypeInv'
<1> USE DEF TypeInv, TypeOK, Phases, Statuses, Done, Outcomes
<1>0. /\ Call(d, c) \in Calls
      /\ CallSite(Call(d, c)) \in Keys
      /\ Row(d, c) \in Statuses
      /\ fired[Call(d, c)] \in 0..2
      /\ phase[d][c] \in Phases
  BY CallTyped
<1>1. CASE Lookup(d, c)
  <2>1. AfterLookup(Row(d, c)) \in Phases
    BY <1>0 DEF AfterLookup
  <2> QED BY <1>1, <2>1, InsideTyped DEF Lookup, InCall
<1>2. CASE WriteIntent(d, c)
  BY <1>0, <1>2, InsideTyped DEF WriteIntent, InCall, Record
<1>3. CASE Fire(d, c)
  BY <1>0, <1>3, InsideTyped DEF Fire, InCall, Felt
<1>4. CASE ToolRaises(d, c)
  <2>1. fired' \in [Calls -> 0..2]
    BY <1>0, <1>4 DEF ToolRaises, Felt
  <2> QED BY <1>0, <1>4, <2>1, InsideTyped DEF ToolRaises, InCall
<1>5. CASE Settle(d, c)
  BY <1>0, <1>5, InsideTyped DEF Settle, InCall, Record
<1>6. CASE Verify(d, c)
  BY <1>0, <1>6, InsideTyped DEF Verify, InCall, Record
<1>7. CASE LedgerRaises(d, c)
  <2>1. ledger' \in [Keys -> Statuses]
    BY <1>0, <1>7 DEF LedgerRaises, Record, RowWritten
  <2> QED BY <1>0, <1>7, <2>1, InsideTyped DEF LedgerRaises, InCall
<1>8. CASE Save(d, c)
  BY <1>0, <1>8, InsideTyped DEF Save
<1> QED
  BY <1>1, <1>2, <1>3, <1>4, <1>5, <1>6, <1>7, <1>8 DEF CallStep

LEMMA DriverStepTyped ==
  ASSUME TypeInv, NEW d \in Drivers, DriverStep(d)
  PROVE  TypeInv'
<1> USE DEF TypeInv, TypeOK
<1>0. view[d].step \in Nat /\ view[d] \in Views
  BY MaxStepAssumption DEF Views, Steps
<1>1. CASE TryLock(d)
  <2>1. CASE lock = Free
    BY <1>1, <2>1 DEF TryLock, durable, Quiet, Room
  <2>2. CASE lock # Free
    BY <1>1, <2>2, ForgetTyped DEF TryLock
  <2> QED BY <2>1, <2>2
<1>2. CASE Load(d)
  <2>1. CASE thread.step = 0
    BY <1>2, <2>1, ForgetTyped DEF Load, Leave, Checkpoints, Steps
  <2>2. CASE thread.step > 0
    <3> DEFINE ph == IF thread.next = "tools" THEN StartCalls(thread.step, thread.calls)
                     ELSE NoCalls
    <3>1. thread \in Views /\ thread.step \in Steps /\ thread.calls \in SUBSET CallIds
      BY DEF Checkpoints, Views
    <3>2. ph \in [CallIds -> Phases]
      BY <3>1, StartCallsTyped, NoCallsTyped
    <3>3. /\ pc' = [pc EXCEPT ![d] = "driving"]
          /\ view' = [view EXCEPT ![d] = thread]
          /\ phase' = [phase EXCEPT ![d] = ph]
          /\ UNCHANGED <<durable, lock, fired, entry>>
      BY <1>2, <2>2 DEF Load, Leave
    <3>4. TypeOK'
      BY <3>1, <3>2, <3>3 DEF durable
    <3>5. Room(thread)' /\ (\A e \in Drivers : Room(view[e])')
      BY <3>3 DEF durable, Room
    <3>6. Quiet'
      BY <3>3 DEF Quiet, NoCalls
    <3> QED BY <3>4, <3>5, <3>6
  <2> QED BY <1>2, <2>1, <2>2 DEF Load
<1>3. CASE Input(d)
  BY <1>0, <1>3, CheckpointTyped, MaxStepAssumption DEF Input, Room
<1>4. CASE ModelReply(d)
  <2>1. ASSUME Checkpoint(d, "end", {}) PROVE TypeInv'
    BY <1>0, <1>4, <2>1, CheckpointTyped, MaxStepAssumption DEF ModelReply, Room
  <2>2. ASSUME NEW calls \in SUBSET CallIds \ {{}}, view[d].step + 3 <= MaxStep,
               Checkpoint(d, "tools", calls)
        PROVE  TypeInv'
    BY <1>0, <1>4, <2>2, CheckpointTyped, MaxStepAssumption DEF ModelReply, Room
  <2> QED BY <1>4, <2>1, <2>2 DEF ModelReply
<1>5. CASE CommitTools(d)
  BY <1>0, <1>5, CheckpointTyped, MaxStepAssumption DEF CommitTools, Room
<1>6. CASE Finish(d)
  BY <1>6, ForgetTyped DEF Finish, Leave
<1>7. CASE \E c \in CallIds : CallStep(d, c)
  BY <1>7, CallStepTyped
<1> QED
  BY <1>1, <1>2, <1>3, <1>4, <1>5, <1>6, <1>7 DEF DriverStep

\* Every step of Next keeps the types.
LEMMA StepTypeInv == TypeInv /\ [Next]_vars => TypeInv'
<1> SUFFICES ASSUME TypeInv, [Next]_vars PROVE TypeInv'
  OBVIOUS
<1>1. ASSUME NEW d \in Drivers, Run(d) PROVE TypeInv'
  <2> DEFINE v == [step |-> thread.step, next |-> "input", calls |-> {}]
  <2>1. v \in Views /\ Room(v)
    BY <1>1 DEF Run, TypeInv, TypeOK, Checkpoints, Views, Room
  <2> QED BY <1>1, <2>1 DEF Run, TypeInv, TypeOK, durable, Quiet, Room
<1>2. ASSUME NEW d \in Drivers, Resume(d) PROVE TypeInv'
  BY <1>2 DEF Resume, TypeInv, TypeOK, durable, Quiet, Room
<1>3. ASSUME NEW d \in Drivers, DriverStep(d) PROVE TypeInv'
  BY <1>3, DriverStepTyped
<1>4. ASSUME NEW d \in Drivers, Abort(d) PROVE TypeInv'
  BY <1>4, ForgetTyped DEF Abort, Leave, TypeInv, TypeOK
<1>5. ASSUME NEW d \in Drivers, Crash(d) PROVE TypeInv'
  BY <1>5, ForgetTyped DEF Crash, TypeInv, TypeOK
<1>6. ASSUME NEW d \in Drivers, SessionDrops(d) PROVE TypeInv'
  BY <1>6 DEF SessionDrops, TypeInv, TypeOK, durable, Quiet, Room
<1>7. CASE Reclaim
  BY <1>7 DEF Reclaim, TypeInv, TypeOK, durable, Quiet, Room
<1>8. CASE UNCHANGED vars
  BY <1>8 DEF vars, TypeInv, TypeOK, Quiet, Room
<1> QED
  BY <1>1, <1>2, <1>3, <1>4, <1>5, <1>6, <1>7, <1>8 DEF Next

\* The checkpoint, the ledger, the saved results and every driver keep their
\* shapes in every behaviour, below the bound on super-steps.
THEOREM TypeCorrect == Spec => []TypeInv
<1>1. Init => TypeInv
  BY InitTypeInv
<1>2. TypeInv /\ [Next]_vars => TypeInv'
  BY StepTypeInv
<1> QED
  BY <1>1, <1>2, PTL DEF Spec

\* The shapes alone, as the runs check them.
THEOREM TypesHold == Spec => []TypeOK
BY TypeCorrect, PTL DEF TypeInv

-----------------------------------------------------------------------------
(* Steps inside call_once, and all the others *)

\* Phases a driver reaches only by a step of call_once.
Midway == {"intent", "fire", "settle", "verify"} \cup Outcomes

\* What a step outside call_once leaves alone: the ledger, the saved results,
\* the world, and every call that stays midway.
Frame ==
  /\ UNCHANGED <<ledger, told, fired>>
  /\ \A d \in Drivers, c \in CallIds :
       phase'[d][c] \in Midway =>
         /\ phase'[d][c] = phase[d][c]
         /\ pc'[d] = "driving" /\ pc[d] = "driving"
         /\ view'[d] = view[d]

\* A forgotten driver is midway in no call.
LEMMA ForgetFrame ==
  ASSUME TypeInv, NEW d \in Drivers, Forget(d)
  PROVE  Frame
BY DEF TypeInv, TypeOK, Quiet, Forget, durable, Frame, NoCalls, Midway, Outcomes

\* A tool super-step starts no call midway.
LEMMA StartCallsFrame ==
  ASSUME NEW step, NEW calls, NEW c \in CallIds
  PROVE  StartCalls(step, calls)[c] \notin Midway /\ NoCalls[c] \notin Midway
BY DEF StartCalls, NoCalls, Midway, Outcomes

LEMMA CheckpointFrame ==
  ASSUME TypeInv, NEW d \in Drivers, NEW next, NEW calls, Checkpoint(d, next, calls)
  PROVE  Frame
<1> DEFINE ph == IF next = "tools" THEN StartCalls(view[d].step + 1, calls) ELSE NoCalls
<1>1. \A c \in CallIds : ph[c] \notin Midway
  BY StartCallsFrame
<1>2. phase' = [phase EXCEPT ![d] = ph] /\ UNCHANGED <<ledger, told, fired, pc>>
      /\ \A e \in Drivers : e # d => view'[e] = view[e]
  BY DEF Checkpoint, TypeInv, TypeOK
<1>3. \A c \in CallIds : phase'[d][c] \notin Midway
  BY <1>1, <1>2 DEF TypeInv, TypeOK
<1>4. \A e \in Drivers : e # d => phase'[e] = phase[e]
  BY <1>2 DEF TypeInv, TypeOK
<1>5. \A e \in Drivers, c \in CallIds : phase[e][c] \in Midway => pc[e] = "driving"
  BY DEF TypeInv, Quiet, NoCalls, Midway, Outcomes
<1> HIDE DEF ph
<1> QED
  BY <1>2, <1>3, <1>4, <1>5 DEF Frame

LEMMA LoadFrame ==
  ASSUME TypeInv, NEW d \in Drivers, Load(d)
  PROVE  Frame
<1>1. CASE thread.step = 0
  BY <1>1, ForgetFrame DEF Load, Leave
<1>2. CASE thread.step # 0
  <2> DEFINE ph == IF thread.next = "tools" THEN StartCalls(thread.step, thread.calls)
                   ELSE NoCalls
  <2>1. \A c \in CallIds : ph[c] \notin Midway
    BY StartCallsFrame
  <2>2. /\ phase' = [phase EXCEPT ![d] = ph] /\ UNCHANGED <<ledger, told, fired>>
        /\ \A e \in Drivers : e # d => view'[e] = view[e] /\ pc'[e] = pc[e]
    BY <1>2 DEF Load, durable, TypeInv, TypeOK
  <2>3. \A c \in CallIds : phase'[d][c] \notin Midway
    BY <2>1, <2>2 DEF TypeInv, TypeOK
  <2>4. \A e \in Drivers : e # d => phase'[e] = phase[e]
    BY <2>2 DEF TypeInv, TypeOK
  <2>5. \A e \in Drivers, c \in CallIds : phase[e][c] \in Midway => pc[e] = "driving"
    BY DEF TypeInv, Quiet, NoCalls, Midway, Outcomes
  <2> HIDE DEF ph
  <2> QED
    BY <2>2, <2>3, <2>4, <2>5 DEF Frame
<1> QED
  BY <1>1, <1>2

\* Every step is a step of call_once, or leaves the calls in flight alone.
LEMMA StepKinds ==
  ASSUME TypeInv, [Next]_vars
  PROVE  Frame \/ \E d \in Drivers, c \in CallIds : CallStep(d, c)
<1>0. \A e \in Drivers, c \in CallIds : phase[e][c] \in Midway => pc[e] = "driving"
  BY DEF TypeInv, Quiet, NoCalls, Midway, Outcomes
<1>1. ASSUME NEW d \in Drivers, Run(d) \/ Resume(d) \/ SessionDrops(d) PROVE Frame
  BY <1>0, <1>1 DEF Run, Resume, SessionDrops, durable, Frame, TypeInv, TypeOK
<1>2. ASSUME NEW d \in Drivers, TryLock(d) PROVE Frame
  BY <1>0, <1>2, ForgetFrame DEF TryLock, durable, Frame, TypeInv, TypeOK
<1>3. ASSUME NEW d \in Drivers, Load(d) PROVE Frame
  BY <1>3, LoadFrame
<1>4. ASSUME NEW d \in Drivers, Input(d) \/ ModelReply(d) \/ CommitTools(d) PROVE Frame
  BY <1>4, CheckpointFrame DEF Input, ModelReply, CommitTools
<1>5. ASSUME NEW d \in Drivers, Finish(d) \/ Abort(d) \/ Crash(d) PROVE Frame
  BY <1>5, ForgetFrame DEF Finish, Abort, Leave, Crash
<1>6. CASE Reclaim \/ UNCHANGED vars
  BY <1>0, <1>6 DEF Reclaim, vars, durable, Frame
<1> QED
  BY <1>1, <1>2, <1>3, <1>4, <1>5, <1>6 DEF Next, DriverStep

\* A step of call_once touches the phase of its own call alone.
LEMMA CallFrame ==
  ASSUME TypeInv, NEW d \in Drivers, NEW c \in CallIds, CallStep(d, c)
  PROVE  /\ pc[d] = "driving"
         /\ UNCHANGED <<thread, lock, pc, entry, view>>
         /\ \A e \in Drivers, x \in CallIds :
              e # d \/ x # c => phase'[e][x] = phase[e][x]
BY DEF CallStep, Lookup, WriteIntent, Fire, ToolRaises, Settle, Verify, LedgerRaises, Save,
       InCall, Inside, Goto, TypeInv, TypeOK

-----------------------------------------------------------------------------
(* What the ledger and the model know, under any clients and failures *)

\* The inductive invariant: a call about to fire has its row, a call that
\* holds a receipt was felt, and so was one whose row or result says so.
Evidence ==
  /\ \A k \in Calls : /\ fired[k] > 0 => ledger[CallSite(k)] # "unseen"
                      /\ ledger[CallSite(k)] = "receipt" => fired[k] > 0
                      /\ told[k] = "receipt" => fired[k] > 0
  /\ \A d \in Drivers, c \in CallIds :
       /\ phase[d][c] = "fire" => Row(d, c) # "unseen"
       /\ phase[d][c] \in {"settle", "receipt"} => fired[Call(d, c)] > 0

LEMMA InitEvidence == Init => Evidence
BY CallSiteTyped DEF Init, Evidence, NoCalls

\* A step of call_once takes no evidence back.
LEMMA EvidenceGrows ==
  ASSUME TypeInv, Evidence, NEW d \in Drivers, NEW c \in CallIds, CallStep(d, c)
  PROVE  /\ \A k \in Calls : fired[k] > 0 => fired'[k] > 0
         /\ \A k \in Keys : ledger[k] # "unseen" => ledger'[k] # "unseen"
<1>0. Call(d, c) \in Calls /\ CallSite(Call(d, c)) \in Keys
  BY CallTyped
<1>1. CASE Lookup(d, c) \/ Save(d, c)
  BY <1>1 DEF Lookup, Save
<1>2. CASE WriteIntent(d, c) \/ Settle(d, c) \/ Verify(d, c) \/ LedgerRaises(d, c)
  BY <1>0, <1>2 DEF WriteIntent, Settle, Verify, LedgerRaises, Record, RowWritten,
                    TypeInv, TypeOK
<1>3. CASE Fire(d, c) \/ ToolRaises(d, c)
  BY <1>0, <1>3 DEF Fire, ToolRaises, Felt, TypeInv, TypeOK
<1> QED
  BY <1>1, <1>2, <1>3 DEF CallStep

\* The calls of a driver's view do not change under a step of call_once.
LEMMA CallKept ==
  ASSUME TypeInv, NEW d \in Drivers, NEW c \in CallIds, CallStep(d, c),
         NEW e \in Drivers, NEW x \in CallIds
  PROVE  Call(e, x)' = Call(e, x) /\ Call(e, x) \in Calls
         /\ CallSite(Call(e, x)) \in Keys
BY CallFrame, CallTyped DEF Call

LEMMA StepEvidence == TypeInv /\ Evidence /\ [Next]_vars => Evidence'
<1> SUFFICES ASSUME TypeInv, Evidence, [Next]_vars PROVE Evidence'
  OBVIOUS
<1>1. CASE Frame
  BY <1>1 DEF Evidence, Frame, Midway, Outcomes, Row, Call
<1>2. ASSUME NEW d \in Drivers, NEW c \in CallIds, CallStep(d, c) PROVE Evidence'
  <2> DEFINE k0 == Call(d, c)
  <2>0. k0 \in Calls /\ CallSite(k0) \in Keys
    BY CallTyped
  <2>1. /\ \A k \in Calls : fired[k] > 0 => fired'[k] > 0
        /\ \A k \in Keys : ledger[k] # "unseen" => ledger'[k] # "unseen"
    BY <1>2, EvidenceGrows
  <2>2. \A e \in Drivers, x \in CallIds :
          /\ Call(e, x)' = Call(e, x) /\ Call(e, x) \in Calls
          /\ CallSite(Call(e, x)) \in Keys
    BY <1>2, CallKept
  <2>3. \A e \in Drivers, x \in CallIds :
          e # d \/ x # c => phase'[e][x] = phase[e][x]
    BY <1>2, CallFrame
  <2>4. \A k \in Calls : fired'[k] > 0 => ledger'[CallSite(k)] # "unseen"
    <3>1. \A k \in Calls : fired'[k] > 0 => fired[k] > 0 \/ (k = k0 /\ phase[d][c] = "fire")
      BY <1>2, <2>0 DEF CallStep, Lookup, WriteIntent, Fire, ToolRaises, Settle, Verify,
                        LedgerRaises, Save, Felt, InCall, TypeInv, TypeOK
    <3> QED BY <2>1, <3>1, CallSiteTyped DEF Evidence, Row
  <2>5. \A k \in Calls : ledger'[CallSite(k)] = "receipt" => fired'[k] > 0
    <3>1. \A k \in Calls : ledger'[CallSite(k)] = "receipt" =>
            ledger[CallSite(k)] = "receipt" \/ (k = k0 /\ phase[d][c] = "settle")
      BY <1>2, <2>0, CallSiteTyped, CallSiteInjective
         DEF CallStep, Lookup, WriteIntent, Fire, ToolRaises, Settle, Verify, LedgerRaises,
             Save, Record, RowWritten, InCall, TypeInv, TypeOK
    <3> QED BY <2>1, <3>1 DEF Evidence
  <2>6. \A k \in Calls : told'[k] = "receipt" => fired'[k] > 0
    <3>1. \A k \in Calls : told'[k] = "receipt" =>
            told[k] = "receipt" \/ (k = k0 /\ phase[d][c] = "receipt")
      BY <1>2, <2>0 DEF CallStep, Lookup, WriteIntent, Fire, ToolRaises, Settle, Verify,
                        LedgerRaises, Save, TypeInv, TypeOK
    <3> QED BY <2>1, <3>1 DEF Evidence
  <2>7. /\ phase'[d][c] = "fire" => ledger'[CallSite(k0)] # "unseen"
        /\ phase'[d][c] \in {"settle", "receipt"} => fired'[k0] > 0
    <3>1. phase'[d][c] = "fire" => ledger'[CallSite(k0)] = "pending"
      BY <1>2, <2>0 DEF CallStep, Lookup, WriteIntent, Fire, ToolRaises, Settle, Verify,
           LedgerRaises, Save, InCall, Goto, Record, AfterLookup, Done, TypeInv, TypeOK
    <3>2. phase'[d][c] = "settle" => fired'[k0] > 0
      BY <1>2, <2>0 DEF CallStep, Lookup, WriteIntent, Fire, ToolRaises, Settle, Verify,
           LedgerRaises, Save, InCall, Goto, Felt, AfterLookup, Done, TypeInv, TypeOK
    <3>3. phase'[d][c] = "receipt" => fired[k0] > 0
      <4>1. phase'[d][c] = "receipt" => Row(d, c) = "receipt" \/ phase[d][c] = "settle"
        BY <1>2 DEF CallStep, Lookup, WriteIntent, Fire, ToolRaises, Settle, Verify,
             LedgerRaises, Save, InCall, Goto, AfterLookup, Done, TypeInv, TypeOK
      <4> QED BY <2>0, <4>1 DEF Evidence, Row
    <3> QED BY <2>0, <2>1, <3>1, <3>2, <3>3
  <2>8. ASSUME NEW e \in Drivers, NEW x \in CallIds
        PROVE  /\ phase'[e][x] = "fire" => ledger'[CallSite(Call(e, x))] # "unseen"
               /\ phase'[e][x] \in {"settle", "receipt"} => fired'[Call(e, x)] > 0
    BY <2>1, <2>2, <2>3, <2>7 DEF Evidence, Row
  <2>9. ASSUME NEW e \in Drivers, NEW x \in CallIds
        PROVE  Row(e, x)' = ledger'[CallSite(Call(e, x))]
    BY <2>2 DEF Row, CallSite
  <2>10. ASSUME NEW e \in Drivers, NEW x \in CallIds
         PROVE  /\ (phase[e][x] = "fire" => Row(e, x) # "unseen")'
                /\ (phase[e][x] \in {"settle", "receipt"} => fired[Call(e, x)] > 0)'
    BY <2>2, <2>8, <2>9
  <2> HIDE DEF k0
  <2> QED
    BY <2>4, <2>5, <2>6, <2>10 DEF Evidence, CallSite
<1> QED
  BY <1>1, <1>2, StepKinds

THEOREM EvidenceHolds == Spec => []Evidence
<1>1. Init => TypeInv /\ Evidence
  BY InitTypeInv, InitEvidence
<1>2. TypeInv /\ Evidence /\ [Next]_vars => (TypeInv /\ Evidence)'
  BY StepTypeInv, StepEvidence
<1> QED
  BY <1>1, <1>2, PTL DEF Spec

\* Whatever clients and failures do, a felt call has a ledger row: no resume
\* can take it for a call never made (call_once's write-ahead).
THEOREM IntentIsDurable == Spec => []WriteAhead
<1>1. Evidence => WriteAhead
  BY DEF Evidence, WriteAhead
<1> QED
  BY <1>1, EvidenceHolds, PTL

\* Whatever clients and failures do, a model is never handed a receipt for a
\* call the world did not feel, another turn's equal call included.
THEOREM ReceiptsAreHonest == Spec => []HonestReceipt
<1>1. Evidence => HonestReceipt
  BY DEF Evidence, HonestReceipt
<1> QED
  BY <1>1, EvidenceHolds, PTL

-----------------------------------------------------------------------------
(* One owner and at most one effect, for orderly clients and a lock session *)
(* that lives as long as its holder                                         *)

Orderly == ~Overlap /\ ~LosesSession

\* The inductive invariant behind SingleOwner: who is past the lock holds it,
\* and a run shares the conversation with nobody.
Ownership ==
  /\ \A d \in Drivers : pc[d] \in {"locking", "loading"} => entry[d] = "resume"
  /\ \A d \in Drivers :
       pc[d] \in {"loading", "driving"} /\ entry[d] = "resume" => lock = d
  /\ \A d, e \in Drivers : d # e /\ Active(d) /\ Active(e) => entry[d] = "resume"

LEMMA OwnershipMeansOne == TypeInv /\ Ownership => SingleOwner
BY DEF Ownership, SingleOwner, Active, TypeInv, TypeOK

\* A driver that is forgotten leaves the others their lock.
LEMMA ForgetOwnership ==
  ASSUME TypeInv, Ownership, NEW d \in Drivers, Forget(d),
         \A e \in Drivers \ {d} : lock = e => lock' = e
  PROVE  Ownership'
BY DEF TypeInv, TypeOK, Ownership, Forget, Active

LEMMA StepOwnership ==
  ASSUME Orderly, TypeInv, Ownership, [Next]_vars
  PROVE  Ownership'
<1> USE DEF TypeInv, TypeOK, Ownership, Active
<1>1. ASSUME NEW d \in Drivers, Run(d) PROVE Ownership'
  BY <1>1 DEF Run, Admitted, Orderly
<1>2. ASSUME NEW d \in Drivers, Resume(d) PROVE Ownership'
  BY <1>2 DEF Resume, Admitted, Orderly
<1>3. ASSUME NEW d \in Drivers, TryLock(d) PROVE Ownership'
  <2>1. CASE lock = Free
    BY <1>3, <2>1, DriversAssumption DEF TryLock
  <2>2. CASE lock # Free
    BY <1>3, <2>2, ForgetOwnership DEF TryLock
  <2> QED BY <2>1, <2>2
<1>4. ASSUME NEW d \in Drivers, Load(d) PROVE Ownership'
  <2>1. CASE thread.step = 0
    BY <1>4, <2>1, ForgetOwnership DEF Load, Leave, Checkpoints, Steps
  <2>2. CASE thread.step > 0
    BY <1>4, <2>2 DEF Load
  <2> QED BY <1>4, <2>1, <2>2 DEF Load
<1>5. ASSUME NEW d \in Drivers, Input(d) \/ ModelReply(d) \/ CommitTools(d) PROVE Ownership'
  BY <1>5 DEF Input, ModelReply, CommitTools, Checkpoint
<1>6. ASSUME NEW d \in Drivers, Finish(d) \/ Abort(d) \/ Crash(d) PROVE Ownership'
  BY <1>6, ForgetOwnership DEF Finish, Abort, Leave, Crash
<1>7. ASSUME NEW d \in Drivers, NEW c \in CallIds, CallStep(d, c) PROVE Ownership'
  BY <1>7, CallFrame
<1>8. ASSUME NEW d \in Drivers, SessionDrops(d) PROVE Ownership'
  BY <1>8 DEF SessionDrops, Orderly
<1>9. CASE Reclaim
  BY <1>9, DriversAssumption DEF Reclaim
<1>10. CASE UNCHANGED vars
  BY <1>10 DEF vars
<1> QED
  BY <1>1, <1>2, <1>3, <1>4, <1>5, <1>6, <1>7, <1>8, <1>9, <1>10 DEF Next, DriverStep

\* The inductive invariant behind AtMostOnce: from the write-ahead to the
\* settled row, the row of a call in flight is this driver's own.
Once ==
  /\ AtMostOnce
  /\ \A d \in Drivers, c \in CallIds :
       /\ phase[d][c] = "intent" => Row(d, c) = "unseen"
       /\ phase[d][c] \in {"fire", "settle", "verify"} => Row(d, c) = "pending"
       /\ phase[d][c] = "fire" => fired[Call(d, c)] = 0

LEMMA InitOnce == Init => Ownership /\ Once
BY DEF Init, Ownership, Active, Once, AtMostOnce, NoCalls

\* A step of call_once keeps the calls of its own driver apart, and no other
\* driver has a call in flight.
LEMMA StepOnce ==
  ASSUME TypeInv, Evidence, SingleOwner, Once, [Next]_vars
  PROVE  Once'
<1>1. CASE Frame
  BY <1>1 DEF Once, AtMostOnce, Frame, Midway, Outcomes, Row, Call
<1>2. ASSUME NEW d \in Drivers, NEW c \in CallIds, CallStep(d, c) PROVE Once'
  <2> DEFINE k0 == Call(d, c)
  <2>0. k0 \in Calls /\ CallSite(k0) \in Keys /\ Row(d, c) = ledger[CallSite(k0)]
        /\ fired[k0] \in 0..2 /\ Row(d, c) \in Statuses
    BY CallTyped DEF Row
  <2>1. \A k \in Calls : k # k0 => fired'[k] = fired[k]
                                  /\ ledger'[CallSite(k)] = ledger[CallSite(k)]
    BY <1>2, <2>0, CallSiteTyped, CallSiteInjective
       DEF CallStep, Lookup, WriteIntent, Fire, ToolRaises, Settle, Verify, LedgerRaises,
           Save, Felt, Record, TypeInv, TypeOK
  <2>2. fired'[k0] # fired[k0] => phase[d][c] = "fire" /\ fired'[k0] = 1
    BY <1>2, <2>0 DEF CallStep, Lookup, WriteIntent, Fire, ToolRaises, Settle, Verify,
       LedgerRaises, Save, Felt, InCall, TypeInv, TypeOK, Once
  <2>3. AtMostOnce'
    BY <2>0, <2>1, <2>2 DEF Once, AtMostOnce
  <2>4. phase'[d][c] = "intent" => ledger'[CallSite(k0)] = "unseen"
    BY <1>2, <2>0 DEF CallStep, Lookup, WriteIntent, Fire, ToolRaises, Settle, Verify,
       LedgerRaises, Save, InCall, Goto, AfterLookup, Done, Statuses, TypeInv, TypeOK
  <2>5. phase'[d][c] \in {"fire", "settle", "verify"} => ledger'[CallSite(k0)] = "pending"
    BY <1>2, <2>0 DEF CallStep, Lookup, WriteIntent, Fire, ToolRaises, Settle, Verify,
       LedgerRaises, Save, InCall, Goto, Record, AfterLookup, Done, Statuses, Once,
       TypeInv, TypeOK
  <2>6. phase'[d][c] = "fire" => fired'[k0] = 0
    <3>1. phase'[d][c] = "fire" => phase[d][c] = "intent" /\ fired' = fired
      BY <1>2, <2>0 DEF CallStep, Lookup, WriteIntent, Fire, ToolRaises, Settle, Verify,
         LedgerRaises, Save, InCall, Goto, AfterLookup, Done, TypeInv, TypeOK
    <3> QED BY <2>0, <3>1 DEF Once, Evidence
  <2>7. ASSUME NEW e \in Drivers, NEW x \in CallIds
        PROVE  /\ phase'[e][x] = "intent" => ledger'[CallSite(Call(e, x))] = "unseen"
               /\ phase'[e][x] \in {"fire", "settle", "verify"} =>
                    ledger'[CallSite(Call(e, x))] = "pending"
               /\ phase'[e][x] = "fire" => fired'[Call(e, x)] = 0
    <3>1. CASE e # d
      <4>1. pc[e] # "driving"
        BY <1>2, <3>1, CallFrame DEF SingleOwner
      <4>2. phase'[e][x] = "none"
        BY <1>2, <3>1, <4>1, CallFrame DEF TypeInv, Quiet, NoCalls
      <4> QED BY <4>2
    <3>2. CASE e = d /\ x # c
      <4>1. Call(e, x) \in Calls /\ Call(e, x) # k0 /\ phase'[e][x] = phase[e][x]
        BY <1>2, <3>2, CallFrame, CallTyped DEF Call
      <4> QED BY <2>1, <4>1 DEF Once, Row
    <3>3. CASE e = d /\ x = c
      BY <2>4, <2>5, <2>6, <3>3
    <3> QED BY <3>1, <3>2, <3>3
  <2>8. ASSUME NEW e \in Drivers, NEW x \in CallIds
        PROVE  Call(e, x)' = Call(e, x) /\ Row(e, x)' = ledger'[CallSite(Call(e, x))]
    BY <1>2, CallKept DEF Row, CallSite
  <2> HIDE DEF k0
  <2> QED
    BY <2>3, <2>7, <2>8 DEF Once
<1> QED
  BY <1>1, <1>2, StepKinds

\* The invariant of an orderly conversation.
OrderlyInv == TypeInv /\ Evidence /\ Ownership /\ Once

LEMMA InitOrderlyInv == Init => OrderlyInv
BY InitTypeInv, InitEvidence, InitOnce DEF OrderlyInv

LEMMA StepOrderlyInv ==
  ASSUME Orderly
  PROVE  OrderlyInv /\ [Next]_vars => OrderlyInv'
<1> SUFFICES ASSUME OrderlyInv, [Next]_vars PROVE OrderlyInv'
  OBVIOUS
<1>1. SingleOwner
  BY OwnershipMeansOne DEF OrderlyInv
<1> QED
  BY <1>1, StepTypeInv, StepEvidence, StepOwnership, StepOnce DEF OrderlyInv

THEOREM OrderlyInvHolds ==
  ASSUME Orderly
  PROVE  Spec => []OrderlyInv
<1>1. Init => OrderlyInv
  BY InitOrderlyInv
<1>2. OrderlyInv /\ [Next]_vars => OrderlyInv'
  BY StepOrderlyInv
<1> QED
  BY <1>1, <1>2, PTL DEF Spec

\* For any number of drivers: racing resumes, crashes and reclaimed owners
\* never put two drivers past the lock of a conversation (ThreadLock).
THEOREM OneOwner ==
  ASSUME Orderly
  PROVE  Spec => []SingleOwner
<1>1. OrderlyInv => SingleOwner
  BY OwnershipMeansOne DEF OrderlyInv
<1> QED
  BY <1>1, OrderlyInvHolds, PTL

\* For any number of drivers and calls: no side effect is felt twice, through
\* any crashes, aborts, ledger failures and racing resumes (call_once).
THEOREM NoDoubleExecution ==
  ASSUME Orderly
  PROVE  Spec => []AtMostOnce
<1>1. OrderlyInv => AtMostOnce
  BY DEF OrderlyInv, Once
<1> QED
  BY <1>1, OrderlyInvHolds, PTL

-----------------------------------------------------------------------------
(* DurableTurn implements EffectOnce, for orderly clients                    *)

\* The inductive invariant the refinement adds: while a call is in flight the
\* model has not been told of it, a resumed super-step's calls included.
Untold ==
  \A d \in Drivers, c \in CallIds :
    phase[d][c] \notin {"none", "saved"} => told[Call(d, c)] = "none"

\* A tool super-step starts only calls whose results are not saved.
LEMMA StartCallsUntold ==
  ASSUME NEW step, NEW calls, NEW c \in CallIds,
         StartCalls(step, calls)[c] \notin {"none", "saved"}
  PROVE  told[[step |-> step, id |-> c]] = "none"
BY DEF StartCalls

LEMMA ForgetUntold ==
  ASSUME TypeInv, Untold, NEW d \in Drivers, Forget(d)
  PROVE  Untold'
BY DEF TypeInv, TypeOK, Untold, Forget, durable, NoCalls, Call

\* A driver that sets out from a checkpoint, with the calls this one asks for.
LEMMA EnteringUntold ==
  ASSUME TypeInv, Untold, NEW d \in Drivers, NEW cp \in Views, NEW tools \in BOOLEAN,
         view' = [view EXCEPT ![d] = cp],
         phase' = [phase EXCEPT ![d] = IF tools THEN StartCalls(cp.step, cp.calls)
                                       ELSE NoCalls],
         UNCHANGED told
  PROVE  Untold'
<1> DEFINE ph == IF tools THEN StartCalls(cp.step, cp.calls) ELSE NoCalls
<1>1. \A c \in CallIds :
        ph[c] \notin {"none", "saved"} => told[[step |-> cp.step, id |-> c]] = "none"
  BY StartCallsUntold DEF NoCalls
<1>2. /\ phase'[d] = ph /\ view'[d] = cp
      /\ \A e \in Drivers : e # d => phase'[e] = phase[e] /\ view'[e] = view[e]
  BY DEF TypeInv, TypeOK
<1> HIDE DEF ph
<1>3. ASSUME NEW e \in Drivers, NEW c \in CallIds, phase'[e][c] \notin {"none", "saved"}
      PROVE  told'[[step |-> view'[e].step, id |-> c]] = "none"
  BY <1>1, <1>2, <1>3 DEF Untold, Call
<1> QED
  BY <1>3 DEF Untold, Call

LEMMA CheckpointUntold ==
  ASSUME TypeInv, Untold, NEW d \in Drivers, NEW next \in {"model", "tools", "end"},
         NEW calls \in SUBSET CallIds, view[d].step + 1 <= MaxStep,
         Checkpoint(d, next, calls)
  PROVE  Untold'
<1> DEFINE cp == [step |-> view[d].step + 1, next |-> next, calls |-> calls]
<1>1. cp \in Views
  BY MaxStepAssumption DEF TypeInv, TypeOK, Views, Steps
<1>2. /\ view' = [view EXCEPT ![d] = cp] /\ UNCHANGED told
      /\ phase' = [phase EXCEPT ![d] = IF next = "tools" THEN StartCalls(cp.step, cp.calls)
                                       ELSE NoCalls]
  BY DEF Checkpoint
<1>3. (next = "tools") \in BOOLEAN
  OBVIOUS
<1> HIDE DEF cp
<1> QED
  BY <1>1, <1>2, <1>3, EnteringUntold

LEMMA LoadUntold ==
  ASSUME TypeInv, Untold, NEW d \in Drivers, Load(d)
  PROVE  Untold'
<1>1. CASE thread.step = 0
  BY <1>1, ForgetUntold DEF Load, Leave
<1>2. CASE thread.step # 0
  <2>1. thread \in Views /\ (thread.next = "tools") \in BOOLEAN
    BY DEF TypeInv, TypeOK, Checkpoints, Views
  <2>2. /\ view' = [view EXCEPT ![d] = thread] /\ UNCHANGED told
        /\ phase' = [phase EXCEPT ![d] =
                        IF thread.next = "tools" THEN StartCalls(thread.step, thread.calls)
                        ELSE NoCalls]
    BY <1>2 DEF Load, durable
  <2> QED BY <2>1, <2>2, EnteringUntold
<1> QED
  BY <1>1, <1>2

\* Only a call that is in flight goes on, and only its own result is saved.
LEMMA CallStepUntold ==
  ASSUME TypeInv, SingleOwner, Untold, NEW d \in Drivers, NEW c \in CallIds, CallStep(d, c)
  PROVE  Untold'
<1>1. phase[d][c] \notin {"none", "saved"}
  BY DEF CallStep, Lookup, WriteIntent, Fire, ToolRaises, Settle, Verify, LedgerRaises, Save,
         InCall, Outcomes
<1>2. \/ UNCHANGED told
      \/ told' = [told EXCEPT ![Call(d, c)] = phase[d][c]] /\ phase'[d][c] = "saved"
  BY DEF CallStep, Lookup, WriteIntent, Fire, ToolRaises, Settle, Verify, LedgerRaises, Save,
         Goto, TypeInv, TypeOK
<1>3. ASSUME NEW e \in Drivers, NEW x \in CallIds, phase'[e][x] \notin {"none", "saved"}
      PROVE  told'[Call(e, x)] = "none"
  <2>1. CASE e # d
    <3>1. pc[e] # "driving"
      BY <2>1, CallFrame DEF SingleOwner
    <3>2. phase'[e][x] = "none"
      BY <2>1, <3>1, CallFrame DEF TypeInv, Quiet, NoCalls
    <3> QED BY <1>3, <3>2
  <2>2. CASE e = d /\ x # c
    <3>1. /\ Call(e, x) # Call(d, c) /\ Call(e, x) \in Calls
          /\ phase'[e][x] = phase[e][x]
      BY <2>2, CallFrame, CallTyped DEF Call
    <3> QED BY <1>2, <1>3, <3>1 DEF Untold, TypeInv, TypeOK
  <2>3. CASE e = d /\ x = c
    BY <1>1, <1>2, <1>3, <2>3 DEF Untold
  <2> QED BY <2>1, <2>2, <2>3
<1>4. ASSUME NEW e \in Drivers, NEW x \in CallIds PROVE Call(e, x)' = Call(e, x)
  BY CallKept
<1> QED
  BY <1>3, <1>4 DEF Untold

LEMMA StepUntold ==
  ASSUME TypeInv, SingleOwner, Untold, [Next]_vars
  PROVE  Untold'
<1>1. ASSUME NEW d \in Drivers, Run(d) PROVE Untold'
  <2>1. phase[d] = NoCalls
    BY <1>1 DEF Run, TypeInv, Quiet
  <2> QED BY <1>1, <2>1 DEF Run, durable, Untold, Call, NoCalls, TypeInv, TypeOK
<1>2. ASSUME NEW d \in Drivers, Resume(d) \/ SessionDrops(d) PROVE Untold'
  BY <1>2 DEF Resume, SessionDrops, durable, Untold, Call
<1>3. ASSUME NEW d \in Drivers, TryLock(d) PROVE Untold'
  BY <1>3, ForgetUntold DEF TryLock, durable, Untold, Call
<1>4. ASSUME NEW d \in Drivers, Load(d) PROVE Untold'
  BY <1>4, LoadUntold
<1>5. ASSUME NEW d \in Drivers, Input(d) \/ ModelReply(d) \/ CommitTools(d) PROVE Untold'
  <2>1. view[d].step \in Nat /\ (view[d].step + 1 <= MaxStep \/ view[d].next = "end")
    BY MaxStepAssumption DEF TypeInv, TypeOK, Views, Steps, Room
  <2>2. view[d].step + 1 <= MaxStep
    BY <1>5, <2>1 DEF Input, ModelReply, CommitTools
  <2> QED BY <1>5, <2>2, CheckpointUntold DEF Input, ModelReply, CommitTools
<1>6. ASSUME NEW d \in Drivers, Finish(d) \/ Abort(d) \/ Crash(d) PROVE Untold'
  BY <1>6, ForgetUntold DEF Finish, Abort, Leave, Crash
<1>7. ASSUME NEW d \in Drivers, NEW c \in CallIds, CallStep(d, c) PROVE Untold'
  BY <1>7, CallStepUntold
<1>8. CASE Reclaim \/ UNCHANGED vars
  BY <1>8 DEF Reclaim, vars, durable, Untold, Call
<1> QED
  BY <1>1, <1>2, <1>3, <1>4, <1>5, <1>6, <1>7, <1>8 DEF Next, DriverStep

LEMMA InitUntold == Init => Untold
BY DEF Init, Untold, NoCalls

\* The initial states of a conversation are initial states of the promise.
LEMMA InitKeepsPromise == Init => Promise!Init
BY DEF Init, Promise!Init

\* Every step of a conversation is one effect, one result told, or no step of
\* the promise at all: what call_once does between them is its own business.
LEMMA StepKeepsPromise ==
  ASSUME OrderlyInv, Untold, [Next]_vars
  PROVE  [Promise!Next]_<<fired, told>>
<1>1. CASE Frame
  BY <1>1 DEF Frame
<1>2. ASSUME NEW d \in Drivers, NEW c \in CallIds, CallStep(d, c)
      PROVE  [Promise!Next]_<<fired, told>>
  <2> DEFINE k == Call(d, c)
  <2>0. k \in Calls /\ fired[k] \in 0..2 /\ fired[k] <= 1
    BY CallTyped DEF OrderlyInv, Once, AtMostOnce
  <2>1. CASE Lookup(d, c) \/ WriteIntent(d, c) \/ Settle(d, c) \/ Verify(d, c)
             \/ LedgerRaises(d, c)
    BY <2>1 DEF Lookup, WriteIntent, Settle, Verify, LedgerRaises
  <2>2. CASE Fire(d, c) \/ ToolRaises(d, c)
    <3>1. told[k] = "none" /\ fired[k] = 0 /\ UNCHANGED told
      BY <2>2 DEF Fire, ToolRaises, InCall, OrderlyInv, Once, Untold
    <3>2. fired' = [fired EXCEPT ![k] = 1] \/ UNCHANGED fired
      BY <2>2, <3>1 DEF Fire, ToolRaises, Felt
    <3> QED BY <2>0, <3>1, <3>2 DEF Promise!Next, Promise!Land
  <2>3. CASE Save(d, c)
    <3>1. /\ phase[d][c] \in Outcomes /\ UNCHANGED fired
          /\ told' = [told EXCEPT ![k] = phase[d][c]]
      BY <2>3 DEF Save
    <3>2. told[k] = "none"
      BY <3>1 DEF Untold, Outcomes
    <3>3. phase[d][c] = "receipt" => fired[k] = 1
      BY <2>0 DEF OrderlyInv, Evidence
    <3>4. Promise!Tell(k, phase[d][c])
      BY <3>1, <3>2, <3>3 DEF Promise!Tell
    <3> QED BY <2>0, <3>1, <3>4 DEF Promise!Next, Promise!Outcomes, Outcomes
  <2> QED BY <1>2, <2>1, <2>2, <2>3 DEF CallStep
<1> QED
  BY <1>1, <1>2, StepKinds DEF OrderlyInv

\* A durable conversation of any size implements what EffectOnce promises of a
\* side-effecting call: one effect at most, its outcome told once, a receipt
\* only for an effect, and no effect after the model was told.
THEOREM ImplementsEffectOnce ==
  ASSUME Orderly
  PROVE  Spec => KeepsPromise
<1>1. Init => OrderlyInv /\ Untold
  BY InitOrderlyInv, InitUntold
<1>2. OrderlyInv /\ Untold /\ [Next]_vars => (OrderlyInv /\ Untold)'
  <2>1. OrderlyInv => TypeInv /\ SingleOwner
    BY OwnershipMeansOne DEF OrderlyInv
  <2> QED BY <2>1, StepOrderlyInv, StepUntold
<1>3. OrderlyInv /\ Untold /\ [Next]_vars => [Promise!Next]_<<fired, told>>
  BY StepKeepsPromise
<1> QED
  BY <1>1, <1>2, <1>3, InitKeepsPromise, PTL DEF Spec, KeepsPromise, Promise!Spec
=============================================================================
