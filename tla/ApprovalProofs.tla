-------------------------- MODULE ApprovalProofs --------------------------
(***************************************************************************)
(* Theorems of Approval, for any number of writes and crashes: the types,  *)
(* that a client which sends an answer once and waits for it never lets an *)
(* unapproved write through, that call_once lets no write through twice,   *)
(* and that the session implements WriteByConsent.                         *)
(***************************************************************************)
EXTENDS Approval, TLAPS

\* Nobody has decided on a write that was not asked for.
Undecided == \A w \in Writes : w > asked => decision[w] = "none"

TypeInv == TypeOK /\ Undecided

\* An answer on its way is the human's answer to the write the thread is
\* paused at, and nothing is shown to be decided beside it.
MailInv ==
  /\ \A q \in mail :
       /\ at = "pause" /\ q.write = asked
       /\ q.value = "approve" => q.write \in approved
       /\ mail = {q}
  /\ screens # {} => mail = {} /\ at = "pause" /\ screens = {asked}

\* A recorded approval is one a human has given.
RecordInv == \A w \in Writes : decision[w] = "approve" => w \in approved

\* The inductive invariant of a careful client.
CarefulInv == ~resends => MailInv /\ RecordInv /\ OnlyApprovedFires

\* What a row of the ledger says of its write: nothing happens without a row,
\* a receipt stands for one effect, and only a crash leaves one in doubt. A
\* careful client's approval is still there when its write has a row.
LedgerInv ==
  /\ at = "pause" => ledger[asked] = "unseen"
  /\ \A w \in Writes :
       /\ w > asked => ledger[w] = "unseen"
       /\ fired[w] <= 1
       /\ ledger[w] = "unseen" => fired[w] = 0
       /\ ledger[w] = "receipt" => fired[w] = 1
       /\ ledger[w] = "unknown" => crashes > 0
       /\ ~resends => (ledger[w] # "unseen" => decision[w] = "approve")

\* Where a driver inside the wrapper finds the write it was asked for.
CallInv ==
  at = "tool" =>
    /\ call = "lookup" /\ ledger[asked] = "pending" => crashes > 0
    /\ call = "fire" => ledger[asked] = "pending" /\ fired[asked] = 0
    /\ call = "settle" => ledger[asked] = "pending" /\ fired[asked] = 1
    /\ call = "receipt" => fired[asked] = 1
    /\ call = "unknown" => crashes > 0
    /\ call = "rejected" => decision[asked] = "reject"
    /\ call \notin {"lookup", "rejected"} => decision[asked] = "approve"

WriteInv == LedgerInv /\ CallInv

-----------------------------------------------------------------------------
(* Types *)

LEMMA InitTyped == Init => TypeInv
<1> SUFFICES ASSUME Init PROVE TypeInv
  OBVIOUS
<1>1. decision \in [Writes -> Decisions] /\ Undecided
  BY DEF Init, Decisions, Undecided
<1>2. asked \in 0..MaxWrites /\ crashes \in 0..MaxCrashes
  BY BoundsAssumption DEF Init
<1>3. /\ told \in [Writes -> {"none"} \cup Outcomes] /\ ledger \in [Writes -> Rows]
      /\ fired \in [Writes -> 0..2] /\ call \in Calls
  BY DEF Init, Outcomes, Rows, Calls
<1> QED
  BY <1>1, <1>2, <1>3 DEF Init, TypeInv, TypeOK, Places

LEMMA DecideTyped ==
  ASSUME TypeInv, NEW w \in Writes, NEW value \in {"approve", "reject"}, Decide(w, value)
  PROVE  TypeInv'
<1>1. [write |-> w, value |-> value] \in Requests
  BY DEF Requests
<1> QED
  BY <1>1 DEF TypeInv, TypeOK, Undecided, Decide, thread, writing

LEMMA DeliverTyped ==
  ASSUME TypeInv, NEW request \in Requests, Deliver(request)
  PROVE  TypeInv'
<1>1. mail' \subseteq Requests
  BY DEF Deliver, TypeInv, TypeOK
<1>2. CASE at \in {"pause", "tool"}
  <2>1. asked \in Writes
    BY <1>2, BoundsAssumption DEF TypeInv, TypeOK, Writes
  <2>2. PICK kept \in {request.value} \cup ({decision[asked]} \ {"none"}) :
          decision' = [decision EXCEPT ![asked] = kept]
    BY <1>2 DEF Deliver, Record
  <2>3. kept \in {"approve", "reject"}
    BY <2>1, <2>2 DEF Requests, TypeInv, TypeOK, Decisions
  <2>4. at' = "tool" /\ driving' = TRUE
    BY <1>2 DEF Deliver
  <2>5. decision' \in [Writes -> Decisions] /\ decision'[asked] # "none"
    BY <2>1, <2>2, <2>3 DEF TypeInv, TypeOK, Decisions
  <2>6. Undecided'
    BY <2>1, <2>2 DEF TypeInv, TypeOK, Undecided, Deliver, Writes
  <2> QED
    BY <1>1, <1>2, <2>4, <2>5, <2>6 DEF TypeInv, TypeOK, Deliver, Places, writing
<1>3. CASE at \in {"rest", "model"}
  BY <1>1, <1>3 DEF TypeInv, TypeOK, Undecided, Deliver, writing
<1> QED
  BY <1>2, <1>3 DEF Deliver

LEMMA PauseTyped ==
  ASSUME TypeInv, AskForWrite \/ CrashAtPause
  PROVE  TypeInv'
<1>1. asked' = asked + 1 /\ asked < MaxWrites /\ at' = "pause" /\ driving' = FALSE
  BY DEF AskForWrite, CrashAtPause, Return
<1>2. asked' \in Writes /\ asked' \in 0..MaxWrites /\ asked' > 0 /\ asked' > asked
  BY <1>1, BoundsAssumption DEF TypeInv, TypeOK, Writes
<1>3. screens' \subseteq Writes /\ crashes' \in 0..MaxCrashes
  <2>1. CASE AskForWrite
    BY <1>2, <2>1 DEF TypeInv, TypeOK, AskForWrite, Return
  <2>2. CASE CrashAtPause
    BY <2>2, BoundsAssumption DEF TypeInv, TypeOK, CrashAtPause, client
  <2> QED
    BY <2>1, <2>2
<1>4. decision' = decision /\ UNCHANGED <<told, call, ledger, fired>>
  BY DEF AskForWrite, CrashAtPause, writing
<1>5. call' = "lookup"
  BY <1>4 DEF AskForWrite, CrashAtPause, TypeInv, TypeOK
<1>6. decision'[asked'] = "none" /\ Undecided'
  BY <1>1, <1>2, <1>4, BoundsAssumption DEF TypeInv, TypeOK, Undecided, Writes
<1>7. mail' = mail /\ approved' = approved /\ rejected' = rejected /\ resends' = resends
  BY DEF AskForWrite, CrashAtPause, Return, client
<1> QED
  BY <1>1, <1>2, <1>3, <1>4, <1>5, <1>6, <1>7 DEF TypeInv, TypeOK, Places

\* A step inside the tool leaves the client, the answers and the driver alone.
LEMMA ToolFrame ==
  ASSUME TypeInv, ToolStep
  PROVE  /\ driving /\ at = "tool" /\ asked \in Writes
         /\ UNCHANGED <<asked, decision, driving, screens, mail, approved, rejected,
                        resends, crashes>>
<1>1. driving /\ at = "tool"
  BY DEF ToolStep, Reject, WriteAhead, Replay, Verify, Fire, ToolRaises, Settle,
         LedgerRaises, FinishTool, InCall
<1>2. asked \in Writes
  BY <1>1, BoundsAssumption DEF TypeInv, TypeOK, Writes
<1> QED
  BY <1>1, <1>2
     DEF ToolStep, Reject, WriteAhead, Replay, Verify, Fire, ToolRaises, Settle,
         LedgerRaises, FinishTool, Within, Stay, thread, client

\* What a step inside the tool does to the row of the write asked for.
LEMMA RowTyped ==
  ASSUME TypeInv, NEW row \in Rows, asked \in Writes, Row(row)
  PROVE  ledger' \in [Writes -> Rows]
BY DEF TypeInv, TypeOK, Row

LEMMA ToolTyped ==
  ASSUME TypeInv, ToolStep
  PROVE  TypeInv'
<1>0. /\ driving /\ at = "tool" /\ asked \in Writes
      /\ UNCHANGED <<asked, decision, driving, screens, mail, approved, rejected,
                     resends, crashes>>
  BY ToolFrame
<1>1. Felt => fired' \in [Writes -> 0..2]
  BY <1>0 DEF Felt, TypeInv, TypeOK
<1>2. Following(ledger[asked]) \in Rows
  <2>1. ledger[asked] \in Rows
    BY <1>0 DEF TypeInv, TypeOK
  <2> QED
    BY <2>1 DEF Following, Rows
<1>3. \A row \in Rows : Row(row) => ledger' \in [Writes -> Rows]
  BY <1>0, RowTyped
<1>4. /\ ledger' \in [Writes -> Rows] /\ fired' \in [Writes -> 0..2]
      /\ call' \in Calls /\ told' \in [Writes -> {"none"} \cup Outcomes]
      /\ at' \in Places /\ (at' = "tool" \/ (at' = "model" /\ call' = "lookup"))
  <2>1. CASE Reject
    BY <1>0, <2>1 DEF Reject, Within, thread, TypeInv, TypeOK, Calls, Outcomes
  <2>2. CASE WriteAhead
    <3>1. "pending" \in Rows /\ Row("pending")
      BY <2>2 DEF WriteAhead, Rows
    <3> QED
      BY <1>0, <1>3, <2>2, <3>1 DEF WriteAhead, Within, thread, TypeInv, TypeOK, Calls
  <2>3. CASE Replay
    BY <1>0, <2>3 DEF Replay, Within, thread, TypeInv, TypeOK, Calls, Outcomes
  <2>4. CASE Verify
    <3>1. "unknown" \in Rows /\ Row("unknown")
      BY <2>4 DEF Verify, Rows
    <3> QED
      BY <1>0, <1>3, <2>4, <3>1 DEF Verify, Within, thread, TypeInv, TypeOK, Calls, Outcomes
  <2>5. CASE Fire
    BY <1>0, <1>1, <2>5 DEF Fire, Within, thread, TypeInv, TypeOK, Calls
  <2>6. CASE ToolRaises
    BY <1>0, <1>1, <2>6 DEF ToolRaises, Within, thread, TypeInv, TypeOK, Calls, Outcomes
  <2>7. CASE Settle
    <3>1. "receipt" \in Rows /\ Row("receipt")
      BY <2>7 DEF Settle, Rows
    <3> QED
      BY <1>0, <1>3, <2>7, <3>1 DEF Settle, Within, thread, TypeInv, TypeOK, Calls, Outcomes
  <2>8. CASE LedgerRaises
    <3>1. ledger' \in [Writes -> Rows]
      BY <1>2, <1>3, <2>8 DEF LedgerRaises, TypeInv, TypeOK
    <3> QED
      BY <1>0, <2>8, <3>1 DEF LedgerRaises, Within, thread, TypeInv, TypeOK, Calls, Outcomes
  <2>9. CASE FinishTool
    BY <1>0, <2>9 DEF FinishTool, TypeInv, TypeOK, Calls, Places
  <2> QED
    BY <2>1, <2>2, <2>3, <2>4, <2>5, <2>6, <2>7, <2>8, <2>9 DEF ToolStep
<1> QED
  BY <1>0, <1>4 DEF TypeInv, TypeOK, Undecided

LEMMA StepTyped == TypeInv /\ [Next]_vars => TypeInv'
<1> SUFFICES ASSUME TypeInv, [Next]_vars PROVE TypeInv'
  OBVIOUS
<1>1. CASE Message
  BY <1>1 DEF Message, TypeInv, TypeOK, Undecided, Places, client, writing
<1>2. ASSUME NEW w \in Writes, NEW value \in {"approve", "reject"}, Decide(w, value)
      PROVE  TypeInv'
  BY <1>2, DecideTyped
<1>3. ASSUME NEW request \in Requests, Lose(request)
      PROVE  TypeInv'
  BY <1>3 DEF Lose, TypeInv, TypeOK, Undecided, thread, writing
<1>4. ASSUME NEW request \in Requests, Deliver(request)
      PROVE  TypeInv'
  BY <1>4, DeliverTyped
<1>5. CASE Continue
  <2>1. UNCHANGED <<asked, at, decision, told, call, ledger, fired>>
    BY <1>5 DEF Continue, thread, writing
  <2>2. CASE at \in {"model", "tool"}
    BY <1>5, <2>1, <2>2 DEF Continue, TypeInv, TypeOK, Undecided, client
  <2>3. CASE at = "pause"
    <3>1. asked \in Writes
      BY <2>3, BoundsAssumption DEF TypeInv, TypeOK, Writes
    <3>2. /\ driving' = driving /\ mail' = mail /\ crashes' = crashes
          /\ approved' = approved /\ rejected' = rejected /\ resends' = resends
      BY <1>5, <2>3 DEF Continue
    <3>3. screens' \subseteq Writes
      BY <1>5, <2>3, <3>1 DEF Continue, TypeInv, TypeOK
    <3> QED
      BY <2>1, <3>2, <3>3 DEF TypeInv, TypeOK, Undecided
  <2> QED
    BY <1>5, <2>2, <2>3 DEF Continue
<1>6. CASE AskForWrite \/ CrashAtPause
  BY <1>6, PauseTyped
<1>7. CASE Answer
  BY <1>7 DEF Answer, Return, TypeInv, TypeOK, Undecided, Places, writing
<1>8. CASE ToolStep
  BY <1>8, ToolTyped
<1>9. CASE Crash
  <2>1. crashes' \in 0..MaxCrashes
    BY <1>9, BoundsAssumption DEF Crash, TypeInv, TypeOK
  <2> QED
    BY <1>9, <2>1 DEF Crash, TypeInv, TypeOK, Undecided, thread, client, Calls
<1>10. CASE UNCHANGED vars
  BY <1>10 DEF vars, TypeInv, TypeOK, Undecided
<1> QED
  BY <1>1, <1>2, <1>3, <1>4, <1>5, <1>6, <1>7, <1>8, <1>9, <1>10
     DEF Next, DriverStep

\* Every variable keeps its type, and the thread enters a tool step only with
\* a decision recorded for it (to_langchain_tool).
THEOREM ApprovalTyped == Spec => []TypeOK
<1>1. TypeInv => TypeOK
  BY DEF TypeInv
<1> QED
  BY <1>1, InitTyped, StepTyped, PTL DEF Spec

-----------------------------------------------------------------------------
(* The careful client *)

LEMMA InitCareful == Init => CarefulInv
BY DEF Init, CarefulInv, MailInv, RecordInv, OnlyApprovedFires

\* A write fires at the step of an approval.
LEMMA FiresApproved ==
  ASSUME TypeInv, CallInv, ToolStep
  PROVE  /\ fired' = fired \/ (Felt /\ (Fire \/ ToolRaises))
         /\ \A w \in Writes :
              fired'[w] > 0 => fired[w] > 0 \/ (w = asked /\ decision[asked] = "approve")
<1>1. CASE Fire \/ ToolRaises
  <2>1. asked \in Writes /\ decision[asked] = "approve"
    BY <1>1, ToolFrame DEF ToolStep, Fire, ToolRaises, InCall, CallInv
  <2> QED
    BY <1>1, <2>1 DEF Fire, ToolRaises, Felt, TypeInv, TypeOK
<1>2. CASE ~(Fire \/ ToolRaises)
  <2>1. fired' = fired
    BY <1>2 DEF ToolStep, Reject, WriteAhead, Replay, Verify, Settle, LedgerRaises, FinishTool
  <2> QED
    BY <2>1
<1> QED
  BY <1>1, <1>2

\* The human's answer takes the pause off the screen and becomes the only
\* request on its way.
LEMMA DecideCareful ==
  ASSUME TypeInv, CarefulInv, ~resends,
         NEW w \in Writes, NEW value \in {"approve", "reject"}, Decide(w, value)
  PROVE  CarefulInv'
<1>1. mail = {} /\ at = "pause" /\ screens = {asked} /\ w = asked
  BY DEF Decide, CarefulInv, MailInv
<1>2. mail' = {[write |-> w, value |-> value]} /\ screens' = {}
  BY <1>1 DEF Decide
<1>3. value = "approve" => w \in approved'
  BY DEF Decide
<1>4. approved \subseteq approved'
  BY DEF Decide
<1>5. asked' = asked /\ at' = at /\ decision' = decision /\ fired' = fired
  BY DEF Decide, thread, writing
<1>6. MailInv'
  BY <1>1, <1>2, <1>3, <1>5 DEF MailInv
<1>7. RecordInv' /\ OnlyApprovedFires'
  BY <1>4, <1>5 DEF CarefulInv, RecordInv, OnlyApprovedFires
<1> QED
  BY <1>6, <1>7 DEF CarefulInv

\* An answer arrives at the pause it was given to, and is recorded there.
LEMMA DeliverCareful ==
  ASSUME TypeInv, CarefulInv, ~resends, NEW request \in Requests, Deliver(request)
  PROVE  CarefulInv'
<1>1. /\ at = "pause" /\ request.write = asked /\ mail = {request}
      /\ request.value = "approve" => asked \in approved
  BY DEF Deliver, CarefulInv, MailInv
<1>2. screens = {} /\ mail' = {} /\ screens' = {}
  BY <1>1 DEF Deliver, CarefulInv, MailInv
<1>3. asked \in Writes /\ decision[asked] = "none"
  BY <1>1, BoundsAssumption DEF TypeInv, TypeOK, Writes
<1>4. decision' = [decision EXCEPT ![asked] = request.value]
  BY <1>1, <1>3 DEF Deliver, Record
<1>5. approved' = approved /\ fired' = fired
  BY DEF Deliver, writing
<1>6. RecordInv'
  BY <1>1, <1>3, <1>4, <1>5 DEF CarefulInv, RecordInv, TypeInv, TypeOK
<1> QED
  BY <1>2, <1>5, <1>6 DEF CarefulInv, MailInv, OnlyApprovedFires

LEMMA StepCareful == TypeInv /\ CarefulInv /\ CallInv /\ [Next]_vars => CarefulInv'
<1> SUFFICES ASSUME TypeInv, CarefulInv, CallInv, [Next]_vars PROVE CarefulInv'
  OBVIOUS
<1>1. resends' = resends
  BY ToolFrame
     DEF Next, DriverStep, Message, Decide, Lose, Deliver, Continue, AskForWrite,
         Answer, Crash, CrashAtPause, Return, client, vars
<1>2. CASE resends
  BY <1>1, <1>2 DEF CarefulInv
<1>3. CASE ~resends
  <2>1. CASE Message
    BY <1>3, <2>1
       DEF Message, Settled, CarefulInv, MailInv, RecordInv, OnlyApprovedFires, client, writing
  <2>2. ASSUME NEW w \in Writes, NEW value \in {"approve", "reject"}, Decide(w, value)
        PROVE  CarefulInv'
    BY <1>3, <2>2, DecideCareful
  <2>3. ASSUME NEW request \in Requests, Lose(request)
        PROVE  CarefulInv'
    <3>1. mail' = {} /\ screens' = {}
      BY <1>3, <2>3 DEF Lose, CarefulInv, MailInv
    <3>2. /\ decision' = decision /\ fired' = fired
          /\ approved' = approved
      BY <2>3 DEF Lose, thread, writing
    <3> QED
      BY <1>3, <3>1, <3>2 DEF CarefulInv, MailInv, RecordInv, OnlyApprovedFires
  <2>4. ASSUME NEW request \in Requests, Deliver(request)
        PROVE  CarefulInv'
    BY <1>3, <2>4, DeliverCareful
  <2>5. CASE Continue
    <3>1. mail = {} /\ mail' = {} /\ approved' = approved
      BY <1>3, <2>5 DEF Continue, Settled, client
    <3>2. asked' = asked /\ at' = at /\ decision' = decision /\ fired' = fired
      BY <2>5 DEF Continue, thread, writing
    <3>3. screens' = screens \/ (at = "pause" /\ screens' = screens \cup {asked})
      BY <2>5 DEF Continue, client
    <3>4. screens' # {} => at = "pause" /\ screens' = {asked}
      BY <1>3, <3>3 DEF CarefulInv, MailInv
    <3> QED
      BY <1>3, <3>1, <3>2, <3>4 DEF CarefulInv, MailInv, RecordInv, OnlyApprovedFires
  <2>6. CASE AskForWrite \/ CrashAtPause
    <3>1. at = "model" /\ at' = "pause" /\ decision' = decision /\ fired' = fired
      BY <2>6 DEF AskForWrite, CrashAtPause, writing
    <3>2. mail = {} /\ screens = {}
      BY <1>3, <3>1 DEF CarefulInv, MailInv
    <3>3. mail' = {} /\ approved' = approved /\ screens' \in {{}, {asked'}}
      <4>1. CASE AskForWrite
        BY <3>2, <4>1 DEF AskForWrite, Return
      <4>2. CASE CrashAtPause
        BY <3>2, <4>2 DEF CrashAtPause, client
      <4> QED
        BY <2>6, <4>1, <4>2
    <3> QED
      BY <1>3, <3>1, <3>3 DEF CarefulInv, MailInv, RecordInv, OnlyApprovedFires
  <2>7. CASE Answer
    <3>1. mail = {} /\ screens = {}
      BY <1>3, <2>7 DEF Answer, CarefulInv, MailInv
    <3> QED
      BY <1>3, <2>7, <3>1
         DEF Answer, Return, CarefulInv, MailInv, RecordInv, OnlyApprovedFires, writing
  <2>8. CASE ToolStep
    <3>1. mail' = {} /\ screens' = {} /\ UNCHANGED <<decision, approved>>
      BY <1>3, <2>8, ToolFrame DEF CarefulInv, MailInv
    <3>2. OnlyApprovedFires'
      BY <1>3, <2>8, <3>1, FiresApproved
         DEF CarefulInv, RecordInv, OnlyApprovedFires
    <3> QED
      BY <1>3, <3>1, <3>2 DEF CarefulInv, MailInv, RecordInv
  <2>9. CASE Crash
    BY <1>3, <2>9
       DEF Crash, CarefulInv, MailInv, RecordInv, OnlyApprovedFires, thread, client
  <2>10. CASE UNCHANGED vars
    BY <1>3, <2>10 DEF vars, CarefulInv, MailInv, RecordInv, OnlyApprovedFires
  <2> QED
    BY <2>1, <2>2, <2>3, <2>4, <2>5, <2>6, <2>7, <2>8, <2>9, <2>10
       DEF Next, DriverStep
<1> QED
  BY <1>2, <1>3

-----------------------------------------------------------------------------
(* The ledger and the call *)

LEMMA InitWrite == Init => WriteInv
BY DEF Init, WriteInv, LedgerInv, CallInv

\* A step that leaves the writes alone and enters neither a pause nor a tool.
LEMMA WriteKept ==
  ASSUME WriteInv, at' \in {at, "rest", "model"},
         UNCHANGED <<asked, decision, call, ledger, fired, crashes, resends>>
  PROVE  WriteInv'
BY DEF WriteInv, LedgerInv, CallInv

\* A decision reaches a step that no driver is inside: at a pause its write has
\* no row yet, later only a crash can have left one.
LEMMA DeliverWrite ==
  ASSUME TypeInv, CarefulInv, WriteInv, NEW request \in Requests, Deliver(request)
  PROVE  WriteInv'
<1>1. /\ UNCHANGED <<asked, call, ledger, fired, crashes, resends>>
      /\ call = "lookup"
  BY DEF Deliver, writing, TypeInv, TypeOK
<1>2. CASE at \in {"rest", "model"}
  BY <1>1, <1>2, WriteKept DEF Deliver
<1>3. CASE at \in {"pause", "tool"}
  <2>1. asked \in Writes /\ at' = "tool"
    BY <1>3, BoundsAssumption DEF Deliver, TypeInv, TypeOK, Writes
  <2>2. \A w \in Writes : w # asked => decision'[w] = decision[w]
    BY <1>3, <2>1 DEF Deliver, Record, TypeInv, TypeOK
  <2>3. ~resends => ledger[asked] = "unseen"
    BY <1>3, <2>1 DEF Deliver, CarefulInv, MailInv, WriteInv, LedgerInv
  <2>4. LedgerInv'
    BY <1>1, <2>1, <2>2, <2>3 DEF WriteInv, LedgerInv
  <2>5. ledger[asked] = "pending" => crashes > 0
    BY <1>1, <1>3 DEF WriteInv, LedgerInv, CallInv
  <2>6. CallInv'
    BY <1>1, <2>5 DEF CallInv
  <2> QED
    BY <2>4, <2>6 DEF WriteInv
<1> QED
  BY <1>2, <1>3 DEF Deliver

\* The write asked for next has no row.
LEMMA PauseWrite ==
  ASSUME TypeInv, WriteInv, AskForWrite \/ CrashAtPause
  PROVE  WriteInv'
<1>1. /\ asked' = asked + 1 /\ at' = "pause" /\ asked < MaxWrites
      /\ UNCHANGED <<decision, call, ledger, fired, resends>>
  BY DEF AskForWrite, CrashAtPause, Return, writing, client
<1>2. asked \in Nat /\ asked' \in Writes /\ crashes \in Nat /\ crashes' \in {crashes, crashes + 1}
  BY <1>1, BoundsAssumption
     DEF TypeInv, TypeOK, Writes, AskForWrite, CrashAtPause, Return
<1>3. ledger'[asked'] = "unseen"
  BY <1>1, <1>2 DEF WriteInv, LedgerInv
<1>4. \A w \in Writes : w > asked' => w > asked
  BY <1>1, <1>2, BoundsAssumption DEF Writes
<1>5. crashes > 0 => crashes' > 0
  BY <1>2
<1>6. LedgerInv'
  BY <1>1, <1>3, <1>4, <1>5 DEF WriteInv, LedgerInv
<1> QED
  BY <1>1, <1>6 DEF WriteInv, CallInv

\* Inside the tool only the row and the effect of the write asked for change.
LEMMA ToolWrite ==
  ASSUME TypeInv, WriteInv, ToolStep
  PROVE  WriteInv'
<1>0. /\ at = "tool" /\ asked \in Writes /\ ~(asked > asked)
      /\ UNCHANGED <<asked, decision, crashes, resends>>
  BY ToolFrame, BoundsAssumption DEF Writes
<1>1. ASSUME NEW row, Row(row)
      PROVE  /\ ledger'[asked] = row
             /\ \A w \in Writes : w # asked => ledger'[w] = ledger[w]
  BY <1>0, <1>1 DEF Row, TypeInv, TypeOK
<1>2. ASSUME Felt, fired[asked] = 0
      PROVE  /\ fired'[asked] = 1
             /\ \A w \in Writes : w # asked => fired'[w] = fired[w]
  BY <1>0, <1>2 DEF Felt, TypeInv, TypeOK
<1>3. CASE Reject
  BY <1>0, <1>3 DEF Reject, InCall, Within, thread, WriteInv, LedgerInv, CallInv
<1>4. CASE WriteAhead
  <2>1. /\ ledger[asked] = "unseen" /\ decision[asked] = "approve" /\ fired[asked] = 0
        /\ call' = "fire" /\ at' = at /\ fired' = fired /\ Row("pending")
    BY <1>0, <1>4 DEF WriteAhead, Within, thread, WriteInv, LedgerInv
  <2>2. LedgerInv'
    BY <1>0, <1>1, <2>1 DEF WriteInv, LedgerInv
  <2>3. CallInv'
    BY <1>0, <1>1, <2>1 DEF CallInv
  <2> QED
    BY <2>2, <2>3 DEF WriteInv
<1>5. CASE Replay
  BY <1>0, <1>5 DEF Replay, InCall, Within, thread, WriteInv, LedgerInv, CallInv
<1>6. CASE Verify
  <2>1. /\ ledger[asked] = "pending" /\ decision[asked] = "approve" /\ crashes > 0
        /\ call' = "unknown" /\ at' = at /\ fired' = fired /\ Row("unknown")
    BY <1>0, <1>6 DEF Verify, InCall, Within, thread, WriteInv, CallInv
  <2>2. LedgerInv'
    BY <1>0, <1>1, <2>1 DEF WriteInv, LedgerInv
  <2>3. CallInv'
    BY <1>0, <2>1 DEF CallInv
  <2> QED
    BY <2>2, <2>3 DEF WriteInv
<1>7. CASE Fire \/ ToolRaises
  <2>1. /\ ledger[asked] = "pending" /\ decision[asked] = "approve" /\ fired[asked] = 0
        /\ at' = at /\ ledger' = ledger
        /\ (call' = "settle" /\ Felt) \/ (call' = "error" /\ (Felt \/ fired' = fired))
    BY <1>0, <1>7 DEF Fire, ToolRaises, InCall, Within, thread, WriteInv, CallInv
  <2>2. LedgerInv'
    BY <1>0, <1>2, <2>1 DEF WriteInv, LedgerInv
  <2>3. CallInv'
    BY <1>0, <1>2, <2>1 DEF CallInv
  <2> QED
    BY <2>2, <2>3 DEF WriteInv
<1>8. CASE Settle
  <2>1. /\ ledger[asked] = "pending" /\ decision[asked] = "approve" /\ fired[asked] = 1
        /\ call' = "receipt" /\ at' = at /\ fired' = fired /\ Row("receipt")
    BY <1>0, <1>8 DEF Settle, InCall, Within, thread, WriteInv, CallInv
  <2>2. LedgerInv'
    BY <1>0, <1>1, <2>1 DEF WriteInv, LedgerInv
  <2>3. CallInv'
    BY <1>0, <2>1 DEF CallInv
  <2> QED
    BY <2>2, <2>3 DEF WriteInv
<1>9. CASE LedgerRaises
  <2>1. /\ call' = "error" /\ at' = at /\ fired' = fired /\ decision[asked] = "approve"
        /\ Row(Following(ledger[asked])) \/ ledger' = ledger
        /\ call = "settle" \/ call = "lookup"
    BY <1>0, <1>9 DEF LedgerRaises, InCall, Within, thread, WriteInv, CallInv
  <2>2. CallInv'
    BY <1>0, <2>1 DEF CallInv
  <2>3. ASSUME Row(Following(ledger[asked])) PROVE LedgerInv'
    <3>1. /\ ledger'[asked] = Following(ledger[asked])
          /\ \A w \in Writes : w # asked => ledger'[w] = ledger[w]
      BY <1>1, <2>3
    <3>2. ledger[asked] \in Rows
      BY <1>0 DEF TypeInv, TypeOK
    <3>3. CASE call = "settle"
      BY <1>0, <2>1, <3>1, <3>3 DEF Following, WriteInv, LedgerInv, CallInv
    <3>4. CASE call = "lookup"
      BY <1>0, <2>1, <3>1, <3>2, <3>4 DEF Following, Rows, WriteInv, LedgerInv, CallInv
    <3> QED
      BY <2>1, <3>3, <3>4
  <2>4. ASSUME ledger' = ledger PROVE LedgerInv'
    BY <1>0, <2>1, <2>4 DEF WriteInv, LedgerInv
  <2> QED
    BY <2>1, <2>2, <2>3, <2>4 DEF WriteInv
<1>10. CASE FinishTool
  BY <1>0, <1>10 DEF FinishTool, WriteInv, LedgerInv, CallInv
<1> QED
  BY <1>3, <1>4, <1>5, <1>6, <1>7, <1>8, <1>9, <1>10 DEF ToolStep

LEMMA StepWrite == TypeInv /\ CarefulInv /\ WriteInv /\ [Next]_vars => WriteInv'
<1> SUFFICES ASSUME TypeInv, CarefulInv, WriteInv, [Next]_vars PROVE WriteInv'
  OBVIOUS
<1>1. ASSUME NEW request \in Requests, Deliver(request)
      PROVE  WriteInv'
  BY <1>1, DeliverWrite
<1>2. CASE AskForWrite \/ CrashAtPause
  BY <1>2, PauseWrite
<1>3. CASE ToolStep
  BY <1>3, ToolWrite
<1>4. CASE Crash
  <2>1. crashes' > 0
    BY <1>4 DEF Crash, TypeInv, TypeOK
  <2>2. call' = "lookup" /\ UNCHANGED <<asked, at, decision, ledger, fired, resends>>
    BY <1>4 DEF Crash, thread, client
  <2> QED
    BY <2>1, <2>2 DEF WriteInv, LedgerInv, CallInv
<1>5. ASSUME \/ Message \/ Answer \/ Continue \/ UNCHANGED vars
             \/ \E w \in Writes, value \in {"approve", "reject"} : Decide(w, value)
             \/ \E request \in Requests : Lose(request)
      PROVE  WriteInv'
  <2>1. /\ at' \in {at, "rest", "model"}
        /\ UNCHANGED <<asked, decision, call, ledger, fired, crashes, resends>>
    BY <1>5
       DEF Message, Answer, Return, Continue, Decide, Lose, vars, thread, client, writing
  <2> QED
    BY <2>1, WriteKept
<1> QED
  BY <1>1, <1>2, <1>3, <1>4, <1>5 DEF Next, DriverStep

\* The inductive invariant of a session.
SessionInv == TypeInv /\ CarefulInv /\ WriteInv

LEMMA InitSession == Init => SessionInv
BY InitTyped, InitCareful, InitWrite DEF SessionInv

LEMMA StepSession == SessionInv /\ [Next]_vars => SessionInv'
BY StepTyped, StepCareful, StepWrite DEF SessionInv, WriteInv

\* With a client that sends an answer once and waits for it, a write fires
\* only if a human approved this very write (engine.resume, Command(resume)).
THEOREM CarefulApproval == Spec => []CarefulOnlyApproved
<1>1. SessionInv => CarefulOnlyApproved
  BY DEF SessionInv, CarefulInv, CarefulOnlyApproved
<1> QED
  BY <1>1, InitSession, StepSession, PTL DEF Spec

-----------------------------------------------------------------------------
(* The promise of WriteByConsent *)

\* What a human has on screen was asked for, an answer on its way is one the
\* human gave, and so is a recorded decision: to this very write, or, where
\* answers are repeated, to some write.
Answered(w, answers) == IF resends THEN answers # {} ELSE w \in answers
AnswersInv ==
  /\ \A w \in screens : w <= asked
  /\ \A q \in mail : /\ q.value = "approve" => q.write \in approved
                     /\ q.value = "reject" => q.write \in rejected
  /\ \A w \in Writes : /\ decision[w] = "approve" => Answered(w, approved)
                       /\ decision[w] = "reject" => Answered(w, rejected)

LEMMA InitAnswers == Init => AnswersInv
BY DEF Init, AnswersInv

\* A step that leaves the mail, the decisions and the answers alone and shows
\* nothing but what was asked for keeps them in agreement.
LEMMA AnswersKept ==
  ASSUME AnswersInv, \A w \in screens' : w \in screens \/ w <= asked',
         asked' \in Nat, asked \in Nat, asked <= asked', screens \subseteq Writes,
         mail' \subseteq mail, UNCHANGED <<decision, approved, rejected, resends>>
  PROVE  AnswersInv'
<1>1. \A w \in screens : w <= asked'
  <2> SUFFICES ASSUME NEW w \in screens PROVE w <= asked'
    OBVIOUS
  <2>1. w \in Nat /\ w <= asked
    BY BoundsAssumption DEF AnswersInv, Writes
  <2> QED BY <2>1
<1>2. \A w \in screens' : w <= asked'
  BY <1>1
<1> QED
  BY <1>2 DEF AnswersInv, Answered

\* A human answers.
LEMMA DecideAnswers ==
  ASSUME TypeInv, AnswersInv, NEW w \in Writes, NEW value \in {"approve", "reject"},
         Decide(w, value)
  PROVE  AnswersInv'
<1>1. /\ approved \subseteq approved' /\ rejected \subseteq rejected'
      /\ value = "approve" => w \in approved'
      /\ value = "reject" => w \in rejected'
  BY DEF Decide
<1>2. /\ mail' = mail \cup {[write |-> w, value |-> value]} /\ screens' \subseteq screens
      /\ asked' = asked /\ decision' = decision /\ resends' = resends
  BY DEF Decide, thread
<1>3. \A q \in mail' : /\ q.value = "approve" => q.write \in approved'
                       /\ q.value = "reject" => q.write \in rejected'
  BY <1>1, <1>2 DEF AnswersInv
<1>4. \A v \in Writes : /\ decision'[v] = "approve" => Answered(v, approved)'
                        /\ decision'[v] = "reject" => Answered(v, rejected)'
  BY <1>1, <1>2 DEF AnswersInv, Answered
<1> QED
  BY <1>2, <1>3, <1>4 DEF AnswersInv

\* An answer is recorded for the write the thread is paused at. Only a careful
\* client's answer is sure to be the answer to that write.
LEMMA DeliverAnswers ==
  ASSUME TypeInv, CarefulInv, AnswersInv, NEW request \in Requests, Deliver(request)
  PROVE  AnswersInv'
<1>1. /\ mail' \subseteq mail
      /\ UNCHANGED <<asked, screens, approved, rejected, resends>>
  BY DEF Deliver
<1>2. CASE at \in {"rest", "model"}
  <2>1. decision' = decision
    BY <1>2 DEF Deliver
  <2> QED
    BY <1>1, <2>1 DEF AnswersInv, Answered
<1>3. CASE at \in {"pause", "tool"}
  <2>1. asked \in Writes
    BY <1>3, BoundsAssumption DEF TypeInv, TypeOK, Writes
  <2>2. PICK kept \in {request.value} \cup ({decision[asked]} \ {"none"}) :
          decision' = [decision EXCEPT ![asked] = kept]
    BY <1>3 DEF Deliver, Record
  <2>3. ~resends => request.write = asked
    BY DEF Deliver, CarefulInv, MailInv
  <2>4. /\ request.value = "approve" => Answered(asked, approved)
        /\ request.value = "reject" => Answered(asked, rejected)
    BY <2>3 DEF Deliver, AnswersInv, Answered
  <2>5. /\ kept = "approve" => Answered(asked, approved)
        /\ kept = "reject" => Answered(asked, rejected)
    BY <2>1, <2>4 DEF AnswersInv
  <2>6. \A v \in Writes : decision'[v] = IF v = asked THEN kept ELSE decision[v]
    BY <2>1, <2>2 DEF TypeInv, TypeOK
  <2>7. \A v \in Writes : /\ decision'[v] = "approve" => Answered(v, approved)
                          /\ decision'[v] = "reject" => Answered(v, rejected)
    BY <2>5, <2>6 DEF AnswersInv
  <2>8. \A v \in Writes : /\ Answered(v, approved)' <=> Answered(v, approved)
                          /\ Answered(v, rejected)' <=> Answered(v, rejected)
    BY <1>1 DEF Answered
  <2> QED
    BY <1>1, <2>7, <2>8 DEF AnswersInv
<1> QED
  BY <1>2, <1>3 DEF Deliver

LEMMA StepAnswers == TypeInv /\ CarefulInv /\ AnswersInv /\ [Next]_vars => AnswersInv'
<1> SUFFICES ASSUME TypeInv, CarefulInv, AnswersInv, [Next]_vars PROVE AnswersInv'
  OBVIOUS
<1>1. asked \in Nat /\ screens \subseteq Writes
  BY BoundsAssumption DEF TypeInv, TypeOK
<1>2. ASSUME NEW w \in Writes, NEW value \in {"approve", "reject"}, Decide(w, value)
      PROVE  AnswersInv'
  BY <1>2, DecideAnswers
<1>3. ASSUME NEW request \in Requests, Deliver(request)
      PROVE  AnswersInv'
  BY <1>3, DeliverAnswers
<1>4. ASSUME NEW request \in Requests, Lose(request)
      PROVE  AnswersInv'
  BY <1>1, <1>4, AnswersKept DEF Lose, thread
<1>5. CASE Continue
  <2>1. \A w \in screens' : w \in screens \/ w = asked
    BY <1>5 DEF Continue, client
  <2>2. asked' = asked /\ mail' = mail
        /\ UNCHANGED <<decision, approved, rejected, resends>>
    BY <1>5 DEF Continue, thread, client
  <2> QED
    BY <1>1, <2>1, <2>2, AnswersKept
<1>6. CASE AskForWrite \/ CrashAtPause
  <2>1. asked' = asked + 1 /\ \A w \in screens' : w \in screens \/ w = asked'
    BY <1>6 DEF AskForWrite, CrashAtPause, Return, client
  <2>2. mail' = mail /\ UNCHANGED <<decision, approved, rejected, resends>>
    BY <1>6 DEF AskForWrite, CrashAtPause, Return, client
  <2> QED
    BY <1>1, <2>1, <2>2, AnswersKept
<1>7. CASE Message \/ Answer \/ ToolStep \/ Crash \/ UNCHANGED vars
  <2>1. /\ asked' = asked /\ screens' = screens /\ mail' = mail
        /\ UNCHANGED <<decision, approved, rejected, resends>>
    BY <1>7, ToolFrame DEF Message, Answer, Return, Crash, thread, client, vars
  <2> QED
    BY <1>1, <2>1, AnswersKept
<1> QED
  BY <1>2, <1>3, <1>4, <1>5, <1>6, <1>7 DEF Next, DriverStep

LEMMA InitKeepsConsent == Init => Consent!Init
BY DEF Init, Consent!Init

\* What the model is told at the end of a tool step is true.
LEMMA FinishTruthful ==
  ASSUME SessionInv, AnswersInv, FinishTool
  PROVE  Consent!Truthful(call)
<1>1. /\ at = "tool" /\ asked \in Writes /\ call \in Outcomes
      /\ decision[asked] \in {"approve", "reject"}
  BY BoundsAssumption DEF FinishTool, SessionInv, TypeInv, TypeOK, Writes, Decisions
<1>2. /\ decision[asked] = "approve" => Consent!Carried(approved)
      /\ decision[asked] = "reject" => Consent!Carried(rejected)
  BY <1>1 DEF AnswersInv, Answered, Consent!Carried
<1>3. CASE call = "receipt"
  BY <1>1, <1>3 DEF SessionInv, WriteInv, CallInv, Consent!Truthful
<1>4. CASE call = "rejected"
  <2>1. decision[asked] = "reject"
    BY <1>1, <1>4 DEF SessionInv, WriteInv, CallInv
  <2>2. ~resends => fired[asked] = 0
    BY <1>1, <2>1 DEF SessionInv, WriteInv, LedgerInv
  <2> QED
    BY <1>2, <1>4, <2>1, <2>2 DEF Consent!Truthful
<1>5. CASE call = "error" \/ call = "unknown"
  <2>1. decision[asked] = "approve" /\ (call = "unknown" => crashes > 0)
    BY <1>1, <1>5 DEF SessionInv, WriteInv, CallInv
  <2> QED
    BY <1>2, <1>5, <2>1 DEF Consent!Truthful
<1> QED
  BY <1>1, <1>3, <1>4, <1>5 DEF Outcomes

\* The steps inside the tool, as the promise sees them: the effect, the word
\* the model gets, and nothing else.
LEMMA ToolKeepsConsent ==
  ASSUME SessionInv, AnswersInv, ToolStep
  PROVE  Consent!Next \/ UNCHANGED Consent!consentVars
<1>0. /\ at = "tool" /\ asked \in Writes
      /\ UNCHANGED <<asked, approved, rejected, resends, crashes>>
  BY ToolFrame DEF SessionInv
<1>1. CASE FinishTool
  <2>1. Consent!GoOn(call)
    BY <1>0, <1>1, FinishTruthful DEF FinishTool, Consent!GoOn
  <2>2. call \in {"receipt", "rejected", "error", "unknown"}
    BY <1>1 DEF FinishTool, Outcomes
  <2> QED
    BY <2>1, <2>2 DEF Consent!Next
<1>2. CASE ~FinishTool
  <2>1. at' = at /\ told' = told
    BY <1>2
       DEF ToolStep, Reject, WriteAhead, Replay, Verify, Fire, ToolRaises, Settle,
           LedgerRaises, Within, thread
  <2>2. CASE fired' = fired
    BY <1>0, <2>1, <2>2 DEF Consent!consentVars
  <2>3. CASE Felt /\ (Fire \/ ToolRaises)
    <3>1. fired[asked] = 0 /\ decision[asked] = "approve"
      BY <1>0, <2>3 DEF Fire, ToolRaises, InCall, SessionInv, WriteInv, CallInv
    <3>2. fired' = [fired EXCEPT ![asked] = 1]
      BY <1>0, <2>3, <3>1 DEF Felt, SessionInv, TypeInv, TypeOK
    <3>3. Consent!Carried(approved)
      BY <1>0, <3>1 DEF AnswersInv, Answered, Consent!Carried
    <3>4. Consent!Happen
      BY <1>0, <2>1, <3>1, <3>2, <3>3 DEF Consent!Happen
    <3> QED
      BY <3>4 DEF Consent!Next
  <2> QED
    BY <2>2, <2>3, FiresApproved DEF SessionInv, WriteInv
<1> QED
  BY <1>1, <1>2

\* Every step of a session is a step of the promise or none that it sees:
\* recording an answer, losing it and going on with a run are not.
LEMMA StepKeepsConsent ==
  ASSUME SessionInv, AnswersInv, [Next]_vars
  PROVE  [Consent!Next]_(Consent!consentVars)
<1> DEFINE Open == at \in {"pause", "tool"}
           Hidden == UNCHANGED <<asked, Open, approved, rejected, fired, told,
                                 crashes, resends>>
<1>0. Hidden => [Consent!Next]_(Consent!consentVars)
  BY DEF Consent!consentVars
<1>1. ASSUME NEW w \in Writes, NEW value \in {"approve", "reject"}, Decide(w, value)
      PROVE  Consent!Next
  <2>1. w \in 1..asked
    BY <1>1, BoundsAssumption DEF Decide, AnswersInv, SessionInv, TypeInv, TypeOK, Writes
  <2>2. \/ approved' = approved \cup {w} /\ UNCHANGED rejected
        \/ rejected' = rejected \cup {w} /\ UNCHANGED approved
    BY <1>1 DEF Decide
  <2>3. UNCHANGED <<asked, at, fired, told, crashes, resends>>
    BY <1>1 DEF Decide, thread, writing
  <2>4. Consent!Answer(w)
    BY <2>2, <2>3 DEF Consent!Answer
  <2> QED
    BY <2>1, <2>4 DEF Consent!Next
<1>2. ASSUME NEW request \in Requests, Lose(request) \/ Deliver(request)
      PROVE  Hidden
  BY <1>2 DEF Lose, Deliver, thread, writing
<1>3. CASE Message \/ Continue \/ Answer \/ UNCHANGED vars
  <2>1. Hidden
    BY <1>3 DEF Message, Continue, Answer, Return, thread, client, writing, vars
  <2> QED BY <1>0, <2>1
<1>4. CASE AskForWrite \/ CrashAtPause
  <2>1. /\ ~Open /\ Open' /\ asked' = asked + 1
        /\ UNCHANGED <<approved, rejected, fired, told, resends>>
    BY <1>4 DEF AskForWrite, CrashAtPause, Return, client, writing
  <2>2. (crashes > 0)' \in {crashes > 0, TRUE}
    <3>1. CASE AskForWrite
      BY <3>1 DEF AskForWrite, Return
    <3>2. CASE CrashAtPause
      <4>1. crashes' > 0
        BY <3>2 DEF CrashAtPause, SessionInv, TypeInv, TypeOK
      <4> QED BY <4>1
    <3> QED BY <1>4, <3>1, <3>2
  <2>3. Consent!Ask
    BY <2>1, <2>2 DEF Consent!Ask
  <2> QED BY <2>3 DEF Consent!Next
<1>5. CASE ToolStep
  BY <1>5, ToolKeepsConsent
<1>6. CASE Crash
  <2>1. (crashes > 0)' = TRUE
    BY <1>6 DEF Crash, SessionInv, TypeInv, TypeOK
  <2>2. UNCHANGED <<asked, at, approved, rejected, fired, told, resends>>
    BY <1>6 DEF Crash, thread, client
  <2>3. Consent!CutShort
    BY <2>1, <2>2 DEF Consent!CutShort
  <2> QED BY <2>3 DEF Consent!Next
<1> HIDE DEF Hidden
<1> QED
  BY <1>0, <1>1, <1>2, <1>3, <1>4, <1>5, <1>6 DEF Next, DriverStep

\* A session of any length, whatever fails, is lost, killed or shown again,
\* keeps the promise of WriteByConsent: one write at a time, at most once and
\* never without consent; it goes on only after an answer, and what the model
\* is told of a write is true.
THEOREM ImplementsWriteByConsent == Spec => KeepsConsent
<1>1. SessionInv /\ AnswersInv /\ [Next]_vars => (SessionInv /\ AnswersInv)'
  BY StepSession, StepAnswers DEF SessionInv
<1>2. Init => SessionInv /\ AnswersInv
  BY InitSession, InitAnswers
<1>3. SessionInv /\ AnswersInv /\ [Next]_vars => [Consent!Next]_(Consent!consentVars)
  BY StepKeepsConsent
<1> QED
  BY <1>1, <1>2, <1>3, InitKeepsConsent, PTL DEF Spec, KeepsConsent, Consent!Spec
=============================================================================
