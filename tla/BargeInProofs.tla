---------------------------- MODULE BargeInProofs ----------------------------
(***************************************************************************)
(* What a barge-in may rely on, for any number of turns and words: one     *)
(* reply at a time, silence once the human has cut in, and a rewritten     *)
(* message that claims only what was heard.                                *)
(*                                                                         *)
(* The argument is about the human's turn: where interruptions are allowed *)
(* it begins with an InterruptionFrame that cancels every reply task, and  *)
(* no task is created until the node has finished with the turn.           *)
(***************************************************************************)
EXTENDS BargeIn, SequenceTheorems, TLAPS

Messages == [turn : Turns, words : SUBSET Words, cut : BOOLEAN]

Nodes == {"idle", "amending", "forwarding", "amendingFirst", "starting"}

TypeOK ==
  /\ turn \in 0..MaxTurns
  /\ reply \in [Turns -> Alive \cup {"none", "ended"}]
  /\ produced \in [Turns -> 0..MaxWords]
  /\ draft \in [Turns -> SUBSET Words]
  /\ history \in Seq(Messages)
  /\ answering \in BOOLEAN
  /\ spoken \in SUBSET Words
  /\ tts \in Seq(Words)
  /\ heard \in SUBSET Words
  /\ node \in Nodes
  /\ clip \in SUBSET Words
  /\ barged \in BOOLEAN
  /\ cutsIn \in BOOLEAN
  \* a reply that is to be started has a number
  /\ node \in {"amendingFirst", "starting"} => turn < MaxTurns

\* The human has the floor: from the InterruptionFrame that begins a turn to
\* the creation of the reply to it.
HumanHasFloor == barged \/ node # "idle"

\* Replies that have begun and not ended: what the code calls owed.
Owed == \E t \in Turns : reply[t] \in {"model", "committed"}

\* No reply task lives while the human has the floor, at most one does
\* otherwise, and the flag agrees with it.
ReplyInv ==
  cutsIn =>
    /\ HumanHasFloor => \A t \in Turns : reply[t] \notin Alive
    /\ \A t, u \in Turns : reply[t] \in Alive /\ reply[u] \in Alive => t = u
    /\ answering <=> Owed

\* Nothing is forwarded where the human may not cut in, and a frame that has
\* gone through leaves nothing in TTS.
FrameInv ==
  /\ ~cutsIn => ~barged /\ node \notin {"amending", "forwarding"}
  /\ SilentForTheHuman

\* What is known to have been spoken, and what is about to be written as such,
\* was heard.
HeardInv ==
  /\ spoken \subseteq heard
  /\ clip \subseteq heard
  /\ CutWordsWereHeard

Inv == TypeOK /\ ReplyInv /\ FrameInv /\ HeardInv

-----------------------------------------------------------------------------
(* Types *)

LEMMA StopType ==
  ASSUME TypeOK, NEW t \in Turns
  PROVE  /\ Stop(t) \in {"none", "ended"}
         /\ Stop(t) = "ended" \/ Stop(t) = reply[t]
BY DEF TypeOK, Stop, Alive

LEMMA RewrittenType ==
  ASSUME TypeOK, NEW i \in 1..Len(history)
  PROVE  /\ Rewritten(history[i]) \in Messages
         /\ Rewritten(history[i]).words = clip
         /\ Rewritten(history[i]).cut
<1>1. history[i] \in Messages
  BY ElementOfSeq DEF TypeOK
<1> QED
  BY <1>1 DEF TypeOK, Messages, Rewritten

LEMMA InitType ==
  Init => TypeOK
<1> SUFFICES ASSUME Init
             PROVE  TypeOK
  OBVIOUS
<1>1. history \in Seq(Messages) /\ tts \in Seq(Words)
  BY EmptySeq DEF Init
<1>2. /\ turn \in 0..MaxTurns
      /\ reply \in [Turns -> Alive \cup {"none", "ended"}]
      /\ produced \in [Turns -> 0..MaxWords]
      /\ draft \in [Turns -> SUBSET Words]
  BY TurnsAssumption, WordsAssumption DEF Init
<1>3. answering \in BOOLEAN /\ barged \in BOOLEAN /\ cutsIn \in BOOLEAN /\ node = "idle"
  BY DEF Init
<1>4. spoken \in SUBSET Words /\ heard \in SUBSET Words /\ clip \in SUBSET Words
  BY DEF Init
<1> QED
  BY <1>1, <1>2, <1>3, <1>4 DEF TypeOK, Nodes

LEMMA StepType ==
  ASSUME TypeOK, [Next]_vars
  PROVE  TypeOK'
<1> USE TurnsAssumption, WordsAssumption
<1>1. CASE Interruption
  <2>1. reply' \in [Turns -> Alive \cup {"none", "ended"}]
    BY <1>1, StopType DEF Interruption, CancelAll
  <2> QED
    BY <1>1, <2>1 DEF TypeOK, Interruption, Interrupt, Transcript, Nodes, speech
<1>2. CASE UserTurn
  <2>1. reply' \in [Turns -> Alive \cup {"none", "ended"}]
    BY <1>2, StopType DEF UserTurn, TypeOK
  <2> QED
    BY <1>2, <2>1 DEF TypeOK, UserTurn, Interrupt, Transcript, Nodes, speech
<1>3. CASE Amend
  <2>1. history' \in Seq(Messages)
    <3>1. CASE /\ history # <<>>
               /\ history' = [history EXCEPT ![Len(history)] = Rewritten(@)]
      <4>1. Len(history) \in 1..Len(history)
        BY <3>1, EmptySeq DEF TypeOK
      <4>2. Rewritten(history[Len(history)]) \in Messages
        BY <4>1, RewrittenType
      <4> HIDE DEF Messages
      <4> QED
        BY <3>1, <4>1, <4>2, ExceptSeq DEF TypeOK
    <3> QED
      BY <1>3, <3>1 DEF Amend, TypeOK
  <2> QED
    BY <1>3, <2>1 DEF TypeOK, Amend, Nodes, speech, replies
<1>4. CASE Forward
  BY <1>4, EmptySeq DEF TypeOK, Forward, Nodes, replies
<1>5. CASE StartReply
  <2>a. turn \in 0..MaxTurns /\ turn < MaxTurns
    BY <1>5 DEF TypeOK, StartReply
  <2>b. turn' = turn + 1 /\ node' = "idle" /\ barged' = FALSE
    BY <1>5 DEF StartReply
  <2>1. turn' \in 0..MaxTurns
    BY <2>a, <2>b
  <2>2. reply' \in [Turns -> Alive \cup {"none", "ended"}]
    BY <1>5 DEF TypeOK, StartReply, Alive
  <2> QED
    BY <1>5, <2>1, <2>2, <2>b DEF TypeOK, StartReply, Nodes, speech
<1>6. ASSUME NEW t \in Turns, BeginReply(t)
      PROVE  TypeOK'
  BY <1>6 DEF TypeOK, BeginReply, Alive
<1>7. ASSUME NEW t \in Turns, Chunk(t)
      PROVE  TypeOK'
  <2>1. <<t, produced[t] + 1>> \in Words /\ produced[t] + 1 \in 0..MaxWords
    BY <1>7 DEF TypeOK, Chunk, Words
  <2>2. tts' \in Seq(Words)
    BY <1>7, <2>1, AppendProperties DEF Chunk, TypeOK
  <2>3. draft' \in [Turns -> SUBSET Words]
    BY <1>7, <2>1 DEF Chunk, TypeOK
  <2> QED
    BY <1>7, <2>1, <2>2, <2>3 DEF TypeOK, Chunk
<1>8. ASSUME NEW t \in Turns, Commit(t)
      PROVE  TypeOK'
  <2>1. [turn |-> t, words |-> draft[t], cut |-> FALSE] \in Messages
    BY DEF TypeOK, Messages
  <2>2. history' \in Seq(Messages)
    BY <1>8, <2>1, AppendProperties DEF Commit, TypeOK
  <2> QED
    BY <1>8, <2>2 DEF TypeOK, Commit, Alive, speech
<1>9. ASSUME NEW t \in Turns, CallAgain(t) \/ Finish(t)
      PROVE  TypeOK'
  BY <1>9 DEF TypeOK, CallAgain, Finish, Alive, speech
<1>10. ASSUME NEW t \in Turns, Fail(t)
       PROVE  TypeOK'
  <2>1. <<t, 0>> \in Words
    BY DEF Words
  <2>2. tts' \in Seq(Words)
    BY <1>10, <2>1, AppendProperties DEF Fail, TypeOK
  <2> QED
    BY <1>10, <2>2 DEF TypeOK, Fail, Alive
<1>11. CASE Speak
  <2>1. Head(tts) \in Words /\ Tail(tts) \in Seq(Words)
    BY <1>11, HeadTailProperties DEF Speak, TypeOK
  <2> QED
    BY <1>11, <2>1 DEF TypeOK, Speak, replies
<1>12. CASE UNCHANGED vars
  BY <1>12 DEF TypeOK, vars
<1> QED
  BY <1>1, <1>2, <1>3, <1>4, <1>5, <1>6, <1>7, <1>8, <1>9, <1>10, <1>11, <1>12
     DEF Next, NodeStep, ReplyStep

-----------------------------------------------------------------------------
(* One reply, and the flag that says so *)

LEMMA StepReplyInv ==
  ASSUME TypeOK, ReplyInv, [Next]_vars
  PROVE  ReplyInv'
<1> SUFFICES ASSUME cutsIn
             PROVE  ReplyInv'
  BY DEF ReplyInv, Next, vars, Interruption, UserTurn, NodeStep, Amend, Forward,
         StartReply, ReplyStep, BeginReply, Chunk, Commit, CallAgain, Finish, Fail, Speak
<1>a. \A t, u \in Turns : reply[t] \in Alive /\ reply[u] \in Alive => t = u
  BY DEF ReplyInv
<1>b. answering <=> Owed
  BY DEF ReplyInv
<1>c. HumanHasFloor => ~answering /\ \A t \in Turns : reply[t] \notin Alive
  BY DEF ReplyInv, Owed, Alive
<1>1. CASE Interruption
  <2>1. \A t \in Turns : reply'[t] \notin Alive
    BY <1>1, StopType DEF Interruption, CancelAll, Alive
  <2>2. ~answering'
    BY <1>1 DEF Interruption, Interrupt
  <2> QED
    BY <2>1, <2>2 DEF ReplyInv, Owed, Alive
<1>2. CASE UserTurn
  <2>1. HumanHasFloor
    BY <1>2 DEF UserTurn, HumanHasFloor
  <2>2. \A t \in Turns : reply'[t] \notin Alive
    BY <1>2, <1>c, <2>1 DEF UserTurn
  <2>3. ~answering'
    BY <1>2 DEF UserTurn, Interrupt
  <2> QED
    BY <2>2, <2>3 DEF ReplyInv, Owed, Alive
<1>3. CASE Amend \/ Forward
  BY <1>3, <1>a, <1>b, <1>c
     DEF Amend, Forward, ReplyInv, HumanHasFloor, Owed, replies, TypeOK
<1>4. CASE StartReply
  <2>1. HumanHasFloor /\ ~HumanHasFloor'
    BY <1>4 DEF StartReply, HumanHasFloor
  <2>2. \A t \in Turns : reply'[t] \in Alive => t = turn + 1 /\ reply'[t] = "created"
    BY <1>4, <1>c, <2>1 DEF StartReply, TypeOK
  <2>3. ~answering'
    BY <1>4, <1>c, <2>1 DEF StartReply
  <2> QED
    BY <2>1, <2>2, <2>3 DEF ReplyInv, Owed, Alive
<1>5. ASSUME NEW t \in Turns, BeginReply(t)
      PROVE  ReplyInv'
  <2>1. ~HumanHasFloor /\ ~HumanHasFloor'
    BY <1>5, <1>c DEF BeginReply, HumanHasFloor, Alive
  <2>2. reply'[t] = "model" /\ \A u \in Turns : u # t => reply'[u] = reply[u]
    BY <1>5 DEF BeginReply, TypeOK
  <2>3. \A u \in Turns : u # t => reply[u] \notin Alive
    BY <1>5, <1>a DEF BeginReply, Alive
  <2> QED
    BY <1>5, <2>1, <2>2, <2>3 DEF ReplyInv, Owed, BeginReply
<1>6. ASSUME NEW t \in Turns, Commit(t) \/ CallAgain(t)
      PROVE  ReplyInv'
  <2>1. /\ reply[t] \in {"model", "committed"} /\ reply'[t] \in {"model", "committed"}
        /\ \A u \in Turns : u # t => reply'[u] = reply[u]
        /\ UNCHANGED <<answering, node, barged>>
    BY <1>6 DEF Commit, CallAgain, TypeOK
  <2>2. reply[t] \in Alive
    BY <2>1 DEF Alive
  <2>3. Owed /\ Owed'
    BY <2>1 DEF Owed
  <2> QED
    BY <1>a, <1>b, <1>c, <2>1, <2>2, <2>3 DEF ReplyInv, HumanHasFloor
<1>7. ASSUME NEW t \in Turns, Finish(t) \/ Fail(t)
      PROVE  ReplyInv'
  <2>1. /\ reply[t] \in Alive /\ reply'[t] \notin Alive
        /\ \A u \in Turns : u # t => reply'[u] = reply[u]
        /\ ~answering' /\ UNCHANGED <<node, barged>>
    BY <1>7 DEF Finish, Fail, TypeOK, Alive
  <2>2. \A u \in Turns : reply'[u] \notin Alive
    BY <1>a, <2>1
  <2> QED
    BY <2>1, <2>2 DEF ReplyInv, Owed, Alive
<1>8. CASE Speak \/ (\E t \in Turns : Chunk(t)) \/ UNCHANGED vars
  BY <1>8, <1>a, <1>b, <1>c DEF Speak, Chunk, vars, replies, ReplyInv, HumanHasFloor, Owed
<1> QED
  BY <1>1, <1>2, <1>3, <1>4, <1>5, <1>6, <1>7, <1>8 DEF Next, NodeStep, ReplyStep

-----------------------------------------------------------------------------
(* Silence for the human *)

LEMMA StepFrameInv ==
  ASSUME TypeOK, ReplyInv, FrameInv, [Next]_vars
  PROVE  FrameInv'
<1>1. CASE Interruption \/ UserTurn \/ Amend \/ Forward \/ StartReply
  BY <1>1 DEF FrameInv, SilentForTheHuman, Interruption, UserTurn, Interrupt, Amend,
              Forward, StartReply, speech
<1>2. ASSUME NEW t \in Turns, Chunk(t) \/ Fail(t)
      PROVE  FrameInv'
  <2>1. reply[t] \in Alive /\ UNCHANGED <<node, barged, cutsIn>>
    BY <1>2 DEF Chunk, Fail, Alive
  <2>2. cutsIn => ~barged
    BY <2>1 DEF ReplyInv, HumanHasFloor
  <2> QED
    BY <2>1, <2>2 DEF FrameInv, SilentForTheHuman
<1>3. ASSUME NEW t \in Turns, BeginReply(t) \/ Commit(t) \/ CallAgain(t) \/ Finish(t)
      PROVE  FrameInv'
  BY <1>3 DEF FrameInv, SilentForTheHuman, BeginReply, Commit, CallAgain, Finish, speech
<1>4. CASE Speak
  BY <1>4 DEF FrameInv, SilentForTheHuman, Speak
<1>5. CASE UNCHANGED vars
  BY <1>5 DEF FrameInv, SilentForTheHuman, vars
<1> QED
  BY <1>1, <1>2, <1>3, <1>4, <1>5 DEF Next, NodeStep, ReplyStep

-----------------------------------------------------------------------------
(* What is claimed to have been heard *)

LEMMA StepHeardInv ==
  ASSUME TypeOK, HeardInv, [Next]_vars
  PROVE  HeardInv'
<1>1. ASSUME UNCHANGED history, heard \subseteq heard'
      PROVE  CutWordsWereHeard'
  BY <1>1 DEF HeardInv, CutWordsWereHeard
<1>2. CASE Interruption \/ UserTurn
  BY <1>1, <1>2 DEF HeardInv, Interruption, UserTurn, Interrupt, Transcript, speech
<1>3. CASE Amend
  <2>1. UNCHANGED heard /\ clip' = {} /\ UNCHANGED spoken
    BY <1>3 DEF Amend, speech
  <2>2. CASE /\ history # <<>>
             /\ history' = [history EXCEPT ![Len(history)] = Rewritten(@)]
    <3> DEFINE last == Len(history)
    <3>1. last \in 1..Len(history) /\ DOMAIN history = 1..Len(history)
      BY <2>2, EmptySeq, LenProperties DEF TypeOK
    <3>2. Rewritten(history[last]).words = clip
      BY <3>1, RewrittenType
    <3>3. DOMAIN history' = DOMAIN history
      BY <2>2
    <3>4. \A i \in DOMAIN history : history'[i] = IF i = last THEN Rewritten(history[last])
                                                  ELSE history[i]
      BY <2>2, <3>1
    <3> HIDE DEF last
    <3> QED
      BY <2>1, <3>2, <3>3, <3>4 DEF HeardInv, CutWordsWereHeard
  <2> QED
    BY <1>1, <1>3, <2>1, <2>2 DEF HeardInv, Amend
<1>4. CASE Forward \/ StartReply
  BY <1>1, <1>4 DEF HeardInv, Forward, StartReply, speech
<1>5. ASSUME NEW t \in Turns, Commit(t)
      PROVE  HeardInv'
  <2> DEFINE m == [turn |-> t, words |-> draft[t], cut |-> FALSE]
  <2>1. m \in Messages /\ ~m.cut
    BY DEF TypeOK, Messages
  <2>2. /\ DOMAIN history = 1..Len(history) /\ DOMAIN history' = 1..Len(history')
        /\ Len(history') = Len(history) + 1 /\ Len(history) \in Nat
        /\ \A i \in 1..Len(history) : history'[i] = history[i]
        /\ history'[Len(history) + 1] = m
    BY <1>5, <2>1, AppendProperties, LenProperties DEF TypeOK, Commit
  <2>3. CutWordsWereHeard'
    <3> SUFFICES ASSUME NEW i \in DOMAIN history', history'[i].cut
                 PROVE  history'[i].words \subseteq heard'
      BY DEF CutWordsWereHeard
    <3>1. i \in 1..Len(history) /\ history'[i] = history[i]
      BY <2>1, <2>2
    <3> QED
      BY <1>5, <2>2, <3>1 DEF HeardInv, CutWordsWereHeard, Commit, speech
  <2> QED
    BY <1>5, <2>3 DEF HeardInv, Commit, speech
<1>6. ASSUME NEW t \in Turns,
             BeginReply(t) \/ Chunk(t) \/ CallAgain(t) \/ Finish(t) \/ Fail(t)
      PROVE  HeardInv'
  BY <1>1, <1>6 DEF HeardInv, BeginReply, Chunk, CallAgain, Finish, Fail, speech
<1>7. CASE Speak
  BY <1>1, <1>7 DEF HeardInv, Speak
<1>8. CASE UNCHANGED vars
  BY <1>1, <1>8 DEF HeardInv, vars
<1> QED
  BY <1>2, <1>3, <1>4, <1>5, <1>6, <1>7, <1>8 DEF Next, NodeStep, ReplyStep

-----------------------------------------------------------------------------
(* The theorems *)

LEMMA InitInv ==
  Init => Inv
<1> SUFFICES ASSUME Init
             PROVE  ReplyInv /\ FrameInv /\ HeardInv
  BY InitType DEF Inv
<1>1. ReplyInv
  BY DEF Init, ReplyInv, HumanHasFloor, Owed, Alive
<1>2. FrameInv
  BY DEF Init, FrameInv, SilentForTheHuman
<1>3. HeardInv
  BY DEF Init, HeardInv, CutWordsWereHeard
<1> QED
  BY <1>1, <1>2, <1>3

LEMMA StepInv ==
  Inv /\ [Next]_vars => Inv'
BY StepType, StepReplyInv, StepFrameInv, StepHeardInv DEF Inv

LEMMA Invariance ==
  Spec => []Inv
BY InitInv, StepInv, PTL DEF Spec

\* Where the human may cut in there is at most one reply under way, and
\* `_answering` says exactly whether it is still owed
\* (AgentNodeProcessor._interrupt, _answer).
THEOREM OneReplyAtATime == Spec => []OneReplyOwed
<1>1. Inv => OneReplyOwed
  BY DEF Inv, ReplyInv, OneReplyOwed, Owed
<1> QED
  BY <1>1, Invariance, PTL

\* An interruption that has gone through leaves TTS nothing to say until the
\* human's turn is over (AgentNodeProcessor.process_frame).
THEOREM CuttingInSilences == Spec => []SilentForTheHuman
<1>1. Inv => SilentForTheHuman
  BY DEF Inv, FrameInv
<1> QED
  BY <1>1, Invariance, PTL

\* A message marked as cut off claims only words that were spoken
\* (VoiceTurn.transcript, LangGraphEngine.amend_conversation).
THEOREM CutMessagesAreTrue == Spec => []CutWordsWereHeard
<1>1. Inv => CutWordsWereHeard
  BY DEF Inv, HeardInv
<1> QED
  BY <1>1, Invariance, PTL

-----------------------------------------------------------------------------
(* BargeIn implements Dialogue: whose words are where *)

\* A reply has a number, and where the human may cut in only the latest lives.
NumberInv ==
  \A t \in Turns : /\ reply[t] # "none" => t <= turn
                   /\ cutsIn /\ reply[t] \in Alive => t = turn

DraftInv == \A t \in Turns : \A word \in draft[t] : word[1] = t

\* TTS holds words that may still be heard, and none once the human has begun.
QueueInv ==
  /\ \A i \in DOMAIN tts : Talk!Current(tts[i][1])
  /\ barged => tts = <<>>
  /\ cutsIn /\ node \in {"starting", "amendingFirst"} => barged

\* What is known to have been spoken of a reply that is owed is its own.
SpokenInv ==
  /\ cutsIn /\ answering => \A word \in spoken : word[1] = turn
  /\ node \in {"amending", "amendingFirst"} =>
       clip # {} /\ (cutsIn => \A word \in clip : word[1] = turn)

TalkInv == Inv /\ NumberInv /\ DraftInv /\ QueueInv /\ SpokenInv

LEMMA InitTalkInv == Init => TalkInv
<1> SUFFICES ASSUME Init
             PROVE  NumberInv /\ DraftInv /\ QueueInv /\ SpokenInv
  BY InitInv DEF TalkInv
<1>1. DOMAIN tts = {}
  BY EmptySeq, LenProperties DEF Init
<1> QED
  BY <1>1 DEF Init, NumberInv, DraftInv, QueueInv, SpokenInv, Alive

\* A reply that is alive answers a turn that may still be heard.
LEMMA AliveIsCurrent ==
  ASSUME NumberInv, NEW t \in Turns, reply[t] \in Alive
  PROVE  Talk!Current(t)
BY DEF NumberInv, Alive, Talk!Current

\* Nobody is answered while the human has the floor.
LEMMA NothingOwedOnTheFloor ==
  ASSUME Inv, cutsIn, HumanHasFloor
  PROVE  ~answering /\ \A t \in Turns : reply[t] \notin Alive
BY DEF Inv, ReplyInv, Owed, Alive

LEMMA StepNumberInv ==
  ASSUME TypeOK, Inv, NumberInv, [Next]_vars
  PROVE  NumberInv'
<1>1. CASE Interruption \/ UserTurn
  <2>1. UNCHANGED <<turn, cutsIn>>
    BY <1>1 DEF Interruption, UserTurn
  <2>2. \A t \in Turns : /\ reply'[t] # "none" => reply[t] # "none"
                         /\ reply'[t] \in Alive => reply[t] \in Alive
    BY <1>1 DEF Interruption, UserTurn, CancelAll, Stop, Alive
  <2> QED
    BY <2>1, <2>2 DEF NumberInv
<1>2. CASE StartReply
  <2>1. turn \in Nat /\ turn' = turn + 1 /\ cutsIn' = cutsIn
    BY <1>2, TurnsAssumption DEF StartReply, TypeOK
  <2>2. \A t \in Turns : t \in Nat
    BY TurnsAssumption DEF Turns
  <2>3. \A t \in Turns : reply'[t] = IF t = turn + 1 THEN "created" ELSE reply[t]
    BY <1>2 DEF StartReply, TypeOK
  <2>4. cutsIn => \A t \in Turns : reply[t] \notin Alive
    BY <1>2, NothingOwedOnTheFloor DEF StartReply, HumanHasFloor
  <2> QED
    BY <2>1, <2>2, <2>3, <2>4 DEF NumberInv
<1>3. ASSUME NEW t \in Turns,
             \/ BeginReply(t) \/ Commit(t) \/ CallAgain(t) \/ Finish(t) \/ Fail(t)
      PROVE  NumberInv'
  <2>1. reply[t] \in Alive /\ UNCHANGED <<turn, cutsIn>>
    BY <1>3 DEF BeginReply, Commit, CallAgain, Finish, Fail, Alive
  <2>2. \A u \in Turns : u # t => reply'[u] = reply[u]
    BY <1>3 DEF BeginReply, Commit, CallAgain, Finish, Fail, TypeOK
  <2> QED
    BY <2>1, <2>2 DEF NumberInv, Alive
<1>4. CASE Amend \/ Forward \/ Speak \/ (\E t \in Turns : Chunk(t)) \/ UNCHANGED vars
  BY <1>4 DEF Amend, Forward, Speak, Chunk, vars, replies, NumberInv
<1> QED
  BY <1>1, <1>2, <1>3, <1>4 DEF Next, NodeStep, ReplyStep

LEMMA StepDraftInv ==
  ASSUME TypeOK, DraftInv, [Next]_vars
  PROVE  DraftInv'
<1>1. ASSUME NEW t \in Turns, Chunk(t)
      PROVE  DraftInv'
  <2>1. draft' = [draft EXCEPT ![t] = @ \cup {<<t, produced[t] + 1>>}]
    BY <1>1 DEF Chunk
  <2> QED
    BY <2>1 DEF DraftInv, TypeOK
<1>2. ASSUME NEW t \in Turns, Commit(t) \/ Fail(t)
      PROVE  DraftInv'
  BY <1>2 DEF Commit, Fail, DraftInv, TypeOK
<1>3. CASE UNCHANGED draft
  BY <1>3 DEF DraftInv
<1> QED
  BY <1>1, <1>2, <1>3 DEF Next, NodeStep, ReplyStep, Interruption, UserTurn, Amend, Forward,
     StartReply, BeginReply, CallAgain, Finish, Speak, vars, replies

\* A word of the turn t joins the queue.
LEMMA QueueGrows ==
  ASSUME TypeOK, QueueInv, NEW t \in Turns, Talk!Current(t), NEW word \in Words, word[1] = t,
         tts' = Append(tts, word), UNCHANGED <<turn, cutsIn, node, barged>>, ~barged
  PROVE  QueueInv'
<1>1. /\ DOMAIN tts = 1..Len(tts) /\ DOMAIN tts' = 1..(Len(tts) + 1) /\ Len(tts) \in Nat
      /\ \A i \in 1..Len(tts) : tts'[i] = tts[i]
      /\ tts'[Len(tts) + 1] = word
  BY AppendProperties, LenProperties DEF TypeOK
<1> QED
  BY <1>1 DEF QueueInv, Talk!Current

LEMMA StepQueueInv ==
  ASSUME TypeOK, Inv, NumberInv, QueueInv, [Next]_vars
  PROVE  QueueInv'
<1>1. CASE Interruption \/ UserTurn
  BY <1>1, NothingOwedOnTheFloor DEF QueueInv, Interruption, UserTurn, Interrupt, speech,
     HumanHasFloor, Talk!Current
<1>2. CASE Amend
  BY <1>2 DEF QueueInv, Amend, replies, speech, Talk!Current
<1>3. CASE Forward
  <2>1. DOMAIN tts' = {}
    BY <1>3, EmptySeq, LenProperties DEF Forward
  <2> QED
    BY <1>3, <2>1 DEF QueueInv, Forward
<1>4. CASE StartReply
  <2>1. turn \in Nat /\ turn' = turn + 1 /\ UNCHANGED <<tts, cutsIn>>
    BY <1>4, TurnsAssumption DEF StartReply, TypeOK, speech
  <2>2. node' = "idle" /\ ~barged'
    BY <1>4 DEF StartReply
  <2>3. \A i \in DOMAIN tts : ~cutsIn
    BY <1>4, EmptySeq, LenProperties DEF QueueInv, StartReply
  <2>4. \A i \in DOMAIN tts : tts[i][1] \in Nat
    <3> SUFFICES ASSUME NEW i \in DOMAIN tts
                 PROVE  tts[i][1] \in Nat
      OBVIOUS
    <3>1. tts[i] \in Words
      BY DEF TypeOK
    <3> QED
      BY <3>1, TurnsAssumption DEF Words, Turns
  <2> QED
    BY <2>1, <2>2, <2>3, <2>4 DEF QueueInv, Talk!Current
<1>5. ASSUME NEW t \in Turns, Chunk(t) \/ Fail(t)
      PROVE  QueueInv'
  <2>1. reply[t] \in Alive /\ UNCHANGED <<turn, cutsIn, node, barged>>
    BY <1>5 DEF Chunk, Fail, Alive
  <2>2. ~barged
    BY <2>1, NothingOwedOnTheFloor DEF Inv, FrameInv, HumanHasFloor
  <2>3. PICK word \in Words : word[1] = t /\ tts' = Append(tts, word)
    <3>1. produced[t] \in Nat /\ 0 \in 0..MaxWords
      BY WordsAssumption DEF TypeOK
    <3>2. <<t, 0>> \in Words /\ <<t, 0>>[1] = t
      BY <3>1 DEF Words
    <3>3. Chunk(t) => <<t, produced[t] + 1>> \in Words /\ <<t, produced[t] + 1>>[1] = t
      BY <3>1, WordsAssumption DEF Chunk, Words
    <3> QED
      BY <1>5, <3>2, <3>3 DEF Chunk, Fail
  <2> QED
    BY <2>1, <2>2, <2>3, AliveIsCurrent, QueueGrows
<1>6. CASE Speak
  <2>1. /\ DOMAIN tts = 1..Len(tts) /\ DOMAIN tts' = 1..(Len(tts) - 1) /\ Len(tts) \in Nat
        /\ \A i \in 1..(Len(tts) - 1) : tts'[i] = tts[i + 1]
    BY <1>6, HeadTailProperties, LenProperties DEF Speak, TypeOK
  <2>2. \A i \in DOMAIN tts' : i + 1 \in DOMAIN tts
    BY <2>1
  <2>3. UNCHANGED <<turn, cutsIn, node, barged>> /\ ~barged
    BY <1>6 DEF Speak, QueueInv, replies
  <2> QED
    BY <2>1, <2>2, <2>3 DEF QueueInv, Talk!Current
<1>7. CASE UNCHANGED <<tts, turn, cutsIn, node, barged>>
  BY <1>7 DEF QueueInv, Talk!Current
<1> QED
  BY <1>1, <1>2, <1>3, <1>4, <1>5, <1>6, <1>7 DEF Next, NodeStep, ReplyStep, BeginReply,
     Commit, CallAgain, Finish, vars, speech

LEMMA StepSpokenInv ==
  ASSUME TypeOK, Inv, NumberInv, QueueInv, SpokenInv, [Next]_vars
  PROVE  SpokenInv'
<1>1. CASE Interruption \/ UserTurn
  <2>1. ~answering' /\ UNCHANGED <<spoken, turn, cutsIn>>
    BY <1>1 DEF Interruption, UserTurn, Interrupt, speech
  <2>2. node' \in {"amending", "amendingFirst"} => answering /\ spoken # {} /\ clip' = spoken
    BY <1>1 DEF Interruption, UserTurn, Interrupt, Transcript
  <2> QED
    BY <2>1, <2>2 DEF SpokenInv
<1>2. CASE Amend \/ Forward
  BY <1>2 DEF SpokenInv, Amend, Forward, replies, speech
<1>3. CASE StartReply
  <2>1. cutsIn => ~answering
    BY <1>3, NothingOwedOnTheFloor DEF StartReply, HumanHasFloor
  <2> QED
    BY <1>3, <2>1 DEF SpokenInv, StartReply
<1>4. ASSUME NEW t \in Turns, BeginReply(t)
      PROVE  SpokenInv'
  BY <1>4 DEF SpokenInv, BeginReply
<1>5. ASSUME NEW t \in Turns, Finish(t) \/ Fail(t)
      PROVE  SpokenInv'
  BY <1>5 DEF SpokenInv, Finish, Fail, speech
<1>6. CASE Speak
  <2>1. Head(tts) = tts[1] /\ 1 \in DOMAIN tts
    BY <1>6, HeadTailProperties, LenProperties, EmptySeq DEF Speak, TypeOK
  <2>2. cutsIn => Head(tts)[1] = turn
    BY <2>1 DEF QueueInv, Talk!Current
  <2> QED
    BY <1>6, <2>2 DEF SpokenInv, Speak, replies
<1>7. CASE UNCHANGED <<answering, spoken, turn, cutsIn, node, clip>>
  BY <1>7 DEF SpokenInv
<1> QED
  BY <1>1, <1>2, <1>3, <1>4, <1>5, <1>6, <1>7 DEF Next, NodeStep, ReplyStep, Chunk,
     Commit, CallAgain, vars, speech

LEMMA StepTalkInv == TalkInv /\ [Next]_vars => TalkInv'
<1> SUFFICES ASSUME TalkInv, [Next]_vars
             PROVE  TalkInv'
  OBVIOUS
<1>1. TypeOK /\ Inv /\ Inv'
  BY StepInv DEF TalkInv, Inv
<1>2. NumberInv' /\ DraftInv'
  BY <1>1, StepNumberInv, StepDraftInv DEF TalkInv
<1>3. QueueInv' /\ SpokenInv'
  BY <1>1, StepQueueInv, StepSpokenInv DEF TalkInv
<1> QED
  BY <1>1, <1>2, <1>3 DEF TalkInv

-----------------------------------------------------------------------------
(* BargeIn implements Dialogue: the steps, and the theorem *)

\* A model's message joins the history.
LEMMA CommitTalks ==
  ASSUME TalkInv, NEW t \in Turns, Commit(t)
  PROVE  Talk!Next
<1> DEFINE m == [turn |-> t, words |-> draft[t], cut |-> FALSE]
<1>1. TypeOK /\ reply[t] \in Alive /\ m \in Messages /\ UNCHANGED <<turn, heard, cutsIn>>
  BY DEF TalkInv, Inv, TypeOK, Messages, Alive, Commit, speech
<1>2. history' = Append(history, m) /\ m.words # {}
  BY DEF Commit
<1>3. m.turn = t /\ ~m.cut /\ Talk!Current(t) /\ Talk!SaidIn(m.words, t)
  BY <1>1, AliveIsCurrent DEF TalkInv, DraftInv, Talk!SaidIn
<1> HIDE DEF m
<1>4. Len(history') = Len(history) + 1 /\ history'[Len(history')] = m /\ Len(history) \in Nat
  BY <1>1, <1>2, AppendProperties, LenProperties DEF TypeOK
<1>5. Talk!Join(m)
  BY <1>1, <1>2, <1>3 DEF Talk!Join
<1> QED
  BY <1>4, <1>5 DEF Talk!Next

\* A correction that is written cuts the newest message.
LEMMA AmendTalks ==
  ASSUME TalkInv, Amend
  PROVE  Talk!Next \/ UNCHANGED Talk!dialogueVars
<1>1. UNCHANGED <<turn, heard, cutsIn>> /\ TypeOK
  BY DEF Amend, replies, speech, TalkInv, Inv
<1>2. CASE history' = history
  BY <1>1, <1>2 DEF Talk!dialogueVars
<1>3. CASE history' # history
  <2> DEFINE last == Len(history)
  <2>1. history # <<>> /\ history' = [history EXCEPT ![last] = Rewritten(@)]
    BY <1>3 DEF Amend
  <2>2. last \in 1..Len(history) /\ DOMAIN history = 1..Len(history)
    BY <1>1, <2>1, EmptySeq, LenProperties DEF TypeOK
  <2>3. Rewritten(history[last]) = [history[last] EXCEPT !.words = clip, !.cut = TRUE]
    BY DEF Rewritten
  <2>4. history'[last].words = clip
    BY <1>1, <2>1, <2>2, RewrittenType
  <2>5. /\ clip # {} /\ clip \subseteq heard
        /\ cutsIn => Talk!SaidIn(clip, turn)
    BY DEF TalkInv, SpokenInv, Inv, HeardInv, Amend, Talk!SaidIn
  <2>6. history' = [history EXCEPT ![last].words = clip, ![last].cut = TRUE]
    BY <2>1, <2>2, <2>3
  <2>7. Talk!Cut(clip)
    BY <1>1, <2>1, <2>5, <2>6 DEF Talk!Cut
  <2> QED
    BY <1>3, <2>4, <2>7 DEF Talk!Next
<1> QED
  BY <1>2, <1>3

\* A word that is spoken is heard.
LEMMA SpeakTalks ==
  ASSUME TalkInv, Speak
  PROVE  Talk!Next \/ UNCHANGED Talk!dialogueVars
<1>1. UNCHANGED <<turn, history, cutsIn>> /\ heard' = heard \cup {Head(tts)}
  BY DEF Speak, replies
<1>2. Head(tts) = tts[1] /\ 1 \in DOMAIN tts
  BY HeadTailProperties, LenProperties, EmptySeq DEF Speak, TalkInv, Inv, TypeOK
<1>3. Talk!Hear(Head(tts))
  BY <1>1, <1>2 DEF TalkInv, QueueInv, Talk!Hear
<1>4. CASE Head(tts) \in heard
  BY <1>1, <1>4 DEF Talk!dialogueVars
<1>5. CASE Head(tts) \notin heard
  BY <1>1, <1>3, <1>5 DEF Talk!Next
<1> QED
  BY <1>4, <1>5

LEMMA StepTalks ==
  TalkInv /\ [Next]_vars => [Talk!Next]_(Talk!dialogueVars)
<1> SUFFICES ASSUME TalkInv, [Next]_vars
             PROVE  Talk!Next \/ UNCHANGED Talk!dialogueVars
  OBVIOUS
<1>1. CASE StartReply
  BY <1>1 DEF StartReply, speech, Talk!Next, Talk!TakeTurn
<1>2. CASE UNCHANGED <<turn, history, heard, cutsIn>>
  BY <1>2 DEF Talk!dialogueVars
<1> QED
  BY <1>1, <1>2, CommitTalks, AmendTalks, SpeakTalks DEF Next, NodeStep, ReplyStep,
     Interruption, UserTurn, Interrupt, Forward, BeginReply, Chunk, CallAgain, Finish,
     Fail, vars, speech, replies

\* Through every interleaving of the agent node, the reply task, TTS and the
\* human, what is heard and what is remembered make one dialogue
\* (AgentNodeProcessor, VoiceTurn, LangGraphEngine.amend_conversation).
THEOREM ImplementsDialogue == Spec => KeepsDialogue
<1>1. Init => Talk!Init
  BY DEF Init, Talk!Init
<1>2. Spec => []TalkInv
  BY InitTalkInv, StepTalkInv, PTL DEF Spec
<1>3. Spec => Talk!Init /\ [][Talk!Next]_(Talk!dialogueVars)
  BY <1>1, <1>2, StepTalks, PTL DEF Spec
<1> QED
  BY <1>3 DEF KeepsDialogue, Talk!Spec
=============================================================================
