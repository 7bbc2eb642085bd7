------------------------------ MODULE BargeIn ------------------------------
(***************************************************************************)
(* One voice session: the agent node and the spoken-text witness of the    *)
(* Pipecat adapter around one VoiceTurn, the TTS between them, and the     *)
(* conversation history that amend_conversation corrects on a barge-in.    *)
(*                                                                         *)
(* The agent node handles one frame at a time; the reply is a task of its  *)
(* own and TTS speaks at its own pace, so generation, speech, history and  *)
(* the human's interruptions interleave freely. A word stands for a chunk  *)
(* of text that is spoken as a whole.                                      *)
(***************************************************************************)
EXTENDS Naturals, Sequences

CONSTANTS
  MaxTurns,      \* bound: the human's turns in the session
  MaxWords       \* bound: the words a reply generates

ASSUME TurnsAssumption == MaxTurns \in Nat
ASSUME WordsAssumption == MaxWords \in Nat

VARIABLES
  turn,       \* the human's turns answered so far (the latest reply's number)
  reply,      \* where the reply task of each turn is
  produced,   \* how many words each reply has generated
  draft,      \* the words of the model call under way, per reply
  history,    \* the assistant messages of the checkpointed conversation: the reply
              \* each belongs to, its words, and whether it is marked as cut off
  answering,  \* AgentNodeProcessor._answering: a reply is still owed
  spoken,     \* VoiceTurn.spoken: the words the witness confirmed
  tts,        \* text handed to TTS and not spoken yet
  heard,      \* what the human has heard, over the whole session
  node,       \* what the agent node is in the middle of: nothing, correcting history
              \* on an InterruptionFrame, passing that frame on, correcting history or
              \* starting a reply on the human's finished turn
  clip,       \* the transcript it hands to amend_history
  barged,     \* the human's next turn has begun with an InterruptionFrame
  cutsIn      \* voice.allow_interruptions: a turn begins with such a frame

replies == <<turn, reply, produced, draft>>
speech == <<spoken, tts, heard>>
vars == <<turn, reply, produced, draft, history, answering, spoken, tts, heard,
          node, clip, barged, cutsIn>>

-----------------------------------------------------------------------------
(* Data *)

Turns == 1..MaxTurns

\* The i-th word of a reply; word 0 is the apology of a failed turn.
Words == Turns \X (0..MaxWords)

\* The states of a reply task: created but not run yet, its model node
\* running, or its last model call committed to the checkpoint.
Alive == {"created", "model", "committed"}

Generated(t) == {<<t, i>> : i \in 1..produced[t]}

\* VoiceTurn.transcript(interrupted=True), without its marker.
Transcript == spoken

-----------------------------------------------------------------------------
(* The agent node: InterruptionFrame and LLMContextFrame *)

Stop(t) == IF reply[t] \in Alive THEN "ended" ELSE reply[t]

\* Pipecat cancels the tasks of a processor before the processor sees the
\* InterruptionFrame.
CancelAll == reply' = [t \in Turns |-> Stop(t)]

\* AgentNodeProcessor._interrupt up to the store: nothing when no reply is
\* owed, and no correction when nothing was spoken.
Interrupt(busy, free) ==
  /\ answering' = FALSE
  /\ IF answering /\ spoken # {}
     THEN node' = busy /\ clip' = Transcript
     ELSE node' = free /\ UNCHANGED clip

\* An InterruptionFrame arrives: the human has begun to speak.
Interruption ==
  /\ cutsIn /\ node = "idle"
  /\ CancelAll
  /\ Interrupt("amending", "forwarding")
  /\ UNCHANGED <<turn, produced, draft, history, speech, barged, cutsIn>>

\* An LLMContextFrame arrives: the human's turn is over and is not empty.
\* _interrupt cancels the latest reply, and only if it is owed.
UserTurn ==
  /\ node = "idle" /\ turn < MaxTurns
  /\ cutsIn => barged
  /\ Interrupt("amendingFirst", "starting")
  /\ reply' = [t \in Turns |-> IF t = turn /\ answering THEN Stop(t) ELSE reply[t]]
  /\ UNCHANGED <<turn, produced, draft, history, speech, barged, cutsIn>>

Rewritten(message) == [message EXCEPT !.words = clip, !.cut = TRUE]

\* Mutated form: a conversation without an assistant message raises.
AmendOrRaise ==
  /\ node \in {"amending", "amendingFirst"}
  /\ history # <<>>
  /\ history' = [history EXCEPT ![Len(history)] = Rewritten(@)]
  /\ node' = IF node = "amending" THEN "forwarding" ELSE "starting"
  /\ clip' = {}
  /\ UNCHANGED <<replies, answering, speech, barged, cutsIn>>

\* LangGraphEngine.amend_conversation: the newest assistant message is
\* replaced; a conversation without one, and a store that fails, are left as
\* they are.
Amend ==
  /\ node \in {"amending", "amendingFirst"}
  /\ \/ /\ history # <<>>
        /\ history' = [history EXCEPT ![Len(history)] = Rewritten(@)]
     \/ UNCHANGED history
  /\ node' = IF node = "amending" THEN "forwarding" ELSE "starting"
  /\ clip' = {}
  /\ UNCHANGED <<replies, answering, speech, barged, cutsIn>>

\* Mutated form: a frame that found no reply owed goes no further.
ForwardNothing ==
  /\ node = "forwarding"
  /\ node' = "idle"
  /\ barged' = TRUE
  /\ UNCHANGED <<replies, history, answering, speech, clip, cutsIn>>

\* The InterruptionFrame goes downstream: TTS drops what it has not spoken.
Forward ==
  /\ node = "forwarding"
  /\ node' = "idle"
  /\ tts' = <<>>
  /\ barged' = TRUE
  /\ UNCHANGED <<replies, history, answering, spoken, heard, clip, cutsIn>>

\* The reply task of the human's turn is created.
StartReply ==
  /\ node = "starting"
  /\ turn' = turn + 1
  /\ reply' = [reply EXCEPT ![turn + 1] = "created"]
  /\ node' = "idle"
  /\ barged' = FALSE
  /\ UNCHANGED <<produced, draft, history, answering, speech, clip, cutsIn>>

-----------------------------------------------------------------------------
(* The reply task: AgentNodeProcessor._answer over VoiceTurn.say *)

\* Mutated form: say goes on with what was spoken before.
BeginReplyUncleared(t) ==
  /\ reply[t] = "created"
  /\ reply' = [reply EXCEPT ![t] = "model"]
  /\ answering' = TRUE
  /\ UNCHANGED <<turn, produced, draft, history, speech, node, clip, barged, cutsIn>>

\* The task runs: the reply is owed from here, and say clears the state of
\* the last utterance.
BeginReply(t) ==
  /\ reply[t] = "created"
  /\ reply' = [reply EXCEPT ![t] = "model"]
  /\ answering' = TRUE
  /\ spoken' = {}
  /\ UNCHANGED <<turn, produced, draft, history, tts, heard, node, clip,
                 barged, cutsIn>>

\* The model streams one more chunk, and it goes to TTS at once.
Chunk(t) ==
  /\ reply[t] = "model" /\ produced[t] < MaxWords
  /\ LET word == <<t, produced[t] + 1>>
     IN  /\ draft' = [draft EXCEPT ![t] = @ \cup {word}]
         /\ tts' = Append(tts, word)
  /\ produced' = [produced EXCEPT ![t] = @ + 1]
  /\ UNCHANGED <<turn, reply, history, answering, spoken, heard, node, clip,
                 barged, cutsIn>>

\* The model node ends: its message becomes part of the conversation. Messages
\* without a word (silent tool calls) are not kept apart.
Commit(t) ==
  /\ reply[t] = "model" /\ draft[t] # {}
  /\ reply' = [reply EXCEPT ![t] = "committed"]
  /\ history' = Append(history, [turn |-> t, words |-> draft[t], cut |-> FALSE])
  /\ draft' = [draft EXCEPT ![t] = {}]
  /\ UNCHANGED <<turn, produced, answering, speech, node, clip, barged, cutsIn>>

\* Mutated form: the model is called again with nothing left to say.
CallAgainForEver(t) ==
  /\ reply[t] = "committed"
  /\ reply' = [reply EXCEPT ![t] = "model"]
  /\ UNCHANGED <<turn, produced, draft, history, answering, speech, node, clip,
                 barged, cutsIn>>

\* The committed message asked for tools; with their results the model is
\* called again and has more to say.
CallAgain(t) ==
  /\ reply[t] = "committed" /\ produced[t] < MaxWords
  /\ reply' = [reply EXCEPT ![t] = "model"]
  /\ UNCHANGED <<turn, produced, draft, history, answering, speech, node, clip,
                 barged, cutsIn>>

\* Mutated form: the flag is not cleared when a reply has run to its end.
FinishStillOwed(t) ==
  /\ reply[t] = "committed"
  /\ reply' = [reply EXCEPT ![t] = "ended"]
  /\ UNCHANGED <<turn, produced, draft, history, answering, speech, node, clip,
                 barged, cutsIn>>

\* The stream is exhausted: nothing is owed any more.
Finish(t) ==
  /\ reply[t] = "committed"
  /\ reply' = [reply EXCEPT ![t] = "ended"]
  /\ answering' = FALSE
  /\ UNCHANGED <<turn, produced, draft, history, speech, node, clip, barged,
                 cutsIn>>

\* The model, a tool or the store fails: the apology is spoken instead.
Fail(t) ==
  /\ reply[t] \in {"model", "committed"}
  /\ reply' = [reply EXCEPT ![t] = "ended"]
  /\ draft' = [draft EXCEPT ![t] = {}]
  /\ tts' = Append(tts, <<t, 0>>)
  /\ answering' = FALSE
  /\ UNCHANGED <<turn, produced, history, spoken, heard, node, clip, barged,
                 cutsIn>>

-----------------------------------------------------------------------------
(* TTS and the witness *)

\* TTS speaks a word; SpokenWitness sees it go by and confirms it.
Speak ==
  /\ tts # <<>>
  /\ heard' = heard \cup {Head(tts)}
  /\ spoken' = spoken \cup {Head(tts)}
  /\ tts' = Tail(tts)
  /\ UNCHANGED <<replies, history, answering, node, clip, barged, cutsIn>>

-----------------------------------------------------------------------------
(* The specification *)

Init ==
  /\ turn = 0
  /\ reply = [t \in Turns |-> "none"]
  /\ produced = [t \in Turns |-> 0]
  /\ draft = [t \in Turns |-> {}]
  /\ history = <<>>
  /\ answering = FALSE
  /\ spoken = {} /\ tts = <<>> /\ heard = {}
  /\ node = "idle" /\ clip = {} /\ barged = FALSE /\ cutsIn \in BOOLEAN

NodeStep == Amend \/ Forward \/ StartReply

ReplyStep(t) == BeginReply(t) \/ Chunk(t) \/ Commit(t) \/ CallAgain(t) \/ Finish(t)

Next ==
  \/ Interruption \/ UserTurn \/ NodeStep
  \/ \E t \in Turns : ReplyStep(t) \/ Fail(t)
  \/ Speak

Spec == Init /\ [][Next]_vars

\* The event loop keeps running the node, the reply task and TTS. The human is
\* owed nothing by this, and nothing has to fail: Interruption, UserTurn and
\* Fail are not fair.
Fairness ==
  /\ WF_vars(NodeStep)
  /\ \A t \in Turns : WF_vars(ReplyStep(t))
  /\ WF_vars(Speak)

FairSpec == Spec /\ Fairness

-----------------------------------------------------------------------------
(* Properties *)

\* Where the human may cut in, `_answering` says exactly whether a reply is
\* still owed, whoever cancelled the task and however it ended (the comments in
\* _answer and _interrupt), and speaking again abandons the old answer instead
\* of interleaving two (tests/test_pipecat_adapter.py). Without interruptions
\* neither holds: a reply not yet begun is not owed, and a second turn that is
\* over by then leaves it running.
OneReplyOwed ==
  cutsIn =>
    /\ answering <=> \E t \in Turns : reply[t] \in {"model", "committed"}
    /\ \A t, u \in Turns : reply[t] \in Alive /\ reply[u] \in Alive => t = u

\* A message marked `[cancelled by user]` claims nothing the human did not
\* hear, whatever was still queued in TTS (VoiceTurn.transcript).
CutWordsWereHeard ==
  \A i \in DOMAIN history : history[i].cut => history[i].words \subseteq heard

\* Cutting in stops the audio: once the interruption has gone through, TTS
\* has nothing left to say until the human's turn is over
\* (AgentNodeProcessor.process_frame).
SilentForTheHuman == barged /\ node = "idle" => tts = <<>>

\* A turn that was started is answered, cut off or apologised for, and is
\* never left hanging.
RepliesEnd == \A t \in Turns : (reply[t] = "created") ~> (reply[t] = "ended")

\* An interruption always gets through to TTS and the session goes on,
\* whether or not history could be corrected (amend_conversation is
\* fail-open).
NodeComesBack == (node # "idle") ~> (node = "idle")

\* An interrupted turn rewrites its own reply and leaves the replies of
\* earlier turns as they were delivered (amend_conversation).
AmendsItsOwnReply ==
  [][\A i \in DOMAIN history : history'[i] # history[i] => history[i].turn = turn]_history

\* What the human hears and what the conversation remembers fit together: an
\* answer abandoned by a barge-in is heard no more, answers are remembered in
\* order, and a correction is about what was heard of the turn cut off
\* (AgentNodeProcessor, VoiceTurn, amend_conversation).
Talk == INSTANCE Dialogue WITH strict <- cutsIn
KeepsDialogue == Talk!Spec
=============================================================================
