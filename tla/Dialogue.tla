------------------------------ MODULE Dialogue ------------------------------
(***************************************************************************)
(* What a human who may cut in can rely on about one spoken conversation,  *)
(* with no task, frame, queue or checkpoint in sight: only the answer to   *)
(* the latest turn is heard, answers join the history in the order of the  *)
(* turns and in words of their own, and the one thing ever rewritten is    *)
(* the newest message, to words of the latest turn that were heard.        *)
(*                                                                         *)
(* It does not promise that the rewritten message is an answer to that     *)
(* turn: see AmendsItsOwnReply in BargeIn, which implements it. Where the  *)
(* human may not cut in, answers to several turns may mix.                 *)
(***************************************************************************)
EXTENDS Naturals, Sequences

VARIABLES turn,     \* the human's turns so far
          history,  \* what the conversation remembers of the answers
          heard,    \* the words the human has heard; each names its turn
          strict    \* the human may cut in

dialogueVars == <<turn, history, heard, strict>>

Current(t) == IF strict THEN t = turn ELSE t <= turn
SaidIn(words, t) == \A word \in words : word[1] = t

Init == turn = 0 /\ history = <<>> /\ heard = {} /\ strict \in BOOLEAN

TakeTurn ==
  /\ turn' = turn + 1
  /\ UNCHANGED <<history, heard, strict>>

Hear(word) ==
  /\ Current(word[1])
  /\ heard' = heard \cup {word}
  /\ UNCHANGED <<turn, history, strict>>

\* An answer joins the history, heard or not.
Join(message) ==
  /\ Current(message.turn) /\ ~message.cut
  /\ message.words # {} /\ SaidIn(message.words, message.turn)
  /\ history' = Append(history, message)
  /\ UNCHANGED <<turn, heard, strict>>

\* The newest message is cut to what was heard.
Cut(words) ==
  /\ history # <<>>
  /\ words # {} /\ words \subseteq heard
  /\ strict => SaidIn(words, turn)
  /\ history' = [history EXCEPT ![Len(history)].words = words, ![Len(history)].cut = TRUE]
  /\ UNCHANGED <<turn, heard, strict>>

Next ==
  \/ TakeTurn
  \/ \E word \in heard' \ heard : Hear(word)
  \/ Len(history') > Len(history) /\ Join(history'[Len(history')])
  \/ history' # history /\ Cut(history'[Len(history)].words)

Spec == Init /\ [][Next]_dialogueVars
=============================================================================
