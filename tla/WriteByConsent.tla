--------------------------- MODULE WriteByConsent ---------------------------
(***************************************************************************)
(* What `confirm_writes: true` promises a human about the writes of one    *)
(* session, with no thread, token, ledger row or driver in sight: the      *)
(* agent asks for one write at a time, a write happens at most once and    *)
(* only while it is the one asked for, and it happens only with consent.   *)
(* A human's answer is what it takes to go on, and the model is told the   *)
(* truth: of a receipt only if the write happened, of a rejection only if  *)
(* it did not, and of an outcome nobody knows only after a crash. That an  *)
(* approved write happens is not promised: its tool may fail, and a write  *)
(* that was cut short is not repeated.                                     *)
(*                                                                         *)
(* docs/capabilities/checkpointing-and-hitl.md states the promise ("the    *)
(* write fires only when you resume with {"approved": true}", "Resuming    *)
(* with {"approved": false} declines, and the tool never runs"); Approval  *)
(* implements it.                                                          *)
(***************************************************************************)
EXTENDS Naturals

CONSTANT Writes \* the writes the agent may ask for

VARIABLES asked,    \* how many writes the agent has asked for
          open,     \* the latest of them is neither done nor passed over for good
          granted,  \* the writes a human has approved
          refused,  \* the writes a human has rejected
          happened, \* how often each write took effect
          word,     \* what the model was told of each write
          cut,      \* the agent's work was cut short by a crash before now
          strict    \* every answer of the human reaches the agent once at most

consentVars == <<asked, open, granted, refused, happened, word, cut, strict>>

\* The human's answers carry what the agent does now: the answer to this very
\* write, or, where answers are repeated, an answer to some write at least.
Carried(answers) == IF strict THEN asked \in answers ELSE answers # {}

Init ==
  /\ asked = 0 /\ open = FALSE
  /\ granted = {} /\ refused = {}
  /\ happened = [w \in Writes |-> 0]
  /\ word = [w \in Writes |-> "none"]
  /\ cut = FALSE
  /\ strict \in BOOLEAN

\* The agent asks for a write, once it is through with the one before; it may
\* be cut short as it does.
Ask ==
  /\ ~open
  /\ asked' = asked + 1 /\ open' = TRUE
  /\ cut' \in {cut, TRUE}
  /\ UNCHANGED <<granted, refused, happened, word, strict>>

\* A human answers for a write that was asked for; answering twice, and either
\* way, is a human's right.
Answer(w) ==
  /\ \/ granted' = granted \cup {w} /\ UNCHANGED refused
     \/ refused' = refused \cup {w} /\ UNCHANGED granted
  /\ UNCHANGED <<asked, open, happened, word, cut, strict>>

\* The agent's work is cut short.
CutShort ==
  /\ cut' = TRUE
  /\ UNCHANGED <<asked, open, granted, refused, happened, word, strict>>

\* The write asked for takes effect, for the first and only time.
Happen ==
  /\ open /\ happened[asked] = 0
  /\ Carried(granted)
  /\ happened' = [happened EXCEPT ![asked] = 1]
  /\ UNCHANGED <<asked, open, granted, refused, word, cut, strict>>

\* What the model may be told of the write asked for.
Truthful(said) ==
  \/ said = "receipt" /\ happened[asked] = 1
  \/ said = "rejected" /\ Carried(refused) /\ (strict => happened[asked] = 0)
  \/ said = "error" /\ Carried(granted)
  \/ said = "unknown" /\ Carried(granted) /\ cut

\* The agent goes on, after an answer of the human and with true word of it.
GoOn(said) ==
  /\ open
  /\ Truthful(said)
  /\ open' = FALSE
  /\ word' = [word EXCEPT ![asked] = said]
  /\ UNCHANGED <<asked, granted, refused, happened, cut, strict>>

Next ==
  \/ Ask \/ CutShort \/ Happen
  \/ \E w \in 1..asked : Answer(w)
  \/ \E said \in {"receipt", "rejected", "error", "unknown"} : GoOn(said)

Spec == Init /\ [][Next]_consentVars
=============================================================================
