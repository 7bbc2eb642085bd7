---------------------------- MODULE SharedSaver ----------------------------
(***************************************************************************)
(* The turns of one LangGraph agent and the checkpointer they share: every *)
(* verb opens a saver of its own (a Postgres connection, or the process's  *)
(* one in-memory saver), binds it to the agent's only graph and goes on    *)
(* through whatever saver the graph holds by then.                         *)
(***************************************************************************)
EXTENDS Naturals

CONSTANTS
  Calls,          \* the calls of run, stream, resume and amend_conversation
  Conversations,  \* the conversations they are about
  NoSaver         \* what a graph holds before its first turn

ASSUME NoSaverAssumption == NoSaver \notin Calls

VARIABLES
  store,     \* "postgres" when AGENT_SESSION_STORE_URI is set, else "memory"
  verb,      \* what each call does
  about,     \* the conversation each call is about
  at,        \* where each call is
  resuming,  \* what _has_history answered each call
  open,      \* the calls whose own saver is open
  bound,     \* graph.checkpointer: the call whose saver the graph holds
  through,   \* the saver each graph run was started with
  hurt,      \* the calls that met a saver that was closed already
  overlaps,  \* the calls during which another call had its saver open
  begun,     \* conversations with a user's message in the store
  prompted   \* conversations with a system prompt in the store

savers == <<open, bound, through>>
history == <<begun, prompted>>
saverVars == <<store, verb, about, at, resuming, savers, hurt, overlaps, history>>

-----------------------------------------------------------------------------
(* Savers *)

Running(c) == at[c] \notin {"idle", "ended"}

\* Mutated form: every in-memory saver ends with the call that opened it.
ClosedPerCall(saver) == saver \notin open

\* A Postgres saver ends with its call; the in-memory saver is the process's.
Closed(saver) == store = "postgres" /\ saver \notin open

\* open_checkpointer and _with_checkpointer: the call's own saver opens and
\* becomes the graph's, whoever else is using the graph.
OpenAndBind(c, where) ==
  /\ at' = [at EXCEPT ![c] = where]
  /\ open' = open \cup {c}
  /\ bound' = c
  /\ overlaps' = overlaps \cup (IF open = {} THEN {} ELSE open \cup {c})
  /\ UNCHANGED <<store, resuming, through, hurt, history>>

\* A call of one of the four verbs, up to its first await after binding.
Begin(c) ==
  \E v \in {"run", "stream", "resume", "amend"}, conversation \in Conversations :
    /\ at[c] = "idle"
    /\ verb' = [verb EXCEPT ![c] = v]
    /\ about' = [about EXCEPT ![c] = conversation]
    /\ OpenAndBind(c, IF v \in {"run", "stream"} THEN "asking" ELSE "reading")

Going(c, where) == at' = [at EXCEPT ![c] = where]

Steady == UNCHANGED <<store, verb, about, open, bound, overlaps>>

\* Mutated form: a store hiccup is taken for a conversation already begun.
HasHistoryPessimist(c) ==
  /\ at[c] = "asking"
  /\ \E answer \in BOOLEAN : /\ about[c] \in begun => answer
                             /\ resuming' = [resuming EXCEPT ![c] = answer]
  /\ Going(c, "invoking")
  /\ Steady /\ UNCHANGED <<through, hurt, history>>

\* _has_history asks the call's own saver. A store hiccup answers no.
HasHistory(c) ==
  /\ at[c] = "asking"
  /\ \E answer \in BOOLEAN : /\ answer => about[c] \in begun
                             /\ resuming' = [resuming EXCEPT ![c] = answer]
  /\ Going(c, "invoking")
  /\ Steady /\ UNCHANGED <<through, hurt, history>>

\* A use of the graph through `saver`: it goes on, or meets a closed saver
\* and ends the call with an exception. amend_conversation swallows that.
Through(c, saver, where) ==
  IF Closed(saver)
  THEN Going(c, "leaving") /\ hurt' = hurt \cup {c}
  ELSE Going(c, where) /\ UNCHANGED hurt

\* aget_state of resume and amend_conversation. A resume of a thread without
\* a checkpoint is refused; an amendment of one finds nothing to correct.
ReadState(c) ==
  /\ at[c] = "reading"
  /\ IF ~Closed(bound) /\ about[c] \notin begun
     THEN Going(c, "leaving") /\ UNCHANGED hurt
     ELSE Through(c, bound, IF verb[c] = "resume" THEN "invoking" ELSE "rewriting")
  /\ Steady /\ UNCHANGED <<resuming, through, history>>

\* aupdate_state of amend_conversation.
Rewrite(c) ==
  /\ at[c] = "rewriting"
  /\ Through(c, bound, "leaving")
  /\ Steady /\ UNCHANGED <<resuming, through, history>>

\* ainvoke or astream starts: the graph takes the saver it holds now. The
\* first checkpoint has the user's message, and the system prompt unless the
\* conversation had begun (initial_messages).
Invoke(c) ==
  /\ at[c] = "invoking"
  /\ through' = [through EXCEPT ![c] = bound]
  /\ Through(c, bound, "driving")
  /\ IF verb[c] = "resume" \/ Closed(bound)
     THEN UNCHANGED history
     ELSE /\ begun' = begun \cup {about[c]}
          /\ prompted' = prompted \cup (IF resuming[c] THEN {} ELSE {about[c]})
  /\ Steady /\ UNCHANGED resuming

\* The graph runs and checkpoints through the saver it started with.
Drive(c) ==
  /\ at[c] = "driving"
  /\ Through(c, through[c], "settling")
  /\ Steady /\ UNCHANGED <<resuming, through, history>>

\* aget_state for the resume token: through the saver the graph holds by now.
\* A streamed turn asks only when it paused, and a failure costs it its token
\* and not the turn; an agent that is not durable never asks.
Mint(c) ==
  /\ at[c] = "settling"
  /\ \/ Going(c, "leaving") /\ UNCHANGED hurt
     \/ Through(c, bound, "leaving")
  /\ Steady /\ UNCHANGED <<resuming, through, history>>

\* The turn is cancelled, or its model or a tool raises.
Abort(c) ==
  /\ Running(c) /\ at[c] # "leaving"
  /\ Going(c, "leaving")
  /\ Steady /\ UNCHANGED <<resuming, through, hurt, history>>

\* `async with` closes the call's own saver, on every way out. The graph goes
\* on holding it.
Leave(c) ==
  /\ at[c] = "leaving"
  /\ Going(c, "ended")
  /\ open' = open \ {c}
  /\ UNCHANGED <<store, verb, about, resuming, bound, through, hurt, overlaps, history>>

-----------------------------------------------------------------------------
(* The specification *)

SaverInit ==
  /\ store \in {"memory", "postgres"}
  /\ verb = [c \in Calls |-> "run"]
  /\ about = [c \in Calls |-> CHOOSE k \in Conversations : TRUE]
  /\ at = [c \in Calls |-> "idle"]
  /\ resuming = [c \in Calls |-> FALSE]
  /\ open = {} /\ bound = NoSaver
  /\ through = [c \in Calls |-> NoSaver]
  /\ hurt = {} /\ overlaps = {}
  /\ begun = {} /\ prompted = {}

SaverStep(c) ==
  \/ HasHistory(c) \/ ReadState(c) \/ Rewrite(c) \/ Invoke(c) \/ Drive(c) \/ Mint(c)
  \/ Leave(c)

SaverNext == \E c \in Calls : Begin(c) \/ SaverStep(c) \/ Abort(c)

SaverSpec == SaverInit /\ [][SaverNext]_saverVars

-----------------------------------------------------------------------------
(* Properties *)

\* Types of the calls, the savers and the store.
SaverTypeOK ==
  /\ store \in {"memory", "postgres"}
  /\ verb \in [Calls -> {"run", "stream", "resume", "amend"}]
  /\ about \in [Calls -> Conversations]
  /\ at \in [Calls -> {"idle", "asking", "reading", "rewriting", "invoking", "driving",
                       "settling", "leaving", "ended"}]
  /\ resuming \in [Calls -> BOOLEAN]
  /\ open \subseteq Calls
  /\ bound \in Calls \cup {NoSaver}
  /\ through \in [Calls -> Calls \cup {NoSaver}]
  /\ hurt \subseteq Calls /\ overlaps \subseteq Calls
  /\ begun \subseteq Conversations /\ prompted \subseteq Conversations

\* What the hazard noted at _with_checkpointer is limited to: only a turn
\* that overlaps another on a Postgres store can meet a saver somebody else
\* has closed. The saver a finished turn leaves in the graph harms nobody.
OnlyOverlapHurts == hurt \subseteq overlaps /\ (store = "memory" => hurt = {})

\* A conversation in the store has its system prompt, whatever the store
\* answered when it was asked and whoever else began the conversation at the
\* same time (_has_history, initial_messages).
AlwaysPrompted == begun \subseteq prompted
=============================================================================
