---------------------------- MODULE EngineProofs ----------------------------
(***************************************************************************)
(* The LangGraph engine, for any number of calls, conversations and turns: *)
(* what turns that share the one checkpointer can do to each other         *)
(* (SharedSaver), and what a client is told of a streamed turn             *)
(* (StreamTurn).                                                           *)
(***************************************************************************)
EXTENDS SharedSaver, StreamTurn, SequenceTheorems, TLAPS

-----------------------------------------------------------------------------
(* SharedSaver: the invariant *)

\* The calls whose saver is open are those that began and have not left.
OpenIsRunning == \A c \in Calls : c \in open <=> Running(c)

\* Until somebody else's saver is open at the same time, the graph a call uses
\* holds the call's own saver, and so does the graph run it started.
OwnSaver ==
  \A c \in open : c \notin overlaps =>
    /\ bound = c
    /\ at[c] = "driving" => through[c] = c

\* A call takes a conversation for begun only if it is.
NoFalseHistory ==
  \A c \in Calls :
    /\ resuming[c] => about[c] \in begun
    /\ at[c] = "idle" => ~resuming[c]

SaverInvariant ==
  /\ SaverTypeOK
  /\ OpenIsRunning
  /\ OwnSaver
  /\ NoFalseHistory
  /\ OnlyOverlapHurts
  /\ AlwaysPrompted

\* The places of a call that is running.
Places == {"asking", "reading", "rewriting", "invoking", "driving", "settling", "leaving"}

-----------------------------------------------------------------------------
(* SharedSaver: one use of the graph *)

\* A running call that uses the graph through its own saver, unless it
\* overlapped another, is only hurt if it did, and stays where a running call is.
LEMMA UseKeepsIt ==
  ASSUME SaverInvariant, NEW c \in Calls, Running(c), NEW saver \in Calls \cup {NoSaver},
         c \notin overlaps => saver = c, NEW where \in Places, where # "driving",
         Through(c, saver, where), UNCHANGED <<store, overlaps, open>>
  PROVE  /\ at' \in [Calls -> {"idle", "ended"} \cup Places]
         /\ at' = [at EXCEPT ![c] = at'[c]] /\ at'[c] \in Places \ {"driving"}
         /\ hurt' \subseteq Calls
         /\ OnlyOverlapHurts'
  <1>1. /\ at \in [Calls -> {"idle", "ended"} \cup Places] /\ hurt \subseteq Calls
        /\ c \in open /\ OnlyOverlapHurts
    BY DEF SaverInvariant, SaverTypeOK, OpenIsRunning, Places
  <1>2. CASE Closed(saver)
    <2>1. at' = [at EXCEPT ![c] = "leaving"] /\ hurt' = hurt \cup {c}
      BY <1>2 DEF Through, Going
    <2>2. c \in overlaps /\ store = "postgres"
      BY <1>1, <1>2 DEF Closed
    <2> QED BY <1>1, <2>1, <2>2 DEF OnlyOverlapHurts, Places
  <1>3. CASE ~Closed(saver)
    <2>1. at' = [at EXCEPT ![c] = where] /\ hurt' = hurt
      BY <1>3 DEF Through, Going
    <2> QED BY <1>1, <2>1 DEF OnlyOverlapHurts, Places
  <1> QED BY <1>2, <1>3

\* A running call that goes on to another place, without opening, binding or
\* learning anything, leaves the rest of the invariant as it is.
LEMMA GoingKeepsIt ==
  ASSUME SaverInvariant, NEW c \in Calls, Running(c),
         at' = [at EXCEPT ![c] = at'[c]], at'[c] \in Places \ {"driving"},
         UNCHANGED <<store, verb, about, open, bound, overlaps>>,
         UNCHANGED <<through, begun, prompted>>,
         resuming' = resuming, hurt' \subseteq Calls, OnlyOverlapHurts'
  PROVE  SaverInvariant'
  <1>1. SaverTypeOK /\ OpenIsRunning /\ OwnSaver /\ NoFalseHistory /\ AlwaysPrompted
    BY DEF SaverInvariant
  <1>2. /\ at \in [Calls -> {"idle", "ended"} \cup Places]
        /\ at[c] \notin {"idle", "ended"}
    BY <1>1 DEF SaverTypeOK, Running, Places
  <1>3. \A d \in Calls : at'[d] = IF d = c THEN at'[c] ELSE at[d]
    BY <1>2
  <1>4. SaverTypeOK'
    BY <1>1, <1>2 DEF SaverTypeOK, Places
  <1>5. OpenIsRunning'
    BY <1>1, <1>2, <1>3 DEF OpenIsRunning, Running, Places
  <1>6. OwnSaver'
    BY <1>1, <1>3 DEF OwnSaver, SaverTypeOK
  <1>7. NoFalseHistory'
    BY <1>1, <1>2, <1>3 DEF NoFalseHistory, Places
  <1>8. AlwaysPrompted'
    BY <1>1 DEF AlwaysPrompted
  <1> QED BY <1>4, <1>5, <1>6, <1>7, <1>8 DEF SaverInvariant

-----------------------------------------------------------------------------
(* SharedSaver: the steps *)

\* Opening a saver is what makes calls overlap: everybody who has one open
\* then, and the call itself, are counted.
LEMMA BeginKeepsIt ==
  ASSUME SaverInvariant, NEW c \in Calls, Begin(c)
  PROVE  SaverInvariant'
  <1>1. /\ SaverTypeOK /\ OpenIsRunning /\ OwnSaver /\ NoFalseHistory
        /\ OnlyOverlapHurts /\ AlwaysPrompted
    BY DEF SaverInvariant
  <1>2. PICK v \in {"run", "stream", "resume", "amend"}, conversation \in Conversations :
          /\ at[c] = "idle"
          /\ verb' = [verb EXCEPT ![c] = v]
          /\ about' = [about EXCEPT ![c] = conversation]
          /\ OpenAndBind(c, IF v \in {"run", "stream"} THEN "asking" ELSE "reading")
    BY DEF Begin
  <1>3. PICK where \in {"asking", "reading"} :
          /\ at' = [at EXCEPT ![c] = where]
          /\ open' = open \cup {c}
          /\ bound' = c
          /\ overlaps' = overlaps \cup (IF open = {} THEN {} ELSE open \cup {c})
          /\ UNCHANGED <<store, resuming, through, hurt, begun, prompted>>
    BY <1>2 DEF OpenAndBind, history
  <1>4. c \notin open
    BY <1>1, <1>2 DEF OpenIsRunning, Running
  <1>5. SaverTypeOK'
    BY <1>1, <1>2, <1>3 DEF SaverTypeOK
  <1>6. \A d \in Calls : at'[d] = IF d = c THEN where ELSE at[d]
    BY <1>1, <1>3 DEF SaverTypeOK
  <1>7. OpenIsRunning'
    BY <1>1, <1>3, <1>6 DEF OpenIsRunning, Running
  <1>8. OwnSaver'
    <2> SUFFICES ASSUME NEW d \in open', d \notin overlaps'
                 PROVE  bound' = d /\ (at'[d] = "driving" => through'[d] = d)
      BY DEF OwnSaver
    <2>1. d = c
      BY <1>3
    <2> QED BY <2>1, <1>3, <1>6
  <1>9. NoFalseHistory'
    <2> SUFFICES ASSUME NEW d \in Calls
                 PROVE  (resuming[d] => about'[d] \in begun) /\ (at'[d] = "idle" => ~resuming[d])
      BY <1>3 DEF NoFalseHistory
    <2>1. CASE d = c
      BY <2>1, <1>1, <1>2, <1>3, <1>6 DEF NoFalseHistory
    <2>2. CASE d # c
      BY <2>2, <1>1, <1>2, <1>6 DEF NoFalseHistory, SaverTypeOK
    <2> QED BY <2>1, <2>2
  <1>10. OnlyOverlapHurts' /\ AlwaysPrompted'
    BY <1>1, <1>3 DEF OnlyOverlapHurts, AlwaysPrompted
  <1> QED BY <1>5, <1>7, <1>8, <1>9, <1>10 DEF SaverInvariant

\* Asking for history learns only what is so.
LEMMA HasHistoryKeepsIt ==
  ASSUME SaverInvariant, NEW c \in Calls, HasHistory(c)
  PROVE  SaverInvariant'
  <1>1. /\ SaverTypeOK /\ OpenIsRunning /\ OwnSaver /\ NoFalseHistory
        /\ OnlyOverlapHurts /\ AlwaysPrompted
    BY DEF SaverInvariant
  <1>2. PICK answer \in BOOLEAN : /\ answer => about[c] \in begun
                                  /\ resuming' = [resuming EXCEPT ![c] = answer]
    BY DEF HasHistory
  <1>3. /\ at[c] = "asking" /\ at' = [at EXCEPT ![c] = "invoking"]
        /\ UNCHANGED <<store, verb, about, open, bound, overlaps>>
        /\ UNCHANGED <<through, hurt, begun, prompted>>
    BY DEF HasHistory, Going, Steady, history
  <1>4. SaverTypeOK'
    <2>1. resuming' \in [Calls -> BOOLEAN]
      BY <1>1, <1>2 DEF SaverTypeOK
    <2>2. at' \in [Calls -> {"idle", "asking", "reading", "rewriting", "invoking", "driving",
                             "settling", "leaving", "ended"}]
      BY <1>1, <1>3 DEF SaverTypeOK
    <2> QED BY <2>1, <2>2, <1>1, <1>3 DEF SaverTypeOK
  <1>5. OpenIsRunning' /\ OwnSaver' /\ OnlyOverlapHurts' /\ AlwaysPrompted'
    BY <1>1, <1>3
    DEF SaverTypeOK, OpenIsRunning, Running, OwnSaver, OnlyOverlapHurts, AlwaysPrompted
  <1>6. NoFalseHistory'
    <2> SUFFICES ASSUME NEW d \in Calls
                 PROVE  /\ resuming'[d] => about[d] \in begun
                        /\ at'[d] = "idle" => ~resuming'[d]
      BY <1>3 DEF NoFalseHistory
    <2>1. CASE d = c
      <3>1. at'[d] = "invoking" /\ (resuming'[d] => about[c] \in begun)
        BY <2>1, <1>1, <1>2, <1>3 DEF SaverTypeOK
      <3> QED BY <3>1, <2>1
    <2>2. CASE d # c
      BY <2>2, <1>1, <1>2, <1>3 DEF NoFalseHistory, SaverTypeOK
    <2> QED BY <2>1, <2>2
  <1> QED BY <1>4, <1>5, <1>6 DEF SaverInvariant

\* What resume and amend_conversation do with the saver the graph holds now.
LEMMA ReadAndRewriteKeepIt ==
  ASSUME SaverInvariant, NEW c \in Calls, ReadState(c) \/ Rewrite(c) \/ Mint(c)
  PROVE  SaverInvariant'
  <1>1. /\ at[c] \in {"reading", "rewriting", "settling"}
        /\ UNCHANGED <<store, verb, about, open, bound, overlaps>>
        /\ UNCHANGED <<through, begun, prompted>> /\ resuming' = resuming
    BY DEF ReadState, Rewrite, Mint, Steady, history
  <1>2. /\ Running(c) /\ SaverTypeOK /\ OpenIsRunning /\ OwnSaver /\ OnlyOverlapHurts
        /\ bound \in Calls \cup {NoSaver} /\ hurt \subseteq Calls
    BY <1>1 DEF Running, SaverInvariant, SaverTypeOK
  <1>3. c \notin overlaps => bound = c
    BY <1>2 DEF OpenIsRunning, OwnSaver
  <1>4. CASE \E where \in {"invoking", "rewriting", "leaving"} : Through(c, bound, where)
    <2>1. PICK where \in {"invoking", "rewriting", "leaving"} : Through(c, bound, where)
      BY <1>4
    <2>2. /\ at' = [at EXCEPT ![c] = at'[c]] /\ at'[c] \in Places \ {"driving"}
          /\ hurt' \subseteq Calls /\ OnlyOverlapHurts'
      BY <2>1, <1>1, <1>2, <1>3, UseKeepsIt DEF Places
    <2> QED BY <2>2, <1>1, <1>2, GoingKeepsIt
  <1>5. CASE Going(c, "leaving") /\ UNCHANGED hurt
    <2>1. at' = [at EXCEPT ![c] = at'[c]] /\ at'[c] \in Places \ {"driving"}
      BY <1>2, <1>5 DEF Going, SaverTypeOK, Places
    <2>2. hurt' \subseteq Calls /\ OnlyOverlapHurts'
      BY <1>1, <1>2, <1>5 DEF OnlyOverlapHurts
    <2> QED BY <2>1, <2>2, <1>1, <1>2, GoingKeepsIt
  <1>6. \/ \E where \in {"invoking", "rewriting", "leaving"} : Through(c, bound, where)
        \/ Going(c, "leaving") /\ UNCHANGED hurt
    <2>1. CASE ReadState(c)
      <3>1. CASE verb[c] = "resume"
        BY <2>1, <3>1 DEF ReadState
      <3>2. CASE verb[c] # "resume"
        BY <2>1, <3>2 DEF ReadState
      <3> QED BY <3>1, <3>2
    <2>2. CASE Rewrite(c) \/ Mint(c)
      BY <2>2 DEF Rewrite, Mint
    <2> QED BY <2>1, <2>2
  <1> QED BY <1>4, <1>5, <1>6

\* A graph run starts through the saver the graph holds, and writes the first
\* checkpoint with it.
LEMMA InvokeKeepsIt ==
  ASSUME SaverInvariant, NEW c \in Calls, Invoke(c)
  PROVE  SaverInvariant'
  <1>1. /\ SaverTypeOK /\ OpenIsRunning /\ OwnSaver /\ NoFalseHistory
        /\ OnlyOverlapHurts /\ AlwaysPrompted
    BY DEF SaverInvariant
  <1>2. /\ at[c] = "invoking" /\ through' = [through EXCEPT ![c] = bound]
        /\ UNCHANGED <<store, verb, about, open, bound, overlaps>> /\ resuming' = resuming
    BY DEF Invoke, Steady
  <1>3. c \in open /\ (c \notin overlaps => bound = c)
    BY <1>1, <1>2 DEF OpenIsRunning, OwnSaver, Running
  <1>4. /\ begun' \in {begun, begun \cup {about[c]}}
        /\ prompted' \in {prompted, prompted \cup {about[c]}}
        /\ AlwaysPrompted'
    <2>1. CASE verb[c] = "resume" \/ Closed(bound)
      BY <2>1, <1>1 DEF Invoke, history, AlwaysPrompted
    <2>2. CASE ~(verb[c] = "resume" \/ Closed(bound))
      <3>1. /\ begun' = begun \cup {about[c]}
            /\ prompted' = prompted \cup (IF resuming[c] THEN {} ELSE {about[c]})
        BY <2>2 DEF Invoke
      <3>2. CASE resuming[c]
        <4>1. about[c] \in prompted
          BY <3>2, <1>1 DEF NoFalseHistory, AlwaysPrompted
        <4> QED BY <3>1, <3>2, <4>1, <1>1 DEF AlwaysPrompted
      <3>3. CASE ~resuming[c]
        BY <3>1, <3>3, <1>1 DEF AlwaysPrompted
      <3> QED BY <3>2, <3>3
    <2> QED BY <2>1, <2>2
  <1>5. PICK where \in {"driving", "leaving"} :
          /\ at' = [at EXCEPT ![c] = where]
          /\ hurt' \subseteq Calls /\ OnlyOverlapHurts'
    <2>1. CASE Closed(bound)
      <3>1. at' = [at EXCEPT ![c] = "leaving"] /\ hurt' = hurt \cup {c}
        BY <2>1 DEF Invoke, Through, Going
      <3>2. c \in overlaps /\ store = "postgres"
        BY <2>1, <1>3 DEF Closed
      <3> QED BY <3>1, <3>2, <1>1, <1>2 DEF OnlyOverlapHurts, SaverTypeOK
    <2>2. CASE ~Closed(bound)
      <3>1. at' = [at EXCEPT ![c] = "driving"] /\ hurt' = hurt
        BY <2>2 DEF Invoke, Through, Going
      <3> QED BY <3>1, <1>1, <1>2 DEF OnlyOverlapHurts, SaverTypeOK
    <2> QED BY <2>1, <2>2
  <1>6. \A d \in Calls : /\ at'[d] = IF d = c THEN where ELSE at[d]
                         /\ through'[d] = IF d = c THEN bound ELSE through[d]
    BY <1>1, <1>2, <1>5 DEF SaverTypeOK
  <1>7. SaverTypeOK'
    BY <1>1, <1>2, <1>4, <1>5 DEF SaverTypeOK
  <1>8. OpenIsRunning'
    BY <1>1, <1>2, <1>6 DEF OpenIsRunning, Running
  <1>9. OwnSaver'
    <2> SUFFICES ASSUME NEW d \in open, d \notin overlaps
                 PROVE  bound = d /\ (at'[d] = "driving" => through'[d] = d)
      BY <1>2 DEF OwnSaver
    <2>1. d \in Calls
      BY <1>1 DEF SaverTypeOK
    <2> QED BY <2>1, <1>1, <1>3, <1>6 DEF OwnSaver
  <1>10. NoFalseHistory'
    <2> SUFFICES ASSUME NEW d \in Calls
                 PROVE  (resuming[d] => about[d] \in begun') /\ (at'[d] = "idle" => ~resuming[d])
      BY <1>2 DEF NoFalseHistory
    <2>1. resuming[d] => about[d] \in begun'
      BY <1>1, <1>4 DEF NoFalseHistory
    <2>2. at'[d] = "idle" => ~resuming[d]
      BY <1>1, <1>6 DEF NoFalseHistory
    <2> QED BY <2>1, <2>2
  <1> QED BY <1>4, <1>5, <1>7, <1>8, <1>9, <1>10 DEF SaverInvariant

\* The graph run goes on through the saver it was started with.
LEMMA DriveKeepsIt ==
  ASSUME SaverInvariant, NEW c \in Calls, Drive(c)
  PROVE  SaverInvariant'
  <1>1. /\ at[c] = "driving" /\ Through(c, through[c], "settling")
        /\ UNCHANGED <<store, verb, about, open, bound, overlaps>>
        /\ UNCHANGED <<through, begun, prompted>> /\ resuming' = resuming
    BY DEF Drive, Steady, history
  <1>2. /\ Running(c) /\ OpenIsRunning /\ OwnSaver /\ through[c] \in Calls \cup {NoSaver}
    BY <1>1 DEF Running, SaverInvariant, SaverTypeOK
  <1>3. c \notin overlaps => through[c] = c
    BY <1>1, <1>2 DEF OpenIsRunning, OwnSaver
  <1>4. /\ at' = [at EXCEPT ![c] = at'[c]] /\ at'[c] \in Places \ {"driving"}
        /\ hurt' \subseteq Calls /\ OnlyOverlapHurts'
    BY <1>1, <1>2, <1>3, UseKeepsIt DEF Places
  <1> QED BY <1>1, <1>2, <1>4, GoingKeepsIt

\* Ending early hurts nobody.
LEMMA AbortKeepsIt ==
  ASSUME SaverInvariant, NEW c \in Calls, Abort(c)
  PROVE  SaverInvariant'
  <1>1. /\ Running(c) /\ at' = [at EXCEPT ![c] = "leaving"]
        /\ UNCHANGED <<store, verb, about, open, bound, overlaps>>
        /\ UNCHANGED <<through, begun, prompted>> /\ resuming' = resuming
        /\ hurt' = hurt
    BY DEF Abort, Going, Steady, history
  <1>2. at' = [at EXCEPT ![c] = at'[c]] /\ at'[c] \in Places \ {"driving"}
    BY <1>1 DEF SaverInvariant, SaverTypeOK, Places
  <1>3. hurt' \subseteq Calls /\ OnlyOverlapHurts'
    BY <1>1 DEF SaverInvariant, SaverTypeOK, OnlyOverlapHurts
  <1> QED BY <1>1, <1>2, <1>3, GoingKeepsIt

\* A saver closes with its own call, and only then.
LEMMA LeaveKeepsIt ==
  ASSUME SaverInvariant, NEW c \in Calls, Leave(c)
  PROVE  SaverInvariant'
  <1>1. /\ SaverTypeOK /\ OpenIsRunning /\ OwnSaver /\ NoFalseHistory
        /\ OnlyOverlapHurts /\ AlwaysPrompted
    BY DEF SaverInvariant
  <1>2. /\ at[c] = "leaving" /\ at' = [at EXCEPT ![c] = "ended"] /\ open' = open \ {c}
        /\ UNCHANGED <<store, verb, about, resuming, bound, through, hurt, overlaps>>
        /\ UNCHANGED <<begun, prompted>>
    BY DEF Leave, Going, history
  <1>3. \A d \in Calls : at'[d] = IF d = c THEN "ended" ELSE at[d]
    BY <1>1, <1>2 DEF SaverTypeOK
  <1>4. SaverTypeOK'
    BY <1>1, <1>2 DEF SaverTypeOK
  <1>5. OpenIsRunning'
    BY <1>1, <1>2, <1>3 DEF OpenIsRunning, Running
  <1>6. OwnSaver'
    BY <1>1, <1>2, <1>3 DEF OwnSaver, SaverTypeOK
  <1>7. NoFalseHistory'
    BY <1>1, <1>2, <1>3 DEF NoFalseHistory
  <1>8. OnlyOverlapHurts' /\ AlwaysPrompted'
    BY <1>1, <1>2 DEF OnlyOverlapHurts, AlwaysPrompted
  <1> QED BY <1>4, <1>5, <1>6, <1>7, <1>8 DEF SaverInvariant

-----------------------------------------------------------------------------
(* SharedSaver: the theorems *)

\* The invariant holds at the start: nobody has a saver, nothing has begun.
LEMMA SaverStarts ==
  ASSUME Conversations # {}, SaverInit
  PROVE  SaverInvariant
  <1>1. (CHOOSE k \in Conversations : TRUE) \in Conversations
    OBVIOUS
  <1> QED BY <1>1 DEF SaverInit, SaverInvariant, SaverTypeOK, OpenIsRunning, Running,
                      OwnSaver, NoFalseHistory, OnlyOverlapHurts, AlwaysPrompted

\* Every step of every call keeps it.
LEMMA SaverStepKeepsIt ==
  ASSUME SaverInvariant, [SaverNext]_saverVars
  PROVE  SaverInvariant'
  <1>1. CASE UNCHANGED saverVars
    <2>1. /\ UNCHANGED <<store, verb, about, at, resuming, open, bound, through>>
          /\ UNCHANGED <<hurt, overlaps, begun, prompted>>
      BY <1>1 DEF saverVars, savers, history
    <2> QED BY <2>1 DEF SaverInvariant, SaverTypeOK, OpenIsRunning, Running, OwnSaver,
                        NoFalseHistory, OnlyOverlapHurts, AlwaysPrompted
  <1>2. ASSUME NEW c \in Calls, Begin(c) PROVE SaverInvariant'
    BY <1>2, BeginKeepsIt
  <1>3. ASSUME NEW c \in Calls, SaverStep(c) PROVE SaverInvariant'
    BY <1>3, HasHistoryKeepsIt, ReadAndRewriteKeepIt, InvokeKeepsIt, DriveKeepsIt, LeaveKeepsIt
    DEF SaverStep
  <1>4. ASSUME NEW c \in Calls, Abort(c) PROVE SaverInvariant'
    BY <1>4, AbortKeepsIt
  <1> QED BY <1>1, <1>2, <1>3, <1>4 DEF SaverNext

\* The invariant holds in every reachable state, whatever the number of
\* concurrent turns of the agent.
THEOREM SaverIsSound == ASSUME Conversations # {} PROVE SaverSpec => []SaverInvariant
  <1>1. SaverInit => SaverInvariant
    BY SaverStarts
  <1>2. SaverInvariant /\ [SaverNext]_saverVars => SaverInvariant'
    BY SaverStepKeepsIt
  <1> QED BY <1>1, <1>2, PTL DEF SaverSpec

\* _with_checkpointer (engine.py): a turn that has the store to itself never
\* meets a saver somebody else closed, whatever earlier turns left in the
\* graph; and on the in-memory store nobody ever does.
THEOREM OnlyOverlapsHurt ==
  ASSUME Conversations # {} PROVE SaverSpec => []OnlyOverlapHurts
  <1>1. SaverInvariant => OnlyOverlapHurts
    BY DEF SaverInvariant
  <1> QED BY <1>1, SaverIsSound, PTL

\* _has_history, initial_messages: however the store answers and however
\* turns interleave, no conversation is without its system prompt.
THEOREM ConversationsArePrompted ==
  ASSUME Conversations # {} PROVE SaverSpec => []AlwaysPrompted
  <1>1. SaverInvariant => AlwaysPrompted
    BY DEF SaverInvariant
  <1> QED BY <1>1, SaverIsSound, PTL

-----------------------------------------------------------------------------
(* StreamTurn: the invariant *)

\* Turns start one after the other, and only the latest can be under way.
OneUnderWay ==
  /\ \A t \in Turns : /\ task[t] = "none" <=> t > turn
                      /\ task[t] \in Alive => t = turn
  /\ handler = "cancelling" => turn \in Turns /\ turn < MaxTurns

\* Where a generator can be while its consumer is where it is.
Held(t) ==
  /\ task[t] \in {"none", "created"} => gen[t] = "none"
  /\ task[t] = "pulling" => gen[t] \notin {"none", "dropped"}
  /\ task[t] = "sending" => gen[t] \in {"graph", "answered", "paused", "told"}
  /\ task[t] \in {"ended", "raised"} => gen[t] \in {"none", "dropped", "closing", "closed"}
  /\ gen[t] = "none" => ~said[t].streamed

\* What is being sent.
Sending(t, kind) == task[t] = "sending" /\ out[t].kind = kind
HeldOut(t) ==
  task[t] = "sending" =>
    /\ out[t].turn = t
    /\ out[t].kind \in {"content", "aside", "paused", "done"}
    /\ out[t].kind = "paused" => gen[t] = "paused" /\ pause[t] /\ ~Sent(t, "paused")
    /\ out[t].kind = "done" => gen[t] = "told"

\* The generator has come past the answer, and nothing went wrong since.
Under(t) == task[t] \in {"pulling", "sending"}
Answered(t) ==
  /\ Under(t)
  /\ \/ gen[t] \in {"answered", "paused", "told"}
     \/ gen[t] \in {"closing", "closed"} /\ fate[t] = "ok"

\* An answer that was streamed, or fallen back on, has been shown or is about
\* to be.
Spoke(t) == said[t].streamed \/ said[t].whole # "none"
Shown(t) ==
  \/ Under(t) /\ said[t].streamed
  \/ Answered(t) /\ Spoke(t)
  => Sent(t, "content") \/ Sending(t, "content")

\* A pause is told once the generator has come past it, and only then.
Paused(t) ==
  /\ Sent(t, "paused") =>
       /\ pause[t] /\ surface # "a2a"
       /\ gen[t] \in {"paused", "told", "closing", "closed", "dropped"}
  /\ surface # "a2a" /\ Under(t) /\ gen[t] \in {"paused", "told"} /\ pause[t] =>
       Sent(t, "paused") \/ Sending(t, "paused")

\* After `done` a generator says nothing more, and it came after the answer.
Finished(t) ==
  Sent(t, "done") => /\ gen[t] \in {"told", "closing", "closed", "dropped"}
                     /\ Spoke(t) => Sent(t, "content")

TurnInv(t) == Held(t) /\ HeldOut(t) /\ Shown(t) /\ Paused(t) /\ Finished(t)

\* The wire: no frame of a turn to come, and one pause a turn at most.
WireInv ==
  /\ \A i \in DOMAIN wire : wire[i].turn <= turn
  /\ \A i, j \in DOMAIN wire :
       /\ wire[i].turn = wire[j].turn
       /\ wire[i].kind = "paused" /\ wire[j].kind = "paused"
       => i = j
  /\ NoLateFrames
  /\ PauseIsTold

StreamInv == StreamTypeOK /\ OneUnderWay /\ (\A t \in Turns : TurnInv(t)) /\ WireInv

-----------------------------------------------------------------------------
(* StreamTurn: frames and types *)

Kinds == {"session", "content", "aside", "paused", "done", "error"}
Whats == {"plain", "answer", "thinking", "token", "bare"}

LEMMA FrameTypes ==
  ASSUME NEW t \in Turns, NEW kind \in Kinds, NEW what \in Whats
  PROVE  /\ Frame(t, kind, what) \in Frames
         /\ Frame(t, kind, what).turn = t /\ Frame(t, kind, what).kind = kind
         /\ Frame(t, kind, what).what = what
BY DEF Frame, Frames, Kinds, Whats

LEMMA NothingType == Nothing \in Frames /\ Nothing.kind = "session"
BY TurnsAssumption DEF Frames, Nothing, Turns

\* What reaches the client is a frame of the same turn and kind; only what it
\* says may differ.
LEMMA OnTheWireType ==
  ASSUME StreamTypeOK, NEW f \in Frames
  PROVE  /\ OnTheWire(f) \in Frames
         /\ OnTheWire(f).turn = f.turn /\ OnTheWire(f).kind = f.kind
<1>1. CASE surface = "sse" /\ f.kind = "done" /\ Sent(f.turn, "paused")
  <2> DEFINE told == CHOOSE i \in DOMAIN wire :
                       wire[i].turn = f.turn /\ wire[i].kind = "paused"
  <2>1. told \in DOMAIN wire
    BY <1>1 DEF Sent
  <2>2. wire[told] \in Frames
    BY <2>1 DEF StreamTypeOK
  <2>3. wire[told].what \in {"plain", "answer", "thinking", "token", "bare"}
    BY <2>2 DEF Frames
  <2>4. OnTheWire(f) = [f EXCEPT !.what = wire[told].what]
    BY <1>1 DEF OnTheWire
  <2> HIDE DEF told
  <2> QED
    BY <2>3, <2>4 DEF Frames
<1>2. CASE ~(surface = "sse" /\ f.kind = "done" /\ Sent(f.turn, "paused"))
  BY <1>2 DEF OnTheWire
<1> QED
  BY <1>1, <1>2

\* What an append adds to the wire.
LEMMA AppendSent ==
  ASSUME StreamTypeOK, NEW f \in Frames, wire' = Append(wire, f), NEW t, NEW kind
  PROVE  Sent(t, kind)' <=> Sent(t, kind) \/ (f.turn = t /\ f.kind = kind)
<1>1. /\ DOMAIN wire = 1..Len(wire) /\ DOMAIN wire' = 1..(Len(wire) + 1)
      /\ Len(wire) \in Nat
      /\ \A i \in 1..Len(wire) : wire'[i] = wire[i]
      /\ wire'[Len(wire) + 1] = f
  BY AppendProperties, LenProperties DEF StreamTypeOK
<1> QED
  BY <1>1 DEF Sent

LEMMA SameSent ==
  ASSUME UNCHANGED wire, NEW t, NEW kind
  PROVE  Sent(t, kind)' <=> Sent(t, kind)
BY DEF Sent

TaskPlaces == {"none", "ended", "raised"} \cup Alive
GenPlaces == {"none", "starting", "graph", "answered", "paused", "told", "closing",
              "dropped", "closed"}
Fates == {"ok", "error", "cancelled"}

LEMMA GotoType ==
  ASSUME StreamTypeOK, NEW t \in Turns, NEW where \in GenPlaces, NEW event \in Frames,
         Goto(t, where, event)
  PROVE  /\ gen' \in [Turns -> GenPlaces]
         /\ out' \in [Turns -> Frames]
         /\ task' \in [Turns -> TaskPlaces]
BY DEF StreamTypeOK, Goto, GenPlaces, TaskPlaces, Alive

LEMMA StreamInitType ==
  StreamInit => StreamTypeOK
<1> SUFFICES ASSUME StreamInit
             PROVE  StreamTypeOK
  OBVIOUS
<1>1. wire \in Seq(Frames)
  BY EmptySeq DEF StreamInit
<1>2. said \in [Turns -> [streamed : BOOLEAN, whole : {"none", "answer", "thinking"}]]
  BY DEF StreamInit
<1>3. turn \in 0..MaxTurns /\ items \in 0..MaxItems
  BY TurnsAssumption, ItemsAssumption DEF StreamInit
<1>4. /\ task \in [Turns -> TaskPlaces] /\ cancel \in [Turns -> BOOLEAN]
      /\ pause \in [Turns -> BOOLEAN] /\ gen \in [Turns -> GenPlaces]
      /\ fate \in [Turns -> Fates]
  BY DEF StreamInit, TaskPlaces, GenPlaces, Fates
<1>5. out \in [Turns -> Frames]
  BY NothingType DEF StreamInit
<1>6. surface \in Surfaces /\ conn = "up" /\ handler = "receiving"
  BY DEF StreamInit
<1> QED
  BY <1>1, <1>2, <1>3, <1>4, <1>5, <1>6 DEF StreamTypeOK, TaskPlaces, GenPlaces, Fates

\* The part of a step that only moves consumers and the endpoint.
LEMMA EndpointTypes ==
  ASSUME StreamTypeOK, conn' \in {"up", "gone"},
         handler' \in {"receiving", "cancelling", "gone"}, turn' \in 0..MaxTurns,
         task' \in [Turns -> TaskPlaces], cancel' \in [Turns -> BOOLEAN],
         UNCHANGED <<surface, gen, fate, graphs, out, wire>>
  PROVE  StreamTypeOK'
BY DEF StreamTypeOK, TaskPlaces, graphs

\* The steps of the endpoint: a turn is asked for, cancelled or hung up on.
LEMMA StreamEndpointTypes ==
  ASSUME StreamTypeOK, OneUnderWay, Ask \/ Message \/ Cancelled \/ Disconnect \/ HangUp
  PROVE  StreamTypeOK'
<1>1. /\ turn \in 0..MaxTurns /\ conn \in {"up", "gone"}
      /\ handler \in {"receiving", "cancelling", "gone"}
      /\ task \in [Turns -> TaskPlaces] /\ cancel \in [Turns -> BOOLEAN]
      /\ MaxTurns \in Nat \ {0}
  BY TurnsAssumption DEF StreamTypeOK, TaskPlaces
<1>2. ASSUME NEW u \in 1..MaxTurns, Created(u)
      PROVE  turn' \in 0..MaxTurns /\ task' \in [Turns -> TaskPlaces]
  BY <1>1, <1>2 DEF Created, TaskPlaces, Alive, Turns
<1>3. UNCHANGED <<surface, gen, fate, graphs, out, wire>>
  BY DEF Ask, Message, Cancelled, Disconnect, HangUp
<1>4. CASE Ask
  <2>1. Created(1) /\ 1 \in 1..MaxTurns /\ UNCHANGED <<conn, handler, cancel>>
    BY <1>1, <1>4 DEF Ask
  <2> QED BY <1>1, <1>2, <1>3, <2>1, EndpointTypes
<1>5. CASE Message
  <2>1. turn + 1 \in 1..MaxTurns /\ UNCHANGED conn
    BY <1>1, <1>5 DEF Message
  <2>2. CASE UNCHANGED <<turn, task>>
    <3>1. cancel' \in [Turns -> BOOLEAN] /\ handler' \in {"receiving", "cancelling", "gone"}
      BY <1>1, <1>5 DEF Message
    <3> QED BY <1>1, <1>3, <2>1, <2>2, <3>1, EndpointTypes
  <2>3. CASE Created(turn + 1) /\ UNCHANGED <<handler, cancel>>
    BY <1>1, <1>2, <1>3, <2>1, <2>3, EndpointTypes
  <2> QED BY <1>5, <2>2, <2>3 DEF Message
<1>6. CASE Cancelled
  <2>1. turn + 1 \in 1..MaxTurns /\ UNCHANGED cancel
    BY <1>1, <1>6 DEF Cancelled, OneUnderWay
  <2>2. conn' \in {"up", "gone"} /\ handler' \in {"receiving", "cancelling", "gone"}
    BY <1>1, <1>6 DEF Cancelled
  <2>3. UNCHANGED <<turn, task>> \/ Created(turn + 1)
    BY <1>6 DEF Cancelled
  <2> QED BY <1>1, <1>2, <1>3, <2>1, <2>2, <2>3, EndpointTypes
<1>7. CASE Disconnect \/ HangUp
  <2>1. cancel' \in [Turns -> BOOLEAN]
    BY <1>1, <1>7 DEF Disconnect, HangUp
  <2>2. /\ conn' \in {"up", "gone"} /\ handler' \in {"receiving", "cancelling", "gone"}
        /\ UNCHANGED <<turn, task>>
    BY <1>1, <1>7 DEF Disconnect, HangUp
  <2> QED BY <1>1, <1>3, <2>1, <2>2, EndpointTypes
<1> QED
  BY <1>4, <1>5, <1>6, <1>7

\* The part of a step that only moves one turn.
LEMMA TurnTypes ==
  ASSUME StreamTypeOK, task' \in [Turns -> TaskPlaces], gen' \in [Turns -> GenPlaces],
         fate' \in [Turns -> Fates], items' \in 0..MaxItems,
         said' \in [Turns -> [streamed : BOOLEAN, whole : {"none", "answer", "thinking"}]],
         pause' \in [Turns -> BOOLEAN], out' \in [Turns -> Frames], wire' \in Seq(Frames),
         UNCHANGED <<surface, conn, handler, turn, cancel>>
  PROVE  StreamTypeOK'
BY DEF StreamTypeOK, TaskPlaces, GenPlaces, Fates

LEMMA TurnTyped ==
  ASSUME StreamTypeOK
  PROVE  /\ task \in [Turns -> TaskPlaces] /\ gen \in [Turns -> GenPlaces]
         /\ fate \in [Turns -> Fates] /\ items \in 0..MaxItems
         /\ said \in [Turns -> [streamed : BOOLEAN, whole : {"none", "answer", "thinking"}]]
         /\ pause \in [Turns -> BOOLEAN] /\ out \in [Turns -> Frames] /\ wire \in Seq(Frames)
BY DEF StreamTypeOK, TaskPlaces, GenPlaces, Fates

\* The steps of a turn's task, which consumes its generator.
LEMMA StreamTaskTypes ==
  ASSUME StreamTypeOK, NEW t \in Turns, TaskStep(t)
  PROVE  StreamTypeOK'
<1>1. /\ task' \in [Turns -> TaskPlaces] /\ gen' \in [Turns -> GenPlaces]
      /\ fate' \in [Turns -> Fates]
  <2>1. ASSUME NEW how \in TaskPlaces, End(t, how)
        PROVE  task' \in [Turns -> TaskPlaces]
    BY <2>1, TurnTyped DEF End
  <2>2. \/ UNCHANGED task \/ End(t, "pulling") \/ End(t, "ended") \/ End(t, "raised")
    BY DEF TaskStep, Start, Send, Return, Unwind
  <2>3. gen' \in [Turns -> GenPlaces]
    BY TurnTyped DEF TaskStep, Start, Send, Return, Unwind, GenPlaces
  <2>4. fate' \in [Turns -> Fates]
    BY TurnTyped DEF TaskStep, Start, Send, Return, Unwind, Fates
  <2> QED BY <2>1, <2>2, <2>3, <2>4, TurnTyped DEF TaskPlaces, Alive
<1>2. out' \in [Turns -> Frames]
  BY TurnTyped, NothingType DEF TaskStep, Start, Send, Return, Unwind
<1>3. wire' \in Seq(Frames)
  <2>1. \A f \in Frames : Append(wire, f) \in Seq(Frames)
    BY AppendProperties, TurnTyped
  <2>2. /\ Frame(t, "session", "plain") \in Frames /\ Frame(t, "error", "plain") \in Frames
        /\ Frame(t, "done", "plain") \in Frames
    BY FrameTypes DEF Kinds, Whats
  <2>3. OnTheWire(out[t]) \in Frames
    BY OnTheWireType, TurnTyped
  <2> QED
    BY <2>1, <2>2, <2>3, TurnTyped DEF TaskStep, Start, Send, Return, Unwind
<1>4. UNCHANGED <<surface, conn, handler, turn, cancel, graphs>>
  BY DEF TaskStep, Start, Send, Return, Unwind
<1> QED
  BY <1>1, <1>2, <1>3, <1>4, TurnTypes, TurnTyped DEF graphs

\* The steps of a generator, and what befalls one.
LEMMA StreamGeneratorTypes ==
  ASSUME StreamTypeOK, NEW t \in Turns,
         GeneratorStep(t) \/ Close(t) \/ Finalize(t) \/ Raise(t) \/ Interrupt(t)
  PROVE  StreamTypeOK'
<1>1. ASSUME Generating, UNCHANGED <<fate, graphs>>,
             NEW where \in GenPlaces, NEW event \in Frames, Goto(t, where, event)
      PROVE  StreamTypeOK'
  BY <1>1, GotoType, TurnTypes, TurnTyped DEF Generating, graphs
<1>2. CASE OpenState(t) \/ Exhaust(t) \/ TellDone(t)
  <2>1. Nothing \in Frames /\ Frame(t, "done", "plain") \in Frames
    BY FrameTypes, NothingType DEF Kinds, Whats
  <2> QED
    BY <1>1, <1>2, <2>1 DEF OpenState, Exhaust, TellDone, GenPlaces
<1>3. CASE Fallback(t)
  <2>0. said[t].whole \in {"none", "answer", "thinking"}
    BY TurnTyped
  <2>1. said[t].whole # "none" => Frame(t, "content", said[t].whole) \in Frames
    BY <2>0, FrameTypes DEF Kinds, Whats
  <2>2. PICK event \in Frames : Goto(t, "answered", event)
    BY <1>3, <2>1, NothingType DEF Fallback
  <2> QED
    BY <1>1, <1>3, <2>2 DEF Fallback, GenPlaces
<1>4. CASE TellPause(t)
  <2>1. \A what \in {"bare", "token"} : Frame(t, "paused", what) \in Frames
    BY FrameTypes DEF Kinds, Whats
  <2>2. PICK event \in Frames : Goto(t, "paused", event)
    BY <1>4, <2>1, NothingType DEF TellPause
  <2> QED
    BY <1>1, <1>4, <2>2 DEF TellPause, GenPlaces
<1>5. CASE Token(t) \/ WholeReply(t) \/ Aside(t)
  <2>1. Item(t)
    BY <1>5 DEF Token, WholeReply, Aside
  <2>2. /\ items' \in 0..MaxItems /\ Generating /\ UNCHANGED <<fate, pause>>
    BY <2>1, ItemsAssumption, TurnTyped DEF Item
  <2>3. said' \in [Turns -> [streamed : BOOLEAN, whole : {"none", "answer", "thinking"}]]
    BY <1>5, TurnTyped DEF Token, WholeReply, Aside
  <2>4. /\ Frame(t, "content", "answer") \in Frames /\ Frame(t, "aside", "plain") \in Frames
        /\ Nothing \in Frames
    BY FrameTypes, NothingType DEF Kinds, Whats
  <2>5. PICK event \in Frames : Goto(t, "graph", event)
    BY <1>5, <2>4 DEF Token, WholeReply, Aside
  <2>6. "graph" \in GenPlaces
    BY DEF GenPlaces
  <2> QED
    BY <2>2, <2>3, <2>5, <2>6, GotoType, TurnTypes, TurnTyped DEF Generating
<1>6. CASE Close(t) \/ Finalize(t) \/ Raise(t) \/ Interrupt(t)
  <2>0. gen' \in [Turns -> GenPlaces]
    BY <1>6, TurnTyped DEF Close, Finalize, Raise, Interrupt, GenPlaces
  <2>1. fate' \in [Turns -> Fates]
    <3>1. CASE Close(t)
      <4>1. PICK end \in {fate[t], "error", "cancelled"} : fate' = [fate EXCEPT ![t] = end]
        BY <3>1 DEF Close
      <4> QED BY <4>1, TurnTyped DEF Fates
    <3>2. CASE Finalize(t) \/ Raise(t) \/ Interrupt(t)
      BY <3>2, TurnTyped DEF Finalize, Raise, Interrupt, Fates
    <3> QED BY <1>6, <3>1, <3>2
  <2>2. pause' \in [Turns -> BOOLEAN]
    BY <1>6, TurnTyped DEF Close, Finalize, Raise, Interrupt, graphs
  <2>3. Generating /\ UNCHANGED <<task, items, said, out>>
    BY <1>6 DEF Close, Finalize, Raise, Interrupt, graphs
  <2> QED
    BY <2>0, <2>1, <2>2, <2>3, TurnTypes, TurnTyped DEF Generating
<1> QED
  BY <1>2, <1>3, <1>4, <1>5, <1>6 DEF GeneratorStep

-----------------------------------------------------------------------------
(* StreamTurn: what a step of one turn leaves alone *)

\* The step moves no other turn than t.
Apart(u) ==
  /\ task'[u] = task[u] /\ gen'[u] = gen[u] /\ fate'[u] = fate[u]
  /\ said'[u] = said[u] /\ pause'[u] = pause[u] /\ out'[u] = out[u]
Only(t) == surface' = surface /\ \A u \in Turns \ {t} : Apart(u)

\* A turn that a step neither moves nor sends for keeps its invariant.
LEMMA ApartKeeps ==
  ASSUME NEW u \in Turns, TurnInv(u), surface' = surface, Apart(u),
         Sent(u, "content")' <=> Sent(u, "content"),
         Sent(u, "paused")' <=> Sent(u, "paused"),
         Sent(u, "done")' <=> Sent(u, "done")
  PROVE  TurnInv(u)'
<1>1. Held(u)'
  BY DEF TurnInv, Held, Apart
<1>2. HeldOut(u)'
  BY DEF TurnInv, HeldOut, Apart
<1>3. Shown(u)'
  BY DEF TurnInv, Shown, Apart, Under, Answered, Spoke, Sending
<1>4. Paused(u)'
  BY DEF TurnInv, Paused, Apart, Under, Sending
<1>5. Finished(u)'
  BY DEF TurnInv, Finished, Apart, Spoke
<1> QED
  BY <1>1, <1>2, <1>3, <1>4, <1>5 DEF TurnInv

LEMMA WireTyped ==
  ASSUME StreamTypeOK, NEW i \in DOMAIN wire
  PROVE  wire[i] \in Frames /\ wire[i].turn \in Turns
<1>1. wire[i] \in Frames
  BY DEF StreamTypeOK
<1> QED
  BY <1>1 DEF Frames

\* A step of turn t that sends nothing.
LEMMA SilentMove ==
  ASSUME StreamInv, StreamTypeOK', NEW t \in Turns, Only(t),
         UNCHANGED <<handler, turn, wire>>,
         task'[t] = "none" <=> task[t] = "none", task'[t] \in Alive => task[t] \in Alive,
         pause'[t] = pause[t] \/ ~Sent(t, "done"), TurnInv(t)'
  PROVE  StreamInv'
<1>1. \A u \in Turns : TurnInv(u)'
  <2> SUFFICES ASSUME NEW u \in Turns, u # t
               PROVE  TurnInv(u)'
    OBVIOUS
  <2> QED
    BY ApartKeeps, SameSent DEF StreamInv, Only
<1>2. OneUnderWay'
  BY DEF StreamInv, OneUnderWay, Only, Apart
<1>3. WireInv'
  <2>1. NoLateFrames'
    BY DEF StreamInv, WireInv, NoLateFrames
  <2>2. PauseIsTold'
    <3> SUFFICES ASSUME NEW i \in DOMAIN wire, wire[i].kind = "done", surface # "a2a"
                 PROVE  LET u == wire[i].turn
                            told == {j \in 1..(i - 1) : wire[j].turn = u
                                                        /\ wire[j].kind = "paused"}
                        IN  /\ pause'[u] <=> told # {}
                            /\ \A j \in told : surface = "sse" => wire[i].what = wire[j].what
      BY DEF PauseIsTold, Only
    <3>0. wire[i].turn \in Turns
      BY WireTyped DEF StreamInv
    <3>1. wire[i].turn \in Turns /\ Sent(wire[i].turn, "done")
      BY <3>0 DEF Sent
    <3>2. pause'[wire[i].turn] = pause[wire[i].turn]
      BY <3>1 DEF Only, Apart
    <3> QED
      BY <3>2 DEF StreamInv, WireInv, PauseIsTold
  <2> QED
    BY <2>1, <2>2 DEF StreamInv, WireInv
<1> QED
  BY <1>1, <1>2, <1>3 DEF StreamInv

\* A step of the turn under way that sends a frame.
LEMMA SpokenMove ==
  ASSUME StreamInv, StreamTypeOK', NEW t \in Turns, Only(t), NEW f \in Frames,
         UNCHANGED <<handler, turn, pause>>, wire' = Append(wire, f), f.turn = t,
         task[t] \in Alive, task'[t] # "none",
         f.kind = "paused" => ~Sent(t, "paused"),
         f.kind = "done" /\ surface # "a2a" =>
           /\ pause[t] <=> Sent(t, "paused")
           /\ \A j \in DOMAIN wire :
                surface = "sse" /\ wire[j].turn = t /\ wire[j].kind = "paused" =>
                  f.what = wire[j].what,
         TurnInv(t)'
  PROVE  StreamInv'
<1>1. /\ DOMAIN wire = 1..Len(wire) /\ DOMAIN wire' = 1..(Len(wire) + 1)
      /\ Len(wire) \in Nat
      /\ \A i \in 1..Len(wire) : wire'[i] = wire[i]
      /\ wire'[Len(wire) + 1] = f
  BY AppendProperties, LenProperties DEF StreamInv, StreamTypeOK
<1>2. t = turn
  BY DEF StreamInv, OneUnderWay
<1>3. \A u \in Turns : TurnInv(u)'
  <2> SUFFICES ASSUME NEW u \in Turns, u # t
               PROVE  TurnInv(u)'
    OBVIOUS
  <2> QED
    BY ApartKeeps, AppendSent DEF StreamInv, Only
<1>4. OneUnderWay'
  BY DEF StreamInv, OneUnderWay, Only, Apart, Alive
<1>5. \A i \in DOMAIN wire : wire[i].turn \in Nat /\ wire[i].turn <= turn
  <2> SUFFICES ASSUME NEW i \in DOMAIN wire
               PROVE  wire[i].turn \in Nat /\ wire[i].turn <= turn
    OBVIOUS
  <2>1. wire[i].turn \in Turns
    BY WireTyped DEF StreamInv
  <2> QED
    BY <2>1, TurnsAssumption DEF StreamInv, WireInv, Turns
<1>6. turn \in Nat
  <2>1. t \in 1..MaxTurns /\ MaxTurns \in Nat
    BY TurnsAssumption DEF Turns
  <2> QED
    BY <1>2, <2>1
<1>7. \A i \in DOMAIN wire' : wire'[i].turn <= turn'
  BY <1>1, <1>2, <1>5, <1>6
<1>8. NoLateFrames'
  <2> SUFFICES ASSUME NEW i \in DOMAIN wire', NEW j \in DOMAIN wire', i < j
               PROVE  wire'[i].turn <= wire'[j].turn
    BY DEF NoLateFrames
  <2>1. i \in DOMAIN wire
    BY <1>1
  <2>2. CASE j \in DOMAIN wire
    BY <1>1, <2>1, <2>2 DEF StreamInv, WireInv, NoLateFrames
  <2>3. CASE j = Len(wire) + 1
    BY <1>1, <1>2, <1>5, <2>1, <2>3
  <2> QED
    BY <1>1, <2>2, <2>3
<1>9. \A i, j \in DOMAIN wire' :
        /\ wire'[i].turn = wire'[j].turn
        /\ wire'[i].kind = "paused" /\ wire'[j].kind = "paused"
        => i = j
  BY <1>1 DEF StreamInv, WireInv, Sent
<1>10. PauseIsTold'
  <2> SUFFICES ASSUME NEW i \in DOMAIN wire', wire'[i].kind = "done", surface # "a2a"
               PROVE  LET u == wire'[i].turn
                          told == {j \in 1..(i - 1) : wire'[j].turn = u
                                                      /\ wire'[j].kind = "paused"}
                      IN  /\ pause[u] <=> told # {}
                          /\ \A j \in told : surface = "sse" => wire'[i].what = wire'[j].what
    BY DEF PauseIsTold, Only
  <2>1. CASE i \in DOMAIN wire
    <3>1. \A j \in 1..(i - 1) : wire'[j] = wire[j]
      BY <1>1, <2>1
    <3>2. wire'[i] = wire[i]
      BY <1>1, <2>1
    <3>3. LET u == wire[i].turn
              told == {j \in 1..(i - 1) : wire[j].turn = u /\ wire[j].kind = "paused"}
          IN  /\ pause[u] <=> told # {}
              /\ \A j \in told : surface = "sse" => wire[i].what = wire[j].what
      BY <2>1, <3>2 DEF StreamInv, WireInv, PauseIsTold
    <3> QED
      BY <3>1, <3>2, <3>3
  <2>2. CASE i = Len(wire) + 1
    <3>1. i - 1 = Len(wire) /\ wire'[i] = f
      BY <1>1, <2>2
    <3>2. \A j \in 1..(i - 1) : wire'[j] = wire[j] /\ j \in DOMAIN wire
      BY <1>1, <3>1
    <3>3. f.kind = "done"
      BY <3>1
    <3> QED
      BY <1>1, <3>1, <3>2, <3>3 DEF Sent
  <2> QED
    BY <1>1, <2>1, <2>2
<1> QED
  BY <1>3, <1>4, <1>7, <1>8, <1>9, <1>10 DEF StreamInv, WireInv

-----------------------------------------------------------------------------
(* StreamTurn: the generator's steps *)

\* What `Goto` moves: this turn's generator, and its task if there is an event
\* to send.
LEMMA GotoFacts ==
  ASSUME StreamTypeOK, NEW t \in Turns, NEW where, NEW event, Goto(t, where, event)
  PROVE  /\ gen'[t] = where
         /\ event = Nothing => task'[t] = task[t] /\ out'[t] = out[t]
         /\ event # Nothing => task'[t] = "sending" /\ out'[t] = event
         /\ \A u \in Turns \ {t} : gen'[u] = gen[u] /\ task'[u] = task[u] /\ out'[u] = out[u]
BY DEF StreamTypeOK, Goto

\* A step that runs the pulled generator on to `where`.
LEMMA GeneratorMove ==
  ASSUME StreamInv, StreamTypeOK', NEW t \in Turns, NEW from, Pulled(t, from),
         NEW where, NEW event, Goto(t, where, event), Generating,
         fate' = fate, pause' = pause, \A u \in Turns \ {t} : said'[u] = said[u],
         TurnInv(t)'
  PROVE  StreamInv'
<1>1. Only(t) /\ UNCHANGED <<handler, turn, wire>>
  BY GotoFacts DEF StreamInv, Only, Apart, Generating
<1>2. task[t] = "pulling" /\ task'[t] \in {"pulling", "sending"}
  BY GotoFacts DEF StreamInv, Pulled
<1> QED
  BY <1>1, <1>2, SilentMove DEF Alive

\* The generator has opened the turn's state: nothing is said yet.
LEMMA OpenStateKeeps ==
  ASSUME StreamInv, StreamTypeOK', NEW t \in Turns, OpenState(t)
  PROVE  StreamInv'
<1>1. /\ gen'[t] = "graph" /\ task'[t] = "pulling" /\ task[t] = "pulling"
      /\ gen[t] = "starting"
  BY GotoFacts DEF StreamInv, OpenState, Pulled
<1>2. UNCHANGED <<fate, said, pause, wire, surface>>
  BY DEF OpenState, Generating, graphs
<1>3. TurnInv(t)'
  BY <1>1, <1>2 DEF StreamInv, TurnInv, Held, HeldOut, Shown, Paused, Finished, Under,
     Answered, Spoke, Sending, Sent
<1> QED
  BY <1>2, <1>3, GeneratorMove DEF OpenState

\* A graph that yields: what was streamed is being sent.
LEMMA ItemKeeps ==
  ASSUME StreamInv, StreamTypeOK', NEW t \in Turns, Token(t) \/ WholeReply(t) \/ Aside(t)
  PROVE  StreamInv'
<1>1. /\ Pulled(t, "graph") /\ Generating /\ fate' = fate /\ pause' = pause
      /\ task[t] = "pulling" /\ gen[t] = "graph" /\ UNCHANGED <<wire, surface>>
  BY DEF Token, WholeReply, Aside, Item, Pulled, Generating
<1>2. \A u \in Turns \ {t} : said'[u] = said[u]
  BY DEF StreamInv, StreamTypeOK, Token, WholeReply, Aside
<1>3. said[t] \in [streamed : BOOLEAN, whole : {"none", "answer", "thinking"}]
  BY DEF StreamInv, StreamTypeOK
<1>4. CASE Token(t)
  <2> DEFINE f == Frame(t, "content", "answer")
  <2>1. f.kind = "content" /\ f.turn = t /\ f # Nothing
    BY FrameTypes, NothingType DEF Kinds, Whats
  <2>2. gen'[t] = "graph" /\ task'[t] = "sending" /\ out'[t] = f
    BY <1>4, <2>1, GotoFacts DEF StreamInv, Token
  <2>3. TurnInv(t)'
    BY <1>1, <2>1, <2>2 DEF StreamInv, TurnInv, Held, HeldOut, Shown, Paused, Finished,
       Under, Answered, Spoke, Sending, Sent
  <2> QED
    BY <1>1, <1>2, <1>4, <2>3, GeneratorMove DEF Token
<1>5. CASE WholeReply(t) \/ Aside(t)
  <2> DEFINE f == Frame(t, "aside", "plain")
  <2>1. f.kind = "aside" /\ f.turn = t /\ f # Nothing
    BY FrameTypes, NothingType DEF Kinds, Whats
  <2>2. said'[t].streamed = said[t].streamed
    BY <1>3, <1>5 DEF StreamInv, StreamTypeOK, WholeReply, Aside
  <2>3. PICK event \in {f, Nothing} : Goto(t, "graph", event)
    BY <1>5 DEF WholeReply, Aside
  <2>4. /\ gen'[t] = "graph"
        /\ task'[t] = "pulling" \/ (task'[t] = "sending" /\ out'[t] = f)
    BY <1>1, <2>1, <2>3, GotoFacts DEF StreamInv
  <2>5. TurnInv(t)'
    BY <1>1, <2>1, <2>2, <2>4 DEF StreamInv, TurnInv, Held, HeldOut, Shown, Paused,
       Finished, Under, Answered, Spoke, Sending, Sent
  <2> QED
    BY <1>1, <1>2, <2>3, <2>5, GeneratorMove
<1> QED
  BY <1>4, <1>5

\* The graph has ended: a reply that was not streamed is sent whole.
LEMMA FallbackKeeps ==
  ASSUME StreamInv, StreamTypeOK', NEW t \in Turns, Fallback(t)
  PROVE  StreamInv'
<1>1. /\ Pulled(t, "graph") /\ Generating /\ UNCHANGED <<fate, said, pause>>
      /\ task[t] = "pulling" /\ gen[t] = "graph" /\ UNCHANGED <<wire, surface>>
  BY DEF Fallback, Pulled, Generating, graphs
<1>2. said[t].whole \in {"none", "answer", "thinking"}
  BY DEF StreamInv, StreamTypeOK
<1>3. CASE ~said[t].streamed /\ said[t].whole # "none"
  <2> DEFINE f == Frame(t, "content", said[t].whole)
  <2>1. f.kind = "content" /\ f.turn = t /\ f # Nothing
    BY <1>2, <1>3, FrameTypes, NothingType DEF Kinds, Whats
  <2>2. Goto(t, "answered", f)
    BY <1>3 DEF Fallback
  <2>3. gen'[t] = "answered" /\ task'[t] = "sending" /\ out'[t] = f
    BY <2>1, <2>2, GotoFacts DEF StreamInv
  <2>4. TurnInv(t)'
    BY <1>1, <2>1, <2>3 DEF StreamInv, TurnInv, Held, HeldOut, Shown, Paused, Finished,
       Under, Answered, Spoke, Sending, Sent
  <2> QED
    BY <1>1, <2>2, <2>4, GeneratorMove
<1>4. CASE ~(~said[t].streamed /\ said[t].whole # "none")
  <2>1. Goto(t, "answered", Nothing)
    BY <1>4 DEF Fallback
  <2>2. gen'[t] = "answered" /\ task'[t] = "pulling"
    BY <1>1, <2>1, GotoFacts DEF StreamInv
  <2>3. TurnInv(t)'
    BY <1>1, <1>4, <2>2 DEF StreamInv, TurnInv, Held, HeldOut, Shown, Paused, Finished,
       Under, Answered, Spoke, Sending, Sent
  <2> QED
    BY <1>1, <2>1, <2>3, GeneratorMove
<1> QED
  BY <1>3, <1>4

\* The pause is told, or skipped where there is none.
LEMMA TellPauseKeeps ==
  ASSUME StreamInv, StreamTypeOK', NEW t \in Turns, TellPause(t)
  PROVE  StreamInv'
<1>1. /\ Pulled(t, "answered") /\ Generating /\ UNCHANGED <<fate, said, pause>>
      /\ task[t] = "pulling" /\ gen[t] = "answered" /\ UNCHANGED <<wire, surface>>
  BY DEF TellPause, Pulled, Generating, graphs
<1>2. CASE pause[t]
  <2>1. PICK what \in {"bare", "token"} : Goto(t, "paused", Frame(t, "paused", what))
    BY <1>2 DEF TellPause
  <2> DEFINE f == Frame(t, "paused", what)
  <2>2. f.kind = "paused" /\ f.turn = t /\ f # Nothing
    BY FrameTypes, NothingType DEF Kinds, Whats
  <2>3. gen'[t] = "paused" /\ task'[t] = "sending" /\ out'[t] = f
    BY <2>1, <2>2, GotoFacts DEF StreamInv
  <2>4. TurnInv(t)'
    BY <1>1, <1>2, <2>2, <2>3 DEF StreamInv, TurnInv, Held, HeldOut, Shown, Paused,
       Finished, Under, Answered, Spoke, Sending, Sent
  <2> QED
    BY <1>1, <2>1, <2>4, GeneratorMove
<1>3. CASE ~pause[t]
  <2>1. Goto(t, "paused", Nothing)
    BY <1>3 DEF TellPause
  <2>2. gen'[t] = "paused" /\ task'[t] = "pulling"
    BY <1>1, <2>1, GotoFacts DEF StreamInv
  <2>3. TurnInv(t)'
    BY <1>1, <1>3, <2>2 DEF StreamInv, TurnInv, Held, HeldOut, Shown, Paused, Finished,
       Under, Answered, Spoke, Sending, Sent
  <2> QED
    BY <1>1, <2>1, <2>3, GeneratorMove
<1> QED
  BY <1>2, <1>3

\* `done` is the last thing a generator says, after the answer and the pause.
LEMMA TellDoneKeeps ==
  ASSUME StreamInv, StreamTypeOK', NEW t \in Turns, TellDone(t)
  PROVE  StreamInv'
<1>1. /\ Pulled(t, "paused") /\ Generating /\ UNCHANGED <<fate, said, pause>>
      /\ task[t] = "pulling" /\ gen[t] = "paused" /\ UNCHANGED <<wire, surface>>
  BY DEF TellDone, Pulled, Generating, graphs
<1> DEFINE f == Frame(t, "done", "plain")
<1>2. f.kind = "done" /\ f.turn = t /\ f # Nothing
  BY FrameTypes, NothingType DEF Kinds, Whats
<1>3. gen'[t] = "told" /\ task'[t] = "sending" /\ out'[t] = f
  BY <1>2, GotoFacts DEF StreamInv, TellDone
<1>4. TurnInv(t)'
  BY <1>1, <1>2, <1>3 DEF StreamInv, TurnInv, Held, HeldOut, Shown, Paused, Finished, Under,
     Answered, Spoke, Sending, Sent
<1> QED
  BY <1>1, <1>4, GeneratorMove DEF TellDone

\* A generator that has said `done` closes its store.
LEMMA ExhaustKeeps ==
  ASSUME StreamInv, StreamTypeOK', NEW t \in Turns, Exhaust(t)
  PROVE  StreamInv'
<1>1. /\ Pulled(t, "told") /\ Generating /\ UNCHANGED <<fate, said, pause>>
      /\ task[t] = "pulling" /\ gen[t] = "told" /\ UNCHANGED <<wire, surface>>
  BY DEF Exhaust, Pulled, Generating, graphs
<1>2. gen'[t] = "closing" /\ task'[t] = "pulling"
  BY <1>1, GotoFacts DEF StreamInv, Exhaust
<1>3. TurnInv(t)'
  BY <1>1, <1>2 DEF StreamInv, TurnInv, Held, HeldOut, Shown, Paused, Finished, Under,
     Answered, Spoke, Sending, Sent
<1> QED
  BY <1>1, <1>3, GeneratorMove DEF Exhaust

\* What can befall a generator at any time.
LEMMA BefallsKeeps ==
  ASSUME StreamInv, StreamTypeOK', NEW t \in Turns,
         Raise(t) \/ Interrupt(t) \/ Close(t) \/ Finalize(t)
  PROVE  StreamInv'
<1>1. UNCHANGED <<surface, handler, turn, wire, task, said, out>>
  BY DEF Raise, Interrupt, Close, Finalize, Generating, graphs
<1>2. \A u \in Turns \ {t} : gen'[u] = gen[u] /\ fate'[u] = fate[u] /\ pause'[u] = pause[u]
  <2>1. /\ gen' = gen \/ \E where : gen' = [gen EXCEPT ![t] = where]
        /\ fate' = fate \/ \E end : fate' = [fate EXCEPT ![t] = end]
        /\ pause' = pause \/ pause' = [pause EXCEPT ![t] = TRUE]
    BY DEF Raise, Interrupt, Close, Finalize, graphs
  <2> QED
    BY <2>1 DEF StreamInv, StreamTypeOK
<1>3. CASE Raise(t)
  <2>1. /\ task[t] = "pulling" /\ gen[t] \in {"starting", "graph"}
        /\ gen'[t] \in {"closed", "closing"} /\ fate'[t] = "error" /\ pause' = pause
    BY <1>3 DEF StreamInv, StreamTypeOK, Raise, Pulled, graphs
  <2>2. TurnInv(t)'
    BY <1>1, <2>1 DEF StreamInv, TurnInv, Held, HeldOut, Shown, Paused, Finished, Under,
       Answered, Spoke, Sending, Sent
  <2> QED
    BY <1>1, <1>2, <2>1, <2>2, SilentMove DEF Only, Apart
<1>4. CASE Interrupt(t)
  <2>1. task[t] = "pulling" /\ gen[t] = "graph" /\ gen' = gen /\ fate' = fate /\ pause'[t]
    BY <1>4 DEF StreamInv, StreamTypeOK, Interrupt, Pulled
  <2>2. TurnInv(t)' /\ ~Sent(t, "done")
    BY <1>1, <2>1 DEF StreamInv, TurnInv, Held, HeldOut, Shown, Paused, Finished, Under,
       Answered, Spoke, Sending, Sent
  <2> QED
    BY <1>1, <1>2, <2>1, <2>2, SilentMove DEF Only, Apart
<1>5. CASE Close(t)
  <2>1. /\ gen[t] = "closing" /\ gen'[t] = "closed" /\ pause' = pause
        /\ fate'[t] \in {fate[t], "error", "cancelled"}
    BY <1>5 DEF StreamInv, StreamTypeOK, Close, graphs
  <2>2. TurnInv(t)'
    BY <1>1, <2>1 DEF StreamInv, TurnInv, Held, HeldOut, Shown, Paused, Finished, Under,
       Answered, Spoke, Sending, Sent
  <2> QED
    BY <1>1, <1>2, <2>1, <2>2, SilentMove DEF Only, Apart
<1>6. CASE Finalize(t)
  <2>1. gen[t] = "dropped" /\ gen'[t] = "closing" /\ pause' = pause /\ fate' = fate
    BY <1>6 DEF StreamInv, StreamTypeOK, Finalize, graphs
  <2>2. TurnInv(t)'
    BY <1>1, <2>1 DEF StreamInv, TurnInv, Held, HeldOut, Shown, Paused, Finished, Under,
       Answered, Spoke, Sending, Sent
  <2> QED
    BY <1>1, <1>2, <2>1, <2>2, SilentMove DEF Only, Apart
<1> QED
  BY <1>3, <1>4, <1>5, <1>6

-----------------------------------------------------------------------------
(* StreamTurn: the consumer's steps *)

\* A step of a task touches its own turn and decides nothing about the answer.
LEMMA TaskStepsApart ==
  ASSUME StreamInv, NEW t \in Turns, TaskStep(t)
  PROVE  Only(t) /\ UNCHANGED <<handler, turn, pause, said>>
<1>1. UNCHANGED <<surface, handler, turn, pause, said>>
  BY DEF TaskStep, Start, Send, Return, Unwind, graphs
<1>2. /\ task' = task \/ \E how : task' = [task EXCEPT ![t] = how]
      /\ gen' = gen \/ \E where : gen' = [gen EXCEPT ![t] = where]
      /\ fate' = fate \/ fate' = [fate EXCEPT ![t] = "cancelled"]
      /\ out' = out \/ out' = [out EXCEPT ![t] = Nothing]
  BY DEF TaskStep, Start, Send, Return, Unwind, End
<1>3. \A u \in Turns \ {t} : /\ task'[u] = task[u] /\ gen'[u] = gen[u]
                             /\ fate'[u] = fate[u] /\ out'[u] = out[u]
  BY <1>2 DEF StreamInv, StreamTypeOK
<1> QED
  BY <1>1, <1>3 DEF Only, Apart

\* A task takes its generator in hand, or is cancelled before it could.
LEMMA StartKeeps ==
  ASSUME StreamInv, StreamTypeOK', NEW t \in Turns, Start(t)
  PROVE  StreamInv'
<1>1. Only(t) /\ UNCHANGED <<handler, turn, pause, said, surface>>
  BY TaskStepsApart DEF TaskStep, Only
<1>2. task[t] = "created" /\ gen[t] = "none" /\ fate' = fate
  BY DEF StreamInv, TurnInv, Held, Start
<1>3. ~Sent(t, "paused") /\ ~Sent(t, "done") /\ ~said[t].streamed
  BY <1>2 DEF StreamInv, TurnInv, Held, Paused, Finished
<1>4. \/ task'[t] = "raised" /\ gen'[t] = "none"
      \/ task'[t] = "pulling" /\ gen'[t] = "starting"
  BY <1>2 DEF StreamInv, StreamTypeOK, Start, End
<1>5. CASE wire' = wire
  <2>1. ~Sent(t, "paused")' /\ ~Sent(t, "done")'
    BY <1>3, <1>5, SameSent
  <2>2. TurnInv(t)'
    BY <1>1, <1>2, <1>3, <1>4, <2>1 DEF TurnInv, Held, HeldOut, Shown, Paused, Finished,
       Under, Answered, Sending
  <2> QED
    BY <1>1, <1>2, <1>4, <1>5, <2>2, SilentMove DEF Alive
<1>6. CASE wire' = Append(wire, Frame(t, "session", "plain"))
  <2> DEFINE f == Frame(t, "session", "plain")
  <2>1. f \in Frames /\ f.kind = "session" /\ f.turn = t
    BY FrameTypes DEF Kinds, Whats
  <2> HIDE DEF f
  <2>2. ~Sent(t, "paused")' /\ ~Sent(t, "done")'
    BY <1>3, <1>6, <2>1, AppendSent DEF StreamInv, f
  <2>3. TurnInv(t)'
    BY <1>1, <1>2, <1>3, <1>4, <2>2 DEF TurnInv, Held, HeldOut, Shown, Paused, Finished,
       Under, Answered, Sending
  <2> QED
    BY <1>1, <1>2, <1>4, <1>6, <2>1, <2>3, SpokenMove DEF Alive, f
<1> QED
  BY <1>5, <1>6 DEF Start

\* A cancelled task leaves; a generator it holds is closing or dropped.
LEMMA UnwindKeeps ==
  ASSUME StreamInv, StreamTypeOK', NEW t \in Turns, Unwind(t)
  PROVE  StreamInv'
<1>1. Only(t) /\ UNCHANGED <<handler, turn, pause, said, surface, out, wire>>
  BY TaskStepsApart DEF TaskStep, Only, Unwind
<1>2. \/ /\ task[t] \in {"created", "sending"} /\ task'[t] = "ended" /\ fate' = fate
         /\ gen'[t] = IF task[t] = "created" THEN gen[t] ELSE "dropped"
      \/ /\ task[t] = "pulling" /\ task'[t] = "pulling" /\ fate'[t] = "cancelled"
         /\ gen'[t] \in {"closed", "closing"}
  BY DEF StreamInv, StreamTypeOK, Unwind, End
<1>3. TurnInv(t)'
  BY <1>1, <1>2 DEF StreamInv, TurnInv, Held, HeldOut, Shown, Paused, Finished, Under,
     Answered, Spoke, Sending, Sent
<1> QED
  BY <1>1, <1>2, <1>3, SilentMove DEF Alive

\* A task whose generator is exhausted ends, or tells its error.
LEMMA ReturnKeeps ==
  ASSUME StreamInv, StreamTypeOK', NEW t \in Turns, Return(t)
  PROVE  StreamInv'
<1>1. Only(t) /\ UNCHANGED <<handler, turn, pause, said, surface, out, gen, fate>>
  BY TaskStepsApart DEF TaskStep, Only, Return
<1>2. task[t] = "pulling" /\ gen[t] = "closed" /\ task'[t] \in {"ended", "raised"}
  BY DEF StreamInv, StreamTypeOK, Return, End
<1>3. CASE wire' = wire
  <2>1. TurnInv(t)'
    BY <1>1, <1>2, <1>3 DEF StreamInv, TurnInv, Held, HeldOut, Shown, Paused, Finished,
       Under, Answered, Spoke, Sending, Sent
  <2> QED
    BY <1>1, <1>2, <1>3, <2>1, SilentMove DEF Alive
<1>4. CASE wire' # wire
  <2>1. PICK kind \in {"error", "done"} :
          /\ wire' = Append(wire, Frame(t, kind, "plain"))
          /\ kind = "done" => fate[t] = "ok" /\ surface = "a2a"
    BY <1>4 DEF Return
  <2> DEFINE f == Frame(t, kind, "plain")
  <2>2. f \in Frames /\ f.kind = kind /\ f.turn = t
    BY FrameTypes DEF Kinds, Whats
  <2> HIDE DEF f
  <2>3. /\ Sent(t, "content")' <=> Sent(t, "content")
        /\ Sent(t, "paused")' <=> Sent(t, "paused")
        /\ Sent(t, "done")' <=> Sent(t, "done") \/ kind = "done"
    BY <2>1, <2>2, AppendSent DEF StreamInv, f
  <2>4. TurnInv(t)'
    BY <1>1, <1>2, <2>1, <2>3 DEF StreamInv, TurnInv, Held, HeldOut, Shown, Paused,
       Finished, Under, Answered, Spoke, Sending
  <2> QED
    BY <1>1, <1>2, <2>1, <2>2, <2>4, SpokenMove DEF Alive, f
<1> QED
  BY <1>3, <1>4

\* What the :stream endpoint puts on its last frame is what the pause said.
LEMMA RepeatsThePause ==
  ASSUME StreamInv, NEW f \in Frames, f.kind = "done", surface = "sse",
         NEW j \in DOMAIN wire, wire[j].turn = f.turn, wire[j].kind = "paused"
  PROVE  OnTheWire(f).what = wire[j].what
<1> DEFINE told == CHOOSE i \in DOMAIN wire : wire[i].turn = f.turn /\ wire[i].kind = "paused"
<1>1. told \in DOMAIN wire /\ wire[told].turn = f.turn /\ wire[told].kind = "paused"
  OBVIOUS
<1>2. told = j
  BY <1>1 DEF StreamInv, WireInv
<1>3. OnTheWire(f) = [f EXCEPT !.what = wire[told].what]
  BY DEF OnTheWire, Sent
<1> HIDE DEF told
<1> QED
  BY <1>2, <1>3 DEF Frames

\* A frame reaches the wire: the one step that `WireInv` speaks of directly.
LEMMA SendKeeps ==
  ASSUME StreamInv, StreamTypeOK', NEW t \in Turns, Send(t)
  PROVE  StreamInv'
<1>1. Only(t) /\ UNCHANGED <<handler, turn, pause, said, surface, fate>>
  BY TaskStepsApart DEF TaskStep, Only, Send
<1>2. task[t] = "sending" /\ out[t] \in Frames /\ out[t].turn = t
  BY DEF StreamInv, StreamTypeOK, TurnInv, HeldOut, Send
<1>3. CASE /\ surface = "a2a" /\ task' = [task EXCEPT ![t] = "ended"]
           /\ gen' = [gen EXCEPT ![t] = "dropped"]
           /\ wire' = Append(wire, Frame(t, "error", "plain"))
  <2> DEFINE f == Frame(t, "error", "plain")
  <2>1. f \in Frames /\ f.kind = "error" /\ f.turn = t
    BY FrameTypes DEF Kinds, Whats
  <2> HIDE DEF f
  <2>2. task'[t] = "ended" /\ gen'[t] = "dropped"
    BY <1>3 DEF StreamInv, StreamTypeOK
  <2>3. /\ Sent(t, "content")' <=> Sent(t, "content")
        /\ Sent(t, "paused")' <=> Sent(t, "paused")
        /\ Sent(t, "done")' <=> Sent(t, "done")
    BY <1>3, <2>1, AppendSent DEF StreamInv, f
  <2>4. TurnInv(t)'
    BY <1>1, <1>2, <1>3, <2>2, <2>3 DEF StreamInv, TurnInv, Held, HeldOut, Shown, Paused,
       Finished, Under, Answered, Spoke, Sending
  <2> QED
    BY <1>1, <1>2, <1>3, <2>1, <2>2, <2>4, SpokenMove DEF Alive, f
<1>4. CASE /\ task' = [task EXCEPT ![t] = "raised"] /\ wire' = wire
           /\ gen' = [gen EXCEPT ![t] = "dropped"]
  <2>1. task'[t] = "raised" /\ gen'[t] = "dropped"
    BY <1>4 DEF StreamInv, StreamTypeOK
  <2>2. TurnInv(t)'
    BY <1>1, <1>2, <1>4, <2>1 DEF StreamInv, TurnInv, Held, HeldOut, Shown, Paused,
       Finished, Under, Answered, Spoke, Sending, Sent
  <2> QED
    BY <1>1, <1>2, <1>4, <2>1, <2>2, SilentMove DEF Alive
<1>5. CASE /\ task' = [task EXCEPT ![t] = "pulling"] /\ gen' = gen /\ wire' = wire
           /\ surface = "a2a" /\ out[t].kind # "content"
  <2>1. task'[t] = "pulling"
    BY <1>5 DEF StreamInv, StreamTypeOK
  <2>2. TurnInv(t)'
    BY <1>1, <1>2, <1>5, <2>1 DEF StreamInv, TurnInv, Held, HeldOut, Shown, Paused,
       Finished, Under, Answered, Spoke, Sending, Sent
  <2> QED
    BY <1>1, <1>2, <1>5, <2>1, <2>2, SilentMove DEF Alive
<1>6. CASE /\ task' = [task EXCEPT ![t] = "pulling"] /\ gen' = gen
           /\ ~(surface = "a2a" /\ out[t].kind # "content")
           /\ wire' = Append(wire, OnTheWire(out[t]))
  <2> DEFINE f == OnTheWire(out[t])
  <2>1. f \in Frames /\ f.kind = out[t].kind /\ f.turn = t
    BY <1>2, OnTheWireType DEF StreamInv
  <2>2. task'[t] = "pulling"
    BY <1>6 DEF StreamInv, StreamTypeOK
  <2>3. surface = "sse" /\ f.kind = "done" =>
          \A j \in DOMAIN wire : wire[j].turn = t /\ wire[j].kind = "paused" =>
            f.what = wire[j].what
    BY <1>2, <2>1, RepeatsThePause
  <2> HIDE DEF f
  <2>4. /\ Sent(t, "content")' <=> Sent(t, "content") \/ out[t].kind = "content"
        /\ Sent(t, "paused")' <=> Sent(t, "paused") \/ out[t].kind = "paused"
        /\ Sent(t, "done")' <=> Sent(t, "done") \/ out[t].kind = "done"
    BY <1>6, <2>1, AppendSent DEF StreamInv, f
  <2>5. TurnInv(t)'
    BY <1>1, <1>2, <1>6, <2>2, <2>4 DEF StreamInv, TurnInv, Held, HeldOut, Shown, Paused,
       Finished, Under, Answered, Spoke, Sending
  <2>6. f.kind = "paused" => ~Sent(t, "paused")
    BY <1>2, <2>1 DEF StreamInv, TurnInv, HeldOut
  <2>7. f.kind = "done" /\ surface # "a2a" => (pause[t] <=> Sent(t, "paused"))
    BY <1>2, <2>1 DEF StreamInv, TurnInv, HeldOut, Paused, Under, Sending
  <2> QED
    BY <1>1, <1>2, <1>6, <2>1, <2>2, <2>3, <2>5, <2>6, <2>7, SpokenMove DEF Alive, f
<1> QED
  BY <1>3, <1>4, <1>5, <1>6 DEF Send, End

-----------------------------------------------------------------------------
(* StreamTurn: the endpoint's steps *)

\* A new turn starts where none is under way.
LEMMA CreatedKeeps ==
  ASSUME StreamInv, StreamTypeOK', Created(turn + 1), turn + 1 \in Turns,
         turn = 0 \/ task[turn] \notin Alive, handler' # "cancelling",
         UNCHANGED <<surface, gen, fate, graphs, out, wire>>
  PROVE  StreamInv'
<1>1. /\ turn \in Nat /\ MaxTurns \in Nat
      /\ \A u \in Turns : u \in Nat /\ u >= 1
  BY TurnsAssumption DEF StreamInv, StreamTypeOK, Turns
<1>2. /\ turn' = turn + 1 /\ task'[turn + 1] = "created"
      /\ \A u \in Turns \ {turn + 1} : task'[u] = task[u]
  BY DEF Created, StreamInv, StreamTypeOK
<1>3. \A u \in Turns : (task[u] = "none" <=> u > turn) /\ task[u] \notin Alive
  BY <1>1 DEF StreamInv, OneUnderWay
<1>4. OneUnderWay'
  <2> SUFFICES ASSUME NEW u \in Turns
               PROVE  /\ task'[u] = "none" <=> u > turn'
                      /\ task'[u] \in Alive => u = turn'
    BY DEF OneUnderWay
  <2>1. CASE u = turn + 1
    BY <1>1, <1>2, <2>1
  <2>2. CASE u # turn + 1
    BY <1>1, <1>2, <1>3, <2>2
  <2> QED
    BY <2>1, <2>2
<1>5. \A u \in Turns : TurnInv(u)'
  <2> SUFFICES ASSUME NEW u \in Turns
               PROVE  TurnInv(u)'
    OBVIOUS
  <2>1. CASE u = turn + 1
    <3>1. task[u] = "none" /\ task'[u] = "created"
      BY <1>1, <1>2, <1>3, <2>1
    <3> QED
      BY <3>1 DEF StreamInv, TurnInv, Held, HeldOut, Shown, Paused, Finished, Under,
         Answered, Spoke, Sending, Sent, graphs
  <2>2. CASE u # turn + 1
    <3>1. Apart(u)
      BY <1>2, <2>2 DEF Apart, graphs
    <3> QED
      BY <3>1, ApartKeeps, SameSent DEF StreamInv
  <2> QED
    BY <2>1, <2>2
<1>6. WireInv'
  <2>1. \A i \in DOMAIN wire : wire[i].turn <= turn'
    <3> SUFFICES ASSUME NEW i \in DOMAIN wire
                 PROVE  wire[i].turn <= turn'
      OBVIOUS
    <3>1. wire[i].turn \in Turns /\ wire[i].turn <= turn
      BY WireTyped DEF StreamInv, WireInv
    <3> QED
      BY <1>1, <1>2, <3>1
  <2> QED
    BY <2>1 DEF StreamInv, WireInv, NoLateFrames, PauseIsTold, graphs
<1> QED
  BY <1>4, <1>5, <1>6 DEF StreamInv

\* Nothing the invariant speaks of has changed.
LEMMA SameKeeps ==
  ASSUME StreamInv, StreamTypeOK',
         UNCHANGED <<surface, turn, task, gen, fate, graphs, out, wire>>,
         handler' = "cancelling" => turn \in Turns /\ turn < MaxTurns
  PROVE  StreamInv'
<1>1. OneUnderWay'
  BY DEF StreamInv, OneUnderWay
<1>2. \A u \in Turns : TurnInv(u)'
  BY ApartKeeps, SameSent DEF StreamInv, Apart, graphs
<1>3. WireInv'
  BY DEF StreamInv, WireInv, NoLateFrames, PauseIsTold, graphs
<1> QED
  BY <1>1, <1>2, <1>3 DEF StreamInv

\* A new turn begins only when the one before it is over.
LEMMA EndpointKeeps ==
  ASSUME StreamInv, StreamTypeOK', Ask \/ Message \/ Cancelled \/ Disconnect \/ HangUp
  PROVE  StreamInv'
<1>1. turn \in 0..MaxTurns /\ MaxTurns \in Nat \ {0}
  BY TurnsAssumption DEF StreamInv, StreamTypeOK
<1>2. UNCHANGED <<surface, gen, fate, graphs, out, wire>>
  BY DEF Ask, Message, Cancelled, Disconnect, HangUp
<1>3. CASE Ask
  <2>1. turn = 0 /\ Created(turn + 1) /\ turn + 1 \in Turns /\ handler' = handler
    BY <1>1, <1>3 DEF Ask, Turns
  <2>2. handler' # "cancelling"
    BY <2>1, TurnsAssumption DEF StreamInv, OneUnderWay, Turns
  <2> QED
    BY <1>2, <2>1, <2>2, CreatedKeeps
<1>4. CASE Message
  <2>1. turn + 1 \in Turns /\ handler = "receiving"
    BY <1>1, <1>4 DEF Message, Turns
  <2>2. CASE turn > 0 /\ task[turn] \in Alive
    <3>1. turn \in Turns /\ turn < MaxTurns /\ UNCHANGED <<turn, task>>
      BY <1>1, <1>4, <2>2 DEF Message, Turns
    <3> QED
      BY <1>2, <3>1, SameKeeps
  <2>3. CASE ~(turn > 0 /\ task[turn] \in Alive)
    <3>1. Created(turn + 1) /\ handler' = handler
      BY <1>4, <2>3 DEF Message
    <3>2. turn = 0 \/ task[turn] \notin Alive
      BY <1>1, <2>3
    <3> QED
      BY <1>2, <2>1, <3>1, <3>2, CreatedKeeps
  <2> QED
    BY <2>2, <2>3
<1>5. CASE Cancelled
  <2>1. turn \in Turns /\ turn < MaxTurns /\ task[turn] \notin Alive
    BY <1>5 DEF Cancelled, StreamInv, OneUnderWay
  <2>2. turn + 1 \in Turns
    BY <1>1, <2>1 DEF Turns
  <2>3. CASE task[turn] = "raised"
    BY <1>2, <1>5, <2>1, <2>3, SameKeeps DEF Cancelled
  <2>4. CASE task[turn] # "raised"
    BY <1>2, <1>5, <2>1, <2>2, <2>4, CreatedKeeps DEF Cancelled
  <2> QED
    BY <2>3, <2>4
<1>6. CASE Disconnect \/ HangUp
  <2>1. UNCHANGED <<turn, task>> /\ (handler' = handler \/ handler' = "gone")
    BY <1>6 DEF Disconnect, HangUp
  <2>2. handler' = "cancelling" => turn \in Turns /\ turn < MaxTurns
    BY <2>1 DEF StreamInv, OneUnderWay
  <2> QED
    BY <1>2, <2>1, <2>2, SameKeeps
<1> QED
  BY <1>3, <1>4, <1>5, <1>6

LEMMA StreamInitInv ==
  StreamInit => StreamInv
<1> SUFFICES ASSUME StreamInit
             PROVE  StreamInv
  OBVIOUS
<1>1. StreamTypeOK
  BY StreamInitType
<1>2. OneUnderWay
  <2>1. \A t \in Turns : t \in Nat /\ t >= 1
    BY TurnsAssumption DEF Turns
  <2> QED
    BY <2>1 DEF StreamInit, OneUnderWay, Alive
<1>3. DOMAIN wire = {}
  BY EmptySeq, LenProperties, <1>1 DEF StreamInit, StreamTypeOK
<1>4. \A t \in Turns : TurnInv(t)
  BY <1>3 DEF StreamInit, TurnInv, Held, HeldOut, Shown, Paused, Finished, Under, Answered,
     Spoke, Sending, Sent
<1>5. WireInv
  BY <1>3 DEF WireInv, NoLateFrames, PauseIsTold
<1> QED
  BY <1>1, <1>2, <1>4, <1>5 DEF StreamInv

LEMMA StreamStepInv ==
  StreamInv /\ [StreamNext]_streamVars => StreamInv'
<1> SUFFICES ASSUME StreamInv, [StreamNext]_streamVars
             PROVE  StreamInv'
  OBVIOUS
<1>1. CASE Ask \/ Message \/ Cancelled \/ Disconnect \/ HangUp
  BY <1>1, StreamEndpointTypes, EndpointKeeps DEF StreamInv
<1>2. ASSUME NEW t \in Turns, TaskStep(t)
      PROVE  StreamInv'
  BY <1>2, StreamTaskTypes, StartKeeps, SendKeeps, ReturnKeeps, UnwindKeeps
     DEF StreamInv, TaskStep
<1>3. ASSUME NEW t \in Turns, GeneratorStep(t)
      PROVE  StreamInv'
  BY <1>3, StreamGeneratorTypes, OpenStateKeeps, ItemKeeps, FallbackKeeps, TellPauseKeeps,
     TellDoneKeeps, ExhaustKeeps DEF StreamInv, GeneratorStep
<1>4. ASSUME NEW t \in Turns, Raise(t) \/ Interrupt(t) \/ Close(t) \/ Finalize(t)
      PROVE  StreamInv'
  BY <1>4, StreamGeneratorTypes, BefallsKeeps DEF StreamInv
<1>5. CASE UNCHANGED streamVars
  <2>1. StreamTypeOK'
    BY <1>5 DEF streamVars, graphs, StreamInv, StreamTypeOK
  <2> QED
    BY <1>5, <2>1, SameKeeps DEF streamVars, StreamInv, OneUnderWay
<1> QED
  BY <1>1, <1>2, <1>3, <1>4, <1>5 DEF StreamNext, TurnStep

LEMMA StreamInvariance ==
  StreamSpec => []StreamInv
BY StreamInitInv, StreamStepInv, PTL DEF StreamSpec

-----------------------------------------------------------------------------
(* StreamTurn: the theorems *)

\* Whichever way the reply came, a turn that is told done after its model said
\* something has shown it (LangGraphEngine.stream, RunnableAgent.stream).
THEOREM StreamsSpeakUp == StreamSpec => []NeverSilent
<1>1. StreamInv => NeverSilent
  <2> SUFFICES ASSUME StreamInv, NEW i \in DOMAIN wire, wire[i].kind = "done",
                      Spoke(wire[i].turn)
               PROVE  Sent(wire[i].turn, "content")
    BY DEF NeverSilent, Spoke
  <2>1. wire[i].turn \in Turns
    BY WireTyped DEF StreamInv
  <2>2. Sent(wire[i].turn, "done")
    BY DEF Sent
  <2> QED
    BY <2>1, <2>2 DEF StreamInv, TurnInv, Finished
<1> QED
  BY <1>1, StreamInvariance, PTL

\* On /v1 a run that waits for a human is told so before its end, and the last
\* frame of :stream repeats the pause (routers/agents.py, routers/live.py).
THEOREM PausesAreTold == StreamSpec => []PauseIsTold
<1>1. StreamInv => PauseIsTold
  BY DEF StreamInv, WireInv
<1> QED
  BY <1>1, StreamInvariance, PTL

\* Once a newer turn has spoken on the socket no older one does, however the
\* client barges in and hangs up (routers/live.py).
THEOREM OldTurnsFallSilent == StreamSpec => []NoLateFrames
<1>1. StreamInv => NoLateFrames
  BY DEF StreamInv, WireInv
<1> QED
  BY <1>1, StreamInvariance, PTL

\* However the consumer left a stream, its generator has closed what it
\* opened, is closing it or is in the finalizer's hands (open_turn_state).
THEOREM NothingStaysOpen == StreamSpec => []StateIsReleased
<1>1. StreamInv => StateIsReleased
  BY DEF StreamInv, TurnInv, Held, StateIsReleased
<1> QED
  BY <1>1, StreamInvariance, PTL

-----------------------------------------------------------------------------
(* StreamTurn implements TurnFrames: what the grammar needs to know *)

NothingSent(t) == \A kind \in Kinds : ~Sent(t, kind)

\* What a turn has said fits where its task and its generator are.
FrameInv(t) ==
  /\ task[t] \in {"none", "created"} => NothingSent(t)
  /\ Under(t) /\ surface # "a2a" => Sent(t, "session")
  /\ Sent(t, "error") => task[t] = "ended"
  /\ Sent(t, "done") => /\ task[t] # "sending"
                        /\ surface = "a2a" => task[t] = "ended"
  /\ task[t] = "sending" => /\ gen[t] = "paused" => out[t].kind = "paused"
                            /\ gen[t] = "told" => out[t].kind = "done"

GrammarInv == StreamInv /\ \A t \in Turns : FrameInv(t)

\* A frame that fits is one the grammar allows.
LEMMA FittingFrame ==
  ASSUME GrammarInv, NEW t \in Turns, NEW f \in Frames, f.turn = t, task[t] \in Alive,
         wire' = Append(wire, f), UNCHANGED surface,
         IF f.kind = "session" THEN surface # "a2a" /\ task[t] = "created"
                               ELSE task[t] \in {"pulling", "sending"},
         Sent(t, "done") => f.kind = "error" /\ surface # "a2a",
         Sent(t, "paused") => f.kind \in {"done", "error"},
         surface = "a2a" => f.kind \in {"content", "done", "error"}
  PROVE  Grammar!Next
<1>1. /\ DOMAIN wire = 1..Len(wire) /\ Len(wire) \in Nat
      /\ Len(wire') = Len(wire) + 1 /\ wire'[Len(wire')] = f
  BY AppendProperties, LenProperties DEF GrammarInv, StreamInv, StreamTypeOK
<1>2. \A kind : Grammar!Told(t, kind) <=> Sent(t, kind)
  BY DEF Grammar!Told, Sent
<1>3. \A i \in DOMAIN wire : wire[i].turn <= f.turn
  BY DEF GrammarInv, StreamInv, OneUnderWay, WireInv
<1>4. Grammar!Opens(f)
  <2>1. CASE f.kind = "session"
    <3>1. surface # "a2a" /\ NothingSent(t)
      BY <2>1 DEF GrammarInv, FrameInv
    <3>2. \A i \in DOMAIN wire : wire[i].turn # t
      <4> SUFFICES ASSUME NEW i \in DOMAIN wire
                   PROVE  wire[i].turn # t
        OBVIOUS
      <4>1. wire[i].kind \in Kinds
        BY WireTyped DEF GrammarInv, StreamInv, Frames, Kinds
      <4> QED
        BY <3>1, <4>1 DEF NothingSent, Sent
    <3> QED
      BY <2>1, <3>1, <3>2 DEF Grammar!Opens
  <2>2. CASE f.kind # "session"
    <3>1. surface = "a2a" \/ Sent(t, "session")
      BY <2>2 DEF GrammarInv, FrameInv, Under
    <3> QED
      BY <1>2, <2>2, <3>1 DEF Grammar!Opens
  <2> QED
    BY <2>1, <2>2
<1>5. Grammar!Closes(f)
  <2>1. ~Sent(t, "error")
    BY DEF GrammarInv, FrameInv, Alive
  <2> QED
    BY <1>2, <2>1 DEF Grammar!Closes
<1> QED
  BY <1>1, <1>3, <1>4, <1>5 DEF Grammar!Next, Grammar!Say

\* A turn that a step neither moves nor sends for.
LEMMA ApartFits ==
  ASSUME NEW u \in Turns, FrameInv(u), surface' = surface, Apart(u),
         \A kind \in Kinds : Sent(u, kind)' <=> Sent(u, kind)
  PROVE  FrameInv(u)'
<1>1. /\ Sent(u, "session")' <=> Sent(u, "session")
      /\ Sent(u, "error")' <=> Sent(u, "error")
      /\ Sent(u, "done")' <=> Sent(u, "done")
  BY DEF Kinds
<1>2. NothingSent(u) => NothingSent(u)'
  BY DEF NothingSent
<1> QED
  BY <1>1, <1>2 DEF FrameInv, Apart, Under

\* A step of turn t that sends nothing.
LEMMA SilentFits ==
  ASSUME GrammarInv, NEW t \in Turns, Only(t), UNCHANGED wire, FrameInv(t)'
  PROVE  \A u \in Turns : FrameInv(u)'
<1> SUFFICES ASSUME NEW u \in Turns, u # t
             PROVE  FrameInv(u)'
  OBVIOUS
<1>1. \A kind \in Kinds : Sent(u, kind)' <=> Sent(u, kind)
  BY DEF Sent
<1> QED
  BY <1>1, ApartFits DEF GrammarInv, Only

\* A step of turn t that sends f.
LEMMA SpokenFits ==
  ASSUME GrammarInv, NEW t \in Turns, Only(t), NEW f \in Frames, f.turn = t,
         wire' = Append(wire, f), FrameInv(t)'
  PROVE  \A u \in Turns : FrameInv(u)'
<1> SUFFICES ASSUME NEW u \in Turns, u # t
             PROVE  FrameInv(u)'
  OBVIOUS
<1>1. \A kind \in Kinds : Sent(u, kind)' <=> Sent(u, kind)
  BY AppendSent DEF GrammarInv, StreamInv
<1> QED
  BY <1>1, ApartFits DEF GrammarInv, Only

\* A step of turn t that tells nothing and takes its task nowhere else than to
\* an end or to a send that fits.
LEMMA QuietStepFits ==
  ASSUME GrammarInv, NEW t \in Turns, Only(t), UNCHANGED wire,
         \/ task[t] \in Alive /\ task'[t] \in {"ended", "raised"}
         \/ task'[t] = task[t] /\ (task[t] = "sending" => gen'[t] = gen[t] /\ out'[t] = out[t])
         \/ task[t] = "sending" /\ task'[t] = "pulling"
         \/ /\ task[t] = "pulling" /\ task'[t] = "sending" /\ ~Sent(t, "done")
            /\ gen'[t] = "paused" => out'[t].kind = "paused"
            /\ gen'[t] = "told" => out'[t].kind = "done"
  PROVE  \A u \in Turns : FrameInv(u)'
<1>1. \A kind : Sent(t, kind)' <=> Sent(t, kind)
  BY DEF Sent
<1>2. surface' = surface
  BY DEF Only
<1>3. FrameInv(t)
  BY DEF GrammarInv
<1>4. FrameInv(t)'
  <2>1. (task[t] \in {"none", "created"} => NothingSent(t))'
    BY <1>1, <1>3 DEF FrameInv, NothingSent
  <2>2. (Under(t) /\ surface # "a2a" => Sent(t, "session"))'
    BY <1>1, <1>2, <1>3 DEF FrameInv, Under
  <2>3. (Sent(t, "error") => task[t] = "ended")'
    BY <1>1, <1>3 DEF FrameInv, Alive
  <2>4. (Sent(t, "done") => /\ task[t] # "sending"
                            /\ surface = "a2a" => task[t] = "ended")'
    BY <1>1, <1>2, <1>3 DEF FrameInv, Alive
  <2>5. (task[t] = "sending" => /\ gen[t] = "paused" => out[t].kind = "paused"
                                /\ gen[t] = "told" => out[t].kind = "done")'
    BY <1>3 DEF FrameInv
  <2> QED
    BY <2>1, <2>2, <2>3, <2>4, <2>5 DEF FrameInv
<1> QED
  BY <1>4, SilentFits

\* A pulled generator runs on, and yields only what fits where it goes.
LEMMA PulledFits ==
  ASSUME GrammarInv, NEW t \in Turns, NEW from, Pulled(t, from), NEW where, NEW event,
         Goto(t, where, event), Generating, fate' = fate, pause' = pause,
         \A u \in Turns \ {t} : said'[u] = said[u],
         event # Nothing => /\ from \in {"graph", "answered", "paused"}
                            /\ where = "paused" => event.kind = "paused"
                            /\ where = "told" => event.kind = "done"
  PROVE  (\A u \in Turns : FrameInv(u)') /\ UNCHANGED <<surface, wire>>
<1>1. Only(t) /\ UNCHANGED <<surface, wire>>
  BY GotoFacts DEF GrammarInv, StreamInv, Only, Apart, Generating
<1>2. task[t] = "pulling" /\ gen[t] = from
  BY DEF Pulled
<1>3. CASE event = Nothing
  <2>1. task'[t] = task[t]
    BY <1>3, GotoFacts DEF GrammarInv, StreamInv
  <2> QED
    BY <1>1, <1>2, <2>1, QuietStepFits
<1>4. CASE event # Nothing
  <2>1. task'[t] = "sending" /\ gen'[t] = where /\ out'[t] = event
    BY <1>4, GotoFacts DEF GrammarInv, StreamInv
  <2>2. ~Sent(t, "done")
    BY <1>2, <1>4 DEF GrammarInv, StreamInv, TurnInv, Finished
  <2> QED
    BY <1>1, <1>2, <1>4, <2>1, <2>2, QuietStepFits
<1> QED
  BY <1>3, <1>4

LEMMA GeneratorFits ==
  ASSUME GrammarInv, NEW t \in Turns, GeneratorStep(t)
  PROVE  (\A u \in Turns : FrameInv(u)') /\ UNCHANGED <<surface, wire>>
<1>1. Generating /\ fate' = fate /\ pause' = pause
  BY DEF GeneratorStep, OpenState, Token, WholeReply, Aside, Item, Fallback, TellPause,
     TellDone, Exhaust, Generating, graphs
<1>2. \A u \in Turns \ {t} : said'[u] = said[u]
  <2>1. said' = said \/ \E new : said' = [said EXCEPT ![t] = new]
    BY DEF GeneratorStep, OpenState, Token, WholeReply, Aside, Fallback, TellPause,
       TellDone, Exhaust, graphs
  <2> QED
    BY <2>1 DEF GrammarInv, StreamInv, StreamTypeOK
<1>3. CASE OpenState(t) \/ Exhaust(t)
  <2>1. PICK from, where : Pulled(t, from) /\ Goto(t, where, Nothing)
    BY <1>3 DEF OpenState, Exhaust
  <2> QED
    BY <1>1, <1>2, <2>1, PulledFits
<1>4. CASE Token(t) \/ WholeReply(t) \/ Aside(t)
  <2>1. Pulled(t, "graph") /\ \E event : Goto(t, "graph", event)
    BY <1>4 DEF Token, WholeReply, Aside, Item
  <2> QED
    BY <1>1, <1>2, <2>1, PulledFits
<1>5. CASE Fallback(t)
  <2>1. Pulled(t, "graph") /\ \E event : Goto(t, "answered", event)
    BY <1>5 DEF Fallback
  <2> QED
    BY <1>1, <1>2, <2>1, PulledFits
<1>6. CASE TellPause(t)
  <2>1. /\ Pulled(t, "answered")
        /\ \/ \E what \in Whats : Goto(t, "paused", Frame(t, "paused", what))
           \/ Goto(t, "paused", Nothing)
    BY <1>6 DEF TellPause, Whats
  <2>2. \A what \in Whats : Frame(t, "paused", what).kind = "paused"
    BY FrameTypes DEF Kinds
  <2> QED
    BY <1>1, <1>2, <2>1, <2>2, PulledFits
<1>7. CASE TellDone(t)
  <2>1. Pulled(t, "paused") /\ Goto(t, "told", Frame(t, "done", "plain"))
    BY <1>7 DEF TellDone
  <2>2. Frame(t, "done", "plain").kind = "done"
    BY FrameTypes DEF Kinds, Whats
  <2> QED
    BY <1>1, <1>2, <2>1, <2>2, PulledFits
<1> QED
  BY <1>3, <1>4, <1>5, <1>6, <1>7 DEF GeneratorStep

\* What befalls a generator tells nothing, and leaves its task where it is.
LEMMA BefallsFits ==
  ASSUME GrammarInv, NEW t \in Turns, Raise(t) \/ Interrupt(t) \/ Close(t) \/ Finalize(t)
  PROVE  (\A u \in Turns : FrameInv(u)') /\ UNCHANGED <<surface, wire>>
<1>1. UNCHANGED <<surface, wire, task, said, out>>
  BY DEF Raise, Interrupt, Close, Finalize, Generating, graphs
<1>2. Only(t)
  <2>1. /\ gen' = gen \/ \E where : gen' = [gen EXCEPT ![t] = where]
        /\ fate' = fate \/ \E end : fate' = [fate EXCEPT ![t] = end]
        /\ pause' = pause \/ pause' = [pause EXCEPT ![t] = TRUE]
    BY DEF Raise, Interrupt, Close, Finalize, graphs
  <2> QED
    BY <1>1, <2>1 DEF GrammarInv, StreamInv, StreamTypeOK, Only, Apart
<1>3. task[t] = "sending" => gen'[t] = gen[t]
  BY DEF GrammarInv, StreamInv, TurnInv, Held, Raise, Interrupt, Close, Finalize, Pulled
<1> QED
  BY <1>1, <1>2, <1>3, QuietStepFits

\* A new turn is one of which nothing was heard.
LEMMA EndpointFits ==
  ASSUME GrammarInv, Ask \/ Message \/ Cancelled \/ Disconnect \/ HangUp
  PROVE  (\A u \in Turns : FrameInv(u)') /\ UNCHANGED <<surface, wire>>
<1>1. UNCHANGED <<surface, gen, fate, graphs, out, wire>>
  BY DEF Ask, Message, Cancelled, Disconnect, HangUp
<1>2. \A u \in Turns : task'[u] = task[u] \/ (task[u] = "none" /\ task'[u] = "created")
  <2>1. turn \in 0..MaxTurns /\ task \in [Turns -> TaskPlaces]
    BY DEF GrammarInv, StreamInv, StreamTypeOK, TaskPlaces
  <2>2. task' = task \/ (Created(turn + 1) /\ turn + 1 > turn)
    BY <2>1, TurnsAssumption DEF Ask, Message, Cancelled, Disconnect, HangUp
  <2>3. \A u \in Turns : u > turn => task[u] = "none"
    BY DEF GrammarInv, StreamInv, OneUnderWay
  <2> QED
    BY <2>1, <2>2, <2>3 DEF Created
<1> SUFFICES ASSUME NEW u \in Turns
             PROVE  FrameInv(u)'
  BY <1>1
<1>3. \A kind : Sent(u, kind)' <=> Sent(u, kind)
  BY <1>1 DEF Sent
<1>4. CASE task'[u] = task[u]
  BY <1>1, <1>3, <1>4, ApartFits DEF GrammarInv, Apart, graphs
<1>5. CASE task[u] = "none" /\ task'[u] = "created"
  BY <1>3, <1>5 DEF GrammarInv, FrameInv, NothingSent, Under, Kinds
<1> QED
  BY <1>2, <1>4, <1>5

-----------------------------------------------------------------------------
(* StreamTurn implements TurnFrames: the steps that tell, and the theorem *)

\* A step of turn t that sends f, and ends the turn or goes on pulling.
LEMMA SpeakingFits ==
  ASSUME GrammarInv, NEW t \in Turns, Only(t), NEW f \in Frames, f.turn = t,
         wire' = Append(wire, f), task[t] \in Alive,
         IF f.kind = "session" THEN surface # "a2a" /\ task[t] = "created"
                               ELSE task[t] \in {"pulling", "sending"},
         Sent(t, "done") => f.kind = "error" /\ surface # "a2a",
         Sent(t, "paused") => f.kind \in {"done", "error"},
         surface = "a2a" => f.kind \in {"content", "done", "error"},
         \/ task'[t] = "ended"
         \/ /\ task'[t] = "pulling" /\ f.kind # "error"
            /\ surface = "a2a" => f.kind # "done"
  PROVE  (\A u \in Turns : FrameInv(u)') /\ Grammar!Next
<1>1. surface' = surface
  BY DEF Only
<1>2. Grammar!Next
  BY <1>1, FittingFrame
<1>3. \A kind : Sent(t, kind)' <=> Sent(t, kind) \/ f.kind = kind
  BY AppendSent DEF GrammarInv, StreamInv
<1>4. FrameInv(t)
  BY DEF GrammarInv
<1>5. FrameInv(t)'
  <2>1. CASE task'[t] = "ended"
    BY <2>1 DEF FrameInv, Under
  <2>2. CASE /\ task'[t] = "pulling" /\ f.kind # "error"
             /\ surface = "a2a" => f.kind # "done"
    <3>1. ~Sent(t, "error")' /\ (surface = "a2a" => ~Sent(t, "done")')
      BY <1>3, <1>4, <2>2 DEF FrameInv, Alive
    <3>2. surface # "a2a" => Sent(t, "session")'
      BY <1>3, <1>4 DEF FrameInv, Under
    <3> QED
      BY <1>1, <2>2, <3>1, <3>2 DEF FrameInv, Under
  <2> QED
    BY <2>1, <2>2
<1> QED
  BY <1>2, <1>5, SpokenFits

\* The session frame is a turn's first word.
LEMMA StartFits ==
  ASSUME GrammarInv, NEW t \in Turns, Start(t)
  PROVE  /\ \A u \in Turns : FrameInv(u)'
         /\ Grammar!Next \/ UNCHANGED <<surface, wire>>
<1>1. Only(t) /\ surface' = surface
  BY TaskStepsApart DEF GrammarInv, TaskStep, Only
<1>2. task[t] = "created" /\ ~Sent(t, "done") /\ ~Sent(t, "paused")
  BY DEF GrammarInv, FrameInv, NothingSent, Kinds, Start
<1>3. CASE task' = [task EXCEPT ![t] = "raised"] /\ wire' = wire
  <2>1. task'[t] = "raised"
    BY <1>3 DEF GrammarInv, StreamInv, StreamTypeOK
  <2> QED
    BY <1>1, <1>2, <1>3, <2>1, QuietStepFits DEF Alive
<1>4. CASE task' = [task EXCEPT ![t] = "pulling"]
  <2>1. task'[t] = "pulling"
    BY <1>4 DEF GrammarInv, StreamInv, StreamTypeOK
  <2>2. CASE surface = "a2a"
    <3>1. wire' = wire
      BY <1>4, <2>1, <2>2, <1>2 DEF Start, End, GrammarInv, StreamInv, StreamTypeOK
    <3>2. FrameInv(t)'
      BY <1>1, <1>2, <2>1, <2>2, <3>1 DEF GrammarInv, FrameInv, Under, Sent
    <3> QED
      BY <1>1, <3>1, <3>2, SilentFits
  <2>3. CASE surface # "a2a"
    <3> DEFINE f == Frame(t, "session", "plain")
    <3>1. f \in Frames /\ f.kind = "session" /\ f.turn = t
      BY FrameTypes DEF Kinds, Whats
    <3>2. wire' = Append(wire, f)
      BY <1>2, <2>1, <2>3 DEF Start, End, GrammarInv, StreamInv, StreamTypeOK
    <3> HIDE DEF f
    <3> QED
      BY <1>1, <1>2, <2>1, <2>3, <3>1, <3>2, SpeakingFits DEF Alive
  <2> QED
    BY <2>2, <2>3
<1> QED
  BY <1>3, <1>4 DEF Start, End

\* A cancelled task leaves without a word.
LEMMA UnwindFits ==
  ASSUME GrammarInv, NEW t \in Turns, Unwind(t)
  PROVE  (\A u \in Turns : FrameInv(u)') /\ UNCHANGED <<surface, wire>>
<1>1. Only(t) /\ UNCHANGED <<surface, out, wire>>
  BY TaskStepsApart DEF GrammarInv, TaskStep, Only, Unwind
<1>2. \/ task[t] \in {"created", "sending"} /\ task'[t] = "ended"
      \/ task[t] = "pulling" /\ task'[t] = "pulling"
  BY DEF GrammarInv, StreamInv, StreamTypeOK, Unwind, End
<1> QED
  BY <1>1, <1>2, QuietStepFits DEF Alive

\* The consumer's own word is a turn's last one.
LEMMA ReturnFits ==
  ASSUME GrammarInv, NEW t \in Turns, Return(t)
  PROVE  /\ \A u \in Turns : FrameInv(u)'
         /\ Grammar!Next \/ UNCHANGED <<surface, wire>>
<1>1. Only(t) /\ surface' = surface
  BY TaskStepsApart DEF GrammarInv, TaskStep, Only
<1>2. task[t] = "pulling"
  BY DEF Return
<1>3. CASE wire' = wire
  <2>1. task'[t] \in {"ended", "raised"}
    BY DEF GrammarInv, StreamInv, StreamTypeOK, Return, End
  <2> QED
    BY <1>1, <1>2, <1>3, <2>1, QuietStepFits DEF Alive
<1>4. CASE wire' # wire
  <2>1. PICK kind \in {"error", "done"} :
          /\ wire' = Append(wire, Frame(t, kind, "plain")) /\ End(t, "ended")
          /\ kind = "done" => surface = "a2a"
    BY <1>4 DEF Return
  <2> DEFINE f == Frame(t, kind, "plain")
  <2>2. f \in Frames /\ f.kind = kind /\ f.turn = t
    BY FrameTypes DEF Kinds, Whats
  <2>3. task'[t] = "ended"
    BY <2>1 DEF GrammarInv, StreamInv, StreamTypeOK, End
  <2>4. Sent(t, "done") => kind = "error" /\ surface # "a2a"
    BY <1>2, <2>1 DEF GrammarInv, FrameInv
  <2> HIDE DEF f
  <2> QED
    BY <1>1, <1>2, <2>1, <2>2, <2>3, <2>4, SpeakingFits DEF Alive, f
<1> QED
  BY <1>3, <1>4

\* What a generator yielded is sent, skipped, failed on or lost.
LEMMA SendFits ==
  ASSUME GrammarInv, NEW t \in Turns, Send(t)
  PROVE  /\ \A u \in Turns : FrameInv(u)'
         /\ Grammar!Next \/ UNCHANGED <<surface, wire>>
<1>1. Only(t) /\ surface' = surface
  BY TaskStepsApart DEF GrammarInv, TaskStep, Only
<1>2. /\ task[t] = "sending" /\ out[t] \in Frames /\ out[t].turn = t
      /\ out[t].kind \in {"content", "aside", "paused", "done"}
  BY DEF GrammarInv, StreamInv, StreamTypeOK, TurnInv, HeldOut, Send
<1>3. ~Sent(t, "done")
  BY <1>2 DEF GrammarInv, FrameInv
<1>4. Sent(t, "paused") => out[t].kind = "done" /\ surface # "a2a"
  BY <1>2 DEF GrammarInv, FrameInv, StreamInv, TurnInv, Held, HeldOut, Paused
<1>5. CASE /\ surface = "a2a" /\ task' = [task EXCEPT ![t] = "ended"]
           /\ wire' = Append(wire, Frame(t, "error", "plain"))
  <2> DEFINE f == Frame(t, "error", "plain")
  <2>1. f \in Frames /\ f.kind = "error" /\ f.turn = t
    BY FrameTypes DEF Kinds, Whats
  <2>2. task'[t] = "ended"
    BY <1>5 DEF GrammarInv, StreamInv, StreamTypeOK
  <2> HIDE DEF f
  <2> QED
    BY <1>1, <1>2, <1>3, <1>5, <2>1, <2>2, SpeakingFits DEF Alive, f
<1>6. CASE task' = [task EXCEPT ![t] = "raised"] /\ wire' = wire
  <2>1. task'[t] = "raised"
    BY <1>6 DEF GrammarInv, StreamInv, StreamTypeOK
  <2> QED
    BY <1>1, <1>2, <1>6, <2>1, QuietStepFits DEF Alive
<1>7. CASE task' = [task EXCEPT ![t] = "pulling"] /\ wire' = wire
  <2>1. task'[t] = "pulling"
    BY <1>7 DEF GrammarInv, StreamInv, StreamTypeOK
  <2> QED
    BY <1>1, <1>2, <1>7, <2>1, QuietStepFits
<1>8. CASE /\ task' = [task EXCEPT ![t] = "pulling"]
           /\ ~(surface = "a2a" /\ out[t].kind # "content")
           /\ wire' = Append(wire, OnTheWire(out[t]))
  <2> DEFINE f == OnTheWire(out[t])
  <2>1. f \in Frames /\ f.kind = out[t].kind /\ f.turn = t
    BY <1>2, OnTheWireType DEF GrammarInv, StreamInv
  <2>2. task'[t] = "pulling"
    BY <1>8 DEF GrammarInv, StreamInv, StreamTypeOK
  <2> HIDE DEF f
  <2> QED
    BY <1>1, <1>2, <1>3, <1>4, <1>8, <2>1, <2>2, SpeakingFits DEF Alive, f
<1> QED
  BY <1>5, <1>6, <1>7, <1>8 DEF Send, End

LEMMA GrammarStep ==
  GrammarInv /\ [StreamNext]_streamVars =>
    GrammarInv' /\ [Grammar!Next]_<<surface, wire>>
<1> SUFFICES ASSUME GrammarInv, [StreamNext]_streamVars
             PROVE  /\ \A u \in Turns : FrameInv(u)'
                    /\ Grammar!Next \/ UNCHANGED <<surface, wire>>
  BY StreamStepInv DEF GrammarInv
<1>1. CASE Ask \/ Message \/ Cancelled \/ Disconnect \/ HangUp
  BY <1>1, EndpointFits
<1>2. ASSUME NEW t \in Turns, TurnStep(t)
      PROVE  /\ \A u \in Turns : FrameInv(u)'
             /\ Grammar!Next \/ UNCHANGED <<surface, wire>>
  BY <1>2, StartFits, SendFits, ReturnFits, UnwindFits, GeneratorFits
     DEF TurnStep, TaskStep
<1>3. ASSUME NEW t \in Turns, Raise(t) \/ Interrupt(t) \/ Close(t) \/ Finalize(t)
      PROVE  (\A u \in Turns : FrameInv(u)') /\ UNCHANGED <<surface, wire>>
  BY <1>3, BefallsFits
<1>4. CASE UNCHANGED streamVars
  <2>1. \A u \in Turns : Apart(u) /\ \A kind \in Kinds : Sent(u, kind)' <=> Sent(u, kind)
    BY <1>4 DEF streamVars, graphs, Apart, Sent
  <2> QED
    BY <1>4, <2>1, ApartFits DEF streamVars, GrammarInv
<1> QED
  BY <1>1, <1>2, <1>3, <1>4 DEF StreamNext

LEMMA GrammarStarts ==
  StreamInit => GrammarInv /\ Grammar!Init
<1> SUFFICES ASSUME StreamInit
             PROVE  GrammarInv /\ Grammar!Init
  OBVIOUS
<1>1. StreamInv
  BY StreamInitInv
<1>2. DOMAIN wire = {}
  BY <1>1, EmptySeq, LenProperties DEF StreamInit, StreamInv, StreamTypeOK
<1>3. \A t \in Turns : FrameInv(t)
  BY <1>2 DEF StreamInit, FrameInv, NothingSent, Under, Sent
<1> QED
  BY <1>1, <1>3 DEF GrammarInv, StreamInit, Grammar!Init

\* On every surface, and through every cancellation, disconnection, failure
\* and barge-in, the frames the client is sent are a sentence of the frame
\* grammar (LangGraphEngine.stream, routers/agents.py, live.py, a2a/server.py).
THEOREM ImplementsTurnFrames == StreamSpec => KeepsFrameOrder
<1>1. StreamSpec => Grammar!Init /\ [][Grammar!Next]_<<surface, wire>>
  BY GrammarStarts, GrammarStep, PTL DEF StreamSpec
<1> QED
  BY <1>1 DEF KeepsFrameOrder, Grammar!Spec
=============================================================================
