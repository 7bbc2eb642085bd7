----------------------------- MODULE StreamTurn -----------------------------
(***************************************************************************)
(* Streamed turns on one client connection: LangGraphEngine.stream inside  *)
(* RunnableAgent.stream, consumed by one of the three surfaces of the      *)
(* service.                                                                *)
(*                                                                         *)
(*   sse   POST /v1/agents/{name}:stream, one turn per connection          *)
(*   a2a   JSON-RPC message/stream, one turn per connection                *)
(*   live  the WebSocket, where a new message cancels the running turn     *)
(*                                                                         *)
(* The generator runs inside the task that consumes it and stops at every  *)
(* event it yields. A task that is cancelled while it sends a frame leaves *)
(* the generator suspended: the event loop's finalizer closes it later, in *)
(* a task of its own.                                                      *)
(***************************************************************************)
EXTENDS Naturals, Sequences

CONSTANTS
  MaxTurns,  \* bound: the turns asked for over one live socket
  MaxItems   \* bound: the items the graphs stream over one connection

ASSUME TurnsAssumption == MaxTurns \in Nat \ {0}
ASSUME ItemsAssumption == MaxItems \in Nat

VARIABLES
  surface,  \* what the client is connected to
  conn,     \* whether the client is still there
  handler,  \* the live endpoint's receive loop
  turn,     \* the turns asked for so far (the latest turn's number)
  task,     \* the task that consumes each turn's stream
  cancel,   \* the task of the turn has been asked to stop
  gen,      \* where the generator of each turn is
  fate,     \* how the generator ends: with an error, or not
  items,    \* how many items the turns' graphs have streamed
  said,     \* streamed_content and last_full_content of each turn
  pause,    \* the turn's graph stopped at an interrupt
  out,      \* the event each generator has yielded and nobody has sent yet
  wire      \* the frames the client was sent

graphs == <<items, said, pause>>
streamVars == <<surface, conn, handler, turn, task, cancel, gen, fate, graphs, out, wire>>

-----------------------------------------------------------------------------
(* Data *)

Turns == 1..MaxTurns
Surfaces == {"sse", "a2a", "live"}

\* A frame's kind, and what of its payload matters here: whether content is
\* the answer or the model's thinking, whether a pause carries a token. An
\* aside is a `reasoning`, `tool_call` or `tool_result` frame.
Frames == [turn: Turns,
           kind: {"session", "content", "aside", "paused", "done", "error"},
           what: {"plain", "answer", "thinking", "token", "bare"}]
Nothing == [turn |-> 1, kind |-> "session", what |-> "plain"]
Frame(t, kind, what) == [turn |-> t, kind |-> kind, what |-> what]

\* A task is alive until it has ended; "raised": with an exception of its own.
Alive == {"created", "pulling", "sending"}

Sent(t, kind) == \E i \in DOMAIN wire : wire[i].turn = t /\ wire[i].kind = kind

-----------------------------------------------------------------------------
(* The client and the endpoints *)

Created(t) ==
  /\ turn' = t
  /\ task' = [task EXCEPT ![t] = "created"]

\* POST :stream or message/stream: the connection's one turn.
Ask ==
  /\ surface # "live" /\ turn = 0 /\ conn = "up"
  /\ Created(1)
  /\ UNCHANGED <<surface, conn, handler, cancel, gen, fate, graphs, out, wire>>

\* receive_json returns a message. A turn that is still running is cancelled
\* and awaited (_cancel); else the new turn starts at once.
Message ==
  /\ surface = "live" /\ handler = "receiving" /\ conn = "up" /\ turn < MaxTurns
  /\ IF turn > 0 /\ task[turn] \in Alive
     THEN /\ handler' = "cancelling"
          /\ cancel' = [cancel EXCEPT ![turn] = TRUE]
          /\ UNCHANGED <<turn, task>>
     ELSE Created(turn + 1) /\ UNCHANGED <<handler, cancel>>
  /\ UNCHANGED <<surface, conn, gen, fate, graphs, out, wire>>

\* The cancelled turn has unwound: the new one starts. A turn that ended with
\* an exception of its own takes the endpoint down with it.
Cancelled ==
  /\ handler = "cancelling" /\ task[turn] \notin Alive
  /\ IF task[turn] = "raised"
     THEN handler' = "gone" /\ conn' = "gone" /\ UNCHANGED <<turn, task>>
     ELSE handler' = "receiving" /\ Created(turn + 1) /\ UNCHANGED conn
  /\ UNCHANGED <<surface, cancel, gen, fate, graphs, out, wire>>

\* The client goes away. sse-starlette cancels the response's task at once.
Disconnect ==
  /\ conn = "up" /\ turn > 0
  /\ conn' = "gone"
  /\ cancel' = [t \in Turns |-> cancel[t] \/ (surface # "live" /\ task[t] \in Alive)]
  /\ UNCHANGED <<surface, handler, turn, task, gen, fate, graphs, out, wire>>

\* WebSocketDisconnect: the loop ends, the running turn is cancelled.
HangUp ==
  /\ surface = "live" /\ handler = "receiving" /\ conn = "gone"
  /\ handler' = "gone"
  /\ cancel' = [t \in Turns |-> cancel[t] \/ (t = turn /\ task[t] \in Alive)]
  /\ UNCHANGED <<surface, conn, turn, task, gen, fate, graphs, out, wire>>

-----------------------------------------------------------------------------
(* The consuming task: frames, _run_turn, stream_rpc *)

End(t, how) == task' = [task EXCEPT ![t] = how]

\* The session frame goes out first; A2A has none. A send to a socket that is
\* gone raises.
Start(t) ==
  /\ task[t] = "created" /\ ~cancel[t]
  /\ IF conn = "gone"
     THEN End(t, "raised") /\ UNCHANGED <<gen, wire>>
     ELSE /\ End(t, "pulling")
          /\ gen' = [gen EXCEPT ![t] = "starting"]
          /\ wire' = IF surface = "a2a" THEN wire
                     ELSE Append(wire, Frame(t, "session", "plain"))
  /\ UNCHANGED <<surface, conn, handler, turn, cancel, fate, graphs, out>>

\* Mutated form: the terminal frame forgets the pause.
OnTheWireForgetful(frame) == frame

\* The :stream endpoint repeats a pause, token included, on the `done` frame.
OnTheWire(frame) ==
  IF surface = "sse" /\ frame.kind = "done" /\ Sent(frame.turn, "paused")
  THEN LET told == CHOOSE i \in DOMAIN wire :
                     wire[i].turn = frame.turn /\ wire[i].kind = "paused"
       IN  [frame EXCEPT !.what = wire[told].what]
  ELSE frame

\* The yielded event is framed and sent, and the next one pulled. A2A sends
\* the answer's text only; text that is no string fails its frame, and a
\* socket that is gone raises twice: in the loop and in its error handler.
Send(t) ==
  /\ task[t] = "sending" /\ ~cancel[t]
  /\ out' = [out EXCEPT ![t] = Nothing]
  /\ \/ /\ surface = "a2a" /\ out[t].kind = "content" /\ out[t].what = "thinking"
        /\ wire' = Append(wire, Frame(t, "error", "plain"))
        /\ End(t, "ended")
        /\ gen' = [gen EXCEPT ![t] = "dropped"]
     \/ /\ surface = "live" /\ conn = "gone"
        /\ End(t, "raised")
        /\ gen' = [gen EXCEPT ![t] = "dropped"]
        /\ UNCHANGED wire
     \/ /\ ~(surface = "a2a" /\ out[t].what = "thinking") /\ conn = "up"
        /\ wire' = IF surface = "a2a" /\ out[t].kind # "content" THEN wire
                   ELSE Append(wire, OnTheWire(out[t]))
        /\ End(t, "pulling")
        /\ UNCHANGED gen
  /\ UNCHANGED <<surface, conn, handler, turn, cancel, fate, graphs>>

\* Mutated form: every surface adds a terminal frame of its own.
ReturnAndAdd(t) ==
  /\ task[t] = "pulling" /\ gen[t] = "closed"
  /\ End(t, "ended")
  /\ wire' = IF fate[t] = "cancelled" \/ conn = "gone" THEN wire
             ELSE Append(wire, Frame(t, IF fate[t] = "error" THEN "error" ELSE "done", "plain"))
  /\ UNCHANGED <<surface, conn, handler, turn, cancel, gen, fate, graphs, out>>

\* The generator is exhausted or has raised: A2A tells the end itself, an
\* exception becomes the terminal error frame.
Return(t) ==
  /\ task[t] = "pulling" /\ gen[t] = "closed"
  /\ LET last == IF fate[t] = "error" THEN "error" ELSE "done"
         tells == fate[t] = "error" \/ (fate[t] = "ok" /\ surface = "a2a")
     IN  IF tells /\ conn = "gone"
         THEN End(t, IF surface = "live" THEN "raised" ELSE "ended") /\ UNCHANGED wire
         ELSE /\ End(t, "ended")
              /\ wire' = IF tells THEN Append(wire, Frame(t, last, "plain")) ELSE wire
  /\ UNCHANGED <<surface, conn, handler, turn, cancel, gen, fate, graphs, out>>

\* Mutated form: a generator left in mid-send is never finalized.
UnwindLeaking(t) ==
  /\ cancel[t]
  /\ \/ task[t] = "created" /\ End(t, "ended") /\ UNCHANGED <<gen, fate>>
     \/ task[t] = "sending" /\ End(t, "ended") /\ UNCHANGED <<gen, fate>>
     \/ /\ task[t] = "pulling" /\ gen[t] \notin {"closing", "closed"}
        /\ gen' = [gen EXCEPT ![t] = IF gen[t] = "starting" THEN "closed" ELSE "closing"]
        /\ fate' = [fate EXCEPT ![t] = "cancelled"]
        /\ UNCHANGED task
  /\ UNCHANGED <<surface, conn, handler, turn, cancel, graphs, out, wire>>

\* CancelledError arrives where the task waits: before it ran, in a send (the
\* generator is dropped), or inside the generator, which unwinds.
Unwind(t) ==
  /\ cancel[t]
  /\ \/ task[t] = "created" /\ End(t, "ended") /\ UNCHANGED <<gen, fate>>
     \/ /\ task[t] = "sending" /\ End(t, "ended")
        /\ gen' = [gen EXCEPT ![t] = "dropped"]
        /\ UNCHANGED fate
     \/ /\ task[t] = "pulling" /\ gen[t] \notin {"closing", "closed"}
        /\ gen' = [gen EXCEPT ![t] = IF gen[t] = "starting" THEN "closed" ELSE "closing"]
        /\ fate' = [fate EXCEPT ![t] = "cancelled"]
        /\ UNCHANGED task
  /\ UNCHANGED <<surface, conn, handler, turn, cancel, graphs, out, wire>>

-----------------------------------------------------------------------------
(* The generator: RunnableAgent.stream around LangGraphEngine.stream *)

Pulled(t, where) == task[t] = "pulling" /\ ~cancel[t] /\ gen[t] = where

\* The generator runs on to `where`, and yields an event or not.
Goto(t, where, event) ==
  /\ gen' = [gen EXCEPT ![t] = where]
  /\ IF event = Nothing
     THEN UNCHANGED <<task, out>>
     ELSE /\ out' = [out EXCEPT ![t] = event]
          /\ task' = [task EXCEPT ![t] = "sending"]

Generating == UNCHANGED <<surface, conn, handler, turn, cancel, wire>>

\* The on_request hooks ran, the turn's state is open, the graph is started.
OpenState(t) ==
  /\ Pulled(t, "starting")
  /\ Goto(t, "graph", Nothing)
  /\ Generating /\ UNCHANGED <<fate, graphs>>

\* A hook, the store, a node or the provider raises; what is open is closed.
Raise(t) ==
  /\ Pulled(t, "starting") \/ Pulled(t, "graph")
  /\ gen' = [gen EXCEPT ![t] = IF gen[t] = "starting" THEN "closed" ELSE "closing"]
  /\ fate' = [fate EXCEPT ![t] = "error"]
  /\ Generating /\ UNCHANGED <<task, out, graphs>>

Item(t) ==
  /\ Pulled(t, "graph") /\ items < MaxItems /\ ~pause[t]
  /\ items' = items + 1
  /\ Generating /\ UNCHANGED <<fate, pause>>

\* A chunk of the answer.
Token(t) ==
  /\ Item(t)
  /\ Goto(t, "graph", Frame(t, "content", "answer"))
  /\ said' = [said EXCEPT ![t].streamed = TRUE]

\* A reply in one piece: its text is kept for the end. One without text is
\* kept as it came, its thinking included, after that was told as reasoning.
WholeReply(t) ==
  /\ Item(t)
  /\ \/ /\ Goto(t, "graph", Nothing)
        /\ said' = [said EXCEPT ![t].whole = "answer"]
     \/ /\ Goto(t, "graph", Frame(t, "aside", "plain"))
        /\ said' = [said EXCEPT ![t].whole = "thinking"]

\* A chunk of reasoning, or a tool call or result of a node's update. What
\* internal nodes say and other bookkeeping is skipped.
Aside(t) ==
  /\ Item(t)
  /\ Goto(t, "graph", Frame(t, "aside", "plain"))
  /\ UNCHANGED said

\* The last update of a run that waits for a human.
Interrupt(t) ==
  /\ Pulled(t, "graph") /\ ~pause[t]
  /\ pause' = [pause EXCEPT ![t] = TRUE]
  /\ Generating /\ UNCHANGED <<task, gen, fate, items, said, out>>

\* Mutated form: only what was streamed counts as an answer.
FallbackNever(t) ==
  /\ Pulled(t, "graph")
  /\ Goto(t, "answered", Nothing)
  /\ Generating /\ UNCHANGED <<fate, graphs>>

\* The graph's stream ends. If no chunk of the answer came, the whole reply
\* is the answer.
Fallback(t) ==
  /\ Pulled(t, "graph")
  /\ Goto(t, "answered", IF ~said[t].streamed /\ said[t].whole # "none"
                         THEN Frame(t, "content", said[t].whole) ELSE Nothing)
  /\ Generating /\ UNCHANGED <<fate, graphs>>

\* _pause_event: with a token if the agent is durable and the snapshot could
\* be read, else without one.
TellPause(t) ==
  /\ Pulled(t, "answered")
  /\ IF pause[t]
     THEN \E what \in {"bare", "token"} : Goto(t, "paused", Frame(t, "paused", what))
     ELSE Goto(t, "paused", Nothing)
  /\ Generating /\ UNCHANGED <<fate, graphs>>

TellDone(t) ==
  /\ Pulled(t, "paused")
  /\ Goto(t, "told", Frame(t, "done", "plain"))
  /\ Generating /\ UNCHANGED <<fate, graphs>>

\* The generator leaves `async with open_turn_state`.
Exhaust(t) ==
  /\ Pulled(t, "told")
  /\ Goto(t, "closing", Nothing)
  /\ Generating /\ UNCHANGED <<fate, graphs>>

\* The store's connections close, and the `finally` of RunnableAgent.stream
\* runs. A store that fails to close, or a cancellation, replaces the end the
\* turn had.
Close(t) ==
  /\ gen[t] = "closing"
  /\ gen' = [gen EXCEPT ![t] = "closed"]
  /\ \E end \in {fate[t], "error"} \cup (IF cancel[t] THEN {"cancelled"} ELSE {}) :
       fate' = [fate EXCEPT ![t] = end]
  /\ Generating /\ UNCHANGED <<task, out, graphs>>

\* The finalizer hook closes a dropped generator.
Finalize(t) ==
  /\ gen[t] = "dropped"
  /\ gen' = [gen EXCEPT ![t] = "closing"]
  /\ Generating /\ UNCHANGED <<task, fate, out, graphs>>

-----------------------------------------------------------------------------
(* The specification *)

StreamInit ==
  /\ surface \in Surfaces
  /\ conn = "up" /\ handler = "receiving" /\ turn = 0
  /\ task = [t \in Turns |-> "none"]
  /\ cancel = [t \in Turns |-> FALSE]
  /\ gen = [t \in Turns |-> "none"]
  /\ fate = [t \in Turns |-> "ok"]
  /\ items = 0
  /\ said = [t \in Turns |-> [streamed |-> FALSE, whole |-> "none"]]
  /\ pause = [t \in Turns |-> FALSE]
  /\ out = [t \in Turns |-> Nothing]
  /\ wire = <<>>

TaskStep(t) == Start(t) \/ Send(t) \/ Return(t) \/ Unwind(t)

GeneratorStep(t) ==
  \/ OpenState(t) \/ Token(t) \/ WholeReply(t) \/ Aside(t) \/ Fallback(t)
  \/ TellPause(t) \/ TellDone(t) \/ Exhaust(t)

TurnStep(t) == TaskStep(t) \/ GeneratorStep(t)

StreamNext ==
  \/ Ask \/ Message \/ Cancelled \/ Disconnect \/ HangUp
  \/ \E t \in Turns : TurnStep(t) \/ Close(t) \/ Finalize(t) \/ Raise(t) \/ Interrupt(t)

StreamSpec == StreamInit /\ [][StreamNext]_streamVars

-----------------------------------------------------------------------------
(* Properties *)

\* Types of the connection and its turns.
StreamTypeOK ==
  /\ surface \in Surfaces
  /\ conn \in {"up", "gone"} /\ handler \in {"receiving", "cancelling", "gone"}
  /\ turn \in 0..MaxTurns
  /\ task \in [Turns -> {"none", "ended", "raised"} \cup Alive]
  /\ cancel \in [Turns -> BOOLEAN]
  /\ gen \in [Turns -> {"none", "starting", "graph", "answered", "paused", "told",
                        "closing", "dropped", "closed"}]
  /\ fate \in [Turns -> {"ok", "error", "cancelled"}]
  /\ items \in 0..MaxItems
  /\ said \in [Turns -> [streamed : BOOLEAN, whole : {"none", "answer", "thinking"}]]
  /\ pause \in [Turns -> BOOLEAN]
  /\ out \in [Turns -> Frames]
  /\ wire \in Seq(Frames)

\* A turn that is told done after its model said something has shown it: a
\* stream never silently yields nothing, whichever way the reply came
\* (LangGraphEngine.stream).
NeverSilent ==
  \A i \in DOMAIN wire :
    LET t == wire[i].turn
    IN  wire[i].kind = "done" /\ (said[t].streamed \/ said[t].whole # "none")
          => Sent(t, "content")

\* A run that waits for a human is never told as a finished one on /v1: the
\* pause comes before the end, and the :stream endpoint's last frame repeats
\* it, token included (routers/agents.py).
PauseIsTold ==
  \A i \in DOMAIN wire :
    wire[i].kind = "done" /\ surface # "a2a" =>
      LET t == wire[i].turn
          told == {j \in 1..(i - 1) : wire[j].turn = t /\ wire[j].kind = "paused"}
      IN  /\ pause[t] <=> told # {}
          /\ \A j \in told : surface = "sse" => wire[i].what = wire[j].what

\* Barge-in: once a newer turn has spoken on the socket, no older one does
\* (routers/live.py).
NoLateFrames ==
  \A i, j \in DOMAIN wire : i < j => wire[i].turn <= wire[j].turn

\* What a turn opened does not outlive its consumer unnoticed: however that
\* one left the stream (done, failed, cancelled, disconnected or dropped in
\* mid-send), the generator has closed its store, is closing it, or is in the
\* hands of the event loop's finalizer.
StateIsReleased ==
  \A t \in Turns :
    task[t] \in {"ended", "raised"} => gen[t] \in {"none", "dropped", "closing", "closed"}

\* The client is sent what the frame grammar allows, in its order: one session
\* frame first, one pause at most, one terminal frame (an error after `done`
\* aside: the store failed to close), nothing of a turn after its error, of an
\* older turn after a newer one, and none of the generator's bookkeeping on A2A.
Grammar == INSTANCE TurnFrames
KeepsFrameOrder == Grammar!Spec
=============================================================================
