----------------------------- MODULE TurnFrames -----------------------------
(***************************************************************************)
(* The frames a client may rely on, with no task, generator, cancellation  *)
(* or store in sight: what the frame grammar of the three surfaces allows  *)
(* to come next, given what the client was sent before.                    *)
(*                                                                         *)
(*   /v1    session, then content and asides, then perhaps a pause, then   *)
(*          done; an error may come instead of any of these but the first, *)
(*          and even after done                                            *)
(*   a2a    content, then done or an error                                 *)
(*                                                                         *)
(* StreamTurn implements it.                                               *)
(***************************************************************************)
EXTENDS Naturals, Sequences

CONSTANT Surfaces

VARIABLES surface,  \* what the client is connected to
          wire      \* the frames it was sent

Told(turn, kind) == \E i \in DOMAIN wire : wire[i].turn = turn /\ wire[i].kind = kind

Init == surface \in Surfaces /\ wire = <<>>

\* A turn opens with its session frame, and has none on A2A.
Opens(frame) ==
  IF frame.kind = "session"
  THEN surface # "a2a" /\ \A i \in DOMAIN wire : wire[i].turn # frame.turn
  ELSE surface = "a2a" \/ Told(frame.turn, "session")

\* Nothing follows an error; only an error follows `done`, and on A2A not even
\* that; a pause is followed by the turn's end.
Closes(frame) ==
  /\ ~Told(frame.turn, "error")
  /\ Told(frame.turn, "done") => frame.kind = "error" /\ surface # "a2a"
  /\ Told(frame.turn, "paused") => frame.kind \in {"done", "error"}

\* The client is sent one more frame: of the newest turn it knows, or of a
\* newer one.
Say(frame) ==
  /\ \A i \in DOMAIN wire : wire[i].turn <= frame.turn
  /\ Opens(frame) /\ Closes(frame)
  /\ surface = "a2a" => frame.kind \in {"content", "done", "error"}
  /\ wire' = Append(wire, frame)
  /\ UNCHANGED surface

Next == Len(wire') > Len(wire) /\ Say(wire'[Len(wire')])

Spec == Init /\ [][Next]_<<surface, wire>>
=============================================================================
