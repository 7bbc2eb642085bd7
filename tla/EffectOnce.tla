----------------------------- MODULE EffectOnce -----------------------------
(***************************************************************************)
(* What a durable agent promises the caller about a side-effecting tool    *)
(* call, with no lock, ledger, worker or crash in sight: the outside world *)
(* feels the call at most once, the model is told its outcome at most      *)
(* once, a receipt is only ever given for an effect that happened, and     *)
(* nothing fires any more once the model has been told.                    *)
(*                                                                         *)
(* docs/capabilities/durable-resume.md states the promise ("At-most-once   *)
(* side effects, across processes"); DurableTurn implements it.            *)
(***************************************************************************)
EXTENDS Naturals

CONSTANT Calls          \* the tool calls of one conversation

VARIABLES landed,       \* landed[k]: how often the outside world felt call k
          told          \* told[k]: what the model has been told of call k

Outcomes == {"receipt", "unknown", "error"}

Init ==
  /\ landed = [k \in Calls |-> 0]
  /\ told   = [k \in Calls |-> "none"]

\* The effect of k reaches the outside world, for the first and only time.
Land(k) ==
  /\ told[k] = "none"
  /\ landed[k] = 0
  /\ landed' = [landed EXCEPT ![k] = 1]
  /\ UNCHANGED told

\* The model is told how k ended. "unknown" and "error" admit both worlds.
Tell(k, outcome) ==
  /\ told[k] = "none"
  /\ outcome = "receipt" => landed[k] = 1
  /\ told' = [told EXCEPT ![k] = outcome]
  /\ UNCHANGED landed

Next == \E k \in Calls : Land(k) \/ \E o \in Outcomes : Tell(k, o)

Spec == Init /\ [][Next]_<<landed, told>>
=============================================================================
