----------------------------- MODULE Delegation -----------------------------
(***************************************************************************)
(* What a supervisor promises about the specialists of one session, with   *)
(* no graph, driver, crash or resume in sight: a pass over specialists     *)
(* takes hold as a whole or not at all, it runs only who has never been    *)
(* tried or has failed in a retryable way with budget left, a message is   *)
(* answered at most once, and only when there is nothing left to retry,    *)
(* with a success of the best rank if there is one.                        *)
(*                                                                         *)
(* It does not promise that the result was asked for by the message it     *)
(* answers: see AnswersThisTurn in Supervisor, which implements it.        *)
(***************************************************************************)
EXTENDS Naturals

CONSTANTS Specialists,
          Nobody,       \* the winner when no specialist succeeded
          Ranks,        \* rank of each specialist, the lower the better
          RetryOn,      \* the failures worth a retry
          MaxAttempts,
          Messages      \* bound: the user's messages are 1..Messages

VARIABLES turn,      \* the user's messages so far
          due,       \* the latest message is still to be answered
          results,   \* what became of each specialist's latest attempt
          attempts,  \* how often each was tried
          answers    \* the answer to each message

delegationVars == <<turn, due, results, attempts, answers>>

NoResult == [outcome |-> "none", asked |-> 0]
NoAnswer == [winner |-> Nobody, asked |-> 0]

Init ==
  /\ turn = 0 /\ due = FALSE
  /\ results = [s \in Specialists |-> NoResult]
  /\ attempts = [s \in Specialists |-> 0]
  /\ answers = [t \in 1..Messages |-> NoAnswer]

\* A message of the user; an older one that is not answered yet never will be.
Ask ==
  /\ turn < Messages
  /\ turn' = turn + 1 /\ due' = TRUE
  /\ UNCHANGED <<results, attempts, answers>>

Untried(s) == results[s] = NoResult /\ attempts[s] = 0
ToRetry(s) == results[s].outcome \in RetryOn /\ attempts[s] < MaxAttempts

\* A pass over a team. Not everybody has to be called, but all are counted.
Pass(team) ==
  /\ due
  /\ \A s \in team : Untried(s) \/ ToRetry(s)
  /\ \A s \in Specialists :
       \/ results'[s] = results[s]
       \/ /\ s \in team /\ results'[s].asked = turn
          /\ results'[s].outcome \in {"ok", "empty", "timeout", "specialist_error"}
  /\ attempts' = [s \in Specialists |-> attempts[s] + IF s \in team THEN 1 ELSE 0]
  /\ UNCHANGED <<turn, due, answers>>

Succeeded == {s \in Specialists : results[s].outcome = "ok"}
Best == {s \in Succeeded : \A t \in Succeeded : Ranks[s] <= Ranks[t]}

\* The message is answered, for the first and only time.
Answer(winner) ==
  /\ due
  /\ \A s \in Specialists : results[s].outcome \in RetryOn => attempts[s] >= MaxAttempts
  /\ IF Succeeded = {} THEN winner = Nobody ELSE winner \in Best
  /\ answers' = [answers EXCEPT ![turn] =
                   [winner |-> winner,
                    asked |-> IF winner = Nobody THEN 0 ELSE results[winner].asked]]
  /\ due' = FALSE
  /\ UNCHANGED <<turn, results, attempts>>

Next ==
  \/ Ask
  \/ \E team \in SUBSET Specialists : Pass(team)
  \/ \E winner \in Specialists \cup {Nobody} : Answer(winner)

Spec == Init /\ [][Next]_delegationVars
=============================================================================
