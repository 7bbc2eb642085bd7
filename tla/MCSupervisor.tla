---------------------------- MODULE MCSupervisor ----------------------------
\* A team of three: one route per strategy, `c` not in the priority list.
EXTENDS Supervisor

CONSTANTS a, b, c, fanout, chain

Team == {a, b, c}
Labels == {fanout, chain}
Table ==
  [label \in Labels \cup {NoIntent} |->
     CASE label = fanout -> [specialists |-> <<a, b, c>>, strategy |-> "parallel"]
       [] label = chain -> [specialists |-> <<b, a>>, strategy |-> "sequential"]
       [] OTHER -> [specialists |-> <<b, c>>, strategy |-> "single"]]
Order == <<b, a>>
Retryable == {"timeout"}
=============================================================================
