------------------------ MODULE MCOrchestrationSteps ------------------------
(* Small instances of OrchestrationSteps for TLC. *)
EXTENDS OrchestrationRefinement

CONSTANTS a, b, c, s, w1, w2

\* Independent nodes, two chains (c is left out of the smaller instances), and
\* a graph in which no node can ever start.
MCWorkflows ==
    { [n \in Nodes |-> {}],
      [n \in Nodes |-> IF n = b THEN {a} ELSE {}],
      [n \in Nodes |-> IF n = c THEN {b} ELSE {}],
      [n \in Nodes |-> {n}] }
=============================================================================
