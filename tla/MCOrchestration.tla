--------------------------- MODULE MCOrchestration ---------------------------
(* Small instances of Orchestration for TLC. *)
EXTENDS Orchestration, TLC

CONSTANTS a, b, c, s

\* Independent nodes, a chain, a join, a fork, a cycle beside a runnable node,
\* and graphs in which no node can ever start.
MCWorkflows ==
    { [n \in Nodes |-> {}],
      (b :> {a} @@ c :> {b} @@ a :> {}),
      (c :> {a, b} @@ a :> {} @@ b :> {}),
      (b :> {a} @@ c :> {a} @@ a :> {}),
      (b :> {c} @@ c :> {b} @@ a :> {}),
      [n \in Nodes |-> {n}] }
=============================================================================
