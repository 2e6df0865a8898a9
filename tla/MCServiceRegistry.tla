------------------------- MODULE MCServiceRegistry -------------------------
(* Small instances of ServiceRegistry for TLC.                             *)
EXTENDS ServiceRegistry, TLC

MCProfile ==
  [description |-> "good", owner |-> "good", repository |-> "good", runbook |-> "good",
   health |-> "good", observability |-> "good", pipeline |-> "junk", language |-> "good",
   lifecycle |-> "junk", ci |-> FALSE, tracing |-> FALSE, metrics |-> FALSE, tier |-> 3,
   slo |-> [availability |-> 100, latency |-> 1, window |-> "good"]]

\* Profiles at the edges of validation: accepted, and refused for one field.
MCInputs ==
  {MCProfile,
   [MCProfile EXCEPT !.runbook = "empty"],
   [MCProfile EXCEPT !.pipeline = "blank"],
   [MCProfile EXCEPT !.tier = 4],
   [MCProfile EXCEPT !.slo.latency = 3],
   [MCProfile EXCEPT !.slo.availability = 0]}

\* Single flags, several fields at once, refused values, a latency no column
\* holds, and no field at all.
MCPatches ==
  {[ci |-> TRUE],
   [ci |-> TRUE, tracing |-> TRUE, metrics |-> TRUE],
   [metrics |-> FALSE],
   [slo |-> [availability |-> 1, latency |-> 1, window |-> "junk"]],
   [slo |-> [availability |-> 1, latency |-> 0, window |-> "good"]],
   [slo |-> [availability |-> 1, latency |-> 3, window |-> "good"]],
   [runbook |-> "empty"],
   <<>>}

MCSymmetry == Permutations(Updates)
============================================================================
