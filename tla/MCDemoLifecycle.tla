---- MODULE MCDemoLifecycle ----
(* Two transactions at once on one demo, and a label more than it may have. *)
EXTENDS DemoLifecycle, TLC
CONSTANTS d1, l1, l2, w1, w2

MCDemos == {d1}
MCLabels == {l1, l2}
MCWorkers == {w1, w2}

Symmetry == Permutations(MCWorkers) \cup Permutations(MCLabels)
====
