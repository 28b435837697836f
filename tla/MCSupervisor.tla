----------------------------- MODULE MCSupervisor -----------------------------
(* The server process on small instances. *)
EXTENDS Supervisor, TLC

CONSTANTS s1, s2

ConfA == [mysql |-> "m1", sock |-> "a", deny |-> "none"]
ConfB == [mysql |-> "m2", sock |-> "b", deny |-> "d1"]
TwoConfigs == {ConfA, ConfB}
Symmetric == Permutations(Sessions)
=============================================================================
