---------------------------- MODULE HostPagesMC ----------------------------
(* An instance of HostPages: a meeting in the half hour after noon, a new    *)
(* form just before midnight, and a user who chooses noon: where the 12-hour *)
(* clock is special.                                                          *)
EXTENDS HostPages, TLC

AfterNoon == [m \in {1} |-> Day + 735]
Noon      == {[date |-> 1, hour |-> 12, minute |-> 0, pm |-> TRUE]}

RequestSymmetry == Permutations(Requests)
=============================================================================
