-------------------------------- MODULE Seats --------------------------------
(***************************************************************************)
(* What the server promises about the mesh of one meeting, with nothing of *)
(* how it keeps the promise: there are MaxMesh seats; a participant takes  *)
(* one at a time, may lose it at any moment, alone or with others, and     *)
(* once out it never sits down again (it has to come back as another       *)
(* participant).                                                            *)
(***************************************************************************)
EXTENDS Integers, FiniteSets

CONSTANTS Participants, MaxMesh

VARIABLES
    seated,     \* participants present and connected
    gone        \* participants who left

Init == seated = {} /\ gone = {}

Take(p) ==
    /\ p \notin seated \union gone
    /\ Cardinality(seated \union {p}) <= MaxMesh
    /\ seated' = seated \union {p}
    /\ gone' = gone

(* Whoever leaves may have had no seat yet: a join that never connected. *)
Leave(S) ==
    /\ S \intersect gone = {}
    /\ seated' = seated \ S
    /\ gone' = gone \union S

Next == \/ \E p \in Participants : Take(p)
        \/ \E S \in SUBSET Participants : Leave(S)

Spec == Init /\ [][Next]_<<seated, gone>>
=============================================================================
