---------------------------- MODULE FencedLeader ----------------------------
(***************************************************************************)
(* What ADR 0008 promises of the coordinator of an identity: there is never *)
(* more than one, and each is told apart from all the earlier ones by a     *)
(* larger generation ("a surviving process can acquire a fenced next        *)
(* generation").                                                            *)
(***************************************************************************)
EXTENDS Naturals
CONSTANT Workbench
VARIABLES
    leader,   \* {}, or the one workbench that coordinates
    epoch     \* the generation of the last workbench that did

Init == leader = {} /\ epoch = 0

Elect ==
    /\ leader = {}
    /\ \E w \in Workbench : leader' = {w}
    /\ epoch' \in Nat /\ epoch' > epoch

Retire ==
    /\ leader # {}
    /\ leader' = {}
    /\ UNCHANGED epoch

Spec == Init /\ [][Elect \/ Retire]_<<leader, epoch>>
=============================================================================
