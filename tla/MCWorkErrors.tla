----------------------------- MODULE MCWorkErrors -----------------------------
(* A small instance of WorkErrors for TLC. *)
EXTENDS WorkErrors, TLC

CONSTANTS ann, bob, root, b1

MCRank     == ann :> 1 @@ bob :> 2
MCMinutes  == [type \in TaskTypes |-> 1]
PackNote   == {<<"PICKING", "PACKING">>}
PickAgain  == {"PICKING"}
OnePriority == {50}
AnyGranted == {NULL}
PickAndPack == {{"PICKING", "PACKING"}}
AlwaysOn   == {}
=============================================================================
