------------------------ MODULE MCOperationManager ------------------------
(* Small instances of OperationManager for TLC. *)
EXTENDS OperationRefinement, TLC

CONSTANTS t1, t2, v1

Deploy(t) == [kind |-> "deploy", target |-> t, image |-> v1, secret |-> FALSE]
Remove(t) == [kind |-> "remove", target |-> t, image |-> None, secret |-> FALSE]
Other(t)  == [kind |-> "other",  target |-> t, image |-> None, secret |-> TRUE]

DeployAndRemove == {Deploy(t1), Remove(t1)}
OtherOnTwo      == {Other(t1), Other(t2)}
OneOther        == {Other(t1)}
OneDeploy       == {Deploy(t1)}

Symmetry == Permutations(OpIds) \cup Permutations(Workers) \cup Permutations(Clients)
TargetSymmetry == Symmetry \cup Permutations(Targets)
===========================================================================
