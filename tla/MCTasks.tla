------------------------------- MODULE MCTasks -------------------------------
(* Arguments of wait4 for the runs of Tasks. *)
EXTENDS Tasks

AnyChild   == {-1}          \* wait for any child
ByIdOrAny  == {-1, 2}       \* and for one child
AllKinds   == {-1, 0, 2, -2} \* and for the caller's group and a named one
=============================================================================
