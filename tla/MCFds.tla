------------------------------- MODULE MCFds -------------------------------
(* Instances of Fds for TLC: the slots are interchangeable. *)
EXTENDS Fds, TLC

SlotSymmetry == Permutations(Slots)

=============================================================================
