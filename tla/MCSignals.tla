------------------------------ MODULE MCSignals ------------------------------
(* Masks for the runs of Signals. *)
EXTENDS Signals

NoMask     == {{}}
KillMask   == {{2, 9}}
AnyMask    == {{}, {2}, {2, 9}}
=============================================================================
