------------------------------- MODULE MCTty -------------------------------
(***************************************************************************)
(* Tty with the settings programs use.                                     *)
(***************************************************************************)
EXTENDS Tty

OtherErase == {Defaults, [Defaults EXCEPT !.erase = "b"]}
RawToo == {Defaults, [Defaults EXCEPT !.canon = FALSE]}
OtherModes == OtherErase \cup RawToo

=============================================================================
