----------------------------- MODULE MCRgbLight ------------------------------
(***************************************************************************)
(* TLC instances of RgbLight: two channels are enough to tear a colour,    *)
(* and two duties to tell a stale one.                                     *)
(***************************************************************************)
EXTENDS RgbLight

AllColours == Duties
Blink == {<<0, 0>>, <<0, 1>>}
==============================================================================
