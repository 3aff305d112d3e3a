------------------------------- MODULE MCSpts -------------------------------
(***************************************************************************)
(* Values for the model checker.                                           *)
(***************************************************************************)
EXTENDS SptsProps

(* Frames around every change of layout: 162 is what a head with a PCR     *)
(* holds, 170 what one without holds, 184 what a later packet holds.       *)
LayoutVideo == {161, 162, 163, 162 + 183, 162 + 184, 162 + 185}
LayoutAudio == {168, 170, 171, 3200}

(* mpegtime of these: 10249, the last that the clamp of the PCR applies   *)
(* to, and 40000, which does not fit a field of 2^15.                      *)
Clamped == {113888888}
Wrapped == {444444445}
=============================================================================
