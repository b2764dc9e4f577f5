------------------------------ MODULE MCPlayback ------------------------------
(***************************************************************************)
(* Playback on small instances: short inputs, small pools and a few        *)
(* gestures.  The cfg files choose the source, the options and what fails. *)
(***************************************************************************)
EXTENDS Playback
===============================================================================
