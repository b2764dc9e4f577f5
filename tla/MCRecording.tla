----------------------------- MODULE MCRecording ------------------------------
(***************************************************************************)
(* Recording as it is: every mode, every pair of modes, both kinds of      *)
(* pictures in memory and D3D11 textures, and any number of frames.        *)
(***************************************************************************)
EXTENDS Recording
===============================================================================
