---------------------------- MODULE MCPresentation ----------------------------
(***************************************************************************)
(* Presentation with two flights over three images: the number of images   *)
(* differs from the number of flights, so that either can lag behind.      *)
(***************************************************************************)
EXTENDS Presentation
===============================================================================
