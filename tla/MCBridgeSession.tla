---------------------------- MODULE MCBridgeSession ----------------------------
(***************************************************************************)
(* BridgeSession on a small instance: a hello and a few messages of up to  *)
(* two units, read one or two units at a time, in any kind of run.         *)
(***************************************************************************)
EXTENDS BridgeSession
================================================================================
