----------------------------- MODULE MCFrameQueue -----------------------------
(***************************************************************************)
(* FrameQueue on a small instance.  FrameQueue.cfg gives N and MaxFrames:  *)
(* three slots, so that the ring wraps while one slot is written and       *)
(* another is read, and enough frames for it to wrap twice.                *)
(***************************************************************************)
EXTENDS FrameQueue
===============================================================================
