----------------------------- MODULE FrameChannel -----------------------------
(***************************************************************************)
(* What decode/FrameQueue promises its two users, without slots, ring      *)
(* indices, condition variables or wake-ups: a channel of at most Capacity *)
(* frames that are waiting, being written or being read.  The writer may   *)
(* recycle the oldest waiting frame, and the reader may skip to the newest *)
(* one.  FrameQueue implements this specification; Playback uses its       *)
(* operations as the queue between the two threads.                        *)
(***************************************************************************)
EXTENDS Integers, Sequences

CONSTANTS
  Capacity,   \* frames held at once: the slots of the pool
  Frames,     \* what can be written
  NoSlot,     \* a side that holds no slot
  EmptySlot   \* a slot that holds no frame yet

VARIABLES
  waiting,  \* the frames committed and not yet read, oldest first
  writer,   \* NoSlot, EmptySlot or the frame the writer is about to commit
  reader,   \* NoSlot or the frame being read
  closed

chanVars == <<waiting, writer, reader, closed>>

InUse == Len(waiting) + (IF writer = NoSlot THEN 0 ELSE 1)
                      + (IF reader = NoSlot THEN 0 ELSE 1)

ChannelInit ==
  waiting = <<>> /\ writer = NoSlot /\ reader = NoSlot /\ closed = FALSE

BeginWrite ==
  /\ writer = NoSlot /\ ~closed
  /\ InUse < Capacity
  /\ writer' = EmptySlot
  /\ UNCHANGED <<waiting, reader, closed>>

RecycleOldest ==
  /\ writer = NoSlot /\ ~closed
  /\ InUse = Capacity /\ waiting # <<>>
  /\ waiting' = Tail(waiting)
  /\ writer' = EmptySlot
  /\ UNCHANGED <<reader, closed>>

Write(frame) ==
  /\ writer = EmptySlot
  /\ writer' = frame
  /\ UNCHANGED <<waiting, reader, closed>>

Commit ==
  /\ writer \in Frames
  /\ waiting' = Append(waiting, writer)
  /\ writer' = NoSlot
  /\ UNCHANGED <<reader, closed>>

Cancel ==
  /\ writer # NoSlot
  /\ writer' = NoSlot
  /\ UNCHANGED <<waiting, reader, closed>>

ReadOldest ==
  /\ reader = NoSlot /\ waiting # <<>>
  /\ reader' = Head(waiting)
  /\ waiting' = Tail(waiting)
  /\ UNCHANGED <<writer, closed>>

ReadNewest ==
  /\ reader = NoSlot /\ waiting # <<>>
  /\ reader' = waiting[Len(waiting)]
  /\ waiting' = <<>>
  /\ UNCHANGED <<writer, closed>>

Release ==
  /\ reader # NoSlot
  /\ reader' = NoSlot
  /\ UNCHANGED <<waiting, writer, closed>>

Discard ==
  /\ waiting' = <<>>
  /\ UNCHANGED <<writer, reader, closed>>

Close ==
  /\ closed' = TRUE
  /\ waiting' = <<>>
  /\ UNCHANGED <<writer, reader>>

ChannelNext ==
  \/ BeginWrite \/ RecycleOldest \/ Commit \/ Cancel
  \/ \E frame \in Frames : Write(frame)
  \/ ReadOldest \/ ReadNewest \/ Release \/ Discard \/ Close

ChannelSpec == ChannelInit /\ [][ChannelNext]_chanVars
===============================================================================
