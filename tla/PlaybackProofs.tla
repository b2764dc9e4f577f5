---------------------------- MODULE PlaybackProofs ----------------------------
(***************************************************************************)
(* Theorems about Playback, for every pool size, every length of the       *)
(* input, every source and option, and any number of gestures: no error is *)
(* lost, frames reach the display in order through pauses, loops and       *)
(* seeks, and a loop restarts the clock.                                   *)
(***************************************************************************)
EXTENDS Playback, SequenceTheorems, FiniteSetTheorems, TLAPS

(* Where each thread may still move frames. *)
InDecodeLoop == decoderPc \in {"top", "acquire", "check", "read", "checkSeek", "commit"}
InRenderLoop == renderPc \notin {"stop", "requestStop", "join", "done"}
HoldsFrame   == decoderPc \in {"checkSeek", "commit"}

(* The queue never holds more than its slots, and each side holds one when *)
(* its thread is where it needs it.                                        *)
SidesInv ==
  /\ Queue!InUse <= Capacity
  /\ writer = None <=> decoderPc \notin {"check", "read", "checkSeek", "commit"}
  /\ writer = Empty <=> decoderPc \in {"check", "read"}
  /\ HoldsFrame => writer = [num |-> position - 1, pass |-> pass] /\ position > 0
  /\ reader # None <=> renderPc = "consume"
  /\ renderPc = "nothingNew" => LiveMode

(* The stop token follows the end of the render loop, the end of the run   *)
(* that of the decoder thread, and a queue that is stopped while the loop  *)
(* runs was stopped by the decoder, behind its last frame.                 *)
StopInv ==
  /\ stopRequested => renderPc \in {"join", "done"}
  /\ outcome # "running" => decoderPc = "done"
  /\ closed /\ renderPc \notin {"requestStop", "join", "done"}
       => waiting = <<>> /\ decoderPc = "done"

(* The frame committed last of those that are not older than the display. *)
Held   == IF reader # None THEN reader ELSE displayed
Newest == IF waiting # <<>> THEN waiting[Len(waiting)] ELSE Held

(* The number of the frame that is committed next if nothing intervenes.   *)
Upcoming == IF HoldsFrame THEN position - 1 ELSE position

Before(p) == (p + Passes - 1) % Passes

(* A file.  Frames follow one another from the display through the queue.  *)
FileChain ==
  /\ \A i \in 1 .. Len(waiting) - 1 : Follows(waiting[i], waiting[i + 1])
  /\ Held # None /\ waiting # <<>> => Follows(Held, waiting[1])
  /\ displayed # None /\ reader # None => Follows(displayed, reader)

(* The decoder continues the chain: in the pass of its newest frame, or    *)
(* from the beginning of the next pass, or, when a seek met the end of the *)
(* input, of the one after it.  A frame that was decoded while a seek was  *)
(* requested is missing only until the seek is done.                       *)
FileContinues ==
  LET broken  == decoderPc = "top" /\ seekRequested IN
  InDecodeLoop /\ Newest # None =>
    /\ \/ Newest.pass = pass /\ (broken \/ Upcoming = Newest.num + 1)
       \/ Newest.pass = Before(pass) /\ (broken \/ Upcoming = 0)
       \/ Newest.pass = Before(Before(pass)) /\ Upcoming = 0
          /\ ~seekRequested /\ renderPc # "seekStore"
    /\ seekRequested /\ renderPc = "seekStore" => Newest.pass = pass /\ decoderPc = "top"

(* With an empty display, what comes is the first frame of the input, or   *)
(* what is not is skipped.                                                 *)
FileStarts ==
  /\ seeking \/ renderPc = "seekStore" => displayed = None
  /\ seekRequested /\ displayed = None => seeking \/ renderPc = "seekStore"
  /\ displayed = None /\ ~seeking /\ renderPc # "seekStore" =>
       /\ reader # None => reader.num = 0
       /\ reader = None /\ waiting # <<>> => waiting[1].num = 0
       /\ reader = None /\ waiting = <<>> /\ InDecodeLoop => Upcoming = 0

(* A live stream.  Whatever is skipped, numbers grow from the display to   *)
(* the decoder.                                                            *)
LiveChain ==
  /\ \A i, j \in 1 .. Len(waiting) : i < j => waiting[i].num < waiting[j].num
  /\ \A i \in 1 .. Len(waiting) :
       /\ Held # None => Held.num < waiting[i].num
       /\ waiting[i].num < Upcoming
  /\ Held # None => Held.num < Upcoming
  /\ displayed # None /\ reader # None => displayed.num < reader.num

OrderInv ==
  InRenderLoop => IF LiveMode THEN LiveChain ELSE FileChain /\ FileContinues /\ FileStarts

(* Without dropping, what was chosen last is what is displayed.            *)
ChosenIsDisplayed ==
  ~LiveMode /\ ~DropLate => current = displayed \/ renderPc = "done"

PlaybackInv == TypeOK /\ SidesInv /\ StopInv /\ ChosenIsDisplayed

-------------------------------------------------------------------------------
(* The queue. *)

(* Whatever either side does to the channel, it holds frames, and no more  *)
(* of them than it has slots.                                              *)
LEMMA QueueBounded ==
  ASSUME TypeOK, Queue!InUse <= Capacity, [Queue!ChannelNext]_Queue!chanVars
  PROVE  /\ waiting' \in Seq(Frame) /\ Len(waiting') <= Capacity
         /\ writer' \in Frame \union {None, Empty} /\ reader' \in Frame \union {None}
         /\ Queue!InUse' <= Capacity
  <1> DEFINE Use(n, w, r) == n + (IF w = None THEN 0 ELSE 1) + (IF r = None THEN 0 ELSE 1)
             Keeps == /\ waiting' \in Seq(Frame)
                      /\ writer' \in Frame \union {None, Empty}
                      /\ reader' \in Frame \union {None}
                      /\ Use(Len(waiting'), writer', reader') <= Capacity
  <1>a. Queue!InUse = Use(Len(waiting), writer, reader)
    BY DEF Queue!InUse
  <1>b. Queue!InUse' = Use(Len(waiting'), writer', reader')
    BY DEF Queue!InUse
  <1>c. \A n \in Nat : \A w, r :
          /\ Use(n, w, r) \in Nat /\ n <= Use(n, w, r) /\ Use(0, w, r) <= Use(n, w, r)
          /\ Use(n + 1, w, r) = Use(n, w, r) + 1
          /\ w # None => Use(n, w, r) = Use(n, None, r) + 1
          /\ r # None => Use(n, w, r) = Use(n, w, None) + 1
    OBVIOUS
  <1>d. \A n \in Nat : \A w, v, r : w # None /\ v # None => Use(n, w, r) = Use(n, v, r)
    OBVIOUS
  <1>. HIDE DEF Use
  <1>0. /\ waiting \in Seq(Frame) /\ Len(waiting) \in Nat /\ Capacity \in Nat
        /\ writer \in Frame \union {None, Empty} /\ reader \in Frame \union {None}
        /\ None \notin Frame /\ None # Empty
        /\ Use(Len(waiting), writer, reader) \in Nat
        /\ Use(Len(waiting), writer, reader) <= Capacity
    <2>1. Capacity \in Nat
      BY InputAssumption
    <2>2. waiting \in Seq(Frame) /\ writer \in Frame \union {None, Empty}
          /\ reader \in Frame \union {None}
      BY DEF TypeOK
    <2>3. Len(waiting) \in Nat
      BY <2>2
    <2>4. None \notin Frame /\ None # Empty
      BY MarkAssumption
    <2>. QED BY <1>a, <1>c, <2>1, <2>2, <2>3, <2>4
  <1>e. SUFFICES Keeps
    <2>1. Len(waiting') \in Nat
      BY <1>e
    <2>. QED BY <1>0, <1>b, <1>c, <1>e, <2>1
  <1>1. CASE Queue!BeginWrite
    BY <1>0, <1>a, <1>c, <1>1 DEF Queue!BeginWrite
  <1>2. CASE Queue!RecycleOldest
    <2>1. /\ Tail(waiting) \in Seq(Frame) /\ Len(Tail(waiting)) \in Nat
          /\ Len(waiting) = Len(Tail(waiting)) + 1
      BY <1>0, <1>2, HeadTailProperties DEF Queue!RecycleOldest
    <2>. QED BY <1>0, <1>c, <1>2, <2>1 DEF Queue!RecycleOldest
  <1>3. CASE Queue!Commit
    <2>1. /\ Append(waiting, writer) \in Seq(Frame)
          /\ Len(Append(waiting, writer)) = Len(waiting) + 1
      BY <1>0, <1>3, AppendProperties DEF Queue!Commit
    <2>2. Use(Len(waiting), writer, reader) = Use(Len(waiting), None, reader) + 1
      BY <1>0, <1>c, <1>3 DEF Queue!Commit
    <2>3. Use(Len(waiting) + 1, None, reader) = Use(Len(waiting), None, reader) + 1
      BY <1>0, <1>c
    <2>. QED BY <1>0, <1>3, <2>1, <2>2, <2>3 DEF Queue!Commit
  <1>4. CASE Queue!Cancel
    BY <1>0, <1>c, <1>4 DEF Queue!Cancel
  <1>5. ASSUME NEW frame \in Frame, Queue!Write(frame)
        PROVE  Keeps
    BY <1>0, <1>d, <1>5 DEF Queue!Write
  <1>6. CASE Queue!ReadOldest
    <2>1. /\ Tail(waiting) \in Seq(Frame) /\ Len(Tail(waiting)) \in Nat
          /\ Len(waiting) = Len(Tail(waiting)) + 1 /\ Head(waiting) \in Frame
      BY <1>0, <1>6, HeadTailProperties DEF Queue!ReadOldest
    <2> DEFINE n == Len(Tail(waiting))
    <2>2. Use(n + 1, writer, None) = Use(n, writer, None) + 1
      BY <1>c, <2>1
    <2>3. Use(n, writer, Head(waiting)) = Use(n, writer, None) + 1
      BY <1>0, <1>c, <2>1
    <2>. QED BY <1>0, <1>6, <2>1, <2>2, <2>3 DEF Queue!ReadOldest
  <1>7. CASE Queue!ReadNewest
    <2>1. waiting[Len(waiting)] \in Frame /\ Len(waiting) - 1 \in Nat
          /\ (Len(waiting) - 1) + 1 = Len(waiting)
      BY <1>0, <1>7 DEF Queue!ReadNewest
    <2>2. waiting' = <<>> /\ Len(waiting') = 0 /\ waiting' \in Seq(Frame)
      BY <1>7 DEF Queue!ReadNewest
    <2> DEFINE newest == waiting[Len(waiting)]
    <2>. HIDE DEF newest
    <2>3. newest # None /\ Use(0, writer, newest) = Use(0, writer, None) + 1
      <3>1. 0 \in Nat /\ newest # None
        BY <1>0, <2>1 DEF newest
      <3>. QED BY <1>c, <3>1
    <2>4. Use(Len(waiting), writer, None) = Use(Len(waiting) - 1, writer, None) + 1
      BY <1>c, <2>1
    <2>5. /\ Use(0, writer, None) <= Use(Len(waiting) - 1, writer, None)
          /\ Use(0, writer, None) \in Nat /\ Use(Len(waiting) - 1, writer, None) \in Nat
      BY <1>c, <2>1
    <2>6. Use(0, writer, newest) <= Capacity
      BY <1>0, <1>7, <2>3, <2>4, <2>5, <2>1 DEF Queue!ReadNewest
    <2>. QED BY <1>0, <1>7, <2>1, <2>2, <2>6 DEF Queue!ReadNewest, newest
  <1>8. CASE Queue!Release
    BY <1>0, <1>c, <1>8 DEF Queue!Release
  <1>9. CASE Queue!Discard \/ Queue!Close
    <2>1. waiting' = <<>> /\ UNCHANGED <<writer, reader>>
      BY <1>9 DEF Queue!Discard, Queue!Close
    <2>2. Len(waiting') = 0 /\ waiting' \in Seq(Frame)
      BY <2>1
    <2>. QED BY <1>0, <1>c, <2>1, <2>2
  <1>10. CASE UNCHANGED Queue!chanVars
    BY <1>0, <1>10 DEF Queue!chanVars
  <1>. QED BY <1>1, <1>2, <1>3, <1>4, <1>5, <1>6, <1>7, <1>8, <1>9, <1>10
         DEF Queue!ChannelNext

(* A frame that is read is one. *)
LEMMA ReadsFrame ==
  ASSUME TypeOK, position < Length
  PROVE  [num |-> position, pass |-> pass] \in Frame
  BY InputAssumption DEF TypeOK, Frame

(* Each thread uses the queue only as the channel allows. *)
LEMMA StepUsesChannel ==
  ASSUME TypeOK, [Next]_vars
  PROVE  [Queue!ChannelNext]_Queue!chanVars
  <1>1. ASSUME UNCHANGED queue
        PROVE  UNCHANGED Queue!chanVars
    BY <1>1 DEF queue, Queue!chanVars
  <1>2. CASE DecoderStep
    <2>1. CASE ReadFrame
      BY <2>1, ReadsFrame DEF ReadFrame, Queue!ChannelNext
    <2>2. CASE DecoderStep /\ ~ReadFrame
      BY <1>1, <2>2 DEF DecoderStep, TopOfLoop, AcquireSlot, AcquireRefused, CheckSlot,
         ReadEndOfFile, ReadFails, CheckSeek, CommitFrame, RecordError, StoreEof, StopAtEnd,
         Queue!ChannelNext
    <2>. QED BY <1>2, <2>1, <2>2
  <1>3. CASE RenderStep
    BY <1>1, <1>3 DEF RenderStep, PollEvents, DiscardForSeek, RequestSeek, HandleWindow,
       KeepFrame, TakeOldest, QueueStopped, SkipBeforeFirst, ConsumeFile, TakeNewest,
       NothingNew, TestEof, ConsumeLive, Present, RenderFails, LeaveLoop, StopQueue,
       RequestStop, JoinAndRelease, Queue!ChannelNext
  <1>4. CASE UNCHANGED vars
    BY <1>1, <1>4 DEF vars
  <1>. QED BY <1>2, <1>3, <1>4 DEF Next, Finished

-------------------------------------------------------------------------------
(* The decoder thread's steps keep types, sides and the order of the end. *)
LEMMA DecoderKeepsPlayback ==
  ASSUME PlaybackInv, DecoderStep
  PROVE  PlaybackInv'
  <1>0. /\ waiting' \in Seq(Frame) /\ Len(waiting') <= Capacity
        /\ writer' \in Frame \union {None, Empty} /\ reader' \in Frame \union {None}
        /\ Queue!InUse' <= Capacity
    BY StepUsesChannel, QueueBounded DEF PlaybackInv, SidesInv, Next
  <1>m. /\ None # Empty /\ None \notin Frame /\ Empty \notin Frame
        /\ Length \in Nat /\ Passes \in Nat \ {0}
    BY MarkAssumption, InputAssumption
  <1>u. /\ position \in 0 .. Length /\ pass \in 0 .. Passes - 1
        /\ (pass + 1) % Passes \in 0 .. Passes - 1
    BY <1>m DEF PlaybackInv, TypeOK
  <1> DEFINE Rest ==
        /\ position' \in 0 .. Length /\ pass' \in 0 .. Passes - 1
        /\ decoderPc' \in {"top", "acquire", "check", "read", "checkSeek", "commit",
                           "error", "storeEof", "stopQueue", "done"}
        /\ {closed', seekRequested', decodeEof', decoderError'} \subseteq BOOLEAN
        /\ writer' = None <=> decoderPc' \notin {"check", "read", "checkSeek", "commit"}
        /\ writer' = Empty <=> decoderPc' \in {"check", "read"}
        /\ decoderPc' \in {"checkSeek", "commit"} =>
             writer' = [num |-> position' - 1, pass |-> pass'] /\ position' > 0
        /\ reader' = reader
        /\ closed' /\ renderPc \notin {"requestStop", "join", "done"}
             => waiting' = <<>> /\ decoderPc' = "done"
        /\ outcome # "running" => decoderPc' = "done"
        /\ UNCHANGED <<mode, stopRequested, rendering>>
  <1>e. SUFFICES Rest
    BY <1>0, <1>e DEF PlaybackInv, TypeOK, SidesInv, StopInv, HoldsFrame, ChosenIsDisplayed,
       LiveMode, DropLate, rendering, display, controls, clock, run
  <1>f. UNCHANGED mode
    BY DEF DecoderStep
  <1>s. ASSUME NEW next, SeekReader(next)
        PROVE  /\ decoderPc' \in {next, "error"}
               /\ position' \in 0 .. Length /\ pass' \in 0 .. Passes - 1
    BY <1>s, <1>m, <1>u DEF SeekReader
  <1>. USE <1>m, <1>u, <1>f DEF PlaybackInv, TypeOK, SidesInv, StopInv, HoldsFrame
  <1>1. CASE TopOfLoop
    <2>1. /\ decoderPc' \in {"done", "acquire", "error"}
          /\ position' \in 0 .. Length /\ pass' \in 0 .. Passes - 1
          /\ seekRequested' \in BOOLEAN
      BY <1>1, <1>s DEF TopOfLoop
    <2>. QED BY <1>1, <2>1 DEF TopOfLoop, queue
  <1>2. CASE AcquireSlot
    BY <1>2 DEF AcquireSlot, Queue!BeginWrite, Queue!RecycleOldest
  <1>3. CASE AcquireRefused
    BY <1>3 DEF AcquireRefused, queue
  <1>4. CASE CheckSlot
    <2>1. CASE Queue!Cancel
      <3>1. /\ decoderPc' \in {"done", "top", "error"}
            /\ position' \in 0 .. Length /\ pass' \in 0 .. Passes - 1
            /\ seekRequested' \in BOOLEAN
        BY <1>4, <1>s, <2>1 DEF CheckSlot, Queue!Cancel, queue
      <3>. QED BY <1>4, <2>1, <3>1 DEF CheckSlot, Queue!Cancel
    <2>2. CASE ~Queue!Cancel
      BY <1>4, <2>2 DEF CheckSlot, queue
    <2>. QED BY <2>1, <2>2
  <1>5. CASE ReadFrame
    BY <1>5, ReadsFrame DEF ReadFrame, Queue!Write
  <1>6. CASE ReadEndOfFile
    BY <1>6 DEF ReadEndOfFile, SeekReader, Queue!Cancel
  <1>7. CASE ReadFails
    BY <1>7 DEF ReadFails, Queue!Cancel
  <1>8. CASE CheckSeek
    BY <1>8 DEF CheckSeek, Queue!Cancel, queue
  <1>9. CASE CommitFrame
    BY <1>9 DEF CommitFrame, Queue!Commit
  <1>10. CASE RecordError
    BY <1>10 DEF RecordError, queue
  <1>11. CASE StoreEof
    BY <1>11 DEF StoreEof, queue
  <1>12. CASE StopAtEnd
    BY <1>12 DEF StopAtEnd, Queue!Close
  <1>. QED BY <1>1, <1>2, <1>3, <1>4, <1>5, <1>6, <1>7, <1>8, <1>9, <1>10, <1>11, <1>12
         DEF DecoderStep

(* What the user did in one iteration is a finite set of gestures. *)
LEMMA GesturesAreCounted ==
  ASSUME NEW polled \in SUBSET Gestures
  PROVE  Cardinality(polled) \in Nat
  <1>1. IsFiniteSet({"pause", "step"} \union {"seek", "zoom"} \union {"close"})
    <2>1. /\ IsFiniteSet({"pause"}) /\ IsFiniteSet({"step"}) /\ IsFiniteSet({"seek"})
          /\ IsFiniteSet({"zoom"}) /\ IsFiniteSet({"close"})
      BY FS_Singleton
    <2>2. IsFiniteSet({"pause"} \union {"step"}) /\ IsFiniteSet({"seek"} \union {"zoom"})
      BY <2>1, FS_Union
    <2>3. /\ {"pause"} \union {"step"} = {"pause", "step"}
          /\ {"seek"} \union {"zoom"} = {"seek", "zoom"}
      OBVIOUS
    <2>4. IsFiniteSet({"pause", "step"} \union {"seek", "zoom"})
      BY <2>2, <2>3, FS_Union
    <2>. QED BY <2>1, <2>4, FS_Union
  <1>2. polled \subseteq {"pause", "step"} \union {"seek", "zoom"} \union {"close"}
    BY InputAssumption
  <1>. QED BY <1>1, <1>2, FS_Subset, FS_CardinalityType

(* The render loop's steps keep types, sides and the order of the end. *)
LEMMA RenderKeepsPlayback ==
  ASSUME PlaybackInv, RenderStep
  PROVE  PlaybackInv'
  <1>0. /\ waiting' \in Seq(Frame) /\ Len(waiting') <= Capacity
        /\ writer' \in Frame \union {None, Empty} /\ reader' \in Frame \union {None}
        /\ Queue!InUse' <= Capacity
    BY StepUsesChannel, QueueBounded DEF PlaybackInv, SidesInv, Next
  <1>m. /\ None # Empty /\ None \notin Frame /\ Empty \notin Frame
        /\ MaxGestures \in Nat
    BY MarkAssumption, InputAssumption
  <1>f. UNCHANGED mode
    BY DEF RenderStep
  <1> DEFINE Display ==
        /\ {current', displayed'} \subseteq Frame \union {None}
        /\ ~LiveMode /\ ~DropLate => current' = displayed' \/ renderPc' = "done"
             Controls ==
        /\ events' \subseteq Gestures /\ gesturesLeft' \in 0 .. MaxGestures
        /\ {paused', step', seeking', zoomInspector'} \subseteq BOOLEAN
        /\ clockPass' \in 0 .. Passes - 1 \union {None} /\ clockPaused' \in BOOLEAN
             Places ==
        /\ renderPc' \in {"events", "seek", "seekStore", "window", "acquire", "consume",
                          "nothingNew", "present", "stop", "requestStop", "join", "done"}
        /\ {shouldClose', failed', seekRequested', stopRequested', closed'} \subseteq BOOLEAN
        /\ outcome' \in {"running", "ok", "decoderError", "renderError"}
        /\ reader' # None <=> renderPc' = "consume"
        /\ renderPc' = "nothingNew" => LiveMode
        /\ stopRequested' => renderPc' \in {"join", "done"}
        /\ outcome' # "running" => decoderPc = "done"
        /\ closed' /\ renderPc' \notin {"requestStop", "join", "done"}
             => waiting' = <<>> /\ decoderPc = "done"
        /\ UNCHANGED <<decoding, writer>>
  <1>e. SUFFICES Display /\ Controls /\ Places
    BY <1>0, <1>f, <1>e DEF PlaybackInv, TypeOK, SidesInv, StopInv, HoldsFrame,
       ChosenIsDisplayed, LiveMode, DropLate, decoding
  <1>. USE <1>m DEF PlaybackInv, TypeOK, SidesInv, StopInv, ChosenIsDisplayed, queue, display,
                    controls, clock, run
  <1>1. CASE PollEvents
    <2>1. PICK polled \in SUBSET Gestures :
            /\ Cardinality(polled) <= gesturesLeft
            /\ gesturesLeft' = gesturesLeft - Cardinality(polled)
            /\ events' = polled
      BY <1>1 DEF PollEvents
    <2>2. gesturesLeft' \in 0 .. MaxGestures
      BY <2>1, GesturesAreCounted
    <2>3. Controls
      BY <1>1, <2>1, <2>2 DEF PollEvents, PauseClock, ResumeClock
    <2>. QED BY <1>1, <2>3 DEF PollEvents
  <1>2. CASE DiscardForSeek
    BY <1>2 DEF DiscardForSeek, Queue!Discard
  <1>3. CASE RequestSeek
    BY <1>3 DEF RequestSeek
  <1>4. CASE HandleWindow
    BY <1>4 DEF HandleWindow, PauseClock
  <1>5. CASE KeepFrame
    BY <1>5 DEF KeepFrame
  <1>6. CASE TakeOldest
    <2>1. reader' # None /\ UNCHANGED <<writer, closed>>
          /\ (closed => waiting # <<>> /\ renderPc = "acquire")
      BY <1>6, HeadTailProperties DEF TakeOldest, Queue!ReadOldest
    <2>. QED BY <1>6, <2>1 DEF TakeOldest
  <1>7. CASE QueueStopped
    BY <1>7 DEF QueueStopped
  <1>8. CASE SkipBeforeFirst
    BY <1>8 DEF SkipBeforeFirst, Queue!Release
  <1>9. CASE ConsumeFile
    <2>1. reader \in Frame
      BY <1>9 DEF ConsumeFile
    <2>2. clockPass' \in 0 .. Passes - 1 \union {None} /\ clockPaused' \in BOOLEAN
      BY <1>9, <2>1 DEF ConsumeFile, PaceFrame, Frame
    <2>3. Display
      BY <1>9, <2>1 DEF ConsumeFile, MayDrop
    <2>. QED BY <1>9, <2>2, <2>3 DEF ConsumeFile, Queue!Release
  <1>10. CASE TakeNewest
    <2>1. reader' # None /\ UNCHANGED <<writer, closed>>
          /\ (closed => waiting # <<>> /\ renderPc = "acquire")
      BY <1>10 DEF TakeNewest, Queue!ReadNewest
    <2>. QED BY <1>10, <2>1 DEF TakeNewest
  <1>11. CASE NothingNew
    BY <1>11 DEF NothingNew
  <1>12. CASE TestEof
    BY <1>12 DEF TestEof
  <1>13. CASE ConsumeLive
    BY <1>13 DEF ConsumeLive, Queue!Release
  <1>14. CASE Present
    BY <1>14 DEF Present
  <1>15. CASE RenderFails
    BY <1>15 DEF RenderFails
  <1>16. CASE LeaveLoop
    BY <1>16 DEF LeaveLoop
  <1>17. CASE StopQueue
    BY <1>17 DEF StopQueue, Queue!Close
  <1>18. CASE RequestStop
    BY <1>18 DEF RequestStop
  <1>19. CASE JoinAndRelease
    BY <1>19 DEF JoinAndRelease, Queue!Discard
  <1>. QED BY <1>1, <1>2, <1>3, <1>4, <1>5, <1>6, <1>7, <1>8, <1>9, <1>10, <1>11, <1>12,
              <1>13, <1>14, <1>15, <1>16, <1>17, <1>18, <1>19 DEF RenderStep

(* The invariant holds initially and is kept by every step. *)
LEMMA PlaybackInit ==
  Init => PlaybackInv
  <1>. SUFFICES ASSUME Init PROVE PlaybackInv
    OBVIOUS
  <1>1. Len(waiting) = 0 /\ waiting \in Seq(Frame)
    BY DEF Init, Queue!ChannelInit
  <1>2. Queue!InUse <= Capacity
    BY <1>1, InputAssumption DEF Init, Queue!ChannelInit, Queue!InUse
  <1>3. TypeOK
    <2>1. /\ Len(waiting) <= Capacity /\ 0 \in 0 .. Length /\ 0 \in 0 .. Passes - 1
          /\ MaxGestures \in 0 .. MaxGestures
      BY <1>1, InputAssumption
    <2>. QED BY <1>1, <2>1 DEF Init, Queue!ChannelInit, TypeOK
  <1>. QED BY <1>2, <1>3, MarkAssumption DEF Init, Queue!ChannelInit, PlaybackInv, SidesInv,
         StopInv, HoldsFrame, ChosenIsDisplayed

LEMMA PlaybackStep ==
  PlaybackInv /\ [Next]_vars => PlaybackInv'
  <1>. SUFFICES ASSUME PlaybackInv, [Next]_vars PROVE PlaybackInv'
    OBVIOUS
  <1>1. CASE UNCHANGED vars
    <2>1. Queue!InUse' = Queue!InUse
      BY <1>1 DEF vars, queue, Queue!InUse
    <2>. QED BY <1>1, <2>1 DEF vars, queue, decoding, rendering, display, controls, clock, run,
           PlaybackInv, TypeOK, SidesInv, StopInv, HoldsFrame, ChosenIsDisplayed, LiveMode,
           DropLate
  <1>. QED BY <1>1, DecoderKeepsPlayback, RenderKeepsPlayback DEF Next, Finished

(* Types, the sides of the queue and the order in which the threads end.   *)
THEOREM PlaybackInvariant == Spec => []PlaybackInv
  BY PlaybackInit, PlaybackStep, PTL DEF Spec

(* Every variable keeps its type, and the queue its bound. *)
THEOREM PlaybackTypes == Spec => []TypeOK
  BY PlaybackInvariant, PTL DEF PlaybackInv

(* The two threads use the queue as the channel that FrameQueue implements. *)
THEOREM UsesTheChannel == Spec => Queue!ChannelSpec
  <1>1. Init => Queue!ChannelInit
    BY DEF Init
  <1>2. TypeOK /\ [Next]_vars => [Queue!ChannelNext]_Queue!chanVars
    BY StepUsesChannel
  <1>. QED BY <1>1, <1>2, PlaybackTypes, PTL DEF Spec, Queue!ChannelSpec

(* A run that ends well met no decoder error: runApplication joins the     *)
(* decoder thread before it looks for one.                                 *)
LEMMA ErrorReportedStep ==
  PlaybackInv /\ ErrorReported /\ [Next]_vars => ErrorReported'
  <1>. SUFFICES ASSUME PlaybackInv, ErrorReported, [Next]_vars, outcome' = "ok"
                PROVE  ~decoderError'
    BY DEF ErrorReported
  <1>1. CASE JoinAndRelease
    BY <1>1 DEF JoinAndRelease, decoding
  <1>2. CASE RenderStep /\ ~JoinAndRelease
    <2>1. outcome' = outcome /\ decoderError' = decoderError
      BY <1>2 DEF RenderStep, PollEvents, DiscardForSeek, RequestSeek, HandleWindow,
         KeepFrame, TakeOldest, QueueStopped, SkipBeforeFirst, ConsumeFile, TakeNewest,
         NothingNew, TestEof, ConsumeLive, Present, RenderFails, LeaveLoop, StopQueue,
         RequestStop, decoding, run
    <2>. QED BY <2>1 DEF ErrorReported
  <1>3. CASE DecoderStep
    <2>1. outcome = "ok" /\ (decoderError' = decoderError \/ decoderPc = "error")
      BY <1>3 DEF DecoderStep, TopOfLoop, AcquireSlot, AcquireRefused, CheckSlot, ReadFrame,
         ReadEndOfFile, ReadFails, CheckSeek, CommitFrame, RecordError, StoreEof, StopAtEnd,
         rendering, run
    <2>2. decoderPc = "done"
      BY <2>1 DEF PlaybackInv, StopInv
    <2>. QED BY <2>1, <2>2 DEF ErrorReported
  <1>4. CASE UNCHANGED vars
    BY <1>4 DEF vars, decoding, rendering, run, ErrorReported
  <1>. QED BY <1>1, <1>2, <1>3, <1>4 DEF Next, Finished

THEOREM ErrorsAreReported == Spec => []ErrorReported
  <1>1. Init => ErrorReported
    BY DEF Init, ErrorReported
  <1>. QED BY <1>1, ErrorReportedStep, PlaybackInvariant, PTL DEF Spec

(* When playback of a file goes back to an earlier frame, the clock is     *)
(* started afresh in that frame's pass, unless late frames are dropped:    *)
(* the frame the boundary is measured from is the one on display.          *)
THEOREM LoopsRestartTheClock == Spec => LoopRestartsClock
  <1>1. PlaybackInv /\ [Next]_vars
          => [GoesBack /\ ~LiveMode => clockPass' = displayed'.pass \/ DropLate]_vars
    <2>. SUFFICES ASSUME PlaybackInv, [Next]_vars, GoesBack, ~LiveMode, ~DropLate
                  PROVE  clockPass' = displayed'.pass
      OBVIOUS
    <2>1. displayed # None /\ displayed' # None /\ displayed' # displayed
          /\ displayed'.num < displayed.num
      <3>1. displayed \in Frame /\ displayed # None /\ displayed' # None
        BY DEF GoesBack, PlaybackInv, TypeOK
      <3>2. displayed.num \in Int
        BY <3>1 DEF Frame
      <3>. QED BY <3>1, <3>2 DEF GoesBack
    <2>2. ConsumeFile
      BY <2>1 DEF Next, Finished, vars, DecoderStep, RenderStep, PollEvents, DiscardForSeek,
         RequestSeek, HandleWindow, KeepFrame, TakeOldest, QueueStopped, SkipBeforeFirst,
         TakeNewest, NothingNew, TestEof, ConsumeLive, Present, RenderFails, LeaveLoop,
         StopQueue, RequestStop, JoinAndRelease, rendering, display, TopOfLoop, AcquireSlot,
         AcquireRefused, CheckSlot, ReadFrame, ReadEndOfFile, ReadFails, CheckSeek,
         CommitFrame, RecordError, StoreEof, StopAtEnd
    <2>3. current = displayed
      BY <2>2 DEF ConsumeFile, PlaybackInv, ChosenIsDisplayed
    <2>. QED BY <2>1, <2>2, <2>3 DEF ConsumeFile, PaceFrame, LoopBoundary
  <1>. QED BY <1>1, PlaybackInvariant, PTL DEF Spec, LoopRestartsClock

-------------------------------------------------------------------------------
(* The order of the frames.  Passes are numbered modulo Passes; three are  *)
(* enough to tell apart the passes whose frames are under way together.    *)
LEMMA PassArithmetic ==
  ASSUME Passes > 2, NEW p \in 0 .. Passes - 1
  PROVE  LET q == (p + 1) % Passes IN
         /\ q \in 0 .. Passes - 1 /\ Before(q) = p
         /\ Before(p) \in 0 .. Passes - 1 /\ Before(p) # p
         /\ Before(Before(p)) # p
  <1>0. Passes \in Nat \ {0}
    BY InputAssumption
  <1>1. \A x \in 0 .. 2 * Passes - 1 : x % Passes = IF x < Passes THEN x ELSE x - Passes
    BY <1>0
  <1>2. Before(p) = IF p = 0 THEN Passes - 1 ELSE p - 1
    BY <1>0, <1>1 DEF Before
  <1>3. \A r \in 0 .. Passes - 1 : Before(r) = IF r = 0 THEN Passes - 1 ELSE r - 1
    BY <1>0, <1>1 DEF Before
  <1>4. (p + 1) % Passes = IF p + 1 < Passes THEN p + 1 ELSE 0
    BY <1>0, <1>1
  <1>. QED BY <1>0, <1>2, <1>3, <1>4

(* The three parts of the order of a file while the loop runs. *)
FileOrder == FileChain /\ FileContinues /\ FileStarts

(* The frames under way are frames. *)
LEMMA ChainTypes ==
  ASSUME TypeOK
  PROVE  /\ Len(waiting) \in Nat /\ \A i \in 1 .. Len(waiting) : waiting[i] \in Frame
         /\ waiting = <<>> <=> Len(waiting) = 0
         /\ Held \in Frame \union {None} /\ Newest \in Frame \union {None}
         /\ waiting # <<>> => Newest \in Frame
         /\ \A f \in Frame : f.num \in 0 .. Length - 1 /\ f.pass \in 0 .. Passes - 1
         /\ Length \in Nat /\ None \notin Frame
  <1>1. /\ waiting \in Seq(Frame) /\ reader \in Frame \union {None}
        /\ displayed \in Frame \union {None}
    BY DEF TypeOK
  <1>2. /\ Len(waiting) \in Nat /\ \A i \in 1 .. Len(waiting) : waiting[i] \in Frame
        /\ waiting = <<>> <=> Len(waiting) = 0
    BY <1>1
  <1>3. waiting # <<>> => waiting[Len(waiting)] \in Frame
    BY <1>2
  <1>4. Held \in Frame \union {None}
    BY <1>1 DEF Held
  <1>. QED BY <1>2, <1>3, <1>4, MarkAssumption, InputAssumption DEF Newest, Frame

(* A step that moves no frame on its way to the display. *)
LEMMA ChainUntouched ==
  ASSUME UNCHANGED <<mode, waiting, reader, displayed>>
  PROVE  /\ Held' = Held /\ Newest' = Newest /\ FileChain' = FileChain
  <1>1. \A f, g : Follows(f, g)' <=> Follows(f, g)
    BY DEF Follows, LiveMode
  <1>2. Held' = Held /\ Newest' = Newest
    BY DEF Held, Newest
  <1>. QED BY <1>1, <1>2 DEF FileChain, Follows, LiveMode

(* A frame that the decoder commits becomes the newest one. *)
LEMMA CommitExtends ==
  ASSUME PlaybackInv, ~LiveMode, FileChain, Queue!Commit, UNCHANGED <<mode, displayed>>,
         writer \in Frame, Newest # None => Follows(Newest, writer)
  PROVE  /\ FileChain' /\ Newest' = writer /\ Held' = Held
         /\ waiting' # <<>> /\ waiting'[1] = IF waiting = <<>> THEN writer ELSE waiting[1]
  <1>1. /\ waiting \in Seq(Frame) /\ waiting' = Append(waiting, writer)
        /\ UNCHANGED <<reader, displayed, mode>>
    BY DEF PlaybackInv, TypeOK, Queue!Commit
  <1>2. /\ Len(waiting) \in Nat /\ Len(waiting') = Len(waiting) + 1
        /\ waiting'[Len(waiting) + 1] = writer
        /\ \A i \in 1 .. Len(waiting) : waiting'[i] = waiting[i]
        /\ waiting = <<>> <=> Len(waiting) = 0
    BY <1>1, AppendProperties
  <1>3. waiting' # <<>>
    BY <1>1, <1>2
  <1>4. Held' = Held /\ Newest' = writer
    BY <1>1, <1>2, <1>3 DEF Held, Newest
  <1>5. waiting'[1] = IF waiting = <<>> THEN writer ELSE waiting[1]
    BY <1>2
  <1>7. ASSUME NEW i \in 1 .. Len(waiting') - 1
        PROVE  Follows(waiting'[i], waiting'[i + 1])
    <2>1. CASE i = Len(waiting)
      <3>1. waiting # <<>> /\ waiting'[i] = Newest /\ Newest \in Frame
        BY <1>1, <1>2, <1>7, <2>1 DEF Newest
      <3>. QED BY <1>2, <2>1, <3>1, MarkAssumption
    <2>2. CASE i # Len(waiting)
      <3>1. i \in 1 .. Len(waiting) - 1 /\ i + 1 \in 1 .. Len(waiting)
        BY <1>2, <1>7, <2>2
      <3>. QED BY <1>2, <3>1 DEF FileChain
    <2>. QED BY <2>1, <2>2
  <1>8. Held # None => Follows(Held, waiting'[1])
    BY <1>5 DEF FileChain, Newest
  <1>9. FileChain'
    <2>1. displayed # None /\ reader # None => Follows(displayed, reader)
      BY DEF FileChain
    <2>. QED BY <1>1, <1>4, <1>7, <1>8, <2>1 DEF FileChain, Follows, LiveMode
  <1>. QED BY <1>3, <1>4, <1>5, <1>9

(* The decoder's steps keep the order of a file's frames. *)
LEMMA DecoderKeepsFileOrder ==
  ASSUME Passes > 2, PlaybackInv, ~LiveMode, FileOrder, DecoderStep
  PROVE  FileOrder'
  <1> DEFINE next == (pass + 1) % Passes
  <1>p. /\ next \in 0 .. Passes - 1 /\ Before(next) = pass
        /\ Before(pass) \in 0 .. Passes - 1 /\ Before(pass) # pass
        /\ Before(Before(pass)) # pass
    BY PassArithmetic DEF PlaybackInv, TypeOK
  <1>t. /\ Newest \in Frame \union {None} /\ None \notin Frame /\ Length \in Nat \ {0}
        /\ \A f \in Frame : f.num \in 0 .. Length - 1 /\ f.pass \in 0 .. Passes - 1
        /\ position \in 0 .. Length /\ pass \in 0 .. Passes - 1 /\ seekRequested \in BOOLEAN
    BY ChainTypes, InputAssumption DEF PlaybackInv, TypeOK
  <1>r. UNCHANGED <<mode, reader, displayed, seeking, renderPc>>
    BY DEF DecoderStep, TopOfLoop, AcquireSlot, AcquireRefused, CheckSlot, ReadFrame,
       ReadEndOfFile, ReadFails, CheckSeek, CommitFrame, RecordError, StoreEof, StopAtEnd,
       SeekReader, queue, rendering, display, controls, Queue!BeginWrite,
       Queue!RecycleOldest, Queue!Cancel, Queue!Write, Queue!Commit, Queue!Close
  <1> HIDE DEF next
  <1>u. ASSUME UNCHANGED waiting, FileContinues', FileStarts'
        PROVE  FileOrder'
    BY <1>r, <1>u, ChainUntouched DEF FileOrder
  <1>n. ASSUME UNCHANGED waiting
        PROVE  Newest' = Newest
    BY <1>r, <1>n, ChainUntouched
  (* Outside the loop the decoder has nothing left to continue. *)
  <1>o. ASSUME UNCHANGED waiting, ~InDecodeLoop', seekRequested' => seekRequested
        PROVE  FileOrder'
    BY <1>r, <1>u, <1>o DEF FileOrder, FileContinues, FileStarts
  (* A seek, on request or at the end of the input, starts the next pass. *)
  <1>s. ASSUME UNCHANGED waiting, InDecodeLoop, position' = 0, pass' = next,
               decoderPc' \in {"top", "acquire"},
               \/ seekRequested /\ ~seekRequested'
               \/ /\ UNCHANGED seekRequested /\ decoderPc = "read"
                  /\ Upcoming = Length /\ decoderPc' = "top"
        PROVE  FileOrder'
    <2>1. Newest' = Newest /\ Upcoming' = 0 /\ InDecodeLoop'
      BY <1>n, <1>s DEF Upcoming, HoldsFrame, InDecodeLoop
    <2>2. Newest # None => Newest.pass = pass \/ Newest.pass = Before(pass)
      BY <1>s, <1>t DEF FileOrder, FileContinues
    <2>3. Newest # None /\ Newest.pass = Before(pass) =>
            /\ seekRequested /\ ~seekRequested'
            /\ renderPc # "seekStore"
      BY <1>s, <1>p, <1>t DEF FileOrder, FileContinues
    <2>7. Newest # None /\ decoderPc = "read" => ~(seekRequested /\ renderPc = "seekStore")
      BY <1>s DEF FileOrder, FileContinues
    <2>4. FileContinues'
      BY <1>p, <1>r, <1>s, <2>1, <2>2, <2>3, <2>7 DEF FileContinues
    <2>5. displayed = None /\ ~seeking /\ renderPc # "seekStore" =>
            /\ ~seekRequested
            /\ reader # None \/ waiting # <<>>
      BY <1>s, <1>t DEF FileOrder, FileStarts
    <2>6. FileStarts'
      BY <1>r, <1>s, <2>1, <2>5 DEF FileOrder, FileStarts
    <2>. QED BY <1>s, <1>u, <2>4, <2>6
  (* Within a pass the decoder moves on without moving its place in it. *)
  <1>w. ASSUME UNCHANGED <<waiting, pass, seekRequested>>, InDecodeLoop, Upcoming' = Upcoming,
               decoderPc = "top" => ~seekRequested
        PROVE  FileOrder'
    <2>1. FileContinues'
      BY <1>n, <1>r, <1>w DEF FileOrder, FileContinues
    <2>2. FileStarts'
      BY <1>r, <1>w DEF FileOrder, FileStarts
    <2>. QED BY <1>u, <1>w, <2>1, <2>2
  <1>1. CASE TopOfLoop
    <2>1. UNCHANGED waiting /\ InDecodeLoop
      BY <1>1 DEF TopOfLoop, queue, InDecodeLoop
    <2>2. CASE stopRequested \/ decoderPc' = "error"
      BY <1>1, <1>o, <2>1, <2>2 DEF TopOfLoop, SeekReader, InDecodeLoop
    <2>3. CASE ~stopRequested /\ seekRequested /\ decoderPc' # "error"
      BY <1>1, <1>s, <2>1, <2>3 DEF TopOfLoop, SeekReader, next
    <2>4. CASE ~stopRequested /\ ~seekRequested
      BY <1>1, <1>w, <2>1, <2>4 DEF TopOfLoop, Upcoming, HoldsFrame
    <2>. QED BY <1>1, <2>2, <2>3, <2>4 DEF TopOfLoop
  <1>2. CASE AcquireSlot
    BY <1>2, <1>w DEF AcquireSlot, Queue!BeginWrite, Upcoming, HoldsFrame, InDecodeLoop
  <1>3. CASE AcquireRefused
    BY <1>3, <1>o DEF AcquireRefused, InDecodeLoop, queue
  <1>4. CASE CheckSlot
    <2>1. UNCHANGED waiting /\ InDecodeLoop
      BY <1>4 DEF CheckSlot, queue, InDecodeLoop, Queue!Cancel
    <2>2. CASE stopRequested \/ decoderPc' = "error"
      BY <1>4, <1>o, <2>1, <2>2 DEF CheckSlot, SeekReader, InDecodeLoop
    <2>3. CASE ~stopRequested /\ seekRequested /\ decoderPc' # "error"
      BY <1>4, <1>s, <2>1, <2>3 DEF CheckSlot, SeekReader, next
    <2>4. CASE ~stopRequested /\ ~seekRequested
      BY <1>4, <1>w, <2>1, <2>4 DEF CheckSlot, Upcoming, HoldsFrame
    <2>. QED BY <1>4, <2>2, <2>3, <2>4 DEF CheckSlot
  <1>5. CASE ReadFrame
    BY <1>5, <1>t, <1>w DEF ReadFrame, Queue!Write, Upcoming, HoldsFrame, InDecodeLoop
  <1>6. CASE ReadEndOfFile
    <2>1. UNCHANGED <<waiting, seekRequested>> /\ InDecodeLoop /\ Upcoming = Length
          /\ decoderPc = "read"
      BY <1>6 DEF ReadEndOfFile, InDecodeLoop, Queue!Cancel, Upcoming, HoldsFrame
    <2>2. CASE ~Loop \/ decoderPc' = "error"
      BY <1>6, <1>o, <2>1, <2>2 DEF ReadEndOfFile, InDecodeLoop
    <2>3. CASE Loop /\ decoderPc' # "error"
      BY <1>6, <1>s, <2>1, <2>3 DEF ReadEndOfFile, SeekReader, next
    <2>. QED BY <2>2, <2>3
  <1>7. CASE ReadFails
    BY <1>7, <1>o DEF ReadFails, InDecodeLoop, Queue!Cancel
  <1>8. CASE CheckSeek
    <2>1. CASE ~seekRequested
      BY <1>8, <1>w, <2>1 DEF CheckSeek, queue, Upcoming, HoldsFrame, InDecodeLoop
    <2>2. CASE seekRequested
      <3>1. UNCHANGED <<waiting, pass, seekRequested>> /\ decoderPc = "checkSeek"
            /\ decoderPc' = "top" /\ InDecodeLoop
        BY <1>8, <2>2 DEF CheckSeek, Queue!Cancel, InDecodeLoop
      <3>2. FileContinues'
        BY <1>n, <1>r, <2>2, <3>1 DEF FileOrder, FileContinues
      <3>3. FileStarts'
        BY <1>r, <2>2, <3>1 DEF FileOrder, FileStarts
      <3>. QED BY <1>u, <3>1, <3>2, <3>3
    <2>. QED BY <2>1, <2>2
  <1>9. CASE CommitFrame
    <2>1. /\ Queue!Commit /\ decoderPc = "commit" /\ decoderPc' = "top"
          /\ UNCHANGED <<position, pass, seekRequested>>
          /\ writer = [num |-> position - 1, pass |-> pass] /\ position > 0
      BY <1>9 DEF CommitFrame, PlaybackInv, SidesInv, HoldsFrame
    <2>2. writer \in Frame /\ writer.num = Upcoming /\ writer.pass = pass
          /\ Upcoming' = writer.num + 1
      BY <1>t, <2>1 DEF Frame, Upcoming, HoldsFrame
    <2>3. Newest # None => Follows(Newest, writer)
      BY <1>p, <2>1, <2>2 DEF FileOrder, FileContinues, InDecodeLoop, Follows
    <2>4. /\ FileChain' /\ Newest' = writer /\ waiting' # <<>>
          /\ waiting'[1] = IF waiting = <<>> THEN writer ELSE waiting[1]
      BY <1>r, <2>1, <2>2, <2>3, CommitExtends DEF FileOrder
    <2>5. FileContinues'
      BY <2>1, <2>2, <2>4 DEF FileContinues
    <2>6. FileStarts'
      BY <1>r, <2>1, <2>2, <2>4 DEF FileOrder, FileStarts, InDecodeLoop
    <2>. QED BY <2>4, <2>5, <2>6 DEF FileOrder
  <1>10. CASE RecordError
    BY <1>10, <1>o DEF RecordError, InDecodeLoop, queue
  <1>11. CASE StoreEof
    BY <1>11, <1>o DEF StoreEof, InDecodeLoop, queue
  <1>12. CASE StopAtEnd
    <2>1. waiting' = <<>> /\ Len(waiting') = 0 /\ UNCHANGED seekRequested
          /\ ~InDecodeLoop'
      BY <1>12 DEF StopAtEnd, Queue!Close, InDecodeLoop
    <2>. QED BY <1>r, <2>1 DEF FileOrder, FileChain, FileContinues, FileStarts, Follows, LiveMode
  <1>. QED BY <1>1, <1>2, <1>3, <1>4, <1>5, <1>6, <1>7, <1>8, <1>9, <1>10, <1>11, <1>12
         DEF DecoderStep

(* The render loop's steps keep it, as long as it runs. *)
LEMMA RenderKeepsFileOrder ==
  ASSUME PlaybackInv, ~LiveMode, FileOrder, RenderStep, InRenderLoop'
  PROVE  FileOrder'
  <1>t. /\ waiting \in Seq(Frame) /\ Len(waiting) \in Nat /\ None \notin Frame
        /\ \A i \in 1 .. Len(waiting) : waiting[i] \in Frame
        /\ waiting = <<>> <=> Len(waiting) = 0
        /\ reader \in Frame \union {None} /\ displayed \in Frame \union {None}
    BY ChainTypes DEF PlaybackInv, TypeOK
  <1>r. UNCHANGED <<mode, decoding>> /\ InDecodeLoop' = InDecodeLoop /\ Upcoming' = Upcoming
    BY DEF RenderStep, PollEvents, DiscardForSeek, RequestSeek, HandleWindow, KeepFrame,
       TakeOldest, QueueStopped, SkipBeforeFirst, ConsumeFile, TakeNewest, NothingNew, TestEof,
       ConsumeLive, Present, RenderFails, LeaveLoop, StopQueue, RequestStop, JoinAndRelease,
       decoding, InDecodeLoop, Upcoming, HoldsFrame
  <1>c. UNCHANGED <<decoderPc, pass>> /\ UNCHANGED LiveMode
    BY <1>r DEF decoding, LiveMode
  (* Most steps move no frame. *)
  <1>w. ASSUME UNCHANGED <<waiting, reader, displayed, seeking, seekRequested>>,
               renderPc # "seekStore", renderPc' # "seekStore"
        PROVE  FileOrder'
    <2>1. Newest' = Newest /\ FileChain'
      BY <1>r, <1>w, ChainUntouched DEF FileOrder
    <2>2. FileContinues'
      BY <1>c, <1>r, <1>w, <2>1 DEF FileOrder, FileContinues
    <2>3. FileStarts'
      BY <1>r, <1>w DEF FileOrder, FileStarts
    <2>. QED BY <2>1, <2>2, <2>3 DEF FileOrder
  <1>1. CASE PollEvents \/ HandleWindow \/ KeepFrame \/ QueueStopped \/ Present
    BY <1>1, <1>w DEF PollEvents, HandleWindow, KeepFrame, QueueStopped, Present, queue,
       display, controls
  <1>2. CASE DiscardForSeek
    <2>1. /\ waiting' = <<>> /\ Len(waiting') = 0 /\ displayed' = None /\ reader' = None
          /\ renderPc' = "seekStore"
      BY <1>2 DEF DiscardForSeek, Queue!Discard, PlaybackInv, SidesInv
    <2>2. Newest' = None /\ FileChain'
      BY <2>1 DEF Newest, Held, FileChain
    <2>. QED BY <2>1, <2>2 DEF FileOrder, FileContinues, FileStarts
  <1>3. CASE RequestSeek
    <2>1. /\ UNCHANGED <<waiting, reader, displayed>> /\ seeking' /\ seekRequested'
          /\ renderPc = "seekStore" /\ renderPc' = "window"
      BY <1>3 DEF RequestSeek, queue, display
    <2>2. Newest' = Newest /\ FileChain'
      BY <1>r, <2>1, ChainUntouched DEF FileOrder
    <2>3. FileContinues'
      BY <1>c, <1>r, <2>1, <2>2 DEF FileOrder, FileContinues
    <2>4. FileStarts'
      BY <2>1 DEF FileOrder, FileStarts
    <2>. QED BY <2>2, <2>3, <2>4 DEF FileOrder
  <1>4. CASE TakeOldest
    <2>1. /\ waiting # <<>> /\ reader = None /\ reader' = Head(waiting)
          /\ waiting' = Tail(waiting)
          /\ UNCHANGED <<displayed, seeking, seekRequested>>
          /\ renderPc = "acquire" /\ renderPc' = "consume"
      BY <1>4 DEF TakeOldest, Queue!ReadOldest, PlaybackInv, SidesInv, display, controls
    <2>2. /\ Len(waiting') = Len(waiting) - 1 /\ Len(waiting') \in Nat
          /\ \A i \in 1 .. Len(waiting') : waiting'[i] = waiting[i + 1]
          /\ waiting' = <<>> <=> Len(waiting') = 0
          /\ reader' = waiting[1] /\ reader' # None
      <3>1. /\ Len(Tail(waiting)) = Len(waiting) - 1 /\ Tail(waiting) \in Seq(Frame)
            /\ \A i \in 1 .. Len(Tail(waiting)) : Tail(waiting)[i] = waiting[i + 1]
            /\ Head(waiting) = waiting[1]
        BY <1>t, <2>1, HeadTailProperties
      <3>2. waiting[1] \in Frame
        BY <1>t, <2>1
      <3>3. Len(Tail(waiting)) \in Nat /\ (Tail(waiting) = <<>> <=> Len(Tail(waiting)) = 0)
        BY <3>1, EmptySeq, LenProperties
      <3>. QED BY <1>t, <2>1, <3>1, <3>2, <3>3
    <2>3. Newest' = Newest
      BY <1>t, <2>1, <2>2 DEF Newest, Held
    <2>4. \A i \in 1 .. Len(waiting') - 1 : Follows(waiting'[i], waiting'[i + 1])
      <3>1. SUFFICES ASSUME NEW i \in 1 .. Len(waiting') - 1
                     PROVE  Follows(waiting'[i], waiting'[i + 1])
        OBVIOUS
      <3>2. i + 1 \in 1 .. Len(waiting) - 1
        BY <1>t, <2>2
      <3>3. waiting'[i] = waiting[i + 1] /\ waiting'[i + 1] = waiting[(i + 1) + 1]
        BY <2>2
      <3>. QED BY <3>2, <3>3 DEF FileOrder, FileChain
    <2>5. waiting' # <<>> => Follows(reader', waiting'[1])
      <3>1. SUFFICES ASSUME waiting' # <<>> PROVE Follows(reader', waiting'[1])
        OBVIOUS
      <3>2. 1 \in 1 .. Len(waiting) - 1 /\ waiting'[1] = waiting[1 + 1]
        BY <1>t, <2>2, <3>1
      <3>. QED BY <2>2, <3>2 DEF FileOrder, FileChain
    <2>6. displayed # None => Follows(displayed, reader')
      BY <2>1, <2>2 DEF FileOrder, FileChain, Held
    <2>7. FileChain'
      BY <1>c, <2>1, <2>2, <2>4, <2>5, <2>6 DEF FileChain, Follows, Held
    <2>8. FileContinues'
      BY <1>c, <1>r, <2>1, <2>3 DEF FileOrder, FileContinues
    <2>9. FileStarts'
      BY <2>1, <2>2 DEF FileOrder, FileStarts
    <2>. QED BY <2>7, <2>8, <2>9 DEF FileOrder
  <1>5. CASE SkipBeforeFirst
    <2>1. /\ reader' = None /\ displayed = None /\ seeking
          /\ UNCHANGED <<waiting, displayed, seeking, seekRequested>>
          /\ renderPc = "consume" /\ renderPc' = "events"
      BY <1>5 DEF SkipBeforeFirst, BeforeFirst, Queue!Release, display, controls, FileOrder,
         FileStarts
    <2>2. Newest' = None \/ Newest' = Newest
      BY <2>1 DEF Newest, Held
    <2>3. FileChain'
      BY <1>c, <2>1 DEF FileOrder, FileChain, Held, Follows
    <2>4. FileContinues'
      BY <1>c, <1>r, <2>1, <2>2 DEF FileOrder, FileContinues
    <2>5. FileStarts'
      BY <2>1 DEF FileStarts
    <2>. QED BY <2>3, <2>4, <2>5 DEF FileOrder
  <1>6. CASE ConsumeFile
    <2>1. /\ reader # None /\ displayed' = reader /\ reader' = None /\ ~seeking'
          /\ UNCHANGED <<waiting, seekRequested>>
          /\ renderPc = "consume" /\ renderPc' \in {"events", "present"}
      BY <1>6 DEF ConsumeFile, Queue!Release
    <2>2. Held' = Held /\ Newest' = Newest
      BY <2>1 DEF Newest, Held
    <2>3. FileChain'
      BY <1>c, <2>1, <2>2 DEF FileOrder, FileChain, Follows
    <2>4. FileContinues'
      BY <1>c, <1>r, <2>1, <2>2 DEF FileOrder, FileContinues
    <2>5. FileStarts'
      BY <2>1 DEF FileStarts
    <2>. QED BY <2>3, <2>4, <2>5 DEF FileOrder
  <1>7. CASE TakeNewest \/ NothingNew \/ TestEof \/ ConsumeLive
    BY <1>7 DEF TakeNewest, NothingNew, TestEof, ConsumeLive, PlaybackInv, SidesInv
  <1>8. CASE RenderFails \/ LeaveLoop \/ StopQueue \/ RequestStop \/ JoinAndRelease
    BY <1>8 DEF RenderFails, LeaveLoop, StopQueue, RequestStop, JoinAndRelease, InRenderLoop
  <1>. QED BY <1>1, <1>2, <1>3, <1>4, <1>5, <1>6, <1>7, <1>8 DEF RenderStep

(* Both threads keep the order of a live stream. *)
LEMMA DecoderKeepsLiveOrder ==
  ASSUME PlaybackInv, LiveMode, LiveChain, DecoderStep
  PROVE  LiveChain'
  <1>t. /\ waiting \in Seq(Frame) /\ Len(waiting) \in Nat /\ None \notin Frame
        /\ \A i \in 1 .. Len(waiting) : waiting[i] \in Frame
        /\ Held \in Frame \union {None} /\ position \in Nat
        /\ \A f \in Frame : f.num \in Int
    BY ChainTypes DEF PlaybackInv, TypeOK
  <1>r. UNCHANGED <<mode, reader, displayed>> /\ Held' = Held
    BY DEF DecoderStep, TopOfLoop, AcquireSlot, AcquireRefused, CheckSlot, ReadFrame,
       ReadEndOfFile, ReadFails, CheckSeek, CommitFrame, RecordError, StoreEof, StopAtEnd,
       SeekReader, queue, rendering, display, controls, Queue!BeginWrite,
       Queue!RecycleOldest, Queue!Cancel, Queue!Write, Queue!Commit, Queue!Close, Held
  <1>w. ASSUME UNCHANGED waiting, Upcoming' \in {Upcoming, Upcoming + 1}
        PROVE  LiveChain'
    <2>1. Upcoming \in Int
      BY <1>t DEF Upcoming
    <2>2. \A f \in Frame : f.num < Upcoming => f.num < Upcoming'
      BY <1>t, <1>w, <2>1
    <2>. QED BY <1>t, <1>r, <1>w, <2>2 DEF LiveChain
  <1>1. CASE TopOfLoop \/ AcquireRefused \/ CheckSlot \/ ReadEndOfFile \/ ReadFails \/ CheckSeek
               \/ RecordError \/ StoreEof
    <2>1. UNCHANGED waiting
      BY <1>1 DEF TopOfLoop, AcquireRefused, CheckSlot, ReadEndOfFile, ReadFails, CheckSeek,
         RecordError, StoreEof, queue, Queue!Cancel
    <2>2. UNCHANGED position
      BY <1>1 DEF TopOfLoop, AcquireRefused, CheckSlot, ReadEndOfFile, ReadFails, CheckSeek,
         RecordError, StoreEof, SeekReader
    <2>3. \/ ~HoldsFrame /\ ~HoldsFrame'
          \/ HoldsFrame
      BY <1>1 DEF TopOfLoop, AcquireRefused, CheckSlot, ReadEndOfFile, ReadFails, CheckSeek,
         RecordError, StoreEof, SeekReader, HoldsFrame
    <2>. QED BY <1>t, <1>w, <2>1, <2>2, <2>3 DEF Upcoming
  <1>2. CASE AcquireSlot
    <2>1. Upcoming' = Upcoming
      BY <1>2 DEF AcquireSlot, Upcoming, HoldsFrame
    <2>2. CASE UNCHANGED waiting
      BY <1>w, <2>1, <2>2
    <2>3. CASE Queue!RecycleOldest
      <3>1. waiting # <<>> /\ waiting' = Tail(waiting)
        BY <2>3 DEF Queue!RecycleOldest
      <3>2. /\ Len(waiting') = Len(waiting) - 1
            /\ \A i \in 1 .. Len(waiting') : waiting'[i] = waiting[i + 1]
        BY <1>t, <3>1, HeadTailProperties
      <3>3. \A i \in 1 .. Len(waiting') : i + 1 \in 1 .. Len(waiting)
        BY <1>t, <3>2
      <3>4. \A i, j \in 1 .. Len(waiting') : i < j => waiting'[i].num < waiting'[j].num
        <4>1. \A i, j \in 1 .. Len(waiting') : i < j => i + 1 < j + 1
          BY <1>t, <3>2
        <4>. QED BY <3>2, <3>3, <4>1 DEF LiveChain
      <3>. QED BY <1>r, <2>1, <3>2, <3>3, <3>4 DEF LiveChain
    <2>. QED BY <1>2, <2>2, <2>3 DEF AcquireSlot, Queue!BeginWrite
  <1>3. CASE ReadFrame
    BY <1>t, <1>3, <1>w DEF ReadFrame, Queue!Write, Upcoming, HoldsFrame
  <1>4. CASE CommitFrame
    <2>1. /\ Queue!Commit /\ writer = [num |-> position - 1, pass |-> pass] /\ UNCHANGED position
          /\ decoderPc = "commit" /\ decoderPc' = "top" /\ writer \in Frame
      BY <1>4, MarkAssumption DEF CommitFrame, PlaybackInv, TypeOK, SidesInv, HoldsFrame
    <2>2. writer.num = Upcoming /\ Upcoming' = Upcoming + 1 /\ Upcoming \in Int
      BY <1>t, <2>1 DEF Upcoming, HoldsFrame
    <2>3. /\ Len(waiting') = Len(waiting) + 1 /\ waiting'[Len(waiting) + 1] = writer
          /\ \A i \in 1 .. Len(waiting) : waiting'[i] = waiting[i]
      BY <1>t, <2>1, AppendProperties DEF Queue!Commit
    <2>4. \A i \in 1 .. Len(waiting) : waiting'[i].num < Upcoming /\ waiting'[i].num \in Int
      BY <1>t, <2>3 DEF LiveChain
    <2>5. \A i \in 1 .. Len(waiting') : i \in 1 .. Len(waiting) \/ i = Len(waiting) + 1
      BY <1>t, <2>3
    <2>6. \A i, j \in 1 .. Len(waiting') : i < j => waiting'[i].num < waiting'[j].num
      <3>1. SUFFICES ASSUME NEW i \in 1 .. Len(waiting'), NEW j \in 1 .. Len(waiting'), i < j
                     PROVE  waiting'[i].num < waiting'[j].num
        OBVIOUS
      <3>2. i \in 1 .. Len(waiting)
        BY <1>t, <2>3, <3>1
      <3>3. CASE j \in 1 .. Len(waiting)
        BY <2>3, <3>1, <3>2, <3>3 DEF LiveChain
      <3>4. CASE j = Len(waiting) + 1
        BY <2>2, <2>3, <2>4, <3>2, <3>4
      <3>. QED BY <2>5, <3>3, <3>4
    <2>7. Held # None => Held.num < Upcoming /\ Held.num \in Int
      BY <1>t DEF LiveChain
    <2>8. \A i \in 1 .. Len(waiting') :
            /\ Held # None => Held.num < waiting'[i].num
            /\ waiting'[i].num < Upcoming'
      <3>1. SUFFICES ASSUME NEW i \in 1 .. Len(waiting')
                     PROVE  /\ Held # None => Held.num < waiting'[i].num
                            /\ waiting'[i].num < Upcoming'
        OBVIOUS
      <3>2. CASE i \in 1 .. Len(waiting)
        BY <2>2, <2>3, <2>4, <3>2 DEF LiveChain
      <3>3. CASE i = Len(waiting) + 1
        BY <2>2, <2>3, <2>7, <3>3
      <3>. QED BY <2>5, <3>2, <3>3
    <2>9. Held # None => Held.num < Upcoming'
      BY <2>2, <2>7
    <2>. QED BY <1>r, <2>6, <2>8, <2>9 DEF LiveChain
  <1>5. CASE StopAtEnd
    <2>1. waiting' = <<>> /\ Len(waiting') = 0 /\ Upcoming' = Upcoming
      BY <1>5 DEF StopAtEnd, Queue!Close, Upcoming, HoldsFrame
    <2>. QED BY <1>r, <2>1 DEF LiveChain
  <1>. QED BY <1>1, <1>2, <1>3, <1>4, <1>5 DEF DecoderStep

LEMMA RenderKeepsLiveOrder ==
  ASSUME PlaybackInv, LiveMode, LiveChain, RenderStep, InRenderLoop'
  PROVE  LiveChain'
  <1>t. /\ waiting \in Seq(Frame) /\ Len(waiting) \in Nat
        /\ waiting # <<>> => Len(waiting) \in 1 .. Len(waiting) /\ waiting[Len(waiting)] \in Frame
        /\ None \notin Frame
    BY ChainTypes DEF PlaybackInv, TypeOK
  <1>r. UNCHANGED <<mode, decoding>> /\ Upcoming' = Upcoming
    BY DEF RenderStep, PollEvents, DiscardForSeek, RequestSeek, HandleWindow, KeepFrame,
       TakeOldest, QueueStopped, SkipBeforeFirst, ConsumeFile, TakeNewest, NothingNew, TestEof,
       ConsumeLive, Present, RenderFails, LeaveLoop, StopQueue, RequestStop, JoinAndRelease,
       decoding, Upcoming, HoldsFrame
  <1>1. CASE UNCHANGED <<waiting, reader, displayed>>
    <2>1. Held' = Held
      BY <1>1 DEF Held
    <2>. QED BY <1>1, <1>r, <2>1 DEF LiveChain
  <1>2. CASE DiscardForSeek
    <2>1. waiting' = <<>> /\ Len(waiting') = 0 /\ reader' = None /\ displayed' = None
      BY <1>2 DEF DiscardForSeek, Queue!Discard, PlaybackInv, SidesInv
    <2>. QED BY <2>1 DEF LiveChain, Held
  <1>3. CASE TakeNewest
    <2>1. /\ waiting # <<>> /\ reader = None /\ reader' = waiting[Len(waiting)]
          /\ waiting' = <<>> /\ Len(waiting') = 0 /\ UNCHANGED displayed
      BY <1>3 DEF TakeNewest, Queue!ReadNewest, display
    <2>2. Held' = reader' /\ Held = displayed
      BY <1>t, <2>1 DEF Held
    <2>. QED BY <1>r, <1>t, <2>1, <2>2 DEF LiveChain
  <1>4. CASE ConsumeLive
    <2>1. reader # None /\ displayed' = reader /\ reader' = None /\ UNCHANGED waiting
      BY <1>4 DEF ConsumeLive, Queue!Release
    <2>2. Held' = Held
      BY <2>1 DEF Held
    <2>. QED BY <1>r, <2>1, <2>2 DEF LiveChain
  <1>5. CASE TakeOldest \/ SkipBeforeFirst \/ ConsumeFile \/ QueueStopped
    BY <1>5 DEF TakeOldest, SkipBeforeFirst, ConsumeFile, QueueStopped
  <1>6. CASE PollEvents \/ RequestSeek \/ HandleWindow \/ KeepFrame \/ NothingNew \/ TestEof
               \/ Present
    BY <1>1, <1>6 DEF PollEvents, RequestSeek, HandleWindow, KeepFrame, NothingNew, TestEof,
       Present, queue, display
  <1>7. CASE RenderFails \/ LeaveLoop \/ StopQueue \/ RequestStop \/ JoinAndRelease
    BY <1>7 DEF RenderFails, LeaveLoop, StopQueue, RequestStop, JoinAndRelease, InRenderLoop
  <1>. QED BY <1>2, <1>3, <1>4, <1>5, <1>6, <1>7 DEF RenderStep

(* The order is there initially and kept by every step. *)
LEMMA OrderInit ==
  Init => OrderInv
  <1>. SUFFICES ASSUME Init PROVE OrderInv
    OBVIOUS
  <1>1. /\ waiting = <<>> /\ Len(waiting) = 0 /\ reader = None /\ displayed = None
        /\ Held = None /\ Newest = None /\ Upcoming = 0
    BY DEF Init, Queue!ChannelInit, Held, Newest, Upcoming, HoldsFrame
  <1>2. ~seeking /\ ~seekRequested /\ renderPc # "seekStore"
    BY DEF Init
  <1>. QED BY <1>1, <1>2 DEF OrderInv, LiveChain, FileChain, FileContinues, FileStarts

LEMMA OrderStep ==
  ASSUME Passes > 2
  PROVE  PlaybackInv /\ OrderInv /\ [Next]_vars => OrderInv'
  <1>. SUFFICES ASSUME PlaybackInv, OrderInv, [Next]_vars, InRenderLoop' PROVE OrderInv'
    BY DEF OrderInv
  <1>1. CASE UNCHANGED vars
    <2>1. /\ UNCHANGED <<mode, waiting, reader, displayed, decoderPc, position, pass,
                         seekRequested, renderPc, seeking>>
      BY <1>1 DEF vars, queue, decoding, rendering, display, controls
    <2>2. Held' = Held /\ Newest' = Newest /\ FileChain' = FileChain
      BY <2>1, ChainUntouched
    <2>3. /\ InDecodeLoop' = InDecodeLoop /\ Upcoming' = Upcoming /\ LiveMode' = LiveMode
          /\ InRenderLoop' = InRenderLoop
      BY <2>1 DEF InDecodeLoop, Upcoming, HoldsFrame, LiveMode, InRenderLoop
    <2>4. LiveChain' = LiveChain
      BY <2>1, <2>2, <2>3 DEF LiveChain
    <2>5. FileContinues' = FileContinues
      BY <2>1, <2>2, <2>3 DEF FileContinues
    <2>6. FileStarts' = FileStarts
      BY <2>1, <2>3 DEF FileStarts
    <2>. QED BY <2>2, <2>3, <2>4, <2>5, <2>6 DEF OrderInv
  <1>2. CASE DecoderStep
    <2>1. UNCHANGED <<mode, renderPc>>
      BY <1>2 DEF DecoderStep, TopOfLoop, AcquireSlot, AcquireRefused, CheckSlot, ReadFrame,
         ReadEndOfFile, ReadFails, CheckSeek, CommitFrame, RecordError, StoreEof, StopAtEnd,
         rendering
    <2>2. InRenderLoop /\ LiveMode' = LiveMode
      BY <2>1 DEF InRenderLoop, LiveMode
    <2>. QED BY <1>2, <2>2, DecoderKeepsFileOrder, DecoderKeepsLiveOrder DEF OrderInv, FileOrder
  <1>3. CASE RenderStep
    <2>1. UNCHANGED mode /\ InRenderLoop
      BY <1>3 DEF RenderStep, PollEvents, DiscardForSeek, RequestSeek, HandleWindow, KeepFrame,
         TakeOldest, QueueStopped, SkipBeforeFirst, ConsumeFile, TakeNewest, NothingNew,
         TestEof, ConsumeLive, Present, RenderFails, LeaveLoop, StopQueue, RequestStop,
         JoinAndRelease, InRenderLoop
    <2>2. LiveMode' = LiveMode
      BY <2>1 DEF LiveMode
    <2>. QED BY <1>3, <2>1, <2>2, RenderKeepsFileOrder, RenderKeepsLiveOrder
           DEF OrderInv, FileOrder
  <1>. QED BY <1>1, <1>2, <1>3 DEF Next, Finished

(* Frames reach the display slot without a skip, a repetition or a change  *)
(* of order, and the first one shown, and shown again after Home, is the   *)
(* first one of the input, however the seek races with frames on their     *)
(* way; the numbering of the passes must only tell three of them apart.    *)
THEOREM FramesReachDisplayInOrder ==
  ASSUME Passes > 2
  PROVE  Spec => FramesInOrder
  <1> DEFINE Shows == displayed' \notin {None, displayed}
                       => IF displayed = None THEN LiveMode \/ displayed'.num = 0
                                              ELSE Follows(displayed, displayed')
  <1>1. PlaybackInv /\ OrderInv /\ [Next]_vars => [Shows]_vars
    <2>. SUFFICES ASSUME PlaybackInv, OrderInv, [Next]_vars, displayed' \notin {None, displayed}
                  PROVE  IF displayed = None THEN LiveMode \/ displayed'.num = 0
                                             ELSE Follows(displayed, displayed')
      OBVIOUS
    <2>1. ConsumeFile \/ ConsumeLive
      BY DEF Next, Finished, vars, DecoderStep, RenderStep, PollEvents, DiscardForSeek,
         RequestSeek, HandleWindow, KeepFrame, TakeOldest, QueueStopped, SkipBeforeFirst,
         TakeNewest, NothingNew, TestEof, Present, RenderFails, LeaveLoop,
         StopQueue, RequestStop, JoinAndRelease, rendering, display, TopOfLoop, AcquireSlot,
         AcquireRefused, CheckSlot, ReadFrame, ReadEndOfFile, ReadFails, CheckSeek,
         CommitFrame, RecordError, StoreEof, StopAtEnd
    <2>2. renderPc = "consume" /\ displayed' = reader /\ reader # None /\ InRenderLoop
      BY <2>1 DEF ConsumeFile, ConsumeLive, Queue!Release, InRenderLoop
    <2>3. CASE ConsumeLive
      <3>1. LiveMode /\ LiveChain
        BY <2>2, <2>3 DEF ConsumeLive, OrderInv
      <3>2. /\ reader \in Frame /\ displayed \in Frame \union {None}
            /\ \A f \in Frame : f.num \in Int
        BY <2>2, ChainTypes DEF PlaybackInv, TypeOK
      <3>. QED BY <2>2, <3>1, <3>2 DEF LiveChain, Follows
    <2>4. CASE ConsumeFile
      <3>1. ~LiveMode /\ ~BeforeFirst /\ FileChain /\ FileStarts
        BY <2>2, <2>4 DEF ConsumeFile, OrderInv
      <3>. QED BY <2>2, <3>1 DEF FileChain, FileStarts, BeforeFirst
    <2>. QED BY <2>1, <2>3, <2>4
  <1>2. PlaybackInv /\ OrderInv /\ [Next]_vars => OrderInv'
    BY OrderStep
  <1>. QED BY <1>1, <1>2, OrderInit, PlaybackInvariant, PTL DEF Spec, FramesInOrder

-------------------------------------------------------------------------------
(* The end of a file.  The decoder stops the queue when it meets the end   *)
(* of the input, and what is waiting then is never shown: as many frames   *)
(* as the pool holds, but for the slot the end was met with.               *)

(* The user may pause, step and zoom, but neither seeks nor closes.        *)
LeftAlone == mode = "file" /\ Gestures \intersect {"seek", "close"} = {}

(* How many frames were chosen for display, and the one being read. *)
Chosen  == IF current = None THEN 0 ELSE current.num + 1
Reading == IF reader = None THEN 0 ELSE 1

(* No frame is missing between the display and the decoder, or behind the  *)
(* last one when the decoder has met the end.                              *)
NoneMissing ==
  ~closed =>
    /\ \A i \in 1 .. Len(waiting) : waiting[i].num = Chosen + Reading + i - 1
    /\ InDecodeLoop => Upcoming = Chosen + Reading + Len(waiting)
    /\ decoderPc \in {"storeEof", "stopQueue"} =>
         \/ decoderError
         \/ Chosen + Reading + Len(waiting) = Length /\ Reading + Len(waiting) < Capacity

EndInv ==
  /\ shouldClose \/ ~InRenderLoop => closed \/ failed
  /\ outcome # "running" => renderPc = "done"
  /\ outcome = "ok" => ~failed

TailInv ==
  /\ ~seekRequested /\ ~seeking /\ renderPc \notin {"seek", "seekStore"}
  /\ reader # None => reader.num = Chosen
  /\ closed => failed \/ decoderError \/ Length < Chosen + Capacity
  /\ NoneMissing /\ EndInv

TailLossBounded == LeftAlone /\ outcome = "ok" => Length < Chosen + Capacity

LEMMA TailTypes ==
  ASSUME PlaybackInv
  PROVE  /\ Chosen \in Nat /\ Reading \in {0, 1} /\ Len(waiting) \in Nat
         /\ Length \in Nat /\ Capacity \in Nat /\ position \in Nat
         /\ waiting \in Seq(Frame)
         /\ \A i \in 1 .. Len(waiting) : waiting[i] \in Frame
         /\ waiting = <<>> <=> Len(waiting) = 0
         /\ reader \in Frame \union {None} /\ None \notin Frame
         /\ \A f \in Frame : f.num \in Nat
  <1>1. /\ current \in Frame \union {None} /\ reader \in Frame \union {None}
        /\ position \in 0 .. Length /\ waiting \in Seq(Frame) /\ TypeOK
    BY DEF PlaybackInv, TypeOK
  <1>2. Length \in Nat /\ Capacity \in Nat
    BY InputAssumption
  <1>3. \A f \in Frame : f.num \in Nat
    BY <1>2 DEF Frame
  <1>. QED BY <1>1, <1>2, <1>3, ChainTypes DEF Chosen, Reading

LEMMA DecoderKeepsTail ==
  ASSUME LeftAlone, PlaybackInv, TailInv, DecoderStep
  PROVE  TailInv'
  <1>t. /\ Chosen \in Nat /\ Reading \in {0, 1} /\ Len(waiting) \in Nat
        /\ Length \in Nat /\ Capacity \in Nat /\ position \in Nat
    BY TailTypes
  <1>m. ~LiveMode /\ ~Loop /\ ~seekRequested
    BY DEF LeftAlone, LiveMode, Loop, TailInv
  <1>r. UNCHANGED <<reader, rendering>>
    BY DEF DecoderStep, TopOfLoop, AcquireSlot, AcquireRefused, CheckSlot, ReadFrame,
       ReadEndOfFile, ReadFails, CheckSeek, CommitFrame, RecordError, StoreEof, StopAtEnd,
       SeekReader, queue, Queue!BeginWrite, Queue!RecycleOldest, Queue!Cancel, Queue!Write,
       Queue!Commit, Queue!Close
  <1>s. Chosen' = Chosen /\ Reading' = Reading
    BY <1>r DEF rendering, display, Chosen, Reading
  <1>e. /\ renderPc' = renderPc /\ seeking' = seeking /\ shouldClose' = shouldClose
        /\ failed' = failed /\ outcome' = outcome /\ InRenderLoop' = InRenderLoop
    BY <1>r DEF rendering, controls, run, InRenderLoop
  (* What is left to show of each kind of step. *)
  <1>k. ASSUME ~seekRequested', closed => closed', decoderError => decoderError', NoneMissing',
               closed' => closed \/ decoderError \/ Length < Chosen + Capacity
        PROVE  TailInv'
    <2>1. EndInv'
      BY <1>e, <1>k DEF TailInv, EndInv
    <2>. QED BY <1>e, <1>k, <1>r, <1>s, <2>1 DEF TailInv
  (* A step that commits nothing goes on, or leaves the decoder's loop. *)
  <1>w. ASSUME UNCHANGED <<waiting, closed, decoderError>>, ~seekRequested', InDecodeLoop,
               decoderPc' \in {"done", "error"} \/ (InDecodeLoop' /\ Upcoming' = Upcoming)
        PROVE  TailInv'
    <2>1. NoneMissing'
      BY <1>s, <1>w DEF TailInv, NoneMissing, InDecodeLoop
    <2>. QED BY <1>k, <1>w, <2>1
  <1>1. CASE TopOfLoop
    BY <1>1, <1>m, <1>w DEF TopOfLoop, queue, InDecodeLoop, Upcoming, HoldsFrame
  <1>2. CASE AcquireSlot
    BY <1>2, <1>m, <1>w DEF AcquireSlot, Queue!BeginWrite, InDecodeLoop, Upcoming, HoldsFrame
  <1>3. CASE AcquireRefused
    BY <1>3, <1>m, <1>w DEF AcquireRefused, queue, InDecodeLoop
  <1>4. CASE CheckSlot
    BY <1>4, <1>m, <1>w DEF CheckSlot, queue, Queue!Cancel, InDecodeLoop, Upcoming, HoldsFrame
  <1>5. CASE ReadFrame
    BY <1>5, <1>m, <1>t, <1>w DEF ReadFrame, Queue!Write, InDecodeLoop, Upcoming, HoldsFrame
  <1>6. CASE ReadEndOfFile
    <2>1. /\ decoderPc = "read" /\ position = Length /\ decoderPc' = "storeEof"
          /\ UNCHANGED <<waiting, closed, decoderError, seekRequested>>
      BY <1>6, <1>m DEF ReadEndOfFile, Queue!Cancel
    <2>2. Reading + Len(waiting) < Capacity
      <3>1. writer # None /\ Queue!InUse <= Capacity
        BY <2>1 DEF PlaybackInv, SidesInv
      <3>. QED BY <1>t, <3>1 DEF Queue!InUse, Reading
    <2>3. ~closed => Chosen + Reading + Len(waiting) = Length
      BY <2>1 DEF TailInv, NoneMissing, InDecodeLoop, Upcoming, HoldsFrame
    <2>4. NoneMissing'
      BY <1>s, <2>1, <2>2, <2>3 DEF TailInv, NoneMissing, InDecodeLoop
    <2>. QED BY <1>k, <1>m, <2>1, <2>4
  <1>7. CASE ReadFails
    BY <1>7, <1>m, <1>w DEF ReadFails, Queue!Cancel, InDecodeLoop
  <1>8. CASE CheckSeek
    BY <1>8, <1>m, <1>w DEF CheckSeek, queue, InDecodeLoop, Upcoming, HoldsFrame
  <1>9. CASE CommitFrame
    <2>1. /\ waiting' = Append(waiting, writer) /\ decoderPc = "commit" /\ decoderPc' = "top"
          /\ UNCHANGED <<position, closed, decoderError, seekRequested>>
          /\ writer = [num |-> position - 1, pass |-> pass] /\ writer \in Frame /\ position > 0
      BY <1>9 DEF CommitFrame, Queue!Commit, PlaybackInv, SidesInv, HoldsFrame
    <2>2. /\ Len(waiting') = Len(waiting) + 1 /\ waiting'[Len(waiting) + 1] = writer
          /\ \A i \in 1 .. Len(waiting) : waiting'[i] = waiting[i]
      BY <2>1, TailTypes, AppendProperties
    <2>3. ~closed => position - 1 = Chosen + Reading + Len(waiting)
      BY <2>1 DEF TailInv, NoneMissing, InDecodeLoop, Upcoming, HoldsFrame
    <2>4. ASSUME ~closed, NEW i \in 1 .. Len(waiting')
          PROVE  waiting'[i].num = Chosen + Reading + i - 1
      <3>1. CASE i = Len(waiting) + 1
        BY <1>t, <2>1, <2>2, <2>3, <2>4, <3>1
      <3>2. CASE i # Len(waiting) + 1
        <4>1. i \in 1 .. Len(waiting)
          BY <1>t, <2>2, <2>4, <3>2
        <4>. QED BY <2>2, <2>4, <4>1 DEF TailInv, NoneMissing
      <3>. QED BY <3>1, <3>2
    <2>5. NoneMissing'
      BY <1>s, <1>t, <2>1, <2>2, <2>3, <2>4 DEF NoneMissing, Upcoming, HoldsFrame
    <2>. QED BY <1>k, <1>m, <2>1, <2>5
  <1>10. CASE RecordError
    <2>1. /\ decoderError' /\ decoderPc' = "storeEof"
          /\ UNCHANGED <<waiting, closed, seekRequested>>
      BY <1>10 DEF RecordError, queue
    <2>2. NoneMissing'
      BY <1>s, <2>1 DEF TailInv, NoneMissing, InDecodeLoop
    <2>. QED BY <1>k, <1>m, <2>1, <2>2
  <1>11. CASE StoreEof
    <2>1. /\ decoderPc = "storeEof" /\ decoderPc' = "stopQueue"
          /\ UNCHANGED <<waiting, closed, decoderError, seekRequested>>
      BY <1>11 DEF StoreEof, queue
    <2>2. NoneMissing'
      BY <1>s, <2>1 DEF TailInv, NoneMissing, InDecodeLoop
    <2>. QED BY <1>k, <1>m, <2>1, <2>2
  <1>12. CASE StopAtEnd
    <2>1. /\ decoderPc = "stopQueue" /\ closed' /\ UNCHANGED <<decoderError, seekRequested>>
      BY <1>12 DEF StopAtEnd, Queue!Close
    <2>2. closed \/ decoderError \/ Length < Chosen + Capacity
      BY <1>t, <2>1 DEF TailInv, NoneMissing
    <2>. QED BY <1>k, <1>m, <2>1, <2>2 DEF NoneMissing
  <1>. QED BY <1>1, <1>2, <1>3, <1>4, <1>5, <1>6, <1>7, <1>8, <1>9, <1>10, <1>11, <1>12
         DEF DecoderStep

LEMMA RenderKeepsTail ==
  ASSUME LeftAlone, PlaybackInv, TailInv, RenderStep
  PROVE  TailInv'
  <1>t. /\ Chosen \in Nat /\ Reading \in {0, 1} /\ Len(waiting) \in Nat
        /\ Length \in Nat /\ Capacity \in Nat /\ position \in Nat
    BY TailTypes
  <1>m. ~LiveMode /\ ~DropLate /\ ~seekRequested /\ ~seeking
    BY DEF LeftAlone, LiveMode, DropLate, TailInv
  <1>r. /\ UNCHANGED decoding /\ Upcoming' = Upcoming /\ InDecodeLoop' = InDecodeLoop
        /\ decoderPc' = decoderPc /\ decoderError' = decoderError
    BY DEF RenderStep, PollEvents, DiscardForSeek, RequestSeek, HandleWindow, KeepFrame,
       TakeOldest, QueueStopped, SkipBeforeFirst, ConsumeFile, TakeNewest, NothingNew, TestEof,
       ConsumeLive, Present, RenderFails, LeaveLoop, StopQueue, RequestStop, JoinAndRelease,
       decoding, InDecodeLoop, Upcoming, HoldsFrame
  (* Most steps move no frame. *)
  <1>w. ASSUME UNCHANGED <<waiting, reader, current, closed, seekRequested>>, ~seeking',
               failed => failed', renderPc' \notin {"seek", "seekStore"}, EndInv'
        PROVE  TailInv'
    <2>1. Chosen' = Chosen /\ Reading' = Reading
      BY <1>w DEF Chosen, Reading
    <2>2. NoneMissing'
      BY <1>r, <1>w, <2>1 DEF TailInv, NoneMissing
    <2>. QED BY <1>m, <1>r, <1>w, <2>1, <2>2 DEF TailInv
  <1>1. CASE PollEvents
    <2>1. /\ UNCHANGED <<waiting, reader, current, closed, seekRequested, seeking, run>>
          /\ renderPc = "events"
      BY <1>1 DEF PollEvents, queue, display
    <2>2. renderPc' = "window"
      BY <1>1 DEF PollEvents, LeftAlone
    <2>3. EndInv'
      BY <2>1, <2>2 DEF run, TailInv, EndInv, InRenderLoop
    <2>. QED BY <1>m, <1>w, <2>1, <2>2, <2>3 DEF run
  <1>2. CASE HandleWindow
    <2>1. /\ UNCHANGED <<waiting, reader, current, closed, seekRequested, seeking, failed, outcome>>
          /\ renderPc = "window" /\ renderPc' \in {"stop", "acquire"}
          /\ renderPc' = "stop" => shouldClose'
      BY <1>2 DEF HandleWindow, queue, display
    <2>2. shouldClose' => shouldClose
      BY <1>2 DEF HandleWindow, LeftAlone, PlaybackInv, TypeOK
    <2>3. EndInv'
      BY <2>1, <2>2 DEF TailInv, EndInv, InRenderLoop
    <2>. QED BY <1>m, <1>w, <2>1, <2>3
  <1>3. CASE KeepFrame \/ Present \/ LeaveLoop \/ RequestStop
    <2>1. /\ UNCHANGED <<waiting, reader, current, closed, seekRequested, seeking, run>>
          /\ renderPc' \in {"events", "present", "stop", "join"}
          /\ renderPc' \in {"stop", "join"} => shouldClose \/ ~InRenderLoop
          /\ renderPc # "done"
      BY <1>3 DEF KeepFrame, Present, LeaveLoop, RequestStop, queue, display, controls,
         InRenderLoop
    <2>2. EndInv'
      BY <2>1 DEF run, TailInv, EndInv, InRenderLoop
    <2>. QED BY <1>m, <1>w, <2>1, <2>2 DEF run
  <1>4. CASE QueueStopped
    <2>1. /\ UNCHANGED <<waiting, reader, current, closed, seekRequested, seeking, failed, outcome>>
          /\ closed /\ renderPc = "acquire" /\ renderPc' = "events"
      BY <1>4 DEF QueueStopped, queue, display, controls
    <2>2. EndInv'
      BY <2>1 DEF TailInv, EndInv, InRenderLoop
    <2>. QED BY <1>m, <1>w, <2>1, <2>2
  <1>5. CASE RenderFails
    <2>1. /\ UNCHANGED <<waiting, reader, current, closed, seekRequested, seeking, outcome>>
          /\ failed' /\ renderPc = "present" /\ renderPc' = "stop"
      BY <1>5 DEF RenderFails, queue, display, controls
    <2>2. EndInv'
      BY <2>1 DEF TailInv, EndInv
    <2>. QED BY <1>m, <1>w, <2>1, <2>2
  <1>6. CASE TakeOldest
    <2>1. /\ waiting # <<>> /\ reader = None /\ reader' = Head(waiting)
          /\ waiting' = Tail(waiting) /\ renderPc = "acquire" /\ renderPc' = "consume"
          /\ UNCHANGED <<current, closed, seekRequested, seeking, run>>
      BY <1>6 DEF TakeOldest, Queue!ReadOldest, display, controls
    <2>2. ~closed
      BY <2>1 DEF PlaybackInv, StopInv
    <2>3. /\ Len(waiting) > 0 /\ Len(waiting') = Len(waiting) - 1 /\ reader' = waiting[1]
          /\ \A i \in 1 .. Len(waiting') : waiting'[i] = waiting[i + 1]
          /\ reader' # None
      BY <2>1, TailTypes, HeadTailProperties
    <2>4. Chosen' = Chosen /\ Reading = 0 /\ Reading' = 1
      BY <2>1, <2>3 DEF Chosen, Reading
    <2>5. reader'.num = Chosen
      BY <1>t, <2>2, <2>3, <2>4 DEF TailInv, NoneMissing
    <2>6. ASSUME NEW i \in 1 .. Len(waiting')
          PROVE  waiting'[i].num = Chosen + 1 + i - 1
      <3>1. i + 1 \in 1 .. Len(waiting)
        BY <1>t, <2>3
      <3>2. waiting[i + 1].num = Chosen + Reading + (i + 1) - 1
        BY <2>2, <3>1 DEF TailInv, NoneMissing
      <3>. QED BY <1>t, <2>3, <2>4, <3>2
    <2>7. Chosen + Reading + Len(waiting) = Chosen' + Reading' + Len(waiting')
          /\ Reading + Len(waiting) = Reading' + Len(waiting')
      BY <1>t, <2>3, <2>4
    <2>8. NoneMissing'
      BY <1>r, <2>1, <2>2, <2>4, <2>6, <2>7 DEF TailInv, NoneMissing
    <2>9. EndInv'
      BY <2>1 DEF run, TailInv, EndInv, InRenderLoop
    <2>. QED BY <1>m, <2>1, <2>2, <2>4, <2>5, <2>8, <2>9 DEF TailInv
  <1>7. CASE ConsumeFile
    <2>1. /\ reader # None /\ current' = reader /\ reader' = None
          /\ renderPc = "consume" /\ renderPc' = "present" /\ ~seeking'
          /\ UNCHANGED <<waiting, closed, seekRequested, run>>
      BY <1>7, <1>m DEF ConsumeFile, MayDrop, Queue!Release
    <2>2. Chosen' = Chosen + 1 /\ Reading = 1 /\ Reading' = 0
      BY <2>1 DEF TailInv, Chosen, Reading
    <2>3. Chosen' + Reading' = Chosen + Reading /\ Chosen < Chosen'
          /\ (Reading + Len(waiting) < Capacity => Reading' + Len(waiting) < Capacity)
      BY <1>t, <2>2
    <2>4. NoneMissing'
      BY <1>r, <2>1, <2>3 DEF TailInv, NoneMissing
    <2>5. EndInv'
      BY <2>1 DEF run, TailInv, EndInv, InRenderLoop
    <2>6. Length < Chosen + Capacity => Length < Chosen' + Capacity
      BY <1>t, <2>2
    <2>. QED BY <1>m, <1>r, <2>1, <2>4, <2>5, <2>6 DEF run, TailInv
  <1>8. CASE StopQueue
    <2>1. /\ closed' /\ renderPc = "stop" /\ renderPc' = "requestStop"
          /\ UNCHANGED <<reader, current, seekRequested, seeking, run>>
      BY <1>8 DEF StopQueue, Queue!Close, display, controls
    <2>2. closed \/ failed
      BY <2>1 DEF TailInv, EndInv, InRenderLoop
    <2>3. Chosen' = Chosen
      BY <2>1 DEF Chosen
    <2>4. EndInv'
      BY <2>1 DEF run, TailInv, EndInv, InRenderLoop
    <2>. QED BY <1>m, <1>r, <2>1, <2>2, <2>3, <2>4 DEF run, TailInv, NoneMissing
  <1>9. CASE JoinAndRelease
    <2>1. /\ UNCHANGED <<reader, current, closed, seekRequested, seeking, shouldClose, failed>>
          /\ renderPc = "join" /\ renderPc' = "done" /\ decoderPc = "done"
          /\ outcome' = "ok" => ~failed
          /\ waiting' = <<>> /\ Len(waiting') = 0
      BY <1>9 DEF JoinAndRelease, Queue!Discard, controls
    <2>2. Chosen' = Chosen
      BY <2>1 DEF Chosen
    <2>3. EndInv'
      BY <2>1 DEF TailInv, EndInv, InRenderLoop
    <2>4. NoneMissing'
      BY <1>r, <2>1 DEF NoneMissing, InDecodeLoop
    <2>. QED BY <1>m, <1>r, <2>1, <2>2, <2>3, <2>4 DEF TailInv
  <1>10. CASE DiscardForSeek \/ RequestSeek
    BY <1>10 DEF DiscardForSeek, RequestSeek, TailInv
  <1>11. CASE SkipBeforeFirst
    BY <1>11, <1>m DEF SkipBeforeFirst, BeforeFirst
  <1>12. CASE TakeNewest \/ NothingNew \/ TestEof \/ ConsumeLive
    BY <1>12, <1>m DEF TakeNewest, NothingNew, TestEof, ConsumeLive, PlaybackInv, SidesInv
  <1>. QED BY <1>1, <1>2, <1>3, <1>4, <1>5, <1>6, <1>7, <1>8, <1>9, <1>10, <1>11, <1>12
         DEF RenderStep

(* A file that is left alone is shown from its first frame to one of its   *)
(* last: fewer frames are missing at the end than the pool has slots.      *)
THEOREM TailLossIsBounded == Spec => []TailLossBounded
  <1>1. Init => (LeftAlone => TailInv)
    <2>. SUFFICES ASSUME Init PROVE TailInv
      OBVIOUS
    <2>1. waiting = <<>> /\ Len(waiting) = 0 /\ Chosen = 0 /\ Reading = 0 /\ position = 0
      BY DEF Init, Queue!ChannelInit, Chosen, Reading
    <2>. QED BY <2>1 DEF Init, Queue!ChannelInit, TailInv, NoneMissing, EndInv, InRenderLoop,
           InDecodeLoop, Upcoming, HoldsFrame
  <1>2. PlaybackInv /\ (LeftAlone => TailInv) /\ [Next]_vars => (LeftAlone => TailInv)'
    <2>. SUFFICES ASSUME PlaybackInv, LeftAlone => TailInv, [Next]_vars, LeftAlone'
                  PROVE  TailInv'
      OBVIOUS
    <2>1. LeftAlone /\ TailInv
      BY DEF LeftAlone, Next, DecoderStep, RenderStep, Finished, vars
    <2>2. CASE UNCHANGED vars
      BY <2>1, <2>2 DEF vars, queue, decoding, rendering, display, controls, run, TailInv,
         NoneMissing, EndInv, InRenderLoop, InDecodeLoop, Upcoming, HoldsFrame, Chosen, Reading
    <2>. QED BY <2>1, <2>2, DecoderKeepsTail, RenderKeepsTail DEF Next, Finished
  <1>3. PlaybackInv /\ ErrorReported /\ (LeftAlone => TailInv) => TailLossBounded
    <2>. SUFFICES ASSUME PlaybackInv, ErrorReported, TailInv, outcome = "ok"
                  PROVE  Length < Chosen + Capacity
      BY DEF TailLossBounded
    <2>. QED BY DEF ErrorReported, TailInv, EndInv, InRenderLoop
  <1>. QED BY <1>1, <1>2, <1>3, PlaybackInvariant, ErrorsAreReported, PTL DEF Spec

-------------------------------------------------------------------------------
(* The two threads wait for each other, never both, and never for one that *)
(* has ended.                                                              *)

(* Where acquireWrite and acquireWriteLatest block. *)
DecoderWaits ==
  /\ decoderPc = "acquire" /\ ~closed /\ ~(Queue!InUse < Capacity)
  /\ ~(LiveMode /\ waiting # <<>>)

(* Where acquireReadPreserveOrder and the join of the decoder thread do. *)
LoopWaits ==
  \/ renderPc = "acquire" /\ WantsFrame /\ ~LiveMode /\ waiting = <<>> /\ ~closed
  \/ renderPc = "join" /\ decoderPc # "done"

NeverBothWait == LoopWaits => ~DecoderWaits /\ decoderPc # "done"

(* A thread that ended has closed the queue, and so has a loop that left.  *)
ClosedInv ==
  decoderPc = "done" \/ renderPc \in {"requestStop", "join", "done"} => closed

(* While the render loop waits for a frame or for the decoder's end, the   *)
(* decoder has not ended and does not wait for a slot, through every       *)
(* gesture and failure, and at both exits.                                 *)
THEOREM ThreadsNeverBothWait == Spec => []NeverBothWait
  <1>1. Init => ClosedInv
    BY DEF Init, ClosedInv
  <1>2. PlaybackInv /\ ClosedInv /\ [Next]_vars => ClosedInv'
    <2>. SUFFICES ASSUME PlaybackInv, ClosedInv, [Next]_vars PROVE ClosedInv'
      OBVIOUS
    <2>1. stopRequested => closed
      BY DEF PlaybackInv, StopInv, ClosedInv
    <2>2. CASE DecoderStep
      <3>1. renderPc' = renderPc /\ (closed => closed') /\ (decoderPc' = "done" => closed')
        BY <2>1, <2>2 DEF DecoderStep, TopOfLoop, AcquireSlot, AcquireRefused, CheckSlot,
           ReadFrame, ReadEndOfFile, ReadFails, CheckSeek, CommitFrame, RecordError, StoreEof,
           StopAtEnd, SeekReader, queue, rendering, Queue!BeginWrite, Queue!RecycleOldest,
           Queue!Cancel, Queue!Write, Queue!Commit, Queue!Close
      <3>. QED BY <3>1 DEF ClosedInv
    <2>3. CASE RenderStep
      <3>1. /\ decoderPc' = decoderPc /\ (closed => closed')
            /\ renderPc' \in {"requestStop", "join", "done"}
                 => closed' \/ renderPc \in {"requestStop", "join", "done"}
        BY <2>3 DEF RenderStep, PollEvents, DiscardForSeek, RequestSeek, HandleWindow,
           KeepFrame, TakeOldest, QueueStopped, SkipBeforeFirst, ConsumeFile, TakeNewest,
           NothingNew, TestEof, ConsumeLive, Present, RenderFails, LeaveLoop, StopQueue,
           RequestStop, JoinAndRelease, decoding, queue, Queue!Discard, Queue!ReadOldest,
           Queue!ReadNewest, Queue!Release, Queue!Close
      <3>. QED BY <3>1 DEF ClosedInv
    <2>4. CASE UNCHANGED vars
      BY <2>4 DEF vars, queue, decoding, rendering, ClosedInv
    <2>. QED BY <2>2, <2>3, <2>4 DEF Next, Finished
  <1>3. PlaybackInv /\ ClosedInv => NeverBothWait
    <2>. SUFFICES ASSUME PlaybackInv, ClosedInv, LoopWaits
                  PROVE  ~DecoderWaits /\ decoderPc # "done"
      BY DEF NeverBothWait
    <2>1. CASE renderPc = "join" /\ decoderPc # "done"
      BY <2>1 DEF ClosedInv, DecoderWaits
    <2>2. CASE renderPc = "acquire" /\ waiting = <<>> /\ ~closed
      <3>1. decoderPc # "done"
        BY <2>2 DEF ClosedInv
      <3>2. ASSUME decoderPc = "acquire" PROVE Queue!InUse < Capacity
        <4>1. writer = None /\ reader = None
          BY <2>2, <3>2 DEF PlaybackInv, SidesInv
        <4>2. Len(waiting) = 0 /\ Capacity \in Nat \ {0}
          BY <2>2, InputAssumption
        <4>. QED BY <4>1, <4>2 DEF Queue!InUse
      <3>. QED BY <3>1, <3>2 DEF DecoderWaits
    <2>. QED BY <2>1, <2>2 DEF LoopWaits
  <1>. QED BY <1>1, <1>2, <1>3, PlaybackInvariant, PTL DEF Spec

-------------------------------------------------------------------------------
(* Who ends a run. *)

EndsWithInput ==
  "close" \notin Gestures /\ outcome = "ok" => ~Loop /\ position = Length

(* The decoder met the end of the input, or an error. *)
InputOver == decoderError \/ (~Loop /\ position = Length)

OverInv ==
  /\ decodeEof => decoderPc \in {"stopQueue", "done"}
  /\ decodeEof \/ decoderPc \in {"storeEof", "stopQueue"} => InputOver
  /\ shouldClose => decodeEof
  /\ ~InRenderLoop => failed \/ shouldClose
  /\ outcome # "running" => renderPc = "done"
  /\ outcome = "ok" => ~failed

(* If the user does not close the window, a run ends well only when the    *)
(* decoder had delivered the last frame of its pass, whatever was sought   *)
(* and stepped before, and never if the file is looped: neither a queue    *)
(* found empty nor one emptied by Home ends playback early.                *)
THEOREM RunsEndWithTheInput == Spec => []EndsWithInput
  <1>1. Init => OverInv
    BY DEF Init, OverInv, InRenderLoop
  <1>2. PlaybackInv /\ ("close" \notin Gestures => OverInv) /\ [Next]_vars
          => ("close" \notin Gestures => OverInv)'
    <2>. SUFFICES ASSUME PlaybackInv, OverInv, [Next]_vars, "close" \notin Gestures
                  PROVE  OverInv'
      OBVIOUS
    <2>1. CASE DecoderStep
      <3>1. UNCHANGED <<mode, rendering>>
        BY <2>1 DEF DecoderStep, TopOfLoop, AcquireSlot, AcquireRefused, CheckSlot, ReadFrame,
           ReadEndOfFile, ReadFails, CheckSeek, CommitFrame, RecordError, StoreEof, StopAtEnd,
           SeekReader, queue, Queue!BeginWrite, Queue!RecycleOldest, Queue!Cancel,
           Queue!Write, Queue!Commit, Queue!Close
      <3>2. UNCHANGED <<shouldClose, failed, outcome, renderPc>> /\ InRenderLoop' = InRenderLoop
            /\ Loop' = Loop
        BY <3>1 DEF rendering, run, InRenderLoop, Loop
      <3>3. CASE ReadEndOfFile
        BY <3>2, <3>3 DEF ReadEndOfFile, SeekReader, OverInv, InputOver
      <3>4. CASE RecordError
        BY <3>2, <3>4 DEF RecordError, OverInv, InputOver
      <3>5. CASE StoreEof
        BY <3>2, <3>5 DEF StoreEof, OverInv, InputOver
      <3>6. CASE StopAtEnd
        BY <3>2, <3>6 DEF StopAtEnd, OverInv, InputOver
      <3>7. CASE \/ TopOfLoop \/ AcquireSlot \/ AcquireRefused \/ CheckSlot \/ ReadFrame
                 \/ ReadFails \/ CheckSeek \/ CommitFrame
        <4>1. decodeEof' = decodeEof /\ decoderPc \notin {"storeEof", "stopQueue", "done"}
              /\ decoderPc' \notin {"storeEof", "stopQueue"}
          BY <3>7 DEF TopOfLoop, AcquireSlot, AcquireRefused, CheckSlot, ReadFrame, ReadFails,
             CheckSeek, CommitFrame, SeekReader
        <4>. QED BY <3>2, <4>1 DEF OverInv
      <3>. QED BY <2>1, <3>3, <3>4, <3>5, <3>6, <3>7 DEF DecoderStep
    <2>2. CASE RenderStep
      <3>1. UNCHANGED <<decoderPc, decodeEof, decoderError, position, mode>>
        BY <2>2 DEF RenderStep, PollEvents, DiscardForSeek, RequestSeek, HandleWindow,
           KeepFrame, TakeOldest, QueueStopped, SkipBeforeFirst, ConsumeFile, TakeNewest,
           NothingNew, TestEof, ConsumeLive, Present, RenderFails, LeaveLoop, StopQueue,
           RequestStop, JoinAndRelease, decoding
      <3>2. InputOver' = InputOver
        BY <3>1 DEF InputOver, Loop
      <3>3. "close" \notin events
        BY DEF PlaybackInv, TypeOK
      <3>4. shouldClose' => decodeEof
        BY <2>2, <3>3 DEF RenderStep, PollEvents, DiscardForSeek, RequestSeek, HandleWindow,
           KeepFrame, TakeOldest, QueueStopped, SkipBeforeFirst, ConsumeFile, TakeNewest,
           NothingNew, TestEof, ConsumeLive, Present, RenderFails, LeaveLoop, StopQueue,
           RequestStop, JoinAndRelease, run, OverInv
      <3>5. /\ ~InRenderLoop' => failed' \/ shouldClose'
            /\ outcome' # "running" => renderPc' = "done"
            /\ outcome' = "ok" => ~failed'
        BY <2>2 DEF RenderStep, PollEvents, DiscardForSeek, RequestSeek, HandleWindow,
           KeepFrame, TakeOldest, QueueStopped, SkipBeforeFirst, ConsumeFile, TakeNewest,
           NothingNew, TestEof, ConsumeLive, Present, RenderFails, LeaveLoop, StopQueue,
           RequestStop, JoinAndRelease, run, OverInv, InRenderLoop
      <3>. QED BY <3>1, <3>2, <3>4, <3>5 DEF OverInv
    <2>3. CASE UNCHANGED vars
      BY <2>3 DEF vars, decoding, rendering, run, OverInv, InputOver, Loop, InRenderLoop
    <2>. QED BY <2>1, <2>2, <2>3 DEF Next, Finished
  <1>3. PlaybackInv /\ ErrorReported /\ ("close" \notin Gestures => OverInv) => EndsWithInput
    <2>. SUFFICES ASSUME ErrorReported, OverInv, outcome = "ok"
                  PROVE  ~Loop /\ position = Length
      BY DEF EndsWithInput
    <2>. QED BY DEF ErrorReported, OverInv, InRenderLoop, InputOver
  <1>. QED BY <1>1, <1>2, <1>3, PlaybackInvariant, ErrorsAreReported, PTL DEF Spec
===============================================================================
