------------------------------- MODULE Playback -------------------------------
(***************************************************************************)
(* app/Application.cpp, runApplication: the decoder thread and the render  *)
(* loop on the two sides of the frame queue, from the moment both exist to *)
(* the moment the run ends.                                                *)
(*                                                                         *)
(* The queue is the channel of FrameChannel, which FrameQueue implements:  *)
(* a call that would block is an action that is not enabled.  Everything   *)
(* else the threads share is an atomic flag, and each access another       *)
(* thread can tell apart is a step of its own.                             *)
(*                                                                         *)
(* A frame is its number in the input and the pass that produced it: a     *)
(* pass begins at each seek to the beginning.  Time is abstract: the clock *)
(* is known by the pass it was started in and by whether it is paused.     *)
(***************************************************************************)
EXTENDS Integers, Sequences, FiniteSets

CONSTANTS
  Modes,        \* the sources and options to consider
  Capacity,     \* decodeSlots
  Length,       \* the frames of the input
  Passes,       \* bound: pass numbers are counted modulo Passes
  Gestures,     \* what the user may do
  MaxGestures,  \* bound: how often the user does something
  Failures,     \* what may throw: a subset of {"decode", "render"}
  None,         \* no frame, no clock
  Empty         \* an acquired slot nothing was decoded into

ASSUME InputAssumption ==
  /\ Modes \subseteq {"file", "fileLoop", "fileDropLate", "fileLoopDropLate", "live"}
  /\ {Capacity, Length, Passes} \subseteq Nat \ {0}
  /\ MaxGestures \in Nat
  /\ Gestures \subseteq {"pause", "step", "seek", "zoom", "close"}
  /\ Failures \subseteq {"decode", "render"}

VARIABLES
  mode,           \* the source and the options this run was started with
  waiting, writer, reader, closed,      \* the frame queue
  decoderPc,      \* where the decoder thread is
  position,       \* the number of the frame the reader decodes next
  pass,           \* the pass it belongs to
  seekRequested,  \* shared flags
  decodeEof,
  decoderError,
  stopRequested,  \* the stop token of the decoder thread
  renderPc,       \* where the render loop is
  events,         \* the gestures of this iteration still to be handled
  gesturesLeft,
  current,        \* metadata of the frame last chosen for display
  displayed,      \* the frame in the display slot
  paused, step, seeking, zoomInspector,
  clockPass,      \* firstPts_: the pass the clock was started in, or None
  clockPaused,    \* pauseStarted_ has a value
  shouldClose,
  failed,         \* the render loop left through its catch block
  outcome         \* how runApplication ended

queue      == <<waiting, writer, reader, closed>>
decoding   == <<decoderPc, position, pass, decodeEof, decoderError>>
clock      == <<clockPass, clockPaused>>
display    == <<current, displayed>>
controls   == <<paused, step, seeking, zoomInspector>>
run        == <<shouldClose, failed, outcome>>
rendering  == <<renderPc, events, gesturesLeft, display, controls, clock, run>>
vars       == <<mode, queue, decoding, seekRequested, stopRequested, rendering>>

(* The playback policy of the source, --loop and --drop-late-frames.       *)
LiveMode == mode = "live"
Loop     == mode \in {"fileLoop", "fileLoopDropLate"}
DropLate == mode \in {"fileDropLate", "fileLoopDropLate"}

Frame == [num : 0 .. Length - 1, pass : 0 .. Passes - 1]

(* The two marks are told apart from each other, from frames and passes.   *)
ASSUME MarkAssumption ==
  None # Empty /\ {None, Empty} \cap Frame = {} /\ None \notin 0 .. Passes - 1

Queue == INSTANCE FrameChannel WITH
  Frames <- Frame, NoSlot <- None, EmptySlot <- Empty

Init ==
  /\ mode \in Modes
  /\ Queue!ChannelInit
  /\ decoderPc = "top" /\ position = 0 /\ pass = 0
  /\ seekRequested = FALSE /\ decodeEof = FALSE /\ decoderError = FALSE
  /\ stopRequested = FALSE
  /\ renderPc = "events" /\ events = {} /\ gesturesLeft = MaxGestures
  /\ current = None /\ displayed = None
  /\ paused = FALSE /\ step = FALSE /\ seeking = FALSE /\ zoomInspector = FALSE
  /\ clockPass = None /\ clockPaused = FALSE
  /\ shouldClose = FALSE /\ failed = FALSE /\ outcome = "running"

-------------------------------------------------------------------------------
(* The decoder thread. *)

(* reader.seekToBeginning: ignored for a live input; it may throw.         *)
SeekReader(next) ==
  \/ /\ ~LiveMode
     /\ position' = 0 /\ pass' = (pass + 1) % Passes
     /\ decoderPc' = next
  \/ LiveMode /\ decoderPc' = next /\ UNCHANGED <<position, pass>>
  \/ /\ ~LiveMode /\ "decode" \in Failures
     /\ decoderPc' = "error" /\ UNCHANGED <<position, pass>>

TopOfLoop ==
  /\ decoderPc = "top"
  /\ \/ /\ stopRequested
        /\ decoderPc' = "done"
        /\ UNCHANGED <<position, pass, seekRequested>>
     \/ /\ ~stopRequested /\ seekRequested
        /\ seekRequested' = FALSE
        /\ SeekReader("acquire")
     \/ /\ ~stopRequested /\ ~seekRequested
        /\ decoderPc' = "acquire"
        /\ UNCHANGED <<position, pass, seekRequested>>
  /\ UNCHANGED <<queue, decodeEof, decoderError, stopRequested, rendering>>

(* acquireWriteLatest for a live input, acquireWrite for a file. *)
AcquireSlot ==
  /\ decoderPc = "acquire"
  /\ Queue!BeginWrite \/ (LiveMode /\ Queue!RecycleOldest)
  /\ decoderPc' = "check"
  /\ UNCHANGED <<position, pass, decodeEof, decoderError, seekRequested,
                 stopRequested, rendering>>

AcquireRefused ==
  /\ decoderPc = "acquire" /\ closed
  /\ decoderPc' = "done"
  /\ UNCHANGED <<queue, position, pass, decodeEof, decoderError, seekRequested,
                 stopRequested, rendering>>

CheckSlot ==
  /\ decoderPc = "check"
  /\ \/ /\ stopRequested
        /\ Queue!Cancel
        /\ decoderPc' = "done"
        /\ UNCHANGED <<position, pass, seekRequested>>
     \/ /\ ~stopRequested /\ seekRequested
        /\ seekRequested' = FALSE
        /\ Queue!Cancel
        /\ SeekReader("top")
     \/ /\ ~stopRequested /\ ~seekRequested
        /\ decoderPc' = "read"
        /\ UNCHANGED <<queue, position, pass, seekRequested>>
  /\ UNCHANGED <<decodeEof, decoderError, stopRequested, rendering>>

(* Slip: one frame more than the input has. *)
ReadPastEnd ==
  /\ decoderPc = "read" /\ position <= Length
  /\ Queue!Write([num |-> position, pass |-> pass])
  /\ position' = position + 1
  /\ decoderPc' = "checkSeek"
  /\ UNCHANGED <<pass, decodeEof, decoderError, seekRequested, stopRequested,
                 rendering>>

ReadFrame ==
  /\ decoderPc = "read" /\ position < Length
  /\ Queue!Write([num |-> position, pass |-> pass])
  /\ position' = position + 1
  /\ decoderPc' = "checkSeek"
  /\ UNCHANGED <<pass, decodeEof, decoderError, seekRequested, stopRequested,
                 rendering>>

(* Slip: the end of the input is the end of the run although it loops. *)
ReadEndIgnoresLoop ==
  /\ decoderPc = "read" /\ position = Length
  /\ Queue!Cancel
  /\ decoderPc' = "storeEof"
  /\ UNCHANGED <<position, pass, decodeEof, decoderError, seekRequested,
                 stopRequested, rendering>>

ReadEndOfFile ==
  /\ decoderPc = "read" /\ position = Length
  /\ Queue!Cancel
  /\ IF Loop THEN SeekReader("top")
             ELSE decoderPc' = "storeEof" /\ UNCHANGED <<position, pass>>
  /\ UNCHANGED <<decodeEof, decoderError, seekRequested, stopRequested, rendering>>

ReadFails ==
  /\ decoderPc = "read" /\ "decode" \in Failures
  /\ Queue!Cancel
  /\ decoderPc' = "error"
  /\ UNCHANGED <<position, pass, decodeEof, decoderError, seekRequested,
                 stopRequested, rendering>>

(* A seek requested while the frame was decoded makes it worthless. *)
CheckSeek ==
  /\ decoderPc = "checkSeek"
  /\ \/ seekRequested /\ Queue!Cancel /\ decoderPc' = "top"
     \/ ~seekRequested /\ decoderPc' = "commit" /\ UNCHANGED queue
  /\ UNCHANGED <<position, pass, decodeEof, decoderError, seekRequested,
                 stopRequested, rendering>>

CommitFrame ==
  /\ decoderPc = "commit"
  /\ Queue!Commit
  /\ decoderPc' = "top"
  /\ UNCHANGED <<position, pass, decodeEof, decoderError, seekRequested,
                 stopRequested, rendering>>

RecordError ==
  /\ decoderPc = "error"
  /\ decoderError' = TRUE
  /\ decoderPc' = "storeEof"
  /\ UNCHANGED <<queue, position, pass, decodeEof, seekRequested, stopRequested,
                 rendering>>

StoreEof ==
  /\ decoderPc = "storeEof"
  /\ decodeEof' = TRUE
  /\ decoderPc' = "stopQueue"
  /\ UNCHANGED <<queue, position, pass, decoderError, seekRequested,
                 stopRequested, rendering>>

(* Slip: the decoder ends without stopping the queue. *)
EndWithoutStop ==
  /\ decoderPc = "stopQueue"
  /\ decoderPc' = "done"
  /\ UNCHANGED <<queue, position, pass, decodeEof, decoderError, seekRequested,
                 stopRequested, rendering>>

StopAtEnd ==
  /\ decoderPc = "stopQueue"
  /\ Queue!Close
  /\ decoderPc' = "done"
  /\ UNCHANGED <<position, pass, decodeEof, decoderError, seekRequested,
                 stopRequested, rendering>>

DecoderStep ==
  /\ \/ TopOfLoop \/ AcquireSlot \/ AcquireRefused \/ CheckSlot
     \/ ReadFrame \/ ReadEndOfFile \/ ReadFails \/ CheckSeek \/ CommitFrame
     \/ RecordError \/ StoreEof \/ StopAtEnd
  /\ UNCHANGED mode

-------------------------------------------------------------------------------
(* The render loop. *)

PauseClock  == clockPaused' = (clockPass # None)
ResumeClock == clockPaused' = FALSE

PollEvents ==
  /\ renderPc = "events" /\ ~shouldClose
  /\ \E polled \in SUBSET Gestures :
       /\ Cardinality(polled) <= gesturesLeft
       /\ gesturesLeft' = gesturesLeft - Cardinality(polled)
       /\ events' = polled
       /\ paused' = IF "pause" \in polled THEN ~paused ELSE paused
       /\ IF "pause" \in polled /\ ~LiveMode
            THEN IF paused' THEN PauseClock ELSE ResumeClock
            ELSE UNCHANGED clockPaused
       /\ step' = (step \/ ("step" \in polled /\ paused' /\ ~zoomInspector))
       /\ renderPc' = IF "seek" \in polled THEN "seek" ELSE "window"
  /\ UNCHANGED <<queue, decoding, seekRequested, stopRequested, display, seeking,
                 zoomInspector, clockPass, run>>

(* Home: the display and the queue are emptied first... *)
DiscardForSeek ==
  /\ renderPc = "seek"
  /\ current' = None /\ displayed' = None
  /\ Queue!Discard
  /\ IF LiveMode THEN seeking' = FALSE /\ step' = FALSE /\ renderPc' = "window"
                 ELSE renderPc' = "seekStore" /\ UNCHANGED <<seeking, step>>
  /\ UNCHANGED <<decoding, seekRequested, stopRequested, events, gesturesLeft,
                 paused, zoomInspector, clock, run>>

(* ...and only then is the decoder told to seek. *)
RequestSeek ==
  /\ renderPc = "seekStore"
  /\ seekRequested' = TRUE
  /\ clockPass' = None /\ clockPaused' = FALSE
  /\ seeking' = TRUE
  /\ step' = paused
  /\ renderPc' = "window"
  /\ UNCHANGED <<queue, decoding, stopRequested, events, gesturesLeft, display,
                 paused, zoomInspector, run>>

(* The gestures the loop looks at after the seek, and its test for closing. *)
HandleWindow ==
  /\ renderPc = "window"
  /\ zoomInspector' = IF "zoom" \in events THEN ~zoomInspector ELSE zoomInspector
  /\ IF "zoom" \in events /\ zoomInspector' /\ ~paused
       THEN /\ paused' = TRUE
            /\ IF LiveMode THEN UNCHANGED clockPaused ELSE PauseClock
       ELSE UNCHANGED <<paused, clockPaused>>
  /\ shouldClose' = (shouldClose \/ "close" \in events)
  /\ events' = {}
  /\ renderPc' = IF shouldClose' THEN "stop" ELSE "acquire"
  /\ UNCHANGED <<queue, decoding, seekRequested, stopRequested, gesturesLeft,
                 display, step, seeking, clockPass, failed, outcome>>

WantsFrame == ~paused \/ step \/ seeking

(* Without a new frame the one already chosen, if any, is presented again. *)
KeepFrame ==
  /\ renderPc = "acquire" /\ ~WantsFrame
  /\ renderPc' = IF current = None THEN "events" ELSE "present"
  /\ UNCHANGED <<queue, decoding, seekRequested, stopRequested, events,
                 gesturesLeft, display, controls, clock, run>>

(* Slip: a file is read with the policy of a live source. *)
TakeNewestOfFile ==
  /\ renderPc = "acquire" /\ WantsFrame /\ ~LiveMode
  /\ Queue!ReadNewest
  /\ renderPc' = "consume"
  /\ UNCHANGED <<decoding, seekRequested, stopRequested, events, gesturesLeft,
                 display, controls, clock, run>>

TakeOldest ==
  /\ renderPc = "acquire" /\ WantsFrame /\ ~LiveMode
  /\ Queue!ReadOldest
  /\ renderPc' = "consume"
  /\ UNCHANGED <<decoding, seekRequested, stopRequested, events, gesturesLeft,
                 display, controls, clock, run>>

(* A stopped queue ends the run if it is the decoder that stopped it. *)
QueueStopped ==
  /\ renderPc = "acquire" /\ WantsFrame /\ ~LiveMode
  /\ closed /\ waiting = <<>>
  /\ shouldClose' = decodeEof
  /\ renderPc' = "events"
  /\ UNCHANGED <<queue, decoding, seekRequested, stopRequested, events,
                 gesturesLeft, display, controls, clock, failed, outcome>>

TakeNewest ==
  /\ renderPc = "acquire" /\ WantsFrame /\ LiveMode
  /\ Queue!ReadNewest
  /\ renderPc' = "consume"
  /\ UNCHANGED <<decoding, seekRequested, stopRequested, events, gesturesLeft,
                 display, controls, clock, run>>

NothingNew ==
  /\ renderPc = "acquire" /\ WantsFrame /\ LiveMode
  /\ waiting = <<>>
  /\ renderPc' = "nothingNew"
  /\ UNCHANGED <<queue, decoding, seekRequested, stopRequested, events,
                 gesturesLeft, display, controls, clock, run>>

(* Slip: the end of the stream is not looked at. *)
TestEofIgnored ==
  /\ renderPc = "nothingNew"
  /\ seeking' = FALSE /\ step' = FALSE
  /\ renderPc' = IF current = None THEN "events" ELSE "present"
  /\ UNCHANGED <<queue, decoding, seekRequested, stopRequested, events,
                 gesturesLeft, display, paused, zoomInspector, clock, run>>

(* decodeEof is read after the queue was found empty. *)
TestEof ==
  /\ renderPc = "nothingNew"
  /\ shouldClose' = (current = None /\ decodeEof)
  /\ seeking' = FALSE /\ step' = FALSE
  /\ renderPc' = IF current = None THEN "events" ELSE "present"
  /\ UNCHANGED <<queue, decoding, seekRequested, stopRequested, events,
                 gesturesLeft, display, paused, zoomInspector, clock, failed,
                 outcome>>

ConsumeLive ==
  /\ renderPc = "consume" /\ LiveMode
  /\ displayed' = reader /\ current' = reader
  /\ Queue!Release
  /\ seeking' = FALSE /\ step' = FALSE
  /\ renderPc' = "present"
  /\ UNCHANGED <<decoding, seekRequested, stopRequested, events, gesturesLeft,
                 paused, zoomInspector, clock, run>>

(* After Home, frames of the old position are skipped. *)
BeforeFirst == seeking /\ reader.num # 0

SkipBeforeFirst ==
  /\ renderPc = "consume" /\ ~LiveMode
  /\ BeforeFirst
  /\ Queue!Release
  /\ renderPc' = "events"
  /\ UNCHANGED <<decoding, seekRequested, stopRequested, events, gesturesLeft,
                 display, controls, clock, run>>

(* Slip: a loop boundary is not noticed. *)
NoBoundary == FALSE

LoopBoundary == current # None /\ reader.num < current.num

(* The clock is reset at a loop boundary, started when it is not running,  *)
(* and while paused started afresh and paused for every frame stepped to.  *)
PaceFrame ==
  LET restarts == paused \/ LoopBoundary \/ clockPass = None IN
    /\ clockPass' = IF restarts THEN reader.pass ELSE clockPass
    /\ clockPaused' = IF restarts THEN paused ELSE clockPaused

(* A frame more than 100 ms late may be dropped. *)
MayDrop == DropLate /\ ~paused

ConsumeFile ==
  /\ renderPc = "consume" /\ ~LiveMode
  /\ ~BeforeFirst
  /\ displayed' = reader
  /\ Queue!Release
  /\ seeking' = FALSE
  /\ PaceFrame
  /\ \/ /\ MayDrop
        /\ renderPc' = "events"
        /\ UNCHANGED <<current, step>>
     \/ /\ current' = reader
        /\ step' = FALSE
        /\ renderPc' = "present"
  /\ UNCHANGED <<decoding, seekRequested, stopRequested, events, gesturesLeft,
                 paused, zoomInspector, run>>

(* Presents, or skips the presentation when the window has no extent or no *)
(* swapchain image could be acquired.                                      *)
Present ==
  /\ renderPc = "present"
  /\ renderPc' = "events"
  /\ UNCHANGED <<queue, decoding, seekRequested, stopRequested, events,
                 gesturesLeft, display, controls, clock, run>>

(* Whatever calls Vulkan may throw.  The calls before that throw only for  *)
(* what cannot be: a queue in disagreement, a frame without its lease.     *)
RenderFails ==
  /\ renderPc = "present" /\ "render" \in Failures
  /\ failed' = TRUE
  /\ renderPc' = "stop"
  /\ UNCHANGED <<queue, decoding, seekRequested, stopRequested, events,
                 gesturesLeft, display, controls, clock, shouldClose, outcome>>

LeaveLoop ==
  /\ renderPc = "events" /\ shouldClose
  /\ renderPc' = "stop"
  /\ UNCHANGED <<queue, decoding, seekRequested, stopRequested, events,
                 gesturesLeft, display, controls, clock, run>>

(* The two exits, normal and through the catch block, do the same.         *)
StopQueue ==
  /\ renderPc = "stop"
  /\ Queue!Close
  /\ renderPc' = "requestStop"
  /\ UNCHANGED <<decoding, seekRequested, stopRequested, events, gesturesLeft,
                 display, controls, clock, run>>

RequestStop ==
  /\ renderPc = "requestStop"
  /\ stopRequested' = TRUE
  /\ renderPc' = "join"
  /\ UNCHANGED <<queue, decoding, seekRequested, events, gesturesLeft, display,
                 controls, clock, run>>

(* Slip: the run returns without waiting for the decoder thread. *)
ReleaseWithoutJoin ==
  /\ renderPc = "join"
  /\ displayed' = None
  /\ Queue!Discard
  /\ outcome' = IF failed THEN "renderError"
                ELSE IF decoderError THEN "decoderError" ELSE "ok"
  /\ renderPc' = "done"
  /\ UNCHANGED <<decoding, seekRequested, stopRequested, events, gesturesLeft,
                 current, controls, clock, shouldClose, failed>>

JoinAndRelease ==
  /\ renderPc = "join" /\ decoderPc = "done"
  /\ displayed' = None
  /\ Queue!Discard
  /\ outcome' = IF failed THEN "renderError"
                ELSE IF decoderError THEN "decoderError" ELSE "ok"
  /\ renderPc' = "done"
  /\ UNCHANGED <<decoding, seekRequested, stopRequested, events, gesturesLeft,
                 current, controls, clock, shouldClose, failed>>

RenderStep ==
  /\ \/ PollEvents \/ DiscardForSeek \/ RequestSeek \/ HandleWindow
     \/ KeepFrame \/ TakeOldest \/ QueueStopped \/ SkipBeforeFirst \/ ConsumeFile
     \/ TakeNewest \/ NothingNew \/ TestEof \/ ConsumeLive
     \/ Present \/ RenderFails
     \/ LeaveLoop \/ StopQueue \/ RequestStop \/ JoinAndRelease
  /\ UNCHANGED mode

Finished == renderPc = "done" /\ UNCHANGED vars

Next == DecoderStep \/ RenderStep \/ Finished

Spec == Init /\ [][Next]_vars

(* Both threads are scheduled.  For a live input, fairness of the decoder  *)
(* also says that the source keeps sending or closes its pipe.             *)
FairSpec == Spec /\ WF_vars(DecoderStep) /\ WF_vars(RenderStep)
-------------------------------------------------------------------------------
(* Every variable has its type. *)
TypeOK ==
  /\ mode \in Modes
  /\ waiting \in Seq(Frame) /\ Len(waiting) <= Capacity
  /\ writer \in Frame \union {None, Empty} /\ reader \in Frame \union {None}
  /\ decoderPc \in {"top", "acquire", "check", "read", "checkSeek", "commit",
                    "error", "storeEof", "stopQueue", "done"}
  /\ position \in 0 .. Length /\ pass \in 0 .. Passes - 1
  /\ {closed, seekRequested, decodeEof, decoderError, stopRequested} \subseteq BOOLEAN
  /\ renderPc \in {"events", "seek", "seekStore", "window", "acquire", "consume",
                   "nothingNew", "present", "stop", "requestStop", "join", "done"}
  /\ events \subseteq Gestures /\ gesturesLeft \in 0 .. MaxGestures
  /\ {current, displayed} \subseteq Frame \union {None}
  /\ {paused, step, seeking, zoomInspector} \subseteq BOOLEAN
  /\ clockPass \in 0 .. Passes - 1 \union {None}
  /\ {clockPaused, shouldClose, failed} \subseteq BOOLEAN
  /\ outcome \in {"running", "ok", "decoderError", "renderError"}

(* No decoder error is lost: a run that ends well had none. *)
ErrorReported == outcome = "ok" => ~decoderError

(* Frame g may be shown next after frame f: the next one of its pass, or   *)
(* the first one of another pass; a live picture only has to be newer.     *)
Follows(f, g) ==
  IF LiveMode THEN g.num > f.num
  ELSE \/ g.pass = f.pass /\ g.num = f.num + 1
       \/ g.pass # f.pass /\ g.num = 0

(* Through pauses, steps, loops and seeks that race with frames already on *)
(* their way, frames reach the display slot without a skip, a repetition   *)
(* or a change of order, starting, and starting again after Home, with     *)
(* frame 0.                                                                *)
FramesInOrder ==
  [][displayed' \notin {None, displayed}
       => IF displayed = None THEN LiveMode \/ displayed'.num = 0
                              ELSE Follows(displayed, displayed')]_vars

(* Playback goes back to an earlier frame.                                 *)
GoesBack == /\ displayed # None /\ displayed' # None
            /\ displayed'.num < displayed.num

(* Frames are paced by a clock of their own pass: when playback goes back  *)
(* to an earlier frame, the clock is started afresh from it, as long as    *)
(* late frames are not dropped.                                            *)
LoopRestartsClock ==
  [][GoesBack /\ ~LiveMode => clockPass' = displayed'.pass \/ DropLate]_vars

(* Once the window is to be closed, both threads end and the run returns;   *)
(* and a live stream that ended before a picture was shown closes it.      *)
RunEnds ==
  /\ shouldClose ~> renderPc = "done"
  /\ LiveMode /\ decodeEof /\ current = None ~> shouldClose \/ current # None \/ paused \/ failed

(* Home is answered, paused or not: the first frame is shown or the run    *)
(* ends.                                                                   *)
SeekCompletes == seeking ~> ~seeking \/ renderPc = "done"

(* A file is played to its end, and a looped one starts again and again,   *)
(* unless the user closes the window or leaves it paused or something      *)
(* fails: the two threads never end up waiting for each other.             *)
PlaysOn ==
  /\ ~LiveMode /\ ~Loop => <>(renderPc = "done") \/ <>[]paused
  /\ Loop =>
       \/ /\ []<>(current # None /\ current.num = 0)
          /\ []<>(current # None /\ current.num # 0)
       \/ <>[]paused
       \/ <>("close" \in events \/ failed \/ decoderError)

-------------------------------------------------------------------------------
(* Left alone, playback of a file shows every frame, the last one included. *)
TailIsShown ==
  outcome = "ok" /\ Gestures = {} /\ mode = "file" => current # None /\ current.num = Length - 1

(* Home restarts playback, wherever it is. *)
HomeRestarts == seekRequested ~> current # None /\ current.num = 0
===============================================================================
