-------------------------------- MODULE Viewer ---------------------------------
(***************************************************************************)
(* The render loop of app/Application in time: the playback clock, pausing,*)
(* stepping, Home and loop boundaries, the window with its fullscreen      *)
(* switch, and the telemetry the loop keeps of what it presents.           *)
(*                                                                         *)
(* The queue hands over the frames of the input in order, as Playback      *)
(* shows; here it may do so at any time.  Frame n of a file has the        *)
(* timestamp n * Period.  Time passes in ticks between any two steps of    *)
(* the loop: in its sleeps, in the driver, in the decoder.                 *)
(***************************************************************************)
EXTENDS Integers, Sequences, FiniteSets, Metrics, PresentationGeometry

CONSTANTS
  Scenarios,   \* what a run has: time, gestures, sizes of the window...
  Period,      \* ticks from one timestamp to the next
  Length,      \* the frames of the file
  TooLate,     \* lateness beyond which --drop-late-frames drops, in ticks
  SampleEvery, \* ticks between two samples of the rates
  RateWindow,  \* ticks the rolling rate covers
  History,     \* intervals a history holds
  Monitor,     \* the size of the monitor
  None         \* an unset optional

ASSUME NoneAssumption == None \notin Int
ASSUME HistoryAssumption == History \in Nat \ {0}

Minimised == <<0, 0>>

ASSUME SizesAssumption ==
  /\ Monitor \in Size
  /\ \A s \in Scenarios : /\ s.content \in Size /\ s.fullscreen \in BOOLEAN
                          /\ s.sizes \subseteq Size
                          /\ s.resizes \subseteq Size \union {Minimised}
                          /\ s.presentation \in PresentationModes \union {"auto"}

VARIABLES
  scenario,
  now,
  events,             \* the gestures of this turn still to be handled
  pc,                 \* where the loop is
  paused, step, seeking, zoomInspector,
  upcoming,           \* the frame the queue hands over next
  chosen,             \* the frame the loop waits to present
  acquiredNewFrame,
  current,            \* the frame last chosen for display
  firstPts, wallStart, pauseStarted,     \* PlaybackClock
  lastActivePresent,
  intervals,          \* presentSubmissionIntervalMs, activeFrameTimeMs
  activePlayback, presentedFrames,
  statsAt, rate,      \* the latest sample of presentedFps
  framebuffer, fullscreen, windowed, swapchain,
  log, active, played \* only observed: the intervals since the last reset, and
                      \* the unpaused ticks since lastActivePresent and wallStart

loop      == <<paused, step, seeking, zoomInspector>>
frames    == <<upcoming, chosen, acquiredNewFrame, current>>
clock     == <<firstPts, wallStart, pauseStarted, played>>
histories == <<intervals, activePlayback, presentedFrames, log>>
telemetry == <<lastActivePresent, active, histories, statsAt, rate>>
window    == <<framebuffer, fullscreen, windowed, swapchain>>
vars      == <<scenario, now, events, pc, loop, frames, clock, telemetry, window>>

Live == scenario.policy = "live"
Loop == scenario.policy = "loop"

(* VideoPipeline::effectivePresentationMode and presentationGeometry *)
RequestedMode ==
  IF scenario.presentation # "auto" THEN scenario.presentation
  ELSE IF swapchain = scenario.content THEN "exact" ELSE "fit"

PresentedGeometry == Geometry(scenario.content, swapchain, RequestedMode)

(* The window is created in its windowed size, or with --fullscreen in the *)
(* monitor's, and then it is the size to return to that is asked for.      *)
OpenWindow ==
  /\ windowed \in scenario.sizes
  /\ fullscreen = scenario.fullscreen
  /\ framebuffer = IF fullscreen THEN Monitor ELSE windowed
  /\ swapchain = framebuffer

Init ==
  /\ scenario \in Scenarios
  /\ now = 0 /\ pc = "events" /\ events = {}
  /\ paused = FALSE /\ step = FALSE /\ seeking = FALSE /\ zoomInspector = FALSE
  /\ upcoming = 0 /\ chosen = None /\ acquiredNewFrame = FALSE /\ current = None
  /\ firstPts = None /\ wallStart = 0 /\ pauseStarted = None /\ played = 0
  /\ lastActivePresent = None /\ active = 0
  /\ intervals = EmptyHistory(History) /\ log = <<>>
  /\ activePlayback = 0 /\ presentedFrames = 0
  /\ statsAt = 0 /\ rate = None
  /\ OpenWindow

-------------------------------------------------------------------------------
(* Time and the window system. *)

Tick ==
  /\ now < scenario.time /\ pc # "closed"
  /\ now' = now + 1
  /\ active' = IF paused THEN active ELSE active + 1
  /\ played' = IF paused THEN played ELSE played + 1
  /\ UNCHANGED <<scenario, events, pc, loop, frames, firstPts, wallStart, pauseStarted,
                 lastActivePresent, histories, statsAt, rate, window>>

(* The user drags, minimises or restores the window. *)
Resize ==
  /\ pc # "closed" /\ ~fullscreen
  /\ \E size \in scenario.resizes \ {framebuffer} : framebuffer' = size
  /\ UNCHANGED <<scenario, now, events, pc, loop, frames, clock, telemetry, fullscreen,
                 windowed, swapchain>>

-------------------------------------------------------------------------------
(* The playback clock. *)

(* Slip: resuming forgets how long the pause was. *)
ResumeWithoutShift ==
  /\ pauseStarted' = None
  /\ UNCHANGED <<firstPts, wallStart, played>>

Resume ==
  /\ wallStart' = IF pauseStarted = None THEN wallStart
                                          ELSE wallStart + (now - pauseStarted)
  /\ pauseStarted' = None
  /\ UNCHANGED <<firstPts, played>>

Pause ==
  /\ pauseStarted' = IF firstPts # None /\ pauseStarted = None THEN now ELSE pauseStarted
  /\ UNCHANGED <<firstPts, wallStart, played>>

ResetClock ==
  /\ firstPts' = None /\ pauseStarted' = None
  /\ UNCHANGED <<wallStart, played>>

(* start, and pause when the frame was stepped to. *)
StartClock(pts) ==
  /\ firstPts' = pts /\ wallStart' = now /\ played' = 0
  /\ pauseStarted' = IF paused THEN now ELSE None

TargetTime(pts) == wallStart + (pts - firstPts)

-------------------------------------------------------------------------------
(* Metrics::resetActivePlayback, and the anchor of the next interval. *)
ResetActivePlayback ==
  /\ intervals' = EmptyHistory(History) /\ log' = <<>>
  /\ activePlayback' = 0 /\ presentedFrames' = 0
  /\ rate' = None
  /\ lastActivePresent' = None /\ active' = 0
  /\ UNCHANGED statsAt

(* Slip: the anchor survives the pause. *)
KeepAnchor == UNCHANGED telemetry

ForgetAnchor ==
  /\ lastActivePresent' = None /\ active' = 0
  /\ UNCHANGED <<histories, statsAt, rate>>

-------------------------------------------------------------------------------
(* The gestures of one turn of the loop, in the order it handles them.     *)

(* pollEvents and consumeEvents: a flag says that a key was pressed, not   *)
(* how often.  A minimised window receives no keys.                        *)
PollEvents ==
  /\ pc = "events"
  /\ \E polled \in SUBSET scenario.gestures :
       /\ Cardinality(polled) <= 2
       /\ framebuffer = Minimised => polled = {}
       /\ events' = polled \ {"pause", "step"}
       /\ paused' = IF "pause" \in polled THEN ~paused ELSE paused
       /\ IF "pause" \in polled /\ ~Live THEN IF paused' THEN Pause ELSE Resume
                                         ELSE UNCHANGED clock
       /\ IF "pause" \in polled /\ ~paused' THEN ForgetAnchor ELSE UNCHANGED telemetry
       /\ step' = (step \/ ("step" \in polled /\ paused' /\ ~zoomInspector))
  /\ pc' = "home"
  /\ UNCHANGED <<scenario, now, seeking, zoomInspector, frames, window>>

Home ==
  /\ pc = "home"
  /\ IF "seek" \notin events
       THEN UNCHANGED <<loop, frames, clock, telemetry>>
       ELSE /\ current' = None
            /\ ResetActivePlayback
            /\ IF Live THEN /\ seeking' = FALSE /\ step' = FALSE
                            /\ UNCHANGED <<upcoming, clock>>
                       ELSE /\ seeking' = TRUE /\ step' = paused
                            /\ upcoming' = 0
                            /\ ResetClock
            /\ UNCHANGED <<paused, zoomInspector, acquiredNewFrame, chosen>>
  /\ pc' = "window"
  /\ UNCHANGED <<scenario, now, events, window>>

(* Window::toggleFullscreen *)
ToggleFullscreen ==
  /\ fullscreen' = ~fullscreen
  /\ framebuffer' = IF fullscreen THEN windowed ELSE Monitor
  /\ windowed' = IF fullscreen THEN windowed ELSE framebuffer
  /\ UNCHANGED swapchain

(* F11, and Z: the zoom inspector stops the playback. *)
HandleWindow ==
  /\ pc = "window"
  /\ IF "fullscreen" \in events THEN ToggleFullscreen ELSE UNCHANGED window
  /\ zoomInspector' = IF "zoom" \in events THEN ~zoomInspector ELSE zoomInspector
  /\ IF "zoom" \in events /\ zoomInspector' /\ ~paused
       THEN paused' = TRUE /\ IF Live THEN UNCHANGED clock ELSE Pause
       ELSE UNCHANGED <<paused, clock>>
  /\ pc' = "escape"
  /\ UNCHANGED <<scenario, now, events, step, seeking, frames, telemetry>>

(* Escape leaves the full screen, or the program. *)
HandleEscape ==
  /\ pc = "escape"
  /\ IF "escape" \in events /\ fullscreen THEN ToggleFullscreen ELSE UNCHANGED window
  /\ pc' = IF "escape" \in events /\ ~fullscreen THEN "closed" ELSE "frame"
  /\ events' = {}
  /\ UNCHANGED <<scenario, now, loop, frames, clock, telemetry>>

-------------------------------------------------------------------------------
(* The next frame. *)

WantsFrame == ~paused \/ step \/ seeking

TakeLive ==
  /\ pc = "frame" /\ Live /\ WantsFrame
  /\ current' = upcoming /\ acquiredNewFrame' = TRUE
  /\ seeking' = FALSE /\ step' = FALSE
  /\ pc' = "present"
  /\ UNCHANGED <<scenario, now, events, paused, zoomInspector, upcoming, chosen, clock,
                 telemetry, window>>

(* Nothing new: the live source has no frame yet, or the loop wants none.  *)
KeepFrame ==
  /\ pc = "frame" /\ (Live \/ ~WantsFrame)
  /\ acquiredNewFrame' = FALSE
  /\ IF WantsFrame THEN seeking' = FALSE /\ step' = FALSE ELSE UNCHANGED <<seeking, step>>
  /\ pc' = IF current = None THEN "events" ELSE "present"
  /\ UNCHANGED <<scenario, now, events, paused, zoomInspector, upcoming, chosen, current,
                 clock, telemetry, window>>

(* At a loop boundary the clock and the histories start again; while       *)
(* paused the clock is started and paused for every frame stepped to.      *)
TakeFile ==
  LET boundary == current # None /\ upcoming < current IN
  /\ pc = "frame" /\ ~Live /\ WantsFrame
  /\ upcoming < Length
  /\ chosen' = upcoming /\ acquiredNewFrame' = TRUE
  /\ upcoming' = IF Loop THEN (upcoming + 1) % Length ELSE upcoming + 1
  /\ seeking' = FALSE
  /\ IF boundary \/ firstPts = None \/ paused THEN StartClock(upcoming * Period)
                                              ELSE UNCHANGED clock
  /\ IF boundary THEN ResetActivePlayback ELSE UNCHANGED telemetry
  /\ IF paused THEN current' = upcoming /\ step' = FALSE /\ pc' = "present"
               ELSE UNCHANGED <<current, step>> /\ pc' = "pace"
  /\ UNCHANGED <<scenario, now, events, paused, zoomInspector, window>>

EndOfFile ==
  /\ pc = "frame" /\ ~Live /\ WantsFrame
  /\ upcoming = Length
  /\ pc' = "closed"
  /\ UNCHANGED <<scenario, now, events, loop, frames, clock, telemetry, window>>

(* waitForTarget; a frame far too late may be dropped. *)
Lateness ==
  (IF pauseStarted = None THEN now ELSE pauseStarted) - TargetTime(chosen * Period)

DropLate ==
  /\ pc = "pace" /\ scenario.dropLate
  /\ Lateness > TooLate
  /\ pc' = "events"
  /\ UNCHANGED <<scenario, now, events, loop, frames, clock, telemetry, window>>

Choose ==
  /\ pc = "pace" /\ now >= TargetTime(chosen * Period)
  /\ ~(scenario.dropLate /\ Lateness > TooLate)
  /\ current' = chosen /\ step' = FALSE
  /\ pc' = "present"
  /\ UNCHANGED <<scenario, now, events, paused, seeking, zoomInspector, upcoming, chosen,
                 acquiredNewFrame, clock, telemetry, window>>

-------------------------------------------------------------------------------
(* Presentation. *)

NoExtent ==
  /\ pc = "present" /\ framebuffer = Minimised
  /\ pc' = "events"
  /\ UNCHANGED <<scenario, now, events, loop, frames, clock, telemetry, window>>

(* No image could be acquired: the swapchain is made anew. *)
AcquireFails ==
  /\ pc = "present" /\ framebuffer \notin {Minimised, swapchain}
  /\ swapchain' = framebuffer
  /\ pc' = "events"
  /\ UNCHANGED <<scenario, now, events, loop, frames, clock, telemetry, framebuffer,
                 fullscreen, windowed>>

(* An active present closes an interval and opens the next. *)
CountPresent ==
  IF paused \/ ~acquiredNewFrame
    THEN UNCHANGED <<lastActivePresent, active, histories>>
    ELSE /\ lastActivePresent' = now /\ active' = 0
         /\ IF lastActivePresent = None
              THEN UNCHANGED histories
              ELSE /\ now > lastActivePresent       \* the steady clock is fine
                   /\ intervals' = Add(intervals, now - lastActivePresent)
                   /\ activePlayback' = activePlayback + (now - lastActivePresent)
                   /\ presentedFrames' = presentedFrames + 1
                   /\ log' = Append(log, now - lastActivePresent)

SampleRates ==
  IF now - statsAt < SampleEvery
    THEN UNCHANGED <<statsAt, rate>>
    ELSE statsAt' = now /\ rate' = WindowedRate(intervals', RateWindow)

(* Presents, also to a swapchain of the old size; the driver may ask for a *)
(* new one.                                                                *)
Present ==
  /\ pc = "present" /\ framebuffer # Minimised
  /\ CountPresent
  /\ SampleRates
  /\ swapchain' \in {swapchain, framebuffer}
  /\ pc' = "events"
  /\ UNCHANGED <<scenario, now, events, loop, frames, clock, framebuffer, fullscreen,
                 windowed>>

(* The program has ended, or the time of the scenario is over. *)
Finished == (pc = "closed" \/ now = scenario.time) /\ UNCHANGED vars

Next ==
  \/ Tick \/ Resize
  \/ PollEvents \/ Home \/ HandleWindow \/ HandleEscape
  \/ TakeLive \/ KeepFrame \/ TakeFile \/ EndOfFile \/ DropLate \/ Choose
  \/ NoExtent \/ AcquireFails \/ Present \/ Finished

Spec == Init /\ [][Next]_vars
-------------------------------------------------------------------------------
(* Paused time is no frame time: whatever the order of pausing, stepping,  *)
(* zooming and Home, the interval the next active present will record is   *)
(* time the playback was running.                                          *)
PausesDoNotCount ==
  ~paused /\ lastActivePresent # None => now - lastActivePresent = active

(* Pauses shift the timeline: the clock's position in the file, which      *)
(* decides when a frame is due and whether it is dropped as too late, is   *)
(* the time that was played since the clock was started.                   *)
PauseShiftsOrigin ==
  firstPts # None =>
    (IF pauseStarted = None THEN now ELSE pauseStarted) - wallStart = played

(* The telemetry tells the truth about what was presented since the last   *)
(* reset: the history holds the newest intervals, its average runs over    *)
(* exactly those, and the totals are those of all of them.                 *)
HistoryIsNewest ==
  LET sum[i \in 0 .. Len(log)] == IF i = 0 THEN 0 ELSE sum[i - 1] + log[i]
      kept == IF Len(log) < History THEN Len(log) ELSE History
  IN /\ intervals.count = kept
     /\ \A k \in 0 .. kept - 1 : Newest(intervals, k) = log[Len(log) - k]
     /\ AverageInterval(intervals).span = sum[Len(log)] - sum[Len(log) - kept]
     /\ activePlayback = sum[Len(log)] /\ presentedFrames = Len(log)

(* The shader draws what the telemetry and the screenshots report: the     *)
(* viewport agrees with the pixels drawn up to a pixel at each end, and    *)
(* 1:1 mapping, which selects the texel fetch, is reported exactly when    *)
(* the shader does not scale.                                              *)
ScreenMatchesTelemetry ==
  LET geometry == PresentedGeometry
      mode == geometry.effectiveMode
  IN /\ \A a \in Axis :
          LET drawn == DrawnPixels(scenario.content, swapchain, mode, a)
              first == geometry.position[a]
              past  == first + geometry.viewport[a]
          IN \A x \in 0 .. swapchain[a] - 1 :
               /\ first < x /\ x < past - 1 => x \in drawn
               /\ x \in drawn => first - 1 <= x /\ x <= past
     /\ geometry.exactOneToOne <=> DrawnOneToOne(scenario.content, swapchain, mode)

(* docs/telemetry-methodology.md: the rolling rate is that of the newest   *)
(* intervals whose sum covers the window, so it counts none that was not   *)
(* presented.                                                              *)
RateCountsIntervals == rate # None => rate.intervals <= presentedFrames
===============================================================================
