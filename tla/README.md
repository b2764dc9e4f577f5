# A TLA+ model of SysDVR-Upscaler (NexusStream60)

The program shows H.264 video, from a file or from a Nintendo Switch through
the SysDVR bridge, upscaled on the GPU. What is hard about it is not the
arithmetic but the order of things: a decoder thread and a render loop share a
small pool of slots, a child process feeds a socket and may die at any byte,
and three GPU flights, two GPU queues and a presentation engine use buffers
that the CPU wants back. This directory has TLA+ modules of those parts,
configurations that model-check them with TLC, and proofs checked by TLAPS.

Paths below are relative to the repository; `src/...` is its source directory.

- [1 The system](#1-the-system)
- [2 The modules](#2-the-modules)
- [3 The runs](#3-the-runs)
- [4 What the checks found](#4-what-the-checks-found)
- [5 The proofs](#5-the-proofs)
- [6 What is not modelled](#6-what-is-not-modelled)
- [7 Plan](#7-plan)

## 1 The system

### Components

| component | state | operations | modelled in |
|---|---|---|---|
| `FrameQueue`, `FramePool` (`src/decode/FrameQueue.cpp`) | slot states, ready ring and its indices, counters, `stopped_`, two condition variables; the payload of each slot | `acquireWrite`, `acquireWriteLatest`, `commitWrite`, `cancelWrite`, `acquireReadPreserveOrder`, `tryAcquireNewest`, `releaseRead`, `discardReady`, `stop` | `FrameQueue`, promised by `FrameChannel` |
| `runApplication` (`src/app/Application.cpp`) | the decoder thread's and the render loop's progress, `seekRequested`, `decodeEof`, `decoderError`, the display slot, `current`, pause/step/zoom flags, `PlaybackClock` | the decoder loop, the render loop, both exits | `Playback` |
| `SysDvrPipeSource` and the bridge protocol (`src/decode/SysDvrPipeSource.cpp`, `SysDvrBridgeProtocol.cpp`) | socket, connection, hello, current payload and offset, `eof` | opening, connecting, `read` with everything below it, closing | `PipeSource`, `BridgeSession` |
| `BridgeProcess`, `launchSysDvrBridge` (`src/app/Application.cpp`) | the child's pid | launch, stop | `BridgeSession` |
| `FFmpegVideoReader` (`src/decode/FFmpegVideoReader.cpp`) | backend, transfer format, keyframe gate, error count, `draining`, frame number, fallback time | opening input and decoder with fallback, `readFrame`, `seekToBeginning` | `Reader` |
| the D3D11 copy ring (same file) | rings and their textures, `next_`, fence value, leases | choosing a ring, `acquire`, split and signal, release of a lease | `InteropLeases` |
| `D3D11VulkanInterop` (`src/render/D3D11VulkanInterop.cpp`) | the cache of imported images, its generation, the import each flight keeps | `prepare`, release | `TextureImports` |
| `VulkanContext` frame loop, `VideoPipeline` flights and screenshots | fences, semaphores, `imagesInFlight`, staging and readback buffers, pending captures | acquire, prepare, record, submit, present, recreate, save, exit | `Presentation` |
| `VideoPipeline` recording | layouts remembered by three flags, timing plan, mode, comparison | `prepareFrame`, `recordProcessing`, `beginPresent` | `Recording` |
| `PlaybackClock`, `Metrics` (`src/telemetry/Metrics.cpp`), `Window` (`src/platform/Window.cpp`), as the render loop uses them | clock anchor and pause, histories and totals, latest rate, framebuffer, fullscreen, flags of the loop | gestures, clock, `addPresentation`, resets, sampling, `toggleFullscreen`, resizing | `Viewer` with `Metrics` |
| presentation geometry (`src/render/Upscaling.cpp`, `src/shaders/fullscreen_present.frag`) | none | viewport, effective mode, 1:1 test; the pixels drawn | `PresentationGeometry`, used by `Viewer` |
| overlay, configuration, capabilities, logging, colour arithmetic, other shaders | see section 6 | | not modelled, or only what others need |

### How they interact

    SysDVR bridge --socket--> SysDvrPipeSource --read callback--> FFmpeg
                                                                    |
                                  decoder thread: FFmpegVideoReader |
                                                                    v
       (copy ring: leases) ......................... FrameQueue (slots)
                                                                    |
                                  render loop: display slot, clock  v
                                  VideoPipeline --> graphics queue --> swapchain

- The decoder thread owns the reader; the render loop owns window, clock,
  display slot, pipeline and Vulkan context. They share the queue, three
  atomics (`seekRequested`, `decodeEof`, `decodedCount`), one error behind a
  mutex, and the stop token.
- FFmpeg calls back into the pipe source from the decoder thread, and blocks
  there for as long as the bridge is silent.
- A texture of the copy ring is kept by a shared lease that travels through the
  queue into the display slot and into the flights; it is free when the last
  owner lets go, on whichever thread that happens.
- The GPU learns of a decoded texture through a D3D11 fence imported as a
  timeline semaphore; the CPU learns of the GPU through one fence per flight.

### What is hard, and what would be correct

The full list, at its lines, is `hazards` in PROJECT.json. In short:

- *Queue*: a state change and its notification are not atomic; three records
  (ring, states, payloads) must agree. Correct: no corruption exception, no lost
  wake-up, no deadlock, frames in order and accounted for, payloads let go of.
- *Playback*: end of input, Home, loop, pause, late drops, errors and closing
  race. Correct: order, a clock of the right pass that stands while paused, no
  lost error, every run ends when it should and goes on when it should.
- *Pipe and bridge*: reads and messages have unrelated sizes, either side may
  disappear anywhere. Correct: exactly the video bytes, the end noticed, nothing
  left behind, leaving always ends.
- *Reader*: draining, seeking, falling back and absorbing errors touch the same
  members. Correct: each picture once, numbered and timed; end only at the end;
  a live stream given up only for the reason the gate is for.
- *Copy ring and imports*: three parties hold leases, rings replace each other
  and the imports of the old one go. Correct: a free texture whenever one is
  wanted, no picture overwritten while sampled, no wait without a signal, no image
  destroyed under a submission, none imported twice.
- *Presentation*: fences, binary semaphores, per-flight buffers and swapchain
  recreation. Correct: no fence waited for in vain, no semaphore signalled twice,
  no buffer reused early, no recorded screenshot lost.
- *Time and windows*: pauses, steps, zoom, Home and loop boundaries meet in one
  turn of the loop; the telemetry has several records of the same presents; the
  geometry is computed twice, in two languages. Correct: paused time counts
  nowhere, the histories are those of what was presented, what is reported is
  what is drawn.
- *Recording*: formats, modes, comparison and screenshots change between frames.
  Correct: each command is ordered after what it depends on and finds its layout,
  the right modes are shown, timestamps bracket what they are reported for.

## 2 The modules

Every action is one handler or one stretch of a handler between two points
where another actor can see or change something. Names are the source's where
it has one. `map` in PROJECT.json gives the lines of every definition.
Definitions marked `Slip` are plausible mistakes of the code; each property has
one that breaks it, and no specification uses them.

### FrameQueue, FrameChannel

One mutex guards the class, so an operation is one step. Falling asleep, waking
(also spuriously) and the notification issued *after* the unlock are steps of
their own: `owed` holds the notifications a thread has still to issue. `content`
is the payload of each pool slot; `corrupted` is set where the code would throw
"FrameQueue state corruption". One producer and one consumer, as in
`runApplication`; either may call `stop` and the consumer `discardReady`.

`FrameChannel` is what the queue promises: a bounded channel whose writer may
recycle the oldest frame and whose reader may skip to the newest.
`FrameQueue!ImplementsChannel` is the refinement, with the ring's window as the
sequence of waiting frames. `Playback` and `InteropLeases` are built on
`FrameChannel`'s operators, where a call that would block is an action that is
not enabled.

### Playback

Both threads of `runApplication`, from the start of the decoder thread to the
return or the rethrow. Each access to an atomic flag or to the queue is a step
(`decoderPc`, `renderPc`); code of one thread between two such accesses is not
split, since nobody can see it. A frame is its number and the *pass* (the seek
to the beginning) that produced it; time is abstract: the clock is known by the
pass it was started in and by whether it is paused, and a frame may be late or
not. `mode` is the source with `--loop` and `--drop-late-frames`. The user's
gestures are chosen freely at each poll. `Failures` says which side may throw: the
decoder where it seeks or reads, the render loop where it presents, since its calls
before that throw only for what other modules exclude. (In `InteropLeases` the loop may be left
at any of its steps.)

### PipeSource, BridgeSession

`PipeSource` is `SysDvrPipeSource::Impl::read` and everything below it. Bytes are
counted in units, one per header; a unit on the wire remembers which message it
belongs to, so that a unit of a header delivered as video is noticed. Whether a
header is well formed is one flag. Sequence numbers are left out: the code
compares them only to log a gap. The bridge is external: it writes a hello, then
any messages, and may stop in the middle of one.

`BridgeSession` extends it with the rest of a live run on POSIX: launching the
bridge or leaving that to somebody else, the steps of `openListener` with each of
their failures and what a failure leaves (`closeSockets` is called from the
constructor, since no destructor runs), the child's exit at any moment, and
`BridgeProcess::stop`: SIGTERM, polling until a deadline, SIGKILL, `waitpid`.
Everything of `runApplication` that leads from reading to leaving is one action,
`Leave`; `Playback` has the details. `NobodyConnects` is the one place where the
run can hang: `accept` has no timeout and nobody watches the child, so a bridge
that exits before it has connected is waited for until the process is killed.

### Reader

Opening the input (the strict interop path and interop elsewhere than on Windows
are refused) and the decoder with its fallback, the loop of `readFrame` (receive,
demux, send), what a picture becomes in its slot (a surface handed over, or
transferred to memory in a format that once worked, or planes copied), the
keyframe gate of live VideoToolbox streams, and `seekToBeginning`. FFmpeg is
external: a packet holds one picture, a keyframe or one that needs its
predecessor; the decoder holds back `Delay` pictures, may reject a packet at once
or report it later, and may fall back to software pictures. A live stream is joined
at any packet.

### InteropLeases, TextureImports

The path `--decoder-path interop-copy`. A lease is a texture and the fence value
of the split that filled it; a texture is a place of a ring, and a ring is known by
its generation. When the decoder's textures change size a new ring takes over and
the old one lives on in its leases. `acquire` tries one texture per step, because
other threads give textures back while it scans. D3D11 executes splits in order and
signals afterwards; a signal may fail. Flights sample a texture from the moment
their submission may run until their fence. Why a slot is cancelled or a picture
presented again is `Playback`'s matter and free here.

`TextureImports` extends it with the Vulkan images the textures are imported as:
made when a texture is first presented, cached for the ring of the frame presented
last, and kept by the flights whose submissions sample them. `Prepare` is
`PrepareFrame` with the import, `Release` is `ReleaseFrames` with the flights'
imports dropped.

### Presentation

The render loop's frame from `acquireFrame` to `present`, for `Flights` flights and
`Images` swapchain images, with minimised windows, out-of-date and suboptimal
swapchains, failures at each call, screenshots through the flights' readback
buffers, and both exits. The graphics queue and the presentation engine are
separate actors. Assumptions about Vulkan: the queue executes submissions and
signals their fences in submission order; the engine takes presentations in
order and hands out only images it has taken; `vkDeviceWaitIdle` also waits for
the presentations' semaphore waits.

### Recording

What one command buffer makes the GPU do. Recording appends command records;
the GPU executes them one by one, and a command is *ordered* if the barriers
before it cover every access it must not overlap. `users` and `dirty` are the
stages that used an image and the writes not yet made available since its last
barrier, `safe` the accesses that barrier allowed. What an image holds is the
list of passes that made it from this frame's picture. One flight is enough:
flights share no image. The ownership of external textures is treated as a
layout of its own. The wait for the D3D11 fence that a submission of an external texture
begins with is not part of it: here a texture handed over has its picture, and that the
wait ends, with the right picture, is `FenceWaitsAreServed` and `SamplingIsStable` of
`InteropLeases`.

### Viewer, Metrics, PresentationGeometry

`Viewer` is the render loop in time. Ticks pass between any two of its steps; one
turn polls the gestures (a flag per key, so at most once each), handles Home, window and
Escape, takes the next frame, paces it with the clock, and presents. `Playback`
has the other half: there gestures and frames race with the decoder and time is
abstract, here frames come whenever they are wanted and time is counted.
`log`, `active` and `played` only observe: what was presented, and how much unpaused
time passed.

`Metrics` has the histories, a ring that overwrites, and the rates computed from
them. `PresentationGeometry` has the geometry twice, as the C++ computes it for the
telemetry, the screenshots and the choice of texel fetch, and as the fragment
shader computes it for each pixel, both in exact fractions.

## 3 The runs

| run | module | distinct states | expected | asks |
|---|---|---|---|---|
| `frame_queue` | MCFrameQueue | 382 257 | pass | the queue: agreement, wake-ups, order, refinement, liveness |
| `playback` | MCPlayback | 590 074 | pass | the two threads of `runApplication` |
| `tail_dropped` | MCPlayback | | violation | is the end of a file shown? |
| `home_at_end` | MCPlayback | | violation | does Home always restart? |
| `bridge_session` | MCBridgeSession | 1 625 956 | pass | the stream, the socket and the child process |
| `texture_imports` | MCTextureImports | 3 821 412 | pass | the copy rings, their leases and their imports |
| `presentation` | MCPresentation | 3 645 307 | pass | fences, semaphores, buffers, screenshots |
| `capture_metadata` | MCPresentation | | violation | does a screenshot show the frame it names? |
| `reader` | MCReader | 71 450 | pass | opening, the read loop, its gate and its fallback |
| `viewer` | MCViewer | 1 907 265 | pass | pauses, telemetry, windows and geometry |
| `rolling_rate` | MCViewer | | violation | does the rolling rate count what was presented? |
| `recording` | MCRecording | 1 102 592 | pass | the command buffers |

### What each passing run shows

**frame_queue.** Three slots, five frames, any sequence of calls.
`NoCorruption`, `PayloadFollowsOwnership` and `FramesAccountedFor` relate ring, states,
payloads and counters; `NoLostWakeup` says that notifying after
the unlock is safe; `ServedSleepersReturn` is their liveness counterpart;
`ReadsInOrder` and `ImplementsChannel` say what the users get.

**playback.** A file, a looped file, one with late drops, and a live stream; two
slots, four frames, three gestures of any kind, the decoder failing in any seek or read and the render loop
in any turn that presents.
`FramesInOrder` through all races of seeking and looping, `LoopRestartsClock`,
`ErrorReported`; and with fairness `PlaysOn`, `SeekCompletes`,
`RunEnds`.

**bridge_session.** A hello and up to three messages, cut short or malformed
anywhere, reads of one or two units; every failure of the opening; a bridge that
is a child, or not. `DeliveredExactly` is the exactness of the byte stream and
the finality of its end, `NothingLeftBehind` the state at the end of the run,
`CloseIsNoticed` and `StopEnds` the liveness of reading and of leaving.

**texture_imports.** One slot, two flights, hence rings of five textures; two rings,
six pictures. The five properties of the rings and the leases, and of the imports
`ImportsOutliveSubmissions` and `ImportedOnce`.

**presentation.** Two flights, three images, three pictures, two screenshots.
`FencesServed` is the hazard of a fence reset before an acquire that fails,
`SemaphoresReusable` and `FlightBuffersStable` those of reuse, `CapturesSurvive`
that of leaving.

**reader.** Ten packets, a keyframe every fourth, two of them without a timestamp, one picture
held back, tolerance of two errors, three rejections, two seeks, every decoder
and path request. `ReadsWholeInput`, `GivenUpOnKeyframes`, and `PictureMatchesReport`: the
reader's own information follows a fallback in mid-stream, and a picture is copied
only into planes that the pools have.

**viewer.** A live stream, a file with late drops and a looped file in time, and
every presentation mode for windows of any size. `PausesDoNotCount` and
`PauseShiftsOrigin` relate the telemetry's and the clock's anchors to the time that
was really played, `HistoryIsNewest` the ring, the average and the totals to
the presents themselves, `ScreenMatchesTelemetry` the reported viewport and 1:1 test
to the pixels the shader draws.

**recording.** All eight modes, all pairs of them in comparison, all three
formats in any order, screenshots; the number of frames is not bounded.
`CommandsOrdered`, `ShowsChosenModes`, `TimingsMatch`.

### Bounds

These are the bounds of TLC's runs. The safety properties are also proved without
them (section 5), so what the bounds limit is liveness, the violation runs, and
the confidence that the interesting cases occur at all.

- `FrameQueue`: `N = 3` gives the ring a wrap-around and lets all four slot states
  coexist; `MaxFrames = 5` is more than a full turn, with frames left for recycling.
  In the program `N` is 4 for a file and 2 to 4 for a live stream.
- `Playback`: `Capacity = 2` makes both threads wait for each other more often than
  the program's four slots; `Length = 4` is more than the slots, so a pass does not
  fit into the queue; `Passes = 3` numbers passes modulo three, enough to tell the
  pass on display, the one waiting and the one being decoded apart (that it is
  enough is part of `FramesReachDisplayInOrder`); three
  gestures cover every pair with a third one between or after. The violation runs
  use four slots and five frames, as in the program.
- `BridgeSession`: four messages with payloads of 0 to 2 units and reads of 1 or 2:
  a read may end inside a payload, at its end, or follow an empty one, twice.
- `TextureImports`: one slot and two flights let queue, display slot and flights
  hold different leases at the same time; six pictures are more than a ring of
  five, so a texture can be reused, and two rings let frames of the old one be
  presented after the new one was made.
- `Presentation`: two flights and three images: an image may belong to either
  flight and an acquired image to another one than the flight's last. The program
  has three flights. Two captures can be pending in different flights.
- `Reader`: see the run; `MaxErrors` is 30 in the program and 2 here, with more
  rejections available than are tolerated.
- `Recording`: no bound.
- `Viewer`: scenarios in time have six or eight ticks, two per frame, with a fixed
  window and up to two gestures a turn, so that pauses of any length lie between,
  inside and across frames, and a history of two intervals overflows. Scenarios of
  windows have no time: three contents, every window from 1x1 to 9x9, hence smaller,
  equal and larger ones with odd and even margins, and switches of size and full
  screen while frames are presented, from a start in a window or in full screen.

### Fairness

- `FrameQueue`: each notification a thread owes is issued, and a thread that is
  awake inside a waiting call tests its predicate again; that is what a scheduler
  and a condition variable guarantee. Nothing is assumed about which calls are made.
- `Playback`: weak fairness of each thread. Where the decoder's next step is a read
  of a live source, that assumes that the source goes on sending or closes. With a
  bridge that neither sends nor dies, `read` does not return and `join` does not
  either; the README of the repository promises nothing there.
- `BridgeSession`: weak fairness of opening, reading and leaving, and of FFmpeg asking
  again; a process that was sent SIGKILL ends. A bridge left alone need not do
  anything, and a socket need not fail.
- The other modules check safety only. Their hazards (a fence or a fence value
  never signalled) are stated as invariants: whoever waits, somebody is bound to
  signal.

`CHECK_DEADLOCK` is on in every run. Where the program may stop, the module has an action for it
(`Finished`, `Ended`, `Failed`, `NobodyConnects`) that says so.

## 4 What the checks found

Each is a violation run; TLC's counterexample is the scenario.

1. **tail_dropped** (`Application.cpp:468`). At the end of input the decoder thread
   calls `queue.stop()`, which frees the ready frames. Frames at the end of a file,
   up to one fewer than the pool has slots (`TailLossIsBounded`), are never shown, though
   `docs/phase1-architecture.md:26` says "Full queues preserve frames".
2. **home_at_end** (`Application.cpp:461`). Once the decoder has seen the end of
   input it does not look at `seekRequested` again: Home then discards the picture
   and the window closes. `README.md:183` says "`Home` restart". Before that, Home does
   not end the run (`RunsEndWithTheInput`).
3. **capture_metadata** (`Application.cpp:662`). A screenshot request made while
   `acquireFrame` returns nothing is served by a later frame's picture under the
   first frame's metadata, and this is the only way it happens
   (`OnlyLostFramesAreMisnamed`). The same holds for the mode and comparison named in the
   metadata, if they change in between (not stated as a property).
4. **rolling_rate** (`Metrics.cpp:23`). While the history does not cover the window,
   the loop ends at the number of intervals and one more is counted: after one
   interval of 100 ms the overlay shows 20 fps. `docs/telemetry-methodology.md:8` says
   the rate is that of the newest intervals.

Met while modelling, and not stated as runs:

- `Application.cpp:603`: the loop boundary is told by comparing with `current`, which
  a dropped frame never becomes. With `--loop` and `--drop-late-frames`, if only frame 0
  of a pass was kept, the next pass starts without a reset of the clock;
  `docs/phase1-architecture.md:32` says "seek and loop reset it". `LoopRestartsClock`
  leaves late drops out.
- `SysDvrPipeSource.cpp:193`: a header or payload that is cut short ends the stream like
  an orderly end; `docs/sysdvr-upscaler-bridge-protocol.md:110` speaks of rejecting
  truncated payloads. `DeliveredExactly` shows that no part of such a payload reaches
  FFmpeg.
- `Upscaling.cpp:154`: the exact mode falls back to fit when the picture is larger than
  the window; `docs/presentation-mapping.md:9` says it crops.
- `Application.cpp:398`: the overlay shows the decoder backend from a copy of the reader's
  information made at start-up (`ImGuiOverlay.cpp:69`), so after a fallback in
  mid-stream (`FFmpegVideoReader.cpp:1087`) it still names the hardware backend.
  `PictureMatchesReport` is about the reader's own information.

## 5 The proofs

Eight modules, each about the module it is named for: `FrameQueueProofs`,
`PlaybackProofs`, `BridgeProofs` (with `PipeSource`), `InteropProofs` (with
`TextureImports`), `PresentationProofs`, `RecordingProofs`, `ReaderProofs` and
`ViewerProofs`, checked by TLAPS for every value of the constants. Every safety
property of the passing runs is a theorem. In each case the property
is not inductive by itself; what had to be added is the argument.

Assumptions, all about constants and all evaluated by TLC in the runs:

- `FrameQueue`: `N` is a positive natural (`PoolAssumption`, as the constructor
  demands), the number of frames a natural (`BoundAssumption`).
- `InteropLeases`, `Presentation`: positive sizes, markers that are no members of the
  sets they mark (`SizesAssumption`).
- `PipeSource`: the bounds are naturals, and FFmpeg asks for at least one unit
  (`SizeAssumption`).
- `Playback`, `Reader`: the input and the options are possible ones (`InputAssumption`),
  the markers are none of the values they mark (`MarkAssumption`).
- `Recording`: a slot of the query pool that is not written is no number (`NoneAssumption`).
- `Viewer`: an unset optional is no time (`NoneAssumption`), the history has room
  (`HistoryAssumption`), pictures and windows are not empty and a resize is to such a
  size or to a minimised window (`SizesAssumption`).

Two theorems have a hypothesis. `FramesReachDisplayInOrder` wants `Passes > 2`; `Passes` is
how the model numbers the seeks, modulo, and nothing of the program.
`OnlyLostFramesAreMisnamed` is about the runs without `OutOfDate`, that is, those of a
window whose swapchain is never out of date when an image is acquired. The properties of
`TailLossIsBounded` and `RunsEndWithTheInput` speak of users who do not close the window, the
former also of files shown in full: without Home, a loop or late drops.

### The queue

`NoCorruption` is not inductive: that a pop meets a Ready slot needs the ring and
the states to agree. `CoreInv` adds `RingMatchesStates`: `writePos` is `readPos +
readyCount` modulo `N`, the window of the ring is the set of Ready slots, and no
slot is in it twice. Lemmas say how popping, committing and draining move the
window; that the window has `readyCount` members gives the writer room
(`RoomForWriter`). `CoreInv` also has the payloads and the counters. From it:
`TypeCorrect`, `CorruptionUnreachable`, `PayloadsFollowOwnership`, and
`FramesAreAccountedFor`.

`WakeInv` adds to `NoLostWakeup` that a thread that sleeps holds no slot and owes
nothing; with it, a state change and the notification it owes are made by the same
step of the other thread. `WakeupsAreNotLost` follows, and `DeadlockFree`: with
both asleep no slot could be free, ready, written or read, but the pool has one.

`OrderInv` says that the contents of the window increase, lie above what was read
and below what is being written, and that one slot at most is being written.
It gives `FramesReadInOrder`.

`QueueImplementsChannel` is the refinement of `FrameChannel`, proved from `ChannelInv`:
`CoreInv`, `OrderInv`, and that one slot at most is being read. The sequence of waiting
frames is the window's contents, so the lemmas on the window say what each
operation does to that sequence; falling asleep, waking and notifying are stutters.
The safety half only: `FrameChannel` has no fairness.

### The two threads

`UsesTheChannel` says that `Playback`, seen through its queue variables, is a
behaviour of `FrameChannel`: what the queue promises and what the threads rely on
are one specification.

`PlaybackInv` ties each thread's place to its side of the queue (`SidesInv`) and to
the stop token, the outcome and the closed queue (`StopInv`): while the render loop
runs, a closed queue was closed by the decoder, behind its last frame and with
nothing left. `ErrorsAreReported` and `LoopsRestartTheClock` follow.

`FramesReachDisplayInOrder` needs `OrderInv`, about the chain from the display slot over
the reader's slot and the waiting frames to the frame in the decoder's hands. In a
file, neighbours of the chain are of one pass and increasing, or the later one begins the
next pass (`FileChain`); the decoder goes on where the chain ends, in its pass, or
at the beginning of the next one, or of the one after that if a seek met the end of
the input and both made it start again (`FileContinues`), which is why
three passes must be told apart; and an empty display means the first frame is
still to come (`FileStarts`). The gap a discarded chain leaves is allowed only while
the seek that discarded it is pending. A live stream has increasing numbers only
(`LiveChain`).

`TailLossIsBounded` is what remains of finding 1 if it is taken for granted: a file that
is left alone and ends well is shown up to one of its last `Capacity` frames. `TailInv`
says that the chain from the display to the decoder has no gap (`NoneMissing`), also
with pauses, single steps and zooming, and that the slot in which the decoder met the
end of the input is not a waiting frame's: so one slot less than there are can be lost.

`RunsEndWithTheInput` does the same for finding 2. The window closes by itself only
because `decodeEof` was set, not because a queue was found empty or emptied by Home, and
that flag is set only behind the last frame of an input that is not looped, or behind an
error (`OverInv`). Home can end playback, but only once everything was decoded.

`ThreadsNeverBothWait` is the deadlock freedom of the two threads at their two
blocking calls and at the join: while the loop waits for a frame or for the decoder's
end, the decoder has not ended and does not wait for a slot. It needs, besides
`SidesInv` for the slots, that whoever ends has closed the queue first (`ClosedInv`).

### The bridge

`SessionInv` says which of file, descriptor, connection and child exist at which
place of the run (`EndpointInv`, `ChildInv`): the file at the path is ours exactly
while `socketBound` says so, and the child is reaped by the run's last step.
`LeavesNothingBehind` is its value at the end.

`StreamIsExact` is about bytes, and states exactness without counting: the video units
due (`Due`) are ordered by message and offset (`Earlier`), and those given to FFmpeg
(`Given`) are an initial part of them, in order, and all of them when the end was
reported. `StreamInv` follows a unit through the source. `SentInv`: only the last
message may be incomplete. `WireInv`: the units on the wire have no gap. `NextUnit`:
the next unit on the wire is the one the source's members say it is waiting for.
`StateInv`: what is known at each place of `read`. `PayloadInv`: the current payload is
one whole message, or a cut one that is never served. `ServedInv`: given is what
was served of what is due; an I/O error leaves a prefix. The proof has one lemma per
step of `read` and per event of the bridge.

### The reader

The pictures given and the pictures the decoder holds back are together those
decoded, and in a file the held ones are the packets that follow the last one given
(`OrderInv`). This is inductive only with `draining` tied to the end of the input
and with a rejection pending (`fault`) excepted. `GivesTheWholeInput` follows.

`GivesUpOnKeyframes` relates the count the code keeps, of rejections since the last
picture, to one it does not: the keyframes it had a chance to decode meanwhile.
`GateInv` bounds the rejections by the keyframes offered since and one
more, because the first absorbed error arms the gate and an armed gate offers
only keyframes. `ReportsItsPictures` needs the backend that was asked for to be
the one open, unless it is `Auto` (`BackendInv`).

### The copy ring

`InteropInv` is a conjunction: `ControlInv` (what each thread holds where),
`CapacityInv` (the queue uses no more than `Slots`), `FlightInv` (a flight keeps the
lease it samples), `LeaseInv` (one lease per texture), `CopiesInv` (splits are queued
in order, above the fence's value), `SettledInv` (what a lease promises: no
younger picture is on its way to its texture, its own is there once signalled and
on its way before) and `ScanInv`.

`ScanInv` is the interesting one. Textures are given back during a scan, so
"one is free" at its beginning does not say it is found. At the beginning at most
`Slots + Flights` textures are in use: the queue's slots but the writer's, which is
still empty, the display slot and the flights. With `Slots + Flights + 2` textures one is free, and
ahead; nobody but the decoder takes textures, so a free one ahead stays free
until the scan meets it. `RingSuffices` follows for every number of slots and
flights, `SamplingIsStable` and `FenceWaitsAreServed` from `SettledInv`, and
`ReleasedAtEnd` from `ControlInv`. A new ring changes nothing of this: the leases of
the old one count as in use, and its textures are no candidates of the new one.

### The imports

`ImportsRefine` says that `TextureImports` implements `InteropLeases`, so the results on
the rings hold of it. `ImportsOutlive` follows from `FlightInv` and `KeptInv`: a flight
that keeps a lease keeps the import of its texture, whatever the cache does.

`NoSecondImport` needs more, since emptying the cache forgets what was imported:
a frame of an older ring presented later would be imported again.
`RingsOrdered` says that pictures go from the writer through the queue and the reader
to the display slot in the order of their rings, `CacheBehind` that the cache's ring is
not younger than any of them, `CountInv` that the cache has all imported textures of
its ring and that no younger ring has any. Together they are inductive.

### The presentation

For any number of flights, images, pictures and screenshots; `PresentationInv` is:

- `FenceInv`: a submitted flight's fence is not signalled; the current flight's was
  reset only if it is between preparing and submitting; any other flight's is
  signalled or its submission is under way, unless a failure already ended the run.
  `FencesAreServed`.
- `AcquireInv`, `ImageInv`: an acquire semaphore is pending or signalled only for a
  submitted flight or for the current one while it holds an image; a
  `renderComplete` semaphore that is signalled belongs to an image that was
  presented or is about to be. With `QueuesDistinct` (no flight twice in the graphics queue, no image
  twice at the engine) and `ImageHeld`: `SemaphoresAreReusable`.
- `BufferInv`: a submitted flight's staging buffer still has the picture it was
  submitted with, and a submission writes the flight's readback buffer exactly if the
  flight has a capture pending. `FlightBuffersAreStable`.
- `CaptureInv`: the captures recorded are those saved and those pending in a flight,
  and a flight is recorded into only when it has none. `CapturesAreSaved`.

Two more theorems say how far finding 3 goes. A request names a picture not younger
than the one displayed, so metadata never names a later frame than the one saved
(`MetadataIsNeverLater`). And if acquiring an image never finds the swapchain out of date,
a request does not outlive its turn of the loop, so that every screenshot shows the frame its
metadata names (`OnlyLostFramesAreMisnamed`).

### The command buffer

`CommandsOrdered` is about the command at the head of a buffer, and says nothing of those
behind it; what makes it true is everything recorded before. The proof therefore follows
a buffer the way a logic of programs does. The state of the GPU is one value (`Machine`),
`Step(c, s, t)` says that command `c` is ordered in `s` and makes `t` of it, and
`Runs(list, s, t)` that a list of commands leads from `s` to `t`, each in order. Two
lemmas carry the structure: lists in sequence run in sequence (`RunsBoth`), and to run a
list is to run its head and then its tail (`RunsFirst`).

Each function of the code that records commands has a lemma with the state before it and the
state after it: `RunsUpload`, `RunsAcquire`, `RunsColor`, `RunsClearTargets`, `RunsUpscale` and
`RunsCompare` (both from `RunsMode`, the passes of one mode, for all eight),
`RunsSpareStamps`, `RunsCapture`, and, of these, `RunsProcessing` and `RunsPresent`. What holds between
two frames is `Rested`: in which layout each image was left, by which stage, with no
write pending, according to the flags the code keeps (`initialized_`, the planes', NV12's).
An image whose flag is not set was never used, so a barrier from `Undefined` has nothing to
wait for and loses nothing; and a format that comes back after others finds its planes as
it left them.

`RecordingInv` says that what is still to be executed leads from the GPU's state to a
frame that is finished (`Finished`) and rested. It is kept while recording by the lemmas
on blocks, and while executing by `RunsFirst` and the `Does` lemmas, which say that an executed
command does to the variables what `Step` says. `CommandsAreOrdered` is then
`StepIsOrdered` at the head; `ShowsTheChosenModes` and `TimingsAreThoseOfTheWork` are what
`Finished` says when nothing is left, the latter by `FinishedTimes`: each interval of two
timestamps has exactly the passes of the stage it is reported for.

### Pauses, histories and rates

Neither `PausesDoNotCount` nor `PauseShiftsOrigin` is inductive: there are four ways into and
out of a pause (the key, the zoom inspector, a stepped frame that starts the clock, Home
that stops it), and the clock and the telemetry each keep a record of it. `TimeInv` adds
`ClockStandsInPauses`: the clock of a file that was started has a pause start exactly while
the loop is paused, and that of a live stream never starts. `PausesNeverCount` and
`PausesShiftTheOrigin` follow, for any scenario and any frame rate.

`HistoryTellsTheTruth` is proved for a ring of any size. The ring is read backwards from
its write position: the entry `i` back is the interval presented `i` before the newest one
(`Holds`), and the totals are the sums over the whole log (`SumsUp`). `AddHolds` and
`AddSumsUp` are the two facts about `add` this rests on, with the overwriting of the
oldest entry in the first.

`RateAlmostRight` complements finding 4: `rolling_rate` shows that the rate may count an
interval that was never presented, the theorem that it never counts a second one,
for every history, window and scenario.

### The picture

`ScreenShowsWhatIsReported` is proved for every size of content and window and for every
presentation mode. `WindowInv` says that the swapchain is never empty, however windows are
resized, minimised and switched. The rest is arithmetic: the viewport that C++ rounds to and
the pixels that the shader draws are the same fraction rounded the same way
(`PixelsOfViewport`, with `Cancel`, `LeastRatio` and `GreatestRatio` for the fractions), and
a picture whose scale is not 1 on some axis has a viewport that differs from it on some axis
(`StretchedByScale`), so the 1:1 test on viewports is the test on scales. The theorem is about
exact fractions; that doubles and single precision round as the fractions do is not proved.

### Only model-checked

- Liveness and everything with fairness: `ServedSleepersReturn`, `PlaysOn`, `SeekCompletes`,
  `RunEnds`, `CloseIsNoticed`, `StopEnds`. This prover cannot reason about ENABLED.
- The violation runs, each of which has a counterexample.

The library's induction theorems have an operator as a parameter, which no installed
backend instantiates. Where a proof needs induction over numbers (the sums of the
histories), it takes the least number of a set of counterexamples instead, from the
well-foundedness of the naturals. No module with proofs uses a RECURSIVE operator.

## 6 What is not modelled

- *Windows' named pipe and process*: `BridgeSession` is the POSIX build. The pipe
  protocol above `readExact` is the same.
- *Strict zero-copy*: refused at start-up (`Application.cpp:358`), so the frame pool
  behind it never runs.
- *The checks of an imported handle, the semaphore import, device, surface and
  pipeline creation*: straight-line code that runs once and throws or not; a failed
  import is one of the ways the render loop ends.
- *`DecoderCapabilities`, `FFmpegRuntime`*: reports of what the machine offers.
- *`Upscaling`'s parsing and names, `Metrics`' exponential averages and percentages*:
  no property depends on them. Rates are kept as pairs of a count and a time.
- *Rounding in the shader*: `PresentationGeometry` is exact. In the exact mode with an odd
  margin every pixel centre falls on the border of two texels, and single precision
  decides which one `texelFetch` takes (listed as a hazard).
- *Overlay, logging, colour arithmetic, the other shaders, command line*: no state
  another part depends on, or floating point. Of the command line `Reader` has which
  decoder and path go together.
- *A gap in the bridge's sequence numbers* is logged and nothing else
  (`SysDvrPipeSource.cpp:197`), as `docs/phase4-macos-port.md:86` says: nothing to check.
- *A live stream that ends after its first picture* leaves that picture up until
  the window is closed; nothing in the repository says otherwise, so there is no
  property.

## 7 Plan

Done, in this order, most important first: `FrameQueue` with `FrameChannel`, `Playback`,
`PipeSource`, `InteropLeases`, `Presentation`, `Reader`, `Recording`, `BridgeSession`,
`TextureImports`, `Metrics`, `PresentationGeometry` and `Viewer`; then the proofs of all,
and what remains of each finding when it is taken for granted.

Next, in the model:

1. `Reader` over `PipeSource`: the errors the source raises reach the reader as the
   failures it handles.
2. The Windows side of `BridgeSession`.
3. The choice of a device and a surface format, if it gets more than straight-line code.

Next, in the proofs:

1. With `Reader` over `PipeSource`, that the composition is a `Reader`, so that the
   theorems on reading hold of a live run.
2. `FrameQueue` inside `Playback`: that the threads with the queue itself, not its
   promise, implement `Playback`.

## How to run

    tlc -config FrameQueue.cfg MCFrameQueue.tla      # likewise for the other runs
    tlapm FrameQueueProofs.tla                       # likewise for the other seven
