----------------------------- MODULE Presentation -----------------------------
(***************************************************************************)
(* Presenting decoded pictures: the render loop records one command buffer *)
(* per flight, the graphics queue executes the submissions, and the        *)
(* presentation engine shows swapchain images and hands them out again.    *)
(* Fences tell the CPU when a flight's buffers are free, binary semaphores *)
(* order the queue and the engine, and the swapchain is recreated whenever *)
(* the surface changes.  A screenshot is copied into the readback buffer   *)
(* of the flight that records it, and saved when the flight comes round    *)
(* again.                                                                  *)
(*                                                                         *)
(* The pictures are numbered; which one is displayed next is Playback's    *)
(* matter.  They are uploaded through the flight's staging buffer: for     *)
(* pictures that stay on the GPU see InteropLeases.                        *)
(***************************************************************************)
EXTENDS Integers, Sequences, FiniteSets

CONSTANTS
  Flights,      \* framesInFlight
  Images,       \* number of swapchain images
  MaxPictures,  \* bound: how many pictures are displayed
  MaxCaptures,  \* bound: how many screenshots are asked for
  None

Flight  == 0 .. Flights - 1
Image   == 1 .. Images
Picture == 1 .. MaxPictures

ASSUME SizesAssumption ==
  /\ {Flights, Images, MaxPictures} \subseteq Nat \ {0} /\ MaxCaptures \in Nat
  /\ None \notin Flight \union Image \union Picture

VARIABLES
  renderPc,
  displayed,      \* the picture in the display slot, and its metadata
  screenshot,     \* a screenshot is wanted
  asked,          \* how many were asked for
  request,        \* screenshotRequest_: the picture its metadata describes
  current,        \* currentFlight_
  image,          \* the image acquireFrame returned
  fence,          \* whether the fence of each flight is signalled
  imagesInFlight, \* the flight whose fence guards each image
  staging,        \* the picture in the staging buffer of each flight
  readback,       \* the picture in its readback buffer
  capture,        \* its pending screenshot
  work,           \* submissions the graphics queue has not finished
  presents,       \* presentations the engine has not taken yet
  handOver,       \* the image whose hand-over signals imageAvailable
  imageAvailable, \* whether that semaphore of each flight is signalled
  renderComplete, \* whether that semaphore of each image is signalled
  recorded,       \* screenshots recorded so far
  saved           \* screenshots saved so far

loop   == <<displayed, screenshot, asked, request>>
flight == <<current, image, imagesInFlight>>
host   == <<staging, capture, recorded, saved>>
gpu    == <<fence, readback, work, presents, handOver, imageAvailable, renderComplete>>
vars   == <<renderPc, loop, flight, host, gpu>>

Init ==
  /\ renderPc = "loop"
  /\ displayed = 1 /\ screenshot = FALSE /\ asked = 0 /\ request = None
  /\ current = 0 /\ image = None
  /\ fence = [f \in Flight |-> TRUE]
  /\ imagesInFlight = [i \in Image |-> None]
  /\ staging = [f \in Flight |-> None] /\ readback = [f \in Flight |-> None]
  /\ capture = [f \in Flight |-> None]
  /\ work = <<>> /\ presents = <<>>
  /\ handOver = [f \in Flight |-> None]
  /\ imageAvailable = [f \in Flight |-> FALSE]
  /\ renderComplete = [i \in Image |-> FALSE]
  /\ recorded = {} /\ saved = {}

-------------------------------------------------------------------------------
(* The render loop up to acquireFrame. *)

(* One turn of the loop: another picture may be displayed, and a key or    *)
(* --capture-frame may ask for a screenshot.                               *)
Turn ==
  /\ renderPc = "loop"
  /\ displayed' \in {displayed, displayed + 1} \intersect Picture
  /\ \/ UNCHANGED <<screenshot, asked>>
     \/ asked < MaxCaptures /\ screenshot' = TRUE /\ asked' = asked + 1
  /\ renderPc' = "frame"
  /\ UNCHANGED <<request, flight, host, gpu>>

(* A minimized window has no framebuffer: nothing is presented. *)
Minimized ==
  /\ renderPc = "frame"
  /\ renderPc' = "loop"
  /\ UNCHANGED <<loop, flight, host, gpu>>

(* A request that no command buffer has taken yet is replaced. *)
RequestScreenshot ==
  /\ renderPc = "frame"
  /\ request' = IF screenshot THEN displayed ELSE request
  /\ screenshot' = FALSE
  /\ renderPc' = "fence"
  /\ UNCHANGED <<displayed, asked, flight, host, gpu>>

-------------------------------------------------------------------------------
(* acquireFrame. *)

(* Slip: the fence of the flight is not waited for. *)
SkipFence ==
  /\ renderPc = "fence"
  /\ renderPc' = "acquire"
  /\ UNCHANGED <<loop, flight, host, gpu>>

(* Slip: the fence is reset before an image is known to be acquired. *)
ResetFenceEarly ==
  /\ renderPc = "fence"
  /\ fence[current]
  /\ fence' = [fence EXCEPT ![current] = FALSE]
  /\ renderPc' = "acquire"
  /\ UNCHANGED <<loop, flight, host, readback, work, presents, handOver,
                 imageAvailable, renderComplete>>

WaitFence ==
  /\ renderPc = "fence"
  /\ fence[current]
  /\ renderPc' = "acquire"
  /\ UNCHANGED <<loop, flight, host, gpu>>

(* The engine hands out an image it has taken from its own queue, maybe    *)
(* before it is done with it: the semaphore tells when it is.              *)
AcquireImage(i) ==
  /\ renderPc = "acquire"
  /\ \A p \in DOMAIN presents : presents[p].image # i
  /\ \A f \in Flight : handOver[f] # i
  /\ image' = i
  /\ handOver' = [handOver EXCEPT ![current] = i]
  /\ renderPc' = "image"
  /\ UNCHANGED <<loop, current, imagesInFlight, host, fence, readback, work,
                 presents, imageAvailable, renderComplete>>

OutOfDate ==
  /\ renderPc = "acquire"
  /\ renderPc' = "recreate"
  /\ UNCHANGED <<loop, flight, host, gpu>>

WaitImageFence ==
  /\ renderPc = "image"
  /\ imagesInFlight[image] # None => fence[imagesInFlight[image]]
  /\ imagesInFlight' = [imagesInFlight EXCEPT ![image] = current]
  /\ fence' = [fence EXCEPT ![current] = FALSE]
  /\ renderPc' = "complete"
  /\ UNCHANGED <<loop, current, image, host, readback, work, presents, handOver,
                 imageAvailable, renderComplete>>

-------------------------------------------------------------------------------
(* The pipeline records the flight's command buffer. *)

CompletePendingScreenshot ==
  /\ renderPc = "complete"
  /\ saved' = IF capture[current] = None THEN saved
              ELSE saved \union {[frame |-> capture[current], picture |-> readback[current]]}
  /\ capture' = [capture EXCEPT ![current] = None]
  /\ renderPc' = "prepare"
  /\ UNCHANGED <<loop, flight, staging, recorded, gpu>>

PrepareFrame ==
  /\ renderPc = "prepare"
  /\ staging' = [staging EXCEPT ![current] = displayed]
  /\ renderPc' = "record"
  /\ UNCHANGED <<loop, flight, capture, recorded, saved, gpu>>

RecordProcessing ==
  /\ renderPc = "record"
  /\ IF request = None
     THEN UNCHANGED <<capture, recorded>>
     ELSE /\ capture' = [capture EXCEPT ![current] = request]
          /\ recorded' = recorded \union {[frame |-> request, picture |-> displayed]}
  /\ request' = None
  /\ renderPc' = "submit"
  /\ UNCHANGED <<displayed, screenshot, asked, flight, staging, saved, gpu>>

-------------------------------------------------------------------------------
(* submitAndPresent. *)

(* Slip: one renderComplete semaphore for each flight. *)
RenderCompletePerFlight(f, i) == f + 1

(* The renderComplete semaphore belongs to the image, not to the flight:   *)
(* a fence says nothing about the engine's wait for it.                    *)
RenderCompleteOf(f, i) == i

Submit ==
  /\ renderPc = "submit"
  /\ work' = Append(work, [flight |-> current, image |-> image,
                           picture |-> displayed, captures |-> capture[current] # None])
  /\ renderPc' = "present"
  /\ UNCHANGED <<loop, flight, host, fence, readback, presents, handOver,
                 imageAvailable, renderComplete>>

Present ==
  /\ renderPc = "present"
  /\ presents' = Append(presents, [image |-> image,
                                   semaphore |-> RenderCompleteOf(current, image)])
  /\ current' = (current + 1) % Flights
  /\ image' = None
  /\ renderPc' \in {"loop", "recreate"}
  /\ UNCHANGED <<loop, imagesInFlight, host, fence, readback, work, handOver,
                 imageAvailable, renderComplete>>

-------------------------------------------------------------------------------
(* recreateSwapchain, and the end of the run. *)

DeviceIdle == work = <<>> /\ presents = <<>>

RecreateSwapchain ==
  /\ renderPc = "recreate"
  /\ DeviceIdle
  /\ imagesInFlight' = [i \in Image |-> None]
  /\ renderComplete' = [i \in Image |-> FALSE]
  /\ renderPc' = "loop"
  /\ UNCHANGED <<loop, current, image, host, fence, readback, work, presents,
                 handOver, imageAvailable>>

(* The window is closed while it has no framebuffer, or between two turns. *)
Close ==
  /\ renderPc \in {"loop", "recreate"}
  /\ renderPc' = "exit"
  /\ UNCHANGED <<loop, flight, host, gpu>>

(* Slip: the device is not idle when the screenshots are saved. *)
ExitWithoutWaiting ==
  /\ renderPc = "exit"
  /\ saved' = saved \union {[frame |-> capture[f], picture |-> readback[f]] :
                              f \in {g \in Flight : capture[g] # None}}
  /\ capture' = [f \in Flight |-> None]
  /\ renderPc' = "done"
  /\ UNCHANGED <<loop, flight, staging, recorded, gpu>>

(* Every flight's pending screenshot is saved. *)
Exit ==
  /\ renderPc = "exit"
  /\ DeviceIdle
  /\ saved' = saved \union {[frame |-> capture[f], picture |-> readback[f]] :
                              f \in {g \in Flight : capture[g] # None}}
  /\ capture' = [f \in Flight |-> None]
  /\ renderPc' = "done"
  /\ UNCHANGED <<loop, flight, staging, recorded, gpu>>

(* A Vulkan call, an upload or writing a file throws. *)
Fail ==
  /\ renderPc \notin {"exit", "done", "fail", "failed"}
  /\ renderPc' = "fail"
  /\ UNCHANGED <<loop, flight, host, gpu>>

LeaveFailed ==
  /\ renderPc = "fail"
  /\ DeviceIdle
  /\ renderPc' = "failed"
  /\ UNCHANGED <<loop, flight, host, gpu>>

Finished == renderPc \in {"done", "failed"} /\ UNCHANGED vars

-------------------------------------------------------------------------------
(* The graphics queue and the presentation engine. *)

(* The oldest submission waits for its image, uploads and processes the    *)
(* staged picture, and signals its semaphore and its fence.                *)
Execute ==
  /\ work # <<>>
  /\ LET job == Head(work) IN
       /\ imageAvailable[job.flight]
       /\ imageAvailable' = [imageAvailable EXCEPT ![job.flight] = FALSE]
       /\ renderComplete' =
            [renderComplete EXCEPT ![RenderCompleteOf(job.flight, job.image)] = TRUE]
       /\ readback' = IF job.captures
                      THEN [readback EXCEPT ![job.flight] = staging[job.flight]]
                      ELSE readback
       /\ fence' = [fence EXCEPT ![job.flight] = TRUE]
  /\ work' = Tail(work)
  /\ UNCHANGED <<renderPc, loop, flight, host, presents, handOver>>

(* The engine takes the oldest presented image once it is rendered. *)
TakeImage ==
  /\ presents # <<>>
  /\ renderComplete[Head(presents).semaphore]
  /\ renderComplete' = [renderComplete EXCEPT ![Head(presents).semaphore] = FALSE]
  /\ presents' = Tail(presents)
  /\ UNCHANGED <<renderPc, loop, flight, host, fence, readback, work, handOver,
                 imageAvailable>>

(* The engine is done with an image it has handed out. *)
HandOver(f) ==
  /\ handOver[f] # None
  /\ imageAvailable' = [imageAvailable EXCEPT ![f] = TRUE]
  /\ handOver' = [handOver EXCEPT ![f] = None]
  /\ UNCHANGED <<renderPc, loop, flight, host, fence, readback, work, presents,
                 renderComplete>>

Next ==
  \/ Turn \/ Minimized \/ RequestScreenshot
  \/ WaitFence \/ \E i \in Image : AcquireImage(i) \/ OutOfDate \/ WaitImageFence
  \/ CompletePendingScreenshot \/ PrepareFrame \/ RecordProcessing
  \/ Submit \/ Present \/ RecreateSwapchain
  \/ Close \/ Exit \/ Fail \/ LeaveFailed \/ Finished
  \/ Execute \/ TakeImage \/ \E f \in Flight : HandOver(f)

Spec == Init /\ [][Next]_vars
-------------------------------------------------------------------------------
(* A binary semaphore is free when it is used again: a submission signals  *)
(* a renderComplete the engine no longer waits for, and acquireFrame hands *)
(* out an imageAvailable nobody has still to signal or to wait for.        *)
SemaphoresReusable ==
  /\ work # <<>> /\ imageAvailable[Head(work).flight] =>
       ~renderComplete[RenderCompleteOf(Head(work).flight, Head(work).image)]
  /\ renderPc = "acquire" => ~imageAvailable[current] /\ handOver[current] = None

(* No fence is waited for in vain: a fence that is not signalled belongs   *)
(* to a submission, or to the command buffer being recorded - also after   *)
(* the swapchain had to be recreated.                                      *)
FencesServed ==
  renderPc \notin {"fail", "failed"} =>
    \A f \in Flight :
      \/ fence[f]
      \/ \E j \in DOMAIN work : work[j].flight = f
      \/ f = current /\ renderPc \in {"acquire", "image", "complete", "prepare",
                                      "record", "submit"}

(* What a submission reads is what it was recorded for: its flight's       *)
(* staging buffer is not written again, nor its screenshot given away,     *)
(* before the submission is finished.                                      *)
FlightBuffersStable ==
  \A j \in DOMAIN work :
    /\ staging[work[j].flight] = work[j].picture
    /\ work[j].captures => capture[work[j].flight] # None

(* Every screenshot that was recorded is saved, with the picture it was    *)
(* recorded of, before the run ends.                                       *)
CapturesSurvive ==
  /\ saved \subseteq recorded
  /\ renderPc = "done" => saved = recorded

-------------------------------------------------------------------------------
(* A saved screenshot shows the frame its metadata names. *)
CapturesShowTheirFrame == \A c \in saved : c.frame = c.picture
===============================================================================
