-------------------------- MODULE PresentationProofs --------------------------
(***************************************************************************)
(* Theorems about Presentation, for any number of flights, images,         *)
(* pictures and screenshots: the fences and the semaphores are used as     *)
(* Vulkan demands, what the graphics queue reads is left alone, and no     *)
(* screenshot is lost.                                                     *)
(***************************************************************************)
EXTENDS Presentation, TLAPS

-------------------------------------------------------------------------------
(* The inductive invariant. *)

Job == [flight : Flight, image : Image, picture : Picture, captures : BOOLEAN]

Shot == [frame : Picture \union {None}, picture : Picture \union {None}]

(* Between acquireFrame's last wait and vkQueueSubmit the current flight   *)
(* belongs to the CPU; from the acquisition of its image on, it has one.   *)
Recording == renderPc \in {"complete", "prepare", "record", "submit"}
Holding   == Recording \/ renderPc = "image"
Broken    == renderPc \in {"fail", "failed"}

Places == {"loop", "frame", "fence", "acquire", "image", "complete", "prepare", "record",
           "submit", "present", "recreate", "exit", "done", "fail", "failed"}

(* The submissions that are not finished, the flights they belong to, and  *)
(* the images that wait to be taken.                                       *)
Queued    == {work[j] : j \in DOMAIN work}
Submitted == {job.flight : job \in Queued}
Presented == {presents[p].image : p \in DOMAIN presents}

TypeInv ==
  /\ renderPc \in Places
  /\ displayed \in Picture /\ request \in Picture \union {None}
  /\ current \in Flight
  /\ image \in Image \union {None}
  /\ fence \in [Flight -> BOOLEAN]
  /\ staging \in [Flight -> Picture \union {None}]
  /\ readback \in [Flight -> Picture \union {None}]
  /\ capture \in [Flight -> Picture \union {None}]
  /\ work \in Seq(Job)
  /\ presents \in Seq([image : Image, semaphore : Image])
  /\ handOver \in [Flight -> Image \union {None}]
  /\ imageAvailable \in [Flight -> BOOLEAN]
  /\ renderComplete \in [Image -> BOOLEAN]

(* An image is held exactly from its acquisition to its presentation.      *)
ImageHeld ==
  /\ Holding \/ renderPc = "present" => image # None
  /\ image # None => Holding \/ renderPc = "present" \/ Broken

(* Flights and images are queued once, each image with its own semaphore.  *)
QueuesDistinct ==
  /\ \A i, j \in DOMAIN work :
       i # j => work[i].flight # work[j].flight /\ work[i].image # work[j].image
  /\ \A p, q \in DOMAIN presents : p # q => presents[p].image # presents[q].image
  /\ \A p \in DOMAIN presents : presents[p].semaphore = presents[p].image

(* A fence is unsignalled while its flight is submitted or recorded, and   *)
(* unless a submission failed at no other time.                            *)
FenceInv ==
  /\ \A f \in Submitted : ~fence[f]
  /\ Recording => ~fence[current] /\ current \notin Submitted
  /\ renderPc \in {"acquire", "image"} => fence[current]
  /\ ~Broken => \A f \in Flight : fence[f] \/ f \in Submitted \/ (f = current /\ Recording)

(* An acquisition semaphore is in use only on behalf of a flight that is   *)
(* submitted or holds an image, and signalled once for it.                 *)
AcquireInv ==
  \A f \in Flight :
    /\ handOver[f] # None \/ imageAvailable[f] =>
         \/ f \in Submitted
         \/ f = current /\ (Holding \/ Broken)
    /\ imageAvailable[f] => handOver[f] = None

(* A submission's image has not been taken since, and its semaphore is     *)
(* free; a signalled one belongs to an image that waits to be taken.       *)
ImageInv ==
  /\ \A job \in Queued :
       /\ ~renderComplete[job.image]
       /\ job.image \in Presented \/ job.image = image
  /\ Holding => /\ \A job \in Queued : job.image # image
                /\ ~renderComplete[image]
  /\ Holding \/ renderPc = "present" => image \notin Presented
  /\ \A i \in Image : renderComplete[i] => i \in Presented \/ i = image

(* What a submission reads stays what it was recorded for.                 *)
BufferInv ==
  /\ \A job \in Queued :
       /\ staging[job.flight] = job.picture
       /\ job.captures <=> capture[job.flight] # None
  /\ renderPc \in {"record", "submit"} => staging[current] = displayed

(* The screenshot that saving flight f's capture will give.                *)
Unread(f) == f \in Submitted \/ (f = current /\ renderPc = "submit")
ShotOf(f) == [frame |-> capture[f],
              picture |-> IF Unread(f) THEN staging[f] ELSE readback[f]]

Pending == {f \in Flight : capture[f] # None}

(* What was recorded is saved or pending, and nothing else is.             *)
CaptureInv ==
  /\ saved \subseteq recorded
  /\ ~Broken => recorded = saved \union {ShotOf(f) : f \in Pending}
  /\ renderPc \in {"prepare", "record"} => current \notin Pending
  /\ renderPc = "done" => saved = recorded

PresentationInv ==
  /\ TypeInv
  /\ ImageHeld
  /\ QueuesDistinct
  /\ FenceInv
  /\ AcquireInv
  /\ ImageInv
  /\ BufferInv
  /\ CaptureInv

-------------------------------------------------------------------------------
(* The two queues as sets. *)

(* What appending does to a sequence's places. *)
LEMMA Appended ==
  ASSUME NEW S, NEW s \in Seq(S), NEW e \in S
  PROVE  /\ Append(s, e) \in Seq(S)
         /\ DOMAIN Append(s, e) = DOMAIN s \union {Len(s) + 1}
         /\ Len(s) + 1 \notin DOMAIN s
         /\ Append(s, e)[Len(s) + 1] = e
         /\ \A i \in DOMAIN s : Append(s, e)[i] = s[i]
  OBVIOUS

(* And what removing the head does. *)
LEMMA HeadRemoved ==
  ASSUME NEW S, NEW s \in Seq(S), s # <<>>
  PROVE  /\ Tail(s) \in Seq(S)
         /\ 1 \in DOMAIN s /\ Head(s) = s[1] /\ Head(s) \in S
         /\ \A i \in DOMAIN Tail(s) : /\ i + 1 \in DOMAIN s \ {1}
                                      /\ Tail(s)[i] = s[i + 1]
         /\ \A i \in DOMAIN s \ {1} : /\ i - 1 \in DOMAIN Tail(s)
                                      /\ Tail(s)[i - 1] = s[i]
         /\ \A i, j \in DOMAIN Tail(s) : i # j => i + 1 # j + 1
  OBVIOUS

(* A submission is queued. *)
LEMMA WorkAppended ==
  ASSUME TypeInv, QueuesDistinct, NEW job \in Job,
         work' = Append(work, job), presents' = presents,
         job.flight \notin Submitted, \A q \in Queued : q.image # job.image
  PROVE  /\ work' \in Seq(Job) /\ QueuesDistinct'
         /\ Queued' = Queued \union {job} /\ Presented' = Presented
         /\ Submitted' = Submitted \union {job.flight}
  <1>1. /\ work' \in Seq(Job)
        /\ DOMAIN work' = DOMAIN work \union {Len(work) + 1}
        /\ Len(work) + 1 \notin DOMAIN work
        /\ work'[Len(work) + 1] = job
        /\ \A i \in DOMAIN work : work'[i] = work[i]
    BY Appended DEF TypeInv
  <1>2. Queued' = Queued \union {job} /\ Presented' = Presented
    BY <1>1 DEF Queued, Presented
  <1>3. Submitted' = Submitted \union {job.flight}
    BY <1>2 DEF Submitted
  <1>4. QueuesDistinct'
    BY <1>1 DEF QueuesDistinct, Queued, Submitted
  <1>. QED BY <1>1, <1>2, <1>3, <1>4

(* The oldest submission is finished. *)
LEMMA WorkTaken ==
  ASSUME TypeInv, QueuesDistinct, work # <<>>, work' = Tail(work), presents' = presents
  PROVE  /\ work' \in Seq(Job) /\ QueuesDistinct'
         /\ Head(work) \in Queued /\ Head(work) \in Job
         /\ Queued' = Queued \ {Head(work)} /\ Presented' = Presented
         /\ Submitted' = Submitted \ {Head(work).flight}
         /\ \A q \in Queued' : /\ q.flight # Head(work).flight
                               /\ q.image # Head(work).image
  <1>1. /\ work' \in Seq(Job)
        /\ 1 \in DOMAIN work /\ Head(work) = work[1]
        /\ \A i \in DOMAIN work' : i + 1 \in DOMAIN work \ {1} /\ work'[i] = work[i + 1]
        /\ \A i \in DOMAIN work \ {1} : i - 1 \in DOMAIN work' /\ work'[i - 1] = work[i]
        /\ \A i, j \in DOMAIN work' : i # j => i + 1 # j + 1
    BY HeadRemoved DEF TypeInv
  <1>2. \A i \in DOMAIN work \ {1} : work[i].flight # work[1].flight /\ work[i].image # work[1].image
    BY <1>1 DEF QueuesDistinct
  <1>3. Queued' = Queued \ {Head(work)}
    <2>1. ASSUME NEW q \in Queued' PROVE q \in Queued \ {Head(work)}
      BY <1>1, <1>2 DEF Queued
    <2>2. ASSUME NEW q \in Queued \ {Head(work)} PROVE q \in Queued'
      BY <1>1 DEF Queued
    <2>. QED BY <2>1, <2>2
  <1>4. \A q \in Queued' : q.flight # Head(work).flight /\ q.image # Head(work).image
    BY <1>1, <1>2 DEF Queued
  <1>5. Head(work) \in Queued /\ Head(work) \in Job /\ Presented' = Presented
    BY <1>1 DEF Queued, Presented, TypeInv
  <1>6. Submitted' = Submitted \ {Head(work).flight}
    BY <1>3, <1>4, <1>5 DEF Submitted
  <1>7. QueuesDistinct'
    BY <1>1 DEF QueuesDistinct
  <1>. QED BY <1>1, <1>3, <1>4, <1>5, <1>6, <1>7

(* An image is presented. *)
LEMMA PresentsAppended ==
  ASSUME TypeInv, QueuesDistinct, NEW i \in Image, i \notin Presented,
         presents' = Append(presents, [image |-> i, semaphore |-> i]), work' = work
  PROVE  /\ presents' \in Seq([image : Image, semaphore : Image]) /\ QueuesDistinct'
         /\ Presented' = Presented \union {i} /\ Queued' = Queued /\ Submitted' = Submitted
  <1> DEFINE e == [image |-> i, semaphore |-> i]
  <1>1. /\ presents' \in Seq([image : Image, semaphore : Image])
        /\ DOMAIN presents' = DOMAIN presents \union {Len(presents) + 1}
        /\ Len(presents) + 1 \notin DOMAIN presents
        /\ presents'[Len(presents) + 1] = e
        /\ \A p \in DOMAIN presents : presents'[p] = presents[p]
    <2>1. e \in [image : Image, semaphore : Image]
      OBVIOUS
    <2>. QED BY <2>1, Appended DEF TypeInv
  <1>2. Presented' = Presented \union {i} /\ Queued' = Queued
    BY <1>1 DEF Queued, Presented
  <1>3. QueuesDistinct'
    BY <1>1 DEF QueuesDistinct, Presented
  <1>. QED BY <1>1, <1>2, <1>3 DEF Submitted

(* The engine takes the oldest presented image. *)
LEMMA PresentsTaken ==
  ASSUME TypeInv, QueuesDistinct, presents # <<>>, presents' = Tail(presents), work' = work
  PROVE  /\ presents' \in Seq([image : Image, semaphore : Image]) /\ QueuesDistinct'
         /\ Head(presents).image \in Image
         /\ Head(presents).semaphore = Head(presents).image
         /\ Head(presents).image \in Presented
         /\ Presented' = Presented \ {Head(presents).image}
         /\ Queued' = Queued /\ Submitted' = Submitted
  <1>1. /\ presents' \in Seq([image : Image, semaphore : Image])
        /\ 1 \in DOMAIN presents /\ Head(presents) = presents[1]
        /\ Head(presents) \in [image : Image, semaphore : Image]
        /\ \A p \in DOMAIN presents' : /\ p + 1 \in DOMAIN presents \ {1}
                                       /\ presents'[p] = presents[p + 1]
        /\ \A p \in DOMAIN presents \ {1} : /\ p - 1 \in DOMAIN presents'
                                            /\ presents'[p - 1] = presents[p]
        /\ \A p, q \in DOMAIN presents' : p # q => p + 1 # q + 1
    BY HeadRemoved DEF TypeInv
  <1>2. \A p \in DOMAIN presents \ {1} : presents[p].image # presents[1].image
    BY <1>1 DEF QueuesDistinct
  <1>3. Presented' = Presented \ {Head(presents).image}
    <2>1. ASSUME NEW i \in Presented' PROVE i \in Presented \ {Head(presents).image}
      BY <1>1, <1>2 DEF Presented
    <2>2. ASSUME NEW i \in Presented \ {Head(presents).image} PROVE i \in Presented'
      <3>1. PICK p \in DOMAIN presents : i = presents[p].image
        BY DEF Presented
      <3>2. p \in DOMAIN presents \ {1}
        BY <1>1, <3>1
      <3>. QED BY <1>1, <3>1, <3>2 DEF Presented
    <2>. QED BY <2>1, <2>2
  <1>4. /\ Head(presents).image \in Image /\ Head(presents).image \in Presented
        /\ Head(presents).semaphore = Head(presents).image
    BY <1>1 DEF Presented, QueuesDistinct
  <1>5. QueuesDistinct' /\ Queued' = Queued
    BY <1>1 DEF QueuesDistinct, Queued
  <1>. QED BY <1>1, <1>3, <1>4, <1>5 DEF Submitted

(* What is queued is a submission, of a flight and an image. *)
LEMMA QueuedJobs ==
  ASSUME TypeInv
  PROVE  /\ \A job \in Queued : /\ job \in Job
                               /\ job.flight \in Flight /\ job.flight \in Submitted
                               /\ job.image \in Image
         /\ \A i \in Image : i # None
  <1>1. \A job \in Queued : job \in Job
    BY DEF Queued, TypeInv
  <1>. QED BY <1>1, SizesAssumption DEF Submitted, Job

(* Most steps touch neither queue. *)
LEMMA QueuesUntouched ==
  ASSUME QueuesDistinct, UNCHANGED <<work, presents>>
  PROVE  /\ QueuesDistinct' /\ Queued' = Queued
         /\ Submitted' = Submitted /\ Presented' = Presented
  BY DEF QueuesDistinct, Queued, Submitted, Presented

-------------------------------------------------------------------------------
(* The steps of the render loop. *)

(* Steps that touch no buffer, fence, queue or semaphore, and no flight.   *)
LEMMA IdleStep ==
  ASSUME PresentationInv,
         \/ Turn \/ Minimized \/ RequestScreenshot \/ WaitFence \/ OutOfDate \/ Close
         \/ Fail \/ LeaveFailed \/ Finished
  PROVE  PresentationInv'
  <1>. USE DEF PresentationInv
  <1>1. UNCHANGED <<flight, host, gpu>>
    BY DEF Turn, Minimized, RequestScreenshot, WaitFence, OutOfDate, Close, Fail,
       LeaveFailed, Finished, vars
  <1>2. /\ renderPc' \in Places /\ displayed' \in Picture
        /\ request' \in Picture \union {None}
    BY DEF Turn, Minimized, RequestScreenshot, WaitFence, OutOfDate, Close, Fail,
       LeaveFailed, Finished, vars, loop, TypeInv, Places
  <1>3. /\ ~Recording' /\ ~Holding' /\ renderPc' \notin {"image", "present"}
        /\ renderPc' = "acquire" => fence[current]
        /\ renderPc' = "done" => renderPc = "done"
        /\ Broken \/ image # None => Broken'
        /\ ~Broken' => ~Broken /\ ~Recording /\ renderPc \notin {"image", "present"}
    BY DEF Turn, Minimized, RequestScreenshot, WaitFence, OutOfDate, Close, Fail,
       LeaveFailed, Finished, vars, Recording, Holding, Broken, ImageHeld
  <1>4. /\ QueuesDistinct' /\ Queued' = Queued
        /\ Submitted' = Submitted /\ Presented' = Presented
    BY <1>1, QueuesUntouched DEF gpu
  <1>5. TypeInv'
    BY <1>1, <1>2 DEF TypeInv, flight, host, gpu
  <1>6. ImageHeld'
    BY <1>1, <1>3 DEF ImageHeld, flight
  <1>7. FenceInv'
    BY <1>1, <1>3, <1>4 DEF FenceInv, flight, gpu
  <1>8. AcquireInv'
    <2>1. ~Broken' => ~Holding /\ ~Broken
      BY <1>3 DEF Holding
    <2>. QED BY <1>1, <1>4, <2>1 DEF AcquireInv, flight, gpu
  <1>9. ImageInv'
    BY <1>1, <1>3, <1>4 DEF ImageInv, flight, gpu
  <1>10. BufferInv'
    <2>1. renderPc' \notin {"record", "submit"}
      BY <1>3 DEF Recording
    <2>. QED BY <1>1, <1>4, <2>1 DEF BufferInv, host
  <1>11. CaptureInv'
    <2>1. renderPc' \notin {"prepare", "record", "submit"} /\ (~Broken' => renderPc # "submit")
      BY <1>3 DEF Recording
    <2>2. Pending' = Pending
      BY <1>1 DEF Pending, host
    <2>3. ~Broken' => \A f \in Pending : ShotOf(f)' = ShotOf(f)
      BY <1>1, <1>4, <2>1 DEF ShotOf, Unread, flight, host, gpu
    <2>. QED BY <1>1, <1>3, <2>1, <2>2, <2>3 DEF CaptureInv, host
  <1>. QED BY <1>4, <1>5, <1>6, <1>7, <1>8, <1>9, <1>10, <1>11

(* The image that is acquired is in neither queue, and its semaphores are  *)
(* free.                                                                   *)
LEMMA AcquireStep ==
  ASSUME PresentationInv, NEW i \in Image, AcquireImage(i)
  PROVE  PresentationInv'
  <1>. USE DEF PresentationInv
  <1>1. /\ renderPc = "acquire" /\ renderPc' = "image" /\ image' = i
        /\ handOver' = [handOver EXCEPT ![current] = i]
        /\ i \notin Presented
        /\ UNCHANGED <<loop, current, host, fence, readback, work, presents, imageAvailable,
                       renderComplete>>
    BY DEF AcquireImage, Presented
  <1>2. /\ QueuesDistinct' /\ Queued' = Queued
        /\ Submitted' = Submitted /\ Presented' = Presented
    BY <1>1, QueuesUntouched
  <1>3. image = None /\ i # None
    BY <1>1, SizesAssumption DEF ImageHeld, Holding, Recording, Broken
  <1>4. /\ Holding' /\ ~Recording' /\ ~Broken' /\ ~Recording /\ ~Broken /\ ~Holding
    BY <1>1 DEF Holding, Recording, Broken
  <1>5. TypeInv'
    BY <1>1 DEF TypeInv, Places, loop, host
  <1>6. ImageHeld'
    BY <1>1, <1>3, <1>4 DEF ImageHeld
  <1>7. FenceInv'
    BY <1>1, <1>2, <1>4 DEF FenceInv
  <1>8. AcquireInv'
    <2>1. current \notin Submitted
      BY <1>1 DEF FenceInv
    <2>. QED BY <1>1, <1>2, <1>4, <2>1 DEF AcquireInv, TypeInv
  <1>9. ImageInv'
    <2>1. \A job \in Queued : job.image \in Presented
      BY <1>3, QueuedJobs DEF ImageInv
    <2>2. ~renderComplete[i] /\ \A k \in Image : renderComplete[k] => k \in Presented
      BY <1>1, <1>3, QueuedJobs DEF ImageInv
    <2>. QED BY <1>1, <1>2, <1>3, <1>4, <2>1, <2>2 DEF ImageInv
  <1>10. BufferInv'
    BY <1>1, <1>2 DEF BufferInv, host
  <1>11. CaptureInv'
    <2>1. Pending' = Pending /\ \A f \in Pending : ShotOf(f)' = ShotOf(f)
      BY <1>1, <1>2 DEF Pending, ShotOf, Unread, host
    <2>. QED BY <1>1, <1>4, <2>1 DEF CaptureInv, host
  <1>. QED BY <1>2, <1>5, <1>6, <1>7, <1>8, <1>9, <1>10, <1>11

(* The fence is reset once nothing can keep the flight from being submitted. *)
LEMMA WaitImageFenceStep ==
  ASSUME PresentationInv, WaitImageFence
  PROVE  PresentationInv'
  <1>. USE DEF PresentationInv
  <1>1. /\ renderPc = "image" /\ renderPc' = "complete"
        /\ fence' = [fence EXCEPT ![current] = FALSE]
        /\ UNCHANGED <<loop, current, image, host, readback, work, presents, handOver,
                       imageAvailable, renderComplete>>
    BY DEF WaitImageFence
  <1>2. /\ QueuesDistinct' /\ Queued' = Queued
        /\ Submitted' = Submitted /\ Presented' = Presented
    BY <1>1, QueuesUntouched
  <1>3. Holding /\ Holding' /\ Recording' /\ ~Broken /\ ~Broken'
    BY <1>1 DEF Holding, Recording, Broken
  <1>4. TypeInv' /\ ImageHeld'
    BY <1>1, <1>3 DEF TypeInv, Places, loop, host, ImageHeld
  <1>5. FenceInv'
    BY <1>1, <1>2, <1>3 DEF FenceInv, TypeInv
  <1>6. AcquireInv' /\ ImageInv'
    BY <1>1, <1>2, <1>3 DEF AcquireInv, ImageInv
  <1>7. BufferInv'
    BY <1>1, <1>2 DEF BufferInv, host
  <1>8. CaptureInv'
    <2>1. Pending' = Pending /\ \A f \in Pending : ShotOf(f)' = ShotOf(f)
      BY <1>1, <1>2 DEF Pending, ShotOf, Unread, host
    <2>. QED BY <1>1, <1>3, <2>1 DEF CaptureInv, host
  <1>. QED BY <1>2, <1>4, <1>5, <1>6, <1>7, <1>8

(* Steps between the fence and the submission: the flight and its image    *)
(* stay the CPU's, and nothing the queues or their semaphores say changes. *)
LEMMA RecordingStep ==
  ASSUME PresentationInv,
         renderPc \in {"complete", "prepare", "record"},
         renderPc' \in {"prepare", "record", "submit"},
         UNCHANGED <<flight, gpu, displayed>>, request' \in Picture \union {None},
         staging' \in [Flight -> Picture \union {None}],
         capture' \in [Flight -> Picture \union {None}],
         \A f \in Flight \ {current} : staging'[f] = staging[f] /\ capture'[f] = capture[f]
  PROVE  /\ TypeInv' /\ ImageHeld' /\ QueuesDistinct' /\ FenceInv' /\ AcquireInv' /\ ImageInv'
         /\ Queued' = Queued /\ Submitted' = Submitted /\ Presented' = Presented
         /\ \A job \in Queued' : /\ staging'[job.flight] = job.picture
                                 /\ job.captures <=> capture'[job.flight] # None
         /\ ~Broken /\ ~Broken' /\ current \in Flight /\ current \notin Submitted
  <1>. USE DEF PresentationInv
  <1>1. /\ QueuesDistinct' /\ Queued' = Queued
        /\ Submitted' = Submitted /\ Presented' = Presented
    BY QueuesUntouched DEF gpu
  <1>2. /\ Recording /\ Recording' /\ Holding /\ Holding' /\ ~Broken /\ ~Broken'
        /\ renderPc' \in Places /\ renderPc' \notin {"acquire", "image", "present"}
    BY DEF Holding, Recording, Broken, Places
  <1>3. TypeInv' /\ ImageHeld'
    BY <1>2 DEF TypeInv, ImageHeld, flight, gpu
  <1>4. FenceInv' /\ AcquireInv' /\ ImageInv'
    BY <1>1, <1>2 DEF FenceInv, AcquireInv, ImageInv, flight, gpu
  <1>5. current \in Flight /\ current \notin Submitted
    BY <1>2 DEF FenceInv, TypeInv
  <1>6. \A job \in Queued : job.flight \in Flight \ {current}
    BY <1>5, QueuedJobs
  <1>. QED BY <1>1, <1>2, <1>3, <1>4, <1>5, <1>6 DEF BufferInv

(* The screenshot of the last time round is saved. *)
LEMMA CompleteStep ==
  ASSUME PresentationInv, CompletePendingScreenshot
  PROVE  PresentationInv'
  <1>. USE DEF PresentationInv
  <1>1. /\ renderPc = "complete" /\ renderPc' = "prepare"
        /\ saved' = IF capture[current] = None THEN saved
                    ELSE saved \union {[frame |-> capture[current],
                                        picture |-> readback[current]]}
        /\ capture' = [capture EXCEPT ![current] = None]
        /\ UNCHANGED <<loop, flight, staging, recorded, gpu>>
    BY DEF CompletePendingScreenshot
  <1>2. /\ TypeInv' /\ ImageHeld' /\ QueuesDistinct' /\ FenceInv' /\ AcquireInv' /\ ImageInv'
        /\ Submitted' = Submitted
        /\ \A job \in Queued' : /\ staging'[job.flight] = job.picture
                                /\ job.captures <=> capture'[job.flight] # None
        /\ ~Broken /\ ~Broken' /\ current \in Flight /\ current \notin Submitted
    BY <1>1, RecordingStep DEF TypeInv, loop
  <1>3. BufferInv'
    BY <1>1, <1>2 DEF BufferInv
  <1>4. CaptureInv'
    <2>1. Pending' = Pending \ {current}
      BY <1>1, <1>2 DEF Pending, TypeInv
    <2>2. \A f \in Pending \ {current} : ShotOf(f)' = ShotOf(f)
      BY <1>1, <1>2 DEF Pending, ShotOf, Unread, TypeInv, flight, gpu
    <2>3. saved' = saved \union {ShotOf(f) : f \in Pending \intersect {current}}
      BY <1>1, <1>2 DEF Pending, ShotOf, Unread
    <2>4. recorded = saved \union {ShotOf(f) : f \in Pending}
      BY <1>2 DEF CaptureInv
    <2>5. {ShotOf(f)' : f \in Pending'} = {ShotOf(f) : f \in Pending \ {current}}
      BY <2>1, <2>2
    <2>6. recorded = saved' \union {ShotOf(f)' : f \in Pending'}
      BY <2>3, <2>4, <2>5
    <2>. QED BY <1>1, <2>1, <2>6 DEF CaptureInv, flight
  <1>. QED BY <1>2, <1>3, <1>4

(* The picture is put into the staging buffer. *)
LEMMA PrepareStep ==
  ASSUME PresentationInv, PrepareFrame
  PROVE  PresentationInv'
  <1>. USE DEF PresentationInv
  <1>1. /\ renderPc = "prepare" /\ renderPc' = "record"
        /\ staging' = [staging EXCEPT ![current] = displayed]
        /\ UNCHANGED <<loop, flight, capture, recorded, saved, gpu>>
    BY DEF PrepareFrame
  <1>2. /\ TypeInv' /\ ImageHeld' /\ QueuesDistinct' /\ FenceInv' /\ AcquireInv' /\ ImageInv'
        /\ Submitted' = Submitted
        /\ \A job \in Queued' : /\ staging'[job.flight] = job.picture
                                /\ job.captures <=> capture'[job.flight] # None
        /\ ~Broken /\ ~Broken' /\ current \in Flight /\ current \notin Submitted
    BY <1>1, RecordingStep DEF TypeInv, loop
  <1>3. BufferInv'
    BY <1>1, <1>2 DEF BufferInv, TypeInv, loop, flight
  <1>4. CaptureInv'
    <2>1. Pending' = Pending /\ current \notin Pending
      BY <1>1 DEF Pending, CaptureInv
    <2>2. \A f \in Pending : ShotOf(f)' = ShotOf(f)
      BY <1>1, <1>2, <2>1 DEF Pending, ShotOf, Unread, TypeInv, flight, gpu
    <2>. QED BY <1>1, <1>2, <2>1, <2>2 DEF CaptureInv, flight
  <1>. QED BY <1>2, <1>3, <1>4

(* The copy of a screenshot is recorded. *)
LEMMA RecordStep ==
  ASSUME PresentationInv, RecordProcessing
  PROVE  PresentationInv'
  <1>. USE DEF PresentationInv
  <1>1. /\ renderPc = "record" /\ renderPc' = "submit" /\ request' = None
        /\ UNCHANGED <<displayed, flight, staging, saved, gpu>>
    BY DEF RecordProcessing
  <1>2. \/ request = None /\ UNCHANGED <<capture, recorded>>
        \/ /\ request # None
           /\ capture' = [capture EXCEPT ![current] = request]
           /\ recorded' = recorded \union {[frame |-> request, picture |-> displayed]}
    BY DEF RecordProcessing
  <1>3. /\ capture' \in [Flight -> Picture \union {None}]
        /\ \A f \in Flight \ {current} : capture'[f] = capture[f]
    BY <1>2 DEF TypeInv
  <1>4. /\ TypeInv' /\ ImageHeld' /\ QueuesDistinct' /\ FenceInv' /\ AcquireInv' /\ ImageInv'
        /\ Submitted' = Submitted
        /\ \A job \in Queued' : /\ staging'[job.flight] = job.picture
                                /\ job.captures <=> capture'[job.flight] # None
        /\ ~Broken /\ ~Broken' /\ current \in Flight /\ current \notin Submitted
    BY <1>1, <1>3, RecordingStep DEF TypeInv
  <1>5. BufferInv'
    BY <1>1, <1>4 DEF BufferInv, flight
  <1>6. CaptureInv'
    <2>1. current \notin Pending /\ staging[current] = displayed
      BY <1>1 DEF CaptureInv, BufferInv
    <2>2. \A f \in Flight \ {current} : ShotOf(f)' = ShotOf(f)
      BY <1>1, <1>3, <1>4 DEF ShotOf, Unread, flight, gpu
    <2>3. CASE request = None
      <3>1. Pending' = Pending
        BY <1>2, <2>3 DEF Pending
      <3>. QED BY <1>1, <1>2, <1>4, <2>1, <2>2, <2>3, <3>1 DEF CaptureInv, Pending
    <2>4. CASE request # None
      <3>1. Pending' = Pending \union {current}
        BY <1>2, <1>4, <2>4 DEF Pending, TypeInv
      <3>2. \A f : f = current => ShotOf(f)' = [frame |-> request, picture |-> displayed]
        BY <1>1, <1>2, <1>4, <2>1, <2>4 DEF ShotOf, Unread, TypeInv, flight
      <3>3. \A f \in Pending : ShotOf(f)' = ShotOf(f)
        BY <2>1, <2>2 DEF Pending
      <3>4. {ShotOf(f)' : f \in Pending'}
              = {ShotOf(f) : f \in Pending} \union {[frame |-> request, picture |-> displayed]}
        BY <3>1, <3>2, <3>3
      <3>5. recorded' = saved' \union {ShotOf(f)' : f \in Pending'}
        BY <1>1, <1>2, <1>4, <2>4, <3>4 DEF CaptureInv
      <3>. QED BY <1>1, <3>5 DEF CaptureInv
    <2>. QED BY <2>3, <2>4
  <1>. QED BY <1>4, <1>5, <1>6

(* The command buffer is submitted. *)
LEMMA SubmitStep ==
  ASSUME PresentationInv, Submit
  PROVE  PresentationInv'
  <1>. USE DEF PresentationInv
  <1> DEFINE job == [flight |-> current, image |-> image, picture |-> displayed,
                     captures |-> capture[current] # None]
  <1>1. /\ renderPc = "submit" /\ renderPc' = "present"
        /\ work' = Append(work, job) /\ presents' = presents
        /\ UNCHANGED <<loop, flight, host, fence, readback, handOver, imageAvailable,
                       renderComplete>>
    BY DEF Submit
  <1>2. Recording /\ Holding /\ ~Recording' /\ ~Holding' /\ ~Broken /\ ~Broken'
    BY <1>1 DEF Recording, Holding, Broken
  <1>3. current \in Flight /\ image \in Image /\ displayed \in Picture
    BY <1>2 DEF TypeInv, ImageHeld
  <1>4. job \in Job
    BY <1>3 DEF Job
  <1>5. /\ work' \in Seq(Job) /\ QueuesDistinct'
        /\ Queued' = Queued \union {job} /\ Presented' = Presented
        /\ Submitted' = Submitted \union {current}
    <2>1. current \notin Submitted /\ \A q \in Queued : q.image # image
      BY <1>2 DEF FenceInv, ImageInv
    <2>. QED BY <1>1, <1>4, <2>1, WorkAppended
  <1>6. TypeInv' /\ ImageHeld'
    BY <1>1, <1>2, <1>3, <1>5 DEF TypeInv, Places, ImageHeld, loop, flight, host
  <1>7. FenceInv'
    BY <1>1, <1>2, <1>5 DEF FenceInv, flight
  <1>8. AcquireInv'
    BY <1>1, <1>2, <1>5 DEF AcquireInv, flight
  <1>9. ImageInv'
    BY <1>1, <1>2, <1>5 DEF ImageInv, flight
  <1>10. BufferInv'
    <2>1. /\ job.flight = current /\ job.picture = displayed
          /\ job.captures = (capture[current] # None)
      OBVIOUS
    <2>2. staging[job.flight] = job.picture /\ (job.captures <=> capture[job.flight] # None)
      BY <1>1, <2>1 DEF BufferInv
    <2>. QED BY <1>1, <1>5, <2>2 DEF BufferInv, host
  <1>11. CaptureInv'
    <2>1. Pending' = Pending
      BY <1>1 DEF Pending, host
    <2>2. \A f \in Pending : ShotOf(f)' = ShotOf(f)
      BY <1>1, <1>5 DEF ShotOf, Unread, flight, host
    <2>. QED BY <1>1, <1>2, <2>1, <2>2 DEF CaptureInv, host
  <1>. QED BY <1>5, <1>6, <1>7, <1>8, <1>9, <1>10, <1>11

(* The image is queued for presentation, and the next flight's turn comes. *)
LEMMA PresentStep ==
  ASSUME PresentationInv, Present
  PROVE  PresentationInv'
  <1>. USE DEF PresentationInv
  <1>1. /\ renderPc = "present" /\ renderPc' \in {"loop", "recreate"}
        /\ presents' = Append(presents, [image |-> image, semaphore |-> image])
        /\ current' = (current + 1) % Flights /\ image' = None
        /\ UNCHANGED <<loop, imagesInFlight, host, fence, readback, work, handOver,
                       imageAvailable, renderComplete>>
    BY DEF Present, RenderCompleteOf
  <1>2. /\ ~Recording /\ ~Holding /\ ~Recording' /\ ~Holding' /\ ~Broken /\ ~Broken'
        /\ renderPc' \in Places \ {"acquire", "image", "present", "prepare", "record",
                                   "submit", "done"}
    BY <1>1 DEF Recording, Holding, Broken, Places
  <1>3. image \in Image /\ image \notin Presented
    BY <1>1 DEF TypeInv, ImageHeld, ImageInv
  <1>4. /\ presents' \in Seq([image : Image, semaphore : Image]) /\ QueuesDistinct'
        /\ Presented' = Presented \union {image} /\ Queued' = Queued
        /\ Submitted' = Submitted
    BY <1>1, <1>3, PresentsAppended
  <1>5. current' \in Flight
    BY <1>1, SizesAssumption DEF TypeInv, Flight
  <1>6. TypeInv' /\ ImageHeld'
    BY <1>1, <1>2, <1>4, <1>5 DEF TypeInv, ImageHeld, loop, host
  <1>7. FenceInv'
    BY <1>1, <1>2, <1>4 DEF FenceInv
  <1>8. AcquireInv'
    BY <1>1, <1>2, <1>4 DEF AcquireInv
  <1>9. ImageInv'
    BY <1>1, <1>2, <1>4 DEF ImageInv
  <1>10. BufferInv'
    BY <1>1, <1>2, <1>4 DEF BufferInv, host
  <1>11. CaptureInv'
    <2>1. Pending' = Pending
      BY <1>1 DEF Pending, host
    <2>2. \A f \in Pending : ShotOf(f)' = ShotOf(f)
      BY <1>1, <1>2, <1>4 DEF ShotOf, Unread, host
    <2>. QED BY <1>1, <1>2, <2>1, <2>2 DEF CaptureInv, host
  <1>. QED BY <1>4, <1>6, <1>7, <1>8, <1>9, <1>10, <1>11

(* Nothing is queued when the swapchain is made anew. *)
LEMMA RecreateStep ==
  ASSUME PresentationInv, RecreateSwapchain
  PROVE  PresentationInv'
  <1>. USE DEF PresentationInv
  <1>1. /\ renderPc = "recreate" /\ renderPc' = "loop"
        /\ renderComplete' = [i \in Image |-> FALSE] /\ work = <<>>
        /\ UNCHANGED <<loop, current, image, host, fence, readback, work, presents, handOver,
                       imageAvailable>>
    BY DEF RecreateSwapchain, DeviceIdle
  <1>2. /\ QueuesDistinct' /\ Queued' = Queued
        /\ Submitted' = Submitted /\ Presented' = Presented
    BY <1>1, QueuesUntouched
  <1>3. /\ ~Recording /\ ~Holding /\ ~Recording' /\ ~Holding' /\ ~Broken /\ ~Broken'
    BY <1>1 DEF Recording, Holding, Broken
  <1>4. Queued = {}
    BY <1>1 DEF Queued
  <1>5. TypeInv' /\ ImageHeld'
    BY <1>1, <1>3 DEF TypeInv, Places, ImageHeld, loop, host
  <1>6. FenceInv' /\ AcquireInv'
    BY <1>1, <1>2, <1>3 DEF FenceInv, AcquireInv
  <1>7. ImageInv'
    BY <1>1, <1>2, <1>3, <1>4 DEF ImageInv
  <1>8. BufferInv'
    BY <1>1, <1>2 DEF BufferInv, host
  <1>9. CaptureInv'
    <2>1. Pending' = Pending /\ \A f \in Pending : ShotOf(f)' = ShotOf(f)
      BY <1>1, <1>2 DEF Pending, ShotOf, Unread, host
    <2>. QED BY <1>1, <1>3, <2>1 DEF CaptureInv, host
  <1>. QED BY <1>2, <1>5, <1>6, <1>7, <1>8, <1>9

(* With the device idle every pending screenshot has been copied. *)
LEMMA ExitStep ==
  ASSUME PresentationInv, Exit
  PROVE  PresentationInv'
  <1>. USE DEF PresentationInv
  <1>1. /\ renderPc = "exit" /\ renderPc' = "done" /\ work = <<>>
        /\ saved' = saved \union {[frame |-> capture[f], picture |-> readback[f]] : f \in Pending}
        /\ capture' = [f \in Flight |-> None]
        /\ UNCHANGED <<loop, flight, staging, recorded, gpu>>
    BY DEF Exit, DeviceIdle, Pending
  <1>2. /\ QueuesDistinct' /\ Queued' = Queued
        /\ Submitted' = Submitted /\ Presented' = Presented
    BY <1>1, QueuesUntouched DEF gpu
  <1>3. /\ ~Recording /\ ~Holding /\ ~Recording' /\ ~Holding' /\ ~Broken /\ ~Broken'
    BY <1>1 DEF Recording, Holding, Broken
  <1>4. Queued = {} /\ Submitted = {}
    BY <1>1 DEF Queued, Submitted
  <1>5. TypeInv' /\ ImageHeld'
    BY <1>1, <1>3 DEF TypeInv, Places, ImageHeld, loop, flight, gpu
  <1>6. FenceInv' /\ AcquireInv' /\ ImageInv'
    BY <1>1, <1>2, <1>3 DEF FenceInv, AcquireInv, ImageInv, flight, gpu
  <1>7. BufferInv'
    BY <1>1, <1>2, <1>4 DEF BufferInv
  <1>8. CaptureInv'
    <2>1. \A f \in Pending : ShotOf(f) = [frame |-> capture[f], picture |-> readback[f]]
      BY <1>1, <1>4 DEF ShotOf, Unread
    <2>2. saved' = recorded
      BY <1>1, <1>3, <2>1 DEF CaptureInv
    <2>3. Pending' = {}
      BY <1>1 DEF Pending
    <2>. QED BY <1>1, <2>2, <2>3 DEF CaptureInv
  <1>. QED BY <1>2, <1>5, <1>6, <1>7, <1>8

-------------------------------------------------------------------------------
(* The steps of the graphics queue and of the presentation engine. *)

(* The oldest submission is executed. *)
LEMMA ExecuteStep ==
  ASSUME PresentationInv, Execute
  PROVE  PresentationInv'
  <1>. USE DEF PresentationInv
  <1> DEFINE job == Head(work)
  <1>1. /\ work # <<>> /\ work' = Tail(work)
        /\ imageAvailable' = [imageAvailable EXCEPT ![job.flight] = FALSE]
        /\ renderComplete' = [renderComplete EXCEPT ![job.image] = TRUE]
        /\ readback' = IF job.captures
                       THEN [readback EXCEPT ![job.flight] = staging[job.flight]]
                       ELSE readback
        /\ fence' = [fence EXCEPT ![job.flight] = TRUE]
        /\ imageAvailable[job.flight]
        /\ UNCHANGED <<renderPc, loop, flight, host, presents, handOver>>
    BY DEF Execute, RenderCompleteOf
  <1>2. /\ work' \in Seq(Job) /\ QueuesDistinct'
        /\ job \in Queued /\ job \in Job
        /\ Queued' = Queued \ {job} /\ Presented' = Presented
        /\ Submitted' = Submitted \ {job.flight}
        /\ \A q \in Queued' : q.flight # job.flight /\ q.image # job.image
    BY <1>1, WorkTaken
  <1>3. /\ Recording' = Recording /\ Holding' = Holding /\ Broken' = Broken
    BY <1>1 DEF Recording, Holding, Broken
  <1>4. /\ job.flight \in Flight /\ job.image \in Image /\ job.flight \in Submitted
        /\ \A q \in Queued : q.flight \in Flight /\ q.image \in Image
    BY <1>2, QueuedJobs
  <1>5. TypeInv' /\ ImageHeld'
    BY <1>1, <1>2, <1>3, <1>4 DEF TypeInv, ImageHeld, loop, flight, host
  <1>6. FenceInv'
    <2>1. \A f \in Flight : fence'[f] = (fence[f] \/ f = job.flight)
      BY <1>1, <1>4 DEF TypeInv
    <2>2. Submitted \subseteq Flight
      BY QueuedJobs DEF Submitted
    <2>. QED BY <1>1, <1>2, <1>3, <1>4, <2>1, <2>2 DEF FenceInv, TypeInv, flight
  <1>7. AcquireInv'
    <2>1. \A f \in Flight : f # job.flight => imageAvailable'[f] = imageAvailable[f]
      BY <1>1 DEF TypeInv
    <2>2. handOver[job.flight] = None /\ ~imageAvailable'[job.flight]
      BY <1>1, <1>4 DEF AcquireInv, TypeInv
    <2>. QED BY <1>1, <1>2, <1>3, <1>4, <2>1, <2>2 DEF AcquireInv, flight
  <1>8. ImageInv'
    <2>1. \A i \in Image : renderComplete'[i] = (renderComplete[i] \/ i = job.image)
      BY <1>1, <1>4 DEF TypeInv
    <2>2. Holding => image \in Image /\ job.image # image
      BY <1>2 DEF ImageInv, ImageHeld, TypeInv
    <2>. QED BY <1>1, <1>2, <1>3, <1>4, <2>1, <2>2 DEF ImageInv, flight
  <1>9. BufferInv'
    BY <1>1, <1>2 DEF BufferInv, loop, flight, host
  <1>10. CaptureInv'
    <2>1. Pending' = Pending
      BY <1>1 DEF Pending, host
    <2>2. ASSUME NEW f \in Pending, ~Broken
          PROVE  ShotOf(f)' = ShotOf(f)
      <3>1. f \in Flight /\ capture[f] # None
        BY DEF Pending
      <3>2. CASE f = job.flight
        <4>1. job.captures /\ readback'[f] = staging[f]
          BY <1>1, <1>2, <1>4, <3>1, <3>2 DEF BufferInv, TypeInv
        <4>2. ~Unread(f)' /\ Unread(f)
          <5>1. renderPc = "submit" => f # current
            BY <1>4, <3>2 DEF FenceInv, Recording
          <5>. QED BY <1>1, <1>2, <1>4, <3>2, <5>1 DEF Unread, flight
        <4>. QED BY <1>1, <4>1, <4>2 DEF ShotOf, host
      <3>3. CASE f # job.flight
        <4>1. readback'[f] = readback[f]
          BY <1>1, <3>1, <3>3 DEF TypeInv
        <4>2. Unread(f)' = Unread(f)
          BY <1>1, <1>2, <3>3 DEF Unread, flight
        <4>. QED BY <1>1, <4>1, <4>2 DEF ShotOf, host
      <3>. QED BY <3>2, <3>3
    <2>. QED BY <1>1, <1>3, <2>1, <2>2 DEF CaptureInv, flight, host
  <1>. QED BY <1>2, <1>5, <1>6, <1>7, <1>8, <1>9, <1>10

(* The engine takes an image. *)
LEMMA TakeImageStep ==
  ASSUME PresentationInv, TakeImage
  PROVE  PresentationInv'
  <1>. USE DEF PresentationInv
  <1> DEFINE taken == Head(presents).image
  <1>1. /\ presents # <<>> /\ presents' = Tail(presents) /\ work' = work
        /\ renderComplete[Head(presents).semaphore]
        /\ renderComplete' = [renderComplete EXCEPT ![Head(presents).semaphore] = FALSE]
        /\ UNCHANGED <<renderPc, loop, flight, host, fence, readback, handOver,
                       imageAvailable>>
    BY DEF TakeImage
  <1>2. /\ presents' \in Seq([image : Image, semaphore : Image]) /\ QueuesDistinct'
        /\ taken \in Image /\ Head(presents).semaphore = taken /\ taken \in Presented
        /\ Presented' = Presented \ {taken}
        /\ Queued' = Queued /\ Submitted' = Submitted
    BY <1>1, PresentsTaken
  <1>3. /\ Recording' = Recording /\ Holding' = Holding /\ Broken' = Broken
    BY <1>1 DEF Recording, Holding, Broken
  <1>4. TypeInv' /\ ImageHeld'
    BY <1>1, <1>2, <1>3 DEF TypeInv, ImageHeld, loop, flight, host
  <1>5. FenceInv' /\ AcquireInv'
    BY <1>1, <1>2, <1>3 DEF FenceInv, AcquireInv, flight
  <1>6. ImageInv'
    <2>1. \A i \in Image : renderComplete'[i] = (renderComplete[i] /\ i # taken)
      BY <1>1, <1>2 DEF TypeInv
    <2>2. \A job \in Queued : job.image \in Image /\ job.image # taken
      BY <1>1, <1>2, QueuedJobs DEF ImageInv
    <2>3. Holding => image \in Image
      BY DEF ImageHeld, TypeInv
    <2>. QED BY <1>1, <1>2, <1>3, <2>1, <2>2, <2>3 DEF ImageInv, flight
  <1>7. BufferInv'
    BY <1>1, <1>2 DEF BufferInv, loop, flight, host
  <1>8. CaptureInv'
    <2>1. Pending' = Pending /\ \A f \in Pending : ShotOf(f)' = ShotOf(f)
      BY <1>1, <1>2 DEF Pending, ShotOf, Unread, flight, host
    <2>. QED BY <1>1, <1>3, <2>1 DEF CaptureInv, flight, host
  <1>. QED BY <1>2, <1>4, <1>5, <1>6, <1>7, <1>8

(* The engine signals that an image is free. *)
LEMMA HandOverStep ==
  ASSUME PresentationInv, NEW f \in Flight, HandOver(f)
  PROVE  PresentationInv'
  <1>. USE DEF PresentationInv
  <1>1. /\ handOver[f] # None
        /\ imageAvailable' = [imageAvailable EXCEPT ![f] = TRUE]
        /\ handOver' = [handOver EXCEPT ![f] = None]
        /\ UNCHANGED <<renderPc, loop, flight, host, fence, readback, work, presents,
                       renderComplete>>
    BY DEF HandOver
  <1>2. /\ QueuesDistinct' /\ Queued' = Queued
        /\ Submitted' = Submitted /\ Presented' = Presented
    BY <1>1, QueuesUntouched
  <1>3. /\ Recording' = Recording /\ Holding' = Holding /\ Broken' = Broken
    BY <1>1 DEF Recording, Holding, Broken
  <1>4. TypeInv' /\ ImageHeld'
    BY <1>1, <1>3 DEF TypeInv, ImageHeld, loop, flight, host
  <1>5. FenceInv' /\ ImageInv'
    BY <1>1, <1>2, <1>3 DEF FenceInv, ImageInv, flight
  <1>6. AcquireInv'
    BY <1>1, <1>2, <1>3 DEF AcquireInv, TypeInv, flight
  <1>7. BufferInv'
    BY <1>1, <1>2 DEF BufferInv, loop, flight, host
  <1>8. CaptureInv'
    <2>1. Pending' = Pending /\ \A g \in Pending : ShotOf(g)' = ShotOf(g)
      BY <1>1, <1>2 DEF Pending, ShotOf, Unread, flight, host
    <2>. QED BY <1>1, <1>3, <2>1 DEF CaptureInv, flight, host
  <1>. QED BY <1>2, <1>4, <1>5, <1>6, <1>7, <1>8

-------------------------------------------------------------------------------
(* The theorems. *)

(* Initially the device is idle and nothing is recorded. *)
LEMMA PresentationInit ==
  Init => PresentationInv
  <1>. SUFFICES ASSUME Init PROVE PresentationInv
    OBVIOUS
  <1>1. Queued = {} /\ Submitted = {} /\ Presented = {} /\ Pending = {}
    BY DEF Init, Queued, Submitted, Presented, Pending
  <1>2. ~Recording /\ ~Holding /\ ~Broken
    BY DEF Init, Recording, Holding, Broken
  <1>3. TypeInv
    BY SizesAssumption DEF Init, TypeInv, Places, Flight, Picture
  <1>4. ImageHeld /\ QueuesDistinct /\ FenceInv /\ AcquireInv /\ ImageInv
    BY <1>1, <1>2 DEF Init, ImageHeld, QueuesDistinct, FenceInv, AcquireInv, ImageInv
  <1>5. BufferInv /\ CaptureInv
    BY <1>1, <1>2 DEF Init, BufferInv, CaptureInv
  <1>. QED BY <1>3, <1>4, <1>5 DEF PresentationInv

(* Every step keeps the invariant. *)
LEMMA PresentationStep ==
  PresentationInv /\ [Next]_vars => PresentationInv'
  <1>. SUFFICES ASSUME PresentationInv, [Next]_vars PROVE PresentationInv'
    OBVIOUS
  <1>1. CASE UNCHANGED vars
    <2>1. UNCHANGED <<renderPc, loop, flight, host, gpu>>
      BY <1>1 DEF vars
    <2>2. /\ QueuesDistinct' /\ Queued' = Queued
          /\ Submitted' = Submitted /\ Presented' = Presented
      BY <2>1, QueuesUntouched DEF PresentationInv, gpu
    <2>3. /\ Recording' = Recording /\ Holding' = Holding /\ Broken' = Broken
      BY <2>1 DEF Recording, Holding, Broken
    <2>4. TypeInv' /\ ImageHeld' /\ FenceInv' /\ AcquireInv'
      BY <2>1, <2>2, <2>3 DEF PresentationInv, TypeInv, ImageHeld, FenceInv, AcquireInv,
         loop, flight, host, gpu
    <2>5. ImageInv' /\ BufferInv'
      BY <2>1, <2>2, <2>3 DEF PresentationInv, ImageInv, BufferInv, loop, flight, host, gpu
    <2>6. CaptureInv'
      <3>1. Pending' = Pending /\ \A f \in Pending : ShotOf(f)' = ShotOf(f)
        BY <2>1, <2>2 DEF Pending, ShotOf, Unread, flight, host, gpu
      <3>. QED BY <2>1, <2>3, <3>1 DEF PresentationInv, CaptureInv, flight, host
    <2>. QED BY <2>2, <2>4, <2>5, <2>6 DEF PresentationInv
  <1>. QED
    BY <1>1, IdleStep, AcquireStep, WaitImageFenceStep, CompleteStep, PrepareStep, RecordStep,
       SubmitStep, PresentStep, RecreateStep, ExitStep, ExecuteStep, TakeImageStep,
       HandOverStep DEF Next

(* The render loop, the graphics queue and the engine agree about who      *)
(* holds which flight, image, semaphore and buffer.                        *)
THEOREM PresentationInvariant == Spec => []PresentationInv
  BY PresentationInit, PresentationStep, PTL DEF Spec

(* Binary semaphores are free whenever they are used again. *)
THEOREM SemaphoresAreReusable == Spec => []SemaphoresReusable
  <1>1. PresentationInv => SemaphoresReusable
    <2>. SUFFICES ASSUME PresentationInv PROVE SemaphoresReusable
      OBVIOUS
    <2>. USE DEF PresentationInv
    <2>1. ASSUME work # <<>>
          PROVE  ~renderComplete[RenderCompleteOf(Head(work).flight, Head(work).image)]
      <3>1. Head(work) \in Queued
        BY <2>1, HeadRemoved DEF Queued, TypeInv
      <3>. QED BY <3>1 DEF ImageInv, RenderCompleteOf
    <2>2. ASSUME renderPc = "acquire"
          PROVE  ~imageAvailable[current] /\ handOver[current] = None
      <3>1. fence[current] /\ ~Holding /\ ~Broken /\ current \in Flight
        BY <2>2 DEF FenceInv, Holding, Recording, Broken, TypeInv
      <3>2. current \notin Submitted
        BY <3>1 DEF FenceInv
      <3>. QED BY <3>1, <3>2 DEF AcquireInv
    <2>. QED BY <2>1, <2>2 DEF SemaphoresReusable
  <1>. QED BY <1>1, PresentationInvariant, PTL

(* Waiting for a fence ends: somebody has still to signal it. *)
THEOREM FencesAreServed == Spec => []FencesServed
  <1>1. PresentationInv => FencesServed
    BY DEF PresentationInv, FenceInv, FencesServed, Broken, Recording, Submitted, Queued
  <1>. QED BY <1>1, PresentationInvariant, PTL

(* Nobody writes what the graphics queue is still to read. *)
THEOREM FlightBuffersAreStable == Spec => []FlightBuffersStable
  <1>1. PresentationInv => FlightBuffersStable
    BY DEF PresentationInv, BufferInv, FlightBuffersStable, Queued
  <1>. QED BY <1>1, PresentationInvariant, PTL

(* No screenshot is lost or saved with another picture. *)
THEOREM CapturesAreSaved == Spec => []CapturesSurvive
  <1>1. PresentationInv => CapturesSurvive
    BY DEF PresentationInv, CaptureInv, CapturesSurvive
  <1>. QED BY <1>1, PresentationInvariant, PTL

-------------------------------------------------------------------------------
(* What a screenshot's metadata names.  A request that acquireFrame leaves *)
(* behind is served by a later picture: no more than that can go wrong.    *)

NeverLater == \A c \in saved : c.frame <= c.picture

RequestInv ==
  /\ request # None => request <= displayed
  /\ \A c \in recorded : c.frame <= c.picture

(* Metadata names the picture that is saved or an earlier one, never one   *)
(* that was displayed after it.                                            *)
THEOREM MetadataIsNeverLater == Spec => []NeverLater
  <1>1. Init => RequestInv
    BY DEF Init, RequestInv
  <1>2. PresentationInv /\ RequestInv /\ [Next]_vars => RequestInv'
    <2>. SUFFICES ASSUME PresentationInv, RequestInv, [Next]_vars PROVE RequestInv'
      OBVIOUS
    <2>t. displayed \in Picture /\ request \in Picture \union {None} /\ Picture \subseteq Nat
      BY SizesAssumption DEF PresentationInv, TypeInv, Picture
    <2>1. CASE Turn
      <3>1. displayed' \in {displayed, displayed + 1} /\ UNCHANGED <<request, recorded>>
        BY <2>1 DEF Turn, host
      <3>. QED BY <2>t, <3>1 DEF RequestInv
    <2>2. CASE RequestScreenshot
      <3>1. displayed' = displayed /\ request' \in {displayed, request} /\ recorded' = recorded
        BY <2>2 DEF RequestScreenshot, host
      <3>. QED BY <2>t, <3>1 DEF RequestInv
    <2>3. CASE RecordProcessing
      <3>1. /\ request' = None /\ displayed' = displayed
            /\ \/ recorded' = recorded
               \/ request # None /\ recorded' = recorded \union {[frame |-> request, picture |-> displayed]}
        BY <2>3 DEF RecordProcessing
      <3>. QED BY <2>t, <3>1 DEF RequestInv
    <2>4. CASE ~Turn /\ ~RequestScreenshot /\ ~RecordProcessing
      <3>1. UNCHANGED <<request, displayed, recorded>>
        BY <2>4 DEF Next, vars, Minimized, WaitFence, AcquireImage, OutOfDate, WaitImageFence,
           CompletePendingScreenshot, PrepareFrame, Submit, Present, RecreateSwapchain, Close,
           Exit, Fail, LeaveFailed, Finished, Execute, TakeImage, HandOver, loop, host
      <3>. QED BY <3>1 DEF RequestInv
    <2>. QED BY <2>1, <2>2, <2>3, <2>4
  <1>3. PresentationInv /\ RequestInv => NeverLater
    BY DEF PresentationInv, CaptureInv, RequestInv, NeverLater
  <1>. QED BY <1>1, <1>2, <1>3, PresentationInvariant, PTL DEF Spec

PromptInv ==
  /\ request # None =>
       /\ request = displayed
       /\ renderPc \in {"fence", "acquire", "image", "complete", "prepare", "record",
                        "fail", "failed"}
  /\ \A c \in recorded : c.frame = c.picture

(* As long as acquireFrame always returns a frame, every screenshot shows  *)
(* the frame its metadata names: a swapchain that is out of date at that   *)
(* call is all that can make the two differ.                               *)
THEOREM OnlyLostFramesAreMisnamed ==
  Spec /\ [][~OutOfDate]_vars => []CapturesShowTheirFrame
  <1>1. Init => PromptInv
    BY DEF Init, PromptInv
  <1>2. PresentationInv /\ PromptInv /\ [Next]_vars /\ [~OutOfDate]_vars => PromptInv'
    <2>. SUFFICES ASSUME PresentationInv, PromptInv, [Next]_vars, [~OutOfDate]_vars
                  PROVE  PromptInv'
      OBVIOUS
    <2>1. CASE Turn
      BY <2>1 DEF Turn, host, PromptInv
    <2>2. CASE RequestScreenshot
      BY <2>2 DEF RequestScreenshot, host, PromptInv
    <2>3. CASE RecordProcessing
      <3>1. /\ request' = None
            /\ \/ recorded' = recorded
               \/ request # None /\ recorded' = recorded \union {[frame |-> request, picture |-> displayed]}
        BY <2>3 DEF RecordProcessing
      <3>. QED BY <3>1 DEF PromptInv
    <2>4. CASE ~Turn /\ ~RequestScreenshot /\ ~RecordProcessing
      <3>1. UNCHANGED <<request, displayed, recorded>>
        BY <2>4 DEF Next, vars, Minimized, WaitFence, AcquireImage, OutOfDate, WaitImageFence,
           CompletePendingScreenshot, PrepareFrame, Submit, Present, RecreateSwapchain, Close,
           Exit, Fail, LeaveFailed, Finished, Execute, TakeImage, HandOver, loop, host
      <3>2. renderPc \in {"fence", "acquire", "image", "complete", "prepare", "record",
                          "fail", "failed"} =>
              renderPc' \in {"fence", "acquire", "image", "complete", "prepare", "record",
                             "fail", "failed"}
        BY <2>4 DEF Next, vars, Minimized, WaitFence, AcquireImage, OutOfDate, WaitImageFence,
           CompletePendingScreenshot, PrepareFrame, Submit, Present, RecreateSwapchain, Close,
           Exit, Fail, LeaveFailed, Finished, Execute, TakeImage, HandOver
      <3>. QED BY <3>1, <3>2 DEF PromptInv
    <2>. QED BY <2>1, <2>2, <2>3, <2>4
  <1>3. PresentationInv /\ PromptInv => CapturesShowTheirFrame
    BY DEF PresentationInv, CaptureInv, PromptInv, CapturesShowTheirFrame
  <1>. QED BY <1>1, <1>2, <1>3, PresentationInvariant, PTL DEF Spec
===============================================================================
