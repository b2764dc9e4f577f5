----------------------------- MODULE InteropLeases -----------------------------
(***************************************************************************)
(* Decoded pictures that stay on the GPU (--decoder-path interop-copy).    *)
(* D3D11 splits each decoded picture into a texture of a copy ring, and a  *)
(* lease of that texture travels through the frame queue to the display    *)
(* slot and to the flights whose Vulkan submissions sample it.  A texture  *)
(* is in use for as long as a lease of it exists anywhere: the lease is    *)
(* shared (shared_ptr), and its destructor gives the texture back.  When   *)
(* the decoder's textures change size a new ring takes over, and the old   *)
(* one lives on in the leases of its textures.                             *)
(*                                                                         *)
(* The queue is the channel of FrameChannel.  Why the decoder cancels a    *)
(* slot or ends, and why the render loop skips a picture, presents one     *)
(* again or leaves, is Playback's matter: here it may do so at any time.   *)
(***************************************************************************)
EXTENDS Integers, Sequences, FiniteSets

CONSTANTS
  Slots,        \* decodeSlots
  Flights,      \* framesInFlight
  MaxPictures,  \* bound: how many pictures are split
  MaxRings,     \* bound: how many rings are made
  None,         \* no lease
  Empty         \* an acquired slot without a lease

(* Slip: the pictures the flights keep are forgotten. *)
RingWithoutFlights == Slots + 1 + 1

RingSize == Slots + Flights + 1 + 1

(* A texture is a place of a ring, and a ring is known by its generation.  *)
Place   == 0 .. RingSize - 1
Texture == (1 .. MaxRings) \X Place
Flight  == 0 .. Flights - 1
Lease   == [texture : Texture, ready : 1 .. MaxPictures]

ASSUME SizesAssumption ==
  /\ {Slots, Flights, MaxPictures, MaxRings} \subseteq Nat \ {0}
  /\ None # Empty /\ None \notin Lease /\ Empty \notin Lease

VARIABLES
  live,          \* LatestFrame queue policy, or every frame of a file
  waiting, writer, reader, closed,    \* the frame queue, whose frames are leases
  decoderPc,
  generation,    \* poolGeneration: the ring in use, 0 before the first
  next,          \* next_: the texture the ring tries first
  attempt,       \* how many textures acquire has found in use
  issued,        \* readyValue_: the fence value given to the latest split
  copies,        \* splits D3D11 has been given and not executed, in order
  signalled,     \* the value of the D3D11 fence
  content,       \* the picture in each texture, known by its fence value
  renderPc,
  displayed,     \* the lease in the display slot
  current,       \* currentFlight_
  externalFrame, \* the lease each flight keeps
  sampled        \* what the unfinished submission of each flight samples

queue     == <<waiting, writer, reader, closed>>
d3d11     == <<copies, signalled, content>>
scan      == <<generation, next, attempt>>
decoding  == <<decoderPc, scan, issued>>
rendering == <<renderPc, displayed, current, externalFrame, sampled>>
vars      == <<live, queue, decoding, d3d11, rendering>>

Queue == INSTANCE FrameChannel WITH
  Capacity <- Slots, Frames <- Lease, NoSlot <- None, EmptySlot <- Empty

Init ==
  /\ live \in BOOLEAN
  /\ Queue!ChannelInit
  /\ decoderPc = "acquire" /\ generation = 0 /\ next = 0 /\ attempt = 0 /\ issued = 0
  /\ copies = <<>> /\ signalled = 0 /\ content = [t \in Texture |-> 0]
  /\ renderPc = "loop" /\ displayed = None /\ current = 0
  /\ externalFrame = [f \in Flight |-> None]
  /\ sampled = [f \in Flight |-> None]

-------------------------------------------------------------------------------
(* Leases that exist, and the textures they keep in use. *)
Held == ({waiting[i] : i \in DOMAIN waiting} \union {writer, reader, displayed}
           \union {externalFrame[f] : f \in Flight}) \ {None, Empty}

InUse == {lease.texture : lease \in Held}

-------------------------------------------------------------------------------
(* The decoder thread. *)

AcquireWrite ==
  /\ decoderPc = "acquire"
  /\ Queue!BeginWrite \/ (live /\ Queue!RecycleOldest)
  /\ decoderPc' = "read"
  /\ UNCHANGED <<live, scan, issued, d3d11, rendering>>

AcquireRefused ==
  /\ decoderPc = "acquire" /\ closed
  /\ decoderPc' = "done"
  /\ UNCHANGED <<live, queue, scan, issued, d3d11, rendering>>

(* The ring in use is of the size of the decoded texture, or one that is   *)
(* takes its place.                                                        *)
ChooseRing ==
  /\ decoderPc = "read" /\ issued < MaxPictures
  /\ \/ generation > 0 /\ UNCHANGED <<generation, next>>
     \/ generation < MaxRings /\ generation' = generation + 1 /\ next' = 0
  /\ decoderPc' = "scan"
  /\ UNCHANGED <<live, queue, attempt, issued, d3d11, rendering>>

(* acquire tries the textures one by one, from next_, while the render     *)
(* loop may be giving others back; when it has tried them all it throws,   *)
(* which RingNeverExhausted excludes.                                      *)
Candidate == <<generation, (next + attempt) % RingSize>>

SkipTexture ==
  /\ decoderPc = "scan"
  /\ attempt < RingSize /\ Candidate \in InUse
  /\ attempt' = attempt + 1
  /\ UNCHANGED <<live, queue, decoderPc, generation, next, issued, d3d11, rendering>>

TakeTexture ==
  /\ decoderPc = "scan"
  /\ attempt < RingSize /\ Candidate \notin InUse
  /\ next' = (Candidate[2] + 1) % RingSize
  /\ attempt' = 0
  /\ UNCHANGED generation

Split(texture, signals) ==
  /\ issued' = issued + 1
  /\ copies' = Append(copies, [texture |-> texture, ready |-> issued + 1,
                               signals |-> signals])
  /\ UNCHANGED <<signalled, content>>

(* Slip: the split is not followed by a signal of the fence. *)
CopyWithoutSignal ==
  /\ TakeTexture
  /\ Split(Candidate, FALSE)
  /\ Queue!Write([texture |-> Candidate, ready |-> issued + 1])
  /\ decoderPc' = "commit"
  /\ UNCHANGED <<live, rendering>>

CopyDecodedFrame ==
  /\ TakeTexture
  /\ Split(Candidate, TRUE)
  /\ Queue!Write([texture |-> Candidate, ready |-> issued + 1])
  /\ decoderPc' = "commit"
  /\ UNCHANGED <<live, rendering>>

(* The signal fails: the split was recorded, the texture is given back and *)
(* the decoder ends with an error.                                         *)
SignalFails ==
  /\ TakeTexture
  /\ Split(Candidate, FALSE)
  /\ Queue!Cancel
  /\ decoderPc' = "end"
  /\ UNCHANGED <<live, rendering>>

CommitWrite ==
  /\ decoderPc = "commit"
  /\ Queue!Commit
  /\ decoderPc' = "acquire"
  /\ UNCHANGED <<live, scan, issued, d3d11, rendering>>

(* A seek makes the slot worthless, before or after the picture is copied. *)
CancelWrite ==
  /\ decoderPc \in {"read", "commit"}
  /\ Queue!Cancel
  /\ decoderPc' = "acquire"
  /\ UNCHANGED <<live, scan, issued, d3d11, rendering>>

(* End of input, a decoder error, or a stop request. *)
EndOfInput ==
  /\ decoderPc = "read"
  /\ Queue!Cancel
  /\ decoderPc' = "end"
  /\ UNCHANGED <<live, scan, issued, d3d11, rendering>>

StopAtEnd ==
  /\ decoderPc = "end"
  /\ Queue!Close
  /\ decoderPc' = "done"
  /\ UNCHANGED <<live, scan, issued, d3d11, rendering>>

-------------------------------------------------------------------------------
(* The two GPU queues. *)

(* D3D11 executes what it was given in order. *)
D3D11Executes ==
  /\ copies # <<>>
  /\ content' = [content EXCEPT ![Head(copies).texture] = Head(copies).ready]
  /\ signalled' = IF Head(copies).signals THEN Head(copies).ready ELSE signalled
  /\ copies' = Tail(copies)
  /\ UNCHANGED <<live, queue, decoding, rendering>>

(* A submission waits for the fence, samples its texture, and signals the  *)
(* fence of its flight.                                                    *)
VulkanFinishes(f) ==
  /\ sampled[f] # None /\ signalled >= sampled[f].ready
  /\ sampled' = [sampled EXCEPT ![f] = None]
  /\ UNCHANGED <<live, queue, decoding, d3d11, renderPc, displayed, current,
                 externalFrame>>

-------------------------------------------------------------------------------
(* The render loop. *)

AcquireRead ==
  /\ renderPc = "loop"
  /\ IF live THEN Queue!ReadNewest ELSE Queue!ReadOldest
  /\ renderPc' = "copy"
  /\ UNCHANGED <<live, decoding, d3d11, displayed, current, externalFrame, sampled>>

CopyOwnedFrame ==
  /\ renderPc = "copy"
  /\ displayed' = reader
  /\ renderPc' = "release"
  /\ UNCHANGED <<live, queue, decoding, d3d11, current, externalFrame, sampled>>

(* Also without a copy: after Home the pictures before the first one are   *)
(* skipped.                                                                *)
ReleaseRead ==
  /\ renderPc \in {"copy", "release"}
  /\ Queue!Release
  /\ renderPc' = "loop"
  /\ UNCHANGED <<live, decoding, d3d11, displayed, current, externalFrame, sampled>>

Home ==
  /\ renderPc = "loop"
  /\ displayed' = None
  /\ Queue!Discard
  /\ UNCHANGED <<live, decoding, d3d11, renderPc, current, externalFrame, sampled>>

(* Slip: the fence of the flight is not waited for. *)
AcquireWithoutFence ==
  /\ renderPc = "loop" /\ displayed # None
  /\ renderPc' = "prepare"
  /\ UNCHANGED <<live, queue, decoding, d3d11, displayed, current, externalFrame,
                 sampled>>

(* acquireFrame waits for the fence of the flight. *)
AcquireFrame ==
  /\ renderPc = "loop" /\ displayed # None
  /\ sampled[current] = None
  /\ renderPc' = "prepare"
  /\ UNCHANGED <<live, queue, decoding, d3d11, displayed, current, externalFrame,
                 sampled>>

PrepareFrame ==
  /\ renderPc = "prepare"
  /\ externalFrame' = [externalFrame EXCEPT ![current] = displayed]
  /\ renderPc' = "submit"
  /\ UNCHANGED <<live, queue, decoding, d3d11, displayed, current, sampled>>

(* Slip: the number of the next flight does not wrap. *)
SubmitWithoutWrap ==
  /\ renderPc = "submit"
  /\ sampled' = [sampled EXCEPT ![current] = externalFrame[current]]
  /\ current' = current + 1
  /\ renderPc' = "loop"
  /\ UNCHANGED <<live, queue, decoding, d3d11, displayed, externalFrame>>

SubmitAndPresent ==
  /\ renderPc = "submit"
  /\ sampled' = [sampled EXCEPT ![current] = externalFrame[current]]
  /\ current' = (current + 1) % Flights
  /\ renderPc' = "loop"
  /\ UNCHANGED <<live, queue, decoding, d3d11, displayed, externalFrame>>

(* The window is closed, or any call of the loop throws. *)
LeaveLoop ==
  /\ renderPc \in {"loop", "copy", "release", "prepare", "submit"}
  /\ Queue!Close
  /\ renderPc' = "join"
  /\ UNCHANGED <<live, decoding, d3d11, displayed, current, externalFrame, sampled>>

JoinDecoder ==
  /\ renderPc = "join" /\ decoderPc = "done"
  /\ renderPc' = "idle"
  /\ UNCHANGED <<live, queue, decoding, d3d11, displayed, current, externalFrame,
                 sampled>>

(* Slip: the leases are dropped while submissions still sample. *)
ReleaseBusyFrames ==
  /\ renderPc = "idle"
  /\ externalFrame' = [f \in Flight |-> None] /\ displayed' = None
  /\ waiting' = <<>> /\ writer' = None /\ reader' = None
  /\ renderPc' = "done"
  /\ UNCHANGED <<live, closed, decoding, d3d11, current, sampled>>

(* waitIdle, then every holder of a lease lets go of it: the flights, the  *)
(* display slot, the queue and the slots of the pool.  The decoder's D3D11 *)
(* resources, the ring among them, are released next.                      *)
ReleaseFrames ==
  /\ renderPc = "idle"
  /\ \A f \in Flight : sampled[f] = None
  /\ externalFrame' = [f \in Flight |-> None] /\ displayed' = None
  /\ waiting' = <<>> /\ writer' = None /\ reader' = None
  /\ renderPc' = "done"
  /\ UNCHANGED <<live, closed, decoding, d3d11, current, sampled>>

Finished == renderPc = "done" /\ UNCHANGED vars

DecoderStep ==
  \/ AcquireWrite \/ AcquireRefused \/ ChooseRing \/ SkipTexture \/ CopyDecodedFrame
  \/ SignalFails \/ CommitWrite \/ CancelWrite \/ EndOfInput \/ StopAtEnd

GpuStep == D3D11Executes \/ \E f \in Flight : VulkanFinishes(f)

(* All of the render loop's but the two steps that touch the imports of    *)
(* TextureImports.                                                         *)
LoopStep ==
  \/ AcquireRead \/ CopyOwnedFrame \/ ReleaseRead \/ Home
  \/ AcquireFrame \/ SubmitAndPresent \/ LeaveLoop \/ JoinDecoder

Next ==
  DecoderStep \/ GpuStep \/ LoopStep \/ PrepareFrame \/ ReleaseFrames \/ Finished

Spec == Init /\ [][Next]_vars
-------------------------------------------------------------------------------
Copy == [texture : Texture, ready : 1 .. MaxPictures, signals : BOOLEAN]

(* Every variable has its type. *)
TypeOK ==
  /\ {live, closed} \subseteq BOOLEAN
  /\ waiting \in Seq(Lease)
  /\ writer \in Lease \union {None, Empty} /\ reader \in Lease \union {None}
  /\ decoderPc \in {"acquire", "read", "scan", "commit", "end", "done"}
  /\ generation \in 0 .. MaxRings
  /\ next \in Place /\ attempt \in 0 .. RingSize
  /\ issued \in 0 .. MaxPictures /\ signalled \in 0 .. MaxPictures
  /\ copies \in Seq(Copy)
  /\ content \in [Texture -> 0 .. MaxPictures]
  /\ renderPc \in {"loop", "copy", "release", "prepare", "submit", "join", "idle",
                   "done"}
  /\ displayed \in Lease \union {None}
  /\ current \in Flight
  /\ externalFrame \in [Flight -> Lease \union {None}]
  /\ sampled \in [Flight -> Lease \union {None}]

(* The ring is large enough: acquire never tries every texture in vain,    *)
(* however many leases the queue, the display slot and the flights keep    *)
(* and whenever they let go of them.                                       *)
RingNeverExhausted == attempt < RingSize

(* What the GPU samples is the picture the submission was recorded for:    *)
(* once the fence value it waits for is reached, its texture holds that    *)
(* picture, and keeps it until the submission is finished.                 *)
SampledPicturesStable ==
  \A f \in Flight : sampled[f] # None /\ signalled >= sampled[f].ready
    => content[sampled[f].texture] = sampled[f].ready

(* No submission waits for ever: the value it waits for was reached, or a  *)
(* split that will signal it is still to be executed.                      *)
WaitsAreServed ==
  \A f \in Flight : sampled[f] # None =>
    \/ signalled >= sampled[f].ready
    \/ \E i \in DOMAIN copies : copies[i].signals /\ copies[i].ready = sampled[f].ready

(* The decoder's D3D11 resources are released when nothing refers to them: *)
(* no lease of the ring exists and no submission samples one.              *)
NothingLeasedAtRelease ==
  renderPc = "done" => Held = {} /\ \A f \in Flight : sampled[f] = None
===============================================================================
