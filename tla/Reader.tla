-------------------------------- MODULE Reader --------------------------------
(***************************************************************************)
(* decode/FFmpegVideoReader.cpp: opening the input and the decoder with    *)
(* its fallback to software, readFrame's loop of receiving, demuxing and   *)
(* sending, how a picture gets into a slot, the keyframe gate of a live    *)
(* VideoToolbox stream, and seekToBeginning.                               *)
(*                                                                         *)
(* FFmpeg is external.  A demuxed packet is its number in the input, and   *)
(* holds one picture, a keyframe or one that needs the picture before it.  *)
(* The decoder holds back Delay pictures, may reject a packet at once or   *)
(* report that later, and gives hardware or software pictures.  The copy   *)
(* ring of the interop path is InteropLeases'.                             *)
(***************************************************************************)
EXTENDS Integers, Sequences

CONSTANTS
  Length,       \* packets of the input
  Keys,         \* which of them are keyframes
  Untimed,      \* which of them carry no timestamp
  Delay,        \* pictures the decoder holds back
  MaxErrors,    \* maxConsecutiveLiveDecodeErrors: 30 in the code
  MaxRejected,  \* bound: good packets the decoder rejects all the same
  MaxSeeks,     \* bound: calls of seekToBeginning
  Requests,     \* the values of --decoder to consider
  None,         \* no result, no failure
  EndOfFile     \* ReadFrameResult::EndOfFile

Hardware == {"D3D11VA", "VideoToolbox"}
Backends == Hardware \union {"Software"}
Packet   == 0 .. Length - 1

(* --decoder-path, and DecodedFrameStorage. *)
Paths       == {"Readback", "Interop", "InteropCopy"}
CpuStorages == {"CpuYuv420P", "CpuNv12"}

(* usesD3D11VulkanInterop. *)
UsesInterop(p) == p # "Readback"

(* What the command line accepts. *)
Accepted(backend, p) == UsesInterop(p) => backend = "D3D11VA"

ASSUME InputAssumption ==
  /\ Length \in Nat \ {0}
  /\ 0 \in Keys /\ Keys \subseteq Packet /\ Untimed \subseteq Packet
  /\ {Delay, MaxErrors, MaxRejected, MaxSeeks} \subseteq Nat
  /\ Requests \subseteq Backends \union {"Auto"}

VARIABLES
  live, requested, path, platform,   \* the run: input, --decoder, --decoder-path, the machine
  pc,                             \* where the reader is
  activeBackend, awaitingLiveKeyframe, consecutiveLiveDecodeErrors,
  draining, frameNumber, fallbackPts,           \* Impl's members
  skipNonKey,       \* codec->skip_frame is AVDISCARD_NONKEY
  transferFormats,  \* the CPU formats the device can transfer a surface to
  transferFormat,   \* successfulTransferFormat
  codecBackend,     \* what the codec was opened with
  surfaces,         \* its pictures are hardware surfaces
  position,         \* the packet the demuxer gives next
  held,             \* pictures in the decoder, oldest first
  fault,            \* a rejection the decoder has yet to report
  ended,            \* the decoder was told that no packet follows
  intact,           \* the decoder has what the next packet refers to
  rejectsLeft, seeksLeft,         \* what is left of the bounds
  decoded,          \* history: pictures decoded since the start or a seek
  keysOffered,      \* history: keyframes sent since the last picture
  result,           \* what readFrame returned last
  failure           \* why it threw, if it did

machine == <<live, requested, path, platform>>
gate    == <<awaitingLiveKeyframe, skipNonKey, consecutiveLiveDecodeErrors>>
numbers == <<draining, frameNumber, fallbackPts>>
formats == <<transferFormats, transferFormat>>
codec   == <<codecBackend, surfaces, held, fault, ended, intact>>
bounds  == <<rejectsLeft, seeksLeft>>
history == <<decoded, keysOffered>>
vars    == <<machine, pc, activeBackend, gate, numbers, formats, codec, position, bounds,
             history, result, failure>>

(* The two marks are told apart from each other and from what they replace. *)
ASSUME MarkAssumption ==
  /\ None # EndOfFile
  /\ {None, EndOfFile} \cap [unit : Packet, number : Nat, pts : Nat, surface : BOOLEAN,
                             storage : CpuStorages \union {"D3D11Nv12"}] = {}
  /\ None \notin CpuStorages \union {"rejected", "draining"}

(* A file starts with a keyframe, a live stream is joined anywhere.        *)
Init ==
  /\ live \in BOOLEAN /\ requested \in Requests /\ platform \in Hardware
  /\ path \in Paths /\ Accepted(requested, path)
  /\ pc = "input" /\ activeBackend = "Software"
  /\ transferFormats = {} /\ transferFormat = None
  /\ awaitingLiveKeyframe = FALSE /\ skipNonKey = FALSE
  /\ consecutiveLiveDecodeErrors = 0
  /\ draining = FALSE /\ frameNumber = 0 /\ fallbackPts = 0
  /\ codecBackend = "Software" /\ surfaces = FALSE
  /\ held = <<>> /\ fault = FALSE /\ ended = FALSE /\ intact = FALSE
  /\ position \in IF live THEN Packet ELSE {0}
  /\ rejectsLeft = MaxRejected /\ seeksLeft = MaxSeeks
  /\ decoded = 0 /\ keysOffered = 0
  /\ result = None /\ failure = None

Throw(why) == failure' = why /\ pc' = "failed"

-------------------------------------------------------------------------------
(* Opening. *)

(* The hardware decoder that is tried. *)
HardwareBackend == IF requested = "Auto" THEN platform ELSE requested

(* gatesLiveKeyframes, for a backend. *)
GatesLiveKeyframes(backend) == live /\ backend = "VideoToolbox"

(* Only VideoToolbox waits, and has not decoded anything it could refer to. *)
ArmLiveKeyframeWait(backend) ==
  IF GatesLiveKeyframes(backend)
  THEN awaitingLiveKeyframe' = TRUE /\ skipNonKey' = TRUE
  ELSE UNCHANGED <<awaitingLiveKeyframe, skipNonKey>>

(* runApplication refuses the strict interop path. *)
Refused == path = "Interop"

(* validateRequestedPath: interop is Windows' only.                          *)
ValidPath == UsesInterop(path) => platform = "D3D11VA"

(* The file or the pipe may not open or hold no H.264 stream.                *)
OpenInput ==
  /\ pc = "input"
  /\ \/ ~Refused /\ ValidPath /\ pc' = "open" /\ UNCHANGED failure
     \/ Throw("input")
  /\ UNCHANGED <<machine, activeBackend, gate, numbers, formats, codec, position, bounds,
                 history, result>>

(* getHardwareFormat: hardware surfaces if FFmpeg offers them. *)
GetHardwareFormat(backend, offered) == backend \in Hardware /\ offered

(* A decoder is open; the stream may still be one that is not supported.    *)
Opened(backend) ==
  /\ activeBackend' = backend /\ codecBackend' = backend
  /\ \E offered \in BOOLEAN : surfaces' = GetHardwareFormat(backend, offered)
  /\ ArmLiveKeyframeWait(backend)
  /\ \/ pc' = "idle" /\ UNCHANGED failure
     \/ Throw("stream")

(* configureHardwareDecoder: only a readback needs formats to transfer to.  *)
ConfigureHardwareDecoder ==
  /\ transferFormats' \in IF UsesInterop(path) THEN {{}} ELSE SUBSET CpuStorages \ {{}}
  /\ transferFormat' = None

(* resetHardwareState.  *)
ResetHardwareState == transferFormats' = {} /\ transferFormat' = None

(* openHardwareDecoder.  It may fail after activeBackend was assigned; only *)
(* an automatic choice then goes on with software.                          *)
OpenHardwareDecoder ==
  /\ pc = "open" /\ requested # "Software"
  /\ \/ HardwareBackend = platform /\ ConfigureHardwareDecoder /\ Opened(HardwareBackend)
     \/ /\ activeBackend' \in {"Software", HardwareBackend}
        /\ \/ ResetHardwareState
           \/ HardwareBackend = platform /\ ConfigureHardwareDecoder
        /\ IF requested = "Auto" THEN pc' = "fallback" /\ UNCHANGED failure
                                 ELSE Throw("open")
        /\ UNCHANGED <<awaitingLiveKeyframe, skipNonKey, codecBackend, surfaces>>
  /\ UNCHANGED <<machine, consecutiveLiveDecodeErrors, numbers, held, fault, ended,
                 intact, position, bounds, history, result>>

OpenSoftwareDecoder ==
  /\ pc = "fallback" \/ (pc = "open" /\ requested = "Software")
  /\ ResetHardwareState
  /\ Opened("Software")
  /\ UNCHANGED <<machine, consecutiveLiveDecodeErrors, numbers, held, fault, ended,
                 intact, position, bounds, history, result>>

-------------------------------------------------------------------------------
(* readFrame. *)

ReadFrame ==
  /\ pc = "idle"
  /\ pc' = "receive" /\ result' = None
  /\ UNCHANGED <<machine, activeBackend, gate, numbers, formats, codec, position, bounds,
                 history, failure>>

(* The decoder has a picture to give. *)
PictureReady == held # <<>> /\ (ended \/ Len(held) > Delay)

(* Slip: an automatic choice does not take note of software pictures. *)
TrustsBackend(picture) == activeBackend

(* The backend after a picture was looked at. *)
BackendAfter(picture) ==
  IF ~picture.surface /\ requested = "Auto" THEN "Software" ELSE activeBackend

(* An explicit backend must give hardware pictures, and software none.     *)
Unusable(picture) ==
  \/ picture.surface /\ activeBackend = "Software"
  \/ ~picture.surface /\ activeBackend \in Hardware /\ requested # "Auto"

(* materializeFrame: what the slot may hold of a picture.  A surface is      *)
(* handed over, or transferred to memory in a format that once worked.       *)
Storages(picture) ==
  IF ~picture.surface THEN {"CpuYuv420P"}
  ELSE IF UsesInterop(path) THEN {"D3D11Nv12"}
  ELSE IF transferFormat # None THEN {transferFormat}
  ELSE transferFormats

(* The picture may have another size, and a transfer or a copy may fail.     *)
Failures(picture) == {"resolution"} \union (IF picture.surface THEN {"transfer"} ELSE {})

ReleaseLiveKeyframeWait ==
  /\ consecutiveLiveDecodeErrors' = 0 /\ awaitingLiveKeyframe' = FALSE
  /\ skipNonKey' = (skipNonKey /\ ~awaitingLiveKeyframe)

(* Any picture opens the gate.  The picture is then transferred and copied, *)
(* gets a timestamp if it has none, and the next number.                    *)
ReceiveFrame ==
  /\ pc = "receive" /\ ~fault /\ PictureReady
  /\ LET picture == Head(held)
         pts == IF live THEN 0
                ELSE IF picture.unit \in Untimed THEN fallbackPts ELSE picture.unit IN
       /\ ReleaseLiveKeyframeWait
       /\ \/ /\ ~Unusable(picture)
             /\ activeBackend' = BackendAfter(picture)
             /\ \E storage \in Storages(picture) :
                  /\ result' = [unit |-> picture.unit, number |-> frameNumber, pts |-> pts,
                                surface |-> picture.surface, storage |-> storage]
                  /\ transferFormat' = IF picture.surface /\ ~UsesInterop(path)
                                       THEN storage ELSE transferFormat
             /\ frameNumber' = frameNumber + 1
             /\ fallbackPts' = IF live THEN fallbackPts ELSE pts + 1
             /\ pc' = "idle"
             /\ UNCHANGED failure
          \/ /\ IF Unusable(picture) THEN Throw("format")
                ELSE \E why \in Failures(picture) : Throw(why)
             /\ UNCHANGED <<activeBackend, result, frameNumber, fallbackPts, transferFormat>>
  /\ held' = Tail(held)
  /\ keysOffered' = 0
  /\ UNCHANGED <<machine, draining, transferFormats, codecBackend, surfaces, fault, ended,
                 intact, position, bounds, decoded>>

ReceiveEndOfFile ==
  /\ pc = "receive" /\ ~fault /\ ended /\ held = <<>>
  /\ result' = EndOfFile /\ pc' = "idle"
  /\ UNCHANGED <<machine, activeBackend, gate, numbers, formats, codec, position, bounds,
                 history, failure>>

(* AVERROR(EAGAIN): a drained decoder has no business asking for more.      *)
ReceiveNothing ==
  /\ pc = "receive" /\ ~fault /\ ~ended /\ ~PictureReady
  /\ IF draining THEN Throw("draining") ELSE pc' = "demux" /\ UNCHANGED failure
  /\ UNCHANGED <<machine, activeBackend, gate, numbers, formats, codec, position, bounds,
                 history, result>>

(* Slip: the gate is not closed again. *)
AbsorbAndGoOn ==
  IF GatesLiveKeyframes(activeBackend) /\ consecutiveLiveDecodeErrors < MaxErrors
  THEN /\ consecutiveLiveDecodeErrors' = consecutiveLiveDecodeErrors + 1
       /\ pc' = "receive"
       /\ UNCHANGED <<awaitingLiveKeyframe, skipNonKey, failure>>
  ELSE Throw("rejected") /\ UNCHANGED gate

(* absorbLiveDecodeError, and what becomes of an error it does not absorb. *)
AbsorbLiveDecodeError ==
  IF GatesLiveKeyframes(activeBackend) /\ consecutiveLiveDecodeErrors < MaxErrors
  THEN /\ consecutiveLiveDecodeErrors' = consecutiveLiveDecodeErrors + 1
       /\ ArmLiveKeyframeWait(activeBackend)
       /\ pc' = "receive"
       /\ UNCHANGED failure
  ELSE Throw("rejected") /\ UNCHANGED gate

ReceiveError ==
  /\ pc = "receive" /\ fault
  /\ fault' = FALSE
  /\ AbsorbLiveDecodeError
  /\ UNCHANGED <<machine, activeBackend, numbers, formats, codecBackend, surfaces, held, ended,
                 intact, position, bounds, history, result>>

(* At the end of the input the decoder is drained. *)
DrainDecoder ==
  /\ pc = "demux" /\ position = Length
  /\ ended' = TRUE /\ draining' = TRUE
  /\ pc' = "receive"
  /\ UNCHANGED <<machine, activeBackend, gate, frameNumber, fallbackPts, formats,
                 codecBackend, surfaces, held, fault, intact, position, bounds, history, result, failure>>

DemuxFails ==
  /\ pc = "demux"
  /\ Throw("demux")
  /\ UNCHANGED <<machine, activeBackend, gate, numbers, formats, codec, position, bounds,
                 history, result>>

(* The decoder, external, on a packet it is sent.  VideoToolbox does not    *)
(* conceal what a packet refers to in vain; at a keyframe FFmpeg may ask    *)
(* again for the format of the pictures.                                    *)
Discarded(packet) == skipNonKey /\ packet \notin Keys
Decodable(packet) == packet \in Keys \/ intact \/ codecBackend # "VideoToolbox"

Decode(packet) ==
  /\ Decodable(packet)
  /\ IF packet \in Keys
     THEN \E offered \in BOOLEAN : surfaces' = GetHardwareFormat(codecBackend, offered)
     ELSE UNCHANGED surfaces
  /\ held' = Append(held, [unit |-> packet, surface |-> surfaces'])
  /\ decoded' = decoded + 1
  /\ intact' = TRUE
  /\ UNCHANGED <<fault, rejectsLeft, gate, failure>> /\ pc' = "receive"

Reject(packet) ==
  /\ IF Decodable(packet) THEN rejectsLeft > 0 /\ rejectsLeft' = rejectsLeft - 1
                          ELSE UNCHANGED rejectsLeft
  /\ intact' = FALSE
  /\ \/ AbsorbLiveDecodeError /\ UNCHANGED fault
     \/ fault' = TRUE /\ pc' = "receive" /\ UNCHANGED <<gate, failure>>
  /\ UNCHANGED <<surfaces, held, decoded>>

SendPacket ==
  /\ pc = "demux" /\ position < Length
  /\ position' = position + 1
  /\ keysOffered' = keysOffered + (IF position \in Keys THEN 1 ELSE 0)
  /\ \/ /\ Discarded(position)
        /\ intact' = FALSE /\ pc' = "receive"
        /\ UNCHANGED <<surfaces, held, fault, decoded, rejectsLeft, gate, failure>>
     \/ ~Discarded(position) /\ (Decode(position) \/ Reject(position))
  /\ UNCHANGED <<machine, activeBackend, numbers, formats, codecBackend, ended, seeksLeft, result>>

-------------------------------------------------------------------------------
(* The demuxer and the decoder forget what they hold. *)
FlushBuffers ==
  /\ position' = 0
  /\ held' = <<>> /\ fault' = FALSE /\ ended' = FALSE /\ intact' = FALSE
  /\ decoded' = 0 /\ keysOffered' = 0

(* Slip: the reader still believes it is draining. *)
RestartStillDraining ==
  frameNumber' = 0 /\ fallbackPts' = 0 /\ UNCHANGED draining

RestartNumbers == frameNumber' = 0 /\ fallbackPts' = 0 /\ draining' = FALSE

(* seekToBeginning, between two reads; a live input ignores it. *)
SeekToBeginning ==
  /\ pc = "idle" /\ seeksLeft > 0
  /\ seeksLeft' = seeksLeft - 1 /\ result' = None
  /\ \/ /\ live
        /\ UNCHANGED <<pc, failure, numbers, position, held, fault, ended, intact, history>>
     \/ /\ ~live
        /\ FlushBuffers /\ RestartNumbers
        /\ UNCHANGED <<pc, failure>>
     \/ /\ ~live
        /\ Throw("seek")
        /\ UNCHANGED <<numbers, position, held, fault, ended, intact, history>>
  /\ UNCHANGED <<machine, activeBackend, gate, formats, codecBackend, surfaces, rejectsLeft>>

(* After an exception the decoder thread ends. *)
Failed == pc = "failed" /\ UNCHANGED vars

Next ==
  \/ OpenInput \/ OpenHardwareDecoder \/ OpenSoftwareDecoder
  \/ ReadFrame \/ ReceiveFrame \/ ReceiveEndOfFile \/ ReceiveNothing \/ ReceiveError
  \/ DrainDecoder \/ DemuxFails \/ SendPacket
  \/ SeekToBeginning \/ Failed

Spec == Init /\ [][Next]_vars

-------------------------------------------------------------------------------
Returned == result \notin {None, EndOfFile}

(* Reading a file gives its pictures in order from the beginning, and again *)
(* after every seek, each with its own number and time, and the end only    *)
(* when all of them were given; a live stream, too, ends only when every    *)
(* picture that was decoded has been given.  And the reader never asks a    *)
(* drained decoder for more, whatever seeks follow the end of the input.    *)
ReadsWholeInput ==
  /\ Returned /\ ~live => /\ result.number = result.unit
                          /\ result.pts = result.unit
  /\ result = EndOfFile => /\ frameNumber = decoded
                           /\ live \/ decoded = Length
  /\ failure # "draining"

(* A live VideoToolbox stream is given up only after more than MaxErrors    *)
(* rejections in a row, of which all but the first were keyframes: after a  *)
(* rejection, the pictures of the broken group do not count as further ones. *)
GivenUpOnKeyframes ==
  failure = "rejected" /\ GatesLiveKeyframes(activeBackend) => keysOffered >= MaxErrors

(* The slots of the frame pools have planes to copy to. *)
PlanesAllocated == ~UsesInterop(path)

(* The reader's own information names the backend the last picture came     *)
(* from, also after an automatic choice met software pictures halfway, and  *)
(* a backend asked for by name gives nothing but its own pictures.  A       *)
(* picture is copied only into planes the pools have, and pictures that are *)
(* read back keep the format of the first transfer that worked.             *)
PictureMatchesReport ==
  Returned => /\ result.surface <=> activeBackend \in Hardware
              /\ result.surface \/ requested \in {"Auto", "Software"}
              /\ result.storage \in CpuStorages <=> PlanesAllocated
              /\ result.surface /\ PlanesAllocated =>
                   /\ result.storage = transferFormat
                   /\ transferFormat \in transferFormats
===============================================================================
