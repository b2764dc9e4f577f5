------------------------------ MODULE ReaderProofs ------------------------------
(***************************************************************************)
(* Theorems about Reader, for every input, every decoder delay and every   *)
(* tolerance: a file is given whole and in order, a live stream is given   *)
(* up only on keyframes, and what the reader says of a picture is true.    *)
(***************************************************************************)
EXTENDS Reader, SequenceTheorems, TLAPS

Picture == [unit : Packet, surface : BOOLEAN]
Answer  == [unit : Packet, number : Nat, pts : Nat, surface : BOOLEAN,
            storage : CpuStorages \union {"D3D11Nv12"}]
Opening == pc \in {"input", "open", "fallback"}

(* Every variable the properties depend on has its type, and the format of *)
(* the transfers is one of those the device offers.                        *)
ReaderTypeOK ==
  /\ live \in BOOLEAN /\ requested \in Requests /\ path \in Paths
  /\ pc \in {"input", "open", "fallback", "idle", "receive", "demux", "failed"}
  /\ activeBackend \in Backends /\ platform \in Hardware
  /\ {awaitingLiveKeyframe, skipNonKey, draining, surfaces, fault, ended, intact}
       \subseteq BOOLEAN
  /\ {consecutiveLiveDecodeErrors, frameNumber, fallbackPts, decoded, keysOffered}
       \subseteq Nat
  /\ transferFormats \subseteq CpuStorages
  /\ transferFormat \in transferFormats \union {None}
  /\ position \in 0 .. Length
  /\ held \in Seq(Picture)
  /\ result \in Answer \union {None, EndOfFile}

(* A result is there between two reads, and a late rejection is reported   *)
(* before anything else is asked of the decoder.                           *)
PhaseInv ==
  /\ failure # None => pc = "failed"
  /\ result # None => pc = "idle"
  /\ fault => pc = "receive"

(* Draining begins at the end of the input.  The pictures that were        *)
(* decoded are the ones given and the ones held, and those of a file are   *)
(* the packets that were read, in their order.                             *)
OrderInv ==
  /\ draining <=> ended
  /\ ended => position = Length
  /\ pc # "failed" => frameNumber + Len(held) = decoded
  /\ ~live => ~skipNonKey
  /\ ~live /\ pc # "failed" => fallbackPts = frameNumber
  /\ ~live /\ pc # "failed" /\ ~fault =>
       /\ decoded = position
       /\ \A i \in 1 .. Len(held) : held[i].unit = frameNumber + i - 1

(* Once a rejection was absorbed, only keyframes are decoded, and each     *)
(* further one is a keyframe that was sent.                                *)
Rejections == consecutiveLiveDecodeErrors + (IF fault THEN 1 ELSE 0)

GateInv ==
  /\ Rejections <= keysOffered + 1
  /\ consecutiveLiveDecodeErrors > 0 => skipNonKey

(* A backend that was asked for by name is the active one. *)
BackendInv ==
  /\ Accepted(requested, path)
  /\ pc = "fallback" => requested = "Auto"
  /\ ~Opening /\ pc # "failed" /\ requested # "Auto" => activeBackend = requested

ReaderInv ==
  /\ ReaderTypeOK /\ PhaseInv /\ OrderInv /\ GateInv /\ BackendInv
  /\ ReadsWholeInput /\ GivenUpOnKeyframes /\ PictureMatchesReport

-------------------------------------------------------------------------------
(* What every proof below uses of the constants. *)
LEMMA ReaderConstants ==
  /\ Length \in Nat \ {0} /\ MaxErrors \in Nat
  /\ None # EndOfFile /\ None \notin Answer /\ EndOfFile \notin Answer
  /\ None \notin CpuStorages /\ None # "rejected" /\ None # "draining"
  /\ Requests \subseteq Backends \union {"Auto"}
  BY InputAssumption, MarkAssumption DEF Answer

(* The picture that is received next, and what the decoder then holds. *)
LEMMA HeldPictures ==
  ASSUME ReaderTypeOK
  PROVE  /\ Len(held) \in Nat /\ (held = <<>> <=> Len(held) = 0)
         /\ held # <<>> =>
              /\ Head(held) \in Picture /\ Head(held) = held[1]
              /\ Tail(held) \in Seq(Picture) /\ Len(Tail(held)) = Len(held) - 1
              /\ \A i \in 1 .. Len(held) - 1 : Tail(held)[i] = held[i + 1]
  <1>1. held \in Seq(Picture)
    BY DEF ReaderTypeOK
  <1>2. Len(held) \in Nat /\ (held = <<>> <=> Len(held) = 0)
    BY <1>1, EmptySeq, LenProperties
  <1>3. held # <<>> => Head(held) = held[1]
    BY <1>1
  <1>. QED BY <1>1, <1>2, <1>3, HeadTailProperties

(* The decoder takes one picture more. *)
LEMMA OneMoreHeld ==
  ASSUME ReaderTypeOK, NEW picture \in Picture
  PROVE  LET more == Append(held, picture) IN
         /\ more \in Seq(Picture) /\ Len(more) = Len(held) + 1
         /\ more[Len(held) + 1] = picture
         /\ \A i \in 1 .. Len(held) : more[i] = held[i]
  BY AppendProperties DEF ReaderTypeOK

(* A rejection that the reader learns of. *)
LEMMA RejectionAbsorbed ==
  ASSUME ReaderTypeOK, GateInv, OrderInv, AbsorbLiveDecodeError
  PROVE  /\ pc' \in {"receive", "failed"}
         /\ consecutiveLiveDecodeErrors' \in Nat
         /\ {awaitingLiveKeyframe', skipNonKey'} \subseteq BOOLEAN
         /\ ~live => pc' = "failed" /\ ~skipNonKey'
         /\ pc' = "receive" => /\ UNCHANGED failure /\ skipNonKey'
                               /\ consecutiveLiveDecodeErrors' = consecutiveLiveDecodeErrors + 1
         /\ pc' = "failed" => /\ failure' = "rejected" /\ UNCHANGED gate
                              /\ GatesLiveKeyframes(activeBackend)
                                   => consecutiveLiveDecodeErrors >= MaxErrors
  <1>t. consecutiveLiveDecodeErrors \in Nat /\ {awaitingLiveKeyframe, skipNonKey} \subseteq BOOLEAN
        /\ MaxErrors \in Nat
    BY ReaderConstants DEF ReaderTypeOK
  <1>1. CASE GatesLiveKeyframes(activeBackend) /\ consecutiveLiveDecodeErrors < MaxErrors
    <2>1. live
      BY <1>1 DEF GatesLiveKeyframes
    <2>. QED BY <1>1, <1>t, <2>1 DEF AbsorbLiveDecodeError, ArmLiveKeyframeWait
  <1>2. CASE ~(GatesLiveKeyframes(activeBackend) /\ consecutiveLiveDecodeErrors < MaxErrors)
    <2>1. failure' = "rejected" /\ pc' = "failed" /\ UNCHANGED gate
      BY <1>2 DEF AbsorbLiveDecodeError, Throw
    <2>. QED BY <1>2, <1>t, <2>1 DEF gate, OrderInv
  <1>. QED BY <1>1, <1>2

-------------------------------------------------------------------------------
(* Types. *)
LEMMA TypesStep ==
  ASSUME ReaderInv, Next
  PROVE  ReaderTypeOK'
  <1>. USE ReaderConstants DEF ReaderInv, ReaderTypeOK, machine, gate, numbers, formats, codec,
           bounds, history
  <1>1. CASE OpenInput
    BY <1>1 DEF OpenInput, Throw
  <1>2. CASE OpenHardwareDecoder
    BY <1>2 DEF OpenHardwareDecoder, ConfigureHardwareDecoder, ResetHardwareState, Opened,
       HardwareBackend, GetHardwareFormat, ArmLiveKeyframeWait, Throw, Backends
  <1>3. CASE OpenSoftwareDecoder
    BY <1>3 DEF OpenSoftwareDecoder, ResetHardwareState, Opened, GetHardwareFormat,
       ArmLiveKeyframeWait, Throw, Backends
  <1>4. CASE ReadFrame
    BY <1>4 DEF ReadFrame, Throw
  <1>5. CASE ReceiveFrame
    <2> DEFINE picture == Head(held)
               pts == IF live THEN 0
                      ELSE IF picture.unit \in Untimed THEN fallbackPts ELSE picture.unit
    <2>1. /\ picture \in Picture /\ held' = Tail(held) /\ held' \in Seq(Picture)
          /\ pts \in Nat /\ keysOffered' = 0
      BY <1>5, HeldPictures DEF ReceiveFrame, PictureReady, Picture, Packet
    <2> HIDE DEF picture, pts
    <2>2. /\ consecutiveLiveDecodeErrors' \in Nat
          /\ {awaitingLiveKeyframe', skipNonKey'} \subseteq BOOLEAN
      BY <1>5 DEF ReceiveFrame, ReleaseLiveKeyframeWait
    <2>3. ASSUME NEW storage \in Storages(picture), ~Unusable(picture),
                 activeBackend' = BackendAfter(picture),
                 result' = [unit |-> picture.unit, number |-> frameNumber, pts |-> pts,
                            surface |-> picture.surface, storage |-> storage],
                 transferFormat' = IF picture.surface /\ ~UsesInterop(path)
                                   THEN storage ELSE transferFormat,
                 frameNumber' = frameNumber + 1,
                 fallbackPts' = IF live THEN fallbackPts ELSE pts + 1,
                 pc' = "idle"
          PROVE  ReaderTypeOK'
      <3>1. storage \in CpuStorages \union {"D3D11Nv12"}
        BY <2>3 DEF Storages, CpuStorages
      <3>2. result' \in Answer
        BY <2>1, <2>3, <3>1 DEF Answer, Picture
      <3>3. transferFormat' \in transferFormats \union {None}
        BY <2>3 DEF Storages
      <3>4. activeBackend' \in Backends
        BY <2>3 DEF BackendAfter, Backends
      <3>. QED BY <1>5, <2>1, <2>2, <2>3, <3>2, <3>3, <3>4 DEF ReceiveFrame
    <2>4. CASE pc' = "failed" /\ UNCHANGED <<activeBackend, result, frameNumber, fallbackPts,
                                             transferFormat>>
      BY <1>5, <2>1, <2>2, <2>4 DEF ReceiveFrame
    <2>. QED BY <1>5, <2>3, <2>4 DEF ReceiveFrame, picture, pts, Throw
  <1>6. CASE ReceiveEndOfFile
    BY <1>6 DEF ReceiveEndOfFile, Throw
  <1>7. CASE ReceiveNothing
    BY <1>7 DEF ReceiveNothing, Throw
  <1>8. CASE ReceiveError
    BY <1>8, RejectionAbsorbed DEF ReceiveError
  <1>9. CASE DrainDecoder
    BY <1>9 DEF DrainDecoder, Throw
  <1>10. CASE DemuxFails
    BY <1>10 DEF DemuxFails, Throw
  <1>11. CASE SendPacket
    <2>1. position' \in 0 .. Length /\ position \in Packet /\ keysOffered' \in Nat
      BY <1>11 DEF SendPacket, Packet
    <2>2. CASE Discarded(position) /\ UNCHANGED <<held, fault, gate>>
      BY <1>11, <2>1, <2>2 DEF SendPacket
    <2>3. CASE Decode(position)
      <3>1. surfaces' \in BOOLEAN
        BY <2>3 DEF Decode, GetHardwareFormat
      <3>2. held' \in Seq(Picture)
        BY <2>1, <2>3, <3>1, OneMoreHeld DEF Decode, Picture
      <3>. QED BY <1>11, <2>1, <2>3, <3>1, <3>2 DEF SendPacket, Decode
    <2>4. CASE Reject(position)
      BY <1>11, <2>1, <2>4, RejectionAbsorbed DEF SendPacket, Reject
    <2>. QED BY <1>11, <2>2, <2>3, <2>4 DEF SendPacket
  <1>12. CASE SeekToBeginning
    <2>1. <<>> \in Seq(Picture) /\ 0 \in 0 .. Length
      BY EmptySeq
    <2>2. CASE FlushBuffers /\ RestartNumbers
      <3>1. /\ UNCHANGED <<machine, activeBackend, gate, formats, surfaces>>
            /\ pc' \in {"idle", "failed"} /\ result' = None
        BY <1>12 DEF SeekToBeginning, Throw
      <3>2. /\ position' = 0 /\ held' = <<>> /\ fault' = FALSE /\ ended' = FALSE
            /\ intact' = FALSE /\ draining' = FALSE
            /\ decoded' = 0 /\ keysOffered' = 0 /\ frameNumber' = 0 /\ fallbackPts' = 0
        BY <2>2 DEF FlushBuffers, RestartNumbers
      <3>3. position' \in 0 .. Length /\ held' \in Seq(Picture)
        BY <2>1, <3>2
      <3>4. {decoded', keysOffered', frameNumber', fallbackPts'} \subseteq Nat
        BY <3>2
      <3>5. {fault', ended', intact', draining'} \subseteq BOOLEAN
        BY <3>2
      <3>. HIDE DEF ReaderInv
      <3>6. ReaderTypeOK'
        BY <3>1, <3>3, <3>4, <3>5 DEF ReaderInv
      <3>. QED BY <3>6
    <2>3. CASE UNCHANGED <<numbers, position, held, fault, ended, intact, history>>
      BY <1>12, <2>3 DEF SeekToBeginning, Throw
    <2>. QED BY <1>12, <2>2, <2>3 DEF SeekToBeginning
  <1>13. CASE Failed
    BY <1>13 DEF Failed, vars
  <1>. QED BY <1>1, <1>2, <1>3, <1>4, <1>5, <1>6, <1>7, <1>8, <1>9, <1>10, <1>11, <1>12, <1>13 DEF Next
(* A result and a late rejection are where they should be. *)
LEMMA PhaseStep ==
  ASSUME ReaderInv, Next
  PROVE  PhaseInv'
  <1>. USE ReaderConstants DEF ReaderInv, machine, gate, numbers, formats, codec, bounds, history, ReaderTypeOK, PhaseInv
  <1>1. CASE OpenInput
    BY <1>1 DEF OpenInput, Throw
  <1>2. CASE OpenHardwareDecoder
    BY <1>2 DEF OpenHardwareDecoder, Opened, Throw
  <1>3. CASE OpenSoftwareDecoder
    BY <1>3 DEF OpenSoftwareDecoder, Opened, Throw
  <1>4. CASE ReadFrame
    BY <1>4 DEF ReadFrame, Throw
  <1>5. CASE ReceiveFrame
    BY <1>5 DEF ReceiveFrame, Throw
  <1>6. CASE ReceiveEndOfFile
    BY <1>6 DEF ReceiveEndOfFile, Throw
  <1>7. CASE ReceiveNothing
    BY <1>7 DEF ReceiveNothing, Throw
  <1>8. CASE ReceiveError
    BY <1>8, RejectionAbsorbed DEF ReceiveError
  <1>9. CASE DrainDecoder
    BY <1>9 DEF DrainDecoder, Throw
  <1>10. CASE DemuxFails
    BY <1>10 DEF DemuxFails, Throw
  <1>11. CASE SendPacket
    BY <1>11, RejectionAbsorbed DEF SendPacket, Decode, Reject
  <1>12. CASE SeekToBeginning
    BY <1>12 DEF SeekToBeginning, FlushBuffers, RestartNumbers, Throw
  <1>13. CASE Failed
    BY <1>13 DEF Failed, vars
  <1>. QED BY <1>1, <1>2, <1>3, <1>4, <1>5, <1>6, <1>7, <1>8, <1>9, <1>10, <1>11, <1>12, <1>13 DEF Next

(* What is counted at the gate. *)
LEMMA GateStep ==
  ASSUME ReaderInv, Next
  PROVE  GateInv'
  <1>. USE ReaderConstants DEF ReaderInv, machine, gate, numbers, formats, codec, bounds, history, ReaderTypeOK, PhaseInv, GateInv, Rejections
  <1>1. CASE OpenInput
    BY <1>1 DEF OpenInput, Throw
  <1>2. CASE OpenHardwareDecoder
    BY <1>2 DEF OpenHardwareDecoder, Opened, ArmLiveKeyframeWait, Throw
  <1>3. CASE OpenSoftwareDecoder
    BY <1>3 DEF OpenSoftwareDecoder, Opened, ArmLiveKeyframeWait, Throw
  <1>4. CASE ReadFrame
    BY <1>4 DEF ReadFrame, Throw
  <1>5. CASE ReceiveFrame
    BY <1>5 DEF ReceiveFrame, ReleaseLiveKeyframeWait, Throw
  <1>6. CASE ReceiveEndOfFile
    BY <1>6 DEF ReceiveEndOfFile, Throw
  <1>7. CASE ReceiveNothing
    BY <1>7 DEF ReceiveNothing, Throw
  <1>8. CASE ReceiveError
    BY <1>8, RejectionAbsorbed DEF ReceiveError
  <1>9. CASE DrainDecoder
    BY <1>9 DEF DrainDecoder, Throw
  <1>10. CASE DemuxFails
    BY <1>10 DEF DemuxFails, Throw
  <1>11. CASE SendPacket
    BY <1>11, RejectionAbsorbed DEF SendPacket, Decode, Reject, Discarded
  <1>12. CASE SeekToBeginning
    BY <1>12 DEF OrderInv, SeekToBeginning, FlushBuffers, RestartNumbers, Throw
  <1>13. CASE Failed
    BY <1>13 DEF Failed, vars
  <1>. QED BY <1>1, <1>2, <1>3, <1>4, <1>5, <1>6, <1>7, <1>8, <1>9, <1>10, <1>11, <1>12, <1>13 DEF Next

(* The backend that is active. *)
LEMMA BackendStep ==
  ASSUME ReaderInv, Next
  PROVE  BackendInv'
  <1>. USE ReaderConstants DEF ReaderInv, machine, gate, numbers, formats, codec, bounds, history, ReaderTypeOK, BackendInv, Opening, Accepted, UsesInterop
  <1>1. CASE OpenInput
    BY <1>1 DEF OpenInput, Throw
  <1>2. CASE OpenHardwareDecoder
    BY <1>2 DEF OpenHardwareDecoder, Opened, Throw, HardwareBackend
  <1>3. CASE OpenSoftwareDecoder
    BY <1>3 DEF OpenSoftwareDecoder, Opened, Throw
  <1>4. CASE ReadFrame
    BY <1>4 DEF ReadFrame, Throw
  <1>5. CASE ReceiveFrame
    BY <1>5 DEF ReceiveFrame, Throw, BackendAfter
  <1>6. CASE ReceiveEndOfFile
    BY <1>6 DEF ReceiveEndOfFile, Throw
  <1>7. CASE ReceiveNothing
    BY <1>7 DEF ReceiveNothing, Throw
  <1>8. CASE ReceiveError
    BY <1>8, RejectionAbsorbed DEF ReceiveError
  <1>9. CASE DrainDecoder
    BY <1>9 DEF DrainDecoder, Throw
  <1>10. CASE DemuxFails
    BY <1>10 DEF DemuxFails, Throw
  <1>11. CASE SendPacket
    BY <1>11, RejectionAbsorbed DEF SendPacket, Decode, Reject
  <1>12. CASE SeekToBeginning
    BY <1>12 DEF SeekToBeginning, FlushBuffers, RestartNumbers, Throw
  <1>13. CASE Failed
    BY <1>13 DEF Failed, vars
  <1>. QED BY <1>1, <1>2, <1>3, <1>4, <1>5, <1>6, <1>7, <1>8, <1>9, <1>10, <1>11, <1>12, <1>13 DEF Next
(* The count and the order of the pictures. *)
LEMMA OrderStep ==
  ASSUME ReaderInv, Next
  PROVE  OrderInv'
  <1>. USE ReaderConstants DEF ReaderInv, machine, gate, numbers, formats, codec, bounds, history, ReaderTypeOK, PhaseInv, OrderInv
  <1>1. CASE OpenInput
    BY <1>1 DEF OpenInput, Throw
  <1>2. CASE OpenHardwareDecoder
    BY <1>2 DEF OpenHardwareDecoder, Opened, ArmLiveKeyframeWait, GatesLiveKeyframes, Throw
  <1>3. CASE OpenSoftwareDecoder
    BY <1>3 DEF OpenSoftwareDecoder, Opened, ArmLiveKeyframeWait, GatesLiveKeyframes, Throw
  <1>4. CASE ReadFrame
    BY <1>4 DEF ReadFrame, Throw
  <1>5. CASE ReceiveFrame
    <2> DEFINE picture == Head(held)
               pts == IF live THEN 0
                      ELSE IF picture.unit \in Untimed THEN fallbackPts ELSE picture.unit
    <2>1. /\ ~fault /\ Len(held) \in Nat /\ Len(held) > 0 /\ picture = held[1] /\ held' = Tail(held)
          /\ Len(Tail(held)) = Len(held) - 1
          /\ \A i \in 1 .. Len(held) - 1 : Tail(held)[i] = held[i + 1]
      BY <1>5, HeldPictures DEF ReceiveFrame, PictureReady
    <2>2. /\ UNCHANGED <<live, draining, ended, position, decoded, fault>>
          /\ ~skipNonKey => ~skipNonKey'
      BY <1>5 DEF ReceiveFrame, ReleaseLiveKeyframeWait
    <2>3. pc' = "failed" \/ /\ frameNumber' = frameNumber + 1
                            /\ fallbackPts' = IF live THEN fallbackPts ELSE pts + 1
      BY <1>5 DEF ReceiveFrame, Throw
    <2>4. ~live => picture.unit = frameNumber /\ pts = frameNumber
      BY <1>5, <2>1 DEF ReceiveFrame
    <2>5. ~live => \A i \in 1 .. Len(held') : held'[i].unit = (frameNumber + 1) + i - 1
      <3>1. SUFFICES ASSUME ~live, NEW i \in 1 .. Len(held')
                     PROVE  held'[i].unit = (frameNumber + 1) + i - 1
        OBVIOUS
      <3>2. i \in 1 .. Len(held) - 1 /\ i + 1 \in 1 .. Len(held) /\ held'[i] = held[i + 1]
        BY <2>1
      <3>3. held[i + 1].unit = frameNumber + (i + 1) - 1
        BY <1>5, <3>1, <3>2 DEF ReceiveFrame
      <3>. QED BY <3>2, <3>3
    <2> HIDE DEF picture, pts
    <2>6. frameNumber + Len(held) = decoded /\ (~live => fallbackPts = frameNumber /\ decoded = position)
      BY <1>5 DEF ReceiveFrame
    <2>. QED BY <2>1, <2>2, <2>3, <2>4, <2>5, <2>6
  <1>6. CASE ReceiveEndOfFile
    BY <1>6 DEF ReceiveEndOfFile, Throw
  <1>7. CASE ReceiveNothing
    BY <1>7 DEF ReceiveNothing, Throw
  <1>8. CASE ReceiveError
    BY <1>8, RejectionAbsorbed DEF ReceiveError
  <1>9. CASE DrainDecoder
    BY <1>9 DEF DrainDecoder, Throw
  <1>10. CASE DemuxFails
    BY <1>10 DEF DemuxFails, Throw
  <1>11. CASE SendPacket
    <2>1. /\ UNCHANGED <<live, draining, ended, frameNumber, fallbackPts>>
          /\ position' = position + 1 /\ ~ended /\ ~fault /\ pc = "demux"
      BY <1>11 DEF SendPacket
    <2>2. CASE Discarded(position) /\ UNCHANGED <<held, fault, decoded, gate>>
      BY <1>11, <2>1, <2>2 DEF SendPacket, Discarded
    <2>3. CASE Decode(position)
      <3>1. PICK picture \in Picture : picture.unit = position /\ held' = Append(held, picture)
        <4>1. [unit |-> position, surface |-> surfaces'] \in Picture
          BY <1>11, <2>3 DEF SendPacket, Decode, GetHardwareFormat, Picture, Packet
        <4>. QED BY <2>3, <4>1 DEF Decode
      <3>2. /\ Len(held') = Len(held) + 1 /\ held'[Len(held) + 1].unit = position
            /\ \A i \in 1 .. Len(held) : held'[i] = held[i]
            /\ Len(held) \in Nat
        BY <3>1, OneMoreHeld, HeldPictures
      <3>3. \A i \in 1 .. Len(held') : i \in 1 .. Len(held) \/ i = Len(held) + 1
        BY <3>2
      <3>4. /\ UNCHANGED <<skipNonKey, fault>> /\ decoded' = decoded + 1 /\ pc' = "receive"
        BY <2>3 DEF Decode
      <3>5. ~live => \A i \in 1 .. Len(held') : held'[i].unit = frameNumber + i - 1
        <4>1. SUFFICES ASSUME ~live, NEW i \in 1 .. Len(held')
                       PROVE  held'[i].unit = frameNumber + i - 1
          OBVIOUS
        <4>2. frameNumber + Len(held) = position
          BY <2>1, <4>1
        <4>3. CASE i \in 1 .. Len(held)
          BY <2>1, <3>2, <4>1, <4>3
        <4>4. CASE i = Len(held) + 1
          BY <3>2, <4>2, <4>4
        <4>. QED BY <3>3, <4>3, <4>4
      <3>. QED BY <2>1, <3>2, <3>4, <3>5
    <2>4. CASE Reject(position)
      BY <2>1, <2>4, RejectionAbsorbed DEF Reject
    <2>. QED BY <1>11, <2>2, <2>3, <2>4 DEF SendPacket
  <1>12. CASE SeekToBeginning
    BY <1>12 DEF SeekToBeginning, FlushBuffers, RestartNumbers, Throw
  <1>13. CASE Failed
    BY <1>13 DEF Failed, vars
  <1>. QED BY <1>1, <1>2, <1>3, <1>4, <1>5, <1>6, <1>7, <1>8, <1>9, <1>10, <1>11, <1>12, <1>13 DEF Next

(* What is returned of a received picture; otherwise readFrame throws. *)
Timestamp(picture) ==
  IF live THEN 0 ELSE IF picture.unit \in Untimed THEN fallbackPts ELSE picture.unit

Gives(picture, storage) ==
  /\ ~Unusable(picture) /\ activeBackend' = BackendAfter(picture)
  /\ result' = [unit |-> picture.unit, number |-> frameNumber, pts |-> Timestamp(picture),
                surface |-> picture.surface, storage |-> storage]
  /\ transferFormat' = IF picture.surface /\ ~UsesInterop(path) THEN storage ELSE transferFormat
  /\ UNCHANGED failure

LEMMA PictureReceived ==
  ASSUME ReaderInv, ReceiveFrame
  PROVE  /\ Head(held) \in Picture /\ result = None /\ failure = None
         /\ UNCHANGED <<machine, transferFormats>>
         /\ ~live => /\ Head(held).unit = frameNumber
                     /\ Timestamp(Head(held)) = frameNumber
         /\ \/ \E storage \in Storages(Head(held)) : Gives(Head(held), storage)
            \/ result' = None /\ failure' \in {"format", "resolution", "transfer"}
  <1>1. /\ Head(held) \in Picture /\ Head(held) = held[1] /\ Len(held) \in Nat /\ Len(held) > 0
    BY HeldPictures DEF ReaderInv, ReceiveFrame, PictureReady
  <1>2. result = None /\ failure = None /\ pc = "receive" /\ ~fault
    BY DEF ReaderInv, PhaseInv, ReceiveFrame
  <1>3. ~live => Head(held).unit = frameNumber /\ fallbackPts = frameNumber
    <2>1. ~live => held[1].unit = frameNumber + 1 - 1 /\ fallbackPts = frameNumber
      BY <1>1, <1>2 DEF ReaderInv, OrderInv
    <2>2. frameNumber \in Nat
      BY DEF ReaderInv, ReaderTypeOK
    <2>. QED BY <1>1, <2>1, <2>2
  <1>4. \/ \E storage \in Storages(Head(held)) : Gives(Head(held), storage)
        \/ UNCHANGED result /\ failure' \in {"format", "resolution", "transfer"}
    BY DEF ReceiveFrame, Throw, Failures, Gives, Timestamp
  <1>5. UNCHANGED <<machine, transferFormats>>
    BY DEF ReceiveFrame
  <1>. QED BY <1>1, <1>2, <1>3, <1>4, <1>5 DEF Timestamp

(* What readFrame returns. *)
LEMMA ReadsStep ==
  ASSUME ReaderInv, Next
  PROVE  ReadsWholeInput'
  <1>. USE ReaderConstants DEF ReaderInv, machine, gate, numbers, formats, codec, bounds, history, ReaderTypeOK, PhaseInv, OrderInv, ReadsWholeInput, Returned
  <1>1. CASE OpenInput
    BY <1>1 DEF OpenInput, Throw
  <1>2. CASE OpenHardwareDecoder
    BY <1>2 DEF OpenHardwareDecoder, Opened, Throw
  <1>3. CASE OpenSoftwareDecoder
    BY <1>3 DEF OpenSoftwareDecoder, Opened, Throw
  <1>4. CASE ReadFrame
    BY <1>4 DEF ReadFrame, Throw
  <1>5. CASE ReceiveFrame
    <2>1. CASE result' = None /\ failure' \in {"format", "resolution", "transfer"}
      BY <2>1
    <2>2. ASSUME NEW storage \in Storages(Head(held)), Gives(Head(held), storage)
          PROVE  ReadsWholeInput'
      <3>1. result' # EndOfFile
        <4>1. storage \in CpuStorages \union {"D3D11Nv12"}
          BY DEF Storages, CpuStorages
        <4>2. /\ Head(held) \in Picture /\ frameNumber \in Nat
              /\ Timestamp(Head(held)) \in Nat
          BY <1>5, PictureReceived DEF Timestamp, Picture, Packet
        <4>3. result' \in Answer
          BY <2>2, <4>1, <4>2 DEF Gives, Answer, Picture
        <4>. QED BY <4>3
      <3>2. /\ ~live => result'.number = result'.unit /\ result'.pts = result'.unit
            /\ UNCHANGED <<live, failure>> /\ failure = None
        BY <1>5, <2>2, PictureReceived DEF Gives
      <3>. QED BY <3>1, <3>2
    <2>. QED BY <1>5, <2>1, <2>2, PictureReceived
  <1>6. CASE ReceiveEndOfFile
    BY <1>6 DEF ReceiveEndOfFile, Throw
  <1>7. CASE ReceiveNothing
    BY <1>7 DEF ReceiveNothing, Throw
  <1>8. CASE ReceiveError
    BY <1>8, RejectionAbsorbed DEF ReceiveError
  <1>9. CASE DrainDecoder
    BY <1>9 DEF DrainDecoder, Throw
  <1>10. CASE DemuxFails
    BY <1>10 DEF DemuxFails, Throw
  <1>11. CASE SendPacket
    BY <1>11, RejectionAbsorbed DEF SendPacket, Decode, Reject
  <1>12. CASE SeekToBeginning
    BY <1>12 DEF SeekToBeginning, FlushBuffers, RestartNumbers, Throw
  <1>13. CASE Failed
    BY <1>13 DEF Failed, vars
  <1>. QED BY <1>1, <1>2, <1>3, <1>4, <1>5, <1>6, <1>7, <1>8, <1>9, <1>10, <1>11, <1>12, <1>13 DEF Next

(* What it takes to give up. *)
LEMMA GivenUpStep ==
  ASSUME ReaderInv, Next
  PROVE  GivenUpOnKeyframes'
  <1>. USE ReaderConstants DEF ReaderInv, machine, gate, numbers, formats, codec, bounds, history, ReaderTypeOK, PhaseInv, GateInv, Rejections, GivenUpOnKeyframes, GatesLiveKeyframes
  <1>1. CASE OpenInput
    BY <1>1 DEF OpenInput, Throw
  <1>2. CASE OpenHardwareDecoder
    BY <1>2 DEF OpenHardwareDecoder, Opened, Throw
  <1>3. CASE OpenSoftwareDecoder
    BY <1>3 DEF OpenSoftwareDecoder, Opened, Throw
  <1>4. CASE ReadFrame
    BY <1>4 DEF ReadFrame, Throw
  <1>5. CASE ReceiveFrame
    BY <1>5 DEF ReceiveFrame, Throw, Failures
  <1>6. CASE ReceiveEndOfFile
    BY <1>6 DEF ReceiveEndOfFile, Throw
  <1>7. CASE ReceiveNothing
    BY <1>7 DEF ReceiveNothing, Throw
  <1>8. CASE ReceiveError
    BY <1>8, RejectionAbsorbed DEF ReceiveError
  <1>9. CASE DrainDecoder
    BY <1>9 DEF DrainDecoder, Throw
  <1>10. CASE DemuxFails
    BY <1>10 DEF DemuxFails, Throw
  <1>11. CASE SendPacket
    BY <1>11, RejectionAbsorbed DEF SendPacket, Decode, Reject, Discarded
  <1>12. CASE SeekToBeginning
    BY <1>12 DEF SeekToBeginning, FlushBuffers, RestartNumbers, Throw
  <1>13. CASE Failed
    BY <1>13 DEF Failed, vars
  <1>. QED BY <1>1, <1>2, <1>3, <1>4, <1>5, <1>6, <1>7, <1>8, <1>9, <1>10, <1>11, <1>12, <1>13 DEF Next

(* What the reader says of the picture it returned. *)
LEMMA MatchesStep ==
  ASSUME ReaderInv, Next
  PROVE  PictureMatchesReport'
  <1>. USE ReaderConstants DEF ReaderInv, machine, gate, numbers, formats, codec, bounds, history, ReaderTypeOK, PhaseInv, PictureMatchesReport, Returned, PlanesAllocated
  <1>1. CASE OpenInput
    BY <1>1 DEF OpenInput, Throw
  <1>2. CASE OpenHardwareDecoder
    BY <1>2 DEF OpenHardwareDecoder, Opened, Throw
  <1>3. CASE OpenSoftwareDecoder
    BY <1>3 DEF OpenSoftwareDecoder, Opened, Throw
  <1>4. CASE ReadFrame
    BY <1>4 DEF ReadFrame, Throw
  <1>5. CASE ReceiveFrame
    <2>1. CASE result' = None
      BY <2>1
    <2>2. ASSUME NEW storage \in Storages(Head(held)), Gives(Head(held), storage)
          PROVE  PictureMatchesReport'
      <3> DEFINE picture == Head(held)
      <3>1. /\ picture \in Picture /\ UNCHANGED <<requested, path, transferFormats>>
            /\ picture.surface \in BOOLEAN
        BY <1>5, PictureReceived DEF Picture
      <3>2. /\ result'.surface = picture.surface /\ result'.storage = storage
            /\ transferFormat' = IF picture.surface /\ ~UsesInterop(path)
                                 THEN storage ELSE transferFormat
        BY <2>2 DEF Gives
      <3>3. /\ ~Unusable(picture) /\ activeBackend' = BackendAfter(picture)
        BY <2>2 DEF Gives
      <3> HIDE DEF picture
      <3>4. requested \in Backends \union {"Auto"} /\ activeBackend \in Backends
        OBVIOUS
      <3>5. /\ Accepted(requested, path)
            /\ requested # "Auto" => activeBackend = requested
        BY <1>5 DEF ReceiveFrame, BackendInv, Opening
      <3>6. picture.surface <=> activeBackend' \in Hardware
        BY <3>1, <3>3, <3>4 DEF Unusable, BackendAfter, Backends, Hardware
      <3>7. picture.surface \/ requested \in {"Auto", "Software"}
        BY <3>1, <3>3, <3>4, <3>5 DEF Unusable, Backends
      <3>8. storage \in CpuStorages <=> ~UsesInterop(path)
        <4>1. ~picture.surface => ~UsesInterop(path)
          BY <3>3, <3>5 DEF Accepted, Unusable, Hardware
        <4>2. storage \in IF ~picture.surface THEN {"CpuYuv420P"}
                          ELSE IF UsesInterop(path) THEN {"D3D11Nv12"} ELSE CpuStorages
          BY DEF Storages, picture
        <4>. QED BY <4>1, <4>2 DEF CpuStorages
      <3>9. picture.surface /\ ~UsesInterop(path) =>
              storage = transferFormat' /\ transferFormat' \in transferFormats'
        <4>1. picture.surface /\ ~UsesInterop(path) => storage \in transferFormats
          BY DEF Storages, picture
        <4>. QED BY <3>1, <3>2, <4>1
      <3>10. UNCHANGED UsesInterop(path)
        BY <3>1
      <3>. QED BY <3>1, <3>2, <3>6, <3>7, <3>8, <3>9, <3>10
    <2>. QED BY <1>5, <2>1, <2>2, PictureReceived
  <1>6. CASE ReceiveEndOfFile
    BY <1>6 DEF ReceiveEndOfFile, Throw
  <1>7. CASE ReceiveNothing
    BY <1>7 DEF ReceiveNothing, Throw
  <1>8. CASE ReceiveError
    BY <1>8, RejectionAbsorbed DEF ReceiveError
  <1>9. CASE DrainDecoder
    BY <1>9 DEF DrainDecoder, Throw
  <1>10. CASE DemuxFails
    BY <1>10 DEF DemuxFails, Throw
  <1>11. CASE SendPacket
    BY <1>11, RejectionAbsorbed DEF SendPacket, Decode, Reject
  <1>12. CASE SeekToBeginning
    BY <1>12 DEF SeekToBeginning, FlushBuffers, RestartNumbers, Throw
  <1>13. CASE Failed
    BY <1>13 DEF Failed, vars
  <1>. QED BY <1>1, <1>2, <1>3, <1>4, <1>5, <1>6, <1>7, <1>8, <1>9, <1>10, <1>11, <1>12, <1>13 DEF Next
-------------------------------------------------------------------------------
(* The invariant holds initially and is kept by every step. *)
LEMMA ReaderInit ==
  Init => ReaderInv
  <1>. SUFFICES ASSUME Init PROVE ReaderInv
    OBVIOUS
  <1>. USE ReaderConstants
  <1>1. <<>> \in Seq(Picture) /\ Len(<<>>) = 0
    BY EmptySeq
  <1>2. position \in 0 .. Length /\ (~live => position = 0)
    BY DEF Init, Packet
  <1>3. ReaderTypeOK
    <2>1. held \in Seq(Picture)
      BY <1>1 DEF Init
    <2>2. result \in Answer \union {None, EndOfFile}
      BY DEF Init
    <2>3. /\ {awaitingLiveKeyframe, skipNonKey, draining, surfaces, fault, ended, intact}
               \subseteq BOOLEAN
          /\ {consecutiveLiveDecodeErrors, frameNumber, fallbackPts, decoded, keysOffered}
               \subseteq Nat
      <3>1. /\ awaitingLiveKeyframe = FALSE /\ skipNonKey = FALSE /\ draining = FALSE
            /\ surfaces = FALSE /\ fault = FALSE /\ ended = FALSE /\ intact = FALSE
        BY DEF Init
      <3>2. /\ consecutiveLiveDecodeErrors = 0 /\ frameNumber = 0 /\ fallbackPts = 0
            /\ decoded = 0 /\ keysOffered = 0
        BY DEF Init
      <3>3. {awaitingLiveKeyframe, skipNonKey, draining, surfaces, fault, ended, intact}
              \subseteq BOOLEAN
        BY <3>1
      <3>4. {consecutiveLiveDecodeErrors, frameNumber, fallbackPts, decoded, keysOffered}
              \subseteq Nat
        BY <3>2
      <3>. QED BY <3>3, <3>4
    <2>4. /\ live \in BOOLEAN /\ requested \in Requests /\ path \in Paths /\ pc = "input"
          /\ activeBackend \in Backends /\ platform \in Hardware
          /\ transferFormats \subseteq CpuStorages
          /\ transferFormat \in transferFormats \union {None}
      BY DEF Init, Backends
    <2>. QED BY <1>2, <2>1, <2>2, <2>3, <2>4 DEF ReaderTypeOK
  <1>. QED BY <1>1, <1>2, <1>3 DEF Init, ReaderInv, PhaseInv, OrderInv, GateInv, Rejections,
         BackendInv, Opening, ReadsWholeInput, Returned, GivenUpOnKeyframes,
         PictureMatchesReport

LEMMA ReaderStep ==
  ReaderInv /\ [Next]_vars => ReaderInv'
  <1>. SUFFICES ASSUME ReaderInv, [Next]_vars PROVE ReaderInv'
    OBVIOUS
  <1>1. CASE Next
    BY <1>1, TypesStep, PhaseStep, OrderStep, GateStep, BackendStep, ReadsStep, GivenUpStep,
       MatchesStep DEF ReaderInv
  <1>2. CASE UNCHANGED vars
    BY <1>2 DEF vars, machine, gate, numbers, formats, codec, bounds, history, ReaderInv,
       ReaderTypeOK, PhaseInv, OrderInv, GateInv, Rejections, BackendInv, Opening,
       ReadsWholeInput, Returned, GivenUpOnKeyframes, GatesLiveKeyframes,
       PictureMatchesReport, PlanesAllocated
  <1>. QED BY <1>1, <1>2

(* What is opened, counted and held at every moment of reading. *)
THEOREM ReaderInvariant == Spec => []ReaderInv
  BY ReaderInit, ReaderStep, PTL DEF Spec

(* readFrame gives a file whole, in order and numbered from 0, again after *)
(* every seek; it reports the end only when every decoded picture was      *)
(* given, and never asks a drained decoder for more.                       *)
THEOREM GivesTheWholeInput == Spec => []ReadsWholeInput
  BY ReaderInvariant, PTL DEF ReaderInv

(* absorbLiveDecodeError gives a live VideoToolbox stream up only after    *)
(* more than MaxErrors rejections in a row, all but the first of keyframes. *)
THEOREM GivesUpOnKeyframes == Spec => []GivenUpOnKeyframes
  BY ReaderInvariant, PTL DEF ReaderInv

(* The reader's report names the backend of the picture it returned, and   *)
(* the picture is stored in planes the slot has.                           *)
THEOREM ReportsItsPictures == Spec => []PictureMatchesReport
  BY ReaderInvariant, PTL DEF ReaderInv
================================================================================
