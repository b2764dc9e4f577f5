------------------------------ MODULE PipeSource ------------------------------
(***************************************************************************)
(* decode/SysDvrPipeSource.cpp: the reader of the bridge's pipe, between   *)
(* the bridge process, which writes a hello and then stream messages and   *)
(* may vanish in the middle of one, and FFmpeg, which asks for bytes.      *)
(*                                                                         *)
(* Bytes are counted in units: a hello or a stream header is one unit, a   *)
(* payload is as many as the message declares.  readExact retries until it *)
(* has what it wants or the pipe ends, so it is one step.  A header is     *)
(* well formed or not (SysDvrBridgeProtocol.cpp); why it is not does not   *)
(* matter here, and sequence numbers are only compared to log gaps.        *)
(***************************************************************************)
EXTENDS Integers, Sequences

CONSTANTS
  MaxMessages,  \* bound: what the bridge writes, the hello included
  MaxPayload,   \* bound: units of a payload
  MaxRead       \* bound: units FFmpeg asks for at once

ASSUME SizeAssumption ==
  /\ {MaxMessages, MaxPayload} \subseteq Nat
  /\ MaxRead \in Nat \ {0}

Types == {"Hello", "VideoPayload", "Discontinuity", "Status", "EndOfStream"}

(* What the bridge wrote: a message, and how many of its units arrived.    *)
Message == [type : Types, wellFormed : BOOLEAN, size : 0 .. MaxPayload,
            written : 0 .. MaxPayload + 1]

VARIABLES
  sent,             \* the messages the bridge wrote, in order
  bridgeEnd,        \* the bridge's end of the pipe: away, open, closed
  wire,             \* units written and not yet read: <<message, unit>>
  pc,               \* where read() is
  request,          \* destinationSize
  connected, helloRead, eof, payload, payloadOffset,   \* Impl's members
  parsed,           \* how many stream headers were parsed
  delivered,        \* history: the units given to FFmpeg
  atEnd,            \* read() has returned 0: AVERROR_EOF for FFmpeg
  ioError           \* read() has thrown: AVERROR(EIO), kept as pipeError

bridge  == <<sent, bridgeEnd>>
members == <<connected, helloRead, eof, payload, payloadOffset>>
results == <<delivered, atEnd, ioError>>
vars    == <<bridge, wire, pc, request, members, parsed, results>>

Init ==
  /\ sent = <<>> /\ bridgeEnd = "away" /\ wire = <<>>
  /\ pc = "idle" /\ request = 1
  /\ connected = FALSE /\ helloRead = FALSE /\ eof = FALSE
  /\ payload = <<>> /\ payloadOffset = 0
  /\ parsed = 0
  /\ delivered = <<>> /\ atEnd = FALSE /\ ioError = FALSE

-------------------------------------------------------------------------------
(* The bridge: external.  It connects, writes its hello first, whatever    *)
(* messages it likes after that, and its last one may be cut short.  The   *)
(* fields of a malformed header are never looked at, so they are not varied. *)
Units(m) == m.size + 1

BridgeGone == bridgeEnd = "closed"

BridgeConnects ==
  /\ bridgeEnd = "away"
  /\ bridgeEnd' = "open"
  /\ UNCHANGED <<sent, wire, pc, request, members, parsed, results>>

BridgeWrites ==
  /\ bridgeEnd = "open" /\ Len(sent) < MaxMessages
  /\ \E m \in Message :
       /\ (m.type = "Hello") <=> (sent = <<>>)
       /\ m.type = "Hello" \/ ~m.wellFormed => m.size = 0
       /\ ~m.wellFormed => m.type \in {"Hello", "VideoPayload"}
       /\ m.written <= Units(m)
       /\ sent' = Append(sent, m)
       /\ wire' = wire \o [k \in 1 .. m.written |-> <<Len(sent) + 1, k - 1>>]
       /\ bridgeEnd' = IF m.written < Units(m) THEN "closed" ELSE "open"
  /\ UNCHANGED <<pc, request, members, parsed, results>>

BridgeCloses ==
  /\ bridgeEnd = "open"
  /\ bridgeEnd' = "closed"
  /\ UNCHANGED <<sent, wire, pc, request, members, parsed, results>>

-------------------------------------------------------------------------------
(* readExact: blocks until n units are there, fails when the pipe ends     *)
(* before that; what it consumed in vain is lost.                          *)
CanReadExact(n)  == Len(wire) >= n
ReadExact(n)     == wire' = SubSeq(wire, n + 1, Len(wire))

(* Slip: the end of the pipe is taken for a pause. *)
PipeNeverEnds(n) == FALSE

PipeEnds(n)      == BridgeGone /\ Len(wire) < n /\ wire' = <<>>

(* The message the next unit of the wire belongs to. *)
Incoming == sent[wire[1][1]]

(* The two ways read() ends without bytes.                                 *)
ReturnEnd == atEnd' = TRUE /\ pc' = "idle" /\ UNCHANGED <<delivered, ioError>>
Throw     == ioError' = TRUE /\ pc' = "idle" /\ UNCHANGED <<delivered, atEnd>>

(* FFmpeg calls read; its AVIOContext gives up after an I/O error.         *)
Read(size) ==
  /\ pc = "idle" /\ ~ioError
  /\ request' = size
  /\ \/ eof /\ ReturnEnd
     \/ /\ ~eof /\ pc' = (IF connected THEN "serve" ELSE "connect")
        /\ UNCHANGED results
  /\ UNCHANGED <<bridge, wire, members, parsed>>

(* accept, or ConnectNamedPipe: returns once the bridge has connected, and *)
(* waits for ever if it never does.                                        *)
Connect ==
  /\ pc = "connect"
  /\ bridgeEnd # "away"
  /\ connected' = TRUE
  /\ pc' = "hello"
  /\ UNCHANGED <<bridge, wire, request, helloRead, eof, payload,
                 payloadOffset, parsed, results>>

ReadHello ==
  /\ pc = "hello"
  /\ \/ /\ CanReadExact(1) /\ ReadExact(1)
        /\ \/ /\ Incoming.wellFormed
              /\ helloRead' = TRUE /\ pc' = "serve" /\ UNCHANGED results
           \/ ~Incoming.wellFormed /\ Throw /\ UNCHANGED helloRead
        /\ UNCHANGED eof
     \/ /\ PipeEnds(1)
        /\ eof' = TRUE /\ Throw /\ UNCHANGED helloRead
  /\ UNCHANGED <<bridge, request, connected, payload, payloadOffset, parsed>>

(* Copies what is left of the current payload, at most what was asked for. *)
Serve ==
  /\ pc = "serve" /\ payloadOffset < Len(payload)
  /\ LET left == Len(payload) - payloadOffset
         n    == IF left < request THEN left ELSE request IN
       /\ delivered' = delivered \o SubSeq(payload, payloadOffset + 1, payloadOffset + n)
       /\ payloadOffset' = payloadOffset + n
  /\ pc' = "idle"
  /\ UNCHANGED <<bridge, wire, request, connected, helloRead, eof,
                 payload, parsed, atEnd, ioError>>

NextPayload ==
  /\ pc = "serve" /\ payloadOffset >= Len(payload)
  /\ payload' = <<>> /\ payloadOffset' = 0
  /\ pc' = "header"
  /\ UNCHANGED <<bridge, wire, request, connected, helloRead, eof,
                 parsed, results>>

(* What follows a header: an empty video payload and the bodies of the     *)
(* messages that are not video are passed over.                            *)
AfterHeader(m) ==
  IF m.type = "VideoPayload" THEN (IF m.size = 0 THEN "header" ELSE "payload")
  ELSE "discard"

ReadHeader ==
  /\ pc = "header"
  /\ \/ /\ CanReadExact(1) /\ ReadExact(1)
        /\ \/ /\ Incoming.wellFormed
              /\ parsed' = parsed + 1
              /\ pc' = AfterHeader(Incoming)
              /\ UNCHANGED results
           \/ ~Incoming.wellFormed /\ Throw
              /\ UNCHANGED parsed
        /\ UNCHANGED eof
     \/ /\ PipeEnds(1)
        /\ eof' = TRUE /\ ReturnEnd
        /\ UNCHANGED parsed
  /\ UNCHANGED <<bridge, request, connected, helloRead, payload, payloadOffset>>

(* The message whose header was parsed last. *)
Current == sent[parsed + 1]

(* Slip: a payload is served although only a part of it arrived. *)
ReadWhatIsThere ==
  /\ pc = "payload"
  /\ \/ CanReadExact(Current.size)
     \/ BridgeGone
  /\ LET n == IF Len(wire) < Current.size THEN Len(wire) ELSE Current.size IN
       ReadExact(n) /\ payload' = SubSeq(wire, 1, n)
  /\ pc' = "serve"
  /\ UNCHANGED <<bridge, request, connected, helloRead, eof, payloadOffset, parsed, results>>

(* A payload that does not arrive whole is dropped, and ends the stream.   *)
ReadPayload ==
  /\ pc = "payload"
  /\ \/ /\ CanReadExact(Current.size)
        /\ ReadExact(Current.size)
        /\ payload' = SubSeq(wire, 1, Current.size)
        /\ pc' = "serve"
        /\ UNCHANGED <<eof, results>>
     \/ /\ PipeEnds(Current.size)
        /\ payload' = wire
        /\ eof' = TRUE /\ ReturnEnd
  /\ UNCHANGED <<bridge, request, connected, helloRead, payloadOffset, parsed>>

(* Discontinuity, Status and EndOfStream: the body is discarded.           *)
DiscardPayload ==
  /\ pc = "discard"
  /\ \/ /\ CanReadExact(Current.size)
        /\ ReadExact(Current.size)
        /\ \/ /\ Current.type # "EndOfStream"
              /\ pc' = "header" /\ UNCHANGED <<eof, results>>
           \/ /\ Current.type = "EndOfStream"
              /\ eof' = TRUE /\ ReturnEnd
     \/ /\ PipeEnds(Current.size)
        /\ eof' = TRUE /\ Throw
  /\ UNCHANGED <<bridge, request, connected, helloRead, payload,
                 payloadOffset, parsed>>

(* accept or a read fails for a reason that is not the bridge's going away. *)
SocketFails ==
  /\ pc \in {"connect", "hello", "header", "payload", "discard"}
  /\ Throw
  /\ UNCHANGED <<bridge, wire, request, members, parsed>>

SourceStep ==
  \/ Connect \/ ReadHello \/ Serve \/ NextPayload
  \/ ReadHeader \/ ReadPayload \/ DiscardPayload

FFmpegReads == \E size \in 1 .. MaxRead : Read(size)

(* FFmpeg may stop asking once the stream has ended or failed. *)
Finished == pc = "idle" /\ (atEnd \/ ioError) /\ UNCHANGED vars

BridgeStep == BridgeConnects \/ BridgeWrites \/ BridgeCloses

(* ~Impl: whatever it held is gone. *)
SourceDestroyed ==
  /\ sent' = <<>> /\ bridgeEnd' = "away" /\ wire' = <<>>
  /\ pc' = "idle" /\ request' = 1
  /\ connected' = FALSE /\ helloRead' = FALSE /\ eof' = FALSE
  /\ payload' = <<>> /\ payloadOffset' = 0
  /\ parsed' = 0
  /\ delivered' = <<>> /\ atEnd' = FALSE /\ ioError' = FALSE

Next == BridgeStep \/ FFmpegReads \/ SourceStep \/ SocketFails \/ Finished

Spec == Init /\ [][Next]_vars

-------------------------------------------------------------------------------
Whole(m) == m.written = Units(m)

(* Unit u is written before unit v. *)
Earlier(u, v) == u[1] < v[1] \/ (u[1] = v[1] /\ u[2] < v[2])

(* The units FFmpeg is meant to get of the messages parsed so far: all of  *)
(* those of the video payloads that arrived whole.                         *)
Due ==
  {u \in (2 .. parsed + 1) \X (1 .. MaxPayload) :
     /\ sent[u[1]].type = "VideoPayload" /\ Whole(sent[u[1]]) /\ u[2] <= sent[u[1]].size
     /\ \A j \in 1 .. u[1] : sent[j].wellFormed}

Given == {delivered[a] : a \in 1 .. Len(delivered)}

(* The stream ends in the right place: at EndOfStream, or behind the last  *)
(* message of which the bridge had written anything.                       *)
EndsInPlace ==
  \/ parsed > 0 /\ Current.type = "EndOfStream"
  \/ parsed + 1 = Len(sent)
  \/ parsed + 2 = Len(sent) /\ sent[Len(sent)].written = 0

(* The H.264 byte stream is exact: for every way FFmpeg cuts its reads and *)
(* the bridge its writes, FFmpeg gets the video payloads of the messages   *)
(* parsed so far, whole, in order, without a byte of any header, of any    *)
(* other message, of a payload that was cut short or of anything behind a  *)
(* message that was rejected; and when it is told that the stream has      *)
(* ended, nothing the bridge wrote whole is missing, nothing more follows  *)
(* however often it asks again, and it is not told of a failure after all. *)
DeliveredExactly ==
  /\ \A a, b \in 1 .. Len(delivered) : a < b => Earlier(delivered[a], delivered[b])
  /\ Given \subseteq Due
  /\ \A u \in Due, v \in Given : Earlier(u, v) => u \in Given
  /\ pc = "header" => Given = Due
  /\ atEnd => Given = Due /\ EndsInPlace /\ ~ioError

===============================================================================
