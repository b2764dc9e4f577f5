------------------------------ MODULE BridgeProofs ------------------------------
(***************************************************************************)
(* Theorems about BridgeSession, for every number of messages, payload     *)
(* size and way to cut the reads: what a run with a live source leaves     *)
(* behind, and that FFmpeg is given the stream the bridge wrote.           *)
(***************************************************************************)
EXTENDS BridgeSession, SequenceTheorems, TLAPS

AppPlaces == {"launch", "inspect", "socket", "bind", "listen", "reading",
              "closeSockets", "stop", "terminate", "poll", "kill", "wait", "done"}

SessionTypeOK ==
  /\ managed \in BOOLEAN /\ appPc \in AppPlaces
  /\ file \in {"nothing", "socket", "other", "bound"}
  /\ foreign \in BOOLEAN /\ socketBound \in BOOLEAN /\ listener \in BOOLEAN
  /\ connected \in BOOLEAN
  /\ child \in {"none", "running", "exited", "reaped"} /\ killed \in BOOLEAN

(* What the constructor opened is there until closeSockets: the file at    *)
(* the path is this process's while it is marked as bound, a descriptor is *)
(* open only between its creation and closeSockets.                        *)
EndpointInv ==
  /\ socketBound <=> file = "bound"
  /\ socketBound => appPc \in {"listen", "reading", "closeSockets"}
  /\ listener => appPc \in {"bind", "listen", "reading", "closeSockets"}
  /\ connected => appPc \in {"reading", "closeSockets"}
  /\ foreign <=> file = "other"

(* The bridge is a child from the launch to its reaping, which is the last *)
(* thing the run does; while it is being stopped it is not reaped.         *)
ChildInv ==
  /\ appPc = "launch" => child = "none"
  /\ child = "reaped" => appPc = "done"
  /\ appPc \in {"terminate", "poll", "kill", "wait"} => child # "none"
  /\ appPc = "done" => child \in {"none", "reaped"}

SessionInv == SessionTypeOK /\ EndpointInv /\ ChildInv

-------------------------------------------------------------------------------
(* Initially nothing is open and there is no child. *)
LEMMA SessionInvInit ==
  SessionInit => SessionInv
  BY DEF SessionInit, Init, SessionInv, SessionTypeOK, EndpointInv, ChildInv, AppPlaces

(* A step of the bridge, of the source or of FFmpeg leaves the session and *)
(* at most opens the connection, while the run is reading.                 *)
LEMMA ReadingKeepsSession ==
  ASSUME SessionInv, Bridge \/ Source \/ Socket \/ FFmpeg
  PROVE  SessionInv'
  <1>1. Reading /\ UNCHANGED session
    BY DEF Bridge, Source, Socket, FFmpeg
  <1>2. connected' \in {connected, TRUE}
    BY DEF Bridge, Source, Socket, FFmpeg, BridgeStep, BridgeConnects, BridgeWrites,
       BridgeCloses, SourceStep, Connect, ReadHello, Serve, NextPayload, ReadHeader,
       ReadPayload, DiscardPayload, SocketFails, FFmpegReads, Read, members
  <1>. QED BY <1>1, <1>2 DEF SessionInv, SessionTypeOK, EndpointInv, ChildInv, Reading,
         session, endpoint, process

(* A step of the opening. *)
LEMMA OpeningKeepsSession ==
  ASSUME SessionInv, Opening
  PROVE  SessionInv'
  <1>. USE DEF SessionInv, SessionTypeOK, EndpointInv, ChildInv, AppPlaces, OpenFails,
           endpoint, process, vars, members
  <1>1. CASE LaunchSysDvrBridge
    BY <1>1 DEF LaunchSysDvrBridge
  <1>2. CASE InspectPath
    BY <1>2 DEF InspectPath
  <1>3. CASE CreateSocket
    BY <1>3 DEF CreateSocket
  <1>4. CASE Bind
    <2>1. /\ appPc = "bind" /\ ~socketBound /\ ~connected
          /\ UNCHANGED <<managed, foreign, listener, connected, child, killed>>
      BY <1>4 DEF Bind
    <2>2. CASE file = "nothing" /\ file' = "bound" /\ socketBound' = TRUE /\ appPc' = "listen"
      BY <2>1, <2>2
    <2>3. CASE appPc' = "closeSockets" /\ UNCHANGED <<file, socketBound>>
      BY <2>1, <2>3
    <2>. QED BY <1>4, <2>2, <2>3 DEF Bind
  <1>5. CASE Listen
    BY <1>5 DEF Listen
  <1>. QED BY <1>1, <1>2, <1>3, <1>4, <1>5 DEF Opening

(* A step of the leaving. *)
LEMMA LeavingKeepsSession ==
  ASSUME SessionInv, Leaving
  PROVE  SessionInv'
  <1>. USE DEF SessionInv, SessionTypeOK, EndpointInv, ChildInv, AppPlaces,
           endpoint, process, vars, members, Reaped, StillRunning
  <1>1. CASE CloseSockets
    BY <1>1 DEF CloseSockets, SourceDestroyed
  <1>2. CASE Stop
    BY <1>2 DEF Stop
  <1>3. CASE Terminate
    BY <1>3 DEF Terminate
  <1>4. CASE Poll
    BY <1>4 DEF Poll
  <1>5. CASE Kill
    BY <1>5 DEF Kill
  <1>6. CASE WaitForChild
    BY <1>6 DEF WaitForChild
  <1>. QED BY <1>1, <1>2, <1>3, <1>4, <1>5, <1>6 DEF Leaving

(* Every step keeps the invariant. *)
LEMMA SessionInvStep ==
  SessionInv /\ [SessionNext]_sessionVars => SessionInv'
  <1>. SUFFICES ASSUME SessionInv, [SessionNext]_sessionVars PROVE SessionInv'
    OBVIOUS
  <1>1. CASE ChildExits
    BY <1>1 DEF ChildExits, SessionInv, SessionTypeOK, EndpointInv, ChildInv, endpoint, members
  <1>2. CASE Leave
    BY <1>2 DEF Leave, Reading, SessionInv, SessionTypeOK, EndpointInv, ChildInv, AppPlaces,
       endpoint, process, vars, members
  <1>3. CASE UNCHANGED sessionVars
    BY <1>3 DEF SessionInv, SessionTypeOK, EndpointInv, ChildInv, sessionVars, session,
       endpoint, process, vars, members
  <1>. QED BY <1>1, <1>2, <1>3, ReadingKeepsSession, OpeningKeepsSession, LeavingKeepsSession
         DEF SessionNext, Ended, NobodyConnects

(* Endpoint, descriptors and child belong to the place the run is at.      *)
THEOREM SessionInvariant == SessionSpec => []SessionInv
  BY SessionInvInit, SessionInvStep, PTL DEF SessionSpec

(* However far the opening came and whatever became of the bridge, the run *)
(* leaves no descriptor, no socket file of its own, no bridge and no       *)
(* zombie behind, touches nobody's file, and signals only its own child.   *)
THEOREM LeavesNothingBehind == SessionSpec => []NothingLeftBehind
  <1>1. SessionInv => NothingLeftBehind
    BY DEF SessionInv, SessionTypeOK, EndpointInv, ChildInv, NothingLeftBehind
  <1>. QED BY <1>1, SessionInvariant, PTL
-------------------------------------------------------------------------------
(* The stream. *)

(* A unit: its message, and where in it. *)
Place == Nat \X Nat

PipeTypeOK ==
  /\ sent \in Seq(Message) /\ bridgeEnd \in {"away", "open", "closed"}
  /\ wire \in Seq(Place)
  /\ pc \in {"idle", "connect", "hello", "serve", "header", "payload", "discard"}
  /\ request \in Nat \ {0}
  /\ payload \in Seq(Place) /\ payloadOffset \in Nat /\ parsed \in Nat
  /\ delivered \in Seq(Place)
  /\ connected \in BOOLEAN /\ helloRead \in BOOLEAN /\ eof \in BOOLEAN
  /\ atEnd \in BOOLEAN /\ ioError \in BOOLEAN

(* Only the bridge's last message is ever cut short, and that closes the   *)
(* pipe.                                                                   *)
SentInv ==
  /\ \A i \in 1 .. Len(sent) :
       /\ sent[i].written <= Units(sent[i])
       /\ i < Len(sent) \/ bridgeEnd = "open" => Whole(sent[i])
  /\ bridgeEnd = "away" => sent = <<>>
  /\ sent # <<>> => sent[1].size = 0

(* How many units of its message follow unit u. *)
Rest(u) == sent[u[1]].size - u[2]

(* The wire has no gap: behind a unit comes the rest of its message and    *)
(* then the next header, a message that was written whole is there to its  *)
(* end, and the last unit is the last one the bridge wrote.                *)
WireInv ==
  /\ \A a \in 1 .. Len(wire) :
       /\ wire[a][1] \in 1 .. Len(sent)
       /\ wire[a][2] < sent[wire[a][1]].written
       /\ \A j \in 0 .. Rest(wire[a]) :
            a + j <= Len(wire) => wire[a + j] = <<wire[a][1], wire[a][2] + j>>
       /\ a + Rest(wire[a]) + 1 <= Len(wire) =>
            wire[a + Rest(wire[a]) + 1] = <<wire[a][1] + 1, 0>>
       /\ Whole(sent[wire[a][1]]) => a + Rest(wire[a]) <= Len(wire)
  /\ wire # <<>> =>
       /\ wire[Len(wire)][2] + 1 = sent[wire[Len(wire)][1]].written
       /\ \/ wire[Len(wire)][1] = Len(sent)
          \/ wire[Len(wire)][1] + 1 = Len(sent) /\ sent[Len(sent)].written = 0

(* What is next on the wire is the header of message i, or a payload; and  *)
(* if nothing is, the bridge has written nothing of it.                    *)
HeaderNext(i) ==
  /\ wire # <<>> => wire[1] = <<i, 0>>
  /\ wire = <<>> => Len(sent) = i - 1 \/ (Len(sent) = i /\ sent[i].written = 0)

PayloadNext ==
  /\ wire # <<>> => wire[1] = <<parsed + 1, 1>>
  /\ wire = <<>> => Len(sent) = parsed + 1 /\ Current.written = 1

InPayload == pc \in {"payload", "discard"} /\ Current.size > 0

(* The source is where its members say it is in the stream. *)
NextUnit ==
  ~eof /\ ~ioError =>
    /\ ~helloRead => HeaderNext(1)
    /\ helloRead /\ InPayload => PayloadNext
    /\ helloRead /\ ~InPayload => HeaderNext(parsed + 2)

StateInv ==
  /\ helloRead => parsed + 1 <= Len(sent) /\ \A j \in 1 .. parsed + 1 : sent[j].wellFormed
  /\ ~helloRead => parsed = 0 /\ payload = <<>> /\ ~atEnd
  /\ pc \in {"connect", "hello"} => ~helloRead /\ (pc = "hello" => connected)
  /\ pc \in {"serve", "header", "payload", "discard"} => helloRead
  /\ helloRead => connected
  /\ connected /\ ~ioError /\ pc # "hello" => helloRead
  /\ pc # "idle" => ~eof /\ ~ioError
  /\ pc = "payload" => Current.type = "VideoPayload" /\ Current.size > 0
  /\ pc = "discard" => Current.type # "VideoPayload" /\ parsed > 0
  /\ eof /\ ~ioError => atEnd
  /\ atEnd => eof /\ ~ioError /\ EndsInPlace
              /\ (BridgeGone \/ (parsed > 0 /\ Current.type = "EndOfStream"))

(* The payload held is that of the current message, unless it was cut short. *)
PayloadInv ==
  /\ payloadOffset <= Len(payload)
  /\ pc \in {"header", "payload", "discard"} => payload = <<>>
  /\ payload # <<>> => Current.type = "VideoPayload"
  /\ payload # <<>> /\ ~eof =>
       /\ Whole(Current) /\ Len(payload) = Current.size
       /\ \A k \in 1 .. Len(payload) : payload[k] = <<parsed + 1, k>>
  /\ payload # <<>> /\ eof => ~Whole(Current)

(* The units of the messages parsed so far that were served. *)
Served(u) ==
  \/ u[1] <= parsed
  \/ pc # "payload" /\ (payload = <<>> \/ u[2] <= payloadOffset)

Ordered(units) ==
  \A a, b \in 1 .. Len(units) : a < b => Earlier(units[a], units[b])

ServedInv ==
  /\ ~ioError => Given = {u \in Due : Served(u)}
  /\ Ordered(delivered)
  /\ Given \subseteq Due
  /\ \A u \in Due, v \in Given : Earlier(u, v) => u \in Given

StreamInv == PipeTypeOK /\ SentInv /\ WireInv /\ NextUnit /\ StateInv /\ PayloadInv /\ ServedInv

-------------------------------------------------------------------------------
(* A run starts with nothing written, read or given. *)
LEMMA StreamInvInit ==
  Init => StreamInv
  <1>. SUFFICES ASSUME Init PROVE StreamInv
    OBVIOUS
  <1>1. PipeTypeOK
    <2>1. <<>> \in Seq(Message) /\ <<>> \in Seq(Place)
      BY EmptySeq
    <2>2. /\ sent \in Seq(Message) /\ wire \in Seq(Place) /\ payload \in Seq(Place)
          /\ delivered \in Seq(Place)
      BY <2>1 DEF Init
    <2>3. /\ bridgeEnd \in {"away", "open", "closed"}
          /\ pc \in {"idle", "connect", "hello", "serve", "header", "payload", "discard"}
          /\ request \in Nat \ {0} /\ payloadOffset \in Nat /\ parsed \in Nat
      BY DEF Init
    <2>4. /\ connected \in BOOLEAN /\ helloRead \in BOOLEAN /\ eof \in BOOLEAN
          /\ atEnd \in BOOLEAN /\ ioError \in BOOLEAN
      BY DEF Init
    <2>. QED BY <2>2, <2>3, <2>4 DEF PipeTypeOK
  <1>2. SentInv /\ WireInv /\ NextUnit
    BY DEF Init, SentInv, WireInv, NextUnit, HeaderNext
  <1>3. StateInv /\ PayloadInv
    BY DEF Init, StateInv, PayloadInv
  <1>4. ServedInv
    <2>1. Given = {} /\ Due = {}
      BY DEF Init, Given, Due
    <2>. QED BY <2>1 DEF Init, ServedInv, Ordered
  <1>. QED BY <1>1, <1>2, <1>3, <1>4 DEF StreamInv

(* What the source has parsed is not changed by what the bridge adds.      *)
LEMMA GivenStays ==
  ASSUME ServedInv, StateInv, PipeTypeOK,
         UNCHANGED <<parsed, delivered>>,
         parsed = 0 \/ \A i \in 1 .. parsed + 1 : sent'[i] = sent[i]
  PROVE  Given' = Given /\ Due' = Due
  <1>1. Given' = Given
    BY DEF Given
  <1>2. parsed \in Nat /\ parsed' = parsed
    BY DEF PipeTypeOK
  <1>3. \A i \in 2 .. parsed + 1 :
          /\ sent'[i] = sent[i]
          /\ \A j \in 1 .. i : sent'[j] = sent[j]
    BY <1>2
  <1>4. ASSUME NEW u \in (2 .. parsed + 1) \X (1 .. MaxPayload)
        PROVE  (/\ sent[u[1]].type = "VideoPayload" /\ Whole(sent[u[1]])
                /\ u[2] <= sent[u[1]].size
                /\ \A j \in 1 .. u[1] : sent[j].wellFormed)
               <=> (/\ sent'[u[1]].type = "VideoPayload" /\ Whole(sent'[u[1]])
                    /\ u[2] <= sent'[u[1]].size
                    /\ \A j \in 1 .. u[1] : sent'[j].wellFormed)
    <2>1. u[1] \in 2 .. parsed + 1
      OBVIOUS
    <2>. QED BY <1>3, <2>1
  <1>5. Due' = Due
    BY <1>2, <1>4 DEF Due
  <1>. QED BY <1>1, <1>5

(* What the bridge adds lies behind what is on the wire. *)
LEMMA Written ==
  ASSUME PipeTypeOK, NEW m \in Message,
         sent' = Append(sent, m),
         wire' = wire \o [k \in 1 .. m.written |-> <<Len(sent) + 1, k - 1>>]
  PROVE  /\ sent' \in Seq(Message) /\ Len(sent') = Len(sent) + 1
         /\ sent'[Len(sent) + 1] = m
         /\ \A i \in 1 .. Len(sent) : sent'[i] = sent[i]
         /\ wire' \in Seq(Place) /\ Len(wire') = Len(wire) + m.written
         /\ \A a \in 1 .. Len(wire) : wire'[a] = wire[a]
         /\ \A k \in 1 .. m.written : wire'[Len(wire) + k] = <<Len(sent) + 1, k - 1>>
  <1> DEFINE more == [k \in 1 .. m.written |-> <<Len(sent) + 1, k - 1>>]
  <1>1. m.written \in Nat
    BY SizeAssumption DEF Message
  <1>2. more \in Seq(Place) /\ Len(more) = m.written
    <2>1. Len(sent) \in Nat
      BY DEF PipeTypeOK
    <2>2. more \in [1 .. m.written -> Place]
      BY <2>1, <1>1 DEF Place
    <2>3. more \in Seq(Place)
      BY <1>1, <2>2, SeqDef
    <2>. QED BY <1>1, <2>2, <2>3
  <1>3. \A k \in 1 .. m.written : more[k] = <<Len(sent) + 1, k - 1>>
    OBVIOUS
  <1>. HIDE DEF more
  <1>4. sent \in Seq(Message) /\ wire \in Seq(Place) /\ wire' = wire \o more
    BY DEF PipeTypeOK, more
  <1>5. /\ sent' \in Seq(Message) /\ Len(sent') = Len(sent) + 1
        /\ sent'[Len(sent) + 1] = m
        /\ \A i \in 1 .. Len(sent) : sent'[i] = sent[i]
    BY <1>4, AppendProperties
  <1>6. /\ wire' \in Seq(Place) /\ Len(wire') = Len(wire) + Len(more)
        /\ \A a \in 1 .. Len(wire) + Len(more) :
             wire'[a] = IF a <= Len(wire) THEN wire[a] ELSE more[a - Len(wire)]
    <2>1. /\ wire \o more \in Seq(Place) /\ Len(wire \o more) = Len(wire) + Len(more)
          /\ \A a \in 1 .. Len(wire) + Len(more) :
               (wire \o more)[a] = IF a <= Len(wire) THEN wire[a] ELSE more[a - Len(wire)]
      BY <1>2, <1>4, ConcatProperties
    <2>. QED BY <1>4, <2>1
  <1>7. /\ \A a \in 1 .. Len(wire) : wire'[a] = wire[a]
        /\ \A k \in 1 .. m.written : wire'[Len(wire) + k] = more[k]
    <2>1. Len(wire) \in Nat
      BY <1>4
    <2>2. \A a \in 1 .. Len(wire) : a \in 1 .. Len(wire) + Len(more) /\ a <= Len(wire)
      BY <1>1, <1>2, <2>1
    <2>3. \A k \in 1 .. m.written : /\ Len(wire) + k \in 1 .. Len(wire) + Len(more)
                                   /\ ~(Len(wire) + k <= Len(wire))
                                   /\ (Len(wire) + k) - Len(wire) = k
      BY <1>1, <1>2, <2>1
    <2>. QED BY <1>6, <2>2, <2>3
  <1>. QED BY <1>2, <1>3, <1>5, <1>6, <1>7

(* A message is written behind whole ones.                                 *)
LEMMA WriteKeepsWire ==
  ASSUME PipeTypeOK, SentInv, WireInv, BridgeWrites
  PROVE  SentInv' /\ WireInv' /\ sent' \in Seq(Message) /\ wire' \in Seq(Place)
  <1>1. PICK m \in Message :
          /\ (m.type = "Hello") <=> (sent = <<>>)
          /\ m.type = "Hello" \/ ~m.wellFormed => m.size = 0
          /\ m.written <= Units(m)
          /\ sent' = Append(sent, m)
          /\ wire' = wire \o [k \in 1 .. m.written |-> <<Len(sent) + 1, k - 1>>]
          /\ bridgeEnd' = IF m.written < Units(m) THEN "closed" ELSE "open"
    BY DEF BridgeWrites
  <1>2. /\ sent' \in Seq(Message) /\ Len(sent') = Len(sent) + 1
        /\ sent'[Len(sent) + 1] = m
        /\ \A i \in 1 .. Len(sent) : sent'[i] = sent[i]
        /\ wire' \in Seq(Place) /\ Len(wire') = Len(wire) + m.written
        /\ \A a \in 1 .. Len(wire) : wire'[a] = wire[a]
        /\ \A k \in 1 .. m.written : wire'[Len(wire) + k] = <<Len(sent) + 1, k - 1>>
    BY <1>1, Written
  <1>3. /\ m.written \in Nat /\ m.size \in Nat /\ Units(m) = m.size + 1
        /\ Len(sent) \in Nat /\ Len(wire) \in Nat
        /\ bridgeEnd = "open"
        /\ \A i \in 1 .. Len(sent) : sent[i].size \in Nat /\ sent[i].written = sent[i].size + 1
        /\ \A a \in 1 .. Len(wire) : wire[a][1] \in Nat /\ wire[a][2] \in Nat
    <2>1. bridgeEnd = "open"
      BY DEF BridgeWrites
    <2>2. \A i \in 1 .. Len(sent) : sent[i] \in Message /\ Whole(sent[i])
      BY <2>1 DEF SentInv, PipeTypeOK
    <2>3. \A i \in 1 .. Len(sent) : sent[i].size \in Nat /\ sent[i].written = sent[i].size + 1
      BY <2>2, SizeAssumption DEF Message, Units, Whole
    <2>4. m.written \in Nat /\ m.size \in Nat /\ Units(m) = m.size + 1
      BY SizeAssumption DEF Message, Units
    <2>5. Len(sent) \in Nat /\ Len(wire) \in Nat
      BY DEF PipeTypeOK
    <2>6. \A a \in 1 .. Len(wire) : wire[a] \in Place
      BY DEF PipeTypeOK
    <2>7. \A a \in 1 .. Len(wire) : wire[a][1] \in Nat /\ wire[a][2] \in Nat
      BY <2>6 DEF Place
    <2>. QED BY <2>1, <2>3, <2>4, <2>5, <2>7
  <1>4. SentInv'
    <2>1. \A i \in 1 .. Len(sent') :
            /\ sent'[i].written <= Units(sent'[i])
            /\ i < Len(sent') \/ bridgeEnd' = "open" => Whole(sent'[i])
      BY <1>1, <1>2, <1>3 DEF Whole, Units
    <2>2. bridgeEnd' # "away"
      BY <1>1
    <2>3. sent'[1].size = 0
      <3>1. CASE sent = <<>>
        BY <1>1, <1>2, <3>1
      <3>2. CASE sent # <<>>
        BY <1>2, <1>3, <3>2 DEF SentInv, PipeTypeOK
      <3>. QED BY <3>1, <3>2
    <2>. QED BY <2>1, <2>2, <2>3 DEF SentInv
  <1>5. ASSUME NEW a \in 1 .. Len(wire)
        PROVE  /\ wire'[a] = wire[a]
               /\ wire[a][1] \in 1 .. Len(sent) /\ wire[a][2] \in Nat
               /\ sent'[wire[a][1]] = sent[wire[a][1]]
               /\ wire[a][2] <= sent[wire[a][1]].size
               /\ Rest(wire[a]) = sent[wire[a][1]].size - wire[a][2] /\ Rest(wire[a]) \in Nat
               /\ a + Rest(wire[a]) <= Len(wire)
               /\ \A j \in 0 .. Rest(wire[a]) : wire[a + j] = <<wire[a][1], wire[a][2] + j>>
    <2>1. wire'[a] = wire[a] /\ wire[a][1] \in 1 .. Len(sent) /\ wire[a][2] \in Nat
      BY <1>2, <1>3 DEF WireInv
    <2>u. wire[a][2] < sent[wire[a][1]].written
      BY DEF WireInv
    <2>2. sent'[wire[a][1]] = sent[wire[a][1]] /\ wire[a][2] <= sent[wire[a][1]].size
      BY <1>2, <1>3, <2>1, <2>u
    <2>r. Rest(wire[a]) = sent[wire[a][1]].size - wire[a][2]
      BY DEF Rest
    <2>3. Rest(wire[a]) \in Nat
      BY <1>3, <2>1, <2>2, <2>r
    <2>4. a + Rest(wire[a]) <= Len(wire)
      BY <1>3, <2>1 DEF WireInv, Whole, Units
    <2>5. \A j \in 0 .. Rest(wire[a]) : a + j <= Len(wire)
      BY <1>3, <2>3, <2>4
    <2>6. \A j \in 0 .. Rest(wire[a]) : wire[a + j] = <<wire[a][1], wire[a][2] + j>>
      BY <2>5 DEF WireInv
    <2>. QED BY <2>1, <2>2, <2>r, <2>3, <2>4, <2>6
  <1>6. \A a \in 1 .. Len(wire) : a + Rest(wire[a]) = Len(wire) => wire[a][1] = Len(sent)
    <2>. SUFFICES ASSUME NEW a \in 1 .. Len(wire), a + Rest(wire[a]) = Len(wire)
                  PROVE  wire[a][1] = Len(sent)
      OBVIOUS
    <2>1. Rest(wire[a]) \in 0 .. Rest(wire[a])
      BY <1>5
    <2>2. wire[Len(wire)] = <<wire[a][1], wire[a][2] + Rest(wire[a])>>
      BY <1>3, <1>5, <2>1
    <2>3. wire[Len(wire)][1] = wire[a][1] /\ wire # <<>>
      BY <2>2, <1>3
    <2>4. wire[a][1] \in 1 .. Len(sent) /\ Len(sent) \in 1 .. Len(sent)
      BY <1>3, <1>5
    <2>5. sent[Len(sent)].written # 0
      BY <1>3, <2>4
    <2>. QED BY <2>3, <2>4, <2>5 DEF WireInv
  <1> DEFINE rest(a) == sent'[wire'[a][1]].size - wire'[a][2]
  <1>r. \A a : rest(a) = sent'[wire'[a][1]].size - wire'[a][2]
    OBVIOUS
  <1>. HIDE DEF rest
  <1>7. ASSUME NEW a \in 1 .. Len(wire')
        PROVE  /\ wire'[a][1] \in 1 .. Len(sent')
               /\ wire'[a][2] < sent'[wire'[a][1]].written
               /\ \A j \in 0 .. rest(a) :
                    a + j <= Len(wire') => wire'[a + j] = <<wire'[a][1], wire'[a][2] + j>>
               /\ a + rest(a) + 1 <= Len(wire') =>
                    wire'[a + rest(a) + 1] = <<wire'[a][1] + 1, 0>>
               /\ Whole(sent'[wire'[a][1]]) => a + rest(a) <= Len(wire')
    <2>1. CASE a \in 1 .. Len(wire)
      <3>1. /\ wire'[a] = wire[a] /\ wire[a][1] \in 1 .. Len(sent)
            /\ sent'[wire[a][1]] = sent[wire[a][1]]
            /\ rest(a) = Rest(wire[a])
        BY <1>5, <1>r, <2>1
      <3>n. rest(a) \in Nat /\ a + rest(a) <= Len(wire)
        BY <1>5, <2>1, <3>1
      <3>j. \A j \in 0 .. rest(a) : wire[a + j] = <<wire[a][1], wire[a][2] + j>>
        BY <1>5, <2>1, <3>1
      <3>k. \A j \in 0 .. rest(a) : a + j \in 1 .. Len(wire)
        BY <1>3, <2>1, <3>n
      <3>2. \A j \in 0 .. rest(a) : wire'[a + j] = <<wire'[a][1], wire'[a][2] + j>>
        BY <1>2, <3>1, <3>j, <3>k
      <3>3. a + rest(a) + 1 <= Len(wire') =>
              wire'[a + rest(a) + 1] = <<wire'[a][1] + 1, 0>>
        <4>1. CASE a + rest(a) + 1 <= Len(wire)
          <5>1. a + rest(a) + 1 \in 1 .. Len(wire)
            BY <1>3, <2>1, <3>n, <4>1
          <5>2. wire[a + rest(a) + 1] = <<wire[a][1] + 1, 0>>
            BY <2>1, <3>1, <4>1 DEF WireInv
          <5>. QED BY <1>2, <3>1, <5>1, <5>2
        <4>2. CASE a + rest(a) = Len(wire) /\ m.written > 0
          <5>1. wire'[Len(wire) + 1] = <<Len(sent) + 1, 0>>
            BY <1>2, <1>3, <4>2
          <5>2. wire[a][1] = Len(sent)
            BY <1>6, <2>1, <3>1, <4>2
          <5>. QED BY <3>1, <4>2, <5>1, <5>2
        <4>3. a + rest(a) + 1 <= Len(wire') =>
                \/ a + rest(a) + 1 <= Len(wire)
                \/ a + rest(a) = Len(wire) /\ m.written > 0
          BY <1>2, <1>3, <2>1, <3>n
        <4>. QED BY <4>1, <4>2, <4>3
      <3>4. wire[a][2] < sent[wire[a][1]].written
        BY <2>1 DEF WireInv
      <3>5. a + rest(a) <= Len(wire')
        BY <1>2, <1>3, <2>1, <3>n
      <3>. QED BY <1>2, <1>3, <3>1, <3>2, <3>3, <3>4, <3>5
    <2>2. CASE a \notin 1 .. Len(wire)
      <3>1. a - Len(wire) \in 1 .. m.written /\ a = Len(wire) + (a - Len(wire))
        BY <1>2, <1>3, <2>2
      <3>2. PICK k \in 1 .. m.written : a = Len(wire) + k
        BY <3>1
      <3>3. wire'[a] = <<Len(sent) + 1, k - 1>> /\ sent'[Len(sent) + 1] = m
        BY <1>2, <3>2
      <3>4. rest(a) = m.size - (k - 1)
        BY <1>r, <3>3
      <3>k. \A j \in 0 .. rest(a) : a + j <= Len(wire') =>
              k + j \in 1 .. m.written /\ a + j = Len(wire) + (k + j) /\ (k - 1) + j = (k + j) - 1
        BY <1>2, <1>3, <3>2, <3>4
      <3>5. \A j \in 0 .. rest(a) :
              a + j <= Len(wire') => wire'[a + j] = <<wire'[a][1], wire'[a][2] + j>>
        BY <1>2, <3>3, <3>k
      <3>6. ~(a + rest(a) + 1 <= Len(wire'))
        BY <1>1, <1>2, <1>3, <3>2, <3>4
      <3>7. wire'[a][1] = Len(sent) + 1 /\ wire'[a][2] = k - 1
        BY <3>3
      <3>9. Whole(sent'[wire'[a][1]]) => a + rest(a) <= Len(wire')
        <4>1. Whole(m) => m.written = m.size + 1
          BY <1>3 DEF Whole
        <4>2. m.written = m.size + 1 => a + rest(a) <= Len(wire')
          BY <1>2, <1>3, <3>2, <3>4
        <4>. QED BY <3>3, <3>7, <4>1, <4>2
      <3>8. wire'[a][1] \in 1 .. Len(sent') /\ wire'[a][2] < sent'[wire'[a][1]].written
        BY <1>2, <1>3, <3>2, <3>3, <3>7
      <3>. QED BY <3>5, <3>6, <3>8, <3>9
    <2>. QED BY <2>1, <2>2
  <1>8. wire' # <<>> =>
          /\ wire'[Len(wire')][2] + 1 = sent'[wire'[Len(wire')][1]].written
          /\ \/ wire'[Len(wire')][1] = Len(sent')
             \/ wire'[Len(wire')][1] + 1 = Len(sent') /\ sent'[Len(sent')].written = 0
    <2>. SUFFICES ASSUME wire' # <<>>
                  PROVE  /\ wire'[Len(wire')][2] + 1 = sent'[wire'[Len(wire')][1]].written
                         /\ \/ wire'[Len(wire')][1] = Len(sent')
                            \/ /\ wire'[Len(wire')][1] + 1 = Len(sent')
                               /\ sent'[Len(sent')].written = 0
      OBVIOUS
    <2>0. Len(wire') > 0
      BY <1>2
    <2>1. CASE m.written = 0
      <3>1. Len(wire') = Len(wire) /\ wire'[Len(wire)] = wire[Len(wire)] /\ wire # <<>>
        BY <1>2, <1>3, <2>0, <2>1
      <3>2. wire[Len(wire)][1] \in 1 .. Len(sent)
        BY <1>3, <1>5, <2>0, <3>1
      <3>3. wire[Len(wire)][1] = Len(sent)
        BY <1>3, <3>1, <3>2 DEF WireInv
      <3>. QED BY <1>2, <2>1, <3>1, <3>2, <3>3 DEF WireInv
    <2>2. CASE m.written > 0
      <3>1. m.written \in 1 .. m.written
        BY <1>3, <2>2
      <3>2. wire'[Len(wire')] = <<Len(sent) + 1, m.written - 1>>
        BY <1>2, <3>1
      <3>. QED BY <1>2, <1>3, <3>2
    <2>. QED BY <1>3, <2>1, <2>2
  <1>9. WireInv'
    BY <1>7, <1>8, <1>r DEF WireInv, Rest
  <1>. QED BY <1>2, <1>4, <1>9

(* What is read is read from the front. *)
LEMMA ReadKeepsWire ==
  ASSUME PipeTypeOK, SentInv, WireInv, NEW n \in 0 .. Len(wire),
         ReadExact(n), UNCHANGED sent
  PROVE  /\ WireInv' /\ wire' \in Seq(Place) /\ Len(wire') = Len(wire) - n
         /\ \A a \in 1 .. Len(wire) - n : wire'[a] = wire[n + a]
  <1>1. wire \in Seq(Place) /\ Len(wire) \in Nat
    BY DEF PipeTypeOK
  <1>2. /\ wire' \in Seq(Place) /\ Len(wire') = Len(wire) - n
        /\ \A a \in 1 .. Len(wire) - n : wire'[a] = wire[n + a]
    <2>1. \A i \in n + 1 .. Len(wire) : wire[i] \in Place
      BY <1>1
    <2>. HIDE DEF ReadExact
    <2>2. /\ SubSeq(wire, n + 1, Len(wire)) \in Seq(Place)
          /\ Len(SubSeq(wire, n + 1, Len(wire))) =
               IF n + 1 <= Len(wire) THEN Len(wire) - (n + 1) + 1 ELSE 0
          /\ \A i \in 1 .. Len(wire) - (n + 1) + 1 :
               SubSeq(wire, n + 1, Len(wire))[i] = wire[n + 1 + i - 1]
      BY <1>1, <2>1, SubSeqProperties
    <2>. QED BY <1>1, <2>2 DEF ReadExact
  <1>3. \A a \in 1 .. Len(wire') : n + a \in 1 .. Len(wire) /\ wire'[a] = wire[n + a]
    BY <1>1, <1>2
  <1> DEFINE rest(a) == sent'[wire'[a][1]].size - wire'[a][2]
  <1>4. \A a \in 1 .. Len(wire') : rest(a) = Rest(wire[n + a])
    BY <1>3 DEF Rest
  <1>r. \A a : rest(a) = sent'[wire'[a][1]].size - wire'[a][2]
    OBVIOUS
  <1>. HIDE DEF rest
  <1>5. ASSUME NEW a \in 1 .. Len(wire')
        PROVE  /\ wire'[a][1] \in 1 .. Len(sent')
               /\ wire'[a][2] < sent'[wire'[a][1]].written
               /\ \A j \in 0 .. rest(a) :
                    a + j <= Len(wire') => wire'[a + j] = <<wire'[a][1], wire'[a][2] + j>>
               /\ a + rest(a) + 1 <= Len(wire') =>
                    wire'[a + rest(a) + 1] = <<wire'[a][1] + 1, 0>>
               /\ Whole(sent'[wire'[a][1]]) => a + rest(a) <= Len(wire')
    <2>1. /\ n + a \in 1 .. Len(wire) /\ wire'[a] = wire[n + a] /\ sent' = sent
          /\ rest(a) = Rest(wire[n + a])
      BY <1>3, <1>4
    <2>2. wire[n + a] \in Place
      BY <1>1, <2>1
    <2>3. rest(a) \in Nat
      <3>1. wire[n + a][1] \in 1 .. Len(sent) /\ wire[n + a][2] \in Nat
        BY <2>1, <2>2 DEF WireInv, Place
      <3>2. sent[wire[n + a][1]] \in Message
        BY <3>1 DEF PipeTypeOK
      <3>3. sent[wire[n + a][1]].size \in Nat /\ sent[wire[n + a][1]].written \in Nat
        BY <3>2, SizeAssumption DEF Message
      <3>4. wire[n + a][2] < sent[wire[n + a][1]].written
        BY <2>1 DEF WireInv
      <3>5. sent[wire[n + a][1]].written <= sent[wire[n + a][1]].size + 1
        BY <3>1 DEF SentInv, Units
      <3>6. rest(a) = sent[wire[n + a][1]].size - wire[n + a][2]
        BY <2>1, <1>r
      <3>7. \A size, written, place \in Nat :
              place < written /\ written <= size + 1 => size - place \in Nat
        OBVIOUS
      <3>. QED BY <3>1, <3>3, <3>4, <3>5, <3>6, <3>7
    <2>4. /\ wire[n + a][1] \in 1 .. Len(sent)
          /\ wire[n + a][2] < sent[wire[n + a][1]].written
      BY <2>1 DEF WireInv
    <2>5. ASSUME NEW j \in 0 .. rest(a), a + j <= Len(wire')
          PROVE  wire'[a + j] = <<wire'[a][1], wire'[a][2] + j>>
      <3>1. a + j \in 1 .. Len(wire') /\ n + (a + j) = (n + a) + j /\ (n + a) + j <= Len(wire)
        BY <1>1, <1>2, <2>3, <2>5
      <3>2. wire[(n + a) + j] = <<wire[n + a][1], wire[n + a][2] + j>>
        BY <2>1, <3>1 DEF WireInv
      <3>. QED BY <1>3, <2>1, <3>1, <3>2
    <2>6. ASSUME a + rest(a) + 1 <= Len(wire')
          PROVE  wire'[a + rest(a) + 1] = <<wire'[a][1] + 1, 0>>
      <3>1. /\ n + (a + rest(a) + 1) = (n + a) + rest(a) + 1
            /\ (n + a) + rest(a) + 1 <= Len(wire)
        BY <1>1, <1>2, <2>3, <2>6
      <3>2. wire[(n + a) + rest(a) + 1] = <<wire[n + a][1] + 1, 0>>
        BY <2>1, <3>1 DEF WireInv
      <3>3. a + rest(a) + 1 \in 1 .. Len(wire')
        BY <1>1, <1>2, <2>3, <2>6
      <3>. QED BY <1>3, <2>1, <3>1, <3>2, <3>3
    <2>7. Whole(sent'[wire'[a][1]]) => a + rest(a) <= Len(wire')
      <3>1. Whole(sent[wire[n + a][1]]) => (n + a) + rest(a) <= Len(wire)
        BY <2>1 DEF WireInv
      <3>. QED BY <1>1, <1>2, <2>1, <2>3, <3>1
    <2>. QED BY <2>1, <2>4, <2>5, <2>6, <2>7
  <1>6. wire' # <<>> => wire # <<>> /\ wire'[Len(wire')] = wire[Len(wire)]
    BY <1>1, <1>2
  <1>7. wire' # <<>> =>
          /\ wire'[Len(wire')][2] + 1 = sent'[wire'[Len(wire')][1]].written
          /\ \/ wire'[Len(wire')][1] = Len(sent')
             \/ wire'[Len(wire')][1] + 1 = Len(sent') /\ sent'[Len(sent')].written = 0
    BY <1>6 DEF WireInv
  <1>8. WireInv'
    BY <1>5, <1>7, <1>r DEF WireInv, Rest
  <1>. QED BY <1>2, <1>8

-------------------------------------------------------------------------------
(* The bridge's steps, and its end. *)

(* What the source holds and has given does not depend on what the bridge  *)
(* adds behind it.                                                         *)
LEMMA BridgeKeepsReader ==
  ASSUME StreamInv, BridgeStep
  PROVE  StateInv' /\ PayloadInv' /\ ServedInv'
  <1>1. UNCHANGED <<pc, request, members, parsed, results>>
    BY DEF BridgeStep, BridgeConnects, BridgeWrites, BridgeCloses
  <1>2. sent' = sent \/ BridgeWrites
    BY DEF BridgeStep, BridgeConnects, BridgeCloses
  <1>3. /\ Len(sent) <= Len(sent') /\ Len(sent) \in Nat /\ Len(sent') \in Nat
        /\ \A i \in 1 .. Len(sent) : sent'[i] = sent[i]
    <2>1. CASE sent' = sent
      BY <2>1 DEF StreamInv, PipeTypeOK
    <2>2. CASE BridgeWrites
      <3>1. PICK m \in Message : sent' = Append(sent, m)
        BY <2>2 DEF BridgeWrites
      <3>2. sent \in Seq(Message)
        BY DEF StreamInv, PipeTypeOK
      <3>. QED BY <3>1, <3>2, AppendProperties
    <2>. QED BY <1>2, <2>1, <2>2
  <1>4. parsed \in Nat
    BY DEF StreamInv, PipeTypeOK
  <1>5. helloRead => parsed + 1 <= Len(sent) /\ Current' = Current
                     /\ \A j \in 1 .. parsed + 1 : sent'[j] = sent[j]
    <2>1. helloRead => parsed + 1 \in 1 .. Len(sent) /\ \A j \in 1 .. parsed + 1 : j \in 1 .. Len(sent)
      BY <1>3, <1>4 DEF StreamInv, StateInv
    <2>. QED BY <1>1, <1>3, <2>1 DEF Current
  <1>6. StateInv'
    <2>1. atEnd => EndsInPlace'
      <3>1. CASE atEnd /\ sent' = sent
        BY <1>1, <3>1 DEF StreamInv, StateInv, EndsInPlace, Current, results
      <3>2. CASE atEnd /\ BridgeWrites
        <4>1. helloRead /\ parsed > 0 /\ Current.type = "EndOfStream"
          BY <3>2 DEF StreamInv, StateInv, BridgeWrites, BridgeGone
        <4>. QED BY <1>1, <1>5, <4>1 DEF EndsInPlace
      <3>. QED BY <1>2, <3>1, <3>2
    <2>2. atEnd => BridgeGone' \/ (parsed > 0 /\ Current.type = "EndOfStream")
      BY DEF StreamInv, StateInv, BridgeStep, BridgeConnects, BridgeWrites, BridgeCloses, BridgeGone
    <2>3. helloRead => parsed + 1 <= Len(sent') /\ \A j \in 1 .. parsed + 1 : sent'[j].wellFormed
      BY <1>3, <1>4, <1>5 DEF StreamInv, StateInv
    <2>4. (pc \in {"payload", "discard"} \/ atEnd) => helloRead
      BY DEF StreamInv, StateInv
    <2>. QED BY <1>1, <1>5, <2>1, <2>2, <2>3, <2>4 DEF StreamInv, StateInv, members, results
  <1>7. PayloadInv'
    <2>1. payload # <<>> => helloRead
      BY DEF StreamInv, StateInv
    <2>2. payload # <<>> => Whole(Current)' = Whole(Current)
      BY <1>5, <2>1 DEF Whole, Units
    <2>. QED BY <1>1, <1>5, <2>1, <2>2 DEF StreamInv, PayloadInv, members
  <1>8. ServedInv'
    <2>1. parsed = 0 \/ \A i \in 1 .. parsed + 1 : sent'[i] = sent[i]
      BY <1>5 DEF StreamInv, StateInv
    <2>2. Given' = Given /\ Due' = Due
      BY <1>1, <2>1, GivenStays DEF StreamInv, results
    <2>3. \A u : Served(u)' <=> Served(u)
      BY <1>1 DEF Served, members
    <2>. QED BY <1>1, <2>2, <2>3 DEF StreamInv, ServedInv, Ordered, results
  <1>. QED BY <1>6, <1>7, <1>8

(* The bridge writes at the place where the source expects the next unit.  *)
LEMMA BridgeKeepsNext ==
  ASSUME StreamInv, BridgeStep
  PROVE  NextUnit'
  <1>1. UNCHANGED <<pc, request, members, parsed, results>>
    BY DEF BridgeStep, BridgeConnects, BridgeWrites, BridgeCloses
  <1>2. CASE UNCHANGED <<sent, wire>>
    BY <1>1, <1>2 DEF StreamInv, NextUnit, InPayload, HeaderNext, PayloadNext, Current,
       members, results
  <1>3. CASE BridgeWrites
    <2>1. PICK m \in Message :
            /\ sent' = Append(sent, m)
            /\ wire' = wire \o [k \in 1 .. m.written |-> <<Len(sent) + 1, k - 1>>]
      BY <1>3 DEF BridgeWrites
    <2>2. /\ sent' \in Seq(Message) /\ Len(sent') = Len(sent) + 1
          /\ sent'[Len(sent) + 1] = m
          /\ \A i \in 1 .. Len(sent) : sent'[i] = sent[i]
          /\ wire' \in Seq(Place) /\ Len(wire') = Len(wire) + m.written
          /\ \A a \in 1 .. Len(wire) : wire'[a] = wire[a]
          /\ \A k \in 1 .. m.written : wire'[Len(wire) + k] = <<Len(sent) + 1, k - 1>>
      BY <2>1, Written DEF StreamInv
    <2>3. /\ Len(sent) \in Nat /\ Len(wire) \in Nat /\ parsed \in Nat
          /\ wire # <<>> => Len(wire) >= 1
          /\ wire' # <<>> <=> Len(wire') >= 1
          /\ m.written \in Nat
      <3>1. m.written \in Nat
        BY SizeAssumption DEF Message
      <3>2. wire \in Seq(Place) /\ sent \in Seq(Message) /\ parsed \in Nat
        BY DEF StreamInv, PipeTypeOK
      <3>. QED BY <2>2, <3>1, <3>2
    <2>4. \A i \in 1 .. Len(sent) : sent[i].size \in Nat /\ sent[i].written = sent[i].size + 1
      <3>1. \A i \in 1 .. Len(sent) : sent[i] \in Message /\ Whole(sent[i])
        BY <1>3 DEF StreamInv, SentInv, PipeTypeOK, BridgeWrites
      <3>. QED BY <3>1, SizeAssumption DEF Message, Whole, Units
    <2>5. ASSUME NEW i \in Nat \ {0}, HeaderNext(i)
          PROVE  HeaderNext(i)'
      <3>1. CASE wire # <<>>
        BY <2>2, <2>3, <2>5, <3>1 DEF HeaderNext
      <3>2. CASE wire = <<>>
        <4>1. Len(wire) = 0 /\ Len(sent) = i - 1
          <5>1. ~(Len(sent) = i /\ sent[i].written = 0)
            BY <2>3, <2>4
          <5>2. Len(wire) = 0
            BY <3>2
          <5>. QED BY <2>5, <3>2, <5>1, <5>2 DEF HeaderNext
        <4>2. CASE m.written = 0
          BY <2>2, <2>3, <4>1, <4>2 DEF HeaderNext
        <4>3. CASE m.written # 0
          <5>1. 1 \in 1 .. m.written
            BY <2>3, <4>3
          <5>2. wire'[1] = <<i, 0>>
            BY <2>2, <2>3, <4>1, <5>1
          <5>. QED BY <2>2, <2>3, <4>1, <4>3, <5>2 DEF HeaderNext
        <4>. QED BY <4>2, <4>3
      <3>. QED BY <3>1, <3>2
    <2>6. ASSUME helloRead, PayloadNext, InPayload
          PROVE  PayloadNext'
      <3>1. parsed + 1 \in 1 .. Len(sent)
        BY <2>3, <2>6 DEF StreamInv, StateInv
      <3>2. wire # <<>>
        BY <2>4, <2>6, <3>1 DEF PayloadNext, InPayload, Current
      <3>. QED BY <1>1, <2>2, <2>3, <2>6, <3>2 DEF PayloadNext
    <2>7. helloRead => (InPayload' <=> InPayload)
      <3>1. helloRead => parsed + 1 \in 1 .. Len(sent)
        BY <2>3 DEF StreamInv, StateInv
      <3>. QED BY <1>1, <2>2, <3>1 DEF InPayload, Current
    <2>. QED BY <1>1, <2>3, <2>5, <2>6, <2>7 DEF StreamInv, NextUnit, members, results
  <1>. QED BY <1>2, <1>3 DEF BridgeStep, BridgeConnects, BridgeCloses

LEMMA BridgeKeepsStream ==
  ASSUME StreamInv, BridgeStep
  PROVE  StreamInv'
  <1>1. UNCHANGED <<pc, request, members, parsed, results>>
    BY DEF BridgeStep, BridgeConnects, BridgeWrites, BridgeCloses
  <1>2. bridgeEnd' \in {"open", "closed"} /\ (bridgeEnd' = "open" => bridgeEnd \in {"away", "open"})
    BY DEF BridgeStep, BridgeConnects, BridgeWrites, BridgeCloses
  <1>3. SentInv' /\ WireInv' /\ sent' \in Seq(Message) /\ wire' \in Seq(Place)
    <2>1. CASE BridgeWrites
      BY <2>1, WriteKeepsWire DEF StreamInv
    <2>2. CASE UNCHANGED <<sent, wire>>
      <3>1. WireInv' /\ sent' \in Seq(Message) /\ wire' \in Seq(Place)
        BY <2>2 DEF StreamInv, WireInv, PipeTypeOK, Rest
      <3>2. SentInv'
        BY <1>2, <2>2 DEF StreamInv, SentInv
      <3>. QED BY <3>1, <3>2
    <2>. QED BY <2>1, <2>2 DEF BridgeStep, BridgeConnects, BridgeCloses
  <1>4. PipeTypeOK'
    BY <1>1, <1>2, <1>3 DEF StreamInv, PipeTypeOK, members, results
  <1>. QED BY <1>3, <1>4, BridgeKeepsReader, BridgeKeepsNext DEF StreamInv

-------------------------------------------------------------------------------
(* The source's steps. *)

(* The sizes of the messages and the places on the wire are numbers. *)
LEMMA Numbers ==
  ASSUME StreamInv
  PROVE  /\ Len(sent) \in Nat /\ Len(wire) \in Nat /\ parsed \in Nat /\ Len(payload) \in Nat
         /\ wire # <<>> <=> Len(wire) >= 1
         /\ \A i \in 1 .. Len(sent) : /\ sent[i].size \in Nat /\ sent[i].written \in Nat
                                      /\ sent[i].written <= sent[i].size + 1
                                      /\ Whole(sent[i]) <=> sent[i].written = sent[i].size + 1
                                      /\ i < Len(sent) => Whole(sent[i])
  <1>1. sent \in Seq(Message) /\ wire \in Seq(Place) /\ payload \in Seq(Place) /\ parsed \in Nat
    BY DEF StreamInv, PipeTypeOK
  <1>2. \A i \in 1 .. Len(sent) : sent[i] \in Message
    BY <1>1
  <1>3. \A i \in 1 .. Len(sent) : sent[i].size \in Nat /\ sent[i].written \in Nat
    BY <1>2, SizeAssumption DEF Message
  <1>4. \A i \in 1 .. Len(sent) : /\ sent[i].written <= sent[i].size + 1
                                  /\ i < Len(sent) => Whole(sent[i])
    BY DEF StreamInv, SentInv, Units
  <1>5. \A i \in 1 .. Len(sent) : Whole(sent[i]) <=> sent[i].written = sent[i].size + 1
    BY DEF Whole, Units
  <1>. QED BY <1>1, <1>3, <1>4, <1>5

(* A header is read: the message's payload is next, or another header.     *)
LEMMA HeaderRead ==
  ASSUME StreamInv, NEW i \in Nat \ {0}, HeaderNext(i),
         CanReadExact(1), ReadExact(1), UNCHANGED sent
  PROVE  /\ i \in 1 .. Len(sent) /\ Incoming = sent[i] /\ wire' \in Seq(Place)
         /\ sent[i].size = 0 => HeaderNext(i + 1)'
         /\ sent[i].size > 0 =>
              /\ wire' # <<>> => wire'[1] = <<i, 1>>
              /\ wire' = <<>> => Len(sent) = i /\ sent[i].written = 1
  <1>1. 1 \in 1 .. Len(wire) /\ Len(wire) \in Nat /\ wire # <<>>
    BY Numbers DEF CanReadExact
  <1>2. wire[1] = <<i, 0>> /\ wire[1][1] = i /\ wire[1][2] = 0
    BY <1>1 DEF HeaderNext
  <1>3. i \in 1 .. Len(sent) /\ Incoming = sent[i]
    BY <1>1, <1>2 DEF StreamInv, WireInv, Incoming
  <1>4. sent[i].size \in Nat /\ sent[i].written \in Nat /\ Rest(wire[1]) = sent[i].size
    BY <1>2, <1>3, Numbers DEF Rest
  <1>5. /\ wire' \in Seq(Place) /\ Len(wire') = Len(wire) - 1
        /\ \A a \in 1 .. Len(wire) - 1 : wire'[a] = wire[1 + a]
    BY <1>1, ReadKeepsWire DEF StreamInv
  <1>6. wire' # <<>> <=> Len(wire) >= 2
    BY <1>1, <1>5
  <1>7. CASE Len(wire) >= 2
    <2>1. wire'[1] = wire[2]
      BY <1>1, <1>5, <1>7
    <2>2. sent[i].size = 0 => wire[2] = <<i + 1, 0>>
      <3>1. 1 + Rest(wire[1]) + 1 <= Len(wire) =>
              wire[1 + Rest(wire[1]) + 1] = <<wire[1][1] + 1, 0>>
        BY <1>1 DEF StreamInv, WireInv
      <3>. QED BY <1>1, <1>2, <1>4, <1>7, <3>1
    <2>3. sent[i].size > 0 => wire[2] = <<i, 1>>
      <3>1. \A j \in 0 .. Rest(wire[1]) :
              1 + j <= Len(wire) => wire[1 + j] = <<wire[1][1], wire[1][2] + j>>
        BY <1>1 DEF StreamInv, WireInv
      <3>2. sent[i].size > 0 => 1 \in 0 .. Rest(wire[1])
        BY <1>4
      <3>. QED BY <1>1, <1>2, <1>7, <3>1, <3>2
    <2>. QED BY <1>3, <1>5, <1>6, <1>7, <2>1, <2>2, <2>3 DEF HeaderNext
  <1>8. CASE Len(wire) = 1
    <2>1. /\ sent[i].written = 1
          /\ i = Len(sent) \/ (i + 1 = Len(sent) /\ sent[Len(sent)].written = 0)
      BY <1>1, <1>2, <1>4, <1>8 DEF StreamInv, WireInv
    <2>2. sent[i].size > 0 => Len(sent) = i
      BY <1>3, <1>4, <2>1, Numbers
    <2>3. Len(sent) = (i + 1) - 1 \/ (Len(sent) = i + 1 /\ sent[i + 1].written = 0)
      BY <2>1, Numbers
    <2>. QED BY <1>3, <1>5, <1>6, <1>8, <2>1, <2>2, <2>3 DEF HeaderNext
  <1>9. Len(wire) >= 2 \/ Len(wire) = 1
    <2>1. \A n \in Nat : 1 \in 1 .. n => n >= 2 \/ n = 1
      OBVIOUS
    <2>. QED BY <1>1, <2>1
  <1>. QED BY <1>3, <1>5, <1>7, <1>8, <1>9

(* A payload is read: it is the current message's, all of it, and the next *)
(* header follows.                                                         *)
LEMMA BodyRead ==
  ASSUME StreamInv, helloRead, Current.size > 0, PayloadNext,
         CanReadExact(Current.size), ReadExact(Current.size), UNCHANGED <<sent, parsed>>
  PROVE  /\ parsed + 1 \in 1 .. Len(sent) /\ Current.size \in 1 .. Len(wire)
         /\ \A k \in 1 .. Current.size : wire[k] = <<parsed + 1, k>>
         /\ Whole(Current) /\ HeaderNext(parsed + 2)' /\ wire' \in Seq(Place)
  <1> DEFINE n == Current.size
  <1>1. /\ parsed + 1 \in 1 .. Len(sent) /\ Len(wire) \in Nat /\ n \in Nat /\ parsed \in Nat
        /\ Len(sent) \in Nat
    <2>1. parsed + 1 \in 1 .. Len(sent)
      BY Numbers DEF StreamInv, StateInv
    <2>. QED BY <2>1, Numbers DEF Current
  <1>2. n > 0 /\ n <= Len(wire) /\ ReadExact(n)
    BY DEF CanReadExact
  <1>c. n = Current.size
    OBVIOUS
  <1>. HIDE DEF n
  <1>3. 1 \in 1 .. Len(wire) /\ n \in 1 .. Len(wire) /\ n \in 0 .. Len(wire) /\ wire # <<>>
    BY <1>1, <1>2, Numbers
  <1>4. wire[1] = <<parsed + 1, 1>> /\ wire[1][1] = parsed + 1 /\ wire[1][2] = 1
    BY <1>1, <1>3 DEF PayloadNext
  <1>5. Rest(wire[1]) = n - 1
    BY <1>4, <1>c DEF Rest, Current
  <1>6. ASSUME NEW k \in 1 .. n
        PROVE  wire[k] = <<parsed + 1, k>>
    <2>1. \A j \in 0 .. Rest(wire[1]) :
            1 + j <= Len(wire) => wire[1 + j] = <<wire[1][1], wire[1][2] + j>>
      BY <1>3 DEF StreamInv, WireInv
    <2>2. k - 1 \in 0 .. Rest(wire[1]) /\ 1 + (k - 1) = k /\ k <= Len(wire)
      BY <1>1, <1>2, <1>5
    <2>. QED BY <1>4, <2>1, <2>2
  <1>7. wire[n] = <<parsed + 1, n>> /\ wire[n][1] = parsed + 1 /\ wire[n][2] = n
    BY <1>1, <1>2, <1>6
  <1>8. Whole(Current)
    <2>1. n < sent[parsed + 1].written
      BY <1>3, <1>7 DEF StreamInv, WireInv
    <2>2. sent[parsed + 1].written = n + 1
      BY <1>1, <1>c, <2>1, Numbers DEF Current
    <2>. QED BY <1>1, <1>c, <2>2, Numbers DEF Current
  <1>9. /\ wire' \in Seq(Place) /\ Len(wire') = Len(wire) - n
        /\ \A a \in 1 .. Len(wire) - n : wire'[a] = wire[n + a]
    BY <1>2, <1>3, ReadKeepsWire DEF StreamInv
  <1>10. HeaderNext(parsed + 2)'
    <2>1. CASE Len(wire) > n
      <3>1. wire'[1] = wire[n + 1] /\ wire' # <<>>
        BY <1>1, <1>9, <2>1
      <3>2. 1 + Rest(wire[1]) + 1 <= Len(wire) =>
              wire[1 + Rest(wire[1]) + 1] = <<wire[1][1] + 1, 0>>
        BY <1>3 DEF StreamInv, WireInv
      <3>3. wire[n + 1] = <<parsed + 2, 0>>
        <4>1. 1 + (n - 1) + 1 = n + 1 /\ n + 1 <= Len(wire) /\ (parsed + 1) + 1 = parsed + 2
          BY <1>1, <2>1
        <4>. QED BY <1>4, <1>5, <3>2, <4>1
      <3>. QED BY <3>1, <3>3 DEF HeaderNext
    <2>2. CASE Len(wire) = n
      <3>1. wire' = <<>>
        BY <1>1, <1>9, <2>2
      <3>2. parsed + 1 = Len(sent) \/ (parsed + 2 = Len(sent) /\ sent[Len(sent)].written = 0)
        BY <1>1, <1>3, <1>7, <2>2 DEF StreamInv, WireInv
      <3>. QED BY <1>1, <3>1, <3>2 DEF HeaderNext
    <2>. QED BY <1>1, <1>2, <2>1, <2>2
  <1>. QED BY <1>1, <1>3, <1>6, <1>8, <1>9, <1>10, <1>c

(* A payload that does not come is one that was cut short. *)
LEMMA BodyCutShort ==
  ASSUME StreamInv, helloRead, Current.size > 0, PayloadNext, Len(wire) < Current.size
  PROVE  ~Whole(Current) /\ parsed + 1 = Len(sent)
  <1>1. parsed + 1 \in 1 .. Len(sent) /\ Current = sent[parsed + 1] /\ parsed \in Nat
    BY Numbers DEF StreamInv, StateInv, Current
  <1>2. Current.size \in Nat /\ Current.written \in Nat /\ Len(sent) \in Nat /\ Len(wire) \in Nat
    BY <1>1, Numbers
  <1>3. ~Whole(Current)
    <2>1. CASE wire = <<>>
      BY <1>1, <1>2, <2>1, Numbers DEF PayloadNext
    <2>2. CASE wire # <<>>
      <3>1. 1 \in 1 .. Len(wire)
        BY <1>2, <2>2, Numbers
      <3>2. wire[1][1] = parsed + 1 /\ wire[1][2] = 1
        BY <1>1, <2>2 DEF PayloadNext
      <3>3. Whole(Current) => 1 + Rest(wire[1]) <= Len(wire)
        BY <1>1, <3>1, <3>2 DEF StreamInv, WireInv
      <3>4. Rest(wire[1]) = Current.size - 1
        BY <1>1, <3>2 DEF Rest
      <3>. QED BY <1>2, <3>3, <3>4
    <2>. QED BY <2>1, <2>2
  <1>. QED BY <1>1, <1>2, <1>3, Numbers

(* However the source moves along the wire, the wire has no gap. *)
LEMMA MovesKeepWire ==
  ASSUME StreamInv, UNCHANGED bridge,
         \/ wire' = wire
         \/ wire' = <<>>
         \/ \E n \in 0 .. Len(wire) : ReadExact(n)
  PROVE  SentInv' /\ WireInv' /\ wire' \in Seq(Place)
  <1>1. sent' = sent /\ bridgeEnd' = bridgeEnd
    BY DEF bridge
  <1>2. SentInv'
    BY <1>1 DEF StreamInv, SentInv
  <1>3. CASE wire' = wire
    BY <1>1, <1>2, <1>3 DEF StreamInv, WireInv, PipeTypeOK, Rest
  <1>4. CASE wire' = <<>>
    <2>1. wire' \in Seq(Place) /\ Len(wire') = 0
      BY <1>4, EmptySeq
    <2>. QED BY <1>2, <1>4, <2>1 DEF WireInv
  <1>5. CASE \E n \in 0 .. Len(wire) : ReadExact(n)
    BY <1>1, <1>2, <1>5, ReadKeepsWire DEF StreamInv
  <1>. QED BY <1>3, <1>4, <1>5

(* A step that gives nothing and parses nothing. *)
LEMMA ServedStays ==
  ASSUME StreamInv, UNCHANGED <<sent, parsed, delivered>>,
         ~ioError' => ~ioError /\ \A u \in Due : Served(u)' <=> Served(u)
  PROVE  ServedInv'
  <1>1. Given' = Given /\ Due' = Due
    BY GivenStays DEF StreamInv
  <1>. QED BY <1>1 DEF StreamInv, ServedInv, Ordered

(* read() is called, the connection is made, or something breaks: nothing  *)
(* is parsed or given.                                                     *)
LEMMA CallsKeepStream ==
  ASSUME StreamInv, FFmpegReads \/ Connect \/ SocketFails
  PROVE  StreamInv'
  <1>1. /\ UNCHANGED <<bridge, wire, parsed, delivered, helloRead, payload, payloadOffset, eof>>
        /\ UNCHANGED sent
    BY DEF FFmpegReads, Read, Connect, SocketFails, ReturnEnd, Throw, members, results, bridge
  <1>2. SentInv' /\ WireInv'
    BY <1>1, MovesKeepWire
  <1>3. CASE FFmpegReads
    <2>1. PICK size \in 1 .. MaxRead : Read(size)
      BY <1>3 DEF FFmpegReads
    <2>2. /\ pc = "idle" /\ ~ioError /\ ioError' = ioError /\ connected' = connected
          /\ request' = size
          /\ \/ eof /\ atEnd' = TRUE /\ pc' = "idle"
             \/ ~eof /\ atEnd' = atEnd /\ pc' \in {"serve", "connect"}
                /\ (pc' = "serve" <=> connected)
      BY <2>1 DEF Read, ReturnEnd, members, results
    <2>3. PipeTypeOK'
      <3>1. size \in Nat \ {0}
        BY SizeAssumption
      <3>. QED BY <1>1, <2>2, <3>1 DEF StreamInv, PipeTypeOK, bridge
    <2>4. NextUnit'
      BY <1>1, <2>2 DEF StreamInv, NextUnit, InPayload, HeaderNext, PayloadNext, Current
    <2>5. StateInv'
      <3>1. EndsInPlace' <=> EndsInPlace
        BY <1>1 DEF EndsInPlace, Current
      <3>2. BridgeGone' <=> BridgeGone
        BY <1>1 DEF BridgeGone, bridge
      <3>3. CASE eof /\ atEnd' = TRUE /\ pc' = "idle"
        <4>1. atEnd
          BY <2>2, <3>3 DEF StreamInv, StateInv
        <4>. QED BY <1>1, <2>2, <3>1, <3>2, <3>3, <4>1 DEF StreamInv, StateInv, Current
      <3>4. CASE ~eof /\ atEnd' = atEnd /\ pc' \in {"serve", "connect"} /\ (pc' = "serve" <=> connected)
        <4>1. ~atEnd
          BY <3>4 DEF StreamInv, StateInv
        <4>. QED BY <1>1, <2>2, <3>4, <4>1 DEF StreamInv, StateInv
      <3>. QED BY <2>2, <3>3, <3>4
    <2>6. PayloadInv'
      <3>1. Whole(Current)' <=> Whole(Current)
        BY <1>1 DEF Whole, Current, Units
      <3>. QED BY <1>1, <2>2, <3>1 DEF StreamInv, PayloadInv, Current
    <2>7. ServedInv'
      <3>1. \A u \in Due : Served(u)' <=> Served(u)
        BY <1>1, <2>2 DEF Served
      <3>. QED BY <1>1, <2>2, <3>1, ServedStays
    <2>. QED BY <1>2, <2>3, <2>4, <2>5, <2>6, <2>7 DEF StreamInv
  <1>4. CASE Connect
    <2>1. /\ pc = "connect" /\ pc' = "hello" /\ connected' = TRUE /\ request' = request
          /\ atEnd' = atEnd /\ ioError' = ioError
      BY <1>4 DEF Connect, results
    <2>2. PipeTypeOK'
      BY <1>1, <2>1 DEF StreamInv, PipeTypeOK, bridge
    <2>3. NextUnit'
      BY <1>1, <2>1 DEF StreamInv, NextUnit, InPayload, HeaderNext, PayloadNext, Current
    <2>4. StateInv'
      <3>1. EndsInPlace' <=> EndsInPlace
        BY <1>1 DEF EndsInPlace, Current
      <3>2. BridgeGone' <=> BridgeGone
        BY <1>1 DEF BridgeGone, bridge
      <3>. QED BY <1>1, <2>1, <3>1, <3>2 DEF StreamInv, StateInv, Current
    <2>5. PayloadInv'
      <3>1. Whole(Current)' <=> Whole(Current)
        BY <1>1 DEF Whole, Current, Units
      <3>. QED BY <1>1, <2>1, <3>1 DEF StreamInv, PayloadInv, Current
    <2>6. ServedInv'
      <3>1. \A u \in Due : Served(u)' <=> Served(u)
        BY <1>1, <2>1 DEF Served
      <3>. QED BY <1>1, <2>1, <3>1, ServedStays
    <2>. QED BY <1>2, <2>2, <2>3, <2>4, <2>5, <2>6 DEF StreamInv
  <1>5. CASE SocketFails
    <2>1. /\ pc # "idle" /\ pc' = "idle" /\ ioError' = TRUE /\ atEnd' = atEnd
          /\ request' = request /\ connected' = connected
      BY <1>5 DEF SocketFails, Throw, members
    <2>2. PipeTypeOK'
      BY <1>1, <2>1 DEF StreamInv, PipeTypeOK, bridge
    <2>3. ~atEnd /\ ~eof
      BY <2>1 DEF StreamInv, StateInv
    <2>4. NextUnit' /\ StateInv'
      BY <1>1, <2>1, <2>3 DEF StreamInv, NextUnit, StateInv
    <2>5. PayloadInv'
      <3>1. Whole(Current)' <=> Whole(Current)
        BY <1>1 DEF Whole, Current, Units
      <3>. QED BY <1>1, <2>1, <3>1 DEF StreamInv, PayloadInv, Current
    <2>6. ServedInv'
      BY <1>1, <2>1, ServedStays
    <2>. QED BY <1>2, <2>2, <2>4, <2>5, <2>6 DEF StreamInv
  <1>. QED BY <1>3, <1>4, <1>5

(* The hello is read. *)
LEMMA HelloKeepsStream ==
  ASSUME StreamInv, ReadHello
  PROVE  StreamInv'
  <1>1. /\ pc = "hello" /\ UNCHANGED <<bridge, request, connected, payload, payloadOffset,
                                        parsed, delivered, atEnd>>
        /\ UNCHANGED sent
    BY DEF ReadHello, Throw, results, bridge
  <1>2. ~helloRead /\ ~eof /\ ~ioError /\ ~atEnd /\ parsed = 0 /\ payload = <<>> /\ HeaderNext(1)
    BY <1>1 DEF StreamInv, StateInv, NextUnit
  <1>3. Due = {} /\ Given = {}
    <2>1. 2 .. parsed + 1 = {}
      BY <1>2
    <2>2. Due = {}
      BY <2>1 DEF Due
    <2>. QED BY <2>2 DEF StreamInv, ServedInv
  <1>4. ServedInv'
    BY <1>1, <1>2, <1>3, ServedStays
  <1>5. PayloadInv'
    BY <1>1, <1>2 DEF StreamInv, PayloadInv
  <1>6. CASE /\ CanReadExact(1) /\ ReadExact(1) /\ Incoming.wellFormed
             /\ helloRead' = TRUE /\ pc' = "serve" /\ ioError' = ioError /\ eof' = eof
    <2>1. /\ 1 \in 1 .. Len(sent) /\ Incoming = sent[1] /\ wire' \in Seq(Place)
          /\ sent[1].size = 0 => HeaderNext(2)'
      BY <1>1, <1>2, <1>6, HeaderRead
    <2>2. HeaderNext(2)'
      BY <2>1 DEF StreamInv, SentInv
    <2>3. SentInv' /\ WireInv'
      <3>1. 1 \in 0 .. Len(wire)
        BY <1>6, Numbers DEF CanReadExact
      <3>. QED BY <1>1, <1>6, <3>1, MovesKeepWire
    <2>4. NextUnit'
      BY <1>1, <1>2, <1>6, <2>2 DEF NextUnit, InPayload
    <2>5. PipeTypeOK'
      BY <1>1, <1>2, <1>6, <2>1 DEF StreamInv, PipeTypeOK, bridge
    <2>6. StateInv'
      <3>1. parsed + 1 <= Len(sent) /\ \A j \in 1 .. parsed + 1 : sent[j].wellFormed
        BY <1>2, <1>6, <2>1, Numbers
      <3>. QED BY <1>1, <1>2, <1>6, <3>1 DEF StreamInv, StateInv
    <2>. QED BY <1>4, <1>5, <2>3, <2>4, <2>5, <2>6 DEF StreamInv
  <1>7. CASE /\ (CanReadExact(1) /\ ReadExact(1)) \/ wire' = <<>>
             /\ ioError' = TRUE /\ pc' = "idle" /\ helloRead' = helloRead /\ eof' \in BOOLEAN
    <2>1. SentInv' /\ WireInv' /\ wire' \in Seq(Place)
      <3>1. CanReadExact(1) => 1 \in 0 .. Len(wire)
        BY Numbers DEF CanReadExact
      <3>. QED BY <1>1, <1>7, <3>1, MovesKeepWire
    <2>2. PipeTypeOK'
      BY <1>1, <1>2, <1>7, <2>1 DEF StreamInv, PipeTypeOK, bridge
    <2>3. NextUnit' /\ StateInv'
      BY <1>1, <1>2, <1>7 DEF StreamInv, NextUnit, StateInv
    <2>. QED BY <1>4, <1>5, <2>1, <2>2, <2>3 DEF StreamInv
  <1>8. eof \in BOOLEAN
    BY DEF StreamInv, PipeTypeOK
  <1>. QED BY <1>6, <1>7, <1>8 DEF ReadHello, Throw, PipeEnds, results

(* What is left of the payload is given, as much as was asked for.         *)
LEMMA ServeKeepsStream ==
  ASSUME StreamInv, Serve
  PROVE  StreamInv'
  <1> DEFINE left == Len(payload) - payloadOffset
             n == IF left < request THEN left ELSE request
             piece == SubSeq(payload, payloadOffset + 1, payloadOffset + n)
  <1>1. /\ pc = "serve" /\ pc' = "idle" /\ payloadOffset < Len(payload)
        /\ delivered' = delivered \o piece /\ payloadOffset' = payloadOffset + n
        /\ UNCHANGED <<bridge, wire, request, connected, helloRead, eof,
                       payload, parsed, atEnd, ioError>>
        /\ UNCHANGED sent
    BY DEF Serve, bridge
  <1>2. helloRead /\ ~eof /\ ~ioError /\ ~atEnd
    BY <1>1 DEF StreamInv, StateInv
  <1>3. /\ Len(payload) \in Nat /\ payloadOffset \in Nat /\ request \in Nat \ {0}
        /\ parsed \in Nat /\ payload \in Seq(Place) /\ delivered \in Seq(Place)
        /\ Len(delivered) \in Nat /\ payload # <<>>
    <2>1. payload \in Seq(Place) /\ delivered \in Seq(Place)
      BY DEF StreamInv, PipeTypeOK
    <2>2. payloadOffset \in Nat /\ request \in Nat \ {0} /\ parsed \in Nat
      BY DEF StreamInv, PipeTypeOK
    <2>. QED BY <1>1, <2>1, <2>2
  <1>4. n \in Nat \ {0} /\ payloadOffset + n \in Nat /\ payloadOffset + n <= Len(payload)
    BY <1>1, <1>3
  <1>p. piece = SubSeq(payload, payloadOffset + 1, payloadOffset + n)
    OBVIOUS
  <1>. HIDE DEF n, left, piece
  <1>5. /\ piece \in Seq(Place) /\ Len(piece) = n
        /\ \A k \in 1 .. n : piece[k] = payload[payloadOffset + k]
    <2>1. \A k \in payloadOffset + 1 .. payloadOffset + n : payload[k] \in Place
      BY <1>3, <1>4
    <2>2. /\ SubSeq(payload, payloadOffset + 1, payloadOffset + n) \in Seq(Place)
          /\ Len(SubSeq(payload, payloadOffset + 1, payloadOffset + n)) =
               IF payloadOffset + 1 <= payloadOffset + n
               THEN payloadOffset + n - (payloadOffset + 1) + 1 ELSE 0
          /\ \A i \in 1 .. payloadOffset + n - (payloadOffset + 1) + 1 :
               SubSeq(payload, payloadOffset + 1, payloadOffset + n)[i]
                 = payload[payloadOffset + 1 + i - 1]
      BY <1>3, <1>4, <2>1, SubSeqProperties
    <2>3. payloadOffset + n - (payloadOffset + 1) + 1 = n /\ payloadOffset + 1 <= payloadOffset + n
      BY <1>3, <1>4
    <2>4. \A k \in 1 .. n : payloadOffset + 1 + k - 1 = payloadOffset + k
      BY <1>3, <1>4
    <2>. QED BY <1>p, <2>2, <2>3, <2>4
  <1>6. /\ Current.type = "VideoPayload" /\ Whole(Current) /\ Len(payload) = Current.size
        /\ \A k \in 1 .. n : piece[k] = <<parsed + 1, payloadOffset + k>>
    <2>1. \A k \in 1 .. n : payloadOffset + k \in 1 .. Len(payload)
      BY <1>3, <1>4
    <2>. QED BY <1>2, <1>3, <1>5, <2>1 DEF StreamInv, PayloadInv
  <1>7. /\ delivered' \in Seq(Place) /\ Len(delivered') = Len(delivered) + n
        /\ \A a \in 1 .. Len(delivered) : delivered'[a] = delivered[a]
        /\ \A k \in 1 .. n : delivered'[Len(delivered) + k] = <<parsed + 1, payloadOffset + k>>
    <2>1. /\ delivered \o piece \in Seq(Place)
          /\ Len(delivered \o piece) = Len(delivered) + Len(piece)
          /\ \A a \in 1 .. Len(delivered) + Len(piece) :
               (delivered \o piece)[a] =
                 IF a <= Len(delivered) THEN delivered[a] ELSE piece[a - Len(delivered)]
      BY <1>3, <1>5, ConcatProperties
    <2>2. \A a \in 1 .. Len(delivered) : a \in 1 .. Len(delivered) + Len(piece) /\ a <= Len(delivered)
      BY <1>3, <1>4, <1>5
    <2>3. \A k \in 1 .. n : /\ Len(delivered) + k \in 1 .. Len(delivered) + Len(piece)
                            /\ ~(Len(delivered) + k <= Len(delivered))
                            /\ (Len(delivered) + k) - Len(delivered) = k
      BY <1>3, <1>4, <1>5
    <2>. QED BY <1>1, <1>5, <1>6, <2>1, <2>2, <2>3
  <1>8. Due' = Due
    <2>1. UNCHANGED <<sent, parsed>>
      BY <1>1
    <2>. QED BY <2>1 DEF Due
  <1>9. parsed + 1 \in 2 .. parsed + 1 /\ parsed + 1 \in 1 .. Len(sent)
        /\ Current = sent[parsed + 1] /\ Current.size \in 0 .. MaxPayload
        /\ \A j \in 1 .. parsed + 1 : sent[j].wellFormed
    <2>1. parsed + 1 \in 1 .. Len(sent) /\ \A j \in 1 .. parsed + 1 : sent[j].wellFormed
      BY <1>2, Numbers DEF StreamInv, StateInv
    <2>2. sent[parsed + 1] \in Message
      BY <2>1 DEF StreamInv, PipeTypeOK
    <2>3. parsed # 0
      <3>1. sent[1].size = 0 /\ Current.size # 0
        BY <1>1, <1>3, <1>6, <2>1, Numbers DEF StreamInv, SentInv
      <3>. QED BY <3>1 DEF Current
    <2>. QED BY <1>3, <2>1, <2>2, <2>3 DEF Current, Message
  <1>10. \A k \in 1 .. Current.size : <<parsed + 1, k>> \in Due
    <2>. SUFFICES ASSUME NEW k \in 1 .. Current.size PROVE <<parsed + 1, k>> \in Due
      OBVIOUS
    <2>1. k \in 1 .. MaxPayload /\ k <= Current.size
      BY <1>9, SizeAssumption
    <2>. QED BY <1>6, <1>9, <2>1 DEF Due
  <1>11. \A u \in Due : u[1] \in Nat /\ u[2] \in Nat /\ u[2] >= 1 /\ u[1] <= parsed + 1 /\ u = <<u[1], u[2]>>
                        /\ (u[1] = parsed + 1 => u[2] \in 1 .. Current.size)
    BY <1>3, <1>9, SizeAssumption DEF Due
  <1>12. Given = {u \in Due : u[1] <= parsed \/ u[2] <= payloadOffset}
    BY <1>1, <1>2, <1>3 DEF StreamInv, ServedInv, Served
  <1>13. Given' = Given \union {<<parsed + 1, payloadOffset + k>> : k \in 1 .. n}
    <2>1. \A u \in Given' : u \in Given \/ \E k \in 1 .. n : u = <<parsed + 1, payloadOffset + k>>
      <3>. SUFFICES ASSUME NEW a \in 1 .. Len(delivered')
                    PROVE  \/ \E b \in 1 .. Len(delivered) : delivered'[a] = delivered[b]
                           \/ \E k \in 1 .. n : delivered'[a] = <<parsed + 1, payloadOffset + k>>
        BY DEF Given
      <3>1. CASE a \in 1 .. Len(delivered)
        BY <1>7, <3>1
      <3>2. CASE a \notin 1 .. Len(delivered)
        <4>1. a - Len(delivered) \in 1 .. n /\ a = Len(delivered) + (a - Len(delivered))
          BY <1>3, <1>4, <1>7, <3>2
        <4>. QED BY <1>7, <4>1
      <3>. QED BY <3>1, <3>2
    <2>2. \A b \in 1 .. Len(delivered) : delivered[b] \in Given'
      <3>1. \A b \in 1 .. Len(delivered) : b \in 1 .. Len(delivered') /\ delivered'[b] = delivered[b]
        BY <1>3, <1>4, <1>7
      <3>. QED BY <3>1 DEF Given
    <2>3. \A k \in 1 .. n : <<parsed + 1, payloadOffset + k>> \in Given'
      <3>1. \A k \in 1 .. n : Len(delivered) + k \in 1 .. Len(delivered')
        BY <1>3, <1>4, <1>7
      <3>. QED BY <1>7, <3>1 DEF Given
    <2>4. \A u \in Given : u \in Given'
      BY <2>2 DEF Given
    <2>. QED BY <2>1, <2>3, <2>4
  <1>14. Given' = {u \in Due : u[1] <= parsed \/ u[2] <= payloadOffset + n}
    <2>1. ASSUME NEW u \in Given' PROVE u \in Due /\ (u[1] <= parsed \/ u[2] <= payloadOffset + n)
      <3>1. CASE u \in Given
        BY <1>3, <1>4, <1>11, <1>12, <3>1
      <3>2. CASE \E k \in 1 .. n : u = <<parsed + 1, payloadOffset + k>>
        <4>1. PICK k \in 1 .. n : u = <<parsed + 1, payloadOffset + k>>
          BY <3>2
        <4>2. payloadOffset + k \in 1 .. Current.size /\ payloadOffset + k <= payloadOffset + n
          BY <1>3, <1>4, <1>6
        <4>. QED BY <1>10, <4>1, <4>2
      <3>. QED BY <1>13, <3>1, <3>2
    <2>2. ASSUME NEW u \in Due, u[1] <= parsed \/ u[2] <= payloadOffset + n PROVE u \in Given'
      <3>1. CASE u[1] <= parsed \/ u[2] <= payloadOffset
        BY <1>12, <1>13, <3>1
      <3>2. CASE u[1] = parsed + 1 /\ u[2] > payloadOffset /\ u[2] <= payloadOffset + n
        <4>1. u[2] - payloadOffset \in 1 .. n /\ u[2] = payloadOffset + (u[2] - payloadOffset)
          BY <1>3, <1>4, <1>11, <3>2
        <4>2. u = <<parsed + 1, payloadOffset + (u[2] - payloadOffset)>>
          BY <1>11, <3>2, <4>1
        <4>. QED BY <1>13, <4>1, <4>2
      <3>. QED BY <1>3, <1>4, <1>11, <2>2, <3>1, <3>2
    <2>. QED BY <2>1, <2>2
  <1>15. ServedInv'
    <2>1. Given' = {u \in Due : Served(u)'}
      <3>1. \A u : Served(u)' <=> u[1] <= parsed \/ u[2] <= payloadOffset + n
        BY <1>1, <1>3 DEF Served
      <3>. QED BY <1>14, <3>1
    <2>2. Ordered(delivered)'
      <3>. SUFFICES ASSUME NEW a \in 1 .. Len(delivered'), NEW b \in 1 .. Len(delivered'), a < b
                    PROVE  Earlier(delivered'[a], delivered'[b])
        BY DEF Ordered
      <3>1. CASE b \in 1 .. Len(delivered)
        <4>1. a \in 1 .. Len(delivered)
          BY <1>3, <1>7, <3>1
        <4>. QED BY <1>7, <3>1, <4>1 DEF StreamInv, ServedInv, Ordered
      <3>2. CASE b \notin 1 .. Len(delivered)
        <4>1. b - Len(delivered) \in 1 .. n /\ b = Len(delivered) + (b - Len(delivered))
          BY <1>3, <1>4, <1>7, <3>2
        <4>2. PICK k \in 1 .. n : b = Len(delivered) + k
          BY <4>1
        <4>3. delivered'[b] = <<parsed + 1, payloadOffset + k>>
          BY <1>7, <4>2
        <4>4. CASE a \in 1 .. Len(delivered)
          <5>1. delivered'[a] \in Given
            BY <1>7, <4>4 DEF Given
          <5>2. delivered'[a] \in Due /\ (delivered'[a][1] <= parsed \/ delivered'[a][2] <= payloadOffset)
            BY <1>12, <5>1
          <5>. QED BY <1>3, <1>11, <4>3, <5>2 DEF Earlier
        <4>5. CASE a \notin 1 .. Len(delivered)
          <5>1. a - Len(delivered) \in 1 .. n /\ a = Len(delivered) + (a - Len(delivered))
            BY <1>3, <1>4, <1>7, <4>5
          <5>2. PICK i \in 1 .. n : a = Len(delivered) + i
            BY <5>1
          <5>3. delivered'[a] = <<parsed + 1, payloadOffset + i>> /\ i < k
            BY <1>3, <1>4, <1>7, <4>2, <5>2
          <5>. QED BY <1>3, <1>4, <4>3, <5>3 DEF Earlier
        <4>. QED BY <4>4, <4>5
      <3>. QED BY <3>1, <3>2
    <2>3. \A u \in Due, v \in Given' : Earlier(u, v) => u \in Given'
      <3>. SUFFICES ASSUME NEW u \in Due, NEW v \in Given', Earlier(u, v)
                    PROVE  u[1] <= parsed \/ u[2] <= payloadOffset + n
        BY <1>14
      <3>1. v \in Due /\ (v[1] <= parsed \/ v[2] <= payloadOffset + n)
        BY <1>14
      <3>. QED BY <1>3, <1>4, <1>11, <3>1 DEF Earlier
    <2>. QED BY <1>8, <1>14, <2>1, <2>2, <2>3 DEF ServedInv
  <1>16. SentInv' /\ WireInv'
    BY <1>1, MovesKeepWire
  <1>17. PipeTypeOK'
    BY <1>1, <1>4, <1>7 DEF StreamInv, PipeTypeOK, bridge
  <1>18. NextUnit'
    BY <1>1 DEF StreamInv, NextUnit, InPayload, HeaderNext, PayloadNext, Current
  <1>19. StateInv'
    BY <1>1, <1>2 DEF StreamInv, StateInv, Current
  <1>20. PayloadInv'
    <2>1. Whole(Current)' <=> Whole(Current)
      BY <1>1 DEF Whole, Current, Units
    <2>. QED BY <1>1, <1>2, <1>4, <2>1 DEF StreamInv, PayloadInv, Current
  <1>. QED BY <1>15, <1>16, <1>17, <1>18, <1>19, <1>20 DEF StreamInv

(* The units due are those of the messages parsed, at most to their end. *)
LEMMA DueUnits ==
  ASSUME StreamInv, helloRead
  PROVE  /\ parsed + 1 \in 1 .. Len(sent)
         /\ \A u \in Due :
              /\ u[1] \in Nat /\ u[2] \in Nat /\ 1 <= u[2] /\ u[1] <= parsed + 1
              /\ u[1] = parsed + 1 =>
                   Current.type = "VideoPayload" /\ Whole(Current) /\ u[2] <= Current.size
  <1>1. parsed + 1 \in 1 .. Len(sent) /\ parsed \in Nat
    BY Numbers DEF StreamInv, StateInv
  <1>. QED BY <1>1, SizeAssumption DEF Due, Current

(* The payload is used up, and the source looks for the next message. *)
LEMMA NextPayloadKeepsStream ==
  ASSUME StreamInv, NextPayload
  PROVE  StreamInv'
  <1>1. /\ pc = "serve" /\ pc' = "header" /\ payloadOffset >= Len(payload)
        /\ payload' = <<>> /\ payloadOffset' = 0
        /\ UNCHANGED <<bridge, wire, request, connected, helloRead, eof, parsed, results>>
        /\ UNCHANGED sent /\ UNCHANGED <<delivered, atEnd, ioError>>
    BY DEF NextPayload, bridge, results
  <1>2. helloRead /\ ~eof /\ ~ioError /\ ~atEnd
    BY <1>1 DEF StreamInv, StateInv
  <1>3. SentInv' /\ WireInv'
    BY <1>1, MovesKeepWire
  <1>4. PipeTypeOK'
    <2>1. payload' \in Seq(Place) /\ Len(payload') = 0
      BY <1>1, EmptySeq
    <2>. QED BY <1>1, <2>1 DEF StreamInv, PipeTypeOK, bridge
  <1>5. NextUnit'
    BY <1>1 DEF StreamInv, NextUnit, InPayload, HeaderNext, PayloadNext, Current
  <1>6. StateInv'
    BY <1>1, <1>2 DEF StreamInv, StateInv
  <1>7. PayloadInv'
    BY <1>1 DEF PayloadInv
  <1>8. \A u \in Due : Served(u)' <=> Served(u)
    <2>. SUFFICES ASSUME NEW u \in Due PROVE Served(u)
      BY <1>1 DEF Served
    <2>1. CASE payload = <<>>
      BY <1>1, <2>1 DEF Served
    <2>2. CASE payload # <<>>
      <3>1. Len(payload) = Current.size /\ Len(payload) \in Nat /\ payloadOffset \in Nat
            /\ Current.size \in Nat
        BY <1>2, <2>2, Numbers DEF StreamInv, PayloadInv, PipeTypeOK
      <3>2. u[1] <= parsed \/ u[2] <= payloadOffset
        BY <1>1, <1>2, <3>1, DueUnits, Numbers
      <3>. QED BY <1>1, <3>2 DEF Served
    <2>. QED BY <2>1, <2>2
  <1>9. ServedInv'
    BY <1>1, <1>8, ServedStays
  <1>. QED BY <1>3, <1>4, <1>5, <1>6, <1>7, <1>9 DEF StreamInv

(* A header is parsed: its video, if it arrived whole, is due, and all     *)
(* that was due before was given.                                          *)
LEMMA ParsedKeepsServed ==
  ASSUME StreamInv, pc = "header", ~ioError, helloRead, UNCHANGED <<sent, delivered>>,
         parsed + 2 \in 1 .. Len(sent), sent[parsed + 2].wellFormed,
         parsed' = parsed + 1, payload' = <<>>,
         \/ pc' = "payload"
         \/ sent[parsed + 2].type # "VideoPayload"
         \/ sent[parsed + 2].size = 0
  PROVE  ServedInv'
  <1>1. parsed \in Nat /\ payload = <<>> /\ Given' = Given
    BY Numbers DEF StreamInv, PayloadInv, Given
  <1>2. Given = Due
    <2>1. \A u : Served(u)
      BY <1>1 DEF Served
    <2>. QED BY <2>1 DEF StreamInv, ServedInv
  <1>3. Due' = {u \in (2 .. parsed + 2) \X (1 .. MaxPayload) :
                  /\ sent[u[1]].type = "VideoPayload" /\ Whole(sent[u[1]])
                  /\ u[2] <= sent[u[1]].size
                  /\ \A j \in 1 .. u[1] : sent[j].wellFormed}
    <2>1. parsed' + 1 = parsed + 2
      BY <1>1
    <2>. QED BY <2>1 DEF Due, Whole, Units
  <1>4. ASSUME NEW u
        PROVE  u \in Due <=> u \in Due' /\ u[1] <= parsed + 1
    <2>1. u \in (2 .. parsed + 1) \X (1 .. MaxPayload)
          <=> u \in (2 .. parsed + 2) \X (1 .. MaxPayload) /\ u[1] <= parsed + 1
      BY <1>1
    <2>. QED BY <1>3, <2>1 DEF Due
  <1>5. ASSUME NEW u \in Due'
        PROVE  /\ u[1] \in Nat /\ u[2] \in Nat /\ 1 <= u[2]
               /\ u[1] <= parsed + 1 \/ u[1] = parsed + 2
               /\ u[1] = parsed + 2 => u[2] <= sent[parsed + 2].size
                                       /\ sent[parsed + 2].type = "VideoPayload"
    BY <1>1, <1>3, SizeAssumption
  <1>6. \A u \in Due' : Served(u)' <=> u[1] <= parsed + 1
    <2>. SUFFICES ASSUME NEW u \in Due' PROVE Served(u)' <=> u[1] <= parsed + 1
      OBVIOUS
    <2>1. Served(u)' <=> u[1] <= parsed + 1 \/ pc' # "payload"
      BY DEF Served
    <2>2. CASE pc' = "payload"
      BY <2>1, <2>2
    <2>3. CASE sent[parsed + 2].type # "VideoPayload" \/ sent[parsed + 2].size = 0
      <3>1. u[1] <= parsed + 1
        BY <1>1, <1>5, <2>3
      <3>. QED BY <2>1, <3>1
    <2>. QED BY <2>2, <2>3
  <1>7. Given' = {u \in Due' : Served(u)'}
    BY <1>1, <1>2, <1>4, <1>6
  <1>8. \A u \in Due', v \in Given' : Earlier(u, v) => u \in Given'
    <2>. SUFFICES ASSUME NEW u \in Due', NEW v \in Given', Earlier(u, v)
                  PROVE  u[1] <= parsed + 1
      BY <1>1, <1>2, <1>4
    <2>1. v \in Due' /\ v[1] <= parsed + 1
      BY <1>1, <1>2, <1>4
    <2>. QED BY <1>1, <1>5, <2>1 DEF Earlier
  <1>9. Ordered(delivered)'
    BY DEF StreamInv, ServedInv, Ordered
  <1>. QED BY <1>1, <1>2, <1>4, <1>7, <1>8, <1>9 DEF ServedInv

(* A header is read. *)
LEMMA HeaderKeepsStream ==
  ASSUME StreamInv, ReadHeader
  PROVE  StreamInv'
  <1>1. /\ pc = "header"
        /\ UNCHANGED <<bridge, request, connected, helloRead, payload, payloadOffset>>
        /\ UNCHANGED sent /\ delivered' = delivered
    BY DEF ReadHeader, Throw, ReturnEnd, bridge, results
  <1>2. /\ helloRead /\ ~eof /\ ~ioError /\ ~atEnd /\ payload = <<>> /\ HeaderNext(parsed + 2)
        /\ parsed \in Nat
    BY <1>1 DEF StreamInv, StateInv, PayloadInv, NextUnit, InPayload, PipeTypeOK
  <1>3. PayloadInv'
    BY <1>1, <1>2 DEF StreamInv, PayloadInv
  <1>w. /\ SentInv' /\ WireInv' /\ wire' \in Seq(Place)
    <2>1. CanReadExact(1) => 1 \in 0 .. Len(wire)
      BY Numbers DEF CanReadExact
    <2>2. (CanReadExact(1) /\ ReadExact(1)) \/ wire' = <<>>
      BY DEF ReadHeader, PipeEnds
    <2>. QED BY <1>1, <2>1, <2>2, MovesKeepWire
  <1>4. CASE /\ CanReadExact(1) /\ ReadExact(1) /\ Incoming.wellFormed
             /\ parsed' = parsed + 1 /\ pc' = AfterHeader(Incoming)
             /\ UNCHANGED results /\ eof' = eof
    <2>0. PICK i \in Nat \ {0} : i = parsed + 2
      BY <1>2
    <2>h. /\ i \in 1 .. Len(sent) /\ Incoming = sent[i]
          /\ sent[i].size = 0 => HeaderNext(i + 1)'
          /\ sent[i].size > 0 =>
               /\ wire' # <<>> => wire'[1] = <<i, 1>>
               /\ wire' = <<>> => Len(sent) = i /\ sent[i].written = 1
      <3>1. HeaderNext(i)
        BY <1>2, <2>0
      <3>. QED BY <1>1, <1>4, <3>1, HeaderRead
    <2>1. /\ parsed + 2 \in 1 .. Len(sent) /\ Incoming = sent[parsed + 2]
          /\ sent[parsed + 2].size > 0 =>
               /\ wire' # <<>> => wire'[1] = <<parsed + 2, 1>>
               /\ wire' = <<>> => Len(sent) = parsed + 2 /\ sent[parsed + 2].written = 1
      BY <2>0, <2>h
    <2>2. Current' = sent[parsed + 2] /\ sent[parsed + 2].size \in Nat
      <3>1. parsed' + 1 = parsed + 2
        BY <1>2, <1>4
      <3>. QED BY <1>1, <2>1, <3>1, Numbers DEF Current
    <2>3. /\ pc' \in {"header", "payload", "discard"}
          /\ pc' = "payload" => Current'.type = "VideoPayload" /\ Current'.size > 0
          /\ pc' = "discard" => Current'.type # "VideoPayload"
          /\ pc' = "header" => Current'.size = 0
      BY <1>4, <2>1, <2>2 DEF AfterHeader
    <2>4. PipeTypeOK'
      BY <1>1, <1>2, <1>4, <1>w, <2>3 DEF StreamInv, PipeTypeOK, bridge, results
    <2>5. NextUnit'
      <3>1. InPayload' => PayloadNext'
        <4>1. parsed' + 1 = parsed + 2
          BY <1>2, <1>4
        <4>. QED BY <1>1, <2>1, <2>2, <4>1 DEF InPayload, PayloadNext
      <3>2. ~InPayload' => HeaderNext(parsed + 2)'
        <4>1. parsed' + 2 = i + 1
          BY <1>2, <1>4, <2>0
        <4>2. ~InPayload' => sent[i].size = 0
          BY <2>0, <2>2, <2>3 DEF InPayload
        <4>. QED BY <2>h, <4>1, <4>2 DEF HeaderNext
      <3>. QED BY <1>1, <1>2, <3>1, <3>2 DEF NextUnit
    <2>6. StateInv'
      <3>1. \A j \in 1 .. parsed' + 1 : sent'[j].wellFormed
        <4>1. \A j \in 1 .. parsed' + 1 : j \in 1 .. parsed + 1 \/ j = parsed + 2
          BY <1>2, <1>4
        <4>2. \A j \in 1 .. parsed + 1 : sent[j].wellFormed
          BY <1>2 DEF StreamInv, StateInv
        <4>. QED BY <1>1, <1>4, <2>1, <4>1, <4>2
      <3>2. parsed' + 1 <= Len(sent') /\ parsed' > 0
        BY <1>1, <1>2, <1>4, <2>1, Numbers
      <3>3. connected
        BY <1>2 DEF StreamInv, StateInv
      <3>4. helloRead' /\ ~eof' /\ ~ioError' /\ ~atEnd' /\ connected'
        BY <1>1, <1>2, <1>4, <3>3 DEF results
      <3>. QED BY <2>3, <3>1, <3>2, <3>4 DEF StateInv
    <2>7. ServedInv'
      <3>1. \/ pc' = "payload" \/ sent[parsed + 2].type # "VideoPayload"
            \/ sent[parsed + 2].size = 0
        BY <2>2, <2>3
      <3>. QED BY <1>1, <1>2, <1>4, <2>1, <3>1, ParsedKeepsServed
    <2>. QED BY <1>3, <1>w, <2>4, <2>5, <2>6, <2>7 DEF StreamInv
  <1>5. CASE ioError' = TRUE /\ pc' = "idle" /\ parsed' = parsed /\ atEnd' = atEnd /\ eof' = eof
    <2>1. PipeTypeOK'
      BY <1>1, <1>2, <1>5, <1>w DEF StreamInv, PipeTypeOK, bridge
    <2>2. NextUnit' /\ StateInv'
      BY <1>1, <1>2, <1>5 DEF StreamInv, NextUnit, StateInv
    <2>3. ServedInv'
      BY <1>1, <1>5, ServedStays
    <2>. QED BY <1>3, <1>w, <2>1, <2>2, <2>3 DEF StreamInv
  <1>6. CASE /\ BridgeGone /\ Len(wire) < 1 /\ atEnd' = TRUE /\ pc' = "idle" /\ eof' = TRUE
             /\ ioError' = ioError /\ parsed' = parsed
    <2>1. PipeTypeOK'
      BY <1>1, <1>2, <1>6, <1>w DEF StreamInv, PipeTypeOK, bridge
    <2>2. EndsInPlace' /\ BridgeGone'
      <3>1. wire = <<>>
        BY <1>6, Numbers
      <3>2. parsed + 1 = Len(sent) \/ (parsed + 2 = Len(sent) /\ sent[Len(sent)].written = 0)
        BY <1>2, <3>1, Numbers DEF HeaderNext
      <3>. QED BY <1>1, <1>6, <3>2 DEF EndsInPlace, BridgeGone, bridge
    <2>3. NextUnit'
      BY <1>6 DEF NextUnit
    <2>4. StateInv'
      BY <1>1, <1>2, <1>6, <2>2 DEF StreamInv, StateInv
    <2>5. ServedInv'
      <3>1. \A u \in Due : Served(u)' <=> Served(u)
        BY <1>1, <1>6 DEF Served
      <3>. QED BY <1>1, <1>2, <1>6, <3>1, ServedStays
    <2>. QED BY <1>3, <1>w, <2>1, <2>3, <2>4, <2>5 DEF StreamInv
  <1>. QED BY <1>4, <1>5, <1>6 DEF ReadHeader, PipeEnds, Throw, ReturnEnd

(* A payload is read, or it was cut short and ends the stream. *)
LEMMA PayloadKeepsStream ==
  ASSUME StreamInv, ReadPayload
  PROVE  StreamInv'
  <1>1. /\ pc = "payload"
        /\ UNCHANGED <<bridge, request, connected, helloRead, payloadOffset, parsed>>
        /\ UNCHANGED sent /\ delivered' = delivered /\ ioError' = ioError
    BY DEF ReadPayload, ReturnEnd, bridge, results
  <1>2. /\ helloRead /\ ~eof /\ ~ioError /\ ~atEnd /\ payload = <<>> /\ payloadOffset = 0
        /\ Current.type = "VideoPayload" /\ Current.size > 0 /\ PayloadNext
        /\ parsed \in Nat /\ parsed + 1 \in 1 .. Len(sent) /\ Current' = Current
        /\ Current.size \in Nat
    <2>1. helloRead /\ ~eof /\ ~ioError /\ ~atEnd /\ payload = <<>>
          /\ Current.type = "VideoPayload" /\ Current.size > 0
      BY <1>1 DEF StreamInv, StateInv, PayloadInv
    <2>2. payloadOffset = 0
      <3>1. payloadOffset \in Nat /\ payloadOffset <= Len(payload) /\ Len(payload) = 0
        BY <2>1 DEF StreamInv, PayloadInv, PipeTypeOK
      <3>. QED BY <3>1
    <2>3. PayloadNext
      BY <1>1, <2>1 DEF StreamInv, NextUnit, InPayload
    <2>4. parsed \in Nat /\ parsed + 1 \in 1 .. Len(sent)
      BY <2>1, DueUnits, Numbers
    <2>. QED BY <1>1, <2>1, <2>2, <2>3, <2>4, Numbers DEF Current
  <1>3. CASE /\ CanReadExact(Current.size) /\ ReadExact(Current.size)
             /\ payload' = SubSeq(wire, 1, Current.size)
             /\ pc' = "serve" /\ eof' = eof /\ atEnd' = atEnd
    <2>1. /\ Current.size \in 1 .. Len(wire)
          /\ \A k \in 1 .. Current.size : wire[k] = <<parsed + 1, k>>
          /\ Whole(Current) /\ HeaderNext(parsed + 2)' /\ wire' \in Seq(Place)
      BY <1>1, <1>2, <1>3, BodyRead
    <2>2. SentInv' /\ WireInv'
      <3>1. Current.size \in 0 .. Len(wire)
        BY <2>1, Numbers
      <3>. QED BY <1>1, <1>3, <3>1, MovesKeepWire
    <2>3. /\ payload' \in Seq(Place) /\ Len(payload') = Current.size
          /\ \A k \in 1 .. Current.size : payload'[k] = <<parsed + 1, k>>
      <3>1. \A k \in 1 .. Current.size : wire[k] \in Place
        <4>1. wire \in Seq(Place) /\ \A k \in 1 .. Current.size : k \in 1 .. Len(wire)
          BY <1>2, <2>1, Numbers DEF StreamInv, PipeTypeOK
        <4>. QED BY <4>1
      <3>2. /\ SubSeq(wire, 1, Current.size) \in Seq(Place)
            /\ Len(SubSeq(wire, 1, Current.size)) =
                 IF 1 <= Current.size THEN Current.size - 1 + 1 ELSE 0
            /\ \A i \in 1 .. Current.size - 1 + 1 : SubSeq(wire, 1, Current.size)[i] = wire[1 + i - 1]
        BY <1>2, <3>1, SubSeqProperties
      <3>3. Current.size - 1 + 1 = Current.size /\ 1 <= Current.size
            /\ \A i \in 1 .. Current.size : 1 + i - 1 = i
        BY <1>2
      <3>. QED BY <1>3, <2>1, <3>2, <3>3
    <2>4. PipeTypeOK'
      BY <1>1, <1>3, <2>1, <2>3 DEF StreamInv, PipeTypeOK, bridge
    <2>5. NextUnit'
      <3>1. HeaderNext(parsed + 2)'
        BY <2>1
      <3>. QED BY <1>1, <1>2, <1>3, <3>1 DEF NextUnit, InPayload
    <2>6. StateInv'
      BY <1>1, <1>2, <1>3 DEF StreamInv, StateInv
    <2>7. PayloadInv'
      <3>1. Whole(Current)'
        BY <1>2, <2>1 DEF Whole, Units
      <3>2. payloadOffset' <= Len(payload')
        BY <1>1, <1>2, <2>3
      <3>. QED BY <1>1, <1>2, <1>3, <2>3, <3>1, <3>2 DEF PayloadInv
    <2>8. ServedInv'
      <3>1. payload' # <<>>
        BY <1>2, <2>3
      <3>2. \A u \in Due : Served(u)' <=> Served(u)
        BY <1>1, <1>2, <1>3, <3>1, DueUnits DEF Served
      <3>. QED BY <1>1, <1>2, <3>2, ServedStays
    <2>. QED BY <2>2, <2>4, <2>5, <2>6, <2>7, <2>8 DEF StreamInv
  <1>4. CASE /\ BridgeGone /\ Len(wire) < Current.size /\ wire' = <<>>
             /\ payload' = wire /\ eof' = TRUE /\ atEnd' = TRUE /\ pc' = "idle"
    <2>1. ~Whole(Current) /\ parsed + 1 = Len(sent)
      BY <1>2, <1>4, BodyCutShort
    <2>2. SentInv' /\ WireInv' /\ wire' \in Seq(Place)
      BY <1>1, <1>4, MovesKeepWire
    <2>3. PipeTypeOK'
      BY <1>1, <1>4, <2>2 DEF StreamInv, PipeTypeOK, bridge
    <2>4. NextUnit'
      BY <1>4 DEF NextUnit
    <2>5. StateInv'
      <3>1. EndsInPlace' /\ BridgeGone'
        BY <1>1, <1>4, <2>1 DEF EndsInPlace, BridgeGone, bridge
      <3>. QED BY <1>1, <1>2, <1>4, <3>1 DEF StreamInv, StateInv
    <2>6. PayloadInv'
      <3>1. ~Whole(Current)'
        BY <1>2, <2>1 DEF Whole, Units
      <3>2. payloadOffset' <= Len(payload')
        BY <1>1, <1>2, <1>4, Numbers
      <3>. QED BY <1>1, <1>2, <1>4, <3>1, <3>2 DEF PayloadInv
    <2>7. ServedInv'
      <3>1. \A u \in Due : Served(u)' <=> Served(u)
        <4>1. \A u \in Due : u[1] <= parsed
          BY <1>2, <2>1, DueUnits
        <4>. QED BY <1>1, <4>1 DEF Served
      <3>. QED BY <1>1, <1>2, <3>1, ServedStays
    <2>. QED BY <2>2, <2>3, <2>4, <2>5, <2>6, <2>7 DEF StreamInv
  <1>. QED BY <1>3, <1>4 DEF ReadPayload, PipeEnds, ReturnEnd, results

(* A message that is not video is passed over. *)
LEMMA DiscardKeepsStream ==
  ASSUME StreamInv, DiscardPayload
  PROVE  StreamInv'
  <1>1. /\ pc = "discard"
        /\ UNCHANGED <<bridge, request, connected, helloRead, payload, payloadOffset, parsed>>
        /\ UNCHANGED sent /\ delivered' = delivered
    BY DEF DiscardPayload, ReturnEnd, Throw, bridge, results
  <1>2. /\ helloRead /\ ~eof /\ ~ioError /\ ~atEnd /\ payload = <<>>
        /\ Current.type # "VideoPayload" /\ parsed > 0
        /\ parsed \in Nat /\ parsed + 1 \in 1 .. Len(sent) /\ Current' = Current
        /\ Current.size \in Nat
    <2>1. helloRead /\ ~eof /\ ~ioError /\ ~atEnd /\ payload = <<>>
          /\ Current.type # "VideoPayload" /\ parsed > 0
      BY <1>1 DEF StreamInv, StateInv, PayloadInv
    <2>2. parsed \in Nat /\ parsed + 1 \in 1 .. Len(sent)
      BY <2>1, DueUnits, Numbers
    <2>. QED BY <1>1, <2>1, <2>2, Numbers DEF Current
  <1>3. PayloadInv'
    BY <1>1, <1>2 DEF StreamInv, PayloadInv
  <1>w. SentInv' /\ WireInv' /\ wire' \in Seq(Place)
    <2>1. CanReadExact(Current.size) => Current.size \in 0 .. Len(wire)
      BY <1>2, Numbers DEF CanReadExact
    <2>2. (CanReadExact(Current.size) /\ ReadExact(Current.size)) \/ wire' = <<>>
      BY DEF DiscardPayload, PipeEnds
    <2>. QED BY <1>1, <2>1, <2>2, MovesKeepWire
  <1>4. CASE /\ CanReadExact(Current.size) /\ ReadExact(Current.size)
             /\ pc' = "header" /\ eof' = eof /\ atEnd' = atEnd /\ ioError' = ioError
    <2>1. HeaderNext(parsed + 2)'
      <3>1. CASE Current.size > 0
        BY <1>1, <1>2, <1>4, <3>1, BodyRead DEF StreamInv, NextUnit, InPayload
      <3>2. CASE Current.size = 0
        <4>1. HeaderNext(parsed + 2)
          BY <1>1, <1>2, <3>2 DEF StreamInv, NextUnit, InPayload
        <4>2. wire' = wire
          <5>1. wire \in Seq(Place)
            BY DEF StreamInv, PipeTypeOK
          <5>2. SubSeq(wire, 1, Len(wire)) = wire
            BY <5>1, SubSeqFull
          <5>3. Current.size + 1 = 1
            BY <3>2
          <5>. QED BY <1>4, <5>2, <5>3 DEF ReadExact
        <4>. QED BY <1>1, <4>1, <4>2 DEF HeaderNext
      <3>. QED BY <1>2, <3>1, <3>2
    <2>2. PipeTypeOK'
      BY <1>1, <1>4, <1>w DEF StreamInv, PipeTypeOK, bridge
    <2>3. NextUnit'
      BY <1>1, <1>2, <1>4, <2>1 DEF NextUnit, InPayload
    <2>4. StateInv'
      BY <1>1, <1>2, <1>4 DEF StreamInv, StateInv
    <2>5. ServedInv'
      <3>1. \A u \in Due : Served(u)' <=> Served(u)
        BY <1>1, <1>2, <1>4 DEF Served
      <3>. QED BY <1>1, <1>2, <1>4, <3>1, ServedStays
    <2>. QED BY <1>3, <1>w, <2>2, <2>3, <2>4, <2>5 DEF StreamInv
  <1>5. CASE /\ Current.type = "EndOfStream" /\ eof' = TRUE /\ atEnd' = TRUE /\ pc' = "idle"
             /\ ioError' = ioError
    <2>1. PipeTypeOK'
      BY <1>1, <1>5, <1>w DEF StreamInv, PipeTypeOK, bridge
    <2>2. NextUnit'
      BY <1>5 DEF NextUnit
    <2>3. StateInv'
      <3>1. EndsInPlace'
        BY <1>1, <1>2, <1>5 DEF EndsInPlace
      <3>. QED BY <1>1, <1>2, <1>5, <3>1 DEF StreamInv, StateInv
    <2>4. ServedInv'
      <3>1. \A u \in Due : Served(u)' <=> Served(u)
        BY <1>1, <1>2, <1>5 DEF Served
      <3>. QED BY <1>1, <1>2, <1>5, <3>1, ServedStays
    <2>. QED BY <1>3, <1>w, <2>1, <2>2, <2>3, <2>4 DEF StreamInv
  <1>6. CASE eof' = TRUE /\ ioError' = TRUE /\ pc' = "idle" /\ atEnd' = atEnd
    <2>1. PipeTypeOK'
      BY <1>1, <1>6, <1>w DEF StreamInv, PipeTypeOK, bridge
    <2>2. NextUnit' /\ StateInv'
      BY <1>1, <1>2, <1>6 DEF StreamInv, NextUnit, StateInv
    <2>3. ServedInv'
      BY <1>1, <1>6, ServedStays
    <2>. QED BY <1>3, <1>w, <2>1, <2>2, <2>3 DEF StreamInv
  <1>. QED BY <1>4, <1>5, <1>6 DEF DiscardPayload, PipeEnds, ReturnEnd, Throw, results

-------------------------------------------------------------------------------
(* A child that exits closes its end of the pipe, and only that. *)
LEMMA ExitKeepsStream ==
  ASSUME StreamInv, ChildExits
  PROVE  StreamInv'
  <1>1. /\ UNCHANGED <<sent, wire, pc, request, parsed, delivered, atEnd, ioError>>
        /\ UNCHANGED <<connected, helloRead, eof, payload, payloadOffset>>
        /\ bridgeEnd' = IF bridgeEnd = "open" THEN "closed" ELSE bridgeEnd
    BY DEF ChildExits, members, results
  <1>2. PipeTypeOK' /\ SentInv' /\ WireInv'
    BY <1>1 DEF StreamInv, PipeTypeOK, SentInv, WireInv, Rest
  <1>3. NextUnit'
    BY <1>1 DEF StreamInv, NextUnit, InPayload, HeaderNext, PayloadNext, Current
  <1>4. StateInv'
    <2>1. (EndsInPlace' <=> EndsInPlace) /\ (BridgeGone => BridgeGone')
      BY <1>1 DEF EndsInPlace, Current, BridgeGone
    <2>. QED BY <1>1, <2>1 DEF StreamInv, StateInv, Current
  <1>5. PayloadInv'
    <2>1. Whole(Current)' <=> Whole(Current)
      BY <1>1 DEF Whole, Current, Units
    <2>. QED BY <1>1, <2>1 DEF StreamInv, PayloadInv, Current
  <1>6. ServedInv'
    <2>1. \A u \in Due : Served(u)' <=> Served(u)
      BY <1>1 DEF Served
    <2>. QED BY <1>1, <2>1, ServedStays
  <1>. QED BY <1>2, <1>3, <1>4, <1>5, <1>6 DEF StreamInv

LEMMA StreamUnchanged ==
  ASSUME StreamInv, UNCHANGED vars
  PROVE  StreamInv'
  <1>1. /\ UNCHANGED <<sent, bridgeEnd, wire, pc, request, parsed, delivered, atEnd, ioError>>
        /\ UNCHANGED <<connected, helloRead, eof, payload, payloadOffset>>
    BY DEF vars, bridge, members, results
  <1>2. PipeTypeOK' /\ SentInv' /\ WireInv'
    BY <1>1 DEF StreamInv, PipeTypeOK, SentInv, WireInv, Rest
  <1>3. NextUnit'
    BY <1>1 DEF StreamInv, NextUnit, InPayload, HeaderNext, PayloadNext, Current
  <1>4. StateInv'
    <2>1. (EndsInPlace' <=> EndsInPlace) /\ (BridgeGone' <=> BridgeGone)
      BY <1>1 DEF EndsInPlace, Current, BridgeGone
    <2>. QED BY <1>1, <2>1 DEF StreamInv, StateInv, Current
  <1>5. PayloadInv'
    <2>1. Whole(Current)' <=> Whole(Current)
      BY <1>1 DEF Whole, Current, Units
    <2>. QED BY <1>1, <2>1 DEF StreamInv, PayloadInv, Current
  <1>6. ServedInv'
    <2>1. \A u \in Due : Served(u)' <=> Served(u)
      BY <1>1 DEF Served
    <2>. QED BY <1>1, <2>1, ServedStays
  <1>. QED BY <1>2, <1>3, <1>4, <1>5, <1>6 DEF StreamInv

(* A source that is destroyed is as if it had never been. *)
LEMMA DestroyedIsInit ==
  SourceDestroyed => StreamInv'
  <1>1. SourceDestroyed => Init'
    BY DEF SourceDestroyed, Init
  <1>2. Init' => StreamInv'
    BY StreamInvInit, PTL
  <1>. QED BY <1>1, <1>2

LEMMA StreamInvStep ==
  StreamInv /\ [SessionNext]_sessionVars => StreamInv'
  <1>. SUFFICES ASSUME StreamInv, [SessionNext]_sessionVars PROVE StreamInv'
    OBVIOUS
  <1>1. CASE BridgeStep \/ SourceStep \/ SocketFails \/ FFmpegReads
    BY <1>1, BridgeKeepsStream, CallsKeepStream, HelloKeepsStream, ServeKeepsStream,
       NextPayloadKeepsStream, HeaderKeepsStream, PayloadKeepsStream, DiscardKeepsStream
       DEF SourceStep
  <1>2. CASE ChildExits \/ SourceDestroyed \/ UNCHANGED vars
    BY <1>2, ExitKeepsStream, DestroyedIsInit, StreamUnchanged
  <1>3. Opening \/ Leave => UNCHANGED vars
    BY DEF Opening, Leave, LaunchSysDvrBridge, InspectPath, CreateSocket, Bind, Listen
  <1>4. Leaving => UNCHANGED vars \/ SourceDestroyed
    BY DEF Leaving, CloseSockets, Stop, Terminate, Poll, Kill, WaitForChild
  <1>5. Ended \/ NobodyConnects \/ UNCHANGED sessionVars => UNCHANGED vars
    BY DEF Ended, NobodyConnects, sessionVars
  <1>6. Bridge \/ Source \/ Socket \/ FFmpeg
          => BridgeStep \/ SourceStep \/ SocketFails \/ FFmpegReads
    BY DEF Bridge, Source, Socket, FFmpeg
  <1>. QED BY <1>1, <1>2, <1>3, <1>4, <1>5, <1>6 DEF SessionNext

(* The wire has no gap, the source is where it thinks it is, and what it   *)
(* has given is what it has served of the messages it has parsed.          *)
THEOREM StreamInvariant == SessionSpec => []StreamInv
  <1>1. SessionInit => StreamInv
    BY StreamInvInit DEF SessionInit
  <1>. QED BY <1>1, StreamInvStep, PTL DEF SessionSpec

(* FFmpeg is given the video payloads that arrived whole, in order and     *)
(* without a byte of anything else, and is told that the stream has ended  *)
(* only when none of them is missing.                                      *)
THEOREM StreamIsExact == SessionSpec => []DeliveredExactly
  <1>1. StreamInv => DeliveredExactly
    <2>. SUFFICES ASSUME StreamInv PROVE DeliveredExactly
      OBVIOUS
    <2>1. pc = "header" => Given = Due
      <3>1. pc = "header" => ~ioError /\ \A u : Served(u)
        BY DEF StreamInv, StateInv, PayloadInv, Served
      <3>. QED BY <3>1 DEF StreamInv, ServedInv
    <2>2. atEnd => Given = Due
      <3>. SUFFICES ASSUME atEnd PROVE \A u \in Due : Served(u)
        BY DEF StreamInv, StateInv, ServedInv
      <3>1. eof /\ ~ioError /\ pc = "idle" /\ helloRead
        BY DEF StreamInv, StateInv
      <3>2. CASE payload = <<>>
        BY <3>1, <3>2 DEF Served
      <3>3. CASE payload # <<>>
        <4>1. ~Whole(Current)
          BY <3>1, <3>3 DEF StreamInv, PayloadInv
        <4>2. \A u \in Due : u[1] <= parsed
          BY <3>1, <4>1, DueUnits, Numbers
        <4>. QED BY <4>2 DEF Served
      <3>. QED BY <3>2, <3>3
    <2>. QED BY <2>1, <2>2 DEF StreamInv, StateInv, ServedInv, Ordered, DeliveredExactly
  <1>. QED BY <1>1, StreamInvariant, PTL
===============================================================================
