------------------------------ MODULE FrameQueue ------------------------------
(***************************************************************************)
(* The bounded ownership queue between the decoder thread and the render   *)
(* thread (decode/FrameQueue.cpp, decode/FrameQueue.h), together with the  *)
(* payload of the pool's slots (decode/FramePool.h, decode/DecodedFrame.h).*)
(*                                                                         *)
(* One mutex protects every member, so each operation is one step.  Three  *)
(* things are not: sleeping on a condition variable, waking from it, and a *)
(* notification the code issues after it has released the mutex.  Those    *)
(* are steps of their own, so that every interleaving of the two threads   *)
(* between a state change and the wake-up it owes is explored.             *)
(*                                                                         *)
(* The queue is used by one producer and one consumer, each of which holds *)
(* at most one slot and gives back only the slot it holds.                 *)
(***************************************************************************)
EXTENDS Integers, FiniteSets

CONSTANTS
  N,          \* pool.size(): the number of slots
  MaxFrames   \* bound: how many frames the producer decodes

(* The constructor throws for an empty pool. *)
ASSUME PoolAssumption == N \in Nat \ {0}
ASSUME BoundAssumption == MaxFrames \in Nat

Slots     == 0 .. N - 1
SlotState == {"Free", "Writing", "Ready", "Reading"}
Producer  == "producer"
Consumer  == "consumer"
Threads   == {Producer, Consumer}
CondVars  == {"readable", "writable"}
Calls     == {"none", "acquireWrite", "acquireWriteLatest", "acquireRead"}
Frames    == 1 .. MaxFrames
NoFrame   == 0            \* a slot whose payload was reset holds no lease

VARIABLES
  states,      \* states_
  readyRing,   \* readyRing_
  readPos,     \* readPos_
  writePos,    \* writePos_
  readyCount,  \* readyCount_
  highWater,   \* highWater_
  staleDrops,  \* staleDrops_
  stopped,     \* stopped_
  content,     \* the frame (its lease) each pool slot holds
  call,        \* the waiting call each thread is inside of
  asleep,      \* the threads blocked on their condition variable
  owed,        \* notifications a thread issues after releasing the mutex
  corrupted,   \* some pop met a slot that was not Ready: the code throws
  decoded,     \* history: number of the last frame the producer decoded
  committed,   \* history: how many frames were committed
  delivered,   \* history: how many frames the consumer was given
  abandoned,   \* history: how many ready frames stop() threw away
  lastRead     \* history: the last frame the consumer was given

ring    == <<readyRing, readPos, writePos, readyCount, highWater>>
threads == <<call, asleep, owed>>
history == <<decoded, committed, delivered, abandoned, lastRead>>
vars    == <<states, ring, staleDrops, stopped, content, threads, corrupted,
             history>>

-------------------------------------------------------------------------------
InState(state) == {s \in Slots : states[s] = state}

(* Slip: an index that does not wrap. *)
NextPosUnwrapped(p) == p + 1

NextPos(p) == (p + 1) % N

(* The slot i places behind the oldest ready one, and the ready slots. *)
ReadyAt(i) == readyRing[(readPos + i) % N]
Window     == {ReadyAt(i) : i \in 0 .. readyCount - 1}

(* A thread that runs has no wake-up left to issue.  It may be inside a    *)
(* waiting call only if it is about to test that call's predicate again.   *)
Runs(t)        == t \notin asleep /\ owed[t] = {}
Enters(t, op)  == Runs(t) /\ call[t] \in {"none", op}
Idle(t)        == Runs(t) /\ call[t] = "none"

Sleeper(cv)    == IF cv = "readable" THEN Consumer ELSE Producer

Returns(t)     == /\ call' = [call EXCEPT ![t] = "none"]
                  /\ UNCHANGED <<asleep, owed>>
Sleeps(t, op)  == /\ call' = [call EXCEPT ![t] = op]
                  /\ asleep' = asleep \union {t}
                  /\ UNCHANGED owed

(* Slip: only the consumer is ever notified. *)
OwesOnlyReadable(t, cvs) == /\ owed' = [owed EXCEPT ![t] = cvs \ {"writable"}]
                            /\ UNCHANGED <<call, asleep>>

Owes(t, cvs)   == /\ owed' = [owed EXCEPT ![t] = cvs]
                  /\ UNCHANGED <<call, asleep>>

Init ==
  /\ states = [s \in Slots |-> "Free"]
  /\ readyRing = [s \in Slots |-> 0]
  /\ readPos = 0 /\ writePos = 0 /\ readyCount = 0 /\ highWater = 0
  /\ staleDrops = 0
  /\ stopped = FALSE
  /\ content = [s \in Slots |-> NoFrame]
  /\ call = [t \in Threads |-> "none"]
  /\ asleep = {}
  /\ owed = [t \in Threads |-> {}]
  /\ corrupted = FALSE
  /\ decoded = 0 /\ committed = 0 /\ delivered = 0 /\ abandoned = 0
  /\ lastRead = 0

-------------------------------------------------------------------------------
(* The producer. *)

(* The predicates of writable_.wait in the two acquiring calls. *)
WritePredicate(op) ==
  \/ stopped
  \/ InState("Free") # {}
  \/ op = "acquireWriteLatest" /\ readyCount # 0

WaitForSlot(op) ==
  /\ Enters(Producer, op)
  /\ InState("Writing") = {}
  /\ ~WritePredicate(op)
  /\ Sleeps(Producer, op)
  /\ UNCHANGED <<states, ring, staleDrops, stopped, content, corrupted, history>>

WriteRefused(op) ==
  /\ Enters(Producer, op)
  /\ InState("Writing") = {}
  /\ stopped
  /\ Returns(Producer)
  /\ UNCHANGED <<states, ring, staleDrops, stopped, content, corrupted, history>>

(* Slip: a slot is handed out although the queue was stopped. *)
TakeFreeSlotAfterStop(op) ==
  /\ Enters(Producer, op)
  /\ InState("Writing") = {}
  /\ \E slot \in InState("Free") : states' = [states EXCEPT ![slot] = "Writing"]
  /\ Returns(Producer)
  /\ UNCHANGED <<ring, staleDrops, stopped, content, corrupted, history>>

(* std::find returns the free slot of the lowest index. *)
TakeFreeSlot(op) ==
  /\ Enters(Producer, op)
  /\ InState("Writing") = {}
  /\ ~stopped
  /\ \E slot \in InState("Free") :
       /\ \A other \in InState("Free") : slot <= other
       /\ states' = [states EXCEPT ![slot] = "Writing"]
  /\ Returns(Producer)
  /\ UNCHANGED <<ring, staleDrops, stopped, content, corrupted, history>>

(* The latest policy takes over the oldest ready slot when none is free. *)
TakeOldestReady ==
  /\ Enters(Producer, "acquireWriteLatest")
  /\ InState("Writing") = {}
  /\ ~stopped
  /\ InState("Free") = {}
  /\ readyCount # 0
  /\ LET slot == readyRing[readPos] IN
       /\ corrupted' = (corrupted \/ states[slot] # "Ready")
       /\ content' = [content EXCEPT ![slot] = NoFrame]
       /\ states' = [states EXCEPT ![slot] = "Writing"]
  /\ readPos' = NextPos(readPos)
  /\ readyCount' = readyCount - 1
  /\ staleDrops' = staleDrops + 1
  /\ Returns(Producer)
  /\ UNCHANGED <<readyRing, writePos, highWater, stopped, history>>

AcquireWrite ==
  \/ WaitForSlot("acquireWrite")
  \/ WriteRefused("acquireWrite")
  \/ TakeFreeSlot("acquireWrite")

AcquireWriteLatest ==
  \/ WaitForSlot("acquireWriteLatest")
  \/ WriteRefused("acquireWriteLatest")
  \/ TakeFreeSlot("acquireWriteLatest")
  \/ TakeOldestReady

(* readFrame fills the slot the producer owns, without holding the mutex. *)
DecodeInto(slot) ==
  /\ Idle(Producer)
  /\ states[slot] = "Writing"
  /\ content[slot] = NoFrame
  /\ decoded < MaxFrames
  /\ decoded' = decoded + 1
  /\ content' = [content EXCEPT ![slot] = decoded + 1]
  /\ UNCHANGED <<states, ring, staleDrops, stopped, threads, corrupted,
                 committed, delivered, abandoned, lastRead>>

CommitWrite(slot) ==
  /\ Idle(Producer)
  /\ states[slot] = "Writing"
  /\ content[slot] # NoFrame
  /\ readyRing' = [readyRing EXCEPT ![writePos] = slot]
  /\ writePos' = NextPos(writePos)
  /\ states' = [states EXCEPT ![slot] = "Ready"]
  /\ readyCount' = readyCount + 1
  /\ highWater' = IF highWater > readyCount + 1 THEN highWater ELSE readyCount + 1
  /\ committed' = committed + 1
  /\ Owes(Producer, {"readable"})
  /\ UNCHANGED <<readPos, staleDrops, stopped, content, corrupted, decoded,
                 delivered, abandoned, lastRead>>

(* Slip: the slot is freed with its payload. *)
CancelKeepsPayload(slot) ==
  /\ Idle(Producer)
  /\ states[slot] = "Writing"
  /\ states' = [states EXCEPT ![slot] = "Free"]
  /\ Owes(Producer, {"writable"})
  /\ UNCHANGED <<ring, staleDrops, stopped, content, corrupted, history>>

CancelWrite(slot) ==
  /\ Idle(Producer)
  /\ states[slot] = "Writing"
  /\ content' = [content EXCEPT ![slot] = NoFrame]
  /\ states' = [states EXCEPT ![slot] = "Free"]
  /\ Owes(Producer, {"writable"})
  /\ UNCHANGED <<ring, staleDrops, stopped, corrupted, history>>

-------------------------------------------------------------------------------
(* The consumer. *)

WaitForFrame ==
  /\ Enters(Consumer, "acquireRead")
  /\ InState("Reading") = {}
  /\ ~stopped /\ readyCount = 0
  /\ Sleeps(Consumer, "acquireRead")
  /\ UNCHANGED <<states, ring, staleDrops, stopped, content, corrupted, history>>

ReadRefused ==
  /\ Enters(Consumer, "acquireRead")
  /\ InState("Reading") = {}
  /\ stopped /\ readyCount = 0
  /\ Returns(Consumer)
  /\ UNCHANGED <<states, ring, staleDrops, stopped, content, corrupted, history>>

(* Slip: the newest ready slot is read, the oldest one is popped. *)
TakeNewestPopOldest ==
  /\ Enters(Consumer, "acquireRead")
  /\ InState("Reading") = {}
  /\ readyCount # 0
  /\ LET slot == ReadyAt(readyCount - 1) IN
       /\ states' = [states EXCEPT ![slot] = "Reading"]
       /\ lastRead' = content[slot]
  /\ readPos' = NextPos(readPos)
  /\ readyCount' = readyCount - 1
  /\ delivered' = delivered + 1
  /\ Returns(Consumer)
  /\ UNCHANGED <<readyRing, writePos, highWater, staleDrops, stopped, content,
                 corrupted, decoded, committed, abandoned>>

TakeOldestFrame ==
  /\ Enters(Consumer, "acquireRead")
  /\ InState("Reading") = {}
  /\ readyCount # 0
  /\ LET slot == readyRing[readPos] IN
       /\ corrupted' = (corrupted \/ states[slot] # "Ready")
       /\ states' = [states EXCEPT ![slot] = "Reading"]
       /\ lastRead' = content[slot]
  /\ readPos' = NextPos(readPos)
  /\ readyCount' = readyCount - 1
  /\ delivered' = delivered + 1
  /\ Returns(Consumer)
  /\ UNCHANGED <<readyRing, writePos, highWater, staleDrops, stopped, content,
                 decoded, committed, abandoned>>

(* acquireRead only forwards to acquireReadPreserveOrder. *)
AcquireReadPreserveOrder == WaitForFrame \/ ReadRefused \/ TakeOldestFrame

(* Pops every ready slot; all but the last one popped become free again.   *)
(* The notification is issued before the mutex is released.                *)
TryAcquireNewest ==
  /\ Idle(Consumer)
  /\ InState("Reading") = {}
  /\ readyCount # 0
  /\ LET newest == ReadyAt(readyCount - 1)
         older  == Window \ {newest} IN
       /\ corrupted' = (corrupted \/ \E s \in Window : states[s] # "Ready")
       /\ content' = [s \in Slots |-> IF s \in older THEN NoFrame ELSE content[s]]
       /\ states' = [s \in Slots |-> IF s = newest THEN "Reading"
                                     ELSE IF s \in older THEN "Free" ELSE states[s]]
       /\ lastRead' = content[newest]
  /\ readPos' = (readPos + readyCount) % N
  /\ readyCount' = 0
  /\ staleDrops' = staleDrops + (readyCount - 1)
  /\ delivered' = delivered + 1
  /\ asleep' = asleep \ {Sleeper("writable")}
  /\ UNCHANGED <<readyRing, writePos, highWater, stopped, call, owed, decoded,
                 committed, abandoned>>

ReleaseRead(slot) ==
  /\ Idle(Consumer)
  /\ states[slot] = "Reading"
  /\ content' = [content EXCEPT ![slot] = NoFrame]
  /\ states' = [states EXCEPT ![slot] = "Free"]
  /\ Owes(Consumer, {"writable"})
  /\ UNCHANGED <<ring, staleDrops, stopped, corrupted, history>>

(* discardReady and stop drain the ring and free what they find Ready. *)
Drained == {s \in Window : states[s] = "Ready"}

(* Slip: the slots are freed but stay in the ring. *)
DrainForgetsRing ==
  /\ content' = [s \in Slots |-> IF s \in Drained THEN NoFrame ELSE content[s]]
  /\ states' = [s \in Slots |-> IF s \in Drained THEN "Free" ELSE states[s]]
  /\ UNCHANGED ring

DrainReady ==
  /\ content' = [s \in Slots |-> IF s \in Drained THEN NoFrame ELSE content[s]]
  /\ states' = [s \in Slots |-> IF s \in Drained THEN "Free" ELSE states[s]]
  /\ readPos' = (readPos + readyCount) % N
  /\ readyCount' = 0
  /\ UNCHANGED <<readyRing, writePos, highWater>>

(* Slip: discarded frames are not counted. *)
DiscardUncounted ==
  /\ Idle(Consumer)
  /\ DrainReady
  /\ Owes(Consumer, {"writable"})
  /\ UNCHANGED <<staleDrops, stopped, corrupted, history>>

DiscardReady ==
  /\ Idle(Consumer)
  /\ DrainReady
  /\ staleDrops' = staleDrops + Cardinality(Drained)
  /\ Owes(Consumer, {"writable"})
  /\ UNCHANGED <<stopped, corrupted, history>>

-------------------------------------------------------------------------------
(* Either thread stops the queue: the decoder at the end of its input or   *)
(* on an error, the render thread when it shuts down.                      *)
Stop(t) ==
  /\ Idle(t)
  /\ stopped' = TRUE
  /\ DrainReady
  /\ abandoned' = abandoned + Cardinality(Drained)
  /\ Owes(t, {"readable", "writable"})
  /\ UNCHANGED <<staleDrops, corrupted, decoded, committed, delivered, lastRead>>

(* notify_one and notify_all coincide: one thread waits on each variable. *)
Notify(t, cv) ==
  /\ cv \in owed[t]
  /\ owed' = [owed EXCEPT ![t] = @ \ {cv}]
  /\ asleep' = asleep \ {Sleeper(cv)}
  /\ UNCHANGED <<states, ring, staleDrops, stopped, content, call, corrupted,
                 history>>

(* condition_variable::wait may return without a notification. *)
SpuriousWakeup(t) ==
  /\ t \in asleep
  /\ asleep' = asleep \ {t}
  /\ UNCHANGED <<states, ring, staleDrops, stopped, content, call, owed,
                 corrupted, history>>

ProducerStep ==
  \/ AcquireWrite
  \/ AcquireWriteLatest
  \/ \E slot \in Slots : DecodeInto(slot) \/ CommitWrite(slot) \/ CancelWrite(slot)
  \/ Stop(Producer)

ConsumerStep ==
  \/ AcquireReadPreserveOrder
  \/ TryAcquireNewest
  \/ \E slot \in Slots : ReleaseRead(slot)
  \/ DiscardReady
  \/ Stop(Consumer)

Next ==
  \/ ProducerStep
  \/ ConsumerStep
  \/ \E t \in Threads, cv \in CondVars : Notify(t, cv)
  \/ \E t \in Threads : SpuriousWakeup(t)

Spec == Init /\ [][Next]_vars

(* A thread the operating system schedules issues the notifications it     *)
(* owes and, once awake inside a waiting call, tests the predicate again.  *)
(* Nothing is assumed of what either thread calls next.                    *)
Fairness ==
  /\ \A t \in Threads, cv \in CondVars : WF_vars(Notify(t, cv))
  /\ WF_vars(call[Producer] = "acquireWrite" /\ AcquireWrite)
  /\ WF_vars(call[Producer] = "acquireWriteLatest" /\ AcquireWriteLatest)
  /\ WF_vars(call[Consumer] = "acquireRead" /\ AcquireReadPreserveOrder)

FairSpec == Spec /\ Fairness

-------------------------------------------------------------------------------
(* Every member has its type; indices stay inside the ring. *)
TypeOK ==
  /\ states \in [Slots -> SlotState]
  /\ readyRing \in [Slots -> Slots]
  /\ readPos \in Slots /\ writePos \in Slots
  /\ readyCount \in 0 .. N
  /\ highWater \in readyCount .. N
  /\ staleDrops \in Nat
  /\ stopped \in BOOLEAN
  /\ content \in [Slots -> Frames \union {NoFrame}]
  /\ call \in [Threads -> Calls]
  /\ call[Producer] # "acquireRead"
  /\ call[Consumer] \in {"none", "acquireRead"}
  /\ asleep \subseteq Threads
  /\ owed \in [Threads -> SUBSET CondVars]
  /\ corrupted \in BOOLEAN
  /\ decoded \in 0 .. MaxFrames /\ committed \in Nat /\ delivered \in Nat
  /\ abandoned \in Nat /\ lastRead \in 0 .. MaxFrames

(* The three "FrameQueue state corruption" exceptions are unreachable:     *)
(* whatever the two threads do, a pop only ever meets a Ready slot.        *)
NoCorruption == ~corrupted

(* The ring and the slot states are two records of the same fact.  They    *)
(* agree: the ring's window lists each Ready slot once and nothing else.   *)
RingMatchesStates ==
  /\ writePos = (readPos + readyCount) % N
  /\ Window = InState("Ready")
  /\ \A i, j \in 0 .. readyCount - 1 : i # j => ReadyAt(i) # ReadyAt(j)

(* A decoder surface is never kept alive by a slot nobody uses, and a      *)
(* frame on its way to the consumer always has its payload.                *)
PayloadFollowsOwnership ==
  \A s \in Slots :
    /\ states[s] = "Free" => content[s] = NoFrame
    /\ states[s] \in {"Ready", "Reading"} => content[s] # NoFrame

(* No frame disappears uncounted: what was committed was given to the      *)
(* consumer, counted stale, thrown away by stop() or is still ready.       *)
FramesAccountedFor ==
  committed = delivered + staleDrops + abandoned + readyCount

(* A thread sleeps through nothing: if its predicate holds, the other      *)
(* thread still owes the notification that will wake it.                   *)
NoLostWakeup ==
  /\ Producer \in asleep /\ WritePredicate(call[Producer])
       => "writable" \in owed[Consumer]
  /\ Consumer \in asleep /\ (stopped \/ readyCount # 0)
       => "readable" \in owed[Producer]

(* A sleeping thread holds no slot and owes no notification. *)
SleepersHoldNothing ==
  /\ Producer \in asleep => InState("Writing") = {} /\ owed[Producer] = {}
  /\ Consumer \in asleep => InState("Reading") = {} /\ owed[Consumer] = {}

(* The two threads never wait for each other: one of them is awake, or     *)
(* about to be woken.                                                      *)
NeverBothAsleep == asleep # Threads

(* The consumer sees frames in the order they were decoded, none twice.    *)
ReadsInOrder ==
  [][\A s \in Slots : states[s] # "Reading" /\ states'[s] = "Reading"
                        => content[s] > lastRead]_vars

(* A thread asleep although what it waits for is there, or the queue was   *)
(* stopped, gets out of its call.  With a single slot acquireWriteLatest   *)
(* could take the frame back from under the consumer each time.            *)
ServedSleepersReturn ==
  /\ Producer \in asleep /\ (stopped \/ InState("Free") # {}) ~> call[Producer] = "none"
  /\ Consumer \in asleep /\ (stopped \/ readyCount # 0) ~> call[Consumer] = "none"

-------------------------------------------------------------------------------
(* The queue implements the channel of FrameChannel: the window of the     *)
(* ring is the sequence of waiting frames.                                 *)
Nothing == -1
HeldIn(state) == CHOOSE s \in Slots : states[s] = state
FrameHeld(state) == IF InState(state) = {} THEN Nothing ELSE content[HeldIn(state)]

Channel == INSTANCE FrameChannel WITH
  Capacity <- N, Frames <- Frames, NoSlot <- Nothing, EmptySlot <- NoFrame,
  waiting <- [i \in 1 .. readyCount |-> content[ReadyAt(i - 1)]],
  writer <- FrameHeld("Writing"),
  reader <- FrameHeld("Reading"),
  closed <- stopped

(* Slots, ring and wake-ups give the two threads exactly the channel's     *)
(* behaviour: its order, its capacity and what it may skip.                *)
ImplementsChannel == Channel!ChannelSpec
===============================================================================
