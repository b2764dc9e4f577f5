--------------------------- MODULE FrameQueueProofs ---------------------------
(***************************************************************************)
(* Theorems about FrameQueue, for every pool size N and every MaxFrames.   *)
(***************************************************************************)
EXTENDS FrameQueue, FiniteSetTheorems, SequenceTheorems, TLAPS

-------------------------------------------------------------------------------
(* Arithmetic of the ring.  Positions are below N and offsets at most N,   *)
(* so one subtraction computes the remainder.                              *)

(* The remainder of a sum of a position and an offset. *)
LEMMA ModBelowTwice ==
  ASSUME NEW x \in Nat, x < 2 * N
  PROVE  x % N = IF x < N THEN x ELSE x - N
  BY PoolAssumption

(* A position advanced by an offset is a position. *)
LEMMA PositionType ==
  ASSUME NEW p \in Slots, NEW k \in 0 .. N
  PROVE  (p + k) % N \in Slots
  BY PoolAssumption, ModBelowTwice DEF Slots

(* Different offsets below N lead to different positions. *)
LEMMA PositionInjective ==
  ASSUME NEW p \in Slots, NEW i \in 0 .. N - 1, NEW j \in 0 .. N - 1, i # j
  PROVE  (p + i) % N # (p + j) % N
  BY PoolAssumption, ModBelowTwice DEF Slots

(* Advancing the position by one is advancing the offset by one. *)
LEMMA PositionShift ==
  ASSUME NEW p \in Slots, NEW k \in 0 .. N - 1
  PROVE  /\ (NextPos(p) + k) % N = (p + (k + 1)) % N
         /\ NextPos((p + k) % N) = (p + (k + 1)) % N
  <1>1. NextPos(p) = IF p + 1 < N THEN p + 1 ELSE p + 1 - N
    BY PoolAssumption, ModBelowTwice DEF Slots, NextPos
  <1>2. (NextPos(p) + k) % N = (p + (k + 1)) % N
    BY <1>1, PoolAssumption, ModBelowTwice DEF Slots
  <1>3. NextPos((p + k) % N) = (p + (k + 1)) % N
    BY PoolAssumption, ModBelowTwice DEF Slots, NextPos
  <1>. QED BY <1>2, <1>3

-------------------------------------------------------------------------------
(* The window of the ring. *)

(* The members the ring is made of, as TypeOK gives them. *)
RingType ==
  /\ states \in [Slots -> SlotState]
  /\ readyRing \in [Slots -> Slots]
  /\ readPos \in Slots /\ writePos \in Slots
  /\ readyCount \in 0 .. N

(* Every place of the window is a slot, and the oldest is at readPos. *)
LEMMA ReadyAtType ==
  ASSUME RingType
  PROVE  /\ \A i \in 0 .. N : ReadyAt(i) \in Slots
         /\ ReadyAt(0) = readyRing[readPos]
         /\ Window \subseteq Slots
  <1>1. \A i \in 0 .. N : ReadyAt(i) \in Slots
    BY PositionType DEF RingType, ReadyAt
  <1>2. (readPos + 0) % N = readPos
    <2>1. readPos \in Nat /\ readPos < N /\ readPos + 0 = readPos
      BY PoolAssumption DEF RingType, Slots
    <2>. QED BY <2>1, PoolAssumption, ModBelowTwice
  <1>3. ReadyAt(0) = readyRing[readPos]
    BY <1>2 DEF ReadyAt
  <1>4. Window \subseteq Slots
    <2>1. \A i \in 0 .. readyCount - 1 : i \in 0 .. N
      BY PoolAssumption DEF RingType
    <2>. QED BY <1>1, <2>1 DEF Window
  <1>. QED BY <1>1, <1>3, <1>4

(* The window has as many slots as readyCount says. *)
LEMMA WindowCardinality ==
  ASSUME RingType, RingMatchesStates
  PROVE  IsFiniteSet(Window) /\ Cardinality(Window) = readyCount
  <1> DEFINE I == 0 .. readyCount - 1
             f == [i \in I |-> ReadyAt(i)]
  <1>1. f \in Injection(I, Window)
    BY DEF RingMatchesStates, Window, Injection, IsInjective
  <1>2. f \in Surjection(I, Window)
    BY DEF Window, Surjection
  <1>3. ExistsBijection(I, Window)
    BY <1>1, <1>2 DEF ExistsBijection, Bijection
  <1>4. IsFiniteSet(I) /\ Cardinality(I) = readyCount
    <2>1. readyCount \in Nat /\ 0 \in Int /\ readyCount - 1 \in Int
      BY PoolAssumption DEF RingType
    <2>2. /\ IsFiniteSet(I)
          /\ Cardinality(I) = IF 0 > readyCount - 1 THEN 0 ELSE (readyCount - 1) - 0 + 1
      BY <2>1, FS_Interval
    <2>. QED BY <2>1, <2>2
  <1>. QED BY <1>3, <1>4, FS_Bijection

(* While a slot is being written there is room in the ring for it. *)
LEMMA RoomForWriter ==
  ASSUME RingType, RingMatchesStates, NEW slot \in Slots, states[slot] # "Ready"
  PROVE  readyCount < N
  <1>1. Window \subseteq Slots \ {slot}
    BY ReadyAtType DEF RingMatchesStates, InState
  <1>2. IsFiniteSet(Slots) /\ Cardinality(Slots) = N
    BY FS_Interval, PoolAssumption DEF Slots
  <1>3. IsFiniteSet(Slots \ {slot}) /\ Cardinality(Slots \ {slot}) = N - 1
    BY <1>2, FS_RemoveElement
  <1>4. Cardinality(Window) <= N - 1
    BY <1>1, <1>3, FS_Subset
  <1>. QED BY <1>4, WindowCardinality, PoolAssumption DEF RingType

-------------------------------------------------------------------------------
(* The four ways an operation moves the window. *)

(* Nothing happens to the ring, and no slot becomes Ready or stops being   *)
(* Ready: it still matches the states.                                     *)
LEMMA RingUntouched ==
  ASSUME RingMatchesStates, UNCHANGED ring, InState("Ready")' = InState("Ready")
  PROVE  RingMatchesStates'
  BY DEF RingMatchesStates, ring, Window, ReadyAt

(* Popping the oldest slot shifts the window by one place. *)
LEMMA PopShifts ==
  ASSUME RingType, readyCount # 0, readyRing' = readyRing,
         readPos' = NextPos(readPos), readyCount' = readyCount - 1
  PROVE  \A i \in 0 .. readyCount' - 1 :
           i + 1 \in 0 .. readyCount - 1 /\ ReadyAt(i)' = ReadyAt(i + 1)
  <1>. TAKE i \in 0 .. readyCount' - 1
  <1>1. i \in 0 .. N - 1 /\ i + 1 \in 0 .. readyCount - 1
    BY PoolAssumption DEF RingType
  <1>2. (NextPos(readPos) + i) % N = (readPos + (i + 1)) % N
    BY <1>1, PositionShift DEF RingType
  <1>. QED BY <1>1, <1>2 DEF ReadyAt

(* Taking the oldest ready slot, for a reader or for a writer that recycles
   it, leaves the ring, its window and the slots in agreement. *)
LEMMA PopKeepsRing ==
  ASSUME RingType, RingMatchesStates, readyCount # 0,
         readyRing' = readyRing, writePos' = writePos,
         readPos' = NextPos(readPos), readyCount' = readyCount - 1,
         NEW state \in SlotState \ {"Ready"},
         states' = [states EXCEPT ![readyRing[readPos]] = state]
  PROVE  RingMatchesStates' /\ states[readyRing[readPos]] = "Ready"
  <1> DEFINE oldest == readyRing[readPos]
  <1>1. oldest = ReadyAt(0) /\ oldest \in Slots /\ oldest \in Window
    <2>1. 0 \in 0 .. readyCount - 1
      BY PoolAssumption DEF RingType
    <2>. QED BY <2>1, ReadyAtType DEF Window, RingType
  <1>2. Window' = Window \ {oldest}
    <2>1. ASSUME NEW s \in Window' PROVE s \in Window \ {oldest}
      <3>1. PICK i \in 0 .. readyCount' - 1 : s = ReadyAt(i)'
        BY <2>1 DEF Window
      <3>2. i + 1 \in 0 .. readyCount - 1 /\ s = ReadyAt(i + 1)
        BY <3>1, PopShifts
      <3>3. 0 \in 0 .. readyCount - 1 /\ i + 1 # 0
        BY <3>2, PoolAssumption DEF RingType
      <3>4. ReadyAt(i + 1) # ReadyAt(0)
        BY <3>2, <3>3 DEF RingMatchesStates
      <3>. QED BY <3>2, <3>4, <1>1 DEF Window
    <2>2. ASSUME NEW s \in Window, s # oldest PROVE s \in Window'
      <3>1. PICK j \in 0 .. readyCount - 1 : s = ReadyAt(j)
        BY DEF Window
      <3>2. j # 0
        BY <3>1, <2>2, <1>1
      <3>3. j - 1 \in 0 .. readyCount' - 1 /\ (j - 1) + 1 = j
        BY <3>1, <3>2, PoolAssumption DEF RingType
      <3>4. ReadyAt(j - 1)' = s
        BY <3>1, <3>3, PopShifts
      <3>. QED BY <3>3, <3>4 DEF Window
    <2>. QED BY <2>1, <2>2
  <1>3. InState("Ready")' = InState("Ready") \ {oldest}
    BY <1>1 DEF InState, RingType
  <1>4. \A i, j \in 0 .. readyCount' - 1 : i # j => ReadyAt(i)' # ReadyAt(j)'
    <2>. SUFFICES ASSUME NEW i \in 0 .. readyCount' - 1,
                         NEW j \in 0 .. readyCount' - 1, i # j
                  PROVE  ReadyAt(i)' # ReadyAt(j)'
      OBVIOUS
    <2>1. i + 1 # j + 1
      OBVIOUS
    <2>. QED BY <2>1, PopShifts DEF RingMatchesStates
  <1>5. writePos' = (readPos' + readyCount') % N
    <2>1. readyCount - 1 \in 0 .. N - 1 /\ (readyCount - 1) + 1 = readyCount
      BY PoolAssumption DEF RingType
    <2>2. (NextPos(readPos) + (readyCount - 1)) % N = (readPos + readyCount) % N
      BY <2>1, PositionShift DEF RingType
    <2>. QED BY <2>2 DEF RingMatchesStates
  <1>6. states[oldest] = "Ready"
    BY <1>1 DEF RingMatchesStates, InState
  <1>. QED BY <1>2, <1>3, <1>4, <1>5, <1>6 DEF RingMatchesStates

(* Committing appends the slot behind the newest one: writePos is the only *)
(* place of the ring that changes, and it lies outside the window.         *)
LEMMA CommitKeepsRing ==
  ASSUME RingType, RingMatchesStates, NEW slot \in Slots, states[slot] = "Writing",
         readyRing' = [readyRing EXCEPT ![writePos] = slot],
         writePos' = NextPos(writePos), readPos' = readPos,
         readyCount' = readyCount + 1,
         states' = [states EXCEPT ![slot] = "Ready"]
  PROVE  /\ RingMatchesStates'
         /\ \A i \in 0 .. readyCount - 1 : ReadyAt(i)' = ReadyAt(i)
         /\ \A i \in 0 .. N : i = readyCount => ReadyAt(i)' = slot
  <1>1. readyCount \in 0 .. N - 1
    BY RoomForWriter, PoolAssumption DEF RingType
  <1>2. \A i \in 0 .. readyCount - 1 : ReadyAt(i)' = ReadyAt(i)
    <2>. TAKE i \in 0 .. readyCount - 1
    <2>1. i \in 0 .. N - 1 /\ i # readyCount
      BY <1>1, PoolAssumption
    <2>2. (readPos + i) % N # (readPos + readyCount) % N
      BY <2>1, <1>1, PositionInjective DEF RingType
    <2>3. (readPos + i) % N \in Slots
      BY <2>1, PositionType, PoolAssumption DEF RingType
    <2>. QED BY <2>2, <2>3 DEF ReadyAt, RingType, RingMatchesStates
  <1>3. \A i \in 0 .. N : i = readyCount => ReadyAt(i)' = slot
    BY DEF ReadyAt, RingType, RingMatchesStates
  <1>4. Window' = Window \union {slot}
    <2>1. \A i : i \in 0 .. readyCount' - 1 <=> i \in 0 .. readyCount - 1 \/ i = readyCount
      BY <1>1, PoolAssumption
    <2>2. readyCount \in 0 .. N
      BY DEF RingType
    <2>3. ASSUME NEW s \in Window' PROVE s \in Window \union {slot}
      BY <2>1, <2>2, <1>2, <1>3 DEF Window
    <2>4. ASSUME NEW s \in Window PROVE s \in Window'
      BY <2>1, <1>2 DEF Window
    <2>5. slot \in Window'
      BY <2>1, <2>2, <1>3 DEF Window
    <2>. QED BY <2>3, <2>4, <2>5
  <1>5. InState("Ready")' = InState("Ready") \union {slot}
    BY DEF InState, RingType
  <1>6. slot \notin Window
    BY DEF RingMatchesStates, InState
  <1>7. \A i, j \in 0 .. readyCount' - 1 : i # j => ReadyAt(i)' # ReadyAt(j)'
    <2>. SUFFICES ASSUME NEW i \in 0 .. readyCount' - 1,
                         NEW j \in 0 .. readyCount' - 1, i # j
                  PROVE  ReadyAt(i)' # ReadyAt(j)'
      OBVIOUS
    <2>1. CASE i # readyCount /\ j # readyCount
      <3>1. i \in 0 .. readyCount - 1 /\ j \in 0 .. readyCount - 1
        BY <1>1, <2>1, PoolAssumption
      <3>. QED BY <3>1, <1>2 DEF RingMatchesStates
    <2>2. CASE i = readyCount /\ j # readyCount
      <3>1. j \in 0 .. readyCount - 1
        BY <1>1, <2>2, PoolAssumption
      <3>2. ReadyAt(j)' \in Window
        BY <3>1, <1>2 DEF Window
      <3>3. ReadyAt(i)' = slot
        BY <2>2, <1>3 DEF RingType
      <3>. QED BY <3>2, <3>3, <1>6
    <2>3. CASE i # readyCount /\ j = readyCount
      <3>1. i \in 0 .. readyCount - 1
        BY <1>1, <2>3, PoolAssumption
      <3>2. ReadyAt(i)' \in Window
        BY <3>1, <1>2 DEF Window
      <3>3. ReadyAt(j)' = slot
        BY <2>3, <1>3 DEF RingType
      <3>. QED BY <3>2, <3>3, <1>6
    <2>. QED BY <2>1, <2>2, <2>3
  <1>8. writePos' = (readPos' + readyCount') % N
    BY <1>1, PositionShift DEF RingMatchesStates, RingType
  <1>. QED BY <1>2, <1>3, <1>4, <1>5, <1>7, <1>8 DEF RingMatchesStates

(* Emptying the ring at once, as tryAcquireNewest, discardReady and stop   *)
(* do, leaves no slot Ready.                                               *)
LEMMA DrainKeepsRing ==
  ASSUME RingType, RingMatchesStates, writePos' = writePos,
         readPos' = (readPos + readyCount) % N, readyCount' = 0,
         InState("Ready")' = {}
  PROVE  RingMatchesStates'
  <1>1. Window' = {}
    BY DEF Window
  <1>2. writePos' = (readPos' + readyCount') % N
    <2>1. writePos \in Nat /\ writePos < N /\ writePos + 0 = writePos
      BY PoolAssumption DEF RingType, Slots
    <2>2. (writePos + 0) % N = writePos
      BY <2>1, PoolAssumption, ModBelowTwice
    <2>. QED BY <2>2 DEF RingMatchesStates
  <1>. QED BY <1>1, <1>2 DEF RingMatchesStates

-------------------------------------------------------------------------------
(* The inductive invariant: types, the agreement of ring and states, which *)
(* makes every pop meet a Ready slot, the payloads, and the frame count.   *)
CoreInv ==
  /\ TypeOK
  /\ NoCorruption
  /\ RingMatchesStates
  /\ PayloadFollowsOwnership
  /\ FramesAccountedFor

(* TypeOK contains the types the lemmas about the ring need. *)
LEMMA TypeOKGivesRingType ==
  ASSUME TypeOK
  PROVE  RingType
  BY DEF TypeOK, RingType

(* While ring and states agree, draining frees exactly the Ready slots, and *)
(* the ring stays in agreement with them.                                  *)
LEMMA DrainKeepsCore ==
  ASSUME CoreInv, DrainReady
  PROVE  /\ RingMatchesStates'
         /\ PayloadFollowsOwnership'
         /\ states' \in [Slots -> SlotState]
         /\ content' \in [Slots -> Frames \union {NoFrame}]
         /\ readPos' \in Slots /\ readyCount' = 0
         /\ Cardinality(Drained) = readyCount
  <1>. USE TypeOKGivesRingType DEF CoreInv
  <1>1. Drained = InState("Ready") /\ Drained = Window
    BY DEF Drained, RingMatchesStates, InState
  <1>2. InState("Ready")' = {}
    BY <1>1 DEF DrainReady, InState
  <1>3. Cardinality(Drained) = readyCount
    BY <1>1, WindowCardinality
  <1>4. readPos' \in Slots
    BY PositionType DEF DrainReady, TypeOK
  <1>5. RingMatchesStates'
    BY <1>2, DrainKeepsRing DEF DrainReady
  <1>6. PayloadFollowsOwnership'
    BY <1>1 DEF PayloadFollowsOwnership, DrainReady, InState
  <1>7. /\ states' \in [Slots -> SlotState]
        /\ content' \in [Slots -> Frames \union {NoFrame}]
    BY DEF DrainReady, TypeOK, SlotState
  <1>. QED BY <1>3, <1>4, <1>5, <1>6, <1>7 DEF DrainReady

(* So does stop(), whichever thread calls it. *)
LEMMA StopKeepsCore ==
  ASSUME CoreInv, NEW t \in Threads, Stop(t)
  PROVE  CoreInv'
  <1>1. DrainReady
    BY DEF Stop
  <1>2. /\ owed' \in [Threads -> SUBSET CondVars]
        /\ UNCHANGED <<call, asleep>>
    BY DEF Stop, Owes, CoreInv, TypeOK, CondVars
  <1>3. abandoned' = abandoned + readyCount
    BY <1>1, DrainKeepsCore DEF Stop
  <1>4. /\ abandoned' \in Nat /\ highWater' \in readyCount' .. N
        /\ readyCount' \in 0 .. N
    BY <1>1, <1>3, DrainKeepsCore, PoolAssumption DEF DrainReady, CoreInv, TypeOK
  <1>5. TypeOK'
    BY <1>1, <1>2, <1>4, DrainKeepsCore DEF Stop, DrainReady, CoreInv, TypeOK
  <1>6. FramesAccountedFor'
    BY <1>1, <1>3, DrainKeepsCore DEF Stop, CoreInv, TypeOK, FramesAccountedFor
  <1>7. NoCorruption'
    BY DEF Stop, CoreInv, NoCorruption
  <1>. QED BY <1>1, <1>5, <1>6, <1>7, DrainKeepsCore DEF CoreInv

(* The producer's operations keep the invariant. *)
LEMMA ProducerKeepsCore ==
  ASSUME CoreInv, ProducerStep
  PROVE  CoreInv'
  <1>. USE TypeOKGivesRingType DEF CoreInv
  <1>1. ASSUME NEW op \in Calls \ {"none", "acquireRead"},
               WaitForSlot(op) \/ WriteRefused(op)
        PROVE  CoreInv'
    <2>1. UNCHANGED <<states, ring, staleDrops, stopped, content, corrupted, history>>
      BY <1>1 DEF WaitForSlot, WriteRefused
    <2>2. InState("Ready")' = InState("Ready")
      BY <2>1 DEF InState
    <2>3. /\ call' \in [Threads -> Calls]
          /\ call'[Producer] # "acquireRead"
          /\ call'[Consumer] \in {"none", "acquireRead"}
      <3>1. PICK c \in Calls \ {"acquireRead"} : call' = [call EXCEPT ![Producer] = c]
        BY <1>1 DEF WaitForSlot, WriteRefused, Sleeps, Returns, Calls
      <3>. QED BY <3>1 DEF TypeOK, Threads, Producer, Consumer
    <2>4. asleep' \subseteq Threads /\ owed' = owed
      BY <1>1 DEF TypeOK, WaitForSlot, WriteRefused, Sleeps, Returns, Threads
    <2>5. TypeOK'
      BY <2>1, <2>3, <2>4 DEF TypeOK, ring, history
    <2>. QED BY <2>1, <2>2, <2>5, RingUntouched
           DEF NoCorruption, PayloadFollowsOwnership, FramesAccountedFor, ring, history
  <1>2. ASSUME NEW op \in Calls, TakeFreeSlot(op)
        PROVE  CoreInv'
    <2>1. PICK slot \in InState("Free") : states' = [states EXCEPT ![slot] = "Writing"]
      BY <1>2 DEF TakeFreeSlot
    <2>2. UNCHANGED <<ring, staleDrops, stopped, content, corrupted, history>>
      BY <1>2 DEF TakeFreeSlot
    <2>3. slot \in Slots /\ states[slot] = "Free"
      BY DEF InState
    <2>4. InState("Ready")' = InState("Ready")
      BY <2>1, <2>3 DEF InState, TypeOK
    <2>5. TypeOK'
      BY <1>2, <2>1, <2>2, <2>3 DEF TypeOK, TakeFreeSlot, Returns, ring, history, Threads,
           Calls, Producer, Consumer, SlotState
    <2>6. PayloadFollowsOwnership'
      BY <2>1, <2>2, <2>3 DEF PayloadFollowsOwnership, TypeOK
    <2>. QED BY <2>2, <2>4, <2>5, <2>6, RingUntouched
           DEF NoCorruption, FramesAccountedFor, ring, history
  <1>3. CASE TakeOldestReady
    <2> DEFINE slot == readyRing[readPos]
    <2>1. RingMatchesStates' /\ states[slot] = "Ready"
      BY <1>3, PopKeepsRing DEF TakeOldestReady, SlotState
    <2>2. slot \in Slots
      BY DEF TypeOK
    <2>3. NextPos(readPos) \in Slots
      BY PositionType, PoolAssumption DEF NextPos, TypeOK
    <2>4. readyCount - 1 \in 0 .. N /\ highWater \in readyCount - 1 .. N
      BY <1>3, PoolAssumption DEF TypeOK, TakeOldestReady
    <2>5. TypeOK'
      BY <1>3, <2>2, <2>3, <2>4 DEF TypeOK, TakeOldestReady, Returns, history, Threads,
           Calls, Producer, Consumer, SlotState
    <2>6. PayloadFollowsOwnership'
      BY <1>3, <2>2 DEF PayloadFollowsOwnership, TypeOK, TakeOldestReady
    <2>7. FramesAccountedFor'
      BY <1>3 DEF FramesAccountedFor, TypeOK, TakeOldestReady, history
    <2>8. NoCorruption'
      BY <1>3, <2>1 DEF NoCorruption, TakeOldestReady
    <2>. QED BY <2>1, <2>5, <2>6, <2>7, <2>8
  <1>4. ASSUME NEW slot \in Slots, DecodeInto(slot)
        PROVE  CoreInv'
    <2>1. InState("Ready")' = InState("Ready")
      BY <1>4 DEF InState, DecodeInto
    <2>2. TypeOK'
      BY <1>4, BoundAssumption DEF TypeOK, DecodeInto, ring, threads, Frames
    <2>3. PayloadFollowsOwnership'
      BY <1>4 DEF PayloadFollowsOwnership, TypeOK, DecodeInto
    <2>. QED BY <1>4, <2>1, <2>2, <2>3, RingUntouched
           DEF DecodeInto, NoCorruption, FramesAccountedFor, ring
  <1>5. ASSUME NEW slot \in Slots, CommitWrite(slot)
        PROVE  CoreInv'
    <2>1. RingMatchesStates'
      BY <1>5, CommitKeepsRing DEF CommitWrite
    <2>2. readyCount + 1 \in 0 .. N /\ readyCount < N
      BY <1>5, RoomForWriter, PoolAssumption DEF CommitWrite, TypeOK
    <2>3. NextPos(writePos) \in Slots
      BY PositionType, PoolAssumption DEF NextPos, TypeOK
    <2>4. highWater' \in readyCount' .. N
      BY <1>5, <2>2, PoolAssumption DEF CommitWrite, TypeOK
    <2>5. TypeOK'
      BY <1>5, <2>2, <2>3, <2>4 DEF TypeOK, CommitWrite, Owes, Threads, CondVars,
           SlotState, Producer, Consumer
    <2>6. PayloadFollowsOwnership'
      BY <1>5 DEF PayloadFollowsOwnership, TypeOK, CommitWrite
    <2>7. FramesAccountedFor'
      BY <1>5 DEF FramesAccountedFor, TypeOK, CommitWrite
    <2>. QED BY <1>5, <2>1, <2>5, <2>6, <2>7 DEF NoCorruption, CommitWrite
  <1>6. ASSUME NEW slot \in Slots, CancelWrite(slot)
        PROVE  CoreInv'
    <2>1. InState("Ready")' = InState("Ready")
      BY <1>6 DEF InState, CancelWrite, TypeOK
    <2>2. TypeOK'
      BY <1>6 DEF TypeOK, CancelWrite, Owes, ring, history, Threads, CondVars,
           SlotState, Producer, Consumer
    <2>3. PayloadFollowsOwnership'
      BY <1>6 DEF PayloadFollowsOwnership, TypeOK, CancelWrite
    <2>. QED BY <1>6, <2>1, <2>2, <2>3, RingUntouched
           DEF CancelWrite, NoCorruption, FramesAccountedFor, ring, history
  <1>7. ASSUME NEW t \in Threads, Stop(t)
        PROVE  CoreInv'
    BY <1>7, StopKeepsCore
  <1>. QED BY <1>1, <1>2, <1>3, <1>4, <1>5, <1>6, <1>7
         DEF ProducerStep, AcquireWrite, AcquireWriteLatest, Calls, Threads

(* The consumer's operations keep the invariant. *)
LEMMA ConsumerKeepsCore ==
  ASSUME CoreInv, ConsumerStep
  PROVE  CoreInv'
  <1>. USE TypeOKGivesRingType DEF CoreInv
  <1>1. CASE WaitForFrame \/ ReadRefused
    <2>1. UNCHANGED <<states, ring, staleDrops, stopped, content, corrupted, history>>
      BY <1>1 DEF WaitForFrame, ReadRefused
    <2>2. InState("Ready")' = InState("Ready")
      BY <2>1 DEF InState
    <2>3. /\ call' \in [Threads -> Calls]
          /\ call'[Producer] # "acquireRead"
          /\ call'[Consumer] \in {"none", "acquireRead"}
      <3>1. PICK c \in {"none", "acquireRead"} : call' = [call EXCEPT ![Consumer] = c]
        BY <1>1 DEF WaitForFrame, ReadRefused, Sleeps, Returns
      <3>. QED BY <3>1 DEF TypeOK, Threads, Producer, Consumer, Calls
    <2>4. asleep' \subseteq Threads /\ owed' = owed
      BY <1>1 DEF TypeOK, WaitForFrame, ReadRefused, Sleeps, Returns, Threads
    <2>5. TypeOK'
      BY <2>1, <2>3, <2>4 DEF TypeOK, ring, history
    <2>. QED BY <2>1, <2>2, <2>5, RingUntouched
           DEF NoCorruption, PayloadFollowsOwnership, FramesAccountedFor, ring, history
  <1>2. CASE TakeOldestFrame
    <2> DEFINE slot == readyRing[readPos]
    <2>1. RingMatchesStates' /\ states[slot] = "Ready"
      BY <1>2, PopKeepsRing DEF TakeOldestFrame, SlotState
    <2>2. slot \in Slots
      BY DEF TypeOK
    <2>3. NextPos(readPos) \in Slots
      BY PositionType, PoolAssumption DEF NextPos, TypeOK
    <2>4. readyCount - 1 \in 0 .. N /\ highWater \in readyCount - 1 .. N
      BY <1>2, PoolAssumption DEF TypeOK, TakeOldestFrame
    <2>5. content[slot] \in 0 .. MaxFrames
      BY <2>2, BoundAssumption DEF TypeOK, Frames, NoFrame
    <2>6. TypeOK'
      BY <1>2, <2>2, <2>3, <2>4, <2>5 DEF TypeOK, TakeOldestFrame, Returns, Threads,
           Calls, Producer, Consumer, SlotState
    <2>7. PayloadFollowsOwnership'
      BY <1>2, <2>1, <2>2 DEF PayloadFollowsOwnership, TypeOK, TakeOldestFrame
    <2>8. FramesAccountedFor'
      BY <1>2 DEF FramesAccountedFor, TypeOK, TakeOldestFrame
    <2>9. NoCorruption'
      BY <1>2, <2>1 DEF NoCorruption, TakeOldestFrame
    <2>. QED BY <2>1, <2>6, <2>7, <2>8, <2>9
  <1>3. CASE TryAcquireNewest
    <2> DEFINE newest == ReadyAt(readyCount - 1)
               older == Window \ {newest}
    <2>1. readyCount - 1 \in 0 .. readyCount - 1 /\ readyCount - 1 \in 0 .. N
      BY <1>3, PoolAssumption DEF TypeOK, TryAcquireNewest
    <2>2. newest \in Window /\ newest \in Slots
      BY <2>1, ReadyAtType DEF Window
    <2>3. \A s \in Slots : s \in Window <=> states[s] = "Ready"
      BY DEF RingMatchesStates, InState
    <2>4. InState("Ready")' = {}
      BY <1>3, <2>2, <2>3 DEF TryAcquireNewest, InState
    <2>5. readPos' \in Slots
      BY <1>3, PositionType DEF TryAcquireNewest, TypeOK
    <2>6. RingMatchesStates'
      BY <1>3, <2>4, DrainKeepsRing DEF TryAcquireNewest
    <2>7. content[newest] \in 0 .. MaxFrames
      BY <2>2, BoundAssumption DEF TypeOK, Frames, NoFrame
    <2>8. /\ states' \in [Slots -> SlotState]
          /\ content' \in [Slots -> Frames \union {NoFrame}]
      BY <1>3 DEF TryAcquireNewest, TypeOK, SlotState
    <2>9. /\ readyCount' \in 0 .. N /\ highWater' \in readyCount' .. N
          /\ staleDrops' \in Nat /\ delivered' \in Nat
      BY <1>3, <2>1, PoolAssumption DEF TryAcquireNewest, TypeOK
    <2>10. TypeOK'
      BY <1>3, <2>5, <2>7, <2>8, <2>9 DEF TypeOK, TryAcquireNewest, Threads
    <2>11. PayloadFollowsOwnership'
      BY <1>3, <2>2, <2>3 DEF PayloadFollowsOwnership, TryAcquireNewest
    <2>12. FramesAccountedFor'
      BY <1>3 DEF FramesAccountedFor, TypeOK, TryAcquireNewest
    <2>13. NoCorruption'
      BY <1>3, <2>3, ReadyAtType DEF NoCorruption, TryAcquireNewest
    <2>. QED BY <2>6, <2>10, <2>11, <2>12, <2>13
  <1>4. ASSUME NEW slot \in Slots, ReleaseRead(slot)
        PROVE  CoreInv'
    <2>1. InState("Ready")' = InState("Ready")
      BY <1>4 DEF InState, ReleaseRead, TypeOK
    <2>2. TypeOK'
      BY <1>4 DEF TypeOK, ReleaseRead, Owes, ring, history, Threads, CondVars,
           SlotState, Producer, Consumer
    <2>3. PayloadFollowsOwnership'
      BY <1>4 DEF PayloadFollowsOwnership, TypeOK, ReleaseRead
    <2>. QED BY <1>4, <2>1, <2>2, <2>3, RingUntouched
           DEF ReleaseRead, NoCorruption, FramesAccountedFor, ring, history
  <1>5. CASE DiscardReady
    <2>1. DrainReady
      BY <1>5 DEF DiscardReady
    <2>2. staleDrops' = staleDrops + readyCount
      BY <1>5, <2>1, DrainKeepsCore DEF DiscardReady
    <2>3. /\ staleDrops' \in Nat /\ readyCount' \in 0 .. N
          /\ highWater' \in readyCount' .. N
      BY <2>1, <2>2, DrainKeepsCore, PoolAssumption DEF DrainReady, TypeOK
    <2>4. TypeOK'
      BY <1>5, <2>1, <2>3, DrainKeepsCore DEF DiscardReady, DrainReady, TypeOK, Owes,
           history, Threads, CondVars, Consumer
    <2>5. FramesAccountedFor' /\ NoCorruption'
      BY <1>5, <2>1, <2>2, DrainKeepsCore DEF DiscardReady, TypeOK, FramesAccountedFor,
           NoCorruption, history
    <2>. QED BY <2>1, <2>4, <2>5, DrainKeepsCore
  <1>6. ASSUME NEW t \in Threads, Stop(t)
        PROVE  CoreInv'
    BY <1>6, StopKeepsCore
  <1>. QED BY <1>1, <1>2, <1>3, <1>4, <1>5, <1>6
         DEF ConsumerStep, AcquireReadPreserveOrder, Threads

(* The invariant holds initially and every step keeps it. *)
LEMMA CoreInvInit ==
  Init => CoreInv
  <1>. SUFFICES ASSUME Init PROVE CoreInv
    OBVIOUS
  <1>1. TypeOK
    <2>1. 0 \in Slots /\ 0 \in 0 .. N /\ 0 \in 0 .. MaxFrames
      BY PoolAssumption, BoundAssumption DEF Slots
    <2>2. /\ states \in [Slots -> SlotState]
          /\ readyRing \in [Slots -> Slots]
          /\ content \in [Slots -> Frames \union {NoFrame}]
      BY <2>1 DEF Init, SlotState
    <2>3. /\ call \in [Threads -> Calls] /\ asleep \subseteq Threads
          /\ owed \in [Threads -> SUBSET CondVars]
          /\ call[Producer] = "none" /\ call[Consumer] = "none"
      BY DEF Init, Calls, Threads
    <2>. QED BY <2>1, <2>2, <2>3 DEF Init, TypeOK
  <1>2. RingMatchesStates
    BY PoolAssumption, ModBelowTwice DEF Init, RingMatchesStates, Window, InState
  <1>. QED BY <1>1, <1>2 DEF Init, CoreInv, NoCorruption, PayloadFollowsOwnership,
         FramesAccountedFor

(* Every step of either thread keeps the core invariant. *)
LEMMA CoreInvStep ==
  CoreInv /\ [Next]_vars => CoreInv'
  <1>. SUFFICES ASSUME CoreInv, [Next]_vars PROVE CoreInv'
    OBVIOUS
  <1>. USE TypeOKGivesRingType DEF CoreInv
  <1>1. ASSUME UNCHANGED <<states, ring, staleDrops, stopped, content, call, corrupted,
                           history>>,
               asleep' \subseteq Threads, owed' \in [Threads -> SUBSET CondVars]
        PROVE  CoreInv'
    <2>1. InState("Ready")' = InState("Ready")
      BY <1>1 DEF InState
    <2>2. TypeOK'
      BY <1>1 DEF TypeOK, ring, history
    <2>. QED BY <1>1, <2>1, <2>2, RingUntouched
           DEF NoCorruption, PayloadFollowsOwnership, FramesAccountedFor, ring, history
  <1>2. ASSUME NEW t \in Threads, NEW cv \in CondVars, Notify(t, cv)
        PROVE  CoreInv'
    <2>1. asleep' \subseteq Threads /\ owed' \in [Threads -> SUBSET CondVars]
      BY <1>2 DEF Notify, TypeOK
    <2>. QED BY <1>2, <2>1, <1>1 DEF Notify
  <1>3. ASSUME NEW t \in Threads, SpuriousWakeup(t)
        PROVE  CoreInv'
    <2>1. asleep' \subseteq Threads /\ owed' \in [Threads -> SUBSET CondVars]
      BY <1>3 DEF SpuriousWakeup, TypeOK
    <2>. QED BY <1>3, <2>1, <1>1 DEF SpuriousWakeup
  <1>4. CASE UNCHANGED vars
    BY <1>4, <1>1 DEF vars, threads, TypeOK
  <1>. QED BY <1>2, <1>3, <1>4, ProducerKeepsCore, ConsumerKeepsCore DEF Next

(* For every pool size and every number of frames, ring and states agree,  *)
(* payloads follow ownership and every frame is accounted for.             *)
THEOREM CoreInvariant == Spec => []CoreInv
  BY CoreInvInit, CoreInvStep, PTL DEF Spec

(* Every variable keeps its type, whatever the capacity and the frames. *)
THEOREM TypeCorrect == Spec => []TypeOK
  BY CoreInvariant, PTL DEF CoreInv

(* None of the queue's "state corruption" exceptions can be thrown. *)
THEOREM CorruptionUnreachable == Spec => []NoCorruption
  BY CoreInvariant, PTL DEF CoreInv

(* A free slot keeps no decoder surface alive, and a frame on its way to   *)
(* the consumer has its payload.                                           *)
THEOREM PayloadsFollowOwnership == Spec => []PayloadFollowsOwnership
  BY CoreInvariant, PTL DEF CoreInv

(* No committed frame disappears uncounted.                                *)
THEOREM FramesAreAccountedFor == Spec => []FramesAccountedFor
  BY CoreInvariant, PTL DEF CoreInv

-------------------------------------------------------------------------------
(* Wake-ups.  A predicate that becomes true does so in a step of the other *)
(* thread, which owes the notification from that step on.                  *)
WakeInv ==
  /\ NoLostWakeup
  /\ SleepersHoldNothing

(* No step takes away the state change a pending notification announces. *)
LEMMA WakeInvStep ==
  CoreInv /\ WakeInv /\ [Next]_vars => WakeInv'
  <1>. SUFFICES ASSUME CoreInv, WakeInv, [Next]_vars PROVE WakeInv'
    OBVIOUS
  <1>1. TypeOK
    BY DEF CoreInv
  <1>. USE <1>1 DEF WakeInv, NoLostWakeup, SleepersHoldNothing, WritePredicate, InState,
       Producer, Consumer, Threads, CondVars
  <1>2. ASSUME NEW op \in Calls,
               WaitForSlot(op) \/ WriteRefused(op) \/ TakeFreeSlot(op)
        PROVE  WakeInv'
    <2>1. CASE WaitForSlot(op)
      BY <2>1 DEF WaitForSlot, Enters, Runs, Sleeps, ring, TypeOK
    <2>2. CASE WriteRefused(op)
      BY <2>2 DEF WriteRefused, Enters, Runs, Returns, ring, TypeOK
    <2>3. CASE TakeFreeSlot(op)
      BY <2>3 DEF TakeFreeSlot, Enters, Runs, Returns, ring, TypeOK
    <2>. QED BY <1>2, <2>1, <2>2, <2>3
  <1>3. CASE TakeOldestReady
    BY <1>3 DEF TakeOldestReady, Enters, Runs, Returns, TypeOK
  <1>4. ASSUME NEW slot \in Slots,
               DecodeInto(slot) \/ CommitWrite(slot) \/ CancelWrite(slot)
        PROVE  WakeInv'
    <2>1. CASE DecodeInto(slot)
      BY <2>1 DEF DecodeInto, Idle, Runs, ring, threads, TypeOK
    <2>2. CASE CommitWrite(slot)
      BY <2>2 DEF CommitWrite, Idle, Runs, Owes, TypeOK
    <2>3. CASE CancelWrite(slot)
      BY <2>3 DEF CancelWrite, Idle, Runs, Owes, ring, TypeOK
    <2>. QED BY <1>4, <2>1, <2>2, <2>3
  <1>5. CASE WaitForFrame \/ ReadRefused \/ TakeOldestFrame
    <2>1. CASE WaitForFrame
      BY <2>1 DEF WaitForFrame, Enters, Runs, Sleeps, ring, TypeOK
    <2>2. CASE ReadRefused
      BY <2>2 DEF ReadRefused, Enters, Runs, Returns, ring, TypeOK
    <2>3. CASE TakeOldestFrame
      BY <2>3 DEF TakeOldestFrame, Enters, Runs, Returns, TypeOK
    <2>. QED BY <1>5, <2>1, <2>2, <2>3
  <1>6. CASE TryAcquireNewest
    BY <1>6 DEF TryAcquireNewest, Idle, Runs, Sleeper, TypeOK
  <1>7. ASSUME NEW slot \in Slots, ReleaseRead(slot)
        PROVE  WakeInv'
    BY <1>7 DEF ReleaseRead, Idle, Runs, Owes, ring, TypeOK
  <1>8. CASE DiscardReady
    BY <1>8 DEF DiscardReady, DrainReady, Idle, Runs, Owes, TypeOK
  <1>9. ASSUME NEW t \in Threads, Stop(t)
        PROVE  WakeInv'
    BY <1>9 DEF Stop, DrainReady, Idle, Runs, Owes, TypeOK
  <1>10. ASSUME NEW t \in Threads, NEW cv \in CondVars, Notify(t, cv)
         PROVE  WakeInv'
    BY <1>10 DEF Notify, Sleeper, ring, TypeOK
  <1>11. ASSUME NEW t \in Threads, SpuriousWakeup(t)
         PROVE  WakeInv'
    BY <1>11 DEF SpuriousWakeup, ring, TypeOK
  <1>12. CASE UNCHANGED vars
    BY <1>12 DEF vars, ring, threads
  <1>. QED BY <1>2, <1>3, <1>4, <1>5, <1>6, <1>7, <1>8, <1>9, <1>10, <1>11, <1>12
         DEF Next, ProducerStep, ConsumerStep, AcquireWrite, AcquireWriteLatest,
             AcquireReadPreserveOrder, Calls

(* Nobody sleeps at the beginning. *)
LEMMA WakeInvInit ==
  Init => WakeInv
  BY DEF Init, WakeInv, NoLostWakeup, SleepersHoldNothing

(* No thread sleeps through a change of its predicate: the wake-up is      *)
(* still owed by the thread that made the change.                          *)
THEOREM WakeupsAreNotLost == Spec => []NoLostWakeup
  <1>1. Spec => []WakeInv
    BY CoreInvariant, WakeInvInit, WakeInvStep, PTL DEF Spec
  <1>. QED BY <1>1, PTL DEF WakeInv

(* Both threads asleep would mean that no slot is free, ready, written or  *)
(* read; the pool is not empty, so it cannot happen.                       *)
THEOREM DeadlockFree == Spec => []NeverBothAsleep
  <1>1. CoreInv /\ WakeInv => NeverBothAsleep
    <2>. SUFFICES ASSUME CoreInv, WakeInv, asleep = Threads PROVE FALSE
      BY DEF NeverBothAsleep
    <2>1. InState("Free") = {} /\ readyCount = 0
      BY DEF WakeInv, NoLostWakeup, SleepersHoldNothing, WritePredicate, Threads
    <2>2. InState("Ready") = {}
      BY <2>1 DEF CoreInv, RingMatchesStates, Window
    <2>3. InState("Writing") = {} /\ InState("Reading") = {}
      BY DEF WakeInv, SleepersHoldNothing, Threads
    <2>4. 0 \in Slots /\ states[0] \in SlotState
      BY PoolAssumption DEF Slots, CoreInv, TypeOK
    <2>. QED BY <2>1, <2>2, <2>3, <2>4 DEF InState, SlotState
  <1>2. Spec => []WakeInv
    BY CoreInvariant, WakeInvInit, WakeInvStep, PTL DEF Spec
  <1>. QED BY <1>1, <1>2, CoreInvariant, PTL

-------------------------------------------------------------------------------
(* Order.  Frames grow along the window, start above the last one read and *)
(* end below the one being written.                                        *)
Places == 0 .. readyCount - 1

OrderInv ==
  /\ lastRead <= decoded
  /\ \A i \in Places : lastRead < content[ReadyAt(i)] /\ content[ReadyAt(i)] <= decoded
  /\ \A i, j \in Places : i < j => content[ReadyAt(i)] < content[ReadyAt(j)]
  /\ \A s \in Slots : states[s] = "Writing" /\ content[s] # NoFrame =>
       /\ content[s] = decoded /\ lastRead < decoded
       /\ \A i \in Places : content[ReadyAt(i)] < decoded
  /\ \A s, t \in InState("Writing") : s = t

(* The places of the window hold Ready slots. *)
LEMMA PlacesAreReady ==
  ASSUME CoreInv
  PROVE  /\ readyCount \in 0 .. N /\ N \in Nat
         /\ decoded \in Nat /\ lastRead \in Nat
         /\ \A s \in Slots : content[s] \in Nat
         /\ \A i \in Places : ReadyAt(i) \in Slots /\ states[ReadyAt(i)] = "Ready"
  <1>1. \A i \in Places : ReadyAt(i) \in InState("Ready")
    BY DEF CoreInv, RingMatchesStates, Window, Places
  <1>. QED BY <1>1, PoolAssumption, BoundAssumption
         DEF InState, CoreInv, TypeOK, Frames, NoFrame

(* A step that leaves the window's slots and their frames alone. *)
LEMMA OrderUntouched ==
  ASSUME OrderInv, UNCHANGED ring, decoded' = decoded, lastRead' = lastRead,
         \A i \in Places : content'[ReadyAt(i)] = content[ReadyAt(i)],
         \A s \in Slots : states'[s] = "Writing" /\ content'[s] # NoFrame =>
                            states[s] = "Writing" /\ content'[s] = content[s],
         \A s, t \in Slots : states'[s] = "Writing" /\ states'[t] = "Writing" => s = t
  PROVE  OrderInv'
  <1>1. Places' = Places /\ \A i : ReadyAt(i)' = ReadyAt(i)
    BY DEF ring, Places, ReadyAt
  <1>. QED BY <1>1 DEF OrderInv, InState

(* The producer's steps keep the order. *)
LEMMA ProducerKeepsOrder ==
  ASSUME CoreInv, OrderInv, ProducerStep, ~Stop(Producer)
  PROVE  OrderInv'
  <1>. USE PlacesAreReady
  <1>0. TypeOK /\ PayloadFollowsOwnership /\ RingType
    BY TypeOKGivesRingType DEF CoreInv
  <1>1. ASSUME NEW op \in Calls, WaitForSlot(op) \/ WriteRefused(op)
        PROVE  OrderInv'
    <2>1. UNCHANGED <<states, ring, content, history>>
      BY <1>1 DEF WaitForSlot, WriteRefused
    <2>. QED BY <2>1, OrderUntouched DEF history, OrderInv, InState
  <1>2. ASSUME NEW op \in Calls, TakeFreeSlot(op)
        PROVE  OrderInv'
    <2>1. PICK slot \in InState("Free") : states' = [states EXCEPT ![slot] = "Writing"]
      BY <1>2 DEF TakeFreeSlot
    <2>2. UNCHANGED <<ring, content, history>> /\ InState("Writing") = {}
      BY <1>2 DEF TakeFreeSlot
    <2>3. content[slot] = NoFrame
      BY <1>0 DEF PayloadFollowsOwnership, InState
    <2>4. \A s \in Slots : states'[s] = "Writing" => s = slot
      BY <1>0, <2>1, <2>2 DEF InState, TypeOK
    <2>. QED BY <2>2, <2>3, <2>4, OrderUntouched DEF history
  <1>3. CASE TakeOldestReady
    <2> DEFINE slot == readyRing[readPos]
    <2>1. /\ readyCount # 0 /\ slot \in Slots
          /\ states' = [states EXCEPT ![slot] = "Writing"]
          /\ content' = [content EXCEPT ![slot] = NoFrame]
          /\ InState("Writing") = {} /\ UNCHANGED history
      BY <1>0, <1>3 DEF TakeOldestReady, TypeOK
    <2>2. \A i \in Places' : i + 1 \in Places /\ ReadyAt(i)' = ReadyAt(i + 1)
      BY <1>0, <1>3, PopShifts DEF TakeOldestReady, Places
    <2>3. \A i \in Places' : ReadyAt(i + 1) # slot
      <3>. TAKE i \in Places'
      <3>1. 0 \in Places /\ i + 1 \in Places /\ i + 1 # 0
        BY <2>1, <2>2, <1>3 DEF Places, TakeOldestReady
      <3>2. ReadyAt(0) = slot
        BY <1>0, ReadyAtType
      <3>. QED BY <3>1, <3>2 DEF CoreInv, RingMatchesStates, Places
    <2>4. \A i \in Places' : content'[ReadyAt(i)'] = content[ReadyAt(i + 1)]
      BY <2>1, <2>2, <2>3, <1>0 DEF TypeOK
    <2>5. \A s \in Slots : states'[s] = "Writing" => s = slot
      BY <1>0, <2>1 DEF InState, TypeOK
    <2>6. content'[slot] = NoFrame
      BY <2>1, <1>0 DEF TypeOK
    <2>7. \A i, j \in Places' : i < j => content'[ReadyAt(i)'] < content'[ReadyAt(j)']
      <3>. SUFFICES ASSUME NEW i \in Places', NEW j \in Places', i < j
                    PROVE  content'[ReadyAt(i)'] < content'[ReadyAt(j)']
        OBVIOUS
      <3>1. i + 1 \in Places /\ j + 1 \in Places /\ i + 1 < j + 1
        BY <2>2 DEF Places
      <3>. QED BY <3>1, <2>4 DEF OrderInv
    <2>. QED BY <2>1, <2>2, <2>4, <2>5, <2>6, <2>7 DEF OrderInv, InState, history
  <1>4. ASSUME NEW slot \in Slots, DecodeInto(slot)
        PROVE  OrderInv'
    <2>1. /\ UNCHANGED <<states, ring, lastRead>> /\ states[slot] = "Writing"
          /\ decoded' = decoded + 1
          /\ content' = [content EXCEPT ![slot] = decoded + 1]
      BY <1>4 DEF DecodeInto
    <2>2. Places' = Places /\ \A i : ReadyAt(i)' = ReadyAt(i)
      BY <2>1 DEF ring, Places, ReadyAt
    <2>3. \A i \in Places : content'[ReadyAt(i)] = content[ReadyAt(i)]
      BY <2>1, <1>0 DEF TypeOK
    <2>4. \A s \in Slots : states[s] = "Writing" => s = slot
      BY <2>1 DEF OrderInv, InState
    <2>5. content'[slot] = decoded + 1
      BY <2>1, <1>0 DEF TypeOK
    <2>. QED BY <2>1, <2>2, <2>3, <2>4, <2>5 DEF OrderInv, InState
  <1>5. ASSUME NEW slot \in Slots, CommitWrite(slot)
        PROVE  OrderInv'
    <2>1. /\ states[slot] = "Writing" /\ content[slot] # NoFrame
          /\ readyCount' = readyCount + 1
          /\ states' = [states EXCEPT ![slot] = "Ready"]
          /\ UNCHANGED <<content, decoded, lastRead>>
      BY <1>5 DEF CommitWrite
    <2>2. /\ \A i \in Places : ReadyAt(i)' = ReadyAt(i)
          /\ \A i \in 0 .. N : i = readyCount => ReadyAt(i)' = slot
      BY <1>0, <1>5, CommitKeepsRing DEF CommitWrite, CoreInv, Places
    <2>3. \A i \in Places' : i \in Places \/ i = readyCount
      BY <2>1 DEF Places
    <2>4. content[slot] = decoded /\ \A i \in Places : content[ReadyAt(i)] < decoded
      BY <2>1 DEF OrderInv
    <2>5. \A s \in Slots : states'[s] # "Writing"
      BY <2>1, <1>0 DEF OrderInv, InState, TypeOK
    <2>6. \A i \in Places' : /\ lastRead < content[ReadyAt(i)']
                             /\ content[ReadyAt(i)'] <= decoded
      BY <2>1, <2>2, <2>3, <2>4 DEF OrderInv
    <2>7. \A i, j \in Places' : i < j => content[ReadyAt(i)'] < content[ReadyAt(j)']
      <3>. SUFFICES ASSUME NEW i \in Places', NEW j \in Places', i < j
                    PROVE  content[ReadyAt(i)'] < content[ReadyAt(j)']
        OBVIOUS
      <3>1. i \in Places
        BY <2>1, <2>3 DEF Places
      <3>2. CASE j \in Places
        BY <3>1, <3>2, <2>2 DEF OrderInv
      <3>3. CASE j = readyCount
        BY <3>1, <3>3, <2>2, <2>4
      <3>. QED BY <3>2, <3>3, <2>3
    <2>. QED BY <2>1, <2>5, <2>6, <2>7 DEF OrderInv, InState
  <1>6. ASSUME NEW slot \in Slots, CancelWrite(slot)
        PROVE  OrderInv'
    <2>1. /\ states[slot] = "Writing" /\ UNCHANGED <<ring, history>>
          /\ states' = [states EXCEPT ![slot] = "Free"]
          /\ content' = [content EXCEPT ![slot] = NoFrame]
      BY <1>6 DEF CancelWrite
    <2>2. \A i \in Places : content'[ReadyAt(i)] = content[ReadyAt(i)]
      BY <2>1, <1>0 DEF TypeOK
    <2>3. \A s \in Slots : states'[s] # "Writing"
      BY <2>1, <1>0 DEF OrderInv, InState, TypeOK
    <2>. QED BY <2>1, <2>2, <2>3, OrderUntouched DEF history
  <1>. QED BY <1>1, <1>2, <1>3, <1>4, <1>5, <1>6
         DEF ProducerStep, AcquireWrite, AcquireWriteLatest, Calls

(* A step that empties the window without touching the slot being written. *)
LEMMA OrderDrained ==
  ASSUME CoreInv, OrderInv, readyCount' = 0, decoded' = decoded,
         lastRead' = lastRead \/ \E i \in Places : lastRead' = content[ReadyAt(i)],
         \A s \in Slots : states'[s] = "Writing" =>
                            states[s] = "Writing" /\ content'[s] = content[s]
  PROVE  OrderInv'
  <1>. USE PlacesAreReady
  <1>1. Places' = {}
    BY DEF Places
  <1>2. lastRead' <= decoded
    BY DEF OrderInv
  <1>3. \A s \in Slots : states'[s] = "Writing" /\ content'[s] # NoFrame =>
                           content'[s] = decoded /\ lastRead' < decoded
    BY DEF OrderInv
  <1>. QED BY <1>1, <1>2, <1>3 DEF OrderInv, InState

(* Stopping drops the ready frames and so keeps the others in order. *)
LEMMA StopKeepsOrder ==
  ASSUME CoreInv, OrderInv, NEW t \in Threads, Stop(t)
  PROVE  OrderInv'
  <1>1. \A s \in Slots : states'[s] = "Writing" =>
                           states[s] = "Writing" /\ content'[s] = content[s]
    BY DEF Stop, DrainReady, Drained
  <1>. QED BY <1>1, OrderDrained DEF Stop, DrainReady

(* The consumer's steps keep the order. *)
LEMMA ConsumerKeepsOrder ==
  ASSUME CoreInv, OrderInv, ConsumerStep
  PROVE  OrderInv'
  <1>. USE PlacesAreReady
  <1>0. TypeOK /\ RingType
    BY TypeOKGivesRingType DEF CoreInv
  <1>1. CASE WaitForFrame \/ ReadRefused
    <2>1. UNCHANGED <<states, ring, content, history>>
      BY <1>1 DEF WaitForFrame, ReadRefused
    <2>. QED BY <2>1, OrderUntouched DEF history, OrderInv, InState
  <1>2. CASE TakeOldestFrame
    <2> DEFINE slot == readyRing[readPos]
    <2>1. /\ readyCount # 0 /\ slot \in Slots
          /\ states' = [states EXCEPT ![slot] = "Reading"]
          /\ lastRead' = content[slot] /\ UNCHANGED <<content, decoded>>
      BY <1>0, <1>2 DEF TakeOldestFrame, TypeOK
    <2>2. 0 \in Places /\ ReadyAt(0) = slot
      BY <2>1, <1>0, ReadyAtType DEF Places
    <2>3. \A i \in Places' : /\ i + 1 \in Places /\ 0 < i + 1
                             /\ ReadyAt(i)' = ReadyAt(i + 1)
      BY <1>0, <1>2, PopShifts DEF TakeOldestFrame, Places
    <2>4. lastRead' <= decoded
      BY <2>1, <2>2 DEF OrderInv
    <2>5. \A i \in Places' : /\ lastRead' < content[ReadyAt(i)']
                             /\ content[ReadyAt(i)'] <= decoded
      BY <2>1, <2>2, <2>3 DEF OrderInv
    <2>6. \A i, j \in Places' : i < j => content[ReadyAt(i)'] < content[ReadyAt(j)']
      <3>. SUFFICES ASSUME NEW i \in Places', NEW j \in Places', i < j
                    PROVE  content[ReadyAt(i)'] < content[ReadyAt(j)']
        OBVIOUS
      <3>1. i + 1 \in Places /\ j + 1 \in Places /\ i + 1 < j + 1
        BY <2>3 DEF Places
      <3>. QED BY <3>1, <2>3 DEF OrderInv
    <2>7. \A s \in Slots : states'[s] = "Writing" => states[s] = "Writing"
      BY <2>1, <1>0 DEF TypeOK
    <2>8. \A s \in Slots : states'[s] = "Writing" /\ content[s] # NoFrame =>
            /\ content[s] = decoded /\ lastRead' < decoded
            /\ \A i \in Places' : content[ReadyAt(i)'] < decoded
      BY <2>1, <2>2, <2>3, <2>7 DEF OrderInv
    <2>. QED BY <2>1, <2>4, <2>5, <2>6, <2>7, <2>8 DEF OrderInv, InState
  <1>3. CASE TryAcquireNewest
    <2>1. readyCount - 1 \in Places /\ lastRead' = content[ReadyAt(readyCount - 1)]
      BY <1>3 DEF TryAcquireNewest, Places
    <2>2. \A s \in Window : states[s] = "Ready"
      BY DEF CoreInv, RingMatchesStates, InState
    <2>3. \A s \in Slots : states'[s] = "Writing" =>
                             states[s] = "Writing" /\ content'[s] = content[s]
      BY <1>3, <2>2 DEF TryAcquireNewest
    <2>. QED BY <1>3, <2>1, <2>3, OrderDrained DEF TryAcquireNewest
  <1>4. ASSUME NEW slot \in Slots, ReleaseRead(slot)
        PROVE  OrderInv'
    <2>1. /\ states[slot] = "Reading" /\ UNCHANGED <<ring, history>>
          /\ states' = [states EXCEPT ![slot] = "Free"]
          /\ content' = [content EXCEPT ![slot] = NoFrame]
      BY <1>4 DEF ReleaseRead
    <2>2. \A i \in Places : content'[ReadyAt(i)] = content[ReadyAt(i)]
      BY <2>1, <1>0 DEF TypeOK
    <2>3. \A s \in Slots : states'[s] = "Writing" =>
                             states[s] = "Writing" /\ content'[s] = content[s]
      BY <2>1, <1>0 DEF TypeOK
    <2>4. \A s, t \in Slots : states'[s] = "Writing" /\ states'[t] = "Writing" => s = t
      BY <2>3 DEF OrderInv, InState
    <2>. QED BY <2>1, <2>2, <2>3, <2>4, OrderUntouched DEF history
  <1>5. CASE DiscardReady
    <2>1. \A s \in Slots : states'[s] = "Writing" =>
                             states[s] = "Writing" /\ content'[s] = content[s]
      BY <1>5 DEF DiscardReady, DrainReady, Drained
    <2>. QED BY <1>5, <2>1, OrderDrained DEF DiscardReady, DrainReady, history
  <1>6. ASSUME NEW t \in Threads, Stop(t)
        PROVE  OrderInv'
    BY <1>6, StopKeepsOrder
  <1>. QED BY <1>1, <1>2, <1>3, <1>4, <1>5, <1>6
         DEF ConsumerStep, AcquireReadPreserveOrder, Threads

(* Every step of either thread keeps the frames of the ring in order. *)
LEMMA OrderInvStep ==
  CoreInv /\ OrderInv /\ [Next]_vars => OrderInv'
  <1>. SUFFICES ASSUME CoreInv, OrderInv, [Next]_vars PROVE OrderInv'
    OBVIOUS
  <1>1. ASSUME UNCHANGED <<states, ring, content, history>> PROVE OrderInv'
    BY <1>1, OrderUntouched DEF history, OrderInv, InState
  <1>2. ASSUME NEW t \in Threads, NEW cv \in CondVars, Notify(t, cv)
        PROVE  OrderInv'
    BY <1>2, <1>1 DEF Notify
  <1>3. ASSUME NEW t \in Threads, SpuriousWakeup(t)
        PROVE  OrderInv'
    BY <1>3, <1>1 DEF SpuriousWakeup
  <1>4. CASE UNCHANGED vars
    BY <1>4, <1>1 DEF vars
  <1>5. CASE ProducerStep
    BY <1>5, ProducerKeepsOrder, StopKeepsOrder DEF Threads
  <1>. QED BY <1>2, <1>3, <1>4, <1>5, ConsumerKeepsOrder DEF Next

(* An empty ring is in order. *)
LEMMA OrderInvInit ==
  Init => OrderInv
  BY DEF Init, OrderInv, Places, InState

(* A step that gives the consumer a slot gives it the oldest or the newest *)
(* place of the window.                                                    *)
LEMMA ReadsFromWindow ==
  ASSUME CoreInv, [Next]_vars, NEW s \in Slots,
         states[s] # "Reading", states'[s] = "Reading"
  PROVE  \E i \in Places : s = ReadyAt(i)
  <1>. USE PlacesAreReady
  <1>0. TypeOK /\ RingType
    BY TypeOKGivesRingType DEF CoreInv
  <1>1. CASE TakeOldestFrame
    <2>1. 0 \in Places /\ ReadyAt(0) = readyRing[readPos]
      BY <1>0, <1>1, ReadyAtType DEF TakeOldestFrame, Places
    <2>2. s = readyRing[readPos]
      BY <1>0, <1>1 DEF TakeOldestFrame, TypeOK
    <2>. QED BY <2>1, <2>2
  <1>2. CASE TryAcquireNewest
    BY <1>2 DEF TryAcquireNewest, Places
  <1>3. CASE ProducerStep \/ (ConsumerStep /\ ~TakeOldestFrame /\ ~TryAcquireNewest)
    BY <1>0, <1>3 DEF ProducerStep, ConsumerStep, AcquireWrite, AcquireWriteLatest,
       AcquireReadPreserveOrder, WaitForSlot, WriteRefused, TakeFreeSlot, TakeOldestReady,
       DecodeInto, CommitWrite, CancelWrite, WaitForFrame, ReadRefused, ReleaseRead,
       DiscardReady, DrainReady, Stop, TypeOK
  <1>4. ASSUME NEW t \in Threads, NEW cv \in CondVars,
               Notify(t, cv) \/ SpuriousWakeup(t)
        PROVE  FALSE
    BY <1>4 DEF Notify, SpuriousWakeup
  <1>5. CASE UNCHANGED vars
    BY <1>5 DEF vars
  <1>. QED BY <1>1, <1>2, <1>3, <1>4, <1>5 DEF Next, CondVars

(* The consumer is handed frames in decode order, none of them twice.      *)
THEOREM FramesReadInOrder == Spec => ReadsInOrder
  <1>1. CoreInv /\ OrderInv /\ [Next]_vars
          => [\A s \in Slots : states[s] # "Reading" /\ states'[s] = "Reading"
                                 => content[s] > lastRead]_vars
    <2>. SUFFICES ASSUME CoreInv, OrderInv, [Next]_vars, NEW s \in Slots,
                         states[s] # "Reading", states'[s] = "Reading"
                  PROVE  content[s] > lastRead
      OBVIOUS
    <2>1. PICK i \in Places : s = ReadyAt(i)
      BY ReadsFromWindow
    <2>. QED BY <2>1, PlacesAreReady DEF OrderInv
  <1>2. Spec => []OrderInv
    BY CoreInvariant, OrderInvInit, OrderInvStep, PTL DEF Spec
  <1>. QED BY <1>1, <1>2, CoreInvariant, PTL DEF Spec, ReadsInOrder

-------------------------------------------------------------------------------
(* The refinement.  One slot at most is being written and one being read,  *)
(* so the channel's two sides are well defined.                            *)
ChannelInv ==
  /\ CoreInv
  /\ OrderInv
  /\ \A s, t \in InState("Reading") : s = t

(* What FrameQueue's state is as a channel's: the waiting frames.          *)
Waiting == [i \in 1 .. readyCount |-> content[ReadyAt(i - 1)]]

(* Nobody but acquireRead and tryAcquireNewest begins to read. *)
LEMMA ChannelInvStep ==
  ChannelInv /\ [Next]_vars => ChannelInv'
  <1>. SUFFICES ASSUME ChannelInv, [Next]_vars
                PROVE  \A s, t \in InState("Reading")' : s = t
    BY CoreInvStep, OrderInvStep DEF ChannelInv
  <1>0. TypeOK /\ \A s, t \in Slots : states[s] = "Reading" /\ states[t] = "Reading" => s = t
    BY DEF ChannelInv, CoreInv, InState
  <1>1. CASE \A s \in Slots : states'[s] = "Reading" => states[s] = "Reading"
    BY <1>0, <1>1 DEF InState
  <1>2. CASE TakeOldestFrame
    BY <1>0, <1>2 DEF TakeOldestFrame, InState, TypeOK
  <1>3. CASE TryAcquireNewest
    BY <1>0, <1>3 DEF TryAcquireNewest, InState
  <1>4. CASE ProducerStep \/ (ConsumerStep /\ ~TakeOldestFrame /\ ~TryAcquireNewest)
    BY <1>0, <1>1, <1>4 DEF ProducerStep, ConsumerStep, AcquireWrite, AcquireWriteLatest,
       AcquireReadPreserveOrder, WaitForSlot, WriteRefused, TakeFreeSlot, TakeOldestReady,
       DecodeInto, CommitWrite, CancelWrite, WaitForFrame, ReadRefused, ReleaseRead,
       DiscardReady, DrainReady, Stop, TypeOK
  <1>5. ASSUME NEW t \in Threads, NEW cv \in CondVars,
               Notify(t, cv) \/ SpuriousWakeup(t)
        PROVE  UNCHANGED states
    BY <1>5 DEF Notify, SpuriousWakeup
  <1>6. CASE UNCHANGED states
    BY <1>1, <1>6
  <1>. QED BY <1>2, <1>3, <1>4, <1>5, <1>6 DEF Next, CondVars, vars

(* A side that holds a slot holds its frame. *)
LEMMA HeldFrame ==
  ASSUME NEW state, NEW slot \in Slots
  PROVE  /\ states[slot] = state /\ (\A s \in Slots : states[s] = state => s = slot)
              => FrameHeld(state) = content[slot]
         /\ states'[slot] = state /\ (\A s \in Slots : states'[s] = state => s = slot)
              => FrameHeld(state)' = content'[slot]
         /\ (\A s \in Slots : states[s] # state) => FrameHeld(state) = Nothing
         /\ (\A s \in Slots : states'[s] # state) => FrameHeld(state)' = Nothing
  BY DEF FrameHeld, HeldIn, InState

(* A side that holds the slot it held before holds the frame it held.      *)
LEMMA HeldUntouched ==
  ASSUME NEW state,
         \A s \in Slots : states'[s] = state <=> states[s] = state,
         \A s \in Slots : states[s] = state => content'[s] = content[s]
  PROVE  FrameHeld(state)' = FrameHeld(state)
  <1>1. InState(state)' = InState(state)
    BY DEF InState
  <1>2. HeldIn(state)' = HeldIn(state)
    BY <1>1 DEF HeldIn, InState
  <1>3. CASE InState(state) = {}
    BY <1>1, <1>3 DEF FrameHeld
  <1>4. CASE InState(state) # {}
    <2>1. HeldIn(state) \in Slots /\ states[HeldIn(state)] = state
      BY <1>4 DEF HeldIn, InState
    <2>. QED BY <1>1, <1>2, <1>4, <2>1 DEF FrameHeld
  <1>. QED BY <1>3, <1>4

(* The waiting frames are a sequence, before a step and after it. *)
WaitingFacts ==
  /\ Waiting \in Seq(Nat) /\ Len(Waiting) = readyCount
  /\ \A i \in 1 .. readyCount : Waiting[i] = content[ReadyAt(i - 1)]
  /\ (Waiting = <<>>) <=> (readyCount = 0)

LEMMA WaitingType ==
  CoreInv => WaitingFacts
  <1>. SUFFICES ASSUME CoreInv PROVE WaitingFacts
    OBVIOUS
  <1>1. readyCount \in Nat /\ \A i \in 1 .. readyCount : content[ReadyAt(i - 1)] \in Nat
    BY PlacesAreReady DEF Places
  <1>. QED BY <1>1 DEF Waiting, WaitingFacts

LEMMA WaitingTypeAfter ==
  ASSUME CoreInv'
  PROVE  WaitingFacts'
  BY WaitingType, PTL

(* What a side of the channel holds: nothing, or the payload of the one    *)
(* slot in its state.                                                      *)
LEMMA SideType ==
  ASSUME ChannelInv, NEW state \in {"Writing", "Reading"}
  PROVE  /\ FrameHeld(state) = Nothing <=> InState(state) = {}
         /\ FrameHeld(state) \in Frames \union {NoFrame, Nothing}
         /\ IsFiniteSet(InState(state))
         /\ Cardinality(InState(state)) = IF FrameHeld(state) = Nothing THEN 0 ELSE 1
  <1>1. CASE InState(state) = {}
    BY <1>1, FS_EmptySet DEF FrameHeld
  <1>2. ASSUME NEW slot \in InState(state)
        PROVE  /\ InState(state) = {slot} /\ FrameHeld(state) = content[slot]
               /\ content[slot] \in Frames \union {NoFrame} /\ content[slot] # Nothing
    <2>1. \A s \in InState(state) : s = slot
      BY <1>2 DEF ChannelInv, OrderInv
    <2>2. FrameHeld(state) = content[slot]
      BY <1>2, <2>1, HeldFrame DEF InState
    <2>3. content[slot] \in Frames \union {NoFrame}
      BY <1>2 DEF ChannelInv, CoreInv, TypeOK, InState
    <2>. QED BY <1>2, <2>1, <2>2, <2>3, BoundAssumption DEF Frames, NoFrame, Nothing
  <1>. QED BY <1>1, <1>2, FS_Singleton

(* The channel's frames in use are the pool's slots that are not free.     *)
LEMMA InUseCountsSlots ==
  ASSUME ChannelInv
  PROVE  /\ Channel!InUse \in Nat /\ Channel!InUse <= N
         /\ Channel!InUse = N <=> InState("Free") = {}
  <1> DEFINE W == InState("Writing")
             R == InState("Reading")
             used == Window \union W \union R
             count(S) == Cardinality(S)
  <1>0. RingType /\ RingMatchesStates /\ N \in Nat /\ states \in [Slots -> SlotState]
    BY TypeOKGivesRingType, PoolAssumption DEF ChannelInv, CoreInv, TypeOK
  <1>1. IsFiniteSet(Window) /\ count(Window) = readyCount
    BY <1>0, WindowCardinality
  <1>2. Window = InState("Ready")
    BY <1>0 DEF RingMatchesStates
  <1>3. /\ IsFiniteSet(W) /\ count(W) = IF FrameHeld("Writing") = Nothing THEN 0 ELSE 1
        /\ IsFiniteSet(R) /\ count(R) = IF FrameHeld("Reading") = Nothing THEN 0 ELSE 1
    BY SideType
  <1>4. IsFiniteSet(Window \union W) /\ count(Window \union W) = readyCount + count(W)
    <2>1. Window \cap W = {}
      BY <1>2 DEF InState
    <2>2. count(Window \cap W) = 0
      BY <2>1, FS_EmptySet
    <2>3. /\ IsFiniteSet(Window \union W)
          /\ count(Window \union W) = count(Window) + count(W) - count(Window \cap W)
      BY <1>1, <1>3, FS_Union
    <2>. QED BY <1>0, <1>1, <1>3, <2>2, <2>3 DEF RingType
  <1>5. IsFiniteSet(used) /\ count(used) = readyCount + count(W) + count(R)
    <2>1. (Window \union W) \cap R = {}
      BY <1>2 DEF InState
    <2>2. count((Window \union W) \cap R) = 0
      BY <2>1, FS_EmptySet
    <2>3. /\ IsFiniteSet(used)
          /\ count(used) = count(Window \union W) + count(R) - count((Window \union W) \cap R)
      BY <1>4, <1>3, FS_Union
    <2>. QED BY <1>0, <1>3, <1>4, <2>2, <2>3 DEF RingType
  <1>6. IsFiniteSet(Slots) /\ count(Slots) = N
    BY FS_Interval, PoolAssumption DEF Slots
  <1>7. used \subseteq Slots /\ count(used) <= N /\ (count(used) = N => used = Slots)
    <2>1. used \subseteq Slots
      BY <1>2 DEF InState
    <2>. QED BY <1>6, <2>1, FS_Subset
  <1>8. used = Slots <=> InState("Free") = {}
    <2>1. \A s \in Slots : s \in used <=> states[s] # "Free"
      BY <1>0, <1>2 DEF InState, SlotState
    <2>. QED BY <1>7, <2>1 DEF InState
  <1>9. Channel!InUse = count(used)
    <2>1. Len(Waiting) = readyCount
      BY WaitingType DEF ChannelInv, WaitingFacts
    <2>2. Channel!InUse = Len(Waiting) + (IF FrameHeld("Writing") = Nothing THEN 0 ELSE 1)
                                       + (IF FrameHeld("Reading") = Nothing THEN 0 ELSE 1)
      BY DEF Channel!InUse, Waiting
    <2>. QED BY <1>3, <1>5, <2>1, <2>2
  <1>. QED BY <1>5, <1>6, <1>7, <1>8, <1>9, FS_CardinalityType

(* Popping the oldest slot is taking the tail of the waiting frames.       *)
LEMMA PopTakesTail ==
  ASSUME CoreInv, CoreInv', readyCount # 0,
         readyRing' = readyRing, readPos' = NextPos(readPos),
         readyCount' = readyCount - 1,
         \A s \in Slots : s # readyRing[readPos] => content'[s] = content[s]
  PROVE  /\ Waiting # <<>> /\ Waiting' = Tail(Waiting)
         /\ Head(Waiting) = content[readyRing[readPos]]
  <1>0. RingType /\ RingMatchesStates /\ readyCount \in Nat
    BY TypeOKGivesRingType, PoolAssumption DEF CoreInv, RingType
  <1>1. WaitingFacts /\ WaitingFacts' /\ Waiting # <<>>
    BY WaitingType, WaitingTypeAfter DEF WaitingFacts
  <1>2. ReadyAt(0) = readyRing[readPos]
    BY <1>0, ReadyAtType
  <1>3. Head(Waiting) = content[readyRing[readPos]]
    BY <1>0, <1>1, <1>2 DEF WaitingFacts
  <1>4. /\ Tail(Waiting) \in Seq(Nat) /\ Len(Tail(Waiting)) = readyCount - 1
        /\ \A i \in 1 .. readyCount - 1 : Tail(Waiting)[i] = Waiting[i + 1]
    BY <1>1, HeadTailProperties DEF WaitingFacts
  <1>5. \A i \in 1 .. readyCount - 1 : Waiting'[i] = Tail(Waiting)[i]
    <2>. TAKE i \in 1 .. readyCount - 1
    <2>1. /\ i \in 0 .. readyCount - 1 /\ i # 0 /\ 0 \in 0 .. readyCount - 1
          /\ i + 1 \in 1 .. readyCount /\ i - 1 \in 0 .. readyCount' - 1
          /\ i \in 1 .. readyCount' /\ (i - 1) + 1 = i /\ (i + 1) - 1 = i
      BY <1>0
    <2>2. ReadyAt(i - 1)' = ReadyAt(i)
      BY <1>0, <2>1, PopShifts
    <2>3. ReadyAt(i) \in Slots /\ ReadyAt(i) # readyRing[readPos]
      <3>1. i \in Places
        BY <2>1 DEF Places
      <3>2. ReadyAt(i) # ReadyAt(0)
        BY <1>0, <2>1 DEF RingMatchesStates
      <3>. QED BY <1>2, <3>1, <3>2, PlacesAreReady
    <2>4. Waiting'[i] = content'[ReadyAt(i)]
      BY <1>1, <2>1, <2>2 DEF WaitingFacts
    <2>5. Waiting[i + 1] = content[ReadyAt(i)]
      BY <1>1, <2>1 DEF WaitingFacts
    <2>. QED BY <1>4, <2>3, <2>4, <2>5
  <1>6. Waiting' = Tail(Waiting)
    BY <1>1, <1>4, <1>5, SeqEqual DEF WaitingFacts
  <1>. QED BY <1>1, <1>3, <1>6

(* The waiting frames stay what they are if the window's slots do.         *)
LEMMA WaitingUntouched ==
  ASSUME CoreInv, CoreInv', UNCHANGED ring,
         \A s \in Slots : states[s] = "Ready" => content'[s] = content[s]
  PROVE  Waiting' = Waiting
  <1>1. WaitingFacts /\ WaitingFacts'
    BY WaitingType, WaitingTypeAfter
  <1>2. \A i \in 1 .. readyCount : Waiting'[i] = Waiting[i]
    <2>. TAKE i \in 1 .. readyCount
    <2>1. i - 1 \in Places /\ i \in 1 .. readyCount'
      BY PlacesAreReady DEF Places, ring
    <2>2. ReadyAt(i - 1)' = ReadyAt(i - 1)
      BY DEF ReadyAt, ring
    <2>3. content'[ReadyAt(i - 1)] = content[ReadyAt(i - 1)]
      BY <2>1, PlacesAreReady
    <2>. QED BY <1>1, <2>1, <2>2, <2>3 DEF WaitingFacts
  <1>. QED BY <1>1, <1>2, SeqEqual DEF WaitingFacts, ring

(* A step of the producer is a step of the channel's writer, or is not     *)
(* visible to the channel.                                                 *)
LEMMA ProducerRefines ==
  ASSUME ChannelInv, ChannelInv', ProducerStep, ~Stop(Producer)
  PROVE  [Channel!ChannelNext]_Channel!chanVars
  <1>0. /\ TypeOK /\ CoreInv /\ CoreInv' /\ PayloadFollowsOwnership
        /\ RingMatchesStates /\ RingType
        /\ \A s, t \in Slots : states[s] = "Writing" /\ states[t] = "Writing" => s = t
    BY TypeOKGivesRingType DEF ChannelInv, CoreInv, OrderInv, InState
  <1>1. ASSUME NEW op \in Calls, WaitForSlot(op) \/ WriteRefused(op)
        PROVE  UNCHANGED Channel!chanVars
    <2>1. UNCHANGED <<states, ring, content, stopped>>
      BY <1>1 DEF WaitForSlot, WriteRefused
    <2>2. /\ Waiting' = Waiting /\ FrameHeld("Writing")' = FrameHeld("Writing")
          /\ FrameHeld("Reading")' = FrameHeld("Reading")
      BY <1>0, <2>1, WaitingUntouched, HeldUntouched
    <2>. QED BY <2>1, <2>2 DEF Channel!chanVars, Waiting
  <1>2. ASSUME NEW op \in Calls, TakeFreeSlot(op)
        PROVE  Channel!BeginWrite
    <2>1. PICK slot \in InState("Free") : states' = [states EXCEPT ![slot] = "Writing"]
      BY <1>2 DEF TakeFreeSlot
    <2>2. /\ UNCHANGED <<ring, content, stopped>> /\ ~stopped
          /\ InState("Writing") = {} /\ InState("Free") # {}
      BY <1>2 DEF TakeFreeSlot
    <2>3. FrameHeld("Writing") = Nothing
      BY <2>2 DEF FrameHeld
    <2>4. FrameHeld("Writing")' = NoFrame
      <3>1. states'[slot] = "Writing" /\ \A s \in Slots : states'[s] = "Writing" => s = slot
        BY <1>0, <2>1, <2>2 DEF InState, TypeOK
      <3>2. content'[slot] = NoFrame
        BY <1>0, <2>2 DEF PayloadFollowsOwnership, InState
      <3>. QED BY <3>1, <3>2, HeldFrame DEF InState
    <2>5. FrameHeld("Reading")' = FrameHeld("Reading")
      BY <1>0, <2>1, <2>2, HeldUntouched DEF TypeOK, InState
    <2>6. Waiting' = Waiting
      BY <1>0, <2>2, WaitingUntouched
    <2>7. Channel!InUse < N
      BY <2>2, InUseCountsSlots, PoolAssumption
    <2>. QED BY <2>2, <2>3, <2>4, <2>5, <2>6, <2>7 DEF Channel!BeginWrite, Waiting
  <1>3. ASSUME TakeOldestReady
        PROVE  Channel!RecycleOldest
    <2> DEFINE slot == readyRing[readPos]
    <2>1. /\ readyCount # 0 /\ slot \in Slots /\ ~stopped /\ stopped' = stopped
          /\ states' = [states EXCEPT ![slot] = "Writing"]
          /\ content' = [content EXCEPT ![slot] = NoFrame]
          /\ InState("Writing") = {} /\ InState("Free") = {}
      BY <1>0, <1>3 DEF TakeOldestReady, TypeOK
    <2>2. states[slot] = "Ready"
      BY <1>0, <1>3, PopKeepsRing DEF TakeOldestReady, SlotState
    <2>3. Waiting # <<>> /\ Waiting' = Tail(Waiting)
      BY <1>0, <1>3, <2>1, PopTakesTail DEF TakeOldestReady, TypeOK
    <2>4. FrameHeld("Writing") = Nothing
      BY <2>1 DEF FrameHeld
    <2>5. FrameHeld("Writing")' = NoFrame
      <3>1. states'[slot] = "Writing" /\ \A s \in Slots : states'[s] = "Writing" => s = slot
        BY <1>0, <2>1 DEF InState, TypeOK
      <3>2. content'[slot] = NoFrame
        BY <1>0, <2>1 DEF TypeOK
      <3>. QED BY <2>1, <3>1, <3>2, HeldFrame
    <2>6. FrameHeld("Reading")' = FrameHeld("Reading")
      BY <1>0, <2>1, <2>2, HeldUntouched DEF TypeOK
    <2>7. Channel!InUse = N
      BY <2>1, InUseCountsSlots
    <2>. QED BY <2>1, <2>3, <2>4, <2>5, <2>6, <2>7 DEF Channel!RecycleOldest, Waiting
  <1>4. ASSUME NEW slot \in Slots, DecodeInto(slot)
        PROVE  \E frame \in Frames : Channel!Write(frame)
    <2>1. /\ UNCHANGED <<states, ring, stopped>> /\ states[slot] = "Writing"
          /\ content[slot] = NoFrame /\ decoded + 1 \in Frames
          /\ content' = [content EXCEPT ![slot] = decoded + 1]
      BY <1>0, <1>4, BoundAssumption DEF DecodeInto, TypeOK, Frames
    <2>2. FrameHeld("Writing") = NoFrame
      BY <1>0, <2>1, HeldFrame
    <2>3. FrameHeld("Writing")' = decoded + 1
      <3>1. content'[slot] = decoded + 1
        BY <1>0, <2>1 DEF TypeOK
      <3>. QED BY <1>0, <2>1, <3>1, HeldFrame
    <2>4. FrameHeld("Reading")' = FrameHeld("Reading")
      BY <1>0, <2>1, HeldUntouched DEF TypeOK
    <2>5. Waiting' = Waiting
      BY <1>0, <2>1, WaitingUntouched DEF TypeOK
    <2>. QED BY <2>1, <2>2, <2>3, <2>4, <2>5 DEF Channel!Write, Waiting
  <1>5. ASSUME NEW slot \in Slots, CommitWrite(slot)
        PROVE  Channel!Commit
    <2>1. /\ states[slot] = "Writing" /\ content[slot] # NoFrame
          /\ readyCount' = readyCount + 1
          /\ states' = [states EXCEPT ![slot] = "Ready"]
          /\ UNCHANGED <<content, stopped>>
      BY <1>5 DEF CommitWrite
    <2>2. FrameHeld("Writing") = content[slot] /\ content[slot] \in Frames
      BY <1>0, <2>1, HeldFrame DEF TypeOK
    <2>3. FrameHeld("Writing")' = Nothing
      <3>1. \A s \in Slots : states'[s] # "Writing"
        BY <1>0, <2>1 DEF TypeOK
      <3>. QED BY <3>1, HeldFrame
    <2>4. FrameHeld("Reading")' = FrameHeld("Reading")
      BY <1>0, <2>1, HeldUntouched DEF TypeOK
    <2>5. Waiting' = Append(Waiting, content[slot])
      <3>1. WaitingFacts /\ WaitingFacts' /\ readyCount \in Nat /\ content[slot] \in Nat
        BY <1>0, WaitingType, WaitingTypeAfter, PlacesAreReady
      <3>2. /\ \A i \in 0 .. readyCount - 1 : ReadyAt(i)' = ReadyAt(i)
            /\ \A i \in 0 .. N : i = readyCount => ReadyAt(i)' = slot
        BY <1>0, <1>5, CommitKeepsRing DEF CommitWrite
      <3>3. /\ Append(Waiting, content[slot]) \in Seq(Nat)
            /\ Len(Append(Waiting, content[slot])) = readyCount + 1
            /\ \A i \in 1 .. readyCount : Append(Waiting, content[slot])[i] = Waiting[i]
            /\ Append(Waiting, content[slot])[readyCount + 1] = content[slot]
        BY <3>1, AppendProperties DEF WaitingFacts
      <3>4. ASSUME NEW i \in 1 .. readyCount + 1
            PROVE  Waiting'[i] = Append(Waiting, content[slot])[i]
        <4>1. Waiting'[i] = content[ReadyAt(i - 1)']
          BY <2>1, <3>1 DEF WaitingFacts
        <4>2. CASE i = readyCount + 1
          <5>1. ReadyAt(i - 1)' = slot
            BY <1>0, <3>1, <3>2, <4>2 DEF RingType
          <5>. QED BY <3>3, <4>1, <4>2, <5>1
        <4>3. CASE i # readyCount + 1
          <5>1. i \in 1 .. readyCount /\ i - 1 \in 0 .. readyCount - 1
            BY <3>1, <4>3
          <5>2. ReadyAt(i - 1)' = ReadyAt(i - 1) /\ Waiting[i] = content[ReadyAt(i - 1)]
            BY <3>1, <3>2, <5>1 DEF WaitingFacts
          <5>. QED BY <3>3, <4>1, <5>1, <5>2
        <4>. QED BY <4>2, <4>3
      <3>. QED BY <2>1, <3>1, <3>3, <3>4, SeqEqual DEF WaitingFacts
    <2>. QED BY <2>1, <2>2, <2>3, <2>4, <2>5 DEF Channel!Commit, Waiting
  <1>6. ASSUME NEW slot \in Slots, CancelWrite(slot)
        PROVE  Channel!Cancel
    <2>1. /\ states[slot] = "Writing" /\ UNCHANGED <<ring, stopped>>
          /\ states' = [states EXCEPT ![slot] = "Free"]
          /\ content' = [content EXCEPT ![slot] = NoFrame]
      BY <1>6 DEF CancelWrite
    <2>2. FrameHeld("Writing") # Nothing
      BY <2>1, SideType DEF InState
    <2>3. FrameHeld("Writing")' = Nothing
      <3>1. \A s \in Slots : states'[s] # "Writing"
        BY <1>0, <2>1 DEF TypeOK
      <3>. QED BY <3>1, HeldFrame
    <2>4. FrameHeld("Reading")' = FrameHeld("Reading")
      BY <1>0, <2>1, HeldUntouched DEF TypeOK
    <2>5. Waiting' = Waiting
      BY <1>0, <2>1, WaitingUntouched DEF TypeOK
    <2>. QED BY <2>1, <2>2, <2>3, <2>4, <2>5 DEF Channel!Cancel, Waiting
  <1>. QED BY <1>1, <1>2, <1>3, <1>4, <1>5, <1>6
         DEF ProducerStep, AcquireWrite, AcquireWriteLatest, Calls, Channel!ChannelNext

(* Draining the ring leaves both sides of the channel alone.               *)
LEMMA DrainRefines ==
  ASSUME ChannelInv, ChannelInv', DrainReady
  PROVE  /\ Waiting' = <<>>
         /\ FrameHeld("Writing")' = FrameHeld("Writing")
         /\ FrameHeld("Reading")' = FrameHeld("Reading")
  <1>1. Waiting' = <<>>
    BY WaitingTypeAfter DEF ChannelInv, WaitingFacts, DrainReady
  <1>2. /\ \A s \in Slots, state \in {"Writing", "Reading"} :
             states'[s] = state <=> states[s] = state
        /\ \A s \in Slots : states[s] # "Ready" => content'[s] = content[s]
    BY DEF DrainReady, Drained
  <1>. QED BY <1>1, <1>2, HeldUntouched

(* A step of the consumer is a step of the channel's reader, or is not     *)
(* visible to the channel.                                                 *)
LEMMA ConsumerRefines ==
  ASSUME ChannelInv, ChannelInv', ConsumerStep, ~Stop(Consumer)
  PROVE  [Channel!ChannelNext]_Channel!chanVars
  <1>0. /\ TypeOK /\ CoreInv /\ CoreInv' /\ RingMatchesStates /\ RingType
        /\ WaitingFacts /\ WaitingFacts'
        /\ \A s, t \in Slots : states[s] = "Reading" /\ states[t] = "Reading" => s = t
    BY TypeOKGivesRingType, WaitingType, WaitingTypeAfter DEF ChannelInv, CoreInv, InState
  <1>1. ASSUME WaitForFrame \/ ReadRefused
        PROVE  UNCHANGED Channel!chanVars
    <2>1. UNCHANGED <<states, ring, content, stopped>>
      BY <1>1 DEF WaitForFrame, ReadRefused
    <2>2. /\ Waiting' = Waiting /\ FrameHeld("Writing")' = FrameHeld("Writing")
          /\ FrameHeld("Reading")' = FrameHeld("Reading")
      BY <1>0, <2>1, WaitingUntouched, HeldUntouched
    <2>. QED BY <2>1, <2>2 DEF Channel!chanVars, Waiting
  <1>2. ASSUME TakeOldestFrame
        PROVE  Channel!ReadOldest
    <2> DEFINE slot == readyRing[readPos]
    <2>1. /\ readyCount # 0 /\ slot \in Slots /\ InState("Reading") = {}
          /\ states' = [states EXCEPT ![slot] = "Reading"]
          /\ UNCHANGED <<content, stopped>>
      BY <1>0, <1>2 DEF TakeOldestFrame, TypeOK
    <2>2. states[slot] = "Ready"
      BY <1>0, <1>2, PopKeepsRing DEF TakeOldestFrame, SlotState
    <2>3. Waiting # <<>> /\ Waiting' = Tail(Waiting) /\ Head(Waiting) = content[slot]
      BY <1>0, <1>2, <2>1, PopTakesTail DEF TakeOldestFrame
    <2>4. FrameHeld("Reading") = Nothing
      BY <2>1 DEF FrameHeld
    <2>5. FrameHeld("Reading")' = content[slot]
      <3>1. states'[slot] = "Reading" /\ \A s \in Slots : states'[s] = "Reading" => s = slot
        BY <1>0, <2>1 DEF InState, TypeOK
      <3>. QED BY <2>1, <3>1, HeldFrame
    <2>6. FrameHeld("Writing")' = FrameHeld("Writing")
      BY <1>0, <2>1, <2>2, HeldUntouched DEF TypeOK
    <2>. QED BY <2>1, <2>3, <2>4, <2>5, <2>6 DEF Channel!ReadOldest, Waiting
  <1>3. ASSUME TryAcquireNewest
        PROVE  Channel!ReadNewest
    <2> DEFINE newest == ReadyAt(readyCount - 1)
    <2>1. /\ readyCount # 0 /\ readyCount' = 0 /\ InState("Reading") = {}
          /\ readyCount \in Nat /\ readyCount - 1 \in Places
          /\ stopped' = stopped
      BY <1>3, PlacesAreReady, <1>0 DEF TryAcquireNewest, Places
    <2>2. newest \in Slots /\ states[newest] = "Ready"
      BY <1>0, <2>1, PlacesAreReady
    <2>3. /\ states'[newest] = "Reading" /\ content'[newest] = content[newest]
          /\ \A s \in Slots \ {newest} : states'[s] # "Reading"
      BY <1>3, <2>1, <2>2 DEF TryAcquireNewest, InState
    <2>4. \A s \in Slots : /\ states'[s] = "Writing" <=> states[s] = "Writing"
                           /\ states[s] = "Writing" => content'[s] = content[s]
      <3>1. \A s \in Slots : s \in Window <=> states[s] = "Ready"
        BY <1>0 DEF RingMatchesStates, InState
      <3>. QED BY <1>3, <2>2, <3>1 DEF TryAcquireNewest
    <2>5. FrameHeld("Writing")' = FrameHeld("Writing")
      BY <2>4, HeldUntouched
    <2>6. FrameHeld("Reading") = Nothing
      BY <2>1 DEF FrameHeld
    <2>7. FrameHeld("Reading")' = content[newest]
      BY <2>2, <2>3, HeldFrame
    <2>8. /\ Waiting # <<>> /\ Waiting' = <<>>
          /\ Waiting[Len(Waiting)] = content[newest]
      BY <1>0, <2>1 DEF WaitingFacts
    <2>. QED BY <2>1, <2>5, <2>6, <2>7, <2>8 DEF Channel!ReadNewest, Waiting
  <1>4. ASSUME NEW slot \in Slots, ReleaseRead(slot)
        PROVE  Channel!Release
    <2>1. /\ states[slot] = "Reading" /\ UNCHANGED <<ring, stopped>>
          /\ states' = [states EXCEPT ![slot] = "Free"]
          /\ content' = [content EXCEPT ![slot] = NoFrame]
      BY <1>4 DEF ReleaseRead
    <2>2. FrameHeld("Reading") # Nothing
      BY <2>1, SideType DEF InState
    <2>3. FrameHeld("Reading")' = Nothing
      <3>1. \A s \in Slots : states'[s] # "Reading"
        BY <1>0, <2>1 DEF TypeOK
      <3>. QED BY <3>1, HeldFrame
    <2>4. FrameHeld("Writing")' = FrameHeld("Writing")
      BY <1>0, <2>1, HeldUntouched DEF TypeOK
    <2>5. Waiting' = Waiting
      BY <1>0, <2>1, WaitingUntouched DEF TypeOK
    <2>. QED BY <2>1, <2>2, <2>3, <2>4, <2>5 DEF Channel!Release, Waiting
  <1>5. ASSUME DiscardReady
        PROVE  Channel!Discard
    <2>1. DrainReady /\ stopped' = stopped
      BY <1>5 DEF DiscardReady
    <2>. QED BY <2>1, DrainRefines DEF Channel!Discard, Waiting
  <1>. QED BY <1>1, <1>2, <1>3, <1>4, <1>5
         DEF ConsumerStep, AcquireReadPreserveOrder, Channel!ChannelNext

(* Every step of the two threads is one of the channel, or is not visible. *)
LEMMA StepRefines ==
  ASSUME ChannelInv, ChannelInv', [Next]_vars
  PROVE  [Channel!ChannelNext]_Channel!chanVars
  <1>1. ASSUME UNCHANGED <<states, ring, content, stopped>>
        PROVE  UNCHANGED Channel!chanVars
    <2>1. /\ Waiting' = Waiting /\ FrameHeld("Writing")' = FrameHeld("Writing")
          /\ FrameHeld("Reading")' = FrameHeld("Reading")
      BY <1>1, WaitingUntouched, HeldUntouched DEF ChannelInv
    <2>. QED BY <1>1, <2>1 DEF Channel!chanVars, Waiting
  <1>2. ASSUME NEW t \in Threads, Stop(t)
        PROVE  Channel!Close
    <2>1. DrainReady /\ stopped' = TRUE
      BY <1>2 DEF Stop
    <2>. QED BY <2>1, DrainRefines DEF Channel!Close, Waiting
  <1>3. ASSUME NEW t \in Threads, NEW cv \in CondVars, Notify(t, cv) \/ SpuriousWakeup(t)
        PROVE  UNCHANGED Channel!chanVars
    BY <1>1, <1>3 DEF Notify, SpuriousWakeup
  <1>4. CASE UNCHANGED vars
    BY <1>1, <1>4 DEF vars
  <1>5. CASE ProducerStep
    BY <1>2, <1>5, ProducerRefines DEF Threads, Channel!ChannelNext
  <1>6. CASE ConsumerStep
    BY <1>2, <1>6, ConsumerRefines DEF Threads, Channel!ChannelNext
  <1>. QED BY <1>3, <1>4, <1>5, <1>6 DEF Next, CondVars

(* The queue implements its channel: whatever the two threads do, slots,   *)
(* ring, wake-ups and their interleavings give them a bounded channel that *)
(* keeps the order of the frames and skips only where the channel may.     *)
THEOREM QueueImplementsChannel == Spec => ImplementsChannel
  <1>1. Init => Channel!ChannelInit
    <2>. SUFFICES ASSUME Init PROVE Channel!ChannelInit
      OBVIOUS
    <2>1. InState("Writing") = {} /\ InState("Reading") = {}
      BY DEF Init, InState
    <2>2. WaitingFacts /\ readyCount = 0 /\ stopped = FALSE
      BY CoreInvInit, WaitingType DEF Init
    <2>. QED BY <2>1, <2>2 DEF Channel!ChannelInit, FrameHeld, WaitingFacts, Waiting
  <1>2. Init => ChannelInv
    BY CoreInvInit, OrderInvInit DEF ChannelInv, Init, InState
  <1>3. ChannelInv /\ ChannelInv' /\ [Next]_vars => [Channel!ChannelNext]_Channel!chanVars
    BY StepRefines
  <1>. QED BY <1>1, <1>2, <1>3, ChannelInvStep, PTL
         DEF Spec, ImplementsChannel, Channel!ChannelSpec
===============================================================================
