----------------------------- MODULE InteropProofs -----------------------------
(***************************************************************************)
(* Theorems about InteropLeases, for every number of slots, flights,       *)
(* pictures and rings: the ring in use is large enough, and what the GPU   *)
(* samples is stable.  Then about TextureImports: it implements            *)
(* InteropLeases, no import is destroyed under a submission, and no        *)
(* texture is imported twice.                                              *)
(***************************************************************************)
EXTENDS TextureImports, FiniteSetTheorems, TLAPS

-------------------------------------------------------------------------------
(* The inductive invariant. *)

(* Where each thread is tells what it holds. *)
ControlInv ==
  /\ decoderPc \in {"acquire", "end", "done"} => writer = None
  /\ decoderPc \in {"read", "scan"} => writer = Empty
  /\ decoderPc = "commit" => writer \in Lease
  /\ decoderPc # "scan" => attempt = 0
  /\ decoderPc = "scan" => generation \in 1 .. MaxRings /\ issued < MaxPictures
  /\ renderPc \in {"loop", "prepare", "submit"} => reader = None
  /\ renderPc \in {"copy", "release"} => reader \in Lease
  /\ renderPc \in {"prepare", "submit"} => displayed \in Lease /\ sampled[current] = None
  /\ renderPc = "submit" => externalFrame[current] \in Lease
  /\ renderPc \in {"idle", "done"} => decoderPc = "done"
  /\ renderPc = "done" => Held = {} /\ \A f \in Flight : sampled[f] = None

(* The queue holds no more slots than the pool has. *)
CapacityInv == Queue!InUse <= Slots

(* A flight keeps the lease its submission samples. *)
FlightInv == \A f \in Flight : sampled[f] # None => sampled[f] = externalFrame[f]

(* A texture has at most one lease, of a picture that was split. *)
LeaseInv ==
  /\ \A lease \in Held : lease.ready <= issued
  /\ \A lease, other \in Held : lease.texture = other.texture => lease = other

(* The splits D3D11 has to execute, oldest first. *)
CopiesInv ==
  /\ signalled <= issued
  /\ \A i \in DOMAIN copies : signalled < copies[i].ready /\ copies[i].ready <= issued
  /\ \A i, j \in DOMAIN copies : i < j => copies[i].ready < copies[j].ready

(* What a lease promises: no younger picture is on its way to its texture, *)
(* and its own is there once its value is signalled, and on its way before.*)
Settled(lease) ==
  /\ \A i \in DOMAIN copies :
       copies[i].texture = lease.texture => copies[i].ready <= lease.ready
  /\ signalled >= lease.ready => content[lease.texture] = lease.ready
  /\ signalled < lease.ready =>
       \E i \in DOMAIN copies : /\ copies[i].texture = lease.texture
                                /\ copies[i].ready = lease.ready
                                /\ copies[i].signals

SettledInv == \A lease \in Held : Settled(lease)

(* While acquire scans the ring, a free texture is still ahead of it. *)
ScanInv ==
  attempt > 0 =>
    \E k \in attempt .. RingSize - 1 : <<generation, (next + k) % RingSize>> \notin InUse

InteropInv ==
  /\ TypeOK /\ ControlInv /\ CapacityInv /\ FlightInv /\ LeaseInv
  /\ CopiesInv /\ SettledInv /\ ScanInv

-------------------------------------------------------------------------------
(* The ring. *)

(* The remainder of a number below twice the size of the ring. *)
LEMMA RingRemainder ==
  ASSUME NEW x \in Nat, x < 2 * RingSize
  PROVE  x % RingSize = IF x < RingSize THEN x ELSE x - RingSize
  BY SizesAssumption DEF RingSize

(* A place of the ring plus an offset is a place of the ring. *)
LEMMA RingPlace ==
  ASSUME NEW p \in Place, NEW k \in 0 .. RingSize
  PROVE  (p + k) % RingSize \in Place
  BY SizesAssumption, RingRemainder DEF RingSize, Place

(* Every place is at some offset from every other. *)
LEMMA RingOffset ==
  ASSUME NEW p \in Place, NEW t \in Place
  PROVE  \E k \in 0 .. RingSize - 1 : (p + k) % RingSize = t
  <1>. RingSize \in Nat \ {0}
    BY SizesAssumption DEF RingSize
  <1>1. CASE t >= p
    <2>1. t - p \in 0 .. RingSize - 1 /\ p + (t - p) = t
      BY <1>1 DEF Place
    <2>2. t % RingSize = t
      BY RingRemainder DEF Place
    <2>. QED BY <2>1, <2>2
  <1>2. CASE t < p
    <2>1. t + RingSize - p \in 0 .. RingSize - 1 /\ p + (t + RingSize - p) = t + RingSize
      BY <1>2 DEF Place
    <2>2. (t + RingSize) % RingSize = t
      BY RingRemainder DEF Place
    <2>. QED BY <2>1, <2>2
  <1>. QED BY <1>1, <1>2 DEF Place

(* There are n numbers from 1 to n: the positions of a queue of n. *)
LEMMA OneUpTo ==
  ASSUME NEW n \in Nat
  PROVE  IsFiniteSet(1 .. n) /\ Cardinality(1 .. n) = n
  <1>1. 1 \in Int /\ n \in Int
    OBVIOUS
  <1>2. IsFiniteSet(1 .. n) /\ Cardinality(1 .. n) = IF 1 > n THEN 0 ELSE n - 1 + 1
    BY <1>1, FS_Interval
  <1>. QED BY <1>2

(* The same from zero: the indices of an array of n. *)
LEMMA ZeroUpTo ==
  ASSUME NEW n \in Nat \ {0}
  PROVE  IsFiniteSet(0 .. n - 1) /\ Cardinality(0 .. n - 1) = n
  <1>1. 0 \in Int /\ n - 1 \in Int
    OBVIOUS
  <1>2. /\ IsFiniteSet(0 .. n - 1)
        /\ Cardinality(0 .. n - 1) = IF 0 > n - 1 THEN 0 ELSE (n - 1) - 0 + 1
    BY <1>1, FS_Interval
  <1>. QED BY <1>2

(* A union is no larger than its parts together. *)
LEMMA UnionBound ==
  ASSUME NEW S, NEW T, IsFiniteSet(S), IsFiniteSet(T), NEW m \in Nat, NEW n \in Nat,
         Cardinality(S) <= m, Cardinality(T) <= n
  PROVE  IsFiniteSet(S \union T) /\ Cardinality(S \union T) <= m + n
  <1>1. IsFiniteSet(S \cap T) /\ Cardinality(S \cap T) \in Nat
    BY FS_Intersection, FS_CardinalityType
  <1>2. Cardinality(S) \in Nat /\ Cardinality(T) \in Nat
    BY FS_CardinalityType
  <1>3. Cardinality(S \union T) = Cardinality(S) + Cardinality(T) - Cardinality(S \cap T)
    BY FS_Union
  <1>. QED BY <1>1, <1>2, <1>3, FS_Union

(* A slot, the display slot and the flights keep fewer textures in use     *)
(* than a ring has, as long as the writer's slot is empty.                 *)
LEMMA FreeTextureExists ==
  ASSUME TypeOK, CapacityInv, writer = Empty
  PROVE  \E p \in Place : <<generation, p>> \notin InUse
  <1> DEFINE W == {waiting[i] : i \in DOMAIN waiting}
             X == {externalFrame[f] : f \in Flight}
             R == IF reader = None THEN {} ELSE {reader}
             H == ((W \union R) \union {displayed}) \union X
             r == IF reader = None THEN 0 ELSE 1
  <1>1. IsFiniteSet(W) /\ Cardinality(W) <= Len(waiting)
    <2>1. DOMAIN waiting = 1 .. Len(waiting) /\ Len(waiting) \in Nat
      BY DEF TypeOK
    <2>2. IsFiniteSet(1 .. Len(waiting)) /\ Cardinality(1 .. Len(waiting)) = Len(waiting)
      BY <2>1, OneUpTo
    <2>3. waiting \in Surjection(DOMAIN waiting, W)
      BY <2>1 DEF Surjection, TypeOK
    <2>. QED BY <2>1, <2>2, <2>3, FS_Surjection
  <1>2. IsFiniteSet(X) /\ Cardinality(X) <= Flights
    <2>1. IsFiniteSet(Flight) /\ Cardinality(Flight) = Flights
      BY ZeroUpTo, SizesAssumption DEF Flight
    <2>2. externalFrame \in Surjection(Flight, X)
      BY DEF Surjection, TypeOK
    <2>. QED BY <2>1, <2>2, FS_Surjection
  <1>3. IsFiniteSet(R) /\ Cardinality(R) = r
    BY FS_EmptySet, FS_Singleton
  <1>4. IsFiniteSet({displayed}) /\ Cardinality({displayed}) = 1
    BY FS_Singleton
  <1>5. Len(waiting) \in Nat /\ r \in Nat /\ Flights \in Nat
    BY SizesAssumption DEF TypeOK
  <1>6. IsFiniteSet(W \union R) /\ Cardinality(W \union R) <= Len(waiting) + r
    <2>1. Cardinality(R) <= r
      BY <1>3, <1>5
    <2> HIDE DEF W, R, r
    <2>. QED BY <1>1, <1>3, <1>5, <2>1, UnionBound
  <1>7. IsFiniteSet(H) /\ Cardinality(H) <= Len(waiting) + r + 1 + Flights
    <2>1. /\ IsFiniteSet((W \union R) \union {displayed})
          /\ Cardinality((W \union R) \union {displayed}) <= (Len(waiting) + r) + 1
      <3>1. Len(waiting) + r \in Nat /\ Cardinality({displayed}) <= 1
        BY <1>4, <1>5
      <3>. QED BY <1>4, <1>6, <3>1, UnionBound
    <2>2. (Len(waiting) + r) + 1 \in Nat
      BY <1>5
    <2>. QED BY <1>2, <1>5, <2>1, <2>2, UnionBound
  <1>8. Held \subseteq H
    BY DEF Held
  <1>9. IsFiniteSet(Held) /\ Cardinality(Held) <= Len(waiting) + r + 1 + Flights
    <2>1. IsFiniteSet(Held) /\ Cardinality(Held) <= Cardinality(H)
      BY <1>7, <1>8, FS_Subset
    <2>2. Cardinality(Held) \in Nat /\ Cardinality(H) \in Nat
      BY <2>1, <1>7, FS_CardinalityType
    <2>. QED BY <2>1, <2>2, <1>7, SizesAssumption DEF TypeOK
  <1>10. Len(waiting) + r <= Slots - 1
    <2>1. writer # None
      BY SizesAssumption
    <2>2. Len(waiting) + 1 + r <= Slots
      BY <2>1 DEF CapacityInv, Queue!InUse
    <2>3. Slots \in Nat
      BY SizesAssumption
    <2>. QED BY <1>5, <2>2, <2>3
  <1> DEFINE P == {lease.texture[2] : lease \in Held}
  <1>11. IsFiniteSet(P) /\ Cardinality(P) <= Cardinality(Held)
    <2> DEFINE g == [lease \in Held |-> lease.texture[2]]
    <2>1. g \in Surjection(Held, P)
      BY DEF Surjection
    <2>. QED BY <2>1, <1>9, FS_Surjection
  <1>12. IsFiniteSet(Place) /\ Cardinality(Place) = RingSize
    <2>1. RingSize \in Nat \ {0}
      BY SizesAssumption DEF RingSize
    <2>. QED BY <2>1, ZeroUpTo DEF Place
  <1>13. Cardinality(P) < RingSize
    <2>1. Cardinality(Held) \in Nat /\ Cardinality(P) \in Nat /\ Len(waiting) \in Nat
      BY <1>9, <1>11, FS_CardinalityType DEF TypeOK
    <2>. QED BY <1>9, <1>10, <1>11, <2>1, SizesAssumption DEF RingSize
  <1>14. ~ (Place \subseteq P)
    <2>1. SUFFICES ASSUME Place \subseteq P PROVE FALSE
      OBVIOUS
    <2>2. Cardinality(Place) <= Cardinality(P)
      BY <1>11, <2>1, FS_Subset
    <2>3. Cardinality(P) \in Nat /\ RingSize \in Nat
      BY <1>11, FS_CardinalityType, SizesAssumption DEF RingSize
    <2>. QED BY <1>12, <1>13, <2>2, <2>3
  <1>15. \A p \in Place : <<generation, p>> \in InUse => p \in P
    <2>1. SUFFICES ASSUME NEW p \in Place, NEW lease \in Held,
                          lease.texture = <<generation, p>>
                   PROVE  p = lease.texture[2]
      BY DEF InUse
    <2>. QED BY <2>1
  <1>. QED BY <1>14, <1>15

-------------------------------------------------------------------------------
(* A step preserves each part of the invariant. *)

(* What the sequences of the model are made of after a step on them. *)
LEMMA SequenceSteps ==
  ASSUME NEW S, NEW q \in Seq(S)
  PROVE  /\ \A x \in S : Append(q, x) \in Seq(S)
         /\ q # <<>> => /\ Tail(q) \in Seq(S) /\ Head(q) \in S /\ q[Len(q)] \in S
                       /\ Len(q) \in Nat \ {0}
  OBVIOUS

(* The texture acquire takes makes a lease of the next picture. *)
LEMMA NewLease ==
  ASSUME TypeOK, ControlInv, TakeTexture
  PROVE  /\ Candidate \in Texture
         /\ next' \in Place /\ attempt' \in 0 .. RingSize /\ generation' = generation
         /\ issued + 1 \in 1 .. MaxPictures
         /\ [texture |-> Candidate, ready |-> issued + 1] \in Lease
  <1>1. (next + attempt) % RingSize \in Place
    BY RingPlace DEF TypeOK
  <1>2. Candidate \in Texture /\ Candidate[2] \in Place
    BY <1>1 DEF TypeOK, Candidate, TakeTexture, ControlInv, Texture
  <1>3. next' \in Place /\ attempt' \in 0 .. RingSize /\ generation' = generation
    BY RingPlace, <1>2, SizesAssumption DEF TakeTexture, RingSize
  <1>4. issued + 1 \in 1 .. MaxPictures
    BY SizesAssumption DEF TakeTexture, TypeOK, ControlInv
  <1>. QED BY <1>2, <1>3, <1>4 DEF Lease

(* The types of the variables. *)
LEMMA TypeStep ==
  ASSUME TypeOK, ControlInv, [Next]_vars
  PROVE  TypeOK'
  <1>. USE SizesAssumption
  <1>1. CASE AcquireWrite
    <2>1. CASE Queue!BeginWrite
      BY <1>1, <2>1 DEF AcquireWrite, Queue!BeginWrite, TypeOK, scan, d3d11, rendering
    <2>2. CASE Queue!RecycleOldest
      <3>1. waiting' \in Seq(Lease)
        BY <2>2, SequenceSteps DEF Queue!RecycleOldest, TypeOK
      <3>. QED BY <1>1, <2>2, <3>1 DEF AcquireWrite, Queue!RecycleOldest, TypeOK, scan,
           d3d11, rendering
    <2>. QED BY <1>1, <2>1, <2>2 DEF AcquireWrite
  <1>2. CASE AcquireRefused
    BY <1>2 DEF AcquireRefused, TypeOK, vars, queue, d3d11, decoding, scan, rendering
  <1>c. CASE ChooseRing
    <2>1. next' \in Place /\ generation' \in 0 .. MaxRings
      BY <1>c DEF ChooseRing, TypeOK, Place, RingSize
    <2>. QED BY <1>c, <2>1 DEF ChooseRing, TypeOK, queue, d3d11, rendering
  <1>3. CASE SkipTexture
    BY <1>3 DEF SkipTexture, TypeOK, vars, queue, d3d11, decoding, scan, rendering, RingSize
  <1>4. CASE CopyDecodedFrame
    <2>1. TakeTexture /\ Split(Candidate, TRUE)
      BY <1>4 DEF CopyDecodedFrame
    <2>2. [texture |-> Candidate, ready |-> issued + 1, signals |-> TRUE] \in Copy
      BY <2>1, NewLease DEF Copy
    <2>3. copies' \in Seq(Copy)
      BY <2>1, <2>2, SequenceSteps DEF Split, TypeOK
    <2>. QED BY <1>4, <2>1, <2>3, NewLease DEF CopyDecodedFrame, Split, Queue!Write,
         TypeOK, rendering
  <1>5. CASE SignalFails
    <2>1. TakeTexture /\ Split(Candidate, FALSE)
      BY <1>5 DEF SignalFails
    <2>2. [texture |-> Candidate, ready |-> issued + 1, signals |-> FALSE] \in Copy
      BY <2>1, NewLease DEF Copy
    <2>3. copies' \in Seq(Copy)
      BY <2>1, <2>2, SequenceSteps DEF Split, TypeOK
    <2>. QED BY <1>5, <2>1, <2>3, NewLease DEF SignalFails, Split, Queue!Cancel, TypeOK,
         rendering
  <1>6. CASE CommitWrite
    BY <1>6 DEF CommitWrite, Queue!Commit, TypeOK, vars, queue, d3d11, decoding, scan, rendering
  <1>7. CASE CancelWrite
    BY <1>7 DEF CancelWrite, Queue!Cancel, TypeOK, vars, queue, d3d11, decoding, scan, rendering
  <1>8. CASE EndOfInput
    BY <1>8 DEF EndOfInput, Queue!Cancel, TypeOK, vars, queue, d3d11, decoding, scan, rendering
  <1>9. CASE StopAtEnd
    BY <1>9 DEF StopAtEnd, Queue!Close, TypeOK, vars, queue, d3d11, decoding, scan, rendering
  <1>10. CASE D3D11Executes
    <2>1. Head(copies) \in Copy /\ Tail(copies) \in Seq(Copy)
      BY <1>10, SequenceSteps DEF D3D11Executes, TypeOK
    <2>2. Head(copies).texture \in Texture /\ Head(copies).ready \in 0 .. MaxPictures
      BY <2>1 DEF Copy
    <2>. QED BY <1>10, <2>1, <2>2 DEF D3D11Executes, TypeOK, queue, decoding, scan, rendering
  <1>11. ASSUME NEW f \in Flight, VulkanFinishes(f) PROVE TypeOK'
    BY <1>11 DEF VulkanFinishes, TypeOK, vars, queue, d3d11, decoding, scan, rendering
  <1>12. CASE AcquireRead
    <2>1. waiting # <<>>
      BY <1>12 DEF AcquireRead, Queue!ReadNewest, Queue!ReadOldest
    <2>2. /\ Tail(waiting) \in Seq(Lease) /\ Head(waiting) \in Lease
          /\ waiting[Len(waiting)] \in Lease
      BY <2>1, SequenceSteps DEF TypeOK
    <2>3. waiting' \in Seq(Lease) /\ reader' \in Lease /\ UNCHANGED <<writer, closed>>
      <3>1. CASE live
        BY <1>12, <2>2, <3>1 DEF AcquireRead, Queue!ReadNewest
      <3>2. CASE ~live
        BY <1>12, <2>2, <3>2 DEF AcquireRead, Queue!ReadOldest
      <3>. QED BY <3>1, <3>2
    <2>. QED BY <1>12, <2>3 DEF AcquireRead, TypeOK, decoding, scan, d3d11
  <1>13. CASE CopyOwnedFrame
    BY <1>13 DEF CopyOwnedFrame, TypeOK, vars, queue, d3d11, decoding, scan, rendering
  <1>14. CASE ReleaseRead
    BY <1>14 DEF ReleaseRead, Queue!Release, TypeOK, vars, queue, d3d11, decoding, scan,
         rendering
  <1>15. CASE Home
    BY <1>15 DEF Home, Queue!Discard, TypeOK, vars, queue, d3d11, decoding, scan, rendering
  <1>16. CASE AcquireFrame
    BY <1>16 DEF AcquireFrame, TypeOK, vars, queue, d3d11, decoding, scan, rendering
  <1>17. CASE PrepareFrame
    BY <1>17 DEF PrepareFrame, TypeOK, vars, queue, d3d11, decoding, scan, rendering
  <1>18. CASE SubmitAndPresent
    <2>1. current' \in Flight
      BY <1>18 DEF SubmitAndPresent, Flight, TypeOK
    <2>. QED BY <1>18, <2>1 DEF SubmitAndPresent, TypeOK, queue, decoding, scan, d3d11
  <1>19. CASE LeaveLoop
    BY <1>19 DEF LeaveLoop, Queue!Close, TypeOK, vars, queue, d3d11, decoding, scan, rendering
  <1>20. CASE JoinDecoder
    BY <1>20 DEF JoinDecoder, TypeOK, vars, queue, d3d11, decoding, scan, rendering
  <1>21. CASE ReleaseFrames
    BY <1>21 DEF ReleaseFrames, TypeOK, vars, queue, d3d11, decoding, scan, rendering
  <1>22. CASE UNCHANGED vars
    BY <1>22 DEF TypeOK, vars, queue, d3d11, decoding, scan, rendering
  <1>. QED BY <1>c, <1>1, <1>2, <1>3, <1>4, <1>5, <1>6, <1>7, <1>8, <1>9, <1>10,
           <1>11, <1>12, <1>13, <1>14, <1>15, <1>16, <1>17, <1>18, <1>19,
           <1>20, <1>21, <1>22 DEF Next,
           DecoderStep, GpuStep, LoopStep, Finished

(* Where the members of a sequence are after a step on it. *)
LEMMA SequenceMembers ==
  ASSUME NEW S, NEW q \in Seq(S)
  PROVE  /\ q # <<>> => \A i \in DOMAIN Tail(q) :
                          i + 1 \in DOMAIN q /\ Tail(q)[i] = q[i + 1]
         /\ q # <<>> => /\ 1 \in DOMAIN q /\ Head(q) = q[1]
                       /\ Len(q) \in DOMAIN q
         /\ \A x \in S : \A i \in DOMAIN Append(q, x) :
              \/ i = Len(q) + 1 /\ Append(q, x)[i] = x
              \/ i \in DOMAIN q /\ Append(q, x)[i] = q[i]
         /\ DOMAIN <<>> = {}
  OBVIOUS

(* Only copying a picture makes a lease; every other step moves leases     *)
(* about, shares them or drops them.                                       *)
LEMMA HeldShrinks ==
  ASSUME TypeOK, ControlInv, [Next]_vars, ~CopyDecodedFrame
  PROVE  Held' \subseteq Held
  <1>1. CASE AcquireWrite
    <2>1. \A i \in DOMAIN waiting' : \E j \in DOMAIN waiting : waiting'[i] = waiting[j]
      <3>1. CASE Queue!BeginWrite
        BY <3>1 DEF Queue!BeginWrite
      <3>2. CASE Queue!RecycleOldest
        BY <3>2, SequenceMembers DEF Queue!RecycleOldest, TypeOK
      <3>. QED BY <1>1, <3>1, <3>2 DEF AcquireWrite
    <2>2. writer' = Empty /\ UNCHANGED <<reader, displayed, externalFrame>>
      BY <1>1 DEF AcquireWrite, Queue!BeginWrite, Queue!RecycleOldest, rendering
    <2>. QED BY <2>1, <2>2 DEF Held
  <1>2. CASE AcquireRefused
    BY <1>2, SizesAssumption DEF AcquireRefused, Held, vars, queue, d3d11, decoding, scan,
         rendering
  <1>c. CASE ChooseRing
    BY <1>c DEF ChooseRing, Held, queue, rendering
  <1>3. CASE SkipTexture
    BY <1>3, SizesAssumption DEF SkipTexture, Held, vars, queue, d3d11, decoding, scan,
         rendering
  <1>4. CASE SignalFails
    BY <1>4, SizesAssumption DEF SignalFails, TakeTexture, Split, Queue!Cancel, Held, vars,
         queue, d3d11, decoding, scan, rendering
  <1>5. CASE CommitWrite
    <2>1. \A i \in DOMAIN waiting' : \/ waiting'[i] = writer
                                    \/ \E j \in DOMAIN waiting : waiting'[i] = waiting[j]
      BY <1>5, SequenceMembers DEF CommitWrite, Queue!Commit, TypeOK
    <2>2. writer' = None /\ UNCHANGED <<reader, displayed, externalFrame>>
      BY <1>5 DEF CommitWrite, Queue!Commit, rendering
    <2>. QED BY <2>1, <2>2 DEF Held
  <1>6. CASE CancelWrite
    BY <1>6, SizesAssumption DEF CancelWrite, Queue!Cancel, Held, vars, queue, d3d11,
         decoding, scan, rendering
  <1>7. CASE EndOfInput
    BY <1>7, SizesAssumption DEF EndOfInput, Queue!Cancel, Held, vars, queue, d3d11,
         decoding, scan, rendering
  <1>8. CASE StopAtEnd
    BY <1>8, SizesAssumption DEF StopAtEnd, Queue!Close, Held, vars, queue, d3d11,
         decoding, scan, rendering
  <1>9. CASE D3D11Executes
    BY <1>9, SizesAssumption DEF D3D11Executes, Held, vars, queue, d3d11, decoding, scan,
         rendering
  <1>10. ASSUME NEW f \in Flight, VulkanFinishes(f) PROVE Held' \subseteq Held
    BY <1>10, SizesAssumption DEF VulkanFinishes, Held, vars, queue, d3d11, decoding, scan,
         rendering
  <1>11. CASE AcquireRead
    <2>1. /\ \A i \in DOMAIN waiting' : \E j \in DOMAIN waiting : waiting'[i] = waiting[j]
          /\ \E j \in DOMAIN waiting : reader' = waiting[j]
      <3>1. CASE live
        BY <1>11, <3>1, SequenceMembers DEF AcquireRead, Queue!ReadNewest, TypeOK
      <3>2. CASE ~live
        BY <1>11, <3>2, SequenceMembers DEF AcquireRead, Queue!ReadOldest, TypeOK
      <3>. QED BY <3>1, <3>2
    <2>2. UNCHANGED <<writer, displayed, externalFrame>>
      BY <1>11 DEF AcquireRead, Queue!ReadNewest, Queue!ReadOldest
    <2>. QED BY <2>1, <2>2 DEF Held
  <1>12. CASE CopyOwnedFrame
    BY <1>12, SizesAssumption DEF CopyOwnedFrame, Held, vars, queue, d3d11, decoding, scan,
         rendering
  <1>13. CASE ReleaseRead
    BY <1>13, SizesAssumption DEF ReleaseRead, Queue!Release, Held, vars, queue, d3d11,
         decoding, scan, rendering
  <1>14. CASE Home
    BY <1>14, SizesAssumption DEF Home, Queue!Discard, Held, vars, queue, d3d11, decoding,
         scan, rendering
  <1>15. CASE AcquireFrame
    BY <1>15, SizesAssumption DEF AcquireFrame, Held, vars, queue, d3d11, decoding, scan,
         rendering
  <1>16. CASE PrepareFrame
    <2>1. \A f \in Flight : externalFrame'[f] \in {externalFrame[f], displayed}
      BY <1>16 DEF PrepareFrame, TypeOK
    <2>. QED BY <1>16, <2>1 DEF PrepareFrame, Held, queue
  <1>17. CASE SubmitAndPresent
    BY <1>17, SizesAssumption DEF SubmitAndPresent, Held, vars, queue, d3d11, decoding,
         scan, rendering
  <1>18. CASE LeaveLoop
    BY <1>18, SizesAssumption DEF LeaveLoop, Queue!Close, Held, vars, queue, d3d11,
         decoding, scan, rendering
  <1>19. CASE JoinDecoder
    BY <1>19, SizesAssumption DEF JoinDecoder, Held, vars, queue, d3d11, decoding, scan,
         rendering
  <1>20. CASE ReleaseFrames
    BY <1>20 DEF ReleaseFrames, Held
  <1>21. CASE UNCHANGED vars
    BY <1>21, SizesAssumption DEF Held, vars, queue, d3d11, decoding, scan, rendering
  <1>. QED BY <1>c, <1>1, <1>2, <1>3, <1>4, <1>5, <1>6, <1>7, <1>8, <1>9, <1>10,
           <1>11, <1>12, <1>13, <1>14, <1>15, <1>16, <1>17, <1>18, <1>19,
           <1>20, <1>21 DEF Next,
           DecoderStep, GpuStep, LoopStep, Finished

(* Where each thread is tells what it holds. *)
LEMMA ControlStep ==
  ASSUME TypeOK, ControlInv, [Next]_vars
  PROVE  ControlInv'
  <1>1. CASE AcquireWrite
    BY <1>1, SizesAssumption DEF AcquireWrite, Queue!BeginWrite, Queue!RecycleOldest,
         ControlInv, TypeOK, vars, queue, d3d11, decoding, scan, rendering
  <1>2. CASE AcquireRefused
    BY <1>2, SizesAssumption DEF AcquireRefused, ControlInv, TypeOK, vars, queue, d3d11,
         decoding, scan, rendering
  <1>c. CASE ChooseRing
    <2>1. Held' = Held /\ generation' \in 1 .. MaxRings
      BY <1>c, SizesAssumption DEF ChooseRing, Held, queue, rendering, TypeOK
    <2>. QED BY <1>c, <2>1 DEF ChooseRing, ControlInv, queue, rendering
  <1>3. CASE SkipTexture
    BY <1>3, SizesAssumption DEF SkipTexture, ControlInv, TypeOK, vars, queue, d3d11,
         decoding, scan, rendering
  <1>4. CASE CopyDecodedFrame
    <2>1. writer' \in Lease
      BY <1>4, NewLease DEF CopyDecodedFrame, Queue!Write
    <2>. QED BY <1>4, <2>1 DEF CopyDecodedFrame, TakeTexture, Queue!Write, Split,
         ControlInv, rendering
  <1>5. CASE SignalFails
    BY <1>5, SizesAssumption DEF SignalFails, TakeTexture, Split, Queue!Cancel, ControlInv,
         TypeOK, vars, queue, d3d11, decoding, scan, rendering
  <1>6. CASE CommitWrite
    BY <1>6, SizesAssumption DEF CommitWrite, Queue!Commit, ControlInv, TypeOK, vars,
         queue, d3d11, decoding, scan, rendering
  <1>7. CASE CancelWrite
    BY <1>7, SizesAssumption DEF CancelWrite, Queue!Cancel, ControlInv, TypeOK, vars,
         queue, d3d11, decoding, scan, rendering
  <1>8. CASE EndOfInput
    BY <1>8, SizesAssumption DEF EndOfInput, Queue!Cancel, ControlInv, TypeOK, vars, queue,
         d3d11, decoding, scan, rendering
  <1>9. CASE StopAtEnd
    BY <1>9, SizesAssumption DEF StopAtEnd, Queue!Close, ControlInv, TypeOK, vars, queue,
         d3d11, decoding, scan, rendering
  <1>10. CASE D3D11Executes
    <2>1. Held' = Held
      BY <1>10 DEF D3D11Executes, Held, queue, rendering
    <2>. QED BY <1>10, <2>1 DEF D3D11Executes, ControlInv, queue, decoding, scan, rendering
  <1>11. ASSUME NEW f \in Flight, VulkanFinishes(f) PROVE ControlInv'
    <2>1. renderPc # "done"
      BY <1>11 DEF VulkanFinishes, ControlInv
    <2>. QED BY <1>11, <2>1 DEF VulkanFinishes, ControlInv, TypeOK, queue, decoding, scan
  <1>12. CASE AcquireRead
    BY <1>12, SizesAssumption DEF AcquireRead, Queue!ReadNewest, Queue!ReadOldest,
         ControlInv, TypeOK, vars, queue, d3d11, decoding, scan, rendering
  <1>13. CASE CopyOwnedFrame
    BY <1>13, SizesAssumption DEF CopyOwnedFrame, ControlInv, TypeOK, vars, queue, d3d11,
         decoding, scan, rendering
  <1>14. CASE ReleaseRead
    BY <1>14, SizesAssumption DEF ReleaseRead, Queue!Release, ControlInv, TypeOK, vars,
         queue, d3d11, decoding, scan, rendering
  <1>15. CASE Home
    BY <1>15, SizesAssumption DEF Home, Queue!Discard, ControlInv, TypeOK, vars, queue,
         d3d11, decoding, scan, rendering
  <1>16. CASE AcquireFrame
    BY <1>16, SizesAssumption DEF AcquireFrame, ControlInv, TypeOK, vars, queue, d3d11,
         decoding, scan, rendering
  <1>17. CASE PrepareFrame
    BY <1>17, SizesAssumption DEF PrepareFrame, ControlInv, TypeOK, vars, queue, d3d11,
         decoding, scan, rendering
  <1>18. CASE SubmitAndPresent
    BY <1>18, SizesAssumption DEF SubmitAndPresent, ControlInv, TypeOK, vars, queue, d3d11,
         decoding, scan, rendering
  <1>19. CASE LeaveLoop
    BY <1>19, SizesAssumption DEF LeaveLoop, Queue!Close, ControlInv, TypeOK, vars, queue,
         d3d11, decoding, scan, rendering
  <1>20. CASE JoinDecoder
    BY <1>20, SizesAssumption DEF JoinDecoder, ControlInv, TypeOK, vars, queue, d3d11,
         decoding, scan, rendering
  <1>21. CASE ReleaseFrames
    <2>1. Held' = {}
      BY <1>21 DEF ReleaseFrames, Held
    <2>. QED BY <1>21, <2>1 DEF ReleaseFrames, ControlInv, decoding, scan
  <1>22. CASE UNCHANGED vars
    <2>1. Held' = Held
      BY <1>22 DEF Held, vars, queue, rendering
    <2>. QED BY <1>22, <2>1 DEF ControlInv, vars, queue, decoding, scan, rendering
  <1>. QED BY <1>c, <1>1, <1>2, <1>3, <1>4, <1>5, <1>6, <1>7, <1>8, <1>9, <1>10,
           <1>11, <1>12, <1>13, <1>14, <1>15, <1>16, <1>17, <1>18, <1>19,
           <1>20, <1>21, <1>22 DEF Next,
           DecoderStep, GpuStep, LoopStep, Finished

(* The slots in use, with the writer's and the reader's counted apart. *)
LEMMA OccupancyBound ==
  ASSUME TypeOK
  PROVE  /\ Queue!InUse \in Nat /\ Len(waiting) \in Nat
         /\ writer # None /\ reader # None => Queue!InUse = Len(waiting) + 2
         /\ writer # None /\ reader = None => Queue!InUse = Len(waiting) + 1
         /\ writer = None /\ reader # None => Queue!InUse = Len(waiting) + 1
         /\ writer = None /\ reader = None => Queue!InUse = Len(waiting)
  <1>1. Len(waiting) \in Nat
    BY DEF TypeOK
  <1> DEFINE w == IF writer = None THEN 0 ELSE 1
             r == IF reader = None THEN 0 ELSE 1
  <1>2. Queue!InUse = Len(waiting) + w + r
    BY DEF Queue!InUse
  <1>3. /\ w = 0 <=> writer = None
        /\ r = 0 <=> reader = None
        /\ w \in 0 .. 1 /\ r \in 0 .. 1
    OBVIOUS
  <1> HIDE DEF w, r
  <1>. QED BY <1>1, <1>2, <1>3

(* The queue holds no more slots than the pool has. *)
LEMMA CapacityStep ==
  ASSUME TypeOK, ControlInv, CapacityInv, [Next]_vars
  PROVE  CapacityInv'
  <1>0. Slots \in Nat /\ Len(waiting) \in Nat /\ Empty # None /\ None \notin Lease
    BY SizesAssumption DEF TypeOK
  <1>a. TypeOK'
    BY TypeStep
  <1>b. /\ Queue!InUse' \in Nat /\ Len(waiting)' \in Nat
        /\ writer' # None /\ reader' # None => Queue!InUse' = Len(waiting') + 2
        /\ writer' # None /\ reader' = None => Queue!InUse' = Len(waiting') + 1
        /\ writer' = None /\ reader' # None => Queue!InUse' = Len(waiting') + 1
        /\ writer' = None /\ reader' = None => Queue!InUse' = Len(waiting')
    <2>1. Len(waiting)' \in Nat /\ Len(waiting)' = Len(waiting')
      BY <1>a DEF TypeOK
    <2> DEFINE w == IF writer' = None THEN 0 ELSE 1
               r == IF reader' = None THEN 0 ELSE 1
    <2>2. Queue!InUse' = Len(waiting') + w + r
      BY DEF Queue!InUse
    <2>3. /\ w = 0 <=> writer' = None
          /\ r = 0 <=> reader' = None
          /\ w \in 0 .. 1 /\ r \in 0 .. 1
      OBVIOUS
    <2> HIDE DEF w, r
    <2>. QED BY <2>1, <2>2, <2>3
  <1>1. CASE AcquireWrite
    <2>1. CASE Queue!BeginWrite
      <3>1. /\ writer = None /\ UNCHANGED <<waiting, reader>>
            /\ writer' = Empty /\ Queue!InUse < Slots
        BY <2>1 DEF Queue!BeginWrite
      <3>. QED BY <3>1, <1>0 DEF CapacityInv, Queue!InUse, TypeOK
    <2>2. CASE Queue!RecycleOldest
      <3>1. /\ writer = None /\ reader' = reader /\ waiting' = Tail(waiting)
            /\ writer' = Empty /\ waiting # <<>>
        BY <2>2 DEF Queue!RecycleOldest
      <3>2. Len(waiting') = Len(waiting) - 1 /\ Len(waiting) \in Nat
        BY <3>1, SequenceSteps DEF TypeOK
      <3>. QED BY <3>1, <3>2, <1>0 DEF CapacityInv, Queue!InUse
    <2>. QED BY <1>1, <2>1, <2>2 DEF AcquireWrite
  <1>2. CASE AcquireRefused
    BY <1>2, <1>0 DEF AcquireRefused, CapacityInv, Queue!InUse, TypeOK, ControlInv, vars,
         queue, d3d11, decoding, scan, rendering
  <1>c. CASE ChooseRing
    BY <1>c DEF ChooseRing, CapacityInv, Queue!InUse, queue
  <1>3. CASE SkipTexture
    BY <1>3, <1>0 DEF SkipTexture, CapacityInv, Queue!InUse, TypeOK, ControlInv, vars,
         queue, d3d11, decoding, scan, rendering
  <1>4. CASE CopyDecodedFrame
    <2>1. writer = Empty /\ UNCHANGED <<waiting, reader>>
      BY <1>4 DEF CopyDecodedFrame, Queue!Write
    <2>. QED BY <2>1, OccupancyBound, <1>0, <1>b DEF CapacityInv
  <1>5. CASE SignalFails
    BY <1>5, <1>0 DEF SignalFails, TakeTexture, Split, Queue!Cancel, CapacityInv,
         Queue!InUse, TypeOK, ControlInv, vars, queue, d3d11, decoding, scan, rendering
  <1>6. CASE CommitWrite
    <2>1. /\ writer \in Lease /\ waiting' = Append(waiting, writer)
          /\ writer' = None /\ reader' = reader
      BY <1>6 DEF CommitWrite, Queue!Commit
    <2>2. Len(waiting') = Len(waiting) + 1 /\ writer # None
      BY <2>1, <1>0 DEF TypeOK
    <2>. QED BY <2>1, <2>2, OccupancyBound, <1>0, <1>b DEF CapacityInv
  <1>7. CASE CancelWrite
    BY <1>7, <1>0 DEF CancelWrite, Queue!Cancel, CapacityInv, Queue!InUse, TypeOK,
         ControlInv, vars, queue, d3d11, decoding, scan, rendering
  <1>8. CASE EndOfInput
    BY <1>8, <1>0 DEF EndOfInput, Queue!Cancel, CapacityInv, Queue!InUse, TypeOK,
         ControlInv, vars, queue, d3d11, decoding, scan, rendering
  <1>9. CASE StopAtEnd
    BY <1>9, <1>0 DEF StopAtEnd, Queue!Close, CapacityInv, Queue!InUse, TypeOK, ControlInv,
         vars, queue, d3d11, decoding, scan, rendering
  <1>10. CASE D3D11Executes
    BY <1>10, <1>0 DEF D3D11Executes, CapacityInv, Queue!InUse, TypeOK, ControlInv, vars,
         queue, d3d11, decoding, scan, rendering
  <1>11. ASSUME NEW f \in Flight, VulkanFinishes(f) PROVE CapacityInv'
    BY <1>11, <1>0 DEF VulkanFinishes, CapacityInv, Queue!InUse, TypeOK, ControlInv, vars,
         queue, d3d11, decoding, scan, rendering
  <1>12. CASE AcquireRead
    <2>1. /\ reader = None /\ waiting # <<>> /\ writer' = writer
          /\ waiting' \in {<<>>, Tail(waiting)}
      BY <1>12 DEF AcquireRead, Queue!ReadNewest, Queue!ReadOldest
    <2>2. Len(waiting') \in Nat /\ Len(waiting') + 1 <= Len(waiting)
      BY <2>1, SequenceSteps DEF TypeOK
    <2>. QED BY <2>1, <2>2, OccupancyBound, <1>0, <1>b DEF CapacityInv
  <1>13. CASE CopyOwnedFrame
    BY <1>13, <1>0 DEF CopyOwnedFrame, CapacityInv, Queue!InUse, TypeOK, ControlInv, vars,
         queue, d3d11, decoding, scan, rendering
  <1>14. CASE ReleaseRead
    BY <1>14, <1>0 DEF ReleaseRead, Queue!Release, CapacityInv, Queue!InUse, TypeOK,
         ControlInv, vars, queue, d3d11, decoding, scan, rendering
  <1>15. CASE Home
    BY <1>15, <1>0 DEF Home, Queue!Discard, CapacityInv, Queue!InUse, TypeOK, ControlInv,
         vars, queue, d3d11, decoding, scan, rendering
  <1>16. CASE AcquireFrame
    BY <1>16, <1>0 DEF AcquireFrame, CapacityInv, Queue!InUse, TypeOK, ControlInv, vars,
         queue, d3d11, decoding, scan, rendering
  <1>17. CASE PrepareFrame
    BY <1>17, <1>0 DEF PrepareFrame, CapacityInv, Queue!InUse, TypeOK, ControlInv, vars,
         queue, d3d11, decoding, scan, rendering
  <1>18. CASE SubmitAndPresent
    BY <1>18, <1>0 DEF SubmitAndPresent, CapacityInv, Queue!InUse, TypeOK, ControlInv,
         vars, queue, d3d11, decoding, scan, rendering
  <1>19. CASE LeaveLoop
    <2>1. waiting' = <<>> /\ UNCHANGED <<writer, reader>>
      BY <1>19 DEF LeaveLoop, Queue!Close
    <2>2. Len(waiting') = 0
      BY <2>1
    <2>. QED BY <2>1, <2>2, OccupancyBound, <1>0, <1>b DEF CapacityInv
  <1>20. CASE JoinDecoder
    BY <1>20, <1>0 DEF JoinDecoder, CapacityInv, Queue!InUse, TypeOK, ControlInv, vars,
         queue, d3d11, decoding, scan, rendering
  <1>21. CASE ReleaseFrames
    BY <1>21, <1>0 DEF ReleaseFrames, CapacityInv, Queue!InUse, TypeOK, ControlInv, vars,
         queue, d3d11, decoding, scan, rendering
  <1>22. CASE UNCHANGED vars
    BY <1>22, <1>0 DEF CapacityInv, Queue!InUse, TypeOK, ControlInv, vars, queue, d3d11,
         decoding, scan, rendering
  <1>. QED BY <1>c, <1>1, <1>2, <1>3, <1>4, <1>5, <1>6, <1>7, <1>8, <1>9, <1>10,
           <1>11, <1>12, <1>13, <1>14, <1>15, <1>16, <1>17, <1>18, <1>19,
           <1>20, <1>21, <1>22 DEF Next,
           DecoderStep, GpuStep, LoopStep, Finished

(* A flight keeps what its submission samples: its lease is replaced only  *)
(* while it has no submission.                                             *)
LEMMA FlightStep ==
  ASSUME TypeOK, ControlInv, FlightInv, [Next]_vars
  PROVE  FlightInv'
  <1>1. CASE AcquireWrite
    BY <1>1, SizesAssumption DEF AcquireWrite, Queue!BeginWrite, Queue!RecycleOldest,
         FlightInv, TypeOK, ControlInv, vars, queue, d3d11, decoding, scan, rendering
  <1>2. CASE AcquireRefused
    BY <1>2, SizesAssumption DEF AcquireRefused, FlightInv, TypeOK, ControlInv, vars,
         queue, d3d11, decoding, scan, rendering
  <1>c. CASE ChooseRing
    BY <1>c DEF ChooseRing, FlightInv, rendering
  <1>3. CASE SkipTexture
    BY <1>3, SizesAssumption DEF SkipTexture, FlightInv, TypeOK, ControlInv, vars, queue,
         d3d11, decoding, scan, rendering
  <1>4. CASE CopyDecodedFrame
    BY <1>4, SizesAssumption DEF CopyDecodedFrame, TakeTexture, Split, Queue!Write,
         FlightInv, TypeOK, ControlInv, vars, queue, d3d11, decoding, scan, rendering
  <1>5. CASE SignalFails
    BY <1>5, SizesAssumption DEF SignalFails, TakeTexture, Split, Queue!Cancel, FlightInv,
         TypeOK, ControlInv, vars, queue, d3d11, decoding, scan, rendering
  <1>6. CASE CommitWrite
    BY <1>6, SizesAssumption DEF CommitWrite, Queue!Commit, FlightInv, TypeOK, ControlInv,
         vars, queue, d3d11, decoding, scan, rendering
  <1>7. CASE CancelWrite
    BY <1>7, SizesAssumption DEF CancelWrite, Queue!Cancel, FlightInv, TypeOK, ControlInv,
         vars, queue, d3d11, decoding, scan, rendering
  <1>8. CASE EndOfInput
    BY <1>8, SizesAssumption DEF EndOfInput, Queue!Cancel, FlightInv, TypeOK, ControlInv,
         vars, queue, d3d11, decoding, scan, rendering
  <1>9. CASE StopAtEnd
    BY <1>9, SizesAssumption DEF StopAtEnd, Queue!Close, FlightInv, TypeOK, ControlInv,
         vars, queue, d3d11, decoding, scan, rendering
  <1>10. CASE D3D11Executes
    BY <1>10, SizesAssumption DEF D3D11Executes, FlightInv, TypeOK, ControlInv, vars,
         queue, d3d11, decoding, scan, rendering
  <1>11. ASSUME NEW f \in Flight, VulkanFinishes(f) PROVE FlightInv'
    BY <1>11, SizesAssumption DEF VulkanFinishes, FlightInv, TypeOK, ControlInv, vars,
         queue, d3d11, decoding, scan, rendering
  <1>12. CASE AcquireRead
    BY <1>12, SizesAssumption DEF AcquireRead, Queue!ReadNewest, Queue!ReadOldest,
         FlightInv, TypeOK, ControlInv, vars, queue, d3d11, decoding, scan, rendering
  <1>13. CASE CopyOwnedFrame
    BY <1>13, SizesAssumption DEF CopyOwnedFrame, FlightInv, TypeOK, ControlInv, vars,
         queue, d3d11, decoding, scan, rendering
  <1>14. CASE ReleaseRead
    BY <1>14, SizesAssumption DEF ReleaseRead, Queue!Release, FlightInv, TypeOK,
         ControlInv, vars, queue, d3d11, decoding, scan, rendering
  <1>15. CASE Home
    BY <1>15, SizesAssumption DEF Home, Queue!Discard, FlightInv, TypeOK, ControlInv, vars,
         queue, d3d11, decoding, scan, rendering
  <1>16. CASE AcquireFrame
    BY <1>16, SizesAssumption DEF AcquireFrame, FlightInv, TypeOK, ControlInv, vars, queue,
         d3d11, decoding, scan, rendering
  <1>17. CASE PrepareFrame
    <2>1. sampled[current] = None /\ current \in Flight
      BY <1>17 DEF PrepareFrame, ControlInv, TypeOK
    <2>. QED BY <1>17, <2>1 DEF PrepareFrame, FlightInv, TypeOK
  <1>18. CASE SubmitAndPresent
    BY <1>18, SizesAssumption DEF SubmitAndPresent, FlightInv, TypeOK, ControlInv, vars,
         queue, d3d11, decoding, scan, rendering
  <1>19. CASE LeaveLoop
    BY <1>19, SizesAssumption DEF LeaveLoop, Queue!Close, FlightInv, TypeOK, ControlInv,
         vars, queue, d3d11, decoding, scan, rendering
  <1>20. CASE JoinDecoder
    BY <1>20, SizesAssumption DEF JoinDecoder, FlightInv, TypeOK, ControlInv, vars, queue,
         d3d11, decoding, scan, rendering
  <1>21. CASE ReleaseFrames
    BY <1>21, SizesAssumption DEF ReleaseFrames, FlightInv, TypeOK, ControlInv, vars,
         queue, d3d11, decoding, scan, rendering
  <1>22. CASE UNCHANGED vars
    BY <1>22 DEF FlightInv, vars, rendering
  <1>. QED BY <1>c, <1>1, <1>2, <1>3, <1>4, <1>5, <1>6, <1>7, <1>8, <1>9, <1>10,
           <1>11, <1>12, <1>13, <1>14, <1>15, <1>16, <1>17, <1>18, <1>19,
           <1>20, <1>21, <1>22 DEF Next,
           DecoderStep, GpuStep, LoopStep, Finished

(* What D3D11 has been given changes only by splitting and executing.      *)
LEMMA QuietSteps ==
  ASSUME [Next]_vars, ~CopyDecodedFrame, ~SignalFails, ~D3D11Executes
  PROVE  UNCHANGED <<issued, d3d11>>
  <1>1. CASE AcquireWrite
    BY <1>1 DEF AcquireWrite, Queue!BeginWrite, Queue!RecycleOldest, vars, queue, d3d11,
         decoding, scan, rendering
  <1>2. CASE AcquireRefused
    BY <1>2 DEF AcquireRefused, vars, queue, d3d11, decoding, scan, rendering
  <1>c. CASE ChooseRing
    BY <1>c DEF ChooseRing, d3d11
  <1>3. CASE SkipTexture
    BY <1>3 DEF SkipTexture, vars, queue, d3d11, decoding, scan, rendering
  <1>4. CASE CommitWrite
    BY <1>4 DEF CommitWrite, Queue!Commit, vars, queue, d3d11, decoding, scan, rendering
  <1>5. CASE CancelWrite
    BY <1>5 DEF CancelWrite, Queue!Cancel, vars, queue, d3d11, decoding, scan, rendering
  <1>6. CASE EndOfInput
    BY <1>6 DEF EndOfInput, Queue!Cancel, vars, queue, d3d11, decoding, scan, rendering
  <1>7. CASE StopAtEnd
    BY <1>7 DEF StopAtEnd, Queue!Close, vars, queue, d3d11, decoding, scan, rendering
  <1>8. ASSUME NEW f \in Flight, VulkanFinishes(f) PROVE UNCHANGED <<issued, d3d11>>
    BY <1>8 DEF VulkanFinishes, vars, queue, d3d11, decoding, scan, rendering
  <1>9. CASE AcquireRead
    BY <1>9 DEF AcquireRead, Queue!ReadNewest, Queue!ReadOldest, vars, queue, d3d11,
         decoding, scan, rendering
  <1>10. CASE CopyOwnedFrame
    BY <1>10 DEF CopyOwnedFrame, vars, queue, d3d11, decoding, scan, rendering
  <1>11. CASE ReleaseRead
    BY <1>11 DEF ReleaseRead, Queue!Release, vars, queue, d3d11, decoding, scan, rendering
  <1>12. CASE Home
    BY <1>12 DEF Home, Queue!Discard, vars, queue, d3d11, decoding, scan, rendering
  <1>13. CASE AcquireFrame
    BY <1>13 DEF AcquireFrame, vars, queue, d3d11, decoding, scan, rendering
  <1>14. CASE PrepareFrame
    BY <1>14 DEF PrepareFrame, vars, queue, d3d11, decoding, scan, rendering
  <1>15. CASE SubmitAndPresent
    BY <1>15 DEF SubmitAndPresent, vars, queue, d3d11, decoding, scan, rendering
  <1>16. CASE LeaveLoop
    BY <1>16 DEF LeaveLoop, Queue!Close, vars, queue, d3d11, decoding, scan, rendering
  <1>17. CASE JoinDecoder
    BY <1>17 DEF JoinDecoder, vars, queue, d3d11, decoding, scan, rendering
  <1>18. CASE ReleaseFrames
    BY <1>18 DEF ReleaseFrames, vars, queue, d3d11, decoding, scan, rendering
  <1>19. CASE UNCHANGED vars
    BY <1>19 DEF vars, queue, d3d11, decoding, scan, rendering
  <1>. QED BY <1>c, <1>1, <1>2, <1>3, <1>4, <1>5, <1>6, <1>7, <1>8, <1>9, <1>10,
           <1>11, <1>12, <1>13, <1>14, <1>15, <1>16, <1>17, <1>18, <1>19 DEF Next,
           DecoderStep, GpuStep, LoopStep, Finished

(* A lease that exists is a lease. *)
LEMMA HeldType ==
  ASSUME TypeOK
  PROVE  Held \subseteq Lease
  <1>1. \A i \in DOMAIN waiting : waiting[i] \in Lease
    BY DEF TypeOK
  <1>. QED BY <1>1 DEF Held, TypeOK

(* A split goes behind those D3D11 already has, and is the youngest.       *)
LEMMA SplitAppends ==
  ASSUME TypeOK, ControlInv, CopiesInv, TakeTexture, NEW signals \in BOOLEAN, Split(Candidate, signals)
  PROVE  /\ CopiesInv'
         /\ DOMAIN copies \subseteq DOMAIN copies'
         /\ \A i \in DOMAIN copies : copies'[i] = copies[i]
         /\ \A i \in DOMAIN copies' :
              \/ i \in DOMAIN copies
              \/ copies'[i] = [texture |-> Candidate, ready |-> issued + 1, signals |-> signals]
         /\ \E i \in DOMAIN copies' :
              copies'[i] = [texture |-> Candidate, ready |-> issued + 1, signals |-> signals]
  <1> DEFINE new == [texture |-> Candidate, ready |-> issued + 1, signals |-> signals]
             n == Len(copies)
  <1>1. /\ new \in Copy /\ new.ready = issued + 1 /\ issued \in Nat /\ signalled \in Nat
        /\ \A i \in DOMAIN copies : copies[i].ready \in Nat
    <2>1. new \in Copy /\ new.ready = issued + 1
      BY NewLease DEF Copy
    <2>2. \A i \in DOMAIN copies : copies[i] \in Copy
      BY DEF TypeOK
    <2>. QED BY <2>1, <2>2 DEF Copy, TypeOK
  <1>2. copies' = Append(copies, new) /\ issued' = issued + 1 /\ signalled' = signalled
    BY DEF Split
  <1>3. /\ n \in Nat /\ DOMAIN copies = 1 .. n /\ DOMAIN copies' = 1 .. n + 1
        /\ copies'[n + 1] = new
        /\ \A i \in 1 .. n : copies'[i] = copies[i]
    BY <1>1, <1>2 DEF TypeOK
  <1>4. signalled <= issued
    BY DEF CopiesInv
  <1> HIDE DEF new, n
  <1>5. CopiesInv'
    <2>1. \A i \in DOMAIN copies' : signalled' < copies'[i].ready /\ copies'[i].ready <= issued'
      BY <1>1, <1>2, <1>3, <1>4 DEF CopiesInv
    <2>2. \A i, j \in DOMAIN copies' : i < j => copies'[i].ready < copies'[j].ready
      BY <1>1, <1>2, <1>3 DEF CopiesInv
    <2>3. signalled' <= issued'
      BY <1>1, <1>2, <1>4
    <2>. QED BY <2>1, <2>2, <2>3 DEF CopiesInv
  <1>. QED BY <1>3, <1>5 DEF new

(* Steps that make no lease and give D3D11 nothing keep what leases promise. *)
LEMMA QuietKeepsLeases ==
  ASSUME LeaseInv, CopiesInv, SettledInv, Held' \subseteq Held, UNCHANGED <<issued, d3d11>>
  PROVE  LeaseInv' /\ CopiesInv' /\ SettledInv'
  <1>1. LeaseInv'
    BY DEF LeaseInv
  <1>2. CopiesInv'
    BY DEF CopiesInv, d3d11
  <1>3. SettledInv'
    <2>1. SUFFICES ASSUME NEW lease \in Held' PROVE Settled(lease)'
      BY DEF SettledInv
    <2>2. Settled(lease)
      BY DEF SettledInv
    <2>. QED BY <2>2 DEF Settled, d3d11
  <1>. QED BY <1>1, <1>2, <1>3

(* A new lease is of a texture that had none, and its split is on its way. *)
LEMMA CopyKeepsLeases ==
  ASSUME TypeOK, ControlInv, LeaseInv, CopiesInv, SettledInv, CopyDecodedFrame
  PROVE  LeaseInv' /\ CopiesInv' /\ SettledInv'
  <1> DEFINE new == [texture |-> Candidate, ready |-> issued + 1]
  <1>1. /\ TakeTexture /\ Split(Candidate, TRUE) /\ writer' = new
        /\ UNCHANGED <<waiting, reader, displayed, externalFrame>>
    BY DEF CopyDecodedFrame, Queue!Write, rendering
  <1>2. Held' \subseteq Held \union {new}
    BY <1>1 DEF Held
  <1>3. \A lease \in Held : lease.texture # new.texture /\ lease \in Lease
    BY <1>1, HeldType DEF TakeTexture, InUse
  <1>4. issued' = issued + 1 /\ signalled' = signalled /\ content' = content
    BY <1>1 DEF Split
  <1>5. new \in Lease /\ new.ready = issued + 1 /\ new.texture = Candidate
    BY <1>1, NewLease
  <1>6. issued \in Nat /\ signalled \in Nat /\ signalled <= issued
    BY DEF TypeOK, CopiesInv
  <1>7. \A lease \in Held : lease.ready \in Nat
    BY <1>3 DEF Lease
  <1>8. LeaseInv'
    <2>1. \A lease \in Held' : lease.ready <= issued'
      BY <1>2, <1>4, <1>5, <1>6, <1>7 DEF LeaseInv
    <2>2. \A lease, other \in Held' : lease.texture = other.texture => lease = other
      BY <1>2, <1>3 DEF LeaseInv
    <2>. QED BY <2>1, <2>2 DEF LeaseInv
  <1>9. /\ CopiesInv'
        /\ DOMAIN copies \subseteq DOMAIN copies'
        /\ \A i \in DOMAIN copies : copies'[i] = copies[i]
        /\ \A i \in DOMAIN copies' :
             \/ i \in DOMAIN copies
             \/ copies'[i] = [texture |-> Candidate, ready |-> issued + 1, signals |-> TRUE]
        /\ \E i \in DOMAIN copies' :
             copies'[i] = [texture |-> Candidate, ready |-> issued + 1, signals |-> TRUE]
    BY <1>1, SplitAppends
  <1>10. \A i \in DOMAIN copies : copies[i].ready <= issued /\ copies[i].ready \in Nat
    <2>1. \A i \in DOMAIN copies : copies[i] \in Copy
      BY DEF TypeOK
    <2>. QED BY <2>1 DEF CopiesInv, Copy
  <1>11. SettledInv'
    <2>1. SUFFICES ASSUME NEW lease \in Held' PROVE Settled(lease)'
      BY DEF SettledInv
    <2>2. CASE lease = new
      <3>1. \A i \in DOMAIN copies' :
              copies'[i].texture = lease.texture => copies'[i].ready <= lease.ready
        BY <2>2, <1>5, <1>6, <1>9, <1>10
      <3>2. ~(signalled' >= lease.ready)
        BY <2>2, <1>4, <1>5, <1>6
      <3>3. \E i \in DOMAIN copies' : /\ copies'[i].texture = lease.texture
                                      /\ copies'[i].ready = lease.ready
                                      /\ copies'[i].signals
        BY <2>2, <1>9
      <3>. QED BY <3>1, <3>2, <3>3 DEF Settled
    <2>3. CASE lease \in Held
      <3>1. Settled(lease) /\ lease.texture # Candidate
        BY <2>3, <1>3, <1>5 DEF SettledInv
      <3>2. \A i \in DOMAIN copies' :
              copies'[i].texture = lease.texture => copies'[i].ready <= lease.ready
        BY <3>1, <1>9 DEF Settled
      <3>3. signalled' >= lease.ready => content'[lease.texture] = lease.ready
        BY <3>1, <1>4 DEF Settled
      <3>4. signalled' < lease.ready =>
              \E i \in DOMAIN copies' : /\ copies'[i].texture = lease.texture
                                        /\ copies'[i].ready = lease.ready
                                        /\ copies'[i].signals
        BY <3>1, <1>4, <1>9 DEF Settled
      <3>. QED BY <3>2, <3>3, <3>4 DEF Settled
    <2>. QED BY <1>2, <2>2, <2>3
  <1>. QED BY <1>8, <1>9, <1>11

(* A failed signal leaves a split behind, of a texture without a lease.    *)
LEMMA FailureKeepsLeases ==
  ASSUME TypeOK, ControlInv, LeaseInv, CopiesInv, SettledInv, SignalFails
  PROVE  LeaseInv' /\ CopiesInv' /\ SettledInv'
  <1>1. TakeTexture /\ Split(Candidate, FALSE)
    BY DEF SignalFails
  <1>2. Held' \subseteq Held
    BY DEF SignalFails, Queue!Cancel, Held, rendering
  <1>3. \A lease \in Held : lease.texture # Candidate /\ lease \in Lease
    BY <1>1, HeldType DEF TakeTexture, InUse
  <1>4. issued' = issued + 1 /\ signalled' = signalled /\ content' = content
    BY <1>1 DEF Split
  <1>5. issued \in Nat /\ \A lease \in Held : lease.ready \in Nat
    BY <1>3 DEF TypeOK, Lease
  <1>6. LeaseInv'
    BY <1>2, <1>4, <1>5 DEF LeaseInv
  <1>7. /\ CopiesInv'
        /\ DOMAIN copies \subseteq DOMAIN copies'
        /\ \A i \in DOMAIN copies : copies'[i] = copies[i]
        /\ \A i \in DOMAIN copies' :
             \/ i \in DOMAIN copies
             \/ copies'[i] = [texture |-> Candidate, ready |-> issued + 1, signals |-> FALSE]
    BY <1>1, SplitAppends
  <1>8. SettledInv'
    <2>1. SUFFICES ASSUME NEW lease \in Held' PROVE Settled(lease)'
      BY DEF SettledInv
    <2>2. Settled(lease) /\ lease.texture # Candidate
      BY <1>2, <1>3 DEF SettledInv
    <2>. QED BY <2>2, <1>4, <1>7 DEF Settled
  <1>. QED BY <1>6, <1>7, <1>8

(* Executing the oldest split puts its picture where its lease expects it. *)
LEMMA ExecuteKeepsLeases ==
  ASSUME TypeOK, LeaseInv, CopiesInv, SettledInv, D3D11Executes
  PROVE  LeaseInv' /\ CopiesInv' /\ SettledInv'
  <1> DEFINE n == Len(copies)
             c == copies[1]
  <1>1. /\ n \in Nat \ {0} /\ DOMAIN copies = 1 .. n /\ Head(copies) = c
        /\ copies' = Tail(copies) /\ DOMAIN copies' = 1 .. n - 1
        /\ \A i \in DOMAIN copies' : copies'[i] = copies[i + 1]
    BY DEF D3D11Executes, TypeOK
  <1>2. \A i \in DOMAIN copies : /\ copies[i].ready \in Nat
                                /\ copies[i].texture \in Texture
                                /\ copies[i].signals \in BOOLEAN
    <2>1. \A i \in DOMAIN copies : copies[i] \in Copy
      BY DEF TypeOK
    <2>. QED BY <2>1 DEF Copy
  <1>3. 1 \in DOMAIN copies
    BY <1>1
  <1>4. /\ signalled' = IF c.signals THEN c.ready ELSE signalled
        /\ issued' = issued /\ Held' = Held
    BY <1>1 DEF D3D11Executes, Held, queue, decoding, rendering
  <1>5. \A t \in Texture : content'[t] = IF t = c.texture THEN c.ready ELSE content[t]
    BY <1>1, <1>2, <1>3 DEF D3D11Executes, TypeOK
  <1>6. issued \in Nat /\ signalled \in Nat
    BY DEF TypeOK
  <1> HIDE DEF n, c
  <1>7. c.ready \in Nat /\ c.texture \in Texture /\ signalled < c.ready /\ c.ready <= issued
    BY <1>2, <1>3 DEF CopiesInv, c
  <1>8. \A i \in DOMAIN copies : i # 1 => c.ready < copies[i].ready
    BY <1>1, <1>2, <1>3 DEF CopiesInv, c
  <1>9. LeaseInv'
    BY <1>4 DEF LeaseInv
  <1>10. \A i \in DOMAIN copies' : i + 1 \in DOMAIN copies /\ i + 1 # 1
    BY <1>1
  <1>11. CopiesInv'
    <2>1. signalled' \in Nat /\ signalled' <= c.ready /\ signalled' <= issued'
      BY <1>4, <1>6, <1>7
    <2>2. \A i \in DOMAIN copies' : signalled' < copies'[i].ready /\ copies'[i].ready <= issued'
      BY <1>1, <1>2, <1>4, <1>6, <1>7, <1>8, <1>10, <2>1 DEF CopiesInv
    <2>3. \A i, j \in DOMAIN copies' : i < j => copies'[i].ready < copies'[j].ready
      <3>1. \A i, j \in DOMAIN copies' : i < j => i + 1 < j + 1
        BY <1>1
      <3>. QED BY <1>1, <1>10, <3>1 DEF CopiesInv
    <2>. QED BY <2>1, <2>2, <2>3 DEF CopiesInv
  <1>12. ASSUME NEW lease \in Held PROVE Settled(lease)'
    <2>1. lease.ready \in Nat /\ lease.texture \in Texture /\ Settled(lease)
      BY HeldType DEF SettledInv, Lease
    <2>2. \A i \in DOMAIN copies' :
            copies'[i].texture = lease.texture => copies'[i].ready <= lease.ready
      BY <1>1, <1>10, <2>1 DEF Settled
    <2>3. CASE signalled >= lease.ready
      <3>1. c.texture # lease.texture
        BY <1>3, <1>6, <1>7, <2>1, <2>3 DEF Settled, c
      <3>2. content'[lease.texture] = lease.ready
        BY <1>5, <2>1, <2>3, <3>1 DEF Settled
      <3>3. ~(signalled' < lease.ready)
        BY <1>4, <1>6, <1>7, <2>1, <2>3
      <3>. QED BY <2>2, <3>2, <3>3 DEF Settled
    <2>4. CASE signalled < lease.ready
      <3>1. PICK k \in DOMAIN copies : /\ copies[k].texture = lease.texture
                                       /\ copies[k].ready = lease.ready
                                       /\ copies[k].signals
        BY <2>1, <2>4 DEF Settled
      <3>2. CASE k = 1
        <4>1. signalled' = lease.ready /\ content'[lease.texture] = lease.ready
          BY <1>4, <1>5, <2>1, <3>1, <3>2 DEF c
        <4>2. ~(signalled' < lease.ready)
          BY <2>1, <4>1
        <4>. QED BY <2>2, <4>1, <4>2 DEF Settled
      <3>3. CASE k # 1
        <4>1. c.ready < lease.ready
          BY <1>8, <3>1, <3>3
        <4>2. signalled' < lease.ready /\ ~(signalled' >= lease.ready)
          BY <1>4, <1>6, <1>7, <2>1, <2>4, <4>1
        <4>3. k - 1 \in DOMAIN copies' /\ copies'[k - 1] = copies[k]
          BY <1>1, <3>3
        <4>. QED BY <2>2, <3>1, <4>2, <4>3 DEF Settled
      <3>. QED BY <3>2, <3>3
    <2>. QED BY <1>6, <2>1, <2>3, <2>4
  <1>13. SettledInv'
    BY <1>4, <1>12 DEF SettledInv
  <1>. QED BY <1>9, <1>11, <1>13

(* Every step keeps what leases promise. *)
LEMMA LeaseStep ==
  ASSUME TypeOK, ControlInv, LeaseInv, CopiesInv, SettledInv, [Next]_vars
  PROVE  LeaseInv' /\ CopiesInv' /\ SettledInv'
  <1>1. CASE CopyDecodedFrame
    BY <1>1, CopyKeepsLeases
  <1>2. CASE SignalFails
    BY <1>2, FailureKeepsLeases
  <1>3. CASE D3D11Executes
    BY <1>3, ExecuteKeepsLeases
  <1>4. CASE ~CopyDecodedFrame /\ ~SignalFails /\ ~D3D11Executes
    BY <1>4, HeldShrinks, QuietSteps, QuietKeepsLeases
  <1>. QED BY <1>1, <1>2, <1>3, <1>4

(* Only choosing a ring and acquire move the scan. *)
LEMMA ScanMoves ==
  ASSUME [Next]_vars, ~ChooseRing, ~SkipTexture, ~CopyDecodedFrame, ~SignalFails
  PROVE  UNCHANGED scan
  <1>1. CASE AcquireWrite
    BY <1>1 DEF AcquireWrite, Queue!BeginWrite, Queue!RecycleOldest, vars, decoding, scan
  <1>2. CASE AcquireRefused
    BY <1>2 DEF AcquireRefused, vars, decoding, scan
  <1>3. CASE CommitWrite
    BY <1>3 DEF CommitWrite, Queue!Commit, vars, decoding, scan
  <1>4. CASE CancelWrite
    BY <1>4 DEF CancelWrite, Queue!Cancel, vars, decoding, scan
  <1>5. CASE EndOfInput
    BY <1>5 DEF EndOfInput, Queue!Cancel, vars, decoding, scan
  <1>6. CASE StopAtEnd
    BY <1>6 DEF StopAtEnd, Queue!Close, vars, decoding, scan
  <1>7. CASE D3D11Executes
    BY <1>7 DEF D3D11Executes, vars, decoding, scan
  <1>8. ASSUME NEW f \in Flight, VulkanFinishes(f) PROVE UNCHANGED scan
    BY <1>8 DEF VulkanFinishes, vars, decoding, scan
  <1>9. CASE AcquireRead
    BY <1>9 DEF AcquireRead, Queue!ReadNewest, Queue!ReadOldest, vars, decoding, scan
  <1>10. CASE CopyOwnedFrame
    BY <1>10 DEF CopyOwnedFrame, vars, decoding, scan
  <1>11. CASE ReleaseRead
    BY <1>11 DEF ReleaseRead, Queue!Release, vars, decoding, scan
  <1>12. CASE Home
    BY <1>12 DEF Home, Queue!Discard, vars, decoding, scan
  <1>13. CASE AcquireFrame
    BY <1>13 DEF AcquireFrame, vars, decoding, scan
  <1>14. CASE PrepareFrame
    BY <1>14 DEF PrepareFrame, vars, decoding, scan
  <1>15. CASE SubmitAndPresent
    BY <1>15 DEF SubmitAndPresent, vars, decoding, scan
  <1>16. CASE LeaveLoop
    BY <1>16 DEF LeaveLoop, Queue!Close, vars, decoding, scan
  <1>17. CASE JoinDecoder
    BY <1>17 DEF JoinDecoder, vars, decoding, scan
  <1>18. CASE ReleaseFrames
    BY <1>18 DEF ReleaseFrames, vars, decoding, scan
  <1>19. CASE UNCHANGED vars
    BY <1>19 DEF vars, decoding, scan
  <1>. QED BY <1>1, <1>2, <1>3, <1>4, <1>5, <1>6, <1>7, <1>8, <1>9, <1>10,
           <1>11, <1>12, <1>13, <1>14, <1>15, <1>16, <1>17, <1>18, <1>19 DEF Next,
           DecoderStep, GpuStep, LoopStep, Finished

(* While acquire scans the ring, a free texture is still ahead of it: when *)
(* the scan begins one is free, and during the scan none is taken.         *)
LEMMA ScanStep ==
  ASSUME TypeOK, ControlInv, CapacityInv, ScanInv, [Next]_vars
  PROVE  ScanInv'
  <1>0. RingSize \in Nat \ {0} /\ attempt \in Nat /\ next \in Place
    BY SizesAssumption DEF TypeOK, RingSize
  <1>1. CASE SkipTexture
    <2>1. /\ Candidate \in InUse /\ attempt' = attempt + 1 /\ next' = next
          /\ generation' = generation
          /\ decoderPc = "scan" /\ attempt < RingSize
      BY <1>1 DEF SkipTexture
    <2>2. InUse' = InUse
      BY <1>1 DEF SkipTexture, InUse, Held, queue, rendering
    <2>3. \E k \in attempt .. RingSize - 1 : <<generation, (next + k) % RingSize>> \notin InUse
      <3>1. CASE attempt > 0
        BY <3>1 DEF ScanInv
      <3>2. CASE attempt = 0
        <4>1. PICK t \in Place : <<generation, t>> \notin InUse
          BY <2>1, FreeTextureExists DEF ControlInv
        <4>2. PICK k \in 0 .. RingSize - 1 : (next + k) % RingSize = t
          BY <1>0, RingOffset
        <4>. QED BY <3>2, <4>1, <4>2
      <3>. QED BY <1>0, <3>1, <3>2
    <2>4. PICK k \in attempt .. RingSize - 1 : <<generation, (next + k) % RingSize>> \notin InUse
      BY <2>3
    <2>5. k # attempt
      BY <2>1, <2>4 DEF Candidate
    <2>6. k \in attempt' .. RingSize - 1
      BY <1>0, <2>1, <2>4, <2>5
    <2>. QED BY <2>1, <2>2, <2>4, <2>6 DEF ScanInv, RingSize
  <1>2. CASE CopyDecodedFrame \/ SignalFails
    <2>1. attempt' = 0
      BY <1>2 DEF CopyDecodedFrame, SignalFails, TakeTexture
    <2>. QED BY <2>1 DEF ScanInv
  <1>4. CASE ChooseRing
    <2>1. attempt' = 0
      BY <1>4 DEF ChooseRing, ControlInv
    <2>. QED BY <2>1 DEF ScanInv
  <1>3. CASE ~ChooseRing /\ ~SkipTexture /\ ~CopyDecodedFrame /\ ~SignalFails
    <2>1. generation' = generation /\ next' = next /\ attempt' = attempt
      BY <1>3, ScanMoves DEF scan
    <2>2. InUse' \subseteq InUse
      BY <1>3, HeldShrinks DEF InUse
    <2>. QED BY <2>1, <2>2 DEF ScanInv, RingSize
  <1>. QED BY <1>1, <1>2, <1>3, <1>4

-------------------------------------------------------------------------------
(* The theorems. *)

(* The initial states satisfy the invariant. *)
LEMMA InteropInvInit == Init => InteropInv
  <1>1. SUFFICES ASSUME Init PROVE InteropInv
    OBVIOUS
  <1>2. /\ waiting = <<>> /\ writer = None /\ reader = None /\ closed = FALSE
        /\ copies = <<>> /\ DOMAIN waiting = {} /\ DOMAIN copies = {} /\ Len(waiting) = 0
    BY <1>1 DEF Init, Queue!ChannelInit
  <1>3. Held = {}
    BY <1>1, <1>2 DEF Held, Init
  <1>4. TypeOK
    <2>1. 0 \in Place /\ 0 \in Flight /\ 0 \in 0 .. RingSize /\ 0 \in 0 .. MaxPictures
      BY SizesAssumption DEF Place, Flight, RingSize
    <2>. QED BY <1>1, <1>2, <2>1 DEF Init, TypeOK
  <1>5. ControlInv
    BY <1>1, <1>2 DEF Init, ControlInv
  <1>6. CapacityInv
    <2>1. Queue!InUse = 0
      BY <1>2 DEF Queue!InUse
    <2>. QED BY <2>1, SizesAssumption DEF CapacityInv
  <1>7. FlightInv /\ LeaseInv /\ CopiesInv /\ SettledInv /\ ScanInv
    BY <1>1, <1>2, <1>3 DEF Init, FlightInv, LeaseInv, CopiesInv, SettledInv, ScanInv
  <1>. QED BY <1>4, <1>5, <1>6, <1>7 DEF InteropInv

(* Every step keeps the invariant. *)
LEMMA InteropInvStep == InteropInv /\ [Next]_vars => InteropInv'
  BY TypeStep, ControlStep, CapacityStep, FlightStep, LeaseStep, ScanStep DEF InteropInv

(* What a submission samples is leased: its flight keeps the lease. *)
LEMMA SampledIsHeld ==
  ASSUME InteropInv, NEW f \in Flight, sampled[f] # None
  PROVE  sampled[f] \in Held
  <1>1. sampled[f] = externalFrame[f] /\ sampled[f] \in Lease
    BY DEF InteropInv, FlightInv, TypeOK
  <1>. QED BY <1>1, SizesAssumption DEF Held

(* The invariant holds in every reachable state, however many slots,       *)
(* flights and pictures there are.                                         *)
THEOREM InteropInvariant == Spec => []InteropInv
  BY InteropInvInit, InteropInvStep, PTL DEF Spec

(* Every variable keeps its type. *)
THEOREM TypesKept == Spec => []TypeOK
  <1>1. InteropInv => TypeOK
    BY DEF InteropInv
  <1>. QED BY <1>1, InteropInvariant, PTL

(* The copy ring never runs out of textures: a ring of decodeSlots +       *)
(* framesInFlight + 2 is enough for every number of slots and flights.     *)
THEOREM RingSuffices == Spec => []RingNeverExhausted
  <1>1. InteropInv => RingNeverExhausted
    <2>1. SUFFICES ASSUME InteropInv PROVE attempt < RingSize
      BY DEF RingNeverExhausted
    <2>2. RingSize \in Nat \ {0} /\ attempt \in Nat
      BY <2>1, SizesAssumption DEF InteropInv, TypeOK, RingSize
    <2>3. CASE attempt = 0
      BY <2>2, <2>3
    <2>4. CASE attempt > 0
      <3>1. PICK k \in attempt .. RingSize - 1 :
                   <<generation, (next + k) % RingSize>> \notin InUse
        BY <2>1, <2>4 DEF InteropInv, ScanInv
      <3>. QED BY <2>2, <3>1
    <2>. QED BY <2>2, <2>3, <2>4
  <1>. QED BY <1>1, InteropInvariant, PTL

(* A texture is not overwritten while the GPU samples it: from the moment  *)
(* a submission may read until its fence is signalled, the texture holds   *)
(* the picture the submission was recorded for.                            *)
THEOREM SamplingIsStable == Spec => []SampledPicturesStable
  <1>1. InteropInv => SampledPicturesStable
    <2>1. SUFFICES ASSUME InteropInv, NEW f \in Flight, sampled[f] # None,
                          signalled >= sampled[f].ready
                   PROVE  content[sampled[f].texture] = sampled[f].ready
      BY DEF SampledPicturesStable
    <2>2. sampled[f] \in Held
      BY <2>1, SampledIsHeld
    <2>. QED BY <2>1, <2>2 DEF InteropInv, SettledInv, Settled
  <1>. QED BY <1>1, InteropInvariant, PTL

(* The Vulkan queue never waits for a fence value nobody signals: the      *)
(* split that signals it was executed or is among those D3D11 still has.   *)
THEOREM FenceWaitsAreServed == Spec => []WaitsAreServed
  <1>1. InteropInv => WaitsAreServed
    <2>1. SUFFICES ASSUME InteropInv, NEW f \in Flight, sampled[f] # None
                   PROVE  \/ signalled >= sampled[f].ready
                          \/ \E i \in DOMAIN copies :
                               copies[i].signals /\ copies[i].ready = sampled[f].ready
      BY DEF WaitsAreServed
    <2>2. sampled[f] \in Held /\ sampled[f].ready \in Nat /\ signalled \in Nat
      BY <2>1, SampledIsHeld, HeldType DEF InteropInv, TypeOK, Lease
    <2>. QED BY <2>1, <2>2 DEF InteropInv, SettledInv, Settled
  <1>. QED BY <1>1, InteropInvariant, PTL

(* When the decoder's D3D11 resources are released, no lease of the ring   *)
(* exists and no submission samples one of its textures.                   *)
THEOREM ReleasedAtEnd == Spec => []NothingLeasedAtRelease
  <1>1. InteropInv => NothingLeasedAtRelease
    BY DEF InteropInv, ControlInv, NothingLeasedAtRelease
  <1>. QED BY <1>1, InteropInvariant, PTL

-------------------------------------------------------------------------------
(* TextureImports: the inductive invariant. *)

ImportsTypeOK ==
  /\ cache \subseteq Texture
  /\ cacheGeneration \in 0 .. MaxRings
  /\ importedTexture \in [Flight -> Texture \union {None}]
  /\ imports \in [Texture -> Nat]

(* A flight that keeps a lease keeps the import of its texture. *)
KeptInv ==
  \A f \in Flight : externalFrame[f] # None => importedTexture[f] = externalFrame[f].texture

(* The pictures of the queue, and those to come, are of the ring g or of   *)
(* one made after it.                                                      *)
Ahead(g) ==
  /\ g <= generation
  /\ \A i \in DOMAIN waiting : g <= waiting[i].texture[1]

(* Pictures pass through the queue to the display slot in the order of     *)
(* their rings.                                                            *)
RingsOrdered ==
  /\ writer \in Lease => writer.texture[1] = generation
  /\ \A i \in DOMAIN waiting : waiting[i].texture[1] <= generation
  /\ \A i, j \in DOMAIN waiting : i < j => waiting[i].texture[1] <= waiting[j].texture[1]
  /\ reader \in Lease => Ahead(reader.texture[1])
  /\ displayed \in Lease => Ahead(displayed.texture[1])
  /\ displayed \in Lease /\ reader \in Lease => displayed.texture[1] <= reader.texture[1]

(* The cache is never ahead of a picture that may be presented. *)
CacheBehind ==
  /\ Ahead(cacheGeneration)
  /\ reader \in Lease => cacheGeneration <= reader.texture[1]
  /\ displayed \in Lease => cacheGeneration <= displayed.texture[1]

(* Of the cache's ring, the textures that were imported are in the cache;  *)
(* of the rings after it, none was imported.                               *)
CountInv ==
  /\ \A t \in Texture : imports[t] <= 1
  /\ \A t \in Texture : t[1] = cacheGeneration /\ imports[t] # 0 => t \in cache
  /\ \A t \in Texture : t[1] > cacheGeneration => imports[t] = 0

ImportsInv ==
  /\ InteropInv
  /\ ImportsTypeOK /\ KeptInv /\ RingsOrdered /\ CacheBehind /\ CountInv
-------------------------------------------------------------------------------
(* TextureImports: the refinement. *)

(* A step of TextureImports is one of InteropLeases. *)
LEMMA StepRefines ==
  ASSUME [ImportsNext]_<<vars, importing>>
  PROVE  [Next]_vars
  BY DEF ImportsNext, Next, Prepare, Release

(* TextureImports implements InteropLeases: the ring, its leases and the   *)
(* GPU queues do what they do there.                                       *)
THEOREM ImportsRefine == ImportsSpec => Spec
  <1>1. ImportsInit => Init
    BY DEF ImportsInit
  <1>2. [ImportsNext]_<<vars, importing>> => [Next]_vars
    BY StepRefines
  <1>. QED BY <1>1, <1>2, PTL DEF ImportsSpec, Spec

-------------------------------------------------------------------------------
(* A step preserves each part of the invariant. *)

(* The steps of InteropLeases but the two that touch the imports. *)
Other == DecoderStep \/ GpuStep \/ LoopStep \/ Finished

(* A lease has a texture of some ring. *)
LEMMA LeaseRing ==
  ASSUME NEW lease \in Lease
  PROVE  lease.texture \in Texture /\ lease.texture[1] \in 1 .. MaxRings
  BY DEF Lease, Texture

(* The rings of the waiting pictures are numbers. *)
LEMMA WaitingRings ==
  ASSUME TypeOK, NEW i \in DOMAIN waiting
  PROVE  waiting[i] \in Lease /\ waiting[i].texture[1] \in Nat
  <1>1. waiting[i] \in Lease
    BY DEF TypeOK
  <1>. QED BY <1>1, LeaseRing, SizesAssumption

(* The flights, the display slot and the reader change in few steps. *)
LEMMA FlightsKeep ==
  ASSUME Other
  PROVE  UNCHANGED externalFrame
  BY DEF Other, DecoderStep, GpuStep, LoopStep, Finished, AcquireWrite, AcquireRefused,
     ChooseRing, SkipTexture, CopyDecodedFrame, SignalFails, CommitWrite, CancelWrite,
     EndOfInput, StopAtEnd, D3D11Executes, VulkanFinishes, AcquireRead, CopyOwnedFrame,
     ReleaseRead, Home, AcquireFrame, SubmitAndPresent, LeaveLoop, JoinDecoder, vars,
     rendering

(* The queue loses its oldest picture or all of them, or gets the one that *)
(* was written; a new ring is made while none is.                          *)
LEMMA QueueSteps ==
  ASSUME TypeOK, ControlInv, [Next]_vars
  PROVE  /\ \/ waiting' \in {waiting, <<>>}
            \/ waiting # <<>> /\ waiting' = Tail(waiting)
            \/ writer \in Lease /\ waiting' = Append(waiting, writer)
         /\ \/ generation' = generation
            \/ generation' = generation + 1 /\ writer = Empty /\ writer' = Empty
         /\ \/ writer' \in {writer, None, Empty}
            \/ writer' \in Lease /\ writer'.texture[1] = generation'
  <1>1. CASE CopyDecodedFrame
    <2>1. [texture |-> Candidate, ready |-> issued + 1] \in Lease /\ generation' = generation
      BY <1>1, NewLease DEF CopyDecodedFrame
    <2>2. writer' = [texture |-> Candidate, ready |-> issued + 1] /\ UNCHANGED waiting
      BY <1>1 DEF CopyDecodedFrame, Queue!Write
    <2>. QED BY <2>1, <2>2 DEF Candidate
  <1>2. CASE DecoderStep /\ ~CopyDecodedFrame
    BY <1>2 DEF DecoderStep, AcquireWrite, AcquireRefused, ChooseRing, SkipTexture,
       SignalFails, TakeTexture, CommitWrite, CancelWrite, EndOfInput, StopAtEnd, ControlInv,
       Queue!BeginWrite, Queue!RecycleOldest, Queue!Commit, Queue!Cancel, Queue!Close,
       queue, scan
  <1>3. CASE LoopStep \/ GpuStep
    BY <1>3 DEF LoopStep, GpuStep, AcquireRead, CopyOwnedFrame, ReleaseRead, Home,
       AcquireFrame, SubmitAndPresent, LeaveLoop, JoinDecoder, D3D11Executes,
       VulkanFinishes, Queue!ReadNewest, Queue!ReadOldest, Queue!Release, Queue!Discard,
       Queue!Close, queue, decoding, scan
  <1>4. CASE PrepareFrame \/ ReleaseFrames \/ UNCHANGED vars
    BY <1>4 DEF PrepareFrame, ReleaseFrames, vars, queue, decoding, scan
  <1>. QED BY <1>1, <1>2, <1>3, <1>4 DEF Next, Finished

(* The reader takes the oldest picture, or the newest and no other stays.  *)
LEMMA ReaderSteps ==
  ASSUME TypeOK, [Next]_vars
  PROVE  \/ reader' \in {reader, None}
         \/ /\ waiting # <<>> /\ UNCHANGED <<displayed, generation>>
            /\ \/ reader' = Head(waiting) /\ waiting' = Tail(waiting)
               \/ reader' = waiting[Len(waiting)] /\ waiting' = <<>>
  <1>1. CASE DecoderStep
    BY <1>1 DEF DecoderStep, AcquireWrite, AcquireRefused, ChooseRing, SkipTexture,
       CopyDecodedFrame, SignalFails, CommitWrite, CancelWrite, EndOfInput, StopAtEnd,
       Queue!BeginWrite, Queue!RecycleOldest, Queue!Write, Queue!Commit, Queue!Cancel,
       Queue!Close, queue
  <1>2. CASE LoopStep \/ GpuStep
    BY <1>2 DEF LoopStep, GpuStep, AcquireRead, CopyOwnedFrame, ReleaseRead, Home,
       AcquireFrame, SubmitAndPresent, LeaveLoop, JoinDecoder, D3D11Executes,
       VulkanFinishes, Queue!ReadNewest, Queue!ReadOldest, Queue!Release, Queue!Discard,
       Queue!Close, queue, decoding, scan
  <1>3. CASE PrepareFrame \/ ReleaseFrames \/ UNCHANGED vars
    BY <1>3 DEF PrepareFrame, ReleaseFrames, vars, queue
  <1>. QED BY <1>1, <1>2, <1>3 DEF Next, Finished

(* The display slot changes to what the reader has, or is emptied. *)
LEMMA DisplaySteps ==
  ASSUME [Next]_vars
  PROVE  \/ displayed' \in {displayed, None}
         \/ displayed' = reader /\ UNCHANGED <<waiting, writer, reader, generation>>
  <1>1. CASE DecoderStep
    BY <1>1 DEF DecoderStep, AcquireWrite, AcquireRefused, ChooseRing, SkipTexture,
       CopyDecodedFrame, SignalFails, CommitWrite, CancelWrite, EndOfInput, StopAtEnd,
       rendering
  <1>2. CASE LoopStep \/ GpuStep
    BY <1>2 DEF LoopStep, GpuStep, AcquireRead, CopyOwnedFrame, ReleaseRead, Home,
       AcquireFrame, SubmitAndPresent, LeaveLoop, JoinDecoder, D3D11Executes,
       VulkanFinishes, queue, decoding, scan, rendering
  <1>3. CASE PrepareFrame \/ ReleaseFrames \/ UNCHANGED vars
    BY <1>3 DEF PrepareFrame, ReleaseFrames, vars, rendering
  <1>. QED BY <1>1, <1>2, <1>3 DEF Next, Finished

(* What is in the queue after a step was in it or was just written. *)
LEMMA QueueMembers ==
  ASSUME TypeOK, ControlInv, [Next]_vars
  PROVE  \A i \in DOMAIN waiting' :
           \/ \E j \in DOMAIN waiting : waiting'[i] = waiting[j]
           \/ writer \in Lease /\ waiting'[i] = writer
  <1>1. waiting \in Seq(Lease)
    BY DEF TypeOK
  <1>. QED BY <1>1, QueueSteps, SequenceMembers

(* A ring that is not ahead of the queue never gets ahead of it. *)
LEMMA AheadStep ==
  ASSUME TypeOK, ControlInv, RingsOrdered, [Next]_vars
  PROVE  \A g \in Nat : Ahead(g) => /\ g <= generation'
                                  /\ \A i \in DOMAIN waiting' : g <= waiting'[i].texture[1]
  <1>1. generation \in Nat /\ generation' \in Nat /\ generation <= generation'
    BY QueueSteps DEF TypeOK
  <1>2. ASSUME NEW g \in Nat, Ahead(g), NEW i \in DOMAIN waiting'
        PROVE  g <= waiting'[i].texture[1]
    BY <1>2, QueueMembers DEF Ahead, RingsOrdered
  <1>. QED BY <1>1, <1>2 DEF Ahead

(* The order of the rings is kept. *)
LEMMA OrderStep ==
  ASSUME TypeOK, ControlInv, RingsOrdered, [Next]_vars
  PROVE  RingsOrdered'
  <1>1. generation \in Nat /\ generation' \in Nat /\ generation <= generation'
    BY QueueSteps DEF TypeOK
  <1>2. writer' \in Lease => writer'.texture[1] = generation'
    BY QueueSteps, SizesAssumption DEF RingsOrdered
  <1>3. \A i \in DOMAIN waiting' : waiting'[i].texture[1] <= generation'
    <2>1. SUFFICES ASSUME NEW i \in DOMAIN waiting'
                   PROVE  waiting'[i].texture[1] <= generation'
      OBVIOUS
    <2>2. CASE writer \in Lease /\ waiting'[i] = writer
      BY <1>1, <2>2 DEF RingsOrdered
    <2>3. ASSUME NEW j \in DOMAIN waiting, waiting'[i] = waiting[j]
          PROVE  waiting'[i].texture[1] <= generation'
      BY <1>1, <2>3, WaitingRings DEF RingsOrdered
    <2>. QED BY <2>2, <2>3, QueueMembers
  <1>4. \A i, j \in DOMAIN waiting' :
          i < j => waiting'[i].texture[1] <= waiting'[j].texture[1]
    <2>1. CASE waiting' \in {waiting, <<>>}
      BY <2>1 DEF RingsOrdered
    <2>2. CASE waiting # <<>> /\ waiting' = Tail(waiting)
      <3>1. \A i \in DOMAIN waiting' : i \in Nat /\ i + 1 \in DOMAIN waiting
                                      /\ waiting'[i] = waiting[i + 1]
        BY <2>2 DEF TypeOK
      <3>. QED BY <3>1 DEF RingsOrdered
    <2>3. CASE writer \in Lease /\ waiting' = Append(waiting, writer)
      <3>1. /\ Len(waiting) \in Nat /\ DOMAIN waiting = 1 .. Len(waiting)
            /\ DOMAIN waiting' = 1 .. Len(waiting) + 1
            /\ waiting'[Len(waiting) + 1] = writer
            /\ \A i \in DOMAIN waiting : waiting'[i] = waiting[i]
        BY <2>3 DEF TypeOK
      <3>2. writer.texture[1] = generation
        BY <2>3 DEF RingsOrdered
      <3>. QED BY <3>1, <3>2 DEF RingsOrdered
    <2>. QED BY <2>1, <2>2, <2>3, QueueSteps
  <1>5. reader' \in Lease =>
          /\ reader'.texture[1] <= generation'
          /\ \A i \in DOMAIN waiting' : reader'.texture[1] <= waiting'[i].texture[1]
    <2>1. CASE reader' \in {reader, None}
      <3>1. SUFFICES ASSUME reader' \in Lease
                     PROVE  /\ reader.texture[1] <= generation'
                            /\ \A i \in DOMAIN waiting' :
                                 reader.texture[1] <= waiting'[i].texture[1]
        BY <2>1, SizesAssumption
      <3>2. reader \in Lease
        BY <2>1, <3>1, SizesAssumption
      <3>3. reader.texture[1] \in Nat /\ Ahead(reader.texture[1])
        BY <3>2, LeaseRing, SizesAssumption DEF RingsOrdered
      <3>. QED BY <3>3, AheadStep
    <2>2. CASE /\ waiting # <<>> /\ UNCHANGED <<displayed, generation>>
               /\ reader' = Head(waiting) /\ waiting' = Tail(waiting)
      <3>1. /\ 1 \in DOMAIN waiting /\ reader' = waiting[1]
            /\ \A i \in DOMAIN waiting' : i \in Nat /\ 1 < i + 1 /\ i + 1 \in DOMAIN waiting
                                         /\ waiting'[i] = waiting[i + 1]
        BY <2>2 DEF TypeOK
      <3>. QED BY <2>2, <3>1 DEF RingsOrdered
    <2>3. CASE /\ waiting # <<>> /\ UNCHANGED <<displayed, generation>>
               /\ reader' = waiting[Len(waiting)] /\ waiting' = <<>>
      <3>1. Len(waiting) \in DOMAIN waiting /\ DOMAIN waiting' = {}
        BY <2>3 DEF TypeOK
      <3>. QED BY <2>3, <3>1 DEF RingsOrdered
    <2>. QED BY <2>1, <2>2, <2>3, ReaderSteps
  <1>6. displayed' \in Lease =>
          /\ displayed'.texture[1] <= generation'
          /\ \A i \in DOMAIN waiting' : displayed'.texture[1] <= waiting'[i].texture[1]
    <2>1. CASE displayed' \in {displayed, None}
      <3>1. SUFFICES ASSUME displayed' \in Lease
                     PROVE  /\ displayed.texture[1] <= generation'
                            /\ \A i \in DOMAIN waiting' :
                                 displayed.texture[1] <= waiting'[i].texture[1]
        BY <2>1, SizesAssumption
      <3>2. displayed \in Lease
        BY <2>1, <3>1, SizesAssumption
      <3>3. displayed.texture[1] \in Nat /\ Ahead(displayed.texture[1])
        BY <3>2, LeaseRing, SizesAssumption DEF RingsOrdered
      <3>. QED BY <3>3, AheadStep
    <2>2. CASE displayed' = reader /\ UNCHANGED <<waiting, writer, reader, generation>>
      BY <2>2 DEF RingsOrdered, Ahead
    <2>. QED BY <2>1, <2>2, DisplaySteps
  <1>7. displayed' \in Lease /\ reader' \in Lease =>
          displayed'.texture[1] <= reader'.texture[1]
    <2>1. CASE displayed' = reader /\ UNCHANGED <<waiting, writer, reader, generation>>
      BY <2>1, LeaseRing, SizesAssumption
    <2>2. CASE displayed' \in {displayed, None} /\ reader' \in {reader, None}
      BY <2>2, SizesAssumption DEF RingsOrdered
    <2>3. CASE /\ waiting # <<>> /\ UNCHANGED <<displayed, generation>>
               /\ \/ reader' = Head(waiting) /\ waiting' = Tail(waiting)
                  \/ reader' = waiting[Len(waiting)] /\ waiting' = <<>>
      <3>1. \E i \in DOMAIN waiting : reader' = waiting[i]
        BY <2>3 DEF TypeOK
      <3>. QED BY <2>3, <3>1 DEF RingsOrdered, Ahead
    <2>. QED BY <2>1, <2>2, <2>3, ReaderSteps, DisplaySteps
  <1>. QED BY <1>2, <1>3, <1>4, <1>5, <1>6, <1>7 DEF RingsOrdered, Ahead

(* The cache stays behind while nothing is presented. *)
LEMMA CacheBehindStep ==
  ASSUME TypeOK, ControlInv, RingsOrdered, CacheBehind, cacheGeneration \in Nat,
         [Next]_vars, UNCHANGED cacheGeneration
  PROVE  CacheBehind'
  <1>1. /\ cacheGeneration <= generation'
        /\ \A i \in DOMAIN waiting' : cacheGeneration <= waiting'[i].texture[1]
    BY AheadStep DEF CacheBehind
  <1>2. reader' \in Lease => cacheGeneration <= reader'.texture[1]
    <2>1. CASE reader' \in {reader, None}
      BY <2>1, SizesAssumption DEF CacheBehind
    <2>2. CASE /\ waiting # <<>>
               /\ \/ reader' = Head(waiting) /\ waiting' = Tail(waiting)
                  \/ reader' = waiting[Len(waiting)] /\ waiting' = <<>>
      <3>1. \E i \in DOMAIN waiting : reader' = waiting[i]
        BY <2>2 DEF TypeOK
      <3>. QED BY <3>1 DEF CacheBehind, Ahead
    <2>. QED BY <2>1, <2>2, ReaderSteps
  <1>3. displayed' \in Lease => cacheGeneration <= displayed'.texture[1]
    BY DisplaySteps, SizesAssumption DEF CacheBehind
  <1>. QED BY <1>1, <1>2, <1>3 DEF CacheBehind, Ahead

(* Presenting a picture imports its texture if the cache lacks it, and     *)
(* keeps the order, the counts and what the flights keep.                  *)
LEMMA PrepareStep ==
  ASSUME ImportsInv, Prepare
  PROVE  ImportsTypeOK' /\ KeptInv' /\ RingsOrdered' /\ CacheBehind' /\ CountInv'
  <1> DEFINE d == displayed.texture
  <1>1. TypeOK /\ ControlInv /\ displayed \in Lease /\ current \in Flight
    BY DEF ImportsInv, InteropInv, Prepare, PrepareFrame, ControlInv, TypeOK
  <1>2. d \in Texture /\ d[1] \in Nat /\ d[1] \in 0 .. MaxRings /\ cacheGeneration \in Nat
    BY <1>1, LeaseRing, SizesAssumption DEF ImportsInv, ImportsTypeOK
  <1>3. /\ UNCHANGED <<waiting, writer, reader, displayed, generation>>
        /\ externalFrame' = [externalFrame EXCEPT ![current] = displayed]
    BY DEF Prepare, PrepareFrame, queue, decoding, scan
  <1>4. /\ cacheGeneration' = d[1]
        /\ cache' = Cached \union {d}
        /\ imports' = IF d \in Cached THEN imports ELSE [imports EXCEPT ![d] = @ + 1]
        /\ importedTexture' = [importedTexture EXCEPT ![current] = d]
    BY DEF Prepare, Import
  <1>5. cacheGeneration <= d[1]
    BY <1>1 DEF ImportsInv, CacheBehind
  <1>6. Cached = IF d[1] = cacheGeneration THEN cache ELSE {}
    BY DEF Cached
  <1>7. imports \in [Texture -> Nat] /\ cache \subseteq Texture
    BY DEF ImportsInv, ImportsTypeOK
  <1>8. ImportsTypeOK'
    BY <1>1, <1>2, <1>4, <1>6, <1>7 DEF ImportsInv, ImportsTypeOK
  <1>9. KeptInv'
    BY <1>1, <1>3, <1>4 DEF ImportsInv, ImportsTypeOK, InteropInv, TypeOK, KeptInv
  <1>10. RingsOrdered'
    BY <1>3 DEF ImportsInv, RingsOrdered, Ahead
  <1>11. CacheBehind'
    <2>1. /\ d[1] <= generation /\ d[1] <= d[1]
          /\ \A i \in DOMAIN waiting : d[1] <= waiting[i].texture[1]
          /\ reader \in Lease => d[1] <= reader.texture[1]
      BY <1>1, <1>2 DEF ImportsInv, RingsOrdered, Ahead
    <2>. QED BY <2>1, <1>3, <1>4 DEF CacheBehind, Ahead
  <1>12. /\ \A t \in Texture : t[1] \in Nat /\ imports[t] \in Nat
         /\ \A t \in Texture : imports[t] <= 1
         /\ \A t \in Texture : t[1] = cacheGeneration /\ imports[t] # 0 => t \in cache
         /\ \A t \in Texture : t[1] > cacheGeneration => imports[t] = 0
    BY <1>7, SizesAssumption DEF ImportsInv, CountInv, Texture
  <1> HIDE DEF d
  <1>13. d \notin Cached => imports[d] = 0
    BY <1>2, <1>5, <1>6, <1>12
  <1>14. /\ \A t \in Texture : t # d => imports'[t] = imports[t]
         /\ imports'[d] \in {imports[d], imports[d] + 1}
         /\ d \in Cached => imports'[d] = imports[d]
    BY <1>2, <1>4, <1>7
  <1>15. CountInv'
    <2>1. \A t \in Texture : imports'[t] <= 1
      BY <1>2, <1>12, <1>13, <1>14
    <2>2. \A t \in Texture : t[1] = cacheGeneration' /\ imports'[t] # 0 => t \in cache'
      BY <1>2, <1>4, <1>5, <1>6, <1>12, <1>14
    <2>3. \A t \in Texture : t[1] > cacheGeneration' => imports'[t] = 0
      BY <1>2, <1>4, <1>5, <1>12, <1>14
    <2>. QED BY <2>1, <2>2, <2>3 DEF CountInv
  <1>. QED BY <1>8, <1>9, <1>10, <1>11, <1>15

(* Every step keeps the invariant. *)
LEMMA ImportsInvStep ==
  ASSUME ImportsInv, [ImportsNext]_<<vars, importing>>
  PROVE  ImportsInv'
  <1>1. [Next]_vars /\ TypeOK /\ ControlInv /\ RingsOrdered /\ CacheBehind
        /\ cacheGeneration \in Nat
    BY StepRefines, SizesAssumption DEF ImportsInv, InteropInv, ImportsTypeOK
  <1>2. InteropInv'
    BY <1>1, InteropInvStep DEF ImportsInv
  <1>3. CASE Prepare
    BY <1>2, <1>3, PrepareStep DEF ImportsInv
  <1>4. CASE Release
    <2>1. UNCHANGED <<cache, cacheGeneration, imports>>
      BY <1>4 DEF Release
    <2>2. RingsOrdered' /\ CacheBehind'
      BY <1>1, <2>1, OrderStep, CacheBehindStep
    <2>3. ImportsTypeOK' /\ CountInv'
      BY <1>4, <2>1 DEF ImportsInv, ImportsTypeOK, CountInv, Release
    <2>4. KeptInv'
      BY <1>4 DEF Release, ReleaseFrames, KeptInv
    <2>. QED BY <1>2, <2>2, <2>3, <2>4 DEF ImportsInv
  <1>5. CASE Other /\ UNCHANGED importing
    <2>1. UNCHANGED <<cache, cacheGeneration, importedTexture, imports, externalFrame>>
      BY <1>5, FlightsKeep DEF importing
    <2>2. RingsOrdered' /\ CacheBehind'
      BY <1>1, <2>1, OrderStep, CacheBehindStep
    <2>. QED BY <1>2, <2>1, <2>2 DEF ImportsInv, ImportsTypeOK, KeptInv, CountInv
  <1>6. CASE UNCHANGED <<vars, importing>>
    <2>1. UNCHANGED <<cache, cacheGeneration, importedTexture, imports, externalFrame>>
      BY <1>6 DEF importing, vars, rendering
    <2>2. RingsOrdered' /\ CacheBehind'
      BY <1>1, <2>1, OrderStep, CacheBehindStep
    <2>. QED BY <1>2, <2>1, <2>2 DEF ImportsInv, ImportsTypeOK, KeptInv, CountInv
  <1>. QED BY <1>3, <1>4, <1>5, <1>6 DEF ImportsNext, Other

(* The initial states satisfy it. *)
LEMMA ImportsInvInit == ImportsInit => ImportsInv
  <1>1. SUFFICES ASSUME ImportsInit PROVE ImportsInv
    OBVIOUS
  <1>2. /\ InteropInv
        /\ waiting = <<>> /\ writer = None /\ reader = None /\ displayed = None
        /\ generation = 0 /\ DOMAIN waiting = {}
    BY <1>1, InteropInvInit DEF ImportsInit, Init, Queue!ChannelInit
  <1>3. ImportsTypeOK /\ KeptInv
    BY <1>1, SizesAssumption DEF ImportsInit, Init, ImportsTypeOK, KeptInv
  <1>4. RingsOrdered /\ CacheBehind
    BY <1>1, <1>2, SizesAssumption DEF ImportsInit, RingsOrdered, CacheBehind, Ahead
  <1>5. CountInv
    BY <1>1 DEF ImportsInit, CountInv
  <1>. QED BY <1>2, <1>3, <1>4, <1>5 DEF ImportsInv

-------------------------------------------------------------------------------
(* The theorems. *)

(* The invariant holds in every reachable state, however many rings        *)
(* replace each other.                                                     *)
THEOREM ImportsInvariant == ImportsSpec => []ImportsInv
  <1>1. ImportsInv /\ [ImportsNext]_<<vars, importing>> => ImportsInv'
    BY ImportsInvStep
  <1>. QED BY <1>1, ImportsInvInit, PTL DEF ImportsSpec

(* No submission samples an image whose last reference is gone: the cache  *)
(* may be emptied for another ring, the flight still has the import.       *)
THEOREM ImportsOutlive == ImportsSpec => []ImportsOutliveSubmissions
  <1>1. ImportsInv => ImportsOutliveSubmissions
    <2>1. SUFFICES ASSUME ImportsInv, NEW f \in Flight, sampled[f] # None
                   PROVE  sampled[f].texture \in {importedTexture[g] : g \in Flight}
      BY DEF ImportsOutliveSubmissions
    <2>2. sampled[f] = externalFrame[f]
      BY <2>1 DEF ImportsInv, InteropInv, FlightInv
    <2>. QED BY <2>1, <2>2 DEF ImportsInv, KeptInv
  <1>. QED BY <1>1, ImportsInvariant, PTL

(* However rings replace each other while older frames are presented, no   *)
(* texture is imported a second time.                                      *)
THEOREM NoSecondImport == ImportsSpec => []ImportedOnce
  <1>1. ImportsInv => ImportedOnce
    BY DEF ImportsInv, CountInv, ImportedOnce
  <1>. QED BY <1>1, ImportsInvariant, PTL
===============================================================================
