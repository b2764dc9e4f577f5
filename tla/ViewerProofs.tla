------------------------------ MODULE ViewerProofs -----------------------------
(***************************************************************************)
(* Theorems about Viewer, for every file, frame rate, history and          *)
(* scenario: time spent in a pause counts neither for the clock nor for    *)
(* the telemetry, however the user pauses, steps, zooms and seeks; the     *)
(* histories tell what was presented; and the picture on the screen is the *)
(* one that is reported, for every size of picture and window.             *)
(***************************************************************************)
EXTENDS Viewer, SequenceTheorems, WellFoundedInduction, TLAPS

-------------------------------------------------------------------------------
(* The inductive invariant. *)

TimesAreNumbers ==
  /\ {now, wallStart, played, active} \subseteq Int
  /\ pauseStarted \in Int \union {None}
  /\ lastActivePresent \in Int \union {None}

(* The clock of a file stands exactly while the loop is paused. *)
ClockStandsInPauses ==
  /\ Live => firstPts = None /\ pauseStarted = None
  /\ ~paused => pauseStarted = None
  /\ paused /\ firstPts # None => pauseStarted # None

TimeInv ==
  TimesAreNumbers /\ ClockStandsInPauses /\ PausesDoNotCount /\ PauseShiftsOrigin

-------------------------------------------------------------------------------
(* A step keeps it. *)

(* Time passes. *)
LEMMA TickStep ==
  ASSUME TimeInv, Tick
  PROVE  TimeInv'
  BY NoneAssumption DEF Tick, TimeInv, TimesAreNumbers, ClockStandsInPauses, PausesDoNotCount,
     PauseShiftsOrigin, loop, Live

(* Steps that touch neither the clock nor the anchor nor the pause. *)
LEMMA TimelessStep ==
  ASSUME TimeInv, UNCHANGED <<scenario, now, paused, clock, lastActivePresent, active>>
  PROVE  TimeInv'
  BY DEF TimeInv, TimesAreNumbers, ClockStandsInPauses, PausesDoNotCount, PauseShiftsOrigin,
     clock, Live

(* A pause begins or ends; both records notice. *)
LEMMA PollStep ==
  ASSUME TimeInv, PollEvents
  PROVE  TimeInv'
  <1>1. UNCHANGED <<scenario, now>>
    BY DEF PollEvents
  <1>2. CASE UNCHANGED <<paused, clock, telemetry>>
    BY <1>1, <1>2, TimelessStep DEF telemetry
  <1>3. ASSUME paused' = ~paused,
               IF ~Live THEN IF paused' THEN Pause ELSE Resume ELSE UNCHANGED clock,
               IF ~paused' THEN ForgetAnchor ELSE UNCHANGED telemetry
        PROVE  TimeInv'
    <2>1. TimesAreNumbers'
      BY <1>1, <1>3, NoneAssumption DEF TimeInv, TimesAreNumbers, Pause, Resume, ForgetAnchor,
         clock, telemetry
    <2>2. ClockStandsInPauses'
      <3>1. CASE Live
        BY <1>1, <1>3, <3>1 DEF TimeInv, ClockStandsInPauses, clock, Live
      <3>2. CASE ~Live /\ paused
        BY <1>1, <1>3, <3>2 DEF TimeInv, ClockStandsInPauses, Resume, Live
      <3>3. CASE ~Live /\ ~paused
        BY <1>1, <1>3, <3>3, NoneAssumption DEF TimeInv, TimesAreNumbers, ClockStandsInPauses,
           Pause, Live
      <3>. QED BY <3>1, <3>2, <3>3
    <2>3. PausesDoNotCount'
      BY <1>1, <1>3 DEF TimeInv, PausesDoNotCount, ForgetAnchor
    <2>4. PauseShiftsOrigin'
      BY <1>1, <1>3, NoneAssumption DEF TimeInv, TimesAreNumbers, ClockStandsInPauses,
         PauseShiftsOrigin, Pause, Resume, clock
    <2>. QED BY <2>1, <2>2, <2>3, <2>4 DEF TimeInv
  <1>. QED BY <1>2, <1>3 DEF PollEvents

(* Home stops the clock and forgets the anchor. *)
LEMMA HomeStep ==
  ASSUME TimeInv, Home
  PROVE  TimeInv'
  <1>1. CASE "seek" \notin events
    BY <1>1, TimelessStep DEF Home, loop, telemetry
  <1>2. CASE "seek" \in events
    <2>1. /\ UNCHANGED <<scenario, now, paused>> /\ ResetActivePlayback
          /\ IF Live THEN UNCHANGED clock ELSE ResetClock
      BY <1>2 DEF Home
    <2>. QED BY <2>1 DEF TimeInv, TimesAreNumbers, ClockStandsInPauses, PausesDoNotCount,
         PauseShiftsOrigin, ResetActivePlayback, ResetClock, clock, Live
  <1>. QED BY <1>1, <1>2

(* The zoom inspector begins a pause. *)
LEMMA WindowStep ==
  ASSUME TimeInv, HandleWindow
  PROVE  TimeInv'
  <1>1. UNCHANGED <<scenario, now, lastActivePresent, active>>
    BY DEF HandleWindow, telemetry
  <1>2. CASE UNCHANGED <<paused, clock>>
    BY <1>1, <1>2, TimelessStep
  <1>3. CASE ~paused /\ paused' = TRUE /\ IF Live THEN UNCHANGED clock ELSE Pause
    BY <1>1, <1>3, NoneAssumption DEF TimeInv, TimesAreNumbers, ClockStandsInPauses,
       PausesDoNotCount, PauseShiftsOrigin, Pause, clock, Live
  <1>. QED BY <1>2, <1>3 DEF HandleWindow

(* A frame of a file may start the clock, in a pause as a standing one.    *)
LEMMA TakeStep ==
  ASSUME TimeInv, TakeFile
  PROVE  TimeInv'
  <1>1. UNCHANGED <<scenario, now, paused>> /\ ~Live
    BY DEF TakeFile
  <1>2. \/ UNCHANGED clock /\ (paused => firstPts # None)
        \/ wallStart' = now /\ played' = 0 /\ pauseStarted' = IF paused THEN now ELSE None
    BY DEF TakeFile, StartClock
  <1>3. \/ UNCHANGED <<lastActivePresent, active>>
        \/ lastActivePresent' = None /\ active' = 0
    BY DEF TakeFile, ResetActivePlayback, telemetry
  <1>. QED BY <1>1, <1>2, <1>3, NoneAssumption DEF TimeInv, TimesAreNumbers,
       ClockStandsInPauses, PausesDoNotCount, PauseShiftsOrigin, clock, Live

(* An active present is the anchor of the next interval. *)
LEMMA PresentStep ==
  ASSUME TimeInv, Present
  PROVE  TimeInv'
  <1>1. UNCHANGED <<scenario, now, paused, clock>>
    BY DEF Present, loop
  <1>2. \/ UNCHANGED <<lastActivePresent, active>>
        \/ lastActivePresent' = now /\ active' = 0
    BY DEF Present, CountPresent
  <1>. QED BY <1>1, <1>2 DEF TimeInv, TimesAreNumbers, ClockStandsInPauses,
       PausesDoNotCount, PauseShiftsOrigin, clock, Live

(* Every step keeps the invariant. *)
LEMMA TimeInvStep == TimeInv /\ [Next]_vars => TimeInv'
  <1>1. SUFFICES ASSUME TimeInv, [Next]_vars PROVE TimeInv'
    OBVIOUS
  <1>2. CASE Resize \/ HandleEscape \/ TakeLive \/ KeepFrame \/ EndOfFile \/ DropLate
          \/ Choose \/ NoExtent \/ AcquireFails \/ Finished \/ UNCHANGED vars
    <2>1. UNCHANGED <<scenario, now, paused, clock, lastActivePresent, active>>
      BY <1>2 DEF Resize, HandleEscape, TakeLive, KeepFrame, EndOfFile, DropLate, Choose,
         NoExtent, AcquireFails, Finished, vars, loop, telemetry
    <2>. QED BY <1>1, <2>1, TimelessStep
  <1>. QED BY <1>1, <1>2, TickStep, PollStep, HomeStep, WindowStep, TakeStep, PresentStep
       DEF Next

(* The initial states satisfy it. *)
LEMMA TimeInvInit == Init => TimeInv
  BY DEF Init, TimeInv, TimesAreNumbers, ClockStandsInPauses, PausesDoNotCount,
     PauseShiftsOrigin

-------------------------------------------------------------------------------
(* The theorems. *)

(* The clocks agree about what a pause is in every reachable state. *)
THEOREM TimeInvariant == Spec => []TimeInv
  BY TimeInvInit, TimeInvStep, PTL DEF Spec

(* No pause is counted as frame time: the interval the next active present *)
(* will record is time the playback was running.                           *)
THEOREM PausesNeverCount == Spec => []PausesDoNotCount
  <1>1. TimeInv => PausesDoNotCount
    BY DEF TimeInv
  <1>. QED BY <1>1, TimeInvariant, PTL

(* A frame is due by the time that was played: pauses move the origin of   *)
(* the clock by what they last.                                            *)
THEOREM PausesShiftTheOrigin == Spec => []PauseShiftsOrigin
  <1>1. TimeInv => PauseShiftsOrigin
    BY DEF TimeInv
  <1>. QED BY <1>1, TimeInvariant, PTL

-------------------------------------------------------------------------------
(* Induction. *)

(* A set of numbers that has a member has a least one. *)
LEMMA LeastNumber ==
  ASSUME NEW T, T \subseteq Nat, T # {}
  PROVE  \E x \in T : \A y \in T : x <= y
  <1> DEFINE R == OpToRel(<, Nat)
  <1>1. IsWellFoundedOn(R, Nat)
    BY NatLessThanWellFounded
  <1>2. \A x, y \in Nat : <<y, x>> \in R <=> y < x
    BY DEF OpToRel
  <1>. HIDE DEF R
  <1>3. PICK x \in T : \A y \in T : ~(<<y, x>> \in R)
    BY <1>1, WFMin
  <1>4. ASSUME NEW y \in T PROVE x <= y
    <2>1. ~(y < x)
      BY <1>2, <1>3
    <2>. QED BY <2>1
  <1>. QED BY <1>4

(* What holds of zero, and of a number up to n when it holds of the one    *)
(* before, holds of them all.                                              *)
LEMMA Inductive ==
  ASSUME NEW n \in Nat, NEW T, 0 \in T, \A i \in 1 .. n : i - 1 \in T => i \in T
  PROVE  \A i \in 0 .. n : i \in T
  <1> DEFINE Missing == {i \in 0 .. n : i \notin T}
  <1>. SUFFICES ASSUME Missing # {} PROVE FALSE
    OBVIOUS
  <1>1. PICK m \in Missing : \A i \in Missing : m <= i
    <2>1. Missing \subseteq Nat
      OBVIOUS
    <2>. HIDE DEF Missing
    <2>. QED BY <2>1, LeastNumber
  <1>2. m \in 0 .. n /\ m \notin T
    OBVIOUS
  <1>3. m \in 1 .. n /\ m - 1 \in 0 .. n
    BY <1>2
  <1>4. m - 1 \in T
    BY <1>1, <1>3
  <1>. QED BY <1>2, <1>3, <1>4

-------------------------------------------------------------------------------
(* Sums. *)

(* The function s is the running sum of the first n of e. *)
IsSum(s, e, n) ==
  /\ s \in [0 .. n -> Int]
  /\ s[0] = 0
  /\ \A i \in 1 .. n : s[i] = s[i - 1] + e[i]

(* Every list of numbers has running sums. *)
LEMMA SumExists ==
  ASSUME NEW n \in Nat, NEW e, \A i \in 1 .. n : e[i] \in Int
  PROVE  \E s : IsSum(s, e, n)
  <1> DEFINE T == {m \in 0 .. n : \E s : IsSum(s, e, m)}
  <1>1. 0 \in T
    <2>1. IsSum([i \in 0 .. 0 |-> 0], e, 0)
      BY DEF IsSum
    <2>. QED BY <2>1
  <1>2. ASSUME NEW m \in 1 .. n, m - 1 \in T PROVE m \in T
    <2>1. PICK s : IsSum(s, e, m - 1)
      BY <1>2
    <2> DEFINE t == [i \in 0 .. m |-> IF i = m THEN s[m - 1] + e[m] ELSE s[i]]
    <2>2. \A i \in 0 .. m - 1 : s[i] \in Int
      BY <2>1 DEF IsSum
    <2>3. m - 1 \in 0 .. m - 1 /\ e[m] \in Int /\ s[m - 1] \in Int
      BY <2>2
    <2>4. t \in [0 .. m -> Int]
      BY <2>2, <2>3
    <2>5. t[0] = 0
      BY <2>1 DEF IsSum
    <2>6. ASSUME NEW i \in 1 .. m PROVE t[i] = t[i - 1] + e[i]
      <3>1. CASE i = m
        BY <2>3, <3>1
      <3>2. CASE i # m
        <4>1. i \in 1 .. m - 1 /\ i - 1 \in 0 .. m /\ i - 1 # m
          BY <3>2
        <4>. QED BY <2>1, <3>2, <4>1 DEF IsSum
      <3>. QED BY <3>1, <3>2
    <2>7. IsSum(t, e, m)
      BY <2>4, <2>5, <2>6 DEF IsSum
    <2>. QED BY <2>7
  <1>. HIDE DEF T
  <1>3. n \in T
    BY <1>1, <1>2, Inductive
  <1>. QED BY <1>3 DEF T

(* There is only one: what recursion defines is it. *)
LEMMA SumUnique ==
  ASSUME NEW n \in Nat, NEW e, NEW s, IsSum(s, e, n),
         NEW f, f = [i \in 0 .. n |-> IF i = 0 THEN 0 ELSE f[i - 1] + e[i]]
  PROVE  f = s
  <1> DEFINE T == {i \in 0 .. n : f[i] = s[i]}
  <1>1. f[0] = 0 /\ \A i \in 1 .. n : f[i] = f[i - 1] + e[i]
    <2>1. \A i \in 0 .. n : f[i] = IF i = 0 THEN 0 ELSE f[i - 1] + e[i]
      OBVIOUS
    <2>. QED BY <2>1
  <1>2. 0 \in T
    BY <1>1 DEF IsSum
  <1>3. ASSUME NEW i \in 1 .. n, i - 1 \in T PROVE i \in T
    BY <1>1, <1>3 DEF IsSum
  <1>. HIDE DEF T
  <1>4. \A i \in 0 .. n : i \in T
    BY <1>2, <1>3, Inductive
  <1>5. \A i \in 0 .. n : f[i] = s[i]
    BY <1>4 DEF T
  <1>6. DOMAIN f = 0 .. n /\ f = [i \in 0 .. n |-> f[i]]
    <2>1. \E g : f = [i \in 0 .. n |-> g[i]]
      <3>1. f = [i \in 0 .. n |-> [j \in 0 .. n |-> IF j = 0 THEN 0 ELSE f[j - 1] + e[j]][i]]
        OBVIOUS
      <3>. QED BY <3>1
    <2>. QED BY <2>1
  <1>. QED BY <1>5, <1>6 DEF IsSum

(* The first k of two lists agree, but perhaps for number j. *)
AgreeBut(e, d, j, k) ==
  \A i \in 1 .. k : e[i] \in Int /\ d[i] \in Int /\ (i # j => e[i] = d[i])

(* One of the numbers changes: the sums behind it change by as much. *)
LEMMA SumChanged ==
  ASSUME NEW n \in Nat, NEW m \in Nat, NEW k \in Nat, k <= n, k <= m,
         NEW e, NEW d, NEW s, NEW t, IsSum(s, e, n), IsSum(t, d, m),
         NEW j \in Nat \ {0}, AgreeBut(e, d, j, k)
  PROVE  \A i \in 0 .. k : t[i] = s[i] + (IF j <= i THEN d[j] - e[j] ELSE 0)
  <1>0. \A i \in 1 .. k : e[i] \in Int /\ d[i] \in Int /\ (i # j => e[i] = d[i])
    BY DEF AgreeBut
  <1> DEFINE T == {i \in 0 .. k : t[i] = s[i] + (IF j <= i THEN d[j] - e[j] ELSE 0)}
  <1>1. \A i \in 0 .. k : i \in 0 .. n /\ i \in 0 .. m /\ s[i] \in Int /\ t[i] \in Int
    BY DEF IsSum
  <1>2. 0 \in T
    BY <1>1 DEF IsSum
  <1>3. ASSUME NEW i \in 1 .. k, i - 1 \in T PROVE i \in T
    <2>1. /\ s[i] = s[i - 1] + e[i] /\ t[i] = t[i - 1] + d[i]
          /\ s[i - 1] \in Int /\ t[i - 1] \in Int /\ e[i] \in Int /\ d[i] \in Int
      <3>1. i \in 1 .. n /\ i \in 1 .. m /\ i - 1 \in 0 .. k
        OBVIOUS
      <3>. QED BY <1>0, <1>1, <3>1 DEF IsSum
    <2>2. t[i - 1] = s[i - 1] + (IF j <= i - 1 THEN d[j] - e[j] ELSE 0)
      BY <1>3
    <2>3. CASE i = j
      BY <2>1, <2>2, <2>3
    <2>4. CASE i < j
      <3>1. e[i] = d[i] /\ ~(j <= i - 1) /\ ~(j <= i)
        BY <1>0, <2>4
      <3>. QED BY <2>1, <2>2, <3>1
    <2>5. CASE i > j
      <3>1. e[i] = d[i] /\ j <= i - 1 /\ j <= i /\ j \in 1 .. k
        BY <1>0, <2>5
      <3>2. d[j] \in Int /\ e[j] \in Int
        BY <1>0, <3>1
      <3>. QED BY <2>1, <2>2, <3>1, <3>2
    <2>. QED BY <2>3, <2>4, <2>5
  <1>. HIDE DEF T
  <1>4. \A i \in 0 .. k : i \in T
    BY <1>2, <1>3, Inductive
  <1>. QED BY <1>4 DEF T

(* A recursive definition of a running sum defines it. *)
LEMMA RecursiveSum ==
  ASSUME NEW n \in Nat, NEW e, NEW s, IsSum(s, e, n)
  PROVE  LET sum[i \in 0 .. n] == IF i = 0 THEN 0 ELSE sum[i - 1] + e[i] IN sum = s
  <1> DEFINE sum[i \in 0 .. n] == IF i = 0 THEN 0 ELSE sum[i - 1] + e[i]
  <1>1. s = [i \in 0 .. n |-> IF i = 0 THEN 0 ELSE s[i - 1] + e[i]]
    BY DEF IsSum
  <1>2. \E f : f = [i \in 0 .. n |-> IF i = 0 THEN 0 ELSE f[i - 1] + e[i]]
    BY <1>1
  <1>3. sum = [i \in 0 .. n |-> IF i = 0 THEN 0 ELSE sum[i - 1] + e[i]]
    BY <1>2, Zenon
  <1>4. sum = s
    <2>. HIDE DEF sum
    <2>. QED BY <1>3, SumUnique
  <1>. QED BY <1>4, Zenon

-------------------------------------------------------------------------------
(* The histories. *)

(* Where the ring keeps the value added k values before the latest. *)
Back(cursor, k) == IF k < cursor THEN cursor - 1 - k ELSE cursor + History - 1 - k

Ring == [values : [0 .. History - 1 -> Int], cursor : 0 .. History - 1,
         count : 0 .. History, capacity : {History}]

(* The array of a ring holds the newest of a list of numbers, going back   *)
(* from the cursor, and while it is not full it is filled from its first   *)
(* place on.                                                               *)
Holds(ring, list) ==
  /\ list \in Seq(Int) /\ ring \in Ring
  /\ ring.count = IF Len(list) < History THEN Len(list) ELSE History
  /\ ring.count < History => ring.cursor = ring.count
  /\ \A k \in 0 .. ring.count - 1 :
       ring.values[Back(ring.cursor, k)] = list[Len(list) - k]

(* The array's places, counted from one. *)
Places(ring) == [i \in 1 .. History |-> ring.values[i - 1]]

(* The average of a history runs over the places in use. *)
LEMMA AverageOfPlaces ==
  ASSUME NEW ring, ring.count \in 0 .. History,
         NEW s, IsSum(s, Places(ring), ring.count)
  PROVE  AverageInterval(ring).span = s[ring.count]
  <1> DEFINE n == ring.count
             sum[k \in 0 .. n] == IF k = 0 THEN 0 ELSE sum[k - 1] + ring.values[k - 1]
  <1>0. n \in Nat /\ n <= History
    BY HistoryAssumption
  <1>1. \A i \in 1 .. n : Places(ring)[i] = ring.values[i - 1]
    BY <1>0, HistoryAssumption DEF Places
  <1>2. s = [i \in 0 .. n |-> IF i = 0 THEN 0 ELSE s[i - 1] + ring.values[i - 1]]
    <2>. HIDE DEF n
    <2>1. IsSum(s, Places(ring), n)
      BY DEF n
    <2>2. \A i \in 1 .. n : s[i] = s[i - 1] + ring.values[i - 1]
      BY <1>1, <2>1 DEF IsSum
    <2>3. s \in [0 .. n -> Int] /\ s[0] = 0
      BY <2>1 DEF IsSum
    <2>. QED BY <1>0, <2>2, <2>3
  <1>3. \E f : f = [i \in 0 .. n |-> IF i = 0 THEN 0 ELSE f[i - 1] + ring.values[i - 1]]
    BY <1>2
  <1>4. sum = [i \in 0 .. n |-> IF i = 0 THEN 0 ELSE sum[i - 1] + ring.values[i - 1]]
    BY <1>3, Zenon
  <1>5. sum = s
    <2>. HIDE DEF sum
    <2>1. sum = [i \in 0 .. n |-> IF i = 0 THEN 0 ELSE sum[i - 1] + Places(ring)[i]]
      <3>1. \A i \in 0 .. n : (IF i = 0 THEN 0 ELSE sum[i - 1] + ring.values[i - 1])
                              = (IF i = 0 THEN 0 ELSE sum[i - 1] + Places(ring)[i])
        BY <1>0, <1>1
      <3>. QED BY <1>4, <3>1
    <2>. QED BY <1>0, <2>1, SumUnique
  <1>6. AverageInterval(ring) = [intervals |-> n, span |-> sum[n]]
    BY Zenon DEF AverageInterval
  <1>. HIDE DEF sum
  <1>. QED BY <1>5, <1>6

(* The total is the sum of the whole list, and the places in use sum up to *)
(* the newest of it.                                                       *)
SumsUp(ring, list, total) ==
  \E s, t :
    /\ IsSum(s, list, Len(list)) /\ IsSum(t, Places(ring), ring.count)
    /\ total = s[Len(list)]
    /\ t[ring.count] = s[Len(list)] - s[Len(list) - ring.count]

HistoryInv ==
  /\ Holds(intervals, log) /\ presentedFrames = Len(log)
  /\ SumsUp(intervals, log, activePlayback)

(* The remainder of a number up to the divisor, and a bit beyond. *)
LEMMA SmallRemainder ==
  ASSUME NEW n \in Nat, n > 0, NEW a \in 0 .. 2 * n - 1
  PROVE  a % n = IF a < n THEN a ELSE a - n
  OBVIOUS

(* An empty history. *)
LEMMA EmptyHolds ==
  /\ Holds(EmptyHistory(History), <<>>)
  /\ SumsUp(EmptyHistory(History), <<>>, 0)
  <1> DEFINE ring == EmptyHistory(History)
             s == [i \in 0 .. 0 |-> 0]
  <1>1. ring \in Ring /\ ring.count = 0 /\ ring.cursor = 0
    BY HistoryAssumption DEF EmptyHistory, Ring
  <1>2. <<>> \in Seq(Int) /\ Len(<<>>) = 0
    OBVIOUS
  <1>3. Holds(ring, <<>>)
    <2>. HIDE DEF ring
    <2>. QED BY <1>1, <1>2, HistoryAssumption DEF Holds
  <1>4. IsSum(s, <<>>, 0) /\ IsSum(s, Places(ring), 0) /\ s[0] = 0
    BY DEF IsSum
  <1>5. SumsUp(ring, <<>>, 0)
    <2>. HIDE DEF ring, s
    <2>. QED BY <1>1, <1>2, <1>4 DEF SumsUp
  <1>. QED BY <1>3, <1>5

(* A number added takes the place of the oldest. *)
LEMMA AddFields ==
  ASSUME NEW ring \in Ring, NEW v \in Int, NEW next, next = Add(ring, v)
  PROVE  /\ next \in Ring
         /\ next.values = [ring.values EXCEPT ![ring.cursor] = v]
         /\ next.cursor = IF ring.cursor + 1 = History THEN 0 ELSE ring.cursor + 1
         /\ next.count = IF ring.count < History THEN ring.count + 1 ELSE History
  <1>1. /\ History \in Nat /\ History > 0
        /\ ring.values \in [0 .. History - 1 -> Int]
        /\ ring.cursor \in 0 .. History - 1 /\ ring.count \in 0 .. History
        /\ ring.capacity = History
    BY HistoryAssumption DEF Ring
  <1>2. /\ next = [values |-> [ring.values EXCEPT ![ring.cursor] = v],
                   cursor |-> (ring.cursor + 1) % History,
                   count |-> IF ring.count < History THEN ring.count + 1 ELSE History,
                   capacity |-> History]
    BY <1>1 DEF Add, Ring
  <1>3. (ring.cursor + 1) % History = IF ring.cursor + 1 = History THEN 0 ELSE ring.cursor + 1
    <2>1. ring.cursor + 1 \in 0 .. 2 * History - 1
      BY <1>1
    <2>2. PICK a \in 0 .. 2 * History - 1 : a = ring.cursor + 1
      BY <2>1
    <2>3. a % History = IF a < History THEN a ELSE a - History
      BY <1>1, SmallRemainder
    <2>. QED BY <1>1, <2>2, <2>3
  <1>4. /\ next.values = [ring.values EXCEPT ![ring.cursor] = v]
        /\ next.cursor = IF ring.cursor + 1 = History THEN 0 ELSE ring.cursor + 1
        /\ next.count = IF ring.count < History THEN ring.count + 1 ELSE History
        /\ next.capacity = History
    BY <1>2, <1>3
  <1>5. next \in Ring
    <2>1. next.values \in [0 .. History - 1 -> Int]
      BY <1>1, <1>4
    <2>2. next.cursor \in 0 .. History - 1
      BY <1>1, <1>4
    <2>3. next.count \in 0 .. History
      BY <1>1, <1>4
    <2>4. next = [values |-> next.values, cursor |-> next.cursor, count |-> next.count,
                  capacity |-> next.capacity]
      BY <1>2
    <2>. QED BY <1>4, <2>1, <2>2, <2>3, <2>4 DEF Ring
  <1>. QED BY <1>4, <1>5

(* Going back from the new cursor one meets the new place first, and then  *)
(* the places one met before, but for the new one.                         *)
LEMMA BackFromNext ==
  ASSUME NEW c \in 0 .. History - 1, NEW d, d = IF c + 1 = History THEN 0 ELSE c + 1
  PROVE  /\ Back(d, 0) = c
         /\ \A k \in 1 .. History - 1 :
              /\ Back(d, k) = Back(c, k - 1)
              /\ Back(d, k) \in 0 .. History - 1 /\ Back(d, k) # c
         /\ Back(c, History - 1) = c
  <1>1. History \in Nat /\ History > 0 /\ c \in Nat /\ c < History /\ d \in Nat
    BY HistoryAssumption
  <1>2. Back(d, 0) = c /\ Back(c, History - 1) = c
    BY <1>1 DEF Back
  <1>3. ASSUME NEW k \in 1 .. History - 1
        PROVE  /\ Back(d, k) = Back(c, k - 1)
               /\ Back(d, k) \in 0 .. History - 1 /\ Back(d, k) # c
    <2>1. CASE c + 1 = History
      BY <1>1, <2>1 DEF Back
    <2>2. CASE c + 1 # History
      BY <1>1, <2>2 DEF Back
    <2>. QED BY <2>1, <2>2
  <1>. QED BY <1>2, <1>3

(* So the ring still holds the newest of the list, which got longer. *)
LEMMA AddHolds ==
  ASSUME NEW ring, NEW list, Holds(ring, list), NEW v \in Int,
         NEW next, next = Add(ring, v), NEW longer, longer = Append(list, v)
  PROVE  Holds(next, longer)
  <1>1. /\ list \in Seq(Int) /\ ring \in Ring
        /\ ring.count = IF Len(list) < History THEN Len(list) ELSE History
        /\ ring.count < History => ring.cursor = ring.count
        /\ \A k \in 0 .. ring.count - 1 :
             ring.values[Back(ring.cursor, k)] = list[Len(list) - k]
    BY DEF Holds
  <1>2. PICK n \in Nat : n = Len(list)
    BY <1>1
  <1>3. /\ longer \in Seq(Int) /\ Len(longer) = n + 1 /\ longer[n + 1] = v
        /\ \A i \in 1 .. n : longer[i] = list[i]
    BY <1>1, <1>2, AppendProperties
  <1>4. /\ next \in Ring
        /\ next.values = [ring.values EXCEPT ![ring.cursor] = v]
        /\ next.cursor = IF ring.cursor + 1 = History THEN 0 ELSE ring.cursor + 1
        /\ next.count = IF ring.count < History THEN ring.count + 1 ELSE History
    BY <1>1, AddFields
  <1>5. /\ History \in Nat /\ History > 0
        /\ ring.values \in [0 .. History - 1 -> Int]
        /\ ring.cursor \in 0 .. History - 1 /\ ring.count \in 0 .. History
    BY <1>1, HistoryAssumption DEF Ring
  <1>6. /\ Back(next.cursor, 0) = ring.cursor
        /\ \A k \in 1 .. History - 1 :
             /\ Back(next.cursor, k) = Back(ring.cursor, k - 1)
             /\ Back(next.cursor, k) \in 0 .. History - 1
             /\ Back(next.cursor, k) # ring.cursor
    BY <1>4, <1>5, BackFromNext
  <1>7. next.count = IF Len(longer) < History THEN Len(longer) ELSE History
    BY <1>1, <1>2, <1>3, <1>4, <1>5
  <1>8. next.count < History => next.cursor = next.count
    BY <1>1, <1>4, <1>5
  <1>9. ASSUME NEW k \in 0 .. next.count - 1
        PROVE  next.values[Back(next.cursor, k)] = longer[Len(longer) - k]
    <2>1. CASE k = 0
      BY <1>2, <1>3, <1>4, <1>5, <1>6, <2>1
    <2>2. CASE k # 0
      <3>1. k \in 1 .. History - 1 /\ k - 1 \in 0 .. ring.count - 1
        BY <1>4, <1>5, <2>2
      <3>2. next.values[Back(next.cursor, k)] = ring.values[Back(ring.cursor, k - 1)]
        BY <1>4, <1>5, <1>6, <3>1
      <3>3. ring.values[Back(ring.cursor, k - 1)] = list[n - (k - 1)]
        BY <1>1, <1>2, <3>1
      <3>4. n - (k - 1) \in 1 .. n /\ n - (k - 1) = Len(longer) - k
        BY <1>1, <1>2, <1>3, <1>5, <3>1
      <3>. QED BY <1>3, <3>2, <3>3, <3>4
    <2>. QED BY <2>1, <2>2
  <1>. QED BY <1>3, <1>4, <1>7, <1>8, <1>9 DEF Holds

(* The total grows by it, and the array's sum by what it is more than the  *)
(* number it replaces.                                                     *)
LEMMA AddSumsUp ==
  ASSUME NEW ring, NEW list, Holds(ring, list), NEW v \in Int,
         NEW next, next = Add(ring, v), NEW longer, longer = Append(list, v),
         NEW total, SumsUp(ring, list, total)
  PROVE  SumsUp(next, longer, total + v)
  <1>1. PICK n \in Nat : n = Len(list)
    BY DEF Holds
  <1>2. /\ list \in Seq(Int) /\ ring \in Ring
        /\ ring.count = IF n < History THEN n ELSE History
        /\ ring.count < History => ring.cursor = ring.count
        /\ \A k \in 0 .. ring.count - 1 :
             ring.values[Back(ring.cursor, k)] = list[n - k]
    BY <1>1 DEF Holds
  <1>3. /\ Len(longer) = n + 1 /\ longer[n + 1] = v
        /\ \A i \in 1 .. n : longer[i] = list[i]
    BY <1>1, <1>2, AppendProperties
  <1>4. /\ next \in Ring
        /\ next.values = [ring.values EXCEPT ![ring.cursor] = v]
        /\ next.count = IF ring.count < History THEN ring.count + 1 ELSE History
    BY <1>2, AddFields
  <1>5. PICK h \in Nat, c \in Nat, kept \in Nat, keeps \in Nat :
          /\ h = History /\ c = ring.cursor /\ kept = ring.count /\ keeps = next.count
    <2>1. History \in Nat /\ ring.cursor \in Nat /\ ring.count \in Nat /\ next.count \in Nat
      <3>1. ring.cursor \in 0 .. History - 1 /\ ring.count \in 0 .. History
        BY <1>2 DEF Ring
      <3>2. next.count \in 0 .. History
        BY <1>4 DEF Ring
      <3>. QED BY <3>1, <3>2, HistoryAssumption
    <2>. QED BY <2>1
  <1>6. /\ h > 0 /\ c < h /\ kept = IF n < h THEN n ELSE h
        /\ keeps = IF kept < h THEN kept + 1 ELSE h
        /\ kept < h => c = kept
    BY <1>2, <1>4, <1>5, HistoryAssumption DEF Ring
  <1> DEFINE old == Places(ring)
             new == Places(next)
  <1>7. /\ \A i \in 1 .. h : old[i] \in Int /\ new[i] \in Int
        /\ new[c + 1] = v
        /\ \A i \in 1 .. h : i # c + 1 => old[i] = new[i]
        /\ old[c + 1] = ring.values[c]
    <2>1. /\ ring.values \in [0 .. h - 1 -> Int] /\ next.values \in [0 .. h - 1 -> Int]
          /\ c \in 0 .. h - 1 /\ next.values = [ring.values EXCEPT ![c] = v]
      BY <1>2, <1>4, <1>5 DEF Ring
    <2>2. /\ old = [i \in 1 .. h |-> ring.values[i - 1]]
          /\ new = [i \in 1 .. h |-> next.values[i - 1]]
      BY <1>5 DEF Places
    <2>3. ASSUME NEW i \in 1 .. h
          PROVE  old[i] = ring.values[i - 1] /\ new[i] = next.values[i - 1]
                 /\ i - 1 \in 0 .. h - 1
      BY <2>2
    <2>. HIDE DEF old, new
    <2>4. c + 1 \in 1 .. h /\ c + 1 - 1 = c
      BY <2>1
    <2>5. old[c + 1] = ring.values[c] /\ new[c + 1] = next.values[c]
      BY <2>3, <2>4
    <2>6. new[c + 1] = v
      BY <2>1, <2>5
    <2>7. ASSUME NEW i \in 1 .. h, i # c + 1 PROVE old[i] = new[i]
      <3>1. i - 1 # c
        BY <2>7
      <3>. QED BY <2>1, <2>3, <3>1
    <2>8. \A i \in 1 .. h : old[i] \in Int /\ new[i] \in Int
      BY <2>1, <2>3
    <2>. QED BY <2>5, <2>6, <2>7, <2>8
  <1>8. PICK s, t : /\ IsSum(s, list, n) /\ IsSum(t, old, kept)
                    /\ total = s[n] /\ t[kept] = s[n] - s[n - kept]
    BY <1>1, <1>5 DEF SumsUp
  <1>. HIDE DEF old, new
  <1>9. /\ \A i \in 1 .. n : list[i] \in Int
        /\ \A i \in 1 .. n + 1 : longer[i] \in Int
    <2>1. \A i \in 1 .. n : list[i] \in Int
      BY <1>1, <1>2, ElementOfSeq
    <2>. QED BY <1>3, <2>1
  <1>10. PICK r : IsSum(r, longer, n + 1)
    <2>1. n + 1 \in Nat
      OBVIOUS
    <2>. QED BY <1>9, <2>1, SumExists
  <1>11. PICK u : IsSum(u, new, keeps)
    <2>1. \A i \in 1 .. keeps : new[i] \in Int
      BY <1>6, <1>7
    <2>. QED BY <2>1, SumExists
  <1>12. /\ \A i \in 0 .. n : r[i] = s[i] /\ s[i] \in Int
         /\ r[n + 1] = s[n] + v
    <2>1. \A i \in 0 .. n : r[i] = s[i] + (IF n + 1 <= i THEN longer[n + 1] - list[n + 1] ELSE 0)
      <3>1. n + 1 \in Nat \ {0} /\ n + 1 \in Nat /\ n <= n + 1 /\ n <= n
        OBVIOUS
      <3>2. AgreeBut(list, longer, n + 1, n)
        BY <1>3, <1>9 DEF AgreeBut
      <3>. QED BY <1>8, <1>10, <3>1, <3>2, SumChanged
    <2>2. \A i \in 0 .. n : s[i] \in Int
      BY <1>8 DEF IsSum
    <2>3. \A i \in 0 .. n : r[i] = s[i]
      BY <2>1, <2>2
    <2>4. r[n + 1] = r[n] + longer[n + 1]
      <3>1. PICK m \in Nat : m = n + 1 /\ m - 1 = n /\ m \in 1 .. m
        OBVIOUS
      <3>2. r[m] = r[m - 1] + longer[m]
        BY <1>10, <3>1 DEF IsSum
      <3>. QED BY <3>1, <3>2
    <2>. QED BY <1>3, <2>2, <2>3, <2>4
  <1>13. \A i \in 0 .. kept : u[i] = t[i] + (IF c + 1 <= i THEN new[c + 1] - old[c + 1] ELSE 0)
    <2>1. kept <= keeps /\ kept <= kept /\ c + 1 \in Nat \ {0}
      BY <1>6
    <2>2. AgreeBut(old, new, c + 1, kept)
      BY <1>6, <1>7 DEF AgreeBut
    <2>. QED BY <1>8, <1>11, <2>1, <2>2, SumChanged
  <1>14. t[kept] \in Int
    BY <1>8 DEF IsSum
  <1>15. u[keeps] = r[n + 1] - r[n + 1 - keeps]
    <2>1. CASE kept < h
      <3>1. n = kept /\ c = kept /\ keeps = kept + 1
        BY <1>6, <2>1
      <3>2. u[kept] = t[kept]
        BY <1>13, <1>14, <3>1
      <3>3. u[keeps] = u[kept] + new[keeps]
        <4>1. keeps \in 1 .. keeps /\ keeps - 1 = kept
          BY <3>1
        <4>. QED BY <1>11, <4>1 DEF IsSum
      <3>4. new[keeps] = v
        BY <1>7, <3>1
      <3>5. s[0] = 0 /\ r[0] = 0 /\ n - kept = 0 /\ n + 1 - keeps = 0
        BY <1>8, <1>10, <3>1 DEF IsSum
      <3>6. s[n] \in Int
        BY <1>12
      <3>. QED BY <1>8, <1>12, <1>14, <3>2, <3>3, <3>4, <3>5, <3>6
    <2>2. CASE kept = h
      <3>1. keeps = h /\ n >= h /\ c + 1 <= kept
        BY <1>6, <2>2
      <3>2. PICK m \in Nat : m = n - h
        BY <3>1
      <3>3. ring.values[c] = list[m + 1]
        <4>1. Back(c, h - 1) = c /\ h - 1 \in 0 .. kept - 1
          BY <1>5, <1>6, <2>2 DEF Back
        <4>2. ring.values[Back(c, h - 1)] = list[n - (h - 1)]
          BY <1>2, <1>5, <4>1
        <4>3. n - (h - 1) = m + 1
          BY <3>2
        <4>. QED BY <4>1, <4>2, <4>3
      <3>4. u[kept] = t[kept] + (v - list[m + 1])
        <4>1. kept \in 0 .. kept
          OBVIOUS
        <4>. QED BY <1>7, <1>13, <3>1, <3>3, <4>1
      <3>5. s[m + 1] = s[m] + list[m + 1]
        <4>1. m + 1 \in 1 .. n /\ m + 1 - 1 = m
          BY <1>6, <3>1, <3>2
        <4>. QED BY <1>8, <4>1 DEF IsSum
      <3>6. /\ m \in 0 .. n /\ m + 1 \in 0 .. n /\ n \in 0 .. n
            /\ n - kept = m /\ n + 1 - keeps = m + 1
        BY <1>6, <2>2, <3>1, <3>2
      <3>7. list[m + 1] \in Int
        BY <1>6, <1>9, <3>1, <3>2
      <3>8. s[m] \in Int /\ s[n] \in Int /\ s[m + 1] \in Int /\ r[m + 1] = s[m + 1]
        BY <1>12, <3>6
      <3>9. t[kept] = s[n] - s[m]
        BY <1>8, <3>6
      <3>10. u[kept] = s[n] - s[m] + (v - list[m + 1])
        BY <3>4, <3>9
      <3>11. r[n + 1] - r[m + 1] = s[n] + v - (s[m] + list[m + 1])
        BY <1>12, <3>5, <3>8
      <3>. QED BY <2>2, <3>1, <3>6, <3>7, <3>8, <3>10, <3>11
    <2>. QED BY <1>6, <2>1, <2>2
  <1>16. total + v = r[n + 1]
    BY <1>8, <1>12
  <1>17. IsSum(u, Places(next), next.count) /\ u[next.count] = r[n + 1] - r[(n + 1) - next.count]
    BY <1>5, <1>11, <1>15 DEF new
  <1>18. IsSum(r, longer, Len(longer))
    BY <1>3, <1>10, Zenon
  <1>19. r[n + 1] = r[Len(longer)] /\ r[(n + 1) - next.count] = r[Len(longer) - next.count]
    BY <1>3, Zenon
  <1>. QED BY <1>16, <1>17, <1>18, <1>19 DEF SumsUp

-------------------------------------------------------------------------------
(* The histories the loop keeps. *)

(* An interval presented is added; a reset empties them; no other step     *)
(* touches them.                                                           *)
LEMMA CountStep ==
  ASSUME TimeInv, HistoryInv, CountPresent
  PROVE  HistoryInv'
  <1>1. CASE UNCHANGED histories
    BY <1>1 DEF histories, HistoryInv
  <1>2. CASE ~UNCHANGED histories
    <2>1. PICK v \in Int : /\ intervals' = Add(intervals, v) /\ log' = Append(log, v)
                           /\ activePlayback' = activePlayback + v
                           /\ presentedFrames' = presentedFrames + 1
      <3>1. now - lastActivePresent \in Int
        <4>1. now \in Int /\ lastActivePresent \in Int
          BY <1>2 DEF CountPresent, TimeInv, TimesAreNumbers
        <4>. QED BY <4>1
      <3>. QED BY <1>2, <3>1 DEF CountPresent
    <2>2. Holds(intervals', log')
      BY <2>1, AddHolds DEF HistoryInv
    <2>3. SumsUp(intervals', log', activePlayback')
      BY <2>1, AddSumsUp DEF HistoryInv
    <2>4. presentedFrames' = Len(log')
      <3>1. log \in Seq(Int) /\ presentedFrames = Len(log)
        BY DEF HistoryInv, Holds
      <3>. QED BY <2>1, <3>1, AppendProperties
    <2>. QED BY <2>2, <2>3, <2>4 DEF HistoryInv
  <1>. QED BY <1>1, <1>2

(* A reset empties the histories and the record of what was presented. *)
LEMMA ResetStep ==
  ASSUME ResetActivePlayback
  PROVE  HistoryInv'
  <1>1. Len(<<>>) = 0
    OBVIOUS
  <1>. QED BY <1>1, EmptyHolds DEF ResetActivePlayback, HistoryInv

(* The loop begins with empty histories. *)
LEMMA HistoryInvInit == Init => HistoryInv
  <1>1. Len(<<>>) = 0
    OBVIOUS
  <1>. QED BY <1>1, EmptyHolds DEF Init, HistoryInv

(* Only an active present adds to them, and only a reset empties them. *)
LEMMA HistoryInvStep == TimeInv /\ HistoryInv /\ [Next]_vars => HistoryInv'
  <1>1. SUFFICES ASSUME TimeInv, HistoryInv, [Next]_vars PROVE HistoryInv'
    OBVIOUS
  <1>2. CASE UNCHANGED histories
    BY <1>1, <1>2 DEF histories, HistoryInv
  <1>3. CASE Tick \/ Resize \/ PollEvents \/ HandleWindow \/ HandleEscape \/ TakeLive
          \/ KeepFrame \/ EndOfFile \/ DropLate \/ Choose \/ NoExtent \/ AcquireFails
          \/ Finished \/ UNCHANGED vars
    <2>1. CASE PollEvents
      <3>1. UNCHANGED histories
        BY <2>1 DEF PollEvents, ForgetAnchor, telemetry
      <3>. QED BY <1>2, <3>1
    <2>2. CASE ~PollEvents
      <3>1. UNCHANGED histories
        BY <1>3, <2>2 DEF Tick, Resize, HandleWindow, HandleEscape, TakeLive, KeepFrame,
           EndOfFile, DropLate, Choose, NoExtent, AcquireFails, Finished, vars, telemetry
      <3>. QED BY <1>2, <3>1
    <2>. QED BY <2>1, <2>2
  <1>4. CASE Home
    <2>1. UNCHANGED histories \/ ResetActivePlayback
      BY <1>4 DEF Home, telemetry
    <2>. QED BY <1>2, <2>1, ResetStep
  <1>5. CASE TakeFile
    <2>1. UNCHANGED histories \/ ResetActivePlayback
      BY <1>5 DEF TakeFile, telemetry
    <2>. QED BY <1>2, <2>1, ResetStep
  <1>6. CASE Present
    BY <1>1, <1>6, CountStep DEF Present
  <1>. QED BY <1>1, <1>3, <1>4, <1>5, <1>6 DEF Next

(* What the invariant says of the array is what a reader of the history is *)
(* told.                                                                   *)
LEMMA HistoryIsTold ==
  ASSUME HistoryInv
  PROVE  HistoryIsNewest
  <1> DEFINE sum[i \in 0 .. Len(log)] == IF i = 0 THEN 0 ELSE sum[i - 1] + log[i]
             kept == IF Len(log) < History THEN Len(log) ELSE History
  <1>1. /\ log \in Seq(Int) /\ intervals \in Ring /\ intervals.count = kept
        /\ \A k \in 0 .. intervals.count - 1 :
             intervals.values[Back(intervals.cursor, k)] = log[Len(log) - k]
        /\ presentedFrames = Len(log)
    BY DEF HistoryInv, Holds
  <1>2. Len(log) \in Nat /\ intervals.count \in Nat /\ intervals.count <= History
    <2>1. intervals.count \in 0 .. History
      BY <1>1 DEF Ring
    <2>. QED BY <1>1, <2>1, HistoryAssumption
  <1>3. PICK s, t : /\ IsSum(s, log, Len(log)) /\ IsSum(t, Places(intervals), intervals.count)
                    /\ activePlayback = s[Len(log)]
                    /\ t[intervals.count] = s[Len(log)] - s[Len(log) - intervals.count]
    BY DEF HistoryInv, SumsUp
  <1>4. sum = s
    BY <1>2, <1>3, RecursiveSum, Zenon
  <1>5. AverageInterval(intervals).span = t[intervals.count]
    <2>1. intervals.count \in 0 .. History
      BY <1>2, HistoryAssumption
    <2>. QED BY <1>3, <2>1, AverageOfPlaces
  <1>6. ASSUME NEW k \in 0 .. kept - 1
        PROVE  Newest(intervals, k) = log[Len(log) - k]
    <2>1. /\ History \in Nat /\ History > 0 /\ intervals.cursor \in 0 .. History - 1
          /\ intervals.capacity = History /\ k \in 0 .. History - 1 /\ k < intervals.count
      <3>. HIDE DEF kept
      <3>1. k \in 0 .. intervals.count - 1
        BY <1>1
      <3>. QED BY <1>1, <1>2, <3>1, HistoryAssumption DEF Ring
    <2>2. PICK a \in 0 .. 2 * History - 1 : a = intervals.cursor + History - 1 - k
      BY <2>1
    <2>3. a % History = IF a < History THEN a ELSE a - History
      BY <2>1, SmallRemainder
    <2>4. a % History = Back(intervals.cursor, k)
      BY <2>1, <2>2, <2>3 DEF Back
    <2>5. Newest(intervals, k) = intervals.values[Back(intervals.cursor, k)]
      BY <2>1, <2>2, <2>4 DEF Newest
    <2>. HIDE DEF kept
    <2>6. k \in 0 .. intervals.count - 1
      BY <1>1
    <2>. QED BY <1>1, <2>5, <2>6
  <1>7. /\ AverageInterval(intervals).span = sum[Len(log)] - sum[Len(log) - kept]
        /\ activePlayback = sum[Len(log)]
    <2>. HIDE DEF sum, kept
    <2>. QED BY <1>1, <1>3, <1>4, <1>5
  <1>. QED BY <1>1, <1>6, <1>7, Zenon DEF HistoryIsNewest

-------------------------------------------------------------------------------
(* The histories' ring and sums agree with all that was presented since    *)
(* the last reset in every reachable state.                                *)
THEOREM HistoryInvariant == Spec => []HistoryInv
  <1>1. Init => TimeInv /\ HistoryInv
    BY TimeInvInit, HistoryInvInit
  <1>2. TimeInv /\ HistoryInv /\ [Next]_vars => (TimeInv /\ HistoryInv)'
    BY TimeInvStep, HistoryInvStep
  <1>. QED BY <1>1, <1>2, PTL DEF Spec

(* The telemetry tells the truth: whatever the capacity and however often  *)
(* the ring wrapped, the history holds the newest intervals, its average   *)
(* runs over exactly those, and the totals are those of all since the last *)
(* reset.                                                                  *)
THEOREM HistoryTellsTheTruth == Spec => []HistoryIsNewest
  <1>1. HistoryInv => HistoryIsNewest
    BY HistoryIsTold
  <1>. QED BY <1>1, HistoryInvariant, PTL

-------------------------------------------------------------------------------
(* Numbers. *)
Positive == Nat \ {0}

(* Division by two towards zero. *)
LEMMA HalfBounds ==
  ASSUME NEW n \in Int
  PROVE  Half(n) \in Int /\ n - 1 <= 2 * Half(n) /\ 2 * Half(n) <= n + 1
  BY DEF Half

(* A positive factor may be cancelled. *)
LEMMA Cancel ==
  ASSUME NEW a \in Int, NEW b \in Int, NEW d \in Positive
  PROVE  /\ a * d <= b * d <=> a <= b
         /\ a * d < b * d <=> a < b
         /\ a * d = b * d <=> a = b
  BY DEF Positive

(* The rounded extent is within half a pixel of the exact one, or one. *)
LEMMA RoundedBounds ==
  ASSUME NEW n \in Positive, NEW d \in Positive
  PROVE  LET v == RoundedExtent(Fraction(n, d))
         IN  /\ v \in Positive /\ 2 * n < 2 * (v * d) + d
             /\ v > 1 => 2 * (v * d) - d <= 2 * n
  <1> DEFINE r == (2 * n + d) \div (2 * d)
             v == RoundedExtent(Fraction(n, d))
  <1>1. r \in Int /\ (2 * d) * r <= 2 * n + d /\ 2 * n + d < (2 * d) * r + 2 * d
    BY DEF Positive
  <1>2. (2 * d) * r = 2 * (r * d)
    <2>1. r \in Int
      BY <1>1
    <2>. HIDE DEF r
    <2>. QED BY <2>1 DEF Positive
  <1>3. v = IF r < 1 THEN 1 ELSE r
    BY DEF RoundedExtent, Fraction, Positive
  <1>. HIDE DEF r, v
  <1>4. CASE r < 1
    <2>1. r <= 0
      BY <1>1, <1>4
    <2>2. r * d <= 0 * d
      <3>1. 0 \in Int
        OBVIOUS
      <3>. QED BY <1>1, <2>1, <3>1, Cancel
    <2>. QED BY <1>1, <1>2, <1>3, <1>4, <2>2 DEF Positive, v
  <1>5. CASE r >= 1
    BY <1>1, <1>2, <1>3, <1>5 DEF Positive, v
  <1>. QED BY <1>1, <1>4, <1>5

(* The same bounds for an equal fraction. *)
LEMMA RoundedEqual ==
  ASSUME NEW n \in Positive, NEW d \in Positive, NEW p \in Positive, NEW q \in Positive,
         p * d = n * q, NEW v, v = RoundedExtent(Fraction(p, q))
  PROVE  /\ v \in Positive /\ 2 * n < 2 * (v * d) + d
         /\ v > 1 => 2 * (v * d) - d <= 2 * n
  <1>1. /\ v \in Positive /\ 2 * p < 2 * (v * q) + q
        /\ v > 1 => 2 * (v * q) - q <= 2 * p
    BY RoundedBounds
  <1>2. v \in Int /\ n \in Int /\ d \in Int /\ p \in Int /\ q \in Int
    BY <1>1 DEF Positive
  <1>3. (2 * p) * d < (2 * (v * q) + q) * d
    <2>1. 2 * p \in Int /\ 2 * (v * q) + q \in Int
      BY <1>2
    <2>. QED BY <1>1, <2>1, Cancel
  <1>4. (2 * n) * q < (2 * (v * d) + d) * q
    <2>1. (2 * p) * d = (2 * n) * q
      BY <1>2
    <2>2. (2 * (v * q) + q) * d = (2 * (v * d) + d) * q
      BY <1>2
    <2>. QED BY <1>3, <2>1, <2>2
  <1>5. 2 * n < 2 * (v * d) + d
    <2>1. 2 * n \in Int /\ 2 * (v * d) + d \in Int
      BY <1>2
    <2>. QED BY <1>4, <2>1, Cancel
  <1>6. ASSUME v > 1 PROVE 2 * (v * d) - d <= 2 * n
    <2>1. /\ 2 * p \in Int /\ 2 * (v * q) - q \in Int
          /\ 2 * n \in Int /\ 2 * (v * d) - d \in Int
      BY <1>2
    <2>2. (2 * (v * q) - q) * d <= (2 * p) * d
      BY <1>1, <1>6, <2>1, Cancel
    <2>3. (2 * p) * d = (2 * n) * q /\ (2 * (v * q) - q) * d = (2 * (v * d) - d) * q
      BY <1>2
    <2>. QED BY <2>1, <2>2, <2>3, Cancel
  <1>. QED BY <1>1, <1>5, <1>6

(* A picture stretched to n/d pixels and centred in f is drawn on the      *)
(* pixels of the rounded viewport, but for one at each end.                *)
LEMMA PixelsOfViewport ==
  ASSUME NEW n \in Positive, NEW d \in Positive, NEW f \in Positive, NEW v \in Positive,
         2 * n < 2 * (v * d) + d, v > 1 => 2 * (v * d) - d <= 2 * n,
         NEW first, first = Half(f - v), NEW x \in Nat
  PROVE  /\ first < x /\ x < first + v - 1 =>
              (2 * x + 1 - f) * d >= -n /\ (2 * x + 1 - f) * d < n
         /\ (2 * x + 1 - f) * d >= -n /\ (2 * x + 1 - f) * d < n =>
              first - 1 <= x /\ x <= first + v
  <1>1. /\ first \in Int /\ f - v - 1 <= 2 * first /\ 2 * first <= f - v + 1
    <2>1. f - v \in Int
      BY DEF Positive
    <2>2. (f - v) - 1 <= 2 * Half(f - v) /\ 2 * Half(f - v) <= (f - v) + 1
      BY <2>1, HalfBounds
    <2>. QED BY <2>1, <2>2, HalfBounds
  <1>2. PICK y \in Int : y = 2 * x + 1 - f
    BY DEF Positive
  <1>3. ASSUME first < x, x < first + v - 1
        PROVE  y * d >= -n /\ y * d < n
    <2>1. v > 1 /\ 2 - v <= y /\ y <= v - 2
      BY <1>1, <1>2, <1>3 DEF Positive
    <2>2. (2 - v) * d <= y * d /\ y * d <= (v - 2) * d
      <3>1. 2 - v \in Int /\ v - 2 \in Int
        BY DEF Positive
      <3>. QED BY <2>1, <3>1, Cancel
    <2>3. (v - 2) * d = v * d - 2 * d /\ (2 - v) * d = 2 * d - v * d
      BY DEF Positive
    <2>4. v * d \in Int /\ y * d \in Int
      BY DEF Positive
    <2>. QED BY <2>1, <2>2, <2>3, <2>4 DEF Positive
  <1>4. ASSUME y * d >= -n, y * d < n
        PROVE  first - 1 <= x /\ x <= first + v
    <2>1. /\ v * d \in Int /\ y * d \in Int
          /\ (v + 1) * d = v * d + d /\ (-v - 1) * d = -(v * d) - d
      BY DEF Positive
    <2>2. y * d < (v + 1) * d /\ (-v - 1) * d < y * d
      BY <1>4, <2>1 DEF Positive
    <2>3. y < v + 1 /\ -v - 1 < y
      <3>1. v + 1 \in Int /\ -v - 1 \in Int
        BY DEF Positive
      <3>. QED BY <2>2, <3>1, Cancel
    <2>. QED BY <1>1, <1>2, <2>3 DEF Positive
  <1>. QED BY <1>2, <1>3, <1>4

-------------------------------------------------------------------------------
(* One axis decides the least ratio, the other the greatest. *)
LEMMA LeastRatio ==
  ASSUME NEW content \in Size, NEW frame \in Size
  PROVE  \E b \in Axis :
           /\ Smaller(Ratio(content, frame, 1), Ratio(content, frame, 2))
                = Fraction(frame[b], content[b])
           /\ \A a \in Axis :
                /\ frame[b] * content[a] <= frame[a] * content[b]
                /\ Stretched(content, frame, "fit")[a] =
                     IF a = b THEN Fraction(frame[b], 1)
                              ELSE Fraction(content[a] * frame[b], content[b])
  <1>1. PICK c1 \in Positive, c2 \in Positive, f1 \in Positive, f2 \in Positive :
          content = <<c1, c2>> /\ frame = <<f1, f2>>
    BY DEF Size, Positive
  <1>2. CASE f1 * c2 <= f2 * c1
    <2>1. /\ Smaller(Ratio(content, frame, 1), Ratio(content, frame, 2)) = Fraction(f1, c1)
      BY <1>1, <1>2 DEF Smaller, AtMost, Ratio, Fraction
    <2>2. ~(f1 * c2 > c1 * f2)
      BY <1>2 DEF Positive
    <2>3. /\ Stretched(content, frame, "fit")[1] = Fraction(f1, 1)
          /\ Stretched(content, frame, "fit")[2] = Fraction(c2 * f1, c1)
      BY <1>1, <2>2 DEF Stretched, Axis
    <2>4. f1 * c1 <= f1 * c1
      BY DEF Positive
    <2>5. 1 \in Axis /\ \A a \in Axis : a = 1 \/ a = 2
      BY DEF Axis
    <2>. QED BY <1>1, <1>2, <2>1, <2>3, <2>4, <2>5
  <1>3. CASE ~(f1 * c2 <= f2 * c1)
    <2>1. /\ Smaller(Ratio(content, frame, 1), Ratio(content, frame, 2)) = Fraction(f2, c2)
      BY <1>1, <1>3 DEF Smaller, AtMost, Ratio, Fraction
    <2>2. f1 * c2 > c1 * f2 /\ f2 * c1 <= f1 * c2
      BY <1>3 DEF Positive
    <2>3. /\ Stretched(content, frame, "fit")[2] = Fraction(f2, 1)
          /\ Stretched(content, frame, "fit")[1] = Fraction(c1 * f2, c2)
      BY <1>1, <2>2 DEF Stretched, Axis
    <2>4. f2 * c2 <= f2 * c2
      BY DEF Positive
    <2>5. 2 \in Axis /\ \A a \in Axis : a = 1 \/ a = 2
      BY DEF Axis
    <2>. QED BY <1>1, <2>1, <2>2, <2>3, <2>4, <2>5
  <1>. QED BY <1>2, <1>3

(* The same of the greatest ratio and the fill mode. *)
LEMMA GreatestRatio ==
  ASSUME NEW content \in Size, NEW frame \in Size
  PROVE  \E b \in Axis :
           /\ Larger(Ratio(content, frame, 1), Ratio(content, frame, 2))
                = Fraction(frame[b], content[b])
           /\ \A a \in Axis :
                Stretched(content, frame, "fill")[a] =
                     IF a = b THEN Fraction(frame[b], 1)
                              ELSE Fraction(content[a] * frame[b], content[b])
  <1>1. PICK c1 \in Positive, c2 \in Positive, f1 \in Positive, f2 \in Positive :
          content = <<c1, c2>> /\ frame = <<f1, f2>>
    BY DEF Size, Positive
  <1>2. CASE f1 * c2 <= f2 * c1
    <2>1. /\ Larger(Ratio(content, frame, 1), Ratio(content, frame, 2)) = Fraction(f2, c2)
      BY <1>1, <1>2 DEF Larger, AtMost, Ratio, Fraction
    <2>2. ~(f1 * c2 > c1 * f2)
      BY <1>2 DEF Positive
    <2>3. /\ Stretched(content, frame, "fill")[2] = Fraction(f2, 1)
          /\ Stretched(content, frame, "fill")[1] = Fraction(c1 * f2, c2)
      BY <1>1, <2>2 DEF Stretched, Axis
    <2>4. 2 \in Axis /\ \A a \in Axis : a = 1 \/ a = 2
      BY DEF Axis
    <2>. QED BY <1>1, <2>1, <2>3, <2>4
  <1>3. CASE ~(f1 * c2 <= f2 * c1)
    <2>1. /\ Larger(Ratio(content, frame, 1), Ratio(content, frame, 2)) = Fraction(f1, c1)
      BY <1>1, <1>3 DEF Larger, AtMost, Ratio, Fraction
    <2>2. f1 * c2 > c1 * f2
      BY <1>3 DEF Positive
    <2>3. /\ Stretched(content, frame, "fill")[1] = Fraction(f1, 1)
          /\ Stretched(content, frame, "fill")[2] = Fraction(c2 * f1, c1)
      BY <1>1, <2>2 DEF Stretched, Axis
    <2>4. 1 \in Axis /\ \A a \in Axis : a = 1 \/ a = 2
      BY DEF Axis
    <2>. QED BY <1>1, <2>1, <2>3, <2>4
  <1>. QED BY <1>2, <1>3

-------------------------------------------------------------------------------
(* The scale of a mode. *)
ScaleOf(content, frame, mode) ==
  CASE mode = "exact"   -> Fraction(1, 1)
    [] mode = "fit"     -> Smaller(Ratio(content, frame, 1), Ratio(content, frame, 2))
    [] mode = "fill"    -> Larger(Ratio(content, frame, 1), Ratio(content, frame, 2))
    [] mode = "integer" -> IntegerScale(content, frame)

(* The shader stretches by the scale of the mode, and only the fill mode   *)
(* beyond the framebuffer; if an axis is left as it is, so are both.       *)
StretchedByScale(content, frame, mode) ==
  LET k == ScaleOf(content, frame, mode)
      s == Stretched(content, frame, mode)
  IN  /\ k.n \in Positive /\ k.d \in Positive
      /\ \A a \in Axis :
           /\ s[a].n \in Positive /\ s[a].d \in Positive
           /\ (content[a] * k.n) * s[a].d = s[a].n * k.d
           /\ mode # "fill" => s[a].n <= frame[a] * s[a].d
      /\ \/ \A a \in Axis : s[a].n = content[a] * s[a].d
         \/ \E b \in Axis : \/ s[b].d = 1 /\ s[b].n # content[b]
                            \/ s[b].n = frame[b] * s[b].d /\ s[b].n # content[b] * s[b].d

(* Both sides of a size are positive. *)
LEMMA SizeAxes ==
  ASSUME NEW size \in Size, NEW a \in Axis
  PROVE  size[a] \in Positive
  BY DEF Size, Axis, Positive

(* The exact mode does not scale. *)
LEMMA ExactScale ==
  ASSUME NEW content \in Size, NEW frame \in Size, \A a \in Axis : content[a] <= frame[a]
  PROVE  StretchedByScale(content, frame, "exact")
  <1>1. ScaleOf(content, frame, "exact") = [n |-> 1, d |-> 1]
    BY DEF ScaleOf, Fraction
  <1>2. \A a \in Axis : Stretched(content, frame, "exact")[a] = Fraction(content[a], 1)
    BY DEF Stretched
  <1>3. 1 \in Positive
    BY DEF Positive
  <1>4. ASSUME NEW a \in Axis
        PROVE  /\ content[a] \in Positive /\ frame[a] \in Positive
               /\ (content[a] * 1) * 1 = content[a] * 1 /\ content[a] <= frame[a] * 1
               /\ content[a] = content[a] * 1
    <2>1. content[a] \in Positive /\ frame[a] \in Positive
      BY SizeAxes
    <2>. QED BY <2>1 DEF Positive
  <1> DEFINE s == Stretched(content, frame, "exact")
             k == ScaleOf(content, frame, "exact")
  <1>. HIDE DEF s, k
  <1>5. k.n = 1 /\ k.d = 1
    BY <1>1 DEF k
  <1>6. \A x : Fraction(x, 1).n = x /\ Fraction(x, 1).d = 1
    BY DEF Fraction
  <1>7. \A a \in Axis : s[a].n = content[a] /\ s[a].d = 1
    BY <1>2, <1>6 DEF s
  <1>. QED BY <1>3, <1>4, <1>5, <1>7 DEF StretchedByScale, s, k

(* Fit and fill: the axis that decides the ratio gets all its pixels. *)
LEMMA RatioScale ==
  ASSUME NEW content \in Size, NEW frame \in Size, NEW mode \in {"fit", "fill", "integer"},
         NEW b \in Axis, ScaleOf(content, frame, mode) = Fraction(frame[b], content[b]),
         \A a \in Axis :
           /\ mode # "fill" => frame[b] * content[a] <= frame[a] * content[b]
           /\ \/ Stretched(content, frame, mode)[a] = Fraction(content[a] * frame[b], content[b])
              \/ Stretched(content, frame, mode)[a] = Fraction(frame[b], 1) /\ a = b
  PROVE  StretchedByScale(content, frame, mode)
  <1> DEFINE s == Stretched(content, frame, mode)
             k == ScaleOf(content, frame, mode)
  <1>1. PICK c \in Positive, f \in Positive : c = content[b] /\ f = frame[b]
    BY SizeAxes
  <1>2. k.n = f /\ k.d = c
    BY <1>1 DEF Fraction
  <1>3. ASSUME NEW a \in Axis
        PROVE  \/ s[a].n = content[a] * f /\ s[a].d = c
               \/ s[a].n = f /\ s[a].d = 1 /\ a = b
    <2>1. \/ s[a] = Fraction(content[a] * f, c)
          \/ s[a] = Fraction(f, 1) /\ a = b
      BY <1>1
    <2>. HIDE DEF s
    <2>. QED BY <2>1 DEF Fraction
  <1>. HIDE DEF s, k
  <1>4. ASSUME NEW a \in Axis
        PROVE  /\ s[a].n \in Positive /\ s[a].d \in Positive
               /\ (content[a] * f) * s[a].d = s[a].n * c
               /\ mode # "fill" => s[a].n <= frame[a] * s[a].d
               /\ f = c => s[a].n = content[a] * s[a].d
    <2>1. PICK x \in Positive, y \in Positive : x = content[a] /\ y = frame[a]
      BY SizeAxes
    <2>2. x * f \in Positive /\ 1 \in Positive
      BY DEF Positive
    <2>3. CASE s[a].n = x * f /\ s[a].d = c
      <3>1. mode # "fill" => x * f <= y * c
        <4>1. mode # "fill" => f * x <= y * c
          BY <1>1, <2>1
        <4>2. f * x = x * f
          BY DEF Positive
        <4>. QED BY <4>1, <4>2
      <3>. QED BY <2>1, <2>2, <2>3, <3>1
    <2>4. CASE s[a].n = f /\ s[a].d = 1 /\ a = b
      <3>1. x = c /\ y = f
        BY <1>1, <2>1, <2>4
      <3>2. (c * f) * 1 = f * c /\ f <= f * 1 /\ c * 1 = c
        BY DEF Positive
      <3>. QED BY <2>1, <2>2, <2>4, <3>1, <3>2
    <2>. QED BY <1>3, <2>1, <2>3, <2>4
  <1>5. f # c => s[b].n = f * s[b].d /\ s[b].n # c * s[b].d
    <2>1. CASE s[b].n = c * f /\ s[b].d = c
      <3>1. f # c => c * f # c * c
        BY DEF Positive
      <3>2. c * f = f * c
        BY DEF Positive
      <3>. QED BY <2>1, <3>1, <3>2
    <2>2. CASE s[b].n = f /\ s[b].d = 1
      <3>1. f = f * 1 /\ c = c * 1
        BY DEF Positive
      <3>. QED BY <2>2, <3>1
    <2>. QED BY <1>1, <1>3, <2>1, <2>2
  <1>. QED BY <1>1, <1>2, <1>4, <1>5 DEF StretchedByScale, s, k

(* The fit mode scales by the least ratio. *)
LEMMA FitScale ==
  ASSUME NEW content \in Size, NEW frame \in Size
  PROVE  StretchedByScale(content, frame, "fit")
  <1>1. ScaleOf(content, frame, "fit")
          = Smaller(Ratio(content, frame, 1), Ratio(content, frame, 2))
    BY DEF ScaleOf
  <1>2. PICK b \in Axis :
           /\ ScaleOf(content, frame, "fit") = Fraction(frame[b], content[b])
           /\ \A a \in Axis :
                /\ frame[b] * content[a] <= frame[a] * content[b]
                /\ Stretched(content, frame, "fit")[a] =
                     IF a = b THEN Fraction(frame[b], 1)
                              ELSE Fraction(content[a] * frame[b], content[b])
    BY <1>1, LeastRatio
  <1>. QED BY <1>2, RatioScale

(* The fill mode scales by the greatest ratio. *)
LEMMA FillScale ==
  ASSUME NEW content \in Size, NEW frame \in Size
  PROVE  StretchedByScale(content, frame, "fill")
  <1>1. ScaleOf(content, frame, "fill")
          = Larger(Ratio(content, frame, 1), Ratio(content, frame, 2))
    BY DEF ScaleOf
  <1>2. PICK b \in Axis :
           /\ ScaleOf(content, frame, "fill") = Fraction(frame[b], content[b])
           /\ \A a \in Axis :
                Stretched(content, frame, "fill")[a] =
                     IF a = b THEN Fraction(frame[b], 1)
                              ELSE Fraction(content[a] * frame[b], content[b])
    BY <1>1, GreatestRatio
  <1>. QED BY <1>2, RatioScale

(* The integer mode: a whole number if there is room, else like fit. *)
LEMMA IntegerModeScale ==
  ASSUME NEW content \in Size, NEW frame \in Size
  PROVE  StretchedByScale(content, frame, "integer")
  <1> DEFINE least == Smaller(Ratio(content, frame, 1), Ratio(content, frame, 2))
             s == Stretched(content, frame, "integer")
             k == ScaleOf(content, frame, "integer")
  <1>1. PICK b \in Axis :
           /\ least = Fraction(frame[b], content[b])
           /\ \A a \in Axis : frame[b] * content[a] <= frame[a] * content[b]
    BY LeastRatio
  <1>2. PICK c \in Positive, f \in Positive : c = content[b] /\ f = frame[b]
    BY SizeAxes
  <1>3. k = IF AtLeastOne(least) THEN Fraction(Floor(least), 1) ELSE least
    BY DEF ScaleOf, IntegerScale
  <1>4. \A a \in Axis : s[a] = Fraction(content[a] * k.n, k.d)
    BY <1>3 DEF Stretched
  <1>5. CASE ~AtLeastOne(least)
    <2>1. k = Fraction(frame[b], content[b])
      BY <1>1, <1>3, <1>5
    <2>2. \A a \in Axis : s[a] = Fraction(content[a] * frame[b], content[b])
      BY <1>4, <2>1 DEF Fraction
    <2>. QED BY <1>1, <2>1, <2>2, RatioScale
  <1>6. CASE AtLeastOne(least)
    <2>1. f >= c
      BY <1>1, <1>2, <1>6 DEF AtLeastOne, Fraction
    <2>2. PICK q \in Positive : q = f \div c /\ c * q <= f
      <3>1. f \div c \in Nat /\ c * (f \div c) <= f /\ f < c * (f \div c) + c
        BY DEF Positive
      <3>2. f \div c # 0
        BY <2>1, <3>1 DEF Positive
      <3>. QED BY <3>1, <3>2 DEF Positive
    <2>3. k.n = q /\ k.d = 1
      BY <1>1, <1>2, <1>3, <1>6, <2>2 DEF Floor, Fraction
    <2>4. \A a \in Axis : s[a].n = content[a] * q /\ s[a].d = 1
      <3>. HIDE DEF s, k
      <3>1. ASSUME NEW a \in Axis
            PROVE  s[a].n = content[a] * q /\ s[a].d = 1
        <4>1. s[a] = Fraction(content[a] * q, 1)
          BY <1>4, <2>3
        <4>2. \A x : Fraction(x, 1).n = x /\ Fraction(x, 1).d = 1
          BY DEF Fraction
        <4>. QED BY <4>1, <4>2
      <3>. QED BY <3>1
    <2>. HIDE DEF s, k, least
    <2>5. ASSUME NEW a \in Axis
          PROVE  /\ s[a].n \in Positive /\ s[a].d \in Positive
                 /\ (content[a] * q) * s[a].d = s[a].n * 1
                 /\ s[a].n <= frame[a] * s[a].d
                 /\ q = 1 => s[a].n = content[a] * s[a].d
                 /\ q # 1 => s[a].n # content[a]
      <3>1. PICK x \in Positive, y \in Positive : x = content[a] /\ y = frame[a]
        BY SizeAxes
      <3>2. f * x <= y * c
        BY <1>1, <1>2, <3>1
      <3>3. x * q <= y
        <4>1. (c * q) * x <= f * x
          <5>1. c * q \in Int /\ f \in Int
            BY DEF Positive
          <5>. QED BY <2>2, <5>1, Cancel
        <4>2. (c * q) * x = (x * q) * c
          BY DEF Positive
        <4>3. (x * q) * c <= y * c
          <5>1. (x * q) * c \in Int /\ f * x \in Int /\ y * c \in Int
            BY DEF Positive
          <5>. QED BY <3>2, <4>1, <4>2, <5>1
        <4>4. x * q \in Int /\ y \in Int
          BY DEF Positive
        <4>. QED BY <4>3, <4>4, Cancel
      <3>4. x * q \in Positive /\ 1 \in Positive
        BY DEF Positive
      <3>5. q # 1 => x * q # x
        BY DEF Positive
      <3>. QED BY <2>4, <3>1, <3>3, <3>4, <3>5 DEF Positive
    <2>. QED BY <2>3, <2>4, <2>5 DEF StretchedByScale, s, k, Positive, Axis
  <1>. QED BY <1>5, <1>6

(* All modes together. *)
LEMMA ScaleOfMode ==
  ASSUME NEW content \in Size, NEW frame \in Size, NEW mode \in PresentationModes,
         mode = "exact" => \A a \in Axis : content[a] <= frame[a]
  PROVE  StretchedByScale(content, frame, mode)
  BY ExactScale, FitScale, FillScale, IntegerModeScale DEF PresentationModes

-------------------------------------------------------------------------------
(* The two computations of the picture agree. *)

(* An extent that is cut at the framebuffer, but when it is to be filled.  *)
CutAt(limit, mode, extent) == IF mode # "fill" /\ extent > limit THEN limit ELSE extent

(* The fields of a geometry. *)
LEMMA GeometryFields ==
  ASSUME NEW content, NEW frame, NEW mode, NEW geometry, geometry = Geometry(content, frame, mode),
         NEW effective, effective = EffectiveMode(content, frame, mode),
         NEW k, k = ScaleOf(content, frame, effective)
  PROVE  /\ geometry.effectiveMode = effective
         /\ \A a \in Axis : geometry.viewport[a] =
              CutAt(frame[a], effective, RoundedExtent(Fraction(content[a] * k.n, k.d)))
  <1> DEFINE scaled    == [a \in Axis |-> RoundedExtent(Fraction(content[a] * k.n, k.d))]
             viewport  == [a \in Axis |-> IF effective # "fill" /\ scaled[a] > frame[a]
                                            THEN frame[a] ELSE scaled[a]]
             position  == [a \in Axis |-> Half(frame[a] - viewport[a])]
             whole     == viewport = content
  <1>1. geometry = [effectiveMode |-> effective, viewport |-> viewport,
                    position |-> position, exactOneToOne |-> whole]
    BY DEF Geometry, ScaleOf
  <1>2. \A a \in Axis : viewport[a] =
              CutAt(frame[a], effective, RoundedExtent(Fraction(content[a] * k.n, k.d)))
    BY DEF CutAt
  <1>. HIDE DEF viewport, position, whole
  <1>3. geometry.effectiveMode = effective /\ geometry.viewport = viewport
    BY <1>1
  <1>. QED BY <1>2, <1>3

(* The viewport is centred. *)
LEMMA PositionField ==
  ASSUME NEW content, NEW frame, NEW mode, NEW geometry, geometry = Geometry(content, frame, mode),
         NEW a \in Axis
  PROVE  geometry.position[a] = Half(frame[a] - geometry.viewport[a])
  BY Zenon DEF Geometry

(* 1:1 is reported when both sides of the viewport are the content's. *)
LEMMA OneToOneField ==
  ASSUME NEW content \in Size, NEW frame, NEW mode,
         NEW geometry, geometry = Geometry(content, frame, mode)
  PROVE  geometry.exactOneToOne <=> \A a \in Axis : geometry.viewport[a] = content[a]
  <1>1. content = [a \in Axis |-> content[a]]
    BY DEF Size, Axis
  <1>2. geometry.exactOneToOne <=> geometry.viewport = content
    BY Zenon DEF Geometry
  <1> DEFINE effective == EffectiveMode(content, frame, mode)
             k         == ScaleOf(content, frame, effective)
             scaled    == [a \in Axis |-> RoundedExtent(Fraction(content[a] * k.n, k.d))]
             viewport  == [a \in Axis |-> IF effective # "fill" /\ scaled[a] > frame[a]
                                            THEN frame[a] ELSE scaled[a]]
  <1>3. geometry.viewport = viewport
    BY DEF Geometry, ScaleOf
  <1>4. viewport = [a \in Axis |-> viewport[a]]
    OBVIOUS
  <1>. HIDE DEF viewport
  <1>. QED BY <1>1, <1>2, <1>3, <1>4

(* The viewport has the extent of the stretched picture, rounded; to cut   *)
(* it at the framebuffer is never needed.                                  *)
LEMMA ViewportRounds ==
  ASSUME NEW content \in Size, NEW frame \in Size, NEW mode \in PresentationModes,
         NEW geometry, geometry = Geometry(content, frame, mode),
         NEW s, s = Stretched(content, frame, geometry.effectiveMode), NEW a \in Axis
  PROVE  LET v == geometry.viewport[a]
         IN  /\ s[a].n \in Positive /\ s[a].d \in Positive
             /\ v \in Positive /\ 2 * s[a].n < 2 * (v * s[a].d) + s[a].d
             /\ v > 1 => 2 * (v * s[a].d) - s[a].d <= 2 * s[a].n
  <1>1. PICK effective \in PresentationModes :
          /\ effective = EffectiveMode(content, frame, mode)
          /\ effective = "exact" => \A x \in Axis : content[x] <= frame[x]
    <2>1. \A x \in Axis : content[x] \in Int /\ frame[x] \in Int
      BY SizeAxes DEF Positive
    <2>. QED BY <2>1 DEF EffectiveMode, PresentationModes
  <1>2. PICK k : k = ScaleOf(content, frame, effective)
    OBVIOUS
  <1>3. /\ geometry.effectiveMode = effective
        /\ geometry.viewport[a] =
              CutAt(frame[a], effective, RoundedExtent(Fraction(content[a] * k.n, k.d)))
    BY <1>1, <1>2, GeometryFields
  <1>4. /\ k.n \in Positive /\ k.d \in Positive
        /\ s[a].n \in Positive /\ s[a].d \in Positive
        /\ (content[a] * k.n) * s[a].d = s[a].n * k.d
        /\ effective # "fill" => s[a].n <= frame[a] * s[a].d
    BY <1>1, <1>2, <1>3, ScaleOfMode DEF StretchedByScale
  <1>5. PICK p \in Positive, q \in Positive, n \in Positive, d \in Positive, f \in Positive :
          p = content[a] * k.n /\ q = k.d /\ n = s[a].n /\ d = s[a].d /\ f = frame[a]
    <2>1. content[a] \in Positive /\ frame[a] \in Positive
      BY SizeAxes
    <2>2. content[a] * k.n \in Positive
      BY <1>4, <2>1 DEF Positive
    <2>. QED BY <1>4, <2>1, <2>2
  <1>6. PICK r : r = RoundedExtent(Fraction(p, q))
    OBVIOUS
  <1>7. /\ r \in Positive /\ 2 * n < 2 * (r * d) + d
        /\ r > 1 => 2 * (r * d) - d <= 2 * n
    BY <1>4, <1>5, <1>6, RoundedEqual
  <1>8. effective # "fill" => r <= f
    <2>1. SUFFICES ASSUME effective # "fill", r > f PROVE FALSE
      BY <1>7 DEF Positive
    <2>2. n <= f * d /\ r > 1
      BY <1>4, <1>5, <1>7, <2>1 DEF Positive
    <2>3. (f + 1) * d <= r * d
      <3>1. f + 1 \in Int /\ r \in Int /\ f + 1 <= r
        BY <1>7, <2>1 DEF Positive
      <3>. QED BY <3>1, Cancel
    <2>4. (f + 1) * d = f * d + d /\ f * d \in Int /\ r * d \in Int
      BY <1>7 DEF Positive
    <2>. QED BY <1>7, <2>2, <2>3, <2>4 DEF Positive
  <1>9. geometry.viewport[a] = r
    BY <1>3, <1>5, <1>6, <1>7, <1>8 DEF CutAt, Positive
  <1>. QED BY <1>4, <1>5, <1>7, <1>9

(* A whole extent is not rounded. *)
LEMMA WholeExtent ==
  ASSUME NEW x \in Positive, NEW n \in Positive, NEW d \in Positive, n = x * d,
         NEW v \in Positive, 2 * n < 2 * (v * d) + d, v > 1 => 2 * (v * d) - d <= 2 * n
  PROVE  v = x
  <1>1. x * d \in Int /\ v * d \in Int /\ (v + 1) * d = v * d + d /\ (v - 1) * d = v * d - d
    BY DEF Positive
  <1>2. x < v + 1
    <2>1. x * d < (v + 1) * d
      BY <1>1 DEF Positive
    <2>2. x \in Int /\ v + 1 \in Int
      BY DEF Positive
    <2>. QED BY <2>1, <2>2, Cancel
  <1>3. v > 1 => v - 1 < x
    <2>1. v > 1 => (v - 1) * d < x * d
      BY <1>1 DEF Positive
    <2>2. x \in Int /\ v - 1 \in Int
      BY DEF Positive
    <2>. QED BY <2>1, <2>2, Cancel
  <1>. QED BY <1>2, <1>3 DEF Positive

(* The viewport is the content exactly when the shader does not stretch it.*)
LEMMA OneToOneAgrees ==
  ASSUME NEW content \in Size, NEW frame \in Size, NEW mode \in PresentationModes,
         NEW geometry, geometry = Geometry(content, frame, mode)
  PROVE  geometry.exactOneToOne <=> DrawnOneToOne(content, frame, geometry.effectiveMode)
  <1>1. PICK effective \in PresentationModes :
          /\ effective = EffectiveMode(content, frame, mode)
          /\ effective = "exact" => \A x \in Axis : content[x] <= frame[x]
    <2>1. \A x \in Axis : content[x] \in Int /\ frame[x] \in Int
      BY SizeAxes DEF Positive
    <2>. QED BY <2>1 DEF EffectiveMode, PresentationModes
  <1>2. PICK k : k = ScaleOf(content, frame, effective)
    OBVIOUS
  <1>3. geometry.effectiveMode = effective
    BY <1>1, <1>2, GeometryFields
  <1>4. PICK s : s = Stretched(content, frame, effective)
    OBVIOUS
  <1>6. geometry.exactOneToOne <=> \A a \in Axis : geometry.viewport[a] = content[a]
    BY OneToOneField
  <1>7. DrawnOneToOne(content, frame, effective) <=> \A a \in Axis : s[a].n = content[a] * s[a].d
    BY <1>4 DEF DrawnOneToOne
  <1>8. ASSUME NEW a \in Axis
        PROVE  /\ s[a].n = content[a] * s[a].d => geometry.viewport[a] = content[a]
               /\ s[a].n = frame[a] * s[a].d => geometry.viewport[a] = frame[a]
               /\ s[a].d = 1 => geometry.viewport[a] = s[a].n
    <2>1. LET v == geometry.viewport[a]
          IN  /\ s[a].n \in Positive /\ s[a].d \in Positive
              /\ v \in Positive /\ 2 * s[a].n < 2 * (v * s[a].d) + s[a].d
              /\ v > 1 => 2 * (v * s[a].d) - s[a].d <= 2 * s[a].n
      BY <1>3, <1>4, ViewportRounds
    <2>2. PICK v \in Positive, n \in Positive, d \in Positive, c \in Positive, f \in Positive :
            /\ v = geometry.viewport[a] /\ n = s[a].n /\ d = s[a].d
            /\ c = content[a] /\ f = frame[a]
      BY <2>1, SizeAxes
    <2>3. 2 * n < 2 * (v * d) + d /\ (v > 1 => 2 * (v * d) - d <= 2 * n)
      BY <2>1, <2>2
    <2>4. \A x \in Positive : n = x * d => v = x
      BY <2>3, WholeExtent
    <2>5. d = 1 => n = n * d
      BY DEF Positive
    <2>. QED BY <2>2, <2>4, <2>5
  <1>9. \/ \A a \in Axis : s[a].n = content[a] * s[a].d
        \/ \E b \in Axis : \/ s[b].d = 1 /\ s[b].n # content[b]
                           \/ s[b].n = frame[b] * s[b].d /\ s[b].n # content[b] * s[b].d
    BY <1>1, <1>4, ScaleOfMode DEF StretchedByScale
  <1>. QED BY <1>3, <1>6, <1>7, <1>8, <1>9

(* Both at once: what the shader draws is what the telemetry reports.      *)
LEMMA PictureAgrees ==
  ASSUME NEW content \in Size, NEW frame \in Size, NEW mode \in PresentationModes,
         NEW geometry, geometry = Geometry(content, frame, mode),
         NEW a \in Axis, NEW x \in 0 .. frame[a] - 1,
         NEW first, first = geometry.position[a], NEW past, past = first + geometry.viewport[a],
         NEW drawn, drawn = DrawnPixels(content, frame, geometry.effectiveMode, a)
  PROVE  /\ first < x /\ x < past - 1 => x \in drawn
         /\ x \in drawn => first - 1 <= x /\ x <= past
  <1>1. PICK s : s = Stretched(content, frame, geometry.effectiveMode)
    OBVIOUS
  <1>2. LET v == geometry.viewport[a]
        IN  /\ s[a].n \in Positive /\ s[a].d \in Positive
            /\ v \in Positive /\ 2 * s[a].n < 2 * (v * s[a].d) + s[a].d
            /\ v > 1 => 2 * (v * s[a].d) - s[a].d <= 2 * s[a].n
    BY <1>1, ViewportRounds
  <1>3. PICK v \in Positive, n \in Positive, d \in Positive, f \in Positive :
          v = geometry.viewport[a] /\ n = s[a].n /\ d = s[a].d /\ f = frame[a]
    BY <1>2, SizeAxes
  <1>4. first = Half(f - v) /\ past = first + v /\ first \in Int
    <2>1. first = Half(f - v)
      BY <1>3, PositionField
    <2>2. f - v \in Int
      BY DEF Positive
    <2>. QED BY <1>3, <2>1, <2>2, HalfBounds
  <1>5. 2 * n < 2 * (v * d) + d /\ (v > 1 => 2 * (v * d) - d <= 2 * n)
    BY <1>2, <1>3
  <1>6. x \in Nat
    BY <1>3 DEF Positive
  <1>7. x \in drawn <=> (2 * x + 1 - f) * d >= -n /\ (2 * x + 1 - f) * d < n
    BY <1>1, <1>3 DEF DrawnPixels
  <1>8. past - 1 = first + v - 1
    BY <1>4 DEF Positive
  <1>. QED BY <1>4, <1>5, <1>6, <1>7, <1>8, PixelsOfViewport

-------------------------------------------------------------------------------
(* The picture on the screen. *)

(* The swapchain always has a size, whatever the user makes of the window. *)
WindowInv ==
  /\ scenario \in Scenarios
  /\ swapchain \in Size
  /\ framebuffer \in Size \union {Minimised} /\ windowed \in Size \union {Minimised}

(* The window opens with a size. *)
LEMMA WindowInvInit == Init => WindowInv
  BY SizesAssumption DEF Init, OpenWindow, WindowInv

(* No gesture gives the swapchain an empty size. *)
LEMMA WindowInvStep == WindowInv /\ [Next]_vars => WindowInv'
  <1>1. SUFFICES ASSUME WindowInv, [Next]_vars PROVE WindowInv'
    OBVIOUS
  <1>2. CASE UNCHANGED <<scenario, window>>
    BY <1>1, <1>2 DEF WindowInv, window
  <1>3. CASE UNCHANGED scenario /\ ToggleFullscreen
    BY <1>1, <1>3, SizesAssumption DEF WindowInv, ToggleFullscreen
  <1>4. CASE Resize
    BY <1>1, <1>4, SizesAssumption DEF WindowInv, Resize
  <1>5. CASE HandleWindow \/ HandleEscape
    BY <1>2, <1>3, <1>5 DEF HandleWindow, HandleEscape
  <1>6. CASE AcquireFails \/ Present
    BY <1>1, <1>6 DEF WindowInv, AcquireFails, Present
  <1>7. CASE Tick \/ PollEvents \/ Home \/ TakeLive \/ KeepFrame \/ TakeFile \/ EndOfFile
          \/ DropLate \/ Choose \/ NoExtent \/ Finished \/ UNCHANGED vars
    <2>1. UNCHANGED <<scenario, window>>
      BY <1>7 DEF Tick, PollEvents, Home, TakeLive, KeepFrame, TakeFile, EndOfFile, DropLate,
         Choose, NoExtent, Finished, vars
    <2>. QED BY <1>2, <2>1
  <1>. QED BY <1>1, <1>4, <1>5, <1>6, <1>7 DEF Next

(* What was shown of the two computations holds of every presented size. *)
LEMMA ScreenAgrees ==
  ASSUME WindowInv
  PROVE  ScreenMatchesTelemetry
  <1>1. PICK content \in Size, mode \in PresentationModes :
          content = scenario.content /\ mode = RequestedMode
    <2>1. /\ scenario.content \in Size
          /\ scenario.presentation \in PresentationModes \union {"auto"}
      BY SizesAssumption DEF WindowInv
    <2>. QED BY <2>1 DEF RequestedMode, PresentationModes
  <1>2. swapchain \in Size
    BY DEF WindowInv
  <1>3. PICK geometry : geometry = Geometry(content, swapchain, mode)
    OBVIOUS
  <1>4. geometry = PresentedGeometry
    BY <1>1, <1>3 DEF PresentedGeometry
  <1>5. ASSUME NEW a \in Axis, NEW x \in 0 .. swapchain[a] - 1
        PROVE  LET drawn == DrawnPixels(content, swapchain, geometry.effectiveMode, a)
                   first == geometry.position[a]
                   past  == first + geometry.viewport[a]
               IN  /\ first < x /\ x < past - 1 => x \in drawn
                   /\ x \in drawn => first - 1 <= x /\ x <= past
    BY <1>2, <1>3, PictureAgrees
  <1>6. geometry.exactOneToOne <=> DrawnOneToOne(content, swapchain, geometry.effectiveMode)
    BY <1>2, <1>3, OneToOneAgrees
  <1>. QED BY <1>1, <1>4, <1>5, <1>6, Zenon DEF ScreenMatchesTelemetry

-------------------------------------------------------------------------------
(* What the telemetry and the screenshots report of the picture is what    *)
(* the shader draws, whatever the sizes of the picture and the window, the *)
(* mode, and however the user drags, minimises or maximises the window.    *)
THEOREM ScreenShowsWhatIsReported == Spec => []ScreenMatchesTelemetry
  <1>1. WindowInv => ScreenMatchesTelemetry
    BY ScreenAgrees
  <1>. QED BY <1>1, WindowInvInit, WindowInvStep, PTL DEF Spec

-------------------------------------------------------------------------------
(* The rolling rate. *)

(* The rate counts one interval more than were presented, but no second.   *)
AtMostOneTooMany ==
  rate # None => rate.intervals <= presentedFrames + 1

RateInv ==
  AtMostOneTooMany /\ presentedFrames \in Nat /\ (rate # None => rate.intervals \in Int)

(* The loop over the newest intervals ends behind the last at most. *)
LEMMA RateOfRing ==
  ASSUME NEW ring, ring.count \in Nat, NEW ticks
  PROVE  /\ WindowedRate(ring, ticks).intervals \in Int
         /\ WindowedRate(ring, ticks).intervals <= ring.count + 1
  <1> DEFINE covering == {n \in 1 .. ring.count : NewestSum(ring, n) >= ticks}
             shortest == CHOOSE n \in covering : \A m \in covering : n <= m
             ended == IF covering = {} THEN ring.count ELSE shortest - 1
  <1>1. WindowedRate(ring, ticks).intervals = IF ring.count = 0 THEN 0 ELSE ended + 1
    BY DEF WindowedRate
  <1>2. covering # {} => shortest \in 1 .. ring.count
    <2>1. covering \subseteq 1 .. ring.count /\ covering \subseteq Nat
      OBVIOUS
    <2>. HIDE DEF covering
    <2>2. SUFFICES ASSUME covering # {} PROVE shortest \in covering
      BY <2>1
    <2>3. \E n \in covering : \A m \in covering : n <= m
      BY <2>1, <2>2, LeastNumber
    <2>. QED BY <2>3
  <1>. HIDE DEF covering, shortest
  <1>3. ended \in Int /\ ended <= ring.count
    BY <1>2
  <1>. HIDE DEF ended
  <1>. QED BY <1>1, <1>3

(* Each sample is taken of the history; until the next it can only fall behind. *)
LEMMA RateInvStep ==
  TimeInv /\ HistoryInv /\ RateInv /\ [Next]_vars => RateInv'
  <1>1. SUFFICES ASSUME TimeInv, HistoryInv, RateInv, [Next]_vars PROVE RateInv'
    OBVIOUS
  <1>2. CASE UNCHANGED <<presentedFrames, rate>>
    BY <1>1, <1>2 DEF RateInv, AtMostOneTooMany
  <1>3. CASE ResetActivePlayback
    BY <1>3 DEF ResetActivePlayback, RateInv, AtMostOneTooMany
  <1>4. CASE Present
    <2>1. HistoryInv'
      BY <1>1, HistoryInvStep
    <2>2. presentedFrames' \in {presentedFrames, presentedFrames + 1}
      BY <1>4 DEF Present, CountPresent, histories
    <2>3. presentedFrames \in Nat /\ presentedFrames' \in Nat /\ presentedFrames <= presentedFrames'
      BY <1>1, <2>2 DEF RateInv
    <2>4. CASE rate' = rate
      <3>1. rate # None => rate.intervals \in Int /\ rate.intervals <= presentedFrames + 1
        BY <1>1 DEF RateInv, AtMostOneTooMany
      <3>. QED BY <2>3, <2>4, <3>1 DEF RateInv, AtMostOneTooMany
    <2>5. CASE rate' = WindowedRate(intervals', RateWindow)
      <3>1. /\ intervals'.count \in 0 .. History /\ log' \in Seq(Int)
            /\ intervals'.count = IF Len(log') < History THEN Len(log') ELSE History
            /\ presentedFrames' = Len(log')
        BY <2>1 DEF HistoryInv, Holds, Ring
      <3>2. PICK c \in Nat : c = intervals'.count /\ c <= presentedFrames'
        BY <2>3, <3>1, HistoryAssumption
      <3>3. rate'.intervals \in Int /\ rate'.intervals <= c + 1
        BY <2>5, <3>2, RateOfRing
      <3>. QED BY <2>3, <3>2, <3>3 DEF RateInv, AtMostOneTooMany
    <2>. QED BY <1>4, <2>4, <2>5 DEF Present, SampleRates
  <1>5. CASE Home \/ TakeFile
    BY <1>2, <1>3, <1>5 DEF Home, TakeFile, telemetry, histories
  <1>6. CASE PollEvents
    BY <1>2, <1>6 DEF PollEvents, ForgetAnchor, telemetry, histories
  <1>7. CASE Tick \/ Resize \/ HandleWindow \/ HandleEscape \/ TakeLive \/ KeepFrame
          \/ EndOfFile \/ DropLate \/ Choose \/ NoExtent \/ AcquireFails \/ Finished
          \/ UNCHANGED vars
    <2>1. UNCHANGED <<presentedFrames, rate>>
      BY <1>7 DEF Tick, Resize, HandleWindow, HandleEscape, TakeLive, KeepFrame, EndOfFile,
         DropLate, Choose, NoExtent, AcquireFails, Finished, vars, telemetry, histories
    <2>. QED BY <1>2, <2>1
  <1>. QED BY <1>1, <1>4, <1>5, <1>6, <1>7 DEF Next

(* The rolling rate counts at most one interval that was not presented:    *)
(* that is all RateCountsIntervals is violated by.                         *)
THEOREM RateAlmostRight == Spec => []AtMostOneTooMany
  <1>1. Init => TimeInv /\ HistoryInv /\ RateInv
    BY TimeInvInit, HistoryInvInit DEF Init, RateInv, AtMostOneTooMany
  <1>2. TimeInv /\ HistoryInv /\ RateInv /\ [Next]_vars => (TimeInv /\ HistoryInv /\ RateInv)'
    BY TimeInvStep, HistoryInvStep, RateInvStep
  <1>3. RateInv => AtMostOneTooMany
    BY DEF RateInv
  <1>. QED BY <1>1, <1>2, <1>3, PTL DEF Spec
===============================================================================
