-------------------------------- MODULE Metrics --------------------------------
(***************************************************************************)
(* telemetry/Metrics: the fixed histories frame times are kept in, and the *)
(* rates computed from them.  A history is an array filled from its first  *)
(* place on and then overwritten in a ring.  Times are whole ticks, and a  *)
(* rate is kept as the intervals it counts and the time they span.         *)
(***************************************************************************)
EXTENDS Integers

EmptyHistory(capacity) ==
  [values |-> [i \in 0 .. capacity - 1 |-> 0], cursor |-> 0, count |-> 0,
   capacity |-> capacity]

(* Slip: the count goes on when the array is full. *)
AddUncounted(history, value) ==
  [history EXCEPT !.values[history.cursor] = value,
                  !.cursor = (@ + 1) % history.capacity,
                  !.count = @ + 1]

Add(history, value) ==
  [history EXCEPT !.values[history.cursor] = value,
                  !.cursor = (@ + 1) % history.capacity,
                  !.count = IF @ < history.capacity THEN @ + 1 ELSE history.capacity]

(* The value added offset values before the latest, or zero. *)
Newest(history, offset) ==
  IF offset < history.count
    THEN history.values[(history.cursor + history.capacity - 1 - offset)
                          % history.capacity]
    ELSE 0

(* The sum of the n newest values. *)
NewestSum(history, n) ==
  LET sum[k \in 0 .. n] == IF k = 0 THEN 0 ELSE sum[k - 1] + Newest(history, k - 1)
  IN  sum[n]

(* average: over the places in use, which are the first ones. *)
AverageInterval(history) ==
  LET sum[k \in 0 .. history.count] ==
        IF k = 0 THEN 0 ELSE sum[k - 1] + history.values[k - 1]
  IN  [intervals |-> history.count, span |-> sum[history.count]]

(* fpsFromNewestIntervalWindow: the loop over the newest intervals ends    *)
(* where they cover the window, or at their count; either way the place it *)
(* ends at is counted too.                                                 *)
WindowedRate(history, window) ==
  LET covering == {n \in 1 .. history.count : NewestSum(history, n) >= window}
      ended == IF covering = {} THEN history.count
               ELSE (CHOOSE n \in covering : \A m \in covering : n <= m) - 1
  IN  [intervals |-> IF history.count = 0 THEN 0 ELSE ended + 1,
       span |-> NewestSum(history, IF covering = {} THEN ended ELSE ended + 1)]
===============================================================================
