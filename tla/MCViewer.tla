------------------------------- MODULE MCViewer --------------------------------
(* Small instances of Viewer: time with a fixed window, and windows without time. *)
EXTENDS Viewer

Timed(policy, dropLate, time, gestures) ==
  [policy |-> policy, dropLate |-> dropLate, presentation |-> "auto",
   content |-> <<4, 3>>, time |-> time, gestures |-> gestures,
   fullscreen |-> FALSE, sizes |-> {<<4, 3>>}, resizes |-> {}]

Windowed(presentation, content, opensFull, sizes, resizes, gestures) ==
  [policy |-> "live", dropLate |-> FALSE, presentation |-> presentation,
   content |-> content, time |-> 0, gestures |-> gestures,
   fullscreen |-> opensFull, sizes |-> sizes, resizes |-> resizes]

Options == {"auto", "exact", "fit", "fill", "integer"}
Contents == {<<4, 3>>, <<3, 5>>, <<1, 4>>}

MCScenarios ==
       {Timed("live", FALSE, 6, {"pause", "seek", "zoom"}),
        Timed("once", TRUE, 8, {"pause", "step", "zoom"}),
        Timed("loop", FALSE, 8, {"pause", "step", "seek"})}
  \union {Windowed(p, c, FALSE, (1 .. 9) \X (1 .. 9), {}, {}) : p \in Options, c \in Contents}
  \union {Windowed(p, <<4, 3>>, f, {<<4, 3>>}, {<<4, 3>>, <<3, 3>>, <<6, 2>>, Minimised},
                 {"fullscreen", "escape"}) : p \in Options, f \in BOOLEAN}

MCMonitor == <<8, 5>>
===============================================================================
