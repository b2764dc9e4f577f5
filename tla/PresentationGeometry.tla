------------------------- MODULE PresentationGeometry --------------------------
(***************************************************************************)
(* Where the reconstructed picture goes in the framebuffer, twice: as      *)
(* render/Upscaling computes it for the telemetry, the screenshots and the *)
(* choice between texel fetch and filter, and as fullscreen_present.frag   *)
(* computes it again for every pixel.  Sizes are pairs <<width, height>>   *)
(* and the scales are exact fractions.                                     *)
(***************************************************************************)
EXTENDS Integers

PresentationModes == {"exact", "fit", "fill", "integer"}
Axis == 1 .. 2

(* Sizes a geometry is computed for. *)
Size == (Nat \ {0}) \X (Nat \ {0})

Fraction(n, d) == [n |-> n, d |-> d]
AtMost(p, q)   == p.n * q.d <= q.n * p.d
Smaller(p, q)  == IF AtMost(p, q) THEN p ELSE q
Larger(p, q)   == IF AtMost(p, q) THEN q ELSE p
Floor(p)     == p.n \div p.d
AtLeastOne(p)  == p.n >= p.d

(* Framebuffer pixels per reconstructed pixel along an axis. *)
Ratio(content, frame, a) == Fraction(frame[a], content[a])

-------------------------------------------------------------------------------
(* Upscaling.cpp *)

RoundedExtent(p) ==
  LET nearest == (2 * p.n + p.d) \div (2 * p.d)
  IN  IF p.n = 0 THEN 0 ELSE IF nearest < 1 THEN 1 ELSE nearest

(* Division by two that rounds towards zero. *)
Half(n) == IF n >= 0 THEN n \div 2 ELSE -((-n) \div 2)

(* Slip: a picture that has to shrink is treated like one that grows. *)
IntegerScaleOnly(content, frame) ==
  Fraction(Floor(Smaller(Ratio(content, frame, 1), Ratio(content, frame, 2))), 1)

IntegerScale(content, frame) ==
  LET fit == Smaller(Ratio(content, frame, 1), Ratio(content, frame, 2))
  IN  IF AtLeastOne(fit) THEN Fraction(Floor(fit), 1) ELSE fit

EffectiveMode(content, frame, mode) ==
  IF mode = "exact" /\ \E a \in Axis : content[a] > frame[a] THEN "fit" ELSE mode

(* calculatePresentationGeometry *)
Geometry(content, frame, mode) ==
  LET sx == Ratio(content, frame, 1)
      sy == Ratio(content, frame, 2)
      effective == EffectiveMode(content, frame, mode)
      scale == CASE effective = "exact"   -> Fraction(1, 1)
                 [] effective = "fit"     -> Smaller(sx, sy)
                 [] effective = "fill"    -> Larger(sx, sy)
                 [] effective = "integer" -> IntegerScale(content, frame)
      scaled == [a \in Axis |-> RoundedExtent(Fraction(content[a] * scale.n, scale.d))]
      viewport == [a \in Axis |-> IF effective # "fill" /\ scaled[a] > frame[a]
                                    THEN frame[a] ELSE scaled[a]]
  IN  [effectiveMode |-> effective,
       viewport      |-> viewport,
       position      |-> [a \in Axis |-> Half(frame[a] - viewport[a])],
       exactOneToOne |-> viewport = content]

-------------------------------------------------------------------------------
(* fullscreen_present.frag *)

(* The width and height, in pixels, the picture is stretched to. *)
Stretched(content, frame, mode) ==
  LET wider == frame[1] * content[2] > content[1] * frame[2]
      whole == [a \in Axis |-> Fraction(frame[a], 1)]
      byHeight == [whole EXCEPT ![1] = Fraction(content[1] * frame[2], content[2])]
      byWidth  == [whole EXCEPT ![2] = Fraction(content[2] * frame[1], content[1])]
      least == Smaller(Ratio(content, frame, 1), Ratio(content, frame, 2))
      k == IF AtLeastOne(least) THEN Fraction(Floor(least), 1) ELSE least
  IN  CASE mode = "exact"   -> [a \in Axis |-> Fraction(content[a], 1)]
        [] mode = "fit"     -> IF wider THEN byHeight ELSE byWidth
        [] mode = "fill"    -> IF wider THEN byWidth ELSE byHeight
        [] mode = "integer" -> [a \in Axis |-> Fraction(content[a] * k.n, k.d)]

(* The columns (or rows) that are not discarded: those with their centre   *)
(* in the stretched picture, which is centred in the framebuffer.          *)
DrawnPixels(content, frame, mode, a) ==
  LET s == Stretched(content, frame, mode)[a]
  IN  {x \in 0 .. frame[a] - 1 : /\ (2 * x + 1 - frame[a]) * s.d >= -s.n
                                 /\ (2 * x + 1 - frame[a]) * s.d < s.n}

(* One reconstructed pixel for one pixel of the framebuffer. *)
DrawnOneToOne(content, frame, mode) ==
  \A a \in Axis : LET s == Stretched(content, frame, mode)[a]
                  IN  s.n = content[a] * s.d
===============================================================================
