---------------------------- MODULE RecordingProofs ----------------------------
(***************************************************************************)
(* Theorems about Recording, for every sequence of formats, modes,         *)
(* comparisons and screenshots.  A command buffer is followed block by     *)
(* block: what the GPU's state is before a block, and what it is behind    *)
(* it, as a logic of programs does.                                        *)
(***************************************************************************)
EXTENDS Recording, SequenceTheorems, TLAPS

-------------------------------------------------------------------------------
(* What the GPU has done so far, as one value, and what a command makes of *)
(* it if it is ordered.                                                    *)
Machine ==
  [layout |-> layout, holds |-> holds, users |-> users, dirty |-> dirty, safe |-> safe,
   ticks |-> ticks, work |-> work, shown |-> shown, captured |-> captured]

Put(f, i, v) == [j \in Image |-> IF j = i THEN v ELSE f[j]]

AfterBarrier(c, s) ==
  [layout |-> Put(s.layout, c.image, c.new),
   holds |-> Put(s.holds, c.image, IF c.old = "Undefined" THEN <<>> ELSE s.holds[c.image]),
   users |-> Put(s.users, c.image, {c.to}), dirty |-> Put(s.dirty, c.image, {}),
   safe |-> Put(s.safe, c.image, {c.to} \X c.dst),
   ticks |-> s.ticks, work |-> s.work, shown |-> s.shown, captured |-> s.captured]

(* Work of one stage that reads some images and writes others. *)
AfterWork(name, stage, reads, writes, kinds, made, drawn, copied, s) ==
  [layout |-> s.layout, holds |-> made,
   users |-> [j \in Image |-> IF j \in reads \union writes THEN s.users[j] \union {stage}
                              ELSE s.users[j]],
   dirty |-> [j \in Image |-> IF j \in writes THEN s.dirty[j] \union kinds ELSE s.dirty[j]],
   safe |-> [j \in Image |-> IF j \in writes THEN {}
                             ELSE IF j \in reads THEN {a \in s.safe[j] : a[2] \notin Writes}
                             ELSE s.safe[j]],
   ticks |-> s.ticks, work |-> Append(s.work, name), shown |-> drawn, captured |-> copied]

AfterStamp(c, s) ==
  [layout |-> s.layout, holds |-> s.holds, users |-> s.users, dirty |-> s.dirty,
   safe |-> s.safe,
   ticks |-> [q \in Slot |-> IF q = c.slot THEN Len(s.work) ELSE s.ticks[q]],
   work |-> s.work, shown |-> s.shown, captured |-> s.captured]

MayUse(s, images, stage, kind, in) ==
  \A i \in images : i \in Image /\ s.layout[i] = in /\ <<stage, kind>> \in s.safe[i]

Step(c, s, t) ==
  \/ /\ c.op = "barrier" /\ c.image \in Image
     /\ c.old \in {"Undefined", s.layout[c.image]}
     /\ c.from = "AllCommands" \/ s.users[c.image] \subseteq {c.from}
     /\ s.dirty[c.image] \subseteq c.src
     /\ t = AfterBarrier(c, s)
  \/ /\ c.op = "copy"
     /\ MayUse(s, {c.image}, "Transfer", "TransferWrite", "TransferDst")
     /\ t = AfterWork("Copy", "Transfer", {}, {c.image}, {"TransferWrite"},
                      Put(s.holds, c.image, <<"Picture">>), s.shown, s.captured, s)
  \/ /\ c.op = "pass" /\ c.from # {} /\ c.to \notin c.from
     /\ \A i \in c.from : MayUse(s, {i}, "Compute", "ShaderRead", Sampled(i))
     /\ MayUse(s, {c.to}, "Compute", "ShaderWrite", "General")
     /\ \E v : /\ v # <<>> /\ \A i \in c.from : s.holds[i] = v
               /\ t = AfterWork(c.name, "Compute", c.from, {c.to}, {"ShaderWrite"},
                                Put(s.holds, c.to, Append(v, c.name)), s.shown, s.captured, s)
  \/ /\ c.op = "readback"
     /\ MayUse(s, {c.image}, "Transfer", "TransferRead", "TransferSrc")
     /\ t = AfterWork("Readback", "Transfer", {c.image}, {}, {}, s.holds, s.shown,
                      Append(s.captured, s.holds[c.image]), s)
  \/ /\ c.op = "draw"
     /\ MayUse(s, ToSet(c.images), "Fragment", "ShaderRead", "General")
     /\ t = AfterWork("Draw", "Fragment", ToSet(c.images), {}, {}, s.holds,
                      [k \in DOMAIN c.images |-> s.holds[c.images[k]]], s.captured, s)
  \/ /\ c.op = "stamp" /\ c.slot \in Slot /\ s.ticks[c.slot] = None
     /\ t = AfterStamp(c, s)

-------------------------------------------------------------------------------
(* Running a list of commands from one state to another. *)
Runs(list, s, t) ==
  /\ \E C : list \in Seq(C)
  /\ \E run : /\ run[0] = s /\ run[Len(list)] = t
              /\ \A k \in 1 .. Len(list) : Step(list[k], run[k - 1], run[k])

(* Nothing to do changes nothing. *)
LEMMA RunsNothing ==
  ASSUME NEW s, NEW t
  PROVE  Runs(<<>>, s, t) <=> s = t
  <1>1. <<>> \in Seq({}) /\ Len(<<>>) = 0
    OBVIOUS
  <1>2. ASSUME s = t PROVE Runs(<<>>, s, t)
    <2>. DEFINE run == [k \in {0} |-> s]
    <2>1. run[0] = s /\ run[Len(<<>>)] = t
      BY <1>1, <1>2
    <2>2. \A k \in 1 .. Len(<<>>) : FALSE
      BY <1>1
    <2>. HIDE DEF run
    <2>. QED BY <1>1, <2>1, <2>2 DEF Runs
  <1>. QED BY <1>1, <1>2 DEF Runs

(* A list of one command. *)
LEMMA RunsOne ==
  ASSUME NEW c, NEW s, NEW t, Step(c, s, t)
  PROVE  Runs(<<c>>, s, t)
  <1>. DEFINE run == [k \in {0, 1} |-> IF k = 0 THEN s ELSE t]
  <1>1. <<c>> \in Seq({c}) /\ Len(<<c>>) = 1 /\ <<c>>[1] = c
    OBVIOUS
  <1>2. run[0] = s /\ run[1] = t
    OBVIOUS
  <1>. HIDE DEF run
  <1>3. \A k \in 1 .. Len(<<c>>) : Step(<<c>>[k], run[k - 1], run[k])
    <2>1. \A k \in 1 .. Len(<<c>>) : k = 1 /\ k - 1 = 0
      BY <1>1
    <2>. QED BY <1>1, <1>2, <2>1
  <1>. QED BY <1>1, <1>2, <1>3 DEF Runs

(* One list behind another. *)
LEMMA RunsBoth ==
  ASSUME NEW a, NEW b, NEW s, NEW t, NEW u, Runs(a, s, t), Runs(b, t, u)
  PROVE  Runs(a \o b, s, u)
  <1>1. PICK A : a \in Seq(A)
    BY DEF Runs
  <1>2. PICK B : b \in Seq(B)
    BY DEF Runs
  <1>3. PICK r : /\ r[0] = s /\ r[Len(a)] = t
                 /\ \A k \in 1 .. Len(a) : Step(a[k], r[k - 1], r[k])
    BY DEF Runs
  <1>4. PICK q : /\ q[0] = t /\ q[Len(b)] = u
                 /\ \A k \in 1 .. Len(b) : Step(b[k], q[k - 1], q[k])
    BY DEF Runs
  <1>. DEFINE run == [k \in 0 .. Len(a) + Len(b) |-> IF k <= Len(a) THEN r[k] ELSE q[k - Len(a)]]
  <1>5. a \in Seq(A \union B) /\ b \in Seq(A \union B) /\ Len(a) \in Nat /\ Len(b) \in Nat
    BY <1>1, <1>2
  <1>6. /\ a \o b \in Seq(A \union B) /\ Len(a \o b) = Len(a) + Len(b)
        /\ \A k \in 1 .. Len(a) + Len(b) :
             (a \o b)[k] = IF k <= Len(a) THEN a[k] ELSE b[k - Len(a)]
    BY <1>5
  <1>7. run[0] = s
    BY <1>3, <1>5
  <1>8. run[Len(a) + Len(b)] = u
    <2>1. CASE Len(b) = 0
      BY <1>3, <1>4, <1>5, <2>1
    <2>2. CASE Len(b) # 0
      BY <1>4, <1>5, <2>2
    <2>. QED BY <2>1, <2>2
  <1>9. ASSUME NEW k \in 1 .. Len(a) + Len(b)
        PROVE  Step((a \o b)[k], run[k - 1], run[k])
    <2>1. CASE k <= Len(a)
      <3>1. k \in 1 .. Len(a) /\ run[k - 1] = r[k - 1] /\ run[k] = r[k]
        BY <1>5, <2>1
      <3>. QED BY <1>3, <1>6, <2>1, <3>1
    <2>2. CASE k > Len(a)
      <3>1. k - Len(a) \in 1 .. Len(b) /\ run[k] = q[k - Len(a)] /\ (k - Len(a)) - 1 = (k - 1) - Len(a)
        BY <1>5, <2>2
      <3>2. run[k - 1] = q[(k - Len(a)) - 1]
        BY <1>3, <1>4, <1>5, <2>2
      <3>3. (a \o b)[k] = b[k - Len(a)]
        BY <1>5, <1>6, <2>2
      <3>4. Step(b[k - Len(a)], q[(k - Len(a)) - 1], q[k - Len(a)])
        BY <1>4, <3>1
      <3>. QED BY <3>1, <3>2, <3>3, <3>4
    <2>. QED BY <1>5, <2>1, <2>2
  <1>. HIDE DEF run
  <1>. QED BY <1>6, <1>7, <1>8, <1>9 DEF Runs

(* A list that is not done yet: its first command and the others. *)
LEMMA RunsFirst ==
  ASSUME NEW list, NEW s, NEW t, Runs(list, s, t), list # <<>>
  PROVE  \E r : Step(Head(list), s, r) /\ Runs(Tail(list), r, t)
  <1>1. PICK C : list \in Seq(C)
    BY DEF Runs
  <1>2. PICK run : /\ run[0] = s /\ run[Len(list)] = t
                   /\ \A k \in 1 .. Len(list) : Step(list[k], run[k - 1], run[k])
    BY DEF Runs
  <1>3. /\ Len(list) \in Nat \ {0} /\ Head(list) = list[1]
        /\ Tail(list) \in Seq(C) /\ Len(Tail(list)) = Len(list) - 1
        /\ \A k \in 1 .. Len(list) - 1 : Tail(list)[k] = list[k + 1]
    BY <1>1
  <1>4. Step(Head(list), s, run[1])
    <2>1. 1 \in 1 .. Len(list) /\ 1 - 1 = 0
      BY <1>3
    <2>. QED BY <1>2, <1>3, <2>1
  <1>. DEFINE rest == [k \in 0 .. Len(list) - 1 |-> run[k + 1]]
  <1>5. rest[0] = run[1] /\ rest[Len(Tail(list))] = t
    BY <1>2, <1>3
  <1>6. ASSUME NEW k \in 1 .. Len(Tail(list))
        PROVE  Step(Tail(list)[k], rest[k - 1], rest[k])
    <2>1. k + 1 \in 1 .. Len(list) /\ (k + 1) - 1 = k /\ Tail(list)[k] = list[k + 1]
      BY <1>3
    <2>2. rest[k] = run[k + 1] /\ rest[k - 1] = run[k]
      BY <1>3
    <2>3. Step(list[k + 1], run[(k + 1) - 1], run[k + 1])
      BY <1>2, <2>1
    <2>. QED BY <2>1, <2>2, <2>3
  <1>. HIDE DEF rest
  <1>7. Runs(Tail(list), run[1], t)
    BY <1>3, <1>5, <1>6 DEF Runs
  <1>. QED BY <1>4, <1>7

-------------------------------------------------------------------------------
(* Single commands: when they are in order, and what they change. *)

(* What two states have in common. *)
SameImage(s, t, i) ==
  /\ t.layout[i] = s.layout[i] /\ t.holds[i] = s.holds[i] /\ t.users[i] = s.users[i]
  /\ t.dirty[i] = s.dirty[i] /\ t.safe[i] = s.safe[i]

SameBut(s, t, images) == \A i \in Image \ images : SameImage(s, t, i)

SameResults(s, t) ==
  t.ticks = s.ticks /\ t.work = s.work /\ t.shown = s.shown /\ t.captured = s.captured

(* How an image is: in a layout, used by no other stages than these since  *)
(* the last barrier, with nothing written that is not available.           *)
Settled(s, i, in, stages) == s.layout[i] = in /\ s.users[i] \subseteq stages /\ s.dirty[i] = {}

Fresh(s, i) == s.users[i] = {} /\ s.dirty[i] = {}

(* Behind a barrier of image i. *)
Moved(s, t, i, old, new, dst, to) ==
  /\ Settled(t, i, new, {to}) /\ t.safe[i] = {to} \X dst
  /\ old # "Undefined" => t.holds[i] = s.holds[i]
  /\ SameBut(s, t, {i}) /\ SameResults(s, t)

LEMMA RunsBarrier ==
  ASSUME NEW s, NEW i \in Image, NEW old, NEW new, NEW src, NEW dst, NEW from, NEW to,
         old \in {"Undefined", s.layout[i]},
         from = "AllCommands" \/ s.users[i] \subseteq {from},
         s.dirty[i] \subseteq src
  PROVE  \E t : Runs(Barrier(i, old, new, src, dst, from, to), s, t)
                /\ Moved(s, t, i, old, new, dst, to)
  <1>. DEFINE c == [op |-> "barrier", image |-> i, old |-> old, new |-> new,
                    src |-> src, dst |-> dst, from |-> from, to |-> to]
              t == AfterBarrier(c, s)
  <1>1. Step(c, s, t)
    BY DEF Step
  <1>2. Runs(Barrier(i, old, new, src, dst, from, to), s, t)
    BY <1>1, RunsOne DEF Barrier
  <1>3. Moved(s, t, i, old, new, dst, to)
    BY DEF AfterBarrier, Put, Moved, Settled, SameBut, SameImage, SameResults
  <1>. QED BY <1>2, <1>3

LEMMA RunsBetween ==
  ASSUME NEW s, NEW i \in Image, NEW src, NEW dst, NEW to,
         s.layout[i] = "General", s.users[i] \subseteq {"Compute"}, s.dirty[i] \subseteq src
  PROVE  \E t : Runs(Between(i, src, dst, to), s, t)
                /\ Moved(s, t, i, "General", "General", dst, to)
  <1>1. "General" \in {"Undefined", s.layout[i]}
    OBVIOUS
  <1>. QED BY <1>1, RunsBarrier DEF Between

(* What a pass needs of an image it reads, and of the one it writes. *)
Usable(s, i, stage, kind, in) ==
  Settled(s, i, in, {stage}) /\ <<stage, kind>> \in s.safe[i]

(* Behind a pass whose inputs hold v. *)
Passed(s, t, name, from, to, v) ==
  /\ \A i \in from : /\ Usable(t, i, "Compute", "ShaderRead", Sampled(i))
                     /\ t.holds[i] = s.holds[i]
  /\ t.layout[to] = "General" /\ t.users[to] = {"Compute"}
  /\ t.dirty[to] = {"ShaderWrite"} /\ t.holds[to] = Append(v, name)
  /\ SameBut(s, t, from \union {to})
  /\ t.work = Append(s.work, name) /\ t.ticks = s.ticks
  /\ t.shown = s.shown /\ t.captured = s.captured

LEMMA RunsPass ==
  ASSUME NEW s, NEW name, NEW from \in SUBSET Image, from # {}, NEW to \in Image \ from,
         NEW v, v # <<>>,
         \A i \in from : Usable(s, i, "Compute", "ShaderRead", Sampled(i)) /\ s.holds[i] = v,
         Usable(s, to, "Compute", "ShaderWrite", "General")
  PROVE  \E t : Runs(Pass(name, from, to), s, t) /\ Passed(s, t, name, from, to, v)
  <1>. DEFINE c == [op |-> "pass", name |-> name, from |-> from, to |-> to]
              t == AfterWork(name, "Compute", from, {to}, {"ShaderWrite"},
                             Put(s.holds, to, Append(v, name)), s.shown, s.captured, s)
  <1>1. Step(c, s, t)
    <2>1. \A i \in from : MayUse(s, {i}, "Compute", "ShaderRead", Sampled(i))
      BY DEF MayUse, Usable, Settled
    <2>2. MayUse(s, {to}, "Compute", "ShaderWrite", "General")
      BY DEF MayUse, Usable, Settled
    <2>. QED BY <2>1, <2>2 DEF Step
  <1>2. Runs(Pass(name, from, to), s, t)
    BY <1>1, RunsOne DEF Pass
  <1>3. \A i \in from : Usable(t, i, "Compute", "ShaderRead", Sampled(i)) /\ t.holds[i] = s.holds[i]
    BY DEF AfterWork, Put, Usable, Settled, Writes
  <1>4. /\ t.layout[to] = "General" /\ t.users[to] = s.users[to] \union {"Compute"}
        /\ t.dirty[to] = {"ShaderWrite"} /\ t.holds[to] = Append(v, name)
    BY DEF AfterWork, Put, Usable, Settled
  <1>5. SameBut(s, t, from \union {to})
    BY DEF AfterWork, Put, SameBut, SameImage
  <1>6. /\ t.work = Append(s.work, name) /\ t.ticks = s.ticks
        /\ t.shown = s.shown /\ t.captured = s.captured
    BY DEF AfterWork
  <1>7. t.users[to] = {"Compute"}
    BY <1>4 DEF Usable, Settled
  <1>. HIDE DEF t
  <1>. QED BY <1>2, <1>3, <1>4, <1>5, <1>6, <1>7 DEF Passed

(* The copy of a plane from the staging buffer. *)
Copied(s, t, i) ==
  /\ t.layout[i] = "TransferDst" /\ t.users[i] = {"Transfer"}
  /\ t.dirty[i] = {"TransferWrite"} /\ t.holds[i] = <<"Picture">>
  /\ SameBut(s, t, {i})
  /\ t.work = Append(s.work, "Copy") /\ t.ticks = s.ticks
  /\ t.shown = s.shown /\ t.captured = s.captured

LEMMA RunsCopy ==
  ASSUME NEW s, NEW i \in Image, Usable(s, i, "Transfer", "TransferWrite", "TransferDst")
  PROVE  \E t : Runs(Copy(i), s, t) /\ Copied(s, t, i)
  <1>. DEFINE c == [op |-> "copy", image |-> i]
              t == AfterWork("Copy", "Transfer", {}, {i}, {"TransferWrite"},
                             Put(s.holds, i, <<"Picture">>), s.shown, s.captured, s)
  <1>1. Step(c, s, t)
    BY DEF Step, MayUse, Usable, Settled
  <1>2. Runs(Copy(i), s, t)
    BY <1>1, RunsOne DEF Copy
  <1>3. /\ t.layout[i] = "TransferDst" /\ t.users[i] = s.users[i] \union {"Transfer"}
        /\ t.dirty[i] = {"TransferWrite"} /\ t.holds[i] = <<"Picture">>
    BY DEF AfterWork, Put, Usable, Settled
  <1>4. SameBut(s, t, {i})
    BY DEF AfterWork, Put, SameBut, SameImage
  <1>5. /\ t.work = Append(s.work, "Copy") /\ t.ticks = s.ticks
        /\ t.shown = s.shown /\ t.captured = s.captured
    BY DEF AfterWork
  <1>6. t.users[i] = {"Transfer"}
    BY <1>3 DEF Usable, Settled
  <1>. HIDE DEF t
  <1>. QED BY <1>2, <1>3, <1>4, <1>5, <1>6 DEF Copied

(* The copy of an image to the readback buffer. *)
ReadBack(s, t, i) ==
  /\ Settled(t, i, "TransferSrc", {"Transfer"}) /\ t.holds[i] = s.holds[i]
  /\ SameBut(s, t, {i})
  /\ t.work = Append(s.work, "Readback") /\ t.ticks = s.ticks
  /\ t.shown = s.shown /\ t.captured = Append(s.captured, s.holds[i])

LEMMA RunsReadback ==
  ASSUME NEW s, NEW i \in Image, Usable(s, i, "Transfer", "TransferRead", "TransferSrc")
  PROVE  \E t : Runs(Readback(i), s, t) /\ ReadBack(s, t, i)
  <1>. DEFINE c == [op |-> "readback", image |-> i]
              t == AfterWork("Readback", "Transfer", {i}, {}, {}, s.holds, s.shown,
                             Append(s.captured, s.holds[i]), s)
  <1>1. Step(c, s, t)
    BY DEF Step, MayUse, Usable, Settled
  <1>2. Runs(Readback(i), s, t)
    BY <1>1, RunsOne DEF Readback
  <1>3. Settled(t, i, "TransferSrc", {"Transfer"}) /\ t.holds[i] = s.holds[i]
    BY DEF AfterWork, Usable, Settled
  <1>4. SameBut(s, t, {i})
    BY DEF AfterWork, SameBut, SameImage
  <1>5. /\ t.work = Append(s.work, "Readback") /\ t.ticks = s.ticks
        /\ t.shown = s.shown /\ t.captured = Append(s.captured, s.holds[i])
    BY DEF AfterWork
  <1>. HIDE DEF t
  <1>. QED BY <1>2, <1>3, <1>4, <1>5 DEF ReadBack

TicksBut(s, t, slots) == \A q \in Slot \ slots : t.ticks[q] = s.ticks[q]

(* A timestamp. *)
Stamped(s, t, q) ==
  /\ t.ticks[q] = Len(s.work) /\ TicksBut(s, t, {q})
  /\ SameBut(s, t, {})
  /\ t.work = s.work /\ t.shown = s.shown /\ t.captured = s.captured

LEMMA RunsStamp ==
  ASSUME NEW s, NEW q \in Slot, s.ticks[q] = None
  PROVE  \E t : Runs(Stamp(q), s, t) /\ Stamped(s, t, q)
  <1>. DEFINE c == [op |-> "stamp", slot |-> q]
              t == AfterStamp(c, s)
  <1>1. Step(c, s, t)
    BY DEF Step
  <1>2. Runs(Stamp(q), s, t)
    BY <1>1, RunsOne DEF Stamp
  <1>3. Stamped(s, t, q)
    BY DEF AfterStamp, Stamped, TicksBut, SameBut, SameImage
  <1>. HIDE DEF t
  <1>. QED BY <1>2, <1>3

(* The drawing of one image or of two. *)
Drawn(s, t, images) ==
  /\ \A i \in Image : /\ t.layout[i] = s.layout[i] /\ t.holds[i] = s.holds[i]
                      /\ t.dirty[i] = s.dirty[i]
  /\ SameBut(s, t, ToSet(images))
  /\ t.work = Append(s.work, "Draw") /\ t.ticks = s.ticks
  /\ t.shown = [k \in DOMAIN images |-> s.holds[images[k]]]
  /\ t.captured = s.captured

LEMMA RunsDraw ==
  ASSUME NEW s, NEW images \in Seq(Image),
         \A k \in DOMAIN images : Usable(s, images[k], "Fragment", "ShaderRead", "General")
  PROVE  \E t : Runs(Draw(images), s, t) /\ Drawn(s, t, images)
  <1>. DEFINE c == [op |-> "draw", images |-> images]
              drawn == [k \in DOMAIN images |-> s.holds[images[k]]]
              t == AfterWork("Draw", "Fragment", ToSet(images), {}, {}, s.holds, drawn,
                             s.captured, s)
  <1>1. Step(c, s, t)
    <2>1. MayUse(s, ToSet(images), "Fragment", "ShaderRead", "General")
      BY DEF MayUse, Usable, Settled, ToSet
    <2>. QED BY <2>1 DEF Step
  <1>2. Runs(Draw(images), s, t)
    BY <1>1, RunsOne DEF Draw
  <1>3. /\ \A i \in Image : /\ t.layout[i] = s.layout[i] /\ t.holds[i] = s.holds[i]
                            /\ t.dirty[i] = s.dirty[i]
        /\ SameBut(s, t, ToSet(images))
    BY DEF AfterWork, SameBut, SameImage
  <1>4. /\ t.work = Append(s.work, "Draw") /\ t.ticks = s.ticks
        /\ t.shown = drawn /\ t.captured = s.captured
    BY DEF AfterWork
  <1>. HIDE DEF t
  <1>. QED BY <1>2, <1>3, <1>4 DEF Drawn

-------------------------------------------------------------------------------
(* The blocks of recordProcessing. *)

(* What images hold and the work that is done are lists of these names. *)
Name == {"Picture", "Color", "Copy", "Readback", "Draw",
         "Nearest", "Bilinear", "Bicubic", "Lanczos2", "Cas", "Easu", "Rcas"}

(* Lists of names. *)
LEMMA OneBehind ==
  ASSUME NEW S, NEW list \in Seq(S), NEW a \in S, NEW b \in S
  PROVE  /\ Append(list, a) \in Seq(S) /\ Append(list, a) # <<>>
         /\ Len(Append(list, a)) = Len(list) + 1
         /\ Append(list, a) = list \o <<a>>
         /\ Append(Append(list, a), b) = list \o <<a, b>>
  OBVIOUS

LEMMA NamePair ==
  ASSUME NEW S, NEW a \in S, NEW b \in S
  PROVE  /\ <<a>> \in Seq(S) /\ Len(<<a>>) = 1
         /\ <<a, b>> \in Seq(S) /\ Len(<<a, b>>) = 2
  OBVIOUS

(* Every mode is one pass or two. *)
LEMMA ModePasses ==
  ASSUME NEW m \in UpscaleMode
  PROVE  \/ \E a \in Name : PassesOf[m] = <<a>>
         \/ \E a, b \in Name : PassesOf[m] = <<a, b>>
  <1>1. m \in {"Nearest", "Bilinear", "BicubicCatmullRom", "Lanczos2", "BilinearCas",
               "Lanczos2Cas", "Fsr1Easu", "Fsr1EasuRcas"}
    BY DEF UpscaleMode, PassesOf
  <1>2. {"Nearest", "Bilinear", "Bicubic", "Lanczos2", "Cas", "Easu", "Rcas"} \subseteq Name
    BY DEF Name
  <1>3. CASE m \in {"Nearest", "Bilinear", "BicubicCatmullRom", "Lanczos2", "Fsr1Easu"}
    <2>1. PassesOf[m] \in {<<"Nearest">>, <<"Bilinear">>, <<"Bicubic">>, <<"Lanczos2">>, <<"Easu">>}
      BY <1>3 DEF PassesOf
    <2>. QED BY <1>2, <2>1
  <1>4. CASE m \in {"BilinearCas", "Lanczos2Cas", "Fsr1EasuRcas"}
    <2>1. PassesOf[m] \in {<<"Bilinear", "Cas">>, <<"Lanczos2", "Cas">>, <<"Easu", "Rcas">>}
      BY <1>4 DEF PassesOf
    <2>. QED BY <1>2, <2>1
  <1>. QED BY <1>1, <1>3, <1>4

LEMMA ModeLength ==
  ASSUME NEW m \in UpscaleMode
  PROVE  PassesOf[m] \in Seq(Name) /\ Len(PassesOf[m]) \in 1 .. 2
  <1>1. CASE \E a \in Name : PassesOf[m] = <<a>>
    BY <1>1, NamePair
  <1>2. CASE \E a, b \in Name : PassesOf[m] = <<a, b>>
    BY <1>2, NamePair
  <1>. QED BY <1>1, <1>2, ModePasses

(* The contents are the colour-converted picture and what follows it. *)
Converted == <<"Picture", "Color">>

LEMMA ConvertedList == Converted \in Seq(Name) /\ Converted # <<>>
  <1>1. "Picture" \in Name /\ "Color" \in Name
    BY DEF Name
  <1>2. Converted \in Seq(Name) /\ Len(Converted) = 2
    BY <1>1, NamePair DEF Converted
  <1>. QED BY <1>2

(* The passes of a mode: it reads the working image, may use the           *)
(* intermediate one, and makes its target.                                 *)
Upscaling(s, t, m, count, dest) ==
  /\ Usable(t, "working", "Compute", "ShaderRead", "General") /\ t.holds["working"] = Converted
  /\ Settled(t, "intermediate", "General", {"Compute"})
  /\ t.layout[Target(dest)] = "General" /\ t.users[Target(dest)] = {"Compute"}
  /\ t.dirty[Target(dest)] = {"ShaderWrite"} /\ t.holds[Target(dest)] = Upscaled(m)
  /\ SameBut(s, t, {"working", "intermediate", Target(dest)})
  /\ t.work = s.work \o PassesOf[m]
  /\ \A k \in 1 .. Len(PassesOf[m]) : t.ticks[2 + count + k] = Len(s.work) + k
  /\ TicksBut(s, t, {2 + count + k : k \in 1 .. Len(PassesOf[m])})
  /\ t.shown = s.shown /\ t.captured = s.captured

LEMMA RunsMode ==
  ASSUME NEW s, NEW m \in UpscaleMode, NEW count \in 0 .. 2, NEW dest \in BOOLEAN,
         s.work \in Seq(Name),
         Usable(s, "working", "Compute", "ShaderRead", "General"),
         s.holds["working"] = Converted,
         Usable(s, "intermediate", "Compute", "ShaderWrite", "General"),
         Usable(s, Target(dest), "Compute", "ShaderWrite", "General"),
         \A q \in Slot : q > 2 + count => s.ticks[q] = None
  PROVE  \E t : Runs(RecordMode(m, count, dest), s, t) /\ Upscaling(s, t, m, count, dest)
  <1>. DEFINE p == PassesOf[m]
              out == Target(dest)
  <1>1. out \in {"output", "comparisonOutput"} /\ {"working", "intermediate", out} \subseteq Image
    BY DEF Target, Image
  <1>2. Sampled("working") = "General" /\ Sampled("intermediate") = "General"
    BY DEF Sampled, Planes
  <1>3. Converted # <<>> /\ Converted \in Seq(Name)
    BY ConvertedList
  <1>4. ASSUME NEW a \in Name, p = <<a>>
        PROVE  \E t : Runs(RecordMode(m, count, dest), s, t) /\ Upscaling(s, t, m, count, dest)
    <2>1. RecordMode(m, count, dest) = Pass(a, {"working"}, out) \o Stamp(3 + count)
      BY <1>4 DEF RecordMode
    <2>2. PICK u : /\ Runs(Pass(a, {"working"}, out), s, u)
                   /\ Passed(s, u, a, {"working"}, out, Converted)
      <3>. HIDE DEF out, p
      <3>1. out \in Image \ {"working"} /\ {"working"} \in SUBSET Image
        BY <1>1
      <3>2. Usable(s, out, "Compute", "ShaderWrite", "General")
        BY DEF out
      <3>. QED BY <1>2, <1>3, <3>1, <3>2, RunsPass
    <2>3. PICK t : Runs(Stamp(3 + count), u, t) /\ Stamped(u, t, 3 + count)
      <3>1. 3 + count \in Slot /\ 3 + count > 2 + count
        BY DEF Slot
      <3>2. u.ticks[3 + count] = None
        BY <2>2, <3>1 DEF Passed
      <3>. QED BY <3>1, <3>2, RunsStamp
    <2>4. Runs(RecordMode(m, count, dest), s, t)
      BY <2>1, <2>2, <2>3, RunsBoth
    <2>5. \A i \in Image : SameImage(u, t, i)
      BY <2>3 DEF Stamped, SameBut
    <2>. HIDE DEF out
    <2>6. /\ Usable(t, "working", "Compute", "ShaderRead", "General")
          /\ t.holds["working"] = Converted
          /\ t.layout[out] = "General" /\ t.users[out] = {"Compute"}
          /\ t.dirty[out] = {"ShaderWrite"} /\ t.holds[out] = Append(Converted, a)
      BY <1>1, <1>2, <2>2, <2>5 DEF Passed, SameImage, Usable, Settled
    <2>7. SameBut(s, t, {"working", out})
      BY <2>2, <2>5 DEF Passed, SameImage, SameBut
    <2>8. Settled(t, "intermediate", "General", {"Compute"}) /\ SameBut(s, t, {"working", "intermediate", out})
      BY <1>1, <2>7 DEF SameBut, SameImage, Usable, Settled
    <2>9. Append(Converted, a) = Upscaled(m)
      BY <1>3, <1>4, OneBehind DEF Upscaled, Converted
    <2>10. t.work = s.work \o p /\ t.shown = s.shown /\ t.captured = s.captured
      BY <1>4, <2>2, <2>3, OneBehind DEF Passed, Stamped
    <2>11. /\ \A k \in 1 .. Len(p) : t.ticks[2 + count + k] = Len(s.work) + k
           /\ TicksBut(s, t, {2 + count + k : k \in 1 .. Len(p)})
      <3>1. /\ t.ticks[3 + count] = Len(Append(s.work, a))
            /\ \A q \in Slot \ {3 + count} : t.ticks[q] = s.ticks[q]
        BY <2>2, <2>3 DEF Passed, Stamped, TicksBut
      <3>2. Len(Append(s.work, a)) = Len(s.work) + 1 /\ Len(p) = 1
        BY <1>4, OneBehind, NamePair
      <3>3. \A k \in 1 .. Len(p) : k = 1 /\ 2 + count + k = 3 + count
        BY <3>2
      <3>4. {2 + count + k : k \in 1 .. Len(p)} = {3 + count}
        BY <3>2, <3>3
      <3>. HIDE DEF p
      <3>. QED BY <3>1, <3>2, <3>3, <3>4 DEF TicksBut
    <2>. USE DEF out
    <2>. QED BY <2>4, <2>6, <2>8, <2>9, <2>10, <2>11 DEF Upscaling
  <1>5. ASSUME NEW a \in Name, NEW b \in Name, p = <<a, b>>
        PROVE  \E t : Runs(RecordMode(m, count, dest), s, t) /\ Upscaling(s, t, m, count, dest)
    <2>1. RecordMode(m, count, dest) =
            (((Pass(a, {"working"}, "intermediate") \o Stamp(3 + count))
              \o Between("intermediate", {"ShaderWrite"}, {"ShaderRead"}, "Compute"))
             \o Pass(b, {"intermediate"}, out)) \o Stamp(4 + count)
      BY <1>5 DEF RecordMode
    <2>2. PICK u : /\ Runs(Pass(a, {"working"}, "intermediate"), s, u)
                   /\ Passed(s, u, a, {"working"}, "intermediate", Converted)
      <3>1. "intermediate" \in Image \ {"working"} /\ {"working"} \in SUBSET Image
        BY <1>1
      <3>. QED BY <1>2, <1>3, <3>1, RunsPass
    <2>3. PICK v : Runs(Stamp(3 + count), u, v) /\ Stamped(u, v, 3 + count)
      <3>1. 3 + count \in Slot /\ 3 + count > 2 + count
        BY DEF Slot
      <3>2. u.ticks[3 + count] = None
        BY <2>2, <3>1 DEF Passed
      <3>. QED BY <3>1, <3>2, RunsStamp
    <2>4. \A i \in Image : SameImage(u, v, i)
      BY <2>3 DEF Stamped, SameBut
    <2>5. PICK w : /\ Runs(Between("intermediate", {"ShaderWrite"}, {"ShaderRead"}, "Compute"), v, w)
                   /\ Moved(v, w, "intermediate", "General", "General", {"ShaderRead"}, "Compute")
      <3>1. /\ v.layout["intermediate"] = "General" /\ v.users["intermediate"] = {"Compute"}
            /\ v.dirty["intermediate"] = {"ShaderWrite"} /\ "intermediate" \in Image
        BY <1>1, <2>2, <2>4 DEF Passed, SameImage
      <3>. QED BY <3>1, RunsBetween
    <2>. HIDE DEF out
    <2>6. out \in Image \ {"working", "intermediate"}
      BY <1>1
    <2>7. /\ Usable(w, "intermediate", "Compute", "ShaderRead", "General")
          /\ w.holds["intermediate"] = Append(Converted, a)
          /\ Usable(w, "working", "Compute", "ShaderRead", "General")
          /\ w.holds["working"] = Converted
          /\ SameBut(s, w, {"working", "intermediate"})
      <3>1. /\ Usable(w, "intermediate", "Compute", "ShaderRead", "General")
            /\ w.holds["intermediate"] = Append(Converted, a)
        BY <1>1, <2>2, <2>4, <2>5 DEF Passed, SameImage, Moved, Usable, Settled
      <3>2. SameImage(u, w, "working")
        BY <1>1, <2>4, <2>5 DEF Moved, SameBut, SameImage
      <3>3. /\ Usable(w, "working", "Compute", "ShaderRead", "General")
            /\ w.holds["working"] = Converted
        BY <1>1, <1>2, <2>2, <3>2 DEF Passed, SameImage, Usable, Settled
      <3>4. SameBut(s, w, {"working", "intermediate"})
        BY <2>2, <2>4, <2>5 DEF Passed, Moved, SameBut, SameImage
      <3>. QED BY <3>1, <3>3, <3>4
    <2>8. w.work = Append(s.work, a) /\ w.shown = s.shown /\ w.captured = s.captured
      BY <2>2, <2>3, <2>5 DEF Passed, Stamped, Moved, SameResults
    <2>9. /\ w.ticks[3 + count] = Len(Append(s.work, a))
          /\ \A q \in Slot \ {3 + count} : w.ticks[q] = s.ticks[q]
      BY <2>2, <2>3, <2>5 DEF Passed, Stamped, TicksBut, Moved, SameResults
    <2>10. PICK x : /\ Runs(Pass(b, {"intermediate"}, out), w, x)
                    /\ Passed(w, x, b, {"intermediate"}, out, Append(Converted, a))
      <3>1. Usable(s, out, "Compute", "ShaderWrite", "General")
        BY DEF out
      <3>2. Usable(w, out, "Compute", "ShaderWrite", "General")
        BY <2>6, <2>7, <3>1 DEF SameBut, SameImage, Usable, Settled
      <3>3. Append(Converted, a) # <<>>
        BY <1>3, OneBehind
      <3>4. out \in Image \ {"intermediate"} /\ {"intermediate"} \in SUBSET Image
        BY <1>1, <2>6
      <3>. QED BY <1>2, <2>7, <3>2, <3>3, <3>4, RunsPass
    <2>11. PICK t : Runs(Stamp(4 + count), x, t) /\ Stamped(x, t, 4 + count)
      <3>1. 4 + count \in Slot /\ 4 + count > 2 + count /\ 4 + count # 3 + count
        BY DEF Slot
      <3>2. x.ticks[4 + count] = None
        BY <2>9, <2>10, <3>1 DEF Passed
      <3>. QED BY <3>1, <3>2, RunsStamp
    <2>12. Runs(RecordMode(m, count, dest), s, t)
      <3>1. Runs(Pass(a, {"working"}, "intermediate") \o Stamp(3 + count), s, v)
        BY <2>2, <2>3, RunsBoth
      <3>2. Runs((Pass(a, {"working"}, "intermediate") \o Stamp(3 + count))
                 \o Between("intermediate", {"ShaderWrite"}, {"ShaderRead"}, "Compute"), s, w)
        BY <2>5, <3>1, RunsBoth
      <3>3. Runs(((Pass(a, {"working"}, "intermediate") \o Stamp(3 + count))
                  \o Between("intermediate", {"ShaderWrite"}, {"ShaderRead"}, "Compute"))
                 \o Pass(b, {"intermediate"}, out), s, x)
        BY <2>10, <3>2, RunsBoth
      <3>. QED BY <2>1, <2>11, <3>3, RunsBoth
    <2>13. \A i \in Image : SameImage(x, t, i)
      BY <2>11 DEF Stamped, SameBut
    <2>14. /\ Usable(t, "working", "Compute", "ShaderRead", "General")
           /\ t.holds["working"] = Converted
      <3>1. SameImage(w, x, "working")
        BY <1>1, <2>6, <2>10 DEF Passed, SameBut
      <3>. QED BY <1>1, <2>7, <2>13, <3>1 DEF SameImage, Usable, Settled
    <2>15. /\ Settled(t, "intermediate", "General", {"Compute"})
           /\ t.layout[out] = "General" /\ t.users[out] = {"Compute"}
           /\ t.dirty[out] = {"ShaderWrite"} /\ t.holds[out] = Append(Append(Converted, a), b)
      BY <1>1, <1>2, <2>6, <2>10, <2>13 DEF Passed, SameImage, Usable, Settled
    <2>16. SameBut(s, t, {"working", "intermediate", out})
      BY <2>7, <2>10, <2>13 DEF Passed, SameBut, SameImage
    <2>17. Append(Append(Converted, a), b) = Upscaled(m)
      BY <1>3, <1>5, OneBehind DEF Upscaled, Converted
    <2>18. t.work = s.work \o p /\ t.shown = s.shown /\ t.captured = s.captured
      BY <1>5, <2>8, <2>10, <2>11, OneBehind DEF Passed, Stamped
    <2>19. /\ \A k \in 1 .. Len(p) : t.ticks[2 + count + k] = Len(s.work) + k
           /\ TicksBut(s, t, {2 + count + k : k \in 1 .. Len(p)})
      <3>1. /\ t.ticks[4 + count] = Len(Append(Append(s.work, a), b))
            /\ \A q \in Slot \ {4 + count} : t.ticks[q] = w.ticks[q]
        BY <2>8, <2>10, <2>11 DEF Passed, Stamped, TicksBut
      <3>2. /\ Len(Append(s.work, a)) = Len(s.work) + 1 /\ Len(p) = 2
            /\ Len(Append(Append(s.work, a), b)) = Len(s.work) + 2
        BY <1>5, OneBehind, NamePair
      <3>3. 3 + count \in Slot \ {4 + count}
        BY DEF Slot
      <3>4. /\ t.ticks[3 + count] = Len(s.work) + 1 /\ t.ticks[4 + count] = Len(s.work) + 2
            /\ \A q \in Slot \ {3 + count, 4 + count} : t.ticks[q] = s.ticks[q]
        BY <2>9, <3>1, <3>2, <3>3
      <3>5. \A k \in 1 .. Len(p) : \/ k = 1 /\ 2 + count + k = 3 + count
                                   \/ k = 2 /\ 2 + count + k = 4 + count
        BY <3>2
      <3>6. {2 + count + k : k \in 1 .. Len(p)} = {3 + count, 4 + count}
        BY <3>2, <3>5
      <3>. HIDE DEF p
      <3>. QED BY <3>4, <3>5, <3>6 DEF TicksBut
    <2>. USE DEF out
    <2>. QED BY <2>12, <2>14, <2>15, <2>16, <2>17, <2>18, <2>19 DEF Upscaling
  <1>. QED BY <1>4, <1>5, ModePasses

(* A plane at the beginning of a frame, and once it was uploaded. *)
Plane(s, i, known) ==
  IF known THEN Settled(s, i, "ShaderReadOnly", {"Compute"}) ELSE Fresh(s, i)

Uploaded(s, i) == Usable(s, i, "Compute", "ShaderRead", Sampled(i)) /\ s.holds[i] = <<"Picture">>

SameTimes(s, t) == t.ticks = s.ticks /\ t.shown = s.shown /\ t.captured = s.captured

LEMMA RunsCopyPlane ==
  ASSUME NEW s, NEW i \in Planes, NEW known \in BOOLEAN, Plane(s, i, known)
  PROVE  \E t : /\ Runs(CopyPlane(i, known), s, t)
                /\ Uploaded(t, i) /\ SameBut(s, t, {i})
                /\ t.work = Append(s.work, "Copy") /\ SameTimes(s, t)
  <1>. DEFINE first == Barrier(i, IF known THEN "ShaderReadOnly" ELSE "Undefined", "TransferDst",
                               IF known THEN {"ShaderRead"} ELSE {}, {"TransferWrite"},
                               IF known THEN "Compute" ELSE "TopOfPipe", "Transfer")
              last == Barrier(i, "TransferDst", "ShaderReadOnly", {"TransferWrite"}, {"ShaderRead"},
                              "Transfer", "Compute")
  <1>1. i \in Image
    BY DEF Image
  <1>2. PICK u : /\ Runs(first, s, u)
                 /\ Moved(s, u, i, IF known THEN "ShaderReadOnly" ELSE "Undefined", "TransferDst",
                          {"TransferWrite"}, "Transfer")
    <2>1. CASE known
      BY <1>1, <2>1, RunsBarrier DEF Plane, Settled
    <2>2. CASE ~known
      BY <1>1, <2>2, RunsBarrier DEF Plane, Fresh
    <2>. QED BY <2>1, <2>2
  <1>3. PICK v : Runs(Copy(i), u, v) /\ Copied(u, v, i)
    <2>1. Usable(u, i, "Transfer", "TransferWrite", "TransferDst")
      BY <1>2 DEF Moved, Usable
    <2>. QED BY <1>1, <2>1, RunsCopy
  <1>4. PICK t : /\ Runs(last, v, t)
                 /\ Moved(v, t, i, "TransferDst", "ShaderReadOnly", {"ShaderRead"}, "Compute")
    <2>1. v.layout[i] = "TransferDst" /\ v.users[i] \subseteq {"Transfer"} /\ v.dirty[i] \subseteq {"TransferWrite"}
      BY <1>3 DEF Copied
    <2>. QED BY <1>1, <2>1, RunsBarrier
  <1>5. Runs(CopyPlane(i, known), s, t)
    <2>1. Runs(first \o Copy(i), s, v)
      BY <1>2, <1>3, RunsBoth
    <2>. QED BY <1>4, <2>1, RunsBoth DEF CopyPlane
  <1>6. Uploaded(t, i)
    BY <1>3, <1>4 DEF Copied, Moved, Uploaded, Usable, Sampled
  <1>7. SameBut(s, t, {i})
    BY <1>2, <1>3, <1>4 DEF Copied, Moved, SameBut, SameImage
  <1>8. t.work = Append(s.work, "Copy") /\ SameTimes(s, t)
    BY <1>2, <1>3, <1>4 DEF Copied, Moved, SameResults, SameTimes
  <1>. QED BY <1>5, <1>6, <1>7, <1>8

(* The picture can be read, in as many images as it has. *)
InputTaken(s, t) ==
  /\ \A i \in ColorInputs : Uploaded(t, i)
  /\ SameBut(s, t, ColorInputs)
  /\ t.work \in Seq({"Copy"}) /\ SameTimes(s, t)

LEMMA RunsUpload ==
  ASSUME NEW s, initialized \in BOOLEAN, nv12Initialized \in BOOLEAN, planarInitialized \in BOOLEAN,
         ~External, s.work = <<>>,
         Plane(s, "y", initialized), Plane(s, "uv", nv12Initialized),
         Plane(s, "u", planarInitialized), Plane(s, "v", planarInitialized)
  PROVE  \E t : Runs(Upload, s, t) /\ InputTaken(s, t)
  <1>1. {"y", "u", "v", "uv"} = Planes /\ Planes \subseteq Image
    BY DEF Planes, Image
  <1>2. PICK u : /\ Runs(CopyPlane("y", initialized), s, u)
                 /\ Uploaded(u, "y") /\ SameBut(s, u, {"y"})
                 /\ u.work = Append(s.work, "Copy") /\ SameTimes(s, u)
    BY <1>1, RunsCopyPlane
  <1>3. u.work \in Seq({"Copy"})
    BY <1>2
  <1>4. CASE Nv12
    <2>1. Plane(u, "uv", nv12Initialized)
      BY <1>1, <1>2 DEF Plane, SameBut, SameImage, Settled, Fresh
    <2>2. PICK t : /\ Runs(CopyPlane("uv", nv12Initialized), u, t)
                   /\ Uploaded(t, "uv") /\ SameBut(u, t, {"uv"})
                   /\ t.work = Append(u.work, "Copy") /\ SameTimes(u, t)
      BY <1>1, <2>1, RunsCopyPlane
    <2>3. Runs(Upload, s, t)
      BY <1>2, <1>4, <2>2, RunsBoth DEF Upload
    <2>4. ColorInputs = {"y", "uv"}
      BY <1>4 DEF ColorInputs
    <2>5. SameImage(u, t, "y")
      BY <1>1, <2>2 DEF SameBut
    <2>6. \A i \in ColorInputs : Uploaded(t, i)
      BY <1>2, <2>2, <2>4, <2>5 DEF Uploaded, Usable, Settled, SameImage
    <2>7. SameBut(s, t, ColorInputs)
      BY <1>2, <2>2, <2>4 DEF SameBut, SameImage
    <2>8. t.work \in Seq({"Copy"}) /\ SameTimes(s, t)
      BY <1>2, <1>3, <2>2 DEF SameTimes
    <2>. QED BY <2>3, <2>6, <2>7, <2>8 DEF InputTaken
  <1>5. CASE ~Nv12
    <2>1. Plane(u, "u", planarInitialized) /\ Plane(u, "v", planarInitialized)
      BY <1>1, <1>2 DEF Plane, SameBut, SameImage, Settled, Fresh
    <2>2. PICK v : /\ Runs(CopyPlane("u", planarInitialized), u, v)
                   /\ Uploaded(v, "u") /\ SameBut(u, v, {"u"})
                   /\ v.work = Append(u.work, "Copy") /\ SameTimes(u, v)
      BY <1>1, <2>1, RunsCopyPlane
    <2>3. Plane(v, "v", planarInitialized)
      BY <1>1, <2>1, <2>2 DEF Plane, SameBut, SameImage, Settled, Fresh
    <2>4. PICK t : /\ Runs(CopyPlane("v", planarInitialized), v, t)
                   /\ Uploaded(t, "v") /\ SameBut(v, t, {"v"})
                   /\ t.work = Append(v.work, "Copy") /\ SameTimes(v, t)
      BY <1>1, <2>3, RunsCopyPlane
    <2>5. Runs(Upload, s, t)
      <3>1. Runs(CopyPlane("u", planarInitialized) \o CopyPlane("v", planarInitialized), u, t)
        BY <2>2, <2>4, RunsBoth
      <3>. QED BY <1>2, <1>5, <3>1, RunsBoth DEF Upload
    <2>6. ColorInputs = {"y", "u", "v"}
      BY <1>5 DEF ColorInputs
    <2>7. SameImage(u, v, "y") /\ SameImage(v, t, "y") /\ SameImage(v, t, "u")
      BY <1>1, <2>2, <2>4 DEF SameBut
    <2>8. Uploaded(t, "y") /\ Uploaded(t, "u") /\ Uploaded(t, "v")
      BY <1>2, <2>2, <2>4, <2>7 DEF Uploaded, Usable, Settled, SameImage
    <2>9. SameBut(s, t, ColorInputs)
      BY <1>2, <2>2, <2>4, <2>6 DEF SameBut, SameImage
    <2>10. t.work \in Seq({"Copy"}) /\ SameTimes(s, t)
      <3>1. v.work \in Seq({"Copy"})
        BY <1>3, <2>2
      <3>. QED BY <1>2, <2>2, <2>4, <3>1 DEF SameTimes
    <2>. QED BY <2>5, <2>6, <2>8, <2>9, <2>10 DEF InputTaken
  <1>. QED BY <1>4, <1>5

LEMMA RunsAcquire ==
  ASSUME NEW s, External, s.work = <<>>,
         Fresh(s, "external"), s.layout["external"] = "External", s.holds["external"] = <<"Picture">>
  PROVE  \E t : Runs(AcquireExternal, s, t) /\ InputTaken(s, t)
  <1>1. ColorInputs = {"external"} /\ "external" \in Image /\ Sampled("external") = "General"
    BY DEF ColorInputs, Image, Sampled, Planes
  <1>2. PICK t : /\ Runs(AcquireExternal, s, t)
                 /\ Moved(s, t, "external", "External", "General", {"ShaderRead"}, "Compute")
    BY <1>1, RunsBarrier DEF AcquireExternal, Fresh
  <1>3. Uploaded(t, "external")
    BY <1>1, <1>2 DEF Uploaded, Usable, Moved
  <1>4. SameTimes(s, t) /\ SameBut(s, t, ColorInputs) /\ t.work = <<>>
    BY <1>1, <1>2 DEF Moved, SameResults, SameTimes
  <1>5. t.work \in Seq({"Copy"})
    BY <1>4
  <1>. QED BY <1>1, <1>2, <1>3, <1>4, <1>5 DEF InputTaken

(* The working image and the targets at the beginning of a frame. *)
WorkingReady(s) ==
  IF initialized THEN Settled(s, "working", "General", {"Compute"}) ELSE Fresh(s, "working")

(* The picture was converted; what it came in is left as the next frame    *)
(* expects it.                                                             *)
InputLeft(t) ==
  IF External THEN t.dirty["external"] = {}
  ELSE \A i \in ColorInputs : Settled(t, i, "ShaderReadOnly", {"Compute"})

WorkingMade(t) ==
  Usable(t, "working", "Compute", "ShaderRead", "General") /\ t.holds["working"] = Converted

Colored(s, t) ==
  /\ WorkingMade(t) /\ InputLeft(t)
  /\ SameBut(s, t, ColorInputs \union {"working"})
  /\ t.work = Append(s.work, "Color")
  /\ t.ticks[2] = Len(s.work) + 1 /\ TicksBut(s, t, {2})
  /\ t.shown = s.shown /\ t.captured = s.captured

LEMMA ColorInputImages ==
  /\ ColorInputs \in SUBSET Image /\ ColorInputs # {} /\ "working" \in Image \ ColorInputs
  /\ External => ColorInputs = {"external"} /\ Sampled("external") = "General"
  /\ ~External => \A i \in ColorInputs : Sampled(i) = "ShaderReadOnly"
  BY DEF ColorInputs, Image, Planes, Sampled

LEMMA RunsColor ==
  ASSUME NEW s, initialized \in BOOLEAN, s.work \in Seq(Name), s.ticks[2] = None,
         WorkingReady(s), \A i \in ColorInputs : Uploaded(s, i)
  PROVE  \E t : Runs(Color, s, t) /\ Colored(s, t)
  <1>. DEFINE old == IF initialized THEN "General" ELSE "Undefined"
              src == IF initialized THEN {"ShaderRead"} ELSE {}
              from == IF initialized THEN "Compute" ELSE "TopOfPipe"
              release == IF External THEN ReleaseExternal ELSE <<>>
  <1>1. PICK u : /\ Runs(Barrier("working", old, "General", src, {"ShaderWrite"}, from, "Compute"), s, u)
                 /\ Moved(s, u, "working", old, "General", {"ShaderWrite"}, "Compute")
    <2>1. old \in {"Undefined", s.layout["working"]} /\ s.users["working"] \subseteq {from}
          /\ s.dirty["working"] \subseteq src
      BY DEF WorkingReady, Settled, Fresh
    <2>2. "working" \in Image
      BY DEF Image
    <2>. HIDE DEF old, src, from
    <2>. QED BY <2>1, <2>2, RunsBarrier
  <1>2. PICK v : /\ Runs(Pass("Color", ColorInputs, "working"), u, v)
                 /\ Passed(u, v, "Color", ColorInputs, "working", <<"Picture">>)
    <2>1. \A i \in ColorInputs : SameImage(s, u, i)
      BY <1>1, ColorInputImages DEF Moved, SameBut
    <2>2. \A i \in ColorInputs : Usable(u, i, "Compute", "ShaderRead", Sampled(i)) /\ u.holds[i] = <<"Picture">>
      BY <2>1 DEF Uploaded, Usable, Settled, SameImage
    <2>3. Usable(u, "working", "Compute", "ShaderWrite", "General")
      BY <1>1 DEF Moved, Usable
    <2>4. <<"Picture">> # <<>>
      OBVIOUS
    <2>. QED BY <2>2, <2>3, <2>4, ColorInputImages, RunsPass
  <1>3. PICK w : Runs(Stamp(2), v, w) /\ Stamped(v, w, 2)
    <2>1. 2 \in Slot /\ v.ticks[2] = None
      BY <1>1, <1>2 DEF Slot, Moved, SameResults, Passed
    <2>. QED BY <2>1, RunsStamp
  <1>4. \A i \in Image : SameImage(v, w, i)
    BY <1>3 DEF Stamped, SameBut
  <1>5. PICK x : /\ Runs(release, w, x)
                 /\ SameBut(w, x, ColorInputs) /\ SameResults(w, x) /\ InputLeft(x)
    <2>1. CASE External
      <3>1. /\ "external" \in Image
            /\ w.layout["external"] = "General" /\ w.users["external"] \subseteq {"Compute"}
            /\ w.dirty["external"] \subseteq {"ShaderRead"}
        BY <1>2, <1>4, <2>1, ColorInputImages DEF Passed, Usable, Settled, SameImage, Image
      <3>2. PICK x : /\ Runs(ReleaseExternal, w, x)
                     /\ Moved(w, x, "external", "General", "External", {}, "BottomOfPipe")
        <4>. DEFINE none == {}
        <4>1. ReleaseExternal = Barrier("external", "General", "External", {"ShaderRead"}, none,
                                        "Compute", "BottomOfPipe")
          BY DEF ReleaseExternal
        <4>. HIDE DEF none
        <4>2. PICK x : /\ Runs(ReleaseExternal, w, x)
                       /\ Moved(w, x, "external", "General", "External", none, "BottomOfPipe")
          BY <3>1, <4>1, RunsBarrier
        <4>. QED BY <4>2 DEF none
      <3>. QED BY <2>1, <3>2, ColorInputImages DEF Moved, InputLeft, Settled
    <2>2. CASE ~External
      <3>1. Runs(release, w, w)
        BY <2>2, RunsNothing
      <3>2. InputLeft(w)
        BY <1>2, <1>4, <2>2, ColorInputImages DEF InputLeft, Passed, Usable, Settled, SameImage
      <3>. QED BY <3>1, <3>2 DEF SameBut, SameImage, SameResults
    <2>. QED BY <2>1, <2>2
  <1>6. SameImage(v, x, "working")
    BY <1>4, <1>5, ColorInputImages DEF SameBut, SameImage
  <1>7. PICK t : /\ Runs(Between("working", {"ShaderWrite"}, {"ShaderRead"}, "Compute"), x, t)
                 /\ Moved(x, t, "working", "General", "General", {"ShaderRead"}, "Compute")
    <2>1. /\ x.layout["working"] = "General" /\ x.users["working"] \subseteq {"Compute"}
          /\ x.dirty["working"] \subseteq {"ShaderWrite"}
      BY <1>2, <1>6 DEF Passed, SameImage
    <2>2. "working" \in Image
      BY DEF Image
    <2>. QED BY <2>1, <2>2, RunsBetween
  <1>8. Runs(Color, s, t)
    <2>. DEFINE a == Barrier("working", old, "General", src, {"ShaderWrite"}, from, "Compute")
                b == Pass("Color", ColorInputs, "working")
    <2>1. Runs(a \o b, s, v)
      BY <1>1, <1>2, RunsBoth
    <2>2. Runs((a \o b) \o Stamp(2), s, w)
      BY <1>3, <2>1, RunsBoth
    <2>3. Runs(((a \o b) \o Stamp(2)) \o release, s, x)
      BY <1>5, <2>2, RunsBoth
    <2>. QED BY <1>7, <2>3, RunsBoth DEF Color
  <1>9. WorkingMade(t)
    <2>1. v.holds["working"] = Append(<<"Picture">>, "Color")
      BY <1>2 DEF Passed
    <2>2. Append(<<"Picture">>, "Color") = Converted
      <3>1. "Picture" \in Name /\ "Color" \in Name
        BY DEF Name
      <3>2. <<>> \in Seq(Name) /\ Append(<<>>, "Picture") = <<"Picture">>
        BY <3>1
      <3>3. Append(Append(<<>>, "Picture"), "Color") = <<>> \o <<"Picture", "Color">>
        BY <3>1, <3>2, OneBehind
      <3>4. <<>> \o <<"Picture", "Color">> = <<"Picture", "Color">>
        BY <3>1
      <3>. QED BY <3>2, <3>3, <3>4 DEF Converted
    <2>. QED BY <1>6, <1>7, <2>1, <2>2 DEF Moved, SameImage, WorkingMade, Usable
  <1>10. InputLeft(t)
    BY <1>5, <1>7, ColorInputImages DEF InputLeft, Moved, SameBut, SameImage, Settled
  <1>11. SameBut(s, t, ColorInputs \union {"working"})
    BY <1>1, <1>2, <1>4, <1>5, <1>7 DEF Moved, Passed, SameBut, SameImage
  <1>12. t.work = Append(s.work, "Color") /\ t.shown = s.shown /\ t.captured = s.captured
    BY <1>1, <1>2, <1>3, <1>5, <1>7 DEF Moved, Passed, Stamped, SameResults
  <1>13. t.ticks[2] = Len(s.work) + 1 /\ TicksBut(s, t, {2})
    <2>1. Len(Append(s.work, "Color")) = Len(s.work) + 1
      BY OneBehind DEF Name
    <2>. QED BY <1>1, <1>2, <1>3, <1>5, <1>7, <2>1 DEF Moved, Passed, Stamped, SameResults, TicksBut
  <1>. QED BY <1>8, <1>9, <1>10, <1>11, <1>12, <1>13 DEF Colored

(* The images the modes write: ready for that behind the clearing barriers. *)
Targets == {"intermediate", "output", "comparisonOutput"}

TargetReady(s, i) ==
  IF initialized THEN s.layout[i] = "General" /\ s.dirty[i] = {} ELSE Fresh(s, i)

TargetsCleared(s, t) ==
  /\ \A i \in Targets : Usable(t, i, "Compute", "ShaderWrite", "General")
  /\ SameBut(s, t, Targets) /\ SameResults(s, t)

LEMMA RunsClearTargets ==
  ASSUME NEW s, initialized \in BOOLEAN, \A i \in Targets : TargetReady(s, i)
  PROVE  \E t : Runs(ClearTargets, s, t) /\ TargetsCleared(s, t)
  <1>1. Targets \subseteq Image
    BY DEF Targets, Image
  <1>2. ASSUME NEW i \in Targets, NEW u, TargetReady(u, i)
        PROVE  \E v : /\ Runs(ClearTarget(i), u, v)
                      /\ Usable(v, i, "Compute", "ShaderWrite", "General")
                      /\ SameBut(u, v, {i}) /\ SameResults(u, v)
    <2>. DEFINE old == IF initialized THEN "General" ELSE "Undefined"
                src == IF initialized THEN {"ShaderRead", "ShaderWrite", "TransferRead"} ELSE {}
                from == IF initialized THEN "AllCommands" ELSE "TopOfPipe"
    <2>1. /\ i \in Image /\ old \in {"Undefined", u.layout[i]}
          /\ from = "AllCommands" \/ u.users[i] \subseteq {from}
          /\ u.dirty[i] \subseteq src
      BY <1>1, <1>2 DEF TargetReady, Fresh
    <2>2. PICK v : /\ Runs(Barrier(i, old, "General", src, {"ShaderWrite"}, from, "Compute"), u, v)
                   /\ Moved(u, v, i, old, "General", {"ShaderWrite"}, "Compute")
      BY <2>1, RunsBarrier
    <2>. QED BY <2>2 DEF ClearTarget, Moved, Usable
  <1>3. PICK u : /\ Runs(ClearTarget("intermediate"), s, u)
                 /\ Usable(u, "intermediate", "Compute", "ShaderWrite", "General")
                 /\ SameBut(s, u, {"intermediate"}) /\ SameResults(s, u)
    BY <1>2 DEF Targets
  <1>4. PICK v : /\ Runs(ClearTarget("output"), u, v)
                 /\ Usable(v, "output", "Compute", "ShaderWrite", "General")
                 /\ SameBut(u, v, {"output"}) /\ SameResults(u, v)
    <2>1. TargetReady(u, "output")
      BY <1>1, <1>3 DEF Targets, TargetReady, SameBut, SameImage, Fresh
    <2>. QED BY <1>2, <2>1 DEF Targets
  <1>5. PICK t : /\ Runs(ClearTarget("comparisonOutput"), v, t)
                 /\ Usable(t, "comparisonOutput", "Compute", "ShaderWrite", "General")
                 /\ SameBut(v, t, {"comparisonOutput"}) /\ SameResults(v, t)
    <2>1. TargetReady(v, "comparisonOutput")
      BY <1>1, <1>3, <1>4 DEF Targets, TargetReady, SameBut, SameImage, Fresh
    <2>. QED BY <1>2, <2>1 DEF Targets
  <1>6. Runs(ClearTargets, s, t)
    <2>1. Runs(ClearTarget("intermediate") \o ClearTarget("output"), s, v)
      BY <1>3, <1>4, RunsBoth
    <2>. QED BY <1>5, <2>1, RunsBoth DEF ClearTargets
  <1>7. \A i \in Targets : Usable(t, i, "Compute", "ShaderWrite", "General")
    <2>1. SameImage(u, t, "intermediate") /\ SameImage(v, t, "output")
      BY <1>1, <1>4, <1>5 DEF Targets, SameBut, SameImage
    <2>. QED BY <1>3, <1>4, <1>5, <2>1 DEF Targets, Usable, Settled, SameImage
  <1>8. SameBut(s, t, Targets) /\ SameResults(s, t)
    BY <1>3, <1>4, <1>5 DEF Targets, SameBut, SameImage, SameResults
  <1>. QED BY <1>6, <1>7, <1>8 DEF TargetsCleared

(* From one state to another the work of some passes was done, and timed,  *)
(* the first of them being pass number count of the frame.                 *)
Timed(s, t, passes, count) ==
  /\ t.work = s.work \o passes
  /\ \A k \in 1 .. Len(passes) : t.ticks[2 + count + k] = Len(s.work) + k
  /\ \A q \in Slot : q <= 2 + count \/ q > 2 + count + Len(passes) => t.ticks[q] = s.ticks[q]
  /\ t.shown = s.shown /\ t.captured = s.captured

LEMMA TimedModes ==
  ASSUME NEW s, NEW t, NEW m \in UpscaleMode, NEW count \in 0 .. 2, NEW dest,
         Upscaling(s, t, m, count, dest)
  PROVE  Timed(s, t, PassesOf[m], count)
  <1>1. \A q \in Slot : q <= 2 + count \/ q > 2 + count + Len(PassesOf[m]) =>
          t.ticks[q] = s.ticks[q]
    <2>. DEFINE n == Len(PassesOf[m])
    <2>1. n \in Nat
      BY ModePasses, NamePair
    <2>. HIDE DEF n
    <2>2. ASSUME NEW q \in Slot, q <= 2 + count \/ q > 2 + count + n
          PROVE  q \notin {2 + count + k : k \in 1 .. n}
      BY <2>1, <2>2 DEF Slot
    <2>. USE DEF n
    <2>. QED BY <2>2 DEF Upscaling, TicksBut
  <1>. QED BY <1>1 DEF Upscaling, Timed

LEMMA TimedBoth ==
  ASSUME NEW s, NEW t, NEW u, NEW a \in Seq(Name), NEW b \in Seq(Name), s.work \in Seq(Name),
         Len(a) + Len(b) <= 4, Timed(s, t, a, 0), Timed(t, u, b, Len(a))
  PROVE  Timed(s, u, a \o b, 0)
  <1>1. /\ Len(a) \in Nat /\ Len(b) \in Nat /\ Len(a \o b) = Len(a) + Len(b)
        /\ Len(s.work \o a) = Len(s.work) + Len(a) /\ Len(s.work) \in Nat
        /\ (s.work \o a) \o b = s.work \o (a \o b)
    <2>1. Len(a \o b) = Len(a) + Len(b) /\ Len(s.work \o a) = Len(s.work) + Len(a)
      BY ConcatProperties
    <2>2. (s.work \o a) \o b = s.work \o (a \o b)
      <3>. DEFINE w == s.work
      <3>1. w \in Seq(Name)
        OBVIOUS
      <3>. HIDE DEF w
      <3>2. (w \o a) \o b = w \o (a \o b)
        BY <3>1, ConcatAssociative
      <3>. QED BY <3>2 DEF w
    <2>3. Len(a) \in Nat /\ Len(b) \in Nat /\ Len(s.work) \in Nat
      OBVIOUS
    <2>. QED BY <2>1, <2>2, <2>3
  <1>2. \A k \in 1 .. Len(a) + Len(b) : u.ticks[2 + 0 + k] = Len(s.work) + k
    <2>. TAKE k \in 1 .. Len(a) + Len(b)
    <2>1. CASE k <= Len(a)
      <3>1. 2 + k \in Slot /\ 2 + k <= 2 + Len(a) /\ k \in 1 .. Len(a) /\ 2 + 0 + k = 2 + k
        BY <1>1, <2>1 DEF Slot
      <3>2. t.ticks[2 + k] = Len(s.work) + k
        BY <3>1 DEF Timed
      <3>. QED BY <3>1, <3>2 DEF Timed
    <2>2. CASE k > Len(a)
      <3>1. k - Len(a) \in 1 .. Len(b) /\ 2 + Len(a) + (k - Len(a)) = 2 + 0 + k
        BY <1>1, <2>2
      <3>2. u.ticks[2 + Len(a) + (k - Len(a))] = Len(t.work) + (k - Len(a))
        BY <3>1 DEF Timed
      <3>3. Len(t.work) = Len(s.work) + Len(a)
        BY <1>1 DEF Timed
      <3>. QED BY <1>1, <3>1, <3>2, <3>3
    <2>. QED BY <1>1, <2>1, <2>2
  <1>3. \A q \in Slot : q <= 2 + 0 \/ q > 2 + 0 + (Len(a) + Len(b)) => u.ticks[q] = s.ticks[q]
    <2>. SUFFICES ASSUME NEW q \in Slot, q <= 2 + 0 \/ q > 2 + 0 + (Len(a) + Len(b))
                  PROVE  u.ticks[q] = s.ticks[q]
      OBVIOUS
    <2>1. /\ q <= 2 + 0 \/ q > 2 + 0 + Len(a)
          /\ q <= 2 + Len(a) \/ q > 2 + Len(a) + Len(b)
      BY <1>1 DEF Slot
    <2>2. t.ticks[q] = s.ticks[q]
      BY <2>1 DEF Timed
    <2>3. u.ticks[q] = t.ticks[q]
      BY <2>1 DEF Timed
    <2>. QED BY <2>2, <2>3
  <1>4. u.work = s.work \o (a \o b) /\ u.shown = s.shown /\ u.captured = s.captured
    BY <1>1 DEF Timed
  <1>. QED BY <1>1, <1>2, <1>3, <1>4 DEF Timed

(* An image that can be drawn, upscaled by mode m. *)
Shown(t, i, m) == Usable(t, i, "Fragment", "ShaderRead", "General") /\ t.holds[i] = Upscaled(m)

LEMMA RunsUpscale ==
  ASSUME NEW s, ModeA \in UpscaleMode, s.work \in Seq(Name), WorkingMade(s),
         Usable(s, "intermediate", "Compute", "ShaderWrite", "General"),
         Usable(s, "output", "Compute", "ShaderWrite", "General"),
         \A q \in Slot : q > 2 => s.ticks[q] = None
  PROVE  \E t : /\ Runs(Upscale, s, t)
                /\ WorkingMade(t) /\ Settled(t, "intermediate", "General", {"Compute"})
                /\ Shown(t, "output", ModeA)
                /\ SameBut(s, t, {"working", "intermediate", "output"})
                /\ Timed(s, t, PassesOf[ModeA], 0)
  <1>1. Target(FALSE) = "output" /\ {"working", "intermediate", "output"} \subseteq Image
    BY DEF Target, Image
  <1>2. PICK u : Runs(RecordMode(ModeA, 0, FALSE), s, u) /\ Upscaling(s, u, ModeA, 0, FALSE)
    <2>1. 0 \in 0 .. 2 /\ FALSE \in BOOLEAN
      OBVIOUS
    <2>2. \A q \in Slot : q > 2 + 0 => s.ticks[q] = None
      BY DEF Slot
    <2>3. Usable(s, Target(FALSE), "Compute", "ShaderWrite", "General")
      BY <1>1
    <2>. QED BY <2>1, <2>2, <2>3, RunsMode DEF WorkingMade
  <1>3. PICK t : /\ Runs(Between("output", {"ShaderWrite"}, {"ShaderRead"}, "Fragment"), u, t)
                 /\ Moved(u, t, "output", "General", "General", {"ShaderRead"}, "Fragment")
    <2>1. /\ u.layout["output"] = "General" /\ u.users["output"] \subseteq {"Compute"}
          /\ u.dirty["output"] \subseteq {"ShaderWrite"} /\ "output" \in Image
      BY <1>1, <1>2 DEF Upscaling
    <2>. QED BY <2>1, RunsBetween
  <1>4. Runs(Upscale, s, t)
    BY <1>2, <1>3, RunsBoth DEF Upscale
  <1>5. SameImage(u, t, "working") /\ SameImage(u, t, "intermediate")
    BY <1>1, <1>3 DEF Moved, SameBut
  <1>6. WorkingMade(t) /\ Settled(t, "intermediate", "General", {"Compute"})
    BY <1>2, <1>5 DEF Upscaling, WorkingMade, Usable, Settled, SameImage
  <1>7. Shown(t, "output", ModeA)
    BY <1>1, <1>2, <1>3 DEF Upscaling, Moved, Shown, Usable
  <1>8. SameBut(s, t, {"working", "intermediate", "output"})
    BY <1>1, <1>2, <1>3 DEF Upscaling, Moved, SameBut, SameImage
  <1>9. Timed(s, t, PassesOf[ModeA], 0)
    <2>1. Timed(s, u, PassesOf[ModeA], 0)
      <3>1. 0 \in 0 .. 2
        OBVIOUS
      <3>. QED BY <1>2, <3>1, TimedModes
    <2>. QED BY <1>3, <2>1 DEF Moved, SameResults, Timed
  <1>. QED BY <1>4, <1>6, <1>7, <1>8, <1>9

LEMMA RunsCompare ==
  ASSUME NEW s, ModeA \in UpscaleMode, comparisonB \in UpscaleMode,
         s.work \in Seq(Name), WorkingMade(s),
         Settled(s, "intermediate", "General", {"Compute"}),
         Usable(s, "comparisonOutput", "Compute", "ShaderWrite", "General"),
         \A q \in Slot : q > 2 + Len(PassesOf[ModeA]) => s.ticks[q] = None
  PROVE  \E t : /\ Runs(Compare, s, t)
                /\ WorkingMade(t) /\ Settled(t, "intermediate", "General", {"Compute"})
                /\ Shown(t, "comparisonOutput", comparisonB)
                /\ SameBut(s, t, {"working", "intermediate", "comparisonOutput"})
                /\ Timed(s, t, PassesOf[comparisonB], Len(PassesOf[ModeA]))
  <1>. DEFINE count == Len(PassesOf[ModeA])
  <1>1. /\ Target(TRUE) = "comparisonOutput"
        /\ {"working", "intermediate", "comparisonOutput"} \subseteq Image
    BY DEF Target, Image
  <1>2. count \in 0 .. 2
    BY ModeLength
  <1>3. PICK r : /\ Runs(Between("intermediate", {"ShaderRead", "ShaderWrite"}, {"ShaderWrite"}, "Compute"), s, r)
                 /\ Moved(s, r, "intermediate", "General", "General", {"ShaderWrite"}, "Compute")
    <2>1. /\ s.layout["intermediate"] = "General" /\ s.users["intermediate"] \subseteq {"Compute"}
          /\ s.dirty["intermediate"] \subseteq {"ShaderRead", "ShaderWrite"} /\ "intermediate" \in Image
      BY <1>1 DEF Settled
    <2>. QED BY <2>1, RunsBetween
  <1>4. PICK u : Runs(RecordMode(comparisonB, count, TRUE), r, u) /\ Upscaling(r, u, comparisonB, count, TRUE)
    <2>1. SameImage(s, r, "working") /\ SameImage(s, r, "comparisonOutput")
      BY <1>1, <1>3 DEF Moved, SameBut
    <2>2. /\ Usable(r, "working", "Compute", "ShaderRead", "General") /\ r.holds["working"] = Converted
          /\ Usable(r, Target(TRUE), "Compute", "ShaderWrite", "General")
      BY <1>1, <2>1 DEF WorkingMade, Usable, Settled, SameImage
    <2>3. Usable(r, "intermediate", "Compute", "ShaderWrite", "General")
      BY <1>3 DEF Moved, Usable
    <2>4. r.work \in Seq(Name) /\ \A q \in Slot : q > 2 + count => r.ticks[q] = None
      BY <1>3 DEF Moved, SameResults
    <2>5. TRUE \in BOOLEAN
      OBVIOUS
    <2>. HIDE DEF count
    <2>. QED BY <1>2, <2>2, <2>3, <2>4, <2>5, RunsMode
  <1>5. PICK t : /\ Runs(Between("comparisonOutput", {"ShaderWrite"}, {"ShaderRead"}, "Fragment"), u, t)
                 /\ Moved(u, t, "comparisonOutput", "General", "General", {"ShaderRead"}, "Fragment")
    <2>1. /\ u.layout["comparisonOutput"] = "General" /\ u.users["comparisonOutput"] \subseteq {"Compute"}
          /\ u.dirty["comparisonOutput"] \subseteq {"ShaderWrite"} /\ "comparisonOutput" \in Image
      BY <1>1, <1>4 DEF Upscaling
    <2>. QED BY <2>1, RunsBetween
  <1>6. Runs(Compare, s, t)
    <2>1. Runs(Between("intermediate", {"ShaderRead", "ShaderWrite"}, {"ShaderWrite"}, "Compute")
               \o RecordMode(comparisonB, count, TRUE), s, u)
      BY <1>3, <1>4, RunsBoth
    <2>. QED BY <1>5, <2>1, RunsBoth DEF Compare
  <1>7. SameImage(u, t, "working") /\ SameImage(u, t, "intermediate")
    BY <1>1, <1>5 DEF Moved, SameBut
  <1>8. WorkingMade(t) /\ Settled(t, "intermediate", "General", {"Compute"})
    BY <1>4, <1>7 DEF Upscaling, WorkingMade, Usable, Settled, SameImage
  <1>9. Shown(t, "comparisonOutput", comparisonB)
    BY <1>1, <1>4, <1>5 DEF Upscaling, Moved, Shown, Usable
  <1>10. SameBut(s, t, {"working", "intermediate", "comparisonOutput"})
    <2>1. SameBut(s, r, {"intermediate"}) /\ SameBut(u, t, {"comparisonOutput"})
      BY <1>3, <1>5 DEF Moved
    <2>2. SameBut(r, u, {"working", "intermediate", "comparisonOutput"})
      BY <1>1, <1>4 DEF Upscaling
    <2>. QED BY <2>1, <2>2 DEF SameBut, SameImage
  <1>11. Timed(s, t, PassesOf[comparisonB], count)
    <2>. HIDE DEF count
    <2>1. Timed(r, u, PassesOf[comparisonB], count)
      BY <1>2, <1>4, TimedModes
    <2>. QED BY <1>3, <1>5, <2>1 DEF Moved, SameResults, Timed
  <1>. QED BY <1>6, <1>8, <1>9, <1>10, <1>11

(* One mode or two. *)
ModesDone(s, t) ==
  /\ WorkingMade(t) /\ Settled(t, "intermediate", "General", {"Compute"})
  /\ Shown(t, "output", ModeA)
  /\ IF comparisonEnabled THEN Shown(t, "comparisonOutput", comparisonB)
                          ELSE SameImage(s, t, "comparisonOutput")
  /\ SameBut(s, t, {"working"} \union Targets)
  /\ Timed(s, t, Stages, 0)

SettingsOK ==
  /\ mode \in UpscaleMode /\ comparisonA \in UpscaleMode /\ comparisonB \in UpscaleMode
  /\ comparisonEnabled \in BOOLEAN

LEMMA StagesList ==
  ASSUME SettingsOK
  PROVE  /\ ModeA \in UpscaleMode /\ Stages \in Seq(Name) /\ Len(Stages) \in 1 .. 4
         /\ PassesOf[ModeA] \in Seq(Name) /\ Len(PassesOf[ModeA]) \in 1 .. 2
         /\ PassesOf[comparisonB] \in Seq(Name) /\ Len(PassesOf[comparisonB]) \in 1 .. 2
         /\ IF comparisonEnabled
            THEN /\ Stages = PassesOf[ModeA] \o PassesOf[comparisonB]
                 /\ Len(Stages) = Len(PassesOf[ModeA]) + Len(PassesOf[comparisonB])
            ELSE Stages = PassesOf[ModeA]
  <1>1. \A m \in UpscaleMode : PassesOf[m] \in Seq(Name) /\ Len(PassesOf[m]) \in 1 .. 2
    BY ModeLength
  <1>2. ModeA \in UpscaleMode
    BY DEF SettingsOK, ModeA
  <1>. DEFINE a == PassesOf[ModeA]
              b == PassesOf[comparisonB]
  <1>3. a \in Seq(Name) /\ Len(a) \in 1 .. 2 /\ b \in Seq(Name) /\ Len(b) \in 1 .. 2
    BY <1>1, <1>2 DEF SettingsOK
  <1>4. Stages = IF comparisonEnabled THEN a \o b ELSE a \o <<>>
    BY DEF Stages
  <1>. HIDE DEF a, b
  <1>5. a \o <<>> = a /\ a \o b \in Seq(Name) /\ Len(a \o b) = Len(a) + Len(b)
    BY <1>3, ConcatProperties, ConcatEmptySeq
  <1>6. Len(a) + Len(b) \in 1 .. 4 /\ Len(a) \in 1 .. 4
    <2>1. \A m, n \in 1 .. 2 : m + n \in 1 .. 4 /\ m \in 1 .. 4
      OBVIOUS
    <2>. QED BY <1>3, <2>1
  <1>7. Stages \in Seq(Name) /\ Len(Stages) \in 1 .. 4
    BY <1>3, <1>4, <1>5, <1>6 DEF SettingsOK
  <1>8. IF comparisonEnabled THEN Stages = a \o b /\ Len(Stages) = Len(a) + Len(b)
                             ELSE Stages = a
    BY <1>4, <1>5
  <1>. USE DEF a, b
  <1>. QED BY <1>2, <1>3, <1>7, <1>8

LEMMA RunsModes ==
  ASSUME NEW s, SettingsOK, s.work \in Seq(Name), WorkingMade(s),
         \A i \in Targets : Usable(s, i, "Compute", "ShaderWrite", "General"),
         \A q \in Slot : q > 2 => s.ticks[q] = None
  PROVE  \E t, u : /\ Runs(Upscale, s, u)
                   /\ Runs(IF comparisonEnabled THEN Compare ELSE <<>>, u, t)
                   /\ ModesDone(s, t)
  <1>1. /\ Targets \subseteq Image /\ {"intermediate", "output", "comparisonOutput"} = Targets
        /\ "comparisonOutput" \in Image \ {"working", "intermediate", "output"}
        /\ "output" \in Image \ {"working", "intermediate", "comparisonOutput"}
    BY DEF Targets, Image
  <1>2. PICK u : /\ Runs(Upscale, s, u)
                 /\ WorkingMade(u) /\ Settled(u, "intermediate", "General", {"Compute"})
                 /\ Shown(u, "output", ModeA)
                 /\ SameBut(s, u, {"working", "intermediate", "output"})
                 /\ Timed(s, u, PassesOf[ModeA], 0)
    <2>1. /\ Usable(s, "intermediate", "Compute", "ShaderWrite", "General")
          /\ Usable(s, "output", "Compute", "ShaderWrite", "General")
      BY <1>1
    <2>. QED BY <2>1, StagesList, RunsUpscale
  <1>3. CASE ~comparisonEnabled
    <2>1. Runs(IF comparisonEnabled THEN Compare ELSE <<>>, u, u)
      BY <1>3, RunsNothing
    <2>2. SameImage(s, u, "comparisonOutput") /\ SameBut(s, u, {"working"} \union Targets)
      BY <1>1, <1>2 DEF SameBut
    <2>3. Timed(s, u, Stages, 0)
      BY <1>2, <1>3, StagesList
    <2>4. ModesDone(s, u)
      BY <1>2, <1>3, <2>2, <2>3 DEF ModesDone
    <2>. QED BY <1>2, <2>1, <2>4
  <1>4. CASE comparisonEnabled
    <2>. DEFINE a == PassesOf[ModeA]
                b == PassesOf[comparisonB]
    <2>0. a \in Seq(Name) /\ b \in Seq(Name) /\ Len(a) \in 1 .. 2 /\ Len(b) \in 1 .. 2
      BY StagesList
    <2>1. PICK t : /\ Runs(Compare, u, t)
                   /\ WorkingMade(t) /\ Settled(t, "intermediate", "General", {"Compute"})
                   /\ Shown(t, "comparisonOutput", comparisonB)
                   /\ SameBut(u, t, {"working", "intermediate", "comparisonOutput"})
                   /\ Timed(u, t, b, Len(a))
      <3>1. u.work \in Seq(Name)
        BY <1>2, <2>0 DEF Timed
      <3>2. SameImage(s, u, "comparisonOutput")
        BY <1>1, <1>2 DEF SameBut
      <3>3. Usable(u, "comparisonOutput", "Compute", "ShaderWrite", "General")
        BY <1>1, <3>2 DEF Usable, Settled, SameImage
      <3>4. \A q \in Slot : q > 2 + Len(a) => u.ticks[q] = None
        <4>. HIDE DEF a, b
        <4>1. Timed(s, u, a, 0)
          BY <1>2 DEF a
        <4>. QED BY <2>0, <4>1 DEF Timed, Slot
      <3>. QED BY <1>2, <3>1, <3>3, <3>4, StagesList, RunsCompare DEF SettingsOK
    <2>2. Shown(t, "output", ModeA)
      <3>1. SameImage(u, t, "output")
        BY <1>1, <2>1 DEF SameBut
      <3>. QED BY <1>2, <3>1 DEF Shown, Usable, Settled, SameImage
    <2>3. SameBut(s, t, {"working"} \union Targets)
      BY <1>1, <1>2, <2>1 DEF SameBut, SameImage
    <2>4. Timed(s, t, Stages, 0)
      <3>. HIDE DEF a, b
      <3>1. Len(a) + Len(b) <= 4 /\ Timed(s, u, a, 0)
        <4>1. \A m, n \in 1 .. 2 : m + n <= 4
          OBVIOUS
        <4>2. Timed(s, u, a, 0)
          BY <1>2 DEF a
        <4>. QED BY <2>0, <4>1, <4>2
      <3>2. Timed(s, t, a \o b, 0)
        BY <2>0, <2>1, <3>1, TimedBoth
      <3>3. Stages = a \o b
        BY <1>4, StagesList DEF a, b
      <3>. QED BY <3>2, <3>3
    <2>5. ModesDone(s, t)
      BY <1>4, <2>1, <2>2, <2>3, <2>4 DEF ModesDone
    <2>. QED BY <1>2, <1>4, <2>1, <2>5
  <1>. QED BY <1>3, <1>4

(* The queries of the passes a frame has not. *)
LEMMA SpareStampsAre ==
  ASSUME Len(Stages) \in 1 .. 4
  PROVE  /\ Len(Stages) = 1 => SpareStamps = Stamp(4) \o Stamp(5) \o Stamp(6)
         /\ Len(Stages) = 2 => SpareStamps = Stamp(5) \o Stamp(6)
         /\ Len(Stages) = 3 => SpareStamps = Stamp(6)
         /\ Len(Stages) = 4 => SpareStamps = <<>>
  <1>. DEFINE n == Len(Stages)
              a == Stamp(3)
              b == Stamp(4)
              c == Stamp(5)
              d == Stamp(6)
              list == a \o b \o c \o d
              last == b \o c \o d
              two == c \o d
              S == {[op |-> "stamp", slot |-> q] : q \in 3 .. 6}
  <1>1. SpareStamps = SubSeq(list, n + 1, 4)
    BY DEF SpareStamps
  <1>2. \A q \in 3 .. 6 : Stamp(q) \in Seq(S) /\ Len(Stamp(q)) = 1
    BY DEF Stamp
  <1>3. /\ a \in Seq(S) /\ b \in Seq(S) /\ c \in Seq(S) /\ d \in Seq(S)
        /\ Len(a) = 1 /\ Len(b) = 1 /\ Len(c) = 1 /\ Len(d) = 1
    BY <1>2
  <1>. HIDE DEF n, a, b, c, d, S
  <1>4. two \in Seq(S) /\ Len(two) = 2 /\ two[1] = c[1] /\ two[2] = d[1]
    BY <1>3, ConcatProperties
  <1>5. last \in Seq(S) /\ Len(last) = 3 /\ last[1] = b[1] /\ last[2] = c[1] /\ last[3] = d[1]
    <2>1. b \o c \in Seq(S) /\ Len(b \o c) = 2 /\ (b \o c)[1] = b[1] /\ (b \o c)[2] = c[1]
      BY <1>3, ConcatProperties
    <2>. QED BY <1>3, <2>1, ConcatProperties
  <1>6. /\ list \in Seq(S) /\ Len(list) = 4
        /\ list[2] = b[1] /\ list[3] = c[1] /\ list[4] = d[1]
    <2>1. a \o b \in Seq(S) /\ Len(a \o b) = 2 /\ (a \o b)[2] = b[1]
      BY <1>3, ConcatProperties
    <2>2. a \o b \o c \in Seq(S) /\ Len(a \o b \o c) = 3 /\ (a \o b \o c)[2] = b[1] /\ (a \o b \o c)[3] = c[1]
      BY <1>3, <2>1, ConcatProperties
    <2>. QED BY <1>3, <2>2, ConcatProperties
  <1>. HIDE DEF list, last, two
  <1>7. ASSUME NEW m \in 2 .. 4
        PROVE  /\ SubSeq(list, m, 4) \in Seq(S) /\ Len(SubSeq(list, m, 4)) = 5 - m
               /\ \A k \in 1 .. 5 - m : SubSeq(list, m, 4)[k] = list[m + k - 1]
    <2>1. \A k \in m .. 4 : list[k] \in S
      <3>1. list \in Seq(S) /\ Len(list) = 4
        BY <1>6
      <3>2. \A k \in m .. 4 : k \in 1 .. Len(list)
        BY <3>1
      <3>. QED BY <3>1, <3>2, ElementOfSeq
    <2>2. m \in Int /\ 4 \in Int /\ m <= 4 /\ 4 - m + 1 = 5 - m
      OBVIOUS
    <2>. QED BY <2>1, <2>2, SubSeqProperties
  <1>8. SubSeq(list, 2, 4) = last
    <2>1. SubSeq(list, 2, 4) \in Seq(S) /\ Len(SubSeq(list, 2, 4)) = 3
      BY <1>7
    <2>2. \A k \in 1 .. 3 : SubSeq(list, 2, 4)[k] = list[k + 1]
      BY <1>7
    <2>3. \A k \in 1 .. 3 : list[k + 1] = last[k]
      BY <1>5, <1>6
    <2>. QED BY <1>5, <2>1, <2>2, <2>3, SeqEqual
  <1>9. SubSeq(list, 3, 4) = two /\ SubSeq(list, 4, 4) = d
    <2>1. /\ SubSeq(list, 3, 4) \in Seq(S) /\ Len(SubSeq(list, 3, 4)) = 2
          /\ SubSeq(list, 4, 4) \in Seq(S) /\ Len(SubSeq(list, 4, 4)) = 1
      BY <1>7
    <2>2. /\ \A k \in 1 .. 2 : SubSeq(list, 3, 4)[k] = list[k + 2]
          /\ \A k \in 1 .. 1 : SubSeq(list, 4, 4)[k] = list[k + 3]
      BY <1>7
    <2>3. /\ \A k \in 1 .. 2 : list[k + 2] = two[k]
          /\ \A k \in 1 .. 1 : list[k + 3] = d[k]
      BY <1>4, <1>6
    <2>4. SubSeq(list, 3, 4) = two
      BY <1>4, <2>1, <2>2, <2>3, SeqEqual
    <2>5. SubSeq(list, 4, 4) = d
      BY <1>3, <2>1, <2>2, <2>3, SeqEqual
    <2>. QED BY <2>4, <2>5
  <1>10. SubSeq(list, 5, 4) = <<>>
    BY SubSeqEmpty
  <1>11. ASSUME n = 1 PROVE SpareStamps = last
    <2>1. n + 1 = 2
      BY <1>11
    <2>. QED BY <1>1, <1>8, <2>1
  <1>12. ASSUME n = 2 PROVE SpareStamps = two
    <2>1. n + 1 = 3
      BY <1>12
    <2>. QED BY <1>1, <1>9, <2>1
  <1>13. ASSUME n = 3 PROVE SpareStamps = d
    <2>1. n + 1 = 4
      BY <1>13
    <2>. QED BY <1>1, <1>9, <2>1
  <1>14. ASSUME n = 4 PROVE SpareStamps = <<>>
    <2>1. n + 1 = 5
      BY <1>14
    <2>. QED BY <1>1, <1>10, <2>1
  <1>. USE DEF n, b, c, d, last, two
  <1>. QED BY <1>11, <1>12, <1>13, <1>14

Spared(s, t, n) ==
  /\ \A q \in Slot : t.ticks[q] = IF q \in 3 + n .. 6 THEN Len(s.work) ELSE s.ticks[q]
  /\ SameBut(s, t, {}) /\ t.work = s.work /\ t.shown = s.shown /\ t.captured = s.captured

LEMMA RunsSpareStamps ==
  ASSUME NEW s, Len(Stages) \in 1 .. 4,
         \A q \in Slot : q > 2 + Len(Stages) => s.ticks[q] = None
  PROVE  \E t : Runs(SpareStamps, s, t) /\ Spared(s, t, Len(Stages))
  <1>. DEFINE n == Len(Stages)
  <1>1. /\ n = 1 => SpareStamps = Stamp(4) \o Stamp(5) \o Stamp(6)
        /\ n = 2 => SpareStamps = Stamp(5) \o Stamp(6)
        /\ n = 3 => SpareStamps = Stamp(6)
        /\ n = 4 => SpareStamps = <<>>
    BY SpareStampsAre
  <1>2. ASSUME NEW u, NEW q \in Slot, u.ticks[q] = None
        PROVE  \E v : /\ Runs(Stamp(q), u, v) /\ SameBut(u, v, {})
                      /\ \A p \in Slot : v.ticks[p] = IF p = q THEN Len(u.work) ELSE u.ticks[p]
                      /\ v.work = u.work /\ v.shown = u.shown /\ v.captured = u.captured
    BY <1>2, RunsStamp DEF Stamped, TicksBut
  <1>3. 4 \in Slot /\ 5 \in Slot /\ 6 \in Slot
    BY DEF Slot
  <1>4. CASE n = 4
    <2>1. Runs(SpareStamps, s, s)
      BY <1>1, <1>4, RunsNothing
    <2>2. \A q \in Slot : q \notin 3 + n .. 6
      BY <1>4 DEF Slot
    <2>. QED BY <2>1, <2>2 DEF Spared, SameBut, SameImage
  <1>5. CASE n = 3
    <2>1. s.ticks[6] = None
      BY <1>3, <1>5
    <2>2. PICK t : /\ Runs(Stamp(6), s, t) /\ SameBut(s, t, {})
                   /\ \A p \in Slot : t.ticks[p] = IF p = 6 THEN Len(s.work) ELSE s.ticks[p]
                   /\ t.work = s.work /\ t.shown = s.shown /\ t.captured = s.captured
      BY <1>2, <1>3, <2>1
    <2>3. \A q \in Slot : q \in 3 + n .. 6 <=> q = 6
      BY <1>5 DEF Slot
    <2>4. Spared(s, t, n)
      BY <2>2, <2>3 DEF Spared
    <2>. QED BY <1>1, <1>5, <2>2, <2>4
  <1>6. CASE n = 2
    <2>1. s.ticks[5] = None /\ s.ticks[6] = None
      BY <1>3, <1>6
    <2>2. PICK u : /\ Runs(Stamp(5), s, u) /\ SameBut(s, u, {})
                   /\ \A p \in Slot : u.ticks[p] = IF p = 5 THEN Len(s.work) ELSE s.ticks[p]
                   /\ u.work = s.work /\ u.shown = s.shown /\ u.captured = s.captured
      BY <1>2, <1>3, <2>1
    <2>3. u.ticks[6] = None
      BY <1>3, <2>1, <2>2
    <2>4. PICK t : /\ Runs(Stamp(6), u, t) /\ SameBut(u, t, {})
                   /\ \A p \in Slot : t.ticks[p] = IF p = 6 THEN Len(u.work) ELSE u.ticks[p]
                   /\ t.work = u.work /\ t.shown = u.shown /\ t.captured = u.captured
      BY <1>2, <1>3, <2>3
    <2>5. Runs(SpareStamps, s, t)
      <3>1. SpareStamps = Stamp(5) \o Stamp(6)
        BY <1>1, <1>6
      <3>. QED BY <2>2, <2>4, <3>1, RunsBoth
    <2>6. \A q \in Slot : q \in 3 + n .. 6 <=> q = 5 \/ q = 6
      BY <1>6 DEF Slot
    <2>7. \A q \in Slot : t.ticks[q] = IF q \in 3 + n .. 6 THEN Len(s.work) ELSE s.ticks[q]
      BY <2>2, <2>4, <2>6
    <2>8. Spared(s, t, n)
      BY <2>2, <2>4, <2>7 DEF Spared, SameBut, SameImage
    <2>. QED BY <2>5, <2>8
  <1>7. CASE n = 1
    <2>1. s.ticks[4] = None /\ s.ticks[5] = None /\ s.ticks[6] = None
      BY <1>3, <1>7
    <2>2. PICK u : /\ Runs(Stamp(4), s, u) /\ SameBut(s, u, {})
                   /\ \A p \in Slot : u.ticks[p] = IF p = 4 THEN Len(s.work) ELSE s.ticks[p]
                   /\ u.work = s.work /\ u.shown = s.shown /\ u.captured = s.captured
      BY <1>2, <1>3, <2>1
    <2>3. u.ticks[5] = None /\ u.ticks[6] = None
      BY <1>3, <2>1, <2>2
    <2>4. PICK v : /\ Runs(Stamp(5), u, v) /\ SameBut(u, v, {})
                   /\ \A p \in Slot : v.ticks[p] = IF p = 5 THEN Len(u.work) ELSE u.ticks[p]
                   /\ v.work = u.work /\ v.shown = u.shown /\ v.captured = u.captured
      BY <1>2, <1>3, <2>3
    <2>5. v.ticks[6] = None
      BY <1>3, <2>3, <2>4
    <2>6. PICK t : /\ Runs(Stamp(6), v, t) /\ SameBut(v, t, {})
                   /\ \A p \in Slot : t.ticks[p] = IF p = 6 THEN Len(v.work) ELSE v.ticks[p]
                   /\ t.work = v.work /\ t.shown = v.shown /\ t.captured = v.captured
      BY <1>2, <1>3, <2>5
    <2>7. Runs(SpareStamps, s, t)
      <3>1. Runs(Stamp(4) \o Stamp(5), s, v)
        BY <2>2, <2>4, RunsBoth
      <3>2. SpareStamps = Stamp(4) \o Stamp(5) \o Stamp(6)
        BY <1>1, <1>7
      <3>. QED BY <2>6, <3>1, <3>2, RunsBoth
    <2>8. \A q \in Slot : q \in 3 + n .. 6 <=> q = 4 \/ q = 5 \/ q = 6
      BY <1>7 DEF Slot
    <2>9. \A q \in Slot : t.ticks[q] = IF q \in 3 + n .. 6 THEN Len(s.work) ELSE s.ticks[q]
      BY <2>2, <2>4, <2>6, <2>8
    <2>10. Spared(s, t, n)
      BY <2>2, <2>4, <2>6, <2>9 DEF Spared, SameBut, SameImage
    <2>. QED BY <2>7, <2>10
  <1>. QED BY <1>4, <1>5, <1>6, <1>7

(* The copy of an image for a screenshot, and back to what the drawing wants. *)
LEMMA RunsToReadback ==
  ASSUME NEW s, NEW i \in Image, s.layout[i] = "General", s.dirty[i] = {}
  PROVE  \E t : Runs(ToReadback(i), s, t) /\ ReadBack(s, t, i)
  <1>. DEFINE src == {"ShaderRead", "ShaderWrite", "TransferRead"}
  <1>1. PICK u : /\ Runs(Barrier(i, "General", "TransferSrc", src, {"TransferRead"},
                                 "AllCommands", "Transfer"), s, u)
                 /\ Moved(s, u, i, "General", "TransferSrc", {"TransferRead"}, "Transfer")
    <2>1. "General" \in {"Undefined", s.layout[i]} /\ s.dirty[i] \subseteq src
      OBVIOUS
    <2>. HIDE DEF src
    <2>. QED BY <2>1, RunsBarrier
  <1>2. PICK t : Runs(Readback(i), u, t) /\ ReadBack(u, t, i)
    <2>1. Usable(u, i, "Transfer", "TransferRead", "TransferSrc")
      BY <1>1 DEF Moved, Usable
    <2>. QED BY <2>1, RunsReadback
  <1>3. Runs(ToReadback(i), s, t)
    BY <1>1, <1>2, RunsBoth DEF ToReadback
  <1>4. ReadBack(s, t, i)
    <2>1. u.holds[i] = s.holds[i]
      BY <1>1 DEF Moved
    <2>. QED BY <1>1, <1>2, <2>1 DEF Moved, ReadBack, SameBut, SameImage, SameResults
  <1>. QED BY <1>3, <1>4

LEMMA RunsToDrawing ==
  ASSUME NEW s, NEW i \in Image, Settled(s, i, "TransferSrc", {"Transfer"})
  PROVE  \E t : /\ Runs(ToDrawing(i), s, t)
                /\ Usable(t, i, "Fragment", "ShaderRead", "General") /\ t.holds[i] = s.holds[i]
                /\ SameBut(s, t, {i}) /\ SameResults(s, t)
  <1>1. PICK t : /\ Runs(ToDrawing(i), s, t)
                 /\ Moved(s, t, i, "TransferSrc", "General", {"ShaderRead"}, "Fragment")
    <2>1. /\ "TransferSrc" \in {"Undefined", s.layout[i]} /\ s.users[i] \subseteq {"Transfer"}
          /\ s.dirty[i] \subseteq {"TransferRead"}
      BY DEF Settled
    <2>. QED BY <2>1, RunsBarrier DEF ToDrawing
  <1>. QED BY <1>1 DEF Moved, Usable

(* What is drawn and copied of a frame. *)
Views == IF comparisonEnabled THEN <<Upscaled(comparisonA), Upscaled(comparisonB)>>
                              ELSE <<Upscaled(mode)>>

LEMMA AppendTwo ==
  ASSUME NEW x, NEW y
  PROVE  Append(<<>>, x) = <<x>> /\ Append(<<x>>, y) = <<x, y>>
  <1>1. Append(<<>>, x) = <<x>>
    OBVIOUS
  <1>. DEFINE S == {x, y}
              one == <<x>>
              two == <<x, y>>
  <1>2. /\ one \in Seq(S) /\ Len(one) = 1 /\ one[1] = x /\ y \in S
        /\ two \in Seq(S) /\ Len(two) = 2 /\ two[1] = x /\ two[2] = y
    OBVIOUS
  <1>. HIDE DEF S, one, two
  <1>3. /\ Append(one, y) \in Seq(S) /\ Len(Append(one, y)) = 2
        /\ Append(one, y)[1] = x /\ Append(one, y)[2] = y
    <2>1. /\ Append(one, y) \in Seq(S) /\ Len(Append(one, y)) = Len(one) + 1
          /\ \A k \in 1 .. Len(one) : Append(one, y)[k] = one[k]
          /\ Append(one, y)[Len(one) + 1] = y
      <3>1. one \in Seq(S) /\ y \in S
        BY <1>2
      <3>. QED BY <3>1, AppendProperties
    <2>2. 1 \in 1 .. Len(one) /\ Len(one) + 1 = 2
      BY <1>2
    <2>. QED BY <1>2, <2>1, <2>2
  <1>4. \A k \in 1 .. 2 : Append(one, y)[k] = two[k]
    BY <1>2, <1>3
  <1>5. Append(one, y) = two
    BY <1>2, <1>3, <1>4, SeqEqual
  <1>. QED BY <1>1, <1>5 DEF one, two

CaptureDone(s, t) ==
  /\ Shown(t, "output", ModeA)
  /\ comparisonEnabled => Shown(t, "comparisonOutput", comparisonB)
  /\ ~comparisonEnabled => SameImage(s, t, "comparisonOutput")
  /\ SameBut(s, t, {"output", "comparisonOutput"})
  /\ t.captured = Views /\ t.ticks = s.ticks /\ t.shown = s.shown
  /\ \E b \in Seq({"Readback"}) : t.work = s.work \o b

LEMMA RunsCapture ==
  ASSUME NEW s, SettingsOK, s.captured = <<>>, s.work \in Seq(Name),
         Shown(s, "output", ModeA),
         comparisonEnabled => Shown(s, "comparisonOutput", comparisonB)
  PROVE  \E t : Runs(Capture, s, t) /\ CaptureDone(s, t)
  <1>. DEFINE other == IF comparisonEnabled
                       THEN ToReadback("comparisonOutput") \o ToDrawing("comparisonOutput")
                       ELSE <<>>
  <1>1. /\ "output" \in Image /\ "comparisonOutput" \in Image /\ "output" # "comparisonOutput"
        /\ "Readback" \in Name
    BY DEF Image, Name
  <1>2. PICK u : Runs(ToReadback("output"), s, u) /\ ReadBack(s, u, "output")
    BY <1>1, RunsToReadback DEF Shown, Usable, Settled
  <1>3. u.captured = <<Upscaled(ModeA)>> /\ u.work = s.work \o <<"Readback">>
    BY <1>1, <1>2, AppendTwo, OneBehind DEF ReadBack, Shown
  <1>4. SameImage(s, u, "comparisonOutput")
    BY <1>1, <1>2 DEF ReadBack, SameBut
  <1>5. PICK w : /\ Runs(other, u, w) /\ SameBut(u, w, {"comparisonOutput"})
                 /\ comparisonEnabled => Shown(w, "comparisonOutput", comparisonB)
                 /\ ~comparisonEnabled => SameImage(u, w, "comparisonOutput")
                 /\ w.captured = Views /\ w.ticks = u.ticks /\ w.shown = u.shown
                 /\ \E b \in Seq({"Readback"}) : w.work = s.work \o b
    <2>1. CASE ~comparisonEnabled
      <3>1. Runs(other, u, u)
        BY <2>1, RunsNothing
      <3>2. u.captured = Views
        BY <1>3, <2>1 DEF Views, ModeA
      <3>3. \E b \in Seq({"Readback"}) : u.work = s.work \o b
        <4>1. <<"Readback">> \in Seq({"Readback"})
          BY NamePair
        <4>. QED BY <1>3, <4>1
      <3>. QED BY <2>1, <3>1, <3>2, <3>3 DEF SameBut, SameImage
    <2>2. CASE comparisonEnabled
      <3>1. Shown(u, "comparisonOutput", comparisonB)
        BY <1>4, <2>2 DEF Shown, Usable, Settled, SameImage
      <3>2. PICK v : Runs(ToReadback("comparisonOutput"), u, v) /\ ReadBack(u, v, "comparisonOutput")
        BY <1>1, <3>1, RunsToReadback DEF Shown, Usable, Settled
      <3>3. PICK w : /\ Runs(ToDrawing("comparisonOutput"), v, w)
                     /\ Usable(w, "comparisonOutput", "Fragment", "ShaderRead", "General")
                     /\ w.holds["comparisonOutput"] = v.holds["comparisonOutput"]
                     /\ SameBut(v, w, {"comparisonOutput"}) /\ SameResults(v, w)
        BY <1>1, <3>2, RunsToDrawing DEF ReadBack
      <3>4. Runs(other, u, w)
        BY <2>2, <3>2, <3>3, RunsBoth
      <3>5. SameBut(u, w, {"comparisonOutput"})
        BY <3>2, <3>3 DEF ReadBack, SameBut, SameImage
      <3>6. Shown(w, "comparisonOutput", comparisonB)
        BY <3>1, <3>2, <3>3 DEF ReadBack, Shown
      <3>7. w.captured = Views
        <4>1. w.captured = Append(<<Upscaled(ModeA)>>, Upscaled(comparisonB))
          BY <1>3, <3>1, <3>2, <3>3 DEF ReadBack, SameResults, Shown
        <4>. QED BY <2>2, <4>1, AppendTwo DEF Views, ModeA
      <3>8. w.ticks = u.ticks /\ w.shown = u.shown
        BY <3>2, <3>3 DEF ReadBack, SameResults
      <3>9. \E b \in Seq({"Readback"}) : w.work = s.work \o b
        <4>1. <<"Readback", "Readback">> \in Seq({"Readback"})
          BY NamePair
        <4>2. w.work = Append(Append(s.work, "Readback"), "Readback")
          BY <1>2, <3>2, <3>3 DEF ReadBack, SameResults
        <4>. QED BY <1>1, <4>1, <4>2, OneBehind
      <3>. QED BY <2>2, <3>4, <3>5, <3>6, <3>7, <3>8, <3>9
    <2>. QED BY <2>1, <2>2
  <1>6. PICK t : /\ Runs(ToDrawing("output"), w, t)
                 /\ Usable(t, "output", "Fragment", "ShaderRead", "General")
                 /\ t.holds["output"] = w.holds["output"]
                 /\ SameBut(w, t, {"output"}) /\ SameResults(w, t)
    <2>1. SameImage(u, w, "output")
      BY <1>1, <1>5 DEF SameBut
    <2>2. Settled(w, "output", "TransferSrc", {"Transfer"})
      BY <1>2, <2>1 DEF ReadBack, Settled, SameImage
    <2>. QED BY <1>1, <2>2, RunsToDrawing
  <1>7. Runs(Capture, s, t)
    <2>1. Runs(ToReadback("output") \o other, s, w)
      BY <1>2, <1>5, RunsBoth
    <2>. QED BY <1>6, <2>1, RunsBoth DEF Capture
  <1>. HIDE DEF other
  <1>8. Shown(t, "output", ModeA)
    <2>1. SameImage(u, w, "output")
      BY <1>1, <1>5 DEF SameBut
    <2>. QED BY <1>2, <1>6, <2>1 DEF ReadBack, Shown, SameImage
  <1>9. SameImage(w, t, "comparisonOutput")
    BY <1>1, <1>6 DEF SameBut
  <1>10. /\ comparisonEnabled => Shown(t, "comparisonOutput", comparisonB)
         /\ ~comparisonEnabled => SameImage(s, t, "comparisonOutput")
    BY <1>4, <1>5, <1>9 DEF Shown, Usable, Settled, SameImage
  <1>11. SameBut(s, t, {"output", "comparisonOutput"})
    BY <1>2, <1>5, <1>6 DEF ReadBack, SameBut, SameImage
  <1>12. t.captured = Views /\ t.ticks = s.ticks /\ t.shown = s.shown
    BY <1>2, <1>5, <1>6 DEF ReadBack, SameResults
  <1>13. \E b \in Seq({"Readback"}) : t.work = s.work \o b
    BY <1>5, <1>6 DEF SameResults
  <1>. QED BY <1>7, <1>8, <1>10, <1>11, <1>12, <1>13 DEF CaptureDone

-------------------------------------------------------------------------------
(* A whole frame. *)

(* The images as one frame leaves them to the next one. *)
RestedAs(s, known, planar, nv12) ==
  /\ IF interop THEN s.dirty["external"] = {}
     ELSE Plane(s, "y", known) /\ Plane(s, "uv", nv12) /\ Plane(s, "u", planar) /\ Plane(s, "v", planar)
  /\ IF known THEN Settled(s, "working", "General", {"Compute"}) ELSE Fresh(s, "working")
  /\ \A i \in Targets : IF known THEN s.layout[i] = "General" /\ s.dirty[i] = {} ELSE Fresh(s, i)

Rested(s) == RestedAs(s, initialized, planarInitialized, nv12Initialized)

(* A texture of D3D11's is taken over with the picture in it. *)
HandedOver(s) ==
  /\ s.layout["external"] = "External" /\ s.users["external"] = {}
  /\ s.holds["external"] = <<"Picture">>

(* Nothing is done of this frame yet. *)
Untimed(s) ==
  s.work = <<>> /\ s.shown = <<>> /\ s.captured = <<>> /\ \A q \in Slot : s.ticks[q] = None

FlagsOK == initialized \in BOOLEAN /\ planarInitialized \in BOOLEAN /\ nv12Initialized \in BOOLEAN

Input == IF External THEN AcquireExternal ELSE Upload

InputDone(s, t) ==
  /\ WorkingMade(t) /\ InputLeft(t)
  /\ SameBut(s, t, ColorInputs \union {"working"})
  /\ \E a \in Seq({"Copy"}) :
       /\ t.work = Append(a, "Color")
       /\ t.ticks[0] = 0 /\ t.ticks[1] = Len(a) /\ t.ticks[2] = Len(a) + 1
  /\ \A q \in Slot : q > 2 => t.ticks[q] = None
  /\ t.shown = <<>> /\ t.captured = <<>>

LEMMA RunsInput ==
  ASSUME NEW s, FlagsOK, interop \in BOOLEAN, interop <=> External,
         Rested(s), interop => HandedOver(s), Untimed(s)
  PROVE  \E t : Runs(Stamp(0) \o Input \o Stamp(1) \o Color, s, t) /\ InputDone(s, t)
  <1>1. PICK u : Runs(Stamp(0), s, u) /\ Stamped(s, u, 0)
    <2>1. 0 \in Slot /\ s.ticks[0] = None
      BY DEF Slot, Untimed
    <2>. QED BY <2>1, RunsStamp
  <1>2. /\ \A i \in Image : SameImage(s, u, i)
        /\ u.work = <<>> /\ u.shown = <<>> /\ u.captured = <<>>
        /\ u.ticks[0] = 0 /\ \A q \in Slot : q > 0 => u.ticks[q] = None
    BY <1>1 DEF Stamped, SameBut, Untimed, TicksBut
  <1>3. PICK v : Runs(Input, u, v) /\ InputTaken(u, v)
    <2>1. CASE External
      <3>1. "external" \in Image
        BY DEF Image
      <3>2. /\ Fresh(u, "external") /\ u.layout["external"] = "External"
            /\ u.holds["external"] = <<"Picture">>
        BY <1>2, <2>1, <3>1 DEF Rested, RestedAs, HandedOver, Fresh, SameImage
      <3>. QED BY <1>2, <2>1, <3>2, RunsAcquire DEF Input
    <2>2. CASE ~External
      <3>1. "y" \in Image /\ "uv" \in Image /\ "u" \in Image /\ "v" \in Image
        BY DEF Image, Planes
      <3>2. /\ Plane(s, "y", initialized) /\ Plane(s, "uv", nv12Initialized)
            /\ Plane(s, "u", planarInitialized) /\ Plane(s, "v", planarInitialized)
        BY <2>2 DEF Rested, RestedAs
      <3>3. ASSUME NEW i \in Image, NEW known, Plane(s, i, known) PROVE Plane(u, i, known)
        BY <1>2, <3>3 DEF Plane, Settled, Fresh, SameImage
      <3>4. /\ Plane(u, "y", initialized) /\ Plane(u, "uv", nv12Initialized)
            /\ Plane(u, "u", planarInitialized) /\ Plane(u, "v", planarInitialized)
        BY <3>1, <3>2, <3>3
      <3>. QED BY <1>2, <2>2, <3>4, RunsUpload DEF Input, FlagsOK
    <2>. QED BY <2>1, <2>2
  <1>4. PICK w : Runs(Stamp(1), v, w) /\ Stamped(v, w, 1)
    <2>1. 1 \in Slot /\ v.ticks[1] = None
      BY <1>2, <1>3 DEF Slot, InputTaken, SameTimes
    <2>. QED BY <2>1, RunsStamp
  <1>5. /\ \A i \in Image : SameImage(v, w, i)
        /\ w.work = v.work /\ v.work \in Seq({"Copy"})
        /\ w.ticks[0] = 0 /\ w.ticks[1] = Len(v.work) /\ \A q \in Slot : q > 1 => w.ticks[q] = None
        /\ w.shown = <<>> /\ w.captured = <<>>
    <2>1. 0 \in Slot \ {1}
      BY DEF Slot
    <2>2. \A q \in Slot : q > 1 => q \in Slot \ {1} /\ q > 0
      BY DEF Slot
    <2>. QED BY <1>2, <1>3, <1>4, <2>1, <2>2 DEF Stamped, SameBut, TicksBut, InputTaken, SameTimes
  <1>6. PICK t : Runs(Color, w, t) /\ Colored(w, t)
    <2>1. SameImage(s, w, "working")
      BY <1>2, <1>3, <1>5, ColorInputImages DEF InputTaken, SameBut, SameImage
    <2>2. WorkingReady(w)
      BY <2>1 DEF Rested, RestedAs, WorkingReady, Settled, Fresh, SameImage
    <2>3. \A i \in ColorInputs : Uploaded(w, i)
      BY <1>3, <1>5, ColorInputImages DEF InputTaken, Uploaded, Usable, Settled, SameImage
    <2>4. 2 \in Slot /\ w.ticks[2] = None
      BY <1>5 DEF Slot
    <2>5. w.work \in Seq(Name)
      <3>1. {"Copy"} \subseteq Name
        BY DEF Name
      <3>. QED BY <1>5, <3>1, SeqMonotonic
    <2>6. initialized \in BOOLEAN
      BY DEF FlagsOK
    <2>. QED BY <2>2, <2>3, <2>4, <2>5, <2>6, RunsColor
  <1>7. Runs(Stamp(0) \o Input \o Stamp(1) \o Color, s, t)
    <2>1. Runs(Stamp(0) \o Input, s, v)
      BY <1>1, <1>3, RunsBoth
    <2>2. Runs(Stamp(0) \o Input \o Stamp(1), s, w)
      BY <1>4, <2>1, RunsBoth
    <2>. QED BY <1>6, <2>2, RunsBoth
  <1>8. SameBut(s, t, ColorInputs \union {"working"})
    BY <1>2, <1>3, <1>5, <1>6 DEF InputTaken, Colored, SameBut, SameImage
  <1>9. /\ t.work = Append(v.work, "Color") /\ t.ticks[2] = Len(v.work) + 1
        /\ t.ticks[0] = 0 /\ t.ticks[1] = Len(v.work)
        /\ \A q \in Slot : q > 2 => t.ticks[q] = None
    <2>1. 0 \in Slot \ {2} /\ 1 \in Slot \ {2}
      BY DEF Slot
    <2>2. \A q \in Slot : q > 2 => q \in Slot \ {2} /\ q > 1
      BY DEF Slot
    <2>. QED BY <1>5, <1>6, <2>1, <2>2 DEF Colored, TicksBut
  <1>10. WorkingMade(t) /\ InputLeft(t) /\ t.shown = <<>> /\ t.captured = <<>>
    BY <1>5, <1>6 DEF Colored
  <1>11. InputDone(s, t)
    BY <1>5, <1>8, <1>9, <1>10 DEF InputDone
  <1>. QED BY <1>7, <1>11

(* The times of the passes: behind a number of copies, the colour          *)
(* conversion, the passes in their order, and maybe copies to read back.   *)
Measured(t) ==
  \E a \in Seq({"Copy"}), b \in Seq({"Readback"}) :
    /\ t.work = (Append(a, "Color") \o Stages) \o b
    /\ t.ticks[0] = 0 /\ t.ticks[1] = Len(a) /\ t.ticks[2] = Len(a) + 1
    /\ \A k \in 1 .. Len(Stages) : t.ticks[2 + k] = Len(a) + 1 + k
    /\ \A q \in 3 + Len(Stages) .. 6 : t.ticks[q] = Len(a) + 1 + Len(Stages)

(* Everything is ready to be drawn. *)
Processed(t) ==
  /\ Shown(t, "output", ModeA)
  /\ comparisonEnabled => Shown(t, "comparisonOutput", comparisonB)
  /\ t.captured \in {<<>>, Views}
  /\ Measured(t) /\ t.ticks[7] = None /\ t.ticks[8] = None

LEMMA RunsProcessing ==
  ASSUME NEW s, SettingsOK, FlagsOK, interop \in BOOLEAN, interop <=> External,
         screenshotRequest \in BOOLEAN,
         Rested(s), interop => HandedOver(s), Untimed(s)
  PROVE  \E t : /\ Runs(Processing, s, t) /\ Processed(t)
                /\ RestedAs(t, TRUE, planarInitialized \/ ~Nv12, nv12Initialized \/ Nv12)
  <1>. DEFINE other == IF comparisonEnabled THEN Compare ELSE <<>>
              capture == IF screenshotRequest THEN Capture ELSE <<>>
              n == Len(Stages)
  <1>1. /\ Targets \subseteq Image /\ "working" \in Image
        /\ (ColorInputs \union {"working"}) \intersect Targets = {} /\ "working" \notin Targets
    BY DEF Targets, Image, ColorInputs
  <1>2. Stages \in Seq(Name) /\ n \in 1 .. 4
    BY StagesList
  <1>3. PICK u : Runs(Stamp(0) \o Input \o Stamp(1) \o Color, s, u) /\ InputDone(s, u)
    BY RunsInput
  <1>4. PICK a \in Seq({"Copy"}) : /\ u.work = Append(a, "Color")
                                   /\ u.ticks[0] = 0 /\ u.ticks[1] = Len(a) /\ u.ticks[2] = Len(a) + 1
    BY <1>3 DEF InputDone
  <1>5. u.work \in Seq(Name) /\ Len(u.work) = Len(a) + 1 /\ Len(a) \in Nat
    <2>1. {"Copy"} \subseteq Name /\ "Color" \in Name
      BY DEF Name
    <2>2. a \in Seq(Name)
      BY <2>1, SeqMonotonic
    <2>. QED BY <1>4, <2>1, <2>2, OneBehind
  <1>6. PICK v : /\ Runs(ClearTargets, u, v)
                 /\ \A i \in Targets : Usable(v, i, "Compute", "ShaderWrite", "General")
                 /\ SameBut(u, v, Targets) /\ SameResults(u, v)
    <2>1. \A i \in Targets : SameImage(s, u, i)
      BY <1>1, <1>3 DEF InputDone, SameBut
    <2>2. \A i \in Targets : TargetReady(u, i)
      BY <1>1, <2>1 DEF Rested, RestedAs, TargetReady, Fresh, SameImage
    <2>3. initialized \in BOOLEAN
      BY DEF FlagsOK
    <2>4. PICK v : Runs(ClearTargets, u, v) /\ TargetsCleared(u, v)
      BY <2>2, <2>3, RunsClearTargets
    <2>. QED BY <2>4 DEF TargetsCleared
  <1>7. PICK w, r : Runs(Upscale, v, r) /\ Runs(other, r, w) /\ ModesDone(v, w)
    <2>1. SameImage(u, v, "working")
      BY <1>1, <1>6 DEF SameBut
    <2>2. WorkingMade(v)
      BY <1>3, <2>1 DEF InputDone, WorkingMade, Usable, Settled, SameImage
    <2>3. v.work \in Seq(Name) /\ \A q \in Slot : q > 2 => v.ticks[q] = None
      BY <1>3, <1>5, <1>6 DEF InputDone, SameResults
    <2>. QED BY <1>6, <2>2, <2>3, RunsModes
  <1>8. /\ w.work = u.work \o Stages /\ w.work \in Seq(Name) /\ Len(w.work) = Len(a) + 1 + n
        /\ w.ticks[0] = 0 /\ w.ticks[1] = Len(a) /\ w.ticks[2] = Len(a) + 1
        /\ \A k \in 1 .. n : w.ticks[2 + k] = Len(a) + 1 + k
        /\ \A q \in Slot : q > 2 + n => w.ticks[q] = None
        /\ w.shown = <<>> /\ w.captured = <<>>
    <2>1. Timed(v, w, Stages, 0) /\ v.work = u.work /\ v.ticks = u.ticks
      BY <1>6, <1>7 DEF ModesDone, SameResults
    <2>2. w.work = u.work \o Stages /\ w.work \in Seq(Name) /\ Len(w.work) = Len(a) + 1 + n
      <3>1. w.work = u.work \o Stages
        BY <2>1 DEF Timed
      <3>. DEFINE done == u.work
      <3>2. done \in Seq(Name) /\ Len(done) = Len(a) + 1
        BY <1>5
      <3>. HIDE DEF done, n
      <3>3. done \o Stages \in Seq(Name) /\ Len(done \o Stages) = Len(done) + Len(Stages)
        BY <1>2, <3>2, ConcatProperties
      <3>. USE DEF done, n
      <3>. QED BY <3>1, <3>2, <3>3
    <2>3. \A k \in 1 .. n : w.ticks[2 + k] = Len(a) + 1 + k
      <3>1. \A k \in 1 .. n : w.ticks[2 + 0 + k] = Len(a) + 1 + k
        BY <1>5, <2>1 DEF Timed
      <3>2. \A k \in 1 .. n : 2 + 0 + k = 2 + k
        BY <1>2
      <3>. QED BY <3>1, <3>2
    <2>4. \A q \in Slot : q <= 2 \/ q > 2 + n => w.ticks[q] = u.ticks[q]
      <3>1. \A q \in Slot : q <= 2 + 0 \/ q > 2 + 0 + n => w.ticks[q] = u.ticks[q]
        BY <2>1 DEF Timed
      <3>. QED BY <1>2, <3>1 DEF Slot
    <2>5. w.ticks[0] = 0 /\ w.ticks[1] = Len(a) /\ w.ticks[2] = Len(a) + 1
      BY <1>4, <2>4 DEF Slot
    <2>6. \A q \in Slot : q > 2 + n => w.ticks[q] = None
      <3>1. \A q \in Slot : q > 2 + n => q > 2
        BY <1>2 DEF Slot
      <3>. QED BY <1>3, <2>4, <3>1 DEF InputDone
    <2>7. w.shown = <<>> /\ w.captured = <<>>
      BY <1>3, <1>6, <2>1 DEF InputDone, SameResults, Timed
    <2>. QED BY <2>2, <2>3, <2>5, <2>6, <2>7
  <1>9. PICK x : Runs(SpareStamps, w, x) /\ Spared(w, x, n)
    BY <1>2, <1>8, RunsSpareStamps
  <1>10. /\ \A i \in Image : SameImage(w, x, i)
         /\ x.work = w.work /\ x.shown = <<>> /\ x.captured = <<>>
         /\ x.ticks[0] = 0 /\ x.ticks[1] = Len(a) /\ x.ticks[2] = Len(a) + 1
         /\ \A k \in 1 .. n : x.ticks[2 + k] = Len(a) + 1 + k
         /\ \A q \in 3 + n .. 6 : x.ticks[q] = Len(a) + 1 + n
         /\ x.ticks[7] = None /\ x.ticks[8] = None
    <2>1. \A q \in Slot : q \notin 3 + n .. 6 => x.ticks[q] = w.ticks[q]
      BY <1>9 DEF Spared
    <2>2. /\ \A q \in {0, 1, 2, 7, 8} : q \in Slot /\ q \notin 3 + n .. 6
          /\ \A k \in 1 .. n : 2 + k \in Slot /\ 2 + k \notin 3 + n .. 6
          /\ \A q \in 3 + n .. 6 : q \in Slot
          /\ \A q \in {7, 8} : q > 2 + n
      <3>. HIDE DEF n
      <3>1. \A q \in {0, 1, 2, 7, 8} : q \in Slot /\ q \notin 3 + n .. 6
        BY <1>2 DEF Slot
      <3>2. \A k \in 1 .. n : 2 + k \in Slot /\ 2 + k \notin 3 + n .. 6
        BY <1>2 DEF Slot
      <3>3. \A q \in 3 + n .. 6 : q \in Slot
        BY <1>2 DEF Slot
      <3>4. \A q \in {7, 8} : q > 2 + n
        BY <1>2
      <3>. QED BY <3>1, <3>2, <3>3, <3>4
    <2>3. x.ticks[0] = 0 /\ x.ticks[1] = Len(a) /\ x.ticks[2] = Len(a) + 1
      BY <1>8, <2>1, <2>2
    <2>4. \A k \in 1 .. n : x.ticks[2 + k] = Len(a) + 1 + k
      BY <1>8, <2>1, <2>2
    <2>5. \A q \in 3 + n .. 6 : x.ticks[q] = Len(a) + 1 + n
      BY <1>8, <1>9, <2>2 DEF Spared
    <2>6. x.ticks[7] = None /\ x.ticks[8] = None
      BY <1>8, <2>1, <2>2
    <2>7. \A i \in Image : SameImage(w, x, i)
      BY <1>9 DEF Spared, SameBut
    <2>. QED BY <1>8, <1>9, <2>3, <2>4, <2>5, <2>6, <2>7 DEF Spared
  <1>11. /\ Shown(x, "output", ModeA)
         /\ comparisonEnabled => Shown(x, "comparisonOutput", comparisonB)
    <2>1. "output" \in Image /\ "comparisonOutput" \in Image
      BY DEF Image
    <2>. QED BY <1>7, <1>10, <2>1 DEF ModesDone, Shown, Usable, Settled, SameImage
  <1>12. PICK t : /\ Runs(capture, x, t)
                  /\ Shown(t, "output", ModeA)
                  /\ comparisonEnabled => Shown(t, "comparisonOutput", comparisonB)
                  /\ ~comparisonEnabled => SameImage(x, t, "comparisonOutput")
                  /\ SameBut(x, t, {"output", "comparisonOutput"})
                  /\ t.captured \in {<<>>, Views} /\ t.ticks = x.ticks /\ t.shown = x.shown
                  /\ \E b \in Seq({"Readback"}) : t.work = x.work \o b
    <2>1. CASE screenshotRequest
      <3>1. x.work \in Seq(Name)
        BY <1>8, <1>10
      <3>2. PICK t : Runs(Capture, x, t) /\ CaptureDone(x, t)
        BY <1>10, <1>11, <3>1, RunsCapture
      <3>. QED BY <2>1, <3>2 DEF CaptureDone
    <2>2. CASE ~screenshotRequest
      <3>1. Runs(capture, x, x)
        BY <2>2, RunsNothing
      <3>2. \E b \in Seq({"Readback"}) : x.work = x.work \o b
        <4>1. <<>> \in Seq({"Readback"}) /\ x.work \o <<>> = x.work
          BY <1>8, <1>10, ConcatEmptySeq
        <4>. QED BY <4>1
      <3>. QED BY <1>10, <1>11, <3>1, <3>2 DEF SameBut, SameImage
    <2>. QED BY <2>1, <2>2
  <1>13. Runs(Processing, s, t)
    <2>. DEFINE first == Stamp(0) \o Input \o Stamp(1) \o Color
    <2>1. Runs(first \o ClearTargets, s, v)
      BY <1>3, <1>6, RunsBoth
    <2>2. Runs(first \o ClearTargets \o Upscale, s, r)
      BY <1>7, <2>1, RunsBoth
    <2>3. Runs(first \o ClearTargets \o Upscale \o other, s, w)
      BY <1>7, <2>2, RunsBoth
    <2>4. Runs(first \o ClearTargets \o Upscale \o other \o SpareStamps, s, x)
      BY <1>9, <2>3, RunsBoth
    <2>5. Runs(first \o ClearTargets \o Upscale \o other \o SpareStamps \o capture, s, t)
      BY <1>12, <2>4, RunsBoth
    <2>. QED BY <2>5 DEF Processing, Input
  <1>14. Measured(t)
    <2>1. PICK b \in Seq({"Readback"}) : t.work = x.work \o b
      BY <1>12
    <2>2. t.work = (Append(a, "Color") \o Stages) \o b
      BY <1>4, <1>8, <1>10, <2>1
    <2>. QED BY <1>10, <1>12, <2>2 DEF Measured
  <1>15. Processed(t)
    BY <1>10, <1>12, <1>14 DEF Processed
  <1>. HIDE DEF other, capture, n
  <1>16. \A i \in Image \ Targets : i # "working" => SameImage(u, t, i)
    <2>1. {"output", "comparisonOutput"} \subseteq Targets
      BY DEF Targets
    <2>2. /\ SameBut(u, v, Targets) /\ SameBut(v, w, {"working"} \union Targets)
          /\ SameBut(x, t, {"output", "comparisonOutput"})
      BY <1>6, <1>7, <1>12 DEF ModesDone
    <2>. QED BY <1>10, <2>1, <2>2 DEF SameBut, SameImage
  <1>17. Settled(t, "working", "General", {"Compute"})
    <2>1. SameImage(w, x, "working") /\ SameImage(x, t, "working")
      BY <1>1, <1>10, <1>12 DEF SameBut
    <2>. QED BY <1>7, <2>1 DEF ModesDone, WorkingMade, Usable, Settled, SameImage
  <1>18. \A i \in Targets : t.layout[i] = "General" /\ t.dirty[i] = {}
    <2>1. t.layout["output"] = "General" /\ t.dirty["output"] = {}
      BY <1>12 DEF Shown, Usable, Settled
    <2>2. t.layout["intermediate"] = "General" /\ t.dirty["intermediate"] = {}
      <3>1. "intermediate" \in Image \ {"output", "comparisonOutput"}
        BY DEF Image
      <3>2. SameImage(w, x, "intermediate") /\ SameImage(x, t, "intermediate")
        BY <1>10, <1>12, <3>1 DEF SameBut
      <3>. QED BY <1>7, <3>2 DEF ModesDone, Settled, SameImage
    <2>3. t.layout["comparisonOutput"] = "General" /\ t.dirty["comparisonOutput"] = {}
      <3>1. CASE comparisonEnabled
        BY <1>12, <3>1 DEF Shown, Usable, Settled
      <3>2. CASE ~comparisonEnabled
        <4>1. "comparisonOutput" \in Image /\ "comparisonOutput" \in Targets
          BY DEF Image, Targets
        <4>2. SameImage(v, w, "comparisonOutput") /\ SameImage(w, x, "comparisonOutput")
              /\ SameImage(x, t, "comparisonOutput")
          BY <1>7, <1>10, <1>12, <3>2, <4>1 DEF ModesDone
        <4>. QED BY <1>6, <4>1, <4>2 DEF Usable, Settled, SameImage
      <3>. QED BY <3>1, <3>2
    <2>. QED BY <2>1, <2>2, <2>3 DEF Targets
  <1>19. RestedAs(t, TRUE, planarInitialized \/ ~Nv12, nv12Initialized \/ Nv12)
    <2>1. CASE External
      <3>1. SameImage(u, t, "external")
        <4>1. "external" \in Image \ Targets /\ "external" # "working"
          BY DEF Image, Targets
        <4>. QED BY <1>16, <4>1
      <3>2. t.dirty["external"] = {}
        BY <1>3, <2>1, <3>1 DEF InputDone, InputLeft, SameImage
      <3>. QED BY <1>17, <1>18, <2>1, <3>2 DEF RestedAs
    <2>2. CASE ~External
      <3>1. /\ Planes \subseteq Image \ Targets /\ "working" \notin Planes
            /\ "y" \in Planes /\ "uv" \in Planes /\ "u" \in Planes /\ "v" \in Planes
        BY DEF Planes, Image, Targets
      <3>2. \A i \in Planes : SameImage(u, t, i)
        BY <1>16, <3>1
      <3>3. \A i \in ColorInputs : Settled(u, i, "ShaderReadOnly", {"Compute"})
        BY <1>3, <2>2 DEF InputDone, InputLeft
      <3>4. \A i \in Planes \ ColorInputs : SameImage(s, u, i)
        BY <1>3, <3>1 DEF InputDone, SameBut
      <3>5. /\ Plane(s, "uv", nv12Initialized) /\ Plane(s, "u", planarInitialized)
            /\ Plane(s, "v", planarInitialized)
        BY <2>2 DEF Rested, RestedAs
      <3>6. \A i \in ColorInputs \intersect Planes : \A known : known => Plane(t, i, known)
        BY <3>2, <3>3 DEF Plane, Settled, SameImage
      <3>7. \A i \in Planes \ ColorInputs : \A known : Plane(s, i, known) => Plane(t, i, known)
        BY <3>2, <3>4 DEF Plane, Settled, Fresh, SameImage
      <3>8. CASE Nv12
        <4>1. /\ "y" \in ColorInputs /\ "uv" \in ColorInputs
              /\ "u" \notin ColorInputs /\ "v" \notin ColorInputs
          BY <2>2, <3>8 DEF ColorInputs
        <4>2. /\ (planarInitialized \/ ~Nv12) = planarInitialized
              /\ (nv12Initialized \/ Nv12) = TRUE
          BY <3>8 DEF FlagsOK
        <4>3. Plane(t, "y", TRUE) /\ Plane(t, "uv", TRUE)
          BY <3>1, <3>6, <4>1
        <4>4. Plane(t, "u", planarInitialized) /\ Plane(t, "v", planarInitialized)
          BY <3>1, <3>5, <3>7, <4>1
        <4>. QED BY <1>17, <1>18, <2>2, <4>2, <4>3, <4>4 DEF RestedAs
      <3>9. CASE ~Nv12
        <4>1. /\ "y" \in ColorInputs /\ "uv" \notin ColorInputs
              /\ "u" \in ColorInputs /\ "v" \in ColorInputs
          BY <2>2, <3>9 DEF ColorInputs
        <4>2. /\ (planarInitialized \/ ~Nv12) = TRUE
              /\ (nv12Initialized \/ Nv12) = nv12Initialized
          BY <3>9 DEF FlagsOK
        <4>3. Plane(t, "y", TRUE) /\ Plane(t, "u", TRUE) /\ Plane(t, "v", TRUE)
          BY <3>1, <3>6, <4>1
        <4>4. Plane(t, "uv", nv12Initialized)
          BY <3>1, <3>5, <3>7, <4>1
        <4>. QED BY <1>17, <1>18, <2>2, <4>2, <4>3, <4>4 DEF RestedAs
      <3>. QED BY <3>8, <3>9
    <2>. QED BY <2>1, <2>2
  <1>. QED BY <1>13, <1>15, <1>19

(* The drawing, of one image or of two. *)
Images == IF comparisonEnabled THEN <<"output", "comparisonOutput">> ELSE <<"output">>

Finished(t) ==
  /\ t.shown = Views /\ t.captured \in {<<>>, Views}
  /\ \E r : /\ Measured(r) /\ t.work = Append(r.work, "Draw")
            /\ \A q \in 0 .. 6 : t.ticks[q] = r.ticks[q]
  /\ t.ticks[7] = Len(t.work) /\ t.ticks[8] = Len(t.work)

(* The values of a function at the elements of a list. *)
LEMMA Mapped ==
  ASSUME NEW i, NEW j, NEW f
  PROVE  /\ [k \in DOMAIN <<i>> |-> f[<<i>>[k]]] = <<f[i]>>
         /\ [k \in DOMAIN <<i, j>> |-> f[<<i, j>>[k]]] = <<f[i], f[j]>>
  <1>. DEFINE S == {f[i], f[j]}
              one == <<i>>
              two == <<i, j>>
              first == <<f[i]>>
              both == <<f[i], f[j]>>
  <1>1. /\ DOMAIN one = 1 .. 1 /\ one[1] = i
        /\ DOMAIN two = 1 .. 2 /\ two[1] = i /\ two[2] = j
    OBVIOUS
  <1>2. /\ first \in Seq(S) /\ Len(first) = 1 /\ first[1] = f[i]
        /\ both \in Seq(S) /\ Len(both) = 2 /\ both[1] = f[i] /\ both[2] = f[j]
        /\ f[i] \in S /\ f[j] \in S
    OBVIOUS
  <1>. HIDE DEF S, one, two, first, both
  <1>3. [k \in DOMAIN one |-> f[one[k]]] = first
    <2>1. [k \in 1 .. 1 |-> f[one[k]]] \in Seq(S) /\ Len([k \in 1 .. 1 |-> f[one[k]]]) = 1
      <3>1. \A k \in 1 .. 1 : f[one[k]] \in S
        BY <1>1, <1>2
      <3>2. 1 \in Nat
        OBVIOUS
      <3>. QED BY <3>1, <3>2, IsASeq
    <2>2. \A k \in 1 .. 1 : [l \in 1 .. 1 |-> f[one[l]]][k] = first[k]
      BY <1>1, <1>2
    <2>. QED BY <1>1, <1>2, <2>1, <2>2, SeqEqual
  <1>4. [k \in DOMAIN two |-> f[two[k]]] = both
    <2>1. [k \in 1 .. 2 |-> f[two[k]]] \in Seq(S) /\ Len([k \in 1 .. 2 |-> f[two[k]]]) = 2
      <3>1. \A k \in 1 .. 2 : f[two[k]] \in S
        BY <1>1, <1>2
      <3>2. 2 \in Nat
        OBVIOUS
      <3>. QED BY <3>1, <3>2, IsASeq
    <2>2. \A k \in 1 .. 2 : [l \in 1 .. 2 |-> f[two[l]]][k] = both[k]
      BY <1>1, <1>2
    <2>. QED BY <1>1, <1>2, <2>1, <2>2, SeqEqual
  <1>. QED BY <1>3, <1>4 DEF one, two, first, both

LEMMA RunsPresent ==
  ASSUME NEW list, NEW m, NEW s, Runs(list, m, s), SettingsOK, initialized = TRUE,
         Processed(s), Rested(s)
  PROVE  \E t : /\ Runs(list \o Draw(Images) \o Stamp(7) \o Stamp(8), m, t)
                /\ Finished(t) /\ Rested(t)
  <1>1. "output" \in Image /\ "comparisonOutput" \in Image
    BY DEF Image
  <1>2. Images \in Seq(Image) /\ \A k \in DOMAIN Images : Usable(s, Images[k], "Fragment", "ShaderRead", "General")
    <2>1. CASE comparisonEnabled
      <3>. DEFINE i == "output"
                  j == "comparisonOutput"
                  both == <<i, j>>
      <3>1. i \in Image /\ j \in Image
        BY <1>1
      <3>2. Usable(s, i, "Fragment", "ShaderRead", "General") /\ Usable(s, j, "Fragment", "ShaderRead", "General")
        BY <2>1 DEF Processed, Shown
      <3>. HIDE DEF i, j
      <3>3. both \in Seq(Image) /\ DOMAIN both = 1 .. 2 /\ both[1] = i /\ both[2] = j
        BY <3>1
      <3>. HIDE DEF both
      <3>4. \A k \in DOMAIN both : Usable(s, both[k], "Fragment", "ShaderRead", "General")
        <4>1. \A k \in 1 .. 2 : k = 1 \/ k = 2
          OBVIOUS
        <4>. QED BY <3>2, <3>3, <4>1
      <3>5. Images = both
        BY <2>1 DEF Images, both, i, j
      <3>. QED BY <3>3, <3>4, <3>5
    <2>2. CASE ~comparisonEnabled
      <3>. DEFINE i == "output"
                  one == <<i>>
      <3>1. i \in Image /\ Usable(s, i, "Fragment", "ShaderRead", "General")
        BY <1>1 DEF Processed, Shown
      <3>. HIDE DEF i
      <3>2. one \in Seq(Image) /\ DOMAIN one = 1 .. 1 /\ one[1] = i
        BY <3>1
      <3>. HIDE DEF one
      <3>3. \A k \in DOMAIN one : Usable(s, one[k], "Fragment", "ShaderRead", "General")
        BY <3>1, <3>2
      <3>4. Images = one
        BY <2>2 DEF Images, one, i
      <3>. QED BY <3>2, <3>3, <3>4
    <2>. QED BY <2>1, <2>2
  <1>3. PICK u : Runs(Draw(Images), s, u) /\ Drawn(s, u, Images)
    BY <1>2, RunsDraw
  <1>4. u.shown = Views
    <2>1. u.shown = [k \in DOMAIN Images |-> s.holds[Images[k]]]
      BY <1>3 DEF Drawn
    <2>. DEFINE f == s.holds
    <2>2. CASE comparisonEnabled
      <3>1. f["output"] = Upscaled(comparisonA) /\ f["comparisonOutput"] = Upscaled(comparisonB)
        BY <2>2 DEF Processed, Shown, ModeA
      <3>2. Images = <<"output", "comparisonOutput">> /\ Views = <<Upscaled(comparisonA), Upscaled(comparisonB)>>
        BY <2>2 DEF Images, Views
      <3>. HIDE DEF f
      <3>3. [k \in DOMAIN Images |-> f[Images[k]]] = <<f["output"], f["comparisonOutput"]>>
        BY <3>2, Mapped
      <3>. USE DEF f
      <3>. QED BY <2>1, <3>1, <3>2, <3>3
    <2>3. CASE ~comparisonEnabled
      <3>1. f["output"] = Upscaled(mode)
        BY <2>3 DEF Processed, Shown, ModeA
      <3>2. Images = <<"output">> /\ Views = <<Upscaled(mode)>>
        BY <2>3 DEF Images, Views
      <3>. HIDE DEF f
      <3>3. [k \in DOMAIN Images |-> f[Images[k]]] = <<f["output"]>>
        BY <3>2, Mapped
      <3>. USE DEF f
      <3>. QED BY <2>1, <3>1, <3>2, <3>3
    <2>. QED BY <2>2, <2>3
  <1>5. PICK v : Runs(Stamp(7), u, v) /\ Stamped(u, v, 7)
    <2>1. 7 \in Slot /\ u.ticks[7] = None
      BY <1>3 DEF Slot, Drawn, Processed
    <2>. QED BY <2>1, RunsStamp
  <1>6. PICK t : Runs(Stamp(8), v, t) /\ Stamped(v, t, 8)
    <2>1. 8 \in Slot /\ 8 \in Slot \ {7} /\ v.ticks[8] = None
      BY <1>3, <1>5 DEF Slot, Drawn, Processed, Stamped, TicksBut
    <2>. QED BY <2>1, RunsStamp
  <1>7. Runs(list \o Draw(Images) \o Stamp(7) \o Stamp(8), m, t)
    <2>1. Runs(list \o Draw(Images), m, u)
      BY <1>3, RunsBoth
    <2>2. Runs(list \o Draw(Images) \o Stamp(7), m, v)
      BY <1>5, <2>1, RunsBoth
    <2>. QED BY <1>6, <2>2, RunsBoth
  <1>8. /\ t.work = Append(s.work, "Draw") /\ t.shown = Views /\ t.captured = s.captured
        /\ u.work = t.work /\ v.work = t.work
    BY <1>3, <1>4, <1>5, <1>6 DEF Drawn, Stamped
  <1>9. /\ \A q \in 0 .. 6 : t.ticks[q] = s.ticks[q]
        /\ t.ticks[7] = Len(t.work) /\ t.ticks[8] = Len(t.work)
    <2>1. /\ \A q \in 0 .. 6 : q \in Slot \ {7} /\ q \in Slot \ {8}
          /\ 7 \in Slot \ {8}
      BY DEF Slot
    <2>. QED BY <1>3, <1>5, <1>6, <1>8, <2>1 DEF Drawn, Stamped, TicksBut
  <1>10. Finished(t)
    BY <1>8, <1>9 DEF Processed, Finished
  <1>11. Rested(t)
    <2>1. \A i \in Image : SameImage(u, t, i)
      BY <1>5, <1>6 DEF Stamped, SameBut, SameImage
    <2>2. \A i \in Image : t.layout[i] = s.layout[i] /\ t.dirty[i] = s.dirty[i]
      BY <1>3, <2>1 DEF Drawn, SameImage
    <2>3. \A i \in Image \ Targets : SameImage(s, t, i)
      <3>1. ToSet(Images) \subseteq Targets
        <4>1. \A k \in DOMAIN Images : Images[k] \in {"output", "comparisonOutput"}
          <5>1. CASE comparisonEnabled
            <6>1. Images = <<"output", "comparisonOutput">>
              BY <5>1 DEF Images
            <6>2. \A k \in DOMAIN Images : k = 1 \/ k = 2
              BY <6>1
            <6>. QED BY <6>1, <6>2
          <5>2. CASE ~comparisonEnabled
            <6>1. Images = <<"output">>
              BY <5>2 DEF Images
            <6>2. \A k \in DOMAIN Images : k = 1
              BY <6>1
            <6>. QED BY <6>1, <6>2
          <5>. QED BY <5>1, <5>2
        <4>. QED BY <4>1 DEF ToSet, Targets
      <3>. QED BY <1>3, <2>1, <3>1 DEF Drawn, SameBut, SameImage
    <2>4. /\ Targets \subseteq Image /\ Planes \subseteq Image \ Targets
          /\ "external" \in Image \ Targets /\ "working" \in Image \ Targets
          /\ "y" \in Planes /\ "uv" \in Planes /\ "u" \in Planes /\ "v" \in Planes
      BY DEF Targets, Planes, Image
    <2>5. ASSUME NEW i \in Planes, NEW known, Plane(s, i, known) PROVE Plane(t, i, known)
      BY <2>3, <2>4, <2>5 DEF Plane, Settled, Fresh, SameImage
    <2>6. IF interop THEN t.dirty["external"] = {}
          ELSE /\ Plane(t, "y", initialized) /\ Plane(t, "uv", nv12Initialized)
               /\ Plane(t, "u", planarInitialized) /\ Plane(t, "v", planarInitialized)
      <3>1. CASE interop
        BY <2>2, <2>4, <3>1 DEF Rested, RestedAs
      <3>2. CASE ~interop
        BY <2>4, <2>5, <3>2 DEF Rested, RestedAs
      <3>. QED BY <3>1, <3>2
    <2>7. Settled(t, "working", "General", {"Compute"})
      BY <2>3, <2>4 DEF Rested, RestedAs, Settled, SameImage
    <2>8. \A i \in Targets : t.layout[i] = "General" /\ t.dirty[i] = {}
      BY <2>2, <2>4 DEF Rested, RestedAs
    <2>. QED BY <2>6, <2>7, <2>8 DEF Rested, RestedAs
  <1>. QED BY <1>7, <1>10, <1>11

(* One element of a list. *)
LEMMA OneOf ==
  ASSUME NEW S, NEW list \in Seq(S), NEW k \in 1 .. Len(list)
  PROVE  SubSeq(list, k, k) = <<list[k]>>
  <1>. DEFINE x == list[k]
              one == <<x>>
  <1>1. x \in S
    OBVIOUS
  <1>2. one \in Seq(S) /\ Len(one) = 1 /\ one[1] = x
    BY <1>1
  <1>3. \A i \in k .. k : list[i] \in S
    BY <1>1
  <1>4. /\ SubSeq(list, k, k) \in Seq(S) /\ Len(SubSeq(list, k, k)) = 1
        /\ SubSeq(list, k, k)[1] = x
    <2>1. /\ SubSeq(list, k, k) \in Seq(S) /\ Len(SubSeq(list, k, k)) = k - k + 1
          /\ \A i \in 1 .. k - k + 1 : SubSeq(list, k, k)[i] = list[k + i - 1]
      BY <1>3, SubSeqProperties
    <2>2. k - k + 1 = 1 /\ 1 \in 1 .. k - k + 1 /\ k + 1 - 1 = k
      OBVIOUS
    <2>. QED BY <2>1, <2>2
  <1>. HIDE DEF one, x
  <1>5. \A i \in 1 .. 1 : SubSeq(list, k, k)[i] = one[i]
    BY <1>2, <1>4
  <1>6. SubSeq(list, k, k) = one
    BY <1>2, <1>4, <1>5, SeqEqual
  <1>. QED BY <1>6 DEF one, x

(* What a list consists of. *)
LEMMA PartOf ==
  ASSUME NEW S, NEW list \in Seq(S), NEW m \in 1 .. Len(list) + 1, NEW n \in 0 .. Len(list)
  PROVE  ToSet(SubSeq(list, m, n)) = {list[k] : k \in m .. n}
  <1>1. \A i \in m .. n : list[i] \in S
    OBVIOUS
  <1>2. /\ SubSeq(list, m, n) \in Seq(S)
        /\ Len(SubSeq(list, m, n)) = IF m <= n THEN n - m + 1 ELSE 0
        /\ \A i \in 1 .. n - m + 1 : SubSeq(list, m, n)[i] = list[m + i - 1]
    BY <1>1, SubSeqProperties
  <1>3. DOMAIN SubSeq(list, m, n) = 1 .. n - m + 1
    <2>1. DOMAIN SubSeq(list, m, n) = 1 .. Len(SubSeq(list, m, n))
      BY <1>2
    <2>. QED BY <1>2, <2>1
  <1>4. ASSUME NEW k \in m .. n PROVE list[k] \in ToSet(SubSeq(list, m, n))
    <2>1. k - m + 1 \in 1 .. n - m + 1 /\ m + (k - m + 1) - 1 = k
      OBVIOUS
    <2>. QED BY <1>2, <1>3, <2>1 DEF ToSet
  <1>5. ASSUME NEW i \in 1 .. n - m + 1 PROVE SubSeq(list, m, n)[i] \in {list[k] : k \in m .. n}
    <2>1. m + i - 1 \in m .. n
      OBVIOUS
    <2>. QED BY <1>2, <2>1
  <1>. QED BY <1>3, <1>4, <1>5 DEF ToSet

LEMMA FinishedTimes ==
  ASSUME SettingsOK, timingStages = Stages, Finished(Machine)
  PROVE  /\ \A q \in Slot : ticks[q] # None
         /\ \A k \in DOMAIN timingStages : Interval(1 + k, 2 + k) = <<timingStages[k]>>
         /\ ToSet(Interval(0, 1)) \subseteq {"Copy"} /\ Interval(1, 2) = <<"Color">>
         /\ "Draw" \in ToSet(Interval(6, 7))
         /\ Interval(0, 8) = work
  <1>. DEFINE n == Len(Stages)
  <1>1. Stages \in Seq(Name) /\ n \in 1 .. 4
    BY StagesList
  <1>2. PICK r : /\ Measured(r) /\ work = Append(r.work, "Draw")
                 /\ \A q \in 0 .. 6 : ticks[q] = r.ticks[q]
    BY DEF Finished, Machine
  <1>3. PICK a \in Seq({"Copy"}), b \in Seq({"Readback"}) :
          /\ r.work = (Append(a, "Color") \o Stages) \o b
          /\ r.ticks[0] = 0 /\ r.ticks[1] = Len(a) /\ r.ticks[2] = Len(a) + 1
          /\ \A k \in 1 .. n : r.ticks[2 + k] = Len(a) + 1 + k
          /\ \A q \in 3 + n .. 6 : r.ticks[q] = Len(a) + 1 + n
    BY <1>2 DEF Measured
  <1>. DEFINE c == Append(a, "Color")
              d == c \o Stages
              e == d \o b
  <1>. HIDE DEF n
  <1>4. /\ {"Copy"} \subseteq Name /\ {"Readback"} \subseteq Name
        /\ "Color" \in Name /\ "Draw" \in Name
    BY DEF Name
  <1>5. a \in Seq(Name) /\ b \in Seq(Name) /\ Len(a) \in Nat /\ Len(b) \in Nat
    BY <1>4, SeqMonotonic
  <1>6. /\ c \in Seq(Name) /\ Len(c) = Len(a) + 1
        /\ \A k \in 1 .. Len(a) : c[k] = a[k]
        /\ c[Len(a) + 1] = "Color"
    BY <1>4, <1>5, AppendProperties
  <1>. HIDE DEF c
  <1>7. /\ d \in Seq(Name) /\ Len(d) = Len(a) + 1 + n
        /\ \A k \in 1 .. Len(a) + 1 : d[k] = c[k]
        /\ \A k \in 1 .. n : d[Len(a) + 1 + k] = Stages[k]
    <2>1. /\ d \in Seq(Name) /\ Len(d) = Len(c) + Len(Stages)
          /\ \A i \in 1 .. Len(c) + Len(Stages) : d[i] = IF i <= Len(c) THEN c[i] ELSE Stages[i - Len(c)]
      BY <1>1, <1>6, ConcatProperties
    <2>2. Len(Stages) = n
      BY DEF n
    <2>3. \A k \in 1 .. Len(a) + 1 : d[k] = c[k]
      BY <1>1, <1>5, <1>6, <2>1, <2>2
    <2>4. \A k \in 1 .. n : d[Len(a) + 1 + k] = Stages[k]
      <3>. TAKE k \in 1 .. n
      <3>1. /\ Len(a) + 1 + k \in 1 .. Len(c) + Len(Stages) /\ ~ (Len(a) + 1 + k <= Len(c))
            /\ Len(a) + 1 + k - Len(c) = k
        BY <1>1, <1>5, <1>6, <2>2
      <3>. QED BY <2>1, <3>1
    <2>. QED BY <1>6, <2>1, <2>2, <2>3, <2>4
  <1>. HIDE DEF d
  <1>8. /\ e \in Seq(Name) /\ Len(e) = Len(a) + 1 + n + Len(b)
        /\ \A k \in 1 .. Len(a) + 1 + n : e[k] = d[k]
    <2>1. /\ e \in Seq(Name) /\ Len(e) = Len(d) + Len(b)
          /\ \A i \in 1 .. Len(d) + Len(b) : e[i] = IF i <= Len(d) THEN d[i] ELSE b[i - Len(d)]
      BY <1>5, <1>7, ConcatProperties
    <2>. QED BY <1>1, <1>5, <1>7, <2>1
  <1>9. work = Append(e, "Draw")
    BY <1>2, <1>3 DEF c, d
  <1>. HIDE DEF e
  <1>10. /\ work \in Seq(Name) /\ Len(work) = Len(a) + 1 + n + Len(b) + 1
         /\ work[Len(work)] = "Draw"
         /\ \A k \in 1 .. Len(a) : work[k] = a[k]
         /\ work[Len(a) + 1] = "Color"
         /\ \A k \in 1 .. n : work[Len(a) + 1 + k] = Stages[k]
    <2>1. /\ work \in Seq(Name) /\ Len(work) = Len(e) + 1
          /\ \A i \in 1 .. Len(e) : work[i] = e[i]
          /\ work[Len(e) + 1] = "Draw"
      BY <1>4, <1>8, <1>9, AppendProperties
    <2>2. \A k \in 1 .. Len(a) + 1 + n : work[k] = d[k]
      BY <1>1, <1>5, <1>8, <2>1
    <2>3. \A k \in 1 .. Len(a) + 1 : work[k] = c[k]
      BY <1>1, <1>5, <1>7, <2>2
    <2>4. \A k \in 1 .. Len(a) : work[k] = a[k]
      BY <1>5, <1>6, <2>3
    <2>5. work[Len(a) + 1] = "Color"
      BY <1>5, <1>6, <2>3
    <2>6. \A k \in 1 .. n : work[Len(a) + 1 + k] = Stages[k]
      BY <1>1, <1>5, <1>7, <2>2
    <2>. QED BY <1>1, <1>5, <1>8, <2>1, <2>4, <2>5, <2>6
  <1>11. /\ ticks[0] = 0 /\ ticks[1] = Len(a) /\ ticks[2] = Len(a) + 1
         /\ \A k \in 1 .. n : ticks[2 + k] = Len(a) + 1 + k
         /\ \A q \in 3 + n .. 6 : ticks[q] = Len(a) + 1 + n
         /\ ticks[7] = Len(work) /\ ticks[8] = Len(work)
    <2>1. ticks[7] = Len(work) /\ ticks[8] = Len(work)
      BY DEF Finished, Machine
    <2>2. /\ 0 \in 0 .. 6 /\ 1 \in 0 .. 6 /\ 2 \in 0 .. 6
          /\ \A k \in 1 .. n : 2 + k \in 0 .. 6
          /\ \A q \in 3 + n .. 6 : q \in 0 .. 6
      BY <1>1
    <2>. QED BY <1>2, <1>3, <2>1, <2>2
  <1>12. ticks[6] = Len(a) + 1 + n
    <2>1. CASE n = 4
      BY <1>11, <2>1
    <2>2. CASE n # 4
      BY <1>1, <1>11, <2>2
    <2>. QED BY <2>1, <2>2
  <1>13. \A q \in Slot : ticks[q] # None
    <2>1. ASSUME NEW q \in Slot PROVE ticks[q] \in Int
      <3>1. q \in {0, 1, 2} \/ q \in 3 .. 2 + n \/ q \in 3 + n .. 6 \/ q \in {7, 8}
        BY <1>1 DEF Slot
      <3>2. CASE q \in 3 .. 2 + n
        <4>1. q - 2 \in 1 .. n /\ 2 + (q - 2) = q
          BY <1>1, <3>2
        <4>2. ticks[q] = Len(a) + 1 + (q - 2)
          BY <1>11, <4>1
        <4>. QED BY <1>5, <4>1, <4>2
      <3>3. CASE q \in {0, 1, 2} \/ q \in 3 + n .. 6 \/ q \in {7, 8}
        BY <1>1, <1>5, <1>10, <1>11, <3>3
      <3>. QED BY <3>1, <3>2, <3>3
    <2>. QED BY <2>1, NoneAssumption
  <1>14. ASSUME NEW k \in DOMAIN timingStages
         PROVE  Interval(1 + k, 2 + k) = <<timingStages[k]>>
    <2>1. k \in 1 .. n
      BY <1>1 DEF n
    <2>2. ticks[2 + k] = Len(a) + 1 + k
      BY <1>11, <2>1
    <2>3. ticks[1 + k] = Len(a) + k
      <3>1. CASE k = 1
        BY <1>11, <3>1
      <3>2. CASE k # 1
        <4>1. k - 1 \in 1 .. n /\ 2 + (k - 1) = 1 + k
          BY <1>1, <2>1, <3>2
        <4>2. ticks[1 + k] = Len(a) + 1 + (k - 1)
          BY <1>11, <4>1
        <4>. QED BY <1>5, <2>1, <4>2
      <3>. QED BY <3>1, <3>2
    <2>4. /\ Len(a) + k + 1 = Len(a) + 1 + k
          /\ Len(a) + 1 + k \in 1 .. Len(work)
      BY <1>1, <1>5, <1>10, <2>1
    <2>5. Interval(1 + k, 2 + k) = SubSeq(work, Len(a) + 1 + k, Len(a) + 1 + k)
      BY <2>2, <2>3, <2>4 DEF Interval
    <2>6. SubSeq(work, Len(a) + 1 + k, Len(a) + 1 + k) = <<work[Len(a) + 1 + k]>>
      BY <1>10, <2>4, OneOf
    <2>. QED BY <1>10, <2>1, <2>5, <2>6
  <1>15. ToSet(Interval(0, 1)) \subseteq {"Copy"}
    <2>1. Interval(0, 1) = SubSeq(work, 1, Len(a))
      BY <1>11 DEF Interval
    <2>2. 1 \in 1 .. Len(work) + 1 /\ Len(a) \in 0 .. Len(work)
      BY <1>1, <1>5, <1>10
    <2>3. ToSet(SubSeq(work, 1, Len(a))) = {work[k] : k \in 1 .. Len(a)}
      BY <1>10, <2>2, PartOf
    <2>4. \A k \in 1 .. Len(a) : work[k] \in {"Copy"}
      <3>1. \A k \in 1 .. Len(a) : a[k] \in {"Copy"}
        BY ElementOfSeq
      <3>. QED BY <1>10, <3>1
    <2>. QED BY <2>1, <2>3, <2>4
  <1>16. Interval(1, 2) = <<"Color">>
    <2>1. Interval(1, 2) = SubSeq(work, Len(a) + 1, Len(a) + 1)
      BY <1>11 DEF Interval
    <2>2. Len(a) + 1 \in 1 .. Len(work)
      BY <1>1, <1>5, <1>10
    <2>3. SubSeq(work, Len(a) + 1, Len(a) + 1) = <<work[Len(a) + 1]>>
      BY <1>10, <2>2, OneOf
    <2>. QED BY <1>10, <2>1, <2>3
  <1>17. "Draw" \in ToSet(Interval(6, 7))
    <2>1. Interval(6, 7) = SubSeq(work, Len(a) + 1 + n + 1, Len(work))
      BY <1>11, <1>12 DEF Interval
    <2>2. /\ Len(a) + 1 + n + 1 \in 1 .. Len(work) + 1 /\ Len(work) \in 0 .. Len(work)
          /\ Len(work) \in Len(a) + 1 + n + 1 .. Len(work)
      BY <1>1, <1>5, <1>10
    <2>3. ToSet(SubSeq(work, Len(a) + 1 + n + 1, Len(work)))
            = {work[k] : k \in Len(a) + 1 + n + 1 .. Len(work)}
      BY <1>10, <2>2, PartOf
    <2>. QED BY <1>10, <2>1, <2>2, <2>3
  <1>18. Interval(0, 8) = work
    <2>1. Interval(0, 8) = SubSeq(work, 1, Len(work))
      BY <1>11 DEF Interval
    <2>. QED BY <1>10, <2>1, SubSeqFull
  <1>. QED BY <1>13, <1>14, <1>15, <1>16, <1>17, <1>18

-------------------------------------------------------------------------------
(* The GPU does what Step says. *)

MapsOK ==
  /\ layout = [i \in Image |-> layout[i]] /\ holds = [i \in Image |-> holds[i]]
  /\ users = [i \in Image |-> users[i]] /\ dirty = [i \in Image |-> dirty[i]]
  /\ safe = [i \in Image |-> safe[i]] /\ ticks = [q \in Slot |-> ticks[q]]

LEMMA MachineFields ==
  /\ Machine.layout = layout /\ Machine.holds = holds /\ Machine.users = users
  /\ Machine.dirty = dirty /\ Machine.safe = safe /\ Machine.ticks = ticks
  /\ Machine.work = work /\ Machine.shown = shown /\ Machine.captured = captured
  BY DEF Machine

LEMMA SameMachine ==
  ASSUME UNCHANGED <<sync, holds, results>>
  PROVE  Machine' = Machine /\ MapsOK' = MapsOK
  BY DEF sync, results, Machine, MapsOK

(* The accesses of a command. *)
LEMMA AccessesOf ==
  ASSUME NEW c
  PROVE  /\ c.op = "copy" =>
              Accesses(c) = {Access(c.image, "Transfer", "TransferWrite", "TransferDst")}
         /\ c.op = "readback" =>
              Accesses(c) = {Access(c.image, "Transfer", "TransferRead", "TransferSrc")}
         /\ c.op = "pass" =>
              Accesses(c) = {Access(i, "Compute", "ShaderRead", Sampled(i)) : i \in c.from}
                              \union {Access(c.to, "Compute", "ShaderWrite", "General")}
         /\ c.op = "draw" =>
              Accesses(c) = {Access(i, "Fragment", "ShaderRead", "General") : i \in ToSet(c.images)}
         /\ c.op \in {"barrier", "stamp"} => Accesses(c) = {}
  BY DEF Accesses

(* A command in order is one as Ordered wants it. *)
LEMMA StepIsOrdered ==
  ASSUME NEW c, NEW r, Step(c, Machine, r)
  PROVE  Ordered(c)
  <1>1. CASE c.op = "barrier"
    BY <1>1, AccessesOf, MachineFields DEF Step, Ordered
  <1>2. CASE c.op = "copy"
    BY <1>2, AccessesOf, MachineFields DEF Step, Ordered, MayUse, Access
  <1>3. CASE c.op = "pass"
    BY <1>3, AccessesOf, MachineFields DEF Step, Ordered, MayUse, Access
  <1>4. CASE c.op = "readback"
    BY <1>4, AccessesOf, MachineFields DEF Step, Ordered, MayUse, Access
  <1>5. CASE c.op = "draw"
    BY <1>5, AccessesOf, MachineFields DEF Step, Ordered, MayUse, Access
  <1>6. CASE c.op = "stamp"
    BY <1>6, AccessesOf, MachineFields DEF Step, Ordered
  <1>. QED BY <1>1, <1>2, <1>3, <1>4, <1>5, <1>6 DEF Step

(* What is left for the next barriers by a command that reads some images  *)
(* and writes others in one stage.                                         *)
Reaches(c, reads, writes, stage, read, write) ==
  /\ \A a \in Accesses(c) : /\ a.stage = stage
                            /\ \/ a.image \in reads /\ a.kind = read
                               \/ a.image \in writes /\ a.kind = write
  /\ \A i \in reads \union writes : \E a \in Accesses(c) : a.image = i

Touched(reads, writes, stage, kinds) ==
  /\ users' = [i \in Image |-> IF i \in reads \union writes THEN users[i] \union {stage}
                               ELSE users[i]]
  /\ dirty' = [i \in Image |-> IF i \in writes THEN dirty[i] \union kinds ELSE dirty[i]]
  /\ safe' = [i \in Image |-> IF i \in writes THEN {}
                              ELSE IF i \in reads THEN {a \in safe[i] : a[2] \notin Writes}
                              ELSE safe[i]]
  /\ layout' = layout

LEMMA TouchIsWork ==
  ASSUME NEW c, NEW reads, NEW writes, NEW stage, NEW read, NEW write,
         reads \intersect writes = {}, read \notin Writes, write \in Writes,
         Reaches(c, reads, writes, stage, read, write), Touch(c)
  PROVE  Touched(reads, writes, stage, {write})
  <1>1. ASSUME NEW i, i \in reads
        PROVE  Kinds(c, i) = {read} /\ StagesOf(c, i) = {stage}
    BY <1>1 DEF Reaches, Kinds, StagesOf
  <1>2. ASSUME NEW i, i \in writes
        PROVE  Kinds(c, i) = {write} /\ StagesOf(c, i) = {stage}
    BY <1>2 DEF Reaches, Kinds, StagesOf
  <1>3. ASSUME NEW i, i \notin reads \union writes
        PROVE  Kinds(c, i) = {} /\ StagesOf(c, i) = {}
    BY <1>3 DEF Reaches, Kinds, StagesOf
  <1>4. \A i \in Image : users'[i] = IF i \in reads \union writes THEN users[i] \union {stage}
                                     ELSE users[i]
    BY <1>1, <1>2, <1>3 DEF Touch
  <1>5. \A i \in Image : dirty'[i] = IF i \in writes THEN dirty[i] \union {write} ELSE dirty[i]
    <2>. TAKE i \in Image
    <2>1. dirty'[i] = dirty[i] \union (Kinds(c, i) \intersect Writes)
      BY DEF Touch
    <2>2. CASE i \in writes
      BY <1>2, <2>1, <2>2
    <2>3. CASE i \notin writes
      BY <1>1, <1>3, <2>1, <2>3
    <2>. QED BY <2>2, <2>3
  <1>6. \A i \in Image : safe'[i] = IF i \in writes THEN {}
                                    ELSE IF i \in reads THEN {a \in safe[i] : a[2] \notin Writes}
                                    ELSE safe[i]
    <2>. TAKE i \in Image
    <2>1. safe'[i] = IF Kinds(c, i) = {} THEN safe[i]
                     ELSE IF Kinds(c, i) \intersect Writes # {} THEN {}
                     ELSE {s \in safe[i] : s[2] \notin Writes}
      BY DEF Touch
    <2>2. CASE i \in writes
      BY <1>2, <2>1, <2>2
    <2>3. CASE i \in reads
      BY <1>1, <2>1, <2>3
    <2>4. CASE i \notin reads \union writes
      BY <1>3, <2>1, <2>4
    <2>. QED BY <2>2, <2>3, <2>4
  <1>7. /\ users' = [i \in Image |-> users'[i]] /\ dirty' = [i \in Image |-> dirty'[i]]
        /\ safe' = [i \in Image |-> safe'[i]] /\ layout' = layout
    BY DEF Touch
  <1>. QED BY <1>4, <1>5, <1>6, <1>7 DEF Touched

LEMMA DoesBarrier ==
  ASSUME MapsOK, NEW r, Step(Command, Machine, r), ExecuteBarrier
  PROVE  Machine' = r /\ MapsOK'
  <1>. DEFINE c == Command
  <1>1. c.op = "barrier"
    BY DEF ExecuteBarrier, Execute
  <1>2. r = AfterBarrier(c, Machine)
    BY <1>1 DEF Step
  <1>3. /\ layout' = [layout EXCEPT ![c.image] = c.new]
        /\ holds'  = [holds EXCEPT ![c.image] = IF c.old = "Undefined" THEN <<>> ELSE @]
        /\ users'  = [users EXCEPT ![c.image] = {c.to}]
        /\ dirty'  = [dirty EXCEPT ![c.image] = {}]
        /\ safe'   = [safe EXCEPT ![c.image] = {c.to} \X c.dst]
        /\ ticks' = ticks /\ work' = work /\ shown' = shown /\ captured' = captured
    BY DEF ExecuteBarrier, results
  <1>. HIDE DEF c
  <1>4. /\ layout' = Put(layout, c.image, c.new)
        /\ holds' = Put(holds, c.image, IF c.old = "Undefined" THEN <<>> ELSE holds[c.image])
        /\ users' = Put(users, c.image, {c.to}) /\ dirty' = Put(dirty, c.image, {})
        /\ safe' = Put(safe, c.image, {c.to} \X c.dst)
    BY <1>3 DEF MapsOK, Put
  <1>5. Machine' = r
    BY <1>2, <1>3, <1>4, MachineFields DEF Machine, AfterBarrier
  <1>6. MapsOK'
    BY <1>3, <1>4 DEF MapsOK, Put
  <1>. QED BY <1>5, <1>6

LEMMA DoesWrite ==
  ASSUME MapsOK, NEW r, Step(Command, Machine, r), ExecuteWrite
  PROVE  Machine' = r /\ MapsOK'
  <1>. DEFINE c == Command
  <1>0. Step(c, Machine, r) /\ c.op \in {"copy", "pass"} /\ Touch(c)
        /\ ticks' = ticks /\ shown' = shown /\ captured' = captured
    BY DEF ExecuteWrite, Execute
  <1>1. /\ c.op = "copy" => /\ holds' = [holds EXCEPT ![c.image] = <<"Picture">>]
                            /\ work' = Append(work, "Copy")
        /\ c.op = "pass" => /\ holds' = [holds EXCEPT ![c.to] = Made(c)]
                            /\ work' = Append(work, c.name)
    BY DEF ExecuteWrite
  <1>. HIDE DEF c
  <1>2. /\ "TransferWrite" \in Writes /\ "ShaderWrite" \in Writes
        /\ "TransferRead" \notin Writes /\ "ShaderRead" \notin Writes
    BY DEF Writes
  <1>3. CASE c.op = "copy"
    <2>1. /\ c.image \in Image
          /\ r = AfterWork("Copy", "Transfer", {}, {c.image}, {"TransferWrite"},
                           Put(Machine.holds, c.image, <<"Picture">>), Machine.shown,
                           Machine.captured, Machine)
      BY <1>0, <1>3 DEF Step, MayUse
    <2>2. Touched({}, {c.image}, "Transfer", {"TransferWrite"})
      <3>1. Accesses(c) = {Access(c.image, "Transfer", "TransferWrite", "TransferDst")}
        BY <1>3, AccessesOf
      <3>2. Reaches(c, {}, {c.image}, "Transfer", "TransferRead", "TransferWrite")
        BY <3>1 DEF Access, Reaches
      <3>3. {} \intersect {c.image} = {}
        OBVIOUS
      <3>. QED BY <1>0, <1>2, <3>2, <3>3, TouchIsWork
    <2>3. holds' = Put(holds, c.image, <<"Picture">>) /\ work' = Append(work, "Copy")
      BY <1>1, <1>3 DEF MapsOK, Put
    <2>4. Machine' = r
      BY <1>0, <2>1, <2>2, <2>3, MachineFields DEF Machine, AfterWork, Touched
    <2>5. MapsOK'
      BY <1>0, <2>2, <2>3 DEF MapsOK, Put, Touched
    <2>. QED BY <2>4, <2>5
  <1>4. CASE c.op = "pass"
    <2>1. /\ c.from # {} /\ c.to \notin c.from
          /\ \A i \in c.from : i \in Image
      BY <1>0, <1>4 DEF Step, MayUse
    <2>2. PICK v : /\ v # <<>> /\ \A i \in c.from : Machine.holds[i] = v
                   /\ r = AfterWork(c.name, "Compute", c.from, {c.to}, {"ShaderWrite"},
                                    Put(Machine.holds, c.to, Append(v, c.name)), Machine.shown,
                                    Machine.captured, Machine)
      BY <1>0, <1>4 DEF Step
    <2>3. Made(c) = Append(v, c.name)
      <3>1. \A i \in c.from : holds[i] = v
        BY <2>2, MachineFields
      <3>2. (CHOOSE i \in c.from : TRUE) \in c.from
        BY <2>1
      <3>3. \E x \in {holds[i] : i \in c.from} : x # <<>> /\ \A i \in c.from : holds[i] = x
        BY <2>1, <2>2, <3>1
      <3>. QED BY <3>1, <3>2, <3>3 DEF Made
    <2>4. Touched(c.from, {c.to}, "Compute", {"ShaderWrite"})
      <3>1. Accesses(c) = {Access(i, "Compute", "ShaderRead", Sampled(i)) : i \in c.from}
                            \union {Access(c.to, "Compute", "ShaderWrite", "General")}
        BY <1>4, AccessesOf
      <3>2. \A a \in Accesses(c) : /\ a.stage = "Compute"
                                   /\ \/ a.image \in c.from /\ a.kind = "ShaderRead"
                                      \/ a.image \in {c.to} /\ a.kind = "ShaderWrite"
        BY <3>1 DEF Access
      <3>3. \A i \in c.from \union {c.to} : \E a \in Accesses(c) : a.image = i
        <4>1. \A i \in c.from : Access(i, "Compute", "ShaderRead", Sampled(i)) \in Accesses(c)
          BY <3>1
        <4>2. Access(c.to, "Compute", "ShaderWrite", "General") \in Accesses(c)
          BY <3>1
        <4>. QED BY <4>1, <4>2 DEF Access
      <3>4. Reaches(c, c.from, {c.to}, "Compute", "ShaderRead", "ShaderWrite")
        BY <3>2, <3>3 DEF Reaches
      <3>5. c.from \intersect {c.to} = {}
        BY <2>1
      <3>. QED BY <1>0, <1>2, <3>4, <3>5, TouchIsWork
    <2>5. holds' = Put(holds, c.to, Append(v, c.name)) /\ work' = Append(work, c.name)
      BY <1>1, <1>4, <2>3 DEF MapsOK, Put
    <2>6. Machine' = r
      BY <1>0, <2>2, <2>4, <2>5, MachineFields DEF Machine, AfterWork, Touched
    <2>7. MapsOK'
      BY <1>0, <2>4, <2>5 DEF MapsOK, Put, Touched
    <2>. QED BY <2>6, <2>7
  <1>. QED BY <1>0, <1>3, <1>4

LEMMA DoesReadback ==
  ASSUME MapsOK, NEW r, Step(Command, Machine, r), ExecuteReadback
  PROVE  Machine' = r /\ MapsOK'
  <1>. DEFINE c == Command
  <1>1. /\ Step(c, Machine, r) /\ c.op = "readback" /\ Touch(c)
        /\ captured' = Append(captured, holds[c.image]) /\ work' = Append(work, "Readback")
        /\ holds' = holds /\ ticks' = ticks /\ shown' = shown
    BY DEF ExecuteReadback, Execute
  <1>. HIDE DEF c
  <1>2. r = AfterWork("Readback", "Transfer", {c.image}, {}, {}, Machine.holds, Machine.shown,
                      Append(Machine.captured, Machine.holds[c.image]), Machine)
    BY <1>1 DEF Step
  <1>3. Touched({c.image}, {}, "Transfer", {"TransferWrite"})
    <2>1. Accesses(c) = {Access(c.image, "Transfer", "TransferRead", "TransferSrc")}
      BY <1>1, AccessesOf
    <2>2. Reaches(c, {c.image}, {}, "Transfer", "TransferRead", "TransferWrite")
      <3>1. \A a \in Accesses(c) : /\ a.stage = "Transfer" /\ a.image \in {c.image}
                                   /\ a.kind = "TransferRead"
        BY <2>1 DEF Access
      <3>2. \A i \in {c.image} \union {} : \E a \in Accesses(c) : a.image = i
        BY <2>1 DEF Access
      <3>. QED BY <3>1, <3>2 DEF Reaches
    <2>3. {c.image} \intersect {} = {} /\ "TransferWrite" \in Writes /\ "TransferRead" \notin Writes
      BY DEF Writes
    <2>. QED BY <1>1, <2>2, <2>3, TouchIsWork
  <1>4. Machine' = r
    BY <1>1, <1>2, <1>3, MachineFields DEF MapsOK, Machine, AfterWork, Touched
  <1>5. MapsOK'
    BY <1>1, <1>3 DEF MapsOK, Touched
  <1>. QED BY <1>4, <1>5

LEMMA DoesDraw ==
  ASSUME MapsOK, NEW r, Step(Command, Machine, r), ExecuteDraw
  PROVE  Machine' = r /\ MapsOK'
  <1>. DEFINE c == Command
              drawn == ToSet(c.images)
  <1>1. /\ Step(c, Machine, r) /\ c.op = "draw" /\ Touch(c)
        /\ shown' = [k \in DOMAIN c.images |-> holds[c.images[k]]] /\ work' = Append(work, "Draw")
        /\ holds' = holds /\ ticks' = ticks /\ captured' = captured
    BY DEF ExecuteDraw, Execute
  <1>. HIDE DEF c
  <1>2. r = AfterWork("Draw", "Fragment", drawn, {}, {}, Machine.holds,
                      [k \in DOMAIN c.images |-> Machine.holds[c.images[k]]], Machine.captured,
                      Machine)
    BY <1>1 DEF Step
  <1>3. Touched(drawn, {}, "Fragment", {"ShaderWrite"})
    <2>1. Accesses(c) = {Access(i, "Fragment", "ShaderRead", "General") : i \in drawn}
      BY <1>1, AccessesOf
    <2>. HIDE DEF drawn
    <2>2. Reaches(c, drawn, {}, "Fragment", "ShaderRead", "ShaderWrite")
      <3>1. \A a \in Accesses(c) : a.stage = "Fragment" /\ a.image \in drawn /\ a.kind = "ShaderRead"
        BY <2>1 DEF Access
      <3>2. \A i \in drawn \union {} : \E a \in Accesses(c) : a.image = i
        <4>1. \A i \in drawn : Access(i, "Fragment", "ShaderRead", "General") \in Accesses(c)
          BY <2>1
        <4>. QED BY <4>1 DEF Access
      <3>. QED BY <3>1, <3>2 DEF Reaches
    <2>3. drawn \intersect {} = {} /\ "ShaderWrite" \in Writes /\ "ShaderRead" \notin Writes
      BY DEF Writes
    <2>. QED BY <1>1, <2>2, <2>3, TouchIsWork
  <1>. HIDE DEF drawn
  <1>4. Machine' = r
    BY <1>1, <1>2, <1>3, MachineFields DEF MapsOK, Machine, AfterWork, Touched
  <1>5. MapsOK'
    BY <1>1, <1>3 DEF MapsOK, Touched
  <1>. QED BY <1>4, <1>5

LEMMA DoesStamp ==
  ASSUME MapsOK, NEW r, Step(Command, Machine, r), ExecuteStamp
  PROVE  Machine' = r /\ MapsOK'
  <1>. DEFINE c == Command
  <1>1. /\ Step(c, Machine, r) /\ c.op = "stamp"
        /\ ticks' = [ticks EXCEPT ![c.slot] = Len(work)]
        /\ UNCHANGED <<sync, holds, work, shown, captured>>
    BY DEF ExecuteStamp, Execute
  <1>. HIDE DEF c
  <1>2. r = AfterStamp(c, Machine)
    BY <1>1 DEF Step
  <1>3. ticks' = [q \in Slot |-> IF q = c.slot THEN Len(work) ELSE ticks[q]]
    BY <1>1 DEF MapsOK
  <1>4. Machine' = r
    BY <1>1, <1>2, <1>3, MachineFields DEF Machine, AfterStamp, sync
  <1>5. MapsOK'
    BY <1>1, <1>3 DEF MapsOK, sync
  <1>. QED BY <1>4, <1>5

-------------------------------------------------------------------------------
(* The invariant: the images are as the next frame expects them, and what  *)
(* is recorded leads to a finished frame.                                  *)
RecordingInv ==
  /\ renderPc \in {"loop", "record", "present", "submitted"}
  /\ SettingsOK /\ FlagsOK /\ interop \in BOOLEAN /\ screenshotRequest \in BOOLEAN /\ MapsOK
  /\ renderPc \in {"loop", "record"} => commands = <<>> /\ Rested(Machine) /\ Untimed(Machine)
  /\ renderPc = "record" => (interop <=> External) /\ (interop => HandedOver(Machine))
  /\ renderPc \in {"present", "submitted"} => initialized = TRUE /\ timingStages = Stages
  /\ renderPc = "present" => \E t : Runs(commands, Machine, t) /\ Processed(t) /\ Rested(t)
  /\ renderPc = "submitted" => \E t : Runs(commands, Machine, t) /\ Finished(t) /\ Rested(t)

(* What the settings do not change. *)
LEMMA SameSettings ==
  ASSUME UNCHANGED settings
  PROVE  /\ SettingsOK' = SettingsOK /\ Stages' = Stages /\ interop' = interop
         /\ \A t : Processed(t)' = Processed(t) /\ Finished(t)' = Finished(t)
  <1>1. /\ mode' = mode /\ comparisonEnabled' = comparisonEnabled /\ comparisonA' = comparisonA
        /\ comparisonB' = comparisonB /\ interop' = interop
    BY DEF settings
  <1>2. ModeA' = ModeA /\ Views' = Views /\ SettingsOK' = SettingsOK
    BY <1>1 DEF ModeA, Views, SettingsOK
  <1>3. Stages' = Stages
    BY <1>1, <1>2 DEF Stages
  <1>4. ASSUME NEW t PROVE Measured(t)' = Measured(t)
    BY <1>3 DEF Measured
  <1>5. ASSUME NEW t PROVE Processed(t)' = Processed(t) /\ Finished(t)' = Finished(t)
    <2>1. \A r : Measured(r)' = Measured(r)
      BY <1>4
    <2>. QED BY <1>1, <1>2, <2>1 DEF Processed, Finished
  <1>. QED BY <1>1, <1>2, <1>3, <1>5

LEMMA SameFlags ==
  ASSUME UNCHANGED <<interop, flags>>
  PROVE  FlagsOK' = FlagsOK /\ \A t : Rested(t)' = Rested(t)
  BY DEF flags, FlagsOK, Rested, RestedAs


LEMMA InitInv ==
  ASSUME Init
  PROVE  RecordingInv
  <1>1. /\ \A i \in Image : /\ layout[i] = "Undefined" /\ holds[i] = <<>>
                            /\ users[i] = {} /\ dirty[i] = {} /\ safe[i] = {}
        /\ \A q \in Slot : ticks[q] = None
        /\ MapsOK
    BY DEF Init, Everywhere, MapsOK
  <1>2. \A i \in Image : Fresh(Machine, i)
    BY <1>1, MachineFields DEF Fresh
  <1>3. Rested(Machine)
    <2>1. initialized = FALSE /\ planarInitialized = FALSE /\ nv12Initialized = FALSE
      BY DEF Init
    <2>2. {"external", "working", "y", "u", "v", "uv"} \subseteq Image /\ Targets \subseteq Image
      BY DEF Image, Planes, Targets
    <2>3. \A i \in Image : Plane(Machine, i, FALSE)
      BY <1>2 DEF Plane, Fresh
    <2>4. Machine.dirty["external"] = {}
      BY <1>2, <2>2 DEF Fresh
    <2>. QED BY <1>2, <2>1, <2>2, <2>3, <2>4 DEF Rested, RestedAs
  <1>4. Untimed(Machine)
    BY <1>1, MachineFields DEF Init, Untimed
  <1>5. SettingsOK
    <2>1. {"Bilinear", "Fsr1EasuRcas"} \subseteq UpscaleMode
      BY DEF UpscaleMode, PassesOf
    <2>. QED BY <2>1 DEF Init, SettingsOK
  <1>. QED BY <1>1, <1>3, <1>4, <1>5 DEF Init, FlagsOK, RecordingInv

LEMMA TurnInv ==
  ASSUME RecordingInv, Turn
  PROVE  RecordingInv'
  <1>1. /\ renderPc = "loop" /\ renderPc' = "loop" /\ interop' = interop /\ UNCHANGED flags
        /\ commands' = commands /\ UNCHANGED <<sync, holds, results>>
    BY DEF Turn
  <1>2. Machine' = Machine /\ MapsOK' /\ FlagsOK'
    BY <1>1, SameMachine, SameFlags DEF RecordingInv
  <1>3. SettingsOK'
    <2>1. mode' \in UpscaleMode /\ comparisonA' \in UpscaleMode /\ comparisonB' \in UpscaleMode
      BY DEF Turn, RecordingInv, SettingsOK
    <2>2. comparisonEnabled' \in BOOLEAN
      BY DEF Turn
    <2>. QED BY <2>1, <2>2 DEF SettingsOK
  <1>4. screenshotRequest' \in BOOLEAN /\ interop' \in BOOLEAN
    BY <1>1 DEF Turn, RecordingInv
  <1>5. Rested(Machine)' /\ Untimed(Machine)' /\ commands' = <<>>
    <2>1. Rested(Machine) /\ Untimed(Machine) /\ commands = <<>>
      BY <1>1 DEF RecordingInv
    <2>. QED BY <1>1, <1>2, <2>1 DEF flags, Rested, RestedAs, Untimed
  <1>. QED BY <1>1, <1>2, <1>3, <1>4, <1>5 DEF RecordingInv

LEMMA PrepareFrameInv ==
  ASSUME RecordingInv, PrepareFrame
  PROVE  RecordingInv'
  <1>1. /\ renderPc = "loop" /\ renderPc' = "record" /\ UNCHANGED settings /\ UNCHANGED flags
        /\ screenshotRequest' = screenshotRequest /\ commands' = commands
        /\ UNCHANGED results /\ dirty' = dirty
    BY DEF PrepareFrame, sync
  <1>2. SettingsOK' /\ interop' = interop
    BY <1>1, SameSettings DEF RecordingInv
  <1>3. FlagsOK'
    BY <1>1, <1>2, SameFlags DEF RecordingInv
  <1>4. /\ commands = <<>> /\ Rested(Machine) /\ Untimed(Machine) /\ MapsOK
        /\ interop \in BOOLEAN /\ screenshotRequest \in BOOLEAN
    BY <1>1 DEF RecordingInv
  <1>5. interop' <=> External'
    BY <1>1, <1>2, <1>4 DEF PrepareFrame, External
  <1>6. Untimed(Machine)'
    BY <1>1, <1>4, MachineFields DEF results, Untimed, Machine
  <1>7. CASE interop
    <2>. DEFINE e == "external"
    <2>1. /\ layout' = [layout EXCEPT ![e] = "External"]
          /\ holds' = [holds EXCEPT ![e] = <<"Picture">>]
          /\ users' = [users EXCEPT ![e] = {}]
          /\ safe' = [safe EXCEPT ![e] = {}]
      BY <1>7 DEF PrepareFrame
    <2>2. e \in Image /\ e # "working" /\ e \notin Targets
      BY DEF Image, Targets
    <2>. HIDE DEF e
    <2>3. MapsOK'
      BY <1>1, <1>4, <2>1 DEF MapsOK, results
    <2>4. /\ layout'[e] = "External" /\ holds'[e] = <<"Picture">> /\ users'[e] = {}
          /\ \A i \in Image : i # e => layout'[i] = layout[i] /\ users'[i] = users[i]
      BY <1>4, <2>1, <2>2 DEF MapsOK
    <2>5. HandedOver(Machine)'
      BY <2>4, MachineFields DEF HandedOver, Machine, e
    <2>6. Rested(Machine)'
      <3>1. /\ Machine.dirty[e] = {}
            /\ IF initialized THEN Settled(Machine, "working", "General", {"Compute"})
                              ELSE Fresh(Machine, "working")
            /\ \A i \in Targets : IF initialized THEN Machine.layout[i] = "General" /\ Machine.dirty[i] = {}
                                  ELSE Fresh(Machine, i)
        BY <1>4, <1>7 DEF Rested, RestedAs, e
      <3>2. interop' /\ initialized' = initialized
        BY <1>1, <1>2, <1>7 DEF flags
      <3>3. "working" \in Image /\ Targets \subseteq Image
        BY DEF Image, Targets
      <3>4. IF initialized THEN Settled(Machine', "working", "General", {"Compute"})
                           ELSE Fresh(Machine', "working")
        BY <1>1, <2>2, <2>4, <3>1, <3>3 DEF Machine, Settled, Fresh
      <3>5. \A i \in Targets : IF initialized THEN Machine'.layout[i] = "General" /\ Machine'.dirty[i] = {}
                               ELSE Fresh(Machine', i)
        BY <1>1, <2>2, <2>4, <3>1, <3>3 DEF Machine, Fresh
      <3>6. Machine'.dirty[e] = {}
        BY <1>1, <3>1 DEF Machine
      <3>. QED BY <3>2, <3>4, <3>5, <3>6 DEF Rested, RestedAs, e
    <2>. QED BY <1>1, <1>2, <1>3, <1>4, <1>5, <1>6, <2>3, <2>5, <2>6 DEF RecordingInv
  <1>8. CASE ~interop
    <2>1. UNCHANGED <<sync, holds, results>>
      BY <1>1, <1>8 DEF PrepareFrame
    <2>2. Machine' = Machine /\ MapsOK'
      BY <1>4, <2>1, SameMachine
    <2>3. Rested(Machine)'
      BY <1>1, <1>2, <1>4, <2>2 DEF flags, Rested, RestedAs
    <2>. QED BY <1>1, <1>2, <1>3, <1>4, <1>5, <1>6, <1>8, <2>2, <2>3 DEF RecordingInv
  <1>. QED BY <1>4, <1>7, <1>8

LEMMA RecordProcessingInv ==
  ASSUME RecordingInv, RecordProcessing
  PROVE  RecordingInv'
  <1>1. /\ renderPc = "record" /\ renderPc' = "present" /\ UNCHANGED settings
        /\ commands' = Processing /\ timingStages' = Stages /\ screenshotRequest' = FALSE
        /\ initialized' = TRUE /\ nv12Initialized' = (nv12Initialized \/ Nv12)
        /\ planarInitialized' = (planarInitialized \/ ~Nv12)
        /\ UNCHANGED <<sync, holds, results>>
    BY DEF RecordProcessing
  <1>2. /\ SettingsOK /\ FlagsOK /\ interop \in BOOLEAN /\ (interop <=> External)
        /\ screenshotRequest \in BOOLEAN /\ Rested(Machine) /\ Untimed(Machine)
        /\ interop => HandedOver(Machine)
    BY <1>1 DEF RecordingInv
  <1>3. PICK t : /\ Runs(Processing, Machine, t) /\ Processed(t)
                 /\ RestedAs(t, TRUE, planarInitialized \/ ~Nv12, nv12Initialized \/ Nv12)
    BY <1>2, RunsProcessing
  <1>4. Machine' = Machine /\ MapsOK'
    BY <1>1, SameMachine DEF RecordingInv
  <1>5. SettingsOK' /\ Stages' = Stages /\ interop' = interop /\ Processed(t)'
    BY <1>1, <1>2, <1>3, SameSettings
  <1>6. Rested(t)'
    BY <1>1, <1>3, <1>5 DEF Rested, RestedAs
  <1>7. FlagsOK'
    BY <1>1 DEF FlagsOK
  <1>8. \E r : Runs(commands', Machine', r) /\ Processed(r)' /\ Rested(r)'
    BY <1>1, <1>3, <1>4, <1>5, <1>6
  <1>. QED BY <1>1, <1>2, <1>4, <1>5, <1>7, <1>8 DEF RecordingInv

LEMMA RecordPresentInv ==
  ASSUME RecordingInv, RecordPresent
  PROVE  RecordingInv'
  <1>1. /\ renderPc = "present" /\ renderPc' = "submitted" /\ UNCHANGED settings
        /\ UNCHANGED flags /\ timingStages' = timingStages /\ screenshotRequest' = screenshotRequest
        /\ commands' = commands \o Draw(Images) \o Stamp(7) \o Stamp(8)
        /\ UNCHANGED <<sync, holds, results>>
    BY DEF RecordPresent, Images
  <1>2. PICK s : Runs(commands, Machine, s) /\ Processed(s) /\ Rested(s)
    BY <1>1 DEF RecordingInv
  <1>3. /\ SettingsOK /\ FlagsOK /\ interop \in BOOLEAN /\ screenshotRequest \in BOOLEAN
        /\ initialized = TRUE /\ timingStages = Stages
    BY <1>1 DEF RecordingInv
  <1>4. PICK t : /\ Runs(commands \o Draw(Images) \o Stamp(7) \o Stamp(8), Machine, t)
                 /\ Finished(t) /\ Rested(t)
    BY <1>2, <1>3, RunsPresent
  <1>5. Machine' = Machine /\ MapsOK'
    BY <1>1, SameMachine DEF RecordingInv
  <1>6. SettingsOK' /\ Stages' = Stages /\ interop' = interop /\ Finished(t)'
    BY <1>1, <1>3, <1>4, SameSettings
  <1>7. FlagsOK' /\ Rested(t)'
    BY <1>1, <1>3, <1>4, <1>6, SameFlags
  <1>8. \E r : Runs(commands', Machine', r) /\ Finished(r)' /\ Rested(r)'
    BY <1>1, <1>4, <1>5, <1>6, <1>7
  <1>9. initialized' = TRUE
    BY <1>1, <1>3 DEF flags
  <1>. QED BY <1>1, <1>3, <1>5, <1>6, <1>7, <1>8, <1>9 DEF RecordingInv

LEMMA AcquireFrameInv ==
  ASSUME RecordingInv, AcquireFrame
  PROVE  RecordingInv'
  <1>1. /\ renderPc = "submitted" /\ commands = <<>> /\ renderPc' = "loop" /\ commands' = commands
        /\ UNCHANGED settings /\ UNCHANGED flags /\ UNCHANGED sync
        /\ screenshotRequest' = screenshotRequest
        /\ holds' = [i \in Image |-> <<>>] /\ ticks' = [q \in Slot |-> None]
        /\ work' = <<>> /\ shown' = <<>> /\ captured' = <<>>
    BY DEF AcquireFrame, Completed, Everywhere
  <1>2. Rested(Machine)
    BY <1>1, RunsNothing DEF RecordingInv
  <1>3. /\ SettingsOK /\ FlagsOK /\ interop \in BOOLEAN /\ screenshotRequest \in BOOLEAN /\ MapsOK
    BY DEF RecordingInv
  <1>4. SettingsOK' /\ interop' = interop
    BY <1>1, <1>3, SameSettings
  <1>5. FlagsOK'
    BY <1>1, <1>3, <1>4, SameFlags
  <1>6. layout' = layout /\ users' = users /\ dirty' = dirty /\ safe' = safe
    BY <1>1 DEF sync
  <1>7. MapsOK'
    BY <1>1, <1>3, <1>6 DEF MapsOK
  <1>8. Untimed(Machine)'
    BY <1>1 DEF Untimed, Machine
  <1>9. Rested(Machine)'
    BY <1>1, <1>2, <1>4, <1>6, MachineFields
    DEF flags, Rested, RestedAs, Plane, Settled, Fresh, Machine
  <1>. QED BY <1>1, <1>3, <1>4, <1>5, <1>7, <1>8, <1>9 DEF RecordingInv

LEMMA ExecuteInv ==
  ASSUME RecordingInv,
         ExecuteBarrier \/ ExecuteWrite \/ ExecuteReadback \/ ExecuteDraw \/ ExecuteStamp
  PROVE  RecordingInv'
  <1>1. /\ renderPc = "submitted" /\ commands # <<>> /\ renderPc' = "submitted"
        /\ commands' = Tail(commands) /\ UNCHANGED settings /\ UNCHANGED flags
        /\ UNCHANGED <<screenshotRequest, storage, timingStages>>
    BY DEF ExecuteBarrier, ExecuteWrite, ExecuteReadback, ExecuteDraw, ExecuteStamp, Execute
  <1>2. PICK t : Runs(commands, Machine, t) /\ Finished(t) /\ Rested(t)
    BY <1>1 DEF RecordingInv
  <1>3. PICK r : Step(Command, Machine, r) /\ Runs(Tail(commands), r, t)
    BY <1>1, <1>2, RunsFirst DEF Command
  <1>4. /\ SettingsOK /\ FlagsOK /\ interop \in BOOLEAN /\ screenshotRequest \in BOOLEAN /\ MapsOK
        /\ initialized = TRUE /\ timingStages = Stages
    BY <1>1 DEF RecordingInv
  <1>5. Machine' = r /\ MapsOK'
    BY <1>3, <1>4, DoesBarrier, DoesWrite, DoesReadback, DoesDraw, DoesStamp
  <1>6. SettingsOK' /\ Stages' = Stages /\ interop' = interop /\ Finished(t)'
    BY <1>1, <1>2, <1>4, SameSettings
  <1>7. FlagsOK' /\ Rested(t)'
    BY <1>1, <1>2, <1>4, <1>6, SameFlags
  <1>8. \E u : Runs(commands', Machine', u) /\ Finished(u)' /\ Rested(u)'
    BY <1>1, <1>3, <1>5, <1>6, <1>7
  <1>9. initialized' = TRUE
    BY <1>1, <1>4 DEF flags
  <1>. QED BY <1>1, <1>4, <1>5, <1>6, <1>7, <1>8, <1>9 DEF RecordingInv

LEMMA StutterInv ==
  ASSUME RecordingInv, UNCHANGED vars
  PROVE  RecordingInv'
  <1>1. /\ renderPc' = renderPc /\ commands' = commands /\ timingStages' = timingStages
        /\ UNCHANGED settings /\ UNCHANGED flags /\ screenshotRequest' = screenshotRequest
        /\ storage' = storage /\ UNCHANGED <<sync, holds, results>>
    BY DEF vars
  <1>2. Machine' = Machine /\ MapsOK'
    BY <1>1, SameMachine DEF RecordingInv
  <1>3. /\ SettingsOK' /\ Stages' = Stages /\ interop' = interop
        /\ \A t : Processed(t)' = Processed(t) /\ Finished(t)' = Finished(t)
    BY <1>1, SameSettings DEF RecordingInv
  <1>4. FlagsOK' /\ \A t : Rested(t)' = Rested(t)
    BY <1>1, <1>3, SameFlags DEF RecordingInv
  <1>5. renderPc = "present" =>
          \E t : Runs(commands', Machine', t) /\ Processed(t)' /\ Rested(t)'
    BY <1>1, <1>2, <1>3, <1>4 DEF RecordingInv
  <1>6. renderPc = "submitted" =>
          \E t : Runs(commands', Machine', t) /\ Finished(t)' /\ Rested(t)'
    BY <1>1, <1>2, <1>3, <1>4 DEF RecordingInv
  <1>7. renderPc \in {"loop", "record"} =>
          commands' = <<>> /\ Rested(Machine)' /\ Untimed(Machine)'
    <2>. SUFFICES ASSUME renderPc \in {"loop", "record"}
                  PROVE  commands' = <<>> /\ Rested(Machine)' /\ Untimed(Machine)'
      OBVIOUS
    <2>1. commands = <<>> /\ Rested(Machine) /\ Untimed(Machine)
      BY DEF RecordingInv
    <2>. QED BY <1>1, <1>2, <1>3, <2>1 DEF flags, Rested, RestedAs, Untimed
  <1>8. renderPc = "record" => (interop' <=> External') /\ (interop' => HandedOver(Machine)')
    BY <1>1, <1>2, <1>3 DEF RecordingInv, External, HandedOver
  <1>9. initialized' = initialized
    BY <1>1 DEF flags
  <1>. QED BY <1>1, <1>2, <1>3, <1>4, <1>5, <1>6, <1>7, <1>8, <1>9 DEF RecordingInv

(* The GPU's commands are in order at every moment, and what is recorded   *)
(* makes the frame that was chosen: the invariant of the whole recording,  *)
(* from the settings to the timestamps.                                    *)
THEOREM RecordingInvariant == Spec => []RecordingInv
  <1>1. Init => RecordingInv
    BY InitInv
  <1>2. RecordingInv /\ [Next]_vars => RecordingInv'
    BY TurnInv, PrepareFrameInv, RecordProcessingInv, RecordPresentInv, AcquireFrameInv,
       ExecuteInv, StutterInv DEF Next
  <1>. QED BY <1>1, <1>2, PTL DEF Spec

(* No command the GPU comes to can overlap one it depends on, or finds an  *)
(* image in another layout than it names, whatever was recorded before.    *)
THEOREM CommandsAreOrdered == Spec => []CommandsOrdered
  <1>1. RecordingInv => CommandsOrdered
    <2>. SUFFICES ASSUME RecordingInv, renderPc = "submitted", commands # <<>>
                  PROVE  Ordered(Head(commands))
      BY DEF CommandsOrdered
    <2>1. PICK t : Runs(commands, Machine, t)
      BY DEF RecordingInv
    <2>2. PICK r : Step(Head(commands), Machine, r)
      BY <2>1, RunsFirst
    <2>. QED BY <2>2, StepIsOrdered
  <1>. QED BY <1>1, RecordingInvariant, PTL

(* What is left when the GPU is through with a frame. *)
LEMMA CompletedIsFinished ==
  ASSUME RecordingInv, Completed
  PROVE  Finished(Machine) /\ SettingsOK /\ timingStages = Stages
  BY RunsNothing DEF RecordingInv, Completed

(* A frame shows this frame's picture in the modes that were chosen, on    *)
(* the sides they were chosen for, and a screenshot is what was shown.     *)
THEOREM ShowsTheChosenModes == Spec => []ShowsChosenModes
  <1>1. RecordingInv => ShowsChosenModes
    <2>. SUFFICES ASSUME RecordingInv, Completed
                  PROVE  shown = Views /\ captured \in {<<>>, shown}
      BY DEF ShowsChosenModes, Views
    <2>1. Finished(Machine)
      BY CompletedIsFinished
    <2>. QED BY <2>1, MachineFields DEF Finished
  <1>. QED BY <1>1, RecordingInvariant, PTL

(* A time that is reported is that of the work it is reported for, for all *)
(* modes and pairs of modes.                                               *)
THEOREM TimingsAreThoseOfTheWork == Spec => []TimingsMatch
  <1>1. RecordingInv => TimingsMatch
    BY CompletedIsFinished, FinishedTimes DEF TimingsMatch
  <1>. QED BY <1>1, RecordingInvariant, PTL

===============================================================================
