------------------------------- MODULE Recording -------------------------------
(***************************************************************************)
(* render/VideoPipeline.cpp: what the command buffer of one flight makes   *)
(* the GPU do.  The render loop changes the settings between two frames,   *)
(* prepareFrame takes the decoded picture, recordProcessing records the    *)
(* upload, the colour conversion, one or two upscaling modes and the copy  *)
(* of a screenshot, and beginPresent draws the result.  The GPU may run    *)
(* commands in parallel wherever no barrier orders them.                   *)
(*                                                                         *)
(* The flights share no image, so there is one.  What an image holds is    *)
(* the list of passes that made it from this frame's picture, and nothing  *)
(* if that is garbage or of an earlier frame.  When the flight's buffers   *)
(* may be reused is Presentation's matter.                                 *)
(***************************************************************************)
EXTENDS Integers, Sequences, SequencesExt

CONSTANT None   \* no storage, no tick
ASSUME NoneAssumption == None \notin Int

PassesOf ==
  [Nearest |-> <<"Nearest">>, Bilinear |-> <<"Bilinear">>,
   BicubicCatmullRom |-> <<"Bicubic">>, Lanczos2 |-> <<"Lanczos2">>,
   BilinearCas |-> <<"Bilinear", "Cas">>, Lanczos2Cas |-> <<"Lanczos2", "Cas">>,
   Fsr1Easu |-> <<"Easu">>, Fsr1EasuRcas |-> <<"Easu", "Rcas">>]

UpscaleMode == DOMAIN PassesOf

Planes == {"y", "u", "v", "uv"}
Image  == Planes \union {"external", "working", "intermediate", "output", "comparisonOutput"}
Slot   == 0 .. 8       \* timestampsPerFrame

VARIABLES
  renderPc,
  interop,          \* pictures come as D3D11 textures
  mode, comparisonEnabled, comparisonA, comparisonB,
  screenshotRequest,
  storage,          \* how this frame's picture is stored
  initialized, planarInitialized, nv12Initialized,
  timingStages,     \* the timing plan
  commands,         \* recorded and not executed yet
  layout, holds,    \* the layout and the contents of every image
  users,            \* stages the next barrier of an image has to wait for
  dirty,            \* writes to it that are not available yet
  safe,             \* accesses that the last barrier of an image made safe
  ticks,            \* the work that was done when a timestamp was written
  work,             \* the work of this frame, in order
  shown, captured   \* what was drawn, and what was copied for a screenshot

settings == <<interop, mode, comparisonEnabled, comparisonA, comparisonB>>
flags    == <<initialized, planarInitialized, nv12Initialized>>
sync     == <<layout, users, dirty, safe>>
results  == <<ticks, work, shown, captured>>
vars     == <<renderPc, settings, screenshotRequest, storage, flags, timingStages,
              commands, sync, holds, results>>

Everywhere(value) == [i \in Image |-> value]

Init ==
  /\ renderPc = "loop" /\ interop \in BOOLEAN
  /\ mode \in UpscaleMode
  /\ \/ comparisonEnabled = FALSE /\ comparisonA = "Bilinear" /\ comparisonB = "Fsr1EasuRcas"
     \/ comparisonEnabled = TRUE /\ comparisonA \in UpscaleMode /\ comparisonB \in UpscaleMode
  /\ screenshotRequest = FALSE /\ storage = None
  /\ initialized = FALSE /\ planarInitialized = FALSE /\ nv12Initialized = FALSE
  /\ timingStages = <<>> /\ commands = <<>>
  /\ layout = Everywhere("Undefined") /\ holds = Everywhere(<<>>)
  /\ users = Everywhere({}) /\ dirty = Everywhere({}) /\ safe = Everywhere({})
  /\ ticks = [q \in Slot |-> None] /\ work = <<>>
  /\ shown = <<>> /\ captured = <<>>

-------------------------------------------------------------------------------
(* Commands, each in a sequence of its own. *)

Barrier(image, old, new, src, dst, from, to) ==
  <<[op |-> "barrier", image |-> image, old |-> old, new |-> new,
     src |-> src, dst |-> dst, from |-> from, to |-> to]>>

Copy(image)          == <<[op |-> "copy", image |-> image]>>
Pass(name, from, to) == <<[op |-> "pass", name |-> name, from |-> from, to |-> to]>>
Readback(image)      == <<[op |-> "readback", image |-> image]>>
Draw(images)         == <<[op |-> "draw", images |-> images]>>
Stamp(slot)          == <<[op |-> "stamp", slot |-> slot]>>

(* From one compute pass to the next one, or to the drawing. *)
Between(image, src, dst, to) == Barrier(image, "General", "General", src, dst, "Compute", to)

-------------------------------------------------------------------------------
(* recordProcessing: the upload. *)

External == storage = "D3D11Nv12"
Nv12     == storage # "CpuYuv420P"

CopyPlane(image, known) ==
  Barrier(image, IF known THEN "ShaderReadOnly" ELSE "Undefined", "TransferDst",
          IF known THEN {"ShaderRead"} ELSE {}, {"TransferWrite"},
          IF known THEN "Compute" ELSE "TopOfPipe", "Transfer")
  \o Copy(image)
  \o Barrier(image, "TransferDst", "ShaderReadOnly", {"TransferWrite"}, {"ShaderRead"},
             "Transfer", "Compute")

(* Slip: one flag for the planes of both formats. *)
UploadOneFlag ==
  CopyPlane("y", initialized)
  \o (IF Nv12 THEN CopyPlane("uv", initialized)
      ELSE CopyPlane("u", initialized) \o CopyPlane("v", initialized))

(* The format may change when the decoder falls back to software. *)
Upload ==
  CopyPlane("y", initialized)
  \o (IF Nv12 THEN CopyPlane("uv", nv12Initialized)
      ELSE CopyPlane("u", planarInitialized) \o CopyPlane("v", planarInitialized))

(* A D3D11 texture belongs to the external queue family otherwise. *)
AcquireExternal == Barrier("external", "External", "General", {}, {"ShaderRead"}, "TopOfPipe", "Compute")
ReleaseExternal == Barrier("external", "General", "External", {"ShaderRead"}, {}, "Compute", "BottomOfPipe")

ColorInputs == IF External THEN {"external"} ELSE IF Nv12 THEN {"y", "uv"} ELSE {"y", "u", "v"}

Color ==
  Barrier("working", IF initialized THEN "General" ELSE "Undefined", "General",
          IF initialized THEN {"ShaderRead"} ELSE {}, {"ShaderWrite"},
          IF initialized THEN "Compute" ELSE "TopOfPipe", "Compute")
  \o Pass("Color", ColorInputs, "working") \o Stamp(2)
  \o (IF External THEN ReleaseExternal ELSE <<>>)
  \o Between("working", {"ShaderWrite"}, {"ShaderRead"}, "Compute")

ClearTarget(image) ==
  Barrier(image, IF initialized THEN "General" ELSE "Undefined", "General",
          IF initialized THEN {"ShaderRead", "ShaderWrite", "TransferRead"} ELSE {},
          {"ShaderWrite"}, IF initialized THEN "AllCommands" ELSE "TopOfPipe", "Compute")

ClearTargets == ClearTarget("intermediate") \o ClearTarget("output") \o ClearTarget("comparisonOutput")

-------------------------------------------------------------------------------
(* recordMode: the passes of a mode, the first of them being pass number   *)
(* count of the frame, into the output or the comparison's.                *)

(* Slip: the sharpening pass of a comparison goes to the output. *)
SecondTarget(compareDest) == "output"

Target(compareDest) == IF compareDest THEN "comparisonOutput" ELSE "output"

RecordMode(m, count, compareDest) ==
  LET passes == PassesOf[m] IN
    IF Len(passes) = 1
    THEN Pass(passes[1], {"working"}, Target(compareDest)) \o Stamp(3 + count)
    ELSE Pass(passes[1], {"working"}, "intermediate") \o Stamp(3 + count)
         \o Between("intermediate", {"ShaderWrite"}, {"ShaderRead"}, "Compute")
         \o Pass(passes[2], {"intermediate"}, Target(compareDest)) \o Stamp(4 + count)

ModeA  == IF comparisonEnabled THEN comparisonA ELSE mode
Stages == PassesOf[ModeA] \o (IF comparisonEnabled THEN PassesOf[comparisonB] ELSE <<>>)

Upscale ==
  RecordMode(ModeA, 0, FALSE) \o Between("output", {"ShaderWrite"}, {"ShaderRead"}, "Fragment")

Compare ==
  Between("intermediate", {"ShaderRead", "ShaderWrite"}, {"ShaderWrite"}, "Compute")
  \o RecordMode(comparisonB, Len(PassesOf[ModeA]), TRUE)
  \o Between("comparisonOutput", {"ShaderWrite"}, {"ShaderRead"}, "Fragment")

(* Slip: the stamps behind the last pass are left out. *)
NoSpareStamps == <<>>

(* collectTimings reads every query, so the unused ones are written too.   *)
SpareStamps == SubSeq(Stamp(3) \o Stamp(4) \o Stamp(5) \o Stamp(6), Len(Stages) + 1, 4)

-------------------------------------------------------------------------------
(* The copy of a screenshot, of both outputs while comparing. *)

ToReadback(image) ==
  Barrier(image, "General", "TransferSrc", {"ShaderRead", "ShaderWrite", "TransferRead"},
          {"TransferRead"}, "AllCommands", "Transfer")
  \o Readback(image)

ToDrawing(image) ==
  Barrier(image, "TransferSrc", "General", {"TransferRead"}, {"ShaderRead"}, "Transfer", "Fragment")

Capture ==
  ToReadback("output")
  \o (IF comparisonEnabled THEN ToReadback("comparisonOutput") \o ToDrawing("comparisonOutput")
                           ELSE <<>>)
  \o ToDrawing("output")

Processing ==
  Stamp(0)
  \o (IF External THEN AcquireExternal ELSE Upload) \o Stamp(1)
  \o Color \o ClearTargets \o Upscale
  \o (IF comparisonEnabled THEN Compare ELSE <<>>)
  \o SpareStamps
  \o (IF screenshotRequest THEN Capture ELSE <<>>)

-------------------------------------------------------------------------------
(* The render thread. *)

(* The keys of one turn of the loop, in the order they are looked at:      *)
(* a mode, comparison on or off, and the mode as one of its two sides.     *)
Turn ==
  /\ renderPc = "loop"
  /\ mode' \in UpscaleMode
  /\ \E toggle, setA, setB \in BOOLEAN :
       /\ comparisonEnabled' = ((comparisonEnabled # toggle) \/ setA \/ setB)
       /\ comparisonA' = IF setA THEN mode' ELSE comparisonA
       /\ comparisonB' = IF setB THEN mode' ELSE comparisonB
  /\ screenshotRequest' \in {screenshotRequest, TRUE}
  /\ UNCHANGED <<renderPc, interop, storage, flags, timingStages, commands, sync, holds, results>>

(* The picture is in the staging buffer, or in a texture of its own. *)
PrepareFrame ==
  /\ renderPc = "loop"
  /\ storage' \in IF interop THEN {"D3D11Nv12"} ELSE {"CpuYuv420P", "CpuNv12"}
  /\ IF interop THEN /\ layout' = [layout EXCEPT !["external"] = "External"]
                     /\ holds' = [holds EXCEPT !["external"] = <<"Picture">>]
                     /\ users' = [users EXCEPT !["external"] = {}]
                     /\ safe' = [safe EXCEPT !["external"] = {}]
                     /\ UNCHANGED dirty
                ELSE UNCHANGED <<sync, holds>>
  /\ renderPc' = "record"
  /\ UNCHANGED <<settings, screenshotRequest, flags, timingStages, commands, results>>

RecordProcessing ==
  /\ renderPc = "record"
  /\ commands' = Processing
  /\ timingStages' = Stages
  /\ screenshotRequest' = FALSE
  /\ initialized' = TRUE
  /\ nv12Initialized' = (nv12Initialized \/ Nv12)
  /\ planarInitialized' = (planarInitialized \/ ~Nv12)
  /\ renderPc' = "present"
  /\ UNCHANGED <<settings, storage, sync, holds, results>>

(* beginPresent and endPresent.  The shader looks at the second image only *)
(* while comparing.                                                        *)
RecordPresent ==
  /\ renderPc = "present"
  /\ commands' = commands
       \o Draw(IF comparisonEnabled THEN <<"output", "comparisonOutput">> ELSE <<"output">>)
       \o Stamp(7) \o Stamp(8)
  /\ renderPc' = "submitted"
  /\ UNCHANGED <<settings, screenshotRequest, storage, flags, timingStages, sync, holds, results>>

(* The fence is signalled, and the flight comes round again: its queries   *)
(* are reset, and what its images hold is of an earlier frame now.         *)
Completed == renderPc = "submitted" /\ commands = <<>>

AcquireFrame ==
  /\ Completed
  /\ holds' = Everywhere(<<>>)
  /\ ticks' = [q \in Slot |-> None] /\ work' = <<>>
  /\ shown' = <<>> /\ captured' = <<>>
  /\ storage' = None /\ timingStages' = <<>>
  /\ renderPc' = "loop"
  /\ UNCHANGED <<settings, screenshotRequest, flags, commands, sync>>

-------------------------------------------------------------------------------
(* The GPU: external.  A command is looked at in the order of recording;   *)
(* whether it may overlap an earlier one is what users, dirty and safe     *)
(* are for.                                                                *)

Access(image, stage, kind, in) == [image |-> image, stage |-> stage, kind |-> kind, layout |-> in]

Sampled(image) == IF image \in Planes THEN "ShaderReadOnly" ELSE "General"

Accesses(c) ==
  CASE c.op = "copy"     -> {Access(c.image, "Transfer", "TransferWrite", "TransferDst")}
    [] c.op = "readback" -> {Access(c.image, "Transfer", "TransferRead", "TransferSrc")}
    [] c.op = "pass"     -> {Access(i, "Compute", "ShaderRead", Sampled(i)) : i \in c.from}
                              \union {Access(c.to, "Compute", "ShaderWrite", "General")}
    [] c.op = "draw"     -> {Access(i, "Fragment", "ShaderRead", "General") : i \in ToSet(c.images)}
    [] OTHER             -> {}

Writes == {"ShaderWrite", "TransferWrite"}

(* What command c leaves for the next barrier of image i. *)
Kinds(c, i)  == {a.kind : a \in {b \in Accesses(c) : b.image = i}}
StagesOf(c, i) == {a.stage : a \in {b \in Accesses(c) : b.image = i}}

Command == Head(commands)

Execute(ops) ==
  /\ renderPc = "submitted" /\ commands # <<>> /\ Command.op \in ops
  /\ commands' = Tail(commands)
  /\ UNCHANGED <<renderPc, settings, screenshotRequest, storage, flags, timingStages>>

Touch(c) ==
  /\ users' = [i \in Image |-> users[i] \union StagesOf(c, i)]
  /\ dirty' = [i \in Image |-> dirty[i] \union (Kinds(c, i) \intersect Writes)]
  /\ safe'  = [i \in Image |-> IF Kinds(c, i) = {} THEN safe[i]
                               ELSE IF Kinds(c, i) \intersect Writes # {} THEN {}
                               ELSE {s \in safe[i] : s[2] \notin Writes}]
  /\ UNCHANGED layout

ExecuteBarrier ==
  /\ Execute({"barrier"})
  /\ LET c == Command IN
       /\ layout' = [layout EXCEPT ![c.image] = c.new]
       /\ holds'  = [holds EXCEPT ![c.image] = IF c.old = "Undefined" THEN <<>> ELSE @]
       /\ users'  = [users EXCEPT ![c.image] = {c.to}]
       /\ dirty'  = [dirty EXCEPT ![c.image] = {}]
       /\ safe'   = [safe EXCEPT ![c.image] = {c.to} \X c.dst]
  /\ UNCHANGED results

(* A pass makes its target of what all its inputs hold. *)
Made(c) ==
  IF \E v \in {holds[i] : i \in c.from} : v # <<>> /\ \A i \in c.from : holds[i] = v
  THEN Append(holds[CHOOSE i \in c.from : TRUE], c.name) ELSE <<>>

ExecuteWrite ==
  /\ Execute({"copy", "pass"}) /\ Touch(Command)
  /\ LET c == Command IN
       IF c.op = "copy" THEN /\ holds' = [holds EXCEPT ![c.image] = <<"Picture">>]
                             /\ work' = Append(work, "Copy")
                        ELSE /\ holds' = [holds EXCEPT ![c.to] = Made(c)]
                             /\ work' = Append(work, c.name)
  /\ UNCHANGED <<ticks, shown, captured>>

ExecuteReadback ==
  /\ Execute({"readback"}) /\ Touch(Command)
  /\ captured' = Append(captured, holds[Command.image])
  /\ work' = Append(work, "Readback")
  /\ UNCHANGED <<holds, ticks, shown>>

ExecuteDraw ==
  /\ Execute({"draw"}) /\ Touch(Command)
  /\ shown' = [k \in DOMAIN Command.images |-> holds[Command.images[k]]]
  /\ work' = Append(work, "Draw")
  /\ UNCHANGED <<holds, ticks, captured>>

ExecuteStamp ==
  /\ Execute({"stamp"})
  /\ ticks' = [ticks EXCEPT ![Command.slot] = Len(work)]
  /\ UNCHANGED <<sync, holds, work, shown, captured>>

Next ==
  \/ Turn \/ PrepareFrame \/ RecordProcessing \/ RecordPresent \/ AcquireFrame
  \/ ExecuteBarrier \/ ExecuteWrite \/ ExecuteReadback \/ ExecuteDraw \/ ExecuteStamp

Spec == Init /\ [][Next]_vars

-------------------------------------------------------------------------------
(* A barrier names the layout its image has, or gives the contents up, and *)
(* waits for everything that used the image before and for what was        *)
(* written; any other command finds its images in the layout it wants,     *)
(* with a barrier behind every access it must not overlap; a query is      *)
(* written once.                                                           *)
Ordered(c) ==
  /\ c.op = "barrier" =>
       /\ c.old \in {"Undefined", layout[c.image]}
       /\ c.from = "AllCommands" \/ users[c.image] \subseteq {c.from}
       /\ dirty[c.image] \subseteq c.src
  /\ \A a \in Accesses(c) : layout[a.image] = a.layout /\ <<a.stage, a.kind>> \in safe[a.image]
  /\ c.op = "stamp" => ticks[c.slot] = None

(* Whatever the sequence of formats, modes, comparisons and screenshots, no *)
(* command overlaps one it depends on, nor finds an image in another layout. *)
CommandsOrdered == renderPc = "submitted" /\ commands # <<>> => Ordered(Head(commands))

Upscaled(m) == <<"Picture", "Color">> \o PassesOf[m]

(* What is drawn is this frame's picture, upscaled by the mode chosen, or  *)
(* by the two modes compared, each on its side; a screenshot has the same. *)
ShowsChosenModes ==
  Completed =>
    /\ shown = IF comparisonEnabled THEN <<Upscaled(comparisonA), Upscaled(comparisonB)>>
                                    ELSE <<Upscaled(mode)>>
    /\ captured \in {<<>>, shown}

Interval(first, last) == SubSeq(work, ticks[first] + 1, ticks[last])

(* Every time that is reported is that of the work it is reported for.     *)
TimingsMatch ==
  Completed =>
    /\ \A q \in Slot : ticks[q] # None
    /\ \A k \in DOMAIN timingStages : Interval(1 + k, 2 + k) = <<timingStages[k]>>
    /\ ToSet(Interval(0, 1)) \subseteq {"Copy"} /\ Interval(1, 2) = <<"Color">>
    /\ "Draw" \in ToSet(Interval(6, 7))
    /\ Interval(0, 8) = work
===============================================================================
