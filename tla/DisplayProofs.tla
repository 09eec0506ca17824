--------------------------- MODULE DisplayProofs ---------------------------
(***************************************************************************)
(* Theorems about Display for any frames, texture names, OCR results and   *)
(* documents: window, context, ImGui and backend are taken down in order,  *)
(* the entry that is asked for is shown, textures have one owner, and what *)
(* is drawn is the frame, with the state of the context put back.          *)
(***************************************************************************)
EXTENDS Display, SequenceTheorems, WellFoundedInduction, TLAPS

Everything == {"window", "context", "imgui", "backend"}

(* What exists at each step of the two programs.                           *)
MadeAt(step) ==
  CASE step \in {"cli", "parse", "construct"} -> {}
    [] step = "context" -> {"window", "context"}
    [] step = "window" -> {"window"}
    [] OTHER -> Everything

Steps == {"cli", "parse", "construct", "load", "image", "loop", "new_frame", "draw", "frame",
          "render", "views", "frontend", "context", "window", "exited"}

LibrariesInv ==
  /\ pc \in Steps
  /\ orphaned = FALSE
  /\ pc \in {"cli", "parse", "construct"} => version = "none"
  /\ pc # "exited" => made = MadeAt(pc)
  /\ pc = "exited" => version = "none" \/ made = {}

(* The backend a driver gets has a name of its own.                        *)
LEMMA BackendIsNamed == \A major \in {2, 3}, es \in BOOLEAN : BackendOf(major, es) # "none"
  BY DEF BackendOf

(* The destructors follow each other in the order of the declarations.     *)
LEMMA FollowingSteps ==
  /\ Following("views") = "frontend" /\ Following("frontend") = "context"
  /\ Following("context") = "window" /\ Following("window") = "exited"
<1> DEFINE order == <<"views", "frontend", "context", "window", "exited">>
<1>1. /\ DOMAIN order = 1 .. 5
      /\ order[1] = "views" /\ order[2] = "frontend" /\ order[3] = "context"
      /\ order[4] = "window" /\ order[5] = "exited"
  OBVIOUS
<1>2. ASSUME NEW k \in 1 .. 4 PROVE Following(order[k]) = order[k + 1]
  <2>1. \A i \in DOMAIN order : order[i] = order[k] => i = k
    BY <1>1
  <2>2. (CHOOSE i \in DOMAIN order : order[i] = order[k]) = k
    BY <1>1, <2>1
  <2> QED
    BY <2>2 DEF Following, DestructionOrder
<1> QED
  BY <1>1, <1>2

(* The steps of the window.                                                *)
LEMMA WindowStepLibraries == LibrariesInv /\ WindowStep => LibrariesInv'
<1> SUFFICES ASSUME LibrariesInv, WindowStep PROVE LibrariesInv'
    OBVIOUS
<1> USE DEF LibrariesInv, MadeAt, Everything, Steps, Calls
<1>1. CASE ConstructWindow
  BY <1>1, BackendIsNamed DEF ConstructWindow
<1>2. CASE ConstructionFails
  BY <1>2 DEF ConstructionFails
<1>3. CASE PollEvents
  BY <1>3 DEF PollEvents
<1>4. CASE CanStop
  BY <1>4 DEF CanStop
<1>5. CASE BeginPass
  BY <1>5 DEF BeginPass
<1>6. CASE EndPass
  BY <1>6 DEF EndPass
<1>7. CASE DestroyFrontend
  BY <1>7, FollowingSteps DEF DestroyFrontend
<1>8. CASE DeleteContext
  BY <1>8, FollowingSteps DEF DeleteContext
<1>9. CASE DestroyWindow
  BY <1>9, FollowingSteps DEF DestroyWindow
<1> QED
  BY <1>1, <1>2, <1>3, <1>4, <1>5, <1>6, <1>7, <1>8, <1>9 DEF WindowStep

(* The steps of the views, where an exception may leave a pass.            *)
LEMMA StepLibraries == LibrariesInv /\ [Next]_vars => LibrariesInv'
<1> SUFFICES ASSUME LibrariesInv, [Next]_vars PROVE LibrariesInv'
    OBVIOUS
<1>1. CASE WindowStep
  BY <1>1, WindowStepLibraries
<1> USE DEF LibrariesInv, MadeAt, Everything, Steps, Calls, Throw
<1>2. CASE RunOcrCli \/ ParseOptions
  BY <1>2 DEF RunOcrCli, ParseOptions, window
<1>3. CASE ReadDocument \/ LoadImage
  BY <1>3 DEF ReadDocument, LoadImage
<1>4. CASE DrawEntries \/ DrawResultFrame
  BY <1>4 DEF DrawEntries, DrawResultFrame
<1>5. CASE StartViewer \/ DrawResults
  BY <1>5 DEF StartViewer, DrawResults
<1>6. CASE SelectFrame
  BY <1>6 DEF SelectFrame
<1>7. CASE DrawNoImage \/ DrawImage
  BY <1>7 DEF DrawNoImage, DrawImage, window
<1>8. CASE DrawImageAndJump
  BY <1>8 DEF DrawImageAndJump
<1>9. CASE DestroyViews
  BY <1>9, FollowingSteps DEF DestroyViews
<1>10. CASE Exited \/ UNCHANGED vars
  BY <1>10 DEF Exited, vars, window
<1> QED
  BY <1>1, <1>2, <1>3, <1>4, <1>5, <1>6, <1>7, <1>8, <1>9, <1>10 DEF Next

(* Every library is called while what it needs exists, and a window that   *)
(* was made is taken down completely.                                      *)
THEOREM TornDownCorrect == Spec => []TornDownInOrder
<1>1. Init => LibrariesInv
  BY DEF Init, WindowInit, LibrariesInv, MadeAt, Steps
<1>2. LibrariesInv => TornDownInOrder
  BY DEF LibrariesInv, TornDownInOrder
<1> QED
  BY <1>1, <1>2, StepLibraries, PTL DEF Spec

-----------------------------------------------------------------------------
(* What a pass scrolls to.                                                 *)

(* A request of this pass is still waiting when the image is drawn, and    *)
(* the frame the image is of is known.                                     *)
RequestInv ==
  /\ app \in {"ocs-viewer", "ocr-results-viewer"}
  /\ app = "ocs-viewer" => pc \notin {"cli", "parse", "image"}
  /\ app = "ocs-viewer" /\ texture_handle # NoTexture => current \in Frames
  /\ pc = "frame" /\ asked # 0 /\ app = "ocs-viewer" => asked = 1 /\ scroll_to = 1
  /\ pc = "frame" /\ asked # 0 /\ app = "ocr-results-viewer" => selected = asked /\ scrolled = FALSE
  /\ AskedIsShown

(* The keys choose among the texts of the current frame.                   *)
LEMMA KeysInRange ==
  ASSUME current \in Frames, NEW key \in ScrollKeys
  PROVE  key \in 1 .. NumTexts[current]
<1>1. NumTexts[current] \in Nat \ {0}
  BY FramesAssumption
<1>2. ASSUME NEW k \in Nat PROVE Min({9, k}) \in Nat /\ Min({9, k}) <= k
  <2>1. CASE k <= 9
    <3>1. Min({9, k}) = k
      BY <2>1 DEF Min
    <3> QED
      BY <3>1
  <2>2. CASE ~ (k <= 9)
    <3>1. Min({9, k}) = 9
      BY <2>2 DEF Min
    <3> QED
      BY <2>2, <3>1
  <2> QED
    BY <2>1, <2>2
<1> QED
  BY <1>1, <1>2 DEF ScrollKeys

(* No step draws the image past a request.                                 *)
LEMMA StepRequest == RequestInv /\ [Next]_vars => RequestInv'
<1> SUFFICES ASSUME RequestInv, [Next]_vars PROVE RequestInv'
    OBVIOUS
<1> USE DEF RequestInv, AskedIsShown, Throw, ClientUnchanged, window, cli, results_viewer,
        frame_view, image
<1>1. ASSUME WindowStep, ClientUnchanged PROVE RequestInv'
  <2>1. pc' \notin {"cli", "parse", "image", "frame", "render"}
    BY <1>1, FollowingSteps
    DEF WindowStep, ConstructWindow, ConstructionFails, PollEvents, CanStop, BeginPass, EndPass,
        DestroyFrontend, DeleteContext, DestroyWindow
  <2> QED
    BY <1>1, <2>1
<1>2. CASE RunOcrCli \/ ParseOptions
  BY <1>2 DEF RunOcrCli, ParseOptions
<1>3. CASE ReadDocument \/ LoadImage
  BY <1>3 DEF ReadDocument, LoadImage
<1>4. CASE DrawEntries \/ DrawResultFrame
  BY <1>4 DEF DrawEntries, DrawResultFrame
<1>5. CASE StartViewer \/ DrawResults
  BY <1>5 DEF StartViewer, DrawResults
<1>6. CASE SelectFrame
  BY <1>6 DEF SelectFrame
<1>7. CASE DrawNoImage
  BY <1>7 DEF DrawNoImage
<1>8. CASE DrawImage
  <2>1. current \in Frames /\ NumTexts[current] \in Nat \ {0}
    BY <1>8, FramesAssumption DEF DrawImage
  <2>2. UNCHANGED <<app, current, texture_handle>> /\ pc' = "render"
    BY <1>8 DEF DrawImage
  <2>3. PICK key \in {0} \cup ScrollKeys :
          LET target == IF key = 0 THEN scroll_to ELSE key IN
          /\ asked' = IF key = 0 THEN asked ELSE key
          /\ Scrolled(target, NumTexts[current], dragging')
    BY <1>8 DEF DrawImage
  <2>4. CASE key = 0
    BY <1>8, <2>1, <2>2, <2>3, <2>4 DEF DrawImage, Scrolled
  <2>5. CASE key # 0
    <3>1. key \in 1 .. NumTexts[current]
      BY <2>1, <2>5, KeysInRange
    <3> QED
      BY <2>1, <2>2, <2>3, <2>5, <3>1 DEF Scrolled
  <2> QED
    BY <2>4, <2>5
<1>9. CASE DrawImageAndJump
  <2>1. \A f \in Frames : NumTexts[f] \in Nat \ {0}
    BY FramesAssumption
  <2> QED
    BY <1>9, <2>1 DEF DrawImageAndJump, Scrolled
<1>10. CASE DestroyViews
  BY <1>10, FollowingSteps DEF DestroyViews
<1>11. CASE Exited \/ UNCHANGED vars
  BY <1>11 DEF Exited, vars
<1> QED
  BY <1>1, <1>2, <1>3, <1>4, <1>5, <1>6, <1>7, <1>8, <1>9, <1>10, <1>11 DEF Next

(* The entry that was asked for in a pass is the one the pass scrolls to,  *)
(* whatever is dragged, pending or jumped to at the same time.             *)
THEOREM AskedIsShownCorrect == Spec => []AskedIsShown
<1>1. Init => RequestInv
  BY DEF Init, RequestInv, AskedIsShown
<1>2. RequestInv => AskedIsShown
  BY DEF RequestInv
<1> QED
  BY <1>1, <1>2, StepRequest, PTL DEF Spec

-----------------------------------------------------------------------------
(* What the renderers draw, and what they leave behind.                    *)

(* Counting up: what 0 has and each number hands to the next, all have.    *)
LEMMA CountingUp ==
  ASSUME NEW S, 0 \in S, \A n \in Nat : n \in S => n + 1 \in S
  PROVE  Nat \subseteq S
<1> DEFINE less == {ss \in Nat \X Nat : ss[1] < ss[2]}
           rest == Nat \ S
<1> SUFFICES ASSUME rest # {} PROVE FALSE
  OBVIOUS
<1>1. IsWellFoundedOn(less, Nat)
  <2>1. OpToRel(<, Nat) = less
    BY Zenon DEF OpToRel
  <2> QED
    BY <2>1, NatLessThanWellFounded, Zenon
<1>2. PICK least \in rest : \A m \in rest : ~ (<<m, least>> \in less)
  <2>1. rest \subseteq Nat
    OBVIOUS
  <2> HIDE DEF rest, less
  <2> QED
    BY <1>1, <2>1, WFMin
<1>3. least # 0 /\ least - 1 \in Nat /\ least - 1 \in S
  <2>1. least # 0 /\ least \in Nat
    OBVIOUS
  <2>2. least - 1 \in Nat /\ least - 1 < least
    BY <2>1
  <2>3. least - 1 \notin rest
    BY <1>2, <2>2
  <2> QED
    BY <2>1, <2>2, <2>3
<1> QED
  BY <1>3

(* The maximum of the first numbers is the last of them.                    *)
LEMMA MaxOfRange == ASSUME NEW i \in Nat \ {0} PROVE Max(1 .. i) = i
<1>1. \A x \in 1 .. i : (\A y \in 1 .. i : x >= y) <=> x = i
  OBVIOUS
<1>2. i \in 1 .. i
  OBVIOUS
<1> QED
  BY <1>1, <1>2 DEF Max

(* Drawing a list of commands.                                             *)
Undrawn(context) == [gl |-> context, seen |-> <<>>]

DrawOne(core, drawn, n) ==
  LET bound == BindTexture(drawn.gl, n, core) IN
  [gl |-> bound, seen |-> Append(drawn.seen, bound.textures[bound.texture])]

(* One step of the fold that DrawCommands is.                              *)
FoldStep(context, names, core, g, s) ==
  IF s = {} THEN Undrawn(context) ELSE DrawOne(core, g[s \ {Max(s)}], names[Max(s)])

Takes(g, context, names, core, n) ==
  g = [s \in SUBSET (1 .. n) |-> FoldStep(context, names, core, g, s)]

(* There is a function that takes these steps, for any number of commands. *)
LEMMA FoldIsDefined ==
  ASSUME NEW context, NEW names, NEW core, NEW n \in Nat
  PROVE  \E g : Takes(g, context, names, core, n)
<1> DEFINE Good(k) == \E g : Takes(g, context, names, core, k)
           good == {k \in Nat : Good(k)}
<1>1. 0 \in good
  <2> DEFINE g == [s \in SUBSET (1 .. 0) |-> Undrawn(context)]
  <2>1. 1 .. 0 = {}
    OBVIOUS
  <2>2. g = [s \in SUBSET (1 .. 0) |-> FoldStep(context, names, core, g, s)]
    BY <2>1 DEF FoldStep, Takes
  <2> QED
    BY <2>2 DEF Takes
<1>2. ASSUME NEW k \in Nat, k \in good PROVE k + 1 \in good
  <2>1. PICK g : Takes(g, context, names, core, k)
    BY <1>2
  <2> DEFINE last(s) == DrawOne(core, g[s \ {k + 1}], names[k + 1])
             f == [s \in SUBSET (1 .. k + 1) |-> IF k + 1 \in s THEN last(s) ELSE g[s]]
  <2>2. ASSUME NEW s \in SUBSET (1 .. k + 1) PROVE f[s] = FoldStep(context, names, core, f, s)
    <3>1. CASE s = {}
      <4>1. {} \in SUBSET (1 .. k) /\ g[{}] = Undrawn(context)
        BY <2>1 DEF FoldStep, Takes
      <4> QED
        BY <3>1, <4>1 DEF FoldStep
    <3>2. CASE k + 1 \in s
      <4>1. Max(s) = k + 1
        <5>1. k + 1 \in s /\ \A y \in s : k + 1 >= y
          BY <3>2
        <5>2. \A x \in s : (\A y \in s : x >= y) => x = k + 1
          BY <5>1
        <5> QED
          BY <5>1, <5>2 DEF Max
      <4>2. s \ {k + 1} \in SUBSET (1 .. k) /\ s \ {k + 1} \in SUBSET (1 .. k + 1) /\ k + 1 \notin s \ {k + 1}
        OBVIOUS
      <4>3. f[s \ {k + 1}] = g[s \ {k + 1}] /\ f[s] = last(s)
        BY <3>2, <4>2
      <4> QED
        BY <3>2, <4>1, <4>3 DEF FoldStep
    <3>3. CASE s # {} /\ k + 1 \notin s
      <4>1. s \in SUBSET (1 .. k)
        BY <3>3
      <4>2. s \ {Max(s)} \in SUBSET (1 .. k) /\ k + 1 \notin s \ {Max(s)}
        BY <3>3, <4>1
      <4>3. f[s \ {Max(s)}] = g[s \ {Max(s)}]
        BY <4>2
      <4>4. f[s] = g[s] /\ g[s] = FoldStep(context, names, core, g, s)
        BY <2>1, <3>3, <4>1 DEF Takes
      <4> QED
        BY <3>3, <4>3, <4>4 DEF FoldStep
    <3> QED
      BY <3>1, <3>2, <3>3
  <2>3. f = [s \in SUBSET (1 .. k + 1) |-> FoldStep(context, names, core, f, s)]
    <3> HIDE DEF last
    <3>1. f = [s \in SUBSET (1 .. k + 1) |-> f[s]]
      BY Zenon
    <3> HIDE DEF f
    <3> QED
      BY <2>2, <3>1
  <2> HIDE DEF f
  <2> QED
    BY <2>3 DEF Takes
<1>3. n \in good
  <2> HIDE DEF good
  <2> QED
    BY <1>1, <1>2, CountingUp
<1> QED
  BY <1>3

(* One command after the other: drawn[i] is what the first i come to.      *)
ByCommand(drawn, context, names, core, n) ==
  /\ drawn[0] = Undrawn(context)
  /\ \A i \in 1 .. n : drawn[i] = DrawOne(core, drawn[i - 1], names[i])
  /\ DrawCommands(context, names, core) = drawn[n]

(* The fold has these values, for any number of commands.                  *)
LEMMA DrawnByCommand ==
  ASSUME NEW context, NEW names, NEW core, NEW n \in Nat, DOMAIN names = 1 .. n
  PROVE  \E drawn : ByCommand(drawn, context, names, core, n)
<1> DEFINE g == CHOOSE k : Takes(k, context, names, core, n)
           h == [i \in 0 .. n |-> g[1 .. i]]
<1>1. Takes(g, context, names, core, n)
  BY FoldIsDefined, Zenon
<1>2. DrawCommands(context, names, core) = g[1 .. n]
  <2>1. DrawCommands(context, names, core) = (CHOOSE k : k = [s \in SUBSET DOMAIN names |-> FoldStep(context, names, core, k, s)])[DOMAIN names]
    BY DEF DrawCommands, Undrawn, DrawOne, FoldLeft, MapThenFoldSet, FoldStep
  <2> QED
    BY <2>1 DEF Takes
<1> HIDE DEF g
<1>3. h[0] = Undrawn(context)
  <2>1. 1 .. 0 = {} /\ {} \in SUBSET (1 .. n) /\ 0 \in 0 .. n
    OBVIOUS
  <2>2. g[{}] = FoldStep(context, names, core, g, {})
    BY <1>1, <2>1 DEF Takes
  <2> QED
    BY <2>1, <2>2 DEF FoldStep
<1>4. ASSUME NEW i \in 1 .. n PROVE h[i] = DrawOne(core, h[i - 1], names[i])
  <2>1. 1 .. i \in SUBSET (1 .. n) /\ i \in 0 .. n /\ i - 1 \in 0 .. n
    OBVIOUS
  <2>5. i \in 1 .. i
    OBVIOUS
  <2>4. (1 .. i) \ {i} = 1 .. (i - 1)
    OBVIOUS
  <2>2. g[1 .. i] = FoldStep(context, names, core, g, 1 .. i)
    BY <1>1, <2>1 DEF Takes
  <2>3. Max(1 .. i) = i
    BY MaxOfRange
  <2> QED
    BY <2>1, <2>2, <2>3, <2>4, <2>5 DEF FoldStep
<1> HIDE DEF h
<1>5. h[n] = g[1 .. n]
  BY DEF h
<1> QED
  BY <1>2, <1>3, <1>4, <1>5 DEF ByCommand

-----------------------------------------------------------------------------
(* What is known of a context all of whose fields are there.               *)
Arrays == {"none", "vao"}

Fields == {"texture", "program", "array_buffer", "vertex_array", "elements", "attributes", "modes",
           "viewport", "objects", "textures"}

IsContext(g) ==
  /\ DOMAIN g = Fields
  /\ g.vertex_array \in Arrays
  /\ DOMAIN g.elements = Arrays /\ DOMAIN g.attributes = Arrays /\ DOMAIN g.textures = TextureNames

(* h is g but for the texture bound, and names that came to life blank.    *)
DrawnFrom(g, h) ==
  /\ IsContext(h)
  /\ h.program = g.program /\ h.array_buffer = g.array_buffer /\ h.vertex_array = g.vertex_array
  /\ h.elements = g.elements /\ h.attributes = g.attributes
  /\ h.modes = g.modes /\ h.viewport = g.viewport /\ h.objects = g.objects
  /\ \A n \in TextureNames :
       h.textures[n] = g.textures[n] \/ (g.textures[n] = "dead" /\ h.textures[n] = "blank")

(* Binding a name changes the texture bound, and may bring it to life.     *)
LEMMA BindKeeps ==
  ASSUME NEW g, NEW h, DrawnFrom(g, h), NEW n, NEW core
  PROVE  DrawnFrom(g, BindTexture(h, n, core))
<1>1. CASE core /\ n \in Free(h)
  BY <1>1 DEF BindTexture
<1>2. CASE ~ (core /\ n \in Free(h))
  <2> DEFINE b == BindTexture(h, n, core)
             blank == [h.textures EXCEPT ![n] = IF @ = "dead" THEN "blank" ELSE @]
  <2>1. /\ DOMAIN blank = TextureNames
        /\ \A m \in TextureNames : blank[m] = h.textures[m] \/ (h.textures[m] = "dead" /\ blank[m] = "blank")
    BY DEF DrawnFrom, IsContext
  <2>2. b = [h EXCEPT !.texture = n, !.textures = blank]
    BY <1>2 DEF BindTexture
  <2> HIDE DEF blank
  <2>3. /\ DOMAIN b = Fields /\ b.textures = blank
        /\ b.program = h.program /\ b.array_buffer = h.array_buffer /\ b.vertex_array = h.vertex_array
        /\ b.elements = h.elements /\ b.attributes = h.attributes
        /\ b.modes = h.modes /\ b.viewport = h.viewport /\ b.objects = h.objects
    BY <2>2 DEF DrawnFrom, IsContext, Fields
  <2>4. DrawnFrom(g, b)
    <3> HIDE DEF b
    <3>1. \A m \in TextureNames :
            b.textures[m] = g.textures[m] \/ (g.textures[m] = "dead" /\ b.textures[m] = "blank")
      BY <2>1, <2>3 DEF DrawnFrom
    <3> QED
      BY <2>1, <2>3, <3>1 DEF DrawnFrom, IsContext
  <2> QED
    BY <2>4 DEF b
<1> QED
  BY <1>1, <1>2

(* Drawing commands changes the bindings and nothing else.                 *)
LEMMA CommandsKeep ==
  ASSUME NEW g, IsContext(g), NEW core, NEW names, NEW n \in Nat, DOMAIN names = 1 .. n
  PROVE  LET d == DrawCommands(g, names, core) IN
         DrawnFrom(g, d.gl) /\ d = [gl |-> d.gl, seen |-> d.seen]
<1>1. PICK h : ByCommand(h, g, names, core, n)
  BY DrawnByCommand
<1> DEFINE good == {i \in Nat : i <= n => DrawnFrom(g, h[i].gl)}
<1>2. 0 \in good
  BY <1>1 DEF ByCommand, Undrawn, DrawnFrom
<1>3. ASSUME NEW i \in Nat, i \in good PROVE i + 1 \in good
  <2> SUFFICES ASSUME i + 1 <= n PROVE DrawnFrom(g, h[i + 1].gl)
    OBVIOUS
  <2>1. i + 1 \in 1 .. n /\ (i + 1) - 1 = i /\ DrawnFrom(g, h[i].gl)
    BY <1>3
  <2>2. h[i + 1] = DrawOne(core, h[i], names[i + 1])
    BY <1>1, <2>1 DEF ByCommand
  <2>3. h[i + 1].gl = BindTexture(h[i].gl, names[i + 1], core)
    BY <2>2 DEF DrawOne
  <2> QED
    BY <2>1, <2>3, BindKeeps
<1>4. n \in good
  <2> HIDE DEF good
  <2> QED
    BY <1>2, <1>3, CountingUp
<1>5. h[n] = [gl |-> h[n].gl, seen |-> h[n].seen]
  <2>1. CASE n = 0
    BY <1>1, <2>1 DEF ByCommand, Undrawn
  <2>2. CASE n # 0
    <3>1. n \in 1 .. n
      BY <2>2
    <3>2. h[n] = DrawOne(core, h[n - 1], names[n])
      BY <1>1, <3>1 DEF ByCommand
    <3>3. PICK x, y : h[n] = [gl |-> x, seen |-> y]
      BY <3>2 DEF DrawOne
    <3> QED
      BY <3>3
  <2> QED
    BY <2>1, <2>2
<1> QED
  BY <1>1, <1>4, <1>5 DEF ByCommand

(* Appending to a list of one.                                             *)
LEMMA PairIs == ASSUME NEW p, NEW q PROVE Append(<<p>>, q) = <<p, q>>
<1> DEFINE a == Append(<<p>>, q)
           b == <<p, q>>
           S == {p, q}
<1>1. a \in Seq(S) /\ b \in Seq(S)
  OBVIOUS
<1>2. Len(a) = 2 /\ a[1] = p /\ a[2] = q
  OBVIOUS
<1>3. Len(b) = 2 /\ b[1] = p /\ b[2] = q
  OBVIOUS
<1>4. \A i \in 1 .. Len(a) : a[i] = b[i]
  <2> HIDE DEF a, b
  <2> QED
    BY <1>2, <1>3
<1> HIDE DEF a, b, S
<1>5. a = b
  BY <1>1, <1>2, <1>3, <1>4, SeqEqual
<1> QED
  BY <1>5 DEF a, b

(* Two commands draw what their textures contain: that is what is seen.    *)
LEMMA TwoCommands ==
  ASSUME NEW g, NEW core, NEW x, NEW y,
         NEW names, names = <<x>> \/ names = <<x, y>>
  PROVE  LET b == BindTexture(g, x, core)
             c == BindTexture(b, y, core)
         IN  /\ names = <<x>> => DrawCommands(g, names, core).seen = <<b.textures[b.texture]>>
             /\ names = <<x, y>> => DrawCommands(g, names, core).seen
                                      = <<b.textures[b.texture], c.textures[c.texture]>>
<1> DEFINE b == BindTexture(g, x, core)
           c == BindTexture(b, y, core)
<1>1. CASE names = <<x>>
  <2>1. DOMAIN names = 1 .. 1 /\ names[1] = x /\ names # <<x, y>>
    BY <1>1
  <2>2. PICK h : ByCommand(h, g, names, core, 1)
    BY <2>1, DrawnByCommand
  <2>3. h[1].seen = <<b.textures[b.texture]>>
    BY <2>1, <2>2 DEF ByCommand, Undrawn, DrawOne
  <2> QED
    BY <2>1, <2>2, <2>3 DEF ByCommand
<1>2. CASE names = <<x, y>>
  <2>1. DOMAIN names = 1 .. 2 /\ names[1] = x /\ names[2] = y /\ names # <<x>>
    BY <1>2
  <2>2. PICK h : ByCommand(h, g, names, core, 2)
    BY <2>1, DrawnByCommand
  <2>3. h[1].gl = b /\ h[1].seen = <<b.textures[b.texture]>>
    BY <2>1, <2>2 DEF ByCommand, Undrawn, DrawOne
  <2>4. h[2].seen = Append(h[1].seen, c.textures[c.texture])
    BY <2>1, <2>2, <2>3 DEF ByCommand, DrawOne
  <2>6. h[2].seen = <<b.textures[b.texture], c.textures[c.texture]>>
    BY <2>3, <2>4, PairIs
  <2> QED
    BY <2>1, <2>2, <2>6 DEF ByCommand
<1> QED
  BY <1>1, <1>2

-----------------------------------------------------------------------------
(* What rendering a pass, and making the device objects, leave of the      *)
(* context.                                                                *)

Restored(v, g, h) ==
  /\ IsContext(h)
  /\ h.texture = g.texture /\ h.program = g.program /\ h.array_buffer = g.array_buffer
  /\ h.vertex_array = g.vertex_array /\ h.modes = g.modes
  /\ h.elements["none"] = g.elements["none"]
  /\ v # "gles2" => h.attributes["none"] = g.attributes["none"]

(* The commands were drawn in a context with the textures of g.            *)
DrawnIn(g, names, seen) ==
  \E core, start :
    IsContext(start) /\ start.textures = g.textures /\ seen = DrawCommands(start, names, core).seen

Blanked(g, h) ==
  \A m \in TextureNames :
    h.textures[m] = g.textures[m] \/ (g.textures[m] = "dead" /\ h.textures[m] = "blank")

LEMMA RenderRestores ==
  ASSUME NEW g, IsContext(g), NEW v, NEW names, NEW n \in Nat, DOMAIN names = 1 .. n
  PROVE  LET r == Render(v, g, names) IN
         /\ Restored(v, g, r.gl) /\ r.gl.viewport = g.viewport
         /\ Blanked(g, r.gl) /\ DrawnIn(g, names, r.seen)
<1> DEFINE r == Render(v, g, names)
<1>1. CASE v = "gles2"
  <2> DEFINE s == [Es2Setup(g) EXCEPT !.array_buffer = "vbo", !.elements["none"] = "elements"]
             d == DrawCommands(s, names, FALSE)
  <2>1. DOMAIN Es2Setup(g) = Fields /\ Es2Setup(g).elements = g.elements
        /\ Es2Setup(g).textures = g.textures /\ Es2Setup(g).vertex_array = g.vertex_array
        /\ DOMAIN Es2Setup(g).attributes = Arrays
    BY DEF Es2Setup, IsContext, Fields
  <2>2. IsContext(s) /\ s.textures = g.textures /\ s.vertex_array = g.vertex_array
    BY <2>1 DEF IsContext, Fields
  <2>3. r = [d EXCEPT !.gl = Es2Restore(@, Es2Save(g))]
    BY <1>1 DEF Render, Es2RenderDrawLists, Es2DrawLists
  <2> HIDE DEF s
  <2>4. DrawnFrom(s, d.gl) /\ d = [gl |-> d.gl, seen |-> d.seen]
    BY <2>2, CommandsKeep
  <2> HIDE DEF d
  <2> DEFINE h == d.gl
             k == Es2Restore(h, Es2Save(g))
  <2>5. IsContext(h) /\ h.vertex_array = g.vertex_array /\ Blanked(g, h)
    BY <2>2, <2>4 DEF DrawnFrom, Blanked
  <2>6. r.gl = k /\ r.seen = d.seen
    BY <2>3, <2>4
  <2> HIDE DEF h, r
  <2>7. /\ DOMAIN k = Fields /\ k.texture = g.texture /\ k.program = g.program
        /\ k.array_buffer = g.array_buffer /\ k.modes = g.modes /\ k.viewport = g.viewport
        /\ k.vertex_array = h.vertex_array /\ k.attributes = h.attributes /\ k.textures = h.textures
        /\ k.elements = [h.elements EXCEPT !["none"] = g.elements["none"]]
    BY <2>5 DEF Es2Restore, Es2Save, IsContext, Fields
  <2>8. DOMAIN k.elements = Arrays /\ k.elements["none"] = g.elements["none"]
    BY <2>5, <2>7 DEF IsContext, Arrays
  <2> HIDE DEF k
  <2>9. Restored(v, g, k) /\ Blanked(g, k)
    BY <1>1, <2>5, <2>7, <2>8 DEF Restored, IsContext, Blanked
  <2>10. DrawnIn(g, names, d.seen)
    BY <2>2 DEF DrawnIn, d
  <2> QED
    BY <2>6, <2>7, <2>9, <2>10 DEF r
<1>2. CASE v = "gles3"
  <2> DEFINE u == Es3Setup(g)
             s == [u EXCEPT !.array_buffer = "vbo", !.elements[u.vertex_array] = "elements"]
             d == DrawCommands(s, names, FALSE)
  <2>1. DOMAIN u = Fields /\ u.elements = g.elements
        /\ u.textures = g.textures /\ u.vertex_array = "vao" /\ u.attributes = g.attributes
    BY DEF Es3Setup, IsContext, Fields
  <2>3. r = [d EXCEPT !.gl = Es3Restore(@, Es3Save(g))]
    BY <1>2 DEF Render, Es3RenderDrawLists, Es3DrawLists
  <2> HIDE DEF u
  <2>2. /\ IsContext(s) /\ s.textures = g.textures /\ s.attributes = g.attributes
        /\ s.elements["none"] = g.elements["none"]
    BY <2>1 DEF IsContext, Fields, Arrays
  <2> HIDE DEF s
  <2>4. DrawnFrom(s, d.gl) /\ d = [gl |-> d.gl, seen |-> d.seen]
    BY <2>2, CommandsKeep
  <2> HIDE DEF d
  <2> DEFINE h == d.gl
             k == Es3Restore(h, Es3Save(g))
  <2>5. /\ IsContext(h) /\ Blanked(g, h) /\ h.attributes = g.attributes
        /\ h.elements["none"] = g.elements["none"]
    BY <2>2, <2>4 DEF DrawnFrom, Blanked
  <2>6. r.gl = k /\ r.seen = d.seen
    BY <2>3, <2>4
  <2> HIDE DEF h, r
  <2>7. /\ DOMAIN k = Fields /\ k.texture = g.texture /\ k.program = g.program
        /\ k.array_buffer = g.array_buffer /\ k.modes = g.modes /\ k.viewport = g.viewport
        /\ k.vertex_array = g.vertex_array /\ k.attributes = h.attributes /\ k.textures = h.textures
        /\ k.elements = [h.elements EXCEPT ![g.vertex_array] = g.elements[g.vertex_array]]
    BY <2>5 DEF Es3Restore, Es3Save, IsContext, Fields
  <2>8. DOMAIN k.elements = Arrays /\ k.elements["none"] = g.elements["none"]
    BY <2>5, <2>7 DEF IsContext, Arrays
  <2> HIDE DEF k
  <2>9. Restored(v, g, k) /\ Blanked(g, k)
    BY <1>2, <2>5, <2>7, <2>8 DEF Restored, IsContext, Blanked
  <2>10. DrawnIn(g, names, d.seen)
    BY <2>2 DEF DrawnIn, d
  <2> QED
    BY <2>6, <2>7, <2>9, <2>10 DEF r
<1>3. CASE v \notin {"gles2", "gles3"}
  <2> DEFINE d == DrawCommands(g, names, v = "opengl3")
  <2>3. r = [d EXCEPT !.gl.texture = g.texture]
    BY <1>3 DEF Render, OpenGlRenderDrawData
  <2>4. DrawnFrom(g, d.gl) /\ d = [gl |-> d.gl, seen |-> d.seen]
    BY CommandsKeep
  <2>10. DrawnIn(g, names, d.seen)
    BY DEF DrawnIn
  <2> HIDE DEF d
  <2> DEFINE h == d.gl
             k == [h EXCEPT !.texture = g.texture]
  <2>6. r.gl = k /\ r.seen = d.seen
    BY <2>3, <2>4
  <2>5. DrawnFrom(g, h)
    BY <2>4
  <2> HIDE DEF h, r
  <2>7. /\ DOMAIN k = Fields /\ k.texture = g.texture /\ k.program = g.program
        /\ k.array_buffer = g.array_buffer /\ k.modes = g.modes /\ k.viewport = g.viewport
        /\ k.vertex_array = g.vertex_array /\ k.attributes = g.attributes /\ k.textures = h.textures
        /\ k.elements = g.elements
    BY <2>5 DEF DrawnFrom, IsContext, Fields
  <2> HIDE DEF k
  <2>9. Restored(v, g, k) /\ Blanked(g, k)
    BY <2>5, <2>7 DEF Restored, IsContext, Blanked, DrawnFrom
  <2> QED
    BY <2>6, <2>7, <2>9, <2>10 DEF r
<1> QED
  BY <1>1, <1>2, <1>3

(* Making the device objects leaves the bindings, and one texture more.    *)
LEMMA NewFrameRestores ==
  ASSUME NEW g, IsContext(g), NEW v, NEW n \in TextureNames
  PROVE  LET h == NewFrame(v, g, n) IN
         Restored(v, g, h) /\ h.textures = [g.textures EXCEPT ![n] = "font"]
<1> DEFINE h == NewFrame(v, g, n)
<1>1. CASE v = "gles2"
  <2>1. /\ DOMAIN h = Fields /\ h.texture = g.texture /\ h.program = g.program
        /\ h.array_buffer = g.array_buffer /\ h.modes = g.modes
        /\ h.vertex_array = g.vertex_array /\ h.elements = g.elements
        /\ DOMAIN h.attributes = Arrays
        /\ h.textures = [g.textures EXCEPT ![n] = "font"]
    BY <1>1 DEF NewFrame, Es2CreateDeviceObjects, Es2CreateFontsTexture, MakeTexture, IsContext, Fields
  <2> HIDE DEF h
  <2> QED
    BY <1>1, <2>1 DEF Restored, IsContext, h
<1>2. CASE v = "gles3"
  <2>1. /\ DOMAIN h = Fields /\ h.texture = g.texture /\ h.program = g.program
        /\ h.array_buffer = g.array_buffer /\ h.modes = g.modes
        /\ h.vertex_array = g.vertex_array /\ h.elements = g.elements
        /\ h.attributes = [g.attributes EXCEPT !["vao"] = "vbo"]
        /\ h.textures = [g.textures EXCEPT ![n] = "font"]
    BY <1>2 DEF NewFrame, Es3CreateDeviceObjects, Es3CreateFontsTexture, MakeTexture, IsContext, Fields
  <2>2. DOMAIN h.attributes = Arrays /\ h.attributes["none"] = g.attributes["none"]
    BY <2>1 DEF IsContext, Arrays
  <2> HIDE DEF h
  <2> QED
    BY <1>2, <2>1, <2>2 DEF Restored, IsContext, h
<1>3. CASE v \notin {"gles2", "gles3"}
  <2>1. /\ DOMAIN h = Fields /\ h.texture = g.texture /\ h.program = g.program
        /\ h.array_buffer = g.array_buffer /\ h.modes = g.modes
        /\ h.vertex_array = g.vertex_array /\ h.elements = g.elements
        /\ h.attributes = g.attributes
        /\ h.textures = [g.textures EXCEPT ![n] = "font"]
    BY <1>3 DEF NewFrame, MakeTexture, IsContext, Fields
  <2> HIDE DEF h
  <2> QED
    BY <2>1 DEF Restored, IsContext, h
<1> QED
  BY <1>1, <1>2, <1>3

(* A command list of one or two commands has a length.                     *)
LEMMA ListHasLength ==
  ASSUME NEW names, NEW x, NEW y, names = <<x>> \/ names = <<x, y>>
  PROVE  \E n \in Nat : DOMAIN names = 1 .. n
<1>1. names = <<x>> => DOMAIN names = 1 .. 1
  OBVIOUS
<1>2. names = <<x, y>> => DOMAIN names = 1 .. 2
  OBVIOUS
<1> QED
  BY <1>1, <1>2

(* Textures that are made and deleted.                                     *)
LEMMA MakeIs ==
  ASSUME NEW g, IsContext(g), NEW n \in TextureNames, NEW content
  PROVE  /\ IsContext(MakeTexture(g, n, content))
         /\ MakeTexture(g, n, content).textures = [g.textures EXCEPT ![n] = content]
<1> DEFINE h == MakeTexture(g, n, content)
<1>1. /\ DOMAIN h = Fields /\ h.vertex_array = g.vertex_array
      /\ h.elements = g.elements /\ h.attributes = g.attributes
      /\ h.textures = [g.textures EXCEPT ![n] = content]
  BY DEF MakeTexture, IsContext, Fields
<1> HIDE DEF h
<1> QED
  BY <1>1 DEF IsContext, h

LEMMA DeleteIs ==
  ASSUME NEW g, IsContext(g), NEW n \in TextureNames
  PROVE  /\ IsContext(DeleteTexture(g, n))
         /\ DeleteTexture(g, n).textures = [g.textures EXCEPT ![n] = "dead"]
<1> DEFINE h == DeleteTexture(g, n)
<1>1. /\ DOMAIN h = Fields /\ h.vertex_array = g.vertex_array
      /\ h.elements = g.elements /\ h.attributes = g.attributes
      /\ h.textures = [g.textures EXCEPT ![n] = "dead"]
  BY DEF DeleteTexture, IsContext, Fields
<1> HIDE DEF h
<1> QED
  BY <1>1 DEF IsContext, h

LEMMA NewContextIs == IsContext(NewContext) /\ \A n \in TextureNames : NewContext.textures[n] = "dead"
  BY DEF NewContext, IsContext, Fields, Arrays

LEMMA ShutdownIs ==
  ASSUME NEW g, IsContext(g), NEW v, NEW font \in TextureNames \cup {NoTexture}
  PROVE  LET h == Shutdown(v, g, font) IN
         /\ IsContext(h)
         /\ h.textures = IF font = NoTexture THEN g.textures ELSE [g.textures EXCEPT ![font] = "dead"]
<1> DEFINE e == [g EXCEPT !.objects = {}]
<1>1. /\ DOMAIN e = Fields /\ e.vertex_array = g.vertex_array
      /\ e.elements = g.elements /\ e.attributes = g.attributes /\ e.textures = g.textures
  BY DEF IsContext, Fields
<1>3. v \in {"gles2", "gles3"} =>
        Shutdown(v, g, font) = IF font = NoTexture THEN e ELSE DeleteTexture(e, font)
  <2>1. v = "gles2" => Shutdown(v, g, font) = Es2InvalidateDeviceObjects(g, font)
    BY DEF Shutdown
  <2>2. v = "gles3" => Shutdown(v, g, font) = Es3InvalidateDeviceObjects(g, font)
    BY DEF Shutdown
  <2> QED
    BY <2>1, <2>2, Zenon DEF Es2InvalidateDeviceObjects, Es3InvalidateDeviceObjects
<1>4. v \notin {"gles2", "gles3"} =>
        Shutdown(v, g, font) = IF font = NoTexture THEN g ELSE DeleteTexture(g, font)
  BY DEF Shutdown
<1> HIDE DEF e
<1>2. IsContext(e)
  BY <1>1 DEF IsContext
<1>5. font # NoTexture => /\ IsContext(DeleteTexture(e, font)) /\ IsContext(DeleteTexture(g, font))
                          /\ DeleteTexture(e, font).textures = [g.textures EXCEPT ![font] = "dead"]
                          /\ DeleteTexture(g, font).textures = [g.textures EXCEPT ![font] = "dead"]
  BY <1>1, <1>2, DeleteIs
<1> QED
  BY <1>1, <1>2, <1>3, <1>4, <1>5
-----------------------------------------------------------------------------
(* The textures, and the names in the draw lists.                          *)

(* The font and the image have names of their own, and no other texture    *)
(* holds an image.                                                         *)
TexturesInv ==
  /\ IsContext(gl)
  /\ texture_handle \in TextureNames \cup {NoTexture}
  /\ font_texture \in TextureNames \cup {NoTexture}
  /\ font_texture # NoTexture => gl.textures[font_texture] = "font"
  /\ pc = "context" => font_texture = NoTexture
  /\ texture_handle # NoTexture /\ pc \notin {"window", "exited"} => gl.textures[texture_handle] = Shown
  /\ pc \in {"cli", "parse", "construct", "load", "image"} => texture_handle = NoTexture
  /\ ImagesOwned

(* What a pass has in its draw list: the font, and the image there was.    *)
ListInv ==
  /\ jumped \in BOOLEAN
  /\ app = "ocr-results-viewer" => jumped = FALSE
  /\ app = "ocr-results-viewer" /\ pc \in {"loop", "new_frame", "draw", "frame", "render"} =>
       texture_handle # NoTexture
  /\ pc \in {"draw", "frame", "render"} => font_texture # NoTexture
  /\ pc = "frame" => list = <<font_texture>> /\ jumped = FALSE
  /\ pc = "render" /\ jumped = FALSE =>
       list = IF texture_handle = NoTexture THEN <<font_texture>> ELSE <<font_texture, texture_handle>>
  /\ pc = "render" /\ jumped # FALSE =>
       \E x \in TextureNames : list = <<font_texture, x>> /\ gl.textures[x] \in {"dead", Shown}

ImageInv == RequestInv /\ TexturesInv /\ ListInv

(* Kinds of content are told apart.                                        *)
LEMMA ContentsDiffer ==
  /\ Frames \cap {"image", "font", "blank", "dead"} = {}
  /\ NoTexture \notin TextureNames
  BY FramesAssumption, NamesAssumption

(* Another frame: the old image is deleted, and the new one, if there is   *)
(* one, may get its name.                                                  *)
LEMMA LoadedIs ==
  ASSUME TexturesInv, pc \notin {"window", "exited"}, Shown \in Frames \/ texture_handle = NoTexture,
         NEW f \in Frames, NEW loaded \in SetCurrentFrame(f)
  PROVE  /\ IsContext(loaded.gl)
         /\ loaded.handle \in TextureNames \cup {NoTexture}
         /\ font_texture # NoTexture => loaded.gl.textures[font_texture] = "font"
         /\ loaded.handle # NoTexture => loaded.gl.textures[loaded.handle] = f
         /\ texture_handle # NoTexture => loaded.gl.textures[texture_handle] \in {"dead", f}
         /\ \A n \in TextureNames : loaded.gl.textures[n] \in Frames \cup {"image"} => n = loaded.handle
<1> DEFINE g == IF texture_handle = NoTexture THEN gl ELSE DeleteTexture(gl, texture_handle)
<1>1. /\ IsContext(g)
      /\ font_texture # NoTexture => g.textures[font_texture] = "font"
      /\ texture_handle # NoTexture => g.textures[texture_handle] = "dead"
      /\ \A n \in TextureNames : g.textures[n] \notin Frames \cup {"image"}
  <2>1. CASE texture_handle = NoTexture
    BY <2>1, ContentsDiffer DEF TexturesInv, ImagesOwned
  <2>2. CASE texture_handle # NoTexture
    <3>1. texture_handle \in TextureNames /\ IsContext(gl) /\ DOMAIN gl.textures = TextureNames
      BY <2>2 DEF TexturesInv, IsContext
    <3>2. IsContext(g) /\ g.textures = [gl.textures EXCEPT ![texture_handle] = "dead"]
      BY <2>2, <3>1, DeleteIs
    <3>3. font_texture # texture_handle
      BY <2>2, ContentsDiffer DEF TexturesInv
    <3> HIDE DEF g
    <3> QED
      BY <2>2, <3>1, <3>2, <3>3, ContentsDiffer DEF TexturesInv, ImagesOwned
  <2> QED
    BY <2>1, <2>2
<1>2. loaded \in LoadedFrom(g, f)
  BY DEF SetCurrentFrame
<1> HIDE DEF g
<1>3. CASE \E n \in Free(g) : loaded = [gl |-> MakeTexture(g, n, f), handle |-> n, thrown |-> FALSE]
  <2>1. PICK n \in Free(g) : loaded = [gl |-> MakeTexture(g, n, f), handle |-> n, thrown |-> FALSE]
    BY <1>3
  <2>2. n \in TextureNames /\ g.textures[n] = "dead"
    BY DEF Free
  <2>3. loaded.gl = MakeTexture(g, n, f) /\ loaded.handle = n
    BY <2>1
  <2>4. IsContext(loaded.gl) /\ loaded.gl.textures = [g.textures EXCEPT ![n] = f]
    BY <1>1, <2>2, <2>3, MakeIs
  <2>5. DOMAIN g.textures = TextureNames
    BY <1>1 DEF IsContext
  <2> QED
    BY <1>1, <2>2, <2>3, <2>4, <2>5, ContentsDiffer DEF TexturesInv
<1>4. CASE loaded.gl = g /\ loaded.handle = NoTexture
  BY <1>1, <1>4, ContentsDiffer DEF TexturesInv
<1> QED
  BY <1>2, <1>3, <1>4 DEF LoadedFrom

LEMMA ViewportIs ==
  ASSUME NEW g, IsContext(g), NEW w
  PROVE  LET h == [g EXCEPT !.viewport = w] IN
         /\ IsContext(h)
         /\ h.textures = g.textures /\ h.elements = g.elements /\ h.attributes = g.attributes
         /\ h.texture = g.texture /\ h.program = g.program /\ h.array_buffer = g.array_buffer
         /\ h.vertex_array = g.vertex_array /\ h.modes = g.modes
<1> DEFINE h == [g EXCEPT !.viewport = w]
<1>1. /\ DOMAIN h = Fields
      /\ h.textures = g.textures /\ h.elements = g.elements /\ h.attributes = g.attributes
      /\ h.texture = g.texture /\ h.program = g.program /\ h.array_buffer = g.array_buffer
      /\ h.vertex_array = g.vertex_array /\ h.modes = g.modes
  BY DEF IsContext, Fields
<1> HIDE DEF h
<1>2. IsContext(h)
  BY <1>1 DEF IsContext
<1> QED
  BY <1>1, <1>2 DEF h

(* What beginning a pass does to the context.                              *)
LEMMA BeginPassIs ==
  ASSUME TexturesInv, BeginPass
  PROVE  /\ Restored(version, gl, gl')
         /\ font_texture' \in TextureNames
         /\ \/ font_texture' = font_texture /\ gl'.textures = gl.textures
            \/ /\ font_texture = NoTexture /\ gl.textures[font_texture'] = "dead"
               /\ gl'.textures = [gl.textures EXCEPT ![font_texture'] = "font"]
<1>1. IsContext(gl)
  BY DEF TexturesInv
<1>2. CASE font_texture # NoTexture
  <2>1. gl' = [gl EXCEPT !.viewport = "window"] /\ font_texture' = font_texture
    BY <1>2 DEF BeginPass
  <2> QED
    BY <1>1, <1>2, <2>1, ViewportIs DEF Restored, TexturesInv
<1>3. CASE font_texture = NoTexture
  <2>1. PICK n \in Free(gl) : gl' = [NewFrame(version, gl, n) EXCEPT !.viewport = "window"] /\ font_texture' = n
    BY <1>3 DEF BeginPass
  <2>2. n \in TextureNames /\ gl.textures[n] = "dead"
    BY DEF Free
  <2> DEFINE h == NewFrame(version, gl, n)
  <2>3. Restored(version, gl, h) /\ h.textures = [gl.textures EXCEPT ![n] = "font"]
    BY <1>1, <2>2, NewFrameRestores
  <2>4. gl' = [h EXCEPT !.viewport = "window"]
    BY <2>1
  <2> HIDE DEF h
  <2>5. IsContext(h)
    BY <2>3 DEF Restored
  <2>6. Restored(version, gl, gl') /\ gl'.textures = h.textures
    BY <2>3, <2>4, <2>5, ViewportIs DEF Restored
  <2> QED
    BY <1>3, <2>1, <2>2, <2>3, <2>6
<1> QED
  BY <1>2, <1>3

(* What ending a pass does, where there are pixels.                        *)
LEMMA EndPassIs ==
  ASSUME TexturesInv, ListInv, EndPass
  PROVE  /\ IsContext(gl') /\ Blanked(gl, gl')
         /\ framebuffer => Restored(version, gl, gl') /\ gl'.viewport = gl.viewport /\ DrawnIn(gl, list, screen')
         /\ ~ framebuffer => gl' = gl
<1>1. IsContext(gl) /\ Blanked(gl, gl)
  BY DEF TexturesInv, Blanked
<1>2. CASE framebuffer
  <2>1. gl' = Render(version, gl, list).gl /\ screen' = Render(version, gl, list).seen
    BY <1>2 DEF EndPass
  <2>2. \E x, y : list = <<x>> \/ list = <<x, y>>
    BY DEF EndPass, ListInv
  <2>3. PICK n \in Nat : DOMAIN list = 1 .. n
    BY <2>2, ListHasLength
  <2>4. Restored(version, gl, gl') /\ gl'.viewport = gl.viewport /\ Blanked(gl, gl') /\ DrawnIn(gl, list, screen')
    BY <1>1, <2>1, <2>3, RenderRestores
  <2> QED
    BY <1>2, <2>4 DEF Restored
<1>3. CASE ~ framebuffer
  BY <1>1, <1>3 DEF EndPass
<1> QED
  BY <1>2, <1>3

(* A step from one of these positions is the beginning or the end of a     *)
(* pass.                                                                   *)
LEMMA OnlyPasses ==
  ASSUME [Next]_vars
  PROVE  /\ pc = "new_frame" => BeginPass \/ UNCHANGED vars
         /\ pc = "render" => EndPass \/ UNCHANGED vars
<1>1. WindowStep /\ pc \in {"new_frame", "render"} => (pc = "new_frame" /\ BeginPass) \/ (pc = "render" /\ EndPass)
  BY DEF WindowStep, ConstructWindow, ConstructionFails, PollEvents, CanStop, BeginPass, EndPass,
         DestroyFrontend, DeleteContext, DestroyWindow
<1>2. pc \in {"new_frame", "render"} /\ Next => WindowStep
  BY DEF Next, RunOcrCli, ParseOptions, ReadDocument, LoadImage, DrawEntries, DrawResultFrame,
         StartViewer, DrawResults, SelectFrame, DrawNoImage, DrawImage, DrawImageAndJump,
         DestroyViews, Exited
<1> QED
  BY <1>1, <1>2

(* What is shown when nothing of it changes.                               *)
LEMMA SameShown == UNCHANGED <<app, current>> => Shown' = Shown
  BY DEF Shown

LEMMA ShownIsImage ==
  ASSUME RequestInv, texture_handle # NoTexture
  PROVE  Shown \in Frames \cup {"image"}
  BY DEF RequestInv, Shown

(* The steps of the window.                                                *)
LEMMA WindowStepTextures ==
  ASSUME ImageInv, WindowStep, ClientUnchanged
  PROVE  TexturesInv'
<1> USE DEF ImageInv, ClientUnchanged, cli, frame_view, image
<1>0. UNCHANGED <<app, current, texture_handle>> /\ Shown' = Shown
  BY SameShown
<1>10. texture_handle # NoTexture => Shown \in Frames \cup {"image"}
  BY ShownIsImage
<1>11. IsContext(gl)
  BY DEF TexturesInv
<1>1. CASE UNCHANGED <<gl, font_texture>> /\ pc' \notin {"context", "cli", "parse", "construct", "image"}
             /\ (pc' = "load" => pc = "construct") /\ (pc \in {"window", "exited"} => pc' \in {"window", "exited"})
  BY <1>0, <1>1 DEF TexturesInv, ImagesOwned
<1>2. CASE BeginPass
  <2>1. pc = "new_frame" /\ pc' = "draw"
    BY <1>2 DEF BeginPass
  <2>6. TexturesInv /\ DOMAIN gl.textures = TextureNames
    BY <1>11 DEF IsContext
  <2>7. /\ Restored(version, gl, gl') /\ font_texture' \in TextureNames
        /\ \/ font_texture' = font_texture /\ gl'.textures = gl.textures
           \/ /\ gl.textures[font_texture'] = "dead"
              /\ gl'.textures = [gl.textures EXCEPT ![font_texture'] = "font"]
    BY <1>2, <2>6, BeginPassIs
  <2>2. IsContext(gl') /\ font_texture' \in TextureNames /\ gl'.textures[font_texture'] = "font"
    <3>1. font_texture' = font_texture => gl.textures[font_texture'] = "font" \/ font_texture' = NoTexture
      BY DEF TexturesInv
    <3> QED
      BY <2>6, <2>7, <3>1, ContentsDiffer DEF Restored
  <2>3. \A n \in TextureNames :
          gl'.textures[n] = gl.textures[n] \/ (gl.textures[n] = "dead" /\ gl'.textures[n] = "font")
    BY <2>6, <2>7
  <2>4. texture_handle # NoTexture => gl'.textures[texture_handle] = Shown
    BY <2>1, <2>3, <1>10, ContentsDiffer DEF TexturesInv
  <2>5. ImagesOwned'
    BY <1>0, <2>3, ContentsDiffer DEF TexturesInv, ImagesOwned
  <2> QED
    BY <1>0, <2>1, <2>2, <2>4, <2>5 DEF TexturesInv
<1>3. CASE EndPass
  <2>1. pc = "render" /\ pc' = "loop" /\ font_texture' = font_texture
    BY <1>3 DEF EndPass
  <2>2. IsContext(gl') /\ Blanked(gl, gl')
    BY <1>3, EndPassIs
  <2>3. font_texture # NoTexture => gl'.textures[font_texture] = "font"
    BY <2>2 DEF Blanked, TexturesInv
  <2>4. texture_handle # NoTexture => gl'.textures[texture_handle] = Shown
    BY <2>1, <2>2, <1>10, ContentsDiffer DEF Blanked, TexturesInv
  <2>5. ImagesOwned'
    BY <1>0, <2>2, ContentsDiffer DEF Blanked, TexturesInv, ImagesOwned
  <2> QED
    BY <1>0, <2>1, <2>2, <2>3, <2>4, <2>5 DEF TexturesInv
<1>4. CASE DestroyFrontend
  <2>1. pc = "frontend" /\ pc' = "context" /\ font_texture' = NoTexture
        /\ gl' = Shutdown(version, gl, font_texture)
    BY <1>4, FollowingSteps DEF DestroyFrontend
  <2>2. /\ IsContext(gl')
        /\ gl'.textures = IF font_texture = NoTexture THEN gl.textures
                          ELSE [gl.textures EXCEPT ![font_texture] = "dead"]
    BY <1>11, <2>1, ShutdownIs DEF TexturesInv
  <2>3. \A n \in TextureNames : gl'.textures[n] = gl.textures[n] \/ (n = font_texture /\ gl'.textures[n] = "dead")
    BY <1>11, <2>2 DEF IsContext
  <2>4. texture_handle # NoTexture => gl'.textures[texture_handle] = Shown
    BY <2>1, <2>3, <1>10, ContentsDiffer DEF TexturesInv
  <2>5. ImagesOwned'
    BY <1>0, <2>3, ContentsDiffer DEF TexturesInv, ImagesOwned
  <2> QED
    BY <1>0, <2>1, <2>2, <2>4, <2>5 DEF TexturesInv
<1>5. CASE DeleteContext
  <2>1. pc = "context" /\ pc' = "window" /\ font_texture' = font_texture /\ gl' = NewContext
    BY <1>5, FollowingSteps DEF DeleteContext
  <2> QED
    BY <1>0, <2>1, NewContextIs, ContentsDiffer DEF TexturesInv, ImagesOwned
<1> QED
  BY <1>1, <1>2, <1>3, <1>4, <1>5, FollowingSteps
  DEF WindowStep, ConstructWindow, ConstructionFails, PollEvents, CanStop, DestroyWindow

(* The steps that change the image of ocs-viewer, and the others.          *)
LEMMA StepTextures ==
  ASSUME ImageInv, [Next]_vars
  PROVE  TexturesInv'
<1> USE DEF ImageInv
<1>11. IsContext(gl)
  BY DEF TexturesInv
<1>1. CASE WindowStep /\ ClientUnchanged
  BY <1>1, WindowStepTextures
<1>2. CASE /\ UNCHANGED <<gl, font_texture, app, current, texture_handle>>
           /\ pc' # "context" /\ (pc' \in {"cli", "parse", "construct", "load", "image"} =>
                                    pc \in {"cli", "parse", "construct", "load", "image"})
           /\ (pc \in {"window", "exited"} => pc' \in {"window", "exited"})
  BY <1>2, SameShown DEF TexturesInv, ImagesOwned
<1>3. CASE LoadImage
  <2>1. pc = "image" /\ texture_handle = NoTexture /\ app = "ocr-results-viewer"
        /\ UNCHANGED <<app, current, font_texture>> /\ pc' \in {"loop", "views"}
    BY <1>3 DEF LoadImage, TexturesInv, RequestInv, Throw, cli, frame_view
  <2>2. CASE UNCHANGED <<texture_handle, gl>>
    BY <2>1, <2>2, SameShown DEF TexturesInv, ImagesOwned
  <2>3. CASE \E n \in Free(gl) : texture_handle' = n /\ gl' = MakeTexture(gl, n, "image")
    <3>1. PICK n \in Free(gl) : texture_handle' = n /\ gl' = MakeTexture(gl, n, "image")
      BY <2>3
    <3>2. n \in TextureNames /\ gl.textures[n] = "dead" /\ DOMAIN gl.textures = TextureNames
      BY <1>11 DEF Free, IsContext
    <3>3. IsContext(gl') /\ gl'.textures = [gl.textures EXCEPT ![n] = "image"]
      BY <1>11, <3>1, <3>2, MakeIs
    <3>4. Shown' = "image"
      BY <2>1 DEF Shown
    <3> QED
      BY <2>1, <3>1, <3>2, <3>3, <3>4, ContentsDiffer DEF TexturesInv, ImagesOwned
  <2> QED
    BY <1>3, <2>2, <2>3 DEF LoadImage
<1>4. CASE SelectFrame \/ DrawImageAndJump
  <2>1. /\ pc \in {"draw", "frame"} /\ app = "ocs-viewer" /\ UNCHANGED <<app, font_texture>>
        /\ pc' \in {"frame", "render", "views"}
    BY <1>4 DEF SelectFrame, DrawImageAndJump, Throw, cli
  <2>2. Shown \in Frames \/ texture_handle = NoTexture
    BY <2>1 DEF Shown, RequestInv
  <2>3. PICK f \in Frames : \E loaded \in SetCurrentFrame(f) :
          current' = f /\ gl' = loaded.gl /\ texture_handle' = loaded.handle
    <3>1. CASE SelectFrame
      BY <3>1, Zenon DEF SelectFrame
    <3>2. CASE DrawImageAndJump
      BY <3>2, Zenon DEF DrawImageAndJump
    <3> QED
      BY <1>4, <3>1, <3>2
  <2>5. PICK loaded \in SetCurrentFrame(f) :
          current' = f /\ gl' = loaded.gl /\ texture_handle' = loaded.handle
    BY <2>3
  <2>4. Shown' = f
    BY <2>1, <2>5 DEF Shown
  <2> QED
    BY <2>1, <2>2, <2>4, <2>5, LoadedIs DEF TexturesInv, ImagesOwned
<1>5. CASE DestroyViews
  <2>1. pc = "views" /\ pc' = "frontend" /\ UNCHANGED <<app, current, font_texture>>
    BY <1>5, FollowingSteps DEF DestroyViews, cli, frame_view
  <2>2. CASE UNCHANGED <<gl, texture_handle>>
    BY <2>1, <2>2, SameShown DEF TexturesInv, ImagesOwned
  <2>3. CASE texture_handle # NoTexture /\ gl' = DeleteTexture(gl, texture_handle) /\ texture_handle' = NoTexture
    <3>1. texture_handle \in TextureNames /\ font_texture # texture_handle
      BY <2>1, <2>3, ContentsDiffer, ShownIsImage DEF TexturesInv
    <3>2. IsContext(gl') /\ gl'.textures = [gl.textures EXCEPT ![texture_handle] = "dead"]
      BY <1>11, <2>3, <3>1, DeleteIs
    <3> QED
      BY <1>11, <2>1, <2>3, <3>1, <3>2, ContentsDiffer DEF TexturesInv, ImagesOwned, IsContext
  <2> QED
    BY <1>5, <2>2, <2>3 DEF DestroyViews
<1>6. CASE UNCHANGED vars
  BY <1>2, <1>6 DEF vars, window, cli, frame_view, image, TexturesInv, ImagesOwned, Shown
<1>7. CASE RunOcrCli \/ ParseOptions
  BY <1>2, <1>7 DEF RunOcrCli, ParseOptions, ClientUnchanged, window, cli, frame_view, image
<1>8. CASE ReadDocument \/ StartViewer
  BY <1>2, <1>8 DEF ReadDocument, StartViewer, ClientUnchanged, Throw, cli, frame_view, image
<1>9. CASE DrawEntries \/ DrawResultFrame \/ DrawResults
  BY <1>2, <1>9 DEF DrawEntries, DrawResultFrame, DrawResults, cli, frame_view
<1>10. CASE DrawNoImage \/ DrawImage
  BY <1>2, <1>10 DEF DrawNoImage, DrawImage, ClientUnchanged, window, cli, frame_view, image
<1> QED
  BY <1>1, <1>3, <1>4, <1>5, <1>6, <1>7, <1>8, <1>9, <1>10 DEF Next, Exited

(* The draw list is filled in the order of a pass.                         *)
LEMMA StepList ==
  ASSUME ImageInv, [Next]_vars
  PROVE  ListInv'
<1> USE DEF ImageInv
<1>1. CASE WindowStep /\ ClientUnchanged
  <2>1. UNCHANGED <<app, texture_handle, jumped>>
    BY <1>1 DEF ClientUnchanged, cli, image
  <2>2. /\ pc' \notin {"frame", "render"} /\ (pc' = "draw" => BeginPass)
        /\ pc' \in {"loop", "new_frame", "draw"} => pc \in {"loop", "new_frame", "render"}
    BY <1>1, FollowingSteps
    DEF WindowStep, ConstructWindow, ConstructionFails, PollEvents, CanStop, BeginPass, EndPass,
        DestroyFrontend, DeleteContext, DestroyWindow
  <2>3. BeginPass => font_texture' # NoTexture
    BY BeginPassIs, ContentsDiffer
  <2> QED
    BY <2>1, <2>2, <2>3 DEF ListInv
<1>2. CASE RunOcrCli \/ ParseOptions \/ ReadDocument \/ StartViewer
  <2>1. pc' \notin {"new_frame", "draw", "frame", "render"} /\ UNCHANGED <<app, jumped>>
        /\ (pc' = "loop" => app = "ocs-viewer")
    BY <1>2 DEF RunOcrCli, ParseOptions, ReadDocument, StartViewer, ClientUnchanged, Throw, image, cli
  <2> QED
    BY <2>1 DEF ListInv
<1>3. CASE LoadImage
  <2>1. pc' \in {"loop", "views"} /\ UNCHANGED <<app, jumped>>
        /\ (pc' = "loop" => texture_handle' \in TextureNames)
    BY <1>3 DEF LoadImage, Throw, cli, Free
  <2> QED
    BY <2>1, ContentsDiffer DEF ListInv
<1>4. CASE DrawEntries \/ DrawResults
  <2>1. /\ pc = "draw" /\ pc' = "frame" /\ list' = <<font_texture>>
        /\ UNCHANGED <<app, font_texture, texture_handle>>
        /\ (jumped' = jumped /\ app = "ocr-results-viewer") \/ (jumped' = FALSE /\ app = "ocs-viewer")
    BY <1>4 DEF DrawEntries, DrawResults, cli
  <2> QED
    BY <2>1 DEF ListInv
<1>5. CASE SelectFrame
  <2>1. /\ pc = "draw" /\ pc' \in {"frame", "views"} /\ list' = <<font_texture>> /\ app = "ocs-viewer"
        /\ UNCHANGED <<app, font_texture>> /\ jumped' = FALSE
    BY <1>5 DEF SelectFrame, Throw, cli
  <2> QED
    BY <2>1 DEF ListInv
<1>6. CASE DrawResultFrame \/ DrawImage
  <2>1. /\ pc = "frame" /\ pc' = "render" /\ list' = Append(list, texture_handle)
        /\ UNCHANGED <<app, font_texture, texture_handle, jumped>>
        /\ app = "ocr-results-viewer" \/ texture_handle # NoTexture
    BY <1>6 DEF DrawResultFrame, DrawImage, cli
  <2>2. list' = <<font_texture, texture_handle>> /\ texture_handle # NoTexture /\ jumped = FALSE
    BY <2>1, PairIs DEF ListInv
  <2> QED
    BY <2>1, <2>2 DEF ListInv
<1>7. CASE DrawNoImage
  <2>1. /\ pc = "frame" /\ pc' = "render" /\ texture_handle = NoTexture /\ app = "ocs-viewer"
        /\ UNCHANGED <<app, font_texture, texture_handle, jumped, list>>
    BY <1>7 DEF DrawNoImage, ClientUnchanged, window, cli, image
  <2> QED
    BY <2>1 DEF ListInv
<1>8. CASE DrawImageAndJump
  <2>1. /\ pc = "frame" /\ pc' \in {"render", "views"} /\ list' = Append(list, texture_handle)
        /\ texture_handle # NoTexture /\ app = "ocs-viewer"
        /\ UNCHANGED <<app, font_texture>> /\ jumped' = TRUE
    BY <1>8 DEF DrawImageAndJump, Throw, cli
  <2>2. PICK f \in Frames : \E loaded \in SetCurrentFrame(f) : current' = f /\ gl' = loaded.gl
    BY <1>8, Zenon DEF DrawImageAndJump
  <2>3. PICK loaded \in SetCurrentFrame(f) : current' = f /\ gl' = loaded.gl
    BY <2>2
  <2>4. Shown \in Frames /\ Shown' = f /\ texture_handle \in TextureNames
    BY <2>1, <2>3 DEF Shown, RequestInv, TexturesInv
  <2>5. gl'.textures[texture_handle] \in {"dead", Shown'}
    BY <2>1, <2>3, <2>4, LoadedIs
  <2>6. list' = <<font_texture, texture_handle>>
    BY <2>1, PairIs DEF ListInv
  <2> QED
    BY <2>1, <2>4, <2>5, <2>6 DEF ListInv
<1>9. CASE DestroyViews
  <2>1. pc' = "frontend" /\ UNCHANGED <<app, jumped>>
    BY <1>9, FollowingSteps DEF DestroyViews, cli
  <2> QED
    BY <2>1 DEF ListInv
<1>10. CASE Exited \/ UNCHANGED vars
  BY <1>10 DEF ListInv, Shown, Exited, vars, window, cli, frame_view, image
<1> QED
  BY <1>1, <1>2, <1>3, <1>4, <1>5, <1>6, <1>7, <1>8, <1>9, <1>10 DEF Next

LEMMA InitImage == Init => ImageInv
<1> SUFFICES ASSUME Init PROVE ImageInv
  OBVIOUS
<1>1. RequestInv
  BY DEF Init, RequestInv, AskedIsShown
<1>2. gl = NewContext /\ texture_handle = NoTexture /\ font_texture = NoTexture
      /\ pc \in {"cli", "construct"} /\ jumped = FALSE
  BY DEF Init, WindowInit
<1>3. TexturesInv
  BY <1>2, NewContextIs, ContentsDiffer DEF TexturesInv, ImagesOwned
<1> QED
  BY <1>1, <1>2, <1>3 DEF ImageInv, ListInv

LEMMA StepImage == ImageInv /\ [Next]_vars => ImageInv'
  BY StepRequest, StepTextures, StepList DEF ImageInv

(* No image outlives its use, however frames are selected or fail to load. *)
THEOREM ImagesOwnedCorrect == Spec => []ImagesOwned
<1>1. ImageInv => ImagesOwned
  BY DEF ImageInv, TexturesInv
<1> QED
  BY <1>1, InitImage, StepImage, PTL DEF Spec

(* No renderer leaves a trace in the context it shares with the views.     *)
THEOREM StateRestoredCorrect == Spec => StateRestored
<1> DEFINE Step ==
      (pc \in {"new_frame", "render"}) =>
         /\ \A binding \in {"texture", "program", "array_buffer", "vertex_array", "modes"} :
              gl'[binding] = gl[binding]
         /\ pc = "render" => gl'.viewport = gl.viewport
         /\ version # "gles2" => gl'.attributes["none"] = gl.attributes["none"]
         /\ gl'.elements["none"] = gl.elements["none"]
<1>1. ImageInv /\ [Next]_vars => [Step]_vars
  <2> SUFFICES ASSUME ImageInv, [Next]_vars, pc \in {"new_frame", "render"}, ~ UNCHANGED vars PROVE Step
    OBVIOUS
  <2>1. CASE pc = "new_frame"
    <3>1. Restored(version, gl, gl')
      BY <2>1, OnlyPasses, BeginPassIs DEF ImageInv
    <3> QED
      BY <2>1, <3>1 DEF Restored
  <2>2. CASE pc = "render"
    <3>1. gl' = gl \/ (Restored(version, gl, gl') /\ gl'.viewport = gl.viewport)
      BY <2>2, OnlyPasses, EndPassIs DEF ImageInv
    <3> QED
      BY <2>2, <3>1 DEF Restored
  <2> QED
    BY <2>1, <2>2
<1> QED
  BY <1>1, InitImage, StepImage, PTL DEF Spec, StateRestored

(* What is drawn where the texture bound is one that exists, and where the *)
(* name is a dead one.                                                     *)
LEMMA BoundContent ==
  ASSUME NEW g, IsContext(g), NEW n \in TextureNames, NEW core
  PROVE  LET b == BindTexture(g, n, core) IN
         /\ g.textures[n] # "dead" => b.texture = n /\ \A m \in TextureNames : b.textures[m] = g.textures[m]
         /\ g.textures[n] = "dead" => b = g \/ (b.texture = n /\ b.textures[n] = "blank")
<1>1. DOMAIN g.textures = TextureNames /\ DOMAIN g = Fields
  BY DEF IsContext
<1>2. CASE core /\ n \in Free(g)
  BY <1>2 DEF BindTexture, Free
<1>3. CASE ~ (core /\ n \in Free(g))
  <2> DEFINE t == [g.textures EXCEPT ![n] = IF @ = "dead" THEN "blank" ELSE @]
             b == BindTexture(g, n, core)
  <2>1. b = [g EXCEPT !.texture = n, !.textures = t]
    BY <1>3 DEF BindTexture
  <2>2. /\ t[n] = IF g.textures[n] = "dead" THEN "blank" ELSE g.textures[n]
        /\ DOMAIN t = TextureNames /\ \A m \in TextureNames : m # n => t[m] = g.textures[m]
    BY <1>1
  <2> HIDE DEF t
  <2>3. b.texture = n /\ b.textures = t
    BY <1>1, <2>1 DEF Fields
  <2> HIDE DEF b
  <2>5. /\ g.textures[n] # "dead" => b.texture = n /\ \A m \in TextureNames : b.textures[m] = g.textures[m]
        /\ g.textures[n] = "dead" => b = g \/ (b.texture = n /\ b.textures[n] = "blank")
    BY <2>2, <2>3
  <2> QED
    BY <2>5 DEF b
<1> QED
  BY <1>2, <1>3

(* What is on the screen after a pass is the image of the current frame.   *)
THEOREM ImageShownCorrect == Spec => ImageShown
<1> DEFINE Step ==
      pc = "render" /\ framebuffer =>
       /\ jumped => screen'[2] \in {Shown, "blank", "font"}
       /\ ~ jumped => Tail(screen') = IF texture_handle = NoTexture THEN <<>> ELSE <<Shown>>
<1>1. ImageInv /\ [Next]_vars => [Step]_vars
  <2> SUFFICES ASSUME ImageInv, [Next]_vars, pc = "render", framebuffer, ~ UNCHANGED vars PROVE Step
    OBVIOUS
  <2>1. DrawnIn(gl, list, screen')
    BY OnlyPasses, EndPassIs DEF ImageInv
  <2>2. PICK core, start :
          IsContext(start) /\ start.textures = gl.textures /\ screen' = DrawCommands(start, list, core).seen
    BY <2>1 DEF DrawnIn
  <2>3. font_texture \in TextureNames /\ gl.textures[font_texture] = "font"
    BY DEF ImageInv, TexturesInv, ListInv
  <2> DEFINE b == BindTexture(start, font_texture, core)
             After(x) == BindTexture(b, x, core)
             Seen(x) == After(x).textures[After(x).texture]
  <2>4. /\ b.texture = font_texture /\ IsContext(b)
        /\ \A m \in TextureNames : b.textures[m] = gl.textures[m]
    <3>1. DrawnFrom(start, b)
      BY <2>2, BindKeeps DEF DrawnFrom
    <3> QED
      BY <2>2, <2>3, <3>1, BoundContent DEF DrawnFrom
  <2> HIDE DEF b
  <2>5. \A x \in TextureNames :
          /\ gl.textures[x] # "dead" => Seen(x) = gl.textures[x]
          /\ gl.textures[x] = "dead" => Seen(x) \in {"font", "blank"}
    BY <2>3, <2>4, BoundContent
  <2>6. /\ list = <<font_texture>> => screen' = <<b.textures[b.texture]>>
        /\ \A x : list = <<font_texture, x>> => screen' = <<b.textures[b.texture], Seen(x)>>
    BY <2>2, TwoCommands DEF b
  <2>7. CASE jumped
    <3>1. PICK x \in TextureNames : list = <<font_texture, x>> /\ gl.textures[x] \in {"dead", Shown}
      BY <2>7 DEF ImageInv, ListInv
    <3>2. Seen(x) \in {Shown, "blank", "font"} /\ screen' = <<b.textures[b.texture], Seen(x)>>
      BY <2>5, <2>6, <3>1
    <3> QED
      BY <2>7, <3>2
  <2>8. CASE jumped = FALSE /\ texture_handle = NoTexture
    <3>1. screen' = <<b.textures[b.texture]>>
      BY <2>6, <2>8 DEF ImageInv, ListInv
    <3> QED
      BY <2>8, <3>1
  <2>9. CASE jumped = FALSE /\ texture_handle # NoTexture
    <3>1. screen' = <<b.textures[b.texture], Seen(texture_handle)>>
      BY <2>6, <2>9 DEF ImageInv, ListInv
    <3>2. texture_handle \in TextureNames /\ gl.textures[texture_handle] = Shown /\ Shown # "dead"
      BY <2>9, ShownIsImage, ContentsDiffer DEF ImageInv, TexturesInv
    <3>3. Seen(texture_handle) = Shown
      BY <2>5, <3>2
    <3> HIDE DEF Seen
    <3>4. \A p, q : Tail(<<p, q>>) = <<q>>
      OBVIOUS
    <3> QED
      BY <2>9, <3>1, <3>3, <3>4
  <2> QED
    BY <2>7, <2>8, <2>9 DEF ImageInv, ListInv
<1> QED
  BY <1>1, InitImage, StepImage, PTL DEF Spec, ImageShown

-----------------------------------------------------------------------------
(* What the OCR library finds, and what is shown of it.                    *)
Reading(api, offered) == FoldLeft(LAMBDA read, word : ReadOne(api, read, word), <<>>, offered)

(* One step of the fold that Reading is.                              *)
WordStep(api, offered, g, s) ==
  IF s = {} THEN <<>> ELSE ReadOne(api, g[s \ {Max(s)}], offered[Max(s)])

TakesWords(g, api, offered, n) ==
  g = [s \in SUBSET (1 .. n) |-> WordStep(api, offered, g, s)]

(* There is a function that takes these steps, for any number of words. *)
LEMMA WordsAreTaken ==
  ASSUME NEW api, NEW offered, NEW n \in Nat
  PROVE  \E g : TakesWords(g, api, offered, n)
<1> DEFINE Good(k) == \E g : TakesWords(g, api, offered, k)
           good == {k \in Nat : Good(k)}
<1>1. 0 \in good
  <2> DEFINE g == [s \in SUBSET (1 .. 0) |-> <<>>]
  <2>1. 1 .. 0 = {}
    OBVIOUS
  <2>2. g = [s \in SUBSET (1 .. 0) |-> WordStep(api, offered, g, s)]
    BY <2>1 DEF WordStep, TakesWords
  <2> QED
    BY <2>2 DEF TakesWords
<1>2. ASSUME NEW k \in Nat, k \in good PROVE k + 1 \in good
  <2>1. PICK g : TakesWords(g, api, offered, k)
    BY <1>2
  <2> DEFINE last(s) == ReadOne(api, g[s \ {k + 1}], offered[k + 1])
             f == [s \in SUBSET (1 .. k + 1) |-> IF k + 1 \in s THEN last(s) ELSE g[s]]
  <2>2. ASSUME NEW s \in SUBSET (1 .. k + 1) PROVE f[s] = WordStep(api, offered, f, s)
    <3>1. CASE s = {}
      <4>1. {} \in SUBSET (1 .. k) /\ g[{}] = <<>>
        BY <2>1 DEF WordStep, TakesWords
      <4> QED
        BY <3>1, <4>1 DEF WordStep
    <3>2. CASE k + 1 \in s
      <4>1. Max(s) = k + 1
        <5>1. k + 1 \in s /\ \A y \in s : k + 1 >= y
          BY <3>2
        <5>2. \A x \in s : (\A y \in s : x >= y) => x = k + 1
          BY <5>1
        <5> QED
          BY <5>1, <5>2 DEF Max
      <4>2. s \ {k + 1} \in SUBSET (1 .. k) /\ s \ {k + 1} \in SUBSET (1 .. k + 1) /\ k + 1 \notin s \ {k + 1}
        OBVIOUS
      <4>3. f[s \ {k + 1}] = g[s \ {k + 1}] /\ f[s] = last(s)
        BY <3>2, <4>2
      <4> QED
        BY <3>2, <4>1, <4>3 DEF WordStep
    <3>3. CASE s # {} /\ k + 1 \notin s
      <4>1. s \in SUBSET (1 .. k)
        BY <3>3
      <4>2. s \ {Max(s)} \in SUBSET (1 .. k) /\ k + 1 \notin s \ {Max(s)}
        BY <3>3, <4>1
      <4>3. f[s \ {Max(s)}] = g[s \ {Max(s)}]
        BY <4>2
      <4>4. f[s] = g[s] /\ g[s] = WordStep(api, offered, g, s)
        BY <2>1, <3>3, <4>1 DEF TakesWords
      <4> QED
        BY <3>3, <4>3, <4>4 DEF WordStep
    <3> QED
      BY <3>1, <3>2, <3>3
  <2>3. f = [s \in SUBSET (1 .. k + 1) |-> WordStep(api, offered, f, s)]
    <3> HIDE DEF last
    <3>1. f = [s \in SUBSET (1 .. k + 1) |-> f[s]]
      BY Zenon
    <3> HIDE DEF f
    <3> QED
      BY <2>2, <3>1
  <2> HIDE DEF f
  <2> QED
    BY <2>3 DEF TakesWords
<1>3. n \in good
  <2> HIDE DEF good
  <2> QED
    BY <1>1, <1>2, CountingUp
<1> QED
  BY <1>3

(* One word after the other: read[i] is what the first i come to.      *)
ByWord(read, api, offered, n) ==
  /\ read[0] = <<>>
  /\ \A i \in 1 .. n : read[i] = ReadOne(api, read[i - 1], offered[i])
  /\ Reading(api, offered) = read[n]

(* The fold has these values, for any number of words.                  *)
LEMMA ReadByWord ==
  ASSUME NEW api, NEW offered, NEW n \in Nat, DOMAIN offered = 1 .. n
  PROVE  \E read : ByWord(read, api, offered, n)
<1> DEFINE g == CHOOSE k : TakesWords(k, api, offered, n)
           h == [i \in 0 .. n |-> g[1 .. i]]
<1>1. TakesWords(g, api, offered, n)
  BY WordsAreTaken, Zenon
<1>2. Reading(api, offered) = g[1 .. n]
  <2>1. Reading(api, offered) = (CHOOSE k : k = [s \in SUBSET DOMAIN offered |-> WordStep(api, offered, k, s)])[DOMAIN offered]
    BY DEF Reading, FoldLeft, MapThenFoldSet, WordStep
  <2> QED
    BY <2>1 DEF TakesWords
<1> HIDE DEF g
<1>3. h[0] = <<>>
  <2>1. 1 .. 0 = {} /\ {} \in SUBSET (1 .. n) /\ 0 \in 0 .. n
    OBVIOUS
  <2>2. g[{}] = WordStep(api, offered, g, {})
    BY <1>1, <2>1 DEF TakesWords
  <2> QED
    BY <2>1, <2>2 DEF WordStep
<1>4. ASSUME NEW i \in 1 .. n PROVE h[i] = ReadOne(api, h[i - 1], offered[i])
  <2>1. 1 .. i \in SUBSET (1 .. n) /\ i \in 0 .. n /\ i - 1 \in 0 .. n
    OBVIOUS
  <2>5. i \in 1 .. i
    OBVIOUS
  <2>4. (1 .. i) \ {i} = 1 .. (i - 1)
    OBVIOUS
  <2>2. g[1 .. i] = WordStep(api, offered, g, 1 .. i)
    BY <1>1, <2>1 DEF TakesWords
  <2>3. Max(1 .. i) = i
    BY MaxOfRange
  <2> QED
    BY <2>1, <2>2, <2>3, <2>4, <2>5 DEF WordStep
<1> HIDE DEF h
<1>5. h[n] = g[1 .. n]
  BY DEF h
<1> QED
  BY <1>2, <1>3, <1>4, <1>5 DEF ByWord

OcrEntry(e) == e = [text |-> e.text, position |-> e.position, confidence |-> e.confidence] /\ e.confidence \in Nat

(* The provider returns a list of entries.                                 *)
LEMMA EntriesAre ==
  ASSUME NEW api, NEW page \in Pages
  PROVE  \E n \in Nat : /\ DOMAIN DoOcr(api, page) = 1 .. n /\ Len(DoOcr(api, page)) = n
                        /\ \A i \in 1 .. n : OcrEntry(DoOcr(api, page)[i])
<1> DEFINE offered == Offered(api, page)
           W == ToSet(page)
           n == Len(offered)
           E == {[text |-> <<w.letters, b>>, position |-> w.position, confidence |-> w.confidence] :
                   w \in W, b \in Nat}
<1>1. page \in Seq(W) /\ \A w \in W : w \in [letters : Nat, blanks : Nat, boxed : BOOLEAN,
                                            position : {w.position}, confidence : Nat]
  BY PagesAssumption
<1> HIDE DEF W
<1>2. offered \in Seq(W)
  BY <1>1 DEF Offered
<1> HIDE DEF offered
<1>3. n \in Nat /\ DOMAIN offered = 1 .. n /\ \A i \in 1 .. n : offered[i] \in W
  BY <1>2
<1> HIDE DEF n
<1>4. PICK read : ByWord(read, api, offered, n)
  BY <1>3, ReadByWord
<1>5. ASSUME NEW w \in W PROVE Entry(w) \in E /\ Entry(Trimmed(w)) \in E
  <2>1. Entry(w) \in E
    <3>1. w.blanks \in Nat
      BY <1>1, <1>5
    <3> QED
      BY <1>5, <3>1 DEF Entry
  <2>2. /\ Trimmed(w).letters = w.letters /\ Trimmed(w).position = w.position
        /\ Trimmed(w).confidence = w.confidence /\ Trimmed(w).blanks = 0
    BY <1>1, <1>5 DEF Trimmed
  <2>3. Entry(Trimmed(w)) \in E
    <3>1. 0 \in Nat
      OBVIOUS
    <3>2. Entry(Trimmed(w)) = [text |-> <<w.letters, 0>>, position |-> w.position, confidence |-> w.confidence]
      BY <2>2 DEF Entry
    <3> QED
      BY <1>5, <3>1, <3>2
  <2> QED
    BY <2>1, <2>3
<1>6. \A e \in E : OcrEntry(e)
  BY <1>1 DEF OcrEntry
<1> HIDE DEF E
<1> DEFINE good == {i \in Nat : i <= n => read[i] \in Seq(E)}
<1>7. 0 \in good
  <2>1. read[0] = <<>>
    BY <1>4 DEF ByWord
  <2>2. <<>> \in Seq(E)
    OBVIOUS
  <2> QED
    BY <2>1, <2>2
<1>8. ASSUME NEW i \in Nat, i \in good PROVE i + 1 \in good
  <2> SUFFICES ASSUME i + 1 <= n PROVE read[i + 1] \in Seq(E)
    OBVIOUS
  <2>1. i + 1 \in 1 .. n /\ (i + 1) - 1 = i /\ read[i] \in Seq(E)
    BY <1>3, <1>8
  <2>2. read[i + 1] = ReadOne(api, read[i], offered[i + 1]) /\ offered[i + 1] \in W
    BY <1>3, <1>4, <2>1 DEF ByWord
  <2>3. Entry(offered[i + 1]) \in E /\ Entry(Trimmed(offered[i + 1])) \in E
    BY <1>5, <2>2
  <2> QED
    BY <2>1, <2>2, <2>3 DEF ReadOne, ReadWord, ReadText
<1>9. n \in good
  <2> HIDE DEF good
  <2> QED
    BY <1>3, <1>7, <1>8, CountingUp
<1>10. DoOcr(api, page) = read[n]
  <2>1. DoOcr(api, page) = Reading(api, offered)
    BY DEF DoOcr, Reading, offered
  <2> QED
    BY <1>4, <2>1 DEF ByWord
<1>11. DoOcr(api, page) \in Seq(E)
  BY <1>3, <1>9, <1>10
<1> DEFINE result == DoOcr(api, page)
<1> HIDE DEF result
<1>12. result \in Seq(E)
  BY <1>11 DEF result
<1>13. Len(result) \in Nat /\ DOMAIN result = 1 .. Len(result) /\ \A i \in 1 .. Len(result) : result[i] \in E
  BY <1>12
<1> QED
  BY <1>6, <1>13 DEF result

-----------------------------------------------------------------------------
(* From the arguments of ocr-cli to the boxes of ocr-results-viewer.       *)
Viewing == {"image", "loop", "new_frame", "draw", "frame", "render"}

Documents(recognized) == {NoDocument, PrintRaw(recognized), PrintJson(recognized)}

(* What is known of the document of an ocr-cli run, and of its entries     *)
(* once they were read.                                                    *)
PagesInv ==
  /\ pc = "cli" => provider = "none"
  /\ provider # "none" => words \in Pages /\ document \in Documents(DoOcr(provider, words))
  /\ app = "ocr-results-viewer" /\ provider # "none" /\ pc \in Viewing =>
       entries = LoadJson(PrintJson(DoOcr(provider, words)))

(* Nothing but JSON with entries is read.                                  *)
LEMMA ReadableIs ==
  ASSUME NEW recognized, NEW printed \in Documents(recognized), Readable(printed)
  PROVE  printed = PrintJson(recognized)
<1>1. ~ Readable(NoDocument) /\ ~ Readable(PrintRaw(recognized))
  BY DEF Readable, NoDocument, PrintRaw
<1> QED
  BY <1>1 DEF Documents

LEMMA PrintedIs ==
  ASSUME NEW api, NEW output, NEW obstacle, NEW page
  PROVE  OcrCli(api, output, obstacle, page).document \in Documents(DoOcr(api, page))
  BY DEF OcrCli, Documents

LEMMA StepPages == PagesInv /\ [Next]_vars => PagesInv'
<1> SUFFICES ASSUME PagesInv, [Next]_vars PROVE PagesInv'
  OBVIOUS
<1> USE DEF cli, results_viewer, frame_view, image, window
(* Steps that leave the documents alone, and do not lead into the view.    *)
<1>1. ASSUME UNCHANGED <<app, words, provider, document, entries>>, pc' # "cli",
             pc' \in Viewing => pc \in Viewing \/ app # "ocr-results-viewer"
      PROVE  PagesInv'
  BY <1>1 DEF PagesInv
<1>2. CASE WindowStep /\ ClientUnchanged
  <2>1. UNCHANGED <<app, words, provider, document, entries>>
    BY <1>2 DEF ClientUnchanged
  <2>2. pc' # "cli" /\ (pc' \in Viewing => pc \in Viewing)
    BY <1>2, FollowingSteps DEF WindowStep, ConstructWindow, ConstructionFails, PollEvents, CanStop,
       BeginPass, EndPass, DestroyFrontend, DeleteContext, DestroyWindow, Viewing
  <2> QED
    BY <1>1, <2>1, <2>2
<1>3. CASE RunOcrCli
  <2>1. pc = "cli" /\ pc' = "parse" /\ provider = "none"
    BY <1>3 DEF RunOcrCli, PagesInv
  <2>2. CASE document' \in OtherDocuments /\ UNCHANGED <<words, provider>>
    BY <2>1, <2>2 DEF PagesInv, Viewing
  <2>3. CASE \E output \in {"raw", "json"}, obstacle \in Obstacles :
               /\ words' \in Pages /\ provider' \in {"tess", "vkit"}
               /\ document' = OcrCli(provider', output, obstacle, words').document
    <3>1. words' \in Pages /\ document' \in Documents(DoOcr(provider', words'))
      BY <2>3, PrintedIs
    <3> QED
      BY <2>1, <3>1 DEF PagesInv, Viewing
  <2> QED
    BY <1>3, <2>2, <2>3 DEF RunOcrCli
<1>4. CASE ReadDocument
  <2>1. UNCHANGED <<app, words, provider, document>>
    BY <1>4 DEF ReadDocument
  <2>2. CASE Readable(document)
    <3>1. entries' = LoadJson(document) /\ pc' = "image"
      BY <1>4, <2>2 DEF ReadDocument
    <3>2. provider # "none" => document = PrintJson(DoOcr(provider, words))
      BY <2>2, ReadableIs DEF PagesInv
    <3> QED
      BY <2>1, <3>1, <3>2 DEF PagesInv
  <2>3. CASE ~ Readable(document)
    <3>1. pc' = "views" /\ entries' = entries
      BY <1>4, <2>3 DEF ReadDocument, Throw
    <3> QED
      BY <1>1, <2>1, <3>1 DEF Viewing
  <2> QED
    BY <2>2, <2>3
<1>5. CASE ParseOptions
  BY <1>1, <1>5 DEF ParseOptions, ClientUnchanged, Viewing
<1>6. CASE LoadImage
  BY <1>1, <1>6 DEF LoadImage, Throw, Viewing
<1>7. CASE DrawEntries
  BY <1>1, <1>7 DEF DrawEntries, Viewing
<1>8. CASE DrawResultFrame
  BY <1>1, <1>8 DEF DrawResultFrame, Viewing
<1>9. CASE StartViewer
  BY <1>1, <1>9 DEF StartViewer, Throw, ClientUnchanged, Viewing
<1>10. CASE DrawResults
  BY <1>1, <1>10 DEF DrawResults, Viewing
<1>11. CASE SelectFrame
  BY <1>1, <1>11 DEF SelectFrame, Throw, Viewing
<1>12. CASE DrawNoImage
  BY <1>1, <1>12 DEF DrawNoImage, ClientUnchanged, Viewing
<1>13. CASE DrawImage
  BY <1>1, <1>13 DEF DrawImage, Viewing
<1>14. CASE DrawImageAndJump
  BY <1>1, <1>14 DEF DrawImageAndJump, Throw, Viewing
<1>15. CASE DestroyViews
  BY <1>1, <1>15, FollowingSteps DEF DestroyViews, Viewing
<1>16. CASE UNCHANGED vars
  BY <1>16 DEF vars, PagesInv
<1> QED
  BY <1>2, <1>3, <1>4, <1>5, <1>6, <1>7, <1>8, <1>9, <1>10, <1>11, <1>12, <1>13, <1>14, <1>15,
     <1>16 DEF Next, Exited

(* Two decimal places cost less than ten thousandths.                      *)
LEMMA TruncatedIs ==
  ASSUME NEW c \in Nat
  PROVE  c - Truncated(c) \in 0 .. 9
<1>1. c \div 10 \in Int /\ c % 10 \in 0 .. 9 /\ c = 10 * (c \div 10) + (c % 10)
  OBVIOUS
<1> QED
  BY <1>1 DEF Truncated

(* Writing JSON and reading it keeps the entries in their order.           *)
LEMMA ReadBack ==
  ASSUME NEW n \in Nat, NEW recognized, DOMAIN recognized = 1 .. n,
         \A i \in 1 .. n : OcrEntry(recognized[i])
  PROVE  LET read == LoadJson(PrintJson(recognized)) IN
         /\ DOMAIN read = 1 .. n /\ Len(read) = n
         /\ \A i \in 1 .. n :
              /\ read[i].text = recognized[i].text /\ read[i].position = recognized[i].position
              /\ recognized[i].confidence - read[i].confidence \in 0 .. 9
<1> DEFINE printed == PrintJson(recognized)
           read == LoadJson(printed)
<1>1. /\ DOMAIN printed.entries = 1 .. n
      /\ \A i \in 1 .. n :
           printed.entries[i] = [recognized[i] EXCEPT !.confidence = Truncated(@)]
  BY DEF PrintJson
<1> HIDE DEF printed
<1>2. read = [i \in 1 .. n |-> LET entry == printed.entries[i] IN
                [text |-> entry.text, position |-> entry.position,
                 confidence |-> IF "confidence" \in DOMAIN entry THEN entry.confidence ELSE 100000]]
  BY <1>1 DEF LoadJson
<1>3. DOMAIN read = 1 .. n
  BY <1>2
<1>4. Len(read) = n
  <2>1. read \in Seq({read[i] : i \in 1 .. n})
    BY <1>2, <1>3
  <2> QED
    BY <1>3, <2>1
<1>5. ASSUME NEW i \in 1 .. n
      PROVE  /\ read[i].text = recognized[i].text /\ read[i].position = recognized[i].position
             /\ recognized[i].confidence - read[i].confidence \in 0 .. 9
  <2> DEFINE entry == printed.entries[i]
             confidence == recognized[i].confidence
  <2>1. /\ recognized[i] = [text |-> recognized[i].text, position |-> recognized[i].position,
                            confidence |-> confidence]
        /\ confidence \in Nat
    BY DEF OcrEntry
  <2>2. entry = [text |-> recognized[i].text, position |-> recognized[i].position,
                 confidence |-> Truncated(confidence)]
    BY <1>1, <2>1
  <2> HIDE DEF entry
  <2>3. "confidence" \in DOMAIN entry
    BY <2>2
  <2>4. read[i] = [text |-> entry.text, position |-> entry.position, confidence |-> entry.confidence]
    BY <1>2, <2>3 DEF entry
  <2>5. confidence - Truncated(confidence) \in 0 .. 9
    BY <2>1, TruncatedIs
  <2> QED
    BY <2>2, <2>4, <2>5
<1> QED
  BY <1>3, <1>4, <1>5 DEF printed

(* What ocr-results-viewer draws boxes for is what ocr-cli recognised, up  *)
(* to two decimal places of the confidence, for any words the library may  *)
(* find, any provider, output, failure, and documents of other programs.   *)
THEOREM ShownIsRecognizedCorrect == Spec => []ShownIsRecognized
<1>1. Init => PagesInv
  BY DEF Init, PagesInv
<1>2. PagesInv => ShownIsRecognized
  <2> SUFFICES ASSUME PagesInv, app = "ocr-results-viewer", provider # "none",
                      pc \in {"loop", "draw", "frame", "render"}
               PROVE  LET recognized == DoOcr(provider, words) IN
                      /\ Len(entries) = Len(recognized)
                      /\ \A i \in DOMAIN entries :
                           /\ entries[i].text = recognized[i].text
                           /\ entries[i].position = recognized[i].position
                           /\ recognized[i].confidence - entries[i].confidence \in 0 .. 9
    BY DEF ShownIsRecognized
  <2> DEFINE recognized == DoOcr(provider, words)
  <2>1. words \in Pages /\ entries = LoadJson(PrintJson(recognized))
    BY DEF PagesInv, Viewing
  <2>2. PICK n \in Nat : /\ DOMAIN recognized = 1 .. n /\ Len(recognized) = n
                         /\ \A i \in 1 .. n : OcrEntry(recognized[i])
    BY <2>1, EntriesAre
  <2> HIDE DEF recognized
  <2> QED
    BY <2>1, <2>2, ReadBack DEF recognized
<1> QED
  BY <1>1, <1>2, StepPages, PTL DEF Spec
=============================================================================
