------------------------------- MODULE Display -------------------------------
(***************************************************************************)
(* What the two viewers do with the window: the frame view of ocs-viewer,  *)
(* which changes its image while a pass is drawn, and ocr-results-viewer,  *)
(* which shows the document of an earlier ocr-cli.                         *)
(*                                                                         *)
(* Entries are numbered from 1; 0 is the code's -1.  Of the position the   *)
(* image is scrolled to only the entry in its middle is kept.              *)
(***************************************************************************)
EXTENDS Window, OcrTools

CONSTANTS
  Frames,          \* the frames the tree of results offers
  NumTexts,        \* how many texts each has
  Pages,           \* what the OCR library finds on the image, in order
  OtherDocuments   \* JSON written by something else

ASSUME FramesAssumption ==
  /\ NumTexts \in [Frames -> Nat \ {0}]
  /\ Frames \cap {"image", "font", "blank", "dead"} = {}

ASSUME PagesAssumption ==
  \A page \in Pages :
    /\ page \in Seq(ToSet(page))
    /\ \A word \in ToSet(page) :
         word \in [letters : Nat, blanks : Nat, boxed : BOOLEAN, position : {word.position},
                  confidence : Nat]

NoFrame == "no frame"

VARIABLES
  app,
  words, provider, document,   \* of the ocr-cli run, and what it printed
  entries, selected, scrolled, \* of ocr-results-viewer
  current, scroll_to,          \* current_frame_ and scroll_to_idx_ of frame_view
  texture_handle, dragging,
  scroll,   \* the entry in the middle of the view, or 0
  asked,    \* history: the entry asked for in this pass, or 0
  jumped    \* history: a key changed the frame after its image was drawn

cli == <<app, words, provider, document>>
results_viewer == <<entries, selected, scrolled>>
frame_view == <<current, scroll_to>>
image == <<texture_handle, dragging, scroll, asked, jumped>>
vars == <<pc, window, cli, results_viewer, frame_view, image>>

Init ==
  /\ WindowInit
  /\ \/ app = "ocs-viewer" /\ pc = "construct"
     \/ app = "ocr-results-viewer" /\ pc = "cli"
  /\ words = <<>> /\ provider = "none" /\ document = NoDocument
  /\ entries = <<>> /\ selected = 0 /\ scrolled = FALSE
  /\ current = NoFrame /\ scroll_to = 0
  /\ texture_handle = NoTexture /\ dragging = FALSE /\ scroll = 0
  /\ asked = 0 /\ jumped = FALSE

ClientUnchanged == UNCHANGED <<cli, results_viewer, frame_view, image>>

(* An exception leaves run(): the viewer is destroyed all the same.        *)
Throw == pc' = "views" /\ exit_code' = "failure"
-----------------------------------------------------------------------------
(* ocr-cli's output goes to the file that is viewed, or the file comes     *)
(* from somewhere else.                                                    *)
RunOcrCli ==
  /\ pc = "cli"
  /\ \/ \E output \in {"raw", "json"}, obstacle \in Obstacles :
          /\ words' \in Pages /\ provider' \in {"tess", "vkit"}
          /\ document' = OcrCli(provider', output, obstacle, words').document
     \/ document' \in OtherDocuments /\ UNCHANGED <<words, provider>>
  /\ pc' = "parse"
  /\ UNCHANGED <<window, app, results_viewer, frame_view, image>>

(* options::parse of ocr-results-viewer: missing files, also when only     *)
(* help was asked for.                                                     *)
ParseOptions ==
  /\ pc = "parse"
  /\ \/ pc' = "construct" /\ UNCHANGED exit_code
     \/ pc' = "exited" /\ exit_code' = "failure"
  /\ UNCHANGED <<made, version, gl, font_texture, stop, framebuffer, list, screen, orphaned>>
  /\ ClientUnchanged

ReadDocument ==
  /\ pc = "load" /\ app = "ocr-results-viewer"
  /\ IF Readable(document)
       THEN entries' = LoadJson(document) /\ pc' = "image" /\ UNCHANGED exit_code
       ELSE Throw /\ UNCHANGED entries
  /\ UNCHANGED <<made, version, gl, font_texture, stop, framebuffer, list, screen, orphaned,
                 cli, selected, scrolled, frame_view, image>>

(* load_image, and the constructor of texture.                             *)
LoadImage ==
  /\ pc = "image"
  /\ \/ /\ \E n \in Free(gl) : texture_handle' = n /\ gl' = MakeTexture(gl, n, "image")
        /\ Calls({"context"})
        /\ pc' = "loop" /\ UNCHANGED exit_code
     \/ Throw /\ UNCHANGED <<texture_handle, gl, orphaned>>
  /\ UNCHANGED <<made, version, font_texture, stop, framebuffer, list, screen,
                 cli, results_viewer, frame_view, dragging, scroll, asked, jumped>>

(* draw_entries_list; clicking on the selected entry counts as well.       *)
DrawEntries ==
  /\ pc = "draw" /\ app = "ocr-results-viewer"
  /\ \E clicked \in {0} \cup DOMAIN entries :
       /\ asked' = clicked
       /\ IF clicked = 0 THEN UNCHANGED <<selected, scrolled>>
          ELSE selected' = clicked /\ scrolled' = FALSE
  /\ list' = <<font_texture>>
  /\ pc' = "frame"
  /\ UNCHANGED <<made, version, gl, font_texture, stop, framebuffer, screen, orphaned, exit_code,
                 cli, entries, frame_view, texture_handle, dragging, scroll, jumped>>

(* Mutant: dragging has the last word. *)
DrawResultFrame_DragLast ==
  /\ pc = "frame" /\ app = "ocr-results-viewer"
  /\ list' = Append(list, texture_handle)
  /\ dragging' \in BOOLEAN
  /\ scroll' = IF dragging' THEN 0 ELSE IF selected # 0 /\ ~ scrolled THEN selected ELSE scroll
  /\ scrolled' = (scrolled \/ selected # 0)
  /\ pc' = "render"
  /\ UNCHANGED <<made, version, gl, font_texture, stop, framebuffer, screen, orphaned, exit_code,
                 cli, entries, selected, frame_view, texture_handle, asked, jumped>>

(* draw_frame: the image, handle_drag, then handle_selection_change.       *)
DrawResultFrame ==
  /\ pc = "frame" /\ app = "ocr-results-viewer"
  /\ list' = Append(list, texture_handle)
  /\ dragging' \in BOOLEAN
  /\ scroll' = IF selected # 0 /\ ~ scrolled THEN selected ELSE IF dragging' THEN 0 ELSE scroll
  /\ scrolled' = (scrolled \/ selected # 0)
  /\ pc' = "render"
  /\ UNCHANGED <<made, version, gl, font_texture, stop, framebuffer, screen, orphaned, exit_code,
                 cli, entries, selected, frame_view, texture_handle, asked, jumped>>
-----------------------------------------------------------------------------
(* The rest of viewer::viewer, where collect_files may throw.              *)
StartViewer ==
  /\ pc = "load" /\ app = "ocs-viewer"
  /\ \/ pc' = "loop" /\ UNCHANGED exit_code
     \/ Throw
  /\ UNCHANGED <<made, version, gl, font_texture, stop, framebuffer, list, screen, orphaned>>
  /\ ClientUnchanged

(* What decoding up to the frame comes to: an image, none, or an exception *)
(* of the decoder's constructor.                                           *)
LoadedFrom(g, f) ==
  {[gl |-> MakeTexture(g, n, f), handle |-> n, thrown |-> FALSE] : n \in Free(g)}
  \cup {[gl |-> g, handle |-> NoTexture, thrown |-> thrown] : thrown \in BOOLEAN}

(* Mutant: the old image stays. *)
SetCurrentFrame_KeepsImage(f) == LoadedFrom(gl, f)

(* Mutant: the handle of the old image stays where there is no new one. *)
SetCurrentFrame_KeepsHandle(f) ==
  {[loaded EXCEPT !.handle = IF @ = NoTexture THEN texture_handle ELSE @] :
     loaded \in LoadedFrom(IF texture_handle = NoTexture THEN gl ELSE DeleteTexture(gl, texture_handle), f)}

(* set_current_frame: the old image is gone before the new one is decoded. *)
SetCurrentFrame(f) ==
  LoadedFrom(IF texture_handle = NoTexture THEN gl ELSE DeleteTexture(gl, texture_handle), f)

(* search_results_view::draw, which comes before the frame view.           *)
DrawResults ==
  /\ pc = "draw" /\ app = "ocs-viewer"
  /\ asked' = 0 /\ jumped' = FALSE
  /\ pc' = "frame"
  /\ list' = <<font_texture>>
  /\ UNCHANGED <<made, version, gl, font_texture, stop, framebuffer, screen, orphaned, exit_code,
                 cli, results_viewer, frame_view, texture_handle, dragging, scroll>>

SelectFrame ==
  /\ pc = "draw" /\ app = "ocs-viewer"
  /\ list' = <<font_texture>>
  /\ Calls({"context"})
  /\ jumped' = FALSE
  /\ \E f \in Frames : \E loaded \in SetCurrentFrame(f) :
       /\ current' = f /\ gl' = loaded.gl /\ texture_handle' = loaded.handle
       /\ IF loaded.thrown THEN Throw /\ asked' = 0 /\ UNCHANGED <<scroll_to, dragging>>
          ELSE /\ pc' = "frame" /\ UNCHANGED exit_code
               /\ scroll_to' = 1 /\ asked' = 1 /\ dragging' = FALSE
  /\ UNCHANGED <<made, version, font_texture, stop, framebuffer, screen,
                 cli, results_viewer, scroll>>

(* frame_view::draw without a frame, or with an error in place of one: no  *)
(* key is looked at.                                                       *)
DrawNoImage ==
  /\ pc = "frame" /\ app = "ocs-viewer" /\ texture_handle = NoTexture
  /\ pc' = "render"
  /\ UNCHANGED window /\ ClientUnchanged

(* Digits choose one of the frame's texts, the space bar the first one if  *)
(* no other is pending.                                                    *)
ScrollKeys ==
  1 .. Min({9, NumTexts[current]}) \cup (IF scroll_to = 0 THEN {1} ELSE {})

(* The loop over the texts of the frame that is now current.               *)
Scrolled(target, num_texts, dragged) ==
  scroll' = IF target \in 1 .. num_texts THEN target ELSE IF dragged THEN 0 ELSE scroll

DrawImage ==
  /\ pc = "frame" /\ app = "ocs-viewer" /\ texture_handle # NoTexture
  /\ list' = Append(list, texture_handle)
  /\ dragging' \in BOOLEAN
  /\ \E key \in {0} \cup ScrollKeys :
       LET target == IF key = 0 THEN scroll_to ELSE key IN
       /\ asked' = IF key = 0 THEN asked ELSE key
       /\ Scrolled(target, NumTexts[current], dragging')
       /\ scroll_to' = IF target <= NumTexts[current] THEN 0 ELSE target
  /\ pc' = "render"
  /\ UNCHANGED <<made, version, gl, font_texture, stop, framebuffer, screen, orphaned, exit_code,
                 cli, results_viewer, current, texture_handle, jumped>>

(* ... with an arrow or page key: the image that is in the draw list       *)
(* already is deleted, and the rest of the pass draws the new frame.       *)
DrawImageAndJump ==
  /\ pc = "frame" /\ app = "ocs-viewer" /\ texture_handle # NoTexture
  /\ list' = Append(list, texture_handle)
  /\ jumped' = TRUE
  /\ Calls({"context"})
  /\ \E f \in Frames, dragged \in BOOLEAN : \E loaded \in SetCurrentFrame(f) :
       /\ current' = f /\ gl' = loaded.gl /\ texture_handle' = loaded.handle
       /\ IF loaded.thrown
            THEN Throw /\ dragging' = dragged /\ UNCHANGED <<scroll_to, scroll, asked>>
            ELSE /\ pc' = "render" /\ UNCHANGED exit_code
                 /\ dragging' = FALSE /\ asked' = 1 /\ scroll_to' = 0
                 /\ Scrolled(1, NumTexts[f], dragged)
  /\ UNCHANGED <<made, version, font_texture, stop, framebuffer, screen, cli, results_viewer>>

(* The members that are destroyed before the window: the texture of        *)
(* ocr-results-viewer, and views without a destructor of their own.        *)
DestroyViews ==
  /\ pc = "views"
  /\ IF app = "ocr-results-viewer" /\ texture_handle # NoTexture
       THEN /\ gl' = DeleteTexture(gl, texture_handle)
            /\ texture_handle' = NoTexture
            /\ Calls({"context"})
       ELSE UNCHANGED <<gl, texture_handle, orphaned>>
  /\ pc' = Following(pc)
  /\ UNCHANGED <<made, version, font_texture, stop, framebuffer, list, screen, exit_code,
                 cli, results_viewer, frame_view, dragging, scroll, asked, jumped>>

Exited == pc = "exited" /\ UNCHANGED vars

Next ==
  \/ WindowStep /\ ClientUnchanged
  \/ RunOcrCli \/ ParseOptions \/ ReadDocument \/ LoadImage \/ DrawEntries \/ DrawResultFrame
  \/ StartViewer \/ DrawResults \/ SelectFrame \/ DrawNoImage \/ DrawImage \/ DrawImageAndJump
  \/ DestroyViews \/ Exited

Spec == Init /\ [][Next]_vars
-----------------------------------------------------------------------------
(* Each library is called while what it needs exists, also where a pass    *)
(* was left by an exception, and a window that was made is taken down      *)
(* completely.                                                             *)
TornDownInOrder ==
  /\ ~ orphaned
  /\ pc = "exited" /\ version # "none" => made = {}

(* No renderer leaves a trace in the context it shares with the views,     *)
(* except that without vertex arrays the attributes stay as they are.      *)
StateRestored ==
  [][(pc \in {"new_frame", "render"}) =>
       /\ \A binding \in {"texture", "program", "array_buffer", "vertex_array", "modes"} :
            gl'[binding] = gl[binding]
       /\ pc = "render" => gl'.viewport = gl.viewport
       /\ version # "gles2" => gl'.attributes["none"] = gl.attributes["none"]
       /\ gl'.elements["none"] = gl.elements["none"]]_vars

(* No image outlives its use, however often frames are selected, fail to   *)
(* load or are left by an exception: there is one, and its handle is kept. *)
ImagesOwned ==
  \A n \in TextureNames : gl.textures[n] \in Frames \cup {"image"} => n = texture_handle

Shown == IF app = "ocs-viewer" THEN current ELSE "image"

(* What is on the screen after a pass is the image of the current frame,   *)
(* whichever names the driver gives out.  Where a key changed the frame    *)
(* within the pass the old name was drawn, and nothing is promised but     *)
(* that no frame is shown that is not the current one.                     *)
ImageShown ==
  [][pc = "render" /\ framebuffer =>
       /\ jumped => screen'[2] \in {Shown, "blank", "font"}
       /\ ~ jumped => Tail(screen') = IF texture_handle = NoTexture THEN <<>> ELSE <<Shown>>]_vars

(* The entry that was asked for in a pass, by a click, a digit, the space  *)
(* bar or by changing the frame, is the one the pass scrolls to, whatever  *)
(* dragging does at the same time.                                         *)
AskedIsShown ==
  pc = "render" /\ asked # 0 /\ texture_handle # NoTexture => scroll = asked

(* What ocr-results-viewer draws boxes for is what ocr-cli recognised, up  *)
(* to two decimal places of the confidence: a run that failed or printed   *)
(* something else leaves nothing that could be taken for a result.         *)
ShownIsRecognized ==
  app = "ocr-results-viewer" /\ provider # "none" /\ pc \in {"loop", "draw", "frame", "render"} =>
    LET recognized == DoOcr(provider, words) IN
    /\ Len(entries) = Len(recognized)
    /\ \A i \in DOMAIN entries :
         /\ entries[i].text = recognized[i].text
         /\ entries[i].position = recognized[i].position
         /\ recognized[i].confidence - entries[i].confidence \in 0 .. 9
=============================================================================
