-------------------------------- MODULE Window --------------------------------
(***************************************************************************)
(* The window of the viewers (viewer/render): window, frontend and backend *)
(* from construction through the passes of update() to destruction.  SDL,  *)
(* the GL driver and ImGui are libraries whose calls need what was made    *)
(* before; a pass may end in an exception of the draw callback.            *)
(***************************************************************************)
EXTENDS Gl

VARIABLES
  pc,            \* the step of main(), update() or a destructor that is next
  made,          \* which of window, context, ImGui and backend exist
  version,       \* of the backend
  gl,
  font_texture,  \* g_FontTexture, or NoTexture
  stop,
  framebuffer,   \* it has pixels: the window is not minimised
  list,          \* the textures in ImGui's draw lists, in order
  screen,        \* what those textures contained when they were drawn
  orphaned,      \* a library was called that was not there
  exit_code

window == <<made, version, gl, font_texture, stop, framebuffer, list, screen, orphaned, exit_code>>

WindowInit ==
  /\ made = {} /\ version = "none"
  /\ gl = NewContext /\ font_texture = NoTexture
  /\ stop = FALSE /\ framebuffer = TRUE
  /\ list = <<>> /\ screen = <<>>
  /\ orphaned = FALSE /\ exit_code = "none"

(* A call into libraries that have to be there.                            *)
Calls(libraries) == orphaned' = (orphaned \/ ~ libraries \subseteq made)

(* How far the constructor had come when it throws: the window has no      *)
(* destructor then, and the first failure of SDL_CreateWindow shows when   *)
(* the context is made.                                                    *)
FailedConstructions == {{}, {"window"}, {"window", "context"}}

(* frontend::frontend: the driver decides which backend is made.           *)
BackendOf(major, es) ==
  IF major >= 3 THEN IF es THEN "gles3" ELSE "opengl3"
  ELSE IF es THEN "gles2" ELSE "opengl2"

ConstructWindow ==
  /\ pc = "construct"
  /\ \E major \in {2, 3}, es \in BOOLEAN : version' = BackendOf(major, es)
  /\ made' = {"window", "context", "imgui", "backend"}
  /\ pc' = "load"
  /\ UNCHANGED <<gl, font_texture, stop, framebuffer, list, screen, orphaned, exit_code>>

ConstructionFails ==
  /\ pc = "construct"
  /\ made' \in FailedConstructions
  /\ pc' = "exited" /\ exit_code' = "failure"
  /\ UNCHANGED <<version, gl, font_texture, stop, framebuffer, list, screen, orphaned>>

(* The loop of run() and the events of one update().  A request to stop is *)
(* looked at when the pass is over.                                        *)
PollEvents ==
  /\ pc = "loop" /\ ~ stop
  /\ stop' \in BOOLEAN
  /\ framebuffer' \in BOOLEAN
  /\ Calls({"window", "imgui"})
  /\ pc' = "new_frame"
  /\ UNCHANGED <<made, version, gl, font_texture, list, screen, exit_code>>

CanStop ==
  /\ pc = "loop" /\ stop
  /\ exit_code' = "success"
  /\ pc' = "views"
  /\ UNCHANGED <<made, version, gl, font_texture, stop, framebuffer, list, screen, orphaned>>

(* frontend::new_frame, and the viewport and background of update().  The  *)
(* device objects are made in the first pass.                              *)
BeginPass ==
  /\ pc = "new_frame"
  /\ IF font_texture # NoTexture
       THEN gl' = [gl EXCEPT !.viewport = "window"] /\ UNCHANGED font_texture
       ELSE \E n \in Free(gl) :
              /\ gl' = [NewFrame(version, gl, n) EXCEPT !.viewport = "window"]
              /\ font_texture' = n
  /\ list' = <<>>
  /\ Calls({"context", "imgui", "backend"})
  /\ pc' = "draw"
  /\ UNCHANGED <<made, version, stop, framebuffer, screen, exit_code>>

(* frontend::render and the swap of buffers.                               *)
EndPass ==
  /\ pc = "render"
  /\ IF framebuffer
       THEN LET drawn == Render(version, gl, list) IN gl' = drawn.gl /\ screen' = drawn.seen
       ELSE UNCHANGED <<gl, screen>>
  /\ Calls({"window", "context", "imgui", "backend"})
  /\ pc' = "loop"
  /\ UNCHANGED <<made, version, font_texture, stop, framebuffer, list, exit_code>>

(* Mutant: the context goes first. *)
DestructionOrder_ContextFirst == <<"views", "context", "frontend", "window", "exited">>

(* The rest of window::~window once the frontend is gone, and               *)
(* frontend::~frontend before: the backend gives back what it made while   *)
(* the context and ImGui are still there.                                  *)
DestructionOrder == <<"views", "frontend", "context", "window", "exited">>

Following(step) ==
  LET i == CHOOSE i \in DOMAIN DestructionOrder : DestructionOrder[i] = step IN
  DestructionOrder[i + 1]

DestroyFrontend ==
  /\ pc = "frontend"
  /\ gl' = Shutdown(version, gl, font_texture)
  /\ font_texture' = NoTexture
  /\ Calls({"context", "imgui", "backend"})
  /\ made' = made \ {"backend", "imgui"}
  /\ pc' = Following(pc)
  /\ UNCHANGED <<version, stop, framebuffer, list, screen, exit_code>>

DeleteContext ==
  /\ pc = "context"
  /\ gl' = NewContext
  /\ Calls({"window"})
  /\ made' = made \ {"context"}
  /\ pc' = Following(pc)
  /\ UNCHANGED <<version, font_texture, stop, framebuffer, list, screen, exit_code>>

DestroyWindow ==
  /\ pc = "window"
  /\ Calls({})
  /\ made' = made \ {"window"}
  /\ pc' = Following(pc)
  /\ UNCHANGED <<version, gl, font_texture, stop, framebuffer, list, screen, exit_code>>

WindowStep ==
  \/ ConstructWindow \/ ConstructionFails
  \/ PollEvents \/ CanStop \/ BeginPass \/ EndPass
  \/ DestroyFrontend \/ DeleteContext \/ DestroyWindow
=============================================================================
