---------------------------------- MODULE Gl ----------------------------------
(***************************************************************************)
(* The OpenGL context of a window, and what the renderers of               *)
(* viewer/render/imgui do to it: ImGui's draw lists refer to textures by   *)
(* name, which the driver gives out again once they are deleted.           *)
(*                                                                         *)
(* Of the context this module keeps the bindings, the element buffer and   *)
(* the attributes that belong to each vertex array, the content of every   *)
(* texture, and one value for all modes (blending, tests, scissor box,     *)
(* active texture) that are saved and restored together.                   *)
(***************************************************************************)
EXTENDS SequencesExt

CONSTANTS
  TextureNames,  \* bound: the names the driver has for textures
  NoTexture      \* the name 0

ASSUME NamesAssumption == NoTexture \notin TextureNames

Objects == {"program", "vertex_shader", "fragment_shader", "vbo", "elements", "vao"}
Versions == {"gles2", "gles3", "opengl2", "opengl3"}

NewContext ==
  [texture |-> NoTexture, program |-> "none", array_buffer |-> "none", vertex_array |-> "none",
   elements |-> [v \in {"none", "vao"} |-> "none"], attributes |-> [v \in {"none", "vao"} |-> "none"],
   modes |-> "default", viewport |-> "default",
   objects |-> {}, textures |-> [n \in TextureNames |-> "dead"]]

Free(g) == {n \in TextureNames : g.textures[n] = "dead"}

(* glGenTextures, glBindTexture and glTexImage2D.                          *)
MakeTexture(g, n, content) == [g EXCEPT !.textures[n] = content, !.texture = n]

DeleteTexture(g, n) ==
  [g EXCEPT !.textures[n] = "dead", !.texture = IF @ = n THEN NoTexture ELSE @]

(* Binding a name that was deleted is an error in the core profile, which  *)
(* leaves the binding as it is; elsewhere it makes a texture of that name. *)
BindTexture(g, n, core) ==
  IF core /\ n \in Free(g) THEN g
  ELSE [g EXCEPT !.texture = n, !.textures[n] = IF @ = "dead" THEN "blank" ELSE @]

(* The part all renderers share: each command binds its texture and draws. *)
DrawCommands(g, list, core) ==
  FoldLeft(LAMBDA drawn, n :
             LET bound == BindTexture(drawn.gl, n, core) IN
             [gl |-> bound, seen |-> Append(drawn.seen, bound.textures[bound.texture])],
           [gl |-> g, seen |-> <<>>], list)
-----------------------------------------------------------------------------
(* imgui_impl_sdl_es2.cpp.  There are no vertex arrays, and the attributes *)
(* are not restored.                                                       *)
Es2Save(g) ==
  [texture |-> g.texture, program |-> g.program, array_buffer |-> g.array_buffer,
   elements |-> g.elements["none"], modes |-> g.modes, viewport |-> g.viewport]

Es2Setup(g) ==
  [g EXCEPT !.modes = "imgui", !.viewport = "framebuffer", !.program = "program",
            !.array_buffer = "vbo", !.attributes["none"] = "vbo"]

Es2DrawLists(g, list) ==
  DrawCommands([g EXCEPT !.array_buffer = "vbo", !.elements["none"] = "elements"], list, FALSE)

Es2Restore(g, saved) ==
  [g EXCEPT !.program = saved.program, !.texture = saved.texture,
            !.array_buffer = saved.array_buffer, !.elements["none"] = saved.elements,
            !.modes = saved.modes, !.viewport = saved.viewport]

Es2RenderDrawLists(g, list) ==
  LET drawn == Es2DrawLists(Es2Setup(g), list) IN
  [drawn EXCEPT !.gl = Es2Restore(@, Es2Save(g))]

Es2CreateFontsTexture(g, n) == [MakeTexture(g, n, "font") EXCEPT !.texture = g.texture]

Es2CreateDeviceObjects(g, n) ==
  LET compiled == [g EXCEPT !.objects = {"program", "vertex_shader", "fragment_shader", "vbo", "elements"},
                            !.array_buffer = "vbo", !.attributes["none"] = "vbo"] IN
  [Es2CreateFontsTexture(compiled, n) EXCEPT !.texture = g.texture, !.array_buffer = g.array_buffer]

(* Nothing is deleted that was not made, and no handle is left.            *)
Es2InvalidateDeviceObjects(g, font) ==
  LET emptied == [g EXCEPT !.objects = {}] IN
  IF font = NoTexture THEN emptied ELSE DeleteTexture(emptied, font)
-----------------------------------------------------------------------------
(* imgui_impl_sdl_es3.cpp.  The element buffer is bound to whichever       *)
(* vertex array is bound at that moment.                                   *)
Es3Save(g) ==
  [texture |-> g.texture, program |-> g.program, array_buffer |-> g.array_buffer,
   vertex_array |-> g.vertex_array, elements |-> g.elements[g.vertex_array],
   modes |-> g.modes, viewport |-> g.viewport]

Es3Setup(g) ==
  [g EXCEPT !.modes = "imgui", !.viewport = "framebuffer", !.program = "program",
            !.vertex_array = "vao"]

Es3DrawLists(g, list) ==
  DrawCommands([g EXCEPT !.array_buffer = "vbo", !.elements[g.vertex_array] = "elements"], list, FALSE)

(* Mutant: the vertex array is not put back before the buffers. *)
Es3Restore_KeepsArray(g, saved) ==
  [g EXCEPT !.program = saved.program, !.texture = saved.texture,
            !.array_buffer = saved.array_buffer, !.elements[g.vertex_array] = saved.elements,
            !.modes = saved.modes, !.viewport = saved.viewport]

Es3Restore(g, saved) ==
  [g EXCEPT !.program = saved.program, !.texture = saved.texture,
            !.vertex_array = saved.vertex_array, !.array_buffer = saved.array_buffer,
            !.elements[saved.vertex_array] = saved.elements,
            !.modes = saved.modes, !.viewport = saved.viewport]

Es3RenderDrawLists(g, list) ==
  LET drawn == Es3DrawLists(Es3Setup(g), list) IN
  [drawn EXCEPT !.gl = Es3Restore(@, Es3Save(g))]

Es3CreateFontsTexture(g, n) == [MakeTexture(g, n, "font") EXCEPT !.texture = g.texture]

Es3CreateDeviceObjects(g, n) ==
  LET compiled == [g EXCEPT !.objects = Objects, !.vertex_array = "vao",
                            !.array_buffer = "vbo", !.attributes["vao"] = "vbo"] IN
  [Es3CreateFontsTexture(compiled, n) EXCEPT
     !.texture = g.texture, !.array_buffer = g.array_buffer, !.vertex_array = g.vertex_array]

Es3InvalidateDeviceObjects(g, font) ==
  LET emptied == [g EXCEPT !.objects = {}] IN
  IF font = NoTexture THEN emptied ELSE DeleteTexture(emptied, font)
-----------------------------------------------------------------------------
(* imgui_impl_opengl2 and imgui_impl_opengl3 of ImGui itself: their own    *)
(* objects are out of sight, and they restore what they change.            *)
OpenGlRenderDrawData(g, list, core) ==
  LET drawn == DrawCommands(g, list, core) IN
  [drawn EXCEPT !.gl.texture = g.texture]

(* The calls of viewer/render/impl.                                        *)
NewFrame(version, g, n) ==
  CASE version = "gles2" -> Es2CreateDeviceObjects(g, n)
    [] version = "gles3" -> Es3CreateDeviceObjects(g, n)
    [] OTHER -> [MakeTexture(g, n, "font") EXCEPT !.texture = g.texture]

Render(version, g, list) ==
  CASE version = "gles2" -> Es2RenderDrawLists(g, list)
    [] version = "gles3" -> Es3RenderDrawLists(g, list)
    [] OTHER -> OpenGlRenderDrawData(g, list, version = "opengl3")

Shutdown(version, g, font) ==
  CASE version = "gles2" -> Es2InvalidateDeviceObjects(g, font)
    [] version = "gles3" -> Es3InvalidateDeviceObjects(g, font)
    [] OTHER -> IF font = NoTexture THEN g ELSE DeleteTexture(g, font)
=============================================================================
