------------------------------ MODULE Blitter ------------------------------
(***************************************************************************)
(* xe::gpu::gl4::Blitter (src/xenia/gpu/gl4/blitter.cc): the three blit    *)
(* operations draw a textured quad through the GL context the renderer    *)
(* shares with them, and wrap the draw in SavedState::Save() and           *)
(* SavedState::Restore() so the renderer's GL state is left as it was.     *)
(* Each blit runs to completion on the GL thread, so it is one action: the *)
(* state it leaves is Restore(Draw(setup(gl)), Save(gl)).                  *)
(*                                                                          *)
(* The GL context is the record gl.  A value is a name for what is bound   *)
(* or set: "app..." for a value the renderer set, the blitter's own        *)
(* objects and settings by their names.  The renderer's own GL calls (the  *)
(* command processor, not in this repository) are the App* actions, at     *)
(* most MaxAppCalls of them.                                              *)
(***************************************************************************)
EXTENDS Naturals

CONSTANTS
  Units,        \* texture units; 0 is the unit glBindTextures(0, ...) binds
  Viewports,    \* viewport indices; 0 is the one SavedState keeps
  MaxAppCalls   \* bound on the renderer's GL calls

ASSUME BlitterAssumption ==
  /\ 0 \in Units /\ 0 \in Viewports
  /\ MaxAppCalls \in Nat

\* The single-valued GL state SavedState saves and restores field by field,
\* with the values each can hold.  color_mask abstracts the four booleans
\* of glColorMaski(0, ...) to all, none or a partial mask.
Dom ==
  [scissor |-> BOOLEAN, depth_test |-> BOOLEAN, depth_mask |-> BOOLEAN,
   depth_func |-> {"less", "always"}, stencil |-> BOOLEAN,
   cull |-> BOOLEAN, cull_face |-> {"front", "back"},
   front_face |-> {"ccw", "cw"}, polygon_mode |-> {"line", "fill"},
   color_mask |-> {"partial", "all", "none"}, blend0 |-> BOOLEAN,
   draw_fb |-> {"default", "app_fb", "scratch"},
   pipeline |-> {"none", "app_pipeline", "color_pipeline", "depth_pipeline"},
   vao |-> {"none", "app_vao", "blit_vao"}]

Scalars == DOMAIN Dom

Textures == {"none", "app_tex", "src"}
Samplers == {"none", "app_sampler", "nearest_sampler", "linear_sampler"}
Rects    == {"app_rect", "other_rect", "dest_rect"}

\* GL_NEAREST, GL_LINEAR, and any other filter a caller passes.
Filters == {"nearest", "linear", "other"}

VARIABLES
  gl,       \* the GL context's state
  scratch,  \* attachments and draw buffer of scratch_framebuffer_
  calls     \* the renderer's GL calls so far

vars == <<gl, scratch, calls>>

\* A GL state: each field holds one of its values.
IsGLState(g) ==
  /\ DOMAIN g = Scalars \cup {"active", "tex", "sampler", "viewport"}
  /\ \A f \in Scalars : g[f] \in Dom[f]
  /\ g.active \in Units
  /\ g.tex \in [Units -> Textures]
  /\ g.sampler \in [Units -> Samplers]
  /\ g.viewport \in [Viewports -> Rects]

-----------------------------------------------------------------------------
(* SavedState (lines 148-209).                                             *)

\* glGetIntegeri_v(GL_SAMPLER_BINDING, 0, &sampler_0): GL_SAMPLER_BINDING
\* is not an indexed state, so the call raises GL_INVALID_ENUM and writes
\* nothing; sampler_0 is whatever the stack held, a sampler name or not.
SamplerQuery == Samplers \cup {"invalid"}

\* Save() with the value the sampler query left in sampler_0.
\* GL_TEXTURE_BINDING_2D and glGetFloati_v(GL_VIEWPORT, 0) read the active
\* unit's texture and viewport 0.
SaveTextureUnitZero(g, s0) ==
  [f \in Scalars \cup {"viewport", "texture_0", "sampler_0"} |->
     CASE f = "viewport"  -> g.viewport[0]
       [] f = "texture_0" -> g.tex[0]
       [] f = "sampler_0" -> s0
       [] OTHER           -> g[f]]

Save(g, s0) ==
  [f \in Scalars \cup {"viewport", "texture_0", "sampler_0"} |->
     CASE f = "viewport"  -> g.viewport[0]
       [] f = "texture_0" -> g.tex[g.active]
       [] f = "sampler_0" -> s0
       [] OTHER           -> g[f]]

\* Restore(): every saved field is set back; glViewportIndexedf(0, ...)
\* sets viewport 0, glBindTexture(GL_TEXTURE_2D, ...) the active unit, and
\* glBindSampler(0, ...) unit 0, which a name that is no sampler leaves as
\* it is (GL_INVALID_OPERATION).
Restore(g, s) ==
  [f \in DOMAIN g |->
     IF f \in Scalars THEN s[f]
     ELSE CASE f = "viewport" -> [g.viewport EXCEPT ![0] = s.viewport]
            [] f = "tex"      -> [g.tex EXCEPT ![g.active] = s.texture_0]
            [] f = "sampler"  -> IF s.sampler_0 \in Samplers
                                   THEN [g.sampler EXCEPT ![0] = s.sampler_0]
                                   ELSE g.sampler
            [] OTHER          -> g[f]]

-----------------------------------------------------------------------------
(* The draw (lines 211-252).                                               *)

\* A draw whose sampler is the filter itself, with no default case.
DrawFilterUnmapped(g, filter) ==
  [g EXCEPT !.scissor = FALSE, !.stencil = FALSE, !.blend0 = FALSE,
            !.cull = TRUE, !.cull_face = "back", !.front_face = "cw",
            !.polygon_mode = "fill", !.vao = "blit_vao",
            !.tex = [@ EXCEPT ![0] = "src"],
            !.sampler = [@ EXCEPT ![0] = filter],
            !.viewport = [i \in Viewports |-> "dest_rect"]]

\* Draw(): fixed raster state, the blit's vertex array, the source bound
\* to unit 0 by glBindTextures(0, 1, ...), the sampler for the filter on
\* unit 0 (GL_NEAREST by default), and glViewport, which sets every
\* viewport index.  The uniforms and glDrawArrays change no saved state.
Draw(g, filter) ==
  [g EXCEPT !.scissor = FALSE, !.stencil = FALSE, !.blend0 = FALSE,
            !.cull = TRUE, !.cull_face = "back", !.front_face = "cw",
            !.polygon_mode = "fill", !.vao = "blit_vao",
            !.tex = [@ EXCEPT ![0] = "src"],
            !.sampler = [@ EXCEPT ![0] = IF filter = "linear"
                                           THEN "linear_sampler"
                                           ELSE "nearest_sampler"],
            !.viewport = [i \in Viewports |-> "dest_rect"]]

\* The color blits' setup: full color mask, no depth test or writes, the
\* color pipeline.
ColorSetup(g) ==
  [g EXCEPT !.color_mask = "all", !.depth_test = FALSE,
            !.depth_mask = FALSE, !.pipeline = "color_pipeline"]

\* CopyDepthTexture's setup: no color writes, depth test always passing,
\* depth writes, the depth pipeline.
DepthSetup(g) ==
  [g EXCEPT !.color_mask = "none", !.depth_test = TRUE,
            !.depth_func = "always", !.depth_mask = TRUE,
            !.pipeline = "depth_pipeline"]

-----------------------------------------------------------------------------
(* The blits (lines 254-311).                                              *)

\* BlitTexture2D: draws into the bound draw framebuffer.
BlitTexture2D ==
  /\ \E filter \in Filters, s0 \in SamplerQuery :
       gl' = Restore(Draw(ColorSetup(gl), filter), Save(gl, s0))
  /\ UNCHANGED <<scratch, calls>>

\* CopyColorTexture2D: attaches the destination as color attachment 0 of
\* the scratch framebuffer, draws into it, then sets its draw buffer to
\* GL_NONE and detaches the destination.
CopyColorTexture2D ==
  /\ \E filter \in Filters, s0 \in SamplerQuery :
       gl' = Restore(Draw([ColorSetup(gl) EXCEPT !.draw_fb = "scratch"], filter),
                     Save(gl, s0))
  /\ scratch' = [scratch EXCEPT !.color = "none", !.drawbuf = "none"]
  /\ UNCHANGED calls

\* CopyDepthTexture: the same through the depth-stencil attachment, always
\* with GL_NEAREST.
CopyDepthTexture ==
  /\ \E s0 \in SamplerQuery :
       gl' = Restore(Draw([DepthSetup(gl) EXCEPT !.draw_fb = "scratch"], "nearest"),
                     Save(gl, s0))
  /\ scratch' = [scratch EXCEPT !.depth = "none"]
  /\ UNCHANGED calls

Blit == BlitTexture2D \/ CopyColorTexture2D \/ CopyDepthTexture

-----------------------------------------------------------------------------
(* The renderer's GL calls between blits.                                  *)

\* The values the renderer sets: every value but the blitter's own
\* objects, which it never binds.
AppDom ==
  [f \in Scalars |->
     CASE f = "draw_fb"  -> {"default", "app_fb"}
       [] f = "pipeline" -> {"none", "app_pipeline"}
       [] f = "vao"      -> {"none", "app_vao"}
       [] OTHER          -> Dom[f]]

AppCall(g) ==
  /\ calls < MaxAppCalls
  /\ gl' = g
  /\ calls' = calls + 1
  /\ UNCHANGED scratch

\* glEnable/glDisable, glDepthFunc, glBindFramebuffer, ... on one field.
AppSetState ==
  \E f \in Scalars : \E v \in AppDom[f] : AppCall([gl EXCEPT ![f] = v])

\* glActiveTexture.
AppActiveTexture == \E u \in Units : AppCall([gl EXCEPT !.active = u])

\* glBindTexture(GL_TEXTURE_2D, ...) on the active unit.
AppBindTexture ==
  \E t \in {"none", "app_tex"} : AppCall([gl EXCEPT !.tex[gl.active] = t])

\* glBindSampler(unit, ...).
AppBindSampler ==
  \E u \in Units, s \in {"none", "app_sampler"} : AppCall([gl EXCEPT !.sampler[u] = s])

\* glViewportIndexedf(index, ...).
AppViewport ==
  \E i \in Viewports, r \in {"app_rect", "other_rect"} :
    AppCall([gl EXCEPT !.viewport[i] = r])

-----------------------------------------------------------------------------

\* A fresh context after Blitter::Initialize(): GL's defaults, and the
\* scratch framebuffer with nothing attached and its default draw buffer.
Init ==
  /\ gl = [scissor |-> FALSE, depth_test |-> FALSE, depth_mask |-> TRUE,
           depth_func |-> "less", stencil |-> FALSE, cull |-> FALSE,
           cull_face |-> "back", front_face |-> "ccw", polygon_mode |-> "fill",
           color_mask |-> "all", blend0 |-> FALSE, draw_fb |-> "default",
           pipeline |-> "none", vao |-> "none", active |-> 0,
           tex |-> [u \in Units |-> "none"], sampler |-> [u \in Units |-> "none"],
           viewport |-> [i \in Viewports |-> "app_rect"]]
  /\ scratch = [color |-> "none", depth |-> "none", drawbuf |-> "color0"]
  /\ calls = 0

Next ==
  \/ Blit
  \/ AppSetState \/ AppActiveTexture \/ AppBindTexture \/ AppBindSampler
  \/ AppViewport

Spec == Init /\ [][Next]_vars

-----------------------------------------------------------------------------
(* Properties.                                                             *)

\* Every variable holds a value of its type.
TypeOK ==
  /\ IsGLState(gl)
  /\ scratch \in [color : {"none"}, depth : {"none"}, drawbuf : {"color0", "none"}]
  /\ calls \in 0 .. MaxAppCalls

\* What a blit may change of the renderer's state, whatever state the
\* renderer left: Save/Restore put back every single-valued setting, the
\* active unit's texture and viewport 0, and leave the other units'
\* samplers alone; unit 0's texture comes back when it is the active unit.
\* Only unit 0's sampler, unit 0's texture when another unit is active,
\* and viewports other than 0 may differ afterwards.
BlitConfined ==
  [][Blit =>
       /\ \A f \in Scalars \cup {"active"} : gl'[f] = gl[f]
       /\ gl'.viewport[0] = gl.viewport[0]
       /\ \A u \in Units : u # 0 => /\ gl'.tex[u] = gl.tex[u]
                                    /\ gl'.sampler[u] = gl.sampler[u]
       /\ gl.active = 0 => gl'.tex[0] = gl.tex[0]]_vars

\* What SavedState is for: a blit leaves the GL state exactly as it found
\* it.
BlitPreservesState == [][Blit => gl' = gl]_vars

=============================================================================
