--------------------------- MODULE Blitter_proofs ---------------------------
(***************************************************************************)
(* Proofs, for every set of texture units and viewport indices, of what    *)
(* the run MC_Blitter checks with two of each: every state is well typed, *)
(* and a blit changes nothing of the renderer's GL state but unit 0's     *)
(* sampler, unit 0's texture when another unit is active, and the          *)
(* viewports other than 0 (BlitConfined).                                  *)
(***************************************************************************)
EXTENDS Blitter, TLAPS

\* The state a blit leaves, from the state h its setup and Draw() start
\* from, and the state g Save() read.
BlitResult(g, h, filter, s0) == Restore(Draw(h, filter), Save(g, s0))

\* The fields a blit's setup leaves as they are.
SetupKeeps(g, h) ==
  /\ DOMAIN h = DOMAIN g
  /\ h.active = g.active
  /\ h.tex = g.tex
  /\ h.sampler = g.sampler

\* Save, Draw and Restore: whatever setup ran before Draw(), the result is
\* a GL state that agrees with the saved one on all Save() keeps track of.
LEMMA SaveRestore ==
  ASSUME NEW g, IsGLState(g), NEW h, SetupKeeps(g, h),
         NEW filter \in Filters, NEW s0 \in SamplerQuery
  PROVE  LET r == BlitResult(g, h, filter, s0)
         IN  /\ IsGLState(r)
             /\ \A f \in Scalars \cup {"active"} : r[f] = g[f]
             /\ r.viewport[0] = g.viewport[0]
             /\ \A u \in Units : u # 0 => /\ r.tex[u] = g.tex[u]
                                          /\ r.sampler[u] = g.sampler[u]
             /\ g.active = 0 => r.tex[0] = g.tex[0]
<1> DEFINE d == Draw(h, filter)
           s == Save(g, s0)
           r == Restore(d, s)
<1>1. /\ DOMAIN d = DOMAIN g
      /\ d.active = g.active
      /\ d.tex = [g.tex EXCEPT ![0] = "src"]
      /\ d.sampler = [g.sampler EXCEPT ![0] = IF filter = "linear"
                                                THEN "linear_sampler"
                                                ELSE "nearest_sampler"]
  BY DEF Draw, SetupKeeps, IsGLState
<1>2. /\ \A f \in Scalars : s[f] = g[f]
      /\ s.viewport = g.viewport[0]
      /\ s.texture_0 = g.tex[g.active]
      /\ s.sampler_0 = s0
  BY DEF Save, Scalars, Dom
<1>3. /\ DOMAIN r = DOMAIN g
      /\ \A f \in Scalars : r[f] = g[f]
      /\ r.active = g.active
      /\ r.viewport = [d.viewport EXCEPT ![0] = g.viewport[0]]
      /\ r.tex = [d.tex EXCEPT ![g.active] = g.tex[g.active]]
      /\ r.sampler = IF s0 \in Samplers THEN [d.sampler EXCEPT ![0] = s0]
                                       ELSE d.sampler
  BY <1>1, <1>2 DEF Restore, IsGLState, Scalars, Dom
<1>4. d.viewport = [i \in Viewports |-> "dest_rect"]
  BY DEF Draw, SetupKeeps, IsGLState
<1>5. IsGLState(r)
  BY <1>1, <1>3, <1>4, BlitterAssumption DEF IsGLState, Textures, Samplers, Rects
<1>6. QED
  BY <1>1, <1>3, <1>4, <1>5, BlitterAssumption DEF IsGLState, BlitResult

\* Each blit's setup leaves the active unit and the bindings as they are.
LEMMA SetupsKeep ==
  ASSUME NEW g, IsGLState(g)
  PROVE  /\ SetupKeeps(g, ColorSetup(g))
         /\ SetupKeeps(g, [ColorSetup(g) EXCEPT !.draw_fb = "scratch"])
         /\ SetupKeeps(g, [DepthSetup(g) EXCEPT !.draw_fb = "scratch"])
BY DEF SetupKeeps, ColorSetup, DepthSetup, IsGLState

\* A blit is a BlitResult of a setup that keeps the bindings.
LEMMA BlitIsResult ==
  ASSUME IsGLState(gl), Blit
  PROVE  \E h : /\ SetupKeeps(gl, h)
                /\ \E filter \in Filters, s0 \in SamplerQuery :
                     gl' = BlitResult(gl, h, filter, s0)
<1>1. CASE BlitTexture2D
  BY <1>1, SetupsKeep DEF BlitTexture2D, BlitResult
<1>2. CASE CopyColorTexture2D
  BY <1>2, SetupsKeep DEF CopyColorTexture2D, BlitResult
<1>3. CASE CopyDepthTexture
  <2>1. "nearest" \in Filters
    BY DEF Filters
  <2>2. QED
    BY <1>3, <2>1, SetupsKeep DEF CopyDepthTexture, BlitResult
<1>4. QED
  BY <1>1, <1>2, <1>3 DEF Blit

-----------------------------------------------------------------------------
(* Type correctness.                                                       *)

\* The renderer's calls set a field to one of its values.
LEMMA AppStep ==
  ASSUME IsGLState(gl),
         AppSetState \/ AppActiveTexture \/ AppBindTexture \/ AppBindSampler
           \/ AppViewport
  PROVE  IsGLState(gl') /\ calls' = calls + 1 /\ calls < MaxAppCalls
         /\ scratch' = scratch
<1>1. CASE AppSetState
  <2>1. \A f \in Scalars : AppDom[f] \subseteq Dom[f]
    BY DEF AppDom, Scalars, Dom
  <2>2. PICK f \in Scalars : \E v \in AppDom[f] :
          /\ gl' = [gl EXCEPT ![f] = v]
          /\ calls < MaxAppCalls /\ calls' = calls + 1 /\ scratch' = scratch
    BY <1>1 DEF AppSetState, AppCall
  <2>3. f \notin {"active", "tex", "sampler", "viewport"}
    BY DEF Scalars, Dom
  <2>4. \A x \in Scalars : gl'[x] \in Dom[x]
    BY <1>1, <2>1, <2>2 DEF IsGLState
  <2>5. QED
    BY <2>2, <2>3, <2>4 DEF IsGLState
<1>2. CASE AppActiveTexture
  BY <1>2 DEF AppActiveTexture, AppCall, IsGLState, Scalars, Dom
<1>3. CASE AppBindTexture
  BY <1>3 DEF AppBindTexture, AppCall, IsGLState, Scalars, Dom, Textures
<1>4. CASE AppBindSampler
  BY <1>4 DEF AppBindSampler, AppCall, IsGLState, Scalars, Dom, Samplers
<1>5. CASE AppViewport
  BY <1>5 DEF AppViewport, AppCall, IsGLState, Scalars, Dom, Rects
<1>6. QED
  BY <1>1, <1>2, <1>3, <1>4, <1>5

\* No step leaves the types.
LEMMA TypeStep == TypeOK /\ [Next]_vars => TypeOK'
<1> SUFFICES ASSUME TypeOK, [Next]_vars PROVE TypeOK'
  OBVIOUS
<1>1. CASE Blit
  <2>1. IsGLState(gl')
    BY <1>1, BlitIsResult, SaveRestore DEF TypeOK
  <2>2. QED
    BY <1>1, <2>1 DEF Blit, BlitTexture2D, CopyColorTexture2D,
                      CopyDepthTexture, TypeOK
<1>2. CASE AppSetState \/ AppActiveTexture \/ AppBindTexture \/ AppBindSampler
             \/ AppViewport
  BY <1>2, AppStep, BlitterAssumption DEF TypeOK
<1>3. CASE UNCHANGED vars
  BY <1>3 DEF TypeOK, vars, IsGLState
<1>4. QED
  BY <1>1, <1>2, <1>3 DEF Next

\* Every reachable state is well typed.
THEOREM TypeCorrect == Spec => []TypeOK
<1>1. Init => TypeOK
  <2> SUFFICES ASSUME Init PROVE TypeOK
    OBVIOUS
  <2>a. Scalars = {"scissor", "depth_test", "depth_mask", "depth_func",
                    "stencil", "cull", "cull_face", "front_face",
                    "polygon_mode", "color_mask", "blend0", "draw_fb",
                    "pipeline", "vao"}
    BY DEF Scalars, Dom
  <2>b. /\ gl.scissor \in Dom.scissor /\ gl.depth_test \in Dom.depth_test
        /\ gl.depth_mask \in Dom.depth_mask /\ gl.stencil \in Dom.stencil
        /\ gl.cull \in Dom.cull /\ gl.blend0 \in Dom.blend0
    BY Zenon DEF Init, Dom
  <2>c. /\ gl.depth_func \in Dom.depth_func /\ gl.cull_face \in Dom.cull_face
        /\ gl.front_face \in Dom.front_face
        /\ gl.polygon_mode \in Dom.polygon_mode
        /\ gl.color_mask \in Dom.color_mask /\ gl.draw_fb \in Dom.draw_fb
        /\ gl.pipeline \in Dom.pipeline /\ gl.vao \in Dom.vao
    BY DEF Init, Dom
  <2>1. \A f \in Scalars : gl[f] \in Dom[f]
    BY <2>a, <2>b, <2>c, Zenon
  <2>2. DOMAIN gl = Scalars \cup {"active", "tex", "sampler", "viewport"}
    BY DEF Init, Scalars, Dom
  <2>3. /\ gl.active \in Units
        /\ gl.tex \in [Units -> Textures]
        /\ gl.sampler \in [Units -> Samplers]
        /\ gl.viewport \in [Viewports -> Rects]
    BY BlitterAssumption DEF Init, Textures, Samplers, Rects
  <2>4. scratch \in [color : {"none"}, depth : {"none"}, drawbuf : {"color0", "none"}]
    BY DEF Init
  <2>5. calls \in 0 .. MaxAppCalls
    BY BlitterAssumption DEF Init
  <2>6. QED
    BY <2>1, <2>2, <2>3, <2>4, <2>5 DEF TypeOK, IsGLState
<1>2. QED
  BY <1>1, TypeStep, PTL DEF Spec

-----------------------------------------------------------------------------
(* Confinement.                                                            *)

\* SavedState's Save() and Restore() around every blit, for any state the
\* renderer's GL calls left and any value the unindexed sampler query left
\* in sampler_0, put back everything but unit 0's sampler, unit 0's
\* texture when another unit is active, and the viewports other than 0.
THEOREM BlitConfinedHolds == Spec => BlitConfined
<1>1. TypeOK /\ [Next]_vars =>
        [Blit =>
           /\ \A f \in Scalars \cup {"active"} : gl'[f] = gl[f]
           /\ gl'.viewport[0] = gl.viewport[0]
           /\ \A u \in Units : u # 0 => /\ gl'.tex[u] = gl.tex[u]
                                        /\ gl'.sampler[u] = gl.sampler[u]
           /\ gl.active = 0 => gl'.tex[0] = gl.tex[0]]_vars
  <2> SUFFICES ASSUME TypeOK, Blit
               PROVE  /\ \A f \in Scalars \cup {"active"} : gl'[f] = gl[f]
                      /\ gl'.viewport[0] = gl.viewport[0]
                      /\ \A u \in Units : u # 0 => /\ gl'.tex[u] = gl.tex[u]
                                                   /\ gl'.sampler[u] = gl.sampler[u]
                      /\ gl.active = 0 => gl'.tex[0] = gl.tex[0]
    OBVIOUS
  <2>1. PICK h : /\ SetupKeeps(gl, h)
                 /\ \E filter \in Filters, s0 \in SamplerQuery :
                      gl' = BlitResult(gl, h, filter, s0)
    BY BlitIsResult DEF TypeOK
  <2>2. PICK filter \in Filters, s0 \in SamplerQuery :
          gl' = BlitResult(gl, h, filter, s0)
    BY <2>1
  <2>3. QED
    BY <2>1, <2>2, SaveRestore DEF TypeOK
<1>2. QED
  BY <1>1, TypeCorrect, PTL DEF Spec, BlitConfined

=============================================================================
