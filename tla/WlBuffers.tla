------------------------------ MODULE WlBuffers ------------------------------
(***************************************************************************)
(* Buffers for screen captures: when the manager may be used               *)
(* (WlBufferManager), how a buffer is negotiated between what a capture    *)
(* asks for, what the compositor's feedback offers and what the renderer   *)
(* can import (LinuxDmabufManager), the two buffers of a swapchain         *)
(* (WlBufferSwapchain), the GBM devices they share (GbmDevice), and the    *)
(* import of a buffer as a Vulkan texture (WlDmaBuffer).                   *)
(*                                                                         *)
(* Modifiers of a format are a set, from which GBM picks; planes and the   *)
(* pixels are left out.                                                    *)
(***************************************************************************)
EXTENDS Integers, SequencesExt

CONSTANTS BufWindows,   \* windows of the shell
          DrmDevices,   \* dev_t handles; 0 asks for no device
          NodeOf,       \* handle |-> its render node
          Creatable,    \* <<node, format>> for which GBM makes buffers
          Feedbacks,    \* feedback of the compositor: lists of tranches, each a device and
                        \* its <<format, modifier>> entries; modifier 0 is the implicit one
          Renderers,    \* renderers of windows: [api, node, formats, broken]
          Requests,     \* what captures ask for: [size, device, formats, shm]
          MaxBufSteps   \* bound on feedbacks and buffers

ASSUME BufferAssumption ==
  /\ NodeOf \in [DrmDevices -> STRING] /\ 0 \notin DrmDevices
  /\ MaxBufSteps \in Nat
  /\ \A f \in Feedbacks : \A k \in DOMAIN f : f[k].device \in DrmDevices
  /\ \A r \in Requests :
       /\ r.formats \in Seq([format : STRING, mods : SUBSET Nat, implicit : BOOLEAN])
       /\ r.shm \in Seq(STRING)

VARIABLES
  winState,    \* windows: "new", "exposed" with a scene graph, or "gone"
  awaited,     \* windows whose sceneGraphInitialized is connected; initWaiting when any was
  initWaiting,
  renderReady, renderFailed, dmabufReady, \* the three flags of WlBufferManagerPrivate
  readyTold,   \* ready() has been emitted
  renderFormats, renderNode, tranches,
  gbmDevices,  \* weak references: [handle, node]
  slots,       \* buffer1 and buffer2
  fellBack,      \* presentSecondBuffer
  lent,        \* the last buffer lent to a capture and its request
  textures,    \* the last import: the step it stopped at and what it left
  bufSteps

initVars == <<winState, awaited, initWaiting, renderReady, renderFailed, readyTold,
              renderFormats, renderNode>>
bufVars == <<initVars, dmabufReady, tranches, gbmDevices, slots, fellBack, lent, textures,
             bufSteps>>

NoBuffer == [kind |-> "none"]
ShmBuffer(s, f) == [kind |-> "shm", size |-> s, format |-> f]
DmaBuffer(s, f, m, g) == [kind |-> "dma", size |-> s, format |-> f, mod |-> m, gbm |-> g]
Fmt(f, m, i) == [format |-> f, mods |-> m, implicit |-> i]

BufInit ==
  /\ winState = [w \in BufWindows |-> "new"]
  /\ awaited = {} /\ initWaiting = FALSE
  /\ renderReady = FALSE /\ renderFailed = FALSE /\ dmabufReady = FALSE
  /\ readyTold = FALSE /\ renderFormats = <<>> /\ renderNode = "" /\ tranches = <<>>
  /\ gbmDevices = {} /\ slots = <<NoBuffer, NoBuffer>> /\ fellBack = FALSE
  /\ lent = [buffer |-> NoBuffer, of |-> NoBuffer]
  /\ textures = [stop |-> "device", left |-> {}] /\ bufSteps = 0

-----------------------------------------------------------------------------
(* Feedback and renderer *)

\* The entries of a tranche by format, in the order the formats first come.
FormatsOf(entries) ==
  LET with(f, m) == IF m = 0 THEN [f EXCEPT !.implicit = TRUE]
                    ELSE [f EXCEPT !.mods = @ \cup {m}]
      add(fs, e) ==
        IF \E k \in DOMAIN fs : fs[k].format = e[1]
        THEN [k \in DOMAIN fs |-> IF fs[k].format = e[1] THEN with(fs[k], e[2]) ELSE fs[k]]
        ELSE Append(fs, with(Fmt(e[1], {}, FALSE), e[2]))
  IN FoldLeft(add, <<>>, entries)

BufStep == bufSteps < MaxBufSteps /\ bufSteps' = bufSteps + 1

\* feedback done, and dmabufReady of the manager
FeedbackDone(f) ==
  /\ BufStep
  /\ tranches' = [k \in DOMAIN f |-> [device |-> f[k].device,
                                       formats |-> FormatsOf(f[k].entries)]]
  /\ dmabufReady' = TRUE
  /\ readyTold' = (readyTold \/ renderReady)
  /\ UNCHANGED <<winState, awaited, initWaiting, renderReady, renderFailed, renderFormats,
                 renderNode, gbmDevices, slots, fellBack, lent, textures>>

NothingFound == [ok |-> FALSE, node |-> "", formats |-> <<>>]

\* Vulkan: it fails before it has found anything; a format without a modifier that can be
\* sampled is left out, and none has the implicit one.
VkFound(r) ==
  IF r.broken THEN NothingFound
  ELSE [ok |-> TRUE, node |-> r.node,
        formats |-> [k \in DOMAIN r.formats |-> [r.formats[k] EXCEPT !.implicit = FALSE]]]

\* OpenGL: what was found before a failure stays, and every format has the implicit modifier.
GlFound(r) ==
  [ok |-> ~r.broken, node |-> r.node,
   formats |-> [k \in DOMAIN r.formats |-> [r.formats[k] EXCEPT !.implicit = TRUE]]]

FoundBy(r) == IF r.api = "vulkan" THEN VkFound(r)
              ELSE IF r.api = "opengl" THEN GlFound(r) ELSE NothingFound

\* initRenderFormats once, for the first window that has a scene graph.
RenderFormats(r) ==
  /\ renderFormats' = renderFormats \o FoundBy(r).formats
  /\ renderNode' = IF FoundBy(r).node = "" THEN renderNode ELSE FoundBy(r).node
  /\ renderFailed' = ~FoundBy(r).ok
  /\ renderReady' = TRUE
  /\ readyTold' = (readyTold \/ dmabufReady)

NoRenderFormats == UNCHANGED <<renderFormats, renderNode, renderFailed, renderReady, readyTold>>

\* initWindow, when a view or the eager initialiser gets a window.
InitWindow(w) ==
  /\ winState[w] # "gone" /\ ~renderReady
  /\ \/ /\ winState[w] = "exposed"
        /\ \E r \in Renderers : RenderFormats(r)
        /\ UNCHANGED <<awaited, initWaiting>>
     \/ /\ winState[w] = "new" /\ ~initWaiting
        /\ initWaiting' = TRUE /\ awaited' = awaited \cup {w}
        /\ NoRenderFormats
  /\ UNCHANGED <<winState, dmabufReady, tranches, gbmDevices, slots, fellBack, lent,
                 textures, bufSteps>>

WindowExposed(w) ==
  /\ winState[w] = "new"
  /\ winState' = [winState EXCEPT ![w] = "exposed"]
  /\ \/ w \in awaited /\ ~renderReady /\ \E r \in Renderers : RenderFormats(r)
     \/ (w \notin awaited \/ renderReady) /\ NoRenderFormats
  /\ UNCHANGED <<awaited, initWaiting, dmabufReady, tranches, gbmDevices, slots, fellBack,
                 lent, textures, bufSteps>>

WindowGone(w) ==
  /\ winState[w] # "gone"
  /\ winState' = [winState EXCEPT ![w] = "gone"] /\ awaited' = awaited \ {w}
  /\ NoRenderFormats
  /\ UNCHANGED <<initWaiting, dmabufReady, tranches, gbmDevices, slots, fellBack, lent,
                 textures, bufSteps>>

-----------------------------------------------------------------------------
(* Negotiation *)

\* The first format of that name, or none.
Named(fs, f) == LET ks == {k \in DOMAIN fs : fs[k].format = f}
                IN IF ks = {} THEN {} ELSE {fs[CHOOSE k \in ks : \A j \in ks : k <= j]}

\* What a capture's format, the renderer and the tranche have in common: the modifiers the
\* capture names, or those of the tranche if it names none.
Shared(f, tranche) ==
  UNION {LET theirs == IF f.mods # {} THEN {f} ELSE Named(tranche.formats, f.format)
         IN {Fmt(f.format, t.mods \cap r.mods, t.implicit /\ r.implicit) : t \in theirs}
         : r \in Named(renderFormats, f.format)}

CommonSoFar(request, tranche) ==
  LET common[n \in 0 .. Len(request.formats)] ==
        IF n = 0 THEN <<>>
        ELSE LET usable == {c \in Shared(request.formats[n], tranche) : c.implicit \/ c.mods # {}}
             IN IF usable = {} THEN common[n - 1]
                ELSE Append(common[n - 1], CHOOSE c \in usable : TRUE)
  IN common
Common(request, tranche) == CommonSoFar(request, tranche)[Len(request.formats)]

Swapped(fs, i, j) == [k \in DOMAIN fs |-> IF k = i THEN fs[j] ELSE IF k = j THEN fs[i]
                                          ELSE fs[k]]
PlaceOf(fs, f) == IF \E k \in DOMAIN fs : fs[k].format = f
                  THEN CHOOSE k \in DOMAIN fs : fs[k].format = f /\
                         \A j \in 1 .. k - 1 : fs[j].format # f
                  ELSE 0

\* ensureSorted: ARGB first, then XRGB.
SortedFormats(fs) ==
  LET a == PlaceOf(fs, "argb")
      one == IF a = 0 THEN fs ELSE Swapped(fs, 1, a)
      x == PlaceOf(one, "xrgb")
  IN IF x = 0 THEN one ELSE Swapped(one, IF a = 0 THEN 1 ELSE 2, x)

\* getGbmDevice: a live device of the handle, else of its node, else a new one.
GbmOf(handle) ==
  LET same == {g \in gbmDevices : g.handle = handle}
      near == {g \in gbmDevices : g.node = NodeOf[handle]}
  IN CHOOSE g \in IF same # {} THEN same ELSE IF near # {} THEN near
                  ELSE {[handle |-> handle, node |-> NodeOf[handle]]} : TRUE

\* createDmabuf: implicit buffers only on the renderer's own node.
Works(device, c) ==
  /\ <<device.node, c.format>> \in Creatable
  /\ c.mods # {} \/ device.node = renderNode

\* createDmabufFromRequest: the first tranche and, there, the first format that works.
DmaBuffers(request) ==
  LET usable(k) == request.device \in {0, tranches[k].device}
      list(k) == SortedFormats(Common(request, tranches[k]))
      good == {p \in (1 .. Len(tranches)) \X (1 .. Len(request.formats)) :
                 /\ usable(p[1]) /\ p[2] <= Len(list(p[1]))
                 /\ Works(GbmOf(tranches[p[1]].device), list(p[1])[p[2]])}
      best == CHOOSE p \in good : \A q \in good :
                p[1] < q[1] \/ (p[1] = q[1] /\ p[2] <= q[2])
      c == list(best[1])[best[2]]
  IN IF renderFailed \/ good = {} THEN {}
     ELSE {DmaBuffer(request.size, c.format, m, GbmOf(tranches[best[1]].device))
           : m \in IF c.mods = {} THEN {0} ELSE c.mods}

\* createShmbuf: the first format, which is taken for none when it is 0, wl_shm's ARGB8888.
ShmBuffers(request) ==
  IF request.shm = <<>> \/ request.shm[1] = "argb" THEN {NoBuffer}
  ELSE {ShmBuffer(request.size, request.shm[1])}

\* createBuffer: none for an empty size, shared memory when no dmabuf can be made.
BuffersFor(request) ==
  IF request.size = 0 THEN {NoBuffer}
  ELSE IF DmaBuffers(request) # {} THEN DmaBuffers(request)
  ELSE ShmBuffers(request)

\* Mutant: the modifier of a buffer is not compared.
CompatibleAnyModifier(b, request) ==
  \/ /\ b.kind = "shm" /\ b.size = request.size
     /\ b.format \in {request.shm[k] : k \in DOMAIN request.shm}
  \/ /\ b.kind = "dma" /\ b.size = request.size
     /\ \E k \in DOMAIN request.formats : request.formats[k].format = b.format

\* isCompatible of both kinds; mod 0 stands for usedImplicitModifier.
Compatible(b, request) ==
  \/ /\ b.kind = "shm" /\ b.size = request.size
     /\ b.format \in {request.shm[k] : k \in DOMAIN request.shm}
  \/ /\ b.kind = "dma" /\ b.size = request.size
     /\ \E k \in DOMAIN request.formats :
          LET f == request.formats[k]
          IN /\ f.format = b.format
             /\ f.mods = {} \/ (f.implicit /\ b.mod = 0) \/ b.mod \in f.mods

-----------------------------------------------------------------------------
(* The swapchain *)

BackSlot == IF fellBack THEN 1 ELSE 2

\* ~GbmDevice takes the dead devices out of the list.
LiveDevices(devices, list) ==
  {g \in devices : \E k \in DOMAIN list : list[k].kind = "dma" /\ list[k].gbm = g}

\* createBackBuffer; the old buffer goes after the new one is made.
CreateBackBuffer(request) ==
  /\ renderReady /\ dmabufReady /\ BufStep
  /\ \E b \in IF Compatible(slots[BackSlot], request) THEN {slots[BackSlot]}
              ELSE BuffersFor(request) :
       /\ slots' = [slots EXCEPT ![BackSlot] = b]
       /\ gbmDevices' = LiveDevices(IF b.kind = "dma" THEN gbmDevices \cup {b.gbm}
                                    ELSE gbmDevices, slots')
       /\ lent' = [buffer |-> b, of |-> request]
  /\ UNCHANGED <<initVars, dmabufReady, tranches, fellBack, textures>>

SwapBuffers ==
  /\ slots[BackSlot] # NoBuffer
  /\ fellBack' = ~fellBack
  /\ UNCHANGED <<initVars, dmabufReady, tranches, gbmDevices, slots, lent, textures,
                 bufSteps>>

\* createQsgTextureVulkan: its steps in order; what each makes is there when a later one
\* fails. The memory takes the duplicated descriptor over.
ImportSteps == <<"device", "image", "descriptor", "properties", "type", "memory", "bind",
                 "done">>
Before(made, stop) ==
  \E i, j \in DOMAIN ImportSteps : i < j /\ ImportSteps[i] = made /\ ImportSteps[j] = stop
Made(stop) == {r \in {"image", "memory"} : Before(r, stop)}
                \cup {r \in {"descriptor"} : Before(r, stop) /\ ~Before("memory", stop)}

\* What a failure releases: the guard of the image, and close(dupFd). The guard of the
\* memory holds a copy of the handle from before the allocation.
Released(stop) ==
  {r \in {"image"} : stop # "done"}
    \cup {r \in {"descriptor"} : stop \in {"properties", "type", "memory", "bind"}}

ImportTexture(stop) ==
  /\ \E k \in {1, 2} : slots[k].kind = "dma"
  /\ textures' = [stop |-> stop, left |-> Made(stop) \ Released(stop)]
  /\ UNCHANGED <<initVars, dmabufReady, tranches, gbmDevices, slots, fellBack, lent,
                 bufSteps>>

BufNext ==
  \/ \E w \in BufWindows : InitWindow(w) \/ WindowExposed(w) \/ WindowGone(w)
  \/ \E f \in Feedbacks : FeedbackDone(f)
  \/ \E r \in Requests : CreateBackBuffer(r)
  \/ SwapBuffers
  \/ \E k \in DOMAIN ImportSteps : ImportTexture(ImportSteps[k])

BufSpec == BufInit /\ [][BufNext]_bufVars

-----------------------------------------------------------------------------
(* A capture never gets a buffer it did not ask for, whether it is made    *)
(* or used again after the request, the feedback and the other buffer have *)
(* changed; the list of GBM devices holds the devices in use and no dead   *)
(* ones, which getGbmDevice would dereference; ready() has been emitted    *)
(* exactly when the manager is ready, in whatever order the compositor and *)
(* the renderer answer; and an import of a texture that fails leaves       *)
(* nothing behind, unless it fails to bind the memory, which then stays.   *)

LentFits ==
  lent.buffer.kind # "none" =>
    /\ lent.buffer.size = lent.of.size
    /\ lent.buffer.kind = "shm" => lent.buffer.format \in Range(lent.of.shm)
    /\ lent.buffer.kind = "dma" =>
         \E k \in DOMAIN lent.of.formats :
           LET f == lent.of.formats[k]
           IN /\ f.format = lent.buffer.format
              /\ f.mods # {} => \/ lent.buffer.mod \in f.mods
                                \/ f.implicit /\ lent.buffer.mod = 0
DevicesLive ==
  gbmDevices = {slots[k].gbm : k \in {j \in {1, 2} : slots[j].kind = "dma"}}
ReadyAnnounced == readyTold <=> renderReady /\ dmabufReady

ImportsClean ==
  textures.stop # "bind" =>
    textures.left = IF textures.stop = "done" THEN {"image", "memory"} ELSE {}

BuffersFit == LentFits /\ DevicesLive /\ ReadyAnnounced /\ ImportsClean
=============================================================================
