---------------------------- MODULE Media_proofs ----------------------------
(***************************************************************************)
(* Proofs about pictures and sound.  Screen capture, for every set of      *)
(* sources, sizes, addresses and regions.  IccCapture: the invariants of a *)
(* context, and that a presented picture is complete.  ScreencopyView:     *)
(* what holds of a context holds of the one a view owns, creates and       *)
(* deletes, and the view agrees with it.  PipeVolume, for every set of     *)
(* nodes, volumes and step: what a node shows is what its route has.       *)
(* PipeWire, for every set of names and of types: the lists and the        *)
(* default are those of the nodes there are.                               *)
(***************************************************************************)
EXTENDS ScreencopyView, PipeWire, PipeVolume, Induction, SequenceTheorems, FiniteSetTheorems, TLAPS

\* The invariants of the run, which are inductive together: that what a buffer
\* lacks is covered needs the buffers to differ, and a queued capture to find no
\* frame under way.
IInv == IccTypeOK /\ QueuedCaptureWaits /\ FrameHasBuffer /\ DamageCovers

\* The two sides of the swapchain are its two slots.
LEMMA Sides ==
  ASSUME second \in BOOLEAN
  PROVE  back \in {1, 2} /\ front \in {1, 2} /\ back # front
BY DEF back, front

\* commitCapture: a capture that nothing else is in the way of leaves the
\* invariant, whatever becomes of the back buffer.
LEMMA CommitOK ==
  ASSUME IInv, frame = "none", NEW size \in Sizes \cup {0}, CommitCapture(size),
         UNCHANGED <<second, exists, wlDamage>>,
         statePending' \in BOOLEAN, req' \in Sizes \cup {0}
  PROVE  IInv'
<1>0. /\ IccTypeOK /\ FrameHasBuffer /\ DamageCovers
      /\ capPending' = FALSE /\ second' = second /\ exists' = exists /\ wlDamage' = wlDamage
      /\ back' = back /\ front' = front
  BY DEF IInv, CommitCapture, back, front
<1>1. back \in {1, 2} /\ front \in {1, 2} /\ back # front
  BY <1>0, Sides DEF IccTypeOK
<1>2. QueuedCaptureWaits'
  BY <1>0 DEF QueuedCaptureWaits
<1>3. CASE size # 0 /\ ReuseBackBuffer(size)
  <2>1. IccTypeOK'
    BY <1>0, <1>3 DEF IccTypeOK, ReuseBackBuffer
  <2>2. FrameHasBuffer'
    BY <1>0, <1>3 DEF FrameHasBuffer, ReuseBackBuffer
  <2>3. DamageCovers'
    BY <1>0, <1>3 DEF DamageCovers, ReuseBackBuffer
  <2>4. QED BY <1>2, <2>1, <2>2, <2>3 DEF IInv
<1>4. CASE size # 0 /\ NewBackBuffer(size)
  <2>1. PICK a \in FreeAddrs : slot' = [slot EXCEPT ![back] = [size |-> size, addr |-> a]]
    BY <1>4 DEF NewBackBuffer
  <2>2. /\ slot' \in [{1, 2} -> Buffers]
        /\ slot'[back] = [size |-> size, addr |-> a] /\ slot'[front] = slot[front]
    BY <1>0, <1>1, <1>4, <2>1 DEF IccTypeOK, Buffers, FreeAddrs
  <2>3. slot'[back] # NoBuf /\ a # slot[1].addr /\ a # slot[2].addr
    BY <1>4, <2>1, <2>2 DEF NoBuf, FreeAddrs
  <2>4. IccTypeOK'
    BY <1>0, <1>1, <1>4, <2>2 DEF IccTypeOK, NewBackBuffer
  <2>5. FrameHasBuffer'
    BY <1>0, <1>1, <2>2, <2>3 DEF FrameHasBuffer
  <2>6. DamageCovers'
    BY <1>0, <1>1, <1>4, <2>2 DEF DamageCovers, NewBackBuffer, IccTypeOK
  <2>7. QED BY <1>2, <2>4, <2>5, <2>6 DEF IInv
<1>5. CASE NoBackBuffer(size)
  <2>1. /\ slot' \in [{1, 2} -> Buffers] /\ slot'[back] = NoBuf /\ slot'[front] = slot[front]
        /\ stale' \in [{1, 2} -> SUBSET Regions] /\ stale'[front] = stale[front]
    BY <1>0, <1>1, <1>5 DEF IccTypeOK, Buffers, NoBackBuffer
  <2>2. frame' = "none" /\ gaveUp' = TRUE /\ frameDamage' = frameDamage /\ lastDamage' = lastDamage
    BY <1>5 DEF NoBackBuffer
  <2>3. IccTypeOK'
    BY <1>0, <2>1, <2>2 DEF IccTypeOK
  <2>4. slot[front] # NoBuf => slot[front].addr # 0
    BY <1>0, <1>1, AddrsAssumption DEF IccTypeOK, Buffers, NoBuf
  <2>5. FrameHasBuffer'
    BY <1>0, <1>1, <2>1, <2>2, <2>4 DEF FrameHasBuffer, NoBuf
  <2>6. DamageCovers'
    BY <1>0, <1>1, <2>1, <2>2 DEF DamageCovers
  <2>7. QED BY <1>2, <2>3, <2>5, <2>6 DEF IInv
<1>6. QED BY <1>3, <1>4, <1>5 DEF CommitCapture

\* A context that has just been made has no buffers.
LEMMA NewContextOK ==
  ASSUME NEW there \in BOOLEAN, NewContext(there, FALSE)
  PROVE  IInv'
<1>1. IccTypeOK'
  BY DEF NewContext, IccTypeOK, Buffers
<1>2. QueuedCaptureWaits' /\ FrameHasBuffer'
  BY DEF NewContext, QueuedCaptureWaits, FrameHasBuffer
<1>3. DamageCovers'
  BY DEF NewContext, DamageCovers, front, back, NoBuf
<1>4. QED BY <1>1, <1>2, <1>3 DEF IInv

\* There is no context at first.
LEMMA InitIInv == IccInit => IInv
<1> SUFFICES ASSUME IccInit PROVE IInv
  OBVIOUS
<1>1. IccTypeOK
  BY DEF IccInit, IccTypeOK, Buffers
<1>2. QueuedCaptureWaits /\ FrameHasBuffer
  BY DEF IccInit, QueuedCaptureWaits, FrameHasBuffer
<1>3. DamageCovers
  BY DEF IccInit, DamageCovers, front, back, NoBuf
<1>4. QED BY <1>1, <1>2, <1>3 DEF IInv

-----------------------------------------------------------------------------
(***************************************************************************)
(* The steps                                                               *)
(***************************************************************************)
\* captureFrame: the capture is ignored, queued or begun.
LEMMA CaptureOK == IInv /\ CaptureAsked => IInv'
<1> SUFFICES ASSUME IInv, CaptureAsked PROVE IInv'
  OBVIOUS
<1>0. CaptureFrame /\ exists /\ UNCHANGED <<exists, req, second, wlDamage>> /\ IccTypeOK
  BY DEF CaptureAsked, IInv
<1>1. CASE frame # "none" \/ capPending
  BY <1>0, <1>1 DEF CaptureFrame, IInv, IccTypeOK, QueuedCaptureWaits, FrameHasBuffer,
     DamageCovers, front, back
<1>2. CASE frame = "none" /\ ~capPending /\ statePending
  <2>1. capPending' = TRUE /\ UNCHANGED <<statePending, frame, gaveUp, slot, lastDamage, frameDamage, stale>>
    BY <1>0, <1>2 DEF CaptureFrame
  <2>2. QED BY <1>0, <1>2, <2>1 DEF IInv, IccTypeOK, QueuedCaptureWaits, FrameHasBuffer,
     DamageCovers, front, back
<1>3. CASE frame = "none" /\ ~capPending /\ ~statePending
  <2>1. CommitCapture(req) /\ statePending' = statePending
    BY <1>0, <1>3 DEF CaptureFrame
  <2>2. QED BY <1>0, <1>3, <2>1, CommitOK DEF IccTypeOK
<1>4. QED BY <1>0, <1>1, <1>2, <1>3 DEF CaptureFrame

\* done: a capture that was queued is begun with the new parameters.
LEMMA ParamsDoneOK ==
  ASSUME IInv, NEW size \in Sizes \cup {0}, ParamsDone(size)
  PROVE  IInv'
<1>0. /\ statePending' = FALSE /\ req' = size /\ UNCHANGED <<exists, second, wlDamage>> /\ IccTypeOK
  BY DEF ParamsDone, IInv
<1>1. CASE capPending /\ CommitCapture(size)
  BY <1>0, <1>1, CommitOK DEF IInv, QueuedCaptureWaits
<1>2. CASE ~capPending /\ UNCHANGED <<capPending, frame, gaveUp, slot, lastDamage, frameDamage, stale>>
  BY <1>0, <1>2 DEF IInv, IccTypeOK, QueuedCaptureWaits, FrameHasBuffer, DamageCovers, front, back
<1>3. QED BY <1>1, <1>2 DEF ParamsDone

\* The frame's buffer is complete, and what the other one lacks is what the
\* compositor had found changed.
LEMMA FrameReadyOK ==
  ASSUME IInv, FrameReady
  PROVE  IInv' /\ stale'[back] = {} /\ slot[back] # NoBuf
<1>0. /\ IccTypeOK /\ FrameHasBuffer /\ DamageCovers /\ QueuedCaptureWaits
      /\ frame = "flying" /\ frame' = "none" /\ second' = ~second
      /\ UNCHANGED <<exists, capPending, statePending, req, gaveUp, slot, frameDamage>>
      /\ lastDamage' = wlDamage /\ wlDamage' = {}
  BY DEF IInv, FrameReady
<1>1. back \in {1, 2} /\ front \in {1, 2} /\ back # front
  BY <1>0, Sides DEF IccTypeOK
<1>2. back' = front /\ front' = back
  BY <1>0 DEF back, front, IccTypeOK
<1>3. /\ stale' \in [{1, 2} -> SUBSET Regions]
      /\ stale'[back] = stale[back] \ (frameDamage \cup wlDamage) /\ stale'[front] = stale[front]
  BY <1>0, <1>1 DEF FrameReady, IccTypeOK
<1>4. stale'[back] = {} /\ slot[back] # NoBuf
  BY <1>0, <1>3 DEF DamageCovers, FrameHasBuffer
<1>5. IccTypeOK'
  BY <1>0, <1>3 DEF IccTypeOK
<1>6. QueuedCaptureWaits' /\ FrameHasBuffer'
  BY <1>0 DEF QueuedCaptureWaits, FrameHasBuffer
<1>7. DamageCovers'
  BY <1>0, <1>1, <1>2, <1>3, <1>4 DEF DamageCovers
<1>8. QED BY <1>4, <1>5, <1>6, <1>7 DEF IInv

\* What changes in the picture is missing in both buffers, and known.
LEMMA PictureChangesOK ==
  ASSUME IInv, NEW r \in Regions, PictureChanges(r)
  PROVE  IInv'
<1>0. /\ IccTypeOK /\ FrameHasBuffer /\ DamageCovers /\ QueuedCaptureWaits
      /\ UNCHANGED <<ctxVars, swapVars, lastDamage, frameDamage>>
      /\ wlDamage' = wlDamage \cup {r}
      /\ stale' = [i \in {1, 2} |-> IF slot[i] = NoBuf THEN stale[i] ELSE stale[i] \cup {r}]
  BY DEF IInv, PictureChanges
<1>1. back \in {1, 2} /\ front \in {1, 2} /\ back' = back /\ front' = front
  BY <1>0, Sides DEF IccTypeOK, swapVars, back, front
<1>2. \A i \in {1, 2} : stale'[i] \subseteq stale[i] \cup {r}
  BY <1>0
<1>3. IccTypeOK'
  BY <1>0 DEF IccTypeOK, ctxVars, swapVars
<1>4. QueuedCaptureWaits' /\ FrameHasBuffer'
  BY <1>0, <1>1 DEF QueuedCaptureWaits, FrameHasBuffer, ctxVars, swapVars
<1>5. DamageCovers'
  BY <1>0, <1>1, <1>2 DEF DamageCovers, ctxVars, swapVars
<1>6. QED BY <1>3, <1>4, <1>5 DEF IInv

\* Every step keeps the invariant.
LEMMA NextIInv == IInv /\ [IccNext]_iccVars => IInv'
<1> SUFFICES ASSUME IInv, [IccNext]_iccVars PROVE IInv'
  OBVIOUS
<1>1. CASE Create
  BY <1>1, NewContextOK DEF Create
<1>2. CASE Delete
  BY <1>2, NewContextOK DEF Delete
<1>3. CASE CaptureAsked
  BY <1>3, CaptureOK
<1>4. CASE ParamsBegin
  BY <1>4 DEF ParamsBegin, IInv, IccTypeOK, QueuedCaptureWaits, FrameHasBuffer, DamageCovers,
     front, back, swapVars, dmgVars
<1>5. CASE \E size \in Sizes \cup {0} : ParamsDone(size)
  BY <1>5, ParamsDoneOK
<1>6. CASE FrameReady
  BY <1>6, FrameReadyOK
<1>7. CASE FrameFailed
  BY <1>7 DEF FrameFailed, IInv, IccTypeOK, QueuedCaptureWaits, FrameHasBuffer, DamageCovers,
     front, back, swapVars, dmgVars
<1>8. CASE \E r \in Regions : PictureChanges(r)
  BY <1>8, PictureChangesOK
<1>9. CASE UNCHANGED iccVars
  BY <1>9 DEF iccVars, ctxVars, swapVars, dmgVars, IInv, IccTypeOK, QueuedCaptureWaits,
     FrameHasBuffer, DamageCovers, front, back
<1>10. QED BY <1>1, <1>2, <1>3, <1>4, <1>5, <1>6, <1>7, <1>8, <1>9 DEF IccNext, CompositorStep

-----------------------------------------------------------------------------
\* The invariant holds in every state of the context and its compositor.
THEOREM Inductive == IccSpec => []IInv
BY InitIInv, NextIInv, PTL DEF IccSpec

\* Every variable keeps its type.
THEOREM IccTypeCorrect == IccSpec => []IccTypeOK
<1>1. IInv => IccTypeOK
  BY DEF IInv
<1>2. QED BY <1>1, Inductive, PTL

\* A queued capture waits for done() and for nothing else.
THEOREM QueuedAlwaysWaits == IccSpec => []QueuedCaptureWaits
<1>1. IInv => QueuedCaptureWaits
  BY DEF IInv
<1>2. QED BY <1>1, Inductive, PTL

\* The back buffer exists while a frame is under way, and the two buffers have
\* different addresses.
THEOREM FramesAlwaysHaveBuffers == IccSpec => []FrameHasBuffer
<1>1. IInv => FrameHasBuffer
  BY DEF IInv
<1>2. QED BY <1>1, Inductive, PTL

\* The requests, frames and buffers of a context always fit together.
THEOREM IccAlwaysConsistent == IccSpec => []IccConsistent
<1>1. IInv => IccConsistent
  BY DEF IInv, IccConsistent
<1>2. QED BY <1>1, Inductive, PTL

\* What a buffer lacks is known to the context or to the compositor.
THEOREM DamageAlwaysCovers == IccSpec => []DamageCovers
<1>1. IInv => DamageCovers
  BY DEF IInv
<1>2. QED BY <1>1, Inductive, PTL

\* A picture that is presented is complete, although only the damage of one
\* frame is repainted in a buffer that is used again.
THEOREM PresentedAlwaysUpToDate == IccSpec => PresentedUpToDate
<1>1. IInv /\ [IccNext]_iccVars => [FrameReady => stale'[back] = {} /\ slot[back] # NoBuf]_iccVars
  BY FrameReadyOK
<1>2. QED BY <1>1, Inductive, PTL DEF IccSpec, PresentedUpToDate

-----------------------------------------------------------------------------
\* The view's own variables, and the invariant: that of the context together
\* with the properties of the view.
ViewTypes ==
  /\ source \in Sources \cup {NoSource} /\ watched \subseteq Sources
  /\ completed \in BOOLEAN /\ onReady \in BOOLEAN /\ queued \in BOOLEAN /\ live \in BOOLEAN
  /\ hasContent \in BOOLEAN /\ asked \in {"no", "yes", "lost"}

\* What is queued in a view waits for a context.
QueuedAlone == (queued => ~exists) /\ (~exists => ~capPending /\ frame = "none")

ViewInv ==
  /\ IInv /\ ViewTypes /\ tex \in [{1, 2} -> Textures]
  /\ ContentHasFront /\ ContextHasSource

LEMMA ViewInvGives == ViewInv => ViewConsistent
BY DEF ViewInv, IInv, ViewTypes, ViewConsistent, ViewTypeOK

LEMMA InitViewInv == ViewInit => ViewInv
<1> SUFFICES ASSUME ViewInit PROVE ViewInv
  OBVIOUS
<1>1. IInv
  BY InitIInv DEF ViewInit
<1>2. ViewTypes /\ tex \in [{1, 2} -> Textures]
  BY DEF ViewInit, ViewTypes, Textures
<1>3. ContentHasFront /\ ContextHasSource
  BY DEF ViewInit, IccInit, ContentHasFront, ContextHasSource
<1> QED BY <1>1, <1>2, <1>3 DEF ViewInv

-----------------------------------------------------------------------------
(* The context that a view owns *)

\* A context that replaces another, or none, with a capture queued or not.
LEMMA ReplacedContextOK ==
  ASSUME NEW there \in BOOLEAN, NEW pending \in BOOLEAN, pending => there,
         NewContext(there, pending)
  PROVE  IInv' /\ exists' = there
<1>1. IccTypeOK'
  BY DEF NewContext, IccTypeOK, Buffers
<1>2. QueuedCaptureWaits' /\ FrameHasBuffer'
  BY DEF NewContext, QueuedCaptureWaits, FrameHasBuffer
<1>3. DamageCovers'
  BY DEF NewContext, DamageCovers, front, back, NoBuf
<1>4. exists' = there
  BY DEF NewContext
<1> QED BY <1>1, <1>2, <1>3, <1>4 DEF IInv

\* A capture, begun or queued, leaves the front buffer alone.
LEMMA FrontKept ==
  ASSUME IInv, NEW size, CommitCapture(size), UNCHANGED second
  PROVE  slot'[front'] = slot[front]
<1>1. back \in {1, 2} /\ front \in {1, 2} /\ back # front /\ front' = front
  BY Sides DEF IInv, IccTypeOK, front, back
<1>2. slot' = slot \/ \E b : slot' = [slot EXCEPT ![back] = b]
  BY DEF CommitCapture, ReuseBackBuffer, NewBackBuffer, NoBackBuffer
<1> QED BY <1>1, <1>2 DEF IInv, IccTypeOK

\* A step of the context and its compositor that presents nothing keeps what
\* the view relies on.
LEMMA ContextStepOK ==
  ASSUME ViewInv, \/ CaptureAsked \/ ParamsBegin \/ FrameFailed
                  \/ \E size \in Sizes \cup {0} : ParamsDone(size)
                  \/ \E r \in Regions : PictureChanges(r)
  PROVE  IInv' /\ exists' = exists /\ slot'[front'] = slot[front]
<1>1. IInv'
  BY NextIInv DEF ViewInv, IccNext, CompositorStep
<1>2. IInv
  BY DEF ViewInv
<1>3. CASE UNCHANGED <<exists, second, slot>>
  BY <1>1, <1>3 DEF front
<1>4. CASE \E size : CommitCapture(size) /\ UNCHANGED <<exists, second>>
  BY <1>1, <1>2, <1>4, FrontKept
<1>5. CASE CaptureAsked
  BY <1>3, <1>4, <1>5 DEF CaptureAsked, CaptureFrame
<1>6. CASE \E size \in Sizes \cup {0} : ParamsDone(size)
  BY <1>3, <1>4, <1>6 DEF ParamsDone
<1>7. CASE ParamsBegin \/ FrameFailed \/ \E r \in Regions : PictureChanges(r)
  BY <1>3, <1>7 DEF ParamsBegin, FrameFailed, PictureChanges, ctxVars, swapVars
<1> QED BY <1>5, <1>6, <1>7

\* Textures whose buffers are freed remain textures.
LEMMA KeepNodeOK ==
  ASSUME ViewInv, KeepNode
  PROVE  tex' \in [{1, 2} -> Textures]
<1> SUFFICES ASSUME NEW i \in {1, 2}, NEW b \in BOOLEAN
             PROVE  [tex[i] EXCEPT !.own = @ /\ b] \in Textures
  BY DEF KeepNode
<1>1. CASE tex[i] = NoTex
  <2>1. (tex[i].own /\ b) = FALSE
    BY <1>1 DEF NoTex
  <2>2. tex[i] \in [addr : {0}, own : {FALSE}] /\ tex[i].addr = 0
    BY <1>1 DEF NoTex
  <2>3. [tex[i] EXCEPT !.own = @ /\ b] = NoTex
    BY <2>1, <2>2 DEF NoTex
  <2> QED BY <2>3 DEF Textures
<1>2. CASE tex[i] \in [addr : Addrs, own : BOOLEAN]
  <2>1. [tex[i] EXCEPT !.own = @ /\ b] \in [addr : Addrs, own : BOOLEAN]
    BY <1>2
  <2> QED BY <2>1 DEF Textures
<1> QED BY <1>1, <1>2 DEF ViewInv, Textures

\* deleteContext
LEMMA DeleteContextOK ==
  ASSUME DeleteContext
  PROVE  IInv' /\ ~exists' /\ ContentHasFront' /\ ContextHasSource'
<1>1. IInv' /\ exists' = FALSE
  BY ReplacedContextOK DEF DeleteContext
<1> QED BY <1>1 DEF DeleteContext, ContentHasFront, ContextHasSource

\* createContext, for a view with a source and with buffers ready
LEMMA CreateContextOK ==
  ASSUME ViewInv, CreateContext, source' # NoSource, completed'
  PROVE  IInv' /\ ContentHasFront' /\ ContextHasSource'
<1>1. IInv'
  BY ReplacedContextOK DEF CreateContext, ViewInv, ViewTypes
<1> QED BY <1>1 DEF CreateContext, ContentHasFront, ContextHasSource

\* onBuffersReady
LEMMA OnBuffersReadyOK ==
  ASSUME ViewInv, OnBuffersReady, UNCHANGED source
  PROVE  IInv' /\ ContentHasFront' /\ ContextHasSource'
<1>1. CASE source # NoSource /\ CreateContext
  BY <1>1, CreateContextOK DEF OnBuffersReady
<1>2. CASE source = NoSource /\ UNCHANGED <<iccVars, queued, hasContent, asked>>
  <2>1. IInv'
    BY <1>2, NextIInv DEF ViewInv
  <2> QED BY <1>2, <2>1 DEF ViewInv, ContentHasFront, ContextHasSource, iccVars, ctxVars,
          swapVars, front
<1> QED BY <1>1, <1>2 DEF OnBuffersReady

\* captureFrame of the view, with a context or without one
LEMMA RequestFrameOK ==
  ASSUME ViewInv, RequestFrame, UNCHANGED <<source, completed, hasContent>>
  PROVE  IInv' /\ ContentHasFront' /\ ContextHasSource'
<1>1. CASE CaptureAsked
  BY <1>1, ContextStepOK DEF ViewInv, ContentHasFront, ContextHasSource
<1>2. CASE UNCHANGED iccVars
  <2>1. IInv'
    BY <1>2, NextIInv DEF ViewInv
  <2> QED BY <1>2, <2>1 DEF ViewInv, ContentHasFront, ContextHasSource, iccVars, ctxVars,
          swapVars, front
<1> QED BY <1>1, <1>2 DEF RequestFrame, CaptureUnsafe, CaptureAsked

\* updatePaintNode: a texture is made only of a front buffer that exists.
LEMMA PaintOK ==
  ASSUME ViewInv, Paint
  PROVE  ViewInv'
<1>0. UNCHANGED <<source, completed, hasContent>> /\ ViewTypes'
  BY DEF Paint, CaptureUnsafe, ViewInv, ViewTypes
<1>1. IInv' /\ ContentHasFront' /\ ContextHasSource'
  <2>1. CASE CaptureAsked
    BY <1>0, <2>1, ContextStepOK DEF ViewInv, ContentHasFront, ContextHasSource
  <2>2. CASE UNCHANGED iccVars
    <3>1. IInv'
      BY <2>2, NextIInv DEF ViewInv
    <3> QED BY <1>0, <2>2, <3>1 DEF ViewInv, ContentHasFront, ContextHasSource,
            iccVars, ctxVars, swapVars, front
  <2> QED BY <2>1, <2>2 DEF Paint, CaptureUnsafe, CaptureAsked
<1>2. tex' \in [{1, 2} -> Textures]
  <2>1. CASE tex' = [i \in {1, 2} |-> NoTex]
    BY <2>1 DEF Textures
  <2>2. CASE exists /\ hasContent /\ SyncSwapchain
    <3>1. slot[front] # NoBuf /\ front \in {1, 2}
      BY <2>2, Sides DEF ViewInv, ContentHasFront, IInv, IccTypeOK
    <3>2. slot[front] \in [size : Sizes, addr : Addrs]
      BY <3>1 DEF ViewInv, IInv, IccTypeOK, Buffers
    <3>3. [addr |-> slot[front].addr, own |-> TRUE] \in Textures
      BY <3>2 DEF Textures
    <3> QED BY <2>2, <3>3 DEF SyncSwapchain, ViewInv
  <2> QED BY <2>1, <2>2 DEF Paint
<1> QED BY <1>0, <1>1, <1>2 DEF ViewInv

-----------------------------------------------------------------------------
LEMMA NextViewTypes == ViewTypes /\ [ViewNext]_scVars => ViewTypes'
<1> SUFFICES ASSUME ViewTypes, [ViewNext]_scVars PROVE ViewTypes'
  OBVIOUS
<1>1. ASSUME NEW s \in Sources \cup {NoSource}, SetCaptureSource(s) PROVE ViewTypes'
  BY <1>1 DEF SetCaptureSource, CreateContext, DeleteContext, ContextGoes, ViewTypes
<1>2. ASSUME NEW s \in Sources, SourceDestroyed(s) PROVE ViewTypes'
  BY <1>2 DEF SourceDestroyed, DeleteContext, ContextGoes, ViewTypes
<1>3. CASE ContextStopped
  BY <1>3 DEF ContextStopped, DeleteContext, ContextGoes, ViewTypes
<1>4. CASE ComponentComplete
  BY <1>4 DEF ComponentComplete, OnBuffersReady, CreateContext, ContextGoes, ViewTypes
<1>5. CASE BuffersReady
  BY <1>5 DEF BuffersReady, OnBuffersReady, CreateContext, ContextGoes, ViewTypes
<1>6. CASE CaptureSingleFrame
  BY <1>6 DEF CaptureSingleFrame, RequestFrame, CaptureUnsafe, ViewTypes
<1>7. ASSUME NEW value \in BOOLEAN, SetIsLive(value) PROVE ViewTypes'
  BY <1>7 DEF SetIsLive, RequestFrame, CaptureUnsafe, ViewTypes
<1>8. CASE FrameCaptured
  BY <1>8 DEF FrameCaptured, ViewTypes
<1>9. CASE ContextEvent
  BY <1>9 DEF ContextEvent, ViewTypes
<1>10. CASE Paint
  BY <1>10 DEF Paint, CaptureUnsafe, ViewTypes
<1>11. CASE UNCHANGED viewVars
  BY <1>11 DEF viewVars, ViewTypes
<1> QED BY <1>1, <1>2, <1>3, <1>4, <1>5, <1>6, <1>7, <1>8, <1>9, <1>10, <1>11
        DEF ViewNext, scVars

LEMMA NextViewInv == ViewInv /\ [ViewNext]_scVars => ViewInv'
<1> SUFFICES ASSUME ViewInv, [ViewNext]_scVars PROVE ViewInv'
  OBVIOUS
<1> ViewTypes'
  BY NextViewTypes DEF ViewInv
<1>1. ASSUME IInv', ContentHasFront', ContextHasSource', KeepNode PROVE ViewInv'
  BY <1>1, KeepNodeOK DEF ViewInv
<1>2. ASSUME NEW s \in Sources \cup {NoSource}, SetCaptureSource(s) PROVE ViewInv'
  BY <1>1, <1>2, CreateContextOK, DeleteContextOK DEF SetCaptureSource
<1>3. ASSUME NEW s \in Sources, SourceDestroyed(s) PROVE ViewInv'
  BY <1>1, <1>3, DeleteContextOK DEF SourceDestroyed
<1>4. CASE ContextStopped
  BY <1>1, <1>4, DeleteContextOK DEF ContextStopped
<1>5. CASE ComponentComplete
  <2>1. CASE UNCHANGED <<completed, iccVars, queued, hasContent, asked>>
    <3>1. IInv'
      BY <2>1, NextIInv DEF ViewInv
    <3> QED BY <1>1, <1>5, <2>1, <3>1 DEF ComponentComplete, ViewInv, ContentHasFront,
            ContextHasSource, iccVars, ctxVars, swapVars, front
  <2> QED BY <1>1, <1>5, <2>1, OnBuffersReadyOK DEF ComponentComplete
<1>6. CASE BuffersReady
  BY <1>1, <1>6, OnBuffersReadyOK DEF BuffersReady
<1>7. CASE CaptureSingleFrame
  BY <1>1, <1>7, RequestFrameOK DEF CaptureSingleFrame
<1>8. ASSUME NEW value \in BOOLEAN, SetIsLive(value) PROVE ViewInv'
  <2>1. CASE UNCHANGED iccVars
    <3>1. IInv'
      BY <2>1, NextIInv DEF ViewInv
    <3> QED BY <1>1, <1>8, <2>1, <3>1 DEF SetIsLive, ViewInv, ContentHasFront,
            ContextHasSource, iccVars, ctxVars, swapVars, front
  <2> QED BY <1>1, <1>8, <2>1, RequestFrameOK DEF SetIsLive
<1>9. CASE FrameCaptured
  <2>1. /\ IInv' /\ slot[back] # NoBuf /\ exists' /\ slot' = slot /\ second' = ~second
        /\ UNCHANGED <<source, completed>> /\ KeepNode
    BY <1>9, FrameReadyOK DEF FrameCaptured, FrameReady, ViewInv
  <2>2. front' = back
    BY <2>1 DEF front, back, ViewInv, IInv, IccTypeOK
  <2>3. exists
    BY <1>9 DEF FrameCaptured, FrameReady
  <2> QED BY <1>1, <2>1, <2>2, <2>3 DEF ViewInv, ContentHasFront, ContextHasSource
<1>10. CASE ContextEvent
  <2>1. IInv' /\ exists' = exists /\ slot'[front'] = slot[front]
    BY <1>10, ContextStepOK DEF ContextEvent
  <2> QED BY <1>1, <1>10, <2>1 DEF ContextEvent, ViewInv, ContentHasFront, ContextHasSource
<1>11. CASE Paint
  BY <1>11, PaintOK
<1>12. CASE UNCHANGED scVars
  <2>1. IInv'
    BY <1>12, NextIInv DEF ViewInv, scVars
  <2> QED BY <1>12, <2>1 DEF scVars, viewVars, ViewInv, ContentHasFront,
          ContextHasSource, iccVars, ctxVars, swapVars, front
<1> QED BY <1>2, <1>3, <1>4, <1>5, <1>6, <1>7, <1>8, <1>9, <1>10, <1>11, <1>12 DEF ViewNext

-----------------------------------------------------------------------------
\* What QML sees of a view agrees with its context, and a texture is only made
\* of a buffer that exists.
THEOREM ViewAlwaysConsistent == ViewSpec => []ViewConsistent
<1>1. ViewSpec => []ViewInv
  BY InitViewInv, NextViewInv, PTL DEF ViewSpec
<1> QED BY <1>1, ViewInvGives, PTL

\* The context keeps its own promises under the view that owns it.
THEOREM ViewKeepsContext == ViewSpec => [](IccConsistent /\ DamageCovers) /\ PresentedUpToDate
<1>1. ViewSpec => []ViewInv
  BY InitViewInv, NextViewInv, PTL DEF ViewSpec
<1>2. ViewInv => IccConsistent /\ DamageCovers
  BY DEF ViewInv, IInv, IccConsistent
<1>3. ViewInv /\ [ViewNext]_scVars
        => [FrameReady => stale'[back] = {} /\ slot[back] # NoBuf]_iccVars
  BY FrameReadyOK DEF ViewInv
<1> QED BY <1>1, <1>2, <1>3, PTL DEF ViewSpec, PresentedUpToDate

\* Whether something is left that a capture asked for waits for.
Waits == queued \/ capPending \/ frame = "flying"
AskedOK == /\ asked \in {"no", "yes", "lost"} /\ (asked = "yes" <=> Waits)
           /\ QueuedAlone /\ (frame = "flying" => ~gaveUp)

\* The context goes, and another may come for what is queued.
LEMMA GoesOK ==
  ASSUME AskedOK, NEW there \in BOOLEAN, NEW pending \in BOOLEAN, NewContext(there, pending),
         ContextGoes, pending => there, there => ~queued', queued <=> queued' \/ pending
  PROVE  AskedOK'
<1>1. /\ capPending' = pending /\ frame' = "none" /\ exists' = there
      /\ asked' = IF asked = "yes" /\ ~queued THEN "lost" ELSE asked
  BY DEF NewContext, ContextGoes
<1>2. Waits' <=> queued
  BY <1>1 DEF Waits
<1>3. asked' \in {"no", "yes", "lost"} /\ (asked' = "yes" <=> queued)
  BY <1>1 DEF AskedOK, Waits
<1>4. QueuedAlone'
  BY <1>1 DEF QueuedAlone
<1> QED BY <1>1, <1>2, <1>3, <1>4 DEF AskedOK

LEMMA CreatedOK ==
  ASSUME AskedOK, queued \in BOOLEAN, CreateContext \/ DeleteContext PROVE AskedOK'
<1>1. CASE CreateContext
  <2>1. CASE NewContext(TRUE, queued) /\ queued' = FALSE
    BY <1>1, <2>1, GoesOK DEF CreateContext
  <2>2. CASE NewContext(FALSE, FALSE) /\ UNCHANGED queued
    BY <1>1, <2>2, GoesOK DEF CreateContext
  <2> QED BY <1>1, <2>1, <2>2 DEF CreateContext
<1>2. CASE DeleteContext
  BY <1>2, GoesOK DEF DeleteContext
<1> QED BY <1>1, <1>2

\* A commit starts a frame or gives the capture up.
LEMMA CommitGives ==
  ASSUME NEW size, CommitCapture(size)
  PROVE  /\ capPending' = FALSE
         /\ \/ frame' = "flying" /\ ~gaveUp'
            \/ frame' = frame /\ gaveUp'
BY DEF CommitCapture, ReuseBackBuffer, NewBackBuffer, NoBackBuffer

\* captureFrameUnsafe starts a frame, queues one or gives it up.
LEMMA UnsafeOK ==
  ASSUME AskedOK, QueuedCaptureWaits, frame \in {"none", "flying", "failed"}, CaptureUnsafe
  PROVE  AskedOK'
<1>1. exists /\ exists' /\ ~queued /\ ~queued'
  BY DEF CaptureUnsafe, AskedOK, QueuedAlone
<1>2. asked' = IF frame = "failed" \/ (~statePending /\ gaveUp') THEN "lost" ELSE "yes"
  BY DEF CaptureUnsafe
<1>3. QueuedAlone'
  BY <1>1 DEF QueuedAlone
<1>4. CASE /\ frame # "none" \/ capPending
           /\ UNCHANGED <<capPending, frame, gaveUp>>
  <2>1. (asked' = "yes" <=> Waits') /\ (frame' = "flying" => ~gaveUp')
    BY <1>1, <1>2, <1>4 DEF AskedOK, QueuedCaptureWaits, Waits
  <2> QED BY <1>2, <1>3, <2>1 DEF AskedOK
<1>5. CASE frame = "none" /\ statePending /\ capPending' = TRUE /\ UNCHANGED <<frame, gaveUp>>
  BY <1>2, <1>3, <1>5 DEF AskedOK, Waits
<1>6. CASE frame = "none" /\ ~statePending /\ CommitCapture(req)
  BY <1>1, <1>2, <1>3, <1>6, CommitGives DEF AskedOK, Waits
<1> QED BY <1>4, <1>5, <1>6 DEF CaptureUnsafe, CaptureFrame

\* Steps that change nothing of it.
LEMMA AskedKept ==
  ASSUME AskedOK, UNCHANGED <<asked, queued, capPending, frame, gaveUp, exists>> PROVE AskedOK'
BY DEF AskedOK, Waits, QueuedAlone

LEMMA NextAsked ==
  ASSUME ViewInv, AskedOK, [ViewNext]_scVars PROVE AskedOK'
<1>1. queued \in BOOLEAN /\ QueuedCaptureWaits /\ frame \in {"none", "flying", "failed"}
  BY DEF ViewInv, ViewTypes, IInv, IccTypeOK
<1>2. ASSUME NEW s \in Sources \cup {NoSource}, SetCaptureSource(s) PROVE AskedOK'
  BY <1>1, <1>2, CreatedOK DEF SetCaptureSource
<1>3. ASSUME NEW s \in Sources, SourceDestroyed(s) PROVE AskedOK'
  BY <1>1, <1>3, CreatedOK DEF SourceDestroyed
<1>4. CASE ContextStopped
  BY <1>1, <1>4, CreatedOK DEF ContextStopped
<1>5. CASE UNCHANGED <<iccVars, queued, asked>>
  BY <1>5, AskedKept DEF iccVars, ctxVars
<1>6. CASE OnBuffersReady
  BY <1>1, <1>5, <1>6, CreatedOK DEF OnBuffersReady
<1>7. CASE CaptureUnsafe
  BY <1>1, <1>7, UnsafeOK
<1>8. CASE RequestFrame
  <2>1. CASE ~exists /\ queued' = TRUE /\ asked' = "yes" /\ UNCHANGED iccVars
    <3>1. UNCHANGED <<exists, capPending, frame, gaveUp>>
      BY <2>1 DEF iccVars, ctxVars
    <3> QED BY <2>1, <3>1 DEF AskedOK, Waits, QueuedAlone
  <2> QED BY <1>7, <1>8, <2>1 DEF RequestFrame
<1>9. CASE FrameCaptured
  <2>1. /\ exists /\ frame = "flying" /\ frame' = "none" /\ asked' = "no"
        /\ UNCHANGED <<exists, queued, capPending>>
    BY <1>9 DEF FrameCaptured, FrameReady
  <2> QED BY <1>1, <2>1 DEF AskedOK, Waits, QueuedAlone, QueuedCaptureWaits
<1>10. CASE ContextEvent
  <2>1. CASE FrameFailed /\ asked' = "lost" /\ UNCHANGED queued
    <3>1. exists /\ frame = "flying" /\ frame' = "failed" /\ UNCHANGED <<exists, capPending>>
      BY <2>1 DEF FrameFailed
    <3> QED BY <1>1, <2>1, <3>1 DEF AskedOK, Waits, QueuedAlone, QueuedCaptureWaits
  <2>2. ASSUME NEW size \in Sizes \cup {0}, ParamsDone(size), UNCHANGED queued,
               asked' = IF capPending /\ gaveUp' THEN "lost" ELSE asked
        PROVE  AskedOK'
    <3>1. exists /\ exists' = exists /\ ~queued
      BY <2>2 DEF ParamsDone, AskedOK, QueuedAlone
    <3>2. CASE capPending /\ CommitCapture(size)
      BY <1>1, <2>2, <3>1, <3>2, CommitGives DEF AskedOK, Waits, QueuedAlone, QueuedCaptureWaits
    <3>3. CASE ~capPending /\ UNCHANGED <<capPending, frame, gaveUp>>
      BY <2>2, <3>1, <3>3, AskedKept
    <3> QED BY <2>2, <3>2, <3>3 DEF ParamsDone
  <2>3. CASE ParamsBegin /\ UNCHANGED <<asked, queued>>
    BY <2>3, AskedKept DEF ParamsBegin
  <2>4. ASSUME NEW r \in Regions, PictureChanges(r), UNCHANGED <<asked, queued>> PROVE AskedOK'
    BY <2>4, AskedKept DEF PictureChanges, ctxVars
  <2> QED BY <1>10, <2>1, <2>2, <2>3, <2>4 DEF ContextEvent
<1>11. CASE ComponentComplete \/ BuffersReady
  BY <1>5, <1>6, <1>11 DEF ComponentComplete, BuffersReady
<1>12. CASE CaptureSingleFrame
  BY <1>8, <1>12 DEF CaptureSingleFrame
<1>13. ASSUME NEW value \in BOOLEAN, SetIsLive(value) PROVE AskedOK'
  BY <1>5, <1>8, <1>13 DEF SetIsLive
<1>14. CASE Paint
  BY <1>5, <1>7, <1>14 DEF Paint
<1>15. CASE UNCHANGED scVars
  BY <1>5, <1>15 DEF scVars, viewVars
<1> QED BY <1>2, <1>3, <1>4, <1>9, <1>10, <1>11, <1>12, <1>13, <1>14, <1>15 DEF ViewNext

\* A capture that was asked for waits in the view or in its context, or is under way, until its
\* picture comes; it is lost in no way but the three that the code has: with its context, for
\* want of a buffer, or by a frame that failed.
THEOREM CapturesAlwaysAccounted == ViewSpec => []CapturesAccounted
<1>1. ViewInit => AskedOK
  BY DEF ViewInit, IccInit, AskedOK, Waits, QueuedAlone
<1>2. AskedOK => CapturesAccounted
  BY DEF AskedOK, Waits, CapturesAccounted
<1> QED BY <1>1, <1>2, InitViewInv, NextViewInv, NextAsked, PTL DEF ViewSpec

-----------------------------------------------------------------------------
(* The volumes.  A route that is not what the shell has of it is listed    *)
(* again, or about to be: whatever changes one has put an info behind the  *)
(* listings that are on their way.                                         *)

\* The daemon's volumes are cubes of what QML sets.
Cubes == {Cubed(v) : v \in Nat}
RouteLevels == [volume : Cubes, muted : BOOLEAN]
Levels == [volume : Cubes \cup {Unknown}, muted : BOOLEAN]
VolReplies == [kind : {"info"}, of : {""}, level : Levels]
                \cup [kind : {"param", "nodeInfo", "nodeParam"}, of : AudioNodes, level : Levels]
VolRequests == [kind : {"enumRoutes"}, of : {""}, level : Levels]
                 \cup [kind : {"enumNode", "route", "node"}, of : AudioNodes, level : Levels]

AudioFields == {"routed", "volume", "muted", "step", "server", "sent", "queued"}
AudioOK(a) ==
  /\ DOMAIN a = AudioFields
  /\ a.routed \in BOOLEAN /\ a.muted \in BOOLEAN /\ a.queued \in Nat \cup {Unknown}

VolTypes ==
  /\ levels \in [AudioNodes -> RouteLevels] /\ own \in [AudioNodes -> RouteLevels]
  /\ offered \subseteq AudioNodes
  /\ requests \in Seq(VolRequests) /\ replies \in Seq(VolReplies)
  /\ DOMAIN device = {"routes", "staging", "responded", "waiting"}
  /\ device.responded \in BOOLEAN /\ device.waiting \in BOOLEAN
  /\ \A n \in DOMAIN device.routes : n \in AudioNodes /\ device.routes[n] \in Levels
  /\ DOMAIN audio = AudioNodes /\ \A n \in AudioNodes : AudioOK(audio[n])

Infos == {m \in VolReplies : m.kind = "info"}
Enums == {m \in VolRequests : m.kind = "enumRoutes"}
ParamsOf(n) == {m \in VolReplies : m.kind = "param" /\ m.of = n}
Untrue(n, level) == {m \in ParamsOf(n) : m.level # level}
Moves(n, level) == {m \in VolRequests : m.kind = "route" /\ m.of = n /\ Applied(level, m.level) # level}

\* The routes will be listed after all that has happened.
Relisted == Holds(replies, Infos) \/ Holds(requests, Enums)

\* The shell has a route, and nothing about it is on its way.
Has(n) == ~Relisted /\ n \in offered /\ n \in DOMAIN device.routes /\ ~Holds(replies, ParamsOf(n))

\* A listing is told from its first route on.
Heard == ~Relisted /\ ~device.responded => \A n \in offered : Holds(replies, ParamsOf(n))
Told(n) == Mended(replies, Untrue(n, levels[n]), Infos)
RouteOK(n) ==
  Has(n) => /\ device.routes[n] = levels[n]
            /\ audio[n].routed => /\ audio[n].server = Visual(levels[n].volume)
                                  /\ audio[n].step = VolumeStep

\* What it shows is what the route has, or a request that moves it is on its way.
ShowsRoute(n) ==
  /\ audio[n].muted = levels[n].muted
  /\ \/ audio[n].volume = Visual(levels[n].volume)
     \/ /\ audio[n].volume # 0
        /\ Distance(audio[n].volume, Visual(levels[n].volume)) < VolumeStep
ShownOK(n) ==
  Has(n) /\ audio[n].routed /\ ~device.waiting =>
    ShowsRoute(n) \/ Holds(requests, Moves(n, levels[n]))

VolSound(n) == Told(n) /\ RouteOK(n) /\ ShownOK(n)
VolInv == VolTypes /\ Heard /\ \A n \in AudioNodes : VolSound(n)

LEMMA VisualIs ==
  /\ \A v \in Nat : Cubed(v) \in Cubes /\ Cubed(v) \in Nat
  /\ \A l \in Cubes : l \in Nat /\ Visual(l) \in Nat /\ Cubed(Visual(l)) = l
<1>1. ASSUME NEW v \in Nat PROVE Cubed(v) \in Nat /\ v \in 0 .. Cubed(v)
  <2>1. CASE v = 0
    BY <2>1 DEF Cubed
  <2>2. CASE v > 0
    <3>1. v * v \in Nat /\ v * v >= v
      BY <2>2
    <3>2. (v * v) * v \in Nat /\ (v * v) * v >= v * v
      BY <2>2, <3>1
    <3> QED BY <3>1, <3>2 DEF Cubed
  <2> QED BY <2>1, <2>2
<1>2. ASSUME NEW l \in Cubes PROVE l \in Nat /\ Visual(l) \in Nat /\ Cubed(Visual(l)) = l
  <2>1. PICK v \in Nat : l = Cubed(v)
    BY DEF Cubes
  <2>2. l \in Nat /\ \E w \in 0 .. l : Cubed(w) = l
    BY <1>1, <2>1
  <2>3. Visual(l) \in 0 .. l /\ Cubed(Visual(l)) = l
    BY <2>2 DEF Visual
  <2> QED BY <2>2, <2>3
<1> QED BY <1>1, <1>2 DEF Cubes

LEMMA LevelsIn == RouteLevels \subseteq Levels
BY DEF RouteLevels, Levels

InfoMsg == Msg2("info", "", NoLevel)
EnumMsg == Msg2("enumRoutes", "", NoLevel)

LEMMA VolMsgIs ==
  ASSUME NEW k, NEW n, NEW l
  PROVE  /\ Msg2(k, n, l).kind = k /\ Msg2(k, n, l).of = n /\ Msg2(k, n, l).level = l
         /\ l \in Levels /\ n \in AudioNodes /\ k \in {"param", "nodeInfo", "nodeParam"} => Msg2(k, n, l) \in VolReplies
         /\ l \in Levels /\ n \in AudioNodes /\ k \in {"enumNode", "route", "node"} => Msg2(k, n, l) \in VolRequests
BY DEF Msg2, VolReplies, VolRequests

LEMMA NoLevelOK == NoLevel \in Levels
BY DEF NoLevel, Levels, Unknown

LEMMA InfoIs == InfoMsg \in Infos /\ InfoMsg \in VolReplies /\ InfoMsg.kind = "info"
BY NoLevelOK DEF InfoMsg, Msg2, VolReplies, Infos

LEMMA EnumIs == EnumMsg \in Enums /\ EnumMsg \in VolRequests /\ EnumMsg.kind = "enumRoutes"
BY NoLevelOK DEF EnumMsg, Msg2, VolRequests, Enums

LEMMA AppliedOK ==
  ASSUME NEW l \in RouteLevels, NEW c \in Levels PROVE Applied(l, c) \in RouteLevels
<1>1. Cubed(Loudest) \in Cubes
  BY VolumeAssumption, VisualIs
<1>2. c.volume \in Cubes \cup {Unknown} /\ c.muted \in BOOLEAN /\ l.volume \in Cubes /\ l.muted \in BOOLEAN
  BY DEF RouteLevels, Levels
<1> QED BY <1>1, <1>2 DEF Applied, RouteLevels, LowerOf

\* An info goes behind everything: all will be listed again.
LEMMA InfoSent ==
  ASSUME VolTypes, replies' = Append(replies, InfoMsg)
  PROVE  /\ Heard' /\ \A n \in AudioNodes : VolSound(n)'
         /\ replies' \in Seq(VolReplies)
<1>1. InfoMsg \in Infos /\ InfoMsg \in VolReplies /\ InfoMsg.kind = "info"
  BY InfoIs
<1>2. ASSUME NEW n, NEW l PROVE Mended(replies', Untrue(n, l), Infos)
  <2>1. InfoMsg \in Infos \ Untrue(n, l)
    BY <1>1 DEF Untrue, ParamsOf
  <2> QED BY <1>1, <2>1, PutOne DEF VolTypes
<1>5. Holds(replies', Infos)
  BY <1>1, PutOne DEF VolTypes
<1>3. Relisted' /\ \A n \in AudioNodes : Told(n)'
  BY <1>2, <1>5 DEF Relisted, Told, Untrue, ParamsOf, Infos
<1>4. replies' \in Seq(VolReplies)
  BY <1>1, AppendProperties DEF VolTypes
<1> QED BY <1>3, <1>4 DEF Heard, VolSound, RouteOK, ShownOK, Has

\* A step that changes none of what is shown, and takes nothing that was still to tell.
LEMMA VolKept ==
  ASSUME VolInv, UNCHANGED <<levels, offered, audio>>,
         device'.responded = device.responded, device'.waiting = device.waiting,
         \A n \in DOMAIN device'.routes : n \in DOMAIN device.routes /\ device'.routes[n] = device.routes[n],
         Relisted => Relisted',
         \A n \in AudioNodes : Holds(replies, ParamsOf(n)) => Holds(replies', ParamsOf(n)),
         \A n \in AudioNodes : Told(n)',
         \A n \in offered : Holds(requests, Moves(n, levels[n])) => Holds(requests', Moves(n, levels[n]))
  PROVE  Heard' /\ \A n \in AudioNodes : VolSound(n)'
<1>0. offered \subseteq AudioNodes
  BY DEF VolInv, VolTypes
<1>1. Heard'
  BY <1>0 DEF VolInv, Heard, ParamsOf
<1>2. ASSUME NEW n \in AudioNodes, Has(n)' PROVE Has(n) /\ device'.routes[n] = device.routes[n]
  BY <1>2 DEF Has, ParamsOf
<1>3. ASSUME NEW n \in AudioNodes PROVE RouteOK(n)'
  BY <1>2 DEF VolInv, VolSound, RouteOK
<1>4. ASSUME NEW n \in AudioNodes PROVE ShownOK(n)'
  <2> SUFFICES ASSUME Has(n)', audio[n].routed, ~device.waiting
               PROVE  ShowsRoute(n)' \/ Holds(requests', Moves(n, levels'[n]))
    BY DEF ShownOK, Moves
  <2>1. Has(n) /\ n \in offered
    BY <1>2 DEF Has
  <2>2. ShowsRoute(n) \/ Holds(requests, Moves(n, levels[n]))
    BY <2>1 DEF VolInv, VolSound, ShownOK
  <2> QED BY <2>1, <2>2 DEF ShowsRoute
<1> QED BY <1>1, <1>3, <1>4 DEF VolSound

\* Where a message is put or taken, typed queues stay so.
LEMMA VolQueues ==
  ASSUME VolTypes
  PROVE  /\ \A m \in VolReplies : Append(replies, m) \in Seq(VolReplies)
         /\ \A m \in VolRequests : Append(requests, m) \in Seq(VolRequests)
         /\ replies # <<>> => Head(replies) \in VolReplies /\ Tail(replies) \in Seq(VolReplies)
         /\ requests # <<>> => Head(requests) \in VolRequests /\ Tail(requests) \in Seq(VolRequests)
BY AppendProperties, HeadTailProperties DEF VolTypes

\* A listing: a parameter of each route the card offers.
LEMMA ListingIs ==
  ASSUME VolTypes
  PROVE  LET list == [k \in 1 .. Cardinality(offered) |->
                        LET r == SetToSeq(offered)[k] IN Msg2("param", r, levels[r])]
         IN  /\ list \in Seq(VolReplies)
             /\ \A n \in offered : Holds(list, ParamsOf(n))
             /\ \A n : ~Holds(list, Untrue(n, levels[n]))
<1> DEFINE c == Cardinality(offered)
           o == SetToSeq(offered)
           list == [k \in 1 .. c |-> LET r == o[k] IN Msg2("param", r, levels[r])]
<1>1. IsFiniteSet(offered) /\ c \in Nat
  BY VolumeAssumption, FS_Subset, FS_CardinalityType DEF VolTypes
<1>2. /\ o \in [1 .. c -> offered]
      /\ \A n \in offered : \E k \in 1 .. c : o[k] = n
  BY <1>1, SomeOrder
<1> HIDE DEF o, c
<1>3. ASSUME NEW k \in 1 .. c
      PROVE  /\ list[k].kind = "param" /\ list[k].of = o[k] /\ list[k].level = levels[o[k]]
             /\ list[k] \in VolReplies
  <2>1. o[k] \in AudioNodes /\ levels[o[k]] \in Levels
    BY <1>2, LevelsIn DEF VolTypes
  <2>2. list[k] = Msg2("param", o[k], levels[o[k]])
    OBVIOUS
  <2> HIDE DEF list
  <2> QED BY <2>1, <2>2, VolMsgIs
<1>4. DOMAIN list = 1 .. c
  OBVIOUS
<1>5. list \in [1 .. c -> VolReplies]
  BY <1>3
<1> HIDE DEF list
<1>6. list \in Seq(VolReplies)
  BY <1>1, <1>5, IsASeq
<1>7. ASSUME NEW n \in offered PROVE Holds(list, ParamsOf(n))
  <2>1. PICK k \in 1 .. c : o[k] = n
    BY <1>2
  <2> QED BY <1>3, <1>4, <2>1 DEF Holds, ParamsOf
<1>8. ASSUME NEW n PROVE ~Holds(list, Untrue(n, levels[n]))
  BY <1>3, <1>4 DEF Holds, Untrue, ParamsOf
<1> QED BY <1>6, <1>7, <1>8 DEF list, o, c

\* The daemon lists its routes.
LEMMA ListedOK ==
  ASSUME VolInv, requests # <<>>, Head(requests).kind = "enumRoutes", DaemonTakes
  PROVE  VolInv'
<1> DEFINE list == [k \in 1 .. Cardinality(offered) |->
                      LET r == SetToSeq(offered)[k] IN Msg2("param", r, levels[r])]
<1>1. /\ replies' = replies \o list /\ requests' = Tail(requests)
      /\ UNCHANGED <<levels, own, offered, device, audio>>
  BY DEF DaemonTakes, daemonSide
<1>2. /\ list \in Seq(VolReplies)
      /\ \A n \in offered : Holds(list, ParamsOf(n))
      /\ \A n : ~Holds(list, Untrue(n, levels[n]))
  BY ListingIs DEF VolInv
<1> HIDE DEF list
<1>3. VolTypes'
  <2>1. replies' \in Seq(VolReplies)
    BY <1>1, <1>2, ConcatProperties DEF VolInv, VolTypes
  <2>2. requests' \in Seq(VolRequests)
    BY <1>1, VolQueues DEF VolInv
  <2> QED BY <1>1, <2>1, <2>2 DEF VolInv, VolTypes
<1>4. \A n \in offered : Holds(replies', ParamsOf(n))
  BY <1>1, <1>2, PutMany DEF VolInv, VolTypes
<1>5. ASSUME NEW n \in AudioNodes PROVE Told(n)'
  <2>1. Mended(replies, Untrue(n, levels[n]), Infos)
    BY DEF VolInv, VolSound, Told
  <2>2. Mended(replies', Untrue(n, levels[n]), Infos)
    BY <1>1, <1>2, <2>1, PutMany DEF VolInv, VolTypes
  <2> QED BY <1>1, <2>2 DEF Told, Untrue, ParamsOf, Infos
<1>6. Heard'
  BY <1>1, <1>4 DEF Heard, ParamsOf
<1>7. ASSUME NEW n PROVE ~Has(n)'
  BY <1>1, <1>4 DEF Has, ParamsOf
<1> QED BY <1>3, <1>5, <1>6, <1>7 DEF VolInv, VolSound, RouteOK, ShownOK

\* A message that is neither a route nor the news that routes changed.
Aside(m) == m \in VolReplies /\ m.kind \in {"nodeInfo", "nodeParam"}

LEMMA AsideSent ==
  ASSUME VolTypes, NEW m, Aside(m), replies' = Append(replies, m), UNCHANGED levels
  PROVE  /\ replies' \in Seq(VolReplies)
         /\ Holds(replies, Infos) => Holds(replies', Infos)
         /\ \A n : Holds(replies, ParamsOf(n)) => Holds(replies', ParamsOf(n))
         /\ \A n : Told(n) => Told(n)'
<1>1. m \in VolReplies /\ \A n, l : m \notin Untrue(n, l)
  BY DEF Aside, Untrue, ParamsOf
<1>2. /\ Holds(replies, Infos) => Holds(replies', Infos)
      /\ \A n : Holds(replies, ParamsOf(n)) => Holds(replies', ParamsOf(n))
  BY <1>1, PutOne DEF VolTypes
<1>3. ASSUME NEW n, Told(n) PROVE Told(n)'
  <2>1. Mended(replies', Untrue(n, levels[n]), Infos)
    BY <1>1, <1>3, PutOne DEF VolTypes, Told
  <2> QED BY <2>1 DEF Told, Untrue, ParamsOf, Infos
<1> QED BY <1>1, <1>2, <1>3, VolQueues

\* The daemon takes what is not a listing: what it takes tells nothing, unless it moves a route.
LEMMA TakenOK ==
  ASSUME VolTypes, requests # <<>>, requests' = Tail(requests), Head(requests).kind # "enumRoutes"
  PROVE  /\ requests' \in Seq(VolRequests)
         /\ Holds(requests, Enums) => Holds(requests', Enums)
         /\ \A n \in AudioNodes, l \in RouteLevels :
              Head(requests).of # n \/ Head(requests).kind # "route" \/ Applied(l, Head(requests).level) = l =>
                (Holds(requests, Moves(n, l)) => Holds(requests', Moves(n, l)))
<1>1. Head(requests) \notin Enums
  BY DEF Enums
<1>2. Holds(requests, Enums) => Holds(requests', Enums)
  BY <1>1, TakeOne DEF VolTypes
<1>3. ASSUME NEW n \in AudioNodes, NEW l \in RouteLevels,
             Head(requests).of # n \/ Head(requests).kind # "route" \/ Applied(l, Head(requests).level) = l
      PROVE  Holds(requests, Moves(n, l)) => Holds(requests', Moves(n, l))
  <2>1. Head(requests) \notin Moves(n, l)
    BY <1>3 DEF Moves
  <2> QED BY <2>1, TakeOne DEF VolTypes
<1> QED BY <1>2, <1>3, VolQueues

LEMMA DaemonOK == ASSUME VolInv, DaemonTakes PROVE VolInv'
<1> DEFINE m == Head(requests)
<1>1. /\ requests # <<>> /\ requests' = Tail(requests) /\ UNCHANGED <<device, audio>>
      /\ VolTypes
  BY DEF DaemonTakes, VolInv
<1>2. m \in VolRequests
  BY <1>1, VolQueues
<1>3. m.kind # "enumRoutes" => m.of \in AudioNodes /\ m.level \in Levels
  BY <1>2 DEF VolRequests
<1>4. m.kind \in {"enumRoutes", "enumNode", "route", "node"}
  BY <1>2 DEF VolRequests
<1>5. CASE m.kind = "enumRoutes"
  BY <1>1, <1>5, ListedOK
<1>6. ASSUME m.kind \in {"enumNode", "node"} PROVE VolInv'
  <2>1. /\ UNCHANGED <<levels, offered>>
        /\ \E k \in {"nodeParam", "nodeInfo"} : \E l \in Levels : replies' = Append(replies, Msg2(k, m.of, l))
        /\ own' = own \/ own' = [own EXCEPT ![m.of] = Applied(@, m.level)]
    BY <1>3, <1>6, NoLevelOK, LevelsIn DEF DaemonTakes, daemonSide, VolInv, VolTypes
  <2>2. PICK k \in {"nodeParam", "nodeInfo"}, l \in Levels : replies' = Append(replies, Msg2(k, m.of, l))
    BY <2>1
  <2>3. Aside(Msg2(k, m.of, l))
    BY <1>3, <1>6, <2>2, VolMsgIs DEF Aside
  <2>4. own' \in [AudioNodes -> RouteLevels]
    BY <1>1, <1>3, <1>6, <2>1, AppliedOK DEF VolTypes
  <2>5. VolTypes'
    BY <1>1, <2>1, <2>2, <2>3, <2>4, AsideSent, TakenOK DEF VolTypes
  <2> QED BY <1>1, <1>6, <2>1, <2>2, <2>3, <2>5, AsideSent, TakenOK, VolKept DEF VolInv, VolSound, Relisted, VolTypes
<1>7. ASSUME m.kind = "route" PROVE VolInv'
  <2>1. /\ UNCHANGED <<own, offered>>
        /\ levels' = IF m.of \in offered THEN [levels EXCEPT ![m.of] = Applied(@, m.level)] ELSE levels
        /\ replies' = Append(replies, InfoMsg) \/ (levels' = levels /\ replies' = replies)
    BY <1>7 DEF DaemonTakes, InfoMsg
  <2>2. levels' \in [AudioNodes -> RouteLevels]
    BY <1>1, <1>3, <1>7, <2>1, AppliedOK DEF VolTypes
  <2>3. CASE replies' = Append(replies, InfoMsg)
    <3>1. VolTypes'
      BY <1>1, <1>7, <2>1, <2>2, <2>3, InfoSent, TakenOK DEF VolTypes
    <3> QED BY <1>1, <2>3, <3>1, InfoSent DEF VolInv
  <2>4. CASE levels' = levels /\ replies' = replies
    <3>1. VolTypes'
      BY <1>1, <1>7, <2>1, <2>4, TakenOK DEF VolTypes
    <3>2. ASSUME NEW n \in offered PROVE m.of # n \/ Applied(levels[n], m.level) = levels[n]
      BY <1>1, <1>3, <1>7, <2>1, <2>4, <3>2 DEF VolTypes
    <3>3. ASSUME NEW n \in offered PROVE Holds(requests, Moves(n, levels[n])) => Holds(requests', Moves(n, levels[n]))
      BY <1>1, <1>7, <3>2, TakenOK DEF VolTypes
    <3>4. \A n \in AudioNodes : Told(n)'
      BY <2>4 DEF VolInv, VolSound, Told, Untrue, ParamsOf, Infos
    <3>5. Relisted => Relisted'
      BY <1>1, <1>7, <2>4, TakenOK DEF Relisted
    <3>6. Heard' /\ \A n \in AudioNodes : VolSound(n)'
      BY <1>1, <2>1, <2>4, <3>3, <3>4, <3>5, VolKept
    <3> QED BY <3>1, <3>6 DEF VolInv
  <2> QED BY <2>1, <2>3, <2>4
<1> QED BY <1>4, <1>5, <1>6, <1>7

LEMMA OthersOK ==
  ASSUME VolInv, \/ \E n \in AudioNodes, change \in Changes : OtherTurns(n, change)
                 \/ \E p \in SUBSET AudioNodes : OtherProfile(p)
  PROVE  VolInv'
<1>1. /\ replies' = Append(replies, InfoMsg) /\ UNCHANGED <<own, requests, device, audio>>
      /\ offered' \subseteq AudioNodes
      /\ \/ levels' = levels
         \/ \E n \in AudioNodes, c \in Changes : levels' = [levels EXCEPT ![n] = Applied(@, c)]
  BY DEF OtherTurns, OtherProfile, InfoMsg, VolInv, VolTypes
<1>2. levels' \in [AudioNodes -> RouteLevels]
  <2>1. Changes \subseteq Levels
    <3>1. {Cubed(v) : v \in Visuals \cap Nat} \subseteq Cubes
      BY DEF Cubes
    <3> QED BY <3>1 DEF Levels, Changes
  <2>2. ASSUME NEW n \in AudioNodes, NEW c \in Changes, levels' = [levels EXCEPT ![n] = Applied(@, c)]
        PROVE  levels' \in [AudioNodes -> RouteLevels]
    <3>1. levels[n] \in RouteLevels
      BY DEF VolInv, VolTypes
    <3>2. Applied(levels[n], c) \in RouteLevels
      BY <2>1, <3>1, AppliedOK
    <3> QED BY <2>2, <3>2 DEF VolInv, VolTypes
  <2> QED BY <1>1, <2>2 DEF VolInv, VolTypes
<1>3. VolTypes'
  BY <1>1, <1>2, InfoSent DEF VolInv, VolTypes
<1> QED BY <1>1, <1>3, InfoSent DEF VolInv

-----------------------------------------------------------------------------
(* What the shell takes *)

\* updateVolumeProps.
LEMMA PropsSet ==
  ASSUME NEW a, DOMAIN a = AudioNodes, \A k \in AudioNodes : AudioOK(a[k]),
         NEW n \in AudioNodes, NEW l \in Levels
  PROVE  LET b == WithProps(a, n, l)
         IN  /\ DOMAIN b = AudioNodes /\ \A k \in AudioNodes : AudioOK(b[k])
             /\ \A k \in AudioNodes : k # n => b[k] = a[k]
             /\ b[n].routed = a[n].routed /\ b[n].muted = l.muted /\ b[n].volume = Visual(l.volume)
             /\ b[n].server = Visual(l.volume) /\ b[n].step = VolumeStep
BY DEF WithProps, AudioOK, AudioFields, Levels

\* What onDeviceReady sends and shows of volumes that waited.
LEMMA QueueSent ==
  ASSUME VolTypes
  PROVE  /\ DOMAIN SentQueued = AudioNodes
         /\ \A k \in AudioNodes : /\ AudioOK(SentQueued[k]) /\ SentQueued[k].routed = audio[k].routed
                                  /\ SentQueued[k].server = audio[k].server /\ SentQueued[k].step = audio[k].step
         /\ QueuedRequests \in Seq(VolRequests)
         /\ requests \o QueuedRequests \in Seq(VolRequests)
         /\ Holds(requests, Enums) => Holds(requests \o QueuedRequests, Enums)
<1>1. ASSUME NEW k \in AudioNodes
      PROVE  /\ AudioOK(SentQueued[k]) /\ SentQueued[k].routed = audio[k].routed
             /\ SentQueued[k].server = audio[k].server /\ SentQueued[k].step = audio[k].step
  <2>1. AudioOK(audio[k])
    BY DEF VolTypes
  <2> DEFINE a == audio[k]
             b == [a EXCEPT !.queued = Unknown,
                            !.sent = IF Overdue(k) THEN a.queued ELSE @,
                            !.volume = IF Overdue(k) THEN a.queued ELSE @]
  <2>2. SentQueued[k] = b
    BY DEF SentQueued
  <2>3. AudioOK(b) /\ b.routed = a.routed /\ b.server = a.server /\ b.step = a.step
    <3>1. AudioOK(a)
      BY <2>1
    <3> HIDE DEF a
    <3> QED BY <2>1, <3>1 DEF AudioOK, AudioFields
  <2> QED BY <2>2, <2>3
<1>2. QueuedRequests \in Seq(VolRequests)
  <2> DEFINE L == {n \in AudioNodes : Overdue(n) /\ n \in DOMAIN device.routes}
             late == SetToSeq(L)
  <2>1. late \in [1 .. Cardinality(L) -> L] /\ Cardinality(L) \in Nat
    BY VolumeAssumption, FS_Subset, FS_CardinalityType, SomeOrder
  <2>2. ASSUME NEW k \in 1 .. Cardinality(L)
        PROVE  Msg2("route", late[k], [volume |-> Cubed(audio[late[k]].queued), muted |-> FALSE]) \in VolRequests
    <3>1. late[k] \in AudioNodes
      BY <2>1
    <3>2. audio[late[k]].queued \in Nat
      BY <2>1, <3>1 DEF VolTypes, AudioOK, Overdue
    <3>3. [volume |-> Cubed(audio[late[k]].queued), muted |-> FALSE] \in Levels
      BY <3>2, VisualIs DEF Levels
    <3> QED BY <3>1, <3>3, VolMsgIs
  <2>3. DOMAIN late = 1 .. Cardinality(L)
    BY <2>1
  <2>4. QueuedRequests = [k \in 1 .. Cardinality(L) |->
           Msg2("route", late[k], [volume |-> Cubed(audio[late[k]].queued), muted |-> FALSE])]
    BY <2>3 DEF QueuedRequests
  <2>5. QueuedRequests \in [1 .. Cardinality(L) -> VolRequests]
    BY <2>2, <2>4
  <2>6. Cardinality(L) \in Nat
    BY <2>1
  <2> DEFINE c == Cardinality(L)
  <2> HIDE DEF late, L, c
  <2> QED BY <2>5, <2>6, SeqDef DEF c
<1>3. DOMAIN SentQueued = AudioNodes
  BY DEF SentQueued
<1>4. /\ requests \o QueuedRequests \in Seq(VolRequests)
      /\ Holds(requests, Enums) => Holds(requests \o QueuedRequests, Enums)
  BY <1>2, PutMany, ConcatProperties DEF VolTypes
<1> QED BY <1>1, <1>2, <1>3, <1>4

\* The shell takes a reply: what it has not taken is still to come.
LEMMA ReplyTaken ==
  ASSUME VolInv, replies # <<>>, replies' = Tail(replies), UNCHANGED levels
  PROVE  /\ replies' \in Seq(VolReplies) /\ Head(replies) \in VolReplies
         /\ Head(replies).kind # "info" => (Holds(replies, Infos) => Holds(replies', Infos))
         /\ \A n : Head(replies).kind # "param" \/ Head(replies).of # n =>
                    (Holds(replies, ParamsOf(n)) => Holds(replies', ParamsOf(n)))
         /\ \A n \in AudioNodes : Told(n)'
         /\ \A n \in AudioNodes : Head(replies) \in Untrue(n, levels[n]) => Holds(replies', Infos)
<1>1. VolTypes
  BY DEF VolInv
<1>2. replies \in Seq(VolReplies)
  BY <1>1 DEF VolTypes
<1>3. Head(replies).kind # "info" => (Holds(replies, Infos) => Holds(replies', Infos))
  <2>1. Head(replies).kind # "info" => Head(replies) \notin Infos
    BY DEF Infos
  <2> QED BY <1>2, <2>1, TakeOne
<1>4. ASSUME NEW n, Head(replies).kind # "param" \/ Head(replies).of # n
      PROVE  Holds(replies, ParamsOf(n)) => Holds(replies', ParamsOf(n))
  <2>1. Head(replies) \notin ParamsOf(n)
    BY <1>4 DEF ParamsOf
  <2> QED BY <1>2, <2>1, TakeOne
<1>5. ASSUME NEW n \in AudioNodes
      PROVE  Told(n)' /\ (Head(replies) \in Untrue(n, levels[n]) => Holds(replies', Infos))
  <2>1. Mended(replies, Untrue(n, levels[n]), Infos)
    BY DEF VolInv, VolSound, Told
  <2>2. /\ Mended(replies', Untrue(n, levels[n]), Infos)
        /\ Head(replies) \in Untrue(n, levels[n]) => Holds(replies', Infos)
    BY <1>2, <2>1, TakeOne
  <2> QED BY <2>2 DEF Told, Untrue, ParamsOf, Infos
<1> QED BY <1>1, <1>3, <1>4, <1>5, VolQueues

\* Device::on_info.
LEMMA RoutesChangedOK ==
  ASSUME VolInv, ShellTakes, Head(replies).kind = "info", RoutesChanged PROVE VolInv'
<1>1. /\ replies # <<>> /\ replies' = Tail(replies) /\ UNCHANGED <<levels, own, offered, audio>>
      /\ VolTypes
  BY DEF ShellTakes, RoutesChanged, daemonSide, VolInv
<1>2. requests' = Append(requests, EnumMsg) /\ device' = [device EXCEPT !.staging = {}, !.responded = FALSE]
  BY DEF RoutesChanged, EnumMsg
<1>3. requests' \in Seq(VolRequests) /\ Holds(requests', Enums)
  BY <1>1, <1>2, EnumIs, PutOne, VolQueues DEF VolTypes
<1>4. Relisted'
  BY <1>3 DEF Relisted, Enums
<1>5. VolTypes'
  BY <1>1, <1>2, <1>3, ReplyTaken DEF VolTypes
<1>6. \A n \in AudioNodes : Told(n)'
  BY <1>1, ReplyTaken
<1> QED BY <1>4, <1>5, <1>6 DEF VolInv, Heard, VolSound, RouteOK, ShownOK, Has

\* What the shell takes leaves the levels; a node that is not concerned stays as it was.
LEMMA NodeKept ==
  ASSUME VolInv, UNCHANGED <<levels, offered>>, NEW n \in AudioNodes,
         audio'[n] = audio[n], device'.waiting = device.waiting \/ device'.waiting,
         Has(n)' => Has(n) /\ device'.routes[n] = device.routes[n],
         Holds(requests, Moves(n, levels[n])) => Holds(requests', Moves(n, levels[n])) \/ device'.waiting
  PROVE  RouteOK(n)' /\ ShownOK(n)'
<1>1. RouteOK(n)'
  BY DEF VolInv, VolSound, RouteOK
<1>2. ShownOK(n)'
  <2> SUFFICES ASSUME Has(n)', audio[n].routed, ~device'.waiting
               PROVE  ShowsRoute(n)' \/ Holds(requests', Moves(n, levels'[n]))
    BY DEF ShownOK, Moves
  <2>1. Has(n) /\ ~device.waiting
    OBVIOUS
  <2>2. ShowsRoute(n) \/ Holds(requests, Moves(n, levels[n]))
    BY <2>1 DEF VolInv, VolSound, ShownOK
  <2> QED BY <2>2 DEF ShowsRoute
<1> QED BY <1>1, <1>2

\* Node::on_info.
LEMMA NodeInfoOK ==
  ASSUME VolInv, ShellTakes, Head(replies).kind = "nodeInfo", NodeInfo(Head(replies).of) PROVE VolInv'
<1> DEFINE n == Head(replies).of
           ask == Msg2("enumNode", n, NoLevel)
           routed == [audio EXCEPT ![n].routed = TRUE]
<1>1. /\ replies # <<>> /\ replies' = Tail(replies) /\ UNCHANGED <<levels, own, offered, device>>
      /\ VolTypes /\ requests' = Append(requests, ask)
      /\ audio' = IF n \in DOMAIN device.routes THEN WithProps(routed, n, device.routes[n]) ELSE routed
  BY DEF ShellTakes, NodeInfo, daemonSide, VolInv
<1>2. n \in AudioNodes /\ Head(replies) \in VolReplies
  BY <1>1, VolQueues DEF VolReplies
<1>3. ask \in VolRequests
  BY <1>2, NoLevelOK, VolMsgIs
<1>4. DOMAIN routed = AudioNodes /\ (\A k \in AudioNodes : AudioOK(routed[k])) /\ routed[n].routed
      /\ \A k \in AudioNodes : k # n => routed[k] = audio[k]
  BY <1>1, <1>2 DEF VolTypes, AudioOK, AudioFields
<1> HIDE DEF ask, n, routed
<1>5. DOMAIN audio' = AudioNodes /\ (\A k \in AudioNodes : AudioOK(audio'[k]))
      /\ \A k \in AudioNodes : k # n => audio'[k] = audio[k]
  <2>1. CASE n \in DOMAIN device.routes
    <3>1. device.routes[n] \in Levels
      BY <1>1, <2>1 DEF VolTypes
    <3> QED BY <1>1, <1>2, <1>4, <2>1, <3>1, PropsSet
  <2> QED BY <1>1, <1>4, <2>1
<1>6. ASSUME n \in DOMAIN device.routes, device.routes[n] = levels[n]
      PROVE  /\ audio'[n].muted = levels[n].muted /\ audio'[n].volume = Visual(levels[n].volume)
             /\ audio'[n].server = Visual(levels[n].volume) /\ audio'[n].step = VolumeStep
  <2>1. levels[n] \in Levels /\ audio' = WithProps(routed, n, levels[n])
    BY <1>1, <1>6 DEF VolTypes
  <2> QED BY <1>2, <1>4, <2>1, PropsSet
<1>7. requests' \in Seq(VolRequests) /\ (Holds(requests, Enums) => Holds(requests', Enums))
      /\ \A k : Holds(requests, Moves(k, levels[k])) => Holds(requests', Moves(k, levels[k]))
  BY <1>1, <1>3, PutOne, VolQueues DEF VolTypes
<1>8. replies' \in Seq(VolReplies) /\ (\A k \in AudioNodes : Told(k)')
      /\ (Relisted => Relisted') /\ \A k : Holds(replies, ParamsOf(k)) => Holds(replies', ParamsOf(k))
  BY <1>1, <1>7, ReplyTaken DEF Relisted, Enums, Infos
<1>9. VolTypes'
  BY <1>1, <1>5, <1>7, <1>8 DEF VolTypes
<1>10. Heard'
  BY <1>1, <1>8 DEF VolInv, VolTypes, Heard, ParamsOf
<1>11. ASSUME NEW k \in AudioNodes, Has(k)' PROVE Has(k)
  BY <1>1, <1>8, <1>11 DEF Has, ParamsOf
<1>12. ASSUME NEW k \in AudioNodes PROVE RouteOK(k)' /\ ShownOK(k)'
  <2>1. CASE k # n
    <3>1. audio'[k] = audio[k] /\ device' = device /\ UNCHANGED <<levels, offered>>
      BY <1>1, <1>5, <2>1
    <3> QED BY <1>7, <1>11, <3>1, NodeKept
  <2>2. ASSUME k = n, Has(k)' PROVE ShowsRoute(k)' /\ RouteOK(k)'
    <3>1. n \in DOMAIN device.routes /\ device.routes[n] = levels[n]
      BY <1>11, <2>2 DEF VolInv, VolSound, RouteOK, Has
    <3> QED BY <1>1, <1>6, <2>2, <3>1 DEF RouteOK, ShowsRoute
  <2> QED BY <2>1, <2>2 DEF RouteOK, ShownOK
<1> QED BY <1>8, <1>9, <1>10, <1>12 DEF VolInv, VolSound

\* Node::on_param: a node without the device's volume shows its own.
LEMMA NodeParamOK ==
  ASSUME VolInv, ShellTakes, Head(replies).kind = "nodeParam", NodeParam(Head(replies).of, Head(replies).level)
  PROVE  VolInv'
<1> DEFINE n == Head(replies).of
           l == Head(replies).level
<1>1. /\ replies # <<>> /\ replies' = Tail(replies) /\ UNCHANGED <<levels, own, offered, device, requests>>
      /\ VolTypes
      /\ audio' = IF UsesDevice(audio, device, n) THEN audio ELSE WithProps(audio, n, l)
  BY DEF ShellTakes, NodeParam, daemonSide, VolInv
<1>2. n \in AudioNodes /\ l \in Levels
  BY <1>1, VolQueues DEF VolReplies
<1> HIDE DEF l, n
<1>5. DOMAIN audio' = AudioNodes /\ (\A k \in AudioNodes : AudioOK(audio'[k]) /\ audio'[k].routed = audio[k].routed)
      /\ (\A k \in AudioNodes : k # n => audio'[k] = audio[k])
  <2>1. DOMAIN audio = AudioNodes /\ \A k \in AudioNodes : AudioOK(audio[k])
    BY <1>1 DEF VolTypes
  <2>2. CASE UsesDevice(audio, device, n)
    BY <1>1, <2>1, <2>2
  <2>3. CASE audio' = WithProps(audio, n, l)
    <3> DEFINE b == WithProps(audio, n, l)
    <3>1. /\ DOMAIN b = AudioNodes /\ \A k \in AudioNodes : AudioOK(b[k])
          /\ \A k \in AudioNodes : k # n => b[k] = audio[k]
          /\ b[n].routed = audio[n].routed
      BY <1>2, <2>1, PropsSet
    <3> HIDE DEF b
    <3>2. \A k \in AudioNodes : b[k].routed = audio[k].routed
      BY <3>1
    <3> QED BY <2>3, <3>1, <3>2 DEF b
  <2> QED BY <1>1, <2>2, <2>3
<1>7. VolTypes'
  BY <1>1, <1>5, ReplyTaken DEF VolTypes
<1>8. \A k \in AudioNodes : Told(k)'
  BY <1>1, ReplyTaken
<1>9. (Relisted => Relisted') /\ \A k \in AudioNodes : Holds(replies, ParamsOf(k)) => Holds(replies', ParamsOf(k))
  BY <1>1, ReplyTaken DEF Relisted, Enums
<1>10. Heard'
  BY <1>1, <1>9 DEF VolInv, VolTypes, Heard, ParamsOf
<1>11. ASSUME NEW k \in AudioNodes, Has(k)' PROVE Has(k)
  BY <1>1, <1>9, <1>11 DEF Has, ParamsOf
<1>12. ASSUME NEW k \in AudioNodes PROVE RouteOK(k)' /\ ShownOK(k)'
  <2>1. CASE audio'[k] = audio[k]
    BY <1>1, <1>11, <2>1, NodeKept
  <2>2. ASSUME audio'[k] # audio[k], Has(k)' PROVE ~audio'[k].routed
    <3>1. k = n /\ Has(n) /\ n \in DOMAIN device.routes
      BY <1>5, <1>11, <2>2 DEF Has
    <3> QED BY <1>1, <1>5, <2>2, <3>1 DEF UsesDevice
  <2>3. Has(k)' => device'.routes[k] = levels'[k]
    BY <1>1, <1>11 DEF VolInv, VolSound, RouteOK
  <2> QED BY <2>1, <2>2, <2>3 DEF RouteOK, ShownOK
<1> QED BY <1>7, <1>8, <1>10, <1>12 DEF VolInv, VolSound

\* Device::on_param: the wait ends before the route is looked at, so the route it
\* brings is what the node shows.
LEMMA RouteParamOK ==
  ASSUME VolInv, ShellTakes, Head(replies).kind = "param", RouteParam(Head(replies).of, Head(replies).level)
  PROVE  VolInv'
<1> DEFINE n == Head(replies).of
           l == Head(replies).level
           ready == ~device.responded /\ device.waiting
           was == IF ready THEN SentQueued ELSE audio
           now == [device EXCEPT !.responded = TRUE, !.waiting = IF ready THEN FALSE ELSE @,
                                 !.staging = @ \cup {n}, !.routes = WithRoute(@, n, l)]
<1>1. /\ replies # <<>> /\ replies' = Tail(replies) /\ UNCHANGED <<levels, own, offered>>
      /\ VolTypes
      /\ device' = now /\ requests' = IF ready THEN requests \o QueuedRequests ELSE requests
      /\ audio' = IF UsesDevice(was, now, n) THEN WithProps(was, n, l) ELSE was
  BY DEF ShellTakes, RouteParam, daemonSide, VolInv
<1>2. n \in AudioNodes /\ l \in Levels /\ Head(replies) \in ParamsOf(n)
  BY <1>1, VolQueues DEF VolReplies, ParamsOf
<1>3. /\ DOMAIN now = DOMAIN device /\ now.responded /\ now.responded \in BOOLEAN
      /\ now.waiting = IF ready THEN FALSE ELSE device.waiting
      /\ DOMAIN now.routes = DOMAIN device.routes \cup {n}
      /\ now.routes[n] = l /\ \A k \in DOMAIN device.routes : k # n => now.routes[k] = device.routes[k]
  BY <1>1 DEF VolTypes, WithRoute
<1>4. /\ DOMAIN was = AudioNodes
      /\ \A k \in AudioNodes : AudioOK(was[k]) /\ was[k].routed = audio[k].routed
      /\ ~ready => was = audio
  BY <1>1, QueueSent DEF VolTypes
<1>5. /\ requests' \in Seq(VolRequests) /\ (Holds(requests, Enums) => Holds(requests', Enums))
      /\ ~ready => requests' = requests
  BY <1>1, QueueSent DEF VolTypes
<1>6. ready \in BOOLEAN /\ (ready => ~device.responded)
  BY <1>1 DEF VolTypes
<1> HIDE DEF n, l, ready, was, now
<1>7. /\ DOMAIN audio' = AudioNodes
      /\ \A k \in AudioNodes : AudioOK(audio'[k]) /\ audio'[k].routed = audio[k].routed
      /\ \A k \in AudioNodes : k # n /\ ~ready => audio'[k] = audio[k]
      /\ audio[n].routed => /\ audio'[n].muted = l.muted /\ audio'[n].volume = Visual(l.volume)
                            /\ audio'[n].server = Visual(l.volume) /\ audio'[n].step = VolumeStep
  <2>1. CASE UsesDevice(was, now, n)
    <3>1. audio' = WithProps(was, n, l)
      BY <1>1, <2>1
    <3> QED BY <1>2, <1>4, <3>1, PropsSet
  <2>2. CASE ~UsesDevice(was, now, n)
    <3>1. audio' = was /\ ~audio[n].routed
      BY <1>1, <1>2, <1>3, <1>4, <2>2 DEF UsesDevice
    <3> QED BY <1>4, <3>1
  <2> QED BY <2>1, <2>2
<1>8. replies' \in Seq(VolReplies) /\ (\A k \in AudioNodes : Told(k)')
      /\ (Relisted => Relisted')
      /\ (\A k : k # n => (Holds(replies, ParamsOf(k)) => Holds(replies', ParamsOf(k))))
      /\ (l # levels[n] => Relisted')
  <2>1. Head(replies).kind # "info" /\ (l # levels[n] => Head(replies) \in Untrue(n, levels[n]))
    BY <1>2 DEF Untrue, ParamsOf, l
  <2>2. Head(replies).of = n
    BY DEF n
  <2> QED BY <1>1, <1>2, <1>5, <2>1, <2>2, ReplyTaken DEF Relisted, Enums, Infos
<1>9. VolTypes'
  <2>1. \A k \in DOMAIN device'.routes : k \in AudioNodes /\ device'.routes[k] \in Levels
    BY <1>1, <1>2, <1>3 DEF VolTypes
  <2>2. DOMAIN device' = DOMAIN device /\ device'.responded \in BOOLEAN /\ device'.waiting \in BOOLEAN
    BY <1>1, <1>3, <1>6 DEF VolTypes
  <2> QED BY <1>1, <1>5, <1>7, <1>8, <2>1, <2>2 DEF VolTypes
<1>10. Heard'
  BY <1>1, <1>3 DEF Heard
<1>11. ASSUME NEW k \in AudioNodes, k # n, Has(k)'
       PROVE  Has(k) /\ ~ready /\ device'.routes[k] = device.routes[k]
  <2>1. ~Relisted /\ k \in offered /\ k \in DOMAIN device.routes /\ ~Holds(replies, ParamsOf(k))
    BY <1>1, <1>3, <1>8, <1>11 DEF Has, ParamsOf
  <2>2. ~ready
    BY <1>6, <2>1 DEF VolInv, Heard
  <2> QED BY <1>1, <1>3, <1>11, <2>1, <2>2 DEF Has
<1>12. ASSUME NEW k \in AudioNodes PROVE RouteOK(k)' /\ ShownOK(k)'
  <2>1. CASE k # n
    <3> SUFFICES ASSUME Has(k)' PROVE RouteOK(k)' /\ ShownOK(k)'
      BY DEF RouteOK, ShownOK
    <3>1. /\ Has(k) /\ device'.routes[k] = device.routes[k] /\ audio'[k] = audio[k]
          /\ device'.waiting = device.waiting /\ requests' = requests /\ UNCHANGED <<levels, offered>>
      BY <1>1, <1>3, <1>5, <1>7, <1>11, <2>1
    <3> QED BY <3>1, NodeKept
  <2>2. ASSUME k = n, Has(k)' PROVE RouteOK(k)' /\ (audio'[k].routed => ShowsRoute(k)')
    <3>1. l = levels[n]
      BY <1>8, <2>2 DEF Has
    <3> QED BY <1>1, <1>2, <1>3, <1>7, <2>2, <3>1 DEF RouteOK, ShowsRoute
  <2> QED BY <2>1, <2>2 DEF RouteOK, ShownOK
<1> QED BY <1>8, <1>9, <1>10, <1>12 DEF VolInv, VolSound

LEMMA PolledOK == ASSUME VolInv, Polled PROVE VolInv'
<1>1. /\ UNCHANGED <<levels, own, offered, requests, replies, audio>>
      /\ device' = IF device.staging = {} THEN device
                   ELSE [device EXCEPT !.routes = [n \in DOMAIN @ \cap device.staging |-> @[n]]]
      /\ VolTypes
  BY DEF Polled, daemonSide, VolInv
<1>2. /\ DOMAIN device' = DOMAIN device /\ UNCHANGED <<device.responded, device.waiting>>
      /\ \A n \in DOMAIN device'.routes : n \in DOMAIN device.routes /\ device'.routes[n] = device.routes[n]
  BY <1>1 DEF VolTypes
<1>3. VolTypes'
  BY <1>1, <1>2 DEF VolTypes
<1>4. \A n \in AudioNodes : Told(n)'
  BY <1>1 DEF VolInv, VolSound, Told, Untrue, ParamsOf, Infos
<1>5. Relisted => Relisted'
  BY <1>1 DEF Relisted, Infos, Enums
<1>6. Heard' /\ \A n \in AudioNodes : VolSound(n)'
  BY <1>1, <1>2, <1>4, <1>5, VolKept
<1> QED BY <1>3, <1>6 DEF VolInv

-----------------------------------------------------------------------------
(* What QML sets *)

\* A request that is not a listing is put behind the others.
LEMMA Asked ==
  ASSUME VolTypes, NEW k \in {"enumNode", "route", "node"}, NEW n \in AudioNodes, NEW l \in Levels,
         requests' = Append(requests, Msg2(k, n, l)), UNCHANGED replies
  PROVE  /\ requests' \in Seq(VolRequests) /\ (Relisted => Relisted')
         /\ \A i : Holds(requests, Moves(i, levels[i])) => Holds(requests', Moves(i, levels[i]))
         /\ k = "route" /\ Applied(levels[n], l) # levels[n] => Holds(requests', Moves(n, levels[n]))
<1> DEFINE m == Msg2(k, n, l)
<1>1. m \in VolRequests /\ m.kind = k /\ m.of = n /\ m.level = l
  BY VolMsgIs
<1> HIDE DEF m
<1>2. \A i : Holds(requests, Moves(i, levels[i])) => Holds(requests', Moves(i, levels[i]))
  BY <1>1, PutOne DEF VolTypes, m
<1>3. Relisted => Relisted'
  BY <1>1, PutOne DEF VolTypes, Relisted, Infos, Enums, m
<1>4. ASSUME k = "route", Applied(levels[n], l) # levels[n] PROVE Holds(requests', Moves(n, levels[n]))
  <2>1. m \in Moves(n, levels[n])
    BY <1>1, <1>4 DEF Moves
  <2> QED BY <1>1, <2>1, PutOne DEF VolTypes, m
<1> QED BY <1>1, <1>2, <1>3, <1>4, VolQueues DEF m

\* What QML does changes no route and takes none; of the other nodes nothing at all.
LEMMA SetKept ==
  ASSUME VolInv, UNCHANGED <<levels, offered, replies>>, NEW n \in AudioNodes,
         UNCHANGED <<device.routes, device.responded>>, device'.waiting = device.waiting \/ device'.waiting,
         Relisted => Relisted',
         \A k : Holds(requests, Moves(k, levels[k])) => Holds(requests', Moves(k, levels[k])),
         \A k \in AudioNodes : k # n => audio'[k] = audio[k],
         audio'[n].routed = audio[n].routed, audio'[n].server = audio[n].server, audio'[n].step = audio[n].step,
         ShownOK(n)'
  PROVE  Heard' /\ \A k \in AudioNodes : VolSound(k)'
<1>1. Heard'
  BY DEF VolInv, Heard, ParamsOf
<1>2. ASSUME NEW k \in AudioNodes PROVE Told(k)' /\ (Has(k)' => Has(k) /\ device'.routes[k] = device.routes[k])
  <2>1. Has(k)' => Has(k) /\ device'.routes[k] = device.routes[k]
    BY DEF Has, ParamsOf
  <2>2. Told(k)'
    BY DEF VolInv, VolSound, Told, Untrue, ParamsOf, Infos
  <2> QED BY <2>1, <2>2
<1>3. ASSUME NEW k \in AudioNodes, k # n PROVE RouteOK(k)' /\ ShownOK(k)'
  BY <1>2, <1>3, NodeKept
<1>4. RouteOK(n)'
  BY <1>2 DEF VolInv, VolSound, RouteOK
<1> QED BY <1>1, <1>2, <1>3, <1>4 DEF VolSound

\* NodeAudioData::setVolumes: a change below the step is kept from the daemon, which
\* has what the node was last shown.
LEMMA SetVolumesOK ==
  ASSUME VolInv, NEW n \in AudioNodes, NEW value \in Visuals, SetVolumes(n, value) PROVE VolInv'
<1> DEFINE a == audio[n]
           v == IF value < 0 THEN 0 ELSE value
           routed == UsesDevice(audio, device, n)
           direct == routed /\ ~device.waiting /\ Significant(a, v)
           l == [volume |-> Cubed(v), muted |-> FALSE]
           b == [a EXCEPT !.volume = v, !.sent = IF direct THEN v ELSE @,
                          !.queued = IF routed /\ device.waiting THEN v ELSE @]
<1>1. /\ requests' = IF direct THEN Append(requests, Msg2("route", n, l))
                     ELSE IF ~routed THEN Append(requests, Msg2("node", n, l)) ELSE requests
      /\ device' = IF direct THEN [device EXCEPT !.waiting = TRUE] ELSE device
      /\ audio' = [audio EXCEPT ![n] = b]
      /\ UNCHANGED <<levels, own, offered, replies>> /\ VolTypes
  <2>1. UNCHANGED <<levels, own, offered, replies>> /\ VolTypes
    BY DEF SetVolumes, daemonSide, VolInv
  <2>2. /\ requests' = IF direct THEN Append(requests, Msg2("route", n, l))
                       ELSE IF ~routed THEN Append(requests, Msg2("node", n, l)) ELSE requests
        /\ device' = IF direct THEN [device EXCEPT !.waiting = TRUE] ELSE device
    BY DEF SetVolumes
  <2>3. audio' = [audio EXCEPT ![n] = b]
    BY DEF SetVolumes
  <2> QED BY <2>1, <2>2, <2>3
<1>2. v \in Nat /\ l \in Levels
  <2>1. v \in Nat
    BY VolumeAssumption
  <2> QED BY <2>1, VisualIs DEF Levels
<1>3. AudioOK(b) /\ b.volume = v /\ b.muted = a.muted /\ b.routed = a.routed
      /\ b.server = a.server /\ b.step = a.step
  <2>1. AudioOK(a)
    BY <1>1 DEF VolTypes
  <2> HIDE DEF a, v, routed, direct
  <2> QED BY <1>2, <2>1 DEF AudioOK, AudioFields
<1>4. direct => routed /\ ~device.waiting
  OBVIOUS
<1>5. ~direct /\ routed /\ ~device.waiting => ~Significant(a, v)
  OBVIOUS
<1>6. DOMAIN audio' = AudioNodes /\ audio'[n] = b /\ \A k \in AudioNodes : k # n => audio'[k] = audio[k]
  BY <1>1 DEF VolTypes
<1>7. /\ DOMAIN device' = DOMAIN device /\ UNCHANGED <<device.routes, device.responded>>
      /\ device'.waiting = (direct \/ device.waiting)
  BY <1>1 DEF VolTypes
<1>8. routed = (a.routed /\ n \in DOMAIN device.routes)
  BY DEF UsesDevice
<1> HIDE DEF a, b, l, v, routed, direct
<1>9. /\ requests' \in Seq(VolRequests) /\ (Relisted => Relisted')
      /\ \A k : Holds(requests, Moves(k, levels[k])) => Holds(requests', Moves(k, levels[k]))
  <2>1. CASE requests' = requests
    BY <1>1, <2>1 DEF VolTypes, Relisted, Infos, Enums
  <2>2. ASSUME NEW k \in {"route", "node"}, requests' = Append(requests, Msg2(k, n, l))
        PROVE  /\ requests' \in Seq(VolRequests) /\ (Relisted => Relisted')
               /\ \A i : Holds(requests, Moves(i, levels[i])) => Holds(requests', Moves(i, levels[i]))
    BY <1>1, <1>2, <2>2, Asked
  <2> QED BY <1>1, <2>1, <2>2
<1>10. VolTypes'
  <2>1. \A k \in AudioNodes : AudioOK(audio'[k])
    BY <1>1, <1>3, <1>6 DEF VolTypes
  <2>2. device'.waiting \in BOOLEAN /\ device'.responded \in BOOLEAN
    BY <1>1, <1>7 DEF VolTypes
  <2> QED BY <1>1, <1>6, <1>7, <1>9, <2>1, <2>2 DEF VolTypes
<1>11. ShownOK(n)'
  <2> SUFFICES ASSUME Has(n)', audio'[n].routed, ~device'.waiting
               PROVE  ShowsRoute(n)' \/ Holds(requests', Moves(n, levels'[n]))
    BY DEF ShownOK, Moves
  <2>1. Has(n) /\ n \in DOMAIN device.routes
    BY <1>1, <1>7, <1>9 DEF Has, ParamsOf
  <2>2. audio[n].routed /\ ~device.waiting /\ ~Significant(a, v)
    BY <1>3, <1>5, <1>6, <1>7, <1>8, <2>1 DEF a
  <2>3. a.server = Visual(levels[n].volume) /\ a.step = VolumeStep
    BY <2>1, <2>2 DEF VolInv, VolSound, RouteOK, a
  <2>4. v # 0 /\ Distance(v, Visual(levels[n].volume)) < VolumeStep
    <3>1. Visual(levels[n].volume) \in Nat /\ VolumeStep \in Nat \cup {-1}
      BY <1>1, VisualIs, VolumeAssumption DEF VolTypes, RouteLevels
    <3> QED BY <1>2, <2>2, <2>3, <3>1 DEF Significant, Distance
  <2>5. ShowsRoute(n) \/ Holds(requests, Moves(n, levels[n]))
    BY <2>1, <2>2 DEF VolInv, VolSound, ShownOK
  <2>6. CASE ShowsRoute(n)
    BY <1>1, <1>3, <1>6, <2>4, <2>6 DEF ShowsRoute, a
  <2> QED BY <1>1, <1>9, <2>5, <2>6
<1>12. Heard' /\ \A k \in AudioNodes : VolSound(k)'
  BY <1>1, <1>3, <1>6, <1>7, <1>9, <1>11, SetKept DEF a
<1> QED BY <1>10, <1>12 DEF VolInv

\* NodeAudioData::setMuted: what is shown then is what the route will be.
LEMMA SetMutedOK == ASSUME VolInv, NEW n \in AudioNodes, SetMuted(n) PROVE VolInv'
<1> DEFINE a == audio[n]
           m == ~a.muted
           l == [volume |-> Unknown, muted |-> m]
           b == [a EXCEPT !.muted = m]
           routed == UsesDevice(audio, device, n)
           k == IF routed THEN "route" ELSE "node"
<1>1. /\ requests' = Append(requests, Msg2(k, n, l)) /\ audio' = [audio EXCEPT ![n].muted = m]
      /\ UNCHANGED <<levels, own, offered, replies, device>> /\ VolTypes
  BY DEF SetMuted, daemonSide, VolInv
<1>2. l \in Levels /\ k \in {"enumNode", "route", "node"} /\ l.volume = Unknown /\ l.muted = m /\ m \in BOOLEAN
  BY DEF Levels
<1>3. AudioOK(a)
  BY <1>1 DEF VolTypes
<1>4. audio'[n] = b /\ DOMAIN audio' = AudioNodes /\ \A i \in AudioNodes : i # n => audio'[i] = audio[i]
  BY <1>1 DEF VolTypes
<1>5. routed = (a.routed /\ n \in DOMAIN device.routes) /\ (routed => k = "route")
  BY DEF UsesDevice
<1> HIDE DEF a, l, m, k, routed
<1>6. AudioOK(b) /\ b.muted = m /\ b.routed = a.routed /\ b.server = a.server /\ b.step = a.step
  BY <1>2, <1>3 DEF AudioOK, AudioFields
<1> HIDE DEF b
<1>7. /\ requests' \in Seq(VolRequests) /\ (Relisted => Relisted')
      /\ \A i : Holds(requests, Moves(i, levels[i])) => Holds(requests', Moves(i, levels[i]))
      /\ k = "route" /\ Applied(levels[n], l) # levels[n] => Holds(requests', Moves(n, levels[n]))
  BY <1>1, <1>2, Asked
<1>8. VolTypes'
  BY <1>1, <1>4, <1>6, <1>7 DEF VolTypes
<1>9. ShownOK(n)'
  <2> SUFFICES ASSUME Has(n)', audio'[n].routed, ~device.waiting
               PROVE  ShowsRoute(n)' \/ Holds(requests', Moves(n, levels'[n]))
    BY <1>1 DEF ShownOK, Moves
  <2>1. k = "route"
    BY <1>1, <1>4, <1>5, <1>6 DEF Has
  <2>2. levels[n].muted \in BOOLEAN /\ (levels[n].muted # m => Applied(levels[n], l) # levels[n])
    BY <1>1, <1>2 DEF VolTypes, RouteLevels, Applied
  <2>3. CASE levels[n].muted # m
    BY <1>1, <1>7, <2>1, <2>2, <2>3
  <2>4. CASE levels[n].muted = m
    <3>1. Has(n) /\ audio[n].routed /\ a.muted # levels[n].muted
      BY <1>1, <1>3, <1>4, <1>6, <1>7, <2>4 DEF Has, ParamsOf, AudioOK, a, m
    <3>2. Holds(requests, Moves(n, levels[n]))
      BY <3>1 DEF VolInv, VolSound, ShownOK, ShowsRoute, a
    <3> QED BY <1>1, <1>7, <3>2
  <2> QED BY <2>3, <2>4
<1>10. Heard' /\ \A i \in AudioNodes : VolSound(i)'
  BY <1>1, <1>4, <1>6, <1>7, <1>9, SetKept DEF a
<1> QED BY <1>8, <1>10 DEF VolInv

-----------------------------------------------------------------------------

LEMMA InitVolInv == VolInit => VolInv
<1> SUFFICES ASSUME VolInit PROVE VolInv
  OBVIOUS
<1> DEFINE c == Cardinality(AudioNodes)
           o == SetToSeq(AudioNodes)
           list == [k \in 1 .. c |-> Msg2("nodeInfo", o[k], NoLevel)]
<1>1. replies = <<InfoMsg>> \o list /\ requests = <<>>
  BY DEF VolInit, InfoMsg
<1>2. c \in Nat /\ o \in [1 .. c -> AudioNodes]
  BY VolumeAssumption, FS_CardinalityType, SomeOrder
<1> HIDE DEF c, o
<1>3. \A k \in 1 .. c : list[k] \in VolReplies /\ list[k].kind = "nodeInfo"
  BY <1>2, NoLevelOK, VolMsgIs
<1>4. list \in [1 .. c -> VolReplies] /\ DOMAIN list = 1 .. c
  BY <1>3
<1> HIDE DEF list
<1>5. list \in Seq(VolReplies) /\ \A n, l : ~Holds(list, Untrue(n, l))
  BY <1>2, <1>3, <1>4, IsASeq DEF Holds, Untrue, ParamsOf
<1>6. <<InfoMsg>> \in Seq(VolReplies) /\ Holds(<<InfoMsg>>, Infos) /\ \A n, l : Mended(<<InfoMsg>>, Untrue(n, l), Infos)
  <2>1. \A k \in DOMAIN <<InfoMsg>> : <<InfoMsg>>[k] = InfoMsg
    OBVIOUS
  <2> QED BY <2>1, InfoIs DEF Holds, Mended, Untrue, ParamsOf
<1>7. replies \in Seq(VolReplies) /\ Relisted /\ \A n \in AudioNodes : Told(n)
  <2>1. replies \in Seq(VolReplies) /\ Holds(replies, Infos)
    BY <1>1, <1>5, <1>6, PutMany, ConcatProperties
  <2>2. ASSUME NEW n \in AudioNodes PROVE Told(n)
    BY <1>1, <1>5, <1>6, PutMany DEF Told
  <2> QED BY <2>1, <2>2 DEF Relisted
<1>8. VolTypes
  <2>1. [volume |-> 1, muted |-> FALSE] \in RouteLevels
    <3>1. Cubed(1) = 1
      BY DEF Cubed
    <3> QED BY <3>1 DEF RouteLevels, Cubes
  <2>2. levels \in [AudioNodes -> RouteLevels] /\ own \in [AudioNodes -> RouteLevels] /\ offered \subseteq AudioNodes
    BY <2>1 DEF VolInit
  <2>3. /\ DOMAIN device = {"routes", "staging", "responded", "waiting"} /\ device.responded = FALSE
        /\ device.waiting = FALSE /\ DOMAIN device.routes = {}
    <3>1. DOMAIN << >> = {}
      OBVIOUS
    <3>2. device = NewDevice
      BY DEF VolInit
    <3> QED BY <3>1, <3>2 DEF NewDevice
  <2>4. AudioOK(NewAudio)
    BY DEF NewAudio, AudioOK, AudioFields
  <2>5. DOMAIN audio = AudioNodes /\ \A n \in AudioNodes : AudioOK(audio[n])
    BY <2>4 DEF VolInit
  <2>6. requests \in Seq(VolRequests)
    BY <1>1
  <2> QED BY <1>7, <2>2, <2>3, <2>5, <2>6 DEF VolTypes
<1> QED BY <1>7, <1>8 DEF VolInv, Heard, VolSound, RouteOK, ShownOK, Has

LEMMA StutterVolInv == ASSUME VolInv, UNCHANGED volVars PROVE VolInv'
<1>1. VolTypes' /\ Heard'
  BY DEF VolInv, volVars, VolTypes, Heard, Relisted, Infos, Enums, ParamsOf
<1>2. ASSUME NEW n \in AudioNodes PROVE VolSound(n)'
  BY DEF VolInv, volVars, VolSound, Told, RouteOK, ShownOK, ShowsRoute, Has, Relisted,
         Infos, Enums, ParamsOf, Untrue, Moves
<1> QED BY <1>1, <1>2 DEF VolInv

LEMMA NextVolInv == VolInv /\ [VolNext]_volVars => VolInv'
<1> SUFFICES ASSUME VolInv, [VolNext]_volVars PROVE VolInv'
  OBVIOUS
<1>1. CASE DaemonTakes
  BY <1>1, DaemonOK
<1>2. CASE ShellTakes
  BY <1>2, RoutesChangedOK, RouteParamOK, NodeInfoOK, NodeParamOK DEF ShellTakes
<1>3. CASE Polled
  BY <1>3, PolledOK
<1>4. CASE \/ \E n \in AudioNodes, change \in Changes : OtherTurns(n, change)
           \/ \E p \in SUBSET AudioNodes : OtherProfile(p)
  BY <1>4, OthersOK
<1>5. ASSUME NEW n \in AudioNodes, SetMuted(n) PROVE VolInv'
  BY <1>5, SetMutedOK
<1>6. ASSUME NEW n \in AudioNodes, NEW v \in Visuals, SetVolumes(n, v) PROVE VolInv'
  BY <1>6, SetVolumesOK
<1>7. CASE UNCHANGED volVars
  BY <1>7, StutterVolInv
<1> QED BY <1>1, <1>2, <1>3, <1>4, <1>5, <1>6, <1>7 DEF VolNext

LEMMA VolInvAgrees == VolInv => VolumesAgree
<1> SUFFICES ASSUME VolInv, VolQuiet, ~device.waiting,
                    NEW n \in offered \cap DOMAIN device.routes, audio[n].routed
             PROVE  ShowsRoute(n)
  BY DEF VolumesAgree, ShowsRoute
<1>1. n \in AudioNodes
  BY DEF VolInv, VolTypes
<1>2. DOMAIN replies = {} /\ DOMAIN requests = {}
  BY DEF VolQuiet
<1>3. Has(n) /\ ~Holds(requests, Moves(n, levels[n]))
  BY <1>2 DEF Has, Relisted, Holds
<1> QED BY <1>1, <1>3 DEF VolInv, VolSound, ShownOK

\* VolumesAgree of the run, for any nodes, volumes and step: when no message is on its
\* way and no answer is waited for, a node with a route shows what the route has, up to
\* a change below the step; Device::on_param ends the wait before it looks at the route.
THEOREM VolumesAlwaysAgree == VolSpec => []VolumesAgree
<1>1. VolSpec => []VolInv
  BY InitVolInv, NextVolInv, PTL DEF VolSpec
<1> QED BY <1>1, VolInvAgrees, PTL

-----------------------------------------------------------------------------
(* The PipeWire client *)

PipeMsgs == [kind : {"node", "gone", "default", "metadata"}, id : Nat, name : NodeNames \cup {NoName}]
PipeTypes ==
  /\ idsUsed \in Nat
  /\ daemon \in BOOLEAN /\ pwLinked \in BOOLEAN /\ fatalQueued \in BOOLEAN /\ watching \in BOOLEAN
  /\ listening \in {"no", "asked", "yes", "cut"} /\ wire \in Seq(PipeMsgs)
  /\ DOMAIN nodesThere \in SUBSET (1 .. idsUsed) /\ nodesThere \in [DOMAIN nodesThere -> NodeNames]
  /\ DOMAIN nodes \in SUBSET (1 .. idsUsed) /\ nodes \in [DOMAIN nodes -> NodeNames]
  /\ defaultThere \in NodeNames \cup {NoName} /\ defaultName \in NodeNames \cup {NoName}

\* The connection carries what is sent.
Live == pwLinked /\ listening # "cut"
LinkSound ==
  /\ watching <=> ~pwLinked /\ socketDir = "there"
  /\ ~pwLinked => listening = "no" /\ nodes = NoNodes
  /\ listening = "cut" => fatalQueued
  /\ ~Live => wire = <<>>

\* The k-th message says that a node is there, or that it is gone.
Made(q, k, i) == k \in DOMAIN q /\ q[k].kind = "node" /\ q[k].id = i
Left(q, k, i) == k \in DOMAIN q /\ q[k].kind = "gone" /\ q[k].id = i

\* A node is announced once and before it goes; what the client knows and the messages
\* tell is what there is, and of two nodes with one name the first has gone before the
\* second is announced.
Fresh(q, ns, used) ==
  \A k \in DOMAIN q : /\ q[k].kind \in {"node", "gone"} => q[k].id \in 1 .. used
                      /\ q[k].kind = "node" => q[k].name \in NodeNames /\ q[k].id \notin DOMAIN ns
AnnouncedOnce(q) ==
  \A k, m \in DOMAIN q : q[k].kind = "node" /\ q[m].id = q[k].id =>
    (q[m].kind = "node" => m = k) /\ (q[m].kind = "gone" => m > k)
Reaches(q, ns, there) ==
  \A i \in DOMAIN there : \/ i \in DOMAIN ns /\ ns[i] = there[i]
                          \/ \E k \in DOMAIN q : Made(q, k, i) /\ q[k].name = there[i]
Leaves(q, ns, there) ==
  /\ \A k \in DOMAIN q : q[k].kind = "gone" => q[k].id \notin DOMAIN there
  /\ \A i \in DOMAIN ns : i \notin DOMAIN there => \E m \in DOMAIN q : Left(q, m, i)
  /\ \A k \in DOMAIN q : q[k].kind = "node" /\ q[k].id \notin DOMAIN there =>
       \E m \in DOMAIN q : Left(q, m, q[k].id)
Renamed(q, ns) ==
  \A k \in DOMAIN q : q[k].kind = "node" =>
    /\ \A j \in DOMAIN ns : ns[j] = q[k].name => \E m \in DOMAIN q : m < k /\ Left(q, m, j)
    /\ \A l \in DOMAIN q : l < k /\ q[l].kind = "node" /\ q[l].name = q[k].name =>
         \E m \in DOMAIN q : m < k /\ Left(q, m, q[l].id)
WireSound(q, ns, there, used) ==
  Fresh(q, ns, used) /\ AnnouncedOnce(q) /\ Reaches(q, ns, there) /\ Leaves(q, ns, there)
    /\ Renamed(q, ns)

OneName(ns) == \A i, j \in DOMAIN ns : ns[i] = ns[j] => i = j

\* The last default that is told is the right one.
Defaults == {m \in PipeMsgs : m.kind = "default"}
WrongDefault(n) == {m \in Defaults : m.name # n}
RightDefault(n) == {m \in Defaults : m.name = n}
DefaultTold(q, known, n) ==
  (Holds(q, Defaults) \/ known = n) /\ Mended(q, WrongDefault(n), RightDefault(n))

Shown == shownDefault = defaultNode /\ defaultNode = NodeNamed(nodes, defaultName)

Larger == {r \in Nat \X Nat : r[1] > r[2]}
Fitting(ns, types, c) ==
  {i \in DOMAIN ns : types # {} /\ c \in ClassOf[ns[i]] /\ Include(ns[i], types)}
Listed == /\ Enlists(sinks, Fitting(nodes, tracked, "sink"), Larger)
          /\ Enlists(sources, Fitting(nodes, tracked, "source"), Larger)

PipeSound ==
  /\ PipeTypes /\ LinkSound /\ OneName(nodes) /\ OneName(nodesThere)
  /\ Live => WireSound(wire, nodes, nodesThere, idsUsed)
  /\ listening = "yes" => DefaultTold(wire, defaultName, defaultThere)
  /\ Shown /\ Listed
PipeInv == ~segfault => PipeSound

LEMMA NodeMsgIs ==
  ASSUME NEW k \in {"node", "gone", "default", "metadata"}, NEW i \in Nat,
         NEW n \in NodeNames \cup {NoName}
  PROVE  /\ Node(k, i, n) \in PipeMsgs /\ Node(k, i, n).kind = k /\ Node(k, i, n).id = i
         /\ Node(k, i, n).name = n
BY DEF Node, PipeMsgs

\* A name names one node.
LEMMA NameIs ==
  ASSUME NEW ns, OneName(ns), NEW i \in DOMAIN ns
  PROVE  NodeNamed(ns, ns[i]) = i
BY DEF OneName, NodeNamed

LEMMA NameNone ==
  ASSUME NEW ns, NEW n, \A i \in DOMAIN ns : ns[i] # n
  PROVE  NodeNamed(ns, n) = 0
BY DEF NodeNamed

LEMMA NameSome ==
  ASSUME NEW ns, DOMAIN ns \subseteq Nat \ {0}, NEW n, NodeNamed(ns, n) # 0
  PROVE  NodeNamed(ns, n) \in DOMAIN ns /\ ns[NodeNamed(ns, n)] = n
BY DEF NodeNamed

-----------------------------------------------------------------------------
LEMMA LargerOrders == ASSUME NEW S \in SUBSET Nat PROVE Orders(Larger, S)
BY DEF Orders, Larger

\* A list of ids, the largest first, is the sorted one.
LEMMA SortedIs ==
  ASSUME NEW S \in SUBSET Nat, IsFiniteSet(S)
  PROVE  /\ Enlists(Sorted(S), S, Larger)
         /\ \A list : Enlists(list, S, Larger) => list = Sorted(S)
<1>1. Orders(Larger, S)
  BY LargerOrders
<1>2. ASSUME NEW list \in [1 .. Cardinality(S) -> S]
      PROVE  InOrder(list, Larger) <=> \A j, k \in DOMAIN list : j < k => list[j] > list[k]
  <2>1. \A j \in DOMAIN list : list[j] \in Nat
    OBVIOUS
  <2> QED BY <2>1 DEF InOrder, Larger
<1>3. \E list \in [1 .. Cardinality(S) -> S] : InOrder(list, Larger)
  BY <1>1, OrderExists
<1>4. Sorted(S) \in [1 .. Cardinality(S) -> S] /\ InOrder(Sorted(S), Larger)
  <2>1. \E list \in [1 .. Cardinality(S) -> S] : \A j, k \in DOMAIN list : j < k => list[j] > list[k]
    BY <1>2, <1>3
  <2>2. /\ Sorted(S) \in [1 .. Cardinality(S) -> S]
        /\ \A j, k \in DOMAIN Sorted(S) : j < k => Sorted(S)[j] > Sorted(S)[k]
    BY <2>1 DEF Sorted
  <2> QED BY <1>2, <2>2
<1>5. Enlists(Sorted(S), S, Larger)
  BY <1>1, <1>4, ListsAll
<1>6. ASSUME NEW list, Enlists(list, S, Larger) PROVE list = Sorted(S)
  BY <1>1, <1>4, <1>6, ListsOnly
<1> QED BY <1>5, <1>6

LEMMA InsertedOK ==
  ASSUME NEW S \in SUBSET Nat, NEW list, Enlists(list, S, Larger), NEW i \in Nat
  PROVE  Enlists(Inserted(list, i), S \cup {i}, Larger)
<1> DEFINE n == Len(list)
<1>1. list \in Seq(S) /\ n \in Nat /\ DOMAIN list = 1 .. n /\ \A k \in 1 .. n : list[k] \in S /\ list[k] \in Nat
  BY LenProperties, ElementOfSeq DEF Enlists
<1>2. Contains(list, i) <=> \E k \in 1 .. n : list[k] = i
  BY <1>1 DEF Contains
<1>3. CASE Contains(list, i)
  <2>1. i \in S
    BY <1>1, <1>2, <1>3
  <2>2. S \cup {i} = S /\ Inserted(list, i) = list
    BY <1>3, <2>1 DEF Inserted
  <2> QED BY <2>2
<1>4. CASE ~Contains(list, i)
  <2>1. i \in Nat \ S
    BY <1>1, <1>2, <1>4 DEF Enlists, Covers
  <2>2. \A j, k \in 1 .. n : j < k => list[j] > list[k]
    BY <1>1 DEF Enlists, InOrder, Larger
  <2> DEFINE ok(k) == (\A j \in 1 .. (k - 1) : list[j] >= i) /\ (k <= n => list[k] < i)
  <2>3. \E k \in 1 .. (n + 1) : ok(k)
    <3> DEFINE T == {k \in 1 .. n : list[k] < i}
    <3>1. CASE T = {}
      <4>1. \A k \in 1 .. n : ~(list[k] < i)
        BY <3>1
      <4>2. n + 1 \in 1 .. (n + 1) /\ ok(n + 1)
        BY <1>1, <4>1
      <4> QED BY <4>2
    <3>2. CASE T # {}
      <4>1. T \in SUBSET Nat
        BY <1>1
      <4> HIDE DEF T
      <4>2. PICK k \in T : \A m \in T : k <= m
        BY <3>2, <4>1, LeastNumber
      <4>3. k \in 1 .. n /\ list[k] < i
        BY <4>2 DEF T
      <4>4. \A j \in 1 .. (k - 1) : list[j] >= i
        BY <1>1, <4>2, <4>3 DEF T
      <4> QED BY <1>1, <4>3, <4>4
    <3> QED BY <3>1, <3>2
  <2> DEFINE k == SortedIndex(list, i)
  <2>4. k \in 1 .. (n + 1) /\ ok(k)
    <3> HIDE DEF n
    <3>1. k = CHOOSE j \in 1 .. (n + 1) : ok(j)
      BY DEF SortedIndex, n
    <3> QED BY <2>3, <3>1
  <2> HIDE DEF k
  <2>5. ASSUME NEW j \in DOMAIN list
        PROVE  IF j < k THEN <<list[j], i>> \in Larger ELSE <<i, list[j]>> \in Larger
    <3>1. list[j] \in Nat /\ list[j] # i /\ j \in 1 .. n
      BY <1>1, <1>2, <1>4
    <3>2. CASE j < k
      BY <1>1, <2>4, <3>1, <3>2 DEF Larger
    <3>3. CASE j >= k
      <4>1. k <= n /\ list[k] < i /\ k \in 1 .. n
        BY <1>1, <2>4, <3>1, <3>3
      <4>2. list[j] <= list[k]
        BY <1>1, <2>2, <3>1, <3>3, <4>1
      <4> QED BY <1>1, <2>4, <3>1, <3>3, <4>1, <4>2 DEF Larger
    <3> QED BY <1>1, <2>4, <3>1, <3>2, <3>3
  <2>6. Orders(Larger, Nat)
    BY LargerOrders
  <2>7. Enlists(InsertAt(list, k, i), S \cup {i}, Larger)
    BY <2>1, <2>4, <2>5, <2>6, ListsPut
  <2> QED BY <1>4, <2>7 DEF Inserted, k
<1> QED BY <1>3, <1>4

-----------------------------------------------------------------------------
(* What is on the wire *)

LEMMA PutIs ==
  ASSUME NEW M, NEW q \in Seq(M), NEW m \in M
  PROVE  /\ Append(q, m) \in Seq(M) /\ Len(q) \in Nat /\ DOMAIN q = 1 .. Len(q)
         /\ DOMAIN Append(q, m) = 1 .. (Len(q) + 1)
         /\ Append(q, m)[Len(q) + 1] = m /\ \A k \in 1 .. Len(q) : Append(q, m)[k] = q[k]
BY AppendProperties, LenProperties

LEMMA TakeIs ==
  ASSUME NEW M, NEW q \in Seq(M), q # <<>>
  PROVE  /\ Tail(q) \in Seq(M) /\ Len(q) \in Nat \ {0} /\ DOMAIN q = 1 .. Len(q)
         /\ DOMAIN Tail(q) = 1 .. (Len(q) - 1) /\ \A k \in 1 .. (Len(q) - 1) : Tail(q)[k] = q[k + 1]
         /\ Head(q) = q[1] /\ Head(q) \in M
BY HeadTailProperties, LenProperties, EmptySeq, ElementOfSeq

\* A default says nothing of the nodes.
LEMMA WireDefault ==
  ASSUME NEW q \in Seq(PipeMsgs), NEW ns, NEW there, NEW used, WireSound(q, ns, there, used),
         NEW m \in PipeMsgs, m.kind = "default"
  PROVE  WireSound(Append(q, m), ns, there, used)
<1> DEFINE r == Append(q, m)
           n == Len(q)
<1>1. /\ n \in Nat /\ DOMAIN q = 1 .. n /\ DOMAIN r = 1 .. (n + 1)
      /\ r[n + 1] = m /\ \A k \in 1 .. n : r[k] = q[k]
  BY PutIs
<1> HIDE DEF r, n
<1>2. \A k, i : Left(q, k, i) => Left(r, k, i)
  BY <1>1 DEF Left
<1>3. \A k \in DOMAIN r : r[k].kind \in {"node", "gone"} => k \in DOMAIN q /\ r[k] = q[k]
  BY <1>1
<1>4. \A k \in DOMAIN q : k \in DOMAIN r /\ r[k] = q[k]
  BY <1>1
<1>5. Fresh(r, ns, used)
  BY <1>3 DEF Fresh, WireSound
<1>6. AnnouncedOnce(r)
  <2> SUFFICES ASSUME NEW k \in DOMAIN r, NEW l \in DOMAIN r, r[k].kind = "node", r[l].id = r[k].id
               PROVE  (r[l].kind = "node" => l = k) /\ (r[l].kind = "gone" => l > k)
    BY DEF AnnouncedOnce
  <2> QED BY <1>3 DEF AnnouncedOnce, WireSound
<1>7. Reaches(r, ns, there)
  BY <1>4 DEF Reaches, WireSound, Made
<1>8. Leaves(r, ns, there)
  <2>1. \A k \in DOMAIN r : r[k].kind = "gone" => r[k].id \notin DOMAIN there
    BY <1>3 DEF Leaves, WireSound
  <2>2. \A i \in DOMAIN ns : i \notin DOMAIN there => \E l \in DOMAIN r : Left(r, l, i)
    BY <1>2, <1>4 DEF Leaves, WireSound
  <2>3. \A k \in DOMAIN r : r[k].kind = "node" /\ r[k].id \notin DOMAIN there =>
          \E l \in DOMAIN r : Left(r, l, r[k].id)
    BY <1>2, <1>3, <1>4 DEF Leaves, WireSound
  <2> QED BY <2>1, <2>2, <2>3 DEF Leaves
<1>9. Renamed(r, ns)
  <2> SUFFICES ASSUME NEW k \in DOMAIN r, r[k].kind = "node"
               PROVE  /\ \A j \in DOMAIN ns : ns[j] = r[k].name => \E l \in DOMAIN r : l < k /\ Left(r, l, j)
                      /\ \A l \in DOMAIN r : l < k /\ r[l].kind = "node" /\ r[l].name = r[k].name =>
                           \E h \in DOMAIN r : h < k /\ Left(r, h, r[l].id)
    BY DEF Renamed
  <2>1. k \in DOMAIN q /\ r[k] = q[k]
    BY <1>3
  <2> QED BY <1>2, <1>3, <1>4, <2>1 DEF Renamed, WireSound
<1> QED BY <1>5, <1>6, <1>7, <1>8, <1>9 DEF WireSound, r

\* A new node has a new id, and those that had its name are going.
LEMMA WireMade ==
  ASSUME NEW q \in Seq(PipeMsgs), NEW ns, NEW there, NEW used \in Nat, WireSound(q, ns, there, used),
         DOMAIN ns \in SUBSET (1 .. used), DOMAIN there \in SUBSET (1 .. used),
         NEW n \in NodeNames, \A i \in DOMAIN there : there[i] # n
  PROVE  WireSound(Append(q, Node("node", used + 1, n)), ns, WithNode(there, used + 1, n), used + 1)
<1> DEFINE m == Node("node", used + 1, n)
           r == Append(q, m)
           c == Len(q)
           now == WithNode(there, used + 1, n)
<1>1. m \in PipeMsgs /\ m.kind = "node" /\ m.id = used + 1 /\ m.name = n
  <2>1. used + 1 \in Nat
    OBVIOUS
  <2> QED BY <2>1, NodeMsgIs
<1> HIDE DEF m
<1>2. /\ c \in Nat /\ DOMAIN q = 1 .. c /\ DOMAIN r = 1 .. (c + 1)
      /\ r[c + 1] = m /\ \A k \in 1 .. c : r[k] = q[k]
  BY <1>1, PutIs
<1>3. /\ DOMAIN now = DOMAIN there \cup {used + 1} /\ now[used + 1] = n
      /\ \A i \in DOMAIN there : now[i] = there[i]
      /\ used + 1 \notin DOMAIN there /\ used + 1 \notin DOMAIN ns
  BY DEF WithNode
<1> HIDE DEF r, c, now
<1>4. \A k \in DOMAIN q : k \in DOMAIN r /\ r[k] = q[k] /\ k < c + 1
  BY <1>2
<1>5. c + 1 \in DOMAIN r /\ r[c + 1].kind = "node" /\ r[c + 1].id = used + 1 /\ r[c + 1].name = n
  BY <1>1, <1>2
<1>6. \A k \in DOMAIN r : k \in DOMAIN q \/ k = c + 1
  BY <1>2
<1>7. \A k, i : Left(q, k, i) => Left(r, k, i) /\ k < c + 1
  BY <1>4 DEF Left
<1>8. \A k \in DOMAIN q : q[k].kind \in {"node", "gone"} => q[k].id \in 1 .. used /\ q[k].id # used + 1
  BY DEF Fresh, WireSound
<1>9. Fresh(r, ns, used + 1)
  <2>1. used + 1 \in 1 .. (used + 1) /\ \A i \in 1 .. used : i \in 1 .. (used + 1)
    OBVIOUS
  <2> QED BY <1>3, <1>4, <1>5, <1>6, <1>8, <2>1 DEF Fresh, WireSound
<1>10. AnnouncedOnce(r)
  <2> SUFFICES ASSUME NEW k \in DOMAIN r, NEW l \in DOMAIN r, r[k].kind = "node", r[l].id = r[k].id
               PROVE  (r[l].kind = "node" => l = k) /\ (r[l].kind = "gone" => l > k)
    BY DEF AnnouncedOnce
  <2> QED BY <1>4, <1>5, <1>6, <1>8 DEF AnnouncedOnce, WireSound
<1>11. Reaches(r, ns, now)
  <2> SUFFICES ASSUME NEW i \in DOMAIN now
               PROVE  \/ i \in DOMAIN ns /\ ns[i] = now[i]
                      \/ \E k \in DOMAIN r : Made(r, k, i) /\ r[k].name = now[i]
    BY DEF Reaches
  <2>1. CASE i = used + 1
    BY <1>3, <1>5, <2>1 DEF Made
  <2>2. CASE i \in DOMAIN there
    BY <1>3, <1>4, <2>2 DEF Reaches, WireSound, Made
  <2> QED BY <1>3, <2>1, <2>2
<1>12. Leaves(r, ns, now)
  <2>1. \A k \in DOMAIN r : r[k].kind = "gone" => r[k].id \notin DOMAIN now
    BY <1>3, <1>4, <1>5, <1>6, <1>8 DEF Leaves, WireSound
  <2>2. \A i \in DOMAIN ns : i \notin DOMAIN now => \E l \in DOMAIN r : Left(r, l, i)
    BY <1>3, <1>4, <1>7 DEF Leaves, WireSound
  <2>3. \A k \in DOMAIN r : r[k].kind = "node" /\ r[k].id \notin DOMAIN now =>
          \E l \in DOMAIN r : Left(r, l, r[k].id)
    BY <1>3, <1>4, <1>5, <1>6, <1>7 DEF Leaves, WireSound
  <2> QED BY <2>1, <2>2, <2>3 DEF Leaves
<1>13. Renamed(r, ns)
  <2> SUFFICES ASSUME NEW k \in DOMAIN r, r[k].kind = "node"
               PROVE  /\ \A j \in DOMAIN ns : ns[j] = r[k].name => \E l \in DOMAIN r : l < k /\ Left(r, l, j)
                      /\ \A l \in DOMAIN r : l < k /\ r[l].kind = "node" /\ r[l].name = r[k].name =>
                           \E h \in DOMAIN r : h < k /\ Left(r, h, r[l].id)
    BY DEF Renamed
  <2>1. CASE k \in DOMAIN q
    <3>1. r[k] = q[k] /\ \A l \in DOMAIN r : l < k => l \in DOMAIN q /\ r[l] = q[l]
      BY <1>2, <2>1
    <3> QED BY <1>4, <1>7, <2>1, <3>1 DEF Renamed, WireSound
  <2>2. CASE k = c + 1
    <3>1. ASSUME NEW j \in DOMAIN ns, ns[j] = n PROVE \E l \in DOMAIN r : l < k /\ Left(r, l, j)
      <4>1. j \notin DOMAIN there
        <5> SUFFICES ASSUME j \in DOMAIN there PROVE FALSE
          OBVIOUS
        <5>1. ~(ns[j] = there[j])
          BY <3>1
        <5>2. PICK l \in DOMAIN q : Made(q, l, j)
          BY <5>1 DEF Reaches, WireSound
        <5> QED BY <5>2 DEF Fresh, WireSound, Made
      <4> QED BY <1>4, <1>7, <2>2, <4>1 DEF Leaves, WireSound
    <3>2. ASSUME NEW l \in DOMAIN q, q[l].kind = "node", q[l].name = n
          PROVE  \E h \in DOMAIN r : h < k /\ Left(r, h, q[l].id)
      <4> DEFINE j == q[l].id
      <4>1. j \notin DOMAIN there
        <5> SUFFICES ASSUME j \in DOMAIN there PROVE FALSE
          OBVIOUS
        <5>1. j \notin DOMAIN ns
          BY <3>2 DEF Fresh, WireSound
        <5>2. PICK h \in DOMAIN q : Made(q, h, j) /\ q[h].name = there[j]
          BY <5>1 DEF Reaches, WireSound
        <5>3. h = l
          BY <3>2, <5>2 DEF AnnouncedOnce, WireSound, Made
        <5> QED BY <3>2, <5>2, <5>3
      <4> QED BY <1>4, <1>7, <2>2, <3>2, <4>1 DEF Leaves, WireSound
    <3>3. \A l \in DOMAIN r : l < k => l \in DOMAIN q /\ r[l] = q[l]
      BY <1>2, <2>2
    <3> QED BY <1>5, <2>2, <3>1, <3>2, <3>3
  <2> QED BY <1>6, <2>1, <2>2
<1> QED BY <1>9, <1>10, <1>11, <1>12, <1>13 DEF WireSound, r, m, now

\* A node that goes says so last.
LEMMA WireLeft ==
  ASSUME NEW q \in Seq(PipeMsgs), NEW ns, NEW there, NEW used \in Nat, WireSound(q, ns, there, used),
         DOMAIN there \in SUBSET (1 .. used), NEW i \in DOMAIN there
  PROVE  WireSound(Append(q, Node("gone", i, NoName)), ns,
                   [j \in DOMAIN there \ {i} |-> there[j]], used)
<1> DEFINE m == Node("gone", i, NoName)
           r == Append(q, m)
           c == Len(q)
           now == [j \in DOMAIN there \ {i} |-> there[j]]
<1>1. m \in PipeMsgs /\ m.kind = "gone" /\ m.id = i
  <2>1. i \in Nat
    OBVIOUS
  <2> QED BY <2>1, NodeMsgIs
<1> HIDE DEF m
<1>2. /\ c \in Nat /\ DOMAIN q = 1 .. c /\ DOMAIN r = 1 .. (c + 1)
      /\ r[c + 1] = m /\ \A k \in 1 .. c : r[k] = q[k]
  BY <1>1, PutIs
<1>3. DOMAIN now = DOMAIN there \ {i} /\ \A j \in DOMAIN now : now[j] = there[j]
  OBVIOUS
<1> HIDE DEF r, c, now
<1>4. \A k \in DOMAIN q : k \in DOMAIN r /\ r[k] = q[k] /\ k < c + 1
  BY <1>2
<1>5. c + 1 \in DOMAIN r /\ Left(r, c + 1, i) /\ r[c + 1].kind = "gone" /\ r[c + 1].id = i
  BY <1>1, <1>2 DEF Left
<1>6. \A k \in DOMAIN r : k \in DOMAIN q \/ k = c + 1
  BY <1>2
<1>7. \A k, j : Left(q, k, j) => Left(r, k, j)
  BY <1>4 DEF Left
<1>8. Fresh(r, ns, used)
  BY <1>4, <1>5, <1>6 DEF Fresh, WireSound
<1>9. AnnouncedOnce(r)
  <2> SUFFICES ASSUME NEW k \in DOMAIN r, NEW l \in DOMAIN r, r[k].kind = "node", r[l].id = r[k].id
               PROVE  (r[l].kind = "node" => l = k) /\ (r[l].kind = "gone" => l > k)
    BY DEF AnnouncedOnce
  <2> QED BY <1>4, <1>5, <1>6 DEF AnnouncedOnce, WireSound
<1>10. Reaches(r, ns, now)
  BY <1>3, <1>4 DEF Reaches, WireSound, Made
<1>11. Leaves(r, ns, now)
  <2>1. \A k \in DOMAIN r : r[k].kind = "gone" => r[k].id \notin DOMAIN now
    BY <1>3, <1>4, <1>5, <1>6 DEF Leaves, WireSound
  <2>2. \A j \in DOMAIN ns : j \notin DOMAIN now => \E l \in DOMAIN r : Left(r, l, j)
    BY <1>3, <1>4, <1>5, <1>7 DEF Leaves, WireSound
  <2>3. \A k \in DOMAIN r : r[k].kind = "node" /\ r[k].id \notin DOMAIN now =>
          \E l \in DOMAIN r : Left(r, l, r[k].id)
    BY <1>3, <1>4, <1>5, <1>6, <1>7 DEF Leaves, WireSound
  <2> QED BY <2>1, <2>2, <2>3 DEF Leaves
<1>12. Renamed(r, ns)
  <2> SUFFICES ASSUME NEW k \in DOMAIN r, r[k].kind = "node"
               PROVE  /\ \A j \in DOMAIN ns : ns[j] = r[k].name => \E l \in DOMAIN r : l < k /\ Left(r, l, j)
                      /\ \A l \in DOMAIN r : l < k /\ r[l].kind = "node" /\ r[l].name = r[k].name =>
                           \E h \in DOMAIN r : h < k /\ Left(r, h, r[l].id)
    BY DEF Renamed
  <2>1. k \in DOMAIN q /\ r[k] = q[k] /\ \A l \in DOMAIN r : l < k => l \in DOMAIN q /\ r[l] = q[l]
    BY <1>2, <1>5, <1>6
  <2> QED BY <1>4, <1>7, <2>1 DEF Renamed, WireSound
<1> QED BY <1>8, <1>9, <1>10, <1>11, <1>12 DEF WireSound, r, m, now

\* The first message is read: what it said of the nodes is in what is known.
LEMMA WireTaken ==
  ASSUME NEW q \in Seq(PipeMsgs), q # <<>>, NEW ns, NEW there, NEW used,
         WireSound(q, ns, there, used), NEW now,
         \A i \in DOMAIN ns : (i \in DOMAIN now /\ now[i] = ns[i]) \/ Left(q, 1, i),
         \A i \in DOMAIN now : (i \in DOMAIN ns /\ now[i] = ns[i]) \/ (Made(q, 1, i) /\ now[i] = q[1].name),
         \A i \in DOMAIN now : ~Left(q, 1, i),
         \A i : Made(q, 1, i) => i \in DOMAIN now /\ now[i] = q[1].name
  PROVE  WireSound(Tail(q), now, there, used)
<1> DEFINE r == Tail(q)
           n == Len(q)
<1>1. /\ n \in Nat \ {0} /\ DOMAIN q = 1 .. n /\ DOMAIN r = 1 .. (n - 1)
      /\ \A k \in 1 .. (n - 1) : r[k] = q[k + 1]
  BY TakeIs
<1> HIDE DEF r, n
<1>2. \A k \in DOMAIN r : k + 1 \in DOMAIN q /\ r[k] = q[k + 1] /\ k + 1 # 1 /\ k + 1 > 1 /\ k \in Nat
  BY <1>1
<1>3. \A k \in DOMAIN q : k # 1 => k - 1 \in DOMAIN r /\ r[k - 1] = q[k] /\ k \in Nat
  BY <1>1
<1>4. 1 \in DOMAIN q
  BY <1>1
<1>5. ASSUME NEW k, NEW i, Left(q, k, i), k # 1
      PROVE  k - 1 \in DOMAIN r /\ Left(r, k - 1, i) /\ k \in Nat
  BY <1>3, <1>5 DEF Left
<1>6. Fresh(r, now, used)
  <2> SUFFICES ASSUME NEW k \in DOMAIN r
               PROVE  /\ r[k].kind \in {"node", "gone"} => r[k].id \in 1 .. used
                      /\ r[k].kind = "node" => r[k].name \in NodeNames /\ r[k].id \notin DOMAIN now
    BY DEF Fresh
  <2>1. /\ q[k + 1].kind \in {"node", "gone"} => q[k + 1].id \in 1 .. used
        /\ q[k + 1].kind = "node" => q[k + 1].name \in NodeNames /\ q[k + 1].id \notin DOMAIN ns
    BY <1>2 DEF Fresh, WireSound
  <2>2. q[k + 1].kind = "node" => ~Made(q, 1, q[k + 1].id)
    BY <1>2, <1>4 DEF AnnouncedOnce, WireSound, Made
  <2> QED BY <1>2, <2>1, <2>2
<1>7. AnnouncedOnce(r)
  <2> SUFFICES ASSUME NEW k \in DOMAIN r, NEW l \in DOMAIN r, r[k].kind = "node", r[l].id = r[k].id
               PROVE  (r[l].kind = "node" => l = k) /\ (r[l].kind = "gone" => l > k)
    BY DEF AnnouncedOnce
  <2>1. (q[l + 1].kind = "node" => l + 1 = k + 1) /\ (q[l + 1].kind = "gone" => l + 1 > k + 1)
    BY <1>2 DEF AnnouncedOnce, WireSound
  <2> QED BY <1>2, <2>1
<1>8. Reaches(r, now, there)
  <2> SUFFICES ASSUME NEW i \in DOMAIN there
               PROVE  \/ i \in DOMAIN now /\ now[i] = there[i]
                      \/ \E k \in DOMAIN r : Made(r, k, i) /\ r[k].name = there[i]
    BY DEF Reaches
  <2>1. ~Left(q, 1, i)
    BY DEF Leaves, WireSound, Left
  <2>2. CASE i \in DOMAIN ns /\ ns[i] = there[i]
    BY <2>1, <2>2
  <2>3. ASSUME NEW k \in DOMAIN q, Made(q, k, i), q[k].name = there[i]
        PROVE  \/ i \in DOMAIN now /\ now[i] = there[i]
               \/ \E l \in DOMAIN r : Made(r, l, i) /\ r[l].name = there[i]
    <3>1. CASE k = 1
      BY <2>3, <3>1
    <3>2. CASE k # 1
      <4>1. k - 1 \in DOMAIN r /\ Made(r, k - 1, i) /\ r[k - 1].name = there[i]
        BY <1>3, <2>3, <3>2 DEF Made
      <4> QED BY <4>1
    <3> QED BY <3>1, <3>2
  <2> QED BY <2>2, <2>3 DEF Reaches, WireSound
<1>9. Leaves(r, now, there)
  <2>1. \A k \in DOMAIN r : r[k].kind = "gone" => r[k].id \notin DOMAIN there
    BY <1>2 DEF Leaves, WireSound
  <2>2. ASSUME NEW i \in DOMAIN now, i \notin DOMAIN there PROVE \E m \in DOMAIN r : Left(r, m, i)
    <3>1. PICK m \in DOMAIN q : Left(q, m, i)
      <4>1. CASE i \in DOMAIN ns
        BY <2>2, <4>1 DEF Leaves, WireSound
      <4>2. CASE Made(q, 1, i)
        BY <1>4, <2>2, <4>2 DEF Leaves, WireSound, Made
      <4> QED BY <2>2, <4>1, <4>2
    <3>2. m # 1
      BY <2>2, <3>1
    <3> QED BY <1>5, <3>1, <3>2
  <2>3. ASSUME NEW k \in DOMAIN r, r[k].kind = "node", r[k].id \notin DOMAIN there
        PROVE  \E m \in DOMAIN r : Left(r, m, r[k].id)
    <3>1. PICK m \in DOMAIN q : Left(q, m, r[k].id)
      BY <1>2, <2>3 DEF Leaves, WireSound
    <3>2. m > k + 1
      BY <1>2, <2>3, <3>1 DEF AnnouncedOnce, WireSound, Left
    <3>3. m # 1
      BY <1>2, <3>2
    <3> QED BY <1>5, <3>1, <3>3
  <2> QED BY <2>1, <2>2, <2>3 DEF Leaves
<1>10. Renamed(r, now)
  <2> SUFFICES ASSUME NEW k \in DOMAIN r, r[k].kind = "node"
               PROVE  /\ \A j \in DOMAIN now : now[j] = r[k].name => \E m \in DOMAIN r : m < k /\ Left(r, m, j)
                      /\ \A l \in DOMAIN r : l < k /\ r[l].kind = "node" /\ r[l].name = r[k].name =>
                           \E m \in DOMAIN r : m < k /\ Left(r, m, r[l].id)
    BY DEF Renamed
  <2>1. k + 1 \in DOMAIN q /\ q[k + 1] = r[k] /\ q[k + 1].kind = "node" /\ k + 1 > 1 /\ k \in Nat
    BY <1>2
  <2>2. ASSUME NEW j, NEW m \in DOMAIN q, m < k + 1, Left(q, m, j), m # 1
        PROVE  \E h \in DOMAIN r : h < k /\ Left(r, h, j)
    <3>1. m - 1 \in DOMAIN r /\ Left(r, m - 1, j) /\ m \in Nat
      BY <1>5, <2>2
    <3>2. m - 1 < k
      BY <2>1, <2>2, <3>1
    <3> QED BY <3>1, <3>2
  <2>3. ASSUME NEW j \in DOMAIN now, now[j] = r[k].name
        PROVE  \E m \in DOMAIN r : m < k /\ Left(r, m, j)
    <3>1. PICK m \in DOMAIN q : m < k + 1 /\ Left(q, m, j)
      <4>1. CASE j \in DOMAIN ns /\ now[j] = ns[j]
        BY <2>1, <2>3, <4>1 DEF Renamed, WireSound
      <4>2. CASE Made(q, 1, j) /\ now[j] = q[1].name
        BY <1>4, <2>1, <2>3, <4>2 DEF Renamed, WireSound, Made
      <4> QED BY <2>3, <4>1, <4>2
    <3>2. m # 1
      BY <2>3, <3>1
    <3> QED BY <2>2, <3>1, <3>2
  <2>4. ASSUME NEW l \in DOMAIN r, l < k, r[l].kind = "node", r[l].name = r[k].name
        PROVE  \E m \in DOMAIN r : m < k /\ Left(r, m, r[l].id)
    <3>1. l + 1 \in DOMAIN q /\ q[l + 1] = r[l] /\ l + 1 < k + 1 /\ l \in Nat
      BY <1>2, <2>1, <2>4
    <3>2. PICK m \in DOMAIN q : m < k + 1 /\ Left(q, m, r[l].id)
      BY <2>1, <2>4, <3>1 DEF Renamed, WireSound
    <3>3. m > l + 1
      BY <2>4, <3>1, <3>2 DEF AnnouncedOnce, WireSound, Left
    <3>4. m # 1
      BY <3>1, <3>3
    <3> QED BY <2>2, <3>2, <3>4
  <2> QED BY <2>3, <2>4
<1> QED BY <1>6, <1>7, <1>8, <1>9, <1>10 DEF WireSound, r

\* A new connection tells what there is, each node once.
LEMMA WireGreets ==
  ASSUME PipeTypes, OneName(nodesThere), NEW g \in Greeting
  PROVE  g \in Seq(PipeMsgs) /\ WireSound(g, NoNodes, nodesThere, idsUsed)
<1> DEFINE S == DOMAIN nodesThere
           list == SetToSeq(S)
           all == [k \in DOMAIN list |-> Node("node", list[k], nodesThere[list[k]])]
           m == Node("metadata", 0, NoName)
<1>1. S \in SUBSET (1 .. idsUsed) /\ IsFiniteSet(S) /\ \A i \in S : nodesThere[i] \in NodeNames /\ i \in Nat
  <2>1. S \in SUBSET (1 .. idsUsed) /\ idsUsed \in Nat
    BY DEF PipeTypes
  <2>2. IsFiniteSet(1 .. idsUsed)
    BY <2>1, FS_Interval
  <2> QED BY <2>1, <2>2, FS_Subset DEF PipeTypes
<1>2. /\ list \in Seq(S) /\ IsInjective(list) /\ \A k \in DOMAIN list : list[k] \in S
      /\ \A i \in S : \E k \in DOMAIN list : list[k] = i
  BY <1>1, SomeOrder
<1>3. g = <<m>> \o all \/ g = all \o <<m>>
  BY DEF Greeting
<1>4. m \in PipeMsgs /\ m.kind = "metadata"
  BY NodeMsgIs
<1> HIDE DEF list, m, S
<1> DEFINE n == Len(list)
<1>5. n \in Nat /\ DOMAIN list = 1 .. n
  BY <1>2, LenProperties
<1>6. \A k \in 1 .. n : /\ all[k] \in PipeMsgs /\ all[k].kind = "node" /\ all[k].id = list[k]
                        /\ all[k].name = nodesThere[list[k]]
  <2> SUFFICES ASSUME NEW k \in 1 .. n
               PROVE  /\ all[k] \in PipeMsgs /\ all[k].kind = "node" /\ all[k].id = list[k]
                      /\ all[k].name = nodesThere[list[k]]
    OBVIOUS
  <2>1. all[k] = Node("node", list[k], nodesThere[list[k]])
    BY <1>5
  <2>2. list[k] \in Nat /\ nodesThere[list[k]] \in NodeNames
    BY <1>1, <1>2, <1>5
  <2> HIDE DEF all
  <2> QED BY <2>1, <2>2, NodeMsgIs
<1>7. all \in Seq(PipeMsgs) /\ Len(all) = n
  <2>1. all \in [1 .. n -> PipeMsgs]
    BY <1>5, <1>6
  <2> HIDE DEF all
  <2> QED BY <1>5, <2>1, SeqDef, LenProperties
<1> HIDE DEF all, n
<1>8. <<m>> \in Seq(PipeMsgs) /\ Len(<<m>>) = 1 /\ <<m>>[1] = m
  BY <1>4
<1>9. g \in Seq(PipeMsgs)
  BY <1>3, <1>7, <1>8, ConcatProperties
<1>10. \E at \in [1 .. n -> DOMAIN g] :
         /\ \A k \in 1 .. n : g[at[k]] = all[k]
         /\ \A j \in DOMAIN g : g[j] = m \/ \E k \in 1 .. n : j = at[k]
  <2>1. CASE g = <<m>> \o all
    <3>1. /\ DOMAIN g = 1 .. (n + 1) /\ g[1] = m
          /\ \A k \in 1 .. n : k + 1 \in DOMAIN g /\ g[k + 1] = all[k]
      <4>1. /\ Len(g) = 1 + n
            /\ \A k \in 1 .. 1 + n : g[k] = IF k <= 1 THEN <<m>>[k] ELSE all[k - 1]
        BY <1>5, <1>7, <1>8, <2>1, ConcatProperties
      <4>2. DOMAIN g = 1 .. (n + 1)
        BY <1>5, <1>9, <4>1, LenProperties
      <4>3. \A k \in 1 .. n : k + 1 \in 1 .. 1 + n /\ ~(k + 1 <= 1) /\ (k + 1) - 1 = k
        BY <1>5
      <4>4. 1 \in 1 .. 1 + n
        BY <1>5
      <4> QED BY <1>5, <1>8, <4>1, <4>2, <4>3, <4>4
    <3> DEFINE at == [k \in 1 .. n |-> k + 1]
    <3>2. at \in [1 .. n -> DOMAIN g] /\ \A k \in 1 .. n : at[k] = k + 1
      BY <3>1
    <3> HIDE DEF at
    <3>3. ASSUME NEW j \in DOMAIN g PROVE g[j] = m \/ \E k \in 1 .. n : j = at[k]
      <4>1. CASE j = 1
        BY <3>1, <4>1
      <4>2. CASE j # 1
        <5>1. j - 1 \in 1 .. n /\ (j - 1) + 1 = j
          BY <1>5, <3>1, <4>2
        <5> QED BY <3>2, <5>1
      <4> QED BY <4>1, <4>2
    <3>4. \A k \in 1 .. n : g[at[k]] = all[k]
      BY <3>1, <3>2
    <3> QED BY <3>2, <3>3, <3>4
  <2>2. CASE g = all \o <<m>>
    <3>1. /\ DOMAIN g = 1 .. (n + 1) /\ g[n + 1] = m
          /\ \A k \in 1 .. n : k \in DOMAIN g /\ g[k] = all[k]
      <4>1. /\ Len(g) = n + 1
            /\ \A k \in 1 .. n + 1 : g[k] = IF k <= n THEN all[k] ELSE <<m>>[k - n]
        BY <1>5, <1>7, <1>8, <2>2, ConcatProperties
      <4>2. DOMAIN g = 1 .. (n + 1)
        BY <1>5, <1>9, <4>1, LenProperties
      <4>3. n + 1 \in 1 .. n + 1 /\ ~(n + 1 <= n) /\ (n + 1) - n = 1
        BY <1>5
      <4>4. \A k \in 1 .. n : k \in 1 .. n + 1 /\ k <= n
        BY <1>5
      <4> QED BY <1>8, <4>1, <4>2, <4>3, <4>4
    <3> DEFINE at == [k \in 1 .. n |-> k]
    <3>2. at \in [1 .. n -> DOMAIN g] /\ \A k \in 1 .. n : at[k] = k
      BY <3>1
    <3> HIDE DEF at
    <3>3. ASSUME NEW j \in DOMAIN g PROVE g[j] = m \/ \E k \in 1 .. n : j = at[k]
      <4>1. CASE j = n + 1
        BY <3>1, <4>1
      <4>2. CASE j # n + 1
        <5>1. j \in 1 .. n
          BY <1>5, <3>1, <4>2
        <5> QED BY <3>2, <5>1
      <4> QED BY <4>1, <4>2
    <3>4. \A k \in 1 .. n : g[at[k]] = all[k]
      BY <3>1, <3>2
    <3> QED BY <3>2, <3>3, <3>4
  <2> QED BY <1>3, <2>1, <2>2
<1>11. PICK at \in [1 .. n -> DOMAIN g] :
         /\ \A k \in 1 .. n : g[at[k]] = all[k]
         /\ \A j \in DOMAIN g : g[j] = m \/ \E k \in 1 .. n : j = at[k]
  BY <1>10
<1>12. \A j \in DOMAIN g : g[j].kind # "gone"
  BY <1>4, <1>6, <1>11
<1>13. ASSUME NEW j \in DOMAIN g, g[j].kind = "node"
       PROVE  \E k \in 1 .. n : j = at[k] /\ g[j].id = list[k] /\ g[j].name = nodesThere[list[k]]
  BY <1>4, <1>6, <1>11, <1>13
<1>14. \A j \in DOMAIN g : g[j].kind = "node" =>
         g[j].id \in S /\ g[j].name = nodesThere[g[j].id]
  BY <1>2, <1>5, <1>13
<1>15. ASSUME NEW j \in DOMAIN g, NEW l \in DOMAIN g, g[j].kind = "node", g[l].kind = "node",
              g[j].id = g[l].id
       PROVE  j = l
  <2>1. PICK k \in 1 .. n : j = at[k] /\ g[j].id = list[k]
    BY <1>13, <1>15
  <2>2. PICK h \in 1 .. n : l = at[h] /\ g[l].id = list[h]
    BY <1>13, <1>15
  <2>3. k = h
    BY <1>2, <1>5, <1>15, <2>1, <2>2 DEF IsInjective
  <2> QED BY <2>1, <2>2, <2>3
<1>16. DOMAIN NoNodes = {}
  BY DEF NoNodes
<1>17. Fresh(g, NoNodes, idsUsed)
  BY <1>1, <1>12, <1>14, <1>16 DEF Fresh
<1>18. AnnouncedOnce(g)
  <2> SUFFICES ASSUME NEW k \in DOMAIN g, NEW l \in DOMAIN g, g[k].kind = "node", g[l].id = g[k].id
               PROVE  (g[l].kind = "node" => l = k) /\ (g[l].kind = "gone" => l > k)
    BY DEF AnnouncedOnce
  <2> QED BY <1>12, <1>15
<1>19. Reaches(g, NoNodes, nodesThere)
  <2> SUFFICES ASSUME NEW i \in S
               PROVE  \E j \in DOMAIN g : Made(g, j, i) /\ g[j].name = nodesThere[i]
    BY DEF Reaches, S
  <2>1. PICK k \in 1 .. n : list[k] = i
    BY <1>2, <1>5
  <2>2. at[k] \in DOMAIN g /\ g[at[k]] = all[k]
    BY <1>11
  <2> QED BY <1>6, <2>1, <2>2 DEF Made
<1>20. Leaves(g, NoNodes, nodesThere)
  BY <1>12, <1>14, <1>16 DEF Leaves, S
<1>21. Renamed(g, NoNodes)
  <2>1. \A k, l \in DOMAIN g : g[k].kind = "node" /\ g[l].kind = "node" /\ g[l].name = g[k].name => l = k
    <3> SUFFICES ASSUME NEW k \in DOMAIN g, NEW l \in DOMAIN g, g[k].kind = "node",
                        g[l].kind = "node", g[l].name = g[k].name
                 PROVE  l = k
      OBVIOUS
    <3>1. g[k].id \in S /\ g[l].id \in S /\ nodesThere[g[k].id] = nodesThere[g[l].id]
      BY <1>14
    <3>2. g[k].id = g[l].id
      BY <3>1 DEF OneName, S
    <3> QED BY <1>15, <3>2
  <2>2. \A k \in DOMAIN g : ~(k < k)
    BY <1>9, LenProperties
  <2> QED BY <1>16, <2>1, <2>2 DEF Renamed
<1> QED BY <1>9, <1>17, <1>18, <1>19, <1>20, <1>21 DEF WireSound

-----------------------------------------------------------------------------
(* The default that is told *)

LEMMA ToldKept ==
  ASSUME NEW q \in Seq(PipeMsgs), NEW known, NEW n, DefaultTold(q, known, n)
  PROVE  /\ \A m \in PipeMsgs : m.kind # "default" => DefaultTold(Append(q, m), known, n)
         /\ q # <<>> /\ Head(q).kind # "default" => DefaultTold(Tail(q), known, n)
<1>1. ASSUME NEW m \in PipeMsgs, m.kind # "default" PROVE DefaultTold(Append(q, m), known, n)
  <2>1. m \notin WrongDefault(n)
    BY <1>1 DEF WrongDefault, Defaults
  <2>2. Holds(q, Defaults) => Holds(Append(q, m), Defaults)
    BY PutOne
  <2>3. Mended(Append(q, m), WrongDefault(n), RightDefault(n))
    BY <2>1, PutOne DEF DefaultTold
  <2> QED BY <2>2, <2>3 DEF DefaultTold
<1>2. ASSUME q # <<>>, Head(q).kind # "default" PROVE DefaultTold(Tail(q), known, n)
  <2>1. Head(q) \notin Defaults
    BY <1>2 DEF Defaults
  <2>2. Holds(q, Defaults) => Holds(Tail(q), Defaults)
    BY <1>2, <2>1, TakeOne
  <2>3. Mended(Tail(q), WrongDefault(n), RightDefault(n))
    BY <1>2, TakeOne DEF DefaultTold
  <2> QED BY <2>2, <2>3 DEF DefaultTold
<1> QED BY <1>1, <1>2

LEMMA ToldNow ==
  ASSUME NEW q \in Seq(PipeMsgs), NEW known, NEW m \in PipeMsgs, m.kind = "default"
  PROVE  DefaultTold(Append(q, m), known, m.name)
<1>1. m \in Defaults /\ m \in RightDefault(m.name) /\ m \notin WrongDefault(m.name)
  BY DEF Defaults, WrongDefault, RightDefault
<1>2. Holds(Append(q, m), Defaults) /\ Mended(Append(q, m), WrongDefault(m.name), RightDefault(m.name))
  BY <1>1, PutOne
<1> QED BY <1>2 DEF DefaultTold

LEMMA ToldRead ==
  ASSUME NEW q \in Seq(PipeMsgs), q # <<>>, NEW known, NEW n, DefaultTold(q, known, n),
         Head(q).kind = "default"
  PROVE  DefaultTold(Tail(q), Head(q).name, n)
<1>1. Head(q) \in PipeMsgs /\ Head(q) \in Defaults
  BY TakeIs DEF Defaults
<1>2. Mended(Tail(q), WrongDefault(n), RightDefault(n))
  BY TakeOne DEF DefaultTold
<1>3. CASE Head(q).name = n
  BY <1>2, <1>3 DEF DefaultTold
<1>4. CASE Head(q).name # n
  <2>1. Head(q) \in WrongDefault(n)
    BY <1>1, <1>4 DEF WrongDefault
  <2>2. Holds(Tail(q), RightDefault(n))
    BY <2>1, TakeOne DEF DefaultTold
  <2>3. Holds(Tail(q), Defaults)
    BY <2>2 DEF Holds, RightDefault
  <2> QED BY <1>2, <2>3 DEF DefaultTold
<1> QED BY <1>3, <1>4

-----------------------------------------------------------------------------
(* The daemon *)

\* What of the shell's state and of the wire a step of the daemon leaves alone.
LEMMA Sent ==
  ASSUME PipeSound, NEW m \in PipeMsgs, Send(m)
  PROVE  /\ wire' \in Seq(PipeMsgs)
         /\ Live => wire' = Append(wire, m)
         /\ ~Live => wire' = <<>>
<1>1. wire \in Seq(PipeMsgs) /\ (~Live => wire = <<>>)
  BY DEF PipeSound, PipeTypes, LinkSound
<1>2. Append(wire, m) \in Seq(PipeMsgs)
  BY <1>1, PutIs
<1> QED BY <1>1, <1>2 DEF Send, Live

LEMMA NodeMadeOK == ASSUME PipeSound, NEW n \in NodeNames, NodeMade(n) PROVE PipeSound'
<1> DEFINE m == Node("node", idsUsed + 1, n)
<1>1. /\ idsUsed' = idsUsed + 1 /\ idsUsed \in Nat /\ nodesThere' = WithNode(nodesThere, idsUsed + 1, n)
      /\ Send(m) /\ UNCHANGED <<daemon, defaultThere, listening, clientVars>>
      /\ \A i \in DOMAIN nodesThere : nodesThere[i] # n
  BY DEF NodeMade, PipeSound, PipeTypes
<1>2. UNCHANGED <<pwLinked, fatalQueued, watching, socketDir, nodes, defaultName, defaultNode, shownDefault,
                  tracked, sinks, sources>>
  BY <1>1 DEF clientVars, globalVars, trackerVars, shownVars, sortedVars
<1>3. m \in PipeMsgs /\ m.kind = "node"
  <2>1. idsUsed + 1 \in Nat
    BY <1>1
  <2> QED BY <2>1, NodeMsgIs
<1> HIDE DEF m
<1>4. wire' \in Seq(PipeMsgs) /\ (Live => wire' = Append(wire, m)) /\ (~Live => wire' = <<>>)
  BY <1>1, <1>3, Sent
<1>5. Live' <=> Live
  BY <1>1, <1>2 DEF Live
<1>6. DOMAIN nodesThere \in SUBSET (1 .. idsUsed) /\ DOMAIN nodes \in SUBSET (1 .. idsUsed)
      /\ nodesThere \in [DOMAIN nodesThere -> NodeNames]
  BY DEF PipeSound, PipeTypes
<1>7. /\ DOMAIN nodesThere' = DOMAIN nodesThere \cup {idsUsed + 1} /\ nodesThere'[idsUsed + 1] = n
      /\ \A i \in DOMAIN nodesThere : nodesThere'[i] = nodesThere[i] /\ i # idsUsed + 1
      /\ nodesThere' \in [DOMAIN nodesThere' -> NodeNames]
  BY <1>1, <1>6 DEF WithNode
<1>8. PipeTypes'
  <2>1. 1 .. idsUsed \subseteq 1 .. idsUsed' /\ idsUsed + 1 \in 1 .. idsUsed' /\ idsUsed' \in Nat
    BY <1>1
  <2>2. DOMAIN nodesThere' \in SUBSET (1 .. idsUsed') /\ DOMAIN nodes' \in SUBSET (1 .. idsUsed')
    BY <1>2, <1>6, <1>7, <2>1
  <2> QED BY <1>1, <1>2, <1>4, <1>7, <2>1, <2>2 DEF PipeTypes, PipeSound
<1>9. LinkSound'
  BY <1>1, <1>2, <1>4, <1>5 DEF LinkSound, PipeSound
<1>10. OneName(nodes') /\ OneName(nodesThere')
  <2>1. OneName(nodes) /\ OneName(nodesThere)
    BY DEF PipeSound
  <2> QED BY <1>1, <1>2, <1>7, <2>1 DEF OneName
<1>11. Live' => WireSound(wire', nodes', nodesThere', idsUsed')
  <2> SUFFICES ASSUME Live PROVE WireSound(wire', nodes, WithNode(nodesThere, idsUsed + 1, n), idsUsed + 1)
    BY <1>1, <1>2, <1>5
  <2>1. WireSound(wire, nodes, nodesThere, idsUsed) /\ wire \in Seq(PipeMsgs)
    BY DEF PipeSound, PipeTypes
  <2>2. wire' = Append(wire, m)
    BY <1>4
  <2> QED BY <1>1, <1>6, <2>1, <2>2, WireMade DEF m
<1>12. listening' = "yes" => DefaultTold(wire', defaultName', defaultThere')
  <2> SUFFICES ASSUME listening = "yes" PROVE DefaultTold(wire', defaultName, defaultThere)
    BY <1>1, <1>2
  <2>1. Live
    BY DEF PipeSound, LinkSound, Live
  <2>2. wire' = Append(wire, m) /\ DefaultTold(wire, defaultName, defaultThere) /\ wire \in Seq(PipeMsgs)
    BY <1>4, <2>1 DEF PipeSound, PipeTypes
  <2>3. m.kind # "default"
    BY <1>3
  <2> QED BY <1>3, <2>2, <2>3, ToldKept
<1>13. Shown' /\ Listed'
  BY <1>2 DEF PipeSound, Shown, Listed
<1> QED BY <1>8, <1>9, <1>10, <1>11, <1>12, <1>13 DEF PipeSound

LEMMA NodeGoneOK == ASSUME PipeSound, NEW i \in DOMAIN nodesThere, NodeGone(i) PROVE PipeSound'
<1> DEFINE m == Node("gone", i, NoName)
           now == [j \in DOMAIN nodesThere \ {i} |-> nodesThere[j]]
<1>1. /\ nodesThere' = now /\ Send(m)
      /\ UNCHANGED <<daemon, defaultThere, idsUsed, listening, clientVars>>
  BY DEF NodeGone
<1>2. UNCHANGED <<pwLinked, fatalQueued, watching, socketDir, nodes, defaultName, defaultNode, shownDefault,
                  tracked, sinks, sources>>
  BY <1>1 DEF clientVars, globalVars, trackerVars, shownVars, sortedVars
<1>3. idsUsed \in Nat /\ DOMAIN nodesThere \in SUBSET (1 .. idsUsed)
      /\ nodesThere \in [DOMAIN nodesThere -> NodeNames]
  BY DEF PipeSound, PipeTypes
<1>4. m \in PipeMsgs /\ m.kind = "gone"
  <2>1. i \in Nat
    BY <1>3
  <2> QED BY <2>1, NodeMsgIs
<1>5. /\ DOMAIN now = DOMAIN nodesThere \ {i} /\ \A j \in DOMAIN now : now[j] = nodesThere[j]
      /\ now \in [DOMAIN now -> NodeNames]
  BY <1>3
<1> HIDE DEF m, now
<1>6. wire' \in Seq(PipeMsgs) /\ (Live => wire' = Append(wire, m)) /\ (~Live => wire' = <<>>)
  BY <1>1, <1>4, Sent
<1>7. Live' <=> Live
  BY <1>1, <1>2 DEF Live
<1>8. PipeTypes'
  <2>1. DOMAIN nodesThere' \in SUBSET (1 .. idsUsed') /\ nodesThere' \in [DOMAIN nodesThere' -> NodeNames]
    BY <1>1, <1>3, <1>5
  <2> QED BY <1>1, <1>2, <1>6, <2>1 DEF PipeTypes, PipeSound
<1>9. LinkSound'
  BY <1>1, <1>2, <1>6, <1>7 DEF LinkSound, PipeSound
<1>10. OneName(nodes') /\ OneName(nodesThere')
  <2>1. OneName(nodes) /\ OneName(nodesThere)
    BY DEF PipeSound
  <2> QED BY <1>1, <1>2, <1>5, <2>1 DEF OneName
<1>11. Live' => WireSound(wire', nodes', nodesThere', idsUsed')
  <2> SUFFICES ASSUME Live PROVE WireSound(wire', nodes, now, idsUsed)
    BY <1>1, <1>2, <1>7
  <2>1. WireSound(wire, nodes, nodesThere, idsUsed) /\ wire \in Seq(PipeMsgs)
    BY DEF PipeSound, PipeTypes
  <2>2. wire' = Append(wire, m)
    BY <1>6
  <2> QED BY <1>3, <2>1, <2>2, WireLeft DEF m, now
<1>12. listening' = "yes" => DefaultTold(wire', defaultName', defaultThere')
  <2> SUFFICES ASSUME listening = "yes" PROVE DefaultTold(wire', defaultName, defaultThere)
    BY <1>1, <1>2
  <2>1. Live
    BY DEF PipeSound, LinkSound, Live
  <2>2. wire' = Append(wire, m) /\ DefaultTold(wire, defaultName, defaultThere) /\ wire \in Seq(PipeMsgs)
    BY <1>6, <2>1 DEF PipeSound, PipeTypes
  <2>3. m.kind # "default"
    BY <1>4
  <2> QED BY <1>4, <2>2, <2>3, ToldKept
<1>13. Shown' /\ Listed'
  BY <1>2 DEF PipeSound, Shown, Listed
<1> QED BY <1>8, <1>9, <1>10, <1>11, <1>12, <1>13 DEF PipeSound

\* The daemon tells the default, when it changes or as it is.
LEMMA DefaultSentOK ==
  ASSUME PipeSound, NEW n \in NodeNames \cup {NoName}, defaultThere' = n, listening' = "yes",
         listening \in {"asked", "yes"}, Send(Node("default", 0, n)),
         UNCHANGED <<daemon, nodesThere, idsUsed, clientVars>>
  PROVE  PipeSound'
<1> DEFINE m == Node("default", 0, n)
<1>1. m \in PipeMsgs /\ m.kind = "default" /\ m.name = n
  BY NodeMsgIs
<1> HIDE DEF m
<1>2. UNCHANGED <<pwLinked, fatalQueued, watching, socketDir, nodes, defaultName, defaultNode, shownDefault,
                  tracked, sinks, sources>>
  BY DEF clientVars, globalVars, trackerVars, shownVars, sortedVars
<1>3. Live /\ Live'
  BY <1>2 DEF PipeSound, LinkSound, Live
<1>4. wire' \in Seq(PipeMsgs) /\ wire' = Append(wire, m) /\ wire \in Seq(PipeMsgs)
  BY <1>1, <1>3, Sent DEF m, PipeSound, PipeTypes
<1>5. PipeTypes'
  BY <1>2, <1>4 DEF PipeTypes, PipeSound
<1>6. LinkSound'
  BY <1>2, <1>3 DEF LinkSound, PipeSound
<1>7. WireSound(wire', nodes', nodesThere', idsUsed')
  BY <1>1, <1>2, <1>3, <1>4, WireDefault DEF PipeSound
<1>8. DefaultTold(wire', defaultName', defaultThere')
  BY <1>1, <1>2, <1>4, ToldNow
<1>9. Shown' /\ Listed' /\ OneName(nodes') /\ OneName(nodesThere')
  BY <1>2 DEF PipeSound, Shown, Listed
<1> QED BY <1>5, <1>6, <1>7, <1>8, <1>9 DEF PipeSound

LEMMA DefaultSetOK ==
  ASSUME PipeSound, NEW n \in NodeNames \cup {NoName}, DefaultSet(n) PROVE PipeSound'
<1>1. CASE listening = "yes"
  BY <1>1, DefaultSentOK DEF DefaultSet
<1>2. CASE listening # "yes"
  <2>1. /\ defaultThere' = n
        /\ UNCHANGED <<daemon, nodesThere, idsUsed, wire, listening, pwLinked, fatalQueued, watching, socketDir,
                       nodes, defaultName, defaultNode, shownDefault, tracked, sinks, sources>>
    BY <1>2 DEF DefaultSet, clientVars, globalVars, trackerVars, shownVars, sortedVars
  <2>2. PipeTypes'
    BY <2>1 DEF PipeTypes, PipeSound
  <2> QED BY <1>2, <2>1, <2>2 DEF PipeSound, LinkSound, Live, Shown, Listed
<1> QED BY <1>1, <1>2

LEMMA MetadataBoundOK == ASSUME PipeSound, MetadataBound PROVE PipeSound'
<1>1. /\ defaultThere' = defaultThere /\ listening' = "yes" /\ listening = "asked"
      /\ Send(Node("default", 0, defaultThere)) /\ UNCHANGED <<daemon, nodesThere, idsUsed, clientVars>>
  BY DEF MetadataBound, daemonVars
<1>2. defaultThere \in NodeNames \cup {NoName}
  BY DEF PipeSound, PipeTypes
<1> QED BY <1>1, <1>2, DefaultSentOK

LEMMA PipeFailsOK == ASSUME PipeSound, PipeFails PROVE PipeSound'
<1>1. /\ fatalQueued' = TRUE /\ pwLinked
      /\ UNCHANGED <<defaultThere, idsUsed, pwLinked, watching, socketDir, nodes, defaultName, defaultNode,
                     shownDefault, tracked, sinks, sources>>
  BY DEF PipeFails, trackerVars, shownVars, sortedVars
<1>2. Shown' /\ Listed' /\ OneName(nodes')
  BY <1>1 DEF PipeSound, Shown, Listed
<1>3. CASE daemon' = FALSE /\ nodesThere' = NoNodes /\ wire' = <<>> /\ listening' = "cut"
  <2>1. DOMAIN NoNodes = {} /\ NoNodes \in [{} -> NodeNames]
    BY DEF NoNodes
  <2>2. wire' \in Seq(PipeMsgs)
    BY <1>3
  <2>3. PipeTypes'
    BY <1>1, <1>3, <2>1, <2>2 DEF PipeTypes, PipeSound
  <2>4. OneName(nodesThere')
    BY <1>3, <2>1 DEF OneName
  <2> QED BY <1>1, <1>2, <1>3, <2>3, <2>4 DEF PipeSound, LinkSound, Live
<1>4. CASE UNCHANGED <<daemon, nodesThere, wire, listening>>
  <2>1. PipeTypes'
    BY <1>1, <1>4 DEF PipeTypes, PipeSound
  <2> QED BY <1>1, <1>2, <1>4, <2>1 DEF PipeSound, LinkSound, Live
<1> QED BY <1>3, <1>4 DEF PipeFails

LEMMA PipeKept ==
  ASSUME PipeSound, daemon' \in BOOLEAN,
         UNCHANGED <<nodesThere, defaultThere, idsUsed, wire, listening, globalVars, nodes, trackerVars,
                     shownDefault, sortedVars>>
  PROVE  PipeSound'
<1>1. UNCHANGED <<pwLinked, fatalQueued, watching, socketDir, defaultName, defaultNode, tracked, sinks, sources>>
  BY DEF globalVars, trackerVars, sortedVars
<1>2. PipeTypes'
  BY <1>1 DEF PipeTypes, PipeSound
<1> QED BY <1>1, <1>2 DEF PipeSound, LinkSound, Live, Shown, Listed

-----------------------------------------------------------------------------
(* The shell *)

LEMMA FittingIn ==
  ASSUME NEW ns, NEW u \in Nat, DOMAIN ns \in SUBSET (1 .. u), NEW types, NEW c
  PROVE  Fitting(ns, types, c) \in SUBSET Nat /\ IsFiniteSet(Fitting(ns, types, c))
<1>1. Fitting(ns, types, c) \in SUBSET (1 .. u) /\ IsFiniteSet(1 .. u) /\ 1 .. u \in SUBSET Nat
  BY FS_Interval DEF Fitting
<1> QED BY <1>1, FS_Subset

LEMMA SetTrackedOK == ASSUME PipeSound, NEW types, SetTrackedTypes(types) PROVE PipeSound'
<1>1. /\ tracked' = types
      /\ sinks' = Sorted(Fitting(nodes, types, "sink"))
      /\ sources' = Sorted(Fitting(nodes, types, "source"))
      /\ UNCHANGED <<daemon, nodesThere, defaultThere, idsUsed, wire, listening, pwLinked, fatalQueued,
                     watching, socketDir, nodes, defaultName, defaultNode, shownDefault>>
  BY DEF SetTrackedTypes, Fitting, daemonVars, globalVars, trackerVars, shownVars
<1>2. PipeTypes'
  BY <1>1 DEF PipeTypes, PipeSound
<1>3. Listed'
  <2>1. idsUsed \in Nat /\ DOMAIN nodes \in SUBSET (1 .. idsUsed)
    BY DEF PipeSound, PipeTypes
  <2>2. \A c : Enlists(Sorted(Fitting(nodes, types, c)), Fitting(nodes, types, c), Larger)
    BY <2>1, FittingIn, SortedIs
  <2> QED BY <1>1, <2>2 DEF Listed
<1> QED BY <1>1, <1>2, <1>3 DEF PipeSound, LinkSound, Live, Shown

\* A message is on the wire only while the connection is up.
LEMMA HeadIs ==
  ASSUME PipeSound, wire # <<>>
  PROVE  /\ Live /\ wire \in Seq(PipeMsgs) /\ Head(wire) \in PipeMsgs /\ Tail(wire) \in Seq(PipeMsgs)
         /\ Head(wire) = wire[1] /\ 1 \in DOMAIN wire /\ WireSound(wire, nodes, nodesThere, idsUsed)
BY TakeIs DEF PipeSound, PipeTypes, LinkSound

LEMMA OnMetadataOK == ASSUME PipeSound, OnMetadata PROVE PipeSound'
<1>1. /\ wire # <<>> /\ Head(wire).kind = "metadata" /\ wire' = Tail(wire) /\ listening' = "asked"
      /\ UNCHANGED <<daemon, nodesThere, defaultThere, idsUsed, pwLinked, fatalQueued, watching, socketDir, nodes,
                     defaultName, defaultNode, shownDefault, tracked, sinks, sources>>
  BY DEF OnMetadata, daemonVars, clientVars, globalVars, trackerVars, shownVars, sortedVars
<1>2. PipeTypes'
  BY <1>1, HeadIs DEF PipeTypes, PipeSound
<1>3. WireSound(wire', nodes', nodesThere', idsUsed')
  <2>1. \A i : ~Made(wire, 1, i) /\ ~Left(wire, 1, i)
    BY <1>1, HeadIs DEF Made, Left
  <2> QED BY <1>1, <2>1, HeadIs, WireTaken
<1>4. Live /\ Live'
  BY <1>1, HeadIs DEF Live
<1> QED BY <1>1, <1>2, <1>3, <1>4 DEF PipeSound, LinkSound, Live, Shown, Listed

LEMMA ModelAddsOK ==
  ASSUME PipeSound, NEW i \in Nat, NEW n \in NodeNames, i \notin DOMAIN nodes, ModelAdds(i, n),
         nodes' = WithNode(nodes, i, n), tracked' = tracked
  PROVE  Listed'
<1>1. ASSUME NEW c \in {"sink", "source"}
      PROVE  Fitting(nodes', tracked, c) =
               IF tracked # {} /\ Include(n, tracked) /\ c \in ClassOf[n]
               THEN Fitting(nodes, tracked, c) \cup {i} ELSE Fitting(nodes, tracked, c)
  <2>1. /\ DOMAIN nodes' = DOMAIN nodes \cup {i} /\ nodes'[i] = n
        /\ \A j \in DOMAIN nodes : nodes'[j] = nodes[j]
    BY DEF WithNode
  <2> QED BY <2>1 DEF Fitting
<1>2. ASSUME NEW c \in {"sink", "source"} PROVE Fitting(nodes, tracked, c) \in SUBSET Nat
  BY FittingIn DEF PipeSound, PipeTypes
<1>3. Enlists(sinks, Fitting(nodes, tracked, "sink"), Larger)
      /\ Enlists(sources, Fitting(nodes, tracked, "source"), Larger)
  BY DEF PipeSound, Listed
<1>4. Enlists(sinks', Fitting(nodes', tracked, "sink"), Larger)
  BY <1>1, <1>2, <1>3, InsertedOK DEF ModelAdds
<1>5. Enlists(sources', Fitting(nodes', tracked, "source"), Larger)
  BY <1>1, <1>2, <1>3, InsertedOK DEF ModelAdds
<1> QED BY <1>4, <1>5 DEF Listed

LEMMA OnNodeOK == ASSUME PipeSound, OnNode PROVE PipeSound'
<1> DEFINE i == Head(wire).id
           n == Head(wire).name
<1>1. /\ wire # <<>> /\ Head(wire).kind = "node" /\ wire' = Tail(wire) /\ nodes' = WithNode(nodes, i, n)
      /\ IF defaultNode = 0 /\ n = defaultName THEN defaultNode' = i /\ shownDefault' = i
         ELSE UNCHANGED <<defaultNode, shownDefault>>
      /\ ModelAdds(i, n)
      /\ UNCHANGED <<daemon, nodesThere, defaultThere, idsUsed, listening, pwLinked, fatalQueued, watching, socketDir,
                     defaultName, tracked>>
  BY DEF OnNode, DefaultBecomes, ShowDefault, daemonVars, globalVars
<1>2. /\ i \in 1 .. idsUsed /\ n \in NodeNames /\ i \notin DOMAIN nodes /\ Made(wire, 1, i) /\ wire[1].name = n
      /\ \A j : Made(wire, 1, j) => j = i
      /\ \A j : ~Left(wire, 1, j)
  BY <1>1, HeadIs DEF WireSound, Fresh, Made, Left
<1>3. idsUsed \in Nat /\ DOMAIN nodes \in SUBSET (1 .. idsUsed) /\ nodes \in [DOMAIN nodes -> NodeNames]
      /\ OneName(nodes) /\ i \in Nat /\ i # 0
  BY <1>2 DEF PipeSound, PipeTypes
<1> HIDE DEF i, n
<1>4. /\ DOMAIN nodes' = DOMAIN nodes \cup {i} /\ nodes'[i] = n
      /\ \A j \in DOMAIN nodes : nodes'[j] = nodes[j]
      /\ nodes' \in [DOMAIN nodes' -> NodeNames] /\ DOMAIN nodes' \in SUBSET (1 .. idsUsed)
  BY <1>1, <1>2, <1>3 DEF WithNode
<1>5. PipeTypes'
  BY <1>1, <1>4, HeadIs DEF PipeTypes, PipeSound
<1>6. Live /\ Live'
  BY <1>1, HeadIs DEF Live
<1>7. LinkSound'
  BY <1>1, <1>6 DEF LinkSound, PipeSound, Live
<1>8. \A j \in DOMAIN nodes : nodes[j] # n
  <2> SUFFICES ASSUME NEW j \in DOMAIN nodes, nodes[j] = n PROVE FALSE
    OBVIOUS
  <2>1. \E m \in DOMAIN wire : m < 1 /\ Left(wire, m, j)
    BY <1>1, <1>2, HeadIs DEF WireSound, Renamed, Made
  <2>2. \A m \in DOMAIN wire : m \in Nat /\ m >= 1
    BY HeadIs, <1>1, LenProperties
  <2> QED BY <2>1, <2>2
<1>9. OneName(nodes')
  BY <1>3, <1>4, <1>8 DEF OneName
<1>10. WireSound(wire', nodes', nodesThere', idsUsed')
  <2>1. wire \in Seq(PipeMsgs) /\ wire # <<>> /\ WireSound(wire, nodes, nodesThere, idsUsed)
    BY <1>1, HeadIs
  <2>2. \A j \in DOMAIN nodes : j \in DOMAIN nodes' /\ nodes'[j] = nodes[j]
    BY <1>4
  <2>3. \A j \in DOMAIN nodes' : (j \in DOMAIN nodes /\ nodes'[j] = nodes[j])
                                \/ (Made(wire, 1, j) /\ nodes'[j] = wire[1].name)
    BY <1>2, <1>4
  <2>4. \A j : Made(wire, 1, j) => j \in DOMAIN nodes' /\ nodes'[j] = wire[1].name
    BY <1>2, <1>4
  <2>5. WireSound(Tail(wire), nodes', nodesThere, idsUsed)
    BY <1>2, <2>1, <2>2, <2>3, <2>4, WireTaken
  <2> QED BY <1>1, <2>5
<1>11. listening' = "yes" => DefaultTold(wire', defaultName', defaultThere')
  <2> SUFFICES ASSUME listening = "yes" PROVE DefaultTold(Tail(wire), defaultName, defaultThere)
    BY <1>1
  <2>1. DefaultTold(wire, defaultName, defaultThere) /\ Head(wire).kind # "default"
    BY <1>1 DEF PipeSound
  <2> QED BY <1>1, <2>1, HeadIs, ToldKept
<1>12. Shown'
  <2>1. shownDefault = defaultNode /\ defaultNode = NodeNamed(nodes, defaultName)
    BY DEF PipeSound, Shown
  <2>2. CASE defaultNode = 0 /\ n = defaultName
    <3>1. NodeNamed(nodes', n) = i
      BY <1>4, <1>9, NameIs
    <3> QED BY <1>1, <2>2, <3>1 DEF Shown
  <2>3. CASE defaultNode # 0
    <3>1. defaultNode \in DOMAIN nodes /\ nodes[defaultNode] = defaultName
      <4>1. DOMAIN nodes \subseteq Nat \ {0}
        BY <1>3
      <4> QED BY <2>1, <2>3, <4>1, NameSome
    <3>2. defaultNode \in DOMAIN nodes' /\ nodes'[defaultNode] = defaultName
      BY <1>4, <3>1
    <3>3. NodeNamed(nodes', defaultName) = defaultNode
      BY <1>9, <3>2, NameIs
    <3> QED BY <1>1, <2>1, <2>3, <3>3 DEF Shown
  <2>4. CASE defaultNode = 0 /\ n # defaultName
    <3>1. \A j \in DOMAIN nodes : nodes[j] # defaultName
      <4> SUFFICES ASSUME NEW j \in DOMAIN nodes, nodes[j] = defaultName PROVE FALSE
        OBVIOUS
      <4>1. NodeNamed(nodes, defaultName) = j
        BY <1>3, NameIs
      <4>2. j # 0
        BY <1>3
      <4> QED BY <2>1, <2>4, <4>1, <4>2
    <3>2. \A j \in DOMAIN nodes' : nodes'[j] # defaultName
      BY <1>4, <2>4, <3>1
    <3>3. NodeNamed(nodes', defaultName) = 0
      BY <3>2, NameNone
    <3> QED BY <1>1, <2>1, <2>4, <3>3 DEF Shown
  <2> QED BY <2>2, <2>3, <2>4
<1>13. Listed'
  BY <1>1, <1>2, <1>3, ModelAddsOK
<1> QED BY <1>1, <1>5, <1>7, <1>9, <1>10, <1>11, <1>12, <1>13 DEF PipeSound

LEMMA OnNodeGoneOK == ASSUME PipeSound, OnNodeGone PROVE PipeInv'
<1> DEFINE i == Head(wire).id
<1> SUFFICES ASSUME ~segfault' PROVE PipeSound'
  BY DEF PipeInv
<1>1. /\ wire # <<>> /\ Head(wire).kind = "gone" /\ wire' = Tail(wire)
      /\ nodes' = [j \in DOMAIN nodes \ {i} |-> nodes[j]]
      /\ sinks' = RemoveFirst(sinks, i) /\ sources' = RemoveFirst(sources, i)
      /\ UNCHANGED <<daemon, nodesThere, defaultThere, idsUsed, listening, pwLinked, fatalQueued, watching, socketDir,
                     defaultName, defaultNode, tracked>>
  BY DEF OnNodeGone, daemonVars, globalVars, trackerVars
<1>2. shownDefault' = shownDefault /\ (i \in DOMAIN nodes => i # shownDefault)
  <2>1. shownDefault' = shownDefault /\ Destroyed({i} \cap DOMAIN nodes)
    BY DEF OnNodeGone, shownVars
  <2> HIDE DEF i
  <2>2. i \in DOMAIN nodes /\ i = shownDefault => segfault' \in {TRUE}
    BY <2>1 DEF Destroyed
  <2> QED BY <2>1, <2>2
<1>3. /\ \A j : Left(wire, 1, j) <=> j = i
      /\ \A j : ~Made(wire, 1, j)
  BY <1>1, HeadIs DEF Made, Left
<1>4. idsUsed \in Nat /\ DOMAIN nodes \in SUBSET (1 .. idsUsed) /\ nodes \in [DOMAIN nodes -> NodeNames]
      /\ OneName(nodes)
  BY DEF PipeSound, PipeTypes
<1> HIDE DEF i
<1>5. /\ DOMAIN nodes' = DOMAIN nodes \ {i} /\ \A j \in DOMAIN nodes' : nodes'[j] = nodes[j]
      /\ nodes' \in [DOMAIN nodes' -> NodeNames] /\ DOMAIN nodes' \in SUBSET (1 .. idsUsed)
      /\ OneName(nodes')
  BY <1>1, <1>4 DEF OneName
<1>6. PipeTypes'
  BY <1>1, <1>5, HeadIs DEF PipeTypes, PipeSound
<1>7. Live /\ Live'
  BY <1>1, HeadIs DEF Live
<1>8. LinkSound'
  BY <1>1, <1>7 DEF LinkSound, PipeSound, Live
<1>9. WireSound(wire', nodes', nodesThere', idsUsed')
  <2>1. wire \in Seq(PipeMsgs) /\ wire # <<>> /\ WireSound(wire, nodes, nodesThere, idsUsed)
    BY <1>1, HeadIs
  <2>2. \A j \in DOMAIN nodes : (j \in DOMAIN nodes' /\ nodes'[j] = nodes[j]) \/ Left(wire, 1, j)
    BY <1>3, <1>5
  <2>3. \A j \in DOMAIN nodes' : j \in DOMAIN nodes /\ nodes'[j] = nodes[j] /\ ~Left(wire, 1, j)
    BY <1>3, <1>5
  <2>4. WireSound(Tail(wire), nodes', nodesThere, idsUsed)
    BY <1>3, <2>1, <2>2, <2>3, WireTaken
  <2> QED BY <1>1, <2>4
<1>10. listening' = "yes" => DefaultTold(wire', defaultName', defaultThere')
  <2> SUFFICES ASSUME listening = "yes" PROVE DefaultTold(Tail(wire), defaultName, defaultThere)
    BY <1>1
  <2>1. DefaultTold(wire, defaultName, defaultThere) /\ Head(wire).kind # "default"
    BY <1>1 DEF PipeSound
  <2> QED BY <1>1, <2>1, HeadIs, ToldKept
<1>11. Shown'
  <2>1. shownDefault = defaultNode /\ defaultNode = NodeNamed(nodes, defaultName)
    BY DEF PipeSound, Shown
  <2>2. CASE defaultNode # 0
    <3>1. defaultNode \in DOMAIN nodes /\ nodes[defaultNode] = defaultName
      <4>1. DOMAIN nodes \subseteq Nat \ {0}
        BY <1>4
      <4> QED BY <2>1, <2>2, <4>1, NameSome
    <3>2. defaultNode \in DOMAIN nodes' /\ nodes'[defaultNode] = defaultName
      BY <1>2, <1>5, <2>1, <3>1
    <3>3. NodeNamed(nodes', defaultName) = defaultNode
      BY <1>5, <3>2, NameIs
    <3> QED BY <1>1, <1>2, <2>1, <3>3 DEF Shown
  <2>3. CASE defaultNode = 0
    <3>1. \A j \in DOMAIN nodes : nodes[j] # defaultName
      <4> SUFFICES ASSUME NEW j \in DOMAIN nodes, nodes[j] = defaultName PROVE FALSE
        OBVIOUS
      <4>1. NodeNamed(nodes, defaultName) = j
        BY <1>4, NameIs
      <4>2. j # 0
        BY <1>4
      <4> QED BY <2>1, <2>3, <4>1, <4>2
    <3>2. \A j \in DOMAIN nodes' : nodes'[j] # defaultName
      BY <1>5, <3>1
    <3>3. NodeNamed(nodes', defaultName) = 0
      BY <3>2, NameNone
    <3> QED BY <1>1, <1>2, <2>1, <2>3, <3>3 DEF Shown
  <2> QED BY <2>2, <2>3
<1>12. Listed'
  <2>1. ASSUME NEW c PROVE Fitting(nodes', tracked, c) = Fitting(nodes, tracked, c) \ {i}
    BY <1>5 DEF Fitting
  <2>2. ASSUME NEW c PROVE Orders(Larger, Fitting(nodes, tracked, c))
    BY <1>4, FittingIn, LargerOrders
  <2>3. Enlists(sinks, Fitting(nodes, tracked, "sink"), Larger)
        /\ Enlists(sources, Fitting(nodes, tracked, "source"), Larger)
    BY DEF PipeSound, Listed
  <2>4. Enlists(RemoveFirst(sinks, i), Fitting(nodes, tracked, "sink") \ {i}, Larger)
    <3>1. Orders(Larger, Fitting(nodes, tracked, "sink"))
      BY <2>2
    <3> QED BY <2>3, <3>1, ListsTaken
  <2>5. Enlists(RemoveFirst(sources, i), Fitting(nodes, tracked, "source") \ {i}, Larger)
    <3>1. Orders(Larger, Fitting(nodes, tracked, "source"))
      BY <2>2
    <3> QED BY <2>3, <3>1, ListsTaken
  <2> QED BY <1>1, <2>1, <2>4, <2>5 DEF Listed
<1>13. OneName(nodesThere')
  BY <1>1 DEF PipeSound
<1> QED BY <1>1, <1>5, <1>6, <1>8, <1>9, <1>10, <1>11, <1>12, <1>13 DEF PipeSound

LEMMA OnDefaultOK == ASSUME PipeSound, OnDefault PROVE PipeSound'
<1>1. /\ wire # <<>> /\ Head(wire).kind = "default" /\ wire' = Tail(wire)
      /\ defaultName' = Head(wire).name /\ defaultNode' = NodeNamed(nodes, defaultName')
      /\ shownDefault' = defaultNode'
      /\ UNCHANGED <<daemon, nodesThere, defaultThere, idsUsed, listening, pwLinked, fatalQueued, watching, socketDir,
                     nodes, tracked, sinks, sources>>
  BY DEF OnDefault, DefaultBecomes, ShowDefault, daemonVars, globalVars, sortedVars
<1>2. Head(wire).name \in NodeNames \cup {NoName}
  BY <1>1, HeadIs DEF PipeMsgs
<1>3. PipeTypes'
  BY <1>1, <1>2, HeadIs DEF PipeTypes, PipeSound
<1>4. WireSound(wire', nodes', nodesThere', idsUsed')
  <2>1. \A i : ~Made(wire, 1, i) /\ ~Left(wire, 1, i)
    BY <1>1, HeadIs DEF Made, Left
  <2> QED BY <1>1, <2>1, HeadIs, WireTaken
<1>5. Live /\ Live'
  BY <1>1, HeadIs DEF Live
<1>6. listening' = "yes" => DefaultTold(wire', defaultName', defaultThere')
  BY <1>1, HeadIs, ToldRead DEF PipeSound
<1>7. LinkSound'
  BY <1>1, <1>5 DEF LinkSound, PipeSound, Live
<1>8. Shown' /\ Listed' /\ OneName(nodes') /\ OneName(nodesThere')
  BY <1>1 DEF PipeSound, Shown, Listed
<1> QED BY <1>3, <1>4, <1>6, <1>7, <1>8 DEF PipeSound

\* A connection starts with nothing known.
LEMMA ConnectsOK ==
  ASSUME PipeSound, Connects, nodes' = NoNodes, defaultName' \in NodeNames \cup {NoName},
         fatalQueued' \in BOOLEAN, Shown', Listed',
         UNCHANGED <<daemon, nodesThere, defaultThere, idsUsed>>
  PROVE  PipeSound'
<1>1. pwLinked' = TRUE /\ watching' = FALSE /\ listening' = "no" /\ wire' \in Greeting
  BY DEF Connects, RegistryInit
<1>2. PipeTypes /\ OneName(nodesThere)
  BY DEF PipeSound
<1>3. wire' \in Seq(PipeMsgs) /\ WireSound(wire', NoNodes, nodesThere, idsUsed)
  BY <1>1, <1>2, WireGreets
<1>4. DOMAIN NoNodes = {} /\ NoNodes \in [{} -> NodeNames]
  BY DEF NoNodes
<1>5. PipeTypes'
  BY <1>1, <1>2, <1>3, <1>4 DEF PipeTypes
<1>6. OneName(nodes') /\ OneName(nodesThere')
  BY <1>2, <1>4 DEF OneName
<1> QED BY <1>1, <1>3, <1>5, <1>6 DEF PipeSound, LinkSound, Live

LEMMA NoneShown ==
  /\ NodeNamed(NoNodes, NoName) = 0
  /\ \A types, c : Fitting(NoNodes, types, c) = {}
BY DEF NodeNamed, NoNodes, Fitting

LEMMA OnFatalErrorOK == ASSUME PipeSound, OnFatalError PROVE PipeSound'
<1>1. /\ fatalQueued' = FALSE /\ defaultName' = NoName /\ defaultNode' = 0 /\ shownDefault' = 0
      /\ nodes' = NoNodes /\ sinks' = <<>> /\ sources' = <<>> /\ BeginReconnect
      /\ UNCHANGED <<daemon, nodesThere, defaultThere, idsUsed, socketDir>>
  BY DEF OnFatalError, DefaultsReset, RegistryReset, daemonVars
<1>2. Shown' /\ Listed'
  BY <1>1, NoneShown, ListsNone DEF Shown, Listed
<1>3. CASE daemon /\ socketDir # "remote"
  <2>1. Connects
    BY <1>1, <1>3 DEF BeginReconnect
  <2> QED BY <1>1, <1>2, <2>1, ConnectsOK
<1>4. CASE ~(daemon /\ socketDir # "remote")
  <2>1. pwLinked' = FALSE /\ watching' = (socketDir = "there") /\ wire' = <<>> /\ listening' = "no"
    BY <1>1, <1>4 DEF BeginReconnect
  <2>2. DOMAIN NoNodes = {} /\ NoNodes \in [{} -> NodeNames]
    BY DEF NoNodes
  <2>3. wire' \in Seq(PipeMsgs)
    BY <2>1
  <2>4. PipeTypes'
    BY <1>1, <2>1, <2>2, <2>3 DEF PipeTypes, PipeSound
  <2>5. OneName(nodes') /\ OneName(nodesThere')
    BY <1>1, <2>2 DEF OneName, PipeSound
  <2> QED BY <1>1, <1>2, <2>1, <2>4, <2>5 DEF PipeSound, LinkSound, Live
<1> QED BY <1>3, <1>4

LEMMA OnRuntimeDirOK == ASSUME PipeSound, OnRuntimeDirChanged PROVE PipeSound'
<1>1. /\ watching /\ Connects
      /\ UNCHANGED <<daemon, nodesThere, defaultThere, idsUsed, fatalQueued, nodes, defaultName, defaultNode,
                     shownDefault, tracked, sinks, sources>>
  BY DEF OnRuntimeDirChanged, daemonVars, trackerVars, shownVars, sortedVars
<1>2. nodes' = NoNodes /\ defaultName' \in NodeNames \cup {NoName} /\ fatalQueued' \in BOOLEAN
  BY <1>1 DEF PipeSound, LinkSound, PipeTypes
<1>3. Shown' /\ Listed'
  BY <1>1 DEF PipeSound, Shown, Listed
<1> QED BY <1>1, <1>2, <1>3, ConnectsOK

-----------------------------------------------------------------------------
LEMMA InitPipeInv == PipeInit => PipeInv
<1> SUFFICES ASSUME PipeInit PROVE PipeSound
  BY DEF PipeInv
<1> DEFINE m == Node("metadata", 0, NoName)
<1>1. m \in PipeMsgs /\ m.kind = "metadata"
  BY NodeMsgIs
<1> HIDE DEF m
<1>2. wire \in Seq(PipeMsgs) /\ \A k \in DOMAIN wire : wire[k].kind = "metadata"
  <2>1. wire = IF daemon THEN <<m>> ELSE <<>>
    BY DEF PipeInit, m
  <2>2. CASE daemon
    <3>1. wire = <<m>> /\ DOMAIN wire = {1} /\ wire[1] = m
      BY <2>1, <2>2
    <3> QED BY <1>1, <3>1
  <2>3. CASE ~daemon
    BY <2>1, <2>3
  <2> QED BY <2>2, <2>3
<1>3. DOMAIN NoNodes = {} /\ NoNodes \in [{} -> NodeNames] /\ nodes = NoNodes /\ nodesThere = NoNodes
  BY DEF NoNodes, PipeInit
<1>4. PipeTypes
  BY <1>2, <1>3 DEF PipeInit, PipeTypes
<1>5. WireSound(wire, nodes, nodesThere, idsUsed)
  BY <1>2, <1>3 DEF WireSound, Fresh, AnnouncedOnce, Reaches, Leaves, Renamed
<1>6. Shown /\ Listed
  BY <1>3, NoneShown, ListsNone DEF Shown, Listed, PipeInit
<1>7. OneName(nodes) /\ OneName(nodesThere)
  BY <1>3 DEF OneName
<1> QED BY <1>4, <1>5, <1>6, <1>7 DEF PipeInit, PipeSound, LinkSound, Live

LEMMA NextPipeInv == PipeInv /\ [PipeNext]_pipeVars => PipeInv'
<1> SUFFICES ASSUME PipeInv, [PipeNext]_pipeVars PROVE PipeInv'
  OBVIOUS
<1>1. CASE UNCHANGED pipeVars
  <2>1. UNCHANGED <<daemon, nodesThere, defaultThere, idsUsed, wire, listening, globalVars, nodes,
                    trackerVars, shownDefault, sortedVars, segfault>>
    BY <1>1 DEF pipeVars, daemonVars, clientVars, shownVars
  <2>2. PipeSound => PipeSound'
    BY <2>1, PipeKept DEF PipeSound, PipeTypes
  <2> QED BY <2>1, <2>2 DEF PipeInv
<1>2. CASE PipeNext
  <2>1. PipeSound
    BY <1>2 DEF PipeNext, PipeInv
  <2> SUFFICES ASSUME ~OnNodeGone PROVE PipeSound'
    BY <2>1, OnNodeGoneOK DEF PipeInv
  <2>2. ASSUME NEW n \in NodeNames, NodeMade(n) PROVE PipeSound'
    BY <2>1, <2>2, NodeMadeOK
  <2>3. ASSUME NEW i \in DOMAIN nodesThere, NodeGone(i) PROVE PipeSound'
    BY <2>1, <2>3, NodeGoneOK
  <2>4. ASSUME NEW n \in NodeNames \cup {NoName}, DefaultSet(n) PROVE PipeSound'
    BY <2>1, <2>4, DefaultSetOK
  <2>5. ASSUME NEW t \in TrackedTypes, SetTrackedTypes(t) PROVE PipeSound'
    BY <2>1, <2>5, SetTrackedOK
  <2>6. CASE MetadataBound \/ PipeFails
    BY <2>1, <2>6, MetadataBoundOK, PipeFailsOK
  <2>7. CASE DaemonStarts
    BY <2>1, <2>7, PipeKept DEF DaemonStarts, clientVars, shownVars
  <2>8. CASE EventLoop
    BY <2>1, <2>8, PipeKept DEF EventLoop, daemonVars, PipeSound, PipeTypes
  <2>9. CASE OnMetadata \/ OnNode \/ OnDefault
    BY <2>1, <2>9, OnMetadataOK, OnNodeOK, OnDefaultOK
  <2>10. CASE OnFatalError \/ OnRuntimeDirChanged
    BY <2>1, <2>10, OnFatalErrorOK, OnRuntimeDirOK
  <2> QED BY <1>2, <2>2, <2>3, <2>4, <2>5, <2>6, <2>7, <2>8, <2>9, <2>10 DEF PipeNext
<1> QED BY <1>1, <1>2

LEMMA PipeInvAgrees == PipeInv => PipeAgrees
<1> SUFFICES ASSUME PipeSound
             PROVE  /\ sinks = Sorted(Fitting(nodes, tracked, "sink"))
                    /\ sources = Sorted(Fitting(nodes, tracked, "source"))
                    /\ shownDefault = defaultNode /\ defaultNode = NodeNamed(nodes, defaultName)
                    /\ watching <=> ~pwLinked /\ socketDir = "there"
                    /\ pwLinked /\ ~fatalQueued /\ wire = <<>> =>
                         /\ nodes = nodesThere
                         /\ listening = "yes" => defaultName = defaultThere
  BY DEF PipeInv, PipeAgrees, Fitting
<1>1. sinks = Sorted(Fitting(nodes, tracked, "sink")) /\ sources = Sorted(Fitting(nodes, tracked, "source"))
  BY FittingIn, SortedIs DEF PipeSound, PipeTypes, Listed
<1>2. ASSUME pwLinked, ~fatalQueued, wire = <<>>
      PROVE  nodes = nodesThere /\ (listening = "yes" => defaultName = defaultThere)
  <2>1. WireSound(wire, nodes, nodesThere, idsUsed) /\ DOMAIN wire = {}
    BY <1>2 DEF PipeSound, LinkSound, Live
  <2>2. \A i \in DOMAIN nodesThere : i \in DOMAIN nodes /\ nodes[i] = nodesThere[i]
    BY <2>1 DEF WireSound, Reaches
  <2>3. \A i \in DOMAIN nodes : i \in DOMAIN nodesThere
    BY <2>1 DEF WireSound, Leaves
  <2>4. nodes \in [DOMAIN nodes -> NodeNames] /\ nodesThere \in [DOMAIN nodesThere -> NodeNames]
    BY DEF PipeSound, PipeTypes
  <2>5. DOMAIN nodes = DOMAIN nodesThere
    BY <2>2, <2>3
  <2>6. nodes = nodesThere
    BY <2>2, <2>4, <2>5
  <2>7. listening = "yes" => defaultName = defaultThere
    BY <2>1 DEF PipeSound, DefaultTold, Holds
  <2> QED BY <2>6, <2>7
<1> QED BY <1>1, <1>2 DEF PipeSound, LinkSound, Shown

\* Until the shell crashes, lists and default are those of the nodes it knows, and these,
\* once all is read, those of the daemon.
THEOREM PipeAlwaysAgrees == PipeSpec => []PipeAgrees
<1>1. PipeSpec => []PipeInv
  BY InitPipeInv, NextPipeInv, PTL DEF PipeSpec
<1> QED BY <1>1, PipeInvAgrees, PTL
=============================================================================
