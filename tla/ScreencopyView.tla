--------------------------- MODULE ScreencopyView ---------------------------
(***************************************************************************)
(* ScreencopyQMLView around a capture context, with the scene graph node   *)
(* (WlBufferQSGDisplayNode) that shows the front buffer.                   *)
(***************************************************************************)
EXTENDS IccCapture

CONSTANTS
  Sources,   \* screens and toplevels that can be captured
  NoSource,  \* the null capture source
  Lives      \* values isLive can be given

ASSUME SourcesAssumption == NoSource \notin Sources
ASSUME LivesAssumption == Lives \subseteq BOOLEAN

VARIABLES
  source,      \* m_captureSource
  watched,     \* sources whose destruction the view is connected to
  completed,   \* m_isCompleted
  onReady,     \* connected to WlBufferManager::ready
  queued,      \* m_queuedContextCapture
  live,        \* m_isLive
  hasContent,  \* b_hasContent
  asked,       \* history: a capture was asked for and is not answered, or never will be
  tex          \* the two textures of the node

viewVars == <<source, watched, completed, onReady, queued, live, hasContent, asked>>
scVars   == <<iccVars, viewVars, tex>>

\* A texture remembers the address of its buffer; own says that this very
\* buffer still lives there.
NoTex == [addr |-> 0, own |-> FALSE]
Textures == {NoTex} \cup [addr : Addrs, own : BOOLEAN]

ViewTypeOK ==
  /\ IccTypeOK
  /\ source \in Sources \cup {NoSource} /\ watched \subseteq Sources
  /\ completed \in BOOLEAN /\ onReady \in BOOLEAN /\ queued \in BOOLEAN /\ live \in BOOLEAN
  /\ hasContent \in BOOLEAN /\ asked \in {"no", "yes", "lost"}
  /\ tex \in [{1, 2} -> Textures]

ViewInit ==
  /\ IccInit
  /\ source = NoSource /\ watched = {} /\ completed = FALSE /\ onReady = FALSE
  /\ queued = FALSE
  /\ live = FALSE /\ hasContent = FALSE /\ asked = "no" /\ tex = [i \in {1, 2} |-> NoTex]

\* Buffers that a step frees leave the node with textures that are not theirs.
InUse(s) == {s[1].addr, s[2].addr}
KeepNode ==
  tex' = [i \in {1, 2} |->
    [tex[i] EXCEPT !.own = @ /\ tex[i].addr \notin InUse(slot) \ InUse(slot')]]

----------------------------------------------------------------------------
(* ScreencopyQMLView *)

\* What the context waited for goes with it; what the view has queued stays.
ContextGoes == asked' = IF asked = "yes" /\ ~queued THEN "lost" ELSE asked

\* Mutant: the queued capture is dropped.
CreateContextDropsQueued ==
  /\ NewContext(TRUE, FALSE) /\ queued' = FALSE
  /\ hasContent' = FALSE /\ ContextGoes

\* createContext: the context before is deleted; the new one runs a capture queued in the
\* view, and has no parameters yet, so that it queues it again. The manager returns none
\* when it is not active, or for an object that is neither a screen nor a window.
CreateContext ==
  /\ \/ NewContext(TRUE, queued) /\ queued' = FALSE
     \/ NewContext(FALSE, FALSE) /\ UNCHANGED queued
  /\ hasContent' = FALSE /\ ContextGoes

\* Mutant: b_hasContent is not reset.
DeleteContextKeepsContent ==
  NewContext(FALSE, FALSE) /\ ContextGoes /\ UNCHANGED <<queued, hasContent>>

\* deleteContext
DeleteContext ==
  NewContext(FALSE, FALSE) /\ hasContent' = FALSE /\ ContextGoes /\ UNCHANGED queued

\* setCaptureSource, for a source that is no ToplevelInstance: the connection
\* to the source before is kept.
SetCaptureSource(s) ==
  /\ s # source
  /\ source' = s /\ watched' = watched \cup ({s} \ {NoSource})
  /\ \/ s # NoSource /\ completed /\ CreateContext
     \/ (s = NoSource \/ ~completed) /\ DeleteContext
  /\ KeepNode
  /\ UNCHANGED <<completed, onReady, live>>

SourceDestroyed(s) ==
  /\ s \in watched
  /\ watched' = watched \ {s}
  /\ source' = NoSource
  /\ DeleteContext
  /\ KeepNode
  /\ UNCHANGED <<completed, onReady, live>>

\* onContextStopped
ContextStopped ==
  /\ exists
  /\ DeleteContext
  /\ KeepNode
  /\ UNCHANGED <<source, watched, completed, onReady, live>>

\* onBuffersReady
OnBuffersReady ==
  /\ completed' = TRUE
  /\ \/ source # NoSource /\ CreateContext
     \/ source = NoSource /\ UNCHANGED <<iccVars, queued, hasContent, asked>>

\* componentComplete, with the buffer manager ready or not yet
ComponentComplete ==
  /\ ~completed /\ ~onReady
  /\ \/ OnBuffersReady /\ UNCHANGED onReady
     \/ onReady' = TRUE /\ UNCHANGED <<completed, iccVars, queued, hasContent, asked>>
  /\ KeepNode
  /\ UNCHANGED <<source, watched, live>>

\* ready comes again whenever the compositor sends new dmabuf feedback.
BuffersReady ==
  /\ onReady
  /\ OnBuffersReady
  /\ KeepNode
  /\ UNCHANGED <<source, watched, onReady, live>>

\* captureFrameUnsafe: after a frame that failed, or if there is no back buffer, nothing
\* will come of it.
CaptureUnsafe ==
  /\ exists /\ CaptureFrame
  /\ asked' = IF frame = "failed" \/ (~statePending /\ gaveUp') THEN "lost" ELSE "yes"
  /\ UNCHANGED <<exists, req, second, wlDamage, queued>>

\* captureFrame of the view
RequestFrame ==
  \/ CaptureUnsafe
  \/ ~exists /\ queued' = TRUE /\ asked' = "yes" /\ UNCHANGED iccVars

CaptureSingleFrame ==
  /\ ~live
  /\ RequestFrame
  /\ KeepNode
  /\ UNCHANGED <<source, watched, completed, onReady, live, hasContent>>

SetIsLive(value) ==
  /\ value \in Lives /\ value # live
  /\ live' = value
  /\ IF value THEN RequestFrame ELSE UNCHANGED <<iccVars, queued, asked>>
  /\ KeepNode
  /\ UNCHANGED <<source, watched, completed, onReady, hasContent>>

\* ready of the context, then onFrameCaptured
FrameCaptured ==
  /\ FrameReady
  /\ hasContent' = TRUE /\ asked' = "no"
  /\ KeepNode
  /\ UNCHANGED <<source, watched, completed, onReady, queued, live>>

ContextEvent ==
  /\ \/ FrameFailed /\ asked' = "lost"
     \/ \E size \in Sizes \cup {0} :
          /\ ParamsDone(size)
          /\ asked' = IF capPending /\ gaveUp' THEN "lost" ELSE asked
     \/ (ParamsBegin \/ \E r \in Regions : PictureChanges(r)) /\ UNCHANGED asked
  /\ KeepNode
  /\ UNCHANGED <<source, watched, completed, onReady, queued, live, hasContent>>

----------------------------------------------------------------------------
(* The render thread, while the GUI thread waits *)

\* syncSwapchain: a texture is kept when the address of its buffer is that of
\* the front buffer.
SyncSwapchain ==
  tex' = IF tex[front].addr = slot[front].addr THEN tex
         ELSE [tex EXCEPT ![front] = [addr |-> slot[front].addr, own |-> TRUE]]

\* updatePaintNode. The scene graph can ask for it at any time, update() only
\* makes sure that it does.
Paint ==
  /\ \/ /\ ~exists \/ ~hasContent
        /\ tex' = [i \in {1, 2} |-> NoTex]
        /\ UNCHANGED <<iccVars, queued, asked>>
     \/ /\ exists /\ hasContent
        /\ SyncSwapchain
        /\ \/ live /\ CaptureUnsafe
           \/ ~live /\ UNCHANGED <<iccVars, queued, asked>>
  /\ UNCHANGED <<source, watched, completed, onReady, live, hasContent>>

----------------------------------------------------------------------------
ViewNext ==
  \/ \E s \in Sources \cup {NoSource} : SetCaptureSource(s)
  \/ \E s \in Sources : SourceDestroyed(s)
  \/ ContextStopped \/ ComponentComplete \/ BuffersReady \/ CaptureSingleFrame
  \/ \E value \in BOOLEAN : SetIsLive(value)
  \/ FrameCaptured \/ ContextEvent \/ Paint

ViewSpec == ViewInit /\ [][ViewNext]_scVars

----------------------------------------------------------------------------
(* Properties *)

\* QML is told that there is content only while the front buffer that
\* onFrameCaptured and updatePaintNode dereference exists.
ContentHasFront == hasContent => exists /\ slot[front] # NoBuf

\* A capture that was asked for is queued in the view, queued in its context or under way
\* until its picture comes, and only then, whatever happens to sources, contexts and buffers
\* meanwhile; unless its context was deleted or replaced, no buffer could be made for it, or
\* it or the frame before it failed.
CapturesAccounted == asked = "yes" <=> queued \/ capPending \/ frame = "flying"

\* A context exists only for a view with a source and with buffers ready.
ContextHasSource == exists => source # NoSource /\ completed

\* What QML sees of the view agrees with its context.
ViewConsistent == ViewTypeOK /\ ContentHasFront /\ ContextHasSource

\* qsg.cpp:56 calls a node "already synced" when the address of the front
\* buffer is the one it knows: then it must show that buffer.
PaintShowsFront ==
  [][Paint /\ exists /\ hasContent =>
       tex'[front].own /\ tex'[front].addr = slot[front].addr]_scVars
=============================================================================
