----------------------------- MODULE IccCapture -----------------------------
(***************************************************************************)
(* IccScreencopyContext (one ext-image-copy-capture session and the frame  *)
(* under way in it) with its WlBufferSwapchain of two buffers, and the     *)
(* compositor at the other end. A buffer is an address and a size; what    *)
(* matters of its contents is which regions are out of date.               *)
(***************************************************************************)
EXTENDS Naturals

CONSTANTS
  Sizes,       \* buffer sizes the compositor can ask for
  Addrs,       \* addresses the allocator can return
  Regions,     \* parts of the captured picture
  AllocFails   \* whether the creation of a buffer can fail

ASSUME SizesAssumption == Sizes \subseteq Nat \ {0}
ASSUME AddrsAssumption == 0 \notin Addrs
ASSUME AllocFailsAssumption == AllocFails \in BOOLEAN

VARIABLES
  exists,       \* the context object exists
  capPending,   \* m_capturePending
  statePending, \* m_statePending
  req,          \* size in m_request, 0 when unset
  frame,        \* the frame object: none, under way, or failed
  second,       \* presentSecondBuffer
  slot,         \* buffer1 and buffer2 of the swapchain
  lastDamage,   \* m_lastDamage
  frameDamage,  \* what the frame under way was told to repaint
  stale,        \* regions in which each buffer is out of date
  wlDamage,     \* what changed since the compositor's last frame
  gaveUp        \* the last commitCapture found no back buffer

ctxVars  == <<exists, capPending, statePending, req, frame, gaveUp>>
swapVars == <<second, slot>>
dmgVars  == <<lastDamage, frameDamage, stale, wlDamage>>
iccVars  == <<ctxVars, swapVars, dmgVars>>

NoBuf   == [size |-> 0, addr |-> 0]
Buffers == {NoBuf} \cup [size : Sizes, addr : Addrs]
back    == IF second THEN 1 ELSE 2
front   == IF second THEN 2 ELSE 1

IccTypeOK ==
  /\ exists \in BOOLEAN /\ capPending \in BOOLEAN /\ statePending \in BOOLEAN
  /\ req \in Sizes \cup {0}
  /\ frame \in {"none", "flying", "failed"} /\ gaveUp \in BOOLEAN
  /\ second \in BOOLEAN /\ slot \in [{1, 2} -> Buffers]
  /\ lastDamage \subseteq Regions /\ frameDamage \subseteq Regions
  /\ stale \in [{1, 2} -> SUBSET Regions] /\ wlDamage \subseteq Regions

\* A context that is just created, with a capture queued or not, or none at all
NewContext(there, pending) ==
  /\ exists' = there
  /\ capPending' = pending /\ statePending' = TRUE /\ req' = 0
  /\ frame' = "none" /\ gaveUp' = FALSE /\ second' = FALSE
  /\ slot' = [i \in {1, 2} |-> NoBuf]
  /\ lastDamage' = {} /\ frameDamage' = {}
  /\ stale' = [i \in {1, 2} |-> {}] /\ wlDamage' = Regions

IccInit ==
  /\ exists = FALSE
  /\ capPending = FALSE /\ statePending = TRUE /\ req = 0
  /\ frame = "none" /\ gaveUp = FALSE /\ second = FALSE
  /\ slot = [i \in {1, 2} |-> NoBuf]
  /\ lastDamage = {} /\ frameDamage = {}
  /\ stale = [i \in {1, 2} |-> {}] /\ wlDamage = Regions

----------------------------------------------------------------------------
(* IccScreencopyContext *)

\* createBackBuffer: unique_ptr::reset gets the new buffer before it deletes
\* the old one, so the two addresses differ.
FreeAddrs == Addrs \ {slot[1].addr, slot[2].addr}

ReuseBackBuffer(size) ==
  /\ slot[back] # NoBuf /\ slot[back].size = size
  /\ frame' = "flying" /\ gaveUp' = FALSE
  /\ frameDamage' = lastDamage /\ lastDamage' = {}
  /\ UNCHANGED <<slot, stale>>

\* Mutant: a new buffer is not repainted as a whole.
NewBackBufferInPart(size) ==
  /\ slot[back].size # size
  /\ \E a \in FreeAddrs : slot' = [slot EXCEPT ![back] = [size |-> size, addr |-> a]]
  /\ stale' = [stale EXCEPT ![back] = Regions]
  /\ frame' = "flying" /\ gaveUp' = FALSE
  /\ frameDamage' = lastDamage /\ lastDamage' = {}

NewBackBuffer(size) ==
  /\ slot[back].size # size
  /\ \E a \in FreeAddrs : slot' = [slot EXCEPT ![back] = [size |-> size, addr |-> a]]
  /\ stale' = [stale EXCEPT ![back] = Regions]
  /\ frame' = "flying" /\ gaveUp' = FALSE
  /\ frameDamage' = Regions /\ lastDamage' = {}

NoBackBuffer(size) ==
  /\ size = 0 \/ (AllocFails /\ slot[back].size # size)
  /\ slot' = [slot EXCEPT ![back] = NoBuf]
  /\ stale' = [stale EXCEPT ![back] = {}]
  /\ gaveUp' = TRUE
  /\ UNCHANGED <<frame, frameDamage, lastDamage>>

\* Mutant: m_capturePending is not reset.
CommitCaptureStillPending(size) ==
  /\ UNCHANGED capPending
  /\ \/ size # 0 /\ (ReuseBackBuffer(size) \/ NewBackBuffer(size))
     \/ NoBackBuffer(size)

CommitCapture(size) ==
  /\ capPending' = FALSE
  /\ \/ size # 0 /\ (ReuseBackBuffer(size) \/ NewBackBuffer(size))
     \/ NoBackBuffer(size)

\* captureFrame
CaptureFrame ==
  \/ /\ frame # "none" \/ capPending
     /\ UNCHANGED <<capPending, statePending, frame, gaveUp, slot, lastDamage,
                    frameDamage, stale>>
  \/ /\ frame = "none" /\ ~capPending /\ statePending
     /\ capPending' = TRUE
     /\ UNCHANGED <<statePending, frame, gaveUp, slot, lastDamage, frameDamage, stale>>
  \/ /\ frame = "none" /\ ~capPending /\ ~statePending
     /\ CommitCapture(req)
     /\ UNCHANGED statePending

\* The first of a batch of buffer_size, shm_format, dmabuf_device and
\* dmabuf_format events (clearOldState)
ParamsBegin ==
  /\ exists /\ ~statePending
  /\ statePending' = TRUE /\ req' = 0
  /\ UNCHANGED <<exists, capPending, frame, gaveUp, swapVars, dmgVars>>

\* The rest of the batch, then done
ParamsDone(size) ==
  /\ exists /\ statePending
  /\ statePending' = FALSE /\ req' = size
  /\ \/ capPending /\ CommitCapture(size)
     \/ ~capPending /\ UNCHANGED <<capPending, frame, gaveUp, slot, lastDamage,
                                   frameDamage, stale>>
  /\ UNCHANGED <<exists, second, wlDamage>>

\* Mutant: the damage of the frame is not kept for the other buffer.
FrameReadyForgetsDamage ==
  /\ exists /\ frame = "flying"
  /\ frame' = "none" /\ second' = ~second
  /\ stale' = [stale EXCEPT ![back] = @ \ (frameDamage \cup wlDamage)]
  /\ lastDamage' = {} /\ wlDamage' = {}
  /\ UNCHANGED <<exists, capPending, statePending, req, gaveUp, slot, frameDamage>>

\* transform, damage and ready: the compositor has painted what it was asked
\* to and what changed since the frame before.
FrameReady ==
  /\ exists /\ frame = "flying"
  /\ frame' = "none" /\ second' = ~second
  /\ stale' = [stale EXCEPT ![back] = @ \ (frameDamage \cup wlDamage)]
  /\ lastDamage' = wlDamage /\ wlDamage' = {}
  /\ UNCHANGED <<exists, capPending, statePending, req, gaveUp, slot, frameDamage>>

\* failed: the frame object is never destroyed.
FrameFailed ==
  /\ exists /\ frame = "flying" /\ frame' = "failed"
  /\ UNCHANGED <<exists, capPending, statePending, req, gaveUp, swapVars, dmgVars>>

\* The captured picture changes.
PictureChanges(r) ==
  /\ exists /\ r \notin wlDamage
  /\ wlDamage' = wlDamage \cup {r}
  /\ stale' = [i \in {1, 2} |-> IF slot[i] = NoBuf THEN stale[i] ELSE stale[i] \cup {r}]
  /\ UNCHANGED <<ctxVars, swapVars, lastDamage, frameDamage>>

----------------------------------------------------------------------------
(* The context on its own: any owner *)

Create == ~exists /\ NewContext(TRUE, FALSE)
Delete == exists /\ NewContext(FALSE, FALSE)
CaptureAsked == exists /\ CaptureFrame /\ UNCHANGED <<exists, req, second, wlDamage>>

CompositorStep ==
  \/ ParamsBegin \/ \E size \in Sizes \cup {0} : ParamsDone(size)
  \/ FrameReady \/ FrameFailed
  \/ \E r \in Regions : PictureChanges(r)

IccNext == Create \/ Delete \/ CaptureAsked \/ CompositorStep

IccSpec == IccInit /\ [][IccNext]_iccVars

----------------------------------------------------------------------------
(* Properties *)

\* A queued capture waits for done() and for nothing else, so it cannot be
\* forgotten.
QueuedCaptureWaits == capPending => exists /\ statePending /\ frame = "none"

\* The buffers that handlers dereference exist: the back buffer while a frame
\* is under way (transform), the two addresses being different.
FrameHasBuffer ==
  /\ frame = "flying" => slot[back] # NoBuf
  /\ slot[1] # NoBuf => slot[1].addr # slot[2].addr

\* Requests, frames and buffers of a context fit together.
IccConsistent == IccTypeOK /\ QueuedCaptureWaits /\ FrameHasBuffer

\* A frame that is presented is up to date in every region, although only the
\* damage of the last frame is given to the compositor when a buffer is used
\* again.
PresentedUpToDate == [][FrameReady => stale'[back] = {} /\ slot[back] # NoBuf]_iccVars

\* icc_screencopy_context.cpp:113 says that a capture without a back buffer is
\* tried again when new parameters have come.
RetriesWithNewParams ==
  [][\A size \in Sizes : gaveUp /\ ParamsDone(size) => frame' = "flying"]_iccVars

\* What makes presented frames complete: whatever a buffer lacks will be given
\* to the compositor as damage or is known to it as new.
DamageCovers ==
  /\ slot[front] # NoBuf => stale[front] \subseteq wlDamage
  /\ frame = "none" /\ slot[back] # NoBuf => stale[back] \subseteq lastDamage \cup wlDamage
  /\ frame = "flying" => stale[back] \subseteq frameDamage \cup wlDamage
=============================================================================
