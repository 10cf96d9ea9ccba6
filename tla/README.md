# Formal models of quickshell-config

This directory holds TLA+ models of the C++ plugins and QML shells of this
repository, TLC configurations that model-check them on small instances, and
proofs, checked by TLAPS, that hold for every instance. `PROJECT.json` lists the
components, runs, mutants, hazards and theorems, and maps every definition to the
lines of the source it models. Paths below are relative to the repository;
`wl/` stands for `plugin/src/wayland/`, `svc/` for `plugin/src/services/`,
`ms/` for `plugin/src/MyShellPlugin/`.

    tlc -workers 2 -config Display_check.cfg MCDisplay.tla   # a run
    tlapm SessionLock_proofs.tla                             # a proof module

## 1. The system

The repository contains two desktop shells written in QML (`myshell`, which needs
quickshell, and the newer `nightshell`, which is on its own) and the C++ plugins
that connect them to the compositor, to D-Bus services, to PipeWire and to PAM.
Nearly all of the C++ runs on the GUI thread: an event is dispatched, its handler
runs to the end, and the handler may emit signals whose receivers run inside it.
Concurrency comes from what is outside that thread: the compositor, other
processes on the bus, forked children, worker and render threads, deferred
deletion, editors of watched files, and answers to requests that were overtaken by
events. One action of a model is therefore one handler with everything it calls. A
handler that emits a signal to arbitrary QML in the middle of its work is cut there.

### Inventory

**Session lock** (`wl/session-lock`). *State*: `SessionLockQML` has a lock target,
a "locking" and an "awaiting" flag, the surface component, one lock surface per
output and the properties `isLocked` and `isSecure`; `LockManager` has the one
`ext_session_lock_v1` object of the process; `SessionLock` has its two flags.
*Hard*: unlock while screenshots are under way, surfaces under `deleteLater()` that
still report, outputs that come and go in between, the compositor refusing or
revoking the lock, three bools that are never initialised. *Correct when*: a lock
nobody wants is never requested, every output is covered when the lock engages, what
QML sees agrees with the protocol object, nothing but `unlock()` releases, and the
object is ended by the request the protocol allows.

**Lock surface windows** (`wl/session-lock/lock_surface.cpp`,
`window_attached_lock.cpp`, `qml_lock_surface.cpp`). A QQuickWindow with a shell
surface of its own. *Hard*: the output of a window disappears, or another comes at
its address; a window is shown before its surface is configured. *Correct when*: a
buffer is committed only after a configure was acknowledged, and a lock has one
surface per output.

**PAM** (`svc/pamqml.cpp`, `svc/pam`). `PamContext` has the wish to run, the current
conversation, the last text and whether an answer is required; `PamConversation` has
two pipes, a notifier and a child pid; the forked `PamProcess` runs the PAM stack.
*Hard*: the GUI and the children interleave; a QML handler calls back into the
context from inside a signal; the child dies between prompt and answer; `fork` and
`pipe` fail. *Correct when*: each conversation reports its end once and never after
`abort()`, the context is startable again after every failure, every child is waited
for exactly once, and no signal goes to a process that is not an own child.

**Lock screen** (`nightshell/modules/lockscreen`). `LockAuth.qml` answers prompts
from the password field and keeps a lockout countdown; `LockScreen.qml` connects it
with the session lock, IPC and an unlock animation. *Hard*: two prompts in a row, the
order of `error` and `completed`, the lockout timer, requests during the animation.
*Correct when*: the field is disabled only while something will enable it again, an
answer goes to the prompt it was typed for, a locked session shows its surfaces.

**Screen capture** (`wl/screencopy`, `wl/wlbuffer.*`, `wl/qsg.cpp`). A view with a
capture source, a context (one image-copy-capture session with at most one frame and
a swapchain of two buffers) and a scene graph node. *Hard*: captures requested while
parameters are incomplete; buffers that are reused, replaced or not available; a
source that is destroyed in any of these states. *Correct when*: a presented frame is
complete although only damage was repainted, a capture that was asked for is lost in
known ways only, and the node shows the buffer it was given.

**Wayland buffers** (`wl/manager.cpp`, `dmabuf*`, `linuxdmabufmanager.cpp`, `shm.cpp`,
`gbmdevice.cpp`). Formats come from the compositor, the renderer and each capture; GBM
devices are shared by the buffers made on them; a texture is imported in steps that can
each fail. *Correct when*: a capture gets a buffer it asked for, no device is used
after it was freed, readiness is announced once both sides are known.

**Wayland toplevels and Hyprland** (`wl/wlr`, `wl/toplevels`, `ms/hyprland`). Windows
are told of over two Wayland protocols, an event socket and answers to requests.
*Hard*: an answer older than the events already seen; objects deleted by one event and
named by the next. *Correct when*: the models agree with the compositor once
everything is read, and no workspace keeps a window that left it.

**Keyboard layouts** (`ms/hypr.cpp`, `ms/kbd.cpp`, the settings buffer of the control
panel). Layouts and the active index are queried by processes that events start, with
a cooldown. *Hard*: events dropped during a query; lists edited meanwhile.

**Input inhibitor** (`wl/input-inhibit`). QML items share one inhibitor per window.
*Hard*: items that move between windows, windows that go, inhibitors that are stopped.

**System tray** (`plugin/src/SystemTray`). `StatusNotifierWatcher` keeps the list of
items and watches their services; `StatusNotifierHost` follows it over D-Bus;
`StatusNotifierItem` copies the properties of one application. *Hard*: services with
several items or names that are prefixes of others, a watcher of another process that
goes away, asynchronous reads of the list and of properties. *Correct when*: the host
shows exactly the watcher's items, and each item what its application has.

**D-Bus menus** (`plugin/src/dbus`). A tree of entries fetched lazily. *Hard*: layouts
that arrive in another order than they were asked for. *Correct when*: the model is the
application's tree once nothing is on its way.

**PipeWire** (`svc/pipewire/new`). A registry of globals, the default sink and source,
reconnection after a fatal error, volumes set on nodes or on routes of a card. *Correct
when*: lists and default follow the daemon, also after a reconnection, and a node shows
the volume it has.

**Notifications** (`ms/notifications`). Ids, replacement, actions, and a bus name that
may belong to another daemon. *Hard*: QML dismisses from inside
the signals that tell it of a notification or of its end. *Correct when*: every id is held
or was reported closed, once unless QML closed it again meanwhile.

**Wallpaper, colours, configuration, state files** (`ms/wallpaper`, `ms/colors.cpp`,
`ms/configs` with the control panel, `plugin/src/NightShell`). Files that are watched,
read after a delay and written after another, by two processes and by editors.
*Correct when*: what is shown, what is in memory and what is on disk agree once all
timers and events are done, and nothing reported as saved is lost.

**Desktop entries** (`plugin/src/DesktopEntries`). Directories scanned in a thread,
watched, cached for the next session, filtered and sorted for the launcher. *Hard*:
changes during a scan, scans queued, crashes between the files of the cache.

**The rest**: launcher and command handler, application database, weather, session and
network services, tooltips and image providers, the command line of `nsctl`, the QML of
the two shells. These are sequential, data transformation, or layout.

## 2. The plan

In the order of importance; the most important behaviour of the system is that the
session locks, stays locked and can be unlocked.

| # | module | models | state |
|---|--------|--------|-------|
| 1 | `SessionLock` | session lock | checked and proved |
| 2 | `LockContract` | abstract specification of 1 | refinement checked and proved |
| 3 | `Pam` | PAM context, conversation, child | checked; safety proved |
| 4 | `LockAuth` (extends `Pam`) | password field and lockout | checked; safety and the refinement of 3 proved |
| 5 | `LockScreen` (extends `SessionLock`) | animation and IPC around the lock | checked; safety and the refinement of 1 proved |
| 6 | `LockWindow` | windows of lock surfaces | checked and proved |
| 7 | `IccCapture` | capture context and swapchain | checked and proved |
| 8 | `ScreencopyView` (extends `IccCapture`) | view and scene graph node | checked and proved |
| 9 | `WlBuffers` | negotiation and reuse of buffers | checked and proved |
| 10 | `SystemTray`, `TrayItem`, `DBusMenu` | watcher and host, one item, one menu | checked and proved |
| 11 | `PipeWire`, `PipeVolume` | registry and defaults, volumes | checked and proved |
| 12 | `Keyboard` | keyboard layouts | checked and proved |
| 13 | `Toplevels`, `HyprSpaces` | Hyprland's windows and workspaces | checked and proved |
| 14 | `InputInhibit`, `Notifications` | inhibitors, notifications | checked and proved |
| 15 | `Wallpaper`, `Colors`, `ConfigForm`, `StateFiles`, `DesktopEntries` | what is kept in files | checked and proved |

Every safety invariant and every action property of a passing run is now stated by a
theorem; what is left to TLC is the liveness of `Pam`, `LockAuth` and `LockScreen`
(section 5). In the models the proofs are about, sorted, filtered and shortened lists are
said by what they are (`Filtered` of `Toplevels`, `Order` of `HyprSpaces`, `SortedRows` of
`DesktopEntries`) and not by the operators of the community modules that take an operator
(`SetToSortSeq`, `SelectSeq`, `FoldSet`), which TLC evaluates and no installed prover
expands.

## 3. The modules

### SessionLock and LockContract

| variable | code |
|---|---|
| `target`, `locking`, `awaiting`, `ready` | `m_lockTarget`, `m_isLocking`, `m_awaitingLock`, `b_allCapturesReady` |
| `isLocked`, `isSecure` | what the QML properties were last set to |
| `surfaces`, `captured`, `shown`, `doomed` | keys of `m_surfaces`; those whose screenshot has come; those `show()`n; those under `deleteLater()` with a screenshot under way |
| `activeLock` | `LockManager::m_activeLock` and the flags of the object: none, requested, secure, finished |
| `compositor`, `wlError` | what the compositor did with the object, and the protocol error that ended the connection |

`Lock`, `Unlock`, `SetSurfaceComponent`, `ScreencopyReady`, `LockedEvent`,
`FinishedEvent` are the handlers. `Realize` is the body of `realizeLockTarget`:
refuse (`DoUnlock`), wait for a screenshot, or take the lock; the scope guard that
runs it again when `m_awaitingLock` was set repeats the branch just taken, so it
adds no state. `isScreencopyReady()` answers true for every surface
(`qml_lock_surface.cpp:164`), hence one screenshot counts as all.
`onScreensChanged` is connected to nothing, hence plugging changes `screens` only.
The three uninitialised bools take any value in `StartFlags`.

`LockContract` has a phase (idle, waiting, locked) and a wish. The refinement
mapping is `phase <- IF isLocked THEN "locked" ELSE IF locking THEN "waiting" ELSE
"idle"`, `wanted <- target`.

### LockScreen and LockWindow

`LockScreen` adds to `SessionLock` the properties of `LockScreen.qml`: whether the
surfaces are faded in (`shouldBeActive`), the unlock animation (`unlockAnim`), and what
asks for either. A success of `LockAuth` is one of the things that start the animation
and may come from an attempt made for an earlier lock. Nothing in the code bounds the time a
screenshot takes or asks for one again, hence each may be given up for good
(`CaptureGivenUp`, `givenUp`): no buffer fits, the capture fails, or the compositor is silent.

`LockWindow` follows each `LockSurfaceQML` from its creation: the lock it was attached
to, the output whose address is its key, whether it was configured, acknowledged and
drawn, and its deferred deletion. `keyReused` remembers that an output got the address
of one that left.

### Pam and LockAuth

A conversation is a number; `pid`, `child`, `left`, `toMain` and `answers` are
functions over conversations: the child pid the C++ remembers, what the process is
doing, the messages its PAM stack may still send, and both pipes. `sig` is what the
handler now running has still to do: signals to emit, during which QML runs (`Deliver`)
and may call `start`, `abort` or `respond`, once or several times, and "start", the rest
of `startConversation` (`StartProcess`), which comes after its `isActiveChanged`. An exit
code is told first and its child waited for after the handlers (`reaping`,
`WaitForChild`), in the order of `conversation.cpp:88-97`. An event of the GUI thread
needs all of it done (`Idle`). The signals `startConversation` emits before
`isActiveChanged` (`pamqml.cpp:122`) are left out: `m_targetActive` is not set, or the
conversation not made, so `start`, `abort` and `respond` return at once. A handler of
`isActiveChanged` that aborts leaves a null conversation to be started, or, if it starts
another, one that is started twice: the model ends there (`Misstarted`; section 6).
In `Pam` any QML is possible; in `LockAuth` the handlers of `LockAuth.qml`
(`OnRequired`, `OnReceived`, `OnError`, `OnCompleted`) take the signals, and the field of
`LockForeground.qml` calls `start`; `AuthConsistent` says that this QML never gets to
`Misstarted`.
`fork()` failing is one of the outcomes of `StartProcess`: the pid is then
`minus1`, and `KillChild` records in `stray` that it was given to `kill()` and
`waitpid()`. A `write()` to a dead child is modelled as a failed call; the SIGPIPE
that comes with it is not (`svc/pam/process.cpp:47`).

### IccCapture, ScreencopyView and WlBuffers

In `IccCapture` a buffer is an address and a size. `stale[i]` is the set of regions in
which buffer *i* differs from the picture. It exists only in the model: it is what makes
"complete" expressible. The compositor repaints the damage it is given and what it
knows to have changed since its last frame (`wlDamage`), as the protocol says.
Parameters come in batches; the compositor may close a batch without a usable
format (size 0). `createBackBuffer` reuses a buffer of the right size, makes a new
one at a free address, or fails.

`ScreencopyView` adds the view (`source`, `queued`, `live`, `hasContent`) and the
two textures of the node, each with the address of its buffer and a bit `own`
that says whether the buffer it was made from still exists. `watched` are the
sources whose `destroyed` signal is still connected: the connection to a source
that is no ToplevelInstance is never cut. `asked` follows a capture from its request to
its picture, and becomes "lost" where the code loses it: a context deleted or replaced
while the capture waits in it, no buffer, a frame that failed. The manager may return no
context (`CreateContext`): what the view has queued then stays queued.

`WlBuffers` is what `createBackBuffer` abstracts: feedback in tranches, the formats the
renderer can import, the request of a capture, the choice among them, the fallback to
shared memory, and the two slots of the swapchain with the GBM device of each. An
import of a texture is a number of steps (`textures.stop`: where it failed).

### SystemTray, TrayItem and DBusMenu

| variable of `SystemTray` | code |
|---|---|
| `items`, `hosts`, `watches` | `StatusNotifierWatcher`: `m_items`, `m_hosts` (without our own host), the services `m_serviceWatcher` watches |
| `hostItems` | keys of `StatusNotifierHost::m_items`; `SystemTrayQML` shows the same ones |
| `inbox`, `outbox`, `matched` | messages to this process in the order they are dispatched; match rules and signals of this process the bus has not taken yet; the match rules it has |
| `alive`, `owner`, `otherItems`, `asked` | names on the bus, who owns the watcher's name, the list of another shell's watcher, a pending read of it |

Each `Handle...` is the slot that takes one kind of message. The watcher's signals
go through the bus and come back to the host, also within this process; calls to an
own name are answered inside the call, and the queued answer may be anywhere among
the messages on their way (`HandleNew`). `addWatchedService` sends its match rule
without waiting, so a service can leave between `serviceOwner()` and the rule:
`missed` remembers these. Another shell may hand the name on without its being free in
between, of which `QDBusServiceWatcher` tells neither watcher nor host (`OtherHandsOver`;
`handed` until the name is lost). The blocking calls of the slots are not used to order
anything: the model allows more orders than there are. A *plain* service has one entry
and a name that is no prefix of another; the properties that fail for the others
(section 6) are stated for plain ones; `PrefixAssumption` is what the code's
`startsWith` does to names. After the null menu handle of
`prepareForUnregistration` was used (`crashed`) nothing more happens.

`TrayItem` holds what the application offers, the item's copies (`shown`), signals and
reads under way, and `pixmapIndex`, the counter in the picture's URL. `stale` are
properties whose last read failed; `Better` and `ClosestSoFar` are the choice among the
pixmaps an application offers, pixmap by pixmap. `DBusMenu` holds the application's tree and the
model's, the requests under way (`updating`), the messages and answers of the application
in the order in which they are dispatched (`menuInbox`), calls deferred with a timer of 0,
which run before or after any of these, and the views, which count references.
`known` are the parents whose children the model can be held to: a layout that is
dropped or fails makes every parent below it unknown.

### PipeWire and PipeVolume

`wire` is the sequence of messages from the daemon; `nodes` and the bound metadata are
the registry; `defaultName` and `defaultNode` the tracker; `shownDefault`, `sinks` and
`sources` what QML has. A fatal error is queued, resets all of them in the order of the
code, and begins to reconnect with a watcher of the runtime directory, unless
`PIPEWIRE_REMOTE` is set or there is no directory to watch (`socketDir`): then nothing
ever reconnects. `segfault` is set where the code deletes a null pointer, and may be set
where it writes to a tracked object it has just erased (`Destroyed`,
`qml_object_interface.cpp:19`): the outcome of a use after free is either. `PipeVolume` has the card's routes
and levels, the device's copies, requests and replies, and the volume each node shows,
has queued or was told; one call of `Core::onPoll` is cut into its messages
(`polling`), since routes are pruned at its end.

### Toplevels, HyprSpaces and Keyboard

The compositor's truth (`Open`, `home`, `focused`; `place`; `compLayouts`,
`compActive`) is beside the shell's copies, with the channels between them: sequences
for sockets and Wayland, one slot for a request that is at most once under way. History
variables name what the code is known to lose: `outrun` (a move told before the window
was ready, or undone by an older answer), `behind` (a request dropped behind an
answer), `missedChange` (an event in the 250 ms after a query). The address of a toplevel
is compared before anything has set it: `leftover` is what lies there, any value, and a
toplevel for which it is already its own address is never told of (`Garbled`). Focus may
leave all windows (`inFocus`): the line that says so has no address and is dropped, so the
shell keeps the last one. `HyprSpaces` sees the
list of `Toplevels` through three calls, `TopArrives`, `TopMoves` and `TopLeaves`.

### InputInhibit and Notifications

`InputInhibit`: the window of each item and whether it asks (`itemWin`, `asked`), the
manager's entries (`known`), the inhibitors that work (`inhibiting`), those stopped but
kept, and deletions that would happen twice. `Notifications`: the ids handed out, held
and listed, their actions, how often each was reported closed, and the owner of the bus
name with the events of it under way. Its methods are cut where they emit to QML; `calls` is
the stack of those that wait for a handler, which may call the others: `Notify` before it
inserts, a deletion before the row goes and before the id does, `closeAllNotifications` at
each step of its walk. `again` are the ids that were closed from inside their own closing.

### Files: Wallpaper, Colors, ConfigForm, StateFiles, DesktopEntries

Each has the file, what the program holds, the timers and watches between them, and a
history variable for the changes nobody can notice. A watch is on an inode: replacing a
file raises one event and ends the watch, until the handler attaches it again.
`Colors` has two processes that truncate before they write, `activetheme` without a lock:
a name written over what the other left there may be mixed with its tail (`Overwritten`).
A handler reads the file and then takes its watch off and on again (`Attach`), and what
happens in between is lost (`overtaken`, `unheard`); `broken` are writes of `activetheme` that
overlapped or were cut off. `ConfigForm` has the page of
the control panel, the objects it commits to, and the process that reads the file next.

| variable of `DesktopEntries` | code |
|---|---|
| `disk`, `staleDirs` | the directories, and those newer than the dates recorded in `DesktopEntryDirectoryCache.json` |
| `cache` | `DesktopEntries.json`, or unreadable |
| `dirEvent`, `debouncing` | `EntryMonitor`: an event under way, its timer |
| `scanInProgress`, `scanQueued`, `toRead`, `found` | `EntryManager`, and the scanner in its thread, which reads a directory per step |
| `entries` | `m_desktopEntries` |
| `appRows`, `filter`, `previous`, `filterTimer` | `DesktopEntriesModel`: rows, query and switch, the same at the last timeout, its timer |

`SavedEntries` keeps the first version of an id and `Merged` the last valid one, as
`saveToCache` and `processEntryList` do. `SortedRows` is the list in the order of
`Before`, which is total, so that there is one. `CrashWhileSaving` stops between the opening of
the cache, the dates, and the closing that flushes the cache.

## 4. The runs

| run | states | what it shows |
|---|---|---|
| `display` | 671,275 | Nine models: `SessionLock`, `LockWindow`, `WlBuffers`, `InputInhibit`, `Notifications`, `Wallpaper`, `Colors`, `ConfigForm`, `StateFiles`. With two outputs that come and go, a component that is null, good or yields no surfaces, and every value of the uninitialised flags, the lock is consistent (`LockConsistent`), covers the outputs when it engages, is released by `unlock()` only, and refines `LockContract`. The others keep what they show in agreement with what they follow: one property each. |
| `capture` | 801,623 | `IccCapture` for any owner, `ScreencopyView` and `DesktopEntries`. Presented frames are complete, a capture is lost in the named ways only, content implies a front buffer; the launcher lists the applications there are. |
| `services` | 1,174,981 | `Toplevels`, `HyprSpaces`, `Keyboard`, `PipeWire`, `PipeVolume`, `DBusMenu`, `TrayItem`: the shell's copies agree with their sources once everything on its way has arrived. |
| `tray` | 2,110,230 | A plain service with one item, a service with two whose ids clash, a host whose name is a prefix of that service's, other shells that own the watcher at first, lose it, hand it on or take it again: host and watcher agree when nothing is on its way, departures of plain services are noticed, the loss of the watcher is noticed. |
| `pam_any_qml` | 609,337 | Two conversations, two messages each, any QML, also from inside any signal: consistency, one report per conversation, silence after `abort()`, no child left or waited for twice. |
| `lock_qml` | 89,276 | `LockAuth` on `Pam`: the field is never left disabled, each answer fits its prompt, only the second of two successive prompts stays unanswered, attempts end. `LockScreen` on `SessionLock`: a locked session shows its surfaces, the animation ends in an unlock, `lock()` and `unlock()` are served unless every screenshot they wait for is given up. |
| `session_lock_destroy` | violation | `locked`, then `finished`, then `unlock()` sends `destroy` for a lock that was granted, against the warning in `session_lock.cpp:13`. |
| `lock_auth_lockout` | violation | The timer of the lockout fires once: a lockout of two minutes never ends. |
| `lock_auth_fork` | violation | After a failed `fork()` the pid -1 is used for `kill()` and `waitpid()`. |
| `icc_retry` | violation | A capture without a back buffer is not tried again when parameters come, against the text of `icc_screencopy_context.cpp:113`. |
| `view_synced` | violation | A new buffer at the address of a deleted one is taken as "already synced". |
| `inhibit_refused` | violation | A window whose inhibitor was stopped is refused a new one as "already active". |

**One run for several models.** `MCDisplay`, `MCCapture`, `MCServices` and `MCLockQml`
put models that do not interact in one state space as a sum, not a product: the variable
`part` never changes, the steps of a behaviour are those of its part, and the variables
of the others keep one initial value. Each part is explored exactly as it would be on its
own. Models that do interact are composed by `EXTENDS` and share variables: `LockAuth`
with `Pam`, `LockScreen` with `SessionLock`, `ScreencopyView` with `IccCapture`.

**Conjunctions.** Where several invariants describe one thing, the run checks their
conjunction: `LockConsistent` is `TypeOK`, `LockedAgrees`, `SecureIsTruthful`,
`ShownHaveLock` (the `qCFatal` of `updateSurfaces` cannot fire) and `IdleIsClean`;
`IccConsistent` is `IccTypeOK`, `QueuedCaptureWaits` and `FrameHasBuffer`;
`ViewConsistent` is `ViewTypeOK`, `ContentHasFront` and `ContextHasSource`;
`TrayConsistent` is `TypeOK`, `NothingUnlisted` and `PlainShown`; `PamConsistent` is
`PamTypeOK`, `TargetMatchesActive`, `NoOrphan` and `ReportedOnce`; `AuthConsistent` is
`AuthTypeOK`, `PendingMeansBusy`, `AnswerFitsPrompt`, `CompletedWhileIdle` and
`~Misstarted`;
`EntriesAgree` is `EntriesCurrent` and `RowsCurrent`; `BuffersFit` and
`LockWindowsSound` have their parts next to them; `WishesServed` is `LockServed` and
`UnlockServed`.

**Bounds.** Each is a constant named in the module and set in the `.cfg`.

- `Screens`: two, so that one screenshot differs from all of them and an output can go
  while another stays. `MaxLockWins = 3`, `MaxLocks = 2`, `MaxPlugs = 3`: a window of an
  earlier lock, one of an output that left, one at a used address.
- `MaxConv = 2`: an attempt and the one that follows it, where a late message of the
  first could reach the second. `MaxMsgs = 2`: a text and a prompt, or two prompts.
  `FewAnswers`: QML that answers without end is cut at one answer nobody reads. A
  behaviour that leaves this constraint is not followed further, so `ChildrenReaped` is
  checked of those that stay inside; a handler that answers without end would not return.
- `Sizes = {1, 2}`: a buffer is reused or replaced. `Addrs`: three, the most that two
  slots need while one is replaced; symmetric, and no liveness is checked there.
  `Regions`: one, which one buffer lacks and the other has; `DamageCovers` and
  `PresentedUpToDate` are proved for any set.
- `MaxBufSteps = 4`, `DrmDevices` three, two of them nodes of one card: a device comes
  back after it was freed.
- `MaxCalls = 2`: a method called from the handler of another. `Length`: three names of
  which one is longer. `Leftovers`: no address, or that of a window. `MCActionLists`:
  two lists, so that actions are replaced by more and by fewer.
- `MaxTraffic = 3`: a match rule, a signal and one more message can be on their way at
  once, which is what the gap between check and match rule takes; handlers may exceed
  it, the environment waits.
- `MaxEdits`, `MaxDeeds`, `MaxTyped`, `MaxSteps`, `MaxTouches`, `MaxTopSteps`,
  `MaxSpaceSteps`, `MaxPipeSteps`, `MaxVolSteps`, `MaxChanges`, `MaxItemSteps`,
  `MaxNotes`, `MaxOwners`, `MaxEntryDeeds`: what users, editors and peers may do, two to
  five times; the program itself is not bounded. Two changes are what it takes for one
  to come while the program works on the other; three or more where a crash and a restart
  count as well. In `DesktopEntries` four are a start, two edits and a restart, or a
  start, an edit and two changes of the filter.

**Deadlock** is checked in `capture`, where the captures have no bound; `DesktopEntries`,
which stops at its own, may stutter there. Elsewhere the system may stop: the lock after a
protocol error, PAM when all conversations are used up, the tray after a crash, the
others at the bounds of their environment.

**Fairness.** Models without a liveness property assume none. `SessionLock`
(`LockFairness`): weak fairness of deferred deletion and of the delivery of `locked` and
`finished`, which are Qt's event loop. The compositor's decisions, the user and the
screenshots get none: the code has no timeout and no retry for a capture. `LockScreen` adds
the end of its animation, and that a screenshot is answered *or* given up, where giving up is
always possible, and `WishesServed` admits the behaviours in which all are (`Abandoned`): it
says that one answered screenshot is enough, and that nothing else keeps a wish from being
served. `Pam`: weak fairness of the GUI thread's handlers (a handler returns, what it has
begun goes on, a readable pipe and a deferred deletion are served), none of QML's calls or of
the children. `LockAuth`: in addition the timer, and the child (a PAM stack that has its
answer goes on and sends finitely many messages). Weak fairness is enough everywhere because
no handler, once enabled, is disabled again and again by others. In `lock_qml` nothing that is
fair is enabled in the part that stays at its initial state.

**Mutants.** For every property of a passing run a mutated handler, written before the
original, breaks it.

## 5. The proofs

Eight modules; the theorems a reader should know of are listed in `PROJECT.json`. Each
proves an inductive invariant from the initial states and the next-state relation, one
lemma or step per action, and reads the invariant a run checks off it, so that what TLC
finds on a small instance holds for every value of the constants. The bounds on
environments (`MaxSteps` and the like) are parameters as well, hence none of the results
depends on them. TLC checked the inductive invariants on instances like those of the runs before
they were proved.

**Induction** (lemmas for the other modules). The theorems of the proof library about
natural induction and recursive functions take an operator as a parameter, which no
installed prover instantiates. The same is stated here of sets and functions: numbers have
a least one (`LeastNumber`), a set that has 0 and with each number the next has all up to a
bound (`UpTo`), and a step applied over and over has a function that follows it
(`RecursionDefines`), by which a recursive function of a module is known to be what its
equations say. The lemmas about lists that are counted, searched or cleaned element by
element (`SystemTray`, `StateFiles`, `TrayItem`, `DesktopEntries`) rest on them.

Two more families are shared. *Queues*: `Holds` (the queue has such an element), `Mended`
(each of one kind has one of another behind it) and `Single` (there is one at most), with
what putting and taking does to each; in these terms the invariants say what messages on
their way will still do. *Lists in order*: a finite set has a list in any order of it
(`OrderExists`, by counting what comes before each element), there is one
(`OrderedOnly`), and taking one out or putting one in keeps it (`ListsTaken`, `ListsPut`);
a list without repetition is in an order of its own (`ListOrders`), which is how a
filter or a removal is known to keep it.

### SessionLock_proofs: the lock and the screen around it

For every set of outputs, start flags, components that contain "null", with and without hot
plugging.

- The invariants of the run are not inductive: that `isLocked` agrees with
  `activeLock` needs what the wire can be in (`WireInv`: a secure lock was granted,
  a lock that does not exist has no state at the compositor), and that nothing is
  left over needs to know which surfaces can still report (`SurfInv`: an idle
  element with a wish has no doomed surfaces, so no stray screenshot can start an
  operation from outside). `IInv` is `TypeOK`, `LockedAgrees`, `WireInv` and
  `SurfInv`. `InitIInv` and `NextIInv` prove it inductive, with one lemma per
  operation that several actions share (`DoUnlockOK`, `RealizeOK`, `AttemptLockOK`,
  `AttemptUnlockOK`).
- `TypeCorrect`, `LockedAlwaysAgrees`, `SecureAlwaysTruthful`, `ShownAlwaysHaveLock` and
  `IdleAlwaysClean` follow from it, and `LockAlwaysConsistent` from these five.
- The action properties and the refinement share a classification of steps
  (`StepKinds`): a step is silent for QML, remembers a wish, releases, waits or
  engages. `AlwaysAskedOnlyIfWanted`, `EngageAlwaysCovers` and
  `LockImplementsContract` are read off these five kinds.
- `OnlyUnlockAlwaysReleases` needs one more invariant, `HeldInv`: a held lock has a
  component, because `setSurfaceComponent` refuses while the manager has a lock.
- `ScreenImplementsLock`: every step of `LockScreen` is one of `SessionLock` or leaves it
  alone, so all of the above holds in the shell. `LockedAlwaysVisible` adds what
  the QML around it promises; it uses that the shell's own component is among them
  (`SurfaceAssumption`).

### LockAuth_proofs: PAM under any QML, and under the lock screen

For every number of conversations, messages per conversation, set of texts and exit codes
that differ, outcomes of `fork` and `pipe`, with and without crashing children.

- `PamInv` has three parts. `ContextInv`: the conversation is the one the context wants, is
  not deleted as well and has reported nothing yet. `ProcessInv`: the pid that is kept
  fits the child. `DeadHaveNoPid`: a deleted conversation waits for nobody. With QML
  cut in between any two signals, `isActiveChanged` included, it is the order in the code
  that is proved, up to `Misstarted`: `PamCorrect`, and `PamAbortSilences` for what may still
  be in pipes.
- `AuthImplementsPam`: every step of `LockAuth` is a step of `Pam` with one of the
  QMLs it admits.
- `AuthAlwaysConsistent` and `PromptsAlwaysAnswered` need what is in the pipe, in the queue
  of signals and in the child's hands to be told together (`PipesFit`, `RequiredIsFirst`,
  `RequiredFits`, `ResultsWhenIdle`): at most one prompt is unanswered, unless the stack
  prompted twice. With this QML a conversation that is to be started is the last made and has
  no process (`Starting`), so that `Misstarted` is not reached, and a child that is waited
  for after its signals has ended and has nobody else waiting (`Reaping`).
- `NoStrayKillUnlessForkFails`: `kill()` only ever gets a running child, *if* "fork_failed"
  is not among the outcomes. The hypothesis is exactly what `lock_auth_fork` violates.

### Media_proofs: captures, volumes, nodes

For every set of sizes, addresses, sources and regions, with and without failing
allocation; of volumes, every finite set of nodes, and every step; of names of nodes and of
types that are tracked.

- `IInv` is `IccTypeOK`, `QueuedCaptureWaits`, `FrameHasBuffer` and `DamageCovers`.
  The last is the argument for buffer reuse: what the front buffer lacks is what the
  compositor has noted since its last frame, and what the back buffer lacks is that
  and the damage of the last frame, which is what the next frame is told to repaint.
  It needs the two sides to be different slots (`Sides`) and a queued capture to find
  no frame under way. `CommitOK` is shared by `captureFrame` and `done`; it has one case
  per outcome of `createBackBuffer`. `PresentedAlwaysUpToDate` follows from
  `FrameReadyOK`.
- The view makes contexts and drops them: `ViewKeepsContext` shows that each has `IInv` and
  presents complete pictures; `ViewAlwaysConsistent` that the view never holds content of
  one that is gone. `CapturesAlwaysAccounted`: a capture that was asked for is queued in
  the view, queued in the context or under way until its picture comes, or was lost in one of
  three ways; each hand-over between the three places, the loss by a new `ready()` included,
  is a case of its own.
- `VolumesAlwaysAgree`: once the routes have been listed and none of them is in a reply
  (`Has`), the shell's route is the daemon's (`RouteOK`) and the node shows it unless a
  request that moves it is on its way (`ShownOK`). A reply that became untrue has a signal
  behind it that makes the shell list the routes again (`Told`).
- `PipeAlwaysAgrees`: `WireSound` says of the registry's messages that a node is announced
  once and before it goes, that known nodes and messages add up to those there are, and
  that a name is used again only after the removal of its first node has been sent;
  `DefaultTold` that the last default told is the right one. The lists are the nodes that
  fit, in order (`Listed`). All of it is said up to the removal of the default, which
  crashes the shell (section 6), or to a use after free that does: a step after that is not
  the program's. Without a connection the directory is watched if there is one to watch.

### Windows_proofs: inhibitors, notifications, lock windows, buffers, toplevels

For all windows and items, lists of actions, finite sets of outputs, feedbacks and requests,
workspaces and searches.

- `WindowsStayInhibited`: the invariant of the run, with the fact that an item is only in a
  window that lives. `RefusedUntilStopped` is what holds of refusals as long as nothing was
  stopped; its hypothesis is what `inhibit_refused` breaks.
- `NotesAccountedFor`: the stack holds at most one insertion, at the bottom, and of each id
  one deletion, unless a handler closed it again; that is what makes ids held, closed or
  about to be. `UpdatedActionsStart` is the lemma about the replacement of
  actions two strings at a time, where an odd list or a shorter one could leave old actions.
- `LockWindowsAlwaysSound`: per element, what it takes to be drawn (`Drawable`: configured,
  acknowledged, of this lock) and where it is (`Placed`); and that a lock has one element
  per output (`OneElement`) although addresses of outputs are used again.
- `BuffersAlwaysFit`: the choice of a format (`LentFits`) and the devices (`DevicesLive`).
- `ToplevelsAlwaysAgree`: a window is at one stage between its opening and its address
  (`OneStage`), an open one is never between stages (`OpenKept`), and what has closed is
  followed by the event that takes it out (`ClosedLeaves`), although three channels are
  read in any order. Where it is and what has the focus was told last (`PlaceTold`,
  `FocusTold`) unless the move was outrun. The filtered list is the full one with the order
  it has there, through insertions, removals and searches (`ListsSound`).

### Files_proofs: what is kept in files

For all fields and validators, lists, processes, themes, files, directories and queries.

- `FormAlwaysTruthful`, `WallpaperAlwaysSettled`.
- `ThemesAlwaysAgree`: for each process what it names and what it shows is that of the files,
  or an event, a timer or a read under way will make it so (`NameFollowed`,
  `ColoursFollowed`), and it watches a file that is there (`WatchedThere`). `activetheme`
  names a theme again as soon as a write of it was the only one and went through.
- `StateAlwaysKept`: the file is the favourites in use or will be written, across crashes;
  the configuration is the file's or a change was missed.
- `EntriesAlwaysAgree`: what makes a list other than the disk has put something on its way
  that scans again (`ScanComing`, `ListTrue`); a scan has read what is there as far as it
  has come, or another is queued (`ScanTrue`); the cache is what a scan would save
  (`CacheTrue`). That the rows are sorted needs that there is one order of a finite set
  (`OrderExists`, in `Induction`).

### SystemTray_proofs: watcher, host and bus

For all services and finite sets of items, every relation "is a prefix of" that keeps to
the services, every order of arrival, and any number of messages on their way.

- That watcher and host agree says nothing while anything is under way. What is invariant
  is the *order* of it: of an item that is not listed, every message that would show it has
  one behind it that takes it away (`HideOK`), and the other way around (`ShowOK`).
  `Followed` and `Comes` say so of two queues read one after the other, with lemmas for
  each thing that happens to a queue. `OwnerOK`, `LossOK`, `GoneOK`, `WatchedOK` are about
  who owns the name, and about match rules that arrive too late.
- A handover of the watcher's name is invisible, so that `HideOK` is lost with it; the signal
  that the name was lost restores it (`HideExits`).
- `TrayAlwaysConsistent`, `DeparturesAlwaysNoticed`, `GhostsAlwaysLeave` and
  `LossAlwaysNoticed` are the four invariants of the run.

### Services_proofs: keyboard, tray items, menus, workspaces

For all lists of layouts, of pixmaps, trees of menu entries, finite sets of views, of
workspaces and of toplevels, and any monitors.

- `KeyboardAlwaysAgrees`: what makes a copy wrong has started the query that puts it right.
- `ItemAlwaysCurrent`: `Holds` and `Mended` do for one queue what `Comes` and `Followed` do
  for two. That the pixmap drawn serves best is `ClosestServes`, by induction over the list.
  `PictureAlwaysReloads` is the action property.
- `MenuAlwaysAgrees`: answers that tell of a menu the application no longer has are followed
  by the signal that has it read again (`InboxOK`); one request is in flight and
  has one answer (`OneAnswer`). The attempt to prove it showed that the history variable
  `known` was wrong for a case beyond the bounds of the run (four changes): a layout that is
  dropped, or fails, for a parent leaves what is below it as it was, which the variable
  forgot only for the parent itself.
- `SpacesAlwaysAgree`: a workspace has each child once, and only toplevels that are on it
  (`KidsSound`), through attaching, detaching and lists that come late. What differs from
  Hyprland has a line on its way, has been asked about, or is in the answer (`ChangeTold`).
  Monitors are told of a list only if it changed: the sorted list has the pointers of all
  workspaces (`OrderOK`), so that one which did not change leaves what monitors list and
  show as good as it was (`MonitorsSound`).

### Assumptions

The proofs use the named assumptions of the modules and no others; TLC evaluates each on the
instance of a run. Most give a constant its type, or keep a marker such as `NoWin` out of the
set it is no member of. Those with content: `ComponentsAssumption` and `SurfaceAssumption`
(null and the shell's own component are possible), `CodesAssumption` (an exit code is no
message: the code sends a byte before each), `PrefixAssumption` (no bus name contains a
slash), `TreeAssumption` (no menu entry is below itself), and finiteness where something is
counted (`LockOutputs`, `Items`, `MenuViews`, `EntryIds`, `AudioNodes`) or put in order
(`SpaceIds`, `Tops`).

### Only model-checked

- Liveness, which the prover does not reach: `ChildrenReaped`, `AuthServed`,
  `UnlockCarriedOut`, `WishesServed`.
- What a recursive function computes for every input, other than by the lemmas above.

## 6. What the models found

1. `session_lock.cpp:23`: `destroy` after `locked` and `finished`
   (`session_lock_destroy`).
2. `LockAuth.qml:25`: the lockout timer lacks `repeat` (`lock_auth_lockout`).
3. `conversation.cpp:28`: only 0 is taken as a failure of `createSubprocess`, which
   returns -1 when `fork()` fails (`lock_auth_fork`).
4. `icc_screencopy_context.cpp:107`: the pending capture is dropped before it is
   known whether there is a buffer (`icc_retry`).
5. `qsg.cpp:56`: buffers are compared by address (`view_synced`).
6. `input_inhibit_manager.cpp:58`: a stopped inhibitor keeps its entry, and its window is
   refused another as if it were active (`inhibit_refused`).

Noted while modelling. The properties are stated around these, with a history variable
where it takes one; the notes of the hazards say which.

- Lock: an output plugged in during a lock gets no surface (`onScreensChanged` is
  connected to nothing, `qml_session_lock.cpp:200`); a finished lock stays `isLocked`
  until `unlock()`; a lock requested over IPC during the unlock animation is ignored
  (`LockScreen.qml:60`); a success of an attempt made for an earlier lock unlocks the new
  one (`LockAuth.qml:98`); a lock that gets no screenshot at all waits for ever, and so does
  an `unlock()` behind it.
- PAM: a handler of `isActiveChanged` that calls `abort()` makes `startConversation` use a
  null pointer, and one that then calls `start()` has the new conversation started twice
  (`pamqml.cpp:122-124`); the QML of the repository does neither. Writing to a child that died raises SIGPIPE, which the shell does not ignore
  (`process.cpp:47`).
- Capture: `failed()` leaves the frame object, so that nothing is captured any more, and a
  reason it does not know ends the process (`icc_screencopy_context.cpp:171`); a capture that
  waits in a context is lost when `ready()` or a new source replaces the context
  (`screencopy_qml_view.cpp:183`); a
  live view stops after its source changed; a failure to bind leaks the memory
  (`dmabuf.cpp:458`).
- Tray: when the watcher's name passes from one owner to the next without being free, the
  host keeps what the first had listed (`statusnotifierhost.cpp:101`); a service with two items, or with a name that is a prefix of another's, leaves a
  ghost or takes an item of the other along, and a ghost keeps its item from being shown
  when the service returns; a service that leaves right after its registration is never
  removed; an item without a menu crashes the shell when it leaves
  (`statusnotifieritem.cpp:234`); the overlay is drawn from the pixmaps of the icon
  (`statusnotifieritem.cpp:310`).
- Menus: an answer that comes while the interface is invalid leaves `m_isUpdating` set for
  ever (`dbusmenumodel.cpp:222`).
- Hyprland: a deleted workspace stays in the list of its monitor; events in the 250 ms
  after a query are lost (`hypr.cpp:388`); a list with one layout is refused
  (`hypr.cpp:664`); an instance that closes before it is ready stays in `m_allTopLevels`;
  the active toplevel stays when no window has the focus any more, since the line without an
  address is dropped (`hyprevents.cpp:101`); an address is read before it is set, and a
  toplevel whose memory happens to hold its own is never announced (`toplevelmodel.h:69`).
- PipeWire: the removal of the default calls `deleteLater` on null
  (`qml_pipewire.cpp:127`); a tracked object is erased inside the signal that tells of its end
  and written to afterwards (`qml_object_interface.cpp:19`); with `PIPEWIRE_REMOTE` set, or
  without a runtime directory, the shell never reconnects (`pw_globals.cpp:97-118`); devices and clients are not removed (`pw_registry.cpp:156`);
  the tracker keeps its node alive and waits for it to be destroyed
  (`pw_defaults.cpp:219`); a clamped volume gets no answer and leaves the node waiting.
- Notifications: `closeAll` changes the hash it walks over (`notificationserver.cpp:99`); a
  handler that closes a notification from inside `closed` or `valuesChanged` has
  `NotificationClosed` sent twice (`notificationserver.cpp:126`); `dismiss()` inside
  `notification` is ignored, since the id is not inserted yet
  (`notificationserver.cpp:176`).
- Colours: two processes that choose a theme at once can leave a name that is none
  (`colors.cpp:64`); one that is starting misses a choice made between its reading of the
  file and its watch.
- Wallpaper: `current()` admits an index equal to the length (`wallpapermanager.cpp:57`);
  `next` over D-Bus reports success for a failure; a file absent when the timer fires is
  never watched again.
- Files: `Config::saveConfigs` of nightshell saves nothing; a panel closed within half a
  second of a commit loses it.
- Desktop entries: rows that are made while the switch for terminal applications has been
  changed and its timer not run are filtered by the new value, and stay so if it is changed
  back in time, when the timer finds nothing new (`desktopentriesmodel.cpp:153`;
  `overtakenRows` leaves these rows out of `EntriesAgree`); with valid dates and an unreadable cache (a crash between the two files,
  a full disk) the session logs "Scanning as usual", does not scan and lists nothing
  (`entrymanager.cpp:72`); the cache keeps the lowest version of an id where a scan keeps
  the highest (`entrycacher.cpp:202`); dates are recorded after the scan and in seconds,
  so a change made meanwhile can be missed by the next session; changes in subdirectories
  are not watched; actions are lost in the cache (an array is read as an object,
  `entrycacher.cpp:163`); `Hidden` is never parsed; the default data path lacks a slash
  (`entryutils.cpp:16`).

## 7. What is not modelled

- Drawing, layout, text, icons, sounds, weather, logind calls, clocks: data transformation
  or one request and its answer, without a state worth exploring.
- The launcher's command handler and the application database of myshell: text matching,
  sorting and SQL statements, sequential between calls.
- Desktop entries: directories that are made after the start (`entrymonitor.cpp:34-43` watches
  those there are).
- A theme file that is missing when a process starts and made later.
- The parsing of desktop files, commands and locales, the fuzzy score, actions of entries.
- The wlr-screencopy context: its `captureFrame` is declared and not defined.
- ToplevelInstances as capture sources (their handle may change), and sizes of views.
- The OpenGL import of buffers, planes and pixels.
- PipeWire: the pro-audio profile, links, three of the four defaults (treated alike).
- Hyprland: renaming, the focused monitor, monitors that come and go, `hyprinputconfig`,
  the parsing of the XKB rule file.
- Generated configuration classes other than the derived sizes, the windows of the control
  panel, the QML of the two shells apart from the lock screen.
- Kernel and library behaviour other than what the code uses: signals of the
  process, partial writes to pipes.
