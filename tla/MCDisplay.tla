---------------------------- MODULE MCDisplay -----------------------------
(***************************************************************************)
(* The models of what the shell does with the windows of the compositor,   *)
(* with notifications and with its files, checked in one run: every        *)
(* behaviour is one of one part, the others stay as they start.            *)
(***************************************************************************)
EXTENDS MCWlBuffers, SessionLock, LockWindow, InputInhibit, Notifications, Wallpaper,
        Colors, ConfigForm, StateFiles

VARIABLE part

MCVars == <<vars, lockWinVars, bufVars, inhibitVars, noteVars, wallVars, colourVars,
            formVars, stateVars, part>>

\* Of the parts that can start in several states, the others start in one.
MCInit ==
  /\ Init /\ LockWinInit /\ BufInit /\ InhibitInit
  /\ NoteInit /\ WallInit /\ ColourInit /\ FormInit /\ StateInit
  /\ part \in {"lock", "windows", "buffers", "inhibit", "notes", "wallpaper", "colours",
               "form", "state"}
  /\ part # "lock" => ~target /\ ~locking /\ ~awaiting /\ screens = Screens /\ supported
  /\ part # "windows" => bufsReady
  /\ part # "notes" => noteOwner = "none"
  /\ part # "wallpaper" => wallFile = NoWallFile
  /\ part # "state" => userdata = NoFile

Only(p) ==
  /\ part = p /\ UNCHANGED part
  /\ IF p = "lock" THEN TRUE ELSE UNCHANGED vars
  /\ IF p = "windows" THEN TRUE ELSE UNCHANGED lockWinVars
  /\ IF p = "buffers" THEN TRUE ELSE UNCHANGED bufVars
  /\ IF p = "inhibit" THEN TRUE ELSE UNCHANGED inhibitVars
  /\ IF p = "notes" THEN TRUE ELSE UNCHANGED noteVars
  /\ IF p = "wallpaper" THEN TRUE ELSE UNCHANGED wallVars
  /\ IF p = "colours" THEN TRUE ELSE UNCHANGED colourVars
  /\ IF p = "form" THEN TRUE ELSE UNCHANGED formVars
  /\ IF p = "state" THEN TRUE ELSE UNCHANGED stateVars

MCNext ==
  \/ Only("lock") /\ Next
  \/ Only("windows") /\ LockWinNext
  \/ Only("buffers") /\ BufNext
  \/ Only("inhibit") /\ InhibitNext
  \/ Only("notes") /\ NoteNext
  \/ Only("wallpaper") /\ WallNext
  \/ Only("colours") /\ ColourNext
  \/ Only("form") /\ FormNext
  \/ Only("state") /\ StateNext

MCSpec == MCInit /\ [][MCNext]_MCVars

\* Notifications: no action, and a list in another order than its set
MCActionLists == {<<>>, <<"b", "a", "c">>}

\* Wallpaper: pictures on the disk and allowed, missing, and not allowed
Entry(pic, timed) == [pic |-> pic, timed |-> timed]
MCWallLists ==
  {<<>>, <<Entry("a", TRUE)>>, <<Entry("a", TRUE), Entry("b", TRUE)>>,
   <<Entry("b", FALSE), Entry("x", TRUE), Entry("a", TRUE), Entry("c", FALSE)>>}

\* Colors: a name longer and one shorter than "default"
MCLength == [n \in Names |-> CASE n = "t1" -> 2 [] n = "t2" -> 9 [] OTHER -> 7]

\* ConfigForm: a field with a validator in C++ and one with a validator in JS
MCValidator == [f \in Fields |->
  CASE f = "font" -> "cpp" [] f = "apps" -> "js" [] OTHER -> "none"]

\* StateFiles: no file, one that cannot be parsed, favourites with an empty id and one twice
MCUserFiles == {NoFile, Bad, <<"b", "", "b", "a">>}
=============================================================================
