---------------------------- MODULE MCServices ----------------------------
(***************************************************************************)
(* The models of what the shell does with Hyprland, with PipeWire and with the *)
(* items and menus of the system tray, checked in one run: every behaviour is *)
(* one of one part, the others stay as they start.                         *)
(***************************************************************************)
EXTENDS MCKeyboard, Toplevels, HyprSpaces, PipeWire, PipeVolume, DBusMenu, TrayItem

VARIABLE part

\* Of the keyboard and PipeWire, which can start in several states, the other parts see
\* one.
MCInit ==
  /\ TopInit /\ SpaceInit /\ KeyInit /\ PipeInit /\ VolInit /\ MenuInit /\ ItemInit
  /\ part \in {"toplevels", "spaces", "keyboard", "pipewire", "volume", "menu", "item"}
  /\ part # "keyboard" => compLayouts = <<US>> /\ lua = <<>>
  /\ part # "pipewire" => daemon /\ socketDir = "there"

Only(p) ==
  /\ part = p /\ UNCHANGED part
  /\ IF p = "toplevels" THEN TRUE ELSE UNCHANGED topVars
  /\ IF p = "spaces" THEN TRUE ELSE UNCHANGED spaceVars
  /\ IF p = "keyboard" THEN TRUE ELSE UNCHANGED keyVars
  /\ IF p = "pipewire" THEN TRUE ELSE UNCHANGED pipeVars
  /\ IF p = "volume" THEN TRUE ELSE UNCHANGED volVars
  /\ IF p = "menu" THEN TRUE ELSE UNCHANGED menuVars
  /\ IF p = "item" THEN TRUE ELSE UNCHANGED itemVars

\* Bound: the last of the steps is for windows without an address left in their memory.
FewLeft == topSteps = MaxTopSteps => \A w \in Windows : leftover[w] = NoWindow

MCNext ==
  \/ Only("toplevels") /\ TopNext /\ FewLeft'
  \/ Only("spaces") /\ SpaceNext
  \/ Only("keyboard") /\ KeyNext
  \/ Only("pipewire") /\ PipeNext
  \/ Only("volume") /\ VolNext
  \/ Only("menu") /\ MenuNext
  \/ Only("item") /\ ItemNext

MCSpec == MCInit /\ [][MCNext]_<<topVars, spaceVars, keyVars, pipeVars, volVars, menuVars,
                                 itemVars, part>>

\* Which nodes are sinks and sources, and what QML tracks
MCClassOf == [n \in NodeNames |-> IF n = "n1" THEN {"sink"} ELSE {"sink", "source"}]
MCTracked == {{}, {"sink"}, {"sink", "source"}}

\* Visual volumes, -1 and 3 out of range; the daemon reports no step.
MCVisuals == {-1, 0, 2, 3}
MCStep == -1

MCSearches == {Windows, {"w1"}}

\* DBusMenu: two entries, one of them with an entry of its own
MCParentOf == (1 :> 0) @@ (2 :> 0) @@ (3 :> 1)

\* TrayItem: no picture, one too small, larger ones first or last
MCPixmapLists == {<<>>, <<1>>, <<3, 2>>, <<1, 3, 2>>}
=============================================================================
