------------------------------ MODULE Keyboard ------------------------------
(***************************************************************************)
(* Keyboard layouts: the compositor's list and active index, HyprExtras    *)
(* with its copies of both (refreshed by hyprctl processes that events     *)
(* start), and KeyboardSettingsBuffer, the list a user edits and applies   *)
(* through input.lua and `hyprctl switchxkblayout`.                        *)
(*                                                                         *)
(* A layout is [name, variant].  Indices count from 0, as in the code.     *)
(***************************************************************************)
EXTENDS Integers, Sequences, SequencesExt, FiniteSets

CONSTANTS Evdev,     \* the layouts of evdev.xml: a set of [name, variants]
          Lists,     \* lists of layouts the compositor may be given from outside
          MaxTouches \* bound: user actions and outside changes

NoVariant == ""
Layout(n, v) == [name |-> n, variant |-> v]

\* traverseXmlNodes leaves nameless layouts and variants out.
XmlLayouts == {[l EXCEPT !.variants = @ \ {NoVariant}] : l \in {l \in Evdev : l.name # ""}}

\* findLayoutMetadata finds a layout by itself or with one of its variants.
Known == UNION {{Layout(l.name, v) : v \in {NoVariant} \cup l.variants} : l \in XmlLayouts}

VARIABLES
  compLayouts,  \* the compositor's layouts
  compActive,   \* and the index of the active one
  lua,          \* input.lua, as Compiled makes it: <<>> when there is no such file
  reload,       \* the compositor has to read a new input.lua
  layouts,      \* HyprInputConfig::m_layouts
  index,        \* HyprExtras::m_kbLayoutIndex
  devQuery,     \* `hyprctl devices`: "off", "asked", or "read" (it has looked, not ended)
  devSeen,      \* the index it saw
  cooldown,     \* m_lookupCooldownTimer runs
  cfgQuery,     \* `hyprctl getoption`, its debounce timer included
  cfgSeen,      \* the layouts it saw
  switching,    \* index of a `hyprctl switchxkblayout` that runs, or -1
  buffer,       \* KeyboardSettingsBuffer::m_layouts
  selected,     \* m_selectedId
  dirtyIdx, dirtyLayouts,
  missedChange, \* history: a change found its query running or on cooldown, or was not saved
  touches       \* counts, for MaxTouches

compVars == <<compLayouts, compActive, lua, reload>>
queryVars == <<devQuery, devSeen, cooldown, cfgQuery, cfgSeen>>
bufferVars == <<buffer, selected, dirtyIdx, dirtyLayouts>>
keyVars == <<compVars, layouts, index, queryVars, switching, bufferVars, missedChange, touches>>

\* compileCommandFileString: kb_layout and kb_variant, which is left empty when no layout has
\* a variant.  (Its flag is not initialised: a list of empty variants means the same.)
Compiled(list) ==
  <<[i \in DOMAIN list |-> list[i].name],
    IF \A i \in DOMAIN list : list[i].variant = NoVariant
      THEN <<>> ELSE [i \in DOMAIN list |-> list[i].variant]>>

Configured(file) ==
  [i \in DOMAIN file[1] |-> Layout(file[1][i], IF file[2] = <<>> THEN NoVariant ELSE file[2][i])]

KeyInit ==
  /\ compLayouts \in Lists /\ compActive = 0
  /\ lua \in {<<>>, Compiled(compLayouts)}
  /\ reload = FALSE
  /\ layouts = <<>> /\ index = 0
  /\ devQuery = "off" /\ devSeen = 0 /\ cooldown = FALSE
  /\ cfgQuery = "asked" /\ cfgSeen = <<>>     \* initConfigParse
  /\ switching = -1
  /\ buffer = <<>> /\ selected = 0 /\ dirtyIdx = FALSE /\ dirtyLayouts = FALSE
  /\ missedChange = FALSE
  /\ touches = 0

-----------------------------------------------------------------------------
\* refetchLayouts: the buffer takes the list, unless it has as many layouts and one of
\* the first is different: the comparison is written the other way round, and compares
\* names with variants.  Either way nothing is dirty any more.
Refetch(list, idx) ==
  /\ dirtyIdx' = FALSE /\ dirtyLayouts' = FALSE
  /\ IF /\ Len(list) = Len(buffer)
        /\ \E i \in 1 .. Len(list) - 1 :
             buffer[i].variant # list[i].name \/ buffer[i].variant # list[i].variant
       THEN UNCHANGED <<buffer, selected>>
       ELSE buffer' = list /\ selected' = idx

\* queryCurrentDevices and queryHyprInputConfigs, which a running process turns away.
AskDevices ==
  IF cooldown \/ devQuery # "off" THEN UNCHANGED devQuery ELSE devQuery' = "asked"
DevicesMissed == cooldown \/ devQuery = "read"
AskConfig ==
  cfgQuery' = IF cfgQuery = "off" THEN "asked" ELSE cfgQuery

\* keyboardLayoutChanged: HyprExtras asks, the buffer refetches.
LayoutSwitched(i) ==
  /\ compActive' = i
  /\ AskDevices
  /\ Refetch(layouts, index)
  /\ missedChange' = (missedChange \/ DevicesMissed)
  /\ UNCHANGED <<devSeen, cooldown, cfgQuery, cfgSeen, layouts, index>>

UserSwitches(i) ==
  /\ touches < MaxTouches /\ i < Len(compLayouts) /\ i # compActive
  /\ touches' = touches + 1
  /\ LayoutSwitched(i)
  /\ UNCHANGED <<compLayouts, lua, reload, switching>>

\* The compositor reads a new configuration: configReloaded and, for the first layout
\* becomes active, keyboardLayoutChanged.
Reloaded(list) ==
  /\ compLayouts' = list /\ compActive' = 0
  /\ AskConfig /\ AskDevices
  /\ Refetch(layouts, index)
  /\ missedChange' = (missedChange \/ DevicesMissed \/ cfgQuery = "read")
  /\ UNCHANGED <<devSeen, cooldown, cfgSeen, layouts, index, switching>>

ReloadsInputLua == /\ reload /\ reload' = FALSE /\ Reloaded(Configured(lua))
                   /\ UNCHANGED <<lua, touches>>

UserConfigures(list) ==
  /\ touches < MaxTouches /\ ~reload /\ list # compLayouts
  /\ touches' = touches + 1
  /\ Reloaded(list)
  /\ UNCHANGED <<lua, reload>>

-----------------------------------------------------------------------------
DevicesRead ==
  /\ devQuery = "asked" /\ devQuery' = "read" /\ devSeen' = compActive
  /\ UNCHANGED <<compVars, layouts, index, cooldown, cfgQuery, cfgSeen, switching, bufferVars,
                 missedChange, touches>>

\* Mutant: the buffer's selection takes the index, the shell's own copy does not.
DevicesFinishedKeepsIndex ==
  /\ devQuery = "read" /\ devQuery' = "off" /\ cooldown' = TRUE
  /\ IF devSeen # index
       THEN selected' = devSeen /\ dirtyIdx' = FALSE
       ELSE UNCHANGED <<selected, dirtyIdx>>
  /\ UNCHANGED <<compVars, layouts, index, devSeen, cfgQuery, cfgSeen, switching, buffer, dirtyLayouts,
                 missedChange, touches>>

\* parseProcessData; kbdLayoutIndexChanged resets the buffer's selection.
DevicesFinished ==
  /\ devQuery = "read" /\ devQuery' = "off" /\ cooldown' = TRUE
  /\ index' = devSeen
  /\ IF devSeen # index
       THEN selected' = devSeen /\ dirtyIdx' = FALSE
       ELSE UNCHANGED <<selected, dirtyIdx>>
  /\ UNCHANGED <<compVars, layouts, devSeen, cfgQuery, cfgSeen, switching, buffer, dirtyLayouts,
                 missedChange, touches>>

CooldownEnds ==
  /\ cooldown /\ cooldown' = FALSE
  /\ UNCHANGED <<compVars, layouts, index, devQuery, devSeen, cfgQuery, cfgSeen, switching,
                 bufferVars, missedChange, touches>>

ConfigRead ==
  /\ cfgQuery = "asked" /\ cfgQuery' = "read" /\ cfgSeen' = compLayouts
  /\ UNCHANGED <<compVars, layouts, index, devQuery, devSeen, cooldown, switching, bufferVars,
                 missedChange, touches>>

\* setLayouts(layouts, variants) compares the names as sets.
SetLayoutNames(list) ==
  IF Len(list) # Len(layouts) \/ \E l \in ToSet(list) : \A m \in ToSet(layouts) : m.name # l.name
    THEN layouts' = list /\ Refetch(list, index)
    ELSE UNCHANGED <<layouts, bufferVars>>

\* parseHyprInputConfigs looks for "input.kb_variants", which nobody sends: all variants are lost.
ConfigFinished ==
  /\ cfgQuery = "read" /\ cfgQuery' = "off"
  /\ SetLayoutNames([i \in DOMAIN cfgSeen |-> Layout(cfgSeen[i].name, NoVariant)])
  /\ UNCHANGED <<compVars, index, devQuery, devSeen, cooldown, cfgSeen, switching, missedChange, touches>>

\* The process of hyprctl(): the compositor ignores an index it does not have.
SwitchFinished ==
  /\ switching >= 0 /\ switching' = -1
  /\ IF switching < Len(compLayouts) /\ switching # compActive
       THEN LayoutSwitched(switching)
       ELSE UNCHANGED <<compActive, layouts, index, queryVars, bufferVars, missedChange>>
  /\ UNCHANGED <<compLayouts, lua, reload, touches>>

-----------------------------------------------------------------------------
(* The settings page. *)
Clamped(i, n) == IF i < 0 THEN 0 ELSE IF i > n - 1 THEN n - 1 ELSE i

Edit(list, sel, newSel) ==
  /\ touches < MaxTouches /\ touches' = touches + 1
  /\ buffer' = list /\ dirtyLayouts' = TRUE
  /\ selected' = sel
  /\ dirtyIdx' = (dirtyIdx \/ newSel)
  /\ UNCHANGED <<compVars, layouts, index, queryVars, switching, missedChange>>

AddLayout(l) ==
  /\ l \in Known \ ToSet(buffer)
  /\ Edit(Append(buffer, l), selected, FALSE)

\* removeLayout and removeLayoutAtIndex: the selection moves only when it falls off the end.
RemoveLayout(i) ==
  /\ Len(buffer) > 1 /\ i < Len(buffer)
  /\ Edit(RemoveAt(buffer, i + 1), Clamped(selected, Len(buffer) - 1), selected > Len(buffer) - 2)

SwapItems(i, j) ==
  /\ i # j /\ i < Len(buffer) /\ j < Len(buffer)
  /\ Edit([buffer EXCEPT ![i + 1] = buffer[j + 1], ![j + 1] = buffer[i + 1]],
          IF selected = i THEN j ELSE IF selected = j THEN i ELSE selected, TRUE)

SetSelectedId(i) ==
  /\ touches < MaxTouches /\ touches' = touches + 1
  /\ Clamped(i, Len(buffer)) # selected
  /\ selected' = Clamped(i, Len(buffer)) /\ dirtyIdx' = TRUE
  /\ UNCHANGED <<compVars, layouts, index, queryVars, switching, buffer, dirtyLayouts, missedChange>>

ResetForm ==
  /\ Refetch(layouts, index)
  /\ UNCHANGED <<compVars, layouts, index, queryVars, switching, missedChange, touches>>

\* setLayouts(list): a permutation is no change, and unknown layouts are left out.
SetLayouts(list) == SelectSeq(list, LAMBDA l : l \in Known)
IsDifferent(list) == Len(list) # Len(layouts) \/ ~(ToSet(layouts) \subseteq ToSet(list))

\* saveInputConfig: the canonical path of a file that does not exist is empty.
SaveInputConfig(list) ==
  /\ IF lua # <<>> THEN lua' = Compiled(list) /\ reload' = TRUE ELSE UNCHANGED <<lua, reload>>
  /\ missedChange' = (missedChange \/ lua = <<>>)

\* hyprctl: a process that still runs keeps the next command from being sent.
Switches(i) == switching' = IF switching < 0 THEN i ELSE switching

ChangeSettings ==
  LET changed == dirtyLayouts /\ IsDifferent(buffer)
      list == IF changed THEN SetLayouts(buffer) ELSE layouts
      i == Clamped(selected, Len(list)) IN
  /\ layouts' = list
  /\ IF changed THEN Refetch(list, index) /\ SaveInputConfig(list)
                ELSE UNCHANGED <<bufferVars, lua, reload, missedChange>>
  /\ IF dirtyIdx /\ (dirtyLayouts \/ index # i) THEN Switches(i) ELSE UNCHANGED switching

\* applyChanges; changeSettings turns a list away that has one layout.
Apply ==
  /\ dirtyIdx \/ dirtyLayouts
  /\ IF dirtyLayouts /\ Len(buffer) <= 1
       THEN UNCHANGED <<lua, reload, layouts, switching, bufferVars, missedChange>>
       ELSE ChangeSettings
  /\ UNCHANGED <<compLayouts, compActive, index, queryVars, touches>>

KeyNext ==
  \/ ReloadsInputLua \/ DevicesRead \/ DevicesFinished \/ CooldownEnds
  \/ ConfigRead \/ ConfigFinished \/ SwitchFinished \/ ResetForm \/ Apply
  \/ \E i \in 0 .. 2 : UserSwitches(i) \/ RemoveLayout(i) \/ SetSelectedId(i)
  \/ \E list \in Lists : UserConfigures(list)
  \/ \E l \in Known : AddLayout(l)
  \/ \E i, j \in 0 .. 2 : SwapItems(i, j)

KeySpec == KeyInit /\ [][KeyNext]_keyVars

-----------------------------------------------------------------------------
\* When nothing is under way and no change slipped past a query, the shell's index is the
\* compositor's and it knows a layout of every name the compositor has, whatever order
\* reloads, switches, queries and applied settings came in.
KeyboardAgrees ==
  (devQuery = "off" /\ cfgQuery = "off" /\ switching < 0 /\ ~reload /\ ~missedChange) =>
    /\ index = compActive
    /\ \A l \in ToSet(compLayouts) : \E m \in ToSet(layouts) : m.name = l.name
=============================================================================
