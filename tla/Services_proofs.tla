-------------------------- MODULE Services_proofs --------------------------
(***************************************************************************)
(* Theorems about what the shell keeps of other programs: the keyboard     *)
(* layouts of the compositor, the properties and the picture of a tray      *)
(* item, the menu of an application, and the workspaces and monitors of     *)
(* Hyprland.                                                                *)
(***************************************************************************)
EXTENDS Keyboard, TrayItem, DBusMenu, HyprSpaces, Induction, SequenceTheorems, FiniteSetTheorems,
        TLAPS

-----------------------------------------------------------------------------
(* The keyboard.  Unless a change was missed, whatever makes a copy wrong  *)
(* has also started the query that will put it right, and that query has   *)
(* not looked yet or saw the change.                                       *)

\* Every name of the first list is one of the second.
NamesIn(list, others) == \A l \in ToSet(list) : \E m \in ToSet(others) : m.name = l.name

KeyInv ==
  ~missedChange => /\ devQuery = "off" => index = compActive
                   /\ devQuery = "read" => devSeen = compActive
                   /\ cfgQuery = "off" /\ ~reload => NamesIn(compLayouts, layouts)
                   /\ cfgQuery = "read" => cfgSeen = compLayouts

\* setLayouts leaves a list that has the names it was given.
LEMMA NamesTaken ==
  ASSUME SetLayoutNames([i \in DOMAIN cfgSeen |-> Layout(cfgSeen[i].name, NoVariant)])
  PROVE  NamesIn(cfgSeen, layouts')
<1> DEFINE list == [i \in DOMAIN cfgSeen |-> Layout(cfgSeen[i].name, NoVariant)]
<1>1. ASSUME NEW l \in ToSet(cfgSeen) PROVE \E k \in ToSet(list) : k.name = l.name
  BY DEF ToSet, Layout
<1> HIDE DEF list
<1>2. CASE layouts' = list
  BY <1>1, <1>2 DEF NamesIn
<1>3. CASE layouts' = layouts /\ \A l \in ToSet(list) : \E m \in ToSet(layouts) : m.name = l.name
  <2> SUFFICES ASSUME NEW l \in ToSet(cfgSeen) PROVE \E m \in ToSet(layouts) : m.name = l.name
    BY <1>3 DEF NamesIn
  <2>1. PICK k \in ToSet(list) : k.name = l.name
    BY <1>1
  <2> QED BY <1>3, <2>1
<1> QED BY <1>2, <1>3 DEF SetLayoutNames, list

\* A switched layout makes the shell ask for the index.
LEMMA SwitchAsks ==
  ASSUME KeyInv, NEW i, LayoutSwitched(i), UNCHANGED <<compLayouts, reload>>
  PROVE  KeyInv'
BY DEF KeyInv, LayoutSwitched, AskDevices, DevicesMissed

\* A new configuration makes it ask for both.
LEMMA ReloadAsks ==
  ASSUME NEW list, Reloaded(list)
  PROVE  KeyInv'
BY DEF KeyInv, Reloaded, AskDevices, AskConfig, DevicesMissed

LEMMA KeyStep == KeyInv /\ [KeyNext]_keyVars => KeyInv'
<1> SUFFICES ASSUME KeyInv, [KeyNext]_keyVars PROVE KeyInv'
  OBVIOUS
<1>1. CASE ReloadsInputLua
  BY <1>1, ReloadAsks DEF ReloadsInputLua
<1>2. CASE DevicesRead
  BY <1>2 DEF DevicesRead, KeyInv, compVars
<1>3. CASE DevicesFinished
  BY <1>3 DEF DevicesFinished, KeyInv, compVars
<1>4. CASE CooldownEnds
  BY <1>4 DEF CooldownEnds, KeyInv, compVars
<1>5. CASE ConfigRead
  BY <1>5 DEF ConfigRead, KeyInv, compVars
<1>6. CASE ConfigFinished
  <2>1. NamesIn(cfgSeen, layouts')
    BY <1>6, NamesTaken DEF ConfigFinished
  <2> QED BY <1>6, <2>1 DEF ConfigFinished, KeyInv, compVars
<1>7. CASE SwitchFinished
  <2>1. CASE LayoutSwitched(switching)
    BY <1>7, <2>1, SwitchAsks DEF SwitchFinished
  <2>2. CASE UNCHANGED <<compActive, layouts, index, queryVars, bufferVars, missedChange>>
    BY <1>7, <2>2 DEF SwitchFinished, KeyInv, queryVars
  <2> QED BY <1>7, <2>1, <2>2 DEF SwitchFinished
<1>8. CASE ResetForm
  BY <1>8 DEF ResetForm, KeyInv, compVars, queryVars
<1>9. CASE Apply
  <2>1. UNCHANGED <<compLayouts, compActive, index, queryVars>>
    BY <1>9 DEF Apply
  <2>2. CASE UNCHANGED <<reload, layouts, missedChange>>
    BY <2>1, <2>2 DEF KeyInv, queryVars
  <2>3. CASE ChangeSettings
    <3>1. CASE dirtyLayouts /\ IsDifferent(buffer)
      <4>1. SaveInputConfig(SetLayouts(buffer))
        BY <2>3, <3>1 DEF ChangeSettings
      <4> QED BY <2>1, <4>1 DEF SaveInputConfig, KeyInv, queryVars
    <3>2. CASE ~(dirtyLayouts /\ IsDifferent(buffer))
      <4>1. UNCHANGED <<reload, layouts, missedChange>>
        BY <2>3, <3>2 DEF ChangeSettings
      <4> QED BY <2>2, <4>1
    <3> QED BY <3>1, <3>2
  <2> QED BY <1>9, <2>2, <2>3 DEF Apply
<1>10. CASE \E i \in 0 .. 2 : UserSwitches(i) \/ RemoveLayout(i) \/ SetSelectedId(i)
  <2>1. ASSUME NEW i, UserSwitches(i) PROVE KeyInv'
    BY <2>1, SwitchAsks DEF UserSwitches
  <2>2. ASSUME NEW i, RemoveLayout(i) PROVE KeyInv'
    BY <2>2 DEF RemoveLayout, Edit, KeyInv, compVars, queryVars
  <2>3. ASSUME NEW i, SetSelectedId(i) PROVE KeyInv'
    BY <2>3 DEF SetSelectedId, KeyInv, compVars, queryVars
  <2> QED BY <1>10, <2>1, <2>2, <2>3
<1>11. CASE \E list \in Lists : UserConfigures(list)
  BY <1>11, ReloadAsks DEF UserConfigures
<1>12. CASE \E l \in Known : AddLayout(l)
  BY <1>12 DEF AddLayout, Edit, KeyInv, compVars, queryVars
<1>13. CASE \E i, j \in 0 .. 2 : SwapItems(i, j)
  BY <1>13 DEF SwapItems, Edit, KeyInv, compVars, queryVars
<1>14. CASE UNCHANGED keyVars
  BY <1>14 DEF keyVars, compVars, queryVars, KeyInv
<1> QED BY <1>1, <1>2, <1>3, <1>4, <1>5, <1>6, <1>7, <1>8, <1>9, <1>10, <1>11, <1>12, <1>13, <1>14
        DEF KeyNext

\* Whatever the lists of layouts are and however switches, reloads, queries and applied
\* settings cross: once nothing is under way and no change slipped past a query
\* (HyprExtras), the shell has the compositor's index and a layout of every name.
THEOREM KeyboardAlwaysAgrees == KeySpec => []KeyboardAgrees
<1>1. KeyInit => KeyInv
  BY DEF KeyInit, KeyInv
<1>2. KeyInv => KeyboardAgrees
  BY DEF KeyInv, KeyboardAgrees, NamesIn
<1> QED BY <1>1, <1>2, KeyStep, PTL DEF KeySpec

-----------------------------------------------------------------------------
(* An item of the tray: what it shows is what the application has, or      *)
(* something that will tell it so is on its way.                           *)

Signals == {"NewTitle", "NewToolTip", "NewIcon"}
ItemMessages == [kind : Signals] \cup [kind : {"NewStatus"}, status : Statuses]
                  \cup [kind : {"reply"}, key : {"title", "tip"}, fails : BOOLEAN, value : {0, 1}]

\* What makes the item look at, or tells it, the property.
About(key) ==
  CASE key = "status" -> {m \in ItemMessages : m.kind = "NewStatus"}
    [] key = "title" -> {m \in ItemMessages : m.kind = "NewTitle" \/ (m.kind = "reply" /\ m.key = key)}
    [] key = "tip" -> {m \in ItemMessages : m.kind = "NewToolTip" \/ (m.kind = "reply" /\ m.key = key)}
    [] OTHER -> {m \in ItemMessages : m.kind = "NewIcon"}

\* What tells it a value that the application no longer has.
Wrong(key, offered) ==
  {m \in ItemMessages : \/ m.kind = "reply" /\ m.key = key /\ ~m.fails /\ m.value # offered
                        \/ m.kind = "NewStatus" /\ key = "status" /\ m.status # offered}

ItemTypes ==
  /\ shown \in Values /\ itemOffered \in Values
  /\ reads \in Seq({"title", "tip"})
  /\ itemInbox \in Seq(ItemMessages)
  /\ names = {} \/ \E n \in IconNames : names = {n}
  /\ pixmapIndex \in Nat

\* A property that is told: title, tooltip and status.
ToldOK(key) ==
  \/ key \in ToSet(reads)
  \/ /\ Mended(itemInbox, Wrong(key, itemOffered[key]), About(key))
     /\ key \in stale \/ shown[key] = itemOffered[key] \/ Holds(itemInbox, About(key))

\* Names and pixmaps are read when the signal is taken.
NamesOK ==
  \/ Holds(itemInbox, About("names"))
  \/ "names" \in stale
  \/ IF names = {} THEN shown.names = itemOffered.names ELSE names = {itemOffered.names}

PixmapsOK ==
  Holds(itemInbox, About("names")) \/ "pixmaps" \in stale \/ names # {} \/ shown.pixmaps = itemOffered.pixmaps

ItemInv == /\ ItemTypes /\ NamesOK /\ PixmapsOK
           /\ ToldOK("title") /\ ToldOK("tip") /\ ToldOK("status")

LEMMA InitItemInv == ItemInit => ItemInv
<1> SUFFICES ASSUME ItemInit PROVE ItemInv
  OBVIOUS
<1>1. itemOffered \in Values /\ shown \in Values /\ shown = [itemOffered EXCEPT !.tip = 1]
  BY PixmapAssumption DEF ItemInit, Values, IconNames, Pixmaps, Statuses, NoNames, NoPixmaps
<1>2. reads = <<"tip">> /\ itemInbox = <<>> /\ names = {} /\ pixmapIndex = 0
  BY DEF ItemInit
<1>3. reads \in Seq({"title", "tip"}) /\ "tip" \in ToSet(reads)
  BY <1>2 DEF ToSet
<1>4. ItemTypes
  BY <1>1, <1>2, <1>3, EmptySeq DEF ItemTypes
<1>5. /\ shown.names = itemOffered.names /\ shown.pixmaps = itemOffered.pixmaps
      /\ shown["title"] = itemOffered["title"] /\ shown["status"] = itemOffered["status"]
  BY <1>1 DEF Values
<1>6. \A A, B : Mended(itemInbox, A, B)
  BY <1>2, EmptySeq DEF Mended
<1> QED BY <1>2, <1>3, <1>4, <1>5, <1>6 DEF ItemInv, NamesOK, PixmapsOK, ToldOK

Told == {"title", "tip", "status"}

\* A message at the end of the inbox, which is right.
LEMMA PutTells ==
  ASSUME ItemTypes, NEW key \in Told, ToldOK(key),
         NEW m \in ItemMessages, itemInbox' = Append(itemInbox, m),
         shown' = shown, stale' = stale, m \notin Wrong(key, itemOffered'[key]),
         \/ m \in About(key)
         \/ /\ itemOffered'[key] = itemOffered[key]
            /\ key \in ToSet(reads) => key \in ToSet(reads')
  PROVE  ToldOK(key)'
<1> DEFINE W == Wrong(key, itemOffered'[key])
           B == About(key)
<1>0. itemInbox \in Seq(ItemMessages)
  BY DEF ItemTypes
<1>1. CASE m \in B
  <2>1. Holds(itemInbox', B) /\ Mended(itemInbox', W, B)
    BY <1>0, <1>1, PutOne
  <2> QED BY <2>1 DEF ToldOK
<1>2. CASE itemOffered'[key] = itemOffered[key] /\ key \notin ToSet(reads)
  <2>1. Mended(itemInbox, W, B)
    BY <1>2 DEF ToldOK
  <2>2. Mended(itemInbox', W, B) /\ (Holds(itemInbox, B) => Holds(itemInbox', B))
    BY <1>0, <2>1, PutOne
  <2>3. key \in stale \/ shown[key] = itemOffered[key] \/ Holds(itemInbox, B)
    BY <1>2 DEF ToldOK
  <2> QED BY <1>2, <2>2, <2>3 DEF ToldOK
<1>3. CASE key \in ToSet(reads')
  BY <1>3 DEF ToldOK
<1> QED BY <1>1, <1>2, <1>3

\* The head of the inbox is taken: it is about something else, or it is followed by a read,
\* or by its failure, or it tells the value, which is right if nothing more is to come.
LEMMA TakeTells ==
  ASSUME ItemTypes, NEW key \in Told, ToldOK(key),
         itemInbox # <<>>, itemInbox' = Tail(itemInbox), itemOffered' = itemOffered,
         key \in ToSet(reads) => key \in ToSet(reads'),
         \/ /\ Head(itemInbox) \notin About(key)
            /\ shown'[key] = shown[key] /\ (key \in stale => key \in stale')
         \/ key \in ToSet(reads')
         \/ key \in stale'
         \/ shown'[key] # itemOffered[key] => Head(itemInbox) \in Wrong(key, itemOffered[key])
  PROVE  ToldOK(key)'
<1> DEFINE W == Wrong(key, itemOffered[key])
           B == About(key)
<1> SUFFICES ASSUME key \notin ToSet(reads') PROVE ToldOK(key)'
  BY DEF ToldOK
<1>0. itemInbox \in Seq(ItemMessages)
  BY DEF ItemTypes
<1>1. Mended(itemInbox, W, B) /\ (key \in stale \/ shown[key] = itemOffered[key] \/ Holds(itemInbox, B))
  BY DEF ToldOK
<1>2. /\ Mended(itemInbox', W, B)
      /\ Head(itemInbox) \in W => Holds(itemInbox', B)
      /\ Holds(itemInbox, B) /\ Head(itemInbox) \notin B => Holds(itemInbox', B)
  BY <1>0, <1>1, TakeOne
<1>3. key \in stale' \/ shown'[key] = itemOffered[key] \/ Holds(itemInbox', B)
  BY <1>1, <1>2
<1> QED BY <1>2, <1>3 DEF ToldOK

\* An icon signal at the end of the inbox will make it read names and pixmaps.
LEMMA PutIcons ==
  ASSUME ItemTypes, NamesOK, PixmapsOK,
         NEW m \in ItemMessages, itemInbox' = Append(itemInbox, m),
         UNCHANGED <<shown, stale, names>>,
         \/ m \in About("names")
         \/ itemOffered'.names = itemOffered.names /\ itemOffered'.pixmaps = itemOffered.pixmaps
  PROVE  NamesOK' /\ PixmapsOK'
<1>1. /\ Holds(itemInbox, About("names")) => Holds(itemInbox', About("names"))
      /\ m \in About("names") => Holds(itemInbox', About("names"))
  BY PutOne DEF ItemTypes
<1> QED BY <1>1 DEF NamesOK, PixmapsOK

LEMMA TakeIcons ==
  ASSUME ItemTypes, NamesOK, PixmapsOK, names = {},
         itemInbox # <<>>, itemInbox' = Tail(itemInbox), Head(itemInbox) \notin About("names"),
         itemOffered' = itemOffered, names' = names, stale \ {"title", "tip"} \subseteq stale',
         shown'.names = shown.names /\ shown'.pixmaps = shown.pixmaps
  PROVE  NamesOK' /\ PixmapsOK'
<1>1. Holds(itemInbox, About("names")) => Holds(itemInbox', About("names"))
  BY TakeOne DEF ItemTypes
<1> QED BY <1>1 DEF NamesOK, PixmapsOK

\* Which messages are about which property.
LEMMA AboutKinds ==
  ASSUME NEW m \in ItemMessages
  PROVE  /\ m \in About("title") <=> m.kind = "NewTitle" \/ (m.kind = "reply" /\ m.key = "title")
         /\ m \in About("tip") <=> m.kind = "NewToolTip" \/ (m.kind = "reply" /\ m.key = "tip")
         /\ m \in About("status") <=> m.kind = "NewStatus"
         /\ m \in About("names") <=> m.kind = "NewIcon"
BY DEF About

LEMMA WrongKinds ==
  ASSUME NEW m \in ItemMessages, NEW key, NEW v
  PROVE  m \in Wrong(key, v) <=> \/ m.kind = "reply" /\ m.key = key /\ ~m.fails /\ m.value # v
                                 \/ m.kind = "NewStatus" /\ key = "status" /\ m.status # v
BY DEF Wrong

\* A change, with the signal of the property that changed.
LEMMA ChangeKeeps ==
  ASSUME ItemInv, NEW new \in Values, NEW m \in ItemMessages, AppChanges(new, m),
         m.kind # "reply", m.kind = "NewStatus" => m.status = new.status,
         m.kind # "NewTitle" => new.title = itemOffered.title,
         m.kind # "NewToolTip" => new.tip = itemOffered.tip,
         m.kind # "NewStatus" => new.status = itemOffered.status,
         m.kind # "NewIcon" => new.names = itemOffered.names /\ new.pixmaps = itemOffered.pixmaps
  PROVE  ItemInv'
<1>1. /\ ItemTypes /\ NamesOK /\ PixmapsOK /\ ToldOK("title") /\ ToldOK("tip") /\ ToldOK("status")
      /\ itemOffered' = new /\ itemInbox' = Append(itemInbox, m)
      /\ UNCHANGED <<shown, pixmapIndex, reads, names, stale>>
  BY DEF ItemInv, AppChanges
<1>2. ItemTypes'
  BY <1>1, AppendProperties DEF ItemTypes
<1>3. ASSUME NEW key \in Told PROVE m \notin Wrong(key, itemOffered'[key])
  <2>1. m.kind = "NewStatus" => m.status = itemOffered'["status"]
    BY <1>1 DEF Values
  <2> QED BY <2>1, WrongKinds DEF Told
<1>4. ToldOK("title")' /\ ToldOK("tip")' /\ ToldOK("status")'
  <2>1. /\ m \notin About("title") => itemOffered'["title"] = itemOffered["title"]
        /\ m \notin About("tip") => itemOffered'["tip"] = itemOffered["tip"]
        /\ m \notin About("status") => itemOffered'["status"] = itemOffered["status"]
    BY <1>1, AboutKinds
  <2>2. ToldOK("title")'
    BY <1>1, <1>3, <2>1, PutTells DEF Told
  <2>3. ToldOK("tip")'
    BY <1>1, <1>3, <2>1, PutTells DEF Told
  <2>4. ToldOK("status")'
    BY <1>1, <1>3, <2>1, PutTells DEF Told
  <2> QED BY <2>2, <2>3, <2>4
<1>5. NamesOK' /\ PixmapsOK'
  <2>1. m \in About("names") \/ (itemOffered'.names = itemOffered.names /\ itemOffered'.pixmaps = itemOffered.pixmaps)
    BY <1>1, AboutKinds
  <2> QED BY <1>1, <2>1, PutIcons
<1> QED BY <1>2, <1>4, <1>5 DEF ItemInv

LEMMA AppKeeps ==
  ASSUME ItemInv, AppTitles \/ AppTips \/ AppStatus \/ AppIcons
  PROVE  ItemInv'
<1>0. itemOffered \in Values
  BY DEF ItemInv, ItemTypes
<1>1. CASE AppTitles
  <2>1. [itemOffered EXCEPT !.title = 1 - @] \in Values
    BY <1>0 DEF Values
  <2>2. [kind |-> "NewTitle"] \in ItemMessages
    BY DEF ItemMessages, Signals
  <2> QED BY <1>0, <1>1, <2>1, <2>2, ChangeKeeps DEF AppTitles, Values
<1>2. CASE AppTips
  <2>1. [itemOffered EXCEPT !.tip = 1 - @] \in Values
    BY <1>0 DEF Values
  <2>2. [kind |-> "NewToolTip"] \in ItemMessages
    BY DEF ItemMessages, Signals
  <2> QED BY <1>0, <1>2, <2>1, <2>2, ChangeKeeps DEF AppTips, Values
<1>3. CASE AppStatus
  <2>1. PICK s \in Statuses : AppChanges([itemOffered EXCEPT !.status = s], [kind |-> "NewStatus", status |-> s])
    BY <1>3 DEF AppStatus
  <2>2. [itemOffered EXCEPT !.status = s] \in Values
    BY <1>0 DEF Values
  <2>3. [kind |-> "NewStatus", status |-> s] \in ItemMessages
    BY DEF ItemMessages
  <2> QED BY <1>0, <2>1, <2>2, <2>3, ChangeKeeps DEF Values
<1>4. CASE AppIcons
  <2>1. [kind |-> "NewIcon"] \in ItemMessages
    BY DEF ItemMessages, Signals
  <2>2. ASSUME NEW n \in IconNames, AppChanges([itemOffered EXCEPT !.names = n], [kind |-> "NewIcon"])
        PROVE  ItemInv'
    <3>1. [itemOffered EXCEPT !.names = n] \in Values
      BY <1>0 DEF Values
    <3> QED BY <1>0, <2>1, <2>2, <3>1, ChangeKeeps DEF Values
  <2>3. ASSUME NEW key \in DOMAIN NoPixmaps, NEW list \in PixmapLists,
               AppChanges([itemOffered EXCEPT !.pixmaps[key] = list], [kind |-> "NewIcon"])
        PROVE  ItemInv'
    <3>1. [itemOffered.pixmaps EXCEPT ![key] = list] \in Pixmaps
      BY <1>0 DEF Values, Pixmaps, NoPixmaps
    <3>2. [itemOffered EXCEPT !.pixmaps[key] = list] = [itemOffered EXCEPT !.pixmaps = [itemOffered.pixmaps EXCEPT ![key] = list]]
      OBVIOUS
    <3>3. [itemOffered EXCEPT !.pixmaps[key] = list] \in Values
      BY <1>0, <3>1, <3>2 DEF Values
    <3> QED BY <1>0, <2>1, <2>3, <3>3, ChangeKeeps DEF Values
  <2> QED BY <1>4, <2>2, <2>3 DEF AppIcons
<1> QED BY <1>1, <1>2, <1>3, <1>4

LEMMA ReadKeeps ==
  ASSUME ItemInv, NEW fails \in BOOLEAN, AppAnswersRead(fails)
  PROVE  ItemInv'
<1> DEFINE h == Head(reads)
           m == [kind |-> "reply", key |-> h, fails |-> fails, value |-> itemOffered[h]]
<1>1. /\ ItemTypes /\ NamesOK /\ PixmapsOK /\ ToldOK("title") /\ ToldOK("tip") /\ ToldOK("status")
      /\ reads # <<>> /\ reads' = Tail(reads) /\ itemInbox' = Append(itemInbox, m)
      /\ UNCHANGED <<itemOffered, shown, pixmapIndex, names, stale>>
  BY DEF ItemInv, AppAnswersRead
<1>2. h \in {"title", "tip"} /\ reads' \in Seq({"title", "tip"})
  BY <1>1, HeadTailProperties DEF ItemTypes
<1>3. ASSUME NEW k \in ToSet(reads), k # h PROVE k \in ToSet(reads')
  <2>1. PICK n \in DOMAIN reads : reads[n] = k
    BY <1>3 DEF ToSet
  <2>2. /\ Len(reads) \in Nat \ {0} /\ DOMAIN reads = 1 .. Len(reads) /\ DOMAIN reads' = 1 .. (Len(reads) - 1)
        /\ \A l \in 1 .. (Len(reads) - 1) : reads'[l] = reads[l + 1]
        /\ h = reads[1]
    BY <1>1, HeadTailProperties, LenProperties, EmptySeq DEF ItemTypes
  <2>3. n - 1 \in DOMAIN reads' /\ reads'[n - 1] = k
    BY <1>3, <2>1, <2>2
  <2> QED BY <2>3 DEF ToSet
<1>4. itemOffered[h] \in {0, 1}
  BY <1>1, <1>2 DEF ItemTypes, Values
<1>5. m \in ItemMessages
  BY <1>2, <1>4 DEF ItemMessages
<1>6. m.kind = "reply" /\ m.key = h /\ m.value = itemOffered[h]
  OBVIOUS
<1> HIDE DEF m
<1>7. ItemTypes'
  BY <1>1, <1>2, <1>5, AppendProperties DEF ItemTypes
<1>8. ASSUME NEW key \in Told PROVE m \notin Wrong(key, itemOffered'[key])
  BY <1>1, <1>5, <1>6, WrongKinds
<1>9. ToldOK("title")' /\ ToldOK("tip")' /\ ToldOK("status")'
  <2>1. /\ m \in About("title") \/ ("title" \in ToSet(reads) => "title" \in ToSet(reads'))
        /\ m \in About("tip") \/ ("tip" \in ToSet(reads) => "tip" \in ToSet(reads'))
        /\ "status" \in ToSet(reads) => "status" \in ToSet(reads')
    BY <1>2, <1>3, <1>5, <1>6, AboutKinds
  <2>2. ToldOK("title")'
    BY <1>1, <1>5, <1>8, <2>1, PutTells DEF Told
  <2>3. ToldOK("tip")'
    BY <1>1, <1>5, <1>8, <2>1, PutTells DEF Told
  <2>4. ToldOK("status")'
    BY <1>1, <1>5, <1>8, <2>1, PutTells DEF Told
  <2> QED BY <2>2, <2>3, <2>4
<1>10. NamesOK' /\ PixmapsOK'
  BY <1>1, <1>5, PutIcons
<1> QED BY <1>7, <1>9, <1>10 DEF ItemInv

\* A message is taken: only the properties it is about can suffer.
LEMMA TakeKeeps ==
  ASSUME ItemInv, names = {}, itemInbox # <<>>, itemInbox' = Tail(itemInbox), ItemTypes',
         itemOffered' = itemOffered, names' = names, Head(itemInbox).kind # "NewIcon",
         ToSet(reads) \subseteq ToSet(reads'), stale \ {"title", "tip"} \subseteq stale',
         shown'.names = shown.names /\ shown'.pixmaps = shown.pixmaps,
         \A key \in Told : \/ /\ Head(itemInbox) \notin About(key)
                              /\ shown'[key] = shown[key] /\ (key \in stale => key \in stale')
                           \/ key \in ToSet(reads')
                           \/ key \in stale'
                           \/ shown'[key] # itemOffered[key] => Head(itemInbox) \in Wrong(key, itemOffered[key])
  PROVE  ItemInv'
<1>1. /\ ItemTypes /\ NamesOK /\ PixmapsOK /\ ToldOK("title") /\ ToldOK("tip") /\ ToldOK("status")
  BY DEF ItemInv
<1>2. Head(itemInbox) \in ItemMessages
  BY <1>1, HeadTailProperties DEF ItemTypes
<1>3. Head(itemInbox) \notin About("names")
  BY <1>2, AboutKinds
<1>4. NamesOK' /\ PixmapsOK'
  BY <1>1, <1>3, TakeIcons
<1>5. ASSUME NEW key \in Told, ToldOK(key) PROVE ToldOK(key)'
  BY <1>1, <1>5, TakeTells
<1>6. ToldOK("title")' /\ ToldOK("tip")' /\ ToldOK("status")'
  BY <1>1, <1>5 DEF Told
<1> QED BY <1>4, <1>6 DEF ItemInv

LEMMA HeadIs ==
  ASSUME ItemTypes, NEW kind, TakeItem(kind)
  PROVE  /\ names = {} /\ itemInbox # <<>> /\ itemInbox' = Tail(itemInbox)
         /\ Head(itemInbox) \in ItemMessages /\ Head(itemInbox).kind = kind
         /\ itemInbox' \in Seq(ItemMessages)
BY HeadTailProperties DEF ItemTypes, TakeItem

\* NewTitle and NewToolTip: the property is read again.
LEMMA SignalKeeps ==
  ASSUME ItemInv, NEW key \in {"title", "tip"}, NEW kind \in {"NewTitle", "NewToolTip"}, TakeItem(kind),
         (kind = "NewTitle") <=> (key = "title"),
         reads' = Append(reads, key), UNCHANGED <<itemOffered, shown, pixmapIndex, names, stale, itemSteps>>
  PROVE  ItemInv'
<1>1. ItemTypes
  BY DEF ItemInv
<1>2. /\ names = {} /\ itemInbox # <<>> /\ itemInbox' = Tail(itemInbox)
      /\ Head(itemInbox) \in ItemMessages /\ Head(itemInbox).kind = kind
      /\ itemInbox' \in Seq(ItemMessages)
  BY <1>1, HeadIs
<1>3. reads' \in Seq({"title", "tip"}) /\ ToSet(reads) \subseteq ToSet(reads') /\ key \in ToSet(reads')
  BY <1>1, AppendProperties, LenProperties DEF ItemTypes, ToSet
<1>4. ItemTypes'
  BY <1>1, <1>2, <1>3 DEF ItemTypes
<1>5. ASSUME NEW k \in Told PROVE Head(itemInbox) \notin About(k) \/ k \in ToSet(reads')
  BY <1>2, <1>3, AboutKinds DEF Told
<1> QED BY <1>2, <1>3, <1>4, <1>5, TakeKeeps

LEMMA StatusKeeps == ASSUME ItemInv, OnNewStatus PROVE ItemInv'
<1>1. ItemTypes
  BY DEF ItemInv
<1>2. /\ names = {} /\ itemInbox # <<>> /\ itemInbox' = Tail(itemInbox)
      /\ Head(itemInbox) \in ItemMessages /\ Head(itemInbox).kind = "NewStatus"
      /\ itemInbox' \in Seq(ItemMessages)
      /\ shown' = [shown EXCEPT !.status = Head(itemInbox).status]
      /\ UNCHANGED <<itemOffered, pixmapIndex, reads, names, stale, itemSteps>>
  BY <1>1, HeadIs DEF OnNewStatus
<1>3. Head(itemInbox).status \in Statuses
  BY <1>2 DEF ItemMessages, Signals
<1>4. /\ shown' \in Values /\ shown'["status"] = Head(itemInbox).status
      /\ shown'["title"] = shown["title"] /\ shown'["tip"] = shown["tip"]
      /\ shown'.names = shown.names /\ shown'.pixmaps = shown.pixmaps
  BY <1>1, <1>2, <1>3 DEF ItemTypes, Values
<1>5. ItemTypes'
  BY <1>1, <1>2, <1>4 DEF ItemTypes
<1>6. Head(itemInbox) \notin About("title") /\ Head(itemInbox) \notin About("tip")
  BY <1>2, AboutKinds
<1>7. shown'["status"] # itemOffered["status"] => Head(itemInbox) \in Wrong("status", itemOffered["status"])
  BY <1>2, <1>4, WrongKinds
<1>8. ASSUME NEW k \in Told
      PROVE  \/ Head(itemInbox) \notin About(k) /\ shown'[k] = shown[k]
             \/ shown'[k] # itemOffered[k] => Head(itemInbox) \in Wrong(k, itemOffered[k])
  BY <1>4, <1>6, <1>7 DEF Told
<1> QED BY <1>2, <1>4, <1>5, <1>8, TakeKeeps

LEMMA ReplyKeeps == ASSUME ItemInv, OnReply PROVE ItemInv'
<1> DEFINE r == Head(itemInbox)
<1>1. ItemTypes
  BY DEF ItemInv
<1>2. /\ names = {} /\ itemInbox # <<>> /\ itemInbox' = Tail(itemInbox)
      /\ r \in ItemMessages /\ r.kind = "reply"
      /\ itemInbox' \in Seq(ItemMessages)
      /\ UNCHANGED <<itemOffered, pixmapIndex, reads, names, itemSteps>>
  BY <1>1, HeadIs DEF OnReply
<1>3. r.key \in {"title", "tip"} /\ r.value \in {0, 1} /\ r.fails \in BOOLEAN
  BY <1>2 DEF ItemMessages, Signals
<1>4. CASE r.fails
  <2>1. shown' = shown /\ stale' = stale \cup {r.key}
    BY <1>4 DEF OnReply
  <2>2. ItemTypes'
    BY <1>1, <1>2, <2>1 DEF ItemTypes
  <2>3. ASSUME NEW k \in Told PROVE r \notin About(k) \/ k \in stale'
    BY <1>2, <1>3, <2>1, AboutKinds DEF Told
  <2> HIDE DEF r
  <2> QED BY <1>2, <2>1, <2>2, <2>3, TakeKeeps DEF r
<1>5. CASE ~r.fails
  <2>1. shown' = [shown EXCEPT ![r.key] = r.value] /\ stale' = stale \ {r.key}
    BY <1>5 DEF OnReply
  <2>2. /\ shown' \in Values /\ shown'[r.key] = r.value
        /\ \A k \in Told \ {r.key} : shown'[k] = shown[k]
        /\ shown'.names = shown.names /\ shown'.pixmaps = shown.pixmaps
    BY <1>1, <1>3, <2>1 DEF ItemTypes, Values, Told
  <2>3. ItemTypes'
    BY <1>1, <1>2, <2>2 DEF ItemTypes
  <2>4. ASSUME NEW k \in Told, k # r.key PROVE r \notin About(k)
    BY <1>2, <2>4, AboutKinds DEF Told
  <2>5. shown'[r.key] # itemOffered[r.key] => r \in Wrong(r.key, itemOffered[r.key])
    BY <1>2, <1>5, <2>2, WrongKinds
  <2>6. ASSUME NEW k \in Told
        PROVE  \/ r \notin About(k) /\ shown'[k] = shown[k] /\ (k \in stale => k \in stale')
               \/ shown'[k] # itemOffered[k] => r \in Wrong(k, itemOffered[k])
    BY <2>1, <2>2, <2>4, <2>5
  <2>7. stale \ {"title", "tip"} \subseteq stale'
    BY <1>3, <2>1
  <2> QED BY <1>2, <2>2, <2>3, <2>6, <2>7, TakeKeeps
<1> QED BY <1>4, <1>5

LEMMA IconKeeps == ASSUME ItemInv, NEW fails \in BOOLEAN, OnNewIcon(fails) PROVE ItemInv'
<1>1. ItemTypes
  BY DEF ItemInv
<1>2. /\ names = {} /\ itemInbox # <<>> /\ itemInbox' = Tail(itemInbox)
      /\ Head(itemInbox) \in ItemMessages /\ Head(itemInbox).kind = "NewIcon"
      /\ itemInbox' \in Seq(ItemMessages)
      /\ names' = {IF fails THEN NoNames ELSE itemOffered.names}
      /\ stale' = IF fails THEN stale \cup {"names"} ELSE stale \ {"names"}
      /\ UNCHANGED <<itemOffered, shown, pixmapIndex, reads, itemSteps>>
  BY <1>1, HeadIs DEF OnNewIcon
<1>3. itemOffered.names \in IconNames /\ NoNames \in IconNames
  BY <1>1 DEF ItemTypes, Values, IconNames, NoNames
<1>4. ItemTypes'
  <2>1. PICK n \in IconNames : names' = {n}
    BY <1>2, <1>3
  <2> QED BY <1>1, <1>2, <2>1 DEF ItemTypes
<1>5. ToldOK("title") /\ ToldOK("tip") /\ ToldOK("status")
  BY DEF ItemInv
<1>6. Head(itemInbox) \notin About("title") /\ Head(itemInbox) \notin About("tip") /\ Head(itemInbox) \notin About("status")
  BY <1>2, AboutKinds
<1>7. "title" \in stale => "title" \in stale'
  BY <1>2
<1>8. "tip" \in stale => "tip" \in stale'
  BY <1>2
<1>9. "status" \in stale => "status" \in stale'
  BY <1>2
<1>10. ToldOK("title")'
  BY <1>1, <1>2, <1>5, <1>6, <1>7, TakeTells DEF Told
<1>11. ToldOK("tip")'
  BY <1>1, <1>2, <1>5, <1>6, <1>8, TakeTells DEF Told
<1>12. ToldOK("status")'
  BY <1>1, <1>2, <1>5, <1>6, <1>9, TakeTells DEF Told
<1>13. "names" \in stale' \/ (names' # {} /\ names' = {itemOffered'.names})
  BY <1>2
<1>14. NamesOK' /\ PixmapsOK'
  BY <1>2, <1>13 DEF NamesOK, PixmapsOK
<1> QED BY <1>4, <1>10, <1>11, <1>12, <1>14 DEF ItemInv

\* What a read of the pixmaps leaves.
LEMMA PixmapsDo ==
  ASSUME ItemInv, NEW fails \in BOOLEAN, PixmapsRead(fails)
  PROVE  /\ names # {} /\ names' = {}
         /\ \E n \in names : shown'.names = n /\ shown' = [shown EXCEPT !.names = n, !.pixmaps = shown'.pixmaps]
         /\ shown'.pixmaps = IF fails THEN NoPixmaps ELSE itemOffered.pixmaps
         /\ shown' \in Values /\ \A k \in Told : shown'[k] = shown[k]
         /\ stale' = IF fails THEN stale \cup {"pixmaps"} ELSE stale \ {"pixmaps"}
         /\ pixmapIndex' \in Nat /\ (shown'.pixmaps # shown.pixmaps => pixmapIndex' > pixmapIndex)
         /\ UNCHANGED <<itemOffered, reads, itemInbox, itemSteps>>
<1> DEFINE new == IF fails THEN NoPixmaps ELSE itemOffered.pixmaps
           changed == {key \in DOMAIN new : new[key] # shown.pixmaps[key]}
<1>1. /\ shown \in Values /\ itemOffered \in Values /\ pixmapIndex \in Nat
      /\ names # {} /\ \E n \in IconNames : names = {n}
  BY DEF ItemInv, ItemTypes, PixmapsRead
<1>2. NoPixmaps \in Pixmaps
  BY PixmapAssumption DEF NoPixmaps, Pixmaps
<1>3. new \in Pixmaps /\ shown.pixmaps \in Pixmaps
  BY <1>1, <1>2 DEF Values
<1>4. PICK n \in IconNames : names = {n}
  BY <1>1
<1>5. (CHOOSE x \in names : TRUE) = n
  BY <1>4
<1>6. shown' = [shown EXCEPT !.names = n, !.pixmaps = new]
  BY <1>5 DEF PixmapsRead
<1>7. /\ shown' \in Values /\ shown'.names = n /\ shown'.pixmaps = new /\ \A k \in Told : shown'[k] = shown[k]
  BY <1>1, <1>3, <1>6 DEF Values, Told
<1>8. pixmapIndex' = pixmapIndex + Cardinality(changed)
  BY DEF PixmapsRead
<1>9. changed \subseteq {"icon", "attention", "overlay"}
  BY <1>3 DEF Pixmaps
<1>10. IsFiniteSet(changed)
  <2>1. IsFiniteSet({"icon", "attention", "overlay"})
    <3>1. IsFiniteSet(({"icon"} \cup {"attention"}) \cup {"overlay"})
      BY FS_Singleton, FS_AddElement
    <3>2. {"icon", "attention", "overlay"} = ({"icon"} \cup {"attention"}) \cup {"overlay"}
      OBVIOUS
    <3> QED BY <3>1, <3>2
  <2> HIDE DEF changed
  <2> QED BY <1>9, <2>1, FS_Subset
<1>11. Cardinality(changed) \in Nat
  BY <1>10, FS_CardinalityType
<1>12. ASSUME new # shown.pixmaps PROVE Cardinality(changed) # 0
  <2>1. changed # {}
    BY <1>3, <1>12 DEF Pixmaps
  <2> QED BY <1>10, <2>1, FS_EmptySet
<1>13. pixmapIndex' \in Nat /\ (new # shown.pixmaps => pixmapIndex' > pixmapIndex)
  <2> HIDE DEF changed, new
  <2> QED BY <1>1, <1>8, <1>11, <1>12
<1>14. names # {} /\ names' = {} /\ UNCHANGED <<itemOffered, reads, itemInbox, itemSteps>>
       /\ stale' = IF fails THEN stale \cup {"pixmaps"} ELSE stale \ {"pixmaps"}
  BY DEF PixmapsRead
<1>15. shown' = [shown EXCEPT !.names = n, !.pixmaps = shown'.pixmaps]
  BY <1>6, <1>7
<1> HIDE DEF new
<1> QED BY <1>4, <1>7, <1>13, <1>14, <1>15 DEF new

LEMMA PixmapsKeep == ASSUME ItemInv, NEW fails \in BOOLEAN, PixmapsRead(fails) PROVE ItemInv'
<1>1. /\ ItemTypes /\ NamesOK /\ ToldOK("title") /\ ToldOK("tip") /\ ToldOK("status")
  BY DEF ItemInv
<1>2. /\ names # {} /\ names' = {} /\ UNCHANGED <<itemOffered, reads, itemInbox, itemSteps>>
      /\ shown' \in Values /\ pixmapIndex' \in Nat
      /\ shown'.pixmaps = IF fails THEN NoPixmaps ELSE itemOffered.pixmaps
      /\ stale' = IF fails THEN stale \cup {"pixmaps"} ELSE stale \ {"pixmaps"}
  BY PixmapsDo
<1>3. PICK n \in names : shown'.names = n
  BY PixmapsDo
<1>4. ItemTypes'
  BY <1>1, <1>2 DEF ItemTypes
<1>5. "names" \in stale => "names" \in stale'
  BY <1>2
<1>6. NamesOK'
  <2>1. CASE names = {itemOffered.names}
    <3>1. shown'.names = itemOffered'.names /\ names' = {}
      BY <1>2, <1>3, <2>1
    <3> QED BY <3>1 DEF NamesOK
  <2>2. CASE Holds(itemInbox, About("names")) \/ "names" \in stale
    BY <1>2, <1>5, <2>2 DEF NamesOK
  <2> QED BY <1>1, <1>2, <2>1, <2>2 DEF NamesOK
<1>7. PixmapsOK'
  BY <1>2 DEF PixmapsOK
<1>8. ASSUME NEW k \in Told, ToldOK(k) PROVE ToldOK(k)'
  <2>1. shown'[k] = shown[k]
    BY PixmapsDo
  <2>2. k \in stale => k \in stale'
    BY <1>2 DEF Told
  <2> QED BY <1>2, <1>8, <2>1, <2>2 DEF ToldOK
<1>9. ToldOK("title")' /\ ToldOK("tip")' /\ ToldOK("status")'
  BY <1>1, <1>8 DEF Told
<1> QED BY <1>4, <1>6, <1>7, <1>9 DEF ItemInv

LEMMA ItemStep == ItemInv /\ [ItemNext]_itemVars => ItemInv'
<1> SUFFICES ASSUME ItemInv, [ItemNext]_itemVars PROVE ItemInv'
  OBVIOUS
<1>1. CASE AppTitles \/ AppTips \/ AppStatus \/ AppIcons
  BY <1>1, AppKeeps
<1>2. CASE \E fails \in BOOLEAN : AppAnswersRead(fails) \/ OnNewIcon(fails) \/ PixmapsRead(fails)
  BY <1>2, ReadKeeps, IconKeeps, PixmapsKeep
<1>3. CASE OnNewTitle
  BY <1>3, SignalKeeps DEF OnNewTitle
<1>4. CASE OnNewToolTip
  BY <1>4, SignalKeeps DEF OnNewToolTip
<1>5. CASE OnNewStatus
  BY <1>5, StatusKeeps
<1>6. CASE OnReply
  BY <1>6, ReplyKeeps
<1>7. CASE UNCHANGED itemVars
  BY <1>7 DEF itemVars, ItemInv, ItemTypes, NamesOK, PixmapsOK, ToldOK
<1> QED BY <1>1, <1>2, <1>3, <1>4, <1>5, <1>6, <1>7 DEF ItemNext

-----------------------------------------------------------------------------
(* The pixmap that is drawn. *)

\* The best of the first n + 1 sizes.
Serves(list, n, best) ==
  LET sizes == {list[k + 1] : k \in 0 .. n}
      enough == {s \in sizes : s >= Wanted}
  IN  /\ best \in sizes
      /\ best < Wanted => \A s \in sizes : s <= best
      /\ best >= Wanted => \A s \in enough : best <= s

LEMMA ClosestServes ==
  ASSUME NEW list \in Seq(Int), list # <<>>
  PROVE  Serves(list, Len(list) - 1, Closest(list))
<1> DEFINE N == Len(list) - 1
           step == [n \in 1 .. N |-> [b \in Int |-> Better(b, list[n + 1])]]
           Rec(g) == [n \in 0 .. N |-> IF n = 0 THEN list[1] ELSE Better(g[n - 1], list[n + 1])]
<1>1. N \in Nat /\ \A n \in 0 .. N : list[n + 1] \in Int
  BY EmptySeq, LenProperties
<1>2. list[1] \in Int
  BY <1>1
<1>3. ASSUME NEW b \in Int, NEW c \in Int PROVE Better(b, c) \in Int
  BY DEF Better
<1>4. \A n \in 1 .. N : list[n + 1] \in Int /\ n \in 0 .. N /\ n - 1 \in 0 .. N /\ n # 0
  BY <1>1
<1> HIDE DEF N
<1>5. step \in [1 .. N -> [Int -> Int]]
  BY <1>3, <1>4
<1>6. \A n \in 1 .. N, b \in Int : step[n][b] = Better(b, list[n + 1])
  OBVIOUS
<1> HIDE DEF step
<1>7. PICK g \in [0 .. N -> Int] : Recursion(g, N, list[1], step)
  BY <1>1, <1>2, <1>5, RecursionDefines
<1>8. \A n \in 1 .. N : g[n] = Better(g[n - 1], list[n + 1])
  BY <1>4, <1>6, <1>7 DEF Recursion
<1>9. g = Rec(g)
  BY <1>4, <1>7, <1>8 DEF Recursion
<1>10. ClosestSoFar(list) = Rec(ClosestSoFar(list))
  BY <1>9 DEF ClosestSoFar, N
<1> HIDE DEF Rec
<1> DEFINE best == ClosestSoFar(list)
<1>11. \A n \in 0 .. N : best[n] = Rec(best)[n]
  BY <1>10
<1>12. best[0] = list[1] /\ \A n \in 1 .. N : best[n] = Better(best[n - 1], list[n + 1])
  BY <1>1, <1>4, <1>11 DEF Rec
<1> HIDE DEF best
<1> DEFINE T == {n \in 0 .. N : Serves(list, n, best[n])}
<1>13. 0 \in T
  <2>1. Serves(list, 0, list[1])
    BY <1>2 DEF Serves
  <2> QED BY <1>1, <1>12, <2>1
<1>14. ASSUME NEW n \in 1 .. N, n - 1 \in T PROVE n \in T
  <2> DEFINE old == {list[k + 1] : k \in 0 .. (n - 1)}
             now == {list[k + 1] : k \in 0 .. n}
  <2>1. now = old \cup {list[n + 1]}
    <3>1. 0 .. n = (0 .. (n - 1)) \cup {n}
      BY <1>1
    <3> QED BY <3>1
  <2>2. old \subseteq Int /\ list[n + 1] \in Int
    BY <1>1, <1>4
  <2>3. Serves(list, n - 1, best[n - 1])
    BY <1>14
  <2>4. /\ best[n - 1] \in old
        /\ best[n - 1] < Wanted => \A s \in old : s <= best[n - 1]
        /\ best[n - 1] >= Wanted => \A s \in old : s >= Wanted => best[n - 1] <= s
    BY <2>3 DEF Serves
  <2> HIDE DEF old, now
  <2>5. best[n] = Better(best[n - 1], list[n + 1])
    BY <1>12
  <2>6. /\ best[n] \in now
        /\ best[n] < Wanted => \A s \in now : s <= best[n]
        /\ best[n] >= Wanted => \A s \in now : s >= Wanted => best[n] <= s
    <3> DEFINE b == best[n - 1]
               c == list[n + 1]
    <3>1. b \in Int /\ c \in Int /\ Wanted \in Int /\ \A s \in old : s \in Int
      BY <2>2, <2>4, PixmapAssumption
    <3>2. best[n] = c \/ best[n] = b
      BY <2>5 DEF Better
    <3>3. best[n] \in now
      BY <2>1, <2>4, <3>2
    <3>4. ASSUME best[n] < Wanted, NEW s \in now PROVE s <= best[n]
      <4>1. (s \in old /\ (b < Wanted => s <= b)) \/ s = c
        BY <2>1, <2>4
      <4> HIDE DEF b, c
      <4>2. best[n] = IF (b >= Wanted /\ c >= Wanted /\ c < b) \/ (b < Wanted /\ c >= b) THEN c ELSE b
        BY <2>5 DEF Better, b, c
      <4> QED BY <3>1, <3>4, <4>1, <4>2
    <3>5. ASSUME best[n] >= Wanted, NEW s \in now, s >= Wanted PROVE best[n] <= s
      <4>1. (s \in old /\ (b >= Wanted => b <= s) /\ (b < Wanted => s <= b)) \/ s = c
        BY <2>1, <2>4, <3>5
      <4> HIDE DEF b, c
      <4>2. best[n] = IF (b >= Wanted /\ c >= Wanted /\ c < b) \/ (b < Wanted /\ c >= b) THEN c ELSE b
        BY <2>5 DEF Better, b, c
      <4> QED BY <3>1, <3>5, <4>1, <4>2
    <3> QED BY <3>3, <3>4, <3>5
  <2>7. Serves(list, n, best[n])
    BY <2>6 DEF Serves, now
  <2> QED BY <1>4, <2>7
<1> HIDE DEF T
<1>15. \A n \in 0 .. N : n \in T
  BY <1>1, <1>13, <1>14, UpTo
<1>16. Serves(list, N, best[N])
  BY <1>1, <1>15 DEF T
<1> QED BY <1>16 DEF N, best, Closest

\* The sizes of a list are those up to its end.
LEMMA ClosestIsBest ==
  ASSUME NEW list \in Seq(Int), list # <<>>
  PROVE  LET sizes == ToSet(list)
             enough == {s \in sizes : s >= Wanted}
         IN  IF enough = {} THEN \A s \in sizes : Closest(list) >= s
             ELSE Closest(list) \in enough /\ \A s \in enough : Closest(list) <= s
<1> DEFINE sizes == {list[k + 1] : k \in 0 .. (Len(list) - 1)}
<1>1. ToSet(list) = sizes
  <2>1. Len(list) \in Nat /\ DOMAIN list = 1 .. Len(list)
    BY LenProperties
  <2>2. ASSUME NEW x \in ToSet(list) PROVE x \in sizes
    <3>1. PICK n \in 1 .. Len(list) : x = list[n]
      BY <2>1 DEF ToSet
    <3>2. n - 1 \in 0 .. (Len(list) - 1) /\ n = (n - 1) + 1
      BY <2>1
    <3> QED BY <3>1, <3>2
  <2>3. ASSUME NEW k \in 0 .. (Len(list) - 1) PROVE list[k + 1] \in ToSet(list)
    <3>1. k + 1 \in DOMAIN list
      BY <2>1
    <3> QED BY <3>1 DEF ToSet
  <2> QED BY <2>2, <2>3
<1>2. sizes \subseteq Int
  BY LenProperties
<1>3. /\ Closest(list) \in sizes
      /\ Closest(list) < Wanted => \A s \in sizes : s <= Closest(list)
      /\ Closest(list) >= Wanted => \A s \in sizes : s >= Wanted => Closest(list) <= s
  BY ClosestServes DEF Serves
<1> HIDE DEF sizes
<1> DEFINE enough == {s \in sizes : s >= Wanted}
<1>4. Closest(list) \in Int /\ Wanted \in Int
  BY <1>2, <1>3, PixmapAssumption
<1>5. CASE Closest(list) < Wanted
  <2>1. \A s \in sizes : Closest(list) >= s /\ ~(s >= Wanted)
    BY <1>2, <1>3, <1>4, <1>5
  <2>2. enough = {}
    BY <2>1
  <2> HIDE DEF enough
  <2> QED BY <1>1, <2>1, <2>2 DEF enough
<1>6. CASE Closest(list) >= Wanted
  <2>1. Closest(list) \in enough /\ \A s \in enough : Closest(list) <= s
    BY <1>3, <1>6
  <2> HIDE DEF enough
  <2>2. enough # {}
    BY <2>1
  <2> QED BY <1>1, <2>1, <2>2 DEF enough
<1> QED BY <1>4, <1>5, <1>6

LEMMA ItemInvGives == ItemInv => ItemCurrent
<1> SUFFICES ASSUME ItemInv PROVE ItemCurrent
  OBVIOUS
<1>1. /\ shown \in Values /\ itemOffered \in Values /\ NamesOK /\ PixmapsOK
      /\ ToldOK("title") /\ ToldOK("tip") /\ ToldOK("status")
  BY DEF ItemInv, ItemTypes
<1>2. ASSUME ItemQuiet, NEW key \in DOMAIN itemOffered PROVE key \in stale \/ shown[key] = itemOffered[key]
  <2>1. ToSet(reads) = {} /\ names = {} /\ \A B : ~Holds(itemInbox, B)
    BY <1>2, EmptySeq DEF ItemQuiet, ToSet, Holds
  <2>2. key \in {"title", "tip", "status", "names", "pixmaps"}
    BY <1>1 DEF Values
  <2>3. CASE key \in Told
    <3>1. ToldOK(key)
      BY <1>1, <2>3 DEF Told
    <3> QED BY <2>1, <3>1 DEF ToldOK
  <2>4. CASE key = "names"
    BY <1>1, <2>1, <2>4 DEF NamesOK
  <2>5. CASE key = "pixmaps"
    BY <1>1, <2>1, <2>5 DEF PixmapsOK
  <2> QED BY <2>2, <2>3, <2>4, <2>5 DEF Told
<1>3. ASSUME NEW key \in DOMAIN NoPixmaps
      PROVE  LET list == shown.pixmaps[key]
                 sizes == ToSet(list)
                 enough == {s \in sizes : s >= Wanted}
             IN  list # <<>> => IF enough = {} THEN \A s \in sizes : Closest(list) >= s
                                ELSE Closest(list) \in enough /\ \A s \in enough : Closest(list) <= s
  <2>1. shown.pixmaps[key] \in PixmapLists
    BY <1>1 DEF Values, Pixmaps, NoPixmaps
  <2>2. shown.pixmaps[key] \in Seq(Int)
    BY <2>1, PixmapAssumption
  <2> QED BY <2>2, ClosestIsBest
<1> QED BY <1>1, <1>2, <1>3 DEF ItemCurrent

\* Whatever values the application takes and however its signals, the item's reads, their
\* failures and the blocking reads of icons cross: once nothing is on its way the item
\* shows what the application has, unless the last read of a property failed; and the
\* pixmap drawn serves best (StatusNotifierItem).
THEOREM ItemAlwaysCurrent == ItemSpec => []ItemCurrent
<1> QED BY InitItemInv, ItemStep, ItemInvGives, PTL DEF ItemSpec

-----------------------------------------------------------------------------
(* The picture and its URL. *)

\* What the picture depends on.
LEMMA SamePicture ==
  ASSUME NEW v, NEW w, v.status = w.status, v.names = w.names, v.pixmaps = w.pixmaps
  PROVE  Picture(v) = Picture(w)
BY DEF Picture

\* The picture has the icon provider's URL, the one with both names, which draws no pixmap,
\* or one with the index of the pixmaps.
LEMMA UrlHasIndex ==
  ASSUME NEW v \in Values, NEW w \in Values, w.status = v.status, w.names = v.names,
         Picture(w) # Picture(v),
         IconUrl(v, 0) \in {<<"both">>, <<"index", 0>>},
         ~(v.status = "NeedsAttention" /\ v.names.icon /\ v.names.overlay),
         NEW j \in Nat, NEW k \in Nat, j # k
  PROVE  IconUrl(w, j) # IconUrl(v, k)
<1>1. v.names.icon \in BOOLEAN /\ v.names.overlay \in BOOLEAN /\ v.names.attention \in BOOLEAN
  BY DEF Values, IconNames
<1>2. ~(v.status = "NeedsAttention" /\ v.names.attention)
  BY DEF Picture
<1>3. ~(v.status # "NeedsAttention" /\ v.names.icon /\ v.names.overlay)
  BY DEF Picture
<1>4. ~(v.names.icon /\ v.names.overlay)
  BY <1>3
<1>5. ~(v.status # "NeedsAttention" /\ v.names.icon)
  <2> SUFFICES ASSUME v.status # "NeedsAttention" /\ v.names.icon PROVE FALSE
    OBVIOUS
  <2>1. IconUrl(v, 0) = <<"icon">>
    BY <1>1, <1>4 DEF IconUrl
  <2> QED BY <2>1
<1>6. IconUrl(v, k) = <<"index", k>>
  BY <1>1, <1>2, <1>4, <1>5 DEF IconUrl
<1>7. IconUrl(w, j) = <<"index", j>>
  BY <1>1, <1>2, <1>4, <1>5 DEF IconUrl
<1> QED BY <1>6, <1>7

ReloadsNow ==
  (/\ shown'.names = shown.names /\ shown'.status = shown.status
   /\ IconUrl(shown, 0) \in {<<"both">>, <<"index", 0>>}
   /\ ~(shown.status = "NeedsAttention" /\ shown.names.icon /\ shown.names.overlay)
   /\ Picture(shown') # Picture(shown))
  => IconUrl(shown', pixmapIndex') # IconUrl(shown, pixmapIndex)

LEMMA StepReloads == ASSUME ItemInv, [ItemNext]_itemVars PROVE ReloadsNow \/ UNCHANGED itemVars
<1>1. ASSUME shown'.status = shown.status, shown'.names = shown.names, Picture(shown') # Picture(shown)
      PROVE  shown'.pixmaps # shown.pixmaps
  BY <1>1, SamePicture
<1>2. ASSUME shown'.pixmaps = shown.pixmaps PROVE ReloadsNow
  BY <1>1, <1>2 DEF ReloadsNow
<1>3. ASSUME NEW fails \in BOOLEAN, PixmapsRead(fails) PROVE ReloadsNow
  <2>1. shown \in Values /\ shown' \in Values /\ pixmapIndex \in Nat /\ pixmapIndex' \in Nat
    BY <1>3, PixmapsDo DEF ItemInv, ItemTypes
  <2>2. shown'.pixmaps # shown.pixmaps => pixmapIndex' > pixmapIndex
    BY <1>3, PixmapsDo
  <2>3. shown'.pixmaps # shown.pixmaps => pixmapIndex' # pixmapIndex
    BY <2>1, <2>2
  <2> QED BY <1>1, <2>1, <2>3, UrlHasIndex DEF ReloadsNow
<1>4. ASSUME shown' = shown PROVE ReloadsNow
  BY <1>2, <1>4
<1>5. CASE AppTitles \/ AppTips \/ AppStatus \/ AppIcons
  BY <1>4, <1>5 DEF AppTitles, AppTips, AppStatus, AppIcons, AppChanges
<1>6. CASE OnNewTitle \/ OnNewToolTip \/ \E fails \in BOOLEAN : AppAnswersRead(fails) \/ OnNewIcon(fails)
  BY <1>4, <1>6 DEF OnNewTitle, OnNewToolTip, AppAnswersRead, OnNewIcon
<1>7. CASE OnNewStatus
  <2>1. shown \in Values /\ shown' = [shown EXCEPT !.status = Head(itemInbox).status]
    BY <1>7 DEF OnNewStatus, ItemInv, ItemTypes
  <2> QED BY <1>2, <2>1 DEF Values
<1>8. CASE OnReply
  <2>1. shown \in Values /\ Head(itemInbox) \in ItemMessages /\ Head(itemInbox).kind = "reply"
    BY <1>8, HeadIs DEF OnReply, ItemInv, ItemTypes
  <2>2. Head(itemInbox).key \in {"title", "tip"}
    BY <2>1 DEF ItemMessages, Signals
  <2>3. shown' = shown \/ shown' = [shown EXCEPT ![Head(itemInbox).key] = Head(itemInbox).value]
    BY <1>8 DEF OnReply
  <2>4. shown'.pixmaps = shown.pixmaps
    BY <2>1, <2>2, <2>3 DEF Values
  <2> QED BY <1>2, <2>4
<1> QED BY <1>3, <1>5, <1>6, <1>7, <1>8 DEF ItemNext

\* Other pixmaps that change what is drawn change the URL that QML reloads the picture by,
\* whatever the lists of pixmaps are (TrayItem's b_pixmapIndex).
THEOREM PictureAlwaysReloads == ItemSpec => PictureReloads
<1>1. ItemInv /\ [ItemNext]_itemVars => [ReloadsNow]_itemVars
  BY StepReloads
<1> QED BY <1>1, InitItemInv, ItemStep, PTL DEF ItemSpec, PictureReloads, ReloadsNow

-----------------------------------------------------------------------------
(* Menus.  The ids below a parent.                                         *)

LEMMA UnderClosed ==
  ASSUME NEW p \in Ids \cup {0}
  PROVE  /\ Under(p) \subseteq Ids
         /\ \A i \in Ids : ParentOf[i] \in Under(p) \cup {p} => i \in Under(p)
         /\ \A i \in Under(p) : ParentOf[i] \in Under(p) \cup {p}
         /\ p \notin Under(p)
<1>1. Under(p) \subseteq Ids
  BY DEF Under
<1>2. ASSUME NEW i \in Ids, ParentOf[i] \in Under(p) \cup {p} PROVE i \in Under(p)
  <2> SUFFICES ASSUME NEW S \in SUBSET Ids, ClosedUnder(p, S) PROVE i \in S
    BY DEF Under
  <2>1. ParentOf[i] \in S \cup {p}
    BY <1>2 DEF Under
  <2> QED BY <2>1 DEF ClosedUnder
<1>3. ASSUME NEW i \in Under(p) PROVE ParentOf[i] \in Under(p) \cup {p}
  <2> DEFINE S == {j \in Under(p) : ParentOf[j] \in Under(p) \cup {p}}
  <2>1. S \in SUBSET Ids
    BY <1>1
  <2>2. ClosedUnder(p, S)
    <3> SUFFICES ASSUME NEW j \in Ids, ParentOf[j] \in S \cup {p} PROVE j \in S
      BY DEF ClosedUnder
    <3>1. ParentOf[j] \in Under(p) \cup {p}
      OBVIOUS
    <3> QED BY <1>2, <3>1
  <2>3. i \in S
    BY <2>1, <2>2 DEF Under
  <2> QED BY <2>3
<1>4. p \notin Under(p)
  BY <1>1, TreeAssumption
<1> QED BY <1>1, <1>2, <1>3, <1>4

LEMMA UnderGrows ==
  ASSUME NEW p \in Ids \cup {0}, NEW g \in Under(p)
  PROVE  Under(g) \subseteq Under(p) /\ p \notin Under(g) /\ g # p
<1>1. /\ Under(p) \in SUBSET Ids /\ p \notin Under(p)
      /\ \A i \in Ids : ParentOf[i] \in Under(p) \cup {p} => i \in Under(p)
  BY UnderClosed
<1>2. ClosedUnder(g, Under(p))
  BY <1>1 DEF ClosedUnder
<1>3. Under(g) \subseteq Under(p)
  BY <1>1, <1>2 DEF Under
<1> QED BY <1>1, <1>3

LEMMA KidsUnder ==
  ASSUME NEW p \in Ids \cup {0}, NEW ids
  PROVE  Kids(Ids, p) \subseteq Under(p) /\ Kids(ids \cap Ids, p) \subseteq Under(p)
BY UnderClosed DEF Kids

\* A menu has the parents of its items.
IsTree(ids) == ids \subseteq Ids /\ \A i \in ids : ParentOf[i] \in ids \cup {0}

\* What goes with an item leaves a tree.
LEMMA CutTree ==
  ASSUME NEW ids, IsTree(ids), NEW i \in Ids
  PROVE  IsTree(ids \ ({i} \cup Under(i)))
<1> SUFFICES ASSUME NEW j \in ids, j # i, j \notin Under(i), ParentOf[j] \in {i} \cup Under(i) PROVE FALSE
  BY DEF IsTree
<1>1. j \in Ids
  BY DEF IsTree
<1> QED BY <1>1, UnderClosed

LEMMA FirstLevel == ASSUME NEW ids, IsTree(ids) PROVE IsTree(Kids(ids, 0)) /\ Kids(Kids(ids, 0), 0) = Kids(ids, 0)
BY DEF IsTree, Kids

Depths == {1, Unlimited}

\* A layout that comes in: what it loads is then as it says, the rest that stays keeps its children.
LEMMA MergeTree ==
  ASSUME IsTree(menuItems), NEW ids, IsTree(ids), NEW p \in menuItems \cup {0}, NEW depth \in Depths
  PROVE  /\ IsTree(Merged(ids, p, depth))
         /\ \A q \in Loads(p, depth) : Kids(Merged(ids, p, depth), q) = Kids(ids, q)
         /\ \A q \in (Merged(ids, p, depth) \cup {0}) \ Loads(p, depth) :
              Kids(Merged(ids, p, depth), q) = Kids(menuItems, q)
<1> DEFINE region == Region(p, depth)
           gone == region \ ids
           below == UNION {Under(g) : g \in gone}
           now == (menuItems \ (gone \cup below)) \cup (region \cap ids)
<1>0. p \in Ids \cup {0} /\ menuItems \subseteq Ids /\ ids \subseteq Ids
  BY DEF IsTree
<1>1. /\ Under(p) \subseteq Ids /\ p \notin Under(p)
      /\ \A i \in Ids : ParentOf[i] \in Under(p) \cup {p} => i \in Under(p)
      /\ \A i \in Under(p) : ParentOf[i] \in Under(p) \cup {p}
  BY <1>0, UnderClosed
<1>2. region \subseteq Under(p)
  BY <1>0, KidsUnder DEF Region
<1>3. ASSUME NEW g \in gone
      PROVE  /\ Under(g) \subseteq Under(p) /\ p \notin Under(g) /\ g # p
             /\ \A i \in Ids : ParentOf[i] \in Under(g) \cup {g} => i \in Under(g)
             /\ \A i \in Under(g) : ParentOf[i] \in Under(g) \cup {g}
  <2>1. g \in Under(p)
    BY <1>2
  <2>2. g \in Ids
    BY <1>1, <2>1
  <2> QED BY <1>0, <2>1, <2>2, UnderGrows, UnderClosed
<1>4. Merged(ids, p, depth) = now
  BY DEF Merged
<1>5. ASSUME NEW i \in Ids PROVE i \in region <=> ParentOf[i] \in Loads(p, depth)
  <2>1. CASE depth = Unlimited
    <3>1. region = Under(p) /\ Loads(p, depth) = {p} \cup Under(p)
      BY <2>1 DEF Region, Loads
    <3> QED BY <1>1, <3>1
  <2>2. CASE depth # Unlimited
    <3>1. region = Kids(Ids, p) /\ Loads(p, depth) = {p}
      BY <2>2 DEF Region, Loads
    <3> QED BY <3>1 DEF Kids
  <2> QED BY <2>1, <2>2
<1>6. p \in now \cup {0}
  BY <1>1, <1>2, <1>3
<1>7. IsTree(now)
  <2>1. now \subseteq Ids
    BY <1>0
  <2>2. ASSUME NEW i \in region \cap ids PROVE ParentOf[i] \in now \cup {0}
    <3>1. ParentOf[i] \in Loads(p, depth) /\ ParentOf[i] \in ids \cup {0}
      BY <1>0, <1>5, <2>2 DEF IsTree
    <3>2. CASE ParentOf[i] = p
      BY <1>6, <3>2
    <3>3. CASE ParentOf[i] # p
      <4>1. region = Under(p) /\ ParentOf[i] \in Under(p)
        BY <3>1, <3>3 DEF Loads, Region
      <4> QED BY <3>1, <4>1
    <3> QED BY <3>2, <3>3
  <2>3. ASSUME NEW i \in menuItems \ (gone \cup below) PROVE ParentOf[i] \in now \cup {0}
    <3>1. i \in Ids /\ ParentOf[i] \in menuItems \cup {0}
      BY <1>0 DEF IsTree
    <3>2. ParentOf[i] \notin gone \cup below
      BY <1>3, <3>1
    <3> QED BY <3>1, <3>2
  <2> HIDE DEF region, gone, below
  <2> QED BY <2>1, <2>2, <2>3 DEF IsTree
<1>8. ASSUME NEW q \in Loads(p, depth) PROVE Kids(now, q) = Kids(ids, q)
  <2>1. ASSUME NEW i \in Ids, ParentOf[i] = q PROVE i \in now <=> i \in ids
    <3>1. i \in region
      BY <1>5, <2>1
    <3> QED BY <3>1
  <2>2. now \subseteq Ids
    BY <1>0
  <2> HIDE DEF now
  <2> QED BY <1>0, <2>1, <2>2 DEF Kids
<1>9. ASSUME NEW q \in (now \cup {0}) \ Loads(p, depth) PROVE Kids(now, q) = Kids(menuItems, q)
  <2>1. ASSUME NEW i \in Ids, ParentOf[i] = q PROVE i \notin region
    BY <1>5, <2>1
  <2>2. ASSUME NEW g \in gone, NEW i \in Under(g), ParentOf[i] = q PROVE FALSE
    <3>1. q \in Under(g) \cup {g}
      BY <1>3, <2>2
    <3>2. q \in gone \cup below /\ q \in Ids
      BY <1>1, <1>2, <1>3, <3>1
    <3>3. q \in region \cap ids
      BY <3>2, TreeAssumption
    <3>4. CASE depth = Unlimited
      BY <3>3, <3>4 DEF Region, Loads
    <3>5. CASE depth # Unlimited
      <4>1. ParentOf[q] = p
        BY <3>3, <3>5 DEF Region, Kids
      <4>2. q \in Under(g)
        BY <3>1, <3>3
      <4> QED BY <1>3, <4>1, <4>2
    <3> QED BY <3>4, <3>5
  <2>3. ASSUME NEW i \in Ids, ParentOf[i] = q PROVE i \in now <=> i \in menuItems
    <3>1. i \notin gone /\ i \notin below
      BY <2>1, <2>2, <2>3
    <3> QED BY <2>1, <2>3, <3>1
  <2>4. now \subseteq Ids
    BY <1>0
  <2> HIDE DEF now
  <2> QED BY <1>0, <2>3, <2>4 DEF Kids
<1> HIDE DEF now
<1> QED BY <1>4, <1>7, <1>8, <1>9

-----------------------------------------------------------------------------
(* The menu and what is on its way to it.  A parent that was loaded has    *)
(* the application's children, or the signal or the request that will put  *)
(* it right is still to come; an answer that tells something else has the  *)
(* signal behind it.                                                       *)

Trees == {ids \in SUBSET Ids : IsTree(ids)}
MenuMessages == [kind : {"layout"}, parent : Ids \cup {0}]
                  \cup [kind : {"props"}, id : Ids, key : {"enabled", "other"}, value : BOOLEAN]
                  \cup [kind : {"reply"}, error : BOOLEAN, ids : Trees, props : [Ids -> BOOLEAN]]

MenuTypes ==
  /\ app \in Trees /\ menuItems \in Trees
  /\ appEnabled \in [Ids -> BOOLEAN] /\ isEnabled \in [Ids -> BOOLEAN]
  /\ updating = {} \/ \E p \in Ids \cup {0}, depth \in Depths : updating = {<<p, depth>>}
  /\ views \in [MenuViews -> {"closed", "pending", "waiting", "loaded"}]
  /\ menuInbox \in Seq(MenuMessages) /\ delayed \in Seq(Ids \cup {0})
  /\ known \subseteq menuItems \cup {0}

Opened == {v \in MenuViews : views[v] # "closed"}
RefsCounted == refcount = Cardinality(Opened)

\* Signals that will have the children of q loaded again.
SignalsFor(q) == {m \in MenuMessages : m.kind = "layout" /\ q \in Loads(m.parent, Unlimited)}
DelayedFor(q) == {p \in Ids \cup {0} : q \in Loads(p, Unlimited)}
Coming(q) == Holds(menuInbox, SignalsFor(q)) \/ Holds(delayed, DelayedFor(q))

\* Answers that tell other children of q than the application has.
Answers == {m \in MenuMessages : m.kind = "reply"}
Off(q) == {m \in Answers : ~m.error /\ Kids(m.ids, q) # Kids(app, q)}

KnownOK(q) == \/ Kids(menuItems, q) = Kids(app, q)
              \/ Coming(q)
              \/ \E u \in updating : q \in Loads(u[1], u[2])
InboxOK(q) == Mended(menuInbox, Off(q), SignalsFor(q))

MenuFresh == \A q \in app \cup {0} : (q \in known => KnownOK(q)) /\ InboxOK(q)

AtMostOne(q, B) == \A j, k \in DOMAIN q : q[j] \in B /\ q[k] \in B => j = k

\* One request is in flight at a time, and has one answer.
OneAnswer ==
  /\ sent => updating # {} /\ ~Holds(menuInbox, Answers)
  /\ Holds(menuInbox, Answers) => updating # {}
  /\ AtMostOne(menuInbox, Answers)

MenuInv == /\ MenuTypes /\ RefsCounted
           /\ ifaceValid => ~unregistering /\ OneAnswer /\ MenuFresh

LEMMA MenuInvGives == MenuInv => MenuAgrees
<1> SUFFICES ASSUME MenuInv PROVE MenuAgrees
  OBVIOUS
<1>1. MenuTypeOK
  <2>1. updating \subseteq (Ids \cup {0}) \X {1, Unlimited}
    BY DEF MenuInv, MenuTypes, Depths
  <2>2. IsFiniteSet(Opened)
    BY ViewsAssumption, FS_Subset DEF Opened
  <2>3. refcount \in Nat
    BY <2>2, FS_CardinalityType DEF MenuInv, RefsCounted
  <2> QED BY <2>1, <2>3 DEF MenuInv, MenuTypes, MenuTypeOK, Trees
<1>2. \A i \in menuItems : ParentOf[i] \in menuItems \cup {0}
  BY DEF MenuInv, MenuTypes, Trees, IsTree
<1>3. refcount = Cardinality({v \in MenuViews : views[v] # "closed"})
  BY DEF MenuInv, RefsCounted, Opened
<1>4. ASSUME MenuQuiet, NEW p \in known \cap (app \cup {0}) PROVE Kids(menuItems, p) = Kids(app, p)
  <2>1. KnownOK(p)
    BY <1>4 DEF MenuInv, MenuFresh, MenuQuiet
  <2>2. menuInbox = <<>> /\ delayed = <<>> /\ updating = {}
    BY <1>4 DEF MenuQuiet
  <2>3. ~Coming(p)
    BY <2>2, EmptySeq DEF Coming, Holds
  <2> QED BY <2>1, <2>2, <2>3 DEF KnownOK
<1> QED BY <1>1, <1>2, <1>3, <1>4 DEF MenuAgrees

LEMMA InitMenuInv == MenuInit => MenuInv
<1> SUFFICES ASSUME MenuInit PROVE MenuInv
  OBVIOUS
<1>1. MenuTypes
  <2>1. app \in Trees /\ menuItems \in Trees
    BY TreeAssumption DEF MenuInit, Trees, IsTree
  <2>2. updating = {<<0, 1>>} /\ 1 \in Depths
    BY DEF MenuInit, Depths
  <2>3. menuInbox \in Seq(MenuMessages) /\ delayed \in Seq(Ids \cup {0})
    BY EmptySeq DEF MenuInit
  <2>4. /\ appEnabled \in [Ids -> BOOLEAN] /\ isEnabled \in [Ids -> BOOLEAN]
        /\ views \in [MenuViews -> {"closed", "pending", "waiting", "loaded"}]
        /\ known \subseteq menuItems \cup {0}
    BY DEF MenuInit
  <2> QED BY <2>1, <2>2, <2>3, <2>4 DEF MenuTypes
<1>2. RefsCounted
  <2>1. Opened = {}
    BY DEF MenuInit, Opened
  <2> QED BY <2>1, FS_EmptySet DEF MenuInit, RefsCounted
<1>3. menuInbox = <<>> /\ known = {} /\ updating # {} /\ ~unregistering
  BY DEF MenuInit
<1>4. /\ \A B : ~Holds(menuInbox, B)
      /\ \A A, B : Mended(menuInbox, A, B)
      /\ AtMostOne(menuInbox, Answers)
  BY <1>3, EmptySeq DEF Holds, Mended, AtMostOne
<1>5. OneAnswer
  BY <1>3, <1>4 DEF OneAnswer
<1>6. MenuFresh
  BY <1>3, <1>4 DEF MenuFresh, InboxOK
<1> QED BY <1>1, <1>2, <1>3, <1>5, <1>6 DEF MenuInv

\* A message at the end of the inbox: it tells what is so, and signals what the application
\* has changed.
LEMMA PutFresh ==
  ASSUME MenuTypes, MenuFresh, NEW m \in MenuMessages, menuInbox' = Append(menuInbox, m),
         UNCHANGED <<menuItems, updating, delayed, known>>,
         \A q \in app' \cup {0} : /\ m \notin Off(q)'
                                  /\ \/ m \in SignalsFor(q)
                                     \/ q \in app \cup {0} /\ Kids(app', q) = Kids(app, q)
  PROVE  MenuFresh'
<1> SUFFICES ASSUME NEW q \in app' \cup {0}
             PROVE  (q \in known => KnownOK(q)') /\ InboxOK(q)'
  BY DEF MenuFresh
<1>1. menuInbox \in Seq(MenuMessages)
  BY DEF MenuTypes
<1>2. CASE m \in SignalsFor(q)
  <2>1. Holds(menuInbox', SignalsFor(q)) /\ Mended(menuInbox', Off(q)', SignalsFor(q))
    BY <1>1, <1>2, PutOne
  <2>2. Coming(q)'
    BY <2>1 DEF Coming
  <2> QED BY <2>1, <2>2 DEF KnownOK, InboxOK
<1>3. CASE q \in app \cup {0} /\ Kids(app', q) = Kids(app, q)
  <2>1. (q \in known => KnownOK(q)) /\ InboxOK(q)
    BY <1>3 DEF MenuFresh
  <2>2. Off(q)' = Off(q)
    BY <1>3 DEF Off
  <2>3. Mended(menuInbox', Off(q), SignalsFor(q))
    BY <1>1, <2>1, <2>2, PutOne DEF InboxOK
  <2>4. Coming(q) => Coming(q)'
    <3>1. Holds(menuInbox, SignalsFor(q)) => Holds(menuInbox', SignalsFor(q))
      BY <1>1, PutOne
    <3> QED BY <3>1 DEF Coming
  <2>5. q \in known => KnownOK(q)'
    BY <1>3, <2>1, <2>4 DEF KnownOK
  <2> QED BY <2>2, <2>3, <2>5 DEF InboxOK
<1> QED BY <1>2, <1>3

\* One that answers nothing.
LEMMA PutOneAnswer ==
  ASSUME MenuTypes, OneAnswer, NEW m \in MenuMessages, m \notin Answers, menuInbox' = Append(menuInbox, m),
         UNCHANGED <<updating, sent>>
  PROVE  OneAnswer'
<1> DEFINE r == menuInbox'
<1>1. /\ Len(menuInbox) \in Nat /\ DOMAIN menuInbox = 1 .. Len(menuInbox) /\ DOMAIN r = 1 .. Len(menuInbox) + 1
      /\ r[Len(menuInbox) + 1] = m /\ \A k \in 1 .. Len(menuInbox) : r[k] = menuInbox[k]
  BY AppendProperties, LenProperties DEF MenuTypes
<1>2. \A k \in DOMAIN r : r[k] \in Answers => k \in DOMAIN menuInbox /\ r[k] = menuInbox[k]
  BY <1>1
<1> HIDE DEF r
<1>3. Holds(r, Answers) => Holds(menuInbox, Answers)
  BY <1>2 DEF Holds
<1>4. AtMostOne(r, Answers)
  BY <1>2 DEF OneAnswer, AtMostOne
<1> QED BY <1>3, <1>4 DEF OneAnswer, r

\* A change of the application, with its signal.
LEMMA SignalKept ==
  ASSUME MenuInv, MayChange, NEW m \in MenuMessages, m \notin Answers, menuInbox' = Append(menuInbox, m),
         app' \in Trees, appEnabled' \in [Ids -> BOOLEAN],
         \A q \in app' \cup {0} : m \in SignalsFor(q) \/ (q \in app \cup {0} /\ Kids(app', q) = Kids(app, q))
  PROVE  MenuInv'
<1>1. /\ MenuTypes /\ RefsCounted /\ ~unregistering /\ OneAnswer /\ MenuFresh
      /\ UNCHANGED <<menuItems, isEnabled, updating, sent, ifaceValid, unregistering, refcount, views,
                     asks, delayed, known>>
  BY DEF MenuInv, MayChange, treeVars, viewVars
<1>2. MenuTypes'
  BY <1>1, AppendProperties DEF MenuTypes
<1>3. RefsCounted'
  BY <1>1 DEF RefsCounted, Opened
<1>4. OneAnswer'
  BY <1>1, PutOneAnswer
<1>5. MenuFresh'
  <2>1. \A q : m \notin Off(q)'
    BY DEF Off
  <2> QED BY <1>1, <2>1, PutFresh
<1> QED BY <1>1, <1>2, <1>3, <1>4, <1>5 DEF MenuInv

LEMMA SignalOf ==
  ASSUME NEW p \in Ids \cup {0}, NEW q, q = p \/ q \in Under(p)
  PROVE  [kind |-> "layout", parent |-> p] \in SignalsFor(q)
BY DEF SignalsFor, MenuMessages, Loads

LEMMA AddsKept == ASSUME MenuInv, NEW i \in Ids, AppAdds(i) PROVE MenuInv'
<1> DEFINE p == ParentOf[i]
           m == [kind |-> "layout", parent |-> p]
<1>1. app \in Trees /\ p \in app \cup {0} /\ p \in Ids \cup {0}
  BY DEF MenuInv, MenuTypes, AppAdds, Trees
<1>2. app' = app \cup {i} /\ menuInbox' = Append(menuInbox, m) /\ appEnabled' = appEnabled /\ MayChange
  BY DEF AppAdds
<1>3. app' \in Trees
  BY <1>1, <1>2 DEF Trees, IsTree
<1>4. m \in MenuMessages /\ m \notin Answers
  BY <1>1 DEF MenuMessages, Answers
<1>5. ASSUME NEW q \in app' \cup {0}, q # p, q # i PROVE q \in app \cup {0} /\ Kids(app', q) = Kids(app, q)
  BY <1>2, <1>5 DEF Kids
<1>6. m \in SignalsFor(p) /\ m \in SignalsFor(i)
  <2>1. i \in Under(p)
    BY <1>1, UnderClosed
  <2> QED BY <1>1, <2>1, SignalOf
<1>7. appEnabled' \in [Ids -> BOOLEAN]
  BY <1>2 DEF MenuInv, MenuTypes
<1> HIDE DEF m, p
<1> QED BY <1>2, <1>3, <1>4, <1>5, <1>6, <1>7, SignalKept

LEMMA RemovesKept == ASSUME MenuInv, NEW i \in Ids, AppRemoves(i) PROVE MenuInv'
<1> DEFINE p == ParentOf[i]
           m == [kind |-> "layout", parent |-> p]
           gone == {i} \cup Under(i)
<1>1. app \in Trees /\ IsTree(app) /\ i \in app /\ p \in app \cup {0} /\ p \in Ids \cup {0}
  BY DEF MenuInv, MenuTypes, AppRemoves, Trees, IsTree
<1>2. app' = app \ gone /\ menuInbox' = Append(menuInbox, m) /\ appEnabled' = appEnabled /\ MayChange
  BY DEF AppRemoves
<1>3. app' \in Trees
  <2>1. IsTree(app')
    BY <1>1, <1>2, CutTree
  <2> QED BY <2>1 DEF Trees, IsTree
<1>4. m \in MenuMessages /\ m \notin Answers
  BY <1>1 DEF MenuMessages, Answers
<1>5. m \in SignalsFor(p)
  BY <1>1, SignalOf
<1>6. ASSUME NEW q \in app' \cup {0}, q # p PROVE q \in app \cup {0} /\ Kids(app', q) = Kids(app, q)
  <2>1. q \notin gone
    <3>1. gone \subseteq Ids
      BY UnderClosed
    <3> QED BY <1>2, <3>1, TreeAssumption
  <2>2. ASSUME NEW j \in gone, ParentOf[j] = q PROVE FALSE
    BY <1>6, <2>1, <2>2, UnderClosed
  <2> QED BY <1>2, <2>2 DEF Kids
<1>7. appEnabled' \in [Ids -> BOOLEAN]
  BY <1>2 DEF MenuInv, MenuTypes
<1> HIDE DEF m, p, gone
<1> QED BY <1>2, <1>3, <1>4, <1>5, <1>6, <1>7, SignalKept

LEMMA SetsKept == ASSUME MenuInv, NEW i \in Ids, NEW key \in {"enabled", "other"}, AppSets(i, key) PROVE MenuInv'
<1> DEFINE m == [kind |-> "props", id |-> i, key |-> key, value |-> appEnabled'[i]]
<1>1. app \in Trees /\ appEnabled \in [Ids -> BOOLEAN]
  BY DEF MenuInv, MenuTypes
<1>2. app' = app /\ menuInbox' = Append(menuInbox, m) /\ MayChange
  BY DEF AppSets
<1>3. appEnabled' \in [Ids -> BOOLEAN]
  <2>1. appEnabled' = appEnabled \/ appEnabled' = [appEnabled EXCEPT ![i] = ~appEnabled[i]]
    BY DEF AppSets
  <2> QED BY <1>1, <2>1
<1>4. appEnabled'[i] \in BOOLEAN
  BY <1>3
<1>5. m \in MenuMessages /\ m \notin Answers
  BY <1>4 DEF MenuMessages, Answers
<1> HIDE DEF m
<1> QED BY <1>1, <1>2, <1>3, <1>5, SignalKept

\* An answer, which tells what the menu is now or is an error, is the only one.
LEMMA ReplyPut ==
  ASSUME MenuInv, ifaceValid, sent, NEW m \in MenuMessages, m.kind = "reply", m.error \/ m.ids = app,
         menuInbox' = Append(menuInbox, m), sent' = FALSE,
         UNCHANGED <<app, appEnabled, menuItems, isEnabled, updating, ifaceValid, unregistering, refcount,
                     views, delayed, known>>
  PROVE  MenuInv'
<1>1. MenuTypes /\ RefsCounted /\ ~unregistering /\ OneAnswer /\ MenuFresh
  BY DEF MenuInv
<1>2. MenuTypes'
  BY <1>1, AppendProperties DEF MenuTypes
<1>3. RefsCounted'
  BY <1>1 DEF RefsCounted, Opened
<1>4. OneAnswer'
  <2>1. /\ Len(menuInbox) \in Nat /\ DOMAIN menuInbox = 1 .. Len(menuInbox)
        /\ DOMAIN menuInbox' = 1 .. Len(menuInbox) + 1
        /\ menuInbox'[Len(menuInbox) + 1] = m /\ \A k \in 1 .. Len(menuInbox) : menuInbox'[k] = menuInbox[k]
    BY <1>1, AppendProperties, LenProperties DEF MenuTypes
  <2>2. ~Holds(menuInbox, Answers) /\ updating # {}
    BY <1>1 DEF OneAnswer
  <2>3. \A k \in DOMAIN menuInbox' : menuInbox'[k] \in Answers => k = Len(menuInbox) + 1
    BY <2>1, <2>2 DEF Holds
  <2>4. AtMostOne(menuInbox', Answers)
    BY <2>3 DEF AtMostOne
  <2> QED BY <2>2, <2>4 DEF OneAnswer
<1>5. MenuFresh'
  <2>1. ASSUME NEW q PROVE m \notin Off(q)' /\ Kids(app', q) = Kids(app, q)
    BY DEF Off
  <2> QED BY <1>1, <2>1, PutFresh
<1> QED BY <1>1, <1>2, <1>3, <1>4, <1>5 DEF MenuInv

LEMMA FailedIs == MenuTypes => Failed \in MenuMessages /\ Failed.kind = "reply" /\ Failed.error = TRUE
<1> SUFFICES ASSUME MenuTypes PROVE Failed \in MenuMessages
  BY DEF Failed
<1>1. {} \in Trees /\ appEnabled \in [Ids -> BOOLEAN]
  BY DEF Trees, IsTree, MenuTypes
<1> QED BY <1>1 DEF MenuMessages, Failed

LEMMA AnswersKept == ASSUME MenuInv, AppAnswers PROVE MenuInv'
<1> DEFINE err == \A u \in updating : u[1] \notin app \cup {0}
           m == [kind |-> "reply", error |-> err, ids |-> app, props |-> appEnabled]
<1>1. /\ menuInbox' = Append(menuInbox, m) /\ sent' = FALSE /\ sent /\ ifaceValid
      /\ UNCHANGED <<app, appEnabled, menuItems, isEnabled, updating, ifaceValid, unregistering, refcount,
                     views, delayed, known>>
  BY DEF AppAnswers, appVars, treeVars, viewVars
<1>2. m \in MenuMessages
  <2>1. err \in BOOLEAN
    OBVIOUS
  <2>2. app \in Trees /\ appEnabled \in [Ids -> BOOLEAN]
    BY DEF MenuInv, MenuTypes
  <2> HIDE DEF err
  <2> QED BY <2>1, <2>2 DEF MenuMessages
<1>3. m.kind = "reply" /\ m.ids = app
  OBVIOUS
<1> HIDE DEF m
<1> QED BY <1>1, <1>2, <1>3, ReplyPut

\* An application that leaves: only the types and the references still matter.
LEMMA LeavesKept == ASSUME MenuInv, AppLeaves PROVE MenuInv'
<1>1. MenuTypes /\ RefsCounted
  BY DEF MenuInv
<1>2. /\ ifaceValid' = FALSE
      /\ UNCHANGED <<app, appEnabled, menuItems, isEnabled, updating, refcount, views, delayed, known>>
  BY DEF AppLeaves, appVars, treeVars, viewVars
<1>3. menuInbox' \in Seq(MenuMessages)
  <2>1. Failed \in MenuMessages /\ menuInbox \in Seq(MenuMessages)
    BY <1>1, FailedIs DEF MenuTypes
  <2>2. menuInbox' = Append(menuInbox, Failed) \/ menuInbox' = menuInbox
    BY DEF AppLeaves
  <2> QED BY <2>1, <2>2, AppendProperties
<1>4. MenuTypes'
  BY <1>1, <1>2, <1>3 DEF MenuTypes
<1>5. RefsCounted'
  BY <1>1, <1>2 DEF RefsCounted, Opened
<1> QED BY <1>2, <1>4, <1>5 DEF MenuInv

LEMMA TimesOutKept == ASSUME MenuInv, TimesOut PROVE MenuInv'
<1>1. /\ menuInbox' = Append(menuInbox, Failed) /\ sent' = FALSE /\ sent /\ ifaceValid
      /\ UNCHANGED <<app, appEnabled, menuItems, isEnabled, updating, ifaceValid, unregistering, refcount,
                     views, delayed, known>>
  BY DEF TimesOut, appVars, treeVars, viewVars
<1>2. Failed \in MenuMessages /\ Failed.kind = "reply" /\ Failed.error
  BY FailedIs DEF MenuInv
<1> QED BY <1>1, <1>2, ReplyPut

\* What is taken from the inbox leaves at most one answer in it.
LEMMA TakeOneAnswer ==
  ASSUME menuInbox \in Seq(MenuMessages), menuInbox # <<>>, OneAnswer, menuInbox' = Tail(menuInbox)
  PROVE  /\ AtMostOne(menuInbox', Answers)
         /\ Holds(menuInbox', Answers) => Holds(menuInbox, Answers)
         /\ Head(menuInbox) \in Answers => Holds(menuInbox, Answers) /\ ~Holds(menuInbox', Answers)
<1> DEFINE m == Head(menuInbox)
<1>1. /\ Len(menuInbox) \in Nat \ {0} /\ DOMAIN menuInbox = 1 .. Len(menuInbox)
      /\ DOMAIN menuInbox' = 1 .. (Len(menuInbox) - 1)
      /\ \A k \in 1 .. (Len(menuInbox) - 1) : menuInbox'[k] = menuInbox[k + 1]
      /\ m = menuInbox[1]
  BY HeadTailProperties, LenProperties, EmptySeq
<1> HIDE DEF m
<1>2. \A k \in DOMAIN menuInbox' : k + 1 \in DOMAIN menuInbox /\ menuInbox'[k] = menuInbox[k + 1]
  BY <1>1
<1>3. AtMostOne(menuInbox', Answers)
  <2> SUFFICES ASSUME NEW j \in DOMAIN menuInbox', NEW k \in DOMAIN menuInbox',
                      menuInbox'[j] \in Answers, menuInbox'[k] \in Answers
               PROVE  j = k
    BY DEF AtMostOne
  <2>1. j + 1 = k + 1
    BY <1>2 DEF OneAnswer, AtMostOne
  <2> QED BY <1>1, <2>1
<1>4. Holds(menuInbox', Answers) => Holds(menuInbox, Answers)
  BY <1>2 DEF Holds
<1>5. ASSUME m \in Answers PROVE Holds(menuInbox, Answers)
  BY <1>1, <1>5 DEF Holds
<1>6. ASSUME m \in Answers PROVE ~Holds(menuInbox', Answers)
  <2> SUFFICES ASSUME NEW k \in DOMAIN menuInbox', menuInbox'[k] \in Answers PROVE FALSE
    BY DEF Holds
  <2>1. k + 1 = 1
    BY <1>1, <1>2, <1>6 DEF OneAnswer, AtMostOne
  <2> QED BY <1>1, <2>1
<1> QED BY <1>3, <1>4, <1>5, <1>6 DEF m

\* A signal that is dispatched: that of a layout waits for its timer.
LEMMA TakeMenuKept == ASSUME MenuInv, TakeMenuMessage PROVE MenuInv'
<1> DEFINE m == Head(menuInbox)
<1>1. MenuTypes /\ RefsCounted /\ (ifaceValid => ~unregistering /\ OneAnswer /\ MenuFresh)
  BY DEF MenuInv
<1>2. /\ menuInbox # <<>> /\ menuInbox' = Tail(menuInbox)
      /\ delayed' = IF m.kind = "layout" THEN Append(delayed, m.parent) ELSE delayed
      /\ UNCHANGED <<app, appEnabled, menuItems, updating, sent, ifaceValid, unregistering, refcount,
                     views, known>>
  BY DEF TakeMenuMessage, appVars, viewVars
<1>3. m \in MenuMessages /\ menuInbox \in Seq(MenuMessages) /\ menuInbox' \in Seq(MenuMessages)
  BY <1>1, <1>2, HeadTailProperties DEF MenuTypes
<1>4. isEnabled' \in [Ids -> BOOLEAN]
  <2>1. CASE m.kind = "props" /\ ~unregistering /\ m.id \in menuItems
    <3>1. isEnabled' = [isEnabled EXCEPT ![m.id] = Payload(m.key, m.value)]
      BY <2>1 DEF TakeMenuMessage
    <3>2. Payload(m.key, m.value) \in BOOLEAN
      BY DEF Payload
    <3> QED BY <1>1, <3>1, <3>2 DEF MenuTypes
  <2>2. CASE isEnabled' = isEnabled
    BY <1>1, <2>2 DEF MenuTypes
  <2> QED BY <2>1, <2>2 DEF TakeMenuMessage
<1>6. m.kind = "layout" => m.parent \in Ids \cup {0}
  BY <1>3 DEF MenuMessages
<1>7. MenuTypes'
  <2>1. delayed' \in Seq(Ids \cup {0})
    BY <1>1, <1>2, <1>6, AppendProperties DEF MenuTypes
  <2> QED BY <1>1, <1>2, <1>3, <1>4, <2>1 DEF MenuTypes
<1>8. RefsCounted'
  BY <1>1, <1>2 DEF RefsCounted, Opened
<1>9. ASSUME ifaceValid PROVE OneAnswer'
  <2>1. OneAnswer
    BY <1>1, <1>9
  <2>2. AtMostOne(menuInbox', Answers) /\ (Holds(menuInbox', Answers) => Holds(menuInbox, Answers))
    BY <1>2, <1>3, <2>1, TakeOneAnswer
  <2> QED BY <1>2, <2>1, <2>2 DEF OneAnswer
<1>10. ASSUME ifaceValid, NEW q \in app \cup {0}
       PROVE  (q \in known => KnownOK(q)') /\ InboxOK(q)'
  <2>1. (q \in known => KnownOK(q)) /\ InboxOK(q)
    BY <1>1, <1>10 DEF MenuFresh
  <2>2. /\ Mended(menuInbox', Off(q), SignalsFor(q))
        /\ Holds(menuInbox, SignalsFor(q)) /\ m \notin SignalsFor(q) => Holds(menuInbox', SignalsFor(q))
    BY <1>2, <1>3, <2>1, TakeOne DEF InboxOK
  <2> HIDE DEF m
  <2>3. Coming(q) => Coming(q)'
    <3>1. delayed \in Seq(Ids \cup {0})
      BY <1>1 DEF MenuTypes
    <3>2. CASE m.kind = "layout"
      <4>1. delayed' = Append(delayed, m.parent) /\ m.parent \in Ids \cup {0}
        BY <1>2, <1>6, <3>2
      <4>2. /\ Holds(delayed, DelayedFor(q)) => Holds(delayed', DelayedFor(q))
            /\ m.parent \in DelayedFor(q) => Holds(delayed', DelayedFor(q))
        BY <3>1, <4>1, PutOne
      <4>3. m \in SignalsFor(q) => m.parent \in DelayedFor(q)
        BY <1>6, <3>2 DEF SignalsFor, DelayedFor
      <4> QED BY <2>2, <4>2, <4>3 DEF Coming
    <3>3. CASE m.kind # "layout"
      <4>1. m \notin SignalsFor(q) /\ delayed' = delayed
        BY <1>2, <3>3 DEF SignalsFor
      <4> QED BY <2>2, <4>1 DEF Coming
    <3> QED BY <3>2, <3>3
  <2>4. Off(q)' = Off(q)
    BY <1>2 DEF Off
  <2>5. InboxOK(q)'
    BY <2>2, <2>4 DEF InboxOK
  <2>6. q \in known => KnownOK(q)'
    BY <1>2, <2>1, <2>3 DEF KnownOK
  <2> QED BY <2>5, <2>6
<1> HIDE DEF m
<1>11. ASSUME ifaceValid PROVE MenuFresh'
  BY <1>2, <1>10, <1>11 DEF MenuFresh
<1> QED BY <1>1, <1>2, <1>7, <1>8, <1>9, <1>11 DEF MenuInv

\* A refresh: one that is dropped makes its parents unknown, one that is sent will load them.
LEMMA UpdateKept ==
  ASSUME MenuInv, NEW p \in Ids \cup {0}, NEW depth \in Depths, UpdateLayout(p, depth),
         UNCHANGED <<app, appEnabled, menuItems, isEnabled, ifaceValid, unregistering, menuInbox>>,
         views' \in [MenuViews -> {"closed", "pending", "waiting", "loaded"}], RefsCounted',
         \/ delayed' = delayed
         \/ /\ delayed # <<>> /\ delayed' = Tail(delayed)
            /\ p = Head(delayed) /\ depth = Unlimited
  PROVE  MenuInv'
<1>1. MenuTypes /\ (ifaceValid => ~unregistering /\ OneAnswer /\ MenuFresh)
  BY DEF MenuInv
<1>2. \/ UNCHANGED <<updating, sent>> /\ known' = known \ Loads(p, depth) /\ (updating # {} \/ ~ifaceValid \/ unregistering)
      \/ updating = {} /\ updating' = {<<p, depth>>} /\ sent' = TRUE /\ known' = known
  BY DEF UpdateLayout
<1>3. known' \subseteq known
  BY <1>2
<1>4. MenuTypes'
  <2>1. delayed' \in Seq(Ids \cup {0})
    <3>1. delayed \in Seq(Ids \cup {0})
      BY <1>1 DEF MenuTypes
    <3>2. delayed # <<>> => Tail(delayed) \in Seq(Ids \cup {0})
      BY <3>1, HeadTailProperties
    <3> QED BY <3>1, <3>2
  <2>2. updating' = {} \/ \E o \in Ids \cup {0}, d \in Depths : updating' = {<<o, d>>}
    BY <1>1, <1>2 DEF MenuTypes
  <2>3. known' \subseteq menuItems' \cup {0}
    BY <1>1, <1>3 DEF MenuTypes
  <2> QED BY <1>1, <2>1, <2>2, <2>3 DEF MenuTypes
<1>5. ASSUME ifaceValid PROVE OneAnswer'
  <2>1. OneAnswer
    BY <1>1, <1>5
  <2>2. CASE UNCHANGED <<updating, sent>>
    BY <2>1, <2>2 DEF OneAnswer
  <2>3. CASE updating = {} /\ updating' = {<<p, depth>>}
    BY <2>1, <2>3 DEF OneAnswer
  <2> QED BY <1>2, <2>2, <2>3
<1>6. ASSUME ifaceValid, NEW q \in app \cup {0}
      PROVE  (q \in known' => KnownOK(q)') /\ InboxOK(q)'
  <2>1. (q \in known => KnownOK(q)) /\ InboxOK(q)
    BY <1>1, <1>6 DEF MenuFresh
  <2>2. InboxOK(q)'
    BY <2>1 DEF InboxOK, Off
  <2>3. Coming(q) => Coming(q)' \/ (depth = Unlimited /\ q \in Loads(p, depth))
    <3>1. CASE delayed' = delayed
      BY <3>1 DEF Coming
    <3>2. CASE /\ delayed # <<>> /\ delayed' = Tail(delayed)
               /\ p = Head(delayed) /\ depth = Unlimited
      <4>1. Holds(delayed, DelayedFor(q)) /\ p \notin DelayedFor(q) => Holds(delayed', DelayedFor(q))
        BY <1>1, <3>2, TakeOne DEF MenuTypes
      <4> QED BY <3>2, <4>1 DEF Coming, DelayedFor
    <3> QED BY <3>1, <3>2
  <2>5. ASSUME q \in known' PROVE KnownOK(q)'
    <3>1. KnownOK(q)
      BY <1>3, <2>1, <2>5
    <3>2. CASE UNCHANGED updating /\ known' = known \ Loads(p, depth)
      <4>1. q \notin Loads(p, depth)
        BY <2>5, <3>2
      <4> QED BY <2>3, <3>1, <3>2, <4>1 DEF KnownOK
    <3>3. CASE updating = {} /\ updating' = {<<p, depth>>}
      <4>1. q \in Loads(p, depth) => \E u \in updating' : q \in Loads(u[1], u[2])
        BY <3>3
      <4> QED BY <2>3, <3>1, <3>3, <4>1 DEF KnownOK
    <3> QED BY <1>2, <3>2, <3>3
  <2> QED BY <2>2, <2>5
<1>7. ASSUME ifaceValid PROVE MenuFresh'
  BY <1>6, <1>7 DEF MenuFresh
<1> QED BY <1>1, <1>4, <1>5, <1>7 DEF MenuInv

LEMMA DelayedKept == ASSUME MenuInv, DelayedLayoutUpdated PROVE MenuInv'
<1>1. /\ UNCHANGED <<app, appEnabled, menuItems, isEnabled, ifaceValid, unregistering, menuInbox,
                     refcount, views>>
      /\ delayed # <<>> /\ delayed' = Tail(delayed) /\ UpdateLayout(Head(delayed), Unlimited)
  BY DEF DelayedLayoutUpdated, appVars, treeVars, viewVars
<1>2. /\ Head(delayed) \in Ids \cup {0} /\ Unlimited \in Depths
      /\ views' \in [MenuViews -> {"closed", "pending", "waiting", "loaded"}]
  BY <1>1, HeadTailProperties DEF MenuInv, MenuTypes, Depths
<1>3. RefsCounted'
  BY <1>1 DEF MenuInv, RefsCounted, Opened
<1> QED BY <1>1, <1>2, <1>3, UpdateKept

LEMMA RefAnsweredKept == ASSUME MenuInv, RefAnswered PROVE MenuInv'
<1>1. UNCHANGED <<app, appEnabled, menuItems, isEnabled, ifaceValid, unregistering, menuInbox, delayed,
                  refcount, views>>
  BY DEF RefAnswered, appVars, treeVars, menuBusVars
<1>2. RefsCounted'
  BY <1>1 DEF MenuInv, RefsCounted, Opened
<1>3. CASE unregistering
  <2>1. UNCHANGED <<updating, sent, known>>
    BY <1>3 DEF RefAnswered
  <2>2. ~ifaceValid
    BY <1>3 DEF MenuInv
  <2>3. MenuTypes'
    BY <1>1, <2>1 DEF MenuInv, MenuTypes
  <2> QED BY <1>1, <1>2, <2>2, <2>3 DEF MenuInv
<1>4. CASE ~unregistering
  <2>1. UpdateLayout(0, 1) /\ 1 \in Depths
    BY <1>4 DEF RefAnswered, Depths
  <2>2. views' \in [MenuViews -> {"closed", "pending", "waiting", "loaded"}]
    BY <1>1 DEF MenuInv, MenuTypes
  <2> QED BY <1>1, <1>2, <2>1, <2>2, UpdateKept
<1> QED BY <1>3, <1>4

\* A page that is counted, or no longer counted.
LEMMA RefsChange ==
  ASSUME NEW v \in MenuViews, NEW s \in {"closed", "pending", "waiting", "loaded"},
         views \in [MenuViews -> {"closed", "pending", "waiting", "loaded"}], RefsCounted,
         views' = [views EXCEPT ![v] = s],
         refcount' = IF views[v] = "closed" /\ s # "closed" THEN refcount + 1
                     ELSE IF views[v] # "closed" /\ s = "closed" THEN refcount - 1 ELSE refcount
  PROVE  RefsCounted' /\ views' \in [MenuViews -> {"closed", "pending", "waiting", "loaded"}]
<1>1. IsFiniteSet(Opened) /\ (v \in Opened <=> views[v] # "closed")
  BY ViewsAssumption, FS_Subset DEF Opened
<1>2. Cardinality(Opened) \in Nat
  BY <1>1, FS_CardinalityType
<1>3. Opened' = IF s = "closed" THEN Opened \ {v} ELSE Opened \cup {v}
  BY DEF Opened
<1>4. /\ Cardinality(Opened \cup {v}) = IF v \in Opened THEN Cardinality(Opened) ELSE Cardinality(Opened) + 1
      /\ Cardinality(Opened \ {v}) = IF v \in Opened THEN Cardinality(Opened) - 1 ELSE Cardinality(Opened)
  BY <1>1, FS_AddElement, FS_RemoveElement
<1> HIDE DEF Opened
<1>5. RefsCounted'
  BY <1>1, <1>2, <1>3, <1>4 DEF RefsCounted
<1> QED BY <1>5

LEMMA ViewAnsweredKept == ASSUME MenuInv, NEW v \in MenuViews, ViewAnswered(v) PROVE MenuInv'
<1>1. /\ UNCHANGED <<app, appEnabled, menuItems, isEnabled, ifaceValid, unregistering, menuInbox, delayed,
                     refcount>>
      /\ views[v] = "pending" /\ UpdateLayout(0, Unlimited)
  BY DEF ViewAnswered, appVars, treeVars, menuBusVars
<1>2. PICK s \in {"waiting", "loaded"} : views' = [views EXCEPT ![v] = s]
  BY DEF ViewAnswered
<1>3. RefsCounted' /\ views' \in [MenuViews -> {"closed", "pending", "waiting", "loaded"}]
  BY <1>1, <1>2, RefsChange DEF MenuInv, MenuTypes
<1>4. Unlimited \in Depths
  BY DEF Depths
<1> QED BY <1>1, <1>3, <1>4, UpdateKept

LEMMA ViewOpensKept == ASSUME MenuInv, NEW v \in MenuViews, ViewOpens(v) PROVE MenuInv'
<1>1. /\ UNCHANGED <<app, appEnabled, menuItems, isEnabled, updating, sent, ifaceValid, unregistering, menuInbox,
                     delayed, known>>
      /\ views[v] = "closed" /\ refcount' = refcount + 1 /\ views' = [views EXCEPT ![v] = "pending"]
  BY DEF ViewOpens, appVars, treeVars, menuBusVars
<1>2. RefsCounted' /\ views' \in [MenuViews -> {"closed", "pending", "waiting", "loaded"}]
  BY <1>1, RefsChange DEF MenuInv, MenuTypes
<1>3. MenuTypes'
  BY <1>1, <1>2 DEF MenuInv, MenuTypes
<1>4. ifaceValid => ~unregistering' /\ OneAnswer' /\ MenuFresh'
  BY <1>1 DEF MenuInv, OneAnswer, MenuFresh, KnownOK, InboxOK, Off, Coming
<1> QED BY <1>1, <1>2, <1>3, <1>4 DEF MenuInv

\* The last page that closes leaves the first level.
LEMMA ViewClosesKept == ASSUME MenuInv, NEW v \in MenuViews, ViewCloses(v) PROVE MenuInv'
<1>1. /\ UNCHANGED <<app, appEnabled, isEnabled, updating, sent, ifaceValid, unregistering, menuInbox,
                     delayed>>
      /\ views[v] # "closed" /\ refcount' = refcount - 1 /\ views' = [views EXCEPT ![v] = "closed"]
      /\ \/ menuItems' = menuItems /\ known' = known
         \/ menuItems' = Kids(menuItems, 0) /\ known' = known \cap {0}
  BY DEF ViewCloses, appVars, menuBusVars, CollapseToRoot
<1>2. RefsCounted' /\ views' \in [MenuViews -> {"closed", "pending", "waiting", "loaded"}]
  BY <1>1, RefsChange DEF MenuInv, MenuTypes
<1>3. MenuTypes /\ IsTree(menuItems)
  BY DEF MenuInv, MenuTypes, Trees
<1>4. menuItems' \in Trees /\ known' \subseteq menuItems' \cup {0}
  <2>1. menuItems \in Trees /\ Kids(menuItems, 0) \in Trees
    BY <1>3, FirstLevel DEF Trees, IsTree
  <2> QED BY <1>1, <1>3, <2>1 DEF MenuTypes
<1>5. MenuTypes'
  BY <1>1, <1>2, <1>3, <1>4 DEF MenuTypes
<1>6. ASSUME NEW q \in known' PROVE q \in known /\ Kids(menuItems', q) = Kids(menuItems, q)
  BY <1>1, <1>3, <1>6, FirstLevel
<1>7. ASSUME ifaceValid PROVE ~unregistering' /\ OneAnswer'
  BY <1>1, <1>7 DEF MenuInv, OneAnswer
<1>8. ASSUME ifaceValid, NEW q \in app \cup {0}
      PROVE  (q \in known' => KnownOK(q)') /\ InboxOK(q)'
  <2>1. (q \in known => KnownOK(q)) /\ InboxOK(q)
    BY <1>8 DEF MenuInv, MenuFresh
  <2>2. InboxOK(q)'
    BY <1>1, <2>1 DEF InboxOK, Off
  <2>3. q \in known' => KnownOK(q)'
    BY <1>1, <1>6, <2>1 DEF KnownOK, Coming
  <2> QED BY <2>2, <2>3
<1>9. ASSUME ifaceValid PROVE MenuFresh'
  BY <1>1, <1>8, <1>9 DEF MenuFresh
<1> QED BY <1>1, <1>2, <1>5, <1>7, <1>9 DEF MenuInv

\* The answer is taken: what it loads is the application's, or the signal is to come.
LEMMA ReplyMenuKept == ASSUME MenuInv, LayoutReply PROVE MenuInv'
<1> DEFINE r == Head(menuInbox)
<1>1. /\ MenuTypes /\ RefsCounted /\ (ifaceValid => ~unregistering /\ OneAnswer /\ MenuFresh)
      /\ IsTree(menuItems)
  BY DEF MenuInv, MenuTypes, Trees
<1>2. /\ menuInbox # <<>> /\ menuInbox' = Tail(menuInbox) /\ r.kind = "reply"
      /\ UNCHANGED <<app, appEnabled, sent, ifaceValid, unregistering, refcount, views, delayed>>
  BY DEF LayoutReply, appVars, viewVars
<1>3. r \in Answers /\ menuInbox' \in Seq(MenuMessages)
  BY <1>1, <1>2, HeadTailProperties DEF MenuTypes, Answers
<1>4. RefsCounted'
  BY <1>1, <1>2 DEF RefsCounted, Opened
<1>5. CASE ~ifaceValid
  <2>1. UNCHANGED <<menuItems, isEnabled, updating, known>>
    BY <1>5 DEF LayoutReply, treeVars
  <2>2. MenuTypes'
    BY <1>1, <1>2, <1>3, <2>1 DEF MenuTypes
  <2> QED BY <1>2, <1>4, <1>5, <2>2 DEF MenuInv
<1>6. CASE ifaceValid
  <2>1. OneAnswer /\ MenuFresh /\ ~unregistering
    BY <1>1, <1>6
  <2>2. updating # {} /\ ~sent /\ ~Holds(menuInbox', Answers) /\ AtMostOne(menuInbox', Answers)
    <3>1. /\ Holds(menuInbox, Answers) /\ ~Holds(menuInbox', Answers)
          /\ AtMostOne(menuInbox', Answers)
      BY <1>1, <1>2, <1>3, <2>1, TakeOneAnswer DEF MenuTypes
    <3> QED BY <2>1, <3>1 DEF OneAnswer
  <2>3. PICK p \in Ids \cup {0}, depth \in Depths : updating = {<<p, depth>>}
    BY <1>1, <2>2 DEF MenuTypes
  <2> DEFINE u == CHOOSE x \in updating : TRUE
             Done(o, d) ==
               /\ updating' = {}
               /\ \/ /\ r.error \/ o \notin menuItems \cup {0}
                     /\ menuItems' = menuItems /\ isEnabled' = isEnabled /\ known' = known \ Loads(o, d)
                  \/ /\ ~(r.error \/ o \notin menuItems \cup {0})
                     /\ menuItems' = Merged(r.ids, o, d)
                     /\ isEnabled' = [i \in Ids |-> IF i \in Region(o, d) \cap r.ids THEN r.props[i] ELSE isEnabled[i]]
                     /\ known' = (known \cup Loads(o, d)) \cap (menuItems' \cup {0})
  <2>41. Done(u[1], u[2])
    BY <1>6 DEF LayoutReply, treeVars
  <2>42. u = <<p, depth>>
    BY <2>3
  <2> HIDE DEF u, Done
  <2>43. u[1] = p /\ u[2] = depth
    BY <2>42
  <2>4. Done(p, depth)
    BY <2>41, <2>43
  <2> USE DEF Done
  <2>5. /\ updating' = {}
        /\ \/ /\ r.error \/ p \notin menuItems \cup {0}
              /\ menuItems' = menuItems /\ isEnabled' = isEnabled /\ known' = known \ Loads(p, depth)
           \/ /\ ~r.error /\ p \in menuItems \cup {0}
              /\ menuItems' = Merged(r.ids, p, depth)
              /\ isEnabled' = [i \in Ids |-> IF i \in Region(p, depth) \cap r.ids THEN r.props[i] ELSE isEnabled[i]]
              /\ known' = (known \cup Loads(p, depth)) \cap (menuItems' \cup {0})
    BY <2>4
  <2> HIDE DEF r, Done
  <2>6. OneAnswer'
    BY <1>2, <2>1, <2>2 DEF OneAnswer
  <2>7. r.error \in BOOLEAN /\ IsTree(r.ids) /\ r.props \in [Ids -> BOOLEAN]
    BY <1>3 DEF Answers, MenuMessages, Trees
  <2>8. ASSUME NEW q \in app \cup {0}
        PROVE  /\ q \in known => KnownOK(q)
               /\ r.error \/ Kids(r.ids, q) = Kids(app, q) \/ Coming(q)'
               /\ (Coming(q) => Coming(q)') /\ InboxOK(q)'
    <3>1. (q \in known => KnownOK(q)) /\ InboxOK(q)
      BY <2>1 DEF MenuFresh
    <3>2. /\ Mended(menuInbox', Off(q), SignalsFor(q))
          /\ r \in Off(q) => Holds(menuInbox', SignalsFor(q))
          /\ Holds(menuInbox, SignalsFor(q)) /\ r \notin SignalsFor(q) => Holds(menuInbox', SignalsFor(q))
      BY <1>1, <1>2, <3>1, TakeOne DEF MenuTypes, InboxOK, r
    <3>3. r \notin SignalsFor(q)
      BY <1>2 DEF SignalsFor
    <3>4. Coming(q) => Coming(q)'
      BY <1>2, <3>2, <3>3 DEF Coming
    <3>5. InboxOK(q)'
      BY <1>2, <3>2 DEF InboxOK, Off
    <3>6. r \in Off(q) => Coming(q)'
      BY <3>2 DEF Coming
    <3>7. r.error \/ Kids(r.ids, q) = Kids(app, q) \/ r \in Off(q)
      BY <1>3 DEF Off
    <3> QED BY <3>1, <3>4, <3>5, <3>6, <3>7
  <2>9. CASE menuItems' = menuItems /\ isEnabled' = isEnabled /\ known' = known \ Loads(p, depth)
    <3>1. MenuTypes'
      BY <1>1, <1>2, <1>3, <2>5, <2>9 DEF MenuTypes
    <3>2. ASSUME NEW q \in app \cup {0}, q \in known' PROVE KnownOK(q)'
      <4>1. q \notin Loads(p, depth) /\ KnownOK(q)
        BY <2>8, <2>9, <3>2
      <4>2. Kids(menuItems, q) = Kids(app, q) \/ Coming(q)
        BY <2>3, <4>1 DEF KnownOK
      <4> QED BY <1>2, <2>8, <2>9, <4>2 DEF KnownOK
    <3>3. MenuFresh'
      BY <1>2, <2>8, <3>2 DEF MenuFresh
    <3> QED BY <1>2, <1>4, <2>1, <2>6, <3>1, <3>3 DEF MenuInv
  <2>10. CASE /\ ~r.error /\ p \in menuItems \cup {0}
              /\ menuItems' = Merged(r.ids, p, depth)
              /\ isEnabled' = [i \in Ids |-> IF i \in Region(p, depth) \cap r.ids THEN r.props[i] ELSE isEnabled[i]]
              /\ known' = (known \cup Loads(p, depth)) \cap (menuItems' \cup {0})
    <3>1. /\ IsTree(menuItems')
          /\ \A q \in Loads(p, depth) : Kids(menuItems', q) = Kids(r.ids, q)
          /\ \A q \in (menuItems' \cup {0}) \ Loads(p, depth) : Kids(menuItems', q) = Kids(menuItems, q)
      BY <1>1, <2>7, <2>10, MergeTree
    <3>2. MenuTypes'
      <4>1. menuItems' \in Trees
        BY <3>1 DEF Trees, IsTree
      <4>2. isEnabled' \in [Ids -> BOOLEAN]
        BY <1>1, <2>7, <2>10 DEF MenuTypes
      <4>3. known' \subseteq menuItems' \cup {0}
        BY <2>10
      <4> QED BY <1>1, <1>2, <1>3, <2>5, <4>1, <4>2, <4>3 DEF MenuTypes
    <3>3. ASSUME NEW q \in app \cup {0}, q \in known' PROVE KnownOK(q)'
      <4>1. CASE q \in Loads(p, depth)
        <5>1. Kids(menuItems', q) = Kids(app, q) \/ Coming(q)'
          BY <2>8, <2>10, <3>1, <4>1
        <5> QED BY <1>2, <2>8, <5>1 DEF KnownOK
      <4>2. CASE q \notin Loads(p, depth)
        <5>1. q \in known /\ Kids(menuItems', q) = Kids(menuItems, q)
          BY <2>10, <3>1, <3>3, <4>2
        <5>2. Kids(menuItems, q) = Kids(app, q) \/ Coming(q)
          BY <2>3, <2>8, <4>2, <5>1 DEF KnownOK
        <5> QED BY <1>2, <2>8, <5>1, <5>2 DEF KnownOK
      <4> QED BY <4>1, <4>2
    <3>4. MenuFresh'
      BY <1>2, <2>8, <3>3 DEF MenuFresh
    <3> QED BY <1>2, <1>4, <2>1, <2>6, <3>2, <3>4 DEF MenuInv
  <2> QED BY <2>5, <2>9, <2>10
<1> QED BY <1>5, <1>6

LEMMA UnregistersKept == ASSUME MenuInv, PrepareMenuForUnregistration PROVE MenuInv'
<1>1. /\ UNCHANGED <<app, appEnabled, menuItems, isEnabled, updating, ifaceValid, refcount, views, menuInbox,
                     delayed, known>>
      /\ ~ifaceValid
  BY DEF PrepareMenuForUnregistration, appVars, treeVars, viewVars, menuBusVars
<1> QED BY <1>1 DEF MenuInv, MenuTypes, RefsCounted, Opened

LEMMA MenuStep == MenuInv /\ [MenuNext]_menuVars => MenuInv'
<1> SUFFICES ASSUME MenuInv, [MenuNext]_menuVars PROVE MenuInv'
  OBVIOUS
<1>1. CASE \E i \in Ids : AppAdds(i) \/ AppRemoves(i) \/ \E key \in {"enabled", "other"} : AppSets(i, key)
  BY <1>1, AddsKept, RemovesKept, SetsKept
<1>2. CASE AppAnswers \/ AppLeaves \/ TimesOut
  BY <1>2, AnswersKept, LeavesKept, TimesOutKept
<1>3. CASE TakeMenuMessage \/ LayoutReply \/ DelayedLayoutUpdated \/ PrepareMenuForUnregistration
  BY <1>3, TakeMenuKept, ReplyMenuKept, DelayedKept, UnregistersKept
<1>4. CASE \E v \in MenuViews : ViewOpens(v) \/ ViewCloses(v) \/ ViewAnswered(v)
  BY <1>4, ViewOpensKept, ViewClosesKept, ViewAnsweredKept
<1>5. CASE RefAnswered
  BY <1>5, RefAnsweredKept
<1>6. CASE UNCHANGED menuVars
  BY <1>6 DEF menuVars, MenuInv, MenuTypes, RefsCounted, Opened, OneAnswer, MenuFresh, KnownOK, InboxOK,
              Off, Coming
<1> QED BY <1>1, <1>2, <1>3, <1>4, <1>5, <1>6 DEF MenuNext

\* For every tree of ids and every set of pages, and however the changes, the answers, the
\* time limit, the timers and the pages cross: the model is a tree and its references are
\* the open pages; and once nothing is on its way, every parent that was loaded, with no
\* refresh of it dropped or failed since, has the application's children (DBusMenuModel).
THEOREM MenuAlwaysAgrees == MenuSpec => []MenuAgrees
<1> QED BY InitMenuInv, MenuStep, MenuInvGives, PTL DEF MenuSpec

-----------------------------------------------------------------------------
(* The workspaces and monitors.  A change that no line tells of any more   *)
(* has been asked about, or is in the answer, or in the model; and the     *)
(* pointers of the sorted list are those of the workspaces, so that        *)
(* monitors that are not told of a new list have nothing to learn from it. *)

SpaceFields == {"obj", "mon", "kids", "act", "last", "urgent"}
SpaceChanges == [kind : {"createworkspace", "destroyworkspace", "moveworkspace"}, id : SpaceIds]
SpaceLines == SpaceChanges \cup [kind : {"workspacev2"}, id : SpaceIds]
                \cup [kind : {"activewindowv2", "urgent"}, id : Tops]

\* A workspace of id i, when the toplevels are where `of` says.
Sound(sp, of, i) ==
  /\ DOMAIN sp = SpaceFields /\ sp.mon \in Monitors
  /\ sp.kids \in Seq(Tops) /\ IsInjective(sp.kids) /\ \A t \in ToSet(sp.kids) : of[t] = i
  /\ sp.act # NoTop => sp.act \in ToSet(sp.kids)

KidsSound == \A i \in KnownIds : Sound(spaces[i], topOf, i)

SpaceTypeOK ==
  /\ place \in [SpaceIds -> Monitors \cup {-1}] /\ DOMAIN onto = Monitors
  /\ topOf \in [Tops -> SpaceIds \cup {0}] /\ KnownIds \subseteq SpaceIds
  /\ hyLines \in Seq(SpaceLines)
  /\ spacesAsk.is \in {"idle", "asked", "answered"} /\ (spacesAsk.is = "idle" => spacesAsk = NoAsk)
  /\ spacesAsk.is = "answered" =>
       /\ DOMAIN spacesAsk.of \subseteq SpaceIds
       /\ \A i \in DOMAIN spacesAsk.of : spacesAsk.of[i].mon \in Monitors
  /\ monitorsAsk.is = "answered" => DOMAIN monitorsAsk.of = Monitors
  /\ DOMAIN monitors \in {{}, Monitors}

\* What is in `of` is what Hyprland has.
Fits(of) == DOMAIN of = Existing /\ \A i \in DOMAIN of : of[i].mon = place[i]

ChangeTold ==
  ~behind => \/ Holds(hyLines, SpaceChanges) \/ spacesAsk.is = "asked"
             \/ spacesAsk.is = "answered" /\ Fits(spacesAsk.of)
             \/ spacesAsk.is = "idle" /\ Fits(spaces)

Pointers(sps) == {Pointer(sps, i) : i \in DOMAIN sps}

ListedOnce(sps, mons) ==
  DOMAIN mons # {} => \A p \in Pointers(sps) :
    \E m \in DOMAIN mons : \A n \in DOMAIN mons : p \in mons[n].list <=> n = m

IsPointer(p) == p = [id |-> p.id, obj |-> p.obj]

Shown(sps, mon) ==
  /\ DOMAIN mon = {"list", "act", "want"}
  /\ IsPointer(mon.act) /\ \A p \in mon.list : IsPointer(p)
  /\ mon.act = Nowhere \/ mon.act \in Pointers(sps) \/ ~(mon.list \subseteq Pointers(sps))

MonitorsSound ==
  /\ ToSet(byMonitor) = Pointers(spaces)
  /\ ListedOnce(spaces, monitors)
  /\ \A m \in DOMAIN monitors : Shown(spaces, monitors[m])

SpacesInv == SpaceTypeOK /\ KidsSound /\ ChangeTold /\ MonitorsSound

\* What becomes of one workspace.

Same(sp, new) == new.obj = sp.obj /\ new.mon = sp.mon

LEMMA HasKid ==
  ASSUME NEW M, NEW list \in Seq(M), NEW t
  PROVE  Contains(list, t) <=> t \in ToSet(list)
<1>1. DOMAIN list = 1 .. Len(list)
  BY LenProperties
<1> QED BY <1>1 DEF Contains, ToSet

LEMMA WithActiveSound ==
  ASSUME NEW sp, NEW of, NEW i, Sound(sp, of, i), NEW t
  PROVE  Sound(WithActive(sp, t), of, i) /\ Same(sp, WithActive(sp, t))
<1>1. CASE ~Contains(sp.kids, t)
  BY <1>1 DEF WithActive, Same
<1>2. CASE Contains(sp.kids, t)
  <2> DEFINE new == [sp EXCEPT !.act = t, !.last = NoTop, !.urgent = FALSE]
  <2>1. WithActive(sp, t) = new
    BY <1>2 DEF WithActive
  <2>2. t \in ToSet(sp.kids)
    BY <1>2, HasKid DEF Sound
  <2>3. /\ DOMAIN new = SpaceFields /\ new.obj = sp.obj /\ new.mon = sp.mon
        /\ new.kids = sp.kids /\ new.act = t
    BY DEF Sound, SpaceFields
  <2> HIDE DEF new
  <2> QED BY <2>1, <2>2, <2>3 DEF Sound, Same
<1> QED BY <1>1, <1>2

LEMMA UrgentSound ==
  ASSUME NEW sp, NEW of, NEW i, Sound(sp, of, i), NEW u
  PROVE  Sound([sp EXCEPT !.urgent = u], of, i) /\ Same(sp, [sp EXCEPT !.urgent = u])
<1> DEFINE new == [sp EXCEPT !.urgent = u]
<1>1. /\ DOMAIN new = SpaceFields /\ new.obj = sp.obj /\ new.mon = sp.mon
      /\ new.kids = sp.kids /\ new.act = sp.act
  BY DEF Sound, SpaceFields
<1> HIDE DEF new
<1>2. Sound(new, of, i) /\ Same(sp, new)
  BY <1>1 DEF Sound, Same
<1> QED BY <1>2 DEF new

LEMMA KidsAdded ==
  ASSUME NEW sp, NEW of, NEW i, Sound(sp, of, i),
         NEW kids \in Seq(Tops), IsInjective(kids), ToSet(sp.kids) \subseteq ToSet(kids),
         \A t \in ToSet(kids) : of[t] = i
  PROVE  Sound([sp EXCEPT !.kids = kids], of, i) /\ Same(sp, [sp EXCEPT !.kids = kids])
<1> DEFINE new == [sp EXCEPT !.kids = kids]
<1>1. /\ DOMAIN new = SpaceFields /\ new.obj = sp.obj /\ new.mon = sp.mon
      /\ new.kids = kids /\ new.act = sp.act
  BY DEF Sound, SpaceFields
<1> HIDE DEF new
<1>2. Sound(new, of, i) /\ Same(sp, new)
  BY <1>1 DEF Sound, Same
<1> QED BY <1>2 DEF new

LEMMA AttachedSound ==
  ASSUME NEW sp, NEW of, NEW i, Sound(sp, of, i), NEW t \in Tops, of[t] = i
  PROVE  Sound(Attached(sp, t), of, i) /\ Same(sp, Attached(sp, t))
<1>1. CASE Contains(sp.kids, t)
  BY <1>1 DEF Attached, Same
<1>2. CASE ~Contains(sp.kids, t)
  <2> DEFINE kids == Append(sp.kids, t)
             more == [sp EXCEPT !.kids = kids]
  <2>1. t \notin ToSet(sp.kids)
    BY <1>2, HasKid DEF Sound
  <2>2. kids \in Seq(Tops) /\ IsInjective(kids) /\ ToSet(kids) = ToSet(sp.kids) \cup {t}
    BY <2>1, PutLast DEF Sound
  <2>3. Attached(sp, t) = IF sp.last = t THEN WithActive(more, t) ELSE more
    BY <1>2 DEF Attached
  <2> HIDE DEF kids
  <2>4. \A u \in ToSet(kids) : of[u] = i
    BY <2>2 DEF Sound
  <2>5. Sound(more, of, i) /\ Same(sp, more)
    BY <2>2, <2>4, KidsAdded
  <2> HIDE DEF more
  <2>6. Sound(WithActive(more, t), of, i) /\ Same(more, WithActive(more, t))
    BY <2>5, WithActiveSound
  <2> QED BY <2>3, <2>5, <2>6 DEF Same
<1> QED BY <1>1, <1>2

\* Two lists that have no element in common, one behind the other.
LEMMA PutBehind ==
  ASSUME NEW M, NEW p \in Seq(M), NEW q \in Seq(M), IsInjective(p), IsInjective(q),
         ToSet(p) \cap ToSet(q) = {}
  PROVE  p \o q \in Seq(M) /\ IsInjective(p \o q) /\ ToSet(p \o q) = ToSet(p) \cup ToSet(q)
<1> DEFINE r == p \o q
           n == Len(p)
<1>1. /\ n \in Nat /\ Len(q) \in Nat /\ DOMAIN p = 1 .. n /\ DOMAIN q = 1 .. Len(q)
      /\ DOMAIN r = 1 .. n + Len(q) /\ r \in Seq(M)
      /\ \A k \in 1 .. n + Len(q) : r[k] = IF k <= n THEN p[k] ELSE q[k - n]
  BY ConcatProperties, LenProperties
<1> HIDE DEF r, n
<1>2. \A k \in DOMAIN r : \/ k \in DOMAIN p /\ r[k] = p[k]
                          \/ k - n \in DOMAIN q /\ r[k] = q[k - n] /\ k \in Nat
  BY <1>1
<1>3. (\A k \in DOMAIN p : k \in DOMAIN r /\ r[k] = p[k])
      /\ \A k \in DOMAIN q : n + k \in DOMAIN r /\ r[n + k] = q[k]
  BY <1>1
<1>4. ToSet(r) = ToSet(p) \cup ToSet(q)
  <2>1. ASSUME NEW x \in ToSet(r) PROVE x \in ToSet(p) \cup ToSet(q)
    BY <1>2 DEF ToSet
  <2>2. ASSUME NEW x \in ToSet(p) \cup ToSet(q) PROVE x \in ToSet(r)
    BY <1>3 DEF ToSet
  <2> QED BY <2>1, <2>2
<1>5. IsInjective(r)
  <2> SUFFICES ASSUME NEW k \in DOMAIN r, NEW l \in DOMAIN r, r[k] = r[l] PROVE k = l
    BY DEF IsInjective
  <2>1. \A x \in DOMAIN p, y \in DOMAIN q : p[x] # q[y]
    BY DEF ToSet
  <2>2. CASE k \in DOMAIN p /\ r[k] = p[k] /\ l \in DOMAIN p /\ r[l] = p[l]
    BY <2>2 DEF IsInjective
  <2>3. CASE k - n \in DOMAIN q /\ r[k] = q[k - n] /\ l - n \in DOMAIN q /\ r[l] = q[l - n] /\ k \in Nat /\ l \in Nat
    <3>1. k - n = l - n
      BY <2>3 DEF IsInjective
    <3> QED BY <1>1, <2>3, <3>1
  <2> QED BY <1>2, <2>1, <2>2, <2>3
<1> QED BY <1>1, <1>4, <1>5 DEF r

LEMMA AttachedAllSound ==
  ASSUME NEW sp, NEW of, NEW i, Sound(sp, of, i), NEW ts \in SUBSET Tops, \A t \in ts : of[t] = i
  PROVE  Sound(AttachedAll(sp, ts), of, i) /\ Same(sp, AttachedAll(sp, ts))
<1> DEFINE more == ts \ ToSet(sp.kids)
           kids == sp.kids \o SetToSeq(more)
           all == [sp EXCEPT !.kids = kids]
<1>1. IsFiniteSet(more)
  BY FS_Subset, SpacesAssumption
<1>2. /\ SetToSeq(more) \in Seq(more) /\ IsInjective(SetToSeq(more))
      /\ ToSet(SetToSeq(more)) = more
  <2> HIDE DEF more
  <2>1. /\ IsInjective(SetToSeq(more)) /\ SetToSeq(more) \in Seq(more)
        /\ \A k \in DOMAIN SetToSeq(more) : SetToSeq(more)[k] \in more
        /\ \A x \in more : \E k \in DOMAIN SetToSeq(more) : SetToSeq(more)[k] = x
    BY <1>1, SomeOrder
  <2> QED BY <2>1 DEF ToSet
<1>3. SetToSeq(more) \in Seq(Tops)
  <2>1. more \subseteq Tops
    OBVIOUS
  <2> HIDE DEF more
  <2> QED BY <1>2, <2>1, SeqDef
<1>4. kids \in Seq(Tops) /\ IsInjective(kids) /\ ToSet(kids) = ToSet(sp.kids) \cup more
  <2>1. ToSet(sp.kids) \cap ToSet(SetToSeq(more)) = {}
    BY <1>2
  <2> HIDE DEF more
  <2> QED BY <1>2, <1>3, <2>1, PutBehind DEF Sound
<1>5. AttachedAll(sp, ts) = IF sp.last \in more THEN WithActive(all, sp.last) ELSE all
  BY DEF AttachedAll
<1>6. \A t \in ToSet(kids) : of[t] = i
  BY <1>4 DEF Sound
<1> HIDE DEF more, kids
<1>7. Sound(all, of, i) /\ Same(sp, all)
  BY <1>4, <1>6, KidsAdded
<1> HIDE DEF all
<1>8. Sound(WithActive(all, sp.last), of, i) /\ Same(all, WithActive(all, sp.last))
  BY <1>7, WithActiveSound
<1> QED BY <1>5, <1>7, <1>8 DEF Same

\* The toplevel may have gone elsewhere.
LEMMA DetachedSound ==
  ASSUME NEW sp, NEW of, NEW i, Sound(sp, of, i), NEW t, NEW new, \A u \in Tops \ {t} : of[u] = i => new[u] = i
  PROVE  Sound(Detached(sp, t), new, i) /\ Same(sp, Detached(sp, t))
<1> DEFINE kids == RemoveFirst(sp.kids, t)
           act == IF sp.act = t THEN NoTop ELSE sp.act
           next == IF act = NoTop /\ kids # <<>> THEN kids[1] ELSE act
<1>1. sp.kids \in Seq(Tops) /\ ToSet(sp.kids) \subseteq Tops
  BY ElementOfSeq DEF Sound, ToSet
<1>2. kids \in Seq(Tops) /\ IsInjective(kids) /\ ToSet(kids) = ToSet(sp.kids) \ {t}
  BY TakeOut DEF Sound
<1>3. CASE Contains(sp.kids, t)
  <2> DEFINE d == [sp EXCEPT !.kids = kids, !.act = next]
  <2>1. Detached(sp, t) = d
    BY <1>3 DEF Detached
  <2>2. /\ DOMAIN d = SpaceFields /\ d.obj = sp.obj /\ d.mon = sp.mon
        /\ d.kids = kids /\ d.act = next
    BY DEF Sound, SpaceFields
  <2>3. next # NoTop => next \in ToSet(kids)
    <3>1. act # NoTop => act \in ToSet(kids)
      BY <1>2 DEF Sound
    <3>2. kids # <<>> => kids[1] \in ToSet(kids)
      <4> HIDE DEF kids
      <4> QED BY <1>2, EmptySeq, LenProperties DEF ToSet
    <3> HIDE DEF kids, act
    <3> QED BY <3>1, <3>2
  <2>4. \A u \in ToSet(kids) : new[u] = i
    BY <1>1, <1>2 DEF Sound
  <2> HIDE DEF d, kids, next
  <2>5. d.mon \in Monitors
    BY <2>2 DEF Sound
  <2>6. Sound(d, new, i)
    BY <1>2, <2>2, <2>3, <2>4, <2>5 DEF Sound
  <2> QED BY <2>1, <2>2, <2>6 DEF Same
<1>4. CASE ~Contains(sp.kids, t)
  <2> DEFINE d == [sp EXCEPT !.act = act]
  <2>1. Detached(sp, t) = d
    BY <1>4 DEF Detached
  <2>2. /\ DOMAIN d = SpaceFields /\ d.obj = sp.obj /\ d.mon = sp.mon
        /\ d.kids = sp.kids /\ d.act = act
    BY DEF Sound, SpaceFields
  <2>3. act # NoTop => act \in ToSet(sp.kids)
    BY DEF Sound
  <2>4. t \notin ToSet(sp.kids)
    BY <1>1, <1>4, HasKid
  <2>5. \A u \in ToSet(sp.kids) : new[u] = i
    BY <1>1, <2>4 DEF Sound
  <2> HIDE DEF d, act
  <2>6. Sound(d, new, i)
    BY <2>2, <2>3, <2>5 DEF Sound
  <2> QED BY <2>1, <2>2, <2>6 DEF Same
<1> QED BY <1>3, <1>4

LEMMA UpdatedSound ==
  ASSUME NEW sp, NEW of, NEW i, NEW data, data.mon \in Monitors,
         DOMAIN sp = SpaceFields,
         sp.kids \in Seq(Tops), IsInjective(sp.kids), \A t \in ToSet(sp.kids) : of[t] = i,
         sp.act # NoTop => sp.act \in ToSet(sp.kids)
  PROVE  Sound(Updated(sp, data), of, i) /\ Updated(sp, data).mon = data.mon
<1> DEFINE told == [sp EXCEPT !.mon = data.mon, !.last = data.last]
<1>1. /\ DOMAIN told = SpaceFields /\ told.mon = data.mon
      /\ told.kids = sp.kids /\ told.act = sp.act
  BY DEF SpaceFields
<1>2. Updated(sp, data) = IF data.last = NoTop THEN told ELSE WithActive(told, data.last)
  BY DEF Updated
<1> HIDE DEF told
<1>3. Sound(told, of, i)
  BY <1>1 DEF Sound
<1>4. Sound(WithActive(told, data.last), of, i) /\ Same(told, WithActive(told, data.last))
  BY <1>3, WithActiveSound
<1> QED BY <1>1, <1>2, <1>3, <1>4 DEF Same

LEMMA NewSound ==
  ASSUME NEW n
  PROVE  /\ DOMAIN New(n) = SpaceFields /\ New(n).kids = <<>> /\ New(n).act = NoTop
         /\ New(n).kids \in Seq(Tops) /\ IsInjective(New(n).kids) /\ ToSet(New(n).kids) = {}
<1>1. DOMAIN New(n) = SpaceFields /\ New(n).kids = <<>> /\ New(n).act = NoTop
  BY DEF New, SpaceFields
<1>2. <<>> \in Seq(Tops) /\ IsInjective(<<>>) /\ ToSet(<<>>) = {}
  BY DEF IsInjective, ToSet
<1> QED BY <1>1, <1>2

\* Pointers of workspaces, and the list in order.

LEMMA PointersAre ==
  ASSUME NEW sps
  PROVE  /\ \A i \in DOMAIN sps : /\ Pointer(sps, i) \in Pointers(sps) /\ IsPointer(Pointer(sps, i))
                                  /\ Pointer(sps, i).id = i /\ Pointer(sps, i).obj = sps[i].obj
         /\ \A p \in Pointers(sps) : /\ IsPointer(p) /\ p.id \in DOMAIN sps
                                     /\ p = Pointer(sps, p.id)
         /\ \A p : IsPointer(p) => (Alive(sps, p) <=> p \in Pointers(sps))
<1>1. \A i \in DOMAIN sps : /\ Pointer(sps, i) \in Pointers(sps) /\ IsPointer(Pointer(sps, i))
                            /\ Pointer(sps, i).id = i /\ Pointer(sps, i).obj = sps[i].obj
  BY DEF Pointer, Pointers, IsPointer
<1>2. ASSUME NEW p \in Pointers(sps) PROVE IsPointer(p) /\ p.id \in DOMAIN sps /\ p = Pointer(sps, p.id)
  <2>1. PICK i \in DOMAIN sps : p = Pointer(sps, i)
    BY DEF Pointers
  <2> QED BY <1>1, <2>1
<1>3. ASSUME NEW p, IsPointer(p) PROVE Alive(sps, p) <=> p \in Pointers(sps)
  <2>1. ASSUME Alive(sps, p) PROVE p \in Pointers(sps)
    <3>1. p = Pointer(sps, p.id)
      BY <1>3, <2>1 DEF Alive, Pointer, IsPointer
    <3> QED BY <2>1, <3>1 DEF Alive, Pointers
  <2>2. ASSUME p \in Pointers(sps) PROVE Alive(sps, p)
    BY <1>1, <1>2, <2>2 DEF Alive
  <2> QED BY <2>1, <2>2
<1> QED BY <1>1, <1>2, <1>3

LEMMA PointersKept ==
  ASSUME NEW a, NEW b, DOMAIN a = DOMAIN b, \A i \in DOMAIN a : a[i].obj = b[i].obj
  PROVE  Pointers(a) = Pointers(b)
<1>1. \A i \in DOMAIN a : Pointer(a, i) = Pointer(b, i)
  BY DEF Pointer
<1> QED BY <1>1 DEF Pointers

LEMMA OrderOK ==
  ASSUME NEW data, NEW sps, DOMAIN sps = DOMAIN data, DOMAIN data \subseteq SpaceIds,
         \A i \in DOMAIN data : data[i].mon \in Monitors
  PROVE  ToSet([k \in DOMAIN Order(data) |-> Pointer(sps, Order(data)[k])]) = Pointers(sps)
<1> DEFINE S == DOMAIN data
           Before(i, j) == data[i].mon < data[j].mon \/ (data[i].mon = data[j].mon /\ i < j)
           R == {q \in S \X S : Before(q[1], q[2])}
           Good(r) == \A k, l \in DOMAIN r : k < l => Before(r[k], r[l])
           r == Order(data)
<1>1. IsFiniteSet(S) /\ S \subseteq Nat /\ \A i \in S : data[i].mon \in Nat
  BY FS_Subset, SpacesAssumption
<1>2. \A i, j \in S : <<i, j>> \in R <=> Before(i, j)
  OBVIOUS
<1>3. Orders(R, S)
  <2>1. \A i \in S : ~Before(i, i)
    BY <1>1
  <2>2. \A i, j, k \in S : Before(i, j) /\ Before(j, k) => Before(i, k)
    BY <1>1
  <2>3. \A i, j \in S : i # j => Before(i, j) \/ Before(j, i)
    BY <1>1
  <2> HIDE DEF R, Before, S
  <2> QED BY <1>2, <2>1, <2>2, <2>3 DEF Orders
<1>4. PICK f \in [1 .. Cardinality(S) -> S] : InOrder(f, R)
  BY <1>1, <1>3, OrderExists
<1>5. r = CHOOSE x \in [1 .. Cardinality(S) -> S] : Good(x)
  BY DEF Order
<1>6. ASSUME NEW x \in [1 .. Cardinality(S) -> S] PROVE Good(x) <=> InOrder(x, R)
  <2>1. \A k \in DOMAIN x : x[k] \in S
    OBVIOUS
  <2> HIDE DEF R, Before, S
  <2> QED BY <1>2, <2>1 DEF InOrder
<1> HIDE DEF Good, r, S, R
<1>7. r \in [1 .. Cardinality(S) -> S] /\ Good(r)
  BY <1>4, <1>5, <1>6
<1>8. Covers(r, S)
  BY <1>1, <1>3, <1>6, <1>7, OrderedAll, FS_CardinalityType
<1>9. (\A k \in DOMAIN r : r[k] \in S) /\ \A i \in S : \E k \in DOMAIN r : r[k] = i
  BY <1>7, <1>8 DEF Covers
<1> DEFINE l == [k \in DOMAIN r |-> Pointer(sps, r[k])]
<1>10. ToSet(l) = {Pointer(sps, r[k]) : k \in DOMAIN r}
  BY DEF ToSet
<1>11. ToSet(l) = Pointers(sps)
  BY <1>9, <1>10 DEF Pointers, S
<1> QED BY <1>11 DEF r

\* A monitor that is told has the workspaces on it, and shows one of them or none;
\* what else it lists is gone.
LEMMA ListedTells ==
  ASSUME NEW sps, NEW m, NEW mon, DOMAIN mon = {"list", "act", "want"},
         \A p \in mon.list : IsPointer(p)
  PROVE  /\ Shown(sps, Listed(sps, m, mon))
         /\ \A i \in DOMAIN sps : Pointer(sps, i) \in Listed(sps, m, mon).list <=> sps[i].mon = m
<1> DEFINE mine == {Pointer(sps, i) : i \in {j \in DOMAIN sps : sps[j].mon = m}}
           others == {Pointer(sps, i) : i \in DOMAIN sps} \ mine
           list == (mon.list \ others) \cup mine
           act == IF mon.want \in DOMAIN sps THEN Pointer(sps, mon.want) ELSE Nowhere
           new == Listed(sps, m, mon)
<1>1. new = [[mon EXCEPT !.list = list] EXCEPT !.act = act]
  BY DEF Listed, ActiveAssigned
<1>2. DOMAIN new = {"list", "act", "want"} /\ new.list = list /\ new.act = act
  BY <1>1
<1>3. IsPointer(act) /\ (act = Nowhere \/ act \in Pointers(sps))
  BY PointersAre DEF Nowhere, IsPointer
<1>4. \A i, j \in DOMAIN sps : Pointer(sps, i) = Pointer(sps, j) => i = j
  BY PointersAre
<1>5. \A i \in DOMAIN sps : Pointer(sps, i) \in mine <=> sps[i].mon = m
  BY <1>4
<1>6. \A p \in list : IsPointer(p)
  BY PointersAre
<1>7. \A i \in DOMAIN sps : Pointer(sps, i) \in list <=> sps[i].mon = m
  BY <1>5
<1> HIDE DEF list, act, new
<1> QED BY <1>2, <1>3, <1>6, <1>7 DEF Shown, new

\* When every monitor is told, each workspace is listed by the one it is on.
IsMonitor(mon) == DOMAIN mon = {"list", "act", "want"} /\ \A p \in mon.list : IsPointer(p)
ToldAll(sps, mons, old) == \A m \in DOMAIN mons : IsMonitor(old[m]) /\ mons[m] = Listed(sps, m, old[m])

LEMMA AllTold ==
  ASSUME NEW sps, \A i \in DOMAIN sps : sps[i].mon \in Monitors,
         NEW mons, DOMAIN mons \in {{}, Monitors}, NEW old, ToldAll(sps, mons, old)
  PROVE  ListedOnce(sps, mons) /\ \A m \in DOMAIN mons : Shown(sps, mons[m])
<1>1. ASSUME NEW m \in DOMAIN mons
      PROVE  /\ Shown(sps, mons[m])
             /\ \A i \in DOMAIN sps : Pointer(sps, i) \in mons[m].list <=> sps[i].mon = m
  <2> DEFINE mon == old[m]
  <2>1. DOMAIN mon = {"list", "act", "want"} /\ (\A p \in mon.list : IsPointer(p)) /\ mons[m] = Listed(sps, m, mon)
    BY DEF ToldAll, IsMonitor
  <2> HIDE DEF mon
  <2> QED BY <2>1, ListedTells
<1>2. ASSUME DOMAIN mons # {}, NEW p \in Pointers(sps)
      PROVE  \E m \in DOMAIN mons : \A n \in DOMAIN mons : p \in mons[n].list <=> n = m
  <2>1. PICK i \in DOMAIN sps : p = Pointer(sps, i)
    BY <1>2 DEF Pointers
  <2>2. sps[i].mon \in DOMAIN mons
    BY <1>2
  <2> QED BY <1>1, <2>1, <2>2
<1> QED BY <1>1, <1>2 DEF ListedOnce

\* What does not touch the monitors of the workspaces, nor their objects.
SpacesSame == KnownIds' = KnownIds /\ \A i \in KnownIds : Same(spaces[i], spaces'[i])

LEMMA SameSpaces ==
  ASSUME SpacesSame, ToSet(byMonitor) = Pointers(spaces), UNCHANGED byMonitor
  PROVE  /\ Pointers(spaces') = Pointers(spaces) /\ ToSet(byMonitor') = Pointers(spaces')
         /\ ListedOnce(spaces, monitors) => ListedOnce(spaces', monitors)
         /\ \A mon : Shown(spaces, mon) => Shown(spaces', mon)
         /\ UNCHANGED place => (Fits(spaces)' <=> Fits(spaces))
<1>1. Pointers(spaces') = Pointers(spaces)
  BY PointersKept DEF SpacesSame, Same, KnownIds
<1>2. ListedOnce(spaces, monitors) => ListedOnce(spaces', monitors)
  BY <1>1 DEF ListedOnce
<1>3. \A mon : Shown(spaces, mon) => Shown(spaces', mon)
  BY <1>1 DEF Shown
<1>4. UNCHANGED place => (Fits(spaces)' <=> Fits(spaces))
  BY DEF Fits, Existing, SpacesSame, Same, KnownIds
<1> QED BY <1>1, <1>2, <1>3, <1>4

\* Initially everything has been asked for.
LEMMA SpaceInitOK == SpaceInit => SpacesInv
<1> SUFFICES ASSUME SpaceInit PROVE SpacesInv
  OBVIOUS
<1>1. DOMAIN Empty = {} /\ KnownIds = {} /\ DOMAIN monitors = {}
  BY DEF SpaceInit, Empty, KnownIds
<1>2. spacesAsk = [is |-> "asked", of |-> Empty] /\ monitorsAsk = [is |-> "asked", of |-> Empty]
  BY DEF SpaceInit, NoAsk
<1>3. hyLines \in Seq(SpaceLines)
  BY DEF SpaceInit
<1>4. SpaceTypeOK
  <2>1. /\ place \in [SpaceIds -> Monitors \cup {-1}] /\ DOMAIN onto = Monitors
        /\ topOf \in [Tops -> SpaceIds \cup {0}]
    BY DEF SpaceInit
  <2> QED BY <1>1, <1>2, <1>3, <2>1 DEF SpaceTypeOK
<1>5. ToSet(byMonitor) = {} /\ Pointers(spaces) = {}
  BY <1>1 DEF SpaceInit, ToSet, Pointers, KnownIds
<1>6. KidsSound /\ ChangeTold /\ MonitorsSound
  BY <1>1, <1>2, <1>5 DEF KidsSound, ChangeTold, MonitorsSound, ListedOnce
<1> QED BY <1>4, <1>6 DEF SpacesInv

\* The parts that a step may leave alone.
LEMMA ModelKept ==
  ASSUME SpacesInv, UNCHANGED <<topOf, modelVars>>
  PROVE  KidsSound' /\ MonitorsSound' /\ UNCHANGED <<KnownIds, DOMAIN monitors>>
BY DEF SpacesInv, modelVars, KidsSound, KnownIds, MonitorsSound

\* A line is put behind the others.
LEMMA LineTold ==
  ASSUME hyLines \in Seq(SpaceLines), NEW e \in SpaceLines, hyLines' = Append(hyLines, e)
  PROVE  /\ hyLines' \in Seq(SpaceLines)
         /\ Holds(hyLines, SpaceChanges) => Holds(hyLines', SpaceChanges)
         /\ e \in SpaceChanges => Holds(hyLines', SpaceChanges)
<1>1. Append(hyLines, e) \in Seq(SpaceLines)
  BY AppendProperties
<1>2. Holds(Append(hyLines, e), SpaceChanges) <=> Holds(hyLines, SpaceChanges) \/ e \in SpaceChanges
  BY PutSingle
<1> QED BY <1>1, <1>2

LEMMA LinesTake ==
  ASSUME hyLines \in Seq(SpaceLines), hyLines # <<>>, hyLines' = Tail(hyLines)
  PROVE  /\ hyLines' \in Seq(SpaceLines) /\ Head(hyLines) \in SpaceLines
         /\ Head(hyLines) \notin SpaceChanges => (Holds(hyLines, SpaceChanges) => Holds(hyLines', SpaceChanges))
<1>1. Tail(hyLines) \in Seq(SpaceLines) /\ Head(hyLines) \in SpaceLines
  BY HeadTailProperties
<1>2. Holds(hyLines, SpaceChanges) <=> Head(hyLines) \in SpaceChanges \/ Holds(Tail(hyLines), SpaceChanges)
  BY TakeSingle
<1> QED BY <1>1, <1>2

(* Hyprland and its user *)

LEMMA SpaceMadeKeeps ==
  ASSUME SpacesInv, NEW i \in SpaceIds, NEW m \in Monitors, SpaceMade(i, m)
  PROVE  SpacesInv'
<1> DEFINE a == [kind |-> "createworkspace", id |-> i]
           b == [kind |-> "workspacev2", id |-> i]
           q == Append(hyLines, a)
<1>1. hyLines \in Seq(SpaceLines) /\ a \in SpaceLines /\ a \in SpaceChanges /\ b \in SpaceLines
  BY DEF SpacesInv, SpaceTypeOK, SpaceLines, SpaceChanges
<1>2. hyLines' = hyLines \o <<a, b>> /\ UNCHANGED <<topOf, spacesAsk, monitorsAsk, modelVars, behind>>
  BY DEF SpaceMade
<1> HIDE DEF a, b
<1>3. hyLines \o <<a, b>> = Append(q, b)
  BY <1>1
<1>4. q \in Seq(SpaceLines) /\ Holds(q, SpaceChanges)
  BY <1>1, AppendProperties, PutSingle
<1> HIDE DEF q
<1>5. hyLines' \in Seq(SpaceLines) /\ Holds(hyLines', SpaceChanges)
  <2>1. Append(q, b) \in Seq(SpaceLines)
    BY <1>1, <1>4, AppendProperties
  <2>2. Holds(Append(q, b), SpaceChanges) <=> Holds(q, SpaceChanges) \/ b \in SpaceChanges
    BY <1>1, <1>4, PutSingle
  <2> QED BY <1>2, <1>3, <1>4, <2>1, <2>2
<1>6. KidsSound' /\ MonitorsSound' /\ UNCHANGED <<KnownIds, DOMAIN monitors>>
  BY <1>2, ModelKept
<1>7. place' \in [SpaceIds -> Monitors \cup {-1}] /\ DOMAIN onto' = Monitors
  BY DEF SpacesInv, SpaceTypeOK, SpaceMade
<1>8. SpaceTypeOK'
  BY <1>2, <1>5, <1>6, <1>7 DEF SpacesInv, SpaceTypeOK
<1>9. ChangeTold'
  BY <1>5 DEF ChangeTold
<1> QED BY <1>6, <1>8, <1>9 DEF SpacesInv

LEMMA SpaceShownKeeps ==
  ASSUME SpacesInv, NEW i \in SpaceIds, SpaceShown(i)
  PROVE  SpacesInv'
<1> DEFINE e == [kind |-> "workspacev2", id |-> i]
<1>1. hyLines \in Seq(SpaceLines) /\ e \in SpaceLines
  BY DEF SpacesInv, SpaceTypeOK, SpaceLines
<1>2. hyLines' = Append(hyLines, e) /\ UNCHANGED <<place, topOf, spacesAsk, monitorsAsk, modelVars, behind>>
  BY DEF SpaceShown, Tell
<1> HIDE DEF e
<1>3. hyLines' \in Seq(SpaceLines) /\ (Holds(hyLines, SpaceChanges) => Holds(hyLines', SpaceChanges))
  BY <1>1, <1>2, LineTold
<1>4. KidsSound' /\ MonitorsSound' /\ UNCHANGED <<KnownIds, DOMAIN monitors>>
  BY <1>2, ModelKept
<1>5. DOMAIN onto' = Monitors
  BY DEF SpacesInv, SpaceTypeOK, SpaceShown
<1>6. SpaceTypeOK'
  BY <1>2, <1>3, <1>4, <1>5 DEF SpacesInv, SpaceTypeOK
<1>7. ChangeTold'
  BY <1>2, <1>3 DEF SpacesInv, ChangeTold, Fits, Existing, modelVars
<1> QED BY <1>4, <1>6, <1>7 DEF SpacesInv

LEMMA SpaceGoneKeeps ==
  ASSUME SpacesInv, NEW i \in SpaceIds, SpaceGone(i)
  PROVE  SpacesInv'
<1> DEFINE e == [kind |-> "destroyworkspace", id |-> i]
<1>1. hyLines \in Seq(SpaceLines) /\ e \in SpaceLines /\ e \in SpaceChanges
  BY DEF SpacesInv, SpaceTypeOK, SpaceLines, SpaceChanges
<1>2. hyLines' = Append(hyLines, e) /\ UNCHANGED <<onto, topOf, spacesAsk, monitorsAsk, modelVars, behind>>
  BY DEF SpaceGone, Tell
<1> HIDE DEF e
<1>3. hyLines' \in Seq(SpaceLines) /\ Holds(hyLines', SpaceChanges)
  BY <1>1, <1>2, LineTold
<1>4. KidsSound' /\ MonitorsSound' /\ UNCHANGED <<KnownIds, DOMAIN monitors>>
  BY <1>2, ModelKept
<1>5. place' \in [SpaceIds -> Monitors \cup {-1}]
  BY DEF SpacesInv, SpaceTypeOK, SpaceGone
<1>6. SpaceTypeOK'
  BY <1>2, <1>3, <1>4, <1>5 DEF SpacesInv, SpaceTypeOK
<1>7. ChangeTold'
  BY <1>3 DEF ChangeTold
<1> QED BY <1>4, <1>6, <1>7 DEF SpacesInv

LEMMA SpaceMovedKeeps ==
  ASSUME SpacesInv, NEW i \in SpaceIds, NEW m \in Monitors, SpaceMoved(i, m)
  PROVE  SpacesInv'
<1> DEFINE e == [kind |-> "moveworkspace", id |-> i]
<1>1. hyLines \in Seq(SpaceLines) /\ e \in SpaceLines /\ e \in SpaceChanges
  BY DEF SpacesInv, SpaceTypeOK, SpaceLines, SpaceChanges
<1>2. hyLines' = Append(hyLines, e) /\ UNCHANGED <<onto, topOf, spacesAsk, monitorsAsk, modelVars, behind>>
  BY DEF SpaceMoved, Tell
<1> HIDE DEF e
<1>3. hyLines' \in Seq(SpaceLines) /\ Holds(hyLines', SpaceChanges)
  BY <1>1, <1>2, LineTold
<1>4. KidsSound' /\ MonitorsSound' /\ UNCHANGED <<KnownIds, DOMAIN monitors>>
  BY <1>2, ModelKept
<1>5. place' \in [SpaceIds -> Monitors \cup {-1}]
  BY DEF SpacesInv, SpaceTypeOK, SpaceMoved
<1>6. SpaceTypeOK'
  BY <1>2, <1>3, <1>4, <1>5 DEF SpacesInv, SpaceTypeOK
<1>7. ChangeTold'
  BY <1>3 DEF ChangeTold
<1> QED BY <1>4, <1>6, <1>7 DEF SpacesInv

LEMMA TopToldKeeps ==
  ASSUME SpacesInv, NEW t \in Tops, NEW k \in {"activewindowv2", "urgent"}, TopTold(k, t)
  PROVE  SpacesInv'
<1> DEFINE e == [kind |-> k, id |-> t]
<1>1. hyLines \in Seq(SpaceLines) /\ e \in SpaceLines
  BY DEF SpacesInv, SpaceTypeOK, SpaceLines
<1>2. hyLines' = Append(hyLines, e) /\ UNCHANGED <<place, onto, topOf, spacesAsk, monitorsAsk, modelVars, behind>>
  BY DEF TopTold, Tell
<1> HIDE DEF e
<1>3. hyLines' \in Seq(SpaceLines) /\ (Holds(hyLines, SpaceChanges) => Holds(hyLines', SpaceChanges))
  BY <1>1, <1>2, LineTold
<1>4. KidsSound' /\ MonitorsSound' /\ UNCHANGED <<KnownIds, DOMAIN monitors>>
  BY <1>2, ModelKept
<1>5. SpaceTypeOK'
  BY <1>2, <1>3, <1>4 DEF SpacesInv, SpaceTypeOK
<1>6. ChangeTold'
  BY <1>2, <1>3 DEF SpacesInv, ChangeTold, Fits, Existing, modelVars
<1> QED BY <1>4, <1>5, <1>6 DEF SpacesInv

LEMMA SpacesAnsweredKeeps == ASSUME SpacesInv, SpacesAnswered PROVE SpacesInv'
<1>1. UNCHANGED <<hyprVars, hyLines, monitorsAsk, modelVars, behind>>
  BY DEF SpacesAnswered
<1>2. UNCHANGED <<place, onto, topOf, hyLines, monitorsAsk, modelVars, behind>>
  BY <1>1 DEF hyprVars
<1>3. /\ spacesAsk'.is = "answered" /\ DOMAIN spacesAsk'.of = Existing
      /\ \A i \in Existing : spacesAsk'.of[i].mon = place[i]
  BY DEF SpacesAnswered
<1>4. Existing \subseteq SpaceIds /\ \A i \in Existing : place[i] \in Monitors
  BY DEF SpacesInv, SpaceTypeOK, Existing
<1>5. KidsSound' /\ MonitorsSound' /\ UNCHANGED <<KnownIds, DOMAIN monitors>>
  BY <1>2, ModelKept
<1>6. SpaceTypeOK'
  BY <1>2, <1>3, <1>4, <1>5 DEF SpacesInv, SpaceTypeOK
<1>7. Fits(spacesAsk.of)'
  BY <1>2, <1>3 DEF Fits, Existing
<1>8. ChangeTold'
  BY <1>3, <1>7 DEF ChangeTold
<1> QED BY <1>5, <1>6, <1>8 DEF SpacesInv

\* The workspaces and the request for them stay as they are, as does Hyprland.
LEMMA NothingNew ==
  ASSUME SpacesInv, UNCHANGED <<hyprVars, hyLines, spacesAsk, spaces, behind>>
  PROVE  ChangeTold'
BY DEF SpacesInv, ChangeTold, Fits, Existing, hyprVars

LEMMA MonitorsAnsweredKeeps == ASSUME SpacesInv, MonitorsAnswered PROVE SpacesInv'
<1>1. UNCHANGED <<hyprVars, hyLines, spacesAsk, modelVars, behind>>
  BY DEF MonitorsAnswered
<1>2. UNCHANGED <<place, onto, topOf, hyLines, spacesAsk, modelVars, behind>>
  BY <1>1 DEF hyprVars
<1>3. DOMAIN monitorsAsk'.of = Monitors
  BY DEF MonitorsAnswered, SpacesInv, SpaceTypeOK
<1>4. KidsSound' /\ MonitorsSound' /\ UNCHANGED <<KnownIds, DOMAIN monitors>>
  BY <1>2, ModelKept
<1>5. SpaceTypeOK'
  BY <1>2, <1>3, <1>4 DEF SpacesInv, SpaceTypeOK
<1>6. ChangeTold'
  BY <1>1, NothingNew DEF modelVars
<1> QED BY <1>4, <1>5, <1>6 DEF SpacesInv

LEMMA MonitorsLineKeeps == ASSUME SpacesInv, MonitorsLine PROVE SpacesInv'
<1>1. /\ UNCHANGED <<place, onto, topOf, hyLines, spacesAsk, modelVars, behind>>
      /\ monitorsAsk' = monitorsAsk \/ monitorsAsk'.is = "asked"
  BY DEF MonitorsLine, NoAsk
<1>2. KidsSound' /\ MonitorsSound' /\ UNCHANGED <<KnownIds, DOMAIN monitors>>
  BY <1>1, ModelKept
<1>3. SpaceTypeOK'
  BY <1>1, <1>2 DEF SpacesInv, SpaceTypeOK
<1>4. ChangeTold'
  BY <1>1 DEF SpacesInv, ChangeTold, Fits, Existing, modelVars
<1> QED BY <1>2, <1>3, <1>4 DEF SpacesInv

LEMMA SpacesFailedKeeps == ASSUME SpacesInv, SpacesFailed PROVE SpacesInv'
<1>1. /\ UNCHANGED <<hyprVars, hyLines, modelVars>> /\ behind' = TRUE
      /\ spacesAsk' \in {spacesAsk, NoAsk} /\ monitorsAsk' \in {monitorsAsk, NoAsk}
  BY DEF SpacesFailed
<1>2. UNCHANGED <<place, onto, topOf, hyLines, modelVars>>
  BY <1>1 DEF hyprVars
<1>3. KidsSound' /\ MonitorsSound' /\ UNCHANGED <<KnownIds, DOMAIN monitors>>
  BY <1>2, ModelKept
<1>4. NoAsk.is = "idle"
  BY DEF NoAsk
<1>5. SpaceTypeOK'
  BY <1>1, <1>2, <1>3, <1>4 DEF SpacesInv, SpaceTypeOK
<1>6. ChangeTold'
  BY <1>1 DEF ChangeTold
<1> QED BY <1>3, <1>5, <1>6 DEF SpacesInv

(* The lines and the signals *)

LEMMA SpacesLineKeeps == ASSUME SpacesInv, SpacesLine PROVE SpacesInv'
<1>1. /\ hyLines # <<>> /\ hyLines' = Tail(hyLines)
      /\ UNCHANGED <<hyprVars, monitorsAsk, modelVars>>
      /\ \/ spacesAsk = NoAsk /\ spacesAsk'.is = "asked"
         \/ /\ spacesAsk # NoAsk /\ UNCHANGED spacesAsk
            /\ behind' = (behind \/ spacesAsk.is = "answered")
  BY DEF SpacesLine, NoAsk
<1>2. UNCHANGED <<place, onto, topOf, monitorsAsk, modelVars>>
  BY <1>1 DEF hyprVars
<1>3. hyLines \in Seq(SpaceLines)
  BY DEF SpacesInv, SpaceTypeOK
<1>4. hyLines' \in Seq(SpaceLines)
  BY <1>1, <1>3, LinesTake
<1>5. KidsSound' /\ MonitorsSound' /\ UNCHANGED <<KnownIds, DOMAIN monitors>>
  BY <1>2, ModelKept
<1>6. SpaceTypeOK'
  <2>1. CASE spacesAsk'.is = "asked"
    BY <1>2, <1>4, <1>5, <2>1 DEF SpacesInv, SpaceTypeOK
  <2>2. CASE UNCHANGED spacesAsk
    BY <1>2, <1>4, <1>5, <2>2 DEF SpacesInv, SpaceTypeOK
  <2> QED BY <1>1, <2>1, <2>2
\* A request that is already made is asked: anything else is counted as behind.
<1>7. ChangeTold'
  <2>1. CASE spacesAsk'.is = "asked"
    BY <2>1 DEF ChangeTold
  <2>2. CASE spacesAsk # NoAsk /\ UNCHANGED spacesAsk /\ behind' = (behind \/ spacesAsk.is = "answered")
    <3>1. spacesAsk.is = "asked" \/ spacesAsk.is = "answered"
      BY <2>2 DEF SpacesInv, SpaceTypeOK
    <3> QED BY <2>2, <3>1 DEF ChangeTold
  <2> QED BY <1>1, <2>1, <2>2
<1> QED BY <1>5, <1>6, <1>7 DEF SpacesInv

\* What a step that leaves Hyprland and the requests alone may do to the workspaces.
LEMMA KidsChange ==
  ASSUME SpacesInv, SpacesSame, UNCHANGED <<place, onto, spacesAsk, monitorsAsk, byMonitor>>,
         topOf' \in [Tops -> SpaceIds \cup {0}], KidsSound',
         hyLines' \in Seq(SpaceLines), Holds(hyLines, SpaceChanges) => Holds(hyLines', SpaceChanges),
         DOMAIN monitors' = DOMAIN monitors,
         ListedOnce(spaces, monitors'), \A m \in DOMAIN monitors : Shown(spaces, monitors'[m]),
         UNCHANGED behind
  PROVE  SpacesInv'
<1>1. ToSet(byMonitor) = Pointers(spaces)
  BY DEF SpacesInv, MonitorsSound
<1>2. /\ Pointers(spaces') = Pointers(spaces) /\ ToSet(byMonitor') = Pointers(spaces')
      /\ \A mon : Shown(spaces, mon) => Shown(spaces', mon)
      /\ Fits(spaces)' <=> Fits(spaces)
  BY <1>1, SameSpaces
<1>3. ListedOnce(spaces', monitors')
  BY <1>2 DEF ListedOnce
<1>4. MonitorsSound'
  BY <1>2, <1>3 DEF MonitorsSound
<1>5. SpaceTypeOK'
  BY DEF SpacesInv, SpaceTypeOK, SpacesSame
<1>6. Fits(spacesAsk.of)' <=> Fits(spacesAsk.of)
  BY DEF Fits, Existing
<1>7. ChangeTold'
  BY <1>2, <1>6 DEF SpacesInv, ChangeTold
<1> QED BY <1>4, <1>5, <1>7 DEF SpacesInv

LEMMA UserLineKeeps == ASSUME SpacesInv, UserLine PROVE SpacesInv'
<1> DEFINE i == Head(hyLines).id
<1>1. /\ hyLines # <<>> /\ Head(hyLines).kind = "workspacev2" /\ hyLines' = Tail(hyLines)
      /\ UNCHANGED <<hyprVars, spacesAsk, monitorsAsk, byMonitor, objects, behind>>
      /\ spaces' = [j \in KnownIds |-> IF j = i THEN [spaces[j] EXCEPT !.urgent = FALSE] ELSE spaces[j]]
      /\ DOMAIN monitors' = DOMAIN monitors
      /\ \A m \in DOMAIN monitors : monitors'[m] \in Shows(monitors[m], i)
  BY DEF UserLine
<1>2. UNCHANGED <<place, onto, topOf>>
  BY <1>1 DEF hyprVars
<1>3. hyLines \in Seq(SpaceLines)
  BY DEF SpacesInv, SpaceTypeOK
<1>4. Head(hyLines) \notin SpaceChanges
  BY <1>1 DEF SpaceChanges
<1>5. hyLines' \in Seq(SpaceLines) /\ (Holds(hyLines, SpaceChanges) => Holds(hyLines', SpaceChanges))
  BY <1>1, <1>3, <1>4, LinesTake
<1> HIDE DEF i
<1>6. ASSUME NEW j \in KnownIds PROVE Sound(spaces'[j], topOf, j) /\ Same(spaces[j], spaces'[j])
  <2>1. Sound(spaces[j], topOf, j)
    BY DEF SpacesInv, KidsSound
  <2>2. CASE j = i
    <3>1. spaces'[j] = [spaces[j] EXCEPT !.urgent = FALSE]
      BY <1>1, <2>2
    <3> QED BY <2>1, <3>1, UrgentSound
  <2>3. CASE j # i
    BY <1>1, <2>1, <2>3 DEF Same
  <2> QED BY <2>2, <2>3
<1>7. SpacesSame
  BY <1>1, <1>6 DEF SpacesSame, KnownIds
<1>8. KidsSound'
  BY <1>2, <1>6, <1>7 DEF KidsSound, SpacesSame
<1>9. ASSUME NEW m \in DOMAIN monitors
      PROVE  monitors'[m].list = monitors[m].list /\ Shown(spaces, monitors'[m])
  <2>1. Shown(spaces, monitors[m]) /\ monitors'[m] \in Shows(monitors[m], i)
    BY <1>1 DEF SpacesInv, MonitorsSound
  <2> DEFINE mon == monitors[m]
             new == monitors'[m]
  <2>2. new = mon \/ \E p \in mon.list : new = [mon EXCEPT !.act = p, !.want = i]
    BY <2>1 DEF Shows
  <2> HIDE DEF mon, new
  <2>3. CASE \E p \in mon.list : new = [mon EXCEPT !.act = p, !.want = i]
    <3>1. PICK p \in mon.list : new = [mon EXCEPT !.act = p, !.want = i]
      BY <2>3
    <3>2. DOMAIN mon = {"list", "act", "want"} /\ \A x \in mon.list : IsPointer(x)
      BY <2>1 DEF Shown, mon
    <3>3. new.list = mon.list /\ new.act = p /\ DOMAIN new = {"list", "act", "want"}
      BY <3>1, <3>2
    <3> QED BY <3>1, <3>2, <3>3 DEF Shown, mon, new
  <2> QED BY <2>1, <2>2, <2>3 DEF mon, new
<1>10. ListedOnce(spaces, monitors')
  BY <1>1, <1>9 DEF SpacesInv, MonitorsSound, ListedOnce
<1>11. topOf' \in [Tops -> SpaceIds \cup {0}]
  BY <1>2 DEF SpacesInv, SpaceTypeOK
<1> QED BY <1>1, <1>2, <1>5, <1>7, <1>8, <1>9, <1>10, <1>11, KidsChange

\* The monitors are not told, nor are there lines.
LEMMA OnlyKids ==
  ASSUME SpacesInv, KnownIds' = KnownIds, topOf' \in [Tops -> SpaceIds \cup {0}],
         \A j \in KnownIds : Sound(spaces'[j], topOf', j) /\ Same(spaces[j], spaces'[j]),
         UNCHANGED <<place, onto, spacesAsk, monitorsAsk, byMonitor, monitors, behind>>,
         hyLines' \in Seq(SpaceLines), Holds(hyLines, SpaceChanges) => Holds(hyLines', SpaceChanges)
  PROVE  SpacesInv'
<1>1. SpacesSame
  BY DEF SpacesSame
<1>2. KidsSound'
  BY DEF KidsSound
<1>3. /\ DOMAIN monitors' = DOMAIN monitors /\ ListedOnce(spaces, monitors')
      /\ \A m \in DOMAIN monitors : Shown(spaces, monitors'[m])
  BY DEF SpacesInv, MonitorsSound
<1> QED BY <1>1, <1>2, <1>3, KidsChange

LEMMA TopLineKeeps == ASSUME SpacesInv, TopLine PROVE SpacesInv'
<1> DEFINE t == Head(hyLines).id
           k == Head(hyLines).kind
           to(j) == IF k = "activewindowv2" THEN WithActive(spaces[j], t)
                    ELSE IF Contains(spaces[j].kids, t) THEN [spaces[j] EXCEPT !.urgent = TRUE]
                    ELSE spaces[j]
<1>1. /\ hyLines # <<>> /\ k \in {"activewindowv2", "urgent"} /\ hyLines' = Tail(hyLines)
      /\ UNCHANGED <<hyprVars, spacesAsk, monitorsAsk, byMonitor, monitors, objects, behind>>
      /\ spaces' = [j \in KnownIds |-> to(j)]
  BY DEF TopLine
<1>2. UNCHANGED <<place, onto, topOf>>
  BY <1>1 DEF hyprVars
<1>3. hyLines \in Seq(SpaceLines) /\ topOf' \in [Tops -> SpaceIds \cup {0}]
  BY <1>2 DEF SpacesInv, SpaceTypeOK
<1>4. Head(hyLines) \notin SpaceChanges
  BY <1>1 DEF SpaceChanges
<1>5. hyLines' \in Seq(SpaceLines) /\ (Holds(hyLines, SpaceChanges) => Holds(hyLines', SpaceChanges))
  BY <1>1, <1>3, <1>4, LinesTake
<1>6. ASSUME NEW j \in KnownIds PROVE Sound(spaces'[j], topOf', j) /\ Same(spaces[j], spaces'[j])
  <2>1. Sound(spaces[j], topOf, j)
    BY DEF SpacesInv, KidsSound
  <2>2. Sound(WithActive(spaces[j], t), topOf, j) /\ Same(spaces[j], WithActive(spaces[j], t))
    BY <2>1, WithActiveSound
  <2>3. /\ Sound([spaces[j] EXCEPT !.urgent = TRUE], topOf, j)
        /\ Same(spaces[j], [spaces[j] EXCEPT !.urgent = TRUE])
    BY <2>1, UrgentSound
  <2>4. Sound(to(j), topOf, j) /\ Same(spaces[j], to(j))
    BY <2>1, <2>2, <2>3 DEF Same
  <2> HIDE DEF to
  <2> QED BY <1>1, <1>2, <2>4
<1>7. KnownIds' = KnownIds
  BY <1>1 DEF KnownIds
<1> QED BY <1>1, <1>2, <1>3, <1>5, <1>6, <1>7, OnlyKids

\* Every toplevel goes to its workspace; a workspace is sound where toplevels are at.
LEMMA AllAttached ==
  ASSUME NEW of, NEW at, \A i \in KnownIds : Sound(spaces[i], at, i),
         \A i \in KnownIds, u \in Tops : of[u] = i => at[u] = i
  PROVE  /\ DOMAIN AttachAll(spaces, of) = KnownIds
         /\ \A i \in KnownIds : /\ Sound(AttachAll(spaces, of)[i], at, i)
                                /\ Same(spaces[i], AttachAll(spaces, of)[i])
<1>1. ASSUME NEW i \in KnownIds
      PROVE  Sound(AttachAll(spaces, of)[i], at, i) /\ Same(spaces[i], AttachAll(spaces, of)[i])
  <2> DEFINE ts == {t \in Tops : of[t] = i}
  <2>1. AttachAll(spaces, of)[i] = AttachedAll(spaces[i], ts)
    BY DEF AttachAll, KnownIds
  <2>2. ts \in SUBSET Tops /\ \A t \in ts : at[t] = i
    OBVIOUS
  <2> HIDE DEF ts
  <2>3. Sound(AttachedAll(spaces[i], ts), at, i) /\ Same(spaces[i], AttachedAll(spaces[i], ts))
    BY <2>2, AttachedAllSound
  <2> QED BY <2>1, <2>3
<1> QED BY <1>1 DEF AttachAll, KnownIds

\* A toplevel that is not ready is the child of no workspace.
LEMMA TopArrivesKeeps ==
  ASSUME SpacesInv, NEW t \in Tops, NEW i \in SpaceIds, TopArrives(t, i)
  PROVE  SpacesInv'
<1>1. /\ topOf[t] = 0 /\ topOf' = [topOf EXCEPT ![t] = i]
      /\ spaces' = AttachAll(spaces, topOf') \/ spaces' = AttachAll(spaces, topOf)
      /\ UNCHANGED <<place, onto, hyLines, spacesAsk, monitorsAsk, byMonitor, monitors, objects, behind>>
  BY DEF TopArrives
<1>2. /\ topOf \in [Tops -> SpaceIds \cup {0}] /\ KnownIds \subseteq SpaceIds /\ 0 \notin SpaceIds
      /\ hyLines \in Seq(SpaceLines)
  BY SpacesAssumption DEF SpacesInv, SpaceTypeOK
<1>3. topOf' \in [Tops -> SpaceIds \cup {0}] /\ \A u \in Tops : topOf'[u] = IF u = t THEN i ELSE topOf[u]
  BY <1>1, <1>2
<1>4. ASSUME NEW j \in KnownIds PROVE Sound(spaces[j], topOf', j)
  <2>1. Sound(spaces[j], topOf, j)
    BY DEF SpacesInv, KidsSound
  <2>2. ToSet(spaces[j].kids) \subseteq Tops
    BY <2>1, ElementOfSeq DEF Sound, ToSet
  <2>3. \A u \in ToSet(spaces[j].kids) : topOf'[u] = j
    BY <1>1, <1>2, <1>3, <2>1, <2>2 DEF Sound
  <2> QED BY <2>1, <2>3 DEF Sound
<1>5. \A j \in KnownIds, u \in Tops : topOf[u] = j => topOf'[u] = j
  BY <1>1, <1>2, <1>3
<1>6. DOMAIN spaces' = KnownIds /\ \A j \in KnownIds : Sound(spaces'[j], topOf', j) /\ Same(spaces[j], spaces'[j])
  <2>1. CASE spaces' = AttachAll(spaces, topOf')
    BY <1>4, <2>1, AllAttached
  <2>2. CASE spaces' = AttachAll(spaces, topOf)
    BY <1>4, <1>5, <2>2, AllAttached
  <2> QED BY <1>1, <2>1, <2>2
<1>7. KnownIds' = KnownIds
  BY <1>6 DEF KnownIds
<1> QED BY <1>1, <1>2, <1>3, <1>6, <1>7, OnlyKids

LEMMA TopMovesKeeps ==
  ASSUME SpacesInv, NEW t \in Tops, NEW i \in SpaceIds, TopMoves(t, i)
  PROVE  SpacesInv'
<1>1. /\ topOf' = [topOf EXCEPT ![t] = i]
      /\ spaces' = [j \in KnownIds |-> IF j = i THEN Attached(Detached(spaces[j], t), t) ELSE Detached(spaces[j], t)]
      /\ UNCHANGED <<place, onto, hyLines, spacesAsk, monitorsAsk, byMonitor, monitors, objects, behind>>
  BY DEF TopMoves
<1>2. /\ topOf \in [Tops -> SpaceIds \cup {0}] /\ hyLines \in Seq(SpaceLines)
  BY DEF SpacesInv, SpaceTypeOK
<1>3. topOf' \in [Tops -> SpaceIds \cup {0}] /\ \A u \in Tops : topOf'[u] = IF u = t THEN i ELSE topOf[u]
  BY <1>1, <1>2
<1>4. ASSUME NEW j \in KnownIds PROVE Sound(spaces'[j], topOf', j) /\ Same(spaces[j], spaces'[j])
  <2>1. Sound(spaces[j], topOf, j)
    BY DEF SpacesInv, KidsSound
  <2>2. \A u \in Tops \ {t} : topOf[u] = j => topOf'[u] = j
    BY <1>3
  <2> DEFINE d == Detached(spaces[j], t)
  <2>3. Sound(d, topOf', j) /\ Same(spaces[j], d)
    BY <2>1, <2>2, DetachedSound
  <2>4. spaces'[j] = IF j = i THEN Attached(d, t) ELSE d
    BY <1>1
  <2> HIDE DEF d
  <2>5. ASSUME j = i PROVE Sound(Attached(d, t), topOf', j) /\ Same(d, Attached(d, t))
    <3>1. topOf'[t] = j
      BY <1>3, <2>5
    <3> QED BY <2>3, <3>1, AttachedSound
  <2> QED BY <2>3, <2>4, <2>5 DEF Same
<1>5. KnownIds' = KnownIds
  BY <1>1 DEF KnownIds
<1> QED BY <1>1, <1>2, <1>3, <1>4, <1>5, OnlyKids

LEMMA TopLeavesKeeps ==
  ASSUME SpacesInv, NEW t \in Tops, TopLeaves(t)
  PROVE  SpacesInv'
<1> DEFINE rest == AttachAll(spaces, topOf')
<1>1. /\ topOf' = [topOf EXCEPT ![t] = 0]
      /\ spaces' = [j \in KnownIds |-> Detached(rest[j], t)]
      /\ UNCHANGED <<place, onto, hyLines, spacesAsk, monitorsAsk, byMonitor, monitors, objects, behind>>
  BY DEF TopLeaves
<1>2. /\ topOf \in [Tops -> SpaceIds \cup {0}] /\ KnownIds \subseteq SpaceIds /\ 0 \notin SpaceIds
      /\ hyLines \in Seq(SpaceLines)
  BY SpacesAssumption DEF SpacesInv, SpaceTypeOK
<1>3. topOf' \in [Tops -> SpaceIds \cup {0}] /\ \A u \in Tops : topOf'[u] = IF u = t THEN 0 ELSE topOf[u]
  BY <1>1, <1>2
<1>4. \A j \in KnownIds, u \in Tops : topOf'[u] = j => topOf[u] = j
  BY <1>2, <1>3
<1>5. \A j \in KnownIds : Sound(spaces[j], topOf, j)
  BY DEF SpacesInv, KidsSound
<1>6. \A j \in KnownIds : Sound(rest[j], topOf, j) /\ Same(spaces[j], rest[j])
  BY <1>4, <1>5, AllAttached
<1> HIDE DEF rest
<1>7. ASSUME NEW j \in KnownIds PROVE Sound(spaces'[j], topOf', j) /\ Same(spaces[j], spaces'[j])
  <2>1. \A u \in Tops \ {t} : topOf[u] = j => topOf'[u] = j
    BY <1>3
  <2>2. Sound(rest[j], topOf, j) /\ Same(spaces[j], rest[j])
    BY <1>6
  <2>3. Sound(Detached(rest[j], t), topOf', j) /\ Same(rest[j], Detached(rest[j], t))
    BY <2>1, <2>2, DetachedSound
  <2> QED BY <1>1, <2>2, <2>3 DEF Same
<1>8. KnownIds' = KnownIds
  BY <1>1 DEF KnownIds
<1> QED BY <1>1, <1>2, <1>3, <1>7, <1>8, OnlyKids

(* The answers *)

LEMMA ProcessMonitorDataKeeps == ASSUME SpacesInv, ProcessMonitorData PROVE SpacesInv'
<1> DEFINE old == [m \in Monitors |-> NewMonitor(monitorsAsk.of[m])]
<1>1. /\ monitors' = [m \in DOMAIN monitorsAsk.of |-> Listed(spaces, m, NewMonitor(monitorsAsk.of[m]))]
      /\ monitorsAsk' = NoAsk /\ monitorsAsk.is = "answered"
      /\ UNCHANGED <<hyprVars, hyLines, spacesAsk, spaces, byMonitor, objects, behind>>
  BY DEF ProcessMonitorData
<1>2. UNCHANGED <<place, onto, topOf>>
  BY <1>1 DEF hyprVars
<1>3. DOMAIN monitorsAsk.of = Monitors
  BY <1>1 DEF SpacesInv, SpaceTypeOK
<1>4. DOMAIN monitors' = Monitors /\ DOMAIN monitors' \in {{}, Monitors}
  BY <1>1, <1>3
<1>5. ToldAll(spaces, monitors', old)
  <2>1. \A m \in Monitors : IsMonitor(old[m]) /\ monitors'[m] = Listed(spaces, m, old[m])
    BY <1>1, <1>3 DEF NewMonitor, IsMonitor
  <2> QED BY <1>4, <2>1 DEF ToldAll
<1>6. \A j \in DOMAIN spaces : spaces[j].mon \in Monitors
  BY DEF SpacesInv, KidsSound, Sound, KnownIds
<1>7. ListedOnce(spaces, monitors') /\ \A m \in DOMAIN monitors' : Shown(spaces, monitors'[m])
  <2> HIDE DEF old
  <2> QED BY <1>4, <1>5, <1>6, AllTold
<1>8. KidsSound' /\ MonitorsSound'
  BY <1>1, <1>2, <1>7 DEF SpacesInv, KidsSound, KnownIds, MonitorsSound
<1>9. SpaceTypeOK'
  <2>1. NoAsk.is = "idle"
    BY DEF NoAsk
  <2> QED BY <1>1, <1>2, <1>4, <2>1 DEF SpacesInv, SpaceTypeOK, KnownIds
<1>10. ChangeTold'
  BY <1>1, NothingNew
<1> QED BY <1>8, <1>9, <1>10 DEF SpacesInv

LEMMA UpdateFromPayloadKeeps == ASSUME SpacesInv, UpdateFromPayload PROVE SpacesInv'
<1> DEFINE data == spacesAsk.of
           fresh == SetToSeq(DOMAIN data \ KnownIds)
           num(i) == objects + CHOOSE k \in DOMAIN fresh : fresh[k] = i
           base(i) == IF i \in KnownIds THEN spaces[i] ELSE New(num(i))
           sps == [i \in DOMAIN data |-> Updated(base(i), data[i])]
           list == [k \in DOMAIN Order(data) |-> Pointer(sps, Order(data)[k])]
<1>1. /\ spacesAsk.is = "answered" /\ spacesAsk' = NoAsk
      /\ spaces' = sps /\ byMonitor' = list
      /\ monitors' = [m \in DOMAIN monitors |-> IF list # byMonitor THEN Listed(sps, m, monitors[m]) ELSE monitors[m]]
      /\ UNCHANGED <<hyprVars, hyLines, monitorsAsk, behind>>
  BY DEF UpdateFromPayload
<1>2. UNCHANGED <<place, onto, topOf>>
  BY <1>1 DEF hyprVars
<1>3. DOMAIN data \subseteq SpaceIds /\ \A i \in DOMAIN data : data[i].mon \in Monitors
  BY <1>1 DEF SpacesInv, SpaceTypeOK
<1> HIDE DEF data, num
<1>4. ASSUME NEW i \in DOMAIN data PROVE Sound(sps[i], topOf, i) /\ sps[i].mon = data[i].mon
  <2>1. /\ DOMAIN base(i) = SpaceFields /\ base(i).kids \in Seq(Tops) /\ IsInjective(base(i).kids)
        /\ \A t \in ToSet(base(i).kids) : topOf[t] = i
        /\ base(i).act # NoTop => base(i).act \in ToSet(base(i).kids)
    <3>1. CASE i \in KnownIds
      BY <3>1 DEF SpacesInv, KidsSound, Sound
    <3>2. CASE i \notin KnownIds
      BY <3>2, NewSound
    <3> QED BY <3>1, <3>2
  <2>2. data[i].mon \in Monitors
    BY <1>3
  <2> HIDE DEF base
  <2> QED BY <2>1, <2>2, UpdatedSound
<1>5. DOMAIN sps = DOMAIN data
  OBVIOUS
<1> HIDE DEF sps
<1>6. DOMAIN sps \subseteq SpaceIds /\ \A i \in DOMAIN sps : sps[i].mon \in Monitors
  BY <1>3, <1>4, <1>5
<1>7. ToSet(list) = Pointers(sps)
  BY <1>3, <1>5, OrderOK
<1> HIDE DEF list
<1>8. DOMAIN monitors' = DOMAIN monitors /\ DOMAIN monitors \in {{}, Monitors}
  BY <1>1 DEF SpacesInv, SpaceTypeOK
<1>9. \A m \in DOMAIN monitors : Shown(spaces, monitors[m])
  BY DEF SpacesInv, MonitorsSound
\* A list that is as it was has the pointers it had.
<1>10. ListedOnce(sps, monitors') /\ \A m \in DOMAIN monitors' : Shown(sps, monitors'[m])
  <2>1. CASE list = byMonitor
    <3>1. Pointers(sps) = Pointers(spaces) /\ monitors' = [m \in DOMAIN monitors |-> monitors[m]]
      BY <1>1, <1>7, <2>1 DEF SpacesInv, MonitorsSound
    <3>2. \A m \in DOMAIN monitors : monitors'[m] = monitors[m]
      BY <3>1
    <3> QED BY <1>8, <1>9, <3>1, <3>2 DEF SpacesInv, MonitorsSound, ListedOnce, Shown
  <2>2. CASE list # byMonitor
    <3>1. ToldAll(sps, monitors', monitors)
      BY <1>1, <1>8, <1>9, <2>2 DEF Shown, ToldAll, IsMonitor
    <3> QED BY <1>6, <1>8, <3>1, AllTold
  <2> QED BY <2>1, <2>2
<1>11. MonitorsSound'
  BY <1>1, <1>7, <1>10 DEF MonitorsSound
<1>12. KidsSound'
  BY <1>1, <1>2, <1>4, <1>5 DEF KidsSound, KnownIds
<1>13. NoAsk.is = "idle"
  BY DEF NoAsk
<1>14. SpaceTypeOK'
  BY <1>1, <1>2, <1>6, <1>8, <1>13 DEF SpacesInv, SpaceTypeOK, KnownIds
<1>15. ChangeTold'
  <2>1. Fits(data) => Fits(sps)
    BY <1>4, <1>5 DEF Fits
  <2>2. Fits(spaces)' <=> (DOMAIN sps = Existing' /\ \A i \in DOMAIN sps : sps[i].mon = place'[i])
    BY <1>1 DEF Fits
  <2>3. Fits(sps) => Fits(spaces)'
    BY <1>2, <2>2 DEF Fits, Existing
  <2> QED BY <1>1, <1>13, <2>1, <2>3 DEF SpacesInv, ChangeTold, data
<1> QED BY <1>11, <1>12, <1>14, <1>15 DEF SpacesInv

LEMMA SpaceStuttersKeep == ASSUME SpacesInv, UNCHANGED spaceVars PROVE SpacesInv'
<1>1. UNCHANGED <<place, onto, topOf, hyLines, spacesAsk, monitorsAsk, modelVars, behind>>
  BY DEF spaceVars, hyprVars
<1>2. KidsSound' /\ MonitorsSound' /\ UNCHANGED <<KnownIds, DOMAIN monitors>>
  BY <1>1, ModelKept
<1>3. SpaceTypeOK'
  BY <1>1, <1>2 DEF SpacesInv, SpaceTypeOK
<1>4. ChangeTold'
  BY <1>1 DEF SpacesInv, ChangeTold, Fits, Existing, modelVars
<1> QED BY <1>2, <1>3, <1>4 DEF SpacesInv

LEMMA SpacesNextKeeps == ASSUME SpacesInv, [SpaceNext]_spaceVars PROVE SpacesInv'
<1>1. CASE \E i \in SpaceIds, m \in Monitors : SpaceMade(i, m) \/ SpaceMoved(i, m)
  BY <1>1, SpaceMadeKeeps, SpaceMovedKeeps
<1>2. CASE \E i \in SpaceIds : SpaceShown(i) \/ SpaceGone(i)
  BY <1>2, SpaceShownKeeps, SpaceGoneKeeps
<1>3. CASE \E t \in Tops, k \in {"activewindowv2", "urgent"} : TopTold(k, t)
  BY <1>3, TopToldKeeps
<1>4. CASE \E t \in Tops, i \in SpaceIds : TopArrives(t, i) \/ TopMoves(t, i)
  BY <1>4, TopArrivesKeeps, TopMovesKeeps
<1>5. CASE \E t \in Tops : TopLeaves(t)
  BY <1>5, TopLeavesKeeps
<1>6. CASE SpacesAnswered \/ MonitorsAnswered \/ SpacesFailed \/ UpdateFromPayload \/ ProcessMonitorData
  BY <1>6, SpacesAnsweredKeeps, MonitorsAnsweredKeeps, SpacesFailedKeeps, UpdateFromPayloadKeeps,
     ProcessMonitorDataKeeps
<1>7. CASE SpacesLine \/ UserLine \/ TopLine \/ MonitorsLine
  BY <1>7, SpacesLineKeeps, UserLineKeeps, TopLineKeeps, MonitorsLineKeeps
<1>8. CASE UNCHANGED spaceVars
  BY <1>8, SpaceStuttersKeep
<1> QED BY <1>1, <1>2, <1>3, <1>4, <1>5, <1>6, <1>7, <1>8 DEF SpaceNext

\* Once everything is read, the only place left for what Hyprland has is the model.
LEMMA SpacesInvAgrees == SpacesInv => SpacesAgree
<1> SUFFICES ASSUME SpacesInv PROVE SpacesAgree
  OBVIOUS
<1>1. ASSUME NEW i \in KnownIds
      PROVE  /\ IsInjective(spaces[i].kids) /\ \A t \in ToSet(spaces[i].kids) : topOf[t] = i
             /\ spaces[i].act # NoTop => Contains(spaces[i].kids, spaces[i].act)
  <2>1. Sound(spaces[i], topOf, i)
    BY DEF SpacesInv, KidsSound
  <2>2. Contains(spaces[i].kids, spaces[i].act) <=> spaces[i].act \in ToSet(spaces[i].kids)
    BY <2>1, HasKid DEF Sound
  <2> QED BY <2>1, <2>2 DEF Sound
<1>2. ASSUME SpaceQuiet, ~behind PROVE KnownIds = Existing /\ \A i \in KnownIds : spaces[i].mon = place[i]
  <2>1. ~Holds(hyLines, SpaceChanges)
    BY <1>2 DEF SpaceQuiet, Holds, SpaceChanges
  <2>2. spacesAsk.is = "idle"
    BY <1>2 DEF SpaceQuiet, NoAsk
  <2>3. Fits(spaces)
    BY <1>2, <2>1, <2>2 DEF SpacesInv, ChangeTold
  <2> QED BY <2>3 DEF Fits, KnownIds
<1>3. ASSUME NEW i \in KnownIds, DOMAIN monitors # {}
      PROVE  Cardinality({m \in DOMAIN monitors : Pointer(spaces, i) \in monitors[m].list}) = 1
  <2>1. Pointer(spaces, i) \in Pointers(spaces)
    BY PointersAre DEF KnownIds
  <2>2. PICK m \in DOMAIN monitors : \A n \in DOMAIN monitors : Pointer(spaces, i) \in monitors[n].list <=> n = m
    BY <1>3, <2>1 DEF SpacesInv, MonitorsSound, ListedOnce
  <2>3. {n \in DOMAIN monitors : Pointer(spaces, i) \in monitors[n].list} = {m}
    BY <2>2
  <2> QED BY <2>3, FS_Singleton
<1>4. ASSUME NEW m \in DOMAIN monitors
      PROVE  \/ monitors[m].act = Nowhere \/ Alive(spaces, monitors[m].act)
             \/ \E p \in monitors[m].list : ~Alive(spaces, p)
  <2>1. Shown(spaces, monitors[m])
    BY DEF SpacesInv, MonitorsSound
  <2>2. \A p : IsPointer(p) => (Alive(spaces, p) <=> p \in Pointers(spaces))
    BY PointersAre
  <2> QED BY <2>1, <2>2 DEF Shown
<1> QED BY <1>1, <1>2, <1>3, <1>4 DEF SpacesAgree

\* Toplevels are children of their own workspaces, the model has the workspaces of
\* Hyprland once everything is read, each is listed by one monitor, and what a monitor
\* shows exists unless it lists one that was deleted.
THEOREM SpacesAlwaysAgree == SpaceSpec => []SpacesAgree
<1>1. SpaceInit => SpacesInv
  BY SpaceInitOK
<1>2. SpacesInv /\ [SpaceNext]_spaceVars => SpacesInv'
  BY SpacesNextKeeps
<1>3. SpacesInv => SpacesAgree
  BY SpacesInvAgrees
<1> QED BY <1>1, <1>2, <1>3, PTL DEF SpaceSpec
=============================================================================
