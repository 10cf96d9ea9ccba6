------------------------------ MODULE TrayItem ------------------------------
(***************************************************************************)
(* One StatusNotifierItem: its copies of the properties of an application, *)
(* kept up by signals that carry no value and by reads that follow them,   *)
(* and the picture and its URL that QML shows.                             *)
(*                                                                         *)
(* Title and tooltip are read asynchronously, icon names and pixmaps by    *)
(* blocking calls.  A pixmap is its size, pixmaps are square, and the icon *)
(* provider asks for pictures of size Wanted.                              *)
(***************************************************************************)
EXTENDS Integers, Sequences, SequencesExt, FiniteSets

CONSTANTS PixmapLists,  \* lists of sizes the application may offer
          Wanted,       \* requested size
          MaxItemSteps  \* bound: changes the application makes

\* Sizes are numbers, and an application may offer no picture.
ASSUME PixmapAssumption == PixmapLists \subseteq Seq(Int) /\ <<>> \in PixmapLists /\ Wanted \in Int

Statuses == {"Active", "NeedsAttention"}
IconNames == [icon: BOOLEAN, attention: BOOLEAN, overlay: BOOLEAN]   \* not empty
Pixmaps == [icon: PixmapLists, attention: PixmapLists, overlay: PixmapLists]
Values == [title: {0, 1}, tip: {0, 1}, status: Statuses, names: IconNames, pixmaps: Pixmaps]

NoNames == [icon |-> FALSE, attention |-> FALSE, overlay |-> FALSE]
NoPixmaps == [icon |-> <<>>, attention |-> <<>>, overlay |-> <<>>]

VARIABLES
  itemOffered,      \* the properties the application has
  shown,        \* b_title, b_tooltipTitle, b_status, b_iconName..., b_pixmapList...
  pixmapIndex,  \* b_pixmapIndex
  reads,        \* asynchronous reads the application has yet to answer, in order
  itemInbox,    \* its signals and replies, in order
  names,        \* names read by a readIconData() that waits for the pixmaps
  stale,        \* history: properties whose last read failed
  itemSteps     \* counts the changes, for MaxItemSteps

itemVars == <<itemOffered, shown, pixmapIndex, reads, itemInbox, names, stale, itemSteps>>

\* The constructor has connected the signals, read title and status, and asked for the
\* tooltip; the icons follow (readAllParameters).
ItemInit ==
  /\ itemOffered = [title |-> 0, tip |-> 0, status |-> "Active", names |-> NoNames, pixmaps |-> NoPixmaps]
  /\ shown = [itemOffered EXCEPT !.tip = 1]
  /\ pixmapIndex = 0
  /\ reads = <<"tip">>
  /\ itemInbox = <<>>
  /\ names = {}
  /\ stale = {}
  /\ itemSteps = 0

-----------------------------------------------------------------------------
(* createPixmap and the bindings of the URL. *)

\* Mutant: the sizes are compared the wrong way round when the one at hand is too small.
BetterKeepsSmall(best, new) == IF best >= Wanted /\ new >= Wanted /\ new < best THEN new ELSE best

\* getClosestPixmap: the first stays unless a later one serves better.
Better(best, new) ==
  IF \/ best >= Wanted /\ new >= Wanted /\ new < best
     \/ best < Wanted /\ new >= best
  THEN new ELSE best

ClosestSoFar(list) ==
  LET best[n \in 0 .. Len(list) - 1] == IF n = 0 THEN list[1] ELSE Better(best[n - 1], list[n + 1])
  IN  best

Closest(list) == ClosestSoFar(list)[Len(list) - 1]

Drawn(list) == IF list = <<>> THEN {} ELSE {<<Closest(list), list>>}

\* createPixmap: attention icons fall back to the regular ones; without an overlay name the
\* icon itself is drawn over the icon.
Picture(v) ==
  IF v.status = "NeedsAttention"
  THEN IF v.names.attention THEN <<"theme">>
       ELSE IF v.pixmaps.attention # <<>> THEN <<Drawn(v.pixmaps.attention)>>
            ELSE <<Drawn(v.pixmaps.icon)>>
  ELSE <<IF v.names.icon THEN {"theme"} ELSE Drawn(v.pixmaps.icon),
         IF v.names.overlay THEN {"theme"} ELSE Drawn(v.pixmaps.icon)>>

\* b_iconUrl: the icon provider's URL, one with both names, or one with the pixmap index.
IconUrl(v, index) ==
  CASE v.status = "NeedsAttention" /\ v.names.attention -> <<"attention">>
    [] v.status # "NeedsAttention" /\ v.names.icon /\ ~v.names.overlay -> <<"icon">>
    [] OTHER -> IF v.names.icon /\ v.names.overlay THEN <<"both">> ELSE <<"index", index>>

-----------------------------------------------------------------------------
(* The application. *)

AppChanges(new, signal) ==
  /\ itemSteps < MaxItemSteps
  /\ itemSteps' = itemSteps + 1
  /\ itemOffered' = new
  /\ itemInbox' = Append(itemInbox, signal)
  /\ UNCHANGED <<shown, pixmapIndex, reads, names, stale>>

AppTitles == AppChanges([itemOffered EXCEPT !.title = 1 - @], [kind |-> "NewTitle"])
AppTips == AppChanges([itemOffered EXCEPT !.tip = 1 - @], [kind |-> "NewToolTip"])
AppStatus == \E s \in Statuses \ {itemOffered.status} :
                AppChanges([itemOffered EXCEPT !.status = s], [kind |-> "NewStatus", status |-> s])
AppIcons == \/ \E n \in IconNames \ {itemOffered.names} :
                  AppChanges([itemOffered EXCEPT !.names = n], [kind |-> "NewIcon"])
            \/ \E key \in DOMAIN NoPixmaps : \E list \in PixmapLists \ {itemOffered.pixmaps[key]} :
                  AppChanges([itemOffered EXCEPT !.pixmaps[key] = list], [kind |-> "NewIcon"])

\* An asynchronous read is answered, or fails.
AppAnswersRead(fails) ==
  /\ reads # <<>>
  /\ reads' = Tail(reads)
  /\ itemInbox' = Append(itemInbox, [kind |-> "reply", key |-> Head(reads), fails |-> fails,
                                     value |-> itemOffered[Head(reads)]])
  /\ UNCHANGED <<itemOffered, shown, pixmapIndex, names, stale, itemSteps>>

-----------------------------------------------------------------------------
(* The item.  A blocking read holds up everything else in the shell. *)

TakeItem(kind) ==
  /\ names = {}
  /\ itemInbox # <<>>
  /\ Head(itemInbox).kind = kind
  /\ itemInbox' = Tail(itemInbox)

OnNewTitle ==
  /\ TakeItem("NewTitle")
  /\ reads' = Append(reads, "title")
  /\ UNCHANGED <<itemOffered, shown, pixmapIndex, names, stale, itemSteps>>

OnNewToolTip ==
  /\ TakeItem("NewToolTip")
  /\ reads' = Append(reads, "tip")
  /\ UNCHANGED <<itemOffered, shown, pixmapIndex, names, stale, itemSteps>>

OnNewStatus ==
  /\ TakeItem("NewStatus")
  /\ shown' = [shown EXCEPT !.status = Head(itemInbox).status]
  /\ UNCHANGED <<itemOffered, pixmapIndex, reads, names, stale, itemSteps>>

\* asyncReadSimpleProperty and asyncReadProperty: an error leaves the value alone.
OnReply ==
  /\ TakeItem("reply")
  /\ LET r == Head(itemInbox)
     IN  IF r.fails
         THEN stale' = stale \cup {r.key} /\ UNCHANGED shown
         ELSE shown' = [shown EXCEPT ![r.key] = r.value] /\ stale' = stale \ {r.key}
  /\ UNCHANGED <<itemOffered, pixmapIndex, reads, names, itemSteps>>

\* readIconData, first half: the names; a call that times out gives an empty name.
OnNewIcon(fails) ==
  /\ TakeItem("NewIcon")
  /\ names' = {IF fails THEN NoNames ELSE itemOffered.names}
  /\ stale' = IF fails THEN stale \cup {"names"} ELSE stale \ {"names"}
  /\ UNCHANGED <<itemOffered, shown, pixmapIndex, reads, itemSteps>>

\* Mutant: only a change of the regular pixmaps counts.
PixmapsReadIconOnly(fails) ==
  /\ names # {}
  /\ names' = {}
  /\ LET new == IF fails THEN NoPixmaps ELSE itemOffered.pixmaps
     IN  /\ shown' = [shown EXCEPT !.names = CHOOSE n \in names : TRUE, !.pixmaps = new]
         /\ pixmapIndex' = pixmapIndex + (IF new.icon # shown.pixmaps.icon THEN 1 ELSE 0)
  /\ stale' = IF fails THEN stale \cup {"pixmaps"} ELSE stale \ {"pixmaps"}
  /\ UNCHANGED <<itemOffered, reads, itemInbox, itemSteps>>

\* readIconData, second half: each list that changed raises the index (refreshPixmap).
PixmapsRead(fails) ==
  /\ names # {}
  /\ names' = {}
  /\ LET new == IF fails THEN NoPixmaps ELSE itemOffered.pixmaps
         changed == {key \in DOMAIN new : new[key] # shown.pixmaps[key]}
     IN  /\ shown' = [shown EXCEPT !.names = CHOOSE n \in names : TRUE, !.pixmaps = new]
         /\ pixmapIndex' = pixmapIndex + Cardinality(changed)
  /\ stale' = IF fails THEN stale \cup {"pixmaps"} ELSE stale \ {"pixmaps"}
  /\ UNCHANGED <<itemOffered, reads, itemInbox, itemSteps>>

ItemNext ==
  \/ AppTitles \/ AppTips \/ AppStatus \/ AppIcons
  \/ \E fails \in BOOLEAN : AppAnswersRead(fails) \/ OnNewIcon(fails) \/ PixmapsRead(fails)
  \/ OnNewTitle \/ OnNewToolTip \/ OnNewStatus \/ OnReply

ItemSpec == ItemInit /\ [][ItemNext]_itemVars

-----------------------------------------------------------------------------
ItemQuiet == reads = <<>> /\ itemInbox = <<>> /\ names = {}

(* When no signal, reply or read is under way, the item shows what the     *)
(* application has, but for properties whose last read failed; and the     *)
(* pixmap drawn is the smallest one that is large enough or, when none is, *)
(* the largest.                                                            *)
ItemCurrent ==
  /\ shown \in Values /\ itemOffered \in Values
  /\ ItemQuiet => \A key \in DOMAIN itemOffered : key \in stale \/ shown[key] = itemOffered[key]
  /\ \A key \in DOMAIN NoPixmaps :
       LET list == shown.pixmaps[key]
           sizes == ToSet(list)
           enough == {s \in sizes : s >= Wanted}
       IN  list # <<>> => IF enough = {} THEN \A s \in sizes : Closest(list) >= s
                          ELSE Closest(list) \in enough /\ \A s \in enough : Closest(list) <= s

(* QML reloads a picture only when its URL changes: with the names and the *)
(* status unchanged, other pixmaps that change what is drawn change the    *)
(* URL, unless it is one of the icon provider.  An item that needs         *)
(* attention and has both an icon and an overlay name but no attention     *)
(* name is left out: its URL has no index.                                 *)
PictureReloads ==
  [][(/\ shown'.names = shown.names /\ shown'.status = shown.status
      /\ IconUrl(shown, 0) \in {<<"both">>, <<"index", 0>>}
      /\ ~(shown.status = "NeedsAttention" /\ shown.names.icon /\ shown.names.overlay)
      /\ Picture(shown') # Picture(shown))
     => IconUrl(shown', pixmapIndex') # IconUrl(shown, pixmapIndex)]_itemVars
=============================================================================
