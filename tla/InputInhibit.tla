---------------------------- MODULE InputInhibit ----------------------------
(***************************************************************************)
(* Keyboard shortcuts inhibitors: the InputInhibit items of QML            *)
(* (InputInhibitAttached), the manager that keeps one inhibitor per window *)
(* (WlInputInhibitManager), and the protocol objects                       *)
(* (WlShortcutInhibitor), which are children of their windows.             *)
(***************************************************************************)
EXTENDS Naturals

CONSTANTS InhibitWindows, InhibitItems, NoWin

ASSUME InhibitAssumption == NoWin \notin InhibitWindows

VARIABLES
  winLives,   \* windows that exist
  itemWin,    \* m_window of each item
  asked,      \* m_inhibiting of each item
  known,      \* keys of m_activeInhibitors
  inhibiting, \* windows whose inhibitor exists
  honoured,   \* m_isInhibiting: the compositor has said "active"
  stopped,    \* windows whose inhibitor has been stopped
  refused,    \* windows refused as already active by the last step
  freedTwice  \* an inhibitor was deleted again

itemVars == <<itemWin, asked>>
managerVars == <<known, inhibiting, stopped, refused, freedTwice>>
inhibitVars == <<winLives, itemVars, managerVars, honoured>>

InhibitInit ==
  /\ winLives = InhibitWindows
  /\ itemWin = [i \in InhibitItems |-> NoWin]
  /\ asked = [i \in InhibitItems |-> FALSE]
  /\ known = {} /\ inhibiting = {} /\ honoured = {} /\ stopped = {} /\ refused = {}
  /\ freedTwice = FALSE

\* inhibitForWindow. The handle is returned through a copy of the pointer, so an item
\* never gets one: isActive of an item is always false.
InhibitForWindow(w) ==
  IF w \in known
  THEN refused' = {w} /\ UNCHANGED <<known, inhibiting>>
  ELSE /\ known' = known \cup {w} /\ inhibiting' = inhibiting \cup {w}
       /\ refused' = {}

NoInhibit == refused' = {} /\ UNCHANGED <<known, inhibiting>>

\* Mutant: the item does not inhibit for the window it comes to.
ItemEntersIdle(i, w) ==
  /\ w \in winLives /\ itemWin[i] # w
  /\ itemWin' = [itemWin EXCEPT ![i] = w]
  /\ NoInhibit
  /\ UNCHANGED <<winLives, asked, honoured, stopped, freedTwice>>

\* componentComplete or windowChanged, initWindow: the window it leaves keeps its inhibitor.
ItemEnters(i, w) ==
  /\ w \in winLives /\ itemWin[i] # w
  /\ itemWin' = [itemWin EXCEPT ![i] = w]
  /\ IF asked[i] THEN InhibitForWindow(w) ELSE NoInhibit
  /\ UNCHANGED <<winLives, asked, honoured, stopped, freedTwice>>

ItemLeaves(i) ==
  /\ itemWin[i] # NoWin
  /\ itemWin' = [itemWin EXCEPT ![i] = NoWin]
  /\ NoInhibit
  /\ UNCHANGED <<winLives, asked, honoured, stopped, freedTwice>>

\* setInhibit(true)
AskInhibit(i) ==
  /\ ~asked[i]
  /\ asked' = [asked EXCEPT ![i] = TRUE]
  /\ IF itemWin[i] # NoWin THEN InhibitForWindow(itemWin[i]) ELSE NoInhibit
  /\ UNCHANGED <<winLives, itemWin, honoured, stopped, freedTwice>>

\* setInhibit(false), stopInhibitingWindow: the inhibitor is deleted and its entry stays.
Unask(i) ==
  LET w == itemWin[i] IN
  /\ asked[i] /\ ~freedTwice
  /\ asked' = [asked EXCEPT ![i] = FALSE]
  /\ refused' = {}
  /\ IF w \in known
     THEN /\ inhibiting' = inhibiting \ {w} /\ honoured' = honoured \ {w}
          /\ stopped' = stopped \cup {w}
          /\ freedTwice' = (w \notin inhibiting)
     ELSE UNCHANGED <<inhibiting, honoured, stopped, freedTwice>>
  /\ UNCHANGED <<winLives, itemWin, known>>

\* A window is destroyed, its items lose it, and its children go.
InhibitWindowGone(w) ==
  /\ w \in winLives
  /\ winLives' = winLives \ {w}
  /\ itemWin' = [i \in InhibitItems |-> IF itemWin[i] = w THEN NoWin ELSE itemWin[i]]
  /\ known' = known \ {w} /\ inhibiting' = inhibiting \ {w} /\ honoured' = honoured \ {w}
  /\ refused' = {}
  /\ UNCHANGED <<asked, stopped, freedTwice>>

\* active and inactive of the compositor
Honoured(w) ==
  /\ w \in inhibiting
  /\ honoured' = IF w \in honoured THEN honoured \ {w} ELSE honoured \cup {w}
  /\ refused' = {}
  /\ UNCHANGED <<winLives, itemWin, asked, known, inhibiting, stopped, freedTwice>>

InhibitNext ==
  \/ \E i \in InhibitItems : AskInhibit(i) \/ Unask(i) \/ ItemLeaves(i)
  \/ \E i \in InhibitItems, w \in InhibitWindows : ItemEnters(i, w)
  \/ \E w \in InhibitWindows : InhibitWindowGone(w) \/ Honoured(w)

InhibitSpec == InhibitInit /\ [][InhibitNext]_inhibitVars

-----------------------------------------------------------------------------
(* While no inhibitor of a window has been stopped, the window is          *)
(* inhibited as long as an item in it asks for that; inhibitors belong to  *)
(* windows that exist and that the manager knows.  Once one was stopped,   *)
(* its entry stays in m_activeInhibitors and neither holds any more.       *)
InhibitHolds ==
  /\ inhibiting \subseteq known /\ known \subseteq winLives
  /\ \A w \in winLives \ stopped :
       /\ (\E i \in InhibitItems : asked[i] /\ itemWin[i] = w) => w \in inhibiting
       /\ w \in known <=> w \in inhibiting
  /\ freedTwice => stopped # {}

(* "Attempted to inhibit shortcuts for window ... but it's already active  *)
(* for said window" (input_inhibit_manager.cpp:61): a window refused so is *)
(* inhibited.                                                              *)
RefusedIsActive == refused \subseteq inhibiting
=============================================================================
