---------------------------- MODULE Files_proofs ----------------------------
(***************************************************************************)
(* Proofs about what the shells keep in files: the control panel's form    *)
(* (ConfigForm) is what it shows, the wallpaper (Wallpaper) is that of the *)
(* last list read, the processes agree on the theme (Colors), what is      *)
(* reported as saved is kept (StateFiles) and the launcher lists the       *)
(* applications there are (DesktopEntries), for all sets of fields,        *)
(* wallpaper lists, processes, themes, colours, files and directories.     *)
(***************************************************************************)
EXTENDS ConfigForm, Wallpaper, Colors, StateFiles, DesktopEntries, Induction, SequenceTheorems,
        FunctionTheorems, FiniteSetTheorems, TLAPS

-----------------------------------------------------------------------------
(* The form of the control panel *)

FormTypeOK ==
  /\ DOMAIN formConfig = Fields /\ DOMAIN value = Fields /\ DOMAIN item = Fields
  /\ dirty \in [Fields -> BOOLEAN]
  /\ formDirty \in BOOLEAN /\ running \in BOOLEAN /\ writing \in BOOLEAN
  /\ formTimer \in BOOLEAN /\ isSaving \in BOOLEAN

\* What each field shows is what the next commit finds, and isSaving follows the timer and
\* the write; a process that has left takes both with it, so that the next one starts with
\* none.  The timer does not run during a write.
FieldsTruthful ==
  \A f \in Fields : /\ dirty[f] = (item[f] # formConfig[f])
                    /\ value[f] = item[f] /\ initial[f] = formConfig[f]
SavingTruthful ==
  /\ ~running => ~formTimer /\ ~writing /\ ~isSaving
  /\ ~(formTimer /\ writing)
  /\ isSaving = (formTimer \/ writing)

FormInv ==
  /\ FormTypeOK /\ SavingTruthful
  /\ running => FieldsTruthful /\ formDirty = AnyDirty(dirty) /\ sizes = SizesOf(formConfig)

LEMMA FormIsOK ==
  ASSUME NEW c, DOMAIN c = Fields, FormIs(c), formConfig' = c
  PROVE  /\ FieldsTruthful' /\ formDirty' = AnyDirty(dirty')
         /\ DOMAIN value' = Fields /\ DOMAIN item' = Fields /\ dirty' \in [Fields -> BOOLEAN]
         /\ formDirty' \in BOOLEAN
BY DEF FormIs, WriteToInputs, FieldsTruthful, AnyDirty

LEMMA InitFormInv == FormInit => FormInv
<1> SUFFICES ASSUME FormInit PROVE FormInv
  OBVIOUS
<1>1. DOMAIN FormDefaults = Fields
  BY DEF FormDefaults
<1>2. FormTypeOK /\ SavingTruthful
  BY <1>1 DEF FormInit, FormTypeOK, SavingTruthful
<1>3. FieldsTruthful /\ formDirty = AnyDirty(dirty)
  BY <1>1 DEF FormInit, FieldsTruthful, AnyDirty
<1> QED BY <1>2, <1>3 DEF FormInit, FormInv

LEMMA NextFormInv == FormInv /\ [FormNext]_formVars => FormInv'
<1> SUFFICES ASSUME FormInv, [FormNext]_formVars PROVE FormInv'
  OBVIOUS
<1>1. ASSUME Load PROVE FormInv'
  <2>1. PICK c : /\ DOMAIN c = Fields /\ formConfig' = c /\ sizes' = SizesOf(c) /\ FormIs(c)
    <3>1. \A json, old : DOMAIN Read(json, old) = Fields
      BY DEF Read
    <3>2. DOMAIN FormDefaults = Fields
      BY DEF FormDefaults
    <3> QED BY <1>1, <3>1, <3>2 DEF Load, SizesRead
  <2>2. running' /\ UNCHANGED <<formTimer, isSaving, writing>> /\ ~running
    BY <1>1 DEF Load
  <2>3. SavingTruthful'
    BY <2>2 DEF FormInv, SavingTruthful
  <2>4. FormTypeOK'
    BY <2>1, <2>2, FormIsOK DEF FormInv, FormTypeOK
  <2>5. sizes' = SizesOf(formConfig')
    BY <2>1
  <2> QED BY <2>1, <2>3, <2>4, <2>5, FormIsOK DEF FormInv
<1>2. ASSUME Quit PROVE FormInv'
  <2>1. FormTypeOK'
    BY <1>2 DEF Quit, FormInv, FormTypeOK, pageVars, fieldVars, inputVars
  <2>2. SavingTruthful'
    BY <1>2 DEF Quit, SavingTruthful
  <2>3. ~running'
    BY <1>2 DEF Quit
  <2> QED BY <2>1, <2>2, <2>3 DEF FormInv
<1>3. ASSUME NEW json, NEW p, EditFile(json, p) PROVE FormInv'
  <2>1. UNCHANGED <<pageVars, configVars, running, writing>> /\ ~running
    BY <1>3 DEF EditFile
  <2>2. FormTypeOK' /\ SavingTruthful' /\ ~running'
    BY <2>1 DEF FormInv, FormTypeOK, SavingTruthful, pageVars, configVars, fieldVars, inputVars
  <2> QED BY <2>2 DEF FormInv
<1>4. ASSUME NEW f \in Fields, NEW v, Type(f, v) PROVE FormInv'
  <2>1. /\ running /\ item' = [item EXCEPT ![f] = v] /\ value' = [value EXCEPT ![f] = v]
        /\ dirty' = [dirty EXCEPT ![f] = (v # initial[f])] /\ formDirty' = AnyDirty(dirty')
        /\ UNCHANGED <<formConfig, sizes, formTimer, isSaving, initial, running, writing>>
    BY <1>4 DEF Type, SetValue, configVars
  <2>2. FormTypeOK'
    BY <2>1 DEF FormInv, FormTypeOK, AnyDirty
  <2>3. SavingTruthful' /\ (sizes = SizesOf(formConfig))'
    BY <2>1 DEF FormInv, SavingTruthful
  <2>4. FieldsTruthful'
    <3> SUFFICES ASSUME NEW g \in Fields
                 PROVE  /\ dirty'[g] = (item'[g] # formConfig[g])
                        /\ value'[g] = item'[g] /\ initial[g] = formConfig[g]
      BY <2>1 DEF FieldsTruthful
    <3>1. /\ dirty[g] = (item[g] # formConfig[g])
          /\ value[g] = item[g] /\ initial[g] = formConfig[g]
      BY <2>1 DEF FormInv, FieldsTruthful
    <3>2. CASE g = f
      BY <2>1, <3>1, <3>2 DEF FormInv, FormTypeOK
    <3>3. CASE g # f
      BY <2>1, <3>1, <3>3 DEF FormInv, FormTypeOK
    <3> QED BY <3>2, <3>3
  <2> QED BY <2>1, <2>2, <2>3, <2>4 DEF FormInv
<1>5. ASSUME Commit PROVE FormInv'
  <2>1. CASE \E f \in Fields : Refused(f)
    <3>1. UNCHANGED <<configVars, fieldVars, inputVars, formDirty, running, writing>>
      BY <1>5, <2>1 DEF Commit
    <3> QED BY <3>1 DEF FormInv, FormTypeOK, SavingTruthful, FieldsTruthful, AnyDirty, SizesOf,
                        configVars, fieldVars, inputVars
  <2>2. CASE ~\E f \in Fields : Refused(f)
    <3>1. PICK c : /\ c = [f \in Fields |-> IF Assigned(f) THEN value[f] ELSE formConfig[f]]
                   /\ formConfig' = c /\ sizes' = SizesOf(c) /\ FormIs(c)
      BY <1>5, <2>2 DEF Commit
    <3>2. running /\ ~writing /\ formTimer' = TRUE /\ isSaving' = TRUE /\ UNCHANGED <<running, writing>>
      BY <1>5, <2>2 DEF Commit
    <3>3. DOMAIN c = Fields
      BY <3>1
    <3> QED BY <3>1, <3>2, <3>3, FormIsOK DEF FormInv, FormTypeOK, SavingTruthful
  <2> QED BY <2>1, <2>2
<1>6. ASSUME FormReset PROVE FormInv'
  <2>1. UNCHANGED <<formConfig, sizes, formTimer, isSaving, running, writing>> /\ FormIs(formConfig)
    BY <1>6 DEF FormReset, configVars
  <2>2. FormTypeOK' /\ SavingTruthful'
    BY <2>1, FormIsOK DEF FormInv, FormTypeOK, SavingTruthful
  <2>3. FieldsTruthful' /\ formDirty' = AnyDirty(dirty')
    BY <2>1, FormIsOK DEF FormInv, FormTypeOK
  <2> QED BY <2>1, <2>2, <2>3 DEF FormInv, SizesOf
<1>7. ASSUME FormSaveTimeout \/ SaveWritten PROVE FormInv'
  <2>1. UNCHANGED <<pageVars, formConfig, sizes, running>>
    BY <1>7 DEF FormSaveTimeout, SaveWritten
  <2>2. FormTypeOK' /\ SavingTruthful'
    BY <1>7, <2>1 DEF FormSaveTimeout, SaveWritten, FormInv, FormTypeOK, SavingTruthful, pageVars,
                      fieldVars, inputVars
  <2> QED BY <2>1, <2>2 DEF FormInv, FieldsTruthful, AnyDirty, SizesOf, pageVars, fieldVars, inputVars
<1>8. CASE UNCHANGED formVars
  BY <1>8 DEF formVars, FormInv, FormTypeOK, SavingTruthful, FieldsTruthful, AnyDirty, SizesOf,
              pageVars, fieldVars, inputVars, configVars
<1> QED BY <1>1, <1>2, <1>3, <1>4, <1>5, <1>6, <1>7, <1>8 DEF FormNext

\* The form tells the truth about the configuration whenever the panel runs, whatever is
\* typed, committed, refused, reset, saved or read: dirty marks, derived sizes and isSaving.
THEOREM FormAlwaysTruthful == FormSpec => []FormTruthful
<1>1. FormInv => FormTruthful
  BY DEF FormInv, FormTruthful, FieldsTruthful, SavingTruthful
<1> QED BY <1>1, InitFormInv, NextFormInv, PTL DEF FormSpec

-----------------------------------------------------------------------------
(* The wallpapers *)

\* A file that is a list is a sequence, whoever wrote it.
IsASequence(f) == \E S : f \in Seq(S)
WallFileOK == IsList(wallFile) => IsASequence(wallFile)

\* The list of the file, an index inside it, and the picture and the timer of that entry.
WallListShown ==
  /\ wallInstances = Parsed(wallFile)
  /\ wallInstances # <<>> => wallIndex < Len(wallInstances)
  /\ (wallInstances # <<>> /\ wallAnnounced # NoPic) => wallAnnounced = wallInstances[wallIndex + 1].pic
  /\ rotating = Rotates(wallInstances, wallIndex)

\* WallpaperSettled without the watch: between the read and attachWatcher nothing has
\* changed either, unless the change was missed.
WallInv ==
  /\ WallFileOK /\ wallIndex \in Nat /\ Len(wallInstances) \in Nat
  /\ (configured /\ IsList(wallFile) /\ ~debounce /\ ~wallMissed) => WallListShown

\* How a list that was parsed is read, of which the provers know no more.
LEMMA ParsedLength == ASSUME NEW f, IsASequence(f) PROVE Len(Parsed(f)) \in Nat
BY DEF Parsed, IsASequence

LEMMA InitWallInv == WallInit => WallInv
<1> SUFFICES ASSUME WallInit PROVE WallInv
  OBVIOUS
<1>1. WallFileOK
  BY WallpaperAssumption DEF WallInit, WallFileOK, IsASequence, IsList
<1>2. Len(wallInstances) \in Nat
  <2>1. CASE IsList(wallFile)
    BY <1>1, <2>1, ParsedLength DEF WallInit, WallFileOK
  <2>2. CASE ~IsList(wallFile)
    BY <2>2 DEF WallInit
  <2> QED BY <2>1, <2>2
<1>3. ASSUME IsList(wallFile) PROVE WallListShown
  <2>1. wallInstances = Parsed(wallFile) /\ wallIndex = 0 /\ rotating = Rotates(wallInstances, 0)
        /\ wallAnnounced = NoPic
    BY <1>3 DEF WallInit
  <2>2. wallInstances # <<>> => 0 < Len(wallInstances)
    BY <1>2
  <2> QED BY <2>1, <2>2 DEF WallListShown
<1> QED BY <1>1, <1>2, <1>3 DEF WallInit, WallInv

\* A file that is written while the shell runs: the watcher will say so, or it is missed.
LEMMA FileBecomesOK ==
  ASSUME NEW f, FileBecomes(f), UNCHANGED configured
  PROVE  ~(configured' /\ ~debounce' /\ ~wallMissed')
BY DEF FileBecomes

LEMMA NextWallInv == WallInv /\ [WallNext]_wallVars => WallInv'
<1> SUFFICES ASSUME WallInv, [WallNext]_wallVars PROVE WallInv'
  OBVIOUS
<1>1. ASSUME NEW f \in {NoWallFile, BadFile} \cup WallLists, EditWalls(f) PROVE WallInv'
  <2>1. WallFileOK'
    BY <1>1, WallpaperAssumption DEF EditWalls, FileBecomes, WallFileOK, IsASequence, IsList
  <2>2. ~(configured' /\ ~debounce' /\ ~wallMissed')
    BY <1>1, FileBecomesOK DEF EditWalls
  <2>3. UNCHANGED <<wallIndex, wallInstances>>
    BY <1>1 DEF EditWalls
  <2> QED BY <2>1, <2>2, <2>3 DEF WallInv
<1>2. ASSUME ParseConfig PROVE WallInv'
  <2>1. UNCHANGED <<wallFile, configured>>
    BY <1>2 DEF ParseConfig
  <2>2. CASE IsList(wallFile)
    <3>1. /\ wallInstances' = Parsed(wallFile) /\ wallIndex' = 0
          /\ rotating' = Rotates(Parsed(wallFile), 0) /\ wallAnnounced' \in Current(Parsed(wallFile), 0)
      BY <1>2, <2>2 DEF ParseConfig, Announce
    <3>2. Len(Parsed(wallFile)) \in Nat
      BY <2>2, ParsedLength DEF WallInv, WallFileOK
    <3>3. Parsed(wallFile) # <<>> => 0 < Len(Parsed(wallFile))
      BY <3>2
    <3>4. WallListShown'
      <4>1. Parsed(wallFile) # <<>> => wallAnnounced' = Parsed(wallFile)[0 + 1].pic
        BY <3>1, <3>2, <3>3 DEF Current
      <4> QED BY <2>1, <3>1, <3>3, <4>1 DEF WallListShown
    <3> QED BY <2>1, <3>1, <3>2, <3>4 DEF WallInv, WallFileOK
  <2>3. CASE ~IsList(wallFile)
    BY <1>2, <2>1, <2>3 DEF ParseConfig, WallInv, WallFileOK
  <2> QED BY <2>2, <2>3
<1>3. ASSUME MoveForward PROVE WallInv'
  <2>1. UNCHANGED <<wallFile, configured, wallInstances, debounce, wallMissed>>
    BY <1>3 DEF MoveForward
  <2>2. CASE Len(wallInstances) < 2
    <3>1. rotating' = FALSE /\ UNCHANGED <<wallIndex, wallAnnounced>>
      BY <1>3, <2>2 DEF MoveForward
    <3>2. \A i : Rotates(wallInstances, i) = FALSE
      BY <2>2 DEF WallInv, Rotates
    <3> QED BY <2>1, <3>1, <3>2 DEF WallInv, WallFileOK, WallListShown
  <2>3. CASE ~(Len(wallInstances) < 2)
    <3> DEFINE next == (wallIndex + 1) % Len(wallInstances)
    <3>1. next \in Nat /\ next < Len(wallInstances)
      BY <2>3 DEF WallInv
    <3>2. wallIndex' = next /\ rotating' = Rotates(wallInstances, next)
          /\ wallAnnounced' \in Current(wallInstances, next)
      BY <1>3, <2>3 DEF MoveForward, Announce
    <3> HIDE DEF next
    <3>3. wallAnnounced' = wallInstances[next + 1].pic
      BY <3>1, <3>2 DEF Current
    <3> QED BY <2>1, <3>1, <3>2, <3>3 DEF WallInv, WallFileOK, WallListShown
  <2> QED BY <2>2, <2>3
<1>4. ASSUME NEW p, ChangeWallpaper(p) PROVE WallInv'
  <2>1. PICK e : Saved(<<e>>) /\ (wallInstances' = <<e>> \/ UNCHANGED wallInstances)
    BY <1>4 DEF ChangeWallpaper
  <2>2. UNCHANGED <<configured, wallIndex>>
    BY <1>4 DEF ChangeWallpaper
  <2>3. ~(configured' /\ ~debounce' /\ ~wallMissed')
    BY <2>1, <2>2, FileBecomesOK DEF Saved
  <2>4. <<e>> \in Seq({e}) /\ Len(<<e>>) \in Nat
    OBVIOUS
  <2>5. WallFileOK'
    BY <2>1, <2>4 DEF Saved, FileBecomes, WallInv, WallFileOK, IsASequence
  <2> QED BY <2>1, <2>2, <2>3, <2>4, <2>5 DEF WallInv
<1>5. CASE AttachWatcher \/ UNCHANGED wallVars
  BY <1>5 DEF AttachWatcher, wallVars, WallInv, WallFileOK, WallListShown
<1> QED BY <1>1, <1>2, <1>3, <1>4, <1>5 DEF WallNext, SwitchTimeout, NextWallpaper, WallpaperReplace

\* Once the file has been read and no change of it was missed, the list, the index, the
\* picture on the bus and the timer are those of the file, whatever rotates, replaces or
\* edits in between.
THEOREM WallpaperAlwaysSettled == WallSpec => []WallpaperSettled
<1>1. WallInv => WallpaperSettled
  BY DEF WallInv, WallpaperSettled, WallListShown
<1> QED BY <1>1, InitWallInv, NextWallInv, PTL DEF WallSpec

-----------------------------------------------------------------------------
(* The colour themes *)

ColourTypeOK ==
  /\ active \in Names \cup {Torn, Mixed}
  /\ themeFile \in [Names -> Contents \cup {Missing, Torn}]
  /\ theme \in [Procs -> Names \cup {Torn, Mixed, NoTheme}]
  /\ colours \in [Procs -> Contents] /\ themeDb \in [Procs -> SUBSET Names]
  /\ themeWatched \in [Procs -> Names \cup {NoTheme}]
  /\ events \in [Procs -> SUBSET {"name", "colours"}]
  /\ stage \in [Procs -> {"off", "idle", "start", "choose", "write", "attach", "save"}]
  /\ preview \in [Procs -> Names \cup {NoTheme}]
  /\ handlers \in [Procs -> SUBSET Handlers] /\ overtaken \subseteq Procs
  /\ unheard \subseteq Procs /\ broken \in BOOLEAN

\* Of each process: its preview has an object that asked for it.
PreviewOwned(p) == preview[p] # NoTheme => handlers[p] # {}

\* When it has heard of every change of the name and is not about to write one, it shows
\* the theme the file names.
NameFollowed(p) ==
  /\ stage[p] \in {"idle", "save", "start", "attach"} /\ p \notin unheard
  /\ "name" \notin events[p] /\ active \in themeDb[p]
  => theme[p] = active

\* It has the colours of its theme's file as long as the file stays as it was read: until
\* it is watched, a change overtakes the process; from then on, a change is reported.
Loads(p) == stage[p] \in {"start", "choose", "write", "attach"}
Watches(p) == stage[p] # "off" /\ themeWatched[p] = theme[p] /\ "colours" \notin events[p]
ColoursFollowed(p) ==
  (/\ p \notin overtaken /\ (Loads(p) \/ Watches(p))
   /\ theme[p] \in Names /\ themeFile[theme[p]] \notin {Torn, Missing}) =>
  colours[p] = themeFile[theme[p]]

\* The file it watches is there, and stays; what it writes as the name of a theme is one.
WatchedThere(p) == /\ themeWatched[p] # NoTheme => themeFile[themeWatched[p]] # Missing
                   /\ stage[p] \in {"choose", "write", "save"} => theme[p] \in Names

\* The file of the name is empty while its one writer is about to write.
NameWhole ==
  ~broken => /\ \A p, q \in Procs : stage[p] = "write" /\ stage[q] = "write" => p = q
             /\ \A p \in Procs : stage[p] = "write" => active = Torn
             /\ (\A p \in Procs : stage[p] # "write") => active \in Names

ColourInv ==
  /\ ColourTypeOK
  /\ \A p \in Procs : PreviewOwned(p) /\ NameFollowed(p) /\ ColoursFollowed(p) /\ WatchedThere(p)

LEMMA InitColourInv == ColourInit => ColourInv
<1> SUFFICES ASSUME ColourInit PROVE ColourInv
  OBVIOUS
<1>1. ColourTypeOK
  BY DEF ColourInit, ColourTypeOK, Names, Contents
<1>2. \A p \in Procs : stage[p] = "off" /\ themeWatched[p] = NoTheme /\ preview[p] = NoTheme
  BY DEF ColourInit
<1> QED BY <1>1, <1>2 DEF ColourInv, PreviewOwned, NameFollowed, ColoursFollowed, WatchedThere,
                          Loads, Watches

\* What a step leaves alone of a process.
Untouched(p) ==
  /\ theme'[p] = theme[p] /\ colours'[p] = colours[p] /\ themeDb'[p] = themeDb[p]
  /\ themeWatched'[p] = themeWatched[p] /\ events'[p] = events[p] /\ stage'[p] = stage[p]
  /\ preview'[p] = preview[p] /\ handlers'[p] = handlers[p]
  /\ (p \in overtaken') <=> (p \in overtaken)
  /\ (p \in unheard') <=> (p \in unheard)

LEMMA UntouchedOK ==
  ASSUME ColourInv, NEW p \in Procs, Untouched(p), UNCHANGED <<active, themeFile>>
  PROVE  PreviewOwned(p)' /\ NameFollowed(p)' /\ ColoursFollowed(p)' /\ WatchedThere(p)'
<1>1. PreviewOwned(p) /\ NameFollowed(p) /\ ColoursFollowed(p) /\ WatchedThere(p)
  BY DEF ColourInv
<1>2. (Loads(p)' <=> Loads(p)) /\ (Watches(p)' <=> Watches(p))
  BY DEF Untouched, Loads, Watches
<1> QED BY <1>1, <1>2 DEF Untouched, PreviewOwned, NameFollowed, ColoursFollowed, WatchedThere

\* A step of one process that leaves the files alone.
LEMMA OneProcessOK ==
  ASSUME ColourInv, ColourTypeOK', NEW p \in Procs, UNCHANGED <<active, themeFile>>,
         \A q \in Procs \ {p} : Untouched(q),
         PreviewOwned(p)', NameFollowed(p)', ColoursFollowed(p)', WatchedThere(p)'
  PROVE  ColourInv'
BY UntouchedOK DEF ColourInv

\* loadFromFile: the colours of the file, if it is there and written.
LEMMA LoadedOK ==
  ASSUME ColourTypeOK, NEW n \in Names \cup {Torn, Mixed, NoTheme}, NEW old \in Contents
  PROVE  /\ Loaded(n, old) \in Contents
         /\ n \in Names /\ themeFile[n] \notin {Torn, Missing} => Loaded(n, old) = themeFile[n]
BY ColourAssumption DEF ColourTypeOK, Loaded, Contents

\* attachFileWatcher: a theme whose file is there, or nothing.
LEMMA WatchForOK ==
  ASSUME NEW n
  PROVE  /\ WatchFor(n) \in Names \cup {NoTheme}
         /\ WatchFor(n) # NoTheme => WatchFor(n) = n /\ themeFile[n] # Missing
BY DEF WatchFor

LEMMA ColourStartOK == ASSUME ColourInv, NEW p \in Procs, ColourStart(p) PROVE ColourInv'
<1> USE ColourAssumption DEF ColourStart
<1>1. UNCHANGED <<active, themeFile, themeWatched, events, preview, handlers>>
  OBVIOUS
<1>2. active \in Names \cup {Torn, Mixed, NoTheme} /\ "v0" \in Contents /\ ColourTypeOK
  BY DEF ColourInv, ColourTypeOK, Contents
<1>3. BuiltThemeDb \subseteq Names
  BY DEF BuiltThemeDb, Names
<1>4. /\ theme'[p] = active /\ colours'[p] = Loaded(active, "v0")
      /\ stage'[p] = "start" /\ p \notin overtaken' /\ themeDb'[p] = BuiltThemeDb
  BY <1>2 DEF ColourTypeOK
<1>5. ColourTypeOK'
  BY <1>2, <1>3, LoadedOK DEF ColourTypeOK
<1>6. \A q \in Procs \ {p} : Untouched(q)
  BY <1>2 DEF ColourTypeOK, Untouched
<1>7. PreviewOwned(p)' /\ NameFollowed(p)' /\ WatchedThere(p)'
  BY <1>1, <1>4 DEF ColourInv, PreviewOwned, NameFollowed, WatchedThere
<1>8. ColoursFollowed(p)'
  BY <1>1, <1>2, <1>4, LoadedOK DEF ColoursFollowed
<1> QED BY <1>1, <1>5, <1>6, <1>7, <1>8, OneProcessOK

LEMMA AttachOK == ASSUME ColourInv, NEW p \in Procs, Attach(p) PROVE ColourInv'
<1> USE DEF Attach
<1>1. ColourTypeOK /\ Loads(p)
  BY DEF ColourInv, Loads
<1>2. /\ stage'[p] = "idle" /\ themeWatched'[p] = WatchFor(theme[p])
      /\ "name" \in events'[p] <=> "name" \in events[p]
  BY <1>1 DEF ColourTypeOK
<1>3. ColourTypeOK'
  BY <1>1, WatchForOK DEF ColourTypeOK
<1>4. \A q \in Procs \ {p} : Untouched(q)
  BY <1>1 DEF ColourTypeOK, Untouched
<1>5. PreviewOwned(p)' /\ NameFollowed(p)' /\ ColoursFollowed(p)'
  BY <1>1, <1>2 DEF ColourInv, PreviewOwned, NameFollowed, ColoursFollowed
<1>6. WatchedThere(p)'
  BY <1>2, WatchForOK DEF WatchedThere
<1> QED BY <1>3, <1>4, <1>5, <1>6, OneProcessOK

LEMMA ColourStopOK == ASSUME ColourInv, NEW p \in Procs, ColourStop(p) PROVE ColourInv'
<1> USE DEF ColourStop
<1>1. UNCHANGED <<active, themeFile, overtaken, unheard, colours, themeDb>> /\ ColourTypeOK
  BY DEF ColourInv
<1>2. ColourTypeOK'
  BY <1>1 DEF ColourTypeOK
<1>3. \A q \in Procs \ {p} : Untouched(q)
  BY <1>1 DEF ColourTypeOK, Untouched
<1>4. /\ stage'[p] = "off" /\ preview'[p] = NoTheme /\ themeWatched'[p] = NoTheme
  BY <1>1 DEF ColourTypeOK
<1>5. PreviewOwned(p)' /\ NameFollowed(p)' /\ ColoursFollowed(p)' /\ WatchedThere(p)'
  BY <1>4 DEF PreviewOwned, NameFollowed, ColoursFollowed, WatchedThere, Loads, Watches
<1> QED BY <1>1, <1>2, <1>3, <1>5, OneProcessOK

\* setThemeName, by the user or because the name changed; then the event is handled.
LEMMA SetThemeNameOK ==
  ASSUME ColourInv, NEW p \in Procs, NEW n \in Names \cup {Torn, Mixed}, stage[p] = "idle", SetThemeName(p, n),
         UNCHANGED <<active, themeFile, themeDb, themeWatched, preview, handlers, broken>>,
         \/ UNCHANGED <<events, unheard>>
         \/ /\ n = active /\ events' = [events EXCEPT ![p] = @ \ {"name"}]
            /\ unheard' = unheard \ {p}
  PROVE  ColourInv'
<1> USE ColourAssumption
<1>1. ColourTypeOK /\ n \in Names \cup {Torn, Mixed, NoTheme}
  BY DEF ColourInv
<1>2. /\ events' \in [Procs -> SUBSET {"name", "colours"}]
      /\ "name" \notin events'[p] /\ n # active => "name" \notin events[p]
      /\ p \notin unheard' /\ n # active => p \notin unheard
      /\ unheard' \subseteq Procs /\ \A q \in Procs \ {p} : q \in unheard' <=> q \in unheard
      /\ "colours" \notin events'[p] => "colours" \notin events[p]
      /\ \A q \in Procs \ {p} : events'[q] = events[q]
  BY <1>1 DEF ColourTypeOK
<1>3. CASE n = theme[p] \/ n \notin themeDb[p]
  <2>1. UNCHANGED <<theme, colours, stage, overtaken>>
    BY <1>3 DEF SetThemeName
  <2>2. ColourTypeOK' /\ \A q \in Procs \ {p} : Untouched(q)
    BY <1>1, <1>2, <2>1 DEF ColourTypeOK, Untouched
  <2>3. PreviewOwned(p)' /\ WatchedThere(p)' /\ ColoursFollowed(p)'
    BY <1>2, <2>1 DEF ColourInv, PreviewOwned, WatchedThere, ColoursFollowed, Loads, Watches
  <2>4. NameFollowed(p)'
    BY <1>2, <1>3, <2>1 DEF ColourInv, NameFollowed
  <2> QED BY <2>2, <2>3, <2>4, OneProcessOK
<1>4. CASE ~(n = theme[p] \/ n \notin themeDb[p])
  <2>1. /\ theme' = [theme EXCEPT ![p] = n] /\ colours' = [colours EXCEPT ![p] = Loaded(n, @)]
        /\ overtaken' = overtaken \ {p} /\ stage' = [stage EXCEPT ![p] = "choose"]
    BY <1>4 DEF SetThemeName
  <2>2. n \in Names /\ colours[p] \in Contents
    BY <1>1, <1>4 DEF ColourTypeOK
  <2>3. ColourTypeOK' /\ \A q \in Procs \ {p} : Untouched(q)
    <3>1. ColourTypeOK'
      BY <1>1, <1>2, <2>1, <2>2, LoadedOK DEF ColourTypeOK
    <3>2. \A q \in Procs \ {p} : Untouched(q)
      BY <1>1, <1>2, <2>1 DEF ColourTypeOK, Untouched
    <3> QED BY <3>1, <3>2
  <2>4. theme'[p] = n /\ colours'[p] = Loaded(n, colours[p]) /\ stage'[p] = "choose"
    BY <1>1, <2>1 DEF ColourTypeOK
  <2>5. PreviewOwned(p)' /\ NameFollowed(p)' /\ WatchedThere(p)'
    BY <2>2, <2>4 DEF ColourInv, PreviewOwned, NameFollowed, WatchedThere
  <2>6. ColoursFollowed(p)'
    BY <1>1, <2>2, <2>4, LoadedOK DEF ColoursFollowed
  <2> QED BY <2>3, <2>5, <2>6, OneProcessOK
<1> QED BY <1>3, <1>4

\* Writing the name: every running process will hear of it, or is marked.
LEMMA NameWrittenOK ==
  ASSUME ColourInv, NEW p \in Procs, stage[p] \in {"choose", "write"},
         NEW s \in {"write", "attach"}, stage' = [stage EXCEPT ![p] = s], NameChanges,
         UNCHANGED <<overtaken, themeFile, theme, colours, themeDb, themeWatched, preview, handlers>>
  PROVE  \A q \in Procs : /\ PreviewOwned(q)' /\ NameFollowed(q)'
                          /\ ColoursFollowed(q)' /\ WatchedThere(q)'
<1>1. ColourTypeOK
  BY DEF ColourInv
<1>2. \A q \in Procs : /\ stage[q] # "off" => "name" \in events'[q] \/ q \in unheard'
                       /\ "colours" \in events'[q] <=> "colours" \in events[q]
  BY DEF NameChanges, Reported, Running, Starting
<1>3. \A q \in Procs : stage'[q] = IF q = p THEN s ELSE stage[q]
  BY <1>1 DEF ColourTypeOK
<1>4. ASSUME NEW q \in Procs PROVE PreviewOwned(q)' /\ NameFollowed(q)'
  <2>1. PreviewOwned(q)'
    BY DEF ColourInv, PreviewOwned
  <2>2. NameFollowed(q)'
    BY <1>2, <1>3 DEF NameFollowed
  <2> QED BY <2>1, <2>2
<1>5. ASSUME NEW q \in Procs PROVE ColoursFollowed(q)' /\ WatchedThere(q)'
  <2>1. (Loads(q)' <=> Loads(q)) /\ (Watches(q)' => Watches(q))
    BY <1>2, <1>3 DEF Loads, Watches
  <2>2. ColoursFollowed(q)'
    BY <2>1 DEF ColourInv, ColoursFollowed
  <2>3. WatchedThere(q)'
    BY <1>3 DEF ColourInv, WatchedThere
  <2> QED BY <2>2, <2>3
<1> QED BY <1>4, <1>5

LEMMA ReportedOK ==
  ASSUME ColourTypeOK, NEW kind \in {"name", "colours"}, NEW of
  PROVE  Reported(kind, of) \in [Procs -> SUBSET {"name", "colours"}]
BY DEF ColourTypeOK, Reported

LEMMA NameChangesOK ==
  ASSUME ColourTypeOK, NameChanges
  PROVE  events' \in [Procs -> SUBSET {"name", "colours"}] /\ unheard' \subseteq Procs
BY ReportedOK DEF NameChanges, ColourTypeOK, Starting

LEMMA TruncateActiveOK == ASSUME ColourInv, NEW p \in Procs, TruncateActive(p) PROVE ColourInv'
<1> USE DEF TruncateActive
<1>1. ColourTypeOK
  BY DEF ColourInv
<1>2. ColourTypeOK'
  BY <1>1, NameChangesOK DEF ColourTypeOK
<1>3. \A q \in Procs : /\ PreviewOwned(q)' /\ NameFollowed(q)'
                       /\ ColoursFollowed(q)' /\ WatchedThere(q)'
  BY <1>1, NameWrittenOK
<1> QED BY <1>2, <1>3 DEF ColourInv

LEMMA WriteActiveOK == ASSUME ColourInv, NEW p \in Procs, WriteActive(p) PROVE ColourInv'
<1> USE DEF WriteActive
<1>1. ColourTypeOK /\ theme[p] \in Names
  BY DEF ColourInv, WatchedThere
<1>2. Overwritten(theme[p]) \subseteq {theme[p], Mixed}
  BY DEF Overwritten
<1>3. ColourTypeOK'
  BY <1>1, <1>2, NameChangesOK DEF ColourTypeOK
<1>4. \A q \in Procs : /\ PreviewOwned(q)' /\ NameFollowed(q)'
                       /\ ColoursFollowed(q)' /\ WatchedThere(q)'
  BY <1>1, NameWrittenOK
<1> QED BY <1>3, <1>4 DEF ColourInv

LEMMA ThemeFileChangedOK == ASSUME ColourInv, NEW p \in Procs, ThemeFileChanged(p) PROVE ColourInv'
<1> USE ColourAssumption DEF ThemeFileChanged
<1>1. ColourTypeOK /\ theme[p] \in Names \cup {Torn, Mixed, NoTheme} /\ colours[p] \in Contents
  BY DEF ColourInv, ColourTypeOK
<1>2. /\ colours'[p] = Loaded(theme[p], colours[p]) /\ stage'[p] = "attach"
      /\ "name" \in events'[p] <=> "name" \in events[p]
  BY <1>1 DEF ColourTypeOK
<1>3. ColourTypeOK'
  BY <1>1, LoadedOK DEF ColourTypeOK
<1>4. \A q \in Procs \ {p} : Untouched(q)
  BY <1>1 DEF ColourTypeOK, Untouched
<1>5. PreviewOwned(p)' /\ NameFollowed(p)'
  BY <1>2 DEF ColourInv, PreviewOwned, NameFollowed
<1>6. ColoursFollowed(p)'
  BY <1>1, <1>2, LoadedOK DEF ColoursFollowed
<1>7. WatchedThere(p)'
  BY <1>2 DEF ColourInv, WatchedThere
<1> QED BY <1>3, <1>4, <1>5, <1>6, <1>7, OneProcessOK

\* Writing the colours of a theme: who watches its file will hear of it, who has not
\* watched it yet is overtaken.
LEMMA ColoursWrittenOK ==
  ASSUME ColourInv, NEW p \in Procs, theme[p] \in Names, NEW c \in Contents \cup {Torn},
         NEW s \in {"save", "idle"}, stage[p] \in {"save", "idle"}, stage' = [stage EXCEPT ![p] = s],
         themeFile' = [themeFile EXCEPT ![theme[p]] = c],
         events' = Reported("colours", {q \in Running : themeWatched[q] = theme[p]}),
         overtaken' = overtaken \cup Loading(theme[p]),
         colours' \in [Procs -> Contents], \A q \in Procs \ {p} : colours'[q] = colours[q],
         UNCHANGED <<active, theme, themeDb, themeWatched, preview, handlers, unheard, broken>>
  PROVE  ColourInv'
<1> USE ColourAssumption
<1>1. ColourTypeOK
  BY DEF ColourInv
<1>2. ColourTypeOK'
  BY <1>1, ReportedOK DEF ColourTypeOK, Loading
<1>3. /\ themeFile'[theme[p]] = c /\ c # Missing
      /\ \A n \in Names \ {theme[p]} : themeFile'[n] = themeFile[n]
  BY <1>1 DEF ColourTypeOK, Contents, Missing, Torn
<1>4. ASSUME NEW q \in Procs
      PROVE  /\ stage'[q] # "off" <=> stage[q] # "off"
             /\ Loads(q)' <=> Loads(q)
             /\ "name" \in events'[q] <=> "name" \in events[q]
             /\ stage[q] # "off" /\ themeWatched[q] = theme[p] => "colours" \in events'[q]
             /\ "colours" \notin events'[q] => "colours" \notin events[q]
             /\ Loads(q) /\ theme[q] = theme[p] => q \in overtaken'
             /\ q = p => ~Loads(q)
             /\ stage'[q] \in {"idle", "save", "start", "attach"} <=>
                  stage[q] \in {"idle", "save", "start", "attach"}
             /\ q # p => stage'[q] = stage[q]
  <2>1. stage'[q] = IF q = p THEN s ELSE stage[q]
    BY <1>1 DEF ColourTypeOK
  <2>2. events'[q] = IF stage[q] # "off" /\ themeWatched[q] = theme[p]
                     THEN events[q] \cup {"colours"} ELSE events[q]
    BY DEF Reported, Running
  <2>3. Loads(q) /\ theme[q] = theme[p] => q \in overtaken'
    BY DEF Loads, Loading
  <2> QED BY <2>1, <2>2, <2>3 DEF Loads
<1>5. ASSUME NEW q \in Procs
      PROVE  PreviewOwned(q)' /\ NameFollowed(q)' /\ ColoursFollowed(q)' /\ WatchedThere(q)'
  <2>1. PreviewOwned(q)' /\ NameFollowed(q)'
    BY <1>4 DEF ColourInv, PreviewOwned, NameFollowed
  <2>2. ColoursFollowed(q)'
    <3>1. CASE theme[q] = theme[p]
      <4>1. (Loads(q) => q \in overtaken') /\ ~Watches(q)'
        BY <1>4, <3>1 DEF Watches
      <4> QED BY <1>4, <4>1 DEF ColoursFollowed
    <3>2. CASE theme[q] # theme[p]
      <4>1. Watches(q)' => Watches(q)
        BY <1>4 DEF Watches
      <4>2. q # p /\ colours'[q] = colours[q]
        BY <3>2
      <4> QED BY <1>3, <1>4, <3>2, <4>1, <4>2 DEF ColourInv, ColoursFollowed
    <3> QED BY <3>1, <3>2
  <2>3. WatchedThere(q)'
    <3>1. WatchedThere(q) /\ themeWatched[q] \in Names \cup {NoTheme}
      BY <1>1 DEF ColourInv, ColourTypeOK
    <3>2. themeWatched[q] # NoTheme => themeFile'[themeWatched[q]] # Missing
      BY <1>3, <3>1 DEF WatchedThere
    <3>3. stage'[q] \in {"choose", "write", "save"} => theme[q] \in Names
      BY <1>4, <3>1 DEF WatchedThere
    <3> QED BY <3>2, <3>3 DEF WatchedThere
  <2> QED BY <2>1, <2>2, <2>3
<1> QED BY <1>2, <1>5 DEF ColourInv

LEMMA SaveColoursOK ==
  ASSUME ColourInv, NEW p \in Procs, NEW c \in Versions, SaveColours(p, c) PROVE ColourInv'
<1> USE DEF SaveColours
<1>1. colours \in [Procs -> Contents] /\ c \in Contents
  BY DEF ColourInv, ColourTypeOK, Contents
<1>2. colours' \in [Procs -> Contents] /\ \A q \in Procs \ {p} : colours'[q] = colours[q]
  BY <1>1
<1> QED BY <1>2, ColoursWrittenOK

LEMMA WriteColoursOK == ASSUME ColourInv, NEW p \in Procs, WriteColours(p) PROVE ColourInv'
<1> USE DEF WriteColours
<1>1. colours \in [Procs -> Contents] /\ theme[p] \in Names
  BY DEF ColourInv, ColourTypeOK, WatchedThere
<1>2. colours[p] \in Contents
  BY <1>1
<1> QED BY <1>1, <1>2, ColoursWrittenOK

\* The preview, of one process.
LEMMA PreviewOK ==
  ASSUME ColourInv, NEW p \in Procs,
         NEW n \in Names \cup {NoTheme}, preview' = [preview EXCEPT ![p] = n],
         NEW H \in SUBSET Handlers, handlers' = [handlers EXCEPT ![p] = H], n # NoTheme => H # {},
         UNCHANGED <<overtaken, unheard, broken, active, themeFile, theme, colours, themeDb,
                     themeWatched, events, stage>>
  PROVE  ColourInv'
<1>1. ColourTypeOK
  BY DEF ColourInv
<1>2. ColourTypeOK'
  BY <1>1 DEF ColourTypeOK
<1>3. \A q \in Procs \ {p} : Untouched(q)
  BY <1>1 DEF ColourTypeOK, Untouched
<1>4. PreviewOwned(p)'
  BY <1>1 DEF ColourTypeOK, PreviewOwned
<1>5. NameFollowed(p)' /\ ColoursFollowed(p)' /\ WatchedThere(p)'
  BY DEF ColourInv, NameFollowed, ColoursFollowed, WatchedThere, Loads, Watches
<1> QED BY <1>2, <1>3, <1>4, <1>5, OneProcessOK

LEMMA NextColourInv == ColourInv /\ [ColourNext]_colourVars => ColourInv'
<1> SUFFICES ASSUME ColourInv, [ColourNext]_colourVars PROVE ColourInv'
  OBVIOUS
<1>1. CASE UNCHANGED colourVars
  BY <1>1 DEF colourVars, ColourInv, ColourTypeOK, PreviewOwned, NameFollowed, ColoursFollowed,
              WatchedThere, Loads, Watches
<1>2. ASSUME NEW p \in Procs, \/ ColourStart(p) \/ Attach(p) \/ ColourStop(p)
                             \/ TruncateActive(p) \/ WriteActive(p)
      PROVE  ColourInv'
  BY <1>2, ColourStartOK, AttachOK, ColourStopOK, TruncateActiveOK, WriteActiveOK
<1>3. ASSUME NEW p \in Procs, SelectorChanged(p) PROVE ColourInv'
  <2>1. active \in Names \cup {Torn, Mixed}
    BY DEF ColourInv, ColourTypeOK
  <2> QED BY <1>3, <2>1, SetThemeNameOK DEF SelectorChanged
<1>4. ASSUME NEW p \in Procs, NEW n \in Names, Choose(p, n) PROVE ColourInv'
  BY <1>4, SetThemeNameOK DEF Choose
<1>5. ASSUME NEW p \in Procs, ThemeFileChanged(p) \/ WriteColours(p) PROVE ColourInv'
  BY <1>5, ThemeFileChangedOK, WriteColoursOK
<1>6. ASSUME NEW p \in Procs, NEW c \in Versions, SaveColours(p, c) PROVE ColourInv'
  BY <1>6, SaveColoursOK
<1>7. ASSUME NEW p \in Procs, NEW n \in Names, NEW h \in Handlers, LoadPreview(p, n, h) PROVE ColourInv'
  <2>1. handlers[p] \cup {h} \in SUBSET Handlers
    BY DEF ColourInv, ColourTypeOK
  <2> QED BY <1>7, <2>1, PreviewOK DEF LoadPreview
<1>8. ASSUME NEW p \in Procs, NEW h \in Handlers, ClosePreview(p, h) PROVE ColourInv'
  <2>1. handlers[p] \ {h} \in SUBSET Handlers
    BY DEF ColourInv, ColourTypeOK
  <2> QED BY <1>8, <2>1, PreviewOK DEF ClosePreview
<1> QED BY <1>1, <1>2, <1>3, <1>4, <1>5, <1>6, <1>7, <1>8 DEF ColourNext

LEMMA NextNameWhole ==
  ASSUME ColourInv, NameWhole, [ColourNext]_colourVars PROVE NameWhole'
<1>1. ColourTypeOK
  BY DEF ColourInv
<1>2. ASSUME NEW p \in Procs, TruncateActive(p) PROVE NameWhole'
  <2>1. /\ \A q \in Procs : stage'[q] = IF q = p THEN "write" ELSE stage[q]
        /\ active' = Torn /\ (~broken' => \A q \in Procs \ {p} : stage[q] # "write")
    BY <1>1, <1>2 DEF TruncateActive, ColourTypeOK
  <2> QED BY <2>1 DEF NameWhole
<1>3. ASSUME NEW p \in Procs, WriteActive(p) PROVE NameWhole'
  <2>1. /\ \A q \in Procs : stage'[q] = IF q = p THEN "attach" ELSE stage[q]
        /\ active' \in Overwritten(theme[p]) /\ broken' = broken /\ stage[p] = "write"
    BY <1>1, <1>3 DEF WriteActive, ColourTypeOK
  <2>2. theme[p] \in Names
    BY <2>1 DEF ColourInv, WatchedThere
  <2>3. ~broken => active' \in Names /\ \A q \in Procs \ {p} : stage[q] # "write"
    <3>1. ~broken => active = Torn /\ \A q \in Procs \ {p} : stage[q] # "write"
      BY <2>1 DEF NameWhole
    <3>2. active = Torn => Overwritten(theme[p]) = {theme[p]}
      BY ColourAssumption DEF Overwritten, Torn, Mixed
    <3> QED BY <2>1, <2>2, <3>1, <3>2
  <2> QED BY <2>1, <2>3 DEF NameWhole
<1>4. ASSUME NEW p \in Procs, ColourStop(p) PROVE NameWhole'
  <2>1. /\ \A q \in Procs : stage'[q] = IF q = p THEN "off" ELSE stage[q]
        /\ active' = active /\ broken' = (broken \/ stage[p] = "write")
    BY <1>1, <1>4 DEF ColourStop, ColourTypeOK
  <2> QED BY <2>1 DEF NameWhole
<1>5. ASSUME UNCHANGED <<active, broken>>,
             \A q \in Procs : stage'[q] = "write" <=> stage[q] = "write"
      PROVE  NameWhole'
  BY <1>5 DEF NameWhole
<1>6. ASSUME NEW p \in Procs,
             \/ ColourStart(p) \/ Attach(p) \/ SelectorChanged(p) \/ ThemeFileChanged(p) \/ WriteColours(p)
             \/ \E n \in Names : Choose(p, n)
             \/ \E c \in Versions : SaveColours(p, c)
             \/ \E n \in Names, h \in Handlers : LoadPreview(p, n, h)
             \/ \E h \in Handlers : ClosePreview(p, h)
      PROVE  NameWhole'
  <2>1. /\ UNCHANGED <<active, broken>> /\ stage[p] # "write"
        /\ \/ UNCHANGED stage
           \/ \E s \in {"start", "idle", "choose", "attach", "save"} : stage' = [stage EXCEPT ![p] = s]
    BY <1>6 DEF ColourStart, Attach, SelectorChanged, ThemeFileChanged, WriteColours, Choose,
                SetThemeName, SaveColours, LoadPreview, ClosePreview
  <2>2. \A q \in Procs : stage'[q] = "write" <=> stage[q] = "write"
    BY <1>1, <2>1 DEF ColourTypeOK
  <2> QED BY <2>1, <2>2, <1>5
<1>7. CASE UNCHANGED colourVars
  BY <1>5, <1>7 DEF colourVars
<1> QED BY <1>2, <1>3, <1>4, <1>6, <1>7 DEF ColourNext

\* A preview never outlives the objects that asked for it.  When every change has been
\* handled and no write is under way, activetheme holds the name of a theme unless the last
\* writers of it got in each other's way or died; and every running process shows that theme,
\* if it knows it and was watching when it was chosen, and the colours of its file, if it
\* watches it and it did not change before it did.
THEOREM ThemesAlwaysAgree == ColourSpec => []ThemesAgree
<1>1. ColourInv /\ NameWhole => ThemesAgree
  <2> SUFFICES ASSUME ColourInv, NameWhole PROVE ThemesAgree
    OBVIOUS
  <2>1. \A p \in Running : preview[p] # NoTheme => handlers[p] # {}
    BY DEF ColourInv, PreviewOwned, Running
  <2>2. ASSUME \A p \in Procs : stage[p] \in {"off", "idle"} /\ events[p] = {}, NEW p \in Running
        PROVE  /\ p \notin unheard /\ active \in themeDb[p] => theme[p] = active
               /\ (/\ p \notin overtaken /\ themeWatched[p] = theme[p] /\ theme[p] \in Names
                   /\ themeFile[theme[p]] # Torn) => colours[p] = themeFile[theme[p]]
    <3>1. p \in Procs /\ stage[p] = "idle" /\ "name" \notin events[p] /\ "colours" \notin events[p]
      BY <2>2 DEF Running
    <3>2. p \notin unheard /\ active \in themeDb[p] => theme[p] = active
      BY <3>1 DEF ColourInv, NameFollowed
    <3>3. ASSUME p \notin overtaken, themeWatched[p] = theme[p], theme[p] \in Names,
                 themeFile[theme[p]] # Torn
          PROVE  colours[p] = themeFile[theme[p]]
      <4>1. theme[p] # NoTheme /\ themeFile[theme[p]] # Missing
        BY <3>1, <3>3, ColourAssumption DEF ColourInv, WatchedThere
      <4>2. Watches(p)
        BY <3>1, <3>3 DEF Watches
      <4> QED BY <3>1, <3>3, <4>1, <4>2 DEF ColourInv, ColoursFollowed
    <3> QED BY <3>2, <3>3
  <2>3. ASSUME \A p \in Procs : stage[p] \in {"off", "idle"} PROVE ~broken => active \in Names
    BY <2>3 DEF NameWhole
  <2> QED BY <2>1, <2>2, <2>3 DEF ThemesAgree
<1>2. ColourInit => NameWhole
  BY DEF ColourInit, NameWhole, Names
<1> QED BY <1>1, <1>2, InitColourInv, NextColourInv, NextNameWhole, PTL DEF ColourSpec

-----------------------------------------------------------------------------
(* The state files *)

\* The list kept after each id.
KeptStep(list, a) == IF a = NoId \/ a \in ToSet(list) THEN list ELSE Append(list, a)

LEMMA KeptDef ==
  ASSUME NEW file \in Seq(STRING)
  PROVE  /\ Kept(file)[0] = <<>>
         /\ \A n \in 1 .. Len(file) : Kept(file)[n] = KeptStep(Kept(file)[n - 1], file[n])
<1> DEFINE N == Len(file)  Lists == Seq(STRING)
           step == [n \in 1 .. N |-> [list \in Lists |-> KeptStep(list, file[n])]]
           Rec(g) == [n \in 0 .. N |-> IF n = 0 THEN <<>> ELSE KeptStep(g[n - 1], file[n])]
<1>1. N \in Nat /\ <<>> \in Lists
  OBVIOUS
<1>2. \A n \in 1 .. N : \A list \in Lists : KeptStep(list, file[n]) \in Lists
  <2> SUFFICES ASSUME NEW n \in 1 .. N, NEW list \in Lists PROVE KeptStep(list, file[n]) \in Lists
    OBVIOUS
  <2>1. file[n] \in STRING
    OBVIOUS
  <2>2. Append(list, file[n]) \in Lists
    BY <2>1
  <2> QED BY <2>2 DEF KeptStep
<1> HIDE DEF N, Lists
<1>3. step \in [1 .. N -> [Lists -> Lists]]
  BY <1>2
<1>4. /\ \A n \in 1 .. N, list \in Lists : step[n][list] = KeptStep(list, file[n])
      /\ \A n \in 1 .. N : n \in 0 .. N /\ n - 1 \in 0 .. N /\ n # 0
  BY <1>1
<1> HIDE DEF step
<1>5. PICK g \in [0 .. N -> Lists] : Recursion(g, N, <<>>, step)
  BY <1>1, <1>3, RecursionDefines
<1>6. \A n \in 1 .. N : g[n] = KeptStep(g[n - 1], file[n])
  BY <1>4, <1>5 DEF Recursion
<1>7. g = Rec(g)
  BY <1>1, <1>5, <1>6 DEF Recursion
<1>8. Kept(file) = Rec(Kept(file))
  BY <1>7 DEF Kept, KeptStep, N
<1> HIDE DEF Rec
<1>9. \A n \in 0 .. N : Kept(file)[n] = Rec(Kept(file))[n]
  BY <1>8
<1>10. Rec(Kept(file))[0] = <<>>
  BY <1>1 DEF Rec
<1>11. \A n \in 1 .. N : Rec(Kept(file))[n] = KeptStep(Kept(file)[n - 1], file[n])
  BY <1>4 DEF Rec
<1> QED BY <1>1, <1>4, <1>9, <1>10, <1>11 DEF N

\* A list the program may have: no empty id, none twice.
Proper(list) == /\ list \in Seq(STRING)
                /\ \A i \in 1 .. Len(list) : list[i] # NoId
                /\ \A i, j \in 1 .. Len(list) : list[i] = list[j] => i = j

LEMMA Longer ==
  ASSUME NEW S, NEW list \in Seq(S), NEW a \in S
  PROVE  /\ Append(list, a) \in Seq(S) /\ Len(Append(list, a)) = Len(list) + 1
         /\ Append(list, a)[Len(list) + 1] = a
         /\ \A i \in 1 .. Len(list) : Append(list, a)[i] = list[i]
         /\ Len(list) \in Nat /\ DOMAIN list = 1 .. Len(list)
BY AppendProperties, LenProperties

LEMMA ProperAppend ==
  ASSUME NEW list, Proper(list), NEW a \in STRING, a # NoId, a \notin ToSet(list)
  PROVE  Proper(Append(list, a))
<1>1. /\ Append(list, a) \in Seq(STRING) /\ Len(Append(list, a)) = Len(list) + 1
      /\ \A i \in 1 .. Len(list) : Append(list, a)[i] = list[i] /\ list[i] # a
      /\ Append(list, a)[Len(list) + 1] = a /\ Len(list) \in Nat
  <2>1. list \in Seq(STRING)
    BY DEF Proper
  <2>2. /\ Append(list, a) \in Seq(STRING) /\ Len(Append(list, a)) = Len(list) + 1
        /\ Append(list, a)[Len(list) + 1] = a
        /\ \A i \in 1 .. Len(list) : Append(list, a)[i] = list[i]
        /\ Len(list) \in Nat /\ DOMAIN list = 1 .. Len(list)
    BY <2>1, Longer, Zenon
  <2>3. \A i \in 1 .. Len(list) : list[i] # a
    BY <2>2, Zenon DEF ToSet
  <2> QED BY <2>2, <2>3, Zenon
<1>2. ASSUME NEW i \in 1 .. Len(list) + 1
      PROVE  i \in 1 .. Len(list) \/ (i = Len(list) + 1 /\ i \notin 1 .. Len(list))
  BY <1>1
<1>3. \A i \in 1 .. Len(list) + 1 : Append(list, a)[i] # NoId
  BY <1>1, <1>2 DEF Proper
<1>4. \A i, j \in 1 .. Len(list) + 1 : Append(list, a)[i] = Append(list, a)[j] => i = j
  BY <1>1, <1>2 DEF Proper
<1> QED BY <1>1, <1>3, <1>4 DEF Proper

\* What is read from a file is such a list.
LEMMA FavoritesProper == ASSUME NEW file \in Seq(STRING) PROVE Proper(Favorites(file))
<1> DEFINE T == {n \in 0 .. Len(file) : Proper(Kept(file)[n])}
<1>1. Len(file) \in Nat /\ Proper(<<>>)
  BY DEF Proper
<1>2. 0 \in T
  BY <1>1, KeptDef
<1>3. ASSUME NEW n \in 1 .. Len(file), n - 1 \in T PROVE n \in T
  <2>1. Proper(Kept(file)[n - 1]) /\ file[n] \in STRING
    BY <1>3
  <2>2. Proper(KeptStep(Kept(file)[n - 1], file[n]))
    BY <2>1, ProperAppend DEF KeptStep
  <2> QED BY <2>2, KeptDef
<1> HIDE DEF T
<1>4. \A n \in 0 .. Len(file) : n \in T
  BY <1>1, <1>2, <1>3, UpTo
<1>5. Len(file) \in T
  BY <1>1, <1>4
<1> QED BY <1>5 DEF T, Favorites

\* Such a list, written and read again, is the same.
LEMMA ProperReadAgain == ASSUME NEW list, Proper(list) PROVE Favorites(list) = list
<1> DEFINE Prefix(n) == [i \in 1 .. n |-> list[i]]
           T == {n \in 0 .. Len(list) : Kept(list)[n] = Prefix(n)}
<1>1. list \in Seq(STRING) /\ Len(list) \in Nat
  BY DEF Proper
<1>2. 0 \in T
  BY <1>1, KeptDef
<1>3. ASSUME NEW n \in 1 .. Len(list), n - 1 \in T PROVE n \in T
  <2>1. Kept(list)[n - 1] = Prefix(n - 1) /\ n \in Nat /\ n - 1 \in Nat
    BY <1>3
  <2>2. list[n] # NoId /\ list[n] \in STRING
    BY DEF Proper
  <2>3. list[n] \notin ToSet(Prefix(n - 1))
    BY <2>1 DEF Proper, ToSet
  <2>4. Kept(list)[n] = Append(Prefix(n - 1), list[n])
    BY <1>1, <2>1, <2>2, <2>3, KeptDef DEF KeptStep
  <2>5. Append(Prefix(n - 1), list[n]) = Prefix(n)
    BY <1>1, <2>1, <2>2
  <2>6. Kept(list)[n] = Prefix(n)
    BY <2>4, <2>5
  <2>7. n \in 0 .. Len(list)
    BY <1>1
  <2> HIDE DEF Prefix
  <2> QED BY <2>6, <2>7
<1>4. Len(list) \in T
  <2> HIDE DEF T
  <2>1. \A n \in 0 .. Len(list) : n \in T
    BY <1>1, <1>2, <1>3, UpTo
  <2> QED BY <1>1, <2>1
<1>5. Favorites(list) = Prefix(Len(list))
  BY <1>4 DEF Favorites
<1>6. Prefix(Len(list)) = list
  BY <1>1
<1> QED BY <1>5, <1>6

LEMMA ProperRemove == ASSUME NEW list, Proper(list), NEW a PROVE Proper(RemoveFirst(list, a))
<1>1. list \in Seq(STRING) /\ Len(list) \in Nat
  BY DEF Proper
<1>2. CASE RemoveFirst(list, a) = list
  BY <1>2
<1>3. ASSUME NEW k \in 1 .. Len(list),
             RemoveFirst(list, a) =
               [i \in 1 .. Len(list) - 1 |-> IF i < k THEN list[i] ELSE list[i + 1]]
      PROVE  Proper(RemoveFirst(list, a))
  <2> DEFINE r == [i \in 1 .. Len(list) - 1 |-> IF i < k THEN list[i] ELSE list[i + 1]]
  <2>1. r \in Seq(STRING) /\ Len(r) = Len(list) - 1
    <3>1. Len(list) - 1 \in Nat
      BY <1>1, <1>3
    <3>2. \A i \in 1 .. Len(list) - 1 : r[i] \in STRING
      BY <1>1, <1>3
    <3>3. r \in [1 .. Len(list) - 1 -> STRING]
      BY <3>2
    <3> HIDE DEF r
    <3> QED BY <3>1, <3>3
  <2>2. \A i \in 1 .. Len(r) : /\ r[i] = list[IF i < k THEN i ELSE i + 1]
                               /\ (IF i < k THEN i ELSE i + 1) \in 1 .. Len(list)
    BY <1>1, <1>3, <2>1
  <2>3. \A i, j \in 1 .. Len(r) : r[i] = r[j] => i = j
    <3> SUFFICES ASSUME NEW i \in 1 .. Len(r), NEW j \in 1 .. Len(r), r[i] = r[j] PROVE i = j
      OBVIOUS
    <3>1. (IF i < k THEN i ELSE i + 1) = (IF j < k THEN j ELSE j + 1)
      BY <2>2 DEF Proper
    <3>2. i \in Nat /\ j \in Nat /\ k \in Nat
      BY <1>3, <2>1
    <3> QED BY <3>1, <3>2
  <2>4. \A i \in 1 .. Len(r) : r[i] # NoId
    BY <2>2 DEF Proper
  <2> HIDE DEF r
  <2> QED BY <1>3, <2>1, <2>3, <2>4 DEF Proper
<1> QED BY <1>1, <1>2, <1>3, FirstTaken

\* The favourites.  Once written, userdata.json holds the list itself.
FavouritesKept ==
  /\ Proper(favorites) /\ userdata \in Seq(STRING) \cup {NoFile, Bad}
  /\ shellAlive /\ ~saveTimer /\ ~lost => Readable(userdata) /\ Favorites(userdata) = favorites
  /\ ~shellAlive => ~saveTimer

\* The configuration.  One event is on its way for the last watch; between a read and the
\* watch nothing is, so that what changes then is unseen.
ConfigKept ==
  /\ ~(stateWatched /\ event) /\ (stateAttaching => shellAlive /\ ~stateWatched /\ ~event)
  /\ (shellAlive /\ (stateAttaching \/ (stateWatched /\ ~event)) /\ ~unseen /\ Readable(configFile)) =>
       config = StateApplied(configFile)
  /\ ~shellAlive => ~stateWatched /\ ~event

StateInv == FavouritesKept /\ ConfigKept

\* What happens to the configuration leaves the favourites as they are.
LEMMA FavouritesAlone ==
  ASSUME FavouritesKept, UNCHANGED <<favVars, shellAlive>> PROVE FavouritesKept'
BY DEF FavouritesKept, favVars, Readable, Favorites, Kept, Proper

LEMMA ConfigAlone ==
  ASSUME ConfigKept, UNCHANGED <<cfgVars, shellAlive>> PROVE ConfigKept'
BY DEF ConfigKept, cfgVars, Readable, StateApplied

\* addFavoriteApp and removeFavoriteApp start the timer: nothing is said until it has run
\* out.
LEMMA ChangedOK == ASSUME StateInv, NEW list, Proper(list), Changed(list) PROVE StateInv'
<1>1. FavouritesKept'
  BY DEF StateInv, FavouritesKept, Changed
<1>2. ConfigKept'
  BY ConfigAlone DEF StateInv, Changed
<1> QED BY <1>1, <1>2 DEF StateInv

LEMMA EditConfigOK == ASSUME StateInv, NEW file, EditConfig(file) PROVE StateInv'
<1>1. FavouritesKept'
  BY FavouritesAlone DEF StateInv, EditConfig
<1>2. ConfigKept'
  BY DEF StateInv, ConfigKept, EditConfig
<1> QED BY <1>1, <1>2 DEF StateInv

LEMMA StateStartOK == ASSUME StateInv, StateStart PROVE StateInv'
<1> USE DEF StateStart
<1>1. FavouritesKept'
  <2>1. CASE Readable(userdata)
    <3>1. userdata \in Seq(STRING) /\ favorites' = Favorites(userdata) /\ ~lost' /\ userdata' = userdata
      BY <2>1 DEF StateInv, FavouritesKept, Readable
    <3>2. Proper(favorites')
      BY <3>1, FavoritesProper
    <3>3. Readable(userdata') /\ Favorites(userdata') = favorites'
      BY <2>1, <3>1
    <3> QED BY <3>1, <3>2, <3>3 DEF FavouritesKept
  <2>2. CASE ~Readable(userdata)
    <3>1. favorites' = <<>> /\ lost'
      BY <2>2
    <3>2. Proper(<<>>)
      BY DEF Proper
    <3> QED BY <3>1, <3>2 DEF StateInv, FavouritesKept
  <2> QED BY <2>1, <2>2
<1>2. ConfigKept'
  BY DEF StateInv, ConfigKept, Readable
<1> QED BY <1>1, <1>2 DEF StateInv

LEMMA SaveTimeoutOK == ASSUME StateInv, SaveTimeout PROVE StateInv'
<1> USE DEF SaveTimeout
<1>1. FavouritesKept'
  <2>1. Proper(favorites) /\ Proper(favorites')
    BY DEF StateInv, FavouritesKept
  <2>2. Favorites(favorites) = favorites /\ favorites \in Seq(STRING)
    BY <2>1, ProperReadAgain DEF Proper
  <2>3. CASE userdata' = favorites
    <3>1. Favorites(userdata') = favorites' /\ Readable(userdata')
      BY <2>2, <2>3, StateAssumption DEF Readable
    <3> QED BY <2>1, <2>2, <2>3, <3>1 DEF FavouritesKept
  <2>4. CASE lost' /\ userdata' = userdata
    BY <2>1, <2>4 DEF StateInv, FavouritesKept
  <2> QED BY <2>3, <2>4
<1>2. ConfigKept'
  BY ConfigAlone DEF StateInv
<1> QED BY <1>1, <1>2 DEF StateInv

LEMMA NextStateInv == StateInv /\ [StateNext]_stateVars => StateInv'
<1> SUFFICES ASSUME StateInv, [StateNext]_stateVars PROVE StateInv'
  OBVIOUS
<1>1. CASE UNCHANGED stateVars
  BY <1>1, FavouritesAlone, ConfigAlone DEF StateInv, stateVars
<1>2. CASE Crash
  <2>1. FavouritesKept'
    BY <1>2 DEF Crash, StateInv, FavouritesKept
  <2>2. ConfigKept'
    BY <1>2 DEF Crash, StateInv, ConfigKept
  <2> QED BY <2>1, <2>2 DEF StateInv
<1>3. CASE OnConfigFileChanged
  <2>1. FavouritesKept'
    BY <1>3, FavouritesAlone DEF OnConfigFileChanged, StateInv
  <2>2. ConfigKept'
    BY <1>3 DEF OnConfigFileChanged, StateInv, ConfigKept, Readable
  <2> QED BY <2>1, <2>2 DEF StateInv
<1>4. CASE AttachFileWatcher
  <2>1. FavouritesKept'
    BY <1>4, FavouritesAlone DEF AttachFileWatcher, StateInv
  <2>2. ConfigKept'
    BY <1>4 DEF AttachFileWatcher, StateInv, ConfigKept
  <2> QED BY <2>1, <2>2 DEF StateInv
<1>5. ASSUME NEW a \in Apps \ {NoId}, AddFavoriteApp(a) \/ RemoveFavoriteApp(a) PROVE StateInv'
  <2>1. Proper(favorites) /\ a \in STRING
    BY StateAssumption DEF StateInv, FavouritesKept
  <2>2. CASE AddFavoriteApp(a)
    <3>1. CASE a \in ToSet(favorites)
      BY <2>1, <2>2, <3>1, ChangedOK DEF AddFavoriteApp
    <3>2. CASE a \notin ToSet(favorites)
      BY <2>1, <2>2, <3>2, ChangedOK, ProperAppend DEF AddFavoriteApp
    <3> QED BY <3>1, <3>2
  <2>3. CASE RemoveFavoriteApp(a)
    BY <2>1, <2>3, ChangedOK, ProperRemove DEF RemoveFavoriteApp
  <2> QED BY <1>5, <2>2, <2>3
<1> QED BY <1>1, <1>2, <1>3, <1>4, <1>5, StateStartOK, SaveTimeoutOK, EditConfigOK DEF StateNext

LEMMA InitStateInv == StateInit => StateInv
<1> SUFFICES ASSUME StateInit PROVE StateInv
  OBVIOUS
<1>1. userdata \in Seq(STRING) \cup {NoFile, Bad}
  BY StateAssumption DEF StateInit
<1>2. favorites = <<>> /\ ~shellAlive /\ ~saveTimer /\ ~stateWatched /\ ~event /\ ~stateAttaching
  BY DEF StateInit
<1>3. Proper(favorites)
  BY <1>2 DEF Proper
<1> QED BY <1>1, <1>2, <1>3 DEF StateInv, FavouritesKept, ConfigKept

\* Reading userdata.json gives the favourites in use, once they have been written, and the
\* configuration in use is the one on disk whenever the watcher has missed nothing: for
\* every list of applications and every configuration, across crashes and edits.
THEOREM StateAlwaysKept == StateSpec => []StateKept
<1>1. StateInv => StateKept
  BY DEF StateInv, FavouritesKept, ConfigKept, StateKept
<1> QED BY <1>1, InitStateInv, NextStateInv, PTL DEF StateSpec

-----------------------------------------------------------------------------
(* The entries of the launcher.  Whatever makes a list other than the     *)
(* disk has also put something on its way that will scan again, and a scan *)
(* under way has read what is there wherever it has been, or another will   *)
(* follow; the rows answer the setting of the last timeout.                *)

EntryFiles == [EntryIds -> FileKinds]
EntryTypeOK ==
  /\ disk \in [Dirs -> EntryFiles] /\ found \in [Dirs -> EntryFiles]
  /\ entries \in EntryFiles
  /\ toRead \in 0..EntryDirs
  /\ frequency \in [EntryIds -> Nat]
  /\ filter.hide \in BOOLEAN /\ previous.hide \in BOOLEAN
  /\ ToSet(appRows) \subseteq EntryIds

\* A process that is not there has nothing under way.
EntriesDown ==
  ~managerUp => /\ ~dirEvent /\ ~debouncing /\ ~scanInProgress /\ ~unnoticed
                /\ origin = "none" /\ filter = previous
                /\ filter = NoFilter /\ ~filterTimer /\ ~overtakenRows

ScanComing == dirEvent \/ debouncing \/ unnoticed
CacheTrue ==
  ~hasty /\ staleDirs = {} /\ cache # TornCache => cache = SavedEntries(disk)
ScanTrue ==
  scanInProgress /\ ~scanQueued /\ ~ScanComing =>
    \A d \in Dirs : d > toRead => found[d] = disk[d]
ListTrue ==
  ~ScanComing /\ ~scanInProgress =>
    /\ origin = "scan" => entries = Merged(disk)
    /\ origin = "cache" /\ ~hasty => entries = ReadBack(SavedEntries(disk))

RowsTrue ==
  /\ managerUp /\ ~filterTimer => filter = previous
  /\ managerUp /\ ~overtakenRows =>
       /\ Shown(entries, previous.hide) \cap previous.query \subseteq ToSet(appRows)
       /\ ToSet(appRows) \subseteq Shown(entries, previous.hide)
RowsSorted == appRows = SortedRows(ToSet(appRows), favoriteApps, frequency)

EntryInv ==
  EntryTypeOK /\ EntriesDown /\ CacheTrue /\ ScanTrue /\ ListTrue /\ RowsTrue /\ RowsSorted

\* What the user likes and uses orders any two applications in one way.
LEMMA BeforeOrders ==
  ASSUME NEW favs, NEW freq \in [EntryIds -> Nat], NEW a \in EntryIds, NEW b \in EntryIds
  PROVE  /\ a # b => Before(a, b, favs, freq) \/ Before(b, a, favs, freq)
         /\ Before(a, b, favs, freq) => ~Before(b, a, favs, freq)
         /\ ~Before(a, a, favs, freq)
         /\ \A c \in EntryIds :
              Before(a, b, favs, freq) /\ Before(b, c, favs, freq) => Before(a, c, favs, freq)
<1>1. a \in Nat /\ b \in Nat /\ freq[a] \in Nat /\ freq[b] \in Nat
  BY EntryAssumption
<1>2. ASSUME NEW c \in EntryIds, Before(a, b, favs, freq), Before(b, c, favs, freq)
      PROVE  Before(a, c, favs, freq)
  <2>1. c \in Nat /\ freq[c] \in Nat
    BY EntryAssumption
  <2> QED BY <1>1, <1>2, <2>1 DEF Before
<1>3. a # b => Before(a, b, favs, freq) \/ Before(b, a, favs, freq)
  BY <1>1 DEF Before
<1>4. Before(a, b, favs, freq) => ~Before(b, a, favs, freq)
  BY <1>1 DEF Before
<1>5. ~Before(a, a, favs, freq)
  BY <1>1 DEF Before
<1> QED BY <1>2, <1>3, <1>4, <1>5

\* So there is one list in order.
LEMMA RowsExist ==
  ASSUME NEW favs, NEW freq \in [EntryIds -> Nat], NEW S \in SUBSET EntryIds
  PROVE  \E rows \in [1..Cardinality(S) -> S] :
           \A i, j \in DOMAIN rows : i < j => Before(rows[i], rows[j], favs, freq)
<1> DEFINE R == {r \in S \X S : Before(r[1], r[2], favs, freq)}
<1>1. \A a, b \in S : <<a, b>> \in R <=> Before(a, b, favs, freq)
  OBVIOUS
<1> HIDE DEF R
<1>2. IsFiniteSet(S)
  BY EntryAssumption, FS_Subset
<1>3. Orders(R, S)
  BY <1>1, BeforeOrders DEF Orders
<1>4. PICK rows \in [1..Cardinality(S) -> S] : InOrder(rows, R)
  BY <1>2, <1>3, OrderExists
<1>5. ASSUME NEW i \in DOMAIN rows, NEW j \in DOMAIN rows, i < j
      PROVE  Before(rows[i], rows[j], favs, freq)
  <2>1. rows[i] \in S /\ rows[j] \in S
    BY <1>4
  <2> QED BY <1>1, <1>4, <1>5, <2>1 DEF InOrder
<1> QED BY <1>4, <1>5

\* Sorting neither loses a row nor adds one.
LEMMA SortedKeeps ==
  ASSUME NEW favs, NEW freq \in [EntryIds -> Nat], NEW S \in SUBSET EntryIds
  PROVE  ToSet(SortedRows(S, favs, freq)) = S
<1> DEFINE rows == SortedRows(S, favs, freq)
           n == Cardinality(S)
<1>1. /\ rows \in [1..n -> S]
      /\ \A i, j \in DOMAIN rows : i < j => Before(rows[i], rows[j], favs, freq)
  BY RowsExist DEF SortedRows
<1>2. IsFiniteSet(S) /\ n \in Nat
  BY EntryAssumption, FS_Subset, FS_CardinalityType
<1> HIDE DEF rows
<1>3. IsFiniteSet(1..n) /\ Cardinality(1..n) = n
  BY <1>2, FS_Interval
<1> HIDE DEF n
<1>4. \A i, j \in 1..n : rows[i] = rows[j] => i = j
  <2> SUFFICES ASSUME NEW i \in 1..n, NEW j \in 1..n, rows[i] = rows[j], i < j PROVE FALSE
    BY <1>2
  <2>1. rows[i] \in EntryIds /\ Before(rows[i], rows[i], favs, freq)
    BY <1>1
  <2> QED BY <2>1, BeforeOrders
<1>5. rows \in Surjection(1..n, S)
  <2>1. rows \in Injection(1..n, S)
    BY <1>1, <1>4, Fun_IsInj
  <2> QED BY <1>2, <1>3, <2>1, FS_Injection DEF n
<1>6. \A id \in S : \E i \in 1..n : rows[i] = id
  BY <1>5 DEF Surjection
<1> QED BY <1>1, <1>6 DEF ToSet, rows

LEMMA RowsAreSorted ==
  ASSUME NEW S \in SUBSET EntryIds, frequency' \in [EntryIds -> Nat],
         appRows' = SortedRows(S, favoriteApps', frequency')
  PROVE  RowsSorted' /\ ToSet(appRows') = S
BY SortedKeeps DEF RowsSorted

LEMMA MergedFiles ==
  ASSUME NEW files \in [Dirs -> EntryFiles]
  PROVE  Merged(files) \in EntryFiles
<1> SUFFICES ASSUME NEW id \in EntryIds PROVE Merged(files)[id] \in FileKinds
  BY DEF Merged, EntryFiles
<1> DEFINE ds == Having(id, files, Valid)
<1>1. CASE ds = {}
  BY <1>1 DEF Merged, FileKinds
<1>2. CASE ds # {}
  <2>1. PICK top \in ds : \A e \in ds : top <= e
    <3>1. ds \in SUBSET Nat
      BY EntryAssumption DEF Having, Dirs
    <3> QED BY <1>2, <3>1, LeastNumber
  <2>2. Top(ds) \in ds
    BY <2>1 DEF Top
  <2>3. files[Top(ds)][id] \in FileKinds
    BY <2>2 DEF Having, EntryFiles
  <2> QED BY <1>2, <2>3 DEF Merged
<1> QED BY <1>1, <1>2

LEMMA BegunScan ==
  ASSUME EntryTypeOK, BeginScan, disk' = disk
  PROVE  ScanTrue' /\ toRead' \in 0..EntryDirs /\ found' \in [Dirs -> EntryFiles]
<1>1. \A d \in Dirs : ~(d > EntryDirs)
  BY EntryAssumption DEF Dirs
<1>2. found' \in [Dirs -> EntryFiles]
  BY DEF BeginScan, NothingScanned, NoFiles, EntryFiles, FileKinds
<1> QED BY <1>1, <1>2, EntryAssumption DEF BeginScan, ScanTrue

\* What ends a session leaves nothing of it.
LEMMA EntriesEnded ==
  ASSUME EntryInv, SessionEnds, CacheTrue'
  PROVE  EntryInv'
<1> USE DEF SessionEnds
<1>1. ToSet(<<>>) = {} /\ DOMAIN <<>> = {}
  BY DEF ToSet
<1>2. EntryTypeOK'
  BY <1>1, EntryAssumption DEF EntryInv, EntryTypeOK, NothingScanned, NoFiles, NoFilter, EntryFiles,
        FileKinds, userVars
<1>3. EntriesDown' /\ ScanTrue' /\ ListTrue' /\ RowsTrue'
  BY DEF EntriesDown, ScanTrue, ListTrue, RowsTrue, ScanComing
<1>4. RowsSorted'
  <2>1. {} \in SUBSET EntryIds
    OBVIOUS
  <2>2. SortedRows({}, favoriteApps', frequency') \in [1..0 -> {}]
    <3>1. Cardinality({}) = 0
      BY FS_EmptySet
    <3> QED BY <1>2, <2>1, <3>1, RowsExist DEF SortedRows, EntryTypeOK
  <2>3. SortedRows({}, favoriteApps', frequency') = <<>>
    BY <2>2
  <2> QED BY <1>1, <2>3 DEF RowsSorted
<1> QED BY <1>2, <1>3, <1>4 DEF EntryInv

LEMMA EntryInit_Inv == ASSUME EntryInit PROVE EntryInv
<1> USE DEF EntryInit
<1>1. ToSet(<<>>) = {} /\ DOMAIN <<>> = {}
  BY DEF ToSet
<1>2. EntryTypeOK
  BY <1>1, EntryAssumption DEF EntryTypeOK, NothingScanned, NoFiles, NoFilter, EntryFiles, FileKinds
<1>3. EntriesDown /\ CacheTrue /\ ScanTrue /\ ListTrue /\ RowsTrue
  BY DEF EntriesDown, CacheTrue, ScanTrue, ListTrue, RowsTrue, ScanComing
<1>4. RowsSorted
  <2>1. SortedRows({}, favoriteApps, frequency) \in [1..0 -> {}]
    <3>1. Cardinality({}) = 0
      BY FS_EmptySet
    <3> QED BY <1>2, <3>1, RowsExist DEF SortedRows, EntryTypeOK
  <2>2. SortedRows({}, favoriteApps, frequency) = <<>>
    BY <2>1
  <2> QED BY <1>1, <2>2 DEF RowsSorted
<1> QED BY <1>2, <1>3, <1>4 DEF EntryInv

\* The rows after a step that leaves them, or what they answer, alone.
LEMMA RowsLeft ==
  ASSUME EntryInv, UNCHANGED <<entries, userVars, rowVars, managerUp>>
  PROVE  RowsTrue' /\ RowsSorted'
BY DEF EntryInv, RowsTrue, RowsSorted, userVars, rowVars, Shown

LEMMA EntryNext_Inv == ASSUME EntryInv, EntryNext PROVE EntryInv'
<1>1. CASE ManagerStart
  <2> USE <1>1 DEF ManagerStart
  <2>1. /\ ~dirEvent /\ ~debouncing /\ ~scanInProgress /\ ~unnoticed
        /\ filter = NoFilter /\ previous = NoFilter /\ ~filterTimer /\ ~overtakenRows
    BY DEF EntryInv, EntriesDown
  <2>2. entries' \in EntryFiles
    BY DEF NoFiles, ReadBack, EntryFiles, FileKinds
  <2>3. Shown(entries', FALSE) \in SUBSET EntryIds
    BY DEF Shown
  <2>4. favoriteApps' = favoriteApps /\ frequency' = frequency /\ disk' = disk
    BY DEF userVars
  <2>5. RowsSorted' /\ ToSet(appRows') = Shown(entries', FALSE)
    BY <2>3, <2>4, RowsAreSorted DEF EntryInv, EntryTypeOK
  <2>6. toRead' \in 0..EntryDirs /\ found' \in [Dirs -> EntryFiles] /\ ScanTrue'
    BY <2>1, <2>4, BegunScan DEF EntryInv, EntryTypeOK, ScanTrue
  <2>7. EntryTypeOK'
    BY <2>2, <2>3, <2>4, <2>5, <2>6 DEF EntryInv, EntryTypeOK
  <2>8. EntriesDown' /\ CacheTrue'
    BY <2>4 DEF EntryInv, EntriesDown, CacheTrue, SavedEntries
  <2>9. ListTrue'
    BY <2>1, <2>4 DEF EntryInv, CacheTrue, ListTrue, ScanComing, CacheValid, BeginScan
  <2>10. RowsTrue'
    BY <2>1, <2>5 DEF RowsTrue, NoFilter
  <2> QED BY <2>5, <2>6, <2>7, <2>8, <2>9, <2>10 DEF EntryInv
<1>2. CASE ManagerCrash
  <2>1. CacheTrue'
    BY <1>2 DEF ManagerCrash, SessionEnds, EntryInv, CacheTrue
  <2> QED BY <1>2, <2>1, EntriesEnded DEF ManagerCrash
<1>3. CASE CrashWhileSaving
  <2>1. CacheTrue'
    BY <1>3 DEF CrashWhileSaving, CacheTrue
  <2> QED BY <1>3, <2>1, EntriesEnded DEF CrashWhileSaving
<1>4. ASSUME NEW d \in Dirs, NEW id \in EntryIds, NEW kind \in EntryKinds, NEW later \in BOOLEAN,
             EditDirectory(d, id, kind, later)
      PROVE  EntryInv'
  <2> USE <1>4 DEF EditDirectory
  <2>1. disk' \in [Dirs -> EntryFiles]
    BY EntryAssumption DEF EntryInv, EntryTypeOK, EntryFiles
  <2>2. EntryTypeOK'
    BY <2>1 DEF EntryInv, EntryTypeOK, userVars, rowVars
  <2>3. EntriesDown'
    BY DEF EntryInv, EntriesDown, rowVars
  <2>4. CacheTrue'
    BY DEF CacheTrue, EntryInv
  <2>5. scanInProgress \/ origin # "none" => dirEvent'
    BY DEF EntryInv, EntriesDown
  <2>6. ScanTrue' /\ ListTrue'
    BY <2>5 DEF ScanTrue, ListTrue, ScanComing
  <2> QED BY <2>2, <2>3, <2>4, <2>6, RowsLeft DEF EntryInv
<1>5. ASSUME NEW d \in Dirs, NEW id \in EntryIds, NEW kind \in EntryKinds,
             EditBelow(d, id, kind)
      PROVE  EntryInv'
  <2> USE <1>5 DEF EditBelow
  <2>1. disk' \in [Dirs -> EntryFiles]
    BY EntryAssumption DEF EntryInv, EntryTypeOK, EntryFiles
  <2>2. EntryTypeOK'
    BY <2>1 DEF EntryInv, EntryTypeOK, userVars, rowVars, scanVars
  <2>3. EntriesDown'
    BY DEF EntryInv, EntriesDown, rowVars, scanVars
  <2>4. CacheTrue'
    BY DEF CacheTrue
  <2>5. scanInProgress \/ origin # "none" => unnoticed'
    BY DEF EntryInv, EntriesDown
  <2>6. ScanTrue' /\ ListTrue'
    BY <2>5 DEF ScanTrue, ListTrue, ScanComing, scanVars
  <2> QED BY <2>2, <2>3, <2>4, <2>6, RowsLeft DEF EntryInv
<1>6. CASE OnDirectoryChanged
  <2> USE <1>6 DEF OnDirectoryChanged
  <2>1. EntryTypeOK'
    BY DEF EntryInv, EntryTypeOK, diskVars, userVars, rowVars
  <2>2. EntriesDown' /\ CacheTrue'
    BY DEF EntryInv, EntriesDown, CacheTrue, diskVars, rowVars, SavedEntries
  <2>3. ScanTrue' /\ ListTrue'
    BY DEF ScanTrue, ListTrue, ScanComing
  <2> QED BY <2>1, <2>2, <2>3, RowsLeft DEF EntryInv
<1>7. CASE ProcessDebounced
  <2> USE <1>7 DEF ProcessDebounced
  <2>1. managerUp
    BY DEF EntryInv, EntriesDown
  <2>2. CacheTrue' /\ EntriesDown'
    BY <2>1 DEF EntryInv, CacheTrue, EntriesDown, SavedEntries
  <2>3. CASE BeginScan
    <3>1. EntryTypeOK' /\ ScanTrue'
      BY <2>3, BegunScan DEF EntryInv, EntryTypeOK, userVars, rowVars
    <3>2. ListTrue'
      BY <2>3 DEF BeginScan, ListTrue
    <3> QED BY <2>2, <3>1, <3>2, RowsLeft DEF EntryInv
  <2>4. CASE /\ scanInProgress /\ scanQueued' = TRUE
             /\ UNCHANGED <<scanInProgress, toRead, found, unnoticed>>
    <3>1. EntryTypeOK'
      BY <2>4 DEF EntryInv, EntryTypeOK, userVars, rowVars
    <3>2. ScanTrue' /\ ListTrue'
      BY <2>4 DEF ScanTrue, ListTrue
    <3> QED BY <2>2, <3>1, <3>2, RowsLeft DEF EntryInv
  <2> QED BY <2>3, <2>4 DEF ScanDesktopEntries
<1>8. CASE ScanDirectory
  <2> USE <1>8 DEF ScanDirectory
  <2>1. toRead \in Dirs /\ toRead' \in 0..EntryDirs
    BY EntryAssumption DEF EntryInv, EntryTypeOK, Dirs
  <2>2. found' \in [Dirs -> EntryFiles]
    BY <2>1 DEF EntryInv, EntryTypeOK
  <2>3. EntryTypeOK'
    BY <2>1, <2>2 DEF EntryInv, EntryTypeOK, diskVars, userVars, rowVars
  <2>4. EntriesDown' /\ CacheTrue' /\ ListTrue'
    BY DEF EntryInv, EntriesDown, CacheTrue, ListTrue, ScanComing, diskVars, rowVars, SavedEntries,
           Merged, Having
  <2>5. ScanTrue'
    <3> SUFFICES ASSUME scanInProgress, ~scanQueued, ~ScanComing, NEW d \in Dirs, d > toRead - 1
                 PROVE  found'[d] = disk[d]
      BY DEF ScanTrue, ScanComing, diskVars
    <3>1. d = toRead \/ d > toRead
      BY <2>1, EntryAssumption DEF Dirs
    <3>2. d > toRead => found[d] = disk[d]
      BY DEF EntryInv, ScanTrue
    <3> QED BY <2>1, <3>1, <3>2 DEF EntryInv, EntryTypeOK
  <2> QED BY <2>3, <2>4, <2>5, RowsLeft DEF EntryInv
<1>9. CASE OnScanCompleted
  <2> USE <1>9 DEF OnScanCompleted
  <2>1. /\ disk \in [Dirs -> EntryFiles] /\ found \in [Dirs -> EntryFiles] /\ managerUp
        /\ Merged(found) \in EntryFiles
    BY MergedFiles DEF EntryInv, EntryTypeOK, EntriesDown
  <2>2. favoriteApps' = favoriteApps /\ frequency' = frequency /\ disk' = disk
    BY DEF userVars
  <2>3. Shown(Merged(found), filter.hide) \in SUBSET EntryIds
    BY DEF Shown
  <2>4. RowsSorted' /\ ToSet(appRows') = Shown(entries', filter.hide)
    BY <2>2, <2>3, RowsAreSorted DEF EntryInv, EntryTypeOK, EntriesBecome
  <2>5. RowsTrue'
    BY <2>4 DEF RowsTrue, EntryInv, EntriesBecome
  <2>6. EntriesDown' /\ CacheTrue'
    <3>1. EntriesDown'
      BY <2>1 DEF EntriesDown
    <3>2. CASE UNCHANGED <<cache, staleDirs, hasty>>
      BY <2>2, <3>1, <3>2 DEF CacheTrue, EntryInv
    <3>3. CASE cache' \in {SavedEntries(found), TornCache} /\ hasty' = (found # disk)
      <4> SUFFICES ASSUME ~hasty', cache' # TornCache PROVE cache' = SavedEntries(disk)
        BY <2>2, <3>1 DEF CacheTrue
      <4>1. found = disk
        BY <3>3
      <4> QED BY <3>3, <4>1
    <3> QED BY <3>1, <3>2, <3>3 DEF SaveToCache
  <2>7. CASE scanQueued /\ BeginScan
    <3>1. ScanTrue' /\ toRead' \in 0..EntryDirs /\ found' \in [Dirs -> EntryFiles]
      BY <2>2, <2>7, BegunScan DEF EntryInv
    <3>2. EntryTypeOK'
      BY <2>1, <2>2, <2>3, <2>4, <3>1 DEF EntryInv, EntryTypeOK, EntriesBecome
    <3>3. ListTrue'
      BY <2>7 DEF ListTrue, BeginScan
    <3> QED BY <2>4, <2>5, <2>6, <3>1, <3>2, <3>3 DEF EntryInv
  <2>8. CASE /\ ~scanQueued /\ scanInProgress' = FALSE /\ found' = NothingScanned
             /\ UNCHANGED <<scanQueued, toRead, unnoticed>>
    <3>1. found' \in [Dirs -> EntryFiles]
      BY <2>8 DEF NothingScanned, NoFiles, EntryFiles, FileKinds
    <3>2. EntryTypeOK'
      BY <2>1, <2>2, <2>3, <2>4, <2>8, <3>1 DEF EntryInv, EntryTypeOK, EntriesBecome
    <3>3. ScanTrue'
      BY <2>8 DEF ScanTrue
    <3>4. ListTrue'
      <4> SUFFICES ASSUME ~ScanComing' PROVE entries' = Merged(disk')
        BY DEF ListTrue
      <4>1. \A d \in Dirs : d > toRead
        BY EntryAssumption DEF Dirs
      <4>2. \A d \in Dirs : found[d] = disk[d]
        BY <2>8, <4>1 DEF EntryInv, ScanTrue, ScanComing
      <4>3. found = disk
        BY <2>1, <4>2
      <4> QED BY <2>2, <4>3 DEF EntriesBecome
    <3> QED BY <2>4, <2>5, <2>6, <3>2, <3>3, <3>4 DEF EntryInv
  <2> QED BY <2>7, <2>8
<1>10. ASSUME NEW q \in Queries, NEW hide \in BOOLEAN, SetFilter(q, hide) PROVE EntryInv'
  <2> USE <1>10 DEF SetFilter
  <2>1. EntryTypeOK'
    BY DEF EntryInv, EntryTypeOK, diskVars, scanVars, userVars
  <2>2. EntriesDown' /\ CacheTrue'
    BY DEF EntryInv, EntriesDown, CacheTrue, diskVars, SavedEntries
  <2>3. ScanTrue' /\ ListTrue'
    BY DEF EntryInv, ScanTrue, ListTrue, ScanComing, diskVars, scanVars, Merged, Having
  <2>4. RowsTrue' /\ RowsSorted'
    BY DEF EntryInv, RowsTrue, RowsSorted, userVars, Shown
  <2> QED BY <2>1, <2>2, <2>3, <2>4 DEF EntryInv
<1>11. CASE OnDebounceTimeout
  <2> USE <1>11 DEF OnDebounceTimeout
  <2>1. CacheTrue' /\ ScanTrue' /\ ListTrue'
    BY DEF EntryInv, CacheTrue, ScanTrue, ListTrue, ScanComing, diskVars, scanVars, SavedEntries,
           Merged, Having
  <2>2. managerUp /\ EntriesDown'
    BY DEF EntryInv, EntriesDown
  <2>3. favoriteApps' = favoriteApps /\ frequency' = frequency
    BY DEF userVars
  <2>4. CASE previous = filter /\ UNCHANGED <<appRows, previous, overtakenRows>>
    <3>1. EntryTypeOK'
      BY <2>4 DEF EntryInv, EntryTypeOK, diskVars, scanVars, userVars
    <3>2. RowsTrue' /\ RowsSorted'
      BY <2>3, <2>4 DEF EntryInv, RowsTrue, RowsSorted, Shown
    <3> QED BY <2>1, <2>2, <3>1, <3>2 DEF EntryInv
  <2>5. CASE previous # filter
    <3> DEFINE rows == Shown(entries, filter.hide) \cap filter.query
    <3>1. rows \in SUBSET EntryIds
      BY DEF Shown
    <3>2. RowsSorted' /\ ToSet(appRows') = rows
      BY <2>3, <2>5, <3>1, RowsAreSorted DEF EntryInv, EntryTypeOK
    <3>3. EntryTypeOK'
      BY <2>5, <3>1, <3>2 DEF EntryInv, EntryTypeOK, diskVars, scanVars, userVars
    <3>4. RowsTrue'
      BY <2>5, <3>2 DEF RowsTrue
    <3> QED BY <2>1, <2>2, <3>2, <3>3, <3>4 DEF EntryInv
  <2> QED BY <2>4, <2>5
<1>12. ASSUME NEW favs, NEW freq \in [EntryIds -> Nat], UserRanks(favs, freq) PROVE EntryInv'
  <2> USE <1>12 DEF UserRanks
  <2>1. RowsSorted' /\ ToSet(appRows') = ToSet(appRows)
    BY RowsAreSorted DEF EntryInv, EntryTypeOK
  <2>2. EntryTypeOK'
    BY <2>1 DEF EntryInv, EntryTypeOK, diskVars, scanVars
  <2>3. EntriesDown' /\ CacheTrue'
    BY DEF EntryInv, EntriesDown, CacheTrue, diskVars, scanVars, SavedEntries
  <2>4. ScanTrue' /\ ListTrue'
    BY DEF EntryInv, ScanTrue, ListTrue, ScanComing, diskVars, scanVars, Merged, Having
  <2>5. RowsTrue'
    BY <2>1 DEF EntryInv, RowsTrue, Shown
  <2> QED BY <2>1, <2>2, <2>3, <2>4, <2>5 DEF EntryInv
<1>13. ASSUME NEW id \in ToSet(appRows), ToggleFavorite(id) \/ Execute(id) PROVE EntryInv'
  <2>1. /\ frequency \in [EntryIds -> Nat]
        /\ [frequency EXCEPT ![id] = @ + 1] \in [EntryIds -> Nat]
    BY DEF EntryInv, EntryTypeOK
  <2> QED BY <1>12, <1>13, <2>1 DEF ToggleFavorite, Execute
<1> QED BY <1>1, <1>2, <1>3, <1>4, <1>5, <1>6, <1>7, <1>8, <1>9, <1>10, <1>11, <1>13 DEF EntryNext

LEMMA EntryStutters == ASSUME EntryInv, UNCHANGED entryVars PROVE EntryInv'
<1> USE DEF entryVars, diskVars, scanVars, userVars, rowVars, EntryInv
<1>1. EntryTypeOK' /\ EntriesDown'
  BY DEF EntryTypeOK, EntriesDown
<1>2. CacheTrue' /\ ScanTrue' /\ ListTrue'
  BY DEF CacheTrue, ScanTrue, ListTrue, ScanComing, SavedEntries, Merged, Having
<1>3. RowsTrue' /\ RowsSorted'
  BY DEF RowsTrue, RowsSorted, Shown
<1> QED BY <1>1, <1>2, <1>3

\* Where one directory has an application, the lowest version and the highest are the same.
LEMMA OneVersion ==
  ASSUME NEW id \in EntryIds, NEW d \in Dirs, NEW files \in [Dirs -> EntryFiles],
         Having(id, files, {"app", "term", "bad"}) = {d}
  PROVE  ReadBack(SavedEntries(files))[id] = Merged(files)[id]
<1>1. d \in Nat
  BY EntryAssumption DEF Dirs
<1>2. Valid \cup {"bad"} = {"app", "term", "bad"}
  BY DEF Valid
<1>3. Bottom({d}) = d /\ Top({d}) = d
  BY <1>1 DEF Bottom, Top
<1>4. SavedEntries(files)[id] = files[d][id]
  BY <1>2, <1>3 DEF SavedEntries
<1>5. Having(id, files, Valid) = IF files[d][id] \in Valid THEN {d} ELSE {}
  BY DEF Having, Valid
<1>6. Merged(files)[id] = IF files[d][id] \in Valid THEN files[d][id] ELSE "none"
  BY <1>3, <1>5 DEF Merged
<1> QED BY <1>4, <1>6 DEF ReadBack

\* Across debounced events, scans that overlap changes, restarts from the cache and crashes,
\* the launcher lists the applications there are, each once and in the user's order, for all
\* files and directories.
THEOREM EntriesAlwaysAgree == EntrySpec => []EntriesAgree
<1>1. EntryInv => EntriesAgree
  <2> SUFFICES ASSUME EntryInv PROVE EntriesCurrent /\ RowsCurrent
    BY DEF EntriesAgree
  <2>1. RowsCurrent
    <3>1. managerUp /\ ~filterTimer => filter = previous
      BY DEF EntryInv, RowsTrue
    <3> QED BY <3>1 DEF EntryInv, RowsTrue, RowsSorted, RowsCurrent
  <2>2. EntriesCurrent
    <3> SUFFICES ASSUME Settled, ~unnoticed
                 PROVE  /\ origin = "scan" => entries = Merged(disk)
                        /\ origin = "cache" /\ ~hasty => \A id \in EntryIds, d \in Dirs :
                             Having(id, disk, {"app", "term", "bad"}) = {d}
                               => entries[id] = Merged(disk)[id]
      BY DEF EntriesCurrent
    <3>1. /\ origin = "scan" => entries = Merged(disk)
          /\ origin = "cache" /\ ~hasty => entries = ReadBack(SavedEntries(disk))
      BY DEF EntryInv, ListTrue, Settled, ScanComing
    <3>2. disk \in [Dirs -> EntryFiles]
      BY DEF EntryInv, EntryTypeOK
    <3> QED BY <3>1, <3>2, OneVersion
  <2> QED BY <2>1, <2>2
<1>2. EntryInv /\ [EntryNext]_entryVars => EntryInv'
  BY EntryNext_Inv, EntryStutters
<1> QED BY EntryInit_Inv, <1>1, <1>2, PTL DEF EntrySpec
=============================================================================
