------------------------------- MODULE Colors -------------------------------
(***************************************************************************)
(* The colour theme, in every process that shows it (shell and control     *)
(* panel): Colors keeps a theme name and its colours, and processes agree  *)
(* through two kinds of files, state/activetheme with the name and         *)
(* themes/<name>.json with the colours, which each process watches.        *)
(*                                                                         *)
(* A file is written in place, truncated first: the other process may read *)
(* it in between, and of the name, which no lock guards, write it too.     *)
(* Colours are one value, "v0" the built-in ones.  Writes succeed, and a   *)
(* watch reports each change of its inode until it is taken off.           *)
(***************************************************************************)
EXTENDS Naturals, FiniteSets

CONSTANTS Procs,     \* processes with a Colors singleton
          Themes,    \* themes other than "default"
          Handlers,  \* QML objects a preview belongs to
          Versions,  \* colours a user can give a theme
          Length,    \* of the name of a theme, in bytes
          MaxDeeds   \* bound: user actions and restarts

Missing == "missing"   \* no such file
Torn == "torn"         \* truncated, not written yet
Mixed == "mixed"       \* a name with the tail of a longer one
NoTheme == "nothing"   \* no theme name, no watch, no preview
Names == Themes \cup {"default"}
Contents == {"v0"} \cup Versions   \* "v0": the built-in colours

ASSUME ColourAssumption ==
  /\ Names \cap {Torn, Mixed, NoTheme} = {} /\ Contents \cap {Missing, Torn} = {}
  /\ Length \in [Names -> Nat]

VARIABLES
  active,      \* activetheme
  themeFile,   \* themes/<name>.json
  theme,       \* m_themeName
  colours,     \* m_colors
  themeDb,     \* m_themeDb, built at the start
  themeWatched,    \* path in m_fileWatcher
  events,      \* changes the watchers of a process have to report
  stage,       \* "off", "idle", or between which calls: "start", "choose", "write",
               \* "attach" (colours loaded, their file to be watched), "save"
  preview,     \* theme of the preview objects
  handlers,    \* objects connected to closePreview
  overtaken,   \* history: processes whose theme file changed between load and watch
  unheard,     \* history: those that had read activetheme and not watched it when it changed
  broken,      \* history: a writer of activetheme was joined by another before it was
               \* through, or died
  deeds        \* counts, for MaxDeeds

colourVars == <<active, themeFile, theme, colours, themeDb, themeWatched, events, stage,
                preview, handlers, overtaken, unheard, broken, deeds>>

ColourInit ==
  /\ active = "default"
  /\ themeFile = [n \in Names |-> IF n = "default" THEN Missing ELSE "v0"]
  /\ theme = [p \in Procs |-> NoTheme]
  /\ colours = [p \in Procs |-> "v0"]
  /\ themeDb = [p \in Procs |-> {}]
  /\ themeWatched = [p \in Procs |-> NoTheme]
  /\ events = [p \in Procs |-> {}]
  /\ stage = [p \in Procs |-> "off"]
  /\ preview = [p \in Procs |-> NoTheme]
  /\ handlers = [p \in Procs |-> {}]
  /\ overtaken = {} /\ unheard = {} /\ broken = FALSE
  /\ deeds = 0

-----------------------------------------------------------------------------
\* loadFromFile: a missing file resets the colours, one that does not parse leaves them.
Loaded(n, old) == CASE n \notin Names \/ themeFile[n] = Missing -> "v0"
                    [] themeFile[n] = Torn -> old
                    [] OTHER -> themeFile[n]

\* attachFileWatcher
WatchFor(n) == IF n \in Names /\ themeFile[n] # Missing THEN n ELSE NoTheme

\* The watchers of a changed file, the writer's own included.
Reported(kind, of) == [p \in Procs |-> IF p \in of THEN events[p] \cup {kind} ELSE events[p]]
Running == {p \in Procs : stage[p] # "off"}
Starting == {p \in Procs : stage[p] = "start"}

\* Those that have loaded theme n and will watch its file.
Loading(n) ==
  {q \in Procs : stage[q] \in {"start", "choose", "write", "attach"} /\ theme[q] = n}

\* buildThemeDb
BuiltThemeDb == {"default"} \cup {n \in Names : themeFile[n] # Missing}

\* Constructor: getActiveTheme, loadFromFile, buildThemeDb; attachFileWatcher follows.
ColourStart(p) ==
  /\ stage[p] = "off" /\ deeds < MaxDeeds
  /\ deeds' = deeds + 1
  /\ theme' = [theme EXCEPT ![p] = active]
  /\ colours' = [colours EXCEPT ![p] = Loaded(active, "v0")]
  /\ themeDb' = [themeDb EXCEPT ![p] = BuiltThemeDb]
  /\ overtaken' = overtaken \ {p} /\ unheard' = unheard \ {p}
  /\ stage' = [stage EXCEPT ![p] = "start"]
  /\ UNCHANGED <<active, themeFile, themeWatched, events, preview, handlers, broken>>

\* attachFileWatcher: what the watch it takes off had to report is dropped.
Attach(p) ==
  /\ stage[p] \in {"start", "attach"}
  /\ themeWatched' = [themeWatched EXCEPT ![p] = WatchFor(theme[p])]
  /\ events' = [events EXCEPT ![p] = @ \ {"colours"}]
  /\ stage' = [stage EXCEPT ![p] = "idle"]
  /\ UNCHANGED <<active, themeFile, theme, colours, themeDb, preview, handlers, overtaken,
                 unheard, broken, deeds>>

\* The process ends, in the middle of a write too.
ColourStop(p) ==
  /\ stage[p] # "off"
  /\ theme' = [theme EXCEPT ![p] = NoTheme]
  /\ themeWatched' = [themeWatched EXCEPT ![p] = NoTheme]
  /\ events' = [events EXCEPT ![p] = {}]
  /\ stage' = [stage EXCEPT ![p] = "off"]
  /\ preview' = [preview EXCEPT ![p] = NoTheme]
  /\ handlers' = [handlers EXCEPT ![p] = {}]
  /\ broken' = (broken \/ stage[p] = "write")
  /\ UNCHANGED <<overtaken, unheard, active, themeFile, colours, themeDb, deeds>>

\* setThemeName up to setActiveTheme; a name that buildThemeDb did not find is refused.
SetThemeName(p, n) ==
  IF n = theme[p] \/ n \notin themeDb[p]
    THEN UNCHANGED <<theme, colours, stage, overtaken>>
    ELSE /\ theme' = [theme EXCEPT ![p] = n]
         /\ colours' = [colours EXCEPT ![p] = Loaded(n, @)]
         /\ overtaken' = overtaken \ {p}
         /\ stage' = [stage EXCEPT ![p] = "choose"]

Choose(p, n) ==
  /\ stage[p] = "idle" /\ deeds < MaxDeeds
  /\ deeds' = deeds + 1
  /\ SetThemeName(p, n)
  /\ UNCHANGED <<unheard, broken, active, themeFile, themeDb, themeWatched, events, preview, handlers>>

\* activetheme changes: who watches it will hear of that.
NameChanges ==
  /\ events' = Reported("name", Running \ Starting)
  /\ unheard' = unheard \cup Starting

\* setActiveTheme opens the file, then writes it; attachFileWatcher follows.
TruncateActive(p) ==
  /\ stage[p] = "choose"
  /\ active' = Torn
  /\ NameChanges
  /\ broken' = \E q \in Procs \ {p} : stage[q] = "write"
  /\ stage' = [stage EXCEPT ![p] = "write"]
  /\ UNCHANGED <<overtaken, themeFile, theme, colours, themeDb, themeWatched, preview, handlers, deeds>>

\* A name written over what another process wrote since the file was truncated leaves what
\* it does not cover.
Overwritten(n) == CASE active = Torn -> {n}
                    [] active = Mixed -> {n, Mixed}
                    [] OTHER -> IF Length[active] > Length[n] THEN {Mixed} ELSE {n}

WriteActive(p) ==
  /\ stage[p] = "write"
  /\ active' \in Overwritten(theme[p])
  /\ NameChanges
  /\ stage' = [stage EXCEPT ![p] = "attach"]
  /\ UNCHANGED <<overtaken, broken, themeFile, theme, colours, themeDb, themeWatched, preview,
                 handlers, deeds>>

\* onThemeSelectorFileChanged
SelectorChanged(p) ==
  /\ stage[p] = "idle" /\ "name" \in events[p]
  /\ events' = [events EXCEPT ![p] = @ \ {"name"}]
  /\ unheard' = unheard \ {p}
  /\ SetThemeName(p, active)
  /\ UNCHANGED <<active, themeFile, themeDb, themeWatched, preview, handlers, broken, deeds>>

\* Mutant: a changed theme file is watched again but not loaded.
ThemeFileChangedKeepsColours(p) ==
  /\ stage[p] = "idle" /\ "colours" \in events[p]
  /\ events' = [events EXCEPT ![p] = @ \ {"colours"}]
  /\ stage' = [stage EXCEPT ![p] = "attach"]
  /\ UNCHANGED <<overtaken, unheard, broken, active, themeFile, theme, colours, themeDb,
                 themeWatched, preview, handlers, deeds>>

\* onFileWatcherChanged loads the colours; attachFileWatcher follows.
ThemeFileChanged(p) ==
  /\ stage[p] = "idle" /\ "colours" \in events[p]
  /\ events' = [events EXCEPT ![p] = @ \ {"colours"}]
  /\ colours' = [colours EXCEPT ![p] = Loaded(theme[p], @)]
  /\ overtaken' = overtaken \ {p}
  /\ stage' = [stage EXCEPT ![p] = "attach"]
  /\ UNCHANGED <<unheard, broken, active, themeFile, theme, themeDb, themeWatched, preview,
                 handlers, deeds>>

\* A form changes the colours and saves them: commitSave, writeConfigToPath under its lock.
SaveColours(p, c) ==
  /\ stage[p] = "idle" /\ deeds < MaxDeeds /\ theme[p] \in Names
  /\ ~\E q \in Procs : stage[q] = "save" /\ theme[q] = theme[p]
  /\ deeds' = deeds + 1
  /\ colours' = [colours EXCEPT ![p] = c]
  /\ themeFile' = [themeFile EXCEPT ![theme[p]] = Torn]
  /\ events' = Reported("colours", {q \in Running : themeWatched[q] = theme[p]})
  /\ overtaken' = overtaken \cup Loading(theme[p])
  /\ stage' = [stage EXCEPT ![p] = "save"]
  /\ UNCHANGED <<unheard, broken, active, theme, themeDb, themeWatched, preview, handlers>>

WriteColours(p) ==
  /\ stage[p] = "save"
  /\ themeFile' = [themeFile EXCEPT ![theme[p]] = colours[p]]
  /\ events' = Reported("colours", {q \in Running : themeWatched[q] = theme[p]})
  /\ overtaken' = overtaken \cup Loading(theme[p])
  /\ stage' = [stage EXCEPT ![p] = "idle"]
  /\ UNCHANGED <<unheard, broken, active, theme, colours, themeDb, themeWatched, preview,
                 handlers, deeds>>

\* loadPreview, and closePreview when any object that asked for one goes.
LoadPreview(p, n, h) ==
  /\ stage[p] = "idle" /\ deeds < MaxDeeds
  /\ deeds' = deeds + 1
  /\ preview' = [preview EXCEPT ![p] = n]
  /\ handlers' = [handlers EXCEPT ![p] = @ \cup {h}]
  /\ UNCHANGED <<overtaken, unheard, broken, active, themeFile, theme, colours, themeDb,
                 themeWatched, events, stage>>

ClosePreview(p, h) ==
  /\ stage[p] = "idle" /\ h \in handlers[p]
  /\ preview' = [preview EXCEPT ![p] = NoTheme]
  /\ handlers' = [handlers EXCEPT ![p] = @ \ {h}]
  /\ UNCHANGED <<overtaken, unheard, broken, active, themeFile, theme, colours, themeDb,
                 themeWatched, events, stage, deeds>>

ColourNext ==
  \E p \in Procs :
    \/ ColourStart(p) \/ Attach(p) \/ ColourStop(p)
    \/ TruncateActive(p) \/ WriteActive(p) \/ SelectorChanged(p)
    \/ ThemeFileChanged(p) \/ WriteColours(p)
    \/ \E n \in Names : Choose(p, n)
    \/ \E c \in Versions : SaveColours(p, c)
    \/ \E n \in Names, h \in Handlers : LoadPreview(p, n, h)
    \/ \E h \in Handlers : ClosePreview(p, h)

ColourSpec == ColourInit /\ [][ColourNext]_colourVars

-----------------------------------------------------------------------------
\* A preview never outlives the objects that asked for it.  When every change has been
\* handled and no write is under way, activetheme holds the name of a theme unless the last
\* writers of it got in each other's way or died, whoever chose; and each running process
\* shows that theme, unless it was made after the process built its list or the process was
\* starting when it was chosen, and the colours of its file, if it watches it and the file
\* did not change before it did.
ThemesAgree ==
  /\ \A p \in Running : preview[p] # NoTheme => handlers[p] # {}
  /\ (\A p \in Procs : stage[p] \in {"off", "idle"} /\ events[p] = {}) =>
       /\ ~broken => active \in Names
       /\ \A p \in Running :
            /\ p \notin unheard /\ active \in themeDb[p] => theme[p] = active
            /\ (/\ p \notin overtaken /\ themeWatched[p] = theme[p] /\ theme[p] \in Names
                /\ themeFile[theme[p]] # Torn) => colours[p] = themeFile[theme[p]]
=============================================================================
