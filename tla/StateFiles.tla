----------------------------- MODULE StateFiles -----------------------------
(***************************************************************************)
(* What nightshell keeps between sessions: StateManager with the favourite *)
(* applications, written to userdata.json five seconds after the last      *)
(* change, and Config, whose configs.json is watched and read again when   *)
(* somebody replaces it.  Config::saveConfigs saves nothing yet: it only   *)
(* queues when the cooldown timer runs, and nothing starts that timer.     *)
(*                                                                         *)
(* QSaveFile replaces a file at once or not at all, and a replaced file is *)
(* a new inode: its watch reports one event and is gone.                   *)
(***************************************************************************)
EXTENDS Naturals, Sequences, SequencesExt

CONSTANTS Apps,      \* application ids, "" among them
          UserFiles, \* contents of userdata.json a session may start with
          NoFile, Bad, \* no such file, or not a JSON object
          Keys,      \* properties of the configuration
          MaxSteps   \* bound: user actions, edits and restarts

ASSUME StateAssumption ==
  /\ \A a \in Apps : a \in STRING
  /\ \A f \in UserFiles : f \in {NoFile, Bad} \/ f \in Seq(STRING)
  /\ \A f \in {NoFile, Bad} : f \notin Seq(STRING)

Defaults == [k \in Keys |-> 0]

VARIABLES
  userdata,    \* userdata.json: a list of ids, NoFile or Bad
  favorites,   \* m_favoriteApps
  saveTimer,   \* m_saveTimer runs
  lost,        \* history: a commit failed, or the file could not be read at the start
  configFile,  \* configs.json: a function of some keys, NoFile or Bad
  config,      \* the configuration objects
  stateWatched,     \* m_fileWatcher has the path
  event,       \* fileChanged is on its way
  stateAttaching,   \* the file has been read, attachFileWatcher is next
  unseen,      \* history: configs.json changed and nobody will say so
  shellAlive,       \* the shell runs
  steps        \* counts, for MaxSteps

favVars == <<userdata, favorites, saveTimer, lost>>
cfgVars == <<configFile, config, stateWatched, event, stateAttaching, unseen>>
stateVars == <<favVars, cfgVars, shellAlive, steps>>

StateInit ==
  /\ userdata \in UserFiles
  /\ favorites = <<>> /\ saveTimer = FALSE /\ lost = FALSE
  /\ configFile = NoFile
  /\ config = Defaults
  /\ stateWatched = FALSE /\ event = FALSE /\ stateAttaching = FALSE /\ unseen = FALSE
  /\ shellAlive = FALSE
  /\ steps = 0

-----------------------------------------------------------------------------
NoId == ""

\* readUserStateData, id by id: empty ids and duplicates go.
Kept(file) ==
  LET kept[n \in 0 .. Len(file)] ==
        IF n = 0 THEN <<>>
        ELSE IF file[n] = NoId \/ file[n] \in ToSet(kept[n - 1]) THEN kept[n - 1]
             ELSE Append(kept[n - 1], file[n])
  IN kept
Favorites(file) == Kept(file)[Len(file)]

\* serializeFromJson: a key the file lacks is reset.
StateApplied(file) == [k \in Keys |-> IF k \in DOMAIN file THEN file[k] ELSE 0]
Readable(file) == file # NoFile /\ file # Bad

\* The constructors of both, and the end of the process at any moment.
StateStart ==
  /\ ~shellAlive /\ steps < MaxSteps
  /\ shellAlive' = TRUE /\ steps' = steps + 1
  /\ favorites' = IF Readable(userdata) THEN Favorites(userdata) ELSE <<>>
  /\ lost' = ~Readable(userdata)
  /\ config' = IF Readable(configFile) THEN StateApplied(configFile) ELSE Defaults
  /\ stateAttaching' = TRUE
  /\ unseen' = FALSE
  /\ UNCHANGED <<userdata, saveTimer, configFile, stateWatched, event>>

Crash ==
  /\ shellAlive /\ shellAlive' = FALSE
  /\ saveTimer' = FALSE
  /\ stateWatched' = FALSE /\ event' = FALSE /\ stateAttaching' = FALSE
  /\ UNCHANGED <<userdata, favorites, lost, configFile, config, unseen, steps>>

\* addFavoriteApp and removeFavoriteApp: the timer starts again even when nothing changed.
Changed(list) ==
  /\ shellAlive /\ ~stateAttaching /\ steps < MaxSteps
  /\ steps' = steps + 1
  /\ favorites' = list
  /\ saveTimer' = TRUE
  /\ UNCHANGED <<userdata, lost, cfgVars, shellAlive>>
AddFavoriteApp(a) == Changed(IF a \in ToSet(favorites) THEN favorites ELSE Append(favorites, a))
RemoveFavoriteApp(a) == Changed(RemoveFirst(favorites, a))

\* onSaveTimerTimeout: writeUserStateData, which may fail and is not tried again.
SaveTimeout ==
  /\ shellAlive /\ ~stateAttaching /\ saveTimer /\ saveTimer' = FALSE
  /\ \/ userdata' = favorites /\ lost' = FALSE
     \/ lost' = TRUE /\ UNCHANGED userdata
  /\ UNCHANGED <<favorites, cfgVars, shellAlive, steps>>

-----------------------------------------------------------------------------
\* An editor replaces configs.json, also between the read and attachFileWatcher.
EditConfig(file) ==
  /\ steps < MaxSteps /\ file # configFile
  /\ steps' = steps + 1
  /\ configFile' = file
  /\ event' = (event \/ stateWatched)
  /\ stateWatched' = FALSE
  /\ unseen' = (unseen \/ (shellAlive /\ ~stateWatched /\ ~event))
  /\ UNCHANGED <<favVars, config, stateAttaching, shellAlive>>

\* Mutant: keys the new file lacks keep their values.
OnConfigFileChangedMerges ==
  /\ shellAlive /\ event /\ ~stateAttaching
  /\ event' = FALSE /\ stateAttaching' = TRUE
  /\ unseen' = FALSE
  /\ config' = IF Readable(configFile)
                 THEN [k \in Keys |-> IF k \in DOMAIN configFile THEN configFile[k] ELSE config[k]] ELSE config
  /\ UNCHANGED <<favVars, configFile, stateWatched, shellAlive, steps>>

\* onConfigFileChanged: readFromFile, then attachFileWatcher.
OnConfigFileChanged ==
  /\ shellAlive /\ event /\ ~stateAttaching
  /\ event' = FALSE /\ stateAttaching' = TRUE
  /\ unseen' = FALSE
  /\ config' = IF Readable(configFile) THEN StateApplied(configFile) ELSE config
  /\ UNCHANGED <<favVars, configFile, stateWatched, shellAlive, steps>>

AttachFileWatcher ==
  /\ stateAttaching /\ stateAttaching' = FALSE
  /\ stateWatched' = (configFile # NoFile)
  /\ UNCHANGED <<favVars, configFile, config, event, unseen, shellAlive, steps>>

StateNext ==
  \/ StateStart \/ Crash \/ SaveTimeout \/ OnConfigFileChanged \/ AttachFileWatcher
  \/ \E a \in Apps \ {NoId} : AddFavoriteApp(a) \/ RemoveFavoriteApp(a)
  \/ \E kept \in SUBSET Keys : EditConfig([k \in kept |-> 1])
  \/ EditConfig(Bad)

StateSpec == StateInit /\ [][StateNext]_stateVars

-----------------------------------------------------------------------------
\* A crash loses no favourite once the timer has run out and the write succeeded, and the
\* configuration in use is the one on disk whenever the watcher has missed nothing.
StateKept ==
  shellAlive =>
    /\ (~saveTimer /\ ~lost) => Favorites(userdata) = favorites
    /\ (stateWatched /\ ~event /\ ~unseen /\ Readable(configFile)) => config = StateApplied(configFile)
=============================================================================
