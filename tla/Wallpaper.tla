----------------------------- MODULE Wallpaper -----------------------------
(***************************************************************************)
(* WallpaperManager: the list of wallpapers read from wallpapers.json, the *)
(* index of the one shown, the timer that rotates them, the file watcher   *)
(* with its debounce timer, and the two D-Bus calls that nsctl makes.      *)
(*                                                                         *)
(* An entry of the file is [pic, timed]: its picture and whether its       *)
(* interval is at least one second.  A file is a list of entries, NoWallFile *)
(* or BadFile (it does not parse, or is no array).  A watch is on the inode:   *)
(* replacing the file raises one event and ends it.                        *)
(***************************************************************************)
EXTENDS Naturals, Sequences, SequencesExt

CONSTANTS Pics,      \* pictures a file or a call names
          OnDisk,    \* those that exist
          Allowed,   \* those with the suffix jpg, jpeg or png
          WallLists,     \* contents somebody may give the file
          NoWallFile, BadFile, \* a file that is not there, or is no list
          MaxEdits   \* bound: changes from outside

ASSUME WallpaperAssumption ==
  /\ OnDisk \subseteq Pics /\ Allowed \subseteq Pics
  /\ \A f \in WallLists : f \in Seq([pic : Pics, timed : BOOLEAN])

NoPic == ""   \* current() is null

VARIABLES
  wallFile,        \* wallpapers.json
  configured,  \* m_configPath is set: the file was there at the start
  wallInstances,   \* m_instances
  wallIndex,       \* m_currentIndex
  rotating,    \* m_switchTimer runs
  debounce,    \* m_fileDebounceTimer runs
  wallWatched,     \* m_fileWatcher has the file
  wallAttaching,   \* parseConfig has read the file and will call attachWatcher
  wallAnnounced,   \* path of the last WallpaperChanged signal
  wallMissed,      \* history: the file changed and no event will say so
  edits        \* counts outside changes, for MaxEdits

wallVars == <<wallFile, configured, wallInstances, wallIndex, rotating, debounce, wallWatched, wallAttaching,
              wallAnnounced, wallMissed, edits>>

Parsed(f) == SelectSeq(f, LAMBDA e : e.pic \in OnDisk)
IsList(f) == f \notin {NoWallFile, BadFile}

\* current(), which lets an index equal to the length through: that read is out of range,
\* and the outcomes a build can produce are any picture, none, or a crash (not modelled).
Current(list, i) ==
  IF i < Len(list) THEN {list[i + 1].pic} ELSE IF i > Len(list) THEN {NoPic} ELSE Pics \cup {NoPic}

\* IPCServer::onWallpaperChanged: the path of current(), or an empty one.
Announce(list, i) == wallAnnounced' \in Current(list, i)

\* setupTimer
Rotates(list, i) == Len(list) >= 2 /\ i < Len(list) /\ list[i + 1].timed

WallInit ==
  /\ wallFile \in {NoWallFile, BadFile} \cup WallLists
  /\ configured = (wallFile # NoWallFile)
  /\ wallInstances = IF IsList(wallFile) THEN Parsed(wallFile) ELSE <<>>
  /\ wallIndex = 0
  /\ rotating = Rotates(wallInstances, 0)
  /\ debounce = FALSE
  /\ wallWatched = configured
  /\ wallAttaching = FALSE
  /\ wallAnnounced = NoPic
  /\ wallMissed = FALSE
  /\ edits = 0

-----------------------------------------------------------------------------
\* The file gets a new content, and the watcher learns of it or not.
FileBecomes(f) ==
  /\ wallFile' = f
  /\ wallWatched' = FALSE
  /\ debounce' = (debounce \/ wallWatched)
  /\ wallMissed' = (wallMissed \/ wallAttaching \/ (configured /\ ~wallWatched /\ ~debounce))

\* Another program replaces the file, also between the read and attachWatcher.
EditWalls(f) ==
  /\ edits < MaxEdits /\ f # wallFile
  /\ edits' = edits + 1
  /\ FileBecomes(f)
  /\ UNCHANGED <<configured, wallInstances, wallIndex, rotating, wallAttaching, wallAnnounced>>

\* Mutant: a list that was read again keeps the index of the one before.
ParseConfigKeepsIndex ==
  /\ debounce /\ ~wallAttaching
  /\ debounce' = FALSE
  /\ wallAttaching' = (wallFile # NoWallFile)
  /\ wallMissed' = (wallFile = NoWallFile)
  /\ IF IsList(wallFile)
       THEN /\ wallInstances' = Parsed(wallFile)
            /\ rotating' = Rotates(Parsed(wallFile), wallIndex)
            /\ Announce(Parsed(wallFile), wallIndex)
       ELSE UNCHANGED <<wallInstances, rotating, wallAnnounced>>
  /\ UNCHANGED <<wallFile, configured, wallWatched, edits, wallIndex>>

\* parseConfig, on the debounce timer.  A missing file ends it before attachWatcher.
ParseConfig ==
  /\ debounce /\ ~wallAttaching
  /\ debounce' = FALSE
  /\ wallAttaching' = (wallFile # NoWallFile)
  /\ wallMissed' = (wallFile = NoWallFile)
  /\ IF IsList(wallFile)
       THEN /\ wallInstances' = Parsed(wallFile)
            /\ wallIndex' = 0
            /\ rotating' = Rotates(Parsed(wallFile), 0)
            /\ Announce(Parsed(wallFile), 0)
       ELSE UNCHANGED <<wallInstances, wallIndex, rotating, wallAnnounced>>
  /\ UNCHANGED <<wallFile, configured, wallWatched, edits>>

AttachWatcher ==
  /\ wallAttaching
  /\ wallAttaching' = FALSE
  /\ wallWatched' = (wallFile # NoWallFile)
  /\ UNCHANGED <<wallFile, configured, wallInstances, wallIndex, rotating, debounce, wallAnnounced, wallMissed, edits>>

\* moveForward
MoveForward ==
  /\ ~wallAttaching
  /\ IF Len(wallInstances) < 2
       THEN rotating' = FALSE /\ UNCHANGED <<wallIndex, wallAnnounced>>
       ELSE LET next == (wallIndex + 1) % Len(wallInstances) IN
            /\ wallIndex' = next
            /\ rotating' = Rotates(wallInstances, next)
            /\ Announce(wallInstances, next)
  /\ UNCHANGED <<wallFile, configured, wallInstances, debounce, wallWatched, wallAttaching, wallMissed, edits>>

\* The switch timer, and the D-Bus call NextWallpaper, which `nsctl wp next` makes.
SwitchTimeout == rotating /\ MoveForward
NextWallpaper == MoveForward

\* saveConfigToFile; it fails without a path, on a full disk or without permission.
Saved(list) ==
  \/ configured /\ FileBecomes(list)
  \/ wallMissed' = TRUE /\ UNCHANGED <<wallFile, wallWatched, debounce>>

\* forceSingleWallpaper, by the D-Bus call ChangeWallpaper.
ChangeWallpaper(p) ==
  /\ ~wallAttaching /\ edits < MaxEdits
  /\ edits' = edits + 1
  /\ \/ /\ Len(wallInstances) = 1 /\ wallInstances[1].pic = p
        /\ Saved(<<wallInstances[1]>>)
        /\ UNCHANGED <<wallInstances, wallAnnounced>>
     \/ /\ ~(Len(wallInstances) = 1 /\ wallInstances[1].pic = p)
        /\ p \in OnDisk \cap Allowed
        /\ LET one == <<[pic |-> p, timed |-> FALSE]>> IN
           /\ wallInstances' = one
           /\ Saved(one)
           /\ Announce(one, wallIndex)
  /\ UNCHANGED <<configured, wallIndex, rotating, wallAttaching>>

\* `nsctl wp set` calls it only for pictures it finds and knows the suffix of.
WallpaperReplace(p) == p \in OnDisk \cap Allowed /\ ChangeWallpaper(p)

WallNext ==
  \/ \E f \in {NoWallFile, BadFile} \cup WallLists : EditWalls(f)
  \/ ParseConfig \/ AttachWatcher
  \/ SwitchTimeout \/ NextWallpaper
  \/ \E p \in Pics : ChangeWallpaper(p) \/ WallpaperReplace(p)

WallSpec == WallInit /\ [][WallNext]_wallVars

-----------------------------------------------------------------------------
\* Once the file has been read and nothing was missed, the list is the file's, the index is
\* inside it (a forced wallpaper may leave it outside until the saved file comes back), the
\* bus has heard of the picture that is shown, and the timer runs exactly when there is
\* something to rotate.
WallpaperSettled ==
  (configured /\ IsList(wallFile) /\ wallWatched /\ ~debounce /\ ~wallAttaching /\ ~wallMissed) =>
    /\ wallInstances = Parsed(wallFile)
    /\ wallInstances # <<>> => wallIndex < Len(wallInstances)
    /\ (wallInstances # <<>> /\ wallAnnounced # NoPic) => wallAnnounced = wallInstances[wallIndex + 1].pic
    /\ rotating = Rotates(wallInstances, wallIndex)
=============================================================================
