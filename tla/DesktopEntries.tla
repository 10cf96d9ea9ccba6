--------------------------- MODULE DesktopEntries ---------------------------
(***************************************************************************)
(* The applications the launcher lists.  EntryManager scans the            *)
(* application directories in a thread of the pool, keeps the result in a   *)
(* cache for the next session, and scans again one second after a directory *)
(* changed; DesktopEntriesModel filters and sorts what the manager holds.  *)
(*                                                                         *)
(* A file is absent, without a name or a command ("bad"), an application,  *)
(* or one for a terminal.  A query is the set of ids whose names it       *)
(* matches, all of them for an empty one.  parseText never sets `hidden',  *)
(* so the branch of processEntryList for hidden entries is never taken and *)
(* is left out, as are the fields nothing is decided by.                   *)
(***************************************************************************)
EXTENDS Naturals, FiniteSets, Sequences, SequencesExt

CONSTANTS EntryIds,    \* desktop files, numbered in the order of their names
          EntryDirs,   \* how many directories there are; 1 has the highest priority
          DiskStarts,  \* what is in them when the first session starts
          EntryKinds,  \* what an edit may leave of a file
          Queries,     \* what may be typed
          TornCache,   \* a cache that cannot be read
          MaxEntryDeeds \* bound: edits, starts and actions of the user

Dirs == 1..EntryDirs
Valid == {"app", "term"}
FileKinds == {"none", "bad"} \cup Valid

ASSUME EntryAssumption ==
  /\ EntryIds \subseteq Nat /\ IsFiniteSet(EntryIds) /\ EntryDirs \in Nat
  /\ DiskStarts \subseteq [Dirs -> [EntryIds -> FileKinds]]
  /\ EntryKinds \subseteq FileKinds /\ Queries \subseteq SUBSET EntryIds

VARIABLES
  disk,        \* disk[d][id]: the file with that id in directory d
  staleDirs,   \* directories that are newer than their recorded dates, or have none
  cache,       \* DesktopEntries.json: what a session will read, or TornCache
  hasty,       \* history: a recorded date covers a change the cache does not have
  unnoticed,   \* history: a change below a directory, which no scan has begun since
  dirEvent,    \* directoryChanged is on its way
  debouncing,  \* EntryMonitor::m_debouncer runs
  scanInProgress, scanQueued, \* EntryManager
  toRead,      \* the scanner has still to read directories toRead, ..., 1
  found,       \* found[d]: what it read in the others
  entries,     \* m_desktopEntries: the version of each id, or "none"
  origin,      \* history: where they come from
  favoriteApps, frequency, \* StateManager and the database
  appRows,     \* DesktopEntriesModel::m_entries
  filter, previous, \* query and hideTerminalOnly, now and at the last timeout
  filterTimer, \* DesktopEntriesModel::m_debouncer runs
  overtakenRows, \* history: the rows were filled by a setting the last timeout did not have
  managerUp, entryDeeds

diskVars == <<disk, staleDirs, cache, hasty, unnoticed>>
scanVars == <<dirEvent, debouncing, scanInProgress, scanQueued, toRead, found>>
rowVars == <<appRows, filter, previous, filterTimer, overtakenRows>>
userVars == <<favoriteApps, frequency>>
entryVars == <<diskVars, scanVars, entries, origin, userVars, rowVars, managerUp, entryDeeds>>

NoFiles == [id \in EntryIds |-> "none"]
NothingScanned == [d \in Dirs |-> NoFiles]
NoFilter == [query |-> EntryIds, hide |-> FALSE]

EntryInit ==
  /\ disk \in DiskStarts
  /\ staleDirs = Dirs /\ cache = TornCache /\ hasty = FALSE /\ unnoticed = FALSE
  /\ dirEvent = FALSE /\ debouncing = FALSE
  /\ scanInProgress = FALSE /\ scanQueued = FALSE
  /\ toRead = 0 /\ found = NothingScanned
  /\ entries = NoFiles /\ origin = "none"
  /\ favoriteApps = {} /\ frequency = [id \in EntryIds |-> 0]
  /\ appRows = <<>> /\ filter = NoFilter /\ previous = NoFilter
  /\ filterTimer = FALSE /\ overtakenRows = FALSE
  /\ managerUp = FALSE /\ entryDeeds = 0

EntryDeed == entryDeeds < MaxEntryDeeds /\ entryDeeds' = entryDeeds + 1
Having(id, files, kinds) == {d \in Dirs : files[d][id] \in kinds}
Top(ds) == CHOOSE d \in ds : \A e \in ds : d <= e
Bottom(ds) == CHOOSE d \in ds : \A e \in ds : d >= e

\* processEntryList: the list runs from the lowest priority to the highest, and a valid
\* entry takes the place of one with its id.
Merged(files) == [id \in EntryIds |->
  LET ds == Having(id, files, Valid) IN IF ds = {} THEN "none" ELSE files[Top(ds)][id]]

\* saveToCache keeps the first version of an id in that list, valid or not, ...
SavedEntries(files) == [id \in EntryIds |->
  LET ds == Having(id, files, Valid \cup {"bad"})
  IN  IF ds = {} THEN "none" ELSE files[Bottom(ds)][id]]
\* ... and readFromCache skips what has no name or no command.
ReadBack(saved) == [id \in EntryIds |-> IF saved[id] \in Valid THEN saved[id] ELSE "none"]

\* isEntryFiltered
Shown(held, hide) == {id \in EntryIds : held[id] \in IF hide THEN {"app"} ELSE Valid}

\* sortEntries: favourites, then what is used most, then the names.
Before(a, b, favs, freq) ==
  \/ a \in favs /\ b \notin favs
  \/ /\ a \in favs <=> b \in favs
     /\ freq[a] > freq[b] \/ (freq[a] = freq[b] /\ a < b)
SortedRows(ids, favs, freq) ==
  CHOOSE rows \in [1..Cardinality(ids) -> ids] :
    \A i, j \in DOMAIN rows : i < j => Before(rows[i], rows[j], favs, freq)

\* DesktopEntriesModel::onEntriesChanged: filtered again, but not by the query.
EntriesBecome(held) ==
  /\ entries' = held
  /\ appRows' = SortedRows(Shown(held, filter.hide), favoriteApps, frequency)
  /\ overtakenRows' = (filter.hide # previous.hide)
  /\ UNCHANGED <<filter, previous, filterTimer>>

-----------------------------------------------------------------------------
\* scanDesktopEntries when no scan is in progress
BeginScan ==
  /\ scanInProgress' = TRUE /\ scanQueued' = FALSE
  /\ toRead' = EntryDirs /\ found' = NothingScanned
  /\ unnoticed' = FALSE

\* Mutant: a request made during a scan is dropped.
ScanDesktopEntriesOnce ==
  \/ ~scanInProgress /\ BeginScan
  \/ scanInProgress /\ UNCHANGED <<scanInProgress, scanQueued, toRead, found, unnoticed>>

\* scanDesktopEntries, when no scan is in progress and when one is
ScanDesktopEntries ==
  \/ ~scanInProgress /\ BeginScan
  \/ /\ scanInProgress /\ scanQueued' = TRUE
     /\ UNCHANGED <<scanInProgress, toRead, found, unnoticed>>

\* isCacheValid
CacheValid == staleDirs = {}

\* EntryManager's constructor, and the model's.  With valid dates and a cache that cannot
\* be read there is neither a list nor a scan.
ManagerStart ==
  /\ ~managerUp /\ EntryDeed /\ managerUp' = TRUE
  /\ \/ /\ ~CacheValid /\ BeginScan
        /\ entries' = NoFiles /\ origin' = "none"
     \/ /\ CacheValid
        /\ entries' = IF cache = TornCache THEN NoFiles ELSE ReadBack(cache)
        /\ origin' = IF cache = TornCache THEN "unread" ELSE "cache"
        /\ UNCHANGED <<scanInProgress, scanQueued, toRead, found, unnoticed>>
  /\ appRows' = SortedRows(Shown(entries', FALSE), favoriteApps, frequency)
  /\ UNCHANGED <<disk, staleDirs, cache, hasty, dirEvent, debouncing, userVars, filter, previous,
                 filterTimer, overtakenRows>>

\* The shell ends; when it is saving, with some of the two files written.
SessionEnds ==
  /\ managerUp' = FALSE
  /\ dirEvent' = FALSE /\ debouncing' = FALSE
  /\ scanInProgress' = FALSE /\ scanQueued' = FALSE
  /\ toRead' = 0 /\ found' = NothingScanned
  /\ entries' = NoFiles /\ origin' = "none"
  /\ appRows' = <<>> /\ filter' = NoFilter /\ previous' = NoFilter
  /\ filterTimer' = FALSE /\ overtakenRows' = FALSE /\ unnoticed' = FALSE
  /\ UNCHANGED <<disk, userVars, entryDeeds>>
ManagerCrash == managerUp /\ SessionEnds /\ UNCHANGED <<staleDirs, cache, hasty>>
CrashWhileSaving ==
  /\ managerUp /\ scanInProgress /\ toRead = 0
  /\ SessionEnds
  /\ cache' = TornCache /\ staleDirs' \in {staleDirs, Dirs, {}}
  /\ UNCHANGED hasty

\* Somebody adds, removes or replaces a file: the directory gets a new date.  Dates are
\* recorded in seconds, so one that is not later than the recorded second is not newer.
EditDirectory(d, id, kind, later) ==
  /\ EntryDeed /\ disk[d][id] # kind
  /\ disk' = [disk EXCEPT ![d][id] = kind]
  /\ staleDirs' = IF later THEN staleDirs \cup {d} ELSE staleDirs
  /\ hasty' = (hasty \/ ~later)
  /\ dirEvent' = (dirEvent \/ managerUp)
  /\ UNCHANGED <<cache, unnoticed, debouncing, scanInProgress, scanQueued, toRead, found,
                 entries, origin, userVars, rowVars, managerUp>>

\* A file is written in place, or in a subdirectory: nobody is told and no date changes.
EditBelow(d, id, kind) ==
  /\ EntryDeed /\ disk[d][id] \notin {"none", kind} /\ kind # "none"
  /\ disk' = [disk EXCEPT ![d][id] = kind]
  /\ unnoticed' = managerUp /\ hasty' = TRUE
  /\ UNCHANGED <<staleDirs, cache, scanVars, entries, origin, userVars, rowVars, managerUp>>

OnDirectoryChanged ==
  /\ dirEvent /\ dirEvent' = FALSE /\ debouncing' = TRUE
  /\ UNCHANGED <<diskVars, scanInProgress, scanQueued, toRead, found, entries, origin,
                 userVars, rowVars, managerUp, entryDeeds>>

ProcessDebounced ==
  /\ debouncing /\ debouncing' = FALSE
  /\ ScanDesktopEntries
  /\ UNCHANGED <<disk, staleDirs, cache, hasty, dirEvent, entries, origin, userVars, rowVars,
                 managerUp, entryDeeds>>

\* DesktopEntryScanner::run, in its thread: one directory, the last first.
ScanDirectory ==
  /\ toRead > 0 /\ toRead' = toRead - 1
  /\ found' = [found EXCEPT ![toRead] = disk[toRead]]
  /\ UNCHANGED <<diskVars, dirEvent, debouncing, scanInProgress, scanQueued, entries, origin,
                 userVars, rowVars, managerUp, entryDeeds>>

\* saveToCache: saved, with the dates of this moment and not of the scan, unless their file
\* cannot be opened; or its own cannot be; or writing it fails, which nothing tests.
SaveToCache ==
  \/ /\ cache' \in {SavedEntries(found), TornCache} /\ staleDirs' \in {{}, staleDirs}
     /\ hasty' = (found # disk)
  \/ UNCHANGED <<cache, staleDirs, hasty>>

OnScanCompleted ==
  /\ scanInProgress /\ toRead = 0
  /\ SaveToCache
  /\ EntriesBecome(Merged(found)) /\ origin' = "scan"
  /\ \/ scanQueued /\ BeginScan
     \/ /\ ~scanQueued /\ scanInProgress' = FALSE /\ found' = NothingScanned
        /\ UNCHANGED <<scanQueued, toRead, unnoticed>>
  /\ UNCHANGED <<disk, dirEvent, debouncing, userVars, managerUp, entryDeeds>>

-----------------------------------------------------------------------------
\* setQueryString and setHideTerminalOnly
SetFilter(query, hide) ==
  /\ managerUp /\ EntryDeed
  /\ filter # [query |-> query, hide |-> hide]
  /\ query = filter.query \/ hide = filter.hide
  /\ filter' = [query |-> query, hide |-> hide]
  /\ filterTimer' = TRUE
  /\ UNCHANGED <<diskVars, scanVars, entries, origin, userVars, appRows, previous,
                 overtakenRows, managerUp>>

\* onDebounceTimeout and resetAllFilters
OnDebounceTimeout ==
  /\ filterTimer /\ filterTimer' = FALSE
  /\ \/ previous = filter /\ UNCHANGED <<appRows, previous, overtakenRows>>
     \/ /\ previous # filter /\ previous' = filter
        /\ appRows' = SortedRows(Shown(entries, filter.hide) \cap filter.query, favoriteApps,
                                 frequency)
        /\ overtakenRows' = FALSE
  /\ UNCHANGED <<diskVars, scanVars, entries, origin, userVars, filter, managerUp, entryDeeds>>

\* toggleFavorite and onFavoriteEntriesChanged; incrementFrequencyFor, whose statement may
\* fail, and reSortEntries
UserRanks(favs, freq) ==
  /\ managerUp /\ EntryDeed
  /\ favoriteApps' = favs /\ frequency' = freq
  /\ appRows' = SortedRows(ToSet(appRows), favs, freq)
  /\ UNCHANGED <<diskVars, scanVars, entries, origin, filter, previous, filterTimer,
                 overtakenRows, managerUp>>
ToggleFavorite(id) == UserRanks((favoriteApps \ {id}) \cup ({id} \ favoriteApps), frequency)
Execute(id) == UserRanks(favoriteApps, [frequency EXCEPT ![id] = @ + 1])

EntryNext ==
  \/ ManagerStart \/ ManagerCrash \/ CrashWhileSaving
  \/ \E d \in Dirs, id \in EntryIds, kind \in EntryKinds :
       \/ \E later \in BOOLEAN : EditDirectory(d, id, kind, later)
       \/ EditBelow(d, id, kind)
  \/ OnDirectoryChanged \/ ProcessDebounced \/ ScanDirectory \/ OnScanCompleted
  \/ \E q \in Queries, hide \in BOOLEAN : SetFilter(q, hide)
  \/ OnDebounceTimeout
  \/ \E id \in ToSet(appRows) : ToggleFavorite(id) \/ Execute(id)

EntrySpec == EntryInit /\ [][EntryNext]_entryVars

-----------------------------------------------------------------------------
Settled == managerUp /\ ~dirEvent /\ ~debouncing /\ ~scanInProgress

\* Once no change and no scan is pending, the manager has the version of each application
\* that its directories give it: of the highest priority after a scan, and of the only
\* directory that has it after a cache that was made of what is there.
EntriesCurrent ==
  Settled /\ ~unnoticed =>
    /\ origin = "scan" => entries = Merged(disk)
    /\ origin = "cache" /\ ~hasty => \A id \in EntryIds, d \in Dirs :
         Having(id, disk, {"app", "term", "bad"}) = {d} => entries[id] = Merged(disk)[id]

\* The launcher's rows are in the order of what the user likes and uses, whatever changed
\* last; no row that the filter wants is missing, and none is there that it hides.
RowsCurrent ==
  /\ appRows = SortedRows(ToSet(appRows), favoriteApps, frequency)
  /\ managerUp /\ ~filterTimer /\ ~overtakenRows =>
       /\ Shown(entries, filter.hide) \cap filter.query \subseteq ToSet(appRows)
       /\ ToSet(appRows) \subseteq Shown(entries, filter.hide)

\* Across debounced events, scans that overlap changes, restarts from the cache and crashes,
\* the launcher lists the applications there are.
EntriesAgree == EntriesCurrent /\ RowsCurrent
=============================================================================
