----------------------------- MODULE MCCapture -----------------------------
(***************************************************************************)
(* The capture context, on its own for any owner, and as a view owns it,   *)
(* and the entries of the launcher, in one run: every behaviour is of one  *)
(* part, the others stay as they start.  For the captures, two sources to  *)
(* switch between, two sizes so that buffers are reused and replaced,      *)
(* three addresses so that a new buffer always finds a free one.           *)
(***************************************************************************)
EXTENDS ScreencopyView, DesktopEntries, TLC

VARIABLE part

MCVars == <<scVars, entryVars, part>>

\* No application; one in one directory, and one in both, for a terminal in the lower; and
\* one in the upper that a file without a name precedes.
MCEmptyDisk == <<<<"none", "none">>, <<"none", "none">>>>
MCDiskStarts ==
  {MCEmptyDisk, <<<<"none", "app">>, <<"app", "term">>>>, <<<<"app", "none">>, <<"bad", "none">>>>}

\* The owner of a context on its own: a view that is complete and has a source, and that
\* does nothing more.
MCOwnerInit ==
  /\ IccInit /\ source = (CHOOSE s \in Sources : TRUE) /\ watched = {source}
  /\ completed = TRUE /\ onReady = FALSE /\ queued = FALSE /\ live = FALSE
  /\ hasContent = FALSE /\ asked = "no" /\ tex = [i \in {1, 2} |-> NoTex]

MCInit ==
  /\ EntryInit
  /\ \/ part = "context" /\ MCOwnerInit
     \/ part \in {"view", "entries"} /\ ViewInit
  /\ part # "entries" => disk = MCEmptyDisk

\* The captures have no bound and are searched for deadlocks; the entries, which stop at
\* theirs, may stutter there.
MCNext ==
  /\ UNCHANGED part
  /\ \/ /\ part = "context" /\ IccNext
        /\ asked' = IF capPending' \/ frame' = "flying" THEN "yes" ELSE "no"
        /\ UNCHANGED <<source, watched, completed, onReady, queued, live, hasContent, tex, entryVars>>
     \/ part = "view" /\ ViewNext /\ UNCHANGED entryVars
     \/ part = "entries" /\ EntryNext /\ UNCHANGED scVars
     \/ part = "entries" /\ entryDeeds = MaxEntryDeeds /\ UNCHANGED <<scVars, entryVars>>

MCSpec == MCInit /\ [][MCNext]_MCVars

Addresses == Permutations(Addrs)
=============================================================================
