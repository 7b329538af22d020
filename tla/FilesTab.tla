------------------------------ MODULE FilesTab ------------------------------
(***************************************************************************)
(* A Files tab: the explorer decides which file is shown and by which      *)
(* entry, the text viewer reads and saves it, and both see the machine's   *)
(* files through the daemon.  Every step of the explorer is also a step of *)
(* the viewer, which follows the entry it shows.                           *)
(***************************************************************************)
EXTENDS Explorer, TextViewer

vars == <<explorerVars, viewerVars>>

IsOpen(loc, isPaired) == loc.type = "file" /\ isPaired

Key(loc, shown) == openedFile(loc, shown).version

Init ==
  /\ ExplorerInit
  /\ TextViewerInit
  /\ viewer = IF IsOpen(location, paired) THEN Detecting ELSE Unmounted

\* The entry is another object when its row comes, changes or goes.
ViewerFollows ==
  Follow(IsOpen(location', paired'),
         location' # location \/ RowOf(location', rows') # RowOf(location, rows))

ViewerRemounts ==
  /\ viewer' = IF IsOpen(location', paired') THEN Detecting ELSE Unmounted
  /\ saves' = Disowned
  /\ UNCHANGED dirty

\* What the opened file's directory holds under its name, 0: nothing
Current ==
  IF disk[location.path] = Missing THEN 0
  ELSE disk[location.path][location.entry.name]

ViewerStays == UNCHANGED viewerVars
ExplorerStays == UNCHANGED explorerVars

Navigates ==
  \/ \E d \in Dirs \cup {NoPath} : navigate(d)
  \/ navigateTrash
  \/ goUp
  \/ goBack
  \/ HomeArrives
  \/ HomeFails

SessionChanges ==
  \/ ConnectionLost
  \/ Reconnected
  \/ handleInvalidCredentials
  \/ PairedAgain

TrashViewNext ==
  \/ OpenTrash
  \/ OpenTrashFails
  \/ applyTrashItemsEvent
  \/ MutateTrashItemFails

DirectoryOpens == OpenDirectory \/ OpenDirectoryFails

(***************************************************************************)
(* The daemon saves a text: write_file with WriteFileMode.Replace.  Other  *)
(* programs go on between its calls, and it may fail at each of them.      *)
(***************************************************************************)
Saving(s, at) == connected /\ saves[s].at = at

SaveGoesOn(s, next) ==
  /\ saves' = [saves EXCEPT ![s] = next]
  /\ UNCHANGED <<trash, wire, trashVars, clientVars, viewer, dirty>>

IsThere(file) == disk[file.dir] # Missing /\ disk[file.dir][file.name] > 0

\* The file is opened: it is empty now, and made if there was none.
TruncateFile(s) ==
  /\ Saving(s, "called")
  /\ Write(saves[s].file.dir, saves[s].file.name)
  /\ SaveGoesOn(s, [saves[s] EXCEPT !.at = "opened"])

\* write_seekable_chunks: the chunk has come and is written.
WriteChunks(s) ==
  /\ Saving(s, "opened") /\ IsThere(saves[s].file)
  /\ Write(saves[s].file.dir, saves[s].file.name)
  /\ SaveGoesOn(s, [saves[s] EXCEPT !.at = "written", !.text = version'])

\* fs::metadata, and the comparison with expectedResultSize: what is measured
\* may be a version of the same size that another program has made since.
MeasureFile(s) ==
  /\ Saving(s, "written") /\ IsThere(saves[s].file)
  /\ LET file == saves[s].file
     IN SaveGoesOn(s, [saves[s] EXCEPT !.at = "measured",
                                       !.own = disk[file.dir][file.name]])
  /\ UNCHANGED <<disk, version, feed>>

ViewerNext ==
  LET key == Key(location, rows) IN
  \/ connected /\ viewer.phase = "detecting" /\ Detected(key)
  \/ connected /\ viewer.key # 0 /\ ReadFile(Current)
  \/ Loaded
  \/ LoadFails
  \/ \E text \in {Edit, viewer.saved} : changeDraftText(text, key)
  \/ saveDraftText([dir |-> location.path, name |-> location.entry.name], key)
  \/ \E s \in Slots : connected /\ Saved(s, key)
  \/ \E s \in Slots : SaveFails(s)

Next ==
  \/ FeedsNext /\ UNCHANGED <<clientVars, viewerVars>>
  \/ Navigates /\ ViewerFollows
  \/ SessionChanges /\ ViewerFollows
  \/ applyDirectoryEvent /\ ViewerFollows
  \/ DirectoryOpens /\ ViewerStays
  \/ \E d \in Dirs : LateEvent(d) /\ ViewerFollows
  \/ TrashViewNext /\ ViewerStays
  \/ Remounted /\ ViewerRemounts
  \/ ViewerNext /\ ExplorerStays
  \/ \E s \in Slots : TruncateFile(s) \/ WriteChunks(s) \/ MeasureFile(s)

\* The daemon's tasks and the client's loops run on; the user, the viewer and
\* other programs do not have to.
DirectoryFeedProceeds == DirectorySteps /\ UNCHANGED <<clientVars, viewerVars>>

DirectoryTableProceeds ==
  \/ DirectoryOpens /\ ViewerStays
  \/ applyDirectoryEvent /\ ViewerFollows

TrashFeedProceeds == TrashSteps /\ UNCHANGED <<clientVars, viewerVars>>

TrashViewProceeds ==
  (OpenTrash \/ OpenTrashFails \/ applyTrashItemsEvent) /\ ViewerStays

Fairness ==
  /\ WF_vars(DirectoryFeedProceeds)
  /\ WF_vars(DirectoryTableProceeds)
  /\ WF_vars(TrashFeedProceeds)
  /\ WF_vars(TrashViewProceeds)

Spec == Init /\ [][Next]_vars /\ Fairness

(***************************************************************************)
(* Properties.                                                             *)
(***************************************************************************)
\* The rows on show are of the directory the tab is in, one to a name, although
\* the loops of directories it has left still get events (explorer.ts
\* 332-400), and a patch meets the very rows that it was made from
\* (server.rs, directory_patch).
RowsOfLocation ==
  /\ \A e \in rows : e.dir = location.path
  /\ \A e, f \in rows : e.name = f.name => e = f

\* When files no longer change, a live table soon shows exactly the files
\* that are there, as long as the watch is on the directory: nothing falls
\* between the first listing and the watch, or between a batch of events and
\* its listing (server.rs 2686-2783).  And no table of a directory that is not
\* left stays connecting.
ListingCatchesUp ==
  /\ <>[](phase = "live" /\ feed.watch => rows = Listing(feed.dir))
  /\ \A d \in Dirs :
       phase = "connecting" /\ location.path = d
         ~> phase # "connecting" \/ location.path # d

\* When the trash no longer changes, a live trash view soon shows exactly
\* what is in it, although a change made while the stream starts is announced
\* to nobody (server.rs 2633-2684, 3915).
TrashCatchesUp ==
  /\ <>[](trashPhase = "live" => items = trash)
  /\ trashPhase = "connecting" ~> trashPhase # "connecting"

\* Once the listing has caught up, an unmarked text is of the file's size and
\* time: whatever order the reads, the calls and the answer of a save, writes by
\* others in between and the listings come in, a newer version is read, and
\* none that a save has measured is taken for the one it wrote
\* (text/index.tsx 75-198, state.tsx 22-25, macos/src/fs.rs 48-80).
UnmarkedIsCurrent ==
  /\ viewer.phase = "ready" /\ ~dirty
  /\ \A s \in Slots : saves[s] = NoSave
  /\ Key(location, rows) = Current
  => viewer.draft = Current

\* The mark tells of the text on show: unsaved text is marked, and no text of
\* the file is shown under the mark.  What was typed is lost whenever the viewer
\* is made anew, by each new row of its file, a move of the tab or a failed
\* session; but the tab then stays marked, and shows no text until the mark
\* is taken away by the answer of a save, even one that the old viewer made
\* (text/index.tsx 75-198, state.tsx 22-25).
MarkIsHonest ==
  viewer.phase = "ready" => (dirty <=> viewer.draft # viewer.saved)
=============================================================================
