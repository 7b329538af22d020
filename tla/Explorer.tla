------------------------------ MODULE Explorer ------------------------------
(***************************************************************************)
(* The client's side of a Files tab: where the tab is and was, the rows of *)
(* its directory and the items of the trash                                *)
(* (web/src/state/explorer.ts, tool/files/index.tsx, content/trash).       *)
(*                                                                         *)
(* Whenever the directory, the machine's credentials or the refresh count  *)
(* changes, the directory's subscription starts afresh.  The generator of  *)
(* the old one can only return once its pending read has resolved, so one  *)
(* more event of a directory that was left may still reach its loop.       *)
(* The effects of a rendering run before anything else happens.            *)
(***************************************************************************)
EXTENDS FileFeeds

CONSTANTS Parent,     \* each directory's parent: a directory or NoPath
          Home,       \* the daemon's home directory
          NoPath,     \* no path (undefined in the code)
          MaxHistory, \* bound: the locations kept to go back to
          MaxLosses   \* bound: losses of the connection or the pairing

ASSUME ExplorerAssumption ==
  /\ NoPath \notin Dirs
  /\ Parent \in [Dirs -> Dirs \cup {NoPath}]
  /\ Home \in Dirs

VARIABLES
  location,    \* what the tab shows
  history,     \* the locations to go back to
  rows,        \* directoryRowsAtom
  phase,       \* directoryStateAtom's phase
  late,        \* the directories left with an event still to come
  items,       \* the trash view's items
  trashPhase,  \* its phase, "off" when it is not mounted
  view,        \* the tab's filesView: what it was opened on
  homePending, \* the tab is still to go to the home directory
  paired,      \* the machine has credentials
  connected,   \* the daemon's information, and so its instance, is known
  losses       \* the losses so far

navVars == <<location, history>>
tableVars == <<rows, phase, late, items, trashPhase>>
sessionVars == <<paired, connected, losses>>
clientVars == <<navVars, tableVars, view, homePending, sessionVars>>
explorerVars == <<diskVars, dirVars, trashVars, clientVars>>

NoEntry == [dir |-> NoPath, name |-> NoPath, version |-> 0]
Root == [type |-> "root", path |-> NoPath, entry |-> NoEntry]
Trash == [type |-> "trash", path |-> NoPath, entry |-> NoEntry]
Directory(d) == [type |-> "directory", path |-> d, entry |-> NoEntry]
File(e) == [type |-> "file", path |-> e.dir, entry |-> e]
Locations == {Root, Trash} \cup {Directory(d) : d \in Dirs}
               \cup {File(e) : e \in Entries}

\* locationFromPath
locationFromPath(d) == IF d = NoPath THEN Root ELSE Directory(d)

\* The row of the opened file, if there is one
RowOf(loc, shown) ==
  {e \in shown : e.dir = loc.entry.dir /\ e.name = loc.entry.name}

\* openedFileAtom: the row of the opened file, or the entry it was opened as
openedFile(loc, shown) ==
  IF RowOf(loc, shown) = {} THEN loc.entry
  ELSE CHOOSE e \in RowOf(loc, shown) : TRUE

(***************************************************************************)
(* Subscriptions.                                                          *)
(***************************************************************************)
\* explorerDirectoryBunja's start, for the new path, pairing and refresh
start(path, isPaired) ==
  /\ rows' = {}
  /\ phase' = IF path = NoPath \/ ~isPaired THEN "idle" ELSE "connecting"
  /\ feed' = NoFeed(IF path = NoPath THEN feed.dir ELSE path)
  /\ wire' = <<>>
  /\ late' = IF feed.step \in {"off", "done"} THEN late ELSE late \cup {feed.dir}

\* TrashContent's effect: it subscribes when it appears and stops when it goes.
MountTrash(shown) ==
  IF shown
  THEN IF trashPhase # "off" THEN UNCHANGED <<items, trashPhase, trashVars>>
       ELSE /\ items' = {} /\ trashPhase' = "connecting"
            /\ trashFeed' = NoTrashFeed /\ trashWire' = <<>>
  ELSE /\ items' = {} /\ trashPhase' = "off"
       /\ trashFeed' = NoTrashFeed /\ trashWire' = <<>>

\* The tab moves: the directory is subscribed afresh when it is another one.
GoTo(loc, past) ==
  /\ location' = loc
  /\ history' = past
  /\ IF loc.path = location.path
     THEN UNCHANGED <<rows, phase, late, dirVars>>
     ELSE start(loc.path, paired)
  /\ MountTrash(loc = Trash)
  /\ UNCHANGED <<diskVars, view, homePending, sessionVars>>

(***************************************************************************)
(* Navigation.                                                             *)
(***************************************************************************)
navigateTo(loc) ==
  /\ paired
  /\ Len(history) < MaxHistory
  /\ GoTo(loc, Append(history, location))

\* The path bar's parts and a double click on a directory
navigate(d) == navigateTo(locationFromPath(d))

navigateTrash == location = Trash /\ navigateTo(Trash)

goUp ==
  /\ location.type \in {"directory", "file"}
  /\ navigate(IF location.type = "file" THEN location.path
              ELSE Parent[location.path])

goBack ==
  /\ paired
  /\ history # <<>>
  /\ GoTo(history[Len(history)], SubSeq(history, 1, Len(history) - 1))

\* getDaemonEnvironment answers: replaceWithPath, wherever the tab is by now.
HomeArrives ==
  /\ homePending /\ paired /\ connected
  /\ homePending' = FALSE
  /\ location' = Directory(Home)
  /\ IF location.path = Home THEN UNCHANGED <<rows, phase, late, dirVars>>
     ELSE start(Home, paired)
  /\ MountTrash(FALSE)
  /\ UNCHANGED <<diskVars, history, view, sessionVars>>

\* It fails.
HomeFails ==
  /\ homePending /\ paired
  /\ homePending' = FALSE
  /\ UNCHANGED <<diskVars, dirVars, trashVars, navVars, tableVars, view,
                 sessionVars>>

(***************************************************************************)
(* The directory's table.                                                  *)
(***************************************************************************)
Elsewhere == UNCHANGED <<diskVars, navVars, view, homePending, sessionVars>>
TrashStays == UNCHANGED <<trashVars, items, trashPhase>>
DirectoryStays == UNCHANGED <<dirVars, rows, phase, late>>

AwaitsTransport == phase = "connecting" /\ feed.step = "off"

\* webTransport resolves: subscribeDirectory.
OpenDirectory ==
  /\ AwaitsTransport /\ connected
  /\ feed' = [feed EXCEPT !.step = "check"]
  /\ UNCHANGED <<wire, rows, phase, late>>
  /\ TrashStays /\ Elsewhere

OpenDirectoryFails ==
  /\ AwaitsTransport /\ ~connected
  /\ phase' = "error"
  /\ UNCHANGED <<dirVars, rows, late>>
  /\ TrashStays /\ Elsewhere

Patched(shown, event) ==
  {e \in shown : e.name \notin event.removes \cup NamesOf(event.upserts)}
    \cup event.upserts

\* The loop of the current subscription: applyDirectoryEvent, or the catch.
applyDirectoryEvent ==
  /\ wire # <<>>
  /\ wire' = Tail(wire)
  /\ LET event == Head(wire) IN
     \/ /\ event.type = "snapshot"
        /\ rows' = event.rows
        /\ phase' = "live"
     \/ /\ event.type = "patch"
        /\ rows' = Patched(rows, event)
        /\ phase' = "live"
     \/ /\ event.type \in {"closed", "error"}
        /\ phase' = event.type
        /\ UNCHANGED rows
  /\ UNCHANGED <<feed, late>>
  /\ TrashStays /\ Elsewhere

\* Mutant: the loop of a subscription that was stopped applies its event.
MutantLateEvent(d) ==
  /\ d \in late /\ disk[d] # Missing
  /\ late' = late \ {d}
  /\ rows' = Patched(rows, Patch({}, Listing(d)))
  /\ UNCHANGED <<dirVars, phase>>
  /\ TrashStays /\ Elsewhere

\* The loop of a subscription that was stopped gets an event: cancelled.
LateEvent(d) ==
  /\ d \in late
  /\ late' = late \ {d}
  /\ UNCHANGED <<dirVars, rows, phase>>
  /\ TrashStays /\ Elsewhere

(***************************************************************************)
(* The trash view.                                                         *)
(***************************************************************************)
TrashAwaitsTransport == trashPhase = "connecting" /\ trashFeed.step = "off"

OpenTrash ==
  /\ TrashAwaitsTransport /\ connected
  /\ trashFeed' = [trashFeed EXCEPT !.step = "list"]
  /\ UNCHANGED <<trashWire, items, trashPhase>>
  /\ DirectoryStays /\ Elsewhere

OpenTrashFails ==
  /\ TrashAwaitsTransport /\ ~connected
  /\ trashPhase' = "error"
  /\ UNCHANGED <<trashVars, items>>
  /\ DirectoryStays /\ Elsewhere

applyTrashItemsEvent ==
  /\ trashWire # <<>>
  /\ trashWire' = Tail(trashWire)
  /\ LET event == Head(trashWire) IN
     \/ /\ event.type = "snapshot"
        /\ items' = event.rows
        /\ trashPhase' = "live"
     \/ /\ event.type = "patch"
        /\ items' = (items \ event.removes) \cup event.upserts
        /\ trashPhase' = "live"
     \/ /\ event.type \in {"closed", "error"}
        /\ trashPhase' = event.type
        /\ UNCHANGED items
  /\ UNCHANGED trashFeed
  /\ DirectoryStays /\ Elsewhere

\* mutateTrashItem fails: the error takes the place of the items.
MutateTrashItemFails ==
  /\ items # {} /\ trashPhase # "error"
  /\ trashPhase' = "error"
  /\ UNCHANGED <<trashVars, items>>
  /\ DirectoryStays /\ Elsewhere

(***************************************************************************)
(* The session and the tab.                                                *)
(***************************************************************************)
\* A loop that waits for its stream's next event
Reading(shown, stream) ==
  shown = "live" \/ (shown = "connecting" /\ stream.step # "off")

\* The transport closes: every stream's loop ends with an error.
ConnectionLost ==
  /\ connected /\ losses < MaxLosses
  /\ connected' = FALSE
  /\ losses' = losses + 1
  /\ phase' = IF Reading(phase, feed) THEN "error" ELSE phase
  /\ feed' = NoFeed(feed.dir) /\ wire' = <<>> /\ late' = {}
  /\ trashPhase' = IF Reading(trashPhase, trashFeed) THEN "error" ELSE trashPhase
  /\ trashFeed' = NoTrashFeed /\ trashWire' = <<>>
  /\ UNCHANGED <<diskVars, navVars, rows, items, view, homePending, paired>>

\* The daemon's instance is known again: the tab refreshes its directory.
Reconnected ==
  /\ ~connected /\ paired
  /\ connected' = TRUE
  /\ start(location.path, paired)
  /\ TrashStays
  /\ UNCHANGED <<diskVars, navVars, view, homePending, paired, losses>>

\* handleInvalidCredentials, in this tab's stream or in any other tool: the
\* tab asks for pairing in place of its content.
handleInvalidCredentials ==
  /\ paired /\ connected /\ losses < MaxLosses
  /\ paired' = FALSE /\ connected' = FALSE
  /\ losses' = losses + 1
  /\ rows' = {}
  /\ phase' = IF Reading(phase, feed) THEN "error" ELSE "idle"
  /\ feed' = NoFeed(feed.dir) /\ wire' = <<>> /\ late' = {}
  /\ MountTrash(FALSE)
  /\ UNCHANGED <<diskVars, navVars, view, homePending>>

\* The machine is paired again: new credentials, a new subscription.
PairedAgain ==
  /\ ~paired
  /\ paired' = TRUE /\ connected' = TRUE
  /\ start(location.path, TRUE)
  /\ MountTrash(location = Trash)
  /\ UNCHANGED <<diskVars, navVars, view, homePending, losses>>

\* The tab is mounted anew, in another pane or by a reload of the page, from
\* its stored navigation; it goes where it was opened on again.
Remounted ==
  /\ losses < MaxLosses
  /\ losses' = losses + 1
  /\ location' = IF view = "trash" THEN Trash ELSE location
  /\ homePending' = (view = "home")
  /\ start(location'.path, paired)
  /\ IF paired /\ location' = Trash
     THEN /\ items' = {} /\ trashPhase' = "connecting"
          /\ trashFeed' = NoTrashFeed /\ trashWire' = <<>>
     ELSE MountTrash(FALSE)
  /\ UNCHANGED <<diskVars, history, view, paired, connected>>

(***************************************************************************)
(* The tab opens on a file, on the home directory or on the trash.         *)
(***************************************************************************)
FirstEntry(n) == [dir |-> Home, name |-> n, version |-> 1]

ExplorerInit ==
  /\ disk = [d \in Dirs |-> [n \in Names |-> 1]]
  /\ version = 1 /\ trash = {}
  /\ \/ view = "browser" /\ location \in {File(FirstEntry(n)) : n \in Names}
     \/ view = "home" /\ location = Root
     \/ view = "trash" /\ location = Trash
  /\ history = <<>>
  /\ rows = {} /\ late = {}
  /\ phase = IF location.path = NoPath THEN "idle" ELSE "connecting"
  /\ feed = NoFeed(Home) /\ wire = <<>>
  /\ items = {} /\ trashFeed = NoTrashFeed /\ trashWire = <<>>
  /\ trashPhase = IF location = Trash THEN "connecting" ELSE "off"
  /\ homePending = (view = "home")
  /\ paired = TRUE /\ connected = TRUE /\ losses = 0
=============================================================================
