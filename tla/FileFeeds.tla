------------------------------ MODULE FileFeeds ------------------------------
(***************************************************************************)
(* The daemon's side of a Files tab: the files of a machine and its trash, *)
(* and the two streams that report them (daemon/host/src/server.rs):       *)
(* stream_directory_subscription watches a directory and lists it again    *)
(* after each batch of events, stream_trash_items_subscription lists the   *)
(* trash at each tick and at each announced change.  A tab has one stream  *)
(* of each kind at most.                                                   *)
(*                                                                         *)
(* A watch is on the directory, not on its path: one that is made again at *)
(* the same path is another directory, which nobody watches.               *)
(*                                                                         *)
(* A version of a file stands for its size and its modification time, in   *)
(* milliseconds: all that an entry tells of it.  Writes that leave both as *)
(* they were (Rewrite) make no other version, though the text may be       *)
(* another.  A size and time that a file had before others do not return.  *)
(***************************************************************************)
EXTENDS Naturals, Sequences

CONSTANTS Dirs,       \* paths of directories
          Names,      \* names of files
          Missing,    \* in place of a directory's files: there is none
          Busy,       \* bound: the directories whose files change
          MaxVersion, \* bound: the changes of the files, the first state's included
          MaxWire     \* bound: the events a stream holds before a write waits

ASSUME FeedsAssumption ==
  /\ Busy \subseteq Dirs
  /\ MaxVersion \in Nat \ {0}
  /\ MaxWire \in Nat \ {0}

VARIABLES
  disk,      \* each directory's files: Missing, or each name's version, 0: none
  version,   \* how often the files have changed
  trash,     \* the files in the trash
  feed,      \* the directory stream: step, dir, rows, watch and unread events
  wire,      \* what it has sent and the client has not read
  trashFeed, \* the trash stream: step, rows, changed (the receiver has news)
  trashWire  \* what it has sent and the client has not read

diskVars == <<disk, version, trash>>
dirVars == <<feed, wire>>
trashVars == <<trashFeed, trashWire>>

Entries == [dir : Dirs, name : Names, version : 1..MaxVersion]
WatchEvents == {"change", "error"}

Snapshot(rows) == [type |-> "snapshot", rows |-> rows]
Patch(removes, upserts) ==
  [type |-> "patch", removes |-> removes, upserts |-> upserts]
Closed == [type |-> "closed"]
Failed == [type |-> "error"]

\* list_directory, for a directory that is there
Listing(d) ==
  {[dir |-> d, name |-> n, version |-> disk[d][n]] :
     n \in {m \in Names : disk[d][m] > 0}}

NamesOf(rows) == {e.name : e \in rows}

\* Mutant: a patch only adds the entries with new names.
AddsOnly(rows, next) ==
  Patch(NamesOf(rows) \ NamesOf(next),
        {e \in next : e.name \notin NamesOf(rows)})

\* directory_patch and trash_items_patch: what turns the rows into the next ones
directory_patch(rows, next) ==
  Patch(NamesOf(rows) \ NamesOf(next), next \ rows)
trash_items_patch(rows, next) == Patch(rows \ next, next \ rows)

NoFeed(d) ==
  [step |-> "off", dir |-> d, rows |-> {}, watch |-> FALSE, events |-> {}]
NoTrashFeed == [step |-> "off", rows |-> {}, changed |-> FALSE]

(***************************************************************************)
(* The machine's files.                                                    *)
(***************************************************************************)
\* Something in directory d changes: a watch on it reports that.
Watched(d) ==
  IF feed.watch /\ feed.dir = d
  THEN feed' = [feed EXCEPT !.events = @ \cup {"change"}]
  ELSE UNCHANGED feed

Changes(d) ==
  d \in Busy /\ version < MaxVersion /\ version' = version + 1

\* A file is written, by a save or by any other program.
Write(d, n) ==
  /\ disk[d] # Missing
  /\ Changes(d)
  /\ disk' = [disk EXCEPT ![d][n] = version']
  /\ Watched(d)

Touch(d, n) == Write(d, n) /\ UNCHANGED <<trash, wire, trashVars>>

\* It is written in the millisecond of the last write, with the same size.
Rewrite(d, n) ==
  /\ d \in Busy
  /\ disk[d] # Missing
  /\ disk[d][n] > 0
  /\ Watched(d)
  /\ UNCHANGED <<diskVars, wire, trashVars>>

RemoveDirectory(d) ==
  /\ disk[d] # Missing
  /\ Changes(d)
  /\ disk' = [disk EXCEPT ![d] = Missing]
  /\ feed' = IF feed.watch /\ feed.dir = d
             THEN [feed EXCEPT !.events = @ \cup {"change"}, !.watch = FALSE]
             ELSE feed
  /\ UNCHANGED <<trash, wire, trashVars>>

MakeDirectory(d) ==
  /\ disk[d] = Missing
  /\ Changes(d)
  /\ disk' = [disk EXCEPT ![d] = [n \in Names |-> 0]]
  /\ UNCHANGED <<trash, dirVars, trashVars>>

\* The watch breaks: its queue overflows, its handle is lost.
WatchFails ==
  /\ feed.watch
  /\ feed' = [feed EXCEPT !.events = @ \cup {"error"}, !.watch = FALSE]
  /\ UNCHANGED <<diskVars, wire, trashVars>>

\* notify_trash_changed: only a receiver that is there sees it.
notify_trash_changed ==
  trashFeed' = IF trashFeed.step \in {"select", "list again"}
               THEN [trashFeed EXCEPT !.changed = TRUE]
               ELSE trashFeed

\* delete_paths with DeleteMode.Trash
delete_paths(d, n) ==
  /\ disk[d] # Missing
  /\ disk[d][n] > 0
  /\ Changes(d)
  /\ disk' = [disk EXCEPT ![d][n] = 0]
  /\ trash' = trash \cup {<<d, n>>}
  /\ Watched(d)
  /\ notify_trash_changed
  /\ UNCHANGED <<wire, trashWire>>

\* restore_trash_items: what is put back counts as a new version.
restore_trash_items(d, n) ==
  /\ <<d, n>> \in trash
  /\ disk[d] # Missing
  /\ disk[d][n] = 0
  /\ Changes(d)
  /\ disk' = [disk EXCEPT ![d][n] = version']
  /\ trash' = trash \ {<<d, n>>}
  /\ Watched(d)
  /\ notify_trash_changed
  /\ UNCHANGED <<wire, trashWire>>

purge_trash_items(d, n) ==
  /\ <<d, n>> \in trash
  /\ Changes(d)
  /\ trash' = trash \ {<<d, n>>}
  /\ notify_trash_changed
  /\ UNCHANGED <<disk, dirVars, trashWire>>

(***************************************************************************)
(* stream_directory_subscription                                           *)
(***************************************************************************)
FeedStep(step) == feed.step = step /\ UNCHANGED <<diskVars, trashVars>>

Send(event) == Len(wire) < MaxWire /\ wire' = Append(wire, event)

\* The stream ends with an event, and its watcher is dropped.
EndFeed(event) ==
  /\ Send(event)
  /\ feed' = [NoFeed(feed.dir) EXCEPT !.step = "done"]

\* The first list_directory only asks whether the directory is there.
FeedChecks ==
  /\ FeedStep("check")
  /\ \/ /\ disk[feed.dir] = Missing
        /\ EndFeed(Failed)
     \/ /\ disk[feed.dir] # Missing
        /\ feed' = [feed EXCEPT !.step = "watch"]
        /\ UNCHANGED wire

\* create_subscription_watcher
FeedWatches ==
  /\ FeedStep("watch")
  /\ \/ /\ disk[feed.dir] = Missing
        /\ EndFeed(Failed)
     \/ /\ disk[feed.dir] # Missing
        /\ feed' = [feed EXCEPT !.step = "list", !.watch = TRUE]
        /\ UNCHANGED wire

FeedLists ==
  /\ FeedStep("list")
  /\ \/ /\ disk[feed.dir] = Missing
        /\ EndFeed(Failed)
     \/ /\ disk[feed.dir] # Missing
        /\ Send(Snapshot(Listing(feed.dir)))
        /\ feed' = [feed EXCEPT !.step = "wait", !.rows = Listing(feed.dir)]

\* events.recv: a change starts a batch, an error ends the stream.
FeedReceives ==
  /\ FeedStep("wait")
  /\ \/ /\ "change" \in feed.events
        /\ feed' = [feed EXCEPT !.step = "drain", !.events = @ \ {"change"}]
        /\ UNCHANGED wire
     \/ /\ "error" \in feed.events
        /\ EndFeed(Closed)

\* After SUBSCRIPTION_DEBOUNCE: what came meanwhile is discarded, errors too.
FeedDrains ==
  /\ FeedStep("drain")
  /\ feed' = [feed EXCEPT !.step = "list again", !.events = {}]
  /\ UNCHANGED wire

FeedListsAgain ==
  /\ FeedStep("list again")
  /\ \/ /\ disk[feed.dir] = Missing
        /\ EndFeed(Closed)
     \/ /\ disk[feed.dir] # Missing
        /\ LET next == Listing(feed.dir)
           IN IF next = feed.rows THEN UNCHANGED wire
              ELSE Send(directory_patch(feed.rows, next))
        /\ feed' = [feed EXCEPT !.step = "wait", !.rows = Listing(feed.dir)]

(***************************************************************************)
(* stream_trash_items_subscription                                         *)
(***************************************************************************)
TrashStep(step) == trashFeed.step = step /\ UNCHANGED <<diskVars, dirVars>>

SendTrash(event) ==
  Len(trashWire) < MaxWire /\ trashWire' = Append(trashWire, event)

TrashLists ==
  /\ TrashStep("list")
  /\ SendTrash(Snapshot(trash))
  /\ trashFeed' = [trashFeed EXCEPT !.step = "subscribe", !.rows = trash]

\* The receiver is made when the snapshot has been sent.
TrashSubscribes ==
  /\ TrashStep("subscribe")
  /\ trashFeed' = [trashFeed EXCEPT !.step = "select"]
  /\ UNCHANGED trashWire

\* Mutant: the trash is only listed when a change is announced.
TicksOnChange ==
  /\ TrashStep("select")
  /\ trashFeed.changed
  /\ trashFeed' = [trashFeed EXCEPT !.step = "list again"]
  /\ UNCHANGED trashWire

\* interval.tick
TrashTicks ==
  /\ TrashStep("select")
  /\ trashFeed' = [trashFeed EXCEPT !.step = "list again"]
  /\ UNCHANGED trashWire

\* trash_events.changed
TrashChanges ==
  /\ TrashStep("select")
  /\ trashFeed.changed
  /\ trashFeed' = [trashFeed EXCEPT !.step = "list again", !.changed = FALSE]
  /\ UNCHANGED trashWire

TrashListsAgain ==
  /\ TrashStep("list again")
  /\ trashFeed' = [trashFeed EXCEPT !.step = "select", !.rows = trash]
  /\ IF trash = trashFeed.rows THEN UNCHANGED trashWire
     ELSE SendTrash(trash_items_patch(trashFeed.rows, trash))

\* trash_items fails, at first or later.
TrashListFails ==
  /\ trashFeed.step \in {"list", "list again"}
  /\ SendTrash(IF trashFeed.step = "list" THEN Failed ELSE Closed)
  /\ trashFeed' = [NoTrashFeed EXCEPT !.step = "done"]
  /\ UNCHANGED <<diskVars, dirVars>>

FeedsNext ==
  \/ \E d \in Dirs, n \in Names :
       \/ Touch(d, n)
       \/ Rewrite(d, n)
       \/ delete_paths(d, n)
       \/ restore_trash_items(d, n)
       \/ purge_trash_items(d, n)
  \/ \E d \in Dirs : RemoveDirectory(d) \/ MakeDirectory(d)
  \/ WatchFails
  \/ FeedChecks \/ FeedWatches \/ FeedLists
  \/ FeedReceives \/ FeedDrains \/ FeedListsAgain
  \/ TrashLists \/ TrashSubscribes \/ TrashTicks \/ TrashChanges
  \/ TrashListsAgain \/ TrashListFails

\* The tasks of the streams run; nobody has to change a file.
DirectorySteps ==
  \/ FeedChecks \/ FeedWatches \/ FeedLists
  \/ FeedReceives \/ FeedDrains \/ FeedListsAgain
TrashSteps == TrashLists \/ TrashSubscribes \/ TrashTicks \/ TrashListsAgain
=============================================================================
