--------------------------- MODULE FilesTab_proofs ---------------------------
(***************************************************************************)
(* Proofs about a Files tab for any directories, names, changes by others  *)
(* and losses: the rows shown are of the tab's directory, and, for a user  *)
(* who waits for a save to end, the mark tells of the text on show and     *)
(* unmarked text is the file's.                                            *)
(***************************************************************************)
EXTENDS FilesTab, TLAPS

-----------------------------------------------------------------------------
(* Types *)

AnyEntry == [dir : Dirs, name : Names, version : Nat]

AnyEvent ==
  [type : {"snapshot"}, rows : SUBSET AnyEntry]
    \cup [type : {"patch"}, removes : SUBSET Names, upserts : SUBSET AnyEntry]
    \cup [type : {"closed", "error"}]

AnyLocation ==
  {Root, Trash} \cup {Directory(d) : d \in Dirs} \cup {File(e) : e \in AnyEntry}

FeedType ==
  [step : {"off", "done", "check", "watch", "list", "wait", "drain", "list again"},
   dir : Dirs, rows : SUBSET AnyEntry, watch : BOOLEAN, events : SUBSET WatchEvents]

TypeOK ==
  /\ disk \in [Dirs -> [Names -> Nat] \cup {Missing}]
  /\ version \in Nat
  /\ feed \in FeedType
  /\ wire \in Seq(AnyEvent)
  /\ location \in AnyLocation
  /\ history \in Seq(AnyLocation)
  /\ rows \in SUBSET AnyEntry

-----------------------------------------------------------------------------
(* The invariant of the explorer and its feeds *)

\* The version is not newer than the file is, if it is there.
NotNewer(d, n, v) ==
  /\ v <= version
  /\ disk[d] # Missing /\ disk[d][n] > 0 => v <= disk[d][n]

Past(e) == e.version >= 1 /\ NotNewer(e.dir, e.name, e.version)

RowsFine(table, d) ==
  /\ \A e \in table : e.dir = d /\ Past(e)
  /\ \A e, f \in table : e.name = f.name => e = f

EventFine(event, d) ==
  /\ event.type = "snapshot" => RowsFine(event.rows, d)
  /\ event.type = "patch" => RowsFine(event.upserts, d)

\* The directory stream, what it has sent, or the wait for it.
Attached ==
  feed.step \notin {"off", "done"} \/ wire # <<>> \/ phase = "connecting"

FeedFine ==
  /\ RowsFine(rows, location.path)
  /\ \A i \in 1 .. Len(wire) : EventFine(wire[i], feed.dir)
  /\ Attached => feed.dir = location.path

DiskFine ==
  \A d \in Dirs, n \in Names : disk[d] # Missing => disk[d][n] <= version

\* The tab shows one file only, the one it was opened on, or none.
FileFine(loc) == loc.type = "file" => loc = File(loc.entry) /\ Past(loc.entry)
SameFile(loc, other) == loc.type = "file" /\ other.type = "file" => loc = other

LocationsFine ==
  /\ FileFine(location)
  /\ \A i \in 1 .. Len(history) :
       FileFine(history[i]) /\ SameFile(location, history[i])
  /\ \A i, j \in 1 .. Len(history) : SameFile(history[i], history[j])

ExplorerInv == TypeOK /\ DiskFine /\ FeedFine /\ LocationsFine

\* The files only get newer.
Ages ==
  \A d \in Dirs, n \in Names, v \in Nat : NotNewer(d, n, v) => NotNewer(d, n, v)'

-----------------------------------------------------------------------------
(* The machine's files *)

LEMMA EventTypes ==
  ASSUME NEW event \in AnyEvent
  PROVE  /\ event.type = "snapshot" => event.rows \in SUBSET AnyEntry
         /\ event.type = "patch" => event.upserts \in SUBSET AnyEntry
  BY DEF AnyEvent

\* An entry that was not newer than its file still is not.
LEMMA PastAges ==
  ASSUME Ages, NEW e \in AnyEntry, Past(e)
  PROVE  Past(e)'
<1>1. e.dir \in Dirs /\ e.name \in Names /\ e.version \in Nat
  BY DEF AnyEntry
<1> QED BY <1>1 DEF Past, Ages

\* So do rows ...
LEMMA RowsAge ==
  ASSUME Ages, NEW table \in SUBSET AnyEntry, NEW d, RowsFine(table, d)
  PROVE  RowsFine(table, d)'
  BY PastAges DEF RowsFine

\* ... and events stay fine while files change.
LEMMA EventAges ==
  ASSUME Ages, NEW event \in AnyEvent, NEW d, EventFine(event, d)
  PROVE  EventFine(event, d)'
  BY RowsAge, EventTypes DEF EventFine

\* A step that leaves the files alone is a change of this kind.
LEMMA SameAges ==
  ASSUME UNCHANGED <<disk, version>>
  PROVE  Ages /\ (DiskFine => DiskFine')
  BY DEF Ages, NotNewer, DiskFine

\* Writing or removing a file gives it a newer version, or none.
LEMMA WrittenAges ==
  ASSUME TypeOK, DiskFine, NEW d \in Dirs, NEW n \in Names, disk[d] # Missing,
         version' = version + 1, NEW x \in {0, version'},
         disk' = [disk EXCEPT ![d][n] = x]
  PROVE  /\ disk' \in [Dirs -> [Names -> Nat] \cup {Missing}] /\ version' \in Nat
         /\ DiskFine' /\ Ages
<1>1. version \in Nat /\ version' \in Nat /\ x \in Nat /\ x <= version'
      /\ disk[d] \in [Names -> Nat]
  BY DEF TypeOK
<1>2. /\ \A c \in Dirs : c # d => disk'[c] = disk[c]
      /\ disk'[d] \in [Names -> Nat]
      /\ disk'[d][n] = x
      /\ \A m \in Names : m # n => disk'[d][m] = disk[d][m]
      /\ disk' \in [Dirs -> [Names -> Nat] \cup {Missing}]
  BY <1>1 DEF TypeOK
<1>3. DiskFine'
  <2> SUFFICES ASSUME NEW c \in Dirs, NEW m \in Names, disk'[c] # Missing
               PROVE  disk'[c][m] <= version'
    BY DEF DiskFine
  <2>1. CASE c = d /\ m = n
    BY <1>1, <1>2, <2>1
  <2>2. CASE c = d /\ m # n
    <3>1. disk[d][m] <= version /\ disk[d][m] \in Nat
      BY <1>1 DEF DiskFine
    <3> QED BY <1>1, <1>2, <2>2, <3>1
  <2>3. CASE c # d
    <3>1. disk[c] # Missing /\ disk[c] \in [Names -> Nat]
      BY <1>2, <2>3 DEF TypeOK
    <3>2. disk[c][m] <= version /\ disk[c][m] \in Nat
      BY <3>1 DEF DiskFine
    <3> QED BY <1>1, <1>2, <2>3, <3>2
  <2> QED BY <2>1, <2>2, <2>3
<1>4. Ages
  <2> SUFFICES ASSUME NEW c \in Dirs, NEW m \in Names, NEW v \in Nat, NotNewer(c, m, v)
               PROVE  NotNewer(c, m, v)'
    BY DEF Ages
  <2>1. v <= version
    BY DEF NotNewer
  <2>2. CASE c = d /\ m = n
    BY <1>1, <1>2, <2>1, <2>2 DEF NotNewer
  <2>3. CASE c = d /\ m # n
    <3>1. disk'[c][m] = disk[c][m] /\ disk[c] # Missing
      BY <1>2, <2>3
    <3> QED BY <1>1, <2>1, <3>1 DEF NotNewer
  <2>4. CASE c # d
    BY <1>1, <1>2, <2>1, <2>4 DEF NotNewer
  <2> QED BY <2>2, <2>3, <2>4
<1> QED BY <1>1, <1>2, <1>3, <1>4

\* Removing or making a directory leaves no file that is older.
LEMMA DirectoryAges ==
  ASSUME TypeOK, DiskFine, NEW d \in Dirs, version' = version + 1,
         NEW x \in {Missing, [n \in Names |-> 0]}, disk' = [disk EXCEPT ![d] = x]
  PROVE  /\ disk' \in [Dirs -> [Names -> Nat] \cup {Missing}] /\ version' \in Nat
         /\ DiskFine' /\ Ages
<1>1. version \in Nat /\ version' \in Nat /\ x \in [Names -> Nat] \cup {Missing}
  BY DEF TypeOK
<1>2. /\ disk' \in [Dirs -> [Names -> Nat] \cup {Missing}] /\ disk'[d] = x
      /\ \A c \in Dirs : c # d => disk'[c] = disk[c]
      /\ disk'[d] # Missing => \A n \in Names : disk'[d][n] = 0
  BY <1>1 DEF TypeOK
<1>3. DiskFine'
  <2> SUFFICES ASSUME NEW c \in Dirs, NEW m \in Names, disk'[c] # Missing
               PROVE  disk'[c][m] <= version'
    BY DEF DiskFine
  <2>1. CASE c = d
    BY <1>1, <1>2, <2>1
  <2>2. CASE c # d
    <3>1. disk[c] # Missing /\ disk[c] \in [Names -> Nat]
      BY <1>2, <2>2 DEF TypeOK
    <3>2. disk[c][m] <= version /\ disk[c][m] \in Nat
      BY <3>1 DEF DiskFine
    <3> QED BY <1>1, <1>2, <2>2, <3>2
  <2> QED BY <2>1, <2>2
<1>4. Ages
  <2> SUFFICES ASSUME NEW c \in Dirs, NEW m \in Names, NEW v \in Nat, NotNewer(c, m, v)
               PROVE  NotNewer(c, m, v)'
    BY DEF Ages
  <2>1. v <= version
    BY DEF NotNewer
  <2>2. CASE c = d
    BY <1>1, <1>2, <2>1, <2>2 DEF NotNewer
  <2>3. CASE c # d
    BY <1>1, <1>2, <2>1, <2>3 DEF NotNewer
  <2> QED BY <2>2, <2>3
<1> QED BY <1>1, <1>2, <1>3, <1>4

\* A listing is fine rows of its directory.
LEMMA ListingFine ==
  ASSUME TypeOK, DiskFine, NEW d \in Dirs, disk[d] # Missing
  PROVE  Listing(d) \in SUBSET AnyEntry /\ RowsFine(Listing(d), d)
<1>1. disk[d] \in [Names -> Nat] /\ version \in Nat
  BY DEF TypeOK
<1>2. ASSUME NEW e \in Listing(d)
      PROVE  e \in AnyEntry /\ e.dir = d /\ e.version = disk[d][e.name] /\ Past(e)
             /\ e = [dir |-> d, name |-> e.name, version |-> disk[d][e.name]]
  <2>1. PICK n \in Names : disk[d][n] > 0 /\ e = [dir |-> d, name |-> n, version |-> disk[d][n]]
    BY <1>2 DEF Listing
  <2>2. disk[d][n] \in Nat /\ disk[d][n] <= version
    BY <1>1 DEF DiskFine
  <2> QED BY <1>1, <2>1, <2>2 DEF AnyEntry, Past, NotNewer
<1>3. \A e, f \in Listing(d) : e.name = f.name => e = f
  BY <1>2
<1> QED BY <1>2, <1>3 DEF RowsFine

-----------------------------------------------------------------------------
(* Locations *)

LEMMA LocationFacts ==
  ASSUME NEW loc \in AnyLocation
  PROVE  /\ loc.type \in {"root", "trash"} => loc.path = NoPath
         /\ loc.path \in Dirs \cup {NoPath}
         /\ loc.path = NoPath => loc.type \in {"root", "trash"}
         /\ loc.type = "file" => loc.entry \in AnyEntry /\ loc.path = loc.entry.dir
                                 /\ loc = File(loc.entry) /\ loc.path \in Dirs
<1>1. CASE loc \in {Root, Trash}
  BY <1>1 DEF Root, Trash
<1>2. CASE \E d \in Dirs : loc = Directory(d)
  BY <1>2, ExplorerAssumption DEF Directory
<1>3. CASE \E e \in AnyEntry : loc = File(e)
  BY <1>3, ExplorerAssumption DEF File, AnyEntry
<1> QED BY <1>1, <1>2, <1>3 DEF AnyLocation

\* The places of the menu are locations without a file.
LEMMA PlacesFine ==
  ASSUME NEW loc \in {Root, Trash} \cup {Directory(d) : d \in Dirs}
  PROVE  loc \in AnyLocation /\ loc.type # "file"
  BY DEF AnyLocation, Root, Trash, Directory

\* What the locations are stays so while the files get newer.
LEMMA LocationsAge ==
  ASSUME TypeOK, LocationsFine, Ages, UNCHANGED <<location, history>>
  PROVE  LocationsFine'
<1>1. ASSUME NEW loc \in AnyLocation, FileFine(loc)
      PROVE  FileFine(loc)'
  BY <1>1, LocationFacts, PastAges DEF FileFine
<1>2. location \in AnyLocation /\ \A i \in 1 .. Len(history) : history[i] \in AnyLocation
  BY DEF TypeOK
<1>3. FileFine(location)'
  BY <1>1, <1>2 DEF LocationsFine, FileFine
<1>4. \A i \in 1 .. Len(history) : FileFine(history[i])'
  BY <1>1, <1>2 DEF LocationsFine, FileFine
<1> QED BY <1>3, <1>4 DEF LocationsFine, SameFile, FileFine

-----------------------------------------------------------------------------
(* Steps of the machine and of the streams *)

\* Steps that leave the client alone, and at most send a fine event.
LEMMA FeedsKeep ==
  ASSUME ExplorerInv, Ages, DiskFine',
         disk' \in [Dirs -> [Names -> Nat] \cup {Missing}], version' \in Nat,
         feed' \in FeedType, feed'.dir = feed.dir,
         feed'.step \notin {"off", "done"} => feed.step \notin {"off", "done"},
         \/ wire' = wire
         \/ \E event \in AnyEvent : wire' = Append(wire, event)
              /\ EventFine(event, feed.dir)' /\ feed.step \notin {"off", "done"},
         UNCHANGED <<location, history, rows, phase>>
  PROVE  ExplorerInv'
<1>1. /\ wire \in Seq(AnyEvent) /\ rows \in SUBSET AnyEntry
      /\ TypeOK /\ LocationsFine /\ FeedFine
  BY DEF ExplorerInv, TypeOK
<1>2. RowsFine(rows, location.path)'
  BY <1>1, RowsAge DEF FeedFine, RowsFine
<1>3. \A i \in 1 .. Len(wire) : wire[i] \in AnyEvent /\ EventFine(wire[i], feed.dir)'
  <2> SUFFICES ASSUME NEW i \in 1 .. Len(wire)
               PROVE  wire[i] \in AnyEvent /\ EventFine(wire[i], feed.dir)'
    OBVIOUS
  <2>1. wire[i] \in AnyEvent /\ EventFine(wire[i], feed.dir)
    BY <1>1 DEF FeedFine
  <2>2. PICK event : event = wire[i]
    OBVIOUS
  <2>3. PICK d : d = feed.dir
    OBVIOUS
  <2>4. EventFine(event, d)'
    BY <2>1, <2>2, <2>3, EventAges
  <2> QED BY <2>1, <2>2, <2>3, <2>4
<1>4. LocationsFine'
  BY <1>1, LocationsAge
<1>5. CASE wire' = wire
  <2>1. Attached' => Attached
    BY <1>5 DEF Attached
  <2>2. FeedFine'
    BY <1>1, <1>2, <1>3, <1>5, <2>1 DEF FeedFine
  <2> QED BY <1>1, <1>4, <1>5, <2>2 DEF ExplorerInv, TypeOK
<1>6. ASSUME NEW event \in AnyEvent, wire' = Append(wire, event),
             EventFine(event, feed.dir)', feed.step \notin {"off", "done"}
      PROVE  ExplorerInv'
  <2>1. /\ wire' \in Seq(AnyEvent) /\ Len(wire') = Len(wire) + 1 /\ Len(wire) \in Nat
        /\ \A i \in 1 .. Len(wire) : wire'[i] = wire[i]
        /\ wire'[Len(wire) + 1] = event
    BY <1>1, <1>6
  <2>2. \A i \in 1 .. Len(wire') : i \in 1 .. Len(wire) \/ i = Len(wire) + 1
    BY <2>1
  <2>3. feed.dir = location.path
    BY <1>1, <1>6 DEF FeedFine, Attached
  <2>4. FeedFine'
    BY <1>1, <1>2, <1>3, <1>6, <2>1, <2>2, <2>3 DEF FeedFine
  <2> QED BY <1>1, <1>4, <2>1, <2>4 DEF ExplorerInv, TypeOK
<1> QED BY <1>5, <1>6

\* The stream's record, and the record of no stream, are typed.
LEMMA FeedRecord ==
  ASSUME TypeOK
  PROVE  /\ feed \in FeedType /\ feed.dir \in Dirs
         /\ \A dir \in Dirs : NoFeed(dir) \in FeedType /\ NoFeed(dir).dir = dir
                              /\ NoFeed(dir).step = "off"
  BY DEF TypeOK, FeedType, NoFeed, WatchEvents

\* An event of the watcher only adds to what the stream has yet to handle.
LEMMA WatchedFine ==
  ASSUME TypeOK, NEW d, Watched(d)
  PROVE  feed' \in FeedType /\ feed'.dir = feed.dir /\ feed'.step = feed.step
<1>1. CASE feed.watch /\ feed.dir = d
  <2>1. feed' = [feed EXCEPT !.events = @ \cup {"change"}]
    BY <1>1 DEF Watched
  <2> QED BY <2>1, FeedRecord DEF FeedType, WatchEvents
<1>2. CASE ~(feed.watch /\ feed.dir = d)
  <2>1. feed' = feed
    BY <1>2 DEF Watched
  <2> QED BY <2>1, FeedRecord
<1> QED BY <1>1, <1>2

\* What the daemon or another program does to the files
LEMMA FilesKeep ==
  ASSUME ExplorerInv, NEW d \in Dirs, NEW n \in Names,
         \/ Touch(d, n) \/ Rewrite(d, n) \/ delete_paths(d, n)
         \/ restore_trash_items(d, n) \/ purge_trash_items(d, n),
         UNCHANGED <<location, history, rows, phase>>
  PROVE  ExplorerInv' /\ Ages
<1>1. TypeOK /\ DiskFine /\ version \in Nat /\ disk \in [Dirs -> [Names -> Nat] \cup {Missing}]
  BY DEF ExplorerInv, TypeOK
<1>2. CASE Touch(d, n)
  <2>1. /\ disk[d] # Missing /\ version' = version + 1 /\ Watched(d) /\ UNCHANGED wire
        /\ disk' = [disk EXCEPT ![d][n] = version']
    BY <1>2 DEF Touch, Write, Changes
  <2> QED BY <1>1, <2>1, WrittenAges, WatchedFine, FeedsKeep
<1>3. CASE delete_paths(d, n)
  <2>1. /\ disk[d] # Missing /\ version' = version + 1 /\ Watched(d) /\ UNCHANGED wire
        /\ disk' = [disk EXCEPT ![d][n] = 0]
    BY <1>3 DEF delete_paths, Changes
  <2> QED BY <1>1, <2>1, WrittenAges, WatchedFine, FeedsKeep
<1>4. CASE restore_trash_items(d, n)
  <2>1. /\ disk[d] # Missing /\ version' = version + 1 /\ Watched(d) /\ UNCHANGED wire
        /\ disk' = [disk EXCEPT ![d][n] = version']
    BY <1>4 DEF restore_trash_items, Changes
  <2> QED BY <1>1, <2>1, WrittenAges, WatchedFine, FeedsKeep
<1>5. CASE purge_trash_items(d, n)
  <2>1. version' = version + 1 /\ UNCHANGED <<disk, feed, wire>>
    BY <1>5 DEF purge_trash_items, Changes, dirVars
  <2>2. version' \in Nat /\ version <= version'
    BY <1>1, <2>1
  <2>3. DiskFine'
    <3> SUFFICES ASSUME NEW c \in Dirs, NEW m \in Names, disk[c] # Missing
                 PROVE  disk[c][m] <= version'
      BY <2>1 DEF DiskFine
    <3>1. disk[c][m] <= version /\ disk[c][m] \in Nat
      BY <1>1 DEF DiskFine
    <3> QED BY <1>1, <2>2, <3>1
  <2>4. Ages
    BY <1>1, <2>1 DEF Ages, NotNewer
  <2> QED BY <1>1, <2>1, <2>2, <2>3, <2>4, FeedRecord, FeedsKeep
<1>6. CASE Rewrite(d, n)
  <2>1. UNCHANGED <<disk, version, wire>> /\ Watched(d)
    BY <1>6 DEF Rewrite, diskVars
  <2> QED BY <1>1, <2>1, SameAges, WatchedFine, FeedsKeep
<1> QED BY <1>2, <1>3, <1>4, <1>5, <1>6

\* A directory that disappears or comes back ends its stream's watch.
LEMMA DirectoryKeeps ==
  ASSUME ExplorerInv, NEW d \in Dirs, RemoveDirectory(d) \/ MakeDirectory(d),
         UNCHANGED <<location, history, rows, phase>>
  PROVE  ExplorerInv' /\ Ages
<1>1. TypeOK /\ DiskFine
  BY DEF ExplorerInv
<1>2. CASE RemoveDirectory(d)
  <2>1. /\ version' = version + 1 /\ UNCHANGED wire
        /\ disk' = [disk EXCEPT ![d] = Missing]
    BY <1>2 DEF RemoveDirectory, Changes
  <2>2. feed' \in FeedType /\ feed'.dir = feed.dir /\ feed'.step = feed.step
    <3>1. CASE feed.watch /\ feed.dir = d
      <4>1. feed' = [feed EXCEPT !.events = @ \cup {"change"}, !.watch = FALSE]
        BY <1>2, <3>1 DEF RemoveDirectory
      <4> QED BY <1>1, <4>1, FeedRecord DEF FeedType, WatchEvents
    <3>2. CASE ~(feed.watch /\ feed.dir = d)
      <4>1. feed' = feed
        BY <1>2, <3>2 DEF RemoveDirectory
      <4> QED BY <1>1, <4>1, FeedRecord
    <3> QED BY <3>1, <3>2
  <2> QED BY <1>1, <2>1, <2>2, DirectoryAges, FeedsKeep
<1>3. CASE MakeDirectory(d)
  <2>1. /\ version' = version + 1 /\ UNCHANGED <<feed, wire>>
        /\ disk' = [disk EXCEPT ![d] = [m \in Names |-> 0]]
    BY <1>3 DEF MakeDirectory, Changes, dirVars
  <2> QED BY <1>1, <2>1, DirectoryAges, FeedRecord, FeedsKeep
<1> QED BY <1>2, <1>3

\* A watcher that fails leaves the client's state alone.
LEMMA WatchKeeps ==
  ASSUME ExplorerInv, WatchFails, UNCHANGED <<location, history, rows, phase>>
  PROVE  ExplorerInv' /\ Ages
<1>1. TypeOK /\ DiskFine
  BY DEF ExplorerInv
<1>2. /\ UNCHANGED <<disk, version, wire>>
      /\ feed' = [feed EXCEPT !.events = @ \cup {"error"}, !.watch = FALSE]
  BY DEF WatchFails, diskVars
<1>3. feed' \in FeedType /\ feed'.dir = feed.dir /\ feed'.step = feed.step
  BY <1>1, <1>2, FeedRecord DEF FeedType, WatchEvents
<1> QED BY <1>1, <1>2, <1>3, SameAges, FeedsKeep DEF TypeOK

\* An event that ends the stream says nothing of rows.
LEMMA EndFine ==
  ASSUME ExplorerInv, NEW event \in {Closed, Failed}, EndFeed(event),
         feed.step \notin {"off", "done"},
         UNCHANGED <<disk, version, location, history, rows, phase>>
  PROVE  ExplorerInv'
<1>1. TypeOK /\ DiskFine
  BY DEF ExplorerInv
<1>2. event \in AnyEvent /\ event.type \in {"closed", "error"}
  BY DEF Closed, Failed, AnyEvent
<1>3. EventFine(event, feed.dir)'
  BY <1>2 DEF EventFine
<1>4. feed' \in FeedType /\ feed'.dir = feed.dir /\ feed'.step = "done"
  BY <1>1, FeedRecord DEF EndFeed, NoFeed, FeedType
<1>5. wire' = Append(wire, event)
  BY DEF EndFeed, Send
<1> QED BY <1>1, <1>2, <1>3, <1>4, <1>5, SameAges, FeedsKeep DEF TypeOK

\* What a listing turns into, a snapshot or a patch, is fine.
LEMMA SentFine ==
  ASSUME ExplorerInv, UNCHANGED <<disk, version>>, disk[feed.dir] # Missing,
         feed'.dir = feed.dir,
         NEW event \in {Snapshot(Listing(feed.dir)),
                       directory_patch(feed.rows, Listing(feed.dir))}
  PROVE  event \in AnyEvent /\ EventFine(event, feed.dir)'
<1>1. TypeOK /\ DiskFine /\ feed.dir \in Dirs /\ feed.rows \in SUBSET AnyEntry
  BY FeedRecord DEF ExplorerInv, FeedType
<1>2. PICK d : d = feed.dir
  OBVIOUS
<1>3. PICK next : next = Listing(d)
  OBVIOUS
<1>4. next \in SUBSET AnyEntry /\ RowsFine(next, d)
  BY <1>1, <1>2, <1>3, ListingFine
<1>5. Ages
  BY SameAges
<1>6. PICK upserts : upserts = next \ feed.rows
  OBVIOUS
<1>7. PICK removes : removes = NamesOf(feed.rows) \ NamesOf(next)
  OBVIOUS
<1>8. upserts \in SUBSET AnyEntry /\ RowsFine(upserts, d) /\ removes \in SUBSET Names
  BY <1>1, <1>4, <1>6, <1>7 DEF RowsFine, NamesOf, AnyEntry
<1>9. RowsFine(next, d)' /\ RowsFine(upserts, d)'
  BY <1>4, <1>5, <1>8, RowsAge
<1>10. CASE event = Snapshot(next)
  <2>1. event \in AnyEvent /\ EventFine(event, d)'
    BY <1>4, <1>9, <1>10 DEF Snapshot, AnyEvent, EventFine
  <2> QED BY <1>2, <2>1
<1>11. CASE event = Patch(removes, upserts)
  <2>1. event \in AnyEvent /\ EventFine(event, d)'
    BY <1>8, <1>9, <1>11 DEF Patch, AnyEvent, EventFine
  <2> QED BY <1>2, <2>1
<1> QED BY <1>2, <1>3, <1>6, <1>7, <1>10, <1>11 DEF directory_patch

\* A stream's own steps (server.rs) send only fine events.
LEMMA StreamKeeps ==
  ASSUME ExplorerInv,
         \/ FeedChecks \/ FeedWatches \/ FeedLists
         \/ FeedReceives \/ FeedDrains \/ FeedListsAgain,
         UNCHANGED <<location, history, rows, phase>>
  PROVE  ExplorerInv'
<1>1. /\ TypeOK /\ DiskFine /\ feed \in FeedType /\ feed.dir \in Dirs
      /\ feed.step \notin {"off", "done"} /\ UNCHANGED <<disk, version>>
      /\ wire \in Seq(AnyEvent)
  BY FeedRecord DEF ExplorerInv, TypeOK, FeedChecks, FeedWatches, FeedLists, FeedReceives,
     FeedDrains, FeedListsAgain, FeedStep, diskVars
<1>2. /\ Ages /\ DiskFine' /\ version' \in Nat
      /\ disk' \in [Dirs -> [Names -> Nat] \cup {Missing}]
  BY <1>1, SameAges DEF TypeOK
<1>3. CASE \E event \in {Closed, Failed} : EndFeed(event)
  BY <1>1, <1>3, EndFine
<1>4. ASSUME feed' \in FeedType, feed'.dir = feed.dir, UNCHANGED wire
      PROVE  ExplorerInv'
  BY <1>1, <1>2, <1>4, FeedsKeep
<1>5. ASSUME feed' \in FeedType, feed'.dir = feed.dir, disk[feed.dir] # Missing,
             NEW event \in {Snapshot(Listing(feed.dir)),
                            directory_patch(feed.rows, Listing(feed.dir))},
             Send(event)
      PROVE  ExplorerInv'
  <2>1. event \in AnyEvent /\ EventFine(event, feed.dir)'
    BY <1>1, <1>5, SentFine
  <2> QED BY <1>1, <1>2, <1>5, <2>1, FeedsKeep DEF Send
<1>6. disk[feed.dir] # Missing => Listing(feed.dir) \in SUBSET AnyEntry
  BY <1>1, ListingFine
<1>7. CASE FeedChecks
  <2>1. CASE EndFeed(Failed)
    BY <1>3, <2>1
  <2>2. CASE feed' = [feed EXCEPT !.step = "watch"] /\ UNCHANGED wire
    <3>1. feed' \in FeedType /\ feed'.dir = feed.dir
      BY <1>1, <2>2 DEF FeedType
    <3> QED BY <1>4, <2>2, <3>1
  <2> QED BY <1>7, <2>1, <2>2 DEF FeedChecks
<1>8. CASE FeedWatches
  <2>1. CASE EndFeed(Failed)
    BY <1>3, <2>1
  <2>2. CASE feed' = [feed EXCEPT !.step = "list", !.watch = TRUE] /\ UNCHANGED wire
    <3>1. feed' \in FeedType /\ feed'.dir = feed.dir
      BY <1>1, <2>2 DEF FeedType
    <3> QED BY <1>4, <2>2, <3>1
  <2> QED BY <1>8, <2>1, <2>2 DEF FeedWatches
<1>9. CASE FeedLists
  <2>1. CASE EndFeed(Failed)
    BY <1>3, <2>1
  <2>2. CASE /\ disk[feed.dir] # Missing
             /\ Send(Snapshot(Listing(feed.dir)))
             /\ feed' = [feed EXCEPT !.step = "wait", !.rows = Listing(feed.dir)]
    <3>1. feed' \in FeedType /\ feed'.dir = feed.dir
      BY <1>1, <1>6, <2>2 DEF FeedType
    <3> QED BY <1>5, <2>2, <3>1
  <2> QED BY <1>9, <2>1, <2>2 DEF FeedLists
<1>10. CASE FeedReceives
  <2>1. CASE EndFeed(Closed)
    BY <1>3, <2>1
  <2>2. CASE feed' = [feed EXCEPT !.step = "drain", !.events = @ \ {"change"}] /\ UNCHANGED wire
    <3>1. feed' \in FeedType /\ feed'.dir = feed.dir
      BY <1>1, <2>2 DEF FeedType
    <3> QED BY <1>4, <2>2, <3>1
  <2> QED BY <1>10, <2>1, <2>2 DEF FeedReceives
<1>11. CASE FeedDrains
  <2>1. feed' = [feed EXCEPT !.step = "list again", !.events = {}] /\ UNCHANGED wire
    BY <1>11 DEF FeedDrains
  <2>2. feed' \in FeedType /\ feed'.dir = feed.dir
    BY <1>1, <2>1 DEF FeedType
  <2> QED BY <1>4, <2>1, <2>2
<1>12. CASE FeedListsAgain
  <2>1. CASE EndFeed(Closed)
    BY <1>3, <2>1
  <2>2. CASE disk[feed.dir] # Missing
    <3>1. feed' = [feed EXCEPT !.step = "wait", !.rows = Listing(feed.dir)]
      BY <1>12, <2>2 DEF FeedListsAgain
    <3>2. feed' \in FeedType /\ feed'.dir = feed.dir
      BY <1>1, <1>6, <2>2, <3>1 DEF FeedType
    <3>3. UNCHANGED wire \/ Send(directory_patch(feed.rows, Listing(feed.dir)))
      BY <1>12, <2>2 DEF FeedListsAgain
    <3> QED BY <1>4, <1>5, <2>2, <3>2, <3>3
  <2> QED BY <1>12, <2>1, <2>2 DEF FeedListsAgain
<1> QED BY <1>7, <1>8, <1>9, <1>10, <1>11, <1>12

\* Every step of the machine keeps the explorer's invariant.
LEMMA FeedsNextKeeps ==
  ASSUME ExplorerInv, FeedsNext, UNCHANGED clientVars
  PROVE  ExplorerInv' /\ Ages
<1>1. UNCHANGED <<location, history, rows, phase>>
  BY DEF clientVars, navVars, tableVars
<1>2. CASE \E d \in Dirs, n \in Names :
             \/ Touch(d, n) \/ Rewrite(d, n) \/ delete_paths(d, n)
             \/ restore_trash_items(d, n) \/ purge_trash_items(d, n)
  BY <1>1, <1>2, FilesKeep
<1>3. CASE \E d \in Dirs : RemoveDirectory(d) \/ MakeDirectory(d)
  BY <1>1, <1>3, DirectoryKeeps
<1>4. CASE WatchFails
  BY <1>1, <1>4, WatchKeeps
<1>5. CASE \/ FeedChecks \/ FeedWatches \/ FeedLists
           \/ FeedReceives \/ FeedDrains \/ FeedListsAgain
  <2>1. UNCHANGED <<disk, version>>
    BY <1>5 DEF FeedChecks, FeedWatches, FeedLists, FeedReceives, FeedDrains,
       FeedListsAgain, FeedStep, diskVars
  <2> QED BY <1>1, <1>5, <2>1, StreamKeeps, SameAges
<1>6. CASE \/ TrashLists \/ TrashSubscribes \/ TrashTicks \/ TrashChanges
           \/ TrashListsAgain \/ TrashListFails
  <2>1. UNCHANGED <<disk, version, feed, wire>>
    BY <1>6 DEF TrashLists, TrashSubscribes, TrashTicks, TrashChanges,
       TrashListsAgain, TrashListFails, TrashStep, diskVars, dirVars
  <2>2. TypeOK /\ DiskFine
    BY DEF ExplorerInv
  <2> QED BY <1>1, <2>1, <2>2, SameAges, FeedsKeep DEF TypeOK
<1> QED BY <1>2, <1>3, <1>4, <1>5, <1>6 DEF FeedsNext

-----------------------------------------------------------------------------
(* Steps of the explorer *)

\* Steps that leave the files, the rows and the locations alone, and attach no
\* stream anew
LEMMA LooseKeeps ==
  ASSUME ExplorerInv, UNCHANGED <<disk, version, location, history, rows>>,
         feed' \in FeedType, feed'.dir = feed.dir, wire' \in {wire, <<>>},
         Attached' => Attached
  PROVE  ExplorerInv'
<1>1. TypeOK /\ DiskFine /\ FeedFine /\ LocationsFine /\ wire' \in Seq(AnyEvent)
  <2>1. TypeOK /\ DiskFine /\ FeedFine /\ LocationsFine /\ wire \in Seq(AnyEvent)
    BY DEF ExplorerInv, TypeOK
  <2>2. <<>> \in Seq(AnyEvent)
    OBVIOUS
  <2> QED BY <2>1, <2>2
<1>2. DiskFine' /\ Ages /\ LocationsFine'
  BY <1>1, SameAges, LocationsAge
<1>3. RowsFine(rows, location.path)'
  BY <1>1 DEF FeedFine, RowsFine, Past, NotNewer
<1>4. \A i \in 1 .. Len(wire') : wire'[i] = wire[i] /\ i \in 1 .. Len(wire)
  BY <1>1
<1>5. ASSUME NEW i \in 1 .. Len(wire')
      PROVE  EventFine(wire[i], feed.dir)'
  BY <1>1, <1>4, <1>5 DEF FeedFine, EventFine, RowsFine, Past, NotNewer
<1>6. FeedFine'
  BY <1>1, <1>3, <1>5 DEF FeedFine
<1> QED BY <1>1, <1>2, <1>6 DEF ExplorerInv, TypeOK

\* A subscription that starts afresh where the tab is
LEMMA StartKeeps ==
  ASSUME ExplorerInv, UNCHANGED <<disk, version>>, LocationsFine',
         location' \in AnyLocation, history' \in Seq(AnyLocation),
         NEW isPaired, start(location'.path, isPaired)
  PROVE  ExplorerInv'
<1>1. TypeOK /\ DiskFine /\ location'.path \in Dirs \cup {NoPath}
  BY LocationFacts DEF ExplorerInv
<1>2. DiskFine'
  BY <1>1, SameAges
<1>3. PICK dir : dir = IF location'.path = NoPath THEN feed.dir ELSE location'.path
  OBVIOUS
<1>4. /\ rows' = {} /\ wire' = <<>> /\ feed' = NoFeed(dir)
      /\ location'.path = NoPath => phase' = "idle"
  BY <1>3 DEF start
<1>5. dir \in Dirs /\ feed' \in FeedType /\ feed'.dir = dir /\ feed'.step = "off"
  BY <1>1, <1>3, <1>4, FeedRecord
<1>6. FeedFine'
  BY <1>3, <1>4, <1>5 DEF FeedFine, RowsFine, Attached
<1> QED BY <1>1, <1>2, <1>4, <1>5, <1>6 DEF ExplorerInv, TypeOK

\* A move to a place, a directory or a list of them or the trash: a file was
\* only opened at first.
LEMMA MoveKeeps ==
  ASSUME ExplorerInv, UNCHANGED <<disk, version>>,
         location' \in AnyLocation, history' \in Seq(AnyLocation), LocationsFine',
         IF location'.path = location.path
         THEN UNCHANGED <<rows, phase, late, dirVars>>
         ELSE start(location'.path, paired)
  PROVE  ExplorerInv'
<1>1. CASE location'.path # location.path
  BY <1>1, StartKeeps
<1>2. CASE location'.path = location.path
  <2>1. TypeOK /\ DiskFine /\ FeedFine /\ UNCHANGED <<rows, phase, feed, wire>>
    BY <1>2 DEF ExplorerInv, dirVars
  <2>2. DiskFine' /\ Ages
    BY <2>1, SameAges
  <2>3. RowsFine(rows, location.path)'
    BY <1>2, <2>1 DEF FeedFine, RowsFine, Past, NotNewer
  <2>4. ASSUME NEW i \in 1 .. Len(wire)
        PROVE  EventFine(wire[i], feed.dir)'
    BY <2>1, <2>4 DEF FeedFine, EventFine, RowsFine, Past, NotNewer
  <2>5. FeedFine'
    BY <1>2, <2>1, <2>3, <2>4 DEF FeedFine, Attached
  <2> QED BY <2>1, <2>2, <2>5 DEF ExplorerInv, TypeOK
<1> QED BY <1>1, <1>2

\* What the locations are stays so when the tab goes to another place.
LEMMA PlaceKeepsLocations ==
  ASSUME ExplorerInv, UNCHANGED <<disk, version>>,
         location' \in AnyLocation, location'.type # "file",
         \/ UNCHANGED history
         \/ history' = Append(history, location)
  PROVE  LocationsFine' /\ history' \in Seq(AnyLocation)
<1>1. /\ TypeOK /\ LocationsFine /\ history \in Seq(AnyLocation)
      /\ location \in AnyLocation
  BY DEF ExplorerInv, TypeOK
<1>2. ASSUME NEW i \in 1 .. Len(history')
      PROVE  \/ i \in 1 .. Len(history) /\ history'[i] = history[i]
             \/ history'[i] = location
  BY <1>1, <1>2
<1>3. ASSUME NEW i \in 1 .. Len(history')
      PROVE  FileFine(history[i])'
  BY <1>1, <1>2, <1>3 DEF LocationsFine, FileFine, Past, NotNewer
<1>4. ASSUME NEW i \in 1 .. Len(history'), NEW j \in 1 .. Len(history')
      PROVE  SameFile(history'[i], history'[j])
  BY <1>1, <1>2, <1>4 DEF LocationsFine, SameFile
<1>5. FileFine(location)' /\ \A i \in 1 .. Len(history') : SameFile(location', history'[i])
  BY DEF FileFine, SameFile
<1> QED BY <1>1, <1>3, <1>4, <1>5 DEF LocationsFine, SameFile

\* Going back shows a location of the history.
LEMMA BackKeepsLocations ==
  ASSUME ExplorerInv, UNCHANGED <<disk, version>>, history # <<>>,
         location' = history[Len(history)],
         history' = SubSeq(history, 1, Len(history) - 1)
  PROVE  LocationsFine' /\ location' \in AnyLocation /\ history' \in Seq(AnyLocation)
<1>1. /\ TypeOK /\ LocationsFine /\ history \in Seq(AnyLocation)
      /\ Len(history) \in 1 .. Len(history)
  BY DEF ExplorerInv, TypeOK
<1>2. /\ history' \in Seq(AnyLocation) /\ Len(history') = Len(history) - 1
      /\ \A i \in 1 .. Len(history') :
           i \in 1 .. Len(history) /\ history'[i] = history[i]
  <2>1. PICK n : n = Len(history) - 1
    OBVIOUS
  <2>2. n \in Nat /\ n < Len(history) /\ Len(history) \in Nat
    BY <1>1, <2>1
  <2>3. /\ SubSeq(history, 1, n) \in Seq(AnyLocation) /\ Len(SubSeq(history, 1, n)) = n
        /\ \A i \in 1 .. n : SubSeq(history, 1, n)[i] = history[i]
    BY <1>1, <2>2
  <2> QED BY <2>1, <2>2, <2>3
<1>3. FileFine(location)'
  BY <1>1 DEF LocationsFine, FileFine, Past, NotNewer
<1>4. ASSUME NEW i \in 1 .. Len(history')
      PROVE  FileFine(history[i])' /\ SameFile(location', history'[i])
  BY <1>1, <1>2, <1>4 DEF LocationsFine, FileFine, SameFile, Past, NotNewer
<1>5. \A i, j \in 1 .. Len(history') : SameFile(history'[i], history'[j])
  BY <1>1, <1>2 DEF LocationsFine
<1> QED BY <1>1, <1>2, <1>3, <1>4, <1>5 DEF LocationsFine, SameFile

\* So does every other way to navigate (explorer.ts).
LEMMA NavigationKeeps ==
  ASSUME ExplorerInv, Navigates
  PROVE  ExplorerInv' /\ UNCHANGED <<disk, version>>
<1>1. /\ TypeOK /\ location \in AnyLocation /\ history \in Seq(AnyLocation)
      /\ feed \in FeedType /\ ~(Root.type = "file") /\ ~(Trash.type = "file")
      /\ Trash \in AnyLocation
  BY FeedRecord DEF ExplorerInv, TypeOK, AnyLocation, Root, Trash
<1>2. ASSUME NEW loc \in {Root, Trash} \cup {Directory(d) : d \in Dirs}, navigateTo(loc)
      PROVE  ExplorerInv' /\ UNCHANGED <<disk, version>>
  <2>1. /\ location' = loc /\ history' = Append(history, location)
        /\ UNCHANGED <<disk, version>>
        /\ IF location'.path = location.path
           THEN UNCHANGED <<rows, phase, late, dirVars>>
           ELSE start(location'.path, paired)
    BY <1>2 DEF navigateTo, GoTo, diskVars
  <2>2. location' \in AnyLocation /\ location'.type # "file"
    BY <2>1, PlacesFine
  <2>3. LocationsFine' /\ history' \in Seq(AnyLocation)
    BY <2>1, <2>2, PlaceKeepsLocations
  <2> QED BY <2>1, <2>2, <2>3, MoveKeeps
<1>3. ASSUME NEW d \in Dirs \cup {NoPath}, navigate(d)
      PROVE  ExplorerInv' /\ UNCHANGED <<disk, version>>
  <2>1. locationFromPath(d) \in {Root, Trash} \cup {Directory(c) : c \in Dirs}
    BY DEF locationFromPath
  <2> QED BY <1>2, <1>3, <2>1 DEF navigate
<1>4. CASE navigateTrash
  BY <1>2, <1>4 DEF navigateTrash
<1>5. CASE goUp
  <2>1. location.type \in {"directory", "file"} /\ location.path \in Dirs
    BY <1>1, <1>5, LocationFacts DEF goUp
  <2>2. PICK d : d = IF location.type = "file" THEN location.path
                     ELSE Parent[location.path]
    OBVIOUS
  <2>3. d \in Dirs \cup {NoPath} /\ navigate(d)
    BY <1>5, <2>1, <2>2, ExplorerAssumption DEF goUp
  <2> QED BY <1>3, <2>3
<1>6. CASE goBack
  <2>1. /\ history # <<>> /\ location' = history[Len(history)]
        /\ history' = SubSeq(history, 1, Len(history) - 1)
        /\ UNCHANGED <<disk, version>>
        /\ IF location'.path = location.path
           THEN UNCHANGED <<rows, phase, late, dirVars>>
           ELSE start(location'.path, paired)
    BY <1>6 DEF goBack, GoTo, diskVars
  <2>2. LocationsFine' /\ location' \in AnyLocation /\ history' \in Seq(AnyLocation)
    BY <2>1, BackKeepsLocations
  <2> QED BY <2>1, <2>2, MoveKeeps
<1>7. CASE HomeArrives
  <2>1. /\ location' = Directory(Home) /\ location'.path = Home
        /\ UNCHANGED <<disk, version, history>>
        /\ IF location.path = Home THEN UNCHANGED <<rows, phase, late, dirVars>>
           ELSE start(Home, paired)
    BY <1>7 DEF HomeArrives, Directory, diskVars
  <2>2. location' \in AnyLocation /\ location'.type # "file"
    BY <2>1, PlacesFine, ExplorerAssumption
  <2>3. LocationsFine' /\ history' \in Seq(AnyLocation)
    BY <2>1, <2>2, PlaceKeepsLocations
  <2>4. IF location'.path = location.path
        THEN UNCHANGED <<rows, phase, late, dirVars>>
        ELSE start(location'.path, paired)
    BY <2>1
  <2> QED BY <2>1, <2>2, <2>3, <2>4, MoveKeeps
<1>8. CASE HomeFails
  <2>1. UNCHANGED <<disk, version, location, history, rows, phase, feed, wire>>
    BY <1>8 DEF HomeFails, diskVars, dirVars, navVars, tableVars
  <2> QED BY <1>1, <2>1, LooseKeeps DEF Attached
<1> QED BY <1>3, <1>4, <1>5, <1>6, <1>7, <1>8 DEF Navigates

\* A patch to fine rows with fine ones gives fine rows.
LEMMA PatchedFine ==
  ASSUME NEW shown \in SUBSET AnyEntry, NEW event \in AnyEvent, event.type = "patch",
         NEW d, RowsFine(shown, d), RowsFine(event.upserts, d)
  PROVE  Patched(shown, event) \in SUBSET AnyEntry /\ RowsFine(Patched(shown, event), d)
<1>1. PICK upserts : upserts = event.upserts
  OBVIOUS
<1>2. upserts \in SUBSET AnyEntry /\ RowsFine(upserts, d)
  BY <1>1, EventTypes
<1>3. ASSUME NEW e \in Patched(shown, event)
      PROVE  \/ e \in upserts
             \/ e \in shown /\ \A f \in upserts : f.name # e.name
  BY <1>1, <1>3 DEF Patched, NamesOf
<1>4. \A e \in Patched(shown, event) : e \in AnyEntry /\ e.dir = d /\ Past(e)
  BY <1>2, <1>3 DEF RowsFine
<1>5. \A e, f \in Patched(shown, event) : e.name = f.name => e = f
  BY <1>2, <1>3 DEF RowsFine
<1> QED BY <1>4, <1>5 DEF RowsFine

\* Applying a fine event to fine rows gives fine rows.
LEMMA EventKeeps ==
  ASSUME ExplorerInv, applyDirectoryEvent
  PROVE  ExplorerInv' /\ UNCHANGED <<disk, version, location, paired>>
<1>1. /\ TypeOK /\ DiskFine /\ FeedFine /\ LocationsFine
      /\ wire \in Seq(AnyEvent) /\ wire # <<>> /\ rows \in SUBSET AnyEntry
  BY DEF ExplorerInv, TypeOK, applyDirectoryEvent
<1>2. /\ UNCHANGED <<disk, version, location, history, feed, paired>>
      /\ wire' = Tail(wire)
  BY DEF applyDirectoryEvent, Elsewhere, diskVars, navVars, sessionVars
<1>3. /\ wire' \in Seq(AnyEvent) /\ 1 \in 1 .. Len(wire)
      /\ \A i \in 1 .. Len(wire') : wire'[i] = wire[i + 1] /\ i + 1 \in 1 .. Len(wire)
  BY <1>1, <1>2
<1>4. PICK event : event = wire[1]
  OBVIOUS
<1>5. /\ event \in AnyEvent /\ event = Head(wire)
      /\ feed.dir = location.path /\ EventFine(event, feed.dir)
  BY <1>1, <1>3, <1>4 DEF FeedFine, Attached
<1>6. rows' \in SUBSET AnyEntry /\ RowsFine(rows', location.path)
  <2>1. CASE event.type = "snapshot" /\ rows' = event.rows
    BY <1>5, <2>1, EventTypes DEF EventFine
  <2>2. CASE event.type = "patch" /\ rows' = Patched(rows, event)
    BY <1>1, <1>5, <2>2, PatchedFine DEF EventFine, FeedFine
  <2>3. CASE UNCHANGED rows
    BY <1>1, <2>3 DEF FeedFine
  <2> QED BY <1>5, <2>1, <2>2, <2>3 DEF applyDirectoryEvent
<1>7. DiskFine' /\ Ages /\ LocationsFine'
  BY <1>1, <1>2, SameAges, LocationsAge
<1>8. RowsFine(rows, location.path)'
  BY <1>2, <1>6 DEF RowsFine, Past, NotNewer
<1>9. ASSUME NEW i \in 1 .. Len(wire')
      PROVE  EventFine(wire[i], feed.dir)'
  <2>1. EventFine(wire[i + 1], feed.dir) /\ wire'[i] = wire[i + 1]
    BY <1>1, <1>3, <1>9 DEF FeedFine
  <2> QED BY <1>2, <2>1 DEF EventFine, RowsFine, Past, NotNewer
<1>10. FeedFine'
  BY <1>2, <1>5, <1>8, <1>9 DEF FeedFine
<1> QED BY <1>1, <1>2, <1>3, <1>6, <1>7, <1>10 DEF ExplorerInv, TypeOK

\* Opening a stream, late events and the trash keep the invariant.
LEMMA TableStepsKeep ==
  ASSUME ExplorerInv,
         \/ DirectoryOpens
         \/ \E d \in Dirs : LateEvent(d)
         \/ TrashViewNext
  PROVE  /\ ExplorerInv'
         /\ UNCHANGED <<disk, version, location, rows, paired>>
<1>1. TypeOK /\ feed \in FeedType /\ feed.dir \in Dirs
  BY FeedRecord DEF ExplorerInv
<1>2. CASE OpenDirectory
  <2>1. /\ UNCHANGED <<disk, version, location, history, rows, wire, phase, paired>>
        /\ feed' = [feed EXCEPT !.step = "check"] /\ phase = "connecting"
    BY <1>2 DEF OpenDirectory, AwaitsTransport, Elsewhere, diskVars, navVars, sessionVars
  <2>2. feed' \in FeedType /\ feed'.dir = feed.dir
    BY <1>1, <2>1 DEF FeedType
  <2> QED BY <2>1, <2>2, LooseKeeps DEF Attached
<1>3. CASE OpenDirectoryFails
  <2>1. /\ UNCHANGED <<disk, version, location, history, rows, feed, wire, paired>>
        /\ phase' = "error"
    BY <1>3 DEF OpenDirectoryFails, Elsewhere, diskVars, navVars, dirVars, sessionVars
  <2> QED BY <1>1, <2>1, LooseKeeps DEF Attached
<1>4. CASE \/ \E d \in Dirs : LateEvent(d)
           \/ TrashViewNext
  <2>1. UNCHANGED <<disk, version, location, history, rows, feed, wire, phase, paired>>
    BY <1>4 DEF LateEvent, TrashViewNext, OpenTrash, OpenTrashFails,
       applyTrashItemsEvent, MutateTrashItemFails, DirectoryStays, Elsewhere,
       diskVars, navVars, dirVars, sessionVars
  <2> QED BY <1>1, <2>1, LooseKeeps DEF Attached
<1> QED BY <1>2, <1>3, <1>4 DEF DirectoryOpens

\* The tab shows the same place after the step.
LEMMA StayStarts ==
  ASSUME ExplorerInv, UNCHANGED <<disk, version, location, history>>,
         NEW isPaired, start(location.path, isPaired)
  PROVE  ExplorerInv'
<1>1. /\ TypeOK /\ LocationsFine /\ location \in AnyLocation
      /\ history \in Seq(AnyLocation)
  BY DEF ExplorerInv, TypeOK
<1>2. LocationsFine'
  BY <1>1, SameAges, LocationsAge
<1>3. start(location'.path, isPaired)
  BY DEF start
<1> QED BY <1>1, <1>2, <1>3, StartKeeps

\* Losing the session, and connecting again, keep it.
LEMMA SessionKeeps ==
  ASSUME ExplorerInv, SessionChanges
  PROVE  ExplorerInv' /\ UNCHANGED <<disk, version, location>>
<1>1. TypeOK /\ feed \in FeedType /\ feed.dir \in Dirs
  BY FeedRecord DEF ExplorerInv
<1>2. CASE ConnectionLost
  <2>1. /\ UNCHANGED <<disk, version, location, history, rows>>
        /\ feed' = NoFeed(feed.dir) /\ wire' = <<>>
        /\ phase' = IF Reading(phase, feed) THEN "error" ELSE phase
    BY <1>2 DEF ConnectionLost, diskVars, navVars
  <2>2. feed' \in FeedType /\ feed'.dir = feed.dir /\ feed'.step = "off"
    BY <1>1, <2>1, FeedRecord
  <2>3. Attached' => Attached
    BY <2>1, <2>2 DEF Attached
  <2> QED BY <2>1, <2>2, <2>3, LooseKeeps
<1>3. CASE Reconnected
  BY <1>3, StayStarts DEF Reconnected, diskVars, navVars
<1>4. CASE handleInvalidCredentials
  <2>1. /\ UNCHANGED <<disk, version, location, history>>
        /\ feed' = NoFeed(feed.dir) /\ wire' = <<>> /\ rows' = {}
        /\ phase' \in {"error", "idle"}
    BY <1>4 DEF handleInvalidCredentials, diskVars, navVars
  <2>2. feed' \in FeedType /\ feed'.dir = feed.dir /\ feed'.step = "off"
    BY <1>1, <2>1, FeedRecord
  <2>3. DiskFine' /\ LocationsFine'
    BY <2>1, SameAges, LocationsAge DEF ExplorerInv
  <2>4. FeedFine'
    BY <2>1, <2>2 DEF FeedFine, RowsFine, Attached
  <2> QED BY <1>1, <2>1, <2>2, <2>3, <2>4 DEF ExplorerInv, TypeOK
<1>5. CASE PairedAgain
  BY <1>5, StayStarts DEF PairedAgain, diskVars, navVars
<1> QED BY <1>2, <1>3, <1>4, <1>5 DEF SessionChanges

\* So does mounting the tab again with the location it had.
LEMMA RemountKeeps ==
  ASSUME ExplorerInv, Remounted
  PROVE  ExplorerInv' /\ UNCHANGED <<disk, version>>
<1>1. /\ UNCHANGED <<disk, version, history>> /\ location' \in {Trash, location}
      /\ start(location'.path, paired)
  BY DEF Remounted, diskVars
<1>2. TypeOK /\ history \in Seq(AnyLocation)
  BY DEF ExplorerInv, TypeOK
<1>3. CASE location' = location
  <2>1. start(location.path, paired)
    BY <1>1, <1>3
  <2> QED BY <1>1, <1>3, <2>1, StayStarts
<1>4. CASE location' = Trash
  <2>1. location' \in AnyLocation /\ location'.type # "file"
    BY <1>4, PlacesFine
  <2>2. LocationsFine'
    BY <1>1, <2>1, PlaceKeepsLocations
  <2> QED BY <1>1, <1>2, <2>1, <2>2, StartKeeps
<1> QED BY <1>1, <1>3, <1>4

\* The daemon writes the text of a save.
LEMMA WriteKeeps ==
  ASSUME ExplorerInv, NEW d \in Dirs, NEW n \in Names, Write(d, n),
         UNCHANGED <<wire, clientVars>>
  PROVE  /\ ExplorerInv' /\ Ages
         /\ version' = version + 1 /\ disk'[d][n] = version'
<1>1. /\ TypeOK /\ DiskFine /\ disk[d] # Missing /\ Watched(d)
      /\ disk[d] \in [Names -> Nat] /\ disk \in [Dirs -> [Names -> Nat] \cup {Missing}]
  BY DEF ExplorerInv, TypeOK, Write
<1>2. /\ version' = version + 1 /\ disk' = [disk EXCEPT ![d][n] = version']
      /\ UNCHANGED <<location, history, rows, phase>>
  BY DEF Write, Changes, clientVars, navVars, tableVars
<1>3. disk'[d] = [disk[d] EXCEPT ![n] = version']
  BY <1>1, <1>2
<1>4. ExplorerInv' /\ Ages
  BY <1>1, <1>2, WrittenAges, WatchedFine, FeedsKeep
<1> QED BY <1>1, <1>2, <1>3, <1>4

\* A new tab shows the root and no rows.
LEMMA InitExplorer == Init => ExplorerInv
<1> SUFFICES ASSUME Init PROVE ExplorerInv
  OBVIOUS
<1>1. /\ disk = [d \in Dirs |-> [n \in Names |-> 1]] /\ version = 1
      /\ history = <<>> /\ rows = {} /\ wire = <<>> /\ feed = NoFeed(Home)
      /\ location \in {File(FirstEntry(n)) : n \in Names} \cup {Root, Trash}
      /\ phase = IF location.path = NoPath THEN "idle" ELSE "connecting"
  BY DEF Init, ExplorerInit
<1>2. /\ disk \in [Dirs -> [Names -> Nat] \cup {Missing}]
      /\ \A d \in Dirs, n \in Names : disk[d] = [m \in Names |-> 1] /\ disk[d][n] = 1
      /\ version \in Nat
  BY <1>1
<1>3. DiskFine
  BY <1>1, <1>2 DEF DiskFine
<1>4. /\ feed.dir = Home /\ feed.step = "off" /\ feed \in FeedType
  BY <1>1, ExplorerAssumption DEF NoFeed, FeedType, WatchEvents
<1>5. CASE location \in {Root, Trash}
  <2>1. /\ location \in AnyLocation /\ location.type # "file" /\ location.path = NoPath
    BY <1>5 DEF AnyLocation, Root, Trash
  <2>2. LocationsFine /\ FeedFine
    BY <1>1, <1>4, <2>1 DEF LocationsFine, FileFine, FeedFine, RowsFine, Attached
  <2> QED BY <1>1, <1>2, <1>3, <1>4, <2>1, <2>2 DEF ExplorerInv, TypeOK
<1>6. ASSUME NEW n \in Names, location = File(FirstEntry(n))
      PROVE  ExplorerInv
  <2>1. PICK e : e = FirstEntry(n)
    OBVIOUS
  <2>2. /\ e \in AnyEntry /\ e.dir = Home /\ e.name = n /\ e.version = 1
    BY <2>1, ExplorerAssumption DEF FirstEntry, AnyEntry
  <2>3. /\ location \in AnyLocation /\ location = File(e)
        /\ location.entry = e /\ location.path = Home
    BY <1>6, <2>1, <2>2 DEF AnyLocation, File
  <2>4. Past(e)
    BY <1>1, <1>2, <2>2, ExplorerAssumption DEF Past, NotNewer
  <2>5. LocationsFine /\ FeedFine
    BY <1>1, <1>4, <2>3, <2>4 DEF LocationsFine, FileFine, FeedFine, RowsFine
  <2> QED BY <1>1, <1>2, <1>3, <1>4, <2>3, <2>5 DEF ExplorerInv, TypeOK
<1> QED BY <1>1, <1>5, <1>6

\* What the steps of the explorer keep; each is also a step of the viewer.
ExplorerSteps ==
  \/ Navigates \/ SessionChanges \/ applyDirectoryEvent
  \/ \E d \in Dirs : LateEvent(d)

\* Every step of the explorer keeps its invariant.
LEMMA ExplorerStepsKeep ==
  ASSUME ExplorerInv, ExplorerSteps
  PROVE  ExplorerInv' /\ UNCHANGED <<disk, version>>
  BY NavigationKeeps, SessionKeeps, EventKeeps, TableStepsKeep DEF ExplorerSteps

-----------------------------------------------------------------------------
(* The types of the viewer, and where it is mounted *)

ViewerType ==
  [phase : {"unmounted", "detecting", "loading", "ready", "error"},
   draft : Nat \cup {Edit}, saved : Nat, loaded : Nat, own : Nat, key : Nat, got : Nat]

SaveRecord ==
  [at : {"called", "opened", "written", "measured"}, file : [dir : Dirs, name : Names],
   key : Nat \ {0}, text : Nat, own : Nat, mine : BOOLEAN]

SaveType == {NoSave} \cup SaveRecord

Mounted ==
  /\ viewer.phase = "unmounted" <=> ~IsOpen(location, paired)
  /\ viewer.phase = "unmounted" => viewer = Unmounted
  /\ viewer.phase = "detecting" => viewer = Detecting
  /\ \A s \in Slots : saves[s].mine => IsTextViewer(viewer)

ViewerTypeOK ==
  /\ viewer \in ViewerType
  /\ saves \in [Slots -> SaveType]
  /\ dirty \in BOOLEAN

TabInv == ExplorerInv /\ ViewerTypeOK /\ Mounted

\* The viewer's states without text.
LEMMA StatesTyped ==
  /\ Unmounted \in ViewerType /\ Unmounted.phase = "unmounted"
  /\ Detecting \in ViewerType /\ Detecting.phase = "detecting"
  /\ ~IsTextViewer(Unmounted) /\ ~IsTextViewer(Detecting)
  /\ Detecting = [Unmounted EXCEPT !.phase = "detecting"]
  BY DEF Unmounted, Detecting, ViewerType, IsTextViewer

\* What tells a save that is under way from none.
LEMMA NoSaveFacts ==
  ASSUME NEW save \in SaveType
  PROVE  /\ NoSave.at = "none" /\ NoSave.mine = FALSE
         /\ save.key \in Nat /\ save.text \in Nat /\ save.own \in Nat
         /\ save.mine \in BOOLEAN
         /\ save # NoSave <=> save.at # "none"
         /\ save # NoSave => save \in SaveRecord
<1>1. /\ NoSave.at = "none" /\ NoSave.key = 0 /\ NoSave.text = 0 /\ NoSave.own = 0
      /\ NoSave.mine = FALSE /\ NoSave.mine \in BOOLEAN
  BY DEF NoSave
<1>2. CASE save = NoSave
  BY <1>1, <1>2
<1>3. CASE save # NoSave
  <2>1. save \in SaveRecord
    BY <1>3 DEF SaveType
  <2> QED BY <1>1, <1>3, <2>1 DEF SaveRecord
<1> QED BY <1>2, <1>3

\* No save belongs to a viewer.
LEMMA NoSaveIsNobodys == [NoSave EXCEPT !.mine = FALSE] = NoSave
<1>1. \A mine : [[at |-> "none", file |-> NoFile, key |-> 0, text |-> 0, own |-> 0,
                  mine |-> mine] EXCEPT !.mine = mine]
                = [at |-> "none", file |-> NoFile, key |-> 0, text |-> 0, own |-> 0,
                   mine |-> mine]
  OBVIOUS
<1> QED BY <1>1 DEF NoSave

\* Unmounting a viewer takes its saves from it and nothing else.
LEMMA DisownedFacts ==
  ASSUME saves \in [Slots -> SaveType]
  PROVE  /\ Disowned \in [Slots -> SaveType]
         /\ \A s \in Slots :
              /\ ~Disowned[s].mine
              /\ Disowned[s] = NoSave <=> saves[s] = NoSave
              /\ Disowned[s].file = saves[s].file /\ Disowned[s].key = saves[s].key
              /\ Disowned[s].text = saves[s].text /\ Disowned[s].at = saves[s].at
<1>1. ASSUME NEW s \in Slots
      PROVE  /\ [saves[s] EXCEPT !.mine = FALSE] \in SaveType
             /\ [saves[s] EXCEPT !.mine = FALSE].mine = FALSE
             /\ [saves[s] EXCEPT !.mine = FALSE].file = saves[s].file
             /\ [saves[s] EXCEPT !.mine = FALSE].key = saves[s].key
             /\ [saves[s] EXCEPT !.mine = FALSE].text = saves[s].text
             /\ [saves[s] EXCEPT !.mine = FALSE].at = saves[s].at
             /\ [saves[s] EXCEPT !.mine = FALSE] = NoSave <=> saves[s] = NoSave
  <2>1. saves[s] \in SaveType
    OBVIOUS
  <2>2. CASE saves[s] = NoSave
    <3>1. [saves[s] EXCEPT !.mine = FALSE] = NoSave
      BY <2>2, NoSaveIsNobodys
    <3> QED BY <2>1, <2>2, <3>1 DEF NoSave
  <2>3. CASE saves[s] # NoSave
    <3>1. PICK save : save = saves[s]
      OBVIOUS
    <3>2. save \in SaveRecord
      BY <2>1, <2>3, <3>1 DEF SaveType
    <3>3. PICK other : other = [save EXCEPT !.mine = FALSE]
      OBVIOUS
    <3>4. /\ other \in SaveRecord
          /\ other.mine = FALSE /\ other.file = save.file /\ other.key = save.key
          /\ other.text = save.text /\ other.at = save.at
      BY <3>2, <3>3 DEF SaveRecord
    <3>5. other # NoSave /\ other \in SaveType
      <4>1. other \in SaveType
        BY <3>4 DEF SaveType
      <4>2. other.at # "none"
        BY <3>4 DEF SaveRecord
      <4> QED BY <4>1, <4>2, NoSaveFacts
    <3> QED BY <2>3, <3>1, <3>3, <3>4, <3>5
  <2> QED BY <2>2, <2>3
<1> QED BY <1>1 DEF Disowned

\* What Load makes of a viewer.
LEMMA LoadCases ==
  ASSUME NEW v \in ViewerType, NEW key \in Nat, NEW marked \in BOOLEAN
  PROVE  /\ marked \/ v.loaded = key => Load(v, key, marked) = Cancelled(v)
         /\ ~marked /\ v.loaded # key /\ v.own = key =>
              Load(v, key, marked) = [Cancelled(v) EXCEPT !.loaded = key, !.own = 0]
         /\ ~marked /\ v.loaded # key /\ v.own # key =>
              Load(v, key, marked) = [Cancelled(v) EXCEPT !.phase = "loading", !.saved = 0,
                                                          !.draft = 0, !.key = key]
<1>1. CASE marked \/ v.loaded = key
  BY <1>1 DEF Load
<1>2. CASE ~marked /\ v.loaded # key /\ v.own = key
  BY <1>2 DEF Load
<1>3. CASE ~marked /\ v.loaded # key /\ v.own # key
  BY <1>3 DEF Load
<1> QED BY <1>1, <1>2, <1>3

\* Cancelling a read keeps the text.
LEMMA CancelledFacts ==
  ASSUME NEW v \in ViewerType
  PROVE  /\ Cancelled(v) \in ViewerType
         /\ Cancelled(v).key = 0 /\ Cancelled(v).got = 0
         /\ Cancelled(v).phase = v.phase /\ Cancelled(v).draft = v.draft
         /\ Cancelled(v).saved = v.saved /\ Cancelled(v).loaded = v.loaded
         /\ Cancelled(v).own = v.own
  BY DEF Cancelled, ViewerType

\* The three ways Load goes, field by field
LEMMA LoadFacts ==
  ASSUME NEW v \in ViewerType, NEW key \in Nat, NEW marked \in BOOLEAN, IsTextViewer(v),
         NEW w, w = Load(v, key, marked)
  PROVE  /\ w \in ViewerType /\ IsTextViewer(w)
         /\ \/ /\ marked \/ v.loaded = key
               /\ w.phase = v.phase /\ w.draft = v.draft /\ w.saved = v.saved
               /\ w.loaded = v.loaded /\ w.own = v.own /\ w.key = 0 /\ w.got = 0
            \/ /\ ~marked /\ v.own = key
               /\ w.phase = v.phase /\ w.draft = v.draft /\ w.saved = v.saved
               /\ w.loaded = key /\ w.own = 0 /\ w.key = 0 /\ w.got = 0
            \/ /\ ~marked
               /\ w.phase = "loading" /\ w.key = key /\ w.got = 0 /\ w.own = v.own
               /\ w.loaded = v.loaded
<1>1. PICK c : c = Cancelled(v)
  OBVIOUS
<1>2. /\ c \in ViewerType /\ c.key = 0 /\ c.got = 0 /\ c.phase = v.phase
      /\ c.draft = v.draft /\ c.saved = v.saved /\ c.loaded = v.loaded /\ c.own = v.own
  BY <1>1, CancelledFacts
<1>3. CASE marked \/ v.loaded = key
  <2>1. w = c
    BY <1>1, <1>3, LoadCases
  <2> QED BY <1>2, <1>3, <2>1 DEF IsTextViewer
<1>4. CASE ~marked /\ v.loaded # key /\ v.own = key
  <2>1. w = [c EXCEPT !.loaded = key, !.own = 0]
    <3>1. Load(v, key, marked) = [Cancelled(v) EXCEPT !.loaded = key, !.own = 0]
      BY <1>4 DEF Load
    <3> QED BY <1>1, <3>1
  <2>2. /\ w \in ViewerType /\ w.phase = c.phase /\ w.draft = c.draft
        /\ w.saved = c.saved /\ w.loaded = key /\ w.own = 0 /\ w.key = 0 /\ w.got = 0
    BY <1>2, <2>1 DEF ViewerType
  <2> QED BY <1>2, <1>4, <2>2 DEF IsTextViewer
<1>5. CASE ~marked /\ v.loaded # key /\ v.own # key
  <2>1. w = [c EXCEPT !.phase = "loading", !.saved = 0, !.draft = 0, !.key = key]
    <3>1. Load(v, key, marked) = [Cancelled(v) EXCEPT !.phase = "loading", !.saved = 0,
                                                      !.draft = 0, !.key = key]
      BY <1>5, LoadCases
    <3> QED BY <1>1, <3>1
  <2>2. /\ w \in ViewerType /\ w.phase = "loading" /\ w.key = key /\ w.got = 0
        /\ w.own = c.own /\ w.loaded = c.loaded
    BY <1>2, <2>1 DEF ViewerType
  <2> QED BY <1>2, <1>5, <2>2 DEF IsTextViewer
<1> QED BY <1>3, <1>4, <1>5

\* The mark is set.
LEMMA DirtySet ==
  ASSUME NEW v \in ViewerType, NEW key \in Nat, NEW marked \in BOOLEAN,
         setDirty(v, key, marked)
  PROVE  /\ dirty' = marked
         /\ viewer' \in ViewerType
         /\ IsTextViewer(v) => IsTextViewer(viewer')
         /\ ~IsTextViewer(v) \/ marked = dirty => viewer' = v
         /\ IsTextViewer(v) /\ marked # dirty => viewer' = Load(v, key, marked)
<1>1. CASE IsTextViewer(v) /\ marked # dirty
  <2>1. viewer' = Load(v, key, marked)
    BY <1>1 DEF setDirty
  <2>2. viewer' \in ViewerType /\ IsTextViewer(viewer')
    BY <1>1, <2>1, LoadFacts
  <2> QED BY <1>1, <2>1, <2>2 DEF setDirty
<1>2. CASE ~(IsTextViewer(v) /\ marked # dirty)
  BY <1>2 DEF setDirty
<1> QED BY <1>1, <1>2

\* The version under which the opened file is shown is one it has had.
LEMMA KeyFacts ==
  ASSUME ExplorerInv, location.type = "file"
  PROVE  /\ location.entry \in AnyEntry /\ location.path = location.entry.dir
         /\ location.path \in Dirs /\ location.entry.name \in Names
         /\ Key(location, rows) \in Nat \ {0}
         /\ NotNewer(location.entry.dir, location.entry.name, Key(location, rows))
<1>1. /\ location.entry \in AnyEntry /\ location.path = location.entry.dir
      /\ location.path \in Dirs /\ location.entry.name \in Names
      /\ Past(location.entry) /\ RowsFine(rows, location.path) /\ rows \in SUBSET AnyEntry
  BY LocationFacts DEF ExplorerInv, TypeOK, LocationsFine, FileFine, FeedFine, AnyEntry
<1>2. PICK same : /\ same = RowOf(location, rows)
                   /\ same = {e \in rows : e.dir = location.entry.dir
                                             /\ e.name = location.entry.name}
  BY DEF RowOf
<1>3. PICK shown : shown = openedFile(location, rows)
  OBVIOUS
<1>4. /\ shown \in AnyEntry /\ shown.dir = location.entry.dir
      /\ shown.name = location.entry.name /\ Past(shown)
  <2>1. CASE same = {}
    <3>1. shown = location.entry
      BY <1>2, <1>3, <2>1 DEF openedFile
    <3> QED BY <1>1, <3>1
  <2>2. CASE same # {}
    <3>1. shown \in same
      BY <1>2, <1>3, <2>2 DEF openedFile
    <3> QED BY <1>1, <1>2, <3>1 DEF RowsFine
  <2> QED BY <2>1, <2>2
<1>5. Key(location, rows) = shown.version
  BY <1>3 DEF Key
<1>6. shown.version \in Nat /\ shown.version >= 1
      /\ NotNewer(shown.dir, shown.name, shown.version)
  BY <1>4 DEF Past, AnyEntry
<1> QED BY <1>1, <1>4, <1>5, <1>6

\* The version shown of an open file is not newer than the file.
LEMMA KeyFactsNext ==
  ASSUME ExplorerInv', location'.type = "file"
  PROVE  /\ Key(location', rows') \in Nat \ {0}
         /\ NotNewer(location.entry.dir, location.entry.name, Key(location, rows))'
<1>1. (location.type = "file" =>
        /\ Key(location, rows) \in Nat \ {0}
        /\ NotNewer(location.entry.dir, location.entry.name, Key(location, rows)))'
  <2>1. (ExplorerInv /\ location.type = "file" =>
        /\ Key(location, rows) \in Nat \ {0}
        /\ NotNewer(location.entry.dir, location.entry.name, Key(location, rows)))'
    BY KeyFacts, PTL
  <2> QED BY <2>1
<1> QED BY <1>1

\* It is the same as long as the entry is.
LEMMA KeyStays ==
  ASSUME location' = location, RowOf(location', rows') = RowOf(location, rows)
  PROVE  Key(location', rows') = Key(location, rows)
  BY DEF Key, openedFile

-----------------------------------------------------------------------------
(* The steps of a tab keep the types and where the viewer is mounted *)

\* The viewer follows a step of the explorer.
LEMMA FollowTyped ==
  ASSUME TabInv, ViewerFollows
  PROVE  ViewerTypeOK' /\ Mounted'
<1>1. PICK newEntry \in BOOLEAN : Follow(IsOpen(location', paired'), newEntry)
  BY DEF ViewerFollows
<1>2. viewer \in ViewerType /\ saves \in [Slots -> SaveType] /\ dirty \in BOOLEAN
  BY DEF TabInv, ViewerTypeOK
<1>3. dirty' = dirty
  BY <1>1 DEF Follow
<1>4. CASE ~IsOpen(location', paired') /\ viewer' = Unmounted /\ saves' = Disowned
  BY <1>2, <1>3, <1>4, StatesTyped, DisownedFacts DEF ViewerTypeOK, Mounted
<1>5. CASE IsOpen(location', paired') /\ viewer' = Detecting /\ saves' = Disowned
  BY <1>2, <1>3, <1>5, StatesTyped, DisownedFacts DEF ViewerTypeOK, Mounted
<1>6. CASE /\ IsOpen(location', paired') /\ viewer.phase # "unmounted"
           /\ UNCHANGED <<viewer, saves>>
  BY <1>2, <1>3, <1>6 DEF TabInv, ViewerTypeOK, Mounted, IsTextViewer
<1> QED BY <1>1, <1>4, <1>5, <1>6 DEF Follow

\* A viewer is mounted again without text.
LEMMA RemountTyped ==
  ASSUME TabInv, ViewerRemounts
  PROVE  ViewerTypeOK' /\ Mounted'
<1>1. saves \in [Slots -> SaveType] /\ dirty \in BOOLEAN
  BY DEF TabInv, ViewerTypeOK
<1>2. CASE IsOpen(location', paired')
  BY <1>1, <1>2, StatesTyped, DisownedFacts DEF ViewerRemounts, ViewerTypeOK, Mounted
<1>3. CASE ~IsOpen(location', paired')
  BY <1>1, <1>3, StatesTyped, DisownedFacts DEF ViewerRemounts, ViewerTypeOK, Mounted
<1> QED BY <1>2, <1>3

\* A mounted viewer is one of a file.
LEMMA MountedFacts ==
  ASSUME TabInv
  PROVE  /\ viewer.phase # "unmounted" => location.type = "file" /\ paired
         /\ viewer.key # 0 \/ viewer.got # 0 => IsTextViewer(viewer)
         /\ IsTextViewer(viewer) => viewer.phase # "unmounted"
         /\ viewer \in ViewerType
<1>1. viewer \in ViewerType
  BY DEF TabInv, ViewerTypeOK
<1>2. /\ viewer.phase = "unmounted" <=> ~IsOpen(location, paired)
      /\ viewer.phase = "unmounted" => viewer = Unmounted
      /\ viewer.phase = "detecting" => viewer = Detecting
  BY DEF TabInv, Mounted
<1>3. /\ Unmounted.key = 0 /\ Unmounted.got = 0
      /\ Detecting.key = 0 /\ Detecting.got = 0
  BY DEF Unmounted, Detecting
<1>4. viewer.phase \notin {"unmounted", "detecting"} => IsTextViewer(viewer)
  BY <1>1 DEF ViewerType, IsTextViewer
<1>5. IsTextViewer(viewer) => viewer.phase # "unmounted"
  BY DEF IsTextViewer
<1> QED BY <1>1, <1>2, <1>3, <1>4, <1>5 DEF IsOpen

\* What the file's directory holds under its name
LEMMA CurrentFacts ==
  ASSUME ExplorerInv, location.type = "file"
  PROVE  /\ Current \in Nat /\ Current <= version /\ version \in Nat
         /\ Current # 0 => /\ disk[location.entry.dir] # Missing
                           /\ disk[location.entry.dir][location.entry.name] = Current
<1>1. /\ location.path = location.entry.dir /\ location.path \in Dirs
      /\ location.entry.name \in Names
      /\ version \in Nat /\ disk \in [Dirs -> [Names -> Nat] \cup {Missing}] /\ DiskFine
  BY KeyFacts DEF ExplorerInv, TypeOK
<1>2. CASE disk[location.path] = Missing
  BY <1>1, <1>2 DEF Current
<1>3. CASE disk[location.path] # Missing
  <2>1. disk[location.path] \in [Names -> Nat]
        /\ disk[location.path][location.entry.name] <= version
    BY <1>1, <1>3 DEF DiskFine
  <2> QED BY <1>1, <1>3, <2>1 DEF Current
<1> QED BY <1>2, <1>3

\* A viewer step that leaves the explorer alone keeps the types if it keeps
\* those of its own variables, and the viewer that of a mounted file.
LEMMA StepTyped ==
  ASSUME TabInv, UNCHANGED <<location, paired>>, ViewerTypeOK',
         \/ viewer' = viewer
         \/ viewer.phase # "unmounted" /\ IsTextViewer(viewer'),
         \A s \in Slots : saves'[s].mine => saves[s].mine \/ IsTextViewer(viewer)
  PROVE  Mounted'
<1>1. CASE viewer' = viewer
  BY <1>1 DEF TabInv, Mounted, IsOpen, IsTextViewer
<1>2. CASE viewer.phase # "unmounted" /\ IsTextViewer(viewer')
  <2>1. viewer'.phase \notin {"unmounted", "detecting"}
    BY <1>2 DEF IsTextViewer
  <2>2. IsOpen(location', paired')
    BY <1>2 DEF TabInv, Mounted, IsOpen
  <2> QED BY <1>2, <2>1, <2>2 DEF Mounted
<1> QED BY <1>1, <1>2

\* What a save's answer makes of the viewer that made it
SavedViewer(v, save) ==
  [v EXCEPT !.loaded = save.key, !.own = save.own, !.saved = save.text,
            !.draft = IF v.phase = "ready" THEN save.text ELSE @]

\* What the answer of a save makes of the viewer's text.
LEMMA SavedViewerFacts ==
  ASSUME NEW v \in ViewerType, NEW save \in SaveType, NEW w, w = SavedViewer(v, save)
  PROVE  /\ w \in ViewerType /\ w.phase = v.phase
         /\ w.loaded = save.key /\ w.own = save.own /\ w.saved = save.text
         /\ v.phase = "ready" => w.draft = save.text
         /\ w.key = v.key /\ w.got = v.got
<1>1. save.key \in Nat /\ save.text \in Nat /\ save.own \in Nat
  BY NoSaveFacts
<1>2. CASE v.phase = "ready"
  <2>1. w = [v EXCEPT !.loaded = save.key, !.own = save.own, !.saved = save.text,
                      !.draft = save.text]
    BY <1>2 DEF SavedViewer
  <2> QED BY <1>1, <1>2, <2>1 DEF ViewerType
<1>3. CASE v.phase # "ready"
  <2>1. w = [v EXCEPT !.loaded = save.key, !.own = save.own, !.saved = save.text]
    BY <1>3 DEF SavedViewer
  <2> QED BY <1>1, <1>3, <2>1 DEF ViewerType
<1> QED BY <1>2, <1>3

\* The answer ends the save and unmarks the tab.
LEMMA SavedStep ==
  ASSUME ViewerTypeOK, NEW s \in Slots, NEW key, Saved(s, key)
  PROVE  /\ saves[s].at = "measured" /\ saves' = [saves EXCEPT ![s] = NoSave]
         /\ saves' \in [Slots -> SaveType]
         /\ setDirty(IF saves[s].mine THEN SavedViewer(viewer, saves[s]) ELSE viewer, key, FALSE)
<1>1. saves[s].at = "measured" /\ saves' = [saves EXCEPT ![s] = NoSave]
  BY DEF Saved
<1>2. saves' \in [Slots -> SaveType]
  BY <1>1 DEF ViewerTypeOK, SaveType
<1>3. setDirty(IF saves[s].mine THEN SavedViewer(viewer, saves[s]) ELSE viewer, key, FALSE)
  BY DEF Saved, SavedViewer
<1> QED BY <1>1, <1>2, <1>3

\* The viewer's steps keep its type.
LEMMA ViewerNextTyped ==
  ASSUME TabInv, ViewerNext, UNCHANGED <<location, paired>>
  PROVE  ViewerTypeOK' /\ Mounted'
<1>1. PICK key : key = Key(location, rows)
  OBVIOUS
<1>2. /\ viewer \in ViewerType /\ saves \in [Slots -> SaveType] /\ dirty \in BOOLEAN
      /\ ExplorerInv /\ ViewerTypeOK
  BY DEF TabInv, ViewerTypeOK
<1>3. viewer.phase # "unmounted" => /\ key \in Nat \ {0} /\ location.type = "file"
                                    /\ Current \in Nat
  BY <1>1, <1>2, MountedFacts, KeyFacts, CurrentFacts
<1>4. CASE Detected(key)
  <2>1. PICK v : v = [Unmounted EXCEPT !.phase = "loading"]
    OBVIOUS
  <2>2. v \in ViewerType /\ IsTextViewer(v)
    BY <2>1, StatesTyped DEF ViewerType, IsTextViewer, Unmounted
  <2>3. viewer' = Load(v, key, dirty) /\ UNCHANGED <<saves, dirty>>
        /\ viewer.phase # "unmounted"
    BY <1>4, <2>1 DEF Detected
  <2>4. viewer' \in ViewerType /\ IsTextViewer(viewer')
    BY <1>2, <1>3, <2>2, <2>3, LoadFacts
  <2>5. ViewerTypeOK'
    BY <1>2, <2>3, <2>4 DEF ViewerTypeOK
  <2> QED BY <1>2, <2>3, <2>4, <2>5, StepTyped
<1>5. CASE viewer.key # 0 /\ ReadFile(Current)
  <2>1. /\ IsTextViewer(viewer) /\ viewer.phase # "unmounted"
        /\ viewer' = [viewer EXCEPT !.got = Current] /\ UNCHANGED <<saves, dirty>>
    BY <1>5, MountedFacts DEF ReadFile
  <2>2. viewer' \in ViewerType /\ IsTextViewer(viewer')
    BY <1>2, <1>3, <2>1 DEF ViewerType, IsTextViewer
  <2>3. ViewerTypeOK'
    BY <1>2, <2>1, <2>2 DEF ViewerTypeOK
  <2> QED BY <1>2, <2>1, <2>2, <2>3, StepTyped
<1>6. CASE Loaded
  <2>1. PICK c : c = Cancelled(viewer)
    OBVIOUS
  <2>2. /\ viewer.phase # "unmounted" /\ c \in ViewerType /\ UNCHANGED <<saves, dirty>>
        /\ viewer' = [c EXCEPT !.phase = "ready", !.loaded = viewer.key,
                               !.saved = viewer.got, !.draft = viewer.got]
    BY <1>2, <1>6, <2>1, MountedFacts, CancelledFacts DEF Loaded
  <2>3. viewer' \in ViewerType /\ IsTextViewer(viewer')
    BY <1>2, <2>2 DEF ViewerType, IsTextViewer
  <2>4. ViewerTypeOK'
    BY <1>2, <2>2, <2>3 DEF ViewerTypeOK
  <2> QED BY <1>2, <2>2, <2>3, <2>4, StepTyped
<1>7. CASE LoadFails
  <2>1. PICK c : c = Cancelled(viewer)
    OBVIOUS
  <2>2. /\ viewer.phase # "unmounted" /\ c \in ViewerType /\ UNCHANGED <<saves, dirty>>
        /\ viewer' = [c EXCEPT !.phase = "error"]
    BY <1>2, <1>7, <2>1, MountedFacts, CancelledFacts DEF LoadFails
  <2>3. viewer' \in ViewerType /\ IsTextViewer(viewer')
    BY <2>2 DEF ViewerType, IsTextViewer
  <2>4. ViewerTypeOK'
    BY <1>2, <2>2, <2>3 DEF ViewerTypeOK
  <2> QED BY <1>2, <2>2, <2>3, <2>4, StepTyped
<1>8. ASSUME NEW text \in {Edit, viewer.saved}, changeDraftText(text, key)
      PROVE  ViewerTypeOK' /\ Mounted'
  <2>1. PICK v : v = [viewer EXCEPT !.draft = text]
    OBVIOUS
  <2>2. PICK marked : marked = (text # viewer.saved)
    OBVIOUS
  <2>3. /\ viewer.phase = "ready" /\ UNCHANGED saves
        /\ setDirty(v, key, marked)
    BY <1>8, <2>1, <2>2 DEF changeDraftText
  <2>4. v \in ViewerType /\ IsTextViewer(v) /\ marked \in BOOLEAN
    BY <1>2, <2>1, <2>2, <2>3 DEF ViewerType, IsTextViewer
  <2>5. viewer' \in ViewerType /\ IsTextViewer(viewer') /\ dirty' \in BOOLEAN
    BY <1>3, <2>3, <2>4, DirtySet
  <2>6. ViewerTypeOK'
    BY <1>2, <2>3, <2>5 DEF ViewerTypeOK
  <2> QED BY <1>2, <2>3, <2>5, <2>6, StepTyped
<1>9. CASE saveDraftText([dir |-> location.path, name |-> location.entry.name], key)
  <2>1. PICK save : save = [at |-> "called",
                            file |-> [dir |-> location.path, name |-> location.entry.name],
                            key |-> key, text |-> 0, own |-> 0, mine |-> TRUE]
    OBVIOUS
  <2>2. PICK s \in Slots : saves' = [saves EXCEPT ![s] = save]
    BY <1>9, <2>1 DEF saveDraftText
  <2>3. viewer.phase = "ready" /\ IsTextViewer(viewer) /\ UNCHANGED <<viewer, dirty>>
    BY <1>9 DEF saveDraftText, IsTextViewer
  <2>4. save \in SaveType
    BY <1>2, <1>3, <2>1, <2>3, KeyFacts DEF SaveType, SaveRecord
  <2>5. ViewerTypeOK'
    BY <1>2, <2>2, <2>3, <2>4 DEF ViewerTypeOK
  <2> QED BY <2>3, <2>5, StepTyped
<1>10. ASSUME NEW s \in Slots, Saved(s, key)
       PROVE  ViewerTypeOK' /\ Mounted'
  <2>1. PICK v : v = IF saves[s].mine THEN SavedViewer(viewer, saves[s]) ELSE viewer
    OBVIOUS
  <2>2. /\ saves' = [saves EXCEPT ![s] = NoSave] /\ saves' \in [Slots -> SaveType]
        /\ setDirty(v, key, FALSE)
    BY <1>2, <1>10, <2>1, SavedStep
  <2>3. v \in ViewerType /\ v.phase = viewer.phase
    BY <1>2, <2>1, SavedViewerFacts
  <2>4. ~saves'[s].mine /\ \A u \in Slots : u # s => saves'[u] = saves[u]
    BY <1>2, <2>2 DEF NoSave
  <2>5. CASE IsTextViewer(viewer)
    <3>1. IsTextViewer(v) /\ viewer.phase # "unmounted"
      BY <2>3, <2>5 DEF IsTextViewer
    <3>2. viewer' \in ViewerType /\ IsTextViewer(viewer') /\ dirty' = FALSE
      BY <1>3, <2>2, <2>3, <3>1, DirtySet
    <3>3. ViewerTypeOK'
      BY <2>2, <3>2 DEF ViewerTypeOK
    <3> QED BY <2>4, <2>5, <3>1, <3>2, <3>3, StepTyped
  <2>6. CASE ~IsTextViewer(viewer)
    <3>1. ~saves[s].mine
      BY <2>6 DEF TabInv, Mounted
    <3>2. v = viewer /\ viewer' = viewer /\ dirty' = FALSE
      BY <2>1, <2>2, <2>6, <3>1 DEF setDirty
    <3>3. ViewerTypeOK'
      BY <1>2, <2>2, <3>2 DEF ViewerTypeOK
    <3> QED BY <2>4, <3>2, <3>3, StepTyped
  <2> QED BY <2>5, <2>6
<1>11. ASSUME NEW s \in Slots, SaveFails(s)
       PROVE  ViewerTypeOK' /\ Mounted'
  <2>1. saves' = [saves EXCEPT ![s] = NoSave] /\ UNCHANGED <<viewer, dirty>>
    BY <1>11 DEF SaveFails
  <2>2. ViewerTypeOK'
    BY <1>2, <2>1 DEF ViewerTypeOK, SaveType
  <2>3. ~saves'[s].mine /\ \A u \in Slots : u # s => saves'[u] = saves[u]
    BY <1>2, <2>1 DEF NoSave
  <2> QED BY <2>1, <2>2, <2>3, StepTyped
<1> QED BY <1>1, <1>4, <1>5, <1>6, <1>7, <1>8, <1>9, <1>10, <1>11 DEF ViewerNext

\* What a step of a save leaves as it was
SameSave(next, save) ==
  next \in SaveRecord /\ next.file = save.file /\ next.key = save.key
    /\ next.mine = save.mine

\* The save that has opened its file ...
LEMMA OpenedSave ==
  ASSUME NEW save \in SaveRecord, NEW next, next = [save EXCEPT !.at = "opened"]
  PROVE  SameSave(next, save) /\ next.at = "opened" /\ next.text = save.text
  BY DEF SaveRecord, SameSave

\* ... or measured it
LEMMA MeasuredSave ==
  ASSUME NEW save \in SaveRecord, NEW x \in Nat,
         NEW next, next = [save EXCEPT !.at = "measured", !.own = x]
  PROVE  SameSave(next, save) /\ next.at = "measured" /\ next.text = save.text
  BY DEF SaveRecord, SameSave

\* The daemon's steps of a save make the file newer, or leave the files alone.
LEMMA SavingStep ==
  ASSUME TabInv, NEW s \in Slots,
         TruncateFile(s) \/ WriteChunks(s) \/ MeasureFile(s)
  PROVE  /\ ExplorerInv' /\ Ages
         /\ saves[s] \in SaveRecord
         /\ UNCHANGED <<location, paired, rows, viewer, dirty>>
         /\ \E next : /\ saves' = [saves EXCEPT ![s] = next] /\ SameSave(next, saves[s])
                      /\ \/ next.at = "opened" /\ next.text = saves[s].text
                         \/ /\ next.at = "written" /\ next.text = version'
                            /\ version' = version + 1
                            /\ disk'[saves[s].file.dir][saves[s].file.name] = version'
                         \/ saves[s].at = "written" /\ next.text = saves[s].text
<1>1. /\ saves[s] \in SaveType /\ ExplorerInv /\ saves[s].at # "none"
      /\ UNCHANGED <<wire, clientVars, viewer, dirty>>
  BY DEF TruncateFile, WriteChunks, MeasureFile, Saving, SaveGoesOn, TabInv, ViewerTypeOK
<1>2. PICK save \in SaveRecord : save = saves[s]
  BY <1>1, NoSaveFacts
<1>3. PICK d \in Dirs, n \in Names : d = save.file.dir /\ n = save.file.name
  BY <1>2 DEF SaveRecord
<1>4. UNCHANGED <<location, history, paired, rows, phase>>
  BY <1>1 DEF clientVars, navVars, tableVars, sessionVars
<1>5. CASE TruncateFile(s)
  <2>1. Write(d, n) /\ saves' = [saves EXCEPT ![s] = [save EXCEPT !.at = "opened"]]
    BY <1>2, <1>3, <1>5 DEF TruncateFile, SaveGoesOn
  <2>2. ExplorerInv' /\ Ages
    BY <1>1, <2>1, WriteKeeps
  <2>3. PICK next : next = [save EXCEPT !.at = "opened"]
    OBVIOUS
  <2>4. SameSave(next, save) /\ next.at = "opened" /\ next.text = save.text
    BY <2>3, OpenedSave
  <2> QED BY <1>1, <1>2, <1>4, <2>1, <2>2, <2>3, <2>4
<1>6. CASE WriteChunks(s)
  <2>1. /\ Write(d, n)
        /\ saves' = [saves EXCEPT ![s] = [save EXCEPT !.at = "written", !.text = version']]
    BY <1>2, <1>3, <1>6 DEF WriteChunks, SaveGoesOn
  <2>2. ExplorerInv' /\ Ages /\ version' = version + 1 /\ disk'[d][n] = version'
    BY <1>1, <2>1, WriteKeeps
  <2>3. PICK made \in Nat : made = version'
    BY <2>2 DEF ExplorerInv, TypeOK
  <2>4. PICK next : next = [save EXCEPT !.at = "written", !.text = made]
    OBVIOUS
  <2>5. SameSave(next, save) /\ next.at = "written" /\ next.text = made
    BY <2>4 DEF SaveRecord, SameSave
  <2> QED BY <1>1, <1>2, <1>3, <1>4, <2>1, <2>2, <2>3, <2>4, <2>5
<1>7. CASE MeasureFile(s)
  <2>1. /\ save.at = "written" /\ disk[d] # Missing /\ UNCHANGED <<disk, version, feed>>
        /\ saves' = [saves EXCEPT ![s] = [save EXCEPT !.at = "measured", !.own = disk[d][n]]]
    BY <1>2, <1>3, <1>7 DEF MeasureFile, Saving, SaveGoesOn, IsThere
  <2>2. ExplorerInv'
    <3>1. feed \in FeedType
      BY <1>1, FeedRecord DEF ExplorerInv
    <3> QED BY <1>1, <1>4, <2>1, <3>1, LooseKeeps DEF Attached
  <2>3. PICK own \in Nat : own = disk[d][n]
    BY <1>1, <2>1 DEF ExplorerInv, TypeOK
  <2>4. PICK next : next = [save EXCEPT !.at = "measured", !.own = own]
    OBVIOUS
  <2>5. SameSave(next, save) /\ next.at = "measured" /\ next.text = save.text
    BY <2>4, MeasuredSave
  <2> QED BY <1>1, <1>2, <1>4, <2>1, <2>2, <2>3, <2>4, <2>5, SameAges
<1> QED BY <1>5, <1>6, <1>7

\* They keep the types.
LEMMA SavingTyped ==
  ASSUME TabInv, NEW s \in Slots,
         TruncateFile(s) \/ WriteChunks(s) \/ MeasureFile(s)
  PROVE  ViewerTypeOK' /\ Mounted'
<1>1. PICK next : saves' = [saves EXCEPT ![s] = next] /\ SameSave(next, saves[s])
  BY SavingStep
<1>2. /\ saves \in [Slots -> SaveType]
      /\ UNCHANGED <<location, paired, viewer, dirty>>
  BY SavingStep DEF TabInv, ViewerTypeOK
<1>3. next \in SaveType /\ next.mine = saves[s].mine
  BY <1>1 DEF SameSave, SaveType
<1>4. saves' \in [Slots -> SaveType]
      /\ \A u \in Slots : saves'[u].mine => saves[u].mine
  BY <1>1, <1>2, <1>3
<1>5. ViewerTypeOK'
  BY <1>2, <1>4 DEF TabInv, ViewerTypeOK
<1> QED BY <1>2, <1>4, <1>5, StepTyped

\* A new tab has no file open.
LEMMA InitTab == Init => TabInv
<1> SUFFICES ASSUME Init PROVE TabInv
  OBVIOUS
<1>1. saves = [s \in Slots |-> NoSave] /\ dirty = FALSE
  BY DEF Init, TextViewerInit
<1>2. saves \in [Slots -> SaveType] /\ \A s \in Slots : ~saves[s].mine
  BY <1>1 DEF SaveType, NoSave
<1>3. CASE IsOpen(location, paired)
  <2>1. viewer = Detecting
    BY <1>3 DEF Init
  <2> QED BY <1>1, <1>2, <1>3, <2>1, InitExplorer, StatesTyped
          DEF TabInv, ViewerTypeOK, Mounted
<1>4. CASE ~IsOpen(location, paired)
  <2>1. viewer = Unmounted
    BY <1>4 DEF Init
  <2> QED BY <1>1, <1>2, <1>4, <2>1, InitExplorer, StatesTyped
          DEF TabInv, ViewerTypeOK, Mounted
<1> QED BY <1>3, <1>4

\* Steps of others change neither the viewer nor what it shows.
LEMMA OthersTyped ==
  ASSUME TabInv, ExplorerInv', UNCHANGED <<viewerVars, location, paired>>
  PROVE  TabInv'
  BY DEF TabInv, ViewerTypeOK, Mounted, viewerVars, IsOpen, IsTextViewer

\* Every step keeps the types, the explorer's invariant and the pairing.
LEMMA NextTab == TabInv /\ [Next]_vars => TabInv'
<1> SUFFICES ASSUME TabInv, [Next]_vars PROVE TabInv'
  OBVIOUS
<1>0. ExplorerInv
  BY DEF TabInv
<1>1. CASE FeedsNext /\ UNCHANGED <<clientVars, viewerVars>>
  <2>1. UNCHANGED <<viewerVars, location, paired>>
    BY <1>1 DEF clientVars, navVars, sessionVars
  <2> QED BY <1>0, <1>1, <2>1, FeedsNextKeeps, OthersTyped
<1>2. CASE ExplorerSteps /\ ViewerFollows
  BY <1>0, <1>2, ExplorerStepsKeep, FollowTyped DEF TabInv
<1>3. CASE (DirectoryOpens \/ TrashViewNext) /\ ViewerStays
  BY <1>0, <1>3, TableStepsKeep, OthersTyped DEF ViewerStays
<1>4. CASE Remounted /\ ViewerRemounts
  BY <1>0, <1>4, RemountKeeps, RemountTyped DEF TabInv
<1>5. CASE ViewerNext /\ ExplorerStays
  <2>1. UNCHANGED <<disk, version, feed, wire, location, history, rows, phase, paired>>
    BY <1>5 DEF ExplorerStays, explorerVars, diskVars, dirVars, clientVars, navVars,
       tableVars, sessionVars
  <2>2. feed \in FeedType
    BY <1>0, FeedRecord DEF ExplorerInv
  <2>3. ExplorerInv'
    BY <1>0, <2>1, <2>2, LooseKeeps DEF Attached
  <2> QED BY <1>5, <2>1, <2>3, ViewerNextTyped DEF TabInv
<1>6. CASE \E s \in Slots : TruncateFile(s) \/ WriteChunks(s) \/ MeasureFile(s)
  BY <1>6, SavingStep, SavingTyped DEF TabInv
<1>7. CASE UNCHANGED vars
  <2>1. UNCHANGED <<disk, version, feed, wire, location, history, rows, phase, paired>>
    BY <1>7 DEF vars, explorerVars, diskVars, dirVars, clientVars, navVars,
       tableVars, sessionVars
  <2>2. feed \in FeedType /\ UNCHANGED viewerVars
    BY <1>0, <1>7, FeedRecord DEF ExplorerInv, vars
  <2>3. ExplorerInv'
    BY <1>0, <2>1, <2>2, LooseKeeps DEF Attached
  <2> QED BY <2>1, <2>2, <2>3, OthersTyped
<1> QED BY <1>1, <1>2, <1>3, <1>4, <1>5, <1>6, <1>7 DEF Next, ExplorerSteps

\* The rows on show are of the tab's directory, one to a name, although loops
\* of directories that were left still get events (explorer.ts 332-400).
THEOREM RowsAreOfLocation == Spec => []RowsOfLocation
<1>1. TabInv => RowsOfLocation
  BY DEF TabInv, ExplorerInv, FeedFine, RowsFine, RowsOfLocation
<1> QED BY <1>1, InitTab, NextTab, PTL DEF Spec

-----------------------------------------------------------------------------
(* The texts, for a user who waits for the end of a save *)

\* The text is of a version that the file at the location has had.
Text(loc, v) == NotNewer(loc.entry.dir, loc.entry.name, v)

\* A version measured for a save is not read again, for it is that of the
\* version loaded; text is of that version or a newer one, and marked exactly
\* when it is not saved.
Prepared(v, marked, key, loc) ==
  /\ v.own # 0 => v.loaded = key
  /\ v.phase = "ready" =>
       /\ v.loaded = key /\ v.saved >= key /\ Text(loc, v.saved)
       /\ marked <=> v.draft # v.saved

\* A read is for the version shown and not older, and never under the mark.
ViewerFine(v, marked, key, loc) ==
  /\ Prepared(v, marked, key, loc)
  /\ v.key # 0 => v.phase = "loading" /\ v.key = key /\ ~marked
  /\ v.got # 0 => v.key # 0 /\ v.got >= v.key /\ Text(loc, v.got)

\* A save is of marked text; when the viewer that made it is gone, its successor
\* shows no text.
SaveFine(save) ==
  /\ NotNewer(save.file.dir, save.file.name, save.key)
  /\ NotNewer(save.file.dir, save.file.name, save.text)
  /\ save.at \in {"written", "measured"} => save.text >= save.key
  /\ dirty
  /\ save.mine => /\ viewer.phase = "ready" /\ save.key = Key(location, rows)
                  /\ save.file.dir = location.entry.dir
                  /\ save.file.name = location.entry.name
  /\ ~save.mine => viewer.phase # "ready"

SavesFine ==
  /\ \A s, u \in Slots : saves[s] # NoSave /\ saves[u] # NoSave => s = u
  /\ \A s \in Slots : saves[s] # NoSave => SaveFine(saves[s])

TextInv ==
  /\ TabInv
  /\ ViewerFine(viewer, dirty, Key(location, rows), location)
  /\ SavesFine

\* The effect that loads the text (text/index.tsx 75-139): what it leaves is
\* fine for the version it is run for, and text stays on show.
LEMMA LoadFine ==
  ASSUME NEW v \in ViewerType, NEW key \in Nat \ {0}, NEW marked \in BOOLEAN,
         IsTextViewer(v), NEW loc, Prepared(v, marked, key, loc),
         NEW w, w = Load(v, key, marked)
  PROVE  /\ ViewerFine(w, marked, key, loc)
         /\ w.phase = "ready" <=> v.phase = "ready"
<1>1. CASE /\ marked \/ v.loaded = key
           /\ w.phase = v.phase /\ w.draft = v.draft /\ w.saved = v.saved
           /\ w.loaded = v.loaded /\ w.own = v.own /\ w.key = 0 /\ w.got = 0
  BY <1>1 DEF ViewerFine, Prepared
<1>2. CASE /\ ~marked /\ v.own = key
           /\ w.phase = v.phase /\ w.draft = v.draft /\ w.saved = v.saved
           /\ w.loaded = key /\ w.own = 0 /\ w.key = 0 /\ w.got = 0
  BY <1>2 DEF ViewerFine, Prepared
<1>3. CASE ~marked /\ v.loaded # key /\ v.own # key
  <2>1. v.phase # "ready"
    BY <1>3 DEF Prepared
  <2>2. w = [Cancelled(v) EXCEPT !.phase = "loading", !.saved = 0, !.draft = 0,
                                 !.key = key]
    BY <1>3, LoadCases
  <2>3. PICK c : c = Cancelled(v)
    OBVIOUS
  <2>4. c \in ViewerType /\ c.own = v.own /\ c.loaded = v.loaded /\ c.got = 0
    BY <2>3, CancelledFacts
  <2>5. /\ w.phase = "loading" /\ w.key = key /\ w.got = 0
        /\ w.own = v.own /\ w.loaded = v.loaded
    BY <2>2, <2>3, <2>4 DEF ViewerType
  <2> QED BY <1>3, <2>1, <2>5 DEF ViewerFine, Prepared
<1>4. CASE marked \/ v.loaded = key
  <2>1. PICK c : c = Cancelled(v)
    OBVIOUS
  <2>2. w = c
    BY <1>4, <2>1, LoadCases
  <2> QED BY <1>1, <1>4, <2>1, <2>2, CancelledFacts
<1>5. CASE ~marked /\ v.loaded # key /\ v.own = key
  <2>1. FALSE
    BY <1>5 DEF Prepared
  <2> QED BY <2>1
<1> QED BY <1>3, <1>4, <1>5

\* Fine in the new state is fine with the files as they were.
LEMMA SameFine ==
  ASSUME UNCHANGED <<disk, version>>,
         ViewerFine(viewer', dirty', Key(location', rows'), location')
  PROVE  ViewerFine(viewer, dirty, Key(location, rows), location)'
  BY DEF ViewerFine, Prepared, Text, NotNewer

\* Saves stay fine while files change.
LEMMA SavesAge ==
  ASSUME SavesFine, saves \in [Slots -> SaveType], Ages,
         UNCHANGED <<viewer, saves, dirty, location, rows>>
  PROVE  SavesFine'
<1>1. ASSUME NEW s \in Slots, saves[s] # NoSave
      PROVE  SaveFine(saves[s])'
  <2>1. /\ saves[s].file.dir \in Dirs /\ saves[s].file.name \in Names
        /\ saves[s].key \in Nat /\ saves[s].text \in Nat
    BY <1>1 DEF SaveType, SaveRecord
  <2>2. SaveFine(saves[s])
    BY <1>1 DEF SavesFine
  <2>3. /\ NotNewer(saves[s].file.dir, saves[s].file.name, saves[s].key)'
        /\ NotNewer(saves[s].file.dir, saves[s].file.name, saves[s].text)'
    BY <2>1, <2>2 DEF SaveFine, Ages
  <2> QED BY <2>2, <2>3 DEF SaveFine
<1> QED BY <1>1 DEF SavesFine

\* Only the files get older.
LEMMA FineStays ==
  ASSUME TextInv, Ages, UNCHANGED <<viewer, dirty, location, rows>>
  PROVE  ViewerFine(viewer, dirty, Key(location, rows), location)'
<1>1. viewer \in ViewerType /\ ExplorerInv
  BY DEF TextInv, TabInv, ViewerTypeOK
<1>2. viewer.got \in Nat /\ viewer.saved \in Nat
  BY <1>1 DEF ViewerType
<1>3. CASE location.type = "file"
  <2>1. /\ location.entry.dir \in Dirs /\ location.entry.name \in Names
    BY <1>1, <1>3, KeyFacts
  <2>2. \A v \in Nat : Text(location, v) => Text(location, v)'
    BY <2>1 DEF Text, Ages
  <2> QED BY <1>1, <1>2, <2>2 DEF TextInv, ViewerFine, Prepared
<1>4. CASE location.type # "file"
  <2>1. viewer = Unmounted
    BY <1>4 DEF TextInv, TabInv, Mounted, IsOpen
  <2> QED BY <1>1, <2>1 DEF ViewerFine, Prepared, Unmounted
<1> QED BY <1>3, <1>4

\* So does the whole tab, if nothing but files changes.
LEMMA FineAges ==
  ASSUME TextInv, TabInv', Ages, UNCHANGED <<viewerVars, location, rows, paired>>
  PROVE  TextInv'
<1>1. /\ saves \in [Slots -> SaveType] /\ SavesFine
      /\ UNCHANGED <<viewer, saves, dirty>>
  BY DEF TextInv, TabInv, ViewerTypeOK, viewerVars
<1> QED BY <1>1, FineStays, SavesAge DEF TextInv

\* The viewer that comes into being, or none, shows no text.
LEMMA FreshFine ==
  ASSUME TextInv, UNCHANGED <<disk, version, dirty>>,
         viewer' \in {Unmounted, Detecting}, saves' = Disowned
  PROVE  /\ ViewerFine(viewer, dirty, Key(location, rows), location)'
         /\ SavesFine'
<1>1. /\ viewer'.phase # "ready" /\ viewer'.key = 0 /\ viewer'.got = 0 /\ viewer'.own = 0
  BY DEF Unmounted, Detecting
<1>2. ViewerFine(viewer, dirty, Key(location, rows), location)'
  BY <1>1 DEF ViewerFine, Prepared
<1>3. saves \in [Slots -> SaveType]
  BY DEF TextInv, TabInv, ViewerTypeOK
<1>4. ASSUME NEW s \in Slots, saves'[s] # NoSave
      PROVE  SaveFine(saves[s])'
  <2>1. /\ saves[s] # NoSave /\ ~saves'[s].mine /\ saves'[s].file = saves[s].file
        /\ saves'[s].key = saves[s].key /\ saves'[s].text = saves[s].text
        /\ saves'[s].at = saves[s].at
    BY <1>3, <1>4, DisownedFacts
  <2>2. SaveFine(saves[s])
    BY <2>1 DEF TextInv, SavesFine
  <2> QED BY <1>1, <2>1, <2>2 DEF SaveFine, NotNewer
<1>5. \A s \in Slots : saves'[s] # NoSave => saves[s] # NoSave
  BY <1>3, DisownedFacts
<1> QED BY <1>2, <1>4, <1>5 DEF TextInv, SavesFine

\* A step that neither shows nor hides text keeps the saves fine.
LEMMA LoadedSaves ==
  ASSUME SavesFine, UNCHANGED <<disk, version>>,
         UNCHANGED <<saves, dirty, location>>, Key(location', rows') = Key(location, rows),
         viewer'.phase = "ready" <=> viewer.phase = "ready"
  PROVE  SavesFine'
<1>1. ASSUME NEW s \in Slots, saves[s] # NoSave
      PROVE  SaveFine(saves[s])'
  BY <1>1 DEF SavesFine, SaveFine, NotNewer
<1> QED BY <1>1 DEF SavesFine

\* The viewer is made anew, or its entry is the one it was.
LEMMA FollowFine ==
  ASSUME TextInv, TabInv', UNCHANGED <<disk, version>>, ViewerFollows
  PROVE  TextInv'
<1>1. PICK newEntry \in BOOLEAN :
        /\ newEntry <=> (location' # location \/ RowOf(location', rows') # RowOf(location, rows))
        /\ Follow(IsOpen(location', paired'), newEntry)
  BY DEF ViewerFollows
<1>2. dirty' = dirty
  BY <1>1 DEF Follow
<1>3. CASE viewer' \in {Unmounted, Detecting} /\ saves' = Disowned
  BY <1>2, <1>3, FreshFine DEF TextInv
<1>4. CASE ~newEntry /\ UNCHANGED <<viewer, saves>>
  <2>1. location' = location /\ Key(location', rows') = Key(location, rows)
    BY <1>1, <1>4, KeyStays
  <2>2. ViewerFine(viewer', dirty', Key(location', rows'), location')
    BY <1>2, <1>4, <2>1 DEF TextInv
  <2>3. SavesFine'
    BY <1>2, <1>4, <2>1, LoadedSaves DEF TextInv
  <2> QED BY <2>2, <2>3, SameFine DEF TextInv
<1> QED BY <1>1, <1>3, <1>4 DEF Follow

\* A new viewer has no text that could be wrong.
LEMMA RemountFine ==
  ASSUME TextInv, TabInv', UNCHANGED <<disk, version>>, ViewerRemounts
  PROVE  TextInv'
<1>1. viewer' \in {Unmounted, Detecting} /\ saves' = Disowned /\ UNCHANGED dirty
  BY DEF ViewerRemounts
<1> QED BY <1>1, FreshFine DEF TextInv

\* What the facts about texts say of a mounted viewer
LEMMA TextFacts ==
  ASSUME TextInv, NEW key, key = Key(location, rows)
  PROVE  /\ viewer \in ViewerType /\ saves \in [Slots -> SaveType] /\ dirty \in BOOLEAN
         /\ TabInv /\ ExplorerInv /\ SavesFine
         /\ ViewerFine(viewer, dirty, key, location)
         /\ viewer.phase # "unmounted" =>
              /\ location.type = "file" /\ key \in Nat \ {0} /\ Text(location, key)
              /\ Current \in Nat
              /\ \A v \in Nat : Text(location, v) /\ Current # 0 => v <= Current
              /\ Current # 0 => Text(location, Current)
<1>1. TabInv /\ ExplorerInv /\ SavesFine /\ ViewerFine(viewer, dirty, key, location)
  BY DEF TextInv, TabInv
<1>2. /\ viewer \in ViewerType /\ saves \in [Slots -> SaveType] /\ dirty \in BOOLEAN
  BY <1>1 DEF TabInv, ViewerTypeOK
<1>3. ASSUME viewer.phase # "unmounted"
      PROVE  /\ location.type = "file" /\ key \in Nat \ {0} /\ Text(location, key)
             /\ Current \in Nat
             /\ \A v \in Nat : Text(location, v) /\ Current # 0 => v <= Current
             /\ Current # 0 => Text(location, Current)
  <2>1. location.type = "file"
    BY <1>1, <1>3, MountedFacts
  <2>2. key \in Nat \ {0} /\ Text(location, key)
    BY <1>1, <2>1, KeyFacts DEF Text
  <2>3. /\ Current \in Nat /\ Current <= version /\ version \in Nat
        /\ Current # 0 => /\ disk[location.entry.dir] # Missing
                          /\ disk[location.entry.dir][location.entry.name] = Current
    BY <1>1, <2>1, CurrentFacts
  <2> QED BY <2>1, <2>2, <2>3 DEF Text, NotNewer
<1> QED BY <1>1, <1>2, <1>3

\* The detected kind mounts the text viewer, which loads.
LEMMA DetectedFine ==
  ASSUME TextInv, UNCHANGED <<disk, version, location, rows>>,
         Detected(Key(location, rows))
  PROVE  ViewerFine(viewer, dirty, Key(location, rows), location)' /\ SavesFine'
<1>1. PICK key : key = Key(location, rows)
  OBVIOUS
<1>2. PICK v : v = [Unmounted EXCEPT !.phase = "loading"]
  OBVIOUS
<1>3. /\ viewer' = Load(v, key, dirty) /\ UNCHANGED <<saves, dirty>>
      /\ viewer.phase = "detecting"
  BY <1>1, <1>2 DEF Detected
<1>4. v \in ViewerType /\ v.phase = "loading" /\ v.own = 0
  BY <1>2 DEF ViewerType, Unmounted
<1>5. Prepared(v, dirty, key, location) /\ IsTextViewer(v)
  BY <1>4 DEF Prepared, IsTextViewer
<1>6. key \in Nat \ {0} /\ dirty \in BOOLEAN /\ SavesFine
  BY <1>1, <1>3, TextFacts
<1>7. ViewerFine(viewer', dirty, key, location) /\ viewer'.phase # "ready"
  BY <1>3, <1>4, <1>5, <1>6, LoadFine
<1>8. ViewerFine(viewer, dirty, Key(location, rows), location)'
  BY <1>1, <1>3, <1>7, SameFine
<1> QED BY <1>3, <1>6, <1>7, <1>8, LoadedSaves

\* A read returns the file as it is: not older than the version shown.
LEMMA ReadFine ==
  ASSUME TextInv, UNCHANGED <<disk, version, location, rows>>,
         viewer.key # 0, ReadFile(Current)
  PROVE  ViewerFine(viewer, dirty, Key(location, rows), location)' /\ SavesFine'
<1>1. PICK key : key = Key(location, rows)
  OBVIOUS
<1>2. /\ viewer' = [viewer EXCEPT !.got = Current] /\ UNCHANGED <<saves, dirty>>
      /\ Current # 0
  BY DEF ReadFile
<1>3. /\ viewer.phase = "loading" /\ viewer.key = key
      /\ viewer \in ViewerType /\ SavesFine
      /\ ViewerFine(viewer, dirty, key, location)
  BY <1>1, TextFacts DEF ViewerFine
<1>4. /\ key \in Nat \ {0} /\ Text(location, key) /\ Current \in Nat
      /\ key <= Current /\ Text(location, Current)
  BY <1>1, <1>2, <1>3, TextFacts
<1>5. /\ viewer'.phase = "loading" /\ viewer'.key = key /\ viewer'.got = Current
      /\ viewer'.own = viewer.own /\ viewer'.loaded = viewer.loaded
  BY <1>2, <1>3 DEF ViewerType
<1>6. ViewerFine(viewer', dirty, key, location)
  BY <1>2, <1>3, <1>4, <1>5 DEF ViewerFine, Prepared
<1>7. ViewerFine(viewer, dirty, Key(location, rows), location)'
  BY <1>1, <1>2, <1>6, SameFine
<1> QED BY <1>2, <1>3, <1>5, <1>7, LoadedSaves

\* The answer of a read, or its failure.
LEMMA LoadedFine ==
  ASSUME TextInv, UNCHANGED <<disk, version, location, rows>>, Loaded \/ LoadFails
  PROVE  ViewerFine(viewer, dirty, Key(location, rows), location)' /\ SavesFine'
<1>1. PICK key : key = Key(location, rows)
  OBVIOUS
<1>2. PICK c : c = Cancelled(viewer)
  OBVIOUS
<1>3. /\ viewer \in ViewerType /\ SavesFine
      /\ ViewerFine(viewer, dirty, key, location)
  BY <1>1, TextFacts
<1>4. /\ viewer.phase = "loading" /\ viewer.key = key /\ UNCHANGED <<saves, dirty>>
      /\ ~dirty /\ c \in ViewerType /\ c.key = 0 /\ c.got = 0
      /\ c.own = viewer.own /\ c.loaded = viewer.loaded
  BY <1>2, <1>3, CancelledFacts DEF Loaded, LoadFails, ViewerFine
<1>5. \A s \in Slots : saves[s] = NoSave
  BY <1>3, <1>4 DEF SavesFine, SaveFine
<1>6. CASE Loaded
  <2>1. /\ viewer.got # 0
        /\ viewer' = [c EXCEPT !.phase = "ready", !.loaded = viewer.key,
                               !.saved = viewer.got, !.draft = viewer.got]
    BY <1>2, <1>6 DEF Loaded
  <2>2. /\ viewer'.phase = "ready" /\ viewer'.loaded = key /\ viewer'.saved = viewer.got
        /\ viewer'.draft = viewer.got /\ viewer'.own = viewer.own
        /\ viewer'.key = 0 /\ viewer'.got = 0
    BY <1>4, <2>1 DEF ViewerType
  <2>3. ViewerFine(viewer', dirty, key, location)
    BY <1>3, <1>4, <2>1, <2>2 DEF ViewerFine, Prepared
  <2>4. ViewerFine(viewer, dirty, Key(location, rows), location)'
    BY <1>1, <1>4, <2>3, SameFine
  <2> QED BY <1>4, <1>5, <2>4 DEF SavesFine
<1>7. CASE LoadFails
  <2>1. viewer' = [c EXCEPT !.phase = "error"]
    BY <1>2, <1>7 DEF LoadFails
  <2>2. viewer'.phase = "error" /\ viewer'.own = viewer.own
        /\ viewer'.loaded = viewer.loaded /\ viewer'.key = 0 /\ viewer'.got = 0
    BY <1>4, <2>1 DEF ViewerType
  <2>3. ViewerFine(viewer', dirty, key, location)
    BY <1>3, <2>2 DEF ViewerFine, Prepared
  <2>4. ViewerFine(viewer, dirty, Key(location, rows), location)'
    BY <1>1, <1>4, <2>3, SameFine
  <2> QED BY <1>4, <1>5, <2>4 DEF SavesFine
<1> QED BY <1>6, <1>7

\* The mark is set for a prepared viewer.
LEMMA SetFine ==
  ASSUME NEW v \in ViewerType, NEW key \in Nat \ {0}, NEW marked \in BOOLEAN,
         setDirty(v, key, marked), IsTextViewer(v),
         Prepared(v, marked, key, location),
         marked = dirty => ViewerFine(v, marked, key, location)
  PROVE  ViewerFine(viewer', marked, key, location) /\ dirty' = marked
<1>1. CASE marked = dirty
  BY <1>1, DirtySet
<1>2. CASE marked # dirty
  <2>1. viewer' = Load(v, key, marked) /\ dirty' = marked
    BY <1>2, DirtySet
  <2> QED BY <2>1, LoadFine
<1> QED BY <1>1, <1>2

\* The user's edits: text is marked exactly when it is not the saved one.
LEMMA ChangeFine ==
  ASSUME Patient, TextInv, UNCHANGED <<disk, version, location, rows>>,
         NEW text \in {Edit, viewer.saved}, changeDraftText(text, Key(location, rows))
  PROVE  ViewerFine(viewer, dirty, Key(location, rows), location)' /\ SavesFine'
<1>1. PICK key : key = Key(location, rows)
  OBVIOUS
<1>2. PICK v : v = [viewer EXCEPT !.draft = text]
  OBVIOUS
<1>3. PICK marked : marked = (text # viewer.saved)
  OBVIOUS
<1>4. /\ viewer.phase = "ready" /\ saves' = saves /\ \A s \in Slots : saves[s] = NoSave
      /\ setDirty(v, key, marked)
  BY <1>1, <1>2, <1>3 DEF changeDraftText
<1>5. /\ viewer \in ViewerType /\ key \in Nat \ {0} /\ marked \in BOOLEAN
      /\ ViewerFine(viewer, dirty, key, location) /\ dirty \in BOOLEAN
  BY <1>1, <1>3, <1>4, TextFacts
<1>6. /\ v \in ViewerType /\ v.phase = "ready" /\ v.draft = text /\ v.saved = viewer.saved
      /\ v.loaded = viewer.loaded /\ v.own = viewer.own
      /\ v.key = viewer.key /\ v.got = viewer.got
  BY <1>2, <1>4, <1>5 DEF ViewerType
<1>7. IsTextViewer(v) /\ Prepared(v, marked, key, location)
  BY <1>3, <1>4, <1>5, <1>6 DEF IsTextViewer, ViewerFine, Prepared
<1>8. ViewerFine(v, marked, key, location)
  BY <1>4, <1>5, <1>6, <1>7 DEF ViewerFine
<1>9. ViewerFine(viewer', marked, key, location) /\ dirty' = marked
  BY <1>4, <1>5, <1>6, <1>7, <1>8, SetFine
<1>10. ViewerFine(viewer, dirty, Key(location, rows), location)'
  BY <1>1, <1>9, SameFine
<1> QED BY <1>4, <1>10 DEF SavesFine

\* A user who waits starts a save of marked text only, and one at a time.
LEMMA SaveDraftFine ==
  ASSUME Patient, TextInv, UNCHANGED <<disk, version, location, rows>>,
         saveDraftText([dir |-> location.path, name |-> location.entry.name],
                       Key(location, rows))
  PROVE  ViewerFine(viewer, dirty, Key(location, rows), location)' /\ SavesFine'
<1>1. PICK key : key = Key(location, rows)
  OBVIOUS
<1>2. PICK save : save = [at |-> "called",
                          file |-> [dir |-> location.path, name |-> location.entry.name],
                          key |-> key, text |-> 0, own |-> 0, mine |-> TRUE]
  OBVIOUS
<1>3. PICK s \in Slots : saves' = [saves EXCEPT ![s] = save]
  BY <1>1, <1>2 DEF saveDraftText
<1>4. /\ viewer.phase = "ready" /\ dirty /\ \A u \in Slots : saves[u] = NoSave
      /\ UNCHANGED <<viewer, dirty>>
  BY DEF saveDraftText
<1>5. /\ saves \in [Slots -> SaveType] /\ ViewerFine(viewer, dirty, key, location)
      /\ location.type = "file" /\ key \in Nat \ {0} /\ Text(location, key)
      /\ ExplorerInv
  BY <1>1, <1>4, TextFacts
<1>6. /\ saves'[s] = save /\ \A u \in Slots : u # s => saves'[u] = NoSave
  BY <1>3, <1>4, <1>5
<1>7. /\ save.file.dir = location.entry.dir /\ save.file.name = location.entry.name
      /\ save.key = key /\ save.text = 0 /\ save.mine /\ save.at = "called"
  BY <1>2, <1>5, KeyFacts
<1>8. version \in Nat /\ disk \in [Dirs -> [Names -> Nat] \cup {Missing}]
      /\ location.entry.dir \in Dirs /\ location.entry.name \in Names
  BY <1>5, KeyFacts DEF ExplorerInv, TypeOK
<1>9. NotNewer(location.entry.dir, location.entry.name, 0)
  BY <1>8 DEF NotNewer
<1>10. SaveFine(save)'
  BY <1>1, <1>4, <1>5, <1>7, <1>9 DEF SaveFine, NotNewer, Text
<1>11. SavesFine'
  BY <1>6, <1>10 DEF SavesFine
<1>12. ViewerFine(viewer, dirty, Key(location, rows), location)'
  BY <1>1, <1>4, <1>5, SameFine
<1> QED BY <1>11, <1>12

\* A save has ended: there is none then.
LEMMA NoSaveLeft ==
  ASSUME SavesFine, saves \in [Slots -> SaveType], NEW s \in Slots, saves[s] # NoSave,
         saves' = [saves EXCEPT ![s] = NoSave]
  PROVE  SavesFine'
<1>1. \A u \in Slots : saves'[u] = NoSave
  BY DEF SavesFine
<1> QED BY <1>1 DEF SavesFine

\* The answer of a save: the text saved is its viewer's, and any other viewer
\* shows none.
LEMMA SavedFine ==
  ASSUME TextInv, UNCHANGED <<disk, version, location, rows>>,
         NEW s \in Slots, Saved(s, Key(location, rows))
  PROVE  ViewerFine(viewer, dirty, Key(location, rows), location)' /\ SavesFine'
<1>1. PICK key : key = Key(location, rows)
  OBVIOUS
<1>2. PICK v : v = IF saves[s].mine THEN SavedViewer(viewer, saves[s]) ELSE viewer
  OBVIOUS
<1>3. /\ viewer \in ViewerType /\ saves \in [Slots -> SaveType] /\ SavesFine /\ TabInv
      /\ ViewerFine(viewer, dirty, key, location) /\ dirty \in BOOLEAN
      /\ viewer.phase # "unmounted" => key \in Nat \ {0}
  BY <1>1, TextFacts
<1>4. /\ saves' = [saves EXCEPT ![s] = NoSave] /\ saves[s].at = "measured"
      /\ setDirty(v, key, FALSE)
  BY <1>1, <1>2, <1>3, SavedStep DEF TabInv
<1>5. saves[s] \in SaveType /\ saves[s] # NoSave /\ SaveFine(saves[s])
  BY <1>3, <1>4, NoSaveFacts DEF SavesFine
<1>6. SavesFine'
  BY <1>3, <1>4, <1>5, NoSaveLeft
<1>7. CASE saves[s].mine
  <2>1. /\ viewer.phase = "ready" /\ dirty /\ saves[s].key = key
        /\ saves[s].text >= key /\ Text(location, saves[s].text)
    BY <1>1, <1>4, <1>5, <1>7 DEF SaveFine, Text
  <2>2. /\ v \in ViewerType /\ v.phase = "ready" /\ v.loaded = key
        /\ v.saved = saves[s].text /\ v.draft = saves[s].text
    <3>1. v = SavedViewer(viewer, saves[s])
      BY <1>2, <1>7
    <3> QED BY <1>3, <1>5, <2>1, <3>1, SavedViewerFacts
  <2>3. IsTextViewer(v) /\ Prepared(v, FALSE, key, location)
    BY <2>1, <2>2 DEF IsTextViewer, Prepared
  <2>4. ViewerFine(viewer', FALSE, key, location) /\ dirty' = FALSE
    BY <1>3, <1>4, <2>1, <2>2, <2>3, SetFine
  <2>5. ViewerFine(viewer, dirty, Key(location, rows), location)'
    BY <1>1, <2>4, SameFine
  <2> QED BY <1>6, <2>5
<1>8. CASE ~saves[s].mine
  <2>1. v = viewer /\ viewer.phase # "ready" /\ dirty
    BY <1>2, <1>5, <1>8 DEF SaveFine
  <2>2. Prepared(v, FALSE, key, location)
    BY <1>3, <2>1 DEF ViewerFine, Prepared
  <2>3. CASE IsTextViewer(viewer)
    <3>1. key \in Nat \ {0} /\ IsTextViewer(v) /\ v \in ViewerType
      BY <1>3, <2>1, <2>3 DEF IsTextViewer
    <3>2. ViewerFine(viewer', FALSE, key, location) /\ dirty' = FALSE
      BY <1>4, <2>1, <2>2, <3>1, SetFine
    <3>3. ViewerFine(viewer, dirty, Key(location, rows), location)'
      BY <1>1, <3>2, SameFine
    <3> QED BY <1>6, <3>3
  <2>4. CASE ~IsTextViewer(viewer)
    <3>1. viewer' = viewer /\ dirty' = FALSE
      BY <1>4, <2>1, <2>4 DEF setDirty
    <3>2. ViewerFine(viewer', dirty', key, location)
      BY <1>3, <2>1, <3>1 DEF ViewerFine, Prepared
    <3>3. ViewerFine(viewer, dirty, Key(location, rows), location)'
      BY <1>1, <3>2, SameFine
    <3> QED BY <1>6, <3>3
  <2> QED BY <2>3, <2>4
<1> QED BY <1>7, <1>8

\* The daemon's steps of a save leave it the newest text of the file, whatever
\* other programs do between them.
LEMMA SavingFine ==
  ASSUME TextInv, TabInv', NEW s \in Slots,
         TruncateFile(s) \/ WriteChunks(s) \/ MeasureFile(s)
  PROVE  TextInv'
<1>1. PICK save : save = saves[s]
  OBVIOUS
<1>2. PICK next :
        /\ saves' = [saves EXCEPT ![s] = next] /\ SameSave(next, save)
        /\ \/ next.at = "opened" /\ next.text = save.text
           \/ /\ next.at = "written" /\ next.text = version' /\ version' = version + 1
              /\ disk'[save.file.dir][save.file.name] = version'
           \/ save.at = "written" /\ next.text = save.text
  BY <1>1, SavingStep DEF TextInv
<1>3. /\ Ages /\ save \in SaveRecord
      /\ UNCHANGED <<location, paired, rows, viewer, dirty>>
  BY <1>1, SavingStep DEF TextInv
<1>4. /\ saves \in [Slots -> SaveType] /\ SavesFine /\ version \in Nat
      /\ save # NoSave
  BY <1>3, NoSaveFacts DEF TextInv, TabInv, ViewerTypeOK, ExplorerInv, TypeOK, SaveRecord,
     SaveType
<1>5. /\ SaveFine(save) /\ save.key \in Nat /\ save.text \in Nat
      /\ save.file.dir \in Dirs /\ save.file.name \in Names
  BY <1>1, <1>3, <1>4 DEF SavesFine, SaveRecord
<1>6. /\ next.file = save.file /\ next.key = save.key /\ next.mine = save.mine
  BY <1>2 DEF SameSave
<1>7. /\ NotNewer(save.file.dir, save.file.name, save.key)'
      /\ NotNewer(save.file.dir, save.file.name, save.text)'
      /\ save.key <= version
  BY <1>3, <1>5 DEF SaveFine, Ages, NotNewer
<1>8. /\ NotNewer(save.file.dir, save.file.name, next.text)'
      /\ next.at \in {"written", "measured"} => next.text >= save.key
  <2>1. CASE next.at = "opened" /\ next.text = save.text
    BY <1>7, <2>1
  <2>2. CASE /\ next.at = "written" /\ next.text = version' /\ version' = version + 1
             /\ disk'[save.file.dir][save.file.name] = version'
    BY <1>4, <1>5, <1>7, <2>2 DEF NotNewer
  <2>3. CASE save.at = "written" /\ next.text = save.text
    BY <1>5, <1>7, <2>3 DEF SaveFine
  <2> QED BY <1>2, <2>1, <2>2, <2>3
<1>9. SaveFine(next)'
  BY <1>3, <1>5, <1>6, <1>7, <1>8 DEF SaveFine, NotNewer
<1>10. SavesFine'
  <2>1. /\ saves'[s] = next /\ \A u \in Slots : u # s => saves'[u] = saves[u]
    BY <1>2, <1>4
  <2>2. \A u \in Slots : u # s => saves'[u] = NoSave
    BY <1>1, <1>4, <2>1 DEF SavesFine
  <2> QED BY <1>9, <2>1, <2>2 DEF SavesFine
<1>11. ViewerFine(viewer, dirty, Key(location, rows), location)'
  BY <1>3, FineStays
<1> QED BY <1>10, <1>11 DEF TextInv

\* Every step of the viewer keeps the invariant of the text.
LEMMA ViewerNextFine ==
  ASSUME Patient, TextInv, TabInv', ViewerNext,
         UNCHANGED <<disk, version, location, rows>>
  PROVE  TextInv'
<1>1. PICK key : key = Key(location, rows)
  OBVIOUS
<1>2. ASSUME NEW s \in Slots, SaveFails(s)
      PROVE  ViewerFine(viewer, dirty, Key(location, rows), location)' /\ SavesFine'
  <2>1. /\ saves' = [saves EXCEPT ![s] = NoSave] /\ saves[s] # NoSave
        /\ UNCHANGED <<viewer, dirty>>
    BY <1>2 DEF SaveFails
  <2>2. /\ saves \in [Slots -> SaveType] /\ SavesFine
        /\ ViewerFine(viewer, dirty, key, location)
    BY <1>1, TextFacts
  <2>3. ViewerFine(viewer', dirty', key, location')
    BY <2>1, <2>2 DEF ViewerFine, Prepared
  <2> QED BY <1>1, <2>1, <2>2, <2>3, SameFine, NoSaveLeft
<1> QED BY <1>2, DetectedFine, ReadFine, LoadedFine, ChangeFine, SaveDraftFine, SavedFine
        DEF ViewerNext, TextInv

\* A new tab has no text.
LEMMA InitText == Init => TextInv
<1> SUFFICES ASSUME Init PROVE TextInv
  OBVIOUS
<1>1. \A s \in Slots : saves[s] = NoSave
  BY DEF Init, TextViewerInit
<1>2. viewer \in {Unmounted, Detecting}
  BY DEF Init
<1>3. ViewerFine(viewer, dirty, Key(location, rows), location)
  BY <1>2 DEF ViewerFine, Prepared, Unmounted, Detecting
<1> QED BY <1>1, <1>3, InitTab DEF TextInv, SavesFine

\* Every step of the tab keeps it.
LEMMA NextText ==
  ASSUME Patient, TextInv, [Next]_vars
  PROVE  TextInv'
<1>0. TabInv /\ ExplorerInv /\ TabInv'
  BY NextTab DEF TextInv, TabInv
<1>1. CASE FeedsNext /\ UNCHANGED <<clientVars, viewerVars>>
  <2>1. UNCHANGED <<viewerVars, location, rows, paired>>
    BY <1>1 DEF clientVars, navVars, tableVars, sessionVars
  <2> QED BY <1>0, <1>1, <2>1, FeedsNextKeeps, FineAges
<1>2. CASE ExplorerSteps /\ ViewerFollows
  BY <1>0, <1>2, ExplorerStepsKeep, FollowFine
<1>3. CASE (DirectoryOpens \/ TrashViewNext) /\ ViewerStays
  BY <1>0, <1>3, TableStepsKeep, SameAges, FineAges DEF ViewerStays
<1>4. CASE Remounted /\ ViewerRemounts
  BY <1>0, <1>4, RemountKeeps, RemountFine
<1>5. CASE ViewerNext /\ ExplorerStays
  <2>1. UNCHANGED <<disk, version, location, rows>>
    BY <1>5 DEF ExplorerStays, explorerVars, diskVars, clientVars, navVars, tableVars
  <2> QED BY <1>0, <1>5, <2>1, ViewerNextFine
<1>6. CASE \E s \in Slots : TruncateFile(s) \/ WriteChunks(s) \/ MeasureFile(s)
  BY <1>0, <1>6, SavingFine
<1>7. CASE UNCHANGED vars
  <2>1. UNCHANGED <<disk, version, viewerVars, location, rows, paired>>
    BY <1>7 DEF vars, explorerVars, diskVars, clientVars, navVars, tableVars, sessionVars
  <2> QED BY <1>0, <2>1, SameAges, FineAges
<1> QED BY <1>1, <1>2, <1>3, <1>4, <1>5, <1>6, <1>7 DEF Next, ExplorerSteps

\* For a user who saves marked text only and waits for the answer: once the
\* listing has caught up, unmarked text is of the file's size and time, although
\* a save's answer carries whatever version was measured after its write
\* (text/index.tsx 75-198, macos/src/fs.rs 48-80).
THEOREM UnmarkedTextIsCurrent == Patient => (Spec => []UnmarkedIsCurrent)
<1> SUFFICES ASSUME Patient PROVE Spec => []UnmarkedIsCurrent
  OBVIOUS
<1>1. TextInv => UnmarkedIsCurrent
  <2> SUFFICES ASSUME TextInv, viewer.phase = "ready", ~dirty,
                      Key(location, rows) = Current
               PROVE  viewer.draft = Current
    BY DEF UnmarkedIsCurrent
  <2>1. PICK key : key = Key(location, rows)
    OBVIOUS
  <2>2. /\ viewer \in ViewerType /\ ViewerFine(viewer, dirty, key, location)
        /\ key \in Nat \ {0} /\ \A v \in Nat : Text(location, v) => v <= Current
    BY <2>1, TextFacts
  <2>3. /\ viewer.saved >= key /\ viewer.draft = viewer.saved
        /\ Text(location, viewer.saved)
    BY <2>2 DEF ViewerFine, Prepared
  <2>4. viewer.saved \in Nat
    BY <2>2 DEF ViewerType
  <2> QED BY <2>1, <2>2, <2>3, <2>4
<1>2. TextInv /\ [Next]_vars => TextInv'
  BY NextText
<1> QED BY <1>1, <1>2, InitText, PTL DEF Spec

\* For the same user, whatever makes the viewer anew: text on show is marked
\* exactly when it is not the saved one (text/index.tsx 75-198, state.tsx 22-25).
THEOREM MarkTellsOfText == Patient => (Spec => []MarkIsHonest)
<1> SUFFICES ASSUME Patient PROVE Spec => []MarkIsHonest
  OBVIOUS
<1>1. TextInv => MarkIsHonest
  BY DEF TextInv, ViewerFine, Prepared, MarkIsHonest
<1>2. TextInv /\ [Next]_vars => TextInv'
  BY NextText
<1> QED BY <1>1, <1>2, InitText, PTL DEF Spec
=============================================================================
