# whats-going-on: TLA+ models

What's-going-on (WGO) is a daemon that runs on a machine and a web client that
shows and controls that machine over WebTransport. These modules model the
stateful core of the daemon (`daemon/host/src/server.rs`,
`daemon/host/src/terminal.rs`, with the parts of `daemon/core` they depend on),
the web client's connection to it (`web/src/state/rpc-session.ts`), the RPC
call that joins the two with its codecs (`web/src/protocol`, the schema of
`wgo-rpc`), and the two parts of the client with the most state of their own:
the workbench of panes and tabs (`web/src/state/workbench.ts`) and the Files
tab with its text viewer (`web/src/state/explorer.ts`,
`web/src/view/workbench/tool/files`). TLC checks them on small instances. TLAPS
proves, for every value of the constants, the main invariants of the terminal
session, the session table, pairing, credentials, the client's RPC session, the
workbench and the Files tab, and that the workbench implements an abstract
specification of its tabs.

## The system

| Part | State | Operations | What makes it hard |
|---|---|---|---|
| Terminal sessions (`terminal.rs`) | map of sessions under one lock, each session under its own: info, output buffer, attach owners, closed, child killer | create, attach, detach, take control, write input, close; the output reader and child waiter threads record output and exit | every operation finds the session under one lock and works under another; sessions are closed in between |
| Attach streams (`server.rs`) | replay to write, receiver of the session's broadcast channel | write Attached, replay, live events; lag; detach at the end | replay and live events must join without loss or repetition; the channel drops events; writes fail |
| Session table | broadcast channel of changes, one receiver per subscription, the client's table | upsert and remove after each operation; snapshot; resynchronise after a lag | broadcasts happen after the lock is released, the snapshot before the receiver exists |
| Pairing (`PairingState`) | attempt ids, the current attempt per client key, one active challenge | StartPairing (two waits for the local user), CompletePairing | attempts supersede each other at every await |
| Client credentials | file, copy in memory, watch channel, authenticated client per RPC session | pair, renew, authenticate, subscribe; start-up | load-modify-store without a lock, writes that fail or are cut off, restarts |
| RPC call (`client.ts`, `wire.ts`, `server.rs`) | what is written, read, buffered and decoded at each end of one stream | send requests, read them, answer, read answers, leave | bytes come in pieces; errors, ends and cancellations of two directions cross; a limit on what the daemon reads |
| Codecs (`cbor.ts`, `generated/rpc.ts`, `generated/wire.ts`) | none | encode, decode | fields and variants of a newer schema, absent fields, incomplete input |
| Directory and trash streams (`server.rs`) | last rows sent, watcher or timer and notification | snapshot, wait, debounce, list again, patch | a change must fall into a listing or leave an event |
| Other table subscriptions | last rows sent, poll timer | snapshot, poll, patch | errors while the stream waits |
| Certificates and lifecycle | resolver, watched paths, reload triggers, daemon status | reload on change or schedule, retry start-up | triggers merged during the debounce |
| Web RPC session (`rpc-session.ts`) | promise of the current session, pairing flag, connection state, renewal and ping timers | open, close, reconnect, pair, renew | answers that arrive after the session was replaced |
| Web workbench (`workbench.ts`, `pane-view.tsx`) | panes, tabs, history of active tabs, layout, dialog of unsaved changes | open, close, move, split, duplicate, detach | layout, panes and tabs change in separate calls; tabs share terminal sessions |
| Web Files tab (`explorer.ts`, `tool/files`) | location and history, rows, phase, trash items; draft, loaded version and saves of the text viewer | navigate, subscribe, apply events, reconnect, edit, load, save | late events of directories that were left; answers, listings and edits in any order |
| Machines (web) | stored machines and credentials | pure updates of atoms | stale references |
| Windows and macOS daemons | IPC pipes, tray, installers | calls of the operating system | pipe protocol between service and user agent |

The parts call each other as follows. `run_system_server_once` creates the
shared state; each WebTransport connection is an RPC session, and each of its
bidirectional streams is a task that decodes a call and runs its handler.
Handlers share the terminal manager, the pairing state and the credentials;
streams learn of changes through channels: broadcast for terminals, watch for
credentials and trash. The reader and waiter of a terminal are plain threads.
In the browser one controller per machine owns the RPC session; tools in tabs
ask it for a transport and open a stream per call. The workbench owns the tabs
and tells the daemon which terminal sessions it no longer needs; a Files tab
owns its directory subscription and its viewer, and the viewer tells the
workbench which tab holds unsaved changes.

PROJECT.json lists every part with its status, and the hazards with the
properties that watch them.

## Modules

### TerminalSession

One session from its creation to the end of its last stream. Each operation of
`TerminalManager` is a *begin* (the lookup that clones the Arc under the map
lock, guarded by `in_map`) and the section under the session lock, named as in
the code. `in_map`, `closed`, `exit`, `primary_attach_id`, `attach_owners`,
`output_buffer` and `latest_output_seq` are the code's fields. `call`, `reader`
and `waiter` say what each thread is in. An attach's stream goes through
`writing` (Attached, replay), `live` (the receive loop), `detaching` and
`detach_held` (it has the Arc) to `done`.

The broadcast channel is the log `output_tx` of all events with one read
position per receiver; a receiver more than `Capacity` behind lags, as tokio's
does. Output is the interval of bytes a chunk occupies. `sent`, `takes` and
`inputs` are history variables. Title and working directory are one kind of
metadata. Size validation is left out: a request that fails it does nothing.
Id generation: `next_attach_id` is shared by all sessions in the code; ids that
other sessions take are gaps here that no property can see.

Output may be recorded after `SessionExited` was sent: the reader and the
waiter are not ordered, and the model keeps that. `child.wait()` may fail
(`WaitFails`): the waiter records an exit without a status all the same and
drops the child's killer, while the child (`unwaited`) may run on. A close that
comes later has nothing left to kill with, and `NoOrphanChild` names this as the
only way in which a closed session leaves its process behind.

### TerminalTable

The table over all sessions. An operation is three steps: lookup, change and
copy under the session lock, broadcast of the copy. A session's info is a
revision and whether it has exited; `latest_output_seq` changes without a
broadcast and is left out. A receiver is the queue of what it can still read;
the channel drops the oldest event of a full one and marks it `overrun`.
`view` is the client's table once it has processed everything the stream has
handed over: a write that is under way is the phase `snapshot` or `lagged`.
`disturbed` remembers that two operations overlapped or that a resize failed.

### Pairing

Each StartPairing call is an attempt with its own steps: begin, confirm or
reject, check, create the code, store the challenge, notify. CompletePairing is
two steps, because the clock is read before the lock is taken; everything under
the lock is one. A code is the id of its attempt, so two attempts never share a
code; in the code they do with probability one in a million.

### Credentials

CompletePairing (from the point where the challenge is taken) and
RenewClientCredential load the file, replace the copy in memory, modify, write,
replace the copy again, send the new value. `fs::write` is two steps, truncation
and write; between them the process may stop, the write may fail, and another
call may load. A file that is neither of the calls' contents is `Torn`; when
`TornParses` is TRUE it may load as an empty table, which is what an empty YAML
document can give, and otherwise loading fails. SessionAuthenticate is three
steps because the session's lock is released between them.

The watch channel keeps what is sent only while somebody holds a receiver: the
one made with the channel is dropped (`server.rs:219`) and the error of `send`
ignored (`server.rs:4072`). So without a stream (`Heard`) the channel keeps its
old table, and a stream that subscribes later starts with it. `unheard`
remembers that; a new channel at start-up, or the next table that is heard,
ends it. A stream's receiver is dropped when its function returns, which it does
when it has something to write and the client is gone (`ClientsWriteFails`).
`UndisturbedStoreAgrees` and `ClientsViewIsCurrent` say that this, and calls
that disturb each other, are the only ways in which the channel, and with it a
client's table, differs from the credentials in memory.

### RpcSession

The controller of one machine's connection in the browser. JavaScript runs to
completion, so an action is one event (a transport connects, an answer arrives
or does not, the user clicks) with all promise continuations that run before
the next: `AfterOpen` is everything that waits for a session's promise to
resolve, `AfterFailure` for it to reject, in the order in which the
continuations set the shared state. `closed`, `pairingStarted` and `rpcSession`
are the controller's variables; `session` is the table of openRpcSession calls,
each with its transport, the credential it read when it began and the request it
awaits. `refresh`, `tool`, `request` and `completion` are the calls that hold a
session across an await. `daemonInfo.of`, the session that the information came
from, is a history variable. The daemon is external: it accepts the credential
it issued last, until that ends.

A tool that gets a session authenticates it if it is not authenticated. That
branch is not in the model because it cannot be reached, which
`SessionsMatchMachine` checks: every session that is open for a paired machine,
or awaited by a tool, authenticates itself. Not modelled: the datagram pings,
the renewal timer, and the controller that a call made after the view was
disposed would create (`rpc-session.ts:170`).

`ConnectionMatchesSession` relates what the machine's connection says to the
current session: a machine that is shown as reachable has a session, and when
nothing is being opened one that has a session is shown as reachable, except
while `late_failure`: an opening has failed after it was replaced, and its
failure is what is shown. It begins with that failure, not with the plain
failure of a current opening, and ends when the connection is next shown as
reachable or the session is closed.

### Cbor, Codec, Wire, RpcSchema, RpcMessages, RpcCall

`Cbor` is the client's codec of items: values, bytes, and a decoder that tells
input that stops inside a value from input that no further bytes can mend,
which is what a reader of a stream depends on. `Codec` is what
`scripts/codegen/typescript/main.ts` generates for any schema: structs, unions,
enums and lists, required and optional fields, unknown fields skipped, unknown
variants refused. `Wire` has the envelope's types and how messages follow each
other as pairs of items; `RpcSchema` lists the types and procs of `wgo-rpc`
with the ids in the generated codecs. Integers are limbs of 16 bits, because
53 bits do not fit TLC's. `RpcMessages` puts the requests and the answer of a
call into messages of the envelope and takes them out again, the way client and
daemon do: the request's payload, the method's or the system's error, an answer
without a payload, what a newer daemon adds.

`RpcCall` is the protocol: one invocation on the two directions of one stream. A `job` is the
call: proc, requests, the handler's answer, what a newer daemon adds to it, the
sizes of the pieces in which bytes are read, and whether the transport may fail
and the consumer leave. `client` goes through sending and reading to done,
failed or left; `server` through reading and answering to ended. `up` and `down`
hold the bytes that were written and not read, and how the direction ended:
finished, stopped by its reader, or reset. A unary answer is read to its end and
decoded at once; a server stream is decoded as it arrives and handed out message
by message.

What a message says and how it becomes bytes are parameters of `RpcCall`
(`Request`, `Answer`, `RequestIn`, `ValueIn`, `ErrorIn`; `Encode`,
`DecodePrefix`, `DecodeAll`), which `RpcCall.cfg` gives the operators of
RpcMessages and Wire. What the protocol takes from them is stated as named
assumptions: each message has bytes and they follow each other
(`BytesAssumption`); a reader that starts where a message starts finds the
complete ones, as they were, and the end of the last (`FramingAssumption`); what
was put into a message is found in it, unless it is of a variant that the client
does not know (`MeaningAssumption`). TLC evaluates them in every run of RpcCall,
for every job, every message and every place where the job's pieces can end a
read: that is where the codecs are checked.

The handlers are in the other modules; here a handler is its answer. The
daemon's own decoder is taken to read what the client's codec reads; the Rust
code generator is not modelled. A task of the daemon that returns drops both
halves of the stream; whether an unfinished direction is then seen as finished
or as reset is left open. `MCRpcCall` builds values of every type from the
schema and states two more assumptions that TLC evaluates: the schema satisfies
the generator's own checks, and the types that are sent outside of calls
round-trip.

`JobsAssumption` says that the request that opens a server stream is within
`MAX_MESSAGE_SEQUENCE_SIZE` (64 MiB), which holds of all that the client sends
there: ids, options and a path. The code needs it. A daemon that refused such a
request would return from the stream's task without having written anything; if
the transport library then ends the stream regularly, the client sees a stream
without events and without an error.

### OpenTabs and Workbench

`OpenTabs` is what the user may expect of tabs: they open unmarked, keep their
data whatever is split, moved or focused, and closing some asks the daemon to
close exactly the terminal sessions that no remaining tab shows.

`Workbench` is one window of one machine: `panes`, `tabsOf`, `activeTab` and
`activePane` are the pane state, `data` and `previous` are the fields of each
tab that matter (tool, dirty mark, terminal session; `previousActiveTabId`),
`layout` the panes that have a leaf, `dialog` the pending close request, `asked`
the sessions that the last action asked the daemon to close. Every action is a
whole handler, with the layout's change and `normalizePaneTabHistory` in it. The
order of panes and tabs is left out, so where the code takes the first one the
model takes any, and so are sizes. Ids of tabs and panes that are gone stand for
the next random id. "files" stands for every tool but the terminal. A leaf is
the pane it shows; the tree of splits and what the `panecake` library does with
it are external. Dragging and dropping is one action, the drop. While the dialog
is open its backdrop keeps the pointer from everything else, and only marks and
answers about terminal sessions still arrive. A reload of the page drops the
dialog, as `CancelClose` does, and restores the rest. `UnsavedNeedsConfirmation`
is about tabs and their marks. The draft is state of the text viewer: a move of
the tab to another pane mounts the viewer anew without it, and nothing asks
(`text/index.tsx:68-77`); FilesTab has that as `Remounted`.

`TabsInPanes` maps the workbench to OpenTabs: a tab exists if a pane holds it.

### FileFeeds, Explorer, TextViewer, FilesTab

`FileFeeds` is the daemon's side. `disk` gives each directory's files as
versions: the number of the change that last wrote them. A version stands for
what an entry tells of a file, its size and its modification time in
milliseconds. `Rewrite` is a write that leaves both as they were, so that only
the watch notices it. The directory stream checks, watches, lists, then waits
for events, debounces, drains them and lists again; the watch is on the
directory and not on its path. The trash stream lists at each tick and each
announced change, and makes its receiver only when the snapshot has been
written. Listing and sending is one step, and it waits while the wire is full.
Changing files and notifying is one step.

`Explorer` is the client's side: `location`, `history`, `rows`, `phase`, `items`
and `trashPhase` are its atoms, `late` the directories whose generators have not
returned yet. A new path, pairing or refresh starts the subscription afresh.
`TextViewer` has the draft, the saved text, the version it loaded and its own
last save (`loadedFileVersionKey`, `ownSavedFileVersion`), the read under way
and the saves under way. A text is the version that holds it, or `Edit`.

A save goes through the daemon's calls one by one: opened and emptied
(`TruncateFile`), written (`WriteChunks`), measured (`MeasureFile`), answered
(`Saved`). Other programs may write the file between any two of them, so what is
measured may be their version and not the one that the save wrote; it may fail
at each, and one that fails after the first has emptied the file.

The viewer's state is scoped by the entry object it is given
(`state.tsx:22-25`). `Follow` therefore makes the viewer anew at every step at
which the row of the opened file comes, changes or goes, and `Remounted` when
the tab is moved or the page reloaded. What was typed is then lost. The mark is
the tab's and stays; under it the new viewer loads nothing
(`text/index.tsx:77`) and shows "loading" until an answer takes the mark away,
which can be that of a save the old viewer made. So the version key of a mounted
viewer never changes, and the branch of the load effect that takes an own save's
version as loaded (`ownSavedFileVersion`) is never taken; the model has it, and
the proof shows why.

`FilesTab` composes them: every step of the explorer is a step of the viewer,
which follows the entry it shows (`openedFile`, by path and name among the
rows), and a save is a write that the watch sees. The effects of a rendering run
before anything else happens.
`navigateTrash` acts only where the trash is already shown, as in the user
interface. The daemon never sends the reason `moved`, so
`replaceWithMovedDirectory` is not modelled.

`MC*` modules give values for TLC.

## Runs

| Run | Question |
|---|---|
| TerminalSession_output | Is output complete, in order and resumed exactly? Chunks of length 1 and 2 against a retention of 2, a channel of 2, after_seq none, 0 and 1, two sizes. |
| TerminalSession_close | Does everything end after a close or an exit, and who may write until then? Two RPC sessions; one thread attaches, takes control and writes, one closes; reader, waiter, a channel of 1, failing resizes; under fairness. |
| TerminalSession_gap | Violated: what a HistoryGap announces (finding). |
| TerminalTable_view | What does a subscriber see? Two workers, two sessions, one subscriber, a channel of one event so that it lags. |
| TerminalTable_gap | Violated: a session created during the snapshot (finding). |
| Pairing | Two attempts, two RPC sessions, two keys, two completions at once, lifetime 1 on a clock of 0..2. |
| Credentials | Do loads and stores that overlap, fail or are cut off leave memory, file and channel right, and a subscriber's table with them? Two tasks, two clients, two secrets, one RPC session, one subscriber, one stop. |
| Credentials_lost | Violated: overlapping stores without any failure (finding). |
| RpcSession | Is what the client shows, keeps open and stores that of its current session, when openings, answers and clicks overlap? Two sessions opened, one tool, two pairing requests, two credentials, initially paired or not and known to the daemon or not; under fairness. |
| RpcCall | Are callers given the daemon's values and errors, for every type of the schema and however the bytes are cut, and does every call end? One call at a time; under fairness. |
| Workbench | Do panes, layout and history stay in step, is the user asked before a marked tab goes, and does the workbench implement OpenTabs? Four tabs, three panes, two terminal sessions. |
| FilesTab | Are the rows, the trash and the text those of the machine, when files change, the connection is lost and answers are late? Two directories, one file name, three changes, one save at a time; under fairness. |

Bounds. Two threads are enough for every lost update, late call and reordering
stated here: each property relates at most two operations and one observer.
Retention, channel and lifetime are set to the smallest values at which being
over, at and under the limit all occur. In TerminalSession, `MaxSeq` 3 with a
retention of 2 makes the buffer drop records; `Capacity` 1 and 2 make receivers
lag; `MaxEvents` keeps the log finite, and stops senders, never receivers. The
close run has one attach only: that owners and input are right with more of them
is proved for any number. In RpcSession two sessions are what replacing one
needs: an old and a current one, each at any stage; with three, the safety
properties hold as well (1.7 million states, with one pairing request). In
RpcCall every type of the schema occurs with a value that differs from a full
one in one place, as request and as response; streams of up to three messages
are cut in pieces of 1, 6 and all bytes, which ends reads inside headers,
payloads and between the items of a message; `MaxSequence` 500 is passed by one
of the jobs. In Workbench four tabs and three panes let a pane with two tabs
meet panes with one and let tabs share a session. In FilesTab, `MaxVersion` 4 is
three changes: the two writes of a save and one by another program before,
between or after them. The constraint `LastChanges` leaves the last change to
tabs that were opened on the file and are still there, and the one before to
those that have not both moved and lost something (276,577 states).
`Busy` keeps the changes to the directory that the file is in, since the other
directory is only there to be visited; `MaxWire` 1 makes the daemon wait for the
client, `MaxHistory` 1 allows going back, `MaxLosses` 1 allows one loss of the
connection, of the pairing or one remount.

Deadlock checking is off where a model may have nothing left to do: a session
that is closed, a call that ended, counters that are used up. Workbench and
FilesTab check it.

Assumptions. TerminalSession_output runs with `ResizeMayFail = FALSE`: after a
failed resize the clients' view of control and size is stale, which the hazards
list states. TerminalSession_close and TerminalTable let it fail.
TerminalSession_output is also constrained by `WaitSucceeds`: its question is
about output, which does not depend on how the wait for the child ends;
TerminalSession_close has no such bound.
`ExitEndsStreams` excuses streams that were told of a gap, because a stream
that lagged past `SessionExited` waits for the session to be closed.
`SequentialViewIsExact` is about operations that do not overlap; with overlap
the order of broadcasts is not the order of changes, and a client can be left
with an older row or with a closed session. Credentials runs with
`TornParses = TRUE`: a file that was cut off loads as an empty table or fails to
load. Its constraint `OneOfEach` bounds the calls under way to one renewal and
one authentication beside any number of pairings: a renewal meets a pairing,
and two pairings meet each other, at every pair of steps, but two renewals at
once, or two authentications, are covered by the proofs only. FilesTab runs with
`Patient = TRUE`: the user saves marked text only, and waits for the answer
before typing or saving again; what happens otherwise is listed below.
`ListingCatchesUp` asks only for tables whose watch is on the directory, and
`UnmarkedIsCurrent` only once the listing has caught up and no save is under
way.

Fairness. TerminalSession_close: weak fairness of each handler's step, since a
handler holds no lock while it waits and takes an uncontended or soon released
one; of the reader and the waiter, which are threads; and of each stream, a
task that the runtime polls. No fairness for beginning a call, for the child
ending or for writes failing. A client that stops reading without closing its
connection is not covered: QUIC's idle timeout turns it into a failed write.

RpcSession: weak fairness of each session's opening and of each request for
daemon information: connecting has a timeout of ten seconds (`client.ts:20`),
and a request is answered or fails with its transport, which QUIC's idle timeout
closes. No fairness for the user, the tools, the pairing or the end of a
transport or a credential.

RpcCall: weak fairness of the client's promises together and of the daemon's
task together; each of them has one thing to do at a time. None for a consumer
that leaves or a transport that fails.

FilesTab: weak fairness of each task by itself: the directory stream in the
daemon (`DirectoryFeedProceeds`), the client's opening and loop of the
directory's table (`DirectoryTableProceeds`), the trash stream
(`TrashFeedProceeds`), the opening and loop of the trash view
(`TrashViewProceeds`). They are tasks of a runtime and promises that are
resolved. None for the user, the viewer's requests, other programs, watches that
break or losses.

## Proofs

`TerminalSession_proofs` proves, for every value of the constants that the
module's assumptions allow, the type invariant, InputAuthorized, OwnersAreLive,
NoOrphanChild, ClosedIsFinal, RetainedTail and what a stream has written:
NoSilentGap, ResumeExact and ReportedControlIsCurrent. The assumptions
are those in TerminalSession: chunks are positive and no longer than the
retention limit (8192 bytes against 1 MiB), the markers for absent values are
not values, the bounds are naturals.

- `TypeCorrect`: TypeOK alone is not inductive. `TypeInv` adds `Pending`, that a
  stream which is still writing has something to write, because Head and Tail
  are applied to its outbox.
- `InputIsAuthorized`: `ControlInv` adds that a primary attach which still has
  an owner got there by a take of that owner, and that owned ids and the primary
  are below `next_attach_id`, so that a later attach cannot inherit control.
- `OwnersLive`: by itself inductive over TypeInv; the interesting step is
  `BeginDetach`, which may skip detaching only once the session left the map.
- `NoOrphans`: `ChildInv` adds that a recorded exit, and one about to be
  recorded, means that the child has ended, was killed, or the wait for it
  failed; without it the skipped kill of `close_session` proves nothing. The
  theorem says of every closed session that its process is gone or was killed,
  unless the wait had failed and the exit was recorded before the close.
- `ClosedStaysFinal`: an action property, by cases over the actions.
- `TailIsRetained`: `BufferInv` adds that any two records lie in the order of
  the buffer, which adjacent records alone do not say without induction; it is
  what makes the records that `Trim` drops a prefix. The lemmas about `Append`
  and `Trim` show that both keep it and that the newest record stays.
- `NoGapIsSilent`, `ResumesExactly`, `ReportedIsCurrent`: one invariant,
  `ToldInv`, speaks of `Told(a)`, what the client of a stream will have been told
  once it has received everything: what was sent, the outbox, and the rest of the
  channel. Writing and receiving leave it alone, a broadcast appends to it, and a
  lag puts a HistoryGap where the lost events were; so the proof looks at the end
  of one sequence only. ToldInv says that chunks in it ascend and skip no number
  without a gap (`Ordered`), that the last one is the session's latest unless a
  gap follows (`UpTo`), that a resume starts with the chunk after it or a gap
  (`Resumes`), and that without a gap the last event about control, size and
  output says what the session has (`Shows`). That last part has the hypothesis
  `~ResizeMayFail`: a failed resize stores a control and a size that no event
  tells of (`terminal.rs:484`). BufferInv gives the shape of the replay.

`Pairing_proofs` proves all properties of Pairing, assuming only that the
bounds are naturals: PairingTypes, ChallengeStaysCurrent, IssuedRightly,
CodesAreOneTime and SupersededIsUseless. None of the properties is inductive
alone. `PairingInv` adds

- `AttemptsInOrder`: ids are handed out in order, and an attempt past its
  confirmation was confirmed;
- `CurrentIsLatest`: the current attempt of a key is the last one made for it,
  so that what is issued for is never superseded;
- `ChallengeOfAttempt`: the challenge repeats owner, key and expiry of its
  attempt, which has passed the step that stores challenges;
- `IssuedIsSpent`: an attempt that was issued for has passed that step too and
  is not the challenge's, so it can neither be stored nor completed again. This
  is what makes codes one-time.

Most steps neither create an attempt nor store a challenge nor issue; lemma
`KeptInv` treats those together, and one lemma each treats begin, store and
complete.

`Workbench_proofs` assumes only that None is no id, no tab's data and no
request. `IInv` is what every theorem rests on:

- `Whole`: the types; PanesAreWhole; HistoryStaysInPane; `GoneIsEmpty`, that a
  pane that is gone holds no tabs, without which a new pane with its id would not
  be whole; `TabsHaveData`, that a tab in a pane has data, without which OpenTabs
  would not see it;
- `DialogIsCurrent`: the dialog is about a pane, and a tab of it if about a tab,
  so that confirming removes what was asked about;
- the types of the dialog and of what was asked of the daemon.

A tab that leaves a pane, a pane that is removed and a tab that opens each have
a lemma that says what they keep (`TabLeavesWhole`, `RemovePaneWhole`,
`OpenWhole`), because several handlers are made of them; `NextKeeps` then goes
through the actions. `UnsavedIsConfirmed` is an action property from the same
invariant. `ImplementsOpenTabs` is the refinement: `ViewInit` maps the initial
states, and `StepImplements` maps each action to opening, closing, detaching,
replacing or changing tabs, or to a stutter; the lemmas `TabsAfter...` compute
what each does to the tabs in panes.

`TerminalTable_proofs` assumes that the capacity of the channel and the bounds
are as the module says, and that the marker of an absent row is no row.

- `RowsAreReal`: RowsWereReal is about what is shown, and what is shown comes
  from what is under way. `IInv` says the same of the info that a thread is about
  to broadcast (`OpsAreSound`) and of every event that a receiver still holds
  (`EventsAreSound`). `Grows` is what makes "was once its info" stable: an info
  that changes has a new revision and keeps its exit.
- `LaterOnesAreListed`: `ListInv` follows a session that was created after the
  receiver from its creation to the table. `OnItsWay` names the stages: its
  thread has yet to broadcast it, the event waits in the receiver, the receiver
  lost events and so will resynchronise, or the row is there. `NoRemoval` keeps
  a removal from overtaking it, and `LosesWhenFull` says that a receiver which
  lost events still has some to read, so that it learns of the loss.
- `SequentialIsExact`: `ExactInv` is about runs in which one operation at a time
  is under way and no resize failed (`OneOperation`). `ShownExactly` compares the
  map with what a client will know of a session: what the last event about it in
  the receiver says, or the client's row if there is none. Where events were lost
  it demands nothing of the row, because the resynchronisation reads the map; and
  nothing at all while the operation under way has changed the session and not
  broadcast it (`Unannounced`).

`Credentials_proofs` rests on `TypeInv`, the types with `TargetsKnown`, and adds
what each property needs:

- `MemorySaved` and `AuthenticationIsSound` (`SavedInv`): what a file holds that
  is not torn, what memory holds and what a call has loaded, and is not about to
  write, was saved; a call that was verified and still has to be admitted holds a
  secret that was saved and had not expired when it looked. The second is what
  makes the gap between verifying and admitting harmless.
- `UndisturbedAgrees` (`AgreeInv`): in between, file, memory and channel do not
  agree. As long as nothing was disturbed one call at most saves, and for each of
  its stages (load, remember, modify, write, store, send) the invariant says
  which of the four hold the old table and which the new. `Published` is what it
  says of the channel: it has the table unless the last one went unheard.
- `ViewIsCurrent`: `ViewInv` says that a stream's rows are its client's view, and
  both are those of the channel when nothing new is in it; lemma `PatchApplies`
  shows that a patch turns the rows it was made from into those it was made for.
  With UndisturbedAgrees the view is that of the credentials in memory, unless
  calls disturbed each other or the last table was sent to nobody.

`RpcSession_proofs` proves all safety properties of the controller from one
invariant of four parts:

- `SessionsAreSound`: what the stage of a session says about its transport and
  its authentication, and OneTransport;
- `CurrentIsSound`: the current session is being opened or open; if the machine
  has credentials it is opened with them or has authenticated itself. Without
  this, pairing while a session is being opened could leave it unauthenticated;
- `CallsAreSound`: a tool waits for a session that is opened with credentials, and
  requests were sent on open ones, so that a late answer belongs to a session that
  had been looked at;
- `ShownIsSound`: the daemon information is the current session's.

`ConnectionIsShown` needs, in CurrentIsSound, that an open current session which
is not shown as reachable means `late_failure`. The step that matters is the
failure of an opening: if it is the current one there is no session afterwards,
and only if it is not does it set `late_failure`.

Lemmas treat getRpcSession, the opening's end, its failure and the loss of a
transport once, because most handlers are made of them. `ClosedStaysQuiet` is an
action property from the same invariant.

`FilesTab_proofs` proves the three safety properties of the Files tab, for any
directories, names and numbers of changes by others and of losses. Its invariant
is built in three layers:

- `ExplorerInv`: the rows, and the rows in every event that is still to be read,
  are of the tab's directory and not newer than the files (`NotNewer`); the
  stream that is attached is of that directory; and one tab shows one file only
  (`SameFile`). Because files only ever get newer (`Ages`), what was not newer
  stays so, which is why changes on the machine need no case of their own.
  `RowsAreOfLocation` follows from this layer alone;
- `TabInv` adds the viewer's types, and that a viewer is mounted exactly when a
  file is open and the machine is paired;
- `TextInv` adds what the text is. `Prepared`: text is on show only for the
  version key of the entry, is of that version or a newer one, and is marked
  exactly when it is not what is saved. A read under way is for the version
  shown, returns nothing older, and never runs under the mark. `SaveFine`: a
  save, of which there is one at most, is of marked text; the viewer that made it
  still shows its text, or a successor shows none. This layer needs `Patient`,
  the user who saves marked text only and waits for the answer; what happens to
  another user is told below.

A save answers with its own version or with one that others have made since;
`TextInv` holds either way, because the answer's version only becomes
`ownSavedFileVersion`, while what is loaded stays that of the entry. The lemma
`LoadFine` treats the effect that loads the text. `UnmarkedTextIsCurrent` follows
from `Prepared` and NotNewer: the text is no older than the entry, the entry is
the file's, and no text is newer than the file. `MarkTellsOfText` is a part of
Prepared; that TextInv stays true is what proves it, over remounts under the mark
and answers that reach a successor.

`RpcCall_proofs` proves ValuesInOrder, RequestsArrive and ErrorsAreAnswers for any
calls, sizes of pieces, limit, messages and codec that satisfy the assumptions in
RpcCall. `IInv` says where every byte and every message is:

- `ServerInv`: the daemon has the first messages of the caller; while it reads,
  its buffer holds the bytes behind them and the stream those behind the buffer
  (`ServerReadsOn`), and a request stream that ended is complete;
- `ClientReadsOn`, the same of the client, whose batch holds the messages between
  what the consumer has and what the buffer holds;
- `GivenInv`: what the consumer has is the beginning of the values it may have;
- `EndsInv`: a server stream that ended regularly was written to its end, and only
  a client that has stopped reading stops the daemon;
- `OutcomeInv`: why a call may be done or have failed.

The bytes of a direction are treated as parts of all that will be said (`Part`),
which are joined where something is written and cut where something is read
(`PartsJoin`, `PartCut`). `ReadMore` puts this together with FramingAssumption
for both sides: a reader that has found some messages and holds the bytes behind
them finds, with any next piece, those that are then complete, and holds the
bytes behind those. It follows that neither side ever ends inside a message
(`ClientEndsKeeps`, `ServerReadFailsKeeps`): the errors for that in the code
(`client.ts:283`, `server.rs:1036`) are unreachable with a peer of this kind
unless the transport fails.

Left to TLC: the liveness properties, since liveness under fairness is out of the
prover's reach; and that the codecs satisfy what RpcCall assumes of them, since
they are recursive over the shape of what they encode.

## What the checks found

Findings, each a run that TLC violates:

- A lagging attach stream announces the wrong sequence (`server.rs:2218`).
- A session created while a subscription writes its snapshot is not listed
  (`server.rs:2073`).
- Overlapping pairings lose a credential that was returned (`server.rs:3601`).

The repository's documents and comments say nothing about the following, so
they are conditions of properties and not runs of their own.

- After a reconnection, the late failure of the opening it replaced shows an
  open session as unconnected (`rpc-session.ts:309`), until the connection is
  next shown as reachable. `ConnectionMatchesSession` states that this is the
  only way it happens.
- When the wait for a terminal's child fails, the exit is recorded and the
  killer dropped while the child may run on; closing the session then leaves it
  behind (`terminal.rs:715`).
- A table of clients that is sent while nobody is subscribed is lost, and the
  next subscriber is given the one before it (`server.rs:4072`).
- The text viewer does not ask whether a save is still the last one or its
  viewer still mounted (`text/index.tsx:168`). With `Patient = FALSE` TLC finds:
  a save answered while the user types replaces what was typed; saves answered
  in the opposite order show the older text; saving unchanged text while another
  program writes shows the old text as the new version; the answer of a viewer
  that is gone unmarks the text of its successor.
- A viewer that is made anew while its tab is marked has lost the draft, and
  shows "loading" under the mark, because the load effect leaves marked text
  alone and there is none. Every change of the file that is listed does this,
  the first snapshot after a reconnection, and a move of the tab to another
  pane. `MarkIsHonest` holds because no text is then shown.
- A save that fails after its file was opened leaves the file empty
  (`macos/src/fs.rs:48`).
- A directory that is removed and made again between two batches leaves a live
  table that is never brought up to date, since the watch is on the old one
  (`server.rs:2795`). An error of the watcher during the debounce is discarded.
- A tab opened on the home directory goes there when the answer arrives,
  wherever the user has gone meanwhile, and again whenever it is mounted
  (`tool/files/index.tsx:177`).
- The trash view does not subscribe again after a reconnection, and a failed
  restore or purge of one item shows an error in place of all
  (`content/trash`).
- A client stream that passes the limit on what the daemon reads is ended
  without an error message (`server.rs:1053`), and a client whose request stream
  is refused early fails with the write and never reads the daemon's error
  (`client.ts:171`): `ErrorsAreAnswers` excepts both.

## Not modelled

Parts of the system without a module, in the order in which they would be worth
one:

1. Certificate reload: triggers, the debounce that merges them
   (`server.rs:674`) and the start-up retry.
2. The polled tables (processes, windows, roots), which have the form of the
   trash stream without its notification, and bulk mutations of several items.
3. The terminal view of the client, composed with TerminalSession's streams.
4. An abstract specification of a call, two streams of messages without bytes,
   which RpcCall would implement.

Left out of the models that exist:

- RpcSession: the datagram pings, the renewal timer and the controller that a
  call made after the view was disposed would create;
- Workbench: a second window, which shares the stored workbench;
- FilesTab: the selection, sorting and the dialogs that rename, create and
  delete; a file that gets back a size and time which it had before others; a
  file that is replaced or moved while a save has it open; changes of
  attributes alone. Text decoding of the browser (`TextDecoder`) is external.

Without a model for good: the Rust codec and its generator (their round trips
are tested in the repository), shell integration scripts, packaging, rendering,
the other file viewers, which only read, and the calls of the operating systems
behind the service traits, except the write of a text, which FilesTab has.
