--------------------------- MODULE TerminalSession ---------------------------
(***************************************************************************)
(* One pseudo-terminal session of the daemon's TerminalManager             *)
(* (daemon/host/src/terminal.rs) and the attach streams that follow it     *)
(* (daemon/host/src/server.rs).                                            *)
(*                                                                         *)
(* Every operation of the manager first looks the session up in the map    *)
(* (get_session: the map lock is taken, the Arc cloned, the lock released) *)
(* and then takes the session's own lock.  Other operations run between    *)
(* the two, so each operation is two actions here: a "begin" that finds    *)
(* the session, and the section executed under the session lock, which is  *)
(* atomic.  A lookup that fails returns NotFound and changes nothing.      *)
(*                                                                         *)
(* Output bytes are abstracted to the interval [start, end) they occupy in *)
(* the byte stream of the pseudo-terminal, events to a type and the one    *)
(* field that a property tells apart.  TitleChanged stands for both        *)
(* metadata events (title and working directory are handled alike), and a  *)
(* chunk holds at most one.  Requests with an invalid size are refused     *)
(* before anything else and are left out.                                  *)
(***************************************************************************)
EXTENDS Integers, Sequences, FiniteSets

CONSTANTS
    Handler,        \* threads that serve RPC calls
    Rpc,            \* WebTransport (RPC) sessions
    Procs,          \* the RPC procedures each handler thread serves
    AfterSeq,       \* the after_seq values clients send
    NoSeq,          \* after_seq absent from the attach request
    NoOwner,        \* marks an attach id absent from attach_owners
    Size,           \* valid viewport sizes (cols, rows)
    Title,          \* titles the shell may announce
    NoTitle,        \* last_known_title = None, or a chunk without metadata
    Chunk,          \* lengths of the chunks the reader thread may read
    Retention,      \* TERMINAL_OUTPUT_RETENTION_BYTES
    Capacity,       \* TERMINAL_EVENT_CHANNEL_CAPACITY
    ResizeMayFail,  \* whether the resize of the pseudo-terminal may fail
    MaxAttach,      \* bound: attach ids handed out
    MaxSeq,         \* bound: output chunks recorded
    MaxEvents       \* bound: events sent on output_tx

ASSUME ProcsAssumption ==
    Procs \in [Handler -> SUBSET {"attach", "take_control", "write_input",
                                  "close_session"}]
ASSUME AfterSeqAssumption ==
    /\ NoSeq \notin Nat
    /\ AfterSeq \subseteq {NoSeq} \cup Nat
ASSUME OwnerAssumption == NoOwner \notin Rpc
ASSUME TitleAssumption == NoTitle \notin Title
ASSUME ChunkAssumption ==
    /\ Retention \in Nat
    /\ Chunk \subseteq Nat \ {0}
    /\ \A n \in Chunk : n <= Retention    \* 8192 bytes against 1 MiB
ASSUME BoundAssumption ==
    /\ Capacity \in Nat \ {0}
    /\ ResizeMayFail \in BOOLEAN
    /\ MaxAttach \in Nat
    /\ MaxSeq \in Nat
    /\ MaxEvents \in Nat

Attach == 1 .. MaxAttach
NoAttach == 0       \* primary_attach_id = None; ids start at 1

VARIABLES
    in_map,         \* the session is in TerminalManagerInner.sessions
    closed,
    exit,           \* info.exit is Some
    size,           \* info.cols, info.rows
    primary_attach_id,
    latest_output_seq,
    last_known_title,
    output_buffer,  \* retained records [seq, start, end], oldest first
    attach_owners,
    next_attach_id,
    output_tx,      \* every event sent on the session's broadcast channel
    child,          \* the hosted process: "killed" once a kill was tried,
                    \* "unwaited" if it runs on and the wait for it failed
    reader,         \* the output reader thread
    waiter,         \* the child waiter thread
    call,           \* the call each handler thread is in, once it has the Arc
    phase,          \* where the stream of each attach is
    request,        \* after_seq of the attach request
    snapshot,       \* info as Attached reports it
    outbox,         \* Attached, replay and final exit event still to write
    position,       \* events of output_tx the stream's receiver has consumed
    sent,           \* history: events written to the client
    takes,          \* history: take_control calls that passed validation
    inputs          \* history: accepted input, <<attach, rpc>>

session == <<closed, exit, size, primary_attach_id, latest_output_seq,
             last_known_title, output_buffer, attach_owners, output_tx>>
threads == <<child, reader, waiter>>
streams == <<phase, request, snapshot, outbox, position, sent>>
history == <<takes, inputs>>
vars == <<in_map, session, next_attach_id, threads, call, streams, history>>

-----------------------------------------------------------------------------
(* Types *)

Event(type, arg) == [type |-> type, arg |-> arg]

EventType == {"Attached", "OutputChunk", "HistoryGap", "ControlChanged",
              "PseudoTerminalResized", "TitleChanged", "SessionExited",
              "SessionClosed"}

Events == [type : EventType, arg : Int \cup Size \cup Title]

OutputRecord == [seq : Nat, start : Nat, end : Nat]

Idle == [op |-> "idle"]

Call == {Idle}
   \cup [op : {"attach"}, rpc : Rpc, after : {NoSeq} \cup Nat]
   \cup [op : {"take_control"}, rpc : Rpc, attach : Attach, size : Size]
   \cup [op : {"write_input"}, rpc : Rpc, attach : Attach]
   \cup [op : {"close_session"}]

Info == [primary : Attach \cup {NoAttach}, size : Size, latest : Nat,
         exit : BOOLEAN]

\* The stream's task is running: it has attached and not yet detached.
Active == {"writing", "live", "detaching", "detach_held"}

TypeOK ==
    /\ in_map \in BOOLEAN
    /\ closed \in BOOLEAN
    /\ exit \in BOOLEAN
    /\ size \in Size
    /\ primary_attach_id \in Attach \cup {NoAttach}
    /\ latest_output_seq \in Nat
    /\ last_known_title \in Title \cup {NoTitle}
    /\ output_buffer \in Seq(OutputRecord)
    /\ attach_owners \in [Attach -> Rpc \cup {NoOwner}]
    /\ next_attach_id \in 1 .. (MaxAttach + 1)
    /\ output_tx \in Seq(Events)
    /\ child \in {"running", "unwaited", "killed", "ended"}
    /\ reader \in {"reading", "holding", "stopped"}
    /\ waiter \in {"waiting", "holding", "done"}
    /\ call \in [Handler -> Call]
    /\ phase \in [Attach -> Active \cup {"none", "done"}]
    /\ request \in [Attach -> {NoSeq} \cup Nat]
    /\ snapshot \in [Attach -> Info]
    /\ outbox \in [Attach -> Seq(Events)]
    /\ position \in [Attach -> Nat]
    /\ sent \in [Attach -> Seq(Events)]
    /\ takes \subseteq Attach \X Rpc
    /\ inputs \subseteq Attach \X Rpc

-----------------------------------------------------------------------------
(* Helpers *)

\* What is left of the buffer without the records at the positions in
\* dropped, which are its oldest.
Without(buffer, dropped) ==
    SubSeq(buffer, Cardinality(dropped) + 1, Len(buffer))

\* The bytes that are held from record k on: retained_output_bytes once the
\* records before k are gone.
BytesFrom(buffer, k) == buffer[Len(buffer)].end - buffer[k].start

\* Mutant: the loop also runs when exactly Retention bytes are retained.
MutantTrim(buffer) ==
    Without(buffer, {k \in DOMAIN buffer : BytesFrom(buffer, k) >= Retention})

\* The loop that pops the oldest record while more than Retention bytes are
\* retained pops exactly the records from which on too much is held.
Trim(buffer) ==
    Without(buffer, {k \in DOMAIN buffer : BytesFrom(buffer, k) > Retention})

OutputChunk(record) == Event("OutputChunk", record.seq)

\* Mutant: the chunk the client already has is replayed again.
MutantWanted(seq, after) == after = NoSeq \/ seq >= after

\* The filter of the replay: after_seq is the last chunk the client has.
Wanted(seq, after) == after = NoSeq \/ seq > after

\* The retained output after a sequence, behind a HistoryGap when the sequence
\* asked for is older than what is retained.  Sequences ascend in the buffer,
\* so the records that the filter drops are the oldest.
replay_events(buffer, after) ==
    IF buffer = <<>> THEN <<>>
    ELSE LET gap == after # NoSeq /\ after + 1 < buffer[1].seq
             kept == Without(buffer,
                        {i \in DOMAIN buffer : ~Wanted(buffer[i].seq, after)})
         IN  (IF gap THEN <<Event("HistoryGap", buffer[1].seq)>> ELSE <<>>)
             \o [i \in DOMAIN kept |-> OutputChunk(kept[i])]

\* Mutant: any registered attach passes, whoever owns it.
Mutant_validate_attach_owner(a, r) == attach_owners[a] # NoOwner

\* The attach id is in attach_owners with this RPC session as its owner.
validate_attach_owner(a, r) == attach_owners[a] = r

\* All handles to the session, and with them output_tx, are dropped.
Dropped ==
    /\ ~in_map
    /\ reader # "holding" /\ waiter # "holding"
    /\ \A h \in Handler : call[h] = Idle
    /\ \A a \in Attach : phase[a] # "detach_held"

Send(events) ==
    /\ Len(output_tx) + Len(events) <= MaxEvents
    /\ output_tx' = output_tx \o events

CurrentInfo == [primary |-> primary_attach_id, size |-> size,
                latest |-> latest_output_seq, exit |-> exit]

Return(h) == call' = [call EXCEPT ![h] = Idle]
Begin(h, c) ==
    /\ c.op \in Procs[h]
    /\ in_map
    /\ call[h] = Idle
    /\ call' = [call EXCEPT ![h] = c]
    /\ UNCHANGED <<in_map, session, next_attach_id, threads, streams, history>>

-----------------------------------------------------------------------------
(* create_session: the session as it is inserted, its two threads spawned. *)

\* Zero stands for "no attach".
FirstAttachId == 1

Init ==
    /\ in_map = TRUE
    /\ closed = FALSE
    /\ exit = FALSE
    /\ size \in Size
    /\ primary_attach_id = NoAttach
    /\ latest_output_seq = 0
    /\ last_known_title = NoTitle
    /\ output_buffer = <<>>
    /\ attach_owners = [a \in Attach |-> NoOwner]
    /\ next_attach_id = FirstAttachId
    /\ output_tx = <<>>
    /\ child = "running"
    /\ reader = "reading"
    /\ waiter = "waiting"
    /\ call = [h \in Handler |-> Idle]
    /\ phase = [a \in Attach |-> "none"]
    /\ request = [a \in Attach |-> NoSeq]
    /\ snapshot = [a \in Attach |-> CurrentInfo]
    /\ outbox = [a \in Attach |-> <<>>]
    /\ position = [a \in Attach |-> 0]
    /\ sent = [a \in Attach |-> <<>>]
    /\ takes = {}
    /\ inputs = {}

-----------------------------------------------------------------------------
(* AttachTerminalSession *)

BeginAttach(h, r, after) ==
    Begin(h, [op |-> "attach", rpc |-> r, after |-> after])

\* The id is drawn before the lock, so a closed session consumes one as well.
AttachClosed(h) ==
    /\ call[h].op = "attach"
    /\ closed
    /\ next_attach_id \in Attach
    /\ next_attach_id' = next_attach_id + 1
    /\ Return(h)
    /\ UNCHANGED <<in_map, session, threads, streams, history>>

\* Registers the owner, copies the info and the replay, subscribes to the
\* events that follow: one section under the session lock.  The stream then
\* writes Attached, the replay and, if the process had exited, SessionExited.
attach(h) ==
    /\ call[h].op = "attach"
    /\ ~closed
    /\ next_attach_id \in Attach
    /\ LET a == next_attach_id
           exited == IF exit THEN <<Event("SessionExited", 0)>> ELSE <<>>
       IN  /\ attach_owners' = [attach_owners EXCEPT ![a] = call[h].rpc]
           /\ phase' = [phase EXCEPT ![a] = "writing"]
           /\ request' = [request EXCEPT ![a] = call[h].after]
           /\ snapshot' = [snapshot EXCEPT ![a] = CurrentInfo]
           /\ outbox' = [outbox EXCEPT ![a] =
                  <<Event("Attached", 0)>>
                  \o replay_events(output_buffer, call[h].after) \o exited]
           /\ position' = [position EXCEPT ![a] = Len(output_tx)]
    /\ next_attach_id' = next_attach_id + 1
    /\ Return(h)
    /\ UNCHANGED <<in_map, closed, exit, size, primary_attach_id,
                   latest_output_seq, last_known_title, output_buffer,
                   output_tx, threads, sent, history>>

-----------------------------------------------------------------------------
(* TakeTerminalControl *)

BeginTakeControl(h, r, a, s) ==
    Begin(h, [op |-> "take_control", rpc |-> r, attach |-> a, size |-> s])

\* PermissionDenied or "attach not found".
TakeControlRefused(h) ==
    /\ call[h].op = "take_control"
    /\ ~validate_attach_owner(call[h].attach, call[h].rpc)
    /\ Return(h)
    /\ UNCHANGED <<in_map, session, next_attach_id, threads, streams, history>>

\* The new primary and size are stored before the resize is tried.
StoreControl(h) ==
    /\ call[h].op = "take_control"
    /\ validate_attach_owner(call[h].attach, call[h].rpc)
    /\ primary_attach_id' = call[h].attach
    /\ size' = call[h].size
    /\ takes' = takes \cup {<<call[h].attach, call[h].rpc>>}
    /\ Return(h)
    /\ UNCHANGED <<in_map, closed, exit, latest_output_seq, last_known_title,
                   output_buffer, attach_owners, next_attach_id, threads,
                   streams, inputs>>

\* Mutant: the previous primary is read after the new one was stored.
MutantControlEvents(a, s) ==
    IF size # s THEN <<Event("PseudoTerminalResized", s)>> ELSE <<>>

\* The events of a take: one for each thing that changes.
ControlEvents(a, s) ==
    (IF primary_attach_id # a THEN <<Event("ControlChanged", a)>> ELSE <<>>)
    \o (IF size # s THEN <<Event("PseudoTerminalResized", s)>> ELSE <<>>)

take_control(h) ==
    /\ StoreControl(h)
    /\ Send(ControlEvents(call[h].attach, call[h].size))

\* The resize of the pseudo-terminal fails, and with it the call; what was
\* stored stays stored, and no event tells of it.
TakeControlResizeFails(h) ==
    /\ ResizeMayFail
    /\ StoreControl(h)
    /\ UNCHANGED output_tx

-----------------------------------------------------------------------------
(* WriteTerminalInput: one call of write_input per chunk of the stream. *)

BeginWriteInput(h, r, a) ==
    Begin(h, [op |-> "write_input", rpc |-> r, attach |-> a])

WriteInputRefused(h) ==
    /\ call[h].op = "write_input"
    /\ \/ ~validate_attach_owner(call[h].attach, call[h].rpc)
       \/ primary_attach_id # call[h].attach
    /\ Return(h)
    /\ UNCHANGED <<in_map, session, next_attach_id, threads, streams, history>>

write_input(h) ==
    /\ call[h].op = "write_input"
    /\ validate_attach_owner(call[h].attach, call[h].rpc)
    /\ primary_attach_id = call[h].attach
    /\ inputs' = inputs \cup {<<call[h].attach, call[h].rpc>>}
    /\ Return(h)
    /\ UNCHANGED <<in_map, session, next_attach_id, threads, streams, takes>>

-----------------------------------------------------------------------------
(* CloseTerminalSession *)

\* The session leaves the map first; only one caller finds it there.
BeginCloseSession(h) ==
    /\ "close_session" \in Procs[h]
    /\ in_map
    /\ call[h] = Idle
    /\ in_map' = FALSE
    /\ call' = [call EXCEPT ![h] = [op |-> "close_session"]]
    /\ UNCHANGED <<session, next_attach_id, threads, streams, history>>

\* The process runs and nobody has tried to end it.
Alive == {"running", "unwaited"}

\* Mutant: the test of info.exit is inverted.
MutantKilledChild == IF exit /\ child \in Alive THEN "killed" ELSE child

\* child_killer is None once the exit is recorded; otherwise it is used.  A
\* kill that fails is logged and the close goes on.
KilledChild == IF ~exit /\ child \in Alive THEN "killed" ELSE child

close_session(h) ==
    /\ call[h].op = "close_session"
    /\ closed' = TRUE
    /\ child' = KilledChild
    /\ Send(<<Event("SessionClosed", 0)>>)
    /\ Return(h)
    /\ UNCHANGED <<in_map, exit, size, primary_attach_id,
                   latest_output_seq, last_known_title, output_buffer,
                   attach_owners, next_attach_id, reader, waiter, streams,
                   history>>

-----------------------------------------------------------------------------
(* The output reader thread (spawn_output_reader, record_output) *)

\* A chunk was read; record_output looks the session up, or the loop ends.
ReaderGet ==
    /\ reader = "reading"
    /\ Chunk # {}
    /\ reader' = IF in_map THEN "holding" ELSE "stopped"
    /\ UNCHANGED <<in_map, session, next_attach_id, child, waiter, call,
                   streams, history>>

\* End of file, or a read error.
ReaderEof ==
    /\ reader = "reading"
    /\ reader' = "stopped"
    /\ UNCHANGED <<in_map, session, next_attach_id, child, waiter, call,
                   streams, history>>

\* Mutant: output is recorded for a session closed since the lookup.
MutantAcceptsOutput == TRUE
AcceptsOutput == ~closed

RecordOutputClosed ==
    /\ reader = "holding"
    /\ ~AcceptsOutput
    /\ reader' = "stopped"
    /\ UNCHANGED <<in_map, session, next_attach_id, child, waiter, call,
                   streams, history>>

record_output(length, title) ==
    /\ reader = "holding"
    /\ AcceptsOutput
    /\ latest_output_seq < MaxSeq
    /\ LET seq == latest_output_seq + 1
           start == IF output_buffer = <<>> THEN 0
                    ELSE output_buffer[Len(output_buffer)].end
           record == [seq |-> seq, start |-> start, end |-> start + length]
           metadata == IF title = NoTitle THEN <<>>
                       ELSE <<Event("TitleChanged", title)>>
       IN  /\ latest_output_seq' = seq
           /\ output_buffer' = Trim(Append(output_buffer, record))
           /\ Send(<<OutputChunk(record)>> \o metadata)
    /\ last_known_title' = IF title = NoTitle THEN last_known_title ELSE title
    /\ reader' = "reading"
    /\ UNCHANGED <<in_map, closed, exit, size, primary_attach_id,
                   attach_owners, next_attach_id, child, waiter, call, streams,
                   history>>

-----------------------------------------------------------------------------
(* The child waiter thread (spawn_child_waiter, mark_exited) *)

ChildEnds ==
    /\ child # "ended"
    /\ child' = "ended"
    /\ UNCHANGED <<in_map, session, next_attach_id, reader, waiter, call,
                   streams, history>>

\* child.wait() has returned a status; mark_exited looks the session up.
WaiterGet ==
    /\ waiter = "waiting"
    /\ child = "ended"
    /\ waiter' = IF in_map THEN "holding" ELSE "done"
    /\ UNCHANGED <<in_map, session, next_attach_id, child, reader, call,
                   streams, history>>

\* child.wait() has returned an error: the exit is recorded all the same, with
\* no status, whether or not the child still runs.
WaitFails ==
    /\ waiter = "waiting"
    /\ waiter' = IF in_map THEN "holding" ELSE "done"
    /\ child' = IF child = "running" THEN "unwaited" ELSE child
    /\ UNCHANGED <<in_map, session, next_attach_id, reader, call, streams,
                   history>>

MarkExitedClosed ==
    /\ waiter = "holding"
    /\ closed \/ exit
    /\ waiter' = "done"
    /\ UNCHANGED <<in_map, session, next_attach_id, child, reader, call,
                   streams, history>>

mark_exited ==
    /\ waiter = "holding"
    /\ ~closed /\ ~exit
    /\ exit' = TRUE
    /\ Send(<<Event("SessionExited", 0)>>)
    /\ waiter' = "done"
    /\ UNCHANGED <<in_map, closed, size, primary_attach_id,
                   latest_output_seq, last_known_title, output_buffer,
                   attach_owners, next_attach_id, child, reader, call, streams,
                   history>>

-----------------------------------------------------------------------------
(* The stream of one attach (stream_attach_terminal_session and             *)
(* stream_attached_terminal)                                                *)

Write(a, event) == sent' = [sent EXCEPT ![a] = Append(@, event)]

\* Mutant: the stream of a session that had exited goes on to wait.
MutantAfterReplay(a) == "live"

\* The stream of a session that had exited ends with its replay.
AfterReplay(a) == IF snapshot[a].exit THEN "detaching" ELSE "live"

\* Attached, the replay, and the exit event of a session that had exited.
StreamReplay(a) ==
    /\ phase[a] = "writing"
    /\ Write(a, Head(outbox[a]))
    /\ outbox' = [outbox EXCEPT ![a] = Tail(@)]
    /\ phase' = [phase EXCEPT ![a] =
           IF Len(outbox[a]) > 1 THEN "writing" ELSE AfterReplay(a)]
    /\ UNCHANGED <<in_map, session, next_attach_id, threads, call, request,
                   snapshot, position, history>>

\* The channel keeps the last Capacity events; a receiver behind them lags.
Lags(a) == position[a] < Len(output_tx) - Capacity

StreamRecv(a) ==
    /\ phase[a] = "live"
    /\ ~Lags(a)
    /\ position[a] < Len(output_tx)
    /\ LET event == output_tx[position[a] + 1]
       IN  /\ Write(a, event)
           /\ phase' = [phase EXCEPT ![a] =
                  IF event.type \in {"SessionExited", "SessionClosed"}
                  THEN "detaching" ELSE "live"]
    /\ position' = [position EXCEPT ![a] = @ + 1]
    /\ UNCHANGED <<in_map, session, next_attach_id, threads, call, request,
                   snapshot, outbox, history>>

\* Mutant: a lagging receiver just carries on.
MutantStreamLagged(a) ==
    /\ phase[a] = "live"
    /\ Lags(a)
    /\ position' = [position EXCEPT ![a] = Len(output_tx) - Capacity]
    /\ UNCHANGED <<in_map, session, next_attach_id, threads, call, phase,
                   request, snapshot, outbox, sent, history>>

\* RecvError::Lagged: the gap is reported, reception goes on with the oldest
\* event the channel still holds.
StreamLagged(a) ==
    /\ phase[a] = "live"
    /\ Lags(a)
    /\ Write(a, Event("HistoryGap", snapshot[a].latest + 1))
    /\ position' = [position EXCEPT ![a] = Len(output_tx) - Capacity]
    /\ UNCHANGED <<in_map, session, next_attach_id, threads, call, phase,
                   request, snapshot, outbox, history>>

\* Mutant: the loop carries on when the channel is closed.
MutantStreamChannelClosed(a) ==
    FALSE /\ UNCHANGED vars

\* RecvError::Closed.
StreamChannelClosed(a) ==
    /\ phase[a] = "live"
    /\ position[a] = Len(output_tx)
    /\ Dropped
    /\ phase' = [phase EXCEPT ![a] = "detaching"]
    /\ UNCHANGED <<in_map, session, next_attach_id, threads, call, request,
                   snapshot, outbox, position, sent, history>>

\* The client is gone: a write fails and the stream function returns.
StreamWriteFails(a) ==
    /\ \/ phase[a] = "writing"
       \/ phase[a] = "live" /\ position[a] < Len(output_tx)
    /\ phase' = [phase EXCEPT ![a] = "detaching"]
    /\ UNCHANGED <<in_map, session, next_attach_id, threads, call, request,
                   snapshot, outbox, position, sent, history>>

\* Mutant: the stream function returns without detaching.
MutantBeginDetach(a) ==
    /\ phase[a] = "detaching"
    /\ phase' = [phase EXCEPT ![a] = "done"]
    /\ UNCHANGED <<in_map, session, next_attach_id, threads, call, request,
                   snapshot, outbox, position, sent, history>>

BeginDetach(a) ==
    /\ phase[a] = "detaching"
    /\ phase' = [phase EXCEPT ![a] = IF in_map THEN "detach_held" ELSE "done"]
    /\ UNCHANGED <<in_map, session, next_attach_id, threads, call, request,
                   snapshot, outbox, position, sent, history>>

detach(a) ==
    /\ phase[a] = "detach_held"
    /\ attach_owners' = [attach_owners EXCEPT ![a] = NoOwner]
    /\ phase' = [phase EXCEPT ![a] = "done"]
    /\ UNCHANGED <<in_map, closed, exit, size, primary_attach_id,
                   latest_output_seq, last_known_title, output_buffer,
                   output_tx, next_attach_id, threads, call, request, snapshot,
                   outbox, position, sent, history>>

-----------------------------------------------------------------------------

HandlerStep(h) ==
    \/ AttachClosed(h) \/ attach(h)
    \/ TakeControlRefused(h) \/ take_control(h) \/ TakeControlResizeFails(h)
    \/ WriteInputRefused(h) \/ write_input(h)
    \/ close_session(h)

HandlerBegin(h) ==
    \/ \E r \in Rpc, after \in AfterSeq : BeginAttach(h, r, after)
    \/ \E r \in Rpc, a \in Attach, s \in Size : BeginTakeControl(h, r, a, s)
    \/ \E r \in Rpc, a \in Attach : BeginWriteInput(h, r, a)
    \/ BeginCloseSession(h)

ReaderStep ==
    \/ ReaderGet \/ ReaderEof \/ RecordOutputClosed
    \/ \E length \in Chunk, title \in Title \cup {NoTitle} :
          record_output(length, title)

WaiterStep == WaiterGet \/ MarkExitedClosed \/ mark_exited

StreamStep(a) ==
    \/ StreamReplay(a) \/ StreamRecv(a) \/ StreamLagged(a)
    \/ StreamChannelClosed(a) \/ BeginDetach(a) \/ detach(a)

Next ==
    \/ \E h \in Handler : HandlerBegin(h) \/ HandlerStep(h)
    \/ ReaderStep
    \/ ChildEnds
    \/ WaitFails
    \/ WaiterStep
    \/ \E a \in Attach : StreamStep(a) \/ StreamWriteFails(a)

Spec == Init /\ [][Next]_vars

\* Handler calls return, the two threads run, and each stream task is polled
\* as long as it has something to do.  Nothing forces a client to call.
Fairness ==
    /\ \A h \in Handler : WF_vars(HandlerStep(h))
    /\ WF_vars(ReaderStep)
    /\ WF_vars(WaiterStep)
    /\ \A a \in Attach : WF_vars(StreamStep(a))

FairSpec == Spec /\ Fairness
-----------------------------------------------------------------------------
(* Properties *)

\* The output buffer is the contiguous tail of the output: consecutive
\* sequence numbers and bytes up to latest_output_seq, never more than
\* Retention bytes, and never empty once there was output (record_output).
RetainedTail ==
    LET n == Len(output_buffer)
    IN  /\ n = 0 <=> latest_output_seq = 0
        /\ \A i \in 1 .. n : output_buffer[i].seq = latest_output_seq - n + i
        /\ \A i \in 1 .. n - 1 : output_buffer[i].end = output_buffer[i + 1].start
        /\ n > 0 => BytesFrom(output_buffer, 1) <= Retention

\* What a stream has written never skips, repeats or reorders output without
\* saying so: between two chunks that are not consecutive there is a
\* HistoryGap, and later chunks always have larger sequence numbers.
NoSilentGap ==
    \A a \in Attach : \A i, j \in DOMAIN sent[a] :
        /\ i < j
        /\ sent[a][i].type = "OutputChunk"
        /\ sent[a][j].type = "OutputChunk"
        /\ \A k \in i + 1 .. j - 1 : sent[a][k].type # "OutputChunk"
        => \/ sent[a][j].arg = sent[a][i].arg + 1
           \/ /\ sent[a][j].arg > sent[a][i].arg
              /\ \E k \in i + 1 .. j - 1 : sent[a][k].type = "HistoryGap"

\* A stream that resumes after a sequence the session had reached starts with
\* the chunk that follows it, or with a HistoryGap (replay_events together
\* with the subscription taken under the same lock).
ResumeExact ==
    \A a \in Attach : \A j \in DOMAIN sent[a] :
        /\ request[a] # NoSeq
        /\ request[a] <= snapshot[a].latest
        /\ sent[a][j].type = "OutputChunk"
        /\ \A k \in 1 .. j - 1 : sent[a][k].type \notin {"OutputChunk", "HistoryGap"}
        => sent[a][j].arg = request[a] + 1

\* Input reaches the pseudo-terminal only from an RPC session that took
\* control with that very attach: control is never inherited from an earlier
\* attach, another RPC session or a reused id (write_input, take_control).
InputAuthorized == inputs \subseteq takes

\* While the session is in the map, the ids in attach_owners are exactly those
\* whose streams run: no attach outlives its stream and can be given control,
\* and no running stream loses the right to take it (attach, detach).
OwnersAreLive ==
    in_map => \A a \in Attach : attach_owners[a] # NoOwner <=> phase[a] \in Active

\* What the client knows from Attached and the events after it.
LastOf(a, type, default) ==
    LET at == {i \in DOMAIN sent[a] : sent[a][i].type = type}
    IN  IF at = {} THEN default
        ELSE sent[a][CHOOSE i \in at : \A j \in at : j <= i].arg

CaughtUp(a) ==
    /\ phase[a] = "live"
    /\ position[a] = Len(output_tx)
    /\ \A i \in DOMAIN sent[a] : sent[a][i].type # "HistoryGap"

\* A stream that has received every event agrees with the daemon on who has
\* control, on the size and on how much output there was.
ReportedControlIsCurrent ==
    \A a \in Attach : CaughtUp(a) =>
        /\ LastOf(a, "ControlChanged", snapshot[a].primary) = primary_attach_id
        /\ LastOf(a, "PseudoTerminalResized", snapshot[a].size) = size
        /\ LastOf(a, "OutputChunk", snapshot[a].latest) = latest_output_seq

\* A closed session does not come back: no output is recorded, no exit
\* reported and no attach admitted by calls that found it before it was closed.
ClosedIsFinal ==
    [][closed => /\ closed'
                 /\ UNCHANGED <<latest_output_seq, output_buffer, exit>>
                 /\ \A a \in Attach : attach_owners'[a] # NoOwner =>
                        attach_owners'[a] = attach_owners[a]]_vars

\* A closed session leaves its process behind in one case only: the wait for
\* the child had failed, and recording the exit dropped the killer before the
\* close could use it.  Otherwise a kill has been tried or the child has ended
\* by itself, whichever of the close and of the waiter thread, which may be
\* anywhere between its lookup and its lock, comes first (close_session,
\* spawn_child_waiter, mark_exited).
NoOrphanChild == closed /\ child \in Alive => child = "unwaited" /\ exit

\* Once a session is closed every attach stream ends, whatever calls were
\* under way.
CloseEndsStreams ==
    \A a \in Attach : (closed /\ phase[a] \in Active) ~> phase[a] = "done"

\* Once the process has exited every attach stream ends, unless the client was
\* told that it missed events.
ExitEndsStreams ==
    \A a \in Attach : (exit /\ phase[a] \in Active) ~>
        \/ phase[a] = "done"
        \/ \E i \in DOMAIN sent[a] : sent[a][i].type = "HistoryGap"

\* "nextSeq is the first sequence the daemon can provide after the gap": the
\* chunk that follows a HistoryGap has the sequence number it announced.
GapNamesNextSeq ==
    \A a \in Attach : \A i, j \in DOMAIN sent[a] :
        /\ i < j
        /\ sent[a][i].type = "HistoryGap"
        /\ sent[a][j].type = "OutputChunk"
        /\ \A k \in i + 1 .. j - 1 :
               sent[a][k].type \notin {"OutputChunk", "HistoryGap"}
        => sent[a][j].arg = sent[a][i].arg
=============================================================================
