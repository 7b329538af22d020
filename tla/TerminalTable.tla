---------------------------- MODULE TerminalTable ----------------------------
(***************************************************************************)
(* The table of terminal sessions: the map of TerminalManager              *)
(* (daemon/host/src/terminal.rs), the broadcast of its changes on          *)
(* table_tx, the SubscribeTerminalSessions streams                         *)
(* (daemon/host/src/server.rs) and the table each client builds from them  *)
(* (web/src/view/workbench/tool/daemon/index.tsx).                         *)
(*                                                                         *)
(* An operation finds the session under the map lock, changes its info and *)
(* copies it under the session lock, and broadcasts the copy after it has  *)
(* released that lock: three steps, between which other threads run.       *)
(* A session's info is abstracted to a revision, which every operation     *)
(* that means to publish a change increases, and to whether exit is set.   *)
(* What changes without a broadcast (latest_output_seq and its time) is    *)
(* left out.                                                               *)
(***************************************************************************)
EXTENDS Integers, Sequences, FiniteSets

CONSTANTS
    Worker,         \* threads: RPC handlers, output readers, child waiters
    Subscriber,     \* SubscribeTerminalSessions streams
    NoRow,          \* the session is not in the table
    Capacity,       \* TERMINAL_TABLE_CHANNEL_CAPACITY
    MaxSessions,    \* bound: sessions created
    MaxRev          \* bound: changes of one session's info

Session == 1 .. MaxSessions
Row == [rev : 0 .. MaxRev, exit : BOOLEAN]

ASSUME RowAssumption == NoRow \notin Row
ASSUME BoundAssumption ==
    /\ Capacity \in Nat \ {0}
    /\ MaxSessions \in Nat
    /\ MaxRev \in Nat

VARIABLES
    sessions,           \* the ids in TerminalManagerInner.sessions
    next_session_id,
    info,               \* each session's info, kept by whoever has its Arc
    closed,
    op,                 \* what each worker is doing
    disturbed,          \* history: operations overlapped, or a resize failed
    phase,              \* where each subscription stream is
    receiver,           \* the events of table_tx its receiver can still read
    overrun,            \* table_tx dropped events the receiver had not read
    since,              \* next_session_id when the receiver was created
    view                \* the client's table once it has read all that was sent

manager == <<sessions, next_session_id, info, closed>>
channel == <<receiver, overrun>>
subscriptions == <<phase, channel, since, view>>
vars == <<manager, op, disturbed, subscriptions>>

-----------------------------------------------------------------------------
(* Types *)

Kind == {"attach", "detach", "take_control", "record_output", "mark_exited"}

Idle == [at |-> "idle"]

Op == {Idle}
 \cup [at : {"held"}, kind : Kind, id : Session]
 \cup [at : {"closing", "remove"}, id : Session]
 \cup [at : {"upsert"}, kind : Kind \cup {"create"}, id : Session, info : Row]

Upsert(id, row) == [type |-> "upsert", id |-> id, row |-> row]
Remove(id) == [type |-> "remove", id |-> id]

TableEvent == [type : {"upsert"}, id : Session, row : Row]
         \cup [type : {"remove"}, id : Session]

Table == [Session -> Row \cup {NoRow}]

TypeOK ==
    /\ sessions \subseteq Session
    /\ next_session_id \in 1 .. (MaxSessions + 1)
    /\ info \in [Session -> Row]
    /\ closed \in [Session -> BOOLEAN]
    /\ op \in [Worker -> Op]
    /\ disturbed \in BOOLEAN
    /\ phase \in [Subscriber -> {"none", "snapshot", "live", "lagged", "gone"}]
    /\ receiver \in [Subscriber -> Seq(TableEvent)]
    /\ \A s \in Subscriber : Len(receiver[s]) <= Capacity
    /\ overrun \in [Subscriber -> BOOLEAN]
    /\ since \in [Subscriber -> 1 .. (MaxSessions + 1)]
    /\ view \in [Subscriber -> Table]

-----------------------------------------------------------------------------

FirstSessionId == 1

Init ==
    /\ sessions = {}
    /\ next_session_id = FirstSessionId
    /\ info = [id \in Session |-> [rev |-> 0, exit |-> FALSE]]
    /\ closed = [id \in Session |-> FALSE]
    /\ op = [w \in Worker |-> Idle]
    /\ disturbed = FALSE
    /\ phase = [s \in Subscriber |-> "none"]
    /\ receiver = [s \in Subscriber |-> <<>>]
    /\ overrun = [s \in Subscriber |-> FALSE]
    /\ since = [s \in Subscriber |-> 1]
    /\ view = [s \in Subscriber |-> [id \in Session |-> NoRow]]

-----------------------------------------------------------------------------
(* Operations *)

\* Worker w enters operation o.
Enter(w, o) ==
    /\ op[w] = Idle
    /\ op' = [op EXCEPT ![w] = o]
    /\ disturbed' = (disturbed \/ \E v \in Worker \ {w} : op[v] # Idle)

Return(w) == op' = [op EXCEPT ![w] = Idle]

\* create_session: insert, then broadcast, then spawn the two threads.
create_session(w) ==
    /\ next_session_id \in Session
    /\ LET id == next_session_id
       IN  /\ sessions' = sessions \cup {id}
           /\ Enter(w, [at |-> "upsert", kind |-> "create", id |-> id,
                        info |-> info[id]])
    /\ next_session_id' = next_session_id + 1
    /\ UNCHANGED <<info, closed, subscriptions>>

\* The reader and the waiter of a session: one thread each, spawned once the
\* creation has been broadcast; the waiter makes one call.
ThreadAvailable(kind, id) ==
    kind \in {"record_output", "mark_exited"} =>
        /\ \A w \in Worker : op[w].at \in {"held", "upsert"} /\ op[w].id = id =>
               op[w].kind \notin {"create", kind}
        /\ kind = "mark_exited" => ~info[id].exit

\* get_session: the Arc is cloned under the map lock.
get_session(w, kind, id) ==
    /\ id \in sessions
    /\ ThreadAvailable(kind, id)
    /\ Enter(w, [at |-> "held", kind |-> kind, id |-> id])
    /\ UNCHANGED <<manager, subscriptions>>

Changed(id) == [info[id] EXCEPT !.rev = @ + 1]

\* Mutant: the change is made to the copy only.
MutantStored(id, row) == info[id]

\* The change is made to the session's own info.
Stored(id, row) == row

\* Under the session lock: the info becomes row, and a copy is kept.
Publish(w, row) ==
    /\ info' = [info EXCEPT ![op[w].id] = Stored(op[w].id, row)]
    /\ op' = [op EXCEPT ![w] =
           [at |-> "upsert", kind |-> op[w].kind, id |-> op[w].id,
            info |-> row]]
    /\ UNCHANGED <<sessions, next_session_id, closed, disturbed,
                   subscriptions>>

Holds(w, kind) == op[w].at = "held" /\ op[w].kind = kind

\* The session was closed after the lookup (attach, record_output and
\* mark_exited check), the output carried no new metadata, or the caller does
\* not own the attach: nothing is published.
ReturnUnchanged(w) ==
    /\ \/ Holds(w, "attach") /\ closed[op[w].id]
       \/ Holds(w, "take_control")
       \/ Holds(w, "record_output")
       \/ Holds(w, "mark_exited") /\ closed[op[w].id]
    /\ Return(w)
    /\ UNCHANGED <<manager, disturbed, subscriptions>>

attach(w) ==
    /\ Holds(w, "attach")
    /\ ~closed[op[w].id]
    /\ info[op[w].id].rev < MaxRev
    /\ Publish(w, Changed(op[w].id))

\* detach and take_control do not look at closed.
detach(w) ==
    /\ Holds(w, "detach")
    /\ info[op[w].id].rev < MaxRev
    /\ Publish(w, Changed(op[w].id))

take_control(w) ==
    /\ Holds(w, "take_control")
    /\ info[op[w].id].rev < MaxRev
    /\ Publish(w, Changed(op[w].id))

\* The resize fails: the info has changed, and nothing is broadcast.
TakeControlResizeFails(w) ==
    /\ Holds(w, "take_control")
    /\ info[op[w].id].rev < MaxRev
    /\ info' = [info EXCEPT ![op[w].id] = Changed(op[w].id)]
    /\ disturbed' = TRUE
    /\ Return(w)
    /\ UNCHANGED <<sessions, next_session_id, closed, subscriptions>>

\* record_output with a title or a working directory that is new.
record_output(w) ==
    /\ Holds(w, "record_output")
    /\ ~closed[op[w].id]
    /\ info[op[w].id].rev < MaxRev
    /\ Publish(w, Changed(op[w].id))

mark_exited(w) ==
    /\ Holds(w, "mark_exited")
    /\ ~closed[op[w].id]
    /\ info[op[w].id].rev < MaxRev
    /\ Publish(w, [Changed(op[w].id) EXCEPT !.exit = TRUE])

\* close_session removes the session from the map, marks it closed under its
\* lock, and broadcasts the removal.
BeginCloseSession(w, id) ==
    /\ id \in sessions
    /\ sessions' = sessions \ {id}
    /\ Enter(w, [at |-> "closing", id |-> id])
    /\ UNCHANGED <<next_session_id, info, closed, subscriptions>>

close_session(w) ==
    /\ op[w].at = "closing"
    /\ closed' = [closed EXCEPT ![op[w].id] = TRUE]
    /\ op' = [op EXCEPT ![w] = [at |-> "remove", id |-> op[w].id]]
    /\ UNCHANGED <<sessions, next_session_id, info, disturbed,
                   subscriptions>>

\* The channel keeps the last Capacity events.
AfterSend(s, event) ==
    IF Len(receiver[s]) = Capacity THEN Append(Tail(receiver[s]), event)
    ELSE Append(receiver[s], event)

Subscribed(s) == phase[s] \in {"live", "lagged"}

\* table_tx.send: every receiver there is gets the event, and one that is too
\* slow loses its oldest and will be told so.
Broadcast(event) ==
    /\ receiver' = [s \in Subscriber |->
           IF Subscribed(s) THEN AfterSend(s, event) ELSE receiver[s]]
    /\ overrun' = [s \in Subscriber |->
           overrun[s] \/ (Subscribed(s) /\ Len(receiver[s]) = Capacity)]

broadcast_table_upsert(w) ==
    /\ op[w].at = "upsert"
    /\ Broadcast(Upsert(op[w].id, op[w].info))
    /\ Return(w)
    /\ UNCHANGED <<manager, disturbed, phase, since, view>>

\* Mutant: closing a session is not announced.
Mutant_broadcast_table_remove(w) ==
    /\ op[w].at = "remove"
    /\ Return(w)
    /\ UNCHANGED <<manager, disturbed, subscriptions>>

broadcast_table_remove(w) ==
    /\ op[w].at = "remove"
    /\ Broadcast(Remove(op[w].id))
    /\ Return(w)
    /\ UNCHANGED <<manager, disturbed, phase, since, view>>

-----------------------------------------------------------------------------
(* SubscribeTerminalSessions (stream_terminal_sessions_subscription) *)

\* All rows, read under the map lock.
sessions_snapshot ==
    [id \in Session |-> IF id \in sessions THEN info[id] ELSE NoRow]

\* The first event is composed and handed to the stream ...
SubscribeSnapshot(s) ==
    /\ phase[s] = "none"
    /\ view' = [view EXCEPT ![s] = sessions_snapshot]
    /\ phase' = [phase EXCEPT ![s] = "snapshot"]
    /\ UNCHANGED <<manager, op, disturbed, channel, since>>

\* ... and only when it is written is the receiver created, which sees what is
\* sent from now on.
SubscribeReceive(s) ==
    /\ phase[s] = "snapshot"
    /\ since' = [since EXCEPT ![s] = next_session_id]
    /\ phase' = [phase EXCEPT ![s] = "live"]
    /\ UNCHANGED <<manager, op, disturbed, channel, view>>

\* What the client does with a patch.
applyTerminalSessionsEvent(table, event) ==
    IF event.type = "remove" THEN [table EXCEPT ![event.id] = NoRow]
    ELSE [table EXCEPT ![event.id] = event.row]

SubscriptionRecv(s) ==
    /\ phase[s] = "live"
    /\ ~overrun[s]
    /\ receiver[s] # <<>>
    /\ view' = [view EXCEPT ![s] =
           applyTerminalSessionsEvent(@, Head(receiver[s]))]
    /\ receiver' = [receiver EXCEPT ![s] = Tail(@)]
    /\ UNCHANGED <<manager, op, disturbed, phase, overrun, since>>

\* RecvError::Lagged: reception goes on with the oldest event the channel
\* still holds ...
SubscriptionLagged(s) ==
    /\ phase[s] = "live"
    /\ overrun[s]
    /\ overrun' = [overrun EXCEPT ![s] = FALSE]
    /\ phase' = [phase EXCEPT ![s] = "lagged"]
    /\ UNCHANGED <<manager, op, disturbed, receiver, since, view>>

\* Mutant: a lagging stream carries on without a new snapshot.
MutantLaggedView(s) == view[s]

\* What the client sees after a lag: a fresh snapshot.
LaggedView(s) == sessions_snapshot

\* ... after a fresh snapshot has been read and written.
SubscriptionResync(s) ==
    /\ phase[s] = "lagged"
    /\ view' = [view EXCEPT ![s] = LaggedView(s)]
    /\ phase' = [phase EXCEPT ![s] = "live"]
    /\ UNCHANGED <<manager, op, disturbed, channel, since>>

\* The client is gone, a write fails and the receiver is dropped.
SubscriptionFails(s) ==
    /\ \/ phase[s] \in {"snapshot", "lagged"}
       \/ phase[s] = "live" /\ receiver[s] # <<>>
    /\ phase' = [phase EXCEPT ![s] = "gone"]
    /\ receiver' = [receiver EXCEPT ![s] = <<>>]
    /\ overrun' = [overrun EXCEPT ![s] = FALSE]
    /\ UNCHANGED <<manager, op, disturbed, since, view>>

-----------------------------------------------------------------------------

WorkerBegin(w) ==
    \/ create_session(w)
    \/ \E kind \in Kind, id \in Session : get_session(w, kind, id)
    \/ \E id \in Session : BeginCloseSession(w, id)

WorkerStep(w) ==
    \/ ReturnUnchanged(w)
    \/ attach(w) \/ detach(w) \/ take_control(w) \/ TakeControlResizeFails(w)
    \/ record_output(w) \/ mark_exited(w)
    \/ close_session(w)
    \/ broadcast_table_upsert(w) \/ broadcast_table_remove(w)

SubscriptionStep(s) ==
    \/ SubscribeReceive(s) \/ SubscriptionRecv(s)
    \/ SubscriptionLagged(s) \/ SubscriptionResync(s)

Next ==
    \/ \E w \in Worker : WorkerBegin(w) \/ WorkerStep(w)
    \/ \E s \in Subscriber :
          SubscribeSnapshot(s) \/ SubscriptionStep(s) \/ SubscriptionFails(s)

Spec == Init /\ [][Next]_vars

-----------------------------------------------------------------------------
(* Properties *)

\* Nothing is under way, and the stream has delivered everything it received.
Quiet(s) ==
    /\ \A w \in Worker : op[w] = Idle
    /\ phase[s] = "live"
    /\ receiver[s] = <<>>

\* row was the info of session id at some time, or is now: what is shown of a
\* session is never invented and never ahead of it.
WasInfo(row, id) ==
    /\ id < next_session_id
    /\ row.rev <= info[id].rev
    /\ row.exit => info[id].exit
    /\ row.rev = info[id].rev => row = info[id]

\* Whatever the races, a client never shows a session that was never created,
\* a state the session never had, or an exit that did not happen.
RowsWereReal ==
    \A s \in Subscriber, id \in Session :
        view[s][id] # NoRow => WasInfo(view[s][id], id)

\* A session created after the subscription's receiver is listed as soon as
\* the stream has caught up, also when the stream lagged on the way.
LaterSessionsListed ==
    \A s \in Subscriber : Quiet(s) =>
        \A id \in sessions : id >= since[s] => view[s][id] # NoRow

\* As long as operations do not overlap and no resize fails, a stream that has
\* caught up shows the sessions created after its receiver exactly: the closed
\* ones are gone and the others have their latest info.
SequentialViewIsExact ==
    \A s \in Subscriber : Quiet(s) /\ ~disturbed =>
        \A id \in Session : id >= since[s] => view[s][id] = sessions_snapshot[id]

\* "Newly created sessions are upserted into the table": a stream that has
\* caught up lists every session there is.
NewSessionsUpserted ==
    \A s \in Subscriber : Quiet(s) =>
        \A id \in sessions : view[s][id] # NoRow
=============================================================================
