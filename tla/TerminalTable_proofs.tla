------------------------ MODULE TerminalTable_proofs ------------------------
(***************************************************************************)
(* Proofs about TerminalTable for any numbers of threads, subscribers and  *)
(* sessions and any capacity of the channel: the types, that a client is   *)
(* never shown a row that no session had, that it is shown every session   *)
(* created after its subscription, and that without overlapping operations *)
(* it is shown those sessions exactly.                                     *)
(***************************************************************************)
EXTENDS TerminalTable, TLAPS

\* What a thread is about to broadcast was the session's info, and whatever it
\* works on was created.
OpIsSound(o) ==
  /\ o # Idle => o.id < next_session_id
  /\ o.at = "upsert" => WasInfo(o.info, o.id)
OpsAreSound == \A w \in Worker : OpIsSound(op[w])

\* So was what a receiver still has to read.
EventIsSound(e) ==
  /\ e.id < next_session_id
  /\ e.type = "upsert" => WasInfo(e.row, e.id)
EventsAreSound ==
  \A s \in Subscriber : \A i \in 1 .. Len(receiver[s]) :
    EventIsSound(receiver[s][i])

SessionsWereCreated == \A id \in sessions : id < next_session_id

IInv == /\ TypeOK
        /\ SessionsWereCreated
        /\ OpsAreSound
        /\ EventsAreSound
        /\ RowsWereReal

\* What a step may do to the sessions' infos: an info that changes has a new
\* revision and keeps its exit.
Grows ==
  /\ next_session_id' >= next_session_id
  /\ \A id \in Session :
       \/ info'[id] = info[id]
       \/ /\ info'[id].rev = info[id].rev + 1
          /\ info[id].exit => info'[id].exit

-----------------------------------------------------------------------------
\* The parts of a row.
LEMMA RowType == \A row \in Row : row.rev \in Nat /\ row.exit \in BOOLEAN
  BY BoundAssumption DEF Row

\* What was a session's info stays that.
LEMMA WasInfoStays ==
  ASSUME TypeOK, TypeOK', Grows, NEW id \in Session, NEW row \in Row,
         WasInfo(row, id)
  PROVE  WasInfo(row, id)'
<1>1. /\ info[id] \in Row /\ info'[id] \in Row
      /\ next_session_id \in Nat /\ next_session_id' \in Nat /\ id \in Nat
  BY BoundAssumption DEF TypeOK, Session
<1>2. CASE info'[id] = info[id]
  BY <1>1, <1>2 DEF WasInfo, Grows
<1>3. CASE info'[id].rev = info[id].rev + 1 /\ (info[id].exit => info'[id].exit)
  BY <1>1, <1>3, RowType DEF WasInfo, Grows
<1> QED BY <1>2, <1>3 DEF Grows

\* A session's info is one it has.
LEMMA InfoIsReal ==
  ASSUME TypeOK, NEW id \in Session, id < next_session_id
  PROVE  WasInfo(info[id], id)
<1>1. info[id] \in Row
  BY DEF TypeOK
<1> QED BY <1>1, RowType DEF WasInfo

\* A snapshot holds rows that sessions had (terminal.rs, snapshots).
LEMMA SnapshotIsReal ==
  ASSUME IInv
  PROVE  /\ sessions_snapshot \in Table
         /\ \A id \in Session : sessions_snapshot[id] # NoRow =>
              WasInfo(sessions_snapshot[id], id)
<1>1. sessions_snapshot \in Table
  BY DEF IInv, TypeOK, sessions_snapshot, Table
<1>2. ASSUME NEW id \in Session, sessions_snapshot[id] # NoRow
      PROVE  WasInfo(sessions_snapshot[id], id)
  <2>1. id \in sessions /\ sessions_snapshot[id] = info[id]
    BY <1>2 DEF sessions_snapshot
  <2> QED BY <2>1, InfoIsReal DEF IInv, SessionsWereCreated
<1> QED BY <1>1, <1>2

\* The events of a receiver after a broadcast are those it had and the new one.
LEMMA AfterSendHas ==
  ASSUME TypeOK, NEW s \in Subscriber, NEW e \in TableEvent
  PROVE  /\ AfterSend(s, e) \in Seq(TableEvent)
         /\ Len(AfterSend(s, e)) <= Capacity
         /\ \A i \in 1 .. Len(AfterSend(s, e)) :
              \/ AfterSend(s, e)[i] = e
              \/ \E j \in 1 .. Len(receiver[s]) : AfterSend(s, e)[i] = receiver[s][j]
<1> DEFINE q == receiver[s]
<1>1. q \in Seq(TableEvent) /\ Len(q) <= Capacity /\ Len(q) \in Nat
  BY DEF TypeOK
<1>2. CASE Len(q) = Capacity
  <2>1. q # <<>> /\ Len(q) > 0
    BY <1>1, <1>2, BoundAssumption
  <2>2. /\ Tail(q) \in Seq(TableEvent) /\ Len(Tail(q)) = Len(q) - 1
        /\ \A i \in 1 .. Len(q) - 1 : Tail(q)[i] = q[i + 1]
    BY <1>1, <2>1
  <2>3. AfterSend(s, e) = Append(Tail(q), e)
    BY <1>2 DEF AfterSend
  <2>4. /\ Append(Tail(q), e) \in Seq(TableEvent)
        /\ Len(Append(Tail(q), e)) = Len(q)
        /\ \A i \in 1 .. Len(q) :
             Append(Tail(q), e)[i] = IF i = Len(q) THEN e ELSE Tail(q)[i]
    BY <1>1, <2>1, <2>2
  <2>5. ASSUME NEW i \in 1 .. Len(q), i # Len(q)
        PROVE  i + 1 \in 1 .. Len(q) /\ Append(Tail(q), e)[i] = q[i + 1]
    BY <1>1, <2>2, <2>4, <2>5
  <2> QED BY <1>1, <2>3, <2>4, <2>5
<1>3. CASE Len(q) # Capacity
  <2>1. AfterSend(s, e) = Append(q, e)
    BY <1>3 DEF AfterSend
  <2>2. /\ Append(q, e) \in Seq(TableEvent)
        /\ Len(Append(q, e)) = Len(q) + 1
        /\ \A i \in 1 .. Len(q) + 1 :
             Append(q, e)[i] = IF i = Len(q) + 1 THEN e ELSE q[i]
    BY <1>1
  <2>3. Len(q) + 1 <= Capacity
    BY <1>1, <1>3, BoundAssumption
  <2>4. \A i \in 1 .. Len(q) + 1 : i # Len(q) + 1 => i \in 1 .. Len(q)
    BY <1>1
  <2> QED BY <2>1, <2>2, <2>3, <2>4
<1> QED BY <1>2, <1>3

\* Before any call nothing was ever told.
LEMMA InitSound == Init => IInv
<1> SUFFICES ASSUME Init PROVE IInv
  OBVIOUS
<1>1. TypeOK
  <2>1. 1 \in 1 .. (MaxSessions + 1)
    BY BoundAssumption
  <2>2. [rev |-> 0, exit |-> FALSE] \in Row
    BY BoundAssumption DEF Row
  <2>3. <<>> \in Seq(TableEvent) /\ Len(<<>>) <= Capacity
    BY BoundAssumption
  <2>4. /\ receiver \in [Subscriber -> Seq(TableEvent)]
        /\ \A s \in Subscriber : Len(receiver[s]) <= Capacity
    BY <2>3 DEF Init
  <2>5. view \in [Subscriber -> Table] /\ op \in [Worker -> Op]
    BY DEF Init, Table, Op
  <2>6. info \in [Session -> Row]
    BY <2>2 DEF Init
  <2>7. /\ sessions \subseteq Session
        /\ next_session_id \in 1 .. (MaxSessions + 1)
        /\ closed \in [Session -> BOOLEAN]
        /\ disturbed \in BOOLEAN
    BY <2>1 DEF Init, FirstSessionId
  <2>8. /\ phase \in [Subscriber -> {"none", "snapshot", "live", "lagged", "gone"}]
        /\ overrun \in [Subscriber -> BOOLEAN]
        /\ since \in [Subscriber -> 1 .. (MaxSessions + 1)]
    BY <2>1 DEF Init
  <2> QED BY <2>4, <2>5, <2>6, <2>7, <2>8 DEF TypeOK
<1> QED BY <1>1 DEF Init, IInv, SessionsWereCreated, OpsAreSound,
                    OpIsSound, EventsAreSound, EventIsSound, RowsWereReal, Idle

-----------------------------------------------------------------------------
(* Steps *)

\* A step that adds sound operations, events and rows to what there was.
LEMMA StepSound ==
  ASSUME IInv, TypeOK', Grows, SessionsWereCreated',
         \A w \in Worker :
           op'[w] = op[w] \/ op'[w] = Idle \/ OpIsSound(op[w])',
         \A s \in Subscriber : \A i \in 1 .. Len(receiver'[s]) :
           \/ \E j \in 1 .. Len(receiver[s]) : receiver'[s][i] = receiver[s][j]
           \/ EventIsSound(receiver[s][i])',
         \A s \in Subscriber, id \in Session :
           \/ view'[s][id] = view[s][id]
           \/ (view[s][id] # NoRow => WasInfo(view[s][id], id))'
  PROVE  IInv'
<1>1. OpsAreSound'
  <2> SUFFICES ASSUME NEW w \in Worker, op'[w] = op[w]
               PROVE  OpIsSound(op[w])'
    BY DEF OpsAreSound, OpIsSound, Idle
  <2>1. op[w] \in Op /\ OpIsSound(op[w])
    BY DEF IInv, TypeOK, OpsAreSound
  <2>2. /\ next_session_id \in Nat /\ next_session_id' \in Nat
        /\ next_session_id' >= next_session_id
    BY BoundAssumption DEF IInv, TypeOK, Grows
  <2>3. op[w] # Idle => op[w].id \in Nat
    BY <2>1, BoundAssumption DEF Op, Idle, Session
  <2>4. op[w].at = "upsert" => op[w].info \in Row /\ op[w].id \in Session
    BY <2>1 DEF Op, Idle
  <2>5. ASSUME op[w].at = "upsert"
        PROVE  WasInfo(op[w].info, op[w].id)'
    <3>1. WasInfo(op[w].info, op[w].id)
      BY <2>1, <2>5 DEF OpIsSound
    <3> QED BY <2>4, <2>5, <3>1, WasInfoStays DEF IInv, WasInfo
  <2>6. op[w] # Idle => op[w].id < next_session_id'
    BY <2>1, <2>2, <2>3 DEF OpIsSound
  <2> QED BY <2>5, <2>6 DEF OpIsSound, WasInfo
<1>2. EventsAreSound'
  <2> SUFFICES ASSUME NEW s \in Subscriber, NEW i \in 1 .. Len(receiver'[s]),
                      NEW j \in 1 .. Len(receiver[s]),
                      receiver'[s][i] = receiver[s][j]
               PROVE  EventIsSound(receiver[s][i])'
    BY DEF EventsAreSound
  <2>1. receiver[s][j] \in TableEvent /\ EventIsSound(receiver[s][j])
    BY DEF IInv, TypeOK, EventsAreSound
  <2>2. ASSUME receiver'[s][i].type = "upsert"
        PROVE  WasInfo(receiver[s][i].row, receiver[s][i].id)'
    <3>1. /\ receiver[s][j].row \in Row /\ receiver[s][j].id \in Session
          /\ WasInfo(receiver[s][j].row, receiver[s][j].id)
      BY <2>1, <2>2 DEF TableEvent, EventIsSound
    <3> QED BY <3>1, WasInfoStays DEF IInv, WasInfo
  <2>3. receiver[s][j].id \in Nat /\ receiver[s][j].id < next_session_id
    BY <2>1, BoundAssumption DEF TableEvent, Session, EventIsSound
  <2>4. receiver[s][j].id < next_session_id'
    BY <2>3, BoundAssumption DEF IInv, TypeOK, Grows
  <2> QED BY <2>2, <2>4 DEF EventIsSound, WasInfo
<1>3. RowsWereReal'
  <2> SUFFICES ASSUME NEW s \in Subscriber, NEW id \in Session,
                      view[s][id] # NoRow, view'[s][id] = view[s][id]
               PROVE  WasInfo(view[s][id], id)'
    BY DEF RowsWereReal
  <2>1. view[s][id] \in Row /\ WasInfo(view[s][id], id)
    BY DEF IInv, TypeOK, Table, RowsWereReal
  <2> QED BY <2>1, WasInfoStays DEF IInv, WasInfo
<1> QED BY <1>1, <1>2, <1>3 DEF IInv

\* What a call under way carries at each of its points.
LEMMA OpTypes ==
  ASSUME TypeOK, NEW w \in Worker
  PROVE  /\ op[w] \in Op
         /\ op[w].at = "held" => op[w].id \in Session /\ op[w].kind \in Kind
         /\ op[w].at \in {"closing", "remove"} => op[w].id \in Session
         /\ op[w].at = "upsert" =>
              /\ op[w].id \in Session /\ op[w].info \in Row
              /\ op[w].kind \in Kind \cup {"create"}
  BY DEF TypeOK, Op, Idle

\* A changed row has the next revision.
LEMMA ChangedType ==
  ASSUME TypeOK, NEW id \in Session, info[id].rev < MaxRev
  PROVE  /\ Changed(id) \in Row
         /\ Changed(id).rev = info[id].rev + 1
         /\ Changed(id).exit = info[id].exit
         /\ [Changed(id) EXCEPT !.exit = TRUE] \in Row
         /\ [Changed(id) EXCEPT !.exit = TRUE].rev = info[id].rev + 1
         /\ [Changed(id) EXCEPT !.exit = TRUE].exit
<1>1. /\ info[id] \in Row /\ info[id].rev \in 0 .. MaxRev
      /\ info[id].rev + 1 \in 0 .. MaxRev /\ info[id].exit \in BOOLEAN
  BY BoundAssumption DEF TypeOK, Row
<1> DEFINE c == Changed(id)
<1>2. c \in Row /\ c.rev = info[id].rev + 1 /\ c.exit = info[id].exit
  BY <1>1 DEF Changed, Row
<1>3. \A r \in Row : [r EXCEPT !.exit = TRUE] \in Row
                      /\ [r EXCEPT !.exit = TRUE].rev = r.rev
                      /\ [r EXCEPT !.exit = TRUE].exit
  BY DEF Row
<1> HIDE DEF c
<1> QED BY <1>2, <1>3 DEF c

\* Beginning a call, with the mark that calls have overlapped.
LEMMA EnterType ==
  ASSUME TypeOK, NEW w \in Worker, NEW o \in Op, Enter(w, o)
  PROVE  op' \in [Worker -> Op] /\ disturbed' \in BOOLEAN
  BY DEF TypeOK, Enter

\* Ending one.
LEMMA ReturnType ==
  ASSUME TypeOK, NEW w \in Worker, Return(w)
  PROVE  op' \in [Worker -> Op]
  BY DEF TypeOK, Return, Op

\* A broadcast adds its event to every receiver, each within the capacity: a
\* receiver holds only what it held and the new event.
LEMMA BroadcastType ==
  ASSUME TypeOK, NEW e \in TableEvent, Broadcast(e)
  PROVE  /\ receiver' \in [Subscriber -> Seq(TableEvent)]
         /\ \A s \in Subscriber : Len(receiver'[s]) <= Capacity
         /\ overrun' \in [Subscriber -> BOOLEAN]
         /\ \A s \in Subscriber : \A i \in 1 .. Len(receiver'[s]) :
              \/ \E j \in 1 .. Len(receiver[s]) : receiver'[s][i] = receiver[s][j]
              \/ receiver'[s][i] = e
<1>1. ASSUME NEW s \in Subscriber
      PROVE  receiver'[s] = receiver[s] \/ receiver'[s] = AfterSend(s, e)
  BY DEF Broadcast
<1>2. \A s \in Subscriber : receiver'[s] \in Seq(TableEvent)
  BY <1>1, AfterSendHas DEF TypeOK
<1>3. receiver' \in [Subscriber -> Seq(TableEvent)]
  BY <1>2 DEF Broadcast
<1>4. \A s \in Subscriber : Len(receiver'[s]) <= Capacity
  BY <1>1, AfterSendHas DEF TypeOK
<1>5. overrun' \in [Subscriber -> BOOLEAN]
  BY DEF TypeOK, Broadcast, Subscribed
<1>6. ASSUME NEW s \in Subscriber, NEW i \in 1 .. Len(receiver'[s])
      PROVE  \/ \E j \in 1 .. Len(receiver[s]) : receiver'[s][i] = receiver[s][j]
             \/ receiver'[s][i] = e
  BY <1>1, AfterSendHas
<1> QED BY <1>3, <1>4, <1>5, <1>6

\* The three ways in which an operation publishes a change.
LEMMA PublishSound ==
  ASSUME IInv, NEW w \in Worker, op[w].at = "held", NEW row \in Row,
         row.rev = info[op[w].id].rev + 1, info[op[w].id].exit => row.exit,
         Publish(w, row)
  PROVE  IInv'
<1> DEFINE id == op[w].id
<1>1. id \in Session /\ op[w].kind \in Kind /\ op[w] # Idle
  BY OpTypes DEF IInv, Idle
<1>2. info' = [info EXCEPT ![id] = row]
  BY DEF Publish, Stored
<1>3. op' = [op EXCEPT ![w] = [at |-> "upsert", kind |-> op[w].kind,
                               id |-> id, info |-> row]]
  BY DEF Publish
<1>4. UNCHANGED <<sessions, next_session_id, closed, disturbed, phase, receiver,
                  overrun, since, view>>
  BY DEF Publish, subscriptions, channel
<1>5. TypeOK'
  <2>1. info' \in [Session -> Row]
    BY <1>2 DEF IInv, TypeOK
  <2>2. op' \in [Worker -> Op]
    BY <1>1, <1>3 DEF IInv, TypeOK, Op
  <2> QED BY <1>4, <2>1, <2>2 DEF IInv, TypeOK
<1>6. Grows
  <2>1. next_session_id' >= next_session_id
    BY <1>4, BoundAssumption DEF IInv, TypeOK
  <2>2. \A i \in Session : info'[i] = IF i = id THEN row ELSE info[i]
    BY <1>2 DEF IInv, TypeOK
  <2> QED BY <2>1, <2>2 DEF Grows
<1>7. OpIsSound(op[w])'
  <2>1. id < next_session_id
    BY <1>1 DEF IInv, OpsAreSound, OpIsSound
  <2>2. info'[id] = row
    BY <1>1, <1>2 DEF IInv, TypeOK
  <2>3. op'[w].info = row /\ op'[w].id = id
    BY <1>3 DEF IInv, TypeOK
  <2> QED BY <1>4, <2>1, <2>2, <2>3, RowType DEF OpIsSound, WasInfo
<1>8. \A v \in Worker : op'[v] = op[v] \/ op'[v] = Idle \/ OpIsSound(op[v])'
  <2> SUFFICES ASSUME NEW v \in Worker, v # w PROVE op'[v] = op[v]
    BY <1>7
  <2> QED BY <1>3 DEF IInv, TypeOK
<1>9. SessionsWereCreated'
  BY <1>4 DEF IInv, SessionsWereCreated
<1> QED BY <1>4, <1>5, <1>6, <1>8, <1>9, StepSound

\* A step that changes no info and publishes nothing: a thread enters or
\* returns from an operation.
LEMMA EnterSound ==
  ASSUME IInv, NEW w \in Worker, NEW o \in Op \ {Idle}, op' = [op EXCEPT ![w] = o],
         disturbed' \in BOOLEAN, o.id < next_session_id',
         o.at = "upsert" => WasInfo(o.info, o.id)',
         sessions' \subseteq Session, SessionsWereCreated',
         next_session_id' \in 1 .. (MaxSessions + 1),
         next_session_id' >= next_session_id,
         closed' \in [Session -> BOOLEAN],
         UNCHANGED <<info, subscriptions>>
  PROVE  IInv'
<1>1. UNCHANGED <<info, phase, receiver, overrun, since, view>>
  BY DEF subscriptions, channel
<1>2. TypeOK'
  <2>1. op' \in [Worker -> Op]
    BY DEF IInv, TypeOK
  <2> QED BY <1>1, <2>1 DEF IInv, TypeOK
<1>3. Grows
  BY <1>1 DEF Grows
<1>4. \A v \in Worker : op'[v] = IF v = w THEN o ELSE op[v]
  BY DEF IInv, TypeOK
<1>5. OpIsSound(op[w])'
  BY <1>1, <1>4 DEF OpIsSound, WasInfo
<1> QED BY <1>1, <1>2, <1>3, <1>4, <1>5, StepSound

\* A call that ends changes nothing a client was told.
LEMMA ReturnSound ==
  ASSUME IInv, NEW w \in Worker, Return(w), UNCHANGED <<manager, disturbed>>,
         phase' = phase, since' = since, view' = view,
         receiver' \in [Subscriber -> Seq(TableEvent)],
         \A s \in Subscriber : Len(receiver'[s]) <= Capacity,
         overrun' \in [Subscriber -> BOOLEAN],
         \A s \in Subscriber : \A i \in 1 .. Len(receiver'[s]) :
           \/ \E j \in 1 .. Len(receiver[s]) : receiver'[s][i] = receiver[s][j]
           \/ EventIsSound(receiver[s][i])'
  PROVE  IInv'
<1>1. UNCHANGED <<sessions, next_session_id, info, closed>>
  BY DEF manager
<1>2. op' \in [Worker -> Op]
  BY ReturnType DEF IInv
<1>3. TypeOK'
  BY <1>1, <1>2 DEF IInv, TypeOK
<1>4. Grows
  BY <1>1, BoundAssumption DEF IInv, TypeOK, Grows
<1>5. \A v \in Worker : op'[v] = op[v] \/ op'[v] = Idle
  BY DEF IInv, TypeOK, Return
<1>6. SessionsWereCreated'
  BY <1>1 DEF IInv, SessionsWereCreated
<1> QED BY <1>3, <1>4, <1>5, <1>6, StepSound

\* A step of a subscription, which is given sound rows.
LEMMA SubscriptionSound ==
  ASSUME IInv, UNCHANGED <<manager, op, disturbed>>,
         phase' \in [Subscriber -> {"none", "snapshot", "live", "lagged", "gone"}],
         since' \in [Subscriber -> 1 .. (MaxSessions + 1)],
         overrun' \in [Subscriber -> BOOLEAN],
         NEW s \in Subscriber, NEW q \in Seq(TableEvent), NEW t \in Table,
         receiver' = [receiver EXCEPT ![s] = q], Len(q) <= Capacity,
         \A i \in 1 .. Len(q) : \E j \in 1 .. Len(receiver[s]) :
           q[i] = receiver[s][j],
         view' = [view EXCEPT ![s] = t],
         \A id \in Session : t[id] # NoRow => WasInfo(t[id], id)
  PROVE  IInv'
<1>1. UNCHANGED <<sessions, next_session_id, info, closed>>
  BY DEF manager
<1>2. \A u \in Subscriber : receiver'[u] = IF u = s THEN q ELSE receiver[u]
  BY DEF IInv, TypeOK
<1>3. \A u \in Subscriber : view'[u] = IF u = s THEN t ELSE view[u]
  BY DEF IInv, TypeOK
<1>4. TypeOK'
  <2>1. receiver' \in [Subscriber -> Seq(TableEvent)]
    BY DEF IInv, TypeOK
  <2>2. view' \in [Subscriber -> Table]
    BY DEF IInv, TypeOK
  <2> QED BY <1>1, <1>2, <2>1, <2>2 DEF IInv, TypeOK
<1>5. Grows
  BY <1>1, BoundAssumption DEF IInv, TypeOK, Grows
<1>6. SessionsWereCreated'
  BY <1>1 DEF IInv, SessionsWereCreated
<1>7. \A u \in Subscriber, id \in Session :
        \/ view'[u][id] = view[u][id]
        \/ (view[u][id] # NoRow => WasInfo(view[u][id], id))'
  BY <1>1, <1>3 DEF WasInfo
<1>8. \A u \in Subscriber : \A i \in 1 .. Len(receiver'[u]) :
        \E j \in 1 .. Len(receiver[u]) : receiver'[u][i] = receiver[u][j]
  <2> SUFFICES ASSUME NEW u \in Subscriber, NEW i \in 1 .. Len(receiver'[u])
               PROVE  \E j \in 1 .. Len(receiver[u]) :
                        receiver'[u][i] = receiver[u][j]
    OBVIOUS
  <2>1. CASE u = s
    BY <1>2, <2>1
  <2>2. CASE u # s
    BY <1>2, <2>2
  <2> QED BY <2>1, <2>2
<1> QED BY <1>4, <1>5, <1>6, <1>7, <1>8, StepSound

\* Whatever a thread does, what clients are shown and are going to be shown
\* was real.
LEMMA WorkerSound ==
  ASSUME IInv, NEW w \in Worker, WorkerBegin(w) \/ WorkerStep(w)
  PROVE  IInv'
<1> USE DEF IInv
<1>1. CASE create_session(w)
  <2>1. PICK id : id = next_session_id
    OBVIOUS
  <2>2. PICK o : o = [at |-> "upsert", kind |-> "create", id |-> id,
                      info |-> info[id]]
    OBVIOUS
  <2>3. /\ id \in Session /\ id \in Nat /\ info[id] \in Row
        /\ next_session_id' = id + 1 /\ sessions' = sessions \cup {id}
        /\ Enter(w, o) /\ UNCHANGED <<info, closed, subscriptions>>
    BY <1>1, <2>1, <2>2, BoundAssumption DEF create_session, TypeOK, Session
  <2>4. o \in Op \ {Idle} /\ o.id = id /\ o.info = info[id] /\ o.at = "upsert"
    BY <2>2, <2>3 DEF Op, Idle
  <2>5. op' = [op EXCEPT ![w] = o] /\ disturbed' \in BOOLEAN
    BY <2>3, <2>4, EnterType DEF Enter
  <2>6. next_session_id' \in 1 .. (MaxSessions + 1) /\ next_session_id' >= next_session_id
    BY <2>1, <2>3, BoundAssumption DEF Session
  <2>7. WasInfo(o.info, o.id)'
    BY <2>3, <2>4, RowType DEF WasInfo
  <2>8. SessionsWereCreated'
    <3>1. \A i \in sessions : i \in Nat /\ i < id
      BY <2>1, BoundAssumption DEF SessionsWereCreated, TypeOK, Session
    <3> QED BY <2>3, <3>1 DEF SessionsWereCreated
  <2>9. sessions' \subseteq Session /\ closed' \in [Session -> BOOLEAN]
    BY <2>3 DEF TypeOK
  <2>10. o.id < next_session_id'
    BY <2>3, <2>4
  <2> QED BY <2>3, <2>4, <2>5, <2>6, <2>7, <2>8, <2>9, <2>10, EnterSound
<1>2. ASSUME NEW kind \in Kind, NEW id \in Session, get_session(w, kind, id)
      PROVE  IInv'
  <2> DEFINE o == [at |-> "held", kind |-> kind, id |-> id]
  <2>1. o \in Op \ {Idle} /\ o.id = id /\ o.at = "held"
    BY DEF Op, Idle
  <2>2. /\ Enter(w, o) /\ id \in sessions
        /\ UNCHANGED <<sessions, next_session_id, info, closed, subscriptions>>
    BY <1>2 DEF get_session, manager
  <2>3. op' = [op EXCEPT ![w] = o] /\ disturbed' \in BOOLEAN
    BY <2>1, <2>2, EnterType DEF Enter
  <2>4. id < next_session_id'
    BY <2>2 DEF SessionsWereCreated
  <2>5. SessionsWereCreated'
    BY <2>2 DEF SessionsWereCreated
  <2>6. next_session_id' >= next_session_id
    BY <2>2, BoundAssumption DEF TypeOK
  <2> HIDE DEF o
  <2> QED BY <2>1, <2>2, <2>3, <2>4, <2>5, <2>6, EnterSound DEF TypeOK
<1>3. ASSUME NEW id \in Session, BeginCloseSession(w, id)
      PROVE  IInv'
  <2> DEFINE o == [at |-> "closing", id |-> id]
  <2>1. o \in Op \ {Idle} /\ o.id = id /\ o.at = "closing"
    BY DEF Op, Idle
  <2>2. /\ Enter(w, o) /\ id \in sessions /\ sessions' = sessions \ {id}
        /\ UNCHANGED <<next_session_id, info, closed, subscriptions>>
    BY <1>3 DEF BeginCloseSession
  <2>3. op' = [op EXCEPT ![w] = o] /\ disturbed' \in BOOLEAN
    BY <2>1, <2>2, EnterType DEF Enter
  <2>4. id < next_session_id'
    BY <2>2 DEF SessionsWereCreated
  <2>5. SessionsWereCreated'
    BY <2>2 DEF SessionsWereCreated
  <2>6. next_session_id' >= next_session_id
    BY <2>2, BoundAssumption DEF TypeOK
  <2> HIDE DEF o
  <2> QED BY <2>1, <2>2, <2>3, <2>4, <2>5, <2>6, EnterSound DEF TypeOK
<1>4. CASE ReturnUnchanged(w)
  <2>1. Return(w) /\ UNCHANGED <<manager, disturbed>>
    BY <1>4 DEF ReturnUnchanged
  <2>2. UNCHANGED <<phase, receiver, overrun, since, view>>
    BY <1>4 DEF ReturnUnchanged, subscriptions, channel
  <2> HIDE DEF IInv
  <2>3. TypeOK
    BY DEF IInv
  <2> QED BY <2>1, <2>2, <2>3, ReturnSound DEF TypeOK
<1>5. CASE attach(w) \/ detach(w) \/ take_control(w) \/ record_output(w)
  <2>1. /\ op[w].at = "held" /\ info[op[w].id].rev < MaxRev
        /\ Publish(w, Changed(op[w].id))
    BY <1>5 DEF attach, detach, take_control, record_output, Holds
  <2>2. op[w].id \in Session
    BY <2>1, OpTypes
  <2> QED BY <2>1, <2>2, ChangedType, PublishSound
<1>6. CASE mark_exited(w)
  <2>1. /\ op[w].at = "held" /\ info[op[w].id].rev < MaxRev
        /\ Publish(w, [Changed(op[w].id) EXCEPT !.exit = TRUE])
    BY <1>6 DEF mark_exited, Holds
  <2>2. op[w].id \in Session
    BY <2>1, OpTypes
  <2> QED BY <2>1, <2>2, ChangedType, PublishSound
<1>7. CASE TakeControlResizeFails(w)
  <2> DEFINE id == op[w].id
  <2>1. id \in Session /\ info[id].rev < MaxRev
    BY <1>7, OpTypes DEF TakeControlResizeFails, Holds
  <2>2. info' = [info EXCEPT ![id] = Changed(id)]
    BY <1>7 DEF TakeControlResizeFails
  <2>3. UNCHANGED <<sessions, next_session_id, closed, phase, receiver, overrun,
                    since, view>>
    BY <1>7 DEF TakeControlResizeFails, subscriptions, channel
  <2>4. op' \in [Worker -> Op] /\ disturbed' \in BOOLEAN
    BY <1>7, ReturnType DEF TakeControlResizeFails
  <2>5. info' \in [Session -> Row]
    <3>1. Changed(id) \in Row
      BY <2>1, ChangedType
    <3> QED BY <2>2, <3>1 DEF TypeOK
  <2>6. TypeOK'
    BY <2>3, <2>4, <2>5 DEF TypeOK
  <2>7. Grows
    <3>1. \A i \in Session : info'[i] = IF i = id THEN Changed(id) ELSE info[i]
      BY <2>2 DEF TypeOK
    <3>2. next_session_id' >= next_session_id
      BY <2>3, BoundAssumption DEF TypeOK
    <3>3. Changed(id).rev = info[id].rev + 1 /\ Changed(id).exit = info[id].exit
      BY <2>1, ChangedType
    <3> QED BY <3>1, <3>2, <3>3 DEF Grows
  <2>8. \A v \in Worker : op'[v] = op[v] \/ op'[v] = Idle
    BY <1>7 DEF TakeControlResizeFails, Return, TypeOK
  <2>9. SessionsWereCreated'
    BY <2>3 DEF SessionsWereCreated
  <2> QED BY <2>3, <2>6, <2>7, <2>8, <2>9, StepSound
<1>8. CASE close_session(w)
  <2> DEFINE id == op[w].id
             o == [at |-> "remove", id |-> id]
  <2>1. id \in Session /\ op[w] # Idle
    BY <1>8, OpTypes DEF close_session, Idle
  <2>2. o \in Op \ {Idle} /\ o.id = id /\ o.at = "remove"
    BY <2>1 DEF Op, Idle
  <2>3. /\ op' = [op EXCEPT ![w] = o] /\ closed' = [closed EXCEPT ![id] = TRUE]
        /\ UNCHANGED <<sessions, next_session_id, info, disturbed, subscriptions>>
    BY <1>8 DEF close_session
  <2>4. id < next_session_id'
    BY <2>1, <2>3 DEF OpsAreSound, OpIsSound
  <2>5. SessionsWereCreated'
    BY <2>3 DEF SessionsWereCreated
  <2>6. next_session_id' >= next_session_id
    BY <2>3, BoundAssumption DEF TypeOK
  <2>7. closed' \in [Session -> BOOLEAN]
    BY <2>3 DEF TypeOK
  <2> HIDE DEF o
  <2> QED BY <2>2, <2>3, <2>4, <2>5, <2>6, <2>7, EnterSound DEF TypeOK
<1>9. CASE broadcast_table_upsert(w)
  <2> DEFINE e == Upsert(op[w].id, op[w].info)
  <2>1. op[w].id \in Session /\ op[w].info \in Row /\ WasInfo(op[w].info, op[w].id)
    BY <1>9, OpTypes DEF broadcast_table_upsert, OpsAreSound, OpIsSound
  <2>2. e \in TableEvent /\ e.row = op[w].info /\ e.id = op[w].id
    BY <2>1 DEF Upsert, TableEvent
  <2>3. UNCHANGED <<sessions, next_session_id, info, closed>>
    BY <1>9 DEF broadcast_table_upsert, manager
  <2>4. Broadcast(e) /\ Return(w) /\ UNCHANGED <<manager, disturbed, phase, since, view>>
    BY <1>9 DEF broadcast_table_upsert
  <2>5. ASSUME NEW s \in Subscriber, NEW i \in 1 .. Len(receiver'[s]),
               receiver'[s][i] = e
        PROVE  EventIsSound(receiver[s][i])'
    BY <2>1, <2>2, <2>3, <2>5 DEF EventIsSound, WasInfo
  <2> HIDE DEF e
  <2> QED BY <2>2, <2>4, <2>5, BroadcastType, ReturnSound
<1>10. CASE broadcast_table_remove(w)
  <2> DEFINE e == Remove(op[w].id)
  <2>1. op[w].id \in Session /\ op[w].id < next_session_id
    BY <1>10, OpTypes DEF broadcast_table_remove, OpsAreSound, OpIsSound, Idle
  <2>2. e \in TableEvent /\ e.type = "remove" /\ e.id = op[w].id
    BY <2>1 DEF Remove, TableEvent
  <2>3. Broadcast(e) /\ Return(w) /\ UNCHANGED <<manager, disturbed, phase, since, view>>
    BY <1>10 DEF broadcast_table_remove
  <2>4. ASSUME NEW s \in Subscriber, NEW i \in 1 .. Len(receiver'[s]),
               receiver'[s][i] = e
        PROVE  EventIsSound(receiver[s][i])'
    BY <2>1, <2>2, <2>3, <2>4 DEF EventIsSound, manager
  <2> HIDE DEF e
  <2> QED BY <2>2, <2>3, <2>4, BroadcastType, ReturnSound
<1> QED BY <1>1, <1>2, <1>3, <1>4, <1>5, <1>6, <1>7, <1>8, <1>9, <1>10
        DEF WorkerBegin, WorkerStep

\* The client's table after a patch.
LEMMA AppliedIsReal ==
  ASSUME IInv, NEW s \in Subscriber, receiver[s] # <<>>
  PROVE  LET t == applyTerminalSessionsEvent(view[s], Head(receiver[s]))
         IN  /\ t \in Table
             /\ \A id \in Session : t[id] # NoRow => WasInfo(t[id], id)
<1> DEFINE e == Head(receiver[s])
<1>1. receiver[s] \in Seq(TableEvent) /\ 1 \in 1 .. Len(receiver[s]) /\ e = receiver[s][1]
  BY DEF IInv, TypeOK
<1>2. e \in TableEvent /\ EventIsSound(e)
  BY <1>1 DEF IInv, EventsAreSound
<1>3. view[s] \in Table /\ \A id \in Session : view[s][id] # NoRow => WasInfo(view[s][id], id)
  BY DEF IInv, TypeOK, RowsWereReal
<1> HIDE DEF e
<1>4. CASE e.type = "remove"
  BY <1>3, <1>4 DEF Table, applyTerminalSessionsEvent, e
<1>5. CASE e.type # "remove"
  <2>1. e.type = "upsert" /\ e.id \in Session /\ e.row \in Row
    BY <1>2, <1>5 DEF TableEvent
  <2>2. WasInfo(e.row, e.id)
    BY <1>2, <2>1 DEF EventIsSound
  <2>3. applyTerminalSessionsEvent(view[s], e) = [view[s] EXCEPT ![e.id] = e.row]
    BY <1>5 DEF applyTerminalSessionsEvent
  <2>4. [view[s] EXCEPT ![e.id] = e.row] \in Table
    BY <1>3, <2>1 DEF Table
  <2>5. \A id \in Session : [view[s] EXCEPT ![e.id] = e.row][id]
                              = IF id = e.id THEN e.row ELSE view[s][id]
    BY <1>3 DEF Table
  <2> QED BY <1>3, <2>1, <2>2, <2>3, <2>4, <2>5 DEF e
<1> QED BY <1>4, <1>5

\* A step of a subscription that hands the client nothing.
LEMMA SilentSound ==
  ASSUME IInv, UNCHANGED <<manager, op, disturbed, view>>,
         phase' \in [Subscriber -> {"none", "snapshot", "live", "lagged", "gone"}],
         since' \in [Subscriber -> 1 .. (MaxSessions + 1)],
         overrun' \in [Subscriber -> BOOLEAN],
         NEW s \in Subscriber,
         receiver' = receiver \/ receiver' = [receiver EXCEPT ![s] = <<>>]
  PROVE  IInv'
<1>1. view[s] \in Table /\ view' = [view EXCEPT ![s] = view[s]]
  BY DEF IInv, TypeOK
<1>2. \A id \in Session : view[s][id] # NoRow => WasInfo(view[s][id], id)
  BY DEF IInv, RowsWereReal
<1>3. CASE receiver' = receiver
  <2>1. /\ receiver[s] \in Seq(TableEvent) /\ Len(receiver[s]) <= Capacity
        /\ receiver' = [receiver EXCEPT ![s] = receiver[s]]
    BY <1>3 DEF IInv, TypeOK
  <2> QED BY <1>1, <1>2, <2>1, SubscriptionSound
<1>4. CASE receiver' = [receiver EXCEPT ![s] = <<>>]
  <2>1. /\ <<>> \in Seq(TableEvent) /\ Len(<<>>) <= Capacity
        /\ \A i \in 1 .. Len(<<>>) : FALSE
    BY BoundAssumption
  <2> QED BY <1>1, <1>2, <1>4, <2>1, SubscriptionSound
<1> QED BY <1>3, <1>4

\* A stream's steps (server.rs) show only what it received or a snapshot.
LEMMA SubscriberSound ==
  ASSUME IInv, NEW s \in Subscriber,
         SubscribeSnapshot(s) \/ SubscriptionStep(s) \/ SubscriptionFails(s)
  PROVE  IInv'
<1> DEFINE Phases == {"none", "snapshot", "live", "lagged", "gone"}
<1>1. /\ phase \in [Subscriber -> Phases]
      /\ since \in [Subscriber -> 1 .. (MaxSessions + 1)]
      /\ overrun \in [Subscriber -> BOOLEAN]
      /\ receiver \in [Subscriber -> Seq(TableEvent)]
      /\ Len(receiver[s]) <= Capacity
      /\ next_session_id \in 1 .. (MaxSessions + 1)
      /\ receiver = [receiver EXCEPT ![s] = receiver[s]]
  BY DEF IInv, TypeOK
<1>2. CASE SubscribeSnapshot(s) \/ SubscriptionResync(s)
  <2>1. /\ UNCHANGED <<manager, op, disturbed, receiver, overrun, since>>
        /\ phase' \in [Subscriber -> Phases]
        /\ view' = [view EXCEPT ![s] = sessions_snapshot]
    BY <1>1, <1>2 DEF SubscribeSnapshot, SubscriptionResync, LaggedView, channel
  <2> QED BY <1>1, <2>1, SnapshotIsReal, SubscriptionSound
<1>3. CASE SubscriptionRecv(s)
  <2>1. PICK t : t = applyTerminalSessionsEvent(view[s], Head(receiver[s]))
    OBVIOUS
  <2>2. PICK q : q = Tail(receiver[s])
    OBVIOUS
  <2>3. /\ UNCHANGED <<manager, op, disturbed, phase, overrun, since>>
        /\ receiver[s] # <<>>
        /\ view' = [view EXCEPT ![s] = t]
        /\ receiver' = [receiver EXCEPT ![s] = q]
    BY <1>3, <2>1, <2>2 DEF SubscriptionRecv
  <2>4. t \in Table /\ \A id \in Session : t[id] # NoRow => WasInfo(t[id], id)
    BY <2>1, <2>3, AppliedIsReal
  <2>5. /\ q \in Seq(TableEvent) /\ Len(q) = Len(receiver[s]) - 1
        /\ \A i \in 1 .. Len(q) : i + 1 \in 1 .. Len(receiver[s]) /\ q[i] = receiver[s][i + 1]
    BY <1>1, <2>2, <2>3
  <2>6. Len(q) <= Capacity
    BY <1>1, <2>5, BoundAssumption
  <2>7. \A i \in 1 .. Len(q) : \E j \in 1 .. Len(receiver[s]) : q[i] = receiver[s][j]
    BY <2>5
  <2>8. /\ phase' \in [Subscriber -> Phases]
        /\ since' \in [Subscriber -> 1 .. (MaxSessions + 1)]
        /\ overrun' \in [Subscriber -> BOOLEAN]
    BY <1>1, <2>3
  <2> QED BY <2>3, <2>4, <2>5, <2>6, <2>7, <2>8, SubscriptionSound
<1>4. CASE SubscribeReceive(s) \/ SubscriptionLagged(s) \/ SubscriptionFails(s)
  <2>1. /\ UNCHANGED <<manager, op, disturbed, view>>
        /\ phase' \in [Subscriber -> Phases]
        /\ since' \in [Subscriber -> 1 .. (MaxSessions + 1)]
        /\ overrun' \in [Subscriber -> BOOLEAN]
        /\ receiver' = receiver \/ receiver' = [receiver EXCEPT ![s] = <<>>]
    BY <1>1, <1>4 DEF SubscribeReceive, SubscriptionLagged, SubscriptionFails, channel
  <2> QED BY <2>1, SilentSound
<1> QED BY <1>2, <1>3, <1>4 DEF SubscriptionStep

\* Every step keeps what was shown real.
LEMMA NextSound == IInv /\ [Next]_vars => IInv'
<1> SUFFICES ASSUME IInv, [Next]_vars PROVE IInv'
  OBVIOUS
<1>1. CASE UNCHANGED vars
  BY <1>1 DEF vars, manager, subscriptions, channel, IInv, TypeOK,
              SessionsWereCreated, OpsAreSound, OpIsSound, EventsAreSound,
              EventIsSound, RowsWereReal, WasInfo
<1>2. CASE Next
  BY <1>2, WorkerSound, SubscriberSound DEF Next
<1> QED BY <1>1, <1>2

\* So it always holds.
LEMMA Invariance == Spec => []IInv
<1> QED BY InitSound, NextSound, PTL DEF Spec

\* Every variable of the table keeps its type.
THEOREM TypeCorrect == Spec => []TypeOK
<1>1. IInv => TypeOK
  BY DEF IInv
<1> QED BY <1>1, Invariance, PTL

\* However operations, broadcasts, lags and snapshots interleave, a client is
\* shown only rows that sessions had (terminal.rs, server.rs 2059-2106).
THEOREM RowsAreReal == Spec => []RowsWereReal
<1>1. IInv => RowsWereReal
  BY DEF IInv
<1> QED BY <1>1, Invariance, PTL

-----------------------------------------------------------------------------
(* Sessions created after a receiver are listed *)

Announces(o, id) == o.at = "upsert" /\ o.kind = "create" /\ o.id = id
Removes(o, id) == o.at \in {"closing", "remove"} /\ o.id = id

\* A session in the map is being announced, or on its way to every receiver
\* that was there, or listed; or the receiver is still to be resynchronised.
OnItsWay(s, id) ==
  \/ \E w \in Worker : Announces(op[w], id)
  \/ \E i \in 1 .. Len(receiver[s]) :
       receiver[s][i].type = "upsert" /\ receiver[s][i].id = id
  \/ view[s][id] # NoRow
  \/ overrun[s]
  \/ phase[s] = "lagged"

\* Nobody removes a session that is in the map.
NoRemoval ==
  \A id \in sessions :
    /\ \A w \in Worker : ~Removes(op[w], id)
    /\ \A s \in Subscriber : \A i \in 1 .. Len(receiver[s]) :
         ~(receiver[s][i].type = "remove" /\ receiver[s][i].id = id)

\* Only a receiver that is full has lost events.
LosesWhenFull == \A s \in Subscriber : overrun[s] => receiver[s] # <<>>

ListInv ==
  /\ IInv
  /\ NoRemoval
  /\ LosesWhenFull
  /\ \A s \in Subscriber : Subscribed(s) =>
       \A id \in sessions : id >= since[s] => OnItsWay(s, id)

\* A stream that has caught up lists what its receiver owed it.
LEMMA ListedAtRest == ListInv => LaterSessionsListed
<1> SUFFICES ASSUME ListInv, NEW s \in Subscriber, Quiet(s), NEW id \in sessions,
                    id >= since[s]
             PROVE  view[s][id] # NoRow
  BY DEF LaterSessionsListed
<1>1. OnItsWay(s, id) /\ ~overrun[s] /\ phase[s] = "live" /\ Len(receiver[s]) = 0
  BY DEF ListInv, Quiet, LosesWhenFull, Subscribed
<1>2. \A w \in Worker : op[w] = Idle
  BY DEF Quiet
<1> QED BY <1>1, <1>2 DEF OnItsWay, Announces, Idle

\* Before any subscription nothing is owed.
LEMMA ListInit == Init => ListInv
  BY InitSound DEF Init, ListInv, NoRemoval, LosesWhenFull, Subscribed

\* Steps that leave the map and the channel alone: what is announced stays so.
LEMMA ListQuiet ==
  ASSUME ListInv, IInv', sessions' \subseteq sessions,
         UNCHANGED subscriptions,
         \A w \in Worker, id \in sessions' :
           /\ Announces(op[w], id) => Announces(op'[w], id)
           /\ Removes(op'[w], id) => Removes(op[w], id)
  PROVE  ListInv'
<1>1. UNCHANGED <<phase, receiver, overrun, since, view>>
  BY DEF subscriptions, channel
<1>2. NoRemoval' /\ LosesWhenFull'
  BY <1>1 DEF ListInv, NoRemoval, LosesWhenFull, Removes
<1>3. ASSUME NEW s \in Subscriber, NEW id \in sessions', OnItsWay(s, id)
      PROVE  OnItsWay(s, id)'
  BY <1>1, <1>3 DEF OnItsWay, Announces
<1> QED BY <1>1, <1>2, <1>3 DEF ListInv, Subscribed

\* A new session is broadcast to every receiver that exists.
LEMMA CreateLists ==
  ASSUME ListInv, IInv', NEW w \in Worker, create_session(w)
  PROVE  ListInv'
<1>1. PICK new : new = next_session_id
  OBVIOUS
<1>2. /\ sessions' = sessions \cup {new}
      /\ op[w] = Idle /\ Announces(op'[w], new)
      /\ \A v \in Worker : v # w => op'[v] = op[v]
      /\ UNCHANGED <<phase, receiver, overrun, since, view>>
  BY <1>1 DEF create_session, Enter, Announces, subscriptions, channel,
              ListInv, IInv, TypeOK
<1>3. ~Removes(op'[w], new) /\ \A id : Announces(op'[w], id) <=> id = new
  BY <1>2 DEF Removes, Announces
<1>4. new \in Nat /\ \A w1 \in Worker : ~Removes(op[w1], new)
  <2>1. \A w1 \in Worker : op[w1].at \in {"closing", "remove"} =>
          op[w1] # Idle /\ op[w1].id \in Nat
    BY OpTypes, BoundAssumption DEF ListInv, IInv, Session, Idle
  <2> QED BY <1>1, <2>1, BoundAssumption
          DEF ListInv, IInv, TypeOK, OpsAreSound, OpIsSound, Removes
<1>5. \A s \in Subscriber : \A i \in 1 .. Len(receiver[s]) : receiver[s][i].id # new
  <2>1. ASSUME NEW s \in Subscriber, NEW i \in 1 .. Len(receiver[s])
        PROVE  receiver[s][i] \in TableEvent /\ receiver[s][i].id < next_session_id
    <3>1. receiver[s] \in Seq(TableEvent)
      BY DEF ListInv, IInv, TypeOK
    <3>2. EventIsSound(receiver[s][i])
      BY DEF ListInv, IInv, EventsAreSound
    <3> QED BY <3>1, <3>2 DEF EventIsSound
  <2>2. \A e \in TableEvent : e.id \in Nat
    BY BoundAssumption DEF TableEvent, Session
  <2> QED BY <1>1, <1>4, <2>1, <2>2
<1>6. NoRemoval'
  <2>1. \A id \in sessions', v \in Worker : ~Removes(op'[v], id)
    BY <1>2, <1>4 DEF ListInv, NoRemoval, Removes, Announces
  <2> QED BY <1>2, <1>5, <2>1 DEF ListInv, NoRemoval, Removes
<1>7. LosesWhenFull'
  BY <1>2 DEF ListInv, LosesWhenFull
<1>8. ASSUME NEW s \in Subscriber, Subscribed(s)', NEW id \in sessions', id >= since'[s]
      PROVE  OnItsWay(s, id)'
  <2>1. CASE id = new
    BY <1>2, <2>1 DEF OnItsWay, Announces
  <2>2. CASE id # new
    <3>1. OnItsWay(s, id)
      BY <1>2, <1>8, <2>2 DEF ListInv, Subscribed
    <3>2. \A v \in Worker : Announces(op[v], id) => v # w
      BY <1>2 DEF Announces, Idle
    <3> QED BY <1>2, <3>1, <3>2 DEF OnItsWay, Announces
  <2> QED BY <2>1, <2>2
<1> QED BY <1>6, <1>7, <1>8 DEF ListInv

\* A broadcast: what it announces is then on its way to every receiver, and
\* what was on its way still is, or the receiver knows that it lost events.
LEMMA BroadcastLists ==
  ASSUME ListInv, IInv', NEW w \in Worker, NEW e \in TableEvent, Broadcast(e),
         Return(w), UNCHANGED <<manager, phase, since, view>>,
         e.type = "remove" => e.id \notin sessions,
         \A id : Announces(op[w], id) => e.type = "upsert" /\ e.id = id
  PROVE  ListInv'
<1>1. /\ sessions' = sessions /\ op'[w] = Idle
      /\ \A v \in Worker : v # w => op'[v] = op[v]
  BY DEF manager, Return, ListInv, IInv, TypeOK
<1>2. ASSUME NEW s \in Subscriber
      PROVE  /\ Subscribed(s)' <=> Subscribed(s)
             /\ \A i \in 1 .. Len(receiver'[s]) :
                  \/ \E j \in 1 .. Len(receiver[s]) : receiver'[s][i] = receiver[s][j]
                  \/ receiver'[s][i] = e
             /\ overrun[s] => overrun'[s]
  BY BroadcastType DEF Broadcast, Subscribed, ListInv, IInv, TypeOK
<1>3. ASSUME NEW s \in Subscriber, Subscribed(s)
      PROVE  /\ receiver'[s] # <<>>
             /\ \E i \in 1 .. Len(receiver'[s]) : receiver'[s][i] = e
             /\ ~overrun'[s] => \A j \in 1 .. Len(receiver[s]) :
                  \E i \in 1 .. Len(receiver'[s]) : receiver'[s][i] = receiver[s][j]
  <2>1. PICK q : q = receiver[s]
    OBVIOUS
  <2>2. q \in Seq(TableEvent) /\ Len(q) \in Nat
    BY <2>1 DEF ListInv, IInv, TypeOK
  <2>3. CASE Len(q) = Capacity
    <3>1. overrun'[s] /\ receiver'[s] = Append(Tail(q), e)
      BY <1>3, <2>1, <2>3 DEF Broadcast, AfterSend
    <3>2. Len(q) > 0
      BY <2>2, <2>3, BoundAssumption
    <3>3. Tail(q) \in Seq(TableEvent) /\ Len(Tail(q)) \in Nat
      BY <2>2, <3>2
    <3>4. /\ Append(Tail(q), e) # <<>>
          /\ Len(Append(Tail(q), e)) = Len(Tail(q)) + 1
          /\ Append(Tail(q), e)[Len(Tail(q)) + 1] = e
      BY <3>3
    <3>5. Len(Tail(q)) + 1 \in 1 .. Len(Append(Tail(q), e))
      BY <3>3, <3>4
    <3> QED BY <3>1, <3>4, <3>5
  <2>4. CASE Len(q) # Capacity
    <3>1. receiver'[s] = Append(q, e)
      BY <1>3, <2>1, <2>4 DEF Broadcast, AfterSend
    <3>2. /\ Append(q, e) # <<>>
          /\ Len(Append(q, e)) = Len(q) + 1
          /\ Append(q, e)[Len(q) + 1] = e
          /\ \A j \in 1 .. Len(q) : Append(q, e)[j] = q[j]
      BY <2>2
    <3>3. /\ Len(q) + 1 \in 1 .. Len(Append(q, e))
          /\ \A j \in 1 .. Len(q) : j \in 1 .. Len(Append(q, e))
      BY <2>2, <3>2
    <3> QED BY <2>1, <3>1, <3>2, <3>3
  <2> QED BY <2>3, <2>4
<1>4. NoRemoval'
  <2>1. \A id \in sessions', v \in Worker : ~Removes(op'[v], id)
    BY <1>1 DEF ListInv, NoRemoval, Removes, Idle
  <2>2. \A id \in sessions', s \in Subscriber : \A i \in 1 .. Len(receiver'[s]) :
          ~(receiver'[s][i].type = "remove" /\ receiver'[s][i].id = id)
    BY <1>1, <1>2 DEF ListInv, NoRemoval
  <2> QED BY <2>1, <2>2 DEF NoRemoval, Removes
<1>5. LosesWhenFull'
  <2> SUFFICES ASSUME NEW s \in Subscriber, overrun'[s] PROVE receiver'[s] # <<>>
    BY DEF LosesWhenFull
  <2>1. CASE Subscribed(s)
    BY <1>3, <2>1
  <2>2. CASE ~Subscribed(s)
    BY <2>2 DEF Broadcast, ListInv, LosesWhenFull
  <2> QED BY <2>1, <2>2
<1>6. ASSUME NEW s \in Subscriber, Subscribed(s)', NEW id \in sessions', id >= since'[s]
      PROVE  OnItsWay(s, id)'
  <2>1. OnItsWay(s, id) /\ Subscribed(s)
    BY <1>1, <1>2, <1>6 DEF ListInv
  <2>2. CASE \E v \in Worker : Announces(op[v], id)
    <3>1. PICK v \in Worker : Announces(op[v], id)
      BY <2>2
    <3>2. CASE v = w
      BY <1>3, <2>1, <3>1, <3>2 DEF OnItsWay
    <3>3. CASE v # w
      BY <1>1, <3>1, <3>3 DEF OnItsWay, Announces
    <3> QED BY <3>2, <3>3
  <2>3. CASE \E j \in 1 .. Len(receiver[s]) :
               receiver[s][j].type = "upsert" /\ receiver[s][j].id = id
    BY <1>3, <2>1, <2>3 DEF OnItsWay
  <2>4. CASE view[s][id] # NoRow \/ overrun[s] \/ phase[s] = "lagged"
    BY <1>2, <2>4 DEF OnItsWay
  <2> QED BY <2>1, <2>2, <2>3, <2>4 DEF OnItsWay
<1> QED BY <1>4, <1>5, <1>6 DEF ListInv

\* No step of a call takes a listed session from a stream.
LEMMA WorkerLists ==
  ASSUME ListInv, NEW w \in Worker, WorkerBegin(w) \/ WorkerStep(w)
  PROVE  ListInv'
<1>1. IInv'
  BY WorkerSound DEF ListInv
<1>2. CASE create_session(w)
  BY <1>1, <1>2, CreateLists
<1>3. CASE broadcast_table_upsert(w)
  <2>1. PICK e : e = Upsert(op[w].id, op[w].info)
    OBVIOUS
  <2>2. op[w].at = "upsert" /\ op[w].id \in Session /\ op[w].info \in Row
    BY <1>3, OpTypes DEF broadcast_table_upsert, ListInv, IInv
  <2>3. e \in TableEvent /\ e.type = "upsert" /\ e.id = op[w].id
    BY <2>1, <2>2 DEF Upsert, TableEvent
  <2>4. \A id : Announces(op[w], id) => e.id = id
    BY <2>3 DEF Announces
  <2>5. Broadcast(e) /\ Return(w) /\ UNCHANGED <<manager, phase, since, view>>
    BY <1>3, <2>1 DEF broadcast_table_upsert
  <2> QED BY <1>1, <2>3, <2>4, <2>5, BroadcastLists
<1>4. CASE broadcast_table_remove(w)
  <2>1. PICK e : e = Remove(op[w].id)
    OBVIOUS
  <2>2. op[w].at = "remove" /\ op[w].id \in Session
    BY <1>4, OpTypes DEF broadcast_table_remove, ListInv, IInv
  <2>3. e \in TableEvent /\ e.type = "remove" /\ e.id = op[w].id
    BY <2>1, <2>2 DEF Remove, TableEvent
  <2>4. e.id \notin sessions /\ \A id : ~Announces(op[w], id)
    BY <2>2, <2>3 DEF Announces, ListInv, NoRemoval, Removes
  <2>5. Broadcast(e) /\ Return(w) /\ UNCHANGED <<manager, phase, since, view>>
    BY <1>4, <2>1 DEF broadcast_table_remove
  <2> QED BY <1>1, <2>3, <2>4, <2>5, BroadcastLists
<1> DEFINE Quietly(o) ==
      /\ op' = [op EXCEPT ![w] = o] /\ UNCHANGED subscriptions
      /\ sessions' \subseteq sessions /\ op[w].at # "upsert"
      /\ \A id \in sessions' : Removes(o, id) => Removes(op[w], id)
<1>5. ASSUME NEW o, Quietly(o) PROVE ListInv'
  <2>1. \A v \in Worker : op'[v] = IF v = w THEN o ELSE op[v]
    BY <1>5 DEF ListInv, IInv, TypeOK
  <2>2. \A v \in Worker, id \in sessions' :
          /\ Announces(op[v], id) => Announces(op'[v], id)
          /\ Removes(op'[v], id) => Removes(op[v], id)
    BY <1>5, <2>1 DEF Announces
  <2> QED BY <1>1, <1>5, <2>2, ListQuiet
<1> HIDE DEF Quietly
<1>6. ASSUME NEW kind \in Kind, NEW id \in Session, get_session(w, kind, id)
      PROVE  ListInv'
  <2>1. PICK o : o = [at |-> "held", kind |-> kind, id |-> id]
    OBVIOUS
  <2>2. Quietly(o)
    BY <1>6, <2>1 DEF get_session, Enter, manager, Removes, Idle, Quietly
  <2> QED BY <1>5, <2>2
<1>7. ASSUME NEW id \in Session, BeginCloseSession(w, id)
      PROVE  ListInv'
  <2>1. PICK o : o = [at |-> "closing", id |-> id]
    OBVIOUS
  <2>2. Quietly(o)
    BY <1>7, <2>1 DEF BeginCloseSession, Enter, Removes, Idle, Quietly
  <2> QED BY <1>5, <2>2
<1>8. CASE ReturnUnchanged(w)
  <2>1. /\ op[w].at = "held" /\ op' = [op EXCEPT ![w] = Idle]
        /\ sessions' = sessions /\ UNCHANGED subscriptions
    BY <1>8 DEF ReturnUnchanged, Return, Holds, manager
  <2>2. Quietly(Idle)
    BY <2>1 DEF Removes, Idle, Quietly
  <2> QED BY <1>5, <2>2
<1>9. ASSUME NEW row, Publish(w, row), op[w].at = "held" PROVE ListInv'
  <2>1. PICK o : o = [at |-> "upsert", kind |-> op[w].kind, id |-> op[w].id,
                      info |-> row]
    OBVIOUS
  <2>2. Quietly(o)
    BY <1>9, <2>1 DEF Publish, Removes, Quietly
  <2> QED BY <1>5, <2>2
<1>10. CASE \/ attach(w) \/ detach(w) \/ take_control(w) \/ record_output(w)
            \/ mark_exited(w)
  BY <1>9, <1>10 DEF attach, detach, take_control, record_output, mark_exited, Holds
<1>11. CASE TakeControlResizeFails(w)
  <2>1. /\ op[w].at = "held" /\ op' = [op EXCEPT ![w] = Idle]
        /\ sessions' = sessions /\ UNCHANGED subscriptions
    BY <1>11 DEF TakeControlResizeFails, Return, Holds
  <2>2. Quietly(Idle)
    BY <2>1 DEF Removes, Idle, Quietly
  <2> QED BY <1>5, <2>2
<1>12. CASE close_session(w)
  <2>1. PICK o : o = [at |-> "remove", id |-> op[w].id]
    OBVIOUS
  <2>2. Quietly(o)
    BY <1>12, <2>1 DEF close_session, Removes, Quietly
  <2> QED BY <1>5, <2>2
<1> QED BY <1>2, <1>3, <1>4, <1>6, <1>7, <1>8, <1>10, <1>11, <1>12
        DEF WorkerBegin, WorkerStep

\* The steps of one subscription, by what each does to its own receiver.
LEMMA SubscriberLists ==
  ASSUME ListInv, NEW s \in Subscriber,
         SubscribeSnapshot(s) \/ SubscriptionStep(s) \/ SubscriptionFails(s)
  PROVE  ListInv'
<1>1. IInv' /\ IInv
  BY SubscriberSound DEF ListInv
<1>2. UNCHANGED <<sessions, next_session_id, op>>
  BY DEF SubscriptionStep, SubscribeSnapshot, SubscribeReceive, SubscriptionRecv,
         SubscriptionLagged, SubscriptionResync, SubscriptionFails, manager
<1>3. ASSUME NEW u \in Subscriber, u # s
      PROVE  /\ receiver'[u] = receiver[u] /\ view'[u] = view[u]
             /\ phase'[u] = phase[u] /\ overrun'[u] = overrun[u] /\ since'[u] = since[u]
  BY <1>1, <1>3
     DEF SubscriptionStep, SubscribeSnapshot, SubscribeReceive, SubscriptionRecv,
         SubscriptionLagged, SubscriptionResync, SubscriptionFails, channel, IInv, TypeOK
<1>4. \/ receiver'[s] = receiver[s]
      \/ receiver'[s] = <<>> /\ ~overrun'[s] /\ phase'[s] = "gone"
      \/ receiver[s] # <<>> /\ receiver'[s] = Tail(receiver[s]) /\ ~overrun'[s]
  BY <1>1
     DEF SubscriptionStep, SubscribeSnapshot, SubscribeReceive, SubscriptionRecv,
         SubscriptionLagged, SubscriptionResync, SubscriptionFails, channel, IInv, TypeOK
<1>5. \A i \in 1 .. Len(receiver'[s]) : \E j \in 1 .. Len(receiver[s]) :
        receiver'[s][i] = receiver[s][j]
  <2>1. PICK q : q = receiver[s]
    OBVIOUS
  <2>2. q \in Seq(TableEvent)
    BY <1>1, <2>1 DEF IInv, TypeOK
  <2>3. CASE receiver'[s] = Tail(q) /\ q # <<>>
    <3>1. /\ Len(Tail(q)) = Len(q) - 1
          /\ \A i \in 1 .. Len(q) - 1 : i + 1 \in 1 .. Len(q) /\ Tail(q)[i] = q[i + 1]
      BY <2>2, <2>3
    <3> QED BY <2>1, <2>3, <3>1
  <2>4. CASE receiver'[s] = q \/ receiver'[s] = <<>>
    BY <2>1, <2>4
  <2> QED BY <1>4, <2>1, <2>3, <2>4
<1>6. NoRemoval'
  <2>1. ASSUME NEW id \in sessions', NEW u \in Subscriber,
               NEW i \in 1 .. Len(receiver'[u])
        PROVE  ~(receiver'[u][i].type = "remove" /\ receiver'[u][i].id = id)
    <3>1. \E j \in 1 .. Len(receiver[u]) : receiver'[u][i] = receiver[u][j]
      BY <1>3, <1>5
    <3> QED BY <1>2, <3>1 DEF ListInv, NoRemoval
  <2> QED BY <1>2, <2>1 DEF ListInv, NoRemoval, Removes
<1>7. LosesWhenFull'
  <2> SUFFICES ASSUME NEW u \in Subscriber, overrun'[u] PROVE receiver'[u] # <<>>
    BY DEF LosesWhenFull
  <2>1. CASE u # s
    BY <1>3, <2>1 DEF ListInv, LosesWhenFull
  <2>2. CASE u = s
    <3>1. overrun'[s] => overrun[s]
      BY <1>1
         DEF SubscriptionStep, SubscribeSnapshot, SubscribeReceive, SubscriptionRecv,
             SubscriptionLagged, SubscriptionResync, SubscriptionFails, channel, IInv, TypeOK
    <3> QED BY <1>4, <2>2, <3>1 DEF ListInv, LosesWhenFull
  <2> QED BY <2>1, <2>2
<1>8. ASSUME NEW u \in Subscriber, Subscribed(u)', NEW id \in sessions', id >= since'[u]
      PROVE  OnItsWay(u, id)'
  <2>1. id \in sessions /\ id \in Session /\ id \in Nat
    BY <1>1, <1>2, BoundAssumption DEF IInv, TypeOK, Session
  <2>2. CASE u # s
    <3>1. OnItsWay(u, id)
      BY <1>3, <1>8, <2>1, <2>2 DEF ListInv, Subscribed
    <3> QED BY <1>2, <1>3, <2>2, <3>1 DEF OnItsWay, Announces
  <2>3. CASE u = s /\ (SubscribeSnapshot(s) \/ SubscriptionFails(s))
    BY <1>1, <1>8, <2>3 DEF SubscribeSnapshot, SubscriptionFails, Subscribed, IInv, TypeOK
  <2>4. CASE u = s /\ SubscribeReceive(s)
    <3>1. since'[s] = next_session_id
      BY <1>1, <2>4 DEF SubscribeReceive, IInv, TypeOK
    <3> QED BY <1>1, <1>8, <2>1, <2>4, <3>1, BoundAssumption
            DEF IInv, TypeOK, SessionsWereCreated
  <2>5. CASE u = s /\ SubscriptionLagged(s)
    BY <1>1, <2>5 DEF SubscriptionLagged, OnItsWay, IInv, TypeOK
  <2>6. CASE u = s /\ SubscriptionResync(s)
    <3>1. view'[s] = sessions_snapshot
      BY <1>1, <2>6 DEF SubscriptionResync, LaggedView, IInv, TypeOK
    <3>2. view'[s][id] = info[id] /\ info[id] \in Row
      BY <1>1, <2>1, <3>1 DEF sessions_snapshot, IInv, TypeOK
    <3> QED BY <2>6, <3>2, RowAssumption DEF OnItsWay
  <2>7. CASE u = s /\ SubscriptionRecv(s)
    <3>1. PICK q : q = receiver[s]
      OBVIOUS
    <3>2. /\ ~overrun[s] /\ phase[s] = "live" /\ q # <<>>
          /\ view'[s] = applyTerminalSessionsEvent(view[s], Head(q))
          /\ receiver'[s] = Tail(q)
          /\ UNCHANGED <<op, phase, overrun, since>>
      BY <1>1, <2>7, <3>1 DEF SubscriptionRecv, IInv, TypeOK
    <3>3. /\ q \in Seq(TableEvent) /\ 1 \in 1 .. Len(q) /\ Head(q) = q[1]
          /\ Len(Tail(q)) = Len(q) - 1
          /\ \A j \in 1 .. Len(q) : j # 1 =>
               j - 1 \in 1 .. Len(q) - 1 /\ Tail(q)[j - 1] = q[j]
      <4>1. q \in Seq(TableEvent)
        BY <1>1, <3>1 DEF IInv, TypeOK
      <4> QED BY <3>2, <4>1
    <3>4. Head(q) \in TableEvent /\ view[s] \in Table
      BY <1>1, <3>3 DEF IInv, TypeOK
    <3>5. OnItsWay(s, id)
      BY <1>8, <2>1, <2>7, <3>2 DEF ListInv, Subscribed
    <3>6. CASE \E w \in Worker : Announces(op[w], id)
      BY <2>7, <3>2, <3>6 DEF OnItsWay, Announces
    <3>7. ASSUME view[s][id] # NoRow PROVE view'[s][id] # NoRow
      <4>1. ~(Head(q).type = "remove" /\ Head(q).id = id)
        BY <2>1, <3>1, <3>3 DEF ListInv, NoRemoval
      <4>2. CASE Head(q).type = "remove"
        BY <2>1, <3>2, <3>4, <3>7, <4>1, <4>2 DEF applyTerminalSessionsEvent, Table
      <4>3. CASE Head(q).type # "remove"
        <5>1. Head(q).row \in Row
          BY <3>4, <4>3 DEF TableEvent
        <5> QED BY <2>1, <3>2, <3>4, <3>7, <4>3, <5>1, RowAssumption
                DEF applyTerminalSessionsEvent, Table
      <4> QED BY <4>2, <4>3
    <3>8. ASSUME NEW j \in 1 .. Len(q), q[j].type = "upsert", q[j].id = id
          PROVE  OnItsWay(s, id)'
      <4>1. CASE j = 1
        <5>1. Head(q).type = "upsert" /\ Head(q).id = id /\ Head(q).row \in Row
          BY <3>3, <3>4, <3>8, <4>1 DEF TableEvent
        <5>2. view'[s][id] = Head(q).row
          BY <2>1, <3>2, <3>4, <5>1 DEF applyTerminalSessionsEvent, Table
        <5> QED BY <5>1, <5>2, RowAssumption DEF OnItsWay
      <4>2. CASE j # 1
        <5>1. /\ j - 1 \in 1 .. Len(receiver'[s]) /\ receiver'[s][j - 1] = q[j]
          BY <3>2, <3>3, <4>2
        <5> QED BY <3>8, <5>1 DEF OnItsWay
      <4> QED BY <4>1, <4>2
    <3>9. CASE view[s][id] # NoRow
      BY <2>7, <3>7, <3>9 DEF OnItsWay
    <3> QED BY <2>7, <3>1, <3>2, <3>5, <3>6, <3>8, <3>9 DEF OnItsWay
  <2> QED BY <2>2, <2>3, <2>4, <2>5, <2>6, <2>7 DEF SubscriptionStep
<1> QED BY <1>1, <1>6, <1>7, <1>8 DEF ListInv

\* So what is owed to a stream always is on its way.
LEMMA ListInvariance == Spec => []ListInv
<1>1. ListInv /\ [Next]_vars => ListInv'
  <2> SUFFICES ASSUME ListInv, [Next]_vars PROVE ListInv'
    OBVIOUS
  <2>1. CASE UNCHANGED vars
    <3>1. UNCHANGED <<sessions, op, subscriptions>>
      BY <2>1 DEF vars, manager
    <3>2. IInv'
      BY NextSound DEF ListInv
    <3>3. \A w \in Worker, id \in sessions' :
            /\ Announces(op[w], id) => Announces(op'[w], id)
            /\ Removes(op'[w], id) => Removes(op[w], id)
      BY <3>1
    <3> QED BY <3>1, <3>2, <3>3, ListQuiet
  <2>2. CASE Next
    BY <2>2, WorkerLists, SubscriberLists DEF Next
  <2> QED BY <2>1, <2>2
<1> QED BY ListInit, <1>1, PTL DEF Spec

\* A stream that has caught up lists every session created after its receiver,
\* however often it lagged (server.rs 2082-2106).
THEOREM LaterOnesAreListed == Spec => []LaterSessionsListed
<1> QED BY ListInvariance, ListedAtRest, PTL

-----------------------------------------------------------------------------
(* Streams show the sessions exactly while operations do not overlap *)

\* Event i is the last in q about the session, and what an event says of it.
LastAbout(q, id, i) ==
  q[i].id = id /\ \A j \in 1 .. Len(q) : j > i => q[j].id # id
Says(event) == IF event.type = "remove" THEN NoRow ELSE event.row

\* A thread has changed the session and has not broadcast the change yet.
Unannounced(id) ==
  \E w \in Worker : op[w].at \in {"upsert", "closing", "remove"} /\ op[w].id = id

\* What the receiver holds of the session, or else what the client shows of it,
\* is as it is in the map; unless an event was lost, which the stream knows.
ShownExactly(s, id) ==
  /\ \A i \in 1 .. Len(receiver[s]) :
       LastAbout(receiver[s], id, i) =>
         Says(receiver[s][i]) = sessions_snapshot[id]
  /\ (\A i \in 1 .. Len(receiver[s]) : receiver[s][i].id # id)
     /\ ~overrun[s] /\ phase[s] = "live"
     => view[s][id] = sessions_snapshot[id]

AllShownExactly ==
  \A s \in Subscriber : Subscribed(s) =>
    \A id \in Session : id >= since[s] /\ ~Unannounced(id) => ShownExactly(s, id)

\* One operation at a time, on a session that is in the map unless it is being
\* closed; what is to be broadcast is the session's info.
OneOperation ==
  /\ \A v, w \in Worker : op[v] # Idle /\ op[w] # Idle => v = w
  /\ \A w \in Worker :
       /\ op[w].at \in {"held", "upsert"} => op[w].id \in sessions
       /\ op[w].at = "upsert" => op[w].info = info[op[w].id]
       /\ op[w].at \in {"closing", "remove"} => op[w].id \notin sessions

\* A stream without a receiver has nothing to read.
NoReceiver ==
  \A s \in Subscriber : ~Subscribed(s) => receiver[s] = <<>> /\ ~overrun[s]

ExactInv ==
  /\ ListInv
  /\ NoReceiver
  /\ ~disturbed => OneOperation /\ AllShownExactly

\* A stream that has caught up has nothing left that could be inexact.
LEMMA ExactAtRest == ExactInv => SequentialViewIsExact
<1> SUFFICES ASSUME ExactInv, NEW s \in Subscriber, Quiet(s), ~disturbed,
                    NEW id \in Session, id >= since[s]
             PROVE  view[s][id] = sessions_snapshot[id]
  BY DEF SequentialViewIsExact
<1>1. ~overrun[s] /\ phase[s] = "live" /\ Subscribed(s) /\ Len(receiver[s]) = 0
  BY DEF ExactInv, ListInv, Quiet, LosesWhenFull, Subscribed
<1>2. ~Unannounced(id)
  BY DEF Quiet, Unannounced, Idle
<1>3. ShownExactly(s, id)
  BY <1>1, <1>2 DEF ExactInv, AllShownExactly
<1> QED BY <1>1, <1>3 DEF ShownExactly

\* Before any operation there is nothing to show.
LEMMA ExactInit == Init => ExactInv
  BY ListInit DEF Init, ExactInv, NoReceiver, OneOperation, AllShownExactly,
                  Subscribed, Idle

\* Steps of one operation before its broadcast: only the session it is about
\* changes, and that change is unannounced.
LEMMA ExactQuiet ==
  ASSUME ExactInv, ListInv', UNCHANGED subscriptions,
         ~disturbed' =>
           /\ ~disturbed /\ OneOperation'
           /\ \A id \in Session : ~Unannounced(id)' =>
                ~Unannounced(id) /\ sessions_snapshot'[id] = sessions_snapshot[id]
  PROVE  ExactInv'
<1>1. UNCHANGED <<phase, receiver, overrun, since, view>>
  BY DEF subscriptions, channel
<1>2. NoReceiver'
  BY <1>1 DEF ExactInv, NoReceiver, Subscribed
<1>3. ASSUME ~disturbed' PROVE AllShownExactly'
  <2> SUFFICES ASSUME NEW s \in Subscriber, Subscribed(s)', NEW id \in Session,
                      id >= since'[s], ~Unannounced(id)'
               PROVE  ShownExactly(s, id)'
    BY DEF AllShownExactly
  <2>1. Subscribed(s) /\ id >= since[s]
    BY <1>1 DEF Subscribed
  <2>2. ~Unannounced(id) /\ sessions_snapshot'[id] = sessions_snapshot[id]
    BY <1>3
  <2>3. ShownExactly(s, id)
    BY <1>3, <2>1, <2>2 DEF ExactInv, AllShownExactly
  <2> QED BY <1>1, <2>2, <2>3 DEF ShownExactly, LastAbout
<1> QED BY <1>2, <1>3 DEF ExactInv

\* Between the steps of an operation, and while others run, a thread changes
\* only its own state.
LEMMA OpAfter ==
  ASSUME TypeOK, NEW w \in Worker, NEW o, op' = [op EXCEPT ![w] = o]
  PROVE  op'[w] = o /\ \A v \in Worker : v # w => op'[v] = op[v]
  BY DEF TypeOK

\* Undisturbed, whoever takes a step is the only one at work.
LEMMA OneAtWork ==
  ASSUME ExactInv, NEW w \in Worker, WorkerBegin(w) \/ WorkerStep(w), ~disturbed'
  PROVE  /\ ~disturbed /\ OneOperation
         /\ \A v \in Worker : v # w => op[v] = Idle /\ op'[v] = Idle
<1>1. TypeOK
  BY DEF ExactInv, ListInv, IInv
<1>2. CASE WorkerBegin(w)
  <2>1. PICK o : Enter(w, o)
    BY <1>2 DEF WorkerBegin, create_session, get_session, BeginCloseSession
  <2> QED BY <1>1, <2>1, OpAfter DEF Enter, ExactInv
<1>3. CASE WorkerStep(w)
  <2>1. op[w] # Idle /\ (disturbed => disturbed') /\ \E o : op' = [op EXCEPT ![w] = o]
    BY <1>3 DEF WorkerStep, ReturnUnchanged, attach, detach, take_control,
       TakeControlResizeFails, record_output, mark_exited, close_session,
       broadcast_table_upsert, broadcast_table_remove, Holds, Publish, Return, Idle
  <2>2. ~disturbed /\ OneOperation
    BY <2>1 DEF ExactInv
  <2>3. \A v \in Worker : v # w => op[v] = Idle
    BY <2>1, <2>2 DEF OneOperation
  <2> QED BY <1>1, <2>1, <2>2, <2>3, OpAfter
<1> QED BY <1>2, <1>3

\* The thread that is at work decides on what is unannounced.
LEMMA OneAtWorkChanges ==
  ASSUME OneOperation, NEW w \in Worker, \A v \in Worker : v # w => op[v] = Idle /\ op'[v] = Idle,
         op'[w].at \in {"held", "upsert"} => op'[w].id \in sessions',
         op'[w].at = "upsert" => op'[w].info = info'[op'[w].id],
         op'[w].at \in {"closing", "remove"} => op'[w].id \notin sessions'
  PROVE  /\ OneOperation'
         /\ \A id : Unannounced(id) <=>
              op[w].at \in {"upsert", "closing", "remove"} /\ op[w].id = id
         /\ \A id : Unannounced(id)' <=>
              op'[w].at \in {"upsert", "closing", "remove"} /\ op'[w].id = id
  BY DEF OneOperation, Unannounced, Idle

\* The steps before the broadcast: an operation marks what it changes.
LEMMA SilentExact ==
  ASSUME ExactInv, ListInv', NEW w \in Worker, WorkerBegin(w) \/ WorkerStep(w),
         ~broadcast_table_upsert(w), ~broadcast_table_remove(w)
  PROVE  ExactInv'
<1>1. TypeOK /\ SessionsWereCreated /\ OpsAreSound
  BY DEF ExactInv, ListInv, IInv
<1>2. UNCHANGED subscriptions
  BY DEF WorkerBegin, create_session, get_session, BeginCloseSession, WorkerStep,
     ReturnUnchanged, attach, detach, take_control, TakeControlResizeFails,
     record_output, mark_exited, close_session, Publish
<1>3. ASSUME ~disturbed'
      PROVE  /\ ~disturbed /\ OneOperation'
             /\ \A id \in Session : ~Unannounced(id)' =>
                  ~Unannounced(id) /\ sessions_snapshot'[id] = sessions_snapshot[id]
  <2>1. /\ ~disturbed /\ OneOperation
        /\ \A v \in Worker : v # w => op[v] = Idle /\ op'[v] = Idle
    BY <1>3, OneAtWork
  <2> DEFINE Marked(o, id) == o.at \in {"upsert", "closing", "remove"} /\ o.id = id
  <2> HIDE DEF Marked
  <2> SUFFICES /\ op'[w].at \in {"held", "upsert"} => op'[w].id \in sessions'
               /\ op'[w].at = "upsert" => op'[w].info = info'[op'[w].id]
               /\ op'[w].at \in {"closing", "remove"} => op'[w].id \notin sessions'
               /\ \A id \in Session : ~Marked(op'[w], id) =>
                    /\ ~Marked(op[w], id)
                    /\ id \in sessions' <=> id \in sessions
                    /\ info'[id] = info[id]
    BY <2>1, OneAtWorkChanges DEF sessions_snapshot, Marked
  <2>2. CASE create_session(w)
    <3>1. PICK new : new = next_session_id
      OBVIOUS
    <3>2. PICK o : o = [at |-> "upsert", kind |-> "create", id |-> new, info |-> info[new]]
      OBVIOUS
    <3>3. /\ op[w] = Idle /\ sessions' = sessions \cup {new} /\ info' = info
          /\ op' = [op EXCEPT ![w] = o]
      BY <2>2, <3>1, <3>2 DEF create_session, Enter
    <3>4. op'[w] = o
      BY <1>1, <3>3, OpAfter
    <3> QED BY <3>2, <3>3, <3>4 DEF Idle, Marked
  <2>3. CASE \E kind \in Kind, id \in Session : get_session(w, kind, id)
    <3>1. PICK kind \in Kind, id \in Session : get_session(w, kind, id)
      BY <2>3
    <3>2. /\ op[w] = Idle /\ id \in sessions /\ UNCHANGED <<sessions, info>>
          /\ op'[w] = [at |-> "held", kind |-> kind, id |-> id]
      BY <1>1, <3>1, OpAfter DEF get_session, Enter, manager
    <3> QED BY <3>2 DEF Idle, Marked
  <2>4. CASE \E id \in Session : BeginCloseSession(w, id)
    <3>1. PICK id \in Session : BeginCloseSession(w, id)
      BY <2>4
    <3>2. /\ op[w] = Idle /\ sessions' = sessions \ {id} /\ info' = info
          /\ op'[w] = [at |-> "closing", id |-> id]
      BY <1>1, <3>1, OpAfter DEF BeginCloseSession, Enter
    <3> QED BY <3>2 DEF Idle, Marked
  <2>5. CASE ReturnUnchanged(w)
    <3>1. /\ op[w].at = "held" /\ op'[w] = Idle /\ UNCHANGED <<sessions, info>>
      BY <1>1, <2>5, OpAfter DEF ReturnUnchanged, Return, Holds, manager
    <3> QED BY <3>1 DEF Idle, Marked
  <2>6. CASE \/ attach(w) \/ detach(w) \/ take_control(w) \/ record_output(w)
             \/ mark_exited(w)
    <3>1. PICK row : Publish(w, row) /\ op[w].at = "held"
      BY <2>6 DEF attach, detach, take_control, record_output, mark_exited, Holds
    <3>2. PICK x \in Session : x = op[w].id /\ x \in sessions
      BY <1>1, <2>1, <3>1, OpTypes DEF OneOperation
    <3>3. /\ info' = [info EXCEPT ![x] = row] /\ sessions' = sessions
          /\ op'[w] = [at |-> "upsert", kind |-> op[w].kind, id |-> x, info |-> row]
      BY <1>1, <3>1, <3>2, OpAfter DEF Publish, Stored
    <3>4. info'[x] = row /\ \A id \in Session : id # x => info'[id] = info[id]
      BY <1>1, <3>3 DEF TypeOK
    <3> QED BY <3>1, <3>2, <3>3, <3>4 DEF Marked
  <2>7. CASE close_session(w)
    <3>1. /\ op[w].at = "closing" /\ UNCHANGED <<sessions, info>>
          /\ op'[w] = [at |-> "remove", id |-> op[w].id]
      BY <1>1, <2>7, OpAfter DEF close_session
    <3> QED BY <2>1, <3>1 DEF OneOperation, Marked
  <2>8. CASE TakeControlResizeFails(w)
    BY <1>3, <2>8 DEF TakeControlResizeFails
  <2> QED BY <2>2, <2>3, <2>4, <2>5, <2>6, <2>7, <2>8 DEF WorkerBegin, WorkerStep
<1> QED BY <1>2, <1>3, ExactQuiet

\* The receiver q as it is after an event was sent to the receiver r: the last
\* event about a session is the new one, or the one it was, and none is lost
\* unless r was full.
Received(q, r, e, id) ==
  /\ Len(q) \in 1 .. Len(q) /\ q[Len(q)] = e
  /\ \A i \in 1 .. Len(q) : LastAbout(q, id, i) =>
       IF e.id = id THEN q[i] = e
       ELSE \E j \in 1 .. Len(r) : q[i] = r[j] /\ LastAbout(r, id, j)
  /\ Len(r) # Capacity =>
       \A j \in 1 .. Len(r) : \E i \in 1 .. Len(q) : q[i] = r[j]

\* Appending an event, and losing the oldest one to make room for it.
LEMMA LastAfterSend ==
  ASSUME TypeOK, NEW s \in Subscriber, NEW e \in TableEvent, NEW id
  PROVE  Received(AfterSend(s, e), receiver[s], e, id)
<1> PICK q : q = AfterSend(s, e)
  OBVIOUS
<1>1. PICK r : r = receiver[s]
  OBVIOUS
<1>2. r \in Seq(TableEvent) /\ Len(r) \in Nat /\ Len(r) <= Capacity
  BY <1>1 DEF TypeOK
<1>3. PICK d \in {0, 1} : /\ Len(r) - d \in Nat /\ Len(q) = Len(r) - d + 1
                          /\ q[Len(r) - d + 1] = e
                          /\ \A i \in 1 .. Len(r) - d : q[i] = r[i + d]
                          /\ Len(r) # Capacity => d = 0
  <2>1. CASE Len(r) = Capacity
    <3>1. Len(r) > 0 /\ q = Append(Tail(r), e)
      BY <1>1, <1>2, <2>1, BoundAssumption DEF AfterSend
    <3>2. /\ Tail(r) \in Seq(TableEvent) /\ Len(Tail(r)) = Len(r) - 1
          /\ \A i \in 1 .. Len(r) - 1 : Tail(r)[i] = r[i + 1]
      BY <1>2, <3>1
    <3>3. /\ Len(q) = Len(Tail(r)) + 1 /\ q[Len(Tail(r)) + 1] = e
          /\ \A i \in 1 .. Len(Tail(r)) : q[i] = Tail(r)[i]
      BY <3>1, <3>2
    <3> WITNESS 1 \in {0, 1}
    <3> QED BY <1>2, <2>1, <3>1, <3>2, <3>3
  <2>2. CASE Len(r) # Capacity
    <3>1. q = Append(r, e)
      BY <1>1, <2>2 DEF AfterSend
    <3>2. /\ Len(q) = Len(r) + 1 /\ q[Len(r) + 1] = e
          /\ \A i \in 1 .. Len(r) : q[i] = r[i]
      BY <1>2, <3>1
    <3> WITNESS 0 \in {0, 1}
    <3> QED BY <1>2, <3>2
  <2> QED BY <2>1, <2>2
<1>4. ASSUME NEW i \in 1 .. Len(q), LastAbout(q, id, i), e.id = id
      PROVE  q[i] = e
  BY <1>2, <1>3, <1>4 DEF LastAbout
<1>5. ASSUME NEW i \in 1 .. Len(q), LastAbout(q, id, i), e.id # id
      PROVE  \E j \in 1 .. Len(r) : q[i] = r[j] /\ LastAbout(r, id, j)
  <2>1. i \in 1 .. Len(r) - d /\ i + d \in 1 .. Len(r) /\ q[i] = r[i + d]
    BY <1>2, <1>3, <1>5 DEF LastAbout
  <2>2. ASSUME NEW j \in 1 .. Len(r), j > i + d PROVE r[j].id # id
    <3>1. j - d \in 1 .. Len(r) - d /\ j - d > i /\ j - d \in 1 .. Len(q) /\ (j - d) + d = j
      BY <1>2, <1>3, <2>1, <2>2
    <3>2. q[j - d] = r[j]
      BY <1>3, <3>1
    <3> QED BY <1>5, <3>1, <3>2 DEF LastAbout
  <2>3. LastAbout(r, id, i + d)
    BY <1>5, <2>1, <2>2 DEF LastAbout
  <2> QED BY <2>1, <2>3
<1>6. Len(r) # Capacity => \A j \in 1 .. Len(r) : \E i \in 1 .. Len(q) : q[i] = r[j]
  BY <1>2, <1>3
<1> QED BY <1>1, <1>2, <1>3, <1>4, <1>5, <1>6 DEF Received

\* A broadcast says of its session what the map says, and leaves the others.
LEMMA BroadcastExact ==
  ASSUME ExactInv, ListInv', NEW w \in Worker, WorkerStep(w),
         NEW e \in TableEvent, Broadcast(e), Return(w),
         UNCHANGED <<manager, disturbed, phase, since, view>>,
         op[w].at \in {"upsert", "remove"}, e.id = op[w].id,
         OneOperation => Says(e) = sessions_snapshot[e.id]
  PROVE  ExactInv'
<1>1. TypeOK /\ UNCHANGED <<sessions, info>>
  BY DEF ExactInv, ListInv, IInv, manager
<1>2. \A s \in Subscriber :
        /\ Subscribed(s)' <=> Subscribed(s)
        /\ receiver'[s] = IF Subscribed(s) THEN AfterSend(s, e) ELSE receiver[s]
        /\ overrun'[s] <=> overrun[s] \/ (Subscribed(s) /\ Len(receiver[s]) = Capacity)
  BY <1>1 DEF Broadcast, Subscribed, TypeOK
<1>3. NoReceiver'
  BY <1>2 DEF ExactInv, NoReceiver
<1>4. ASSUME ~disturbed' PROVE OneOperation' /\ AllShownExactly'
  <2>1. /\ ~disturbed /\ OneOperation
        /\ \A v \in Worker : v # w => op[v] = Idle /\ op'[v] = Idle
    BY <1>4, OneAtWork
  <2>2. op'[w] = Idle
    BY <1>1, OpAfter DEF Return
  <2>3. /\ OneOperation'
        /\ \A id : Unannounced(id) => id = e.id
    BY <2>1, <2>2, OneAtWorkChanges DEF Idle
  <2>4. Says(e) = sessions_snapshot[e.id] /\ sessions_snapshot' = sessions_snapshot
    BY <1>1, <2>1 DEF sessions_snapshot
  <2>5. ASSUME NEW s \in Subscriber, Subscribed(s)', NEW id \in Session, id >= since'[s]
        PROVE  ShownExactly(s, id)'
    <3>1. PICK q : q = AfterSend(s, e)
      OBVIOUS
    <3>2. PICK r : r = receiver[s]
      OBVIOUS
    <3>3. receiver'[s] = q /\ Subscribed(s) /\ id >= since[s]
      BY <1>2, <2>5, <3>1
    <3>4. id # e.id => ShownExactly(s, id)
      BY <2>1, <2>3, <3>3 DEF ExactInv, AllShownExactly
    <3>5. /\ Len(q) \in 1 .. Len(q) /\ q[Len(q)] = e
          /\ \A i \in 1 .. Len(q) : LastAbout(q, id, i) =>
               IF e.id = id THEN q[i] = e
               ELSE \E j \in 1 .. Len(r) : q[i] = r[j] /\ LastAbout(r, id, j)
          /\ Len(r) # Capacity =>
               \A j \in 1 .. Len(r) : \E i \in 1 .. Len(q) : q[i] = r[j]
      <4>1. Received(AfterSend(s, e), receiver[s], e, id)
        BY <1>1, LastAfterSend
      <4> QED BY <3>1, <3>2, <4>1 DEF Received
    <3>6. \A i \in 1 .. Len(q) : LastAbout(q, id, i) => Says(q[i]) = sessions_snapshot[id]
      BY <2>4, <3>2, <3>4, <3>5 DEF ShownExactly
    <3>7. ASSUME \A i \in 1 .. Len(q) : q[i].id # id, ~overrun'[s], phase'[s] = "live"
          PROVE  view[s][id] = sessions_snapshot[id]
      <4>1. id # e.id /\ Len(r) # Capacity /\ ~overrun[s] /\ phase[s] = "live"
        BY <1>2, <3>2, <3>3, <3>5, <3>7
      <4>2. \A j \in 1 .. Len(r) : r[j].id # id
        BY <3>5, <3>7, <4>1
      <4> QED BY <3>2, <3>4, <4>1, <4>2 DEF ShownExactly
    <3> QED BY <2>4, <3>3, <3>6, <3>7 DEF ShownExactly
  <2> QED BY <2>3, <2>5 DEF AllShownExactly
<1> QED BY <1>3, <1>4 DEF ExactInv

\* So an operation keeps what is shown exact, from its begin to its broadcast.
LEMMA WorkerExact ==
  ASSUME ExactInv, ListInv', NEW w \in Worker, WorkerBegin(w) \/ WorkerStep(w)
  PROVE  ExactInv'
<1>1. TypeOK
  BY DEF ExactInv, ListInv, IInv
<1>2. CASE broadcast_table_upsert(w)
  <2>1. PICK e : e = Upsert(op[w].id, op[w].info)
    OBVIOUS
  <2>2. op[w].at = "upsert" /\ op[w].id \in Session /\ op[w].info \in Row
    BY <1>1, <1>2, OpTypes DEF broadcast_table_upsert
  <2>3. e \in TableEvent /\ e.id = op[w].id /\ Says(e) = op[w].info
    BY <2>1, <2>2 DEF Upsert, TableEvent, Says
  <2>4. OneOperation => Says(e) = sessions_snapshot[e.id]
    BY <2>2, <2>3 DEF OneOperation, sessions_snapshot
  <2> QED BY <1>2, <2>1, <2>2, <2>3, <2>4, BroadcastExact
          DEF broadcast_table_upsert, WorkerStep
<1>3. CASE broadcast_table_remove(w)
  <2>1. PICK e : e = Remove(op[w].id)
    OBVIOUS
  <2>2. op[w].at = "remove" /\ op[w].id \in Session
    BY <1>1, <1>3, OpTypes DEF broadcast_table_remove
  <2>3. e \in TableEvent /\ e.id = op[w].id /\ Says(e) = NoRow
    BY <2>1, <2>2 DEF Remove, TableEvent, Says
  <2>4. OneOperation => Says(e) = sessions_snapshot[e.id]
    BY <2>2, <2>3 DEF OneOperation, sessions_snapshot
  <2> QED BY <1>3, <2>1, <2>2, <2>3, <2>4, BroadcastExact
          DEF broadcast_table_remove, WorkerStep
<1> QED BY <1>2, <1>3, SilentExact

\* An event that is read is the last about its session, or another is to come.
LEMMA RecvExact ==
  ASSUME IInv, NEW s \in Subscriber, SubscriptionRecv(s), NEW id \in Session,
         ShownExactly(s, id)
  PROVE  ShownExactly(s, id)'
<1>1. TypeOK
  BY DEF IInv
<1>2. PICK r : r = receiver[s]
  OBVIOUS
<1>3. PICK e : e = Head(r)
  OBVIOUS
<1>4. /\ ~overrun[s] /\ phase[s] = "live" /\ r # <<>> /\ receiver'[s] = Tail(r)
      /\ view'[s] = applyTerminalSessionsEvent(view[s], e)
      /\ UNCHANGED <<manager, phase, overrun>>
  BY <1>1, <1>2, <1>3 DEF SubscriptionRecv, TypeOK
<1>5. /\ r \in Seq(TableEvent) /\ 1 \in 1 .. Len(r) /\ e = r[1] /\ e \in TableEvent
      /\ Len(Tail(r)) = Len(r) - 1 /\ Len(r) \in Nat
      /\ \A j \in 1 .. Len(r) - 1 : j + 1 \in 1 .. Len(r) /\ Tail(r)[j] = r[j + 1]
  <2>1. r \in Seq(TableEvent)
    BY <1>1, <1>2 DEF TypeOK
  <2> QED BY <1>3, <1>4, <2>1
<1>6. ASSUME NEW j \in 1 .. Len(Tail(r)), LastAbout(Tail(r), id, j)
      PROVE  LastAbout(r, id, j + 1)
  <2>1. r[j + 1].id = id
    BY <1>5, <1>6 DEF LastAbout
  <2>2. ASSUME NEW k \in 1 .. Len(r), k > j + 1 PROVE r[k].id # id
    <3>1. k - 1 \in 1 .. Len(r) - 1 /\ k - 1 > j /\ (k - 1) + 1 = k
      BY <1>5, <2>2
    <3> QED BY <1>5, <1>6, <3>1 DEF LastAbout
  <2> QED BY <2>1, <2>2 DEF LastAbout
<1>7. \A j \in 1 .. Len(Tail(r)) : LastAbout(Tail(r), id, j) =>
        Says(Tail(r)[j]) = sessions_snapshot[id]
  BY <1>2, <1>5, <1>6 DEF ShownExactly
<1>8. ASSUME \A j \in 1 .. Len(Tail(r)) : Tail(r)[j].id # id
      PROVE  view'[s][id] = sessions_snapshot[id]
  <2>1. ASSUME NEW k \in 1 .. Len(r), k > 1 PROVE r[k].id # id
    <3>1. k - 1 \in 1 .. Len(r) - 1 /\ (k - 1) + 1 = k
      BY <1>5, <2>1
    <3> QED BY <1>5, <1>8, <3>1
  <2>2. view[s] \in Table
    BY <1>1 DEF TypeOK
  <2>3. CASE e.id = id
    <3>1. LastAbout(r, id, 1)
      BY <1>5, <2>1, <2>3 DEF LastAbout
    <3>2. Says(e) = sessions_snapshot[id]
      BY <1>2, <1>5, <3>1 DEF ShownExactly
    <3>3. view'[s][id] = Says(e)
      BY <1>4, <2>2, <2>3 DEF applyTerminalSessionsEvent, Says, Table
    <3> QED BY <3>2, <3>3
  <2>4. CASE e.id # id
    <3>1. \A k \in 1 .. Len(r) : r[k].id # id
      BY <1>5, <2>1, <2>4
    <3>2. view[s][id] = sessions_snapshot[id]
      BY <1>2, <1>4, <3>1 DEF ShownExactly
    <3>3. view'[s][id] = view[s][id]
      BY <1>4, <1>5, <2>2, <2>4 DEF applyTerminalSessionsEvent, Table, TableEvent
    <3> QED BY <3>2, <3>3
  <2> QED BY <2>3, <2>4
<1>9. sessions_snapshot' = sessions_snapshot
  BY <1>4 DEF sessions_snapshot, manager
<1> QED BY <1>4, <1>7, <1>8, <1>9 DEF ShownExactly

\* The steps of a stream: what is shown stays exact, or is read from the map.
LEMMA SubscriberExact ==
  ASSUME ExactInv, ListInv', NEW s \in Subscriber,
         SubscribeSnapshot(s) \/ SubscriptionStep(s) \/ SubscriptionFails(s)
  PROVE  ExactInv'
<1> DEFINE Steps == \/ SubscribeSnapshot(s) \/ SubscribeReceive(s) \/ SubscriptionRecv(s)
                    \/ SubscriptionLagged(s) \/ SubscriptionResync(s)
                    \/ SubscriptionFails(s)
<1>1. TypeOK /\ IInv /\ Steps
  BY DEF ExactInv, ListInv, IInv, SubscriptionStep
<1>2. UNCHANGED <<manager, op, disturbed>>
  BY <1>1 DEF SubscribeSnapshot, SubscribeReceive, SubscriptionRecv,
     SubscriptionLagged, SubscriptionResync, SubscriptionFails
<1>3. ASSUME NEW u \in Subscriber, u # s
      PROVE  /\ receiver'[u] = receiver[u] /\ view'[u] = view[u]
             /\ phase'[u] = phase[u] /\ overrun'[u] = overrun[u] /\ since'[u] = since[u]
  BY <1>1, <1>3
     DEF SubscribeSnapshot, SubscribeReceive, SubscriptionRecv, SubscriptionLagged,
         SubscriptionResync, SubscriptionFails, channel, TypeOK
<1>4. NoReceiver'
  <2> SUFFICES ~Subscribed(s)' => receiver'[s] = <<>> /\ ~overrun'[s]
    BY <1>3 DEF ExactInv, NoReceiver, Subscribed
  <2> QED BY <1>1
     DEF SubscribeSnapshot, SubscribeReceive, SubscriptionRecv, SubscriptionLagged,
         SubscriptionResync, SubscriptionFails, channel, TypeOK, ExactInv, NoReceiver,
         Subscribed
<1>5. /\ OneOperation => OneOperation'
      /\ sessions_snapshot' = sessions_snapshot
      /\ \A id : Unannounced(id)' <=> Unannounced(id)
  BY <1>2 DEF OneOperation, sessions_snapshot, Unannounced, manager
<1>6. ASSUME ~disturbed' PROVE AllShownExactly'
  <2> SUFFICES ASSUME NEW u \in Subscriber, Subscribed(u)', NEW id \in Session,
                      id >= since'[u], ~Unannounced(id)'
               PROVE  ShownExactly(u, id)'
    BY DEF AllShownExactly
  <2>1. \A v \in Subscriber :
          Subscribed(v) /\ id >= since[v] => ShownExactly(v, id)
    BY <1>2, <1>5, <1>6 DEF ExactInv, AllShownExactly
  <2>2. CASE u # s
    BY <1>3, <1>5, <2>1, <2>2 DEF ShownExactly, LastAbout, Subscribed
  <2>3. CASE u = s /\ (SubscribeSnapshot(s) \/ SubscriptionFails(s))
    BY <1>1, <2>3 DEF SubscribeSnapshot, SubscriptionFails, Subscribed, TypeOK
  <2>4. CASE u = s /\ SubscribeReceive(s)
    <3>1. /\ id >= next_session_id /\ receiver'[s] = <<>> /\ view'[s] = view[s]
      BY <1>1, <2>4 DEF SubscribeReceive, TypeOK, ExactInv, NoReceiver, Subscribed, channel
    <3>2. id \in Nat /\ next_session_id \in Nat
      BY <1>1, BoundAssumption DEF TypeOK, Session
    <3>3. id \notin sessions /\ view[s][id] = NoRow
      BY <1>1, <3>1, <3>2 DEF IInv, SessionsWereCreated, RowsWereReal, WasInfo
    <3> QED BY <1>5, <2>4, <3>1, <3>3 DEF ShownExactly, sessions_snapshot
  <2>5. CASE u = s /\ SubscriptionRecv(s)
    <3>1. Subscribed(s) /\ id >= since[s]
      BY <2>5 DEF SubscriptionRecv, Subscribed
    <3> QED BY <1>1, <2>1, <2>5, <3>1, RecvExact
  <2>6. CASE u = s /\ (SubscriptionLagged(s) \/ SubscriptionResync(s))
    <3>1. /\ Subscribed(s) /\ id >= since[s] /\ receiver'[s] = receiver[s]
          /\ phase'[s] = "live" => view'[s] = sessions_snapshot
      BY <1>1, <2>6 DEF SubscriptionLagged, SubscriptionResync, LaggedView, Subscribed,
                        TypeOK, channel
    <3> QED BY <1>5, <2>1, <2>6, <3>1 DEF ShownExactly, LastAbout
  <2> QED BY <1>1, <2>2, <2>3, <2>4, <2>5, <2>6
<1> QED BY <1>2, <1>4, <1>5, <1>6 DEF ExactInv

\* As long as operations do not overlap and no resize fails, a stream that has
\* caught up shows the sessions created after its receiver exactly as they are,
\* also after it lagged (terminal.rs broadcasts, server.rs 2059-2106).
THEOREM SequentialIsExact == Spec => []SequentialViewIsExact
<1>1. ExactInv /\ ListInv' /\ [Next]_vars => ExactInv'
  <2> SUFFICES ASSUME ExactInv, ListInv', [Next]_vars PROVE ExactInv'
    OBVIOUS
  <2>1. CASE UNCHANGED vars
    <3>1. /\ UNCHANGED <<sessions, info, op, disturbed, subscriptions>>
      BY <2>1 DEF vars, manager
    <3>2. sessions_snapshot' = sessions_snapshot /\ (OneOperation => OneOperation')
      BY <3>1 DEF sessions_snapshot, OneOperation
    <3>3. \A id : Unannounced(id)' <=> Unannounced(id)
      BY <3>1 DEF Unannounced
    <3> QED BY <3>1, <3>2, <3>3, ExactQuiet DEF ExactInv
  <2>2. CASE Next
    BY <2>2, WorkerExact, SubscriberExact DEF Next
  <2> QED BY <2>1, <2>2
<1> QED BY <1>1, ExactInit, ExactAtRest, ListInvariance, PTL DEF Spec
=============================================================================
