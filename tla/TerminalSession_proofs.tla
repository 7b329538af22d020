------------------------ MODULE TerminalSession_proofs ------------------------
(***************************************************************************)
(* Proofs about TerminalSession, for every number of handler threads, RPC  *)
(* sessions, attaches and chunks: types, who may write input, which        *)
(* attaches are registered, what closing leaves behind, what the output    *)
(* buffer holds, and what the streams tell their clients.                  *)
(***************************************************************************)
EXTENDS TerminalSession, TLAPS, FiniteSetTheorems, SequenceTheorems

-----------------------------------------------------------------------------
(* The helpers on the output buffer *)

\* Dropping some records of a buffer leaves a buffer, shorter by their number,
\* whose records are the last ones of it.
LEMMA WithoutSuffix ==
    ASSUME NEW S, NEW buffer \in Seq(S), NEW dropped \in SUBSET DOMAIN buffer
    PROVE  LET p == Cardinality(dropped)
           IN  /\ p \in 0 .. Len(buffer)
               /\ Without(buffer, dropped) \in Seq(S)
               /\ Len(Without(buffer, dropped)) = Len(buffer) - p
               /\ \A i \in 1 .. Len(buffer) - p :
                      Without(buffer, dropped)[i] = buffer[p + i]
<1> DEFINE p == Cardinality(dropped)
           n == Len(buffer)
<1>1. n \in Nat /\ DOMAIN buffer = 1 .. n
  BY LenProperties
<1> HIDE DEF n
<1>2. IsFiniteSet(1 .. n) /\ Cardinality(1 .. n) = n
  BY <1>1, FS_Interval
<1>3. IsFiniteSet(dropped) /\ p <= n
  BY <1>1, <1>2, FS_Subset
<1>4. p \in Nat
  BY <1>3, FS_CardinalityType
<1>5. \A i \in p + 1 .. n : buffer[i] \in S
  BY <1>1, <1>4, ElementOfSeq
<1> HIDE DEF p
<1>6. /\ SubSeq(buffer, p + 1, n) \in Seq(S)
      /\ Len(SubSeq(buffer, p + 1, n)) = n - p
      /\ \A i \in 1 .. n - p : SubSeq(buffer, p + 1, n)[i] = buffer[p + i]
  <2>1. p + 1 \in Int /\ n \in Int
    BY <1>1, <1>4
  <2>2. /\ SubSeq(buffer, p + 1, n) \in Seq(S)
        /\ Len(SubSeq(buffer, p + 1, n)) = IF p + 1 <= n THEN n - (p + 1) + 1 ELSE 0
        /\ \A i \in 1 .. n - (p + 1) + 1 :
               SubSeq(buffer, p + 1, n)[i] = buffer[(p + 1) + i - 1]
    BY <1>5, <2>1, SubSeqProperties
  <2> QED
    BY <1>1, <1>3, <1>4, <2>2
<1> QED
  BY <1>1, <1>3, <1>4, <1>6 DEF Without, p, n

\* A set of positions that contains every position before one of its own is
\* an interval that starts at 1.
LEMMA DownwardClosed ==
    ASSUME NEW n \in Nat, NEW D \in SUBSET (1 .. n),
           \A i \in D : \A j \in 1 .. i : j \in D
    PROVE  D = 1 .. Cardinality(D)
<1>1. IsFiniteSet(1 .. n) /\ Cardinality(1 .. n) = n
  BY FS_Interval
<1>2. IsFiniteSet(D)
  BY <1>1, FS_Subset
<1>3. Cardinality(D) \in Nat
  BY <1>2, FS_CardinalityType
<1>4. ASSUME NEW i \in D PROVE i <= Cardinality(D)
  <2>1. 1 .. i \in SUBSET D
    OBVIOUS
  <2>2. IsFiniteSet(1 .. i) /\ Cardinality(1 .. i) = i
    BY FS_Interval
  <2>3. Cardinality(1 .. i) <= Cardinality(D)
    BY <1>2, <2>1, FS_Subset
  <2> QED
    BY <2>2, <2>3
<1>5. D \in SUBSET (1 .. Cardinality(D))
  BY <1>3, <1>4
<1>6. IsFiniteSet(1 .. Cardinality(D)) /\ Cardinality(1 .. Cardinality(D)) = Cardinality(D)
  BY <1>3, FS_Interval
<1> QED
  BY <1>5, <1>6, FS_Subset

\* Trimming keeps a buffer a buffer.
LEMMA TrimType ==
    ASSUME NEW buffer \in Seq(OutputRecord)
    PROVE  Trim(buffer) \in Seq(OutputRecord)
<1>1. {k \in DOMAIN buffer : BytesFrom(buffer, k) > Retention} \in SUBSET DOMAIN buffer
  OBVIOUS
<1> QED
  BY <1>1, WithoutSuffix DEF Trim

\* A replay consists of events.
LEMMA ReplayType ==
    ASSUME NEW buffer \in Seq(OutputRecord), NEW after \in {NoSeq} \cup Nat
    PROVE  replay_events(buffer, after) \in Seq(Events)
<1> DEFINE D == {i \in DOMAIN buffer : ~Wanted(buffer[i].seq, after)}
           kept == Without(buffer, D)
           chunks == [i \in DOMAIN kept |-> OutputChunk(kept[i])]
           gap == IF after # NoSeq /\ after + 1 < buffer[1].seq
                  THEN <<Event("HistoryGap", buffer[1].seq)>> ELSE <<>>
<1>1. CASE buffer = <<>>
  BY <1>1 DEF replay_events
<1>2. CASE buffer # <<>>
  <2>1. kept \in Seq(OutputRecord)
    <3>1. D \in SUBSET DOMAIN buffer
      OBVIOUS
    <3> QED
      BY <3>1, WithoutSuffix
  <2>2. \A i \in DOMAIN kept : OutputChunk(kept[i]) \in Events
    <3>1. \A r \in OutputRecord : OutputChunk(r) \in Events
      BY DEF OutputRecord, OutputChunk, Event, Events, EventType
    <3> QED
      BY <2>1, <3>1
  <2> HIDE DEF kept
  <2>3. chunks \in Seq(Events)
    <3>1. DOMAIN kept = 1 .. Len(kept) /\ Len(kept) \in Nat
      BY <2>1, LenProperties
    <3> QED
      BY <2>2, <3>1
  <2>4. gap \in Seq(Events)
    <3>1. buffer[1] \in OutputRecord
      BY <1>2
    <3>2. Event("HistoryGap", buffer[1].seq) \in Events
      BY <3>1 DEF OutputRecord, Event, Events, EventType
    <3> QED
      BY <3>2
  <2>5. gap \o chunks \in Seq(Events)
    BY <2>3, <2>4
  <2> QED
    BY <1>2, <2>5 DEF replay_events, kept
<1> QED
  BY <1>1, <1>2
-----------------------------------------------------------------------------
(* Types *)

\* A stream that is still to write its replay has something to write.
Pending == \A a \in Attach : phase[a] = "writing" => outbox[a] # <<>>

TypeInv == TypeOK /\ Pending

\* A new session is typed.
LEMMA TypeInit == Init => TypeInv
<1> SUFFICES ASSUME Init PROVE TypeInv
  OBVIOUS
<1>1. <<>> \in Seq(Events) /\ <<>> \in Seq(OutputRecord)
  OBVIOUS
<1>2. CurrentInfo \in Info
  BY DEF Init, CurrentInfo, Info
<1>3. /\ snapshot \in [Attach -> Info]
      /\ outbox \in [Attach -> Seq(Events)]
      /\ sent \in [Attach -> Seq(Events)]
  BY <1>1, <1>2 DEF Init
<1>4. call \in [Handler -> Call]
  BY DEF Init, Call
<1>5. next_attach_id \in 1 .. (MaxAttach + 1)
  BY BoundAssumption DEF Init, FirstAttachId
<1>6. /\ phase \in [Attach -> Active \cup {"none", "done"}]
      /\ request \in [Attach -> {NoSeq} \cup Nat]
      /\ position \in [Attach -> Nat]
      /\ attach_owners \in [Attach -> Rpc \cup {NoOwner}]
  BY DEF Init
<1>7. Pending
  BY DEF Init, Pending
<1> QED
  BY <1>1, <1>3, <1>4, <1>5, <1>6, <1>7 DEF Init, TypeInv, TypeOK

\* What the call of a handler is, by its operation.
LEMMA CallType ==
    ASSUME TypeOK, NEW h \in Handler
    PROVE  /\ call[h].op = "attach" =>
                  call[h].rpc \in Rpc /\ call[h].after \in {NoSeq} \cup Nat
           /\ call[h].op = "take_control" =>
                  /\ call[h].rpc \in Rpc
                  /\ call[h].attach \in Attach
                  /\ call[h].size \in Size
           /\ call[h].op = "write_input" =>
                  call[h].rpc \in Rpc /\ call[h].attach \in Attach
<1>1. call[h] \in Call
  BY DEF TypeOK
<1> QED
  BY <1>1 DEF Call, Idle

\* Sending events keeps output_tx a sequence of events.
LEMMA SendType ==
    ASSUME TypeOK, NEW events \in Seq(Events), Send(events)
    PROVE  output_tx' \in Seq(Events)
BY DEF TypeOK, Send

\* Each single event that is sent is one.
LEMMA EventTypes ==
    /\ Event("SessionExited", 0) \in Events
    /\ Event("SessionClosed", 0) \in Events
    /\ Event("Attached", 0) \in Events
    /\ \A n \in Int : /\ Event("HistoryGap", n) \in Events
                      /\ Event("ControlChanged", n) \in Events
                      /\ Event("OutputChunk", n) \in Events
    /\ \A s \in Size : Event("PseudoTerminalResized", s) \in Events
    /\ \A t \in Title : Event("TitleChanged", t) \in Events
BY DEF Event, Events, EventType

\* A handler that looks the session up: only its call changes.
LEMMA TypeBegin ==
    ASSUME TypeInv, NEW h \in Handler, HandlerBegin(h)
    PROVE  TypeInv'
<1> USE DEF session, threads, streams, history
<1>1. ASSUME NEW c \in Call, Begin(h, c)
      PROVE  TypeInv'
  BY <1>1 DEF Begin, TypeInv, TypeOK, Pending
<1>2. ASSUME NEW r \in Rpc, NEW after \in AfterSeq, BeginAttach(h, r, after)
      PROVE  TypeInv'
  <2>1. [op |-> "attach", rpc |-> r, after |-> after] \in Call
    BY AfterSeqAssumption DEF Call
  <2> QED
    BY <1>1, <1>2, <2>1 DEF BeginAttach
<1>3. ASSUME NEW r \in Rpc, NEW a \in Attach, NEW s \in Size,
             BeginTakeControl(h, r, a, s)
      PROVE  TypeInv'
  <2>1. [op |-> "take_control", rpc |-> r, attach |-> a, size |-> s] \in Call
    BY DEF Call
  <2> QED
    BY <1>1, <1>3, <2>1 DEF BeginTakeControl
<1>4. ASSUME NEW r \in Rpc, NEW a \in Attach, BeginWriteInput(h, r, a)
      PROVE  TypeInv'
  <2>1. [op |-> "write_input", rpc |-> r, attach |-> a] \in Call
    BY DEF Call
  <2> QED
    BY <1>1, <1>4, <2>1 DEF BeginWriteInput
<1>5. CASE BeginCloseSession(h)
  <2>1. [op |-> "close_session"] \in Call
    BY DEF Call
  <2> QED
    BY <1>5, <2>1 DEF BeginCloseSession, TypeInv, TypeOK, Pending
<1> QED
  BY <1>2, <1>3, <1>4, <1>5 DEF HandlerBegin

\* The section a handler executes under the session lock.
LEMMA TypeHandler ==
    ASSUME TypeInv, NEW h \in Handler, HandlerStep(h)
    PROVE  TypeInv'
<1> USE DEF session, threads, streams, history
<1>1. Idle \in Call
  BY DEF Call
<1>2. TypeOK
  BY DEF TypeInv
<1>3. CASE AttachClosed(h)
  <2>1. next_attach_id' \in 1 .. (MaxAttach + 1)
    BY <1>3, BoundAssumption DEF AttachClosed, Attach
  <2> QED
    BY <1>1, <1>3, <2>1 DEF AttachClosed, Return, TypeInv, TypeOK, Pending
<1>4. CASE attach(h)
  <2> DEFINE a == next_attach_id
             exited == IF exit THEN <<Event("SessionExited", 0)>> ELSE <<>>
             replay == replay_events(output_buffer, call[h].after)
             out == <<Event("Attached", 0)>> \o replay \o exited
  <2>1. a \in Attach /\ call[h].rpc \in Rpc /\ call[h].after \in {NoSeq} \cup Nat
    BY <1>2, <1>4, CallType DEF attach
  <2>2. replay \in Seq(Events)
    BY <1>2, <2>1, ReplayType DEF TypeOK
  <2>3. out \in Seq(Events) /\ out # <<>>
    <3>1. exited \in Seq(Events) /\ <<Event("Attached", 0)>> \in Seq(Events)
      BY EventTypes
    <3> HIDE DEF exited, replay
    <3>2. <<Event("Attached", 0)>> \o replay \in Seq(Events)
      BY <2>2, <3>1
    <3>3. Len(<<Event("Attached", 0)>> \o replay) = 1 + Len(replay)
      BY <2>2, <3>1
    <3>4. out \in Seq(Events) /\ Len(out) = 1 + Len(replay) + Len(exited)
      BY <3>1, <3>2, <3>3, ConcatProperties
    <3>5. Len(out) # 0
      BY <2>2, <3>1, <3>4, LenProperties
    <3> QED
      BY <3>4, <3>5
  <2>4. CurrentInfo \in Info
    BY <1>2 DEF TypeOK, CurrentInfo, Info
  <2> HIDE DEF a, out
  <2>5. /\ attach_owners' = [attach_owners EXCEPT ![a] = call[h].rpc]
        /\ phase' = [phase EXCEPT ![a] = "writing"]
        /\ request' = [request EXCEPT ![a] = call[h].after]
        /\ snapshot' = [snapshot EXCEPT ![a] = CurrentInfo]
        /\ outbox' = [outbox EXCEPT ![a] = out]
        /\ position' = [position EXCEPT ![a] = Len(output_tx)]
        /\ next_attach_id' = a + 1
        /\ call' = [call EXCEPT ![h] = Idle]
        /\ UNCHANGED <<in_map, closed, exit, size, primary_attach_id,
                       latest_output_seq, last_known_title, output_buffer,
                       output_tx, threads, sent, history>>
    BY <1>4 DEF attach, Return, a, out
  <2>6. a + 1 \in 1 .. (MaxAttach + 1)
    BY <2>1, BoundAssumption DEF Attach
  <2>7. Len(output_tx) \in Nat
    BY <1>2, LenProperties DEF TypeOK
  <2>8. /\ attach_owners' \in [Attach -> Rpc \cup {NoOwner}]
        /\ phase' \in [Attach -> Active \cup {"none", "done"}]
        /\ request' \in [Attach -> {NoSeq} \cup Nat]
        /\ snapshot' \in [Attach -> Info]
        /\ outbox' \in [Attach -> Seq(Events)]
        /\ position' \in [Attach -> Nat]
        /\ next_attach_id' \in 1 .. (MaxAttach + 1)
        /\ call' \in [Handler -> Call]
    BY <1>1, <1>2, <2>1, <2>3, <2>4, <2>5, <2>6, <2>7 DEF TypeOK, Active
  <2>9. TypeOK'
    BY <1>2, <2>5, <2>8 DEF TypeOK
  <2>10. Pending'
    BY <2>3, <2>5, <1>2 DEF TypeInv, TypeOK, Pending
  <2> QED
    BY <2>9, <2>10 DEF TypeInv
<1>5. CASE TakeControlRefused(h)
  BY <1>1, <1>5 DEF TakeControlRefused, Return, TypeInv, TypeOK, Pending
<1>6. ASSUME StoreControl(h), output_tx' \in Seq(Events)
      PROVE  TypeInv'
  <2>1. /\ call[h].rpc \in Rpc
        /\ call[h].attach \in Attach
        /\ call[h].size \in Size
    BY <1>2, <1>6, CallType DEF StoreControl
  <2>2. takes' \subseteq Attach \X Rpc
    BY <1>2, <1>6, <2>1 DEF StoreControl, TypeOK
  <2>3. call' \in [Handler -> Call]
    BY <1>1, <1>2, <1>6 DEF StoreControl, Return, TypeOK
  <2>4. primary_attach_id' \in Attach \cup {NoAttach} /\ size' \in Size
    BY <1>6, <2>1 DEF StoreControl
  <2>5. TypeOK'
    BY <1>2, <1>6, <2>2, <2>3, <2>4 DEF StoreControl, TypeOK
  <2>6. Pending'
    BY <1>6 DEF StoreControl, TypeInv, Pending
  <2> QED
    BY <2>5, <2>6 DEF TypeInv
<1>7. CASE take_control(h)
  <2>1. call[h].attach \in Attach /\ call[h].size \in Size
    BY <1>2, <1>7, CallType DEF take_control, StoreControl
  <2>2. ControlEvents(call[h].attach, call[h].size) \in Seq(Events)
    BY <2>1, EventTypes DEF ControlEvents, Attach
  <2>3. output_tx' \in Seq(Events)
    BY <1>2, <1>7, <2>2, SendType DEF take_control
  <2> QED
    BY <1>6, <1>7, <2>3 DEF take_control
<1>8. CASE TakeControlResizeFails(h)
  <2>1. output_tx' \in Seq(Events)
    BY <1>2, <1>8 DEF TakeControlResizeFails, TypeOK
  <2> QED
    BY <1>6, <1>8, <2>1 DEF TakeControlResizeFails
<1>9. CASE WriteInputRefused(h)
  BY <1>1, <1>9 DEF WriteInputRefused, Return, TypeInv, TypeOK, Pending
<1>10. CASE write_input(h)
  <2>1. call[h].attach \in Attach /\ call[h].rpc \in Rpc
    BY <1>2, <1>10, CallType DEF write_input
  <2> QED
    BY <1>1, <1>10, <2>1 DEF write_input, Return, TypeInv, TypeOK, Pending
<1>11. CASE close_session(h)
  <2>1. output_tx' \in Seq(Events)
    <3>1. <<Event("SessionClosed", 0)>> \in Seq(Events)
      BY EventTypes
    <3> QED
      BY <1>2, <1>11, <3>1, SendType DEF close_session
  <2> QED
    BY <1>1, <1>11, <2>1
       DEF close_session, KilledChild, Return, TypeInv, TypeOK, Pending
<1> QED
  BY <1>3, <1>4, <1>5, <1>7, <1>8, <1>9, <1>10, <1>11 DEF HandlerStep

\* The two threads and the end of the child.
LEMMA TypeThreads ==
    ASSUME TypeInv, ReaderStep \/ WaiterStep \/ WaitFails \/ ChildEnds
    PROVE  TypeInv'
<1> USE DEF session, threads, streams, history
<1>1. TypeOK
  BY DEF TypeInv
<1>2. CASE ReaderGet \/ ReaderEof \/ RecordOutputClosed
  BY <1>2 DEF ReaderGet, ReaderEof, RecordOutputClosed, TypeInv, TypeOK, Pending
<1>3. ASSUME NEW length \in Chunk, NEW title \in Title \cup {NoTitle},
             record_output(length, title)
      PROVE  TypeInv'
  <2> DEFINE seq == latest_output_seq + 1
             start == IF output_buffer = <<>> THEN 0
                      ELSE output_buffer[Len(output_buffer)].end
             record == [seq |-> seq, start |-> start, end |-> start + length]
             metadata == IF title = NoTitle THEN <<>>
                         ELSE <<Event("TitleChanged", title)>>
  <2>1. seq \in Nat /\ length \in Nat
    BY <1>1, ChunkAssumption DEF TypeOK
  <2>2. start \in Nat
    <3>1. CASE output_buffer = <<>>
      BY <3>1
    <3>2. CASE output_buffer # <<>>
      <4>1. Len(output_buffer) \in 1 .. Len(output_buffer)
        BY <1>1, <3>2, EmptySeq DEF TypeOK
      <4>2. output_buffer[Len(output_buffer)] \in OutputRecord
        BY <1>1, <4>1, ElementOfSeq DEF TypeOK
      <4> QED
        BY <3>2, <4>2 DEF OutputRecord
    <3> QED
      BY <3>1, <3>2
  <2> HIDE DEF seq, start
  <2>3. record \in OutputRecord
    BY <2>1, <2>2 DEF OutputRecord
  <2> HIDE DEF record
  <2>4. output_buffer' \in Seq(OutputRecord)
    <3>1. Append(output_buffer, record) \in Seq(OutputRecord)
      BY <1>1, <2>3 DEF TypeOK
    <3>2. output_buffer' = Trim(Append(output_buffer, record))
      BY <1>3 DEF record_output, seq, start, record
    <3> QED
      BY <3>1, <3>2, TrimType
  <2>5. output_tx' \in Seq(Events)
    <3>1. OutputChunk(record) \in Events
      BY <2>3, EventTypes DEF OutputChunk, OutputRecord
    <3>2. metadata \in Seq(Events)
      BY EventTypes
    <3>3. <<OutputChunk(record)>> \o metadata \in Seq(Events)
      BY <3>1, <3>2
    <3>4. Send(<<OutputChunk(record)>> \o metadata)
      BY <1>3 DEF record_output, seq, start, record
    <3> QED
      BY <1>1, <3>3, <3>4, SendType
  <2>6. latest_output_seq' \in Nat
    BY <1>3, <2>1 DEF record_output, seq
  <2> QED
    BY <1>3, <2>4, <2>5, <2>6 DEF record_output, TypeInv, TypeOK, Pending
<1>4. CASE WaiterGet \/ WaitFails \/ MarkExitedClosed \/ ChildEnds
  BY <1>4 DEF WaiterGet, WaitFails, MarkExitedClosed, ChildEnds, TypeInv, TypeOK, Pending
<1>5. CASE mark_exited
  <2>1. output_tx' \in Seq(Events)
    <3>1. <<Event("SessionExited", 0)>> \in Seq(Events)
      BY EventTypes
    <3> QED
      BY <1>1, <1>5, <3>1, SendType DEF mark_exited
  <2> QED
    BY <1>5, <2>1 DEF mark_exited, TypeInv, TypeOK, Pending
<1> QED
  BY <1>2, <1>3, <1>4, <1>5 DEF ReaderStep, WaiterStep

\* The stream of one attach.
LEMMA TypeStream ==
    ASSUME TypeInv, NEW a \in Attach, StreamStep(a) \/ StreamWriteFails(a)
    PROVE  TypeInv'
<1> USE DEF session, threads, streams, history
<1>1. TypeOK /\ Pending
  BY DEF TypeInv
<1>2. ASSUME NEW event \in Events, Write(a, event)
      PROVE  sent' \in [Attach -> Seq(Events)]
  BY <1>1, <1>2 DEF Write, TypeOK
<1>3. CASE StreamReplay(a)
  <2>1. outbox[a] \in Seq(Events) /\ outbox[a] # <<>>
    BY <1>1, <1>3 DEF StreamReplay, TypeOK, Pending
  <2>2. /\ Head(outbox[a]) \in Events
        /\ Tail(outbox[a]) \in Seq(Events)
        /\ Len(outbox[a]) > 1 => Tail(outbox[a]) # <<>>
    <3> DEFINE rest == Tail(outbox[a])
               n == Len(outbox[a])
    <3>1. Head(outbox[a]) \in Events /\ rest \in Seq(Events) /\ Len(rest) = n - 1
      BY <2>1, HeadTailProperties
    <3>2. n \in Nat
      BY <2>1, LenProperties
    <3> HIDE DEF rest, n
    <3>3. n > 1 => rest # <<>>
      BY <3>1, <3>2
    <3> QED
      BY <3>1, <3>3 DEF rest, n
  <2>3. sent' \in [Attach -> Seq(Events)]
    BY <1>2, <1>3, <2>2 DEF StreamReplay
  <2>4. outbox' \in [Attach -> Seq(Events)]
    BY <1>1, <1>3, <2>2 DEF StreamReplay, TypeOK
  <2>5. phase' \in [Attach -> Active \cup {"none", "done"}]
    BY <1>1, <1>3 DEF StreamReplay, AfterReplay, TypeOK, Active
  <2>6. TypeOK'
    BY <1>1, <1>3, <2>3, <2>4, <2>5 DEF StreamReplay, TypeOK
  <2>7. Pending'
    <3>1. phase'[a] = "writing" => outbox'[a] # <<>>
      BY <1>1, <1>3, <2>2 DEF StreamReplay, AfterReplay, TypeOK
    <3>2. \A b \in Attach \ {a} : phase'[b] = phase[b] /\ outbox'[b] = outbox[b]
      BY <1>1, <1>3 DEF StreamReplay, TypeOK
    <3> QED
      BY <1>1, <3>1, <3>2 DEF Pending
  <2> QED
    BY <2>6, <2>7 DEF TypeInv
<1>4. CASE StreamRecv(a)
  <2>1. position[a] + 1 \in 1 .. Len(output_tx)
    BY <1>1, <1>4, LenProperties DEF StreamRecv, TypeOK
  <2>2. output_tx[position[a] + 1] \in Events
    BY <1>1, <2>1, ElementOfSeq DEF TypeOK
  <2>3. sent' \in [Attach -> Seq(Events)]
    BY <1>2, <1>4, <2>2 DEF StreamRecv
  <2>4. position' \in [Attach -> Nat]
    BY <1>1, <1>4 DEF StreamRecv, TypeOK
  <2>5. phase' \in [Attach -> Active \cup {"none", "done"}] /\ Pending'
    BY <1>1, <1>4 DEF StreamRecv, TypeOK, Active, Pending
  <2> QED
    BY <1>1, <1>4, <2>3, <2>4, <2>5 DEF StreamRecv, TypeOK, TypeInv
<1>5. CASE StreamLagged(a)
  <2>1. position' \in [Attach -> Nat]
    <3>1. Len(output_tx) - Capacity \in Nat
      BY <1>1, <1>5, BoundAssumption, LenProperties DEF StreamLagged, Lags, TypeOK
    <3> QED
      BY <1>1, <1>5, <3>1 DEF StreamLagged, TypeOK
  <2>2. sent' \in [Attach -> Seq(Events)]
    <3>1. snapshot[a].latest + 1 \in Int
      BY <1>1 DEF TypeOK, Info
    <3> QED
      BY <1>2, <1>5, <3>1, EventTypes DEF StreamLagged
  <2> QED
    BY <1>1, <1>5, <2>1, <2>2 DEF StreamLagged, TypeOK, Pending, TypeInv
<1>6. CASE StreamChannelClosed(a) \/ StreamWriteFails(a) \/ BeginDetach(a)
  <2>1. /\ \E p \in {"detaching", "detach_held", "done"} :
              phase' = [phase EXCEPT ![a] = p]
        /\ UNCHANGED <<in_map, session, next_attach_id, threads, call, request,
                       snapshot, outbox, position, sent, history>>
    BY <1>6 DEF StreamChannelClosed, StreamWriteFails, BeginDetach
  <2>2. phase' \in [Attach -> Active \cup {"none", "done"}] /\ Pending'
    BY <1>1, <2>1 DEF TypeOK, Pending, Active
  <2> QED
    BY <1>1, <2>1, <2>2 DEF TypeInv, TypeOK
<1>7. CASE detach(a)
  BY <1>7 DEF detach, TypeInv, TypeOK, Pending, Active
<1> QED
  BY <1>3, <1>4, <1>5, <1>6, <1>7 DEF StreamStep

\* Every step keeps the types.
LEMMA TypeStep == TypeInv /\ [Next]_vars => TypeInv'
<1> SUFFICES ASSUME TypeInv, [Next]_vars PROVE TypeInv'
  OBVIOUS
<1>1. ASSUME NEW h \in Handler, HandlerBegin(h) \/ HandlerStep(h) PROVE TypeInv'
  BY <1>1, TypeBegin, TypeHandler
<1>2. CASE ReaderStep \/ WaiterStep \/ WaitFails \/ ChildEnds
  BY <1>2, TypeThreads
<1>3. ASSUME NEW a \in Attach, StreamStep(a) \/ StreamWriteFails(a) PROVE TypeInv'
  BY <1>3, TypeStream
<1>4. CASE UNCHANGED vars
  BY <1>4 DEF vars, session, threads, streams, history, TypeInv, TypeOK, Pending
<1> QED
  BY <1>1, <1>2, <1>3, <1>4 DEF Next

\* Every reachable state has the types of TypeOK: what each operation of the
\* manager stores and each stream writes is what the declarations say.
THEOREM TypeCorrect == Spec => []TypeInv
<1>1. Init => TypeInv
  BY TypeInit
<1>2. TypeInv /\ [Next]_vars => TypeInv'
  BY TypeStep
<1> QED
  BY <1>1, <1>2, PTL DEF Spec

\* The types that TLC checks hold for any bounds, in every state of a session
\* (terminal.rs).
THEOREM TypesHold == Spec => []TypeOK
<1>1. TypeInv => TypeOK
  BY DEF TypeInv
<1> QED
  BY <1>1, TypeCorrect, PTL

-----------------------------------------------------------------------------
(* Who may write input, and which attaches are registered *)

\* Control is inductive only together with the freshness of attach ids: an
\* attach that has control and an owner was given control by that owner, and
\* neither an owner nor control is ever found on an id not handed out yet.
ControlInv ==
    /\ InputAuthorized
    /\ \A a \in Attach : attach_owners[a] # NoOwner =>
           /\ a < next_attach_id
           /\ primary_attach_id = a => <<a, attach_owners[a]>> \in takes
    /\ primary_attach_id < next_attach_id

controlled == <<attach_owners, primary_attach_id, next_attach_id, takes, inputs>>

\* The steps that do not touch what control depends on.
LEMMA ControlUntouched ==
    /\ \A h \in Handler :
           \/ HandlerBegin(h) \/ TakeControlRefused(h) \/ WriteInputRefused(h)
           \/ close_session(h)
           => UNCHANGED controlled
    /\ ReaderStep \/ WaiterStep \/ WaitFails \/ ChildEnds => UNCHANGED controlled
    /\ \A a \in Attach :
           \/ StreamReplay(a) \/ StreamRecv(a) \/ StreamLagged(a)
           \/ StreamChannelClosed(a) \/ StreamWriteFails(a) \/ BeginDetach(a)
           => UNCHANGED controlled
    /\ UNCHANGED vars => UNCHANGED controlled
<1> USE DEF controlled, session, threads, streams, history
<1>1. ASSUME NEW h \in Handler, HandlerBegin(h) PROVE UNCHANGED controlled
  BY <1>1 DEF HandlerBegin, BeginAttach, BeginTakeControl, BeginWriteInput,
              BeginCloseSession, Begin
<1>2. ASSUME NEW h \in Handler,
             TakeControlRefused(h) \/ WriteInputRefused(h) \/ close_session(h)
      PROVE  UNCHANGED controlled
  BY <1>2 DEF TakeControlRefused, WriteInputRefused, close_session
<1>3. ASSUME ReaderStep \/ WaiterStep \/ WaitFails \/ ChildEnds PROVE UNCHANGED controlled
  BY <1>3 DEF ReaderStep, ReaderGet, ReaderEof, RecordOutputClosed, record_output,
              WaiterStep, WaiterGet, WaitFails, MarkExitedClosed, mark_exited,
              ChildEnds
<1>4. ASSUME NEW a \in Attach,
             \/ StreamReplay(a) \/ StreamRecv(a) \/ StreamLagged(a)
             \/ StreamChannelClosed(a) \/ StreamWriteFails(a) \/ BeginDetach(a)
      PROVE  UNCHANGED controlled
  BY <1>4 DEF StreamReplay, StreamRecv, StreamLagged, StreamChannelClosed,
              StreamWriteFails, BeginDetach
<1>5. UNCHANGED vars => UNCHANGED controlled
  BY DEF vars
<1> QED
  BY <1>1, <1>2, <1>3, <1>4, <1>5

\* At first nobody controls the session.
LEMMA ControlInit == Init => ControlInv
BY DEF Init, ControlInv, InputAuthorized, NoAttach, FirstAttachId

\* Every step keeps input with the owners of attaches that took control.
LEMMA ControlStep == TypeInv /\ ControlInv /\ [Next]_vars => ControlInv'
<1> SUFFICES ASSUME TypeOK, ControlInv, [Next]_vars PROVE ControlInv'
  BY DEF TypeInv
<1> USE DEF session, threads, streams, history
<1>1. CASE UNCHANGED controlled
  BY <1>1 DEF controlled, ControlInv, InputAuthorized
<1>2. ASSUME NEW h \in Handler, AttachClosed(h) PROVE ControlInv'
  BY <1>2, BoundAssumption
     DEF AttachClosed, ControlInv, InputAuthorized, TypeOK, Attach, NoAttach
<1>3. ASSUME NEW h \in Handler, attach(h) PROVE ControlInv'
  <2>1. /\ next_attach_id \in Attach
        /\ next_attach_id' = next_attach_id + 1
        /\ attach_owners' = [attach_owners EXCEPT ![next_attach_id] = call[h].rpc]
        /\ UNCHANGED <<primary_attach_id, takes, inputs>>
    BY <1>3 DEF attach
  <2> QED
    BY <2>1, BoundAssumption DEF ControlInv, InputAuthorized, TypeOK, Attach, NoAttach
<1>4. ASSUME NEW h \in Handler, StoreControl(h) PROVE ControlInv'
  <2>1. /\ call[h].attach \in Attach
        /\ call[h].rpc \in Rpc
        /\ attach_owners[call[h].attach] = call[h].rpc
        /\ primary_attach_id' = call[h].attach
        /\ takes' = takes \cup {<<call[h].attach, call[h].rpc>>}
        /\ UNCHANGED <<attach_owners, next_attach_id, inputs>>
    BY <1>4, CallType DEF StoreControl, validate_attach_owner
  <2> QED
    BY <2>1, OwnerAssumption DEF ControlInv, InputAuthorized
<1>5. ASSUME NEW h \in Handler, write_input(h) PROVE ControlInv'
  <2>1. /\ call[h].attach \in Attach
        /\ call[h].rpc \in Rpc
        /\ attach_owners[call[h].attach] = call[h].rpc
        /\ primary_attach_id = call[h].attach
        /\ inputs' = inputs \cup {<<call[h].attach, call[h].rpc>>}
        /\ UNCHANGED <<attach_owners, primary_attach_id, next_attach_id, takes>>
    BY <1>5, CallType DEF write_input, validate_attach_owner
  <2>2. <<call[h].attach, call[h].rpc>> \in takes
    BY <2>1, OwnerAssumption DEF ControlInv
  <2> QED
    BY <2>1, <2>2 DEF ControlInv, InputAuthorized
<1>6. ASSUME NEW a \in Attach, detach(a) PROVE ControlInv'
  BY <1>6 DEF detach, ControlInv, InputAuthorized, TypeOK
<1>7. ASSUME NEW h \in Handler, HandlerStep(h) PROVE ControlInv'
  BY <1>1, <1>2, <1>3, <1>4, <1>5, <1>7, ControlUntouched
     DEF HandlerStep, take_control, TakeControlResizeFails
<1>8. ASSUME NEW a \in Attach, StreamStep(a) \/ StreamWriteFails(a) PROVE ControlInv'
  BY <1>1, <1>6, <1>8, ControlUntouched DEF StreamStep
<1> QED
  BY <1>1, <1>7, <1>8, ControlUntouched DEF Next

\* Whatever calls interleave, input is accepted only from an RPC session that
\* took control with the attach it writes through (write_input).
THEOREM InputIsAuthorized == Spec => []InputAuthorized
<1>1. Init => TypeInv /\ ControlInv
  BY TypeInit, ControlInit
<1>2. TypeInv /\ ControlInv /\ [Next]_vars => (TypeInv /\ ControlInv)'
  BY TypeStep, ControlStep
<1>3. TypeInv /\ ControlInv => InputAuthorized
  BY DEF ControlInv
<1> QED
  BY <1>1, <1>2, <1>3, PTL DEF Spec

\* Every step keeps the owners among the live streams.
LEMMA OwnersStep == TypeInv /\ OwnersAreLive /\ [Next]_vars => OwnersAreLive'
<1> SUFFICES ASSUME TypeOK, OwnersAreLive, [Next]_vars PROVE OwnersAreLive'
  BY DEF TypeInv
<1> USE DEF session, threads, streams, history
<1>1. ASSUME NEW h \in Handler, HandlerBegin(h) PROVE OwnersAreLive'
  BY <1>1 DEF HandlerBegin, BeginAttach, BeginTakeControl, BeginWriteInput,
              BeginCloseSession, Begin, OwnersAreLive
<1>2. ASSUME NEW h \in Handler, attach(h) PROVE OwnersAreLive'
  <2>1. /\ next_attach_id \in Attach
        /\ attach_owners' = [attach_owners EXCEPT ![next_attach_id] = call[h].rpc]
        /\ phase' = [phase EXCEPT ![next_attach_id] = "writing"]
        /\ in_map' = in_map
    BY <1>2 DEF attach
  <2>2. call[h].rpc \in Rpc
    BY <1>2, CallType DEF attach
  <2> QED
    BY <2>1, <2>2, OwnerAssumption DEF OwnersAreLive, TypeOK, Active
<1>3. ASSUME NEW h \in Handler, HandlerStep(h), ~attach(h) PROVE OwnersAreLive'
  BY <1>3 DEF HandlerStep, AttachClosed, TakeControlRefused, take_control,
              TakeControlResizeFails, StoreControl, WriteInputRefused, write_input,
              close_session, OwnersAreLive
<1>4. CASE ReaderStep \/ WaiterStep \/ WaitFails \/ ChildEnds
  BY <1>4 DEF ReaderStep, ReaderGet, ReaderEof, RecordOutputClosed, record_output,
              WaiterStep, WaiterGet, WaitFails, MarkExitedClosed, mark_exited,
              ChildEnds,
              OwnersAreLive
<1>5. ASSUME NEW a \in Attach,
             \/ StreamReplay(a) \/ StreamRecv(a) \/ StreamLagged(a)
             \/ StreamChannelClosed(a) \/ StreamWriteFails(a)
      PROVE  OwnersAreLive'
  <2>1. /\ phase[a] \in Active
        /\ phase' = phase \/ \E p \in Active : phase' = [phase EXCEPT ![a] = p]
        /\ UNCHANGED <<in_map, attach_owners>>
    BY <1>5 DEF StreamReplay, StreamRecv, StreamLagged, StreamChannelClosed,
                StreamWriteFails, AfterReplay, Active
  <2> QED
    BY <2>1 DEF OwnersAreLive, TypeOK
<1>6. ASSUME NEW a \in Attach, BeginDetach(a) PROVE OwnersAreLive'
  BY <1>6 DEF BeginDetach, OwnersAreLive, TypeOK, Active
<1>7. ASSUME NEW a \in Attach, detach(a) PROVE OwnersAreLive'
  BY <1>7 DEF detach, OwnersAreLive, TypeOK, Active
<1>8. CASE UNCHANGED vars
  BY <1>8 DEF vars, OwnersAreLive
<1> QED
  BY <1>1, <1>2, <1>3, <1>4, <1>5, <1>6, <1>7, <1>8 DEF Next, StreamStep

\* Attach ids and running streams agree at every moment a call can find the
\* session (attach, detach).
THEOREM OwnersLive == Spec => []OwnersAreLive
<1>1. Init => TypeInv /\ OwnersAreLive
  BY TypeInit DEF Init, OwnersAreLive, Active
<1>2. TypeInv /\ OwnersAreLive /\ [Next]_vars => (TypeInv /\ OwnersAreLive)'
  BY TypeStep, OwnersStep
<1> QED
  BY <1>1, <1>2, PTL DEF Spec

-----------------------------------------------------------------------------
(* Closing *)

\* The waiter holds the session, and the exit is recorded, only once the child
\* has ended or the wait for it has failed; so a close that finds the exit
\* recorded leaves a child behind only after a failed wait.
ChildInv ==
    /\ closed /\ child \in Alive => child = "unwaited" /\ exit
    /\ waiter = "holding" => child # "running"
    /\ exit => child # "running"

\* Every step keeps what is known of the child process.
LEMMA ChildStep == ChildInv /\ [Next]_vars => ChildInv'
<1> SUFFICES ASSUME ChildInv, [Next]_vars PROVE ChildInv'
  OBVIOUS
<1> USE DEF session, threads, streams, history, ChildInv, Alive
<1>1. ASSUME NEW h \in Handler, HandlerBegin(h) PROVE ChildInv'
  BY <1>1 DEF HandlerBegin, BeginAttach, BeginTakeControl, BeginWriteInput,
              BeginCloseSession, Begin
<1>2. ASSUME NEW h \in Handler, HandlerStep(h) PROVE ChildInv'
  BY <1>2 DEF HandlerStep, attach, AttachClosed, TakeControlRefused, take_control,
              TakeControlResizeFails, StoreControl, WriteInputRefused, write_input,
              close_session, KilledChild
<1>3. CASE ReaderStep
  <2>1. UNCHANGED <<closed, exit, child, waiter>>
    BY <1>3 DEF ReaderStep, ReaderGet, ReaderEof, RecordOutputClosed, record_output
  <2> QED
    BY <2>1
<1>4. CASE WaiterStep \/ WaitFails \/ ChildEnds
  BY <1>4 DEF WaiterStep, WaiterGet, WaitFails, MarkExitedClosed, mark_exited,
              ChildEnds
<1>5. ASSUME NEW a \in Attach, StreamStep(a) \/ StreamWriteFails(a) PROVE ChildInv'
  BY <1>5 DEF StreamStep, StreamReplay, StreamRecv, StreamLagged,
              StreamChannelClosed, StreamWriteFails, BeginDetach, detach
<1>6. CASE UNCHANGED vars
  BY <1>6 DEF vars
<1> QED
  BY <1>1, <1>2, <1>3, <1>4, <1>5, <1>6 DEF Next

\* A closed session has no running process, unless the wait for it had failed
\* and the exit was recorded before the close, whichever of the close, the end
\* of the child and the recording of its exit comes first (close_session,
\* spawn_child_waiter).
THEOREM NoOrphans == Spec => []NoOrphanChild
<1>1. Init => ChildInv
  BY DEF Init, ChildInv, Alive
<1>2. ChildInv /\ [Next]_vars => ChildInv'
  BY ChildStep
<1>3. ChildInv => NoOrphanChild
  BY DEF ChildInv, NoOrphanChild
<1> QED
  BY <1>1, <1>2, <1>3, PTL DEF Spec

\* One step of a closed session neither reopens it nor changes its output, its
\* exit or, otherwise than by detaching, its owners.
LEMMA ClosedStep ==
    ASSUME TypeOK, [Next]_vars, closed
    PROVE  /\ closed'
           /\ UNCHANGED <<latest_output_seq, output_buffer, exit>>
           /\ \A a \in Attach : attach_owners'[a] # NoOwner =>
                  attach_owners'[a] = attach_owners[a]
<1> USE DEF session, threads, streams, history
<1> DEFINE Final == /\ closed'
                    /\ UNCHANGED <<latest_output_seq, output_buffer, exit>>
                    /\ \A a \in Attach : attach_owners'[a] # NoOwner =>
                           attach_owners'[a] = attach_owners[a]
<1>1. ASSUME NEW h \in Handler, HandlerBegin(h) PROVE Final
  BY <1>1 DEF HandlerBegin, BeginAttach, BeginTakeControl, BeginWriteInput,
              BeginCloseSession, Begin
<1>2. ASSUME NEW h \in Handler, HandlerStep(h) PROVE Final
  BY <1>2 DEF HandlerStep, attach, AttachClosed, TakeControlRefused, take_control,
              TakeControlResizeFails, StoreControl, WriteInputRefused, write_input,
              close_session
<1>3. CASE ReaderStep
  BY <1>3 DEF ReaderStep, ReaderGet, ReaderEof, RecordOutputClosed, record_output,
              AcceptsOutput
<1>4. CASE WaiterStep \/ WaitFails \/ ChildEnds
  BY <1>4 DEF WaiterStep, WaiterGet, WaitFails, MarkExitedClosed, mark_exited,
              ChildEnds
<1>5. ASSUME NEW a \in Attach, StreamStep(a) \/ StreamWriteFails(a) PROVE Final
  BY <1>5 DEF StreamStep, StreamReplay, StreamRecv, StreamLagged,
              StreamChannelClosed, StreamWriteFails, BeginDetach, detach, TypeOK
<1>6. CASE UNCHANGED vars
  BY <1>6 DEF vars
<1> QED
  BY <1>1, <1>2, <1>3, <1>4, <1>5, <1>6 DEF Next

\* Calls that found the session before it was closed change nothing of what a
\* closed session keeps (attach, record_output, mark_exited).
THEOREM ClosedStaysFinal == Spec => ClosedIsFinal
<1> DEFINE Final == closed =>
               /\ closed'
               /\ UNCHANGED <<latest_output_seq, output_buffer, exit>>
               /\ \A a \in Attach : attach_owners'[a] # NoOwner =>
                      attach_owners'[a] = attach_owners[a]
<1>1. TypeOK /\ [Next]_vars => [Final]_vars
  BY ClosedStep
<1>2. Spec => [][Final]_vars
  <2> HIDE DEF Final
  <2> QED
    BY <1>1, TypesHold, PTL DEF Spec
<1> QED
  BY <1>2 DEF ClosedIsFinal

-----------------------------------------------------------------------------
(* What the output buffer holds *)

\* Consecutive records of the output up to the sequence latest.
Consecutive(buffer, latest) ==
    LET n == Len(buffer)
    IN  /\ \A i \in 1 .. n : /\ buffer[i].seq = latest - n + i
                             /\ buffer[i].start <= buffer[i].end
        /\ \A i \in 1 .. n - 1 : buffer[i].end = buffer[i + 1].start
        /\ \A i, j \in 1 .. n : i < j => buffer[i].end <= buffer[j].start

\* That the records lie in order is needed to see that trimming pops a prefix.
BufferInv == RetainedTail /\ Consecutive(output_buffer, latest_output_seq)

\* A record that begins where the last one ends continues a buffer.
LEMMA AppendConsecutive ==
    ASSUME NEW buffer \in Seq(OutputRecord), NEW latest \in Nat,
           NEW record \in OutputRecord,
           Consecutive(buffer, latest),
           record.seq = latest + 1,
           record.start <= record.end,
           buffer # <<>> => record.start = buffer[Len(buffer)].end
    PROVE  Consecutive(Append(buffer, record), latest + 1)
<1> DEFINE n == Len(buffer)
           longer == Append(buffer, record)
<1>1. n \in Nat /\ (n = 0 <=> buffer = <<>>)
  BY LenProperties
<1>2. /\ longer \in Seq(OutputRecord)
      /\ Len(longer) = n + 1
      /\ \A i \in 1 .. n : longer[i] = buffer[i]
      /\ longer[n + 1] = record
  OBVIOUS
<1>3. /\ \A i \in 1 .. n : /\ buffer[i].seq = latest - n + i
                           /\ buffer[i].start <= buffer[i].end
      /\ \A i \in 1 .. n - 1 : buffer[i].end = buffer[i + 1].start
      /\ \A i, j \in 1 .. n : i < j => buffer[i].end <= buffer[j].start
      /\ n > 0 => record.start = buffer[n].end
  BY <1>1 DEF Consecutive
<1>4. \A i \in 1 .. n : buffer[i] \in OutputRecord
  BY ElementOfSeq
<1>5. \A i \in 1 .. n : buffer[i].start \in Nat /\ buffer[i].end \in Nat
  BY <1>4 DEF OutputRecord
<1>6. record.start \in Nat /\ record.end \in Nat
  BY DEF OutputRecord
<1> HIDE DEF n, longer
<1>7. \A i \in 1 .. n + 1 : /\ longer[i].seq = (latest + 1) - (n + 1) + i
                            /\ longer[i].start <= longer[i].end
  <2> TAKE i \in 1 .. n + 1
  <2>1. CASE i = n + 1
    BY <1>1, <1>2, <2>1
  <2>2. CASE i # n + 1
    <3>1. i \in 1 .. n
      BY <1>1, <2>2
    <3>2. /\ longer[i].seq = latest - n + i
          /\ longer[i].start <= longer[i].end
      BY <1>2, <1>3, <3>1
    <3> QED
      BY <1>1, <3>2
  <2> QED
    BY <2>1, <2>2
<1>8. \A i \in 1 .. n : longer[i].end = longer[i + 1].start
  <2> TAKE i \in 1 .. n
  <2>1. CASE i = n
    BY <1>1, <1>2, <1>3, <2>1
  <2>2. CASE i # n
    <3>1. i \in 1 .. n - 1 /\ i + 1 \in 1 .. n
      BY <1>1, <2>2
    <3> QED
      BY <1>2, <1>3, <3>1
  <2> QED
    BY <2>1, <2>2
<1>9. ASSUME NEW i \in 1 .. n + 1, NEW j \in 1 .. n + 1, i < j
      PROVE  longer[i].end <= longer[j].start
  <2>1. i \in 1 .. n
    BY <1>1, <1>9
  <2>2. CASE j # n + 1
    <3>1. j \in 1 .. n
      BY <1>1, <2>2
    <3> QED
      BY <1>2, <1>3, <1>9, <2>1, <3>1
  <2>3. CASE j = n + 1
    <3>1. longer[j].start = buffer[n].end /\ longer[i].end = buffer[i].end
      BY <1>1, <1>2, <1>3, <2>1, <2>3
    <3>2. n \in 1 .. n
      BY <1>1, <2>1
    <3>3. buffer[i].end <= buffer[n].end
      <4>1. CASE i = n
        BY <1>5, <2>1, <4>1
      <4>2. CASE i # n
        <5>1. buffer[i].end <= buffer[n].start /\ buffer[n].start <= buffer[n].end
          BY <1>1, <1>3, <2>1, <3>2, <4>2
        <5> QED
          BY <1>5, <2>1, <3>2, <5>1
      <4> QED
        BY <4>1, <4>2
    <3> QED
      BY <3>1, <3>3
  <2> QED
    BY <2>2, <2>3
<1>10. (n + 1) - 1 = n
  BY <1>1
<1>11. Consecutive(longer, latest + 1)
  BY <1>2, <1>7, <1>8, <1>9, <1>10 DEF Consecutive
<1> QED
  BY <1>11 DEF longer

\* Trimming a buffer whose last record alone is within Retention keeps that
\* record, keeps the rest consecutive, and gets within Retention.
LEMMA TrimConsecutive ==
    ASSUME NEW buffer \in Seq(OutputRecord), NEW latest \in Nat,
           buffer # <<>>,
           Consecutive(buffer, latest),
           BytesFrom(buffer, Len(buffer)) <= Retention
    PROVE  LET trimmed == Trim(buffer)
           IN  /\ Len(trimmed) \in Nat \ {0}
               /\ Consecutive(trimmed, latest)
               /\ BytesFrom(trimmed, 1) <= Retention
<1> DEFINE n == Len(buffer)
           D == {k \in DOMAIN buffer : BytesFrom(buffer, k) > Retention}
           p == Cardinality(D)
           m == n - p
           trimmed == Trim(buffer)
<1>1. n \in Nat \ {0} /\ DOMAIN buffer = 1 .. n
  BY EmptySeq, LenProperties
<1>2. \A i \in 1 .. n : buffer[i].start \in Nat /\ buffer[i].end \in Nat
  <2>1. \A i \in 1 .. n : buffer[i] \in OutputRecord
    BY ElementOfSeq
  <2> QED
    BY <2>1 DEF OutputRecord
<1>3. /\ \A i \in 1 .. n : /\ buffer[i].seq = latest - n + i
                           /\ buffer[i].start <= buffer[i].end
      /\ \A i \in 1 .. n - 1 : buffer[i].end = buffer[i + 1].start
      /\ \A i, j \in 1 .. n : i < j => buffer[i].end <= buffer[j].start
  BY DEF Consecutive
<1>4. \A k \in 1 .. n : k \in D <=> buffer[n].end - buffer[k].start > Retention
  BY <1>1 DEF BytesFrom
<1>5. buffer[n].end - buffer[n].start <= Retention
  BY DEF BytesFrom
<1>6. D \in SUBSET DOMAIN buffer
  OBVIOUS
<1>7. /\ p \in 0 .. n
      /\ trimmed \in Seq(OutputRecord)
      /\ Len(trimmed) = m
      /\ \A i \in 1 .. m : trimmed[i] = buffer[p + i]
  BY <1>6, WithoutSuffix DEF Trim
<1>8. D \in SUBSET (1 .. n)
  BY <1>1
<1> HIDE DEF n, D, trimmed
<1>9. \A i \in D : \A j \in 1 .. i : j \in D
  <2> TAKE i \in D
  <2> TAKE j \in 1 .. i
  <2>1. i \in 1 .. n /\ j \in 1 .. n /\ n \in 1 .. n
    BY <1>1, <1>8
  <2>2. buffer[j].start <= buffer[i].start
    <3>1. CASE j = i
      BY <1>2, <2>1, <3>1
    <3>2. CASE j # i
      <4>1. buffer[j].start <= buffer[j].end /\ buffer[j].end <= buffer[i].start
        BY <1>3, <2>1, <3>2
      <4> QED
        BY <1>2, <2>1, <4>1
    <3> QED
      BY <3>1, <3>2
  <2>3. buffer[n].end - buffer[i].start > Retention
    BY <1>4, <2>1
  <2>4. buffer[n].end - buffer[j].start > Retention
    BY <1>2, <2>1, <2>2, <2>3, ChunkAssumption
  <2> QED
    BY <1>4, <2>1, <2>4
<1>10. D = 1 .. p
  BY <1>1, <1>8, <1>9, DownwardClosed
<1>11. p \in Nat /\ p < n
  <2>1. n \in 1 .. n
    BY <1>1
  <2>2. n \notin D
    BY <1>2, <1>4, <1>5, <2>1, ChunkAssumption
  <2> QED
    BY <1>1, <1>7, <1>10, <2>1, <2>2
<1> HIDE DEF p
<1>12. m \in Nat \ {0} /\ m = n - p
  BY <1>1, <1>11
<1> HIDE DEF m
<1>13. Consecutive(trimmed, latest)
  <2>1. \A i \in 1 .. m : /\ p + i \in 1 .. n
                          /\ trimmed[i] = buffer[p + i]
    BY <1>1, <1>7, <1>11, <1>12
  <2>2. \A i \in 1 .. m : /\ trimmed[i].seq = latest - m + i
                          /\ trimmed[i].start <= trimmed[i].end
    <3> TAKE i \in 1 .. m
    <3>1. buffer[p + i].seq = latest - n + (p + i)
      BY <1>3, <2>1
    <3>2. buffer[p + i].start <= buffer[p + i].end
      BY <1>3, <2>1
    <3>3. latest - n + (p + i) = latest - m + i
      BY <1>1, <1>11, <1>12
    <3>4. trimmed[i] = buffer[p + i]
      BY <2>1
    <3> QED
      BY <3>1, <3>2, <3>3, <3>4
  <2>3. \A i \in 1 .. m - 1 : trimmed[i].end = trimmed[i + 1].start
    <3> TAKE i \in 1 .. m - 1
    <3>1. i \in 1 .. m /\ i + 1 \in 1 .. m /\ p + i \in 1 .. n - 1
      BY <1>1, <1>11, <1>12
    <3>2. p + (i + 1) = (p + i) + 1
      BY <1>11, <3>1
    <3>3. buffer[p + i].end = buffer[(p + i) + 1].start
      BY <1>3, <3>1
    <3> QED
      BY <2>1, <3>1, <3>2, <3>3
  <2>4. \A i, j \in 1 .. m : i < j => trimmed[i].end <= trimmed[j].start
    <3> TAKE i, j \in 1 .. m
    <3>1. i < j => p + i < p + j
      BY <1>11
    <3> QED
      BY <1>3, <2>1, <3>1
  <2>5. Len(trimmed) = m
    BY <1>7
  <2> QED
    BY <2>2, <2>3, <2>4, <2>5 DEF Consecutive
<1>14. BytesFrom(trimmed, 1) <= Retention
  <2>1. 1 \in 1 .. m /\ m \in 1 .. m /\ p + m = n /\ p + 1 \in 1 .. n
    BY <1>1, <1>11, <1>12
  <2>2. trimmed[1] = buffer[p + 1] /\ trimmed[m] = buffer[n] /\ Len(trimmed) = m
    BY <1>7, <2>1
  <2>3. p + 1 \notin D
    BY <1>10, <1>11
  <2>4. ~(buffer[n].end - buffer[p + 1].start > Retention)
    BY <1>4, <2>1, <2>3
  <2>5. n \in 1 .. n
    BY <1>1
  <2> QED
    BY <1>2, <2>1, <2>2, <2>4, <2>5, ChunkAssumption DEF BytesFrom
<1> QED
  BY <1>7, <1>12, <1>13, <1>14 DEF trimmed

\* Every step keeps the replay buffer the unbroken tail of the output.
LEMMA BufferStep == TypeInv /\ BufferInv /\ [Next]_vars => BufferInv'
<1> SUFFICES ASSUME TypeOK, BufferInv, [Next]_vars PROVE BufferInv'
  BY DEF TypeInv
<1> USE DEF session, threads, streams, history
<1>1. CASE UNCHANGED <<output_buffer, latest_output_seq>>
  BY <1>1 DEF BufferInv, RetainedTail, Consecutive
<1>2. ASSUME NEW length \in Chunk, NEW title \in Title \cup {NoTitle},
             record_output(length, title)
      PROVE  BufferInv'
  <2> DEFINE latest == latest_output_seq
             start == IF output_buffer = <<>> THEN 0
                      ELSE output_buffer[Len(output_buffer)].end
             record == [seq |-> latest + 1, start |-> start, end |-> start + length]
             longer == Append(output_buffer, record)
  <2>1. /\ output_buffer' = Trim(longer)
        /\ latest_output_seq' = latest + 1
    BY <1>2 DEF record_output
  <2>2. length \in Nat /\ length <= Retention /\ latest \in Nat
    BY ChunkAssumption DEF TypeOK
  <2>3. output_buffer \in Seq(OutputRecord)
    BY DEF TypeOK
  <2>4. start \in Nat
    <3>1. CASE output_buffer # <<>>
      <4>1. Len(output_buffer) \in 1 .. Len(output_buffer)
        BY <2>3, <3>1, EmptySeq
      <4>2. output_buffer[Len(output_buffer)] \in OutputRecord
        BY <2>3, <4>1, ElementOfSeq
      <4> QED
        BY <3>1, <4>2 DEF OutputRecord
    <3> QED
      BY <3>1
  <2>5. output_buffer # <<>> => start = output_buffer[Len(output_buffer)].end
    OBVIOUS
  <2> HIDE DEF latest, start
  <2>6. record \in OutputRecord /\ record.seq = latest + 1
        /\ record.start = start /\ record.end = start + length
    BY <2>2, <2>4 DEF OutputRecord
  <2>7. record.start <= record.end
    BY <2>2, <2>4, <2>6
  <2> HIDE DEF record
  <2>8. Consecutive(output_buffer, latest)
    BY DEF BufferInv, latest
  <2>9. Consecutive(longer, latest + 1)
    BY <2>2, <2>3, <2>5, <2>6, <2>7, <2>8, AppendConsecutive
  <2>10. /\ longer \in Seq(OutputRecord)
         /\ longer # <<>>
         /\ longer[Len(longer)] = record
    <3>1. /\ longer \in Seq(OutputRecord)
          /\ Len(longer) = Len(output_buffer) + 1
          /\ longer[Len(output_buffer) + 1] = record
      BY <2>3, <2>6
    <3>2. Len(output_buffer) \in Nat
      BY <2>3, LenProperties
    <3> HIDE DEF longer
    <3>3. longer # <<>>
      BY <3>1, <3>2
    <3> QED
      BY <3>1, <3>3
  <2> HIDE DEF longer
  <2>11. BytesFrom(longer, Len(longer)) <= Retention
    BY <2>2, <2>4, <2>6, <2>10 DEF BytesFrom
  <2> DEFINE trimmed == Trim(longer)
  <2>12. /\ Len(trimmed) \in Nat \ {0}
         /\ Consecutive(trimmed, latest + 1)
         /\ BytesFrom(trimmed, 1) <= Retention
    BY <2>2, <2>9, <2>10, <2>11, TrimConsecutive
  <2> HIDE DEF trimmed
  <2>13. output_buffer' = trimmed /\ latest_output_seq' = latest + 1
    BY <2>1 DEF trimmed
  <2> QED
    BY <2>2, <2>12, <2>13 DEF BufferInv, RetainedTail, Consecutive
<1>3. ASSUME NEW h \in Handler, HandlerBegin(h) \/ HandlerStep(h)
      PROVE  UNCHANGED <<output_buffer, latest_output_seq>>
  BY <1>3 DEF HandlerBegin, BeginAttach, BeginTakeControl, BeginWriteInput,
              BeginCloseSession, Begin, HandlerStep, attach, AttachClosed,
              TakeControlRefused, take_control, TakeControlResizeFails,
              StoreControl, WriteInputRefused, write_input, close_session
<1>4. CASE ReaderStep
  BY <1>1, <1>2, <1>4 DEF ReaderStep, ReaderGet, ReaderEof, RecordOutputClosed
<1>5. ASSUME WaiterStep \/ WaitFails \/ ChildEnds
      PROVE  UNCHANGED <<output_buffer, latest_output_seq>>
  BY <1>5 DEF WaiterStep, WaiterGet, WaitFails, MarkExitedClosed, mark_exited,
              ChildEnds
<1>6. ASSUME NEW a \in Attach, StreamStep(a) \/ StreamWriteFails(a)
      PROVE  UNCHANGED <<output_buffer, latest_output_seq>>
  BY <1>6 DEF StreamStep, StreamReplay, StreamRecv, StreamLagged,
              StreamChannelClosed, StreamWriteFails, BeginDetach, detach
<1>7. UNCHANGED vars => UNCHANGED <<output_buffer, latest_output_seq>>
  BY DEF vars
<1> QED
  BY <1>1, <1>3, <1>4, <1>5, <1>6, <1>7 DEF Next

\* The retained output is always the contiguous tail of what the session put
\* out, within the limit and never empty (record_output).
THEOREM TailIsRetained == Spec => []RetainedTail
<1>1. Init => TypeInv /\ BufferInv
  BY TypeInit DEF Init, BufferInv, RetainedTail, Consecutive
<1>2. TypeInv /\ BufferInv /\ [Next]_vars => (TypeInv /\ BufferInv)'
  BY TypeStep, BufferStep
<1>3. BufferInv => RetainedTail
  BY DEF BufferInv
<1> QED
  BY <1>1, <1>2, <1>3, PTL DEF Spec

-----------------------------------------------------------------------------
(* What a client is told: operators on the sequence of its events *)

\* Chunks ascend, and no number is skipped unless a gap is told of.
Ordered(s) ==
    \A i, j \in 1 .. Len(s) :
        /\ i < j
        /\ s[i].type = "OutputChunk"
        /\ s[j].type = "OutputChunk"
        => /\ s[i].arg < s[j].arg
           /\ \/ \E k \in i + 1 .. j - 1 : s[k].type \in {"OutputChunk", "HistoryGap"}
              \/ s[j].arg = s[i].arg + 1

\* No chunk is past the latest, and the last one is the latest unless a gap
\* is told of after it.
UpTo(s, latest) ==
    \A i \in 1 .. Len(s) : s[i].type = "OutputChunk" =>
        /\ s[i].arg \in 0 .. latest
        /\ \/ \E k \in i + 1 .. Len(s) : s[k].type \in {"OutputChunk", "HistoryGap"}
           \/ s[i].arg = latest

\* What is told first of the output after a sequence is the chunk that follows
\* it, or a gap; as long as nothing is told of it there is none.
Resumes(s, after, latest) ==
    /\ \A j \in 1 .. Len(s) :
           \/ s[j].type # "OutputChunk"
           \/ \E k \in 1 .. j - 1 : s[k].type \in {"OutputChunk", "HistoryGap"}
           \/ s[j].arg = after + 1
    /\ \/ \E k \in 1 .. Len(s) : s[k].type \in {"OutputChunk", "HistoryGap"}
       \/ latest = after

\* The last event of a type tells a value; without one it is the default.
Shows(s, type, default, value) ==
    \/ value = default /\ \A i \in 1 .. Len(s) : s[i].type # type
    \/ \E i \in 1 .. Len(s) : /\ s[i].type = type
                              /\ s[i].arg = value
                              /\ \A j \in i + 1 .. Len(s) : s[j].type # type

NoGap(s) == \A i \in 1 .. Len(s) : s[i].type # "HistoryGap"

\* s tells of the output up to latest, to a client that resumes after a
\* sequence and that Attached told of the output up to first.
OutputTold(s, after, first, latest) ==
    /\ Ordered(s)
    /\ UpTo(s, latest)
    /\ after # NoSeq /\ after <= first => Resumes(s, after, latest)
    /\ NoGap(s) => Shows(s, "OutputChunk", first, latest)

\* s and what Attached told say who has control, and the size.
ControlTold(s, info, primary, viewport) ==
    NoGap(s) => /\ Shows(s, "ControlChanged", info.primary, primary)
                /\ Shows(s, "PseudoTerminalResized", info.size, viewport)

\* An event that is appended is the last one of its type, and of no other.
LEMMA ShowsAppend ==
    ASSUME NEW s \in Seq(Events), NEW e \in Events, NEW type, NEW default,
           NEW value, Shows(s, type, default, value)
    PROVE  Shows(Append(s, e), type, default, IF e.type = type THEN e.arg ELSE value)
<1>1. PICK t : t = Append(s, e)
  OBVIOUS
<1>2. /\ Len(s) \in Nat /\ Len(t) = Len(s) + 1 /\ t[Len(s) + 1] = e
      /\ \A i \in 1 .. Len(s) : t[i] = s[i]
  BY <1>1
<1>3. CASE e.type = type
  <2>1. /\ Len(t) \in 1 .. Len(t) /\ t[Len(t)] = e
        /\ \A j \in Len(t) + 1 .. Len(t) : t[j].type # type
    BY <1>2
  <2> QED BY <1>1, <1>3, <2>1 DEF Shows
<1>4. CASE e.type # type
  <2>1. CASE value = default /\ \A i \in 1 .. Len(s) : s[i].type # type
    BY <1>1, <1>2, <1>4, <2>1 DEF Shows
  <2>2. CASE \E i \in 1 .. Len(s) : /\ s[i].type = type
                                    /\ s[i].arg = value
                                    /\ \A j \in i + 1 .. Len(s) : s[j].type # type
    <3>1. PICK i \in 1 .. Len(s) : /\ s[i].type = type
                                   /\ s[i].arg = value
                                   /\ \A j \in i + 1 .. Len(s) : s[j].type # type
      BY <2>2
    <3>2. /\ i \in 1 .. Len(t) /\ t[i].type = type /\ t[i].arg = value
          /\ \A j \in i + 1 .. Len(t) : t[j].type # type
      BY <1>2, <1>4, <3>1
    <3> QED BY <1>1, <1>4, <3>2 DEF Shows
  <2> QED BY <2>1, <2>2 DEF Shows
<1> QED BY <1>3, <1>4

\* A chunk that is appended follows the latest one; any other event says
\* nothing of the output, or that some was missed.
LEMMA OutputAppend ==
    ASSUME NEW s \in Seq(Events), NEW e \in Events, NEW after \in {NoSeq} \cup Nat,
           NEW first \in Nat, NEW latest \in Nat, NEW next,
           next = (IF e.type = "OutputChunk" THEN latest + 1 ELSE latest),
           e.type = "OutputChunk" => e.arg = next,
           OutputTold(s, after, first, latest)
    PROVE  OutputTold(Append(s, e), after, first, next)
<1>1. PICK t : t = Append(s, e)
  OBVIOUS
<1>2. PICK n \in Nat : n = Len(s)
  OBVIOUS
<1>3. /\ Len(s) = n /\ Len(t) = n + 1 /\ t[n + 1] = e
      /\ \A i \in 1 .. n : t[i] = s[i]
  BY <1>1, <1>2
<1>4. Ordered(t)
  <2> SUFFICES ASSUME NEW i \in 1 .. n + 1, NEW j \in 1 .. n + 1, i < j,
                      t[i].type = "OutputChunk", t[j].type = "OutputChunk"
               PROVE  /\ t[i].arg < t[j].arg
                      /\ \/ \E k \in i + 1 .. j - 1 :
                               t[k].type \in {"OutputChunk", "HistoryGap"}
                         \/ t[j].arg = t[i].arg + 1
    BY <1>3 DEF Ordered
  <2>1. i \in 1 .. n /\ t[i] = s[i]
    BY <1>3
  <2>2. CASE j \in 1 .. n
    <3>1. /\ s[i].arg < s[j].arg
          /\ \/ \E k \in i + 1 .. j - 1 : s[k].type \in {"OutputChunk", "HistoryGap"}
             \/ s[j].arg = s[i].arg + 1
      BY <1>3, <2>1, <2>2 DEF OutputTold, Ordered
    <3>2. \A k \in i + 1 .. j - 1 : k \in 1 .. n /\ t[k] = s[k]
      BY <1>3, <2>1, <2>2
    <3> QED BY <1>3, <2>1, <2>2, <3>1, <3>2
  <2>3. CASE j = n + 1
    <3>1. /\ s[i].arg \in 0 .. latest
          /\ \/ \E k \in i + 1 .. n : s[k].type \in {"OutputChunk", "HistoryGap"}
             \/ s[i].arg = latest
      BY <1>3, <2>1 DEF OutputTold, UpTo
    <3>2. t[j].arg = latest + 1
      BY <1>3, <2>3
    <3>3. \A k \in i + 1 .. n : k \in i + 1 .. j - 1 /\ t[k] = s[k]
      BY <1>3, <2>1, <2>3
    <3> QED BY <2>1, <3>1, <3>2, <3>3
  <2> QED BY <2>2, <2>3
<1>5. UpTo(t, next)
  <2> SUFFICES ASSUME NEW i \in 1 .. n + 1, t[i].type = "OutputChunk"
               PROVE  /\ t[i].arg \in 0 .. next
                      /\ \/ \E k \in i + 1 .. n + 1 :
                               t[k].type \in {"OutputChunk", "HistoryGap"}
                         \/ t[i].arg = next
    BY <1>3 DEF UpTo
  <2>1. CASE i = n + 1
    BY <1>3, <2>1
  <2>2. CASE i \in 1 .. n
    <3>1. /\ s[i].arg \in 0 .. latest /\ t[i] = s[i]
          /\ \/ \E k \in i + 1 .. n : s[k].type \in {"OutputChunk", "HistoryGap"}
             \/ s[i].arg = latest
      BY <1>3, <2>2 DEF OutputTold, UpTo
    <3>2. \A k \in i + 1 .. n : k \in i + 1 .. n + 1 /\ t[k] = s[k]
      BY <1>3, <2>2
    <3>3. n + 1 \in i + 1 .. n + 1 /\ t[n + 1] = e
      BY <1>3, <2>2
    <3> QED BY <3>1, <3>2, <3>3
  <2> QED BY <2>1, <2>2
<1>6. ASSUME after # NoSeq, after <= first
      PROVE  Resumes(t, after, next)
  <2>1. Resumes(s, after, latest)
    BY <1>6 DEF OutputTold
  <2>2. ASSUME NEW j \in 1 .. n, t[j].type = "OutputChunk"
        PROVE  \/ \E k \in 1 .. j - 1 : t[k].type \in {"OutputChunk", "HistoryGap"}
               \/ t[j].arg = after + 1
    <3>1. \A k \in 1 .. j : k \in 1 .. n /\ t[k] = s[k]
      BY <1>3
    <3> QED BY <1>3, <2>1, <2>2, <3>1 DEF Resumes
  <2>3. CASE \E k \in 1 .. n : s[k].type \in {"OutputChunk", "HistoryGap"}
    <3>1. PICK k \in 1 .. n : t[k].type \in {"OutputChunk", "HistoryGap"}
      BY <1>3, <2>3
    <3>2. \A j \in 1 .. n + 1 : j \in 1 .. n \/ k \in 1 .. j - 1
      OBVIOUS
    <3>3. k \in 1 .. n + 1
      OBVIOUS
    <3> QED BY <1>3, <2>2, <3>1, <3>2, <3>3 DEF Resumes
  <2>4. CASE latest = after
    <3>1. e.type = "OutputChunk" => e.arg = after + 1
      BY <2>4
    <3>2. CASE e.type = "OutputChunk"
      <4>1. n + 1 \in 1 .. n + 1 /\ t[n + 1].type = "OutputChunk" /\ t[n + 1].arg = after + 1
        BY <1>3, <3>1, <3>2
      <4>2. \A j \in 1 .. n + 1 : j \in 1 .. n \/ j = n + 1
        OBVIOUS
      <4> QED BY <1>3, <2>2, <4>1, <4>2 DEF Resumes
    <3>3. CASE e.type # "OutputChunk"
      <4>1. next = after
        BY <2>4, <3>3
      <4>2. \A j \in 1 .. n + 1 : j \in 1 .. n \/ j = n + 1
        OBVIOUS
      <4> QED BY <1>3, <2>2, <3>3, <4>1, <4>2 DEF Resumes
    <3> QED BY <3>2, <3>3
  <2> QED BY <1>3, <2>1, <2>3, <2>4 DEF Resumes
<1>7. ASSUME NoGap(t) PROVE Shows(t, "OutputChunk", first, next)
  <2>1. NoGap(s)
    BY <1>3, <1>7 DEF NoGap
  <2>2. Shows(s, "OutputChunk", first, latest)
    BY <2>1 DEF OutputTold
  <2>3. Shows(t, "OutputChunk", first, IF e.type = "OutputChunk" THEN e.arg ELSE latest)
    BY <1>1, <2>2, ShowsAppend
  <2>4. (IF e.type = "OutputChunk" THEN e.arg ELSE latest) = next
    OBVIOUS
  <2> QED BY <2>3, <2>4
<1> QED BY <1>1, <1>4, <1>5, <1>6, <1>7 DEF OutputTold

\* An event about the control or the size is what the client knows next.
LEMMA ControlAppend ==
    ASSUME NEW s \in Seq(Events), NEW e \in Events, NEW info, NEW primary,
           NEW viewport, ControlTold(s, info, primary, viewport)
    PROVE  ControlTold(Append(s, e), info,
               IF e.type = "ControlChanged" THEN e.arg ELSE primary,
               IF e.type = "PseudoTerminalResized" THEN e.arg ELSE viewport)
<1>1. NoGap(Append(s, e)) => NoGap(s)
  <2>1. /\ Len(s) \in Nat /\ Len(Append(s, e)) = Len(s) + 1
        /\ \A i \in 1 .. Len(s) : Append(s, e)[i] = s[i]
    OBVIOUS
  <2> QED BY <2>1 DEF NoGap
<1> QED BY <1>1, ShowsAppend DEF ControlTold

\* t is s where a gap stands for the d events after the first m.
Lagged(s, t, m, d) ==
    /\ m \in Nat /\ d \in Nat /\ m + d <= Len(s) /\ Len(t) = Len(s) - d + 1
    /\ \A i \in 1 .. m : t[i] = s[i]
    /\ t[m + 1].type = "HistoryGap"
    /\ \A i \in m + 2 .. Len(t) : t[i] = s[i - 1 + d]

\* A receiver that lost events reports a gap in their place: what is told is
\* still in order and resumes where it should.
LEMMA OutputLagged ==
    ASSUME NEW s \in Seq(Events), NEW t \in Seq(Events), NEW m, NEW d,
           Lagged(s, t, m, d),
           NEW after, NEW first, NEW latest,
           OutputTold(s, after, first, latest)
    PROVE  OutputTold(t, after, first, latest) /\ ~NoGap(t)
<1>1. PICK n \in Nat : n = Len(s)
  OBVIOUS
<1>2. PICK l \in Nat : l = Len(t)
  OBVIOUS
<1>3. m \in Nat /\ d \in Nat /\ m + d <= n /\ l = n - d + 1
  BY <1>1, <1>2 DEF Lagged
<1>4. \A i \in 1 .. m : t[i] = s[i]
  BY DEF Lagged
<1>5. m + 1 \in 1 .. l /\ t[m + 1].type = "HistoryGap"
  BY <1>1, <1>2, <1>3 DEF Lagged
<1>6. \A i \in m + 2 .. l : t[i] = s[i - 1 + d]
  BY <1>2 DEF Lagged
<1>7. \A i \in 1 .. l : t[i].type = "OutputChunk" => i <= m \/ i > m + 1
  BY <1>3, <1>5
<1>8. ASSUME NEW i \in m + 2 .. l, NEW j \in m + 2 .. l + 1, NEW k \in i + d .. j + d - 2
      PROVE  k + 1 - d \in i + 1 .. j - 1 /\ t[k + 1 - d] = s[k]
  <2>1. k + 1 - d \in i + 1 .. j - 1 /\ k + 1 - d \in m + 2 .. l /\ (k + 1 - d) - 1 + d = k
    BY <1>3
  <2> QED BY <1>6, <2>1
<1>9. Ordered(t)
  <2>1. ASSUME NEW i \in 1 .. l, NEW j \in 1 .. l, i < j,
               t[i].type = "OutputChunk", t[j].type = "OutputChunk"
        PROVE  /\ t[i].arg < t[j].arg
               /\ \/ \E k \in i + 1 .. j - 1 : t[k].type \in {"OutputChunk", "HistoryGap"}
                  \/ t[j].arg = t[i].arg + 1
    <3>1. \A x, y \in 1 .. n :
             /\ x < y
             /\ s[x].type = "OutputChunk"
             /\ s[y].type = "OutputChunk"
             => /\ s[x].arg < s[y].arg
                /\ \/ \E k \in x + 1 .. y - 1 : s[k].type \in {"OutputChunk", "HistoryGap"}
                   \/ s[y].arg = s[x].arg + 1
      BY <1>1 DEF OutputTold, Ordered
    <3>2. CASE j <= m
      <4>1. /\ i \in 1 .. n /\ j \in 1 .. n /\ i \in 1 .. m /\ j \in 1 .. m
            /\ i + 1 .. j - 1 \in SUBSET (1 .. m)
        BY <1>3, <2>1, <3>2
      <4>2. t[i] = s[i] /\ t[j] = s[j] /\ \A k \in i + 1 .. j - 1 : t[k] = s[k]
        BY <1>4, <4>1
      <4> QED BY <2>1, <3>1, <4>1, <4>2
    <3>3. CASE i <= m /\ j > m + 1
      <4>1. /\ i \in 1 .. n /\ j - 1 + d \in 1 .. n /\ i < j - 1 + d
            /\ i \in 1 .. m /\ j \in m + 2 .. l /\ m + 1 \in i + 1 .. j - 1
        BY <1>3, <2>1, <3>3
      <4>2. t[i] = s[i] /\ t[j] = s[j - 1 + d]
        BY <1>4, <1>6, <4>1
      <4>3. t[i].arg < t[j].arg
        BY <2>1, <3>1, <4>1, <4>2
      <4> QED BY <1>5, <4>1, <4>3
    <3>4. CASE i > m + 1
      <4>1. /\ i - 1 + d \in 1 .. n /\ j - 1 + d \in 1 .. n /\ i - 1 + d < j - 1 + d
            /\ i \in m + 2 .. l /\ j \in m + 2 .. l
            /\ (i - 1 + d) + 1 = i + d /\ (j - 1 + d) - 1 = j + d - 2
        BY <1>3, <2>1, <3>4
      <4>2. t[i] = s[i - 1 + d] /\ t[j] = s[j - 1 + d]
        BY <1>6, <4>1
      <4>3. /\ t[i].arg < t[j].arg
            /\ \/ \E k \in i + d .. j + d - 2 : s[k].type \in {"OutputChunk", "HistoryGap"}
               \/ t[j].arg = t[i].arg + 1
        BY <2>1, <3>1, <4>1, <4>2
      <4>4. j \in m + 2 .. l + 1
        BY <4>1, <1>3
      <4>5. \A k \in i + d .. j + d - 2 :
              k + 1 - d \in i + 1 .. j - 1 /\ t[k + 1 - d] = s[k]
        BY <1>8, <4>1, <4>4
      <4> QED BY <4>3, <4>5
    <3> QED BY <1>3, <1>7, <2>1, <3>2, <3>3, <3>4
  <2> QED BY <1>2, <2>1 DEF Ordered
<1>10. UpTo(t, latest)
  <2>1. ASSUME NEW i \in 1 .. l, t[i].type = "OutputChunk"
        PROVE  /\ t[i].arg \in 0 .. latest
               /\ \/ \E k \in i + 1 .. l : t[k].type \in {"OutputChunk", "HistoryGap"}
                  \/ t[i].arg = latest
    <3>1. \A x \in 1 .. n : s[x].type = "OutputChunk" =>
              /\ s[x].arg \in 0 .. latest
              /\ \/ \E k \in x + 1 .. n : s[k].type \in {"OutputChunk", "HistoryGap"}
                 \/ s[x].arg = latest
      BY <1>1 DEF OutputTold, UpTo
    <3>2. CASE i <= m
      <4>1. i \in 1 .. n /\ i \in 1 .. m /\ m + 1 \in i + 1 .. l
        BY <1>3, <3>2
      <4>2. t[i].arg \in 0 .. latest
        BY <1>4, <2>1, <3>1, <4>1
      <4> QED BY <1>5, <4>1, <4>2
    <3>3. CASE i > m + 1
      <4>1. /\ i - 1 + d \in 1 .. n /\ i \in m + 2 .. l /\ (i - 1 + d) + 1 = i + d
            /\ l + 1 \in m + 2 .. l + 1 /\ (l + 1) + d - 2 = n /\ (l + 1) - 1 = l
        BY <1>3, <3>3
      <4>2. t[i] = s[i - 1 + d]
        BY <1>6, <4>1
      <4>3. /\ t[i].arg \in 0 .. latest
            /\ \/ \E k \in i + d .. n : s[k].type \in {"OutputChunk", "HistoryGap"}
               \/ t[i].arg = latest
        BY <2>1, <3>1, <4>1, <4>2
      <4>4. \A k \in i + d .. n : k + 1 - d \in i + 1 .. l /\ t[k + 1 - d] = s[k]
        BY <1>8, <4>1
      <4> QED BY <4>3, <4>4
    <3> QED BY <1>3, <1>7, <2>1, <3>2, <3>3
  <2> QED BY <1>2, <2>1 DEF UpTo
<1>11. ASSUME Resumes(s, after, latest)
       PROVE  Resumes(t, after, latest)
  <2>1. ASSUME NEW j \in 1 .. l, t[j].type = "OutputChunk"
        PROVE  \/ \E k \in 1 .. j - 1 : t[k].type \in {"OutputChunk", "HistoryGap"}
               \/ t[j].arg = after + 1
    <3>1. CASE j <= m
      <4>1. j \in 1 .. n /\ j \in 1 .. m /\ 1 .. j - 1 \in SUBSET (1 .. m)
        BY <1>3, <3>1
      <4>2. t[j] = s[j] /\ \A k \in 1 .. j - 1 : t[k] = s[k]
        BY <1>4, <4>1
      <4>3. \/ \E k \in 1 .. j - 1 : s[k].type \in {"OutputChunk", "HistoryGap"}
            \/ s[j].arg = after + 1
        BY <1>1, <1>11, <2>1, <4>1, <4>2 DEF Resumes
      <4> QED BY <4>2, <4>3
    <3>2. CASE j > m + 1
      <4>1. m + 1 \in 1 .. j - 1
        BY <1>3, <3>2
      <4> QED BY <1>5, <4>1
    <3> QED BY <1>3, <1>7, <2>1, <3>1, <3>2
  <2> QED BY <1>2, <1>5, <2>1 DEF Resumes
<1>12. ~NoGap(t)
  BY <1>2, <1>5 DEF NoGap
<1> QED BY <1>9, <1>10, <1>11, <1>12 DEF OutputTold

\* A replay: the chunks up to the latest, from the one after the sequence
\* asked for on, or behind a gap when that one is no longer retained.
Replays(replay, g, m, latest, after) ==
    /\ Len(replay) = g + m
    /\ g = 1 => replay[1].type = "HistoryGap"
    /\ \A i \in 1 .. m : replay[g + i] = Event("OutputChunk", latest - m + i)
    /\ after # NoSeq /\ after <= latest /\ g = 0 => m = latest - after

\* How many of the first positions there can be.
LEMMA CountIn ==
    ASSUME NEW n \in Nat, NEW D \in SUBSET (1 .. n)
    PROVE  Cardinality(D) \in 0 .. n
<1>1. IsFiniteSet(1 .. n) /\ Cardinality(1 .. n) = n
  BY FS_Interval
<1>2. IsFiniteSet(D) /\ Cardinality(D) <= n
  BY <1>1, FS_Subset
<1> QED BY <1>2, FS_CardinalityType

\* The records that are not wanted are the first ones of the buffer.
LEMMA UnwantedFirst ==
    ASSUME NEW buffer \in Seq(OutputRecord), NEW latest \in Nat,
           Consecutive(buffer, latest), NEW after \in {NoSeq} \cup Nat,
           NEW D, D = {i \in DOMAIN buffer : ~Wanted(buffer[i].seq, after)},
           NEW n \in Nat, n = Len(buffer)
    PROVE  /\ D \in SUBSET DOMAIN buffer
           /\ Cardinality(D) \in 0 .. n
           /\ \A i \in 1 .. n :
                  i <= Cardinality(D) <=> after # NoSeq /\ latest - n + i <= after
<1>1. DOMAIN buffer = 1 .. n
  OBVIOUS
<1>2. \A i \in 1 .. n : buffer[i].seq = latest - n + i
  BY DEF Consecutive
<1>3. D \in SUBSET (1 .. n)
  BY <1>1
<1>4. \A i \in 1 .. n : i \in D <=> (after # NoSeq /\ latest - n + i <= after)
  BY <1>1, <1>2 DEF Wanted
<1>5. \A i \in D : \A j \in 1 .. i : j \in D
  <2> SUFFICES ASSUME NEW i \in D, NEW j \in 1 .. i PROVE j \in D
    OBVIOUS
  <2>1. i \in 1 .. n /\ j \in 1 .. n
    BY <1>3
  <2>2. after # NoSeq /\ latest - n + i <= after
    BY <1>4, <2>1
  <2>3. latest - n + j <= after
    BY <2>1, <2>2
  <2> QED BY <1>4, <2>1, <2>2, <2>3
<1>6. D = 1 .. Cardinality(D)
  BY <1>3, <1>5, DownwardClosed
<1>7. Cardinality(D) \in 0 .. n
  BY <1>3, CountIn
<1>8. \A i \in 1 .. n : i \in D <=> i <= Cardinality(D)
  <2> PICK p : p = Cardinality(D)
    OBVIOUS
  <2> QED BY <1>6, <1>7
<1> QED BY <1>1, <1>3, <1>4, <1>7, <1>8

\* replay_events replays what is retained after the sequence asked for.
LEMMA ReplayShape ==
    ASSUME NEW buffer \in Seq(OutputRecord), NEW latest \in Nat,
           Len(buffer) = 0 => latest = 0, Consecutive(buffer, latest),
           NEW after \in {NoSeq} \cup Nat
    PROVE  \E g \in {0, 1}, m \in 0 .. latest + 1 :
               Replays(replay_events(buffer, after), g, m, latest, after)
<1>1. PICK n \in Nat : n = Len(buffer)
  BY LenProperties
<1>2. CASE buffer = <<>>
  <2>1. latest = 0 /\ replay_events(buffer, after) = <<>>
    BY <1>2 DEF replay_events
  <2>2. Len(replay_events(buffer, after)) = 0 + 0
    BY <2>1
  <2>3. after # NoSeq /\ after <= latest => 0 = latest - after
    BY <2>1
  <2>4. Replays(replay_events(buffer, after), 0, 0, latest, after)
    BY <2>2, <2>3 DEF Replays
  <2> QED BY <2>4
<1>3. CASE buffer # <<>>
  <2> DEFINE D == {i \in DOMAIN buffer : ~Wanted(buffer[i].seq, after)}
             kept == Without(buffer, D)
             gap == after # NoSeq /\ after + 1 < buffer[1].seq
             front == IF gap THEN <<Event("HistoryGap", buffer[1].seq)>> ELSE <<>>
             chunks == [i \in DOMAIN kept |-> OutputChunk(kept[i])]
             g == IF gap THEN 1 ELSE 0
  <2>1. n # 0 /\ 1 \in 1 .. n
    BY <1>1, <1>3, EmptySeq
  <2>2. \A i \in 1 .. n : buffer[i].seq = latest - n + i
    BY <1>1 DEF Consecutive
  <2>3. buffer[1].seq \in Nat /\ buffer[1].seq = latest - n + 1
    <3>1. buffer[1] \in OutputRecord
      BY <1>1, <2>1, ElementOfSeq
    <3> QED BY <2>1, <2>2, <3>1 DEF OutputRecord
  <2>4. PICK p : p = Cardinality(D)
    OBVIOUS
  <2>5. /\ D \in SUBSET DOMAIN buffer
        /\ p \in 0 .. n
        /\ \A i \in 1 .. n : i <= p <=> after # NoSeq /\ latest - n + i <= after
    BY <1>1, <2>4, UnwantedFirst
  <2>6. /\ kept \in Seq(OutputRecord)
        /\ Len(kept) = n - p
        /\ \A i \in 1 .. n - p : kept[i] = buffer[p + i]
    <3> HIDE DEF D
    <3> QED BY <1>1, <2>4, <2>5, WithoutSuffix
  <2>7. replay_events(buffer, after) = front \o chunks
    BY <1>3 DEF replay_events
  <2>8. gap <=> after # NoSeq /\ after + 1 < latest - n + 1
    BY <2>3
  <2>9. /\ front \in Seq(Events) /\ Len(front) = g
        /\ g = 1 => front[1].type = "HistoryGap"
    <3>1. Event("HistoryGap", buffer[1].seq) \in Events
      BY <2>3, EventTypes
    <3> QED BY <3>1 DEF Event
  <2> HIDE DEF gap, kept, D, front
  <2>10. PICK m \in 0 .. latest + 1 : m = n - p
    BY <2>1, <2>3, <2>5
  <2>11. after # NoSeq /\ after <= latest /\ g = 0 => m = latest - after
    <3> SUFFICES ASSUME after # NoSeq, after <= latest, ~gap
                 PROVE  m = latest - after
      OBVIOUS
    <3>1. after \in Nat /\ latest - n <= after
      BY <2>8
    <3>2. p + 1 \in 1 .. n => ~(latest - n + (p + 1) <= after)
      BY <2>5
    <3>3. p \in 1 .. n => latest - n + p <= after
      BY <2>5
    <3>4. p = 0 => latest - n = after
      BY <2>1, <3>1, <3>2
    <3>5. p \in 1 .. n => latest - n + p = after
      BY <3>1, <3>2, <3>3
    <3> QED BY <2>5, <2>10, <3>4, <3>5
  <2>12. chunks = [i \in 1 .. m |-> Event("OutputChunk", latest - m + i)]
    <3>1. DOMAIN kept = 1 .. m
      BY <2>6, <2>10, LenProperties
    <3>2. ASSUME NEW i \in 1 .. m PROVE kept[i].seq = latest - m + i
      <4>1. p + i \in 1 .. n /\ i \in 1 .. n - p /\ latest - n + (p + i) = latest - m + i
        BY <2>5, <2>10
      <4> QED BY <2>2, <2>6, <4>1
    <3> QED BY <3>1, <3>2 DEF OutputChunk
  <2> HIDE DEF chunks
  <2>13. /\ chunks \in Seq(Events) /\ Len(chunks) = m
         /\ \A i \in 1 .. m : chunks[i] = Event("OutputChunk", latest - m + i)
    <3>1. \A i \in 1 .. m : Event("OutputChunk", latest - m + i) \in Events
      BY EventTypes
    <3> QED BY <2>12, <3>1
  <2> HIDE DEF g
  <2>14. g \in {0, 1}
    BY DEF g
  <2>15. /\ Len(front \o chunks) = g + m
         /\ g = 1 => (front \o chunks)[1] = front[1]
         /\ \A i \in 1 .. m : (front \o chunks)[g + i] = chunks[i]
    BY <2>9, <2>13, <2>14, ConcatProperties
  <2>16. Replays(replay_events(buffer, after), g, m, latest, after)
    BY <2>7, <2>9, <2>11, <2>13, <2>15 DEF Replays
  <2> QED BY <2>14, <2>16
<1> QED BY <1>2, <1>3

\* What a stream that attaches tells first: the event of the attach, perhaps a
\* gap, m chunks up to the latest, and perhaps the exit.
Starts(s, n, g, m, latest) ==
    /\ Len(s) = n
    /\ n >= g + m + 1
    /\ g = 1 => s[2].type = "HistoryGap"
    /\ \A i \in g + 2 .. g + m + 1 :
           s[i].type = "OutputChunk" /\ s[i].arg = latest - m - g - 1 + i
    /\ \A i \in 1 .. n : i \notin g + 2 .. g + m + 1 =>
           s[i].type \notin {"OutputChunk", "ControlChanged", "PseudoTerminalResized"}

\* Attached, the replay and, if the process had exited, the exit.
LEMMA AttachStarts ==
    ASSUME NEW replay \in Seq(Events), NEW exited \in Seq(Events),
           exited = <<>> \/ exited = <<Event("SessionExited", 0)>>,
           NEW latest \in Nat, NEW after, NEW g \in {0, 1}, NEW m \in Nat,
           Replays(replay, g, m, latest, after)
    PROVE  \E n \in Nat :
               Starts(<<Event("Attached", 0)>> \o replay \o exited, n, g, m, latest)
<1>1. /\ Len(replay) = g + m
      /\ g = 1 => replay[1].type = "HistoryGap"
      /\ \A i \in 1 .. m : replay[g + i] = Event("OutputChunk", latest - m + i)
  BY DEF Replays
<1>2. PICK one : one = <<Event("Attached", 0)>>
  OBVIOUS
<1>3. one \in Seq(Events) /\ Len(one) = 1 /\ one[1].type = "Attached"
  BY <1>2, EventTypes DEF Event
<1>4. PICK two : two = one \o replay
  OBVIOUS
<1>5. /\ two \in Seq(Events) /\ Len(two) = 1 + g + m
      /\ two[1] = one[1]
      /\ \A i \in 1 .. g + m : two[i + 1] = replay[i]
  <2>1. /\ two \in Seq(Events) /\ Len(two) = 1 + (g + m)
        /\ \A i \in 1 .. 1 + (g + m) :
              two[i] = IF i <= 1 THEN one[i] ELSE replay[i - 1]
    <3>1. /\ two \in Seq(Events) /\ Len(two) = Len(one) + Len(replay)
          /\ \A i \in 1 .. Len(one) + Len(replay) :
                two[i] = IF i <= Len(one) THEN one[i] ELSE replay[i - Len(one)]
      BY <1>3, <1>4, ConcatProperties
    <3> QED BY <1>1, <1>3, <3>1
  <2>2. \A i \in 1 .. g + m : i + 1 \in 1 .. 1 + (g + m) /\ ~(i + 1 <= 1) /\ (i + 1) - 1 = i
    OBVIOUS
  <2>3. 1 \in 1 .. 1 + (g + m) /\ 1 <= 1
    OBVIOUS
  <2> QED BY <2>1, <2>2, <2>3
<1>6. PICK x \in {0, 1} : Len(exited) = x /\ (x = 1 => exited[1].type = "SessionExited")
  BY DEF Event
<1>7. PICK s : s = two \o exited
  OBVIOUS
<1>8. PICK n \in Nat : n = 1 + g + m + x
  OBVIOUS
<1>9. /\ Len(s) = n
      /\ \A i \in 1 .. 1 + g + m : s[i] = two[i]
      /\ x = 1 => s[n] = exited[1]
  <2>1. /\ Len(s) = (1 + g + m) + x
        /\ \A i \in 1 .. (1 + g + m) + x :
              s[i] = IF i <= 1 + g + m THEN two[i] ELSE exited[i - (1 + g + m)]
    BY <1>5, <1>6, <1>7, ConcatProperties
  <2>2. n = (1 + g + m) + x
    BY <1>8
  <2>3. x = 1 => n \in 1 .. n /\ ~(n <= 1 + g + m) /\ n - (1 + g + m) = 1
    BY <1>8
  <2>4. \A i \in 1 .. 1 + g + m : i \in 1 .. n /\ i <= 1 + g + m
    BY <1>8
  <2> QED BY <2>1, <2>2, <2>3, <2>4
<1>10. g = 1 => s[2].type = "HistoryGap"
  <2>1. g = 1 => 2 \in 1 .. 1 + g + m /\ 1 \in 1 .. g + m /\ 1 + 1 = 2
    OBVIOUS
  <2> QED BY <1>1, <1>5, <1>9, <2>1
<1>11. ASSUME NEW i \in g + 2 .. g + m + 1
       PROVE  s[i].type = "OutputChunk" /\ s[i].arg = latest - m - g - 1 + i
  <2>1. /\ i \in 1 .. 1 + g + m /\ i - 1 \in 1 .. g + m /\ i - 1 - g \in 1 .. m
        /\ (i - 1) + 1 = i /\ g + (i - 1 - g) = i - 1
        /\ latest - m + (i - 1 - g) = latest - m - g - 1 + i
    OBVIOUS
  <2>2. s[i] = two[i] /\ two[i] = replay[i - 1]
    BY <1>5, <1>9, <2>1
  <2>3. replay[i - 1] = Event("OutputChunk", latest - m + (i - 1 - g))
    BY <1>1, <2>1
  <2>4. s[i] = Event("OutputChunk", latest - m - g - 1 + i)
    BY <2>1, <2>2, <2>3
  <2> QED BY <2>4 DEF Event
<1>12. ASSUME NEW i \in 1 .. n, i \notin g + 2 .. g + m + 1
       PROVE  s[i].type \notin {"OutputChunk", "ControlChanged", "PseudoTerminalResized"}
  <2>1. i = 1 \/ (g = 1 /\ i = 2) \/ (x = 1 /\ i = n)
    BY <1>8, <1>12
  <2>2. CASE i = 1
    <3>1. 1 \in 1 .. 1 + g + m
      OBVIOUS
    <3>2. s[1].type = "Attached"
      BY <1>3, <1>5, <1>9, <3>1
    <3> QED BY <2>2, <3>2
  <2>3. CASE g = 1 /\ i = 2
    BY <1>10, <2>3
  <2>4. CASE x = 1 /\ i = n
    BY <1>6, <1>9, <2>4
  <2> QED BY <2>1, <2>2, <2>3, <2>4
<1>13. n >= g + m + 1
  BY <1>8
<1>14. Starts(s, n, g, m, latest)
  BY <1>9, <1>10, <1>11, <1>12, <1>13 DEF Starts
<1> QED BY <1>2, <1>4, <1>7, <1>14

\* A stream that attaches tells of the output up to the latest, and of the
\* control and the size that Attached carries.
LEMMA AttachedTold ==
    ASSUME NEW latest \in Nat, NEW after \in {NoSeq} \cup Nat,
           NEW g \in {0, 1}, NEW m \in 0 .. latest + 1,
           after # NoSeq /\ after <= latest /\ g = 0 => m = latest - after,
           NEW info, NEW s, NEW n \in Nat, Starts(s, n, g, m, latest)
    PROVE  /\ OutputTold(s, after, latest, latest)
           /\ ControlTold(s, info, info.primary, info.size)
<1>1. Len(s) = n /\ n >= g + m + 1
  BY DEF Starts
<1>2. \A i \in g + 2 .. g + m + 1 :
         s[i].type = "OutputChunk" /\ s[i].arg = latest - m - g - 1 + i
  BY DEF Starts
<1>3. g = 1 => 2 \in 1 .. n /\ s[2].type = "HistoryGap"
  <2>1. g = 1 => 2 \in 1 .. n
    BY <1>1
  <2> QED BY <2>1 DEF Starts
<1>4. \A i \in 1 .. n : s[i].type = "OutputChunk" => i \in g + 2 .. g + m + 1
  BY DEF Starts
<1>5. \A i \in 1 .. n : s[i].type \notin {"ControlChanged", "PseudoTerminalResized"}
  BY <1>2 DEF Starts
<1>6. Ordered(s)
  <2>1. ASSUME NEW i \in 1 .. n, NEW j \in 1 .. n, i < j,
               s[i].type = "OutputChunk", s[j].type = "OutputChunk"
        PROVE  /\ s[i].arg < s[j].arg
               /\ \/ \E k \in i + 1 .. j - 1 : s[k].type \in {"OutputChunk", "HistoryGap"}
                  \/ s[j].arg = s[i].arg + 1
    <3>1. i \in g + 2 .. g + m + 1 /\ j \in g + 2 .. g + m + 1
      BY <1>4, <2>1
    <3>2. s[i].arg = latest - m - g - 1 + i /\ s[j].arg = latest - m - g - 1 + j
      BY <1>2, <3>1
    <3>3. j = i + 1 \/ (i + 1 \in i + 1 .. j - 1 /\ i + 1 \in g + 2 .. g + m + 1)
      BY <2>1, <3>1
    <3> QED BY <1>2, <2>1, <3>2, <3>3
  <2> QED BY <1>1, <2>1 DEF Ordered
<1>7. UpTo(s, latest)
  <2>1. ASSUME NEW i \in 1 .. n, s[i].type = "OutputChunk"
        PROVE  /\ s[i].arg \in 0 .. latest
               /\ \/ \E k \in i + 1 .. n : s[k].type \in {"OutputChunk", "HistoryGap"}
                  \/ s[i].arg = latest
    <3>1. i \in g + 2 .. g + m + 1
      BY <1>4, <2>1
    <3>2. s[i].arg = latest - m - g - 1 + i
      BY <1>2, <3>1
    <3>3. i = g + m + 1 \/ (i + 1 \in i + 1 .. n /\ i + 1 \in g + 2 .. g + m + 1)
      BY <1>1, <3>1
    <3> QED BY <1>2, <3>1, <3>2, <3>3
  <2> QED BY <1>1, <2>1 DEF UpTo
<1>8. ASSUME after # NoSeq, after <= latest
       PROVE  Resumes(s, after, latest)
  <2>1. g = 0 => m = latest - after
    BY <1>8
  <2>2. ASSUME NEW j \in 1 .. n, s[j].type = "OutputChunk"
        PROVE  \/ \E k \in 1 .. j - 1 : s[k].type \in {"OutputChunk", "HistoryGap"}
               \/ s[j].arg = after + 1
    <3>1. j \in g + 2 .. g + m + 1
      BY <1>4, <2>2
    <3>2. s[j].arg = latest - m - g - 1 + j
      BY <1>2, <3>1
    <3>3. CASE g = 1
      <4>1. 2 \in 1 .. j - 1
        BY <3>1, <3>3
      <4> QED BY <1>3, <3>3, <4>1
    <3>4. CASE g = 0
      <4>1. j = 2 \/ (2 \in 1 .. j - 1 /\ 2 \in g + 2 .. g + m + 1)
        BY <3>1, <3>4
      <4>2. after \in Nat
        BY <1>8
      <4>3. CASE j = 2
        BY <2>1, <3>2, <3>4, <4>2, <4>3
      <4> QED BY <1>2, <4>1, <4>3
    <3> QED BY <3>3, <3>4
  <2>3. \/ \E k \in 1 .. n : s[k].type \in {"OutputChunk", "HistoryGap"}
        \/ latest = after
    <3>1. CASE g = 1
      BY <1>3, <3>1
    <3>2. CASE g = 0 /\ m = 0
      <4>1. after \in Nat
        BY <1>8
      <4> QED BY <2>1, <3>2, <4>1
    <3>3. CASE g = 0 /\ m # 0
      <4>1. 2 \in 1 .. n /\ 2 \in g + 2 .. g + m + 1
        BY <1>1, <3>3
      <4> QED BY <1>2, <4>1
    <3> QED BY <3>1, <3>2, <3>3
  <2> QED BY <1>1, <2>2, <2>3 DEF Resumes
<1>9. Shows(s, "OutputChunk", latest, latest)
  <2>1. CASE m = 0
    <3>1. \A i \in 1 .. n : s[i].type # "OutputChunk"
      BY <1>4, <2>1
    <3> QED BY <1>1, <3>1 DEF Shows
  <2>2. CASE m # 0
    <3>1. g + m + 1 \in 1 .. n /\ g + m + 1 \in g + 2 .. g + m + 1
      BY <1>1, <2>2
    <3>2. s[g + m + 1].type = "OutputChunk" /\ s[g + m + 1].arg = latest
      BY <1>2, <3>1
    <3>3. \A j \in g + m + 2 .. n : s[j].type # "OutputChunk"
      BY <1>1, <1>4
    <3>4. (g + m + 1) + 1 = g + m + 2
      OBVIOUS
    <3> QED BY <1>1, <3>1, <3>2, <3>3, <3>4 DEF Shows
  <2> QED BY <2>1, <2>2
<1>10. ControlTold(s, info, info.primary, info.size)
  BY <1>1, <1>5 DEF ControlTold, Shows
<1> QED BY <1>6, <1>7, <1>8, <1>9, <1>10 DEF OutputTold

-----------------------------------------------------------------------------
(* What the streams tell their clients *)

\* What the client of a stream is told once all that was sent is received and
\* all that was received is written.
Told(a) == sent[a] \o outbox[a]
           \o SubSeq(output_tx, position[a] + 1, Len(output_tx))

\* Streams that are not attached yet have written nothing, a live one has
\* written its replay, and none is ahead of the channel.
StreamsInv ==
    /\ \A a \in Attach : a >= next_attach_id => phase[a] = "none"
    /\ \A a \in Attach : phase[a] = "none" => sent[a] = <<>>
    /\ \A a \in Attach : phase[a] = "live" => outbox[a] = <<>>
    /\ \A a \in Attach : position[a] <= Len(output_tx)

\* All that a stream tells leads to what the session is now.
TellsAll(a) ==
    /\ OutputTold(Told(a), request[a], snapshot[a].latest, latest_output_seq)
    /\ ~ResizeMayFail =>
           ControlTold(Told(a), snapshot[a], primary_attach_id, size)

ToldInv ==
    /\ StreamsInv
    /\ \A a \in Attach : phase[a] # "none" => TellsAll(a)

\* What is told is a sequence of events: first what was written and is to be
\* written, then what is to be received.
LEMMA ToldType ==
    ASSUME TypeOK, StreamsInv, NEW a \in Attach
    PROVE  /\ Told(a) \in Seq(Events)
           /\ sent[a] \in Seq(Events) /\ outbox[a] \in Seq(Events)
           /\ position[a] \in 0 .. Len(output_tx)
           /\ LET rest == SubSeq(output_tx, position[a] + 1, Len(output_tx))
              IN  /\ rest \in Seq(Events)
                  /\ Len(rest) = Len(output_tx) - position[a]
                  /\ \A i \in 1 .. Len(rest) : rest[i] = output_tx[position[a] + i]
<1> DEFINE rest == SubSeq(output_tx, position[a] + 1, Len(output_tx))
<1>1. /\ sent[a] \in Seq(Events) /\ outbox[a] \in Seq(Events)
      /\ output_tx \in Seq(Events) /\ Len(output_tx) \in Nat
      /\ position[a] \in 0 .. Len(output_tx)
  BY DEF TypeOK, StreamsInv
<1>2. /\ rest \in Seq(Events)
      /\ Len(rest) = Len(output_tx) - position[a]
      /\ \A i \in 1 .. Len(rest) : rest[i] = output_tx[position[a] + i]
  <2>1. \A i \in position[a] + 1 .. Len(output_tx) : output_tx[i] \in Events
    BY <1>1, ElementOfSeq
  <2>2. /\ rest \in Seq(Events)
        /\ Len(rest) = IF position[a] + 1 <= Len(output_tx)
                       THEN Len(output_tx) - (position[a] + 1) + 1 ELSE 0
        /\ \A i \in 1 .. Len(output_tx) - (position[a] + 1) + 1 :
               rest[i] = output_tx[(position[a] + 1) + i - 1]
    BY <1>1, <2>1, SubSeqProperties
  <2> HIDE DEF rest
  <2>3. Len(rest) = Len(output_tx) - position[a]
    BY <1>1, <2>2
  <2>4. \A i \in 1 .. Len(rest) : rest[i] = output_tx[position[a] + i]
    <3> SUFFICES ASSUME NEW i \in 1 .. Len(rest)
                 PROVE  rest[i] = output_tx[position[a] + i]
      OBVIOUS
    <3>1. /\ i \in 1 .. Len(output_tx) - (position[a] + 1) + 1
          /\ (position[a] + 1) + i - 1 = position[a] + i
      BY <1>1, <2>3
    <3> QED BY <2>2, <3>1
  <2> QED BY <2>2, <2>3, <2>4
<1>3. Told(a) \in Seq(Events)
  <2> HIDE DEF rest
  <2>1. sent[a] \o outbox[a] \in Seq(Events)
    BY <1>1, ConcatProperties
  <2>2. (sent[a] \o outbox[a]) \o rest \in Seq(Events)
    BY <1>2, <2>1, ConcatProperties
  <2> QED BY <2>2 DEF Told, rest
<1> QED BY <1>1, <1>2, <1>3

\* Where a sequence is extended, so is what follows one of its positions.
LEMMA TailOfConcat ==
    ASSUME NEW s \in Seq(Events), NEW v \in Seq(Events), NEW p \in 0 .. Len(s)
    PROVE  SubSeq(s \o v, p + 1, Len(s \o v)) = SubSeq(s, p + 1, Len(s)) \o v
<1>1. PICK n \in Nat : n = Len(s)
  OBVIOUS
<1>2. PICK m \in Nat : m = Len(v)
  OBVIOUS
<1>3. PICK t \in Seq(Events) : t = s \o v
  BY ConcatProperties
<1>4. Len(t) = n + m
  BY <1>1, <1>2, <1>3, ConcatProperties
<1>5. SubSeq(t, p + 1, n + m) = SubSeq(t, p + 1, n) \o SubSeq(t, n + 1, n + m)
  <2>1. /\ p + 1 \in 1 .. Len(t) + 1 /\ n \in (p + 1) - 1 .. Len(t)
        /\ n + m \in n .. Len(t)
    BY <1>1, <1>4
  <2> QED BY <2>1, ConcatAdjacentSubSeq
<1>6. SubSeq(t, p + 1, n) = SubSeq(s, p + 1, n)
  <2>1. CASE p + 1 \in 1 .. n
    <3>1. p + 1 \in 1 .. Len(s) /\ n \in 1 .. Len(s)
      BY <1>1, <2>1
    <3> QED BY <1>3, <3>1, SubSeqOfConcat1
  <2>2. CASE n < p + 1
    <3>1. p + 1 \in Int /\ n \in Int
      OBVIOUS
    <3> QED BY <2>2, <3>1, SubSeqEmpty
  <2> QED BY <1>1, <2>1, <2>2
<1>7. SubSeq(t, n + 1, n + m) = v
  <2>1. CASE m # 0
    <3>1. n + 1 \in Len(s) + 1 .. Len(s) + Len(v) /\ n + m \in Len(s) + 1 .. Len(s) + Len(v)
      BY <1>1, <1>2, <2>1
    <3>2. SubSeq(t, n + 1, n + m) = SubSeq(v, (n + 1) - Len(s), (n + m) - Len(s))
      BY <1>3, <3>1, SubSeqOfConcat2
    <3>3. (n + 1) - Len(s) = 1 /\ (n + m) - Len(s) = Len(v)
      BY <1>1, <1>2
    <3> QED BY <3>2, <3>3, SubSeqFull
  <2>2. CASE m = 0
    <3>1. v = <<>>
      BY <1>2, <2>2, EmptySeq
    <3>2. n + 1 \in Int /\ n + m \in Int /\ n + m < n + 1
      BY <2>2
    <3> QED BY <3>1, <3>2, SubSeqEmpty
  <2> QED BY <2>1, <2>2
<1> QED BY <1>1, <1>3, <1>4, <1>5, <1>6, <1>7

\* Concatenation of events is associative.
LEMMA Associative ==
    ASSUME NEW s \in Seq(Events), NEW t \in Seq(Events), NEW v \in Seq(Events)
    PROVE  (s \o t) \o v = s \o (t \o v)
BY ConcatAssociative

\* What is sent is told of in the end, after all the rest.
LEMMA SentIsTold ==
    ASSUME TypeOK, StreamsInv, NEW a \in Attach, NEW events \in Seq(Events),
           output_tx' = output_tx \o events, UNCHANGED <<sent, outbox, position>>
    PROVE  Told(a)' = Told(a) \o events
<1> PICK u : u = sent[a] \o outbox[a]
  OBVIOUS
<1> PICK r : r = SubSeq(output_tx, position[a] + 1, Len(output_tx))
  OBVIOUS
<1>1. /\ output_tx \in Seq(Events) /\ position[a] \in 0 .. Len(output_tx)
      /\ u \in Seq(Events) /\ r \in Seq(Events)
  BY ToldType, ConcatProperties DEF TypeOK
<1>2. Told(a) = u \o r
  BY DEF Told
<1>3. Told(a)' = u \o SubSeq(output_tx', position[a] + 1, Len(output_tx'))
  BY DEF Told
<1>4. SubSeq(output_tx', position[a] + 1, Len(output_tx')) = r \o events
  BY <1>1, TailOfConcat
<1>5. (u \o r) \o events = u \o (r \o events)
  BY <1>1, Associative
<1> QED BY <1>2, <1>3, <1>4, <1>5

\* A step after which the streams are where they were, and the session says
\* the same of its output and its control.
LEMMA ToldUntouched ==
    ASSUME TypeOK, ToldInv, next_attach_id' \in Nat,
           next_attach_id' >= next_attach_id,
           UNCHANGED <<output_tx, latest_output_seq, primary_attach_id, size,
                       request, snapshot, outbox, position, sent>>,
           \A a \in Attach : /\ phase'[a] = "none" <=> phase[a] = "none"
                             /\ phase'[a] = "live" => phase[a] = "live"
    PROVE  ToldInv'
<1>1. \A a \in Attach : a >= next_attach_id' => a >= next_attach_id
  BY DEF Attach, TypeOK
<1>2. StreamsInv'
  BY <1>1 DEF ToldInv, StreamsInv
<1>3. \A a \in Attach : TellsAll(a) => TellsAll(a)'
  BY DEF TellsAll, Told
<1> QED BY <1>2, <1>3 DEF ToldInv

\* Streams stay where they are when events are sent.
LEMMA StreamsSent ==
    ASSUME TypeOK, ToldInv, NEW events \in Seq(Events),
           output_tx' = output_tx \o events,
           UNCHANGED <<next_attach_id, phase, request, snapshot, outbox,
                       position, sent>>
    PROVE  /\ StreamsInv'
           /\ \A a \in Attach : Told(a) \in Seq(Events) /\ Told(a)' = Told(a) \o events
<1>1. output_tx \in Seq(Events) /\ Len(output_tx) \in Nat /\ Len(events) \in Nat
  BY LenProperties DEF TypeOK
<1>2. Len(output_tx') = Len(output_tx) + Len(events)
  BY <1>1, ConcatProperties
<1>3. \A a \in Attach : position[a] \in Nat
  BY DEF TypeOK
<1>4. \A a \in Attach : position[a] <= Len(output_tx')
  BY <1>1, <1>2, <1>3 DEF ToldInv, StreamsInv
<1>5. StreamsInv'
  BY <1>4 DEF ToldInv, StreamsInv
<1> QED BY <1>5, ToldType, SentIsTold DEF ToldInv

\* The end of the process or of the session: an event that tells nothing of
\* output or control.
LEMMA ToldEnd ==
    ASSUME TypeOK, ToldInv, NEW e \in Events,
           e.type \in {"SessionExited", "SessionClosed"}, Send(<<e>>),
           UNCHANGED <<next_attach_id, phase, request, snapshot, outbox, position,
                       sent, latest_output_seq, primary_attach_id, size>>
    PROVE  ToldInv'
<1>1. <<e>> \in Seq(Events) /\ output_tx' = output_tx \o <<e>>
  BY DEF Send
<1>2. ASSUME NEW a \in Attach, TellsAll(a) PROVE TellsAll(a)'
  <2>1. Told(a) \in Seq(Events) /\ Told(a)' = Append(Told(a), e)
    BY <1>1, StreamsSent, AppendIsConcat
  <2> PICK s \in Seq(Events) : s = Told(a) /\ Told(a)' = Append(s, e)
    BY <2>1
  <2>2. /\ request[a] \in {NoSeq} \cup Nat /\ snapshot[a].latest \in Nat
        /\ latest_output_seq \in Nat
    BY DEF TypeOK, Info
  <2>3. OutputTold(Append(s, e), request[a], snapshot[a].latest, latest_output_seq)
    BY <1>2, <2>2, OutputAppend DEF TellsAll
  <2>4. ~ResizeMayFail =>
            ControlTold(Append(s, e), snapshot[a], primary_attach_id, size)
    BY <1>2, ControlAppend DEF TellsAll
  <2> QED BY <2>3, <2>4 DEF TellsAll
<1> QED BY <1>1, <1>2, StreamsSent DEF ToldInv

\* A chunk of output, and perhaps the title it set.
LEMMA ToldChunk ==
    ASSUME TypeOK, ToldInv, NEW length \in Chunk,
           NEW title \in Title \cup {NoTitle}, record_output(length, title)
    PROVE  ToldInv'
<1>1. PICK seq \in Nat : seq = latest_output_seq + 1
  BY DEF TypeOK
<1>2. PICK metadata : metadata = IF title = NoTitle THEN <<>>
                                 ELSE <<Event("TitleChanged", title)>>
  OBVIOUS
<1>3. PICK c : c = Event("OutputChunk", seq)
  OBVIOUS
<1>4. /\ latest_output_seq' = seq
      /\ output_tx' = output_tx \o (<<c>> \o metadata)
      /\ UNCHANGED <<next_attach_id, phase, request, snapshot, outbox, position,
                     sent, primary_attach_id, size>>
  BY <1>1, <1>2, <1>3 DEF record_output, OutputChunk, Send, streams
<1>5. c \in Events /\ c.type = "OutputChunk" /\ c.arg = latest_output_seq + 1
  <2>1. c \in Events
    <3>1. seq \in Int
      OBVIOUS
    <3> QED BY <1>3, <3>1, EventTypes
  <2> QED BY <1>1, <1>3, <2>1 DEF Event
<1>6. metadata = <<>> \/ \E e \in Events : e.type = "TitleChanged" /\ metadata = <<e>>
  BY <1>2, EventTypes DEF Event
<1>7. <<c>> \in Seq(Events) /\ metadata \in Seq(Events)
  <2>1. <<>> \in Seq(Events) /\ \A e \in Events : <<e>> \in Seq(Events)
    OBVIOUS
  <2> QED BY <1>5, <1>6, <2>1
<1>8. <<c>> \o metadata \in Seq(Events)
  BY <1>7, ConcatProperties
<1>9. ASSUME NEW a \in Attach, TellsAll(a) PROVE TellsAll(a)'
  <2>1. Told(a) \in Seq(Events) /\ Told(a)' = Told(a) \o (<<c>> \o metadata)
    BY <1>4, <1>8, StreamsSent
  <2> PICK s \in Seq(Events) : s = Told(a) /\ Told(a)' = s \o (<<c>> \o metadata)
    BY <2>1
  <2>2. /\ request[a] \in {NoSeq} \cup Nat /\ snapshot[a].latest \in Nat
        /\ latest_output_seq \in Nat
    BY DEF TypeOK, Info
  <2>3. Append(s, c) \in Seq(Events) /\ Told(a)' = Append(s, c) \o metadata
    <3>1. s \o (<<c>> \o metadata) = (s \o <<c>>) \o metadata
      BY <1>7, Associative
    <3>2. Append(s, c) \in Seq(Events) /\ Append(s, c) = s \o <<c>>
      BY <1>5, AppendProperties, AppendIsConcat
    <3> QED BY <3>1, <3>2
  <2> PICK t \in Seq(Events) : t = Append(s, c) /\ Told(a)' = t \o metadata
    BY <2>3
  <2>4. OutputTold(t, request[a], snapshot[a].latest, seq)
    BY <1>1, <1>5, <1>9, <2>2, OutputAppend DEF TellsAll
  <2>5. ~ResizeMayFail => ControlTold(t, snapshot[a], primary_attach_id, size)
    BY <1>5, <1>9, ControlAppend DEF TellsAll
  <2>6. /\ OutputTold(t \o metadata, request[a], snapshot[a].latest, seq)
        /\ ~ResizeMayFail =>
               ControlTold(t \o metadata, snapshot[a], primary_attach_id, size)
    <3>1. CASE metadata = <<>>
      BY <2>4, <2>5, <3>1, ConcatEmptySeq
    <3>2. ASSUME NEW e \in Events, e.type = "TitleChanged", metadata = <<e>>
          PROVE  /\ OutputTold(t \o metadata, request[a], snapshot[a].latest, seq)
                 /\ ~ResizeMayFail =>
                        ControlTold(t \o metadata, snapshot[a], primary_attach_id, size)
      <4>1. t \o metadata = Append(t, e)
        BY <3>2, AppendIsConcat
      <4>2. OutputTold(Append(t, e), request[a], snapshot[a].latest, seq)
        BY <2>2, <2>4, <3>2, OutputAppend
      <4>3. ~ResizeMayFail =>
                ControlTold(Append(t, e), snapshot[a], primary_attach_id, size)
        BY <2>5, <3>2, ControlAppend
      <4> QED BY <4>1, <4>2, <4>3
    <3> QED BY <1>6, <3>1, <3>2
  <2> QED BY <1>4, <2>6 DEF TellsAll
<1> QED BY <1>4, <1>8, <1>9, StreamsSent DEF ToldInv

\* The events of a take tell of what it changes.
LEMMA ControlEventsTold ==
    ASSUME NEW s \in Seq(Events), NEW info, NEW a \in Attach, NEW viewport \in Size,
           NEW primary, primary = primary_attach_id,
           ControlTold(s, info, primary, size)
    PROVE  /\ ControlEvents(a, viewport) \in Seq(Events)
           /\ ControlTold(s \o ControlEvents(a, viewport), info, a, viewport)
<1>1. PICK c \in Events : c = Event("ControlChanged", a)
  BY EventTypes DEF Attach
<1>2. PICK r \in Events : r = Event("PseudoTerminalResized", viewport)
  BY EventTypes
<1>3. c.type = "ControlChanged" /\ c.arg = a
  BY <1>1 DEF Event
<1>4. r.type = "PseudoTerminalResized" /\ r.arg = viewport
  BY <1>2 DEF Event
<1>5. PICK front : front = IF primary_attach_id # a THEN <<c>> ELSE <<>>
  OBVIOUS
<1>6. PICK back : back = IF size # viewport THEN <<r>> ELSE <<>>
  OBVIOUS
<1>7. ControlEvents(a, viewport) = front \o back
  BY <1>1, <1>2, <1>5, <1>6 DEF ControlEvents
<1>8. front \in Seq(Events) /\ back \in Seq(Events)
  BY <1>5, <1>6
<1>9. front \o back \in Seq(Events)
  BY <1>8, ConcatProperties
<1>10. s \o front \in Seq(Events) /\ ControlTold(s \o front, info, a, size)
  <2>1. CASE primary_attach_id # a
    <3>1. s \o front = Append(s, c) /\ Append(s, c) \in Seq(Events)
      BY <1>5, <2>1, AppendIsConcat, AppendProperties
    <3>2. ControlTold(Append(s, c), info, a, size)
      BY <1>3, ControlAppend
    <3> QED BY <3>1, <3>2
  <2>2. CASE primary_attach_id = a
    <3>1. s \o front = s
      BY <1>5, <2>2, ConcatEmptySeq
    <3> QED BY <2>2, <3>1
  <2> QED BY <2>1, <2>2
<1>11. PICK t \in Seq(Events) : t = s \o front /\ ControlTold(t, info, a, size)
  BY <1>10
<1>12. ControlTold(t \o back, info, a, viewport)
  <2>1. CASE size # viewport
    <3>1. t \o back = Append(t, r)
      BY <1>6, <2>1, AppendIsConcat
    <3>2. ControlTold(Append(t, r), info, a, viewport)
      BY <1>4, <1>11, ControlAppend
    <3> QED BY <3>1, <3>2
  <2>2. CASE size = viewport
    <3>1. t \o back = t
      BY <1>6, <2>2, ConcatEmptySeq
    <3> QED BY <1>11, <2>2, <3>1
  <2> QED BY <2>1, <2>2
<1>13. (s \o front) \o back = s \o (front \o back)
  BY <1>8, Associative
<1> QED BY <1>7, <1>9, <1>11, <1>12, <1>13

\* Events that tell nothing of the output.
LEMMA ControlEventsOutput ==
    ASSUME NEW s \in Seq(Events), NEW a \in Attach, NEW viewport \in Size,
           NEW after \in {NoSeq} \cup Nat, NEW first \in Nat, NEW latest \in Nat,
           OutputTold(s, after, first, latest)
    PROVE  OutputTold(s \o ControlEvents(a, viewport), after, first, latest)
<1>1. PICK c \in Events : c = Event("ControlChanged", a)
  BY EventTypes DEF Attach
<1>2. PICK r \in Events : r = Event("PseudoTerminalResized", viewport)
  BY EventTypes
<1>3. c.type # "OutputChunk" /\ r.type # "OutputChunk"
  BY <1>1, <1>2 DEF Event
<1>4. PICK front : front = IF primary_attach_id # a THEN <<c>> ELSE <<>>
  OBVIOUS
<1>5. PICK back : back = IF size # viewport THEN <<r>> ELSE <<>>
  OBVIOUS
<1>6. ControlEvents(a, viewport) = front \o back
  BY <1>1, <1>2, <1>4, <1>5 DEF ControlEvents
<1>7. front \in Seq(Events) /\ back \in Seq(Events)
  BY <1>4, <1>5
<1>8. ASSUME NEW t \in Seq(Events), NEW e \in Events, e.type # "OutputChunk",
             OutputTold(t, after, first, latest)
      PROVE  /\ t \o <<e>> \in Seq(Events)
             /\ OutputTold(t \o <<e>>, after, first, latest)
  <2>1. t \o <<e>> = Append(t, e) /\ Append(t, e) \in Seq(Events)
    BY AppendIsConcat, AppendProperties
  <2>2. OutputTold(Append(t, e), after, first, latest)
    BY <1>8, OutputAppend
  <2> QED BY <2>1, <2>2
<1>9. \A t \in Seq(Events) : t \o <<>> = t
  BY ConcatEmptySeq
<1>10. PICK t \in Seq(Events) : t = s \o front /\ OutputTold(t, after, first, latest)
  BY <1>3, <1>4, <1>8, <1>9
<1>11. OutputTold(t \o back, after, first, latest)
  BY <1>3, <1>5, <1>8, <1>9, <1>10
<1>12. (s \o front) \o back = s \o (front \o back)
  BY <1>7, Associative
<1> QED BY <1>6, <1>10, <1>11, <1>12

\* Taking control.
LEMMA ToldTake ==
    ASSUME TypeOK, ToldInv, NEW h \in Handler, take_control(h)
    PROVE  ToldInv'
<1>1. PICK a \in Attach : a = call[h].attach
  BY CallType DEF take_control, StoreControl
<1>2. PICK viewport \in Size : viewport = call[h].size
  BY CallType DEF take_control, StoreControl
<1>3. PICK events : events = ControlEvents(a, viewport)
  OBVIOUS
<1>4. events \in Seq(Events)
  <2>1. /\ Event("ControlChanged", a) \in Events
        /\ Event("PseudoTerminalResized", viewport) \in Events
    BY EventTypes DEF Attach
  <2> QED BY <1>3, <2>1 DEF ControlEvents
<1>5. /\ output_tx' = output_tx \o events
      /\ primary_attach_id' = a /\ size' = viewport
      /\ UNCHANGED <<next_attach_id, phase, request, snapshot, outbox, position,
                     sent, latest_output_seq>>
  BY <1>1, <1>2, <1>3 DEF take_control, StoreControl, Send, streams
<1>6. ASSUME NEW b \in Attach, TellsAll(b) PROVE TellsAll(b)'
  <2>1. PICK s \in Seq(Events) : s = Told(b) /\ Told(b)' = s \o events
    BY <1>4, <1>5, StreamsSent
  <2>2. /\ request[b] \in {NoSeq} \cup Nat /\ snapshot[b].latest \in Nat
        /\ latest_output_seq \in Nat
    BY DEF TypeOK, Info
  <2>3. OutputTold(s \o events, request[b], snapshot[b].latest, latest_output_seq)
    BY <1>3, <1>6, <2>1, <2>2, ControlEventsOutput DEF TellsAll
  <2>4. ~ResizeMayFail => ControlTold(s \o events, snapshot[b], a, viewport)
    BY <1>3, <1>6, <2>1, ControlEventsTold DEF TellsAll
  <2> QED BY <1>5, <2>1, <2>3, <2>4 DEF TellsAll
<1> QED BY <1>4, <1>5, <1>6, StreamsSent DEF ToldInv

\* A resize that fails: the stored control is told of to no one.
LEMMA ToldResizeFails ==
    ASSUME TypeOK, ToldInv, NEW h \in Handler, TakeControlResizeFails(h)
    PROVE  ToldInv'
<1>1. /\ ResizeMayFail
      /\ UNCHANGED <<next_attach_id, phase, request, snapshot, outbox, position,
                     sent, latest_output_seq, output_tx>>
  BY DEF TakeControlResizeFails, StoreControl, streams
<1> QED BY <1>1 DEF ToldInv, StreamsInv, TellsAll, Told

\* An attach: the stream tells of the session as it is.
LEMMA ToldAttach ==
    ASSUME TypeOK, BufferInv, ToldInv, NEW h \in Handler, attach(h)
    PROVE  ToldInv'
<1>1. PICK a \in Attach : a = next_attach_id
  BY DEF attach
<1>2. PICK after \in {NoSeq} \cup Nat : after = call[h].after
  BY CallType DEF attach
<1>3. PICK exited : exited = IF exit THEN <<Event("SessionExited", 0)>> ELSE <<>>
  OBVIOUS
<1>4. PICK replay : replay = replay_events(output_buffer, after)
  OBVIOUS
<1>5. PICK s : s = <<Event("Attached", 0)>> \o replay \o exited
  OBVIOUS
<1>6. /\ phase' = [phase EXCEPT ![a] = "writing"]
      /\ request' = [request EXCEPT ![a] = after]
      /\ snapshot' = [snapshot EXCEPT ![a] = CurrentInfo]
      /\ outbox' = [outbox EXCEPT ![a] = s]
      /\ position' = [position EXCEPT ![a] = Len(output_tx)]
      /\ next_attach_id' = a + 1
      /\ UNCHANGED <<size, primary_attach_id, latest_output_seq, output_tx, sent>>
  BY <1>1, <1>2, <1>3, <1>4, <1>5 DEF attach
<1>7. /\ exited \in Seq(Events)
      /\ exited = <<>> \/ exited = <<Event("SessionExited", 0)>>
  <2>1. <<>> \in Seq(Events) /\ <<Event("SessionExited", 0)>> \in Seq(Events)
    BY EventTypes
  <2> QED BY <1>3, <2>1
<1>8. output_buffer \in Seq(OutputRecord) /\ latest_output_seq \in Nat
  BY DEF TypeOK
<1>9. replay \in Seq(Events)
  BY <1>4, <1>8, ReplayType
<1>10. /\ phase[a] = "none" /\ sent[a] = <<>>
       /\ \A b \in Attach : b >= a + 1 => phase[b] = "none" /\ b # a
  BY <1>1 DEF ToldInv, StreamsInv, Attach
<1>11. output_tx \in Seq(Events) /\ Len(output_tx) \in Nat
  BY LenProperties DEF TypeOK
<1>12. StreamsInv'
  <2>1. \A b \in Attach : b >= next_attach_id' => phase'[b] = "none"
    BY <1>6, <1>10 DEF TypeOK
  <2>2. \A b \in Attach : phase'[b] = "none" => sent'[b] = <<>>
    BY <1>6 DEF TypeOK, ToldInv, StreamsInv
  <2>3. \A b \in Attach : phase'[b] = "live" => outbox'[b] = <<>>
    BY <1>6 DEF TypeOK, ToldInv, StreamsInv
  <2>4. \A b \in Attach : position'[b] <= Len(output_tx')
    BY <1>6, <1>11 DEF TypeOK, ToldInv, StreamsInv
  <2> QED BY <2>1, <2>2, <2>3, <2>4 DEF StreamsInv
<1>13. s \in Seq(Events)
  <2>1. <<Event("Attached", 0)>> \in Seq(Events)
    BY EventTypes
  <2>2. <<Event("Attached", 0)>> \o replay \in Seq(Events)
    BY <1>9, <2>1, ConcatProperties
  <2> QED BY <1>5, <1>7, <2>2, ConcatProperties
<1>14. TellsAll(a)'
  <2>1. /\ Len(output_buffer) = 0 => latest_output_seq = 0
        /\ Consecutive(output_buffer, latest_output_seq)
    BY DEF BufferInv, RetainedTail
  <2>2. PICK g \in {0, 1}, m \in 0 .. latest_output_seq + 1 :
            Replays(replay, g, m, latest_output_seq, after)
    BY <1>4, <1>8, <2>1, ReplayShape
  <2>3. m \in Nat
    BY <1>8
  <2>4. PICK n \in Nat : Starts(s, n, g, m, latest_output_seq)
    BY <1>5, <1>7, <1>8, <1>9, <2>2, <2>3, AttachStarts
  <2>5. after # NoSeq /\ after <= latest_output_seq /\ g = 0
           => m = latest_output_seq - after
    BY <2>2 DEF Replays
  <2>6. /\ OutputTold(s, after, latest_output_seq, latest_output_seq)
        /\ ControlTold(s, CurrentInfo, CurrentInfo.primary, CurrentInfo.size)
    BY <1>8, <2>4, <2>5, AttachedTold
  <2>7. /\ CurrentInfo.latest = latest_output_seq
        /\ CurrentInfo.primary = primary_attach_id
        /\ CurrentInfo.size = size
    BY DEF CurrentInfo
  <2>8. Told(a)' = s
    <3>1. Told(a)' = sent[a] \o s \o SubSeq(output_tx, Len(output_tx) + 1, Len(output_tx))
      BY <1>6 DEF Told, TypeOK
    <3>2. SubSeq(output_tx, Len(output_tx) + 1, Len(output_tx)) = <<>>
      BY <1>11, SubSeqEmpty
    <3>3. <<>> \o s = s /\ s \o <<>> = s
      BY <1>13, ConcatEmptySeq
    <3> QED BY <1>10, <3>1, <3>2, <3>3
  <2>9. request'[a] = after /\ snapshot'[a] = CurrentInfo
    BY <1>6 DEF TypeOK
  <2> QED BY <1>6, <2>6, <2>7, <2>8, <2>9 DEF TellsAll
<1>15. ASSUME NEW b \in Attach, b # a, phase'[b] # "none"
       PROVE  TellsAll(b)'
  <2>1. phase[b] # "none"
    BY <1>6, <1>15 DEF TypeOK
  <2>2. TellsAll(b)
    BY <2>1 DEF ToldInv
  <2>3. UNCHANGED <<request[b], snapshot[b], outbox[b], position[b]>>
    BY <1>6, <1>15 DEF TypeOK
  <2>4. Told(b)' = Told(b)
    BY <1>6, <2>3 DEF Told
  <2> QED BY <1>6, <2>2, <2>3, <2>4 DEF TellsAll
<1> QED BY <1>12, <1>14, <1>15 DEF ToldInv

\* A step of one stream after which it still tells all.
LEMMA ToldOfOne ==
    ASSUME TypeOK, ToldInv, NEW a \in Attach, phase[a] # "none", phase'[a] # "none",
           UNCHANGED <<next_attach_id, output_tx, latest_output_seq,
                       primary_attach_id, size, request, snapshot>>,
           \A b \in Attach \ {a} :
               UNCHANGED <<phase[b], sent[b], outbox[b], position[b]>>,
           phase'[a] = "live" => outbox'[a] = <<>>,
           position'[a] <= Len(output_tx),
           TellsAll(a)'
    PROVE  ToldInv'
<1>1. StreamsInv'
  BY DEF ToldInv, StreamsInv
<1>2. ASSUME NEW b \in Attach, b # a, phase'[b] # "none"
      PROVE  TellsAll(b)'
  <2>1. TellsAll(b)
    BY <1>2 DEF ToldInv
  <2>2. Told(b)' = Told(b)
    BY <1>2 DEF Told
  <2> QED BY <2>1, <2>2 DEF TellsAll
<1> QED BY <1>1, <1>2 DEF ToldInv

\* Writing the replay and receiving events do not change what is told.
LEMMA ToldReplay ==
    ASSUME TypeInv, ToldInv, NEW a \in Attach, StreamReplay(a)
    PROVE  ToldInv'
<1>1. TypeOK /\ outbox[a] # <<>> /\ StreamsInv
  BY DEF TypeInv, Pending, StreamReplay, ToldInv
<1>2. PICK o \in Seq(Events) : o = outbox[a]
  BY <1>1, ToldType
<1>3. PICK u \in Seq(Events) : u = sent[a]
  BY <1>1, ToldType
<1>4. PICK r \in Seq(Events) : r = SubSeq(output_tx, position[a] + 1, Len(output_tx))
  BY <1>1, ToldType
<1>5. /\ sent' = [sent EXCEPT ![a] = Append(u, Head(o))]
      /\ outbox' = [outbox EXCEPT ![a] = Tail(o)]
      /\ phase' = [phase EXCEPT ![a] = IF Len(o) > 1 THEN "writing" ELSE AfterReplay(a)]
      /\ UNCHANGED <<next_attach_id, output_tx, latest_output_seq, primary_attach_id,
                     size, request, snapshot, position>>
  BY <1>1, <1>2, <1>3 DEF StreamReplay, Write, TypeOK, session
<1>6. /\ Head(o) \in Events /\ Tail(o) \in Seq(Events) /\ Len(Tail(o)) = Len(o) - 1
      /\ o = <<Head(o)>> \o Tail(o)
  <2>1. /\ Head(o) \in Events /\ Tail(o) \in Seq(Events) /\ Len(Tail(o)) = Len(o) - 1
    BY <1>1, <1>2, HeadTailProperties
  <2>2. SubSeq(o, 1, Len(o)) = <<o[1]>> \o SubSeq(o, 2, Len(o))
    <3>1. 1 \in 1 .. Len(o) /\ Len(o) \in 1 .. Len(o)
      BY <1>1, <1>2, EmptySeq
    <3>2. SubSeq(o, 1, Len(o)) = <<o[1]>> \o SubSeq(o, 1 + 1, Len(o))
      BY <3>1, SubSeqRecursiveFirst
    <3> QED BY <3>2
  <2>3. SubSeq(o, 1, Len(o)) = o /\ Tail(o) = SubSeq(o, 2, Len(o))
    BY <1>1, <1>2, SubSeqFull, TailIsSubSeq
  <2>4. Head(o) = o[1]
    BY <1>1, <1>2
  <2> QED BY <2>1, <2>2, <2>3, <2>4
<1>7. Append(u, Head(o)) \o Tail(o) = u \o o
  <2>1. Append(u, Head(o)) = u \o <<Head(o)>> /\ <<Head(o)>> \in Seq(Events)
    BY <1>6, AppendIsConcat
  <2>2. (u \o <<Head(o)>>) \o Tail(o) = u \o (<<Head(o)>> \o Tail(o))
    BY <1>6, <2>1, Associative
  <2> QED BY <1>6, <2>1, <2>2
<1>8. Told(a)' = Told(a)
  <2>1. sent'[a] = Append(u, Head(o)) /\ outbox'[a] = Tail(o)
    BY <1>1, <1>5 DEF TypeOK
  <2>2. Told(a)' = Append(u, Head(o)) \o Tail(o) \o r
    BY <1>4, <1>5, <2>1 DEF Told
  <2>3. Told(a) = u \o o \o r
    BY <1>2, <1>3, <1>4 DEF Told
  <2> QED BY <1>7, <2>2, <2>3
<1>9. phase[a] # "none" /\ phase'[a] # "none" /\ TellsAll(a)
  BY <1>1, <1>5 DEF StreamReplay, AfterReplay, TypeOK, ToldInv
<1>10. TellsAll(a)'
  BY <1>5, <1>8, <1>9 DEF TellsAll
<1>11. phase'[a] = "live" => outbox'[a] = <<>>
  <2>1. phase'[a] = "live" => ~(Len(o) > 1)
    BY <1>1, <1>5 DEF TypeOK
  <2>2. ~(Len(o) > 1) => Tail(o) = <<>>
    BY <1>1, <1>2, <1>6, EmptySeq
  <2>3. outbox'[a] = Tail(o)
    BY <1>1, <1>5 DEF TypeOK
  <2> QED BY <2>1, <2>2, <2>3
<1>12. \A b \in Attach \ {a} : UNCHANGED <<phase[b], sent[b], outbox[b], position[b]>>
  BY <1>1, <1>5 DEF TypeOK
<1>13. position'[a] <= Len(output_tx)
  BY <1>1, <1>5 DEF StreamsInv
<1> QED BY <1>1, <1>5, <1>9, <1>10, <1>11, <1>12, <1>13, ToldOfOne

\* s tells what was written, and then what was sent after a position.
Reads(s, written, tx, p) ==
    /\ Len(s) = Len(written) + (Len(tx) - p)
    /\ \A i \in 1 .. Len(written) : s[i] = written[i]
    /\ \A i \in 1 .. Len(tx) - p : s[Len(written) + i] = tx[p + i]

\* A stream whose replay is written reads on from its position.
LEMMA ConcatReads ==
    ASSUME NEW u \in Seq(Events), NEW tx \in Seq(Events), NEW p \in 0 .. Len(tx)
    PROVE  /\ u \o <<>> \o SubSeq(tx, p + 1, Len(tx)) \in Seq(Events)
           /\ Reads(u \o <<>> \o SubSeq(tx, p + 1, Len(tx)), u, tx, p)
<1> PICK s : s = u \o <<>> \o SubSeq(tx, p + 1, Len(tx))
  OBVIOUS
<1>1. PICK n \in Nat : n = Len(tx)
  OBVIOUS
<1>2. PICK m \in Nat : m = Len(u)
  OBVIOUS
<1>3. PICK r : r = SubSeq(tx, p + 1, n)
  OBVIOUS
<1>4. /\ r \in Seq(Events) /\ Len(r) = n - p
      /\ \A i \in 1 .. n - p : r[i] = tx[p + i]
  <2>1. \A i \in p + 1 .. n : tx[i] \in Events
    <3>1. \A i \in p + 1 .. n : i \in 1 .. Len(tx)
      BY <1>1
    <3> QED BY <3>1, ElementOfSeq
  <2>2. p + 1 \in Int /\ n \in Int /\ p <= n
    BY <1>1
  <2>3. /\ r \in Seq(Events)
        /\ Len(r) = IF p + 1 <= n THEN n - (p + 1) + 1 ELSE 0
        /\ \A i \in 1 .. n - (p + 1) + 1 : r[i] = tx[(p + 1) + i - 1]
    BY <1>3, <2>1, <2>2, SubSeqProperties
  <2>4. Len(r) = n - p /\ n - (p + 1) + 1 = n - p
    BY <2>2, <2>3
  <2>5. \A i \in 1 .. n - p : (p + 1) + i - 1 = p + i
    BY <2>2
  <2> QED BY <2>3, <2>4, <2>5
<1>5. s = u \o r
  BY <1>1, <1>3, ConcatEmptySeq
<1>6. /\ s \in Seq(Events) /\ Len(s) = m + (n - p)
      /\ \A i \in 1 .. m + (n - p) : s[i] = IF i <= m THEN u[i] ELSE r[i - m]
  <2>1. /\ u \o r \in Seq(Events) /\ Len(u \o r) = Len(u) + Len(r)
        /\ \A i \in 1 .. Len(u) + Len(r) :
              (u \o r)[i] = IF i <= Len(u) THEN u[i] ELSE r[i - Len(u)]
    BY <1>4, ConcatProperties
  <2>2. /\ s \in Seq(Events) /\ Len(s) = Len(u) + Len(r)
        /\ \A i \in 1 .. Len(u) + Len(r) :
              s[i] = IF i <= Len(u) THEN u[i] ELSE r[i - Len(u)]
    BY <1>5, <2>1
  <2> QED BY <1>2, <1>4, <2>2
<1>7. \A i \in 1 .. m : s[i] = u[i]
  <2>1. \A i \in 1 .. m : i \in 1 .. m + (n - p) /\ i <= m
    BY <1>1
  <2> QED BY <1>6, <2>1
<1>8. \A i \in 1 .. n - p : s[m + i] = tx[p + i]
  <2> SUFFICES ASSUME NEW i \in 1 .. n - p PROVE s[m + i] = tx[p + i]
    OBVIOUS
  <2>1. m + i \in 1 .. m + (n - p) /\ ~(m + i <= m) /\ (m + i) - m = i
    BY <1>1
  <2>2. s[m + i] = r[(m + i) - m]
    BY <1>6, <2>1
  <2> QED BY <1>4, <2>1, <2>2
<1>9. Reads(s, u, tx, p)
  BY <1>1, <1>2, <1>6, <1>7, <1>8 DEF Reads
<1> QED BY <1>6, <1>9

\* What the stream receives moves from what is to come to what was written.
LEMMA ToldRecv ==
    ASSUME TypeOK, ToldInv, NEW a \in Attach, StreamRecv(a)
    PROVE  ToldInv'
<1>1. StreamsInv
  BY DEF ToldInv
<1>2. PICK p \in Nat : p = position[a]
  BY DEF TypeOK
<1>3. PICK n \in Nat : n = Len(output_tx)
  BY LenProperties DEF TypeOK
<1>4. PICK u \in Seq(Events) : u = sent[a]
  BY <1>1, ToldType
<1>5. output_tx \in Seq(Events) /\ p + 1 \in 1 .. n /\ n \in p + 1 .. n
  BY <1>2, <1>3 DEF TypeOK, StreamRecv
<1>6. PICK e \in Events : e = output_tx[p + 1]
  BY <1>3, <1>5, ElementOfSeq
<1>7. /\ sent' = [sent EXCEPT ![a] = Append(u, e)]
      /\ position' = [position EXCEPT ![a] = p + 1]
      /\ phase[a] = "live"
      /\ phase' = [phase EXCEPT ![a] = IF e.type \in {"SessionExited", "SessionClosed"}
                                       THEN "detaching" ELSE "live"]
      /\ UNCHANGED <<next_attach_id, output_tx, latest_output_seq, primary_attach_id,
                     size, request, snapshot, outbox>>
  BY <1>2, <1>4, <1>6 DEF StreamRecv, Write, TypeOK, session
<1>8. outbox[a] = <<>>
  BY <1>1, <1>7 DEF StreamsInv
<1>9. PICK r \in Seq(Events) : r = SubSeq(output_tx, (p + 1) + 1, n)
  <2>1. \A i \in (p + 1) + 1 .. n : output_tx[i] \in Events
    <3>1. \A i \in (p + 1) + 1 .. n : i \in 1 .. Len(output_tx)
      BY <1>3
    <3> QED BY <1>5, <3>1, ElementOfSeq
  <2>2. (p + 1) + 1 \in Int /\ n \in Int
    OBVIOUS
  <2>3. SubSeq(output_tx, (p + 1) + 1, n) \in Seq(Events)
    BY <2>1, <2>2, SubSeqProperties
  <2> QED BY <2>3
<1>10. SubSeq(output_tx, p + 1, n) = <<e>> \o r
  BY <1>3, <1>5, <1>6, <1>9, SubSeqRecursiveFirst
<1>11. Told(a)' = Told(a)
  <2>1. Told(a) = u \o <<>> \o (<<e>> \o r)
    BY <1>2, <1>3, <1>4, <1>8, <1>10 DEF Told
  <2>2. sent'[a] = Append(u, e) /\ position'[a] = p + 1
    BY <1>7 DEF TypeOK
  <2>3. Told(a)' = Append(u, e) \o <<>> \o r
    BY <1>3, <1>7, <1>8, <1>9, <2>2 DEF Told
  <2>4. u \o <<>> = u /\ Append(u, e) \in Seq(Events) /\ Append(u, e) = u \o <<e>>
    BY ConcatEmptySeq, AppendProperties, AppendIsConcat
  <2>5. Append(u, e) \o <<>> = Append(u, e)
    BY <2>4, ConcatEmptySeq
  <2>6. (u \o <<e>>) \o r = u \o (<<e>> \o r)
    <3>1. <<e>> \in Seq(Events)
      OBVIOUS
    <3> QED BY <3>1, Associative
  <2> QED BY <2>1, <2>3, <2>4, <2>5, <2>6
<1>12. phase[a] # "none" /\ phase'[a] # "none" /\ TellsAll(a)
  BY <1>7 DEF TypeOK, ToldInv
<1>13. TellsAll(a)'
  BY <1>7, <1>11, <1>12 DEF TellsAll
<1>14. \A b \in Attach \ {a} : UNCHANGED <<phase[b], sent[b], outbox[b], position[b]>>
  BY <1>7 DEF TypeOK
<1>15. position'[a] <= Len(output_tx)
  BY <1>3, <1>5, <1>7 DEF TypeOK
<1>16. phase'[a] = "live" => outbox'[a] = <<>>
  BY <1>7, <1>8
<1> QED BY <1>7, <1>12, <1>13, <1>14, <1>15, <1>16, ToldOfOne

\* A stream that lags reports a gap and goes on with what the channel holds.
LEMMA ToldLagged ==
    ASSUME TypeOK, ToldInv, NEW a \in Attach, StreamLagged(a)
    PROVE  ToldInv'
<1>1. StreamsInv
  BY DEF ToldInv
<1>2. PICK p \in Nat : p = position[a]
  BY DEF TypeOK
<1>3. PICK n \in Nat : n = Len(output_tx)
  BY LenProperties DEF TypeOK
<1>4. PICK q \in Nat : q = n - Capacity /\ p < q /\ q <= n
  BY <1>2, <1>3, BoundAssumption DEF StreamLagged, Lags
<1>5. PICK u \in Seq(Events) : u = sent[a]
  BY <1>1, ToldType
<1>6. PICK e \in Events : e = Event("HistoryGap", snapshot[a].latest + 1)
  <2>1. snapshot[a].latest + 1 \in Int
    BY DEF TypeOK, Info
  <2> QED BY <2>1, EventTypes
<1>7. /\ sent' = [sent EXCEPT ![a] = Append(u, e)]
      /\ position' = [position EXCEPT ![a] = q]
      /\ phase[a] = "live"
      /\ UNCHANGED <<next_attach_id, output_tx, latest_output_seq, primary_attach_id,
                     size, request, snapshot, outbox, phase>>
  BY <1>3, <1>4, <1>5, <1>6 DEF StreamLagged, Write, TypeOK, session
<1>8. outbox[a] = <<>>
  BY <1>1, <1>7 DEF StreamsInv
<1>9. \A b \in Attach \ {a} : UNCHANGED <<phase[b], sent[b], outbox[b], position[b]>>
  BY <1>7 DEF TypeOK
<1>10. sent'[a] = Append(u, e) /\ position'[a] = q
  BY <1>7 DEF TypeOK
<1>11. PICK s \in Seq(Events) : s = Told(a)
  BY <1>1, ToldType
<1>12. PICK t \in Seq(Events) : t = Told(a)'
  <2>1. Append(u, e) \in Seq(Events)
    BY AppendProperties
  <2>2. Told(a)' = Append(u, e) \o <<>> \o SubSeq(output_tx, q + 1, Len(output_tx))
    BY <1>7, <1>8, <1>10 DEF Told
  <2>3. output_tx \in Seq(Events) /\ q \in 0 .. Len(output_tx)
    BY <1>3, <1>4 DEF TypeOK
  <2> QED BY <2>1, <2>2, <2>3, ConcatReads
<1>13. Lagged(s, t, Len(u), q - p)
  <2>1. /\ Len(s) = Len(u) + (n - p)
        /\ \A i \in 1 .. Len(u) : s[i] = u[i]
        /\ \A i \in 1 .. n - p : s[Len(u) + i] = output_tx[p + i]
    <3>1. s = u \o <<>> \o SubSeq(output_tx, p + 1, Len(output_tx))
      BY <1>2, <1>5, <1>8, <1>11 DEF Told
    <3>2. output_tx \in Seq(Events) /\ p \in 0 .. Len(output_tx)
      BY <1>3, <1>4 DEF TypeOK
    <3>3. /\ Len(s) = Len(u) + (Len(output_tx) - p)
          /\ \A i \in 1 .. Len(u) : s[i] = u[i]
          /\ \A i \in 1 .. Len(output_tx) - p : s[Len(u) + i] = output_tx[p + i]
      <4>1. Reads(s, u, output_tx, p)
        BY <3>1, <3>2, ConcatReads
      <4> QED BY <4>1 DEF Reads
    <3> QED BY <1>3, <3>3
  <2>2. /\ Len(Append(u, e)) = Len(u) + 1 /\ Append(u, e)[Len(u) + 1] = e
        /\ \A i \in 1 .. Len(u) : Append(u, e)[i] = u[i]
    BY AppendProperties
  <2>3. /\ Len(t) = Len(u) + 1 + (n - q)
        /\ \A i \in 1 .. Len(u) : t[i] = u[i]
        /\ t[Len(u) + 1] = e
        /\ \A i \in 1 .. n - q : t[Len(u) + 1 + i] = output_tx[q + i]
    <3> PICK v \in Seq(Events) : v = Append(u, e)
      BY AppendProperties
    <3>1. t = v \o <<>> \o SubSeq(output_tx, q + 1, Len(output_tx))
      BY <1>7, <1>8, <1>10, <1>12 DEF Told
    <3>2. output_tx \in Seq(Events) /\ q \in 0 .. Len(output_tx)
      BY <1>3, <1>4 DEF TypeOK
    <3>3. /\ Len(t) = Len(v) + (n - q)
          /\ \A i \in 1 .. Len(v) : t[i] = v[i]
          /\ \A i \in 1 .. n - q : t[Len(v) + i] = output_tx[q + i]
      <4>1. /\ Len(t) = Len(v) + (Len(output_tx) - q)
            /\ \A i \in 1 .. Len(v) : t[i] = v[i]
            /\ \A i \in 1 .. Len(output_tx) - q : t[Len(v) + i] = output_tx[q + i]
        <5>1. Reads(t, v, output_tx, q)
          BY <3>1, <3>2, ConcatReads
        <5> QED BY <5>1 DEF Reads
      <4> QED BY <1>3, <4>1
    <3>4. \A i \in 1 .. Len(u) : i \in 1 .. Len(v)
      BY <2>2
    <3>5. Len(u) + 1 \in 1 .. Len(v)
      BY <2>2
    <3> QED BY <2>2, <3>3, <3>4, <3>5
  <2>4. e.type = "HistoryGap"
    BY <1>6 DEF Event
  <2> PICK m \in Nat : m = Len(u)
    OBVIOUS
  <2> PICK l \in Nat : l = Len(t) /\ l = m + 1 + (n - q)
    BY <2>3
  <2>5. ASSUME NEW i \in m + 2 .. l PROVE t[i] = s[i - 1 + (q - p)]
    <3>1. PICK j \in 1 .. n - q : i = m + 1 + j
      <4>1. i - (m + 1) \in 1 .. n - q /\ i = m + 1 + (i - (m + 1))
        OBVIOUS
      <4> QED BY <4>1
    <3>2. t[i] = output_tx[q + j]
      BY <2>3, <3>1
    <3>3. /\ j + (q - p) \in 1 .. n - p /\ p + (j + (q - p)) = q + j
          /\ m + (j + (q - p)) = i - 1 + (q - p)
      <4>1. j \in Nat /\ 1 <= j /\ j <= n - q
        BY <3>1
      <4>2. i - 1 = m + j
        BY <3>1
      <4>3. p \in Nat /\ q \in Nat /\ n \in Nat /\ p < q /\ q <= n
        BY <1>4
      <4>4. j + (q - p) \in 1 .. n - p
        BY <4>1, <4>3
      <4>5. p + (j + (q - p)) = q + j
        BY <4>1, <4>3
      <4>6. m + (j + (q - p)) = (m + j) + (q - p)
        BY <4>1, <4>3
      <4> QED BY <4>2, <4>4, <4>5, <4>6
    <3>4. s[m + (j + (q - p))] = output_tx[p + (j + (q - p))]
      BY <2>1, <3>3
    <3> QED BY <3>2, <3>3, <3>4
  <2>6. q - p \in Nat /\ m + (q - p) <= Len(s) /\ Len(t) = Len(s) - (q - p) + 1
    <3>1. Len(s) = m + (n - p)
      BY <2>1
    <3>2. Len(t) = m + 1 + (n - q)
      BY <2>3
    <3> QED BY <1>4, <3>1, <3>2
  <2> QED BY <2>1, <2>3, <2>4, <2>5, <2>6 DEF Lagged
<1>14. TellsAll(a)
  BY <1>7 DEF ToldInv
<1>15. TellsAll(a)'
  <2>1. OutputTold(t, request[a], snapshot[a].latest, latest_output_seq) /\ ~NoGap(t)
    BY <1>11, <1>13, <1>14, OutputLagged DEF TellsAll
  <2> QED BY <1>7, <1>12, <2>1 DEF TellsAll, ControlTold
<1>16. phase'[a] = "live" => outbox'[a] = <<>>
  BY <1>7, <1>8
<1>17. position'[a] <= Len(output_tx) /\ phase[a] # "none" /\ phase'[a] # "none"
  BY <1>3, <1>4, <1>7, <1>10
<1> QED BY <1>7, <1>9, <1>15, <1>16, <1>17, ToldOfOne

\* Every step leaves what the streams tell in order, without silent gaps and
\* leading to what the session is.
LEMMA ToldStep == TypeInv /\ BufferInv /\ ToldInv /\ [Next]_vars => ToldInv'
<1> SUFFICES ASSUME TypeInv, BufferInv, ToldInv, [Next]_vars PROVE ToldInv'
  OBVIOUS
<1> USE DEF session, threads, streams, history
<1>1. TypeOK /\ TypeInv'
  BY TypeStep DEF TypeInv
<1>2. next_attach_id \in Nat /\ next_attach_id' \in Nat
  BY <1>1, BoundAssumption DEF TypeInv, TypeOK
<1>3. ASSUME UNCHANGED <<output_tx, latest_output_seq, primary_attach_id, size,
                         request, snapshot, outbox, position, sent, phase>>,
             next_attach_id' >= next_attach_id
      PROVE  ToldInv'
  BY <1>1, <1>2, <1>3, ToldUntouched
<1>4. ASSUME NEW a \in Attach, NEW next \in {"detaching", "detach_held", "done"},
             phase[a] # "none", phase' = [phase EXCEPT ![a] = next],
             UNCHANGED <<output_tx, latest_output_seq, primary_attach_id, size,
                         request, snapshot, outbox, position, sent, next_attach_id>>
      PROVE  ToldInv'
  <2>1. \A b \in Attach : /\ phase'[b] = "none" <=> phase[b] = "none"
                          /\ phase'[b] = "live" => phase[b] = "live"
    BY <1>1, <1>4 DEF TypeOK
  <2>2. next_attach_id' >= next_attach_id
    BY <1>2, <1>4
  <2> QED BY <1>1, <1>2, <1>4, <2>1, <2>2, ToldUntouched
<1>5. Event("SessionExited", 0) \in Events /\ Event("SessionClosed", 0) \in Events
      /\ Event("SessionExited", 0).type = "SessionExited"
      /\ Event("SessionClosed", 0).type = "SessionClosed"
  BY EventTypes DEF Event
<1>6. ASSUME NEW h \in Handler, HandlerBegin(h) PROVE ToldInv'
  <2>1. UNCHANGED <<session, next_attach_id, streams>>
    BY <1>6 DEF HandlerBegin, BeginAttach, BeginTakeControl, BeginWriteInput,
                BeginCloseSession, Begin
  <2> QED BY <1>2, <1>3, <2>1
<1>7. ASSUME NEW h \in Handler, HandlerStep(h) PROVE ToldInv'
  <2>1. CASE AttachClosed(h)
    <3>1. next_attach_id' >= next_attach_id
      BY <1>2, <2>1 DEF AttachClosed
    <3> QED BY <1>3, <2>1, <3>1 DEF AttachClosed
  <2>2. CASE attach(h)
    BY <1>1, <2>2, ToldAttach
  <2>3. CASE TakeControlRefused(h) \/ WriteInputRefused(h) \/ write_input(h)
    <3>1. UNCHANGED <<session, next_attach_id, streams>>
      BY <2>3 DEF TakeControlRefused, WriteInputRefused, write_input
    <3> QED BY <1>2, <1>3, <3>1
  <2>4. CASE take_control(h)
    BY <1>1, <2>4, ToldTake
  <2>5. CASE TakeControlResizeFails(h)
    BY <1>1, <2>5, ToldResizeFails
  <2>6. CASE close_session(h)
    <3>1. /\ Send(<<Event("SessionClosed", 0)>>)
          /\ UNCHANGED <<next_attach_id, phase, request, snapshot, outbox, position,
                         sent, latest_output_seq, primary_attach_id, size>>
      BY <2>6 DEF close_session
    <3> QED BY <1>1, <1>5, <3>1, ToldEnd
  <2> QED BY <1>7, <2>1, <2>2, <2>3, <2>4, <2>5, <2>6 DEF HandlerStep
<1>8. CASE ReaderStep
  <2>1. CASE ReaderGet \/ ReaderEof \/ RecordOutputClosed
    <3>1. UNCHANGED <<session, next_attach_id, streams>>
      BY <2>1 DEF ReaderGet, ReaderEof, RecordOutputClosed
    <3> QED BY <1>2, <1>3, <3>1
  <2>2. ASSUME NEW length \in Chunk, NEW title \in Title \cup {NoTitle},
               record_output(length, title)
        PROVE  ToldInv'
    BY <1>1, <2>2, ToldChunk
  <2> QED BY <1>8, <2>1, <2>2 DEF ReaderStep
<1>9. CASE ChildEnds \/ WaiterGet \/ WaitFails \/ MarkExitedClosed
  <2>1. UNCHANGED <<session, next_attach_id, streams>>
    BY <1>9 DEF ChildEnds, WaiterGet, WaitFails, MarkExitedClosed
  <2> QED BY <1>2, <1>3, <2>1
<1>10. CASE mark_exited
  <2>1. /\ Send(<<Event("SessionExited", 0)>>)
        /\ UNCHANGED <<next_attach_id, phase, request, snapshot, outbox, position,
                       sent, latest_output_seq, primary_attach_id, size>>
    BY <1>10 DEF mark_exited
  <2> QED BY <1>1, <1>5, <2>1, ToldEnd
<1>11. ASSUME NEW a \in Attach, StreamStep(a) \/ StreamWriteFails(a)
       PROVE  ToldInv'
  <2>1. CASE StreamReplay(a)
    BY <2>1, ToldReplay
  <2>2. CASE StreamRecv(a)
    BY <1>1, <2>2, ToldRecv
  <2>3. CASE StreamLagged(a)
    BY <1>1, <2>3, ToldLagged
  <2>4. CASE StreamChannelClosed(a) \/ StreamWriteFails(a)
    <3>1. /\ phase[a] # "none" /\ phase' = [phase EXCEPT ![a] = "detaching"]
          /\ UNCHANGED <<output_tx, latest_output_seq, primary_attach_id, size,
                         request, snapshot, outbox, position, sent, next_attach_id>>
      BY <2>4 DEF StreamChannelClosed, StreamWriteFails
    <3> QED BY <1>4, <3>1
  <2>5. CASE BeginDetach(a)
    <3>1. /\ phase[a] # "none"
          /\ phase' = [phase EXCEPT ![a] = IF in_map THEN "detach_held" ELSE "done"]
          /\ UNCHANGED <<output_tx, latest_output_seq, primary_attach_id, size,
                         request, snapshot, outbox, position, sent, next_attach_id>>
      BY <2>5 DEF BeginDetach
    <3> QED BY <1>4, <3>1
  <2>6. CASE detach(a)
    <3>1. /\ phase[a] # "none" /\ phase' = [phase EXCEPT ![a] = "done"]
          /\ UNCHANGED <<output_tx, latest_output_seq, primary_attach_id, size,
                         request, snapshot, outbox, position, sent, next_attach_id>>
      BY <2>6 DEF detach
    <3> QED BY <1>4, <3>1
  <2> QED BY <1>11, <2>1, <2>2, <2>3, <2>4, <2>5, <2>6 DEF StreamStep
<1>12. CASE UNCHANGED vars
  BY <1>2, <1>3, <1>12 DEF vars
<1> QED BY <1>6, <1>7, <1>8, <1>9, <1>10, <1>11, <1>12 DEF Next, WaiterStep

\* Nobody is told anything before the first attach.
LEMMA ToldInit == Init => TypeInv /\ BufferInv /\ ToldInv
<1> SUFFICES ASSUME Init PROVE TypeInv /\ BufferInv /\ ToldInv
  OBVIOUS
<1>1. TypeInv /\ BufferInv
  BY TypeInit DEF Init, BufferInv, RetainedTail, Consecutive
<1>2. ToldInv
  BY DEF Init, ToldInv, StreamsInv
<1> QED BY <1>1, <1>2

\* The three invariants together.
LEMMA ToldAlways == Spec => [](TypeInv /\ BufferInv /\ ToldInv)
<1>1. TypeInv /\ BufferInv /\ ToldInv /\ [Next]_vars => (TypeInv /\ BufferInv /\ ToldInv)'
  BY TypeStep, BufferStep, ToldStep
<1> QED BY ToldInit, <1>1, PTL DEF Spec

\* What was written is the beginning of what is told.
LEMMA WrittenIsTold ==
    ASSUME TypeOK, ToldInv, NEW a \in Attach, sent[a] # <<>>
    PROVE  /\ TellsAll(a)
           /\ DOMAIN sent[a] = 1 .. Len(sent[a]) /\ Len(sent[a]) \in Nat
           /\ Len(sent[a]) <= Len(Told(a)) /\ Len(Told(a)) \in Nat
           /\ \A i \in 1 .. Len(sent[a]) : Told(a)[i] = sent[a][i]
<1>1. StreamsInv
  BY DEF ToldInv
<1>2. PICK u \in Seq(Events) : u = sent[a]
  BY <1>1, ToldType
<1>3. PICK o \in Seq(Events) : o = outbox[a]
  BY <1>1, ToldType
<1>4. PICK r \in Seq(Events) : r = SubSeq(output_tx, position[a] + 1, Len(output_tx))
  BY <1>1, ToldType
<1>5. phase[a] # "none"
  BY <1>1 DEF StreamsInv
<1>6. Told(a) = (u \o o) \o r
  BY <1>2, <1>3, <1>4 DEF Told
<1>7. /\ Len(u) \in Nat /\ Len(o) \in Nat /\ Len(r) \in Nat
      /\ DOMAIN u = 1 .. Len(u)
  BY LenProperties
<1>8. /\ u \o o \in Seq(Events) /\ Len(u \o o) = Len(u) + Len(o)
      /\ \A i \in 1 .. Len(u) : (u \o o)[i] = u[i]
  <2>1. /\ u \o o \in Seq(Events) /\ Len(u \o o) = Len(u) + Len(o)
        /\ \A i \in 1 .. Len(u) + Len(o) :
              (u \o o)[i] = IF i <= Len(u) THEN u[i] ELSE o[i - Len(u)]
    BY ConcatProperties
  <2>2. \A i \in 1 .. Len(u) : i \in 1 .. Len(u) + Len(o) /\ i <= Len(u)
    BY <1>7
  <2> QED BY <2>1, <2>2
<1>9. PICK v \in Seq(Events) : v = u \o o
  BY <1>8
<1>10. /\ Len(v \o r) = Len(v) + Len(r)
       /\ \A i \in 1 .. Len(v) : (v \o r)[i] = v[i]
  <2>1. /\ Len(v \o r) = Len(v) + Len(r)
        /\ \A i \in 1 .. Len(v) + Len(r) :
              (v \o r)[i] = IF i <= Len(v) THEN v[i] ELSE r[i - Len(v)]
    BY ConcatProperties
  <2>2. \A i \in 1 .. Len(v) : i \in 1 .. Len(v) + Len(r) /\ i <= Len(v)
    BY <1>7, <1>8, <1>9
  <2> QED BY <2>1, <2>2
<1>11. \A i \in 1 .. Len(u) : i \in 1 .. Len(v)
  BY <1>7, <1>8, <1>9
<1>12. \A i \in 1 .. Len(u) : Told(a)[i] = u[i]
  BY <1>6, <1>8, <1>9, <1>10, <1>11
<1>13. Len(u) <= Len(Told(a)) /\ Len(Told(a)) \in Nat
  BY <1>6, <1>7, <1>8, <1>9, <1>10
<1> QED BY <1>2, <1>5, <1>7, <1>12, <1>13 DEF ToldInv

\* Output never skips, repeats or reorders without a HistoryGap that says so
\* (attach, StreamReplay, StreamRecv, StreamLagged).
THEOREM NoGapIsSilent == Spec => []NoSilentGap
<1>1. TypeInv /\ BufferInv /\ ToldInv => NoSilentGap
  <2> SUFFICES ASSUME TypeOK, ToldInv, NEW a \in Attach,
                      NEW i \in DOMAIN sent[a], NEW j \in DOMAIN sent[a], i < j,
                      sent[a][i].type = "OutputChunk",
                      sent[a][j].type = "OutputChunk",
                      \A k \in i + 1 .. j - 1 : sent[a][k].type # "OutputChunk"
               PROVE  \/ sent[a][j].arg = sent[a][i].arg + 1
                      \/ /\ sent[a][j].arg > sent[a][i].arg
                         /\ \E k \in i + 1 .. j - 1 : sent[a][k].type = "HistoryGap"
    BY DEF NoSilentGap, TypeInv
  <2>1. sent[a] # <<>>
    OBVIOUS
  <2> PICK s : s = Told(a)
    OBVIOUS
  <2>2. /\ TellsAll(a) /\ Len(sent[a]) \in Nat /\ Len(s) \in Nat
        /\ i \in 1 .. Len(sent[a]) /\ j \in 1 .. Len(sent[a])
        /\ Len(sent[a]) <= Len(s)
        /\ \A k \in 1 .. Len(sent[a]) : s[k] = sent[a][k]
    BY <2>1, WrittenIsTold
  <2>3. /\ i \in 1 .. Len(s) /\ j \in 1 .. Len(s)
        /\ \A k \in i .. j : k \in 1 .. Len(sent[a])
    BY <2>2
  <2>4. \A k \in i .. j : s[k] = sent[a][k]
    BY <2>2, <2>3
  <2>5. i \in i .. j /\ j \in i .. j /\ \A k \in i + 1 .. j - 1 : k \in i .. j
    BY <2>2
  <2>6. Ordered(s)
    BY <2>2 DEF TellsAll, OutputTold
  <2>7. /\ s[i].arg < s[j].arg
        /\ \/ \E k \in i + 1 .. j - 1 : s[k].type \in {"OutputChunk", "HistoryGap"}
           \/ s[j].arg = s[i].arg + 1
    BY <2>3, <2>4, <2>5, <2>6 DEF Ordered
  <2>8. s[i].arg \in Nat /\ s[j].arg \in Nat
    <3>1. UpTo(s, latest_output_seq) /\ latest_output_seq \in Nat
      BY <2>2 DEF TellsAll, OutputTold, TypeOK
    <3> QED BY <2>3, <2>4, <2>5, <3>1 DEF UpTo
  <2> QED BY <2>4, <2>5, <2>7, <2>8
<1> QED BY <1>1, ToldAlways, PTL

\* A stream that resumes after a sequence starts with the chunk that follows
\* it, or with a gap (replay_events, attach).
THEOREM ResumesExactly == Spec => []ResumeExact
<1>1. TypeInv /\ BufferInv /\ ToldInv => ResumeExact
  <2> SUFFICES ASSUME TypeOK, ToldInv, NEW a \in Attach,
                      NEW j \in DOMAIN sent[a],
                      request[a] # NoSeq, request[a] <= snapshot[a].latest,
                      sent[a][j].type = "OutputChunk",
                      \A k \in 1 .. j - 1 :
                          sent[a][k].type \notin {"OutputChunk", "HistoryGap"}
               PROVE  sent[a][j].arg = request[a] + 1
    BY DEF ResumeExact, TypeInv
  <2>1. sent[a] # <<>>
    OBVIOUS
  <2> PICK s : s = Told(a)
    OBVIOUS
  <2>2. /\ TellsAll(a) /\ Len(sent[a]) \in Nat /\ Len(s) \in Nat
        /\ j \in 1 .. Len(sent[a]) /\ Len(sent[a]) <= Len(s)
        /\ \A k \in 1 .. Len(sent[a]) : s[k] = sent[a][k]
    BY <2>1, WrittenIsTold
  <2>3. j \in 1 .. Len(s) /\ \A k \in 1 .. j - 1 : k \in 1 .. Len(sent[a])
    BY <2>2
  <2>4. Resumes(s, request[a], latest_output_seq)
    BY <2>2 DEF TellsAll, OutputTold
  <2>5. s[j] = sent[a][j] /\ \A k \in 1 .. j - 1 : s[k] = sent[a][k]
    BY <2>2, <2>3
  <2> QED BY <2>3, <2>4, <2>5 DEF Resumes
<1> QED BY <1>1, ToldAlways, PTL

\* What Shows says is what LastOf looks up.
LEMMA ShowsIsLast ==
    ASSUME NEW a \in Attach, sent[a] \in Seq(Events), NEW type, NEW default,
           NEW value, Shows(sent[a], type, default, value)
    PROVE  LastOf(a, type, default) = value
<1> DEFINE at == {i \in DOMAIN sent[a] : sent[a][i].type = type}
           last == CHOOSE i \in at : \A j \in at : j <= i
<1>1. DOMAIN sent[a] = 1 .. Len(sent[a]) /\ Len(sent[a]) \in Nat
  BY LenProperties
<1>2. CASE value = default /\ \A i \in 1 .. Len(sent[a]) : sent[a][i].type # type
  <2>1. at = {}
    BY <1>1, <1>2
  <2> QED BY <1>2, <2>1 DEF LastOf
<1>3. ASSUME NEW i \in 1 .. Len(sent[a]), sent[a][i].type = type,
             sent[a][i].arg = value,
             \A j \in i + 1 .. Len(sent[a]) : sent[a][j].type # type
      PROVE  LastOf(a, type, default) = value
  <2>1. i \in at /\ at \in SUBSET (1 .. Len(sent[a]))
    BY <1>1, <1>3
  <2>2. \A j \in at : j <= i
    <3> SUFFICES ASSUME NEW j \in at, j > i PROVE FALSE
      BY <1>1
    <3>1. j \in i + 1 .. Len(sent[a])
      BY <1>1
    <3> QED BY <1>3, <3>1
  <2> HIDE DEF at
  <2>3. last \in at /\ \A j \in at : j <= last
    BY <2>1, <2>2
  <2>4. last = i
    <3>1. i <= last /\ last <= i
      BY <2>1, <2>2, <2>3
    <3> HIDE DEF last
    <3>2. last \in 1 .. Len(sent[a])
      BY <2>1, <2>3
    <3> QED BY <1>1, <3>1, <3>2
  <2>5. LastOf(a, type, default) = sent[a][last].arg
    BY <2>1 DEF LastOf, at
  <2> QED BY <1>3, <2>4, <2>5
<1> QED BY <1>2, <1>3 DEF Shows

\* A stream that has received every event agrees with the session on who has
\* control, on the size and on the output, unless a resize failed (take_control,
\* record_output, attach).
THEOREM ReportedIsCurrent == ~ResizeMayFail => (Spec => []ReportedControlIsCurrent)
<1> SUFFICES ASSUME ~ResizeMayFail PROVE Spec => []ReportedControlIsCurrent
  OBVIOUS
<1>1. TypeInv /\ BufferInv /\ ToldInv => ReportedControlIsCurrent
  <2> SUFFICES ASSUME TypeOK, ToldInv, NEW a \in Attach, CaughtUp(a)
               PROVE  /\ LastOf(a, "ControlChanged", snapshot[a].primary) = primary_attach_id
                      /\ LastOf(a, "PseudoTerminalResized", snapshot[a].size) = size
                      /\ LastOf(a, "OutputChunk", snapshot[a].latest) = latest_output_seq
    BY DEF ReportedControlIsCurrent, TypeInv
  <2>1. /\ phase[a] = "live" /\ position[a] = Len(output_tx)
        /\ outbox[a] = <<>> /\ StreamsInv /\ TellsAll(a)
    BY DEF CaughtUp, ToldInv, StreamsInv
  <2>2. sent[a] \in Seq(Events)
    BY DEF TypeOK
  <2>3. Told(a) = sent[a]
    <3>1. Len(output_tx) \in Nat
      BY LenProperties DEF TypeOK
    <3>2. SubSeq(output_tx, Len(output_tx) + 1, Len(output_tx)) = <<>>
      BY <3>1, SubSeqEmpty
    <3> QED BY <2>1, <2>2, <3>2, ConcatEmptySeq DEF Told
  <2>4. NoGap(sent[a])
    <3>1. DOMAIN sent[a] = 1 .. Len(sent[a])
      BY <2>2, LenProperties
    <3> QED BY <3>1 DEF CaughtUp, NoGap
  <2>5. /\ Shows(sent[a], "ControlChanged", snapshot[a].primary, primary_attach_id)
        /\ Shows(sent[a], "PseudoTerminalResized", snapshot[a].size, size)
        /\ Shows(sent[a], "OutputChunk", snapshot[a].latest, latest_output_seq)
    BY <2>1, <2>3, <2>4 DEF TellsAll, OutputTold, ControlTold
  <2> QED BY <2>2, <2>5, ShowsIsLast
<1> QED BY <1>1, ToldAlways, PTL

=============================================================================
