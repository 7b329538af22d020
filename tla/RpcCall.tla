------------------------------- MODULE RpcCall -------------------------------
(***************************************************************************)
(* One RPC invocation: the web client's call (web/src/protocol/client.ts)  *)
(* and the daemon's handler of the stream (daemon/host/src/server.rs) on   *)
(* the two directions of one WebTransport stream.  What is written arrives *)
(* as bytes, in order and in pieces of any of the job's sizes; the         *)
(* transport may fail, the daemon may refuse before it has read everything *)
(* and the consumer of a server stream may leave it.                       *)
(***************************************************************************)
EXTENDS Naturals, SequencesExt

CONSTANTS
    Jobs,         \* the calls: [proc, requests, answer, unknown, pieces, lossy]
    MaxSequence,  \* MAX_MESSAGE_SEQUENCE_SIZE
    \* The messages of a call and what a reader finds in them (RpcMessages):
    Stream(_),          \* "unary", "client" or "server"
    Request(_, _),      \* the i-th message of the caller
    Answer(_, _),       \* the i-th message of the daemon
    RequestIn(_, _),    \* the request in a message, [status, value]
    AddressedTo(_, _),  \* whether a message is for the call's proc
    ValueIn(_, _),      \* the value in a message of the answer, [status, value]
    ErrorIn(_, _),      \* the error in a message of the answer
    \* How messages become bytes (Wire):
    Encode(_),
    DecodePrefix(_),    \* the complete messages, [status, value, next]
    DecodeAll(_)        \* [status, value]

\* job.requests: the values the caller sends (one, or several for a client stream)
\* job.answer: [values, error], what the daemon's handler answers with
\* job.unknown: "none", "field" or "variant": what a newer daemon adds to it
\* job.pieces: the sizes in which bytes are read
\* job.lossy: whether the transport may fail and the consumer may leave

Answers(j) ==
    IF j.answer.error = "none" THEN Len(j.answer.values) ELSE Len(j.answer.values) + 1

\* What is said in a direction, and the bytes of it.
Count(j, way) == IF way = "up" THEN Len(j.requests) ELSE Answers(j)
Said(j, way, i) == IF way = "up" THEN Request(j, i) ELSE Answer(j, i)
Messages(j, way, from, to) == [i \in 1..(to - from) |-> Said(j, way, from + i)]
BytesUpTo(j, way, n) == FlattenSeq([i \in 1..n |-> Encode(Said(j, way, i))])
AllBytes(j, way) == BytesUpTo(j, way, Count(j, way))
EndOf(j, way, n) == Len(BytesUpTo(j, way, n))

\* Where a read may end: behind what was written, or behind a piece that is
\* shorter than all of it.
Cuts(j, way) ==
    IF \E p \in j.pieces : p < Len(AllBytes(j, way))
    THEN 0..Len(AllBytes(j, way))
    ELSE {EndOf(j, way, i) : i \in 0..Count(j, way)}

-----------------------------------------------------------------------------
(* What the protocol takes from the messages and their codec *)

ASSUME JobsAssumption ==
    /\ MaxSequence \in Nat
    /\ \A j \in Jobs :
        /\ j.requests \in Seq(Range(j.requests)) /\ j.requests # <<>>
        /\ j.answer.values \in Seq(Range(j.answer.values))
        /\ j.unknown = "variant" => j.answer.values # <<>>
        /\ Stream(j) # "client" => Len(j.requests) = 1
        /\ Stream(j) # "server" => Answers(j) = 1
        /\ Stream(j) = "server" => EndOf(j, "up", 1) <= MaxSequence
        /\ j.pieces \subseteq Nat

\* Messages follow each other on a stream, and each has bytes.
ASSUME BytesAssumption ==
    \A j \in Jobs, way \in {"up", "down"} :
        LET all == AllBytes(j, way)
            end == [n \in 0..Count(j, way) |-> EndOf(j, way, n)]
        IN  /\ all \in Seq(0..255)
            /\ end \in [0..Count(j, way) -> 0..Len(all)] /\ end[0] = 0
            /\ \A m, n \in 0..Count(j, way) : m < n => end[m] < end[n]
            /\ \A n \in 1..Count(j, way) :
                    Encode(Said(j, way, n)) = SubSeq(all, end[n - 1] + 1, end[n])

\* Whoever reads from the beginning of a message finds those that are complete,
\* as they were, and where the last one ends.
ASSUME FramingAssumption ==
    \A j \in Jobs, way \in {"up", "down"} :
        LET all == AllBytes(j, way)
            count == Count(j, way)
            end == [n \in 0..count |-> EndOf(j, way, n)]
        IN  /\ \A from \in 0..count : \A cut \in {n \in Cuts(j, way) : end[from] <= n} :
                \E to \in from..count :
                    /\ end[to] <= cut /\ \A n \in 0..count : to < n => cut < end[n]
                    /\ LET prefix == DecodePrefix(SubSeq(all, end[from] + 1, cut))
                       IN  /\ prefix.status = "ok"
                           /\ prefix.value = Messages(j, way, from, to)
                           /\ prefix.next = end[to] - end[from]
            /\ way = "down" => \A to \in 0..count :
                LET whole == DecodeAll(SubSeq(all, 1, end[to]))
                IN  whole.status = "ok" /\ whole.value = Messages(j, way, 0, to)

\* What was put into the messages is found in them; only a variant that the
\* client does not know is not.
ASSUME MeaningAssumption ==
    \A j \in Jobs :
        /\ \A i \in 1..Len(j.requests) :
            LET request == RequestIn(j, Request(j, i))
            IN  request.status = "ok" /\ request.value = j.requests[i]
        /\ AddressedTo(j, Request(j, 1))
        /\ \A i \in 1..Len(j.answer.values) :
            LET value == ValueIn(j, Answer(j, i))
            IN  /\ Answer(j, i).variant \in IF Stream(j) = "server"
                        THEN {"responseStreamStart", "responseStreamChunk"}
                        ELSE {"responseUnaryOk"}
                /\ IF j.unknown = "variant" /\ i = Len(j.answer.values)
                   THEN value.status = "bad"
                   ELSE value.status = "ok" /\ value.value = j.answer.values[i]
        /\ j.answer.error # "none" =>
                LET last == Answer(j, Answers(j))
                IN  /\ last.variant = IF Stream(j) = "server"
                            THEN "responseStreamErrorEnd" ELSE "responseUnaryError"
                    /\ ErrorIn(j, last) = j.answer.error

-----------------------------------------------------------------------------
VARIABLES job, client, up, server, down, broken

vars == <<job, client, up, server, down, broken>>

\* up, down: a direction of the stream, the bytes that are not read yet and how
\* it ended.  client.batch: messages decoded and not yet handed to the consumer.
Quiet == [bytes |-> <<>>, ended |-> "no"]
Init ==
    /\ job \in Jobs
    /\ client = [phase |-> "sending", sent |-> 0, buffer |-> <<>>, batch |-> <<>>,
                 values |-> <<>>, error |-> "none"]
    /\ up = Quiet
    /\ server = [phase |-> "reading", buffer |-> <<>>, bytesRead |-> 0, inbox |-> <<>>,
                 sent |-> 0, handled |-> 0]
    /\ down = Quiet
    /\ broken = FALSE

IsServerStream == Stream(job) = "server"
IsClientStream == Stream(job) = "client"

\* Mutants: bytes of an incomplete message are forgotten, and those of complete
\* ones kept.
ForgetsUnread(bytes, next) == <<>>
KeepsRead(bytes, next) == bytes

\* What was buffered behind the complete messages.
Unread(bytes, next) == SubSeq(bytes, next + 1, Len(bytes))

Pieces(b) == {n \in {IF p > Len(b) THEN Len(b) ELSE p : p \in job.pieces} : n > 0}

-----------------------------------------------------------------------------
(* The client's side *)

\* writer.write
ClientWrites ==
    /\ client.phase = "sending" /\ client.sent < Len(job.requests)
    /\ up.ended = "no"
    /\ up' = [up EXCEPT !.bytes = @ \o Encode(Request(job, client.sent + 1))]
    /\ client' = [client EXCEPT !.sent = @ + 1]
    /\ UNCHANGED <<job, server, down, broken>>

\* Mutant: the caller waits for the answer with its request stream open.
ReadsWithoutClosing ==
    /\ client.phase = "sending" /\ client.sent = Len(job.requests)
    /\ up.ended = "no"
    /\ client' = [client EXCEPT !.phase = "reading"]
    /\ UNCHANGED <<job, up, server, down, broken>>

\* writer.close
ClientCloses ==
    /\ client.phase = "sending" /\ client.sent = Len(job.requests)
    /\ up.ended = "no"
    /\ up' = [up EXCEPT !.ended = "fin"]
    /\ client' = [client EXCEPT !.phase = "reading"]
    /\ UNCHANGED <<job, server, down, broken>>

Fail(error) == client' = [client EXCEPT !.phase = "failed", !.error = error,
                                        !.batch = <<>>, !.buffer = <<>>]

\* A write or the close fails once the daemon has stopped reading, or with the
\* transport; the answer that may have been sent is not read.
ClientWriteFails ==
    /\ client.phase = "sending" /\ (broken \/ up.ended = "stopped")
    /\ Fail("transport")
    /\ UNCHANGED <<job, up, server, down, broken>>

\* readAll, decodeReqResMessageSequence and decodeUnaryResponse.
ClientReadsAnswer ==
    /\ client.phase = "reading" /\ ~IsServerStream /\ down.ended = "fin"
    /\ \E messages \in {DecodeAll(down.bytes)} :
       LET answer == messages.value[1]
       IN  IF messages.status = "bad" THEN Fail("malformed")
           ELSE IF Len(messages.value) # 1 THEN Fail("not one answer")
           ELSE IF answer.variant = "responseUnaryError" THEN Fail(ErrorIn(job, answer))
           ELSE IF answer.variant # "responseUnaryOk" THEN Fail("not an answer")
           ELSE \E value \in {ValueIn(job, answer)} :
                    IF value.status = "bad" THEN Fail("malformed")
                    ELSE client' = [client EXCEPT !.phase = "done", !.values = <<value.value>>]
    /\ down' = [down EXCEPT !.bytes = <<>>]
    /\ UNCHANGED <<job, up, server, broken>>

\* A server stream is left before its end: the reader is cancelled.
Cancelled == [bytes |-> <<>>, ended |-> IF down.ended = "fin" THEN "fin" ELSE "stopped"]
Raise(error) == Fail(error) /\ down' = Cancelled

\* streamServerEvents: reader.read() yields a piece, whose complete messages are
\* handed out one by one before the next piece is read.
ClientReads ==
    /\ client.phase = "reading" /\ IsServerStream /\ client.batch = <<>>
    /\ \E n \in Pieces(down.bytes) :
        LET buffered == client.buffer \o SubSeq(down.bytes, 1, n)
        IN  \E prefix \in {DecodePrefix(buffered)} :
            IF prefix.status = "bad" THEN Raise("malformed")
            ELSE /\ client' = [client EXCEPT
                        !.buffer = Unread(buffered, prefix.next),
                        !.batch = prefix.value]
                 /\ down' = [down EXCEPT !.bytes = SubSeq(@, n + 1, Len(@))]
    /\ UNCHANGED <<job, up, server, broken>>

ClientYields ==
    /\ client.phase = "reading" /\ client.batch # <<>>
    /\ LET message == Head(client.batch)
       IN  IF message.variant = "responseStreamErrorEnd" THEN Raise(ErrorIn(job, message))
           ELSE IF message.variant \notin {"responseStreamStart", "responseStreamChunk"}
           THEN Raise("not an answer")
           ELSE \E value \in {ValueIn(job, message)} :
                IF value.status = "bad" THEN Raise("malformed")
                ELSE /\ client' = [client EXCEPT !.batch = Tail(@),
                                                 !.values = Append(@, value.value)]
                     /\ UNCHANGED down
    /\ UNCHANGED <<job, up, server, broken>>

\* Mutant: a read that yields nothing is taken for the end.
ClientEndsAtPause ==
    /\ client.phase = "reading" /\ IsServerStream /\ client.batch = <<>>
    /\ down.bytes = <<>>
    /\ client' = [client EXCEPT !.phase = "done"]
    /\ UNCHANGED <<job, up, server, down, broken>>

ClientEnds ==
    /\ client.phase = "reading" /\ IsServerStream /\ client.batch = <<>>
    /\ down.bytes = <<>> /\ down.ended = "fin"
    /\ IF client.buffer # <<>> THEN Fail("incomplete")
       ELSE client' = [client EXCEPT !.phase = "done"]
    /\ UNCHANGED <<job, up, server, down, broken>>

\* The consumer returns from its loop at an event.
ConsumerLeaves ==
    /\ client.phase = "reading" /\ IsServerStream /\ client.values # <<>> /\ job.lossy
    /\ client' = [client EXCEPT !.phase = "left", !.batch = <<>>, !.buffer = <<>>]
    /\ down' = Cancelled
    /\ UNCHANGED <<job, up, server, broken>>

\* The transport failed, or the daemon reset its direction.
ClientReadFails ==
    /\ client.phase = "reading" /\ client.batch = <<>>
    /\ broken \/ down.ended = "reset"
    /\ Fail("transport")
    /\ UNCHANGED <<job, up, server, down, broken>>

-----------------------------------------------------------------------------
(* The daemon's side *)

\* Returning from the stream's task drops both halves: reading is stopped, and
\* what was not finished is ended in the transport library's way.
Dropped == [up EXCEPT !.bytes = <<>>, !.ended = IF @ = "fin" THEN "fin" ELSE "stopped"]
Abandon ==
    /\ server' = [server EXCEPT !.phase = "ended"]
    /\ up' = Dropped
    /\ \E end \in IF broken THEN {"reset"} ELSE {"fin", "reset"} :
            down' = IF down.ended = "no" THEN [down EXCEPT !.ended = end] ELSE down

\* ReqResMessageReader::read_more and what next() then finds in the buffer.
ServerReads ==
    /\ server.phase = "reading" /\ ~broken
    /\ \E n \in Pieces(up.bytes) :
        LET buffer == server.buffer \o SubSeq(up.bytes, 1, n)
        IN  \E prefix \in {DecodePrefix(buffer)} :
            IF server.bytesRead + n > MaxSequence \/ prefix.status = "bad" THEN Abandon
            ELSE /\ server' = [server EXCEPT
                        !.bytesRead = @ + n,
                        !.buffer = Unread(buffer, prefix.next),
                        !.inbox = @ \o prefix.value]
                 /\ up' = [up EXCEPT !.bytes = SubSeq(@, n + 1, Len(@))]
                 /\ UNCHANGED down
    /\ UNCHANGED <<job, client, broken>>

\* The request of a call without a request stream is handled when its end is
\* seen behind its one message.
ServerHandles ==
    /\ server.phase = "reading" /\ ~IsClientStream
    /\ up.bytes = <<>> /\ up.ended = "fin" /\ server.buffer = <<>>
    /\ Len(server.inbox) = 1
    /\ server' = [server EXCEPT !.phase = "answering", !.handled = 1]
    /\ UNCHANGED <<job, client, up, down, broken>>

\* A handler with a request stream takes one message after the other ...
ServerTakes ==
    /\ server.phase = "reading" /\ IsClientStream
    /\ server.handled < Len(server.inbox)
    /\ server' = [server EXCEPT !.handled = @ + 1]
    /\ UNCHANGED <<job, client, up, down, broken>>

\* ... answers at the end of the stream, or refuses earlier.
ServerDecides ==
    /\ server.phase = "reading" /\ IsClientStream
    /\ server.handled = Len(server.inbox) /\ server.handled > 0
    /\ \/ up.bytes = <<>> /\ up.ended = "fin" /\ server.buffer = <<>>
       \/ job.answer.error # "none"
    /\ server' = [server EXCEPT !.phase = "answering"]
    /\ UNCHANGED <<job, client, up, down, broken>>

\* write_reqres_message; it fails when the client has left or the transport has.
ServerWrites ==
    /\ server.phase = "answering" /\ server.sent < Answers(job)
    /\ IF broken \/ down.ended = "stopped" THEN Abandon
       ELSE /\ server' = [server EXCEPT !.sent = @ + 1]
            /\ down' = [down EXCEPT !.bytes = @ \o Encode(Answer(job, server.sent + 1))]
            /\ UNCHANGED up
    /\ UNCHANGED <<job, client, broken>>

\* send.finish() and the end of the task.
ServerFinishes ==
    /\ server.phase = "answering" /\ server.sent = Answers(job)
    /\ server' = [server EXCEPT !.phase = "ended"]
    /\ up' = Dropped
    /\ down' = IF down.ended = "no" THEN [down EXCEPT !.ended = "fin"] ELSE down
    /\ UNCHANGED <<job, client, broken>>

\* Reading fails with the transport or at an end inside a message, and the
\* stream's task ends.
ServerReadFails ==
    /\ server.phase = "reading"
    /\ broken \/ (up.bytes = <<>> /\ up.ended = "fin" /\ server.buffer # <<>>)
    /\ Abandon
    /\ UNCHANGED <<job, client, broken>>

TransportFails ==
    /\ ~broken /\ job.lossy
    /\ broken' = TRUE
    /\ UNCHANGED <<job, client, up, server, down>>

-----------------------------------------------------------------------------
ClientNext ==
    \/ ClientWrites \/ ClientCloses \/ ClientWriteFails \/ ClientReadsAnswer
    \/ ClientReads \/ ClientYields \/ ClientEnds \/ ClientReadFails
ServerNext ==
    \/ ServerReads \/ ServerHandles \/ ServerTakes \/ ServerDecides
    \/ ServerWrites \/ ServerFinishes \/ ServerReadFails

Next == ClientNext \/ ServerNext \/ ConsumerLeaves \/ TransportFails

\* The client's promises and the daemon's task go on while they can; consumers
\* need not leave and the transport need not fail.
Spec == Init /\ [][Next]_vars /\ WF_vars(ClientNext) /\ WF_vars(ServerNext)

-----------------------------------------------------------------------------
(* Properties *)

\* The values a consumer is to be given: all of the answer's, except a last one
\* of a variant it does not know.
Expected ==
    IF job.unknown = "variant" THEN Front(job.answer.values) ELSE job.answer.values

\* Whatever the pieces in which the bytes arrive, a caller is given the values
\* the daemon's handler answered with, in order, each as it was: fields it does
\* not know are ignored and nothing is skipped, repeated or taken from half a
\* message.  A call that completes has been given all of them.
ValuesInOrder ==
    /\ IsPrefix(client.values, Expected)
    /\ client.phase = "done" => client.values = job.answer.values
    /\ client.phase = "failed" /\ client.error = "malformed" => client.values = Expected

\* The daemon's handler is given the caller's requests, in order and as they
\* were, however the bytes of the request stream were cut.
RequestsArrive ==
    \A i \in 1..server.handled :
        LET request == RequestIn(job, server.inbox[i])
        IN  /\ AddressedTo(job, server.inbox[1])
            /\ request.status = "ok" /\ request.value = job.requests[i]

\* A call does not complete when the daemon reported an error or sent less than
\* its whole answer, and an error that is raised is the daemon's, unless the
\* transport or the daemon's task broke off or the answer is of a newer schema.
ErrorsAreAnswers ==
    /\ client.phase = "done" => job.answer.error = "none" /\ server.sent = Answers(job)
    /\ client.phase = "failed" =>
            \/ client.error = "transport"
            \/ client.error = job.answer.error
            \/ client.error = "malformed" /\ job.unknown = "variant"
            \/ server.sent < Answers(job)

\* Every call ends: it completes, fails or is left.
CallEnds == <>(client.phase \in {"done", "failed", "left"})
=============================================================================
