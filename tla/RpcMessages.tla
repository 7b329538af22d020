----------------------------- MODULE RpcMessages -----------------------------
(***************************************************************************)
(* What the messages of an RPC say: how the web client                     *)
(* (web/src/protocol/client.ts) and the daemon (daemon/host/src/server.rs) *)
(* put the requests and the answer of a call into envelope messages, and   *)
(* what they find in those they receive.  A call is [proc, requests,       *)
(* answer, unknown], see RpcCall; the codecs are those of Wire.            *)
(***************************************************************************)
EXTENDS Wire, RpcSchema

StreamOf(call) == procs[call.proc].stream

-----------------------------------------------------------------------------
(* The client's side *)

encodeRequest(proc, value) ==
    IF value = VoidValue THEN << >>
    ELSE [payload |-> Bytes(encodeCbor(encodeValue(proc.request, value)))]

RequestMessage(call, i) ==
    LET payload == encodeRequest(procs[call.proc], call.requests[i])
        procId == [procId |-> Whole(call.proc)]
    IN  IF StreamOf(call) # "client" THEN Message("requestUnary", procId @@ payload)
        ELSE IF i = 1 THEN Message("requestStreamStart", procId @@ payload)
        ELSE Message("requestStreamChunk", payload)

\* throwRpcError: the error of the method's own type, or a system error.
ErrorOf(call, message) ==
    LET method == message.fields.errorKind = Whole(2)
        type == IF method THEN procs[call.proc].error ELSE RpcErrorPayload
        decoded == Then(decodeCbor(message.fields.error.data), LAMBDA c :
                        decodeValue(type, c.value))
    IN  IF decoded.status = "bad" THEN "malformed"
        ELSE IF method THEN decoded.value.variant
        ELSE "system"

\* proc.decodeResponse.  The answer of a call may have no payload, which decodes
\* "undefined"; an event of a server stream must have one.
ResponseOf(call, message) ==
    LET payload == PayloadOf(message)
        type == procs[call.proc].response
    IN  IF payload = <<>>
        THEN IF type = Void /\ StreamOf(call) # "server" THEN Decoded(VoidValue) ELSE Bad
        ELSE Then(decodeCbor(payload[1]), LAMBDA c : decodeValue(type, c.value))

-----------------------------------------------------------------------------
(* The daemon's side *)

\* The proc that handles the call, and what its handler is given.
HandledBy(call, message) == message.fields.procId = Whole(call.proc)
RequestOf(call, message) ==
    LET payload == PayloadOf(message)
    IN  IF payload = <<>> THEN Decoded(VoidValue)
        ELSE Then(decodeCbor(payload[1]), LAMBDA c :
                  decodeValue(procs[call.proc].request, c.value))

\* What a newer daemon may add: a field, or for the last value another variant.
AsNewer(call, c, i) ==
    LET extra(fields) == Map([id \in DOMAIN fields.entries \cup {99} |->
                                 IF id = 99 THEN Text(<<>>) ELSE fields.entries[id]])
    IN  CASE call.unknown = "field" /\ c.k = "map" -> extra(c)
          [] call.unknown = "field" /\ c.k = "array" -> Array(<<c.items[1], extra(c.items[2])>>)
          [] call.unknown = "variant" /\ i = Len(call.answer.values) ->
                Array(<<Whole(99), c.items[2]>>)
          [] OTHER -> c
Newer(call, value, i) == Bind(value, LAMBDA c : AsNewer(call, c, i))

Payload(call, value, i) ==
    IF value = VoidValue THEN << >>
    ELSE LET response == encodeValue(procs[call.proc].response, value)
         IN  [payload |-> Bytes(encodeCbor(Newer(call, response, i)))]

\* error_message, stream_error_message: the method's error, or a system error.
ErrorFields(call) ==
    IF call.answer.error = "system"
    THEN [error |-> Bytes(encodeCbor(encodeValue(RpcErrorPayload,
                        StructValue([code |-> Whole(8), message |-> Text(<<>>)])))),
          errorKind |-> Whole(1)]
    ELSE [error |-> Bytes(encodeCbor(encodeValue(procs[call.proc].error,
                        UnionValue(call.answer.error, [message |-> Text(<<>>)])))),
          errorKind |-> Whole(2)]

AnswerMessage(call, i) ==
    IF i > Len(call.answer.values)
    THEN Message(IF StreamOf(call) = "server" THEN "responseStreamErrorEnd"
                 ELSE "responseUnaryError", ErrorFields(call))
    ELSE Message(IF StreamOf(call) # "server" THEN "responseUnaryOk"
                 ELSE IF i = 1 THEN "responseStreamStart" ELSE "responseStreamChunk",
                 Payload(call, call.answer.values[i], i))
=============================================================================
