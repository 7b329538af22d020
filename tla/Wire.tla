-------------------------------- MODULE Wire --------------------------------
(***************************************************************************)
(* wgo-wire: the types of the envelope (web/src/protocol/generated/wire.ts)*)
(* and how envelope messages follow each other on a stream                 *)
(* (web/src/protocol/wire.ts): the kind and the fields of each message as  *)
(* two CBOR items, without the array around a union.                       *)
(***************************************************************************)
EXTENDS Codec

SessionAuthErrorCode == Enum(<<1, 2, 3, 4>>)
RpcErrorKind == Enum(<<1, 2>>)
ReqResMessage == Union(<<
    Variant(0, "requestUnary", <<Required(1, "procId", U53), Optional(2, "payload", Binary)>>),
    Variant(1, "requestStreamStart", <<Required(1, "procId", U53),
        Optional(2, "payload", Binary)>>),
    Variant(2, "requestStreamChunk", <<Required(2, "payload", Binary)>>),
    Variant(3, "responseUnaryOk", <<Optional(2, "payload", Binary)>>),
    Variant(4, "responseUnaryError", <<Required(3, "error", Binary),
        Required(4, "errorKind", RpcErrorKind)>>),
    Variant(5, "responseStreamStart", <<Optional(2, "payload", Binary)>>),
    Variant(6, "responseStreamChunk", <<Required(2, "payload", Binary)>>),
    Variant(7, "responseStreamErrorEnd", <<Required(3, "error", Binary),
        Required(4, "errorKind", RpcErrorKind)>>),
    Variant(8, "sessionAuthenticate", <<Required(1, "mechanism", String),
        Required(2, "payload", Binary)>>),
    Variant(9, "sessionAuthenticated", <<>>),
    Variant(10, "sessionAuthError", <<Required(1, "code", SessionAuthErrorCode),
        Required(2, "message", String)>>)>>)
PairedSecretCredential == Struct(<<Required(1, "credentialId", String),
    Required(2, "credentialSecret", String)>>)
RpcErrorCode == Enum(<<1, 2, 3, 4, 6, 7, 8, 9>>)
RpcErrorPayload == Struct(<<Required(1, "code", RpcErrorCode),
    Required(2, "message", String)>>)
DatagramMessage == Union(<<
    Variant(1, "ping", <<Required(1, "pingId", U53)>>),
    Variant(2, "pong", <<Required(1, "pingId", U53)>>)>>)

-----------------------------------------------------------------------------
Message(name, fields) == UnionValue(name, fields)
PayloadOf(message) ==
    IF "payload" \in DOMAIN message.fields THEN <<message.fields.payload.data>> ELSE <<>>

encodeReqResMessage(message) ==
    Bind(encodeValue(ReqResMessage, message), LAMBDA pair :
        encodeCbor(pair.items[1]) \o encodeCbor(pair.items[2]))

\* Every second item with the one before it, as messages; "bad" if one is not.
Paired(items) ==
    AllDecoded([i \in 1..(Len(items) \div 2) |->
                   decodeValue(ReqResMessage,
                       Array(<<items[2 * i - 1].value, items[2 * i].value>>))])

\* The messages that are complete, and the offset behind the last of them.
decodeReqResMessageSequencePrefix(b) ==
    Then(decodeCborSequencePrefix(b), LAMBDA items :
        LET pairs == Len(items.value) \div 2
        IN  Then(Paired(items.value), LAMBDA messages :
                 Read(messages.value, IF pairs = 0 THEN 0 ELSE items.value[2 * pairs].next)))

decodeReqResMessageSequence(b) ==
    Then(decodeCborSequence(b), LAMBDA items :
        IF Len(items.value) % 2 # 0 THEN Bad ELSE Paired(items.value))
=============================================================================
