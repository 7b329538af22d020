------------------------------ MODULE MCRpcCall ------------------------------
EXTENDS RpcCall, RpcMessages

\* A value of every type, and values that differ from it in one place.
Word == Text([i \in 1..24 |-> 97])
Primitives(kind) ==
    CASE kind = "text" -> {Text(<<97>>), Text(<<>>), Text(<<195, 169>>), Word}
      [] kind = "bool" -> {Bool(TRUE), Bool(FALSE)}
      [] kind = "bytes" -> {Bytes(<<255>>), Bytes(<<>>)}
      [] kind = "f64" -> {F64(<<63, 240, 0, 0, 0, 0, 0, 1>>)}
      [] kind = "u53" -> {Whole(n) : n \in {24, 256, 65536}}
                             \cup {Number(FALSE, MaxSafe)}
      [] kind = "i53" -> {Whole(n) : n \in {-1, -25}}
                             \cup {Number(TRUE, <<31, 65535, 65535, 65534>>)}

RECURSIVE Base(_)
BaseOf(fields, only) ==
    [name \in {n \in DOMAIN fields : only => ~fields[n].optional} |-> Base(fields[name].type)]
Base(type) ==
    CASE type.kind = "void" -> VoidValue
      [] type.kind = "list" -> ListValue(<<Base(type.item)>>)
      [] type.kind = "enum" -> Whole(type.ids[Len(type.ids)])
      [] type.kind = "struct" -> StructValue(BaseOf(type.fields, FALSE))
      [] type.kind = "union" -> UnionValue(type.first, BaseOf(type.variants[type.first].fields, FALSE))
      [] OTHER -> CHOOSE p \in Primitives(type.kind) : TRUE

RECURSIVE Samples(_)
SamplesOf(fields) ==
    LET full == BaseOf(fields, FALSE)
    IN  {full, BaseOf(fields, TRUE)}
            \cup UNION {{[full EXCEPT ![name] = s] : s \in Samples(fields[name].type)}
                          : name \in DOMAIN fields}
Samples(type) ==
    CASE type.kind = "void" -> {VoidValue}
      [] type.kind = "list" ->
            {ListValue(<<>>), ListValue(<<Base(type.item), Base(type.item)>>)}
                \cup {ListValue(<<s>>) : s \in Samples(type.item)}
      [] type.kind = "enum" -> {Whole(id) : id \in Range(type.ids)}
      [] type.kind = "struct" -> {StructValue(f) : f \in SamplesOf(type.fields)}
      [] type.kind = "union" ->
            UNION {{UnionValue(name, f) : f \in SamplesOf(type.variants[name].fields)}
                       : name \in DOMAIN type.variants}
      [] OTHER -> Primitives(type.kind)

\* The generator's own checks hold of the schema, and no two procs share an id.
ASSUME SchemaIsValid ==
    /\ \A p, q \in Procs : p.id = q.id => p = q
    /\ \A p \in Procs : Valid(p.request) /\ Valid(p.response) /\ Valid(p.error)

\* The types of the wire that are sent outside of calls come back as they were.
ASSUME WireTypesRoundTrip ==
    \A type \in {PairedSecretCredential, DatagramMessage} : \A value \in Samples(type) :
        Then(decodeCbor(encodeCbor(encodeValue(type, value))), LAMBDA c :
             decodeValue(type, c.value)) = Decoded(value)

-----------------------------------------------------------------------------
AtOnce == {8192}
Job(proc, requests, values, error, unknown, pieces) ==
    [proc |-> proc.id, requests |-> requests, answer |-> [values |-> values, error |-> error],
     unknown |-> unknown, pieces |-> pieces, lossy |-> pieces # AtOnce]

Requests(proc) == IF proc.stream = "client"
                  THEN LET chunk == CHOOSE n \in DOMAIN proc.request.variants : n # proc.request.first
                       IN  <<Base(proc.request),
                             UnionValue(chunk, BaseOf(proc.request.variants[chunk].fields, FALSE))>>
                  ELSE <<Base(proc.request)>>

\* Every value of the samples is the answer of a call, and the request of one;
\* every error of a proc refuses it; a newer daemon adds a field.
Values ==
    UNION {{Job(p, Requests(p), <<v>>, "none", "none", AtOnce) : v \in Samples(p.response)} : p \in Procs}
        \cup UNION {{Job(p, <<r>>, <<Base(p.response)>>, "none", "none", AtOnce)
                        : r \in Samples(p.request)} : p \in Procs}
Refusals ==
    UNION {{Job(p, Requests(p), <<>>, e, "none", AtOnce)
              : e \in DOMAIN p.error.variants \cup {"system"}} : p \in Procs}
NewerAnswers == {Job(p, Requests(p), <<Base(p.response)>>, "none", "field", AtOnce)
             : p \in {q \in Procs : q.response # Void}}

\* Streams of several messages, in pieces.
InPieces == {1, 6, 8192}
Closed == UnionValue("closed", << >>)
Long == [i \in 1..300 |-> i % 256]
Events == <<UnionValue("boundsChanged", << >>), Closed>>
Input(bs) == UnionValue("writeTerminalInputChunk", [bytes |-> Bytes(bs)])
Streams ==
    {Job(subscribeWindowDetailProc, Requests(subscribeWindowDetailProc), v, e, u, InPieces)
        : v \in {Events, <<Closed>>}, e \in {"none", "notFound", "system"}, u \in {"none"}}
    \cup {Job(subscribeWindowDetailProc, Requests(subscribeWindowDetailProc), Events, "none", u, InPieces)
        : u \in {"field", "variant"}}
    \cup {Job(readFileProc, Requests(readFileProc), <<>>, "none", "none", InPieces)}
    \cup {Job(writeTerminalInputProc,
              <<UnionValue("writeTerminalInputStart",
                    [terminalSessionId |-> Text(<<97>>), attachId |-> Text(<<98>>)]),
                Input(<<1>>), Input(rest)>>,
              IF e = "none" THEN <<VoidValue>> ELSE <<>>, e, "none", InPieces)
        : e \in {"none", "notPrimaryAttach"}, rest \in {<<2>>, [i \in 1..30 |-> i]}}
    \cup {Job(closeTerminalSessionProc, Requests(closeTerminalSessionProc), <<VoidValue>>,
              "none", "none", InPieces)}
    \* More than MaxSequence, which the daemon does not take.
    \cup {Job(writeTerminalInputProc,
              <<UnionValue("writeTerminalInputStart",
                    [terminalSessionId |-> Text(<<97>>), attachId |-> Text(<<98>>)]),
                Input(Long), Input(Long)>>, <<VoidValue>>, "none", "none", {300, 8192})}

MCJobs == Values \cup Refusals \cup NewerAnswers \cup Streams
=============================================================================
