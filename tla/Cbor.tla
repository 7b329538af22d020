-------------------------------- MODULE Cbor --------------------------------
(***************************************************************************)
(* The CBOR codec of the web client (web/src/protocol/cbor.ts): values,    *)
(* their bytes, and the decoder with its two ways to fail.  "end" means    *)
(* that the bytes stop inside a value (more may come), "bad" that no more  *)
(* bytes can mend it.  An integer n is kept as the CBOR argument, which is *)
(* n, or -1 - n when n is negative, in four limbs of 16 bits: TLC's own    *)
(* integers are too narrow for 53 bits.                                    *)
(***************************************************************************)
EXTENDS Integers, FiniteSets, SequencesExt

Byte == 0..255

\* CborValue.  Each kind has fields of its own, so that values can be compared.
Null == [k |-> "null"]
Bool(b) == [k |-> "bool", truth |-> b]
Number(neg, arg) == [k |-> "int", neg |-> neg, arg |-> arg]
F64(be8) == [k |-> "f64", bits |-> be8]
Text(utf8) == [k |-> "text", utf8 |-> utf8]
Bytes(bs) == [k |-> "bytes", data |-> bs]
Array(items) == [k |-> "array", items |-> items]
Map(entries) == [k |-> "map", entries |-> entries]

Argument(n) == <<0, 0, n \div 65536, n % 65536>>
Whole(n) == Number(n < 0, Argument(IF n < 0 THEN -1 - n ELSE n))

-----------------------------------------------------------------------------
(* Encoding *)

\* TLC evaluates an argument at each of its uses inside an action, and a function
\* at each application.  Bind gives F the value of v evaluated once, Kept is f with
\* its values at hand.
Bind(v, F(_)) == CHOOSE y \in {F(x) : x \in {v}} : TRUE
Kept(f) == f @@ << >>
Concatenated(seqs) == Bind(Kept(seqs), FlattenSeq)

Low(arg) == SubSeq(arg, 1, 2) = <<0, 0>>
Short(arg) == Low(arg) /\ arg[3] = 0

\* be: the big-endian bytes of the limbs from the given one on.
be(arg, from) ==
    Concatenated([i \in 1..(5 - from) |->
                    LET w == arg[from + i - 1] IN <<w \div 256, w % 256>>])

encodeTypeValue(major, arg) ==
    LET prefix == major * 32
    IN  IF Short(arg) /\ arg[4] < 24 THEN <<prefix + arg[4]>>
        ELSE IF Short(arg) /\ arg[4] <= 255 THEN <<prefix + 24, arg[4]>>
        ELSE IF Short(arg) THEN <<prefix + 25>> \o be(arg, 4)
        ELSE IF Low(arg) THEN <<prefix + 26>> \o be(arg, 3)
        ELSE <<prefix + 27>> \o be(arg, 1)

\* The keys of a map in their order; no schema uses one above 99.
Ascending(keys) == SelectSeq([id \in 1..99 |-> id], LAMBDA id : id \in keys)

RECURSIVE encodeCbor(_)
encodeItem(v) ==
    LET Counted(major, n) == encodeTypeValue(major, Argument(n))
    IN  CASE v.k = "null" -> <<246>>
          [] v.k = "bool" -> <<IF v.truth THEN 245 ELSE 244>>
          [] v.k = "int" -> encodeTypeValue(IF v.neg THEN 1 ELSE 0, v.arg)
          [] v.k = "f64" -> <<251>> \o v.bits
          [] v.k = "text" -> Counted(3, Len(v.utf8)) \o v.utf8
          [] v.k = "bytes" -> Counted(2, Len(v.data)) \o v.data
          [] v.k = "array" ->
                Counted(4, Len(v.items))
                    \o Concatenated([i \in DOMAIN v.items |-> encodeCbor(v.items[i])])
          [] v.k = "map" ->
                Bind(Ascending(DOMAIN v.entries), LAMBDA keys :
                    Counted(5, Len(keys))
                        \o Concatenated([i \in DOMAIN keys |->
                              encodeTypeValue(0, Argument(keys[i]))
                                  \o encodeCbor(v.entries[keys[i]])]))
encodeCbor(value) == Bind(value, encodeItem)

-----------------------------------------------------------------------------
(* Decoding: each operator reads from offset at (the next byte is b[at + 1]) *)

End == [status |-> "end"]
Bad == [status |-> "bad"]
Read(value, next) == [status |-> "ok", value |-> value, next |-> next]

readFixedUint(b, at, n) ==
    IF at + n > Len(b) THEN End
    ELSE LET padded == [i \in 1..8 |-> IF i <= 8 - n THEN 0 ELSE b[at + n - 8 + i]]
         IN  Read([i \in 1..4 |-> padded[2 * i - 1] * 256 + padded[2 * i]], at + n)

\* 2^53 - 1 and what readU64AsU53 and readNegativeArg let pass.
MaxSafe == <<31, 65535, 65535, 65535>>
readU64AsU53(b, at) ==
    LET r == readFixedUint(b, at, 8)
    IN  IF r.status = "ok" /\ r.value[1] > MaxSafe[1] THEN Bad ELSE r

readArg(b, at, additional) ==
    CASE additional < 24 -> Read(Argument(additional), at)
      [] additional = 24 -> readFixedUint(b, at, 1)
      [] additional = 25 -> readFixedUint(b, at, 2)
      [] additional = 26 -> readFixedUint(b, at, 4)
      [] additional = 27 -> readU64AsU53(b, at)
      [] OTHER -> Bad

\* A length as a number: one beyond the bytes at hand stands for every longer one.
Size(arg, most) ==
    IF Low(arg) /\ arg[3] < 128 /\ arg[3] * 65536 + arg[4] <= most
    THEN arg[3] * 65536 + arg[4] ELSE most + 1

\* TextDecoder("utf-8", { fatal: true }), for texts of one- and two-byte characters.
ValidUtf8(bs) ==
    \A i \in DOMAIN bs :
        LET follows(j) == j \in DOMAIN bs /\ bs[j] \in 128..191
        IN  \/ bs[i] < 128
            \/ bs[i] \in 194..223 /\ follows(i + 1)
            \/ follows(i) /\ i > 1 /\ bs[i - 1] \in 194..223

Finite(bits) == ~(bits[1] % 128 = 127 /\ bits[2] >= 240)

readBytes(b, at, n) ==
    IF at + n > Len(b) THEN End ELSE Read(SubSeq(b, at + 1, at + n), at + n)

\* What goes on with the value r read, unless reading it failed.
Then(result, Continue(_)) ==
    Bind(result, LAMBDA r : IF r.status = "ok" THEN Continue(r) ELSE r)

RECURSIVE decode(_, _), decodeItems(_, _, _), decodeEntries(_, _, _, _)

decodeItems(b, at, n) ==
    IF n = 0 THEN Read(<<>>, at)
    ELSE Then(decode(b, at), LAMBDA head :
         Then(decodeItems(b, head.next, n - 1), LAMBDA rest :
              Read(<<head.value>> \o rest.value, rest.next)))

decodeEntries(b, at, n, map) ==
    IF n = 0 THEN Read(map, at)
    ELSE Then(decode(b, at), LAMBDA key :
         LET id == Size(key.value.arg, 65535)
         IN  IF key.value.k # "int" \/ key.value.neg \/ id \in DOMAIN map THEN Bad
             ELSE Then(decode(b, key.next), LAMBDA item :
                  Bind(map @@ (id :> item.value), LAMBDA more :
                       decodeEntries(b, item.next, n - 1, more))))

\* A value of a kind whose head is an argument, arg, and the offset behind it.
decodeCounted(b, major, arg) ==
    LET size == Size(arg.value, Len(b))
    IN  CASE major = 0 -> Read(Number(FALSE, arg.value), arg.next)
          [] major = 1 -> IF arg.value = MaxSafe THEN Bad
                          ELSE Read(Number(TRUE, arg.value), arg.next)
          [] major = 2 -> Then(readBytes(b, arg.next, size), LAMBDA r :
                               Read(Bytes(r.value), r.next))
          [] major = 3 -> Then(readBytes(b, arg.next, size), LAMBDA r :
                               IF ValidUtf8(r.value) THEN Read(Text(r.value), r.next) ELSE Bad)
          \* Array.from refuses a length of 2^32 or more.
          [] major = 4 -> IF ~Low(arg.value) THEN Bad
                          ELSE Then(decodeItems(b, arg.next, size), LAMBDA r :
                                    Read(Array(r.value), r.next))
          [] major = 5 -> Then(decodeEntries(b, arg.next, size, << >>), LAMBDA r :
                               Read(Map(r.value), r.next))

decodeAt(b, at) ==
    IF at = Len(b) THEN End
    ELSE
    LET major == b[at + 1] \div 32
        additional == b[at + 1] % 32
    IN  CASE major < 6 -> Then(readArg(b, at + 1, additional), LAMBDA arg :
                               decodeCounted(b, major, arg))
          [] major = 7 /\ additional \in {20, 21} -> Read(Bool(additional = 21), at + 1)
          [] major = 7 /\ additional = 22 -> Read(Null, at + 1)
          [] major = 7 /\ additional = 27 -> Then(readBytes(b, at + 1, 8), LAMBDA r :
                               IF Finite(r.value) THEN Read(F64(r.value), r.next) ELSE Bad)
          [] OTHER -> Bad
decode(bytes, at) == Bind(bytes, LAMBDA b : Bind(at, LAMBDA offset : decodeAt(b, offset)))

\* decodeCbor: one value and nothing after it.
decodeCbor(b) ==
    Bind(decode(b, 0), LAMBDA r : IF r.status = "ok" /\ r.next = Len(b) THEN r ELSE Bad)

\* decodeCborSequencePrefix: the complete items at the front of b, each with
\* the offset behind it; "bad" when an item is malformed, whatever precedes it.
RECURSIVE decodeSequenceFrom(_, _)
decodeSequenceFrom(b, at) ==
    Bind(decode(b, at), LAMBDA head :
        IF head.status = "end" THEN Read(<<>>, at)
        ELSE Then(head, LAMBDA item :
             Then(decodeSequenceFrom(b, item.next), LAMBDA rest :
                  Read(<<item>> \o rest.value, rest.next))))
decodeCborSequencePrefix(bytes) == Bind(bytes, LAMBDA b : decodeSequenceFrom(b, 0))

\* decodeCborSequence: the whole of b is items.
decodeCborSequence(b) ==
    Then(decodeCborSequencePrefix(b), LAMBDA r : IF r.next = Len(b) THEN r ELSE Bad)
=============================================================================
