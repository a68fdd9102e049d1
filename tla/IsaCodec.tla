------------------------------ MODULE IsaCodec ------------------------------
(***************************************************************************)
(* The CBOR codec of ISA programs and results (src/isa/codec.ts) and the   *)
(* replay of a result from its journal (result.ts).  Pure operators.       *)
(*                                                                         *)
(* A JSON value is [t |-> "null"], [t |-> "bool", b], [t |-> "text", s],   *)
(* [t |-> "num", neg, mag], [t |-> "arr", items] or [t |-> "map", entries],*)
(* with s a sequence of code points (a surrogate among them is one without *)
(* its other half), entries a sequence of <<key, value>> in the order of   *)
(* the keys, and mag the magnitude in base 256, without leading zeros:     *)
(* TLC's integers are narrower than JavaScript's.  Only integers are       *)
(* modelled, minus zero among them (neg, and no digit); a fraction is eight*)
(* bytes after 0xfb.                                                       *)
(***************************************************************************)
EXTENDS Integers, Sequences, SequencesExt, FiniteSets

CONSTANTS
    MAX_CBOR_DEPTH, MAX_CBOR_COLLECTION_LENGTH,     \* limits of the reader
    MaxSpread       \* arguments a call may have: the writer pushes a text as arguments

(***************************************************************************)
(* Numbers in base 256                                                     *)
(***************************************************************************)
Padded(digits, width) == [i \in 1..width - Len(digits) |-> 0] \o digits

Trimmed(digits) ==
    LET lead == {i \in 1..Len(digits) : \A j \in 1..i : digits[j] = 0}
    IN  SubSeq(digits, Cardinality(lead) + 1, Len(digits))

RECURSIVE Plus1(_)
Plus1(d) == IF d = <<>> THEN <<1>>
            ELSE IF Last(d) < 255 THEN Append(Front(d), Last(d) + 1) ELSE Append(Plus1(Front(d)), 0)

RECURSIVE Minus1(_)
Minus1(d) == IF Last(d) > 0 THEN Trimmed(Append(Front(d), Last(d) - 1)) ELSE Append(Minus1(Front(d)), 255)

\* Number.MAX_SAFE_INTEGER is 2^53 - 1: six whole digits and five bits.
SafeInteger(digits) == Len(digits) < 7 \/ (Len(digits) = 7 /\ digits[1] < 32)

(***************************************************************************)
(* UTF-8.  Buffer.from writes U+FFFD for half a surrogate pair.            *)
(***************************************************************************)
Surrogates == 55296..57343
Replacement == 65533
ByteOrderMark == 65279

Continuation(n) == 128 + (n % 64)

utf8(c) ==
    CASE c < 128 -> <<c>>
      [] c \in 128..2047 -> <<192 + (c \div 64), Continuation(c)>>
      [] c \in Surrogates -> <<239, 191, 189>>
      [] c \in 2048..65535 \ Surrogates -> <<224 + (c \div 4096), Continuation(c \div 64), Continuation(c)>>
      [] c > 65535 -> <<240 + (c \div 262144), Continuation(c \div 4096), Continuation(c \div 64), Continuation(c)>>

bytesOf(s) == FlattenSeq([i \in 1..Len(s) |-> utf8(s[i])])

\* The code points of bytes that the writer wrote: the reader looks at no other.
RECURSIVE chars(_)
chars(bytes) ==
    IF bytes = <<>> THEN <<>>
    ELSE LET lead == bytes[1]
             w == CASE lead < 128 -> 1 [] lead \in 192..223 -> 2 [] lead \in 224..239 -> 3 [] lead > 239 -> 4
             high == CASE w = 1 -> lead [] w = 2 -> lead - 192 [] w = 3 -> lead - 224 [] w = 4 -> lead - 240
             c == FoldLeft(LAMBDA acc, i : acc * 64 + (bytes[i] - 128), high, [i \in 1..w-1 |-> i + 1])
         IN  <<c>> \o chars(SubSeq(bytes, w + 1, Len(bytes)))

\* TextDecoder, made without ignoreBOM, drops a byte order mark at the start.
decodeText(bytes) ==
    LET s == chars(bytes)
    IN  IF s # <<>> /\ s[1] = ByteOrderMark THEN Tail(s) ELSE s

(***************************************************************************)
(* Writer                                                                  *)
(***************************************************************************)
writeHead(major, digits) ==
    LET d == IF digits = <<>> THEN <<0>> ELSE digits
        n == Len(d)
    IN  IF n = 1 /\ d[1] < 24 THEN <<major * 32 + d[1]>>
        ELSE LET w == CASE n = 1 -> 1 [] n = 2 -> 2 [] n \in 3..4 -> 4 [] OTHER -> 8
                 info == CASE w = 1 -> 24 [] w = 2 -> 25 [] w = 4 -> 26 [] w = 8 -> 27
             IN  <<major * 32 + info>> \o Padded(d, w)

\* A length as a number in base 256
Digits(n) == IF n = 0 THEN <<>> ELSE IF n < 256 THEN <<n>> ELSE <<n \div 256, n % 256>>

\* The texts of a value, keys among them
RECURSIVE Texts(_)
Texts(v) ==
    CASE v.t = "text" -> {v.s}
      [] v.t = "arr" -> UNION {Texts(v.items[i]) : i \in 1..Len(v.items)}
      [] v.t = "map" -> UNION {{v.entries[i][1]} \cup Texts(v.entries[i][2]) : i \in 1..Len(v.entries)}
      [] OTHER -> {}

RECURSIVE write(_)
write(v) ==
    CASE v.t = "null" -> <<246>>
      [] v.t = "bool" -> <<IF v.b THEN 245 ELSE 244>>
      [] v.t = "text" -> writeHead(3, Digits(Len(bytesOf(v.s)))) \o bytesOf(v.s)
      [] v.t = "num"  -> IF v.neg /\ v.mag # <<>> THEN writeHead(1, Minus1(v.mag)) ELSE writeHead(0, v.mag)
      [] v.t = "arr"  -> writeHead(4, Digits(Len(v.items)))
                         \o FlattenSeq([i \in 1..Len(v.items) |-> write(v.items[i])])
      [] v.t = "map"  -> writeHead(5, Digits(Len(v.entries)))
                         \o FlattenSeq([i \in 1..Len(v.entries) |->
                                write([t |-> "text", s |-> v.entries[i][1]]) \o write(v.entries[i][2])])

\* <<>> when it throws: more arguments than a call may have
encodeCbor(v) ==
    IF \E s \in Texts(v) : Len(bytesOf(s)) > MaxSpread THEN <<>> ELSE <<write(v)>>

(***************************************************************************)
(* Reader.  A read gives <<>> when it throws, else <<value, offset>>.      *)
(***************************************************************************)
\* Gives <<digits, offset>>, or <<>>: truncated, indefinite, reserved, not a safe integer.
readAdditional(bytes, at, additional) ==
    LET w == CASE additional = 24 -> 1 [] additional = 25 -> 2 [] additional = 26 -> 4
               [] additional = 27 -> 8 [] OTHER -> 0
        digits == Trimmed(SubSeq(bytes, at, at + w - 1))
    IN  IF additional < 24 THEN <<Trimmed(<<additional>>), at>>
        ELSE IF w = 0 \/ at + w - 1 > Len(bytes) \/ ~SafeInteger(digits) THEN <<>>
        ELSE <<digits, at + w>>

Number(digits) == CASE Len(digits) = 0 -> 0 [] Len(digits) = 1 -> digits[1]
                    [] Len(digits) = 2 -> digits[1] * 256 + digits[2] [] OTHER -> 2000000

RECURSIVE readValue(_, _, _)
RECURSIVE readItems(_, _, _, _, _)
RECURSIVE readEntries(_, _, _, _, _)

readItems(bytes, at, depth, n, acc) ==
    IF n = 0 THEN <<acc, at>>
    ELSE LET r == readValue(bytes, at, depth + 1)
         IN  IF r = <<>> THEN <<>> ELSE readItems(bytes, r[2], depth, n - 1, Append(acc, r[1]))

readEntries(bytes, at, depth, n, acc) ==
    IF n = 0 THEN <<acc, at>>
    ELSE LET k == readValue(bytes, at, depth + 1)
         IN  IF k = <<>> THEN <<>>
             ELSE IF k[1].t # "text" \/ \E i \in 1..Len(acc) : acc[i][1] = k[1].s THEN <<>>
             ELSE LET v == readValue(bytes, k[2], depth + 1)
                  IN  IF v = <<>> THEN <<>>
                      ELSE readEntries(bytes, v[2], depth, n - 1, Append(acc, <<k[1].s, v[1]>>))

readValue(bytes, at, depth) ==
    IF depth > MAX_CBOR_DEPTH \/ at > Len(bytes) THEN <<>>
    ELSE LET major == bytes[at] \div 32
             additional == bytes[at] % 32
             head == readAdditional(bytes, at + 1, additional)
         IN  IF major = 7 THEN
                  CASE additional \in {20, 21} -> <<[t |-> "bool", b |-> additional = 21], at + 1>>
                    [] additional = 22 -> <<[t |-> "null"], at + 1>>
                    [] OTHER -> <<>>
             ELSE IF head = <<>> \/ major \in {2, 6} THEN <<>>
             ELSE IF major \in {4, 5} /\ Number(head[1]) > MAX_CBOR_COLLECTION_LENGTH THEN <<>>
             ELSE LET len == Number(head[1])
                  IN  CASE major = 0 -> <<[t |-> "num", neg |-> FALSE, mag |-> head[1]], head[2]>>
                        [] major = 1 -> <<[t |-> "num", neg |-> TRUE, mag |-> Plus1(head[1])], head[2]>>
                        [] major = 3 -> IF head[2] + len - 1 > Len(bytes) THEN <<>>
                                        ELSE <<[t |-> "text",
                                                s |-> decodeText(SubSeq(bytes, head[2], head[2] + len - 1))],
                                               head[2] + len>>
                        [] major = 4 -> LET r == readItems(bytes, head[2], depth, len, <<>>)
                                        IN  IF r = <<>> THEN <<>> ELSE <<[t |-> "arr", items |-> r[1]], r[2]>>
                        [] major = 5 -> LET r == readEntries(bytes, head[2], depth, len, <<>>)
                                        IN  IF r = <<>> THEN <<>> ELSE <<[t |-> "map", entries |-> r[1]], r[2]>>

decodeCbor(bytes) ==
    LET r == readValue(bytes, 1, 0)
    IN  IF r = <<>> THEN <<>> ELSE IF r[2] # Len(bytes) + 1 THEN <<>> ELSE <<r[1]>>

(***************************************************************************)
(* Results.  An instruction result is [id, status, lease]; lease says that *)
(* an indeterminate one names its lease, effects and next actions.  A seed *)
(* or a replayed result is [status, results, nextCursor].                  *)
(***************************************************************************)
createInstructionResult(r) == r.status = "indeterminate" => r.lease

createExecutionResult(e) ==
    /\ \A i \in 1..Len(e.results) : createInstructionResult(e.results[i])
    /\ \A i, j \in 1..Len(e.results) : e.results[i].id = e.results[j].id => i = j

applyEvent(acc, e) ==
    IF e.type = "program.status" THEN [acc EXCEPT !.status = e.status, !.nextCursor = e.sequence]
    ELSE LET at == {i \in 1..Len(acc.results) : acc.results[i].id = e.result.id}
         IN  [acc EXCEPT !.nextCursor = e.sequence,
                !.results = IF at = {} THEN Append(@, e.result)
                            ELSE [@ EXCEPT ![CHOOSE i \in at : \A j \in at : i <= j] = e.result]]

\* <<>> when it throws
replayExecutionResult(seed, events) ==
    LET result == FoldLeft(applyEvent, seed, events)
    IN  IF /\ \A i \in 2..Len(events) : events[i].sequence > events[i - 1].sequence
           /\ \A i \in 1..Len(events) : events[i].type = "instruction.result" =>
                createInstructionResult(events[i].result)
           /\ createExecutionResult(result)
        THEN <<result>> ELSE <<>>
=============================================================================
