------------------------------- MODULE ProtoWire -------------------------------
(***************************************************************************)
(* Decoding a protobuf body without its schema (bodydecoder/protobuf.go):  *)
(* fields by number, and a guess at what each run of bytes is.  The Consume *)
(* functions are those of the protowire library.  A body is a sequence of  *)
(* bytes; a decoded message is a sequence of entries [key, vals], and a    *)
(* value says how it is shown and holds what is shown.                     *)
(***************************************************************************)
EXTENDS Queries, Integers, FiniteSets, SequencesExt

CONSTANT WireBodies   \* asked of decodeWireFields

Fail == [ok |-> FALSE]

After(s, n) == SubSeq(s, n + 1, Len(s))

\* The lengths of the values at the front of b that a varint can have.
VarintEnds(b) == {n \in 1 .. Len(b) : b[n] < 128 /\ \A i \in 1 .. n - 1 : b[i] >= 128}

ConsumeVarint(b) ==
  IF VarintEnds(b) = {} THEN Fail
  ELSE LET n == CHOOSE m \in VarintEnds(b) : TRUE
           v[i \in 1 .. n + 1] == IF i > n THEN 0 ELSE (b[i] % 128) + 128 * v[i + 1]
       IN  [ok |-> TRUE, n |-> n, v |-> v[1]]

ConsumeTag(b) ==
  LET t == ConsumeVarint(b)
  IN  IF ~t.ok THEN Fail
      ELSE IF t.v \div 8 = 0 THEN Fail
      ELSE [ok |-> TRUE, n |-> t.n, num |-> t.v \div 8, type |-> t.v % 8]

ConsumeFixed(b, n) == IF Len(b) < n THEN Fail ELSE [ok |-> TRUE, n |-> n, v |-> SubSeq(b, 1, n)]

ConsumeBytes(b) ==
  LET l == ConsumeVarint(b)
  IN  IF ~l.ok THEN Fail
      ELSE IF Len(b) < l.n + l.v THEN Fail
      ELSE [ok |-> TRUE, n |-> l.n + l.v, v |-> SubSeq(b, l.n + 1, l.n + l.v)]

RECURSIVE ConsumeGroup(_, _), SkipField(_, _, _)

\* The length of the value of a field that lies in a group.
SkipField(b, num, type) ==
  CASE type = 0 -> ConsumeVarint(b)
    [] type = 1 -> ConsumeFixed(b, 8)
    [] type = 2 -> ConsumeBytes(b)
    [] type = 3 -> ConsumeGroup(num, b)
    [] type = 5 -> ConsumeFixed(b, 4)
    [] OTHER -> Fail

\* Everything up to the end tag of the same number, which n counts and v leaves out.
ConsumeGroup(num, b) ==
  LET end[i \in 0 .. Len(b)] ==
        LET t == ConsumeTag(After(b, i))
            f == SkipField(After(b, i + t.n), t.num, t.type)
        IN  IF ~t.ok THEN Fail
            ELSE IF t.type = 4
              THEN IF t.num = num THEN [ok |-> TRUE, n |-> i + t.n, v |-> SubSeq(b, 1, i)]
                   ELSE Fail
            ELSE IF ~f.ok THEN Fail
            ELSE end[i + t.n + f.n]
  IN  end[0]

-----------------------------------------------------------------------------
(* protobuf.go *)

\* orderedFields.append with only the first and the last value of a repeated field.
appendFieldReplaces(fields, num, val) ==
  IF \E i \in DOMAIN fields : fields[i].key = num
    THEN [i \in DOMAIN fields |->
            IF fields[i].key = num
              THEN [fields[i] EXCEPT !.vals = <<@[1], val>>] ELSE fields[i]]
    ELSE Append(fields, [key |-> num, vals |-> <<val>>])

\* orderedFields.append: a field that came before gets one more value.
appendField(fields, num, val) ==
  IF \E i \in DOMAIN fields : fields[i].key = num
    THEN [i \in DOMAIN fields |->
            IF fields[i].key = num
              THEN [fields[i] EXCEPT !.vals = Append(@, val)] ELSE fields[i]]
    ELSE Append(fields, [key |-> num, vals |-> <<val>>])

\* As many runes as bytes: those of ASCII, and those that are not valid UTF-8.  Here a
\* byte from 192 on and one from 128 to 191 after it are one rune of two bytes.
Runes(b) ==
  Len(b) - Cardinality({i \in 1 .. Len(b) - 1 : b[i] >= 192 /\ b[i + 1] \in 128 .. 191})

isReadableString(b) ==
  /\ b # << >>
  /\ \A i \in DOMAIN b : b[i] >= 32 \/ b[i] \in {9, 10, 13}
  /\ Len(b) = Runes(b)

RECURSIVE decodeWireFields(_)

interpretBytes(b) ==
  LET nested == decodeWireFields(b)
  IN  IF nested.ok /\ nested.fields # << >> THEN [as |-> "message", v |-> nested.fields]
      ELSE IF isReadableString(b) THEN [as |-> "text", v |-> b]
      ELSE [as |-> "base64", v |-> b]

\* One field's value: how much of b it takes and how it is shown.  Numbers of fixed size
\* are shown as float or integer, whichever looks meaningful.
FieldValue(b, num, type) ==
  LET c == SkipField(b, num, type)
      nested == decodeWireFields(c.v)
      shown(how, v) == [ok |-> TRUE, n |-> c.n, val |-> [as |-> how, v |-> v]]
  IN  IF ~c.ok THEN Fail
      ELSE CASE type = 0 -> shown("varint", c.v)
             [] type \in {1, 5} -> shown("fixed", c.v)
             [] type = 2 -> [ok |-> TRUE, n |-> c.n, val |-> interpretBytes(c.v)]
             [] type = 3 -> IF nested.ok THEN shown("group", nested.fields) ELSE Fail

decodeWireFields(body) ==
  LET RECURSIVE Loop(_, _)
      Loop(b, fields) ==
        LET t == ConsumeTag(b)
            f == FieldValue(After(b, t.n), t.num, t.type)
        IN  IF b = << >> THEN [ok |-> TRUE, fields |-> fields]
            ELSE IF ~t.ok THEN Fail
            ELSE IF ~f.ok THEN Fail
            ELSE Loop(After(b, t.n + f.n), appendField(fields, t.num, f.val))
  IN  Loop(body, << >>)

-----------------------------------------------------------------------------

WireInit == Ask("wire", WireBodies)

DecodeWire == Answer("wire", decodeWireFields(query))

WireNext == DecodeWire

-----------------------------------------------------------------------------
(* Properties *)

RECURSIVE Varint(_), Wire(_, _), Written(_)

Varint(n) == IF n < 128 THEN <<n>> ELSE <<(n % 128) + 128>> \o Varint(n \div 128)

Tag(num, type) == Varint(num * 8 + type)

\* The bytes of one shown value.
Wire(num, val) ==
  LET sized(b) == Tag(num, 2) \o Varint(Len(b)) \o b
  IN  CASE val.as = "varint" -> Tag(num, 0) \o Varint(val.v)
        [] val.as = "fixed" -> Tag(num, IF Len(val.v) = 4 THEN 5 ELSE 1) \o val.v
        [] val.as \in {"text", "base64"} -> sized(val.v)
        [] val.as = "message" -> sized(Written(val.v))
        [] val.as = "group" -> Tag(num, 3) \o Written(val.v) \o Tag(num, 4)

Written(fields) ==
  FlattenSeq([i \in DOMAIN fields |->
    FlattenSeq([j \in DOMAIN fields[i].vals |-> Wire(fields[i].key, fields[i].vals[j])])])

\* Nothing of a message is lost or made up by the decoding without a schema: writing the
\* fields again gives the bytes of the body, up to the order of the fields, however deeply
\* repeated fields, nested messages and groups contain each other.  (Numbers of a body are
\* written as short as they can be; what JSON makes of text that is not UTF-8 is the
\* matter of ReadableIsUTF8.)
NothingIsLost ==
  LET Count(s, x) == Cardinality({i \in DOMAIN s : s[i] = x})
      again == Written(Result.fields)
  IN  Answered("wire") /\ Result.ok =>
        /\ Len(again) = Len(query)
        /\ \A x \in ToSet(query) : Count(again, x) = Count(query, x)

\* "Must be valid UTF-8": of two bytes that are not ASCII, those that are one rune are
\* shown as text and those that are none are not.  It is the other way round, since the
\* runes are counted: TLC refutes this (README, "Divergences").
ReadableIsUTF8 ==
  LET utf8(b) == b[1] >= 192 /\ b[2] \in 128 .. 191
  IN  Answered("wire") /\ Result.ok =>
        \A i \in DOMAIN Result.fields : \A j \in DOMAIN Result.fields[i].vals :
          LET val == Result.fields[i].vals[j] IN
          val.as \in {"text", "base64"} /\ Len(val.v) = 2 /\ val.v[1] >= 128 /\ val.v[2] >= 128
            => (val.as = "text" <=> utf8(val.v))
=============================================================================
