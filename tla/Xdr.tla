-------------------------------- MODULE Xdr ---------------------------------
(***************************************************************************)
(* The encoder and the decoder of XDR, src/xdr/encode.go, decode.go and    *)
(* tag.go: reflection over a type and its tags.  A message is marshalled,  *)
(* or made by a peer, perhaps cut short, perhaps followed by another one,  *)
(* and unmarshalled into a new value.                                      *)
(*                                                                         *)
(* A byte has Base values, 256 in the code; a word has four.  Maps,        *)
(* floats, times and interfaces are in no message and left out.            *)
(*                                                                         *)
(* The code calls itself for the parts of a value.  Here the call is a     *)
(* constant, Enc, that a configuration makes the operator it calls,        *)
(* Encode, and Recursion is the equation between the two: what RECURSIVE   *)
(* would say, in a form that theorems can be proved from.                  *)
(***************************************************************************)
EXTENDS XdrTypes

CONSTANTS
  Base,        \* values of a byte
  Types,       \* names of the messages
  Type(_),     \* the type of a message
  Values(_),   \* the values that are sent
  Streams(_),  \* what a peer may send instead, bytes in any order
  Depth(_),    \* how deep a value is nested
  MaxDepth,    \* how deep a type is, from one optional pointer to the next
  Enc(_, _, _), Dec(_, _, _), New(_),         \* calls of Encode, Decode, Zero
  Has(_, _, _, _, _), Shape(_, _), Size(_)    \* HasType, HasShape, EntriesSize

VARIABLES
  message,  \* its name
  value,    \* what is sent
  stream,   \* the encoded bytes
  fate,     \* what became of them on the way
  phase,
  result    \* of the decoder

vars == <<message, value, stream, fate, phase, result>>

Byte == 0 .. Base - 1
Wide == Base * Base * Base * Base
MaxUint == Wide - 1
MaxInt32 == (Wide \div 2) - 1

\* tag.go: the value of an option of a tag, where it is first, and <<>> if it
\* is not there.
Get(tag, opt) ==
  LET found == {i \in DOMAIN tag : tag[i][1] = opt}
  IN  IF found = {} THEN <<>>
      ELSE <<tag[CHOOSE i \in found : \A j \in found : i <= j][2]>>

\* The cases of a field, given the discriminant so far: <<>> if there is none.
Selected(tag, union) ==
  union # <<>> => /\ Get(tag, "unionnotcase") # union
                  /\ Get(tag, "unioncase") \in {<<>>, union}

\* The value of a discriminant, a number or a Boolean.
Discriminant(type, v) ==
  IF type.kind = "bool" THEN IF v THEN <<1>> ELSE <<0>> ELSE <<v>>

\* The discriminant after a field.
Known(field, v, union) ==
  IF Get(field.tag, "union") # <<>> THEN Discriminant(field.type, v) ELSE union

\* Mutant of Padding: four bytes after a whole word.
PaddingFour(size) == 4 - (size % 4)

Padding(size) == (4 - (size % 4)) % 4

\* The zero value of a type, which a new target has.
Zero(type) ==
  CASE type.kind \in {"int", "uint", "uhyper"} -> 0
    [] type.kind = "bool" -> FALSE
    [] type.kind = "fixed" -> [i \in 1 .. type.size |-> 0]
    [] type.kind = "struct" -> [i \in DOMAIN type.of |-> New(type.of[i].type)]
    [] OTHER -> <<>>

-----------------------------------------------------------------------------
(* encode.go.  A failure is an encoding that is not ok. *)

Written(bytes) == [ok |-> TRUE, bytes |-> bytes]
Unwritten == [ok |-> FALSE, bytes |-> <<>>]
Then(first, second) ==
  IF first.ok /\ second.ok THEN Written(first.bytes \o second.bytes)
  ELSE Unwritten

\* Big-endian: v >> 24, v >> 16, v >> 8 and v, and a byte of each.
EncodeUint(v) ==
  LET a == v \div Base
      b == a \div Base
      c == b \div Base
  IN  <<c % Base, b % Base, a % Base, v % Base>>
EncodeUhyper(v) == EncodeUint(v \div Wide) \o EncodeUint(v)
EncodeBool(v) == EncodeUint(IF v THEN 1 ELSE 0)

\* Mutant of EncodeFixedOpaque: no padding.
EncodeUnpadded(v) == v

EncodeFixedOpaque(v) == v \o [i \in 1 .. Padding(Len(v)) |-> 0]
EncodeOpaque(v) == EncodeUint(Len(v)) \o EncodeFixedOpaque(v)

\* encodeFixedArray: one element after the other.
EncodeItems(type, v) ==
  IF type.size = 0 THEN Written(<<>>)
  ELSE Then(Enc(type.of, Head(v), <<>>),
            Enc(Array(type.size - 1, type.of), Tail(v), <<>>))

\* encodeArray: the length first.
EncodeSlice(type, v) ==
  Then(Written(EncodeUint(Len(v))), Enc(Array(Len(v), type.of), v, <<>>))

\* A field of a struct: an optional pointer, the cases, the field.
EncodeField(field, v, union) ==
  IF Get(field.tag, "optional") # <<>>
  THEN Then(Written(EncodeBool(v # <<>>)),
            IF v = <<>> THEN Written(<<>>) ELSE Enc(field.type, v, <<>>))
  ELSE IF Selected(field.tag, union) THEN Enc(field.type, v, <<>>)
  ELSE Written(<<>>)

\* encodeStruct from a field on, given the discriminant so far: a field that
\* is the discriminant sets it first.
EncodeFields(fields, v, union) ==
  IF fields = <<>> THEN Written(<<>>)
  ELSE
    LET known == Known(Head(fields), Head(v), union)
    IN  Then(EncodeField(Head(fields), Head(v), known),
             Enc(Tagged(Tail(fields)), Tail(v), known))

\* encode: by kind; a nil pointer is not valid.  The discriminant is that of
\* the fields before, in a part of a struct.
Encode(type, v, union) ==
  CASE type.kind \in {"int", "uint"} -> Written(EncodeUint(v))
    [] type.kind = "uhyper" -> Written(EncodeUhyper(v))
    [] type.kind = "bool"   -> Written(EncodeBool(v))
    [] type.kind = "opaque" -> Written(EncodeOpaque(v))
    [] type.kind = "fixed"  -> Written(EncodeFixedOpaque(v))
    [] type.kind = "array"  -> EncodeItems(type, v)
    [] type.kind = "slice"  -> EncodeSlice(type, v)
    [] type.kind = "ptr"    ->
         IF v = <<>> THEN Unwritten ELSE Enc(Named(type.of), v[1], <<>>)
    [] type.kind = "struct" -> EncodeFields(type.of, v, union)

-----------------------------------------------------------------------------
(* decode.go.  What is decoded, and the bytes left. *)

Read(v, rest) == [ok |-> TRUE, value |-> v, rest |-> rest]
Unread == [ok |-> FALSE, value |-> <<>>, rest |-> <<>>]

\* Mutant of ReadFull: what there is will do.
ReadSome(s, n) ==
  Read(SubSeq(s \o [i \in 1 .. n |-> 0], 1, n), SubSeq(s, n + 1, Len(s)))

\* io.ReadFull.
ReadFull(s, n) ==
  IF Len(s) < n THEN Unread ELSE Read(SubSeq(s, 1, n), SubSeq(s, n + 1, Len(s)))

\* Big-endian, four bytes and eight.
Number(b) == ((b[1] * Base + b[2]) * Base + b[3]) * Base + b[4]
Hyper(b) == Number(b) * Wide + Number(SubSeq(b, 5, 8))
Signed(v) == IF v > MaxInt32 THEN v - Wide ELSE v

DecodeUint(s) ==
  LET r == ReadFull(s, 4) IN IF r.ok THEN Read(Number(r.value), r.rest) ELSE Unread
DecodeInt(s) ==
  LET r == DecodeUint(s) IN IF r.ok THEN Read(Signed(r.value), r.rest) ELSE Unread
DecodeUhyper(s) ==
  LET r == ReadFull(s, 8) IN IF r.ok THEN Read(Hyper(r.value), r.rest) ELSE Unread
DecodeBool(s) ==
  LET r == DecodeInt(s)
  IN  IF r.ok /\ r.value \in {0, 1} THEN Read(r.value = 1, r.rest) ELSE Unread

\* Mutant of DecodeFixedOpaque: the padding is left in the stream.
DecodeUnpadded(s, size) == ReadFull(s, size)

\* A size that overflows an int32 with its padding is refused.
DecodeFixedOpaque(s, size) ==
  LET r == ReadFull(s, size + Padding(size))
  IN  IF size + Padding(size) <= MaxInt32 /\ r.ok
      THEN Read(SubSeq(r.value, 1, size), r.rest) ELSE Unread

DecodeLength(s) ==
  LET r == DecodeUint(s) IN IF r.ok /\ r.value <= MaxInt32 THEN r ELSE Unread
DecodeOpaque(s) ==
  LET size == DecodeLength(s)
  IN  IF size.ok THEN DecodeFixedOpaque(size.rest, size.value) ELSE Unread

\* decodeFixedArray: one element after the other.
DecodeItems(type, s) ==
  IF type.size = 0 THEN Read(<<>>, s)
  ELSE
    LET first == Dec(type.of, s, <<>>)
        others == Dec(Array(type.size - 1, type.of), first.rest, <<>>)
    IN  IF first.ok /\ others.ok
        THEN Read(<<first.value>> \o others.value, others.rest) ELSE Unread

\* The field of a struct that is next in the stream.
DecodeField(field, s, union) ==
  IF Get(field.tag, "optional") # <<>>
  THEN LET hasopt == DecodeBool(s)
       IN  IF ~hasopt.ok THEN Unread
           ELSE IF hasopt.value THEN Dec(field.type, hasopt.rest, <<>>)
           ELSE Read(<<>>, hasopt.rest)
  ELSE IF Selected(field.tag, union) THEN Dec(field.type, s, <<>>)
  ELSE Read(Zero(field.type), s)

\* decodeStruct from a field on: a discriminant is known once it is decoded,
\* and is not when the cases before it skip it.
DecodeFields(fields, s, union) ==
  IF fields = <<>> THEN Read(<<>>, s)
  ELSE
    LET first == DecodeField(Head(fields), s, union)
        known == IF Selected(Head(fields).tag, union)
                 THEN Known(Head(fields), first.value, union) ELSE union
        others == Dec(Tagged(Tail(fields)), first.rest, known)
    IN  IF first.ok /\ others.ok
        THEN Read(<<first.value>> \o others.value, others.rest) ELSE Unread

\* decode: by kind; a nil pointer is allocated.
Decode(type, s, union) ==
  CASE type.kind = "int"    -> DecodeInt(s)
    [] type.kind = "uint"   -> DecodeUint(s)
    [] type.kind = "uhyper" -> DecodeUhyper(s)
    [] type.kind = "bool"   -> DecodeBool(s)
    [] type.kind = "opaque" -> DecodeOpaque(s)
    [] type.kind = "fixed"  -> DecodeFixedOpaque(s, type.size)
    [] type.kind = "array"  -> DecodeItems(type, s)
    [] type.kind = "slice"  ->
         LET size == DecodeLength(s)
         IN  IF size.ok THEN Dec(Array(size.value, type.of), size.rest, <<>>)
             ELSE Unread
    [] type.kind = "ptr"    ->
         LET r == Dec(Named(type.of), s, <<>>)
         IN  IF r.ok THEN Read(<<r.value>>, r.rest) ELSE Unread
    [] type.kind = "struct" -> DecodeFields(type.of, s, union)

-----------------------------------------------------------------------------
(* ReadDir measures a page before it is encoded: an entry is ENTRY3SIZE and *)
(* its name in whole words.                                                *)

READDIRRESOKSIZE == 104
ENTRY3SIZE == 24
EntriesSize(list) ==
  IF list = <<>> THEN 0
  ELSE ENTRY3SIZE + ((Len(list[1][2]) + 3) \div 4) * 4 + Size(list[1][4])

-----------------------------------------------------------------------------
(* What the Go types say of the values that are sent.  A value is finite:  *)
(* it has its type within a number of steps into its parts.                *)

IsTuple(v) == /\ Len(v) \in Nat
              /\ v = [i \in 1 .. Len(v) |-> v[i]]

\* The bytes of an opaque, which are no more than can be decoded.
IsOpaque(v) == v \in Seq(Byte) /\ Len(v) + Padding(Len(v)) <= MaxInt32

\* The field with the discriminant is in every case.
NoCase(tag) ==
  \A opt \in {"optional", "unioncase", "unionnotcase"} : Get(tag, opt) = <<>>

\* v is a value of the type; a pointer that is not optional may be nil or not.
FieldHasType(field, v, union, nil, depth) ==
  /\ Get(field.tag, "union") # <<>> => NoCase(field.tag)
  /\ IF Get(field.tag, "optional") # <<>>
     THEN v = <<>> \/ Has(field.type, v, <<>>, nil, depth)
     ELSE IF Selected(field.tag, union)
     THEN Has(field.type, v, <<>>, nil, depth)
     ELSE v = Zero(field.type)

HasType(type, v, union, nil, depth) ==
  /\ depth \in Nat \ {0}
  /\ CASE type.kind = "int"    -> v \in -MaxInt32 - 1 .. MaxInt32
       [] type.kind = "uint"   -> v \in 0 .. MaxUint
       [] type.kind = "uhyper" -> v \in 0 .. Wide * Wide - 1
       [] type.kind = "bool"   -> v \in BOOLEAN
       [] type.kind = "opaque" -> IsOpaque(v)
       [] type.kind = "fixed"  -> IsOpaque(v) /\ Len(v) = type.size
       [] type.kind = "array"  ->
            /\ IsTuple(v) /\ Len(v) = type.size
            /\ v # <<>> =>
                 /\ Has(type.of, Head(v), <<>>, nil, depth - 1)
                 /\ Has(Array(type.size - 1, type.of), Tail(v), <<>>, nil,
                        depth - 1)
       [] type.kind = "slice"  ->
            /\ IsTuple(v) /\ Len(v) <= MaxInt32
            /\ Has(Array(Len(v), type.of), v, <<>>, nil, depth - 1)
       [] type.kind = "ptr"    ->
            \/ nil /\ v = <<>>
            \/ v = <<v[1]>> /\ Has(Named(type.of), v[1], <<>>, nil, depth - 1)
       [] type.kind = "struct" ->
            /\ IsTuple(v)
            /\ v = <<>> <=> type.of = <<>>
            /\ v # <<>> =>
                 LET field == Head(type.of)
                     known == Known(field, Head(v), union)
                 IN  /\ FieldHasType(field, Head(v), known, nil, depth - 1)
                     /\ Has(Tagged(Tail(type.of)), Tail(v), known, nil, depth - 1)
       [] OTHER -> FALSE

\* A type that a peer may send: every pointer is optional and to one of Nodes.
Nodes == {"Entry3", "Groupnode", "Exportnode"}

HasShape(type, depth) ==
  /\ depth \in Nat \ {0}
  /\ CASE type.kind \in {"int", "uint", "uhyper", "bool", "opaque"} -> TRUE
       [] type.kind = "fixed"  -> type.size \in Nat
       [] type.kind = "slice"  -> Shape(type.of, depth - 1)
       [] type.kind = "struct" ->
            type.of # <<>> =>
              LET field == Head(type.of)
              IN  /\ Get(field.tag, "union") # <<>> => NoCase(field.tag)
                  /\ IF Get(field.tag, "optional") # <<>>
                     THEN field.type.kind = "ptr" /\ field.type.of \in Nodes
                     ELSE Shape(field.type, depth - 1)
                  /\ Shape(Tagged(Tail(type.of)), depth - 1)
       [] OTHER -> FALSE

\* Bytes and words; what is sent has its type, and of the messages that a peer
\* sends the types are finite.  Only Mountbody has a pointer that may be nil.
ASSUME BaseAssumption == Base \in Nat /\ Base >= 2 /\ Base % 2 = 0
ASSUME ValuesAssumption ==
  \A m \in Types : \A v \in Values(m) :
    Has(Type(m), v, <<>>, m = "Mountbody", Depth(v))
ASSUME StreamsAssumption ==
  /\ \A m \in Types : \A s \in Streams(m) :
       s \in Seq(Byte) /\ Shape(Type(m), MaxDepth)
  /\ \A name \in Nodes : Shape(Named(name), MaxDepth)

\* The calls call what they are calls of.
Recursion ==
  /\ \A type, v, union : Enc(type, v, union) = Encode(type, v, union)
  /\ \A type, s, union : Dec(type, s, union) = Decode(type, s, union)
  /\ \A type, v, union, nil, depth :
       Has(type, v, union, nil, depth) = HasType(type, v, union, nil, depth)
  /\ \A type, depth : Shape(type, depth) = HasShape(type, depth)
  /\ \A list : Size(list) = EntriesSize(list)

-----------------------------------------------------------------------------
(* A message on its way. *)

Marshal ==
  /\ phase = "new"
  /\ LET written == Encode(Type(message), value, <<>>)
     IN  /\ stream' = written.bytes
         /\ phase' = IF written.ok THEN "sent" ELSE "failed"
  /\ UNCHANGED <<message, value, fate, result>>

PeerSends ==
  /\ phase = "new"
  /\ stream' \in Streams(message)
  /\ fate' = "peer" /\ phase' = "sent"
  /\ UNCHANGED <<message, value, result>>

\* The record ends too soon.
CutShort ==
  /\ phase = "sent" /\ fate = "whole" /\ stream # <<>>
  /\ \E n \in 0 .. Len(stream) - 1 : stream' = SubSeq(stream, 1, n)
  /\ fate' = "cut"
  /\ UNCHANGED <<message, value, phase, result>>

\* The record has more, as the arguments after a header.
MoreBytes == <<1, 0, 1>>
Follow ==
  /\ phase = "sent" /\ fate = "whole"
  /\ stream' = stream \o MoreBytes
  /\ fate' = "followed"
  /\ UNCHANGED <<message, value, phase, result>>

Unmarshal ==
  /\ phase = "sent"
  /\ result' = Decode(Type(message), stream, <<>>)
  /\ phase' = "read"
  /\ UNCHANGED <<message, value, stream, fate>>

Init ==
  /\ message \in Types
  /\ value \in Values(message)
  /\ stream = <<>> /\ fate = "whole" /\ phase = "new"
  /\ result = Unread

Next == Marshal \/ PeerSends \/ CutShort \/ Follow \/ Unmarshal
Spec == Init /\ [][Next]_vars

-----------------------------------------------------------------------------
(* Properties. *)

\* The variables have their types; what is sent is in whole words.
TypeOK ==
  /\ message \in Types /\ phase \in {"new", "sent", "failed", "read"}
  /\ fate \in {"whole", "cut", "followed", "peer"}
  /\ stream \in Seq(Byte)
  /\ fate = "whole" => Len(stream) % 4 = 0

\* Marshal, Unmarshal: what is written is what is read, to the last byte and
\* no further, whatever arms, lists and padding it has.
RoundTrip ==
  /\ phase = "failed" => message = "Mountbody"
  /\ phase = "read" /\ fate \in {"whole", "followed"} =>
       /\ result.ok /\ result.value = value
       /\ result.rest = IF fate = "whole" THEN <<>> ELSE MoreBytes

\* "An UnmarshalError is returned if there are insufficient bytes remaining":
\* no message is read from a part of its encoding.
CutRefused == phase = "read" /\ fate = "cut" => ~result.ok

\* decode and encode agree on what a peer sent: if it is accepted, then it
\* would be written in as many bytes, and read again as the same.
Remeasured ==
  phase = "read" /\ fate = "peer" /\ result.ok =>
    LET again == Encode(Type(message), result.value, <<>>)
    IN  /\ again.ok
        /\ Len(again.bytes) = Len(stream) - Len(result.rest)
        /\ Decode(Type(message), again.bytes, <<>>) = Read(result.value, <<>>)

\* READDIRRESOKSIZE, "88 bytes attributes, 8 bytes verifier, 4 bytes
\* value_follows for first entry, 4 bytes eof flag", and the sizes of the
\* entries are what the encoder makes of a page, if the attributes follow.
PageMeasured ==
  message = "READDIR3resok" /\ phase = "sent" /\ fate = "whole" =>
    LET attributesFollow == value[1][1]
        size == READDIRRESOKSIZE + EntriesSize(value[3][1])
    IN  IF attributesFollow THEN Len(stream) = size ELSE Len(stream) <= size
=============================================================================
