------------------------------- MODULE MCXdr --------------------------------
(* Instances of Xdr: the messages of XdrTypes, and samples of their values. *)
EXTENDS Xdr, SequencesExt

MessageType(name) ==
  CASE name = "RPCMsg" -> RPCMsg
    [] name = "READDIR3resok" -> READDIR3resok
    [] name = "Mountbody" -> Mountbody
    [] name = "Sattrguard3" -> Sattrguard3
    [] name = "Post_op_fh3" -> Post_op_fh3
    [] name = "Diropargs3" -> Diropargs3
    [] name = "Groupnode" -> Groupnode
    [] name = "RejectedReply" -> RejectedReply
    [] name = "WRITE3args" -> WRITE3args
    [] name = "LOOKUP3args" -> LOOKUP3args
    [] name = "COMMIT3args" -> COMMIT3args
    [] name = "ACCESS3args" -> ACCESS3args
    [] name = "CREATE3args" -> CREATE3args
    [] name = "SYMLINK3args" -> SYMLINK3args
    [] name = "MKNOD3args" -> MKNOD3args
    [] name = "MKDIR3args" -> MKDIR3args
    [] name = "RENAME3args" -> RENAME3args
    [] name = "READDIR3args" -> READDIR3args
    [] name = "LINK3args" -> LINK3args
    [] name = "SETATTR3args" -> SETATTR3args
    [] name = "Mountres3" -> Mountres3
    [] name = "Exports" -> Exports
    [] name = "WRITE3res" -> WRITE3res
    [] name = "LOOKUP3res" -> LOOKUP3res
    [] name = "COMMIT3res" -> COMMIT3res
    [] name = "ACCESS3res" -> ACCESS3res
    [] name = "GETATTR3res" -> GETATTR3res
    [] name = "CREATE3res" -> CREATE3res
    [] name = "REMOVE3res" -> REMOVE3res
    [] name = "READ3res" -> READ3res
    [] name = "FSINFO3res" -> FSINFO3res
    [] name = "FSSTAT3res" -> FSSTAT3res
    [] name = "PATHCONF3res" -> PATHCONF3res
    [] name = "READLINK3res" -> READLINK3res
    [] name = "MKNOD3res" -> MKNOD3res
    [] name = "RENAME3res" -> RENAME3res
    [] name = "READDIR3res" -> READDIR3res
    [] name = "LINK3res" -> LINK3res
    [] name = "SETATTR3res" -> SETATTR3res

\* The values of a struct: of all fields that the discriminant selects, zero
\* in the others.  A list has at most "depth" entries.
RECURSIVE Samples(_, _), FieldSamples(_, _, _)

FieldSamples(fields, union, depth) ==
  IF fields = <<>> THEN {<<>>}
  ELSE
    LET field == Head(fields)
        first == IF Selected(field.tag, union) THEN Samples(field.type, depth)
                 ELSE {Zero(field.type)}
    IN  UNION {{<<v>> \o others :
                  others \in FieldSamples(Tail(fields),
                               IF Get(field.tag, "union") # <<>>
                               THEN Discriminant(field.type, v) ELSE union, depth)} :
               v \in first}

Samples(type, depth) ==
  CASE type.kind = "bool" -> BOOLEAN
    [] type.kind \in {"int", "uint"} -> IF type.of = {} THEN {MaxUint - 1} ELSE type.of
    [] type.kind = "uhyper" -> {Wide * Base + 1}
    [] type.kind = "opaque" -> {<<1, 0, 1>>, <<1, 1, 1, 1, 0>>}
    [] type.kind = "fixed"  -> {[i \in 1 .. type.size |-> i % Base]}
    [] type.kind = "slice"  -> {<<>>} \cup {<<v, v>> : v \in Samples(type.of, depth)}
    [] type.kind = "struct" -> FieldSamples(type.of, <<>>, depth)
    [] type.kind = "ptr"    ->
         {<<>>} \cup IF depth = 0 THEN {}
                     ELSE {<<v>> : v \in Samples(Named(type.of), depth - 1)}

\* No sample is nested deeper, and no type.
SampleDepth(v) == 30
TypeDepth == 10

SampleValues(name) == Samples(MessageType(name), 2)

\* What a peer sends for a small message: a few words, around zero, a short
\* length and the longest there is, and then a part of one.
SmallMessages ==
  {"Sattrguard3", "Post_op_fh3", "Diropargs3", "Groupnode", "RejectedReply"}
Top == Base - 1
Words ==
  {<<0, 0, 0, 0>>, <<0, 0, 0, 1>>, <<0, 0, 0, 3>>, <<0, 0, 1, 0>>,
   <<1, Top, Top, Top>>, <<2, 0, 0, 0>>, <<Top, Top, Top, Top>>}
ShortStreams(name) ==
  IF name \notin SmallMessages THEN {}
  ELSE {FlattenSeq(words) \o [i \in 1 .. n |-> 1] :
          words \in UNION {[1 .. k -> Words] : k \in 0 .. 4}, n \in {0, 1, 3}}

Messages ==
  SmallMessages \cup
  {"RPCMsg", "READDIR3resok", "Mountbody", "WRITE3args", "LOOKUP3args",
   "COMMIT3args", "ACCESS3args", "CREATE3args", "SYMLINK3args",
   "MKNOD3args", "MKDIR3args", "RENAME3args", "READDIR3args", "LINK3args",
   "SETATTR3args", "Mountres3", "Exports", "WRITE3res", "LOOKUP3res",
   "COMMIT3res", "ACCESS3res", "GETATTR3res", "CREATE3res", "REMOVE3res",
   "READ3res", "FSINFO3res", "FSSTAT3res", "PATHCONF3res", "READLINK3res",
   "MKNOD3res", "RENAME3res", "READDIR3res", "LINK3res", "SETATTR3res"}

\* What is called.  The LET is for TLC alone: its statistics follow a constant
\* into the definition that it stands for, without end if that calls itself,
\* but not through a LET.
EncodeCall(type, v, union) == LET r == Encode(type, v, union) IN r
DecodeCall(type, s, union) == LET r == Decode(type, s, union) IN r
ZeroCall(type) == LET r == Zero(type) IN r
HasTypeCall(type, v, union, nil, depth) ==
  LET r == HasType(type, v, union, nil, depth) IN r
HasShapeCall(type, depth) == LET r == HasShape(type, depth) IN r
EntriesSizeCall(list) == LET r == EntriesSize(list) IN r
=============================================================================
