------------------------------ MODULE XdrTypes ------------------------------
(***************************************************************************)
(* The Go types that gonfs sends and receives, with their XDR tags:        *)
(* src/nfs3/nfstypdef.go and src/oncrpc/rpctypes.go.  A type is a term.    *)
(* Where a struct has only structs and scalars, its fields have no names.  *)
(*                                                                         *)
(* A value of a struct is the tuple of its fields, a pointer is <<>> when  *)
(* it is nil and <<v>> otherwise, an opaque or a string is a tuple of      *)
(* bytes.                                                                  *)
(***************************************************************************)
EXTENDS Integers, Sequences

Kind(kind, size, of) == [kind |-> kind, size |-> size, of |-> of]

\* An enumeration is an integer; "of" has the constants of the source.
Enum(values) == Kind("int", 0, values)
UEnum(values) == Kind("uint", 0, values)
Uint == Kind("uint", 0, {})
Uhyper == Kind("uhyper", 0, {})
Bool == Kind("bool", 0, {})
Opaque == Kind("opaque", 0, {})
Fixed(size) == Kind("fixed", size, {})
Slice(type) == Kind("slice", 0, type)
Array(size, type) == Kind("array", size, type)
\* A pointer to a struct with a name: those may be recursive.
Ptr(name) == Kind("ptr", 0, name)

Field(tag, type) == [tag |-> tag, type |-> type]
Plain(type) == Field(<<>>, type)
Union(type) == Field(<< <<"union", 1>> >>, type)
UnionCase(n, type) == Field(<< <<"unioncase", n>> >>, type)
UnionNotCase(n, type) == Field(<< <<"unionnotcase", n>> >>, type)
Optional(name) == Field(<< <<"optional", 1>> >>, Ptr(name))

Tagged(fields) == Kind("struct", 0, fields)
Struct(types) == Tagged([i \in DOMAIN types |-> Plain(types[i])])

-----------------------------------------------------------------------------
(* nfstypdef.go: what the messages share. *)

Nfsstat3 == UEnum({0, 70})
Nfs_fh3 == Struct(<<Opaque>>)
Diropargs3 == Struct(<<Nfs_fh3, Opaque>>)
Ftype3 == Enum(1 .. 7)
Nfstime3 == Struct(<<Uint, Uint>>)
Specdata3 == Struct(<<Uint, Uint>>)
Fattr3 ==
  Struct(<<Enum({1}), Uint, Uint, Uint, Uint, Uhyper, Uhyper, Specdata3,
           Uhyper, Uhyper, Nfstime3, Nfstime3, Nfstime3>>)
Post_op_attr == Tagged(<<Union(Bool), UnionCase(1, Fattr3)>>)
Pre_op_attr ==
  Tagged(<<Union(Bool), UnionCase(1, Struct(<<Uhyper, Nfstime3, Nfstime3>>))>>)
Wcc_data == Struct(<<Pre_op_attr, Post_op_attr>>)
Post_op_fh3 == Tagged(<<Union(Bool), UnionCase(1, Nfs_fh3)>>)
Verf == Fixed(8)

Set_it(type) == Tagged(<<Union(Bool), UnionCase(1, type)>>)
Set_time == Tagged(<<Union(UEnum(0 .. 2)), UnionCase(2, Nfstime3)>>)
Sattr3 ==
  Struct(<<Set_it(Uint), Set_it(Uint), Set_it(Uint), Set_it(Uhyper),
           Set_time, Set_time>>)
Createhow3 ==
  Tagged(<<Union(Enum(0 .. 2)), UnionCase(2, Verf), UnionNotCase(2, Sattr3)>>)
Devicedata3 == Struct(<<Sattr3, Specdata3>>)
Mknoddata3 ==
  Tagged(<<Union(Ftype3), UnionCase(3, Devicedata3), UnionCase(4, Devicedata3),
           UnionCase(6, Sattr3), UnionCase(7, Sattr3)>>)
Sattrguard3 == Tagged(<<Union(Bool), UnionCase(1, Nfstime3)>>)

Entry3 ==
  Tagged(<<Plain(Uhyper), Plain(Opaque), Plain(Uhyper), Optional("Entry3")>>)
Dirlist3 == Tagged(<<Optional("Entry3"), Plain(Bool)>>)
Groupnode == Tagged(<<Plain(Opaque), Optional("Groupnode")>>)
Exportnode ==
  Tagged(<<Plain(Opaque), Optional("Groupnode"), Optional("Exportnode")>>)
\* Its pointer has no tag: nil cannot be encoded.
Mountbody == Struct(<<Opaque, Opaque, Ptr("Mountbody")>>)

\* What a pointer points to.
Named(name) ==
  CASE name = "Entry3" -> Entry3
    [] name = "Groupnode" -> Groupnode
    [] name = "Exportnode" -> Exportnode
    [] name = "Mountbody" -> Mountbody

-----------------------------------------------------------------------------
(* The arguments and results of the procedures. *)

Result(resok, resfail) ==
  Tagged(<<Union(Nfsstat3), UnionCase(0, resok), UnionNotCase(0, resfail)>>)

FhAttrWcc == Struct(<<Post_op_fh3, Post_op_attr, Wcc_data>>)
OneWcc == Struct(<<Wcc_data>>)
TwoWcc == Struct(<<Wcc_data, Wcc_data>>)
AttrFail == Struct(<<Post_op_attr>>)
READDIR3resok == Struct(<<Post_op_attr, Verf, Dirlist3>>)

WRITE3args == Struct(<<Nfs_fh3, Uhyper, Uint, Enum(0 .. 2), Opaque>>)
LOOKUP3args == Struct(<<Diropargs3>>)
COMMIT3args == Struct(<<Nfs_fh3, Uhyper, Uint>>)
ACCESS3args == Struct(<<Nfs_fh3, Uint>>)
CREATE3args == Struct(<<Diropargs3, Createhow3>>)
SYMLINK3args == Struct(<<Diropargs3, Struct(<<Sattr3, Opaque>>)>>)
MKNOD3args == Struct(<<Diropargs3, Mknoddata3>>)
MKDIR3args == Struct(<<Diropargs3, Sattr3>>)
RENAME3args == Struct(<<Diropargs3, Diropargs3>>)
READDIR3args == Struct(<<Nfs_fh3, Uhyper, Verf, Uint>>)
LINK3args == Struct(<<Nfs_fh3, Diropargs3>>)
SETATTR3args == Struct(<<Nfs_fh3, Sattr3, Sattrguard3>>)

Mountres3 ==
  Tagged(<<Union(Enum({0, 13})),
           UnionCase(0, Struct(<<Opaque, Slice(Enum({1}))>>))>>)
Exports == Tagged(<<Optional("Exportnode")>>)
WRITE3res == Result(Struct(<<Wcc_data, Uint, Enum(0 .. 2), Verf>>), OneWcc)
LOOKUP3res == Result(Struct(<<Nfs_fh3, Post_op_attr, Post_op_attr>>), AttrFail)
COMMIT3res == Result(Struct(<<Wcc_data, Verf>>), OneWcc)
ACCESS3res == Result(Struct(<<Post_op_attr, Uint>>), AttrFail)
GETATTR3res ==
  Tagged(<<Union(Nfsstat3), UnionCase(0, Struct(<<Fattr3>>))>>)
CREATE3res == Result(FhAttrWcc, OneWcc)
REMOVE3res == Result(OneWcc, OneWcc)
READ3res == Result(Struct(<<Post_op_attr, Uint, Bool, Opaque>>), AttrFail)
FSINFO3res ==
  Result(Struct(<<Post_op_attr>> \o [i \in 1 .. 7 |-> Uint]
                \o <<Uhyper, Nfstime3, Uint>>), AttrFail)
FSSTAT3res ==
  Result(Struct(<<Post_op_attr>> \o [i \in 1 .. 6 |-> Uhyper] \o <<Uint>>),
         AttrFail)
PATHCONF3res ==
  Result(Struct(<<Post_op_attr, Uint, Uint, Bool, Bool, Bool, Bool>>), AttrFail)
READLINK3res == Result(Struct(<<Post_op_attr, Opaque>>), AttrFail)
MKNOD3res == Result(FhAttrWcc, OneWcc)
RENAME3res == Result(TwoWcc, TwoWcc)
READDIR3res == Result(READDIR3resok, AttrFail)
LINK3res ==
  Result(Struct(<<Post_op_attr, Wcc_data>>), Struct(<<Post_op_attr, Wcc_data>>))
SETATTR3res == Result(OneWcc, OneWcc)

-----------------------------------------------------------------------------
(* rpctypes.go: the header of a message. *)

OpaqueAuth == Struct(<<Enum({0, 1}), Opaque>>)
MismatchReply == Struct(<<Uint, Uint>>)
CallBody == Struct(<<Uint, Uint, Uint, Uint, OpaqueAuth, OpaqueAuth>>)
AcceptedReply ==
  Tagged(<<Plain(OpaqueAuth), Union(Enum(0 .. 5)),
           UnionCase(1, MismatchReply), UnionCase(2, MismatchReply)>>)
RejectedReply ==
  Tagged(<<Union(Enum({0, 1})), UnionCase(0, MismatchReply),
           UnionCase(1, Enum(0 .. 7))>>)
ReplyBody ==
  Tagged(<<Union(Enum({0, 1})), UnionCase(0, AcceptedReply),
           UnionCase(1, RejectedReply)>>)
RPCMsg ==
  Tagged(<<Plain(Uint), Union(Enum({0, 1})), UnionCase(0, CallBody),
           UnionCase(1, ReplyBody)>>)
=============================================================================
