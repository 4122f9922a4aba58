----------------------------- MODULE RecordMark -----------------------------
(***************************************************************************)
(* Record marking on one direction of a connection, src/oncrpc/record.go:  *)
(* records are cut into fragments, each behind a header that has its size  *)
(* and whether it is the last one.  The reader is ReadFullRecord; the      *)
(* writer is WriteFullRecord or a peer, which may cut records as it likes. *)
(* The connection may be cut at any byte.                                  *)
(*                                                                         *)
(* A header is one item of the stream, <<0, header>>, and the i-th byte of *)
(* the k-th record is <<k, i>>.  The width of the size, 31 bits, and the   *)
(* other sizes are parameters.                                             *)
(***************************************************************************)
EXTENDS Integers, SequencesExt

CONSTANTS
  Width,          \* bits of the size in a header
  maxRecordSize,  \* the first capacity of the buffer of the reader
  MinRead,        \* bytes.MinRead: room a bytes.Buffer makes before a Read
  HeaderSize,     \* bytes of a header
  Lengths,        \* of the records that are sent
  MaxRecords      \* how many are sent

VARIABLES
  writer,    \* "gonfs" or "peer"
  sent,      \* the records sent so far, the last one perhaps in part
  out,       \* what the writer is at
  wire,      \* headers and bytes under way
  open,      \* FALSE once the connection is cut or closed by the writer
  reader,    \* the loop of ReadFullRecord
  record,    \* the buffer, and its capacity
  capacity,
  received   \* the records it returned

writing == <<writer, sent, out>>
reading == <<reader, record, capacity, received>>
vars == <<writing, wire, open, reading>>

\* The range of the size in a header is said too, as provers know no powers.
ASSUME SizeAssumption ==
  /\ Width \in Nat /\ 2 ^ Width \in Nat \ {0}
  /\ maxRecordSize \in Nat /\ MinRead \in Nat
  /\ HeaderSize \in Nat \ {0} /\ MaxRecords \in Nat
  /\ Lengths \subseteq Nat

LastBit == 2 ^ Width
maxRecordFragmentSize == LastBit - 1

\* Mutant of getFragmentSize: the bit counts.
sizeWithBit(fragmentHeader) == fragmentHeader

isLastFragment(fragmentHeader) == fragmentHeader \div LastBit = 1
getFragmentSize(fragmentHeader) == fragmentHeader % LastBit

\* Mutant of createFragmentHeader: the bit is set only below a full fragment.
createHeaderShort(size, lastFragment) ==
  (size % LastBit)
    + (IF lastFragment /\ size < maxRecordFragmentSize THEN LastBit ELSE 0)

createFragmentHeader(size, lastFragment) ==
  (size % LastBit) + (IF lastFragment THEN LastBit ELSE 0)

\* The k-th record, of n bytes.
Data(k, n) == [i \in 1 .. n |-> <<k, i>>]
Current == Last(sent)

-----------------------------------------------------------------------------
(* The writer. *)

SendRecord ==
  /\ open /\ out.pc = "idle" /\ Len(sent) < MaxRecords
  /\ \E n \in Lengths : sent' = Append(sent, Data(Len(sent) + 1, n))
  /\ out' = [pc |-> "fragment", total |-> 0]
  /\ UNCHANGED <<writer, wire, open, reading>>

PutFragment(start, size, lastFragment) ==
  wire' = wire \o << <<0, createFragmentHeader(size, lastFragment)>> >>
               \o SubSeq(Current, start + 1, start + size)

\* WriteFullRecord: one fragment as a rule.  totalBytesWritten counts the
\* headers too, and the slice ends at the size of the fragment, so that for a
\* second one it is out of bounds, which ends the process.
WriteFragment ==
  /\ writer = "gonfs" /\ open /\ out.pc = "fragment"
  /\ LET remaining == Len(Current) - out.total
         lastFragment == remaining <= maxRecordFragmentSize
         size == IF lastFragment THEN remaining ELSE maxRecordFragmentSize
     IN  \/ /\ 0 <= size /\ out.total <= size
            /\ PutFragment(out.total, size, lastFragment)
            /\ out' = [pc |-> IF lastFragment THEN "idle" ELSE "fragment",
                       total |-> out.total + HeaderSize + size]
            /\ UNCHANGED <<writer, sent, open>>
         \/ /\ size < 0 \/ out.total > size
            /\ out' = [out EXCEPT !.pc = "panic"]
            /\ open' = FALSE
            /\ UNCHANGED <<writer, sent, wire>>
  /\ UNCHANGED reading

\* A peer sends the rest of the record in fragments of any size; the
\* last one has the end of the record, and may be empty.
PeerFragment ==
  /\ writer = "peer" /\ open /\ out.pc = "fragment"
  /\ \E size \in 0 .. maxRecordFragmentSize, lastFragment \in BOOLEAN :
       LET end == out.total + size IN
       /\ end <= Len(Current)
       /\ lastFragment => end = Len(Current)
       /\ size = 0 => lastFragment
       /\ PutFragment(out.total, size, lastFragment)
       /\ out' = [pc |-> IF lastFragment THEN "idle" ELSE "fragment",
                  total |-> end]
  /\ UNCHANGED <<writer, sent, open, reading>>

\* The connection is lost with any part of what is under way.
Cut ==
  /\ open
  /\ open' = FALSE
  /\ \E n \in 0 .. Len(wire) : wire' = SubSeq(wire, 1, n)
  /\ UNCHANGED <<writing, reading>>

-----------------------------------------------------------------------------
(* ReadFullRecord. *)

\* Mutant of Room: the buffer must not be filled to the last byte.
RoomBelow(size) == size < capacity - Len(record)

Room(size) == size <= capacity - Len(record)

ReadHeader ==
  /\ reader.pc = "header" /\ wire # <<>>
  /\ LET fragmentHeader == Head(wire)[2]
         size == getFragmentSize(fragmentHeader)
     IN  reader' = [pc |-> IF Room(size) THEN "copy" ELSE "exceeded",
                    left |-> size, last |-> isLastFragment(fragmentHeader)]
  /\ wire' = Tail(wire)
  /\ UNCHANGED <<writing, open, record, capacity, received>>

\* A bytes.Buffer makes room for MinRead bytes before every Read, the one that
\* finds the end of the fragment too, and so may have grown when it is full.
Grown(length) ==
  IF capacity - length < MinRead THEN 2 * capacity + MinRead ELSE capacity

\* Mutant of Joined: the buffer has the last fragment only.
LastOnly(fragment) == fragment

Joined(fragment) == record \o fragment

\* CopyN; after the last fragment the record is returned, and the next one has
\* a new buffer.
CopyFragment ==
  /\ reader.pc = "copy" /\ Len(wire) >= reader.left
  /\ LET whole == Joined(SubSeq(wire, 1, reader.left)) IN
     IF reader.last
     THEN /\ received' = Append(received, whole)
          /\ record' = <<>> /\ capacity' = maxRecordSize
     ELSE /\ record' = whole
          /\ capacity' = Grown(Len(whole))
          /\ UNCHANGED received
  /\ wire' = SubSeq(wire, reader.left + 1, Len(wire))
  /\ reader' = [reader EXCEPT !.pc = "header"]
  /\ UNCHANGED <<writing, open>>

\* The stream ends within a header, a fragment or between two: an error, and
\* what was read of the record is dropped.
ReadError ==
  /\ ~open
  /\ \/ reader.pc = "header" /\ wire = <<>>
     \/ reader.pc = "copy" /\ Len(wire) < reader.left
  /\ reader' = [reader EXCEPT !.pc = "error"]
  /\ UNCHANGED <<writing, wire, open, record, capacity, received>>

-----------------------------------------------------------------------------
Init ==
  /\ writer \in {"gonfs", "peer"}
  /\ sent = <<>> /\ out = [pc |-> "idle", total |-> 0]
  /\ wire = <<>> /\ open = TRUE
  /\ reader = [pc |-> "header", left |-> 0, last |-> FALSE]
  /\ record = <<>> /\ capacity = maxRecordSize
  /\ received = <<>>

ReadFullRecord == ReadHeader \/ CopyFragment \/ ReadError
Next == SendRecord \/ WriteFragment \/ PeerFragment \/ Cut \/ ReadFullRecord

Spec == Init /\ [][Next]_vars

\* Both ends go on as long as they can; a peer ends its records.
FairSpec ==
  /\ Spec
  /\ WF_vars(WriteFragment) /\ WF_vars(PeerFragment)
  /\ WF_vars(ReadFullRecord)

-----------------------------------------------------------------------------
(* Properties. *)

\* The variables have their types; what is under way is a stream of headers
\* and bytes.
TypeOK ==
  /\ Len(sent) <= MaxRecords /\ Len(received) <= Len(sent)
  /\ out.pc \in {"idle", "fragment", "panic"} /\ out.total \in Nat
  /\ open \in BOOLEAN
  /\ reader.pc \in {"header", "copy", "exceeded", "error"}
  /\ reader.left \in 0 .. maxRecordFragmentSize /\ reader.last \in BOOLEAN
  /\ capacity \in Nat /\ Len(record) <= capacity

\* WriteFullRecord, ReadFullRecord: the records that are returned are those
\* that were sent, whole and in order, however they are cut into fragments
\* and wherever the connection is cut.
RecordsIntact == IsPrefix(received, sent)

\* ReadFullRecord refuses no record that is within maxRecordSize.
WithinAccepted ==
  reader.pc = "exceeded" => Len(sent[Len(received) + 1]) > maxRecordSize

\* The two loops: a record that was begun is returned as it was sent, or one
\* end fails.
RecordArrives ==
  \A k \in 1 .. MaxRecords :
    Len(sent) = k ~> \/ Len(received) >= k /\ IsPrefix(received, sent)
                     \/ ~open
                     \/ reader.pc = "exceeded"
=============================================================================
