--------------------------- MODULE RecordMarkProofs ---------------------------
(***************************************************************************)
(* The records that ReadFullRecord returns are those that were sent, for   *)
(* any sizes, any number of records, any fragments and any cut.            *)
(*                                                                         *)
(* The invariant has a witness that is no variable: the fragments that     *)
(* were ever put on the connection, with their places in its stream.  The  *)
(* reader is at one of them and has taken the first base items of the      *)
(* stream off the wire.                                                    *)
(***************************************************************************)
EXTENDS RecordMark, TLAPS, SequenceTheorems

Items == Nat \X Nat

\* A fragment: the header is the item at of the stream, and the bytes after it
\* are those of the record k from off + 1 on.
Fragments ==
  [k : Nat, off : Nat, at : Nat, size : 0 .. maxRecordFragmentSize,
   last : BOOLEAN]

\* Where the next one begins.
NextK(f) == IF f.last THEN f.k + 1 ELSE f.k
NextOff(f) == IF f.last THEN 0 ELSE f.off + f.size
NextAt(f) == f.at + f.size + 1

Follows(e, f) ==
  f.k = NextK(e) /\ f.off = NextOff(e) /\ f.at = NextAt(e)

\* It is a part of a record that was sent.
PartOf(f, records) ==
  /\ f.k \in 1 .. Len(records)
  /\ f.off + f.size <= Len(records[f.k])
  /\ f.last => f.off + f.size = Len(records[f.k])

\* What of it is under way is what was put there.
UnderWay(f, w, base) ==
  /\ f.at - base \in 1 .. Len(w) =>
       w[f.at - base] = <<0, createFragmentHeader(f.size, f.last)>>
  /\ \A i \in 1 .. f.size :
       f.at + i - base \in 1 .. Len(w) =>
         w[f.at + i - base] = <<f.k, f.off + i>>

\* The fragments after r are still to be read.
Unread(F, r, base, w, records) ==
  \A j \in r + 1 .. Len(F) :
    /\ PartOf(F[j], records) /\ Follows(F[j - 1], F[j])
    /\ UnderWay(F[j], w, base)
    /\ NextAt(F[j]) <= NextAt(F[Len(F)])

\* The reader is before or in the fragment after r.
ReaderAt(F, r, base, rd, n, m) ==
  /\ rd.pc = "header" =>
       NextK(F[r]) = n + 1 /\ NextOff(F[r]) = m /\ NextAt(F[r]) = base + 1
  /\ rd.pc = "copy" =>
       /\ r < Len(F)
       /\ F[r + 1].k = n + 1 /\ F[r + 1].off = m /\ F[r + 1].at = base
       /\ F[r + 1].size = rd.left /\ F[r + 1].last = rd.last

\* The writer is after the last fragment e.  WriteFullRecord counts the header
\* too, so that its step after a fragment that is not the last one is none.
WriterAt(e, o, n) ==
  /\ o.pc = "idle" => NextK(e) = n + 1 /\ NextOff(e) = 0
  /\ o.pc = "fragment" =>
       /\ NextK(e) = n
       /\ \/ NextOff(e) = o.total /\ (writer = "gonfs" => o.total = 0)
          \/ writer = "gonfs" /\ o.total = HeaderSize + maxRecordFragmentSize

Stream(F, r, base) ==
  LET e == F[Len(F)] IN
  /\ r \in 1 .. Len(F)
  /\ Unread(F, r, base, wire, sent)
  /\ ReaderAt(F, r, base, reader, Len(received), Len(record))
  /\ Len(wire) <= NextAt(e) - 1 - base
  /\ open => WriterAt(e, out, Len(sent)) /\ Len(wire) = NextAt(e) - 1 - base

StreamOK ==
  reader.pc \in {"header", "copy"} =>
    \E F \in Seq(Fragments), r \in Nat, base \in Nat : Stream(F, r, base)

-----------------------------------------------------------------------------
(* The rest of the invariant. *)

Types ==
  /\ writer \in {"gonfs", "peer"} /\ open \in BOOLEAN
  /\ sent \in Seq(Seq(Items)) /\ received \in Seq(Seq(Items))
  /\ wire \in Seq(Items) /\ record \in Seq(Items)
  /\ out \in [pc : {"idle", "fragment", "panic"}, total : Nat]
  /\ reader \in [pc : {"header", "copy", "exceeded", "error"},
                 left : 0 .. maxRecordFragmentSize, last : BOOLEAN]
  /\ capacity \in Nat

\* The i-th byte of the k-th record is <<k, i>>.
DataOK ==
  /\ \A k \in 1 .. Len(sent) : sent[k] = Data(k, Len(sent[k]))
  /\ Len(sent) <= MaxRecords
  /\ out.pc = "fragment" => Len(sent) > 0
  /\ Len(received) <= Len(sent)
  /\ reader.pc = "exceeded" => Len(received) < Len(sent)
  /\ \A k \in 1 .. Len(received) : received[k] = sent[k]
  /\ record = Data(Len(received) + 1, Len(record))

BufferOK ==
  /\ maxRecordSize <= capacity /\ Len(record) <= capacity
  /\ reader.pc = "copy" => Len(record) + reader.left <= capacity

IInv == Types /\ DataOK /\ BufferOK /\ WithinAccepted /\ StreamOK

-----------------------------------------------------------------------------
(* Numbers and sequences. *)

\* The sizes of a header are numbers.
LEMMA LastBitType ==
  LastBit \in Nat \ {0} /\ maxRecordFragmentSize \in Nat
  BY SizeAssumption DEF LastBit, maxRecordFragmentSize

\* What is read of a header is what was put into it.
LEMMA HeaderRead ==
  ASSUME NEW size \in 0 .. maxRecordFragmentSize, NEW last \in BOOLEAN
  PROVE  LET h == createFragmentHeader(size, last) IN
         /\ h \in Nat
         /\ getFragmentSize(h) = size /\ (isLastFragment(h) <=> last)
<1> DEFINE L == LastBit
<1>1. L \in Nat \ {0} /\ size \in 0 .. L - 1
  BY LastBitType DEF maxRecordFragmentSize
<1> HIDE DEF L
<1>2. size % L = size /\ size \div L = 0
  BY <1>1
<1>3. (size + L) % L = size
  BY <1>1
<1>4. (size + L) \div L = 1
  BY <1>1
<1>5. CASE last
  BY <1>1, <1>2, <1>3, <1>4, <1>5
     DEF createFragmentHeader, getFragmentSize, isLastFragment, L
<1>6. CASE ~last
  BY <1>1, <1>2, <1>6
     DEF createFragmentHeader, getFragmentSize, isLastFragment, L
<1>7. QED
  BY <1>5, <1>6

\* The bytes of a record, which is as long as it says.
LEMMA DataType ==
  ASSUME NEW k \in Nat, NEW n \in Nat
  PROVE  /\ Data(k, n) \in Seq(Items) /\ Len(Data(k, n)) = n
         /\ \A i \in 1 .. n : Data(k, n)[i] = <<k, i>>
<1>1. Data(k, n) \in [1 .. n -> Items]
  BY DEF Data, Items
<1>2. QED
  BY <1>1 DEF Data

\* The place after a fragment.
LEMMA NextTypes ==
  ASSUME NEW f \in Fragments
  PROVE  NextK(f) \in Nat /\ NextOff(f) \in Nat /\ NextAt(f) \in Nat \ {0}
  BY LastBitType DEF Fragments, NextK, NextOff, NextAt

\* What is under way moves up when the reader takes the first n items, ...
LEMMA UnderWayTaken ==
  ASSUME NEW f \in Fragments, NEW w \in Seq(Items), NEW base \in Nat,
         NEW n \in 0 .. Len(w), UnderWay(f, w, base)
  PROVE  UnderWay(f, SubSeq(w, n + 1, Len(w)), base + n)
<1> DEFINE v == SubSeq(w, n + 1, Len(w))
<1>1. Len(v) = Len(w) - n /\ \A p \in 1 .. Len(v) : v[p] = w[n + p]
  OBVIOUS
<1>2. f.at \in Nat /\ f.off \in Nat /\ f.size \in Nat
  BY LastBitType DEF Fragments
<1> HIDE DEF v
<1>3. ASSUME f.at - (base + n) \in 1 .. Len(v)
      PROVE  /\ v[f.at - (base + n)] = w[f.at - base]
             /\ f.at - base \in 1 .. Len(w)
  <2>1. n + (f.at - (base + n)) = f.at - base /\ Len(w) \in Nat
    BY <1>2
  <2>2. f.at - base \in 1 .. Len(w)
    BY <1>1, <1>2, <1>3, <2>1
  <2>3. QED
    BY <1>1, <1>3, <2>1, <2>2
<1>4. ASSUME NEW i \in 1 .. f.size, f.at + i - (base + n) \in 1 .. Len(v)
      PROVE  /\ v[f.at + i - (base + n)] = w[f.at + i - base]
             /\ f.at + i - base \in 1 .. Len(w)
  <2>1. n + (f.at + i - (base + n)) = f.at + i - base /\ Len(w) \in Nat
    BY <1>2
  <2>2. f.at + i - base \in 1 .. Len(w)
    BY <1>1, <1>2, <1>4, <2>1
  <2>3. QED
    BY <1>1, <1>4, <2>1, <2>2
<1>5. UnderWay(f, v, base + n)
  BY <1>3, <1>4 DEF UnderWay
<1>6. QED
  BY <1>5 DEF v

\* ... is less when the connection is cut, ...
LEMMA UnderWayCut ==
  ASSUME NEW f \in Fragments, NEW w \in Seq(Items), NEW base \in Nat,
         NEW n \in 0 .. Len(w), UnderWay(f, w, base)
  PROVE  UnderWay(f, SubSeq(w, 1, n), base)
<1> DEFINE v == SubSeq(w, 1, n)
<1>1. Len(v) = n /\ \A p \in 1 .. n : v[p] = w[p] /\ p \in 1 .. Len(w)
  OBVIOUS
<1> HIDE DEF v
<1>2. UnderWay(f, v, base)
  BY <1>1 DEF UnderWay
<1>3. QED
  BY <1>2 DEF v

\* ... and stays when the writer puts more behind it.
LEMMA UnderWayLonger ==
  ASSUME NEW f \in Fragments, NEW w \in Seq(Items), NEW v \in Seq(Items),
         NEW base \in Nat, UnderWay(f, w, base),
         NextAt(f) - 1 - base <= Len(w)
  PROVE  UnderWay(f, w \o v, base)
<1> DEFINE u == w \o v
<1>1. \A p \in 1 .. Len(w) : u[p] = w[p]
  OBVIOUS
<1>2. f.at \in Nat /\ f.off \in Nat /\ f.size \in Nat
  BY LastBitType DEF Fragments
<1>3. Len(u) \in Nat /\ Len(w) \in Nat
  OBVIOUS
<1> HIDE DEF u
<1>4. ASSUME f.at - base \in 1 .. Len(u)
      PROVE  f.at - base \in 1 .. Len(w)
  BY <1>2, <1>3, <1>4 DEF NextAt
<1>5. ASSUME NEW i \in 1 .. f.size, f.at + i - base \in 1 .. Len(u)
      PROVE  f.at + i - base \in 1 .. Len(w)
  BY <1>2, <1>3, <1>5 DEF NextAt
<1>6. UnderWay(f, u, base)
  BY <1>1, <1>4, <1>5 DEF UnderWay
<1>7. QED
  BY <1>6 DEF u

\* The fragment f that is put at the end of the connection.
LEMMA UnderWayNew ==
  ASSUME NEW f \in Fragments, NEW w \in Seq(Items), NEW data \in Seq(Items),
         NEW base \in Nat, f.at = Len(w) + 1 + base,
         Len(data) = f.size,
         \A i \in 1 .. f.size : data[i] = <<f.k, f.off + i>>
  PROVE  LET h == << <<0, createFragmentHeader(f.size, f.last)>> >> IN
         UnderWay(f, w \o h \o data, base)
<1> DEFINE h == << <<0, createFragmentHeader(f.size, f.last)>> >>
           u == w \o h \o data
<1>1. f.at \in Nat /\ f.off \in Nat /\ f.size \in Nat
  BY LastBitType DEF Fragments
<1>2. u[Len(w) + 1] = <<0, createFragmentHeader(f.size, f.last)>>
  OBVIOUS
<1>3. ASSUME NEW i \in 1 .. f.size
      PROVE  u[Len(w) + 1 + i] = data[i]
  BY <1>1
<1>4. f.at - base = Len(w) + 1
  BY <1>1
<1>5. ASSUME NEW i \in 1 .. f.size
      PROVE  f.at + i - base = Len(w) + 1 + i
  BY <1>1
<1> HIDE DEF u, h
<1>6. u[f.at - base] = <<0, createFragmentHeader(f.size, f.last)>>
  BY <1>2, <1>4
<1>7. ASSUME NEW i \in 1 .. f.size
      PROVE  u[f.at + i - base] = <<f.k, f.off + i>>
  BY <1>3, <1>5
<1>8. UnderWay(f, u, base)
  BY <1>6, <1>7 DEF UnderWay
<1>9. QED
  BY <1>8 DEF u, h

\* A part of a record stays one when another record is sent.
LEMMA PartOfMore ==
  ASSUME NEW f \in Fragments, NEW s \in Seq(Seq(Items)), NEW d \in Seq(Items),
         PartOf(f, s)
  PROVE  PartOf(f, Append(s, d))
<1>1. f.k \in 1 .. Len(s) /\ Append(s, d)[f.k] = s[f.k]
  BY DEF PartOf
<1>2. f.k \in 1 .. Len(Append(s, d))
  BY <1>1
<1>3. QED
  BY <1>1, <1>2 DEF PartOf
-----------------------------------------------------------------------------
(* The writer's steps. *)

\* The invariant at the start.
LEMMA InitIInv ==
  ASSUME Init
  PROVE  IInv
<1>1. Types
  BY SizeAssumption, LastBitType DEF Init, Types
<1>2. DataOK
  <2>1. Data(1, 0) = <<>>
    BY DEF Data
  <2>2. QED
    BY <2>1, SizeAssumption DEF Init, DataOK
<1>3. BufferOK /\ WithinAccepted
  BY SizeAssumption DEF Init, BufferOK, WithinAccepted
<1>4. StreamOK
  <2> DEFINE e == [k |-> 0, off |-> 0, at |-> 0, size |-> 0, last |-> TRUE]
             F == <<e>>
  <2>1. e \in Fragments
    BY LastBitType DEF Fragments
  <2>2. F \in Seq(Fragments) /\ Len(F) = 1 /\ F[1] = e
    BY <2>1
  <2>3. NextK(e) = 1 /\ NextOff(e) = 0 /\ NextAt(e) = 1
    BY DEF NextK, NextOff, NextAt
  <2> HIDE DEF F, e
  <2>4. Unread(F, 1, 0, wire, sent)
    BY <2>2 DEF Unread
  <2>5. ReaderAt(F, 1, 0, reader, Len(received), Len(record))
    BY <2>2, <2>3 DEF ReaderAt, Init
  <2>6. WriterAt(e, out, Len(sent))
    BY <2>3 DEF WriterAt, Init
  <2>7. Stream(F, 1, 0)
    BY <2>2, <2>3, <2>4, <2>5, <2>6 DEF Stream, Init
  <2>8. QED
    BY <2>2, <2>7 DEF StreamOK
<1>5. QED
  BY <1>1, <1>2, <1>3, <1>4 DEF IInv

\* SendRecord: the records before are as they were.
LEMMA SendRecordStep ==
  ASSUME IInv, SendRecord
  PROVE  IInv'
<1>1. PICK n \in Lengths : sent' = Append(sent, Data(Len(sent) + 1, n))
  BY DEF SendRecord
<1> DEFINE d == Data(Len(sent) + 1, n)
<1>2. n \in Nat
  BY SizeAssumption
<1>3. /\ sent \in Seq(Seq(Items)) /\ received \in Seq(Seq(Items))
      /\ wire \in Seq(Items) /\ record \in Seq(Items)
  BY DEF IInv, Types
<1>4. d \in Seq(Items) /\ Len(d) = n
  BY <1>2, <1>3, DataType
<1> HIDE DEF d
<1>5. /\ sent' \in Seq(Seq(Items)) /\ Len(sent') = Len(sent) + 1
      /\ \A k \in 1 .. Len(sent) : sent'[k] = sent[k]
      /\ sent'[Len(sent) + 1] = d
  BY <1>1, <1>3, <1>4 DEF d
<1>6. out' = [pc |-> "fragment", total |-> 0] /\ open /\ open' = open
      /\ out.pc = "idle" /\ Len(sent) < MaxRecords
      /\ UNCHANGED <<writer, wire, reader, record, capacity, received>>
  BY DEF SendRecord, reading
<1>7. Types'
  BY <1>5, <1>6 DEF IInv, Types
<1>8. DataOK'
  <2>1. ASSUME NEW k \in 1 .. Len(sent')
        PROVE  sent'[k] = Data(k, Len(sent'[k]))
    <3>1. CASE k \in 1 .. Len(sent)
      BY <1>5, <3>1 DEF IInv, DataOK
    <3>2. CASE k = Len(sent) + 1
      BY <1>4, <1>5, <3>2 DEF d
    <3>3. QED
      BY <1>3, <1>5, <3>1, <3>2
  <2>2. \A k \in 1 .. Len(received) : k \in 1 .. Len(sent)
    BY <1>3 DEF IInv, DataOK
  <2>3. \A k \in 1 .. Len(received') : received'[k] = sent'[k]
    BY <1>5, <1>6, <2>2 DEF IInv, DataOK
  <2>4. Len(sent') <= MaxRecords /\ Len(sent') > 0
        /\ Len(received') <= Len(sent')
        /\ (reader'.pc = "exceeded" => Len(received') < Len(sent'))
    BY <1>3, <1>5, <1>6, SizeAssumption DEF IInv, DataOK
  <2>5. record' = Data(Len(received') + 1, Len(record'))
    BY <1>6 DEF IInv, DataOK
  <2>6. QED
    BY <2>1, <2>3, <2>4, <2>5 DEF DataOK
<1>9. BufferOK' /\ WithinAccepted'
  <2>1. BufferOK'
    BY <1>6 DEF IInv, BufferOK
  <2>2. ASSUME reader.pc = "exceeded"
        PROVE  sent'[Len(received) + 1] = sent[Len(received) + 1]
    <3>1. Len(received) < Len(sent)
      BY <2>2 DEF IInv, DataOK
    <3>2. Len(received) + 1 \in 1 .. Len(sent)
      BY <1>3, <3>1
    <3>3. QED
      BY <1>5, <3>2
  <2>3. WithinAccepted'
    BY <1>6, <2>2 DEF IInv, WithinAccepted
  <2>4. QED
    BY <2>1, <2>3
<1>10. StreamOK'
  <2> SUFFICES ASSUME reader.pc \in {"header", "copy"}
               PROVE  StreamOK'
    BY <1>6 DEF StreamOK
  <2>1. PICK F \in Seq(Fragments), r \in Nat, base \in Nat : Stream(F, r, base)
    BY DEF IInv, StreamOK
  <2> DEFINE e == F[Len(F)]
  <2>2. r \in 1 .. Len(F) /\ Len(F) \in Nat /\ e \in Fragments
    BY <2>1 DEF Stream
  <2>3. \A j \in r + 1 .. Len(F) : F[j] \in Fragments
    BY <2>2
  <2>4. Unread(F, r, base, wire', sent')
    <3> SUFFICES ASSUME NEW j \in r + 1 .. Len(F)
                 PROVE  PartOf(F[j], sent')
      BY <1>6, <2>1 DEF Unread, Stream
    <3>1. PartOf(F[j], sent)
      BY <2>1 DEF Unread, Stream
    <3>2. QED
      BY <1>1, <1>3, <1>4, <2>3, <3>1, PartOfMore DEF d
  <2>5. WriterAt(e, out, Len(sent))'
    BY <1>3, <1>5, <1>6, <2>1, <2>2, NextTypes DEF WriterAt, Stream
  <2>6. Stream(F, r, base)'
    BY <1>6, <2>1, <2>2, <2>4, <2>5 DEF Stream
  <2>7. QED
    BY <2>1, <2>6 DEF StreamOK
<1>11. QED
  BY <1>7, <1>8, <1>9, <1>10 DEF IInv

\* Cut: what is left under way is what was put.
LEMMA CutStep ==
  ASSUME IInv, Cut
  PROVE  IInv'
<1>1. PICK n \in 0 .. Len(wire) : wire' = SubSeq(wire, 1, n)
  BY DEF Cut
<1>2. /\ ~open' /\ open' \in BOOLEAN
      /\ UNCHANGED <<writer, sent, out, reader, record, capacity, received>>
  BY DEF Cut, writing, reading
<1>3. wire \in Seq(Items)
  BY DEF IInv, Types
<1>4. wire' \in Seq(Items) /\ Len(wire') = n
  BY <1>1, <1>3
<1>5. Types' /\ DataOK' /\ BufferOK' /\ WithinAccepted'
  BY <1>2, <1>4 DEF IInv, Types, DataOK, BufferOK, WithinAccepted
<1>6. StreamOK'
  <2> SUFFICES ASSUME reader.pc \in {"header", "copy"}
               PROVE  StreamOK'
    BY <1>2 DEF StreamOK
  <2>1. PICK F \in Seq(Fragments), r \in Nat, base \in Nat : Stream(F, r, base)
    BY DEF IInv, StreamOK
  <2>2. r \in 1 .. Len(F) /\ Len(F) \in Nat
    BY <2>1 DEF Stream
  <2>3. Unread(F, r, base, wire', sent')
    <3> SUFFICES ASSUME NEW j \in r + 1 .. Len(F)
                 PROVE  UnderWay(F[j], wire', base)
      BY <1>2, <2>1 DEF Unread, Stream
    <3>1. UnderWay(F[j], wire, base)
      BY <2>1 DEF Unread, Stream
    <3>2. QED
      BY <1>1, <1>3, <2>1, <2>2, <3>1, UnderWayCut
  <2>4. F[Len(F)] \in Fragments
    BY <2>1, <2>2
  <2>5. Len(wire') <= NextAt(F[Len(F)]) - 1 - base
    <3>1. NextAt(F[Len(F)]) \in Nat
      BY <2>4, NextTypes
    <3>2. Len(wire) <= NextAt(F[Len(F)]) - 1 - base
      BY <2>1 DEF Stream
    <3>3. n <= Len(wire) /\ Len(wire) \in Nat /\ n \in Nat
      BY <1>3
    <3>4. QED
      BY <1>4, <3>1, <3>2, <3>3
  <2>6. Stream(F, r, base)'
    BY <1>2, <2>1, <2>2, <2>3, <2>5 DEF Stream
  <2>7. QED
    BY <2>1, <2>6 DEF StreamOK
<1>7. QED
  BY <1>5, <1>6 DEF IInv
-----------------------------------------------------------------------------
\* A piece of a sequence.
LEMMA Slice ==
  ASSUME NEW s \in Seq(Items), NEW m \in Nat, NEW n \in Nat, m + n <= Len(s)
  PROVE  LET v == SubSeq(s, m + 1, m + n) IN
         /\ v \in Seq(Items) /\ Len(v) = n
         /\ \A i \in 1 .. n : v[i] = s[m + i]
<1>1. \A i \in m + 1 .. m + n : s[i] \in Items
  OBVIOUS
<1>2. /\ SubSeq(s, m + 1, m + n) \in Seq(Items)
      /\ Len(SubSeq(s, m + 1, m + n)) =
           IF m + 1 <= m + n THEN (m + n) - (m + 1) + 1 ELSE 0
      /\ \A i \in 1 .. (m + n) - (m + 1) + 1 :
           SubSeq(s, m + 1, m + n)[i] = s[(m + 1) + i - 1]
  <2>1. m + 1 \in Int /\ m + n \in Int
    OBVIOUS
  <2>2. QED
    BY <1>1, <2>1, SubSeqProperties
<1>3. (m + n) - (m + 1) + 1 = n /\ \A i \in 1 .. n : (m + 1) + i - 1 = m + i
  OBVIOUS
<1>4. (IF m + 1 <= m + n THEN (m + n) - (m + 1) + 1 ELSE 0) = n
  OBVIOUS
<1>5. QED
  BY <1>2, <1>3, <1>4

\* A fragment is put, of WriteFullRecord or of a peer.
Put(size, last, t) ==
  /\ open /\ out.pc = "fragment"
  /\ PutFragment(out.total, size, last)
  /\ out.total + size <= Len(Current)
  /\ last => out.total + size = Len(Current)
  /\ out' = [pc |-> IF last THEN "idle" ELSE "fragment", total |-> t]
  /\ writer = "gonfs" =>
       /\ out.total <= maxRecordFragmentSize
       /\ ~last => t = out.total + HeaderSize + maxRecordFragmentSize
  /\ writer # "gonfs" /\ ~last => t = out.total + size
  /\ UNCHANGED <<writer, sent, open, reading>>

\* Put: the stream has one fragment more.
LEMMA PutStep ==
  ASSUME IInv,
         NEW size \in 0 .. maxRecordFragmentSize, NEW last \in BOOLEAN,
         NEW t \in Nat, Put(size, last, t)
  PROVE  IInv'
<1> DEFINE n == Len(sent)
           h == << <<0, createFragmentHeader(size, last)>> >>
           data == SubSeq(Current, out.total + 1, out.total + size)
<1>1. /\ sent \in Seq(Seq(Items)) /\ received \in Seq(Seq(Items))
      /\ wire \in Seq(Items) /\ Len(wire) \in Nat
      /\ out.total \in Nat
  BY DEF IInv, Types
<1>2. n \in Nat \ {0}
  BY <1>1 DEF IInv, DataOK, Put
<1>3. Current \in Seq(Items) /\ Current = sent[n]
  BY <1>1, <1>2 DEF Current, Last
<1>4. size \in Nat /\ out.total + size <= Len(Current)
      /\ (last => out.total + size = Len(Current))
  BY LastBitType DEF Put
<1>5. data \in Seq(Items) /\ Len(data) = size
      /\ \A i \in 1 .. size : data[i] = Current[out.total + i]
  BY <1>1, <1>3, <1>4, Slice
<1>6. \A i \in 1 .. size : data[i] = <<n, out.total + i>>
  <2>1. Current = Data(n, Len(Current))
    BY <1>2, <1>3 DEF IInv, DataOK
  <2>2. \A i \in 1 .. Len(Current) : Current[i] = <<n, i>>
    <3>1. Len(Current) \in Nat
      BY <1>3
    <3>2. \A i \in 1 .. Len(Current) : Data(n, Len(Current))[i] = <<n, i>>
      BY <1>2, <3>1, DataType
    <3>3. QED
      BY <2>1, <3>2
  <2>3. \A i \in 1 .. size : out.total + i \in 1 .. Len(Current)
    BY <1>1, <1>3, <1>4
  <2>4. QED
    BY <1>5, <2>2, <2>3
<1>7. h \in Seq(Items) /\ Len(h) = 1
  BY HeaderRead DEF Items
<1>8. wire' = wire \o h \o data
  BY DEF Put, PutFragment
<1> HIDE DEF h, data
<1>9. /\ wire' \in Seq(Items) /\ Len(wire') = Len(wire) + 1 + size
      /\ wire' = wire \o (h \o data) /\ h \o data \in Seq(Items)
  <2>1. h \o data \in Seq(Items) /\ Len(h \o data) = 1 + size
    <3>1. h \in Seq(Items) /\ data \in Seq(Items)
      BY <1>5, <1>7
    <3>2. h \o data \in Seq(Items) /\ Len(h \o data) = Len(h) + Len(data)
      BY <3>1, ConcatProperties
    <3>3. Len(h) = 1 /\ Len(data) = size
      BY <1>5, <1>7
    <3>4. QED
      BY <3>2, <3>3
  <2>2. (wire \o h) \o data = wire \o (h \o data)
    <3>1. wire \in Seq(Items) /\ h \in Seq(Items) /\ data \in Seq(Items)
      BY <1>1, <1>5, <1>7
    <3>2. QED
      BY <3>1, ConcatAssociative
  <2>3. wire \o (h \o data) \in Seq(Items)
        /\ Len(wire \o (h \o data)) = Len(wire) + Len(h \o data)
    BY <1>1, <2>1, ConcatProperties
  <2>4. QED
    BY <1>1, <1>4, <1>8, <2>1, <2>2, <2>3
<1>10. /\ UNCHANGED <<writer, sent, open, reader, record, capacity, received>>
       /\ out' = [pc |-> IF last THEN "idle" ELSE "fragment", total |-> t]
       /\ open /\ out.pc = "fragment"
  BY DEF Put, reading
<1>11. Types'
  BY <1>9, <1>10 DEF IInv, Types
<1>12. DataOK'
  <2>1. Len(sent) > 0
    BY <1>2
  <2>2. QED
    BY <1>10, <2>1 DEF IInv, DataOK
<1>13. BufferOK' /\ WithinAccepted'
  BY <1>10 DEF IInv, BufferOK, WithinAccepted
<1>14. StreamOK'
  <2> SUFFICES ASSUME reader.pc \in {"header", "copy"}
               PROVE  StreamOK'
    BY <1>10 DEF StreamOK
  <2>1. PICK F \in Seq(Fragments), r \in Nat, base \in Nat : Stream(F, r, base)
    BY DEF IInv, StreamOK
  <2> DEFINE e == F[Len(F)]
  <2>2. r \in 1 .. Len(F) /\ Len(F) \in Nat /\ e \in Fragments
    BY <2>1 DEF Stream
  <2>3. NextAt(e) \in Nat \ {0} /\ NextOff(e) \in Nat /\ NextK(e) \in Nat
    BY <2>2, NextTypes
  <2>4. /\ WriterAt(e, out, n) /\ Len(wire) = NextAt(e) - 1 - base
        /\ Unread(F, r, base, wire, sent)
        /\ ReaderAt(F, r, base, reader, Len(received), Len(record))
    BY <1>10, <2>1 DEF Stream
  <2>5. NextK(e) = n /\ NextOff(e) = out.total
        /\ (writer = "gonfs" => out.total = 0)
    <3>1. HeaderSize + maxRecordFragmentSize > maxRecordFragmentSize
      BY LastBitType, SizeAssumption
    <3>2. ~(writer = "gonfs"
              /\ out.total = HeaderSize + maxRecordFragmentSize)
      BY <1>1, <3>1, LastBitType, SizeAssumption DEF Put
    <3>3. QED
      BY <1>10, <2>4, <3>2 DEF WriterAt
  <2>6. PICK g \in Fragments :
          /\ g.k = n /\ g.off = out.total /\ g.at = NextAt(e)
          /\ g.size = size /\ g.last = last
    <3>1. [k |-> n, off |-> out.total, at |-> NextAt(e), size |-> size,
           last |-> last] \in Fragments
      BY <1>1, <1>2, <2>3 DEF Fragments
    <3>2. QED
      BY <3>1
  <2> DEFINE G == Append(F, g)
  <2>7. /\ G \in Seq(Fragments) /\ Len(G) = Len(F) + 1
        /\ \A j \in 1 .. Len(F) : G[j] = F[j]
        /\ G[Len(F) + 1] = g
    BY <2>1
  <2> HIDE DEF G
  <2>8. NextAt(g) = NextAt(e) + size + 1
        /\ Len(wire) = NextAt(e) - 1 - base
        /\ size \in Nat /\ NextAt(e) \in Nat /\ Len(wire) \in Nat
    BY <1>1, <1>4, <2>3, <2>4, <2>6 DEF NextAt
  <2>9. UnderWay(g, wire', base)
    <3>1. g.at = Len(wire) + 1 + base
      BY <1>1, <2>3, <2>4, <2>6
    <3>2. Len(data) = g.size
          /\ \A i \in 1 .. g.size : data[i] = <<g.k, g.off + i>>
      BY <1>5, <1>6, <2>6
    <3>3. UnderWay(g, wire \o << <<0, createFragmentHeader(g.size, g.last)>> >>
                        \o data, base)
      BY <1>1, <1>5, <2>1, <2>6, <3>1, <3>2, UnderWayNew
    <3>4. QED
      BY <1>8, <2>6, <3>3 DEF h
  <2>10. PartOf(g, sent)
    BY <1>2, <1>3, <1>4, <2>6 DEF PartOf
  <2>11. Unread(G, r, base, wire', sent)
    <3>1. ASSUME NEW j \in r + 1 .. Len(F)
          PROVE  /\ PartOf(G[j], sent) /\ Follows(G[j - 1], G[j])
                 /\ UnderWay(G[j], wire', base)
                 /\ NextAt(G[j]) <= NextAt(g)
      <4>1. G[j] = F[j] /\ G[j - 1] = F[j - 1] /\ F[j] \in Fragments
        <5>1. j \in 1 .. Len(F) /\ j - 1 \in 1 .. Len(F)
          BY <2>2
        <5>2. QED
          BY <2>1, <2>7, <5>1
      <4>2. /\ PartOf(F[j], sent) /\ Follows(F[j - 1], F[j])
            /\ UnderWay(F[j], wire, base) /\ NextAt(F[j]) <= NextAt(e)
        BY <2>4 DEF Unread
      <4>3. NextAt(F[j]) - 1 - base <= Len(wire)
            /\ NextAt(F[j]) <= NextAt(g)
        <5>1. NextAt(F[j]) \in Nat /\ Len(wire) \in Nat
          BY <1>1, <4>1, NextTypes
        <5>2. QED
          BY <2>8, <4>2, <5>1
      <4>4. UnderWay(F[j], wire', base)
        BY <1>1, <1>9, <2>1, <4>1, <4>2, <4>3, UnderWayLonger
      <4>5. QED
        BY <4>1, <4>2, <4>3, <4>4
    <3>2. Follows(e, g)
      BY <2>5, <2>6 DEF Follows
    <3>3. NextAt(g) \in Nat
      BY <2>6, NextTypes
    <3>4. ASSUME NEW j \in r + 1 .. Len(G)
          PROVE  j \in r + 1 .. Len(F) \/ j = Len(F) + 1
      BY <2>2, <2>7
    <3>5. Len(F) \in 1 .. Len(F)
      BY <2>2
    <3>6. G[Len(F)] = e /\ G[Len(F) + 1] = g /\ (Len(F) + 1) - 1 = Len(F)
      BY <2>2, <2>7, <3>5
    <3>7. G[Len(G)] = g
      BY <2>7
    <3>8. ASSUME NEW j \in r + 1 .. Len(G)
          PROVE  /\ PartOf(G[j], sent) /\ Follows(G[j - 1], G[j])
                 /\ UnderWay(G[j], wire', base)
                 /\ NextAt(G[j]) <= NextAt(g)
      <4>1. CASE j \in r + 1 .. Len(F)
        BY <3>1, <4>1
      <4>2. CASE j = Len(F) + 1
        BY <2>9, <2>10, <3>2, <3>3, <3>6, <4>2
      <4>3. QED
        BY <3>4, <4>1, <4>2
    <3>9. QED
      BY <3>7, <3>8 DEF Unread
  <2>12. ReaderAt(G, r, base, reader, Len(received), Len(record))
    <3>1. G[r] = F[r]
      BY <2>2, <2>7
    <3>2. r < Len(F) => G[r + 1] = F[r + 1] /\ r < Len(G)
      BY <2>2, <2>7
    <3>3. QED
      BY <2>4, <3>1, <3>2 DEF ReaderAt
  <2>13. WriterAt(g, out, Len(sent))'
    <3>1. NextK(g) = IF last THEN n + 1 ELSE n
      BY <2>6 DEF NextK
    <3>2. NextOff(g) = IF last THEN 0 ELSE out.total + size
      BY <2>6 DEF NextOff
    <3>3. out'.pc = (IF last THEN "idle" ELSE "fragment") /\ out'.total = t
      BY <1>10
    <3>4. /\ ~last /\ writer = "gonfs" => t = HeaderSize + maxRecordFragmentSize
          /\ ~last /\ writer # "gonfs" => t = out.total + size
      BY <2>5, LastBitType, SizeAssumption DEF Put
    <3>5. QED
      BY <1>10, <3>1, <3>2, <3>3, <3>4 DEF WriterAt
  <2>14. Len(wire') = NextAt(g) - 1 - base
    BY <1>9, <2>8
  <2>15. r \in 1 .. Len(G) /\ G[Len(G)] = g
    BY <2>2, <2>7
  <2>16. Len(wire') <= NextAt(g) - 1 - base
    BY <1>1, <1>4, <1>9, <2>14
  <2>17. Stream(G, r, base)'
    BY <1>10, <2>11, <2>12, <2>13, <2>14, <2>15, <2>16 DEF Stream
  <2>18. QED
    BY <2>1, <2>7, <2>17 DEF StreamOK
<1>15. QED
  BY <1>11, <1>12, <1>13, <1>14 DEF IInv

\* PeerFragment puts a fragment.
LEMMA PeerFragmentStep ==
  ASSUME IInv, PeerFragment
  PROVE  IInv'
<1>1. PICK size \in 0 .. maxRecordFragmentSize, last \in BOOLEAN :
        /\ out.total + size <= Len(Current)
        /\ last => out.total + size = Len(Current)
        /\ PutFragment(out.total, size, last)
        /\ out' = [pc |-> IF last THEN "idle" ELSE "fragment",
                   total |-> out.total + size]
  BY DEF PeerFragment
<1>2. out.total + size \in Nat
  BY LastBitType DEF IInv, Types
<1>3. Put(size, last, out.total + size)
  BY <1>1 DEF PeerFragment, Put
<1>4. QED
  BY <1>1, <1>2, <1>3, PutStep

\* WriteFragment puts one, or ends the process.
LEMMA WriteFragmentStep ==
  ASSUME IInv, WriteFragment
  PROVE  IInv'
<1> DEFINE remaining == Len(Current) - out.total
           last == remaining <= maxRecordFragmentSize
           size == IF last THEN remaining ELSE maxRecordFragmentSize
<1>1. out.total \in Nat /\ maxRecordFragmentSize \in Nat
  BY LastBitType DEF IInv, Types
<1>2. Len(Current) \in Nat
  <2>1. sent \in Seq(Seq(Items)) /\ Len(sent) > 0
    BY DEF IInv, Types, DataOK, WriteFragment
  <2>2. Current \in Seq(Items)
    BY <2>1 DEF Current, Last
  <2>3. QED
    BY <2>2
<1>3. writer = "gonfs" /\ open /\ out.pc = "fragment" /\ UNCHANGED reading
  BY DEF WriteFragment
<1>4. CASE /\ 0 <= size /\ out.total <= size
           /\ PutFragment(out.total, size, last)
           /\ out' = [pc |-> IF last THEN "idle" ELSE "fragment",
                      total |-> out.total + HeaderSize + size]
           /\ UNCHANGED <<writer, sent, open>>
  <2>1. last \in BOOLEAN /\ size \in 0 .. maxRecordFragmentSize
    BY <1>1, <1>2, <1>4
  <2>2. /\ out.total + size <= Len(Current)
        /\ last => out.total + size = Len(Current)
        /\ out.total <= maxRecordFragmentSize
        /\ out.total + HeaderSize + size \in Nat
        /\ ~last => size = maxRecordFragmentSize
    BY <1>1, <1>2, <1>4, SizeAssumption
  <2> HIDE DEF last, size
  <2>3. Put(size, last, out.total + HeaderSize + size)
    BY <1>3, <1>4, <2>2 DEF Put
  <2>4. QED
    BY <2>1, <2>2, <2>3, PutStep
<1>5. CASE /\ out' = [out EXCEPT !.pc = "panic"]
           /\ open' = FALSE
           /\ UNCHANGED <<writer, sent, wire>>
  <2>1. UNCHANGED <<writer, sent, wire, reader, record, capacity, received>>
    BY <1>3, <1>5 DEF reading
  <2>2. out' = [pc |-> "panic", total |-> out.total]
    BY <1>5 DEF IInv, Types
  <2>3. Types'
    BY <1>1, <1>5, <2>1, <2>2 DEF IInv, Types
  <2>4. DataOK' /\ BufferOK' /\ WithinAccepted'
    BY <2>1, <2>2 DEF IInv, DataOK, BufferOK, WithinAccepted
  <2>5. ASSUME NEW F, NEW r, NEW base, Stream(F, r, base)
        PROVE  Stream(F, r, base)'
    BY <1>5, <2>1, <2>5 DEF Stream
  <2>6. StreamOK'
    BY <2>1, <2>5 DEF IInv, StreamOK
  <2>7. QED
    BY <2>3, <2>4, <2>6 DEF IInv
<1>6. QED
  BY <1>4, <1>5 DEF WriteFragment
-----------------------------------------------------------------------------
(* The reader's steps. *)

\* The fragment that the reader is before, or in.
LEMMA NextFragment ==
  ASSUME IInv,
         NEW F \in Seq(Fragments), NEW r \in Nat, NEW base \in Nat,
         Stream(F, r, base), r < Len(F)
  PROVE  /\ F[r] \in Fragments /\ F[r + 1] \in Fragments
         /\ PartOf(F[r + 1], sent) /\ Follows(F[r], F[r + 1])
         /\ UnderWay(F[r + 1], wire, base)
<1>1. r \in 1 .. Len(F) /\ Len(F) \in Nat
  BY DEF Stream
<1>2. r + 1 \in r + 1 .. Len(F) /\ r + 1 \in 1 .. Len(F) /\ (r + 1) - 1 = r
  BY <1>1
<1>3. QED
  BY <1>1, <1>2 DEF Stream, Unread

\* ReadError: nothing more is read.
LEMMA ReadErrorStep ==
  ASSUME IInv, ReadError
  PROVE  IInv'
<1>1. reader' = [reader EXCEPT !.pc = "error"]
      /\ UNCHANGED <<writer, sent, out, wire, open, record, capacity, received>>
  BY DEF ReadError, writing
<1>2. reader' = [pc |-> "error", left |-> reader.left, last |-> reader.last]
  BY <1>1 DEF IInv, Types
<1>3. Types'
  BY <1>1, <1>2 DEF IInv, Types
<1>4. DataOK' /\ BufferOK' /\ WithinAccepted' /\ StreamOK'
  BY <1>1, <1>2 DEF IInv, DataOK, BufferOK, WithinAccepted, StreamOK
<1>5. QED
  BY <1>3, <1>4 DEF IInv

\* ReadHeader: the reader is in the next fragment, or it does not fit.
LEMMA ReadHeaderStep ==
  ASSUME IInv, ReadHeader
  PROVE  IInv'
<1>1. /\ reader.pc = "header" /\ wire # <<>> /\ wire' = Tail(wire)
      /\ UNCHANGED <<writer, sent, out, open, record, capacity, received>>
  BY DEF ReadHeader, writing
<1>2. /\ sent \in Seq(Seq(Items)) /\ received \in Seq(Seq(Items))
      /\ wire \in Seq(Items) /\ Len(wire) \in Nat /\ record \in Seq(Items)
      /\ Len(record) \in Nat /\ capacity \in Nat
      /\ Len(received) \in Nat /\ Len(sent) \in Nat
  BY DEF IInv, Types
<1>3. /\ wire' \in Seq(Items) /\ Len(wire') = Len(wire) - 1
      /\ Len(wire) >= 1 /\ wire' = SubSeq(wire, 2, Len(wire))
  <2>1. Len(wire) # 0
    BY <1>1, <1>2, EmptySeq
  <2>2. QED
    BY <1>1, <1>2, <2>1, HeadTailProperties, TailIsSubSeq
<1>4. PICK F \in Seq(Fragments), r \in Nat, base \in Nat : Stream(F, r, base)
  BY <1>1 DEF IInv, StreamOK
<1> DEFINE e == F[Len(F)]
           f == F[r + 1]
<1>5. r \in 1 .. Len(F) /\ Len(F) \in Nat /\ e \in Fragments
  BY <1>4 DEF Stream
<1>6. NextAt(e) \in Nat \ {0} /\ Len(wire) <= NextAt(e) - 1 - base
  BY <1>4, <1>5, NextTypes DEF Stream
<1>7. NextK(F[r]) = Len(received) + 1 /\ NextOff(F[r]) = Len(record)
      /\ NextAt(F[r]) = base + 1
  BY <1>1, <1>4 DEF Stream, ReaderAt
<1>8. r < Len(F)
  <2>1. r # Len(F)
    BY <1>3, <1>6, <1>7, <1>2
  <2>2. QED
    BY <1>5, <2>1
<1>9. /\ f \in Fragments /\ PartOf(f, sent) /\ UnderWay(f, wire, base)
      /\ f.k = Len(received) + 1 /\ f.off = Len(record) /\ f.at = base + 1
  BY <1>4, <1>7, <1>8, NextFragment DEF Follows
<1>10. f.size \in 0 .. maxRecordFragmentSize /\ f.last \in BOOLEAN
       /\ f.size \in Nat
  BY <1>9, LastBitType DEF Fragments
<1>11. Head(wire)[2] = createFragmentHeader(f.size, f.last)
  <2>1. f.at - base = 1 /\ 1 \in 1 .. Len(wire)
    BY <1>2, <1>3, <1>9
  <2>2. wire[1] = <<0, createFragmentHeader(f.size, f.last)>>
    BY <1>9, <2>1 DEF UnderWay
  <2>3. Head(wire) = wire[1]
    BY <1>1, <1>2
  <2>4. QED
    BY <2>2, <2>3
<1>12. reader' = [pc |-> IF Room(f.size) THEN "copy" ELSE "exceeded",
                  left |-> f.size, last |-> f.last]
  <2>1. /\ getFragmentSize(createFragmentHeader(f.size, f.last)) = f.size
        /\ isLastFragment(createFragmentHeader(f.size, f.last)) \in BOOLEAN
        /\ isLastFragment(createFragmentHeader(f.size, f.last)) <=> f.last
    BY <1>10, HeaderRead DEF isLastFragment
  <2>2. isLastFragment(createFragmentHeader(f.size, f.last)) = f.last
    BY <1>10, <2>1
  <2>3. QED
    BY <1>11, <2>1, <2>2 DEF ReadHeader
<1> HIDE DEF f, e
<1>13. /\ reader'.left = f.size /\ reader'.last = f.last
       /\ reader'.pc \in {"copy", "exceeded"}
       /\ reader'.pc = "copy" => f.size <= capacity - Len(record)
       /\ reader'.pc = "exceeded" => ~(f.size <= capacity - Len(record))
       /\ reader' \in [pc : {"header", "copy", "exceeded", "error"},
                       left : 0 .. maxRecordFragmentSize, last : BOOLEAN]
  <2>1. CASE Room(f.size)
    BY <1>10, <1>12, <2>1 DEF Room
  <2>2. CASE ~Room(f.size)
    BY <1>10, <1>12, <2>2 DEF Room
  <2>3. QED
    BY <2>1, <2>2
<1>14. Types'
  BY <1>1, <1>3, <1>13 DEF IInv, Types
<1>15. f.k \in 1 .. Len(sent) /\ f.off + f.size <= Len(sent[f.k])
  BY <1>9 DEF PartOf
<1>16. DataOK'
  BY <1>1, <1>2, <1>9, <1>15 DEF IInv, DataOK
<1>17. BufferOK'
  <2>1. maxRecordSize <= capacity /\ Len(record) <= capacity
    BY DEF IInv, BufferOK
  <2>2. reader'.pc = "copy" => Len(record) + f.size <= capacity
    BY <1>2, <1>10, <1>13
  <2>3. QED
    BY <1>1, <1>13, <2>1, <2>2 DEF BufferOK
<1>18. WithinAccepted'
  <2> SUFFICES ASSUME reader'.pc = "exceeded"
               PROVE  Len(sent[Len(received) + 1]) > maxRecordSize
    BY <1>1 DEF WithinAccepted
  <2>1. Len(record) + f.size > capacity
    BY <1>2, <1>10, <1>13
  <2>2. Len(sent[f.k]) \in Nat
    BY <1>2, <1>15
  <2>3. maxRecordSize <= capacity /\ maxRecordSize \in Nat
    BY SizeAssumption DEF IInv, BufferOK
  <2>4. Len(record) + f.size <= Len(sent[Len(received) + 1])
    BY <1>9, <1>15
  <2>5. /\ capacity \in Nat /\ Len(record) \in Nat /\ f.size \in Nat
        /\ Len(sent[Len(received) + 1]) \in Nat
    BY <1>2, <1>9, <1>10, <2>2
  <2>6. QED
    BY <2>1, <2>3, <2>4, <2>5
<1>19. StreamOK'
  <2>1. Unread(F, r, base + 1, wire', sent')
    <3>1. ASSUME NEW j \in r + 1 .. Len(F)
          PROVE  UnderWay(F[j], wire', base + 1)
      <4>1. F[j] \in Fragments /\ UnderWay(F[j], wire, base)
        BY <1>4, <1>5 DEF Stream, Unread
      <4>2. 1 \in 0 .. Len(wire) /\ 1 + 1 = 2
        BY <1>2, <1>3
      <4>3. UnderWay(F[j], SubSeq(wire, 1 + 1, Len(wire)), base + 1)
        BY <1>2, <1>4, <4>1, <4>2, UnderWayTaken
      <4>4. QED
        BY <1>3, <4>2, <4>3
    <3>2. QED
      BY <1>1, <1>4, <3>1 DEF Stream, Unread
  <2>2. ReaderAt(F, r, base + 1, reader, Len(received), Len(record))'
    BY <1>1, <1>8, <1>9, <1>13 DEF ReaderAt, f
  <2>3. Len(wire') <= NextAt(e) - 1 - (base + 1)
        /\ (Len(wire) = NextAt(e) - 1 - base =>
              Len(wire') = NextAt(e) - 1 - (base + 1))
    BY <1>2, <1>3, <1>6
  <2>4. open' => WriterAt(e, out, Len(sent))'
                 /\ Len(wire') = NextAt(e) - 1 - (base + 1)
    <3>1. open => WriterAt(e, out, Len(sent))
                  /\ Len(wire) = NextAt(e) - 1 - base
      BY <1>4 DEF Stream, e
    <3>2. QED
      BY <1>1, <2>3, <3>1 DEF WriterAt
  <2>5. Stream(F, r, base + 1)'
    BY <1>5, <2>1, <2>2, <2>3, <2>4 DEF Stream, e
  <2>6. base + 1 \in Nat
    OBVIOUS
  <2>7. QED
    BY <1>4, <2>5, <2>6 DEF StreamOK
<1>20. QED
  BY <1>14, <1>16, <1>17, <1>18, <1>19 DEF IInv
-----------------------------------------------------------------------------
\* Bytes that follow each other are one piece of a record.
LEMMA DataJoined ==
  ASSUME NEW k \in Nat, NEW m \in Nat, NEW v \in Seq(Items),
         \A i \in 1 .. Len(v) : v[i] = <<k, m + i>>
  PROVE  Data(k, m) \o v = Data(k, m + Len(v))
<1> DEFINE n == Len(v)
           s == Data(k, m)
           t == Data(k, m + n)
<1>0. n \in Nat /\ m + n \in Nat
  OBVIOUS
<1>1. /\ s \in Seq(Items) /\ Len(s) = m /\ \A i \in 1 .. m : s[i] = <<k, i>>
      /\ t \in Seq(Items) /\ Len(t) = m + n
      /\ \A i \in 1 .. m + n : t[i] = <<k, i>>
  BY <1>0, DataType
<1> HIDE DEF s, t
<1>2. /\ s \o v \in Seq(Items) /\ Len(s \o v) = m + n
      /\ \A i \in 1 .. m + n :
           (s \o v)[i] = IF i <= m THEN s[i] ELSE v[i - m]
  BY <1>1, ConcatProperties
<1>3. ASSUME NEW i \in 1 .. m + n
      PROVE  (s \o v)[i] = t[i]
  <2>0. (s \o v)[i] = (IF i <= m THEN s[i] ELSE v[i - m])
        /\ t[i] = <<k, i>> /\ (i <= m \/ i > m)
    BY <1>1, <1>2
  <2>1. CASE i <= m
    <3>1. i \in 1 .. m
      BY <2>1
    <3>2. s[i] = <<k, i>>
      BY <1>1, <3>1
    <3>3. QED
      BY <2>0, <2>1, <3>2
  <2>2. CASE i > m
    <3>1. i - m \in 1 .. n /\ m + (i - m) = i /\ ~(i <= m)
      BY <2>2
    <3>2. v[i - m] = <<k, i>>
      BY <3>1
    <3>3. QED
      BY <2>0, <3>1, <3>2
  <2>3. QED
    BY <2>0, <2>1, <2>2
<1>4. s \o v = t
  BY <1>1, <1>2, <1>3, SeqEqual
<1>5. QED
  BY <1>4 DEF s, t

\* CopyFragment: the buffer has the bytes of the record up to here.
LEMMA CopyFragmentStep ==
  ASSUME IInv, CopyFragment
  PROVE  IInv'
<1> DEFINE left == reader.left
           piece == SubSeq(wire, 1, left)
           whole == record \o piece
           n == Len(received)
<1>1. /\ reader.pc = "copy" /\ Len(wire) >= left
      /\ wire' = SubSeq(wire, left + 1, Len(wire))
      /\ reader' = [reader EXCEPT !.pc = "header"]
      /\ UNCHANGED <<writer, sent, out, open>>
  BY DEF CopyFragment, writing
<1>2. /\ reader.last => /\ received' = Append(received, whole)
                        /\ record' = <<>> /\ capacity' = maxRecordSize
      /\ ~reader.last => /\ record' = whole /\ capacity' = Grown(Len(whole))
                         /\ received' = received
  BY DEF CopyFragment, Joined
<1>3. /\ sent \in Seq(Seq(Items)) /\ received \in Seq(Seq(Items))
      /\ wire \in Seq(Items) /\ Len(wire) \in Nat /\ record \in Seq(Items)
      /\ Len(record) \in Nat /\ capacity \in Nat /\ left \in Nat
      /\ n \in Nat /\ Len(sent) \in Nat /\ reader.last \in BOOLEAN
      /\ left \in 0 .. maxRecordFragmentSize
  BY LastBitType DEF IInv, Types
<1>4. /\ piece \in Seq(Items) /\ Len(piece) = left
      /\ \A i \in 1 .. left : piece[i] = wire[i]
  <2>1. 0 + left <= Len(wire) /\ 0 + 1 = 1 /\ 0 + left = left
    BY <1>1, <1>3
  <2>2. \A i \in 1 .. left : 0 + i = i
    BY <1>3
  <2>3. /\ SubSeq(wire, 0 + 1, 0 + left) \in Seq(Items)
        /\ Len(SubSeq(wire, 0 + 1, 0 + left)) = left
        /\ \A i \in 1 .. left :
             SubSeq(wire, 0 + 1, 0 + left)[i] = wire[0 + i]
    BY <1>3, <2>1, Slice
  <2>4. QED
    BY <2>1, <2>2, <2>3
<1>5. wire' \in Seq(Items) /\ Len(wire') = Len(wire) - left
  BY <1>1, <1>3
<1>6. reader' = [pc |-> "header", left |-> left, last |-> reader.last]
  BY <1>1 DEF IInv, Types
<1> HIDE DEF piece
<1>7. PICK F \in Seq(Fragments), r \in Nat, base \in Nat : Stream(F, r, base)
  BY <1>1 DEF IInv, StreamOK
<1> DEFINE e == F[Len(F)]
           f == F[r + 1]
<1>8. r \in 1 .. Len(F) /\ Len(F) \in Nat /\ e \in Fragments
  BY <1>7 DEF Stream
<1>9. /\ r < Len(F) /\ f.k = n + 1 /\ f.off = Len(record) /\ f.at = base
      /\ f.size = left /\ f.last = reader.last
  BY <1>1, <1>7 DEF Stream, ReaderAt
<1>10. f \in Fragments /\ PartOf(f, sent) /\ UnderWay(f, wire, base)
  BY <1>7, <1>9, NextFragment
<1> HIDE DEF e, f
<1>11. \A i \in 1 .. left : piece[i] = <<n + 1, Len(record) + i>>
  <2>1. ASSUME NEW i \in 1 .. left
        PROVE  f.at + i - base = i /\ i \in 1 .. Len(wire)
    BY <1>1, <1>3, <1>9
  <2>2. ASSUME NEW i \in 1 .. left
        PROVE  wire[i] = <<n + 1, Len(record) + i>>
    BY <1>9, <1>10, <2>1 DEF UnderWay
  <2>3. QED
    BY <1>4, <2>2
<1>12. whole = Data(n + 1, Len(record) + left)
  <2>1. record = Data(n + 1, Len(record))
    BY DEF IInv, DataOK
  <2>2. n + 1 \in Nat
    BY <1>3
  <2>3. Data(n + 1, Len(record)) \o piece = Data(n + 1, Len(record) + left)
    <3>1. Len(record) \in Nat /\ left \in Nat
      BY <1>3
    <3>2. piece \in Seq(Items) /\ Len(piece) = left
      BY <1>4
    <3> DEFINE k == n + 1
               m == Len(record)
    <3>3. /\ k \in Nat /\ m \in Nat
          /\ \A i \in 1 .. left : piece[i] = <<k, m + i>>
      BY <1>11, <2>2, <3>1
    <3> HIDE DEF k, m, left
    <3>4. Data(k, m) \o piece = Data(k, m + Len(piece))
      BY <3>2, <3>3, DataJoined
    <3>5. QED
      BY <3>2, <3>4 DEF k, m
  <2>4. QED
    BY <2>1, <2>3
<1>13. whole \in Seq(Items) /\ Len(whole) = Len(record) + left
  <2>1. n + 1 \in Nat /\ Len(record) + left \in Nat
    BY <1>3
  <2> DEFINE k == n + 1
             m == Len(record) + left
  <2> HIDE DEF k, m
  <2>2. Data(k, m) \in Seq(Items) /\ Len(Data(k, m)) = m
    BY <2>1, DataType DEF k, m
  <2>3. QED
    BY <1>12, <2>2 DEF k, m
<1> HIDE DEF whole
<1>14. n + 1 \in 1 .. Len(sent)
  BY <1>9, <1>10 DEF PartOf
<1>15. ASSUME reader.last
       PROVE  whole = sent[n + 1]
  <2>1. Len(record) + left = Len(sent[n + 1])
    BY <1>9, <1>10, <1>15 DEF PartOf
  <2>2. sent[n + 1] = Data(n + 1, Len(sent[n + 1]))
    BY <1>14 DEF IInv, DataOK
  <2>3. QED
    BY <1>12, <2>1, <2>2
<1>16. ASSUME reader.last
       PROVE  /\ received' \in Seq(Seq(Items)) /\ Len(received') = n + 1
              /\ received'[n + 1] = whole
              /\ \A k \in 1 .. n : received'[k] = received[k]
              /\ Len(record') = 0 /\ record' \in Seq(Items)
              /\ capacity' = maxRecordSize
  <2>1. received' = Append(received, whole) /\ record' = <<>>
        /\ capacity' = maxRecordSize
    BY <1>2, <1>16
  <2>2. /\ Append(received, whole) \in Seq(Seq(Items))
        /\ Len(Append(received, whole)) = Len(received) + 1
        /\ \A k \in 1 .. Len(received) :
             Append(received, whole)[k] = received[k]
        /\ Append(received, whole)[Len(received) + 1] = whole
    BY <1>3, <1>13, AppendProperties
  <2>3. QED
    BY <2>1, <2>2
<1>17. ASSUME ~reader.last
       PROVE  capacity' \in Nat /\ capacity' >= capacity
              /\ Len(whole) <= capacity
  <2>1. Len(whole) <= capacity
    BY <1>1, <1>13 DEF IInv, BufferOK
  <2>2. QED
    BY <1>2, <1>3, <1>13, <1>17, <2>1, SizeAssumption DEF Grown
<1>18. Types'
  <2>1. reader' \in [pc : {"header", "copy", "exceeded", "error"},
                     left : 0 .. maxRecordFragmentSize, last : BOOLEAN]
    BY <1>3, <1>6
  <2>2. record' \in Seq(Items) /\ received' \in Seq(Seq(Items))
        /\ capacity' \in Nat
    BY <1>2, <1>3, <1>13, <1>16, <1>17, SizeAssumption
  <2>3. QED
    BY <1>1, <1>5, <2>1, <2>2 DEF IInv, Types
<1>19. DataOK'
  <2>1. Len(received') <= Len(sent) /\ Len(received') \in Nat
    BY <1>2, <1>3, <1>14, <1>16 DEF IInv, DataOK
  <2>2. ASSUME NEW k \in 1 .. Len(received')
        PROVE  received'[k] = sent[k]
    <3>1. CASE reader.last
      <4>1. k \in 1 .. n \/ k = n + 1
        BY <1>3, <1>16, <3>1
      <4>2. CASE k \in 1 .. n
        BY <1>16, <3>1, <4>2 DEF IInv, DataOK
      <4>3. CASE k = n + 1
        BY <1>15, <1>16, <3>1, <4>3
      <4>4. QED
        BY <4>1, <4>2, <4>3
    <3>2. CASE ~reader.last
      BY <1>2, <3>2 DEF IInv, DataOK
    <3>3. QED
      BY <3>1, <3>2
  <2>3. record' = Data(Len(received') + 1, Len(record'))
    <3>1. CASE reader.last
      BY <1>2, <1>16, <3>1 DEF Data
    <3>2. CASE ~reader.last
      BY <1>2, <1>12, <1>13, <3>2
    <3>3. QED
      BY <3>1, <3>2
  <2>4. reader'.pc # "exceeded"
    BY <1>6
  <2>5. QED
    BY <1>1, <2>1, <2>2, <2>3, <2>4 DEF IInv, DataOK
<1>20. BufferOK'
  <2>1. maxRecordSize <= capacity' /\ Len(record') <= capacity'
    <3>1. CASE reader.last
      BY <1>16, <3>1, SizeAssumption
    <3>2. CASE ~reader.last
      BY <1>2, <1>3, <1>13, <1>17, <3>2, SizeAssumption DEF IInv, BufferOK
    <3>3. QED
      BY <3>1, <3>2
  <2>2. QED
    BY <1>6, <2>1 DEF BufferOK
<1>21. WithinAccepted'
  BY <1>6 DEF WithinAccepted
<1>22. StreamOK'
  <2> DEFINE q == r + 1
             b == base + left
  <2> SUFFICES \E x \in Nat : x = b /\ Stream(F, q, x)'
    BY <1>7 DEF StreamOK
  <2>0. PICK x \in Nat : x = b
    BY <1>3
  <2> HIDE DEF b
  <2>1. Unread(F, q, x, wire', sent')
    <3>1. ASSUME NEW j \in q + 1 .. Len(F)
          PROVE  /\ PartOf(F[j], sent) /\ Follows(F[j - 1], F[j])
                 /\ NextAt(F[j]) <= NextAt(F[Len(F)])
                 /\ UnderWay(F[j], wire', x)
      <4>1. j \in r + 1 .. Len(F) /\ F[j] \in Fragments
        BY <1>7, <1>8
      <4>2. /\ PartOf(F[j], sent) /\ Follows(F[j - 1], F[j])
            /\ NextAt(F[j]) <= NextAt(F[Len(F)])
            /\ UnderWay(F[j], wire, base)
        BY <1>7, <4>1 DEF Stream, Unread
      <4>3. left \in 0 .. Len(wire)
        BY <1>1, <1>3
      <4>4. UnderWay(F[j], SubSeq(wire, left + 1, Len(wire)), base + left)
        BY <1>3, <1>7, <4>1, <4>2, <4>3, UnderWayTaken
      <4>5. QED
        BY <1>1, <2>0, <4>2, <4>4 DEF b
    <3>2. QED
      BY <1>1, <3>1 DEF Unread
  <2>2. ReaderAt(F, q, x, reader, Len(received), Len(record))'
    <3>1. /\ NextK(f) = IF reader.last THEN n + 2 ELSE n + 1
          /\ NextOff(f) = IF reader.last THEN 0 ELSE Len(record) + left
          /\ NextAt(f) = x + 1
      BY <1>3, <1>9, <2>0 DEF NextK, NextOff, NextAt, b
    <3>2. /\ Len(received') + 1 = IF reader.last THEN n + 2 ELSE n + 1
          /\ Len(record') = IF reader.last THEN 0 ELSE Len(record) + left
      BY <1>2, <1>3, <1>13, <1>16
    <3>3. QED
      BY <1>6, <3>1, <3>2 DEF ReaderAt, f
  <2>3. Len(wire) <= NextAt(e) - 1 - base /\ NextAt(e) \in Nat
    BY <1>7, <1>8, NextTypes DEF Stream, e
  <2>4. Len(wire') <= NextAt(e) - 1 - x
        /\ (Len(wire) = NextAt(e) - 1 - base =>
              Len(wire') = NextAt(e) - 1 - x)
    <3>1. x = base + left /\ left \in Nat /\ Len(wire) \in Nat
      BY <1>3, <2>0 DEF b
    <3>2. Len(wire') = Len(wire) - left
      BY <1>5
    <3> HIDE DEF left
    <3>3. QED
      BY <2>3, <3>1, <3>2
  <2>5. open' => WriterAt(e, out, Len(sent))' /\ Len(wire') = NextAt(e) - 1 - x
    <3>1. open => WriterAt(e, out, Len(sent))
                  /\ Len(wire) = NextAt(e) - 1 - base
      BY <1>7 DEF Stream, e
    <3>2. QED
      BY <1>1, <2>4, <3>1 DEF WriterAt
  <2>6. q \in 1 .. Len(F)
    BY <1>8, <1>9
  <2>7. Stream(F, q, x)'
    BY <2>1, <2>2, <2>4, <2>5, <2>6 DEF Stream, e
  <2>8. QED
    BY <2>0, <2>7
<1>23. QED
  BY <1>18, <1>19, <1>20, <1>21, <1>22 DEF IInv
-----------------------------------------------------------------------------
(* The theorems. *)

\* Every step keeps the invariant.
LEMMA NextIInv ==
  ASSUME IInv, [Next]_vars
  PROVE  IInv'
<1>1. CASE SendRecord
  BY <1>1, SendRecordStep
<1>2. CASE WriteFragment
  BY <1>2, WriteFragmentStep
<1>3. CASE PeerFragment
  BY <1>3, PeerFragmentStep
<1>4. CASE Cut
  BY <1>4, CutStep
<1>5. CASE ReadHeader
  BY <1>5, ReadHeaderStep
<1>6. CASE CopyFragment
  BY <1>6, CopyFragmentStep
<1>7. CASE ReadError
  BY <1>7, ReadErrorStep
<1>8. CASE UNCHANGED vars
  <2>1. UNCHANGED <<writer, sent, out, wire, open, reader, record, capacity,
                    received>>
    BY <1>8 DEF vars, writing, reading
  <2>2. ASSUME NEW F, NEW r, NEW base, Stream(F, r, base)
        PROVE  Stream(F, r, base)'
    BY <2>1, <2>2 DEF Stream, WriterAt
  <2>3. StreamOK'
    BY <2>1, <2>2 DEF IInv, StreamOK
  <2>4. Types' /\ DataOK' /\ BufferOK' /\ WithinAccepted'
    BY <2>1 DEF IInv, Types, DataOK, BufferOK, WithinAccepted
  <2>5. QED
    BY <2>3, <2>4 DEF IInv
<1>9. QED
  BY <1>1, <1>2, <1>3, <1>4, <1>5, <1>6, <1>7, <1>8
     DEF Next, ReadFullRecord

\* The reader is at a fragment of the stream that the writer put, and its
\* buffer has the bytes of the record so far.
THEOREM Invariance == Spec => []IInv
<1>1. Init => IInv
  BY InitIInv
<1>2. IInv /\ [Next]_vars => IInv'
  BY NextIInv
<1>3. QED
  BY <1>1, <1>2, PTL DEF Spec

\* The variables of the two loops have their types.
THEOREM TypeCorrect == Spec => []TypeOK
<1>1. IInv => TypeOK
  <2> SUFFICES ASSUME IInv
               PROVE  TypeOK
    OBVIOUS
  <2>1. Types /\ DataOK /\ BufferOK
    BY DEF IInv
  <2>2. QED
    BY <2>1 DEF Types, DataOK, BufferOK, TypeOK
<1>2. QED
  BY <1>1, Invariance, PTL

\* WriteFullRecord, ReadFullRecord: what is returned is what was sent, whole
\* and in order, for fragments of any size and a connection cut anywhere.
THEOREM Intact == Spec => []RecordsIntact
<1>1. IInv => RecordsIntact
  <2> SUFFICES ASSUME IInv
               PROVE  RecordsIntact
    OBVIOUS
  <2>1. /\ sent \in Seq(Seq(Items)) /\ received \in Seq(Seq(Items))
        /\ Len(received) <= Len(sent)
        /\ \A k \in 1 .. Len(received) : received[k] = sent[k]
    BY DEF IInv, Types, DataOK
  <2> DEFINE n == Len(received)
             s == SubSeq(sent, 1, n)
             t == SubSeq(received, 1, n)
  <2>2. n \in Nat /\ Len(s) = n /\ Len(t) = n
        /\ s \in Seq(Seq(Items)) /\ t \in Seq(Seq(Items))
        /\ \A k \in 1 .. n : s[k] = sent[k] /\ t[k] = received[k]
    BY <2>1
  <2> HIDE DEF s, t
  <2>3. s = t
    BY <2>1, <2>2, SeqEqual
  <2>4. QED
    BY <2>1, <2>3 DEF RecordsIntact, IsPrefix, s, t
<1>2. QED
  BY <1>1, Invariance, PTL

\* ReadFullRecord: a record that is within maxRecordSize is never refused.
THEOREM WithinLimit == Spec => []WithinAccepted
<1>1. IInv => WithinAccepted
  BY DEF IInv
<1>2. QED
  BY <1>1, Invariance, PTL
=============================================================================
